--------------------------- MODULE ControlPlaneInv ---------------------------
(***************************************************************************)
(* The inductive invariant behind the safety properties of ControlPlane,   *)
(* one named part per fact.                                                *)
(***************************************************************************)
EXTENDS ControlPlane

(* The labels of execute_run up to the BENCHMARKING commit, and from there   *)
(* to the final one.                                                         *)
Preparing == {"check", "reach", "status", "swap", "start", "loading", "ready"}
Measuring == {"request", "bench", "signal", "drain", "record"}

(* The process holds a run exactly while it is not idle, and remembers       *)
(* nothing of the one before.                                                *)
HoldsARun ==
  /\ (pc = "idle") <=> (cur = NoRun)
  /\ pc = "idle" => outcome = "none"

(* Where execute_run is tells what the row of its run says, unless a stale   *)
(* cancellation got there first; once it has ended, memory and row agree.    *)
RowFollowsRun ==
  /\ pc \in Preparing => status[cur] \in {"starting", "cancelled"} /\ outcome = "none"
  /\ pc \in Measuring => status[cur] \in {"benchmarking", "cancelled"} /\ outcome = "none"
  /\ pc = "finish" => /\ status[cur] \in InFlight \cup {"cancelled"}
                      /\ outcome \in {"failed", "cancelled"}
  /\ pc \in Closing => status[cur] = outcome /\ outcome \in Final

(* A sweep is absent exactly as long as all of its runs are. *)
SweepWithItsRuns ==
  \A r \in Run : sweepOf[r] # NoSweep =>
    (status[r] = "absent" <=> sweep[sweepOf[r]] = "absent")

(* A sweep being created has not been inserted. *)
CreatingIsAbsent == \A s \in creating : sweep[s] = "absent"

(* A cancel request knows every run of its sweep that is still queued. *)
CancelSeesQueued ==
  \A s \in cancelling :
    /\ sweep[s] # "absent"
    /\ RunsOf(s) \cap Queued \subseteq sawQueued[s]
    /\ sawQueued[s] \subseteq RunsOf(s)

(* A run was never benchmarked before it is claimed, nor in the preparation  *)
(* of its only execution; what is recorded has been measured.                *)
BenchFollowsRun ==
  /\ \A r \in Run : status[r] \in {"absent", "queued"} => bench[r] = "none"
  /\ pc \in Preparing \cup {"request"} => bench[cur] = "none"
  /\ pc = "record" => bench[cur] = "measured"

(* Nothing is outstanding in a sweep that is about to be closed. *)
NothingLeftToClose ==
  pc \in {"count", "close"} =>
    /\ sweepOf[cur] # NoSweep
    /\ pc = "close" => Outstanding(sweepOf[cur]) = {}

(* From the moment the start is asked for, the engine is the run's own or    *)
(* gone, and what was answered or found ready is not loading any more.       *)
EngineIsOwn ==
  pc \in {"loading", "ready"} \cup Measuring =>
    \/ engine[host] \in {NoEngine, Ready(configOf[cur])}
    \/ /\ engine[host] = Loading(configOf[cur])
       /\ pc = "loading" /\ load[cur] # "ready"

(* Without an outage or a crash nobody abandons a start: the one handler     *)
(* there is is the executing run's, and what it found ready is ready.        *)
StartIsAwaited ==
  crashes = 0 /\ faults = 0 =>
    /\ \A r \in Run : load[r] \in {"polling", "undoing"} => r = cur /\ pc = "loading"
    /\ pc = "loading" =>
         /\ load[cur] = "polling" => engine[host] = Loading(configOf[cur])
         /\ load[cur] = "ready" => engine[host] = Ready(configOf[cur])

(* Without an outage the client is gone by the time a failure is recorded. *)
ClientGoneAtEnd ==
  faults = 0 =>
    /\ \A h \in Host : agent[h] = "up"
    /\ pc \in {"finish", "teardown", "stop"} => bench[cur] \notin OnHost

(* A run in flight is being executed, as long as no process died. *)
InFlightIsHeld ==
  crashes = 0 =>
    \A r \in Run : status[r] \in InFlight => r = cur /\ pc \in Working

(* A row that turned terminal under the process belongs to a cancelled       *)
(* sweep.                                                                    *)
OverwrittenByCancel ==
  pc \in Working /\ status[cur] = "cancelled" =>
    sweepOf[cur] # NoSweep /\ sweep[sweepOf[cur]] = "cancelled"

(* A sweep with nothing left to run is being closed, as long as no process   *)
(* died.                                                                     *)
OpenSweepIsHeld ==
  crashes = 0 =>
    \A s \in Sweep : sweep[s] \in Active /\ Outstanding(s) = {} =>
      pc \in Closing /\ sweepOf[cur] = s

(* Without an outage or a crash an engine that served its run is still there *)
(* for the look-ahead.                                                       *)
EngineStaysUp ==
  /\ crashes = 0 /\ faults = 0
  /\ \/ pc \in {"ready"} \cup Measuring
     \/ pc = "teardown" /\ outcome = "succeeded"
  => engine[host] = Ready(configOf[cur])

(* A run that never reached its host was never benchmarked there.            *)
StartedBeforeBench ==
  /\ pc \in (Preparing \ {"check", "reach"}) \cup Measuring => started
  /\ pc = "finish" /\ ~started => bench[cur] = "none"

(* The executing run's start is under way, or failed and not yet recorded.   *)
OwnStartGoesOn(h) ==
  /\ engine[h].config = configOf[cur]
  /\ pc = "loading" \/ (pc = "finish" /\ started)

(* Short of crashes and outages every engine has a reason, or is the         *)
(* executing run's own, or about to be torn down ...                         *)
EngineAccountedFor ==
  crashes = 0 /\ faults = 0 =>
    \A h \in Host : engine[h] # NoEngine =>
      \/ HeldForAReason(h)
      \/ h = host /\ pc \in Working /\ engine[h] = Ready(configOf[cur])
      \/ h = host /\ OwnStartGoesOn(h)
      \/ h = host /\ pc \in {"teardown", "stop"}

(* ... and one that never became ready was left behind by a cancellation.    *)
HalfLoadedAccountedFor ==
  crashes = 0 /\ faults = 0 =>
    \A h \in Host : engine[h].state = "starting" =>
      \/ \E r \in RunsOn(h) : engine[h] = Loading(configOf[r]) /\ status[r] = "cancelled"
      \/ h = host /\ OwnStartGoesOn(h)
      \/ h = host /\ pc \in {"teardown", "stop"}

(* What the process holds and how far it is. *)
ProcessInv ==
  /\ HoldsARun
  /\ RowFollowsRun
  /\ InFlightIsHeld
  /\ OverwrittenByCancel

(* The rows of runs and sweeps against each other and the API's requests. *)
SweepInv ==
  /\ SweepWithItsRuns
  /\ CreatingIsAbsent
  /\ CancelSeesQueued
  /\ CancelledSweepDrained
  /\ NothingLeftToClose
  /\ SettledHonestly
  /\ OpenSweepIsHeld

(* The rows and the process against what is on the hosts. *)
HostInv ==
  /\ BenchFollowsRun
  /\ SucceededWasMeasured
  /\ EngineIsOwn
  /\ StartIsAwaited
  /\ EngineServesItsRun
  /\ ClientGoneAtEnd
  /\ EngineStaysUp
  /\ StartedBeforeBench
  /\ EngineAccountedFor
  /\ HalfLoadedAccountedFor

Inv == ProcessInv /\ SweepInv /\ HostInv
=============================================================================
