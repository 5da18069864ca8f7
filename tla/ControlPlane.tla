----------------------------- MODULE ControlPlane ----------------------------
(***************************************************************************)
(* The orchestrator, the API and the agents around one database, and what  *)
(* they owe each other.                                                    *)
(***************************************************************************)
EXTENDS Orchestrator, SweepApi

vars == <<storeVars, apiVars, agentVars, orchVars>>

Init == StoreInit /\ ApiInit /\ AgentInit /\ OrchInit

Execute == RunStep /\ UNCHANGED apiVars
WatchCancel == Watch /\ UNCHANGED apiVars
ProcessDies == Crash /\ UNCHANGED apiVars
ServeRequest == ApiStep /\ UNCHANGED <<agentVars, orchVars>>
OnAgent(A) == A /\ UNCHANGED <<storeVars, apiVars, orchVars>>

Next ==
  \/ Execute
  \/ WatchCancel
  \/ ProcessDies
  \/ ServeRequest
  \/ \E h \in Host : OnAgent(AgentStep(h)) \/ OnAgent(Outage(h))

Spec == Init /\ [][Next]_vars

(***************************************************************************)
(* Fairness.  The poll loop and the watcher are loops of one event loop    *)
(* that nothing else can block for ever; a request that was accepted is    *)
(* served to its end; loading an engine is bounded by its readiness        *)
(* timeout, a request that prepares a benchmark by the timeouts of its     *)
(* own calls and a signalled client has been told to exit.  Nobody is      *)
(* obliged to submit or cancel anything, and an outage need not end.       *)
(***************************************************************************)
BaseFairness ==
  /\ WF_vars(Execute)
  /\ WF_vars(WatchCancel)
  /\ \A s \in Sweep :
       /\ WF_vars(MaterializeSweep(s) /\ UNCHANGED <<agentVars, orchVars>>)
       /\ WF_vars((CommitCancel(s) \/ RejectCancel(s)) /\ UNCHANGED <<agentVars, orchVars>>)
  /\ \A r \in Run :
       /\ WF_vars(OnAgent(EndLoad(r)))
       /\ WF_vars(OnAgent(LaunchClient(r) \/ RefuseBench(r)))
       /\ WF_vars(OnAgent(bench[r] = "signalled" /\ EndBench(r)))

(* A benchmark ends by its own timeout at the latest, but that may be hours  *)
(* away: only a property that says so counts on it.                          *)
FairSpec == Spec /\ BaseFairness
BenchmarksEnd == \A r \in Run : WF_vars(OnAgent(EndBench(r)))

-----------------------------------------------------------------------------
TypeOK == StoreTypeOK /\ ApiTypeOK /\ AgentTypeOK /\ OrchTypeOK

(* A run that is reported as succeeded has its summary row and a benchmark   *)
(* that ran to its end behind it; no other run has a summary.                *)
SucceededWasMeasured ==
  /\ summary = {r \in Run : status[r] = "succeeded"}
  /\ \A r \in summary : bench[r] = "measured"

(* Until the answer to its benchmark is in, the engine the host reports is    *)
(* ready and is the one the run's config asks for: reuse, restarts and loads  *)
(* never put a measurement on another engine.  After an outage or a crash it  *)
(* may be gone, since a start that was abandoned then may still find its      *)
(* deadline passed, and stops whatever there is; but it is never another.     *)
EngineServesItsRun ==
  pc \in {"bench", "signal", "drain"} /\ bench[cur] \in OnHost
    => \/ engine[host] = Ready(configOf[cur])
       \/ engine[host] = NoEngine /\ faults + crashes > 0

(* Unless the agent got out of reach, an engine is only torn down once the   *)
(* run's client has exited.                                                  *)
ClientBeforeEngine ==
  faults = 0 /\ pc \in {"teardown", "stop"} => bench[cur] \notin OnHost

(* Short of the death of the process, a row says starting or benchmarking    *)
(* only while that very run is being executed: no exception path leaves one  *)
(* behind.                                                                   *)
NoRunStranded ==
  crashes = 0 =>
    \A r \in Run : status[r] \in InFlight => r = cur /\ pc \in Working

(* Nothing of a cancelled sweep is left for the orchestrator to claim. *)
CancelledSweepDrained ==
  \A s \in Sweep : sweep[s] = "cancelled" => RunsOf(s) \cap Queued = {}

(* A sweep reported as succeeded or failed has no run that can still change, *)
(* and deserves it: a failed run when failed, and otherwise none, and at     *)
(* least one success.                                                        *)
SettledHonestly ==
  \A s \in Sweep : sweep[s] \in {"succeeded", "failed"} =>
    /\ RunsOf(s) \cap Queued = {}
    /\ \A r \in RunsOf(s) : status[r] \notin InFlight
    /\ IF sweep[s] = "failed" THEN Ended(s, "failed") # {}
       ELSE Ended(s, "failed") = {} /\ Ended(s, "succeeded") # {}

(* Between runs, and short of the death of the process, an active sweep      *)
(* still has work to do: the last of its runs to end closed it.              *)
SettledOnTime ==
  crashes = 0 /\ pc = "idle" =>
    \A s \in Sweep : sweep[s] \in Active => Outstanding(s) # {}

(* Between runs, and short of a crash or an outage, an engine is only left   *)
(* loaded for a run of its host with its config that is queued -- or was,    *)
(* until it was cancelled or failed before it asked for an engine.           *)
HeldForAReason(h) ==
  \E r \in RunsOn(h) :
    /\ engine[h].config = configOf[r]
    /\ \/ status[r] \in {"queued", "cancelled"}
       \/ status[r] = "failed" /\ bench[r] = "none"
EngineHeldForAReason ==
  pc = "idle" /\ crashes = 0 /\ faults = 0 =>
    \A h \in Host : engine[h] # NoEngine => HeldForAReason(h)

(* The run table keeps the promises of the ledger. *)
Ledger == INSTANCE RunLedger WITH holding <- cur
RunLedgerKept == Ledger!Spec

(* While the process lives every queued run comes to an end, whatever its    *)
(* agent does and whatever happens to its sweep.                             *)
EveryRunEnds ==
  BenchmarksEnd => \A r \in Run : status[r] = "queued" ~> status[r] \in Final

(* ... and every sweep that was created is eventually closed. *)
EverySweepCloses ==
  BenchmarksEnd => \A s \in Sweep : sweep[s] \in Active ~> sweep[s] \in Final

(* A cancellation that finds the run's client running on the host stops it:  *)
(* the run does not wait for a benchmark that may not end by itself.         *)
CancelStopsRunningClient ==
  \A r \in Run :
    (/\ pc = "bench" /\ cur = r /\ bench[r] = "running"
     /\ sweepOf[r] # NoSweep /\ sweep[sweepOf[r]] = "cancelled") ~> cur # r
=============================================================================
