---------------------------- MODULE Orchestrator ----------------------------
(***************************************************************************)
(* The orchestrator process: its poll loop, execute_run with every await   *)
(* that reads or changes shared state as a step of its own, the watcher    *)
(* task that runs beside it, and the death and restart of the process.     *)
(*                                                                         *)
(* The session keeps its objects across commits, so the process acts on    *)
(* the status it last wrote itself (outcome), never on what the row holds  *)
(* by then.  An UPDATE the trigger rejects leaves the session unusable:    *)
(* the handlers and the finally block of execute_run touch the expired run *)
(* before anything else and raise again, so the exception reaches the poll *)
(* loop with the teardown and the settling skipped.                        *)
(***************************************************************************)
EXTENDS RunStore, HostAgent

CONSTANTS
  NoRun,        \* the process is between runs
  MaxAttempts,  \* probes of an unreachable agent before the run is failed
  MaxCrashes    \* bound on the deaths of the process in a behaviour
ASSUME NoRunAssumption == NoRun \notin Run
ASSUME MaxAttemptsAssumption == MaxAttempts \in Nat \ {0}
ASSUME MaxCrashesAssumption == MaxCrashes \in Nat

VARIABLES
  pc,         \* the await execute_run is at
  cur,        \* the run being executed
  started,    \* server_started
  outcome,    \* run.status in memory, once it is terminal
  cancel,     \* the asyncio.Event the watcher sets
  attempt,    \* failed probes of the host so far
  crashes

procVars == <<pc, cur, started, outcome, cancel, attempt>>
orchVars == <<procVars, crashes>>

(* Before the run's final commit, then after it. *)
Working == {"check", "reach", "status", "swap", "start", "loading", "ready",
            "request", "bench", "signal", "drain", "record", "finish"}
Closing == {"teardown", "stop", "settle", "count", "close"}

OrchTypeOK ==
  /\ pc \in {"idle"} \cup Working \cup Closing
  /\ cur \in Run \cup {NoRun}
  /\ started \in BOOLEAN
  /\ outcome \in Final \cup {"none"}
  /\ cancel \in BOOLEAN
  /\ attempt \in 0..MaxAttempts
  /\ crashes \in 0..MaxCrashes

OrchInit ==
  /\ pc = "idle"
  /\ cur = NoRun
  /\ started = FALSE
  /\ outcome = "none"
  /\ cancel = FALSE
  /\ attempt = 0
  /\ crashes = 0

host == hostOf[cur]
Answers == agent[host] = "up"

Goto(label) == pc' = label
Idle ==
  /\ Goto("idle")
  /\ cur' = NoRun
  /\ started' = FALSE
  /\ outcome' = "none"
  /\ cancel' = FALSE
  /\ attempt' = 0

(* The phases of execute_run that leave its other locals alone. *)
Local == <<cur, started, cancel, crashes>>
(* raise RunCancelled, RunFailed or anything else: caught, and to be recorded. *)
Raise(final) ==
  /\ Goto("finish")
  /\ outcome' = final
  /\ UNCHANGED attempt
Proceed(label) ==
  /\ Goto(label)
  /\ UNCHANGED <<outcome, attempt>>

-----------------------------------------------------------------------------
(* claim_next_run: one transaction that locks the first queued run.          *)
Claim ==
  /\ pc = "idle"
  /\ \E r \in FirstOf(Queued) :
       /\ SetStatus({r}, "starting")
       /\ sweep' = [s \in Sweep |->
            IF s = sweepOf[r] /\ sweep[s] = "queued" THEN "running" ELSE sweep[s]]
       /\ cur' = r
  /\ Goto("check")
  /\ UNCHANGED <<summary, agentVars, started, outcome, cancel, attempt, crashes>>

(* The one look at the cancel event before the engine is started. *)
CheckCancel ==
  /\ pc = "check"
  /\ IF cancel THEN Raise("cancelled") ELSE Proceed("reach")
  /\ UNCHANGED <<storeVars, agentVars, Local>>

(* Mutant of ProbeAgain: the window never closes. *)
ProbeForever ==
  /\ attempt' = attempt + 1
  /\ UNCHANGED <<pc, outcome>>
ProbeAgain ==
  /\ attempt + 1 < MaxAttempts
  /\ attempt' = attempt + 1
  /\ UNCHANGED <<pc, outcome>>

(* _reach_host: only silence is retried, MaxAttempts times in all; a refused *)
(* token or another protocol version fails the run at once.                  *)
Reach ==
  /\ pc = "reach"
  /\ UNCHANGED <<storeVars, agentVars, cur, cancel, crashes>>
  /\ \/ /\ Answers
        /\ Proceed("status")
        /\ started' = TRUE
     \/ /\ Answers
        /\ Raise("failed")
        /\ UNCHANGED started
     \/ /\ ~Answers
        /\ ProbeAgain
        /\ UNCHANGED started
     \/ /\ ~Answers
        /\ attempt + 1 = MaxAttempts
        /\ Raise("failed")
        /\ UNCHANGED started

-----------------------------------------------------------------------------
(* _ensure_server.  Any of its calls may go unanswered; starting may also be *)
(* refused by the agent, and loading may fail there.                         *)

(* Mutant of Reusable: any ready engine will do. *)
AnyEngineReady == engine[host].state = "ready"
Reusable == engine[host] = Ready(configOf[cur])

AskStatus ==
  /\ pc = "status"
  /\ UNCHANGED <<storeVars, agentVars, Local>>
  /\ IF ~Answers THEN Raise("failed")
     ELSE IF Reusable THEN Proceed("ready")
     ELSE IF engine[host].state \in {"ready", "starting"} THEN Proceed("swap")
     ELSE Proceed("start")

StopOther ==
  /\ pc = "swap"
  /\ UNCHANGED <<storeVars, Local>>
  /\ \/ /\ Answers
        /\ StopServer(host)
        /\ Proceed("start")
     \/ /\ ~Answers
        /\ Raise("failed")
        /\ UNCHANGED agentVars

AskStart ==
  /\ pc = "start"
  /\ UNCHANGED <<storeVars, Local>>
  /\ \/ /\ Answers
        /\ StartEngine(cur)
        /\ Proceed("loading")
     \/ /\ Raise("failed")
        /\ UNCHANGED agentVars

(* The answer of the run's own handler.  What became of the engine since is  *)
(* not looked at.                                                            *)
AwaitReady ==
  /\ pc = "loading"
  /\ UNCHANGED <<storeVars, agentVars, Local>>
  /\ \/ /\ Answers
        /\ load[cur] = "ready"
        /\ Proceed("ready")
     \/ /\ ~Answers \/ load[cur] = "none"
        /\ Raise("failed")

(* An UPDATE of the claimed run, or the exception that escapes execute_run   *)
(* when the row is terminal already.                                         *)
Commit(new, label) ==
  /\ Writable(cur)
  /\ SetStatus({cur}, new)
  /\ Goto(label)
  /\ UNCHANGED <<sweep, agentVars, attempt, Local>>
(* Mutant of Escape: any commit may fail and nothing records it. *)
EscapeAnyhow ==
  /\ Idle
  /\ UNCHANGED <<storeVars, agentVars, crashes>>
Escape ==
  /\ ~Writable(cur)
  /\ Idle
  /\ UNCHANGED <<storeVars, agentVars, crashes>>

CommitBenchmarking ==
  /\ pc = "ready"
  /\ \/ /\ Commit("benchmarking", "request")
        /\ UNCHANGED <<summary, outcome>>
     \/ Escape

-----------------------------------------------------------------------------
(* _bench_or_cancel. *)

(* The request leaves, unless the config names no model; the agent refuses   *)
(* it when no engine is ready.                                               *)
RequestBench ==
  /\ pc = "request"
  /\ UNCHANGED <<storeVars, Local, agent, engine, load, faults>>
  /\ \/ /\ Answers
        /\ AcceptBench(cur)
        /\ Proceed("bench")
     \/ /\ Raise("failed")
        /\ UNCHANGED bench

(* Mutant of BenchReturns: an error from the agent is waited out. *)
BenchSucceeds ==
  /\ pc = "bench"
  /\ Answers
  /\ bench[cur] = "measured"
  /\ Proceed("record")
  /\ UNCHANGED <<storeVars, agentVars, Local>>
(* asyncio.wait woke up for the benchmark: it wins even if cancel is set. *)
BenchReturns ==
  /\ pc = "bench"
  /\ UNCHANGED <<storeVars, agentVars, Local>>
  /\ \/ /\ Answers
        /\ bench[cur] = "measured"
        /\ Proceed("record")
     \/ /\ ~Answers \/ bench[cur] = "failed"
        /\ Raise("failed")

(* It woke up for the event alone. *)
NoticeCancel ==
  /\ pc = "bench"
  /\ cancel
  /\ Proceed("signal")
  /\ UNCHANGED <<storeVars, agentVars, Local>>

(* cancel_bench: without an answer, whether or not the request got through,  *)
(* httpx's own error is raised, which nothing up to execute_run's last       *)
(* handler recognises.                                                       *)
CancelBench ==
  /\ pc = "signal"
  /\ UNCHANGED <<storeVars, Local, agent, engine, load, faults>>
  /\ \/ /\ Answers
        /\ SignalClient(host)
        /\ Proceed("drain")
     \/ /\ ~Answers
        /\ Raise("failed")
        /\ SignalClient(host) \/ UNCHANGED bench

(* Mutant of AwaitBench: the request is abandoned. *)
AbandonBench ==
  /\ pc = "drain"
  /\ Raise("cancelled")
  /\ UNCHANGED <<storeVars, agentVars, Local>>
(* The request is awaited to its end and its answer, or its loss, dropped. *)
AwaitBench ==
  /\ pc = "drain"
  /\ ~Answers \/ bench[cur] \in {"measured", "failed"}
  /\ Raise("cancelled")
  /\ UNCHANGED <<storeVars, agentVars, Local>>

-----------------------------------------------------------------------------
(* The final commit: the result and its summary together, or the failure. *)

RecordResult ==
  /\ pc = "record"
  /\ \/ /\ Commit("succeeded", "teardown")
        /\ summary' = summary \cup {cur}
        /\ outcome' = "succeeded"
     \/ Escape
     \/ /\ Raise("failed")          \* the payload does not fit the contract
        /\ UNCHANGED <<storeVars, agentVars, Local>>

(* _cancel_run and _fail *)
RecordEnd ==
  /\ pc = "finish"
  /\ \/ /\ Commit(outcome, IF started THEN "teardown" ELSE "settle")
        /\ UNCHANGED <<summary, outcome>>
     \/ Escape

-----------------------------------------------------------------------------
(* The finally block. *)

(* Mutant of KeepEngine: on whatever host the next run is. *)
KeepForAnyHost ==
  /\ outcome = "succeeded"
  /\ \E r \in FirstOf(Queued) : configOf[r] = configOf[cur]
(* Does the next queued run of this host want the loaded engine? *)
KeepEngine ==
  /\ outcome = "succeeded"
  /\ \E r \in FirstOf(QueuedOn(host)) : configOf[r] = configOf[cur]

LookAhead ==
  /\ pc = "teardown"
  /\ Proceed(IF KeepEngine THEN "settle" ELSE "stop")
  /\ UNCHANGED <<storeVars, agentVars, Local>>

(* A stop that fails is logged. *)
StopEngine ==
  /\ pc = "stop"
  /\ IF Answers THEN StopServer(host) ELSE UNCHANGED agentVars
  /\ Proceed("settle")
  /\ UNCHANGED <<storeVars, Local>>

(* Mutant of Unsettled: a sweep is only closed by a run that succeeded. *)
UnsettledSuccess ==
  /\ sweepOf[cur] # NoSweep
  /\ sweep[sweepOf[cur]] \in Active
  /\ outcome = "succeeded"
Unsettled == sweepOf[cur] # NoSweep /\ sweep[sweepOf[cur]] \in Active

(* settle_sweep reads the sweep ... *)
ReadSweep ==
  /\ pc = "settle"
  /\ UNCHANGED <<storeVars, agentVars, crashes>>
  /\ IF Unsettled
     THEN Goto("count") /\ UNCHANGED <<cur, started, outcome, cancel, attempt>>
     ELSE Idle

(* ... counts its runs, and with none outstanding decides ... *)
CountRuns ==
  /\ pc = "count"
  /\ UNCHANGED <<storeVars, agentVars, crashes>>
  /\ IF Outstanding(sweepOf[cur]) = {}
     THEN Goto("close") /\ UNCHANGED <<cur, started, outcome, cancel, attempt>>
     ELSE Idle

(* ... and writes what the counts amount to.  No run of the sweep can have   *)
(* changed since, so the verdict is computed here.                           *)
CloseSweep ==
  /\ pc = "close"
  /\ sweep' = [sweep EXCEPT ![sweepOf[cur]] = Verdict(sweepOf[cur])]
  /\ Idle
  /\ UNCHANGED <<status, summary, agentVars, crashes>>

-----------------------------------------------------------------------------
(* _watch_for_cancellation, on a session of its own while the run executes. *)
Watch ==
  /\ pc # "idle"
  /\ ~cancel
  /\ \/ sweepOf[cur] # NoSweep /\ sweep[sweepOf[cur]] = "cancelled"
     \/ status[cur] = "cancelled"
  /\ cancel' = TRUE
  /\ UNCHANGED <<storeVars, agentVars, pc, cur, started, outcome, attempt, crashes>>

(* The process dies and is started again.  Nothing is resumed: the next      *)
(* lifetime only ever looks for queued runs.                                 *)
Crash ==
  /\ pc # "idle"
  /\ crashes < MaxCrashes
  /\ crashes' = crashes + 1
  /\ Idle
  /\ UNCHANGED <<storeVars, agentVars>>

RunStep ==
  \/ Claim \/ CheckCancel \/ Reach
  \/ AskStatus \/ StopOther \/ AskStart \/ AwaitReady \/ CommitBenchmarking
  \/ RequestBench \/ BenchReturns \/ NoticeCancel \/ CancelBench \/ AwaitBench
  \/ RecordResult \/ RecordEnd
  \/ LookAhead \/ StopEngine \/ ReadSweep \/ CountRuns \/ CloseSweep
=============================================================================
