------------------------- MODULE ControlPlaneProofs -------------------------
(***************************************************************************)
(* Inv is inductive, and what follows from it: every safety property of    *)
(* ControlPlane, for any number of runs, sweeps, hosts and configs, any    *)
(* plan, and any bounds on outages, crashes and attempts.                  *)
(*                                                                         *)
(* Inv has three parts, and each is preserved by every step because of all *)
(* three: ProcessInv ties the process to the row of its run, SweepInv the  *)
(* rows of a sweep to each other and to the requests under way, HostInv    *)
(* both to the engines and the benchmark clients.  One lemma per part      *)
(* takes the actions one by one.                                           *)
(***************************************************************************)
EXTENDS ControlPlaneInv, TLAPS

USE SweepOfAssumption, HostOfAssumption, ConfigOfAssumption,
    CancellableAssumption, NoConfigAssumption, NoRunAssumption

-----------------------------------------------------------------------------
(* Type correctness. *)

LEMMA InitTyped == Init => TypeOK
<1> SUFFICES ASSUME Init PROVE TypeOK
  OBVIOUS
<1> USE MaxFaultsAssumption, MaxAttemptsAssumption, MaxCrashesAssumption DEF Init
<1>1. StoreTypeOK
  BY DEF StoreInit, StoreTypeOK, RunStatus, SweepStatus
<1>2. ApiTypeOK
  BY DEF ApiInit, ApiTypeOK
<1>3. AgentTypeOK
  BY DEF AgentInit, AgentTypeOK, Engine, BenchPhase, LoadPhase
<1>4. OrchTypeOK
  <2>1. attempt \in 0..MaxAttempts /\ crashes \in 0..MaxCrashes
    BY SMT DEF OrchInit
  <2>2. started \in BOOLEAN /\ cancel \in BOOLEAN
    BY Zenon DEF OrchInit
  <2> QED
    BY <2>1, <2>2 DEF OrchInit, OrchTypeOK
<1> QED
  BY <1>1, <1>2, <1>3, <1>4 DEF TypeOK

(* Going idle resets every local of execute_run to a value of its type. *)
LEMMA IdleTyped ==
  ASSUME crashes' \in 0..MaxCrashes, Idle
  PROVE  OrchTypeOK'
<1>1. attempt' \in 0..MaxAttempts
  BY MaxAttemptsAssumption, SMT DEF Idle
<1>2. started' \in BOOLEAN /\ cancel' \in BOOLEAN
  BY Zenon DEF Idle
<1> QED
  BY <1>1, <1>2 DEF Idle, Goto, OrchTypeOK

(* One step, action by action. *)
LEMMA TypeStep ==
  ASSUME TypeOK, ProcessInv, Next
  PROVE  TypeOK'
<1> USE DEF TypeOK, StoreTypeOK, ApiTypeOK, AgentTypeOK, OrchTypeOK,
            storeVars, apiVars, agentVars, orchVars, procVars,
            RunStatus, SweepStatus, Final, Active, InFlight, Working, Closing,
            BenchPhase, OnHost, Engine, NoEngine, Loading, Ready,
            SetStatus, SetBench, SetEngine, SetLoad, LoadPhase, Goto, Local, Raise, Proceed
<1>0. pc # "idle" => cur \in Run /\ host \in Host
  BY DEF ProcessInv, HoldsARun, host
<1>1. CASE Claim /\ UNCHANGED apiVars
  BY <1>1 DEF Claim, FirstOf, Queued
<1>2. CASE CheckCancel /\ UNCHANGED apiVars
  BY <1>2 DEF CheckCancel
<1>3. CASE Reach /\ UNCHANGED apiVars
  <2>1. attempt' \in 0..MaxAttempts
    BY <1>3, MaxAttemptsAssumption, SMT DEF Reach, ProbeAgain
  <2>2. started' \in BOOLEAN
    BY <1>3, Zenon DEF Reach
  <2>3. pc' \in {"idle"} \cup Working /\ outcome' \in Final \cup {"none"}
    BY <1>3 DEF Reach, ProbeAgain
  <2> QED
    BY <1>3, <2>1, <2>2, <2>3 DEF Reach
<1>4. CASE AskStatus /\ UNCHANGED apiVars
  BY <1>4 DEF AskStatus
<1>5. CASE StopOther /\ UNCHANGED apiVars
  BY <1>5 DEF StopOther, StopServer
<1>6. CASE AskStart /\ UNCHANGED apiVars
  BY <1>0, <1>6 DEF AskStart, StartEngine
<1>7. CASE AwaitReady /\ UNCHANGED apiVars
  BY <1>7 DEF AwaitReady
<1>8. CASE CommitBenchmarking /\ UNCHANGED apiVars
  <2>1. CASE Escape
    BY <1>8, <2>1, IdleTyped DEF Escape
  <2>2. CASE Commit("benchmarking", "request") /\ UNCHANGED <<summary, outcome>>
    BY <1>8, <2>2 DEF Commit
  <2> QED
    BY <1>8, <2>1, <2>2 DEF CommitBenchmarking
<1>9. CASE RequestBench /\ UNCHANGED apiVars
  BY <1>9 DEF RequestBench, AcceptBench
<1>10. CASE BenchReturns /\ UNCHANGED apiVars
  BY <1>10 DEF BenchReturns
<1>11. CASE NoticeCancel /\ UNCHANGED apiVars
  BY <1>11 DEF NoticeCancel
<1>12. CASE CancelBench /\ UNCHANGED apiVars
  BY <1>12 DEF CancelBench, SignalClient
<1>13. CASE AwaitBench /\ UNCHANGED apiVars
  BY <1>13 DEF AwaitBench
<1>14. CASE RecordResult /\ UNCHANGED apiVars
  <2>1. CASE Escape
    BY <1>14, <2>1, IdleTyped DEF Escape
  <2>2. CASE Commit("succeeded", "teardown") /\ summary' = summary \cup {cur}
             /\ outcome' = "succeeded"
    BY <1>0, <1>14, <2>2 DEF RecordResult, Commit
  <2>3. CASE Raise("failed") /\ UNCHANGED <<storeVars, agentVars, Local>>
    BY <1>14, <2>3
  <2> QED
    BY <1>14, <2>1, <2>2, <2>3 DEF RecordResult
<1>15. CASE RecordEnd /\ UNCHANGED apiVars
  <2>1. CASE Escape
    BY <1>15, <2>1, IdleTyped DEF Escape
  <2>2. CASE Commit(outcome, IF started THEN "teardown" ELSE "settle")
             /\ UNCHANGED <<summary, outcome>>
    <3>1. outcome \in RunStatus
      BY <1>15 DEF ProcessInv, RowFollowsRun, RecordEnd
    <3> QED
      BY <1>15, <2>2, <3>1 DEF Commit
  <2> QED
    BY <1>15, <2>1, <2>2 DEF RecordEnd
<1>16. CASE LookAhead /\ UNCHANGED apiVars
  BY <1>16 DEF LookAhead
<1>17. CASE StopEngine /\ UNCHANGED apiVars
  BY <1>17 DEF StopEngine, StopServer
<1>18. CASE ReadSweep /\ UNCHANGED apiVars
  <2>1. CASE Idle
    BY <1>18, <2>1, IdleTyped DEF ReadSweep
  <2>2. CASE Goto("count") /\ UNCHANGED <<cur, started, outcome, cancel, attempt>>
    BY <1>18, <2>2 DEF ReadSweep
  <2> QED
    BY <1>18, <2>1, <2>2 DEF ReadSweep
<1>19. CASE CountRuns /\ UNCHANGED apiVars
  <2>1. CASE Idle
    BY <1>19, <2>1, IdleTyped DEF CountRuns
  <2>2. CASE Goto("close") /\ UNCHANGED <<cur, started, outcome, cancel, attempt>>
    BY <1>19, <2>2 DEF CountRuns
  <2> QED
    BY <1>19, <2>1, <2>2 DEF CountRuns
<1>20. CASE CloseSweep /\ UNCHANGED apiVars
  <2>1. OrchTypeOK'
    BY ONLY TypeOK, <1>20, IdleTyped DEF TypeOK, OrchTypeOK, CloseSweep
  <2> QED
    BY <1>20, <2>1 DEF CloseSweep, Verdict
<1>21. CASE Watch /\ UNCHANGED apiVars
  <2>1. cancel' \in BOOLEAN
    BY <1>21, Zenon DEF Watch
  <2> QED
    BY <1>21, <2>1 DEF Watch
<1>22. CASE Crash /\ UNCHANGED apiVars
  <2>1. crashes' \in 0..MaxCrashes
    BY <1>22, MaxCrashesAssumption, SMT DEF Crash
  <2>2. OrchTypeOK'
    BY <1>22, <2>1, IdleTyped DEF Crash
  <2> QED
    BY <1>22, <2>2 DEF Crash
<1>23. CASE ServeRequest
  <2>1. CASE \E r \in Run : CreateRun(r)
    BY <1>23, <2>1 DEF ServeRequest, CreateRun
  <2>2. CASE \E s \in Sweep : CheckHostFree(s)
    BY <1>23, <2>2 DEF ServeRequest, CheckHostFree
  <2>3. CASE \E s \in Sweep : MaterializeSweep(s)
    BY <1>23, <2>3 DEF ServeRequest, MaterializeSweep
  <2>4. CASE \E s \in Sweep : ReadQueuedToCancel(s)
    BY <1>23, <2>4 DEF ServeRequest, ReadQueuedToCancel, ToCancel, RunsOf, Queued
  <2>5. CASE \E s \in Sweep : CommitCancel(s)
    BY <1>23, <2>5 DEF ServeRequest, CommitCancel, EndCancel
  <2>6. CASE \E s \in Sweep : RejectCancel(s)
    BY <1>23, <2>6 DEF ServeRequest, RejectCancel, EndCancel
  <2> QED
    BY <1>23, <2>1, <2>2, <2>3, <2>4, <2>5, <2>6 DEF ServeRequest, ApiStep
<1>24. CASE \E h \in Host : OnAgent(AgentStep(h)) \/ OnAgent(Outage(h))
  <2> SUFFICES ASSUME NEW h \in Host, OnAgent(AgentStep(h)) \/ OnAgent(Outage(h))
               PROVE  TypeOK'
    BY <1>24
  <2> USE DEF OnAgent
  <2>1. CASE \E r \in RunsOn(h) : EndLoad(r)
    BY <2>1 DEF EndLoad, FindReady, GiveUp, Undo, RunsOn
  <2>2. CASE \E r \in RunsOn(h) : LaunchClient(r)
    BY <2>2 DEF LaunchClient, RunsOn
  <2>3. CASE \E r \in RunsOn(h) : RefuseBench(r)
    BY <2>3 DEF RefuseBench, RunsOn
  <2>4. CASE \E r \in RunsOn(h) : EndBench(r)
    BY <2>4 DEF EndBench, RunsOn
  <2>5. CASE Cut(h)
    BY <2>5, MaxFaultsAssumption DEF Cut, MayFail
  <2>8. CASE Die(h)
    BY <2>8, MaxFaultsAssumption DEF Die, MayFail
  <2>6. CASE Reconnect(h)
    BY <2>6 DEF Reconnect
  <2>7. CASE RestartAgent(h)
    BY <2>7 DEF RestartAgent
  <2> QED
    BY <2>1, <2>2, <2>3, <2>4, <2>5, <2>6, <2>7, <2>8 DEF AgentStep, Outage
<1> HIDE DEF TypeOK
<1> QED
  BY <1>1, <1>2, <1>3, <1>4, <1>5, <1>6, <1>7, <1>8, <1>9, <1>10, <1>11,
     <1>12, <1>13, <1>14, <1>15, <1>16, <1>17, <1>18, <1>19, <1>20, <1>21,
     <1>22, <1>23, <1>24
  DEF Next, Execute, RunStep, WatchCancel, ProcessDies

-----------------------------------------------------------------------------
(* Inv holds initially. *)
LEMMA InitInv == Init => Inv
<1> SUFFICES ASSUME Init PROVE Inv
  OBVIOUS
<1> USE DEF Init, StoreInit, ApiInit, AgentInit, OrchInit
<1>1. ProcessInv
  BY DEF ProcessInv, HoldsARun, RowFollowsRun, InFlightIsHeld,
         OverwrittenByCancel, Preparing, Measuring, Working, Closing, InFlight
<1>2. SweepInv
  BY SweepOfAssumption
  DEF SweepInv, SweepWithItsRuns, CreatingIsAbsent, CancelSeesQueued,
      CancelledSweepDrained, NothingLeftToClose, SettledHonestly,
      OpenSweepIsHeld, Active
<1>3. HostInv
  BY DEF HostInv, BenchFollowsRun, SucceededWasMeasured, EngineIsOwn,
         StartIsAwaited, EngineServesItsRun, ClientGoneAtEnd, EngineStaysUp,
         StartedBeforeBench, EngineAccountedFor, HalfLoadedAccountedFor,
         NoEngine, Preparing, Measuring
<1> QED
  BY <1>1, <1>2, <1>3 DEF Inv

(* The first part: the process and the row of its run. *)
LEMMA ProcessStep ==
  ASSUME TypeOK, Inv, Next, TypeOK'
  PROVE  ProcessInv'
<1> USE DEF TypeOK, StoreTypeOK, ApiTypeOK, AgentTypeOK, OrchTypeOK, storeVars,
            apiVars, agentVars, orchVars, procVars, Inv, ProcessInv, SweepInv,
            HostInv, HoldsARun, RowFollowsRun, InFlightIsHeld,
            OverwrittenByCancel, Working, Closing, Preparing, Measuring, Final,
            InFlight, Active, Writable, Goto, Idle, Local, Raise, Proceed,
            RunsOf, Queued, RunsOn, CancelSeesQueued, SweepWithItsRuns,
            CreatingIsAbsent
<1>1. CASE Claim /\ UNCHANGED apiVars
  BY <1>1 DEF Claim, SetStatus, FirstOf, Queued
<1>2. CASE CheckCancel /\ UNCHANGED apiVars
  BY <1>2 DEF CheckCancel
<1>3. CASE Reach /\ UNCHANGED apiVars
  BY <1>3 DEF Reach, ProbeAgain
<1>4. CASE AskStatus /\ UNCHANGED apiVars
  BY <1>4 DEF AskStatus, Reusable
<1>5. CASE StopOther /\ UNCHANGED apiVars
  BY <1>5 DEF StopOther, StopServer, SetEngine
<1>6. CASE AskStart /\ UNCHANGED apiVars
  BY <1>6 DEF AskStart, StartEngine, SetEngine, SetLoad
<1>7. CASE AwaitReady /\ UNCHANGED apiVars
  BY <1>7 DEF AwaitReady
<1>8. CASE CommitBenchmarking /\ UNCHANGED apiVars
  BY <1>8 DEF CommitBenchmarking, Commit, Escape, SetStatus
<1>9. CASE RequestBench /\ UNCHANGED apiVars
  BY <1>9 DEF RequestBench, AcceptBench, SetBench
<1>10. CASE BenchReturns /\ UNCHANGED apiVars
  BY <1>10 DEF BenchReturns
<1>11. CASE NoticeCancel /\ UNCHANGED apiVars
  BY <1>11 DEF NoticeCancel
<1>12. CASE CancelBench /\ UNCHANGED apiVars
  BY <1>12 DEF CancelBench, SignalClient, SetBench
<1>13. CASE AwaitBench /\ UNCHANGED apiVars
  BY <1>13 DEF AwaitBench
<1>14. CASE RecordResult /\ UNCHANGED apiVars
  BY <1>14 DEF RecordResult, Commit, Escape, SetStatus
<1>15. CASE RecordEnd /\ UNCHANGED apiVars
  BY <1>15 DEF RecordEnd, Commit, Escape, SetStatus
<1>16. CASE LookAhead /\ UNCHANGED apiVars
  BY <1>16 DEF LookAhead, KeepEngine, FirstOf, QueuedOn
<1>17. CASE StopEngine /\ UNCHANGED apiVars
  BY <1>17 DEF StopEngine, StopServer, SetEngine
<1>18. CASE ReadSweep /\ UNCHANGED apiVars
  BY <1>18 DEF ReadSweep, Unsettled
<1>19. CASE CountRuns /\ UNCHANGED apiVars
  BY <1>19 DEF CountRuns
<1>20. CASE CloseSweep /\ UNCHANGED apiVars
  BY <1>20 DEF CloseSweep, Verdict, Ended
<1>21. CASE Watch /\ UNCHANGED apiVars
  BY <1>21 DEF Watch
<1>22. CASE Crash /\ UNCHANGED apiVars
  BY <1>22 DEF Crash
<1>23. ASSUME NEW r \in Run, CreateRun(r), UNCHANGED <<agentVars, orchVars>>
       PROVE  ProcessInv'
  BY <1>23 DEF CreateRun, SetStatus
<1>24. ASSUME NEW s \in Sweep, CheckHostFree(s),
              UNCHANGED <<agentVars, orchVars>>
       PROVE  ProcessInv'
  BY <1>24 DEF CheckHostFree
<1>25. ASSUME NEW s \in Sweep, MaterializeSweep(s),
              UNCHANGED <<agentVars, orchVars>>
       PROVE  ProcessInv'
  BY <1>25 DEF MaterializeSweep, SetStatus
<1>26. ASSUME NEW s \in Sweep, ReadQueuedToCancel(s),
              UNCHANGED <<agentVars, orchVars>>
       PROVE  ProcessInv'
  BY <1>26 DEF ReadQueuedToCancel, ToCancel
<1>27. ASSUME NEW s \in Sweep, CommitCancel(s),
              UNCHANGED <<agentVars, orchVars>>
       PROVE  ProcessInv'
  BY <1>27 DEF CommitCancel, EndCancel, SetStatus
<1>28. ASSUME NEW s \in Sweep, RejectCancel(s),
              UNCHANGED <<agentVars, orchVars>>
       PROVE  ProcessInv'
  BY <1>28 DEF RejectCancel, EndCancel
<1>29. ASSUME NEW r \in Run,
              OnAgent(EndLoad(r))
       PROVE  ProcessInv'
  BY <1>29 DEF OnAgent, EndLoad, FindReady, GiveUp, Undo, SetEngine, SetLoad
<1>30. ASSUME NEW r \in Run,
              OnAgent(LaunchClient(r))
       PROVE  ProcessInv'
  BY <1>30 DEF OnAgent, LaunchClient, SetBench, ClientsOn
<1>31. ASSUME NEW r \in Run,
              OnAgent(RefuseBench(r))
       PROVE  ProcessInv'
  BY <1>31 DEF OnAgent, RefuseBench, SetBench
<1>32. ASSUME NEW r \in Run,
              OnAgent(EndBench(r))
       PROVE  ProcessInv'
  BY <1>32 DEF OnAgent, EndBench, SetBench
<1>33. ASSUME NEW h \in Host,
              OnAgent(Cut(h))
       PROVE  ProcessInv'
  BY <1>33 DEF OnAgent, Cut, MayFail
<1>36. ASSUME NEW h \in Host,
              OnAgent(Die(h))
       PROVE  ProcessInv'
  BY <1>36 DEF OnAgent, Die, MayFail, SetEngine
<1>34. ASSUME NEW h \in Host,
              OnAgent(Reconnect(h))
       PROVE  ProcessInv'
  BY <1>34 DEF OnAgent, Reconnect
<1>35. ASSUME NEW h \in Host,
              OnAgent(RestartAgent(h))
       PROVE  ProcessInv'
  BY <1>35 DEF OnAgent, RestartAgent, SetEngine, SetBench
<1> HIDE DEF ProcessInv, SweepInv, HostInv, TypeOK, Inv
<1> QED
  BY <1>1, <1>2, <1>3, <1>4, <1>5, <1>6, <1>7, <1>8, <1>9, <1>10, <1>11, 
     <1>12, <1>13, <1>14, <1>15, <1>16, <1>17, <1>18, <1>19, <1>20, <1>21, 
     <1>22, <1>23, <1>24, <1>25, <1>26, <1>27, <1>28, <1>29, <1>30, <1>31, 
     <1>32, <1>33, <1>34, <1>35, <1>36
  DEF Next, Execute, RunStep, WatchCancel, ProcessDies, ServeRequest, ApiStep,
      OnAgent, AgentStep, Outage, RunsOn

(* A sweep has at least one run. *)
LEMMA SweepHasRuns ==
  ASSUME NEW s \in Sweep
  PROVE  \E r \in Run : sweepOf[r] = s
<1>1. PICK h \in Host : {hostOf[r] : r \in {q \in Run : sweepOf[q] = s}} = {h}
  BY PlanAssumption
<1>2. h \in {hostOf[r] : r \in {q \in Run : sweepOf[q] = s}}
  BY <1>1
<1> QED
  BY <1>2

(* What is outstanding in a sweep only depends on which of its runs are. *)
LEMMA SameOutstanding ==
  ASSUME NEW s \in Sweep,
         \A r \in RunsOf(s) : (status'[r] \in {"queued"} \cup InFlight)
                             <=> (status[r] \in {"queued"} \cup InFlight)
  PROVE  Outstanding(s)' = Outstanding(s)
BY DEF Outstanding, RunsOf

(* The second part: the rows of a sweep and the requests under way. *)
LEMMA SweepStep ==
  ASSUME TypeOK, Inv, Next, TypeOK'
  PROVE  SweepInv'
<1> USE DEF TypeOK, StoreTypeOK, ApiTypeOK, AgentTypeOK, OrchTypeOK, storeVars,
            apiVars, agentVars, orchVars, procVars, Inv, ProcessInv, SweepInv,
            HostInv, HoldsARun, RowFollowsRun, InFlightIsHeld,
            OverwrittenByCancel, Working, Closing, Preparing, Measuring, Final,
            InFlight, Active, Writable, Goto, Idle, Local, Raise, Proceed,
            RunsOf, Queued, RunsOn, SweepWithItsRuns, CreatingIsAbsent,
            CancelSeesQueued, CancelledSweepDrained, NothingLeftToClose,
            SettledHonestly, OpenSweepIsHeld, Ended
<1>1. CASE Claim /\ UNCHANGED apiVars
  <2>1. PICK r \in FirstOf(Queued) :
          /\ cur' = r
          /\ SetStatus({r}, "starting")
          /\ sweep' = [s \in Sweep |->
               IF s = sweepOf[r] /\ sweep[s] = "queued" THEN "running"
               ELSE sweep[s]]
    BY ONLY <1>1 DEF Claim
  <2>0. r \in Queued
    BY DEF FirstOf
  <2>2. \A s \in Sweep : Outstanding(s)' = Outstanding(s)
    BY <2>1, <2>0, SameOutstanding DEF SetStatus
  <2>5. /\ SweepWithItsRuns' /\ CreatingIsAbsent'
        /\ CancelSeesQueued' /\ CancelledSweepDrained'
    BY <1>1, <2>1, <2>0 DEF Claim, SetStatus
  <2>6. NothingLeftToClose'
    BY <1>1, <2>1, <2>0, <2>2 DEF Claim, SetStatus
  <2>7. SettledHonestly'
    BY <1>1, <2>1, <2>0 DEF Claim, SetStatus
  <2>8. OpenSweepIsHeld'
    BY <1>1, <2>1, <2>0, <2>2 DEF Claim, SetStatus
  <2> QED
    BY <2>5, <2>6, <2>7, <2>8
<1>2. CASE CheckCancel /\ UNCHANGED apiVars
  BY <1>2 DEF CheckCancel, Outstanding
<1>3. CASE Reach /\ UNCHANGED apiVars
  BY <1>3 DEF Reach, ProbeAgain, Outstanding
<1>4. CASE AskStatus /\ UNCHANGED apiVars
  BY <1>4 DEF AskStatus, Reusable, Outstanding
<1>5. CASE StopOther /\ UNCHANGED apiVars
  BY <1>5 DEF StopOther, StopServer, SetEngine, Outstanding
<1>6. CASE AskStart /\ UNCHANGED apiVars
  BY <1>6 DEF AskStart, StartEngine, SetEngine, SetLoad, Outstanding
<1>7. CASE AwaitReady /\ UNCHANGED apiVars
  BY <1>7 DEF AwaitReady, Outstanding
<1>8. CASE CommitBenchmarking /\ UNCHANGED apiVars
  BY <1>8 DEF CommitBenchmarking, Commit, Escape, SetStatus, Outstanding
<1>9. CASE RequestBench /\ UNCHANGED apiVars
  BY <1>9 DEF RequestBench, AcceptBench, SetBench, Outstanding
<1>10. CASE BenchReturns /\ UNCHANGED apiVars
  BY <1>10 DEF BenchReturns, Outstanding
<1>11. CASE NoticeCancel /\ UNCHANGED apiVars
  BY <1>11 DEF NoticeCancel, Outstanding
<1>12. CASE CancelBench /\ UNCHANGED apiVars
  BY <1>12 DEF CancelBench, SignalClient, SetBench, Outstanding
<1>13. CASE AwaitBench /\ UNCHANGED apiVars
  BY <1>13 DEF AwaitBench, Outstanding
<1>14. CASE RecordResult /\ UNCHANGED apiVars
  BY <1>14 DEF RecordResult, Commit, Escape, SetStatus, Outstanding
<1>15. CASE RecordEnd /\ UNCHANGED apiVars
  BY <1>15 DEF RecordEnd, Commit, Escape, SetStatus, Outstanding
<1>16. CASE LookAhead /\ UNCHANGED apiVars
  BY <1>16 DEF LookAhead, KeepEngine, FirstOf, QueuedOn, Outstanding
<1>17. CASE StopEngine /\ UNCHANGED apiVars
  BY <1>17 DEF StopEngine, StopServer, SetEngine, Outstanding
<1>18. CASE ReadSweep /\ UNCHANGED apiVars
  BY <1>18 DEF ReadSweep, Unsettled, Outstanding
<1>19. CASE CountRuns /\ UNCHANGED apiVars
  BY <1>19 DEF CountRuns, Outstanding
<1>20. CASE CloseSweep /\ UNCHANGED apiVars
  BY <1>20 DEF CloseSweep, Verdict, Ended, Outstanding
<1>21. CASE Watch /\ UNCHANGED apiVars
  BY <1>21 DEF Watch, Outstanding
<1>22. CASE Crash /\ UNCHANGED apiVars
  BY <1>22 DEF Crash, Outstanding
<1>23. ASSUME NEW r \in Run, CreateRun(r), UNCHANGED <<agentVars, orchVars>>
       PROVE  SweepInv'
  <2>2. \A s \in Sweep : Outstanding(s)' = Outstanding(s)
    BY <1>23, SameOutstanding DEF CreateRun, SetStatus
  <2>5. /\ SweepWithItsRuns' /\ CreatingIsAbsent'
        /\ CancelSeesQueued' /\ CancelledSweepDrained'
    BY <1>23 DEF CreateRun, SetStatus
  <2>6. NothingLeftToClose'
    BY <1>23, <2>2 DEF CreateRun, SetStatus
  <2>7. SettledHonestly'
    BY <1>23 DEF CreateRun, SetStatus
  <2>8. OpenSweepIsHeld'
    BY <1>23, <2>2 DEF CreateRun, SetStatus
  <2> QED
    BY <2>5, <2>6, <2>7, <2>8
<1>24. ASSUME NEW s \in Sweep, CheckHostFree(s),
              UNCHANGED <<agentVars, orchVars>>
       PROVE  SweepInv'
  BY <1>24 DEF CheckHostFree, Outstanding
<1>25. ASSUME NEW s \in Sweep, MaterializeSweep(s),
              UNCHANGED <<agentVars, orchVars>>
       PROVE  SweepInv'
  <2>1. Outstanding(s)' # {}
    <3>1. PICK r \in Run : sweepOf[r] = s
      BY <1>25, SweepHasRuns
    <3>2. r \in RunsOf(s) /\ status'[r] = "queued"
      BY <1>25, <3>1 DEF MaterializeSweep, SetStatus, RunsOf
    <3> QED
      BY <3>2 DEF Outstanding
  <2>2. \A t \in Sweep \ {s} : Outstanding(t)' = Outstanding(t)
    BY <1>25, SameOutstanding DEF MaterializeSweep, SetStatus
  <2>5. /\ SweepWithItsRuns' /\ CreatingIsAbsent'
        /\ CancelSeesQueued' /\ CancelledSweepDrained'
    BY <1>25 DEF MaterializeSweep, SetStatus
  <2>6. NothingLeftToClose'
    BY <1>25, <2>2 DEF MaterializeSweep, SetStatus
  <2>7. SettledHonestly'
    BY <1>25 DEF MaterializeSweep, SetStatus
  <2>8. OpenSweepIsHeld'
    BY <1>25, <2>2, <2>1 DEF MaterializeSweep, SetStatus
  <2> QED
    BY <2>5, <2>6, <2>7, <2>8
<1>26. ASSUME NEW s \in Sweep, ReadQueuedToCancel(s),
              UNCHANGED <<agentVars, orchVars>>
       PROVE  SweepInv'
  BY <1>26 DEF ReadQueuedToCancel, ToCancel, Outstanding
<1>27. ASSUME NEW s \in Sweep, CommitCancel(s),
              UNCHANGED <<agentVars, orchVars>>
       PROVE  SweepInv'
  <2>2. \A t \in Sweep \ {s} : Outstanding(t)' = Outstanding(t)
    BY <1>27, SameOutstanding DEF CommitCancel, EndCancel, SetStatus
  <2>5. /\ SweepWithItsRuns' /\ CreatingIsAbsent'
        /\ CancelSeesQueued' /\ CancelledSweepDrained'
    BY <1>27 DEF CommitCancel, EndCancel, SetStatus
  <2>6. NothingLeftToClose'
    BY <1>27, <2>2 DEF CommitCancel, EndCancel, SetStatus, Outstanding
  <2>7. SettledHonestly'
    BY <1>27 DEF CommitCancel, EndCancel, SetStatus
  <2>8. OpenSweepIsHeld'
    BY <1>27, <2>2 DEF CommitCancel, EndCancel, SetStatus
  <2> QED
    BY <2>5, <2>6, <2>7, <2>8
<1>28. ASSUME NEW s \in Sweep, RejectCancel(s),
              UNCHANGED <<agentVars, orchVars>>
       PROVE  SweepInv'
  BY <1>28 DEF RejectCancel, EndCancel, Outstanding
<1>29. ASSUME NEW r \in Run,
              OnAgent(EndLoad(r))
       PROVE  SweepInv'
  BY <1>29 DEF OnAgent, EndLoad, FindReady, GiveUp, Undo, SetEngine, SetLoad, Outstanding
<1>30. ASSUME NEW r \in Run,
              OnAgent(LaunchClient(r))
       PROVE  SweepInv'
  BY <1>30 DEF OnAgent, LaunchClient, SetBench, ClientsOn, Outstanding
<1>31. ASSUME NEW r \in Run,
              OnAgent(RefuseBench(r))
       PROVE  SweepInv'
  BY <1>31 DEF OnAgent, RefuseBench, SetBench, Outstanding
<1>32. ASSUME NEW r \in Run,
              OnAgent(EndBench(r))
       PROVE  SweepInv'
  BY <1>32 DEF OnAgent, EndBench, SetBench, Outstanding
<1>33. ASSUME NEW h \in Host,
              OnAgent(Cut(h))
       PROVE  SweepInv'
  BY <1>33 DEF OnAgent, Cut, MayFail, Outstanding
<1>36. ASSUME NEW h \in Host,
              OnAgent(Die(h))
       PROVE  SweepInv'
  BY <1>36 DEF OnAgent, Die, MayFail, SetEngine, Outstanding
<1>34. ASSUME NEW h \in Host,
              OnAgent(Reconnect(h))
       PROVE  SweepInv'
  BY <1>34 DEF OnAgent, Reconnect, Outstanding
<1>35. ASSUME NEW h \in Host,
              OnAgent(RestartAgent(h))
       PROVE  SweepInv'
  BY <1>35 DEF OnAgent, RestartAgent, SetEngine, SetBench, Outstanding
<1> HIDE DEF ProcessInv, SweepInv, HostInv, TypeOK, Inv
<1> QED
  BY <1>1, <1>2, <1>3, <1>4, <1>5, <1>6, <1>7, <1>8, <1>9, <1>10, <1>11, 
     <1>12, <1>13, <1>14, <1>15, <1>16, <1>17, <1>18, <1>19, <1>20, <1>21, 
     <1>22, <1>23, <1>24, <1>25, <1>26, <1>27, <1>28, <1>29, <1>30, <1>31, 
     <1>32, <1>33, <1>34, <1>35, <1>36
  DEF Next, Execute, RunStep, WatchCancel, ProcessDies, ServeRequest, ApiStep,
      OnAgent, AgentStep, Outage, RunsOn

(* The third part: the rows and the process against the hosts. *)
LEMMA HostStep ==
  ASSUME TypeOK, Inv, Next, TypeOK'
  PROVE  HostInv'
<1> USE DEF TypeOK, StoreTypeOK, ApiTypeOK, AgentTypeOK, OrchTypeOK, storeVars,
            apiVars, agentVars, orchVars, procVars, Inv, ProcessInv, SweepInv,
            HostInv, HoldsARun, RowFollowsRun, InFlightIsHeld,
            OverwrittenByCancel, Working, Closing, Preparing, Measuring, Final,
            InFlight, Active, Writable, Goto, Idle, Local, Raise, Proceed,
            RunsOf, Queued, RunsOn, SweepWithItsRuns, CreatingIsAbsent,
            CancelSeesQueued, BenchFollowsRun, SucceededWasMeasured,
            EngineIsOwn, StartIsAwaited, EngineServesItsRun, ClientGoneAtEnd, EngineStaysUp,
            StartedBeforeBench, EngineAccountedFor, HalfLoadedAccountedFor,
            OwnStartGoesOn, HeldForAReason, NoEngine,
            Loading, Ready, Engine, host, OnHost, Answers
<1>1. CASE Claim /\ UNCHANGED apiVars
  <2>1. BenchFollowsRun'
    BY <1>1 DEF Claim, SetStatus, FirstOf, Queued
  <2>2. SucceededWasMeasured'
    BY <1>1 DEF Claim, SetStatus, FirstOf, Queued
  <2>3. EngineIsOwn'
    BY <1>1 DEF Claim, SetStatus, FirstOf, Queued
  <2>4. StartIsAwaited'
    BY <1>1 DEF Claim, SetStatus, FirstOf, Queued
  <2>5. EngineServesItsRun'
    BY <1>1 DEF Claim, SetStatus, FirstOf, Queued
  <2>6. ClientGoneAtEnd'
    BY <1>1 DEF Claim, SetStatus, FirstOf, Queued
  <2>7. EngineStaysUp'
    BY <1>1 DEF Claim, SetStatus, FirstOf, Queued
  <2>8. StartedBeforeBench'
    BY <1>1 DEF Claim, SetStatus, FirstOf, Queued
  <2>9. EngineAccountedFor'
    BY <1>1 DEF Claim, SetStatus, FirstOf, Queued
  <2>10. HalfLoadedAccountedFor'
    BY <1>1 DEF Claim, SetStatus, FirstOf, Queued
  <2> QED
    BY <2>1, <2>2, <2>3, <2>4, <2>5, <2>6, <2>7,
       <2>8, <2>9, <2>10
<1>2. CASE CheckCancel /\ UNCHANGED apiVars
  BY <1>2 DEF CheckCancel
<1>3. CASE Reach /\ UNCHANGED apiVars
  BY <1>3 DEF Reach, ProbeAgain
<1>4. CASE AskStatus /\ UNCHANGED apiVars
  BY <1>4 DEF AskStatus, Reusable
<1>5. CASE StopOther /\ UNCHANGED apiVars
  <2>1. BenchFollowsRun'
    BY <1>5 DEF StopOther, StopServer, SetEngine
  <2>2. SucceededWasMeasured'
    BY <1>5 DEF StopOther, StopServer, SetEngine
  <2>3. EngineIsOwn'
    BY <1>5 DEF StopOther, StopServer, SetEngine
  <2>4. StartIsAwaited'
    BY <1>5 DEF StopOther, StopServer, SetEngine
  <2>5. EngineServesItsRun'
    BY <1>5 DEF StopOther, StopServer, SetEngine
  <2>6. ClientGoneAtEnd'
    BY <1>5 DEF StopOther, StopServer, SetEngine
  <2>7. EngineStaysUp'
    BY <1>5 DEF StopOther, StopServer, SetEngine
  <2>8. StartedBeforeBench'
    BY <1>5 DEF StopOther, StopServer, SetEngine
  <2>9. EngineAccountedFor'
    BY <1>5 DEF StopOther, StopServer, SetEngine
  <2>10. HalfLoadedAccountedFor'
    BY <1>5 DEF StopOther, StopServer, SetEngine
  <2> QED
    BY <2>1, <2>2, <2>3, <2>4, <2>5, <2>6, <2>7,
       <2>8, <2>9, <2>10
<1>6. CASE AskStart /\ UNCHANGED apiVars
  <2>1. BenchFollowsRun'
    BY <1>6 DEF AskStart, StartEngine, SetEngine, SetLoad
  <2>2. SucceededWasMeasured'
    BY <1>6 DEF AskStart, StartEngine, SetEngine, SetLoad
  <2>3. EngineIsOwn'
    BY <1>6 DEF AskStart, StartEngine, SetEngine, SetLoad
  <2>4. StartIsAwaited'
    BY <1>6 DEF AskStart, StartEngine, SetEngine, SetLoad
  <2>5. EngineServesItsRun'
    BY <1>6 DEF AskStart, StartEngine, SetEngine, SetLoad
  <2>6. ClientGoneAtEnd'
    BY <1>6 DEF AskStart, StartEngine, SetEngine, SetLoad
  <2>7. EngineStaysUp'
    BY <1>6 DEF AskStart, StartEngine, SetEngine, SetLoad
  <2>8. StartedBeforeBench'
    BY <1>6 DEF AskStart, StartEngine, SetEngine, SetLoad
  <2>9. EngineAccountedFor'
    BY <1>6 DEF AskStart, StartEngine, SetEngine, SetLoad
  <2>10. HalfLoadedAccountedFor'
    BY <1>6 DEF AskStart, StartEngine, SetEngine, SetLoad
  <2> QED
    BY <2>1, <2>2, <2>3, <2>4, <2>5, <2>6, <2>7,
       <2>8, <2>9, <2>10
<1>7. CASE AwaitReady /\ UNCHANGED apiVars
  BY <1>7 DEF AwaitReady
<1>8. CASE CommitBenchmarking /\ UNCHANGED apiVars
  <2>1. CASE /\ Commit("benchmarking", "request")
             /\ UNCHANGED <<summary, outcome>>
    <3>1. \A h \in Host : HeldForAReason(h) => HeldForAReason(h)'
      BY <1>8, <2>1 DEF CommitBenchmarking, Commit, SetStatus
    <3>2. BenchFollowsRun'
      BY <1>8, <2>1, <3>1 DEF CommitBenchmarking, Commit, SetStatus
    <3>3. SucceededWasMeasured'
      BY <1>8, <2>1, <3>1 DEF CommitBenchmarking, Commit, SetStatus
    <3>4. EngineIsOwn'
      BY <1>8, <2>1, <3>1 DEF CommitBenchmarking, Commit, SetStatus
    <3>5. EngineServesItsRun'
      BY <1>8, <2>1, <3>1 DEF CommitBenchmarking, Commit, SetStatus
    <3>6. ClientGoneAtEnd'
      BY <1>8, <2>1, <3>1 DEF CommitBenchmarking, Commit, SetStatus
    <3>7. EngineStaysUp'
      BY <1>8, <2>1, <3>1 DEF CommitBenchmarking, Commit, SetStatus
    <3>8. StartedBeforeBench'
      BY <1>8, <2>1, <3>1 DEF CommitBenchmarking, Commit, SetStatus
    <3>9. EngineAccountedFor'
      BY <1>8, <2>1, <3>1 DEF CommitBenchmarking, Commit, SetStatus
    <3>10. StartIsAwaited'
      BY <1>8, <2>1, <3>1 DEF CommitBenchmarking, Commit, SetStatus
    <3>11. HalfLoadedAccountedFor'
      BY <1>8, <2>1, <3>1 DEF CommitBenchmarking, Commit, SetStatus
    <3> QED
      BY <3>2, <3>3, <3>4, <3>5, <3>6, <3>7, <3>8, <3>9, <3>10, <3>11
  <2>2. CASE Escape
    BY <1>8, <2>2 DEF CommitBenchmarking, Escape
  <2> QED
    BY <1>8, <2>1, <2>2 DEF CommitBenchmarking
<1>9. CASE RequestBench /\ UNCHANGED apiVars
  BY <1>9 DEF RequestBench, AcceptBench, SetBench
<1>10. CASE BenchReturns /\ UNCHANGED apiVars
  BY <1>10 DEF BenchReturns
<1>11. CASE NoticeCancel /\ UNCHANGED apiVars
  BY <1>11 DEF NoticeCancel
<1>12. CASE CancelBench /\ UNCHANGED apiVars
  BY <1>12 DEF CancelBench, SignalClient, SetBench
<1>13. CASE AwaitBench /\ UNCHANGED apiVars
  BY <1>13 DEF AwaitBench
<1>14. CASE RecordResult /\ UNCHANGED apiVars
  <2>1. CASE /\ Commit("succeeded", "teardown")
             /\ summary' = summary \cup {cur}
             /\ outcome' = "succeeded"
    BY <1>14, <2>1 DEF RecordResult, Commit, SetStatus
  <2>2. CASE Escape
    BY <1>14, <2>2 DEF RecordResult, Escape
  <2>3. CASE Raise("failed") /\ UNCHANGED <<storeVars, agentVars, Local>>
    BY <1>14, <2>3 DEF RecordResult
  <2> QED
    BY <1>14, <2>1, <2>2, <2>3 DEF RecordResult
<1>15. CASE RecordEnd /\ UNCHANGED apiVars
  <2>1. BenchFollowsRun'
    BY <1>15 DEF RecordEnd, Commit, Escape, SetStatus
  <2>2. SucceededWasMeasured'
    BY <1>15 DEF RecordEnd, Commit, Escape, SetStatus
  <2>3. EngineIsOwn'
    BY <1>15 DEF RecordEnd, Commit, Escape, SetStatus
  <2>4. StartIsAwaited'
    BY <1>15 DEF RecordEnd, Commit, Escape, SetStatus
  <2>5. EngineServesItsRun'
    BY <1>15 DEF RecordEnd, Commit, Escape, SetStatus
  <2>6. ClientGoneAtEnd'
    BY <1>15 DEF RecordEnd, Commit, Escape, SetStatus
  <2>7. EngineStaysUp'
    BY <1>15 DEF RecordEnd, Commit, Escape, SetStatus
  <2>8. StartedBeforeBench'
    BY <1>15 DEF RecordEnd, Commit, Escape, SetStatus
  <2>9. EngineAccountedFor'
    BY <1>15 DEF RecordEnd, Commit, Escape, SetStatus
  <2>10. HalfLoadedAccountedFor'
    BY <1>15 DEF RecordEnd, Commit, Escape, SetStatus
  <2> QED
    BY <2>1, <2>2, <2>3, <2>4, <2>5, <2>6, <2>7,
       <2>8, <2>9, <2>10
<1>16. CASE LookAhead /\ UNCHANGED apiVars
  BY <1>16 DEF LookAhead, KeepEngine, FirstOf, QueuedOn
<1>17. CASE StopEngine /\ UNCHANGED apiVars
  BY <1>17 DEF StopEngine, StopServer, SetEngine
<1>18. CASE ReadSweep /\ UNCHANGED apiVars
  BY <1>18 DEF ReadSweep, Unsettled
<1>19. CASE CountRuns /\ UNCHANGED apiVars
  BY <1>19 DEF CountRuns
<1>20. CASE CloseSweep /\ UNCHANGED apiVars
  BY <1>20 DEF CloseSweep, Verdict, Ended
<1>21. CASE Watch /\ UNCHANGED apiVars
  BY <1>21 DEF Watch
<1>22. CASE Crash /\ UNCHANGED apiVars
  BY <1>22 DEF Crash
<1>23. ASSUME NEW r \in Run, CreateRun(r), UNCHANGED <<agentVars, orchVars>>
       PROVE  HostInv'
  BY <1>23 DEF CreateRun, SetStatus
<1>24. ASSUME NEW s \in Sweep, CheckHostFree(s),
              UNCHANGED <<agentVars, orchVars>>
       PROVE  HostInv'
  BY <1>24 DEF CheckHostFree
<1>25. ASSUME NEW s \in Sweep, MaterializeSweep(s),
              UNCHANGED <<agentVars, orchVars>>
       PROVE  HostInv'
  BY <1>25 DEF MaterializeSweep, SetStatus
<1>26. ASSUME NEW s \in Sweep, ReadQueuedToCancel(s),
              UNCHANGED <<agentVars, orchVars>>
       PROVE  HostInv'
  BY <1>26 DEF ReadQueuedToCancel, ToCancel
<1>27. ASSUME NEW s \in Sweep, CommitCancel(s),
              UNCHANGED <<agentVars, orchVars>>
       PROVE  HostInv'
  BY <1>27 DEF CommitCancel, EndCancel, SetStatus
<1>28. ASSUME NEW s \in Sweep, RejectCancel(s),
              UNCHANGED <<agentVars, orchVars>>
       PROVE  HostInv'
  BY <1>28 DEF RejectCancel, EndCancel
<1>29. ASSUME NEW r \in Run,
              OnAgent(EndLoad(r))
       PROVE  HostInv'
  <2>1. BenchFollowsRun'
    BY <1>29 DEF OnAgent, EndLoad, FindReady, GiveUp, Undo, SetEngine, SetLoad
  <2>2. SucceededWasMeasured'
    BY <1>29 DEF OnAgent, EndLoad, FindReady, GiveUp, Undo, SetEngine, SetLoad
  <2>3. EngineIsOwn'
    BY <1>29 DEF OnAgent, EndLoad, FindReady, GiveUp, Undo, SetEngine, SetLoad
  <2>4. StartIsAwaited'
    BY <1>29 DEF OnAgent, EndLoad, FindReady, GiveUp, Undo, SetEngine, SetLoad
  <2>5. EngineServesItsRun'
    <3>1. SUFFICES ASSUME pc \in {"bench", "signal", "drain"}
                   PROVE  EngineServesItsRun'
      BY <1>29 DEF OnAgent, EndLoad, FindReady, GiveUp, Undo
    <3>2. crashes \in Nat /\ faults \in Nat
      BY MaxFaultsAssumption
    <3>3. ~(crashes = 0 /\ faults = 0)
      BY <1>29, <3>1 DEF EndLoad, FindReady, GiveUp, Undo, OnAgent
    <3>4. faults + crashes > 0
      BY <3>2, <3>3
    <3>5. engine[host] \in {NoEngine, Ready(configOf[cur])}
      BY <3>1
    <3>6. engine'[host] \in {NoEngine, Ready(configOf[cur])}
      <4>1. hostOf[r] \in Host /\ host \in Host
        BY <3>1 DEF host
      <4>2. PICK e \in Engine :
              /\ engine' = engine \/ engine' = [engine EXCEPT ![hostOf[r]] = e]
              /\ \/ e = NoEngine
                 \/ e = Ready(engine[hostOf[r]].config) /\ engine[hostOf[r]].state # "stopped"
        BY <1>29, <4>1 DEF OnAgent, EndLoad, FindReady, GiveUp, Undo, SetEngine
      <4>3. CASE host = hostOf[r]
        BY <3>5, <4>1, <4>2, <4>3
      <4>4. CASE host # hostOf[r]
        BY <3>5, <4>1, <4>2, <4>4
      <4> QED
        BY <4>3, <4>4
    <3>7. /\ faults' + crashes' > 0
          /\ host' = host /\ UNCHANGED cur
      BY <1>29, <3>4 DEF OnAgent, EndLoad, FindReady, GiveUp, Undo
    <3> QED
      BY <3>6, <3>7
  <2>6. ClientGoneAtEnd'
    BY <1>29 DEF OnAgent, EndLoad, FindReady, GiveUp, Undo, SetEngine, SetLoad
  <2>7. EngineStaysUp'
    BY <1>29 DEF OnAgent, EndLoad, FindReady, GiveUp, Undo, SetEngine, SetLoad
  <2>8. StartedBeforeBench'
    BY <1>29 DEF OnAgent, EndLoad, FindReady, GiveUp, Undo, SetEngine, SetLoad
  <2>9. EngineAccountedFor'
    BY <1>29 DEF OnAgent, EndLoad, FindReady, GiveUp, Undo, SetEngine, SetLoad
  <2>10. HalfLoadedAccountedFor'
    BY <1>29 DEF OnAgent, EndLoad, FindReady, GiveUp, Undo, SetEngine, SetLoad
  <2> QED
    BY <2>1, <2>2, <2>3, <2>4, <2>5, <2>6, <2>7,
       <2>8, <2>9, <2>10
<1>30. ASSUME NEW r \in Run,
              OnAgent(LaunchClient(r))
       PROVE  HostInv'
  BY <1>30 DEF OnAgent, LaunchClient, SetBench, ClientsOn
<1>31. ASSUME NEW r \in Run,
              OnAgent(RefuseBench(r))
       PROVE  HostInv'
  BY <1>31 DEF OnAgent, RefuseBench, SetBench
<1>32. ASSUME NEW r \in Run,
              OnAgent(EndBench(r))
       PROVE  HostInv'
  BY <1>32 DEF OnAgent, EndBench, SetBench
<1>33. ASSUME NEW h \in Host,
              OnAgent(Cut(h))
       PROVE  HostInv'
  BY <1>33 DEF OnAgent, Cut, MayFail
<1>36. ASSUME NEW h \in Host,
              OnAgent(Die(h))
       PROVE  HostInv'
  BY <1>36 DEF OnAgent, Die, MayFail, SetEngine
<1>34. ASSUME NEW h \in Host,
              OnAgent(Reconnect(h))
       PROVE  HostInv'
  BY <1>34 DEF OnAgent, Reconnect
<1>35. ASSUME NEW h \in Host,
              OnAgent(RestartAgent(h))
       PROVE  HostInv'
  BY <1>35 DEF OnAgent, RestartAgent, SetEngine, SetBench
<1> HIDE DEF ProcessInv, SweepInv, HostInv, TypeOK, Inv
<1> QED
  BY <1>1, <1>2, <1>3, <1>4, <1>5, <1>6, <1>7, <1>8, <1>9, <1>10, <1>11, 
     <1>12, <1>13, <1>14, <1>15, <1>16, <1>17, <1>18, <1>19, <1>20, <1>21, 
     <1>22, <1>23, <1>24, <1>25, <1>26, <1>27, <1>28, <1>29, <1>30, <1>31, 
     <1>32, <1>33, <1>34, <1>35, <1>36
  DEF Next, Execute, RunStep, WatchCancel, ProcessDies, ServeRequest, ApiStep,
      OnAgent, AgentStep, Outage, RunsOn

-----------------------------------------------------------------------------
(* A step that changes nothing preserves everything. *)
LEMMA StutterStep ==
  ASSUME TypeOK, Inv, UNCHANGED vars
  PROVE  TypeOK' /\ Inv'
<1> USE DEF vars, storeVars, apiVars, agentVars, orchVars, procVars
<1>1. TypeOK'
  BY DEF TypeOK, StoreTypeOK, ApiTypeOK, AgentTypeOK, OrchTypeOK
<1>2. ProcessInv'
  BY DEF Inv, ProcessInv, HoldsARun, RowFollowsRun, InFlightIsHeld,
         OverwrittenByCancel
<1>3. SweepInv'
  BY DEF Inv, SweepInv, SweepWithItsRuns, CreatingIsAbsent, CancelSeesQueued,
         CancelledSweepDrained, NothingLeftToClose, SettledHonestly,
         OpenSweepIsHeld, RunsOf, Queued, Outstanding, Ended
<1>4. HostInv'
  BY DEF Inv, HostInv, BenchFollowsRun, SucceededWasMeasured, EngineIsOwn,
         StartIsAwaited, EngineServesItsRun, ClientGoneAtEnd, EngineStaysUp,
         StartedBeforeBench, EngineAccountedFor, HalfLoadedAccountedFor,
         OwnStartGoesOn, HeldForAReason, host, Measuring
<1> QED
  BY <1>1, <1>2, <1>3, <1>4 DEF Inv

(* The invariant: types and the three parts together are inductive. *)
THEOREM Correct == Spec => [](TypeOK /\ Inv)
<1>1. Init => TypeOK /\ Inv
  BY InitTyped, InitInv
<1>2. TypeOK /\ Inv /\ [Next]_vars => TypeOK' /\ Inv'
  <2> SUFFICES ASSUME TypeOK, Inv, [Next]_vars PROVE TypeOK' /\ Inv'
    OBVIOUS
  <2>1. CASE Next
    <3>1. TypeOK'
      BY <2>1, TypeStep DEF Inv
    <3> QED
      BY <2>1, <3>1, ProcessStep, SweepStep, HostStep DEF Inv
  <2>2. CASE UNCHANGED vars
    BY <2>2, StutterStep
  <2> QED
    BY <2>1, <2>2
<1> QED
  BY <1>1, <1>2, PTL DEF Spec

(* Every variable keeps its type: in particular the process never probes an*)
(* agent more than MaxAttempts times, and no row leaves the life cycle.    *)
THEOREM TypesKept == Spec => []TypeOK
BY Correct, PTL

(* execute_run commits a success together with its summary, and only for a *)
(* benchmark that ran to its end.                                          *)
THEOREM MeasuredBeforeSuccess == Spec => []SucceededWasMeasured
<1>1. TypeOK /\ Inv => SucceededWasMeasured
  BY DEF Inv, HostInv
<1> QED
  BY <1>1, Correct, PTL

(* _ensure_server never lets a benchmark run against another run's engine;  *)
(* and where its own is gone from under it, an outage or a death came first, *)
(* with a start whose caller left and that gave up on the wrong engine.      *)
THEOREM NeverTheWrongEngine == Spec => []EngineServesItsRun
<1>1. TypeOK /\ Inv => EngineServesItsRun
  BY DEF Inv, HostInv
<1> QED
  BY <1>1, Correct, PTL

(* _bench_or_cancel drains the request before the finally block stops the  *)
(* engine.                                                                 *)
THEOREM TeardownAfterClient == Spec => []ClientBeforeEngine
<1>1. TypeOK /\ Inv => ClientBeforeEngine
  BY DEF Inv, HostInv, ClientGoneAtEnd, ClientBeforeEngine
<1> QED
  BY <1>1, Correct, PTL

(* No path out of execute_run, the one through the trigger's exception     *)
(* included, leaves a run in flight that nobody executes.                  *)
THEOREM EveryExitRecorded == Spec => []NoRunStranded
<1>1. TypeOK /\ Inv => NoRunStranded
  BY DEF Inv, ProcessInv, InFlightIsHeld, NoRunStranded
<1> QED
  BY <1>1, Correct, PTL

(* cancel_sweep and settle_sweep leave no queued run in a cancelled sweep. *)
THEOREM CancelDrains == Spec => []CancelledSweepDrained
<1>1. TypeOK /\ Inv => CancelledSweepDrained
  BY DEF Inv, SweepInv
<1> QED
  BY <1>1, Correct, PTL

(* settle_sweep's verdict is final and is what the runs of the sweep amount*)
(* to, whatever a cancel request commits between its reads and its write.  *)
THEOREM VerdictsHonest == Spec => []SettledHonestly
<1>1. TypeOK /\ Inv => SettledHonestly
  BY DEF Inv, SweepInv
<1> QED
  BY <1>1, Correct, PTL

(* The run that ends last in a sweep closes it before the next run is      *)
(* claimed.                                                                *)
THEOREM SweepsClosed == Spec => []SettledOnTime
<1>1. TypeOK /\ Inv => SettledOnTime
  BY DEF Inv, SweepInv, OpenSweepIsHeld, Closing,
         SettledOnTime
<1> QED
  BY <1>1, Correct, PTL

(* The finally block leaves an engine loaded only for a run of its host and *)
(* config that was queued then, and has since been cancelled or has failed  *)
(* before it asked for an engine, if it is not queued still.                *)
THEOREM EngineNotForgotten == Spec => []EngineHeldForAReason
<1>1. TypeOK /\ Inv => EngineHeldForAReason
  BY DEF Inv, HostInv, EngineAccountedFor, OwnStartGoesOn, Working,
         EngineHeldForAReason
<1> QED
  BY <1>1, Correct, PTL
-----------------------------------------------------------------------------
(* ControlPlane implements RunLedger: every step of the orchestrator, the    *)
(* API or an agent is, on the run table, one step of the ledger or none.     *)

(* Initially no run exists and nobody holds one. *)
LEMMA LedgerInit == Init => Ledger!Init
BY DEF Init, StoreInit, OrchInit, Ledger!Init

(* Two ways to leave the run table and its holder alone, or only the holder. *)
LEMMA SameLedger ==
  ASSUME UNCHANGED <<status, summary, cur>>
  PROVE  UNCHANGED Ledger!vars
BY DEF Ledger!vars

LEMMA IdleLetsGo ==
  ASSUME Idle, UNCHANGED <<status, summary>>
  PROVE  Ledger!Next
BY DEF Idle, Ledger!Next, Ledger!LetGo

(* claim_next_run picks a queued run up while no other is held. *)
LEMMA ClaimPicksUp ==
  ASSUME TypeOK, Inv, Claim
  PROVE  Ledger!Next
<1>1. PICK r \in FirstOf(Queued) : SetStatus({r}, "starting") /\ cur' = r
  BY DEF Claim
<1>2. r \in Run /\ status[r] = "queued"
  BY <1>1 DEF FirstOf, Queued
<1>3. cur = NoRun
  BY DEF Claim, Inv, ProcessInv, HoldsARun
<1>4. Ledger!PickUp(r)
  BY <1>1, <1>2, <1>3 DEF Claim, SetStatus, Ledger!PickUp, Ledger!Change
<1> QED
  BY <1>2, <1>4 DEF Ledger!Next

(* A commit of execute_run moves its own run one status on. *)
LEMMA CommitMeasures ==
  ASSUME TypeOK, Inv, CommitBenchmarking
  PROVE  Ledger!Next
<1>1. CASE Escape
  BY <1>1, IdleLetsGo DEF Escape, storeVars
<1>2. CASE /\ Commit("benchmarking", "request")
           /\ UNCHANGED <<summary, outcome>>
  <2>1. cur \in Run /\ status[cur] = "starting"
    BY <1>2 DEF CommitBenchmarking, Commit, Writable, Final, Preparing, TypeOK,
                OrchTypeOK, Inv, ProcessInv, HoldsARun, RowFollowsRun
  <2>2. Ledger!Measure(cur)
    BY <1>2, <2>1 DEF Commit, Local, SetStatus, Ledger!Measure, Ledger!Change
  <2> QED
    BY <2>1, <2>2 DEF Ledger!Next
<1> QED
  BY <1>1, <1>2 DEF CommitBenchmarking

(* The success and its summary are one step of the ledger. *)
LEMMA RecordSucceeds ==
  ASSUME TypeOK, Inv, RecordResult
  PROVE  [Ledger!Next]_(Ledger!vars)
<1>1. CASE Escape
  BY <1>1, IdleLetsGo DEF Escape, storeVars
<1>2. CASE /\ Commit("succeeded", "teardown")
           /\ summary' = summary \cup {cur}
           /\ outcome' = "succeeded"
  <2>1. cur \in Run /\ status[cur] = "benchmarking"
    BY <1>2 DEF RecordResult, Commit, Writable, Final, Measuring, TypeOK,
                OrchTypeOK, Inv, ProcessInv, HoldsARun, RowFollowsRun
  <2>2. Ledger!Succeed(cur)
    BY <1>2, <2>1 DEF Commit, Local, SetStatus, Ledger!Succeed, Ledger!Change
  <2> QED
    BY <2>1, <2>2 DEF Ledger!Next
<1>3. CASE Raise("failed") /\ UNCHANGED <<storeVars, agentVars, Local>>
  BY <1>3, SameLedger DEF storeVars, Local
<1> QED
  BY <1>1, <1>2, <1>3 DEF RecordResult

(* A failure or a cancellation is recorded for the run that is held. *)
LEMMA RecordEnds ==
  ASSUME TypeOK, Inv, RecordEnd
  PROVE  Ledger!Next
<1>1. CASE Escape
  BY <1>1, IdleLetsGo DEF Escape, storeVars
<1>2. CASE /\ Commit(outcome, IF started THEN "teardown" ELSE "settle")
           /\ UNCHANGED <<summary, outcome>>
  <2>1. cur \in Run /\ status[cur] \in {"starting", "benchmarking"}
    BY <1>2 DEF RecordEnd, Commit, Writable, Final, InFlight, TypeOK,
                OrchTypeOK, Inv, ProcessInv, HoldsARun, RowFollowsRun
  <2>2. outcome \in {"failed", "cancelled"}
    BY <1>2 DEF RecordEnd, Inv, ProcessInv, RowFollowsRun
  <2>3. CASE outcome = "failed"
    <3>1. Ledger!Fail(cur)
      BY <1>2, <2>1, <2>3
      DEF Commit, Local, SetStatus, Ledger!Fail, Ledger!Change
    <3> QED
      BY <2>1, <3>1 DEF Ledger!Next
  <2>4. CASE outcome = "cancelled"
    <3>1. Ledger!Cancel({cur})
      BY <1>2, <2>1, <2>4
      DEF Commit, Local, SetStatus, Ledger!Cancel, Ledger!Change, Ledger!Ended
    <3> QED
      BY <2>1, <3>1 DEF Ledger!Next
  <2> QED
    BY <2>2, <2>3, <2>4
<1> QED
  BY <1>1, <1>2 DEF RecordEnd

(* The requests submit absent runs and cancel runs that have not ended. *)
LEMMA RequestsKept ==
  ASSUME TypeOK, Inv, ServeRequest
  PROVE  [Ledger!Next]_(Ledger!vars)
<1> USE DEF ServeRequest, orchVars, procVars
<1>1. ASSUME NEW r \in Run, CreateRun(r)
      PROVE  Ledger!Next
  <2>1. Ledger!Submit({r})
    BY <1>1 DEF CreateRun, SetStatus, Ledger!Submit, Ledger!Change
  <2> QED
    BY <2>1 DEF Ledger!Next
<1>2. ASSUME NEW s \in Sweep, MaterializeSweep(s)
      PROVE  Ledger!Next
  <2>1. \A r \in RunsOf(s) : status[r] = "absent"
    BY <1>2, SweepOfAssumption
    DEF MaterializeSweep, RunsOf, Inv, SweepInv, CreatingIsAbsent,
        SweepWithItsRuns
  <2>2. Ledger!Submit(RunsOf(s))
    BY <1>2, <2>1
    DEF MaterializeSweep, SetStatus, Ledger!Submit, Ledger!Change
  <2>3. RunsOf(s) \in SUBSET Run
    BY DEF RunsOf
  <2> QED
    BY <2>2, <2>3 DEF Ledger!Next
<1>3. ASSUME NEW s \in Sweep, CommitCancel(s)
      PROVE  Ledger!Next
  <2>1. sawQueued[s] \subseteq RunsOf(s) /\ sweep[s] # "absent"
    BY <1>3 DEF CommitCancel, Inv, SweepInv, CancelSeesQueued
  <2>2. \A r \in sawQueued[s] : status[r] \notin Ledger!Ended \cup {"absent"}
    BY <1>3, <2>1, SweepOfAssumption
    DEF CommitCancel, Writable, Final, RunsOf, Inv, SweepInv,
        SweepWithItsRuns, Ledger!Ended
  <2>3. Ledger!Cancel(sawQueued[s])
    BY <1>3, <2>2
    DEF CommitCancel, EndCancel, SetStatus, Ledger!Cancel, Ledger!Change
  <2>4. sawQueued[s] \in SUBSET Run
    BY <2>1 DEF RunsOf
  <2> QED
    BY <2>3, <2>4 DEF Ledger!Next
<1>4. ASSUME NEW s \in Sweep,
             CheckHostFree(s) \/ ReadQueuedToCancel(s) \/ RejectCancel(s)
      PROVE  UNCHANGED Ledger!vars
  BY <1>4, SameLedger
  DEF CheckHostFree, ReadQueuedToCancel, RejectCancel, storeVars
<1> QED
  BY <1>1, <1>2, <1>3, <1>4 DEF ApiStep

(* The steps of execute_run that write no status keep the run they hold, or  *)
(* let it go.                                                                *)
LEMMA ExecuteKept ==
  ASSUME TypeOK, Inv, RunStep
  PROVE  [Ledger!Next]_(Ledger!vars)
<1>1. CASE \/ CheckCancel \/ Reach \/ AskStatus \/ StopOther \/ AskStart
           \/ AwaitReady \/ RequestBench \/ BenchReturns \/ NoticeCancel
           \/ CancelBench \/ AwaitBench \/ LookAhead \/ StopEngine
  BY <1>1, SameLedger
  DEF CheckCancel, Reach, AskStatus, StopOther, AskStart, AwaitReady,
      RequestBench, BenchReturns, NoticeCancel, CancelBench, AwaitBench,
      LookAhead, StopEngine, storeVars, Local
<1>2. CASE ReadSweep \/ CountRuns
  BY <1>2, SameLedger, IdleLetsGo DEF ReadSweep, CountRuns, storeVars
<1>3. CASE CloseSweep
  BY <1>3, IdleLetsGo DEF CloseSweep
<1> QED
  BY <1>1, <1>2, <1>3, ClaimPicksUp, CommitMeasures, RecordSucceeds, RecordEnds
  DEF RunStep

(* The run table keeps the ledger's promises: exclusive and single pick-up,  *)
(* a result exactly with its success, and nothing after the end.             *)
THEOREM LedgerImplemented == Spec => RunLedgerKept
<1>1. TypeOK /\ Inv /\ [Next]_vars => [Ledger!Next]_(Ledger!vars)
  <2> SUFFICES ASSUME TypeOK, Inv, [Next]_vars
               PROVE  [Ledger!Next]_(Ledger!vars)
    OBVIOUS
  <2>1. CASE Execute
    BY <2>1, ExecuteKept DEF Execute
  <2>2. CASE ProcessDies
    BY <2>2, IdleLetsGo DEF ProcessDies, Crash, storeVars
  <2>3. CASE ServeRequest
    BY <2>3, RequestsKept
  <2>4. CASE \/ WatchCancel
             \/ \E h \in Host : OnAgent(AgentStep(h)) \/ OnAgent(Outage(h))
             \/ UNCHANGED vars
    BY <2>4, SameLedger
    DEF WatchCancel, Watch, OnAgent, vars, storeVars, orchVars, procVars
  <2> QED
    BY <2>1, <2>2, <2>3, <2>4 DEF Next
<1>2. Spec => [](TypeOK /\ Inv)
  BY Correct
<1> QED
  BY <1>1, <1>2, LedgerInit, PTL DEF Spec, RunLedgerKept, Ledger!Spec
=============================================================================
