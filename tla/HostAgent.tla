------------------------------ MODULE HostAgent -----------------------------
(***************************************************************************)
(* One agent per host, as its callers see it: whether it answers, the      *)
(* engine it reports, and the phase of each benchmark it was asked for.    *)
(* An agent call that its caller abandons carries on: the handlers do not  *)
(* notice a client that hung up.  A start that was abandoned keeps its own *)
(* deadline, and looks at whatever engine there is by then.                *)
(***************************************************************************)
EXTENDS RunStore

CONSTANTS
  NoConfig,   \* no engine, hence no config_hash in ServerStatus
  MaxFaults   \* bound on the outages and agent deaths of a behaviour
ASSUME NoConfigAssumption == NoConfig \notin Config
ASSUME MaxFaultsAssumption == MaxFaults \in Nat

VARIABLES
  agent,      \* "up", "cut" off by the network, or "dead"
  engine,     \* ServerStatus: state and config_hash
  load,       \* the /server/start handler of each run
  bench,      \* the phase of each run's benchmark on its agent
  faults

agentVars == <<agent, engine, load, bench, faults>>

(* FAILED and STOPPING are not told apart from STOPPED: a failed start ends  *)
(* in stop(), which holds the lock until the engine is gone.                 *)
NoEngine == [state |-> "stopped", config |-> NoConfig]
Loading(c) == [state |-> "starting", config |-> c]
Ready(c) == [state |-> "ready", config |-> c]
Engine == {NoEngine} \cup {Loading(c) : c \in Config} \cup {Ready(c) : c \in Config}

(* "polling" until the engine is ready or the handler gives up, "undoing"    *)
(* while the stop() it ends in then waits or works, "none" before and after. *)
LoadPhase == {"none", "polling", "undoing", "ready"}

(* "preparing" is the /bench handler before the client process exists,       *)
(* "signalled" a client that was sent SIGTERM and has not exited yet.        *)
OnHost == {"preparing", "running", "signalled"}
BenchPhase == {"none", "measured", "failed"} \cup OnHost

AgentTypeOK ==
  /\ agent \in [Host -> {"up", "cut", "dead"}]
  /\ engine \in [Host -> Engine]
  /\ load \in [Run -> LoadPhase]
  /\ bench \in [Run -> BenchPhase]
  /\ faults \in 0..MaxFaults

AgentInit ==
  /\ agent = [h \in Host |-> "up"]
  /\ engine = [h \in Host |-> NoEngine]
  /\ load = [r \in Run |-> "none"]
  /\ bench = [r \in Run |-> "none"]
  /\ faults = 0

RunsOn(h) == {r \in Run : hostOf[r] = h}
(* BenchRunner._process is set. *)
ClientsOn(h) == {r \in RunsOn(h) : bench[r] \in {"running", "signalled"}}

SetBench(R, phase) == bench' = [r \in Run |-> IF r \in R THEN phase ELSE bench[r]]
SetEngine(h, e) == engine' = [engine EXCEPT ![h] = e]
SetLoad(r, phase) == load' = [load EXCEPT ![r] = phase]

-----------------------------------------------------------------------------
(* The agent's handlers, advancing by themselves. *)

(* _await_readiness polls whatever engine the supervisor has, for the start   *)
(* that launched it and for those that were abandoned before: it finds one   *)
(* serving, which is reported ready from then on ...                         *)
FindReady(r) ==
  /\ load[r] = "polling"
  /\ SetLoad(r, "ready")
  /\ LET e == engine[hostOf[r]] IN
       \/ e.state # "stopped" /\ SetEngine(hostOf[r], Ready(e.config))
       \/ e.state = "stopped" /\ UNCHANGED engine     \* it is being killed
  /\ UNCHANGED <<agent, bench, faults>>

(* ... or it is too late, its process exited, or it has none: what there is  *)
(* is then failed and stopped, at once or when the lock is free.  A start    *)
(* that found nothing, or could not record its process, changes no state.    *)
GiveUp(r) ==
  /\ load[r] = "polling"
  /\ \E phase \in {"undoing", "none"} : SetLoad(r, phase)
  /\ SetEngine(hostOf[r], NoEngine) \/ UNCHANGED engine
  /\ UNCHANGED <<agent, bench, faults>>

(* The stop() of a start that gave up stops whatever there is in its turn.   *)
Undo(r) ==
  /\ load[r] = "undoing"
  /\ \E phase \in {"undoing", "none"} : SetLoad(r, phase)
  /\ SetEngine(hostOf[r], NoEngine)
  /\ UNCHANGED <<agent, bench, faults>>

EndLoad(r) ==
  /\ agent[hostOf[r]] # "dead"
  /\ FindReady(r) \/ GiveUp(r) \/ Undo(r)

(* /bench after its checks and the cache reset: BenchRunner.run refuses a    *)
(* second client, and otherwise launches one.                                *)
LaunchClient(r) ==
  /\ agent[hostOf[r]] # "dead"
  /\ bench[r] = "preparing"
  /\ SetBench({r}, IF ClientsOn(hostOf[r]) = {} THEN "running" ELSE "failed")
  /\ UNCHANGED <<agent, engine, load, faults>>

(* A full disk or a failed cache reset answers before any client exists. *)
RefuseBench(r) ==
  /\ agent[hostOf[r]] # "dead"
  /\ bench[r] = "preparing"
  /\ SetBench({r}, "failed")
  /\ UNCHANGED <<agent, engine, load, faults>>

(* The client exits, of itself or at its timeout.  A signalled one is        *)
(* reported as cancelled whatever it wrote.                                  *)
EndBench(r) ==
  /\ agent[hostOf[r]] # "dead"
  /\ \/ /\ bench[r] = "running"
        /\ \E phase \in {"measured", "failed"} : SetBench({r}, phase)
     \/ /\ bench[r] = "signalled"
        /\ SetBench({r}, "failed")
  /\ UNCHANGED <<agent, engine, load, faults>>

AgentStep(h) ==
  \E r \in RunsOn(h) : EndLoad(r) \/ LaunchClient(r) \/ RefuseBench(r) \/ EndBench(r)

-----------------------------------------------------------------------------
(* Outages.  A cut leaves the agent working.  With an agent dies what it      *)
(* knew of its engine and of its calls; the engine and the benchmark client  *)
(* run on, for the next lifetime to reap.                                    *)

MayFail(h) ==
  /\ agent[h] = "up"
  /\ faults < MaxFaults
  /\ faults' = faults + 1

Cut(h) ==
  /\ MayFail(h)
  /\ agent' = [agent EXCEPT ![h] = "cut"]
  /\ UNCHANGED <<engine, load, bench>>

Die(h) ==
  /\ MayFail(h)
  /\ agent' = [agent EXCEPT ![h] = "dead"]
  /\ SetEngine(h, NoEngine)
  /\ load' = [r \in Run |-> IF r \in RunsOn(h) THEN "none" ELSE load[r]]
  /\ UNCHANGED bench

Reconnect(h) ==
  /\ agent[h] = "cut"
  /\ agent' = [agent EXCEPT ![h] = "up"]
  /\ UNCHANGED <<engine, load, bench, faults>>

(* A new agent lifetime reaps the orphaned engine before it serves, and      *)
(* knows nothing of the benchmarks the last one was running: nobody will     *)
(* ever be told how those ended.                                             *)
RestartAgent(h) ==
  /\ agent[h] = "dead"
  /\ agent' = [agent EXCEPT ![h] = "up"]
  /\ SetBench({r \in RunsOn(h) : bench[r] \in OnHost}, "failed")
  /\ UNCHANGED <<engine, load, faults>>

Outage(h) == Cut(h) \/ Die(h) \/ Reconnect(h) \/ RestartAgent(h)

-----------------------------------------------------------------------------
(* What the handlers do to the host when they are called. *)

(* POST /server/start, once it has taken the lock; POST /server/stop. *)
StartEngine(r) ==
  /\ engine[hostOf[r]].state = "stopped"
  /\ SetEngine(hostOf[r], Loading(configOf[r]))
  /\ SetLoad(r, "polling")
  /\ UNCHANGED <<agent, bench, faults>>
StopServer(h) ==
  /\ SetEngine(h, NoEngine)
  /\ UNCHANGED <<agent, load, bench, faults>>

(* POST /bench, up to the state check it makes before anything else. *)
AcceptBench(r) ==
  /\ engine[hostOf[r]].state = "ready"
  /\ SetBench({r}, "preparing")

(* Mutant of SignalClient: the request is accepted and nothing is signalled. *)
SignalNobody(h) == UNCHANGED bench
(* POST /bench/cancel signals the client there is, and is a no-op before     *)
(* there is one.                                                             *)
SignalClient(h) ==
  SetBench({r \in RunsOn(h) : bench[r] = "running"} , "signalled")
=============================================================================
