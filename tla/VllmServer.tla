----------------------------- MODULE VllmServer -----------------------------
(***************************************************************************)
(* The engine supervisor of one agent: any number of start and stop        *)
(* handlers, which nobody cancels when their callers hang up, around one   *)
(* asyncio.Lock, and the ownership record that outlives the agent.         *)
(*                                                                         *)
(* Between two awaits a handler runs alone, so a step is what it does from *)
(* one await to the next.  The lock wakes its waiters in order: its holder *)
(* is the head of the queue.  start() releases it while the model loads.   *)
(* A start handler launches at most one engine, which bears its name.      *)
(***************************************************************************)
EXTENDS Naturals, Sequences, FiniteSets

CONSTANTS
  Starter,    \* calls of start(), each with a config of its own
  Stopper,    \* calls of stop()
  NoProc,     \* no process, no record, no config yet
  MaxStarts,  \* bound on the starts under way at a time
  MaxDeaths   \* bound on the deaths of the agent in a behaviour
ASSUME CallAssumption == Starter \cap Stopper = {} /\ NoProc \notin Starter
ASSUME MaxStartsAssumption == MaxStarts \in Nat
ASSUME MaxDeathsAssumption == MaxDeaths \in Nat

VARIABLES
  up,         \* is the agent serving?
  state,      \* VllmServer._state
  process,    \* VllmServer._process
  config,     \* VllmServer._config_hash
  queue,      \* VllmServer._lock: its holder and those who wait
  pc,         \* the await each call is at
  alive,      \* engines that exist on the host
  serving,    \* ... and answer /health and /v1/models
  record,     \* owned-process.json
  deaths

fields == <<state, process, config>>
host == <<alive, serving, record>>
life == <<up, deaths>>

ServerState == {"stopped", "starting", "ready", "stopping", "failed"}
(* "waiting" and "undoing" wait for the lock, to start and to stop.          *)
Ended == {"ok", "refused", "failed", "stopped", "lost", "orphaned"}
Label == {"new", "waiting", "spawning", "forked", "polling", "asking",
          "capturing", "undoing", "killing", "killed"} \cup Ended

ServerTypeOK ==
  /\ up \in BOOLEAN
  /\ state \in ServerState
  /\ process \in Starter \cup {NoProc}
  /\ config \in Starter \cup {NoProc}
  /\ queue \in Seq(Starter \cup Stopper)
  /\ pc \in [Starter \cup Stopper -> Label]
  /\ alive \subseteq Starter
  /\ serving \subseteq alive
  /\ record \in Starter \cup {NoProc}
  /\ deaths \in 0..MaxDeaths

ServerInit ==
  /\ up = TRUE
  /\ state = "stopped"
  /\ process = NoProc
  /\ config = NoProc
  /\ queue = <<>>
  /\ pc = [h \in Starter \cup Stopper |-> "new"]
  /\ alive = {}
  /\ serving = {}
  /\ record = NoProc
  /\ deaths = 0

Goto(h, label) == pc' = [pc EXCEPT ![h] = label]
Holds(h) == queue # <<>> /\ Head(queue) = h
Release == queue' = Tail(queue)

-----------------------------------------------------------------------------
(* stop() once the lock is the caller's, up to _terminate_child: p is the    *)
(* process it finds and q who waits behind it.                               *)
Stopped(h) == IF h \in Starter THEN "failed" ELSE "stopped"
BeginStop(h, p, q) ==
  IF p = NoProc
  THEN /\ state' = "stopped"
       /\ queue' = q
       /\ Goto(h, Stopped(h))
  ELSE /\ state' = "stopping"
       /\ queue' = <<h>> \o q
       /\ Goto(h, "killing")

(* A call of stop() that leaves state s behind while it waits; it does not   *)
(* wait for a free lock.                                                     *)
CallStop(h, p, q, s) ==
  IF q = <<>> THEN BeginStop(h, p, <<>>)
  ELSE /\ state' = s
       /\ queue' = Append(q, h)
       /\ Goto(h, "undoing")

Stop(h) ==
  /\ up
  /\ pc[h] = "new"
  /\ CallStop(h, process, queue, state)
  /\ UNCHANGED <<process, config, host, life>>

ResumeStop(h) ==
  /\ pc[h] = "undoing"
  /\ Holds(h)
  /\ BeginStop(h, process, Tail(queue))
  /\ UNCHANGED <<process, config, host, life>>

(* Mutant of Kill: the leader is killed and a worker keeps the port. *)
KillLeader(h) ==
  /\ pc[h] = "killing"
  /\ alive' = alive \ {process}
  /\ Goto(h, "killed")
  /\ UNCHANGED <<fields, queue, serving, record, life>>
(* _terminate_child: SIGTERM, then SIGKILL, to the engine's process group. *)
Kill(h) ==
  /\ pc[h] = "killing"
  /\ alive' = alive \ {process}
  /\ serving' = serving \ {process}
  /\ Goto(h, "killed")
  /\ UNCHANGED <<fields, queue, record, life>>

FinishStop(h) ==
  /\ pc[h] = "killed"
  /\ record' = NoProc
  /\ process' = NoProc
  /\ state' = "stopped"
  /\ Release
  /\ Goto(h, Stopped(h))
  /\ UNCHANGED <<config, alive, serving, life>>

-----------------------------------------------------------------------------
(* Mutants of BeginStart: only a ready server refuses; the config is set      *)
(* before the refusal.                                                       *)
BeginUnlessReady(h, q) ==
  /\ UNCHANGED process
  /\ IF state = "ready"
     THEN queue' = q /\ Goto(h, "refused") /\ UNCHANGED <<state, config>>
     ELSE /\ state' = "starting"
          /\ config' = h
          /\ queue' = <<h>> \o q
          /\ Goto(h, "spawning")
BeginNamed(h, q) ==
  /\ UNCHANGED process
  /\ config' = h
  /\ IF state \in {"starting", "ready"}
     THEN queue' = q /\ Goto(h, "refused") /\ UNCHANGED state
     ELSE state' = "starting" /\ queue' = <<h>> \o q /\ Goto(h, "spawning")
(* start() once the lock is the caller's, up to the thread that spawns. *)
BeginStart(h, q) ==
  /\ UNCHANGED process
  /\ \/ /\ state \in {"starting", "ready"}
        /\ queue' = q
        /\ Goto(h, "refused")
        /\ UNCHANGED <<state, config>>
     \/ /\ state \notin {"starting", "ready"}      \* no executable
        /\ queue' = q
        /\ Goto(h, "refused")
        /\ UNCHANGED <<state, config>>
     \/ /\ state \notin {"starting", "ready"}
        /\ state' = "starting"
        /\ config' = h
        /\ \/ queue' = <<h>> \o q /\ Goto(h, "spawning")
           \/ queue' = q /\ Goto(h, "refused")     \* the config is not written

(* The starts that were asked for and are not answered yet, or abandoned.    *)
UnderWay == {h \in Starter : pc[h] \notin {"new"} \cup Ended}

Start(h) ==
  /\ up
  /\ pc[h] = "new"
  /\ Cardinality(UnderWay) < MaxStarts
  /\ IF queue = <<>> THEN BeginStart(h, <<>>)
     ELSE /\ queue' = Append(queue, h)
          /\ Goto(h, "waiting")
          /\ UNCHANGED fields
  /\ UNCHANGED <<host, life>>

ResumeStart(h) ==
  /\ pc[h] = "waiting"
  /\ Holds(h)
  /\ BeginStart(h, Tail(queue))
  /\ UNCHANGED <<host, life>>

(* The thread forks the engine ... *)
Fork(h) ==
  /\ pc[h] = "spawning"
  /\ alive' = alive \cup {h}
  /\ Goto(h, "forked")
  /\ UNCHANGED <<fields, queue, serving, record, life>>

CannotLaunch(h) ==
  /\ pc[h] = "spawning"
  /\ state' = "failed"
  /\ Release
  /\ Goto(h, "refused")
  /\ UNCHANGED <<process, config, host, life>>

(* Mutant of Register: nothing is recorded. *)
RegisterUnrecorded(h) ==
  /\ pc[h] = "forked"
  /\ process' = h
  /\ IF h \in alive
     THEN Release /\ Goto(h, "asking") /\ UNCHANGED state
     ELSE CallStop(h, h, Tail(queue), "failed")
  /\ UNCHANGED <<config, host, life>>
(* ... and the handler that resumes takes it over, records it, releases the  *)
(* lock and looks at it for the first time.                                  *)
Register(h) ==
  /\ pc[h] = "forked"
  /\ process' = h
  /\ record' = h
  /\ IF h \in alive
     THEN Release /\ Goto(h, "asking") /\ UNCHANGED state
     ELSE CallStop(h, h, Tail(queue), "failed")
  /\ UNCHANGED <<config, alive, serving, life>>

(* ... or cannot write the record, which answers an error and stops nothing. *)
CannotRecord(h) ==
  /\ pc[h] = "forked"
  /\ process' = h
  /\ Release
  /\ Goto(h, "refused")
  /\ UNCHANGED <<state, config, host, life>>

-----------------------------------------------------------------------------
(* _await_readiness, without the lock: at every turn it looks at whatever    *)
(* process the supervisor has by then.                                       *)
Look(h) ==
  /\ pc[h] = "polling"
  /\ process \in alive
  /\ Goto(h, "asking")
  /\ UNCHANGED <<fields, queue, host, life>>

(* Mutants of GiveUp: it fails without stop(); it has no deadline. *)
GiveUpAtOnce(h) ==
  /\ pc[h] = "polling"
  /\ state' = "failed"
  /\ Goto(h, "failed")
  /\ UNCHANGED <<process, config, queue, host, life>>
GiveUpOnExit(h) ==
  /\ pc[h] = "polling"
  /\ process \notin alive
  /\ CallStop(h, process, queue, "failed")
  /\ UNCHANGED <<process, config, host, life>>
(* It is too late, the process exited, or somebody stopped it: stop(), with  *)
(* the state set to failed in the first two cases.                           *)
GiveUp(h) ==
  /\ pc[h] = "polling"
  /\ \/ CallStop(h, process, queue, "failed")
     \/ process = NoProc /\ CallStop(h, process, queue, state)
  /\ UNCHANGED <<process, config, host, life>>

(* The answer to /health and /v1/models comes from whoever serves the port,  *)
(* and takes longer than it takes to wake the next in line for the lock.     *)
Awake == \A h \in Starter \cup Stopper :
           Holds(h) => pc[h] \notin {"waiting", "undoing"}
NoAnswer(h) ==
  /\ pc[h] = "asking"
  /\ serving = {}
  /\ Awake
  /\ Goto(h, "polling")
  /\ UNCHANGED <<fields, queue, host, life>>
BecomeReady(h) ==
  /\ pc[h] = "asking"
  /\ serving # {}
  /\ Awake
  /\ state' = "ready"
  /\ Goto(h, "capturing")
  /\ UNCHANGED <<process, config, queue, host, life>>
(* ... or is not JSON, which is not expected: stop(). *)
BadAnswer(h) ==
  /\ pc[h] = "asking"
  /\ serving # {}
  /\ Awake
  /\ CallStop(h, process, queue, state)
  /\ UNCHANGED <<process, config, host, life>>

(* Mutant of AnswerStarted: the state is only set once the facts are in. *)
AnswerReady(h) ==
  /\ pc[h] = "capturing"
  /\ state' = "ready"
  /\ Goto(h, "ok")
  /\ UNCHANGED <<process, config, queue, host, life>>
(* _capture_engine_facts, and the answer. *)
AnswerStarted(h) ==
  /\ pc[h] = "capturing"
  /\ Goto(h, "ok")
  /\ UNCHANGED <<fields, queue, host, life>>

-----------------------------------------------------------------------------
(* The engine, and the agent's lifetimes. *)
Serve(p) ==
  /\ p \in alive \ serving
  /\ serving' = serving \cup {p}
  /\ UNCHANGED <<fields, queue, pc, alive, record, life>>

Exit(p) ==
  /\ p \in alive
  /\ alive' = alive \ {p}
  /\ serving' = serving \ {p}
  /\ UNCHANGED <<fields, queue, pc, record, life>>

(* Every handler and every answer is gone with its lifetime; an engine that  *)
(* was forked and not recorded is nobody's.                                  *)
Die ==
  /\ up
  /\ deaths < MaxDeaths
  /\ up' = FALSE
  /\ deaths' = deaths + 1
  /\ state' = "stopped"
  /\ process' = NoProc
  /\ config' = NoProc
  /\ queue' = <<>>
  /\ pc' = [h \in Starter \cup Stopper |->
              CASE pc[h] \in {"new", "orphaned"} -> pc[h]
                [] pc[h] = "forked" -> "orphaned"
                [] OTHER -> "lost"]
  /\ UNCHANGED host

(* reap_orphan, before the new lifetime serves: the recorded process is      *)
(* killed if it still exists and is verifiably ours, and forgotten anyway.   *)
Restart ==
  /\ ~up
  /\ up' = TRUE
  /\ record' = NoProc
  /\ \/ /\ alive' = alive \ {record}
        /\ serving' = serving \ {record}
     \/ UNCHANGED <<alive, serving>>
  /\ UNCHANGED <<fields, queue, pc, deaths>>

-----------------------------------------------------------------------------
vars == <<fields, queue, pc, host, life>>

Handle(h) ==
  \/ ResumeStop(h) \/ Kill(h) \/ FinishStop(h)
  \/ /\ h \in Starter
     /\ \/ ResumeStart(h) \/ Fork(h) \/ CannotLaunch(h)
        \/ Register(h) \/ CannotRecord(h) \/ Look(h) \/ NoAnswer(h)
        \/ BecomeReady(h) \/ BadAnswer(h) \/ AnswerStarted(h)

Next ==
  \/ \E h \in Starter : Start(h) \/ GiveUp(h) \/ Serve(h) \/ Exit(h)
  \/ \E h \in Stopper : Stop(h)
  \/ \E h \in Starter \cup Stopper : Handle(h)
  \/ Die
  \/ Restart

Spec == ServerInit /\ [][Next]_vars

(* A handler that can go on does, and the deadline of a start passes.  Nobody *)
(* has to call, an engine need not serve or exit, nor the agent die.          *)
FairSpec ==
  /\ Spec
  /\ \A h \in Starter \cup Stopper : WF_vars(Handle(h))
  /\ \A h \in Starter : SF_vars(GiveUp(h))

-----------------------------------------------------------------------------
Former == {"lost", "orphaned"}    \* calls of a lifetime that is over

(* The agent owns at most one vLLM process of its making at a time, whatever *)
(* abandoned start handlers do meanwhile.                                    *)
OwnsAtMostOne == Cardinality({p \in alive : pc[p] \notin Former}) <= 1

(* An engine the supervisor launched is the one a stop would terminate and   *)
(* the next lifetime would reap, from its registration to its end: no        *)
(* overwritten field or cleared record loses it, unless the record could not *)
(* be written at all.                                                        *)
EngineNeverLost ==
  \A p \in alive :
    pc[p] \notin Former \cup {"forked"} =>
      process = p /\ (pc[p] = "refused" \/ record = p)

(* A start that was given up for whatever reason left nothing behind that    *)
(* holds VRAM once it has answered.                                          *)
GivenUpHoldsNothing ==
  \A h \in Starter : pc[h] = "failed" => h \notin alive

(* With nobody holding the lock, the config the status reports is that of    *)
(* the process it reports: the control plane reuses an engine on its word.   *)
StatusNamesEngine == queue = <<>> /\ process # NoProc => config = process

(* Until an agent has died here, a server that is reported ready can be       *)
(* stopped: no start handler answers for an engine nobody has on hand.       *)
ReadyCanBeStopped ==
  deaths = 0 /\ state = "ready" /\ queue = <<>> => process # NoProc

(* Every call is answered or dies with its agent: no exit of a handler keeps *)
(* the lock, and no start waits longer than its deadline.                    *)
EveryCallAnswered ==
  \A h \in Starter \cup Stopper : pc[h] # "new" ~> pc[h] \in Ended

(* reaper.py, vllm_server.py: ownership is on record before the process      *)
(* exists, so that no engine outlives its agent and is nobody's.             *)
NoOrphanSurvives == up => \A p \in alive : pc[p] # "orphaned"
=============================================================================
