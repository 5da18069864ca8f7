---------------------------- MODULE EngineOnHand ----------------------------
(***************************************************************************)
(* The engine supervisor as HostAgent has it: the engine that is on hand,  *)
(* and the start handlers that can still end it.                           *)
(***************************************************************************)
EXTENDS VllmServerInv

Here == "here"   \* the one host of a supervisor

(* An engine is on hand from its launch, and as long as the config is its own *)
(* and nobody has begun to stop it.                                           *)
OnHand == Launching # {} \/ (process # NoProc /\ config = process)
BeingStopped == \E h \in Starter \cup Stopper : pc[h] \in {"killing", "killed"}
HeldEngine ==
  IF OnHand /\ state \in {"starting", "ready"} /\ ~BeingStopped
  THEN [state |-> state, config |-> config]
  ELSE [state |-> "stopped", config |-> NoProc]

LoadOf(label) ==
  CASE label \in {"spawning", "forked", "polling", "asking"} -> "polling"
    [] label \in {"undoing", "killing", "killed"} -> "undoing"
    [] label \in {"capturing", "ok"} -> "ready"
    [] OTHER -> "none"

(* One run per start, each with the config of its name, and no benchmarks.   *)
Agent == INSTANCE HostAgent WITH
  Run <- Starter, Sweep <- {}, Host <- {Here}, Config <- Starter, NoSweep <- NoProc,
  sweepOf <- [c \in Starter |-> NoProc], hostOf <- [c \in Starter |-> Here],
  configOf <- [c \in Starter |-> c], rank <- [c \in Starter |-> 0],
  status <- <<>>, summary <- {}, sweep <- <<>>,
  NoConfig <- NoProc, MaxFaults <- MaxDeaths,
  agent <- [h \in {Here} |-> IF up THEN "up" ELSE "dead"],
  engine <- [h \in {Here} |-> HeldEngine],
  load <- [c \in Starter |-> LoadOf(pc[c])],
  bench <- [c \in Starter |-> "none"], faults <- deaths

(* stop() takes its turn on a process.                                       *)
StopBegins == \E s \in Stopper : pc[s] # "killing" /\ pc'[s] = "killing"

(* The steps of HostAgent, the stop of an engine only for a caller of stop(). *)
EngineStep ==
  \/ \E c \in Starter : Agent!StartEngine(c) \/ Agent!EndLoad(c)
  \/ StopBegins /\ Agent!StopServer(Here)
  \/ Agent!Die(Here)
  \/ Agent!RestartAgent(Here)

(* With two starts under way the engine and the starts go on as HostAgent's  *)
(* do (HostAgent.StartEngine, EndLoad, StopServer, Die, RestartAgent): an    *)
(* engine is loaded where there is none, becomes ready as the one that was   *)
(* asked for, and is gone by a stop that a caller asked for, by a start that *)
(* gave up, abandoned or not, or with its agent.  A stop counts from its     *)
(* turn on, and a start from the lock.                                       *)
heldVars == <<up, HeldEngine, [c \in Starter |-> LoadOf(pc[c])], deaths>>
HostEngineImplemented == Agent!AgentInit /\ [][EngineStep]_heldVars

(* And with nobody in line, it is what /server/status reports of the process *)
(* there is (VllmServer.status).                                             *)
StatusTellsHeld ==
  queue = <<>> /\ process # NoProc =>
    HeldEngine \in {Agent!Loading(process), Agent!Ready(process)} /\ HeldEngine.state = state
=============================================================================
