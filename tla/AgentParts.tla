----------------------------- MODULE AgentParts -----------------------------
(***************************************************************************)
(* What an agent keeps, each on its own: the engine, the benchmark client,  *)
(* and the sampler beside it.  A behaviour belongs to one of them; the      *)
(* others stay at their initial state.                                      *)
(***************************************************************************)
EXTENDS VllmServerInv, BenchRunner, TelemetrySampler

VARIABLE part

agentVars == <<vars, benchVars, samplerVars, part>>

AgentInit ==
  /\ ServerInit /\ BenchInit /\ SamplerInit
  /\ part \in {"engine", "client", "sampler"}
AgentNext ==
  /\ \/ part = "engine" /\ Next /\ UNCHANGED <<benchVars, samplerVars>>
     \/ part = "client" /\ BenchNext /\ UNCHANGED <<vars, samplerVars>>
     \/ part = "sampler" /\ SamplerNext /\ UNCHANGED <<vars, benchVars>>
  /\ UNCHANGED part
AgentSpec == AgentInit /\ [][AgentNext]_agentVars
(* The fairness of FairSpec and of BenchSpec. *)
AgentFairSpec ==
  /\ AgentSpec
  /\ \A h \in Starter \cup Stopper : WF_vars(part = "engine" /\ Handle(h))
  /\ \A h \in Starter : SF_vars(part = "engine" /\ GiveUp(h))
  /\ \A r \in Request : WF_benchVars(part = "client" /\ HandleBench(r))
-----------------------------------------------------------------------------
(* Every part keeps its types and its inductive invariant: the lock and the  *)
(* fields of the engine's supervisor, and its one engine while two starts are *)
(* under way; what a benchmark holds at each await; the schedule and the     *)
(* series of a sampler (VllmServerInv, BenchRunner, TelemetrySampler).       *)
PartsInvariant ==
  /\ ServerTypeOK /\ ServerInv /\ OneEngine
  /\ BenchTypeOK /\ BenchInv
  /\ SamplerTypeOK /\ SamplerInv
=============================================================================
