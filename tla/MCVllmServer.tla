---------------------------- MODULE MCVllmServer ----------------------------
(* VllmServer on two or three starts, stops and a death of the agent. *)
EXTENDS VllmServerInv, TLC

CONSTANTS a, b, c, s, t

Calls == Permutations(Starter) \cup Permutations(Stopper)
=============================================================================
