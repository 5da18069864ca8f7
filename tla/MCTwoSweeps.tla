----------------------------- MODULE MCTwoSweeps ----------------------------
(* ControlPlane on two sweeps, one of two runs and one of a single run, each *)
(* on a host of its own: the claims of the two hosts alternate.              *)
EXTENDS ControlPlaneClaims

CONSTANTS r1, r2, r3, s1, s2, c1, c2, h1, h2

TwoAndOne == [r \in Run |-> IF r = r2 THEN s2 ELSE s1]
OwnHosts == [r \in Run |-> IF r = r2 THEN h2 ELSE h1]
Same == [r \in Run |-> c1]
\* The run of s2 is claimed between the two of s1.
Between == [r \in Run |-> CASE r = r1 -> 1 [] r = r2 -> 2 [] OTHER -> 3]
=============================================================================
