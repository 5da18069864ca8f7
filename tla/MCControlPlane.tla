--------------------------- MODULE MCControlPlane ---------------------------
(* ControlPlane on three runs: a sweep of two and a run of its own, in       *)
(* either order, with the configs that make reuse and swapping happen.       *)
EXTENDS ControlPlaneClaims

CONSTANTS r1, r2, r3, s1, c1, c2, h1

\* A sweep of r1 and r2, then r3 alone.
SweepThenRun == [r \in Run |-> IF r = r3 THEN NoSweep ELSE s1]
OneHost == [r \in Run |-> h1]
\* The sweep keeps one engine, the run after it wants another.
PairThenOther == [r \in Run |-> IF r = r3 THEN c2 ELSE c1]
\* Every run but the second wants the same engine.
Alternating == [r \in Run |-> IF r = r2 THEN c2 ELSE c1]
InOrder == [r \in Run |-> CASE r = r1 -> 1 [] r = r2 -> 2 [] OTHER -> 3]
=============================================================================
