------------------------------ MODULE RunLedger -----------------------------
(***************************************************************************)
(* What the run table promises to everyone who reads it: a run is picked   *)
(* up at most once and by one executor at a time, only the executor that   *)
(* holds it makes it progress, a result appears together with the status   *)
(* that announces it, and nothing that has ended ever changes again.  A    *)
(* run whose executor let go of it before it ended is never resumed: all   *)
(* that can still happen to it is to be cancelled.                         *)
(***************************************************************************)
CONSTANTS Run, NoRun

VARIABLES
  status,   \* the status of each run
  summary,  \* the runs that have a result
  holding   \* the run being executed

vars == <<status, summary, holding>>

Ended == {"succeeded", "failed", "cancelled"}

Init ==
  /\ status = [r \in Run |-> "absent"]
  /\ summary = {}
  /\ holding = NoRun

Change(R, new) == status' = [r \in Run |-> IF r \in R THEN new ELSE status[r]]

Submit(R) ==
  /\ \A r \in R : status[r] = "absent"
  /\ Change(R, "queued")
  /\ UNCHANGED <<summary, holding>>

PickUp(r) ==
  /\ holding = NoRun
  /\ status[r] = "queued"
  /\ Change({r}, "starting")
  /\ holding' = r
  /\ UNCHANGED summary

Measure(r) ==
  /\ holding = r
  /\ status[r] = "starting"
  /\ Change({r}, "benchmarking")
  /\ UNCHANGED <<summary, holding>>

Succeed(r) ==
  /\ holding = r
  /\ status[r] = "benchmarking"
  /\ Change({r}, "succeeded")
  /\ summary' = summary \cup {r}
  /\ UNCHANGED holding

Fail(r) ==
  /\ holding = r
  /\ status[r] \in {"starting", "benchmarking"}
  /\ Change({r}, "failed")
  /\ UNCHANGED <<summary, holding>>

Cancel(R) ==
  /\ \A r \in R : status[r] \notin Ended \cup {"absent"}
  /\ Change(R, "cancelled")
  /\ UNCHANGED <<summary, holding>>

LetGo ==
  /\ holding' = NoRun
  /\ UNCHANGED <<status, summary>>

Next ==
  \/ \E R \in SUBSET Run : Submit(R) \/ Cancel(R)
  \/ \E r \in Run : PickUp(r) \/ Measure(r) \/ Succeed(r) \/ Fail(r)
  \/ LetGo

Spec == Init /\ [][Next]_vars
=============================================================================
