------------------------- MODULE ControlPlaneClaims -------------------------
(***************************************************************************)
(* What the repository says of the control plane and the code does not     *)
(* quite do.  Each statement is quoted, with its place, in PROJECT.json.   *)
(***************************************************************************)
EXTENDS ControlPlaneInv

(* execute_run never raises: it only returns after the finally block, unless *)
(* the process dies.                                                         *)
NeverRaises ==
  [][(pc \in Working) => (pc' # "idle" \/ crashes' # crashes)]_vars

(* A run in flight of a cancelled sweep is stopped, and does not wait for    *)
(* its benchmark to end.                                                     *)
CancelStopsTheBenchmark ==
  \A r \in Run :
    (cur = r /\ sweepOf[r] # NoSweep /\ sweep[sweepOf[r]] = "cancelled") ~> cur # r

(* A crash between a run finishing and its sweep being updated cannot leave  *)
(* the sweep mid-flight for ever.                                            *)
CrashLeavesNoSweepOpen ==
  \A s \in Sweep :
    (sweep[s] \in Active /\ Outstanding(s) = {}) ~> sweep[s] \in Final
=============================================================================
