------------------------------ MODULE RunStore ------------------------------
(***************************************************************************)
(* The rows of the database that the API and the orchestrator share: the   *)
(* status of every run, the runs that have a RunSummary row, and the       *)
(* status of every sweep.  Every statement of the program is a transaction *)
(* under READ COMMITTED, so one committed transaction is one step, and a   *)
(* read followed by a commit is two.                                       *)
(*                                                                         *)
(* Runs, sweeps, hosts and server configurations are named in advance: a   *)
(* row that nobody has inserted yet is "absent".  The columns that never   *)
(* change after the insert are constants.                                  *)
(***************************************************************************)
EXTENDS Naturals, FiniteSets

CONSTANTS
  Run,        \* rows of table run
  Sweep,      \* rows of table sweep
  Host,       \* rows of table gpu_host, one agent and one engine each
  Config,     \* server_config rows, identified by their config_hash
  NoSweep,    \* run.sweep_id is NULL
  sweepOf,    \* run.sweep_id
  hostOf,     \* run.gpu_host_id
  configOf,   \* run.config_hash
  rank        \* position in (queued_at, sweep_seq NULLS FIRST) order

ASSUME SweepOfAssumption == /\ NoSweep \notin Sweep
                            /\ sweepOf \in [Run -> Sweep \cup {NoSweep}]
ASSUME HostOfAssumption == hostOf \in [Run -> Host]
ASSUME ConfigOfAssumption == configOf \in [Run -> Config]
ASSUME RankAssumption == /\ rank \in [Run -> Nat]
                         /\ \A q, r \in Run : rank[q] = rank[r] => q = r

(* create_sweep refuses an empty plan and puts every run on the sweep's host. *)
ASSUME PlanAssumption ==
  \A s \in Sweep : \E h \in Host :
    {hostOf[r] : r \in {q \in Run : sweepOf[q] = s}} = {h}

VARIABLES
  status,     \* run.status
  summary,    \* the runs with a row in run_summary
  sweep       \* sweep.status

storeVars == <<status, summary, sweep>>

InFlight == {"starting", "benchmarking"}
Final == {"succeeded", "failed", "cancelled"}
RunStatus == {"absent", "queued"} \cup InFlight \cup Final

(* A draft sweep is never written: create_sweep inserts it as queued. *)
Active == {"queued", "running"}
SweepStatus == {"absent"} \cup Active \cup Final

StoreTypeOK ==
  /\ status \in [Run -> RunStatus]
  /\ summary \subseteq Run
  /\ sweep \in [Sweep -> SweepStatus]

StoreInit ==
  /\ status = [r \in Run |-> "absent"]
  /\ summary = {}
  /\ sweep = [s \in Sweep |-> "absent"]

-----------------------------------------------------------------------------
RunsOf(s) == {r \in Run : sweepOf[r] = s}
(* Mutant of Queued: a claimed run that nobody executes is offered again. *)
QueuedOrClaimed == {r \in Run : status[r] \in {"queued", "starting"}}
Queued == {r \in Run : status[r] = "queued"}
QueuedOn(h) == {r \in Queued : hostOf[r] = h}

(* ORDER BY queued_at, sweep_seq NULLS FIRST LIMIT 1 over a set of runs: the *)
(* singleton of its first run, or nothing when the set is empty.             *)
FirstOf(R) == {r \in R : \A q \in R : rank[r] <= rank[q]}

(* Mutant of Writable: no trigger on the table. *)
WritableAlways(r) == status[r] # "absent"
(* The trigger run_immutable_when_terminal raises on any UPDATE of a run     *)
(* whose stored status is terminal: only these runs can be written.          *)
Writable(r) == status[r] \notin Final

(* settle_sweep's view of a sweep: is any of its runs still able to change,  *)
(* and if not, which status summarises them.                                 *)
Outstanding(s) == {r \in RunsOf(s) : status[r] \in {"queued"} \cup InFlight}
Ended(s, outcome) == {r \in RunsOf(s) : status[r] = outcome}
(* Mutant of Verdict: a sweep with a success in it is a success. *)
VerdictOnAnySuccess(s) ==
  CASE Ended(s, "succeeded") # {} -> "succeeded"
    [] Ended(s, "succeeded") = {} /\ Ended(s, "failed") # {} -> "failed"
    [] OTHER -> "cancelled"
Verdict(s) ==
  CASE Ended(s, "failed") # {} -> "failed"
    [] /\ Ended(s, "failed") = {}
       /\ Ended(s, "cancelled") # {}
       /\ Ended(s, "succeeded") = {} -> "cancelled"
    [] OTHER -> "succeeded"

(* An UPDATE of the status of a set of runs in one transaction. *)
SetStatus(R, new) == status' = [r \in Run |-> IF r \in R THEN new ELSE status[r]]
=============================================================================
