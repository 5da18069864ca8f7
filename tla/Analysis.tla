------------------------------ MODULE Analysis ------------------------------
(***************************************************************************)
(* The charts: one request loads the measured runs of one population and    *)
(* counts, in statements of their own, the runs it leaves out, while runs   *)
(* go on and end.  Of the runs it loaded it makes groups that may share a   *)
(* chart, points in them, and the frontier of each group.                   *)
(*                                                                         *)
(* A row has a machine (host, GPU model, vLLM version, client location: the *)
(* comparability key, numbered in the order of the labels), a configuration *)
(* and a workload, two figures of its summary, and of each GPU that was     *)
(* sampled its figures.  A point is the set of its runs.                    *)
(***************************************************************************)
EXTENDS ConfigText, Medians, Integers, Sequences, FiniteSets, FiniteSetsExt, SequencesExt

CONSTANTS
  History,      \* the rows at first: a set of sequences, oldest first
  Limit,        \* values of the limit parameter
  MaxRunLimit

VARIABLES stored, clock, view
analysisVars == <<stored, clock, view>>

Unfinished == {"queued", "starting"}       \* the latter stands for benchmarking, too
Statements == <<"load", "failed", "cancelled", "unfinished", "other", "answered">>
Excluded == {"failed", "cancelled", "unfinished"}
Unmeasured == -1
BalanceMetrics == {"sm", "memory", "power"}

(* The row of a run: what the charts read, and what sets it apart from       *)
(* another.  A text is stored normalised, and tp is the size that the row    *)
(* was created with.  A speculation is a method with its depth, an           *)
(* environment its notable part.                                             *)
StoredText == {t \in Text : Normalized(t) = t}
Statuses == {"queued", "starting", "succeeded", "failed", "cancelled"}
RunRow ==
  [machine : Nat, workload : STRING, perGpu : Nat \cup {Unmeasured}, tpot : Nat, gpus : Nat,
   config : StoredText, tp : Int,
   devices : Seq([BalanceMetrics -> Nat \cup {Unmeasured}]),
   status : Statuses, finished : Nat, real : BOOLEAN, imported : BOOLEAN, partial : BOOLEAN,
   driver : STRING, cuda : STRING, speculation : STRING, peer : STRING, env : STRING]
ASSUME AnalysisAssumption ==
  /\ \A h \in History : h \in Seq(RunRow)
  /\ Limit \subseteq Int /\ MaxRunLimit \in Nat \ {0}

AnalysisInit ==
  /\ stored \in {[i \in DOMAIN h |-> [h[i] EXCEPT !.finished = i]] : h \in History}
  /\ clock = Len(stored)
  /\ view \in [at : {1}, real : BOOLEAN,
               capped : {Max({1, Min({l, MaxRunLimit})}) : l \in Limit},
               shown : {{}}, ended : {{}}, left : {[s \in Excluded |-> {}]}, other : {{}}]
-----------------------------------------------------------------------------
(* The orchestrator, meanwhile.  The row says what the host was registered   *)
(* as until the run starts, and then what the agent answers.                 *)
Start(r) ==
  /\ stored[r].status = "queued"
  /\ \E real \in BOOLEAN : stored' = [stored EXCEPT ![r].status = "starting", ![r].real = real]
  /\ UNCHANGED <<clock, view>>

(* A terminal status, finished_at, and the summary of a run that succeeded,  *)
(* in one commit.                                                            *)
End(r, status) ==
  /\ stored[r].status = "starting" \/ (stored[r].status = "queued" /\ status = "cancelled")
  /\ stored' = [stored EXCEPT ![r].status = status, ![r].finished = clock + 1]
  /\ clock' = clock + 1
  /\ UNCHANGED view
-----------------------------------------------------------------------------
(* analysis_points.  _Filters.apply is the population, in every statement.   *)
InScope(real) == {r \in DOMAIN stored : stored[r].real = real}
OfStatus(R, some) == {r \in R : stored[r].status \in some}
Doing(statement) == Statements[view.at] = statement

(* _load_records: the newest ones, as many as the limit admits.              *)
NewestOf(R, n) ==
  CHOOSE S \in SUBSET R :
    /\ Cardinality(S) = Min({n, Cardinality(R)})
    /\ \A r \in S, q \in R \ S : stored[r].finished > stored[q].finished
LoadRecords ==
  /\ Doing("load")
  /\ view' = [view EXCEPT !.at = @ + 1,
                          !.shown = NewestOf(OfStatus(InScope(view.real), {"succeeded"}), view.capped),
                          !.ended = InScope(view.real) \ OfStatus(InScope(view.real), Unfinished)]
  /\ UNCHANGED <<stored, clock>>

(* _excluded: one count after the other.  No run succeeds without a summary. *)
StatusesOf(s) == IF s = "unfinished" THEN Unfinished ELSE {s}
CountExcluded ==
  /\ \E s \in Excluded :
       /\ Doing(s)
       /\ view' = [view EXCEPT !.at = @ + 1,
                               !.left[s] = OfStatus(InScope(view.real), StatusesOf(s))]
  /\ UNCHANGED <<stored, clock>>
CountOther ==
  /\ Doing("other")
  /\ view' = [view EXCEPT !.at = @ + 1, !.other = InScope(~view.real)]
  /\ UNCHANGED <<stored, clock>>

(* Mutant of Truncated: more than the limit, which LIMIT never returns. *)
TruncatedIfMore(v) == Cardinality(v.shown) > v.capped
Truncated(v) == Cardinality(v.shown) >= v.capped

AnalysisNext ==
  \/ \E r \in DOMAIN stored : \/ Start(r)
                            \/ \E status \in {"succeeded", "failed", "cancelled"} : End(r, status)
  \/ LoadRecords \/ CountExcluded \/ CountOther
AnalysisSpec == AnalysisInit /\ [][AnalysisNext]_analysisVars
-----------------------------------------------------------------------------
(* build_groups and build_point.                                             *)
PointId(r) == <<stored[r].config, stored[r].workload>>
Machines(R) == {stored[r].machine : r \in R}
On(m, R) == {r \in R : stored[r].machine = m}
PointsOf(R) == {{q \in R : PointId(q) = PointId(r)} : r \in R}

(* Per-GPU throughput, and the rate one user sees: 1000 / TPOT, which is     *)
(* unmeasured when it is zero (derive_per_user_rates).                       *)
PerGpu == [r \in DOMAIN stored |-> stored[r].perGpu]
PerUser == [r \in DOMAIN stored |-> IF stored[r].tpot > 0 THEN 1000 \div stored[r].tpot ELSE Unmeasured]

(* Twice the median of what was measured, for its integer value (summarize). *)
Value(point, metric) ==
  LET measured == {r \in point : metric[r] # Unmeasured}
      n == Cardinality(measured) IN
  IF n = 0 THEN Unmeasured
  ELSE Nth(measured, metric, (n + 1) \div 2) + Nth(measured, metric, (n \div 2) + 1)

X(point) == Value(point, PerGpu)
Y(point) == Value(point, PerUser)
Usable(points) == {p \in points : X(p) # Unmeasured /\ Y(p) # Unmeasured}

(* pareto_frontier.                                                          *)
(* Mutant of Dominates: as good on both axes. *)
DominatesIfEqual(q, p) == X(q) >= X(p) /\ Y(q) >= Y(p)
Dominates(q, p) == X(q) >= X(p) /\ Y(q) >= Y(p) /\ (X(q) > X(p) \/ Y(q) > Y(p))
Frontier(points) == {p \in Usable(points) : ~\E q \in Usable(points) : Dominates(q, p)}
-----------------------------------------------------------------------------
(* analysis_device_balance: how far apart the devices of a run sat, as       *)
(* percents of the busiest one that reported (imbalance), and the sampled    *)
(* runs of a group by their worst metric.  A balance of zero sorts as none.  *)
Reported(r, key) == {d[key] : d \in ToSet(stored[r].devices)} \ {Unmeasured}
Reporting(r, key) == {i \in DOMAIN stored[r].devices : stored[r].devices[i][key] # Unmeasured}
Imbalances(r) ==
  {(100 * (Max(Reported(r, key)) - Min(Reported(r, key)))) \div Max(Reported(r, key)) :
     key \in {k \in BalanceMetrics : Cardinality(Reporting(r, k)) >= 2 /\ Max(Reported(r, k)) > 0}}
SortKey(r) == IF Imbalances(r) \subseteq {0} THEN 1 ELSE -Max(Imbalances(r))
Balances(R) ==
  CHOOSE q \in SetToSeqs({r \in R : stored[r].devices # <<>>}) :
    \A i, j \in DOMAIN q : i < j => SortKey(q[i]) <= SortKey(q[j])
WithoutTelemetry(R) == {r \in R : stored[r].devices = <<>>}
-----------------------------------------------------------------------------
Answered == Doing("answered")

(* An answer that is not called truncated accounts for every run of its      *)
(* population that had ended when it was asked for, and one that is shows    *)
(* none but the newest; however runs end between its statements, none is     *)
(* both charted and counted as left out, or counted for two reasons.  Of the *)
(* runs it shows, each is in the balance of one group or counted as without  *)
(* telemetry, and a run of which a device idled while another worked comes   *)
(* before every run of its group with no such device                         *)
(* (_load_records, _excluded, analysis_device_balance).                      *)
Idled(r) ==
  \E key \in BalanceMetrics : \E d, e \in ToSet(stored[r].devices) : d[key] = 0 /\ e[key] > 0
AccountedOnce ==
  Answered =>
    LET left == view.left IN
    /\ \A s, t \in Excluded : s # t => left[s] \cap left[t] = {}
    /\ \A s \in Excluded : view.shown \cap left[s] = {}
    /\ LET missing == view.ended \ (view.shown \cup UNION {left[s] : s \in Excluded}) IN
       /\ ~Truncated(view) => missing = {}
       /\ \A q \in missing, r \in view.shown : stored[q].finished < stored[r].finished
    /\ UNION {ToSet(Balances(On(m, view.shown))) : m \in Machines(view.shown)}
         = view.shown \ WithoutTelemetry(view.shown)
    /\ \A m \in Machines(view.shown) :
         LET listed == Balances(On(m, view.shown)) IN
         /\ IsInjective(listed)
         /\ \A i, j \in DOMAIN listed : Idled(listed[j]) /\ ~Idled(listed[i]) => j < i

(* In every group, a point with both figures is off the frontier exactly     *)
(* when a point of the frontier beats it: points with equal figures stay     *)
(* together, and the frontier is never empty (pareto_frontier).              *)
FrontierCovers ==
  Answered =>
    \A m \in Machines(view.shown) :
      LET points == PointsOf(On(m, view.shown))
          frontier == Frontier(points) IN
      /\ \A p \in Usable(points) \ frontier : \E q \in frontier : Dominates(q, p)
      /\ \A p \in frontier, q \in Usable(points) :
           X(p) = X(q) /\ Y(p) = Y(q) => q \in frontier
-----------------------------------------------------------------------------
(* Why the counts add up: what an answer has at each of its statements.      *)
AnalysisTypeOK ==
  /\ IsFiniteSet(DOMAIN stored) /\ stored \in [DOMAIN stored -> RunRow]
  /\ clock \in Nat
  /\ view \in [at : 1..6, real : BOOLEAN, capped : Nat \ {0},
               shown : SUBSET DOMAIN stored, ended : SUBSET DOMAIN stored,
               left : [Excluded -> SUBSET DOMAIN stored], other : SUBSET DOMAIN stored]

(* No two runs have ended at once. *)
EndedApart ==
  \A r, q \in DOMAIN stored :
    /\ stored[r].finished <= clock
    /\ stored[r].finished = stored[q].finished => r = q

(* What was loaded had succeeded, what had ended has ended.                  *)
LoadedKnows ==
  LET behind == {r \in view.ended : stored[r].status = "succeeded"} \ view.shown IN
  /\ view.shown \subseteq view.ended
  /\ \A r \in view.shown : stored[r].status = "succeeded"
  /\ \A r \in view.ended : stored[r].status \notin Unfinished
  /\ Cardinality(view.shown) < view.capped => behind = {}
  /\ \A q \in behind, r \in view.shown : stored[q].finished < stored[r].finished

(* What was counted is of its status, and all of it; what was unfinished     *)
(* when it was counted was neither shown nor counted before.                 *)
CountedKnows ==
  /\ \A s \in {"failed", "cancelled"} :
       /\ \A r \in view.left[s] : stored[r].status = s
       /\ view.at > (IF s = "failed" THEN 2 ELSE 3) =>
            \A r \in view.ended : stored[r].status = s => r \in view.left[s]
  /\ view.left["unfinished"] \cap view.shown = {}
  /\ \A s \in {"failed", "cancelled"} : view.left["unfinished"] \cap view.left[s] = {}
  /\ view.at < 5 => view.left["unfinished"] = {}
  /\ \A r \in view.ended : stored[r].real = view.real

AnalysisInv == AnalysisTypeOK /\ EndedApart /\ LoadedKnows /\ CountedKnows
=============================================================================
