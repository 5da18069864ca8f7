----------------------------- MODULE SweepPlan ------------------------------
(***************************************************************************)
(* A sweep from its axes to its last run: the configurations derived along  *)
(* the tensor-parallel axis, the order the matrix runs in, the engine loads *)
(* this order costs when the orchestrator works through it, and the time    *)
(* that is left as the API estimates it after each run.                     *)
(*                                                                         *)
(* Durations are the same for every run of a workload and for every load:   *)
(* what an extrapolation from medians has to reproduce.                     *)
(***************************************************************************)
EXTENDS ConfigText, Medians, FiniteSets, Functions

CONSTANTS
  Base,          \* the texts to sweep: a set of sequences of texts
  Sizes,         \* tensor_parallel_sizes: a set of sequences, <<>> for none
  MaxWorkloads, MaxReplicates, MaxSweepRuns,
  GpuCount,
  BenchSeconds,  \* of each workload
  LoadSeconds
ASSUME SweepPlanAssumption ==
  /\ Base \subseteq Seq(Text) /\ Sizes \subseteq Seq(Int)
  /\ {MaxWorkloads, MaxReplicates, MaxSweepRuns, GpuCount, LoadSeconds} \subseteq Nat
  /\ BenchSeconds \in [1..MaxWorkloads -> Nat]

VARIABLES
  axes,          \* the request: bases, sizes, workloads, replicates, order
  answer,        \* "none", "created" or "refused"
  plan,          \* the materialized runs, in order
  ran,           \* of each run that has ended: status, seconds, whether it loaded
  loaded         \* the configuration of the engine that is up, if one is
planVars == <<axes, answer, plan, ran, loaded>>

PlanInit ==
  /\ axes \in [bases : Base, sizes : Sizes, workloads : 1..MaxWorkloads,
               replicates : 1..MaxReplicates, order : {"grouped", "interleaved"}]
  /\ answer = "none" /\ plan = <<>> /\ ran = <<>> /\ loaded = {}

(* _resolve_configs: the bases as they are, or each at each size.            *)
Configs(a) ==
  IF a.sizes = <<>> THEN a.bases
  ELSE LET n == Len(a.sizes) IN
       [i \in 1..Len(a.bases) * n |->
          Normalized(Variant(a.bases[(i - 1) \div n + 1], a.sizes[((i - 1) % n) + 1]))]

OnHost(n) == 1 <= n /\ n <= GpuCount
Refused(a) ==
  \/ a.sizes = <<>> /\ \E t \in Range(a.bases) : ReadTp(t) >= 0 /\ ~OnHost(ReadTp(t))
  \/ a.sizes # <<>> /\ \/ \E n \in Range(a.sizes) : ~OnHost(n)
                       \/ \E t \in Range(a.bases) : Ambiguous(t)
  \/ Len(Configs(a)) * a.workloads * a.replicates > MaxSweepRuns

(* expand: configurations are the outermost axis of a pass; replicates are   *)
(* the innermost axis, or a pass each.                                       *)
(* Mutant of Expand: an interleaved pass varies the configuration fastest. *)
ExpandConfigFastest(a, configs) ==
  LET C == Len(configs)  W == a.workloads  R == a.replicates IN
  [k \in 1..C * W * R |->
     IF a.order = "grouped"
     THEN [config |-> (k - 1) \div (W * R) + 1, workload |-> (((k - 1) \div R) % W) + 1,
           replicate |-> (k - 1) % R]
     ELSE [config |-> ((k - 1) % C) + 1, workload |-> (((k - 1) \div C) % W) + 1,
           replicate |-> (k - 1) \div (C * W)]]
Expand(a, configs) ==
  LET C == Len(configs)  W == a.workloads  R == a.replicates IN
  [k \in 1..C * W * R |->
     IF a.order = "grouped"
     THEN [config |-> (k - 1) \div (W * R) + 1, workload |-> (((k - 1) \div R) % W) + 1,
           replicate |-> (k - 1) % R]
     ELSE [config |-> (((k - 1) \div W) % C) + 1, workload |-> ((k - 1) % W) + 1,
           replicate |-> (k - 1) \div (C * W)]]

Materialized(a) ==
  [k \in DOMAIN Expand(a, Configs(a)) |->
     LET p == Expand(a, Configs(a))[k] IN [point |-> p, text |-> Configs(a)[p.config]]]
CreatePlan ==
  /\ answer = "none"
  /\ IF Refused(axes) THEN answer' = "refused" /\ UNCHANGED plan
     ELSE answer' = "created" /\ plan' = Materialized(axes)
  /\ UNCHANGED <<axes, ran, loaded>>
-----------------------------------------------------------------------------
(* execute_run: the engine that is up is used when it serves this very       *)
(* configuration, and is kept for the next run when this one succeeded and   *)
(* the next wants the same.                                                  *)
(* Mutant of KeepLoaded: kept for the same workload only. *)
KeepForWorkload(k) ==
  k < Len(plan) /\ plan[k + 1].text = plan[k].text
    /\ plan[k + 1].point.workload = plan[k].point.workload
KeepLoaded(k) == k < Len(plan) /\ plan[k + 1].text = plan[k].text

RunNext(status) ==
  LET k == Len(ran) + 1
      loads == plan[k].text \notin loaded
      bench == BenchSeconds[plan[k].point.workload] IN
  /\ answer = "created" /\ k <= Len(plan)
  /\ ran' = Append(ran, [status |-> status, load |-> loads,
                         seconds |-> (IF loads THEN LoadSeconds ELSE 0) + bench])
  /\ loaded' = IF status = "succeeded" /\ KeepLoaded(k) THEN {plan[k].text} ELSE {}
  /\ UNCHANGED <<axes, answer, plan>>

PlanNext == CreatePlan \/ \E status \in {"succeeded", "failed"} : RunNext(status)
PlanSpec == PlanInit /\ [][PlanNext]_planVars
-----------------------------------------------------------------------------
(* plan_engine_loads: a run whose configuration is not the previous one's.   *)
PlannedLoad(k) == k = 1 \/ plan[k].text # plan[k - 1].text
EngineStarts == Cardinality({k \in DOMAIN plan : PlannedLoad(k)})

(* _estimate: the runs that succeeded, and those still to come.              *)
Observed == {k \in DOMAIN ran : ran[k].status = "succeeded"}
Remaining == DOMAIN plan \ DOMAIN ran
WorkloadOf(k) == plan[k].point.workload

(* The middle one, or the mean of the two in the middle.                     *)
Median(K, seconds) ==
  LET n == Cardinality(K) IN
  IF n % 2 = 1 THEN Nth(K, seconds, (n + 1) \div 2)
  ELSE (Nth(K, seconds, n \div 2) + Nth(K, seconds, (n \div 2) + 1)) \div 2

(* estimate_remaining: a load is what a run that had one took longer than    *)
(* the runs of its workload that had none.                                   *)
Unknown == -1
Seconds == [k \in DOMAIN ran |-> ran[k].seconds]
Benchmarks == {k \in Observed : ~PlannedLoad(k)}
WithLoads == Observed \ Benchmarks
Measured == {WorkloadOf(k) : k \in Benchmarks}
(* Mutant of BenchCost: one median over every workload. *)
BenchCostOverall(w) == Median(Benchmarks, Seconds)
BenchCost(w) ==
  Median(IF w \in Measured THEN {k \in Benchmarks : WorkloadOf(k) = w} ELSE Benchmarks, Seconds)
LoadsRemaining == {k \in Remaining : PlannedLoad(k)}
Overhead ==
  Median(WithLoads, [k \in WithLoads |-> Max({0, Seconds[k] - BenchCost(WorkloadOf(k))})])
(* A caveat says that a workload, or a load, has not been seen yet.          *)
Caveat == \/ Benchmarks # {} /\ ~{WorkloadOf(k) : k \in Remaining} \subseteq Measured
          \/ Benchmarks # {} /\ LoadsRemaining # {} /\ WithLoads = {}
SecondsRemaining ==
  CASE Remaining = {}                                         -> 0
    [] Remaining # {} /\ Observed = {}                        -> Unknown
    [] Remaining # {} /\ Observed # {} /\ Benchmarks = {}     ->
         IF LoadsRemaining = Remaining
         THEN Median(WithLoads, Seconds) * Cardinality(Remaining) ELSE Unknown
    [] OTHER ->
         SumFunction([k \in Remaining |-> BenchCost(WorkloadOf(k))])
           + (IF WithLoads = {} THEN 0 ELSE Overhead * Cardinality(LoadsRemaining))
-----------------------------------------------------------------------------
AllSucceeded == Observed = DOMAIN ran
Loads(K) == {k \in K : ran[k].load}

(* A plan is the whole matrix, each point as often as it has replicates, in  *)
(* the order that was asked for: consecutive replicates, or one pass of the  *)
(* matrix after the other (expand).                                          *)
PlanCoversMatrix ==
  answer = "created" =>
    LET points == [k \in DOMAIN plan |-> plan[k].point]
        same(k) == points[k].config = points[k + 1].config /\
                   points[k].workload = points[k + 1].workload IN
    /\ IsInjective(points)
    /\ Range(points) = [config : 1..Len(Configs(axes)), workload : 1..axes.workloads,
                        replicate : 0..axes.replicates - 1]
    /\ \A k \in 1..Len(plan) - 1 :
         IF axes.order = "grouped"
         THEN points[k].replicate < axes.replicates - 1 => same(k)
         ELSE /\ points[k].replicate <= points[k + 1].replicate
              /\ points[k].workload < axes.workloads => points[k].config = points[k + 1].config

(* A sweep without a failure loads the engine as often as its author was     *)
(* told, and before the runs that were counted for it (_engine_starts,       *)
(* plan_engine_loads, _ensure_server, _next_run_wants_same_config).          *)
StartsAsPlanned ==
  AllSucceeded => /\ Loads(DOMAIN ran) = {k \in DOMAIN ran : PlannedLoad(k)}
                  /\ ran # <<>> /\ Remaining = {} => Cardinality(Loads(DOMAIN ran)) = EngineStarts

(* An estimate without a caveat is what the rest of an undisturbed sweep     *)
(* takes (estimate_remaining).                                               *)
EstimateExact ==
  answer = "created" /\ AllSucceeded /\ SecondsRemaining # Unknown /\ ~Caveat =>
    SecondsRemaining =
      SumFunction([k \in Remaining |-> BenchSeconds[WorkloadOf(k)]])
        + LoadSeconds * Cardinality(LoadsRemaining)
-----------------------------------------------------------------------------
(* Why the loads are the planned ones: as long as every run succeeds, the    *)
(* engine that is up is the one of the last run, and only if the next wants  *)
(* it; and a run takes what its workload takes, and a load when it had one.  *)
PlanTypeOK ==
  /\ axes \in [bases : Base, sizes : Sizes, workloads : 1..MaxWorkloads,
               replicates : 1..MaxReplicates, order : {"grouped", "interleaved"}]
  /\ answer \in {"none", "created", "refused"}
  /\ plan = IF answer = "created" THEN Materialized(axes) ELSE <<>>
  /\ ran \in Seq([status : {"succeeded", "failed"}, load : BOOLEAN, seconds : Nat])
  /\ Len(ran) <= Len(plan)
Kept == IF ran # <<>> /\ KeepLoaded(Len(ran)) THEN {plan[Len(ran)].text} ELSE {}
LoadsFollowPlan ==
  /\ \A k \in DOMAIN ran :
       ran[k].seconds = (IF ran[k].load THEN LoadSeconds ELSE 0) + BenchSeconds[WorkloadOf(k)]
  /\ AllSucceeded => loaded = Kept /\ \A k \in DOMAIN ran : ran[k].load = PlannedLoad(k)
PlanInv == PlanTypeOK /\ LoadsFollowPlan
=============================================================================
