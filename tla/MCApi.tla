------------------------------- MODULE MCApi -------------------------------
(* The services of the API, each on its own: the rows that callers create,  *)
(* the samples of finished runs, a sweep's plan, the text of a configuration *)
(* and the charts.  A behaviour belongs to one of them; the others stay at   *)
(* an initial state.                                                        *)
EXTENDS McpSurface, RunTelemetry, ConfigVariants, Comparison

CONSTANTS c1, c2, c3, c4, c5, c6,
          u1, u2, p1, p2, q1, engine, gpu0, gpu1

VARIABLE part

Requests(s) ==
  [c \in Caller |-> LET i == CHOOSE i \in 1..6 : c = <<c1, c2, c3, c4, c5, c6>>[i] IN s[i]]
Scenarios == {Requests(s) : s \in {
  \* a configuration edited into another, and the first submitted again
  <<NewConfig("t1", NoParent), NewConfig("t2", "t1"), NewConfig("t1", "t2"),
    NewWorkload("w1"), NewWorkload("w1"), Justified("t1", c1)>>,
  \* a run of what is being created, on a host that is being deleted
  <<NewConfig("t1", NoParent), NewWorkload("w1"), NewRun("t1", "w1", "h"),
    Register("h", {1}), Delete("h"), Justified("t1", c3)>>,
  \* two justifications, one withdrawn
  <<NewConfig("t1", NoParent), Register("h", {1}), Import("h", <<Point("t1", "w1", TRUE)>>),
    Justified("t1", c3), Withdrawn("t1", c3), Justified("t1", c3)>>,
  \* imports that meet each other's rows, one of which cannot be read, the other
  \* one has no sweep to cancel
  <<NewConfig("t1", NoParent), Register("h", {1}), Delete("h"),
    Import("h", <<Point("t1", "w1", TRUE), Point("t2", "w1", TRUE)>>),
    Import("h", <<Point("t2", "w1", TRUE), Point("t1", "w2", FALSE)>>),
    Cancel(c4)>>,
  \* sweeps that derive the same configurations in opposite orders, one cancelled
  <<Cancel(c6), NewWorkload("w1"), Register("h", {1}), Import("h", <<Point("t1", "w1", TRUE)>>),
    NewSweep("h", <<Variation("t1", "t2", "w1"), Variation("t1", "t3", "w1")>>),
    NewSweep("h", <<Variation("t1", "t3", "w1"), Variation("t1", "t2", "w1")>>)>>,
  \* a host whose GPUs come and go, refreshed twice while it may be deleted,
  \* and no sweep to cancel
  <<Cancel(c2), Register("h", {0}), Refresh("h", {0, 1}),
    Refresh("h", {0, 2}), Delete("h"), Cancel(c2)>>}}

Lengths(e, a, b) == [s \in Series |-> CASE s = engine -> e [] s = gpu0 -> a [] s = gpu1 -> b]
Recordings == {Lengths(0, 0, 0), Lengths(4, 4, 4), Lengths(5, 4, 2)}

Line(key, i, n, comment) == [key |-> key, indent |-> i, value |-> n, comment |-> comment]
Model(i) == Line("model", i, 0, FALSE)
Bases == {<<<<Model(0)>>>>, <<<<Tp("tensor-parallel-size", 3)>>>>,
          <<<<Tp("tensor-parallel-size", 2), Model(0)>>, <<Model(0)>>>>}
AxisSizes == {<<>>, <<1>>, <<1, 2>>, <<2, 2>>}
Bench == [w \in 1..2 |-> 2 * w]

Lines == {Line(key, i, n, comment) : key \in TpKeys, i \in 0..1, n \in {NotANumber, 1, 2},
                                     comment \in BOOLEAN}
           \cup {Model(0), Model(1), Line("blank", 0, 0, FALSE)}
Texts == UNION {[1..n -> Lines] : n \in 1..3}

At1 == <<Model(0), Tp("tensor-parallel-size", 1)>>
At2 == <<Model(0), Tp("tensor_parallel_size", 2)>>
Sized2 == <<Tp("tensor-parallel-size", 2), Model(0)>>
Spaced2 == <<Tp("tensor-parallel-size", 2), Line("blank", 0, 0, FALSE), Model(1)>>
Commented2 == <<Model(0), Line("tensor-parallel-size", 0, 2, TRUE)>>
Twice == Append(At1, Tp("tensor-parallel-size", 2))
Row(m, c, x, t, s, real) ==
  [f \in Warnable |-> Unasked] @@
  [machine |-> m, config |-> c, tp |-> AskedBySweep(c), workload |-> "w", perGpu |-> x, tpot |-> t, gpus |-> 1,
   devices |-> <<>>, status |-> s, finished |-> 0, real |-> real,
   imported |-> FALSE, partial |-> FALSE]
Done1 == Row(1, At1, 1, 4, "succeeded", TRUE)
Gpu(sm, memory, power) == [sm |-> sm, memory |-> memory, power |-> power]
\* runs that end meanwhile, a device of which may have idled
Sampled1 == [Row(1, At1, 1, 2, "succeeded", TRUE) EXCEPT !.devices = <<Gpu(4, 4, 4), Gpu(4, 4, Unmeasured)>>]
Ending ==
  {<<Sampled1, [Row(on[1], At2, x, t, "succeeded", TRUE) EXCEPT !.devices = <<Gpu(4, 4, 4), Gpu(x, 4, t)>>],
     [Row(1, on[2], 2, u, "succeeded", TRUE) EXCEPT
        !.devices = IF u = 1 THEN <<Gpu(Unmeasured, 0, 0)>> ELSE <<Gpu(0, 2, Unmeasured), Gpu(4, 2, 4)>>],
     Row(1, <<Model(0)>>, 3, 4, "queued", TRUE),
     Row(2, At1, 1, 0, "queued", FALSE)>> :
     on \in {<<1, At1>>, <<1, At2>>, <<2, At2>>}, x \in 1..2, t \in {0, 4}, u \in {1, 5}}
\* runs of one engine setup at several widths, and of others; of a sweep, of
\* none, or imported
Widths ==
  {<<Done1, [Done1 EXCEPT !.config = c, !.workload = w, !.perGpu = x, !.imported = (n = 4),
                          !.tp = IF n = 0 THEN AskedBySweep(c) ELSE n],
     [Done1 EXCEPT !.machine = m, !.config = d, !.tp = AskedBySweep(d),
                   !.perGpu = 2, !.gpus = m]>> :
     c \in {At2, Sized2, Spaced2, Commented2, Twice}, n \in {0, 1, 4}, w \in {"w", "v"},
     x \in {Unmeasured, 2}, m \in 1..2, d \in {<<Model(0)>>, Spaced2, Commented2, Twice}}
\* runs that differ in what is recorded of them
Values(f) == {Unasked, "x", "y"} \cup IF f = "peer" THEN {NotReported} ELSE {}
Facts ==
  UNION {{<<[Done1 EXCEPT ![f] = a], [Done1 EXCEPT ![f] = b, !.config = d, !.perGpu = 2],
            [Done1 EXCEPT ![f] = c, !.machine = m, !.imported = (m = 2), !.partial = (a = b)]>> :
            a, b, c \in Values(f), d \in {At1, At2}, m \in 1..2} : f \in Warnable}
Histories == Ending \cup Widths \cup Facts
-----------------------------------------------------------------------------
(* One initial state of a service that a behaviour does not belong to.       *)
RowsRest == ~writeEnabled /\ asked = CHOOSE s \in Scenario : TRUE
SamplesRest == (\A p \in Pass : pass[p].dry) /\ \A q \in Reader : reader[q].run = u1 /\ reader[q].budget = 2
PlanRest == axes = [bases |-> <<<<Model(0)>>>>, sizes |-> <<>>, workloads |-> 1,
                    replicates |-> 1, order |-> "grouped"]
ChartsRest == view.real /\ view.capped = 2
                /\ stored = LET h == CHOOSE h \in Ending : TRUE IN [i \in DOMAIN h |-> [h[i] EXCEPT !.finished = i]]

ApiInit ==
  /\ part \in {"rows", "samples", "plan", "text", "charts"}
  /\ McpInit       /\ (part = "rows" \/ RowsRest)
  /\ TelemetryInit /\ (part = "samples" \/ SamplesRest)
  /\ PlanInit      /\ (part = "plan" \/ PlanRest)
  /\ AnalysisInit  /\ (part = "charts" \/ ChartsRest)
  /\ submitted \in IF part = "text" THEN Texts ELSE {<<>>}

ApiNext ==
  /\ \/ part = "rows" /\ McpNext /\ UNCHANGED <<telemetryVars, planVars, analysisVars>>
     \/ part = "samples" /\ TelemetryNext /\ UNCHANGED <<mcpVars, planVars, analysisVars>>
     \/ part = "plan" /\ PlanNext /\ UNCHANGED <<mcpVars, telemetryVars, analysisVars>>
     \/ part = "charts" /\ AnalysisNext /\ UNCHANGED <<mcpVars, telemetryVars, planVars>>
  /\ UNCHANGED <<part, submitted>>
ApiSpec == ApiInit /\ [][ApiNext]_<<mcpVars, telemetryVars, planVars, analysisVars, part, submitted>>
=============================================================================
