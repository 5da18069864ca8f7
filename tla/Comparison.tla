----------------------------- MODULE Comparison -----------------------------
(***************************************************************************)
(* What the charts say when runs are set against each other: the scaling    *)
(* curves of a group, the warnings on it, and two points side by side, all  *)
(* computed from the rows that a request has loaded.                        *)
(***************************************************************************)
EXTENDS Analysis

Unasked == "unasked"                 \* the run predates the column
NotReported == "not_reported"
Warnable == {"driver", "cuda", "speculation", "peer", "env"}

-----------------------------------------------------------------------------
(* build_point: the topology that ran, the largest when replicates disagree, *)
(* the oldest run as the head, and the family of the configuration.          *)
TextOf(point) == stored[CHOOSE r \in point : TRUE].config
TrafficOf(point) == stored[CHOOSE r \in point : TRUE].workload
DevicesOf(point) == Max({stored[r].gpus : r \in point})
HeadOf(point) ==
  CHOOSE r \in point : \A q \in point : stored[r].finished <= stored[q].finished

(* The size that the row was created with: the column's default for a single *)
(* run, what the planner reads for a sweep's, what was declared for one that *)
(* is imported.  Of a run that the agent served it is overwritten, when the  *)
(* agent read a size.                                                        *)
AskedBySweep(text) ==
  IF ReadTp(text) \in {NotSaid, NotANumber, 0} THEN 1 ELSE ReadTp(text)
Width(r) ==
  LET said == AgentReadsTp(stored[r].config) IN
  IF stored[r].imported \/ said \in {NotSaid, 0} THEN stored[r].tp ELSE said
WidthOf(point) == Max({Width(r) : r \in point})

(* _family_hash: config_hash normalises what config_family_text leaves.      *)
FamilyOf(point) == Normalized(FamilyText(TextOf(point)))

(* scaling_curves: a curve per family and workload, of the widths that have  *)
(* the figure; a single width is no curve.                                   *)
(* Mutant of CurveKey: the workload is left out. *)
CurveOfFamily(point) == FamilyOf(point)
CurveKey(point) == <<FamilyOf(point), TrafficOf(point)>>
Curves(points) ==
  LET charted == {p \in points : X(p) # Unmeasured}
      together == {{q \in charted : CurveKey(q) = CurveKey(p)} : p \in charted}
  IN {c \in together : Cardinality({WidthOf(p) : p \in c}) > 1}

(* analysis_scaling: the groups that have a curve, and the number of families *)
(* that are on none, whatever the reason.                                    *)
OnCurve(m, R) == {FamilyOf(p) : p \in UNION Curves(PointsOf(On(m, R)))}
OffCurve(m, R) == {FamilyOf(p) : p \in PointsOf(On(m, R))} \ OnCurve(m, R)
ScalingGroups(R) == {m \in Machines(R) : Curves(PointsOf(On(m, R))) # {}}
SingleWidthFamilies(R) ==
  SumFunctionOnSet([m \in Machines(R) |-> Cardinality(OffCurve(m, R))], Machines(R))
-----------------------------------------------------------------------------
(* group_warnings: what may differ within a group has to be said.  An unasked *)
(* run is a difference of speculation, and of peer access when another run   *)
(* observed it; it is none of the others.                                    *)
StatesOf(R, fact) == {stored[r][fact] : r \in R}
Mixed(R, fact) == Cardinality(StatesOf(R, fact) \ {Unasked}) > 1
SpeculationWarning(R) == Cardinality(StatesOf(R, "speculation")) > 1
PeerAccessWarning(R) ==
  /\ Cardinality(StatesOf(R, "peer")) > 1
  /\ StatesOf(R, "peer") \ {Unasked, NotReported} # {}
EngineEnvWarning(R) == Mixed(R, "env")
(* Mutant of GroupWarnings: only observed speculations are told apart. *)
WarningsOfObserved(R) ==
  {fact \in Warnable : Mixed(R, fact)}
    \cup {s \in {"imported"} : \E r \in R : stored[r].imported}
    \cup {s \in {"partial"} : \E r \in R : stored[r].partial}
GroupWarnings(R) ==
  {fact \in {"driver", "cuda"} : Mixed(R, fact)}
    \cup {s \in {"speculation"} : SpeculationWarning(R)}
    \cup {s \in {"peer"} : PeerAccessWarning(R)}
    \cup {s \in {"env"} : EngineEnvWarning(R)}
    \cup {s \in {"imported"} : \E r \in R : stored[r].imported}
    \cup {s \in {"partial"} : \E r \in R : stored[r].partial}
-----------------------------------------------------------------------------
(* analysis_compare: the records of the two configurations, whatever their   *)
(* number; and the point of an identity in the first group that    *)
(* has it, the fullest group and then the first by its label; the facts are  *)
(* those of the head of each side.                                           *)
SideRecords(pair) ==
  NewestOf({r \in OfStatus(InScope(view.real), {"succeeded"}) :
              \E q \in pair : stored[r].config = stored[q].config}, MaxRunLimit)
Side(R, id) ==
  LET having == {m \in Machines(R) : \E r \in On(m, R) : PointId(r) = id}
      fullest == {m \in having : \A n \in having : Cardinality(On(n, R)) <= Cardinality(On(m, R))}
  IN {r \in On(Min(fullest), R) : PointId(r) = id}

Invalidating == {"machine", "peer"}
Compared == {"machine", "driver", "cuda", "peer", "workload"}
ProvenanceDifferences(left, right) ==
  {f \in Compared : stored[HeadOf(left)][f] # stored[HeadOf(right)][f]}
    \cup {s \in {"width"} : WidthOf(left) # WidthOf(right)}
    \cup {s \in {"gpus"} : DevicesOf(left) # DevicesOf(right)}

(* metric_delta: no change to tell from nothing or from zero.                *)
Delta(left, right, better) ==
  CASE left = Unmeasured \/ right = Unmeasured \/ left = 0 -> "unknown"
    [] left > 0 /\ right = left                            -> "same"
    [] left > 0 /\ right >= 0 /\ right # left              ->
         IF (right > left) = (better = "higher") THEN "improvement" ELSE "regression"
-----------------------------------------------------------------------------
(* A curve compares one engine setup under one traffic on one machine: but   *)
(* for the tensor-parallel line, the texts of its points are stored alike,   *)
(* so that no more than indentation and empty lines at the ends of them can  *)
(* differ, and none sets the size twice ("a config we cannot normalize is    *)
(* its own family").  It leaves no measured width of the setup out.  And     *)
(* what is on no curve is counted: a family that was measured at one width   *)
(* of a machine never goes unsaid (scaling_curves, analysis_scaling,         *)
(* config_family_text, _family_hash).                                        *)
OtherLines(text) ==
  LET K == DOMAIN text \ TpLines(text) IN
  [j \in 1..Cardinality(K) |-> text[Nth(K, [i \in K |-> i], j)]]
SameSetup(p, q) ==
  /\ TrafficOf(p) = TrafficOf(q)
  /\ Normalized(OtherLines(TextOf(p))) = Normalized(OtherLines(TextOf(q)))
CurvesLikeWithLike ==
  Answered =>
    \A m \in Machines(view.shown) :
      LET points == PointsOf(On(m, view.shown))
          single == {p \in points : X(p) # Unmeasured /\ ~Ambiguous(TextOf(p))} IN
      /\ \A c \in Curves(points) : c \subseteq single /\ \A p, q \in c : SameSetup(p, q)
      /\ \A p, q \in single : SameSetup(p, q) /\ WidthOf(p) # WidthOf(q) =>
           \E c \in Curves(points) : {p, q} \subseteq c
      /\ \A p \in points :
           (\A q \in points : FamilyOf(q) = FamilyOf(p) => WidthOf(q) = WidthOf(p))
             => SingleWidthFamilies(view.shown) > 0
      /\ SingleWidthFamilies(view.shown) = 0 => m \in ScalingGroups(view.shown)

(* Runs that share a chart and are known to differ in something that moves   *)
(* the numbers, or of which one may have been speculating, share a warning   *)
(* that names it, and none names what all runs of a chart share; a comparison*)
(* that lists no invalidating difference is of two points that may share a   *)
(* chart; and an improvement seen from the other side is a regression        *)
(* (group_warnings, ComparabilityKey, _COMPARED_FIELDS, metric_delta).       *)
Known(r, fact) == stored[r][fact] \notin {Unasked, NotReported}
Differ(r, q, fact) == stored[r][fact] # stored[q][fact]
DifferencesAreNamed ==
  Answered =>
    /\ \A m \in Machines(view.shown) :
         LET R == On(m, view.shown) IN
         /\ \A r, q \in R, fact \in Warnable : 
              /\ Differ(r, q, fact)
              /\ fact = "speculation" \/ (Known(r, fact) /\ Known(q, fact))
              => fact \in GroupWarnings(R)
         /\ \A fact \in Warnable \cap GroupWarnings(R) : \E r, q \in R : Differ(r, q, fact)
    /\ \A r, q \in view.shown :
         LET R == SideRecords({r, q})
             left == Side(R, PointId(r))  right == Side(R, PointId(q)) IN
         /\ ProvenanceDifferences(left, right) \cap Invalidating = {} =>
              \E m \in Machines(R) : left \cup right \subseteq On(m, R)
         /\ Delta(X(left), X(right), "higher") = "improvement" /\ X(right) # 0 =>
              Delta(X(right), X(left), "higher") = "regression"
=============================================================================
