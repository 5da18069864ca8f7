--------------------------- MODULE TelemetryProofs ---------------------------
(***************************************************************************)
(* What holds of the sample rows for every number of runs, series,          *)
(* retention passes and readers, and every recorded length.                 *)
(***************************************************************************)
EXTENDS RunTelemetry, NumberTheorems

(* Counts of samples are numbers, and an empty recording counts nothing.     *)
LEMMA TotalType ==
  ASSUME NEW n \in [Series -> Nat] PROVE Total(n) \in Nat
<1>1. IsFiniteSet(Series)  BY RunTelemetryAssumption
<1>2. SumFunctionOnSet(n, Series) \in Nat  BY <1>1, SumType
<1> QED BY <1>2 DEF Total, SumFunction

LEMMA NothingCountsZero == Nothing \in [Series -> Nat] /\ Total(Nothing) = 0
<1>1. IsFiniteSet(Series)  BY RunTelemetryAssumption
<1>2. Nothing \in [Series -> Nat] /\ \A s \in Series : Nothing[s] = 0  BY DEF Nothing
<1>3. SumFunctionOnSet(Nothing, Series) = 0  BY <1>1, <1>2, SumZero
<1> QED BY <1>2, <1>3 DEF Total, SumFunction

LEMMA OfType ==
  ASSUME NEW f \in [StoredRun -> [Series -> Nat]], NEW R \in SUBSET StoredRun
  PROVE  Of(f, R) \in Nat
<1> DEFINE g == [r \in R |-> Total(f[r])]
<1>1. IsFiniteSet(R)  BY RunTelemetryAssumption, FS_Subset
<1>2. \A r \in R : g[r] \in Nat  BY TotalType
<1>3. SumFunctionOnSet(g, R) \in Nat
  <2> HIDE DEF g
  <2> QED BY <1>1, <1>2, SumType
<1> QED BY <1>3 DEF Of, SumFunction

LEMMA OfSame ==
  ASSUME NEW f, NEW g, NEW R \in SUBSET StoredRun, \A r \in R : f[r] = g[r]
  PROVE  Of(f, R) = Of(g, R)
  BY DEF Of

LEMMA OfNothing ==
  ASSUME NEW f, NEW R \in SUBSET StoredRun, \A r \in R : f[r] = Nothing
  PROVE  Of(f, R) = 0
<1> DEFINE g == [r \in R |-> Total(f[r])]
<1>1. IsFiniteSet(R)  BY RunTelemetryAssumption, FS_Subset
<1>2. \A r \in R : g[r] = 0  BY NothingCountsZero
<1>3. SumFunctionOnSet(g, R) = 0
  <2> HIDE DEF g
  <2> QED BY <1>1, <1>2, SumZero
<1> QED BY <1>3 DEF Of, SumFunction

LEMMA OfUnion ==
  ASSUME NEW f \in [StoredRun -> [Series -> Nat]],
         NEW R \in SUBSET StoredRun, NEW T \in SUBSET StoredRun, R \cap T = {}
  PROVE  Of(f, R \cup T) = Of(f, R) + Of(f, T)
<1> DEFINE g(X) == [r \in X |-> Total(f[r])]
           u == g(R \cup T)
           a == g(R)
           b == g(T)
<1>1. IsFiniteSet(R) /\ IsFiniteSet(T)  BY RunTelemetryAssumption, FS_Subset
<1>2. /\ \A r \in R \cup T : u[r] \in Int
      /\ \A r \in R : u[r] = a[r]
      /\ \A r \in T : u[r] = b[r]
  BY TotalType
<1>3. SumFunctionOnSet(u, R \cup T) = SumFunctionOnSet(u, R) + SumFunctionOnSet(u, T)
  <2> HIDE DEF u
  <2> QED BY <1>1, <1>2, SumUnion
<1>4. SumFunctionOnSet(u, R) = SumFunctionOnSet(a, R)
  <2> HIDE DEF u, a
  <2> QED BY <1>1, <1>2, SumSame
<1>5. SumFunctionOnSet(u, T) = SumFunctionOnSet(b, T)
  <2> HIDE DEF u, b
  <2> QED BY <1>1, <1>2, SumSame
<1> QED BY <1>3, <1>4, <1>5 DEF Of, SumFunction
-----------------------------------------------------------------------------
(* A budget of at least one sample makes every stride at least one.          *)
LEMMA DivideDown == ASSUME NEW a \in Nat, NEW b \in Nat \ {0}, a >= b PROVE a \div b \in Nat /\ a \div b >= 1
  BY Z3

LEMMA StridePositive ==
  ASSUME NEW total \in Nat, NEW budget \in Nat \ {0}
  PROVE  Stride(total, budget) \in Nat /\ Stride(total, budget) >= 1
<1>1. CASE total <= budget  BY <1>1 DEF Stride
<1>2. CASE ~(total <= budget)
  <2>1. total + budget - 1 \in Nat /\ total + budget - 1 >= budget  BY <1>2
  <2>2. CeilDiv(total, budget) \in Nat /\ CeilDiv(total, budget) >= 1
    BY <2>1, DivideDown DEF CeilDiv
  <2> QED BY <1>2, <2>2 DEF Stride
<1> QED BY <1>1, <1>2

LEMMA ThinnedType == ASSUME NEW stride, NEW n \in Nat PROVE Thinned(stride, n) \in SUBSET Nat
  BY DEF Thinned

(* Thinning keeps both ends of a series.                                     *)
LEMMA ThinnedEnds ==
  ASSUME NEW stride \in Nat, stride >= 1, NEW n \in Nat, n > 0
  PROVE  {1, n} \subseteq Thinned(stride, n)
<1>1. 0 % stride = 0  OBVIOUS
<1>2. 1 \in 1..n /\ n \in 1..n /\ 1 - 1 = 0  OBVIOUS
<1> QED BY <1>1, <1>2 DEF Thinned

LEMMA StrideOfPositive ==
  ASSUME NEW a, a.counts \in [Series -> Nat], a.budget \in Nat \ {0}, NEW s \in Series
  PROVE  StrideOf(a, s) \in Nat /\ StrideOf(a, s) >= 1
<1>1. CASE s = EngineSeries
  <2>1. a.counts[s] \in Nat  OBVIOUS
  <2> QED BY <1>1, <2>1, StridePositive DEF StrideOf
<1>2. CASE s # EngineSeries
  <2> DEFINE n == a.counts
             M == {n[g] : g \in Gpus}
             d == DeviceBudget(n, a.budget)
  <2>1. Gpus \subseteq Series /\ s \in Gpus  BY <1>2 DEF Gpus
  <2>2. IsFiniteSet(Gpus)  BY <2>1, RunTelemetryAssumption, FS_Subset
  <2>3. IsFiniteSet(M)
    <3> DEFINE f == [g \in Gpus |-> n[g]]
    <3>1. f \in Surjection(Gpus, M)  BY DEF Surjection
    <3> HIDE DEF f, M
    <3> QED BY <2>2, <3>1, FS_Surjection
  <2>4. (\A x \in M : x \in Int) /\ M # {} /\ M \subseteq Nat  BY <2>1
  <2>5. Max(M) \in Nat
    <3>1. Max(M) \in M
      <4> HIDE DEF M
      <4> QED BY <2>3, <2>4, MaxIsGreatest
    <3> QED BY <3>1, <2>4
  <2>6. d \in Nat \ {0}
    <3>1. CASE Sampled(n) = {}  BY <3>1 DEF DeviceBudget
    <3>2. CASE Sampled(n) # {}
      <4> DEFINE k == Cardinality(Sampled(n))
                 P == {1, a.budget \div k}
      <4>1. IsFiniteSet(Sampled(n))  BY <2>2, FS_Subset DEF Sampled
      <4>2. k \in Nat \ {0}
        BY <3>2, <4>1, FS_CardinalityType, FS_EmptySet
      <4>3. a.budget \div k \in Nat
        <5> HIDE DEF k
        <5> QED BY <4>2, Z3
      <4>4. IsFiniteSet(P)
        <5> HIDE DEF k
        <5>1. IsFiniteSet({1})  BY FS_Singleton
        <5>2. IsFiniteSet({1} \cup {a.budget \div k})  BY <5>1, FS_AddElement
        <5>3. P = {1} \cup {a.budget \div k}  OBVIOUS
        <5> QED BY <5>2, <5>3
      <4>5. (\A x \in P : x \in Int) /\ P # {} /\ P \subseteq Nat /\ 1 \in P  BY <4>3
      <4>6. Max(P) \in P /\ Max(P) >= 1
        <5> HIDE DEF P
        <5> QED BY <4>4, <4>5, MaxIsGreatest
      <4>7. Max(P) \in Nat \ {0}  BY <4>5, <4>6
      <4> QED BY <3>2, <4>7 DEF DeviceBudget
    <3> QED BY <3>1, <3>2
  <2>7. StrideOf(a, s) = Stride(Max(M), d)  BY <1>2 DEF StrideOf
  <2> HIDE DEF M, d
  <2> QED BY <2>5, <2>6, <2>7, StridePositive
<1> QED BY <1>1, <1>2
-----------------------------------------------------------------------------
LEMMA TelemetryInitTypes == TelemetryInit => TelemetryTypeOK
<1> SUFFICES ASSUME TelemetryInit PROVE TelemetryTypeOK  OBVIOUS
<1> USE DEF TelemetryInit, TelemetryTypeOK
<1>1. samples \in [StoredRun -> [Series -> Nat]] /\ recorded \in [StoredRun -> [Series -> Nat]]
  BY NothingCountsZero
<1>2. pass \in [Pass -> Pruning]  BY DEF Pruning
<1>3. [s \in Series |-> {}] \in [Series -> SUBSET Nat]  OBVIOUS
<1>4. reader \in [Reader -> Reading]
  <2> DEFINE none == [s \in Series |-> {}]
             First == [at : {"counts"}, run : StoredRun, budget : Budget,
                       counts : {Nothing}, shown : {none}, mark : {FALSE}]
  <2>1. Nothing \in [Series -> Nat] /\ none \in [Series -> SUBSET Nat]
    BY <1>3, NothingCountsZero
  <2>2. FALSE \in BOOLEAN
    BY Zenon
  <2>3. First \subseteq Reading
    <3> HIDE DEF none
    <3> QED
      BY <2>1, <2>2 DEF Reading
  <2>4. reader \in [Reader -> First]
    OBVIOUS
  <2> HIDE DEF First
  <2> QED
    BY <2>3, <2>4
<1> QED BY <1>1, <1>2, <1>4

LEMMA PassMoves ==
  ASSUME pass \in [Pass -> Pruning], NEW p \in Pass,
         NEW at \in {"count", "delete", "done", "failed"}
  PROVE  /\ [pass EXCEPT ![p].at = at] \in [Pass -> Pruning]
         /\ \A n \in Nat : [pass EXCEPT ![p].at = at, ![p].count = n] \in [Pass -> Pruning]
<1>1. [pass EXCEPT ![p].at = at] \in [Pass -> Pruning]  BY DEF Pruning
<1>2. ASSUME NEW n \in Nat
      PROVE  [pass EXCEPT ![p].at = at, ![p].count = n] \in [Pass -> Pruning]
  BY DEF Pruning
<1> QED BY <1>1, <1>2

LEMMA ReaderMoves ==
  ASSUME reader \in [Reader -> Reading], NEW q \in Reader,
         NEW at \in {"counts", "devices", "engine", "gpu", "mark", "answered"}
  PROVE  /\ \A c \in [Series -> Nat] :
              [reader EXCEPT ![q].at = at, ![q].counts = c] \in [Reader -> Reading]
         /\ \A s \in [Series -> SUBSET Nat] :
              [reader EXCEPT ![q].at = at, ![q].shown = s] \in [Reader -> Reading]
         /\ \A m \in BOOLEAN :
              [reader EXCEPT ![q].at = at, ![q].mark = m] \in [Reader -> Reading]
<1> DEFINE Stages == {"counts", "devices", "engine", "gpu", "mark", "answered"}
           Lengths == [Series -> Nat]
           Marks == [Series -> SUBSET Nat]
           Truths == BOOLEAN
           one == reader[q]
<1>1. Reading = [at : Stages, run : StoredRun, budget : Budget, counts : Lengths, shown : Marks,
                 mark : Truths]
  BY DEF Reading
<1>2. at \in Stages /\ one \in Reading
  OBVIOUS
<1>3. \A new \in Reading : [reader EXCEPT ![q] = new] \in [Reader -> Reading]
  OBVIOUS
<1>4. ASSUME NEW c \in Lengths
      PROVE  [reader EXCEPT ![q].at = at, ![q].counts = c] \in [Reader -> Reading]
  <2> HIDE DEF Stages, Lengths, Marks, Truths, one
  <2>1. [[one EXCEPT !.at = at] EXCEPT !.counts = c] \in Reading
    BY <1>1, <1>2
  <2> QED
    BY <1>3, <2>1, Zenon DEF one
<1>5. ASSUME NEW s \in Marks
      PROVE  [reader EXCEPT ![q].at = at, ![q].shown = s] \in [Reader -> Reading]
  <2> HIDE DEF Stages, Lengths, Marks, Truths, one
  <2>1. [[one EXCEPT !.at = at] EXCEPT !.shown = s] \in Reading
    BY <1>1, <1>2
  <2> QED
    BY <1>3, <2>1, Zenon DEF one
<1>6. ASSUME NEW m \in Truths
      PROVE  [reader EXCEPT ![q].at = at, ![q].mark = m] \in [Reader -> Reading]
  <2> HIDE DEF Stages, Lengths, Marks, Truths, one
  <2>1. [[one EXCEPT !.at = at] EXCEPT !.mark = m] \in Reading
    BY <1>1, <1>2
  <2> QED
    BY <1>3, <2>1, Zenon DEF one
<1> QED
  BY <1>4, <1>5, <1>6

LEMMA TelemetryTypesKept ==
  TelemetryTypeOK /\ [TelemetryNext]_telemetryVars => TelemetryTypeOK'
<1> SUFFICES ASSUME TelemetryTypeOK, [TelemetryNext]_telemetryVars PROVE TelemetryTypeOK'  OBVIOUS
<1> USE DEF TelemetryTypeOK
<1>1. ASSUME NEW r \in StoredRun, Finish(r) PROVE TelemetryTypeOK'
  BY <1>1, RunTelemetryAssumption DEF Finish
<1>2. ASSUME NEW r \in StoredRun, GrowOld(r) PROVE TelemetryTypeOK'
  BY <1>2 DEF GrowOld
<1>3. ASSUME NEW p \in Pass, SelectCandidates(p) PROVE TelemetryTypeOK'
  <2>1. Candidates(StoredRun) \in SUBSET StoredRun  BY DEF Candidates
  <2>2. pass' \in [Pass -> Pruning]
    <3> DEFINE to == IF Candidates(StoredRun) = {} THEN "done" ELSE "count"
    <3>1. pass' = [pass EXCEPT ![p] = [[pass[p] EXCEPT !.at = to] EXCEPT !.runs = Candidates(StoredRun)]]
      <4>1. pass' = [pass EXCEPT ![p].at = to, ![p].runs = Candidates(StoredRun)]
        BY <1>3, Zenon DEF SelectCandidates
      <4> HIDE DEF to
      <4> QED
        BY <4>1
    <3>2. to \in {"done", "count"}
      OBVIOUS
    <3> HIDE DEF to
    <3>3. [[pass[p] EXCEPT !.at = to] EXCEPT !.runs = Candidates(StoredRun)] \in Pruning
      BY <2>1, <3>2 DEF Pruning
    <3> QED
      BY <3>1, <3>3, Zenon
  <2> QED BY <1>3, <2>2 DEF SelectCandidates
<1>4. ASSUME NEW p \in Pass, CountSamples(p) PROVE TelemetryTypeOK'
  <2>1. Of(samples, pass[p].runs) \in Nat
    <3>1. pass[p].runs \in SUBSET StoredRun  BY DEF Pruning
    <3> QED BY <3>1, OfType
  <2>2. pass' \in [Pass -> Pruning]
    BY <1>4, <2>1, PassMoves DEF CountSamples
  <2> QED BY <1>4, <2>2 DEF CountSamples
<1>5. ASSUME NEW p \in Pass, DeleteAndMark(p) PROVE TelemetryTypeOK'
  <2>1. pass' \in [Pass -> Pruning]
    <3>1. /\ [pass EXCEPT ![p].at = "done"] \in [Pass -> Pruning]
          /\ [pass EXCEPT ![p].at = "failed"] \in [Pass -> Pruning]
      BY PassMoves
    <3> QED BY <1>5, <3>1 DEF DeleteAndMark
  <2>2. pass[p].runs \in SUBSET StoredRun  BY DEF Pruning
  <2>3. samples' \in [StoredRun -> [Series -> Nat]] /\ marked' \subseteq StoredRun
    BY <1>5, <2>2, NothingCountsZero DEF DeleteAndMark, Deleted
  <2> QED BY <1>5, <2>1, <2>3 DEF DeleteAndMark
<1>6. ASSUME NEW q \in Reader, NEW some \in SUBSET Series, NEW at \in {"devices", "engine"},
             reader' = [reader EXCEPT ![q].at = at, ![q].counts = Counting(q, some)]
      PROVE  reader' \in [Reader -> Reading]
  <2>1. samples[reader[q].run] \in [Series -> Nat] /\ reader[q].counts \in [Series -> Nat]
    BY DEF Reading
  <2>2. Counting(q, some) \in [Series -> Nat]  BY <2>1 DEF Counting
  <2>3. [reader EXCEPT ![q].at = at, ![q].counts = Counting(q, some)] \in [Reader -> Reading]
    BY <2>2, ReaderMoves
  <2> QED BY <1>6, <2>3
<1>12. ASSUME NEW q \in Reader, CountEngine(q) \/ CountDevices(q) PROVE TelemetryTypeOK'
  <2>1. {EngineSeries} \in SUBSET Series /\ Gpus \in SUBSET Series
    BY RunTelemetryAssumption DEF Gpus
  <2>2. reader' \in [Reader -> Reading]
    BY <1>6, <1>12, <2>1, Zenon DEF CountEngine, CountDevices
  <2> QED BY <1>12, <2>2 DEF CountEngine, CountDevices
<1>7. ASSUME NEW q \in Reader, NEW some \in SUBSET Series
      PROVE  Showing(q, some) \in [Series -> SUBSET Nat]
  <2> SUFFICES ASSUME NEW s \in Series
               PROVE  (IF s \in some THEN Thinned(StrideOf(reader[q], s), samples[reader[q].run][s])
                       ELSE reader[q].shown[s]) \in SUBSET Nat
    BY DEF Showing
  <2>1. samples[reader[q].run][s] \in Nat  BY DEF Reading
  <2>2. reader[q].shown[s] \in SUBSET Nat  BY DEF Reading
  <2> QED BY <2>1, <2>2, ThinnedType
<1>8. ASSUME NEW q \in Reader, ReadEngine(q) PROVE TelemetryTypeOK'
  <2>1. Showing(q, {EngineSeries}) \in [Series -> SUBSET Nat]  BY <1>7, RunTelemetryAssumption
  <2>2. reader' \in [Reader -> Reading]
    <3> DEFINE shown == Showing(q, {EngineSeries})
    <3>1. reader' = [reader EXCEPT ![q].at = "gpu", ![q].shown = shown]
      BY <1>8, Zenon DEF ReadEngine
    <3>2. [reader EXCEPT ![q].at = "gpu", ![q].shown = shown] \in [Reader -> Reading]
      <4> HIDE DEF shown
      <4>1. shown \in [Series -> SUBSET Nat]
        BY <2>1 DEF shown
      <4> QED
        BY <4>1, ReaderMoves
    <3> QED
      BY <3>1, <3>2, Zenon
  <2> QED BY <1>8, <2>2 DEF ReadEngine
<1>9. ASSUME NEW q \in Reader, ReadGpu(q) PROVE TelemetryTypeOK'
  <2>1. Showing(q, Gpus) \in [Series -> SUBSET Nat]  BY <1>7 DEF Gpus
  <2>2. reader' \in [Reader -> Reading]
    <3> DEFINE shown == Showing(q, Gpus)
    <3>1. reader' = [reader EXCEPT ![q].at = "mark", ![q].shown = shown]
      BY <1>9, Zenon DEF ReadGpu
    <3>2. [reader EXCEPT ![q].at = "mark", ![q].shown = shown] \in [Reader -> Reading]
      <4> HIDE DEF shown
      <4>1. shown \in [Series -> SUBSET Nat]
        BY <2>1 DEF shown
      <4> QED
        BY <4>1, ReaderMoves
    <3> QED
      BY <3>1, <3>2, Zenon
  <2> QED BY <1>9, <2>2 DEF ReadGpu
<1>10. ASSUME NEW q \in Reader, ReadMark(q) PROVE TelemetryTypeOK'
  <2>1. PICK b \in BOOLEAN : b <=> reader[q].run \in marked  OBVIOUS
  <2>2. [reader EXCEPT ![q].at = "answered", ![q].mark = b] \in [Reader -> Reading]
    BY ReaderMoves
  <2>3. reader' = [reader EXCEPT ![q].at = "answered", ![q].mark = b]
    BY <1>10, <2>1 DEF ReadMark
  <2> QED BY <1>10, <2>2, <2>3 DEF ReadMark
<1>11. CASE UNCHANGED telemetryVars
  BY <1>11 DEF telemetryVars
<1> QED BY <1>1, <1>2, <1>3, <1>4, <1>5, <1>8, <1>9, <1>10, <1>11, <1>12 DEF TelemetryNext

(* Every variable of the sample rows keeps its type.                         *)
THEOREM TelemetryTypes == TelemetrySpec => []TelemetryTypeOK
  BY TelemetryInitTypes, TelemetryTypesKept, PTL DEF TelemetrySpec
-----------------------------------------------------------------------------
LEMMA TelemetryInvInit == TelemetryInit => TelemetryInv
<1> SUFFICES ASSUME TelemetryInit PROVE TelemetryInv  OBVIOUS
<1>1. RowsByPhase /\ MarkMeansGone  BY DEF TelemetryInit, RowsByPhase, MarkMeansGone
<1>2. \A p \in Pass : pass[p].at = "candidates" /\ pass[p].count = 0 /\ pass[p].runs = {}
  BY DEF TelemetryInit
<1>3. PassKnows  BY <1>2 DEF PassKnows
<1>4. ReclaimedOnce
  <2>1. Applied = {}  BY <1>2 DEF Applied
  <2>2. SumFunction([p \in Applied |-> pass[p].count]) = 0  BY <2>1, SumEmpty DEF SumFunction
  <2>3. marked = {} /\ Of(recorded, marked) = 0 /\ Of(samples, marked) = 0
    BY OfNothing DEF TelemetryInit
  <2> QED BY <2>2, <2>3 DEF ReclaimedOnce
<1>5. \A q \in Reader : reader[q].at = "counts"  BY DEF TelemetryInit
<1>6. \A q \in Reader : reader[q].counts = Nothing  BY DEF TelemetryInit
<1>7. ReaderKnows /\ EmptyIsExplained  BY <1>5, <1>6 DEF ReaderKnows, EmptyIsExplained, Nothing
<1> QED BY <1>1, <1>3, <1>4, <1>7 DEF TelemetryInv

(* Rows arrive with the end of a run; deleting them and marking it are one.  *)
LEMMA RowsKept ==
  TelemetryTypeOK /\ TelemetryInv /\ [TelemetryNext]_telemetryVars
    => RowsByPhase' /\ MarkMeansGone'
<1> SUFFICES ASSUME TelemetryTypeOK, TelemetryInv, [TelemetryNext]_telemetryVars
             PROVE  RowsByPhase' /\ MarkMeansGone'
  OBVIOUS
<1> USE DEF RowsByPhase, MarkMeansGone
<1>0. RowsByPhase /\ MarkMeansGone  BY DEF TelemetryInv
<1>1. ASSUME NEW r \in StoredRun, Finish(r) PROVE RowsByPhase' /\ MarkMeansGone'
  BY <1>0, <1>1 DEF Finish, TelemetryTypeOK
<1>2. ASSUME NEW r \in StoredRun, GrowOld(r) PROVE RowsByPhase' /\ MarkMeansGone'
  BY <1>0, <1>2 DEF GrowOld, TelemetryTypeOK
<1>3. ASSUME NEW p \in Pass, DeleteAndMark(p) PROVE RowsByPhase' /\ MarkMeansGone'
  <2>1. \A r \in pass[p].runs : phase[r] = "old"  BY DEF TelemetryInv, PassKnows
  <2> QED BY <1>0, <1>3, <2>1 DEF DeleteAndMark, Deleted, TelemetryTypeOK
<1>4. ASSUME UNCHANGED <<phase, samples, recorded, marked>> PROVE RowsByPhase' /\ MarkMeansGone'
  BY <1>0, <1>4
<1> QED BY <1>1, <1>2, <1>3, <1>4 DEF TelemetryNext, telemetryVars, SelectCandidates, CountSamples,
          CountEngine, CountDevices, ReadEngine, ReadGpu, ReadMark

(* What a pass has counted stays true while its runs are unmarked: they are  *)
(* old, and only running runs get samples.                                   *)
LEMMA PassesKept ==
  TelemetryTypeOK /\ TelemetryInv /\ [TelemetryNext]_telemetryVars => PassKnows'
<1> SUFFICES ASSUME TelemetryTypeOK, TelemetryInv, [TelemetryNext]_telemetryVars,
                    NEW x \in Pass
             PROVE  /\ pass[x]'.at = "candidates" => pass[x]'.count = 0
                    /\ \A r \in pass[x]'.runs : phase'[r] = "old"
                    /\ pass[x]'.at = "delete" =>
                         /\ ~pass[x]'.dry
                         /\ pass[x]'.runs \cap marked' = {} => pass[x]'.count = Of(recorded, pass[x].runs)'
  BY DEF PassKnows
<1> DEFINE Knows == /\ pass[x]'.at = "candidates" => pass[x]'.count = 0
                    /\ \A r \in pass[x]'.runs : phase'[r] = "old"
                    /\ pass[x]'.at = "delete" =>
                         /\ ~pass[x]'.dry
                         /\ pass[x]'.runs \cap marked' = {} => pass[x]'.count = Of(recorded, pass[x].runs)'
<1>0. /\ pass[x].at = "candidates" => pass[x].count = 0
      /\ \A r \in pass[x].runs : phase[r] = "old"
      /\ pass[x].at = "delete" =>
           /\ ~pass[x].dry
           /\ pass[x].runs \cap marked = {} => pass[x].count = Of(recorded, pass[x].runs)
  BY DEF TelemetryInv, PassKnows
<1>t. /\ pass \in [Pass -> Pruning] /\ pass[x].runs \in SUBSET StoredRun
      /\ phase \in [StoredRun -> {"running", "ended", "old"}]
      /\ recorded \in [StoredRun -> [Series -> Nat]] /\ samples \in [StoredRun -> [Series -> Nat]]
  BY DEF TelemetryTypeOK, Pruning
<1>1. ASSUME NEW r \in StoredRun, Finish(r) PROVE Knows
  <2>1. r \notin pass[x].runs /\ pass' = pass /\ marked' = marked  BY <1>0, <1>1 DEF Finish
  <2>2. \A u \in pass[x].runs : recorded'[u] = recorded[u] /\ phase'[u] = phase[u]
    BY <1>1, <1>t, <2>1 DEF Finish
  <2>3. Of(recorded', pass[x].runs) = Of(recorded, pass[x].runs)  BY <1>t, <2>2, OfSame
  <2> QED BY <1>0, <2>1, <2>2, <2>3
<1>2. ASSUME NEW r \in StoredRun, GrowOld(r) PROVE Knows
  BY <1>0, <1>2, <1>t DEF GrowOld
<1>3. ASSUME NEW p \in Pass, SelectCandidates(p) PROVE Knows
  <2>1. CASE x = p
    <3>1. pass'[x].at \in {"count", "done"} /\ pass'[x].runs = Candidates(StoredRun) /\ phase' = phase
      BY <1>3, <1>t, <2>1 DEF SelectCandidates, Pruning
    <3> QED BY <3>1 DEF Candidates
  <2>2. CASE x # p
    <3>1. pass'[x] = pass[x] /\ UNCHANGED <<phase, samples, recorded, marked>>
      BY <1>3, <1>t, <2>2 DEF SelectCandidates
    <3> QED BY <1>0, <3>1
  <2> QED BY <2>1, <2>2
<1>4. ASSUME NEW p \in Pass, CountSamples(p) PROVE Knows
  <2>1. CASE x = p
    <3>1. /\ pass'[x].at = (IF pass[x].dry THEN "done" ELSE "delete")
          /\ pass'[x].runs = pass[x].runs /\ pass'[x].count = Of(samples, pass[x].runs)
          /\ pass'[x].dry = pass[x].dry
          /\ UNCHANGED <<phase, samples, recorded, marked>>
      BY <1>4, <1>t, <2>1 DEF CountSamples, Pruning
    <3>2. pass[x].runs \cap marked = {} => Of(samples, pass[x].runs) = Of(recorded, pass[x].runs)
      <4> SUFFICES ASSUME pass[x].runs \cap marked = {}
                   PROVE  Of(samples, pass[x].runs) = Of(recorded, pass[x].runs)
        OBVIOUS
      <4>1. \A r \in pass[x].runs : samples[r] = recorded[r]
        BY <1>t DEF TelemetryInv, MarkMeansGone
      <4> QED BY <1>t, <4>1, OfSame
    <3> QED BY <1>0, <3>1, <3>2
  <2>2. CASE x # p
    <3>1. pass'[x] = pass[x] /\ UNCHANGED <<phase, samples, recorded, marked>>
      BY <1>4, <1>t, <2>2 DEF CountSamples
    <3> QED BY <1>0, <3>1
  <2> QED BY <2>1, <2>2
<1>5. ASSUME NEW p \in Pass, DeleteAndMark(p) PROVE Knows
  <2>1. marked \subseteq marked' /\ recorded' = recorded /\ phase' = phase
    BY <1>5 DEF DeleteAndMark, Deleted
  <2>2. CASE x = p
    <3>1. pass'[x].at \in {"done", "failed"} /\ pass'[x].runs = pass[x].runs
      BY <1>5, <1>t, <2>2 DEF DeleteAndMark, Pruning
    <3> QED BY <1>0, <2>1, <3>1
  <2>3. CASE x # p
    <3>1. pass'[x] = pass[x]  BY <1>5, <1>t, <2>3 DEF DeleteAndMark
    <3> QED BY <1>0, <2>1, <3>1
  <2> QED BY <2>2, <2>3
<1>6. ASSUME UNCHANGED <<phase, recorded, marked, pass>> PROVE Knows
  BY <1>0, <1>6
<1>7. Knows
  <2> HIDE DEF Knows
  <2> QED BY <1>1, <1>2, <1>3, <1>4, <1>5, <1>6 DEF TelemetryNext, telemetryVars,
            CountEngine, CountDevices, ReadEngine, ReadGpu, ReadMark
<1> QED BY <1>7

(* A pass adds to what is reported exactly what it takes out of the rows.    *)
LEMMA ReportKept ==
  TelemetryTypeOK /\ TelemetryInv /\ [TelemetryNext]_telemetryVars => ReclaimedOnce'
<1> SUFFICES ASSUME TelemetryTypeOK, TelemetryInv, [TelemetryNext]_telemetryVars
             PROVE  ReclaimedOnce'
  OBVIOUS
<1> DEFINE Counts == [p \in Applied |-> pass[p].count]
           Sum(f) == SumFunction(f)
<1>t. /\ pass \in [Pass -> Pruning] /\ marked \in SUBSET StoredRun
      /\ phase \in [StoredRun -> {"running", "ended", "old"}]
      /\ recorded \in [StoredRun -> [Series -> Nat]] /\ samples \in [StoredRun -> [Series -> Nat]]
  BY DEF TelemetryTypeOK
<1>0. Sum(Counts) = Of(recorded, marked) - Of(samples, marked)
  BY DEF TelemetryInv, ReclaimedOnce
<1>a. IsFiniteSet(Applied) /\ Applied \subseteq Pass
  BY RunTelemetryAssumption, FS_Subset DEF Applied
<1>b. \A p \in Pass : pass[p].count \in Nat  BY <1>t DEF Pruning
<1>c. Of(samples, marked) = 0
  <2>1. \A r \in marked : samples[r] = Nothing  BY <1>t DEF TelemetryInv, MarkMeansGone
  <2> QED BY <1>t, <2>1, OfNothing
\* a pass that reports nothing, or has not applied anything, changes no report
<1>1. ASSUME Applied' = Applied, \A p \in Applied : pass'[p].count = pass[p].count
      PROVE  Sum(Counts)' = Sum(Counts)
  <2>1. Counts' = Counts  BY <1>1
  <2> QED BY <2>1
\* a pass that joins adds its own count
<1>2. ASSUME NEW p \in Pass, p \notin Applied, Applied' = Applied \cup {p},
             \A x \in Applied : pass'[x].count = pass[x].count, pass'[p].count \in Nat
      PROVE  Sum(Counts)' = pass'[p].count + Sum(Counts)
  <2> DEFINE f == [x \in Applied \cup {p} |-> pass'[x].count]
             g == Counts
  <2>1. \A x \in Applied \cup {p} : f[x] \in Int  BY <1>a, <1>b, <1>2
  <2>2. SumFunctionOnSet(f, Applied \cup {p}) = f[p] + SumFunctionOnSet(f, Applied)
    <3> HIDE DEF f
    <3> QED BY <1>a, <1>2, <2>1, SumAdd
  <2>3. \A x \in Applied : f[x] = g[x]  BY <1>2
  <2>4. SumFunctionOnSet(f, Applied) = SumFunctionOnSet(g, Applied)
    <3> HIDE DEF f, g
    <3> QED BY <1>a, <2>3, SumSame
  <2>5. Counts' = f  BY <1>2
  <2>6. DOMAIN f = Applied \cup {p} /\ DOMAIN g = Applied /\ f[p] = pass'[p].count  OBVIOUS
  <2> HIDE DEF f
  <2> QED BY <2>2, <2>4, <2>5, <2>6 DEF SumFunction
<1> HIDE DEF Counts
<1>3. ASSUME NEW r \in StoredRun, Finish(r) PROVE ReclaimedOnce'
  <2>1. r \notin marked /\ UNCHANGED <<pass, marked>>
    BY <1>3 DEF Finish, TelemetryInv, RowsByPhase
  <2>2. \A u \in marked : recorded'[u] = recorded[u] /\ samples'[u] = samples[u]
    BY <1>3, <1>t, <2>1 DEF Finish
  <2>3. Of(recorded', marked) = Of(recorded, marked) /\ Of(samples', marked) = Of(samples, marked)
    BY <1>t, <2>2, OfSame
  <2>4. Sum(Counts)' = Sum(Counts)  BY <1>1, <2>1 DEF Applied
  <2> QED BY <1>0, <2>1, <2>3, <2>4 DEF ReclaimedOnce, Counts
<1>4. ASSUME UNCHANGED <<pass, samples, recorded, marked>> PROVE ReclaimedOnce'
  BY <1>0, <1>1, <1>4 DEF ReclaimedOnce, Counts, Applied, Of
<1>5. ASSUME NEW p \in Pass, SelectCandidates(p) PROVE ReclaimedOnce'
  <2>1. /\ UNCHANGED <<samples, recorded, marked>>
        /\ pass[p].count = 0 /\ p \notin Applied
    BY <1>5 DEF SelectCandidates, TelemetryInv, PassKnows, Applied
  <2>2. /\ pass'[p].count = pass[p].count /\ pass'[p].dry = pass[p].dry
        /\ pass'[p].at \in {"count", "done"}
        /\ \A x \in Pass : x # p => pass'[x] = pass[x]
    BY <1>5, <1>t DEF SelectCandidates, Pruning
  <2>3. Applied' = Applied \/ Applied' = Applied \cup {p}  BY <2>1, <2>2 DEF Applied
  <2>4. \A x \in Applied : pass'[x].count = pass[x].count  BY <1>a, <2>1, <2>2
  <2>5. Sum(Counts)' = Sum(Counts)
    <3>1. CASE Applied' = Applied  BY <1>1, <2>4, <3>1
    <3>2. CASE Applied' = Applied \cup {p}
      <4>1. Sum(Counts)' = 0 + Sum(Counts)  BY <1>2, <2>1, <2>2, <2>4, <3>2
      <4>2. Sum(Counts) \in Nat
        BY <1>0, <1>c, <1>t, OfType
      <4> QED BY <4>1, <4>2
    <3> QED BY <2>3, <3>1, <3>2
  <2>6. Of(recorded', marked') = Of(recorded, marked) /\ Of(samples', marked') = Of(samples, marked)
    BY <2>1
  <2> QED BY <1>0, <2>5, <2>6 DEF ReclaimedOnce, Counts
<1>6. ASSUME NEW p \in Pass, CountSamples(p) PROVE ReclaimedOnce'
  <2>1. UNCHANGED <<samples, recorded, marked>> /\ p \notin Applied
    BY <1>6 DEF CountSamples, Applied
  <2>2. /\ pass'[p].dry = pass[p].dry /\ pass'[p].at = (IF pass[p].dry THEN "done" ELSE "delete")
        /\ \A x \in Pass : x # p => pass'[x] = pass[x]
    BY <1>6, <1>t DEF CountSamples, Pruning
  <2>3. Applied' = Applied  BY <2>1, <2>2 DEF Applied
  <2>4. \A x \in Applied : pass'[x].count = pass[x].count  BY <1>a, <2>1, <2>2
  <2>5. Sum(Counts)' = Sum(Counts)  BY <1>1, <2>3, <2>4
  <2>6. Of(recorded', marked') = Of(recorded, marked) /\ Of(samples', marked') = Of(samples, marked)
    BY <2>1
  <2> QED BY <1>0, <2>5, <2>6 DEF ReclaimedOnce, Counts
<1>7. ASSUME NEW p \in Pass, DeleteAndMark(p) PROVE ReclaimedOnce'
  <2>1. p \notin Applied /\ recorded' = recorded  BY <1>7 DEF DeleteAndMark, Applied
  <2>2. /\ pass'[p].dry = pass[p].dry /\ pass'[p].count = pass[p].count
        /\ \A x \in Pass : x # p => pass'[x] = pass[x]
    BY <1>7, <1>t DEF DeleteAndMark, Pruning
  <2>3. \A x \in Applied : pass'[x].count = pass[x].count  BY <1>a, <2>1, <2>2
  <2>4. CASE pass[p].runs \cap marked # {}
    <3>1. UNCHANGED <<samples, marked>> /\ pass'[p].at = "failed"
      BY <1>7, <1>t, <2>4 DEF DeleteAndMark, Pruning
    <3>2. Applied' = Applied  BY <2>1, <2>2, <3>1 DEF Applied
    <3>3. Sum(Counts)' = Sum(Counts)  BY <1>1, <2>3, <3>2
    <3>4. Of(recorded', marked') = Of(recorded, marked) /\ Of(samples', marked') = Of(samples, marked)
      BY <2>1, <3>1
    <3> QED BY <1>0, <3>3, <3>4 DEF ReclaimedOnce, Counts
  <2>5. CASE pass[p].runs \cap marked = {}
    <3> DEFINE R == pass[p].runs
    <3>1. Deleted(p) /\ pass'[p].at = "done"
      BY <1>7, <1>t, <2>5 DEF DeleteAndMark, Pruning
    <3>2. ~pass[p].dry /\ pass[p].count = Of(recorded, R)
      BY <1>7, <2>5 DEF DeleteAndMark, TelemetryInv, PassKnows
    <3>3. Applied' = Applied \cup {p}  BY <2>1, <2>2, <3>1, <3>2 DEF Applied
    <3>4. Sum(Counts)' = Of(recorded, R) + Sum(Counts)  BY <1>2, <1>b, <2>1, <2>2, <2>3, <3>2, <3>3
    <3>5. R \in SUBSET StoredRun  BY <1>t DEF Pruning
    <3>6. Of(recorded, marked \cup R) = Of(recorded, marked) + Of(recorded, R)
      <4>1. recorded \in [StoredRun -> [Series -> Nat]] /\ marked \in SUBSET StoredRun
        BY <1>t
      <4>2. marked \cap R = {}
        BY <2>5
      <4> HIDE DEF R
      <4> QED
        BY <3>5, <4>1, <4>2, OfUnion
    <3>7. Of(samples', marked \cup R) = 0
      <4>1. \A r \in marked \cup R : samples'[r] = Nothing
        BY <1>t, <3>1, <3>5 DEF Deleted, TelemetryInv, MarkMeansGone
      <4> QED BY <1>t, <3>5, <4>1, OfNothing
    <3>8. marked' = marked \cup R  BY <3>1 DEF Deleted
    <3>9. Of(recorded, marked) \in Nat /\ Of(recorded, R) \in Nat  BY <1>t, <3>5, OfType
    <3>10. Of(recorded', marked') = Of(recorded, marked) + Of(recorded, R) /\ Of(samples', marked') = 0
      BY <2>1, <3>6, <3>7, <3>8
    <3>11. Sum(Counts)' = Of(recorded', marked') - Of(samples', marked')
      <4> HIDE DEF R
      <4> QED BY <1>0, <1>c, <3>4, <3>9, <3>10
    <3> QED BY <3>11 DEF ReclaimedOnce, Counts
  <2> QED BY <2>4, <2>5
<1>8. ASSUME NEW r \in StoredRun, GrowOld(r) PROVE ReclaimedOnce'
  BY <1>4, <1>8 DEF GrowOld
<1> QED BY <1>3, <1>4, <1>5, <1>6, <1>7, <1>8 DEF TelemetryNext, telemetryVars,
          CountEngine, CountDevices, ReadEngine, ReadGpu, ReadMark

(* What a reader shows of a run nobody has pruned has both ends of what was  *)
(* counted.                                                                  *)
LEMMA ShowsBothEnds ==
  ASSUME TelemetryTypeOK, NEW q \in Reader, NEW some \in SUBSET Series, NEW s \in some,
         reader[q].counts[s] = samples[reader[q].run][s], reader[q].counts[s] > 0
  PROVE  {1, reader[q].counts[s]} \subseteq Showing(q, some)[s]
<1> DEFINE a == reader[q]
           n == a.counts[s]
<1>1. a.counts \in [Series -> Nat] /\ a.budget \in Nat \ {0} /\ s \in Series
  BY RunTelemetryAssumption DEF TelemetryTypeOK, Reading
<1>2. StrideOf(a, s) \in Nat /\ StrideOf(a, s) >= 1
  <2> HIDE DEF a
  <2> QED BY <1>1, StrideOfPositive
<1>3. n \in Nat /\ n > 0  BY <1>1
<1>4. {1, n} \subseteq Thinned(StrideOf(a, s), n)
  <2> HIDE DEF a, n
  <2> QED BY <1>2, <1>3, ThinnedEnds
<1>5. Showing(q, some)[s] = Thinned(StrideOf(a, s), n)
  BY <1>1 DEF Showing
<1> QED BY <1>4, <1>5

LEMMA ReadersKept ==
  TelemetryTypeOK /\ TelemetryInv /\ [TelemetryNext]_telemetryVars
    => ReaderKnows' /\ EmptyIsExplained'
<1> DEFINE Counted(a) == \A s \in Series : a.counts[s] \in {0, recorded[a.run][s]}
           Shown(a) == /\ a.at \in {"gpu", "mark"} => BothEnds(a, EngineSeries)
                       /\ a.at = "mark" => \A s \in Gpus : BothEnds(a, s)
           Knows(a) == a.at # "answered" /\ a.run \notin marked => Counted(a) /\ Shown(a)
           Explained(a) == a.at = "answered" /\ ~a.mark => \A s \in Series : BothEnds(a, s)
<1> SUFFICES ASSUME TelemetryTypeOK, TelemetryInv, [TelemetryNext]_telemetryVars,
                    NEW x \in Reader
             PROVE  Knows(reader[x])' /\ Explained(reader[x])'
  BY DEF ReaderKnows, EmptyIsExplained, BothEnds
<1>t. /\ reader \in [Reader -> Reading] /\ reader[x] \in Reading
      /\ recorded \in [StoredRun -> [Series -> Nat]] /\ samples \in [StoredRun -> [Series -> Nat]]
      /\ marked \in SUBSET StoredRun
  BY DEF TelemetryTypeOK
<1>0. Knows(reader[x]) /\ Explained(reader[x])
  BY DEF TelemetryInv, ReaderKnows, EmptyIsExplained, BothEnds
<1>r. reader[x].run \in StoredRun  BY <1>t DEF Reading
<1>s. reader[x].run \notin marked => samples[reader[x].run] = recorded[reader[x].run]
  BY <1>r DEF TelemetryInv, MarkMeansGone
<1> DEFINE Goal == Knows(reader[x])' /\ Explained(reader[x])'
<1>1. ASSUME NEW r \in StoredRun, Finish(r) PROVE Goal
  <2>1. UNCHANGED <<reader, marked>> /\ recorded[r] = Nothing
    BY <1>1 DEF Finish, TelemetryInv, RowsByPhase
  <2>2. \A u \in StoredRun : u # r => recorded'[u] = recorded[u]  BY <1>1, <1>t DEF Finish
  <2>3. Counted(reader[x]) => Counted(reader[x])'
    BY <1>r, <2>1, <2>2 DEF Nothing
  <2> QED BY <1>0, <2>1, <2>3 DEF BothEnds
<1>2. ASSUME UNCHANGED <<reader, recorded>>, marked \subseteq marked' PROVE Goal
  BY <1>0, <1>2 DEF BothEnds
<1>3. ASSUME NEW p \in Pass, DeleteAndMark(p) PROVE Goal
  BY <1>2, <1>3 DEF DeleteAndMark, Deleted
<1>4. ASSUME NEW q \in Reader, CountEngine(q) \/ CountDevices(q) PROVE Goal
  <2>0. UNCHANGED <<recorded, marked>>  BY <1>4 DEF CountEngine, CountDevices
  <2>1. CASE x = q
    <3>1. PICK some \in SUBSET Series :
             /\ reader[x].at # "answered"
             /\ reader'[x].at \in {"devices", "engine"} /\ reader'[x].run = reader[x].run
             /\ reader'[x].counts = Counting(x, some)
      <4>1. CASE CountEngine(x)
        <5>1. {EngineSeries} \in SUBSET Series  BY RunTelemetryAssumption
        <5> QED BY <1>t, <4>1, <5>1 DEF CountEngine, Ask, Reading
      <4>2. CASE CountDevices(x)
        <5>1. Gpus \in SUBSET Series  BY DEF Gpus
        <5> QED BY <1>t, <4>2, <5>1 DEF CountDevices, Ask, Reading
      <4> QED BY <1>4, <2>1, <4>1, <4>2
    <3>2. ASSUME reader[x].run \notin marked, NEW s \in Series
          PROVE  Counting(x, some)[s] \in {0, recorded[reader[x].run][s]}
      <4>1. reader[x].counts[s] \in {0, recorded[reader[x].run][s]}  BY <1>0, <3>1, <3>2
      <4> QED BY <1>s, <3>2, <4>1 DEF Counting
    <3> QED BY <2>0, <3>1, <3>2
  <2>2. CASE x # q
    <3>1. reader'[x] = reader[x]  BY <1>4, <1>t, <2>2 DEF CountEngine, CountDevices
    <3> QED BY <1>0, <2>0, <3>1 DEF BothEnds
  <2> QED BY <2>1, <2>2
<1>5. ASSUME NEW q \in Reader, ReadEngine(q) PROVE Goal
  <2>0. UNCHANGED <<recorded, marked>>  BY <1>5 DEF ReadEngine
  <2>1. CASE x = q
    <3> DEFINE new == Showing(x, {EngineSeries})
    <3>1. /\ reader[x].at = "engine" /\ reader'[x].at = "gpu" /\ reader'[x].run = reader[x].run
          /\ reader'[x].counts = reader[x].counts /\ reader'[x].shown = new
      BY <1>5, <1>t, <2>1 DEF ReadEngine, Ask, Reading
    <3>2. ASSUME reader[x].run \notin marked
          PROVE  Counted(reader[x]) /\ BothEnds(reader'[x], EngineSeries)
      <4>0. Counted(reader[x])  BY <1>0, <3>1, <3>2
      <4>1. reader[x].counts[EngineSeries] > 0 =>
              reader[x].counts[EngineSeries] = samples[reader[x].run][EngineSeries]
        BY <1>s, <3>2, <4>0, RunTelemetryAssumption
      <4>2. reader[x].counts[EngineSeries] > 0 =>
              {1, reader[x].counts[EngineSeries]} \subseteq new[EngineSeries]
        BY <4>1, ShowsBothEnds, RunTelemetryAssumption
      <4> QED BY <3>1, <4>0, <4>2 DEF BothEnds
    <3> QED BY <2>0, <3>1, <3>2 DEF BothEnds
  <2>2. CASE x # q
    <3>1. reader'[x] = reader[x]  BY <1>5, <1>t, <2>2 DEF ReadEngine
    <3> QED BY <1>0, <2>0, <3>1 DEF BothEnds
  <2> QED BY <2>1, <2>2
<1>6. ASSUME NEW q \in Reader, ReadGpu(q) PROVE Goal
  <2>0. UNCHANGED <<recorded, marked>>  BY <1>6 DEF ReadGpu
  <2>1. CASE x = q
    <3> DEFINE new == Showing(x, Gpus)
    <3>1. /\ reader[x].at = "gpu" /\ reader'[x].at = "mark" /\ reader'[x].run = reader[x].run
          /\ reader'[x].counts = reader[x].counts /\ reader'[x].shown = new
      BY <1>6, <1>t, <2>1 DEF ReadGpu, Ask, Reading
    <3>2. ASSUME reader[x].run \notin marked
          PROVE  /\ Counted(reader[x])
                 /\ BothEnds(reader'[x], EngineSeries)
                 /\ \A s \in Gpus : BothEnds(reader'[x], s)
      <4>0. Counted(reader[x]) /\ BothEnds(reader[x], EngineSeries)  BY <1>0, <3>1, <3>2
      <4>1. \A s \in Gpus : reader[x].counts[s] > 0 =>
              reader[x].counts[s] = samples[reader[x].run][s]
        BY <1>s, <3>2, <4>0 DEF Gpus
      <4>2. \A s \in Gpus : reader[x].counts[s] > 0 => {1, reader[x].counts[s]} \subseteq new[s]
        BY <4>1, ShowsBothEnds DEF Gpus
      <4>3. new[EngineSeries] = reader[x].shown[EngineSeries]
        BY RunTelemetryAssumption DEF Showing, Gpus
      <4> HIDE DEF new
      <4> QED BY <3>1, <4>0, <4>2, <4>3 DEF BothEnds
    <3> QED BY <2>0, <3>1, <3>2 DEF BothEnds
  <2>2. CASE x # q
    <3>1. reader'[x] = reader[x]  BY <1>6, <1>t, <2>2 DEF ReadGpu
    <3> QED BY <1>0, <2>0, <3>1 DEF BothEnds
  <2> QED BY <2>1, <2>2
<1>7. ASSUME NEW q \in Reader, ReadMark(q) PROVE Goal
  <2>0. UNCHANGED <<recorded, marked>>  BY <1>7 DEF ReadMark
  <2>1. CASE x = q
    <3>1. /\ reader[x].at = "mark" /\ reader'[x].at = "answered" /\ reader'[x].run = reader[x].run
          /\ reader'[x].counts = reader[x].counts /\ reader'[x].shown = reader[x].shown
          /\ reader'[x].mark <=> reader[x].run \in marked
      BY <1>7, <1>t, <2>1 DEF ReadMark, Ask, Reading
    <3>2. ~reader'[x].mark => \A s \in Series : BothEnds(reader[x], s)
      BY <1>0, <3>1 DEF Gpus
    <3> QED BY <3>1, <3>2 DEF BothEnds
  <2>2. CASE x # q
    <3>1. reader'[x] = reader[x]  BY <1>7, <1>t, <2>2 DEF ReadMark
    <3> QED BY <1>0, <2>0, <3>1 DEF BothEnds
  <2> QED BY <2>1, <2>2
<1>8. Goal
  <2> HIDE DEF Goal
  <2> QED BY <1>1, <1>2, <1>3, <1>4, <1>5, <1>6, <1>7
          DEF TelemetryNext, telemetryVars, GrowOld, SelectCandidates, CountSamples
<1> QED BY <1>8

(* The sample rows, the passes and the readers keep to TelemetryInv.         *)
THEOREM TelemetryInvariant == TelemetrySpec => [](TelemetryTypeOK /\ TelemetryInv)
<1>1. TelemetryInit => TelemetryTypeOK /\ TelemetryInv
  BY TelemetryInitTypes, TelemetryInvInit
<1>2. TelemetryTypeOK /\ TelemetryInv /\ [TelemetryNext]_telemetryVars => (TelemetryTypeOK /\ TelemetryInv)'
  BY TelemetryTypesKept, RowsKept, PassesKept, ReportKept, ReadersKept DEF TelemetryInv
<1> QED BY <1>1, <1>2, PTL DEF TelemetrySpec

(* A run loses its samples exactly when it is marked as pruned, whatever     *)
(* passes run beside each other (prune_telemetry).                           *)
THEOREM MarkTellsTheLoss == TelemetrySpec => []MarkMeansGone
<1>1. TelemetryInv => MarkMeansGone  BY DEF TelemetryInv
<1> QED BY <1>1, TelemetryInvariant, PTL

(* Passes together report every deleted sample once (prune_telemetry).       *)
THEOREM NothingReportedTwice == TelemetrySpec => []ReclaimedOnce
<1>1. TelemetryInv => ReclaimedOnce  BY DEF TelemetryInv
<1> QED BY <1>1, TelemetryInvariant, PTL

(* An answer that lacks an end of a series says why (get_run_telemetry).     *)
THEOREM GapsExplained == TelemetrySpec => []EmptyIsExplained
<1>1. TelemetryInv => EmptyIsExplained  BY DEF TelemetryInv
<1> QED BY <1>1, TelemetryInvariant, PTL
=============================================================================
