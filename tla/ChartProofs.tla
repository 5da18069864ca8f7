---------------------------- MODULE ChartProofs -----------------------------
(***************************************************************************)
(* What holds of the charts for every set of stored runs, every limit and   *)
(* every course of the runs that end between an answer's statements.        *)
(***************************************************************************)
EXTENDS Comparison, NumberTheorems, SequenceTheorems

LEMMA GreaterOfTwo ==
  ASSUME NEW x \in Int, NEW y \in Int
  PROVE  Max({x, y}) \in {x, y} /\ Max({x, y}) >= x /\ Max({x, y}) >= y
<1>1. IsFiniteSet({x, y})
  <2>1. IsFiniteSet({x})
    BY FS_Singleton
  <2>2. IsFiniteSet({x} \cup {y})
    BY <2>1, FS_AddElement
  <2>3. {x, y} = {x} \cup {y}
    OBVIOUS
  <2> QED
    BY <2>2, <2>3, Zenon
<1>2. \A v \in {x, y} : v \in Int
  OBVIOUS
<1>3. {x, y} # {}
  OBVIOUS
<1>4. Max({x, y}) \in {x, y} /\ \A v \in {x, y} : Max({x, y}) >= v
  BY <1>1, <1>2, <1>3, MaxIsGreatest
<1> QED
  BY <1>4, Zenon

LEMMA LesserOfTwo ==
  ASSUME NEW x \in Int, NEW y \in Int
  PROVE  Min({x, y}) \in {x, y} /\ Min({x, y}) <= x /\ Min({x, y}) <= y
<1> DEFINE m == IF x <= y THEN x ELSE y
<1>1. m \in {x, y} /\ \A v \in {x, y} : m <= v
  OBVIOUS
<1> HIDE DEF m
<1>2. Min({x, y}) \in {x, y} /\ \A v \in {x, y} : Min({x, y}) <= v
  BY <1>1, Zenon DEF Min
<1> QED
  BY <1>2, Zenon

LEMMA CapIsPositive == \A l \in Limit : Max({1, Min({l, MaxRunLimit})}) \in Nat \ {0}
<1> SUFFICES ASSUME NEW l \in Limit PROVE Max({1, Min({l, MaxRunLimit})}) \in Nat \ {0}
  OBVIOUS
<1> DEFINE m == Min({l, MaxRunLimit})
<1>0. l \in Int /\ MaxRunLimit \in Int
  BY AnalysisAssumption
<1>1. m \in Int
  <2>1. m \in {l, MaxRunLimit}
    BY <1>0, LesserOfTwo
  <2> HIDE DEF m
  <2> QED
    BY <1>0, <2>1
<1> HIDE DEF m
<1>2. Max({1, m}) \in {1, m} /\ Max({1, m}) >= 1
  <2>1. 1 \in Int
    OBVIOUS
  <2> QED
    BY <1>1, <2>1, GreaterOfTwo, Zenon
<1>3. Max({1, m}) \in Nat \ {0}
  BY <1>1, <1>2
<1> QED
  BY <1>3 DEF m
-----------------------------------------------------------------------------
LEMMA AnalysisStarts == AnalysisInit => AnalysisInv
<1> SUFFICES ASSUME AnalysisInit PROVE AnalysisInv
  OBVIOUS
<1>1. PICK h \in History : stored = [i \in DOMAIN h |-> [h[i] EXCEPT !.finished = i]]
  BY DEF AnalysisInit
<1>2. h \in Seq(RunRow) /\ Len(h) \in Nat /\ DOMAIN h = 1..Len(h)
  BY AnalysisAssumption
<1>3. \A i \in DOMAIN h : h[i] \in RunRow
  BY <1>2
<1>4. DOMAIN stored = 1..Len(h)
  BY <1>1, <1>2
<1>5. \A i \in DOMAIN stored : stored[i] \in RunRow /\ stored[i].finished = i
  <2> SUFFICES ASSUME NEW i \in DOMAIN stored PROVE stored[i] \in RunRow /\ stored[i].finished = i
    OBVIOUS
  <2>1. stored[i] = [h[i] EXCEPT !.finished = i] /\ h[i] \in RunRow /\ i \in Nat
    BY <1>1, <1>2, <1>3, <1>4
  <2> QED
    BY <2>1 DEF RunRow
<1>6. clock = Len(h)
  <2>1. \E n \in Nat : stored \in [1..n -> RunRow] /\ n = Len(h)
    BY <1>1, <1>2, <1>4, <1>5
  <2> QED
    BY <2>1 DEF AnalysisInit
<1>7. /\ view.at = 1 /\ view.shown = {} /\ view.ended = {} /\ view.other = {}
      /\ view.left = [s \in Excluded |-> {}]
      /\ view \in [at : 1..6, real : BOOLEAN, capped : Nat \ {0},
                   shown : SUBSET DOMAIN stored, ended : SUBSET DOMAIN stored,
                   left : [Excluded -> SUBSET DOMAIN stored], other : SUBSET DOMAIN stored]
  <2> DEFINE Caps == {Max({1, Min({l, MaxRunLimit})}) : l \in Limit}
  <2>1. view \in [at : {1}, real : BOOLEAN, capped : Caps,
                 shown : {{}}, ended : {{}}, left : {[s \in Excluded |-> {}]}, other : {{}}]
    BY DEF AnalysisInit
  <2>2. \A n \in Caps : n \in Nat \ {0}
    BY CapIsPositive
  <2> HIDE DEF Caps
  <2>3. view.left = [s \in Excluded |-> {}]
    BY <2>1
  <2>4. view.left \in [Excluded -> SUBSET DOMAIN stored]
    BY <2>3
  <2>5. /\ view.at = 1 /\ view.shown = {} /\ view.ended = {} /\ view.other = {}
        /\ view.real \in BOOLEAN /\ view.capped \in Nat \ {0}
    BY <2>1, <2>2
  <2>6. view = [at |-> view.at, real |-> view.real, capped |-> view.capped, shown |-> view.shown,
                ended |-> view.ended, left |-> view.left, other |-> view.other]
    BY <2>1
  <2>7. /\ view.at \in 1..6 /\ view.shown \in SUBSET DOMAIN stored
        /\ view.ended \in SUBSET DOMAIN stored /\ view.other \in SUBSET DOMAIN stored
    BY <2>5
  <2> QED
    BY <2>3, <2>4, <2>5, <2>6, <2>7
<1>8. AnalysisTypeOK
  <2>1. IsFiniteSet(DOMAIN stored)
    <3>1. IsFiniteSet(1..Len(h))
      BY <1>2, FS_Interval
    <3> QED
      BY <1>4, <3>1, Zenon
  <2>2. stored \in [DOMAIN stored -> RunRow]
    <3>1. stored = [i \in DOMAIN stored |-> stored[i]]
      BY <1>1
    <3> QED
      BY <1>5, <3>1
  <2>3. clock \in Nat
    BY <1>2, <1>6
  <2> QED
    BY <1>7, <2>1, <2>2, <2>3, Zenon DEF AnalysisTypeOK
<1>9. EndedApart
  <2>1. \A i \in DOMAIN stored : stored[i].finished = i /\ i <= clock
    BY <1>2, <1>4, <1>5, <1>6
  <2> QED
    BY <2>1, Zenon DEF EndedApart
<1>10. LoadedKnows /\ CountedKnows
  BY <1>7 DEF LoadedKnows, CountedKnows, Excluded
<1> QED
  BY <1>8, <1>9, <1>10 DEF AnalysisInv

(* A run that starts or ends is one that had not: a row that has ended stays *)
(* as it is.                                                                 *)
Moves == \E r \in DOMAIN stored : \/ Start(r)
                                  \/ \E status \in {"succeeded", "failed", "cancelled"} : End(r, status)
LEMMA RowsMove ==
  ASSUME AnalysisTypeOK, EndedApart, Moves
  PROVE  /\ DOMAIN stored' = DOMAIN stored /\ view' = view
         /\ AnalysisTypeOK' /\ EndedApart'
         /\ \A q \in DOMAIN stored : stored[q].status \notin Unfinished => stored'[q] = stored[q]
<1>1. PICK r \in DOMAIN stored :
        Start(r) \/ \E status \in {"succeeded", "failed", "cancelled"} : End(r, status)
  BY DEF Moves
<1>2. /\ stored \in [DOMAIN stored -> RunRow] /\ stored[r] \in RunRow /\ clock \in Nat
      /\ IsFiniteSet(DOMAIN stored)
  BY DEF AnalysisTypeOK
<1>3. PICK row \in RunRow :
        /\ stored' = [stored EXCEPT ![r] = row] /\ view' = view
        /\ stored[r].status \in Unfinished
        /\ \/ row.finished = stored[r].finished /\ clock' = clock
           \/ row.finished = clock + 1 /\ clock' = clock + 1
  <2>1. CASE Start(r)
    <3>1. PICK real \in BOOLEAN : stored' = [stored EXCEPT ![r].status = "starting", ![r].real = real]
      BY <2>1 DEF Start
    <3> DEFINE row == [[stored[r] EXCEPT !.status = "starting"] EXCEPT !.real = real]
    <3>2. row \in RunRow /\ row.finished = stored[r].finished
      BY <1>2 DEF RunRow, Statuses
    <3>3. stored' = [stored EXCEPT ![r] = row]
      BY <3>1
    <3>4. stored[r].status \in Unfinished /\ view' = view /\ clock' = clock
      BY <2>1 DEF Start, Unfinished
    <3> HIDE DEF row
    <3> QED
      BY <3>2, <3>3, <3>4
  <2>2. ASSUME NEW status \in {"succeeded", "failed", "cancelled"}, End(r, status)
        PROVE  \E row \in RunRow :
                 /\ stored' = [stored EXCEPT ![r] = row] /\ view' = view
                 /\ stored[r].status \in Unfinished
                 /\ row.finished = clock + 1 /\ clock' = clock + 1
    <3> DEFINE row == [[stored[r] EXCEPT !.status = status] EXCEPT !.finished = clock + 1]
    <3>1. row \in RunRow /\ row.finished = clock + 1
      <4> DEFINE next == clock + 1
      <4>1. next \in Nat /\ status \in Statuses
        BY <1>2 DEF Statuses
      <4> HIDE DEF next
      <4>2. [[stored[r] EXCEPT !.status = status] EXCEPT !.finished = next] \in RunRow
        BY <1>2, <4>1 DEF RunRow
      <4>3. [[stored[r] EXCEPT !.status = status] EXCEPT !.finished = next].finished = next
        BY <1>2, <4>1 DEF RunRow
      <4> QED
        BY <4>2, <4>3 DEF next
    <3>2. stored' = [stored EXCEPT ![r] = row]
      <4>1. stored' = [stored EXCEPT ![r].status = status, ![r].finished = clock + 1]
        BY <2>2, Zenon DEF End
      <4> DEFINE next == clock + 1
      <4>2. stored' = [stored EXCEPT ![r].status = status, ![r].finished = next]
        BY <4>1
      <4> HIDE DEF next
      <4>3. stored' = [stored EXCEPT ![r] = [[stored[r] EXCEPT !.status = status] EXCEPT !.finished = next]]
        BY <4>2
      <4> QED
        BY <4>3 DEF next
    <3>3. stored[r].status \in Unfinished /\ view' = view /\ clock' = clock + 1
      BY <2>2 DEF End, Unfinished
    <3> HIDE DEF row
    <3> QED
      BY <3>1, <3>2, <3>3
  <2> QED
    BY <1>1, <2>1, <2>2
<1>4. /\ DOMAIN stored' = DOMAIN stored /\ stored' \in [DOMAIN stored -> RunRow]
      /\ stored'[r] = row /\ \A q \in DOMAIN stored : q # r => stored'[q] = stored[q]
  BY <1>2, <1>3
<1>5. clock' \in Nat
  BY <1>2, <1>3
<1>6. AnalysisTypeOK'
  BY <1>2, <1>3, <1>4, <1>5 DEF AnalysisTypeOK
<1>7. EndedApart'
  <2>1. \A q \in DOMAIN stored : stored[q].finished \in Nat /\ stored'[q].finished \in Nat
    BY <1>2, <1>4 DEF RunRow
  <2>2. \A q \in DOMAIN stored : stored[q].finished <= clock
    BY DEF EndedApart
  <2>3. \A p, q \in DOMAIN stored : stored[p].finished = stored[q].finished => p = q
    BY DEF EndedApart
  <2>4. CASE row.finished = stored[r].finished /\ clock' = clock
    <3>1. \A q \in DOMAIN stored : stored'[q].finished = stored[q].finished
      BY <1>4, <2>4
    <3> QED
      BY <1>4, <2>2, <2>3, <2>4, <3>1 DEF EndedApart
  <2>5. CASE row.finished = clock + 1 /\ clock' = clock + 1
    <3>1. \A q \in DOMAIN stored : stored'[q].finished = IF q = r THEN clock + 1 ELSE stored[q].finished
      BY <1>4, <2>5
    <3>2. \A q \in DOMAIN stored : stored'[q].finished <= clock + 1
      BY <1>2, <2>1, <2>2, <3>1
    <3>3. \A p, q \in DOMAIN stored : stored'[p].finished = stored'[q].finished => p = q
      BY <1>2, <2>1, <2>2, <2>3, <3>1
    <3> QED
      BY <1>4, <2>5, <3>2, <3>3 DEF EndedApart
  <2> QED
    BY <1>3, <2>4, <2>5
<1> QED
  BY <1>3, <1>4, <1>6, <1>7
-----------------------------------------------------------------------------
(* Of finitely many things with different numbers there are the n last ones. *)
LEMMA NewestExists ==
  ASSUME NEW T, IsFiniteSet(T), NEW f, \A t \in T : f[t] \in Int,
         \A t, u \in T : f[t] = f[u] => t = u, NEW n \in Nat
  PROVE  \E S \in SUBSET T : /\ Cardinality(S) = Min({n, Cardinality(T)})
                             /\ \A r \in S, q \in T \ S : f[r] > f[q]
<1> DEFINE Newer(S, U) == /\ Cardinality(S) = Min({n, Cardinality(U)})
                          /\ \A r \in S, q \in U \ S : f[r] > f[q]
           Bad == {U \in SUBSET T : ~\E S \in SUBSET U : Newer(S, U)}
<1> SUFFICES ASSUME Bad # {} PROVE FALSE
  OBVIOUS
<1>1. PICK m \in Bad : \A u \in SUBSET m : u \in Bad => u = m
  <2> Bad \in SUBSET (SUBSET T)
    OBVIOUS
  <2> HIDE DEF Bad
  <2> QED
    BY Smallest
<1>2. IsFiniteSet(m) /\ m \in SUBSET T /\ Cardinality(m) \in Nat
  BY <1>1, FS_Subset, FS_CardinalityType
<1>3. Cardinality(m) > n
  <2> SUFFICES ASSUME Cardinality(m) <= n PROVE FALSE
    BY <1>2
  <2>1. Min({n, Cardinality(m)}) = Cardinality(m)
    <3> DEFINE c == Cardinality(m)
    <3>1. c \in Int /\ n \in Int /\ c <= n
      BY <1>2
    <3> HIDE DEF c
    <3>2. Min({n, c}) \in {n, c} /\ Min({n, c}) <= c
      BY <3>1, LesserOfTwo
    <3>3. Min({n, c}) = c
      BY <3>1, <3>2
    <3> QED
      BY <3>3 DEF c
  <2>2. Newer(m, m)
    BY <2>1
  <2> QED
    BY <1>1, <2>2
<1>4. PICK o \in m : \A x \in m : f[o] <= f[x]
  <2> DEFINE V == {f[x] : x \in m}
  <2>1. IsFiniteSet(V) /\ V # {} /\ V \subseteq Int
    <3>1. m # {}
      BY <1>2, <1>3, FS_EmptySet
    <3>2. IsFiniteSet(V)
      BY <1>2, ImageFinite
    <3> QED
      BY <1>2, <3>1, <3>2
  <2>2. PICK v \in V : \A w \in V : v <= w
    <3> HIDE DEF V
    <3> QED
      BY <2>1, MinIsLeast
  <2> QED
    BY <2>2
<1> DEFINE u == m \ {o}
<1>5. u \notin Bad /\ u \in SUBSET T
  <2> HIDE DEF Bad
  <2> QED
    BY <1>1, <1>2
<1>6. PICK S \in SUBSET u : Newer(S, u)
  BY <1>5
<1>7. Cardinality(u) = Cardinality(m) - 1
  BY <1>2, FS_RemoveElement
<1>8. Cardinality(S) = Min({n, Cardinality(m)})
  <2> DEFINE c == Cardinality(m)
             d == Cardinality(u)
  <2>1. c \in Int /\ d \in Int /\ n <= d /\ n <= c /\ n \in Int
    BY <1>2, <1>3, <1>7
  <2>2. Cardinality(S) = Min({n, d})
    BY <1>6
  <2> HIDE DEF c, d
  <2>3. Min({n, c}) = n
    <3>1. Min({n, c}) \in {n, c} /\ Min({n, c}) <= n
      BY <2>1, LesserOfTwo
    <3> QED
      BY <2>1, <3>1
  <2>4. Min({n, d}) = n
    <3>1. Min({n, d}) \in {n, d} /\ Min({n, d}) <= n
      BY <2>1, LesserOfTwo
    <3> QED
      BY <2>1, <3>1
  <2> QED
    BY <2>2, <2>3, <2>4 DEF c
<1>9. \A r \in S, q \in m \ S : f[r] > f[q]
  <2> SUFFICES ASSUME NEW r \in S, NEW q \in m \ S PROVE f[r] > f[q]
    OBVIOUS
  <2>1. CASE q = o
    <3>1. f[r] \in Int /\ f[o] \in Int /\ f[r] # f[o] /\ f[o] <= f[r]
      BY <1>2, <1>4
    <3> QED
      BY <2>1, <3>1
  <2>2. CASE q # o
    BY <1>6, <2>2
  <2> QED
    BY <2>1, <2>2
<1>10. Newer(S, m)
  BY <1>8, <1>9
<1> QED
  BY <1>1, <1>10

LEMMA NewestAre ==
  ASSUME AnalysisTypeOK, EndedApart, NEW T \in SUBSET DOMAIN stored, NEW n \in Nat
  PROVE  LET S == NewestOf(T, n) IN
         /\ S \in SUBSET T /\ Cardinality(S) = Min({n, Cardinality(T)})
         /\ \A r \in S, q \in T \ S : stored[r].finished > stored[q].finished
<1> DEFINE f == [t \in T |-> stored[t].finished]
<1>1. IsFiniteSet(T)
  BY FS_Subset DEF AnalysisTypeOK
<1>2. \A t \in T : f[t] \in Int
  BY DEF AnalysisTypeOK, RunRow
<1>3. \A t, u \in T : f[t] = f[u] => t = u
  BY DEF EndedApart
<1>4. PICK S \in SUBSET T : /\ Cardinality(S) = Min({n, Cardinality(T)})
                            /\ \A r \in S, q \in T \ S : f[r] > f[q]
  <2> HIDE DEF f
  <2> QED
    BY <1>1, <1>2, <1>3, NewestExists
<1>5. \A r \in S, q \in T \ S : stored[r].finished > stored[q].finished
  BY <1>4
<1> QED
  BY <1>4, <1>5, Zenon DEF NewestOf

LEMMA LoadKeeps == ASSUME AnalysisInv, LoadRecords PROVE AnalysisInv'
<1> DEFINE scope == InScope(view.real)
           T == OfStatus(scope, {"succeeded"})
           S == NewestOf(T, view.capped)
           E == scope \ OfStatus(scope, Unfinished)
<1>1. /\ view.at \in 1..6 /\ view.capped \in Nat \ {0} /\ Doing("load")
      /\ view' = [view EXCEPT !.at = @ + 1, !.shown = S, !.ended = E]
      /\ stored' = stored /\ clock' = clock
  BY DEF AnalysisInv, AnalysisTypeOK, LoadRecords
<1>2. view.at = 1
  BY <1>1 DEF Doing, Statements
<1>3. T \in SUBSET DOMAIN stored /\ E \in SUBSET DOMAIN stored /\ IsFiniteSet(T)
  <2>1. T \in SUBSET DOMAIN stored /\ E \in SUBSET DOMAIN stored
    BY DEF InScope, OfStatus
  <2> HIDE DEF T
  <2> QED
    BY <2>1, FS_Subset DEF AnalysisInv, AnalysisTypeOK
<1>4. /\ S \in SUBSET T /\ Cardinality(S) = Min({view.capped, Cardinality(T)})
      /\ \A r \in S, q \in T \ S : stored[r].finished > stored[q].finished
  <2> HIDE DEF T
  <2> QED
    BY <1>1, <1>3, NewestAre DEF AnalysisInv
<1>5. \A r \in T : stored[r].status = "succeeded"
  BY DEF OfStatus
<1>6. /\ \A r \in E : stored[r].status \notin Unfinished /\ stored[r].real = view.real
      /\ \A r \in E : stored[r].status = "succeeded" => r \in T
  BY DEF OfStatus, InScope
<1>7. \A r \in DOMAIN stored : stored[r].finished \in Nat
  BY DEF AnalysisInv, AnalysisTypeOK, RunRow
<1>8. Cardinality(S) < view.capped => S = T
  <2> SUFFICES ASSUME Cardinality(S) < view.capped PROVE S = T
    OBVIOUS
  <2>1. Cardinality(T) \in Nat
    BY <1>3, FS_CardinalityType
  <2> DEFINE c == Cardinality(T)
             n == view.capped
  <2> HIDE DEF T, S, c, n
  <2>2. c \in Int /\ n \in Int
    BY <1>1, <2>1 DEF c, n
  <2>3. Min({n, c}) \in {n, c}
    BY <2>2, LesserOfTwo
  <2>4. Cardinality(S) = Min({n, c}) /\ Cardinality(S) < n
    BY <1>4 DEF c, n
  <2>5. Cardinality(S) = c
    BY <2>2, <2>3, <2>4
  <2> QED
    BY <1>3, <1>4, <2>5, FS_Subset DEF c
<1> HIDE DEF scope, S, T, E
<1>9. /\ view'.at = 2 /\ view'.shown = S /\ view'.ended = E /\ view'.left = view.left
      /\ view'.real = view.real /\ view'.capped = view.capped /\ view'.other = view.other
      /\ view' \in [at : 1..6, real : BOOLEAN, capped : Nat \ {0},
                    shown : SUBSET DOMAIN stored, ended : SUBSET DOMAIN stored,
                    left : [Excluded -> SUBSET DOMAIN stored], other : SUBSET DOMAIN stored]
  <2> DEFINE D == DOMAIN stored
             F == [Excluded -> SUBSET D]
             P == SUBSET D
             A == 1..6
             K == Nat \ {0}
  <2>1. view \in [at : A, real : BOOLEAN, capped : K,
                  shown : P, ended : P, left : F, other : P]
    BY DEF AnalysisInv, AnalysisTypeOK
  <2>2. 2 \in A /\ S \in P /\ E \in P
    BY <1>3, <1>4
  <2>3. view' = [view EXCEPT !.at = 2, !.shown = S, !.ended = E]
    BY <1>1, <1>2
  <2> HIDE DEF D, F, P, A, K
  <2>4. view' \in [at : A, real : BOOLEAN, capped : K,
                   shown : P, ended : P, left : F, other : P]
    BY <2>1, <2>2, <2>3
  <2>5. /\ view'.at = 2 /\ view'.shown = S /\ view'.ended = E /\ view'.left = view.left
        /\ view'.real = view.real /\ view'.capped = view.capped /\ view'.other = view.other
    BY <2>1, <2>3
  <2> QED
    BY <2>4, <2>5 DEF D, F, P, A, K
<1>10. AnalysisTypeOK'
  BY <1>1, <1>9 DEF AnalysisInv, AnalysisTypeOK
<1>11. EndedApart'
  BY <1>1 DEF AnalysisInv, EndedApart
<1>12. LoadedKnows'
  <2> DEFINE behind == {r \in view'.ended : stored'[r].status = "succeeded"} \ view'.shown
  <2>1. behind \in SUBSET (T \ S)
    BY <1>1, <1>6, <1>9
  <2>2. /\ \A r \in view'.shown : stored'[r].status = "succeeded"
        /\ view'.shown \subseteq view'.ended
    <3>1. \A r \in T : r \in E
      BY DEF T, E, OfStatus, Unfinished, scope
    <3> QED
      BY <1>1, <1>4, <1>5, <1>9, <3>1
  <2>3. \A r \in view'.ended : stored'[r].status \notin Unfinished
    BY <1>1, <1>6, <1>9
  <2>4. Cardinality(view'.shown) < view'.capped => behind = {}
    <3> HIDE DEF behind
    <3> QED
      BY <1>8, <1>9, <2>1
  <2>5. \A q \in behind, r \in view'.shown : stored'[q].finished < stored'[r].finished
    <3> HIDE DEF behind
    <3> SUFFICES ASSUME NEW q \in behind, NEW r \in view'.shown
                 PROVE stored'[q].finished < stored'[r].finished
      OBVIOUS
    <3>1. q \in T \ S /\ r \in S
      BY <1>9, <2>1
    <3>2. stored[r].finished > stored[q].finished
      BY <1>4, <3>1
    <3>3. stored[r].finished \in Nat /\ stored[q].finished \in Nat
      BY <1>3, <1>4, <1>7, <3>1
    <3> QED
      BY <1>1, <3>2, <3>3
  <2> QED
    BY <2>2, <2>3, <2>4, <2>5 DEF LoadedKnows
<1>13. CountedKnows'
  <2>1. /\ \A s \in {"failed", "cancelled"} : \A r \in view.left[s] : stored[r].status = s
        /\ view.left["unfinished"] = {}
    BY <1>2 DEF AnalysisInv, CountedKnows
  <2> QED
    BY <1>1, <1>6, <1>9, <2>1 DEF CountedKnows
<1> QED
  BY <1>10, <1>11, <1>12, <1>13 DEF AnalysisInv

LEMMA CountKeeps == ASSUME AnalysisInv, CountExcluded PROVE AnalysisInv'
<1>1. PICK s \in Excluded :
        /\ Doing(s)
        /\ view' = [view EXCEPT !.at = @ + 1,
                                !.left[s] = OfStatus(InScope(view.real), StatusesOf(s))]
        /\ stored' = stored /\ clock' = clock
  BY DEF CountExcluded
<1> DEFINE C == OfStatus(InScope(view.real), StatusesOf(s))
<1>2. /\ C \in SUBSET DOMAIN stored
      /\ \A r \in C : stored[r].status \in StatusesOf(s)
      /\ \A r \in view.ended : stored[r].status \in StatusesOf(s) => r \in C
  BY DEF AnalysisInv, AnalysisTypeOK, CountedKnows, OfStatus, InScope
<1> HIDE DEF C
<1>3. view.at \in 1..6
  BY DEF AnalysisInv, AnalysisTypeOK
<1>4. view.at = CASE s = "failed" -> 2 [] s = "cancelled" -> 3 [] s = "unfinished" -> 4
  BY <1>1, <1>3 DEF Doing, Statements, Excluded
<1>5. /\ view'.at = view.at + 1 /\ view'.shown = view.shown /\ view'.ended = view.ended
      /\ view'.left = [view.left EXCEPT ![s] = C]
      /\ view'.real = view.real /\ view'.capped = view.capped /\ view'.other = view.other
  <2>1. view' = [view EXCEPT !.at = @ + 1, !.left = [view.left EXCEPT ![s] = C]]
    BY <1>1 DEF AnalysisInv, AnalysisTypeOK, C
  <2> QED
    BY <2>1 DEF AnalysisInv, AnalysisTypeOK
<1>6. view' \in [at : 1..6, real : BOOLEAN, capped : Nat \ {0},
                 shown : SUBSET DOMAIN stored, ended : SUBSET DOMAIN stored,
                 left : [Excluded -> SUBSET DOMAIN stored], other : SUBSET DOMAIN stored]
  <2>1. view' = [view EXCEPT !.at = @ + 1, !.left = [view.left EXCEPT ![s] = C]]
    BY <1>1 DEF AnalysisInv, AnalysisTypeOK, C
  <2>2. view.at + 1 \in 1..6
    BY <1>3, <1>4, <1>1 DEF Excluded
  <2>3. [view.left EXCEPT ![s] = C] \in [Excluded -> SUBSET DOMAIN stored]
    BY <1>2 DEF AnalysisInv, AnalysisTypeOK
  <2> QED
    BY <2>1, <2>2, <2>3 DEF AnalysisInv, AnalysisTypeOK
<1>7. AnalysisTypeOK'
  BY <1>1, <1>6 DEF AnalysisInv, AnalysisTypeOK
<1>8. EndedApart' /\ LoadedKnows'
  BY <1>1, <1>5 DEF AnalysisInv, EndedApart, LoadedKnows
<1>9. /\ view'.left[s] = C /\ \A t \in Excluded : t # s => view'.left[t] = view.left[t]
  BY <1>5 DEF AnalysisInv, AnalysisTypeOK
<1>10. CountedKnows'
  <2>0. CountedKnows /\ \A r \in view.shown : stored[r].status = "succeeded"
    BY DEF AnalysisInv, LoadedKnows
  <2>1. CASE s \in {"failed", "cancelled"}
    <3>1. StatusesOf(s) = {s} /\ view.left["unfinished"] = {} /\ view'.left["unfinished"] = {}
      BY <1>4, <1>9, <2>0, <2>1 DEF StatusesOf, CountedKnows, Excluded
    <3>2. \A r \in C : stored[r].status = s
      BY <1>2, <3>1
    <3>3. \A r \in view.ended : stored[r].status = s => r \in C
      BY <1>2, <3>1
    <3>4. ASSUME NEW t \in {"failed", "cancelled"}
          PROVE  /\ \A r \in view'.left[t] : stored'[r].status = t
                 /\ view'.at > (IF t = "failed" THEN 2 ELSE 3) =>
                      \A r \in view'.ended : stored'[r].status = t => r \in view'.left[t]
      <4>1. CASE t = s
        BY <1>1, <1>5, <1>9, <3>2, <3>3, <4>1
      <4>2. CASE t # s
        <5>1. view'.left[t] = view.left[t]
          BY <1>9, <4>2 DEF Excluded
        <5>2. view'.at > (IF t = "failed" THEN 2 ELSE 3) => view.at > (IF t = "failed" THEN 2 ELSE 3)
          BY <1>4, <1>5, <2>1, <4>2
        <5> QED
          BY <1>1, <1>5, <2>0, <5>1, <5>2 DEF CountedKnows
      <4> QED
        BY <4>1, <4>2
    <3>5. \A r \in view'.ended : stored'[r].real = view'.real
      BY <1>1, <1>5, <2>0 DEF CountedKnows
    <3> QED
      BY <3>1, <3>4, <3>5 DEF CountedKnows
  <2>2. CASE s = "unfinished"
    <3>1. \A r \in C : stored[r].status \in Unfinished
      BY <1>2, <2>2 DEF StatusesOf
    <3>2. view'.left["unfinished"] = C /\ view.at = 4 /\ view'.at = 5
      BY <1>4, <1>5, <1>9, <2>2
    <3>3. \A t \in {"failed", "cancelled"} : view'.left[t] = view.left[t]
      BY <1>9, <2>2 DEF Excluded
    <3>4. /\ \A t \in {"failed", "cancelled"} : \A r \in view.left[t] : stored[r].status = t
          /\ \A t \in {"failed", "cancelled"} : \A r \in view.ended : stored[r].status = t => r \in view.left[t]
          /\ \A r \in view.ended : stored[r].real = view.real
      BY <2>0, <3>2 DEF CountedKnows
    <3>5. C \cap view.shown = {} /\ \A t \in {"failed", "cancelled"} : C \cap view.left[t] = {}
      BY <2>0, <3>1, <3>4 DEF Unfinished
    <3> QED
      BY <1>1, <1>5, <3>2, <3>3, <3>4, <3>5 DEF CountedKnows
  <2> QED
    BY <2>1, <2>2 DEF Excluded
<1> QED
  BY <1>7, <1>8, <1>10 DEF AnalysisInv

LEMMA OtherKeeps == ASSUME AnalysisInv, CountOther PROVE AnalysisInv'
<1>1. /\ Doing("other") /\ stored' = stored /\ clock' = clock
      /\ view' = [view EXCEPT !.at = @ + 1, !.other = InScope(~view.real)]
      /\ view.at \in 1..6
  BY DEF CountOther, AnalysisInv, AnalysisTypeOK
<1>2. view.at = 5
  BY <1>1 DEF Doing, Statements
<1>3. InScope(~view.real) \in SUBSET DOMAIN stored
  BY DEF InScope
<1>4. /\ view'.at = 6 /\ view'.shown = view.shown /\ view'.ended = view.ended
      /\ view'.left = view.left /\ view'.real = view.real /\ view'.capped = view.capped
      /\ view' \in [at : 1..6, real : BOOLEAN, capped : Nat \ {0},
                    shown : SUBSET DOMAIN stored, ended : SUBSET DOMAIN stored,
                    left : [Excluded -> SUBSET DOMAIN stored], other : SUBSET DOMAIN stored]
  <2> DEFINE D == DOMAIN stored
             F == [Excluded -> SUBSET D]
             P == SUBSET D
             A == 1..6
             K == Nat \ {0}
             O == InScope(~view.real)
  <2>1. view \in [at : A, real : BOOLEAN, capped : K,
                  shown : P, ended : P, left : F, other : P]
    BY DEF AnalysisInv, AnalysisTypeOK
  <2>2. 6 \in A /\ O \in P
    BY <1>3
  <2>3. view' = [view EXCEPT !.at = 6, !.other = O]
    BY <1>1, <1>2
  <2> HIDE DEF D, F, P, A, K, O
  <2>4. view' \in [at : A, real : BOOLEAN, capped : K,
                   shown : P, ended : P, left : F, other : P]
    BY <2>1, <2>2, <2>3
  <2>5. /\ view'.at = 6 /\ view'.shown = view.shown /\ view'.ended = view.ended
        /\ view'.left = view.left /\ view'.real = view.real /\ view'.capped = view.capped
    BY <2>1, <2>3
  <2> QED
    BY <2>4, <2>5 DEF D, F, P, A, K
<1>5. AnalysisTypeOK'
  BY <1>1, <1>4 DEF AnalysisInv, AnalysisTypeOK
<1>6. EndedApart' /\ LoadedKnows'
  BY <1>1, <1>4 DEF AnalysisInv, EndedApart, LoadedKnows
<1>7. CountedKnows'
  BY <1>1, <1>2, <1>4 DEF AnalysisInv, CountedKnows
<1> QED
  BY <1>5, <1>6, <1>7 DEF AnalysisInv

LEMMA MovesKeep == ASSUME AnalysisInv, Moves PROVE AnalysisInv'
<1>1. /\ AnalysisTypeOK /\ EndedApart /\ LoadedKnows /\ CountedKnows
  BY DEF AnalysisInv
<1>2. /\ DOMAIN stored' = DOMAIN stored /\ view' = view
      /\ AnalysisTypeOK' /\ EndedApart'
      /\ \A q \in DOMAIN stored : stored[q].status \notin Unfinished => stored'[q] = stored[q]
  BY <1>1, RowsMove
<1>3. /\ \A r \in view.shown : stored'[r] = stored[r]
      /\ \A r \in view.ended : stored'[r] = stored[r]
      /\ \A s \in {"failed", "cancelled"} : \A r \in view.left[s] : stored'[r] = stored[r]
  <2>1. /\ view.shown \in SUBSET DOMAIN stored /\ view.ended \in SUBSET DOMAIN stored
        /\ \A s \in {"failed", "cancelled"} : view.left[s] \in SUBSET DOMAIN stored
    BY <1>1 DEF AnalysisTypeOK, Excluded
  <2>2. /\ \A r \in view.shown : stored[r].status = "succeeded"
        /\ \A r \in view.ended : stored[r].status \notin Unfinished
        /\ \A s \in {"failed", "cancelled"} : \A r \in view.left[s] : stored[r].status = s
    BY <1>1 DEF LoadedKnows, CountedKnows
  <2> QED
    BY <1>2, <2>1, <2>2 DEF Unfinished
<1>4. LoadedKnows'
  <2>1. {r \in view.ended : stored'[r].status = "succeeded"} = {r \in view.ended : stored[r].status = "succeeded"}
    BY <1>3
  <2> QED
    BY <1>1, <1>2, <1>3, <2>1 DEF LoadedKnows
<1>5. CountedKnows'
  BY <1>1, <1>2, <1>3 DEF CountedKnows
<1> QED
  BY <1>2, <1>4, <1>5 DEF AnalysisInv

(* What an answer has loaded and counted stays true of the rows it is of,    *)
(* while other runs start and end.                                           *)
THEOREM AnalysisInvariant == AnalysisSpec => []AnalysisInv
<1>1. AnalysisInv /\ [AnalysisNext]_analysisVars => AnalysisInv'
  <2> SUFFICES ASSUME AnalysisInv, [AnalysisNext]_analysisVars PROVE AnalysisInv'
    OBVIOUS
  <2>1. CASE Moves
    BY <2>1, MovesKeep
  <2>2. CASE LoadRecords
    BY <2>2, LoadKeeps
  <2>3. CASE CountExcluded
    BY <2>3, CountKeeps
  <2>4. CASE CountOther
    BY <2>4, OtherKeeps
  <2>5. CASE UNCHANGED analysisVars
    BY <2>5 DEF analysisVars, AnalysisInv, AnalysisTypeOK, EndedApart, LoadedKnows, CountedKnows
  <2> QED
    BY <2>1, <2>2, <2>3, <2>4, <2>5 DEF AnalysisNext, Moves
<1> QED
  BY <1>1, AnalysisStarts, PTL DEF AnalysisSpec
-----------------------------------------------------------------------------
(* What an answer counts, it counts once; and what it does not account for   *)
(* is older than all it shows, and there is none of it unless the limit was  *)
(* reached.                                                                  *)
LEMMA CountsAddUp ==
  ASSUME AnalysisInv, Answered
  PROVE  LET left == view.left
             missing == view.ended \ (view.shown \cup UNION {left[s] : s \in Excluded}) IN
         /\ \A s, t \in Excluded : s # t => left[s] \cap left[t] = {}
         /\ \A s \in Excluded : view.shown \cap left[s] = {}
         /\ ~Truncated(view) => missing = {}
         /\ \A q \in missing, r \in view.shown : stored[q].finished < stored[r].finished
<1> DEFINE left == view.left
           missing == view.ended \ (view.shown \cup UNION {left[s] : s \in Excluded})
           behind == {r \in view.ended : stored[r].status = "succeeded"} \ view.shown
<1>1. /\ AnalysisTypeOK /\ LoadedKnows /\ CountedKnows /\ view.at = 6
  <2>1. view.at \in 1..6 /\ Statements[view.at] = "answered"
    BY DEF AnalysisInv, AnalysisTypeOK, Answered, Doing
  <2>2. view.at = 6
    BY <2>1 DEF Statements
  <2> QED
    BY <2>2 DEF AnalysisInv
<1>2. \A s \in {"failed", "cancelled"} :
        /\ \A r \in left[s] : stored[r].status = s
        /\ \A r \in view.ended : stored[r].status = s => r \in left[s]
  BY <1>1 DEF CountedKnows
<1>3. /\ left["unfinished"] \cap view.shown = {}
      /\ \A s \in {"failed", "cancelled"} : left["unfinished"] \cap left[s] = {}
  BY <1>1 DEF CountedKnows
<1>4. /\ \A r \in view.shown : stored[r].status = "succeeded"
      /\ \A r \in view.ended : stored[r].status \notin Unfinished /\ r \in DOMAIN stored
      /\ Cardinality(view.shown) < view.capped => behind = {}
      /\ \A q \in behind, r \in view.shown : stored[q].finished < stored[r].finished
  BY <1>1 DEF LoadedKnows, AnalysisTypeOK
<1>5. missing \subseteq behind
  <2> SUFFICES ASSUME NEW r \in missing PROVE r \in behind
    OBVIOUS
  <2>1. r \in view.ended /\ r \notin view.shown /\ r \notin left["failed"] /\ r \notin left["cancelled"]
    BY DEF Excluded
  <2>2. stored[r].status \in Statuses
    BY <1>1, <1>4, <2>1 DEF AnalysisTypeOK, RunRow
  <2>3. stored[r].status = "succeeded"
    BY <1>2, <1>4, <2>1, <2>2 DEF Statuses, Unfinished
  <2> QED
    BY <2>1, <2>3
<1>6. \A s, t \in Excluded : s # t => left[s] \cap left[t] = {}
  <2>1. left["failed"] \cap left["cancelled"] = {}
    BY <1>2
  <2> QED
    BY <1>3, <2>1 DEF Excluded
<1>7. \A s \in Excluded : view.shown \cap left[s] = {}
  BY <1>2, <1>3, <1>4 DEF Excluded
<1>8. ~Truncated(view) => missing = {}
  <2>1. Cardinality(view.shown) \in Nat /\ view.capped \in Nat
    BY <1>1, FS_Subset, FS_CardinalityType DEF AnalysisTypeOK
  <2>2. ~Truncated(view) => Cardinality(view.shown) < view.capped
    BY <2>1 DEF Truncated
  <2> HIDE DEF missing, behind
  <2> QED
    BY <1>4, <1>5, <2>2
<1>9. \A q \in missing, r \in view.shown : stored[q].finished < stored[r].finished
  <2> HIDE DEF missing, behind
  <2> QED
    BY <1>4, <1>5
<1> QED
  BY <1>6, <1>7, <1>8, <1>9
-----------------------------------------------------------------------------
(* Finitely many things are listed in the order of a number they have.       *)
LEMMA SortedExists ==
  ASSUME NEW S, IsFiniteSet(S), NEW f, \A s \in S : f[s] \in Int
  PROVE  \E q \in SetToSeqs(S) : \A i, j \in DOMAIN q : i < j => f[q[i]] <= f[q[j]]
<1> DEFINE Sorts(q) == \A i, j \in DOMAIN q : i < j => f[q[i]] <= f[q[j]]
           Bad == {U \in SUBSET S : ~\E q \in SetToSeqs(U) : Sorts(q)}
<1> SUFFICES ASSUME Bad # {} PROVE FALSE
  OBVIOUS
<1>1. PICK m \in Bad : \A u \in SUBSET m : u \in Bad => u = m
  <2> Bad \in SUBSET (SUBSET S)
    OBVIOUS
  <2> HIDE DEF Bad
  <2> QED
    BY Smallest
<1>2. IsFiniteSet(m) /\ m \in SUBSET S /\ Cardinality(m) \in Nat
  BY <1>1, FS_Subset, FS_CardinalityType
<1>3. m # {}
  <2> SUFFICES ASSUME m = {} PROVE FALSE
    OBVIOUS
  <2> DEFINE q == [i \in 1..0 |-> i]
  <2>1. Cardinality(m) = 0
    BY FS_EmptySet
  <2>2. q \in SetToSeqs(m)
    <3>1. 1..0 = {}
      OBVIOUS
    <3>2. q \in [1..0 -> m] /\ \A i, j \in 1..0 : i # j => q[i] # q[j]
      BY <3>1
    <3> HIDE DEF q
    <3> QED
      BY <2>1, <3>2 DEF SetToSeqs
  <2>3. Sorts(q)
    OBVIOUS
  <2> QED
    BY <1>1, <2>2, <2>3
<1>4. PICK g \in m : \A x \in m : f[x] <= f[g]
  <2> DEFINE V == {f[x] : x \in m}
             v == Max(V)
  <2>1. IsFiniteSet(V) /\ V # {} /\ \A x \in V : x \in Int
    <3>1. IsFiniteSet(V)
      BY <1>2, ImageFinite
    <3> QED
      BY <1>2, <1>3, <3>1
  <2>2. v \in V /\ \A w \in V : v >= w
    <3> HIDE DEF V
    <3> QED
      BY <2>1, MaxIsGreatest
  <2>3. PICK x \in m : v = f[x]
    <3> HIDE DEF v
    <3> QED
      BY <2>2
  <2> HIDE DEF v
  <2>4. \A y \in m : f[y] <= f[x]
    <3> SUFFICES ASSUME NEW y \in m PROVE f[y] <= f[x]
      OBVIOUS
    <3>1. f[y] \in V /\ f[y] \in Int /\ f[x] \in Int
      BY <1>2
    <3>2. v >= f[y]
      BY <2>2, <3>1
    <3> QED
      BY <2>3, <3>1, <3>2
  <2> QED
    BY <2>4
<1> DEFINE u == m \ {g}
<1>5. u \notin Bad /\ u \in SUBSET S
  <2> HIDE DEF Bad
  <2> QED
    BY <1>1, <1>2
<1>6. PICK q \in SetToSeqs(u) : Sorts(q)
  BY <1>5
<1> DEFINE n == Cardinality(u)
<1>7. Cardinality(m) = n + 1 /\ n \in Nat
  <2>1. IsFiniteSet(u) /\ n = Cardinality(m) - 1
    BY <1>2, FS_RemoveElement
  <2>2. n \in Nat
    BY <2>1, FS_CardinalityType
  <2> QED
    BY <1>2, <2>1, <2>2
<1>8. q \in [1..n -> u] /\ \A i, j \in 1..n : i # j => q[i] # q[j]
  BY <1>6 DEF SetToSeqs
<1>9. DOMAIN q = 1..n /\ \A i, j \in 1..n : i < j => f[q[i]] <= f[q[j]]
  BY <1>6, <1>8
<1> HIDE DEF n
<1> DEFINE p == [i \in 1..(n + 1) |-> IF i = n + 1 THEN g ELSE q[i]]
<1>10. \A i \in 1..n : p[i] = q[i] /\ q[i] \in u /\ i # n + 1
  BY <1>7, <1>8
<1>11. p \in [1..(n + 1) -> m] /\ p[n + 1] = g
  <2>1. \A i \in 1..(n + 1) : i = n + 1 \/ i \in 1..n
    BY <1>7
  <2>2. \A i \in 1..(n + 1) : p[i] \in m
    BY <1>10, <2>1
  <2>3. n + 1 \in 1..(n + 1)
    BY <1>7
  <2> QED
    BY <2>2, <2>3
<1>12. DOMAIN p = 1..(n + 1) /\ \A i \in 1..(n + 1) : i = n + 1 \/ i \in 1..n
  BY <1>7
<1> HIDE DEF p
<1>13. \A i, j \in 1..(n + 1) : i # j => p[i] # p[j]
  BY <1>8, <1>10, <1>11, <1>12
<1>14. p \in SetToSeqs(m)
  BY <1>7, <1>11, <1>13 DEF SetToSeqs
<1>15. \A i, j \in 1..(n + 1) : i < j => f[p[i]] <= f[p[j]]
  <2> SUFFICES ASSUME NEW i \in 1..(n + 1), NEW j \in 1..(n + 1), i < j
               PROVE  f[p[i]] <= f[p[j]]
    OBVIOUS
  <2>1. i \in 1..n
    BY <1>7
  <2>2. CASE j = n + 1
    BY <1>4, <1>10, <1>11, <2>1, <2>2
  <2>3. CASE j \in 1..n
    BY <1>9, <1>10, <2>1, <2>3
  <2> QED
    BY <1>12, <2>2, <2>3
<1>16. Sorts(p)
  BY <1>12, <1>15
<1> QED
  BY <1>1, <1>14, <1>16

(* A list of a set's elements, each once, has them all.                      *)
LEMMA ListedAll ==
  ASSUME NEW S, IsFiniteSet(S), NEW q \in SetToSeqs(S)
  PROVE  ToSet(q) = S /\ IsInjective(q)
<1> DEFINE n == Cardinality(S)
<1>1. n \in Nat
  BY FS_CardinalityType
<1>2. q \in [1..n -> S] /\ \A i, j \in 1..n : i # j => q[i] # q[j]
  BY DEF SetToSeqs
<1>3. IsFiniteSet(1..n) /\ Cardinality(1..n) = n
  BY <1>1, FS_Interval
<1>4. IsInjective(q)
  BY <1>2 DEF IsInjective
<1>5. q \in Injection(1..n, S)
  BY <1>2, <1>4 DEF Injection
<1> HIDE DEF n
<1>6. q \in Surjection(1..n, S)
  BY <1>3, <1>5, FS_Injection DEF n
<1>7. ToSet(q) = S
  BY <1>2, <1>6 DEF Surjection, ToSet
<1> QED
  BY <1>4, <1>7
-----------------------------------------------------------------------------
(* The imbalance is a hundred percents exactly when the least busy did       *)
(* nothing, and never more.                                                  *)
LEMMA HundredPercents ==
  \A most \in Nat \ {0} : \A least \in 0..most :
    /\ (100 * (most - least)) \div most \in 0..100
    /\ (100 * (most - least)) \div most = 100 <=> least = 0
<1> SUFFICES ASSUME NEW most \in Nat \ {0}, NEW least \in 0..most
             PROVE  /\ (100 * (most - least)) \div most \in 0..100
                    /\ (100 * (most - least)) \div most = 100 <=> least = 0
  OBVIOUS
<1> DEFINE a == 100 * (most - least)
           q == a \div most
<1>1. a \in Nat /\ a = (100 * most) - (100 * least)
  OBVIOUS
<1>2. q \in Nat /\ a % most \in 0..(most - 1) /\ a = (most * q) + (a % most)
  <2>1. a \in Nat
    BY <1>1
  <2> HIDE DEF a
  <2> QED
    BY <2>1, DivMod, Zenon
<1> DEFINE z == a % most
<1> HIDE DEF q, z
<1>3. z \in 0..(most - 1) /\ (most * q) + z = (100 * most) - (100 * least)
  BY <1>1, <1>2 DEF z
<1> HIDE DEF a
<1>4. most * q <= most * 100
  BY <1>2, <1>3
<1>5. q <= 100
  <2>1. ASSUME q >= 101 PROVE FALSE
    <3>1. most * q >= most * 101
      BY <1>2, <2>1, SMT
    <3> QED
      BY <1>2, <1>4, <3>1
  <2> QED
    BY <1>2, <2>1
<1>6. ASSUME q = 100 PROVE least = 0
  <2>1. (most * 100) + z = (100 * most) - (100 * least)
    BY <1>3, <1>6
  <2> QED
    BY <1>3, <2>1
<1>7. ASSUME least = 0 PROVE q = 100
  <2>1. a = (most * 100) + 0 /\ 0 \in 0..(most - 1)
    BY <1>1, <1>7
  <2>2. a \div most = 100
    BY <2>1, DivModUnique
  <2> QED
    BY <2>2 DEF q
<1> QED
  BY <1>2, <1>5, <1>6, <1>7 DEF q, a

(* What the devices of a run say of a metric.                                *)
LEMMA ReportedAre ==
  ASSUME AnalysisTypeOK, NEW r \in DOMAIN stored, NEW key \in BalanceMetrics
  PROVE  LET d == stored[r].devices IN
         /\ DOMAIN d = 1..Len(d) /\ Len(d) \in Nat
         /\ \A i \in DOMAIN d : d[i][key] \in Nat \cup {Unmeasured}
         /\ IsFiniteSet(Reported(r, key)) /\ Reported(r, key) \subseteq Nat
         /\ Reported(r, key) = {d[i][key] : i \in Reporting(r, key)}
         /\ IsFiniteSet(Reporting(r, key))
<1> DEFINE d == stored[r].devices
           f == [i \in DOMAIN d |-> d[i][key]]
           V == {f[i] : i \in DOMAIN d}
<1>1. d \in Seq([BalanceMetrics -> Nat \cup {Unmeasured}])
  BY DEF AnalysisTypeOK, RunRow
<1>2. DOMAIN d = 1..Len(d) /\ Len(d) \in Nat
  BY <1>1
<1>3. \A i \in DOMAIN d : d[i] \in [BalanceMetrics -> Nat \cup {Unmeasured}]
  BY <1>1
<1>4. \A i \in DOMAIN d : d[i][key] \in Nat \cup {Unmeasured}
  BY <1>3
<1>5. IsFiniteSet(DOMAIN d)
  <2>1. IsFiniteSet(1..Len(d))
    BY <1>2, FS_Interval
  <2> QED
    BY <1>2, <2>1, Zenon
<1>6. IsFiniteSet(V)
  <2> HIDE DEF f, d
  <2> QED
    BY <1>5, ImageFinite
<1>7. Reported(r, key) = V \ {Unmeasured}
  <2>1. V = {d[i][key] : i \in DOMAIN d}
    OBVIOUS
  <2>2. {d[i][key] : i \in DOMAIN d} = {x[key] : x \in {d[i] : i \in DOMAIN d}}
    <3> HIDE DEF d
    <3> QED
      OBVIOUS
  <2>3. V = {x[key] : x \in ToSet(d)}
    <3> HIDE DEF V, d
    <3> QED
      BY <2>1, <2>2, Zenon DEF ToSet
  <2> QED
    BY <2>3, Zenon DEF Reported
<1>8. IsFiniteSet(Reported(r, key))
  <2> HIDE DEF V
  <2> QED
    BY <1>6, <1>7, FS_Subset
<1>9. Reported(r, key) \subseteq Nat
  BY <1>4, <1>7
<1>10. Reported(r, key) = {d[i][key] : i \in Reporting(r, key)}
  BY <1>7 DEF Reporting
<1>11. IsFiniteSet(Reporting(r, key))
  <2>1. Reporting(r, key) \in SUBSET DOMAIN d
    BY DEF Reporting
  <2> HIDE DEF d
  <2> QED
    BY <1>5, <2>1, FS_Subset
<1> QED
  BY <1>2, <1>4, <1>8, <1>9, <1>10, <1>11

LEMMA LeastIs ==
  ASSUME NEW S, IsFiniteSet(S), S \subseteq Nat, S # {}
  PROVE  Min(S) \in S /\ \A y \in S : Min(S) <= y
<1>1. S \subseteq Int
  OBVIOUS
<1>2. \E x \in S : \A y \in S : x <= y
  BY <1>1, MinIsLeast
<1> QED
  BY <1>2, Zenon DEF Min

LEMMA ImbalanceIs ==
  ASSUME AnalysisTypeOK, NEW r \in DOMAIN stored, NEW key \in BalanceMetrics,
         Cardinality(Reporting(r, key)) >= 2, Max(Reported(r, key)) > 0
  PROVE  LET most == Max(Reported(r, key))
             least == Min(Reported(r, key)) IN
         /\ most \in Reported(r, key) /\ most \in Nat \ {0}
         /\ least \in Reported(r, key) /\ least \in 0..most
         /\ \A v \in Reported(r, key) : v \in Nat /\ least <= v /\ v <= most
<1> DEFINE R == Reported(r, key)
<1>1. /\ IsFiniteSet(R) /\ R \subseteq Nat
      /\ R = {stored[r].devices[i][key] : i \in Reporting(r, key)}
  BY ReportedAre
<1>2. R # {}
  <2>1. Reporting(r, key) # {}
    <3>1. Cardinality({}) = 0
      BY FS_EmptySet
    <3> QED
      BY <3>1
  <2> QED
    BY <1>1, <2>1
<1> DEFINE most == Max(R)
           least == Min(R)
<1>3. most \in R /\ \A v \in R : most >= v
  <2>1. IsFiniteSet(R) /\ \A v \in R : v \in Int
    BY <1>1
  <2> HIDE DEF R
  <2> QED
    BY <1>2, <2>1, MaxIsGreatest
<1>4. least \in R /\ \A v \in R : least <= v
  <2> HIDE DEF R
  <2> QED
    BY <1>1, <1>2, LeastIs
<1>5. most > 0
  OBVIOUS
<1> HIDE DEF most, least, R
<1>6. most \in Nat \ {0} /\ least \in 0..most /\ \A v \in R : v \in Nat /\ least <= v /\ v <= most
  BY <1>1, <1>3, <1>4, <1>5
<1> QED
  BY <1>3, <1>4, <1>6 DEF most, least, R

(* An imbalance of a hundred percents is an idle device beside a busy one.   *)
LEMMA IdledShows ==
  ASSUME AnalysisTypeOK, NEW r \in DOMAIN stored
  PROVE  /\ Imbalances(r) \subseteq 0..100
         /\ Idled(r) <=> 100 \in Imbalances(r)
<1> DEFINE d == stored[r].devices
           Keys == {k \in BalanceMetrics : Cardinality(Reporting(r, k)) >= 2 /\ Max(Reported(r, k)) > 0}
           Percents(k) == (100 * (Max(Reported(r, k)) - Min(Reported(r, k)))) \div Max(Reported(r, k))
<1>1. Imbalances(r) = {Percents(k) : k \in Keys}
  BY Zenon DEF Imbalances
<1>2. ASSUME NEW k \in Keys
      PROVE  Percents(k) \in 0..100 /\ (Percents(k) = 100 <=> Min(Reported(r, k)) = 0)
  <2> DEFINE most == Max(Reported(r, k))
             least == Min(Reported(r, k))
  <2>1. most \in Nat \ {0} /\ least \in 0..most
    BY ImbalanceIs
  <2> HIDE DEF most, least
  <2>2. /\ (100 * (most - least)) \div most \in 0..100
        /\ (100 * (most - least)) \div most = 100 <=> least = 0
    BY <2>1, HundredPercents
  <2> QED
    BY <2>2 DEF most, least
<1>3. ASSUME 100 \in Imbalances(r) PROVE Idled(r)
  <2>1. PICK k \in Keys : Percents(k) = 100
    BY <1>1, <1>3, Zenon
  <2> DEFINE most == Max(Reported(r, k))
             least == Min(Reported(r, k))
  <2>2. least = 0 /\ least \in Reported(r, k) /\ most \in Reported(r, k) /\ most \in Nat \ {0}
    BY <1>2, <2>1, ImbalanceIs
  <2> HIDE DEF most, least, Keys, Percents
  <2>3. PICK x \in ToSet(d) : x[k] = 0
    BY <2>2 DEF Reported
  <2>4. PICK y \in ToSet(d) : y[k] = most
    BY <2>2 DEF Reported
  <2>5. k \in BalanceMetrics /\ most > 0
    BY <2>2 DEF Keys
  <2> QED
    BY <2>3, <2>4, <2>5 DEF Idled
<1>4. ASSUME Idled(r) PROVE 100 \in Imbalances(r)
  <2>1. PICK k \in BalanceMetrics : \E x, y \in ToSet(d) : x[k] = 0 /\ y[k] > 0
    BY <1>4 DEF Idled
  <2>2. PICK x \in ToSet(d), y \in ToSet(d) : x[k] = 0 /\ y[k] > 0
    BY <2>1
  <2>3. PICK i \in DOMAIN d : x = d[i]
    BY DEF ToSet
  <2>4. PICK j \in DOMAIN d : y = d[j]
    BY DEF ToSet
  <2>5. d[i][k] = 0 /\ d[j][k] > 0 /\ i # j
    BY <2>2, <2>3, <2>4
  <2>6. /\ d[j][k] \in Nat \cup {Unmeasured}
        /\ IsFiniteSet(Reporting(r, k)) /\ IsFiniteSet(Reported(r, k)) /\ Reported(r, k) \subseteq Nat
        /\ Reported(r, k) = {d[n][k] : n \in Reporting(r, k)}
    BY ReportedAre
  <2> HIDE DEF d
  <2>7. i \in Reporting(r, k) /\ j \in Reporting(r, k)
    BY <2>5, <2>6 DEF Reporting, Unmeasured, d
  <2>8. Cardinality(Reporting(r, k)) >= 2
    <3>1. {i, j} \in SUBSET Reporting(r, k)
      BY <2>7
    <3>2. Cardinality({i, j}) <= Cardinality(Reporting(r, k)) /\ IsFiniteSet({i, j})
      BY <2>6, <3>1, FS_Subset
    <3>3. Cardinality({i, j}) = 2
      <4>1. IsFiniteSet({i}) /\ Cardinality({i}) = 1
        BY FS_Singleton
      <4>2. Cardinality({i} \cup {j}) = 1 + 1
        <5> DEFINE one == {i}
        <5>1. j \notin one
          BY <2>5
        <5>2. IsFiniteSet(one) /\ Cardinality(one) = 1
          BY <4>1
        <5> HIDE DEF one
        <5>3. Cardinality(one \cup {j}) = Cardinality(one) + 1
          BY <5>1, <5>2, FS_AddElement, Zenon
        <5>4. Cardinality(one \cup {j}) = 1 + 1
          BY <5>2, <5>3, Zenon
        <5> QED
          BY <5>4, Zenon DEF one
      <4>3. {i, j} = {i} \cup {j}
        OBVIOUS
      <4>4. Cardinality({i, j}) = 1 + 1
        BY <4>2, <4>3, Zenon
      <4> QED
        BY <4>4
    <3>4. Cardinality(Reporting(r, k)) \in Nat
      BY <2>6, FS_CardinalityType
    <3> QED
      BY <3>2, <3>3, <3>4
  <2>9. 0 \in Reported(r, k) /\ d[j][k] \in Reported(r, k)
    BY <2>5, <2>6, <2>7
  <2>10. Max(Reported(r, k)) > 0
    <3> DEFINE R == Reported(r, k)
               v == d[j][k]
    <3>1. IsFiniteSet(R) /\ R # {} /\ \A x2 \in R : x2 \in Int
      BY <2>6, <2>9
    <3> HIDE DEF R
    <3>2. Max(R) \in R /\ \A x2 \in R : Max(R) >= x2
      BY <3>1, MaxIsGreatest
    <3>3. v \in R /\ v > 0
      BY <2>5, <2>9 DEF R
    <3> HIDE DEF v
    <3>4. Max(R) \in Int /\ v \in Int /\ Max(R) >= v
      BY <3>1, <3>2, <3>3
    <3>5. Max(R) > 0
      BY <3>3, <3>4
    <3> QED
      BY <3>5 DEF R
  <2>11. k \in Keys
    BY <2>8, <2>10
  <2>12. Min(Reported(r, k)) = 0
    <3> DEFINE least == Min(Reported(r, k))
    <3>1. least \in Reported(r, k) /\ least <= 0
      BY <2>8, <2>9, <2>10, ImbalanceIs
    <3> HIDE DEF least
    <3>2. least \in Nat
      BY <2>6, <3>1
    <3>3. least = 0
      BY <3>1, <3>2
    <3> QED
      BY <3>3 DEF least
  <2> HIDE DEF Keys
  <2>13. Percents(k) = 100
    <3> HIDE DEF Percents
    <3> QED
      BY <1>2, <2>11, <2>12
  <2> HIDE DEF Percents
  <2> QED
    BY <1>1, <2>11, <2>13
<1>5. Imbalances(r) \subseteq 0..100
  <2> HIDE DEF Keys, Percents
  <2> QED
    BY <1>1, <1>2
<1> QED
  BY <1>3, <1>4, <1>5

LEMMA KeyOfIdled ==
  ASSUME AnalysisTypeOK, NEW r \in DOMAIN stored
  PROVE  /\ SortKey(r) \in Int
         /\ Idled(r) => SortKey(r) = -100
         /\ ~Idled(r) => SortKey(r) > -100
<1> DEFINE I == Imbalances(r)
           most == Max(I)
<1>1. I \subseteq 0..100 /\ (Idled(r) <=> 100 \in I)
  BY IdledShows
<1>2. CASE I \subseteq {0}
  <2>1. ~Idled(r)
    <3> HIDE DEF I
    <3> QED
      BY <1>1, <1>2
  <2>2. SortKey(r) = 1
    BY <1>2 DEF SortKey
  <2> QED
    BY <2>1, <2>2
<1>3. CASE ~(I \subseteq {0})
  <2>1. SortKey(r) = -most
    BY <1>3 DEF SortKey
  <2>2. IsFiniteSet(I) /\ I # {} /\ \A v \in I : v \in Int
    <3>1. IsFiniteSet(0..100)
      <4> DEFINE a == 0
                 b == 100
      <4>1. a \in Int /\ b \in Int
        OBVIOUS
      <4> HIDE DEF a, b
      <4>2. IsFiniteSet(a..b)
        BY <4>1, FS_Interval
      <4> QED
        BY <4>2 DEF a, b
    <3>2. I \in SUBSET (0..100)
      BY <1>1
    <3> HIDE DEF I
    <3>3. IsFiniteSet(I)
      BY <3>1, <3>2, FS_Subset
    <3> QED
      BY <1>3, <3>2, <3>3
  <2>3. most \in I /\ \A v \in I : most >= v
    <3> HIDE DEF I
    <3> QED
      BY <2>2, MaxIsGreatest
  <2> HIDE DEF I, most
  <2>4. most \in 0..100
    BY <1>1, <2>3
  <2>5. Idled(r) => most = 100
    BY <1>1, <2>3, <2>4
  <2>6. ~Idled(r) => most # 100
    BY <1>1, <2>3
  <2> QED
    BY <2>1, <2>4, <2>5, <2>6
<1> QED
  BY <1>2, <1>3

(* The balance of a group lists its sampled runs, each once, and those with  *)
(* an idle device first.                                                     *)
LEMMA BalancesAre ==
  ASSUME AnalysisTypeOK, NEW R \in SUBSET DOMAIN stored
  PROVE  LET q == Balances(R) IN
         /\ ToSet(q) = {r \in R : stored[r].devices # <<>>} /\ IsInjective(q)
         /\ \A i, j \in DOMAIN q : Idled(q[j]) /\ ~Idled(q[i]) => j < i
<1> DEFINE S == {r \in R : stored[r].devices # <<>>}
           f == [r \in S |-> SortKey(r)]
           q == Balances(R)
<1>1. S \in SUBSET DOMAIN stored /\ IsFiniteSet(S)
  BY FS_Subset DEF AnalysisTypeOK
<1>2. \A s \in S : f[s] \in Int
  BY <1>1, KeyOfIdled
<1>3. PICK p \in SetToSeqs(S) : \A i, j \in DOMAIN p : i < j => f[p[i]] <= f[p[j]]
  <2> HIDE DEF S, f
  <2> QED
    BY <1>1, <1>2, SortedExists
<1>4. ToSet(p) = S
  <2> HIDE DEF S
  <2> QED
    BY <1>1, ListedAll
<1>5. \A i, j \in DOMAIN p : i < j => SortKey(p[i]) <= SortKey(p[j])
  <2>1. \A i \in DOMAIN p : p[i] \in S
    BY <1>4 DEF ToSet
  <2>2. \A i \in DOMAIN p : f[p[i]] = SortKey(p[i])
    BY <2>1
  <2> HIDE DEF f
  <2> QED
    BY <1>3, <2>2
<1>6. q \in SetToSeqs(S) /\ \A i, j \in DOMAIN q : i < j => SortKey(q[i]) <= SortKey(q[j])
  BY <1>3, <1>5, Zenon DEF Balances
<1> HIDE DEF q
<1>7. ToSet(q) = S /\ IsInjective(q)
  <2> HIDE DEF S
  <2> QED
    BY <1>1, <1>6, ListedAll
<1>8. q \in [1..Cardinality(S) -> S] /\ Cardinality(S) \in Nat
  <2>1. Cardinality(S) \in Nat
    <3> HIDE DEF S
    <3> QED
      BY <1>1, FS_CardinalityType
  <2> QED
    BY <1>6, <2>1 DEF SetToSeqs
<1>9. \A i, j \in DOMAIN q : Idled(q[j]) /\ ~Idled(q[i]) => j < i
  <2> SUFFICES ASSUME NEW i \in DOMAIN q, NEW j \in DOMAIN q, Idled(q[j]), ~Idled(q[i])
               PROVE  j < i
    OBVIOUS
  <2>1. q[i] \in DOMAIN stored /\ q[j] \in DOMAIN stored /\ i \in Nat /\ j \in Nat
    BY <1>1, <1>8
  <2>2. SortKey(q[i]) \in Int /\ SortKey(q[i]) > -100
    BY <2>1, KeyOfIdled
  <2>3. SortKey(q[j]) = -100
    BY <2>1, KeyOfIdled
  <2>4. i # j
    OBVIOUS
  <2>5. ~(i < j)
    BY <1>6, <2>2, <2>3
  <2> QED
    BY <2>1, <2>4, <2>5
<1> QED
  BY <1>7, <1>9 DEF q

(* An answer accounts once for every run of its population: among those it   *)
(* shows, those it says it left out, or those older than its limit; and the  *)
(* balances have every sampled run it shows, idle devices first.             *)
THEOREM ChartsAccountOnce == AnalysisSpec => []AccountedOnce
<1>1. AnalysisInv => AccountedOnce
  <2> SUFFICES ASSUME AnalysisInv, Answered PROVE AccountedOnce
    BY DEF AccountedOnce
  <2> DEFINE shown == view.shown
  <2>1. AnalysisTypeOK /\ shown \in SUBSET DOMAIN stored
    BY DEF AnalysisInv, AnalysisTypeOK
  <2>2. \A m \in Machines(shown) : On(m, shown) \in SUBSET DOMAIN stored
    BY <2>1 DEF On
  <2>3. \A m \in Machines(shown) :
          LET q == Balances(On(m, shown)) IN
          /\ ToSet(q) = {r \in On(m, shown) : stored[r].devices # <<>>} /\ IsInjective(q)
          /\ \A i, j \in DOMAIN q : Idled(q[j]) /\ ~Idled(q[i]) => j < i
    <3> HIDE DEF shown
    <3> QED
      BY <2>1, <2>2, BalancesAre
  <2>4. UNION {ToSet(Balances(On(m, shown))) : m \in Machines(shown)}
          = shown \ WithoutTelemetry(shown)
    <3>1. {ToSet(Balances(On(m, shown))) : m \in Machines(shown)}
            = {{r \in On(m, shown) : stored[r].devices # <<>>} : m \in Machines(shown)}
      BY <2>3
    <3>2. UNION {{r \in On(m, shown) : stored[r].devices # <<>>} : m \in Machines(shown)}
            = shown \ WithoutTelemetry(shown)
      BY DEF On, Machines, WithoutTelemetry
    <3> QED
      BY <3>1, <3>2, Zenon
  <2>5. LET left == view.left
            missing == view.ended \ (view.shown \cup UNION {left[s] : s \in Excluded}) IN
        /\ \A s, t \in Excluded : s # t => left[s] \cap left[t] = {}
        /\ \A s \in Excluded : view.shown \cap left[s] = {}
        /\ ~Truncated(view) => missing = {}
        /\ \A q \in missing, r \in view.shown : stored[q].finished < stored[r].finished
    BY CountsAddUp
  <2> QED
    BY <2>3, <2>4, <2>5, Zenon DEF AccountedOnce
<1> QED
  BY <1>1, AnalysisInvariant, PTL
-----------------------------------------------------------------------------
(* The figures of a point are numbers.                                       *)
LEMMA MedianIsNumber ==
  ASSUME NEW point, IsFiniteSet(point), NEW f, \A r \in point : f[r] \in Nat \cup {Unmeasured}
  PROVE  Value(point, f) \in Nat \cup {Unmeasured}
<1> DEFINE K == {r \in point : f[r] # Unmeasured}
           n == Cardinality(K)
           lower == (n + 1) \div 2
           upper == (n \div 2) + 1
<1>1. IsFiniteSet(K) /\ \A k \in K : f[k] \in Nat
  BY FS_Subset
<1>2. n \in Nat
  BY <1>1, FS_CardinalityType
<1>3. CASE n = 0
  BY <1>3 DEF Value, Unmeasured
<1>4. CASE n # 0
  <2>1. lower \in 1..n /\ upper \in 1..n
    <3> HIDE DEF n
    <3> QED
      BY <1>2, <1>4
  <2>2. \A i \in 1..n : Nth(K, f, i) \in Nat
    <3> SUFFICES ASSUME NEW i \in 1..n PROVE Nth(K, f, i) \in Nat
      OBVIOUS
    <3>0. \A k \in K : f[k] \in Int
      BY <1>1
    <3> HIDE DEF K
    <3>1. Nth(K, f, i) \in {f[k] : k \in K}
      BY <1>1, <3>0, NthIsOne
    <3> QED
      BY <1>1, <3>1
  <2>3. Value(point, f) = Nth(K, f, lower) + Nth(K, f, upper)
    BY <1>4 DEF Value
  <2> HIDE DEF K, n, lower, upper
  <2>4. Nth(K, f, lower) \in Nat /\ Nth(K, f, upper) \in Nat
    BY <2>1, <2>2
  <2> QED
    BY <2>3, <2>4
<1> QED
  BY <1>3, <1>4

LEMMA FiguresAreNumbers ==
  ASSUME AnalysisTypeOK, NEW p \in SUBSET DOMAIN stored 
  PROVE X(p) \in Nat \cup {Unmeasured} /\ Y(p) \in Nat \cup {Unmeasured}
<1>1. IsFiniteSet(p)
  BY FS_Subset DEF AnalysisTypeOK
<1>2. \A r \in p : PerGpu[r] \in Nat \cup {Unmeasured}
  BY DEF AnalysisTypeOK, RunRow, PerGpu
<1>3. \A r \in p : PerUser[r] \in Nat \cup {Unmeasured}
  <2> SUFFICES ASSUME NEW r \in p PROVE PerUser[r] \in Nat \cup {Unmeasured}
    OBVIOUS
  <2> DEFINE t == stored[r].tpot
  <2>1. t \in Nat
    BY DEF AnalysisTypeOK, RunRow
  <2>2. PerUser[r] = IF t > 0 THEN 1000 \div t ELSE Unmeasured
    BY DEF PerUser
  <2> HIDE DEF t
  <2>3. t > 0 => 1000 \div t \in Nat
    BY <2>1, DivMod
  <2> QED
    BY <2>2, <2>3
<1>4. X(p) \in Nat \cup {Unmeasured}
  <2> DEFINE f == PerGpu
  <2>1. \A r \in p : f[r] \in Nat \cup {Unmeasured}
    BY <1>2
  <2> HIDE DEF f
  <2>2. Value(p, f) \in Nat \cup {Unmeasured}
    BY <1>1, <2>1, MedianIsNumber
  <2> QED
    BY <2>2 DEF X, f
<1>5. Y(p) \in Nat \cup {Unmeasured}
  <2> DEFINE f == PerUser
  <2>1. \A r \in p : f[r] \in Nat \cup {Unmeasured}
    BY <1>3
  <2> HIDE DEF f
  <2>2. Value(p, f) \in Nat \cup {Unmeasured}
    BY <1>1, <2>1, MedianIsNumber
  <2> QED
    BY <2>2 DEF Y, f
<1> QED
  BY <1>4, <1>5

LEMMA PointsAre ==
  ASSUME AnalysisTypeOK, NEW R \in SUBSET DOMAIN stored
  PROVE  IsFiniteSet(PointsOf(R)) /\ \A p \in PointsOf(R) : p \in SUBSET DOMAIN stored
<1> DEFINE f == [r \in R |-> {q \in R : PointId(q) = PointId(r)}]
<1>1. IsFiniteSet(R)
  BY FS_Subset DEF AnalysisTypeOK
<1>2. PointsOf(R) = {f[r] : r \in R}
  BY DEF PointsOf
<1>3. \A r \in R : f[r] \in SUBSET DOMAIN stored
  OBVIOUS
<1> HIDE DEF f
<1> QED
  BY <1>1, <1>2, <1>3, ImageFinite

(* A point off the frontier is beaten by one on it: of those that beat it,   *)
(* take one with the greatest sum of the figures.                            *)
LEMMA FrontierIs ==
  ASSUME NEW points, IsFiniteSet(points), \A p \in points : X(p) \in Int /\ Y(p) \in Int
  PROVE  /\ \A p \in Usable(points) \ Frontier(points) : \E q \in Frontier(points) : Dominates(q, p)
         /\ \A p \in Frontier(points), q \in Usable(points) :
              X(p) = X(q) /\ Y(p) = Y(q) => q \in Frontier(points)
<1> DEFINE U == Usable(points)
<1>1. IsFiniteSet(U) /\ U \subseteq points
  BY FS_Subset DEF Usable
<1>2. \A p \in U : X(p) \in Int /\ Y(p) \in Int
  BY <1>1
<1> HIDE DEF U
<1>3. \A p, q, o \in U : Dominates(o, q) /\ Dominates(q, p) =>
                           Dominates(o, p) /\ X(o) + Y(o) > X(q) + Y(q)
  BY <1>2 DEF Dominates
<1>4. ASSUME NEW p \in U, p \notin Frontier(points)
      PROVE  \E q \in Frontier(points) : Dominates(q, p)
  <2> DEFINE D == {q \in U : Dominates(q, p)}
             g == [q \in U |-> X(q) + Y(q)]
             V == {g[q] : q \in D}
  <2>1. D # {}
    BY <1>4 DEF Frontier, U
  <2>2. IsFiniteSet(V) /\ V # {} /\ \A v \in V : v \in Int
    <3>1. IsFiniteSet(D)
      BY <1>1, FS_Subset
    <3>2. \A v \in V : v \in Int
      BY <1>2
    <3>3. V # {}
      BY <2>1
    <3>4. IsFiniteSet(V)
      <4> HIDE DEF D, g
      <4> QED
        BY <3>1, ImageFinite
    <3> QED
      BY <3>2, <3>3, <3>4
  <2>3. Max(V) \in V /\ \A v \in V : Max(V) >= v
    <3> HIDE DEF V
    <3> QED
      BY <2>2, MaxIsGreatest
  <2>4. PICK q \in D : Max(V) = g[q]
    BY <2>3
  <2>5. ASSUME NEW o \in U, Dominates(o, q) PROVE FALSE
    <3>1. Dominates(o, p) /\ X(o) + Y(o) > X(q) + Y(q)
      BY <1>3, <2>5
    <3>2. g[o] \in V /\ g[o] = X(o) + Y(o) /\ g[q] = X(q) + Y(q)
      BY <3>1
    <3>3. g[q] >= g[o]
      <4> HIDE DEF V, g
      <4> QED
        BY <2>3, <2>4, <3>2
    <3>4. X(o) \in Int /\ Y(o) \in Int /\ X(q) \in Int /\ Y(q) \in Int
      BY <1>2
    <3> HIDE DEF g
    <3> QED
      BY <3>1, <3>2, <3>3, <3>4
  <2>6. q \in Frontier(points) /\ Dominates(q, p)
    BY <2>5 DEF Frontier, U
  <2> QED
    BY <2>6
<1>5. ASSUME NEW p \in Frontier(points), NEW q \in U, X(p) = X(q), Y(p) = Y(q)
      PROVE  q \in Frontier(points)
  <2>1. \A o \in U : ~Dominates(o, p)
    BY DEF Frontier, U
  <2>2. \A o \in U : ~Dominates(o, q)
    BY <1>5, <2>1 DEF Dominates
  <2> QED
    BY <2>2 DEF Frontier, U
<1> QED
  BY <1>4, <1>5 DEF U

(* On no chart is a point left off the frontier that none of it beats.       *)
THEOREM FrontiersCover == AnalysisSpec => []FrontierCovers
<1>1. AnalysisInv => FrontierCovers
  <2> SUFFICES ASSUME AnalysisInv, NEW m \in Machines(view.shown)
               PROVE  LET points == PointsOf(On(m, view.shown)) IN
                      /\ \A p \in Usable(points) \ Frontier(points) :
                           \E q \in Frontier(points) : Dominates(q, p)
                      /\ \A p \in Frontier(points), q \in Usable(points) :
                           X(p) = X(q) /\ Y(p) = Y(q) => q \in Frontier(points)
    BY Zenon DEF FrontierCovers
  <2> DEFINE R == On(m, view.shown)
             points == PointsOf(R)
  <2>1. AnalysisTypeOK /\ R \in SUBSET DOMAIN stored
    BY DEF AnalysisInv, AnalysisTypeOK, On
  <2> HIDE DEF R
  <2>2. IsFiniteSet(points) /\ \A p \in points : p \in SUBSET DOMAIN stored
    BY <2>1, PointsAre
  <2> HIDE DEF points
  <2>3. \A p \in points : X(p) \in Int /\ Y(p) \in Int
    BY <2>1, <2>2, FiguresAreNumbers DEF Unmeasured
  <2>4. /\ \A p \in Usable(points) \ Frontier(points) : \E q \in Frontier(points) : Dominates(q, p)
        /\ \A p \in Frontier(points), q \in Usable(points) :
             X(p) = X(q) /\ Y(p) = Y(q) => q \in Frontier(points)
    BY <2>2, <2>3, FrontierIs
  <2> QED
    BY <2>4 DEF points, R
<1> QED
  BY <1>1, AnalysisInvariant, PTL
-----------------------------------------------------------------------------
(* Two values of a fact are more than one, and more than one are two.        *)
LEMMA MoreThanOne ==
  ASSUME NEW S, IsFiniteSet(S)
  PROVE  Cardinality(S) > 1 <=> \E x, y \in S : x # y
<1>1. Cardinality(S) \in Nat
  BY FS_CardinalityType
<1>2. ASSUME NEW x \in S, NEW y \in S, x # y PROVE Cardinality(S) > 1
  <2>1. S # {} /\ ~\E z : S = {z}
    BY <1>2
  <2>2. Cardinality(S) # 0 /\ Cardinality(S) # 1
    BY <2>1, FS_EmptySet, FS_Singleton
  <2> QED
    BY <1>1, <2>2
<1>3. ASSUME ~\E x, y \in S : x # y PROVE ~(Cardinality(S) > 1)
  <2>1. CASE S = {}
    <3>1. Cardinality(S) = 0
      BY <2>1, FS_EmptySet
    <3> QED
      BY <3>1
  <2>2. CASE S # {}
    <3>1. \E z : S = {z}
      BY <1>3, <2>2
    <3>2. Cardinality(S) = 1
      BY <3>1, FS_Singleton
    <3> QED
      BY <3>2
  <2> QED
    BY <2>1, <2>2
<1> QED
  BY <1>2, <1>3

LEMMA StatesAre ==
  ASSUME NEW R, IsFiniteSet(R), NEW fact
  PROVE  /\ IsFiniteSet(StatesOf(R, fact))
         /\ Cardinality(StatesOf(R, fact)) > 1 <=> \E r, q \in R : Differ(r, q, fact)
         /\ Mixed(R, fact) <=>
              \E r, q \in R : /\ Differ(r, q, fact)
                              /\ stored[r][fact] # Unasked /\ stored[q][fact] # Unasked
<1> DEFINE f == [r \in R |-> stored[r][fact]]
           S == StatesOf(R, fact)
<1>1. S = {f[r] : r \in R}
  BY DEF StatesOf
<1>2. IsFiniteSet(S)
  <2> HIDE DEF f, S
  <2> QED
    BY <1>1, ImageFinite
<1>3. IsFiniteSet(S \ {Unasked})
  <2> HIDE DEF S
  <2> QED
    BY <1>2, FS_Subset
<1>4. Cardinality(S) > 1 <=> \E x, y \in S : x # y
  <2> HIDE DEF S
  <2> QED
    BY <1>2, MoreThanOne
<1>5. Cardinality(S \ {Unasked}) > 1 <=> \E x, y \in S \ {Unasked} : x # y
  <2> HIDE DEF S
  <2> QED
    BY <1>3, MoreThanOne
<1>6. (\E x, y \in S : x # y) <=> \E r, q \in R : Differ(r, q, fact)
  BY Zenon DEF StatesOf, Differ
<1>7. (\E x, y \in S \ {Unasked} : x # y) <=>
        \E r, q \in R : /\ Differ(r, q, fact)
                        /\ stored[r][fact] # Unasked /\ stored[q][fact] # Unasked
  BY Zenon DEF StatesOf, Differ
<1>8. Mixed(R, fact) <=> Cardinality(S \ {Unasked}) > 1
  BY DEF Mixed
<1> HIDE DEF S
<1>9. /\ Cardinality(S) > 1 <=> \E r, q \in R : Differ(r, q, fact)
      /\ Mixed(R, fact) <=>
           \E r, q \in R : /\ Differ(r, q, fact)
                           /\ stored[r][fact] # Unasked /\ stored[q][fact] # Unasked
  BY <1>4, <1>5, <1>6, <1>7, <1>8, Zenon
<1> QED
  BY <1>2, <1>9, Zenon DEF S

(* What differs within a group has its warning, and a warning a difference.  *)
LEMMA WarningsAre ==
  ASSUME NEW R, IsFiniteSet(R), NEW fact \in Warnable
  PROVE  /\ \A r, q \in R :
              /\ Differ(r, q, fact)
              /\ fact = "speculation" \/ (Known(r, fact) /\ Known(q, fact))
              => fact \in GroupWarnings(R)
         /\ fact \in GroupWarnings(R) => \E r, q \in R : Differ(r, q, fact)
<1>1. /\ Cardinality(StatesOf(R, fact)) > 1 <=> \E r, q \in R : Differ(r, q, fact)
      /\ Mixed(R, fact) <=>
           \E r, q \in R : /\ Differ(r, q, fact)
                           /\ stored[r][fact] # Unasked /\ stored[q][fact] # Unasked
  BY StatesAre
<1>2. CASE fact \in {"driver", "cuda", "env"}
  <2>1. fact \in GroupWarnings(R) <=> Mixed(R, fact)
    BY <1>2 DEF GroupWarnings, EngineEnvWarning
  <2> QED
    BY <1>1, <1>2, <2>1 DEF Known
<1>3. CASE fact = "speculation"
  <2>1. fact \in GroupWarnings(R) <=> Cardinality(StatesOf(R, fact)) > 1
    BY <1>3 DEF GroupWarnings, SpeculationWarning
  <2> QED
    BY <1>1, <2>1, Zenon
<1>4. CASE fact = "peer"
  <2>1. fact \in GroupWarnings(R) <=>
          Cardinality(StatesOf(R, fact)) > 1 /\ StatesOf(R, fact) \ {Unasked, NotReported} # {}
    BY <1>4 DEF GroupWarnings, PeerAccessWarning
  <2>2. \A r \in R : Known(r, fact) => stored[r][fact] \in StatesOf(R, fact) \ {Unasked, NotReported}
    BY DEF StatesOf, Known
  <2> QED
    BY <1>1, <1>4, <2>1, <2>2
<1> QED
  BY <1>2, <1>3, <1>4 DEF Warnable

(* The head of a point, and the side of a comparison.                        *)
LEMMA HeadIsIn ==
  ASSUME AnalysisTypeOK, NEW p \in SUBSET DOMAIN stored, p # {} PROVE HeadOf(p) \in p
<1> DEFINE f == [r \in p |-> stored[r].finished]
           V == {f[r] : r \in p}
<1>1. IsFiniteSet(p)
  BY FS_Subset DEF AnalysisTypeOK
<1>2. IsFiniteSet(V) /\ V # {} /\ V \subseteq Int
  <2>1. V # {} /\ \A r \in p : f[r] \in Int
    BY DEF AnalysisTypeOK, RunRow
  <2> HIDE DEF f
  <2> QED
    BY <1>1, <2>1, ImageFinite
<1>3. PICK v \in V : \A w \in V : v <= w
  <2> HIDE DEF V
  <2> QED
    BY <1>2, MinIsLeast
<1>4. PICK h \in p : v = f[h]
  OBVIOUS
<1>5. \A q \in p : stored[h].finished <= stored[q].finished
  BY <1>3, <1>4
<1> QED
  BY <1>5, Zenon DEF HeadOf

LEMMA SidesAre ==
  ASSUME NEW R, NEW id
  PROVE  /\ Side(R, id) \subseteq R
         /\ Side(R, id) # {} =>
              \E m \in Machines(R) : Side(R, id) \subseteq On(m, R)
<1>1. \E m : Side(R, id) = {r \in On(m, R) : PointId(r) = id}
  BY Zenon DEF Side
<1>2. PICK m : Side(R, id) = {r \in On(m, R) : PointId(r) = id}
  BY <1>1
<1>3. \A r \in On(m, R) : r \in R /\ m \in Machines(R)
  BY DEF On, Machines
<1> QED
  BY <1>2, <1>3

LEMMA DeltaTurns ==
  ASSUME NEW a \in Nat \cup {Unmeasured}, NEW b \in Nat \cup {Unmeasured},
         Delta(a, b, "higher") = "improvement", b # 0
  PROVE  Delta(b, a, "higher") = "regression"
<1>1. a # Unmeasured /\ b # Unmeasured /\ a # 0
  <2> SUFFICES ASSUME a = Unmeasured \/ b = Unmeasured \/ a = 0 PROVE FALSE
    OBVIOUS
  <2>1. ~(a > 0 /\ b = a) /\ ~(a > 0 /\ b >= 0 /\ b # a)
    BY DEF Unmeasured
  <2>2. Delta(a, b, "higher") = "unknown"
    BY <2>1 DEF Delta
  <2> QED
    BY <2>2
<1>2. a \in Nat /\ b \in Nat /\ a > 0 /\ b > 0
  BY <1>1
<1>3. a # b
  <2> SUFFICES ASSUME a = b PROVE FALSE
    OBVIOUS
  <2>1. Delta(a, b, "higher") = "same"
    BY <1>1, <1>2 DEF Delta, Unmeasured
  <2> QED
    BY <2>1
<1>4. Delta(a, b, "higher") = IF b > a THEN "improvement" ELSE "regression"
  BY <1>1, <1>2, <1>3 DEF Delta, Unmeasured
<1>5. b > a
  BY <1>2, <1>4
<1> QED
  BY <1>1, <1>2, <1>3, <1>5 DEF Delta, Unmeasured

(* The records that are loaded for two points of a chart are not none.       *)
LEMMA RecordsAre ==
  ASSUME AnalysisInv, NEW r \in view.shown, NEW q
  PROVE  SideRecords({r, q}) # {} /\ SideRecords({r, q}) \in SUBSET DOMAIN stored
<1> DEFINE T == {t \in OfStatus(InScope(view.real), {"succeeded"}) :
                   \E o \in {r, q} : stored[t].config = stored[o].config}
           S == NewestOf(T, MaxRunLimit)
<1>1. r \in T /\ T \in SUBSET DOMAIN stored
  <2>1. /\ r \in DOMAIN stored /\ r \in view.ended
        /\ stored[r].status = "succeeded"
    BY DEF AnalysisInv, AnalysisTypeOK, LoadedKnows
  <2>2. stored[r].real = view.real
    BY <2>1 DEF AnalysisInv, CountedKnows
  <2> QED
    BY <2>1, <2>2 DEF OfStatus, InScope
<1>2. IsFiniteSet(T) /\ MaxRunLimit \in Nat \ {0}
  BY <1>1, FS_Subset, AnalysisAssumption DEF AnalysisInv, AnalysisTypeOK
<1>3. S \in SUBSET T /\ Cardinality(S) = Min({MaxRunLimit, Cardinality(T)})
  <2> HIDE DEF T
  <2> QED
    BY <1>1, <1>2, NewestAre DEF AnalysisInv
<1> DEFINE c == Cardinality(T)
<1>4. c \in Nat /\ c # 0
  <2> HIDE DEF T
  <2> QED
    BY <1>1, <1>2, FS_CardinalityType, FS_EmptySet
<1>5. Cardinality(S) # 0
  <2> HIDE DEF c
  <2>1. Min({MaxRunLimit, c}) \in {MaxRunLimit, c}
    <3>1. MaxRunLimit \in Int /\ c \in Int
      BY <1>2, <1>4
    <3> QED
      BY <3>1, LesserOfTwo
  <2>2. Cardinality(S) = Min({MaxRunLimit, c})
    BY <1>3 DEF c
  <2> HIDE DEF S
  <2> QED
    BY <1>2, <1>4, <2>1, <2>2
<1>6. S # {}
  BY <1>5, FS_EmptySet
<1>7. SideRecords({r, q}) = S
  BY Zenon DEF SideRecords
<1> HIDE DEF S, T
<1> QED
  BY <1>1, <1>3, <1>6, <1>7

(* A comparison that lists no invalidating difference is of one machine.     *)
LEMMA OneMachine ==
  ASSUME AnalysisTypeOK, NEW R \in SUBSET DOMAIN stored, R # {}, NEW id1, NEW id2,
         ProvenanceDifferences(Side(R, id1), Side(R, id2)) \cap Invalidating = {}
  PROVE  \E m \in Machines(R) : Side(R, id1) \cup Side(R, id2) \subseteq On(m, R)
<1> DEFINE left == Side(R, id1)
           right == Side(R, id2)
<1>1. /\ left \subseteq R
      /\ left # {} => \E m \in Machines(R) : left \subseteq On(m, R)
      /\ right \subseteq R
      /\ right # {} => \E m \in Machines(R) : right \subseteq On(m, R)
  BY SidesAre
<1>2. Machines(R) # {}
  BY DEF Machines
<1>3. left # {} /\ right # {} => stored[HeadOf(left)].machine = stored[HeadOf(right)].machine
  <2>1. "machine" \notin ProvenanceDifferences(left, right)
    BY DEF Invalidating
  <2> HIDE DEF left, right
  <2> QED
    BY <2>1 DEF ProvenanceDifferences, Compared
<1> HIDE DEF left, right
<1>4. CASE left = {}
  BY <1>1, <1>2, <1>4 DEF left, right
<1>5. CASE right = {}
  BY <1>1, <1>2, <1>5 DEF left, right
<1>6. CASE left # {} /\ right # {}
  <2>1. PICK m \in Machines(R) : left \subseteq On(m, R)
    BY <1>1, <1>6
  <2>2. PICK n \in Machines(R) : right \subseteq On(n, R)
    BY <1>1, <1>6
  <2>3. HeadOf(left) \in left /\ HeadOf(right) \in right
    BY <1>1, <1>6, HeadIsIn
  <2>4. stored[HeadOf(left)].machine = m /\ stored[HeadOf(right)].machine = n
    BY <2>1, <2>2, <2>3 DEF On
  <2>5. m = n
    BY <1>3, <1>6, <2>4
  <2> QED
    BY <2>1, <2>2, <2>5 DEF left, right
<1> QED
  BY <1>4, <1>5, <1>6

(* What sets runs apart is named, on a chart and between two of its points.  *)
THEOREM DifferencesNamed == AnalysisSpec => []DifferencesAreNamed
<1>1. AnalysisInv => DifferencesAreNamed
  <2> SUFFICES ASSUME AnalysisInv, Answered PROVE DifferencesAreNamed
    BY DEF DifferencesAreNamed
  <2>1. AnalysisTypeOK /\ view.shown \in SUBSET DOMAIN stored /\ IsFiniteSet(DOMAIN stored)
    BY DEF AnalysisInv, AnalysisTypeOK
  <2>2. ASSUME NEW m \in Machines(view.shown)
        PROVE  LET R == On(m, view.shown) IN
               /\ \A r, q \in R, fact \in Warnable :
                    /\ Differ(r, q, fact)
                    /\ fact = "speculation" \/ (Known(r, fact) /\ Known(q, fact))
                    => fact \in GroupWarnings(R)
               /\ \A fact \in Warnable \cap GroupWarnings(R) : \E r, q \in R : Differ(r, q, fact)
    <3> DEFINE R == On(m, view.shown)
    <3>1. IsFiniteSet(R)
      BY <2>1, FS_Subset DEF On
    <3> HIDE DEF R
    <3>2. \A fact \in Warnable :
            /\ \A r, q \in R :
                 /\ Differ(r, q, fact)
                 /\ fact = "speculation" \/ (Known(r, fact) /\ Known(q, fact))
                 => fact \in GroupWarnings(R)
            /\ fact \in GroupWarnings(R) => \E r, q \in R : Differ(r, q, fact)
      BY <3>1, WarningsAre
    <3>3. /\ \A r, q \in R, fact \in Warnable :
                /\ Differ(r, q, fact)
                /\ fact = "speculation" \/ (Known(r, fact) /\ Known(q, fact))
                => fact \in GroupWarnings(R)
          /\ \A fact \in Warnable \cap GroupWarnings(R) : \E r, q \in R : Differ(r, q, fact)
      BY <3>2
    <3> QED
      BY <3>3 DEF R
  <2>3. ASSUME NEW r \in view.shown, NEW q \in view.shown
        PROVE  LET R == SideRecords({r, q})
                   left == Side(R, PointId(r))  right == Side(R, PointId(q)) IN
               /\ ProvenanceDifferences(left, right) \cap Invalidating = {} =>
                    \E m \in Machines(R) : left \cup right \subseteq On(m, R)
               /\ Delta(X(left), X(right), "higher") = "improvement" /\ X(right) # 0 =>
                    Delta(X(right), X(left), "higher") = "regression"
    <3> DEFINE R == SideRecords({r, q})
               id1 == PointId(r)
               id2 == PointId(q)
               left == Side(R, id1)
               right == Side(R, id2)
    <3>1. R # {} /\ R \in SUBSET DOMAIN stored
      BY RecordsAre
    <3> HIDE DEF R, id1, id2
    <3>2. ProvenanceDifferences(left, right) \cap Invalidating = {} =>
            \E m \in Machines(R) : left \cup right \subseteq On(m, R)
      BY <2>1, <3>1, OneMachine
    <3>3. left \in SUBSET DOMAIN stored /\ right \in SUBSET DOMAIN stored
      BY <3>1, SidesAre
    <3> HIDE DEF left, right
    <3>4. X(left) \in Nat \cup {Unmeasured} /\ X(right) \in Nat \cup {Unmeasured}
      BY <2>1, <3>3, FiguresAreNumbers
    <3>5. Delta(X(left), X(right), "higher") = "improvement" /\ X(right) # 0 =>
            Delta(X(right), X(left), "higher") = "regression"
      BY <3>4, DeltaTurns
    <3> QED
      BY <3>2, <3>5 DEF left, right, R, id1, id2
  <2> QED
    BY <2>2, <2>3, Zenon DEF DifferencesAreNamed
<1> QED
  BY <1>1, AnalysisInvariant, PTL
-----------------------------------------------------------------------------
(* The place of a number among others is how many of them it reaches.        *)
LEMMA NthOfPlaces ==
  ASSUME NEW K, IsFiniteSet(K), \A k \in K : k \in Int, NEW v \in K
  PROVE  Nth(K, [i \in K |-> i], Cardinality({k \in K : k <= v})) = v
<1> DEFINE f == [i \in K |-> i]
           UpTo(w) == {k \in K : k <= w}
           Less(w) == {k \in K : k < w}
           j == Cardinality(UpTo(v))
           Fits(w) == Cardinality(Less(w)) < j /\ j <= Cardinality(UpTo(w))
<1>1. \A w : IsFiniteSet(UpTo(w)) /\ IsFiniteSet(Less(w))
  BY FS_Subset
<1>2. \A w : Cardinality(UpTo(w)) \in Nat /\ Cardinality(Less(w)) \in Nat
  BY <1>1, FS_CardinalityType
<1>3. Fits(v)
  <2>1. v \in UpTo(v) /\ Less(v) = UpTo(v) \ {v}
    OBVIOUS
  <2> HIDE DEF UpTo, Less
  <2>2. Cardinality(Less(v)) = j - 1
    BY <1>1, <2>1, FS_RemoveElement
  <2> HIDE DEF j
  <2> QED
    BY <1>2, <2>2 DEF j
<1>4. ASSUME NEW w \in K, Fits(w) PROVE w = v
  <2>1. CASE w < v
    <3>1. UpTo(w) \subseteq Less(v)
      BY <2>1
    <3> HIDE DEF UpTo, Less
    <3>2. Cardinality(UpTo(w)) <= Cardinality(Less(v))
      BY <1>1, <3>1, FS_Subset
    <3> HIDE DEF j
    <3> QED
      BY <1>2, <1>3, <1>4, <3>2 DEF j
  <2>2. CASE v < w
    <3>1. UpTo(v) \subseteq Less(w)
      BY <2>2
    <3> HIDE DEF UpTo, Less
    <3>2. j <= Cardinality(Less(w))
      BY <1>1, <3>1, FS_Subset
    <3> HIDE DEF j
    <3> QED
      BY <1>2, <1>4, <3>2 DEF j
  <2> QED
    BY <2>1, <2>2
<1>5. /\ {f[k] : k \in K} = K
      /\ \A w : {k \in K : f[k] <= w} = UpTo(w) /\ {k \in K : f[k] < w} = Less(w)
  OBVIOUS
<1> HIDE DEF UpTo, Less, f
<1>6. Nth(K, f, j) = CHOOSE w \in K : Fits(w)
  BY <1>5 DEF Nth
<1> HIDE DEF Fits, j
<1>7. Nth(K, f, j) = v
  BY <1>3, <1>4, <1>6
<1> QED
  BY <1>7 DEF f, j, UpTo

(* The lines of a text with one tensor-parallel line, or none, are those of  *)
(* its family.                                                               *)
LEMMA LinesOfAll ==
  ASSUME NEW text \in Text, TpLines(text) = {}
  PROVE  OtherLines(text) = text
<1> DEFINE n == Len(text)
           K == 1..n
           id == [i \in K |-> i]
<1>1. n \in Nat /\ DOMAIN text = K /\ text = [i \in 1..n |-> text[i]]
  BY LenProperties DEF Text
<1> HIDE DEF n
<1>2. DOMAIN text \ TpLines(text) = K
  BY <1>1
<1>3. IsFiniteSet(K) /\ Cardinality(K) = n
  BY <1>1, FS_Interval
<1>4. ASSUME NEW j \in 1..n PROVE Nth(K, id, j) = j
  <2>1. {k \in K : k <= j} = 1..j /\ j \in K /\ (\A k \in K : k \in Int) /\ j \in Nat
    BY <1>1
  <2>2. Cardinality(1..j) = j
    BY <2>1, FS_Interval
  <2>3. Nth(K, id, Cardinality({k \in K : k <= j})) = j
    <3> HIDE DEF K
    <3> QED
      BY <1>3, <2>1, NthOfPlaces
  <2> QED
    BY <2>1, <2>2, <2>3
<1>5. OtherLines(text) = [j \in 1..n |-> text[Nth(K, id, j)]]
  BY <1>2, <1>3, Zenon DEF OtherLines
<1> HIDE DEF K, id
<1> QED
  BY <1>1, <1>4, <1>5

LEMMA LinesOfOthers ==
  ASSUME NEW text \in Text, NEW i, TpLines(text) = {i}
  PROVE  OtherLines(text) = RemoveAt(text, i)
<1> DEFINE n == Len(text)
           K == (1..n) \ {i}
           id == [k \in K |-> k]
           Line == [key : STRING, indent : Nat, value : Int, comment : BOOLEAN]
           rest == RemoveAt(text, i)
           At(j) == IF j < i THEN j ELSE j + 1
<1>1. n \in Nat /\ DOMAIN text = 1..n /\ \A k \in 1..n : text[k] \in Line
  BY LenProperties, ElementOfSeq DEF Text
<1>2. i \in 1..n /\ DOMAIN text \ TpLines(text) = K
  BY <1>1 DEF TpLines
<1> HIDE DEF n
<1>3. IsFiniteSet(K) /\ Cardinality(K) = n - 1 /\ \A k \in K : k \in Int
  <2>1. IsFiniteSet(1..n) /\ Cardinality(1..n) = n
    BY <1>1, FS_Interval
  <2>2. \A k \in K : k \in Int
    OBVIOUS
  <2>3. IsFiniteSet(K) /\ Cardinality(K) = n - 1
    BY <1>2, <2>1, FS_RemoveElement
  <2> QED
    BY <2>2, <2>3
<1>4. ASSUME NEW j \in 1..(n - 1) PROVE Nth(K, id, j) = At(j) /\ At(j) \in 1..n
  <2>1. At(j) \in K /\ At(j) \in 1..n
    BY <1>1, <1>2
  <2>2. Cardinality({k \in K : k <= At(j)}) = j
    <3>1. CASE j < i
      <4>1. {k \in K : k <= At(j)} = 1..j /\ j \in Nat
        BY <1>1, <1>2, <3>1
      <4>2. Cardinality(1..j) = j
        BY <4>1, FS_Interval
      <4> QED
        BY <4>1, <4>2, Zenon
    <3>2. CASE ~(j < i)
      <4>1. {k \in K : k <= At(j)} = (1..(j + 1)) \ {i} /\ j + 1 \in Nat /\ i \in 1..(j + 1)
        BY <1>1, <1>2, <3>2
      <4> DEFINE upto == 1..(j + 1)
      <4>2. IsFiniteSet(upto) /\ Cardinality(upto) = j + 1
        BY <4>1, FS_Interval
      <4>3. Cardinality(upto \ {i}) = (j + 1) - 1
        <5>1. i \in upto
          BY <4>1, Zenon
        <5> HIDE DEF upto
        <5>2. Cardinality(upto \ {i}) = Cardinality(upto) - 1
          BY <4>2, <5>1, FS_RemoveElement, Zenon
        <5> QED
          BY <4>2, <5>2, Zenon
      <4>4. (j + 1) - 1 = j
        BY <4>1
      <4> QED
        BY <4>1, <4>3, <4>4, Zenon
    <3> QED
      BY <3>1, <3>2
  <2> HIDE DEF K, At
  <2>3. Nth(K, id, Cardinality({k \in K : k <= At(j)})) = At(j)
    BY <1>3, <2>1, NthOfPlaces
  <2> QED
    BY <2>1, <2>2, <2>3
<1>5. OtherLines(text) = [j \in 1..(n - 1) |-> text[Nth(K, id, j)]]
  BY <1>2, <1>3, Zenon DEF OtherLines
<1>6. rest \in Seq(Line) /\ Len(rest) = n - 1 /\ \A j \in 1..(n - 1) : rest[j] = text[At(j)]
  <2> DEFINE s == SubSeq(text, 1, i - 1)
             u == SubSeq(text, i + 1, n)
  <2>1. s \in Seq(Line) /\ Len(s) = i - 1 /\ \A k \in 1..(i - 1) : s[k] = text[k]
    <3>1. i - 1 \in Int /\ (\A k \in 1..(i - 1) : text[k] \in Line) /\ ((i - 1) - 1) + 1 = i - 1
      BY <1>1, <1>2
    <3>2. /\ s \in Seq(Line) /\ Len(s) = (IF 1 <= i - 1 THEN ((i - 1) - 1) + 1 ELSE 0)
          /\ \A k \in 1..(((i - 1) - 1) + 1) : s[k] = text[(1 + k) - 1]
      BY <3>1, SubSeqProperties
    <3> HIDE DEF s, Line
    <3> QED
      BY <1>2, <3>1, <3>2
  <2>2. u \in Seq(Line) /\ Len(u) = n - i /\ \A k \in 1..(n - i) : u[k] = text[i + k]
    <3>1. i + 1 \in Int /\ n \in Int /\ (\A k \in (i + 1)..n : text[k] \in Line)
      BY <1>1, <1>2
    <3>2. /\ u \in Seq(Line) /\ Len(u) = (IF i + 1 <= n THEN (n - (i + 1)) + 1 ELSE 0)
          /\ \A k \in 1..((n - (i + 1)) + 1) : u[k] = text[((i + 1) + k) - 1]
      BY <3>1, SubSeqProperties
    <3>3. (n - (i + 1)) + 1 = n - i /\ \A k \in Int : ((i + 1) + k) - 1 = i + k
      BY <1>1, <1>2
    <3> HIDE DEF u, Line
    <3> QED
      BY <1>1, <1>2, <3>2, <3>3
  <2>3. rest = s \o u
    BY Zenon DEF RemoveAt, n
  <2> HIDE DEF s, u, rest, Line
  <2>4. /\ s \o u \in Seq(Line) /\ Len(s \o u) = Len(s) + Len(u)
        /\ \A k \in 1..(Len(s) + Len(u)) : (s \o u)[k] = IF k <= Len(s) THEN s[k] ELSE u[k - Len(s)]
    BY <2>1, <2>2, ConcatProperties
  <2>5. Len(s) + Len(u) = n - 1
    BY <1>1, <1>2, <2>1, <2>2
  <2>6. ASSUME NEW j \in 1..(n - 1) PROVE rest[j] = text[At(j)]
    <3>1. rest[j] = IF j <= i - 1 THEN s[j] ELSE u[j - (i - 1)]
      BY <2>1, <2>3, <2>4, <2>5
    <3>2. CASE j < i
      BY <1>1, <1>2, <2>1, <3>1, <3>2
    <3>3. CASE ~(j < i)
      <4>1. j - (i - 1) \in 1..(n - i) /\ i + (j - (i - 1)) = j + 1 /\ ~(j <= i - 1)
        BY <1>1, <1>2, <3>3
      <4> QED
        BY <2>2, <3>1, <3>3, <4>1
    <3> QED
      BY <3>2, <3>3
  <2> QED
    BY <2>3, <2>4, <2>5, <2>6
<1>7. rest = [j \in 1..(n - 1) |-> rest[j]]
  BY <1>6, LenProperties
<1> HIDE DEF K, id, At, rest
<1> QED
  BY <1>4, <1>5, <1>6, <1>7 DEF rest

(* What is left of a text is a text and has no tensor-parallel line.         *)
LEMMA OthersAreText ==
  ASSUME NEW text \in Text
  PROVE  OtherLines(text) \in Text /\ TpLines(OtherLines(text)) = {}
<1> DEFINE K == DOMAIN text \ TpLines(text)
           id == [i \in K |-> i]
           n == Cardinality(K)
           Line == [key : STRING, indent : Nat, value : Int, comment : BOOLEAN]
<1>1. DOMAIN text = 1..Len(text) /\ Len(text) \in Nat /\ \A k \in DOMAIN text : text[k] \in Line
  BY LenProperties, ElementOfSeq DEF Text
<1>2. IsFiniteSet(K) /\ (\A k \in K : k \in Int) /\ n \in Nat
  <2>1. IsFiniteSet(1..Len(text))
    BY <1>1, FS_Interval
  <2>2. IsFiniteSet(K)
    BY <1>1, <2>1, FS_Subset
  <2> QED
    BY <1>1, <2>2, FS_CardinalityType
<1>3. OtherLines(text) = [j \in 1..n |-> text[Nth(K, id, j)]]
  BY Zenon DEF OtherLines
<1>4. ASSUME NEW j \in 1..n PROVE Nth(K, id, j) \in DOMAIN text \ TpLines(text)
  <2>1. (\A k \in K : id[k] \in Int) /\ {id[k] : k \in K} = K
    BY <1>2
  <2> HIDE DEF K, id
  <2>2. Nth(K, id, j) \in {id[k] : k \in K}
    BY <1>2, <2>1, NthIsOne
  <2> QED
    BY <2>1, <2>2 DEF K
<1> HIDE DEF K, id, n
<1>5. OtherLines(text) \in Text
  <2>1. \A j \in 1..n : text[Nth(K, id, j)] \in Line
    BY <1>1, <1>4
  <2> HIDE DEF Line
  <2>2. [j \in 1..n |-> text[Nth(K, id, j)]] \in Seq(Line)
    BY <1>2, <2>1, IsASeq
  <2> QED
    BY <1>3, <2>2 DEF Text, Line
<1> QED
  BY <1>3, <1>4, <1>5 DEF TpLines

LEMMA LinesOfFamily ==
  ASSUME NEW text \in Text, ~Ambiguous(text)
  PROVE  OtherLines(text) = FamilyText(text)
<1>1. CASE TpLines(text) = {}
  BY <1>1, LinesOfAll DEF FamilyText
<1>2. CASE TpLines(text) # {}
  <2> DEFINE i == CHOOSE i \in TpLines(text) : TRUE
  <2>1. TpLines(text) = {i}
    BY <1>2 DEF Ambiguous
  <2>2. FamilyText(text) = RemoveAt(text, i)
    BY <1>2 DEF FamilyText
  <2> HIDE DEF i
  <2> QED
    BY <2>1, <2>2, LinesOfOthers
<1> QED
  BY <1>1, <1>2

(* A text without a tensor-parallel line gets none by being stored, except   *)
(* that its first line loses its indentation.                                *)
LEMMA LinesOfStored ==
  ASSUME NEW text \in Text, TpLines(text) = {}
  PROVE  TpLines(Normalized(text)) \subseteq {1}
<1> DEFINE K == Written(text)
           a == Min(K)
           b == Max(K)
           cut == SubSeq(text, a, b)
           Line == [key : STRING, indent : Nat, value : Int, comment : BOOLEAN]
<1>1. CASE K = {}
  <2>1. Normalized(text) = <<>>
    BY <1>1 DEF Normalized
  <2> QED
    BY <2>1 DEF TpLines
<1>2. CASE K # {}
  <2>1. DOMAIN text = 1..Len(text) /\ Len(text) \in Nat /\ \A k \in 1..Len(text) : text[k] \in Line
    BY LenProperties, ElementOfSeq DEF Text
  <2>2. K \subseteq 1..Len(text) /\ IsFiniteSet(K) /\ K \subseteq Nat /\ \A k \in K : k \in Int
    <3>1. K \subseteq 1..Len(text)
      BY <2>1 DEF Written
    <3>2. IsFiniteSet(1..Len(text))
      BY <2>1, FS_Interval
    <3> HIDE DEF K
    <3>3. IsFiniteSet(K)
      BY <3>1, <3>2, FS_Subset
    <3>4. K \subseteq Nat
      BY <2>1, <3>1
    <3> QED
      BY <3>1, <3>3, <3>4
  <2>3. a \in 1..Len(text) /\ b \in 1..Len(text)
    <3> HIDE DEF K
    <3>1. a \in K /\ b \in K
      BY <1>2, <2>2, LeastIs, MaxIsGreatest
    <3> QED
      BY <2>2, <3>1
  <2> HIDE DEF K
  <2>4. Normalized(text) = [cut EXCEPT ![1].indent = 0]
    BY <1>2 DEF Normalized, K
  <2> HIDE DEF a, b
  <2>5. /\ cut \in Seq(Line) /\ Len(cut) = (IF a <= b THEN (b - a) + 1 ELSE 0)
        /\ \A k \in 1..((b - a) + 1) : cut[k] = text[(a + k) - 1]
    <3>1. a \in Int /\ b \in Int /\ \A k \in a..b : text[k] \in Line
      BY <2>1, <2>3
    <3> HIDE DEF Line
    <3> QED
      BY <3>1, SubSeqProperties
  <2>6. DOMAIN cut = 1..Len(cut)
    BY <2>5, LenProperties
  <2> HIDE DEF cut
  <2>7. ASSUME NEW k \in TpLines(Normalized(text)), k # 1 PROVE FALSE
    <3>1. k \in DOMAIN cut /\ Normalized(text)[k] = cut[k]
      <4>1. k \in DOMAIN Normalized(text) /\ DOMAIN [cut EXCEPT ![1].indent = 0] = DOMAIN cut
        BY <2>7 DEF TpLines
      <4>2. k \in DOMAIN cut
        BY <2>4, <4>1
      <4> QED
        BY <2>4, <2>7, <4>2
    <3>2. k \in 1..((b - a) + 1) /\ (a + k) - 1 \in DOMAIN text
      <4>1. k \in 1..Len(cut)
        BY <2>6, <3>1
      <4>2. k \in 1..((b - a) + 1)
        BY <2>3, <2>5, <4>1
      <4>3. (a + k) - 1 \in 1..Len(text)
        BY <2>1, <2>3, <4>2
      <4> QED
        BY <2>1, <4>2, <4>3
    <3>3. (a + k) - 1 \in TpLines(text)
      BY <2>5, <2>7, <3>1, <3>2 DEF TpLines
    <3> QED
      BY <3>3
  <2> QED
    BY <2>7
<1> QED
  BY <1>1, <1>2

(* A stored text with two tensor-parallel lines is a family of its own.      *)
LEMMA OwnFamily ==
  ASSUME NEW t \in StoredText, NEW u \in StoredText, Ambiguous(t),
         Normalized(FamilyText(t)) = Normalized(FamilyText(u))
  PROVE  t = u
<1>1. t \in Text /\ u \in Text /\ Normalized(t) = t /\ Normalized(u) = u
  BY DEF StoredText
<1>2. Normalized(FamilyText(t)) = t
  BY <1>1 DEF FamilyText
<1>3. CASE Ambiguous(u)
  BY <1>1, <1>2, <1>3 DEF FamilyText
<1>4. CASE ~Ambiguous(u)
  <2>1. FamilyText(u) = OtherLines(u)
    BY <1>1, <1>4, LinesOfFamily
  <2>2. FamilyText(u) \in Text /\ TpLines(FamilyText(u)) = {}
    BY <1>1, <2>1, OthersAreText
  <2>3. TpLines(t) \subseteq {1}
    BY <1>2, <2>2, LinesOfStored
  <2> QED
    BY <2>3 DEF Ambiguous
<1> QED
  BY <1>3, <1>4

LEMMA PointIs ==
  ASSUME AnalysisTypeOK, NEW R \in SUBSET DOMAIN stored, NEW p \in PointsOf(R)
  PROVE  /\ TextOf(p) \in StoredText
         /\ \A q \in PointsOf(R) : TextOf(p) = TextOf(q) /\ TrafficOf(p) = TrafficOf(q) => p = q
<1>1. p \in SUBSET DOMAIN stored /\ p # {}
  BY DEF PointsOf
<1>2. TextOf(p) \in StoredText
  <2>1. (CHOOSE r \in p : TRUE) \in DOMAIN stored
    BY <1>1
  <2> QED
    BY <2>1 DEF TextOf, AnalysisTypeOK, RunRow
<1>3. \A x \in PointsOf(R) : \E r \in x : /\ TextOf(x) = stored[r].config
                                         /\ TrafficOf(x) = stored[r].workload
                                         /\ x = {s \in R : PointId(s) = PointId(r)}
  <2> SUFFICES ASSUME NEW x \in PointsOf(R)
               PROVE  \E r \in x : /\ TextOf(x) = stored[r].config
                                   /\ TrafficOf(x) = stored[r].workload
                                   /\ x = {s \in R : PointId(s) = PointId(r)}
    OBVIOUS
  <2>1. PICK r \in R : x = {s \in R : PointId(s) = PointId(r)}
    BY DEF PointsOf
  <2> DEFINE one == CHOOSE s \in x : TRUE
  <2>2. one \in x
    BY <2>1
  <2>3. TextOf(x) = stored[one].config /\ TrafficOf(x) = stored[one].workload
    BY DEF TextOf, TrafficOf
  <2> HIDE DEF one
  <2>4. PointId(one) = PointId(r)
    BY <2>1, <2>2
  <2> QED
    BY <2>1, <2>2, <2>3, <2>4
<1>4. ASSUME NEW q \in PointsOf(R), TextOf(p) = TextOf(q), TrafficOf(p) = TrafficOf(q)
      PROVE  p = q
  <2>1. PICK r \in p : /\ TextOf(p) = stored[r].config /\ TrafficOf(p) = stored[r].workload
                       /\ p = {s \in R : PointId(s) = PointId(r)}
    BY <1>3
  <2>2. PICK s \in q : /\ TextOf(q) = stored[s].config /\ TrafficOf(q) = stored[s].workload
                       /\ q = {x \in R : PointId(x) = PointId(s)}
    BY <1>3
  <2>3. PointId(r) = PointId(s)
    BY <1>4, <2>1, <2>2 DEF PointId
  <2> QED
    BY <2>1, <2>2, <2>3
<1> QED
  BY <1>2, <1>4

(* Of the points of a curve.                                                 *)
LEMMA CurveIs ==
  ASSUME NEW points, NEW c \in Curves(points)
  PROVE  /\ c \in SUBSET points /\ \A p \in c : X(p) # Unmeasured
         /\ \A p, q \in c : FamilyOf(p) = FamilyOf(q) /\ TrafficOf(p) = TrafficOf(q)
         /\ Cardinality({WidthOf(p) : p \in c}) > 1
  BY DEF Curves, CurveKey

(* Measured points of one family and traffic, of different widths, are on a  *)
(* curve.                                                                    *)
LEMMA OnOneCurve ==
  ASSUME NEW points, IsFiniteSet(points), NEW p \in points, NEW q \in points,
         X(p) # Unmeasured, X(q) # Unmeasured, CurveKey(p) = CurveKey(q),
         WidthOf(p) # WidthOf(q)
  PROVE  \E c \in Curves(points) : {p, q} \subseteq c
<1> DEFINE charted == {x \in points : X(x) # Unmeasured}
           c == {x \in charted : CurveKey(x) = CurveKey(p)}
           f == [x \in c |-> WidthOf(x)]
           V == {f[x] : x \in c}
<1>1. p \in c /\ q \in c /\ p \in charted
  OBVIOUS
<1>2. IsFiniteSet(c)
  BY FS_Subset
<1>3. V = {WidthOf(x) : x \in c} /\ WidthOf(p) \in V /\ WidthOf(q) \in V
  BY <1>1
<1>4. IsFiniteSet(V)
  <2> HIDE DEF f, c
  <2> QED
    BY <1>2, ImageFinite
<1>5. Cardinality(V) > 1
  <2> HIDE DEF V
  <2> QED
    BY <1>3, <1>4, MoreThanOne
<1>6. c \in Curves(points)
  <2>1. c \in {{x \in charted : CurveKey(x) = CurveKey(y)} : y \in charted}
    BY <1>1
  <2> QED
    BY <1>3, <1>5, <2>1 DEF Curves
<1> QED
  BY <1>1, <1>6

(* The number of families on no curve is zero when no machine has one.       *)
LEMMA CountedOff ==
  ASSUME AnalysisTypeOK, NEW R \in SUBSET DOMAIN stored, NEW m \in Machines(R)
  PROVE  /\ SingleWidthFamilies(R) \in Nat
         /\ SingleWidthFamilies(R) = 0 => OffCurve(m, R) = {}
<1> DEFINE M == Machines(R)
           g == [n \in M |-> Cardinality(OffCurve(n, R))]
<1>1. IsFiniteSet(M)
  <2> DEFINE f == [r \in R |-> stored[r].machine]
  <2>1. IsFiniteSet(R) /\ M = {f[r] : r \in R}
    BY FS_Subset DEF AnalysisTypeOK, Machines
  <2> HIDE DEF f, M
  <2> QED
    BY <2>1, ImageFinite
<1>2. ASSUME NEW n \in M PROVE IsFiniteSet(OffCurve(n, R)) /\ g[n] \in Nat /\ g[n] \in Int
  <2> DEFINE P == PointsOf(On(n, R))
             f == [p \in P |-> FamilyOf(p)]
             F == {f[p] : p \in P}
  <2>1. On(n, R) \in SUBSET DOMAIN stored
    BY DEF On
  <2>2. IsFiniteSet(P)
    BY <2>1, PointsAre
  <2>3. OffCurve(n, R) \subseteq F
    BY DEF OffCurve
  <2> HIDE DEF f, P
  <2>4. IsFiniteSet(F)
    BY <2>2, ImageFinite
  <2>5. IsFiniteSet(OffCurve(n, R))
    BY <2>3, <2>4, FS_Subset
  <2>6. Cardinality(OffCurve(n, R)) \in Nat
    BY <2>5, FS_CardinalityType
  <2> QED
    BY <2>5, <2>6
<1>3. SingleWidthFamilies(R) = SumFunctionOnSet(g, M)
  BY DEF SingleWidthFamilies
<1>4. g[m] = 0 => OffCurve(m, R) = {}
  BY <1>2, FS_EmptySet
<1>5. m \in M
  OBVIOUS
<1> HIDE DEF g, M
<1>6. SumFunctionOnSet(g, M) = g[m] + SumFunctionOnSet(g, M \ {m})
  BY <1>1, <1>2, <1>5, SumRemove
<1>7. SumFunctionOnSet(g, M \ {m}) \in Nat
  <2>1. IsFiniteSet(M \ {m}) /\ \A n \in M \ {m} : g[n] \in Nat
    BY <1>1, <1>2, FS_RemoveElement
  <2> QED
    BY <2>1, SumType
<1>8. g[m] \in Nat
  BY <1>2, <1>5
<1> QED
  BY <1>3, <1>4, <1>6, <1>7, <1>8

(* A curve is of one setup, traffic and machine, none of whose texts is      *)
(* ambiguous, and has every width that was measured of them; and what is on  *)
(* no curve is counted.                                                      *)
THEOREM CurvesCompare == AnalysisSpec => []CurvesLikeWithLike
<1>1. AnalysisInv => CurvesLikeWithLike
  <2> SUFFICES ASSUME AnalysisInv, Answered, NEW m \in Machines(view.shown)
               PROVE  LET points == PointsOf(On(m, view.shown))
                          single == {p \in points : X(p) # Unmeasured /\ ~Ambiguous(TextOf(p))} IN
                      /\ \A c \in Curves(points) : c \subseteq single /\ \A p, q \in c : SameSetup(p, q)
                      /\ \A p, q \in single : SameSetup(p, q) /\ WidthOf(p) # WidthOf(q) =>
                           \E c \in Curves(points) : {p, q} \subseteq c
                      /\ \A p \in points :
                           (\A q \in points : FamilyOf(q) = FamilyOf(p) => WidthOf(q) = WidthOf(p))
                             => SingleWidthFamilies(view.shown) > 0
                      /\ SingleWidthFamilies(view.shown) = 0 => m \in ScalingGroups(view.shown)
    BY Zenon DEF CurvesLikeWithLike
  <2> DEFINE R == On(m, view.shown)
             points == PointsOf(R)
             single == {p \in points : X(p) # Unmeasured /\ ~Ambiguous(TextOf(p))}
  <2>1. AnalysisTypeOK /\ view.shown \in SUBSET DOMAIN stored /\ IsFiniteSet(DOMAIN stored)
    BY DEF AnalysisInv, AnalysisTypeOK
  <2>2. R \in SUBSET DOMAIN stored /\ R # {}
    BY <2>1 DEF On, Machines
  <2> HIDE DEF R
  <2>3. IsFiniteSet(points) /\ points # {}
    <3>1. IsFiniteSet(points)
      BY <2>1, <2>2, PointsAre
    <3>2. points # {}
      <4>1. PICK r \in R : TRUE
        BY <2>2
      <4>2. {q \in R : PointId(q) = PointId(r)} \in points
        BY <4>1 DEF PointsOf
      <4> QED
        BY <4>2
    <3> QED
      BY <3>1, <3>2
  <2>4. \A p \in points :
          /\ TextOf(p) \in StoredText /\ TextOf(p) \in Text
          /\ \A q \in points : TextOf(p) = TextOf(q) /\ TrafficOf(p) = TrafficOf(q) => p = q
    BY <2>1, <2>2, PointIs DEF StoredText
  <2>5. /\ SingleWidthFamilies(view.shown) \in Nat
        /\ SingleWidthFamilies(view.shown) = 0 => OffCurve(m, view.shown) = {}
    BY <2>1, CountedOff
  <2>6. OffCurve(m, view.shown) = {FamilyOf(p) : p \in points}
                                    \ {FamilyOf(p) : p \in UNION Curves(points)}
    BY DEF OffCurve, OnCurve, R
  <2> HIDE DEF points
  <2>7. ASSUME NEW c \in Curves(points), NEW p \in c PROVE p \in points /\ ~Ambiguous(TextOf(p))
    <3>1. c \in SUBSET points /\ Cardinality({WidthOf(q) : q \in c}) > 1
      BY CurveIs
    <3>2. ASSUME Ambiguous(TextOf(p)) PROVE FALSE
      <4>1. ASSUME NEW q \in c PROVE q = p
        <5>1. FamilyOf(p) = FamilyOf(q) /\ TrafficOf(p) = TrafficOf(q)
          BY CurveIs
        <5>2. TextOf(p) = TextOf(q)
          BY <2>4, <3>1, <3>2, <5>1, OwnFamily DEF FamilyOf
        <5> QED
          BY <2>4, <3>1, <5>1, <5>2
      <4>2. {WidthOf(q) : q \in c} = {WidthOf(p)}
        BY <4>1
      <4>3. Cardinality({WidthOf(q) : q \in c}) = 1
        BY <4>2, FS_Singleton
      <4> QED
        BY <3>1, <4>3
    <3> QED
      BY <3>1, <3>2
  <2>8. ASSUME NEW c \in Curves(points), NEW p \in c, NEW q \in c PROVE SameSetup(p, q)
    <3>1. FamilyOf(p) = FamilyOf(q) /\ TrafficOf(p) = TrafficOf(q)
      BY CurveIs
    <3>2. ASSUME NEW x \in c PROVE FamilyOf(x) = Normalized(OtherLines(TextOf(x)))
      <4>1. TextOf(x) \in Text /\ ~Ambiguous(TextOf(x))
        BY <2>4, <2>7
      <4> QED
        BY <4>1, LinesOfFamily DEF FamilyOf
    <3> QED
      BY <3>1, <3>2 DEF SameSetup
  <2>9. ASSUME NEW p \in single, NEW q \in single, SameSetup(p, q), WidthOf(p) # WidthOf(q)
        PROVE  \E c \in Curves(points) : {p, q} \subseteq c
    <3>1. ASSUME NEW x \in single PROVE FamilyOf(x) = Normalized(OtherLines(TextOf(x)))
      <4>1. TextOf(x) \in Text /\ ~Ambiguous(TextOf(x))
        BY <2>4, <3>1
      <4> QED
        BY <4>1, LinesOfFamily DEF FamilyOf
    <3>2. CurveKey(p) = CurveKey(q)
      BY <2>9, <3>1 DEF CurveKey, SameSetup
    <3> QED
      BY <2>3, <2>9, <3>2, OnOneCurve
  <2>10. ASSUME NEW p \in points,
                \A q \in points : FamilyOf(q) = FamilyOf(p) => WidthOf(q) = WidthOf(p)
         PROVE  SingleWidthFamilies(view.shown) > 0
    <3>1. ASSUME NEW c \in Curves(points), NEW q \in c, FamilyOf(q) = FamilyOf(p) PROVE FALSE
      <4>1. \A x \in c : WidthOf(x) = WidthOf(p)
        BY <2>10, <3>1, CurveIs
      <4>2. {WidthOf(x) : x \in c} = {WidthOf(p)}
        BY <4>1
      <4>3. Cardinality({WidthOf(x) : x \in c}) = 1
        BY <4>2, FS_Singleton
      <4>4. Cardinality({WidthOf(x) : x \in c}) > 1
        BY CurveIs
      <4> QED
        BY <4>3, <4>4
    <3>2. FamilyOf(p) \in OffCurve(m, view.shown)
      BY <2>6, <3>1
    <3> QED
      BY <2>5, <3>2
  <2>11. ASSUME SingleWidthFamilies(view.shown) = 0 PROVE m \in ScalingGroups(view.shown)
    <3>1. OffCurve(m, view.shown) = {}
      BY <2>5, <2>11
    <3>2. Curves(points) # {}
      BY <2>3, <2>6, <3>1
    <3> QED
      BY <3>2 DEF ScalingGroups, points, R
  <2>12. \A c \in Curves(points) : c \subseteq single /\ \A p, q \in c : SameSetup(p, q)
    BY <2>7, <2>8, CurveIs
  <2>13. \A p, q \in single : SameSetup(p, q) /\ WidthOf(p) # WidthOf(q) =>
           \E c \in Curves(points) : {p, q} \subseteq c
    BY <2>9
  <2>14. \A p \in points :
           (\A q \in points : FamilyOf(q) = FamilyOf(p) => WidthOf(q) = WidthOf(p))
             => SingleWidthFamilies(view.shown) > 0
    BY <2>10
  <2> QED
    BY <2>11, <2>12, <2>13, <2>14, Zenon DEF points, R
<1> QED
  BY <1>1, AnalysisInvariant, PTL
=============================================================================
