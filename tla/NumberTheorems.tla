--------------------------- MODULE NumberTheorems ---------------------------
(***************************************************************************)
(* Sums over finite sets, as Functions defines them: the facts that hold    *)
(* whatever the order in which the elements are added up; least, greatest   *)
(* and i-th smallest numbers; and division.                                 *)
(***************************************************************************)
EXTENDS Integers, FiniteSets, Medians, FiniteSetsExt, Functions, FiniteSetTheorems, TLAPS

(* The recursive function that the sum of g over S takes its value from.     *)
Picked(s) == CHOOSE x \in s : TRUE
IsSumming(h, g, S) ==
  h = [s \in SUBSET S |-> IF s = {} THEN 0 ELSE g[Picked(s)] + h[s \ {Picked(s)}]]
Summing(g, S) == CHOOSE h : IsSumming(h, g, S)

LEMMA SumIsSumming == ASSUME NEW g, NEW S PROVE SumFunctionOnSet(g, S) = Summing(g, S)[S]
  BY DEF SumFunctionOnSet, FoldFunctionOnSet, MapThenFoldSet, Summing, IsSumming, Picked

(* What fails for a subset of a finite set fails for a smallest one.         *)
LEMMA Smallest ==
  ASSUME NEW S, IsFiniteSet(S), NEW Bad \in SUBSET (SUBSET S), Bad # {}
  PROVE  \E m \in Bad : \A u \in SUBSET m : u \in Bad => u = m
<1>1. IsWellFoundedOn(StrictSubsetOrdering(S), FiniteSubsetsOf(S))
  BY FS_StrictSubsetOrderingWellFounded
<1>2. FiniteSubsetsOf(S) = SUBSET S  BY FS_FiniteSubsetsOfFinite
<1>3. PICK m \in Bad : \A y \in Bad : <<y, m>> \notin StrictSubsetOrdering(S)
  <2>1. Bad \subseteq FiniteSubsetsOf(S)  BY <1>2
  <2> QED BY <1>1, <2>1, WFMin
<1>4. ASSUME NEW u \in SUBSET m, u \in Bad, u # m PROVE FALSE
  <2>1. u \in SUBSET S /\ m \in SUBSET S  BY <1>4
  <2>2. <<u, m>> \in StrictSubsetOrdering(S)
    BY <1>4, <2>1 DEF StrictSubsetOrdering
  <2> QED BY <1>3, <1>4, <2>2
<1> QED BY <1>4

(* A set of numbers has a least one.                                         *)
LEMMA LeastNumber ==
  ASSUME NEW T \in SUBSET Nat, T # {} PROVE \E n \in T : \A m \in T : n <= m
<1>1. PICK k \in T : TRUE  OBVIOUS
<1> DEFINE Below == {0..n : n \in {m \in T : m <= k}}
<1>2. IsFiniteSet(0..k)
  BY FS_Interval
<1>3. Below \in SUBSET (SUBSET (0..k)) /\ Below # {}
  BY <1>1
<1>4. PICK b \in Below : \A u \in SUBSET b : u \in Below => u = b
  <2> DEFINE S == 0..k
  <2>1. IsFiniteSet(S) /\ Below \in SUBSET (SUBSET S) /\ Below # {}
    BY <1>2, <1>3
  <2> HIDE DEF Below, S
  <2> QED
    BY <2>1, Smallest
<1>5. PICK n \in T : n <= k /\ b = 0..n
  OBVIOUS
<1>6. ASSUME NEW m \in T, m < n PROVE FALSE
  <2>1. 0..m \in Below
    BY <1>5, <1>6
  <2>2. 0..m \in SUBSET b /\ 0..m # b
    <3>1. n \in 0..n /\ n \notin 0..m
      BY <1>5, <1>6
    <3> QED
      BY <1>5, <1>6, <3>1
  <2> HIDE DEF Below
  <2> QED
    BY <1>4, <2>1, <2>2
<1> QED
  BY <1>6

LEMMA SummingUnique ==
  ASSUME NEW g, NEW S1, NEW S2, NEW h1, NEW h2, IsSumming(h1, g, S1), IsSumming(h2, g, S2),
         NEW T, IsFiniteSet(T), T \subseteq S1, T \subseteq S2
  PROVE  h1[T] = h2[T]
<1> DEFINE Bad == {s \in SUBSET T : h1[s] # h2[s]}
<1> SUFFICES ASSUME Bad # {} PROVE FALSE  OBVIOUS
<1>1. PICK m \in Bad : \A u \in SUBSET m : u \in Bad => u = m
  <2> Bad \in SUBSET (SUBSET T)  OBVIOUS
  <2> HIDE DEF Bad
  <2> QED BY Smallest
<1>2. m \in SUBSET S1 /\ m \in SUBSET S2 /\ m \in SUBSET T  BY <1>1
<1>3. h1[m] = (IF m = {} THEN 0 ELSE g[Picked(m)] + h1[m \ {Picked(m)}])
  BY <1>2 DEF IsSumming
<1>4. h2[m] = (IF m = {} THEN 0 ELSE g[Picked(m)] + h2[m \ {Picked(m)}])
  BY <1>2 DEF IsSumming
<1>5. m # {}  BY <1>1, <1>3, <1>4
<1>6. Picked(m) \in m  BY <1>5 DEF Picked
<1>7. h1[m \ {Picked(m)}] = h2[m \ {Picked(m)}]  BY <1>1, <1>2, <1>6
<1> QED BY <1>1, <1>3, <1>4, <1>7

LEMMA SummingExists ==
  ASSUME NEW g, NEW S, IsFiniteSet(S) PROVE IsSumming(Summing(g, S), g, S)
<1> DEFINE Bad == {s \in SUBSET S : ~IsSumming(Summing(g, s), g, s)}
<1> SUFFICES ASSUME Bad # {} PROVE FALSE  OBVIOUS
<1>1. PICK m \in Bad : \A u \in SUBSET m : u \in Bad => u = m
  <2> Bad \in SUBSET (SUBSET S)  OBVIOUS
  <2> HIDE DEF Bad
  <2> QED BY Smallest
<1>2. \A u \in SUBSET m : u # m => IsFiniteSet(u) /\ IsSumming(Summing(g, u), g, u)
  BY <1>1, FS_Subset
<1> DEFINE Rest(s) == Summing(g, s \ {Picked(s)})[s \ {Picked(s)}]
           h == [s \in SUBSET m |-> IF s = {} THEN 0 ELSE g[Picked(s)] + Rest(s)]
<1>3. \A s \in SUBSET m : s # {} => Picked(s) \in s  BY DEF Picked
<1>4. ASSUME NEW s \in SUBSET m, s # {} PROVE Rest(s) = h[s \ {Picked(s)}]
  <2> DEFINE u == s \ {Picked(s)}
             v == u \ {Picked(u)}
  <2>1. u \in SUBSET m /\ u # m /\ v \in SUBSET u  BY <1>3, <1>4
  <2>2. IsSumming(Summing(g, u), g, u)  BY <1>2, <2>1
  <2>3. CASE u = {}
    <3>1. Summing(g, u)[u] = 0  BY <2>2, <2>3 DEF IsSumming
    <3> QED BY <2>1, <2>3, <3>1
  <2>4. CASE u # {}
    <3>1. Summing(g, u)[u] = g[Picked(u)] + Summing(g, u)[v]
      BY <2>2, <2>4 DEF IsSumming
    <3>2. v # m /\ v \in SUBSET m  BY <2>1
    <3>3. IsSumming(Summing(g, v), g, v) /\ IsFiniteSet(v)  BY <1>2, <3>2
    <3>4. Summing(g, u)[v] = Summing(g, v)[v]
      <4> HIDE DEF u, v
      <4> QED BY <2>1, <2>2, <3>3, SummingUnique
    <3>5. h[u] = g[Picked(u)] + Rest(u)  BY <2>1, <2>4
    <3> QED BY <3>1, <3>4, <3>5
  <2> QED BY <2>3, <2>4
<1>5. IsSumming(h, g, m)
  <2>1. \A s \in SUBSET m : h[s] = IF s = {} THEN 0 ELSE g[Picked(s)] + h[s \ {Picked(s)}]
    BY <1>4
  <2> QED BY <2>1 DEF IsSumming
<1>6. IsSumming(Summing(g, m), g, m)  BY <1>5 DEF Summing
<1> QED BY <1>1, <1>6

(* The sum over a set, the element that is added first split off.            *)
LEMMA SumUnfold ==
  ASSUME NEW g, NEW S, IsFiniteSet(S)
  PROVE  SumFunctionOnSet(g, S) = IF S = {} THEN 0
                                  ELSE g[Picked(S)] + SumFunctionOnSet(g, S \ {Picked(S)})
<1> DEFINE T == S \ {Picked(S)}
<1>1. IsFiniteSet(T)  BY FS_Subset
<1>2. IsSumming(Summing(g, S), g, S) /\ IsSumming(Summing(g, T), g, T)
  BY <1>1, SummingExists
<1>3. Summing(g, S)[T] = Summing(g, T)[T]
  BY <1>1, <1>2, SummingUnique
<1>4. Summing(g, S)[S] = IF S = {} THEN 0 ELSE g[Picked(S)] + Summing(g, S)[T]
  BY <1>2 DEF IsSumming
<1> QED BY <1>3, <1>4, SumIsSumming

(* A sum over numbers is one.                                                *)
LEMMA SumType ==
  ASSUME NEW Typ \in {Int, Nat}, NEW g, NEW S, IsFiniteSet(S), \A x \in S : g[x] \in Typ
  PROVE  SumFunctionOnSet(g, S) \in Typ
<1> DEFINE Bad == {s \in SUBSET S : SumFunctionOnSet(g, s) \notin Typ}
<1> SUFFICES ASSUME Bad # {} PROVE FALSE  OBVIOUS
<1>1. PICK m \in Bad : \A u \in SUBSET m : u \in Bad => u = m
  <2> Bad \in SUBSET (SUBSET S)  OBVIOUS
  <2> HIDE DEF Bad
  <2> QED BY Smallest
<1>2. IsFiniteSet(m)  BY <1>1, FS_Subset
<1>3. CASE m = {}
  <2>1. SumFunctionOnSet(g, m) = 0  BY <1>2, <1>3, SumUnfold
  <2> QED BY <1>1, <2>1
<1>4. CASE m # {}
  <2>1. Picked(m) \in m  BY <1>4 DEF Picked
  <2>2. SumFunctionOnSet(g, m) = g[Picked(m)] + SumFunctionOnSet(g, m \ {Picked(m)})
    BY <1>2, <1>4, SumUnfold
  <2>3. SumFunctionOnSet(g, m \ {Picked(m)}) \in Typ  BY <1>1, <2>1
  <2>4. g[Picked(m)] \in Typ  BY <2>1, <1>1
  <2>5. SumFunctionOnSet(g, m) \in Typ  BY <2>2, <2>3, <2>4
  <2> QED BY <1>1, <2>5
<1> QED BY <1>3, <1>4

(* Any element may be split off.                                             *)
THEOREM SumRemove ==
  ASSUME NEW g, NEW S, IsFiniteSet(S), \A x \in S : g[x] \in Int, NEW e \in S
  PROVE  SumFunctionOnSet(g, S) = g[e] + SumFunctionOnSet(g, S \ {e})
<1> DEFINE Splits(s, x) == SumFunctionOnSet(g, s) = g[x] + SumFunctionOnSet(g, s \ {x})
           Bad == {s \in SUBSET S : \E x \in s : ~Splits(s, x)}
<1> SUFFICES ASSUME Bad # {} PROVE FALSE  OBVIOUS
<1>1. PICK m \in Bad : \A u \in SUBSET m : u \in Bad => u = m
  <2> Bad \in SUBSET (SUBSET S)  OBVIOUS
  <2> HIDE DEF Bad
  <2> QED BY Smallest
<1>2. PICK x \in m : ~Splits(m, x)  BY <1>1
<1> DEFINE c == Picked(m)
<1>3. IsFiniteSet(m) /\ m \in SUBSET S  BY <1>1, FS_Subset
<1>4. c \in m  BY <1>2 DEF Picked
<1>5. SumFunctionOnSet(g, m) = g[c] + SumFunctionOnSet(g, m \ {c})
  BY <1>2, <1>3, SumUnfold
<1>6. x # c  BY <1>2, <1>5
<1>7. SumFunctionOnSet(g, m \ {c}) = g[x] + SumFunctionOnSet(g, (m \ {c}) \ {x})
  <2>1. m \ {c} \notin Bad
    <3> HIDE DEF Bad, c
    <3> QED BY <1>1, <1>4
  <2>2. x \in m \ {c} /\ m \ {c} \in SUBSET S  BY <1>2, <1>3, <1>6
  <2> QED BY <2>1, <2>2
<1>8. SumFunctionOnSet(g, m \ {x}) = g[c] + SumFunctionOnSet(g, (m \ {x}) \ {c})
  <2>1. m \ {x} \notin Bad
    <3> HIDE DEF Bad
    <3> QED BY <1>1, <1>2
  <2>2. c \in m \ {x} /\ m \ {x} \in SUBSET S  BY <1>3, <1>4, <1>6
  <2> QED BY <2>1, <2>2
<1>9. (m \ {c}) \ {x} = (m \ {x}) \ {c} /\ IsFiniteSet((m \ {x}) \ {c})
  BY <1>3, FS_Subset
<1>10. SumFunctionOnSet(g, (m \ {x}) \ {c}) \in Int
  BY <1>3, <1>9, SumType
<1>11. g[x] \in Int /\ g[c] \in Int  BY <1>3, <1>2, <1>4
<1>12. SumFunctionOnSet(g, (m \ {c}) \ {x}) = SumFunctionOnSet(g, (m \ {x}) \ {c})  BY <1>9
<1>13. \A r, a, b \in Int : a + (b + r) = b + (a + r)  OBVIOUS
<1>14. Splits(m, x)
  <2> HIDE DEF c, Bad
  <2> QED BY <1>5, <1>7, <1>8, <1>10, <1>11, <1>12, <1>13
<1> QED BY <1>2, <1>14

THEOREM SumEmpty == ASSUME NEW g PROVE SumFunctionOnSet(g, {}) = 0
  BY FS_EmptySet, SumUnfold

THEOREM SumAdd ==
  ASSUME NEW g, NEW S, IsFiniteSet(S), NEW e, e \notin S, \A x \in S \cup {e} : g[x] \in Int
  PROVE  SumFunctionOnSet(g, S \cup {e}) = g[e] + SumFunctionOnSet(g, S)
<1>1. IsFiniteSet(S \cup {e})  BY FS_AddElement
<1>2. (S \cup {e}) \ {e} = S  OBVIOUS
<1> QED BY <1>1, <1>2, SumRemove

(* Only the values that are added matter.                                    *)
THEOREM SumSame ==
  ASSUME NEW g, NEW h, NEW S, IsFiniteSet(S), \A x \in S : g[x] = h[x]
  PROVE  SumFunctionOnSet(g, S) = SumFunctionOnSet(h, S)
<1> DEFINE Bad == {s \in SUBSET S : SumFunctionOnSet(g, s) # SumFunctionOnSet(h, s)}
<1> SUFFICES ASSUME Bad # {} PROVE FALSE  OBVIOUS
<1>1. PICK m \in Bad : \A u \in SUBSET m : u \in Bad => u = m
  <2> Bad \in SUBSET (SUBSET S)  OBVIOUS
  <2> HIDE DEF Bad
  <2> QED BY Smallest
<1>2. IsFiniteSet(m) /\ m \in SUBSET S  BY <1>1, FS_Subset
<1>3. m # {}  BY <1>1, SumEmpty
<1>4. Picked(m) \in m  BY <1>3 DEF Picked
<1>5. m \ {Picked(m)} \notin Bad
  <2> HIDE DEF Bad
  <2> QED BY <1>1, <1>4
<1>6. SumFunctionOnSet(g, m \ {Picked(m)}) = SumFunctionOnSet(h, m \ {Picked(m)})
  BY <1>2, <1>5
<1>7. SumFunctionOnSet(g, m) = SumFunctionOnSet(h, m)
  <2>1. SumFunctionOnSet(g, m) = g[Picked(m)] + SumFunctionOnSet(g, m \ {Picked(m)})
    BY <1>2, <1>3, SumUnfold
  <2>2. SumFunctionOnSet(h, m) = h[Picked(m)] + SumFunctionOnSet(h, m \ {Picked(m)})
    BY <1>2, <1>3, SumUnfold
  <2> QED BY <1>2, <1>4, <1>6, <2>1, <2>2
<1> QED BY <1>1, <1>7

THEOREM SumUnion ==
  ASSUME NEW g, NEW S, NEW T, IsFiniteSet(S), IsFiniteSet(T), S \cap T = {},
         \A x \in S \cup T : g[x] \in Int
  PROVE  SumFunctionOnSet(g, S \cup T) = SumFunctionOnSet(g, S) + SumFunctionOnSet(g, T)
<1> DEFINE Adds(s) == SumFunctionOnSet(g, s \cup T) = SumFunctionOnSet(g, s) + SumFunctionOnSet(g, T)
           Bad == {s \in SUBSET S : ~Adds(s)}
<1> SUFFICES ASSUME Bad # {} PROVE FALSE  OBVIOUS
<1>1. PICK m \in Bad : \A u \in SUBSET m : u \in Bad => u = m
  <2> Bad \in SUBSET (SUBSET S)  OBVIOUS
  <2> HIDE DEF Bad
  <2> QED BY Smallest
<1>2. IsFiniteSet(m) /\ m \in SUBSET S  BY <1>1, FS_Subset
<1>3. SumFunctionOnSet(g, T) \in Int  BY SumType
<1>4. m # {}
  <2> SUFFICES ASSUME m = {} PROVE Adds(m)  BY <1>1
  <2>1. SumFunctionOnSet(g, m) = 0 /\ m \cup T = T  BY SumEmpty
  <2> QED BY <1>3, <2>1
<1>5. PICK e : e \in m  BY <1>4
<1> DEFINE u == m \ {e}
<1>6. Adds(u)
  <2>1. u \notin Bad
    <3> HIDE DEF Bad
    <3> QED BY <1>1, <1>5
  <2> QED BY <1>2, <2>1
<1>7. SumFunctionOnSet(g, m) = g[e] + SumFunctionOnSet(g, u)
  BY <1>2, <1>5, SumRemove
<1>8. SumFunctionOnSet(g, m \cup T) = g[e] + SumFunctionOnSet(g, u \cup T)
  <2>1. IsFiniteSet(m \cup T) /\ e \in m \cup T /\ (m \cup T) \ {e} = u \cup T
    BY <1>2, <1>5, FS_Union
  <2>2. \A x \in m \cup T : g[x] \in Int  BY <1>2
  <2> HIDE DEF u
  <2> QED BY <2>1, <2>2, SumRemove
<1>9. SumFunctionOnSet(g, u) \in Int /\ g[e] \in Int
  <2>1. IsFiniteSet(u) /\ u \in SUBSET S  BY <1>2, FS_Subset
  <2> QED BY <1>2, <1>5, <2>1, SumType
<1>10. Adds(m)
  <2> HIDE DEF u
  <2> QED BY <1>3, <1>6, <1>7, <1>8, <1>9
<1> QED BY <1>1, <1>10

THEOREM SumZero ==
  ASSUME NEW g, NEW S, IsFiniteSet(S), \A x \in S : g[x] = 0
  PROVE  SumFunctionOnSet(g, S) = 0
<1> DEFINE Bad == {s \in SUBSET S : SumFunctionOnSet(g, s) # 0}
<1> SUFFICES ASSUME Bad # {} PROVE FALSE  OBVIOUS
<1>1. PICK m \in Bad : \A u \in SUBSET m : u \in Bad => u = m
  <2> Bad \in SUBSET (SUBSET S)  OBVIOUS
  <2> HIDE DEF Bad
  <2> QED BY Smallest
<1>2. IsFiniteSet(m) /\ m \in SUBSET S  BY <1>1, FS_Subset
<1>3. m # {}  BY <1>1, SumEmpty
<1>4. Picked(m) \in m  BY <1>3 DEF Picked
<1>5. m \ {Picked(m)} \notin Bad
  <2> HIDE DEF Bad
  <2> QED BY <1>1, <1>4
<1>6. SumFunctionOnSet(g, m) = g[Picked(m)] + SumFunctionOnSet(g, m \ {Picked(m)})
  BY <1>2, <1>3, SumUnfold
<1> QED BY <1>1, <1>2, <1>4, <1>5, <1>6

(* A sum of equal values is their number times the value.                    *)
THEOREM SumConstant ==
  ASSUME NEW g, NEW S, IsFiniteSet(S), NEW c \in Int, \A x \in S : g[x] = c
  PROVE  SumFunctionOnSet(g, S) = c * Cardinality(S)
<1> DEFINE Times(s) == SumFunctionOnSet(g, s) = c * Cardinality(s)
           Bad == {s \in SUBSET S : ~Times(s)}
<1> SUFFICES ASSUME Bad # {} PROVE FALSE  OBVIOUS
<1>1. PICK m \in Bad : \A u \in SUBSET m : u \in Bad => u = m
  <2> Bad \in SUBSET (SUBSET S)  OBVIOUS
  <2> HIDE DEF Bad
  <2> QED BY Smallest
<1>2. IsFiniteSet(m) /\ m \in SUBSET S  BY <1>1, FS_Subset
<1>3. m # {}
  <2>1. SumFunctionOnSet(g, {}) = 0  BY SumEmpty
  <2>2. Cardinality({}) = 0 /\ c * 0 = 0  BY FS_EmptySet
  <2>3. Times({})  BY <2>1, <2>2, Zenon
  <2> HIDE DEF Times
  <2> QED BY <1>1, <2>3
<1>4. PICK e : e \in m  BY <1>3
<1> DEFINE u == m \ {e}
<1>5. Times(u) /\ IsFiniteSet(u) /\ u \in SUBSET S
  <2>1. u \notin Bad
    <3> HIDE DEF Bad
    <3> QED BY <1>1, <1>4
  <2> QED BY <1>2, <2>1, FS_Subset
<1>6. SumFunctionOnSet(g, m) = c + SumFunctionOnSet(g, u)
  <2>1. g[e] = c  BY <1>2, <1>4
  <2>2. \A x \in m : g[x] \in Int  BY <1>2
  <2> QED BY <1>2, <1>4, <2>1, <2>2, SumRemove
<1>7. Cardinality(m) = Cardinality(u) + 1 /\ Cardinality(u) \in Nat
  <2>1. Cardinality(m) \in Nat /\ Cardinality(u) \in Nat  BY <1>2, <1>5, FS_CardinalityType
  <2>2. Cardinality(u) = Cardinality(m) - 1  BY <1>2, <1>4, FS_RemoveElement
  <2> QED BY <2>1, <2>2
<1>8. Times(m)
  <2>1. \A n \in Nat : c + (c * n) = c * (n + 1)  OBVIOUS
  <2> HIDE DEF u
  <2> QED BY <1>5, <1>6, <1>7, <2>1
<1> QED BY <1>1, <1>8

(* A finite set of integers has a greatest element.                          *)
THEOREM MaxIsGreatest ==
  ASSUME NEW S, IsFiniteSet(S), \A x \in S : x \in Int, S # {}
  PROVE  Max(S) \in S /\ \A y \in S : Max(S) >= y
<1> DEFINE Greatest(s) == \E x \in s : \A y \in s : x >= y
           Bad == {s \in SUBSET S : s # {} /\ ~Greatest(s)}
<1> SUFFICES ASSUME Bad # {} PROVE FALSE  BY DEF Max
<1>1. PICK m \in Bad : \A u \in SUBSET m : u \in Bad => u = m
  <2>1. Bad \in SUBSET (SUBSET S)  OBVIOUS
  <2> HIDE DEF Bad
  <2> QED BY <2>1, Smallest
<1>2. m # {} /\ m \in SUBSET Int  BY <1>1
<1>3. PICK e : e \in m  BY <1>2
<1>4. m \ {e} \notin Bad
  <2> HIDE DEF Bad
  <2> QED BY <1>1, <1>3
<1>5. Greatest(m)
  <2>1. CASE m \ {e} = {}
    <3>1. \A y \in m : e >= y  BY <1>2, <1>3, <2>1
    <3> QED BY <1>3, <3>1
  <2>2. CASE m \ {e} # {}
    <3>1. PICK x \in m \ {e} : \A y \in m \ {e} : x >= y  BY <1>1, <1>4, <2>2
    <3>2. x \in Int /\ e \in Int  BY <1>2, <1>3
    <3>3. \A y \in m : (IF x >= e THEN x ELSE e) >= y
      BY <1>2, <3>1, <3>2, SMT
    <3>4. (IF x >= e THEN x ELSE e) \in m  BY <1>3, <3>1
    <3> QED BY <3>3, <3>4
  <2> QED BY <2>1, <2>2
<1> QED BY <1>1, <1>5

LEMMA ImageFinite == ASSUME NEW S, IsFiniteSet(S), NEW f PROVE IsFiniteSet({f[x] : x \in S})
<1> DEFINE T == {f[x] : x \in S}
           g == [x \in S |-> f[x]]
<1>1. g \in Surjection(S, T)
  BY DEF Surjection
<1> HIDE DEF g, T
<1> QED
  BY <1>1, FS_Surjection DEF T

(* ... and a least one.                                                      *)
LEMMA MinIsLeast ==
  ASSUME NEW S, IsFiniteSet(S), S \subseteq Int, S # {}
  PROVE  \E x \in S : \A y \in S : x <= y
<1> DEFINE f == [x \in S |-> -x]
           N == {f[x] : x \in S}
<1>1. IsFiniteSet(N) /\ N # {} /\ \A x \in N : x \in Int
  <2>1. \A x \in S : f[x] \in Int
    OBVIOUS
  <2> HIDE DEF f
  <2> QED
    BY <2>1, ImageFinite
<1>2. PICK m \in N : \A y \in N : m >= y
  <2> HIDE DEF N
  <2> QED
    BY <1>1, MaxIsGreatest
<1>3. PICK x \in S : m = -x
  OBVIOUS
<1>4. \A y \in S : x <= y
  <2> SUFFICES ASSUME NEW y \in S PROVE x <= y
    OBVIOUS
  <2>1. -y \in N
    OBVIOUS
  <2>2. m >= -y
    BY <1>2, <2>1
  <2> QED
    BY <1>3, <2>2
<1> QED
  BY <1>4
-----------------------------------------------------------------------------
(* Division, and its remainder.                                              *)
LEMMA DivMod ==
  ASSUME NEW a \in Nat, NEW n \in Nat \ {0}
  PROVE  /\ a \div n \in Nat /\ a % n \in 0..(n - 1)
         /\ a = (n * (a \div n)) + (a % n)
BY SMT

LEMMA DivModUnique ==
  ASSUME NEW n \in Nat \ {0}, NEW q \in Nat, NEW r \in 0..(n - 1)
  PROVE  ((n * q) + r) % n = r /\ ((n * q) + r) \div n = q
BY SMT

LEMMA Multiple ==
  ASSUME NEW n \in Nat \ {0}, NEW q \in Nat
  PROVE  (n * q) % n = 0 /\ n * q \in Nat
<1>1. n * q \in Nat /\ 0 \in 0..(n - 1) /\ (n * q) + 0 = n * q
  BY SMT
<1> QED
  BY <1>1, DivModUnique, Zenon

LEMMA AsMultiple ==
  ASSUME NEW n \in Nat \ {0}, NEW m \in Nat, m % n = 0
  PROVE  \E q \in Nat : m = n * q
<1>1. m \div n \in Nat /\ m = (n * (m \div n)) + 0
  BY DivMod
<1>2. m = n * (m \div n)
  BY <1>1, SMT
<1> QED
  BY <1>1, <1>2

(* By so many intervals a number is passed. *)
LEMMA PassedBy ==
  ASSUME NEW n \in Nat \ {0}, NEW a \in Nat
  PROVE  a \div n \in Nat /\ a < n * ((a \div n) + 1)
BY DivMod, SMT

(* What falls on the doubled stride fell on the stride. *)
LEMMA MultipleTwice ==
  ASSUME NEW a \in Nat, NEW n \in Nat \ {0}, a % (n * 2) = 0
  PROVE  a % n = 0
<1>1. PICK q \in Nat : a = (n * 2) * q
  BY DivMod
<1>2. a = n * (2 * q) /\ 2 * q \in Nat
  BY <1>1
<1> QED
  BY <1>2, Multiple

(* Between a number and a later multiple lies the end of an interval. *)
LEMMA LaterInterval ==
  ASSUME NEW n \in Nat \ {0}, NEW a \in Nat, NEW m \in Nat, NEW b \in Nat,
         a < m, m % n = 0, m <= b
  PROVE  b \div n > a \div n
<1>1. PICK q \in Nat : m = n * q
  BY DivMod
<1>2. a \div n < q
  BY <1>1, DivMod, SMT
<1>3. b \div n >= q
  BY <1>1, DivMod, SMT
<1> QED
  BY <1>2, <1>3, DivMod

(* A number written with three digits, the lower two of base B and A.         *)
LEMMA Digits ==
  ASSUME NEW A \in Nat \ {0}, NEW B \in Nat \ {0}, NEW n \in Nat
  PROVE  /\ n \div (B * A) \in Nat /\ (n \div A) % B \in 0..(B - 1) /\ n % A \in 0..(A - 1)
         /\ n = ((((n \div (B * A)) * B) + ((n \div A) % B)) * A) + (n % A)
<1>1. n \div A \in Nat /\ n % A \in 0..(A - 1) /\ n = (A * (n \div A)) + (n % A)
  BY DivMod
<1> DEFINE q == n \div A
           z == n % A
           x == q \div B
           y == q % B
<1>2. x \in Nat /\ y \in 0..(B - 1) /\ q = (B * x) + y
  BY <1>1, DivMod
<1>3. B * A \in Nat \ {0}
  BY SMT
<1>4. n = ((B * A) * x) + ((A * y) + z)
  <2> HIDE DEF q, x, y, z
  <2>1. n = (A * ((B * x) + y)) + z
    BY <1>1, <1>2 DEF q, z
  <2>2. z \in Nat /\ y \in Nat
    BY <1>1, <1>2 DEF z
  <2> QED
    BY <1>2, <2>1, <2>2, SMT
<1>5. (A * y) + z \in 0..((B * A) - 1)
  <2> HIDE DEF q, x, y, z
  <2>1. z \in 0..(A - 1)
    BY <1>1 DEF z
  <2>2. A * y <= A * (B - 1)
    BY <1>2, SMT
  <2> QED
    BY <1>2, <2>1, <2>2, SMT
<1>6. n \div (B * A) = x
  <2> HIDE DEF q, x, y, z
  <2> DEFINE m == B * A
             r == (A * y) + z
  <2>1. m \in Nat \ {0} /\ r \in 0..(m - 1) /\ n = (m * x) + r
    BY <1>3, <1>4, <1>5
  <2> HIDE DEF m, r
  <2>2. n \div m = x
    BY <1>2, <2>1, DivModUnique
  <2> QED
    BY <2>2 DEF m
<1>7. n = (((x * B) + y) * A) + z
  <2> HIDE DEF q, x, y, z
  <2>2. q \in Nat /\ z \in Nat /\ y \in Nat /\ x \in Nat
    BY <1>1, <1>2 DEF q, z
  <2> QED
    BY <1>1, <1>2, <2>2, SMT DEF q, z
<1> QED
  BY <1>1, <1>2, <1>6, <1>7

(* The same, folded: what the digits of n make is n.                         *)
Recomposed(n, B, A) ==
  /\ n \div (B * A) \in Nat
  /\ n = ((((n \div (B * A)) * B) + ((n \div A) % B)) * A) + (n % A)
LEMMA DigitsMake == \A A, B \in Nat \ {0} : \A n \in Nat : Recomposed(n, B, A)
<1> SUFFICES ASSUME NEW A \in Nat \ {0}, NEW B \in Nat \ {0}, NEW n \in Nat
             PROVE  Recomposed(n, B, A)
  BY Zenon
<1>1. /\ n \div (B * A) \in Nat
      /\ n = ((((n \div (B * A)) * B) + ((n \div A) % B)) * A) + (n % A)
  BY Digits
<1> QED
  BY <1>1, Zenon DEF Recomposed

(* A number written with three digits, the last below A and the middle one   *)
(* below B, and the digits read off a number.                                *)
Numeral(B, A, x, y, z) == (((x * B) + y) * A) + z

HasDigits(n, B, A, x, y, z) ==
  n \in Nat /\ n \div (B * A) = x /\ (n \div A) % B = y /\ n % A = z

LEMMA DigitsUnique ==
  \A A, B \in Nat \ {0} :
    \A x \in Nat, y \in 0..(B - 1), z \in 0..(A - 1) :
      HasDigits(Numeral(B, A, x, y, z), B, A, x, y, z)
<1> SUFFICES ASSUME NEW A \in Nat \ {0}, NEW B \in Nat \ {0},
                    NEW x \in Nat, NEW y \in 0..(B - 1), NEW z \in 0..(A - 1)
             PROVE  HasDigits(Numeral(B, A, x, y, z), B, A, x, y, z)
  BY Zenon
<1> SUFFICES ASSUME NEW n, n = (((x * B) + y) * A) + z
             PROVE  n \in Nat /\ n \div (B * A) = x /\ (n \div A) % B = y /\ n % A = z
  BY Zenon DEF Numeral, HasDigits
<1> DEFINE q == (x * B) + y
<1>1. q \in Nat /\ q = (B * x) + y
  BY SMT
<1>2. q % B = y /\ q \div B = x
  BY <1>1, DivModUnique
<1>3. n = (A * q) + z
  <2>1. n = (q * A) + z
    OBVIOUS
  <2> HIDE DEF q
  <2> QED
    BY <1>1, <2>1, SMT
<1>4. n % A = z /\ n \div A = q /\ n \in Nat
  <2> HIDE DEF q
  <2>1. n \in Nat
    BY <1>1, <1>3, SMT
  <2> QED
    BY <1>1, <1>3, <2>1, DivModUnique
<1>5. n \div (B * A) \in Nat /\ n = ((((n \div (B * A)) * B) + y) * A) + z
  <2>1. n \in Nat
    BY <1>4
  <2>2. /\ n \div (B * A) \in Nat
        /\ n = ((((n \div (B * A)) * B) + ((n \div A) % B)) * A) + (n % A)
    <3>1. Recomposed(n, B, A)
      BY <2>1, DigitsMake, Zenon
    <3> QED
      BY <3>1, Zenon DEF Recomposed
  <2>3. (n \div A) % B = y /\ n % A = z
    <3> HIDE DEF q
    <3> QED
      BY <1>2, <1>4, Zenon
  <2> QED
    BY <2>2, <2>3, Zenon
<1>6. n \div (B * A) = x
  <2> DEFINE x2 == n \div (B * A)
             q2 == (x2 * B) + y
  <2>1. x2 \in Nat /\ q2 \in Nat /\ n = (q2 * A) + z
    BY <1>5, SMT
  <2>2. n \div A = q2
    <3> HIDE DEF q2
    <3>1. n = (A * q2) + z
      BY <2>1, SMT
    <3> QED
      BY <2>1, <3>1, DivModUnique
  <2>3. (x2 * B) + y = (B * x) + y
    BY <1>1, <1>4, <2>2
  <2>4. (B * x2) + y = (x2 * B) + y
    <3> HIDE DEF x2
    <3> QED
      BY <2>1, SMT
  <2>5. q \div B = x2
    <3> HIDE DEF x2, q
    <3> QED
      BY <1>1, <2>1, <2>3, <2>4, DivModUnique
  <2> QED
    BY <1>2, <2>5
<1> QED
  BY <1>2, <1>4, <1>6
-----------------------------------------------------------------------------
(* The i-th smallest of some numbers is one of them.                         *)
LEMMA NthIsOne ==
  ASSUME NEW K, IsFiniteSet(K), NEW f, \A k \in K : f[k] \in Int,
         NEW i \in 1..Cardinality(K)
  PROVE  Nth(K, f, i) \in {f[k] : k \in K}
<1> DEFINE Values == {f[k] : k \in K}
           Less(v) == {k \in K : f[k] < v}
           UpTo(v) == {k \in K : f[k] <= v}
           Enough == {v \in Values : i <= Cardinality(UpTo(v))}
<1>1. IsFiniteSet(Values) /\ Values \subseteq Int
  BY ImageFinite
<1>2. Cardinality(K) \in Nat /\ K # {}
  BY FS_CardinalityType, FS_EmptySet
<1>3. \A v \in Values : /\ IsFiniteSet(Less(v)) /\ Cardinality(Less(v)) \in Nat
                         /\ IsFiniteSet(UpTo(v)) /\ Cardinality(UpTo(v)) \in Nat
  BY FS_Subset, FS_CardinalityType
<1>4. Enough # {}
  <2> DEFINE m == Max(Values)
  <2>1. m \in Values /\ \A v \in Values : m >= v
    <3> HIDE DEF Values
    <3>1. Values # {}
      BY <1>2 DEF Values
    <3> QED
      BY <1>1, <3>1, MaxIsGreatest
  <2> HIDE DEF m
  <2>2. UpTo(m) = K
    BY <1>1, <2>1
  <2>3. m \in Enough
    <3>1. i <= Cardinality(UpTo(m))
      <4> HIDE DEF UpTo
      <4> QED
        BY <1>2, <2>2
    <3> HIDE DEF UpTo, Values
    <3> QED
      BY <2>1, <3>1
  <2> QED
    BY <2>3
<1>5. PICK v \in Enough : \A w \in Enough : v <= w
  <2>1. IsFiniteSet(Enough) /\ Enough \subseteq Int
    BY <1>1, FS_Subset
  <2> HIDE DEF Enough
  <2> QED
    BY <1>4, <2>1, MinIsLeast
<1>6. Cardinality(Less(v)) < i
  <2> SUFFICES ASSUME i <= Cardinality(Less(v)) PROVE FALSE
    <3>1. Cardinality(Less(v)) \in Nat
      BY <1>3, <1>5
    <3> HIDE DEF Less
    <3> QED
      BY <1>2, <3>1
  <2> DEFINE Below == {f[k] : k \in Less(v)}
             w == Max(Below)
  <2>1. Less(v) # {} /\ IsFiniteSet(Less(v))
    <3>1. IsFiniteSet(Less(v)) /\ Cardinality(Less(v)) \in Nat
      BY <1>3, <1>5
    <3> HIDE DEF Less
    <3> QED
      BY <1>2, <3>1, FS_EmptySet
  <2>2. w \in Below /\ \A x \in Below : w >= x
    <3>1. IsFiniteSet(Below) /\ Below # {} /\ \A x \in Below : x \in Int
      <4>1. Below # {} /\ \A x \in Below : x \in Int
        BY <2>1
      <4>2. IsFiniteSet(Below)
        BY <2>1, ImageFinite
      <4> QED
        BY <4>1, <4>2
    <3> HIDE DEF Below
    <3> QED
      BY <3>1, MaxIsGreatest
  <2> HIDE DEF w
  <2>3. w \in Values /\ w < v /\ w \in Int /\ v \in Int
    BY <1>1, <2>2
  <2>4. Less(v) \subseteq UpTo(w)
    BY <2>2, <2>3
  <2>5. Cardinality(Less(v)) <= Cardinality(UpTo(w))
    <3>1. IsFiniteSet(UpTo(w))
      BY <1>3, <2>3
    <3> HIDE DEF Less, UpTo
    <3> QED
      BY <2>4, <3>1, FS_Subset
  <2>6. w \in Enough
    <3>1. Cardinality(Less(v)) \in Nat /\ Cardinality(UpTo(w)) \in Nat
      BY <1>3, <1>5, <2>3
    <3> HIDE DEF Less, UpTo
    <3>2. i <= Cardinality(UpTo(w))
      BY <2>5, <3>1
    <3> QED
      BY <2>3, <3>2
  <2> HIDE DEF Enough
  <2> QED
    BY <1>5, <2>3, <2>6
<1>7. v \in Values /\ Cardinality(Less(v)) < i /\ i <= Cardinality(UpTo(v))
  BY <1>5, <1>6
<1> QED
  BY <1>7, Zenon DEF Nth
=============================================================================
