----------------------------- MODULE PlanProofs -----------------------------
(***************************************************************************)
(* What holds of the text of a derived configuration for every text and     *)
(* size; and of the plan, of the engine loads it costs and of the time that *)
(* is estimated, for every set of axes and every course of the sweep.       *)
(***************************************************************************)
EXTENDS ConfigVariants, NumberTheorems, SequenceTheorems

(* A line of a configuration, and a text as it is stored: not empty at its   *)
(* ends, and not indented at its beginning.  (No prover knows that the two   *)
(* keys are strings.)                                                        *)
TextLine == [key : STRING \cup TpKeys, indent : Nat, value : Int, comment : BOOLEAN]
Trimmed(t) ==
  /\ t \in Seq(TextLine) /\ Len(t) \in Nat \ {0}
  /\ ~Blank(t[1]) /\ ~Blank(t[Len(t)]) /\ t[1].indent = 0

LEMMA EndsAre ==
  ASSUME NEW S, IsFiniteSet(S), S \subseteq Nat, S # {}
  PROVE  /\ Min(S) \in S /\ \A y \in S : Min(S) <= y
         /\ Max(S) \in S /\ \A y \in S : Max(S) >= y
<1>1. S \subseteq Int /\ \A y \in S : y \in Int
  OBVIOUS
<1>2. \E x \in S : \A y \in S : x <= y
  BY <1>1, MinIsLeast
<1>3. Min(S) \in S /\ \A y \in S : Min(S) <= y
  BY <1>2, Zenon DEF Min
<1>4. Max(S) \in S /\ \A y \in S : Max(S) >= y
  BY <1>1, MaxIsGreatest
<1> QED
  BY <1>3, <1>4

LEMMA LinesFinite ==
  ASSUME NEW t \in Seq(TextLine)
  PROVE  /\ Len(t) \in Nat /\ DOMAIN t = 1..Len(t) /\ IsFiniteSet(DOMAIN t)
         /\ \A i \in DOMAIN t : t[i] \in TextLine
<1>1. Len(t) \in Nat /\ DOMAIN t = 1..Len(t) /\ t \in [1..Len(t) -> TextLine]
  BY LenProperties
<1>2. IsFiniteSet(1..Len(t))
  BY <1>1, FS_Interval
<1> QED
  BY <1>1, <1>2

(* The ends of what is written in a text.                                    *)
LEMMA WrittenEnds ==
  ASSUME NEW t \in Seq(TextLine), Written(t) # {}
  PROVE  /\ Min(Written(t)) \in Written(t) /\ Max(Written(t)) \in Written(t)
         /\ Min(Written(t)) \in 1..Len(t) /\ Max(Written(t)) \in Min(Written(t))..Len(t)
         /\ \A i \in Written(t) : Min(Written(t)) <= i /\ i <= Max(Written(t))
<1> DEFINE W == Written(t)
<1>1. W \in SUBSET (1..Len(t)) /\ Len(t) \in Nat /\ IsFiniteSet(1..Len(t))
  <2>1. DOMAIN t = 1..Len(t) /\ Len(t) \in Nat /\ IsFiniteSet(DOMAIN t)
    BY LinesFinite
  <2> QED
    BY <2>1 DEF Written
<1> HIDE DEF W
<1>2. IsFiniteSet(W) /\ W \subseteq Nat /\ W # {}
  <2>1. IsFiniteSet(W)
    BY <1>1, FS_Subset
  <2> QED
    BY <1>1, <2>1 DEF W
<1>3. Min(W) \in W /\ (\A y \in W : Min(W) <= y) /\ Max(W) \in W /\ \A y \in W : Max(W) >= y
  BY <1>2, EndsAre
<1> DEFINE a == Min(W)
           b == Max(W)
<1> HIDE DEF a, b
<1>4. a \in W /\ b \in W /\ \A y \in W : a <= y /\ y <= b
  <2>1. a \in W /\ b \in W /\ (\A y \in W : a <= y) /\ \A y \in W : b >= y
    BY <1>3 DEF a, b
  <2> QED
    BY <1>2, <2>1
<1>5. a \in 1..Len(t) /\ b \in a..Len(t)
  BY <1>1, <1>4
<1> QED
  BY <1>4, <1>5 DEF a, b, W

LEMMA NormalizedIs ==
  ASSUME NEW t \in Seq(TextLine) PROVE Normalized(t) = <<>> \/ Trimmed(Normalized(t))
<1>1. CASE Written(t) = {}
  BY <1>1 DEF Normalized
<1>2. CASE Written(t) # {}
  <2> DEFINE a == Min(Written(t))
             b == Max(Written(t))
             s == SubSeq(t, a, b)
             n == Len(s)
  <2>1. /\ a \in Written(t) /\ b \in Written(t)
        /\ a \in 1..Len(t) /\ b \in a..Len(t)
    BY <1>2, WrittenEnds
  <2>2. Len(t) \in Nat /\ DOMAIN t = 1..Len(t) /\ \A i \in DOMAIN t : t[i] \in TextLine
    BY LinesFinite
  <2> HIDE DEF a, b
  <2>3. a \in Int /\ b \in Int /\ a <= b /\ \A i \in a..b : t[i] \in TextLine
    BY <2>1, <2>2
  <2>4. s \in Seq(TextLine) /\ n = (b - a) + 1 /\ \A i \in 1..((b - a) + 1) : s[i] = t[(a + i) - 1]
    BY <2>3, SubSeqProperties
  <2>5. n \in Nat \ {0} /\ s[1] = t[a] /\ s[n] = t[b] /\ 1 \in 1..n /\ n \in 1..n
    <3>1. (a + 1) - 1 = a /\ (a + ((b - a) + 1)) - 1 = b
      BY <2>3
    <3>2. 1 \in 1..((b - a) + 1) /\ (b - a) + 1 \in 1..((b - a) + 1) /\ (b - a) + 1 \in Nat \ {0}
      BY <2>3
    <3> HIDE DEF s, n
    <3> QED
      BY <2>4, <3>1, <3>2
  <2>6. ~Blank(s[1]) /\ ~Blank(s[n])
    BY <2>1, <2>5 DEF Written
  <2>7. Normalized(t) = [s EXCEPT ![1].indent = 0]
    BY <1>2, Zenon DEF Normalized, a, b
  <2> HIDE DEF s, n
  <2> DEFINE first == [s[1] EXCEPT !.indent = 0]
             u == [s EXCEPT ![1] = first]
  <2>8. s[1] \in TextLine /\ Len(s) = n
    BY <2>4, <2>5, ElementOfSeq DEF n
  <2>9. first \in TextLine /\ first.indent = 0 /\ first.key = s[1].key
    BY <2>8 DEF TextLine
  <2>10. Normalized(t) = u
    BY <2>7
  <2> HIDE DEF first
  <2>11. u \in Seq(TextLine) /\ Len(u) = n /\ \A j \in 1..n : u[j] = IF j = 1 THEN first ELSE s[j]
    BY <2>4, <2>5, <2>8, <2>9, ExceptSeq
  <2>12. ~Blank(u[1]) /\ ~Blank(u[n]) /\ u[1].indent = 0
    <3> HIDE DEF u
    <3> QED
      BY <2>5, <2>6, <2>9, <2>11 DEF Blank
  <2> HIDE DEF u
  <2>13. Trimmed(u)
    BY <2>5, <2>11, <2>12 DEF Trimmed
  <2> QED
    BY <2>10, <2>13, Zenon
<1> QED
  BY <1>1, <1>2

LEMMA TrimmedStays == ASSUME NEW t, Trimmed(t) PROVE Normalized(t) = t /\ Written(t) # {}
<1>1. /\ t \in Seq(TextLine) /\ Len(t) \in Nat \ {0} /\ DOMAIN t = 1..Len(t)
      /\ t[1].indent = 0 /\ t[1] \in TextLine
      /\ 1 \in Written(t) /\ Len(t) \in Written(t)
  BY LinesFinite DEF Trimmed, Written
<1> DEFINE a == Min(Written(t))
           b == Max(Written(t))
<1>2. a \in 1..Len(t) /\ b \in a..Len(t) /\ \A i \in Written(t) : a <= i /\ i <= b
  BY <1>1, WrittenEnds
<1> HIDE DEF a, b
<1>3. a = 1 /\ b = Len(t)
  BY <1>1, <1>2
<1>4. SubSeq(t, a, b) = t
  BY <1>1, <1>3, SubSeqFull
<1>5. Normalized(t) = [t EXCEPT ![1].indent = 0]
  <2>1. Normalized(t) = [SubSeq(t, a, b) EXCEPT ![1].indent = 0]
    BY <1>1 DEF Normalized, a, b
  <2> QED
    BY <1>4, <2>1
<1>6. [t[1] EXCEPT !.indent = 0] = t[1]
  BY <1>1 DEF TextLine
<1>7. [t EXCEPT ![1].indent = 0] = [t EXCEPT ![1] = [t[1] EXCEPT !.indent = 0]]
  OBVIOUS
<1>8. [t EXCEPT ![1] = t[1]] = t
  BY <1>1
<1>9. Normalized(t) = t
  BY <1>5, <1>6, <1>7, <1>8, Zenon
<1> QED
  BY <1>1, <1>9

LEMMA TpIs ==
  ASSUME NEW n \in Int, NEW m \in Int
  PROVE  LET line == Tp("tensor-parallel-size", n) IN
         /\ line \in TextLine /\ line.value = n /\ line.indent = 0
         /\ line.key = "tensor-parallel-size"
         /\ [line EXCEPT !.value = m] = Tp("tensor-parallel-size", m)
<1> DEFINE said == FALSE
           word == "tensor-parallel-size"
           none == 0
           Of(x) == [key |-> word, indent |-> none, value |-> x, comment |-> said]
<1>1. said \in BOOLEAN /\ word \in TpKeys /\ none \in Nat
  <2>1. said \in BOOLEAN
    BY Zenon
  <2>2. word \in TpKeys
    BY DEF TpKeys
  <2>3. none \in Nat
    OBVIOUS
  <2> HIDE DEF said, word, none
  <2> QED
    BY <2>1, <2>2, <2>3
<1>2. Tp("tensor-parallel-size", n) = Of(n) /\ Tp("tensor-parallel-size", m) = Of(m)
  BY Zenon DEF Tp
<1> HIDE DEF said, word, none
<1>3. Of(n) \in TextLine /\ Of(n).value = n /\ Of(n).indent = none /\ Of(n).key = word
  <2>1. Of(n) \in TextLine
    BY <1>1 DEF TextLine
  <2> QED
    BY <2>1
<1>4. [Of(n) EXCEPT !.value = m] = Of(m)
  OBVIOUS
<1> HIDE DEF Of
<1> QED
  BY <1>2, <1>3, <1>4 DEF word, none

(* A variant has one tensor-parallel line, which says its size: the one that *)
(* was there, or a last one.                                                 *)
Sized(t, n, v, k) ==
  /\ Trimmed(v) /\ TpLines(v) = {k} /\ k \in 1..Len(v) /\ v[k].value = n
  /\ \A i \in 1..Len(t) : i # k => v[i] = t[i]
  /\ \/ TpLines(t) = {} /\ k = Len(t) + 1 /\ Len(v) = Len(t) + 1 /\ v[k] = Tp("tensor-parallel-size", n)
     \/ TpLines(t) = {k} /\ Len(v) = Len(t) /\ v[k] = [t[k] EXCEPT !.value = n]

LEMMA VariantIs ==
  ASSUME NEW t, Trimmed(t), ~Ambiguous(t), NEW n \in Int
  PROVE  \E k : Sized(t, n, Variant(t, n), k)
<1>1. /\ t \in Seq(TextLine) /\ Len(t) \in Nat \ {0} /\ DOMAIN t = 1..Len(t)
      /\ t[1].indent = 0 /\ ~Blank(t[1]) /\ ~Blank(t[Len(t)])
      /\ \A i \in 1..Len(t) : t[i] \in TextLine
  BY LinesFinite DEF Trimmed
<1> DEFINE v == Variant(t, n)
<1>2. CASE TpLines(t) = {}
  <2> DEFINE line == Tp("tensor-parallel-size", n)
             k == Len(t) + 1
  <2>1. line \in TextLine /\ line.value = n /\ line.key \in TpKeys /\ line.indent = 0 /\ ~Blank(line)
    <3> HIDE DEF line
    <3>1. /\ line \in TextLine /\ line.value = n /\ line.indent = 0
          /\ line.key = "tensor-parallel-size"
      BY TpIs DEF line
    <3> QED
      BY <3>1 DEF TpKeys, Blank
  <2>2. v = Append(t, line)
    BY <1>2, Zenon DEF Variant
  <2> HIDE DEF line, v
  <2>3. v \in Seq(TextLine) /\ Len(v) = k /\ (\A i \in 1..Len(t) : v[i] = t[i]) /\ v[k] = line
    BY <1>1, <2>1, <2>2, AppendProperties
  <2>4. /\ k \in 1..k /\ 1 \in 1..Len(t) /\ k \in Nat \ {0} /\ DOMAIN v = 1..k
        /\ \A i \in 1..k : i = k \/ i \in 1..Len(t)
    BY <1>1, <2>3, LenProperties
  <2>5. TpLines(v) = {k}
    <3>1. \A i \in 1..Len(t) : ~(t[i].key \in TpKeys /\ t[i].indent = 0)
      BY <1>1, <1>2 DEF TpLines
    <3> HIDE DEF k
    <3>2. k \notin 1..Len(t)
      BY <1>1 DEF k
    <3> QED
      BY <2>1, <2>3, <2>4, <3>1 DEF TpLines
  <2> HIDE DEF k
  <2>6. Trimmed(v)
    BY <1>1, <2>1, <2>3, <2>4 DEF Trimmed
  <2>7. Sized(t, n, v, k)
    <3>1. k = Len(t) + 1 /\ v[k] = Tp("tensor-parallel-size", n)
      BY <2>3 DEF k, line
    <3> QED
      BY <1>2, <2>1, <2>3, <2>4, <2>5, <2>6, <3>1 DEF Sized
  <2> QED
    BY <2>7 DEF v
<1>3. CASE TpLines(t) # {}
  <2> DEFINE k == CHOOSE i \in TpLines(t) : TRUE
             line == [t[k] EXCEPT !.value = n]
  <2>1. k \in TpLines(t)
    BY <1>3
  <2>2. v = [t EXCEPT ![k].value = n]
    BY <1>3, Zenon DEF Variant
  <2> HIDE DEF k, v
  <2>3. v = [t EXCEPT ![k] = line]
    BY <2>2
  <2>4. TpLines(t) = {k}
    BY <2>1 DEF Ambiguous
  <2>5. k \in 1..Len(t) /\ t[k].key \in TpKeys /\ t[k].indent = 0 /\ t[k] \in TextLine
    BY <1>1, <2>1 DEF TpLines
  <2>6. /\ line \in TextLine /\ line.value = n /\ line.key \in TpKeys /\ line.indent = 0
        /\ ~Blank(line)
    BY <2>5 DEF TextLine, Blank, TpKeys
  <2> DEFINE new == line
  <2> HIDE DEF line
  <2>7. /\ v \in Seq(TextLine) /\ Len(v) = Len(t)
        /\ \A j \in 1..Len(t) : v[j] = IF j = k THEN line ELSE t[j]
    BY <1>1, <2>3, <2>5, <2>6, ExceptSeq
  <2>8. DOMAIN v = 1..Len(t) /\ 1 \in 1..Len(t) /\ Len(t) \in 1..Len(t)
    BY <1>1, <2>7, LenProperties
  <2>9. TpLines(v) = {k}
    BY <1>1, <2>4, <2>5, <2>6, <2>7, <2>8 DEF TpLines
  <2>10. Trimmed(v)
    BY <1>1, <2>6, <2>7, <2>8 DEF Trimmed
  <2>11. Sized(t, n, v, k)
    <3>1. v[k] = [t[k] EXCEPT !.value = n] /\ v[k].value = n
      BY <2>5, <2>6, <2>7 DEF line
    <3> QED
      BY <2>4, <2>5, <2>7, <2>9, <2>10, <3>1 DEF Sized
  <2> QED
    BY <2>11 DEF v
<1> QED
  BY <1>2, <1>3

(* Without its line, a variant is its base without its own.                  *)
LEMMA FamilyStays ==
  ASSUME NEW t, Trimmed(t), ~Ambiguous(t), NEW n \in Int, NEW v, NEW k, Sized(t, n, v, k)
  PROVE  FamilyText(v) = FamilyText(t)
<1>1. /\ t \in Seq(TextLine) /\ v \in Seq(TextLine) /\ Len(t) \in Nat /\ Len(v) \in Nat
      /\ TpLines(v) = {k} /\ k \in 1..Len(v)
      /\ \A i \in 1..Len(t) : i # k => v[i] = t[i]
  BY DEF Trimmed, Sized
<1>2. FamilyText(v) = SubSeq(v, 1, k - 1) \o SubSeq(v, k + 1, Len(v))
  <2>1. ~Ambiguous(v) /\ TpLines(v) # {} /\ (CHOOSE i \in TpLines(v) : TRUE) = k
    BY <1>1 DEF Ambiguous
  <2> QED
    BY <2>1, Zenon DEF FamilyText, RemoveAt
<1>3. CASE TpLines(t) = {}
  <2>1. k = Len(t) + 1 /\ Len(v) = Len(t) + 1
    BY <1>3 DEF Sized
  <2>2. FamilyText(t) = t
    BY <1>3 DEF FamilyText
  <2>3. SubSeq(v, k + 1, Len(v)) = <<>>
    BY <1>1, <2>1, SubSeqEmpty
  <2>4. SubSeq(v, 1, k - 1) = t
    <3> DEFINE s == SubSeq(v, 1, Len(t))
    <3>1. \A i \in 1..Len(t) : v[i] = t[i] /\ v[i] \in TextLine
      BY <1>1, <2>1, ElementOfSeq
    <3>2. s \in Seq(TextLine) /\ Len(s) = Len(t) /\ \A i \in 1..Len(t) : s[i] = v[(1 + i) - 1]
      BY <1>1, <3>1, SubSeqProperties
    <3>3. \A i \in 1..Len(t) : (1 + i) - 1 = i
      OBVIOUS
    <3> HIDE DEF s
    <3>4. s = t
      BY <1>1, <3>1, <3>2, <3>3, SeqEqual
    <3>5. k - 1 = Len(t)
      BY <1>1, <2>1
    <3> QED
      BY <3>4, <3>5 DEF s
  <2>5. t \o <<>> = t
    BY <1>1, ConcatEmptySeq
  <2> QED
    BY <1>2, <2>2, <2>3, <2>4, <2>5, Zenon
<1>4. CASE TpLines(t) = {k}
  <2>1. Len(v) = Len(t)
    BY <1>4 DEF Sized
  <2>2. FamilyText(t) = SubSeq(t, 1, k - 1) \o SubSeq(t, k + 1, Len(t))
    <3>1. TpLines(t) # {} /\ (CHOOSE i \in TpLines(t) : TRUE) = k
      BY <1>4
    <3> QED
      BY <3>1, Zenon DEF FamilyText, RemoveAt
  <2>3. \A a, b \in Int : (\A i \in a..b : i \in 1..Len(t) /\ i # k) => SubSeq(v, a, b) = SubSeq(t, a, b)
    <3> SUFFICES ASSUME NEW a \in Int, NEW b \in Int, \A i \in a..b : i \in 1..Len(t) /\ i # k
                 PROVE  SubSeq(v, a, b) = SubSeq(t, a, b)
      OBVIOUS
    <3>1. \A i \in a..b : v[i] = t[i] /\ t[i] \in TextLine /\ v[i] \in TextLine
      BY <1>1, <2>1, ElementOfSeq
    <3> DEFINE s == SubSeq(t, a, b)
               u == SubSeq(v, a, b)
               m == (b - a) + 1
    <3>2. s \in Seq(TextLine) /\ Len(s) = (IF a <= b THEN m ELSE 0) /\ \A i \in 1..m : s[i] = t[(a + i) - 1]
      BY <3>1, SubSeqProperties
    <3>3. u \in Seq(TextLine) /\ Len(u) = (IF a <= b THEN m ELSE 0) /\ \A i \in 1..m : u[i] = v[(a + i) - 1]
      BY <3>1, SubSeqProperties
    <3>4. \A i \in 1..m : (a + i) - 1 \in a..b
      OBVIOUS
    <3>5. \A i \in 1..Len(s) : i \in 1..m
      <4>1. Len(s) = IF a <= b THEN m ELSE 0
        BY <3>2
      <4> HIDE DEF s
      <4> QED
        BY <4>1
    <3> HIDE DEF s, u, m
    <3>6. Len(s) = Len(u) /\ \A i \in 1..Len(s) : s[i] = u[i]
      BY <3>1, <3>2, <3>3, <3>4, <3>5
    <3>7. s = u
      BY <3>2, <3>3, <3>6, SeqEqual
    <3> QED
      BY <3>7 DEF s, u
  <2>4. SubSeq(v, 1, k - 1) = SubSeq(t, 1, k - 1)
    <3>1. k - 1 \in Int /\ \A i \in 1..(k - 1) : i \in 1..Len(t) /\ i # k
      BY <1>1, <2>1
    <3> QED
      BY <2>3, <3>1
  <2>5. SubSeq(v, k + 1, Len(v)) = SubSeq(t, k + 1, Len(t))
    <3>1. k + 1 \in Int /\ Len(t) \in Int /\ \A i \in (k + 1)..Len(t) : i \in 1..Len(t) /\ i # k
      BY <1>1, <2>1
    <3> QED
      BY <2>1, <2>3, <3>1
  <2> QED
    BY <1>2, <2>2, <2>4, <2>5, Zenon
<1> QED
  BY <1>3, <1>4 DEF Sized

(* A variant of a variant is one of its base.                                *)
LEMMA SizedAgain ==
  ASSUME NEW t, Trimmed(t), NEW n \in Int, NEW m \in Int, NEW v, NEW k, Sized(t, n, v, k),
         NEW w, NEW i, Sized(v, m, w, i), NEW u, NEW j, Sized(t, m, u, j)
  PROVE  w = u
<1>1. i = k /\ j = k /\ Len(w) = Len(v) /\ Len(u) = Len(v)
  <2>1. i = k /\ Len(w) = Len(v)
    BY DEF Sized
  <2>2. j = k /\ Len(u) = Len(v)
    BY DEF Sized
  <2> QED
    BY <2>1, <2>2
<1>2. /\ w \in Seq(TextLine) /\ u \in Seq(TextLine) /\ t \in Seq(TextLine)
      /\ Len(t) \in Nat /\ k \in 1..Len(v) /\ Len(v) \in Nat
  BY DEF Sized, Trimmed
<1>3. w[k] = [v[k] EXCEPT !.value = m]
  BY <1>1 DEF Sized
<1>4. CASE TpLines(t) = {}
  <2>1. k = Len(t) + 1 /\ Len(v) = Len(t) + 1
    BY <1>4 DEF Sized
  <2>2. v[k] = Tp("tensor-parallel-size", n) /\ u[k] = Tp("tensor-parallel-size", m)
    BY <1>1, <1>4 DEF Sized
  <2>3. w[k] = u[k]
    BY <1>3, <2>2, TpIs
  <2>4. \A x \in 1..Len(v) : x = k \/ (x \in 1..Len(t) /\ x # k)
    BY <1>2, <2>1
  <2>5. \A x \in 1..Len(t) : x # k => w[x] = t[x] /\ u[x] = t[x]
    <3>1. \A x \in 1..Len(t) : x \in 1..Len(v)
      BY <1>2, <2>1
    <3> QED
      BY <1>1, <3>1 DEF Sized
  <2>6. \A x \in 1..Len(w) : w[x] = u[x]
    BY <1>1, <2>3, <2>4, <2>5
  <2> QED
    BY <1>1, <1>2, <2>6, SeqEqual
<1>5. CASE TpLines(t) = {k}
  <2>1. Len(v) = Len(t) /\ v[k] = [t[k] EXCEPT !.value = n] /\ u[k] = [t[k] EXCEPT !.value = m]
    BY <1>1, <1>5 DEF Sized
  <2>2. t[k] \in TextLine
    BY <1>2, <2>1, ElementOfSeq
  <2>3. w[k] = u[k]
    BY <1>3, <2>1, <2>2 DEF TextLine
  <2>4. \A x \in 1..Len(v) : x # k => w[x] = t[x] /\ u[x] = t[x]
    BY <1>1, <2>1 DEF Sized
  <2>5. \A x \in 1..Len(w) : w[x] = u[x]
    BY <1>1, <2>3, <2>4
  <2> QED
    BY <1>1, <1>2, <2>5, SeqEqual
<1> QED
  BY <1>4, <1>5 DEF Sized

LEMMA OfOne == ASSUME NEW k \in Nat PROVE Min({k}) = k /\ Max({k}) = k
<1>1. IsFiniteSet({k}) /\ {k} \subseteq Nat /\ {k} # {}
  BY FS_Singleton
<1>2. Min({k}) \in {k} /\ Max({k}) \in {k}
  <2> DEFINE S == {k}
  <2> HIDE DEF S
  <2>1. IsFiniteSet(S) /\ S \subseteq Nat /\ S # {}
    BY <1>1 DEF S
  <2>2. Min(S) \in S /\ Max(S) \in S
    BY <2>1, EndsAre
  <2> QED
    BY <2>2 DEF S
<1> QED
  BY <1>2

(* A variant validates for a host that has its size, and the agent reads it. *)
LEMMA SizedIsValid ==
  ASSUME NEW t, Trimmed(t), NEW n \in Nat \ {0}, NEW v, NEW k, Sized(t, n, v, k),
         NEW gpus \in Nat, Valid(t, gpus), n <= gpus
  PROVE  /\ Valid(v, gpus)
         /\ LET lines == {i \in DOMAIN v : v[i].key \in TpKeys} IN
            (\A i, j \in lines : i = j /\ ~v[i].comment) => AgentReadsTp(v) = n
<1>1. /\ Trimmed(v) /\ TpLines(v) = {k} /\ k \in 1..Len(v) /\ v[k].value = n
      /\ v[1].indent = 0 /\ t[1].indent = 0
      /\ DOMAIN v = 1..Len(v) /\ DOMAIN t = 1..Len(t) /\ k \in Nat
  <2>1. Trimmed(v) /\ TpLines(v) = {k} /\ k \in 1..Len(v) /\ v[k].value = n
    BY DEF Sized
  <2> QED
    BY <2>1, LenProperties DEF Trimmed
<1>2. v[k].key \in TpKeys /\ v[k].indent = 0 /\ ~Blank(v[k])
  <2>1. v[k].key \in TpKeys /\ v[k].indent = 0
    BY <1>1 DEF TpLines
  <2> QED
    BY <2>1 DEF TpKeys, Blank
<1>3. \A i \in Settings(v) : i = k \/ v[i].key \notin TpKeys
  BY <1>1 DEF Settings, TpLines
<1>4. k \in Settings(v)
  BY <1>1, <1>2 DEF Settings
<1>5. \A i \in 1..Len(v) : i # k => i \in 1..Len(t) /\ v[i] = t[i]
  <2>1. \A i \in 1..Len(t) : i # k => v[i] = t[i]
    BY DEF Sized
  <2>2. Len(v) = Len(t) \/ (k = Len(t) + 1 /\ Len(v) = Len(t) + 1)
    BY DEF Sized
  <2>3. Len(t) \in Nat
    BY DEF Trimmed
  <2> QED
    BY <2>1, <2>2, <2>3
<1>6. ~SetTwice(v)
  <2> SUFFICES ASSUME NEW i \in Settings(v), NEW j \in Settings(v), i # j, v[i].key = v[j].key
               PROVE  FALSE
    BY DEF SetTwice
  <2>1. i # k /\ j # k
    BY <1>2, <1>3
  <2>2. i \in Settings(t) /\ j \in Settings(t) /\ t[i].key = t[j].key
    BY <1>1, <1>5, <2>1 DEF Settings
  <2> QED
    BY <2>2 DEF SetTwice, Valid
<1>7. Declared(v) = {k}
  <2>1. n # NotANumber
    BY DEF NotANumber
  <2> QED
    BY <1>1, <1>2, <1>3, <1>4, <2>1 DEF Declared
<1>8. ~TopologyError(v, gpus)
  <2>1. v[Min(Declared(v))].value = n
    BY <1>1, <1>7, OfOne
  <2>2. ~(n < 1 \/ n > gpus)
    OBVIOUS
  <2> QED
    BY <2>1, <2>2, Zenon DEF TopologyError
<1>9. \A i \in Settings(v) : v[i].key \in TpKeys => v[i].value # NotANumber
  BY <1>1, <1>3 DEF NotANumber
<1>10. Valid(v, gpus)
  BY <1>1, <1>6, <1>8, <1>9, TrimmedStays DEF Valid
<1>11. ASSUME \A i, j \in {x \in DOMAIN v : v[x].key \in TpKeys} : i = j /\ ~v[i].comment
       PROVE  AgentReadsTp(v) = n
  <2> DEFINE lines == {i \in DOMAIN v : /\ v[i].key \in TpKeys
                                        /\ v[i].value # NotANumber /\ ~v[i].comment}
  <2>1. lines = {k}
    <3>1. n # NotANumber
      BY DEF NotANumber
    <3> QED
      BY <1>1, <1>2, <1>11, <3>1
  <2>2. Max(lines) = k /\ lines # {}
    <3> HIDE DEF lines
    <3> QED
      BY <1>1, <2>1, OfOne
  <2>3. AgentReadsTp(v) = v[Max(lines)].value
    BY <2>2, Zenon DEF AgentReadsTp
  <2> HIDE DEF lines
  <2> QED
    BY <1>1, <2>2, <2>3
<1> QED
  BY <1>10, <1>11

(* What a planner derives from any text and for any size: it says the size,  *)
(* keeps the family of its base, forgets the size the base had, is stored as *)
(* it is, stays valid where it fits, and is read alike by the agent          *)
(* (tensor_parallel_variant, config_family_text, _declared_parallelism).     *)
THEOREM VariantsSurvive ==
  \A text \in Text : \A n, m \in Nat \ {0}, gpus \in Nat :
    RoundTrips(text, n, m) /\ StaysValid(text, n, gpus)
<1> SUFFICES ASSUME NEW text \in Text, NEW n \in Nat \ {0}, NEW m \in Nat \ {0}, NEW gpus \in Nat
             PROVE  RoundTrips(text, n, m) /\ StaysValid(text, n, gpus)
  OBVIOUS
<1> DEFINE t == Normalized(text)
           v == Variant(t, n)
<1>1. text \in Seq(TextLine)
  <2> DEFINE Line == [key : STRING, indent : Nat, value : Int, comment : BOOLEAN]
  <2>1. Line \subseteq TextLine
    BY DEF TextLine
  <2>2. text \in Seq(Line)
    BY Zenon DEF Text
  <2> HIDE DEF Line
  <2> QED
    BY <2>1, <2>2, SeqMonotonic
<1>2. t = <<>> \/ Trimmed(t)
  BY <1>1, NormalizedIs
<1> HIDE DEF t
<1>3. ASSUME Trimmed(t), ~Ambiguous(t)
      PROVE  /\ ReadTp(v) = n /\ FamilyText(v) = FamilyText(t)
             /\ Variant(v, m) = Variant(t, m) /\ Normalized(v) = v
             /\ \E k : Sized(t, n, v, k)
  <2>1. n \in Int /\ m \in Int
    OBVIOUS
  <2>2. PICK k : Sized(t, n, v, k)
    BY <1>3, <2>1, VariantIs
  <2> HIDE DEF v
  <2>3. Trimmed(v) /\ TpLines(v) = {k} /\ v[k].value = n /\ k \in Nat
    <3>1. Trimmed(v) /\ TpLines(v) = {k} /\ v[k].value = n /\ k \in 1..Len(v)
      BY <2>2 DEF Sized
    <3> QED
      BY <3>1
  <2>4. ReadTp(v) = n
    <3>1. Min(TpLines(v)) = k /\ TpLines(v) # {}
      BY <2>3, OfOne
    <3> QED
      BY <2>3, <3>1 DEF ReadTp
  <2>5. FamilyText(v) = FamilyText(t)
    BY <1>3, <2>1, <2>2, FamilyStays
  <2>6. Normalized(v) = v
    BY <2>3, TrimmedStays
  <2>7. ~Ambiguous(v)
    BY <2>3 DEF Ambiguous
  <2>8. PICK i : Sized(v, m, Variant(v, m), i)
    BY <2>1, <2>3, <2>7, VariantIs
  <2>9. PICK j : Sized(t, m, Variant(t, m), j)
    BY <1>3, <2>1, VariantIs
  <2>10. Variant(v, m) = Variant(t, m)
    BY <1>3, <2>1, <2>2, <2>8, <2>9, SizedAgain
  <2> QED
    BY <2>2, <2>4, <2>5, <2>6, <2>10
<1>4. RoundTrips(text, n, m)
  <2>1. t # <<>> /\ ~Ambiguous(t) =>
          /\ ReadTp(v) = n /\ FamilyText(v) = FamilyText(t)
          /\ Variant(v, m) = Variant(t, m) /\ Normalized(v) = v
    BY <1>2, <1>3
  <2> QED
    BY <2>1, Zenon DEF RoundTrips, t
<1>5. StaysValid(text, n, gpus)
  <2> DEFINE lines == {i \in DOMAIN v : v[i].key \in TpKeys}
  <2>1. ASSUME Valid(t, gpus), ~Ambiguous(t), n <= gpus
        PROVE  /\ Valid(v, gpus)
               /\ (\A i, j \in lines : i = j /\ ~v[i].comment) => AgentReadsTp(v) = n
    <3>1. t # <<>>
      BY <2>1 DEF Valid, Written
    <3>2. Trimmed(t)
      BY <1>2, <3>1
    <3>3. PICK k : Sized(t, n, v, k)
      BY <1>3, <2>1, <3>2
    <3> HIDE DEF v
    <3> QED
      BY <2>1, <3>2, <3>3, SizedIsValid
  <2> QED
    BY <2>1, Zenon DEF StaysValid, t
<1> QED
  BY <1>4, <1>5

(* Whatever text is submitted, its variants for the sizes of any axis survive *)
(* (_resolve_configs, tensor_parallel_variant).                              *)
THEOREM SubmittedVariantsSurvive ==
  ASSUME submitted \in Text
  PROVE  VariantsRoundTrip
<1> SUFFICES ASSUME NEW sizes \in Sizes, NEW n \in Range(sizes), NEW m \in Range(sizes), n > 0, m > 0
             PROVE  RoundTrips(submitted, n, m) /\ StaysValid(submitted, n, GpuCount)
  BY DEF VariantsRoundTrip
<1>1. n \in Nat \ {0} /\ m \in Nat \ {0}
  <2>1. sizes \in Seq(Int)
    BY SweepPlanAssumption
  <2>2. \A i \in DOMAIN sizes : sizes[i] \in Int
    BY <2>1, ElementOfSeq, LenProperties
  <2>3. n \in Int /\ m \in Int
    BY <2>2 DEF Range
  <2> QED
    BY <2>3
<1>2. GpuCount \in Nat
  BY SweepPlanAssumption
<1> QED
  BY <1>1, <1>2, VariantsSurvive
-----------------------------------------------------------------------------
USE SweepPlanAssumption

(* The matrix, and where each of its points runs.                            *)
Points(a, C) ==
  [config : 1..C, workload : 1..a.workloads, replicate : 0..a.replicates - 1]
Position(a, C, p) ==
  IF a.order = "grouped"
  THEN ((((p.config - 1) * a.workloads) + (p.workload - 1)) * a.replicates) + p.replicate
  ELSE (((p.replicate * C) + (p.config - 1)) * a.workloads) + (p.workload - 1)
IsAxes(a) ==
  a \in [bases : Base, sizes : Sizes, workloads : 1..MaxWorkloads,
         replicates : 1..MaxReplicates, order : {"grouped", "interleaved"}]

LEMMA AxesType ==
  ASSUME NEW a, IsAxes(a)
  PROVE  /\ a.workloads \in Nat \ {0} /\ a.workloads \in 1..MaxWorkloads /\ a.replicates \in Nat \ {0}
         /\ a.order \in {"grouped", "interleaved"}
         /\ a.bases \in Seq(Text) /\ a.sizes \in Seq(Int)
BY DEF IsAxes

LEMMA MakePoint ==
  ASSUME NEW a, NEW C, NEW i \in 1..C, NEW j \in 1..a.workloads, NEW k \in 0..(a.replicates - 1)
  PROVE  [config |-> i, workload |-> j, replicate |-> k] \in Points(a, C)
BY DEF Points

(* Numbers counted from one and from zero are numbers, and so are those one  *)
(* below.                                                                    *)
LEMMA OneBelow ==
  /\ \A n \in Nat : n \in Int
  /\ \A n \in Nat : \A i \in 1..n : i - 1 \in Int /\ (i - 1) - 1 \in Int
  /\ \A n \in Nat : \A i \in 0..(n - 1) : i \in Int
OBVIOUS
LEMMA OneAbove ==
  /\ \A n \in Nat : \A i \in 0..(n - 1) : i + 1 \in 1..n
  /\ \A n \in Nat : \A i \in Nat : i < n => i + 1 \in 1..n /\ i \in 0..(n - 1)
  /\ \A n \in Nat : \A i \in 0..(n - 1) : i < n - 1 => i + 1 \in 0..(n - 1)
OBVIOUS

(* A product bounds its factors: below C * N lie the numbers with a quotient *)
(* by N below C.                                                             *)
LEMMA BelowProduct ==
  ASSUME NEW C \in Nat, NEW N \in Nat \ {0}, NEW x \in Nat, NEW r \in 0..(N - 1)
  PROVE  (x * N) + r < C * N <=> x < C
<1>1. CASE x < C
  <2>1. (x + 1) * N <= C * N
    BY <1>1, SMT
  <2> QED
    BY <1>1, <2>1, SMT
<1>2. CASE x >= C
  <2>1. x * N >= C * N
    BY <1>2, SMT
  <2> QED
    BY <1>2, <2>1, SMT
<1> QED
  BY <1>1, <1>2

LEMMA FromZero ==
  \A n \in Nat : \A i \in 1..n :
    i - 1 \in Nat /\ i - 1 < n /\ i - 1 \in 0..(n - 1) /\ n \in Nat \ {0}
BY SMT

LEMMA PlaceValue == \A x, y, A, B \in Int : ((x * B) + y) * A \in Int
BY SMT

LEMMA BelowDigits ==
  ASSUME NEW A \in Nat \ {0}, NEW B \in Nat \ {0}, NEW C \in Nat,
         NEW x \in Nat, NEW y \in 0..(B - 1), NEW z \in 0..(A - 1)
  PROVE  (((x * B) + y) * A) + z < (C * B) * A <=> x < C
<1> DEFINE q == (x * B) + y
           D == C * B
<1>1. q \in Nat /\ D \in Nat
  BY SMT
<1>2. (q * A) + z < D * A <=> q < D
  <2> HIDE DEF q, D
  <2> QED
    BY <1>1, BelowProduct
<1>3. q < D <=> x < C
  BY BelowProduct
<1> QED
  BY <1>2, <1>3

(* expand puts the point at its position ...                                 *)
LEMMA Placed ==
  ASSUME NEW a, IsAxes(a), NEW configs, Len(configs) \in Nat, NEW k \in DOMAIN Expand(a, configs)
  PROVE  /\ k \in Nat \ {0}
         /\ Expand(a, configs)[k] \in Points(a, Len(configs))
         /\ Position(a, Len(configs), Expand(a, configs)[k]) = k - 1
<1> DEFINE C == Len(configs)
           W == a.workloads
           R == a.replicates
           n == k - 1
           p == Expand(a, configs)[k]
<1>1. W \in Nat \ {0} /\ R \in Nat \ {0} /\ C \in Nat
  BY AxesType
<1>2. k \in 1..C * W * R
  BY DEF Expand
<1>3. n \in Nat /\ k \in Nat \ {0} /\ n < C * W * R
  <2> HIDE DEF C, W, R
  <2>1. C * W * R \in Nat
    BY <1>1, SMT
  <2> QED
    BY <1>2, <2>1
<1>4. CASE a.order = "grouped"
  <2>1. PICK x \in Nat, y \in 0..(W - 1), z \in 0..(R - 1) :
          /\ p = [config |-> x + 1, workload |-> y + 1, replicate |-> z]
          /\ n = (((x * W) + y) * R) + z
    <3>1. p = [config |-> (n \div (W * R)) + 1, workload |-> ((n \div R) % W) + 1, replicate |-> n % R]
      BY <1>4 DEF Expand
    <3>2. W \in Nat \ {0}
      BY <1>1
    <3>3. /\ n \div (W * R) \in Nat /\ (n \div R) % W \in 0..(W - 1) /\ n % R \in 0..(R - 1)
          /\ n = ((((n \div (W * R)) * W) + ((n \div R) % W)) * R) + (n % R)
      <4> HIDE DEF C, W, R, n
      <4> QED
        BY <1>1, <1>3, <3>2, Digits
    <3> QED
      BY <3>1, <3>3, Zenon
  <2>2. x < C
    <3> HIDE DEF C, W, R, n, p
    <3>1. (((x * W) + y) * R) + z < (C * W) * R <=> x < C
      <4>1. W \in Nat \ {0}
        BY <1>1, <2>1, SMT
      <4> QED
        BY <1>1, <4>1, BelowDigits
    <3>2. (C * W) * R = C * W * R
      BY <1>1, SMT
    <3> QED
      BY <1>3, <2>1, <3>1, <3>2
  <2>3. p \in Points(a, C) /\ Position(a, C, p) = n
    <3> HIDE DEF C, n, p
    <3>1. p.config - 1 = x /\ p.workload - 1 = y /\ p.replicate = z
      BY <1>1, <2>1
    <3>2. p \in Points(a, C)
      <4>1. W \in Nat /\ C \in Nat
        BY <1>1
      <4>2. x + 1 \in 1..C /\ y + 1 \in 1..W
        BY <2>1, <2>2, <4>1, OneAbove, Zenon
      <4> QED
        BY <2>1, <4>2, MakePoint
    <3>3. Position(a, C, p) = n
      BY <1>4, <2>1, <3>1, Zenon DEF Position
    <3> QED
      BY <3>2, <3>3
  <2> QED
    BY <1>3, <2>3
<1>5. CASE a.order # "grouped"
  <2>1. PICK x \in Nat, y \in 0..(C - 1), z \in 0..(W - 1) :
          /\ p = [config |-> y + 1, workload |-> z + 1, replicate |-> x]
          /\ n = (((x * C) + y) * W) + z
    <3>1. p = [config |-> ((n \div W) % C) + 1, workload |-> (n % W) + 1, replicate |-> n \div (C * W)]
      BY <1>5 DEF Expand
    <3>2. C \in Nat \ {0}
      <4> HIDE DEF C, W, R, n
      <4>1. C = 0 => C * W * R = 0
        BY <1>1, SMT
      <4> QED
        BY <1>1, <1>3, <4>1
    <3>3. /\ n \div (C * W) \in Nat /\ (n \div W) % C \in 0..(C - 1) /\ n % W \in 0..(W - 1)
          /\ n = ((((n \div (C * W)) * C) + ((n \div W) % C)) * W) + (n % W)
      <4> HIDE DEF C, W, R, n
      <4> QED
        BY <1>1, <1>3, <3>2, Digits
    <3> QED
      BY <3>1, <3>3, Zenon
  <2>2. x < R
    <3> HIDE DEF C, W, R, n, p
    <3>1. (((x * C) + y) * W) + z < (R * C) * W <=> x < R
      <4>1. C \in Nat \ {0}
        BY <1>1, <2>1, SMT
      <4> QED
        BY <1>1, <4>1, BelowDigits
    <3>2. (R * C) * W = C * W * R
      BY <1>1, SMT
    <3> QED
      BY <1>3, <2>1, <3>1, <3>2
  <2>3. p \in Points(a, C) /\ Position(a, C, p) = n
    <3> HIDE DEF C, n, p
    <3>1. p.config - 1 = y /\ p.workload - 1 = z /\ p.replicate = x
      BY <1>1, <2>1
    <3>2. p \in Points(a, C)
      <4>1. W \in Nat /\ R \in Nat /\ C \in Nat
        BY <1>1
      <4>2. y + 1 \in 1..C /\ z + 1 \in 1..W /\ x \in 0..(R - 1)
        BY <2>1, <2>2, <4>1, OneAbove, Zenon
      <4> QED
        BY <2>1, <4>2, MakePoint
    <3>3. Position(a, C, p) = n
      BY <1>5, <2>1, <3>1, Zenon DEF Position
    <3> QED
      BY <3>2, <3>3
  <2> QED
    BY <1>3, <2>3
<1> QED
  BY <1>4, <1>5

(* ... and every point of the matrix at its own.                             *)
LEMMA PlacedBack ==
  ASSUME NEW a, IsAxes(a), NEW configs, Len(configs) \in Nat, NEW p \in Points(a, Len(configs))
  PROVE  /\ Position(a, Len(configs), p) + 1 \in DOMAIN Expand(a, configs)
         /\ Expand(a, configs)[Position(a, Len(configs), p) + 1] = p
<1> DEFINE C == Len(configs)
           W == a.workloads
           R == a.replicates
           n == Position(a, C, p)
<1>1. W \in Nat \ {0} /\ R \in Nat \ {0} /\ C \in Nat
  BY AxesType
<1>2. /\ p = [config |-> p.config, workload |-> p.workload, replicate |-> p.replicate]
      /\ p.config \in 1..C /\ p.workload \in 1..W /\ p.replicate \in 0..(R - 1)
  BY DEF Points
<1>3. CASE a.order = "grouped"
  <2> DEFINE x == p.config - 1
             y == p.workload - 1
             z == p.replicate
  <2>1. x \in Nat /\ x < C /\ y \in 0..(W - 1) /\ z \in 0..(R - 1) /\ W \in Nat \ {0}
    <3> HIDE DEF C, W, R
    <3> QED
      BY <1>1, <1>2, FromZero, Zenon
  <2>2. n = (((x * W) + y) * R) + z
    BY <1>3, Zenon DEF Position
  <2>3. n \in Nat /\ n \div (W * R) = x /\ (n \div R) % W = y /\ n % R = z
    <3> HIDE DEF C, W, R, n, x, y, z
    <3>1. n = Numeral(W, R, x, y, z)
      BY <2>2, Zenon DEF Numeral
    <3>2. HasDigits(Numeral(W, R, x, y, z), W, R, x, y, z)
      BY <1>1, <2>1, DigitsUnique
    <3> QED
      BY <3>1, <3>2, Zenon DEF HasDigits
  <2>4. n < C * W * R
    <3> HIDE DEF C, W, R, n, x, y, z
    <3>1. (((x * W) + y) * R) + z < (C * W) * R <=> x < C
      BY <1>1, <2>1, BelowDigits
    <3>2. (C * W) * R = C * W * R
      BY <1>1, SMT
    <3> QED
      BY <2>1, <2>2, <3>1, <3>2
  <2>5. n + 1 \in 1..C * W * R /\ (n + 1) - 1 = n
    <3> HIDE DEF C, W, R, n
    <3>1. C * W * R \in Nat
      BY <1>1, SMT
    <3> QED
      BY <2>3, <2>4, <3>1
  <2>6. Expand(a, configs)[n + 1] = [config |-> x + 1, workload |-> y + 1, replicate |-> z]
    <3> HIDE DEF n, x, y, z
    <3> QED
      BY <1>3, <2>3, <2>5 DEF Expand
  <2>7. Expand(a, configs)[n + 1] = p
    <3>1. p = [config |-> x + 1, workload |-> y + 1, replicate |-> z]
      <4> HIDE DEF n
      <4> QED
        BY <1>2
    <3> QED
      BY <2>6, <3>1
  <2> QED
    BY <2>5, <2>7 DEF Expand
<1>4. CASE a.order # "grouped"
  <2> DEFINE x == p.replicate
             y == p.config - 1
             z == p.workload - 1
  <2>1. x \in Nat /\ x < R /\ y \in 0..(C - 1) /\ z \in 0..(W - 1) /\ C \in Nat \ {0}
    <3> HIDE DEF C, W, R
    <3>1. C \in Nat \ {0} /\ y \in 0..(C - 1) /\ z \in 0..(W - 1)
      BY <1>1, <1>2, FromZero, Zenon
    <3>2. x \in Nat /\ x < R
      <4>1. \A k \in Nat : \A i \in 0..(k - 1) : i \in Nat /\ i < k
        BY SMT
      <4> QED
        BY <1>1, <1>2, <4>1, Zenon
    <3> QED
      BY <3>1, <3>2, Zenon
  <2>2. n = (((x * C) + y) * W) + z
    BY <1>4, Zenon DEF Position
  <2>3. n \in Nat /\ n \div (C * W) = x /\ (n \div W) % C = y /\ n % W = z
    <3> HIDE DEF C, W, R, n, x, y, z
    <3>1. n = Numeral(C, W, x, y, z)
      BY <2>2, Zenon DEF Numeral
    <3>2. HasDigits(Numeral(C, W, x, y, z), C, W, x, y, z)
      BY <1>1, <2>1, DigitsUnique
    <3> QED
      BY <3>1, <3>2, Zenon DEF HasDigits
  <2>4. n < C * W * R
    <3> HIDE DEF C, W, R, n, x, y, z
    <3>1. (((x * C) + y) * W) + z < (R * C) * W <=> x < R
      BY <1>1, <2>1, BelowDigits
    <3>2. (R * C) * W = C * W * R
      BY <1>1, SMT
    <3> QED
      BY <2>1, <2>2, <3>1, <3>2
  <2>5. n + 1 \in 1..C * W * R /\ (n + 1) - 1 = n
    <3> HIDE DEF C, W, R, n
    <3>1. C * W * R \in Nat
      BY <1>1, SMT
    <3> QED
      BY <2>3, <2>4, <3>1
  <2>6. Expand(a, configs)[n + 1] = [config |-> y + 1, workload |-> z + 1, replicate |-> x]
    <3> HIDE DEF n, x, y, z
    <3> QED
      BY <1>4, <2>3, <2>5 DEF Expand
  <2>7. Expand(a, configs)[n + 1] = p
    <3>1. p = [config |-> y + 1, workload |-> z + 1, replicate |-> x]
      <4> HIDE DEF n
      <4> QED
        BY <1>2
    <3> QED
      BY <2>6, <3>1
  <2> QED
    BY <2>5, <2>7 DEF Expand
<1> QED
  BY <1>3, <1>4

(* A plan is a sequence of the points in this order, with their texts.       *)
LEMMA ConfigsCounted == ASSUME NEW a, IsAxes(a) PROVE Len(Configs(a)) \in Nat
<1>1. a.bases \in Seq(Text) /\ a.sizes \in Seq(Int)
  BY AxesType
<1>2. CASE a.sizes = <<>>
  BY <1>1, <1>2 DEF Configs
<1>3. CASE a.sizes # <<>>
  <2> DEFINE N == Len(a.bases) * Len(a.sizes)
  <2>1. N \in Nat
    <3>1. Len(a.bases) \in Nat /\ Len(a.sizes) \in Nat
      BY <1>1
    <3>2. \A i, j \in Nat : i * j \in Nat
      BY SMT
    <3> QED
      BY <3>1, <3>2, Zenon
  <2>2. DOMAIN Configs(a) = 1..N
    BY <1>3 DEF Configs
  <2> HIDE DEF N
  <2> QED
    BY <2>1, <2>2
<1> QED
  BY <1>2, <1>3

LEMMA Planned ==
  ASSUME NEW a, IsAxes(a)
  PROVE  /\ Len(Materialized(a)) \in Nat
         /\ DOMAIN Materialized(a) = 1..Len(Materialized(a))
         /\ DOMAIN Materialized(a) = DOMAIN Expand(a, Configs(a))
         /\ \A k \in DOMAIN Materialized(a) :
              /\ Materialized(a)[k].point = Expand(a, Configs(a))[k]
              /\ Materialized(a)[k].text = Configs(a)[Materialized(a)[k].point.config]
<1> DEFINE N == Len(Configs(a)) * a.workloads * a.replicates
<1>1. N \in Nat
  <2>1. Len(Configs(a)) \in Nat /\ a.workloads \in Nat /\ a.replicates \in Nat
    BY ConfigsCounted, AxesType
  <2> QED
    BY <2>1, SMT
<1>2. DOMAIN Expand(a, Configs(a)) = 1..N
  BY DEF Expand
<1>3. DOMAIN Materialized(a) = 1..N
  BY <1>2 DEF Materialized
<1>4. Len(Materialized(a)) = N
  <2> HIDE DEF N
  <2> QED
    BY <1>1, <1>3
<1> QED
  BY <1>1, <1>2, <1>3, <1>4 DEF Materialized

(* The point at the next position.                                           *)
LEMMA NextPoint ==
  ASSUME NEW a, IsAxes(a), NEW configs, Len(configs) \in Nat,
         NEW k \in DOMAIN Expand(a, configs), k + 1 \in DOMAIN Expand(a, configs),
         NEW r \in Points(a, Len(configs)),
         Position(a, Len(configs), r) = Position(a, Len(configs), Expand(a, configs)[k]) + 1
  PROVE  Expand(a, configs)[k + 1] = r
<1>1. k \in Nat /\ Position(a, Len(configs), Expand(a, configs)[k]) = k - 1
  BY Placed
<1>2. Position(a, Len(configs), r) + 1 = k + 1
  BY <1>1
<1> QED
  BY <1>2, PlacedBack

(* What the point after p is in the order of the axes.                       *)
Follows(a, p, q) ==
  IF a.order = "grouped"
  THEN p.replicate < a.replicates - 1 =>
         q = [config |-> p.config, workload |-> p.workload, replicate |-> p.replicate + 1]
  ELSE /\ p.replicate <= q.replicate
       /\ p.workload < a.workloads =>
            q = [config |-> p.config, workload |-> p.workload + 1, replicate |-> p.replicate]

LEMMA InOrder ==
  ASSUME NEW a, IsAxes(a), NEW configs, Len(configs) \in Nat,
         NEW k \in DOMAIN Expand(a, configs), k + 1 \in DOMAIN Expand(a, configs)
  PROVE  Follows(a, Expand(a, configs)[k], Expand(a, configs)[k + 1])
<1> DEFINE C == Len(configs)
           W == a.workloads
           R == a.replicates
           p == Expand(a, configs)[k]
           q == Expand(a, configs)[k + 1]
<1>1. W \in Nat \ {0} /\ R \in Nat \ {0} /\ C \in Nat
  BY AxesType
<1>2. p \in Points(a, C) /\ q \in Points(a, C)
  BY Placed
<1>3. Position(a, C, q) = Position(a, C, p) + 1
  <2>1. k \in Nat /\ Position(a, C, p) = k - 1 /\ Position(a, C, q) = (k + 1) - 1
    BY Placed
  <2> QED
    BY <2>1
<1>4. /\ p.config \in 1..C /\ p.workload \in 1..W /\ p.replicate \in 0..(R - 1)
      /\ q.config \in 1..C /\ q.workload \in 1..W /\ q.replicate \in 0..(R - 1)
  BY <1>2 DEF Points
<1>5. ASSUME a.order = "grouped", p.replicate < R - 1
      PROVE  q = [config |-> p.config, workload |-> p.workload, replicate |-> p.replicate + 1]
  <2> DEFINE r == [config |-> p.config, workload |-> p.workload, replicate |-> p.replicate + 1]
  <2>1. r \in Points(a, C)
    <3>1. p.replicate + 1 \in 0..(R - 1)
      <4>1. R \in Nat
        BY <1>1
      <4> HIDE DEF R, p
      <4> QED
        BY <1>4, <1>5, <4>1, OneAbove, Zenon
    <3> HIDE DEF C, p
    <3> QED
      BY <1>4, <3>1, MakePoint, Zenon
  <2>2. r.config = p.config /\ r.workload = p.workload /\ r.replicate = p.replicate + 1
    OBVIOUS
  <2>3. Position(a, C, r) = Position(a, C, p) + 1
    <3> DEFINE t == (((p.config - 1) * W) + (p.workload - 1)) * R
    <3>1. t \in Int
      <4>1. p.config - 1 \in Int /\ p.workload - 1 \in Int /\ W \in Int /\ R \in Int
        <5>1. W \in Nat /\ R \in Nat
          <6> HIDE DEF W, R
          <6> QED
            BY <1>1
        <5> HIDE DEF C, W, R, p
        <5> QED
          BY <1>1, <1>4, <5>1, OneBelow, Zenon
      <4> HIDE DEF W, R, p
      <4> QED
        BY <4>1, PlaceValue
    <3>2. Position(a, C, p) = t + p.replicate
      BY <1>5 DEF Position
    <3>3. Position(a, C, r) = t + (p.replicate + 1)
      <4> HIDE DEF C, p, r
      <4> QED
        BY <1>5, <2>2, Zenon DEF Position
    <3> HIDE DEF t, r, p, C
    <3> QED
      BY <1>4, <3>1, <3>2, <3>3
  <2> HIDE DEF r
  <2> QED
    BY <2>1, <2>3, NextPoint DEF r
<1>6. ASSUME a.order # "grouped"
      PROVE  /\ p.replicate <= q.replicate
             /\ p.workload < W => q = [config |-> p.config, workload |-> p.workload + 1, replicate |-> p.replicate]
  <2>1. p.replicate <= q.replicate
    <3> SUFFICES ASSUME q.replicate < p.replicate PROVE FALSE
      BY <1>4
    <3> DEFINE x == q.replicate
               y == q.config - 1
               z == q.workload - 1
               u == p.replicate
               v == p.config - 1
               w == p.workload - 1
    <3>1. /\ C \in Nat \ {0} /\ x \in Nat /\ y \in 0..(C - 1) /\ z \in 0..(W - 1)
          /\ u \in Nat /\ v \in 0..(C - 1) /\ w \in 0..(W - 1) /\ x < u
      <4> HIDE DEF C, W, R, p, q
      <4>1. C \in Nat \ {0}
        BY <1>1, <1>4
      <4>2. x \in Nat /\ u \in Nat /\ x < u
        BY <1>1, <1>4
      <4>3. \A n \in Nat : \A i \in 1..n : i - 1 \in 0..(n - 1)
        OBVIOUS
      <4>4. y \in 0..(C - 1) /\ v \in 0..(C - 1) /\ z \in 0..(W - 1) /\ w \in 0..(W - 1)
        <5>1. W \in Nat
          BY <1>1
        <5> QED
          BY <1>1, <1>4, <4>3, <5>1, Zenon
      <4> QED
        BY <4>1, <4>2, <4>4, Zenon
    <3>2. (((x * C) + y) * W) + z = ((((u * C) + v) * W) + w) + 1
      BY <1>3, <1>6, Zenon DEF Position
    <3> HIDE DEF C, W, R, p, q, x, y, z, u, v, w
    <3>3. (((x * C) + y) * W) + z < (u * C) * W
      BY <1>1, <3>1, BelowDigits
    <3>4. (u * C) * W <= (((u * C) + v) * W) + w
      <4>1. u * C \in Nat
        BY <3>1, SMT
      <4> DEFINE t == u * C
      <4> HIDE DEF t
      <4>2. t \in Nat
        BY <4>1 DEF t
      <4>3. t * W <= ((t + v) * W) + w
        BY <1>1, <3>1, <4>2, SMT
      <4> QED
        BY <4>3 DEF t
    <3>5. (((x * C) + y) * W) + z \in Int /\ (u * C) * W \in Int /\ (((u * C) + v) * W) + w \in Int
      BY <1>1, <3>1, SMT
    <3> QED
      BY <3>2, <3>3, <3>4, <3>5
  <2>2. ASSUME p.workload < W
        PROVE  q = [config |-> p.config, workload |-> p.workload + 1, replicate |-> p.replicate]
    <3> DEFINE r == [config |-> p.config, workload |-> p.workload + 1, replicate |-> p.replicate]
    <3>1. r \in Points(a, C)
      <4>1. p.workload + 1 \in 1..W
        <5>1. p.workload \in 1..W
          BY <1>4
        <5> HIDE DEF C, W, R, p, q, r
        <5> QED
          BY <1>1, <2>2, <5>1
      <4> HIDE DEF C, p
      <4> QED
        BY <1>4, <4>1, MakePoint, Zenon
    <3>2. r.config = p.config /\ r.workload = p.workload + 1 /\ r.replicate = p.replicate
      OBVIOUS
    <3>3. Position(a, C, r) = Position(a, C, p) + 1
      <4> DEFINE t == ((p.replicate * C) + (p.config - 1)) * W
      <4>1. t \in Int
        <5>1. p.replicate \in Int /\ p.config - 1 \in Int /\ C \in Int /\ W \in Int
          <6>1. p.config \in 1..C /\ p.replicate \in 0..(R - 1) /\ C \in Nat /\ W \in Nat
            <7> HIDE DEF C, W, R, p, q
            <7> QED
              BY <1>1, <1>4
          <6> HIDE DEF C, W, R, p
          <6> QED
            BY <6>1
        <5> HIDE DEF C, W, p
        <5> QED
          BY <5>1, PlaceValue
      <4>2. Position(a, C, p) = t + (p.workload - 1)
        BY <1>6 DEF Position
      <4>3. Position(a, C, r) = t + ((p.workload + 1) - 1)
        <5> HIDE DEF C, p, r
        <5> QED
          BY <1>6, <3>2, Zenon DEF Position
      <4> HIDE DEF t, r, p, C
      <4> QED
        BY <1>4, <4>1, <4>2, <4>3
    <3> HIDE DEF r
    <3> QED
      BY <3>1, <3>3, NextPoint DEF r
  <2> QED
    BY <2>1, <2>2, Zenon
<1>7. Follows(a, p, q)
  <2> HIDE DEF p, q
  <2> QED
    BY <1>5, <1>6 DEF Follows
<1> QED
  BY <1>7, Zenon
-----------------------------------------------------------------------------
(* What a stored plan says of its runs.                                      *)
LEMMA PlanRuns ==
  ASSUME PlanTypeOK
  PROVE  /\ Len(plan) \in Nat /\ DOMAIN plan = 1..Len(plan)
         /\ \A k \in DOMAIN plan :
              /\ answer = "created"
              /\ k \in DOMAIN Expand(axes, Configs(axes))
              /\ plan[k].point = Expand(axes, Configs(axes))[k]
              /\ plan[k].point \in Points(axes, Len(Configs(axes)))
              /\ plan[k].text = Configs(axes)[plan[k].point.config]
              /\ WorkloadOf(k) \in 1..axes.workloads
              /\ WorkloadOf(k) \in 1..MaxWorkloads
<1>1. IsAxes(axes)
  BY DEF PlanTypeOK, IsAxes
<1>2. CASE answer # "created"
  <2>1. plan = <<>>
    BY <1>2 DEF PlanTypeOK
  <2> QED
    BY <2>1
<1>3. CASE answer = "created"
  <2>1. plan = Materialized(axes)
    BY <1>3 DEF PlanTypeOK
  <2>2. /\ Len(plan) \in Nat /\ DOMAIN plan = 1..Len(plan)
        /\ DOMAIN plan = DOMAIN Expand(axes, Configs(axes))
        /\ \A k \in DOMAIN plan :
             /\ plan[k].point = Expand(axes, Configs(axes))[k]
             /\ plan[k].text = Configs(axes)[plan[k].point.config]
    BY <1>1, <2>1, Planned
  <2>3. ASSUME NEW k \in DOMAIN plan
        PROVE  plan[k].point \in Points(axes, Len(Configs(axes)))
    BY <1>1, <2>2, ConfigsCounted, Placed
  <2>4. ASSUME NEW k \in DOMAIN plan
        PROVE  WorkloadOf(k) \in 1..axes.workloads /\ WorkloadOf(k) \in 1..MaxWorkloads
    <3>1. WorkloadOf(k) \in 1..axes.workloads
      BY <2>3 DEF Points, WorkloadOf
    <3>2. axes.workloads \in 1..MaxWorkloads
      BY <1>1, AxesType
    <3>3. MaxWorkloads \in Nat
      OBVIOUS
    <3> DEFINE w == WorkloadOf(k)
               W == axes.workloads
    <3> HIDE DEF w, W
    <3>4. w \in 1..W /\ W \in 1..MaxWorkloads => w \in 1..MaxWorkloads
      BY <3>3
    <3> QED
      BY <3>1, <3>2, <3>4 DEF w, W
  <2> QED
    BY <1>3, <2>2, <2>3, <2>4
<1> QED
  BY <1>2, <1>3

LEMMA PlanTypesKept == PlanTypeOK /\ [PlanNext]_planVars => PlanTypeOK'
<1> SUFFICES ASSUME PlanTypeOK, [PlanNext]_planVars
             PROVE  PlanTypeOK'
  OBVIOUS
<1>1. CASE CreatePlan
  <2>1. plan = <<>> /\ Len(ran) = 0
    BY <1>1 DEF CreatePlan, PlanTypeOK
  <2>2. Len(ran') <= Len(plan')
    <3>1. CASE plan' = plan /\ ran' = ran
      BY <3>1 DEF PlanTypeOK
    <3>2. CASE plan' = Materialized(axes) /\ ran' = ran
      <4>1. IsAxes(axes)
        BY DEF PlanTypeOK, IsAxes
      <4>2. Len(Materialized(axes)) \in Nat
        BY <4>1, Planned
      <4> QED
        BY <2>1, <3>2, <4>2
    <3> QED
      BY <1>1, <3>1, <3>2 DEF CreatePlan
  <2>3. answer' \in {"created", "refused"} /\ axes' = axes /\ ran' = ran
    BY <1>1 DEF CreatePlan
  <2>4. plan' = IF answer' = "created" THEN Materialized(axes') ELSE <<>>
    BY <1>1, <2>1 DEF CreatePlan
  <2> QED
    BY <2>2, <2>3, <2>4 DEF PlanTypeOK
<1>2. ASSUME NEW status \in {"succeeded", "failed"}, RunNext(status)
      PROVE  PlanTypeOK'
  <2> DEFINE k == Len(ran) + 1
             e == [status |-> status, load |-> plan[k].text \notin loaded,
                   seconds |-> (IF plan[k].text \notin loaded THEN LoadSeconds ELSE 0)
                                 + BenchSeconds[plan[k].point.workload]]
  <2>1. ran' = Append(ran, e) /\ k <= Len(plan) /\ UNCHANGED <<axes, answer, plan>>
    BY <1>2, Zenon DEF RunNext
  <2>2. k \in DOMAIN plan
    <3>1. Len(ran) \in Nat
      BY DEF PlanTypeOK
    <3> QED
      BY <2>1, <3>1, PlanRuns
  <2>3. plan[k].point.workload \in 1..MaxWorkloads
    BY <2>2, PlanRuns DEF WorkloadOf
  <2>4. e \in [status : {"succeeded", "failed"}, load : BOOLEAN, seconds : Nat]
    <3>1. BenchSeconds[plan[k].point.workload] \in Nat /\ LoadSeconds \in Nat
      BY <2>3
    <3>2. (plan[k].text \notin loaded) \in BOOLEAN
      OBVIOUS
    <3>3. (IF plan[k].text \notin loaded THEN LoadSeconds ELSE 0)
            + BenchSeconds[plan[k].point.workload] \in Nat
      <4> HIDE DEF k
      <4> QED
        BY <3>1
    <3> QED
      BY <3>2, <3>3, Zenon
  <2> HIDE DEF k, e
  <2>5. ran' \in Seq([status : {"succeeded", "failed"}, load : BOOLEAN, seconds : Nat])
        /\ Len(ran') = Len(ran) + 1
    BY <2>1, <2>4 DEF PlanTypeOK
  <2> QED
    BY <2>1, <2>5 DEF PlanTypeOK, k
<1>3. CASE UNCHANGED planVars
  BY <1>3 DEF PlanTypeOK, planVars
<1> QED
  BY <1>1, <1>2, <1>3 DEF PlanNext

LEMMA PlanStarts == PlanInit => PlanInv
<1> SUFFICES ASSUME PlanInit PROVE PlanInv
  OBVIOUS
<1>1. PlanTypeOK
  BY DEF PlanInit, PlanTypeOK
<1>2. LoadsFollowPlan
  BY DEF PlanInit, LoadsFollowPlan, Kept
<1> QED
  BY <1>1, <1>2 DEF PlanInv

(* A run that follows runs that all succeeded finds the engine the plan      *)
(* says it finds; one that does not succeed leaves none.                     *)
LEMMA LoadsKept == PlanInv /\ [PlanNext]_planVars => LoadsFollowPlan'
<1> SUFFICES ASSUME PlanInv, [PlanNext]_planVars
             PROVE  LoadsFollowPlan'
  OBVIOUS
<1>1. PlanTypeOK /\ PlanTypeOK'
  BY PlanTypesKept DEF PlanInv
<1>2. CASE CreatePlan
  <2>1. ran = <<>> /\ ran' = <<>> /\ loaded' = loaded
    BY <1>1, <1>2 DEF CreatePlan, PlanTypeOK
  <2>2. loaded = {}
    <3>1. AllSucceeded
      BY <2>1 DEF AllSucceeded, Observed
    <3> QED
      BY <2>1, <3>1 DEF PlanInv, LoadsFollowPlan, Kept
  <2> QED
    BY <2>1, <2>2 DEF LoadsFollowPlan, Kept
<1>3. ASSUME NEW status \in {"succeeded", "failed"}, RunNext(status)
      PROVE  LoadsFollowPlan'
  <2>0. PICK k \in Nat : k = Len(ran) + 1
    <3>1. Len(ran) \in Nat
      BY <1>1 DEF PlanTypeOK
    <3> QED
      BY <3>1
  <2> DEFINE loads == plan[k].text \notin loaded
             e == [status |-> status, load |-> loads,
                   seconds |-> (IF loads THEN LoadSeconds ELSE 0)
                                 + BenchSeconds[plan[k].point.workload]]
  <2>1. /\ ran' = Append(ran, e) /\ k <= Len(plan) /\ UNCHANGED <<axes, answer, plan>>
        /\ loaded' = IF status = "succeeded" /\ KeepLoaded(k) THEN {plan[k].text} ELSE {}
    BY <1>3, <2>0, Zenon DEF RunNext
  <2>2. /\ Len(ran) \in Nat /\ DOMAIN ran = 1..Len(ran) /\ k \in Nat
        /\ Len(ran') = k /\ DOMAIN ran' = 1..k
        /\ ran'[k] = e /\ \A i \in DOMAIN ran : ran'[i] = ran[i]
    <3>1. \A S : \A q \in Seq(S) : Len(q) \in Nat /\ DOMAIN q = 1..Len(q)
      OBVIOUS
    <3>2. Len(ran) \in Nat /\ DOMAIN ran = 1..Len(ran)
      BY <1>1, <3>1, Zenon DEF PlanTypeOK
    <3> HIDE DEF e
    <3>3. /\ Len(ran') = Len(ran) + 1 /\ DOMAIN ran' = 1..(Len(ran) + 1)
          /\ ran'[Len(ran) + 1] = e
          /\ \A i \in DOMAIN ran : ran'[i] = ran[i]
      <4>1. ran \in Seq([status : {"succeeded", "failed"}, load : BOOLEAN, seconds : Nat])
        BY <1>1, Zenon DEF PlanTypeOK
      <4>2. /\ Len(Append(ran, e)) = Len(ran) + 1 /\ DOMAIN Append(ran, e) = 1..(Len(ran) + 1)
            /\ Append(ran, e)[Len(ran) + 1] = e
            /\ \A i \in DOMAIN ran : Append(ran, e)[i] = ran[i]
        BY <4>1
      <4>3. ran' = Append(ran, e)
        BY <2>1
      <4> QED
        BY <4>2, <4>3, Zenon
    <3>4. Len(ran') = k /\ DOMAIN ran' = 1..k /\ ran'[k] = e
      BY <2>0, <3>3, Zenon
    <3> QED
      BY <2>0, <3>2, <3>3, <3>4, Zenon
  <2>3. k \in DOMAIN plan
    BY <1>1, <2>1, <2>2, PlanRuns
  <2>4. \A i \in DOMAIN ran' : i = k \/ i \in DOMAIN ran
    BY <2>0, <2>2
  <2>5. /\ ran'[k].load = loads /\ ran'[k].status = status
        /\ ran'[k].seconds = (IF loads THEN LoadSeconds ELSE 0) + BenchSeconds[WorkloadOf(k)]
    <3> HIDE DEF loads
    <3>1. /\ e.load = loads /\ e.status = status
          /\ e.seconds = (IF loads THEN LoadSeconds ELSE 0) + BenchSeconds[plan[k].point.workload]
      OBVIOUS
    <3> HIDE DEF e
    <3> QED
      BY <2>2, <3>1, Zenon DEF WorkloadOf
  <2> HIDE DEF e, loads
  <2>6. ASSUME NEW i \in DOMAIN ran'
        PROVE  ran'[i].seconds = (IF ran'[i].load THEN LoadSeconds ELSE 0)
                                   + BenchSeconds[WorkloadOf(i)']
    <3>1. WorkloadOf(i)' = WorkloadOf(i)
      BY <2>1 DEF WorkloadOf
    <3>2. CASE i = k
      BY <2>5, <3>1, <3>2, Zenon
    <3>3. CASE i \in DOMAIN ran
      BY <2>2, <3>1, <3>3, Zenon DEF PlanInv, LoadsFollowPlan
    <3> QED
      BY <2>4, <3>2, <3>3
  <2>7. ASSUME AllSucceeded'
        PROVE  /\ loaded' = Kept'
               /\ \A i \in DOMAIN ran' : ran'[i].load = PlannedLoad(i)'
    <3>1. \A i \in DOMAIN ran' : ran'[i].status = "succeeded"
      BY <2>7 DEF AllSucceeded, Observed
    <3>2. status = "succeeded"
        <4>1. k \in DOMAIN ran'
        BY <2>0, <2>2
      <4> QED
        BY <2>5, <3>1, <4>1
    <3>3. AllSucceeded
      <4>1. \A i \in DOMAIN ran : i \in DOMAIN ran'
        BY <2>0, <2>2
      <4> QED
        BY <2>2, <3>1, <4>1 DEF AllSucceeded, Observed
    <3>4. loaded = Kept /\ \A i \in DOMAIN ran : ran[i].load = PlannedLoad(i)
      BY <3>3, Zenon DEF PlanInv, LoadsFollowPlan
    <3>5. loaded' = Kept'
      <4>1. ran' # <<>>
        BY <2>0, <2>2
      <4>2. KeepLoaded(k)' = KeepLoaded(k)
        BY <2>1 DEF KeepLoaded
      <4>3. Kept' = IF KeepLoaded(k) THEN {plan[k].text} ELSE {}
        BY <2>1, <2>2, <4>1, <4>2, Zenon DEF Kept
      <4> QED
        BY <2>1, <3>2, <4>3
    <3>6. loads = PlannedLoad(k)
      <4>1. CASE ran = <<>>
        <5>1. loaded = {} /\ k = 1
          BY <2>0, <3>4, <4>1 DEF Kept
        <5> QED
          BY <5>1 DEF PlannedLoad, loads
      <4>2. CASE ran # <<>>
        <5>1. Len(ran) \in Nat \ {0} /\ k - 1 = Len(ran) /\ k # 1 /\ Len(ran) < Len(plan)
          <6>1. Len(ran) # 0
            BY <1>1, <4>2 DEF PlanTypeOK
          <6>2. Len(plan) \in Nat
            BY <1>1, PlanRuns
          <6> QED
            BY <2>0, <2>1, <2>2, <6>1, <6>2
        <5>2. loaded = IF plan[k].text = plan[k - 1].text THEN {plan[k - 1].text} ELSE {}
          BY <2>0, <3>4, <4>2, <5>1, Zenon DEF Kept, KeepLoaded
        <5> QED
          BY <5>1, <5>2, Zenon DEF PlannedLoad, loads
      <4> QED
        BY <4>1, <4>2
    <3>7. ASSUME NEW i \in DOMAIN ran'
          PROVE  ran'[i].load = PlannedLoad(i)'
      <4>1. PlannedLoad(i)' = PlannedLoad(i)
        BY <2>1 DEF PlannedLoad
      <4> QED
        BY <2>2, <2>4, <2>5, <3>4, <3>6, <4>1, Zenon
    <3> QED
      BY <3>5, <3>7
  <2> QED
    BY <2>6, <2>7, Zenon DEF LoadsFollowPlan
<1>4. CASE UNCHANGED planVars
  BY <1>4 DEF PlanInv, LoadsFollowPlan, planVars, AllSucceeded, Observed, Kept, KeepLoaded,
              PlannedLoad, WorkloadOf
<1> QED
  BY <1>2, <1>3, <1>4 DEF PlanNext

(* Between two runs the engine that is up is the one the plan keeps, as long *)
(* as all succeeded, and every run took what it should.                      *)
THEOREM PlanInvariant == PlanSpec => []PlanInv
<1>1. PlanInv /\ [PlanNext]_planVars => PlanInv'
  BY PlanTypesKept, LoadsKept DEF PlanInv
<1> QED
  BY <1>1, PlanStarts, PTL DEF PlanSpec

(* A plan is the whole matrix, each point once, in the order asked for, for  *)
(* any number of configurations, workloads and replicates (expand).          *)
THEOREM PlanIsTheMatrix == PlanSpec => []PlanCoversMatrix
<1>1. PlanInv => PlanCoversMatrix
  <2> SUFFICES ASSUME PlanInv, answer = "created"
               PROVE  PlanCoversMatrix
    BY DEF PlanCoversMatrix
  <2> DEFINE points == [k \in DOMAIN plan |-> plan[k].point]
             configs == Configs(axes)
             same(k) == points[k].config = points[k + 1].config /\
                        points[k].workload = points[k + 1].workload
  <2>1. IsAxes(axes) /\ Len(configs) \in Nat
    BY ConfigsCounted DEF PlanInv, PlanTypeOK, IsAxes
  <2>2. /\ DOMAIN plan = DOMAIN Expand(axes, configs)
        /\ Len(plan) \in Nat /\ DOMAIN plan = 1..Len(plan)
        /\ \A k \in DOMAIN plan : points[k] = Expand(axes, configs)[k]
    BY <2>1, Planned DEF PlanInv, PlanTypeOK
  <2>3. DOMAIN points = DOMAIN plan
    OBVIOUS
  <2>4. IsInjective(points)
    <3>1. ASSUME NEW k \in DOMAIN plan, NEW j \in DOMAIN plan, points[k] = points[j]
          PROVE  k = j
      <4> HIDE DEF points, configs
      <4>1. Position(axes, Len(configs), points[k]) = k - 1 /\ k \in Nat
        BY <2>1, <2>2, Placed
      <4>2. Position(axes, Len(configs), points[j]) = j - 1 /\ j \in Nat
        BY <2>1, <2>2, Placed
      <4> QED
        BY <3>1, <4>1, <4>2
    <3> HIDE DEF points
    <3> QED
      BY <2>3, <3>1 DEF IsInjective
  <2>5. Range(points) = Points(axes, Len(configs))
    <3> HIDE DEF points, configs
    <3>1. ASSUME NEW k \in DOMAIN plan
          PROVE  points[k] \in Points(axes, Len(configs))
      BY <2>1, <2>2, Placed
    <3>2. ASSUME NEW p \in Points(axes, Len(configs))
          PROVE  \E k \in DOMAIN plan : points[k] = p
      <4> DEFINE k == Position(axes, Len(configs), p) + 1
      <4>1. k \in DOMAIN Expand(axes, configs) /\ Expand(axes, configs)[k] = p
        BY <2>1, PlacedBack
      <4> HIDE DEF k
      <4> QED
        BY <2>2, <4>1
    <3> QED
      BY <2>3, <3>1, <3>2 DEF Range
  <2>6. ASSUME NEW k \in 1..Len(plan) - 1
        PROVE  IF axes.order = "grouped"
               THEN points[k].replicate < axes.replicates - 1 => same(k)
               ELSE /\ points[k].replicate <= points[k + 1].replicate
                    /\ points[k].workload < axes.workloads => points[k].config = points[k + 1].config
    <3>1. k \in DOMAIN plan /\ k + 1 \in DOMAIN plan
      BY <2>2
    <3> DEFINE p == points[k]
               q == points[k + 1]
    <3>2. IF axes.order = "grouped"
          THEN p.replicate < axes.replicates - 1 =>
                 q = [config |-> p.config, workload |-> p.workload, replicate |-> p.replicate + 1]
          ELSE /\ p.replicate <= q.replicate
               /\ p.workload < axes.workloads =>
                    q = [config |-> p.config, workload |-> p.workload + 1, replicate |-> p.replicate]
      <4>1. p = Expand(axes, configs)[k] /\ q = Expand(axes, configs)[k + 1]
        BY <2>2, <3>1
      <4>2. k \in DOMAIN Expand(axes, configs) /\ k + 1 \in DOMAIN Expand(axes, configs)
        BY <2>2, <3>1
      <4> HIDE DEF p, q, configs
      <4>3. Follows(axes, Expand(axes, configs)[k], Expand(axes, configs)[k + 1])
        BY <2>1, <4>2, InOrder
      <4>4. Follows(axes, p, q)
        BY <4>1, <4>3, Zenon
      <4> QED
        BY <4>4, Zenon DEF Follows
    <3> HIDE DEF p, q
    <3>3. IF axes.order = "grouped"
          THEN p.replicate < axes.replicates - 1 => p.config = q.config /\ p.workload = q.workload
          ELSE /\ p.replicate <= q.replicate
               /\ p.workload < axes.workloads => p.config = q.config
      BY <3>2
    <3> QED
      BY <3>3, Zenon DEF p, q
  <2> HIDE DEF points
  <2> QED
    BY <2>4, <2>5, <2>6, Zenon DEF PlanCoversMatrix, Points, points
<1> QED
  BY <1>1, PlanInvariant, PTL

(* A sweep without a failure loads the engine before the runs for which its  *)
(* author was told so, and as often (plan_engine_loads, _engine_starts,      *)
(* _ensure_server, _next_run_wants_same_config).                             *)
THEOREM LoadsAreThePlanned == PlanSpec => []StartsAsPlanned
<1>1. PlanInv => StartsAsPlanned
  <2> SUFFICES ASSUME PlanInv, AllSucceeded
               PROVE  StartsAsPlanned
    BY DEF StartsAsPlanned
  <2>1. \A k \in DOMAIN ran : ran[k].load = PlannedLoad(k)
    BY Zenon DEF PlanInv, LoadsFollowPlan
  <2>2. Loads(DOMAIN ran) = {k \in DOMAIN ran : PlannedLoad(k)}
    BY <2>1 DEF Loads
  <2>3. ASSUME Remaining = {}
        PROVE  DOMAIN plan = DOMAIN ran
    <3>1. DOMAIN plan \subseteq DOMAIN ran
      BY <2>3 DEF Remaining
    <3>2. DOMAIN ran \subseteq DOMAIN plan
      <4>1. Len(plan) \in Nat /\ DOMAIN plan = 1..Len(plan)
        BY PlanRuns DEF PlanInv
      <4>2. Len(ran) \in Nat /\ DOMAIN ran = 1..Len(ran) /\ Len(ran) <= Len(plan)
        BY DEF PlanInv, PlanTypeOK
      <4> QED
        BY <4>1, <4>2
    <3> QED
      BY <3>1, <3>2
  <2> QED
    BY <2>2, <2>3 DEF StartsAsPlanned, EngineStarts
<1> QED
  BY <1>1, PlanInvariant, PTL
-----------------------------------------------------------------------------
(* A median of numbers is a number, and of equal ones that one.              *)
LEMMA MedianType ==
  ASSUME NEW K, IsFiniteSet(K), K # {}, NEW f, \A k \in K : f[k] \in Int
  PROVE  Median(K, f) \in Int
<1> DEFINE n == Cardinality(K)
<1>1. n \in Nat \ {0}
  BY FS_CardinalityType, FS_EmptySet
<1>2. \A i \in 1..n : Nth(K, f, i) \in Int
  BY NthIsOne
<1>3. CASE n % 2 = 1
  <2>1. (n + 1) \div 2 \in 1..n
    <3> HIDE DEF n
    <3> QED
      BY <1>1, <1>3
  <2> QED
    BY <1>2, <1>3, <2>1 DEF Median
<1>4. CASE n % 2 # 1
  <2>1. n \div 2 \in 1..n /\ (n \div 2) + 1 \in 1..n
    <3> HIDE DEF n
    <3> QED
      BY <1>1, <1>4
  <2>2. \A a, b \in Int : (a + b) \div 2 \in Int
    OBVIOUS
  <2> QED
    BY <1>2, <1>4, <2>1, <2>2, Zenon DEF Median
<1> QED
  BY <1>3, <1>4

LEMMA MedianOfEqual ==
  ASSUME NEW K, IsFiniteSet(K), K # {}, NEW f, NEW c \in Int, \A k \in K : f[k] = c
  PROVE  Median(K, f) = c
<1> DEFINE n == Cardinality(K)
<1>1. n \in Nat \ {0}
  BY FS_CardinalityType, FS_EmptySet
<1>2. ASSUME NEW i \in 1..n PROVE Nth(K, f, i) = c
  <2>1. Nth(K, f, i) \in {f[k] : k \in K}
    BY NthIsOne
  <2> QED
    BY <2>1
<1>3. CASE n % 2 = 1
  <2>1. (n + 1) \div 2 \in 1..n
    <3> HIDE DEF n
    <3> QED
      BY <1>1, <1>3
  <2> QED
    BY <1>2, <1>3, <2>1 DEF Median
<1>4. CASE n % 2 # 1
  <2>1. n \div 2 \in 1..n /\ (n \div 2) + 1 \in 1..n
    <3> HIDE DEF n
    <3> QED
      BY <1>1, <1>4
  <2>2. (c + c) \div 2 = c
    OBVIOUS
  <2>3. Median(K, f) = (Nth(K, f, n \div 2) + Nth(K, f, (n \div 2) + 1)) \div 2
    BY <1>4, Zenon DEF Median
  <2> QED
    BY <1>2, <2>1, <2>2, <2>3, Zenon
<1> QED
  BY <1>3, <1>4
-----------------------------------------------------------------------------
(* The run before one that is not of the first workload has the same         *)
(* configuration: an engine is only loaded for the first workload.           *)
LEMMA SameBefore ==
  ASSUME NEW a, IsAxes(a), NEW configs, Len(configs) \in Nat,
         NEW k \in DOMAIN Expand(a, configs), Expand(a, configs)[k].workload # 1
  PROVE  /\ k - 1 \in DOMAIN Expand(a, configs)
         /\ Expand(a, configs)[k - 1].config = Expand(a, configs)[k].config
<1> DEFINE C == Len(configs)
           W == a.workloads
           R == a.replicates
           p == Expand(a, configs)[k]
           Before(q) == q \in Points(a, C) /\ q.config = p.config
                          /\ Position(a, C, q) + 1 = Position(a, C, p)
<1>1. W \in Nat \ {0} /\ R \in Nat \ {0} /\ C \in Nat
  BY AxesType
<1>2. p \in Points(a, C) /\ k \in Nat /\ Position(a, C, p) = k - 1
  BY Placed
<1>3. p.config \in 1..C /\ p.workload \in 1..W /\ p.workload # 1 /\ p.replicate \in 0..(R - 1)
  BY <1>2 DEF Points
<1>4. p.workload - 1 \in 1..W
  <2>1. \A i, n \in Nat : i \in 1..n /\ i # 1 => i - 1 \in 1..n
    OBVIOUS
  <2>2. p.workload \in Nat /\ W \in Nat
    <3> HIDE DEF p, W
    <3> QED
      BY <1>1, <1>3
  <2> HIDE DEF p, W
  <2> QED
    BY <1>3, <2>1, <2>2
<1>5. /\ p.config - 1 \in Int /\ p.workload - 1 \in Int /\ (p.workload - 1) - 1 \in Int
      /\ p.replicate \in Int
      /\ W \in Int /\ R \in Int /\ C \in Int
  <2>1. /\ \A n \in Nat : n \in Int
        /\ \A n \in Nat : \A i \in 1..n : i - 1 \in Int /\ (i - 1) - 1 \in Int
        /\ \A n \in Nat : \A i \in 0..(n - 1) : i \in Int
    OBVIOUS
  <2> HIDE DEF p, W, R, C
  <2>2. W \in Int /\ R \in Int /\ C \in Int
    BY <1>1, <2>1, Zenon
  <2>3. p.config - 1 \in Int
    BY <1>1, <1>3, <2>1, Zenon
  <2>4. p.workload - 1 \in Int /\ (p.workload - 1) - 1 \in Int
    <3>1. W \in Nat
      BY <1>1
    <3> QED
      BY <1>3, <2>1, <3>1, Zenon
  <2>5. p.replicate \in Int
    <3>1. R \in Nat
      BY <1>1
    <3> QED
      BY <1>3, <2>1, <3>1, Zenon
  <2> QED
    BY <2>2, <2>3, <2>4, <2>5
<1>6. ASSUME a.order = "grouped", p.replicate = 0
      PROVE  \E q : Before(q)
  <2> DEFINE q == [config |-> p.config, workload |-> p.workload - 1, replicate |-> R - 1]
             u == (p.config - 1) * W
             v == p.workload - 1
  <2>1. q \in Points(a, C)
    <3>1. R - 1 \in 0..(R - 1)
      <4> HIDE DEF R
      <4> QED
        BY <1>1
    <3> HIDE DEF p, C
    <3> QED
      BY <1>3, <1>4, <3>1, MakePoint, Zenon
  <2>2. Position(a, C, q) = ((u + (v - 1)) * R) + (R - 1)
    <3>1. q.config = p.config /\ q.workload = p.workload - 1 /\ q.replicate = R - 1
      OBVIOUS
    <3> HIDE DEF p, q, C
    <3> QED
      BY <1>6, <3>1, Zenon DEF Position
  <2>3. Position(a, C, p) = ((u + v) * R) + 0
    BY <1>6, Zenon DEF Position
  <2>4. u \in Int /\ v \in Int /\ R \in Int
    <3>1. \A i, j \in Int : i * j \in Int
      OBVIOUS
    <3> HIDE DEF p, W, R
    <3> QED
      BY <1>5, <3>1
  <2>5. \A i, j, n \in Int : (((i + (j - 1)) * n) + (n - 1)) + 1 = ((i + j) * n) + 0
    BY SMT
  <2>6. Before(q)
    <3>1. q.config = p.config
      OBVIOUS
    <3> HIDE DEF p, q, u, v, R, C
    <3>2. (((u + (v - 1)) * R) + (R - 1)) + 1 = ((u + v) * R) + 0
      BY <2>4, <2>5, Zenon
    <3>3. Position(a, C, q) + 1 = Position(a, C, p)
      BY <2>2, <2>3, <3>2, Zenon
    <3> QED
      BY <2>1, <3>1, <3>3
  <2> QED
    BY <2>6
<1>7. ASSUME a.order = "grouped", p.replicate # 0
      PROVE  \E q : Before(q)
  <2> DEFINE q == [config |-> p.config, workload |-> p.workload, replicate |-> p.replicate - 1]
             t == (((p.config - 1) * W) + (p.workload - 1)) * R
  <2>1. q \in Points(a, C)
    <3>1. p.replicate - 1 \in 0..(R - 1)
      <4> HIDE DEF p, R
      <4> QED
        BY <1>1, <1>3, <1>7
    <3> HIDE DEF p, C
    <3> QED
      BY <1>3, <3>1, MakePoint, Zenon
  <2>2. Position(a, C, q) = t + (p.replicate - 1) /\ Position(a, C, p) = t + p.replicate
    <3>1. q.config = p.config /\ q.workload = p.workload /\ q.replicate = p.replicate - 1
      OBVIOUS
    <3> HIDE DEF p, q, C
    <3> QED
      BY <1>7, <3>1, Zenon DEF Position
  <2>3. t \in Int
    <3> HIDE DEF p, W, R
    <3> QED
      BY <1>5, PlaceValue
  <2>4. Before(q)
    <3>1. q.config = p.config
      OBVIOUS
    <3> HIDE DEF p, q, t, C
    <3> QED
      BY <1>5, <2>1, <2>2, <2>3, <3>1
  <2> QED
    BY <2>4
<1>8. ASSUME a.order # "grouped"
      PROVE  \E q : Before(q)
  <2> DEFINE q == [config |-> p.config, workload |-> p.workload - 1, replicate |-> p.replicate]
             t == ((p.replicate * C) + (p.config - 1)) * W
  <2>1. q \in Points(a, C)
    <3> HIDE DEF p, C
    <3> QED
      BY <1>3, <1>4, MakePoint, Zenon
  <2>2. Position(a, C, q) = t + ((p.workload - 1) - 1) /\ Position(a, C, p) = t + (p.workload - 1)
    <3>1. q.config = p.config /\ q.workload = p.workload - 1 /\ q.replicate = p.replicate
      OBVIOUS
    <3> HIDE DEF p, q, C
    <3> QED
      BY <1>8, <3>1, Zenon DEF Position
  <2>3. t \in Int
    <3> HIDE DEF p, W, C
    <3> QED
      BY <1>5, PlaceValue
  <2>4. Before(q)
    <3>1. q.config = p.config
      OBVIOUS
    <3> HIDE DEF p, q, t, C
    <3>2. Position(a, C, q) + 1 = Position(a, C, p)
      <4>1. \A i, j \in Int : (i + (j - 1)) + 1 = i + j
        BY SMT
      <4>2. (t + ((p.workload - 1) - 1)) + 1 = t + (p.workload - 1)
        BY <1>5, <2>3, <4>1, Zenon
      <4> QED
        BY <2>2, <4>2, Zenon
    <3> QED
      BY <2>1, <3>1, <3>2, Zenon
  <2> QED
    BY <2>4
<1>9. PICK q : Before(q)
  BY <1>6, <1>7, <1>8
<1>10. /\ Position(a, C, q) + 1 \in DOMAIN Expand(a, configs)
       /\ Expand(a, configs)[Position(a, C, q) + 1] = q
  BY <1>9, PlacedBack
<1>11. Position(a, C, q) + 1 = k - 1
  BY <1>2, <1>9
<1> QED
  BY <1>9, <1>10, <1>11

LEMMA FirstWorkload ==
  ASSUME PlanTypeOK, NEW k \in DOMAIN plan, PlannedLoad(k)
  PROVE  WorkloadOf(k) = 1
<1> SUFFICES ASSUME WorkloadOf(k) # 1
             PROVE  FALSE
  OBVIOUS
<1>1. IsAxes(axes) /\ Len(Configs(axes)) \in Nat
  BY ConfigsCounted DEF PlanTypeOK, IsAxes
<1>2. DOMAIN plan = DOMAIN Expand(axes, Configs(axes))
  BY <1>1, PlanRuns, Planned DEF PlanTypeOK
<1>3. plan[k].point = Expand(axes, Configs(axes))[k]
  BY PlanRuns
<1>4. /\ k - 1 \in DOMAIN plan
      /\ Expand(axes, Configs(axes))[k - 1].config = plan[k].point.config
  BY <1>1, <1>2, <1>3, SameBefore DEF WorkloadOf
<1>5. plan[k - 1].text = plan[k].text
  <2>1. /\ k - 1 \in DOMAIN plan
        /\ plan[k - 1].point = Expand(axes, Configs(axes))[k - 1]
        /\ plan[k - 1].text = Configs(axes)[plan[k - 1].point.config]
        /\ plan[k].text = Configs(axes)[plan[k].point.config]
    BY <1>4, PlanRuns
  <2> QED
    BY <1>3, <1>4, <2>1, Zenon
<1>6. k # 1
  BY <1>4, PlanRuns
<1> QED
  BY <1>5, <1>6 DEF PlannedLoad
-----------------------------------------------------------------------------
LEMMA MaxWithZero ==
  ASSUME NEW x \in Int
  PROVE  Max({0, x}) \in Int /\ (x >= 0 => Max({0, x}) = x)
<1> DEFINE m == Max({0, x})
<1>1. m \in {0, x} /\ m >= 0 /\ m >= x
  <2>1. IsFiniteSet({0, x})
    <3>1. IsFiniteSet({0})
      BY FS_Singleton
    <3>2. IsFiniteSet({0} \cup {x})
      BY <3>1, FS_AddElement
    <3>3. {0, x} = {0} \cup {x}
      OBVIOUS
    <3> QED
      BY <3>2, <3>3, Zenon
  <2>2. \A y \in {0, x} : y \in Int
    OBVIOUS
  <2> QED
    BY <2>1, <2>2, MaxIsGreatest
<1> HIDE DEF m
<1>2. m \in Int /\ (x >= 0 => m = x)
  BY <1>1
<1> QED
  BY <1>2 DEF m

(* What is known of the runs that have ended, and of those to come, while    *)
(* none has failed.                                                          *)
LEMMA RunsFinite ==
  ASSUME PlanInv, AllSucceeded
  PROVE  /\ Observed = DOMAIN ran /\ Observed \subseteq DOMAIN plan
         /\ IsFiniteSet(Observed) /\ IsFiniteSet(Benchmarks) /\ IsFiniteSet(WithLoads)
         /\ Remaining \subseteq DOMAIN plan /\ IsFiniteSet(Remaining)
         /\ IsFiniteSet(LoadsRemaining) /\ LoadsRemaining \subseteq Remaining
         /\ Benchmarks \subseteq Observed /\ WithLoads = {k \in Observed : PlannedLoad(k)}
<1>1. PlanTypeOK
  BY DEF PlanInv
<1>2. Len(plan) \in Nat /\ DOMAIN plan = 1..Len(plan)
  BY <1>1, PlanRuns
<1>3. Len(ran) \in Nat /\ DOMAIN ran = 1..Len(ran) /\ Len(ran) <= Len(plan)
  BY <1>1 DEF PlanTypeOK
<1>4. Observed = DOMAIN ran
  BY DEF AllSucceeded
<1>5. DOMAIN ran \subseteq DOMAIN plan
  BY <1>2, <1>3
<1>6. IsFiniteSet(DOMAIN plan)
  BY <1>2, FS_Interval
<1>7. Remaining \subseteq DOMAIN plan /\ LoadsRemaining \subseteq Remaining
  BY DEF Remaining, LoadsRemaining
<1>8. /\ Benchmarks \subseteq Observed /\ WithLoads \subseteq Observed
      /\ WithLoads = {k \in Observed : PlannedLoad(k)}
  BY DEF Benchmarks, WithLoads
<1>9. IsFiniteSet(Observed) /\ IsFiniteSet(Remaining)
  BY <1>4, <1>5, <1>6, <1>7, FS_Subset
<1> QED
  BY <1>4, <1>5, <1>7, <1>8, <1>9, FS_Subset

LEMMA RunsCost ==
  ASSUME PlanInv, AllSucceeded
  PROVE  /\ LoadSeconds \in Nat
         /\ \A k \in DOMAIN plan : BenchSeconds[WorkloadOf(k)] \in Nat
         /\ \A k \in Observed :
              /\ Seconds[k] \in Nat
              /\ Seconds[k] = (IF PlannedLoad(k) THEN LoadSeconds ELSE 0)
                                + BenchSeconds[WorkloadOf(k)]
<1>1. PlanTypeOK
  BY DEF PlanInv
<1>2. LoadSeconds \in Nat
  BY SweepPlanAssumption
<1>3. \A k \in DOMAIN plan : BenchSeconds[WorkloadOf(k)] \in Nat
  BY <1>1, PlanRuns, SweepPlanAssumption
<1>4. ASSUME NEW k \in Observed
      PROVE  /\ Seconds[k] \in Nat
             /\ Seconds[k] = (IF PlannedLoad(k) THEN LoadSeconds ELSE 0)
                               + BenchSeconds[WorkloadOf(k)]
  <2>1. k \in DOMAIN ran
    BY DEF Observed
  <2>2. /\ ran[k].seconds = (IF ran[k].load THEN LoadSeconds ELSE 0) + BenchSeconds[WorkloadOf(k)]
        /\ ran[k].load = PlannedLoad(k)
    BY <2>1, Zenon DEF PlanInv, LoadsFollowPlan
  <2>3. ran[k].seconds \in Nat
    <3>1. \A R : \A q \in Seq(R) : \A i \in DOMAIN q : q[i] \in R
      OBVIOUS
    <3>2. ran[k] \in [status : {"succeeded", "failed"}, load : BOOLEAN, seconds : Nat]
      BY <1>1, <2>1, <3>1, Zenon DEF PlanTypeOK
    <3> QED
      BY <3>2
  <2>4. Seconds[k] = ran[k].seconds
    BY <2>1 DEF Seconds
  <2> QED
    BY <2>2, <2>3, <2>4, Zenon
<1> QED
  BY <1>2, <1>3, <1>4

(* The cost of a workload that was measured is what a run of it takes.       *)
LEMMA MeasuredCost ==
  ASSUME PlanInv, AllSucceeded, NEW w
  PROVE  /\ Benchmarks # {} => BenchCost(w) \in Int
         /\ w \in Measured => BenchCost(w) = BenchSeconds[w] /\ Benchmarks # {}
<1> DEFINE K == {k \in Benchmarks : WorkloadOf(k) = w}
<1>1. IsFiniteSet(Benchmarks) /\ Benchmarks \subseteq Observed /\ Observed \subseteq DOMAIN plan
  BY RunsFinite
<1>2. IsFiniteSet(K) /\ K \subseteq Benchmarks
  BY <1>1, FS_Subset
<1>3. \A k \in Benchmarks : Seconds[k] \in Int
  BY <1>1, RunsCost
<1>4. w \in Measured => K # {}
  BY DEF Measured
<1>5. ASSUME Benchmarks # {}
      PROVE  BenchCost(w) \in Int
  <2> HIDE DEF K
  <2>1. w \in Measured => Median(K, Seconds) \in Int
    BY <1>2, <1>3, <1>4, MedianType
  <2>2. Median(Benchmarks, Seconds) \in Int
    BY <1>1, <1>3, <1>5, MedianType
  <2> QED
    BY <2>1, <2>2, Zenon DEF BenchCost, K
<1>6. ASSUME w \in Measured
      PROVE  BenchCost(w) = BenchSeconds[w] /\ Benchmarks # {}
  <2>1. \A k \in K : Seconds[k] = BenchSeconds[w] /\ BenchSeconds[w] \in Int
    <3> SUFFICES ASSUME NEW k \in K
                 PROVE  Seconds[k] = BenchSeconds[w] /\ BenchSeconds[w] \in Int
      OBVIOUS
    <3>1. k \in Observed /\ k \in DOMAIN plan /\ WorkloadOf(k) = w
      BY <1>1, <1>2
    <3>2. ~PlannedLoad(k)
      BY DEF Benchmarks
    <3>3. /\ BenchSeconds[WorkloadOf(k)] \in Nat
          /\ Seconds[k] = (IF PlannedLoad(k) THEN LoadSeconds ELSE 0) + BenchSeconds[WorkloadOf(k)]
      BY <3>1, RunsCost
    <3>4. Seconds[k] = 0 + BenchSeconds[w]
      BY <3>1, <3>2, <3>3, Zenon
    <3> QED
      BY <3>1, <3>3, <3>4
  <2> HIDE DEF K
  <2>2. Median(K, Seconds) = BenchSeconds[w]
    <3>1. BenchSeconds[w] \in Int
      BY <1>4, <1>6, <2>1
    <3> QED
      BY <1>2, <1>4, <1>6, <2>1, <3>1, MedianOfEqual
  <2> QED
    BY <1>2, <1>4, <1>6, <2>2 DEF BenchCost, K
<1> QED
  BY <1>5, <1>6

(* What a load adds, seen from the runs that had one: what a load takes.     *)
LEMMA OverheadIsTheLoad ==
  ASSUME PlanInv, AllSucceeded, Benchmarks # {}, WithLoads # {}
  PROVE  Overhead \in Int /\ (1 \in Measured => Overhead = LoadSeconds)
<1> DEFINE extra(k) == Seconds[k] - BenchCost(WorkloadOf(k))
           f == [k \in WithLoads |-> Max({0, extra(k)})]
<1>1. /\ IsFiniteSet(WithLoads) /\ WithLoads = {k \in Observed : PlannedLoad(k)}
      /\ Observed \subseteq DOMAIN plan
  BY RunsFinite
<1>2. \A k \in WithLoads : k \in Observed /\ k \in DOMAIN plan /\ PlannedLoad(k)
  BY <1>1
<1>3. ASSUME NEW k \in WithLoads
      PROVE  /\ extra(k) \in Int
             /\ 1 \in Measured => extra(k) = LoadSeconds
  <2>1. k \in Observed /\ k \in DOMAIN plan /\ PlannedLoad(k)
    BY <1>2
  <2>2. /\ Seconds[k] \in Nat /\ BenchSeconds[WorkloadOf(k)] \in Nat /\ LoadSeconds \in Nat
        /\ Seconds[k] = LoadSeconds + BenchSeconds[WorkloadOf(k)]
    BY <2>1, RunsCost, Zenon
  <2>3. WorkloadOf(k) = 1
    BY <2>1, FirstWorkload DEF PlanInv
  <2>4. /\ BenchCost(WorkloadOf(k)) \in Int
        /\ 1 \in Measured => BenchCost(WorkloadOf(k)) = BenchSeconds[WorkloadOf(k)]
    BY <2>3, MeasuredCost, Zenon
  <2>5. \A u, v \in Int : u - v \in Int /\ (u + v) - v = u
    OBVIOUS
  <2>6. Seconds[k] \in Int /\ LoadSeconds \in Int /\ BenchSeconds[WorkloadOf(k)] \in Int
    BY <2>2
  <2> QED
    BY <2>2, <2>4, <2>5, <2>6, Zenon
<1> HIDE DEF extra
<1>4. ASSUME NEW k \in WithLoads
      PROVE  /\ f[k] \in Int
             /\ 1 \in Measured => f[k] = LoadSeconds
  <2>1. f[k] = Max({0, extra(k)})
    OBVIOUS
  <2>2. f[k] \in Int /\ (extra(k) >= 0 => f[k] = extra(k))
    <3> HIDE DEF f
    <3> QED
      BY <1>3, <2>1, MaxWithZero
  <2> HIDE DEF f
  <2>3. LoadSeconds >= 0
    BY RunsCost
  <2> QED
    BY <1>3, <2>2, <2>3
<1>5. Overhead = Median(WithLoads, f)
  BY Zenon DEF Overhead, extra
<1> HIDE DEF f
<1>6. Median(WithLoads, f) \in Int
  BY <1>1, <1>4, MedianType
<1>7. ASSUME 1 \in Measured
      PROVE  Median(WithLoads, f) = LoadSeconds
  <2>1. LoadSeconds \in Int /\ \A k \in WithLoads : f[k] = LoadSeconds
    BY <1>4, <1>7, RunsCost
  <2> QED
    BY <1>1, <2>1, MedianOfEqual
<1> QED
  BY <1>5, <1>6, <1>7

(* With nothing but loads behind it and ahead of it, a sweep is estimated    *)
(* from whole runs.                                                          *)
LEMMA ExactFromLoads ==
  ASSUME PlanInv, AllSucceeded, Observed # {}, Benchmarks = {}, LoadsRemaining = Remaining
  PROVE  Median(WithLoads, Seconds) * Cardinality(Remaining)
           = SumFunction([k \in Remaining |-> BenchSeconds[WorkloadOf(k)]])
               + LoadSeconds * Cardinality(LoadsRemaining)
<1> DEFINE b == BenchSeconds[1]
           n == Cardinality(Remaining)
           f == [k \in Remaining |-> BenchSeconds[WorkloadOf(k)]]
<1>1. /\ WithLoads = Observed /\ IsFiniteSet(WithLoads) /\ Observed \subseteq DOMAIN plan
      /\ \A k \in Observed : PlannedLoad(k)
      /\ Remaining \subseteq DOMAIN plan /\ IsFiniteSet(Remaining) /\ n \in Nat
  BY RunsFinite, FS_CardinalityType DEF WithLoads
<1>2. \A k \in Observed : WorkloadOf(k) = 1 /\ Seconds[k] = LoadSeconds + b
  <2> SUFFICES ASSUME NEW k \in Observed
               PROVE  WorkloadOf(k) = 1 /\ Seconds[k] = LoadSeconds + b
    OBVIOUS
  <2>1. k \in DOMAIN plan /\ PlannedLoad(k)
    BY <1>1
  <2>2. WorkloadOf(k) = 1
    BY <2>1, FirstWorkload DEF PlanInv
  <2>3. Seconds[k] = LoadSeconds + BenchSeconds[WorkloadOf(k)]
    BY <2>1, RunsCost, Zenon
  <2> QED
    BY <2>2, <2>3, Zenon
<1>3. b \in Nat /\ LoadSeconds \in Nat
  <2>1. PICK k \in Observed : TRUE
    OBVIOUS
  <2>2. BenchSeconds[WorkloadOf(k)] \in Nat /\ LoadSeconds \in Nat
    BY <1>1, <2>1, RunsCost
  <2> QED
    BY <1>2, <2>1, <2>2
<1>4. \A k \in Remaining : f[k] = b
  <2> SUFFICES ASSUME NEW k \in Remaining
               PROVE  BenchSeconds[WorkloadOf(k)] = b
    OBVIOUS
  <2>1. k \in DOMAIN plan /\ PlannedLoad(k)
    BY <1>1 DEF LoadsRemaining
  <2> QED
    BY <2>1, FirstWorkload DEF PlanInv
<1>5. SumFunction(f) = SumFunctionOnSet(f, Remaining)
  BY DEF SumFunction
<1> HIDE DEF f, n
<1>6. Median(WithLoads, Seconds) = LoadSeconds + b
  <2> HIDE DEF b
  <2>1. LoadSeconds + b \in Int
    BY <1>3
  <2> QED
    BY <1>1, <1>2, <2>1, MedianOfEqual
<1> HIDE DEF b
<1>7. SumFunction(f) = b * n
  <2>1. b \in Int
    BY <1>3
  <2> QED
    BY <1>1, <1>4, <1>5, <2>1, SumConstant DEF n
<1>8. (LoadSeconds + b) * n = (b * n) + (LoadSeconds * n)
  <2>1. \A u, v, w \in Nat : (u + v) * w = (v * w) + (u * w)
    BY SMT
  <2> QED
    BY <1>1, <1>3, <2>1, Zenon
<1> QED
  BY <1>6, <1>7, <1>8, Zenon DEF f, n

(* With a benchmark behind it, a sweep is estimated workload by workload.    *)
LEMMA ExactFromBenchmarks ==
  ASSUME PlanInv, AllSucceeded, Benchmarks # {}, ~Caveat
  PROVE  SumFunction([k \in Remaining |-> BenchCost(WorkloadOf(k))])
           + (IF WithLoads = {} THEN 0 ELSE Overhead * Cardinality(LoadsRemaining))
         = SumFunction([k \in Remaining |-> BenchSeconds[WorkloadOf(k)]])
             + LoadSeconds * Cardinality(LoadsRemaining)
<1> DEFINE f == [k \in Remaining |-> BenchCost(WorkloadOf(k))]
           g == [k \in Remaining |-> BenchSeconds[WorkloadOf(k)]]
           n == Cardinality(LoadsRemaining)
           more == IF WithLoads = {} THEN 0 ELSE Overhead * n
<1>1. /\ Remaining \subseteq DOMAIN plan /\ IsFiniteSet(Remaining)
      /\ LoadsRemaining \subseteq Remaining /\ IsFiniteSet(LoadsRemaining) /\ n \in Nat
  BY RunsFinite, FS_CardinalityType
<1>2. /\ \A k \in Remaining : WorkloadOf(k) \in Measured
      /\ LoadsRemaining # {} => WithLoads # {}
  BY DEF Caveat
<1>3. \A k \in Remaining : f[k] = g[k]
  BY <1>2, MeasuredCost
<1>4. SumFunction(f) = SumFunctionOnSet(f, Remaining) /\ SumFunction(g) = SumFunctionOnSet(g, Remaining)
  BY DEF SumFunction
<1>5. SumFunction(f) = SumFunction(g)
  <2> HIDE DEF f, g
  <2> QED
    BY <1>1, <1>3, <1>4, SumSame
<1>6. more = LoadSeconds * n
  <2>1. CASE LoadsRemaining = {}
    <3>1. n = 0
      BY <2>1, FS_EmptySet
    <3>2. LoadSeconds \in Int /\ (WithLoads # {} => Overhead \in Int)
      BY RunsCost, OverheadIsTheLoad
    <3>3. \A u \in Int : u * 0 = 0
      OBVIOUS
    <3> HIDE DEF n
    <3> QED
      BY <3>1, <3>2, <3>3, Zenon
  <2>2. CASE LoadsRemaining # {}
    <3>1. PICK k \in LoadsRemaining : TRUE
      BY <2>2
    <3>2. k \in DOMAIN plan /\ PlannedLoad(k) /\ k \in Remaining
      BY <1>1, <3>1 DEF LoadsRemaining
    <3>3. WorkloadOf(k) = 1
      BY <3>2, FirstWorkload DEF PlanInv
    <3>4. 1 \in Measured /\ WithLoads # {}
      BY <1>2, <2>2, <3>2, <3>3
    <3>5. Overhead = LoadSeconds
      BY <3>4, OverheadIsTheLoad
    <3> QED
      BY <3>4, <3>5, Zenon
  <2> QED
    BY <2>1, <2>2
<1> QED
  BY <1>5, <1>6, Zenon

(* A remaining-time estimate that carries no caveat is exact, for any matrix *)
(* and any durations: what a load costs is told from the runs around it, and *)
(* the loads still to come are the planned ones (estimate_remaining).        *)
THEOREM EstimatesAreExact == PlanSpec => []EstimateExact
<1>1. PlanInv => EstimateExact
  <2> DEFINE rest == SumFunction([k \in Remaining |-> BenchSeconds[WorkloadOf(k)]])
                       + LoadSeconds * Cardinality(LoadsRemaining)
  <2> SUFFICES ASSUME PlanInv, AllSucceeded, SecondsRemaining # Unknown, ~Caveat
               PROVE  SecondsRemaining = rest
    BY Zenon DEF EstimateExact
  <2>1. CASE Remaining = {}
    <3>1. SecondsRemaining = 0
      BY <2>1 DEF SecondsRemaining
    <3>2. LoadsRemaining = {}
      BY <2>1 DEF LoadsRemaining
    <3>3. SumFunction([k \in Remaining |-> BenchSeconds[WorkloadOf(k)]]) = 0
      BY <2>1, SumEmpty DEF SumFunction
    <3>4. LoadSeconds * Cardinality(LoadsRemaining) = 0
      BY <3>2, FS_EmptySet, RunsCost
    <3>5. rest = 0 + 0
      BY <3>3, <3>4, Zenon
    <3> HIDE DEF rest
    <3> QED
      BY <3>1, <3>5
  <2>2. CASE Remaining # {} /\ Observed = {}
    BY <2>2 DEF SecondsRemaining
  <2>3. CASE Remaining # {} /\ Observed # {} /\ Benchmarks = {}
    <3>1. LoadsRemaining = Remaining
      BY <2>3, Zenon DEF SecondsRemaining
    <3>2. SecondsRemaining = Median(WithLoads, Seconds) * Cardinality(Remaining)
      BY <2>3, <3>1, Zenon DEF SecondsRemaining
    <3> QED
      BY <2>3, <3>1, <3>2, ExactFromLoads
  <2>4. CASE Remaining # {} /\ Observed # {} /\ Benchmarks # {}
    <3>1. SecondsRemaining =
            SumFunction([k \in Remaining |-> BenchCost(WorkloadOf(k))])
              + (IF WithLoads = {} THEN 0 ELSE Overhead * Cardinality(LoadsRemaining))
      BY <2>4, Zenon DEF SecondsRemaining
    <3> QED
      BY <2>4, <3>1, ExactFromBenchmarks
  <2> QED
    BY <2>1, <2>2, <2>3, <2>4
<1> QED
  BY <1>1, PlanInvariant, PTL
=============================================================================
