----------------------------- MODULE ListLemmas -----------------------------
(***************************************************************************)
(* Facts about the sequences that stand for the kernel's linked lists and  *)
(* tables: what appending, prepending and removing an element do to the    *)
(* elements, and that the first index with a property exists; and what     *)
(* follows by induction along a range of numbers, which is about sets and  *)
(* functions here.                                                         *)
(***************************************************************************)
EXTENDS Integers, Sequences, SequencesExt, FiniteSetTheorems, SequenceTheorems, TLAPS

(* No element is linked twice. *)
Injective(s) == \A i, j \in DOMAIN s : s[i] = s[j] => i = j

-----------------------------------------------------------------------------
(* A walk along a table finds the first entry with a property: Min is defined
   on every non-empty set of indices. *)
LEMMA FirstIndex ==
  ASSUME NEW n \in Nat, NEW S, S \subseteq 1 .. n, S # {}
  PROVE  Min(S) \in S /\ \A y \in S : Min(S) <= y
<1> DEFINE Reaching == {1 .. k : k \in S}
           All == 1 .. n
<1>1. IsWellFoundedOn(StrictSubsetOrdering(All), SUBSET All)
  <2>1. IsFiniteSet(All)
    BY FS_Interval
  <2> HIDE DEF All
  <2>2. FiniteSubsetsOf(All) = SUBSET All
    BY <2>1, FS_FiniteSubsetsOfFinite
  <2> QED
    BY <2>2, FS_StrictSubsetOrderingWellFounded
<1>2. Reaching \subseteq SUBSET All /\ Reaching # {}
  <2>1. \A k \in S : 1 .. k \subseteq All
    OBVIOUS
  <2> QED
    BY <2>1
<1>3. PICK x \in Reaching : \A y \in Reaching : ~ (<<y, x>> \in StrictSubsetOrdering(All))
  BY <1>1, <1>2, WFMin
<1>4. PICK m \in S : x = 1 .. m
  OBVIOUS
<1>5. ASSUME NEW y \in S, y < m PROVE FALSE
  <2>1. 1 .. y \in Reaching /\ 1 .. y \subseteq 1 .. m /\ m \in 1 .. m /\ m \notin 1 .. y
    BY <1>5
  <2>2. <<1 .. y, x>> \in StrictSubsetOrdering(All)
    BY <1>2, <1>4, <2>1 DEF StrictSubsetOrdering
  <2> QED
    BY <1>3, <2>1, <2>2
<1>6. \A y \in S : m <= y
  BY <1>5
<1> QED
  BY <1>6 DEF Min

(* Appending: the new element is the last one. *)
LEMMA AppendElements ==
  ASSUME NEW D, NEW s \in Seq(D), NEW e \in D
  PROVE  /\ Append(s, e) \in Seq(D)
         /\ ToSet(Append(s, e)) = ToSet(s) \cup {e}
         /\ Injective(s) /\ e \notin ToSet(s) => Injective(Append(s, e))
<1>1. /\ Append(s, e) \in Seq(D) /\ Len(Append(s, e)) = Len(s) + 1
      /\ \A i \in 1 .. Len(s) : Append(s, e)[i] = s[i]
      /\ Append(s, e)[Len(s) + 1] = e
  OBVIOUS
<1> DEFINE t == Append(s, e)
<1>2. DOMAIN s = 1 .. Len(s) /\ DOMAIN t = 1 .. Len(s) + 1 /\ Len(s) \in Nat
  BY <1>1
<1> HIDE DEF t
<1>3. ToSet(t) = ToSet(s) \cup {e}
  <2>1. \A x \in ToSet(t) : x \in ToSet(s) \cup {e}
    BY <1>1, <1>2 DEF ToSet, t
  <2>2. \A x \in ToSet(s) \cup {e} : x \in ToSet(t)
    BY <1>1, <1>2 DEF ToSet, t
  <2> QED
    BY <2>1, <2>2
<1>4. ASSUME Injective(s), e \notin ToSet(s) PROVE Injective(t)
  BY <1>1, <1>2, <1>4 DEF Injective, ToSet, t
<1> QED
  BY <1>1, <1>3, <1>4 DEF t

(* Prepending: the new element is the first one. *)
LEMMA PrependElements ==
  ASSUME NEW D, NEW s \in Seq(D), NEW e \in D
  PROVE  /\ <<e>> \o s \in Seq(D)
         /\ ToSet(<<e>> \o s) = ToSet(s) \cup {e}
         /\ Injective(s) /\ e \notin ToSet(s) => Injective(<<e>> \o s)
<1> DEFINE t == <<e>> \o s
<1>1. t \in Seq(D) /\ Len(t) = Len(s) + 1 /\ t[1] = e /\ \A i \in 1 .. Len(s) : t[i + 1] = s[i]
  OBVIOUS
<1>2. DOMAIN s = 1 .. Len(s) /\ DOMAIN t = 1 .. Len(s) + 1 /\ Len(s) \in Nat
  BY <1>1
<1> HIDE DEF t
<1>3. \A i \in DOMAIN t : i # 1 => i - 1 \in DOMAIN s /\ t[i] = s[i - 1]
  BY <1>1, <1>2
<1>4. ToSet(t) = ToSet(s) \cup {e}
  <2>1. \A x \in ToSet(t) : x \in ToSet(s) \cup {e}
    BY <1>1, <1>2, <1>3 DEF ToSet
  <2>2. \A x \in ToSet(s) \cup {e} : x \in ToSet(t)
    BY <1>1, <1>2 DEF ToSet
  <2> QED
    BY <2>1, <2>2
<1>5. ASSUME Injective(s), e \notin ToSet(s) PROVE Injective(t)
  BY <1>1, <1>2, <1>3, <1>5 DEF Injective, ToSet
<1> QED
  BY <1>1, <1>4, <1>5 DEF t

(* Removing: the elements behind the removed one move up by one place. *)
LEMMA RemoveAtEntries ==
  ASSUME NEW D, NEW s \in Seq(D), NEW i \in DOMAIN s
  PROVE  /\ RemoveAt(s, i) \in Seq(D)
         /\ Len(RemoveAt(s, i)) = Len(s) - 1
         /\ \A k \in 1 .. Len(s) - 1 : RemoveAt(s, i)[k] = IF k < i THEN s[k] ELSE s[k + 1]
<1> DEFINE front == SubSeq(s, 1, i - 1)
           back  == SubSeq(s, i + 1, Len(s))
<1>1. i \in 1 .. Len(s) /\ Len(s) \in Nat
  OBVIOUS
<1>2. front \in Seq(D) /\ Len(front) = i - 1 /\ \A k \in 1 .. i - 1 : front[k] = s[k]
  BY <1>1, SubSeqProperties
<1>3. back \in Seq(D) /\ Len(back) = Len(s) - i /\ \A k \in 1 .. Len(s) - i : back[k] = s[i + k]
  BY <1>1, SubSeqProperties
<1> HIDE DEF front, back
<1>4. front \o back \in Seq(D) /\ Len(front \o back) = Len(s) - 1
  BY <1>1, <1>2, <1>3
<1>5. ASSUME NEW k \in 1 .. Len(s) - 1
      PROVE  (front \o back)[k] = IF k < i THEN s[k] ELSE s[k + 1]
  <2>1. (front \o back)[k] = IF k <= Len(front) THEN front[k] ELSE back[k - Len(front)]
    <3>1. k \in 1 .. Len(front) + Len(back)
      BY <1>1, <1>2, <1>3
    <3>2. front \in Seq(D) /\ back \in Seq(D)
      BY <1>2, <1>3
    <3> QED BY <3>1, <3>2, ConcatProperties
  <2>2. CASE k < i
    <3>1. k \in 1 .. i - 1 /\ k <= i - 1
      BY <1>1, <2>2
    <3> QED BY <1>2, <2>1, <2>2, <3>1
  <2>3. CASE ~(k < i)
    <3>1. k - (i - 1) \in 1 .. Len(s) - i /\ i + (k - (i - 1)) = k + 1 /\ ~(k <= i - 1)
      BY <1>1, <2>3
    <3> QED BY <1>2, <1>3, <2>1, <2>3, <3>1
  <2> QED BY <2>2, <2>3
<1> QED
  BY <1>4, <1>5 DEF RemoveAt, front, back

(* Removing an element of a list that links none twice removes it for good. *)
LEMMA RemoveAtElements ==
  ASSUME NEW D, NEW s \in Seq(D), NEW i \in DOMAIN s, Injective(s)
  PROVE  /\ ToSet(RemoveAt(s, i)) = ToSet(s) \ {s[i]}
         /\ Injective(RemoveAt(s, i))
<1> DEFINE t == RemoveAt(s, i)
<1>1. t \in Seq(D) /\ Len(t) = Len(s) - 1
      /\ \A k \in 1 .. Len(s) - 1 : t[k] = IF k < i THEN s[k] ELSE s[k + 1]
  BY RemoveAtEntries
<1>2. DOMAIN s = 1 .. Len(s) /\ DOMAIN t = 1 .. Len(s) - 1 /\ Len(s) \in Nat
  BY <1>1
<1> HIDE DEF t
<1>3. \A x \in ToSet(t) : x \in ToSet(s) \ {s[i]}
  BY <1>1, <1>2 DEF ToSet, Injective
<1>4. ASSUME NEW x \in ToSet(s) \ {s[i]} PROVE x \in ToSet(t)
  <2>1. PICK j \in DOMAIN s : s[j] = x
    BY DEF ToSet
  <2>2. CASE j < i
    BY <1>1, <1>2, <2>1, <2>2 DEF ToSet
  <2>3. CASE j > i
    <3>1. j - 1 \in DOMAIN t /\ t[j - 1] = x
      BY <1>1, <1>2, <2>1, <2>3
    <3> QED
      BY <3>1 DEF ToSet
  <2> QED
    BY <1>2, <2>1, <2>2, <2>3
<1>5. Injective(t)
  <2> SUFFICES ASSUME NEW a \in DOMAIN t, NEW b \in DOMAIN t, t[a] = t[b]
               PROVE  a = b
    BY DEF Injective
  <2> DEFINE Before(k) == IF k < i THEN k ELSE k + 1
  <2>1. \A k \in DOMAIN t : Before(k) \in DOMAIN s /\ t[k] = s[Before(k)]
    BY <1>1, <1>2
  <2>2. Before(a) = Before(b)
    <3> HIDE DEF Before
    <3> QED BY <2>1 DEF Injective
  <2>3. a \in Int /\ b \in Int /\ i \in Int
    BY <1>2
  <2> QED BY <2>2, <2>3
<1> QED
  BY <1>3, <1>4, <1>5 DEF t

(* A set of addresses or indices has a least and a greatest one. *)
LEMMA Bounds ==
  ASSUME NEW n \in Nat, NEW S, S \subseteq 0 .. n, S # {}
  PROVE  /\ Min(S) \in S /\ \A y \in S : Min(S) <= y
         /\ Max(S) \in S /\ \A y \in S : y <= Max(S)
<1>1. \E m \in S : \A y \in S : m <= y
  <2>1. PICK U : U = {y + 1 : y \in S}
    OBVIOUS
  <2>2. (\A y \in S : y \in 0 .. n /\ y + 1 \in U) /\ (\A u \in U : \E y \in S : u = y + 1)
    BY <2>1
  <2>3. U \subseteq 1 .. n + 1 /\ U # {} /\ n + 1 \in Nat
    <3>1. \A y \in 0 .. n : y + 1 \in 1 .. n + 1
      OBVIOUS
    <3>2. PICK y \in S : TRUE
      OBVIOUS
    <3> QED BY <2>2, <3>1, <3>2
  <2>4. Min(U) \in U /\ \A u \in U : Min(U) <= u
    BY <2>3, FirstIndex
  <2>5. PICK m \in S : Min(U) = m + 1
    BY <2>2, <2>4
  <2> QED BY <2>2, <2>4, <2>5
<1>2. \E m \in S : \A y \in S : m >= y
  <2>1. PICK Dn : Dn = {n + 1 - y : y \in S}
    OBVIOUS
  <2>2. (\A y \in S : y \in 0 .. n /\ n + 1 - y \in Dn) /\ (\A d \in Dn : \E y \in S : d = n + 1 - y)
    BY <2>1
  <2>3. Dn \subseteq 1 .. n + 1 /\ Dn # {} /\ n + 1 \in Nat
    <3>1. \A y \in 0 .. n : n + 1 - y \in 1 .. n + 1
      OBVIOUS
    <3>2. PICK y \in S : TRUE
      OBVIOUS
    <3> QED BY <2>2, <3>1, <3>2
  <2>4. Min(Dn) \in Dn /\ \A d \in Dn : Min(Dn) <= d
    BY <2>3, FirstIndex
  <2>5. PICK m \in S : Min(Dn) = n + 1 - m
    BY <2>2, <2>4
  <2> QED BY <2>2, <2>4, <2>5
<1>3. Min(S) \in S /\ \A y \in S : Min(S) <= y
  BY <1>1 DEF Min
<1>4. Max(S) \in S /\ \A y \in S : Max(S) >= y
  BY <1>2 DEF Max
<1> QED BY <1>3, <1>4

(* The greater and the lesser of two numbers. *)
LEMMA OfTwo ==
  ASSUME NEW a \in Int, NEW b \in Int
  PROVE  /\ Max({a, b}) = (IF a >= b THEN a ELSE b)
         /\ Min({a, b}) = (IF a <= b THEN a ELSE b)
<1> DEFINE S == {a, b}
<1>1. \A x \in S : (\A y \in S : x >= y) => x = (IF a >= b THEN a ELSE b)
  OBVIOUS
<1>2. \E x \in S : \A y \in S : x >= y
  OBVIOUS
<1>3. \A x \in S : (\A y \in S : x <= y) => x = (IF a <= b THEN a ELSE b)
  OBVIOUS
<1>4. \E x \in S : \A y \in S : x <= y
  OBVIOUS
<1> HIDE DEF S
<1>5. Max(S) \in S /\ \A y \in S : Max(S) >= y
  BY <1>2 DEF Max
<1>6. Min(S) \in S /\ \A y \in S : Min(S) <= y
  BY <1>4 DEF Min
<1>7. Max(S) = IF a >= b THEN a ELSE b
  BY <1>1, <1>5
<1>8. Min(S) = IF a <= b THEN a ELSE b
  BY <1>3, <1>6
<1> QED BY <1>7, <1>8 DEF S

-----------------------------------------------------------------------------
(* Induction along a range: a set that has its first number, and with every number the
   next one, has them all. *)
LEMMA Upwards ==
  ASSUME NEW m \in Int, NEW n \in Int, NEW P,
         m <= n => m \in P,
         \A i \in m .. n - 1 : i \in P => i + 1 \in P
  PROVE  m .. n \subseteq P
<1> DEFINE Missing == {j \in 1 .. n - m + 1 : m + j - 1 \notin P}
<1>1. Missing = {}
  <2> SUFFICES ASSUME Missing # {} PROVE FALSE
    OBVIOUS
  <2>1. n - m + 1 \in Nat /\ Missing \subseteq 1 .. n - m + 1
    OBVIOUS
  <2>2. PICK j \in Missing : \A y \in Missing : j <= y
    <3> HIDE DEF Missing
    <3> QED BY <2>1, FirstIndex
  <2>3. j \in 1 .. n - m + 1 /\ m + j - 1 \notin P
    OBVIOUS
  <2>4. j # 1
    <3>1. m <= n /\ m + 1 - 1 = m
      BY <2>3
    <3> QED BY <2>3, <3>1
  <2>5. j - 1 \in 1 .. n - m + 1 /\ j - 1 < j
    BY <2>3, <2>4
  <2>6. m + (j - 1) - 1 \in P
    <3>1. j - 1 \notin Missing
      <4> HIDE DEF Missing
      <4> QED BY <2>2, <2>3, <2>5
    <3> QED BY <2>5, <3>1
  <2>7. m + (j - 1) - 1 \in m .. n - 1 /\ m + (j - 1) - 1 + 1 = m + j - 1
    BY <2>3, <2>4
  <2> QED BY <2>3, <2>6, <2>7
<1>2. ASSUME NEW i \in m .. n PROVE i \in P
  <2>1. i - m + 1 \in 1 .. n - m + 1 /\ m + (i - m + 1) - 1 = i
    OBVIOUS
  <2> QED BY <1>1, <2>1
<1> QED BY <1>2

(* A recursive definition along a range defines a function. *)
Steps(f, m, n, a, G) == \A i \in m .. n : f[i] = IF i = m THEN a ELSE G[<<i, f[i - 1]>>]
LEMMA Iteration ==
  ASSUME NEW m \in Int, NEW n \in Int, NEW S, NEW a \in S, NEW G \in [(m .. n) \X S -> S]
  PROVE  \E f \in [m .. n -> S] : Steps(f, m, n, a, G)
<1> DEFINE Good(k, f) == f \in [m .. k -> S] /\ Steps(f, m, k, a, G)
           P == {k \in m .. n : \E f : Good(k, f)}
<1>1. CASE n < m
  <2> DEFINE g == [i \in m .. n |-> a]
  <2>1. m .. n = {}
    BY <1>1
  <2>2. g \in [m .. n -> S] /\ Steps(g, m, n, a, G)
    BY <2>1 DEF Steps
  <2> QED BY <2>2
<1>2. CASE m <= n
  <2>1. m \in P
    <3> DEFINE g == [i \in m .. m |-> a]
    <3>1. g \in [m .. m -> S] /\ g[m] = a /\ \A i \in m .. m : i = m
      OBVIOUS
    <3> HIDE DEF g
    <3>2. Good(m, g)
      BY <3>1 DEF Steps
    <3> QED BY <1>2, <3>2
  <2>2. ASSUME NEW j \in m .. n - 1, j \in P PROVE j + 1 \in P
    <3>1. PICK f : Good(j, f)
      BY <2>2
    <3>2. PICK k \in Int : k = j + 1
      OBVIOUS
    <3>3. m < k /\ k \in m .. n /\ k - 1 = j /\ f[j] \in S
      BY <3>1, <3>2
    <3> DEFINE g == [i \in m .. k |-> IF i = k THEN G[<<k, f[j]>>] ELSE f[i]]
    <3>4. G[<<k, f[j]>>] \in S
      BY <3>3
    <3>5. \A i \in m .. k : /\ i # k => i \in m .. j
                            /\ i = m \/ (i - 1 \in m .. k /\ i - 1 # k)
      BY <3>2
    <3>6. g \in [m .. k -> S]
      BY <3>1, <3>4, <3>5
    <3>7. ASSUME NEW i \in m .. k PROVE g[i] = IF i = m THEN a ELSE G[<<i, g[i - 1]>>]
      <4>1. CASE i = k
        <5>1. g[i] = G[<<k, f[j]>>] /\ i # m /\ g[i - 1] = f[j]
          BY <3>3, <3>5, <4>1
        <5> QED BY <4>1, <5>1
      <4>2. CASE i # k
        <5>1. g[i] = f[i] /\ i \in m .. j
          BY <3>5, <4>2
        <5>2. i # m => g[i - 1] = f[i - 1]
          BY <3>5
        <5>3. f[i] = IF i = m THEN a ELSE G[<<i, f[i - 1]>>]
          BY <3>1, <5>1 DEF Steps
        <5> QED BY <5>1, <5>2, <5>3
      <4> QED BY <4>1, <4>2
    <3>8. Good(k, g)
      BY <3>6, <3>7 DEF Steps
    <3> QED BY <3>2, <3>3, <3>8
  <2>3. n \in P
    <3>1. m .. n \subseteq P
      <4> HIDE DEF P
      <4> QED BY <2>1, <2>2, Upwards
    <3> QED BY <1>2, <3>1
  <2>4. PICK f : Good(n, f)
    BY <2>3
  <2> QED BY <2>4
<1> QED BY <1>1, <1>2

(* FlattenSeq of pieces of one length: where each element of each piece comes to
   stand. *)
LEMMA EqualPieces ==
  ASSUME NEW T, NEW n \in Nat, NEW w \in Nat \ {0}, NEW q \in Seq(Seq(T)), Len(q) = n,
         \A i \in 1 .. n : Len(q[i]) = w
  PROVE  /\ FlattenSeq(q) \in Seq(T) /\ Len(FlattenSeq(q)) = n * w
         /\ \A i \in 1 .. n : \A j \in 1 .. w : FlattenSeq(q)[(i - 1) * w + j] = q[i][j]
<1>1. CASE n = 0
  <2>1. FlattenSeq(q) = q /\ q = << >>
    BY <1>1 DEF FlattenSeq
  <2>2. n * w = 0 /\ 1 .. n = {} /\ << >> \in Seq(T) /\ Len(<< >>) = 0
    BY <1>1
  <2> QED BY <2>1, <2>2
<1>2. CASE n # 0
  <2> DEFINE R(f) == f = [i \in 1 .. n |-> IF i = 1 THEN q[i] ELSE f[i - 1] \o q[i]]
             flatten == CHOOSE f : R(f)
  <2>1. FlattenSeq(q) = flatten[n]
    BY <1>2 DEF FlattenSeq
  <2>2. \E f : R(f)
    <3> DEFINE G == [x \in (1 .. n) \X Seq(T) |-> x[2] \o q[x[1]]]
    <3>1. \A i \in 1 .. n : q[i] \in Seq(T)
      OBVIOUS
    <3>2. G \in [(1 .. n) \X Seq(T) -> Seq(T)]
      BY <3>1
    <3>3. q[1] \in Seq(T)
      BY <1>2, <3>1
    <3>4. \A i \in 1 .. n, s \in Seq(T) : G[<<i, s>>] = s \o q[i]
      OBVIOUS
    <3> HIDE DEF G
    <3>5. PICK f \in [1 .. n -> Seq(T)] : Steps(f, 1, n, q[1], G)
      <4>1. n \in Int /\ 1 \in Int
        OBVIOUS
      <4> QED BY <3>2, <3>3, <4>1, Iteration, Zenon
    <3>6. \A i \in 1 .. n : i # 1 => i - 1 \in 1 .. n
      OBVIOUS
    <3>7. \A i \in 1 .. n : f[i] = IF i = 1 THEN q[i] ELSE f[i - 1] \o q[i]
      BY <3>4, <3>5, <3>6 DEF Steps
    <3>8. f = [i \in 1 .. n |-> f[i]]
      OBVIOUS
    <3>9. R(f)
      BY <3>7, <3>8
    <3> QED BY <3>9
  <2>3. R(flatten)
    <3> HIDE DEF R
    <3> QED BY <2>2
  <2> HIDE DEF flatten
  <2>4. \A i \in 1 .. n : flatten[i] = IF i = 1 THEN q[i] ELSE flatten[i - 1] \o q[i]
    BY <2>3
  <2> DEFINE P == {k \in 1 .. n : /\ flatten[k] \in Seq(T) /\ Len(flatten[k]) = k * w
                                  /\ \A i \in 1 .. k : \A j \in 1 .. w : flatten[k][(i - 1) * w + j] = q[i][j]}
  <2>5. 1 \in P
    <3>1. flatten[1] = q[1] /\ 1 \in 1 .. n /\ q[1] \in Seq(T) /\ Len(q[1]) = w
      BY <1>2, <2>4
    <3>2. 1 * w = w /\ \A i \in 1 .. 1 : i = 1 /\ \A j \in 1 .. w : (i - 1) * w + j = j
      OBVIOUS
    <3> QED BY <3>1, <3>2
  <2>6. ASSUME NEW k \in 1 .. n - 1, k \in P PROVE k + 1 \in P
    <3>1. PICK l \in 1 .. n : l = k + 1
      OBVIOUS
    <3>2. flatten[l] = flatten[k] \o q[l]
      <4>1. l - 1 = k /\ l # 1
        BY <3>1
      <4> QED BY <2>4, <4>1
    <3>3. flatten[k] \in Seq(T) /\ q[l] \in Seq(T) /\ Len(q[l]) = w
      BY <2>6
    <3>4. PICK m \in Nat : m = k * w
      OBVIOUS
    <3>5. Len(flatten[k]) = m /\ l * w = m + w
      BY <2>6, <3>1, <3>4
    <3>6. /\ flatten[l] \in Seq(T) /\ Len(flatten[l]) = m + w
          /\ \A x \in 1 .. m : flatten[l][x] = flatten[k][x]
          /\ \A x \in 1 .. w : flatten[l][m + x] = q[l][x]
      <4> DEFINE s == flatten[k]
                 t == q[l]
                 c == flatten[l]
      <4>1. s \in Seq(T) /\ t \in Seq(T) /\ Len(s) = m /\ Len(t) = w /\ c = s \o t
        BY <3>2, <3>3, <3>5
      <4> HIDE DEF s, t, c
      <4>2. c \in Seq(T) /\ Len(c) = m + w /\ \A x \in 1 .. m + w : c[x] = IF x <= m THEN s[x] ELSE t[x - m]
        <5>1. /\ s \o t \in Seq(T) /\ Len(s \o t) = Len(s) + Len(t)
              /\ \A x \in 1 .. Len(s) + Len(t) : (s \o t)[x] = IF x <= Len(s) THEN s[x] ELSE t[x - Len(s)]
          BY <4>1, ConcatProperties, Zenon
        <5> QED BY <4>1, <5>1
      <4>3. \A x \in 1 .. m : x \in 1 .. m + w /\ x <= m
        OBVIOUS
      <4>4. \A x \in 1 .. w : m + x \in 1 .. m + w /\ ~(m + x <= m) /\ m + x - m = x
        OBVIOUS
      <4>5. (\A x \in 1 .. m : c[x] = s[x]) /\ \A x \in 1 .. w : c[m + x] = t[x]
        BY <4>2, <4>3, <4>4
      <4> QED BY <4>2, <4>5 DEF s, t, c
    <3>7. ASSUME NEW i \in 1 .. l, NEW j \in 1 .. w PROVE flatten[l][(i - 1) * w + j] = q[i][j]
      <4>1. CASE i = l
        <5>1. (i - 1) * w + j = m + j
          BY <3>1, <3>4, <4>1
        <5> QED BY <3>6, <4>1, <5>1
      <4>2. CASE i # l
        <5>1. i \in 1 .. k
          BY <3>1, <4>2
        <5>2. (i - 1) * w + j \in 1 .. m
          <6>1. PICK d \in Nat : d = k - i
            BY <5>1
          <6>2. PICK x \in Nat, y \in Nat : x = (i - 1) * w /\ y = d * w
            BY <5>1
          <6>3. k * w = x + w + y
            BY <6>1, <6>2
          <6>4. x + j \in 1 .. m
            BY <3>4, <6>3
          <6> QED BY <6>2, <6>4
        <5> QED BY <2>6, <3>6, <5>1, <5>2
      <4> QED BY <4>1, <4>2
    <3> QED BY <3>1, <3>5, <3>6, <3>7
  <2>7. n \in P
    <3>1. 1 .. n \subseteq P
      <4> HIDE DEF P
      <4>1. \A i \in 1 .. n - 1 : i \in P => i + 1 \in P
        BY <2>6
      <4>2. 1 \in Int /\ n \in Int
        OBVIOUS
      <4> QED BY <2>5, <4>1, <4>2, Upwards
    <3> QED BY <1>2, <3>1
  <2> QED BY <2>1, <2>7
<1> QED BY <1>1, <1>2
=============================================================================
