-------------------------- MODULE Induction_proofs --------------------------
(***************************************************************************)
(* Facts about sequences that need induction.  The provers cannot use an   *)
(* induction rule whose predicate is a parameter, but the least number     *)
(* principle is about a set (WFMin of WellFoundedInduction): what fails to *)
(* hold for some number fails for a least one.  From it follow induction   *)
(* over the indices of a sequence, upwards and downwards, for predicates   *)
(* given as sets; what FlattenSeq computes; and that a finite set of       *)
(* numbers can be listed in ascending order.                               *)
(***************************************************************************)
EXTENDS Integers, Sequences, SequencesExt, FiniteSetTheorems, WellFoundedInduction, TLAPS

\* Every set of natural numbers that is not empty has a least element.
LEMMA LeastNat ==
    ASSUME NEW T, T \subseteq Nat, T # {}
    PROVE  \E n \in T : \A m \in T : n <= m
<1> DEFINE R == {ss \in Nat \X Nat : ss[1] < ss[2]}
<1>1. IsWellFoundedOn(R, Nat)
  BY NatLessThanWellFounded DEF OpToRel
<1>2. PICK x \in T : \A y \in T : ~(<<y, x>> \in R)
  <2> HIDE DEF R
  <2> QED BY <1>1, WFMin
<1>3. ASSUME NEW y \in T PROVE x <= y
  <2>1. <<y, x>> \in Nat \X Nat => ~(y < x)
    BY <1>2
  <2> QED BY <2>1
<1> QED BY <1>3

\* Induction over 1..N: a set with 1 and, with every k, k + 1, has them all.
LEMMA Upward ==
    ASSUME NEW N \in Nat, NEW S,
           N > 0 => 1 \in S,
           \A k \in 1..(N - 1) : k \in S => k + 1 \in S
    PROVE  1..N \subseteq S
<1> SUFFICES ASSUME 1..N \ S # {} PROVE FALSE
  OBVIOUS
<1>a. 1..N \ S \subseteq Nat
  OBVIOUS
<1>1. PICK k \in 1..N \ S : \A m \in 1..N \ S : k <= m
  BY <1>a, LeastNat
<1>2. CASE k = 1
  BY <1>2
<1>3. CASE k # 1
  BY <1>1, <1>3
<1> QED BY <1>2, <1>3

\* Induction over 0..N from N down.
LEMMA Downward ==
    ASSUME NEW N \in Nat, NEW S, N \in S,
           \A k \in 0..(N - 1) : (\A m \in (k + 1)..N : m \in S) => k \in S
    PROVE  0..N \subseteq S
<1> SUFFICES ASSUME 0..N \ S # {} PROVE FALSE
  OBVIOUS
<1> DEFINE T == {N - k : k \in 0..N \ S}
<1>1. T \subseteq Nat /\ T # {}
  OBVIOUS
<1>2. PICK t \in T : \A m \in T : t <= m
  BY <1>1, LeastNat
<1>3. PICK k \in 0..N \ S : t = N - k
  OBVIOUS
<1>4. \A m \in (k + 1)..N : m \in S
  <2> SUFFICES ASSUME NEW m \in (k + 1)..N, m \notin S PROVE FALSE
    OBVIOUS
  <2>1. N - m \in T
    OBVIOUS
  <2>2. t <= N - m
    BY <2>1, <1>2
  <2> HIDE DEF T
  <2> QED BY <2>2, <1>3
<1>5. k # N
  OBVIOUS
<1> QED BY <1>4, <1>5

\* The recursive function of FlattenSeq exists: its value at k is what the
\* first k sequences give.
LEMMA FlattenSteps ==
    ASSUME NEW D, NEW ss \in Seq(Seq(D)), ss # <<>>
    PROVE  \E g \in [1..Len(ss) -> Seq(D)] :
             /\ g[1] = ss[1]
             /\ \A k \in 2..Len(ss) : g[k] = g[k - 1] \o ss[k]
             /\ FlattenSeq(ss) = g[Len(ss)]
<1> DEFINE n == Len(ss)
           Steps(g, m) == /\ g[1] = ss[1]
                          /\ \A k \in 2..m : g[k] = g[k - 1] \o ss[k]
           S == {m \in 1..n : \E g \in [1..m -> Seq(D)] : Steps(g, m)}
<1>1. n \in Nat /\ n > 0
  OBVIOUS
<1>2. \A k \in 1..n : ss[k] \in Seq(D)
  OBVIOUS
<1> HIDE DEF n
<1>3. 1 \in S
  <2>1. PICK g : g = [k \in 1..1 |-> ss[k]]
    OBVIOUS
  <2>2. g \in [1..1 -> Seq(D)] /\ Steps(g, 1)
    BY <1>1, <1>2, <2>1
  <2>3. 1 \in 1..n
    BY <1>1
  <2> HIDE DEF Steps
  <2> QED BY <2>2, <2>3
<1>4. ASSUME NEW m \in 1..(n - 1), m \in S PROVE m + 1 \in S
  <2>1. PICK g \in [1..m -> Seq(D)] : Steps(g, m)
    BY <1>4
  <2> DEFINE h == [k \in 1..(m + 1) |-> IF k = m + 1 THEN g[m] \o ss[k] ELSE g[k]]
  <2>2. h \in [1..(m + 1) -> Seq(D)]
    BY <1>1, <1>2
  <2>3. h[1] = ss[1]
    BY <2>1, <1>1
  <2>4. ASSUME NEW k \in 2..(m + 1) PROVE h[k] = h[k - 1] \o ss[k]
    <3>1. k - 1 \in 1..m /\ h[k - 1] = g[k - 1]
      BY <1>1
    <3>2. CASE k = m + 1
      <4>1. h[k] = g[m] \o ss[k]
        BY <3>2
      <4>2. k - 1 = m
        BY <3>2
      <4> QED BY <4>1, <4>2, <3>1
    <3>3. CASE k # m + 1
      <4>1. k \in 2..m /\ h[k] = g[k]
        BY <3>3
      <4> QED BY <4>1, <3>1, <2>1
    <3> QED BY <3>2, <3>3
  <2>5. m + 1 \in 1..n
    BY <1>1
  <2> HIDE DEF h
  <2> QED BY <2>2, <2>3, <2>4, <2>5
<1>5. n \in S
  <2>1. n > 0 => 1 \in S
    BY <1>3
  <2>2. \A k \in 1..(n - 1) : k \in S => k + 1 \in S
    BY <1>4
  <2> HIDE DEF S
  <2>3. 1..n \subseteq S
    BY <1>1, <2>1, <2>2, Upward
  <2> QED BY <1>1, <2>3
<1>6. PICK g \in [1..n -> Seq(D)] : Steps(g, n)
  BY <1>5
<1> DEFINE Is(f) == f = [i \in 1..n |-> IF i = 1 THEN ss[i] ELSE f[i - 1] \o ss[i]]
<1>7. Is(g)
  <2>1. \A i \in 1..n : g[i] = IF i = 1 THEN ss[i] ELSE g[i - 1] \o ss[i]
    <3> SUFFICES ASSUME NEW i \in 1..n, i # 1 PROVE g[i] = g[i - 1] \o ss[i]
      BY <1>6
    <3>1. i \in 2..n
      BY <1>1
    <3> QED BY <3>1, <1>6
  <2> QED BY <1>6, <2>1
<1>8. FlattenSeq(ss) = (CHOOSE f : Is(f))[n]
  BY <1>1 DEF FlattenSeq, n
<1>9. PICK f : f = (CHOOSE h : Is(h))
  OBVIOUS
<1>10. Is(f)
  <2> HIDE DEF Is
  <2> QED BY <1>7, <1>9
<1>11. \A i \in 1..n : f[i] = IF i = 1 THEN ss[i] ELSE f[i - 1] \o ss[i]
  BY <1>10
<1> DEFINE T == {i \in 1..n : f[i] = g[i]}
<1>12. 1..n \subseteq T
  <2>1. 1 \in T
    BY <1>11, <1>6, <1>1
  <2>2. ASSUME NEW k \in 1..(n - 1), k \in T PROVE k + 1 \in T
    <3>1. k + 1 \in 1..n /\ k + 1 \in 2..n /\ k + 1 # 1 /\ (k + 1) - 1 = k
      BY <1>1
    <3>2. f[k + 1] = f[k] \o ss[k + 1]
      BY <3>1, <1>11
    <3>3. g[k + 1] = g[k] \o ss[k + 1]
      BY <3>1, <1>6
    <3> QED BY <2>2, <3>1, <3>2, <3>3
  <2> HIDE DEF T
  <2> QED BY <1>1, <2>1, <2>2, Upward
<1>13. FlattenSeq(ss) = g[n]
  <2>1. f[n] = g[n]
    BY <1>12, <1>1
  <2> HIDE DEF Is
  <2> QED BY <1>8, <1>9, <2>1
<1> QED BY <1>6, <1>13, <1>1 DEF n

\* The elements of a concatenation.
LEMMA ConcatFacts ==
    ASSUME NEW D, NEW a \in Seq(D), NEW b \in Seq(D)
    PROVE  /\ Len(a \o b) = Len(a) + Len(b)
           /\ \A j \in 1..Len(a) : (a \o b)[j] = a[j]
           /\ \A j \in 1..Len(b) : (a \o b)[Len(a) + j] = b[j]
<1>1. Len(a) \in Nat /\ Len(b) \in Nat
  OBVIOUS
<1>2. \A j \in 1..Len(b) : (a \o b)[Len(a) + j] = b[j]
  <2> SUFFICES ASSUME NEW j \in 1..Len(b) PROVE (a \o b)[Len(a) + j] = b[j]
    OBVIOUS
  <2>1. Len(a) + j \in 1..(Len(a) + Len(b)) /\ ~(Len(a) + j <= Len(a)) /\ (Len(a) + j) - Len(a) = j
    BY <1>1
  <2> QED BY <2>1
<1> QED BY <1>2

\* A part of a sum is no more than the sum.
LEMMA LeftPart ==
    ASSUME NEW a \in Nat, NEW b \in Nat, NEW c \in Nat
    PROVE  /\ a + b <= c => a <= c
           /\ \A j \in 1..a : j \in 1..(a + b)
           /\ \A j \in 1..b : a + j \in 1..(a + b)
OBVIOUS

\* The sequences ss, end to end, are `all': pos[k] is where number k ends.
LaidOut(ss, all) ==
    \E pos \in [0..Len(ss) -> Nat] :
      /\ pos[0] = 0
      /\ pos[Len(ss)] = Len(all)
      /\ \A k \in 1..Len(ss) :
           /\ pos[k] = pos[k - 1] + Len(ss[k])
           /\ \A j \in 1..Len(ss[k]) : all[pos[k - 1] + j] = ss[k][j]

\* FlattenSeq lays its sequences end to end: the k-th one takes the positions
\* from pos[k - 1] + 1 to pos[k].
LEMMA FlattenBlocks ==
    ASSUME NEW D, NEW ss \in Seq(Seq(D))
    PROVE  FlattenSeq(ss) \in Seq(D) /\ LaidOut(ss, FlattenSeq(ss))
<1>1. CASE ss = <<>>
  <2>1. FlattenSeq(ss) = <<>>
    BY <1>1 DEF FlattenSeq
  <2>2. PICK pos : pos = [k \in 0..0 |-> 0]
    OBVIOUS
  <2>3. pos \in [0..Len(ss) -> Nat] /\ pos[0] = 0 /\ pos[Len(ss)] = Len(FlattenSeq(ss))
    BY <1>1, <2>1, <2>2
  <2>4. \A k \in 1..Len(ss) : FALSE
    BY <1>1
  <2> QED BY <2>1, <2>3, <2>4 DEF LaidOut
<1>2. CASE ss # <<>>
  <2>1. PICK n \in Nat \ {0} : n = Len(ss)
    BY <1>2
  <2>2. PICK g \in [1..n -> Seq(D)] :
          /\ g[1] = ss[1]
          /\ \A k \in 2..n : g[k] = g[k - 1] \o ss[k]
          /\ FlattenSeq(ss) = g[n]
    BY <1>2, <2>1, FlattenSteps
  <2>3. PICK all \in Seq(D) : all = g[n]
    BY <2>1
  <2>4. \A k \in 1..n : g[k] \in Seq(D) /\ Len(g[k]) \in Nat /\ ss[k] \in Seq(D) /\ Len(ss[k]) \in Nat
    BY <2>1
  <2>5. ASSUME NEW k \in 2..n
        PROVE  /\ Len(g[k]) = Len(g[k - 1]) + Len(ss[k])
               /\ \A j \in 1..Len(g[k - 1]) : g[k][j] = g[k - 1][j]
               /\ \A j \in 1..Len(ss[k]) : g[k][Len(g[k - 1]) + j] = ss[k][j]
    <3>1. k \in 1..n /\ k - 1 \in 1..n
      BY <2>1
    <3>q. g[k] = g[k - 1] \o ss[k]
      BY <2>2
    <3>2. PICK a \in Seq(D) : a = g[k - 1]
      BY <3>1, <2>4
    <3>3. PICK b \in Seq(D) : b = ss[k]
      BY <3>1, <2>4
    <3>4. g[k] = a \o b
      BY <3>q, <3>2, <3>3
    <3>5. /\ Len(a \o b) = Len(a) + Len(b)
          /\ \A j \in 1..Len(a) : (a \o b)[j] = a[j]
          /\ \A j \in 1..Len(b) : (a \o b)[Len(a) + j] = b[j]
      BY ConcatFacts
    <3> QED BY <3>2, <3>3, <3>4, <3>5, Zenon
  <2> DEFINE S == {k \in 0..n : k > 0 => /\ Len(g[k]) <= Len(all)
                                         /\ \A j \in 1..Len(g[k]) : all[j] = g[k][j]}
  <2>6. 0..n \subseteq S
    <3>1. n \in S
      BY <2>1, <2>3, <2>4
    <3>2. ASSUME NEW k \in 0..(n - 1), k + 1 \in S PROVE k \in S
      <4>1. CASE k = 0
        BY <4>1, <2>1
      <4>2. CASE k > 0
        <5>1. k + 1 \in 2..n /\ (k + 1) - 1 = k /\ k \in 1..n /\ k + 1 \in 1..n /\ k \in 0..n
          BY <4>2, <2>1
        <5>2. /\ Len(g[k + 1]) = Len(g[k]) + Len(ss[k + 1])
              /\ \A j \in 1..Len(g[k]) : g[k + 1][j] = g[k][j]
          <6>1. PICK i : i = k + 1
            OBVIOUS
          <6>2. i \in 2..n /\ i - 1 = k
            BY <5>1, <6>1
          <6>3. /\ Len(g[i]) = Len(g[i - 1]) + Len(ss[i])
                /\ \A j \in 1..Len(g[i - 1]) : g[i][j] = g[i - 1][j]
            BY <6>2, <2>5
          <6> QED BY <6>1, <6>2, <6>3
        <5>3. /\ Len(g[k + 1]) <= Len(all)
              /\ \A j \in 1..Len(g[k + 1]) : all[j] = g[k + 1][j]
          BY <3>2, <5>1
        <5>4. Len(g[k]) \in Nat /\ Len(ss[k + 1]) \in Nat /\ Len(all) \in Nat
          BY <5>1, <2>4
        <5>5. Len(g[k]) <= Len(all)
          <6>1. Len(g[k]) + Len(ss[k + 1]) <= Len(all)
            BY <5>2, <5>3
          <6> HIDE DEF S
          <6> QED BY <6>1, <5>4, LeftPart
        <5>6. \A j \in 1..Len(g[k]) : all[j] = g[k][j]
          <6> SUFFICES ASSUME NEW j \in 1..Len(g[k]) PROVE all[j] = g[k][j]
            OBVIOUS
          <6>1. j \in 1..Len(g[k + 1])
            BY <5>2, <5>4, LeftPart
          <6> QED BY <6>1, <5>2, <5>3
        <5> QED BY <5>1, <5>5, <5>6
      <4> QED BY <4>1, <4>2
    <3>3. \A k \in 0..(n - 1) : (\A m \in (k + 1)..n : m \in S) => k \in S
      <4> SUFFICES ASSUME NEW k \in 0..(n - 1), \A m \in (k + 1)..n : m \in S
                   PROVE  k \in S
        OBVIOUS
      <4>1. k + 1 \in (k + 1)..n
        BY <2>1
      <4> HIDE DEF S
      <4> QED BY <4>1, <3>2
    <3> HIDE DEF S
    <3> QED BY <2>1, <3>1, <3>3, Downward
  <2>7. PICK pos : pos = [k \in 0..n |-> IF k = 0 THEN 0 ELSE Len(g[k])]
    OBVIOUS
  <2>8. pos \in [0..n -> Nat] /\ pos[0] = 0 /\ pos[n] = Len(all)
    BY <2>1, <2>3, <2>4, <2>7
  <2>9. ASSUME NEW k \in 1..n
        PROVE  /\ pos[k] = pos[k - 1] + Len(ss[k])
               /\ \A j \in 1..Len(ss[k]) : all[pos[k - 1] + j] = ss[k][j]
    <3>p. k \in 0..n /\ k # 0 /\ k > 0
      BY <2>1
    <3>q. k \in S
      BY <3>p, <2>6
    <3>1. /\ pos[k] = Len(g[k]) /\ Len(ss[k]) \in Nat /\ Len(g[k]) \in Nat
          /\ \A j \in 1..Len(g[k]) : all[j] = g[k][j]
      BY <3>p, <3>q, <2>7, <2>4
    <3>2. CASE k = 1
      <4>1. pos[k - 1] = 0 /\ g[k] = ss[k]
        BY <3>2, <2>2, <2>8
      <4>2. pos[k] = 0 + Len(ss[k])
        BY <3>1, <4>1
      <4>3. \A j \in 1..Len(ss[k]) : all[0 + j] = ss[k][j]
        BY <3>1, <4>1
      <4> QED BY <4>1, <4>2, <4>3
    <3>3. CASE k # 1
      <4>1. k \in 2..n /\ k - 1 \in 1..n
        BY <3>3, <2>1
      <4>2. pos[k - 1] = Len(g[k - 1]) /\ Len(g[k - 1]) \in Nat
        BY <4>1, <2>4, <2>7
      <4>3. /\ Len(g[k]) = Len(g[k - 1]) + Len(ss[k])
            /\ \A j \in 1..Len(ss[k]) : g[k][Len(g[k - 1]) + j] = ss[k][j]
        BY <4>1, <2>5
      <4>4. ASSUME NEW j \in 1..Len(ss[k]) PROVE all[pos[k - 1] + j] = ss[k][j]
        <5>1. Len(g[k - 1]) + j \in 1..Len(g[k])
          BY <3>1, <4>2, <4>3, LeftPart
        <5> QED BY <5>1, <3>1, <4>2, <4>3
      <4> QED BY <3>1, <4>2, <4>3, <4>4
    <3> QED BY <3>2, <3>3
  <2>10. FlattenSeq(ss) = all
    BY <2>2, <2>3
  <2> HIDE DEF S
  <2> QED BY <2>1, <2>8, <2>9, <2>10 DEF LaidOut
<1> QED BY <1>1, <1>2

\* A finite set of natural numbers can be listed in ascending order.
LEMMA AscendingExists ==
    ASSUME NEW T \in SUBSET Nat, IsFiniteSet(T)
    PROVE  \E s \in [1..Cardinality(T) -> T] :
             \A i, j \in 1..Cardinality(T) : i < j => s[i] < s[j]
<1> DEFINE Sorted(A, s) == /\ s \in [1..Cardinality(A) -> A]
                           /\ \A i, j \in 1..Cardinality(A) : i < j => s[i] < s[j]
           Bad == {A \in SUBSET Nat : IsFiniteSet(A) /\ \A s : ~Sorted(A, s)}
           W == {Cardinality(A) : A \in Bad}
<1> SUFFICES ASSUME T \in Bad PROVE FALSE
  OBVIOUS
<1>1. W \subseteq Nat /\ W # {}
  BY FS_CardinalityType
<1>2. PICK w \in W : \A m \in W : w <= m
  BY <1>1, LeastNat
<1>3. PICK A \in Bad : w = Cardinality(A)
  OBVIOUS
<1>4. A # {}
  <2> SUFFICES ASSUME A = {} PROVE FALSE
    OBVIOUS
  <2>1. Cardinality(A) = 0
    BY FS_EmptySet
  <2>2. PICK s : s = [i \in {} |-> 0]
    OBVIOUS
  <2>3. 1..0 = {}
    OBVIOUS
  <2>4. Sorted(A, s)
    BY <2>1, <2>2, <2>3
  <2> HIDE DEF Sorted
  <2> QED BY <2>4
<1>5. A \in SUBSET Nat /\ IsFiniteSet(A)
  OBVIOUS
<1>6. PICK m \in A : \A a \in A : m <= a
  BY <1>4, <1>5, LeastNat
<1>7. PICK B : B = A \ {m}
  OBVIOUS
<1>8. /\ B \in SUBSET Nat /\ IsFiniteSet(B) /\ Cardinality(B) \in Nat
      /\ Cardinality(A) = Cardinality(B) + 1
  <2> HIDE DEF W, Bad
  <2>1. IsFiniteSet(B) /\ Cardinality(B) = Cardinality(A) - 1
    BY <1>5, <1>7, FS_RemoveElement
  <2>2. Cardinality(A) \in Nat /\ Cardinality(B) \in Nat
    BY <2>1, <1>5, FS_CardinalityType
  <2> QED BY <2>1, <2>2, <1>5, <1>7
<1>9. B \notin Bad
  <2> SUFFICES ASSUME B \in Bad PROVE FALSE
    OBVIOUS
  <2>1. Cardinality(B) \in W
    OBVIOUS
  <2>2. w <= Cardinality(B)
    BY <2>1, <1>2
  <2> HIDE DEF W, Bad
  <2> QED BY <2>2, <1>3, <1>8
<1>10. PICK s : Sorted(B, s)
  <2> HIDE DEF Sorted
  <2> QED BY <1>8, <1>9
<1>11. PICK n \in Nat : n = Cardinality(B)
  BY <1>8
<1>12. PICK r : r = [i \in 1..(n + 1) |-> IF i = 1 THEN m ELSE s[i - 1]]
  OBVIOUS
<1>13. \A i \in 1..n : s[i] \in B /\ s[i] \in A /\ s[i] \in Nat /\ m \in Nat /\ m < s[i]
  <2>1. \A i \in 1..n : s[i] \in B
    BY <1>10, <1>11
  <2>2. ASSUME NEW i \in 1..n PROVE s[i] \in A /\ s[i] \in Nat /\ m \in Nat /\ m < s[i]
    <3>1. s[i] \in A /\ s[i] \in Nat /\ m \in Nat /\ s[i] # m
      BY <2>1, <1>7, <1>5
    <3>2. m <= s[i]
      BY <3>1, <1>6
    <3> QED BY <3>1, <3>2
  <2> QED BY <2>1, <2>2
<1>14. r \in [1..(n + 1) -> A]
  <2> SUFFICES ASSUME NEW i \in 1..(n + 1), i # 1 PROVE s[i - 1] \in A
    BY <1>12
  <2>1. i - 1 \in 1..n
    OBVIOUS
  <2> QED BY <2>1, <1>13
<1>15. ASSUME NEW i \in 1..(n + 1), NEW j \in 1..(n + 1), i < j PROVE r[i] < r[j]
  <2>1. j # 1 /\ j - 1 \in 1..n
    BY <1>15
  <2>2. r[j] = s[j - 1]
    BY <2>1, <1>12
  <2>3. CASE i = 1
    BY <2>1, <2>2, <2>3, <1>12, <1>13
  <2>4. CASE i # 1
    <3>1. i - 1 \in 1..n /\ i - 1 < j - 1
      BY <2>4, <1>15
    <3>2. r[i] = s[i - 1]
      BY <2>4, <1>12
    <3>3. s[i - 1] < s[j - 1]
      BY <2>1, <3>1, <1>10, <1>11
    <3> QED BY <2>2, <3>2, <3>3
  <2> QED BY <2>3, <2>4
<1>16. Sorted(A, r)
  BY <1>8, <1>11, <1>14, <1>15
<1> HIDE DEF Sorted
<1> QED BY <1>16, <1>3

\* An ascending list of as many elements as the set has leaves none out.
LEMMA AscendingOnto ==
    ASSUME NEW T \in SUBSET Nat, IsFiniteSet(T),
           NEW s \in [1..Cardinality(T) -> T],
           \A i, j \in 1..Cardinality(T) : i < j => s[i] < s[j],
           NEW t \in T
    PROVE  \E i \in 1..Cardinality(T) : s[i] = t
<1>1. PICK n \in Nat : n = Cardinality(T)
  BY FS_CardinalityType
<1>2. IsFiniteSet(1..n) /\ Cardinality(1..n) = n
  BY FS_Interval
<1>3. s \in [1..n -> T] /\ \A i, j \in 1..n : i < j => s[i] < s[j]
  BY <1>1
<1>4. ASSUME NEW i \in 1..n, NEW j \in 1..n, s[i] = s[j] PROVE i = j
  <2>1. s[i] \in Nat /\ s[j] \in Nat
    BY <1>3
  <2>2. ~(i < j) /\ ~(j < i)
    BY <2>1, <1>3, <1>4
  <2> QED BY <2>2
<1>5. s \in Injection(1..n, T)
  BY <1>3, <1>4 DEF Injection, IsInjective
<1>6. s \in Surjection(1..n, T)
  BY <1>1, <1>2, <1>5, FS_Injection
<1> QED BY <1>1, <1>6 DEF Surjection

\* n intervals of l[i] numbers from s[i] on, in ascending order and apart, that
\* make up 0..total - 1.
Tiling(n, total, s, l) ==
    /\ s \in [1..n -> Nat] /\ l \in [1..n -> Nat]
    /\ \A i, j \in 1..n : i < j => s[i] < s[j] /\ s[i] + l[i] <= s[j]
    /\ \A i \in 1..n : s[i] + l[i] <= total
    /\ \A b \in 0..(total - 1) : \E i \in 1..n : s[i] <= b /\ b < s[i] + l[i]

\* pos[k] is the sum of the first k lengths.
EndToEnd(n, l, pos) ==
    /\ pos[0] = 0
    /\ \A k \in 1..n : pos[k] = pos[k - 1] + l[k]

\* Intervals that tile 0..total - 1, in ascending order, each begin where the
\* ones before it end.
LEMMA Tiles ==
    ASSUME NEW n \in Nat, NEW total \in Nat, NEW s, NEW l, NEW pos \in [0..n -> Nat],
           Tiling(n, total, s, l), EndToEnd(n, l, pos)
    PROVE  /\ \A k \in 1..n : s[k] = pos[k - 1]
           /\ pos[n] = total
<1>1. ASSUME NEW k \in 1..n, NEW b \in 0..(total - 1), s[k] + l[k] = b,
             \A j \in (k + 1)..n : b < s[j]
      PROVE  FALSE
  <2>1. PICK j \in 1..n : s[j] <= b /\ b < s[j] + l[j]
    BY DEF Tiling
  <2>2. s[j] \in Nat /\ l[j] \in Nat /\ s[k] \in Nat /\ l[k] \in Nat
    BY DEF Tiling
  <2>3. CASE j < k
    <3>1. s[j] + l[j] <= s[k]
      BY <2>3 DEF Tiling
    <3>2. PICK c : c = s[j] + l[j]
      OBVIOUS
    <3>x. PICK x \in Nat : x = s[k]
      BY <2>2
    <3>y. PICK y \in Nat : y = l[k]
      BY <2>2
    <3>z. c \in Int
      BY <2>2, <3>2
    <3>3. c <= x /\ b < c /\ x + y = b
      BY <1>1, <2>1, <3>1, <3>2, <3>x, <3>y
    <3> QED BY <3>3, <3>z
  <2>4. CASE j = k
    BY <2>4, <2>1, <1>1
  <2>5. CASE j > k
    <3>1. j \in (k + 1)..n
      BY <2>5
    <3>2. b < s[j]
      BY <3>1, <1>1
    <3> QED BY <3>2, <2>1, <2>2
  <2> QED BY <2>3, <2>4, <2>5
<1> DEFINE S == {k \in 1..n : s[k] = pos[k - 1]}
<1>2. n > 0 => 1 \in S
  <2> SUFFICES ASSUME n > 0, s[1] # 0 PROVE FALSE
    BY DEF EndToEnd
  <2>1. 1 \in 1..n /\ s[1] \in Nat /\ l[1] \in Nat /\ s[1] > 0 /\ s[1] + l[1] <= total
    BY DEF Tiling
  <2> HIDE DEF S
  <2>2. 0 \in 0..(total - 1)
    BY <2>1
  <2>3. PICK j \in 1..n : s[j] <= 0
    BY <2>2 DEF Tiling
  <2>4. j = 1 \/ s[1] < s[j]
    BY <2>1 DEF Tiling
  <2>5. s[j] \in Nat
    BY DEF Tiling
  <2> QED BY <2>1, <2>3, <2>4, <2>5
<1>3. ASSUME NEW k \in 1..(n - 1), k \in S PROVE k + 1 \in S
  <2>1. k \in 1..n /\ k + 1 \in 1..n /\ (k + 1) - 1 = k /\ k < k + 1
    OBVIOUS
  <2>2. /\ s[k] \in Nat /\ l[k] \in Nat /\ s[k + 1] \in Nat /\ l[k + 1] \in Nat
        /\ s[k] + l[k] <= s[k + 1] /\ s[k + 1] + l[k + 1] <= total
    BY <2>1 DEF Tiling
  <2>3. pos[k] = s[k] + l[k]
    BY <2>1, <1>3 DEF EndToEnd
  <2> HIDE DEF S
  <2>4. s[k] + l[k] = s[k + 1]
    <3>1. PICK b \in Nat : b = s[k] + l[k]
      BY <2>2
    <3>p. PICK c \in Nat : c = s[k + 1]
      BY <2>2
    <3>q. PICK d \in Nat : d = l[k + 1]
      BY <2>2
    <3>r. b <= c /\ c + d <= total
      BY <2>2, <3>1, <3>p, <3>q
    <3> SUFFICES ASSUME b < c PROVE FALSE
      <4>1. b = c
        BY <3>r
      <4> QED BY <4>1, <3>1, <3>p
    <3>2. b \in 0..(total - 1)
      BY <3>r
    <3>3. ASSUME NEW j \in (k + 1)..n PROVE b < s[j]
      <4>1. j \in 1..n /\ (j = k + 1 \/ k + 1 < j)
        OBVIOUS
      <4>2. s[j] \in Nat /\ (j = k + 1 \/ s[k + 1] < s[j])
        BY <2>1, <4>1 DEF Tiling
      <4> QED BY <3>p, <4>2
    <3> QED BY <2>1, <3>1, <3>2, <3>3, <1>1
  <2> QED BY <2>1, <2>3, <2>4 DEF S
<1>4. \A k \in 1..n : s[k] = pos[k - 1]
  <2>1. 1..n \subseteq S
    <3> HIDE DEF S
    <3> QED BY <1>2, <1>3, Upward
  <2> QED BY <2>1
<1>5. pos[n] = total
  <2>1. CASE n = 0
    <3>1. total = 0
      <4> SUFFICES ASSUME total > 0 PROVE FALSE
        OBVIOUS
      <4>1. 0 \in 0..(total - 1)
        OBVIOUS
      <4> QED BY <4>1, <2>1 DEF Tiling
    <3> QED BY <3>1, <2>1 DEF EndToEnd
  <2>2. CASE n > 0
    <3>1. n \in 1..n
      BY <2>2
    <3>2. pos[n] = s[n] + l[n] /\ s[n] \in Nat /\ l[n] \in Nat /\ s[n] + l[n] <= total
      BY <3>1, <1>4 DEF Tiling, EndToEnd
    <3>3. s[n] + l[n] = total
      <4> SUFFICES ASSUME s[n] + l[n] < total PROVE FALSE
        BY <3>2
      <4>1. PICK b : b = s[n] + l[n]
        OBVIOUS
      <4>2. b \in 0..(total - 1)
        BY <4>1, <3>2
      <4>3. \A j \in (n + 1)..n : b < s[j]
        OBVIOUS
      <4> HIDE DEF S
      <4> QED BY <3>1, <4>1, <4>2, <4>3, <1>1
    <3> QED BY <3>2, <3>3
  <2> QED BY <2>1, <2>2
<1> QED BY <1>4, <1>5

=============================================================================
