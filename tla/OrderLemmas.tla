---------------------------- MODULE OrderLemmas -----------------------------
(***************************************************************************)
(* Least and largest elements of sets of naturals, which the proofs need   *)
(* wherever a definition chooses the last of several writers, the elements *)
(* of a sequence that are in a set, in their order, and the values of a    *)
(* function with finite domain.                                            *)
(***************************************************************************)
EXTENDS Integers, Sequences, FiniteSetTheorems, SequenceTheorems, WellFoundedInduction, TLAPS

LessThan == {pair \in Nat \X Nat : pair[1] < pair[2]}

\* Every non-empty set of naturals has a least element.
LEMMA LeastExists ==
    ASSUME NEW T \in SUBSET Nat, T # {}
    PROVE  \E m \in T : \A n \in T : m <= n
<1>1. IsWellFoundedOn(LessThan, Nat)
  BY NatLessThanWellFounded, Zenon DEF OpToRel, LessThan
<1>2. PICK x \in T : \A y \in T : ~(<<y, x>> \in LessThan)
  BY <1>1, WFMin, Zenon
<1>3. ASSUME NEW y \in T PROVE x <= y
  <2>1. ~(y < x)
    BY <1>2 DEF LessThan
  <2> QED  BY <2>1
<1> QED  BY <1>3

\* Every non-empty set of naturals up to a bound has a largest element.
LEMMA LargestExists ==
    ASSUME NEW N \in Nat, NEW T \in SUBSET (0..N), T # {}
    PROVE  \E m \in T : \A n \in T : n <= m
<1> DEFINE Mirror == {x \in 0..N : N - x \in T}
<1>1. Mirror \in SUBSET Nat
  OBVIOUS
<1>2. PICK t \in T : TRUE
  OBVIOUS
<1>3. N - t \in Mirror
  <2>1. N - t \in 0..N /\ N - (N - t) = t
    OBVIOUS
  <2> QED  BY <2>1
<1>4. PICK x \in Mirror : \A y \in Mirror : x <= y
  <2> HIDE DEF Mirror
  <2> QED  BY <1>1, <1>3, LeastExists
<1>5. N - x \in T
  BY <1>4
<1>6. ASSUME NEW n \in T PROVE n <= N - x
  <2>1. N - n \in Mirror
    <3>1. N - n \in 0..N /\ N - (N - n) = n
      OBVIOUS
    <3> QED  BY <3>1
  <2>2. x <= N - n
    BY <1>4, <2>1
  <2>3. x \in 0..N /\ n \in 0..N
    BY <1>4
  <2> QED  BY <2>2, <2>3
<1> QED  BY <1>5, <1>6

-----------------------------------------------------------------------------
(* Induction and iteration up to a bound *)

\* A set that has 0, and n if it has n - 1, has all naturals up to the bound.
LEMMA CountingUp ==
    ASSUME NEW m \in Nat, NEW S, 0 \in S, \A n \in 1..m : n - 1 \in S => n \in S
    PROVE  \A n \in 0..m : n \in S
<1> DEFINE Failing == {n \in 0..m : n \notin S}
<1>1. Failing \in SUBSET Nat
  OBVIOUS
<1>2. ASSUME NEW n \in Failing, \A k \in Failing : n <= k PROVE FALSE
  <2>1. n \in 1..m /\ n - 1 \in 0..m /\ ~(n <= n - 1)
    BY <1>2
  <2>2. n - 1 \in S
    BY <1>2, <2>1
  <2> QED  BY <1>2, <2>1, <2>2
<1>3. Failing = {}
  <2> HIDE DEF Failing
  <2> QED  BY <1>1, <1>2, LeastExists
<1> QED  BY <1>3

\* f starts at base, and every further value is computed of the one before it.
Iterates(f, base, step, m) ==
    f = [n \in 0..m |-> IF n = 0 THEN base ELSE step[<<f[n - 1], n>>]]

\* There is such a function.
LEMMA IteratedExists ==
    ASSUME NEW base, NEW step, NEW m \in Nat
    PROVE  \E f : Iterates(f, base, step, m)
<1> DEFINE Next(f, n) == IF n = 0 THEN base ELSE step[<<f[n - 1], n>>]
           S == {n \in 0..m : \E f : Iterates(f, base, step, n)}
<1>1. 0 \in S
  <2> DEFINE f == [i \in 0..0 |-> base]
  <2>1. f = [i \in 0..0 |-> Next(f, i)]
    OBVIOUS
  <2>2. Iterates(f, base, step, 0)
    BY <2>1, Zenon DEF Iterates
  <2> HIDE DEF f
  <2> QED  BY <2>2
<1>2. ASSUME NEW n \in 1..m, n - 1 \in S PROVE n \in S
  <2>1. PICK f : Iterates(f, base, step, n - 1)
    BY <1>2
  <2> DEFINE g == [i \in 0..n |-> Next(f, i)]
  <2>2. \A i \in 0..(n - 1) : f[i] = Next(f, i)
    BY <2>1 DEF Iterates
  <2>3. \A i \in 0..(n - 1) : i \in 0..n
    BY <1>2
  <2>4. \A i \in 0..(n - 1) : g[i] = f[i]
    <3> HIDE DEF Next
    <3> QED  BY <2>2, <2>3
  <2>5. \A i \in 0..n : i # 0 => i - 1 \in 0..(n - 1)
    BY <1>2
  <2>6. \A i \in 0..n : Next(f, i) = Next(g, i)
    <3> HIDE DEF g
    <3> QED  BY <2>4, <2>5
  <2>7. g = [i \in 0..n |-> Next(g, i)]
    <3>1. g = [i \in 0..n |-> Next(f, i)]
      OBVIOUS
    <3> HIDE DEF g, Next
    <3> QED  BY <2>6, <3>1
  <2>8. Iterates(g, base, step, n)
    BY <2>7, Zenon DEF Iterates
  <2> HIDE DEF g
  <2>9. n \in 0..m
    OBVIOUS
  <2> QED  BY <2>8, <2>9
<1>3. m \in S
  <2> HIDE DEF S
  <2> QED  BY <1>1, <1>2, CountingUp
<1> QED  BY <1>3

-----------------------------------------------------------------------------
(* Selections *)

\* f computes for every n which of the first n elements of s are in T, up to m.
SelectsTo(f, s, T, m) ==
    f = [n \in 0..m |-> IF n = 0 THEN <<>>
                        ELSE IF s[n] \in T THEN Append(f[n - 1], s[n]) ELSE f[n - 1]]

\* There is such a function, by induction on m.
LEMMA SelectionExists ==
    ASSUME NEW s, NEW T, NEW m \in Nat
    PROVE  \E f : SelectsTo(f, s, T, m)
<1> DEFINE Failing == {n \in Nat : ~\E f : SelectsTo(f, s, T, n)}
           Next(f, n) == IF n = 0 THEN <<>>
                         ELSE IF s[n] \in T THEN Append(f[n - 1], s[n]) ELSE f[n - 1]
<1>1. ASSUME NEW n \in Failing, \A k \in Failing : n <= k PROVE FALSE
  <2>1. CASE n = 0
    <3> DEFINE f == [i \in 0..0 |-> <<>>]
    <3>1. f = [i \in 0..0 |-> Next(f, i)]
      OBVIOUS
    <3>2. SelectsTo(f, s, T, 0)
      BY <3>1, Zenon DEF SelectsTo
    <3> HIDE DEF f
    <3> QED  BY <1>1, <2>1, <3>2
  <2>2. CASE n # 0
    <3>1. n - 1 \in Nat /\ n - 1 \notin Failing
      BY <1>1, <2>2
    <3>2. PICK f : SelectsTo(f, s, T, n - 1)
      BY <3>1
    <3> DEFINE g == [i \in 0..n |-> Next(f, i)]
    <3>3. \A i \in 0..(n - 1) : f[i] = Next(f, i)
      BY <3>2 DEF SelectsTo
    <3>4. \A i \in 0..(n - 1) : i \in 0..n
      BY <1>1
    <3>5. \A i \in 0..(n - 1) : g[i] = f[i]
      <4> HIDE DEF Next
      <4> QED  BY <3>3, <3>4
    <3>6. \A i \in 0..n : i # 0 => i - 1 \in 0..(n - 1)
      BY <1>1
    <3>7. \A i \in 0..n : Next(f, i) = Next(g, i)
      <4> HIDE DEF g
      <4> QED  BY <3>5, <3>6
    <3>8. g = [i \in 0..n |-> Next(g, i)]
      <4>1. g = [i \in 0..n |-> Next(f, i)]
        OBVIOUS
      <4> HIDE DEF g, Next
      <4> QED  BY <3>7, <4>1
    <3>9. SelectsTo(g, s, T, n)
      BY <3>8, Zenon DEF SelectsTo
    <3> HIDE DEF g
    <3> QED  BY <1>1, <3>9
  <2> QED  BY <2>1, <2>2
<1>2. Failing = {}
  <2> HIDE DEF Failing
  <2>1. Failing \in SUBSET Nat
    BY DEF Failing
  <2> QED  BY <1>1, <2>1, LeastExists
<1> QED  BY <1>2

\* r has the elements of the first n of s that are in T, and at says where they stood.
Selects(r, at, s, T, n) ==
    LET m == Len(r) IN
    /\ m \in Nat /\ at \in [1..m -> 1..n]
    /\ \A i \in 1..m : r[i] = s[at[i]] /\ r[i] \in T /\ i <= at[i] /\ m - i <= n - at[i]
    /\ \A i, j \in 1..m : i < j => at[i] < at[j]
    /\ \A j \in 1..n : s[j] \in T => \E i \in 1..m : at[i] = j
    /\ m <= n
    /\ (\E j \in 1..n : s[j] \notin T) => m < n

\* Whatever is computed so selects the elements in T, in their order.
LEMMA Selected ==
    ASSUME NEW S, NEW s \in Seq(S), NEW T, NEW f, SelectsTo(f, s, T, Len(s))
    PROVE  /\ f[Len(s)] \in Seq(S)
           /\ \E at : Selects(f[Len(s)], at, s, T, Len(s))
<1> DEFINE N == Len(s)
           Fine(n) == f[n] \in Seq(S) /\ \E at : Selects(f[n], at, s, T, n)
           Failing == {n \in 0..N : ~Fine(n)}
<1>1. N \in Nat /\ \A n \in 1..N : s[n] \in S
  BY LenProperties, ElementOfSeq
<1>2. \A n \in 0..N : f[n] = IF n = 0 THEN <<>>
                             ELSE IF s[n] \in T THEN Append(f[n - 1], s[n]) ELSE f[n - 1]
  BY DEF SelectsTo
<1> HIDE DEF N
<1>3. ASSUME NEW n \in Failing, \A k \in Failing : n <= k PROVE FALSE
  <2>1. CASE n = 0
    <3>1. f[0] = <<>> /\ Len(f[0]) = 0
      BY <1>1, <1>2
    <3>2. Selects(f[0], [i \in 1..0 |-> 0], s, T, 0)
      BY <3>1 DEF Selects
    <3>3. <<>> \in Seq(S) /\ Fine(0)
      BY <3>1, <3>2
    <3> HIDE DEF Fine
    <3> QED  BY <1>3, <2>1, <3>3
  <2>2. CASE n # 0
    <3>1. n \in 1..N /\ n - 1 \in 0..N /\ n - 1 \notin Failing
      <4> HIDE DEF Fine
      <4>1. n \in 0..N
        BY <1>3
      <4>2. n \in 1..N /\ n - 1 \in 0..N /\ ~(n <= n - 1)
        BY <1>1, <2>2, <4>1
      <4> HIDE DEF Failing
      <4> QED  BY <1>3, <4>2
    <3> DEFINE p == n - 1
               r == f[p]
               q == f[n]
               m == Len(r)
    <3>2. r \in Seq(S)
      BY <3>1
    <3>3. PICK at : Selects(r, at, s, T, p)
      BY <3>1
    <3>4. q = IF s[n] \in T THEN Append(r, s[n]) ELSE r
      BY <1>2, <3>1
    <3>5. n = p + 1 /\ p \in Nat
      BY <3>1
    <3>6. /\ m \in Nat /\ at \in [1..m -> 1..p]
          /\ \A i \in 1..m : r[i] = s[at[i]] /\ r[i] \in T /\ i <= at[i] /\ m - i <= p - at[i]
          /\ \A i, j \in 1..m : i < j => at[i] < at[j]
          /\ \A j \in 1..p : s[j] \in T => \E i \in 1..m : at[i] = j
          /\ m <= p
          /\ (\E j \in 1..p : s[j] \notin T) => m < p
      BY <3>3 DEF Selects
    <3>7. s[n] \in S
      BY <1>1, <3>1
    <3>8. CASE s[n] \in T
      <4> DEFINE to == [i \in 1..(m + 1) |-> IF i = m + 1 THEN n ELSE at[i]]
                 l == Len(q)
      <4>1. /\ q \in Seq(S) /\ l = m + 1
            /\ \A i \in 1..m : q[i] = r[i]
            /\ q[m + 1] = s[n]
        BY <3>2, <3>4, <3>7, <3>8, AppendProperties
      <4> HIDE DEF p, r, q, m, l
      <4>2. to \in [1..l -> 1..n]
        BY <3>5, <3>6, <4>1
      <4>t. /\ \A i \in 1..l : i = m + 1 \/ (i \in 1..m /\ i # m + 1)
            /\ m + 1 \in 1..l /\ to[m + 1] = n /\ \A i \in 1..m : to[i] = at[i]
        BY <3>6, <4>1
      <4>3. \A i \in 1..l : q[i] = s[to[i]] /\ q[i] \in T /\ i <= to[i] /\ l - i <= n - to[i]
        <5> HIDE DEF to
        <5>1. /\ q[m + 1] = s[to[m + 1]] /\ q[m + 1] \in T
              /\ m + 1 <= to[m + 1] /\ l - (m + 1) <= n - to[m + 1]
          BY <3>5, <3>6, <3>8, <4>1, <4>t
        <5>2. ASSUME NEW i \in 1..m
              PROVE  q[i] = s[to[i]] /\ q[i] \in T /\ i <= to[i] /\ l - i <= n - to[i]
          <6>1. at[i] \in 1..p /\ i <= at[i] /\ m - i <= p - at[i]
            BY <3>6
          <6>2. l - i <= n - at[i]
            BY <3>5, <3>6, <4>1, <6>1
          <6> QED  BY <3>6, <4>1, <4>t, <6>1, <6>2
        <5> QED  BY <4>t, <5>1, <5>2
      <4>4. \A i, j \in 1..l : i < j => to[i] < to[j]
        <5> HIDE DEF to
        <5>1. ASSUME NEW i \in 1..l, NEW j \in 1..l, i < j PROVE to[i] < to[j]
          <6>1. i \in 1..m
            BY <3>6, <4>1, <5>1
          <6>2. to[i] = at[i] /\ at[i] \in 1..p
            BY <3>6, <4>t, <6>1
          <6>3. CASE j = m + 1
            BY <3>5, <4>t, <6>2, <6>3
          <6>4. CASE j \in 1..m
            BY <3>6, <4>t, <5>1, <6>1, <6>2, <6>4
          <6> QED  BY <4>t, <6>3, <6>4
        <5> QED  BY <5>1
      <4>5. \A j \in 1..n : s[j] \in T => \E i \in 1..l : to[i] = j
        BY <3>5, <3>6, <4>1
      <4>6. l \in Nat /\ l <= n /\ ((\E j \in 1..n : s[j] \notin T) => l < n)
        BY <3>5, <3>6, <3>8, <4>1
      <4> HIDE DEF to
      <4>7. Selects(q, to, s, T, n)
        BY <4>2, <4>3, <4>4, <4>5, <4>6, Zenon DEF Selects, l
      <4> QED  BY <1>3, <4>1, <4>7 DEF q
    <3>9. CASE s[n] \notin T
      <4>1. q = r
        BY <3>4, <3>9
      <4> HIDE DEF p, r, q, m
      <4>2. at \in [1..m -> 1..n]
        BY <3>5, <3>6
      <4>3. \A i \in 1..m : r[i] = s[at[i]] /\ r[i] \in T /\ i <= at[i] /\ m - i <= n - at[i]
        BY <3>5, <3>6
      <4>4. \A j \in 1..n : s[j] \in T => \E i \in 1..m : at[i] = j
        <5>1. \A j \in 1..n : j = n \/ j \in 1..p
          BY <3>5
        <5> QED  BY <3>6, <3>9, <5>1
      <4>5. m < n /\ m <= n
        BY <3>5, <3>6
      <4>6. Selects(r, at, s, T, n)
        BY <3>6, <4>2, <4>3, <4>4, <4>5, Zenon DEF Selects, m
      <4> QED  BY <1>3, <3>2, <4>1, <4>6 DEF q, r
    <3> QED  BY <3>8, <3>9
  <2> QED  BY <2>1, <2>2
<1>4. Failing = {}
  <2> HIDE DEF Fine
  <2>1. Failing \in SUBSET Nat
    BY <1>1
  <2> HIDE DEF Failing
  <2> QED  BY <1>3, <2>1, LeastExists
<1>5. Fine(N)
  <2> HIDE DEF Fine
  <2> QED  BY <1>1, <1>4
<1> QED  BY <1>5 DEF N

\* A function with finite domain has finitely many values.
LEMMA FiniteImage ==
    ASSUME NEW q, IsFiniteSet(DOMAIN q)
    PROVE  IsFiniteSet({q[x] : x \in DOMAIN q})
<1> DEFINE T == {q[x] : x \in DOMAIN q}
           f == [x \in DOMAIN q |-> q[x]]
<1>1. f \in Surjection(DOMAIN q, T)
  BY Zenon DEF Surjection
<1> HIDE DEF T, f
<1>2. IsFiniteSet(T)
  BY <1>1, FS_Surjection
<1> QED  BY <1>2 DEF T
=============================================================================
