------------------------------ MODULE Induction ------------------------------
(***************************************************************************)
(* Induction on the natural numbers for sets of numbers, which needs no    *)
(* operator for a parameter, and what it shows: that a function on 0..n    *)
(* defined from its value one place before exists, and with it what        *)
(* SelectSeq does, for the test of membership in a set.                    *)
(***************************************************************************)
EXTENDS Integers, Sequences, WellFoundedInduction, TLAPS

\* A set of numbers that has 0 and with each number the next is Nat.
LEMMA SetInduction ==
  ASSUME NEW T \in SUBSET Nat, 0 \in T, \A n \in T : n + 1 \in T
  PROVE  T = Nat
<1> SUFFICES ASSUME Nat \ T # {} PROVE FALSE
  OBVIOUS
<1> DEFINE S == Nat \ T
           R == OpToRel(<, Nat)
<1>1. IsWellFoundedOn(R, Nat)
  BY NatLessThanWellFounded
<1>2. S \subseteq Nat /\ S # {}
  OBVIOUS
<1>3. PICK x \in S : \A y \in S : ~(<<y, x>> \in R)
  <2> HIDE DEF R, S
  <2> QED
    BY <1>1, <1>2, WFMin
<1>4. x # 0 /\ x \in Nat
  OBVIOUS
<1>5. x - 1 \in Nat /\ x - 1 < x
  BY <1>4
<1>6. x - 1 \notin S
  BY <1>3, <1>4, <1>5 DEF OpToRel
<1> QED
  BY <1>4, <1>5, <1>6

HasRecursion(n, V, b, step) ==
  \E g \in [0..n -> V] : g[0] = b /\ \A i \in 1..n : g[i] = step[<<g[i - 1], i>>]

\* A function on 0..n defined from its value one place before exists.
LEMMA RecursionExists ==
  ASSUME NEW n \in Nat, NEW V, NEW b \in V, NEW step \in [V \X (1..n) -> V]
  PROVE  HasRecursion(n, V, b, step)
<1> DEFINE Good(k) == \E g \in [0..n -> V] :
                         g[0] = b /\ \A i \in 1..n : i <= k => g[i] = step[<<g[i - 1], i>>]
           T == {k \in Nat : Good(k)}
<1>1. 0 \in T
  <2>1. [i \in 0..n |-> b] \in [0..n -> V]
    OBVIOUS
  <2>2. [i \in 0..n |-> b][0] = b
    OBVIOUS
  <2>3. \A i \in 1..n : ~(i <= 0)
    OBVIOUS
  <2> QED
    BY <2>1, <2>2, <2>3
<1>2. \A k \in T : k + 1 \in T
  <2> SUFFICES ASSUME NEW k \in T PROVE Good(k + 1)
    <3>1. \A k \in T : k + 1 \in Nat
      BY SMT
    <3> QED
      BY <3>1, Zenon
  <2>1. PICK g \in [0..n -> V] :
           g[0] = b /\ \A i \in 1..n : i <= k => g[i] = step[<<g[i - 1], i>>]
    OBVIOUS
  <2> HIDE DEF T
  <2>2. k \in Nat
    BY DEF T
  <2>3. CASE k + 1 \in 1..n
    <3> DEFINE h == [g EXCEPT ![k + 1] = step[<<g[k], k + 1>>]]
    <3>1. k \in 0..n
      BY <2>2, <2>3
    <3>2. step[<<g[k], k + 1>>] \in V
      <4>1. <<g[k], k + 1>> \in V \X (1..n)
        BY <3>1, <2>3
      <4> QED
        BY <4>1
    <3>3. h \in [0..n -> V]
      BY <3>2
    <3>4. h[0] = b
      BY <2>1, <2>2
    <3>5. ASSUME NEW i \in 1..n, i <= k + 1
          PROVE  h[i] = step[<<h[i - 1], i>>]
      <4>1. i - 1 \in 0..n /\ i - 1 # k + 1
        BY <3>5, <2>2
      <4>2. h[i - 1] = g[i - 1]
        BY <4>1
      <4>3. CASE i = k + 1
        <5>1. i - 1 = k
          BY <4>3, <2>2
        <5>2. h[i] = step[<<g[k], k + 1>>]
          BY <4>3, <2>3
        <5> QED
          BY <5>1, <5>2, <4>2, <4>3
      <4>4. CASE i # k + 1
        <5>1. i <= k
          BY <4>4, <3>5, <2>2
        <5>2. h[i] = g[i]
          BY <4>4
        <5> QED
          BY <5>1, <5>2, <4>2, <2>1
      <4> QED
        BY <4>3, <4>4
    <3> HIDE DEF h
    <3> QED
      BY <3>3, <3>4, <3>5
  <2>4. CASE k + 1 \notin 1..n
    <3>1. \A i \in 1..n : i <= k
      BY <2>2, <2>4
    <3> QED
      BY <2>1, <3>1
  <2> QED
    BY <2>3, <2>4
<1>3. T = Nat
  <2> HIDE DEF Good
  <2> QED
    BY <1>1, <1>2, SetInduction
<1>4. Good(n)
  BY <1>3
<1> QED
  BY <1>4 DEF HasRecursion

\* A set that has 0 and with each number below n the next has all of 0..n.
LEMMA BoundedInduction ==
  ASSUME NEW n \in Nat, NEW T, 0 \in T, \A i \in 0..n : i < n /\ i \in T => i + 1 \in T
  PROVE  0..n \subseteq T
<1> DEFINE U == {i \in Nat : i <= n => i \in T}
<1>1. \A i \in U : i + 1 \in U
  OBVIOUS
<1>2. U = Nat
  <2>1. 0 \in U /\ U \in SUBSET Nat
    OBVIOUS
  <2> HIDE DEF U
  <2> QED
    BY <1>1, <2>1, SetInduction
<1> QED
  BY <1>2

-----------------------------------------------------------------------------
(* The elements of a sequence that are in a set, in their order.           *)

\* g[i] has those of the first i elements of s that are in A.
Selects(g, s, A) ==
  /\ g[0] = <<>>
  /\ \A i \in 1..Len(s) : g[i] = IF s[i] \in A THEN Append(g[i - 1], s[i]) ELSE g[i - 1]

IsSelection(r, s, A) == \E g : Selects(g, s, A) /\ r = g[Len(s)]

LEMMA SelectionExists ==
  ASSUME NEW S, NEW s \in Seq(S), NEW A
  PROVE  \E g \in [0..Len(s) -> Seq(S)] : Selects(g, s, A)
<1> DEFINE n == Len(s)
           V == Seq(S)
           step == [p \in V \X (1..n) |-> IF s[p[2]] \in A THEN Append(p[1], s[p[2]]) ELSE p[1]]
<1>1. n \in Nat /\ <<>> \in V
  OBVIOUS
<1>2. \A v \in V, i \in 1..n :
        /\ step[<<v, i>>] = IF s[i] \in A THEN Append(v, s[i]) ELSE v
        /\ step[<<v, i>>] \in V
  OBVIOUS
<1>3. step \in [V \X (1..n) -> V]
  OBVIOUS
<1> HIDE DEF step, V, n
<1>4. HasRecursion(n, V, <<>>, step)
  BY <1>1, <1>3, RecursionExists
<1>5. PICK g \in [0..n -> V] : g[0] = <<>> /\ \A i \in 1..n : g[i] = step[<<g[i - 1], i>>]
  BY <1>4 DEF HasRecursion
<1>6. ASSUME NEW i \in 1..n
      PROVE  g[i] = IF s[i] \in A THEN Append(g[i - 1], s[i]) ELSE g[i - 1]
  <2>1. i - 1 \in 0..n
    BY <1>1
  <2>2. g[i - 1] \in V
    BY <2>1
  <2> QED
    BY <1>2, <1>5, <2>2
<1> QED
  BY <1>5, <1>6 DEF Selects, V, n

\* A recursive function that selects, as its definition gives it.
LEMMA SelectionIs ==
  ASSUME NEW S, NEW s \in Seq(S), NEW A, NEW F,
         F = CHOOSE f : f = [i \in 0..Len(s) |->
                               IF i = 0 THEN <<>>
                               ELSE IF s[i] \in A THEN Append(f[i - 1], s[i]) ELSE f[i - 1]]
  PROVE  IsSelection(F[Len(s)], s, A)
<1> DEFINE v(f, i) == IF i = 0 THEN <<>>
                      ELSE IF s[i] \in A THEN Append(f[i - 1], s[i]) ELSE f[i - 1]
           b(f) == [i \in 0..Len(s) |-> v(f, i)]
<1>1. PICK g \in [0..Len(s) -> Seq(S)] : Selects(g, s, A)
  BY SelectionExists
<1>2. /\ Len(s) \in Nat /\ Len(s) \in 0..Len(s) /\ 0 \in 0..Len(s)
      /\ \A i \in 0..Len(s) : i # 0 => i \in 1..Len(s)
      /\ \A i \in 1..Len(s) : i # 0 /\ i \in 0..Len(s)
  OBVIOUS
<1>3. g = b(g)
  <2>1. g = [i \in 0..Len(s) |-> g[i]]
    OBVIOUS
  <2>2. \A i \in 0..Len(s) : g[i] = v(g, i)
    BY <1>1, <1>2, Zenon DEF Selects
  <2> HIDE DEF v
  <2> QED
    BY <2>1, <2>2, Zenon
<1>4. F = b(F)
  <2>1. F = CHOOSE f : f = b(f)
    OBVIOUS
  <2> HIDE DEF b
  <2> QED
    BY <1>3, <2>1, Zenon
<1>5. \A i \in 0..Len(s) : F[i] = v(F, i)
  <2> HIDE DEF v
  <2> QED
    BY <1>4
<1>6. Selects(F, s, A)
  BY <1>2, <1>5, Zenon DEF Selects
<1> QED
  BY <1>6 DEF IsSelection

\* What is selected are the elements of s that are in A, and nothing else.
LEMMA SelectionElements ==
  ASSUME NEW S, NEW s \in Seq(S), NEW A, NEW r, IsSelection(r, s, A)
  PROVE  /\ r \in Seq(S)
         /\ \A x : (\E i \in 1..Len(r) : r[i] = x) <=> x \in A /\ \E i \in 1..Len(s) : s[i] = x
<1> DEFINE n == Len(s)
<1>1. PICK g : Selects(g, s, A) /\ r = g[n]
  BY DEF IsSelection
<1> DEFINE Good(i) == /\ g[i] \in Seq(S)
                      /\ \A x : (\E k \in 1..Len(g[i]) : g[i][k] = x)
                                  <=> x \in A /\ \E k \in 1..i : s[k] = x
           T == {i \in 0..n : Good(i)}
<1>2. n \in Nat /\ n \in 0..n
  OBVIOUS
<1>3. 0 \in T
  <2>1. g[0] = <<>>
    BY <1>1 DEF Selects
  <2>2. Len(g[0]) = 0 /\ 1..0 = {} /\ g[0] \in Seq(S) /\ 0 \in 0..n
    BY <1>2, <2>1
  <2>3. Good(0)
    BY <2>2, Zenon
  <2> QED
    BY <2>2, <2>3
<1>4. ASSUME NEW i \in 0..n, i < n, i \in T PROVE i + 1 \in T
  <2>1. i + 1 \in 1..n /\ (i + 1) - 1 = i /\ s[i + 1] \in S
    BY <1>2, <1>4
  <2>2. g[i + 1] = IF s[i + 1] \in A THEN Append(g[i], s[i + 1]) ELSE g[i]
    BY <1>1, <2>1 DEF Selects
  <2>3. Good(i)
    BY <1>4
  <2>4. \A x : (\E k \in 1..(i + 1) : s[k] = x) <=> (\E k \in 1..i : s[k] = x) \/ s[i + 1] = x
    BY <1>4
  <2>5. CASE s[i + 1] \in A
    <3>1. g[i + 1] = Append(g[i], s[i + 1])
      BY <2>2, <2>5
    <3>2. /\ g[i + 1] \in Seq(S) /\ Len(g[i + 1]) = Len(g[i]) + 1 /\ Len(g[i]) \in Nat
          /\ \A k \in 1..Len(g[i]) : g[i + 1][k] = g[i][k]
          /\ g[i + 1][Len(g[i]) + 1] = s[i + 1]
      BY <2>1, <2>3, <3>1
    <3>3. ASSUME NEW x
          PROVE  (\E k \in 1..Len(g[i + 1]) : g[i + 1][k] = x)
                   <=> (\E k \in 1..Len(g[i]) : g[i][k] = x) \/ s[i + 1] = x
      <4>1. 1..Len(g[i + 1]) = (1..Len(g[i])) \cup {Len(g[i]) + 1}
        BY <3>2
      <4> QED
        BY <3>2, <4>1, Zenon
    <3>4. Good(i + 1)
      BY <2>3, <2>4, <2>5, <3>2, <3>3
    <3> QED
      BY <2>1, <3>4
  <2>6. CASE s[i + 1] \notin A
    <3>1. g[i + 1] = g[i]
      BY <2>2, <2>6
    <3>2. Good(i + 1)
      BY <2>3, <2>4, <2>6, <3>1
    <3> QED
      BY <2>1, <3>2
  <2> QED
    BY <2>5, <2>6
<1>5. n \in T
  <2>1. 0..n \subseteq T
    <3> HIDE DEF T, n
    <3> QED
      BY <1>2, <1>3, <1>4, BoundedInduction
  <2> QED
    BY <1>2, <2>1
<1> QED
  BY <1>1, <1>5

\* The selection from a sequence with one more element.
LEMMA SelectionOfAppend ==
  ASSUME NEW S, NEW s \in Seq(S), NEW x \in S, NEW A,
         NEW r, IsSelection(r, s, A), NEW q, IsSelection(q, Append(s, x), A)
  PROVE  q = IF x \in A THEN Append(r, x) ELSE r
<1> DEFINE n == Len(s)
           t == Append(s, x)
<1>1. n \in Nat /\ n \in 0..n /\ Len(t) = n + 1 /\ t[n + 1] = x /\ \A i \in 1..n : t[i] = s[i]
  OBVIOUS
<1>2. PICK g : Selects(g, s, A) /\ r = g[n]
  BY DEF IsSelection
<1>3. PICK h : Selects(h, t, A) /\ q = h[Len(t)]
  BY DEF IsSelection
<1> HIDE DEF n, t
<1> DEFINE T == {i \in 0..n : h[i] = g[i]}
<1>4. 0 \in T
  BY <1>1, <1>2, <1>3 DEF Selects
<1>5. ASSUME NEW i \in 0..n, i < n, i \in T PROVE i + 1 \in T
  <2>1. i + 1 \in 1..n /\ i + 1 \in 1..Len(t) /\ (i + 1) - 1 = i /\ t[i + 1] = s[i + 1]
    BY <1>1, <1>5
  <2>2. g[i + 1] = IF s[i + 1] \in A THEN Append(g[i], s[i + 1]) ELSE g[i]
    BY <1>2, <2>1 DEF Selects, n
  <2>3. h[i + 1] = IF t[i + 1] \in A THEN Append(h[i], t[i + 1]) ELSE h[i]
    BY <1>3, <2>1 DEF Selects
  <2> QED
    BY <1>5, <2>1, <2>2, <2>3
<1>6. h[n] = g[n]
  <2>1. 0..n \subseteq T
    <3> HIDE DEF T
    <3> QED
      BY <1>1, <1>4, <1>5, BoundedInduction
  <2> QED
    BY <1>1, <2>1
<1>7. h[n + 1] = IF t[n + 1] \in A THEN Append(h[n], t[n + 1]) ELSE h[n]
  <2>1. n + 1 \in 1..Len(t) /\ (n + 1) - 1 = n
    BY <1>1
  <2> QED
    BY <1>3, <2>1 DEF Selects
<1> QED
  BY <1>1, <1>2, <1>3, <1>6, <1>7

\* The selection from a sequence that lost its first element.
LEMMA SelectionOfTail ==
  ASSUME NEW S, NEW s \in Seq(S), s # <<>>, NEW A,
         NEW r, IsSelection(r, s, A), NEW q, IsSelection(q, Tail(s), A)
  PROVE  r = IF Head(s) \in A THEN <<Head(s)>> \o q ELSE q
<1> DEFINE n == Len(Tail(s))
           t == Tail(s)
           a == Head(s)
           first == IF a \in A THEN <<a>> ELSE <<>>
<1>1. /\ n \in Nat /\ n \in 0..n /\ Len(s) = n + 1 /\ a = s[1] /\ a \in S
      /\ t \in Seq(S) /\ \A i \in 1..n : t[i] = s[i + 1]
  OBVIOUS
<1>2. PICK g : Selects(g, s, A) /\ r = g[Len(s)]
  BY DEF IsSelection
<1>3. PICK h : Selects(h, t, A) /\ q = h[n]
  BY DEF IsSelection
<1>4. first \in Seq(S)
  BY <1>1
<1>5. \A u \in Seq(S), x \in S : first \o Append(u, x) = Append(first \o u, x)
  BY <1>4
<1>6. first \o <<>> = first
  BY <1>4
<1>7. \A u \in Seq(S) : first \o u = IF a \in A THEN <<a>> \o u ELSE u
  OBVIOUS
<1>8. g[1] = first
  <2>1. 1 \in 1..Len(s)
    BY <1>1
  <2>2. g[1] = IF s[1] \in A THEN Append(g[0], s[1]) ELSE g[0]
    <3>1. g[1] = IF s[1] \in A THEN Append(g[1 - 1], s[1]) ELSE g[1 - 1]
      BY <1>2, <2>1, Zenon DEF Selects
    <3> QED
      BY <3>1
  <2>3. g[0] = <<>>
    BY <1>2 DEF Selects
  <2> QED
    BY <1>1, <2>2, <2>3
<1> HIDE DEF n, t, a, first
<1> DEFINE T == {i \in 0..n : h[i] \in Seq(S) /\ g[i + 1] = first \o h[i]}
<1>9. 0 \in T
  <2>1. h[0] = <<>>
    BY <1>3 DEF Selects
  <2>2. first \o h[0] = first /\ h[0] \in Seq(S) /\ 0 \in 0..n /\ 0 + 1 = 1
    BY <1>1, <1>6, <2>1
  <2> QED
    BY <1>8, <2>2
<1>10. ASSUME NEW i \in 0..n, i < n, i \in T PROVE i + 1 \in T
  <2>1. /\ i + 1 \in 1..n /\ (i + 1) - 1 = i /\ t[i + 1] = s[(i + 1) + 1] /\ t[i + 1] \in S
        /\ (i + 1) + 1 \in 1..Len(s) /\ ((i + 1) + 1) - 1 = i + 1 /\ i + 1 \in 0..n
    BY <1>1, <1>10 DEF n, t
  <2>2. h[i + 1] = IF t[i + 1] \in A THEN Append(h[i], t[i + 1]) ELSE h[i]
    BY <1>3, <2>1 DEF Selects, n, t
  <2>3. g[(i + 1) + 1] = IF t[i + 1] \in A THEN Append(g[i + 1], t[i + 1]) ELSE g[i + 1]
    BY <1>2, <2>1 DEF Selects
  <2>4. h[i] \in Seq(S) /\ g[i + 1] = first \o h[i]
    BY <1>10
  <2>5. CASE t[i + 1] \in A
    <3>1. h[i + 1] = Append(h[i], t[i + 1]) /\ h[i + 1] \in Seq(S)
      BY <2>1, <2>2, <2>4, <2>5
    <3>2. g[(i + 1) + 1] = first \o h[i + 1]
      BY <1>5, <2>1, <2>3, <2>4, <2>5, <3>1
    <3> QED
      BY <2>1, <3>1, <3>2
  <2>6. CASE t[i + 1] \notin A
    BY <2>1, <2>2, <2>3, <2>4, <2>6
  <2> QED
    BY <2>5, <2>6
<1>11. n \in T
  <2>1. 0..n \subseteq T
    <3> HIDE DEF T
    <3> QED
      BY <1>1, <1>9, <1>10, BoundedInduction
  <2> QED
    BY <1>1, <2>1
<1>12. r = first \o q /\ q \in Seq(S)
  BY <1>1, <1>2, <1>3, <1>11
<1> QED
  BY <1>7, <1>12 DEF a
=============================================================================
