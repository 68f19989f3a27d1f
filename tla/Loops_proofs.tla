---------------------------- MODULE Loops_proofs ----------------------------
(***************************************************************************)
(* Loops and sequences: what the proofs about the GPU engine and about the *)
(* server know of recursive functions over an interval, of concatenation   *)
(* and of FlattenSeq.                                                      *)
(***************************************************************************)
EXTENDS Integers, Sequences, SequencesExt, WellFoundedInduction, NaturalsInduction, TLAPS

-----------------------------------------------------------------------------
(* Numbers.                                                                *)

\* A set of numbers has a least element.
LEMMA LeastNat ==
  ASSUME NEW T, T \subseteq Nat, T # {}
  PROVE  \E k \in T : \A n \in T : k <= n
<1> DEFINE R == OpToRel(<, Nat)
<1>1. IsWellFoundedOn(R, Nat)
  BY NatLessThanWellFounded
<1>2. \A k, n \in Nat : n < k => <<n, k>> \in R
  BY DEF OpToRel
<1> HIDE DEF R
<1>3. PICK k \in T : \A n \in T : ~ (<<n, k>> \in R)
  BY <1>1, WFMin
<1>4. ASSUME NEW n \in T PROVE k <= n
  <2>1. k \in Nat /\ n \in Nat /\ ~(n < k)
    BY <1>2, <1>3
  <2> QED
    BY <2>1
<1> QED
  BY <1>4

\* What Min returns.
LEMMA MinLeast ==
  ASSUME NEW T, T \subseteq Nat, T # {}
  PROVE  Min(T) \in T /\ \A n \in T : Min(T) <= n
<1>1. PICK k \in T : \A n \in T : k <= n
  BY LeastNat
<1> QED
  BY <1>1 DEF Min

\* Induction up to N.
LEMMA Upward ==
  ASSUME NEW N \in Nat, NEW T, 0 \in T, \A i \in 1 .. N : i - 1 \in T => i \in T
  PROVE  \A i \in 0 .. N : i \in T
<1> DEFINE U == {i \in 0 .. N : i \notin T}
<1> SUFFICES ASSUME U # {} PROVE FALSE
  OBVIOUS
<1>1. U \subseteq Nat
  OBVIOUS
<1>2. PICK k \in U : \A n \in U : k <= n
  BY <1>1, LeastNat
<1>3. k \in 1 .. N
  BY <1>2
<1>4. k - 1 \in 0 .. N /\ k - 1 \notin U
  BY <1>2, <1>3
<1> QED
  BY <1>2, <1>3, <1>4

-----------------------------------------------------------------------------
(* Loops.  A loop over 1 .. N is a recursive function in the model; F[i] is *)
(* the body of round i and S[i] a set of states the loop can be in after it. *)

Body(F, N, S) == \A i \in 1 .. N : \A x \in S[i - 1] : F[i][x] \in S[i]

Loop(g, F, N, S, b) ==
  /\ g = [i \in 0 .. N |-> g[i]] /\ g[0] = b
  /\ \A i \in 1 .. N : g[i] = F[i][g[i - 1]]
  /\ \A i \in 0 .. N : g[i] \in S[i]

\* The states of a loop exist.
LEMMA LoopExists ==
  ASSUME NEW N \in Nat, NEW S, NEW b \in S[0], NEW F, Body(F, N, S)
  PROVE  \E g : Loop(g, F, N, S, b)
<1> DEFINE T == {n \in 0 .. N : \E g : Loop(g, F, n, S, b)}
<1>1. 0 \in T
  <2> DEFINE g == [i \in 0 .. 0 |-> b]
  <2>1. g = [i \in 0 .. 0 |-> g[i]] /\ g[0] = b /\ \A i \in 0 .. 0 : g[i] = b /\ i = 0
    OBVIOUS
  <2>2. Loop(g, F, 0, S, b)
    BY <2>1 DEF Loop
  <2> QED
    BY <2>2
<1>2. ASSUME NEW n \in 1 .. N, n - 1 \in T PROVE n \in T
  <2>1. PICK g : Loop(g, F, n - 1, S, b)
    BY <1>2
  <2> DEFINE h == [i \in 0 .. n |-> IF i < n THEN g[i] ELSE F[n][g[n - 1]]]
  <2>2. g[n - 1] \in S[n - 1] /\ F[n][g[n - 1]] \in S[n]
    <3>1. n - 1 \in 0 .. n - 1
      OBVIOUS
    <3> QED
      BY <2>1, <3>1 DEF Loop, Body
  <2>3. /\ h = [i \in 0 .. n |-> h[i]] /\ h[n] = F[n][g[n - 1]]
        /\ \A i \in 0 .. n - 1 : h[i] = g[i]
    OBVIOUS
  <2> HIDE DEF h
  <2>4. ASSUME NEW i \in 1 .. n PROVE h[i] = F[i][h[i - 1]]
    <3>0. i - 1 \in 0 .. n - 1
      OBVIOUS
    <3>1. h[i - 1] = g[i - 1]
      BY <2>3, <3>0
    <3>2. CASE i = n
      BY <2>3, <3>1, <3>2
    <3>3. CASE i # n
      <4>1. i \in 1 .. n - 1 /\ i \in 0 .. n - 1
        BY <3>3
      <4>2. h[i] = g[i] /\ g[i] = F[i][g[i - 1]]
        BY <2>1, <2>3, <4>1 DEF Loop
      <4> QED
        BY <3>1, <4>2
    <3> QED
      BY <3>2, <3>3
  <2>5. ASSUME NEW i \in 0 .. n PROVE h[i] \in S[i]
    <3>1. CASE i = n
      BY <2>2, <2>3, <3>1
    <3>2. CASE i # n
      <4>1. i \in 0 .. n - 1
        BY <3>2
      <4> QED
        BY <2>1, <2>3, <4>1 DEF Loop
    <3> QED
      BY <3>1, <3>2
  <2>6. h[0] = b
    BY <2>1, <2>3, SMTT(60) DEF Loop
  <2>7. Loop(h, F, n, S, b)
    BY <2>3, <2>4, <2>5, <2>6 DEF Loop
  <2> QED
    BY <2>7
<1> HIDE DEF T
<1>3. \A i \in 0 .. N : i \in T
  BY <1>1, <1>2, Upward
<1>4. N \in T
  BY <1>3
<1> QED
  BY <1>4 DEF T

\* The same for a set A of states that every round stays in.
LEMMA LoopInSet ==
  ASSUME NEW N \in Nat, NEW A, NEW b \in A, NEW F,
         \A i \in 1 .. N : \A x \in A : F[i][x] \in A
  PROVE  \E g : Loop(g, F, N, [i \in 0 .. N |-> A], b)
<1> DEFINE S == [i \in 0 .. N |-> A]
<1>1. \A i \in 0 .. N : S[i] = A
  OBVIOUS
<1>2. b \in S[0] /\ \A i \in 1 .. N : i - 1 \in 0 .. N /\ i \in 0 .. N
  OBVIOUS
<1> HIDE DEF S
<1>3. Body(F, N, S)
  BY <1>1, <1>2 DEF Body
<1>4. \E g : Loop(g, F, N, S, b)
  BY <1>2, <1>3, LoopExists
<1> QED
  BY <1>4 DEF S

\* The states of a loop are in S: by its first state and its body.
LEMMA LoopStays ==
  ASSUME NEW N \in Nat, NEW S, NEW g, g[0] \in S[0],
         \A i \in 1 .. N : g[i - 1] \in S[i - 1] => g[i] \in S[i]
  PROVE  \A i \in 0 .. N : g[i] \in S[i]
<1> DEFINE T == {i \in 0 .. N : g[i] \in S[i]}
<1>1. 0 \in T /\ \A i \in 1 .. N : i - 1 \in T => i \in T
  OBVIOUS
<1> HIDE DEF T
<1>2. \A i \in 0 .. N : i \in T
  BY <1>1, Upward
<1> QED
  BY <1>2 DEF T

\* A loop whose rounds do not leave a set ends in it.
LEMMA LoopStaysInSet ==
  ASSUME NEW N \in Nat, NEW A, NEW g, g[0] \in A,
         \A i \in 1 .. N : g[i - 1] \in A => g[i] \in A
  PROVE  \A i \in 0 .. N : g[i] \in A
<1> DEFINE T == {i \in 0 .. N : g[i] \in A}
<1>1. 0 \in T /\ \A i \in 1 .. N : i - 1 \in T => i \in T
  OBVIOUS
<1> HIDE DEF T
<1>2. \A i \in 0 .. N : i \in T
  BY <1>1, Upward
<1> QED
  BY <1>2 DEF T

-----------------------------------------------------------------------------
(* Sequences.                                                              *)

\* The elements of a sequence.
LEMMA RangeOf ==
  ASSUME NEW S, NEW q \in Seq(S)
  PROVE  /\ Len(q) \in Nat /\ DOMAIN q = 1 .. Len(q)
         /\ \A i \in 1 .. Len(q) : q[i] \in Range(q) /\ q[i] \in S
         /\ \A a \in Range(q) : \E i \in 1 .. Len(q) : q[i] = a
  BY DEF Range

\* The elements of a concatenation.
LEMMA ConcatFacts ==
  ASSUME NEW S, NEW a \in Seq(S), NEW b \in Seq(S)
  PROVE  /\ Len(a \o b) = Len(a) + Len(b)
         /\ \A i \in 1 .. Len(a) + Len(b) :
              (a \o b)[i] = IF i <= Len(a) THEN a[i] ELSE b[i - Len(a)]
  OBVIOUS

\* The elements of a sequence with one more.
LEMMA AppendFacts ==
  ASSUME NEW q, q \in Seq(Range(q)), NEW e
  PROVE  /\ Append(q, e) \in Seq(Range(Append(q, e))) /\ Len(Append(q, e)) = Len(q) + 1
         /\ DOMAIN Append(q, e) = 1 .. Len(q) + 1 /\ Append(q, e)[Len(q) + 1] = e
         /\ \A i \in 1 .. Len(q) : Append(q, e)[i] = q[i]
<1> DEFINE S == Range(q) \cup {e}
           w == Append(q, e)
<1>1. Len(q) \in Nat /\ \A i \in 1 .. Len(q) : q[i] \in S
  BY RangeOf
<1>2. q \in Seq(S)
  <2>1. q = [i \in 1 .. Len(q) |-> q[i]]
    OBVIOUS
  <2> HIDE DEF S
  <2> QED
    BY <1>1, <2>1
<1>3. e \in S
  OBVIOUS
<1> HIDE DEF S
<1>4. /\ w \in Seq(S) /\ Len(w) = Len(q) + 1 /\ w[Len(q) + 1] = e
      /\ \A i \in 1 .. Len(q) : w[i] = q[i]
  BY <1>1, <1>2, <1>3
<1> HIDE DEF w
<1>5. DOMAIN w = 1 .. Len(q) + 1 /\ w = [i \in 1 .. Len(q) + 1 |-> w[i]]
  BY <1>4
<1>6. \A i \in 1 .. Len(q) + 1 : w[i] \in Range(w)
  BY <1>5 DEF Range
<1>7. w \in Seq(Range(w))
  BY <1>1, <1>5, <1>6
<1> QED
  BY <1>4, <1>5, <1>7 DEF w

\* A concatenation has the elements of both parts.
LEMMA RangeConcat ==
  ASSUME NEW S, NEW a \in Seq(S), NEW b \in Seq(S)
  PROVE  a \o b \in Seq(S) /\ Range(a \o b) = Range(a) \cup Range(b)
<1>1. /\ a \o b \in Seq(S) /\ Len(a \o b) = Len(a) + Len(b)
      /\ \A i \in 1 .. Len(a) + Len(b) :
           (a \o b)[i] = IF i <= Len(a) THEN a[i] ELSE b[i - Len(a)]
      /\ Len(a) \in Nat /\ Len(b) \in Nat
  OBVIOUS
<1>2. ASSUME NEW e \in Range(a \o b) PROVE e \in Range(a) \cup Range(b)
  <2>1. PICK i \in 1 .. Len(a) + Len(b) : (a \o b)[i] = e
    BY <1>1, RangeOf
  <2>2. i <= Len(a) => i \in 1 .. Len(a)
    BY <1>1
  <2>3. ~ (i <= Len(a)) => i - Len(a) \in 1 .. Len(b)
    BY <1>1
  <2> QED
    BY <1>1, <2>1, <2>2, <2>3, RangeOf
<1>3. ASSUME NEW e \in Range(a) PROVE e \in Range(a \o b)
  <2>1. PICK i \in 1 .. Len(a) : a[i] = e
    BY RangeOf
  <2>2. i \in 1 .. Len(a \o b) /\ (a \o b)[i] = e
    BY <1>1, <2>1
  <2> QED
    BY <1>1, <2>2, RangeOf
<1>4. ASSUME NEW e \in Range(b) PROVE e \in Range(a \o b)
  <2>1. PICK i \in 1 .. Len(b) : b[i] = e
    BY RangeOf
  <2>2. i + Len(a) \in 1 .. Len(a \o b) /\ (a \o b)[i + Len(a)] = e
    BY <1>1, <2>1
  <2> QED
    BY <1>1, <2>2, RangeOf
<1> QED
  BY <1>1, <1>2, <1>3, <1>4

\* A reversed sequence has the same elements.
LEMMA RangeReverse ==
  ASSUME NEW S, NEW a \in Seq(S)
  PROVE  Reverse(a) \in Seq(S) /\ Range(Reverse(a)) \subseteq Range(a)
<1>1. Len(a) \in Nat /\ \A i \in 1 .. Len(a) : Len(a) - i + 1 \in 1 .. Len(a)
  OBVIOUS
<1>2. Reverse(a) = [i \in 1 .. Len(a) |-> a[Len(a) - i + 1]]
  BY DEF Reverse
<1>3. Reverse(a) \in Seq(S)
  BY <1>1, <1>2
<1>4. ASSUME NEW e \in Range(Reverse(a)) PROVE e \in Range(a)
  <2>1. PICK i \in 1 .. Len(a) : e = a[Len(a) - i + 1]
    BY <1>2 DEF Range
  <2> QED
    BY <1>1, <2>1, RangeOf
<1> QED
  BY <1>3, <1>4

\* A sequence of sequences put together, in particular of sequences that are short.
LEMMA FlattenFacts ==
  ASSUME NEW S, NEW q \in Seq(Seq(S))
  PROVE  /\ FlattenSeq(q) \in Seq(S)
         /\ (\A i \in 1 .. Len(q) : Len(q[i]) <= 1) => Len(FlattenSeq(q)) <= Len(q)
<1> DEFINE N == Len(q)
           short == \A i \in 1 .. Len(q) : Len(q[i]) <= 1
<1>1. N \in Nat
  OBVIOUS
<1>2. CASE N = 0
  <2>1. q = <<>> /\ FlattenSeq(q) = q
    BY <1>2 DEF FlattenSeq
  <2>2. <<>> \in Seq(S)
    OBVIOUS
  <2>3. FlattenSeq(q) = <<>> /\ Len(<<>>) = 0
    BY <2>1
  <2> QED
    BY <1>2, <2>2, <2>3
<1>3. CASE N # 0
  <2> DEFINE M == N - 1
             F == [i \in 1 .. M |-> [y \in Seq(S) |-> y \o q[i + 1]]]
             Eq(g) == g = [i \in 1 .. Len(q) |-> IF i = 1 THEN q[i] ELSE g[i - 1] \o q[i]]
             h == CHOOSE g : Eq(g)
  <2>1. FlattenSeq(q) = h[N]
    BY <1>3 DEF FlattenSeq
  <2>2. M \in Nat /\ q[1] \in Seq(S) /\ \A i \in 1 .. M : q[i + 1] \in Seq(S)
    BY <1>1, <1>3
  <2>3. \A i \in 1 .. M : \A y \in Seq(S) : F[i][y] = y \o q[i + 1] /\ F[i][y] \in Seq(S)
    BY <2>2
  <2> HIDE DEF F, M
  <2>4. PICK g : Loop(g, F, M, [i \in 0 .. M |-> Seq(S)], q[1])
    BY <2>2, <2>3, LoopInSet
  <2>5. /\ \A i \in 0 .. M : g[i] \in Seq(S)
        /\ g[0] = q[1] /\ \A i \in 1 .. M : g[i] = F[i][g[i - 1]]
    BY <2>4 DEF Loop
  <2> DEFINE f == [i \in 1 .. Len(q) |-> g[i - 1]]
  <2>6. Eq(f)
    <3>1. ASSUME NEW i \in 1 .. Len(q) PROVE f[i] = IF i = 1 THEN q[i] ELSE f[i - 1] \o q[i]
      <4>1. CASE i = 1
        BY <2>5, <4>1
      <4>2. CASE i # 1
        <5>1. i - 1 \in 1 .. M /\ i - 1 \in 1 .. Len(q) /\ i - 1 - 1 \in 0 .. M /\ (i - 1) + 1 = i
          BY <1>1, <4>2 DEF M
        <5>2. g[i - 1] = g[i - 1 - 1] \o q[(i - 1) + 1]
          BY <2>3, <2>5, <5>1
        <5>3. f[i] = g[i - 1] /\ f[i - 1] = g[i - 1 - 1]
          BY <5>1
        <5> QED
          BY <4>2, <5>1, <5>2, <5>3
      <4> QED
        BY <4>1, <4>2
    <3>2. f = [i \in 1 .. Len(q) |-> f[i]]
      OBVIOUS
    <3> HIDE DEF f
    <3> QED
      BY <3>1, <3>2
  <2>7. Eq(h)
    BY <2>6
  <2> HIDE DEF h
  <2>8. /\ h[1] = q[1]
        /\ \A i \in 2 .. Len(q) : h[i] = h[i - 1] \o q[i]
    <3>1. ASSUME NEW i \in 1 .. Len(q) PROVE h[i] = IF i = 1 THEN q[i] ELSE h[i - 1] \o q[i]
      BY <2>7
    <3>2. 1 \in 1 .. Len(q) /\ \A i \in 2 .. Len(q) : i \in 1 .. Len(q) /\ i # 1
      BY <1>1, <1>3
    <3> QED
      BY <3>1, <3>2
  <2> DEFINE k == [i \in 0 .. M |-> h[i + 1]]
             T == [i \in 0 .. M |-> {y \in Seq(S) : short => Len(y) <= i + 1}]
  <2>9. \A i \in 1 .. M : i - 1 \in 0 .. M /\ i \in 0 .. M /\ i + 1 \in 2 .. Len(q)
                          /\ (i + 1) - 1 = i /\ (i - 1) + 1 = i /\ i + 1 \in 1 .. Len(q)
    BY <1>1 DEF M
  <2>10. k[0] \in T[0]
    <3>1. k[0] = q[1] /\ 0 \in 0 .. M /\ 1 \in 1 .. Len(q)
      BY <1>1, <1>3, <2>2, <2>8
    <3> HIDE DEF k
    <3> QED
      BY <2>2, <3>1
  <2>11. ASSUME NEW i \in 1 .. M, k[i - 1] \in T[i - 1] PROVE k[i] \in T[i]
    <3>1. k[i - 1] = h[i] /\ k[i] = h[i + 1]
      BY <2>9
    <3>2. h[i + 1] = h[i] \o q[i + 1]
      BY <2>8, <2>9
    <3> HIDE DEF k
    <3>3. h[i] \in Seq(S) /\ (short => Len(h[i]) <= i) /\ q[i + 1] \in Seq(S)
          /\ (short => Len(q[i + 1]) <= 1)
      BY <2>2, <2>9, <2>11, <3>1
    <3>4. h[i + 1] \in Seq(S) /\ Len(h[i + 1]) = Len(h[i]) + Len(q[i + 1])
          /\ Len(h[i]) \in Nat /\ Len(q[i + 1]) \in Nat
      BY <3>2, <3>3
    <3>5. short => Len(h[i + 1]) <= i + 1
      <4> HIDE DEF short
      <4>1. i \in Int
        BY <1>1
      <4>2. SUFFICES ASSUME short PROVE Len(h[i + 1]) <= i + 1
        OBVIOUS
      <4>3. Len(h[i]) <= i /\ Len(q[i + 1]) <= 1
        BY <3>3, <4>2
      <4>4. \A a, b \in Nat : a <= i /\ b <= 1 => a + b <= i + 1
        BY <4>1
      <4> QED
        BY <3>4, <4>3, <4>4, Zenon
    <3> QED
      BY <2>9, <3>1, <3>4, <3>5
  <2> HIDE DEF k, T, short
  <2>12. \A i \in 0 .. M : k[i] \in T[i]
    BY <2>2, <2>10, <2>11, LoopStays
  <2>13. k[M] = h[N] /\ M \in 0 .. M /\ M + 1 = N
    BY <1>1, <2>2 DEF k, M
  <2>14. h[N] \in Seq(S) /\ (short => Len(h[N]) <= N)
    BY <2>12, <2>13 DEF T
  <2> QED
    BY <2>1, <2>14 DEF short
<1> QED
  BY <1>2, <1>3

=============================================================================
