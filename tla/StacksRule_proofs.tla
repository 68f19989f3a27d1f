------------------------- MODULE StacksRule_proofs -------------------------
(***************************************************************************)
(* The stacks of a rule stay sorted and hold only packets that match their *)
(* state and were not used up; composite events are made of such packets,  *)
(* inside their windows.  For every rule and every order of arrival.       *)
(***************************************************************************)
EXTENDS StacksRule, SequenceTheorems, WellFoundedInduction, TLAPS

\* Packets with time stamps.
Stamps(ps) == Len(ps) \in Nat /\ \A q \in 1 .. Len(ps) : ps[q].ts \in Nat

\* A stack of packets of the set M, sorted by time stamp.
StackOf(ps, stack, M) ==
  /\ stack \in Seq(M)
  /\ \A i, j \in 1 .. Len(stack) : i <= j => ps[stack[i]].ts <= ps[stack[j]].ts

-----------------------------------------------------------------------------
(* Least elements: the induction used below.                               *)

\* Every set of natural numbers has a least element.
LEMMA LeastNat ==
  ASSUME NEW T, T \subseteq Nat, T # {}
  PROVE  \E m \in T : \A n \in T : m <= n
<1> DEFINE R == OpToRel(<, Nat)
<1>1. IsWellFoundedOn(R, Nat)
  BY NatLessThanWellFounded
<1>2. \A m, n \in Nat : n < m => <<n, m>> \in R
  BY DEF OpToRel
<1> HIDE DEF R
<1>3. PICK m \in T : \A n \in T : ~ (<<n, m>> \in R)
  BY <1>1, WFMin
<1>4. ASSUME NEW n \in T PROVE m <= n
  <2>1. m \in Nat /\ n \in Nat /\ ~(n < m)
    BY <1>2, <1>3
  <2> QED
    BY <2>1
<1> QED
  BY <1>4

-----------------------------------------------------------------------------
(* The searches.                                                           *)

\* FirstValid is the first position with a later time stamp, 0 without one.
LEMMA FirstValidFacts ==
  ASSUME NEW col \in Seq(Nat), NEW t \in Nat
  PROVE  /\ FirstValid(col, t) \in 0 .. Len(col)
         /\ FirstValid(col, t) = 0 => \A j \in 1 .. Len(col) : col[j] <= t
         /\ FirstValid(col, t) # 0 =>
              /\ col[FirstValid(col, t)] > t
              /\ \A j \in 1 .. Len(col) : j < FirstValid(col, t) => col[j] <= t
<1> DEFINE P(i) == col[i] > t /\ \A j \in 1 .. Len(col) : j < i => col[j] <= t
<1>1. \A j \in 1 .. Len(col) : col[j] \in Nat
  OBVIOUS
<1>2. CASE \E i \in 1 .. Len(col) : col[i] > t
  <2> DEFINE T == {i \in 1 .. Len(col) : col[i] > t}
  <2>1. T \subseteq Nat /\ T # {}
    BY <1>2
  <2>2. PICK m \in T : \A n \in T : m <= n
    BY <2>1, LeastNat
  <2>3. P(m) /\ m \in 1 .. Len(col)
    BY <1>1, <2>2
  <2> DEFINE x == CHOOSE i \in 1 .. Len(col) : P(i)
  <2>4. x \in 1 .. Len(col) /\ P(x)
    <3> HIDE DEF P
    <3> QED
      BY <2>3
  <2>5. FirstValid(col, t) = x
    BY <1>2 DEF FirstValid
  <2> HIDE DEF x
  <2> QED
    BY <2>4, <2>5
<1>3. CASE ~ \E i \in 1 .. Len(col) : col[i] > t
  <2>1. FirstValid(col, t) = 0
    BY <1>3 DEF FirstValid
  <2> QED
    BY <1>1, <1>3, <2>1
<1> QED
  BY <1>2, <1>3

\* LastValid is the last position with an earlier time stamp, 0 without one.
LEMMA LastValidFacts ==
  ASSUME NEW col \in Seq(Nat), NEW t \in Nat, NEW i0 \in 1 .. Len(col)
  PROVE  /\ LastValid(col, t, i0) \in 0 .. Len(col)
         /\ LastValid(col, t, i0) = 0 => \A j \in i0 .. Len(col) : col[j] >= t
         /\ LastValid(col, t, i0) # 0 =>
              /\ LastValid(col, t, i0) >= i0 /\ col[LastValid(col, t, i0)] < t
              /\ \A j \in i0 .. Len(col) : LastValid(col, t, i0) < j => col[j] >= t
<1> DEFINE P(i) == col[i] < t /\ \A j \in i0 .. Len(col) : i < j => col[j] >= t
<1>1. \A j \in i0 .. Len(col) : col[j] \in Nat /\ j \in Nat
  OBVIOUS
<1>2. CASE \E i \in i0 .. Len(col) : col[i] < t
  <2> DEFINE T == {n \in Nat : n <= Len(col) /\ Len(col) - n \in i0 .. Len(col)
                                /\ col[Len(col) - n] < t}
  <2>1. PICK i \in i0 .. Len(col) : col[i] < t
    BY <1>2
  <2>2. Len(col) - i \in T
    <3>1. Len(col) - (Len(col) - i) = i /\ Len(col) - i \in Nat /\ Len(col) - i <= Len(col)
      OBVIOUS
    <3> QED
      BY <2>1, <3>1
  <2>3. PICK m \in T : \A n \in T : m <= n
    BY <2>2, LeastNat
  <2>4. Len(col) - m \in i0 .. Len(col) /\ P(Len(col) - m)
    <3>1. ASSUME NEW j \in i0 .. Len(col), Len(col) - m < j PROVE col[j] >= t
      <4>1. Len(col) - (Len(col) - j) = j /\ Len(col) - j \in Nat /\ Len(col) - j < m
            /\ Len(col) - j <= Len(col)
        BY <2>3, <3>1, SMTT(60)
      <4>2. Len(col) - j \notin T
        <5>1. m \in Nat /\ j \in Nat
          BY <2>3
        <5> HIDE DEF T
        <5> QED
          BY <2>3, <4>1, <5>1
      <4> QED
        BY <1>1, <4>1, <4>2, SMTT(60)
    <3> QED
      BY <2>3, <3>1
  <2> DEFINE x == CHOOSE k \in i0 .. Len(col) : P(k)
  <2>5. x \in i0 .. Len(col) /\ P(x)
    <3> HIDE DEF P
    <3> QED
      BY <2>4
  <2>6. LastValid(col, t, i0) = x
    <3>1. i0 # 0
      OBVIOUS
    <3> QED
      BY <1>2, <3>1 DEF LastValid
  <2> HIDE DEF x
  <2> QED
    BY <2>5, <2>6
<1>3. CASE ~ \E i \in i0 .. Len(col) : col[i] < t
  <2>1. LastValid(col, t, i0) = 0
    BY <1>3 DEF LastValid
  <2>2. \A j \in i0 .. Len(col) : col[j] >= t
    BY <1>1, <1>3
  <2> QED
    BY <2>1, <2>2
<1> QED
  BY <1>2, <1>3

\* What deleteInvalidElements keeps is not too old.
LEMMA RemainingFacts ==
  ASSUME NEW col \in Seq(Nat), NEW t \in Nat, Sorted(col)
  PROVE  /\ Remaining(col, t) \in 0 .. Len(col)
         /\ \A j \in Len(col) - Remaining(col, t) + 1 .. Len(col) : col[j] >= t
<1>1. \A j \in 1 .. Len(col) : col[j] \in Nat
  OBVIOUS
<1>2. CASE Len(col) > 0 /\ col[Len(col)] = t
  BY <1>2 DEF Remaining
<1>3. CASE ~(Len(col) > 0 /\ col[Len(col)] = t)
  <2> DEFINE f == FirstValid(col, t)
  <2>1. f \in 0 .. Len(col) /\ (f # 0 => col[f] > t)
    BY FirstValidFacts
  <2>2. Remaining(col, t) = IF f = 0 THEN 0 ELSE Len(col) - f + 1
    BY <1>3 DEF Remaining
  <2> HIDE DEF f
  <2>3. CASE f = 0
    BY <2>2, <2>3
  <2>4. CASE f # 0
    <3>1. f \in 1 .. Len(col) /\ Len(col) - Remaining(col, t) + 1 = f
      BY <2>1, <2>2, <2>4
    <3>2. \A j \in f .. Len(col) : col[f] <= col[j]
      BY <3>1 DEF Sorted
    <3> QED
      BY <1>1, <2>1, <2>2, <2>4, <3>1, <3>2, SMTT(60)
  <2> QED
    BY <2>3, <2>4
<1> QED
  BY <1>2, <1>3

-----------------------------------------------------------------------------
(* The operations on one stack.                                            *)

\* The column of a sorted stack is sorted.
LEMMA ColumnFacts ==
  ASSUME NEW ps, Stamps(ps), NEW M, M \subseteq 1 .. Len(ps), NEW stack, StackOf(ps, stack, M)
  PROVE  /\ Len(stack) \in Nat
         /\ Column(ps, stack) \in Seq(Nat) /\ Len(Column(ps, stack)) = Len(stack)
         /\ Sorted(Column(ps, stack))
<1>1. Len(stack) \in Nat /\ \A i \in 1 .. Len(stack) : stack[i] \in M
  BY DEF StackOf
<1>2. \A i \in 1 .. Len(stack) : ps[stack[i]].ts \in Nat
  BY <1>1 DEF Stamps
<1>3. /\ Column(ps, stack) \in Seq(Nat) /\ Len(Column(ps, stack)) = Len(stack)
      /\ \A i \in 1 .. Len(stack) : Column(ps, stack)[i] = ps[stack[i]].ts
  BY <1>1, <1>2 DEF Column
<1>4. Sorted(Column(ps, stack))
  BY <1>1, <1>3 DEF Sorted, StackOf
<1> QED
  BY <1>1, <1>3, <1>4

\* A stack of packets of M is one of packets of a larger set.
LEMMA StackMono ==
  ASSUME NEW ps, NEW M, NEW N, M \subseteq N, NEW stack, StackOf(ps, stack, M)
  PROVE  StackOf(ps, stack, N)
BY SeqMonotonic DEF StackOf

\* A stack with one packet is sorted.
LEMMA StackOne ==
  ASSUME NEW ps, Stamps(ps), NEW M, M \subseteq 1 .. Len(ps), NEW p \in M
  PROVE  StackOf(ps, <<p>>, M)
<1>1. <<p>> \in Seq(M) /\ Len(<<p>>) = 1 /\ <<p>>[1] = p
  OBVIOUS
<1>2. ps[p].ts <= ps[p].ts
  BY DEF Stamps
<1>3. \A i \in 1 .. Len(<<p>>) : <<p>>[i] = p
  BY <1>1
<1> QED
  BY <1>1, <1>2, <1>3 DEF StackOf

\* parametricAddToStack keeps the order.
LEMMA InsertOK ==
  ASSUME NEW ps, Stamps(ps), NEW M, M \subseteq 1 .. Len(ps), NEW stack, StackOf(ps, stack, M),
         NEW p \in M
  PROVE  StackOf(ps, Insert(ps, stack, p), M)
<1> DEFINE col == Column(ps, stack)
           i   == FirstValid(col, ps[p].ts)
           L   == Len(stack)
<1>0. \A j \in 1 .. L : col[j] = ps[stack[j]].ts
  BY DEF Column
<1>1. L \in Nat /\ col \in Seq(Nat) /\ Len(col) = L /\ Sorted(col)
  BY ColumnFacts
<1>2. stack \in Seq(M) /\ \A j \in 1 .. L : stack[j] \in M
  BY DEF StackOf
<1>3. ps[p].ts \in Nat /\ \A j \in 1 .. L : ps[stack[j]].ts \in Nat
  BY <1>2 DEF Stamps
<1>4. \A j, k \in 1 .. L : j <= k => ps[stack[j]].ts <= ps[stack[k]].ts
  BY DEF StackOf
<1>5. /\ i \in 0 .. L
      /\ i = 0 => \A j \in 1 .. L : ps[stack[j]].ts <= ps[p].ts
      /\ i # 0 => /\ ps[stack[i]].ts > ps[p].ts
                  /\ \A j \in 1 .. L : j < i => ps[stack[j]].ts <= ps[p].ts
  <2> HIDE DEF col
  <2>1. ps[p].ts \in Nat
    BY <1>3
  <2>2. /\ i \in 0 .. Len(col)
        /\ i = 0 => \A j \in 1 .. Len(col) : col[j] <= ps[p].ts
        /\ i # 0 => /\ col[i] > ps[p].ts
                    /\ \A j \in 1 .. Len(col) : j < i => col[j] <= ps[p].ts
    BY <1>1, <2>1, FirstValidFacts
  <2> HIDE DEF i
  <2> QED
    BY <1>0, <1>1, <2>2
<1>6. Insert(ps, stack, p) =
        IF i = 0 THEN Append(stack, p)
        ELSE SubSeq(stack, 1, i - 1) \o <<p>> \o SubSeq(stack, i, L)
  BY DEF Insert
<1> HIDE DEF i, col
<1>7. CASE i = 0
  <2>1. /\ Append(stack, p) \in Seq(M) /\ Len(Append(stack, p)) = L + 1
        /\ \A j \in 1 .. L : Append(stack, p)[j] = stack[j]
        /\ Append(stack, p)[L + 1] = p
    BY <1>2
  <2> QED
    BY <1>1, <1>3, <1>4, <1>5, <1>6, <1>7, <2>1, SMTT(60) DEF StackOf
<1>8. CASE i # 0
  <2> DEFINE a == SubSeq(stack, 1, i - 1)
             b == SubSeq(stack, i, L)
             q == a \o <<p>> \o b
  <2>1. i \in 1 .. L
    BY <1>5, <1>8
  <2>2. /\ a \in Seq(M) /\ Len(a) = i - 1
        /\ \A j \in 1 .. i - 1 : a[j] = stack[j]
    <3>1. \A j \in 1 .. i - 1 : stack[j] \in M
      BY <1>2, <2>1
    <3> QED
      BY <2>1, <3>1, SubSeqProperties
  <2>3. /\ b \in Seq(M) /\ Len(b) = L - i + 1
        /\ \A j \in 1 .. L - i + 1 : b[j] = stack[i + j - 1]
    <3>1. \A j \in i .. L : stack[j] \in M
      BY <1>2, <2>1
    <3>2. i \in Int /\ L \in Int /\ i <= L
      BY <1>1, <2>1
    <3>3. /\ b \in Seq(M) /\ Len(b) = IF i <= L THEN L - i + 1 ELSE 0
          /\ \A j \in 1 .. L - i + 1 : b[j] = stack[i + j - 1]
      BY <3>1, <3>2, SubSeqProperties
    <3> QED
      BY <3>2, <3>3
  <2> HIDE DEF a, b
  <2>4. /\ a \o <<p>> \in Seq(M) /\ Len(a \o <<p>>) = i
        /\ \A j \in 1 .. i : (a \o <<p>>)[j] = IF j <= i - 1 THEN stack[j] ELSE p
    <3>1. <<p>> \in Seq(M) /\ Len(<<p>>) = 1 /\ <<p>>[1] = p
      OBVIOUS
    <3> QED
      BY <2>1, <2>2, <3>1, ConcatProperties
  <2> DEFINE c == a \o <<p>>
  <2> HIDE DEF c
  <2>5. /\ q \in Seq(M) /\ Len(q) = L + 1
        /\ \A j \in 1 .. L + 1 : q[j] = IF j <= i THEN c[j] ELSE b[j - i]
    <3>1. c \in Seq(M) /\ Len(c) = i /\ q = c \o b
      BY <2>4 DEF c
    <3> HIDE DEF q
    <3>2. /\ c \o b \in Seq(M) /\ Len(c \o b) = Len(c) + Len(b)
          /\ \A j \in 1 .. Len(c) + Len(b) :
               (c \o b)[j] = IF j <= Len(c) THEN c[j] ELSE b[j - Len(c)]
      BY <2>3, <3>1, ConcatProperties
    <3>3. Len(c) + Len(b) = L + 1
      BY <1>1, <2>1, <2>3, <3>1
    <3> QED
      BY <3>1, <3>2, <3>3
  <2> HIDE DEF q
  <2>6. \A j \in 1 .. L + 1 : q[j] = IF j < i THEN stack[j] ELSE IF j = i THEN p ELSE stack[j - 1]
    <3> SUFFICES ASSUME NEW j \in 1 .. L + 1
                 PROVE  q[j] = IF j < i THEN stack[j] ELSE IF j = i THEN p ELSE stack[j - 1]
      OBVIOUS
    <3>1. CASE j <= i
      <4>1. j \in 1 .. i /\ q[j] = c[j] /\ c[j] = IF j <= i - 1 THEN stack[j] ELSE p
        BY <2>1, <2>4, <2>5, <3>1 DEF c
      <4>2. j < i <=> j <= i - 1
        BY <2>1
      <4> QED
        BY <2>1, <3>1, <4>1, <4>2
    <3>2. CASE j > i
      <4>1. j - i \in 1 .. L - i + 1 /\ i + (j - i) - 1 = j - 1
        BY <1>1, <2>1, <3>2
      <4>2. q[j] = b[j - i] /\ b[j - i] = stack[i + (j - i) - 1]
        BY <2>1, <2>3, <2>5, <3>2, <4>1
      <4> QED
        BY <2>1, <3>2, <4>1, <4>2
    <3> QED
      BY <2>1, <3>1, <3>2
  <2>7. ASSUME NEW j \in 1 .. L + 1, NEW k \in 1 .. L + 1, j <= k
        PROVE  ps[q[j]].ts <= ps[q[k]].ts
    <3>1. ps[p].ts <= ps[stack[i]].ts
      BY <1>3, <1>5, <1>8, <2>1
    <3>2. CASE k < i
      BY <1>1, <1>4, <2>1, <2>6, <2>7, <3>2
    <3>3. CASE k = i
      <4>1. q[k] = p
        BY <2>1, <2>6, <3>3
      <4>2. CASE j < i
        <5>1. j \in 1 .. L /\ q[j] = stack[j]
          BY <1>1, <2>1, <2>6, <4>2
        <5>2. ps[stack[j]].ts <= ps[p].ts
          BY <1>5, <1>8, <4>2, <5>1
        <5> QED
          BY <4>1, <5>1, <5>2
      <4>3. CASE j = i
        <5>1. q[j] = p
          BY <3>3, <4>1, <4>3
        <5> QED
          BY <1>3, <4>1, <5>1
      <4> QED
        BY <2>1, <2>7, <3>3, <4>2, <4>3
    <3>4. CASE k > i
      <4>1. k - 1 \in i .. L /\ q[k] = stack[k - 1]
        BY <1>1, <2>1, <2>6, <3>4
      <4>2. CASE j < i
        <5>1. j \in 1 .. L /\ j <= k - 1 /\ q[j] = stack[j] /\ k - 1 \in 1 .. L
          BY <1>1, <2>1, <2>6, <4>1, <4>2
        <5> QED
          BY <1>4, <4>1, <5>1
      <4>3. CASE j = i
        <5>1. ps[stack[i]].ts <= ps[stack[k - 1]].ts
          BY <1>1, <1>4, <2>1, <4>1, SMTT(60)
        <5>2. /\ ps[stack[i]].ts \in Nat /\ ps[stack[k - 1]].ts \in Nat
          BY <1>3, <2>1, <4>1, SMTT(60)
        <5>3. q[j] = p
          BY <2>6, <2>7, <4>3
        <5>4. ps[p].ts <= ps[stack[k - 1]].ts
          BY <1>3, <3>1, <5>1, <5>2, SMTT(60)
        <5> QED
          BY <4>1, <5>3, <5>4
      <4>4. CASE j > i
        <5>1. j - 1 \in 1 .. L /\ j - 1 <= k - 1 /\ q[j] = stack[j - 1] /\ k - 1 \in 1 .. L
          BY <1>1, <2>1, <2>6, <2>7, <4>1, <4>4
        <5> QED
          BY <1>4, <4>1, <5>1
      <4> QED
        BY <2>1, <4>2, <4>3, <4>4
    <3> QED
      BY <2>1, <3>2, <3>3, <3>4
  <2>8. StackOf(ps, q, M)
    BY <1>1, <2>5, <2>7 DEF StackOf
  <2>9. Insert(ps, stack, p) = q
    BY <1>6, <1>8 DEF q, a, b
  <2> QED
    BY <2>8, <2>9
<1> QED
  BY <1>7, <1>8

\* The packets of M that are not older than t.
Recent(ps, M, t) == {q \in M : ps[q].ts >= t}

\* removeOldPacketsFromStack keeps a final part, of packets that are not too old.
LEMMA TrimOK ==
  ASSUME NEW ps, Stamps(ps), NEW M, M \subseteq 1 .. Len(ps), NEW stack, StackOf(ps, stack, M),
         NEW ref \in Seq(1 .. Len(ps)), NEW win \in Nat
  PROVE  /\ StackOf(ps, Trim(ps, stack, ref, win), M)
         /\ ref # <<>> => StackOf(ps, Trim(ps, stack, ref, win),
                                  Recent(ps, M, Minus(ps[ref[1]].ts, win)))
<1>1. CASE ref = <<>>
  BY <1>1 DEF Trim
<1>2. CASE ref # <<>>
  <2> DEFINE t   == Minus(ps[ref[1]].ts, win)
             col == Column(ps, stack)
             L   == Len(stack)
             m   == L - Remaining(col, t) + 1
             K   == {q \in M : ps[q].ts >= t}
             s   == SubSeq(stack, m, L)
  <2>1. t \in Nat
    <3>1. ref[1] \in 1 .. Len(ps)
      BY <1>2
    <3>2. ps[ref[1]].ts \in Nat
      BY <3>1 DEF Stamps
    <3> QED
      BY <3>2 DEF Minus
  <2>a. \A j \in 1 .. L : col[j] = ps[stack[j]].ts
    BY DEF Column
  <2>b. L \in Nat /\ col \in Seq(Nat) /\ Len(col) = L /\ Sorted(col)
    BY ColumnFacts
  <2>2. /\ L \in Nat /\ col \in Seq(Nat) /\ Len(col) = L /\ Sorted(col)
        /\ \A j \in 1 .. L : col[j] = ps[stack[j]].ts
    BY <2>a, <2>b, Zenon
  <2>3. Trim(ps, stack, ref, win) = s
    BY <1>2 DEF Trim, RemoveOld
  <2> HIDE DEF t, col
  <2>4. Remaining(col, t) \in 0 .. L /\ \A j \in m .. L : col[j] >= t
    BY <2>1, <2>2, RemainingFacts
  <2>5. m \in 1 .. L + 1
    BY <2>2, <2>4
  <2> HIDE DEF m
  <2>6. \A j \in m .. L : stack[j] \in K
    <3> SUFFICES ASSUME NEW j \in m .. L PROVE stack[j] \in K
      OBVIOUS
    <3>1. j \in 1 .. L
      BY <2>2, <2>5
    <3>2. stack[j] \in M /\ ps[stack[j]].ts >= t
      BY <2>2, <2>4, <3>1, SMTT(60) DEF StackOf
    <3> QED
      BY <3>2
  <2> HIDE DEF K
  <2>7. /\ s \in Seq(K) /\ Len(s) = L - m + 1
        /\ \A j \in 1 .. Len(s) : s[j] = stack[m + j - 1]
    <3>1. m \in Int /\ L \in Int
      BY <2>2, <2>5
    <3>2. /\ s \in Seq(K) /\ Len(s) = IF m <= L THEN L - m + 1 ELSE 0
          /\ \A j \in 1 .. L - m + 1 : s[j] = stack[m + j - 1]
      BY <2>6, <3>1, SubSeqProperties
    <3>3. Len(s) = L - m + 1
      BY <2>5, <3>1, <3>2
    <3> QED
      BY <3>2, <3>3
  <2> HIDE DEF s
  <2>8. ASSUME NEW i \in 1 .. Len(s), NEW j \in 1 .. Len(s), i <= j
        PROVE  ps[s[i]].ts <= ps[s[j]].ts
    <3>1. m + i - 1 \in 1 .. L /\ m + j - 1 \in 1 .. L /\ m + i - 1 <= m + j - 1
      BY <2>2, <2>5, <2>7, <2>8
    <3> QED
      BY <2>7, <3>1 DEF StackOf
  <2>9. StackOf(ps, s, K)
    BY <2>7, <2>8 DEF StackOf
  <2>10. K \subseteq M
    BY DEF K
  <2> QED
    BY <2>3, <2>9, <2>10, StackMono DEF K, t, Recent
<1> QED
  BY <1>1, <1>2

-----------------------------------------------------------------------------
(* Recursive functions: each value is computed from one that comes before. *)

Earlier(r, N) == \A k \in 1 .. N : r[k] \in 0 .. k - 1

\* F[k] takes values for r[k], of D[r[k]], to values for k, of D[k].
Closed(F, N, r, D) == \A k \in 1 .. N : \A d \in D[r[k]] : F[k][d] \in D[k]

Solves(g, N, b, r, F, D) ==
  /\ g = [k \in 0 .. N |-> g[k]]
  /\ \A k \in 0 .. N : g[k] \in D[k] /\ g[k] = IF k = 0 THEN b ELSE F[k][g[r[k]]]

\* A set that contains 0, and k whenever it contains all before k, contains all.
LEMMA PositionInduction ==
  ASSUME NEW N \in Nat, NEW T, 0 \in T,
         \A k \in 1 .. N : (\A j \in 0 .. k - 1 : j \in T) => k \in T
  PROVE  \A k \in 0 .. N : k \in T
<1> DEFINE U == {k \in 0 .. N : k \notin T}
<1> SUFFICES ASSUME U # {} PROVE FALSE
  OBVIOUS
<1>1. U \subseteq Nat
  OBVIOUS
<1>2. PICK m \in U : \A n \in U : m <= n
  BY <1>1, LeastNat
<1>3. m \in 1 .. N
  BY <1>2
<1>4. \A j \in 0 .. m - 1 : j \in T
  BY <1>2, <1>3
<1> QED
  BY <1>2, <1>3, <1>4

\* A function defined by recursion along r exists, so that the equation holds of it.
LEMMA Recursion ==
  ASSUME NEW N \in Nat, NEW D, NEW b \in D[0], NEW r, Earlier(r, N),
         NEW F, Closed(F, N, r, D)
  PROVE  \E g : Solves(g, N, b, r, F, D)
<1> DEFINE T == {n \in 0 .. N : \E g : Solves(g, n, b, r, F, D)}
<1>1. 0 \in T
  <2> DEFINE g == [k \in 0 .. 0 |-> b]
  <2>1. g = [k \in 0 .. 0 |-> g[k]] /\ \A k \in 0 .. 0 : g[k] = b /\ k = 0
    OBVIOUS
  <2>2. Solves(g, 0, b, r, F, D)
    BY <2>1 DEF Solves
  <2> QED
    BY <2>2
<1>2. ASSUME NEW m \in 1 .. N, m - 1 \in T PROVE m \in T
  <2>1. PICK g : Solves(g, m - 1, b, r, F, D)
    BY <1>2
  <2> DEFINE v == F[m][g[r[m]]]
             h == [k \in 0 .. m |-> IF k < m THEN g[k] ELSE v]
  <2>2. r[m] \in 0 .. m - 1
    BY DEF Earlier
  <2>3. g[r[m]] \in D[r[m]]
    BY <2>1, <2>2 DEF Solves
  <2>4. v \in D[m]
    BY <2>3 DEF Closed
  <2>5. /\ h = [k \in 0 .. m |-> h[k]] /\ h[m] = v /\ m # 0
        /\ \A k \in 0 .. m - 1 : h[k] = g[k]
    OBVIOUS
  <2> HIDE DEF h
  <2>6. ASSUME NEW k \in 0 .. m
        PROVE  h[k] \in D[k] /\ h[k] = IF k = 0 THEN b ELSE F[k][h[r[k]]]
    <3>1. CASE k = m
      <4>1. h[r[m]] = g[r[m]]
        BY <2>2, <2>5
      <4> QED
        BY <2>4, <2>5, <3>1, <4>1
    <3>2. CASE k # m
      <4>0. k \in 0 .. m - 1
        BY <3>2
      <4>1. k \in 0 .. m - 1 /\ h[k] = g[k]
        BY <2>5, <4>0
      <4>2. h[k] \in D[k] /\ h[k] = IF k = 0 THEN b ELSE F[k][g[r[k]]]
        BY <2>1, <4>1 DEF Solves
      <4>3. k # 0 => h[r[k]] = g[r[k]]
        <5> SUFFICES ASSUME k # 0 PROVE h[r[k]] = g[r[k]]
          OBVIOUS
        <5>1. k \in 1 .. N
          BY <4>1
        <5>2. r[k] \in 0 .. k - 1
          BY <5>1 DEF Earlier
        <5>3. r[k] \in 0 .. m - 1
          BY <4>1, <5>2
        <5> QED
          BY <2>5, <5>3
      <4> QED
        BY <4>2, <4>3
    <3> QED
      BY <3>1, <3>2
  <2>7. Solves(h, m, b, r, F, D)
    BY <2>5, <2>6 DEF Solves
  <2> QED
    BY <2>7
<1> HIDE DEF T
<1>3. ASSUME NEW m \in 1 .. N, \A j \in 0 .. m - 1 : j \in T PROVE m \in T
  <2>1. m - 1 \in 0 .. m - 1
    OBVIOUS
  <2> QED
    BY <1>2, <1>3, <2>1
<1>4. N \in T
  BY <1>1, <1>3, PositionInduction
<1> QED
  BY <1>4 DEF T

\* The packets are removed one position after another.
RemovedBy(kept, stack, gone) ==
  /\ Without(stack, gone) = kept[Len(stack)]
  /\ kept[0] = <<>>
  /\ \A i \in 1 .. Len(stack) : kept[i] = IF stack[i] \in gone THEN kept[i - 1]
                                          ELSE Append(kept[i - 1], stack[i])

\* Without is what its recursion says.
LEMMA WithoutSteps ==
  ASSUME NEW M, NEW stack \in Seq(M), NEW gone
  PROVE  \E kept : RemovedBy(kept, stack, gone)
<1> DEFINE L == Len(stack)
           Eq(f) == f = [i \in 0 .. L |->
                           IF i = 0 THEN <<>>
                           ELSE IF stack[i] \in gone THEN f[i - 1]
                           ELSE Append(f[i - 1], stack[i])]
           kept == CHOOSE f : Eq(f)
<1>1. Without(stack, gone) = kept[L]
  BY DEF Without
<1>2. L \in Nat /\ \A i \in 1 .. L : stack[i] \in M
  OBVIOUS
<1>3. \E f : Eq(f)
  <2> DEFINE S == Seq(M)
             D == [i \in 0 .. L |-> S]
             r == [i \in 1 .. L |-> i - 1]
             F == [i \in 1 .. L |-> [d \in S |->
                     IF stack[i] \in gone THEN d ELSE Append(d, stack[i])]]
  <2>1. Earlier(r, L) /\ \A k \in 1 .. L : r[k] = k - 1
    BY <1>2 DEF Earlier
  <2>2. \A k \in 1 .. L : \A d \in S :
          F[k][d] = IF stack[k] \in gone THEN d ELSE Append(d, stack[k])
    OBVIOUS
  <2>3. ASSUME NEW k \in 1 .. L, NEW d \in S PROVE F[k][d] \in S
    <3>1. d \in Seq(M) /\ stack[k] \in M
      BY <1>2
    <3>2. Append(d, stack[k]) \in Seq(M)
      BY <3>1
    <3> QED
      BY <2>2, <3>1, <3>2
  <2>4. <<>> \in D[0] /\ \A k \in 0 .. L : D[k] = S
    BY <1>2
  <2> HIDE DEF F, r, D, S
  <2>a. Closed(F, L, r, D)
    BY <1>2, <2>1, <2>3, <2>4 DEF Closed, Earlier
  <2>5. PICK g : Solves(g, L, <<>>, r, F, D)
    BY <1>2, <2>1, <2>4, <2>a, Recursion
  <2>6. ASSUME NEW k \in 0 .. L
        PROVE  g[k] = IF k = 0 THEN <<>>
                      ELSE IF stack[k] \in gone THEN g[k - 1] ELSE Append(g[k - 1], stack[k])
    <3>1. CASE k = 0
      BY <2>5, <3>1 DEF Solves
    <3>2. CASE k # 0
      <4>1. k \in 1 .. L /\ k - 1 \in 0 .. L /\ r[k] = k - 1
        BY <1>2, <2>1, <3>2
      <4>2. g[k - 1] \in S /\ g[k] = F[k][g[k - 1]]
        BY <2>4, <2>5, <3>2, <4>1 DEF Solves
      <4> QED
        BY <2>2, <3>2, <4>1, <4>2
    <3> QED
      BY <3>1, <3>2
  <2>7. g = [k \in 0 .. L |-> g[k]]
    BY <2>5 DEF Solves
  <2> QED
    BY <2>6, <2>7
<1>4. Eq(kept)
  <2> HIDE DEF Eq
  <2> QED
    BY <1>3
<1> HIDE DEF kept, L
<1>5. kept[0] = <<>>
  BY <1>2, <1>4
<1>6. \A i \in 1 .. L : kept[i] = IF stack[i] \in gone THEN kept[i - 1]
                                  ELSE Append(kept[i - 1], stack[i])
  <2> SUFFICES ASSUME NEW i \in 1 .. L
               PROVE  kept[i] = IF stack[i] \in gone THEN kept[i - 1]
                                ELSE Append(kept[i - 1], stack[i])
    OBVIOUS
  <2>1. i \in 0 .. L /\ i # 0
    BY <1>2
  <2> QED
    BY <1>4, <2>1
<1> QED
  BY <1>1, <1>5, <1>6 DEF RemovedBy, L

\* Removing packets from a stack keeps the order of the others.
LEMMA WithoutOK ==
  ASSUME NEW ps, Stamps(ps), NEW M, M \subseteq 1 .. Len(ps), NEW stack, StackOf(ps, stack, M),
         NEW gone
  PROVE  StackOf(ps, Without(stack, gone), M \ gone)
<1> DEFINE L == Len(stack)
           K == M \ gone
<1>2. stack \in Seq(M) /\ L \in Nat /\ \A i \in 1 .. L : stack[i] \in M
  BY DEF StackOf
<1>3. PICK kept : RemovedBy(kept, stack, gone)
  BY <1>2, WithoutSteps
<1>1. Without(stack, gone) = kept[L]
  BY <1>3 DEF RemovedBy
<1> HIDE DEF L
<1>5. kept[0] = <<>>
  BY <1>3 DEF RemovedBy
<1>6. \A i \in 1 .. L : kept[i] = IF stack[i] \in gone THEN kept[i - 1]
                                  ELSE Append(kept[i - 1], stack[i])
  BY <1>3 DEF RemovedBy, L
<1> DEFINE Late(i) == \A j \in 1 .. Len(kept[i]) : \A m \in 1 .. L :
                        i <= m => ps[kept[i][j]].ts <= ps[stack[m]].ts
           T == {i \in 0 .. L : StackOf(ps, kept[i], K) /\ Late(i)}
<1>7. 0 \in T
  <2>1. <<>> \in Seq(K) /\ Len(<<>>) = 0 /\ 0 \in 0 .. L
    BY <1>2
  <2>2. StackOf(ps, kept[0], K)
    BY <1>5, <2>1 DEF StackOf
  <2>3. Late(0)
    BY <1>5, <2>1
  <2> QED
    BY <2>1, <2>2, <2>3
<1>8. ASSUME NEW i \in 1 .. L, i - 1 \in T PROVE i \in T
  <2> DEFINE s == kept[i - 1]
             q == kept[i]
  <2>1. i \in 0 .. L
    BY <1>2
  <2>2. StackOf(ps, s, K) /\ Late(i - 1)
    BY <1>8
  <2>3. CASE stack[i] \in gone
    <3>1. kept[i] = kept[i - 1]
      BY <1>6, <2>3
    <3>2. Late(i)
      BY <1>2, <2>2, <3>1
    <3> QED
      BY <2>1, <2>2, <3>1, <3>2
  <2>4. CASE stack[i] \notin gone
    <3>1. q = Append(s, stack[i]) /\ stack[i] \in K /\ s \in Seq(K)
      BY <1>2, <1>6, <2>2, <2>4 DEF StackOf
    <3>2. \A j \in 1 .. Len(s) : \A m \in 1 .. L : i <= m => ps[s[j]].ts <= ps[stack[m]].ts
      BY <1>2, <2>2
    <3>3. \A m \in 1 .. L : i <= m => ps[stack[i]].ts <= ps[stack[m]].ts
      BY DEF StackOf, L
    <3>4. \A j, m \in 1 .. Len(s) : j <= m => ps[s[j]].ts <= ps[s[m]].ts
      BY <2>2 DEF StackOf
    <3>5. i <= i /\ ps[stack[i]].ts \in Nat
      <4>1. stack[i] \in 1 .. Len(ps)
        BY <1>2
      <4> QED
        BY <4>1 DEF Stamps
    <3> HIDE DEF s, q
    <3>6. /\ q \in Seq(K) /\ Len(q) = Len(s) + 1 /\ Len(s) \in Nat
          /\ \A j \in 1 .. Len(s) : q[j] = s[j]
          /\ q[Len(s) + 1] = stack[i]
      BY <3>1
    <3>7. StackOf(ps, q, K)
      BY <3>2, <3>4, <3>5, <3>6, SMTT(60) DEF StackOf
    <3>8. \A j \in 1 .. Len(q) : \A m \in 1 .. L : i <= m => ps[q[j]].ts <= ps[stack[m]].ts
      BY <3>2, <3>3, <3>6
    <3> QED
      BY <2>1, <3>7, <3>8 DEF q
  <2> QED
    BY <2>3, <2>4
<1>9. L \in T
  <2> HIDE DEF T
  <2>1. ASSUME NEW k \in 1 .. L, \A j \in 0 .. k - 1 : j \in T PROVE k \in T
    <3>1. k - 1 \in 0 .. k - 1
      BY <1>2
    <3> QED
      BY <1>8, <2>1, <3>1
  <2>2. \A k \in 0 .. L : k \in T
    BY <1>2, <1>7, <2>1, PositionInduction
  <2> QED
    BY <1>2, <2>2
<1> QED
  BY <1>1, <1>9

-----------------------------------------------------------------------------
(* clearStacks.                                                            *)

\* Every stack of rec is sorted and holds packets of M.
StacksIn(ps, rec, X, M) ==
  \A k \in X : M[k] \subseteq 1 .. Len(ps) /\ StackOf(ps, rec[k], M[k])

StacksOf(ps, rec, M) == StacksIn(ps, rec, States, M)

\* What RulesAssumption says of the rule of a behaviour.
LEMMA RuleFacts ==
  ASSUME rule \in Rules
  PROVE  /\ NumStates \in Nat /\ NumStates - 1 \in Nat /\ States = 0 .. NumStates - 1
         /\ NumStates - 1 = Len(rule.refersTo)
         /\ Earlier(rule.refersTo, NumStates - 1)
         /\ \A k \in 1 .. NumStates - 1 :
              /\ rule.refersTo[k] \in 0 .. k - 1 /\ rule.refersTo[k] \in States
              /\ rule.win[k] \in Nat
              /\ rule.kind[k] \in {"each", "first", "last"}
         /\ \A n \in Negs : rule.negs[n].upperId \in States /\ NegWindow(rule.negs[n]) \in Nat
         /\ \A a \in Aggs : rule.aggs[a].upperId \in States /\ rule.aggs[a].lowerTime \in Nat
<1>1. RuleOK(rule)
  BY RulesAssumption
<1>2. /\ Len(rule.refersTo) \in Nat /\ NumStates - 1 = Len(rule.refersTo)
      /\ NumStates \in Nat
  BY <1>1 DEF RuleOK, NumStates
<1>3. \A k \in 1 .. NumStates - 1 :
        /\ rule.refersTo[k] \in 0 .. k - 1 /\ rule.refersTo[k] \in States
        /\ rule.win[k] \in Nat
        /\ rule.kind[k] \in {"each", "first", "last"}
  BY <1>1, <1>2 DEF RuleOK, States
<1>4. \A n \in Negs : rule.negs[n].upperId \in States /\ NegWindow(rule.negs[n]) \in Nat
  <2> SUFFICES ASSUME NEW n \in Negs
               PROVE  rule.negs[n].upperId \in States /\ NegWindow(rule.negs[n]) \in Nat
    OBVIOUS
  <2>1. /\ rule.negs[n].upperId \in 0 .. Len(rule.refersTo)
        /\ rule.negs[n].lowerId \in {-1} \cup 1 .. Len(rule.refersTo)
        /\ rule.negs[n].lowerTime \in Nat
    BY <1>1 DEF RuleOK, BoundsOK, Negs
  <2> QED
    BY <1>2, <1>3, <2>1 DEF States, NegWindow
<1>5. \A a \in Aggs : rule.aggs[a].upperId \in States /\ rule.aggs[a].lowerTime \in Nat
  BY <1>1, <1>2 DEF RuleOK, BoundsOK, Aggs, States
<1> QED
  BY <1>2, <1>3, <1>4, <1>5 DEF Earlier, States

\* Every stack of c is cut after the one its state refers to.
IsCleared(ps, rec, c) ==
  /\ c = [k \in States |-> c[k]]
  /\ c[0] = rec[0]
  /\ \A k \in States \ {0} : c[k] = Trim(ps, rec[k], c[rule.refersTo[k]], rule.win[k])

\* clearStacks trims each stack by the one its state refers to, and keeps the order.
LEMMA ClearedStatesOK ==
  ASSUME rule \in Rules, NEW ps, Stamps(ps), NEW M, NEW rec, StacksOf(ps, rec, M)
  PROVE  /\ IsCleared(ps, rec, ClearedStates(ps, rec))
         /\ StacksOf(ps, ClearedStates(ps, rec), M)
<1> DEFINE N == NumStates - 1
           Q == Seq(1 .. Len(ps))
           Eq(f) == f = [k \in States |->
                           IF k = 0 THEN rec[0]
                           ELSE Trim(ps, rec[k], f[rule.refersTo[k]], rule.win[k])]
           c == CHOOSE f : Eq(f)
<1>1. ClearedStates(ps, rec) = c
  BY DEF ClearedStates
<1>2. /\ N \in Nat /\ States = 0 .. N /\ Earlier(rule.refersTo, N)
      /\ \A k \in 1 .. N : /\ rule.refersTo[k] \in 0 .. k - 1 /\ rule.win[k] \in Nat
                            /\ rule.refersTo[k] \in States
  BY RuleFacts
<1> HIDE DEF N
<1>3. \A k \in 0 .. N : M[k] \subseteq 1 .. Len(ps) /\ StackOf(ps, rec[k], M[k])
  BY <1>2 DEF StacksOf, StacksIn
<1>4. ASSUME NEW k \in 0 .. N, NEW s, StackOf(ps, s, M[k]) PROVE s \in Q
  BY <1>3, <1>4, SeqMonotonic DEF StackOf
<1>5. ASSUME NEW k \in 1 .. N, NEW d \in Q
      PROVE  StackOf(ps, Trim(ps, rec[k], d, rule.win[k]), M[k])
  <2>1. k \in 0 .. N /\ rule.win[k] \in Nat
    BY <1>2
  <2>2. M[k] \subseteq 1 .. Len(ps) /\ StackOf(ps, rec[k], M[k])
    BY <1>3, <2>1
  <2> QED
    BY <2>1, <2>2, TrimOK
<1> HIDE DEF Q
<1>6. \E f : Eq(f)
  <2> DEFINE D == [k \in 0 .. N |-> Q]
             F == [k \in 1 .. N |-> [d \in Q |-> Trim(ps, rec[k], d, rule.win[k])]]
  <2>1. \A k \in 1 .. N : \A d \in Q : F[k][d] = Trim(ps, rec[k], d, rule.win[k])
    OBVIOUS
  <2>2. ASSUME NEW k \in 1 .. N, NEW d \in Q PROVE F[k][d] \in Q
    <3>1. k \in 0 .. N
      BY <1>2
    <3> QED
      BY <1>4, <1>5, <2>1, <3>1
  <2>3. rec[0] \in D[0] /\ \A k \in 0 .. N : D[k] = Q
    BY <1>2, <1>3, <1>4
  <2> HIDE DEF D, F
  <2>4. Closed(F, N, rule.refersTo, D)
    <3> SUFFICES ASSUME NEW k \in 1 .. N, NEW d \in D[rule.refersTo[k]]
                 PROVE  F[k][d] \in D[k]
      BY DEF Closed
    <3>1. rule.refersTo[k] \in 0 .. N /\ k \in 0 .. N
      BY <1>2
    <3> QED
      BY <2>2, <2>3, <3>1
  <2>5. PICK g : Solves(g, N, rec[0], rule.refersTo, F, D)
    BY <1>2, <2>3, <2>4, Recursion
  <2>6. ASSUME NEW k \in 0 .. N
        PROVE  g[k] = IF k = 0 THEN rec[0]
                      ELSE Trim(ps, rec[k], g[rule.refersTo[k]], rule.win[k])
    <3>1. g[k] = IF k = 0 THEN rec[0] ELSE F[k][g[rule.refersTo[k]]]
      BY <2>5 DEF Solves
    <3>2. k # 0 => k \in 1 .. N /\ rule.refersTo[k] \in 0 .. N
      BY <1>2
    <3>3. k # 0 => g[rule.refersTo[k]] \in Q
      BY <2>3, <2>5, <3>2 DEF Solves
    <3> QED
      BY <2>1, <3>1, <3>2, <3>3
  <2>7. g = [k \in 0 .. N |-> g[k]]
    BY <2>5 DEF Solves
  <2>8. Eq(g)
    BY <1>2, <2>6, <2>7
  <2> QED
    BY <2>8
<1>7. Eq(c)
  <2> HIDE DEF Eq
  <2> QED
    BY <1>6
<1> HIDE DEF c
<1>8. /\ c = [k \in States |-> c[k]]
      /\ c[0] = rec[0]
  BY <1>2, <1>7
<1>9. \A k \in 1 .. N : c[k] = Trim(ps, rec[k], c[rule.refersTo[k]], rule.win[k])
  <2> SUFFICES ASSUME NEW k \in 1 .. N
               PROVE  c[k] = Trim(ps, rec[k], c[rule.refersTo[k]], rule.win[k])
    OBVIOUS
  <2>1. k \in States /\ k # 0
    BY <1>2
  <2> QED
    BY <1>7, <2>1
<1> HIDE DEF Eq
<1>10. \A k \in 0 .. N : StackOf(ps, c[k], M[k])
  <2> DEFINE T == {k \in 0 .. N : StackOf(ps, c[k], M[k])}
  <2>1. 0 \in T
    BY <1>2, <1>3, <1>8
  <2>2. ASSUME NEW k \in 1 .. N, \A j \in 0 .. k - 1 : j \in T PROVE k \in T
    <3>1. rule.refersTo[k] \in 0 .. k - 1 /\ rule.refersTo[k] \in 0 .. N /\ k \in 0 .. N
      BY <1>2
    <3>2. StackOf(ps, c[rule.refersTo[k]], M[rule.refersTo[k]])
      BY <2>2, <3>1
    <3>3. c[rule.refersTo[k]] \in Q
      BY <1>4, <3>1, <3>2
    <3> QED
      BY <1>5, <1>9, <3>1, <3>3
  <2> HIDE DEF T
  <2>3. \A k \in 0 .. N : k \in T
    BY <1>2, <2>1, <2>2, PositionInduction
  <2> QED
    BY <2>3 DEF T
<1>11. StacksOf(ps, c, M)
  BY <1>2, <1>3, <1>10 DEF StacksOf, StacksIn
<1>12. \A k \in States \ {0} : k \in 1 .. N
  BY <1>2
<1> QED
  BY <1>1, <1>8, <1>9, <1>11, <1>12 DEF IsCleared

-----------------------------------------------------------------------------
(* getPartialResults.                                                      *)

\* pe is a choice of packets for states 0 .. k, those of M and in their windows.
Partial(ps, p, M, k, pe) ==
  /\ pe \in Seq(1 .. Len(ps)) /\ Len(pe) = k + 1 /\ pe[1] = p
  /\ \A m \in 1 .. k :
       /\ pe[m + 1] \in M[m]
       /\ InWindow(ps, pe[m + 1], pe[rule.refersTo[m] + 1], rule.win[m])

\* getWinEvents returns packets of the stack, inside the window.
LEMMA WinEventsOK ==
  ASSUME rule \in Rules, NEW ps, Stamps(ps), NEW p, NEW M, NEW rec, StacksOf(ps, rec, M),
         NEW recN, NEW k \in 1 .. NumStates - 1, NEW pe, Partial(ps, p, M, k - 1, pe),
         NEW e \in WinEvents(ps, rec, recN, k, pe)
  PROVE  Partial(ps, p, M, k, e)
<1> DEFINE stack  == rec[k]
           times  == Column(ps, stack)
           ref    == rule.refersTo[k]
           tsUp   == ps[pe[ref + 1]].ts
           first  == FirstValid(times, Minus(tsUp, rule.win[k]))
           last   == LastValid(times, tsUp, first)
           usable == {i \in first .. last :
                        /\ CheckParameters(ps, stack[i], pe, rule.branch[k])
                        /\ ~Invalidated(ps, recN, k, Append(pe, stack[i]))}
<1>1. /\ NumStates - 1 \in Nat /\ k \in States
      /\ ref \in 0 .. k - 1 /\ rule.win[k] \in Nat
      /\ rule.kind[k] \in {"each", "first", "last"}
      /\ \A m \in 1 .. k : rule.refersTo[m] \in 0 .. m - 1
  BY RuleFacts
<1>2. M[k] \subseteq 1 .. Len(ps) /\ StackOf(ps, stack, M[k])
  BY <1>1 DEF StacksOf, StacksIn
<1>3. /\ Len(stack) \in Nat /\ times \in Seq(Nat) /\ Len(times) = Len(stack)
      /\ Sorted(times)
  BY <1>2, ColumnFacts
<1>4. \A i \in 1 .. Len(stack) : times[i] = ps[stack[i]].ts
  BY DEF Column
<1>5. pe \in Seq(1 .. Len(ps)) /\ Len(pe) = k /\ pe[1] = p
  BY <1>1 DEF Partial
<1>6. tsUp \in Nat
  <2>1. ref + 1 \in 1 .. Len(pe)
    BY <1>1, <1>5, SMTT(60)
  <2>2. pe[ref + 1] \in 1 .. Len(ps)
    BY <1>5, <2>1, SMTT(60)
  <2> QED
    BY <2>2 DEF Stamps
<1>7. Minus(tsUp, rule.win[k]) \in Nat
  BY <1>1, <1>6 DEF Minus
<1>8. first # 0 /\ \E i \in Choose(rule.kind[k], usable, first, last) : e = Append(pe, stack[i])
  BY SMTT(60) DEF WinEvents
<1>9. Choose(rule.kind[k], usable, first, last) \subseteq usable
  BY <1>1, SMTT(60) DEF Choose
<1> HIDE DEF usable
<1>10. PICK i \in usable : e = Append(pe, stack[i])
  BY <1>8, <1>9
<1>11. i \in first .. last
  BY DEF usable
<1> DEFINE low == Minus(tsUp, rule.win[k])
<1> HIDE DEF times, tsUp, low, last, first
<1>12. first \in 1 .. Len(times) /\ times[first] > low
  <2>1. first \in 0 .. Len(times) /\ (first # 0 => times[first] > low)
    BY <1>3, <1>7, FirstValidFacts DEF first, low
  <2> QED
    BY <1>3, <1>8, <2>1
<1>13. last \in 1 .. Len(times) /\ times[last] < tsUp
  <2>1. last \in 0 .. Len(times) /\ (last # 0 => times[last] < tsUp)
    BY <1>3, <1>6, <1>12, LastValidFacts DEF last
  <2> QED
    BY <1>3, <1>11, <1>12, <2>1
<1>14. i \in 1 .. Len(times) /\ first <= i /\ i <= last
  BY <1>3, <1>11, <1>12, <1>13
<1>15. times[first] <= times[i] /\ times[i] <= times[last]
  BY <1>3, <1>12, <1>13, <1>14 DEF Sorted
<1>16. times[i] > low /\ times[i] < tsUp
  <2>1. times[first] \in Nat /\ times[i] \in Nat /\ times[last] \in Nat /\ low \in Nat
    BY <1>3, <1>7, <1>12, <1>13, <1>14, SMTT(60) DEF low
  <2> QED
    BY <1>6, <1>12, <1>13, <1>15, <2>1, SMTT(60)
<1> DEFINE q == stack[i]
<1>17. q \in M[k] /\ q \in 1 .. Len(ps)
  BY <1>2, <1>3, <1>14, SMTT(60) DEF StackOf
<1>18. InWindow(ps, q, pe[ref + 1], rule.win[k])
  BY <1>3, <1>4, <1>14, <1>16 DEF InWindow, tsUp, low
<1> HIDE DEF q, stack
<1>19. /\ e \in Seq(1 .. Len(ps)) /\ Len(e) = k + 1 /\ e[k + 1] = q
       /\ \A j \in 1 .. k : e[j] = pe[j]
  BY <1>5, <1>10, <1>17 DEF q
<1>20. ASSUME NEW m \in 1 .. k
       PROVE  /\ e[m + 1] \in M[m]
              /\ InWindow(ps, e[m + 1], e[rule.refersTo[m] + 1], rule.win[m])
  <2>1. rule.refersTo[m] + 1 \in 1 .. k
    BY <1>1
  <2>2. e[rule.refersTo[m] + 1] = pe[rule.refersTo[m] + 1]
    BY <1>19, <2>1
  <2>3. CASE m = k
    BY <1>17, <1>18, <1>19, <2>2, <2>3
  <2>4. CASE m # k
    <3>1. m \in 1 .. k - 1 /\ m + 1 \in 1 .. k
      BY <1>1, <2>4
    <3>2. e[m + 1] = pe[m + 1]
      BY <1>19, <3>1
    <3> QED
      BY <2>2, <3>1, <3>2 DEF Partial
  <2> QED
    BY <2>3, <2>4
<1>21. e[1] = p
  BY <1>1, <1>5, <1>19
<1> QED
  BY <1>19, <1>20, <1>21 DEF Partial

\* upTo[k] are the partial events for states 0 .. k that getPartialResults lists.
ListedBy(upTo, ps, rec, recN, p) ==
  /\ PartialResults(ps, rec, recN, p) = upTo[NumStates - 1]
  /\ upTo[0] = IF Invalidated(ps, recN, 0, <<p>>) THEN {} ELSE {<<p>>}
  /\ \A k \in 1 .. NumStates - 1 :
       upTo[k] = UNION {WinEvents(ps, rec, recN, k, pe) : pe \in upTo[k - 1]}

PartialUpTo(upTo, ps, p, M) ==
  \A k \in 0 .. NumStates - 1 : \A pe \in upTo[k] : Partial(ps, p, M, k, pe)

\* The recursive function of getPartialResults has a value at every state.
LEMMA PartialSteps ==
  ASSUME rule \in Rules, NEW ps, Stamps(ps), NEW p \in 1 .. Len(ps), NEW M, NEW rec,
         StacksOf(ps, rec, M), NEW recN
  PROVE  \E upTo : ListedBy(upTo, ps, rec, recN, p) /\ PartialUpTo(upTo, ps, p, M)
<1> DEFINE N == NumStates - 1
           b == IF Invalidated(ps, recN, 0, <<p>>) THEN {} ELSE {<<p>>}
           Step(k, d) == UNION {WinEvents(ps, rec, recN, k, pe) : pe \in d}
           Eq(f) == f = [k \in States |-> IF k = 0 THEN b ELSE Step(k, f[k - 1])]
           upTo == CHOOSE f : Eq(f)
           S(k) == SUBSET {pe \in Seq(1 .. Len(ps)) : Partial(ps, p, M, k, pe)}
<1>1. PartialResults(ps, rec, recN, p) = upTo[N]
  BY DEF PartialResults
<1>2. N \in Nat /\ States = 0 .. N
  BY RuleFacts
<1>3. b \in S(0)
  <2>1. <<p>> \in Seq(1 .. Len(ps)) /\ Len(<<p>>) = 1 /\ <<p>>[1] = p
    OBVIOUS
  <2>2. Partial(ps, p, M, 0, <<p>>)
    BY <2>1 DEF Partial
  <2> QED
    BY <2>1, <2>2
<1>4. ASSUME NEW k \in 1 .. N, NEW d \in S(k - 1) PROVE Step(k, d) \in S(k)
  <2> SUFFICES ASSUME NEW pe \in d, NEW e \in WinEvents(ps, rec, recN, k, pe)
               PROVE  e \in Seq(1 .. Len(ps)) /\ Partial(ps, p, M, k, e)
    OBVIOUS
  <2>1. Partial(ps, p, M, k - 1, pe)
    OBVIOUS
  <2>2. Partial(ps, p, M, k, e)
    BY <2>1, WinEventsOK
  <2> QED
    BY <2>2 DEF Partial
<1> HIDE DEF N, b, Step
<1>5. \E f : Eq(f)
  <2> DEFINE D == [k \in 0 .. N |-> S(k)]
             r == [k \in 1 .. N |-> k - 1]
             F == [k \in 1 .. N |-> [d \in S(k - 1) |-> Step(k, d)]]
  <2> HIDE DEF S
  <2>1. Earlier(r, N) /\ \A k \in 1 .. N : r[k] = k - 1
    BY <1>2 DEF Earlier
  <2>2. \A k \in 1 .. N : \A d \in S(k - 1) : F[k][d] = Step(k, d)
    OBVIOUS
  <2>3. \A k \in 0 .. N : D[k] = S(k)
    OBVIOUS
  <2> HIDE DEF D, r, F
  <2>4. ASSUME NEW k \in 1 .. N, NEW d \in D[r[k]] PROVE F[k][d] \in D[k]
    <3>1. k \in 0 .. N /\ k - 1 \in 0 .. N /\ r[k] = k - 1
      BY <1>2, <2>1
    <3>2. d \in S(k - 1)
      BY <2>3, <3>1
    <3>3. F[k][d] = Step(k, d) /\ Step(k, d) \in S(k)
      BY <1>4, <2>2, <3>2
    <3> QED
      BY <2>3, <3>1, <3>3
  <2>5. Closed(F, N, r, D)
    BY <2>4 DEF Closed
  <2>6. b \in D[0]
    BY <1>2, <1>3, <2>3
  <2>7. PICK g : Solves(g, N, b, r, F, D)
    BY <1>2, <2>1, <2>5, <2>6, Recursion
  <2>8. ASSUME NEW k \in 0 .. N
        PROVE  g[k] = IF k = 0 THEN b ELSE Step(k, g[k - 1])
    <3>1. g[k] = IF k = 0 THEN b ELSE F[k][g[r[k]]]
      BY <2>7 DEF Solves
    <3>2. k # 0 => k \in 1 .. N /\ k - 1 \in 0 .. N /\ r[k] = k - 1
      BY <1>2, <2>1
    <3>3. k # 0 => g[k - 1] \in S(k - 1)
      BY <2>3, <2>7, <3>2 DEF Solves
    <3> QED
      BY <2>2, <3>1, <3>2, <3>3
  <2>9. g = [k \in 0 .. N |-> g[k]]
    BY <2>7 DEF Solves
  <2>10. Eq(g)
    BY <1>2, <2>8, <2>9
  <2> QED
    BY <2>10
<1>6. Eq(upTo)
  <2> HIDE DEF Eq
  <2> QED
    BY <1>5
<1> HIDE DEF upTo
<1>7. upTo[0] = b /\ \A k \in 1 .. N : upTo[k] = Step(k, upTo[k - 1])
  <2>1. 0 \in States /\ \A k \in 1 .. N : k \in States /\ k # 0
    BY <1>2
  <2> QED
    BY <1>6, <2>1
<1> HIDE DEF Eq, S
<1>8. \A k \in 0 .. N : upTo[k] \in S(k)
  <2> DEFINE T == {k \in 0 .. N : upTo[k] \in S(k)}
  <2>1. 0 \in T
    BY <1>2, <1>3, <1>7
  <2>2. ASSUME NEW k \in 1 .. N, \A j \in 0 .. k - 1 : j \in T PROVE k \in T
    <3>1. k - 1 \in 0 .. k - 1 /\ k \in 0 .. N
      BY <1>2
    <3>2. upTo[k - 1] \in S(k - 1)
      BY <2>2, <3>1
    <3>3. upTo[k] \in S(k)
      BY <1>4, <1>7, <3>2
    <3> QED
      BY <3>1, <3>3
  <2> HIDE DEF T
  <2>3. \A k \in 0 .. N : k \in T
    BY <1>2, <2>1, <2>2, PositionInduction
  <2> QED
    BY <2>3 DEF T
<1>9. ListedBy(upTo, ps, rec, recN, p)
  BY <1>1, <1>7 DEF ListedBy, N, b, Step
<1>10. PartialUpTo(upTo, ps, p, M)
  BY <1>8 DEF PartialUpTo, S, N
<1> QED
  BY <1>9, <1>10

\* getPartialResults: one such packet for every state.
LEMMA PartialResultsOK ==
  ASSUME rule \in Rules, NEW ps, Stamps(ps), NEW p \in 1 .. Len(ps), NEW M, NEW rec,
         StacksOf(ps, rec, M), NEW recN
  PROVE  \A pe \in PartialResults(ps, rec, recN, p) : Partial(ps, p, M, NumStates - 1, pe)
<1>1. PICK upTo : ListedBy(upTo, ps, rec, recN, p) /\ PartialUpTo(upTo, ps, p, M)
  BY PartialSteps
<1>2. NumStates - 1 \in 0 .. NumStates - 1
  BY RuleFacts
<1> QED
  BY <1>1, <1>2 DEF ListedBy, PartialUpTo

-----------------------------------------------------------------------------
(* One packet.                                                             *)

Packet == [ts : Nat, states : SUBSET States, negs : SUBSET Negs, aggs : SUBSET Aggs,
           content : Contents(rule)]

\* For each state the packets that match it and were not used up.
Free(ps, used) == [k \in States |-> {q \in 1 .. Len(ps) : Available(ps, used, q, k)}]

\* All packets, for each negation or aggregate.
All(ps, X) == [n \in X |-> 1 .. Len(ps)]

\* The inductive invariant.
StackInv ==
  /\ TypeOK
  /\ pkts \in Seq(Packet)
  /\ StacksOf(pkts, received, Free(pkts, consumed))
  /\ StacksIn(pkts, recNegs, Negs, All(pkts, Negs))
  /\ StacksIn(pkts, recAggs, Aggs, All(pkts, Aggs))

\* The addTo operations keep the stacks as they should be.
LEMMA AddToOK ==
  ASSUME NEW ps, Stamps(ps), NEW X, NEW f, DOMAIN f = X, NEW M, StacksIn(ps, f, X, M),
         NEW ids, NEW p, \A k \in X : k \in ids => p \in M[k]
  PROVE  DOMAIN AddTo(ps, f, ids, p) = X /\ StacksIn(ps, AddTo(ps, f, ids, p), X, M)
<1>1. DOMAIN AddTo(ps, f, ids, p) = X
  BY DEF AddTo
<1>2. ASSUME NEW k \in X
      PROVE  M[k] \subseteq 1 .. Len(ps) /\ StackOf(ps, AddTo(ps, f, ids, p)[k], M[k])
  <2>1. M[k] \subseteq 1 .. Len(ps) /\ StackOf(ps, f[k], M[k])
    BY DEF StacksIn
  <2>2. CASE k \in ids
    <3>1. AddTo(ps, f, ids, p)[k] = Insert(ps, f[k], p)
      BY <2>2 DEF AddTo
    <3>2. StackOf(ps, Insert(ps, f[k], p), M[k])
      BY <2>1, <2>2, InsertOK
    <3> QED
      BY <2>1, <3>1, <3>2
  <2>3. CASE k \notin ids
    <3>1. AddTo(ps, f, ids, p)[k] = f[k]
      BY <2>3 DEF AddTo
    <3> QED
      BY <2>1, <3>1
  <2> QED
    BY <2>2, <2>3
<1> QED
  BY <1>1, <1>2 DEF StacksIn

\* A packet more changes nothing for the stacks that do not hold it.
LEMMA StackGrow ==
  ASSUME NEW ps, NEW qs, Len(ps) \in Nat, Len(qs) = Len(ps) + 1,
         \A q \in 1 .. Len(ps) : qs[q] = ps[q],
         NEW M, M \subseteq 1 .. Len(ps), NEW N, M \subseteq N, NEW stack, StackOf(ps, stack, M)
  PROVE  StackOf(qs, stack, N)
<1>0. stack \in Seq(M) /\ \A i \in 1 .. Len(stack) : stack[i] \in M
  BY DEF StackOf
<1>1. stack \in Seq(M) /\ \A i \in 1 .. Len(stack) : stack[i] \in 1 .. Len(ps)
  BY <1>0
<1>2. \A i \in 1 .. Len(stack) : qs[stack[i]] = ps[stack[i]]
  BY <1>1
<1>3. StackOf(qs, stack, M)
  BY <1>1, <1>2 DEF StackOf
<1> QED
  BY <1>3, StackMono

\* The packet that arrives, and those that were there before.
LEMMA ArrivalFacts ==
  ASSUME StackInv, NEW pkt \in Arrivals, NEW ps, ps = Append(pkts, pkt)
  PROVE  /\ pkt \in Packet /\ ps \in Seq(Packet) /\ Stamps(ps)
         /\ Len(pkts) \in Nat /\ Len(ps) = Len(pkts) + 1 /\ ps[Len(ps)] = pkt
         /\ \A q \in 1 .. Len(pkts) : ps[q] = pkts[q]
         /\ Len(ps) \in 1 .. Len(ps) /\ Len(ps) \notin 1 .. Len(pkts)
<1>1. pkts \in Seq(Packet)
  BY DEF StackInv
<1>2. pkt \in Packet
  <2>1. pkt \in [ts : 1 .. MaxPkts * MaxStep, states : SUBSET States, negs : SUBSET Negs,
                 aggs : SUBSET Aggs, content : Contents(rule)]
    BY DEF Arrivals
  <2>2. 1 .. MaxPkts * MaxStep \subseteq Nat
    BY BoundsAssumption
  <2> QED
    BY <2>1, <2>2 DEF Packet
<1>3. /\ ps \in Seq(Packet) /\ Len(pkts) \in Nat /\ Len(ps) = Len(pkts) + 1
      /\ ps[Len(pkts) + 1] = pkt
      /\ \A q \in 1 .. Len(pkts) : ps[q] = pkts[q]
  BY <1>1, <1>2
<1>4. Stamps(ps)
  <2>1. \A q \in 1 .. Len(ps) : ps[q] \in Packet
    BY <1>3
  <2> QED
    BY <1>3, <2>1 DEF Stamps, Packet
<1> QED
  BY <1>2, <1>3, <1>4

\* The stacks after the packet was added to them.
LEMMA FilledOK ==
  ASSUME StackInv, NEW pkt \in Arrivals, NEW ps, ps = Append(pkts, pkt)
  PROVE  LET p    == Len(ps)
             recN == AddTo(ps, recNegs, pkt.negs, p)
             recA == AddTo(ps, recAggs, pkt.aggs, p)
             rec  == AddTo(ps, received, pkt.states \ {0}, p)
         IN  /\ DOMAIN rec = States /\ rec[0] = <<>>
             /\ StacksOf(ps, rec, Free(ps, consumed))
             /\ DOMAIN recN = Negs /\ StacksIn(ps, recN, Negs, All(ps, Negs))
             /\ DOMAIN recA = Aggs /\ StacksIn(ps, recA, Aggs, All(ps, Aggs))
<1> DEFINE p == Len(ps)
           F == Free(ps, consumed)
<1>1. /\ pkt \in Packet /\ ps \in Seq(Packet) /\ Stamps(ps)
      /\ Len(pkts) \in Nat /\ Len(ps) = Len(pkts) + 1 /\ ps[p] = pkt
      /\ \A q \in 1 .. Len(pkts) : ps[q] = pkts[q]
      /\ p \in 1 .. Len(ps) /\ p \notin 1 .. Len(pkts)
  BY ArrivalFacts, ZenonT(60)
<1>2. /\ received \in [States -> Seq(1 .. Len(pkts))] /\ received[0] = <<>>
      /\ recNegs \in [Negs -> Seq(1 .. Len(pkts))]
      /\ recAggs \in [Aggs -> Seq(1 .. Len(pkts))]
      /\ consumed \in [States -> SUBSET (1 .. Len(pkts))] /\ rule \in Rules
  BY DEF StackInv, TypeOK
<1>3. 0 \in States
  BY <1>2, RuleFacts
<1>4. ASSUME NEW X, NEW f, StacksIn(pkts, f, X, All(pkts, X))
      PROVE  StacksIn(ps, f, X, All(ps, X))
  <2> SUFFICES ASSUME NEW k \in X PROVE StackOf(ps, f[k], 1 .. Len(ps))
    BY DEF StacksIn, All
  <2>1. StackOf(pkts, f[k], 1 .. Len(pkts))
    BY <1>4 DEF StacksIn, All
  <2>2. 1 .. Len(pkts) \subseteq 1 .. Len(ps)
    BY <1>1
  <2> QED
    BY <1>1, <2>1, <2>2, StackGrow, ZenonT(60)
<1>5. ASSUME NEW X, NEW f, DOMAIN f = X, StacksIn(pkts, f, X, All(pkts, X)), NEW ids
      PROVE  DOMAIN AddTo(ps, f, ids, p) = X
             /\ StacksIn(ps, AddTo(ps, f, ids, p), X, All(ps, X))
  <2>1. \A k \in X : k \in ids => p \in All(ps, X)[k]
    BY <1>1 DEF All
  <2>2. StacksIn(ps, f, X, All(ps, X))
    BY <1>4, <1>5
  <2> QED
    BY <1>1, <1>5, <2>1, <2>2, AddToOK
<1>6. StacksIn(ps, received, States, F)
  <2> SUFFICES ASSUME NEW k \in States
               PROVE  F[k] \subseteq 1 .. Len(ps) /\ StackOf(ps, received[k], F[k])
    BY DEF StacksIn
  <2> DEFINE A == {q \in 1 .. Len(pkts) : Available(pkts, consumed, q, k)}
             B == {q \in 1 .. Len(ps) : Available(ps, consumed, q, k)}
  <2>1. StackOf(pkts, received[k], A)
    BY DEF StackInv, StacksOf, StacksIn, Free
  <2>2. A \subseteq B
    BY <1>1 DEF Available
  <2>3. A \subseteq 1 .. Len(pkts) /\ F[k] = B /\ B \subseteq 1 .. Len(ps)
    BY DEF Free
  <2> HIDE DEF A, B, F
  <2>4. StackOf(ps, received[k], B)
    BY <1>1, <2>1, <2>2, <2>3, StackGrow
  <2> QED
    BY <2>3, <2>4
<1>7. \A k \in States : k \in pkt.states \ {0} => p \in F[k]
  <2> SUFFICES ASSUME NEW k \in States, k \in pkt.states PROVE p \in F[k]
    OBVIOUS
  <2>1. consumed[k] \subseteq 1 .. Len(pkts)
    BY <1>2
  <2>2. Available(ps, consumed, p, k)
    BY <1>1, <2>1 DEF Available
  <2> QED
    BY <1>1, <2>2 DEF Free
<1> DEFINE rec == AddTo(ps, received, pkt.states \ {0}, p)
<1>8. DOMAIN rec = States /\ StacksIn(ps, rec, States, F)
  <2> HIDE DEF F
  <2>1. DOMAIN received = States
    BY <1>2
  <2> QED
    BY <1>1, <1>6, <1>7, <2>1, AddToOK
<1>9. rec[0] = <<>>
  BY <1>2, <1>3 DEF AddTo
<1>10. DOMAIN recNegs = Negs /\ DOMAIN recAggs = Aggs
  BY <1>2
<1> QED
  BY <1>5, <1>8, <1>9, <1>10 DEF StackInv, StacksOf

\* What the two action properties say of a step.
SoundStep ==
  \A r \in results' : \A k \in States \ {0} :
    /\ Available(pkts', consumed, r.pe[k + 1], k)
    /\ InWindow(pkts', r.pe[k + 1], r.pe[rule.refersTo[k] + 1], rule.win[k])

TrimmedStep ==
  0 \in pkts'[Len(pkts')].states =>
    \A k \in States \ {0} : rule.refersTo[k] = 0 =>
      \A i \in 1 .. Len(received'[k]) :
        pkts'[received'[k][i]].ts >= Minus(pkts'[Len(pkts')].ts, rule.win[k])

\* The invariant after a step, from what the step has done to the stacks.
LEMMA InvAfter ==
  ASSUME rule \in Rules, rule' = rule, pkts' \in Seq(Packet), Len(pkts') <= MaxPkts,
         received' = [k \in States |-> received'[k]], received'[0] = <<>>,
         StacksOf(pkts', received', Free(pkts', consumed')),
         recNegs' = [n \in Negs |-> recNegs'[n]],
         StacksIn(pkts', recNegs', Negs, All(pkts', Negs)),
         recAggs' = [a \in Aggs |-> recAggs'[a]],
         StacksIn(pkts', recAggs', Aggs, All(pkts', Aggs)),
         consumed' \in [States -> SUBSET (1 .. Len(pkts'))],
         \A r \in results' : r.pe \in Seq(1 .. Len(pkts')) /\ Len(r.pe) = NumStates
  PROVE  StackInv'
<1>1. /\ States' = States /\ Negs' = Negs /\ Aggs' = Aggs /\ NumStates' = NumStates
      /\ Packet' = Packet
  BY DEF States, Negs, Aggs, NumStates, Packet
<1>2. ASSUME NEW k \in States PROVE received'[k] \in Seq(1 .. Len(pkts'))
  <2>1. Free(pkts', consumed')[k] \subseteq 1 .. Len(pkts')
    BY DEF Free
  <2>2. received'[k] \in Seq(Free(pkts', consumed')[k])
    BY DEF StacksOf, StacksIn, StackOf
  <2> QED
    BY <2>1, <2>2, SeqMonotonic
<1>3. ASSUME NEW n \in Negs PROVE recNegs'[n] \in Seq(1 .. Len(pkts'))
  BY DEF StacksIn, StackOf, All
<1>4. ASSUME NEW a \in Aggs PROVE recAggs'[a] \in Seq(1 .. Len(pkts'))
  BY DEF StacksIn, StackOf, All
<1>5. /\ received' \in [States -> Seq(1 .. Len(pkts'))]
      /\ recNegs' \in [Negs -> Seq(1 .. Len(pkts'))]
      /\ recAggs' \in [Aggs -> Seq(1 .. Len(pkts'))]
  BY <1>2, <1>3, <1>4
<1>6. TypeOK'
  BY <1>1, <1>5 DEF TypeOK
<1>7. StacksOf(pkts, received, Free(pkts, consumed))'
  BY <1>1 DEF StacksOf, StacksIn, Free, Available
<1> QED
  BY <1>1, <1>6, <1>7 DEF StackInv, StacksIn, All

\* A packet that is not the terminator.
LEMMA WaitOK ==
  ASSUME StackInv, NEW pkt \in Arrivals, Len(pkts) < MaxPkts, Process(pkt),
         0 \notin pkt.states
  PROVE  StackInv' /\ SoundStep /\ TrimmedStep
<1> DEFINE ps   == Append(pkts, pkt)
           p    == Len(ps)
           recN == AddTo(ps, recNegs, pkt.negs, p)
           recA == AddTo(ps, recAggs, pkt.aggs, p)
           rec  == AddTo(ps, received, pkt.states \ {0}, p)
<1>1. /\ pkts' = ps /\ rule' = rule /\ results' = {} /\ received' = rec
      /\ recNegs' = recN /\ recAggs' = recA /\ consumed' = consumed
  BY DEF Process
<1>2. /\ DOMAIN rec = States /\ rec[0] = <<>>
      /\ StacksOf(ps, rec, Free(ps, consumed))
      /\ DOMAIN recN = Negs /\ StacksIn(ps, recN, Negs, All(ps, Negs))
      /\ DOMAIN recA = Aggs /\ StacksIn(ps, recA, Aggs, All(ps, Aggs))
  BY FilledOK
<1>3. /\ rec = [k \in DOMAIN rec |-> rec[k]] /\ recN = [n \in DOMAIN recN |-> recN[n]]
      /\ recA = [a \in DOMAIN recA |-> recA[a]]
  BY DEF AddTo
<1>4. /\ ps \in Seq(Packet) /\ Len(pkts) \in Nat /\ Len(ps) = Len(pkts) + 1 /\ ps[p] = pkt
  BY ArrivalFacts
<1>5. rule \in Rules /\ consumed \in [States -> SUBSET (1 .. Len(pkts))]
  BY DEF StackInv, TypeOK
<1> HIDE DEF rec, recN, recA, ps
<1>6. consumed \in [States -> SUBSET (1 .. Len(ps))] /\ Len(ps) <= MaxPkts
  BY <1>4, <1>5, BoundsAssumption
<1>7. StackInv'
  BY <1>1, <1>2, <1>3, <1>4, <1>5, <1>6, InvAfter
<1>8. SoundStep /\ TrimmedStep
  BY <1>1, <1>4 DEF SoundStep, TrimmedStep
<1> QED
  BY <1>7, <1>8

\* The terminator: clearing, searching, consuming.
LEMMA ComputationOK ==
  ASSUME StackInv, NEW pkt \in Arrivals, Len(pkts) < MaxPkts, Process(pkt),
         0 \in pkt.states
  PROVE  StackInv' /\ SoundStep /\ TrimmedStep
<1> DEFINE ps   == Append(pkts, pkt)
           p    == Len(ps)
           recN == AddTo(ps, recNegs, pkt.negs, p)
           recA == AddTo(ps, recAggs, pkt.aggs, p)
           rec  == AddTo(ps, received, pkt.states \ {0}, p)
           top  == [rec EXCEPT ![0] = Append(rec[0], p)]
           clr  == ClearedStates(ps, top)
           clrN == ClearedNegs(ps, clr, recN)
           clrA == ClearedAggs(ps, clr, recA)
           pes  == MatchingParameters(ps, PartialResults(ps, clr, clrN, p))
           F    == Free(ps, consumed)
           Gone(k) == {pe[k + 1] : pe \in pes}
<1>1. /\ pkts' = ps /\ rule' = rule
      /\ results' = ComplexEvents(ps, clrA, pes)
      /\ received' = RemoveTerminator(RemoveConsumed(clr, pes))
      /\ recNegs' = clrN /\ recAggs' = clrA
      /\ consumed' = [k \in States |->
           IF k = 0 \/ k \notin rule.consuming THEN consumed[k]
           ELSE consumed[k] \cup Gone(k)]
  BY DEF Process, StartComputation
<1>2. /\ DOMAIN rec = States /\ rec[0] = <<>>
      /\ StacksOf(ps, rec, F)
      /\ StacksIn(ps, recN, Negs, All(ps, Negs))
      /\ StacksIn(ps, recA, Aggs, All(ps, Aggs))
  BY FilledOK
<1>3. /\ ps \in Seq(Packet) /\ Stamps(ps) /\ Len(pkts) \in Nat /\ Len(ps) = Len(pkts) + 1
      /\ ps[p] = pkt /\ p \in 1 .. Len(ps) /\ p \notin 1 .. Len(pkts)
  BY ArrivalFacts
<1>4. rule \in Rules /\ consumed \in [States -> SUBSET (1 .. Len(pkts))]
  BY DEF StackInv, TypeOK
<1>5. /\ NumStates \in Nat /\ NumStates - 1 \in Nat
      /\ States = 0 .. NumStates - 1 /\ 0 \in States
      /\ \A k \in 1 .. NumStates - 1 : rule.refersTo[k] \in States /\ rule.win[k] \in Nat
      /\ \A n \in Negs : rule.negs[n].upperId \in States /\ NegWindow(rule.negs[n]) \in Nat
      /\ \A a \in Aggs : rule.aggs[a].upperId \in States /\ rule.aggs[a].lowerTime \in Nat
  BY <1>4, RuleFacts
<1>6. top[0] = <<p>> /\ \A k \in States \ {0} : top[k] = rec[k]
  <2> HIDE DEF rec
  <2> QED
    BY <1>2, <1>5
<1> HIDE DEF rec, recN, recA, top, ps, p
<1>7. \A k \in States : F[k] = {q \in 1 .. Len(ps) : Available(ps, consumed, q, k)}
  BY DEF Free
<1>8. StacksOf(ps, top, F)
  <2>1. p \in F[0]
    BY <1>3, <1>4, <1>5, <1>7 DEF Available
  <2>2. F[0] \subseteq 1 .. Len(ps) /\ StackOf(ps, <<p>>, F[0])
    <3>1. F[0] \subseteq 1 .. Len(ps)
      BY <1>5, <1>7
    <3> HIDE DEF F
    <3> QED
      BY <1>3, <2>1, <3>1, StackOne
  <2> HIDE DEF F
  <2> QED
    BY <1>2, <1>5, <1>6, <2>2 DEF StacksOf, StacksIn
<1> HIDE DEF F
<1>9. /\ clr = [k \in States |-> clr[k]] /\ clr[0] = <<p>>
      /\ \A k \in States \ {0} : clr[k] = Trim(ps, top[k], clr[rule.refersTo[k]], rule.win[k])
      /\ StacksOf(ps, clr, F)
  <2>1. IsCleared(ps, top, clr) /\ StacksOf(ps, clr, F)
    BY <1>3, <1>4, <1>8, ClearedStatesOK
  <2> HIDE DEF clr
  <2> QED
    BY <1>6, <2>1 DEF IsCleared
<1>10. \A k \in States : F[k] \subseteq 1 .. Len(ps) /\ StackOf(ps, clr[k], F[k])
  BY <1>9 DEF StacksOf, StacksIn
<1> HIDE DEF clr
<1>11. ASSUME NEW k \in States PROVE clr[k] \in Seq(1 .. Len(ps))
  <2>1. F[k] \subseteq 1 .. Len(ps) /\ clr[k] \in Seq(F[k])
    BY <1>10 DEF StackOf
  <2> QED
    BY <2>1, SeqMonotonic
<1>12. clrN = [n \in Negs |-> clrN[n]] /\ StacksIn(ps, clrN, Negs, All(ps, Negs))
  <2>1. clrN = [n \in Negs |-> clrN[n]]
    BY DEF ClearedNegs
  <2>2. ASSUME NEW n \in Negs PROVE StackOf(ps, clrN[n], 1 .. Len(ps))
    <3> DEFINE ref == clr[rule.negs[n].upperId]
               win == NegWindow(rule.negs[n])
    <3>1. clrN[n] = Trim(ps, recN[n], ref, win)
      BY DEF ClearedNegs
    <3>2. ref \in Seq(1 .. Len(ps)) /\ win \in Nat
      BY <1>5, <1>11
    <3>3. StackOf(ps, recN[n], 1 .. Len(ps))
      BY <1>2 DEF StacksIn, All
    <3> HIDE DEF ref, win, clrN
    <3>4. StackOf(ps, Trim(ps, recN[n], ref, win), 1 .. Len(ps))
      BY <1>3, <3>2, <3>3, TrimOK
    <3> QED
      BY <3>1, <3>4
  <2> HIDE DEF clrN
  <2> QED
    BY <2>1, <2>2 DEF StacksIn, All
<1>13. clrA = [a \in Aggs |-> clrA[a]] /\ StacksIn(ps, clrA, Aggs, All(ps, Aggs))
  <2>1. clrA = [a \in Aggs |-> clrA[a]]
    BY DEF ClearedAggs
  <2>2. ASSUME NEW a \in Aggs PROVE StackOf(ps, clrA[a], 1 .. Len(ps))
    <3> DEFINE ref == clr[rule.aggs[a].upperId]
               win == rule.aggs[a].lowerTime
    <3>1. clrA[a] = Trim(ps, recA[a], ref, win)
      BY DEF ClearedAggs
    <3>2. ref \in Seq(1 .. Len(ps)) /\ win \in Nat
      BY <1>5, <1>11
    <3>3. StackOf(ps, recA[a], 1 .. Len(ps))
      BY <1>2 DEF StacksIn, All
    <3> HIDE DEF ref, win, clrA
    <3>4. StackOf(ps, Trim(ps, recA[a], ref, win), 1 .. Len(ps))
      BY <1>3, <3>2, <3>3, TrimOK
    <3> QED
      BY <3>1, <3>4
  <2> HIDE DEF clrA
  <2> QED
    BY <2>1, <2>2 DEF StacksIn, All
<1> HIDE DEF clrN, clrA
<1>14. \A pe \in pes : Partial(ps, p, F, NumStates - 1, pe)
  <2>1. \A pe \in PartialResults(ps, clr, clrN, p) : Partial(ps, p, F, NumStates - 1, pe)
    BY <1>3, <1>4, <1>9, PartialResultsOK
  <2> QED
    BY <2>1 DEF MatchingParameters
<1> HIDE DEF pes
<1>15. ASSUME NEW r \in results' PROVE r.pe \in pes
  <2>1. PICK pe \in pes : r.pe = pe
    BY <1>1, <1>15 DEF ComplexEvents
  <2> QED
    BY <2>1
<1>16. /\ received' = [k \in States |-> received'[k]] /\ received'[0] = <<>>
       /\ \A k \in States \ {0} :
            received'[k] = IF k \notin rule.consuming THEN clr[k]
                           ELSE Without(clr[k], Gone(k))
  BY <1>1, <1>5 DEF RemoveTerminator, RemoveConsumed
<1>17. \A k \in States : Gone(k) \subseteq 1 .. Len(ps)
  <2> SUFFICES ASSUME NEW k \in States, NEW pe \in pes PROVE pe[k + 1] \in 1 .. Len(ps)
    OBVIOUS
  <2>1. pe \in Seq(1 .. Len(ps)) /\ Len(pe) = NumStates /\ k + 1 \in 1 .. NumStates
    BY <1>5, <1>14 DEF Partial
  <2> QED
    BY <2>1
<1> HIDE DEF Gone
<1>18. consumed' \in [States -> SUBSET (1 .. Len(ps))]
  <2>1. \A k \in States : consumed[k] \subseteq 1 .. Len(ps)
    BY <1>3, <1>4
  <2> QED
    BY <1>1, <1>17, <2>1
\* What stays in a stack after the consumption was in it before.
<1>19. ASSUME NEW k \in States \ {0}, NEW M, M \subseteq 1 .. Len(ps), StackOf(ps, clr[k], M)
       PROVE  StackOf(ps, received'[k], M \ (consumed'[k] \ consumed[k]))
  <2>1. CASE k \notin rule.consuming
    <3>1. received'[k] = clr[k] /\ consumed'[k] = consumed[k]
      BY <1>1, <1>16, <2>1
    <3>2. M \subseteq M \ (consumed'[k] \ consumed[k])
      BY <3>1
    <3> QED
      BY <1>19, <3>1, <3>2, StackMono
  <2>2. CASE k \in rule.consuming
    <3>1. received'[k] = Without(clr[k], Gone(k)) /\ consumed'[k] = consumed[k] \cup Gone(k)
      BY <1>1, <1>16, <2>2
    <3>2. StackOf(ps, Without(clr[k], Gone(k)), M \ Gone(k))
      BY <1>3, <1>19, WithoutOK
    <3>3. M \ Gone(k) \subseteq M \ (consumed'[k] \ consumed[k])
      BY <3>1
    <3> QED
      BY <3>1, <3>2, <3>3, StackMono
  <2> QED
    BY <2>1, <2>2
<1>20. StacksOf(ps, received', Free(ps, consumed'))
  <2> DEFINE G == Free(ps, consumed')
  <2>1. ASSUME NEW k \in States PROVE G[k] \subseteq 1 .. Len(ps) /\ StackOf(ps, received'[k], G[k])
    <3>1. G[k] = {q \in 1 .. Len(ps) : Available(ps, consumed', q, k)}
      BY DEF Free
    <3> HIDE DEF G
    <3>2. CASE k = 0
      <4>1. <<>> \in Seq(G[k]) /\ Len(<<>>) = 0
        OBVIOUS
      <4>2. StackOf(ps, <<>>, G[k])
        BY <4>1 DEF StackOf
      <4> QED
        BY <1>16, <3>1, <3>2, <4>2
    <3>3. CASE k # 0
      <4>1. F[k] \ (consumed'[k] \ consumed[k]) \subseteq G[k]
        BY <1>7, <3>1 DEF Available
      <4>2. StackOf(ps, received'[k], F[k] \ (consumed'[k] \ consumed[k]))
        BY <1>10, <1>19, <3>3
      <4> QED
        BY <3>1, <4>1, <4>2, StackMono
    <3> QED
      BY <3>2, <3>3
  <2> HIDE DEF G
  <2> QED
    BY <2>1 DEF StacksOf, StacksIn, G
<1>21. StackInv'
  <2>1. \A r \in results' : r.pe \in Seq(1 .. Len(ps)) /\ Len(r.pe) = NumStates
    BY <1>5, <1>14, <1>15 DEF Partial
  <2>2. Len(ps) <= MaxPkts
    BY <1>3, BoundsAssumption
  <2> QED
    BY <1>1, <1>3, <1>4, <1>12, <1>13, <1>16, <1>18, <1>20, <2>1, <2>2, InvAfter
<1>22. SoundStep
  <2> SUFFICES ASSUME NEW r \in results', NEW k \in States \ {0}
               PROVE  /\ Available(ps, consumed, r.pe[k + 1], k)
                      /\ InWindow(ps, r.pe[k + 1], r.pe[rule.refersTo[k] + 1], rule.win[k])
    BY <1>1 DEF SoundStep
  <2>1. k \in 1 .. NumStates - 1
    BY <1>5
  <2>2. r.pe[k + 1] \in F[k]
        /\ InWindow(ps, r.pe[k + 1], r.pe[rule.refersTo[k] + 1], rule.win[k])
    BY <1>14, <1>15, <2>1 DEF Partial
  <2> QED
    BY <1>7, <2>2
<1>23. TrimmedStep
  <2> SUFFICES ASSUME NEW k \in States \ {0}, rule.refersTo[k] = 0,
                      NEW i \in 1 .. Len(received'[k])
               PROVE  ps[received'[k][i]].ts >= Minus(ps[p].ts, rule.win[k])
    BY <1>1 DEF TrimmedStep, p
  <2> DEFINE ref == clr[0]
             K == Recent(ps, F[k], Minus(ps[ref[1]].ts, rule.win[k]))
  <2>1. /\ F[k] \subseteq 1 .. Len(ps) /\ StackOf(ps, top[k], F[k]) /\ rule.win[k] \in Nat
        /\ ref \in Seq(1 .. Len(ps)) /\ ref # <<>> /\ ref[1] = p
    BY <1>5, <1>8, <1>9, <1>10, <1>11, SMTT(60) DEF StacksOf, StacksIn
  <2>2. clr[k] = Trim(ps, top[k], ref, rule.win[k])
    BY <1>9
  <2> HIDE DEF ref
  <2>3. StackOf(ps, clr[k], K)
    BY <1>3, <2>1, <2>2, TrimOK, ZenonT(60)
  <2>4. K \subseteq 1 .. Len(ps)
    BY <2>1 DEF Recent
  <2>5. \A q \in K : ps[q].ts >= Minus(ps[p].ts, rule.win[k])
    BY <2>1 DEF Recent
  <2> HIDE DEF K
  <2>6. StackOf(ps, received'[k], K \ (consumed'[k] \ consumed[k]))
    BY <1>19, <2>3, <2>4
  <2>7. received'[k][i] \in K
    BY <2>6 DEF StackOf
  <2> QED
    BY <2>5, <2>7
<1> QED
  BY <1>21, <1>22, <1>23

\* Every packet, terminator or not.
LEMMA StackStep ==
  ASSUME StackInv, Next
  PROVE  StackInv' /\ SoundStep /\ TrimmedStep
<1>1. PICK pkt \in Arrivals : Process(pkt)
  BY DEF Next, Receive
<1>2. Len(pkts) < MaxPkts
  BY DEF Next, Receive
<1> QED
  BY <1>1, <1>2, WaitOK, ComputationOK

\* The empty stacks.
LEMMA InitStacks == Init => StackInv
<1> SUFFICES ASSUME Init PROVE StackInv
  OBVIOUS
<1>1. rule \in Rules /\ pkts = <<>> /\ Len(pkts) = 0 /\ results = {}
  BY DEF Init
<1>2. /\ received = [k \in States |-> <<>>] /\ recNegs = [n \in Negs |-> <<>>]
      /\ recAggs = [a \in Aggs |-> <<>>] /\ consumed = [k \in States |-> {}]
  BY DEF Init
<1>3. 0 \in States
  BY <1>1, RuleFacts
<1>4. \A S : <<>> \in Seq(S)
  OBVIOUS
<1>5. \A M : StackOf(pkts, <<>>, M)
  BY <1>4 DEF StackOf
<1>6. TypeOK
  BY <1>1, <1>2, <1>3, <1>4, BoundsAssumption DEF TypeOK
<1>7. \A k \in States : received[k] = <<>>
      /\ Free(pkts, consumed)[k] \subseteq 1 .. Len(pkts)
  BY <1>2 DEF Free
<1>8. StacksOf(pkts, received, Free(pkts, consumed))
  BY <1>5, <1>7 DEF StacksOf, StacksIn
<1>9. /\ StacksIn(pkts, recNegs, Negs, All(pkts, Negs))
      /\ StacksIn(pkts, recAggs, Aggs, All(pkts, Aggs))
  BY <1>2, <1>5 DEF StacksIn, All
<1> QED
  BY <1>1, <1>4, <1>6, <1>8, <1>9 DEF StackInv

\* A stuttering step.
LEMMA InvStutter ==
  ASSUME StackInv, UNCHANGED vars
  PROVE  StackInv'
<1>1. /\ rule' = rule /\ pkts' = pkts /\ received' = received /\ recNegs' = recNegs
      /\ recAggs' = recAggs /\ results' = results /\ consumed' = consumed
  BY DEF vars
<1>2. /\ States' = States /\ Negs' = Negs /\ Aggs' = Aggs /\ NumStates' = NumStates
      /\ Packet' = Packet
  BY <1>1 DEF States, Negs, Aggs, NumStates, Packet
<1>3. TypeOK'
  BY <1>1, <1>2 DEF StackInv, TypeOK
<1>4. StacksOf(pkts, received, Free(pkts, consumed))'
  BY <1>1, <1>2 DEF StackInv, StacksOf, StacksIn, Free, Available
<1> QED
  BY <1>1, <1>2, <1>3, <1>4 DEF StackInv, StacksIn, All

\* The invariant contains what the run checks.
LEMMA InvSorted == StackInv => StacksSorted
<1> SUFFICES ASSUME StackInv PROVE StacksSorted
  OBVIOUS
<1>1. ASSUME NEW stack, NEW M, StackOf(pkts, stack, M) PROVE Sorted(Times(stack))
  <2>1. Len(stack) \in Nat
    BY <1>1 DEF StackOf
  <2>2. /\ Len(Times(stack)) = Len(stack)
        /\ \A i \in 1 .. Len(stack) : Times(stack)[i] = pkts[stack[i]].ts
    BY <2>1 DEF Times, Ts
  <2> QED
    BY <1>1, <2>1, <2>2 DEF StackOf, Sorted
<1>2. ASSUME NEW k \in States PROVE Sorted(Times(received[k]))
  <2>1. StackOf(pkts, received[k], Free(pkts, consumed)[k])
    BY DEF StackInv, StacksOf, StacksIn
  <2> QED
    BY <1>1, <2>1
<1>3. ASSUME NEW n \in Negs PROVE Sorted(Times(recNegs[n]))
  <2>1. StackOf(pkts, recNegs[n], All(pkts, Negs)[n])
    BY DEF StackInv, StacksIn
  <2> QED
    BY <1>1, <2>1
<1>4. ASSUME NEW a \in Aggs PROVE Sorted(Times(recAggs[a]))
  <2>1. StackOf(pkts, recAggs[a], All(pkts, Aggs)[a])
    BY DEF StackInv, StacksIn
  <2> QED
    BY <1>1, <2>1
<1> QED
  BY <1>2, <1>3, <1>4 DEF StacksSorted

\* Every step keeps the invariant.
LEMMA InvNext == StackInv /\ [Next]_vars => StackInv'
BY StackStep, InvStutter

-----------------------------------------------------------------------------
(* The theorems.                                                           *)

\* The stacks hold packets that were received, the stack of the terminator is
\* empty between two packets, and a composite event has a packet for each state.
THEOREM StacksTypeCorrect == Spec => []TypeOK
<1>1. StackInv => TypeOK
  BY DEF StackInv
<1> QED
  BY InitStacks, InvNext, <1>1, PTL DEF Spec

\* The stacks stay sorted whatever the rule and the order of arrival, so that the
\* searches of Funs.cc are used on sorted columns only.
THEOREM StacksStaySorted == Spec => []StacksSorted
BY InitStacks, InvNext, InvSorted, PTL DEF Spec

\* A composite event is made of packets that match their states, lie in their
\* windows and were not consumed before, for every rule and order of arrival.
THEOREM EventsSound == Spec => ResultsSound
<1>1. StackInv /\ [Next]_vars => [SoundStep]_vars
  BY StackStep
<1>2. Spec => [][SoundStep]_vars
  BY InitStacks, InvNext, <1>1, PTL DEF Spec
<1> QED
  BY <1>2 DEF ResultsSound, SoundStep

\* startComputation leaves no packet too old for the terminator in the stack of a
\* state that refers to it, for every rule and order of arrival.
THEOREM OldPacketsRemoved == Spec => StatesTrimmed
<1>1. StackInv /\ [Next]_vars => [TrimmedStep]_vars
  BY StackStep
<1>2. Spec => [][TrimmedStep]_vars
  BY InitStacks, InvNext, <1>1, PTL DEF Spec
<1> QED
  BY <1>2 DEF StatesTrimmed, TrimmedStep
=============================================================================
