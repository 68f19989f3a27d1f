------------------------ MODULE StacksMeaning_proofs ------------------------
(***************************************************************************)
(* When packets come in order, a local rule creates exactly the events it  *)
(* means: what its stacks have forgotten can be part of no event.          *)
(***************************************************************************)
EXTENDS StacksRule_proofs

\* The packets of a stack.
Els(stack) == {stack[i] : i \in 1 .. Len(stack)}

\* Packet numbers in the order of arrival.
Increasing(stack) == \A i, j \in 1 .. Len(stack) : i < j => stack[i] < stack[j]

\* Packets in the order of their time stamps.
InTime(ps) == \A i, j \in 1 .. Len(ps) : i <= j => ps[i].ts <= ps[j].ts

\* The stack has, of the packets in M, those that a packet of the stack ref or one
\* that comes later can reach through a window w.
Covered(ps, stack, M, ref, w) ==
  /\ Els(stack) \subseteq M
  /\ Increasing(stack)
  /\ \A q \in M \ Els(stack) : \A r \in Els(ref) \cup {Len(ps)} :
       ps[q].ts <= Minus(ps[r].ts, w)

-----------------------------------------------------------------------------
(* Stacks and their packets.                                               *)

\* A later reference reaches less far back.
LEMMA MinusMono ==
  ASSUME NEW a \in Nat, NEW b \in Nat, NEW w \in Nat, a <= b
  PROVE  Minus(a, w) <= Minus(b, w) /\ Minus(a, w) \in Nat /\ Minus(b, w) \in Nat
BY DEF Minus

\* A longer window reaches further back.
LEMMA MinusAnti ==
  ASSUME NEW a \in Nat, NEW v \in Nat, NEW w \in Nat, v <= w
  PROVE  Minus(a, w) <= Minus(a, v)
BY DEF Minus

\* What deleteInvalidElements removes is too old.
LEMMA RemainingCut ==
  ASSUME NEW col \in Seq(Nat), Sorted(col), NEW t \in Nat
  PROVE  /\ Remaining(col, t) \in 0 .. Len(col)
         /\ \A j \in 1 .. Len(col) - Remaining(col, t) : col[j] <= t
<1>1. Len(col) \in Nat /\ \A j \in 1 .. Len(col) : col[j] \in Nat
  OBVIOUS
<1>2. /\ FirstValid(col, t) \in 0 .. Len(col)
      /\ FirstValid(col, t) = 0 => \A j \in 1 .. Len(col) : col[j] <= t
      /\ FirstValid(col, t) # 0 => \A j \in 1 .. Len(col) : j < FirstValid(col, t) => col[j] <= t
  BY FirstValidFacts
<1>3. CASE Len(col) > 0 /\ col[Len(col)] = t
  <2>1. Remaining(col, t) = 1
    BY <1>3 DEF Remaining
  <2>2. \A j \in 1 .. Len(col) : col[j] <= t
    BY <1>1, <1>3 DEF Sorted
  <2> QED
    BY <1>1, <1>3, <2>1, <2>2
<1>4. CASE ~(Len(col) > 0 /\ col[Len(col)] = t) /\ FirstValid(col, t) = 0
  <2>1. Remaining(col, t) = 0
    BY <1>4 DEF Remaining
  <2> QED
    BY <1>1, <1>2, <1>4, <2>1
<1>5. CASE ~(Len(col) > 0 /\ col[Len(col)] = t) /\ FirstValid(col, t) # 0
  <2>1. Remaining(col, t) = Len(col) - FirstValid(col, t) + 1
    BY <1>5 DEF Remaining
  <2>2. Len(col) - Remaining(col, t) = FirstValid(col, t) - 1
    BY <1>1, <1>2, <2>1
  <2>3. ASSUME NEW j \in 1 .. Len(col) - Remaining(col, t) PROVE col[j] <= t
    <3>1. j \in 1 .. FirstValid(col, t) - 1
      BY <2>2
    <3>2. j \in 1 .. Len(col) /\ j < FirstValid(col, t)
      BY <1>1, <1>2, <3>1
    <3> QED
      BY <1>2, <1>5, <3>2
  <2>4. Remaining(col, t) \in 0 .. Len(col)
    BY <1>1, <1>2, <1>5, <2>1
  <2> QED
    BY <2>3, <2>4
<1> QED
  BY <1>3, <1>4, <1>5

\* removeOldPacketsFromStack removes only packets that are too old.
LEMMA TrimCut ==
  ASSUME NEW ps, Stamps(ps), NEW M, M \subseteq 1 .. Len(ps), NEW stack, StackOf(ps, stack, M),
         Increasing(stack), NEW ref \in Seq(1 .. Len(ps)), NEW w \in Nat
  PROVE  /\ Increasing(Trim(ps, stack, ref, w))
         /\ Els(Trim(ps, stack, ref, w)) \subseteq Els(stack)
         /\ \A q \in Els(stack) \ Els(Trim(ps, stack, ref, w)) :
              ref # <<>> /\ ps[q].ts <= Minus(ps[ref[1]].ts, w)
<1>1. CASE ref = <<>>
  <2>1. Trim(ps, stack, ref, w) = stack
    BY <1>1 DEF Trim
  <2> QED
    BY <2>1
<1>2. CASE ref # <<>>
  <2> DEFINE t   == Minus(ps[ref[1]].ts, w)
             col == Column(ps, stack)
             L   == Len(stack)
             m   == L - Remaining(col, t) + 1
             s   == SubSeq(stack, m, L)
  <2>1. t \in Nat
    <3>1. ref[1] \in 1 .. Len(ps)
      BY <1>2
    <3>2. ps[ref[1]].ts \in Nat
      BY <3>1 DEF Stamps
    <3> QED
      BY <3>2 DEF Minus
  <2>2. \A j \in 1 .. L : col[j] = ps[stack[j]].ts
    BY DEF Column
  <2>3. L \in Nat /\ col \in Seq(Nat) /\ Len(col) = L /\ Sorted(col)
    BY ColumnFacts
  <2>4. Trim(ps, stack, ref, w) = s
    BY <1>2 DEF Trim, RemoveOld
  <2> HIDE DEF t, col
  <2>5. Remaining(col, t) \in 0 .. L /\ \A j \in 1 .. L - Remaining(col, t) : col[j] <= t
    BY <2>1, <2>3, RemainingCut
  <2>6. m \in 1 .. L + 1 /\ \A j \in 1 .. m - 1 : col[j] <= t
    BY <2>3, <2>5
  <2> HIDE DEF m
  <2>7. \A j \in m .. L : stack[j] \in M
    BY <2>3, <2>6 DEF StackOf
  <2>8. /\ Len(s) = L - m + 1
        /\ \A j \in 1 .. Len(s) : s[j] = stack[m + j - 1]
    <3>1. m \in Int /\ L \in Int
      BY <2>3, <2>6
    <3>2. /\ Len(s) = IF m <= L THEN L - m + 1 ELSE 0
          /\ \A j \in 1 .. L - m + 1 : s[j] = stack[m + j - 1]
      BY <2>7, <3>1, SubSeqProperties
    <3>3. Len(s) = L - m + 1
      BY <2>6, <3>1, <3>2
    <3> QED
      BY <3>2, <3>3
  <2> HIDE DEF s
  <2>9. \A j \in 1 .. Len(s) : m + j - 1 \in 1 .. L
    BY <2>3, <2>6, <2>8
  <2>10. Increasing(s)
    <3> SUFFICES ASSUME NEW i \in 1 .. Len(s), NEW j \in 1 .. Len(s), i < j
                 PROVE  s[i] < s[j]
      BY DEF Increasing
    <3>1. m + i - 1 \in 1 .. L /\ m + j - 1 \in 1 .. L /\ m + i - 1 < m + j - 1
      BY <2>6, <2>9
    <3> QED
      BY <2>8, <3>1 DEF Increasing
  <2>11. Els(s) \subseteq Els(stack)
    BY <2>8, <2>9 DEF Els
  <2>12. ASSUME NEW q \in Els(stack) \ Els(s) PROVE ps[q].ts <= t
    <3>1. PICK i \in 1 .. L : q = stack[i]
      BY DEF Els
    <3>2. CASE i < m
      <4>1. i \in 1 .. m - 1
        BY <2>6, <3>2
      <4> QED
        BY <2>2, <2>6, <3>1, <4>1
    <3>3. CASE i >= m
      <4> DEFINE j == i - m + 1
      <4>1. j \in 1 .. Len(s) /\ m + j - 1 = i
        BY <2>3, <2>6, <2>8, <3>3
      <4>2. s[j] = q
        BY <2>8, <3>1, <4>1
      <4> QED
        BY <4>1, <4>2 DEF Els
    <3> QED
      BY <2>6, <3>2, <3>3
  <2> QED
    BY <1>2, <2>4, <2>10, <2>11, <2>12 DEF t
<1> QED
  BY <1>1, <1>2

\* Appending a packet that is later than the others.
LEMMA AppendLast ==
  ASSUME NEW S, S \subseteq Nat, NEW stack \in Seq(S), NEW p \in Nat, Increasing(stack),
         \A x \in Els(stack) : x < p
  PROVE  Els(Append(stack, p)) = Els(stack) \cup {p} /\ Increasing(Append(stack, p))
<1> DEFINE L == Len(stack)
           q == Append(stack, p)
<1>1. L \in Nat /\ \A i \in 1 .. L : stack[i] \in Els(stack)
  BY DEF Els
<1>2. Len(q) = L + 1 /\ q[L + 1] = p /\ \A i \in 1 .. L : q[i] = stack[i]
  OBVIOUS
<1> HIDE DEF q
<1>3. Els(q) = Els(stack) \cup {p}
  <2>1. \A i \in 1 .. L + 1 : i \in 1 .. L \/ i = L + 1
    BY <1>1
  <2>2. L + 1 \in 1 .. L + 1 /\ \A i \in 1 .. L : i \in 1 .. L + 1
    BY <1>1
  <2> QED
    BY <1>2, <2>1, <2>2 DEF Els
<1>4. Increasing(q)
  <2> SUFFICES ASSUME NEW i \in 1 .. L + 1, NEW j \in 1 .. L + 1, i < j PROVE q[i] < q[j]
    BY <1>2 DEF Increasing
  <2>1. i \in 1 .. L
    BY <1>1
  <2>2. CASE j \in 1 .. L
    BY <1>2, <2>1, <2>2 DEF Increasing
  <2>3. CASE j = L + 1
    <3>1. q[i] = stack[i] /\ stack[i] < p /\ q[j] = p
      BY <1>1, <1>2, <2>1, <2>3
    <3> QED
      BY <3>1
  <2> QED
    BY <1>1, <2>2, <2>3
<1> QED
  BY <1>3, <1>4 DEF q

\* A packet that comes last goes to the end of a stack.
LEMMA InsertLast ==
  ASSUME NEW ps, Stamps(ps), InTime(ps), NEW stack \in Seq(1 .. Len(ps) - 1),
         Increasing(stack), Len(ps) # 0
  PROVE  /\ Els(Insert(ps, stack, Len(ps))) = Els(stack) \cup {Len(ps)}
         /\ Increasing(Insert(ps, stack, Len(ps)))
<1> DEFINE p == Len(ps)
           L == Len(stack)
<1>1. p \in Nat /\ L \in Nat /\ \A i \in 1 .. L : stack[i] \in 1 .. p - 1
  BY DEF Stamps
<1>2. ps[p].ts \in Nat /\ \A i \in 1 .. L : ps[stack[i]].ts \in Nat
                                             /\ ps[stack[i]].ts <= ps[p].ts
  <2>1. p \in 1 .. Len(ps)
    BY <1>1
  <2>2. \A i \in 1 .. L : stack[i] \in 1 .. Len(ps) /\ stack[i] <= p
    BY <1>1
  <2> QED
    BY <2>1, <2>2 DEF Stamps, InTime
<1>3. /\ Len(Column(ps, stack)) = L
      /\ \A i \in 1 .. L : Column(ps, stack)[i] = ps[stack[i]].ts
  BY <1>1 DEF Column
<1>4. FirstValid(Column(ps, stack), ps[p].ts) = 0
  BY <1>1, <1>2, <1>3, SMTT(60) DEF FirstValid
<1>5. Insert(ps, stack, p) = Append(stack, p)
  BY <1>4 DEF Insert
<1>6. \A x \in Els(stack) : x < p
  BY <1>1 DEF Els
<1>7. 1 .. Len(ps) - 1 \subseteq Nat
  BY <1>1
<1> QED
  BY <1>1, <1>5, <1>6, <1>7, AppendLast

\* What removeConsumedEvent leaves on a stack.
LEMMA WithoutExact ==
  ASSUME NEW S, S \subseteq Nat, NEW stack \in Seq(S), Increasing(stack), NEW gone
  PROVE  /\ Els(Without(stack, gone)) = Els(stack) \ gone
         /\ Increasing(Without(stack, gone))
<1> DEFINE L == Len(stack)
<1>1. L \in Nat /\ \A i \in 1 .. L : stack[i] \in S
  OBVIOUS
<1>2. PICK kept : RemovedBy(kept, stack, gone)
  BY WithoutSteps
<1>3. kept[0] = <<>> /\ Without(stack, gone) = kept[L]
  BY <1>2 DEF RemovedBy
<1>4. \A i \in 1 .. L : kept[i] = IF stack[i] \in gone THEN kept[i - 1]
                                  ELSE Append(kept[i - 1], stack[i])
  BY <1>2 DEF RemovedBy
<1> DEFINE First(i) == {stack[j] : j \in 1 .. i} \ gone
           T == {i \in 0 .. L : /\ kept[i] \in Seq(S)
                                /\ Els(kept[i]) = First(i) /\ Increasing(kept[i])}
<1>5. 0 \in T
  <2>1. <<>> \in Seq(S) /\ Len(<<>>) = 0
    OBVIOUS
  <2>2. Els(<<>>) = {} /\ Increasing(<<>>) /\ First(0) = {}
    BY DEF Els, Increasing
  <2> HIDE DEF First
  <2>3. kept[0] \in Seq(S) /\ Els(kept[0]) = First(0) /\ Increasing(kept[0])
    BY <1>3, <2>1, <2>2
  <2> QED
    BY <1>1, <2>3
<1>6. ASSUME NEW i \in 1 .. L, \A j \in 0 .. i - 1 : j \in T PROVE i \in T
  <2>0. i - 1 \in 0 .. i - 1
    BY <1>1
  <2>1. i - 1 \in T /\ i \in 0 .. L /\ stack[i] \in Nat
    <3>1. i - 1 \in T
      <4> HIDE DEF T
      <4> QED
        BY <1>6, <2>0
    <3> HIDE DEF T, L
    <3>2. stack[i] \in Nat
      BY <1>1
    <3>3. i \in 0 .. L
      BY <1>1
    <3> QED
      BY <3>1, <3>2, <3>3
  <2>2. {stack[j] : j \in 1 .. i} = {stack[j] : j \in 1 .. i - 1} \cup {stack[i]}
    <3>1. \A j \in 1 .. i : j \in 1 .. i - 1 \/ j = i
      BY <1>1
    <3>2. i \in 1 .. i /\ \A j \in 1 .. i - 1 : j \in 1 .. i
      BY <1>1
    <3> QED
      BY <3>1, <3>2
  <2>3. CASE stack[i] \in gone
    <3>1. kept[i] = kept[i - 1] /\ First(i) = First(i - 1)
      BY <1>4, <2>2, <2>3
    <3> QED
      BY <2>1, <3>1
  <2>4. CASE stack[i] \notin gone
    <3>1. kept[i] = Append(kept[i - 1], stack[i]) /\ First(i) = First(i - 1) \cup {stack[i]}
      BY <1>4, <2>2, <2>4
    <3>2. \A x \in First(i - 1) : x < stack[i]
      <4> SUFFICES ASSUME NEW j \in 1 .. i - 1 PROVE stack[j] < stack[i]
        OBVIOUS
      <4>1. j \in 1 .. L /\ j < i
        BY <1>1
      <4> QED
        BY <4>1 DEF Increasing
    <3>3. kept[i - 1] \in Seq(S) /\ Els(kept[i - 1]) = First(i - 1) /\ Increasing(kept[i - 1])
      BY <2>1
    <3> HIDE DEF First
    <3>4. Els(kept[i]) = First(i) /\ Increasing(kept[i])
      BY <2>1, <3>1, <3>2, <3>3, AppendLast, ZenonT(60)
    <3>5. kept[i] \in Seq(S)
      BY <1>1, <3>1, <3>3
    <3> QED
      BY <2>1, <3>4, <3>5
  <2> QED
    BY <2>3, <2>4
<1> HIDE DEF T
<1>7. \A i \in 0 .. L : i \in T
  BY <1>1, <1>5, <1>6, PositionInduction
<1>8. L \in T
  BY <1>1, <1>7
<1> QED
  BY <1>3, <1>8 DEF T, Els

-----------------------------------------------------------------------------
(* What a stack covers, step by step.                                      *)

\* A packet more, on the stack if it is one of M.
LEMMA CoverGrow ==
  ASSUME NEW ps0, NEW ps, Stamps(ps), InTime(ps), Len(ps0) \in Nat, Len(ps) = Len(ps0) + 1,
         \A q \in 1 .. Len(ps0) : ps[q] = ps0[q],
         NEW M0, M0 \subseteq 1 .. Len(ps0), NEW stack0, NEW w \in Nat,
         NEW ref0, Els(ref0) \subseteq 1 .. Len(ps0), Covered(ps0, stack0, M0, ref0, w),
         NEW M, M \subseteq M0 \cup {Len(ps)}, NEW stack, Increasing(stack),
         Els(stack) \subseteq M, Els(stack0) \subseteq Els(stack),
         Len(ps) \in M => Len(ps) \in Els(stack),
         NEW ref, Els(ref) \subseteq Els(ref0) \cup {Len(ps)}
  PROVE  Covered(ps, stack, M, ref, w)
<1> SUFFICES ASSUME NEW q \in M \ Els(stack), NEW r \in Els(ref) \cup {Len(ps)}
             PROVE  ps[q].ts <= Minus(ps[r].ts, w)
  BY DEF Covered
<1>1. q \in M0 /\ q \notin Els(stack0) /\ q \in 1 .. Len(ps0)
  OBVIOUS
<1>2. \A x \in Els(ref0) \cup {Len(ps0)} : ps0[q].ts <= Minus(ps0[x].ts, w)
  BY <1>1 DEF Covered
<1>3. CASE r \in Els(ref0)
  BY <1>1, <1>2, <1>3
<1>4. CASE r = Len(ps)
  <2>1. Len(ps0) \in 1 .. Len(ps) /\ Len(ps) \in 1 .. Len(ps) /\ Len(ps0) <= Len(ps)
        /\ Len(ps0) \in 1 .. Len(ps0) /\ q \in 1 .. Len(ps)
    BY <1>1
  <2>2. ps[Len(ps0)].ts \in Nat /\ ps[Len(ps)].ts \in Nat /\ ps[q].ts \in Nat
        /\ ps[Len(ps0)].ts <= ps[Len(ps)].ts
    BY <2>1 DEF Stamps, InTime
  <2>3. ps[q].ts <= Minus(ps[Len(ps0)].ts, w)
    BY <1>1, <1>2, <2>1
  <2>4. /\ Minus(ps[Len(ps0)].ts, w) <= Minus(ps[Len(ps)].ts, w)
        /\ Minus(ps[Len(ps0)].ts, w) \in Nat /\ Minus(ps[Len(ps)].ts, w) \in Nat
    BY <2>2, MinusMono
  <2> QED
    BY <1>4, <2>2, <2>3, <2>4
<1> QED
  BY <1>3, <1>4

\* Trimming by the oldest packet of ref.
LEMMA CoverTrim ==
  ASSUME NEW ps, Stamps(ps), InTime(ps), NEW M, M \subseteq 1 .. Len(ps),
         NEW stack, StackOf(ps, stack, M), NEW w \in Nat,
         NEW ref0, Covered(ps, stack, M, ref0, w),
         NEW R, R \subseteq 1 .. Len(ps), NEW ref, StackOf(ps, ref, R), Els(ref) \subseteq Els(ref0)
  PROVE  Covered(ps, Trim(ps, stack, ref, w), M, ref, w)
<1> DEFINE s == Trim(ps, stack, ref, w)
<1>1. ref \in Seq(1 .. Len(ps)) /\ Increasing(stack)
  BY SeqMonotonic DEF StackOf, Covered
<1>2. /\ Increasing(s) /\ Els(s) \subseteq Els(stack)
      /\ \A q \in Els(stack) \ Els(s) : ref # <<>> /\ ps[q].ts <= Minus(ps[ref[1]].ts, w)
  BY <1>1, TrimCut
<1> HIDE DEF s
<1>3. ASSUME NEW q \in M \ Els(s), NEW r \in Els(ref) \cup {Len(ps)}
      PROVE  ps[q].ts <= Minus(ps[r].ts, w)
  <2>1. CASE q \notin Els(stack)
    BY <2>1 DEF Covered
  <2>2. CASE q \in Els(stack)
    <3>1. ref # <<>> /\ ps[q].ts <= Minus(ps[ref[1]].ts, w)
      BY <1>2, <2>2
    <3>2. Len(ref) \in Nat /\ Len(ref) >= 1 /\ ref[1] \in 1 .. Len(ps)
          /\ \A i \in 1 .. Len(ref) : ref[i] \in 1 .. Len(ps)
      BY <1>1, <3>1
    <3>3. r \in 1 .. Len(ps) /\ ps[ref[1]].ts <= ps[r].ts
      <4>1. CASE r \in Els(ref)
        <5>1. PICK i \in 1 .. Len(ref) : r = ref[i]
          BY <4>1 DEF Els
        <5>2. 1 \in 1 .. Len(ref) /\ 1 <= i
          BY <3>2
        <5> QED
          BY <3>2, <5>1, <5>2 DEF StackOf
      <4>2. CASE r = Len(ps)
        <5>1. Len(ps) \in 1 .. Len(ps) /\ ref[1] <= Len(ps)
          BY <3>2 DEF Stamps
        <5> QED
          BY <3>2, <4>2, <5>1 DEF InTime
      <4> QED
        BY <4>1, <4>2
    <3>4. ps[ref[1]].ts \in Nat /\ ps[r].ts \in Nat /\ ps[q].ts \in Nat
      BY <3>2, <3>3 DEF Stamps
    <3>5. /\ Minus(ps[ref[1]].ts, w) <= Minus(ps[r].ts, w)
          /\ Minus(ps[ref[1]].ts, w) \in Nat /\ Minus(ps[r].ts, w) \in Nat
      BY <3>3, <3>4, MinusMono
    <3> QED
      BY <3>1, <3>4, <3>5
  <2> QED
    BY <2>1, <2>2
<1>4. Els(s) \subseteq M
  BY <1>2 DEF Covered
<1>5. Covered(ps, s, M, ref, w)
  BY <1>2, <1>3, <1>4 DEF Covered
<1> QED
  BY <1>5 DEF s

\* Packets that are no longer in M leave the stack.
LEMMA CoverShrink ==
  ASSUME NEW ps, NEW M, NEW stack, NEW ref, NEW w, Covered(ps, stack, M, ref, w),
         NEW M1, M1 \subseteq M, NEW s, Increasing(s), Els(s) = Els(stack) \cap M1,
         NEW ref1, Els(ref1) \subseteq Els(ref)
  PROVE  Covered(ps, s, M1, ref1, w)
BY DEF Covered

-----------------------------------------------------------------------------
(* What the searches find.                                                 *)

\* The positions of a sorted column between two times.
LEMMA RangeExact ==
  ASSUME NEW col \in Seq(Nat), Sorted(col), NEW lo \in Nat, NEW hi \in Nat,
         NEW i \in 1 .. Len(col)
  PROVE  LET first == FirstValid(col, lo)
             last  == LastValid(col, hi, first)
         IN  (col[i] > lo /\ col[i] < hi) <=> (first # 0 /\ last # 0 /\ i \in first .. last)
<1> DEFINE first == FirstValid(col, lo)
           last  == LastValid(col, hi, first)
           L     == Len(col)
<1> SUFFICES (col[i] > lo /\ col[i] < hi) <=> (first # 0 /\ last # 0 /\ i \in first .. last)
  OBVIOUS
<1>1. L \in Nat /\ \A j \in 1 .. L : col[j] \in Nat
  OBVIOUS
<1>2. /\ first \in 0 .. L
      /\ first = 0 => \A j \in 1 .. L : col[j] <= lo
      /\ first # 0 => col[first] > lo /\ \A j \in 1 .. L : j < first => col[j] <= lo
  BY FirstValidFacts
<1> HIDE DEF first
<1>3. CASE first = 0
  BY <1>1, <1>2, <1>3
<1>4. CASE first # 0
  <2>1. first \in 1 .. L
    BY <1>1, <1>2, <1>4
  <2>2. /\ last \in 0 .. L
        /\ last = 0 => \A j \in first .. L : col[j] >= hi
        /\ last # 0 => /\ last >= first /\ col[last] < hi
                       /\ \A j \in first .. L : last < j => col[j] >= hi
    BY <2>1, LastValidFacts
  <2> HIDE DEF last
  <2>3. ASSUME col[i] > lo, col[i] < hi PROVE last # 0 /\ i \in first .. last
    <3>1. i >= first
      BY <1>1, <1>2, <1>4, <2>3
    <3>2. i \in first .. L
      BY <1>1, <2>1, <3>1
    <3>3. last # 0
      BY <1>1, <2>2, <2>3, <3>2
    <3>4. ~(last < i)
      BY <1>1, <2>2, <2>3, <3>2, <3>3
    <3> QED
      BY <1>1, <2>1, <2>2, <3>1, <3>3, <3>4
  <2>4. ASSUME last # 0, i \in first .. last PROVE col[i] > lo /\ col[i] < hi
    <3>1. last \in 1 .. L /\ first <= i /\ i <= last
      BY <1>1, <2>1, <2>2, <2>4
    <3>2. col[first] <= col[i] /\ col[i] <= col[last]
      BY <2>1, <3>1 DEF Sorted
    <3>3. col[first] \in Nat /\ col[i] \in Nat /\ col[last] \in Nat
          /\ col[first] > lo /\ col[last] < hi
      BY <1>1, <1>2, <1>4, <2>1, <2>2, <3>1
    <3> QED
      BY <3>2, <3>3, SMTT(60)
  <2> QED
    BY <1>4, <2>3, <2>4
<1> QED
  BY <1>3, <1>4

\* checkNegation and the aggregates look at the packets between two times.
LEMMA BetweenExact ==
  ASSUME NEW ps, Stamps(ps), NEW stack, StackOf(ps, stack, 1 .. Len(ps)), NEW b, NEW pe,
         LowerTS(ps, b, pe) \in Nat, ps[pe[b.upperId + 1]].ts \in Nat
  PROVE  Between(ps, stack, b, pe) =
           {q \in Els(stack) : /\ ps[q].ts > LowerTS(ps, b, pe)
                               /\ ps[q].ts < ps[pe[b.upperId + 1]].ts}
<1> DEFINE col   == Column(ps, stack)
           lo    == LowerTS(ps, b, pe)
           hi    == ps[pe[b.upperId + 1]].ts
           first == FirstValid(col, lo)
           last  == LastValid(col, hi, first)
           L     == Len(stack)
<1>1. L \in Nat /\ col \in Seq(Nat) /\ Len(col) = L /\ Sorted(col)
  BY ColumnFacts
<1>2. \A j \in 1 .. L : col[j] = ps[stack[j]].ts
  BY DEF Column
<1>3. Between(ps, stack, b, pe) =
        IF first = 0 \/ last = 0 THEN {} ELSE {stack[i] : i \in first .. last}
  BY DEF Between
<1>4. lo \in Nat /\ hi \in Nat
  OBVIOUS
<1> HIDE DEF col, lo, hi
<1>5. /\ first \in 0 .. L
      /\ first # 0 => last \in 0 .. L
  <2>1. first \in 0 .. L
    BY <1>1, <1>4, FirstValidFacts
  <2>2. first # 0 => first \in 1 .. Len(col)
    BY <1>1, <2>1
  <2> HIDE DEF first
  <2> QED
    BY <1>1, <1>4, <2>1, <2>2, LastValidFacts
<1>6. \A i \in 1 .. L :
        (col[i] > lo /\ col[i] < hi) <=> (first # 0 /\ last # 0 /\ i \in first .. last)
  BY <1>1, <1>4, RangeExact
<1> HIDE DEF first, last
<1>7. first # 0 /\ last # 0 => \A i \in first .. last : i \in 1 .. L
  BY <1>1, <1>5
<1>8. \A i \in 1 .. L : (ps[stack[i]].ts > lo /\ ps[stack[i]].ts < hi)
                          <=> (first # 0 /\ last # 0 /\ i \in first .. last)
  BY <1>2, <1>6
<1>9. Between(ps, stack, b, pe) = {q \in Els(stack) : ps[q].ts > lo /\ ps[q].ts < hi}
  BY <1>3, <1>7, <1>8 DEF Els
<1> QED
  BY <1>9 DEF lo, hi

\* What a negation or an aggregate finds in its stack is what there is in M.
FindsAll(ps, stack, b, pe, M) ==
  {q \in Between(ps, stack, b, pe) : CheckParameters(ps, q, pe, b.pars)}
    = {q \in M : InBetween(ps, q, b, pe)}

\* It is when the stack covers M as far as the bound reaches back.
LEMMA BoundExact ==
  ASSUME NEW ps, Stamps(ps), NEW stack, StackOf(ps, stack, 1 .. Len(ps)),
         NEW M, M \subseteq 1 .. Len(ps), NEW ref, NEW w \in Nat, Covered(ps, stack, M, ref, w),
         NEW b, NEW pe, pe[b.upperId + 1] \in Els(ref), pe[b.upperId + 1] \in 1 .. Len(ps),
         LowerTS(ps, b, pe) \in Nat,
         Minus(ps[pe[b.upperId + 1]].ts, w) <= LowerTS(ps, b, pe)
  PROVE  FindsAll(ps, stack, b, pe, M)
<1> DEFINE up == pe[b.upperId + 1]
           lo == LowerTS(ps, b, pe)
<1>1. ps[up].ts \in Nat /\ Minus(ps[up].ts, w) \in Nat
  BY SMTT(60) DEF Stamps, Minus
<1>2. Between(ps, stack, b, pe) = {q \in Els(stack) : ps[q].ts > lo /\ ps[q].ts < ps[up].ts}
  BY <1>1, BetweenExact
<1>3. \A q \in M : InBetween(ps, q, b, pe) <=>
        ps[q].ts < ps[up].ts /\ ps[q].ts > lo /\ CheckParameters(ps, q, pe, b.pars)
  BY DEF InBetween
<1> HIDE DEF up, lo
<1>4. Els(stack) \subseteq M /\ \A q \in M \ Els(stack) : ps[q].ts <= Minus(ps[up].ts, w)
  BY DEF Covered, up
<1>5. ASSUME NEW q \in M, ps[q].ts > lo PROVE q \in Els(stack)
  <2>1. ps[q].ts \in Nat /\ lo \in Nat /\ Minus(ps[up].ts, w) <= lo
    BY DEF Stamps, lo, up
  <2> QED
    BY <1>1, <1>4, <1>5, <2>1
<1> QED
  BY <1>2, <1>3, <1>4, <1>5 DEF FindsAll

-----------------------------------------------------------------------------
(* What the stacks of a rule cover.                                        *)

\* The packets that match negation n, or aggregate a.
NegPkts(ps, n) == {q \in 1 .. Len(ps) : n \in ps[q].negs}
AggPkts(ps, a) == {q \in 1 .. Len(ps) : a \in ps[q].aggs}

\* Each stack keeps what can still be needed: that of a state all packets not yet
\* consumed that are within reach of the stack of the state it refers to, that of a
\* negation or an aggregate all within reach of its upper state.
StatesCovered(ps, used, rec) ==
  \A k \in States \ {0} :
    Covered(ps, rec[k], Free(ps, used)[k], rec[rule.refersTo[k]], rule.win[k])

NegsCovered(ps, rec, recN) ==
  \A n \in Negs : Covered(ps, recN[n], NegPkts(ps, n), rec[rule.negs[n].upperId],
                          NegWindow(rule.negs[n]))

AggsCovered(ps, rec, recA) ==
  \A a \in Aggs : Covered(ps, recA[a], AggPkts(ps, a), rec[rule.aggs[a].upperId],
                          rule.aggs[a].lowerTime)

\* A packet from the stack of each state up to k, each in its window.
Drawn(ps, rec, k, pe) ==
  /\ pe \in Seq(1 .. Len(ps)) /\ Len(pe) = k + 1
  /\ \A m \in 0 .. k : pe[m + 1] \in Els(rec[m])
  /\ \A m \in 1 .. k : InWindow(ps, pe[m + 1], pe[rule.refersTo[m] + 1], rule.win[m])

\* A negation or aggregate of a local rule reaches back no further than its stack.
LEMMA BoundReach ==
  ASSUME rule \in Rules, NEW ps, Stamps(ps), NEW rec, NEW k \in States, NEW pe,
         Drawn(ps, rec, k, pe), NEW b, NEW w \in Nat,
         b.upperId \in 0 .. k, b.lowerTime \in Nat, b.lowerId \in {-1} \cup 1 .. k,
         b.lowerId < 0 => w = b.lowerTime,
         b.lowerId >= 0 => b.upperId = rule.refersTo[b.lowerId] /\ w >= rule.win[b.lowerId]
  PROVE  /\ pe[b.upperId + 1] \in Els(rec[b.upperId])
         /\ pe[b.upperId + 1] \in 1 .. Len(ps)
         /\ LowerTS(ps, b, pe) \in Nat
         /\ Minus(ps[pe[b.upperId + 1]].ts, w) <= LowerTS(ps, b, pe)
<1> DEFINE up == pe[b.upperId + 1]
           lo == b.lowerId
<1>1. k \in Nat /\ Len(pe) = k + 1 /\ \A m \in 0 .. k : pe[m + 1] \in 1 .. Len(ps)
  <2>1. NumStates - 1 \in Nat /\ States = 0 .. NumStates - 1
    BY RuleFacts
  <2>2. k \in Nat
    BY <2>1
  <2>3. \A m \in 0 .. k : m + 1 \in 1 .. Len(pe)
    BY <2>2 DEF Drawn
  <2>4. pe \in Seq(1 .. Len(ps)) /\ Len(pe) = k + 1
    BY DEF Drawn
  <2> QED
    BY <2>2, <2>3, <2>4, SMTT(60)
<1>2. up \in Els(rec[b.upperId]) /\ up \in 1 .. Len(ps)
  BY <1>1 DEF Drawn
<1>3. ps[up].ts \in Nat
  BY <1>2 DEF Stamps
<1>4. CASE b.lowerId < 0
  <2>1. LowerTS(ps, b, pe) = Minus(ps[up].ts, w)
    BY <1>4 DEF LowerTS
  <2>2. Minus(ps[up].ts, w) \in Nat
    BY <1>3 DEF Minus
  <2> QED
    BY <1>2, <2>1, <2>2
<1>5. CASE ~(b.lowerId < 0)
  <2>1. lo \in 1 .. k /\ b.upperId = rule.refersTo[lo] /\ w >= rule.win[lo] /\ lo >= 0
    BY <1>1, <1>5
  <2>2. LowerTS(ps, b, pe) = ps[pe[lo + 1]].ts
    BY <1>5 DEF LowerTS
  <2>3. pe[lo + 1] \in 1 .. Len(ps)
    BY <1>1, <2>1
  <2>4. ps[pe[lo + 1]].ts \in Nat
    BY <2>3 DEF Stamps
  <2>5. ps[pe[lo + 1]].ts > Minus(ps[up].ts, rule.win[lo])
    BY <2>1 DEF Drawn, InWindow
  <2>6. rule.win[lo] \in Nat
    <3>1. lo \in 1 .. NumStates - 1
      BY <1>1, <2>1, RuleFacts
    <3> QED
      BY <3>1, RuleFacts
  <2>7. Minus(ps[up].ts, w) <= Minus(ps[up].ts, rule.win[lo])
    BY <1>3, <2>1, <2>6, MinusAnti
  <2>8. Minus(ps[up].ts, w) \in Nat /\ Minus(ps[up].ts, rule.win[lo]) \in Nat
    BY <1>3, <2>6 DEF Minus
  <2> QED
    BY <1>2, <2>2, <2>4, <2>5, <2>7, <2>8
<1> QED
  BY <1>4, <1>5

\* A partial event is invalidated exactly when it is negated.
LEMMA NegExact ==
  ASSUME rule \in Rules, RuleLocal(rule), NEW ps, Stamps(ps), NEW rec, NEW recN,
         StacksIn(ps, recN, Negs, All(ps, Negs)), NegsCovered(ps, rec, recN),
         NEW k \in States, NEW pe, Drawn(ps, rec, k, pe)
  PROVE  ~Invalidated(ps, recN, k, pe) <=> NotNegated(ps, k, pe)
<1>1. ASSUME NEW n \in Linked(k)
      PROVE  CheckNegation(ps, recN, n, pe) <=>
               \E q \in 1 .. Len(ps) : n \in ps[q].negs /\ InBetween(ps, q, rule.negs[n], pe)
  <2> DEFINE b == rule.negs[n]
             w == NegWindow(b)
             M == NegPkts(ps, n)
  <2>1. n \in Negs /\ k = IF b.lowerId < 0 THEN b.upperId ELSE b.lowerId
    BY DEF Linked
  <2>2. /\ StackOf(ps, recN[n], 1 .. Len(ps))
        /\ Covered(ps, recN[n], M, rec[b.upperId], w)
    BY <2>1 DEF StacksIn, All, NegsCovered
  <2>3. M \subseteq 1 .. Len(ps)
    BY DEF NegPkts
  <2>4. NumStates - 1 \in Nat /\ States = 0 .. NumStates - 1 /\ w \in Nat
        /\ NumStates - 1 = Len(rule.refersTo)
    BY <2>1, RuleFacts
  <2>5. /\ b.upperId \in 0 .. NumStates - 1 /\ b.lowerTime \in Nat
        /\ b.lowerId \in {-1} \cup 1 .. NumStates - 1
    BY <2>1, <2>4, RulesAssumption DEF RuleOK, BoundsOK, Negs
  <2>6. b.lowerId < 0 \/ b.upperId = rule.refersTo[b.lowerId]
    BY <2>1 DEF RuleLocal, Negs
  <2>7. /\ b.lowerId < 0 => w = b.lowerTime
        /\ b.lowerId >= 0 => b.upperId = rule.refersTo[b.lowerId] /\ w = rule.win[b.lowerId]
    BY <2>5, <2>6 DEF NegWindow
  <2> HIDE DEF b, w, M
  <2>8. b.upperId \in 0 .. k /\ b.lowerId \in {-1} \cup 1 .. k
    <3>1. CASE b.lowerId < 0
      BY <2>1, <2>4, <2>5, <3>1
    <3>2. CASE ~(b.lowerId < 0)
      <4>1. b.lowerId \in 1 .. NumStates - 1 /\ k = b.lowerId /\ b.upperId = rule.refersTo[k]
        BY <2>1, <2>5, <2>6, <3>2
      <4>2. b.upperId \in 0 .. k - 1
        BY <4>1, RuleFacts
      <4> QED
        BY <2>4, <4>1, <4>2
    <3> QED
      BY <3>1, <3>2
  <2>9. b.lowerId >= 0 => b.upperId = rule.refersTo[b.lowerId] /\ w >= rule.win[b.lowerId]
    BY <2>4, <2>7
  <2>10. /\ pe[b.upperId + 1] \in Els(rec[b.upperId])
         /\ pe[b.upperId + 1] \in 1 .. Len(ps)
         /\ LowerTS(ps, b, pe) \in Nat
         /\ Minus(ps[pe[b.upperId + 1]].ts, w) <= LowerTS(ps, b, pe)
    BY <2>4, <2>5, <2>7, <2>8, <2>9, BoundReach
  <2>11. FindsAll(ps, recN[n], b, pe, M)
    BY <2>2, <2>3, <2>4, <2>10, BoundExact
  <2>12. CheckNegation(ps, recN, n, pe) <=>
           \E q \in Between(ps, recN[n], b, pe) : CheckParameters(ps, q, pe, b.pars)
    BY DEF CheckNegation, b
  <2>13. CheckNegation(ps, recN, n, pe) <=> \E q \in M : InBetween(ps, q, b, pe)
    BY <2>11, <2>12 DEF FindsAll
  <2> QED
    BY <2>13 DEF M, NegPkts, b
<1> QED
  BY <1>1 DEF Invalidated, NotNegated

\* An aggregate is computed from the packets it should be computed from.
LEMMA AggExact ==
  ASSUME rule \in Rules, RuleLocal(rule), NEW ps, Stamps(ps), NEW rec, NEW recA,
         StacksIn(ps, recA, Aggs, All(ps, Aggs)), AggsCovered(ps, rec, recA),
         NEW pe, Drawn(ps, rec, NumStates - 1, pe), NEW a \in Aggs
  PROVE  {q \in Between(ps, recA[a], rule.aggs[a], pe) :
            CheckParameters(ps, q, pe, rule.aggs[a].pars)} = AggregateMeaning(ps, a, pe)
<1> DEFINE b == rule.aggs[a]
           w == b.lowerTime
           M == AggPkts(ps, a)
<1>1. /\ StackOf(ps, recA[a], 1 .. Len(ps)) /\ Covered(ps, recA[a], M, rec[b.upperId], w)
  BY DEF StacksIn, All, AggsCovered
<1>2. M \subseteq 1 .. Len(ps)
  BY DEF AggPkts
<1>3. NumStates - 1 \in Nat /\ States = 0 .. NumStates - 1
      /\ NumStates - 1 = Len(rule.refersTo) /\ NumStates - 1 \in States
  BY RuleFacts
<1>4. /\ b.upperId \in 0 .. NumStates - 1 /\ w \in Nat
      /\ b.lowerId \in {-1} \cup 1 .. NumStates - 1
  BY <1>3, RulesAssumption DEF RuleOK, BoundsOK, Aggs
<1>5. b.lowerId < 0 \/ (b.upperId = rule.refersTo[b.lowerId] /\ w >= rule.win[b.lowerId])
  BY DEF RuleLocal, Aggs
<1>6. b.lowerId >= 0 => b.upperId = rule.refersTo[b.lowerId] /\ w >= rule.win[b.lowerId]
  BY <1>4, <1>5
<1> HIDE DEF b, M
<1>7. /\ pe[b.upperId + 1] \in Els(rec[b.upperId])
      /\ pe[b.upperId + 1] \in 1 .. Len(ps)
      /\ LowerTS(ps, b, pe) \in Nat
      /\ Minus(ps[pe[b.upperId + 1]].ts, w) <= LowerTS(ps, b, pe)
  BY <1>3, <1>4, <1>6, BoundReach
<1> HIDE DEF w
<1>8. FindsAll(ps, recA[a], b, pe, M)
  BY <1>1, <1>2, <1>4, <1>7, BoundExact
<1>9. {q \in M : InBetween(ps, q, b, pe)} = AggregateMeaning(ps, a, pe)
  BY DEF M, AggPkts, AggregateMeaning, b
<1> QED
  BY <1>8, <1>9 DEF FindsAll, b

-----------------------------------------------------------------------------
(* getWinEvents finds the packets that may extend a partial event.         *)

\* The stacks are sorted and cover what they should.
StacksReady(ps, used, rec, recN) ==
  /\ StacksOf(ps, rec, Free(ps, used)) /\ StatesCovered(ps, used, rec)
  /\ StacksIn(ps, recN, Negs, All(ps, Negs)) /\ NegsCovered(ps, rec, recN)

\* A partial event s and the packet q of the next state, k.
NextChoice(ps, rec, k, s, q) ==
  /\ Append(s, q) \in Seq(1 .. Len(ps)) /\ Len(Append(s, q)) = k + 1
  /\ Append(s, q)[k + 1] = q /\ \A j \in 1 .. k : Append(s, q)[j] = s[j]
  /\ s \in Seq(1 .. Len(ps)) /\ Len(s) = k /\ \A j \in 1 .. k : s[j] \in 1 .. Len(ps)
  /\ rule.refersTo[k] \in 0 .. k - 1 /\ rule.refersTo[k] + 1 \in 1 .. k
  /\ q \in Els(rec[k]) /\ InWindow(ps, q, s[rule.refersTo[k] + 1], rule.win[k])
       => Drawn(ps, rec, k, Append(s, q))

\* Appending a packet of the stack, in its window, is such a choice.
LEMMA DrawnAppend ==
  ASSUME rule \in Rules, NEW ps, NEW rec, NEW k \in 1 .. NumStates - 1, NEW s,
         Drawn(ps, rec, k - 1, s), NEW q \in 1 .. Len(ps)
  PROVE  NextChoice(ps, rec, k, s, q)
<1> DEFINE e == Append(s, q)
           ref == rule.refersTo[k]
<1>1. NumStates - 1 \in Nat /\ \A m \in 1 .. k : rule.refersTo[m] \in 0 .. m - 1
  BY RuleFacts
<1>2. k \in Nat /\ ref \in 0 .. k - 1 /\ ref + 1 \in 1 .. k
  BY <1>1
<1>3. s \in Seq(1 .. Len(ps)) /\ Len(s) = k
  BY <1>2 DEF Drawn
<1>4. \A j \in 1 .. k : s[j] \in 1 .. Len(ps)
  BY <1>3
<1>5. e \in Seq(1 .. Len(ps)) /\ Len(e) = k + 1 /\ e[k + 1] = q /\ \A j \in 1 .. k : e[j] = s[j]
  BY <1>3
<1> HIDE DEF e
<1>6. ASSUME q \in Els(rec[k]), InWindow(ps, q, s[ref + 1], rule.win[k])
      PROVE  Drawn(ps, rec, k, e)
  <2>1. ASSUME NEW m \in 0 .. k PROVE e[m + 1] \in Els(rec[m])
    <3>1. CASE m = k
      BY <1>5, <1>6, <3>1
    <3>2. CASE m # k
      <4>1. m \in 0 .. k - 1 /\ m + 1 \in 1 .. k
        BY <1>2, <3>2
      <4> QED
        BY <1>5, <4>1 DEF Drawn
    <3> QED
      BY <3>1, <3>2
  <2>2. ASSUME NEW m \in 1 .. k
        PROVE  InWindow(ps, e[m + 1], e[rule.refersTo[m] + 1], rule.win[m])
    <3>1. rule.refersTo[m] + 1 \in 1 .. k
      BY <1>1, <1>2, SMTT(60)
    <3>2. CASE m = k
      BY <1>5, <1>6, <3>1, <3>2
    <3>3. CASE m # k
      <4>1. m \in 1 .. k - 1 /\ m + 1 \in 1 .. k
        BY <1>2, <3>3
      <4>2. InWindow(ps, s[m + 1], s[rule.refersTo[m] + 1], rule.win[m])
        BY <4>1 DEF Drawn
      <4> QED
        BY <1>5, <3>1, <4>1, <4>2
    <3> QED
      BY <3>2, <3>3
  <2> QED
    BY <1>5, <2>1, <2>2 DEF Drawn
<1> QED
  BY <1>2, <1>3, <1>4, <1>5, <1>6 DEF NextChoice, e

\* A packet may extend a partial event exactly when it is on the stack, in the
\* window, with the parameters, and not invalidated.
LEMMA MayExact ==
  ASSUME rule \in Rules, RuleLocal(rule), NEW ps, Stamps(ps), NEW used, NEW rec, NEW recN,
         StacksReady(ps, used, rec, recN), NEW k \in 1 .. NumStates - 1,
         NEW s, Drawn(ps, rec, k - 1, s), NEW q \in 1 .. Len(ps)
  PROVE  MayExtend(ps, used, k, Append(s, q)) <=>
           /\ q \in Els(rec[k])
           /\ InWindow(ps, q, s[rule.refersTo[k] + 1], rule.win[k])
           /\ CheckParameters(ps, q, s, rule.branch[k])
           /\ ~Invalidated(ps, recN, k, Append(s, q))
<1> DEFINE e   == Append(s, q)
           ref == rule.refersTo[k]
           up  == s[ref + 1]
<1>1. /\ e[k + 1] = q /\ \A j \in 1 .. k : e[j] = s[j]
      /\ \A j \in 1 .. k : s[j] \in 1 .. Len(ps)
      /\ ref \in 0 .. k - 1 /\ ref + 1 \in 1 .. k
      /\ q \in Els(rec[k]) /\ InWindow(ps, q, up, rule.win[k]) => Drawn(ps, rec, k, e)
  <2>1. NextChoice(ps, rec, k, s, q)
    BY DrawnAppend
  <2> QED
    BY <2>1 DEF NextChoice
<1>2. NumStates - 1 \in Nat /\ k \in States \ {0} /\ rule.win[k] \in Nat
      /\ NumStates - 1 = Len(rule.refersTo)
  BY RuleFacts
<1> HIDE DEF e
<1>3. MayExtend(ps, used, k, e) <=>
        /\ Available(ps, used, q, k) /\ InWindow(ps, q, up, rule.win[k])
        /\ CheckParameters(ps, q, e, rule.branch[k]) /\ NotNegated(ps, k, e)
  BY <1>1 DEF MayExtend
<1>4. CheckParameters(ps, q, e, rule.branch[k]) <=> CheckParameters(ps, q, s, rule.branch[k])
  <2>1. \A par \in rule.branch[k] : par.ev + 1 \in 1 .. k
    <3>1. \A par \in rule.branch[k] : par.ev \in 0 .. k - 1
      BY <1>2 DEF RuleLocal
    <3> QED
      BY <1>2, <3>1
  <2>2. \A par \in rule.branch[k] : e[par.ev + 1] = s[par.ev + 1]
    BY <1>1, <2>1
  <2> QED
    BY <2>2 DEF CheckParameters
<1>5. Available(ps, used, q, k) <=> q \in Free(ps, used)[k]
  BY <1>2 DEF Free
<1>6. /\ Els(rec[k]) \subseteq Free(ps, used)[k]
      /\ \A r \in Els(rec[ref]) : q \in Free(ps, used)[k] /\ q \notin Els(rec[k])
                                    => ps[q].ts <= Minus(ps[r].ts, rule.win[k])
  BY <1>2 DEF StacksReady, StatesCovered, Covered
<1>7. up \in Els(rec[ref])
  BY <1>1 DEF Drawn
<1>8. ASSUME Available(ps, used, q, k), InWindow(ps, q, up, rule.win[k]) PROVE q \in Els(rec[k])
  <2>1. ps[q].ts \in Nat /\ ps[up].ts \in Nat
    BY <1>1 DEF Stamps
  <2>2. Minus(ps[up].ts, rule.win[k]) \in Nat /\ ps[q].ts > Minus(ps[up].ts, rule.win[k])
    BY <1>2, <1>8, <2>1, SMTT(60) DEF Minus, InWindow
  <2> QED
    BY <1>5, <1>6, <1>7, <1>8, <2>1, <2>2
<1>9. q \in Els(rec[k]) /\ InWindow(ps, q, up, rule.win[k])
        => (~Invalidated(ps, recN, k, e) <=> NotNegated(ps, k, e))
  BY <1>1, <1>2, NegExact DEF StacksReady
<1> QED
  BY <1>3, <1>4, <1>5, <1>6, <1>8, <1>9 DEF e

\* Packets that come in order are in the order of their numbers.
LEMMA BeforeExact ==
  ASSUME NEW ps, Stamps(ps), InTime(ps), NEW p \in 1 .. Len(ps), NEW q \in 1 .. Len(ps)
  PROVE  Before(ps, p, q) <=> p < q
<1>1. ps[p].ts \in Nat /\ ps[q].ts \in Nat /\ p \in Nat /\ q \in Nat
  BY DEF Stamps
<1>2. (p <= q => ps[p].ts <= ps[q].ts) /\ (q <= p => ps[q].ts <= ps[p].ts)
  BY DEF InTime
<1> QED
  BY <1>1, <1>2 DEF Before

\* The selection policy, of all the packets that may extend a partial event.
Prefers(kind, U, q) ==
  \A x \in U : (kind = "first" => q <= x) /\ (kind = "last" => x <= q)

\* When packets come in order, Selected is that policy.
LEMMA SelectedExact ==
  ASSUME rule \in Rules, NEW ps, Stamps(ps), InTime(ps), NEW used, NEW rec,
         NEW k \in 1 .. NumStates - 1, NEW s, Drawn(ps, rec, k - 1, s), NEW q \in 1 .. Len(ps),
         NEW U, U = {x \in 1 .. Len(ps) : MayExtend(ps, used, k, Append(s, x))}
  PROVE  Selected(ps, used, k, Append(s, q)) <=> Prefers(rule.kind[k], U, q)
<1> DEFINE e == Append(s, q)
<1>1. /\ e \in Seq(1 .. Len(ps)) /\ Len(e) = k + 1 /\ e[k + 1] = q
      /\ \A j \in 1 .. k : e[j] = s[j]
  <2>1. NextChoice(ps, rec, k, s, q)
    BY DrawnAppend
  <2> QED
    BY <2>1 DEF NextChoice
<1>2. NumStates - 1 \in Nat /\ k \in Nat
  BY RuleFacts
<1> HIDE DEF e
<1>3. ASSUME NEW x \in 1 .. Len(ps) PROVE [e EXCEPT ![k + 1] = x] = Append(s, x)
  <2> DEFINE f == [e EXCEPT ![k + 1] = x]
             g == Append(s, x)
  <2>1. /\ g \in Seq(1 .. Len(ps)) /\ Len(g) = k + 1 /\ g[k + 1] = x
        /\ \A j \in 1 .. k : g[j] = s[j]
    <3>1. NextChoice(ps, rec, k, s, x)
      BY DrawnAppend
    <3> QED
      BY <3>1 DEF NextChoice
  <2>2. k + 1 \in 1 .. Len(e)
    BY <1>1, <1>2
  <2>3. /\ f \in Seq(1 .. Len(ps)) /\ Len(f) = Len(e)
        /\ \A j \in 1 .. Len(e) : f[j] = IF j = k + 1 THEN x ELSE e[j]
    BY <1>1, <2>2, ExceptSeq
  <2> HIDE DEF f, g
  <2>4. \A j \in 1 .. k + 1 : j \in 1 .. k \/ j = k + 1
    BY <1>2
  <2>5. \A j \in 1 .. k : j \in 1 .. k + 1 /\ j # k + 1
    BY <1>2
  <2>6. \A j \in 1 .. Len(f) : f[j] = g[j]
    BY <1>1, <2>1, <2>3, <2>4, <2>5
  <2>7. f = g
    BY <1>1, <2>1, <2>3, <2>6, SeqEqual
  <2> QED
    BY <2>7 DEF f, g
<1>4. Selected(ps, used, k, e) <=>
        \A x \in 1 .. Len(ps) : MayExtend(ps, used, k, Append(s, x)) =>
          /\ rule.kind[k] = "first" => ~Before(ps, x, q)
          /\ rule.kind[k] = "last"  => ~Before(ps, q, x)
  BY <1>1, <1>3 DEF Selected
<1>5. \A x \in U : (Before(ps, x, q) <=> x < q) /\ (Before(ps, q, x) <=> q < x)
  BY BeforeExact
<1>6. \A x \in U : (~Before(ps, x, q) <=> q <= x) /\ (~Before(ps, q, x) <=> x <= q)
  <2>1. q \in Nat /\ \A x \in U : x \in Nat
    BY DEF Stamps
  <2> QED
    BY <1>5, <2>1
<1>7. Selected(ps, used, k, e) <=>
        \A x \in U : /\ rule.kind[k] = "first" => ~Before(ps, x, q)
                     /\ rule.kind[k] = "last"  => ~Before(ps, q, x)
  BY <1>4
<1> QED
  BY <1>6, <1>7 DEF Prefers, e

\* An extension of a partial event that the rule means.
Extends(ps, used, k, e) == MayExtend(ps, used, k, e) /\ Selected(ps, used, k, e)

\* The positions that Choose takes are those of the packets the policy prefers.
TakesPreferred(kind, stack, U, usable, first, last) ==
  Choose(kind, usable, first, last) = {i \in usable : Prefers(kind, U, stack[i])}

\* They are, on a stack in the order of the numbers.
LEMMA ChooseExact ==
  ASSUME NEW S, S \subseteq Nat, NEW stack \in Seq(S), Increasing(stack),
         NEW U, U \subseteq Els(stack), NEW kind \in {"each", "first", "last"}, NEW first, NEW last,
         NEW usable, usable = {i \in 1 .. Len(stack) : stack[i] \in U}
  PROVE  TakesPreferred(kind, stack, U, usable, first, last)
<1> DEFINE L == Len(stack)
<1>1. L \in Nat /\ \A i \in 1 .. L : stack[i] \in Nat
  <2>1. L \in Nat /\ \A i \in 1 .. L : stack[i] \in S
    OBVIOUS
  <2> QED
    BY <2>1
<1>2. \A i, j \in 1 .. L : i <= j <=> stack[i] <= stack[j]
  <2> SUFFICES ASSUME NEW i \in 1 .. L, NEW j \in 1 .. L PROVE i <= j <=> stack[i] <= stack[j]
    OBVIOUS
  <2>1. i < j => stack[i] < stack[j]
    BY DEF Increasing
  <2>2. j < i => stack[j] < stack[i]
    BY DEF Increasing
  <2>3. i \in Nat /\ j \in Nat /\ stack[i] \in Nat /\ stack[j] \in Nat
    BY <1>1
  <2>4. CASE i = j
    BY <2>3, <2>4
  <2>5. CASE i # j
    BY <2>1, <2>2, <2>3, <2>5
  <2> QED
    BY <2>4, <2>5
<1>3. \A x \in U : \E j \in usable : x = stack[j]
  BY DEF Els
<1>4. \A j \in usable : stack[j] \in U /\ j \in 1 .. L
  OBVIOUS
<1> HIDE DEF L
<1>5. ASSUME NEW i \in usable PROVE /\ (\A x \in U : stack[i] <= x) <=> (\A j \in usable : i <= j)
                                    /\ (\A x \in U : x <= stack[i]) <=> (\A j \in usable : j <= i)
  BY <1>2, <1>3, <1>4
<1>6. CASE kind = "each"
  <2>1. \A i \in usable : Prefers(kind, U, stack[i])
    BY <1>6 DEF Prefers
  <2>2. Choose(kind, usable, first, last) = usable
    BY <1>6 DEF Choose
  <2> QED
    BY <2>1, <2>2 DEF TakesPreferred
<1>7. CASE kind = "first"
  <2>1. \A i \in usable : Prefers(kind, U, stack[i]) <=> \A j \in usable : i <= j
    BY <1>5, <1>7 DEF Prefers
  <2>2. Choose(kind, usable, first, last) = {i \in usable : \A j \in usable : i <= j}
    BY <1>7 DEF Choose
  <2> QED
    BY <2>1, <2>2 DEF TakesPreferred
<1>8. CASE kind = "last"
  <2>1. \A i \in usable : Prefers(kind, U, stack[i]) <=> \A j \in usable : j <= i
    BY <1>5, <1>8 DEF Prefers
  <2>2. Choose(kind, usable, first, last) = {i \in usable : \A j \in usable : j <= i}
    BY <1>8 DEF Choose
  <2> QED
    BY <2>1, <2>2 DEF TakesPreferred
<1> QED
  BY <1>6, <1>7, <1>8

\* getWinEvents finds exactly the extensions that the rule means.
LEMMA WinExact ==
  ASSUME rule \in Rules, RuleLocal(rule), NEW ps, Stamps(ps), InTime(ps), NEW used,
         NEW rec, NEW recN, StacksReady(ps, used, rec, recN), NEW k \in 1 .. NumStates - 1,
         NEW s, Drawn(ps, rec, k - 1, s)
  PROVE  WinEvents(ps, rec, recN, k, s) =
           {Append(s, q) : q \in {x \in 1 .. Len(ps) : Extends(ps, used, k, Append(s, x))}}
<1> DEFINE stack  == rec[k]
           times  == Column(ps, stack)
           up     == s[rule.refersTo[k] + 1]
           tsUp   == ps[up].ts
           low    == Minus(tsUp, rule.win[k])
           first  == FirstValid(times, low)
           last   == LastValid(times, tsUp, first)
           Fit(q) == /\ CheckParameters(ps, q, s, rule.branch[k])
                     /\ ~Invalidated(ps, recN, k, Append(s, q))
           usable == {i \in first .. last : Fit(stack[i])}
           L      == Len(stack)
           U      == {x \in 1 .. Len(ps) : MayExtend(ps, used, k, Append(s, x))}
           W      == WinEvents(ps, rec, recN, k, s)
<1>1. W = IF first = 0 \/ times[first] >= tsUp THEN {}
          ELSE {Append(s, stack[i]) : i \in Choose(rule.kind[k], usable, first, last)}
  BY DEF WinEvents
<1>2. /\ NumStates - 1 \in Nat /\ k \in States \ {0} /\ rule.refersTo[k] \in 0 .. k - 1
      /\ rule.win[k] \in Nat /\ rule.kind[k] \in {"each", "first", "last"}
  BY RuleFacts
<1>3. StackOf(ps, stack, 1 .. Len(ps)) /\ Increasing(stack)
  <2>1. Free(ps, used)[k] \subseteq 1 .. Len(ps) /\ StackOf(ps, stack, Free(ps, used)[k])
    BY <1>2 DEF StacksReady, StacksOf, StacksIn
  <2>2. Increasing(stack)
    BY <1>2 DEF StacksReady, StatesCovered, Covered
  <2> QED
    BY <2>1, <2>2, StackMono
<1>4. stack \in Seq(1 .. Len(ps)) /\ L \in Nat /\ \A i \in 1 .. L : stack[i] \in 1 .. Len(ps)
  BY <1>3 DEF StackOf
<1>5. times \in Seq(Nat) /\ Len(times) = L /\ Sorted(times)
  BY <1>3, ColumnFacts
<1>6. \A i \in 1 .. L : times[i] = ps[stack[i]].ts
  BY DEF Column
<1>7. tsUp \in Nat /\ low \in Nat
  <2>1. s \in Seq(1 .. Len(ps)) /\ Len(s) = k /\ rule.refersTo[k] + 1 \in 1 .. k
    BY <1>2, SMTT(60) DEF Drawn
  <2>2. up \in 1 .. Len(ps)
    BY <2>1, SMTT(60)
  <2>3. tsUp \in Nat
    BY <2>2 DEF Stamps
  <2> QED
    BY <1>2, <2>3 DEF Minus
<1>8. \A q \in 1 .. Len(ps) : q \in U <=> /\ q \in Els(stack) /\ ps[q].ts > low /\ ps[q].ts < tsUp
                                           /\ Fit(q)
  <2> SUFFICES ASSUME NEW q \in 1 .. Len(ps)
               PROVE  MayExtend(ps, used, k, Append(s, q)) <=>
                        q \in Els(stack) /\ ps[q].ts > low /\ ps[q].ts < tsUp /\ Fit(q)
    OBVIOUS
  <2>1. MayExtend(ps, used, k, Append(s, q)) <=>
          q \in Els(stack) /\ InWindow(ps, q, up, rule.win[k]) /\ Fit(q)
    BY MayExact
  <2> QED
    BY <2>1 DEF InWindow
<1> HIDE DEF times, tsUp, low, Fit, up
<1>9. first \in 0 .. L /\ (first # 0 => last \in 0 .. L) /\ (first # 0 => times[first] > low)
      /\ (first # 0 /\ last = 0 => times[first] >= tsUp)
  <2>1. first \in 0 .. L /\ (first # 0 => times[first] > low)
    BY <1>5, <1>7, FirstValidFacts
  <2>2. first # 0 => first \in 1 .. Len(times) /\ first \in first .. Len(times)
    BY <1>4, <1>5, <2>1
  <2> HIDE DEF first
  <2>3. first # 0 => /\ last \in 0 .. Len(times)
                     /\ last = 0 => \A j \in first .. Len(times) : times[j] >= tsUp
    BY <1>5, <1>7, <2>2, LastValidFacts
  <2> QED
    BY <1>5, <2>1, <2>2, <2>3
<1>10. \A i \in 1 .. L :
         (times[i] > low /\ times[i] < tsUp) <=> (first # 0 /\ last # 0 /\ i \in first .. last)
  BY <1>5, <1>7, RangeExact
<1> HIDE DEF first, last, L
<1>11. \A i \in 1 .. L :
         stack[i] \in U <=> (first # 0 /\ last # 0 /\ i \in first .. last /\ Fit(stack[i]))
  <2>1. \A i \in 1 .. L : stack[i] \in Els(stack)
    BY DEF Els, L
  <2> HIDE DEF U
  <2> QED
    BY <1>4, <1>6, <1>8, <1>10, <2>1
<1>12. U \subseteq Els(stack) /\ U \subseteq 1 .. Len(ps)
  BY <1>8
<1> DEFINE V == {Append(s, q) : q \in {x \in 1 .. Len(ps) : Extends(ps, used, k, Append(s, x))}}
<1>13. V = {Append(s, q) : q \in {x \in U : Prefers(rule.kind[k], U, x)}}
  <2>1. \A x \in 1 .. Len(ps) :
          Selected(ps, used, k, Append(s, x)) <=> Prefers(rule.kind[k], U, x)
    BY SelectedExact
  <2>2. {x \in 1 .. Len(ps) : Extends(ps, used, k, Append(s, x))}
          = {x \in U : Prefers(rule.kind[k], U, x)}
    BY <2>1 DEF Extends
  <2> QED
    BY <2>2
<1>14. CASE first = 0 \/ times[first] >= tsUp
  <2>1. ASSUME NEW x \in U PROVE FALSE
    <3>1. PICK i \in 1 .. L : x = stack[i]
      BY <1>12 DEF Els, L
    <3>2. first # 0 /\ last # 0 /\ i \in first .. last /\ first \in 1 .. L /\ first <= i
          /\ times[i] < tsUp
      BY <1>4, <1>9, <1>10, <1>11, <3>1, SMTT(60)
    <3>3. times[first] <= times[i] /\ times[first] \in Nat /\ times[i] \in Nat
      BY <1>5, <3>2 DEF Sorted
    <3> QED
      BY <1>7, <1>14, <3>2, <3>3
  <2> HIDE DEF U
  <2>2. U = {}
    BY <2>1
  <2>3. V = {}
    BY <1>13, <2>2
  <2> QED
    BY <1>1, <1>14, <2>3
<1>15. CASE ~(first = 0 \/ times[first] >= tsUp)
  <2>1. first # 0 /\ last # 0 /\ last \in 1 .. L /\ first \in 1 .. L
    BY <1>4, <1>9, <1>15
  <2>2. \A i \in first .. last : i \in 1 .. L
    BY <1>4, <2>1
  <2> HIDE DEF U
  <2>3. usable = {i \in 1 .. Len(stack) : stack[i] \in U}
    BY <1>11, <2>1, <2>2 DEF L
  <2>4. 1 .. Len(ps) \subseteq Nat
    BY DEF Stamps
  <2> HIDE DEF usable, stack
  <2>5. TakesPreferred(rule.kind[k], stack, U, usable, first, last)
    BY <1>2, <1>3, <1>4, <1>12, <2>3, <2>4, ChooseExact
  <2>7. W = {Append(s, stack[i]) : i \in {j \in usable : Prefers(rule.kind[k], U, stack[j])}}
    BY <1>1, <1>15, <2>5 DEF TakesPreferred
  <2>8. V = W
    <3> HIDE DEF V, W
    <3>1. \A x : x \in W <=> \E i \in usable : Prefers(rule.kind[k], U, stack[i]) /\ x = Append(s, stack[i])
      BY <2>7
    <3>2. \A x : x \in V <=> \E q \in U : Prefers(rule.kind[k], U, q) /\ x = Append(s, q)
      BY <1>13
    <3>3. \A x \in U : \E i \in usable : x = stack[i]
      BY <1>12, <2>3 DEF Els
    <3>4. \A i \in usable : stack[i] \in U
      BY <2>3
    <3>5. \A x : x \in W <=> x \in V
      BY <3>1, <3>2, <3>3, <3>4
    <3> QED
      BY <3>5
  <2> QED
    BY <2>8
<1> QED
  BY <1>14, <1>15

-----------------------------------------------------------------------------
(* getPartialResults lists the partial events that the rule means.         *)

\* A choice of packets for states 0 .. k that the rule means.
Meant(ps, used, k, s) ==
  /\ s \in Seq(1 .. Len(ps)) /\ Len(s) = k + 1 /\ s[1] = Len(ps)
  /\ NotNegated(ps, 0, SubSeq(s, 1, 1))
  /\ \A j \in 1 .. k : Extends(ps, used, j, SubSeq(s, 1, j + 1))

\* The prefixes of a sequence and of the one with an element more.
LEMMA Prefixes ==
  ASSUME NEW S, NEW s \in Seq(S), NEW q \in S
  PROVE  /\ \A j \in 1 .. Len(s) : SubSeq(Append(s, q), 1, j) = SubSeq(s, 1, j)
         /\ SubSeq(Append(s, q), 1, Len(s) + 1) = Append(s, q)
<1> DEFINE e == Append(s, q)
<1>1. e \in Seq(S) /\ Len(e) = Len(s) + 1 /\ Len(s) \in Nat
  OBVIOUS
<1>2. e = s \o <<q>> /\ <<q>> \in Seq(S)
  BY AppendIsConcat
<1>3. ASSUME NEW j \in 1 .. Len(s) PROVE SubSeq(e, 1, j) = SubSeq(s, 1, j)
  <2>1. 1 \in 1 .. Len(s)
    BY <1>1
  <2> QED
    BY <1>2, <2>1, SubSeqOfConcat1
<1> HIDE DEF e
<1>4. SubSeq(e, 1, Len(e)) = e
  BY <1>1, SubSeqFull
<1> QED
  BY <1>1, <1>3, <1>4 DEF e

\* A sequence that is meant, and its last element.
LEMMA MeantStep ==
  ASSUME NEW ps, NEW used, NEW k \in Nat \ {0}, NEW e
  PROVE  Meant(ps, used, k, e) <=>
           \E s, q : /\ Meant(ps, used, k - 1, s) /\ q \in 1 .. Len(ps)
                     /\ e = Append(s, q) /\ Extends(ps, used, k, e)
<1> DEFINE S == 1 .. Len(ps)
<1>1. ASSUME NEW s \in Seq(S), NEW q \in S, Len(s) = k
      PROVE  /\ Meant(ps, used, k, Append(s, q)) <=>
                  Meant(ps, used, k - 1, s) /\ Extends(ps, used, k, Append(s, q))
  <2> DEFINE f == Append(s, q)
  <2> HIDE DEF S
  <2>1. f \in Seq(S) /\ Len(f) = k + 1 /\ \A j \in 1 .. k : f[j] = s[j]
    BY <1>1
  <2>2. 1 \in 1 .. k /\ Len(s) = (k - 1) + 1
    BY <1>1
  <2>3. f[1] = s[1]
    BY <2>1, <2>2
  <2>4. (\A j \in 1 .. k : SubSeq(f, 1, j) = SubSeq(s, 1, j)) /\ SubSeq(f, 1, k + 1) = f
    BY <1>1, Prefixes
  <2> HIDE DEF f
  <2>5. SubSeq(f, 1, 1) = SubSeq(s, 1, 1)
    BY <2>2, <2>4
  <2>6. \A j \in 1 .. k - 1 : SubSeq(f, 1, j + 1) = SubSeq(s, 1, j + 1)
    <3>1. \A j \in 1 .. k - 1 : j + 1 \in 1 .. k
      OBVIOUS
    <3> QED
      BY <2>4, <3>1
  <2>7. (\A j \in 1 .. k : j \in 1 .. k - 1 \/ j = k) /\ k \in 1 .. k
        /\ (\A j \in 1 .. k - 1 : j \in 1 .. k)
    OBVIOUS
  <2>8. (\A j \in 1 .. k : Extends(ps, used, j, SubSeq(f, 1, j + 1))) <=>
          /\ \A j \in 1 .. k - 1 : Extends(ps, used, j, SubSeq(s, 1, j + 1))
          /\ Extends(ps, used, k, f)
    BY <2>4, <2>6, <2>7
  <2>9. Meant(ps, used, k, f) <=> Meant(ps, used, k - 1, s) /\ Extends(ps, used, k, f)
    BY <1>1, <2>1, <2>2, <2>3, <2>5, <2>8 DEF Meant, S
  <2> QED
    BY <2>9 DEF f
<1>2. ASSUME Meant(ps, used, k, e) PROVE \E s \in Seq(S), q \in S : Len(s) = k /\ e = Append(s, q)
  <2>1. e \in Seq(S) /\ Len(e) = k + 1
    BY <1>2 DEF Meant
  <2> HIDE DEF S
  <2>2. e # <<>>
    BY <2>1
  <2>3. PICK s \in Seq(S), q \in S : e = Append(s, q)
    BY <2>1, <2>2, SequenceEmptyOrAppend
  <2>4. Len(s) = k
    BY <2>1, <2>3
  <2> QED
    BY <2>3, <2>4
<1>3. \A s : Meant(ps, used, k - 1, s) => s \in Seq(S) /\ Len(s) = k
  BY DEF Meant
<1> HIDE DEF S
<1>4. ASSUME Meant(ps, used, k, e)
      PROVE  \E s, q : /\ Meant(ps, used, k - 1, s) /\ q \in S
                       /\ e = Append(s, q) /\ Extends(ps, used, k, e)
  <2>1. PICK s \in Seq(S), q \in S : Len(s) = k /\ e = Append(s, q)
    BY <1>2, <1>4
  <2> QED
    BY <1>1, <1>4, <2>1
<1>5. ASSUME NEW s, NEW q, Meant(ps, used, k - 1, s), q \in S, e = Append(s, q),
             Extends(ps, used, k, e)
      PROVE  Meant(ps, used, k, e)
  BY <1>1, <1>3, <1>5
<1> QED
  BY <1>4, <1>5 DEF S

\* The terminator alone.
LEMMA MeantFirst ==
  ASSUME NEW ps, NEW used, Len(ps) \in 1 .. Len(ps), NEW s
  PROVE  Meant(ps, used, 0, s) <=> s = <<Len(ps)>> /\ NotNegated(ps, 0, <<Len(ps)>>)
<1> DEFINE p == Len(ps)
           S == 1 .. p
           t == <<p>>
<1>1. t \in Seq(S) /\ Len(t) = 1 /\ t[1] = p
  OBVIOUS
<1>2. SubSeq(t, 1, Len(t)) = t
  <2> HIDE DEF t
  <2> QED
    BY <1>1, SubSeqFull
<1>3. SubSeq(t, 1, 1) = t
  BY <1>1, <1>2
<1>4. ASSUME NEW x \in Seq(S), Len(x) = 1, x[1] = p PROVE x = t
  <2> HIDE DEF t
  <2>1. \A i \in 1 .. Len(x) : x[i] = t[i]
    BY <1>1, <1>4
  <2> QED
    BY <1>1, <1>4, <2>1, SeqEqual
<1> HIDE DEF t
<1>5. Meant(ps, used, 0, s) <=> /\ s \in Seq(S) /\ Len(s) = 1 /\ s[1] = p
                                /\ NotNegated(ps, 0, SubSeq(s, 1, 1))
  BY DEF Meant
<1>6. Meant(ps, used, 0, s) <=> s = t /\ NotNegated(ps, 0, t)
  BY <1>1, <1>3, <1>4, <1>5
<1> QED
  BY <1>6 DEF t

\* getPartialResults lists the partial events that the rule means, drawn from the
\* stacks as they are after clearing.
ListsMeant(ps, used, rec, recN) ==
  /\ \A s : s \in PartialResults(ps, rec, recN, Len(ps)) <=> Meant(ps, used, NumStates - 1, s)
  /\ \A s : Meant(ps, used, NumStates - 1, s) => Drawn(ps, rec, NumStates - 1, s)

\* It does, for a local rule whose stacks cover what they should.
LEMMA PartialExact ==
  ASSUME rule \in Rules, RuleLocal(rule), NEW ps, Stamps(ps), InTime(ps), NEW used,
         NEW rec, NEW recN, StacksReady(ps, used, rec, recN),
         Len(ps) \in 1 .. Len(ps), rec[0] = <<Len(ps)>>
  PROVE  ListsMeant(ps, used, rec, recN)
<1> DEFINE p == Len(ps)
           N == NumStates - 1
           M == [k \in States |-> Els(rec[k])]
<1>1. N \in Nat /\ States = 0 .. N /\ 0 \in States
  BY RuleFacts
<1>2. StacksOf(ps, rec, M)
  <2> SUFFICES ASSUME NEW k \in States
               PROVE  Els(rec[k]) \subseteq 1 .. Len(ps) /\ StackOf(ps, rec[k], Els(rec[k]))
    BY DEF StacksOf, StacksIn
  <2>1. Free(ps, used)[k] \subseteq 1 .. Len(ps) /\ StackOf(ps, rec[k], Free(ps, used)[k])
    BY DEF StacksReady, StacksOf, StacksIn
  <2>2. rec[k] \in Seq(Free(ps, used)[k])
    BY <2>1 DEF StackOf
  <2>3. rec[k] \in Seq(Range(rec[k])) /\ Range(rec[k]) = Els(rec[k])
    BY <2>2, SeqOfRange, RangeEquality DEF Els
  <2>4. Els(rec[k]) \subseteq 1 .. Len(ps)
    BY <2>1, <2>2 DEF Els
  <2> QED
    BY <2>1, <2>3, <2>4 DEF StackOf
<1>3. PICK upTo : ListedBy(upTo, ps, rec, recN, p) /\ PartialUpTo(upTo, ps, p, M)
  BY <1>2, PartialSteps
<1>4. /\ PartialResults(ps, rec, recN, p) = upTo[N]
      /\ upTo[0] = IF Invalidated(ps, recN, 0, <<p>>) THEN {} ELSE {<<p>>}
      /\ \A k \in 1 .. N : upTo[k] = UNION {WinEvents(ps, rec, recN, k, pe) : pe \in upTo[k - 1]}
  BY <1>3 DEF ListedBy
<1>5. p \in Els(rec[0])
  <2>1. Len(<<p>>) = 1 /\ <<p>>[1] = p /\ 1 \in 1 .. 1
    OBVIOUS
  <2> QED
    BY <2>1 DEF Els
<1> HIDE DEF N
<1>6. ASSUME NEW k \in 0 .. N, NEW s \in upTo[k] PROVE Drawn(ps, rec, k, s)
  <2>1. Partial(ps, p, M, k, s)
    BY <1>3 DEF PartialUpTo, N
  <2>2. /\ s \in Seq(1 .. Len(ps)) /\ Len(s) = k + 1 /\ s[1] = p
        /\ \A m \in 1 .. k : /\ s[m + 1] \in M[m]
                             /\ InWindow(ps, s[m + 1], s[rule.refersTo[m] + 1], rule.win[m])
    BY <2>1 DEF Partial
  <2>3. ASSUME NEW m \in 0 .. k PROVE s[m + 1] \in Els(rec[m])
    <3>1. CASE m = 0
      BY <1>5, <2>2, <3>1, SMTT(60)
    <3>2. CASE m # 0
      <4>1. m \in 1 .. k /\ m \in States
        BY <1>1, <3>2
      <4> QED
        BY <2>2, <4>1
    <3> QED
      BY <3>1, <3>2
  <2> QED
    BY <2>2, <2>3 DEF Drawn
<1> DEFINE T == {k \in 0 .. N : \A s : s \in upTo[k] <=> Meant(ps, used, k, s)}
<1>7. 0 \in T
  <2>1. Drawn(ps, rec, 0, <<p>>)
    <3>1. <<p>> \in Seq(1 .. Len(ps)) /\ Len(<<p>>) = 1 /\ <<p>>[1] = p
      OBVIOUS
    <3> QED
      BY <1>5, <3>1 DEF Drawn
  <2>2. ~Invalidated(ps, recN, 0, <<p>>) <=> NotNegated(ps, 0, <<p>>)
    BY <1>1, <2>1, NegExact DEF StacksReady
  <2>3. \A s : Meant(ps, used, 0, s) <=> s = <<p>> /\ NotNegated(ps, 0, <<p>>)
    BY MeantFirst
  <2>4. \A s : s \in upTo[0] <=> Meant(ps, used, 0, s)
    BY <1>4, <2>2, <2>3
  <2> QED
    BY <1>1, <2>4
<1>8. ASSUME NEW k \in 1 .. N, \A j \in 0 .. k - 1 : j \in T PROVE k \in T
  <2>1. k - 1 \in 0 .. k - 1 /\ k - 1 \in 0 .. N /\ k \in Nat \ {0} /\ k \in 0 .. N
        /\ k \in 1 .. NumStates - 1
    BY <1>1 DEF N
  <2>2. k - 1 \in T
    <3> HIDE DEF T
    <3> QED
      BY <1>8, <2>1
  <2>3. \A s : s \in upTo[k - 1] <=> Meant(ps, used, k - 1, s)
    BY <2>2
  <2>4. ASSUME NEW s \in upTo[k - 1], NEW e
        PROVE  e \in WinEvents(ps, rec, recN, k, s) <=>
                 \E q \in 1 .. Len(ps) : e = Append(s, q) /\ Extends(ps, used, k, e)
    <3>1. Drawn(ps, rec, k - 1, s)
      BY <1>6, <2>1
    <3>2. WinEvents(ps, rec, recN, k, s) =
            {Append(s, q) : q \in {x \in 1 .. Len(ps) : Extends(ps, used, k, Append(s, x))}}
      BY <2>1, <3>1, WinExact
    <3> QED
      BY <3>2
  <2>5. \A e : e \in upTo[k] <=>
          \E s \in upTo[k - 1] : \E q \in 1 .. Len(ps) : e = Append(s, q) /\ Extends(ps, used, k, e)
    <3>1. \A e : e \in upTo[k] <=> \E s \in upTo[k - 1] : e \in WinEvents(ps, rec, recN, k, s)
      BY <1>4
    <3> QED
      BY <2>4, <3>1
  <2>6. \A e : Meant(ps, used, k, e) <=>
          \E s, q : /\ Meant(ps, used, k - 1, s) /\ q \in 1 .. Len(ps)
                    /\ e = Append(s, q) /\ Extends(ps, used, k, e)
    BY <2>1, MeantStep
  <2>7. \A e : e \in upTo[k] <=> Meant(ps, used, k, e)
    BY <2>3, <2>5, <2>6
  <2> QED
    BY <2>1, <2>7
<1> HIDE DEF T
<1>9. \A k \in 0 .. N : k \in T
  BY <1>1, <1>7, <1>8, PositionInduction
<1>10. N \in 0 .. N
  BY <1>1
<1>11. \A s : s \in upTo[N] <=> Meant(ps, used, N, s)
  BY <1>9, <1>10 DEF T
<1>12. \A s \in upTo[N] : Drawn(ps, rec, N, s)
  BY <1>6, <1>10
<1> QED
  BY <1>4, <1>11, <1>12 DEF ListsMeant, N

\* The sequences of packets of the events created are those the rule means.
LEMMA MeaningExact ==
  ASSUME rule \in Rules, RuleLocal(rule), NEW ps, NEW used, NEW rec, NEW recN,
         ListsMeant(ps, used, rec, recN), 0 \in ps[Len(ps)].states
  PROVE  MatchingParameters(ps, PartialResults(ps, rec, recN, Len(ps))) = Meaning(ps, used)
<1> DEFINE S == 1 .. Len(ps)
           N == NumStates - 1
           Par(pe) == \A par \in rule.params : ParameterHolds(ps, pe, par)
<1>1. N \in Nat /\ NumStates \in Nat /\ N + 1 = NumStates /\ States = 0 .. N
  BY RuleFacts
<1>2. ASSUME NEW pe PROVE pe \in [1 .. NumStates -> S] <=> pe \in Seq(S) /\ Len(pe) = NumStates
  <2>1. ASSUME pe \in [1 .. NumStates -> S] PROVE pe \in Seq(S) /\ Len(pe) = NumStates
    BY <1>1, <2>1
  <2>2. ASSUME pe \in Seq(S), Len(pe) = NumStates PROVE pe \in [1 .. NumStates -> S]
    BY <2>2, LenProperties
  <2> QED
    BY <2>1, <2>2
<1>3. ASSUME NEW pe
      PROVE  (\A par \in rule.params : CheckParameter(ps, pe, par)) <=> Par(pe)
  <2>1. \A par \in rule.params : par.name1 = par.name2
    BY DEF RuleLocal
  <2> QED
    BY <2>1 DEF CheckParameter, ParameterHolds
<1>4. ASSUME NEW pe
      PROVE  (\A k \in States \ {0} :
                /\ MayExtend(ps, used, k, SubSeq(pe, 1, k + 1))
                /\ Selected(ps, used, k, SubSeq(pe, 1, k + 1)))
             <=> (\A k \in 1 .. N : Extends(ps, used, k, SubSeq(pe, 1, k + 1)))
  <2>1. States \ {0} = 1 .. N
    BY <1>1
  <2> QED
    BY <2>1 DEF Extends
<1> HIDE DEF Par, S
<1>5. ASSUME NEW pe PROVE pe \in Meaning(ps, used) <=>
        /\ pe \in [1 .. NumStates -> S] /\ pe[1] = Len(ps)
        /\ NotNegated(ps, 0, SubSeq(pe, 1, 1))
        /\ \A k \in States \ {0} : /\ MayExtend(ps, used, k, SubSeq(pe, 1, k + 1))
                                   /\ Selected(ps, used, k, SubSeq(pe, 1, k + 1))
        /\ Par(pe)
  BY DEF Meaning, Par, S
<1>6. ASSUME NEW pe PROVE pe \in Meaning(ps, used) <=> Meant(ps, used, N, pe) /\ Par(pe)
  <2>1. Meant(ps, used, N, pe) <=>
          /\ pe \in Seq(S) /\ Len(pe) = NumStates /\ pe[1] = Len(ps)
          /\ NotNegated(ps, 0, SubSeq(pe, 1, 1))
          /\ \A k \in 1 .. N : Extends(ps, used, k, SubSeq(pe, 1, k + 1))
    BY <1>1 DEF Meant, S
  <2> QED
    BY <1>2, <1>4, <1>5, <2>1
<1> DEFINE pes == PartialResults(ps, rec, recN, Len(ps))
<1>7. \A s : s \in pes <=> Meant(ps, used, N, s)
  BY DEF ListsMeant
<1> HIDE DEF pes, N
<1>8. ASSUME NEW pe PROVE pe \in MatchingParameters(ps, pes) <=> pe \in pes /\ Par(pe)
  BY <1>3 DEF MatchingParameters
<1>9. MatchingParameters(ps, pes) = Meaning(ps, used)
  BY <1>6, <1>7, <1>8
<1> QED
  BY <1>9 DEF pes

\* createComplexEvents: an event for each sequence, with its aggregates.
EventsMeant(ps, used, R) ==
  /\ {r.pe : r \in R} = Meaning(ps, used)
  /\ \A r \in R : \A a \in Aggs : r.aggs[a] = AggregateMeaning(ps, a, r.pe)

\* The events created for the terminator are those the rule means.
LEMMA EventsExact ==
  ASSUME rule \in Rules, RuleLocal(rule), NEW ps, Stamps(ps), InTime(ps), NEW used,
         NEW rec, NEW recN, StacksReady(ps, used, rec, recN),
         Len(ps) \in 1 .. Len(ps), rec[0] = <<Len(ps)>>, 0 \in ps[Len(ps)].states,
         NEW recA, StacksIn(ps, recA, Aggs, All(ps, Aggs)), AggsCovered(ps, rec, recA)
  PROVE  EventsMeant(ps, used,
           ComplexEvents(ps, recA,
             MatchingParameters(ps, PartialResults(ps, rec, recN, Len(ps)))))
<1> DEFINE all == PartialResults(ps, rec, recN, Len(ps))
           pes == MatchingParameters(ps, all)
           R   == ComplexEvents(ps, recA, pes)
           Of(a, pe) == {q \in Between(ps, recA[a], rule.aggs[a], pe) :
                           CheckParameters(ps, q, pe, rule.aggs[a].pars)}
<1>1. ListsMeant(ps, used, rec, recN)
  BY PartialExact
<1>2. pes = Meaning(ps, used)
  BY <1>1, MeaningExact
<1>3. \A pe \in pes : Drawn(ps, rec, NumStates - 1, pe)
  BY <1>1 DEF ListsMeant, MatchingParameters
<1> HIDE DEF pes
<1>4. ASSUME NEW pe \in pes, NEW a \in Aggs PROVE Of(a, pe) = AggregateMeaning(ps, a, pe)
  <2>1. Drawn(ps, rec, NumStates - 1, pe)
    BY <1>3
  <2> QED
    BY <2>1, AggExact
<1>5. R = {[pe |-> pe, aggs |-> [a \in Aggs |-> Of(a, pe)]] : pe \in pes}
  BY DEF ComplexEvents
<1> HIDE DEF Of, R
<1>6. ASSUME NEW r \in R
      PROVE  r.pe \in pes /\ \A a \in Aggs : r.aggs[a] = AggregateMeaning(ps, a, r.pe)
  <2>1. PICK pe \in pes : r = [pe |-> pe, aggs |-> [a \in Aggs |-> Of(a, pe)]]
    BY <1>5
  <2>2. r.pe = pe /\ r.aggs = [a \in Aggs |-> Of(a, pe)]
    BY <2>1
  <2> QED
    BY <1>4, <2>2
<1>7. ASSUME NEW pe \in pes PROVE \E r \in R : r.pe = pe
  <2> DEFINE r == [pe |-> pe, aggs |-> [a \in Aggs |-> Of(a, pe)]]
  <2>1. r \in R /\ r.pe = pe
    BY <1>5
  <2> QED
    BY <2>1
<1>8. {r.pe : r \in R} = pes
  BY <1>6, <1>7
<1>9. EventsMeant(ps, used, R)
  BY <1>2, <1>6, <1>8 DEF EventsMeant
<1> QED
  BY <1>9 DEF R, pes

-----------------------------------------------------------------------------
(* The invariant: what the stacks have forgotten can be part of no event.  *)

\* Nothing that a later event can need has been forgotten.
MeaningInv ==
  InOrder(rule) =>
    /\ InTime(pkts)
    /\ StatesCovered(pkts, consumed, received)
    /\ NegsCovered(pkts, received, recNegs)
    /\ AggsCovered(pkts, received, recAggs)

\* The packets stay in the order of their time stamps.
LEMMA ArrivalInTime ==
  ASSUME StackInv, InTime(pkts), InOrder(rule), NEW pkt \in Arrivals,
         NEW ps, ps = Append(pkts, pkt)
  PROVE  InTime(ps)
<1> DEFINE L == Len(pkts)
<1>1. /\ Stamps(ps) /\ L \in Nat /\ Len(ps) = L + 1 /\ ps[Len(ps)] = pkt
      /\ \A q \in 1 .. L : ps[q] = pkts[q]
  BY ArrivalFacts, ZenonT(60)
<1>2. pkt.ts >= LastTs
  BY DEF Arrivals
<1>3. pkts \in Seq(Packet)
  BY DEF StackInv
<1> SUFFICES ASSUME NEW i \in 1 .. Len(ps), NEW j \in 1 .. Len(ps), i <= j
             PROVE  ps[i].ts <= ps[j].ts
  BY DEF InTime
<1>4. ps[i].ts \in Nat /\ ps[j].ts \in Nat
  BY <1>1 DEF Stamps
<1>5. CASE j \in 1 .. L
  <2>1. i \in 1 .. L
    BY <1>1, <1>5
  <2> QED
    BY <1>1, <1>5, <2>1 DEF InTime
<1>6. CASE i = L + 1
  <2>1. j = i
    BY <1>1, <1>6
  <2> QED
    BY <1>4, <2>1
<1>7. CASE i \in 1 .. L /\ j = L + 1
  <2>1. pkts # <<>> /\ L \in 1 .. L /\ i <= L
    BY <1>1, <1>3, <1>7
  <2>2. LastTs = pkts[L].ts
    BY <2>1 DEF LastTs, Ts
  <2>3. pkts[i].ts <= pkts[L].ts
    BY <1>7, <2>1 DEF InTime
  <2>4. ps[j].ts = pkt.ts /\ ps[i].ts = pkts[i].ts
    BY <1>1, <1>7
  <2>5. L \in 1 .. Len(ps)
    BY <1>1, <2>1
  <2>6. pkts[L].ts \in Nat
    BY <1>1, <2>1, <2>5 DEF Stamps
  <2> QED
    BY <1>2, <1>4, <2>2, <2>3, <2>4, <2>6
<1> QED
  BY <1>1, <1>5, <1>6, <1>7

\* The stack covers M and has at most the last packet more than stack0.
Grown(ps, stack, stack0, M, ref, w) ==
  Covered(ps, stack, M, ref, w) /\ Els(stack) \subseteq Els(stack0) \cup {Len(ps)}

\* The addTo operations, for one stack: p is put on it if it is one of M.
LEMMA AddToCovered ==
  ASSUME NEW ps0, NEW ps, Stamps(ps), InTime(ps), Len(ps0) \in Nat, Len(ps) = Len(ps0) + 1,
         \A q \in 1 .. Len(ps0) : ps[q] = ps0[q],
         NEW f, NEW k \in DOMAIN f, f[k] \in Seq(1 .. Len(ps0)), NEW ids,
         NEW M0, M0 \subseteq 1 .. Len(ps0), NEW ref0, Els(ref0) \subseteq 1 .. Len(ps0),
         NEW w \in Nat, Covered(ps0, f[k], M0, ref0, w),
         NEW M, M = M0 \cup (IF k \in ids THEN {Len(ps)} ELSE {}),
         NEW ref, Els(ref) \subseteq Els(ref0) \cup {Len(ps)}
  PROVE  Grown(ps, AddTo(ps, f, ids, Len(ps))[k], f[k], M, ref, w)
<1> DEFINE p == Len(ps)
           stack == AddTo(ps, f, ids, p)[k]
<1>1. stack = IF k \in ids THEN Insert(ps, f[k], p) ELSE f[k]
  BY DEF AddTo
<1>2. Increasing(f[k]) /\ Els(f[k]) \subseteq M0
  BY DEF Covered
<1>3. /\ Els(Insert(ps, f[k], p)) = Els(f[k]) \cup {p}
      /\ Increasing(Insert(ps, f[k], p))
  <2>1. Len(ps) - 1 = Len(ps0) /\ Len(ps) # 0
    OBVIOUS
  <2>2. f[k] \in Seq(1 .. Len(ps) - 1)
    BY <2>1
  <2> QED
    BY <1>2, <2>1, <2>2, InsertLast
<1> HIDE DEF stack
<1>4. /\ Increasing(stack) /\ Els(stack) \subseteq M /\ Els(f[k]) \subseteq Els(stack)
      /\ Els(stack) \subseteq Els(f[k]) \cup {p}
      /\ p \in M => p \in Els(stack)
  <2>1. p \notin M0
    OBVIOUS
  <2>2. CASE k \in ids
    BY <1>1, <1>2, <1>3, <2>2
  <2>3. CASE k \notin ids
    BY <1>1, <1>2, <2>1, <2>3
  <2> QED
    BY <2>2, <2>3
<1>5. M \subseteq M0 \cup {Len(ps)}
  OBVIOUS
<1>6. Covered(ps, stack, M, ref, w)
  <2> DEFINE s0 == f[k]
  <2>1. Covered(ps0, s0, M0, ref0, w) /\ Els(s0) \subseteq Els(stack)
    BY <1>4
  <2> HIDE DEF s0
  <2> QED
    BY <1>4, <1>5, <2>1, CoverGrow, ZenonT(60)
<1> QED
  BY <1>4, <1>6 DEF Grown, stack

\* A stack is one of its own packets.
LEMMA StackNarrow ==
  ASSUME NEW ps, NEW N, NEW stack, StackOf(ps, stack, N), NEW M, Els(stack) \subseteq M
  PROVE  StackOf(ps, stack, M)
<1>1. stack \in Seq(N)
  BY DEF StackOf
<1>2. stack \in Seq(Range(stack)) /\ Range(stack) = Els(stack)
  BY <1>1, SeqOfRange, RangeEquality DEF Els
<1>3. stack \in Seq(M)
  BY <1>2, SeqMonotonic
<1> QED
  BY <1>3 DEF StackOf

\* The stacks after the packet was added to them, for references that have at most
\* the packet more.
LEMMA FilledCovered ==
  ASSUME StackInv, MeaningInv, InOrder(rule), NEW pkt \in Arrivals,
         NEW ps, ps = Append(pkts, pkt), NEW top,
         \A k \in States : Els(top[k]) \subseteq Els(received[k]) \cup {Len(ps)}
  PROVE  LET p    == Len(ps)
             recN == AddTo(ps, recNegs, pkt.negs, p)
             recA == AddTo(ps, recAggs, pkt.aggs, p)
             rec  == AddTo(ps, received, pkt.states \ {0}, p)
         IN  /\ \A k \in States \ {0} :
                  /\ Covered(ps, rec[k], Free(ps, consumed)[k], top[rule.refersTo[k]], rule.win[k])
                  /\ Els(rec[k]) \subseteq Els(received[k]) \cup {p}
             /\ NegsCovered(ps, top, recN) /\ AggsCovered(ps, top, recA)
<1> DEFINE p    == Len(ps)
           L    == Len(pkts)
           recN == AddTo(ps, recNegs, pkt.negs, p)
           recA == AddTo(ps, recAggs, pkt.aggs, p)
           rec  == AddTo(ps, received, pkt.states \ {0}, p)
<1>1. /\ Stamps(ps) /\ L \in Nat /\ Len(ps) = L + 1 /\ ps[p] = pkt
      /\ \A q \in 1 .. L : ps[q] = pkts[q]
  BY ArrivalFacts, ZenonT(60)
<1>2. InTime(ps)
  BY ArrivalInTime DEF MeaningInv
<1>3. /\ StatesCovered(pkts, consumed, received)
      /\ NegsCovered(pkts, received, recNegs) /\ AggsCovered(pkts, received, recAggs)
  BY DEF MeaningInv
<1>4. /\ received \in [States -> Seq(1 .. L)] /\ rule \in Rules
      /\ recNegs \in [Negs -> Seq(1 .. L)] /\ recAggs \in [Aggs -> Seq(1 .. L)]
      /\ consumed \in [States -> SUBSET (1 .. L)]
  BY DEF StackInv, TypeOK
<1>5. /\ NumStates - 1 \in Nat /\ States = 0 .. NumStates - 1
      /\ \A k \in 1 .. NumStates - 1 : rule.refersTo[k] \in States /\ rule.win[k] \in Nat
      /\ \A n \in Negs : rule.negs[n].upperId \in States /\ NegWindow(rule.negs[n]) \in Nat
      /\ \A a \in Aggs : rule.aggs[a].upperId \in States /\ rule.aggs[a].lowerTime \in Nat
  BY <1>4, RuleFacts
<1>6. \A k \in States : Els(received[k]) \subseteq 1 .. L
  <2> SUFFICES ASSUME NEW k \in States PROVE Els(received[k]) \subseteq 1 .. L
    OBVIOUS
  <2>1. received[k] \in Seq(1 .. L)
    BY <1>4
  <2> QED
    BY <2>1 DEF Els
<1>7. \A x : x \in 1 .. Len(ps) <=> x \in 1 .. L \/ x = p
  BY <1>1
<1>8. ASSUME NEW k \in States \ {0}
      PROVE  /\ Covered(ps, rec[k], Free(ps, consumed)[k], top[rule.refersTo[k]], rule.win[k])
             /\ Els(rec[k]) \subseteq Els(received[k]) \cup {p}
  <2> DEFINE ids == pkt.states \ {0}
             M0 == Free(pkts, consumed)[k]
             M  == Free(ps, consumed)[k]
             ref0 == received[rule.refersTo[k]]
             ref  == top[rule.refersTo[k]]
             w    == rule.win[k]
  <2>1. k \in 1 .. NumStates - 1 /\ k \in DOMAIN received /\ received[k] \in Seq(1 .. L)
    BY <1>4, <1>5
  <2>2. rule.refersTo[k] \in States /\ w \in Nat
    BY <1>5, <2>1
  <2>3. M0 = {q \in 1 .. L : k \in pkts[q].states /\ q \notin consumed[k]}
    BY DEF Free, Available
  <2>4. M = {q \in 1 .. Len(ps) : k \in ps[q].states /\ q \notin consumed[k]}
    BY DEF Free, Available
  <2>5. p \notin consumed[k] /\ p \notin 1 .. L
    <3>1. p \notin 1 .. L
      BY <1>1
    <3> QED
      BY <1>4, <3>1
  <2> HIDE DEF M0, M
  <2>6. M = M0 \cup (IF k \in ids THEN {Len(ps)} ELSE {})
    BY <1>1, <1>7, <2>3, <2>4, <2>5
  <2>7. M0 \subseteq 1 .. L
    BY <2>3
  <2>8. Covered(pkts, received[k], M0, ref0, w)
    BY <1>3 DEF StatesCovered, M0
  <2>9. Els(ref0) \subseteq 1 .. L /\ Els(ref) \subseteq Els(ref0) \cup {Len(ps)}
    BY <1>6, <2>2
  <2> HIDE DEF ref0, ref, w, ids
  <2>10. Grown(ps, AddTo(ps, received, ids, Len(ps))[k], received[k], M, ref, w)
    BY <1>1, <1>2, <2>1, <2>2, <2>6, <2>7, <2>8, <2>9, AddToCovered, ZenonT(60)
  <2> QED
    BY <2>10 DEF Grown, ids, M, ref, w
<1>9. NegsCovered(ps, top, recN)
  <2> SUFFICES ASSUME NEW n \in Negs
               PROVE  Covered(ps, recN[n], NegPkts(ps, n), top[rule.negs[n].upperId],
                              NegWindow(rule.negs[n]))
    BY DEF NegsCovered
  <2> DEFINE ids == pkt.negs
             M0 == NegPkts(pkts, n)
             M  == NegPkts(ps, n)
             ref0 == received[rule.negs[n].upperId]
             ref  == top[rule.negs[n].upperId]
             w    == NegWindow(rule.negs[n])
  <2>1. n \in DOMAIN recNegs /\ recNegs[n] \in Seq(1 .. L)
    BY <1>4
  <2>2. rule.negs[n].upperId \in States /\ w \in Nat
    BY <1>5
  <2>3. M0 = {q \in 1 .. L : n \in pkts[q].negs} /\ M = {q \in 1 .. Len(ps) : n \in ps[q].negs}
    BY DEF NegPkts
  <2> HIDE DEF M0, M
  <2>4. M = M0 \cup (IF n \in ids THEN {Len(ps)} ELSE {})
    BY <1>1, <1>7, <2>3
  <2>5. M0 \subseteq 1 .. L
    BY <2>3
  <2>6. Covered(pkts, recNegs[n], M0, ref0, w)
    BY <1>3 DEF NegsCovered, M0
  <2>7. Els(ref0) \subseteq 1 .. L /\ Els(ref) \subseteq Els(ref0) \cup {Len(ps)}
    BY <1>6, <2>2
  <2> HIDE DEF ref0, ref, w, ids
  <2>8. Grown(ps, AddTo(ps, recNegs, ids, Len(ps))[n], recNegs[n], M, ref, w)
    BY <1>1, <1>2, <2>1, <2>2, <2>4, <2>5, <2>6, <2>7, AddToCovered, ZenonT(60)
  <2> QED
    BY <2>8 DEF Grown, ids, M, ref, w
<1>10. AggsCovered(ps, top, recA)
  <2> SUFFICES ASSUME NEW a \in Aggs
               PROVE  Covered(ps, recA[a], AggPkts(ps, a), top[rule.aggs[a].upperId],
                              rule.aggs[a].lowerTime)
    BY DEF AggsCovered
  <2> DEFINE ids == pkt.aggs
             M0 == AggPkts(pkts, a)
             M  == AggPkts(ps, a)
             ref0 == received[rule.aggs[a].upperId]
             ref  == top[rule.aggs[a].upperId]
             w    == rule.aggs[a].lowerTime
  <2>1. a \in DOMAIN recAggs /\ recAggs[a] \in Seq(1 .. L)
    BY <1>4
  <2>2. rule.aggs[a].upperId \in States /\ w \in Nat
    BY <1>5
  <2>3. M0 = {q \in 1 .. L : a \in pkts[q].aggs} /\ M = {q \in 1 .. Len(ps) : a \in ps[q].aggs}
    BY DEF AggPkts
  <2> HIDE DEF M0, M
  <2>4. M = M0 \cup (IF a \in ids THEN {Len(ps)} ELSE {})
    BY <1>1, <1>7, <2>3
  <2>5. M0 \subseteq 1 .. L
    BY <2>3
  <2>6. Covered(pkts, recAggs[a], M0, ref0, w)
    BY <1>3 DEF AggsCovered, M0
  <2>7. Els(ref0) \subseteq 1 .. L /\ Els(ref) \subseteq Els(ref0) \cup {Len(ps)}
    BY <1>6, <2>2
  <2> HIDE DEF ref0, ref, w, ids
  <2>8. Grown(ps, AddTo(ps, recAggs, ids, Len(ps))[a], recAggs[a], M, ref, w)
    BY <1>1, <1>2, <2>1, <2>2, <2>4, <2>5, <2>6, <2>7, AddToCovered, ZenonT(60)
  <2> QED
    BY <2>8 DEF Grown, ids, M, ref, w
<1> QED
  BY <1>8, <1>9, <1>10

\* clearStacks: what is removed is out of reach of what the stacks keep.
LEMMA ClearedCovered ==
  ASSUME rule \in Rules, NEW ps, Stamps(ps), InTime(ps), NEW used,
         NEW top, NEW clr, IsCleared(ps, top, clr),
         StacksOf(ps, top, Free(ps, used)), StacksOf(ps, clr, Free(ps, used)),
         StatesCovered(ps, used, top)
  PROVE  /\ StatesCovered(ps, used, clr)
         /\ \A k \in States : Els(clr[k]) \subseteq Els(top[k])
<1> DEFINE F == Free(ps, used)
<1>1. /\ NumStates - 1 \in Nat /\ States = 0 .. NumStates - 1
      /\ \A k \in 1 .. NumStates - 1 : rule.refersTo[k] \in States /\ rule.win[k] \in Nat
  BY RuleFacts
<1>2. \A k \in States \ {0} : rule.refersTo[k] \in States /\ rule.win[k] \in Nat
  BY <1>1
<1> HIDE DEF F
<1>3. \A k \in States : /\ F[k] \subseteq 1 .. Len(ps)
                        /\ StackOf(ps, top[k], F[k]) /\ StackOf(ps, clr[k], F[k])
  BY DEF StacksOf, StacksIn, F
<1>4. \A k \in States \ {0} : Covered(ps, top[k], F[k], top[rule.refersTo[k]], rule.win[k])
  BY DEF StatesCovered, F
<1>5. ASSUME NEW k \in States PROVE Els(clr[k]) \subseteq Els(top[k])
  <2>1. CASE k = 0
    BY <2>1 DEF IsCleared
  <2>2. CASE k # 0
    <3> DEFINE ref == clr[rule.refersTo[k]]
               w   == rule.win[k]
    <3>1. clr[k] = Trim(ps, top[k], ref, w)
      BY <2>2 DEF IsCleared
    <3>2. rule.refersTo[k] \in States /\ w \in Nat /\ Increasing(top[k])
      BY <1>2, <1>4, <2>2 DEF Covered
    <3>3. ref \in Seq(1 .. Len(ps))
      BY <1>3, <3>2, SeqMonotonic DEF StackOf
    <3> HIDE DEF ref, w
    <3>4. Els(Trim(ps, top[k], ref, w)) \subseteq Els(top[k])
      BY <1>3, <3>2, <3>3, TrimCut
    <3> QED
      BY <3>1, <3>4
  <2> QED
    BY <2>1, <2>2
<1>6. ASSUME NEW k \in States \ {0}
      PROVE  Covered(ps, clr[k], F[k], clr[rule.refersTo[k]], rule.win[k])
  <2> DEFINE r   == rule.refersTo[k]
             w   == rule.win[k]
  <2>1. clr[k] = Trim(ps, top[k], clr[r], w)
    BY DEF IsCleared
  <2>2. r \in States /\ w \in Nat /\ Covered(ps, top[k], F[k], top[r], w)
    BY <1>2, <1>4
  <2> HIDE DEF r, w
  <2>3. F[r] \subseteq 1 .. Len(ps) /\ StackOf(ps, clr[r], F[r]) /\ Els(clr[r]) \subseteq Els(top[r])
    BY <1>3, <1>5, <2>2
  <2>4. F[k] \subseteq 1 .. Len(ps) /\ StackOf(ps, top[k], F[k])
    BY <1>3
  <2>5. Covered(ps, Trim(ps, top[k], clr[r], w), F[k], clr[r], w)
    BY <2>2, <2>3, <2>4, CoverTrim, ZenonT(60)
  <2> QED
    BY <2>1, <2>5 DEF r, w
<1> QED
  BY <1>5, <1>6 DEF StatesCovered, F

\* The same for the stacks of the negations and aggregates.
LEMMA ClearedBounds ==
  ASSUME rule \in Rules, NEW ps, Stamps(ps), InTime(ps), NEW top, NEW clr,
         \A k \in States : StackOf(ps, clr[k], 1 .. Len(ps)) /\ Els(clr[k]) \subseteq Els(top[k]),
         NEW recN, StacksIn(ps, recN, Negs, All(ps, Negs)), NegsCovered(ps, top, recN),
         NEW recA, StacksIn(ps, recA, Aggs, All(ps, Aggs)), AggsCovered(ps, top, recA)
  PROVE  /\ NegsCovered(ps, clr, ClearedNegs(ps, clr, recN))
         /\ AggsCovered(ps, clr, ClearedAggs(ps, clr, recA))
<1>1. /\ \A n \in Negs : rule.negs[n].upperId \in States /\ NegWindow(rule.negs[n]) \in Nat
      /\ \A a \in Aggs : rule.aggs[a].upperId \in States /\ rule.aggs[a].lowerTime \in Nat
  BY RuleFacts
<1>2. ASSUME NEW stack, StackOf(ps, stack, 1 .. Len(ps)), NEW M, M \subseteq 1 .. Len(ps),
             NEW w \in Nat, NEW u \in States, Covered(ps, stack, M, top[u], w)
      PROVE  Covered(ps, Trim(ps, stack, clr[u], w), M, clr[u], w)
  <2>1. StackOf(ps, stack, M)
    <3>1. Els(stack) \subseteq M
      BY <1>2 DEF Covered
    <3> QED
      BY <1>2, <3>1, StackNarrow
  <2>2. StackOf(ps, clr[u], 1 .. Len(ps)) /\ Els(clr[u]) \subseteq Els(top[u])
    OBVIOUS
  <2> QED
    BY <1>2, <2>1, <2>2, CoverTrim, ZenonT(60)
<1>3. ASSUME NEW n \in Negs
      PROVE  Covered(ps, ClearedNegs(ps, clr, recN)[n], NegPkts(ps, n),
                     clr[rule.negs[n].upperId], NegWindow(rule.negs[n]))
  <2> DEFINE u == rule.negs[n].upperId
             w == NegWindow(rule.negs[n])
             M == NegPkts(ps, n)
  <2>1. ClearedNegs(ps, clr, recN)[n] = Trim(ps, recN[n], clr[u], w)
    BY DEF ClearedNegs
  <2>2. StackOf(ps, recN[n], 1 .. Len(ps)) /\ Covered(ps, recN[n], M, top[u], w)
    BY DEF StacksIn, All, NegsCovered
  <2>3. M \subseteq 1 .. Len(ps) /\ u \in States /\ w \in Nat
    BY <1>1 DEF NegPkts
  <2> HIDE DEF u, w, M
  <2>4. Covered(ps, Trim(ps, recN[n], clr[u], w), M, clr[u], w)
    BY <1>2, <2>2, <2>3
  <2> QED
    BY <2>1, <2>4 DEF u, w, M
<1>4. ASSUME NEW a \in Aggs
      PROVE  Covered(ps, ClearedAggs(ps, clr, recA)[a], AggPkts(ps, a),
                     clr[rule.aggs[a].upperId], rule.aggs[a].lowerTime)
  <2> DEFINE u == rule.aggs[a].upperId
             w == rule.aggs[a].lowerTime
             M == AggPkts(ps, a)
  <2>1. ClearedAggs(ps, clr, recA)[a] = Trim(ps, recA[a], clr[u], w)
    BY DEF ClearedAggs
  <2>2. StackOf(ps, recA[a], 1 .. Len(ps)) /\ Covered(ps, recA[a], M, top[u], w)
    BY DEF StacksIn, All, AggsCovered
  <2>3. M \subseteq 1 .. Len(ps) /\ u \in States /\ w \in Nat
    BY <1>1 DEF AggPkts
  <2> HIDE DEF u, w, M
  <2>4. Covered(ps, Trim(ps, recA[a], clr[u], w), M, clr[u], w)
    BY <1>2, <2>2, <2>3
  <2> QED
    BY <2>1, <2>4 DEF u, w, M
<1> QED
  BY <1>3, <1>4 DEF NegsCovered, AggsCovered

\* The invariant after a step, from what the step has done to the stacks.
LEMMA MeaningAfter ==
  ASSUME rule' = rule, InTime(pkts'), StatesCovered(pkts', consumed', received'),
         NegsCovered(pkts', received', recNegs'), AggsCovered(pkts', received', recAggs')
  PROVE  MeaningInv'
<1>1. States' = States /\ Negs' = Negs /\ Aggs' = Aggs
  BY DEF States, NumStates, Negs, Aggs
<1>2. InTime(pkts)'
  BY DEF InTime
<1>3. StatesCovered(pkts, consumed, received)'
  BY <1>1 DEF StatesCovered, Free, Available, Covered, Els, Increasing
<1>4. NegsCovered(pkts, received, recNegs)'
  BY <1>1 DEF NegsCovered, NegPkts, NegWindow, Covered, Els, Increasing
<1>5. AggsCovered(pkts, received, recAggs)'
  BY <1>1 DEF AggsCovered, AggPkts, Covered, Els, Increasing
<1> QED
  BY <1>2, <1>3, <1>4, <1>5 DEF MeaningInv

\* The events of a step are those that the rule means.
StepMeant == EventsMeant(pkts', consumed, results')

\* A packet that is not the terminator.
LEMMA WaitMeant ==
  ASSUME StackInv, MeaningInv, InOrder(rule), NEW pkt \in Arrivals, Process(pkt),
         0 \notin pkt.states
  PROVE  MeaningInv' /\ StepMeant
<1> DEFINE ps   == Append(pkts, pkt)
           p    == Len(ps)
           recN == AddTo(ps, recNegs, pkt.negs, p)
           recA == AddTo(ps, recAggs, pkt.aggs, p)
           rec  == AddTo(ps, received, pkt.states \ {0}, p)
<1>1. /\ pkts' = ps /\ rule' = rule /\ results' = {} /\ consumed' = consumed
      /\ received' = rec /\ recNegs' = recN /\ recAggs' = recA
  BY DEF Process
<1>2. ps[p] = pkt
  BY ArrivalFacts, ZenonT(60)
<1>3. InTime(ps)
  BY ArrivalInTime DEF MeaningInv
<1>4. rule \in Rules /\ received \in [States -> Seq(1 .. Len(pkts))]
  BY DEF StackInv, TypeOK
<1>5. \A k \in States \ {0} : Els(rec[k]) \subseteq Els(received[k]) \cup {p}
  <2> DEFINE top == received
  <2>1. \A k \in States : Els(top[k]) \subseteq Els(received[k]) \cup {Len(ps)}
    OBVIOUS
  <2> HIDE DEF top
  <2> QED
    BY <2>1, FilledCovered
<1>6. \A k \in States : Els(rec[k]) \subseteq Els(received[k]) \cup {p}
  <2>1. 0 \in States => rec[0] = received[0]
    BY <1>4 DEF AddTo
  <2> HIDE DEF rec
  <2> QED
    BY <1>5, <2>1
<1>7. /\ \A k \in States \ {0} :
           Covered(ps, rec[k], Free(ps, consumed)[k], rec[rule.refersTo[k]], rule.win[k])
      /\ NegsCovered(ps, rec, recN) /\ AggsCovered(ps, rec, recA)
  BY <1>6, FilledCovered
<1>8. StatesCovered(ps, consumed, rec)
  BY <1>7 DEF StatesCovered
<1>9. MeaningInv'
  <2> HIDE DEF ps, rec, recN, recA
  <2> QED
    BY <1>1, <1>3, <1>7, <1>8, MeaningAfter
<1>10. Meaning(ps, consumed) = {}
  BY <1>2 DEF Meaning
<1>11. StepMeant
  <2> HIDE DEF ps
  <2> QED
    BY <1>1, <1>10 DEF StepMeant, EventsMeant
<1> QED
  BY <1>9, <1>11

\* The terminator: the events are those meant, and consuming forgets only packets
\* that were used up.
LEMMA ComputationMeant ==
  ASSUME StackInv, MeaningInv, InOrder(rule), RuleLocal(rule), NEW pkt \in Arrivals,
         Process(pkt), 0 \in pkt.states
  PROVE  MeaningInv' /\ StepMeant
<1> DEFINE ps   == Append(pkts, pkt)
           p    == Len(ps)
           recN == AddTo(ps, recNegs, pkt.negs, p)
           recA == AddTo(ps, recAggs, pkt.aggs, p)
           rec  == AddTo(ps, received, pkt.states \ {0}, p)
           top  == [rec EXCEPT ![0] = Append(rec[0], p)]
           clr  == ClearedStates(ps, top)
           clrN == ClearedNegs(ps, clr, recN)
           clrA == ClearedAggs(ps, clr, recA)
           pes  == MatchingParameters(ps, PartialResults(ps, clr, clrN, p))
           F    == Free(ps, consumed)
           Gone(k) == {pe[k + 1] : pe \in pes}
<1>1. /\ pkts' = ps /\ rule' = rule
      /\ results' = ComplexEvents(ps, clrA, pes)
      /\ received' = RemoveTerminator(RemoveConsumed(clr, pes))
      /\ recNegs' = clrN /\ recAggs' = clrA
      /\ consumed' = [k \in States |->
           IF k = 0 \/ k \notin rule.consuming THEN consumed[k]
           ELSE consumed[k] \cup Gone(k)]
  BY DEF Process, StartComputation
<1>2. /\ DOMAIN rec = States /\ rec[0] = <<>>
      /\ StacksOf(ps, rec, F)
      /\ StacksIn(ps, recN, Negs, All(ps, Negs))
      /\ StacksIn(ps, recA, Aggs, All(ps, Aggs))
  BY FilledOK
<1>3. /\ Stamps(ps) /\ Len(pkts) \in Nat /\ Len(ps) = Len(pkts) + 1
      /\ ps[p] = pkt /\ p \in 1 .. Len(ps) /\ p \notin 1 .. Len(pkts)
  BY ArrivalFacts, ZenonT(60)
<1>4. rule \in Rules /\ consumed \in [States -> SUBSET (1 .. Len(pkts))]
  BY DEF StackInv, TypeOK
<1>5. /\ NumStates - 1 \in Nat
      /\ States = 0 .. NumStates - 1 /\ 0 \in States
      /\ \A k \in 1 .. NumStates - 1 : rule.refersTo[k] \in States /\ rule.win[k] \in Nat
      /\ \A n \in Negs : rule.negs[n].upperId \in States /\ NegWindow(rule.negs[n]) \in Nat
      /\ \A a \in Aggs : rule.aggs[a].upperId \in States /\ rule.aggs[a].lowerTime \in Nat
  BY <1>4, RuleFacts
<1>6. top[0] = <<p>> /\ \A k \in States \ {0} : top[k] = rec[k]
  <2> HIDE DEF rec
  <2> QED
    BY <1>2, <1>5
<1>7. InTime(ps)
  BY ArrivalInTime DEF MeaningInv
<1>8. \A k \in States \ {0} : Els(rec[k]) \subseteq Els(received[k]) \cup {p}
  <2> DEFINE t == received
  <2>1. \A k \in States : Els(t[k]) \subseteq Els(received[k]) \cup {Len(ps)}
    OBVIOUS
  <2> HIDE DEF t
  <2> QED
    BY <2>1, FilledCovered
<1>9. Els(<<p>>) = {p}
  <2>1. Len(<<p>>) = 1 /\ <<p>>[1] = p
    OBVIOUS
  <2>2. \A i \in 1 .. 1 : i = 1
    OBVIOUS
  <2>3. 1 \in 1 .. 1
    OBVIOUS
  <2> HIDE DEF p
  <2> QED
    BY <2>1, <2>2, <2>3 DEF Els
<1>10. \A k \in States : Els(top[k]) \subseteq Els(received[k]) \cup {p}
  <2> HIDE DEF top, rec
  <2> QED
    BY <1>6, <1>8, <1>9
<1>11. /\ \A k \in States \ {0} : Covered(ps, rec[k], F[k], top[rule.refersTo[k]], rule.win[k])
       /\ NegsCovered(ps, top, recN) /\ AggsCovered(ps, top, recA)
  <2> HIDE DEF top
  <2> QED
    BY <1>10, FilledCovered
<1> HIDE DEF rec, recN, recA, top, ps, p
<1>12. StatesCovered(ps, consumed, top)
  BY <1>6, <1>11 DEF StatesCovered
<1>13. StacksOf(ps, top, F)
  <2>1. F[0] = {q \in 1 .. Len(ps) : Available(ps, consumed, q, 0)}
    BY <1>5 DEF Free
  <2>2. p \in F[0] /\ F[0] \subseteq 1 .. Len(ps)
    BY <1>3, <1>4, <1>5, <2>1 DEF Available
  <2> HIDE DEF F
  <2>3. StackOf(ps, <<p>>, F[0])
    BY <1>3, <2>2, StackOne
  <2> QED
    BY <1>2, <1>5, <1>6, <2>2, <2>3 DEF StacksOf, StacksIn
<1>14. IsCleared(ps, top, clr) /\ StacksOf(ps, clr, F)
  BY <1>3, <1>4, <1>13, ClearedStatesOK
<1> HIDE DEF clr
<1>15. clr[0] = <<p>>
  BY <1>6, <1>14 DEF IsCleared
<1>16. /\ StatesCovered(ps, consumed, clr)
       /\ \A k \in States : Els(clr[k]) \subseteq Els(top[k])
  BY <1>3, <1>4, <1>7, <1>12, <1>13, <1>14, ClearedCovered
<1> HIDE DEF F
<1>17. \A k \in States : F[k] \subseteq 1 .. Len(ps) /\ StackOf(ps, clr[k], F[k])
  BY <1>14 DEF StacksOf, StacksIn
<1>18. ASSUME NEW k \in States
       PROVE  StackOf(ps, clr[k], 1 .. Len(ps)) /\ Els(clr[k]) \subseteq Els(top[k])
  <2>1. StackOf(ps, clr[k], 1 .. Len(ps))
    BY <1>17, StackMono
  <2> QED
    BY <1>16, <2>1
<1>19. NegsCovered(ps, clr, clrN) /\ AggsCovered(ps, clr, clrA)
  BY <1>2, <1>3, <1>4, <1>7, <1>11, <1>18, ClearedBounds
<1>20. StacksIn(ps, clrN, Negs, All(ps, Negs)) /\ StacksIn(ps, clrA, Aggs, All(ps, Aggs))
  <2>0. ASSUME NEW u \in States PROVE clr[u] \in Seq(1 .. Len(ps))
    BY <1>18 DEF StackOf
  <2>1. ASSUME NEW n \in Negs PROVE StackOf(ps, clrN[n], 1 .. Len(ps))
    <3> DEFINE ref == clr[rule.negs[n].upperId]
               win == NegWindow(rule.negs[n])
    <3>1. clrN[n] = Trim(ps, recN[n], ref, win)
      BY DEF ClearedNegs
    <3>2. ref \in Seq(1 .. Len(ps)) /\ win \in Nat
      BY <1>5, <2>0
    <3>3. StackOf(ps, recN[n], 1 .. Len(ps))
      BY <1>2 DEF StacksIn, All
    <3> HIDE DEF ref, win, clrN
    <3>4. StackOf(ps, Trim(ps, recN[n], ref, win), 1 .. Len(ps))
      BY <1>3, <3>2, <3>3, TrimOK
    <3> QED
      BY <3>1, <3>4
  <2>2. ASSUME NEW a \in Aggs PROVE StackOf(ps, clrA[a], 1 .. Len(ps))
    <3> DEFINE ref == clr[rule.aggs[a].upperId]
               win == rule.aggs[a].lowerTime
    <3>1. clrA[a] = Trim(ps, recA[a], ref, win)
      BY DEF ClearedAggs
    <3>2. ref \in Seq(1 .. Len(ps)) /\ win \in Nat
      BY <1>5, <2>0
    <3>3. StackOf(ps, recA[a], 1 .. Len(ps))
      BY <1>2 DEF StacksIn, All
    <3> HIDE DEF ref, win, clrA
    <3>4. StackOf(ps, Trim(ps, recA[a], ref, win), 1 .. Len(ps))
      BY <1>3, <3>2, <3>3, TrimOK
    <3> QED
      BY <3>1, <3>4
  <2> HIDE DEF clrN, clrA
  <2> QED
    BY <2>1, <2>2 DEF StacksIn, All
<1> HIDE DEF clrN, clrA
<1>21. StacksReady(ps, consumed, clr, clrN)
  BY <1>14, <1>16, <1>19, <1>20 DEF StacksReady, F
<1>22. StepMeant
  <2>1. EventsMeant(ps, consumed, ComplexEvents(ps, clrA, pes))
    BY <1>3, <1>4, <1>7, <1>15, <1>19, <1>20, <1>21, EventsExact DEF p
  <2> HIDE DEF pes
  <2> QED
    BY <1>1, <2>1 DEF StepMeant
<1> HIDE DEF pes, Gone
<1>23. /\ received'[0] = <<>>
       /\ \A k \in States \ {0} :
            received'[k] = IF k \notin rule.consuming THEN clr[k]
                           ELSE Without(clr[k], Gone(k))
  BY <1>1, <1>5 DEF RemoveTerminator, RemoveConsumed, Gone
<1>24. ASSUME NEW k \in States \ {0}
       PROVE  /\ Increasing(received'[k])
              /\ Els(received'[k]) = Els(clr[k]) \cap Free(ps, consumed')[k]
              /\ Free(ps, consumed')[k] \subseteq F[k]
  <2>1. Free(ps, consumed')[k] = {q \in 1 .. Len(ps) : k \in ps[q].states /\ q \notin consumed'[k]}
    BY DEF Free, Available
  <2>2. F[k] = {q \in 1 .. Len(ps) : k \in ps[q].states /\ q \notin consumed[k]}
    BY DEF Free, Available, F
  <2>3. Increasing(clr[k]) /\ Els(clr[k]) \subseteq F[k]
    BY <1>16 DEF StatesCovered, Covered, F
  <2>4. CASE k \notin rule.consuming
    <3>1. received'[k] = clr[k] /\ consumed'[k] = consumed[k]
      BY <1>1, <1>23, <2>4
    <3> QED
      BY <2>1, <2>2, <2>3, <3>1
  <2>5. CASE k \in rule.consuming
    <3>1. received'[k] = Without(clr[k], Gone(k)) /\ consumed'[k] = consumed[k] \cup Gone(k)
      BY <1>1, <1>23, <2>5
    <3>2. clr[k] \in Seq(1 .. Len(ps)) /\ 1 .. Len(ps) \subseteq Nat
      BY <1>3, <1>18 DEF StackOf
    <3>3. /\ Els(Without(clr[k], Gone(k))) = Els(clr[k]) \ Gone(k)
          /\ Increasing(Without(clr[k], Gone(k)))
      BY <2>3, <3>2, WithoutExact
    <3> QED
      BY <2>1, <2>2, <2>3, <3>1, <3>3
  <2> QED
    BY <2>4, <2>5
<1>25. \A k \in States : Els(received'[k]) \subseteq Els(clr[k])
  <2>1. Els(<<>>) = {}
    BY DEF Els
  <2> QED
    BY <1>23, <1>24, <2>1
<1>26. StatesCovered(ps, consumed', received')
  <2> SUFFICES ASSUME NEW k \in States \ {0}
               PROVE  Covered(ps, received'[k], Free(ps, consumed')[k],
                              received'[rule.refersTo[k]], rule.win[k])
    BY DEF StatesCovered
  <2> DEFINE r == rule.refersTo[k]
  <2>1. r \in States
    BY <1>5
  <2>2. Covered(ps, clr[k], F[k], clr[r], rule.win[k])
    BY <1>16 DEF StatesCovered, F
  <2>3. Els(received'[r]) \subseteq Els(clr[r])
    BY <1>25, <2>1
  <2> HIDE DEF r
  <2>4. Covered(ps, received'[k], Free(ps, consumed')[k], received'[r], rule.win[k])
    BY <1>24, <2>2, <2>3, CoverShrink
  <2> QED
    BY <2>4 DEF r
<1>27. NegsCovered(ps, received', recNegs')
  <2> SUFFICES ASSUME NEW n \in Negs
               PROVE  Covered(ps, clrN[n], NegPkts(ps, n), received'[rule.negs[n].upperId],
                              NegWindow(rule.negs[n]))
    BY <1>1 DEF NegsCovered
  <2> DEFINE r == rule.negs[n].upperId
  <2>1. Els(received'[r]) \subseteq Els(clr[r])
    BY <1>5, <1>25
  <2>2. Covered(ps, clrN[n], NegPkts(ps, n), clr[r], NegWindow(rule.negs[n]))
    BY <1>19 DEF NegsCovered
  <2> QED
    BY <2>1, <2>2 DEF Covered
<1>28. AggsCovered(ps, received', recAggs')
  <2> SUFFICES ASSUME NEW a \in Aggs
               PROVE  Covered(ps, clrA[a], AggPkts(ps, a), received'[rule.aggs[a].upperId],
                              rule.aggs[a].lowerTime)
    BY <1>1 DEF AggsCovered
  <2> DEFINE r == rule.aggs[a].upperId
  <2>1. Els(received'[r]) \subseteq Els(clr[r])
    BY <1>5, <1>25
  <2>2. Covered(ps, clrA[a], AggPkts(ps, a), clr[r], rule.aggs[a].lowerTime)
    BY <1>19 DEF AggsCovered
  <2> QED
    BY <2>1, <2>2 DEF Covered
<1>29. MeaningInv'
  BY <1>1, <1>7, <1>26, <1>27, <1>28, MeaningAfter
<1> QED
  BY <1>22, <1>29

-----------------------------------------------------------------------------
(* The theorem.                                                            *)

\* The rules of a run whose packets come in order are local.
LocalRules == \A r \in Rules : InOrder(r) => RuleLocal(r)

\* No packet has come, so nothing is forgotten.
LEMMA InitMeant == Init => MeaningInv
<1> SUFFICES ASSUME Init PROVE MeaningInv
  OBVIOUS
<1>1. pkts = <<>> /\ Len(pkts) = 0 /\ rule \in Rules
  BY DEF Init
<1>2. /\ received = [k \in States |-> <<>>] /\ recNegs = [n \in Negs |-> <<>>]
      /\ recAggs = [a \in Aggs |-> <<>>]
  BY DEF Init
<1>3. \A i \in 1 .. Len(pkts) : FALSE
  BY <1>1
<1>4. InTime(pkts)
  BY <1>3 DEF InTime
<1>5. ASSUME NEW M, M \subseteq 1 .. Len(pkts), NEW ref, NEW w PROVE Covered(pkts, <<>>, M, ref, w)
  BY <1>3, <1>5 DEF Covered, Els, Increasing
<1>6. StatesCovered(pkts, consumed, received)
  <2>1. \A k \in States : Free(pkts, consumed)[k] \subseteq 1 .. Len(pkts)
    BY DEF Free
  <2>2. \A k \in States \ {0} : received[k] = <<>>
    BY <1>2
  <2> QED
    BY <1>5, <2>1, <2>2 DEF StatesCovered
<1>7. NegsCovered(pkts, received, recNegs)
  <2>1. \A n \in Negs : NegPkts(pkts, n) \subseteq 1 .. Len(pkts) /\ recNegs[n] = <<>>
    BY <1>2 DEF NegPkts
  <2> QED
    BY <1>5, <2>1 DEF NegsCovered
<1>8. AggsCovered(pkts, received, recAggs)
  <2>1. \A a \in Aggs : AggPkts(pkts, a) \subseteq 1 .. Len(pkts) /\ recAggs[a] = <<>>
    BY <1>2 DEF AggPkts
  <2> QED
    BY <1>5, <2>1 DEF AggsCovered
<1> QED
  BY <1>4, <1>6, <1>7, <1>8 DEF MeaningInv

\* Every packet, terminator or not.
LEMMA MeaningNext ==
  ASSUME LocalRules, StackInv, MeaningInv, Next
  PROVE  MeaningInv' /\ (InOrder(rule) => StepMeant)
<1>1. PICK pkt \in Arrivals : Process(pkt)
  BY DEF Next, Receive
<1>2. rule' = rule
  BY <1>1 DEF Process
<1>3. CASE ~InOrder(rule)
  BY <1>2, <1>3 DEF MeaningInv
<1>4. CASE InOrder(rule)
  <2>1. RuleLocal(rule)
    BY <1>4 DEF LocalRules, StackInv, TypeOK
  <2> QED
    BY <1>1, <1>4, <2>1, WaitMeant, ComputationMeant
<1> QED
  BY <1>3, <1>4

\* A stuttering step.
LEMMA MeaningStutter ==
  ASSUME MeaningInv, UNCHANGED vars
  PROVE  MeaningInv'
<1>1. /\ rule' = rule /\ pkts' = pkts /\ received' = received /\ recNegs' = recNegs
      /\ recAggs' = recAggs /\ consumed' = consumed
  BY DEF vars
<1>2. CASE ~InOrder(rule)
  BY <1>1, <1>2 DEF MeaningInv
<1>3. CASE InOrder(rule)
  BY <1>1, <1>3, MeaningAfter DEF MeaningInv
<1> QED
  BY <1>2, <1>3

\* What ResultsMatchMeaning says of a step.
MatchStep ==
  InOrder(rule) =>
    /\ {r.pe : r \in results'} = Meaning(pkts', consumed)
    /\ \A r \in results' : \A a \in Aggs :
         r.aggs[a] = AggregateMeaning(pkts', a, r.pe)

\* For every local rule whose packets come in order, the composite events created
\* for a terminator are exactly those the rule means on everything received, and
\* their aggregates are computed from exactly the packets they are about.
THEOREM EventsAreMeant == LocalRules => (Spec => ResultsMatchMeaning)
<1> SUFFICES ASSUME LocalRules PROVE Spec => ResultsMatchMeaning
  OBVIOUS
<1> DEFINE Inv == StackInv /\ MeaningInv
<1>1. Init => Inv
  BY InitStacks, InitMeant
<1>2. Inv /\ [Next]_vars => Inv'
  BY InvNext, MeaningNext, MeaningStutter
<1>3. Inv /\ [Next]_vars => [MatchStep]_vars
  BY MeaningNext DEF MatchStep, StepMeant, EventsMeant
<1>4. Spec => [][MatchStep]_vars
  <2> HIDE DEF Inv
  <2> QED
    BY <1>1, <1>2, <1>3, PTL DEF Spec
<1> QED
  BY <1>4, PTL DEF ResultsMatchMeaning, MatchStep
=============================================================================
