------------------------ MODULE ColumnSearch_proofs ------------------------
(***************************************************************************)
(* The binary searches of Funs.cc are correct for every sorted column, of  *)
(* any length and with any time stamps.                                    *)
(***************************************************************************)
EXTENDS ColumnSearch, TLAPS

\* The ends of the search enclose the answer: everything up to lo is on the
\* lower side, unless lo is still where the search started, and everything from
\* hi on is on the upper side, unless hi is still the last index.
Enclosed ==
  pc = "loop" =>
    /\ 0 <= lo /\ lo <= hi /\ hi < Size
    /\ fn \in {"first", "delete"} =>
         /\ Element(hi) > key
         /\ lo > 0 => Element(lo) <= key
         /\ fn = "delete" => Element(Size - 1) # key
    /\ fn = "last" =>
         /\ minIndex >= 0 /\ minIndex <= lo
         /\ Element(lo) < key
         /\ hi < Size - 1 => Element(hi) >= key

SearchInv == TypeOK /\ Sorted(col) /\ Enclosed /\ SearchCorrect

-----------------------------------------------------------------------------
\* FirstValid is the only position with later elements from it on and none
\* before it.
LEMMA FirstValidUnique ==
  ASSUME NEW c \in Seq(Nat), NEW t \in Nat, NEW i \in 1 .. Len(c),
         c[i] > t, \A j \in 1 .. Len(c) : j < i => c[j] <= t
  PROVE  FirstValid(c, t) = i
<1> DEFINE P(k) == c[k] > t /\ \A j \in 1 .. Len(c) : j < k => c[j] <= t
<1> DEFINE x == CHOOSE k \in 1 .. Len(c) : P(k)
<1>1. x \in 1 .. Len(c) /\ P(x)
  <2>1. \E k \in 1 .. Len(c) : P(k)
    OBVIOUS
  <2> HIDE DEF P
  <2> QED
    BY <2>1
<1>2. FirstValid(c, t) = x
  BY DEF FirstValid
<1>3. \A k \in 1 .. Len(c) : c[k] \in Nat
  OBVIOUS
<1> HIDE DEF x
<1>4. x = i
  <2>1. ~(x < i)
    BY <1>1, <1>3
  <2>2. ~(i < x)
    BY <1>1, <1>3
  <2> QED
    BY <1>1, <2>1, <2>2
<1> QED
  BY <1>2, <1>4

\* The same for LastValid.
LEMMA LastValidUnique ==
  ASSUME NEW c \in Seq(Nat), NEW t \in Nat, NEW i0 \in 1 .. Len(c),
         NEW i \in i0 .. Len(c),
         c[i] < t, \A j \in i0 .. Len(c) : i < j => c[j] >= t
  PROVE  LastValid(c, t, i0) = i
<1> DEFINE P(k) == c[k] < t /\ \A j \in i0 .. Len(c) : k < j => c[j] >= t
<1> DEFINE x == CHOOSE k \in i0 .. Len(c) : P(k)
<1>1. x \in i0 .. Len(c) /\ P(x)
  <2>1. \E k \in i0 .. Len(c) : P(k)
    OBVIOUS
  <2> HIDE DEF P
  <2> QED
    BY <2>1
<1>2. LastValid(c, t, i0) = x
  <2>1. i0 # 0 /\ \E k \in i0 .. Len(c) : c[k] < t
    OBVIOUS
  <2> QED
    BY <2>1, Zenon DEF LastValid
<1>3. \A k \in 1 .. Len(c) : c[k] \in Nat
  OBVIOUS
<1> HIDE DEF x
<1>4. x = i
  <2>1. ~(x < i)
    BY <1>1, <1>3
  <2>2. ~(i < x)
    BY <1>1, <1>3
  <2> QED
    BY <1>1, <2>1, <2>2
<1> QED
  BY <1>2, <1>4

-----------------------------------------------------------------------------
\* Every call starts with a sorted column and nothing searched yet.
LEMMA SearchInit == Init => SearchInv
<1> SUFFICES ASSUME Init PROVE SearchInv
  OBVIOUS
<1> USE BoundsAssumption
<1>1. PICK n \in 0 .. MaxLen : col \in [1 .. n -> 0 .. MaxTime]
  BY DEF Init
<1>2. col \in Seq(Nat)
  BY <1>1
<1>3. Len(col) \in Nat
  BY <1>2
<1>4. TypeOK
  BY <1>2, <1>3 DEF Init, TypeOK
<1> QED
  BY <1>4 DEF Init, SearchInv, Enclosed, SearchCorrect

\* What a search that is entered and left at once, or that leaves its loop,
\* returns is the answer.
LEMMA FirstAnswer ==
  ASSUME TypeOK, Sorted(col), NEW i \in 0 .. Size - 1,
         Element(i) > key, i > 0 => Element(i - 1) <= key
  PROVE  FirstValid(col, key) = i + 1
<1>1. col \in Seq(Nat) /\ key \in Nat /\ Len(col) \in Nat
  BY DEF TypeOK
<1>2. i + 1 \in 1 .. Len(col) /\ col[i + 1] > key
  BY <1>1 DEF Size, Element
<1>3. \A k \in 1 .. Len(col) : col[k] \in Nat
  BY <1>1
<1>4. ASSUME NEW j \in 1 .. Len(col), j < i + 1 PROVE col[j] <= key
  <2>1. i > 0 /\ i \in 1 .. Len(col) /\ col[i] <= key
    BY <1>1, <1>4 DEF Size, Element
  <2>2. j <= i
    BY <1>4
  <2>3. col[j] <= col[i]
    BY <2>1, <2>2 DEF Sorted
  <2> QED
    BY <1>3, <1>1, <2>1, <2>3
<1> QED
  BY <1>1, <1>2, <1>4, FirstValidUnique

\* No element is late enough when the last one is not.
LEMMA NoFirst ==
  ASSUME TypeOK, Sorted(col), Size > 0 => Element(Size - 1) <= key
  PROVE  FirstValid(col, key) = 0
<1>1. col \in Seq(Nat) /\ key \in Nat /\ Len(col) \in Nat
  BY DEF TypeOK
<1>2. ASSUME NEW i \in 1 .. Len(col) PROVE ~(col[i] > key)
  <2>1. Len(col) \in 1 .. Len(col) /\ col[Len(col)] <= key
    BY <1>1 DEF Size, Element
  <2>2. col[i] <= col[Len(col)]
    BY <2>1 DEF Sorted
  <2>3. col[i] \in Nat /\ col[Len(col)] \in Nat
    BY <1>1, <2>1
  <2> QED
    BY <1>1, <2>1, <2>2, <2>3
<1> QED
  BY <1>2 DEF FirstValid

\* The same two facts for the search from the other side.
LEMMA LastAnswer ==
  ASSUME TypeOK, Sorted(col), minIndex >= 0, NEW i \in minIndex .. Size - 1,
         Element(i) < key, i < Size - 1 => Element(i + 1) >= key
  PROVE  LastValid(col, key, minIndex + 1) = i + 1
<1>1. col \in Seq(Nat) /\ key \in Nat /\ Len(col) \in Nat /\ minIndex \in Int
  BY DEF TypeOK
<1>2. /\ minIndex + 1 \in 1 .. Len(col)
      /\ i + 1 \in minIndex + 1 .. Len(col)
      /\ col[i + 1] < key
  BY <1>1 DEF Size, Element
<1>3. ASSUME NEW j \in minIndex + 1 .. Len(col), i + 1 < j PROVE col[j] >= key
  <2>1. i + 2 \in 1 .. Len(col) /\ j \in 1 .. Len(col) /\ i + 2 <= j
    BY <1>1, <1>2, <1>3
  <2>2. col[i + 2] >= key
    BY <1>1, <2>1 DEF Size, Element
  <2>3. col[i + 2] <= col[j]
    BY <2>1 DEF Sorted
  <2>4. col[i + 2] \in Nat /\ col[j] \in Nat
    BY <1>1, <2>1
  <2> QED
    BY <1>1, <2>2, <2>3, <2>4
<1> QED
  BY <1>1, <1>2, <1>3, LastValidUnique

\* LastValid is 0 where no element is early enough.
LEMMA NoLast ==
  ASSUME TypeOK, Sorted(col), minIndex = -1 \/ Element(minIndex) >= key
  PROVE  LastValid(col, key, minIndex + 1) = 0
<1>1. col \in Seq(Nat) /\ key \in Nat /\ Len(col) \in Nat
      /\ minIndex \in -1 .. Len(col) - 1
  BY DEF TypeOK
<1>2. CASE minIndex = -1
  BY <1>2 DEF LastValid
<1>3. CASE minIndex # -1
  <2>1. minIndex + 1 \in 1 .. Len(col) /\ col[minIndex + 1] >= key
    BY <1>1, <1>3 DEF Element
  <2>2. ASSUME NEW i \in minIndex + 1 .. Len(col) PROVE ~(col[i] < key)
    <3>1. i \in 1 .. Len(col) /\ minIndex + 1 <= i
      BY <1>1, <2>1
    <3>2. col[minIndex + 1] <= col[i]
      BY <2>1, <3>1 DEF Sorted
    <3>3. col[i] \in Nat /\ col[minIndex + 1] \in Nat
      BY <1>1, <2>1, <3>1
    <3> QED
      BY <1>1, <2>1, <3>2, <3>3
  <2> QED
    BY <2>2 DEF LastValid
<1> QED
  BY <1>2, <1>3

-----------------------------------------------------------------------------
\* Every step of a search keeps the answer enclosed, and the last one returns it.
LEMMA SearchNext == SearchInv /\ [Next]_vars => SearchInv'
<1> SUFFICES ASSUME SearchInv, [Next]_vars PROVE SearchInv'
  OBVIOUS
<1>a. /\ TypeOK /\ Sorted(col) /\ Enclosed /\ SearchCorrect
      /\ Size \in Nat /\ Size = Len(col)
      /\ \A i \in 0 .. Size - 1 : Element(i) \in Nat
      /\ key \in Nat /\ minIndex \in -1 .. Size - 1
      /\ lo \in Nat /\ hi \in Nat
      /\ fn \in SearchFunctions
  BY DEF SearchInv, TypeOK, Size, Element
<1>b. ASSUME UNCHANGED args, NEW v \in -1 .. Size, Finish(v), v = Answer
      PROVE  SearchInv'
  BY <1>a, <1>b DEF SearchInv, TypeOK, Enclosed, SearchCorrect, Answer, Finish,
     args, Size
<1>1. CASE Enter
  <2>1. CASE fn = "first"
    <3>1. CASE Size <= 0 \/ Element(Size - 1) <= key
      <4>1. Finish(-1)
        BY <1>1, <2>1, <3>1 DEF Enter, EnterFirst
      <4>2. Answer = -1
        BY <1>a, <2>1, <3>1, NoFirst DEF Answer
      <4> QED
        BY <1>a, <1>b, <4>1, <4>2 DEF Finish
    <3>2. CASE ~(Size <= 0 \/ Element(Size - 1) <= key)
      <4>1. Search(0, Size - 1)
        BY <1>1, <2>1, <3>2 DEF Enter, EnterFirst
      <4> QED
        BY <1>a, <2>1, <3>2, <4>1 DEF SearchInv, TypeOK, Enclosed, SearchCorrect,
           Search, args, Size, Element
    <3> QED
      BY <3>1, <3>2
  <2>2. CASE fn = "last"
    <3>1. CASE minIndex = -1 \/ Element(minIndex) >= key
      <4>1. Finish(-1)
        BY <1>1, <2>2, <3>1 DEF Enter, EnterLast
      <4>2. Answer = -1
        BY <1>a, <2>2, <3>1, NoLast DEF Answer
      <4> QED
        BY <1>a, <1>b, <4>1, <4>2 DEF Finish
    <3>2. CASE ~(minIndex = -1 \/ Element(minIndex) >= key)
      <4>1. Search(minIndex, Size - 1)
        BY <1>1, <2>2, <3>2 DEF Enter, EnterLast
      <4> QED
        BY <1>a, <2>2, <3>2, <4>1 DEF SearchInv, TypeOK, Enclosed, SearchCorrect,
           Search, args, Size, Element
    <3> QED
      BY <3>1, <3>2
  <2>3. CASE fn = "delete"
    <3>1. CASE Size = 0
      <4>1. Finish(0)
        BY <1>1, <2>3, <3>1 DEF Enter, EnterDelete
      <4>2. Answer = 0
        BY <1>a, <2>3, <3>1, NoFirst DEF Answer, Remaining
      <4> QED
        BY <1>a, <1>b, <4>1, <4>2 DEF Finish
    <3>2. CASE Size # 0 /\ Element(Size - 1) = key
      <4>1. Finish(1)
        BY <1>1, <2>3, <3>2 DEF Enter, EnterDelete
      <4>2. Answer = 1
        BY <1>a, <2>3, <3>2 DEF Answer, Remaining, Size, Element
      <4> QED
        BY <1>a, <1>b, <3>2, <4>1, <4>2 DEF Finish
    <3>3. CASE Size # 0 /\ Element(Size - 1) # key /\ Element(Size - 1) <= key
      <4>1. Finish(0)
        BY <1>1, <2>3, <3>3 DEF Enter, EnterDelete
      <4>2. FirstValid(col, key) = 0
        BY <1>a, <3>3, NoFirst
      <4>3. Answer = 0
        BY <1>a, <2>3, <3>3, <4>2 DEF Answer, Remaining, Size, Element
      <4> QED
        BY <1>a, <1>b, <4>1, <4>3 DEF Finish
    <3>4. CASE Size # 0 /\ Element(Size - 1) # key /\ ~(Element(Size - 1) <= key)
      <4>1. Search(0, Size - 1)
        BY <1>1, <2>3, <3>4 DEF Enter, EnterDelete
      <4> QED
        BY <1>a, <2>3, <3>4, <4>1 DEF SearchInv, TypeOK, Enclosed, SearchCorrect,
           Search, args, Size, Element
    <3> QED
      BY <3>1, <3>2, <3>3, <3>4
  <2> QED
    BY <1>a, <2>1, <2>2, <2>3 DEF SearchFunctions
<1>2. CASE Halve
  <2> DEFINE mid == lo + ((hi - lo) \div 2)
  <2>1. /\ pc = "loop" /\ hi - lo > 1 /\ 0 <= lo /\ hi < Size
        /\ UNCHANGED <<pc, ret, args>>
    BY <1>2, <1>a DEF Halve, Enclosed
  <2>2. mid \in Nat /\ lo < mid /\ mid < hi
    BY <1>a, <2>1
  <2>3. IF Below(mid) THEN lo' = mid /\ hi' = hi ELSE lo' = lo /\ hi' = mid
    BY <1>2 DEF Halve
  <2> HIDE DEF mid
  <2>4. Element(mid) \in Nat
    BY <1>a, <2>1, <2>2
  <2>5. /\ lo' \in Nat /\ hi' \in Nat /\ lo' <= hi' /\ hi' < Size /\ lo <= lo'
        /\ col' = col /\ key' = key /\ fn' = fn /\ minIndex' = minIndex
        /\ pc' = "loop" /\ ret' = ret
    BY <1>a, <2>1, <2>2, <2>3 DEF args
  <2>6. TypeOK' /\ Sorted(col)' /\ SearchCorrect'
    BY <1>a, <2>5 DEF TypeOK, SearchCorrect
  <2>7. CASE fn = "last"
    <3>1. minIndex >= 0 /\ minIndex <= lo'
      BY <1>a, <2>1, <2>5, <2>7 DEF Enclosed
    <3>2. Element(lo') < key
      BY <1>a, <2>1, <2>3, <2>7 DEF Enclosed, Below
    <3>3. hi' < Size - 1 => Element(hi') >= key
      BY <1>a, <2>1, <2>3, <2>4, <2>7 DEF Enclosed, Below
    <3> QED
      BY <2>5, <2>6, <2>7, <3>1, <3>2, <3>3 DEF SearchInv, Enclosed, Size, Element
  <2>8. CASE fn # "last"
    <3>1. Element(hi') > key
      BY <1>a, <2>1, <2>3, <2>4, <2>8 DEF Enclosed, Below, SearchFunctions
    <3>2. lo' > 0 => Element(lo') <= key
      BY <1>a, <2>1, <2>3, <2>8 DEF Enclosed, Below, SearchFunctions
    <3>3. fn = "delete" => Element(Size - 1) # key
      BY <1>a, <2>1 DEF Enclosed
    <3> QED
      BY <2>5, <2>6, <2>8, <3>1, <3>2, <3>3 DEF SearchInv, Enclosed, Size, Element
  <2> QED
    BY <2>7, <2>8
<1>3. CASE Leave
  <2>1. /\ pc = "loop" /\ hi - lo <= 1 /\ Enclosed
        /\ lo <= hi /\ hi < Size
    BY <1>3, <1>a DEF Leave, Enclosed
  <2>2. hi = lo \/ hi = lo + 1
    BY <1>a, <2>1
  <2>3. Chosen \in 0 .. Size - 1
    BY <1>a, <2>1 DEF Chosen
  <2>4. CASE fn = "last"
    <3>1. /\ Chosen \in minIndex .. Size - 1 /\ minIndex >= 0
          /\ Element(Chosen) < key
          /\ Chosen < Size - 1 => Element(Chosen + 1) >= key
      BY <1>a, <2>1, <2>2, <2>4 DEF Chosen, Below, Enclosed
    <3>2. Answer = Chosen
      BY <1>a, <2>3, <2>4, <3>1, LastAnswer DEF Answer
    <3>3. Finish(Chosen)
      BY <1>3, <2>4 DEF Leave
    <3> QED
      BY <1>a, <1>b, <2>3, <3>2, <3>3 DEF Finish
  <2>5. CASE fn # "last"
    <3>1. /\ Element(Chosen) > key
          /\ Chosen > 0 => Element(Chosen - 1) <= key
      BY <1>a, <2>1, <2>2, <2>5 DEF Chosen, Below, Enclosed, SearchFunctions
    <3>2. FirstValid(col, key) = Chosen + 1
      BY <1>a, <2>3, <3>1, FirstAnswer
    <3>3. CASE fn = "first"
      <4>1. Answer = Chosen /\ Finish(Chosen)
        BY <1>3, <2>3, <3>2, <3>3 DEF Answer, Leave
      <4> QED
        BY <1>a, <1>b, <2>3, <4>1 DEF Finish
    <3>4. CASE fn = "delete"
      <4>1. Finish(Size - Chosen)
        BY <1>3, <3>4 DEF Leave
      <4>2. Element(Size - 1) # key
        BY <2>1, <3>4 DEF Enclosed
      <4>3. Answer = Size - Chosen
        BY <1>a, <2>3, <3>2, <3>4, <4>2 DEF Answer, Remaining, Size, Element
      <4> QED
        BY <1>a, <1>b, <2>3, <4>1, <4>3 DEF Finish
    <3> QED
      BY <1>a, <2>5, <3>3, <3>4 DEF SearchFunctions
  <2> QED
    BY <2>4, <2>5
<1>4. CASE Done \/ UNCHANGED vars
  BY <1>a, <1>4 DEF Done, vars, args, SearchInv, TypeOK, Enclosed, SearchCorrect,
     Answer, Size, Element
<1> QED
  BY <1>1, <1>2, <1>3, <1>4 DEF Next

\* getFirstValidElement, getLastValidElement and deleteInvalidElements return
\* what their callers expect, for every sorted column.
THEOREM SearchIsCorrect == Spec => []SearchCorrect
<1>1. SearchInv => SearchCorrect
  BY DEF SearchInv
<1> QED
  BY SearchInit, SearchNext, <1>1, PTL DEF Spec

\* The searches never read outside the vector.
THEOREM SearchInBounds == Spec => []InBounds
<1>1. SearchInv => InBounds
  BY DEF SearchInv, Enclosed, InBounds
<1> QED
  BY SearchInit, SearchNext, <1>1, PTL DEF Spec

\* Whatever the column and the key, the searches keep their types: what is
\* returned is an index of the column, -1 or a size.
THEOREM SearchTypeCorrect == Spec => []TypeOK
<1>1. SearchInv => TypeOK
  BY DEF SearchInv
<1> QED
  BY SearchInit, SearchNext, <1>1, PTL DEF Spec
=============================================================================
