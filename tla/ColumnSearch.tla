--------------------------- MODULE ColumnSearch ---------------------------
(***************************************************************************)
(* The binary searches getFirstValidElement, getLastValidElement and       *)
(* deleteInvalidElements of TRex2-lib/src/Common/Funs.cc, step by step.    *)
(* Indexes are the C++ ones: element i of the vector is col[i + 1].        *)
(***************************************************************************)
EXTENDS Columns

CONSTANTS
  MaxLen,    \* bound: length of a column
  MaxTime    \* bound: time stamps

ASSUME BoundsAssumption == MaxLen \in Nat /\ MaxTime \in Nat

SearchFunctions == {"first", "last", "delete"}

VARIABLES
  fn,          \* the function called
  col,         \* its argument column; columnSize is its length
  key,         \* minTimeStamp or maxTimeStamp
  minIndex,    \* last argument of getLastValidElement
  pc,          \* "enter", "loop" or "done"
  lo, hi,      \* minValue and maxValue
  ret          \* the value returned

vars == <<fn, col, key, minIndex, pc, lo, hi, ret>>
args == <<fn, col, key, minIndex>>

Element(i) == col[i + 1]
Size == Len(col)

\* Every call the engine makes: sorted columns, and a minIndex that is an
\* answer of getFirstValidElement.
Init ==
  /\ fn \in SearchFunctions
  /\ \E n \in 0 .. MaxLen : col \in [1 .. n -> 0 .. MaxTime]
  /\ Sorted(col)
  /\ key \in 0 .. MaxTime
  /\ minIndex \in -1 .. Len(col) - 1
  /\ pc = "enter"
  /\ lo = 0
  /\ hi = 0
  /\ ret = 0

Finish(v) == pc' = "done" /\ ret' = v /\ UNCHANGED <<lo, hi, args>>

Search(l, h) == pc' = "loop" /\ lo' = l /\ hi' = h /\ UNCHANGED <<ret, args>>

\* Mutant of EnterFirst: the last element is tested with < instead of <=.
MutEnterFirst ==
  IF Size <= 0 \/ Element(Size - 1) < key THEN Finish(-1) ELSE Search(0, Size - 1)

\* getFirstValidElement up to its loop.
EnterFirst ==
  IF Size <= 0 \/ Element(Size - 1) <= key THEN Finish(-1) ELSE Search(0, Size - 1)

\* Mutant of EnterLast: columnSize is taken for the last index.
MutEnterLast ==
  IF minIndex = -1 \/ Element(minIndex) >= key
  THEN Finish(-1)
  ELSE Search(minIndex, Size)

\* getLastValidElement up to its loop.
EnterLast ==
  IF minIndex = -1 \/ Element(minIndex) >= key
  THEN Finish(-1)
  ELSE Search(minIndex, Size - 1)

\* deleteInvalidElements up to the call of getFirstValidElement and on to that
\* function's loop; when the search finds nothing the answer is 0.
EnterDelete ==
  IF Size = 0 THEN Finish(0)
  ELSE IF Element(Size - 1) = key THEN Finish(1)
  ELSE IF Element(Size - 1) <= key THEN Finish(0)
  ELSE Search(0, Size - 1)

Enter ==
  /\ pc = "enter"
  /\ CASE fn = "first"  -> EnterFirst
       [] fn = "last"   -> EnterLast
       [] fn = "delete" -> EnterDelete

\* The test that moves the lower end of the search.
Below(i) == IF fn = "last" THEN Element(i) < key ELSE Element(i) <= key

\* Mutant of Halve: the lower end does not move.
MutHalve ==
  /\ pc = "loop"
  /\ hi - lo > 1
  /\ LET mid == lo + ((hi - lo) \div 2)
     IN  IF Below(mid) THEN lo' = lo /\ hi' = hi ELSE lo' = lo /\ hi' = mid
  /\ UNCHANGED <<pc, ret, args>>

\* One iteration of the loop.
Halve ==
  /\ pc = "loop"
  /\ hi - lo > 1
  /\ LET mid == lo + ((hi - lo) \div 2)
     IN  IF Below(mid) THEN lo' = mid /\ hi' = hi ELSE lo' = lo /\ hi' = mid
  /\ UNCHANGED <<pc, ret, args>>

\* The element chosen among the one or two that are left.
Chosen ==
  IF hi - lo = 0 THEN lo
  ELSE IF fn = "last" THEN (IF Below(hi) THEN hi ELSE lo)
  ELSE (IF Below(lo) THEN hi ELSE lo)

\* Mutant of Leave: one element too many is kept.
MutLeave ==
  /\ pc = "loop"
  /\ hi - lo <= 1
  /\ Finish(IF fn = "delete" THEN Size - Chosen + 1 ELSE Chosen)

\* The end of the function.
Leave ==
  /\ pc = "loop"
  /\ hi - lo <= 1
  /\ Finish(IF fn = "delete" THEN Size - Chosen ELSE Chosen)

Done == pc = "done" /\ UNCHANGED vars

Next == Enter \/ Halve \/ Leave \/ Done

Spec == Init /\ [][Next]_vars

\* A running function goes on running.
FairSpec == Spec /\ WF_vars(Enter \/ Halve \/ Leave)

-----------------------------------------------------------------------------
\* What the call must return, as a C++ index.
Answer ==
  CASE fn = "first"  -> FirstValid(col, key) - 1
    [] fn = "last"   -> LastValid(col, key, minIndex + 1) - 1
    [] fn = "delete" -> Remaining(col, key)

\* The type invariant; what is returned is an index, -1 or a size.
TypeOK ==
  /\ fn \in SearchFunctions
  /\ col \in Seq(Nat)
  /\ key \in Nat
  /\ minIndex \in -1 .. Len(col) - 1
  /\ pc \in {"enter", "loop", "done"}
  /\ lo \in Nat
  /\ hi \in Nat
  /\ ret \in -1 .. Len(col)

\* The searches never read outside the column, and halving keeps the two ends
\* in order.
InBounds == pc = "loop" => 0 <= lo /\ lo <= hi /\ hi < Size

\* The functions of Funs.cc return the element their callers in StacksRule.cc
\* take it for: the first one later than minTimeStamp, the last one earlier than
\* maxTimeStamp, the number of elements to keep.
SearchCorrect == pc = "done" => ret = Answer

\* The searches end.
Terminates == <>(pc = "done")
=============================================================================
