------------------------------ MODULE Columns ------------------------------
(***************************************************************************)
(* What the searches on a column of time stamps return                     *)
(* (TRex2-lib/src/Common/Funs.cc).  A column is the sequence of the time   *)
(* stamps of the packets of a stack; position i stands for the C++ index   *)
(* i - 1, and position 0 for the answer -1.                                *)
(***************************************************************************)
EXTENDS Integers, Sequences

Sorted(col) == \A i, j \in 1 .. Len(col) : i <= j => col[i] <= col[j]

\* TimeMs::operator-: 64-bit and unsigned, it stops at 0.
Minus(a, b) == IF a > b THEN a - b ELSE 0

\* The first position whose time stamp is later than t.
FirstValid(col, t) ==
  IF \E i \in 1 .. Len(col) : col[i] > t
  THEN CHOOSE i \in 1 .. Len(col) :
         col[i] > t /\ \A j \in 1 .. Len(col) : j < i => col[j] <= t
  ELSE 0

\* The last position from i0 on whose time stamp is earlier than t.
LastValid(col, t, i0) ==
  IF i0 # 0 /\ \E i \in i0 .. Len(col) : col[i] < t
  THEN CHOOSE i \in i0 .. Len(col) :
         col[i] < t /\ \A j \in i0 .. Len(col) : i < j => col[j] >= t
  ELSE 0

\* How many elements, from the end, remain when those up to t are deleted; the
\* last one stays if its time stamp is t itself.
Remaining(col, t) ==
  IF Len(col) > 0 /\ col[Len(col)] = t THEN 1
  ELSE IF FirstValid(col, t) = 0 THEN 0
  ELSE Len(col) - FirstValid(col, t) + 1
=============================================================================
