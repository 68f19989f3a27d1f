--------------------------- MODULE MemoryManager ---------------------------
(***************************************************************************)
(* The pages of the GPU engine (Engine/GPU/MemoryManager.cu).  Host memory *)
(* has mul times the pages of the device, and host page c is shown on the  *)
(* device at page c % d.  Every stack of every rule owns host pages, and   *)
(* onGpu says which rule's page a device page holds.                       *)
(*                                                                         *)
(* A manager is a record m; each operation returns the new one.  A stack   *)
(* is a key <<kind, number>>, kind STATE, NEG or AGG: the code has the     *)
(* same three lines once per kind.  A cell holds the number of a packet, 0 *)
(* in memory that was never written.  exited says that the operation ended *)
(* the process.                                                            *)
(***************************************************************************)
EXTENDS Integers, Sequences, FiniteSets, SequencesExt, FiniteSetsExt

CONSTANTS MAX_RULE_NUM      \* rules the manager has room for

NewMemoryManager(d, mul, page, alloc) ==
  LET chunks == 0 .. d * mul - 1
      empty  == [o \in 0 .. page - 1 |-> 0]
  IN  [d |-> d, page |-> page, alloc |-> alloc, exited |-> FALSE,
       inUse |-> [c \in chunks |-> 0], onGpu |-> [c \in chunks |-> -1],
       live |-> {}, table |-> [id \in 0 .. MAX_RULE_NUM - 1 |-> [key \in {} |-> <<>>]],
       host |-> [c \in chunks |-> empty],
       dev |-> [c \in 0 .. d - 1 |-> empty]]

\* The host pages a stack has, in order.
PagesOf(m, id, key) ==
  IF key \in DOMAIN m.table[id] THEN m.table[id][key] ELSE <<>>

RuleOwns(m, id, c) ==
  \E key \in DOMAIN m.table[id] :
    \E x \in Range(m.table[id][key]) : x % m.d = c % m.d

\* Without ruleOwns.
MutFreeChunks(m, id) == {c \in DOMAIN m.inUse : m.inUse[c] = 0}

\* getFreeChunk takes the first of these; when there is none it exits.
FreeChunks(m, id) ==
  {c \in DOMAIN m.inUse : m.inUse[c] = 0 /\ ~ RuleOwns(m, id, c)}

\* One more page c for a stack.  subscribe marks entry c of onGpu, addEventToStack
\* the entry of its device page.
AddPage(m, id, key, entries) ==
  LET c == Min(FreeChunks(m, id))
  IN  IF m.exited \/ FreeChunks(m, id) = {} THEN [m EXCEPT !.exited = TRUE]
      ELSE [m EXCEPT !.inUse[c] = @ + 1, !.onGpu[c % entries] = id,
                     !.table[id] = [k \in DOMAIN @ \union {key} |->
                                      IF k = key THEN Append(PagesOf(m, id, key), c)
                                      ELSE @[k]]]

\* The token: the first one that is not live.
Token(m) == Min((DOMAIN m.table) \ m.live)

\* One page for each stack, in this order: states, negations, aggregates.
Subscribe(m, keys) ==
  LET id == Token(m)
      marked[i \in 0 .. Len(keys)] ==
        IF i = 0 THEN m
        ELSE AddPage(marked[i - 1], id, keys[i], Cardinality(DOMAIN m.inUse))
  IN  [marked[Len(keys)] EXCEPT !.live = @ \union {id}]

\* The copy to the device forgotten.
MutAddEventToStack(m, id, ev, key, index) ==
  LET grown == IF index \div m.page + 1 > Len(PagesOf(m, id, key))
               THEN AddPage(m, id, key, m.d) ELSE m
      c == PagesOf(grown, id, key)[index \div m.page + 1]
  IN  IF grown.exited THEN grown
      ELSE [grown EXCEPT !.host[c][index % m.page] = ev]

\* Events come one at a time, so at most one page is missing.  The event goes to
\* the device only if the device page is the rule's.
AddEventToStack(m, id, ev, key, index) ==
  LET grown == IF index \div m.page + 1 > Len(PagesOf(m, id, key))
               THEN AddPage(m, id, key, m.d) ELSE m
      c == PagesOf(grown, id, key)[index \div m.page + 1]
      o == index % m.page
      written == [grown EXCEPT !.host[c][o] = ev]
  IN  IF grown.exited THEN grown
      ELSE IF grown.onGpu[c % m.d] = id
           THEN [written EXCEPT !.dev[c % m.d][o] = ev] ELSE written

----------------------------------------------------------------------------

GetEvent(m, id, key, index) ==
  m.host[PagesOf(m, id, key)[index \div m.page + 1]][index % m.page]

SetEvent(m, id, key, index, ev) ==
  [m EXCEPT !.host[PagesOf(m, id, key)[index \div m.page + 1]][index % m.page] = ev]

\* What a kernel reads through the page indexes it was given (getPageIndexes).
DeviceEvent(m, pages, index) ==
  m.dev[pages[index \div m.page + 1] % m.d][index % m.page]

\* An offset without a page reads the field of chunks[-1], which is 0: the word
\* before the allocation is the high half of its size.
GetPage(m, id, key, offset) ==
  LET p == offset \div m.page + 1
  IN  IF p <= Len(PagesOf(m, id, key)) THEN PagesOf(m, id, key)[p] ELSE 0

InvalidatePage(m, c) == [m EXCEPT !.onGpu[c % m.d] = -1]

IsOnGpu(m, id, c) == m.onGpu[c % m.d] = id

CopyPageToDevice(m, id, c) ==
  [m EXCEPT !.dev[c % m.d] = m.host[c], !.onGpu[c % m.d] = id]

\* Removes the event at idx: the later ones move down by one in host memory.
CleanEventStack(m, id, key, idx, high) ==
  LET count == (high - idx - 1) % m.alloc
      move(x, at) == SetEvent(InvalidatePage(x, GetPage(x, id, key, at)),
                              id, key, at % m.alloc,
                              GetEvent(x, id, key, (at + 1) % m.alloc))
      moved[i \in 0 .. count] == IF i = 0 THEN m ELSE move(moved[i - 1], idx + i - 1)
  IN  [m |-> moved[count], high |-> IF high = 0 THEN m.alloc - 1 ELSE high - 1]

\* The offsets of the pages between minId and maxId, in the order of the copies.
Offsets(m, minId, maxId) ==
  LET first  == minId \div m.page
      before == (maxId + m.page - 1) \div m.page
      span(a, b) == IF a < b THEN [i \in 1 .. b - a |-> (a + i - 1) * m.page] ELSE <<>>
  IN  IF maxId >= minId
      THEN <<first * m.page>> \o span(first + 1, before)
      ELSE span(0, before) \o span(first, m.alloc \div m.page)

\* Brings the pages of a stack to the device before a computation.
SetEventsStacks(m, id, key, minId, maxId) ==
  LET offsets == Offsets(m, minId, maxId)
      bring(x, c) == IF IsOnGpu(x, id, c) THEN x ELSE CopyPageToDevice(x, id, c)
      brought[i \in 0 .. Len(offsets)] ==
        IF i = 0 THEN m
        ELSE bring(brought[i - 1], GetPage(brought[i - 1], id, key, offsets[i]))
  IN  brought[Len(offsets)]

\* The table keeps the pages of the rule that left.
Unsubscribe(m, id) ==
  LET owned == UNION {Range(m.table[id][key]) : key \in DOMAIN m.table[id]}
  IN  [m EXCEPT !.live = @ \ {id},
                !.inUse = [c \in DOMAIN @ |-> IF c \in owned THEN @[c] - 1 ELSE @[c]],
                !.onGpu = [c \in DOMAIN @ |->
                             IF \E x \in owned : x % m.d = c THEN -1 ELSE @[c]]]
=============================================================================
