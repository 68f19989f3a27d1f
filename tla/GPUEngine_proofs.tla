-------------------------- MODULE GPUEngine_proofs --------------------------
(***************************************************************************)
(* Theorems about the GPU engine and its memory manager, for any number of *)
(* rules and packets and any sizes of the memory: pages have one owner,    *)
(* indexes stay in their columns, and a device page that counts as a       *)
(* rule's own holds what the rule's host page holds.                       *)
(***************************************************************************)
EXTENDS GPUEngine, Loops_proofs, FiniteSetTheorems, SequenceTheorems

-----------------------------------------------------------------------------
(* Numbers.                                                                *)

\* Quotient and remainder.
LEMMA DivMod ==
  ASSUME NEW a \in Int, NEW b \in Nat \ {0}
  PROVE  a \div b \in Int /\ a % b \in 0 .. b - 1
  OBVIOUS

\* One turn of a circular column.
LEMMA Turn ==
  ASSUME NEW b \in Nat \ {0}, NEW a \in Int
  PROVE  /\ a \in 0 .. b - 1 => a % b = a
         /\ a \in b .. b + b - 1 => a % b = a - b
         /\ a \in (0 - b) .. -1 => a % b = a + b
  OBVIOUS

\* Pages of a column: index i is on page i \div g.
LEMMA PageOf ==
  ASSUME NEW g \in Nat \ {0}, NEW i \in Nat, NEW k \in Nat
  PROVE  /\ i \div g \in Nat /\ i % g \in 0 .. g - 1
         /\ i < k * g => i \div g < k
         /\ i <= k * g => i \div g <= k
         /\ i \div g < k => i + 1 <= k * g
         /\ (k * g) \div g = k
  OBVIOUS

\* Multiples of the page size, as first indexes of pages, are ordered as their pages.
LEMMA Multiples ==
  ASSUME NEW g \in Nat \ {0}, NEW a \in Nat, NEW b \in Nat
  PROVE  /\ a * g \in Nat /\ b * g \in Nat
         /\ a <= b => a * g <= b * g
         /\ a < b => a * g + g <= b * g
  OBVIOUS

-----------------------------------------------------------------------------
(* The memory of a setup s.                                                *)

Chunks(s)   == 0 .. s.d * s.mul - 1
Ids         == 0 .. MAX_RULE_NUM - 1
AllKeys     == {"STATE", "NEG", "AGG"} \X Nat
Limit(s)    == s.alloc \div s.page
Tables(s)   == UNION {[K -> Seq(Chunks(s))] : K \in SUBSET AllKeys}
Contents(s) == [0 .. s.page - 1 -> Nat]

Memories(s) ==
  [d : {s.d}, page : {s.page}, alloc : {s.alloc}, exited : BOOLEAN,
   inUse : [Chunks(s) -> Nat], onGpu : [Chunks(s) -> -1 .. MAX_RULE_NUM - 1],
   live : SUBSET Ids, table : [Ids -> Tables(s)],
   host : [Chunks(s) -> Contents(s)], dev : [0 .. s.d - 1 -> Contents(s)]]

\* The j-th page of a stack of rule id, and the pages of the rule.
Slot(x, id, key, j) ==
  id \in Ids /\ key \in DOMAIN x.table[id] /\ j \in 1 .. Len(x.table[id][key])
At(x, id, key, j) == x.table[id][key][j]
Holds(x, id, c) == \E key, j : Slot(x, id, key, j) /\ At(x, id, key, j) = c

\* inUse says whether a page is in a slot.
Counted(s, x) ==
  \A c \in Chunks(s) : x.inUse[c] = IF \E id \in Ids : Holds(x, id, c) THEN 1 ELSE 0

\* Two slots do not have the same host page, nor two slots of one rule the same device
\* page.
Apart(s, x) ==
  \A i1, k1, j1, i2, k2, j2 :
    /\ Slot(x, i1, k1, j1) /\ Slot(x, i2, k2, j2)
    /\ \/ At(x, i1, k1, j1) = At(x, i2, k2, j2)
       \/ i1 = i2 /\ At(x, i1, k1, j1) % s.d = At(x, i2, k2, j2) % s.d
    => i1 = i2 /\ k1 = k2 /\ j1 = j2
Owned(s, x) == Counted(s, x) /\ Apart(s, x)

\* With as many pages on the device as on the host, a page that is free, or that the
\* manager takes for its owner's, is the same on both.
Coherent(s, x) ==
  s.mul = 1 =>
    \A c \in Chunks(s) :
      x.inUse[c] = 0 \/ Holds(x, x.onGpu[c], c) => x.dev[c] = x.host[c]

Good(s, x) == Owned(s, x) /\ Coherent(s, x)

\* The sizes of a setup.
LEMMA SetupFacts ==
  ASSUME NEW s \in Setups
  PROVE  /\ s.d \in Nat \ {0} /\ s.page \in Nat \ {0} /\ s.alloc \in Nat \ {0}
         /\ Limit(s) \in Nat \ {0} /\ s.alloc = Limit(s) * s.page
         /\ Chunks(s) \subseteq Nat /\ 0 .. s.d - 1 \subseteq Chunks(s)
         /\ s.d * s.mul \in Nat \ {0}
         /\ MAX_RULE_NUM \in Nat \ {0}
<1>1. s.alloc \in Nat /\ SetupOK(s) /\ MAX_RULE_NUM \in Nat \ {0}
  BY SetupsAssumption
<1>2. PICK k \in 1 .. s.alloc : s.alloc = k * s.page
  BY <1>1 DEF SetupOK
<1>3. s.d \in Nat \ {0} /\ s.page \in Nat \ {0} /\ s.mul \in Nat \ {0}
  BY <1>1 DEF SetupOK
<1>4. Limit(s) = k /\ k \in Nat \ {0} /\ s.alloc \in Nat \ {0}
  <2>1. k \in Nat \ {0}
    BY <1>1
  <2>2. (k * s.page) \div s.page = k
    BY <1>3, <2>1, PageOf, ZenonT(60)
  <2>3. s.alloc \div s.page = k
    BY <1>2, <2>2
  <2>4. s.alloc # 0
    BY <1>1, <2>1
  <2> QED
    BY <1>1, <2>1, <2>3, <2>4 DEF Limit
<1>5. s.d * s.mul \in Nat \ {0} /\ s.d <= s.d * s.mul
  BY <1>3
<1>6. Chunks(s) \subseteq Nat /\ 0 .. s.d - 1 \subseteq Chunks(s)
  BY <1>3, <1>5 DEF Chunks
<1> QED
  BY <1>1, <1>2, <1>3, <1>4, <1>5, <1>6

\* Without swapping host page c is device page c.
LEMMA NoSwap ==
  ASSUME NEW s \in Setups, s.mul = 1, NEW c \in Chunks(s)
  PROVE  c \in 0 .. s.d - 1 /\ c % s.d = c /\ c % (s.d * s.mul) = c
<1>1. s.d \in Nat \ {0} /\ s.d * s.mul = s.d
  BY SetupFacts
<1>2. c \in 0 .. s.d - 1
  BY <1>1 DEF Chunks
<1> QED
  BY <1>1, <1>2, Turn

\* The pages of stacks are host pages.
LEMMA MemoryFacts ==
  ASSUME NEW s \in Setups, NEW x \in Memories(s), NEW id \in Ids
  PROVE  /\ x.table[id] \in Tables(s)
         /\ \A key \in DOMAIN x.table[id] :
              key \in AllKeys /\ x.table[id][key] \in Seq(Chunks(s))
         /\ \A key : PagesOf(x, id, key) \in Seq(Chunks(s))
         /\ \A key, j : Slot(x, id, key, j) => At(x, id, key, j) \in Chunks(s)
<1>1. x.table[id] \in Tables(s)
  BY DEF Memories
<1>2. PICK K \in SUBSET AllKeys : x.table[id] \in [K -> Seq(Chunks(s))]
  BY <1>1 DEF Tables
<1>3. \A key \in DOMAIN x.table[id] :
        key \in AllKeys /\ x.table[id][key] \in Seq(Chunks(s))
  BY <1>2
<1>4. \A key : PagesOf(x, id, key) \in Seq(Chunks(s))
  BY <1>3 DEF PagesOf
<1>5. \A key, j : Slot(x, id, key, j) => At(x, id, key, j) \in Chunks(s)
  BY <1>3 DEF Slot, At
<1> QED
  BY <1>1, <1>3, <1>4, <1>5

\* What AddPage does when there is a free page c.
Grown(s, x, y, id, key, c, entries) ==
  /\ c \in Chunks(s) /\ x.inUse[c] = 0 /\ ~ RuleOwns(x, id, c)
  /\ y.inUse = [x.inUse EXCEPT ![c] = @ + 1]
  /\ y.onGpu = [x.onGpu EXCEPT ![c % entries] = id]
  /\ y.table = [x.table EXCEPT ![id] =
                  [k \in DOMAIN x.table[id] \cup {key} |->
                     IF k = key THEN Append(PagesOf(x, id, key), c) ELSE x.table[id][k]]]

\* A page is added: the engine exits for want of a free one, or the stack has one more.
LEMMA AddPageFacts ==
  ASSUME NEW s \in Setups, NEW x \in Memories(s), NEW id \in Ids, NEW key \in AllKeys,
         NEW entries \in Nat \ {0}, NEW y, y = AddPage(x, id, key, entries)
  PROVE  /\ y \in Memories(s) /\ y.host = x.host /\ y.dev = x.dev /\ y.live = x.live
         /\ x.exited => y.exited
         /\ ~ y.exited => \E c : Grown(s, x, y, id, key, c, entries)
<1> DEFINE free == FreeChunks(x, id)
           c == Min(free)
<1>1. CASE x.exited \/ free = {}
  <2>1. y = [x EXCEPT !.exited = TRUE]
    BY <1>1 DEF AddPage
  <2> QED
    BY <2>1 DEF Memories
<1>2. CASE ~ x.exited /\ free # {}
  <2>1. c \in free
    <3>1. free \subseteq Nat
      BY SetupFacts DEF FreeChunks, Memories
    <3> HIDE DEF free
    <3> QED
      BY <1>2, <3>1, MinLeast
  <2>2. c \in Chunks(s) /\ x.inUse[c] = 0 /\ ~ RuleOwns(x, id, c)
    BY <2>1 DEF FreeChunks, Memories
  <2> DEFINE new == [k \in DOMAIN x.table[id] \cup {key} |->
                       IF k = key THEN Append(PagesOf(x, id, key), c) ELSE x.table[id][k]]
             inUse == [x.inUse EXCEPT ![c] = @ + 1]
             onGpu == [x.onGpu EXCEPT ![c % entries] = id]
             table == [x.table EXCEPT ![id] = new]
  <2>3. y = [x EXCEPT !.inUse[c] = @ + 1, !.onGpu[c % entries] = id, !.table[id] = new]
    BY <1>2 DEF AddPage
  <2> HIDE DEF c, free
  <2>4. new \in Tables(s)
    <3>1. Append(PagesOf(x, id, key), c) \in Seq(Chunks(s))
      BY <2>2, MemoryFacts
    <3>2. DOMAIN x.table[id] \cup {key} \in SUBSET AllKeys
      BY MemoryFacts
    <3>3. new \in [DOMAIN x.table[id] \cup {key} -> Seq(Chunks(s))]
      BY <3>1, MemoryFacts
    <3> QED
      BY <3>2, <3>3 DEF Tables
  <2> HIDE DEF new
  <2>5. inUse \in [Chunks(s) -> Nat]
    BY <2>2 DEF Memories
  <2>6. onGpu \in [Chunks(s) -> -1 .. MAX_RULE_NUM - 1]
    <3>1. id \in -1 .. MAX_RULE_NUM - 1
      BY SetupFacts DEF Ids
    <3> QED
      BY <3>1 DEF Memories
  <2>7. table \in [Ids -> Tables(s)]
    BY <2>4 DEF Memories
  <2>8. y = [x EXCEPT !.inUse = inUse, !.onGpu = onGpu, !.table = table]
    BY <2>3 DEF Memories
  <2> HIDE DEF inUse, onGpu, table
  <2>9. /\ y \in Memories(s) /\ y.inUse = inUse /\ y.table = table /\ y.onGpu = onGpu
        /\ y.exited = x.exited /\ y.host = x.host /\ y.dev = x.dev /\ y.live = x.live
    BY <2>5, <2>6, <2>7, <2>8 DEF Memories
  <2>10. Grown(s, x, y, id, key, c, entries)
    BY <2>2, <2>9 DEF Grown, inUse, onGpu, table, new
  <2> QED
    BY <1>2, <2>9, <2>10
<1> QED
  BY <1>1, <1>2

\* y has the slots of x and one more, for page c.
OneMore(x, y, id, key, c) ==
  LET l == Len(PagesOf(x, id, key)) + 1
  IN  /\ PagesOf(y, id, key) = Append(PagesOf(x, id, key), c)
      /\ \A i, k, j : Slot(x, i, k, j) => Slot(y, i, k, j) /\ At(y, i, k, j) = At(x, i, k, j)
      /\ \A i, k, j : Slot(y, i, k, j) /\ ~ Slot(x, i, k, j) =>
                        i = id /\ k = key /\ j = l /\ At(y, i, k, j) = c
      /\ Slot(y, id, key, l) /\ At(y, id, key, l) = c

\* Only the stack key of rule id has other pages in y.
OnlyStack(x, y, id, key) ==
  /\ \A k : k # key => PagesOf(y, id, k) = PagesOf(x, id, k)
  /\ DOMAIN y.table[id] = DOMAIN x.table[id] \cup {key}
  /\ \A i \in Ids \ {id} : y.table[i] = x.table[i]

\* The new page is the last slot of its stack, and the other slots are as before.
LEMMA GrownSlots ==
  ASSUME NEW s \in Setups, NEW x \in Memories(s), NEW y, NEW id \in Ids, NEW key \in AllKeys,
         NEW entries, NEW c, Grown(s, x, y, id, key, c, entries)
  PROVE  OnlyStack(x, y, id, key) /\ OneMore(x, y, id, key, c)
<1> DEFINE old == PagesOf(x, id, key)
<1>1. old \in Seq(Chunks(s)) /\ c \in Chunks(s)
  BY MemoryFacts DEF Grown
<1>2. /\ Append(old, c) \in Seq(Chunks(s)) /\ Len(Append(old, c)) = Len(old) + 1
      /\ \A j \in 1 .. Len(old) : Append(old, c)[j] = old[j]
      /\ Append(old, c)[Len(old) + 1] = c /\ Len(old) \in Nat
  BY <1>1
<1>3. /\ y.table[id] = [k \in DOMAIN x.table[id] \cup {key} |->
                          IF k = key THEN Append(old, c) ELSE x.table[id][k]]
      /\ \A i \in Ids \ {id} : y.table[i] = x.table[i]
  BY DEF Grown, Memories
<1>4. /\ DOMAIN y.table[id] = DOMAIN x.table[id] \cup {key}
      /\ y.table[id][key] = Append(old, c)
      /\ \A k \in DOMAIN x.table[id] : k # key => y.table[id][k] = x.table[id][k]
  BY <1>3
<1>5. PagesOf(y, id, key) = Append(old, c)
  BY <1>4 DEF PagesOf
<1>6. \A k : k # key => PagesOf(y, id, k) = PagesOf(x, id, k)
  BY <1>4 DEF PagesOf
<1>7. key \in DOMAIN x.table[id] => old = x.table[id][key]
  BY DEF PagesOf
<1>8. key \notin DOMAIN x.table[id] => Len(old) = 0
  BY DEF PagesOf
<1> HIDE DEF old
<1>9. ASSUME NEW i, NEW k, NEW j, Slot(x, i, k, j)
      PROVE  Slot(y, i, k, j) /\ At(y, i, k, j) = At(x, i, k, j)
  <2>1. CASE i = id /\ k = key
    BY <1>2, <1>4, <1>7, <1>9, <2>1 DEF Slot, At
  <2>2. CASE i # id \/ k # key
    BY <1>3, <1>4, <1>9, <2>2 DEF Slot, At
  <2> QED
    BY <2>1, <2>2
<1>10. ASSUME NEW i, NEW k, NEW j, Slot(y, i, k, j), ~ Slot(x, i, k, j)
       PROVE  i = id /\ k = key /\ j = Len(old) + 1 /\ At(y, i, k, j) = c
  <2>1. i = id /\ k = key
    BY <1>3, <1>4, <1>10 DEF Slot
  <2>2. j \in 1 .. Len(old) + 1
    BY <1>2, <1>4, <1>10, <2>1 DEF Slot
  <2>3. j \notin 1 .. Len(old)
    BY <1>7, <1>8, <1>10, <2>1 DEF Slot
  <2>4. j = Len(old) + 1
    BY <1>2, <2>2, <2>3
  <2> QED
    BY <1>2, <1>4, <2>1, <2>4 DEF At
<1>11. Slot(y, id, key, Len(old) + 1) /\ At(y, id, key, Len(old) + 1) = c
  BY <1>2, <1>4 DEF Slot, At
<1> QED
  BY <1>3, <1>4, <1>5, <1>6, <1>9, <1>10, <1>11 DEF old, OnlyStack, OneMore

\* A page that was free is not any rule's.
LEMMA FreeIsNobodys ==
  ASSUME NEW s \in Setups, NEW x \in Memories(s), Owned(s, x), NEW c \in Chunks(s),
         x.inUse[c] = 0, NEW id
  PROVE  ~ Holds(x, id, c)
<1>1. Holds(x, id, c) => id \in Ids
  BY DEF Holds, Slot
<1> QED
  BY <1>1 DEF Owned, Counted

\* A page that was free for the rule keeps the slots apart and the counters right.
LEMMA GrownOwned ==
  ASSUME NEW s \in Setups, NEW x \in Memories(s), NEW y \in Memories(s), NEW id \in Ids,
         NEW key \in AllKeys, NEW entries, NEW c, Grown(s, x, y, id, key, c, entries),
         Owned(s, x)
  PROVE  Owned(s, y)
<1> DEFINE l == Len(PagesOf(x, id, key)) + 1
<1>0. OneMore(x, y, id, key, c)
  BY GrownSlots
<1>1. /\ \A i, k, j : Slot(x, i, k, j) => Slot(y, i, k, j) /\ At(y, i, k, j) = At(x, i, k, j)
      /\ \A i, k, j : Slot(y, i, k, j) /\ ~ Slot(x, i, k, j) =>
                        i = id /\ k = key /\ j = l /\ At(y, i, k, j) = c
      /\ Slot(y, id, key, l) /\ At(y, id, key, l) = c
  BY <1>0 DEF OneMore
<1> HIDE DEF l
<1>2. c \in Chunks(s) /\ x.inUse[c] = 0 /\ y.inUse = [x.inUse EXCEPT ![c] = @ + 1]
  BY DEF Grown
<1>3. \A i, k, j : Slot(x, i, k, j) => At(x, i, k, j) # c
  BY <1>2, FreeIsNobodys DEF Holds
<1>4. \A k, j : Slot(x, id, k, j) => At(x, id, k, j) % s.d # c % s.d
  <2>1. ~ RuleOwns(x, id, c) /\ x.d = s.d
    BY DEF Grown, Memories
  <2>2. ASSUME NEW k, NEW j, Slot(x, id, k, j)
        PROVE  k \in DOMAIN x.table[id] /\ At(x, id, k, j) \in Range(x.table[id][k])
    <3>1. k \in DOMAIN x.table[id] /\ j \in 1 .. Len(x.table[id][k])
      BY <2>2 DEF Slot
    <3>2. x.table[id][k] \in Seq(Chunks(s))
      BY <3>1, MemoryFacts
    <3>3. j \in DOMAIN x.table[id][k]
      BY <3>1, <3>2
    <3> QED
      BY <3>1, <3>3 DEF At, Range
  <2> QED
    BY <2>1, <2>2 DEF RuleOwns
<1>5. Counted(s, y)
  <2>1. ASSUME NEW a \in Chunks(s)
        PROVE  y.inUse[a] = IF \E i \in Ids : Holds(y, i, a) THEN 1 ELSE 0
    <3>1. CASE a = c
      <4>1. y.inUse[a] = 1
        BY <1>2, <3>1 DEF Memories
      <4>2. Holds(y, id, a)
        BY <1>1, <3>1 DEF Holds
      <4> QED
        BY <4>1, <4>2
    <3>2. CASE a # c
      <4>1. y.inUse[a] = x.inUse[a]
        BY <1>2, <3>2 DEF Memories
      <4>2. \A i : Holds(y, i, a) <=> Holds(x, i, a)
        BY <1>1, <3>2 DEF Holds
      <4> QED
        BY <4>1, <4>2 DEF Owned, Counted
    <3> QED
      BY <3>1, <3>2
  <2> QED
    BY <2>1 DEF Counted
<1>6. Apart(s, y)
  <2>1. ASSUME NEW i1, NEW k1, NEW j1, NEW i2, NEW k2, NEW j2,
               Slot(y, i1, k1, j1), Slot(y, i2, k2, j2),
               \/ At(y, i1, k1, j1) = At(y, i2, k2, j2)
               \/ i1 = i2 /\ At(y, i1, k1, j1) % s.d = At(y, i2, k2, j2) % s.d
        PROVE  i1 = i2 /\ k1 = k2 /\ j1 = j2
    <3>1. CASE Slot(x, i1, k1, j1) /\ Slot(x, i2, k2, j2)
      <4>1. /\ At(y, i1, k1, j1) = At(x, i1, k1, j1)
            /\ At(y, i2, k2, j2) = At(x, i2, k2, j2)
        BY <1>1, <3>1
      <4> QED
        BY <2>1, <3>1, <4>1 DEF Owned, Apart
    <3>2. CASE ~ Slot(x, i1, k1, j1) /\ ~ Slot(x, i2, k2, j2)
      BY <1>1, <2>1, <3>2
    <3>3. CASE Slot(x, i1, k1, j1) /\ ~ Slot(x, i2, k2, j2)
      <4>1. i2 = id /\ At(y, i2, k2, j2) = c /\ At(y, i1, k1, j1) = At(x, i1, k1, j1)
        BY <1>1, <2>1, <3>3
      <4> QED
        BY <1>3, <1>4, <2>1, <3>3, <4>1
    <3>4. CASE ~ Slot(x, i1, k1, j1) /\ Slot(x, i2, k2, j2)
      <4>1. i1 = id /\ At(y, i1, k1, j1) = c /\ At(y, i2, k2, j2) = At(x, i2, k2, j2)
        BY <1>1, <2>1, <3>4
      <4> QED
        BY <1>3, <1>4, <2>1, <3>4, <4>1
    <3> QED
      BY <3>1, <3>2, <3>3, <3>4
  <2> QED
    BY <2>1 DEF Apart
<1> QED
  BY <1>5, <1>6 DEF Owned

\* A new page may count as on the device: while it was free both sides were equal.
LEMMA GrownCoherent ==
  ASSUME NEW s \in Setups, NEW x \in Memories(s), NEW y \in Memories(s), NEW id \in Ids,
         NEW key \in AllKeys, NEW entries \in {s.d, s.d * s.mul}, NEW c,
         Grown(s, x, y, id, key, c, entries), y.host = x.host, y.dev = x.dev, Good(s, x)
  PROVE  Coherent(s, y)
<1> SUFFICES ASSUME s.mul = 1, NEW a \in Chunks(s), y.inUse[a] = 0 \/ Holds(y, y.onGpu[a], a)
             PROVE  y.dev[a] = y.host[a]
  BY DEF Coherent
<1>1. \A b \in Chunks(s) : (x.inUse[b] = 0 \/ Holds(x, x.onGpu[b], b)) => x.dev[b] = x.host[b]
  BY DEF Good, Coherent
<1>2. c \in Chunks(s) /\ x.inUse[c] = 0 /\ y.inUse = [x.inUse EXCEPT ![c] = @ + 1]
      /\ y.onGpu = [x.onGpu EXCEPT ![c % entries] = id]
  BY DEF Grown
<1>3. CASE a = c
  BY <1>1, <1>2, <1>3
<1>4. CASE a # c
  <2>1. c % entries = c
    BY <1>2, NoSwap
  <2>2. y.inUse[a] = x.inUse[a] /\ y.onGpu[a] = x.onGpu[a]
    BY <1>2, <1>4, <2>1 DEF Memories
  <2>3. \A i : Holds(y, i, a) => Holds(x, i, a)
    <3>0. OneMore(x, y, id, key, c)
      BY GrownSlots
    <3>1. \A i, k, j : Slot(x, i, k, j) => At(y, i, k, j) = At(x, i, k, j)
      BY <3>0 DEF OneMore
    <3>2. \A i, k, j : Slot(y, i, k, j) /\ ~ Slot(x, i, k, j) => At(y, i, k, j) = c
      BY <3>0 DEF OneMore
    <3> QED
      BY <1>4, <3>1, <3>2 DEF Holds
  <2> QED
    BY <1>1, <2>2, <2>3
<1> QED
  BY <1>3, <1>4

\* A page for a stack.
LEMMA AddPageKeeps ==
  ASSUME NEW s \in Setups, NEW x \in Memories(s), NEW id \in Ids, NEW key \in AllKeys,
         NEW entries \in {s.d, s.d * s.mul}, NEW y, y = AddPage(x, id, key, entries)
  PROVE  /\ y \in Memories(s) /\ y.live = x.live /\ (x.exited => y.exited)
         /\ ~ y.exited /\ Good(s, x) => Good(s, y)
         /\ ~ y.exited => OnlyStack(x, y, id, key)
         /\ ~ y.exited => Len(PagesOf(y, id, key)) = Len(PagesOf(x, id, key)) + 1
<1>1. entries \in Nat \ {0}
  BY SetupFacts
<1>2. /\ y \in Memories(s) /\ y.host = x.host /\ y.dev = x.dev /\ y.live = x.live
      /\ x.exited => y.exited
      /\ ~ y.exited => \E c : Grown(s, x, y, id, key, c, entries)
  BY <1>1, AddPageFacts
<1>3. ASSUME ~ y.exited
      PROVE  /\ Good(s, x) => Good(s, y)
             /\ OnlyStack(x, y, id, key)
             /\ Len(PagesOf(y, id, key)) = Len(PagesOf(x, id, key)) + 1
  <2>1. PICK c : Grown(s, x, y, id, key, c, entries)
    BY <1>2, <1>3
  <2>2. Good(s, x) => Owned(s, y)
    BY <1>2, <2>1, GrownOwned DEF Good
  <2>3. Good(s, x) => Coherent(s, y)
    BY <1>2, <2>1, GrownCoherent
  <2>4. OnlyStack(x, y, id, key) /\ OneMore(x, y, id, key, c)
    BY <2>1, GrownSlots
  <2>5. PagesOf(x, id, key) \in Seq(Chunks(s))
    BY MemoryFacts
  <2>6. Len(PagesOf(y, id, key)) = Len(PagesOf(x, id, key)) + 1
    BY <2>4, <2>5 DEF OneMore
  <2> QED
    BY <2>2, <2>3, <2>4, <2>6 DEF Good
<1> QED
  BY <1>2, <1>3

\* A write to a page c of rule id, and to the device if the page is there.
Written(s, x, y, id, c, o, ev) ==
  y = IF x.onGpu[c % s.d] = id
      THEN [x EXCEPT !.host[c][o] = ev, !.dev[c % s.d][o] = ev]
      ELSE [x EXCEPT !.host[c][o] = ev]

\* A write to the host, and to the device where the page is the rule's, keeps the memory good.
LEMMA WriteKeeps ==
  ASSUME NEW s \in Setups, NEW x \in Memories(s), Good(s, x), NEW id \in Ids, NEW c,
         Holds(x, id, c), NEW o \in 0 .. s.page - 1, NEW ev \in Nat, NEW y,
         Written(s, x, y, id, c, o, ev)
  PROVE  /\ y \in Memories(s) /\ y.live = x.live /\ y.table = x.table /\ y.exited = x.exited
         /\ Good(s, y)
<1> DEFINE host == [x.host EXCEPT ![c][o] = ev]
           dev == IF x.onGpu[c % s.d] = id THEN [x.dev EXCEPT ![c % s.d][o] = ev] ELSE x.dev
<1>1. c \in Chunks(s)
  BY MemoryFacts DEF Holds
<1>2. host \in [Chunks(s) -> Contents(s)]
  BY <1>1 DEF Memories, Contents
<1>3. c % s.d \in 0 .. s.d - 1
  BY <1>1, SetupFacts
<1>4. dev \in [0 .. s.d - 1 -> Contents(s)]
  BY <1>3 DEF Memories, Contents
<1>5. y = [x EXCEPT !.host = host, !.dev = dev, !.onGpu = x.onGpu]
  <2>1. CASE x.onGpu[c % s.d] = id
    BY <2>1 DEF Written, Memories
  <2>2. CASE x.onGpu[c % s.d] # id
    BY <2>2 DEF Written, Memories
  <2> QED
    BY <2>1, <2>2
<1> HIDE DEF host, dev
<1>6. x.onGpu \in [Chunks(s) -> -1 .. MAX_RULE_NUM - 1]
  BY DEF Memories
<1>7. /\ y \in Memories(s) /\ y.host = host /\ y.dev = dev /\ y.onGpu = x.onGpu
      /\ y.table = x.table /\ y.inUse = x.inUse /\ y.live = x.live /\ y.exited = x.exited
  BY <1>2, <1>4, <1>5, <1>6 DEF Memories
<1>8. \A i, a : Holds(y, i, a) <=> Holds(x, i, a)
  BY <1>7 DEF Holds, Slot, At
<1>9. Owned(s, y)
  <2>1. Counted(s, y)
    BY <1>7, <1>8 DEF Good, Owned, Counted
  <2>2. Apart(s, y)
    <3>1. \A i, k, j : /\ Slot(y, i, k, j) <=> Slot(x, i, k, j)
                       /\ At(y, i, k, j) = At(x, i, k, j)
      BY <1>7 DEF Slot, At
    <3>2. Apart(s, x)
      BY DEF Good, Owned
    <3> QED
      BY <3>1, <3>2 DEF Apart
  <2> QED
    BY <2>1, <2>2 DEF Owned
<1>10. Coherent(s, y)
  <2> SUFFICES ASSUME s.mul = 1, NEW a \in Chunks(s),
                      x.inUse[a] = 0 \/ Holds(x, x.onGpu[a], a)
               PROVE  dev[a] = host[a]
    BY <1>7, <1>8 DEF Coherent
  <2>1. x.dev[a] = x.host[a]
    BY DEF Good, Coherent
  <2>2. c % s.d = c /\ c \in 0 .. s.d - 1 /\ a \in 0 .. s.d - 1
    BY <1>1, NoSwap
  <2>3. CASE a # c
    BY <2>1, <2>2, <2>3 DEF host, dev, Memories
  <2>4. CASE a = c
    <3>1. x.inUse[c] # 0
      BY <1>1 DEF Good, Owned, Counted
    <3>2. x.onGpu[c] = id
      <4>1. Holds(x, x.onGpu[c], c)
        BY <2>4, <3>1
      <4> QED
        BY <4>1 DEF Good, Owned, Apart, Holds
    <3> QED
      BY <1>1, <2>1, <2>2, <2>4, <3>2 DEF host, dev, Memories
  <2> QED
    BY <2>3, <2>4
<1> QED
  BY <1>7, <1>9, <1>10 DEF Good

\* The page of an index that is not past the pages of a stack.
LEMMA PageThere ==
  ASSUME NEW s \in Setups, NEW x \in Memories(s), NEW id \in Ids, NEW key, NEW i \in Nat,
         i < Len(PagesOf(x, id, key)) * s.page
  PROVE  /\ i \div s.page + 1 \in 1 .. Len(PagesOf(x, id, key))
         /\ i % s.page \in 0 .. s.page - 1
         /\ PagesOf(x, id, key)[i \div s.page + 1] \in Chunks(s)
         /\ Holds(x, id, PagesOf(x, id, key)[i \div s.page + 1])
<1> DEFINE q == PagesOf(x, id, key)
           j == i \div s.page + 1
<1>1. s.page \in Nat \ {0} /\ q \in Seq(Chunks(s))
  BY SetupFacts, MemoryFacts
<1>2. Len(q) \in Nat
  BY <1>1
<1>3. i \div s.page \in Nat /\ i % s.page \in 0 .. s.page - 1 /\ i \div s.page < Len(q)
  BY <1>1, <1>2, PageOf
<1>4. j \in 1 .. Len(q)
  BY <1>2, <1>3
<1>5. key \in DOMAIN x.table[id] /\ q = x.table[id][key]
  <2>1. key \notin DOMAIN x.table[id] => q = <<>>
    BY DEF PagesOf
  <2>2. Len(<<>>) = 0
    OBVIOUS
  <2>3. key \in DOMAIN x.table[id]
    BY <1>4, <2>1, <2>2
  <2> QED
    BY <2>3 DEF PagesOf
<1> HIDE DEF j
<1>6. Slot(x, id, key, j) /\ At(x, id, key, j) = q[j]
  BY <1>4, <1>5 DEF Slot, At
<1>7. q[j] \in Chunks(s)
  BY <1>1, <1>4
<1>8. Holds(x, id, q[j])
  BY <1>6 DEF Holds
<1> QED
  BY <1>3, <1>4, <1>7, <1>8 DEF j

\* What the addition of an event to a stack does to the memory.
Extends(s, x, y, id, key, index) ==
  /\ Good(s, y) /\ OnlyStack(x, y, id, key)
  /\ Len(PagesOf(x, id, key)) <= Len(PagesOf(y, id, key))
  /\ Len(PagesOf(y, id, key)) <= Limit(s)
  /\ index < Len(PagesOf(y, id, key)) * s.page

\* MemoryManager::addEventToStack: exits, or the index has its page and the memory is good.
LEMMA AddEventToStackKeeps ==
  ASSUME NEW s \in Setups, NEW x \in Memories(s), NEW id \in Ids, NEW key \in AllKeys,
         key \in DOMAIN x.table[id], NEW index \in 0 .. s.alloc - 1, NEW ev \in Nat,
         ~ x.exited => Good(s, x) /\ index <= Len(PagesOf(x, id, key)) * s.page
                       /\ Len(PagesOf(x, id, key)) <= Limit(s),
         NEW y, y = AddEventToStack(x, id, ev, key, index)
  PROVE  /\ y \in Memories(s) /\ y.live = x.live /\ (x.exited => y.exited)
         /\ ~ y.exited => Extends(s, x, y, id, key, index)
<1> DEFINE q == PagesOf(x, id, key)
           j == index \div s.page + 1
           g == IF j > Len(q) THEN AddPage(x, id, key, s.d) ELSE x
           c == PagesOf(g, id, key)[j]
           o == index % s.page
<1>1. /\ x.page = s.page /\ x.d = s.d /\ s.page \in Nat \ {0} /\ s.d \in Nat \ {0}
      /\ Limit(s) \in Nat /\ s.alloc = Limit(s) * s.page /\ s.alloc \in Nat
  BY SetupFacts DEF Memories
<1>2. q \in Seq(Chunks(s)) /\ Len(q) \in Nat /\ index \in Nat
  <2>1. q \in Seq(Chunks(s))
    BY MemoryFacts
  <2> QED
    BY <1>1, <2>1
<1>3. g \in Memories(s) /\ g.live = x.live /\ (x.exited => g.exited)
  <2>1. CASE j > Len(q)
    <3>1. g = AddPage(x, id, key, s.d)
      BY <2>1
    <3> HIDE DEF g
    <3> QED
      BY <3>1, AddPageKeeps
  <2>2. CASE ~ (j > Len(q))
    BY <2>2
  <2> QED
    BY <2>1, <2>2
<1>4. ASSUME ~ g.exited
      PROVE  /\ Good(s, g) /\ OnlyStack(x, g, id, key)
             /\ Len(PagesOf(g, id, key)) \in Nat
             /\ Len(q) <= Len(PagesOf(g, id, key)) /\ Len(PagesOf(g, id, key)) <= Limit(s)
             /\ j <= Len(PagesOf(g, id, key))
  <2>1. Good(s, x) /\ index <= Len(q) * s.page /\ Len(q) <= Limit(s)
    BY <1>3, <1>4
  <2>2. index \div s.page \in Nat /\ index \div s.page <= Len(q) /\ index \div s.page < Limit(s)
    <3>1. index < Limit(s) * s.page
      BY <1>1
    <3> QED
      BY <1>1, <1>2, <2>1, <3>1, PageOf
  <2>3. CASE j > Len(q)
    <3>1. g = AddPage(x, id, key, s.d)
      BY <2>3
    <3> HIDE DEF g
    <3>2. /\ Good(s, g) /\ OnlyStack(x, g, id, key)
          /\ Len(PagesOf(g, id, key)) = Len(q) + 1
      BY <1>4, <2>1, <3>1, AddPageKeeps
    <3> QED
      BY <1>1, <1>2, <2>2, <2>3, <3>2
  <2>4. CASE ~ (j > Len(q))
    <3>1. OnlyStack(x, x, id, key)
      BY DEF OnlyStack
    <3> QED
      BY <1>1, <1>2, <2>1, <2>2, <2>4, <3>1, SMTT(60)
  <2> QED
    BY <2>3, <2>4
<1>5. y = IF g.exited THEN g
          ELSE IF g.onGpu[c % s.d] = id
               THEN [g EXCEPT !.host[c][o] = ev, !.dev[c % s.d][o] = ev]
               ELSE [g EXCEPT !.host[c][o] = ev]
  <2>1. y = IF g.exited THEN g
            ELSE IF g.onGpu[c % s.d] = id
               THEN [[g EXCEPT !.host[c][o] = ev] EXCEPT !.dev[c % s.d][o] = ev]
               ELSE [g EXCEPT !.host[c][o] = ev]
    BY <1>1, ZenonT(60) DEF AddEventToStack
  <2> HIDE DEF g, c, o
  <2> QED
    BY <1>3, <2>1 DEF Memories
<1> HIDE DEF g
<1>6. CASE g.exited
  BY <1>3, <1>5, <1>6
<1>7. CASE ~ g.exited
  <2>1. index < Len(PagesOf(g, id, key)) * s.page
    <3>0. index \div s.page \in Nat
      BY <1>1, <1>2, PageOf
    <3>1. index \div s.page < Len(PagesOf(g, id, key)) /\ Len(PagesOf(g, id, key)) \in Nat
      BY <1>4, <1>7, <3>0
    <3>2. index + 1 <= Len(PagesOf(g, id, key)) * s.page
      BY <1>1, <1>2, <3>1, PageOf
    <3> QED
      BY <1>1, <1>2, <3>1, <3>2
  <2>2. o \in 0 .. s.page - 1 /\ Holds(g, id, c)
    BY <1>2, <1>3, <2>1, PageThere
  <2> HIDE DEF c, o
  <2>3. /\ y \in Memories(s) /\ y.live = g.live /\ y.table = g.table /\ y.exited = g.exited
        /\ Good(s, y)
    <3>1. Written(s, g, y, id, c, o, ev)
      BY <1>5, <1>7 DEF Written
    <3>2. Good(s, g)
      BY <1>4, <1>7
    <3> QED
      BY <1>3, <2>2, <3>1, <3>2, WriteKeeps
  <2>4. \A k : PagesOf(y, id, k) = PagesOf(g, id, k)
    BY <2>3 DEF PagesOf
  <2>5. OnlyStack(x, y, id, key)
    BY <1>4, <1>7, <2>3, <2>4 DEF OnlyStack
  <2> QED
    BY <1>3, <1>4, <1>7, <2>1, <2>3, <2>4, <2>5 DEF Extends
<1> QED
  BY <1>6, <1>7

\* Nothing is added after an exit.
LEMMA ExitedStays ==
  ASSUME NEW s \in Setups, NEW x \in Memories(s), NEW id \in Ids, NEW key \in AllKeys,
         x.exited, NEW index, NEW ev, NEW y, y = AddEventToStack(x, id, ev, key, index)
  PROVE  y \in Memories(s) /\ y.live = x.live /\ y.exited
<1>1. AddPage(x, id, key, x.d) = [x EXCEPT !.exited = TRUE]
  BY DEF AddPage
<1>2. y = x \/ y = [x EXCEPT !.exited = TRUE]
  BY <1>1 DEF AddEventToStack, Memories
<1> QED
  BY <1>2 DEF Memories

-----------------------------------------------------------------------------
(* Copies to the device and moves on the host: the pages stay whose they    *)
(* are.                                                                    *)

Copies(s, z) ==
  {y \in Memories(s) : /\ y.table = z.table /\ y.inUse = z.inUse
                       /\ y.live = z.live /\ y.exited = z.exited
                       /\ Coherent(s, y)}

\* Copying and invalidating pages leaves the table, and so who has which page.
LEMMA CopiesFacts ==
  ASSUME NEW s \in Setups, NEW z \in Memories(s), Good(s, z), NEW y \in Copies(s, z)
  PROVE  /\ y \in Memories(s) /\ Good(s, y) /\ y.table = z.table /\ y.live = z.live
         /\ y.exited = z.exited /\ z \in Copies(s, z)
         /\ \A id, k : PagesOf(y, id, k) = PagesOf(z, id, k)
         /\ \A id, c : Holds(y, id, c) <=> Holds(z, id, c)
<1>1. /\ y \in Memories(s) /\ y.table = z.table /\ y.inUse = z.inUse /\ y.live = z.live
      /\ y.exited = z.exited /\ Coherent(s, y)
  BY DEF Copies
<1>2. \A id, k : PagesOf(y, id, k) = PagesOf(z, id, k)
  BY <1>1 DEF PagesOf
<1>3. \A i, k, j : (Slot(y, i, k, j) <=> Slot(z, i, k, j)) /\ At(y, i, k, j) = At(z, i, k, j)
  BY <1>1 DEF Slot, At
<1>4. \A id, c : Holds(y, id, c) <=> Holds(z, id, c)
  BY <1>3 DEF Holds
<1>5. Counted(s, y)
  BY <1>1, <1>4 DEF Good, Owned, Counted
<1>6. Apart(s, z)
  BY DEF Good, Owned
<1>7. Apart(s, y)
  BY <1>3, <1>6 DEF Apart
<1>8. z \in Copies(s, z)
  BY DEF Copies, Good
<1> QED
  BY <1>1, <1>2, <1>4, <1>5, <1>7, <1>8 DEF Good, Owned

\* A page that is copied.
LEMMA CopyKeeps ==
  ASSUME NEW s \in Setups, NEW z \in Memories(s), NEW x \in Copies(s, z), NEW id \in Ids,
         NEW c \in Chunks(s)
  PROVE  CopyPageToDevice(x, id, c) \in Copies(s, z)
<1> DEFINE y == CopyPageToDevice(x, id, c)
           dev == [x.dev EXCEPT ![c % s.d] = x.host[c]]
           onGpu == [x.onGpu EXCEPT ![c % s.d] = id]
<1>1. /\ x \in Memories(s) /\ x.table = z.table /\ x.inUse = z.inUse /\ x.live = z.live
      /\ x.exited = z.exited /\ Coherent(s, x)
  BY DEF Copies
<1>2. dev \in [0 .. s.d - 1 -> Contents(s)]
  BY <1>1 DEF Memories
<1>3. onGpu \in [Chunks(s) -> -1 .. MAX_RULE_NUM - 1]
  <2>1. id \in -1 .. MAX_RULE_NUM - 1
    BY SetupFacts DEF Ids
  <2> QED
    BY <1>1, <2>1 DEF Memories
<1>4. y = [x EXCEPT !.dev = dev, !.onGpu = onGpu]
  BY <1>1 DEF CopyPageToDevice, Memories
<1> HIDE DEF dev, onGpu, y
<1>5. /\ y \in Memories(s) /\ y.host = x.host /\ y.dev = dev /\ y.onGpu = onGpu
      /\ y.table = z.table /\ y.inUse = z.inUse /\ y.live = z.live /\ y.exited = z.exited
  BY <1>1, <1>2, <1>3, <1>4 DEF Memories
<1>6. Coherent(s, y)
  <2> SUFFICES ASSUME s.mul = 1, NEW a \in Chunks(s),
                      x.inUse[a] = 0 \/ Holds(x, onGpu[a], a)
               PROVE  dev[a] = x.host[a]
    <3>1. \A i, a : Holds(y, i, a) <=> Holds(x, i, a)
      BY <1>1, <1>5 DEF Holds, Slot, At
    <3> QED
      BY <1>1, <1>5, <3>1 DEF Coherent
  <2>1. c % s.d = c /\ c \in 0 .. s.d - 1 /\ a \in 0 .. s.d - 1
    BY NoSwap
  <2>2. CASE a = c
    BY <1>1, <2>1, <2>2 DEF dev, Memories
  <2>3. CASE a # c
    <3>1. onGpu[a] = x.onGpu[a] /\ dev[a] = x.dev[a]
      BY <1>1, <2>1, <2>3 DEF dev, onGpu, Memories
    <3> QED
      BY <1>1, <3>1 DEF Coherent
  <2> QED
    BY <2>2, <2>3
<1> QED
  BY <1>5, <1>6 DEF Copies, y

\* An event that is moved to a page of the rule.
LEMMA MoveKeeps ==
  ASSUME NEW s \in Setups, NEW z \in Memories(s), Good(s, z), NEW x \in Copies(s, z),
         NEW id \in Ids, NEW c, Holds(z, id, c), NEW o \in 0 .. s.page - 1, NEW ev \in Nat
  PROVE  [InvalidatePage(x, c) EXCEPT !.host[c][o] = ev] \in Copies(s, z)
<1> DEFINE y == [InvalidatePage(x, c) EXCEPT !.host[c][o] = ev]
           host == [x.host EXCEPT ![c][o] = ev]
           onGpu == [x.onGpu EXCEPT ![c % s.d] = -1]
<1>1. /\ x \in Memories(s) /\ x.table = z.table /\ x.inUse = z.inUse /\ x.live = z.live
      /\ x.exited = z.exited /\ Coherent(s, x)
  BY DEF Copies
<1>2. c \in Chunks(s)
  BY MemoryFacts DEF Holds
<1>3. host \in [Chunks(s) -> Contents(s)]
  BY <1>1, <1>2 DEF Memories, Contents
<1>4. onGpu \in [Chunks(s) -> -1 .. MAX_RULE_NUM - 1]
  <2>1. -1 \in -1 .. MAX_RULE_NUM - 1
    BY SetupFacts
  <2> QED
    BY <1>1, <2>1 DEF Memories
<1>5. y = [x EXCEPT !.host = host, !.onGpu = onGpu]
  BY <1>1 DEF InvalidatePage, Memories
<1> HIDE DEF host, onGpu, y
<1>6. /\ y \in Memories(s) /\ y.host = host /\ y.dev = x.dev /\ y.onGpu = onGpu
      /\ y.table = z.table /\ y.inUse = z.inUse /\ y.live = z.live /\ y.exited = z.exited
  BY <1>1, <1>3, <1>4, <1>5 DEF Memories
<1>7. \A i, a : (Holds(y, i, a) <=> Holds(z, i, a)) /\ (Holds(x, i, a) <=> Holds(z, i, a))
  BY <1>1, <1>6 DEF Holds, Slot, At
<1>8. Coherent(s, y)
  <2> SUFFICES ASSUME s.mul = 1, NEW a \in Chunks(s),
                      z.inUse[a] = 0 \/ Holds(z, onGpu[a], a)
               PROVE  x.dev[a] = host[a]
    BY <1>6, <1>7 DEF Coherent
  <2>1. c % s.d = c
    BY <1>2, NoSwap
  <2>2. CASE a = c
    <3>1. z.inUse[c] # 0
      BY <1>2 DEF Good, Owned, Counted
    <3>2. onGpu[c] = -1
      BY <1>1, <1>2, <2>1 DEF onGpu, Memories
    <3>3. ~ Holds(z, -1, c)
      BY SetupFacts DEF Holds, Slot, Ids
    <3> QED
      BY <2>2, <3>1, <3>2, <3>3
  <2>3. CASE a # c
    <3>1. onGpu[a] = x.onGpu[a] /\ host[a] = x.host[a]
      BY <1>1, <1>2, <2>1, <2>3 DEF host, onGpu, Memories
    <3> QED
      BY <1>1, <1>7, <3>1 DEF Coherent
  <2> QED
    BY <2>2, <2>3
<1> QED
  BY <1>6, <1>8 DEF Copies, y

\* getPage answers with a host page.
LEMMA GetPageThere ==
  ASSUME NEW s \in Setups, NEW x \in Memories(s), NEW id \in Ids, NEW key, NEW o \in Nat
  PROVE  GetPage(x, id, key, o) \in Chunks(s)
<1> DEFINE q == PagesOf(x, id, key)
<1>1. q \in Seq(Chunks(s)) /\ x.page = s.page /\ s.page \in Nat \ {0} /\ 0 \in Chunks(s)
  <2>1. 0 \in 0 .. s.d - 1
    BY SetupFacts
  <2> QED
    BY <2>1, SetupFacts, MemoryFacts DEF Memories
<1>2. o \div s.page \in Nat
  BY <1>1, PageOf
<1> HIDE DEF q
<1>3. o \div s.page + 1 <= Len(q) => q[o \div s.page + 1] \in Chunks(s)
  BY <1>1, <1>2
<1> QED
  BY <1>1, <1>3 DEF GetPage, q

\* The offsets that setEventsStacks goes through are indexes.
LEMMA OffsetsFacts ==
  ASSUME NEW s \in Setups, NEW x \in Memories(s), NEW a \in Nat, NEW b \in Nat
  PROVE  Offsets(x, a, b) \in Seq(Nat)
<1>1. /\ x.page = s.page /\ x.alloc = s.alloc /\ s.page \in Nat \ {0} /\ s.alloc \in Nat
  BY SetupFacts DEF Memories
<1> DEFINE span(i, j) == IF i < j THEN [k \in 1 .. j - i |-> (i + k - 1) * s.page] ELSE <<>>
<1>2. ASSUME NEW i \in Nat, NEW j \in Nat PROVE span(i, j) \in Seq(Nat)
  <2>1. CASE i < j
    <3>1. j - i \in Nat
      BY <2>1
    <3>2. \A k \in 1 .. j - i : (i + k - 1) * s.page \in Nat
      BY <1>1
    <3>3. [k \in 1 .. j - i |-> (i + k - 1) * s.page] \in Seq(Nat)
      BY <3>1, <3>2
    <3> QED
      BY <2>1, <3>3
  <2>2. CASE ~ (i < j)
    BY <2>2
  <2> QED
    BY <2>1, <2>2
<1>3. a \div s.page \in Nat /\ s.alloc \div s.page \in Nat /\ a \div s.page + 1 \in Nat
  <2>1. a \div s.page \in Nat /\ s.alloc \div s.page \in Nat
    BY <1>1, PageOf, Zenon
  <2> QED
    BY <2>1
<1>4. (b + s.page - 1) \div s.page \in Nat
  <2>1. b + s.page - 1 \in Nat /\ s.page \in Nat \ {0} /\ 0 \in Nat
    BY <1>1
  <2> QED
    BY <2>1, PageOf, Zenon
<1>5. <<(a \div s.page) * s.page>> \in Seq(Nat)
  BY <1>1, <1>3
<1> HIDE DEF span
<1>6. /\ span(a \div s.page + 1, (b + s.page - 1) \div s.page) \in Seq(Nat)
      /\ span(0, (b + s.page - 1) \div s.page) \in Seq(Nat)
      /\ span(a \div s.page, s.alloc \div s.page) \in Seq(Nat)
  BY <1>2, <1>3, <1>4
<1>7. Offsets(x, a, b) =
        IF b >= a THEN <<(a \div s.page) * s.page>>
                       \o span(a \div s.page + 1, (b + s.page - 1) \div s.page)
        ELSE span(0, (b + s.page - 1) \div s.page) \o span(a \div s.page, s.alloc \div s.page)
  BY <1>1 DEF Offsets, span
<1> QED
  BY <1>5, <1>6, <1>7

\* setEventsStacks copies.
LEMMA SetEventsStacksKeeps ==
  ASSUME NEW s \in Setups, NEW z \in Memories(s), NEW x \in Copies(s, z), NEW id \in Ids,
         NEW key, NEW a \in Nat, NEW b \in Nat
  PROVE  SetEventsStacks(x, id, key, a, b) \in Copies(s, z)
<1> DEFINE offsets == Offsets(x, a, b)
           bring(y, c) == IF IsOnGpu(y, id, c) THEN y ELSE CopyPageToDevice(y, id, c)
           round(y, i) == bring(y, GetPage(y, id, key, offsets[i]))
           N == Len(offsets)
           A == Copies(s, z)
           F == [i \in 1 .. N |-> [y \in A |-> round(y, i)]]
           Eq(g) == g = [i \in 0 .. N |-> IF i = 0 THEN x ELSE round(g[i - 1], i)]
           h == CHOOSE g : Eq(g)
<1>1. offsets \in Seq(Nat) /\ N \in Nat
  <2>1. x \in Memories(s)
    BY DEF Copies
  <2>2. offsets \in Seq(Nat)
    BY <2>1, OffsetsFacts
  <2> QED
    BY <2>2
<1>2. SetEventsStacks(x, id, key, a, b) = h[N]
  BY DEF SetEventsStacks
<1> HIDE DEF offsets, N
<1>3. ASSUME NEW i \in 1 .. N, NEW y \in A PROVE round(y, i) \in A
  <2>1. offsets[i] \in Nat
    BY <1>1 DEF N
  <2>2. y \in Memories(s)
    BY DEF Copies
  <2>3. GetPage(y, id, key, offsets[i]) \in Chunks(s)
    BY <2>1, <2>2, GetPageThere
  <2>4. CopyPageToDevice(y, id, GetPage(y, id, key, offsets[i])) \in A
    BY <2>3, CopyKeeps
  <2> QED
    BY <2>4
<1> HIDE DEF round, A
<1>4. \A i \in 1 .. N : \A y \in A : F[i][y] = round(y, i) /\ F[i][y] \in A
  BY <1>3
<1> HIDE DEF F
<1>5. x \in A
  BY DEF A
<1>6. PICK g : Loop(g, F, N, [i \in 0 .. N |-> A], x)
  BY <1>1, <1>4, <1>5, LoopInSet
<1>7. Eq(g)
  <2>1. \A i \in 0 .. N : g[i] \in A
    BY <1>6 DEF Loop
  <2>2. ASSUME NEW i \in 1 .. N PROVE g[i] = round(g[i - 1], i)
    <3>1. i - 1 \in 0 .. N
      BY <1>1
    <3> QED
      BY <1>4, <1>6, <2>1, <3>1 DEF Loop
  <2>3. g = [i \in 0 .. N |-> g[i]] /\ g[0] = x
    BY <1>6 DEF Loop
  <2>4. ASSUME NEW i \in 0 .. N PROVE g[i] = IF i = 0 THEN x ELSE round(g[i - 1], i)
    <3>1. i # 0 => i \in 1 .. N
      BY <1>1
    <3> QED
      BY <2>2, <2>3, <3>1
  <2> QED
    BY <2>3, <2>4
<1>8. Eq(h)
  BY <1>7
<1> HIDE DEF h
<1>9. h[0] = x /\ \A i \in 1 .. N : h[i] = round(h[i - 1], i)
  BY <1>1, <1>8
<1>10. \A i \in 1 .. N : h[i - 1] \in A => h[i] \in A
  BY <1>3, <1>9
<1>11. \A i \in 0 .. N : h[i] \in A
  BY <1>1, <1>5, <1>9, <1>10, LoopStaysInSet
<1> QED
  BY <1>1, <1>2, <1>11 DEF A

\* One event that is moved down.
LEMMA MoveOne ==
  ASSUME NEW s \in Setups, NEW z \in Memories(s), Good(s, z), NEW x \in Copies(s, z),
         NEW id \in Ids, NEW key, NEW i \in Nat, i + 1 < Len(PagesOf(z, id, key)) * s.page,
         i + 1 < s.alloc
  PROVE  SetEvent(InvalidatePage(x, GetPage(x, id, key, i)), id, key, i % s.alloc,
                  GetEvent(x, id, key, (i + 1) % s.alloc)) \in Copies(s, z)
<1> DEFINE q == PagesOf(z, id, key)
           c == q[i \div s.page + 1]
           c1 == q[(i + 1) \div s.page + 1]
           o1 == (i + 1) % s.page
           ev == GetEvent(x, id, key, (i + 1) % s.alloc)
           u == InvalidatePage(x, c)
<1>1. /\ x \in Memories(s) /\ PagesOf(x, id, key) = q /\ x.page = s.page
      /\ s.page \in Nat \ {0} /\ s.alloc \in Nat \ {0} /\ q \in Seq(Chunks(s))
  <2>1. x \in Memories(s) /\ x.table = z.table
    BY DEF Copies
  <2>2. PagesOf(x, id, key) = q
    BY <2>1 DEF PagesOf
  <2>3. x.page = s.page
    BY <2>1 DEF Memories
  <2> QED
    BY <2>1, <2>2, <2>3, SetupFacts, MemoryFacts
<1>2. Len(q) \in Nat /\ i < Len(q) * s.page /\ i + 1 \in Nat
  <2>1. Len(q) \in Nat
    BY <1>1
  <2>2. Len(q) * s.page \in Nat
    BY <1>1, <2>1
  <2> QED
    BY <2>1, <2>2
<1>3. i % s.alloc = i /\ (i + 1) % s.alloc = i + 1
  BY <1>1, Turn
<1>4. /\ i \div s.page + 1 \in 1 .. Len(q) /\ i % s.page \in 0 .. s.page - 1
      /\ c \in Chunks(s) /\ Holds(z, id, c)
  BY <1>2, PageThere
<1>5. c1 \in Chunks(s) /\ o1 \in 0 .. s.page - 1
  BY <1>2, PageThere
<1>6. GetPage(x, id, key, i) = c
  BY <1>1, <1>4 DEF GetPage
<1>7. ev = x.host[c1][o1]
  BY <1>1, <1>3 DEF GetEvent
<1>8. ev \in Nat
  <2> HIDE DEF c1, o1, ev
  <2>1. x.host[c1] \in Contents(s)
    BY <1>1, <1>5 DEF Memories
  <2> QED
    BY <1>5, <1>7, <2>1 DEF Contents
<1>9. u.page = s.page /\ PagesOf(u, id, key) = q
  <2>1. u.page = x.page /\ u.table = x.table
    BY <1>1 DEF InvalidatePage, Memories
  <2> QED
    BY <1>1, <2>1 DEF PagesOf
<1> HIDE DEF c, ev, u, q
<1>10. SetEvent(u, id, key, i, ev) = [u EXCEPT !.host[c][i % s.page] = ev]
  BY <1>9 DEF SetEvent, c
<1>11. [u EXCEPT !.host[c][i % s.page] = ev] \in Copies(s, z)
  BY <1>4, <1>8, MoveKeeps DEF u
<1> QED
  BY <1>3, <1>6, <1>10, <1>11 DEF u, ev

\* MemoryManager::cleanEventStack: the events behind a removed one move within the stack's pages.
LEMMA CleanEventStackKeeps ==
  ASSUME NEW s \in Setups, NEW z \in Memories(s), Good(s, z), NEW x \in Copies(s, z),
         NEW id \in Ids, NEW key, NEW idx \in Nat, NEW high \in 0 .. s.alloc - 1,
         idx < high, high <= Len(PagesOf(z, id, key)) * s.page
  PROVE  /\ CleanEventStack(x, id, key, idx, high).m \in Copies(s, z)
         /\ CleanEventStack(x, id, key, idx, high).high = high - 1
<1> DEFINE N == (high - idx - 1) % x.alloc
           move(y, at) == SetEvent(InvalidatePage(y, GetPage(y, id, key, at)), id, key,
                                   at % x.alloc, GetEvent(y, id, key, (at + 1) % x.alloc))
           round(y, i) == move(y, idx + i - 1)
           A == Copies(s, z)
           F == [i \in 1 .. N |-> [y \in A |-> round(y, i)]]
           Eq(g) == g = [i \in 0 .. N |-> IF i = 0 THEN x ELSE round(g[i - 1], i)]
           h == CHOOSE g : Eq(g)
<1>1. x.alloc = s.alloc /\ s.alloc \in Nat \ {0} /\ N = high - idx - 1 /\ N \in Nat
  <2>1. x.alloc = s.alloc /\ s.alloc \in Nat \ {0}
    BY SetupFacts DEF Copies, Memories
  <2>2. high - idx - 1 \in 0 .. s.alloc - 1 /\ high - idx - 1 \in Int
    BY <2>1
  <2>3. (high - idx - 1) % s.alloc = high - idx - 1
    BY <2>1, <2>2, Turn
  <2> QED
    BY <2>1, <2>2, <2>3
<1>2. /\ CleanEventStack(x, id, key, idx, high).m = h[N]
      /\ CleanEventStack(x, id, key, idx, high).high = high - 1
  <2>1. high # 0
    BY <1>1
  <2>2. CleanEventStack(x, id, key, idx, high) =
          [m |-> h[N], high |-> IF high = 0 THEN x.alloc - 1 ELSE high - 1]
    BY DEF CleanEventStack
  <2> HIDE DEF h, N
  <2> QED
    BY <2>1, <2>2
<1> HIDE DEF N
<1>3. ASSUME NEW i \in 1 .. N, NEW y \in A PROVE round(y, i) \in A
  <2>1. /\ idx + i - 1 \in Nat /\ (idx + i - 1) + 1 < s.alloc
        /\ (idx + i - 1) + 1 < Len(PagesOf(z, id, key)) * s.page
    <3>1. Len(PagesOf(z, id, key)) * s.page \in Int
      <4>1. PagesOf(z, id, key) \in Seq(Chunks(s)) /\ s.page \in Nat
        BY MemoryFacts, SetupFacts
      <4> QED
        BY <4>1
    <3> QED
      BY <1>1, <3>1
  <2> QED
    BY <1>1, <2>1, MoveOne
<1> HIDE DEF round, A
<1>4. \A i \in 1 .. N : \A y \in A : F[i][y] = round(y, i) /\ F[i][y] \in A
  BY <1>3
<1> HIDE DEF F
<1>5. x \in A
  BY DEF A
<1>6. PICK g : Loop(g, F, N, [i \in 0 .. N |-> A], x)
  BY <1>1, <1>4, <1>5, LoopInSet
<1>7. Eq(g)
  <2>1. \A i \in 0 .. N : g[i] \in A
    BY <1>6 DEF Loop
  <2>2. ASSUME NEW i \in 1 .. N PROVE g[i] = round(g[i - 1], i)
    <3>1. i - 1 \in 0 .. N
      BY <1>1
    <3> QED
      BY <1>4, <1>6, <2>1, <3>1 DEF Loop
  <2>3. g = [i \in 0 .. N |-> g[i]] /\ g[0] = x
    BY <1>6 DEF Loop
  <2>4. ASSUME NEW i \in 0 .. N PROVE g[i] = IF i = 0 THEN x ELSE round(g[i - 1], i)
    <3>1. i # 0 => i \in 1 .. N
      BY <1>1
    <3> QED
      BY <2>2, <2>3, <3>1
  <2> QED
    BY <2>3, <2>4
<1>8. Eq(h)
  BY <1>7
<1> HIDE DEF h
<1>9. h[0] = x /\ \A i \in 1 .. N : h[i] = round(h[i - 1], i)
  BY <1>1, <1>8
<1>10. \A i \in 1 .. N : h[i - 1] \in A => h[i] \in A
  BY <1>3, <1>9
<1>11. \A i \in 0 .. N : h[i] \in A
  BY <1>1, <1>5, <1>9, <1>10, LoopStaysInSet
<1> QED
  BY <1>1, <1>2, <1>11 DEF A

-----------------------------------------------------------------------------
(* Sequences.                                                              *)

\* Elements picked from a sequence are elements of it, and no more than it has.
LEMMA PickedFacts ==
  ASSUME NEW S, NEW q \in Seq(S), NEW at
  PROVE  Picked(q, at) \in Seq(S) /\ Len(Picked(q, at)) <= Len(q)
<1> DEFINE r == [j \in DOMAIN q |-> IF j \in at THEN <<q[j]>> ELSE <<>>]
<1>1. DOMAIN q = 1 .. Len(q) /\ Len(q) \in Nat /\ \A j \in 1 .. Len(q) : q[j] \in S
  OBVIOUS
<1>2. \A j \in 1 .. Len(q) : r[j] \in Seq(S) /\ Len(r[j]) <= 1
  BY <1>1
<1>3. r = [j \in 1 .. Len(q) |-> r[j]]
  BY <1>1
<1> HIDE DEF r
<1>4. r \in Seq(Seq(S)) /\ Len(r) = Len(q)
  BY <1>1, <1>2, <1>3
<1>5. FlattenSeq(r) \in Seq(S) /\ Len(FlattenSeq(r)) <= Len(r)
  BY <1>2, <1>4, FlattenFacts
<1> QED
  BY <1>4, <1>5 DEF Picked, r

-----------------------------------------------------------------------------
(* A processor of rule r with number id, when N packets have been seen.  V  *)
(* is whatever its other fields are.                                       *)

KeySet(r) == Range(StateKeys(r)) \cup Range(NegKeys(r)) \cup Range(AggKeys(r))
Keys(r)   == KeySet(r) \cup {Stack(SequenceLen(r) - 1)}
Places(s) == 0 .. s.alloc - 1

Procs(s, r, id, N, V) ==
  [rule : {r}, n : {SequenceLen(r)}, id : {id},
   low : [Keys(r) -> Places(s)], high : [Keys(r) -> Places(s)],
   samples : [Keys(r) -> 0 .. N], ts : [Keys(r) -> [Places(s) -> Nat]],
   first : V, pars : V, dropped : BOOLEAN, since : V]

\* A stack with l pages has a page for every place in use, and for every place that
\* was ever written.
StackFits(s, l, low, high, col) ==
  /\ l <= Limit(s) /\ high <= l * s.page
  /\ low > high => l = Limit(s)
  /\ \A i \in Places(s) : col[i] > 0 => i < l * s.page

Fits(s, p, x) ==
  \A key \in Keys(p.rule) :
    StackFits(s, Len(PagesOf(x, p.id, key)), p.low[key], p.high[key], p.ts[key])

\* From z to x only rule id has got pages, for stacks that it has.
Steady(z, x, id) ==
  /\ x.live = z.live /\ DOMAIN x.table[id] = DOMAIN z.table[id]
  /\ \A i \in Ids \ {id} : x.table[i] = z.table[i]

Fine(s, p, x) == Good(s, x) /\ Fits(s, p, x)

Pairs(s, r, id, N, V, z) ==
  {x \in [p : Procs(s, r, id, N, V), m : Memories(s)] :
     ~ x.m.exited => Fine(s, x.p, x.m) /\ Steady(z, x.m, id)}

\* The stacks of a rule.
LEMMA KeyFacts ==
  ASSUME NEW r, SoundRule(r)
  PROVE  /\ StateKeys(r) \in Seq(AllKeys) /\ NegKeys(r) \in Seq(AllKeys)
         /\ AggKeys(r) \in Seq(AllKeys)
         /\ Keys(r) \subseteq AllKeys /\ KeySet(r) \subseteq Keys(r)
         /\ SequenceLen(r) \in Nat \ {0}
<1>1. /\ r.predicates \in Seq(Range(r.predicates)) /\ r.predicates # <<>>
      /\ r.negations \in Seq(Range(r.negations)) /\ r.aggregates \in Seq(Range(r.aggregates))
  BY DEF SoundRule
<1>2. SequenceLen(r) \in Nat \ {0}
  BY <1>1 DEF SequenceLen
<1>3. StateKeys(r) \in Seq(AllKeys)
  BY <1>2 DEF StateKeys, Stack, AllKeys
<1>4. NegKeys(r) \in Seq(AllKeys)
  <2>1. Len(r.negations) \in Nat /\ DOMAIN r.negations = 1 .. Len(r.negations)
    BY <1>1
  <2> QED
    BY <2>1 DEF NegKeys, Neg, AllKeys
<1>5. AggKeys(r) \in Seq(AllKeys)
  <2>1. Len(r.aggregates) \in Nat /\ DOMAIN r.aggregates = 1 .. Len(r.aggregates)
    BY <1>1
  <2> QED
    BY <2>1 DEF AggKeys, Agg, AllKeys
<1>6. KeySet(r) \subseteq AllKeys
  <2>1. ASSUME NEW q \in Seq(AllKeys) PROVE Range(q) \subseteq AllKeys
    BY RangeOf
  <2> QED
    BY <1>3, <1>4, <1>5, <2>1 DEF KeySet
<1>7. Stack(SequenceLen(r) - 1) \in AllKeys
  <2>1. SequenceLen(r) - 1 \in Nat
    BY <1>2
  <2> QED
    BY <2>1 DEF Stack, AllKeys
<1> QED
  BY <1>2, <1>3, <1>4, <1>5, <1>6, <1>7 DEF Keys

\* The stacks of a kind are stacks of the rule.
LEMMA KindFacts ==
  ASSUME NEW r, SoundRule(r)
  PROVE  /\ StateKeys(r) \in Seq(Keys(r)) /\ NegKeys(r) \in Seq(Keys(r))
         /\ AggKeys(r) \in Seq(Keys(r))
<1>1. ASSUME NEW q \in Seq(AllKeys), Range(q) \subseteq Keys(r) PROVE q \in Seq(Keys(r))
  <2>1. /\ Len(q) \in Nat /\ q = [i \in 1 .. Len(q) |-> q[i]]
        /\ \A i \in 1 .. Len(q) : q[i] \in Keys(r)
    BY <1>1, RangeOf
  <2> QED
    BY <2>1
<1>2. /\ Range(StateKeys(r)) \subseteq Keys(r) /\ Range(NegKeys(r)) \subseteq Keys(r)
      /\ Range(AggKeys(r)) \subseteq Keys(r)
  BY DEF Keys, KeySet
<1> QED
  BY <1>1, <1>2, KeyFacts

\* An event that is added.
LEMMA AddEventKeeps ==
  ASSUME NEW s \in Setups, NEW r, SoundRule(r), NEW id \in Ids, NEW N \in Nat, NEW V,
         NEW z \in Memories(s), DOMAIN z.table[id] = KeySet(r),
         NEW x \in Pairs(s, r, id, N, V, z), NEW key \in KeySet(r), NEW pk,
         NEW k \in 1 .. N, pk[k].ts \in Nat
  PROVE  AddEvent(x, pk, key, k) \in Pairs(s, r, id, N, V, z)
<1> DEFINE index == x.p.high[key]
           p == [x.p EXCEPT !.ts[key][index] = pk[k].ts,
                            !.high[key] = (index + 1) % s.alloc,
                            !.samples[key] = IF index = 0 THEN k ELSE @]
           m1 == AddEventToStack(x.m, id, k, key, index)
           y == AddEvent(x, pk, key, k)
<1>1. /\ x.p \in Procs(s, r, id, N, V) /\ x.m \in Memories(s) /\ x = [p |-> x.p, m |-> x.m]
      /\ ~ x.m.exited => Fine(s, x.p, x.m) /\ Steady(z, x.m, id)
  BY DEF Pairs
<1>2. /\ key \in Keys(r) /\ key \in AllKeys /\ s.alloc \in Nat \ {0} /\ s.page \in Nat \ {0}
      /\ Limit(s) \in Nat /\ s.alloc = Limit(s) * s.page
  BY KeyFacts, SetupFacts
<1>3. /\ x.p.id = id /\ x.m.alloc = s.alloc /\ index \in Places(s) /\ x.p.low[key] \in Places(s)
      /\ x.p.rule = r
  BY <1>1, <1>2 DEF Procs, Memories
<1>4. CASE (index + 1) % s.alloc = x.p.low[key]
  <2>1. y = [x EXCEPT !.p.dropped = TRUE]
    BY <1>3, <1>4 DEF AddEvent
  <2>2. y = [p |-> [x.p EXCEPT !.dropped = TRUE], m |-> x.m]
    BY <1>1, <2>1
  <2> DEFINE p2 == [x.p EXCEPT !.dropped = TRUE]
  <2>3. /\ p2 \in Procs(s, r, id, N, V) /\ p2.rule = x.p.rule /\ p2.id = x.p.id
        /\ p2.low = x.p.low /\ p2.high = x.p.high /\ p2.ts = x.p.ts
    BY <1>1 DEF Procs
  <2> HIDE DEF p2
  <2>4. Fine(s, x.p, x.m) => Fine(s, p2, x.m)
    BY <2>3 DEF Fine, Fits
  <2>5. y.p = p2 /\ y.m = x.m /\ y \in [p : Procs(s, r, id, N, V), m : Memories(s)]
    BY <1>1, <2>2, <2>3 DEF p2
  <2> HIDE DEF y
  <2>6. y \in Pairs(s, r, id, N, V, z)
    BY <1>1, <2>4, <2>5 DEF Pairs
  <2> QED
    BY <2>6 DEF y
<1>5. CASE (index + 1) % s.alloc # x.p.low[key]
  <2>1. y = [p |-> p, m |-> m1]
    BY <1>3, <1>5 DEF AddEvent
  <2>2. (index + 1) % s.alloc \in Places(s)
    BY <1>2, <1>3 DEF Places
  <2>3. /\ p \in Procs(s, r, id, N, V) /\ p.rule = x.p.rule /\ p.id = x.p.id
        /\ p.low = x.p.low /\ p.high = [x.p.high EXCEPT ![key] = (index + 1) % s.alloc]
        /\ p.ts = [x.p.ts EXCEPT ![key] = [x.p.ts[key] EXCEPT ![index] = pk[k].ts]]
    <3> DEFINE high == [x.p.high EXCEPT ![key] = (index + 1) % s.alloc]
               ts == [x.p.ts EXCEPT ![key] = [x.p.ts[key] EXCEPT ![index] = pk[k].ts]]
               samples == [x.p.samples EXCEPT ![key] = IF index = 0 THEN k ELSE @]
    <3>1. high \in [Keys(r) -> Places(s)]
      BY <1>1, <2>2 DEF Procs
    <3>2. ts \in [Keys(r) -> [Places(s) -> Nat]]
      BY <1>1, <1>2 DEF Procs
    <3>3. samples \in [Keys(r) -> 0 .. N]
      <4>1. x.p.samples \in [Keys(r) -> 0 .. N] /\ k \in 0 .. N
        BY <1>1 DEF Procs
      <4> QED
        BY <1>2, <4>1
    <3>4. p = [x.p EXCEPT !.ts = ts, !.high = high, !.samples = samples]
      BY <1>1 DEF Procs
    <3> HIDE DEF high, ts, samples, p
    <3>5. /\ p \in Procs(s, r, id, N, V) /\ p.rule = x.p.rule /\ p.id = x.p.id
          /\ p.low = x.p.low /\ p.high = high /\ p.ts = ts
      BY <1>1, <3>1, <3>2, <3>3, <3>4 DEF Procs
    <3> QED
      BY <3>5 DEF high, ts
  <2> HIDE DEF p, m1
  <2>4. y.p = p /\ y.m = m1
    BY <2>1
  <2> HIDE DEF y
  <2> DEFINE l == Len(PagesOf(x.m, id, key))
             l1 == Len(PagesOf(m1, id, key))
  <2>5. ASSUME ~ x.m.exited
        PROVE  /\ Good(s, x.m) /\ Steady(z, x.m, id) /\ Fits(s, x.p, x.m)
               /\ StackFits(s, l, x.p.low[key], index, x.p.ts[key])
    <3>1. Good(s, x.m) /\ Steady(z, x.m, id) /\ Fits(s, x.p, x.m)
      BY <1>1, <2>5 DEF Fine
    <3> QED
      BY <1>2, <1>3, <3>1 DEF Fits
  <2>6. /\ m1 \in Memories(s) /\ m1.live = x.m.live /\ (x.m.exited => m1.exited)
        /\ ~ m1.exited => Extends(s, x.m, m1, id, key, index)
    <3>1. ~ x.m.exited => Good(s, x.m) /\ index <= l * s.page /\ l <= Limit(s)
      BY <2>5 DEF StackFits
    <3>2. index \in 0 .. s.alloc - 1 /\ k \in Nat
      BY <1>3 DEF Places
    <3>3. CASE x.m.exited
      <4>1. m1 \in Memories(s) /\ m1.live = x.m.live /\ m1.exited
        BY <1>1, <1>2, <3>3, ExitedStays DEF m1
      <4> QED
        BY <4>1
    <3>4. CASE ~ x.m.exited
      <4>1. key \in DOMAIN x.m.table[id]
        BY <2>5, <3>4 DEF Steady
      <4> HIDE DEF l, index
      <4> QED
        BY <1>1, <1>2, <3>1, <3>2, <4>1, AddEventToStackKeeps DEF l, m1
    <3> QED
      BY <3>3, <3>4
  <2>7. ASSUME ~ m1.exited PROVE Fine(s, p, m1) /\ Steady(z, m1, id)
    <3>1. /\ ~ x.m.exited /\ Good(s, m1) /\ OnlyStack(x.m, m1, id, key)
          /\ l <= l1 /\ l1 <= Limit(s) /\ index < l1 * s.page
      BY <2>6, <2>7 DEF Extends
    <3>2. Steady(z, m1, id)
      BY <2>5, <2>6, <3>1 DEF Steady, OnlyStack
    <3>3. l \in Nat /\ l1 \in Nat
      <4>1. PagesOf(x.m, id, key) \in Seq(Chunks(s)) /\ PagesOf(m1, id, key) \in Seq(Chunks(s))
        BY <1>1, <2>6, MemoryFacts
      <4> QED
        BY <4>1
    <3>4. StackFits(s, l1, p.low[key], p.high[key], p.ts[key])
      <4> DEFINE low == x.p.low[key]
                 high == (index + 1) % s.alloc
      <4>1. /\ l * s.page \in Nat /\ l1 * s.page \in Nat /\ l * s.page <= l1 * s.page
            /\ l1 < Limit(s) => l1 * s.page + s.page <= s.alloc
        BY <1>2, <3>1, <3>3, Multiples
      <4>2. p.low[key] = low /\ p.high[key] = high
            /\ p.ts[key] = [x.p.ts[key] EXCEPT ![index] = pk[k].ts]
        BY <1>1, <1>2, <2>3 DEF Procs
      <4>3. index \in Nat /\ low \in Nat /\ index + 1 <= s.alloc
        BY <1>2, <1>3 DEF Places
      <4>4. \/ index + 1 < s.alloc /\ high = index + 1
            \/ index + 1 = s.alloc /\ high = 0
        <5>1. CASE index + 1 < s.alloc
          <6>1. index + 1 \in 0 .. s.alloc - 1 /\ index + 1 \in Int
            BY <1>2, <4>3, <5>1
          <6> QED
            BY <1>2, <5>1, <6>1, Turn
        <5>2. CASE index + 1 = s.alloc
          <6>1. s.alloc \in s.alloc .. s.alloc + s.alloc - 1 /\ s.alloc \in Int
            BY <1>2
          <6>2. s.alloc % s.alloc = s.alloc - s.alloc
            BY <1>2, <6>1, Turn
          <6> QED
            BY <1>2, <5>2, <6>2
        <5> QED
          BY <1>2, <4>3, <5>1, <5>2
      <4>5. StackFits(s, l, low, index, x.p.ts[key])
        BY <2>5, <3>1
      <4> HIDE DEF high, low, l, l1, index
      <4>6. high <= l1 * s.page
        BY <1>2, <3>1, <4>1, <4>3, <4>4
      <4>7. low > high => l1 = Limit(s)
        <5>1. CASE index + 1 < s.alloc /\ high = index + 1
          <6>1. low > high => l = Limit(s)
            BY <4>3, <4>5, <5>1 DEF StackFits
          <6> QED
            BY <1>2, <3>1, <3>3, <6>1
        <5>2. CASE index + 1 = s.alloc
          BY <1>2, <3>1, <3>3, <4>1, <4>3, <5>2
        <5> QED
          BY <4>4, <5>1, <5>2
      <4>8. ASSUME NEW i \in Places(s), p.ts[key][i] > 0 PROVE i < l1 * s.page
        <5>1. CASE i = index
          BY <3>1, <5>1
        <5>2. CASE i # index
          <6>1. p.ts[key][i] = x.p.ts[key][i]
            BY <1>1, <1>2, <4>2, <5>2 DEF Procs
          <6>2. i < l * s.page /\ i \in Nat
            BY <1>2, <4>5, <4>8, <6>1 DEF StackFits, Places
          <6> QED
            BY <4>1, <6>2
        <5> QED
          BY <5>1, <5>2
      <4> QED
        BY <3>1, <4>2, <4>6, <4>7, <4>8 DEF StackFits
    <3>5. ASSUME NEW k1 \in Keys(r), k1 # key
          PROVE  StackFits(s, Len(PagesOf(m1, id, k1)), p.low[k1], p.high[k1], p.ts[k1])
      <4>1. PagesOf(m1, id, k1) = PagesOf(x.m, id, k1)
        BY <3>1, <3>5 DEF OnlyStack
      <4>2. p.low[k1] = x.p.low[k1] /\ p.high[k1] = x.p.high[k1] /\ p.ts[k1] = x.p.ts[k1]
        BY <1>1, <2>3, <3>5 DEF Procs
      <4>3. Fits(s, x.p, x.m)
        BY <2>5, <3>1
      <4>4. StackFits(s, Len(PagesOf(x.m, id, k1)), x.p.low[k1], x.p.high[k1], x.p.ts[k1])
        BY <1>3, <4>3 DEF Fits
      <4> QED
        BY <4>1, <4>2, <4>4
    <3>6. Fits(s, p, m1)
      BY <1>3, <2>3, <3>4, <3>5 DEF Fits
    <3> QED
      BY <3>1, <3>2, <3>6 DEF Fine
  <2>8. y \in [p : Procs(s, r, id, N, V), m : Memories(s)]
    BY <2>1, <2>3, <2>6
  <2>9. y \in Pairs(s, r, id, N, V, z)
    BY <2>4, <2>7, <2>8 DEF Pairs
  <2> QED
    BY <2>9 DEF y
<1> QED
  BY <1>4, <1>5

\* The same for the stacks of an event.
LEMMA AddEventsKeeps ==
  ASSUME NEW s \in Setups, NEW r, SoundRule(r), NEW id \in Ids, NEW N \in Nat, NEW V,
         NEW z \in Memories(s), DOMAIN z.table[id] = KeySet(r),
         NEW x \in Pairs(s, r, id, N, V, z), NEW keys, NEW pk,
         NEW k \in 1 .. N, pk[k].ts \in Nat
  PROVE  AddEvents(x, pk, keys, k) \in Pairs(s, r, id, N, V, z)
<1> DEFINE order == NegKeys(x.p.rule) \o AggKeys(x.p.rule) \o StateKeys(x.p.rule)
           L == Len(order)
           round(y, i) == IF order[i] \in keys THEN AddEvent(y, pk, order[i], k) ELSE y
           A == Pairs(s, r, id, N, V, z)
           F == [i \in 1 .. L |-> [y \in A |-> round(y, i)]]
           Eq(g) == g = [i \in 0 .. L |-> IF i = 0 THEN x
                                          ELSE IF order[i] \in keys
                                               THEN AddEvent(g[i - 1], pk, order[i], k)
                                          ELSE g[i - 1]]
           h == CHOOSE g : Eq(g)
<1>1. L \in Nat /\ \A i \in 1 .. L : order[i] \in KeySet(r)
  <2>1. x.p.rule = r
    BY DEF Pairs, Procs
  <2>2. NegKeys(r) \in Seq(AllKeys) /\ AggKeys(r) \in Seq(AllKeys) /\ StateKeys(r) \in Seq(AllKeys)
    BY KeyFacts
  <2>3. /\ NegKeys(r) \o AggKeys(r) \in Seq(AllKeys)
        /\ Range(NegKeys(r) \o AggKeys(r)) = Range(NegKeys(r)) \cup Range(AggKeys(r))
    BY <2>2, RangeConcat
  <2>4. order \in Seq(AllKeys) /\ Range(order) = KeySet(r)
    <3>1. order = (NegKeys(r) \o AggKeys(r)) \o StateKeys(r)
      BY <2>1
    <3>2. /\ (NegKeys(r) \o AggKeys(r)) \o StateKeys(r) \in Seq(AllKeys)
          /\ Range((NegKeys(r) \o AggKeys(r)) \o StateKeys(r))
               = Range(NegKeys(r) \o AggKeys(r)) \cup Range(StateKeys(r))
      <4> DEFINE na == NegKeys(r) \o AggKeys(r)
      <4>1. na \in Seq(AllKeys)
        BY <2>3
      <4> HIDE DEF na
      <4>2. na \o StateKeys(r) \in Seq(AllKeys)
            /\ Range(na \o StateKeys(r)) = Range(na) \cup Range(StateKeys(r))
        BY <2>2, <4>1, RangeConcat
      <4> QED
        BY <4>2 DEF na
    <3> QED
      BY <2>3, <3>1, <3>2 DEF KeySet
  <2> HIDE DEF order
  <2> QED
    BY <2>4, RangeOf
<1>2. AddEvents(x, pk, keys, k) = h[L]
  BY DEF AddEvents
<1> HIDE DEF order, L
<1>3. ASSUME NEW i \in 1 .. L, NEW y \in A PROVE round(y, i) \in A
  <2>1. order[i] \in KeySet(r)
    BY <1>1
  <2>2. AddEvent(y, pk, order[i], k) \in A
    BY <2>1, AddEventKeeps
  <2> QED
    BY <2>2
<1>4. \A i \in 1 .. L : \A y \in A : F[i][y] = round(y, i) /\ F[i][y] \in A
  BY <1>3
<1> HIDE DEF F
<1>5. x \in A
  BY DEF A
<1> HIDE DEF A
<1>6. PICK g : Loop(g, F, L, [i \in 0 .. L |-> A], x)
  BY <1>1, <1>4, <1>5, LoopInSet
<1>7. Eq(g)
  <2>1. \A i \in 0 .. L : g[i] \in A
    BY <1>6 DEF Loop
  <2>2. ASSUME NEW i \in 1 .. L PROVE g[i] = round(g[i - 1], i)
    <3>1. i - 1 \in 0 .. L
      BY <1>1
    <3> QED
      BY <1>4, <1>6, <2>1, <3>1 DEF Loop
  <2>3. g = [i \in 0 .. L |-> g[i]] /\ g[0] = x
    BY <1>6 DEF Loop
  <2>4. ASSUME NEW i \in 0 .. L PROVE g[i] = IF i = 0 THEN x ELSE round(g[i - 1], i)
    <3>1. i # 0 => i \in 1 .. L
      BY <1>1
    <3> QED
      BY <2>2, <2>3, <3>1
  <2> QED
    BY <2>3, <2>4
<1>8. Eq(h)
  BY <1>7
<1> HIDE DEF h
<1>9. h[0] = x /\ \A i \in 1 .. L : h[i] = round(h[i - 1], i)
  BY <1>1, <1>8
<1> HIDE DEF round
<1>10. \A i \in 1 .. L : h[i - 1] \in A => h[i] \in A
  BY <1>3, <1>9
<1>11. \A i \in 0 .. L : h[i] \in A
  BY <1>1, <1>5, <1>9, <1>10, LoopStaysInSet
<1> QED
  BY <1>1, <1>2, <1>11 DEF A

-----------------------------------------------------------------------------
(* Events that expire.                                                     *)

\* The binary search ends at two positions of the stack, in order.
LEMMA NarrowFacts ==
  ASSUME NEW size \in Nat, NEW left
  PROVE  /\ size = 0 => Narrow(size, left) = <<0, -1>>
         /\ size > 0 => \E lo, hi \in 0 .. size - 1 : Narrow(size, left) = <<lo, hi>>
<1> DEFINE halved(lo, hi) == LET mid == lo + (hi - lo) \div 2
                             IN  IF hi - lo <= 1 THEN <<lo, hi>>
                                 ELSE IF mid \in left THEN <<mid, hi>> ELSE <<lo, mid>>
           round(y, i) == halved(y[1], y[2])
           Ends == {<<lo, hi>> : lo, hi \in 0 .. size - 1}
           A == Ends \cup {<<0, size - 1>>}
           F == [i \in 1 .. size |-> [y \in A |-> round(y, i)]]
           Eq(g) == g = [i \in 0 .. size |->
                           IF i = 0 THEN <<0, size - 1>> ELSE round(g[i - 1], i)]
           h == CHOOSE g : Eq(g)
<1>1. Narrow(size, left) = h[size]
  BY DEF Narrow
<1>2. size > 0 => A = Ends
  OBVIOUS
<1>3. ASSUME NEW i \in 1 .. size, NEW y \in A PROVE round(y, i) \in A
  <2>1. size > 0
    OBVIOUS
  <2>2. PICK lo, hi \in 0 .. size - 1 : y = <<lo, hi>>
    BY <1>2, <2>1
  <2>3. y[1] = lo /\ y[2] = hi
    BY <2>2
  <2>4. CASE hi - lo <= 1
    BY <2>2, <2>3, <2>4
  <2>5. CASE ~ (hi - lo <= 1)
    <3> DEFINE mid == lo + (hi - lo) \div 2
    <3>1. mid \in 0 .. size - 1
      BY <2>5
    <3>2. round(y, i) \in {<<mid, hi>>, <<lo, mid>>}
      BY <2>3, <2>5
    <3> HIDE DEF mid
    <3> QED
      BY <3>1, <3>2
  <2> QED
    BY <2>4, <2>5
<1> HIDE DEF round, A
<1>4. \A i \in 1 .. size : \A y \in A : F[i][y] = round(y, i) /\ F[i][y] \in A
  BY <1>3
<1> HIDE DEF F
<1>5. <<0, size - 1>> \in A
  BY DEF A
<1>6. PICK g : Loop(g, F, size, [i \in 0 .. size |-> A], <<0, size - 1>>)
  BY <1>4, <1>5, LoopInSet
<1>7. Eq(g)
  <2>1. \A i \in 0 .. size : g[i] \in A
    BY <1>6 DEF Loop
  <2>2. ASSUME NEW i \in 1 .. size PROVE g[i] = round(g[i - 1], i)
    <3>1. i - 1 \in 0 .. size
      OBVIOUS
    <3> QED
      BY <1>4, <1>6, <2>1, <3>1 DEF Loop
  <2>3. g = [i \in 0 .. size |-> g[i]] /\ g[0] = <<0, size - 1>>
    BY <1>6 DEF Loop
  <2>4. ASSUME NEW i \in 0 .. size
        PROVE  g[i] = IF i = 0 THEN <<0, size - 1>> ELSE round(g[i - 1], i)
    <3>1. i # 0 => i \in 1 .. size
      OBVIOUS
    <3> QED
      BY <2>2, <2>3, <3>1
  <2> QED
    BY <2>3, <2>4
<1>8. Eq(h)
  BY <1>7
<1> HIDE DEF h
<1>9. h[0] = <<0, size - 1>> /\ \A i \in 1 .. size : h[i] = round(h[i - 1], i)
  <2>1. ASSUME NEW i \in 0 .. size
        PROVE  h[i] = IF i = 0 THEN <<0, size - 1>> ELSE round(h[i - 1], i)
    BY <1>8
  <2>2. 0 \in 0 .. size /\ \A i \in 1 .. size : i \in 0 .. size /\ i # 0
    OBVIOUS
  <2> QED
    BY <2>1, <2>2
<1>10. \A i \in 1 .. size : h[i - 1] \in A => h[i] \in A
  BY <1>3, <1>9
<1>11. \A i \in 0 .. size : h[i] \in A
  BY <1>5, <1>9, <1>10, LoopStaysInSet
<1>12. size = 0 => Narrow(size, left) = <<0, -1>>
  BY <1>1, <1>9
<1>13. size > 0 => \E lo, hi \in 0 .. size - 1 : Narrow(size, left) = <<lo, hi>>
  <2>1. h[size] \in A
    BY <1>11
  <2> QED
    BY <1>1, <1>2, <2>1
<1> QED
  BY <1>12, <1>13

\* Where a stack begins after what is older has been deleted: at a place that has a
\* page.
NewLow(s, l, first, high, col) ==
  \E new \in Places(s) : /\ (IF first < 0 THEN high ELSE first) = new
                         /\ StackFits(s, l, new, high, col)

\* Where a column is cut, whatever the search finds in it, the stack still has its pages.
LEMMA FirstValidFits ==
  ASSUME NEW s \in Setups, NEW l \in Nat, NEW low \in Places(s), NEW high \in Places(s),
         NEW col \in [Places(s) -> Nat], StackFits(s, l, low, high, col),
         NEW minTS, low = high => minTS \in Nat, NEW first,
         first = GetFirstValidElementCircular(col, s.alloc, low, high, minTS)
  PROVE  NewLow(s, l, first, high, col)
<1> DEFINE size == (high - low) % s.alloc
           at(r) == (low + r) % s.alloc
           left == {r \in 0 .. size - 1 : col[at(r)] <= minTS}
           ends == Narrow(size, left)
           new == IF first < 0 THEN high ELSE first
<1>1. s.alloc \in Nat \ {0} /\ low \in 0 .. s.alloc - 1 /\ high \in 0 .. s.alloc - 1
      /\ s.page \in Nat \ {0} /\ Limit(s) \in Nat /\ s.alloc = Limit(s) * s.page
  BY SetupFacts DEF Places
<1>2. first = IF col[(high - 1) % s.alloc] <= minTS THEN -1
              ELSE IF ends[1] = ends[2] \/ col[at(ends[1])] > minTS THEN at(ends[1])
              ELSE at(ends[2])
  BY DEF GetFirstValidElementCircular
<1>3. size \in Nat
  BY <1>1
<1>4. \A r \in Int : at(r) \in Places(s)
  <2>1. ASSUME NEW r \in Int PROVE at(r) \in Places(s)
    <3>1. low + r \in Int
      BY <1>1
    <3> QED
      BY <1>1, <3>1, DivMod DEF Places
  <2> QED
    BY <2>1
<1> HIDE DEF left
<1>5. /\ size = 0 => ends = <<0, -1>>
      /\ size > 0 => \E lo, hi \in 0 .. size - 1 : ends = <<lo, hi>>
  BY <1>3, NarrowFacts
<1>6. PICK lo \in Int, hi \in Int :
         /\ ends = <<lo, hi>>
         /\ size = 0 => lo = 0 /\ hi = -1
         /\ size > 0 => lo \in 0 .. size - 1 /\ hi \in 0 .. size - 1
  BY <1>3, <1>5
<1>7. ends[1] = lo /\ ends[2] = hi
  BY <1>6
<1> HIDE DEF ends, at, size
<1>8. \/ first = -1
      \/ col[(high - 1) % s.alloc] > minTS /\ first = at(lo)
      \/ ~ (col[(high - 1) % s.alloc] <= minTS) /\ ~ (col[at(lo)] > minTS) /\ first = at(hi)
      \/ ~ (col[(high - 1) % s.alloc] <= minTS) /\ first = at(lo)
  BY <1>2, <1>7
<1>9. new \in Places(s) /\ \/ new = high
                           \/ new = at(lo)
                           \/ ~ (col[(high - 1) % s.alloc] <= minTS) /\ new = at(hi)
  <2>1. at(lo) \in Places(s) /\ at(hi) \in Places(s)
    BY <1>4
  <2> QED
    BY <1>1, <1>8, <2>1, SMTT(60) DEF Places
<1> HIDE DEF new
<1>10. new > high => l = Limit(s)
  <2>1. CASE low > high
    BY <2>1 DEF StackFits
  <2>2. CASE low < high
    <3>1. size = high - low
      <4>1. high - low \in 0 .. s.alloc - 1 /\ high - low \in Int
        BY <1>1, <2>2
      <4> QED
        BY <1>1, <4>1, Turn DEF size
    <3>2. \A r \in 0 .. size - 1 : at(r) = low + r /\ low + r < high
      <4>1. ASSUME NEW r \in 0 .. size - 1 PROVE at(r) = low + r /\ low + r < high
        <5>1. low + r \in 0 .. s.alloc - 1 /\ low + r \in Int /\ low + r < high
          BY <1>1, <2>2, <3>1
        <5> QED
          BY <1>1, <5>1, Turn DEF at
      <4> QED
        BY <4>1
    <3>3. lo \in 0 .. size - 1 /\ hi \in 0 .. size - 1
      BY <1>1, <1>6, <2>2, <3>1
    <3>4. at(lo) < high /\ at(hi) < high /\ at(lo) \in Int /\ at(hi) \in Int
      BY <1>1, <3>2, <3>3
    <3> QED
      BY <1>1, <1>9, <3>4
  <2>3. CASE low = high
    <3>1. size = 0
      <4>1. high - low = 0 /\ 0 \in 0 .. s.alloc - 1
        BY <1>1, <2>3
      <4> QED
        BY <1>1, <4>1, Turn DEF size
    <3>2. at(lo) = high
      <4>1. low + lo = high
        BY <1>1, <1>6, <2>3, <3>1
      <4> QED
        BY <1>1, <4>1, Turn DEF at
    <3>3. at(hi) = (high - 1) % s.alloc
      <4>1. low + hi = high - 1
        BY <1>1, <1>6, <2>3, <3>1
      <4> QED
        BY <4>1 DEF at
    <3>4. CASE new = high
      BY <1>1, <3>4
    <3>5. CASE new = at(hi) /\ ~ (col[at(hi)] <= minTS)
      <4>1. CASE high > 0
        <5>1. at(hi) = high - 1
          <6>1. high - 1 \in 0 .. s.alloc - 1 /\ high - 1 \in Int
            BY <1>1, <4>1
          <6> QED
            BY <1>1, <3>3, <6>1, Turn
        <5> QED
          BY <1>1, <3>5, <5>1
      <4>2. CASE high = 0
        <5>1. at(hi) = s.alloc - 1
          <6>1. high - 1 = -1 /\ -1 \in (0 - s.alloc) .. -1 /\ -1 \in Int
            BY <1>1, <4>2
          <6>2. (-1) % s.alloc = -1 + s.alloc
            BY <1>1, <6>1, Turn
          <6> QED
            BY <1>1, <3>3, <6>1, <6>2
        <5>2. s.alloc - 1 \in Places(s) /\ col[s.alloc - 1] \in Nat
          BY <1>1 DEF Places
        <5>3. col[s.alloc - 1] > 0
          BY <2>3, <3>5, <5>1, <5>2
        <5>4. s.alloc - 1 < l * s.page
          BY <5>2, <5>3 DEF StackFits
        <5>5. l <= Limit(s)
          BY DEF StackFits
        <5>6. l < Limit(s) => l * s.page + s.page <= s.alloc
          BY <1>1, Multiples
        <5>7. l * s.page \in Nat
          BY <1>1, Multiples
        <5>8. s.page \in Nat \ {0} /\ s.alloc \in Nat /\ Limit(s) \in Nat
          BY <1>1
        <5>9. ~ (l < Limit(s))
          BY <5>4, <5>6, <5>7, <5>8
        <5> QED
          BY <5>5, <5>8, <5>9
      <4> QED
        BY <1>1, <4>1, <4>2
    <3> QED
      BY <1>9, <3>2, <3>3, <3>4, <3>5
  <2> QED
    BY <1>1, <2>1, <2>2, <2>3
<1>11. StackFits(s, l, new, high, col)
  BY <1>10 DEF StackFits
<1> QED
  BY <1>9, <1>11 DEF new, NewLow


\* The time up to which events of negations and aggregates are deleted.
LEMMA MinTimeStampNat ==
  ASSUME NEW s \in Setups, NEW r, SoundRule(r), NEW id, NEW N, NEW V,
         NEW p \in Procs(s, r, id, N, V), NEW up \in 0 .. Len(r.predicates) - 1,
         NEW win \in Nat, NEW time \in Nat
  PROVE  MinTimeStamp(p, p.n - 1 - up, win, time) \in Nat
<1> DEFINE ref == p.n - 1 - up
<1>1. p.n = SequenceLen(r) /\ SequenceLen(r) = Len(r.predicates) /\ SequenceLen(r) \in Nat \ {0}
  BY KeyFacts DEF Procs, SequenceLen
<1>2. ref \in 0 .. SequenceLen(r) - 1
  BY <1>1
<1> HIDE DEF ref
<1>3. CASE ref = p.n - 1
  BY <1>3 DEF MinTimeStamp, Sub64, Wrapped, ref
<1>4. CASE ref # p.n - 1
  <2>1. ref + 1 \in 1 .. SequenceLen(r) - 1
    BY <1>1, <1>2, <1>4
  <2>2. Stack(ref) \in Range(StateKeys(r))
    <3>1. ref + 1 \in DOMAIN StateKeys(r) /\ StateKeys(r)[ref + 1] = Stack((ref + 1) - 1)
      BY <2>1 DEF StateKeys
    <3>2. (ref + 1) - 1 = ref
      BY <1>1, <1>2
    <3> QED
      BY <3>1, <3>2 DEF Range
  <2>3. Stack(ref) \in Keys(r)
    BY <2>2 DEF Keys, KeySet
  <2>4. p.ts[Stack(ref)][p.low[Stack(ref)]] \in Nat
    BY <2>3 DEF Procs
  <2> QED
    BY <1>4, <2>4 DEF MinTimeStamp, Minus, ref
<1> QED
  BY <1>3, <1>4

\* The processors that fit memory x.
Fitting(s, r, id, N, V, x) == {p \in Procs(s, r, id, N, V) : Fits(s, p, x)}

\* Deleting expired elements from one stack keeps the processor within its pages.
LEMMA DeleteKeeps ==
  ASSUME NEW s \in Setups, NEW r, SoundRule(r), NEW id \in Ids, NEW N \in Nat, NEW V,
         NEW x \in Memories(s), NEW p \in Fitting(s, r, id, N, V, x), NEW key \in KeySet(r),
         NEW minTS, p.low[key] = p.high[key] => minTS \in Nat
  PROVE  DeleteInvalidElementsCircular(p, s.alloc, key, minTS) \in Fitting(s, r, id, N, V, x)
<1> DEFINE first == GetFirstValidElementCircular(p.ts[key], s.alloc, p.low[key], p.high[key], minTS)
           q == DeleteInvalidElementsCircular(p, s.alloc, key, minTS)
           l == Len(PagesOf(x, id, key))
<1>1. p \in Procs(s, r, id, N, V) /\ Fits(s, p, x) /\ key \in Keys(r)
  BY KeyFacts DEF Fitting
<1>2. /\ p.rule = r /\ p.id = id /\ p.low[key] \in Places(s) /\ p.high[key] \in Places(s)
      /\ p.ts[key] \in [Places(s) -> Nat]
  BY <1>1 DEF Procs
<1>3. StackFits(s, l, p.low[key], p.high[key], p.ts[key])
  BY <1>1, <1>2 DEF Fits
<1>4. l \in Nat
  <2>1. PagesOf(x, id, key) \in Seq(Chunks(s))
    BY MemoryFacts
  <2> QED
    BY <2>1
<1> HIDE DEF l
<1>5. PICK new \in Places(s) : /\ (IF first < 0 THEN p.high[key] ELSE first) = new
                               /\ StackFits(s, l, new, p.high[key], p.ts[key])
  <2>1. NewLow(s, l, first, p.high[key], p.ts[key])
    BY <1>2, <1>3, <1>4, FirstValidFits
  <2> QED
    BY <2>1 DEF NewLow
<1>6. q = [p EXCEPT !.low[key] = IF first < 0 THEN p.high[key] ELSE first]
  BY DEF DeleteInvalidElementsCircular
<1> HIDE DEF q, first
<1>7. q = [p EXCEPT !.low = [p.low EXCEPT ![key] = new]]
  BY <1>1, <1>5, <1>6 DEF Procs
<1>8. [p.low EXCEPT ![key] = new] \in [Keys(r) -> Places(s)]
  BY <1>1 DEF Procs
<1>9. /\ q \in Procs(s, r, id, N, V) /\ q.rule = r /\ q.id = id /\ q.high = p.high
      /\ q.ts = p.ts /\ q.low = [p.low EXCEPT ![key] = new]
  BY <1>1, <1>7, <1>8 DEF Procs
<1>10. ASSUME NEW k \in Keys(r)
       PROVE  StackFits(s, Len(PagesOf(x, id, k)), q.low[k], q.high[k], q.ts[k])
  <2>1. CASE k = key
    <3>1. q.low[k] = new
      BY <1>1, <1>9, <2>1 DEF Procs
    <3> QED
      BY <1>5, <1>9, <2>1, <3>1 DEF l
  <2>2. CASE k # key
    <3>1. q.low[k] = p.low[k]
      BY <1>1, <1>9, <2>2 DEF Procs
    <3> QED
      BY <1>1, <1>2, <1>9, <3>1 DEF Fits
  <2> QED
    BY <2>1, <2>2
<1>11. Fits(s, q, x)
  BY <1>9, <1>10 DEF Fits
<1> QED
  BY <1>9, <1>11 DEF Fitting, q

\* deleteInvalidEvents for one stack.
LEMMA DeleteExpiredKeeps ==
  ASSUME NEW s \in Setups, NEW r, SoundRule(r), NEW id \in Ids, NEW N \in Nat, NEW V,
         NEW x \in Memories(s), NEW p \in Fitting(s, r, id, N, V, x), NEW key \in KeySet(r),
         NEW time \in Nat
  PROVE  DeleteExpired(p, s.alloc, key, time) \in Fitting(s, r, id, N, V, x)
<1> DEFINE i == key[2]
           neg == p.rule.negations[i + 1]
           agg == p.rule.aggregates[i + 1]
           win == IF neg.lowerId < 0 THEN neg.lowerTime ELSE p.rule.predicates[neg.lowerId + 1].win
           delete(ref, w) ==
             DeleteInvalidElementsCircular(p, s.alloc, key, MinTimeStamp(p, ref, w, time))
<1>1. p \in Procs(s, r, id, N, V) /\ p.rule = r
  BY DEF Fitting, Procs
<1>2. CASE key \in Range(StateKeys(r))
  <2>1. key[1] = "STATE"
    BY <1>2 DEF Range, StateKeys, Stack
  <2>2. DeleteExpired(p, s.alloc, key, time) =
          IF p.high[key] = p.low[key] THEN p ELSE delete(GetRefersTo(p, i), Predicate(p, i).win)
    BY <2>1 DEF DeleteExpired
  <2>3. CASE p.high[key] = p.low[key]
    BY <2>2, <2>3
  <2>4. CASE p.high[key] # p.low[key]
    BY <2>2, <2>4, DeleteKeeps
  <2> QED
    BY <2>3, <2>4
<1>3. CASE key \in Range(NegKeys(r))
  <2>1. PICK j \in DOMAIN r.negations : key = Neg(j - 1)
    BY <1>3 DEF Range, NegKeys
  <2>2. DOMAIN r.negations = 1 .. Len(r.negations) /\ Len(r.negations) \in Nat
    BY DEF SoundRule
  <2>3. key[1] = "NEG" /\ i = j - 1 /\ i + 1 = j
    BY <2>1, <2>2 DEF Neg
  <2>4. neg \in Range(r.negations)
    BY <1>1, <2>1, <2>3 DEF Range
  <2>5. /\ neg.upperId \in 0 .. Len(r.predicates) - 1 /\ neg.lowerTime \in Nat
        /\ neg.lowerId \in 0 .. Len(r.predicates) - 1 \/ neg.lowerId = -1
    BY <2>4 DEF SoundRule
  <2>6. win \in Nat
    <3>1. CASE neg.lowerId = -1
      BY <2>5, <3>1
    <3>2. CASE neg.lowerId \in 0 .. Len(r.predicates) - 1
      <4>1. Len(r.predicates) \in Nat /\ DOMAIN r.predicates = 1 .. Len(r.predicates)
        BY DEF SoundRule
      <4>2. neg.lowerId + 1 \in DOMAIN r.predicates /\ ~ (neg.lowerId < 0)
        <5> HIDE DEF neg
        <5> QED
          BY <3>2, <4>1
      <4>3. r.predicates[neg.lowerId + 1].win \in Nat
        BY <4>2 DEF SoundRule
      <4> QED
        BY <1>1, <4>2, <4>3
    <3> QED
      BY <2>5, <3>1, <3>2
  <2>7. DeleteExpired(p, s.alloc, key, time) = delete(p.n - 1 - neg.upperId, win)
    BY <2>3 DEF DeleteExpired
  <2> HIDE DEF win, neg
  <2>8. MinTimeStamp(p, p.n - 1 - neg.upperId, win, time) \in Nat
    BY <1>1, <2>5, <2>6, MinTimeStampNat
  <2> QED
    BY <2>7, <2>8, DeleteKeeps
<1>4. CASE key \in Range(AggKeys(r))
  <2>1. PICK j \in DOMAIN r.aggregates : key = Agg(j - 1)
    BY <1>4 DEF Range, AggKeys
  <2>2. DOMAIN r.aggregates = 1 .. Len(r.aggregates) /\ Len(r.aggregates) \in Nat
    BY DEF SoundRule
  <2>3. key[1] = "AGG" /\ i = j - 1 /\ i + 1 = j
    BY <2>1, <2>2 DEF Agg
  <2>4. agg \in Range(r.aggregates)
    BY <1>1, <2>1, <2>3 DEF Range
  <2>5. agg.upperId \in 0 .. Len(r.predicates) - 1 /\ agg.lowerTime \in Nat
    BY <2>4 DEF SoundRule
  <2>6. DeleteExpired(p, s.alloc, key, time) = delete(p.n - 1 - agg.upperId, agg.lowerTime)
    BY <2>3 DEF DeleteExpired
  <2> HIDE DEF agg
  <2>7. MinTimeStamp(p, p.n - 1 - agg.upperId, agg.lowerTime, time) \in Nat
    BY <1>1, <2>5, MinTimeStampNat
  <2> QED
    BY <2>6, <2>7, DeleteKeeps
<1> QED
  BY <1>2, <1>3, <1>4 DEF KeySet

\* deleteInvalidEvents.
LEMMA DeleteExpiredEventsKeeps ==
  ASSUME NEW s \in Setups, NEW r, SoundRule(r), NEW id \in Ids, NEW N \in Nat, NEW V,
         NEW x \in Memories(s), NEW p \in Fitting(s, r, id, N, V, x), NEW time \in Nat
  PROVE  DeleteExpiredEvents(p, s.alloc, time) \in Fitting(s, r, id, N, V, x)
<1> DEFINE keys == Reverse(StateKeys(p.rule)) \o NegKeys(p.rule) \o AggKeys(p.rule)
           L == Len(keys)
           round(y, i) == DeleteExpired(y, s.alloc, keys[i], time)
           A == Fitting(s, r, id, N, V, x)
           F == [i \in 1 .. L |-> [y \in A |-> round(y, i)]]
           Eq(g) == g = [i \in 0 .. L |-> IF i = 0 THEN p ELSE round(g[i - 1], i)]
           h == CHOOSE g : Eq(g)
<1>1. L \in Nat /\ \A i \in 1 .. L : keys[i] \in KeySet(r)
  <2>1. p.rule = r
    BY DEF Fitting, Procs
  <2>2. NegKeys(r) \in Seq(AllKeys) /\ AggKeys(r) \in Seq(AllKeys) /\ StateKeys(r) \in Seq(AllKeys)
    BY KeyFacts
  <2> DEFINE back == Reverse(StateKeys(r))
             first == back \o NegKeys(r)
  <2>3. back \in Seq(AllKeys) /\ Range(back) \subseteq Range(StateKeys(r))
    BY <2>2, RangeReverse
  <2> HIDE DEF back
  <2>4. first \in Seq(AllKeys) /\ Range(first) = Range(back) \cup Range(NegKeys(r))
    BY <2>2, <2>3, RangeConcat
  <2>5. keys = first \o AggKeys(r)
    BY <2>1 DEF back
  <2> HIDE DEF first, keys
  <2>6. keys \in Seq(AllKeys) /\ Range(keys) = Range(first) \cup Range(AggKeys(r))
    BY <2>2, <2>4, <2>5, RangeConcat
  <2>7. L \in Nat /\ \A i \in 1 .. L : keys[i] \in Range(keys)
    BY <2>6, RangeOf
  <2> QED
    BY <2>3, <2>4, <2>6, <2>7 DEF KeySet
<1>2. DeleteExpiredEvents(p, s.alloc, time) = h[L]
  BY DEF DeleteExpiredEvents
<1> HIDE DEF keys, L
<1>3. ASSUME NEW i \in 1 .. L, NEW y \in A PROVE round(y, i) \in A
  <2>1. keys[i] \in KeySet(r)
    BY <1>1
  <2> QED
    BY <2>1, DeleteExpiredKeeps
<1> HIDE DEF round, A
<1>4. \A i \in 1 .. L : \A y \in A : F[i][y] = round(y, i) /\ F[i][y] \in A
  BY <1>3
<1> HIDE DEF F
<1>5. p \in A
  BY DEF A
<1>6. PICK g : Loop(g, F, L, [i \in 0 .. L |-> A], p)
  BY <1>1, <1>4, <1>5, LoopInSet
<1>7. Eq(g)
  <2>1. \A i \in 0 .. L : g[i] \in A
    BY <1>6 DEF Loop
  <2>2. ASSUME NEW i \in 1 .. L PROVE g[i] = round(g[i - 1], i)
    <3>1. i - 1 \in 0 .. L
      BY <1>1
    <3> QED
      BY <1>4, <1>6, <2>1, <3>1 DEF Loop
  <2>3. g = [i \in 0 .. L |-> g[i]] /\ g[0] = p
    BY <1>6 DEF Loop
  <2>4. ASSUME NEW i \in 0 .. L PROVE g[i] = IF i = 0 THEN p ELSE round(g[i - 1], i)
    <3>1. i # 0 => i \in 1 .. L
      BY <1>1
    <3> QED
      BY <2>2, <2>3, <3>1
  <2> QED
    BY <2>3, <2>4
<1>8. Eq(h)
  BY <1>7
<1> HIDE DEF h
<1>9. h[0] = p /\ \A i \in 1 .. L : h[i] = round(h[i - 1], i)
  BY <1>1, <1>8
<1>10. \A i \in 1 .. L : h[i - 1] \in A => h[i] \in A
  BY <1>3, <1>9
<1>11. \A i \in 0 .. L : h[i] \in A
  BY <1>1, <1>5, <1>9, <1>10, LoopStaysInSet
<1> QED
  BY <1>1, <1>2, <1>11 DEF A

\* The stacks of a processor are brought to the device.
LEMMA SetStacksKeeps ==
  ASSUME NEW s \in Setups, NEW r, NEW id \in Ids, NEW N \in Nat, NEW V,
         NEW z \in Memories(s), NEW x, x.p \in Procs(s, r, id, N, V), x.m \in Copies(s, z),
         x = [p |-> x.p, m |-> x.m], NEW keys \in Seq(Keys(r))
  PROVE  /\ SetStacks(x, keys) = [p |-> x.p, m |-> SetStacks(x, keys).m]
         /\ SetStacks(x, keys).m \in Copies(s, z)
<1> DEFINE L == Len(keys)
           round(y, i) == SetEventsStacks(y, x.p.id, keys[i], x.p.low[keys[i]], x.p.high[keys[i]])
           A == Copies(s, z)
           F == [i \in 1 .. L |-> [y \in A |-> round(y, i)]]
           Eq(g) == g = [i \in 0 .. L |-> IF i = 0 THEN x.m ELSE round(g[i - 1], i)]
           h == CHOOSE g : Eq(g)
<1>1. L \in Nat /\ \A i \in 1 .. L : keys[i] \in Keys(r)
  OBVIOUS
<1>2. SetStacks(x, keys) = [x EXCEPT !.m = h[L]]
  BY DEF SetStacks
<1> HIDE DEF L
<1>3. ASSUME NEW i \in 1 .. L, NEW y \in A PROVE round(y, i) \in A
  <2>1. x.p.id = id /\ x.p.low[keys[i]] \in Places(s) /\ x.p.high[keys[i]] \in Places(s)
    BY <1>1 DEF Procs
  <2>2. Places(s) \subseteq Nat
    BY SetupFacts DEF Places
  <2> QED
    BY <2>1, <2>2, SetEventsStacksKeeps
<1> HIDE DEF round, A
<1>4. \A i \in 1 .. L : \A y \in A : F[i][y] = round(y, i) /\ F[i][y] \in A
  BY <1>3
<1> HIDE DEF F
<1>5. x.m \in A
  BY DEF A
<1>6. PICK g : Loop(g, F, L, [i \in 0 .. L |-> A], x.m)
  BY <1>1, <1>4, <1>5, LoopInSet
<1>7. Eq(g)
  <2>1. \A i \in 0 .. L : g[i] \in A
    BY <1>6 DEF Loop
  <2>2. ASSUME NEW i \in 1 .. L PROVE g[i] = round(g[i - 1], i)
    <3>1. i - 1 \in 0 .. L
      BY <1>1
    <3> QED
      BY <1>4, <1>6, <2>1, <3>1 DEF Loop
  <2>3. g = [i \in 0 .. L |-> g[i]] /\ g[0] = x.m
    BY <1>6 DEF Loop
  <2>4. ASSUME NEW i \in 0 .. L PROVE g[i] = IF i = 0 THEN x.m ELSE round(g[i - 1], i)
    <3>1. i # 0 => i \in 1 .. L
      BY <1>1
    <3> QED
      BY <2>2, <2>3, <3>1
  <2> QED
    BY <2>3, <2>4
<1>8. Eq(h)
  BY <1>7
<1> HIDE DEF h
<1>9. h[0] = x.m /\ \A i \in 1 .. L : h[i] = round(h[i - 1], i)
  <2>1. ASSUME NEW i \in 0 .. L PROVE h[i] = IF i = 0 THEN x.m ELSE round(h[i - 1], i)
    BY <1>8
  <2>2. 0 \in 0 .. L /\ \A i \in 1 .. L : i \in 0 .. L /\ i # 0
    BY <1>1
  <2> QED
    BY <2>1, <2>2
<1>10. \A i \in 1 .. L : h[i - 1] \in A => h[i] \in A
  BY <1>3, <1>9
<1>11. \A i \in 0 .. L : h[i] \in A
  BY <1>1, <1>5, <1>9, <1>10, LoopStaysInSet
<1>12. h[L] \in A
  BY <1>1, <1>11
<1>13. SetStacks(x, keys) = [p |-> x.p, m |-> h[L]]
  BY <1>2
<1> QED
  BY <1>12, <1>13 DEF A

-----------------------------------------------------------------------------
(* Events that are consumed.                                               *)

Trims(s, r, id, N, V, z) == [p : Fitting(s, r, id, N, V, z), m : Copies(s, z)]

\* GPUProcessor::remove, of an event that is in the stack or not.
LEMMA RemoveEventKeeps ==
  ASSUME NEW s \in Setups, NEW r, SoundRule(r), NEW id \in Ids, NEW N \in Nat, NEW V,
         NEW z \in Memories(s), Good(s, z), NEW x \in Trims(s, r, id, N, V, z),
         NEW pk, NEW ev, NEW n, Stack(n) \in Keys(r)
  PROVE  RemoveEvent(x, pk, ev, n) \in Trims(s, r, id, N, V, z)
<1> DEFINE key == Stack(n)
           at == {i \in x.p.low[key] .. x.p.high[key] - 1 :
                    CompareEvt(EventAt(pk, GetEvent(x.m, x.p.id, key, i)), ev,
                               Len(pk[x.p.samples[key]].attrs))}
           idx == Min(at)
           cleaned == CleanEventStack(x.m, x.p.id, key, idx, x.p.high[key])
           y == RemoveEvent(x, pk, ev, n)
<1>1. /\ x.p \in Procs(s, r, id, N, V) /\ Fits(s, x.p, z) /\ x.m \in Copies(s, z)
      /\ x = [p |-> x.p, m |-> x.m]
  BY DEF Trims, Fitting
<1>2. /\ x.p.rule = r /\ x.p.id = id /\ x.p.low[key] \in Places(s) /\ x.p.high[key] \in Places(s)
  BY <1>1 DEF Procs
<1>3. y = IF at = {} THEN x
          ELSE [p |-> [x.p EXCEPT !.high[key] = cleaned.high], m |-> cleaned.m]
  BY DEF RemoveEvent
<1>4. at \subseteq x.p.low[key] .. x.p.high[key] - 1
  OBVIOUS
<1> HIDE DEF y, at
<1>5. CASE at = {}
  BY <1>3, <1>5 DEF y
<1>6. CASE at # {}
  <2>1. Places(s) \subseteq Nat /\ Places(s) = 0 .. s.alloc - 1 /\ s.alloc \in Nat
    BY SetupFacts DEF Places
  <2>2. x.p.low[key] .. x.p.high[key] - 1 \subseteq Nat
    BY <1>2, <2>1
  <2>3. idx \in x.p.low[key] .. x.p.high[key] - 1
    <3>1. at \subseteq Nat
      BY <1>4, <2>2
    <3> QED
      BY <1>4, <1>6, <3>1, MinLeast
  <2> HIDE DEF idx
  <2>4. /\ idx \in Nat /\ idx < x.p.high[key] /\ x.p.low[key] <= x.p.high[key] - 1
        /\ x.p.high[key] - 1 \in Places(s)
    BY <1>2, <2>1, <2>3, SMTT(60)
  <2>5. StackFits(s, Len(PagesOf(z, id, key)), x.p.low[key], x.p.high[key], x.p.ts[key])
    BY <1>1, <1>2 DEF Fits
  <2>6. cleaned.m \in Copies(s, z) /\ cleaned.high = x.p.high[key] - 1
    <3>1. x.p.high[key] <= Len(PagesOf(z, id, key)) * s.page
      BY <2>5 DEF StackFits
    <3> QED
      BY <1>1, <1>2, <2>1, <2>4, <3>1, CleanEventStackKeeps
  <2> HIDE DEF cleaned
  <2> DEFINE high == [x.p.high EXCEPT ![key] = x.p.high[key] - 1]
             p == [x.p EXCEPT !.high = high]
  <2>7. high \in [Keys(r) -> Places(s)]
    BY <1>1, <2>4 DEF Procs
  <2>8. y = [p |-> p, m |-> cleaned.m]
    <3>1. [x.p EXCEPT !.high[key] = cleaned.high] = p
      BY <1>1, <2>6 DEF Procs
    <3> QED
      BY <1>3, <1>6, <3>1
  <2> HIDE DEF high
  <2>9. /\ p \in Procs(s, r, id, N, V) /\ p.rule = r /\ p.id = id /\ p.high = high
        /\ p.ts = x.p.ts /\ p.low = x.p.low
    BY <1>1, <2>7 DEF Procs
  <2> HIDE DEF p
  <2>10. ASSUME NEW k \in Keys(r)
         PROVE  StackFits(s, Len(PagesOf(z, id, k)), p.low[k], p.high[k], p.ts[k])
    <3>1. CASE k = key
      <4>1. p.high[k] = x.p.high[key] - 1 /\ p.low[k] = x.p.low[key] /\ p.ts[k] = x.p.ts[key]
        BY <1>1, <2>9, <3>1 DEF high, Procs
      <4>2. x.p.high[key] \in Nat /\ x.p.low[key] \in Nat
        BY <1>2, <2>1
      <4>3. Len(PagesOf(z, id, key)) * s.page \in Nat
        <5>1. PagesOf(z, id, key) \in Seq(Chunks(s)) /\ s.page \in Nat
          BY MemoryFacts, SetupFacts
        <5> QED
          BY <5>1
      <4> QED
        BY <2>4, <2>5, <3>1, <4>1, <4>2, <4>3 DEF StackFits
    <3>2. CASE k # key
      <4>1. p.high[k] = x.p.high[k]
        BY <1>1, <2>9, <3>2 DEF high, Procs
      <4> QED
        BY <1>1, <1>2, <2>9, <4>1 DEF Fits
    <3> QED
      BY <3>1, <3>2
  <2>11. Fits(s, p, z)
    BY <2>9, <2>10 DEF Fits
  <2>12. p \in Fitting(s, r, id, N, V, z)
    BY <2>9, <2>11 DEF Fitting
  <2>13. y \in Trims(s, r, id, N, V, z)
    BY <2>6, <2>8, <2>12 DEF Trims
  <2> QED
    BY <2>13 DEF y
<1> QED
  BY <1>5, <1>6

\* The loop of deleteConsumed over the results, for one state.
LEMMA RemoveFromKeeps ==
  ASSUME NEW s \in Setups, NEW r, SoundRule(r), NEW id \in Ids, NEW N \in Nat, NEW V,
         NEW z \in Memories(s), Good(s, z), NEW x \in Trims(s, r, id, N, V, z),
         NEW pk, NEW sets, Len(sets) \in Nat, NEW n, Stack(n) \in Keys(r)
  PROVE  RemoveFrom(x, pk, sets, n) \in Trims(s, r, id, N, V, z)
<1> DEFINE L == Len(sets)
           round(y, i) == RemoveEvent(y, pk, EventAt(pk, sets[i][n]), n)
           A == Trims(s, r, id, N, V, z)
           F == [i \in 1 .. L |-> [y \in A |-> round(y, i)]]
           Eq(g) == g = [i \in 0 .. L |-> IF i = 0 THEN x ELSE round(g[i - 1], i)]
           h == CHOOSE g : Eq(g)
<1>1. L \in Nat
  OBVIOUS
<1>2. RemoveFrom(x, pk, sets, n) = h[L]
  BY DEF RemoveFrom
<1> HIDE DEF L
<1>3. ASSUME NEW i \in 1 .. L, NEW y \in A PROVE round(y, i) \in A
  BY RemoveEventKeeps
<1> HIDE DEF round, A
<1>4. \A i \in 1 .. L : \A y \in A : F[i][y] = round(y, i) /\ F[i][y] \in A
  BY <1>3
<1> HIDE DEF F
<1>5. x \in A
  BY DEF A
<1>6. PICK g : Loop(g, F, L, [i \in 0 .. L |-> A], x)
  BY <1>1, <1>4, <1>5, LoopInSet
<1>7. Eq(g)
  <2>1. \A i \in 0 .. L : g[i] \in A
    BY <1>6 DEF Loop
  <2>2. ASSUME NEW i \in 1 .. L PROVE g[i] = round(g[i - 1], i)
    <3>1. i - 1 \in 0 .. L
      BY <1>1
    <3> QED
      BY <1>4, <1>6, <2>1, <3>1 DEF Loop
  <2>3. g = [i \in 0 .. L |-> g[i]] /\ g[0] = x
    BY <1>6 DEF Loop
  <2>4. ASSUME NEW i \in 0 .. L PROVE g[i] = IF i = 0 THEN x ELSE round(g[i - 1], i)
    <3>1. i # 0 => i \in 1 .. L
      BY <1>1
    <3> QED
      BY <2>2, <2>3, <3>1
  <2> QED
    BY <2>3, <2>4
<1>8. Eq(h)
  BY <1>7
<1> HIDE DEF h
<1>9. h[0] = x /\ \A i \in 1 .. L : h[i] = round(h[i - 1], i)
  <2>1. ASSUME NEW i \in 0 .. L PROVE h[i] = IF i = 0 THEN x ELSE round(h[i - 1], i)
    BY <1>8
  <2>2. 0 \in 0 .. L /\ \A i \in 1 .. L : i \in 0 .. L /\ i # 0
    BY <1>1
  <2> QED
    BY <2>1, <2>2
<1>10. \A i \in 1 .. L : h[i - 1] \in A => h[i] \in A
  BY <1>3, <1>9
<1>11. \A i \in 0 .. L : h[i] \in A
  BY <1>1, <1>5, <1>9, <1>10, LoopStaysInSet
<1> QED
  BY <1>1, <1>2, <1>11 DEF A

\* The loop of deleteConsumed over the states.
LEMMA DeleteConsumedKeeps ==
  ASSUME NEW s \in Setups, NEW r, SoundRule(r), NEW id \in Ids, NEW N \in Nat, NEW V,
         NEW z \in Memories(s), Good(s, z), NEW x \in Trims(s, r, id, N, V, z),
         NEW pk, NEW sets, Len(sets) \in Nat
  PROVE  DeleteConsumed(x, pk, sets) \in Trims(s, r, id, N, V, z)
<1> DEFINE L == x.p.n
           round(y, i) == IF x.p.n - i \in x.p.rule.consuming THEN RemoveFrom(y, pk, sets, i - 1)
                          ELSE y
           A == Trims(s, r, id, N, V, z)
           F == [i \in 1 .. L |-> [y \in A |-> round(y, i)]]
           Eq(g) == g = [i \in 0 .. L |-> IF i = 0 THEN x ELSE round(g[i - 1], i)]
           h == CHOOSE g : Eq(g)
<1>1. L \in Nat /\ L = SequenceLen(r)
  BY KeyFacts DEF Trims, Fitting, Procs
<1>2. DeleteConsumed(x, pk, sets) = h[L]
  BY DEF DeleteConsumed
<1>3. ASSUME NEW i \in 1 .. L, NEW y \in A PROVE round(y, i) \in A
  <2>1. Stack(i - 1) \in Keys(r)
    <3>1. CASE i = L
      BY <1>1, <3>1 DEF Keys
    <3>2. CASE i # L
      <4>1. i \in 1 .. SequenceLen(r) - 1
        BY <1>1, <3>2
      <4>2. i \in DOMAIN StateKeys(r) /\ StateKeys(r)[i] = Stack(i - 1)
        BY <4>1 DEF StateKeys
      <4> QED
        BY <4>2 DEF Keys, KeySet, Range
    <3> QED
      BY <3>1, <3>2
  <2>2. RemoveFrom(y, pk, sets, i - 1) \in A
    BY <2>1, RemoveFromKeeps
  <2> QED
    BY <2>2
<1> HIDE DEF round, A, L
<1>4. \A i \in 1 .. L : \A y \in A : F[i][y] = round(y, i) /\ F[i][y] \in A
  BY <1>3
<1> HIDE DEF F
<1>5. x \in A
  BY DEF A
<1>6. PICK g : Loop(g, F, L, [i \in 0 .. L |-> A], x)
  BY <1>1, <1>4, <1>5, LoopInSet
<1>7. Eq(g)
  <2>1. \A i \in 0 .. L : g[i] \in A
    BY <1>6 DEF Loop
  <2>2. ASSUME NEW i \in 1 .. L PROVE g[i] = round(g[i - 1], i)
    <3>1. i - 1 \in 0 .. L
      BY <1>1
    <3> QED
      BY <1>4, <1>6, <2>1, <3>1 DEF Loop
  <2>3. g = [i \in 0 .. L |-> g[i]] /\ g[0] = x
    BY <1>6 DEF Loop
  <2>4. ASSUME NEW i \in 0 .. L PROVE g[i] = IF i = 0 THEN x ELSE round(g[i - 1], i)
    <3>1. i # 0 => i \in 1 .. L
      BY <1>1
    <3> QED
      BY <2>2, <2>3, <3>1
  <2> QED
    BY <2>3, <2>4
<1>8. Eq(h)
  BY <1>7
<1> HIDE DEF h
<1>9. h[0] = x /\ \A i \in 1 .. L : h[i] = round(h[i - 1], i)
  <2>1. ASSUME NEW i \in 0 .. L PROVE h[i] = IF i = 0 THEN x ELSE round(h[i - 1], i)
    BY <1>8
  <2>2. 0 \in 0 .. L /\ \A i \in 1 .. L : i \in 0 .. L /\ i # 0
    BY <1>1
  <2> QED
    BY <2>1, <2>2
<1>10. \A i \in 1 .. L : h[i - 1] \in A => h[i] \in A
  BY <1>3, <1>9
<1>11. \A i \in 0 .. L : h[i] \in A
  BY <1>1, <1>5, <1>9, <1>10, LoopStaysInSet
<1> QED
  BY <1>1, <1>2, <1>11 DEF A

-----------------------------------------------------------------------------
(* The results of the kernels: sequences of partial results, in which the   *)
(* terminator is packet k.                                                 *)

\* The positions of a stack that a kernel can name, and the cells it can read there.
Spots == Nat \cup {Max(a) : a \in SUBSET Nat} \cup {Min(a) : a \in SUBSET Nat}
Cells(x, k) == {0, k} \cup {StackCell(x, Stack(n), i) : n \in Nat, i \in Spots}

Partial(x, k, n) ==
  {f \in [n .. x.p.n - 1 -> Cells(x, k)] : f[x.p.n - 1] \in {0, k}}

\* A partial result with one more event is a partial result for the next state.
LEMMA ExtendedFacts ==
  ASSUME NEW x, x.p.n \in Nat \ {0}, NEW k, NEW n \in 0 .. x.p.n - 2,
         NEW set \in Partial(x, k, n + 1), NEW i \in Spots
  PROVE  Extended(x, set, n, i) \in Partial(x, k, n)
<1> DEFINE f == Extended(x, set, n, i)
<1>1. f = [q \in n .. x.p.n - 1 |-> IF q = n THEN StackCell(x, Stack(n), i) ELSE set[q]]
  BY DEF Extended
<1>2. set \in [n + 1 .. x.p.n - 1 -> Cells(x, k)] /\ set[x.p.n - 1] \in {0, k}
  BY DEF Partial
<1>3. StackCell(x, Stack(n), i) \in Cells(x, k)
  BY DEF Cells
<1>4. ASSUME NEW q \in n .. x.p.n - 1 PROVE f[q] \in Cells(x, k)
  <2>1. q # n => q \in n + 1 .. x.p.n - 1
    OBVIOUS
  <2> QED
    BY <1>1, <1>2, <1>3, <2>1
<1>5. x.p.n - 1 \in n .. x.p.n - 1 /\ x.p.n - 1 # n
  OBVIOUS
<1>6. f[x.p.n - 1] \in {0, k}
  BY <1>1, <1>2, <1>5
<1>7. f \in [n .. x.p.n - 1 -> Cells(x, k)]
  <2>1. f = [q \in n .. x.p.n - 1 |-> f[q]]
    BY <1>1
  <2> HIDE DEF f
  <2> QED
    BY <1>4, <2>1
<1> QED
  BY <1>6, <1>7 DEF Partial

\* So is the one that FIRST or LAST keeps, also when there is no candidate.
LEMMA ChosenFacts ==
  ASSUME NEW x, x.p.n \in Nat \ {0}, NEW k, NEW n \in 0 .. x.p.n - 2,
         NEW set \in Partial(x, k, n + 1), NEW at \in SUBSET Nat
  PROVE  Chosen(x, set, n, at) \in Partial(x, k, n)
<1>1. Max(at) \in Spots /\ Min(at) \in Spots
  BY DEF Spots
<1>2. /\ Extended(x, set, n, Max(at)) \in Partial(x, k, n)
      /\ Extended(x, set, n, Min(at)) \in Partial(x, k, n)
  BY <1>1, ExtendedFacts
<1>3. [q \in n .. x.p.n - 1 |-> 0] \in Partial(x, k, n)
  <2>1. x.p.n - 1 \in n .. x.p.n - 1 /\ 0 \in Cells(x, k)
    BY DEF Cells
  <2> QED
    BY <2>1 DEF Partial
<1> QED
  BY <1>2, <1>3 DEF Chosen

\* The partial results of one state from those of the next.
LEMMA ComputeStateFacts ==
  ASSUME NEW x, x.p.n \in Nat \ {0}, NEW pk, NEW k, NEW n \in 0 .. x.p.n - 2,
         Size(x, Stack(n)) \in Nat, NEW prev \in Seq(Partial(x, k, n + 1)), NEW negs, NEW undef
  PROVE  ComputeState(x, pk, n, prev, negs, undef) \in Seq(Partial(x, k, n))
<1> DEFINE P == Partial(x, k, n)
           l == Size(x, Stack(n))
<1>1. Len(prev) \in Nat /\ DOMAIN prev = 1 .. Len(prev)
      /\ \A j \in 1 .. Len(prev) : prev[j] \in Partial(x, k, n + 1)
  OBVIOUS
<1>2. ASSUME NEW set, NEW ns PROVE Accepted(x, pk, set, n, ns, undef) \in SUBSET Nat
  BY DEF Accepted
<1>3. ASSUME NEW ns PROVE ChosenSets(x, pk, prev, n, ns, undef) \in Seq(P)
  <2>1. \A j \in 1 .. Len(prev) :
          Chosen(x, prev[j], n, Accepted(x, pk, prev[j], n, ns, undef)) \in P
    BY <1>1, <1>2, ChosenFacts
  <2> QED
    BY <1>1, <2>1 DEF ChosenSets
<1>4. ASSUME NEW sets \in Seq(P)
      PROVE  /\ WithState(pk, sets, n) \in Seq(P)
             /\ SubSeq(sets, 1, Len(WithState(pk, sets, n))) \in Seq(P)
  <2> DEFINE w == WithState(pk, sets, n)
  <2>1. w \in Seq(P) /\ Len(w) <= Len(sets)
    BY PickedFacts DEF WithState
  <2> HIDE DEF w
  <2>2. Len(w) \in Nat /\ Len(sets) \in Nat
    BY <2>1
  <2>3. SubSeq(sets, 1, Len(w)) \in Seq(P)
    BY <2>1, <2>2, SubSeqProperties
  <2> QED
    BY <2>1, <2>3 DEF w
<1>5. ComputeSingle(x, pk, prev, n, undef) \in Seq(P)
  BY <1>3, <1>4 DEF ComputeSingle
<1>6. ComputeSingleNeg(x, pk, prev, n, negs, undef) \in Seq(P)
  BY <1>3, <1>4 DEF ComputeSingleNeg
<1>7. ComputeMultiple(x, pk, prev, n, negs, undef) \in Seq(P)
  <2> DEFINE all(set) == [i \in 1 .. Size(x, Stack(n)) |-> Extended(x, set, n, i - 1)]
             pick(j) == Picked(all(prev[j]),
                               {i + 1 : i \in Accepted(x, pk, prev[j], n, negs, undef)})
             q == [j \in DOMAIN prev |-> pick(j)]
  <2>1. ASSUME NEW j \in 1 .. Len(prev) PROVE pick(j) \in Seq(P)
    <3>1. ASSUME NEW i \in 1 .. Size(x, Stack(n)) PROVE Extended(x, prev[j], n, i - 1) \in P
      <4>1. i - 1 \in Spots
        BY DEF Spots
      <4> QED
        BY <1>1, <4>1, ExtendedFacts
    <3>2. all(prev[j]) \in Seq(P)
      BY <3>1
    <3> HIDE DEF all
    <3> QED
      BY <3>2, PickedFacts
  <2>2. ComputeMultiple(x, pk, prev, n, negs, undef) = FlattenSeq(q)
    BY DEF ComputeMultiple
  <2> HIDE DEF pick
  <2>3. q \in Seq(Seq(P))
    BY <1>1, <2>1
  <2> QED
    BY <2>2, <2>3, FlattenFacts
<1>8. <<>> \in Seq(P)
  OBVIOUS
<1> QED
  BY <1>5, <1>6, <1>7, <1>8 DEF ComputeState

Levels(x, k, i) == [sets : Seq(Partial(x, k, x.p.n - 1 - i)), exited : BOOLEAN]

\* One level more.
LEMMA ComputeNextFacts ==
  ASSUME NEW x, x.p.n \in Nat \ {0}, NEW pk, NEW k, NEW undef, NEW i \in 1 .. x.p.n - 1,
         NEW y \in Levels(x, k, i - 1), Size(x, Stack(x.p.n - 1 - i)) \in Nat
  PROVE  ComputeNext(x, pk, x.p.n - 1 - i, y, undef) \in Levels(x, k, i)
<1> DEFINE n == x.p.n - 1 - i
           sets == ComputeState(x, pk, n, y.sets, NegationsAt(x.p, n), undef)
           out == y.exited \/ Len(sets) > MAX_GEN
<1>1. n \in 0 .. x.p.n - 2 /\ x.p.n - 1 - (i - 1) = n + 1
  OBVIOUS
<1>2. y.sets \in Seq(Partial(x, k, n + 1))
  BY <1>1 DEF Levels
<1>3. ComputeNext(x, pk, n, y, undef) = [sets |-> sets, exited |-> out]
  BY DEF ComputeNext
<1> HIDE DEF n
<1>4. sets \in Seq(Partial(x, k, n))
  <2>1. Size(x, Stack(n)) \in Nat
    BY DEF n
  <2> QED
    BY <1>1, <1>2, <2>1, ComputeStateFacts
<1> HIDE DEF sets
<1>5. out \in BOOLEAN
  OBVIOUS
<1> HIDE DEF out
<1> QED
  BY <1>3, <1>4, <1>5 DEF Levels, n

\* The results of a search.
LEMMA ComputeFacts ==
  ASSUME NEW x, x.p.n \in Nat \ {0}, NEW pk, NEW k, NEW undef,
         \A n \in 0 .. x.p.n - 2 : Size(x, Stack(n)) \in Nat
  PROVE  Compute(x, pk, k, undef).sets \in Seq(Partial(x, k, 0))
<1> DEFINE L == x.p.n - 1
           b == [sets |-> <<[q \in {x.p.n - 1} |-> k]>>, exited |-> FALSE]
           round(y, i) == ComputeNext(x, pk, x.p.n - 1 - i, y, undef)
           S == [i \in 0 .. L |-> Levels(x, k, i)]
           F == [i \in 1 .. L |-> [y \in S[i - 1] |-> round(y, i)]]
           Eq(g) == g = [i \in 0 .. x.p.n - 1 |-> IF i = 0 THEN b ELSE round(g[i - 1], i)]
           h == CHOOSE g : Eq(g)
<1>1. L \in Nat
  OBVIOUS
<1>2. Compute(x, pk, k, undef) = h[x.p.n - 1]
  BY DEF Compute
<1>3. ASSUME NEW i \in 1 .. L, NEW y \in Levels(x, k, i - 1) PROVE round(y, i) \in Levels(x, k, i)
  <2>1. Size(x, Stack(x.p.n - 1 - i)) \in Nat
    BY <1>1
  <2> QED
    BY <2>1, ComputeNextFacts
<1>4. S[0] = Levels(x, k, 0) /\ \A i \in 1 .. L : S[i] = Levels(x, k, i) /\ S[i - 1] = Levels(x, k, i - 1)
  <2>1. \A i \in 1 .. L : i - 1 \in 0 .. L /\ i \in 0 .. L
    BY <1>1
  <2> QED
    BY <1>1, <2>1
<1>5. b \in S[0]
  <2>1. [q \in {x.p.n - 1} |-> k] \in Partial(x, k, x.p.n - 1 - 0)
    <3>1. {x.p.n - 1} = x.p.n - 1 - 0 .. x.p.n - 1
      OBVIOUS
    <3>2. k \in Cells(x, k)
      BY DEF Cells
    <3> QED
      BY <3>1, <3>2 DEF Partial
  <2>2. <<[q \in {x.p.n - 1} |-> k]>> \in Seq(Partial(x, k, x.p.n - 1 - 0))
    BY <2>1
  <2> QED
    BY <1>4, <2>2 DEF Levels
<1> HIDE DEF round, b
<1>6. \A i \in 1 .. L : \A y \in S[i - 1] : F[i][y] = round(y, i) /\ F[i][y] \in S[i]
  <2> SUFFICES ASSUME NEW i \in 1 .. L, NEW y \in S[i - 1]
               PROVE  F[i][y] = round(y, i) /\ F[i][y] \in S[i]
    OBVIOUS
  <2> HIDE DEF S
  <2>1. F[i][y] = round(y, i)
    OBVIOUS
  <2> QED
    BY <1>3, <1>4, <2>1
<1> HIDE DEF F, S, L
<1>7. Body(F, L, S)
  BY <1>6 DEF Body
<1>8. PICK g : Loop(g, F, L, S, b)
  BY <1>1, <1>5, <1>7, LoopExists
<1>9. Eq(g)
  <2>2. ASSUME NEW i \in 1 .. L PROVE g[i] = round(g[i - 1], i)
    <3>1. i - 1 \in 0 .. L
      BY <1>1
    <3>2. g[i - 1] \in S[i - 1]
      BY <1>8, <3>1 DEF Loop
    <3> QED
      BY <1>6, <1>8, <3>2 DEF Loop
  <2>3. g = [i \in 0 .. L |-> g[i]] /\ g[0] = b
    BY <1>8 DEF Loop
  <2>4. ASSUME NEW i \in 0 .. L PROVE g[i] = IF i = 0 THEN b ELSE round(g[i - 1], i)
    <3>1. i # 0 => i \in 1 .. L
      BY <1>1
    <3> QED
      BY <2>2, <2>3, <3>1
  <2> QED
    BY <2>3, <2>4 DEF L
<1>10. Eq(h)
  BY <1>9
<1> HIDE DEF h
<1>11. h[0] = b /\ \A i \in 1 .. L : h[i] = round(h[i - 1], i)
  <2>1. ASSUME NEW i \in 0 .. L PROVE h[i] = IF i = 0 THEN b ELSE round(h[i - 1], i)
    BY <1>10 DEF L
  <2>2. 0 \in 0 .. L /\ \A i \in 1 .. L : i \in 0 .. L /\ i # 0
    BY <1>1
  <2> QED
    BY <2>1, <2>2
<1>12. \A i \in 1 .. L : h[i - 1] \in S[i - 1] => h[i] \in S[i]
  BY <1>3, <1>4, <1>11
<1>13. \A i \in 0 .. L : h[i] \in S[i]
  BY <1>1, <1>5, <1>11, <1>12, LoopStays
<1>14. h[L] \in Levels(x, k, L)
  <2>1. L = 0 \/ L \in 1 .. L
    BY <1>1
  <2> QED
    BY <1>1, <1>4, <1>13, <2>1
<1> QED
  <2>1. x.p.n - 1 - L = 0
    BY DEF L
  <2> QED
    BY <1>2, <1>14, <2>1 DEF Levels, L

-----------------------------------------------------------------------------
(* One packet on one processor.                                            *)

\* The parameters are set: nothing else of the processor changes but a sample.
LEMMA SetUpKeeps ==
  ASSUME NEW s \in Setups, NEW r, SoundRule(r), NEW id \in Ids, NEW N \in Nat, NEW V,
         NEW z, NEW p \in Fitting(s, r, id, N, V, z), NEW pk, NEW k \in 0 .. N
  PROVE  \E W : SetUp(p, pk, k) \in Fitting(s, r, id, N, W, z)
<1> DEFINE key == Stack(p.n - 1)
           samples == [p.samples EXCEPT ![key] = k]
           q == [p EXCEPT !.samples[key] = k]
           e == Equipped(q, SetParameters(q, pk), SetAggregatesParameters(q, pk),
                         SetNegationsParameters(q, pk))
<1>1. p \in Procs(s, r, id, N, V) /\ Fits(s, p, z)
  BY DEF Fitting
<1>2. SetUp(p, pk, k) = IF ~ p.first THEN p ELSE e
  BY DEF SetUp
<1>3. q = [p EXCEPT !.samples = samples] /\ key \in Keys(r)
  BY <1>1 DEF Procs, Keys
<1>4. samples \in [Keys(r) -> 0 .. N]
  BY <1>1, <1>3 DEF Procs
<1> HIDE DEF samples
<1>5. /\ q \in Procs(s, r, id, N, V) /\ q.rule = p.rule /\ q.id = p.id /\ q.low = p.low
      /\ q.high = p.high /\ q.ts = p.ts
  BY <1>1, <1>3, <1>4 DEF Procs
<1> HIDE DEF q, key
<1>6. e = [q EXCEPT !.pars = e.pars, !.first = e.first]
  BY <1>5, ZenonT(60) DEF Equipped, Procs
<1> DEFINE W == {e.pars, e.first, q.since}
<1> HIDE DEF e
<1>7. /\ e \in Procs(s, r, id, N, W) /\ e.rule = q.rule /\ e.id = q.id /\ e.low = q.low
      /\ e.high = q.high /\ e.ts = q.ts
  <2> DEFINE a == e.pars
             b == e.first
             y == [q EXCEPT !.pars = a, !.first = b]
  <2>1. a \in W /\ b \in W /\ q.since \in W
    OBVIOUS
  <2>2. e = y
    BY <1>6
  <2> HIDE DEF a, b, W
  <2>3. /\ y \in Procs(s, r, id, N, W) /\ y.rule = q.rule /\ y.id = q.id /\ y.low = q.low
        /\ y.high = q.high /\ y.ts = q.ts
    BY <1>5, <2>1 DEF Procs
  <2> QED
    BY <2>2, <2>3
<1>8. Fits(s, e, z)
  BY <1>1, <1>5, <1>7 DEF Fits
<1>9. e \in Fitting(s, r, id, N, W, z)
  BY <1>7, <1>8 DEF Fitting
<1> QED
  BY <1>2, <1>9

\* A processor that fits the memory fits what the copies make of it.
LEMMA TrimsFacts ==
  ASSUME NEW s \in Setups, NEW r, NEW id \in Ids, NEW N \in Nat, NEW V,
         NEW z \in Memories(s), Good(s, z), NEW t \in Trims(s, r, id, N, V, z)
  PROVE  /\ t = [p |-> t.p, m |-> t.m] /\ t.p \in Procs(s, r, id, N, V) /\ t.m \in Memories(s)
         /\ Good(s, t.m) /\ Fits(s, t.p, t.m) /\ t.m.table = z.table
         /\ t.m.live = z.live /\ t.m.exited = z.exited /\ t.m \in Copies(s, z)
         /\ t.p \in Fitting(s, r, id, N, V, z)
<1>1. /\ t.p \in Fitting(s, r, id, N, V, z) /\ t.m \in Copies(s, z) /\ t = [p |-> t.p, m |-> t.m]
  BY DEF Trims
<1>2. t.p \in Procs(s, r, id, N, V) /\ Fits(s, t.p, z)
  BY <1>1 DEF Fitting
<1>3. /\ t.m \in Memories(s) /\ Good(s, t.m) /\ t.m.table = z.table /\ t.m.live = z.live
      /\ t.m.exited = z.exited /\ \A i, k : PagesOf(t.m, i, k) = PagesOf(z, i, k)
  BY <1>1, CopiesFacts
<1>4. Fits(s, t.p, t.m)
  BY <1>2, <1>3 DEF Fits
<1> QED
  BY <1>1, <1>2, <1>3, <1>4

\* The stacks before a search.
LEMMA PreparedKeeps ==
  ASSUME NEW s \in Setups, NEW r, SoundRule(r), NEW id \in Ids, NEW N \in Nat, NEW V,
         NEW z \in Memories(s), Good(s, z), NEW x \in Trims(s, r, id, N, V, z),
         NEW pk, NEW k \in 1 .. N, pk[k].ts \in Nat
  PROVE  \E W : Prepared(x, pk, k) \in Trims(s, r, id, N, W, z)
<1> DEFINE p == DeleteExpiredEvents(x.p, x.m.alloc, pk[k].ts)
           y == [p |-> p, m |-> x.m]
           keys == StateKeys(x.p.rule) \o NegKeys(x.p.rule)
           m1 == SetStacks(y, keys).m
<1>1. /\ x = [p |-> x.p, m |-> x.m] /\ x.p \in Procs(s, r, id, N, V) /\ x.m \in Memories(s)
      /\ x.m \in Copies(s, z) /\ x.p \in Fitting(s, r, id, N, V, z)
  BY TrimsFacts
<1>2. x.m.alloc = s.alloc /\ x.p.rule = r
  BY <1>1 DEF Memories, Procs
<1>3. p \in Fitting(s, r, id, N, V, z)
  BY <1>1, <1>2, DeleteExpiredEventsKeeps
<1>4. [x EXCEPT !.p = DeleteExpiredEvents(@, x.m.alloc, pk[k].ts)] = y
  BY <1>1
<1>5. Prepared(x, pk, k) = [SetStacks(y, keys) EXCEPT !.p = SetUp(@, pk, k)]
  BY <1>4 DEF Prepared
<1>6. keys \in Seq(Keys(r))
  <2>1. StateKeys(r) \in Seq(Keys(r)) /\ NegKeys(r) \in Seq(Keys(r))
    BY KindFacts
  <2> QED
    BY <1>2, <2>1
<1> HIDE DEF p, keys
<1>7. SetStacks(y, keys) = [p |-> p, m |-> m1] /\ m1 \in Copies(s, z)
  <2>1. /\ y.p \in Procs(s, r, id, N, V) /\ y.m \in Copies(s, z) /\ y = [p |-> y.p, m |-> y.m]
        /\ y.p = p
    BY <1>1, <1>3 DEF Fitting
  <2> HIDE DEF y
  <2> QED
    BY <1>6, <2>1, SetStacksKeeps
<1> HIDE DEF m1
<1>8. Prepared(x, pk, k) = [p |-> SetUp(p, pk, k), m |-> m1]
  BY <1>5, <1>7
<1>9. PICK W : SetUp(p, pk, k) \in Fitting(s, r, id, N, W, z)
  <2>1. k \in 0 .. N
    OBVIOUS
  <2> QED
    BY <1>3, <2>1, SetUpKeeps
<1>10. Prepared(x, pk, k) \in Trims(s, r, id, N, W, z)
  BY <1>7, <1>8, <1>9 DEF Trims
<1> QED
  BY <1>10

\* Composite events in a sequence, with the times they get.
MadeOK(q) == q \in Seq(Range(q)) /\ \A i \in DOMAIN q : q[i].ce.ts \in Nat

\* The results of a search become composite events at the time of the terminator, or
\* at time 0 for a zeroed result.
LEMMA GeneratedKeeps ==
  ASSUME NEW s \in Setups, NEW r, SoundRule(r), NEW id \in Ids, NEW N \in Nat, NEW V,
         NEW z \in Memories(s), Good(s, z), NEW x \in Trims(s, r, id, N, V, z),
         NEW pk, NEW k \in 1 .. N, pk[k].ts \in Nat, NEW undef,
         NEW y, y = ComputeAndGenerate(x, pk, k, undef)
  PROVE  y.x \in Trims(s, r, id, N, V, z) /\ MadeOK(y.made)
<1> DEFINE c == Compute(x, pk, k, undef)
           x1 == SetStacks(x, AggKeys(x.p.rule))
<1>1. /\ x = [p |-> x.p, m |-> x.m] /\ x.p \in Procs(s, r, id, N, V) /\ x.m \in Memories(s)
      /\ x.m \in Copies(s, z) /\ x.p \in Fitting(s, r, id, N, V, z)
  BY TrimsFacts
<1>2. /\ x.m.alloc = s.alloc /\ x.p.rule = r /\ x.p.n = SequenceLen(r) /\ x.p.n \in Nat \ {0}
      /\ s.alloc \in Nat \ {0}
  BY <1>1, KeyFacts, SetupFacts DEF Memories, Procs
<1>3. ASSUME NEW n \in 0 .. x.p.n - 2 PROVE Size(x, Stack(n)) \in Nat
  <2>1. n + 1 \in 1 .. SequenceLen(r) - 1 /\ (n + 1) - 1 = n
    BY <1>2
  <2>2. n + 1 \in DOMAIN StateKeys(r) /\ StateKeys(r)[n + 1] = Stack(n)
    BY <2>1 DEF StateKeys
  <2>3. Stack(n) \in Keys(r)
    BY <2>2 DEF Keys, KeySet, Range
  <2>4. x.p.high[Stack(n)] \in Places(s) /\ x.p.low[Stack(n)] \in Places(s)
    BY <1>1, <2>3 DEF Procs
  <2>5. x.p.high[Stack(n)] - x.p.low[Stack(n)] \in Int
    BY <1>2, <2>4 DEF Places
  <2>6. (x.p.high[Stack(n)] - x.p.low[Stack(n)]) % s.alloc \in 0 .. s.alloc - 1
    BY <1>2, <2>5, DivMod
  <2> QED
    BY <1>2, <2>6 DEF Size
<1>4. c.sets \in Seq(Partial(x, k, 0))
  BY <1>2, <1>3, ComputeFacts
<1>5. y = GetGeneratedEvents(x, pk, c, undef)
  BY DEF ComputeAndGenerate
<1> HIDE DEF c
<1>6. /\ y.x = IF c.sets = <<>> THEN x ELSE DeleteConsumed(x1, pk, c.sets)
      /\ y.made = [i \in DOMAIN c.sets |->
                     [pe |-> c.sets[i], ce |-> GenerateEvent(x1, pk, c.sets[i], undef)]]
  BY <1>5 DEF GetGeneratedEvents
<1>7. x1 \in Trims(s, r, id, N, V, z) /\ x1.p = x.p
  <2>1. AggKeys(r) \in Seq(Keys(r))
    BY KindFacts
  <2>2. x1 = [p |-> x.p, m |-> x1.m] /\ x1.m \in Copies(s, z)
    BY <1>1, <1>2, <2>1, SetStacksKeeps
  <2> HIDE DEF x1
  <2> QED
    BY <1>1, <2>2 DEF Trims
<1> HIDE DEF x1
<1>8. Len(c.sets) \in Nat /\ DOMAIN c.sets = 1 .. Len(c.sets)
  BY <1>4
<1>9. y.x \in Trims(s, r, id, N, V, z)
  <2>1. DeleteConsumed(x1, pk, c.sets) \in Trims(s, r, id, N, V, z)
    BY <1>7, <1>8, DeleteConsumedKeeps
  <2> QED
    BY <1>6, <2>1
<1>10. ASSUME NEW i \in DOMAIN c.sets PROVE GenerateEvent(x1, pk, c.sets[i], undef).ts \in Nat
  <2> DEFINE set == c.sets[i]
  <2>1. set \in Partial(x, k, 0)
    BY <1>4, <1>8
  <2>2. x.p.n - 1 \in DOMAIN set /\ set[x.p.n - 1] \in {0, k}
    BY <1>2, <2>1 DEF Partial
  <2>3. Infos(pk, set)[x.p.n - 1].ts \in Nat
    <3>1. Infos(pk, set)[x.p.n - 1] = EventAt(pk, set[x.p.n - 1])
      BY <2>2 DEF Infos
    <3>2. EventAt(pk, 0).ts = 0
      BY DEF EventAt, ZeroEvent
    <3>3. EventAt(pk, k).ts = pk[k].ts
      BY DEF EventAt
    <3> QED
      BY <2>2, <3>1, <3>2, <3>3
  <2> HIDE DEF set
  <2>4. GenerateEvent(x1, pk, set, undef).ts = Infos(pk, set)[x.p.n - 1].ts
    BY <1>7 DEF GenerateEvent, GPUCompositeEvent
  <2> QED
    BY <2>3, <2>4 DEF set
<1>11. MadeOK(y.made)
  <2> DEFINE q == y.made
  <2>1. DOMAIN q = 1 .. Len(c.sets) /\ q = [i \in 1 .. Len(c.sets) |-> q[i]]
    BY <1>6, <1>8
  <2>2. \A i \in DOMAIN q : q[i].ce.ts \in Nat
    BY <1>6, <1>8, <1>10, <2>1
  <2> HIDE DEF q
  <2>3. \A i \in 1 .. Len(c.sets) : q[i] \in Range(q)
    BY <2>1 DEF Range
  <2>4. q \in Seq(Range(q))
    BY <1>8, <2>1, <2>3, SMTT(60)
  <2> QED
    BY <2>2, <2>4 DEF MadeOK, q
<1> QED
  BY <1>9, <1>11

\* What processEvent leaves: pages with one owner, indexes within the pages, and only
\* its own rule with other pages.
Outcome(s, r, id, N, z, y) ==
  /\ \E W : y.x.p \in Procs(s, r, id, N, W)
  /\ y.x.m \in Memories(s) /\ ~ y.x.m.exited /\ Good(s, y.x.m) /\ Fits(s, y.x.p, y.x.m)
  /\ Steady(z, y.x.m, id) /\ MadeOK(y.made)

\* GPUProcessor::processEvent: exits, or keeps the memory good, the stacks in their pages
\* and the other rules' pages as they were.
LEMMA ProcessEventKeeps ==
  ASSUME NEW s \in Setups, NEW r, SoundRule(r), NEW id \in Ids, NEW N \in Nat, NEW V,
         NEW p \in Procs(s, r, id, N, V), NEW z \in Memories(s), DOMAIN z.table[id] = KeySet(r),
         ~ z.exited, Good(s, z), Fits(s, p, z),
         NEW pk, NEW k \in 1 .. N, pk[k].ts \in Nat, NEW undef
  PROVE  Outcome(s, r, id, N, z, ProcessEvent(p, z, pk, k, undef))
<1> DEFINE x0 == [p |-> p, m |-> z]
           none == [x |-> x0, made |-> <<>>, exited |-> FALSE]
           y == ProcessEvent(p, z, pk, k, undef)
<1>1. MadeOK(<<>>)
  BY DEF MadeOK, Range
<1>2. Steady(z, z, id)
  BY DEF Steady
<1>3. ASSUME NEW a, a.x = x0, a.made = <<>> PROVE Outcome(s, r, id, N, z, a)
  <2>1. a.x.p = p /\ a.x.m = z
    BY <1>3
  <2> QED
    BY <1>1, <1>2, <1>3, <2>1 DEF Outcome
<1>4. x0 \in Pairs(s, r, id, N, V, z)
  BY <1>2, SMTT(60) DEF Pairs, Fine
<1>5. PICK keys : LET x == AddEvents(x0, pk, keys, k)
        IN  \/ y = none
            \/ y = [none EXCEPT !.exited = TRUE]
            \/ ~ x.m.exited /\ y = Terminate(x, pk, k, undef)
            \/ ~ x.m.exited /\ y = [none EXCEPT !.x = x]
  BY DEF ProcessEvent
<1> DEFINE x == AddEvents(x0, pk, keys, k)
<1>6. x \in Pairs(s, r, id, N, V, z)
  BY <1>4, AddEventsKeeps
<1> HIDE DEF x, y
<1>7. CASE y = none \/ y = [none EXCEPT !.exited = TRUE]
  <2>1. y.x = x0 /\ y.made = <<>>
    BY <1>7
  <2> QED
    BY <1>3, <2>1 DEF y
<1>8. ASSUME ~ x.m.exited
      PROVE  /\ x = [p |-> x.p, m |-> x.m] /\ x.p \in Procs(s, r, id, N, V) /\ x.m \in Memories(s)
             /\ Good(s, x.m) /\ Fits(s, x.p, x.m) /\ Steady(z, x.m, id)
             /\ x \in Trims(s, r, id, N, V, x.m)
  <2>1. /\ x = [p |-> x.p, m |-> x.m] /\ x.p \in Procs(s, r, id, N, V) /\ x.m \in Memories(s)
        /\ Good(s, x.m) /\ Fits(s, x.p, x.m) /\ Steady(z, x.m, id)
    BY <1>6, <1>8 DEF Pairs, Fine
  <2>2. x.m \in Copies(s, x.m)
    BY <2>1 DEF Copies, Good
  <2>3. x \in Trims(s, r, id, N, V, x.m)
    BY <2>1, <2>2 DEF Trims, Fitting
  <2> QED
    BY <2>1, <2>3
<1>9. CASE ~ x.m.exited /\ y = Terminate(x, pk, k, undef)
  <2> DEFINE q == Prepared(x, pk, k)
  <2>1. PICK W : q \in Trims(s, r, id, N, W, x.m)
    BY <1>8, <1>9, PreparedKeeps
  <2>2. y = ComputeAndGenerate(q, pk, k, undef)
    BY <1>9 DEF Terminate
  <2> HIDE DEF q
  <2>3. y.x \in Trims(s, r, id, N, W, x.m) /\ MadeOK(y.made)
    BY <1>8, <1>9, <2>1, <2>2, GeneratedKeeps
  <2>4. /\ y.x.p \in Procs(s, r, id, N, W) /\ y.x.m \in Memories(s)
        /\ Good(s, y.x.m) /\ Fits(s, y.x.p, y.x.m) /\ y.x.m.table = x.m.table
        /\ y.x.m.live = x.m.live /\ y.x.m.exited = x.m.exited
    BY <1>8, <1>9, <2>3, TrimsFacts
  <2>5. Steady(z, y.x.m, id)
    BY <1>8, <1>9, <2>4 DEF Steady
  <2>6. Outcome(s, r, id, N, z, y)
    BY <1>9, <2>3, <2>4, <2>5 DEF Outcome
  <2> QED
    BY <2>6 DEF y
<1>10. CASE ~ x.m.exited /\ y = [none EXCEPT !.x = x]
  <2>1. y.x = x /\ y.made = <<>>
    BY <1>10
  <2>2. Outcome(s, r, id, N, z, y)
    BY <1>1, <1>8, <1>10, <2>1 DEF Outcome
  <2> QED
    BY <2>2 DEF y
<1> QED
  BY <1>5, <1>7, <1>9, <1>10 DEF x

-----------------------------------------------------------------------------
(* The processors in turn.                                                 *)

\* The processors ps of the first rules of s and the memory x that they share.
Ready(s, ps, x, N) ==
  /\ x \in Memories(s) /\ ~ x.exited /\ Good(s, x)
  /\ ps \in Seq(Range(ps)) /\ Len(ps) <= MAX_RULE_NUM /\ Len(ps) <= Len(s.rules)
  /\ x.live = 0 .. Len(ps) - 1
  /\ \A i \in 1 .. Len(ps) :
       /\ \E V : ps[i] \in Procs(s, s.rules[i], i - 1, N, V)
       /\ Fits(s, ps[i], x) /\ DOMAIN x.table[i - 1] = KeySet(s.rules[i])
  /\ \A id \in Ids : id >= Len(ps) => DOMAIN x.table[id] = {}

\* The memory after the first i processors: the pages of the others are those of z.
Between(s, z, i) ==
  {w \in Memories(s) :
     /\ ~ w.exited /\ Good(s, w) /\ w.live = z.live
     /\ \A id \in Ids : DOMAIN w.table[id] = DOMAIN z.table[id]
     /\ \A id \in Ids : id >= i => w.table[id] = z.table[id]}

\* Rules of a setup.
LEMMA RuleFacts ==
  ASSUME NEW s \in Setups
  PROVE  /\ Len(s.rules) \in Nat /\ \A i \in 1 .. Len(s.rules) : SoundRule(s.rules[i])
         /\ s.rules \in Seq(Range(s.rules))
<1>1. s.rules \in Seq(Range(s.rules)) /\ \A i \in DOMAIN s.rules : SoundRule(s.rules[i])
  BY SetupsAssumption DEF SetupOK
<1>2. Len(s.rules) \in Nat /\ DOMAIN s.rules = 1 .. Len(s.rules)
  BY <1>1
<1> QED
  BY <1>1, <1>2

\* The processors are those of the first rules of the setup, which are sound.
LEMMA ReadyFacts ==
  ASSUME NEW s \in Setups, NEW ps, NEW x, NEW N \in Nat, Ready(s, ps, x, N)
  PROVE  /\ Len(ps) \in Nat /\ DOMAIN ps = 1 .. Len(ps)
         /\ \A i \in 1 .. Len(ps) : i - 1 \in Ids /\ i \in 1 .. Len(s.rules) /\ SoundRule(s.rules[i])
<1>1. /\ ps \in Seq(Range(ps)) /\ Len(ps) <= MAX_RULE_NUM /\ Len(ps) <= Len(s.rules)
  BY DEF Ready
<1>2. Len(ps) \in Nat /\ DOMAIN ps = 1 .. Len(ps) /\ Len(s.rules) \in Nat /\ MAX_RULE_NUM \in Nat
  BY <1>1, RuleFacts, SetupFacts
<1>3. \A i \in 1 .. Len(ps) : i - 1 \in Ids /\ i \in 1 .. Len(s.rules)
  BY <1>1, <1>2 DEF Ids
<1> QED
  BY <1>2, <1>3, RuleFacts

\* One processor.
LEMMA RunOne ==
  ASSUME NEW s \in Setups, NEW ps, NEW z, NEW N \in Nat, Ready(s, ps, z, N),
         NEW pk, NEW k \in 1 .. N, pk[k].ts \in Nat, NEW undef,
         NEW i \in 1 .. Len(ps), NEW w \in Between(s, z, i - 1)
  PROVE  LET y == ProcessEvent(ps[i], w, pk, k, undef)
         IN  y.x.m \in Between(s, z, i) /\ Outcome(s, s.rules[i], i - 1, N, w, y)
<1> DEFINE y == ProcessEvent(ps[i], w, pk, k, undef)
           id == i - 1
<1>1. id \in Ids /\ SoundRule(s.rules[i]) /\ i \in Int
  BY ReadyFacts
<1>2. PICK V : ps[i] \in Procs(s, s.rules[i], id, N, V)
  BY DEF Ready
<1>3. Fits(s, ps[i], z) /\ DOMAIN z.table[id] = KeySet(s.rules[i])
  BY DEF Ready
<1>4. /\ w \in Memories(s) /\ ~ w.exited /\ Good(s, w) /\ w.live = z.live
      /\ \A j \in Ids : DOMAIN w.table[j] = DOMAIN z.table[j]
      /\ \A j \in Ids : j >= i - 1 => w.table[j] = z.table[j]
  BY DEF Between
<1>5. w.table[id] = z.table[id]
  BY <1>1, <1>4
<1>6. Fits(s, ps[i], w)
  <2>1. ps[i].id = id
    BY <1>2 DEF Procs
  <2>2. \A key : PagesOf(w, id, key) = PagesOf(z, id, key)
    BY <1>5 DEF PagesOf
  <2> QED
    BY <1>3, <2>1, <2>2 DEF Fits
<1>7. Outcome(s, s.rules[i], id, N, w, y)
  <2>1. DOMAIN w.table[id] = KeySet(s.rules[i])
    BY <1>3, <1>5
  <2> HIDE DEF id
  <2> QED
    BY <1>1, <1>2, <1>4, <1>6, <2>1, ProcessEventKeeps
<1> HIDE DEF y
<1>8. y.x.m \in Between(s, z, i)
  <2>1. /\ y.x.m \in Memories(s) /\ ~ y.x.m.exited /\ Good(s, y.x.m) /\ Steady(w, y.x.m, id)
    BY <1>7 DEF Outcome
  <2>2. /\ y.x.m.live = w.live /\ DOMAIN y.x.m.table[id] = DOMAIN w.table[id]
        /\ \A j \in Ids \ {id} : y.x.m.table[j] = w.table[j]
    BY <2>1 DEF Steady
  <2>3. \A j \in Ids : DOMAIN y.x.m.table[j] = DOMAIN z.table[j]
    BY <1>4, <2>2
  <2>4. ASSUME NEW j \in Ids, j >= i PROVE y.x.m.table[j] = z.table[j]
    <3>1. j # id /\ j >= i - 1
      BY <1>1, <2>4 DEF Ids
    <3> QED
      BY <1>4, <2>2, <3>1
  <2> QED
    BY <1>4, <2>1, <2>2, <2>3, <2>4 DEF Between
<1> QED
  BY <1>7, <1>8 DEF y

\* After its turn a processor's pages do not change any more.
LEMMA PagesSettle ==
  ASSUME NEW n \in Nat, n <= MAX_RULE_NUM, MAX_RULE_NUM \in Nat, NEW w,
         \A i \in 1 .. n : Steady(w[i - 1], w[i], i - 1), NEW j \in 1 .. n
  PROVE  w[n].table[j - 1] = w[j].table[j - 1]
<1> DEFINE T == {i \in 0 .. n : i >= j => w[i].table[j - 1] = w[j].table[j - 1]}
<1>1. 0 \in T
  OBVIOUS
<1>2. ASSUME NEW i \in 1 .. n, i - 1 \in T PROVE i \in T
  <2>1. CASE i <= j
    BY <2>1
  <2>2. CASE i > j
    <3>1. j - 1 \in Ids \ {i - 1} /\ i - 1 >= j
      BY <2>2 DEF Ids
    <3>2. w[i].table[j - 1] = w[i - 1].table[j - 1]
      BY <3>1 DEF Steady
    <3> QED
      BY <1>2, <3>1, <3>2
  <2> QED
    BY <2>1, <2>2
<1> HIDE DEF T
<1>3. \A i \in 0 .. n : i \in T
  BY <1>1, <1>2, Upward
<1>4. n \in T
  BY <1>3
<1> QED
  BY <1>4 DEF T

\* All processors.
LEMMA RunKeeps ==
  ASSUME NEW s \in Setups, NEW N \in Nat, Ready(s, processors, m, N),
         NEW pk, NEW k \in 1 .. N, pk[k].ts \in Nat, NEW undef,
         NEW r, r = RunProcessors(pk, k, undef)
  PROVE  /\ Ready(s, r.ps, r.m, N) /\ Len(r.ps) = Len(processors)
         /\ r.made = [i \in 1 .. Len(processors) |-> r.made[i]]
         /\ \A i \in 1 .. Len(processors) : MadeOK(r.made[i])
<1> DEFINE n == Len(processors)
           b == [x |-> [p |-> <<>>, m |-> m], made |-> <<>>, exited |-> FALSE]
           round(y, i) == ProcessEvent(processors[i], y.x.m, pk, k, undef)
           All == {b} \cup {ProcessEvent(processors[i], w, pk, k, undef) :
                              i \in 1 .. n, w \in Memories(s)}
           Stage(i) == {y \in All : y.x.m \in Between(s, m, i)}
           S == [i \in 0 .. n |-> Stage(i)]
           F == [i \in 1 .. n |-> [y \in S[i - 1] |-> round(y, i)]]
           Eq(g) == g = [i \in 0 .. n |-> IF i = 0 THEN b ELSE round(g[i - 1], i)]
           h == CHOOSE g : Eq(g)
<1>1. n \in Nat /\ n <= MAX_RULE_NUM /\ MAX_RULE_NUM \in Nat
  BY ReadyFacts, SetupFacts DEF Ready
<1>2. r = [m |-> h[n].x.m, ps |-> [i \in 1 .. n |-> h[i].x.p],
           made |-> [i \in 1 .. n |-> h[i].made], exited |-> \E i \in 1 .. n : h[i].exited]
  BY DEF RunProcessors
<1>3. ASSUME NEW i \in 1 .. n, NEW y \in Stage(i - 1)
      PROVE  round(y, i) \in Stage(i) /\ Outcome(s, s.rules[i], i - 1, N, y.x.m, round(y, i))
  <2> DEFINE w == y.x.m
             e == ProcessEvent(processors[i], w, pk, k, undef)
  <2>1. w \in Between(s, m, i - 1)
    OBVIOUS
  <2>2. w \in Memories(s)
    BY <2>1 DEF Between
  <2>3. e.x.m \in Between(s, m, i) /\ Outcome(s, s.rules[i], i - 1, N, w, e)
    <3> HIDE DEF w, All, n
    <3>1. i \in 1 .. Len(processors)
      BY DEF n
    <3> QED
      BY <2>1, <3>1, RunOne
  <2>4. e \in All
    BY <2>2
  <2> HIDE DEF All
  <2> QED
    BY <2>3, <2>4
<1>4. S[0] = Stage(0) /\ \A i \in 1 .. n : S[i] = Stage(i) /\ S[i - 1] = Stage(i - 1)
  <2>1. 0 \in 0 .. n /\ \A i \in 1 .. n : i - 1 \in 0 .. n /\ i \in 0 .. n
    BY <1>1
  <2> HIDE DEF Stage, n
  <2> QED
    BY <2>1
<1>5. b \in Stage(0)
  <2>1. m \in Between(s, m, 0)
    BY DEF Ready, Between
  <2> QED
    BY <2>1
<1> HIDE DEF round, b, Stage
<1>6. \A i \in 1 .. n : \A y \in S[i - 1] : F[i][y] = round(y, i) /\ F[i][y] \in S[i]
  <2> SUFFICES ASSUME NEW i \in 1 .. n, NEW y \in S[i - 1]
               PROVE  F[i][y] = round(y, i) /\ F[i][y] \in S[i]
    OBVIOUS
  <2> HIDE DEF S
  <2>1. F[i][y] = round(y, i)
    OBVIOUS
  <2> QED
    BY <1>3, <1>4, <2>1
<1> HIDE DEF F, S, n
<1>7. Body(F, n, S) /\ b \in S[0]
  BY <1>4, <1>5, <1>6 DEF Body
<1>8. PICK g : Loop(g, F, n, S, b)
  BY <1>1, <1>7, LoopExists
<1>9. Eq(g)
  <2>2. ASSUME NEW i \in 1 .. n PROVE g[i] = round(g[i - 1], i)
    <3>1. i - 1 \in 0 .. n
      BY <1>1
    <3>2. g[i - 1] \in S[i - 1]
      BY <1>8, <3>1 DEF Loop
    <3> QED
      BY <1>6, <1>8, <3>2 DEF Loop
  <2>3. g = [i \in 0 .. n |-> g[i]] /\ g[0] = b
    BY <1>8 DEF Loop
  <2>4. ASSUME NEW i \in 0 .. n PROVE g[i] = IF i = 0 THEN b ELSE round(g[i - 1], i)
    <3>1. i # 0 => i \in 1 .. n
      BY <1>1
    <3> QED
      BY <2>2, <2>3, <3>1
  <2> QED
    BY <2>3, <2>4
<1>10. Eq(h)
  BY <1>9
<1> HIDE DEF h
<1>11. h[0] = b /\ \A i \in 1 .. n : h[i] = round(h[i - 1], i)
  <2>1. ASSUME NEW i \in 0 .. n PROVE h[i] = IF i = 0 THEN b ELSE round(h[i - 1], i)
    BY <1>10
  <2>2. 0 \in 0 .. n /\ \A i \in 1 .. n : i \in 0 .. n /\ i # 0
    BY <1>1
  <2> QED
    BY <2>1, <2>2
<1>12. \A i \in 1 .. n : h[i - 1] \in S[i - 1] => h[i] \in S[i]
  BY <1>3, <1>4, <1>11
<1>13. \A i \in 0 .. n : h[i] \in S[i]
  BY <1>1, <1>7, <1>11, <1>12, LoopStays
<1>14. \A i \in 1 .. n : Outcome(s, s.rules[i], i - 1, N, h[i - 1].x.m, h[i])
  <2> SUFFICES ASSUME NEW i \in 1 .. n
               PROVE  Outcome(s, s.rules[i], i - 1, N, h[i - 1].x.m, h[i])
    OBVIOUS
  <2>1. i - 1 \in 0 .. n
    BY <1>1
  <2>2. h[i - 1] \in Stage(i - 1)
    BY <1>4, <1>13, <2>1
  <2> QED
    BY <1>3, <1>11, <2>2
<1>15. h[n].x.m \in Between(s, m, n)
  <2>1. n \in 0 .. n /\ (n = 0 \/ n \in 1 .. n)
    BY <1>1
  <2>2. h[n] \in Stage(n)
    BY <1>4, <1>13, <2>1
  <2> QED
    BY <2>2 DEF Stage
<1>16. /\ r.m = h[n].x.m /\ r.ps = [i \in 1 .. n |-> h[i].x.p]
       /\ r.made = [i \in 1 .. n |-> h[i].made]
  BY <1>2
<1> DEFINE mem == [i \in 0 .. n |-> h[i].x.m]
<1>17. \A j \in 1 .. n : r.m.table[j - 1] = h[j].x.m.table[j - 1]
  <2>1. \A i \in 0 .. n : mem[i] = h[i].x.m
    OBVIOUS
  <2>2. n \in 0 .. n /\ \A i \in 1 .. n : i \in 0 .. n /\ i - 1 \in 0 .. n
    BY <1>1
  <2> HIDE DEF mem
  <2>3. \A i \in 1 .. n : Steady(mem[i - 1], mem[i], i - 1)
    BY <1>14, <2>1, <2>2 DEF Outcome
  <2>4. \A j \in 1 .. n : mem[n].table[j - 1] = mem[j].table[j - 1]
    BY <1>1, <2>3, PagesSettle
  <2>5. ASSUME NEW j \in 1 .. n PROVE r.m.table[j - 1] = h[j].x.m.table[j - 1]
    <3>1. mem[n] = r.m /\ mem[j] = h[j].x.m
      BY <1>16, <2>1, <2>2
    <3>2. mem[n].table[j - 1] = mem[j].table[j - 1]
      BY <2>4
    <3> QED
      BY <3>1, <3>2
  <2> QED
    BY <2>5
<1>18. Len(r.ps) = n /\ r.ps \in Seq(Range(r.ps)) /\ \A i \in 1 .. n : r.ps[i] = h[i].x.p
  <2>1. DOMAIN r.ps = 1 .. n /\ \A i \in 1 .. n : r.ps[i] = h[i].x.p
    BY <1>16
  <2>2. \A i \in 1 .. n : r.ps[i] \in Range(r.ps)
    BY <2>1 DEF Range
  <2>3. r.ps = [i \in 1 .. n |-> r.ps[i]]
    BY <1>16
  <2> QED
    BY <1>1, <2>1, <2>2, <2>3
<1>19. ASSUME NEW i \in 1 .. n
       PROVE  /\ \E V : r.ps[i] \in Procs(s, s.rules[i], i - 1, N, V)
              /\ Fits(s, r.ps[i], r.m) /\ DOMAIN r.m.table[i - 1] = KeySet(s.rules[i])
              /\ MadeOK(r.made[i])
  <2>1. /\ \E V : h[i].x.p \in Procs(s, s.rules[i], i - 1, N, V)
        /\ Fits(s, h[i].x.p, h[i].x.m) /\ MadeOK(h[i].made)
    BY <1>14 DEF Outcome
  <2>2. r.ps[i] = h[i].x.p /\ r.made[i] = h[i].made
    BY <1>16, <1>18
  <2>3. r.ps[i].id = i - 1
    BY <2>1, <2>2 DEF Procs
  <2>4. Fits(s, r.ps[i], r.m)
    <3>1. \A key : PagesOf(r.m, i - 1, key) = PagesOf(h[i].x.m, i - 1, key)
      BY <1>17 DEF PagesOf
    <3> QED
      BY <2>1, <2>2, <2>3, <3>1 DEF Fits
  <2>5. DOMAIN r.m.table[i - 1] = KeySet(s.rules[i])
    <3>1. i - 1 \in Ids /\ DOMAIN m.table[i - 1] = KeySet(s.rules[i])
      BY ReadyFacts DEF Ready, n
    <3> QED
      BY <1>15, <1>16, <3>1 DEF Between
  <2> QED
    BY <2>1, <2>2, <2>4, <2>5
<1>20. /\ r.m \in Memories(s) /\ ~ r.m.exited /\ Good(s, r.m) /\ r.m.live = 0 .. n - 1
       /\ \A id \in Ids : id >= n => DOMAIN r.m.table[id] = {}
  BY <1>15, <1>16 DEF Between, Ready, n
<1>21. n <= Len(s.rules)
  BY DEF Ready, n
<1>22. Ready(s, r.ps, r.m, N)
  BY <1>1, <1>18, <1>19, <1>20, <1>21 DEF Ready
<1> QED
  BY <1>16, <1>18, <1>19, <1>22 DEF n

-----------------------------------------------------------------------------
(* A rule is added.                                                        *)

WithLive(x, L) == [x EXCEPT !.live = L]

\* Who is live does not matter for the pages.
LEMMA LiveDoesNotMatter ==
  ASSUME NEW s \in Setups, NEW x \in Memories(s), NEW L \in SUBSET Ids,
         NEW y, y = WithLive(x, L)
  PROVE  /\ y \in Memories(s) /\ y.live = L /\ y.table = x.table /\ y.exited = x.exited
         /\ y.inUse = x.inUse /\ (Good(s, x) => Good(s, y))
         /\ \A id, k : PagesOf(y, id, k) = PagesOf(x, id, k)
<1>1. /\ y \in Memories(s) /\ y.live = L /\ y.table = x.table /\ y.exited = x.exited
      /\ y.inUse = x.inUse /\ y.onGpu = x.onGpu /\ y.host = x.host /\ y.dev = x.dev
  BY DEF Memories, WithLive
<1>2. \A id, k : PagesOf(y, id, k) = PagesOf(x, id, k)
  BY <1>1 DEF PagesOf
<1>3. \A i, k, j : (Slot(y, i, k, j) <=> Slot(x, i, k, j)) /\ At(y, i, k, j) = At(x, i, k, j)
  BY <1>1 DEF Slot, At
<1>4. \A id, c : Holds(y, id, c) <=> Holds(x, id, c)
  BY <1>3 DEF Holds
<1>5. Counted(s, x) => Counted(s, y)
  BY <1>1, <1>4 DEF Counted
<1>6. Apart(s, x) => Apart(s, y)
  BY <1>3 DEF Apart
<1>7. Coherent(s, x) => Coherent(s, y)
  BY <1>1, <1>4 DEF Coherent
<1> QED
  BY <1>1, <1>2, <1>5, <1>6, <1>7 DEF Good, Owned

\* The stacks of a rule are different ones.
LEMMA SubscribedFacts ==
  ASSUME NEW r, SoundRule(r), NEW q, q = SubscribedKeys(r)
  PROVE  /\ Len(q) \in Nat /\ \A i \in 1 .. Len(q) : q[i] \in KeySet(r) /\ q[i] \in AllKeys
         /\ \A i, j \in 1 .. Len(q) : q[i] = q[j] => i = j
         /\ KeySet(r) = {q[i] : i \in 1 .. Len(q)}
<1> DEFINE a == StateKeys(r)
           b == NegKeys(r)
           c == AggKeys(r)
<1>1. /\ r.negations \in Seq(Range(r.negations)) /\ r.aggregates \in Seq(Range(r.aggregates))
  BY DEF SoundRule
<1>2. /\ a \in Seq(AllKeys) /\ \A i \in 1 .. Len(a) : a[i] = <<"STATE", i - 1>>
  <2>1. SequenceLen(r) \in Nat \ {0} /\ a \in Seq(AllKeys)
    BY KeyFacts
  <2>2. a = [i \in 1 .. SequenceLen(r) - 1 |-> <<"STATE", i - 1>>]
    BY DEF StateKeys, Stack
  <2> HIDE DEF a
  <2> QED
    BY <2>1, <2>2
<1>3. /\ b \in Seq(AllKeys) /\ \A i \in 1 .. Len(b) : b[i] = <<"NEG", i - 1>>
  <2>1. b = [i \in 1 .. Len(r.negations) |-> <<"NEG", i - 1>>] /\ Len(r.negations) \in Nat
    BY <1>1 DEF NegKeys, Neg
  <2>2. b \in Seq(AllKeys)
    BY KeyFacts
  <2> HIDE DEF b
  <2> QED
    BY <2>1, <2>2
<1>4. /\ c \in Seq(AllKeys) /\ \A i \in 1 .. Len(c) : c[i] = <<"AGG", i - 1>>
  <2>1. c = [i \in 1 .. Len(r.aggregates) |-> <<"AGG", i - 1>>] /\ Len(r.aggregates) \in Nat
    BY <1>1 DEF AggKeys, Agg
  <2>2. c \in Seq(AllKeys)
    BY KeyFacts
  <2> HIDE DEF c
  <2> QED
    BY <2>1, <2>2
<1>5. q = (a \o b) \o c
  BY DEF SubscribedKeys
<1>6. KeySet(r) = Range(a) \cup Range(b) \cup Range(c)
  BY DEF KeySet
<1> HIDE DEF a, b, c
<1>7. /\ Len(a) \in Nat /\ Len(b) \in Nat /\ Len(c) \in Nat
      /\ a \o b \in Seq(AllKeys) /\ Len(a \o b) = Len(a) + Len(b)
      /\ Range(a \o b) = Range(a) \cup Range(b)
      /\ \A i \in 1 .. Len(a) + Len(b) :
           (a \o b)[i] = IF i <= Len(a) THEN a[i] ELSE b[i - Len(a)]
  BY <1>2, <1>3, <1>4, RangeConcat
<1> DEFINE ab == a \o b
           La == Len(a)
           Lb == Len(b)
<1>8. /\ q \in Seq(AllKeys) /\ Len(q) = La + Lb + Len(c) /\ Range(q) = KeySet(r)
      /\ \A i \in 1 .. La + Lb + Len(c) :
           q[i] = IF i <= La + Lb THEN ab[i] ELSE c[i - (La + Lb)]
  <2>1. ab \in Seq(AllKeys) /\ Len(ab) = La + Lb /\ q = ab \o c
    BY <1>5, <1>7
  <2>2. ab \o c \in Seq(AllKeys) /\ Range(ab \o c) = Range(ab) \cup Range(c)
    <3> HIDE DEF ab
    <3> QED
      BY <1>4, <2>1, RangeConcat
  <2>3. Range(q) = KeySet(r)
    BY <1>6, <1>7, <2>1, <2>2
  <2> HIDE DEF ab
  <2>4. /\ Len(ab \o c) = Len(ab) + Len(c)
        /\ \A i \in 1 .. Len(ab) + Len(c) :
             (ab \o c)[i] = IF i <= Len(ab) THEN ab[i] ELSE c[i - Len(ab)]
    BY <1>4, <2>1, ConcatFacts
  <2> HIDE DEF La, Lb
  <2> QED
    BY <2>1, <2>2, <2>3, <2>4
<1>9. /\ \A i \in 1 .. La : q[i] = <<"STATE", i - 1>>
      /\ \A i \in La + 1 .. La + Lb : q[i] = <<"NEG", i - La - 1>>
      /\ \A i \in La + Lb + 1 .. Len(q) : q[i] = <<"AGG", i - (La + Lb) - 1>>
  <2>1. ASSUME NEW i \in 1 .. La PROVE q[i] = <<"STATE", i - 1>>
    <3>1. i \in 1 .. La + Lb + Len(c) /\ i \in 1 .. La + Lb /\ i <= La + Lb /\ i <= La
      BY <1>7
    <3> QED
      BY <1>2, <1>7, <1>8, <3>1
  <2>2. ASSUME NEW i \in La + 1 .. La + Lb PROVE q[i] = <<"NEG", i - La - 1>>
    <3>1. /\ i \in 1 .. La + Lb + Len(c) /\ i \in 1 .. La + Lb /\ i <= La + Lb /\ ~ (i <= La)
          /\ i - La \in 1 .. Lb
      BY <1>7
    <3> QED
      BY <1>3, <1>7, <1>8, <3>1
  <2>3. ASSUME NEW i \in La + Lb + 1 .. Len(q) PROVE q[i] = <<"AGG", i - (La + Lb) - 1>>
    <3>1. i \in 1 .. La + Lb + Len(c) /\ ~ (i <= La + Lb) /\ i - (La + Lb) \in 1 .. Len(c)
      BY <1>7, <1>8
    <3> QED
      BY <1>4, <1>8, <3>1
  <2> QED
    BY <2>1, <2>2, <2>3
<1> HIDE DEF La, Lb, ab
<1>10. La \in Nat /\ Lb \in Nat /\ Len(q) \in Nat
  BY <1>7, <1>8 DEF La, Lb
<1>11. ASSUME NEW i \in 1 .. Len(q), NEW j \in 1 .. Len(q), q[i] = q[j] PROVE i = j
  <2>1. \/ i \in 1 .. La \/ i \in La + 1 .. La + Lb \/ i \in La + Lb + 1 .. Len(q)
    BY <1>10
  <2>2. \/ j \in 1 .. La \/ j \in La + 1 .. La + Lb \/ j \in La + Lb + 1 .. Len(q)
    BY <1>10
  <2>3. \A u, v : <<"STATE", u>> # <<"NEG", v>> /\ <<"STATE", u>> # <<"AGG", v>>
                  /\ <<"NEG", u>> # <<"AGG", v>>
    OBVIOUS
  <2>4. CASE i \in 1 .. La
    BY <1>9, <1>10, <1>11, <2>2, <2>3, <2>4
  <2>5. CASE i \in La + 1 .. La + Lb
    BY <1>9, <1>10, <1>11, <2>2, <2>3, <2>5
  <2>6. CASE i \in La + Lb + 1 .. Len(q)
    BY <1>9, <1>10, <1>11, <2>2, <2>3, <2>6
  <2> QED
    BY <2>1, <2>4, <2>5, <2>6
<1>12. \A i \in 1 .. Len(q) : q[i] \in KeySet(r) /\ q[i] \in AllKeys
  BY <1>8, RangeOf
<1>13. KeySet(r) \subseteq {q[i] : i \in 1 .. Len(q)}
  BY <1>8, RangeOf
<1> QED
  BY <1>10, <1>11, <1>12, <1>13

\* The first token that is not live is the number of the processors.
LEMMA TokenIs ==
  ASSUME NEW s \in Setups, NEW ps, NEW x, NEW N \in Nat, Ready(s, ps, x, N),
         Len(ps) < MAX_RULE_NUM
  PROVE  Token(x) = Len(ps) /\ Len(ps) \in Ids
<1> DEFINE T == Ids \ (0 .. Len(ps) - 1)
<1>1. Len(ps) \in Nat /\ MAX_RULE_NUM \in Nat
  BY ReadyFacts, SetupFacts
<1>2. x.live = 0 .. Len(ps) - 1 /\ DOMAIN x.table = Ids
  BY DEF Ready, Memories
<1>3. T \subseteq Nat /\ Len(ps) \in T /\ \A t \in T : t >= Len(ps)
  BY <1>1 DEF Ids
<1>4. Token(x) = Min(T)
  BY <1>2 DEF Token
<1> HIDE DEF T
<1>5. Min(T) \in T /\ Min(T) <= Len(ps)
  BY <1>3, MinLeast
<1>6. Min(T) = Len(ps)
  <2>1. Min(T) \in Nat /\ Min(T) >= Len(ps) /\ Min(T) <= Len(ps)
    BY <1>3, <1>5
  <2> QED
    BY <1>1, <2>1
<1> QED
  BY <1>3, <1>4, <1>6 DEF T

\* Rule id has one page for each of the first i stacks of keys, and no more.
Marked(s, x, id, keys, i) ==
  {w \in Memories(s) :
     ~ w.exited =>
       /\ Good(s, w) /\ DOMAIN w.table[id] = {keys[j] : j \in 1 .. i}
       /\ \A key \in DOMAIN w.table[id] : Len(PagesOf(w, id, key)) = 1
       /\ \A k \in Ids \ {id} : w.table[k] = x.table[k]}

\* MemoryManager::subscribe: one round gives one stack its first page.
LEMMA MarkOne ==
  ASSUME NEW s \in Setups, NEW x, NEW id \in Ids, NEW keys, NEW n \in Nat, NEW i \in 1 .. n,
         keys[i] \in AllKeys, \A a, b \in 1 .. n : keys[a] = keys[b] => a = b,
         NEW w \in Marked(s, x, id, keys, i - 1), NEW y, y = AddPage(w, id, keys[i], s.d * s.mul)
  PROVE  y \in Marked(s, x, id, keys, i)
<1> DEFINE key == keys[i]
<1>1. /\ w \in Memories(s)
      /\ ~ w.exited => /\ Good(s, w) /\ DOMAIN w.table[id] = {keys[j] : j \in 1 .. i - 1}
                       /\ \A k \in DOMAIN w.table[id] : Len(PagesOf(w, id, k)) = 1
                       /\ \A k \in Ids \ {id} : w.table[k] = x.table[k]
  BY DEF Marked
<1>2. /\ y \in Memories(s) /\ (w.exited => y.exited)
      /\ ~ y.exited /\ Good(s, w) => Good(s, y)
      /\ ~ y.exited => OnlyStack(w, y, id, key)
      /\ ~ y.exited => Len(PagesOf(y, id, key)) = Len(PagesOf(w, id, key)) + 1
  <2>1. s.d * s.mul \in {s.d, s.d * s.mul}
    OBVIOUS
  <2> QED
    BY <1>1, <2>1, AddPageKeeps
<1>3. ASSUME ~ y.exited
      PROVE  /\ Good(s, y) /\ DOMAIN y.table[id] = {keys[j] : j \in 1 .. i}
             /\ \A k \in DOMAIN y.table[id] : Len(PagesOf(y, id, k)) = 1
             /\ \A k \in Ids \ {id} : y.table[k] = x.table[k]
  <2>1. ~ w.exited
    BY <1>2, <1>3
  <2>2. OnlyStack(w, y, id, key)
    BY <1>2, <1>3
  <2>3. DOMAIN w.table[id] = {keys[j] : j \in 1 .. i - 1}
    BY <1>1, <2>1
  <2>4. 1 .. i = (1 .. i - 1) \cup {i} /\ \A j \in 1 .. i - 1 : j \in 1 .. n /\ j # i
    OBVIOUS
  <2>5. key \notin DOMAIN w.table[id]
    BY <2>3, <2>4
  <2>6. DOMAIN y.table[id] = {keys[j] : j \in 1 .. i}
    <3>1. DOMAIN y.table[id] = DOMAIN w.table[id] \cup {key}
      BY <2>2 DEF OnlyStack
    <3> QED
      BY <2>3, <2>4, <3>1
  <2>7. PagesOf(w, id, key) = <<>>
    BY <2>5 DEF PagesOf
  <2>8. Len(PagesOf(y, id, key)) = 1
    BY <1>2, <1>3, <2>7
  <2>9. ASSUME NEW k \in DOMAIN y.table[id] PROVE Len(PagesOf(y, id, k)) = 1
    <3>1. CASE k = key
      BY <2>8, <3>1
    <3>2. CASE k # key
      <4>1. k \in DOMAIN w.table[id] /\ PagesOf(y, id, k) = PagesOf(w, id, k)
        BY <2>2, <3>2 DEF OnlyStack
      <4> QED
        BY <1>1, <2>1, <4>1
    <3> QED
      BY <3>1, <3>2
  <2>10. \A k \in Ids \ {id} : y.table[k] = x.table[k]
    BY <1>1, <2>1, <2>2 DEF OnlyStack
  <2> QED
    BY <1>1, <1>2, <1>3, <2>1, <2>6, <2>9, <2>10
<1> QED
  BY <1>2, <1>3 DEF Marked

\* One page for every stack of a new rule.
LEMMA SubscribeKeeps ==
  ASSUME NEW s \in Setups, NEW ps, NEW x, NEW N \in Nat, Ready(s, ps, x, N),
         Len(ps) < MAX_RULE_NUM, NEW r, SoundRule(r), NEW y, y = Subscribe(x, SubscribedKeys(r)),
         ~ y.exited
  PROVE  /\ y \in Memories(s) /\ Good(s, y) /\ y.live = 0 .. Len(ps)
         /\ DOMAIN y.table[Len(ps)] = KeySet(r)
         /\ \A key : Len(PagesOf(y, Len(ps), key)) \in 0 .. 1
         /\ \A k \in Ids \ {Len(ps)} : y.table[k] = x.table[k]
<1> DEFINE keys == SubscribedKeys(r)
           id == Token(x)
           n == Len(keys)
           round(w, i) == AddPage(w, id, keys[i], Cardinality(DOMAIN x.inUse))
           Stage(i) == Marked(s, x, id, keys, i)
           S == [i \in 0 .. n |-> Stage(i)]
           F == [i \in 1 .. n |-> [w \in S[i - 1] |-> round(w, i)]]
           Eq(g) == g = [i \in 0 .. n |-> IF i = 0 THEN x ELSE round(g[i - 1], i)]
           h == CHOOSE g : Eq(g)
<1>1. /\ n \in Nat /\ \A i \in 1 .. n : keys[i] \in AllKeys
      /\ \A i, j \in 1 .. n : keys[i] = keys[j] => i = j
      /\ KeySet(r) = {keys[i] : i \in 1 .. n}
  BY SubscribedFacts
<1>2. y = [h[n] EXCEPT !.live = @ \cup {id}]
  BY DEF Subscribe
<1>20. id = Len(ps) /\ id \in Ids /\ x \in Memories(s)
  BY TokenIs DEF Ready
<1>21. Cardinality(DOMAIN x.inUse) = s.d * s.mul
  <2>1. DOMAIN x.inUse = 0 .. s.d * s.mul - 1 /\ s.d * s.mul \in Nat \ {0}
    BY <1>20, SetupFacts DEF Memories, Chunks
  <2>2. Cardinality(0 .. s.d * s.mul - 1) = s.d * s.mul
    BY <2>1, FS_Interval
  <2> QED
    BY <2>1, <2>2
<1> HIDE DEF keys, id
<1>3. ASSUME NEW i \in 1 .. n, NEW w \in Stage(i - 1) PROVE round(w, i) \in Stage(i)
  BY <1>1, <1>20, <1>21, MarkOne
<1>5. x \in Stage(0)
  <2>1. DOMAIN x.table[id] = {} /\ Good(s, x)
    <3>1. Len(ps) >= Len(ps)
      BY ReadyFacts
    <3> QED
      BY <1>20, <3>1 DEF Ready
  <2>2. {keys[j] : j \in 1 .. 0} = {}
    OBVIOUS
  <2> QED
    BY <1>20, <2>1, <2>2 DEF Marked
<1>4. S[0] = Stage(0) /\ \A i \in 1 .. n : S[i] = Stage(i) /\ S[i - 1] = Stage(i - 1)
  <2>1. 0 \in 0 .. n /\ \A i \in 1 .. n : i - 1 \in 0 .. n /\ i \in 0 .. n
    BY <1>1
  <2> HIDE DEF Stage, n
  <2> QED
    BY <2>1
<1> HIDE DEF round, Stage
<1>6. \A i \in 1 .. n : \A w \in S[i - 1] : F[i][w] = round(w, i) /\ F[i][w] \in S[i]
  <2> SUFFICES ASSUME NEW i \in 1 .. n, NEW w \in S[i - 1]
               PROVE  F[i][w] = round(w, i) /\ F[i][w] \in S[i]
    OBVIOUS
  <2> HIDE DEF S
  <2>1. F[i][w] = round(w, i)
    OBVIOUS
  <2> QED
    BY <1>3, <1>4, <2>1
<1> HIDE DEF F, S, n
<1>7. Body(F, n, S) /\ x \in S[0]
  BY <1>4, <1>5, <1>6 DEF Body
<1>8. PICK g : Loop(g, F, n, S, x)
  BY <1>1, <1>7, LoopExists
<1>9. Eq(g)
  <2>1. ASSUME NEW i \in 1 .. n PROVE g[i] = round(g[i - 1], i)
    <3>1. i - 1 \in 0 .. n
      BY <1>1
    <3>2. g[i - 1] \in S[i - 1]
      BY <1>8, <3>1 DEF Loop
    <3> QED
      BY <1>6, <1>8, <3>2 DEF Loop
  <2>2. g = [i \in 0 .. n |-> g[i]] /\ g[0] = x
    BY <1>8 DEF Loop
  <2>3. ASSUME NEW i \in 0 .. n PROVE g[i] = IF i = 0 THEN x ELSE round(g[i - 1], i)
    <3>1. i # 0 => i \in 1 .. n
      BY <1>1
    <3> QED
      BY <2>1, <2>2, <3>1
  <2> QED
    BY <2>2, <2>3
<1>10. Eq(h)
  BY <1>9
<1> HIDE DEF h
<1>11. h[0] = x /\ \A i \in 1 .. n : h[i] = round(h[i - 1], i)
  <2>1. ASSUME NEW i \in 0 .. n PROVE h[i] = IF i = 0 THEN x ELSE round(h[i - 1], i)
    BY <1>10
  <2>2. 0 \in 0 .. n /\ \A i \in 1 .. n : i \in 0 .. n /\ i # 0
    BY <1>1
  <2> QED
    BY <2>1, <2>2
<1>12. \A i \in 1 .. n : h[i - 1] \in S[i - 1] => h[i] \in S[i]
  BY <1>3, <1>4, <1>11
<1>13. \A i \in 0 .. n : h[i] \in S[i]
  BY <1>1, <1>7, <1>11, <1>12, LoopStays
<1>14. h[n] \in Stage(n)
  <2>1. n \in 0 .. n /\ (n = 0 \/ n \in 1 .. n)
    BY <1>1
  <2> QED
    BY <1>4, <1>13, <2>1
<1>15. h[n] \in Memories(s) /\ h[n].live = x.live
  <2> DEFINE T == {i \in 0 .. n : h[i].live = x.live}
  <2>1. 0 \in T
    BY <1>1, <1>11
  <2>2. ASSUME NEW i \in 1 .. n, i - 1 \in T PROVE i \in T
    <3>1. i - 1 \in 0 .. n
      BY <1>1
    <3>2. h[i - 1] \in Memories(s)
      BY <1>4, <1>13, <3>1 DEF Stage, Marked
    <3>3. h[i] = AddPage(h[i - 1], id, keys[i], s.d * s.mul)
      BY <1>11, <1>21 DEF round
    <3>4. s.d * s.mul \in {s.d, s.d * s.mul}
      OBVIOUS
    <3>5. keys[i] \in AllKeys
      BY <1>1
    <3>6. h[i].live = h[i - 1].live
      BY <1>20, <3>2, <3>3, <3>4, <3>5, AddPageKeeps
    <3> QED
      BY <2>2, <3>6
  <2> HIDE DEF T
  <2>3. n \in T
    <3>1. \A i \in 0 .. n : i \in T
      BY <1>1, <2>1, <2>2, Upward
    <3> QED
      BY <1>1, <3>1
  <2> QED
    BY <1>14, <2>3 DEF T, Stage, Marked
<1>16. /\ y \in Memories(s) /\ y.live = x.live \cup {id} /\ y.table = h[n].table
       /\ y.exited = h[n].exited /\ (Good(s, h[n]) => Good(s, y))
       /\ \A i, k : PagesOf(y, i, k) = PagesOf(h[n], i, k)
  <2> DEFINE L == h[n].live \cup {id}
  <2>1. L \in SUBSET Ids
    BY <1>15, <1>20 DEF Memories
  <2>2. y = [h[n] EXCEPT !.live = L]
    BY <1>2
  <2>3. L = x.live \cup {id}
    BY <1>15
  <2> DEFINE w == h[n]
  <2> HIDE DEF L, w
  <2>4. w \in Memories(s) /\ y = WithLive(w, L)
    BY <1>15, <2>2 DEF w, WithLive
  <2>5. /\ y \in Memories(s) /\ y.live = L /\ y.table = w.table
        /\ y.exited = w.exited /\ (Good(s, w) => Good(s, y))
        /\ \A i, k : PagesOf(y, i, k) = PagesOf(w, i, k)
    BY <2>1, <2>4, LiveDoesNotMatter
  <2> QED
    BY <2>3, <2>5 DEF w
<1>17. /\ Good(s, y) /\ DOMAIN y.table[id] = KeySet(r)
       /\ \A key \in DOMAIN y.table[id] : Len(PagesOf(y, id, key)) = 1
       /\ \A k \in Ids \ {id} : y.table[k] = x.table[k]
  BY <1>1, <1>14, <1>16 DEF Stage, Marked
<1>18. \A key : Len(PagesOf(y, id, key)) \in 0 .. 1
  <2>1. \A key : key \notin DOMAIN y.table[id] => PagesOf(y, id, key) = <<>>
    BY DEF PagesOf
  <2> QED
    BY <1>17, <2>1
<1>19. x.live \cup {id} = 0 .. Len(ps)
  <2>1. x.live = 0 .. Len(ps) - 1 /\ Len(ps) \in Nat
    BY ReadyFacts DEF Ready
  <2> QED
    BY <1>20, <2>1
<1> QED
  BY <1>16, <1>17, <1>18, <1>19, <1>20

\* More packets are seen.
LEMMA ProcsGrow ==
  ASSUME NEW s, NEW r, NEW id, NEW N \in Nat, NEW V, NEW p \in Procs(s, r, id, N, V),
         NEW M \in Nat, N <= M
  PROVE  p \in Procs(s, r, id, M, V)
<1>1. 0 .. N \subseteq 0 .. M
  OBVIOUS
<1>2. [Keys(r) -> 0 .. N] \subseteq [Keys(r) -> 0 .. M]
  BY <1>1
<1> QED
  BY <1>2 DEF Procs

\* More packets do no harm.
LEMMA ReadyGrows ==
  ASSUME NEW s \in Setups, NEW ps, NEW x, NEW N \in Nat, NEW M \in Nat, N <= M,
         Ready(s, ps, x, N)
  PROVE  Ready(s, ps, x, M)
<1>1. ASSUME NEW i \in 1 .. Len(ps) PROVE \E V : ps[i] \in Procs(s, s.rules[i], i - 1, M, V)
  <2>1. PICK V : ps[i] \in Procs(s, s.rules[i], i - 1, N, V)
    BY DEF Ready
  <2>2. ps[i] \in Procs(s, s.rules[i], i - 1, M, V)
    BY <2>1, ProcsGrow
  <2> QED
    BY <2>2
<1> QED
  BY <1>1 DEF Ready

\* A new processor: its stacks are empty, with a page each.
LEMMA NewFits ==
  ASSUME NEW s \in Setups, NEW r, SoundRule(r), NEW id \in Ids, NEW N \in Nat, NEW since,
         NEW y, \A key : Len(PagesOf(y, id, key)) \in 0 .. 1,
         NEW p, p = NewProcessor(r, id, s.alloc, since)
  PROVE  (\E V : p \in Procs(s, r, id, N, V)) /\ Fits(s, p, y)
<1> DEFINE V == {TRUE, since, p.pars}
           keys == Keys(r)
<1>1. Range(SubscribedKeys(r)) \union {Stack(SequenceLen(r) - 1)} = keys
  <2>1. Range(SubscribedKeys(r)) = KeySet(r)
    <3> DEFINE q == SubscribedKeys(r)
    <3>1. q \in Seq(AllKeys)
      <4>1. StateKeys(r) \o NegKeys(r) \in Seq(AllKeys)
        BY KeyFacts, RangeConcat
      <4> QED
        BY <4>1, KeyFacts DEF SubscribedKeys
    <3>2. KeySet(r) = {q[i] : i \in 1 .. Len(q)}
      BY SubscribedFacts
    <3> HIDE DEF q
    <3>3. Range(q) = {q[i] : i \in 1 .. Len(q)}
      BY <3>1, RangeOf
    <3> QED
      BY <3>2, <3>3 DEF q
  <2> QED
    BY <2>1 DEF Keys
<1>2. /\ p.rule = r /\ p.n = SequenceLen(r) /\ p.id = id /\ p.low = [key \in keys |-> 0]
      /\ p.high = [key \in keys |-> 0] /\ p.samples = [key \in keys |-> 0]
      /\ p.ts = [key \in keys |-> [i \in 0 .. s.alloc - 1 |-> 0]] /\ p.first = TRUE
      /\ p.dropped = FALSE /\ p.since = since
      /\ p = [rule |-> p.rule, n |-> p.n, id |-> p.id, low |-> p.low, high |-> p.high,
              samples |-> p.samples, ts |-> p.ts, first |-> p.first, pars |-> p.pars,
              dropped |-> p.dropped, since |-> p.since]
  BY <1>1 DEF NewProcessor
<1>3. 0 \in Places(s) /\ Limit(s) \in Nat \ {0} /\ s.page \in Nat \ {0} /\ 0 \in 0 .. N
  BY SetupFacts DEF Places
<1> HIDE DEF keys
<1>4. /\ p.low \in [keys -> Places(s)] /\ p.high \in [keys -> Places(s)]
      /\ p.samples \in [keys -> 0 .. N] /\ p.ts \in [keys -> [Places(s) -> Nat]]
  BY <1>2, <1>3 DEF Places
<1>5. p.first \in V /\ p.pars \in V /\ p.since \in V
  BY <1>2
<1> HIDE DEF V
<1>6. p \in Procs(s, r, id, N, V)
  BY <1>2, <1>4, <1>5 DEF Procs, keys
<1>7. ASSUME NEW key \in keys
      PROVE  StackFits(s, Len(PagesOf(y, id, key)), p.low[key], p.high[key], p.ts[key])
  <2>1. p.low[key] = 0 /\ p.high[key] = 0 /\ p.ts[key] = [i \in 0 .. s.alloc - 1 |-> 0]
    BY <1>2
  <2>2. Len(PagesOf(y, id, key)) \in 0 .. 1
    OBVIOUS
  <2>3. ASSUME NEW l \in 0 .. 1
        PROVE  StackFits(s, l, 0, 0, [i \in 0 .. s.alloc - 1 |-> 0])
    <3>1. 0 <= l * s.page /\ l <= Limit(s)
      BY <1>3
    <3> QED
      BY <3>1 DEF StackFits, Places
  <2> QED
    BY <2>1, <2>2, <2>3
<1>8. Fits(s, p, y)
  BY <1>2, <1>7 DEF Fits, keys
<1> QED
  BY <1>6, <1>8

\* A new rule: its token is the next one, and it has one page per stack.
LEMMA RuleAdded ==
  ASSUME NEW s \in Setups, NEW ps, NEW x, NEW N \in Nat, Ready(s, ps, x, N),
         Len(ps) < MAX_RULE_NUM, Len(ps) < Len(s.rules), NEW since,
         NEW r, r = s.rules[Len(ps) + 1],
         NEW y, y = Subscribe(x, SubscribedKeys(r)), ~ y.exited
  PROVE  Ready(s, Append(ps, NewProcessor(r, Token(x), x.alloc, since)), y, N)
<1> DEFINE n == Len(ps)
           p == NewProcessor(r, Token(x), x.alloc, since)
           qs == Append(ps, p)
<1>1. /\ n \in Nat /\ MAX_RULE_NUM \in Nat /\ Len(s.rules) \in Nat
      /\ \A i \in 1 .. Len(s.rules) : SoundRule(s.rules[i])
  BY ReadyFacts, RuleFacts, SetupFacts
<1>2. SoundRule(r)
  BY <1>1
<1>3. Token(x) = n /\ n \in Ids /\ x.alloc = s.alloc
  BY TokenIs DEF Ready, Memories
<1>4. /\ y \in Memories(s) /\ Good(s, y) /\ y.live = 0 .. n
      /\ DOMAIN y.table[n] = KeySet(r)
      /\ \A key : Len(PagesOf(y, n, key)) \in 0 .. 1
      /\ \A k \in Ids \ {n} : y.table[k] = x.table[k]
  BY <1>2, SubscribeKeeps
<1>5. (\E V : p \in Procs(s, r, n, N, V)) /\ Fits(s, p, y)
  <2>1. p = NewProcessor(r, n, s.alloc, since)
    BY <1>3
  <2> HIDE DEF p
  <2> QED
    BY <1>2, <1>3, <1>4, <2>1, NewFits
<1> HIDE DEF p
<1>6. ps \in Seq(Range(ps)) /\ DOMAIN ps = 1 .. n
  BY ReadyFacts DEF Ready
<1>7. /\ Len(qs) = n + 1 /\ qs[n + 1] = p /\ \A i \in 1 .. n : qs[i] = ps[i]
  BY <1>6, AppendFacts
<1>8. qs \in Seq(Range(qs))
  BY <1>6, AppendFacts
<1> HIDE DEF qs
<1>9. ASSUME NEW i \in 1 .. n + 1
      PROVE  /\ \E V : qs[i] \in Procs(s, s.rules[i], i - 1, N, V)
             /\ Fits(s, qs[i], y) /\ DOMAIN y.table[i - 1] = KeySet(s.rules[i])
  <2>1. CASE i = n + 1
    <3>1. (n + 1) - 1 = n
      BY <1>1
    <3> QED
      BY <1>4, <1>5, <1>7, <2>1, <3>1
  <2>2. CASE i # n + 1
    <3>1. i \in 1 .. n /\ i - 1 # n
      BY <1>1, <2>2
    <3>2. /\ \E V : ps[i] \in Procs(s, s.rules[i], i - 1, N, V)
          /\ Fits(s, ps[i], x) /\ DOMAIN x.table[i - 1] = KeySet(s.rules[i])
      BY <3>1 DEF Ready
    <3>3. i - 1 \in Ids \ {n}
      BY <3>1, ReadyFacts
    <3>4. y.table[i - 1] = x.table[i - 1]
      BY <1>4, <3>3
    <3>5. ps[i].id = i - 1
      BY <3>2 DEF Procs
    <3>6. Fits(s, ps[i], y)
      <4>1. \A key : PagesOf(y, i - 1, key) = PagesOf(x, i - 1, key)
        BY <3>4 DEF PagesOf
      <4> QED
        BY <3>2, <3>5, <4>1 DEF Fits
    <3> QED
      BY <1>7, <3>1, <3>2, <3>4, <3>6
  <2> QED
    BY <2>1, <2>2
<1>10. \A id \in Ids : id >= n + 1 => DOMAIN y.table[id] = {}
  <2>1. \A id \in Ids : id >= n => DOMAIN x.table[id] = {}
    BY DEF Ready
  <2>2. \A id \in Ids : id >= n + 1 => id >= n /\ id # n
    BY <1>1 DEF Ids
  <2> QED
    BY <1>4, <2>1, <2>2
<1>11. y.live = 0 .. (n + 1) - 1
  BY <1>1, <1>4
<1>12. n + 1 <= MAX_RULE_NUM /\ n + 1 <= Len(s.rules)
  BY <1>1
<1>13. Ready(s, qs, y, N)
  BY <1>4, <1>7, <1>8, <1>9, <1>10, <1>11, <1>12 DEF Ready
<1> QED
  BY <1>13 DEF qs, p

-----------------------------------------------------------------------------
(* The engine is destroyed.                                                *)

\* The first i rules have given back their pages.
Leaving(s, x, n, i) ==
  {w \in Memories(s) :
     /\ w.table = x.table /\ w.live = i .. n - 1 /\ ~ w.exited
     /\ \A c \in Chunks(s) :
          w.inUse[c] = IF \E id \in Ids : id >= i /\ Holds(x, id, c) THEN 1 ELSE 0}

\* MemoryManager::unsubscribe: the pages of one rule are free again.
LEMMA LeaveOne ==
  ASSUME NEW s \in Setups, NEW x \in Memories(s), Apart(s, x), NEW n \in Nat, NEW i \in 1 .. n,
         i - 1 \in Ids, NEW w \in Leaving(s, x, n, i - 1), NEW y, y = Unsubscribe(w, i - 1)
  PROVE  y \in Leaving(s, x, n, i)
<1> DEFINE id == i - 1
           owned == UNION {Range(w.table[id][key]) : key \in DOMAIN w.table[id]}
           live == w.live \ {id}
           inUse == [c \in DOMAIN w.inUse |-> IF c \in owned THEN w.inUse[c] - 1 ELSE w.inUse[c]]
           onGpu == [c \in DOMAIN w.onGpu |->
                       IF \E e \in owned : e % w.d = c THEN -1 ELSE w.onGpu[c]]
<1>1. /\ w \in Memories(s) /\ w.table = x.table /\ w.live = i - 1 .. n - 1 /\ ~ w.exited
      /\ \A c \in Chunks(s) :
           w.inUse[c] = IF \E e \in Ids : e >= i - 1 /\ Holds(x, e, c) THEN 1 ELSE 0
  BY DEF Leaving
<1>2. y = [w EXCEPT !.live = live, !.inUse = inUse, !.onGpu = onGpu]
  BY DEF Unsubscribe
<1>3. ASSUME NEW c PROVE c \in owned <=> Holds(x, id, c)
  <2>1. \A key \in DOMAIN x.table[id] : x.table[id][key] \in Seq(Chunks(s))
    BY MemoryFacts
  <2>2. \A key \in DOMAIN x.table[id] :
          c \in Range(x.table[id][key]) <=> \E j \in 1 .. Len(x.table[id][key]) : x.table[id][key][j] = c
    BY <2>1, RangeOf
  <2> QED
    BY <1>1, <2>2 DEF Holds, Slot, At
<1> HIDE DEF owned
<1>4. ASSUME NEW c \in Chunks(s)
      PROVE  inUse[c] = IF \E e \in Ids : e >= i /\ Holds(x, e, c) THEN 1 ELSE 0
  <2>1. DOMAIN w.inUse = Chunks(s)
    BY <1>1 DEF Memories
  <2>2. inUse[c] = IF Holds(x, id, c) THEN w.inUse[c] - 1 ELSE w.inUse[c]
    BY <1>3, <2>1
  <2>3. \A e \in Ids : e >= i - 1 <=> (e = id \/ e >= i)
    BY DEF Ids
  <2>4. CASE Holds(x, id, c)
    <3>1. w.inUse[c] = 1
      BY <1>1, <2>3, <2>4
    <3>2. ASSUME NEW e \in Ids, e >= i, Holds(x, e, c) PROVE FALSE
      <4>1. PICK k1, j1 : Slot(x, id, k1, j1) /\ At(x, id, k1, j1) = c
        BY <2>4 DEF Holds
      <4>2. PICK k2, j2 : Slot(x, e, k2, j2) /\ At(x, e, k2, j2) = c
        BY <3>2 DEF Holds
      <4>3. id = e
        BY <4>1, <4>2 DEF Apart
      <4> QED
        BY <3>2, <4>3 DEF Ids
    <3> HIDE DEF inUse
    <3> QED
      BY <2>2, <2>4, <3>1, <3>2
  <2>5. CASE ~ Holds(x, id, c)
    <3>1. (\E e \in Ids : e >= i - 1 /\ Holds(x, e, c)) <=> (\E e \in Ids : e >= i /\ Holds(x, e, c))
      BY <2>3, <2>5
    <3> HIDE DEF inUse
    <3> QED
      BY <1>1, <2>2, <2>5, <3>1
  <2> QED
    BY <2>4, <2>5
<1>5. inUse \in [Chunks(s) -> Nat]
  <2>1. inUse = [c \in Chunks(s) |-> inUse[c]]
    BY <1>1 DEF Memories
  <2> HIDE DEF inUse
  <2>2. \A c \in Chunks(s) : inUse[c] \in Nat
    BY <1>4
  <2> QED
    BY <2>1, <2>2
<1>6. onGpu \in [Chunks(s) -> -1 .. MAX_RULE_NUM - 1]
  <2>1. w.onGpu \in [Chunks(s) -> -1 .. MAX_RULE_NUM - 1] /\ -1 \in -1 .. MAX_RULE_NUM - 1
    BY <1>1, SetupFacts DEF Memories
  <2> QED
    BY <2>1
<1>7. live \in SUBSET Ids /\ live = i .. n - 1
  <2>1. w.live \in SUBSET Ids
    BY <1>1 DEF Memories
  <2> QED
    BY <1>1, <2>1
<1> HIDE DEF inUse, onGpu, live
<1>8. /\ y \in Memories(s) /\ y.table = w.table /\ y.live = live /\ y.exited = w.exited
      /\ y.inUse = inUse
  BY <1>1, <1>2, <1>5, <1>6, <1>7 DEF Memories
<1> QED
  BY <1>1, <1>4, <1>7, <1>8 DEF Leaving

\* What is left of the processors and the memory.
Gone(s, ps, x, N) ==
  /\ x \in Memories(s) /\ x.live = {} /\ \A c \in Chunks(s) : x.inUse[c] = 0
  /\ ps \in Seq(Range(ps)) /\ Len(ps) <= MAX_RULE_NUM /\ Len(ps) <= Len(s.rules)
  /\ \A i \in 1 .. Len(ps) :
       (\E V : ps[i] \in Procs(s, s.rules[i], i - 1, N, V)) /\ Fits(s, ps[i], x)

\* Every page is given back.
LEMMA DestroyKeeps ==
  ASSUME NEW s \in Setups, NEW N \in Nat, Ready(s, processors, m, N), Destroy
  PROVE  Gone(s, processors, m', N)
<1> DEFINE n == Len(processors)
           round(w, i) == Unsubscribe(w, processors[i].id)
           Stage(i) == Leaving(s, m, n, i)
           S == [i \in 0 .. n |-> Stage(i)]
           F == [i \in 1 .. n |-> [w \in S[i - 1] |-> round(w, i)]]
           Eq(g) == g = [i \in 0 .. n |-> IF i = 0 THEN m ELSE round(g[i - 1], i)]
           h == CHOOSE g : Eq(g)
<1>1. n \in Nat
  BY ReadyFacts
<1>2. m' = h[n]
  BY DEF Destroy
<1>20. m \in Memories(s) /\ Owned(s, m) /\ ~ m.exited /\ m.live = 0 .. n - 1
  BY DEF Ready, Good
<1>21. ASSUME NEW i \in 1 .. n PROVE processors[i].id = i - 1 /\ i - 1 \in Ids
  <2>1. PICK V : processors[i] \in Procs(s, s.rules[i], i - 1, N, V)
    BY DEF Ready
  <2>2. processors[i].id = i - 1
    BY <2>1 DEF Procs
  <2> QED
    BY <2>2, ReadyFacts
<1>3. ASSUME NEW i \in 1 .. n, NEW w \in Stage(i - 1) PROVE round(w, i) \in Stage(i)
  <2>1. round(w, i) = Unsubscribe(w, i - 1) /\ i - 1 \in Ids /\ Apart(s, m)
    BY <1>20, <1>21 DEF Owned
  <2> HIDE DEF round, n
  <2> QED
    BY <1>1, <1>20, <2>1, LeaveOne
<1>5. m \in Stage(0)
  <2>1. \A id \in Ids : id >= 0
    BY DEF Ids
  <2> QED
    BY <1>20, <2>1 DEF Leaving, Owned, Counted
<1>4. S[0] = Stage(0) /\ \A i \in 1 .. n : S[i] = Stage(i) /\ S[i - 1] = Stage(i - 1)
  <2>1. 0 \in 0 .. n /\ \A i \in 1 .. n : i - 1 \in 0 .. n /\ i \in 0 .. n
    BY <1>1
  <2> HIDE DEF Stage, n
  <2> QED
    BY <2>1
<1> HIDE DEF round, Stage
<1>6. \A i \in 1 .. n : \A y \in S[i - 1] : F[i][y] = round(y, i) /\ F[i][y] \in S[i]
  <2> SUFFICES ASSUME NEW i \in 1 .. n, NEW y \in S[i - 1]
               PROVE  F[i][y] = round(y, i) /\ F[i][y] \in S[i]
    OBVIOUS
  <2> HIDE DEF S
  <2>1. F[i][y] = round(y, i)
    OBVIOUS
  <2> QED
    BY <1>3, <1>4, <2>1
<1> HIDE DEF F, S, n
<1>7. Body(F, n, S) /\ m \in S[0]
  BY <1>4, <1>5, <1>6 DEF Body
<1>8. PICK g : Loop(g, F, n, S, m)
  BY <1>1, <1>7, LoopExists
<1>9. Eq(g)
  <2>1. ASSUME NEW i \in 1 .. n PROVE g[i] = round(g[i - 1], i)
    <3>1. i - 1 \in 0 .. n
      BY <1>1
    <3>2. g[i - 1] \in S[i - 1]
      BY <1>8, <3>1 DEF Loop
    <3> QED
      BY <1>6, <1>8, <3>2 DEF Loop
  <2>2. g = [i \in 0 .. n |-> g[i]] /\ g[0] = m
    BY <1>8 DEF Loop
  <2>3. ASSUME NEW i \in 0 .. n PROVE g[i] = IF i = 0 THEN m ELSE round(g[i - 1], i)
    <3>1. i # 0 => i \in 1 .. n
      BY <1>1
    <3> QED
      BY <2>1, <2>2, <3>1
  <2> QED
    BY <2>2, <2>3
<1>10. Eq(h)
  BY <1>9
<1> HIDE DEF h
<1>11. h[0] = m /\ \A i \in 1 .. n : h[i] = round(h[i - 1], i)
  <2>1. ASSUME NEW i \in 0 .. n PROVE h[i] = IF i = 0 THEN m ELSE round(h[i - 1], i)
    BY <1>10
  <2>2. 0 \in 0 .. n /\ \A i \in 1 .. n : i \in 0 .. n /\ i # 0
    BY <1>1
  <2> QED
    BY <2>1, <2>2
<1>12. \A i \in 1 .. n : h[i - 1] \in S[i - 1] => h[i] \in S[i]
  BY <1>3, <1>4, <1>11
<1>13. \A i \in 0 .. n : h[i] \in S[i]
  BY <1>1, <1>7, <1>11, <1>12, LoopStays
<1>14. h[n] \in Stage(n)
  <2>1. n \in 0 .. n /\ (n = 0 \/ n \in 1 .. n)
    BY <1>1
  <2> QED
    BY <1>4, <1>13, <2>1
<1>15. m' \in Leaving(s, m, n, n)
  BY <1>2, <1>14 DEF Stage
<1>16. /\ m' \in Memories(s) /\ m'.table = m.table /\ m'.live = {}
       /\ \A c \in Chunks(s) : m'.inUse[c] = 0
  <2>1. ASSUME NEW id \in Ids, id >= n, NEW c PROVE ~ Holds(m, id, c)
    <3>1. DOMAIN m.table[id] = {}
      BY <2>1 DEF Ready, n
    <3> QED
      BY <3>1 DEF Holds, Slot
  <2>2. n .. n - 1 = {}
    BY <1>1
  <2> QED
    BY <1>15, <2>1, <2>2 DEF Leaving
<1>17. \A i, k : PagesOf(m', i, k) = PagesOf(m, i, k)
  BY <1>16 DEF PagesOf
<1>18. ASSUME NEW i \in 1 .. n PROVE Fits(s, processors[i], m')
  <2>1. Fits(s, processors[i], m)
    BY DEF Ready, n
  <2> QED
    BY <1>17, <2>1 DEF Fits
<1> QED
  BY <1>16, <1>18 DEF Ready, Gone, n

-----------------------------------------------------------------------------
(* The invariant.                                                          *)

Packets(q) == q \in Seq(Range(q)) /\ \A j \in 1 .. Len(q) : q[j].ts \in Nat

\* Result sets that are left name packets.
Left(q, N) == q \in Seq((SUBSET (1 .. N)) \ {{}})

Inv ==
  /\ setup \in Setups /\ status \in {"running", "exited", "destroyed"}
  /\ recursionDepth \in 0 .. MAX_RECURSION_DEPTH /\ now \in Nat
  /\ Packets(pkts) /\ Left(results, Len(pkts))
  /\ used \in Seq(Range(used)) /\ Len(used) = Len(processors)
  /\ status # "destroyed" => Ready(setup, processors, m, Len(pkts))
  /\ status = "destroyed" => Gone(setup, processors, m, Len(pkts))

\* The engine starts without processors and without pages in use.
LEMMA InitInv == Init => Inv
<1> SUFFICES ASSUME Init PROVE Inv
  OBVIOUS
<1> DEFINE s == setup
<1>1. s \in Setups /\ s.start \in Nat /\ Len(s.rules) \in Nat
  BY SetupsAssumption, RuleFacts DEF Init, SetupOK
<1>2. MAX_RULE_NUM \in Nat /\ MAX_RECURSION_DEPTH \in Nat
  BY SetupsAssumption
<1>3. /\ m = NewMemoryManager(s.d, s.mul, s.page, s.alloc) /\ processors = <<>>
      /\ pkts = <<>> /\ results = <<>> /\ used = <<>> /\ status = "running"
      /\ recursionDepth = 0 /\ now = s.start
  BY DEF Init
<1>4. Packets(pkts)
  BY <1>3 DEF Packets, Range
<1>5. Left(results, Len(pkts))
  BY <1>3 DEF Left
<1>6. used \in Seq(Range(used)) /\ Len(used) = Len(processors)
  BY <1>3 DEF Range
<1> HIDE DEF s
<1> DEFINE empty == [o \in 0 .. s.page - 1 |-> 0]
           none == [key \in {} |-> <<>>]
<1>7. /\ m.d = s.d /\ m.page = s.page /\ m.alloc = s.alloc /\ m.exited = FALSE
      /\ m.inUse = [c \in Chunks(s) |-> 0] /\ m.onGpu = [c \in Chunks(s) |-> -1]
      /\ m.live = {} /\ m.table = [id \in Ids |-> none]
      /\ m.host = [c \in Chunks(s) |-> empty] /\ m.dev = [c \in 0 .. s.d - 1 |-> empty]
      /\ m = [d |-> m.d, page |-> m.page, alloc |-> m.alloc, exited |-> m.exited,
              inUse |-> m.inUse, onGpu |-> m.onGpu, live |-> m.live, table |-> m.table,
              host |-> m.host, dev |-> m.dev]
  BY <1>3 DEF NewMemoryManager, Chunks, Ids
<1>8. empty \in Contents(s)
  BY DEF Contents
<1>9. none \in Tables(s) /\ DOMAIN none = {}
  <2>1. none \in [{} -> Seq(Chunks(s))] /\ {} \in SUBSET AllKeys
    OBVIOUS
  <2> QED
    BY <2>1 DEF Tables
<1> HIDE DEF empty, none
<1>10. /\ m.inUse \in [Chunks(s) -> Nat] /\ m.onGpu \in [Chunks(s) -> -1 .. MAX_RULE_NUM - 1]
       /\ m.table \in [Ids -> Tables(s)] /\ m.host \in [Chunks(s) -> Contents(s)]
       /\ m.dev \in [0 .. s.d - 1 -> Contents(s)]
  <2>1. -1 \in -1 .. MAX_RULE_NUM - 1
    BY <1>2
  <2> QED
    BY <1>7, <1>8, <1>9, <2>1
<1>11. m \in Memories(s)
  BY <1>7, <1>10 DEF Memories
<1>12. \A id \in Ids : DOMAIN m.table[id] = {}
  BY <1>7, <1>9
<1>13. \A id, key, j : ~ Slot(m, id, key, j)
  BY <1>12 DEF Slot
<1>14. Owned(s, m)
  BY <1>7, <1>13 DEF Owned, Counted, Apart, Holds
<1>15. Coherent(s, m)
  <2>1. s.mul = 1 => \A c \in Chunks(s) : c \in 0 .. s.d - 1
    BY <1>1, NoSwap
  <2> QED
    BY <1>7, <2>1 DEF Coherent
<1>16. Len(processors) = 0 /\ processors \in Seq(Range(processors))
  BY <1>3 DEF Range
<1>17. Len(pkts) = 0
  BY <1>3
<1>18. Ready(s, processors, m, Len(pkts))
  <2>1. 1 .. 0 = {} /\ 0 .. 0 - 1 = {}
    OBVIOUS
  <2> QED
    BY <1>1, <1>2, <1>7, <1>11, <1>12, <1>14, <1>15, <1>16, <2>1 DEF Ready, Good
<1> QED
  BY <1>1, <1>2, <1>3, <1>4, <1>5, <1>6, <1>18 DEF Inv, s

\* Functions on 1 .. n are sequences.
LEMMA IsSequence ==
  ASSUME NEW n \in Nat, NEW f, f = [i \in 1 .. n |-> f[i]]
  PROVE  f \in Seq(Range(f)) /\ Len(f) = n /\ DOMAIN f = 1 .. n
<1>1. DOMAIN f = 1 .. n
  OBVIOUS
<1>2. \A i \in 1 .. n : f[i] \in Range(f)
  BY <1>1 DEF Range
<1> QED
  BY <1>1, <1>2

\* Packets with time stamps, joined.
LEMMA JoinPackets ==
  ASSUME NEW a, NEW b, Packets(a), Packets(b)
  PROVE  Packets(a \o b) /\ Len(a \o b) = Len(a) + Len(b) /\ Len(a) \in Nat /\ Len(b) \in Nat
<1> DEFINE P == Range(a) \cup Range(b)
           q == a \o b
<1>1. a \in Seq(Range(a)) /\ b \in Seq(Range(b))
  BY DEF Packets
<1>2. /\ Len(a) \in Nat /\ Len(b) \in Nat /\ a = [i \in 1 .. Len(a) |-> a[i]]
      /\ b = [i \in 1 .. Len(b) |-> b[i]]
      /\ \A i \in 1 .. Len(a) : a[i] \in P
      /\ \A i \in 1 .. Len(b) : b[i] \in P
  BY <1>1, RangeOf
<1> HIDE DEF P
<1>3. a \in Seq(P) /\ b \in Seq(P)
  BY <1>2
<1>4. /\ q \in Seq(P) /\ Len(q) = Len(a) + Len(b)
      /\ \A i \in 1 .. Len(a) + Len(b) : q[i] = IF i <= Len(a) THEN a[i] ELSE b[i - Len(a)]
  BY <1>3, ConcatFacts
<1> HIDE DEF q
<1>5. q \in Seq(Range(q))
  <2>1. q = [i \in 1 .. Len(q) |-> q[i]] /\ Len(q) \in Nat
    BY <1>2, <1>4
  <2> QED
    BY <2>1, IsSequence
<1>6. ASSUME NEW i \in 1 .. Len(q) PROVE q[i].ts \in Nat
  <2>1. CASE i <= Len(a)
    <3>1. i \in 1 .. Len(a)
      BY <1>2, <2>1
    <3> QED
      BY <1>4, <2>1, <3>1 DEF Packets
  <2>2. CASE ~ (i <= Len(a))
    <3>1. i - Len(a) \in 1 .. Len(b)
      BY <1>2, <1>4, <2>2
    <3> QED
      BY <1>4, <2>2, <3>1 DEF Packets
  <2> QED
    BY <2>1, <2>2
<1> QED
  BY <1>2, <1>4, <1>5, <1>6 DEF Packets, q

\* The composite events of all processors.
LEMMA MadePackets ==
  ASSUME NEW n \in Nat, NEW q, q = [i \in 1 .. n |-> q[i]], \A i \in 1 .. n : MadeOK(q[i]),
         NEW all, all = FlattenSeq(q)
  PROVE  Packets([i \in DOMAIN all |-> all[i].ce]) /\ Len(all) \in Nat
         /\ Len([i \in DOMAIN all |-> all[i].ce]) = Len(all)
<1> DEFINE S == {g \in UNION {Range(q[i]) : i \in 1 .. n} : g.ce.ts \in Nat}
           ces == [i \in DOMAIN all |-> all[i].ce]
<1>1. ASSUME NEW i \in 1 .. n PROVE q[i] \in Seq(S)
  <2>1. MadeOK(q[i])
    OBVIOUS
  <2>2. /\ Len(q[i]) \in Nat /\ DOMAIN q[i] = 1 .. Len(q[i])
        /\ q[i] = [j \in 1 .. Len(q[i]) |-> q[i][j]]
        /\ \A j \in 1 .. Len(q[i]) : q[i][j] \in Range(q[i])
    BY <2>1, RangeOf DEF MadeOK
  <2>3. \A j \in 1 .. Len(q[i]) : q[i][j] \in S
    BY <2>1, <2>2 DEF MadeOK
  <2> HIDE DEF S
  <2> QED
    BY <2>2, <2>3
<1>2. \A g \in S : g.ce.ts \in Nat
  OBVIOUS
<1> HIDE DEF S
<1>3. q \in Seq(Seq(S))
  BY <1>1
<1>4. all \in Seq(S)
  BY <1>3, FlattenFacts
<1>5. Len(all) \in Nat /\ DOMAIN all = 1 .. Len(all) /\ \A i \in 1 .. Len(all) : all[i] \in S
  BY <1>4, RangeOf, Zenon
<1>6. ces = [i \in 1 .. Len(all) |-> ces[i]] /\ \A i \in 1 .. Len(all) : ces[i].ts \in Nat
  BY <1>2, <1>5
<1> HIDE DEF ces
<1>7. ces \in Seq(Range(ces)) /\ Len(ces) = Len(all)
  BY <1>5, <1>6, IsSequence
<1> QED
  BY <1>5, <1>6, <1>7 DEF Packets, ces

\* Results that are left name packets, also when there are more packets.
LEMMA LeftGrows ==
  ASSUME NEW q, NEW N \in Nat, NEW M \in Nat, N <= M, Left(q, N)
  PROVE  Left(q, M)
<1>1. (SUBSET (1 .. N)) \ {{}} \subseteq (SUBSET (1 .. M)) \ {{}}
  <2>1. 1 .. N \subseteq 1 .. M
    OBVIOUS
  <2> QED
    BY <2>1
<1> DEFINE A == (SUBSET (1 .. N)) \ {{}}
           B == (SUBSET (1 .. M)) \ {{}}
<1>2. q \in Seq(A) /\ A \subseteq B
  BY <1>1 DEF Left
<1> HIDE DEF A, B
<1>3. q \in Seq(B)
  BY <1>2
<1> QED
  BY <1>3 DEF Left, B

\* Where the code calls exit nothing else changes.
LEMMA ExitInv ==
  ASSUME Inv, status = "running", Exit
  PROVE  Inv'
<1>1. /\ status' = "exited" /\ setup' = setup /\ m' = m /\ processors' = processors
      /\ recursionDepth' = recursionDepth /\ results' = results /\ pkts' = pkts
      /\ now' = now /\ used' = used
  BY DEF Exit
<1>2. Ready(setup, processors, m, Len(pkts))
  BY DEF Inv
<1>3. Ready(setup', processors', m', Len(pkts'))
  BY <1>1, <1>2
<1> QED
  BY <1>1, <1>3 DEF Inv

\* A rule is added.
LEMMA RuleInv ==
  ASSUME Inv, ProcessRulePkt
  PROVE  Inv'
<1> DEFINE rule == setup.rules[Len(processors) + 1]
<1>1. status = "running" /\ Len(processors) < Len(setup.rules)
  BY DEF ProcessRulePkt
<1>2. Ready(setup, processors, m, Len(pkts)) /\ setup \in Setups /\ Len(pkts) \in Nat
  BY <1>1 DEF Inv, Packets
<1>3. CASE Exit
  BY <1>1, <1>3, ExitInv
<1>4. CASE ~ Exit
  <2>1. /\ RoomFor(rule) /\ m' = Subscribe(m, SubscribedKeys(rule))
        /\ processors' = Append(processors, NewProcessor(rule, Token(m), m.alloc, Len(seen)))
        /\ used' = Append(used, {})
        /\ setup' = setup /\ recursionDepth' = recursionDepth /\ results' = results
        /\ status' = status /\ pkts' = pkts /\ now' = now
    BY <1>4 DEF ProcessRulePkt
  <2>2. ~ m'.exited /\ Len(processors) < MAX_RULE_NUM
    <3>1. Len(processors) \in Nat /\ MAX_RULE_NUM \in Nat
      BY <1>2, ReadyFacts, SetupFacts
    <3> QED
      BY <2>1, <3>1 DEF RoomFor
  <2>3. Ready(setup, processors', m', Len(pkts))
    <3> DEFINE ps == processors'
               y == m'
               N == Len(pkts)
    <3>1. /\ ps = Append(processors, NewProcessor(rule, Token(m), m.alloc, Len(seen)))
          /\ y = Subscribe(m, SubscribedKeys(rule)) /\ ~ y.exited
      BY <2>1, <2>2
    <3> HIDE DEF rule
    <3>2. rule = setup.rules[Len(processors) + 1]
      BY DEF rule
    <3> HIDE DEF ps, y, N
    <3>3. N \in Nat /\ Ready(setup, processors, m, N)
      BY <1>2 DEF N
    <3>4. Ready(setup, Append(processors, NewProcessor(rule, Token(m), m.alloc, Len(seen))), y, N)
      BY <1>1, <1>2, <2>2, <3>1, <3>2, <3>3, RuleAdded
    <3>5. Ready(setup, ps, y, N)
      BY <3>1, <3>4
    <3> QED
      BY <3>5 DEF ps, y, N
  <2>4. used' \in Seq(Range(used')) /\ Len(used') = Len(processors')
    <3>1. used \in Seq(Range(used)) /\ processors \in Seq(Range(processors)) /\ Len(used) = Len(processors)
      BY <1>2 DEF Inv, Ready
    <3>2. used' \in Seq(Range(used')) /\ Len(used') = Len(used) + 1
      BY <2>1, <3>1, AppendFacts
    <3>3. Len(processors') = Len(processors) + 1
      BY <2>1, <3>1, AppendFacts
    <3> QED
      BY <3>1, <3>2, <3>3
  <2> QED
    BY <1>1, <2>1, <2>3, <2>4 DEF Inv
<1> QED
  BY <1>3, <1>4

\* The packets after a call: the composite events follow those that were there.
LEMMA ConcludeInv ==
  ASSUME Inv, status = "running",
         NEW pk, Packets(pk), Len(pkts) <= Len(pk), NEW k \in 1 .. Len(pk), NEW undef,
         NEW below, Left(below, Len(pk)), NEW depth \in 0 .. MAX_RECURSION_DEPTH,
         Conclude(RunProcessors(pk, k, undef), pk, k, below, depth)
  PROVE  Inv'
<1> DEFINE r == RunProcessors(pk, k, undef)
           all == FlattenSeq(r.made)
           ces == [i \in DOMAIN all |-> all[i].ce]
           set == Len(pk) + 1 .. Len(pk) + Len(all)
           N == Len(pk)
<1>1. /\ Ready(setup, processors, m, Len(pkts)) /\ setup \in Setups /\ Len(pkts) \in Nat
      /\ N \in Nat /\ pk[k].ts \in Nat
  BY DEF Inv, Packets
<1>2. CASE Exit
  BY <1>2, ExitInv
<1>3. CASE ~ Exit
  <2>1. /\ m' = r.m /\ processors' = r.ps
        /\ pkts' = pk \o ces
        /\ used' = [i \in DOMAIN used |-> used[i] \union Consumed(processors[i], r.made[i])]
        /\ results' = IF recursionNeeded /\ set # {} THEN Append(below, set) ELSE below
        /\ recursionDepth' = depth /\ now' = IF depth = 0 THEN pk[k].ts ELSE now
        /\ setup' = setup /\ status' = status
    BY <1>3 DEF Conclude
  <2>2. Ready(setup, processors, m, N)
    BY <1>1, ReadyGrows
  <2> HIDE DEF N, r
  <2>3. /\ Ready(setup, r.ps, r.m, N) /\ Len(r.ps) = Len(processors)
        /\ r.made = [i \in 1 .. Len(processors) |-> r.made[i]]
        /\ \A i \in 1 .. Len(processors) : MadeOK(r.made[i])
    <3>1. r = RunProcessors(pk, k, undef) /\ k \in 1 .. N
      BY DEF r, N
    <3> QED
      BY <1>1, <2>2, <3>1, RunKeeps, SMTT(60)
  <2>4. Len(processors) \in Nat
    BY <1>1, ReadyFacts
  <2>5. Packets(ces) /\ Len(all) \in Nat /\ Len(ces) = Len(all)
    BY <2>3, <2>4, MadePackets
  <2> HIDE DEF all, ces
  <2>6. Packets(pkts') /\ Len(pkts') = N + Len(all)
    BY <2>1, <2>5, JoinPackets DEF N
  <2> DEFINE M == N + Len(all)
  <2>7. M \in Nat /\ N <= M
    BY <1>1, <2>5
  <2>8. set = N + 1 .. M
    BY DEF N
  <2> HIDE DEF M, set
  <2>9. Ready(setup', processors', m', Len(pkts'))
    <3>1. Ready(setup, r.ps, r.m, M)
      BY <1>1, <2>3, <2>7, ReadyGrows
    <3> QED
      BY <2>1, <2>6, <3>1 DEF M
  <2>10. Left(results', Len(pkts'))
    <3>1. Left(below, M)
      <4>1. Left(below, N)
        BY DEF N
      <4> QED
        BY <1>1, <2>7, <4>1, LeftGrows
    <3>2. ASSUME set # {} PROVE Left(Append(below, set), M)
      <4>1. set \in (SUBSET (1 .. M)) \ {{}}
        BY <1>1, <2>7, <2>8, <3>2, SMTT(60)
      <4> QED
        BY <3>1, <4>1 DEF Left
    <3> QED
      BY <2>1, <2>6, <3>1, <3>2 DEF M
  <2>11. used' \in Seq(Range(used')) /\ Len(used') = Len(processors')
    <3>1. used \in Seq(Range(used)) /\ Len(used) = Len(processors)
      BY DEF Inv
    <3>2. DOMAIN used = 1 .. Len(processors)
      BY <3>1
    <3>3. used' = [i \in 1 .. Len(processors) |-> used'[i]]
      BY <2>1, <3>2
    <3> DEFINE f == used'
    <3>4. f \in Seq(Range(f)) /\ Len(f) = Len(processors)
      <4> HIDE DEF f
      <4>1. f = [i \in 1 .. Len(processors) |-> f[i]]
        BY <3>3 DEF f
      <4> QED
        BY <2>4, <4>1, IsSequence
    <3> QED
      BY <2>1, <2>3, <3>4
  <2>12. now' \in Nat
    BY <1>1, <2>1 DEF Inv
  <2> QED
    BY <2>1, <2>6, <2>9, <2>10, <2>11, <2>12 DEF Inv
<1> QED
  BY <1>2, <1>3

\* A packet from outside.
LEMMA PublishInv ==
  ASSUME Inv, Publish
  PROVE  Inv'
<1>1. PICK t \in setup.packets, dt \in setup.steps, undef \in BOOLEAN :
        Handle(Append(pkts, [eventType |-> t.eventType, ts |-> now + dt, attrs |-> t.attrs]),
               Len(pkts) + 1, <<>>, 0, undef)
  BY DEF Publish
<1> DEFINE ev == [eventType |-> t.eventType, ts |-> now + dt, attrs |-> t.attrs]
           pk == Append(pkts, ev)
           k == Len(pkts) + 1
<1>2. status = "running" /\ setup \in Setups /\ now \in Nat /\ Packets(pkts)
  BY DEF Publish, Inv
<1>3. dt \in Nat
  BY <1>2, SetupsAssumption DEF SetupOK
<1>4. ev.ts \in Nat
  BY <1>2, <1>3
<1> HIDE DEF ev
<1>5. /\ pk \in Seq(Range(pk)) /\ Len(pk) = Len(pkts) + 1 /\ pk[Len(pkts) + 1] = ev
      /\ \A i \in 1 .. Len(pkts) : pk[i] = pkts[i]
  BY <1>2, AppendFacts DEF Packets
<1>6. Len(pkts) \in Nat
  BY <1>2 DEF Packets
<1> HIDE DEF pk
<1>7. Packets(pk)
  <2>1. ASSUME NEW j \in 1 .. Len(pk) PROVE pk[j].ts \in Nat
    <3>1. j = Len(pkts) + 1 \/ j \in 1 .. Len(pkts)
      BY <1>5, <1>6
    <3> QED
      BY <1>2, <1>4, <1>5, <3>1 DEF Packets
  <2> QED
    BY <1>5, <2>1 DEF Packets
<1>8. k \in 1 .. Len(pk) /\ Len(pkts) <= Len(pk)
  BY <1>5, <1>6
<1>9. Left(<<>>, Len(pk))
  BY DEF Left
<1>10. 0 \in 0 .. MAX_RECURSION_DEPTH
  BY SetupsAssumption
<1>11. Conclude(RunProcessors(pk, k, undef), pk, k, <<>>, 0)
  BY <1>1 DEF Handle, pk, ev
<1> HIDE DEF k
<1> QED
  BY <1>2, <1>7, <1>8, <1>9, <1>10, <1>11, ConcludeInv

\* A result of the innermost call.
LEMMA RecurInv ==
  ASSUME Inv, Recur
  PROVE  Inv'
<1>1. PICK k \in Last(results), undef \in BOOLEAN :
        Handle(pkts, k, Rest(k), recursionDepth + 1, undef)
  BY DEF Recur
<1>2. /\ status = "running" /\ Packets(pkts) /\ results # <<>> /\ Left(results, Len(pkts))
      /\ recursionDepth < MAX_RECURSION_DEPTH /\ recursionDepth \in 0 .. MAX_RECURSION_DEPTH
  BY DEF Recur, Inv, MayRecur
<1> DEFINE S == (SUBSET (1 .. Len(pkts))) \ {{}}
           top == Last(results)
           front == Front(results)
<1>3. results \in Seq(S) /\ Len(pkts) \in Nat
  BY <1>2 DEF Left, Packets
<1>4. Len(results) \in Nat \ {0}
  BY <1>2, <1>3
<1>5. top \in S
  <2>1. results[Len(results)] \in S
    <3> HIDE DEF S
    <3> QED
      BY <1>3, <1>4
  <2> QED
    BY <2>1 DEF Last
<1>6. front \in Seq(S)
  <2> HIDE DEF S
  <2>1. SubSeq(results, 1, Len(results) - 1) \in Seq(S)
    BY <1>3, <1>4, SubSeqProperties
  <2> QED
    BY <2>1 DEF Front
<1>7. k \in 1 .. Len(pkts)
  BY <1>5
<1>8. top \ {k} # {} => top \ {k} \in S
  BY <1>5
<1>9. Rest(k) = IF top \ {k} = {} THEN front ELSE Append(front, top \ {k})
  BY DEF Rest
<1> HIDE DEF S, top, front
<1>10. Rest(k) \in Seq(S)
  BY <1>6, <1>8, <1>9
<1>11. Left(Rest(k), Len(pkts))
  BY <1>10 DEF Left, S
<1>12. recursionDepth + 1 \in 0 .. MAX_RECURSION_DEPTH
  BY <1>2, SetupsAssumption
<1>13. Conclude(RunProcessors(pkts, k, undef), pkts, k, Rest(k), recursionDepth + 1)
  BY <1>1 DEF Handle
<1>14. Len(pkts) <= Len(pkts)
  BY <1>3
<1> QED
  BY <1>2, <1>7, <1>11, <1>12, <1>13, <1>14, ConcludeInv

\* Results beyond the depth limit are dropped.
LEMMA DropInv ==
  ASSUME Inv, DropResults
  PROVE  Inv'
<1>1. /\ status' = status /\ setup' = setup /\ m' = m /\ processors' = processors
      /\ recursionDepth' = recursionDepth /\ results' = <<>> /\ pkts' = pkts
      /\ now' = now /\ used' = used
  BY DEF DropResults
<1>2. Left(<<>>, Len(pkts))
  BY DEF Left
<1>3. /\ status # "destroyed" => Ready(setup', processors', m', Len(pkts'))
      /\ status = "destroyed" => Gone(setup', processors', m', Len(pkts'))
  BY <1>1 DEF Inv
<1> QED
  BY <1>1, <1>2, <1>3 DEF Inv

\* The destructor unsubscribes every processor.
LEMMA DestroyInv ==
  ASSUME Inv, Destroy
  PROVE  Inv'
<1>1. /\ status = "running" /\ status' = "destroyed" /\ setup' = setup /\ processors' = processors
      /\ recursionDepth' = recursionDepth /\ results' = results /\ pkts' = pkts
      /\ now' = now /\ used' = used
  BY DEF Destroy
<1>2. Ready(setup, processors, m, Len(pkts)) /\ setup \in Setups /\ Len(pkts) \in Nat
  BY <1>1 DEF Inv, Packets
<1>3. Gone(setup, processors, m', Len(pkts))
  BY <1>2, DestroyKeeps
<1>4. Gone(setup', processors', m', Len(pkts'))
  BY <1>1, <1>3
<1> QED
  BY <1>1, <1>4 DEF Inv

\* A step that changes nothing.
LEMMA StutterInv ==
  ASSUME Inv, UNCHANGED gvars
  PROVE  Inv'
<1>1. /\ status' = status /\ setup' = setup /\ m' = m /\ processors' = processors
      /\ recursionDepth' = recursionDepth /\ results' = results /\ pkts' = pkts
      /\ now' = now /\ used' = used
  BY DEF gvars
<1>2. /\ status # "destroyed" => Ready(setup', processors', m', Len(pkts'))
      /\ status = "destroyed" => Gone(setup', processors', m', Len(pkts'))
  BY <1>1 DEF Inv
<1> QED
  BY <1>1, <1>2 DEF Inv

\* Inv is an invariant of the engine.
THEOREM SpecInv == Spec => []Inv
<1>1. ASSUME Inv, [Next]_gvars PROVE Inv'
  <2>1. CASE ProcessRulePkt
    BY <1>1, <2>1, RuleInv
  <2>2. CASE Publish
    BY <1>1, <2>2, PublishInv
  <2>3. CASE Recur
    BY <1>1, <2>3, RecurInv
  <2>4. CASE DropResults
    BY <1>1, <2>4, DropInv
  <2>5. CASE Destroy
    BY <1>1, <2>5, DestroyInv
  <2>6. CASE UNCHANGED gvars
    BY <1>1, <2>6, StutterInv
  <2> QED
    BY <1>1, <2>1, <2>2, <2>3, <2>4, <2>5, <2>6 DEF Next
<1> QED
  BY <1>1, InitInv, PTL DEF Spec

-----------------------------------------------------------------------------
(* Theorems.                                                               *)

\* What both a running and a destroyed engine keep of its processors.
LEMMA InvFacts ==
  ASSUME Inv
  PROVE  /\ setup \in Setups /\ m \in Memories(setup) /\ Len(pkts) \in Nat
         /\ DOMAIN pkts = 1 .. Len(pkts) /\ DOMAIN processors = 1 .. Len(processors)
         /\ \A i \in 1 .. Len(processors) :
              /\ i - 1 \in Ids /\ Fits(setup, processors[i], m)
              /\ \E V : processors[i] \in Procs(setup, setup.rules[i], i - 1, Len(pkts), V)
<1>1. Len(pkts) \in Nat /\ DOMAIN pkts = 1 .. Len(pkts) /\ setup \in Setups
  BY DEF Inv, Packets
<1>2. Ready(setup, processors, m, Len(pkts)) \/ Gone(setup, processors, m, Len(pkts))
  BY DEF Inv
<1>3. /\ m \in Memories(setup) /\ processors \in Seq(Range(processors))
      /\ Len(processors) <= MAX_RULE_NUM
      /\ \A i \in 1 .. Len(processors) :
           /\ Fits(setup, processors[i], m)
           /\ \E V : processors[i] \in Procs(setup, setup.rules[i], i - 1, Len(pkts), V)
  BY <1>2 DEF Ready, Gone
<1>4. Len(processors) \in Nat /\ DOMAIN processors = 1 .. Len(processors) /\ MAX_RULE_NUM \in Nat
  BY <1>1, <1>3, SetupFacts
<1>5. \A i \in 1 .. Len(processors) : i - 1 \in Ids
  BY <1>3, <1>4 DEF Ids
<1> QED
  BY <1>1, <1>3, <1>4, <1>5

\* The indexes of every stack stay in its column, and it has no more pages than that.
LEMMA InvTypeOK == Inv => TypeOK
<1> SUFFICES ASSUME Inv PROVE TypeOK
  OBVIOUS
<1>1. status \in {"running", "exited", "destroyed"} /\ recursionDepth \in 0 .. MAX_RECURSION_DEPTH
  BY DEF Inv
<1>2. \A i \in DOMAIN results : results[i] # {} /\ results[i] \subseteq DOMAIN pkts
  <2>1. results \in Seq((SUBSET (1 .. Len(pkts))) \ {{}})
    BY DEF Inv, Left
  <2>2. \A i \in DOMAIN results : results[i] \in (SUBSET (1 .. Len(pkts))) \ {{}}
    BY <2>1
  <2> QED
    BY <2>2, InvFacts
<1>3. DOMAIN used = DOMAIN processors
  <2>1. used \in Seq(Range(used)) /\ Len(used) = Len(processors)
    BY DEF Inv
  <2> QED
    BY <2>1, InvFacts
<1>4. m.alloc = setup.alloc /\ m.page = setup.page
  BY InvFacts DEF Memories
<1>5. ASSUME NEW i \in DOMAIN processors
      PROVE  LET p == processors[i] IN
             /\ p.id \in 0 .. MAX_RULE_NUM - 1
             /\ \A key \in DOMAIN p.low :
                  /\ p.low[key] \in 0 .. m.alloc - 1 /\ p.high[key] \in 0 .. m.alloc - 1
                  /\ Len(PagesOf(m, p.id, key)) <= m.alloc \div m.page
                  /\ p.samples[key] \in 0 .. Len(pkts)
  <2> DEFINE p == processors[i]
             r == setup.rules[i]
  <2>1. i \in 1 .. Len(processors) /\ i - 1 \in Ids /\ Fits(setup, p, m)
    BY InvFacts
  <2>2. PICK V : p \in Procs(setup, r, i - 1, Len(pkts), V)
    BY <2>1, InvFacts
  <2> HIDE DEF p, r
  <2>3. /\ p.id = i - 1 /\ p.rule = r /\ p.low \in [Keys(r) -> Places(setup)]
        /\ p.high \in [Keys(r) -> Places(setup)] /\ p.samples \in [Keys(r) -> 0 .. Len(pkts)]
    BY <2>2 DEF Procs
  <2>4. ASSUME NEW key \in DOMAIN p.low
        PROVE  /\ p.low[key] \in 0 .. m.alloc - 1 /\ p.high[key] \in 0 .. m.alloc - 1
               /\ Len(PagesOf(m, p.id, key)) <= m.alloc \div m.page
               /\ p.samples[key] \in 0 .. Len(pkts)
    <3>1. key \in Keys(r)
      BY <2>3
    <3>2. Len(PagesOf(m, p.id, key)) <= Limit(setup)
      BY <2>1, <2>3, <3>1 DEF Fits, StackFits
    <3> QED
      BY <1>4, <2>3, <3>1, <3>2 DEF Places, Limit
  <2>5. p.id \in 0 .. MAX_RULE_NUM - 1
    BY <2>1, <2>3 DEF Ids
  <2> QED
    BY <2>4, <2>5 DEF p
<1>6. \A c \in DOMAIN m.inUse : m.inUse[c] \in Nat /\ m.onGpu[c] \in -1 .. MAX_RULE_NUM - 1
  BY InvFacts DEF Memories
<1> QED
  BY <1>1, <1>2, <1>3, <1>5, <1>6 DEF TypeOK

\* The type invariant of the engine, for any rules, packets and sizes of the memory:
\* indexes never leave their columns and the recursion stops at MAX_RECURSION_DEPTH.
THEOREM SpecTypeOK == Spec => []TypeOK
  BY SpecInv, InvTypeOK, PTL

\* A holder of a page is a slot of a live rule.
LEMMA HolderFacts ==
  ASSUME Ready(setup, processors, m, Len(pkts)), setup \in Setups, Len(pkts) \in Nat, NEW c
  PROVE  /\ \A h \in Holders(c) : /\ h = <<h[1], h[2], h[3]>> /\ Slot(m, h[1], h[2], h[3])
                                 /\ At(m, h[1], h[2], h[3]) = c
         /\ \A id, key, j : Slot(m, id, key, j) /\ At(m, id, key, j) = c => <<id, key, j>> \in Holders(c)
<1>1. /\ m \in Memories(setup) /\ m.live = 0 .. Len(processors) - 1 /\ m.alloc = setup.alloc
      /\ m.page = setup.page
      /\ \A id \in Ids : id >= Len(processors) => DOMAIN m.table[id] = {}
  BY DEF Ready, Memories
<1>2. Len(processors) \in Nat /\ Len(processors) <= MAX_RULE_NUM /\ MAX_RULE_NUM \in Nat
  BY ReadyFacts, SetupFacts DEF Ready
<1>3. ASSUME NEW h \in Holders(c)
      PROVE  h = <<h[1], h[2], h[3]>> /\ Slot(m, h[1], h[2], h[3]) /\ At(m, h[1], h[2], h[3]) = c
  <2> DEFINE L == m.alloc \div m.page
  <2>1. L \in Nat
    BY <1>1, SetupFacts DEF Limit
  <2>2. /\ h \in m.live \X (UNION {DOMAIN m.table[id] : id \in m.live}) \X (1 .. L)
        /\ h[2] \in DOMAIN m.table[h[1]] /\ h[3] <= Len(m.table[h[1]][h[2]])
        /\ m.table[h[1]][h[2]][h[3]] = c
    BY DEF Holders
  <2> HIDE DEF L
  <2>3. h = <<h[1], h[2], h[3]>> /\ h[1] \in m.live /\ h[3] \in 1 .. L
    BY <2>2
  <2>4. h[1] \in Ids
    BY <1>1, <1>2, <2>3 DEF Ids
  <2>5. m.table[h[1]][h[2]] \in Seq(Chunks(setup))
    BY <1>1, <2>2, <2>4, MemoryFacts
  <2>6. h[3] \in 1 .. Len(m.table[h[1]][h[2]])
    BY <2>1, <2>2, <2>3, <2>5
  <2> QED
    BY <2>2, <2>3, <2>4, <2>6 DEF Slot, At
<1>4. ASSUME NEW id, NEW key, NEW j, Slot(m, id, key, j), At(m, id, key, j) = c
      PROVE  <<id, key, j>> \in Holders(c)
  <2>1. id \in Ids /\ key \in DOMAIN m.table[id] /\ j \in 1 .. Len(m.table[id][key])
        /\ m.table[id][key][j] = c
    BY <1>4 DEF Slot, At
  <2>2. id \in m.live /\ id + 1 \in 1 .. Len(processors) /\ (id + 1) - 1 = id
    <3>1. ~ (id >= Len(processors))
      BY <1>1, <2>1
    <3> QED
      BY <1>1, <1>2, <2>1, <3>1 DEF Ids
  <2> DEFINE p == processors[id + 1]
             r == setup.rules[id + 1]
  <2>3. /\ Fits(setup, p, m) /\ DOMAIN m.table[id] = KeySet(r) /\ SoundRule(r)
        /\ \E V : p \in Procs(setup, r, id, Len(pkts), V)
    BY <2>2, ReadyFacts DEF Ready
  <2>4. p.rule = r /\ p.id = id
    BY <2>3 DEF Procs
  <2>5. key \in Keys(r)
    BY <2>1, <2>3 DEF Keys
  <2>6. Len(PagesOf(m, id, key)) <= Limit(setup)
    BY <2>3, <2>4, <2>5 DEF Fits, StackFits
  <2>7. PagesOf(m, id, key) = m.table[id][key] /\ PagesOf(m, id, key) \in Seq(Chunks(setup))
    BY <1>1, <2>1, MemoryFacts DEF PagesOf
  <2>8. j \in 1 .. m.alloc \div m.page /\ j <= Len(m.table[id][key])
    <3>1. Len(m.table[id][key]) \in Nat /\ Limit(setup) \in Nat /\ Limit(setup) = m.alloc \div m.page
      BY <1>1, <2>7, SetupFacts DEF Limit
    <3> QED
      BY <2>1, <2>6, <2>7, <3>1
  <2> DEFINE h == <<id, key, j>>
  <2>9. /\ h \in m.live \X (UNION {DOMAIN m.table[i] : i \in m.live}) \X (1 .. m.alloc \div m.page)
        /\ h[1] = id /\ h[2] = key /\ h[3] = j
    BY <2>1, <2>2, <2>8
  <2> HIDE DEF h
  <2>10. h \in Holders(c)
    BY <2>1, <2>8, <2>9 DEF Holders
  <2> QED
    BY <2>10 DEF h
<1> QED
  BY <1>3, <1>4

\* Pages of an engine that is not destroyed.
LEMMA ReadyExclusive ==
  ASSUME Ready(setup, processors, m, Len(pkts)), setup \in Setups, Len(pkts) \in Nat,
         status # "destroyed"
  PROVE  PagesExclusive
<1>1. m \in Memories(setup) /\ Counted(setup, m) /\ Apart(setup, m) /\ m.d = setup.d
  BY DEF Ready, Good, Owned, Memories
<1>2. DOMAIN m.inUse = Chunks(setup)
  BY <1>1 DEF Memories
<1>3. ASSUME NEW c \in DOMAIN m.inUse
      PROVE  m.inUse[c] = Cardinality(Holders(c)) /\ m.inUse[c] <= 1
  <2>1. /\ \A h \in Holders(c) : /\ h = <<h[1], h[2], h[3]>> /\ Slot(m, h[1], h[2], h[3])
                                /\ At(m, h[1], h[2], h[3]) = c
        /\ \A id, key, j : Slot(m, id, key, j) /\ At(m, id, key, j) = c => <<id, key, j>> \in Holders(c)
    BY HolderFacts
  <2>2. CASE \E id \in Ids : Holds(m, id, c)
    <3>1. PICK id, key, j : Slot(m, id, key, j) /\ At(m, id, key, j) = c
      BY <2>2 DEF Holds
    <3>2. ASSUME NEW h \in Holders(c) PROVE h = <<id, key, j>>
      <4>1. /\ h = <<h[1], h[2], h[3]>> /\ Slot(m, h[1], h[2], h[3]) /\ At(m, h[1], h[2], h[3]) = c
        BY <2>1
      <4>2. h[1] = id /\ h[2] = key /\ h[3] = j
        BY <1>1, <3>1, <4>1 DEF Apart
      <4> QED
        BY <4>1, <4>2
    <3>3. <<id, key, j>> \in Holders(c)
      BY <2>1, <3>1
    <3>4. Holders(c) = {<<id, key, j>>}
      BY <3>2, <3>3
    <3>5. Cardinality(Holders(c)) = 1
      BY <3>4, FS_Singleton
    <3>6. m.inUse[c] = 1
      BY <1>1, <1>2, <2>2 DEF Counted
    <3> QED
      BY <3>5, <3>6
  <2>3. CASE ~ \E id \in Ids : Holds(m, id, c)
    <3>1. Holders(c) = {}
      <4>1. ASSUME NEW h \in Holders(c) PROVE FALSE
        <5>1. Slot(m, h[1], h[2], h[3]) /\ At(m, h[1], h[2], h[3]) = c
          BY <2>1
        <5>2. h[1] \in Ids
          BY <5>1 DEF Slot
        <5> QED
          BY <2>3, <5>1, <5>2 DEF Holds
      <4> QED
        BY <4>1
    <3>2. Cardinality(Holders(c)) = 0
      BY <3>1, FS_EmptySet
    <3>3. m.inUse[c] = 0
      BY <1>1, <1>2, <2>3 DEF Counted
    <3> QED
      BY <3>2, <3>3
  <2> QED
    BY <2>2, <2>3
<1>4. ASSUME NEW id \in m.live, NEW c1 \in DOMAIN m.inUse, NEW c2 \in DOMAIN m.inUse,
             c1 # c2, c1 % m.d = c2 % m.d,
             \E h \in Holders(c1) : h[1] = id, \E h \in Holders(c2) : h[1] = id
      PROVE  FALSE
  <2>1. PICK h1 \in Holders(c1) : h1[1] = id
    BY <1>4
  <2>2. PICK h2 \in Holders(c2) : h2[1] = id
    BY <1>4
  <2>3. Slot(m, h1[1], h1[2], h1[3]) /\ At(m, h1[1], h1[2], h1[3]) = c1
    BY HolderFacts
  <2>4. Slot(m, h2[1], h2[2], h2[3]) /\ At(m, h2[1], h2[2], h2[3]) = c2
    BY HolderFacts
  <2>5. h1[2] = h2[2] /\ h1[3] = h2[3]
    BY <1>1, <1>4, <2>1, <2>2, <2>3, <2>4 DEF Apart
  <2> QED
    BY <1>4, <2>1, <2>2, <2>3, <2>4, <2>5
<1> QED
  BY <1>3, <1>4 DEF PagesExclusive

\* Once every page was given back none has a holder.
LEMMA GoneExclusive ==
  ASSUME Gone(setup, processors, m, Len(pkts))
  PROVE  PagesExclusive
<1>1. m.live = {} /\ DOMAIN m.inUse = Chunks(setup) /\ \A c \in Chunks(setup) : m.inUse[c] = 0
  BY DEF Gone, Memories
<1>2. \A c : Holders(c) = {}
  BY <1>1 DEF Holders
<1>4. ASSUME NEW c \in DOMAIN m.inUse
      PROVE  m.inUse[c] = Cardinality(Holders(c)) /\ m.inUse[c] <= 1
  <2>1. Cardinality(Holders(c)) = 0
    <3>1. Holders(c) = {}
      BY <1>2
    <3> QED
      BY <3>1, FS_EmptySet
  <2>2. m.inUse[c] = 0
    BY <1>1
  <2> QED
    BY <2>1, <2>2
<1>5. \A c \in DOMAIN m.inUse : m.inUse[c] = 0
  BY <1>1
<1> QED
  BY <1>1, <1>4, <1>5 DEF PagesExclusive

\* A host page belongs to at most one stack, its counter says so, no two pages of a
\* rule fall on one device page, and ~GPUEngine gives every page back: for any rules,
\* packets and sizes, also when pages are taken while events arrive.
THEOREM SpecPagesExclusive == Spec => []PagesExclusive
<1>1. Inv => PagesExclusive
  <2> SUFFICES ASSUME Inv PROVE PagesExclusive
    OBVIOUS
  <2>1. setup \in Setups /\ Len(pkts) \in Nat
    BY InvFacts
  <2>2. CASE status = "destroyed"
    BY <2>2, GoneExclusive DEF Inv
  <2>3. CASE status # "destroyed"
    BY <2>1, <2>3, ReadyExclusive DEF Inv
  <2> QED
    BY <2>2, <2>3
<1> QED
  BY <1>1, SpecInv, PTL

\* The place of an event in a column of a places.
LEMMA InColumn ==
  ASSUME NEW a \in Nat \ {0}, NEW low \in 0 .. a - 1, NEW high \in 0 .. a - 1,
         NEW r \in 0 .. ((high - low) % a) - 1
  PROVE  (low + r) % a \in 0 .. a - 1 /\ (low <= high => (low + r) % a < high)
<1> DEFINE size == (high - low) % a
<1>1. size \in 0 .. a - 1
  BY DivMod
<1>2. low <= high => size = high - low
  <2>1. high - low \in Int /\ (low <= high => high - low \in 0 .. a - 1)
    OBVIOUS
  <2> QED
    BY <2>1, Turn
<1> HIDE DEF size
<1>3. r \in 0 .. size - 1
  BY DEF size
<1>4. r \in Nat /\ r < size
  BY <1>1, <1>3
<1>5. low + r \in Int
  BY <1>4
<1>6. low <= high => low + r \in 0 .. a - 1 /\ low + r < high
  BY <1>1, <1>2, <1>4
<1>7. (low + r) % a \in 0 .. a - 1
  BY <1>5, DivMod
<1>8. low <= high => (low + r) % a = low + r
  BY <1>5, <1>6, Turn
<1> QED
  BY <1>6, <1>7, <1>8

\* The places of the events of a stack are on its pages.
LEMMA InUseOnPages ==
  ASSUME NEW s \in Setups, NEW l \in Nat, NEW low \in Places(s), NEW high \in Places(s),
         NEW col, StackFits(s, l, low, high, col), NEW r \in 0 .. ((high - low) % s.alloc) - 1,
         NEW index, index = (low + r) % s.alloc
  PROVE  index \in Nat /\ index \div s.page \in Nat /\ index \div s.page < l
<1> DEFINE a == s.alloc
<1>1. a \in Nat \ {0} /\ s.page \in Nat \ {0} /\ Limit(s) \in Nat /\ a = Limit(s) * s.page
  BY SetupFacts
<1>2. low \in 0 .. a - 1 /\ high \in 0 .. a - 1
  BY DEF Places
<1>3. /\ high <= l * s.page /\ (low > high => l = Limit(s))
  BY DEF StackFits
<1>4. r \in 0 .. ((high - low) % a) - 1 /\ index = (low + r) % a
  OBVIOUS
<1> HIDE DEF a
<1>5. index \in 0 .. a - 1 /\ (low <= high => index < high)
  BY <1>1, <1>2, <1>4, InColumn
<1>6. l * s.page \in Nat
  BY <1>1
<1>7. index < l * s.page
  <2>1. CASE low <= high
    BY <1>2, <1>3, <1>5, <1>6, <2>1
  <2>2. CASE low > high
    <3>1. l * s.page = a
      BY <1>1, <1>3, <2>2
    <3> QED
      BY <1>1, <1>5, <3>1
  <2> QED
    BY <1>2, <2>1, <2>2
<1>8. index \in Nat
  BY <1>1, <1>5, SMTT(60)
<1> QED
  BY <1>1, <1>7, <1>8, PageOf

\* Without swapping (HOST_MEM_MUL is 1) a device page that counts as a rule's own holds
\* what the rule's host page holds: the kernels, which are started without a copy on the
\* strength of this, read the events the host has.
LEMMA InvCoherent == Inv /\ setup.mul = 1 => DeviceCoherent
<1> SUFFICES ASSUME Inv, setup.mul = 1, status = "running",
                    NEW i \in DOMAIN processors, NEW key \in DOMAIN m.table[processors[i].id],
                    NEW r \in 0 .. ((processors[i].high[key] - processors[i].low[key]) % m.alloc) - 1
             PROVE  LET p == processors[i]
                        pages == PagesOf(m, p.id, key)
                        index == (p.low[key] + r) % m.alloc
                        c == pages[index \div m.page + 1]
                    IN  IsOnGpu(m, p.id, c) =>
                          m.dev[c % m.d][index % m.page] = m.host[c][index % m.page]
  BY DEF DeviceCoherent
<1> DEFINE s == setup
           p == processors[i]
           rule == s.rules[i]
           pages == PagesOf(m, p.id, key)
           index == (p.low[key] + r) % m.alloc
           j == index \div m.page + 1
           c == pages[j]
<1>1. /\ s \in Setups /\ m \in Memories(s) /\ Ready(s, processors, m, Len(pkts)) /\ Len(pkts) \in Nat
      /\ i \in 1 .. Len(processors)
  BY InvFacts DEF Inv
<1>2. /\ Fits(s, p, m) /\ DOMAIN m.table[i - 1] = KeySet(rule) /\ SoundRule(rule) /\ i - 1 \in Ids
      /\ \E V : p \in Procs(s, rule, i - 1, Len(pkts), V)
  BY <1>1, ReadyFacts DEF Ready
<1>3. p.rule = rule /\ p.id = i - 1
  BY <1>2 DEF Procs
<1>4. key \in Keys(rule)
  BY <1>2, <1>3 DEF Keys
<1>5. p.low[key] \in Places(s) /\ p.high[key] \in Places(s)
  BY <1>2, <1>4 DEF Procs
<1>6. m.alloc = s.alloc /\ m.page = s.page /\ m.d = s.d
  BY <1>1 DEF Memories
<1>7. StackFits(s, Len(pages), p.low[key], p.high[key], p.ts[key])
  BY <1>2, <1>3, <1>4 DEF Fits
<1>8. pages \in Seq(Chunks(s)) /\ pages = m.table[i - 1][key]
  BY <1>1, <1>2, <1>3, MemoryFacts DEF PagesOf
<1>9. Coherent(s, m)
  BY <1>1 DEF Ready, Good
<1>10. r \in 0 .. ((p.high[key] - p.low[key]) % s.alloc) - 1 /\ index = (p.low[key] + r) % s.alloc
  BY <1>6
<1> HIDE DEF s, rule, pages, p, index
<1>11. index \div s.page \in Nat /\ index \div s.page < Len(pages)
  BY <1>1, <1>5, <1>7, <1>8, <1>10, InUseOnPages, SMTT(60)
<1>12. j \in 1 .. Len(pages)
  BY <1>6, <1>8, <1>11
<1>13. c \in Chunks(s)
  <2> HIDE DEF j
  <2> QED
    BY <1>8, <1>12
<1>14. c % s.d = c
  <2>1. s.mul = 1
    BY DEF s
  <2> HIDE DEF c
  <2> QED
    BY <1>1, <1>13, <2>1, NoSwap
<1>15. Holds(m, i - 1, c)
  <2>1. key \in DOMAIN m.table[i - 1]
    BY <1>3 DEF p
  <2>2. Slot(m, i - 1, key, j) /\ At(m, i - 1, key, j) = c
    BY <1>2, <1>8, <1>12, <2>1 DEF Slot, At
  <2> QED
    BY <2>2 DEF Holds
<1> HIDE DEF c
<1>16. IsOnGpu(m, p.id, c) => m.dev[c % m.d] = m.host[c]
  <2>1. s.mul = 1
    BY DEF s
  <2> QED
    BY <1>3, <1>6, <1>9, <1>13, <1>14, <1>15, <2>1 DEF IsOnGpu, Coherent
<1> QED
  BY <1>16, SMTT(60) DEF c, pages, p, index

\* HOST_MEM_MUL is 1 in Consts.h.  With more pages on the host than on the device the
\* formula fails for some setups: see the README.
THEOREM SpecDeviceCoherent == Spec => [](setup.mul = 1 => DeviceCoherent)
<1>1. Inv => (setup.mul = 1 => DeviceCoherent)
  BY InvCoherent
<1> QED
  BY <1>1, SpecInv, PTL
=============================================================================
