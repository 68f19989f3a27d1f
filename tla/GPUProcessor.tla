---------------------------- MODULE GPUProcessor ----------------------------
(***************************************************************************)
(* One rule on the GPU (Engine/GPU/GPUProcessor.cc, CudaKernels.cu and     *)
(* Kernels/Computation.cu): its circular stacks on the host, the search    *)
(* for sequences on the device and the generation of composite events.     *)
(*                                                                         *)
(* A processor is a record p, the memory manager a record m, pk the        *)
(* packets seen so far: a cell of memory is a position in pk, 0 for zeroed *)
(* memory.  State s of a rule of n predicates is predicate n - 1 - s.  A   *)
(* stack's columns low, high and ts are those of the code.  undef is what  *)
(* a test on memory that was never written answers.                        *)
(*                                                                         *)
(* Bound: a stack is searched by one block of threads in lock step, so the *)
(* kernels for one event (SINGLE, SINGLENEG) have no race and SINGLEGLOBAL *)
(* is not reached.                                                         *)
(***************************************************************************)
EXTENDS GPUValues, MemoryManager

CONSTANTS MAX_GEN, MAX_NUM_ATTR, MAX_RULE_FIELDS, MAX_NUM_AGGREGATES,
          MAX_NEGATIONS_NUM, MAX_PARAMETERS_NUM

Stack(s) == <<"STATE", s>>
Neg(i) == <<"NEG", i>>
Agg(i) == <<"AGG", i>>
Upto(k) == [i \in 1 .. k |-> i - 1]

SequenceLen(rule) == Len(rule.predicates)
Predicate(p, s) == p.rule.predicates[p.n - s]
GetRefersTo(p, s) == p.n - 1 - Predicate(p, s).refersTo

ZeroEvent == [eventType |-> -1, ts |-> 0, attrs |-> <<>>]
EventAt(pk, c) == IF c = 0 THEN ZeroEvent ELSE pk[c]

\* uint64_t subtraction; Wrapped stands for the times next to 2^64.
Wrapped == 1073741824
Sub64(a, b) == IF a >= b THEN a - b ELSE Wrapped

----------------------------------------------------------------------------
(* Searches in the circular columns (Common/Funs.cc).                      *)

\* The binary search on the relative positions 0 .. size - 1: goes right of those in
\* left.  It takes fewer rounds than there are positions.
Narrow(size, left) ==
  LET halved(lo, hi) == LET mid == lo + (hi - lo) \div 2
                        IN  IF hi - lo <= 1 THEN <<lo, hi>>
                            ELSE IF mid \in left THEN <<mid, hi>> ELSE <<lo, mid>>
      ends[i \in 0 .. size] ==
        IF i = 0 THEN <<0, size - 1>> ELSE halved(ends[i - 1][1], ends[i - 1][2])
  IN  ends[size]

GetFirstValidElementCircular(col, alloc, low, high, minTS) ==
  LET size  == (high - low) % alloc
      at(r) == (low + r) % alloc
      ends  == Narrow(size, {r \in 0 .. size - 1 : col[at(r)] <= minTS})
  IN  IF col[(high - 1) % alloc] <= minTS THEN -1
      ELSE IF ends[1] = ends[2] \/ col[at(ends[1])] > minTS THEN at(ends[1])
      ELSE at(ends[2])

\* With highIndex 0 the last element is looked for past the end of the column.
GetLastValidElementCircular(col, alloc, low, high, maxTS, undef) ==
  LET size  == (high - low) % alloc
      at(r) == (low + r) % alloc
      ends  == Narrow(size, {r \in 0 .. size - 1 : col[at(r)] < maxTS})
      past  == ends[2] = size - 1 /\ high = 0
  IN  CASE col[low] >= maxTS -> -1
        [] col[low] < maxTS /\ ends[1] = ends[2] -> at(ends[1])
        [] OTHER -> IF past THEN (IF undef THEN alloc + 1 ELSE at(ends[1]))
                    ELSE IF col[at(ends[2])] < maxTS THEN at(ends[2]) ELSE at(ends[1])

DeleteInvalidElementsCircular(p, alloc, key, minTS) ==
  LET first == GetFirstValidElementCircular(p.ts[key], alloc, p.low[key], p.high[key], minTS)
  IN  [p EXCEPT !.low[key] = IF first < 0 THEN p.high[key] ELSE first]

----------------------------------------------------------------------------
(* A processor.                                                            *)

StateKeys(rule) == [i \in 1 .. SequenceLen(rule) - 1 |-> Stack(i - 1)]
NegKeys(rule) == [i \in DOMAIN rule.negations |-> Neg(i - 1)]
AggKeys(rule) == [i \in DOMAIN rule.aggregates |-> Agg(i - 1)]

SubscribedKeys(rule) == StateKeys(rule) \o NegKeys(rule) \o AggKeys(rule)

GPUParameters(rule, sType) == SelectSeq(rule.gpu, LAMBDA g : g.sType = sType)

CheckDefinitions(rule) ==
  /\ Len(rule.aggregates) <= MAX_NUM_AGGREGATES
  /\ Len(rule.negations) <= MAX_NEGATIONS_NUM
  /\ SequenceLen(rule) <= MAX_RULE_FIELDS
  /\ \A t \in {"STATE", "AGG", "NEG"} : Len(GPUParameters(rule, t)) <= MAX_PARAMETERS_NUM

\* init.  A kind of parameters is unset until its set function has been called.
\* Nothing writes the columns of time stamps, which are members of the processor,
\* before events are added, and deleteExpiredEvents reads them: they are 0 because
\* an object of this size comes from fresh pages of the system.
NewProcessor(rule, id, alloc, since) ==
  LET keys == Range(SubscribedKeys(rule)) \union {Stack(SequenceLen(rule) - 1)}
      zero == [key \in keys |-> 0]
  IN  [rule |-> rule, n |-> SequenceLen(rule), id |-> id,
       low |-> zero, high |-> zero, samples |-> zero,
       ts |-> [key \in keys |-> [i \in 0 .. alloc - 1 |-> 0]], first |-> TRUE,
       pars |-> [t \in {"STATE", "AGG", "NEG"} |-> [set |-> FALSE, list |-> <<>>]],
       dropped |-> FALSE, since |-> since]

\* getMatchingColumns: the numbers from 0 of the elements of the packet's type.
GetMatchingColumns(ev, seq) ==
  {i \in 0 .. Len(seq) - 1 : seq[i + 1].eventType = ev.eventType}

\* addEventToStack, addEventToAggregateStack and addEventToNegationStack.
AddEvent(x, pk, key, k) ==
  LET index == x.p.high[key]
  IN  IF (index + 1) % x.m.alloc = x.p.low[key]
      THEN [x EXCEPT !.p.dropped = TRUE]
      ELSE [p |-> [x.p EXCEPT !.ts[key][index] = pk[k].ts,
                              !.high[key] = (index + 1) % x.m.alloc,
                              !.samples[key] = IF index = 0 THEN k ELSE @],
            m |-> AddEventToStack(x.m, x.p.id, k, key, index)]

\* The event is added to the stacks in keys, the terminator's excepted.
AddEvents(x, pk, keys, k) ==
  LET order == NegKeys(x.p.rule) \o AggKeys(x.p.rule) \o StateKeys(x.p.rule)
      added[i \in 0 .. Len(order)] ==
        IF i = 0 THEN x
        ELSE IF order[i] \in keys THEN AddEvent(added[i - 1], pk, order[i], k)
        ELSE added[i - 1]
  IN  added[Len(order)]

\* The window counted from the end of the stack that is referred to.
MutMinTimeStamp(p, ref, win, now) ==
  IF ref = p.n - 1 THEN Sub64(now, win)
  ELSE Minus(p.ts[Stack(ref)][Max({0, p.high[Stack(ref)] - 1})], win)

\* The time up to which the events of a stack are deleted: its window before the
\* terminator, or before the oldest event of the stack it refers to.
MinTimeStamp(p, ref, win, now) ==
  IF ref = p.n - 1 THEN Sub64(now, win)
  ELSE Minus(p.ts[Stack(ref)][p.low[Stack(ref)]], win)

\* What is deleted from stack i of a kind, from what is left of the stack it refers to.
DeleteExpired(p, alloc, key, now) ==
  LET i   == key[2]
      neg == p.rule.negations[i + 1]
      agg == p.rule.aggregates[i + 1]
      win == IF neg.lowerId < 0 THEN neg.lowerTime ELSE p.rule.predicates[neg.lowerId + 1].win
      delete(ref, w) == DeleteInvalidElementsCircular(p, alloc, key, MinTimeStamp(p, ref, w, now))
  IN  CASE key[1] = "STATE" -> IF p.high[key] = p.low[key] THEN p
                               ELSE delete(GetRefersTo(p, i), Predicate(p, i).win)
        [] key[1] = "NEG" -> delete(p.n - 1 - neg.upperId, win)
        [] key[1] = "AGG" -> delete(p.n - 1 - agg.upperId, agg.lowerTime)

\* The states from the terminator's side, then the negations and the aggregates.
DeleteExpiredEvents(p, alloc, now) ==
  LET keys == Reverse(StateKeys(p.rule)) \o NegKeys(p.rule) \o AggKeys(p.rule)
      left[i \in 0 .. Len(keys)] ==
        IF i = 0 THEN p ELSE DeleteExpired(left[i - 1], alloc, keys[i], now)
  IN  left[Len(keys)]

----------------------------------------------------------------------------
(* Parameters: the position of an attribute is looked up once, in a sample *)
(* of the stack.                                                           *)

\* The sample of the mirrored state is taken: a node's state is inverted already.
GetAttributeIndex(p, pk, state, name, sType) ==
  LET key == IF sType = "STATE" THEN Stack(p.n - state - 1) ELSE <<sType, state>>
  IN  IF key \notin DOMAIN p.samples \/ p.samples[key] = 0 THEN 0
      ELSE AttributeIndex(pk[p.samples[key]], name)

Looked(node) == ~ node.empty /\ node.type = "LEAF" /\ ~ node.isStatic

Resolve(p, pk, tree) ==
  [i \in DOMAIN tree |->
     IF Looked(tree[i])
     THEN tree[i] @@ [attrNum |-> GetAttributeIndex(p, pk, tree[i].refersTo,
                                                    tree[i].attrName, tree[i].sType)]
     ELSE tree[i]]

\* The parameters on the device.  The first one with an attribute that is not
\* known ends the call before the copy: the earlier ones are then in use with
\* whatever the device holds, the later ones are not in use.
SetOnDevice(p, pk, pars) ==
  LET resolved == [i \in DOMAIN pars |->
                     [par |-> [pars[i] EXCEPT !.leftTree = Resolve(p, pk, @),
                                              !.rightTree = Resolve(p, pk, @)],
                      known |-> TRUE]]
      unknown(tree) == \E x \in Range(tree) : Looked(x) /\ x.attrNum = 0
      bad == {i \in DOMAIN pars : \/ unknown(resolved[i].par.leftTree)
                                  \/ unknown(resolved[i].par.rightTree)}
  IN  [ok |-> bad = {}, set |-> TRUE,
       list |-> IF bad = {} THEN resolved
                ELSE [i \in 1 .. Min(bad) - 1 |-> [resolved[i] EXCEPT !.known = FALSE]]]

\* In the order of the indexes 0 .. k - 1; others are never set.
Ordered(pars, k, Index(_)) ==
  FlattenSeq([i \in 1 .. k |-> SelectSeq(pars, LAMBDA g : Index(g) = i - 1)])

SetParameters(p, pk) ==
  SetOnDevice(p, pk, Ordered(GPUParameters(p.rule, "STATE"), p.n - 1, LAMBDA g : g.lastIndex))

SetAggregatesParameters(p, pk) ==
  SetOnDevice(p, pk, Ordered(GPUParameters(p.rule, "AGG"), p.n - 1, LAMBDA g : g.aggIndex))

\* The negations themselves are copied by this call, before it can fail.
SetNegationsParameters(p, pk) ==
  LET pars == GPUParameters(p.rule, "NEG")
  IN  SetOnDevice(p, pk, Ordered(pars, Len(pars), LAMBDA g : g.negIndex))

\* The first terminators, until all three calls succeed; each needs the earlier.
\* s, a and g are what the calls for states, aggregates and negations return.
Equipped(q, s, a, g) ==
  LET part(x) == [set |-> x.set, list |-> x.list]
  IN  [q EXCEPT !.pars.STATE = part(s),
                !.pars.AGG = IF s.ok THEN part(a) ELSE @,
                !.pars.NEG = IF s.ok /\ a.ok THEN part(g) ELSE @,
                !.first = ~ (s.ok /\ a.ok /\ g.ok)]

SetUp(p, pk, k) ==
  LET q == [p EXCEPT !.samples[Stack(p.n - 1)] = k]
  IN  IF ~ p.first THEN p
      ELSE Equipped(q, SetParameters(q, pk), SetAggregatesParameters(q, pk),
                    SetNegationsParameters(q, pk))

----------------------------------------------------------------------------
(* Kernels.  x is [p, m]; a result maps states to cells.                   *)

Infos(pk, set) == [s \in DOMAIN set |-> EventAt(pk, set[s])]

Size(x, key) == (x.p.high[key] - x.p.low[key]) % x.m.alloc

\* The cell of the i-th event of a stack, through the pages given to a kernel.
Cell(x, key, pages, i) == DeviceEvent(x.m, pages, (x.p.low[key] + i) % x.m.alloc)
StackCell(x, key, i) == Cell(x, key, PagesOf(x.m, x.p.id, key), i)

\* Both ends are left out.
InWindow(ts, ref, win) == ts < ref /\ ts > Sub64(ref, win)

\* The first tests of every kernel on a candidate for state s.
Candidate(x, pk, set, s, c, undef) ==
  /\ InWindow(EventAt(pk, c).ts, EventAt(pk, set[GetRefersTo(x.p, s)]).ts,
              Predicate(x.p, s).win)
  /\ \A g \in Range(x.p.pars.STATE.list) :
       g.par.lastIndex = s =>
         IF g.known THEN DCheckComplexParameter(EventAt(pk, c), g.par, Infos(pk, set), s)
         ELSE undef

\* prepareForNextLoop: the negations that state s checks.
NegationsAt(p, s) ==
  LET negs == p.rule.negations
      root(i) == s = p.n - 2 /\ negs[i + 1].lowerId < 0 /\ negs[i + 1].upperId = 0
      here(i) == p.n - 1 - s = IF negs[i + 1].lowerId < 0 THEN negs[i + 1].upperId
                               ELSE negs[i + 1].lowerId
  IN  SelectSeq(Upto(Len(negs)), root) \o SelectSeq(Upto(Len(negs)), here)

\* The bounds of a negation for the candidate ev of state s, both left out.
NegationBounds(p, g, infos, s, ev) ==
  LET upper == p.n - 1 - g.upperId
      maxTS == IF g.lowerId < 0 /\ upper = s THEN ev.ts ELSE infos[upper].ts
  IN  <<IF g.lowerId < 0 THEN Sub64(maxTS, g.lowerTime) ELSE ev.ts, maxTS>>

\* The pages that setAllNegations left for position i of the list: it exchanges
\* the position and the number of the negation.  <<>> if it left none.
NegationPages(x, negs, i) ==
  LET at == {j \in DOMAIN negs : negs[j] = i - 1}
  IN  IF at = {} THEN <<>> ELSE PagesOf(x.m, x.p.id, Neg(Min(at) - 1))

\* gcheckN.  The i-th negation of the list has its stack's low index and size,
\* but the bounds of negation i - 1 of the rule.
NoNegation(x, pk, set, s, c, negs, undef) ==
  \A i \in DOMAIN negs :
    LET key   == Neg(negs[i])
        pages == NegationPages(x, negs, i)
        infos == Infos(pk, set)
        ev    == EventAt(pk, c)
        b     == NegationBounds(x.p, x.p.rule.negations[i], infos, s, ev)
        hit(e) == /\ e.ts > b[1] /\ e.ts < b[2]
                  /\ \A g \in Range(x.p.pars.NEG.list) :
                       g.par.negIndex = negs[i] =>
                         IF g.known
                         THEN DCheckComplexParameterForNegation(ev, e, g.par, infos, s)
                         ELSE undef
    IN  IF Size(x, key) = 0 THEN TRUE
        ELSE IF ~ x.p.pars.NEG.set \/ pages = <<>> THEN undef
        ELSE \A r \in 0 .. Size(x, key) - 1 : ~ hit(EventAt(pk, Cell(x, key, pages, r)))

\* The positions in the stack of s that one partial result accepts.
Accepted(x, pk, set, s, negs, undef) ==
  {i \in 0 .. Size(x, Stack(s)) - 1 :
     LET c == StackCell(x, Stack(s), i)
     IN  /\ Candidate(x, pk, set, s, c, undef)
         /\ NoNegation(x, pk, set, s, c, negs, undef)}

Extended(x, set, s, i) ==
  [q \in s .. x.p.n - 1 |-> IF q = s THEN StackCell(x, Stack(s), i) ELSE set[q]]

\* The elements of a sequence at the positions in at.
Picked(seq, at) == FlattenSeq([j \in DOMAIN seq |-> IF j \in at THEN <<seq[j]>> ELSE <<>>])

\* computeComplexEventsMultiple and ...MultipleWithNegations: every candidate.
ComputeMultiple(x, pk, prev, s, negs, undef) ==
  LET all(set) == [i \in 1 .. Size(x, Stack(s)) |-> Extended(x, set, s, i - 1)]
  IN  FlattenSeq([j \in DOMAIN prev |->
        Picked(all(prev[j]), {i + 1 : i \in Accepted(x, pk, prev[j], s, negs, undef)})])

\* The candidate that LAST or FIRST keeps; a zeroed set if there is none.
Chosen(x, set, s, at) ==
  IF at = {} THEN [q \in s .. x.p.n - 1 |-> 0]
  ELSE Extended(x, set, s,
                IF Predicate(x.p, s).kind = "LAST_WITHIN" THEN Max(at) ELSE Min(at))

ChosenSets(x, pk, prev, s, negs, undef) ==
  [j \in DOMAIN prev |->
     Chosen(x, prev[j], s, Accepted(x, pk, prev[j], s, negs, undef))]

\* Those with an event in state s: a zeroed one has time stamp 0, and no window
\* admits that time.
WithState(pk, sets, s) == Picked(sets, {j \in DOMAIN sets : EventAt(pk, sets[j][s]).ts # 0})

\* computeComplexEventsSingle.
ComputeSingle(x, pk, prev, s, undef) ==
  WithState(pk, ChosenSets(x, pk, prev, s, <<>>, undef), s)

\* computeComplexEventsSingleG leaves a zeroed set where nothing was accepted;
\* reduceFinal counts the others, and that many are read from the beginning.
ComputeSingleNeg(x, pk, prev, s, negs, undef) ==
  LET front(sets) == SubSeq(sets, 1, Len(WithState(pk, sets, s)))
  IN  front(ChosenSets(x, pk, prev, s, negs, undef))

\* compute: the partial results, from the terminator's state down to state 0.
ComputeState(x, pk, s, prev, negs, undef) ==
  IF prev = <<>> \/ Size(x, Stack(s)) = 0 THEN <<>>
  ELSE IF Predicate(x.p, s).kind = "EACH_WITHIN"
  THEN ComputeMultiple(x, pk, prev, s, negs, undef)
  ELSE IF negs = <<>> THEN ComputeSingle(x, pk, prev, s, undef)
  ELSE ComputeSingleNeg(x, pk, prev, s, negs, undef)

\* One level: the results so far, and whether there were ever too many.
ComputeNext(x, pk, s, before, undef) ==
  LET more(sets) == [sets |-> sets, exited |-> before.exited \/ Len(sets) > MAX_GEN]
  IN  more(ComputeState(x, pk, s, before.sets, NegationsAt(x.p, s), undef))

\* Rules have two predicates or more: with one, the code first prepares a state
\* -1 and reads in front of its arrays.
Compute(x, pk, k, undef) ==
  LET level[i \in 0 .. x.p.n - 1] ==
        IF i = 0 THEN [sets |-> <<[q \in {x.p.n - 1} |-> k]>>, exited |-> FALSE]
        ELSE ComputeNext(x, pk, x.p.n - 1 - i, level[i - 1], undef)
  IN  level[x.p.n - 1]

----------------------------------------------------------------------------
(* Composite events and consumption.                                       *)

GetMinValidElement(x, key, minTS) ==
  GetFirstValidElementCircular(x.p.ts[key], x.m.alloc, x.p.low[key], x.p.high[key], minTS)

GetMaxValidElement(x, key, maxTS, undef) ==
  GetLastValidElementCircular(x.p.ts[key], x.m.alloc, x.p.low[key], x.p.high[key], maxTS, undef)

\* What computeAggregates gives a kernel: the elements of an aggregate's stack in
\* its window.  With no last one, the first one counts alone.
AggregateKernel(x, pk, infos, i, undef) ==
  LET a     == x.p.rule.aggregates[i + 1]
      key   == Agg(i)
      alloc == x.m.alloc
      attr  == GetAttributeIndex(x.p, pk, i, a.name, "AGG")
      maxTS == infos[x.p.n - 1 - a.upperId].ts
      minTS == IF a.lowerId < 0 THEN Sub64(maxTS, a.lowerTime)
               ELSE infos[x.p.n - 1 - a.lowerId].ts
      events(minId, maxId) ==
        IF attr = 0 \/ minId < 0 THEN <<>>
        ELSE [r \in 1 .. 1 + (IF maxId >= minId THEN maxId - minId
                              ELSE alloc + maxId - minId) |->
                EventAt(pk, DeviceEvent(x.m, PagesOf(x.m, x.p.id, key),
                                        (minId + r - 1) % alloc))]
      upTo(minId, last) == events(minId, IF last < 0 THEN minId ELSE last)
  IN  [attr |-> attr, infos |-> infos, agg |-> i, pars |-> x.p.pars.AGG, undef |-> undef,
       events |-> upTo(GetMinValidElement(x, key, minTS),
                       GetMaxValidElement(x, key, maxTS, undef))]

\* computeAggregates: 0 without an attribute, an event or an element.
ComputeAggregates(x, pk, infos, i, undef) ==
  LET value(k) == IF k.events = <<>> THEN 0
                  ELSE Reduction(x.p.rule.aggregates[i + 1].fun, PowerOfTwo(Len(k.events)), k)
  IN  value(AggregateKernel(x, pk, infos, i, undef))

\* The time stamp, then the attributes the sample has, by position.
CompareEvt(e1, e2, size) ==
  /\ e1.ts = e2.ts
  /\ \A i \in 1 .. size : e1.attrs[i].type = e2.attrs[i].type
                          /\ e1.attrs[i].value = e2.attrs[i].value

\* remove: the events move, the column of time stamps does not; nothing is found
\* in a stack that goes around the end of its column.
RemoveEvent(x, pk, ev, s) ==
  LET key == Stack(s)
      at  == {i \in x.p.low[key] .. x.p.high[key] - 1 :
                CompareEvt(EventAt(pk, GetEvent(x.m, x.p.id, key, i)), ev,
                           Len(pk[x.p.samples[key]].attrs))}
      cleaned == CleanEventStack(x.m, x.p.id, key, Min(at), x.p.high[key])
  IN  IF at = {} THEN x
      ELSE [p |-> [x.p EXCEPT !.high[key] = cleaned.high], m |-> cleaned.m]

RemoveFrom(x, pk, sets, s) ==
  LET left[i \in 0 .. Len(sets)] ==
        IF i = 0 THEN x ELSE RemoveEvent(left[i - 1], pk, EventAt(pk, sets[i][s]), s)
  IN  left[Len(sets)]

DeleteConsumed(x, pk, sets) ==
  LET left[s \in 0 .. x.p.n] ==
        IF s = 0 THEN x
        ELSE IF x.p.n - s \in x.p.rule.consuming THEN RemoveFrom(left[s - 1], pk, sets, s - 1)
        ELSE left[s - 1]
  IN  left[x.p.n]

SetStacks(x, keys) ==
  LET set[i \in 0 .. Len(keys)] ==
        IF i = 0 THEN x.m
        ELSE SetEventsStacks(set[i - 1], x.p.id, keys[i], x.p.low[keys[i]], x.p.high[keys[i]])
  IN  [x EXCEPT !.m = set[Len(keys)]]

\* The composite event of a result.
GenerateEvent(x, pk, set, undef) ==
  GPUCompositeEvent(x.p.rule.ceTemplate, x.p.n, Infos(pk, set),
    [i \in 0 .. x.p.n - 1 |-> EventAt(pk, x.p.samples[Stack(x.p.n - 1 - i)])],
    [i \in 0 .. Len(x.p.rule.aggregates) - 1 |->
       ComputeAggregates(x, pk, Infos(pk, set), i, undef)])

\* getGeneratedEvents: one composite event per result, then consumption; without
\* a result the stacks of the aggregates stay where they are.
GetGeneratedEvents(x, pk, r, undef) ==
  LET y == SetStacks(x, AggKeys(x.p.rule))
  IN  [x |-> IF r.sets = <<>> THEN x ELSE DeleteConsumed(y, pk, r.sets),
       made |-> [i \in DOMAIN r.sets |->
                   [pe |-> r.sets[i], ce |-> GenerateEvent(y, pk, r.sets[i], undef)]],
       exited |-> r.exited]

\* The stacks without what expired, with their pages on the device and the
\* parameters set.
Prepared(x, pk, k) ==
  LET trimmed == [x EXCEPT !.p = DeleteExpiredEvents(@, x.m.alloc, pk[k].ts)]
  IN  [SetStacks(trimmed, StateKeys(x.p.rule) \o NegKeys(x.p.rule)) EXCEPT !.p = SetUp(@, pk, k)]

\* The search and what it generates.
ComputeAndGenerate(x, pk, k, undef) ==
  GetGeneratedEvents(x, pk, Compute(x, pk, k, undef), undef)

\* The terminator k has arrived.
Terminate(x, pk, k, undef) == ComputeAndGenerate(Prepared(x, pk, k), pk, k, undef)

\* processEvent.  An event of a state's type that fails the constraints of one of
\* its states is ignored; the constraints of negations and aggregates count only
\* for an event of no state, and the first one that fails ends the call.
ProcessEvent(p, m, pk, k, undef) ==
  LET ev     == pk[k]
      rule   == p.rule
      states == GetMatchingColumns(ev, Reverse(rule.predicates))
      negs   == GetMatchingColumns(ev, rule.negations)
      aggs   == GetMatchingColumns(ev, rule.aggregates)
      negsIn == {i \in negs : states = {} =>
                   \A j \in negs : j <= i => CheckNegationConstraints(ev, rule, j)}
      aggsIn == {i \in aggs : states = {} => /\ negsIn = negs
                                            /\ \A j \in aggs : j <= i =>
                                                 CheckAggregateConstraints(ev, rule, j)}
      none   == [x |-> [p |-> p, m |-> m], made |-> <<>>, exited |-> FALSE]
      added(x, terminates) ==
        IF \/ x.m.exited
           \/ Len(ev.attrs) > MAX_NUM_ATTR /\ (x.p.high # p.high \/ terminates)
        THEN [none EXCEPT !.exited = TRUE]
        ELSE IF terminates THEN Terminate(x, pk, k, undef)
        ELSE [none EXCEPT !.x = x]
  IN  IF \E s \in states : ~ CheckConstraints(ev, rule, p.n - 1 - s) THEN none
      ELSE added(AddEvents([p |-> p, m |-> m], pk,
                           {Neg(i) : i \in negsIn} \union {Agg(i) : i \in aggsIn}
                             \union {Stack(s) : s \in states}, k),
                 p.n - 1 \in states)
=============================================================================
