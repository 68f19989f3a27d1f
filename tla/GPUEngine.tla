----------------------------- MODULE GPUEngine -----------------------------
(***************************************************************************)
(* The GPU engine (Engine/GPU/GPUEngine.cc): one processor per rule, one   *)
(* memory manager for all, and the recursion on composite events.  A setup *)
(* gives the rules, the packets that may be published and the sizes of the *)
(* memory; it does not change.  seen, made and used are for the properties *)
(* only: the packets handled so far, the composite events of the last one  *)
(* by processor, and the events that were consumed.                        *)
(***************************************************************************)
EXTENDS GPUProcessor

CONSTANTS Setups, MAX_RECURSION_DEPTH

\* What RulePkt lets a rule be, as far as the memory of its stacks depends on it.
SoundRule(r) ==
  LET ids == 0 .. Len(r.predicates) - 1
  IN  /\ r.predicates \in Seq(Range(r.predicates)) /\ r.predicates # <<>>
      /\ r.negations \in Seq(Range(r.negations)) /\ r.aggregates \in Seq(Range(r.aggregates))
      /\ \A j \in DOMAIN r.predicates : r.predicates[j].win \in Nat
      /\ \A x \in Range(r.negations) \union Range(r.aggregates) :
           x.upperId \in ids /\ x.lowerId \in ids \union {-1} /\ x.lowerTime \in Nat

\* ALLOC_SIZE is a multiple of PAGE_SIZE.
SetupOK(s) ==
  /\ s.d \in Nat \ {0} /\ s.mul \in Nat \ {0} /\ s.page \in Nat \ {0}
  /\ \E k \in 1 .. s.alloc : s.alloc = k * s.page
  /\ s.rules \in Seq(Range(s.rules)) /\ \A i \in DOMAIN s.rules : SoundRule(s.rules[i])
  /\ s.start \in Nat /\ s.steps \subseteq Nat

ASSUME SetupsAssumption ==
  /\ MAX_RULE_NUM \in Nat \ {0} /\ MAX_RECURSION_DEPTH \in Nat
  /\ \A s \in Setups : s.alloc \in Nat /\ SetupOK(s)

VARIABLES setup, m, processors, recursionNeeded, inputEvents, outputEvents,
          recursionDepth, results, status, pkts, now, published,
          seen, made, used

gvars == <<setup, m, processors, recursionNeeded, inputEvents, outputEvents,
           recursionDepth, results, status, pkts, now, published, seen, made, used>>

\* results holds the result sets of the calls that are not done, the innermost
\* last; a set is left when it is empty.
Init ==
  /\ setup \in Setups
  /\ m = NewMemoryManager(setup.d, setup.mul, setup.page, setup.alloc)
  /\ processors = <<>> /\ recursionNeeded = FALSE
  /\ inputEvents = {} /\ outputEvents = {}
  /\ recursionDepth = 0 /\ results = <<>> /\ status = "running"
  /\ pkts = <<>> /\ now = setup.start /\ published = 0
  /\ seen = <<>> /\ made = <<>> /\ used = <<>>

Exit == status' = "exited"
        /\ UNCHANGED <<setup, m, processors, recursionNeeded, inputEvents, outputEvents,
                       recursionDepth, results, pkts, now, published, seen, made, used>>

\* Once recursion is needed the sets are not kept up.
SetRecursionNeeded(rule) ==
  LET input  == inputEvents \union {p.eventType : p \in Range(rule.predicates)}
      output == outputEvents \union {rule.ceTemplate.eventType}
  IN  /\ inputEvents' = IF recursionNeeded THEN inputEvents ELSE input
      /\ outputEvents' = IF recursionNeeded THEN outputEvents ELSE output
      /\ recursionNeeded' = (recursionNeeded \/ input \intersect output # {})

\* There is room for a processor of the rule.
RoomFor(rule) ==
  /\ Len(processors) + 1 <= MAX_RULE_NUM
  /\ ~ Subscribe(m, SubscribedKeys(rule)).exited
  /\ CheckDefinitions(rule)

\* processRulePkt, for the next rule of the setup.
ProcessRulePkt ==
  LET rule == setup.rules[Len(processors) + 1]
  IN  /\ status = "running" /\ results = <<>> /\ Len(processors) < Len(setup.rules)
      /\ \/ ~ RoomFor(rule) /\ Exit
         \/ /\ RoomFor(rule)
            /\ SetRecursionNeeded(rule)
            /\ m' = Subscribe(m, SubscribedKeys(rule))
            /\ processors' = Append(processors,
                 NewProcessor(rule, Token(m), m.alloc, Len(seen)))
            /\ used' = Append(used, {})
            /\ UNCHANGED <<setup, recursionDepth, results, status, pkts, now,
                           published, seen, made>>

\* Every processor in turn, on the shared memory.
RunProcessors(pk, k, undef) ==
  LET n == Len(processors)
      run[i \in 0 .. n] ==
        IF i = 0 THEN [x |-> [p |-> <<>>, m |-> m], made |-> <<>>, exited |-> FALSE]
        ELSE ProcessEvent(processors[i], run[i - 1].x.m, pk, k, undef)
  IN  [m |-> run[n].x.m, ps |-> [i \in 1 .. n |-> run[i].x.p],
       made |-> [i \in 1 .. n |-> run[i].made], exited |-> \E i \in 1 .. n : run[i].exited]

Consumed(p, mades) ==
  {<<s, g.pe[s]>> : s \in {s \in 0 .. p.n - 1 : p.n - 1 - s \in p.rule.consuming},
                    g \in Range(mades)}

\* The engine after the processors' outcome r for packet k of pk at the given
\* depth; below are the result sets of the calls around it.
Conclude(r, pk, k, below, depth) ==
  LET all == FlattenSeq(r.made)
      set == Len(pk) + 1 .. Len(pk) + Len(all)
  IN  \/ r.exited /\ Exit
      \/ /\ ~ r.exited
         /\ m' = r.m /\ processors' = r.ps /\ made' = r.made
         /\ pkts' = pk \o [i \in DOMAIN all |-> all[i].ce] /\ seen' = Append(seen, k)
         /\ used' = [i \in DOMAIN used |-> used[i] \union Consumed(processors[i], r.made[i])]
         /\ results' = IF recursionNeeded /\ set # {} THEN Append(below, set) ELSE below
         /\ recursionDepth' = depth
         /\ now' = IF depth = 0 THEN pk[k].ts ELSE now
         /\ published' = IF depth = 0 THEN published + 1 ELSE published
         /\ UNCHANGED <<setup, recursionNeeded, inputEvents, outputEvents, status>>

\* processPubPkt up to the recursion on its results.
Handle(pk, k, below, depth, undef) ==
  Conclude(RunProcessors(pk, k, undef), pk, k, below, depth)

\* processPubPkt(event, false): a packet comes from outside.  Bounds: setup.max
\* packets, setup.before of them while rules are missing.
Publish ==
  /\ status = "running" /\ results = <<>>
  /\ published < IF Len(processors) < Len(setup.rules) THEN setup.before ELSE setup.max
  /\ \E t \in setup.packets, dt \in setup.steps, undef \in BOOLEAN :
       Handle(Append(pkts, [eventType |-> t.eventType, ts |-> now + dt, attrs |-> t.attrs]),
              Len(pkts) + 1, <<>>, 0, undef)

Rest(k) ==
  LET top == Last(results) \ {k}
  IN  IF top = {} THEN Front(results) ELSE Append(Front(results), top)

\* One level too deep.
MutMayRecur == recursionDepth <= MAX_RECURSION_DEPTH

MayRecur == recursionDepth < MAX_RECURSION_DEPTH

\* processPubPkt(copy, true) for a result of the innermost call.
Recur ==
  /\ status = "running" /\ results # <<>> /\ MayRecur
  /\ \E k \in Last(results), undef \in BOOLEAN :
       Handle(pkts, k, Rest(k), recursionDepth + 1, undef)

\* The depth never falls before the next packet: what is left is dropped.
DropResults ==
  /\ status = "running" /\ results # <<>> /\ ~ MayRecur
  /\ results' = <<>>
  /\ UNCHANGED <<setup, m, processors, recursionNeeded, inputEvents, outputEvents,
                 recursionDepth, status, pkts, now, published, seen, made, used>>

\* ~GPUEngine deletes the processors, and each gives back its pages.
Destroy ==
  /\ status = "running" /\ results = <<>>
  /\ status' = "destroyed"
  /\ LET left[i \in 0 .. Len(processors)] ==
           IF i = 0 THEN m ELSE Unsubscribe(left[i - 1], processors[i].id)
     IN  m' = left[Len(processors)]
  /\ UNCHANGED <<setup, processors, recursionNeeded, inputEvents, outputEvents,
                 recursionDepth, results, pkts, now, published, seen, made, used>>

Next == ProcessRulePkt \/ Publish \/ Recur \/ DropResults \/ Destroy

Spec == Init /\ [][Next]_gvars

----------------------------------------------------------------------------
(* What a rule detects, from the values of module Values over all packets  *)
(* that were handled since the rule was added.  i is a processor.          *)

\* The packets of sn of that type that pass the constraints, in order.
Received(i, sn, x) ==
  SelectSeq(SubSeq(sn, processors[i].since + 1, Len(sn)),
            LAMBDA k : pkts'[k].eventType = x.eventType /\ AllSatisfied(pkts'[k], x.constraints))

\* A partial event by predicate, as packets.
ByPredicate(i, pe) ==
  LET n == processors[i].n
  IN  [j \in {n - 1 - s : s \in DOMAIN pe} |-> pkts'[pe[n - 1 - j]]]

\* The packets that may follow the partial event pe in state s.
Followers(i, sn, pe, s) ==
  LET rule == processors[i].rule
      n    == processors[i].n
      pred == rule.predicates[n - s]
      ref  == pkts'[pe[n - 1 - pred.refersTo]].ts
  IN  SelectSeq(Received(i, sn, pred), LAMBDA k :
        /\ <<s, k>> \notin used[i]
        /\ pkts'[k].ts < ref /\ pkts'[k].ts > ref - pred.win
        /\ \A par \in Range(rule.complex) :
             (par.type = "STATE" /\ par.lastIndex = n - 1 - s) =>
               CheckComplexParameter(pkts'[k], ByPredicate(i, pe), par, n - 1 - s, "STATE"))

\* No event of a negation between its bounds.
NotNegated(i, sn, pe) ==
  LET rule == processors[i].rule
      ev   == ByPredicate(i, pe)
  IN  \A g \in DOMAIN rule.negations :
        LET neg == rule.negations[g]
            hi  == ev[neg.upperId].ts
            lo  == IF neg.lowerId < 0 THEN hi - neg.lowerTime ELSE ev[neg.lowerId].ts
        IN  ~ \E k \in Range(Received(i, sn, neg)) :
                /\ pkts'[k].ts > lo /\ pkts'[k].ts < hi
                /\ \A par \in Range(rule.complex) :
                     (par.type = "NEG" /\ par.lastIndex = g - 1) =>
                       CheckComplexParameter(pkts'[k], ev, par, -1, "NEG")

\* All sequences that end with packet k.
Detected(i, sn, k) ==
  LET n == processors[i].n
      some(kind, f) == CASE f = <<>> -> {}
                         [] f # <<>> /\ kind = "EACH_WITHIN" -> Range(f)
                         [] f # <<>> /\ kind = "LAST_WITHIN" -> {Last(f)}
                         [] f # <<>> /\ kind = "FIRST_WITHIN" -> {Head(f)}
      next(pe, s) == {[q \in s .. n - 1 |-> IF q = s THEN c ELSE pe[q]] :
                        c \in some(processors[i].rule.predicates[n - s].kind,
                                   Followers(i, sn, pe, s))}
      after[s \in 0 .. n - 1] ==
        IF s = n - 1 THEN {[q \in {n - 1} |-> k]}
        ELSE UNION {next(pe, s) : pe \in after[s + 1]}
      root == processors[i].rule.predicates[1]
  IN  IF k \in Range(Received(i, sn, root))
      THEN {pe \in after[0] : NotNegated(i, sn, pe)} ELSE {}

\* The composite event of a sequence; an aggregate without elements counts as 0.
Composite(i, sn, pe) ==
  LET rule == processors[i].rule
      orZero(v) == IF v = NaN THEN 0 ELSE v
      packets(col) == [j \in DOMAIN col |-> pkts'[col[j]]]
  IN  GenerateCompositeEvent(rule.ceTemplate, ByPredicate(i, pe),
        [a \in 0 .. Len(rule.aggregates) - 1 |->
           orZero(ComputeAggregate(rule.aggregates[a + 1], ByPredicate(i, pe),
                    packets(Received(i, sn, rule.aggregates[a + 1])),
                    {par \in Range(rule.complex) : par.type = "AGG" /\ par.lastIndex = a}))])

\* Processor i has made one composite event for each sequence that was found.
Matches(i, found) ==
  /\ Len(made'[i]) = Cardinality(found)
  /\ Range(made'[i]) = {[pe |-> pe, ce |-> Composite(i, seen', pe)] : pe \in found}

----------------------------------------------------------------------------
(* Properties.                                                             *)

\* The state of the engine has its type: the indexes of every stack stay in its
\* column, it has no more pages than the column needs, and the recursion stays
\* within MAX_RECURSION_DEPTH.
TypeOK ==
  /\ status \in {"running", "exited", "destroyed"}
  /\ recursionDepth \in 0 .. MAX_RECURSION_DEPTH
  /\ \A i \in DOMAIN results : results[i] # {} /\ results[i] \subseteq DOMAIN pkts
  /\ DOMAIN used = DOMAIN processors
  /\ \A i \in DOMAIN processors :
       LET p == processors[i] IN
       /\ p.id \in 0 .. MAX_RULE_NUM - 1
       /\ \A key \in DOMAIN p.low :
            /\ p.low[key] \in 0 .. m.alloc - 1 /\ p.high[key] \in 0 .. m.alloc - 1
            /\ Len(PagesOf(m, p.id, key)) <= m.alloc \div m.page
            /\ p.samples[key] \in 0 .. Len(pkts)
  /\ \A c \in DOMAIN m.inUse : m.inUse[c] \in Nat /\ m.onGpu[c] \in -1 .. MAX_RULE_NUM - 1

\* Slots of live rules that hold host page c.
Holders(c) ==
  {h \in m.live \X (UNION {DOMAIN m.table[id] : id \in m.live}) \X (1 .. m.alloc \div m.page) :
     /\ h[2] \in DOMAIN m.table[h[1]] /\ h[3] <= Len(m.table[h[1]][h[2]])
     /\ m.table[h[1]][h[2]][h[3]] = c}

\* A host page belongs to at most one stack, its counter says so, and no two
\* pages of one rule fall on the same device page, so that a rule can have all of
\* its pages on the device at once; ~GPUEngine gives every page back.
PagesExclusive ==
  /\ \A c \in DOMAIN m.inUse : m.inUse[c] = Cardinality(Holders(c)) /\ m.inUse[c] <= 1
  /\ \A id \in m.live : \A c1, c2 \in DOMAIN m.inUse :
       (c1 # c2 /\ c1 % m.d = c2 % m.d) =>
         ~ (\E h \in Holders(c1) : h[1] = id) \/ ~ (\E h \in Holders(c2) : h[1] = id)
  /\ status = "destroyed" => \A c \in DOMAIN m.inUse : m.inUse[c] = 0

\* A device page that the manager takes for a rule's own holds what the rule's
\* host page holds, at every index the rule's stacks use: kernels are started
\* without a copy on the strength of this.
DeviceCoherent ==
  status = "running" =>
    \A i \in DOMAIN processors : \A key \in DOMAIN m.table[processors[i].id] :
      LET p == processors[i]
          pages == PagesOf(m, p.id, key)
      IN  \A r \in 0 .. ((p.high[key] - p.low[key]) % m.alloc) - 1 :
            LET index == (p.low[key] + r) % m.alloc
                c == pages[index \div m.page + 1]
            IN  IsOnGpu(m, p.id, c) =>
                  m.dev[c % m.d][index % m.page] = m.host[c][index % m.page]

\* The last element of the aggregate's stack is at the end of its column, where
\* getLastValidElementCircular reads behind the column.
EndsColumn(p, i) == p.low[Agg(i)] # 0 /\ p.high[Agg(i)] = 0

\* The sequences and composite events that a processor finds for a packet are
\* those of the rule by the host's evaluators over the whole history, whatever
\* was trimmed, paged, copied or wrapped around - as long as no stack was full
\* and no stack of an aggregate ends with its column.
GPUResultsMatch ==
  [][seen' # seen =>
       \A i \in DOMAIN processors :
         (/\ ~ processors'[i].dropped
          /\ \A a \in DOMAIN processors[i].rule.aggregates : ~ EndsColumn(processors'[i], a - 1))
         => Matches(i, Detected(i, seen', Last(seen')))]_gvars

=============================================================================
