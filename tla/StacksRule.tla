----------------------------- MODULE StacksRule -----------------------------
(***************************************************************************)
(* The evaluation of one rule: StacksRule.cc of TRex2-lib/src/Engine.      *)
(*                                                                         *)
(* A rule has states 0 .. n-1.  Every state k > 0 refers to an earlier     *)
(* state and has a window before it; packets that match state k wait in    *)
(* stack k, sorted by time stamp.  A packet that matches state 0, the      *)
(* terminator, starts the computation: expired packets are removed, the    *)
(* sequences of packets that satisfy windows, parameters and negations     *)
(* are listed, one composite event is created for each, and the packets    *)
(* in consuming states are removed.                                        *)
(*                                                                         *)
(* Only one thread evaluates a rule (RuleExclusion of EngineDispatch), so  *)
(* a packet is handled in one step.  stacksSize, negsSize and aggsSize     *)
(* mirror the lengths of the stacks and have no variables of their own.    *)
(* The searches are represented by what ColumnSearch shows they return.    *)
(***************************************************************************)
EXTENDS Columns, FiniteSets

CONSTANTS
  Rules,       \* the rules to evaluate; a behaviour evaluates one of them
  Contents(_), \* the attributes packets for a rule may carry: functions on names
  MaxPkts,     \* bound: packets received
  MaxStep,     \* bound: time between two packets
  MaxRoles(_), \* bound: states, negations and aggregates a packet matches
  InOrder(_)   \* TRUE: the time stamps of packets for a rule do not decrease

(***************************************************************************)
(* A rule is a record:                                                     *)
(*   refersTo, win, kind : for each state k > 0 the state it refers to,    *)
(*              its window and "each", "first" or "last" (CompKind)        *)
(*   negs : a sequence of records [lowerId, lowerTime, upperId, pars]      *)
(*   aggs : the same for aggregates                                        *)
(*   branch : for each state k > 0 its complex parameters                  *)
(*   params : the set of parameters [ev1, name1, ev2, name2]               *)
(*   consuming : the set of consuming states.                              *)
(* lowerId is -1 for a negation or aggregate bounded by lowerTime.  A      *)
(* complex parameter [name, ev, evName] asks attribute name of the packet  *)
(* to equal attribute evName of the packet in state ev.                    *)
(***************************************************************************)
\* Negations and aggregates lie before a state; addNegation and addAggregate of
\* RulePkt see to it that lowerId, if there is one, comes after upperId.
BoundsOK(r, bounds) ==
  /\ Len(bounds) \in Nat
  /\ \A n \in 1 .. Len(bounds) :
       /\ bounds[n].upperId \in 0 .. Len(r.refersTo)
       /\ bounds[n].lowerId \in {-1} \cup 1 .. Len(r.refersTo)
       /\ bounds[n].lowerTime \in Nat

\* addPredicate of RulePkt: a state refers to one that was added before it.  (A
\* negative refersTo, which addPredicate lets through, is no index of a stack.)
RuleOK(r) ==
  /\ Len(r.refersTo) \in Nat
  /\ \A k \in 1 .. Len(r.refersTo) :
       /\ r.refersTo[k] \in 0 .. k - 1
       /\ r.win[k] \in Nat
       /\ r.kind[k] \in {"each", "first", "last"}
  /\ BoundsOK(r, r.negs)
  /\ BoundsOK(r, r.aggs)

ASSUME RulesAssumption == \A r \in Rules : RuleOK(r)

ASSUME BoundsAssumption == MaxPkts \in Nat /\ MaxStep \in Nat

VARIABLES
  rule,       \* the rule
  pkts,       \* every packet received: [ts, states, negs, aggs, content]
  received,   \* receivedPkts: for each state a sequence of packet numbers
  recNegs,    \* receivedNegs
  recAggs,    \* receivedAggs
  results,    \* the composite events created for the last packet
  consumed    \* ghost: for each state the packets used up

vars == <<rule, pkts, received, recNegs, recAggs, results, consumed>>

NumStates == Len(rule.refersTo) + 1
States    == 0 .. NumStates - 1
Negs      == 1 .. Len(rule.negs)
Aggs      == 1 .. Len(rule.aggs)

Ts(p) == pkts[p].ts

\* The time stamps of a stack.
Times(stack) == [i \in 1 .. Len(stack) |-> Ts(stack[i])]

Init ==
  /\ rule \in Rules
  /\ pkts = <<>>
  /\ received = [k \in States |-> <<>>]
  /\ recNegs = [n \in Negs |-> <<>>]
  /\ recAggs = [a \in Aggs |-> <<>>]
  /\ results = {}
  /\ consumed = [k \in States |-> {}]

-----------------------------------------------------------------------------
(***************************************************************************)
(* Filling the stacks.  These operators, and all that follow up to the     *)
(* action, take the packets ps as a parameter: the packet being handled is *)
(* the last of ps and not yet in pkts.                                     *)
(***************************************************************************)
Column(ps, stack) == [i \in 1 .. Len(stack) |-> ps[stack[i]].ts]

\* Mutant of Insert: the packet always goes to the end.
MutInsert(ps, stack, p) == Append(stack, p)

\* parametricAddToStack: before the first later packet, else at the end.
Insert(ps, stack, p) ==
  LET i == FirstValid(Column(ps, stack), ps[p].ts)
  IN  IF i = 0 THEN Append(stack, p)
      ELSE SubSeq(stack, 1, i - 1) \o <<p>> \o SubSeq(stack, i, Len(stack))

\* The stacks of function f after packet p was added to those in ids.
AddTo(ps, f, ids, p) ==
  [k \in DOMAIN f |-> IF k \in ids THEN Insert(ps, f[k], p) ELSE f[k]]

-----------------------------------------------------------------------------
(***************************************************************************)
(* clearStacks.                                                            *)
(***************************************************************************)
\* Mutant of RemoveOld: nothing is removed.
MutRemoveOld(ps, stack, minTS) == stack

\* removeOldPacketsFromStack.
RemoveOld(ps, stack, minTS) ==
  SubSeq(stack, Len(stack) - Remaining(Column(ps, stack), minTS) + 1, Len(stack))

\* A stack bounded by a window before the oldest packet of another one.
Trim(ps, stack, ref, win) ==
  IF ref = <<>> THEN stack ELSE RemoveOld(ps, stack, Minus(ps[ref[1]].ts, win))

\* Mutant of ClearedStates: the window is counted from the terminator.
MutClearedStates(ps, rec) ==
  [k \in States |-> IF k = 0 THEN rec[0]
                    ELSE Trim(ps, rec[k], rec[0], rule.win[k])]

\* The stacks of the states, each cut after the one it refers to.
ClearedStates(ps, rec) ==
  LET cleared[k \in States] ==
        IF k = 0 THEN rec[0]
        ELSE Trim(ps, rec[k], cleared[rule.refersTo[k]], rule.win[k])
  IN  cleared

\* The window that bounds a negation: its own, or that of the state lowerId.
NegWindow(neg) == IF neg.lowerId < 0 THEN neg.lowerTime ELSE rule.win[neg.lowerId]

ClearedNegs(ps, rec, recN) ==
  [n \in Negs |-> Trim(ps, recN[n], rec[rule.negs[n].upperId],
                       NegWindow(rule.negs[n]))]

\* Mutant of ClearedAggs: the time is counted from the terminator.
MutClearedAggs(ps, rec, recA) ==
  [a \in Aggs |-> Trim(ps, recA[a], rec[0], rule.aggs[a].lowerTime)]

\* The test win < 0 is never true of an unsigned time: lowerTime is used also
\* when lowerId is set.
ClearedAggs(ps, rec, recA) ==
  [a \in Aggs |-> Trim(ps, recA[a], rec[rule.aggs[a].upperId],
                       rule.aggs[a].lowerTime)]

-----------------------------------------------------------------------------
(***************************************************************************)
(* getPartialResults.  A partial event is the sequence of the packets      *)
(* chosen for states 0, 1, ...: pe[k + 1] is the one of state k.           *)
(***************************************************************************)
\* checkComplexParameter, for an equality between two attributes.
CheckParameters(ps, p, pe, pars) ==
  \A par \in pars : ps[p].content[par.name] = ps[pe[par.ev + 1]].content[par.evName]

\* The time before which a negation or an aggregate does not look.
LowerTS(ps, bound, pe) ==
  IF bound.lowerId < 0
  THEN Minus(ps[pe[bound.upperId + 1]].ts, bound.lowerTime)
  ELSE ps[pe[bound.lowerId + 1]].ts

\* The packets of a stack between the bounds of a negation or an aggregate.
Between(ps, stack, bound, pe) ==
  LET times == Column(ps, stack)
      maxTS == ps[pe[bound.upperId + 1]].ts
      first == FirstValid(times, LowerTS(ps, bound, pe))
  IN  IF first = 0 \/ LastValid(times, maxTS, first) = 0 THEN {}
      ELSE {stack[i] : i \in first .. LastValid(times, maxTS, first)}

\* Mutant of CheckNegation: the parameters of the negation are not checked.
MutCheckNegation(ps, recN, n, pe) ==
  Between(ps, recN[n], rule.negs[n], pe) # {}

\* checkNegation: a packet of the negation, with its parameters, is in between.
CheckNegation(ps, recN, n, pe) ==
  \E p \in Between(ps, recN[n], rule.negs[n], pe) :
     CheckParameters(ps, p, pe, rule.negs[n].pars)

\* The negations checked when state k is filled.
Linked(k) ==
  {n \in Negs : k = IF rule.negs[n].lowerId < 0 THEN rule.negs[n].upperId
                    ELSE rule.negs[n].lowerId}

Invalidated(ps, recN, k, pe) == \E n \in Linked(k) : CheckNegation(ps, recN, n, pe)

\* Mutant of Choose: "last" takes the last one of the window, usable or not.
MutChoose(kind, usable, first, last) ==
  CASE kind = "each"  -> usable
    [] kind = "first" -> {i \in usable : \A j \in usable : i <= j}
    [] kind = "last"  -> usable \cap {last}

\* The positions getWinEvents takes from those that are usable.
Choose(kind, usable, first, last) ==
  CASE kind = "each"  -> usable
    [] kind = "first" -> {i \in usable : \A j \in usable : i <= j}
    [] kind = "last"  -> {i \in usable : \A j \in usable : j <= i}

\* getWinEvents: the ways to extend pe by a packet for state k.
WinEvents(ps, rec, recN, k, pe) ==
  LET stack  == rec[k]
      times  == Column(ps, stack)
      tsUp   == ps[pe[rule.refersTo[k] + 1]].ts
      first  == FirstValid(times, Minus(tsUp, rule.win[k]))
      last   == LastValid(times, tsUp, first)
      usable == {i \in first .. last :
                   /\ CheckParameters(ps, stack[i], pe, rule.branch[k])
                   /\ ~Invalidated(ps, recN, k, Append(pe, stack[i]))}
  IN  IF first = 0 \/ times[first] >= tsUp THEN {}
      ELSE {Append(pe, stack[i]) : i \in Choose(rule.kind[k], usable, first, last)}

PartialResults(ps, rec, recN, p) ==
  LET upTo[k \in States] ==
        IF k = 0 THEN (IF Invalidated(ps, recN, 0, <<p>>) THEN {} ELSE {<<p>>})
        ELSE UNION {WinEvents(ps, rec, recN, k, pe) : pe \in upTo[k - 1]}
  IN  upTo[NumStates - 1]

\* checkParameter, after the constructor has exchanged the two ends: name1 is
\* looked up in the packet of ev2 and name2 in that of ev1.
CheckParameter(ps, pe, par) ==
  ps[pe[par.ev2 + 1]].content[par.name1] = ps[pe[par.ev1 + 1]].content[par.name2]

\* removePartialEventsNotMatchingParameters.
MatchingParameters(ps, pes) ==
  {pe \in pes : \A par \in rule.params : CheckParameter(ps, pe, par)}

\* createComplexEvents: the sequence of packets a composite event is made of and
\* the packets each of its aggregates is computed from.
ComplexEvents(ps, recA, pes) ==
  {[pe |-> pe,
    aggs |-> [a \in Aggs |->
               {q \in Between(ps, recA[a], rule.aggs[a], pe) :
                  CheckParameters(ps, q, pe, rule.aggs[a].pars)}]] : pe \in pes}

\* A stack without the packets of a set, the others in their order.
Without(stack, gone) ==
  LET kept[i \in 0 .. Len(stack)] ==
        IF i = 0 THEN <<>>
        ELSE IF stack[i] \in gone THEN kept[i - 1] ELSE Append(kept[i - 1], stack[i])
  IN  kept[Len(stack)]

\* Mutant of RemoveConsumed: the packets stay in their stacks.
MutRemoveConsumed(rec, pes) == rec

\* removeConsumedEvent.
RemoveConsumed(rec, pes) ==
  [k \in States |->
     IF k = 0 \/ k \notin rule.consuming THEN rec[k]
     ELSE Without(rec[k], {pe[k + 1] : pe \in pes})]

\* Mutant of RemoveTerminator: the terminator stays in its stack.
MutRemoveTerminator(rec) == rec

\* The end of startComputation.
RemoveTerminator(rec) == [rec EXCEPT ![0] = <<>>]

\* startComputation: packet p, the last of ps, is the terminator.
StartComputation(ps, p, rec, recN, recA) ==
  LET clr  == ClearedStates(ps, [rec EXCEPT ![0] = Append(@, p)])
      clrN == ClearedNegs(ps, clr, recN)
      clrA == ClearedAggs(ps, clr, recA)
      pes  == MatchingParameters(ps, PartialResults(ps, clr, clrN, p))
  IN  /\ results' = ComplexEvents(ps, clrA, pes)
      /\ received' = RemoveTerminator(RemoveConsumed(clr, pes))
      /\ recNegs' = clrN
      /\ recAggs' = clrA
      /\ consumed' = [k \in States |->
           IF k = 0 \/ k \notin rule.consuming THEN consumed[k]
           ELSE consumed[k] \cup {pe[k + 1] : pe \in pes}]

-----------------------------------------------------------------------------
(***************************************************************************)
(* A packet is handed to the rule, as processor() in TRexEngine.cc does:   *)
(* negations first, then aggregates, then the states, state 0 last.        *)
(***************************************************************************)
Process(pkt) ==
  LET ps   == Append(pkts, pkt)
      p    == Len(ps)
      recN == AddTo(ps, recNegs, pkt.negs, p)
      recA == AddTo(ps, recAggs, pkt.aggs, p)
      rec  == AddTo(ps, received, pkt.states \ {0}, p)
  IN  /\ pkts' = ps
      /\ rule' = rule
      /\ \/ /\ 0 \in pkt.states
            /\ StartComputation(ps, p, rec, recN, recA)
         \/ /\ 0 \notin pkt.states
            /\ results' = {}
            /\ received' = rec
            /\ recNegs' = recN
            /\ recAggs' = recA
            /\ UNCHANGED consumed

\* The packets that may come next.
LastTs == IF pkts = <<>> THEN 0 ELSE Ts(Len(pkts))

Arrivals ==
  {pkt \in [ts : 1 .. MaxPkts * MaxStep, states : SUBSET States, negs : SUBSET Negs,
            aggs : SUBSET Aggs, content : Contents(rule)] :
     /\ Cardinality(pkt.states) + Cardinality(pkt.negs) + Cardinality(pkt.aggs)
          \in 1 .. MaxRoles(rule)
     /\ pkt.ts <= LastTs + MaxStep
     /\ InOrder(rule) => pkt.ts >= LastTs}

Receive ==
  /\ Len(pkts) < MaxPkts
  /\ \E pkt \in Arrivals : Process(pkt)

Next == Receive

Spec == Init /\ [][Next]_vars

-----------------------------------------------------------------------------
(***************************************************************************)
(* What a rule means: its composite events, defined on everything received *)
(* so far, without stacks, searches or clearing.                           *)
(***************************************************************************)
\* Packet q came no later than p and has matched state k and was not used up.
Available(ps, used, q, k) == k \in ps[q].states /\ q \notin used[k]

InWindow(ps, q, ref, win) ==
  ps[q].ts < ps[ref].ts /\ ps[q].ts > Minus(ps[ref].ts, win)

\* Packet q matches negation or aggregate number n, in field f, of bounds b.
InBetween(ps, q, b, pe) ==
  /\ ps[q].ts < ps[pe[b.upperId + 1]].ts
  /\ ps[q].ts > LowerTS(ps, b, pe)
  /\ CheckParameters(ps, q, pe, b.pars)

NotNegated(ps, k, pe) ==
  \A n \in Linked(k) : \A q \in 1 .. Len(ps) :
     n \in ps[q].negs => ~InBetween(ps, q, rule.negs[n], pe)

\* pe[k + 1] may extend the packets chosen for the states before k.
MayExtend(ps, used, k, pe) ==
  /\ Available(ps, used, pe[k + 1], k)
  /\ InWindow(ps, pe[k + 1], pe[rule.refersTo[k] + 1], rule.win[k])
  /\ CheckParameters(ps, pe[k + 1], pe, rule.branch[k])
  /\ NotNegated(ps, k, pe)

\* Of two packets with the same time stamp the one received first comes first.
Before(ps, p, q) == ps[p].ts < ps[q].ts \/ (ps[p].ts = ps[q].ts /\ p < q)

\* The selection policy of state k prefers no other packet to pe[k + 1].
Selected(ps, used, k, pe) ==
  \A q \in 1 .. Len(ps) :
    MayExtend(ps, used, k, [pe EXCEPT ![k + 1] = q]) =>
      /\ rule.kind[k] = "first" => ~Before(ps, q, pe[k + 1])
      /\ rule.kind[k] = "last"  => ~Before(ps, pe[k + 1], q)

\* The parameters as Structures.h documents them: name1 in ev1, name2 in ev2.
ParameterHolds(ps, pe, par) ==
  ps[pe[par.ev1 + 1]].content[par.name1] = ps[pe[par.ev2 + 1]].content[par.name2]

\* The sequences of packets the last one of ps completes.
Meaning(ps, used) ==
  {pe \in [1 .. NumStates -> 1 .. Len(ps)] :
     /\ pe[1] = Len(ps)
     /\ 0 \in ps[Len(ps)].states
     /\ NotNegated(ps, 0, SubSeq(pe, 1, 1))
     /\ \A k \in States \ {0} :
          LET upTo == SubSeq(pe, 1, k + 1)
          IN  MayExtend(ps, used, k, upTo) /\ Selected(ps, used, k, upTo)
     /\ \A par \in rule.params : ParameterHolds(ps, pe, par)}

AggregateMeaning(ps, a, pe) ==
  {q \in 1 .. Len(ps) : a \in ps[q].aggs /\ InBetween(ps, q, rule.aggs[a], pe)}

\* The rules for which forgetting is harmless.  A negation or an aggregate between
\* two states lies between a state and the one it refers to, so that one window
\* bounds how far it looks back, and an aggregate's lowerTime is no shorter; a
\* complex parameter refers to an earlier state; the two ends of a parameter have
\* the same name.
RuleLocal(r) ==
  /\ \A n \in 1 .. Len(r.negs) :
       r.negs[n].lowerId < 0 \/ r.negs[n].upperId = r.refersTo[r.negs[n].lowerId]
  /\ \A a \in 1 .. Len(r.aggs) :
       \/ r.aggs[a].lowerId < 0
       \/ /\ r.aggs[a].upperId = r.refersTo[r.aggs[a].lowerId]
          /\ r.aggs[a].lowerTime >= r.win[r.aggs[a].lowerId]
  /\ \A k \in 1 .. Len(r.refersTo) : \A par \in r.branch[k] : par.ev \in 0 .. k - 1
  /\ \A par \in r.params : par.name1 = par.name2

-----------------------------------------------------------------------------
(***************************************************************************)
(* Properties.                                                             *)
(***************************************************************************)
\* The type invariant: stacks hold packets that were received, and the one of
\* the terminator is empty between two packets.
TypeOK ==
  /\ rule \in Rules
  /\ Len(pkts) <= MaxPkts
  /\ received \in [States -> Seq(1 .. Len(pkts))]
  /\ received[0] = <<>>
  /\ recNegs \in [Negs -> Seq(1 .. Len(pkts))]
  /\ recAggs \in [Aggs -> Seq(1 .. Len(pkts))]
  /\ consumed \in [States -> SUBSET (1 .. Len(pkts))]
  /\ \A r \in results : r.pe \in Seq(1 .. Len(pkts)) /\ Len(r.pe) = NumStates

\* Every stack stays sorted by time stamp, whatever the order of arrival: the
\* binary searches of getWinEvents, checkNegation and clearStacks rely on it.
StacksSorted ==
  /\ \A k \in States : Sorted(Times(received[k]))
  /\ \A n \in Negs : Sorted(Times(recNegs[n]))
  /\ \A a \in Aggs : Sorted(Times(recAggs[a]))

\* When packets come in order, the composite events created are exactly those
\* the rule means: removing old packets, stopping at the first or last usable
\* packet and consuming never add, lose or change one; nor do they change an
\* aggregate.
ResultsMatchMeaning ==
  [][InOrder(rule) =>
       /\ {r.pe : r \in results'} = Meaning(pkts', consumed)
       /\ \A r \in results' : \A a \in Aggs :
            r.aggs[a] = AggregateMeaning(pkts', a, r.pe)]_vars

\* Also when packets come out of order, every composite event consists of
\* packets that match their states, lie in their windows and were not consumed
\* by an earlier event.
ResultsSound ==
  [][\A r \in results' : \A k \in States \ {0} :
       /\ Available(pkts', consumed, r.pe[k + 1], k)
       /\ InWindow(pkts', r.pe[k + 1], r.pe[rule.refersTo[k] + 1], rule.win[k])]_vars

\* startComputation leaves no packet in a stack that is too old for every packet
\* its state refers to ("Remove packets invalidated by timing constraints",
\* StacksRule.h): later terminators cannot need it.
StatesTrimmed ==
  [][0 \in pkts'[Len(pkts')].states =>
       \A k \in States \ {0} : rule.refersTo[k] = 0 =>
         \A i \in 1 .. Len(received'[k]) :
           pkts'[received'[k][i]].ts >= Minus(pkts'[Len(pkts')].ts, rule.win[k])]_vars
=============================================================================
