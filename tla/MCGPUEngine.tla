---------------------------- MODULE MCGPUEngine ----------------------------
(***************************************************************************)
(* Rules, packets and memories for GPUEngine.  The rules are built by the  *)
(* operations of RulePkt, so that both forms of a parameter are those of   *)
(* the code.                                                               *)
(***************************************************************************)
EXTENDS GPUEngine, RulePkt

Pred(type, cons, ref, win, kind) ==
  [eventType |-> type, constraints |-> cons, refersTo |-> ref, win |-> win, kind |-> kind]
Ref(sType, index) == [type |-> "LEAF", vtype |-> "INT",
                      ref |-> [ref |-> "RULEPKT", sType |-> sType, index |-> index, name |-> "a"]]
Number(v) == [type |-> "LEAF", vtype |-> "INT", ref |-> [ref |-> "STATIC", type |-> "INT", value |-> v]]
Op(op, l, r) == [type |-> "INNER", vtype |-> "INT", op |-> op, left |-> l, right |-> r]
Param(op, l, r) == [operation |-> op, vtype |-> "INT", leftTree |-> l, rightTree |-> r]
Template(type, trees) ==
  [eventType |-> type, attributes |-> [i \in DOMAIN trees |-> [name |-> "a", tree |-> trees[i]]],
   statics |-> <<[name |-> "s", type |-> "STRING", value |-> "x"]>>]
Unbounded(type) == [eventType |-> type, constraints |-> <<>>, lowerId |-> -1, lowerTime |-> 0, upperId |-> 0]

\* A rule from its predicates after the root, which is of type 1.
Rule(preds, tmpl) ==
  SetCompositeEventTemplate(
    FoldLeft(AddPredicate, AddRootPredicate(NewRule, Pred(1, <<>>, -1, 0, "EACH_WITHIN")), preds),
    tmpl)

\* 1 after 2 after 3, with a parameter, from which comes an event of type 2.
Chain(kind1, kind2) ==
  AddComplexParameter(
    Rule(<<Pred(2, <<>>, 0, 3, kind1), Pred(3, <<[name |-> "a", op |-> "GT", value |-> 0]>>, 1, 2, kind2)>>,
         Template(2, <<Op("ADD", Ref("STATE", 2), Ref("STATE", 0))>>)),
    Param("LT", Op("SUB", Ref("STATE", 1), Number(1)), Ref("STATE", 0)))

\* 1 with a 2 and with a 3 before it, from which comes an event of type 1.
Fork(kind1, kind2) ==
  Rule(<<Pred(2, <<>>, 0, 2, kind1), Pred(3, <<>>, 0, 4, kind2)>>,
       Template(1, <<Ref("STATE", 1)>>))

\* 1 after 2, the 2 used once.
Consuming == AddConsuming(Rule(<<Pred(2, <<>>, 0, 50, "FIRST_WITHIN")>>,
                               Template(4, <<Ref("STATE", 1)>>)), 1)

Aggregated(fun) ==
  AddTimeBasedAggregate(Rule(<<Pred(2, <<>>, 0, 5, "LAST_WITHIN")>>,
                             Template(4, <<Ref("AGG", 0)>>)),
                        Unbounded(3) @@ [fun |-> fun, name |-> "a"], 0, 3)

\* The name of an aggregate's attribute is not copied into a parameter for the
\* device: there it is what the memory of the parameter held before.
Leftover(rule, name) ==
  LET named(tree) == [j \in DOMAIN tree |->
        IF ~ tree[j].empty /\ tree[j].type = "LEAF" /\ ~ tree[j].isStatic /\ tree[j].sType = "AGG"
        THEN [tree[j] EXCEPT !.attrName = name] ELSE tree[j]]
  IN  [rule EXCEPT !.gpu = [i \in DOMAIN @ |-> [@[i] EXCEPT !.leftTree = named(@),
                                                            !.rightTree = named(@)]]]

\* The elements of the aggregate are compared with the other value.
Compared(fun, op, other) ==
  AddComplexParameterForAggregate(Aggregated(fun), Param(op, Ref("AGG", 0), other))

Negated ==
  AddComplexParameterForNegation(
    AddNegationBetweenStates(Rule(<<Pred(2, <<>>, 0, 4, "EACH_WITHIN")>>, Template(4, <<Ref("STATE", 1)>>)),
                             Unbounded(3), 0, 1),
    Param("EQ", Ref("NEG", 0), Ref("STATE", 1)))

NegatedBefore ==
  AddTimeBasedNegation(Rule(<<Pred(2, <<>>, 0, 4, "EACH_WITHIN")>>, Template(4, <<>>)),
                       Unbounded(3), 0, 2)

\* 1 after 2 in a short window: the stack goes around the end of its column.
Short(win) == Rule(<<Pred(2, <<>>, 0, win, "EACH_WITHIN")>>, Template(4, <<Ref("STATE", 1)>>))

Packet(type, v) == [eventType |-> type, attrs |-> <<[name |-> "a", type |-> "INT", value |-> v]>>]
One == Packet(1, 2)
Two == Packet(2, 1)
Three == Packet(3, 1)

Setup(rules, d, mul, page, alloc, max, packets, steps) ==
  [rules |-> rules, d |-> d, mul |-> mul, page |-> page, alloc |-> alloc, start |-> 100,
   before |-> 1, max |-> max, packets |-> packets, steps |-> steps]

\* One processor: a stack that goes around, in pages of one and of two events,
\* rules that recur, a negation.
SingleSetups ==
  {Setup(<<Short(2)>>, 3, 1, 1, 3, 8, {One, Two}, {1}),
   Setup(<<Short(3)>>, 2, 1, 2, 4, 8, {One, Two}, {1}),
   Setup(<<Chain("LAST_WITHIN", "EACH_WITHIN")>>, 4, 1, 2, 4, 6, {One, Two, Three}, {1}),
   Setup(<<Fork("EACH_WITHIN", "FIRST_WITHIN")>>, 4, 1, 2, 4, 5, {One, Two, Three}, {1}),
   Setup(<<NegatedBefore>>, 4, 1, 2, 8, 4, {One, Two, Three}, {1, 2})}

\* One aggregate of each kind.
AggregateSetups ==
  {Setup(<<Aggregated(fun)>>, 2, 1, 4, 8, 4, {One, Two, Three, Packet(3, 4)}, {1}) :
     fun \in {"AVG", "SUM", "MAX", "MIN", "COUNT"}}

\* With a parameter that no packet fails, which the device is never given; with
\* one that some packets fail, which it is given when the attribute's name
\* happens to be there; with a column that goes around.
ComparedSetups ==
  {Setup(<<Compared("MAX", "GT", Number(0))>>, 2, 1, 4, 8, 4, {One, Two, Three, Packet(3, 4)}, {1}),
   Setup(<<Leftover(Compared("AVG", "GT", Ref("STATE", 0)), "a")>>, 2, 1, 4, 8, 4,
         {One, Two, Three, Packet(3, 4)}, {1}),
   Setup(<<Aggregated("SUM")>>, 6, 1, 1, 3, 8, {One, Two, Three}, {1})}

\* Two processors share the device; here nothing expires.
SharedSetups ==
  {Setup(<<Consuming, Chain("EACH_WITHIN", "LAST_WITHIN")>>, 3, 2, 2, 4, 5, {One, Two, Three}, {1}),
   Setup(<<Aggregated("AVG"), Negated>>, 3, 2, 2, 8, 4, {One, Two, Three, Packet(3, 2)}, {1})}

\* Too many rules, too few pages for a rule, too few for an event that
\* is published or that results from one.
ExitSetups ==
  {Setup(<<Chain("EACH_WITHIN", "EACH_WITHIN")>>, 2, 1, 2, 4, 4, {One, Two, Three}, {1}),
   Setup(<<Short(3), Short(3), Short(3)>>, 3, 1, 2, 4, 1, {One}, {1}),
   Setup(<<Negated, Negated>>, 3, 1, 2, 4, 2, {One, Two}, {1}),
   Setup(<<Short(3)>>, 1, 1, 2, 4, 3, {Two}, {1})}

MCSetups == SingleSetups \union AggregateSetups \union ComparedSetups \union SharedSetups \union ExitSetups
=============================================================================
