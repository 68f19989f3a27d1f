---------------------------- MODULE MCStacksRule ----------------------------
(***************************************************************************)
(* Rules for StacksRule, one for each shape the engine treats differently. *)
(***************************************************************************)
EXTENDS StacksRule

\* A rule without negations, aggregates or parameters.
PlainRule(refersTo, win, kind, consuming) ==
  [refersTo |-> refersTo, win |-> win, kind |-> kind, negs |-> <<>>, aggs |-> <<>>,
   branch |-> [k \in DOMAIN refersTo |-> {}], params |-> {}, consuming |-> consuming]

Bound(lower, time, upper, pars) ==
  [lowerId |-> lower, lowerTime |-> time, upperId |-> upper, pars |-> pars]

\* lowerTime of an aggregate between states: TimeMs(), the current time.
Now == 1000

\* Sequences: 0 after 1 after 2; and 1 and 2 both before 0.
ChainEach == PlainRule(<<0, 1>>, <<2, 2>>, <<"each", "each">>, {})
ChainLast == PlainRule(<<0, 1>>, <<3, 1>>, <<"last", "first">>, {1})
TreeMixed == PlainRule(<<0, 0>>, <<2, 3>>, <<"first", "last">>, {2})
SequenceRules == {ChainEach, ChainLast, TreeMixed}

\* Negations: in a time before a state, between a state and the one it refers to.
NegBeforeEnd ==
  [PlainRule(<<0>>, <<3>>, <<"last">>, {1}) EXCEPT !.negs = <<Bound(-1, 2, 0, {})>>]
NegBeforeState ==
  [PlainRule(<<0>>, <<3>>, <<"each">>, {}) EXCEPT !.negs = <<Bound(-1, 2, 1, {})>>]
NegBetween ==
  [PlainRule(<<0>>, <<3>>, <<"first">>, {}) EXCEPT !.negs = <<Bound(1, Now, 0, {})>>]
NegBetweenLast ==
  [PlainRule(<<0>>, <<2>>, <<"last">>, {1}) EXCEPT !.negs = <<Bound(1, Now, 0, {})>>]
NegationRules == {NegBeforeEnd, NegBeforeState, NegBetween, NegBetweenLast}

\* Aggregates over a time and between two states.
AggBefore ==
  [PlainRule(<<0>>, <<3>>, <<"each">>, {}) EXCEPT !.aggs = <<Bound(-1, 2, 0, {})>>]
AggBeforeState ==
  [PlainRule(<<0>>, <<3>>, <<"last">>, {1}) EXCEPT !.aggs = <<Bound(-1, 2, 1, {})>>]
AggBetween ==
  [PlainRule(<<0>>, <<3>>, <<"each">>, {}) EXCEPT !.aggs = <<Bound(1, Now, 0, {})>>]
AggregateRules == {AggBefore, AggBeforeState, AggBetween}

\* Parameters: a on both sides, checked while states are filled or at the end.
SameName == {[ev1 |-> 1, name1 |-> "a", ev2 |-> 0, name2 |-> "a"]}
EqualA == {[name |-> "a", ev |-> 0, evName |-> "a"]}
EndParam == [PlainRule(<<0>>, <<3>>, <<"last">>, {1}) EXCEPT !.params = SameName]
BranchParam == [PlainRule(<<0>>, <<3>>, <<"last">>, {1}) EXCEPT !.branch = <<EqualA>>]
NegParam ==
  [PlainRule(<<0>>, <<3>>, <<"each">>, {}) EXCEPT
     !.negs = <<Bound(1, Now, 0, {[name |-> "a", ev |-> 1, evName |-> "a"]})>>]
AggParam ==
  [PlainRule(<<0>>, <<3>>, <<"first">>, {}) EXCEPT !.aggs = <<Bound(-1, 3, 0, EqualA)>>]
ParameterRules == {EndParam, BranchParam, NegParam, AggParam}

\* A negation between two states that do not refer to each other.
NegAcross ==
  [PlainRule(<<0, 1>>, <<4, 2>>, <<"each", "each">>, {}) EXCEPT
     !.negs = <<Bound(2, Now, 0, {})>>]

\* The same sequences for packets that come in any order.
UnorderedRules ==
  {PlainRule(<<0, 1>>, <<2, 2>>, <<"each", "first">>, {1}),
   PlainRule(<<0, 0>>, <<2, 3>>, <<"last", "each">>, {2})}

CheckedRules ==
  SequenceRules \cup NegationRules \cup AggregateRules \cup ParameterRules
    \cup UnorderedRules
AcrossRules == {NegAcross}

\* The rules that are checked are local, so the theorem on what events mean speaks
\* of them; the one that fails is not.
ASSUME CheckedLocal == (\A r \in CheckedRules : RuleLocal(r)) /\ ~ RuleLocal(NegAcross)

\* Packets carry the attributes the rule speaks of.
RuleContents(r) ==
  CASE r \in ParameterRules -> [{"a"} -> {0, 1}]
    [] OTHER                -> {[n \in {} |-> 0]}

\* One packet may play two roles, except where its attributes already multiply
\* the cases.
Roles(r) == IF r \in ParameterRules THEN 1 ELSE 2

Stamped(r) == r \notin UnorderedRules
=============================================================================
