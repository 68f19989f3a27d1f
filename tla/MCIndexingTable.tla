--------------------------- MODULE MCIndexingTable ---------------------------
(***************************************************************************)
(* Rules and packets for IndexingTable.                                    *)
(***************************************************************************)
EXTENDS IndexingTable

P(eventType, constraints) == [eventType |-> eventType, constraints |-> constraints]
C(type, name, op, val) == [type |-> type, name |-> name, op |-> op, val |-> val]

XBelow == C("int", "x", "LT", 2)
XAbove == C("int", "x", "GT", 0)
XEqual == C("int", "x", "EQ", 1)
XOther == C("int", "x", "NE", 1)
YAtMost == C("float", "y", "LE", 1)
YAtLeast == C("float", "y", "GE", 1)
BTrue == C("bool", "b", "EQ", TRUE)
BNot == C("bool", "b", "NE", TRUE)
Office == C("string", "s", "EQ", "office")
HasKit == C("string", "s", "IN", "kit")
Kitchen == C("string", "s", "EQ", "kitchen")

\* Rules that share constraints, of one to three predicates, on two event types.
SharedRules ==
  {<<P(1, <<XBelow, XAbove>>)>>,
   <<P(1, <<XAbove>>), P(2, <<XAbove, BTrue>>), P(1, <<>>)>>,
   <<P(1, <<XEqual, YAtMost, BTrue>>)>>,
   <<P(1, <<YAtLeast, YAtMost>>), P(1, <<XOther, BNot>>)>>,
   <<P(2, <<>>), P(1, <<XBelow, XOther, YAtLeast>>)>>}

\* Rules on different values of one string attribute.
StringRules == {<<P(1, <<Office>>)>>, <<P(1, <<Kitchen>>)>>, <<P(1, <<HasKit>>)>>}

\* A rule that states a constraint twice.
TwiceRules == {<<P(1, <<XAbove, XAbove>>)>>, <<P(1, <<XAbove>>)>>}

\* At most one attribute of each name.
Opt(type, name, vals) ==
  {<<>>} \cup {<<[type |-> type, name |-> name, val |-> v]>> : v \in vals}

NumberPackets ==
  {[eventType |-> et, attributes |-> x \o y \o b] :
     et \in {1, 2}, x \in Opt("int", "x", 0 .. 2), y \in Opt("float", "y", 0 .. 2),
     b \in Opt("bool", "b", BOOLEAN)}

StringPackets ==
  {[eventType |-> 1, attributes |-> s] : s \in Opt("string", "s", {"office", "kitchen"})}

\* Strings that contain others.
StringIncludes(s, t) == s = t \/ <<s, t>> \in {<<"kitchen", "kit">>}
=============================================================================
