--------------------------- MODULE MCPacketStream ---------------------------
(***************************************************************************)
(* The packets that PacketStream sends: every kind of field and, for the   *)
(* rules, every kind of element with the identifiers in both orders.       *)
(***************************************************************************)
EXTENDS PacketStream

Con(n, o, t, v) == [name |-> n, op |-> o, type |-> t, val |-> v]
Att(n, t, v) == [name |-> n, type |-> t, val |-> v]

AllOps == <<Con("x", "EQ", "INT", 5), Con("y", "LT", "FLOAT", 2),
            Con("b", "NE", "BOOL", TRUE), Con("s", "IN", "STRING", "ab"),
            Con("x", "GT", "INT", 0)>>
SomeCons == {<<>>, AllOps}

SomeAttrs == {<<>>, <<Att("x", "INT", 5), Att("s", "STRING", "abc")>>,
              <<Att("b", "BOOL", FALSE), Att("f", "FLOAT", 1), Att("e", "STRING", "")>>}

Pubs  == {[pkt |-> "PUB", eventType |-> 3, time |-> t, attributes |-> a] :
            t \in {0, 9}, a \in SomeAttrs}
Subs  == {[pkt |-> "SUB", eventType |-> 4, constraints |-> c] : c \in SomeCons}
Ping  == [pkt |-> "PING"]
UnSub == [pkt |-> "UNSUB", sub |-> [eventType |-> 4, constraints |-> AllOps]]

Leaf(s, i, n) == [type |-> "LEAF", vtype |-> "INT",
                  ref |-> [ref |-> "RULEPKT", sType |-> s, index |-> i, name |-> n]]
Static(t, v) == [type |-> "LEAF", vtype |-> t,
                 ref |-> [ref |-> "STATIC", type |-> t, value |-> v]]
Node(o, l, r) == [type |-> "INNER", vtype |-> "INT", op |-> o, left |-> l, right |-> r]
Par(o, s, l, r) == [operation |-> o, type |-> s, vtype |-> "INT",
                    leftTree |-> l, rightTree |-> r]

Pred(e, c, ref, w, k) == [eventType |-> e, constraints |-> c, refersTo |-> ref,
                          win |-> w, kind |-> k]
Root == Pred(1, AllOps, -1, 0, "EACH_WITHIN")

\* A chain, a tree and a single predicate.
PredicateLists ==
  {<<Root>>,
   <<Root, Pred(2, <<>>, 0, 10, "LAST_WITHIN")>>,
   <<Root, Pred(2, <<>>, 0, 10, "FIRST_WITHIN"), Pred(3, <<>>, 1, 20, "ALL_WITHIN")>>,
   <<Root, Pred(2, <<>>, 0, 10, "EACH_WITHIN"), Pred(3, <<>>, 0, 20, "LAST_WITHIN"),
     Pred(1, <<>>, 1, 5, "LAST_WITHIN")>>}

Bound(lo, t, up) == [eventType |-> 5, constraints |-> <<>>, lowerId |-> lo,
                     lowerTime |-> t, upperId |-> up]
Negs(n) == {<<>>, <<Bound(-1, 15, 0)>>}
           \union IF n < 2 THEN {}
                  ELSE {<<Bound(0, 3, n - 1), Bound(-1, 15, 1)>>, <<Bound(n - 1, 3, 0)>>}
Agg(b, f, name) == [eventType |-> b.eventType, constraints |-> b.constraints,
                    lowerId |-> b.lowerId, lowerTime |-> b.lowerTime,
                    upperId |-> b.upperId, fun |-> f, name |-> name]
Aggs(n) == {<<>>, <<Agg(Bound(-1, 15, 0), "AVG", "x")>>}
           \union IF n < 2 THEN {}
                  ELSE {<<Agg(Bound(0, 3, 1), "SUM", "x"), Agg(Bound(1, 3, 0), "COUNT", "")>>}

\* Parameters on the predicates, negations and aggregates that are there; the
\* first has the static values that its GPU form loses, in both trees.
Pars(n, negs, aggs) ==
  <<Par("LE", "STATE", Node("OR", Leaf("STATE", n - 1, "x"), Static("BOOL", TRUE)),
        Static("STRING", "q")),
    Par("GE", "STATE",
        Node("MUL", Leaf("STATE", 0, "x"), Node("DIV", Static("FLOAT", 2), Leaf("STATE", n - 1, "yy"))),
        Static("INT", 4))>>
  \o (IF negs = <<>> THEN <<>>
      ELSE <<Par("EQ", "NEG", Leaf("NEG", Len(negs) - 1, "x"), Leaf("STATE", 0, "x"))>>)
  \o (IF aggs = <<>> THEN <<>>
      ELSE <<Par("NE", "AGG", Node("AND", Leaf("AGG", 0, ""), Static("INT", 1)),
                 Leaf("STATE", n - 1, "x"))>>)

Templates ==
  {[eventType |-> 9, attributes |-> <<>>, staticAttributes |-> <<>>],
   [eventType |-> 9,
    attributes |-> <<[name |-> "m", value |-> Node("SUB", Leaf("STATE", 0, "x"),
                                                   Node("OR", Leaf("AGG", 0, ""), Static("INT", 1)))],
                     [name |-> "k", value |-> Node("ADD", Leaf("STATE", 0, "x"), Static("INT", 1))]>>,
    staticAttributes |-> <<Att("z", "STRING", "no"), Att("w", "INT", 2)>>]}

JavaRules ==
  UNION {UNION {{[pkt |-> "RULE", predicates |-> ps, negations |-> ns, aggregates |-> as,
                  parameters |-> Pars(Len(ps), ns, as), template |-> t,
                  consuming |-> IF as = <<>> THEN {} ELSE {0, Len(ps) - 1}] :
                   t \in Templates} :
                ns \in Negs(Len(ps)), as \in Aggs(Len(ps))} :
         ps \in PredicateLists}

\* A rule of the library with simple parameters, built with its operations.
LibraryRules ==
  {LET r1 == AddDecodedPredicates(NewRule, [i \in DOMAIN ps |-> [key |-> i - 1, value |-> ps[i]]])
       r2 == FoldLeft(AddDecodedNegation, r1, <<Bound(-1, 15, 0)>>)
       r3 == FoldLeft(AddDecodedAggregate, r2, <<Agg(Bound(-1, 15, 0), "MAX", "x")>>)
       r4 == AddParameterBetweenStates(r3, 0, "x", Len(ps) - 1, "yy")
       r5 == AddParameter(r4, [evIndex1 |-> 0, name1 |-> "x", evIndex2 |-> 0,
                               name2 |-> "", type |-> "NEG"])
       r6 == AddConsuming(AddConsuming(r5, 0), Len(ps))
       r7 == SetCompositeEventTemplate(r6,
               [eventType |-> 9,
                attributes |-> <<[name |-> "m",
                                  value |-> Node("SUB", Leaf("STATE", 0, "x"),
                                                 Leaf("AGG", 0, "NULL"))]>>,
                staticAttributes |-> <<>>])
   IN [f \in DOMAIN r7 \union {"pkt"} |-> IF f = "pkt" THEN "RULE" ELSE r7[f]] :
      ps \in PredicateLists}

SomePub == CHOOSE p \in Pubs : Len(p.attributes) = 3 /\ p.time = 0

\* One packet of each kind after another; rules between other packets.
MCScripts(d) ==
  CASE d = "toServer" -> {<<r, SomePub>> : r \in JavaRules} \union {<<p, s>> : p \in Pubs, s \in Subs}
                         \union {<<UnSub, Ping, SomePub>>}
    [] d = "toClient" -> {<<p, Ping, q>> : p \in Pubs, q \in Pubs}
    [] d = "library"  -> {<<p>> : p \in LibraryRules \union Subs \union {UnSub}}

============================================================================
