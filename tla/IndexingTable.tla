--------------------------- MODULE IndexingTable ---------------------------
(***************************************************************************)
(* The index of the predicates of all rules: IndexingTable.cc and the      *)
(* ConstraintIndex classes of TRex2-lib/src/Engine.                        *)
(*                                                                         *)
(* A rule is a sequence of predicates (its states, aggregates and          *)
(* negations), each with an event type and constraints.  Equal constraints *)
(* of all rules share one table constraint.  For a packet every predicate  *)
(* counts the table constraints that hold and matches when as many hold as *)
(* it has constraints.                                                     *)
(***************************************************************************)
EXTENDS Integers, Sequences, FiniteSets

CONSTANTS
  RulePkts,        \* rules a client may install
  PubPkts,         \* packets a client may publish
  MaxRules,        \* bound: rules installed
  Includes(_, _)   \* std::string::find: the first string contains the second

ASSUME BoundAssumption == MaxRules \in Nat

(***************************************************************************)
(* A predicate is [eventType, constraints], a constraint                   *)
(* [type, name, op, val], a packet [eventType, attributes], an attribute   *)
(* [type, name, val].  Float values are integers here: only their order    *)
(* matters.                                                                *)
(***************************************************************************)
VARIABLES
  rules,    \* the rules installed
  todo,     \* constraints of the last rule that installRulePkt has yet to do
  table,    \* usedConstraints of all indexes, in order of creation
  last,     \* the last packet processed, in a sequence of at most one
  mh        \* the MatchingHandler filled for it: predicates

vars == <<rules, todo, table, last, mh>>

\* TablePred: rule and position in it.
Preds == UNION {{<<r, i>> : i \in 1 .. Len(rules[r])} : r \in 1 .. Len(rules)}

Pred(tp) == rules[tp[1]][tp[2]]

Init ==
  /\ rules = <<>>
  /\ todo = {}
  /\ table = <<>>
  /\ last = <<>>
  /\ mh = {}

-----------------------------------------------------------------------------
(***************************************************************************)
(* installRulePkt.                                                         *)
(***************************************************************************)
InstallRulePkt ==
  /\ todo = {}
  /\ Len(rules) < MaxRules
  /\ \E rule \in RulePkts :
       /\ rules' = Append(rules, rule)
       /\ todo' = UNION {{<<i, j>> : j \in 1 .. Len(rule[i].constraints)}
                           : i \in 1 .. Len(rule)}
  /\ last' = <<>>
  /\ mh' = {}
  /\ UNCHANGED table

\* The map of an OperatorsTable a constraint is stored in; "" for none.
OpTable(type, op) ==
  CASE type = "string" -> (IF op \in {"EQ", "IN"} THEN op ELSE "")
    [] type = "bool"   -> (IF op = "EQ" THEN "EQ" ELSE "NE")
    [] OTHER           -> (IF op \in {"EQ", "LT", "GT", "LE", "GE"} THEN op ELSE "NE")

\* Mutant of Equal: the test of the string index in all of them.
MutEqual(t, c) == t.val # c.val

\* The values getConstraint takes for equal.  That of the string index takes the
\* ones that differ.
Equal(t, c) == IF c.type = "string" THEN t.val # c.val ELSE t.val = c.val

\* The table constraints getConstraint may return: the sets are ordered by
\* address, so any of them may come first.
Found(eventType, c) ==
  {k \in 1 .. Len(table) :
     /\ table[k].eventType = eventType
     /\ table[k].type = c.type
     /\ table[k].op = c.op
     /\ Equal(table[k], c)
     /\ table[k].name = c.name}

\* Another table constraint has the place of c in its map: insert does nothing.
Occupied(eventType, c) ==
  \E k \in 1 .. Len(table) :
     /\ table[k].indexed
     /\ table[k].eventType = eventType
     /\ table[k].type = c.type
     /\ table[k].name = c.name
     /\ OpTable(c.type, table[k].op) = OpTable(c.type, c.op)
     /\ table[k].val = c.val

\* Mutant of NewConstraint: a predicate is connected only with a constraint found.
MutNewConstraint(eventType, c, tp) ==
  [eventType |-> eventType, type |-> c.type, name |-> c.name, op |-> c.op,
   val |-> c.val, preds |-> {},
   indexed |-> OpTable(c.type, c.op) # "" /\ ~Occupied(eventType, c)]

\* createConstraint, installConstraint and the connection with predicate tp.
NewConstraint(eventType, c, tp) ==
  [eventType |-> eventType, type |-> c.type, name |-> c.name, op |-> c.op,
   val |-> c.val, preds |-> {tp},
   indexed |-> OpTable(c.type, c.op) # "" /\ ~Occupied(eventType, c)]

\* The connection with a table constraint that was found.
Connected(t, tp) == [t EXCEPT !.preds = @ \cup {tp}]

\* Constraints are installed in the order of the predicates and constraints.
NextTodo(p) ==
  /\ p \in todo
  /\ \A q \in todo : p[1] < q[1] \/ (p[1] = q[1] /\ p[2] <= q[2])

InstallConstraint ==
  \E p \in todo :
    LET tp == <<Len(rules), p[1]>>
        et == Pred(tp).eventType
        c  == Pred(tp).constraints[p[2]]
    IN  /\ NextTodo(p)
        /\ todo' = todo \ {p}
        /\ \/ /\ Found(et, c) = {}
              /\ table' = Append(table, NewConstraint(et, c, tp))
           \/ \E k \in Found(et, c) : table' = [table EXCEPT ![k] = Connected(@, tp)]
        /\ UNCHANGED <<rules, last, mh>>

-----------------------------------------------------------------------------
(***************************************************************************)
(* processMessage.                                                         *)
(***************************************************************************)
\* Whether a value v satisfies a constraint stored under val in a map.
Holds(map, v, val) ==
  CASE map = "EQ" -> v = val
    [] map = "IN" -> Includes(v, val)
    [] map = "LT" -> v < val
    [] map = "LE" -> v <= val
    [] map = "GT" -> v > val
    [] map = "GE" -> v >= val
    [] map = "NE" -> v # val

\* processMessage of an index reaches table constraint t for attribute a.
Reached(t, a) ==
  /\ t.indexed
  /\ t.type = a.type
  /\ t.name = a.name
  /\ Holds(OpTable(t.type, t.op), a.val, t.val)

\* processConstraint counts for predicate tp when attribute i of the packet
\* reaches table constraint k.
Counts(pkt, tp, i, k) ==
  /\ table[k].eventType = pkt.eventType
  /\ tp \in table[k].preds
  /\ Reached(table[k], pkt.attributes[i])

\* Mutant of PredCount: the indexes do not share predCount.
MutPredCount(pkt, tp) ==
  Cardinality({n \in (1 .. Len(pkt.attributes)) \X (1 .. Len(table)) :
                 table[n[2]].type = "int" /\ Counts(pkt, tp, n[1], n[2])})

\* predCount: how often processConstraint counts for predicate tp.
PredCount(pkt, tp) ==
  Cardinality({n \in (1 .. Len(pkt.attributes)) \X (1 .. Len(table)) :
                 Counts(pkt, tp, n[1], n[2])})

\* The predicates given to addToMatchingHandler: those without constraints
\* (NoConstraintIndex) and those whose count has reached constraintsNum.
Matching(pkt) ==
  {tp \in Preds :
     IF Pred(tp).constraints = <<>>
     THEN Pred(tp).eventType = pkt.eventType
     ELSE PredCount(pkt, tp) >= Len(Pred(tp).constraints)}

ProcessMessage ==
  /\ todo = {}
  /\ \E pkt \in PubPkts : last' = <<pkt>> /\ mh' = Matching(pkt)
  /\ UNCHANGED <<rules, todo, table>>

Next == InstallRulePkt \/ InstallConstraint \/ ProcessMessage

Spec == Init /\ [][Next]_vars

-----------------------------------------------------------------------------
(***************************************************************************)
(* Properties.                                                             *)
(***************************************************************************)
\* What a constraint asks of a packet.
Satisfied(c, pkt) ==
  \E i \in 1 .. Len(pkt.attributes) :
    LET a == pkt.attributes[i] IN
      a.type = c.type /\ a.name = c.name /\ Holds(c.op, a.val, c.val)

Matches(pred, pkt) ==
  /\ pred.eventType = pkt.eventType
  /\ \A j \in 1 .. Len(pred.constraints) : Satisfied(pred.constraints[j], pkt)

\* The type invariant.
TypeOK ==
  /\ rules \in Seq(RulePkts) /\ Len(rules) <= MaxRules
  /\ \A p \in todo : <<Len(rules), p[1]>> \in Preds
  /\ \A k \in 1 .. Len(table) : table[k].preds # {} /\ table[k].preds \subseteq Preds
  /\ mh \subseteq Preds

\* processMessage "Fills mh with the set of all matching states"
\* (IndexingTable.h): the counters find exactly the predicates all of whose
\* constraints hold, whichever rules share constraints and whatever the order in
\* which they were installed.
MatchesExactly ==
  last # <<>> => mh = {tp \in Preds : Matches(Pred(tp), last[1])}

\* Sharing is complete: no two table constraints stand for the same constraint,
\* and every one that an installed constraint created can be reached.
ConstraintsShared ==
  /\ \A k \in 1 .. Len(table) : table[k].indexed
  /\ \A k, m \in 1 .. Len(table) :
       (/\ table[k].eventType = table[m].eventType
        /\ table[k].type = table[m].type
        /\ table[k].name = table[m].name
        /\ table[k].op = table[m].op
        /\ table[k].val = table[m].val) => k = m
=============================================================================
