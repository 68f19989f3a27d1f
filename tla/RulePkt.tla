------------------------------ MODULE RulePkt ------------------------------
(***************************************************************************)
(* The rule packet of the library (Packets/RulePkt.cc): what each add      *)
(* operation accepts, the complex parameters kept in two forms - as trees  *)
(* for the CPU and serialised in prefix order, with inverted state         *)
(* indexes, for the GPU - and the queries on the ordering graph.           *)
(*                                                                         *)
(* A rule is a record.  Every add operation returns the new rule: a        *)
(* refused call (the code returns false) leaves the rule as it is, and no  *)
(* caller in the repository looks at the result.  Indexes are the code's,  *)
(* from 0; sequences are indexed from 1.                                   *)
(***************************************************************************)
EXTENDS Integers, Sequences, FiniteSets, SequencesExt, FiniteSetsExt

CONSTANT TimeNow      \* what TimeMs() reads from the clock

NewRule == [predicates |-> <<>>, negations |-> <<>>, aggregates |-> <<>>,
            parameters |-> <<>>, complex |-> <<>>, gpu |-> <<>>,
            consuming |-> {}, ceTemplate |-> "none"]

PredicatesNum(r) == Len(r.predicates)

----------------------------------------------------------------------------
(* Predicates, negations, aggregates, simple parameters and consuming.     *)

AddRootPredicate(r, p) ==
  IF r.predicates # <<>> THEN r
  ELSE [r EXCEPT !.predicates =
          <<[eventType |-> p.eventType, constraints |-> p.constraints,
             refersTo |-> -1, win |-> 0, kind |-> "EACH_WITHIN"]>>]

AddPredicate(r, p) ==
  IF r.predicates = <<>> \/ p.refersTo >= PredicatesNum(r) THEN r
  ELSE [r EXCEPT !.predicates = Append(@, p)]

\* The guard that addNegation and addAggregate share.
BoundsAccepted(r, x) ==
  /\ x.lowerId < PredicatesNum(r)
  /\ x.upperId \in 0 .. PredicatesNum(r) - 1
  /\ x.lowerId >= 0 => x.lowerId > x.upperId

AddNegation(r, n) ==
  IF BoundsAccepted(r, n) THEN [r EXCEPT !.negations = Append(@, n)] ELSE r

AddAggregate(r, a) ==
  IF BoundsAccepted(r, a) THEN [r EXCEPT !.aggregates = Append(@, a)] ELSE r

TimeBased(x, referenceId, win) ==
  [x EXCEPT !.lowerId = -1, !.lowerTime = win, !.upperId = referenceId]

\* Without the swap.
MutBetweenStates(x, id1, id2) ==
  [x EXCEPT !.lowerId = id1, !.lowerTime = TimeNow, !.upperId = id2]

\* std::swap makes the first id the larger one; the time is TimeMs().
BetweenStates(x, id1, id2) ==
  [x EXCEPT !.lowerId = Max({id1, id2}), !.lowerTime = TimeNow,
            !.upperId = Min({id1, id2})]

AddTimeBasedNegation(r, n, referenceId, win) ==
  AddNegation(r, TimeBased(n, referenceId, win))
AddNegationBetweenStates(r, n, id1, id2) ==
  AddNegation(r, BetweenStates(n, id1, id2))
AddTimeBasedAggregate(r, a, referenceId, win) ==
  AddAggregate(r, TimeBased(a, referenceId, win))
AddAggregateBetweenStates(r, a, id1, id2) ==
  AddAggregate(r, BetweenStates(a, id1, id2))

AddParameter(r, p) ==
  LET limit == CASE p.type = "STATE" -> PredicatesNum(r)
                 [] p.type = "AGG" -> Len(r.aggregates)
                 [] p.type = "NEG" -> Len(r.negations)
  IN IF /\ p.evIndex1 \in 0 .. PredicatesNum(r) - 1
        /\ p.evIndex2 \in 0 .. limit - 1
     THEN [r EXCEPT !.parameters = Append(@, p)] ELSE r

AddParameterBetweenStates(r, id1, name1, id2, name2) ==
  LET p == [evIndex1 |-> id1, name1 |-> name1, evIndex2 |-> id2,
            name2 |-> name2, type |-> "STATE"]
      q == [evIndex1 |-> id2, name1 |-> name2, evIndex2 |-> id1,
            name2 |-> name1, type |-> "STATE"]
  IN AddParameter(r, IF id1 < id2 THEN q ELSE p)

AddConsuming(r, i) ==
  IF i \in 0 .. PredicatesNum(r) - 1
  THEN [r EXCEPT !.consuming = @ \union {i}] ELSE r

SetCompositeEventTemplate(r, t) == [r EXCEPT !.ceTemplate = t]

----------------------------------------------------------------------------
(* Operation trees: [type |-> "LEAF", vtype, ref] or                       *)
(* [type |-> "INNER", vtype, left, right, op].                             *)

\* findLastState, findAggregate and findNegation: the largest index that a
\* leaf of the tree refers to with the given kind of state; -1 if none does.
RECURSIVE FindIndex(_, _)
FindIndex(tree, sType) ==
  IF tree.type = "INNER"
  THEN Max({FindIndex(tree.left, sType), FindIndex(tree.right, sType)})
  ELSE IF tree.ref.ref = "RULEPKT" /\ tree.ref.sType = sType
       THEN tree.ref.index ELSE -1

\* The depth without the inner nodes.
MutFindDepth(tree, depth) == depth

RECURSIVE FindDepth(_, _)
FindDepth(tree, depth) ==
  IF tree.type = "LEAF" THEN depth
  ELSE Max({FindDepth(tree.left, depth + 1), FindDepth(tree.right, depth + 1)})

EmptyNode == [empty |-> TRUE]

\* One tree in prefix order.  A state index is inverted with the number of
\* predicates at the time of the call; a static value keeps its number only
\* when it is an INT or a FLOAT; the attribute name is copied except for an
\* aggregate.
RECURSIVE SerializeNode(_, _)
SerializeNode(r, tree) ==
  IF tree.type = "INNER"
  THEN <<[empty |-> FALSE, type |-> "INNER", operation |-> tree.op]>>
       \o SerializeNode(r, tree.left) \o SerializeNode(r, tree.right)
  ELSE LET ref == tree.ref IN
       IF ref.ref = "STATIC"
       THEN <<[empty |-> FALSE, type |-> "LEAF", isStatic |-> TRUE,
               valueType |-> ref.type,
               value |-> IF ref.type \in {"INT", "FLOAT"} THEN ref.value ELSE -1]>>
       ELSE <<[empty |-> FALSE, type |-> "LEAF", isStatic |-> FALSE,
               sType |-> ref.sType,
               refersTo |-> IF ref.sType = "STATE"
                            THEN PredicatesNum(r) - ref.index - 1
                            ELSE ref.index,
               attrName |-> IF ref.sType = "AGG" THEN "unset" ELSE ref.name]>>

\* The nodes that the arrays of a GPUParameter have room for.
MAX_DEPTH == 5
TREE_SIZE == 2^MAX_DEPTH - 1

\* The node array: the serialised nodes, the cleared ones after them.  Of a tree
\* deeper than MAX_DEPTH the code clears and may fill nodes behind the array;
\* what that overwrites is not modelled.
SerializeTree(r, tree, depth) ==
  LET nodes == SerializeNode(r, tree)
  IN [i \in 1 .. Min({2^depth - 1, TREE_SIZE}) |->
        IF i <= Len(nodes) THEN nodes[i] ELSE EmptyNode]

\* Both forms of a complex parameter; refused when no leaf has its kind.
AddComplex(r, p, sType) ==
  LET last(s) == Max({FindIndex(p.leftTree, s), FindIndex(p.rightTree, s)})
      depth   == Max({FindDepth(p.leftTree, 2), FindDepth(p.rightTree, 2)})
      gp == [operation |-> p.operation, sType |-> sType, vType |-> p.vtype,
             depth |-> depth,
             \* the negation's or the aggregate's own index, -1 for a state's
             negIndex |-> IF sType = "NEG" THEN last("NEG") ELSE -1,
             aggIndex |-> IF sType = "AGG" THEN last("AGG") ELSE -1,
             lastIndex |-> IF sType = "AGG" THEN -1
                           ELSE PredicatesNum(r) - last("STATE") - 1,
             leftTree |-> SerializeTree(r, p.leftTree, depth),
             rightTree |-> SerializeTree(r, p.rightTree, depth),
             lSize |-> Len(SerializeNode(r, p.leftTree)),
             rSize |-> Len(SerializeNode(r, p.rightTree))]
  IN IF last(sType) < 0 THEN r
     ELSE [r EXCEPT !.complex = Append(@, [operation |-> p.operation,
                        type |-> sType, vtype |-> p.vtype,
                        leftTree |-> p.leftTree, rightTree |-> p.rightTree,
                        lastIndex |-> last(sType)]),
                    !.gpu = Append(@, gp)]

AddComplexParameter(r, p) == AddComplex(r, p, "STATE")
AddComplexParameterForAggregate(r, p) == AddComplex(r, p, "AGG")
AddComplexParameterForNegation(r, p) == AddComplex(r, p, "NEG")

----------------------------------------------------------------------------
(* The ordering graph: predicate i refers to predicate refersTo.           *)

\* operator[] creates a missing key, so the root's reference counts for -1.
ReferenceCount(r) ==
  [i \in (0 .. PredicatesNum(r) - 1) \union {p.refersTo : p \in Range(r.predicates)} |->
     Cardinality({k \in DOMAIN r.predicates : r.predicates[k].refersTo = i})]

GetLeaves(r) ==
  {i \in DOMAIN ReferenceCount(r) : ReferenceCount(r)[i] = 0}

RECURSIVE GetWinBetween(_, _, _)
GetWinBetween(r, lowerId, upperId) ==
  IF upperId = lowerId THEN 0
  ELSE r.predicates[upperId + 1].win
       + GetWinBetween(r, lowerId, r.predicates[upperId + 1].refersTo)

GetMaxWin(r) == Max({0} \union {GetWinBetween(r, 0, l) : l \in GetLeaves(r)})

IsDirectlyConnected(r, id1, id2) ==
  /\ id1 # id2 /\ {id1, id2} \subseteq 0 .. PredicatesNum(r) - 1
  /\ \/ r.predicates[id2 + 1].refersTo = id1
     \/ r.predicates[id1 + 1].refersTo = id2

\* Only the first step of the walk.
MutIsInTheSameSequence(r, id1, id2) ==
  /\ id1 # id2 /\ {id1, id2} \subseteq 0 .. PredicatesNum(r) - 1
  /\ r.predicates[Max({id1, id2}) + 1].refersTo = Min({id1, id2})

\* Walks from the larger id towards the root.
IsInTheSameSequence(r, id1, id2) ==
  LET RECURSIVE Reaches(_)
      Reaches(i) == /\ i > 0
                    /\ \/ r.predicates[i + 1].refersTo = Min({id1, id2})
                       \/ Reaches(r.predicates[i + 1].refersTo)
  IN /\ id1 # id2 /\ {id1, id2} \subseteq 0 .. PredicatesNum(r) - 1
     /\ Reaches(Max({id1, id2}))

ContainedEventTypes(r) == {p.eventType : p \in Range(r.predicates)}

ContainsEventType(r, eventType, includeNegations) ==
  \/ eventType \in ContainedEventTypes(r)
  \/ includeNegations /\ \E n \in Range(r.negations) : n.eventType = eventType

============================================================================
