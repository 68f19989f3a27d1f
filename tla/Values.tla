------------------------------- MODULE Values -------------------------------
(***************************************************************************)
(* The values the CPU computes from packets: the constraints and complex   *)
(* parameters of TRex2-lib/src/Common/Funs.cc and the attributes of        *)
(* composite events of Engine/CompositeEventGenerator.cc.                  *)
(*                                                                         *)
(* A packet is [eventType, ts, attrs], attrs a sequence of [name, type,    *)
(* value].  A FLOAT is a number of halves (the bound on its precision), so *)
(* that 3 stands for 1.5.  Trees are those of RulePkt.  A partial event pe *)
(* maps the states filled so far, from 0, to their packets.  An INT        *)
(* division by zero stops the process: no rule of this project divides.    *)
(***************************************************************************)
EXTENDS Columns, FiniteSets, SequencesExt, FiniteSetsExt

CONSTANT NaN     \* quiet_NaN, the value of an aggregate without elements

Unit == 2        \* halves in one

Truncated(x, n) == IF x >= 0 THEN x \div n ELSE -((-x) \div n)

\* A value of the given type, as C++ converts it to type t.
Convert(t, type, v) ==
  IF v = NaN THEN v
  ELSE CASE t = type -> v
         [] t = "INT" /\ type = "FLOAT" -> Truncated(v, Unit)
         [] t = "FLOAT" /\ type = "INT" -> v * Unit
         [] t = "INT" /\ type = "BOOL" -> IF v THEN 1 ELSE 0
         [] t = "FLOAT" /\ type = "BOOL" -> IF v THEN Unit ELSE 0
         [] t = "BOOL" -> v # 0

\* What is returned for an attribute that is not there.
Missing(t) == CASE t \in {"INT", "FLOAT"} -> 0
                [] t = "BOOL" -> FALSE
                [] t = "STRING" -> ""

\* getAttributeIndexAndType: the position of the first attribute of that name, 0
\* if there is none.
AttributeIndex(pkt, name) ==
  LET at == {i \in DOMAIN pkt.attrs : pkt.attrs[i].name = name}
  IN  IF at = {} THEN 0 ELSE Min(at)

----------------------------------------------------------------------------
(* Operation trees.                                                        *)

\* The arithmetic of an inner node on two numbers of type t; 0 for AND and OR.
ApplyNumber(t, op, a, b) ==
  LET unit == IF t = "FLOAT" THEN Unit ELSE 1
  IN  IF a = NaN \/ b = NaN THEN NaN
      ELSE CASE op = "ADD" -> a + b
             [] op = "SUB" -> a - b
             [] op = "MUL" -> Truncated(a * b, unit)
             [] op = "DIV" -> Truncated(a * unit, b)
             [] OTHER -> 0

ApplyBool(op, a, b) == CASE op = "AND" -> a /\ b
                         [] op = "OR" -> a \/ b
                         [] OTHER -> FALSE

\* The nodes of a tree.  Bound: a tree has at most MaxDepth levels below its root.
MaxDepth == 4
Nodes(tree) ==
  LET children(n) == IF n.type = "LEAF" THEN {} ELSE {n.left, n.right}
      down[d \in 0 .. MaxDepth] ==
        IF d = 0 THEN {tree} ELSE down[d - 1] \union UNION {children(n) : n \in down[d - 1]}
  IN  down[MaxDepth]

Leaves(tree) == {n.ref : n \in {n \in Nodes(tree) : n.type = "LEAF"}}

\* The value at type t of a tree whose leaf ref is val[t][ref].  Where val has
\* both numeric types, an INT subtree of a FLOAT node is computed with integers.
Evaluated(t, tree, val) ==
  LET value[s \in DOMAIN val, n \in Nodes(tree)] ==
        LET sub(c) == IF s = "FLOAT" /\ c.vtype = "INT" /\ "INT" \in DOMAIN val
                      THEN Convert("FLOAT", "INT", value["INT", c])
                      ELSE value[s, c]
        IN  CASE n.type = "LEAF" -> val[s][n.ref]
              [] n.type # "LEAF" /\ s = "BOOL" -> ApplyBool(n.op, sub(n.left), sub(n.right))
              [] OTHER -> ApplyNumber(s, n.op, sub(n.left), sub(n.right))
  IN  value[t, tree]

----------------------------------------------------------------------------
(* Complex parameters.                                                     *)

\* The packet a leaf of a parameter refers to: the one being checked when the
\* leaf names its state, or is of its kind.
Referred(pkt, pe, ref, index, sType) ==
  IF \/ ref.sType = "STATE" /\ sType = "STATE" /\ ref.index = index
     \/ ref.sType \in {"NEG", "AGG"} /\ ref.sType = sType
  THEN pkt ELSE pe[ref.index]

ComputeNumberForParameters(t, pkt, pe, tree, index, sType) ==
  LET leaf(ref) ==
        IF ref.ref = "STATIC" THEN Convert(t, ref.type, ref.value)
        ELSE LET p == Referred(pkt, pe, ref, index, sType)
                 i == AttributeIndex(p, ref.name)
             IN  IF i = 0 \/ p.attrs[i].type = "STRING" THEN 0
                 ELSE Convert(t, p.attrs[i].type, p.attrs[i].value)
  IN  Evaluated(t, tree, [s \in {t} |-> [ref \in Leaves(tree) |-> leaf(ref)]])

\* The branch for INT tests for BOOL a second time: an INT attribute is false.
ComputeBoolForParameters(pkt, pe, tree, index, sType) ==
  LET leaf(ref) ==
        IF ref.ref = "STATIC" THEN Convert("BOOL", ref.type, ref.value)
        ELSE LET p == Referred(pkt, pe, ref, index, sType)
                 i == AttributeIndex(p, ref.name)
             IN  IF i = 0 \/ p.attrs[i].type \notin {"BOOL", "FLOAT"} THEN FALSE
                 ELSE Convert("BOOL", p.attrs[i].type, p.attrs[i].value)
  IN  Evaluated("BOOL", tree, [t \in {"BOOL"} |->
                                 [ref \in Leaves(tree) |-> leaf(ref)]])

\* Trees of strings are leaves.
ComputeStringForParameters(pkt, pe, tree, index, sType) ==
  IF tree.ref.ref = "STATIC" THEN tree.ref.value
  ELSE LET p == Referred(pkt, pe, tree.ref, index, sType)
           i == AttributeIndex(p, tree.ref.name)
       IN  IF i = 0 THEN "" ELSE p.attrs[i].value

CompareNumbers(op, a, b) ==
  CASE op = "EQ" -> a = b
    [] op = "GT" -> a > b
    [] op = "LT" -> a < b
    [] op = "NE" -> a # b
    [] op = "LE" -> a <= b
    [] op = "GE" -> a >= b

\* Two BOOLs are "equal" when both hold, "different" when one of them holds.
CheckComplexParameter(pkt, pe, par, index, sType) ==
  LET number(tree) == ComputeNumberForParameters(par.vtype, pkt, pe, tree, index, sType)
      bool(tree)   == ComputeBoolForParameters(pkt, pe, tree, index, sType)
      string(tree) == ComputeStringForParameters(pkt, pe, tree, index, sType)
      l == par.leftTree
      r == par.rightTree
  IN  CASE par.vtype \in {"INT", "FLOAT"} ->
             CompareNumbers(par.operation, number(l), number(r))
        [] par.vtype = "BOOL" /\ par.operation = "EQ" -> bool(l) /\ bool(r)
        [] par.vtype = "BOOL" /\ par.operation = "NE" -> bool(l) \/ bool(r)
        [] par.vtype = "STRING" /\ par.operation = "EQ" -> string(l) = string(r)
        [] par.vtype = "STRING" /\ par.operation = "NE" -> string(l) # string(r)
        [] OTHER -> FALSE

----------------------------------------------------------------------------
(* Constraints of predicates, aggregates and negations, as the GPU's       *)
(* processor checks them; an index of the CPU's engine has its own.        *)

\* NE and IN are not tested for numbers and hold; a BOOL passes NE only.
Satisfied(type, op, v, c) ==
  CASE type \in {"INT", "FLOAT"} ->
         op \in {"EQ", "GT", "LT", "LE", "GE"} => CompareNumbers(op, v, c)
    [] type = "BOOL" -> op = "NE" /\ v # c
    [] type = "STRING" -> \/ op = "EQ" /\ v = c
                          \/ op = "NE" /\ v # c

\* The value is the constraint's member of the union for the attribute's type.
AllSatisfied(pkt, constraints) ==
  \A k \in DOMAIN constraints :
    LET c == constraints[k]
        i == AttributeIndex(pkt, c.name)
    IN  i # 0 /\ Satisfied(pkt.attrs[i].type, c.op, pkt.attrs[i].value, c.value)

CheckConstraints(pkt, rule, state) ==
  AllSatisfied(pkt, rule.predicates[state + 1].constraints)

CheckAggregateConstraints(pkt, rule, agg) ==
  AllSatisfied(pkt, rule.aggregates[agg + 1].constraints)

CheckNegationConstraints(pkt, rule, neg) ==
  AllSatisfied(pkt, rule.negations[neg + 1].constraints)

----------------------------------------------------------------------------
(* Composite events.  col is the column of packets of an aggregate.        *)

CheckParameters(pkt, pe, pars) ==
  \A par \in pars : CheckComplexParameter(pkt, pe, par, -1, "AGG")

\* A sequence of floats reduced by an aggregate function; the minimum and the
\* maximum of no value are 0, the average is 0 / 0.
Reduced(fun, vals) ==
  LET sum == FoldLeft(LAMBDA x, y : x + y, 0, vals)
  IN  CASE fun = "SUM" -> sum
        [] fun = "COUNT" -> Len(vals) * Unit
        [] fun = "AVG" -> IF vals = <<>> THEN NaN ELSE Truncated(sum, Len(vals))
        [] fun = "MAX" -> IF vals = <<>> THEN 0 ELSE Max(Range(vals))
        [] fun = "MIN" -> IF vals = <<>> THEN 0 ELSE Min(Range(vals))

\* A float.  An attribute that is missing or neither INT nor FLOAT counts as 0.
ComputeAggregate(agg, pe, col, pars) ==
  LET times  == [i \in DOMAIN col |-> col[i].ts]
      maxTS  == pe[agg.upperId].ts
      minTS  == IF agg.lowerId < 0 THEN Minus(maxTS, agg.lowerTime)
                ELSE pe[agg.lowerId].ts
      index1 == FirstValid(times, minTS)
      index2 == LastValid(times, maxTS, index1)
      used   == SelectSeq(SubSeq(col, index1, index2),
                          LAMBDA p : CheckParameters(p, pe, pars))
      val(p) == LET i == AttributeIndex(p, agg.name)
                IN  IF i = 0 \/ p.attrs[i].type \notin {"INT", "FLOAT"} THEN 0
                    ELSE Convert("FLOAT", p.attrs[i].type, p.attrs[i].value)
  IN  IF index1 = 0 \/ index2 = 0
      THEN IF agg.fun = "COUNT" THEN 0 ELSE NaN
      ELSE Reduced(agg.fun, [i \in DOMAIN used |-> val(used[i])])

\* computeIntValue and computeFloatValue; aggs[i] is the float of aggregate i.
ComputeNumber(t, pe, tree, aggs) ==
  LET leaf(s, ref) ==
        IF ref.ref = "STATIC" THEN Convert(s, ref.type, ref.value)
        ELSE IF ref.sType = "AGG" THEN Convert(s, "FLOAT", aggs[ref.index])
        ELSE LET p == pe[ref.index]
                 i == AttributeIndex(p, ref.name)
             IN  IF i = 0 \/ p.attrs[i].type \notin {"INT", "FLOAT"} THEN 0
                 ELSE Convert(s, p.attrs[i].type, p.attrs[i].value)
  IN  Evaluated(t, tree, [s \in {"INT", "FLOAT"} |->
                            [ref \in Leaves(tree) |-> leaf(s, ref)]])

\* computeBoolValue: aggregates are not defined for BOOL.
ComputeBool(pe, tree) ==
  LET leaf(ref) ==
        IF ref.ref = "STATIC" THEN Convert("BOOL", ref.type, ref.value)
        ELSE LET i == AttributeIndex(pe[ref.index], ref.name)
             IN  ref.sType # "AGG" /\ i # 0 /\ pe[ref.index].attrs[i].value
  IN  Evaluated("BOOL", tree, [t \in {"BOOL"} |->
                                 [ref \in Leaves(tree) |-> leaf(ref)]])

ComputeString(pe, tree) ==
  IF tree.ref.ref = "STATIC" THEN tree.ref.value
  ELSE LET i == AttributeIndex(pe[tree.ref.index], tree.ref.name)
       IN  IF i = 0 THEN "" ELSE pe[tree.ref.index].attrs[i].value

\* The composite event: the computed attributes, then the static ones, with the
\* time stamp of the terminator.
GenerateCompositeEvent(tmpl, pe, aggs) ==
  LET computed(a) ==
        [name |-> a.name, type |-> a.tree.vtype,
         value |-> CASE a.tree.vtype \in {"INT", "FLOAT"} ->
                          ComputeNumber(a.tree.vtype, pe, a.tree, aggs)
                     [] a.tree.vtype = "BOOL" -> ComputeBool(pe, a.tree)
                     [] a.tree.vtype = "STRING" -> ComputeString(pe, a.tree)]
  IN  [eventType |-> tmpl.eventType, ts |-> pe[0].ts,
       attrs |-> [i \in DOMAIN tmpl.attributes |-> computed(tmpl.attributes[i])]
                 \o tmpl.statics]
=============================================================================
