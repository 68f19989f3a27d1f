----------------------------- MODULE GPUValues -----------------------------
(***************************************************************************)
(* The values the device computes: complex parameters from their prefix    *)
(* form (Engine/GPU/Kernels/...ParametersFuns.cu, Parameters.cu), reductions*)
(* of aggregates (Aggregates.cu) and the attributes of composite events    *)
(* (CompositeEventGenerator.cu).                                           *)
(*                                                                         *)
(* infos maps the states filled so far to packets, from the terminator's   *)
(* state n - 1 down: state s is predicate n - 1 - s.  A node of a          *)
(* parameter has in attrNum the position that the attribute had in the     *)
(* sample of its stack; the device never looks at names.  A reduction runs *)
(* in one block (the bound: at most 2 * GPU_THREADS elements).             *)
(***************************************************************************)
EXTENDS Values

\* BIG_NUM and -SMALL_NUM.
BIG_NUM == 1048576 * Unit

\* The attribute at a position, converted from its own type; zeroed memory and
\* a STRING give no number.
ReadAttr(t, ev, num) ==
  IF num \notin DOMAIN ev.attrs \/ (ev.attrs[num].type = "STRING" /\ t # "STRING")
  THEN Missing(t)
  ELSE Convert(t, ev.attrs[num].type, ev.attrs[num].value)

ReadStatic(t, node) ==
  IF t = "STRING" THEN node.value ELSE Convert(t, node.valueType, node.value)

\* d_read*Value: ev is the candidate for state s.  Only d_readStringValue has no
\* test for aggregates: it takes the reference for one to a state.
DReadValue(t, ev, infos, s, node) ==
  CASE node.isStatic -> ReadStatic(t, node)
    [] ~ node.isStatic /\ node.sType = "AGG" /\ t # "STRING" -> Missing(t)
    [] OTHER -> ReadAttr(t, IF node.refersTo = s /\ node.sType = "STATE" THEN ev
                            ELSE infos[node.refersTo], node.attrNum)

\* d_read*ValueForNegation: neg is the event of the negation's stack.
DReadValueForNegation(t, ev, neg, infos, s, node) ==
  CASE node.isStatic -> ReadStatic(t, node)
    [] ~ node.isStatic /\ node.sType = "AGG" -> Missing(t)
    [] OTHER -> ReadAttr(t, IF node.sType = "NEG" THEN neg
                            ELSE IF node.refersTo = s THEN ev
                            ELSE infos[node.refersTo], node.attrNum)

\* d_read*ValueForAggregate.
DReadValueForAggregate(t, ev, infos, node) ==
  IF node.isStatic THEN ReadStatic(t, node)
  ELSE ReadAttr(t, IF node.sType = "AGG" THEN ev ELSE infos[node.refersTo],
                node.attrNum)

\* The prefix form, from its end, with a stack: the operand on top is the left
\* one.  An operation of another type leaves the stack as it is.  && and || pop
\* the right operand only when they look at it; the answer is the bottom.
PrefixValue(t, nodes, vals) ==
  LET decided(op, a) == (op = "AND" /\ ~ a) \/ (op = "OR" /\ a)
      step(st, i) ==
        LET node == nodes[i] IN
        CASE node.type = "LEAF" -> <<vals[i]>> \o st
          [] node.type = "INNER" /\ t = "BOOL" /\ node.operation \in {"AND", "OR"} ->
               IF decided(node.operation, st[1]) THEN st ELSE Tail(st)
          [] node.type = "INNER" /\ t # "BOOL" /\ node.operation \notin {"AND", "OR"} ->
               <<ApplyNumber(t, node.operation, st[1], st[2])>> \o SubSeq(st, 3, Len(st))
          [] OTHER -> st
      final == FoldLeft(step, <<>>, Reverse([i \in DOMAIN vals |-> i]))
  IN  final[Len(final)]

\* d_compute*Value; a STRING is read from the last leaf.
DComputeValue(t, ev, infos, s, tree, size) ==
  PrefixValue(t, tree, [i \in 1 .. size |-> IF tree[i].type = "INNER" THEN 0
                                             ELSE DReadValue(t, ev, infos, s, tree[i])])

DComputeValueForNegation(t, ev, neg, infos, s, tree, size) ==
  PrefixValue(t, tree, [i \in 1 .. size |-> IF tree[i].type = "INNER" THEN 0
                          ELSE DReadValueForNegation(t, ev, neg, infos, s, tree[i])])

DComputeValueForAggregate(t, ev, infos, tree, size) ==
  PrefixValue(t, tree, [i \in 1 .. size |-> IF tree[i].type = "INNER" THEN 0
                          ELSE DReadValueForAggregate(t, ev, infos, tree[i])])

\* d_strcmp is 0.
SameString(a, b) == a = b

\* LE and GE do not exist on the device.
DCompare(t, op, a, b) ==
  CASE t \in {"INT", "FLOAT"} -> op \in {"EQ", "GT", "LT", "NE"} /\ CompareNumbers(op, a, b)
    [] t = "BOOL" -> (op = "EQ" /\ a = b) \/ (op = "NE" /\ a # b)
    [] t = "STRING" -> (op = "EQ" /\ SameString(a, b)) \/ (op = "NE" /\ ~ SameString(a, b))

DCheckComplexParameter(ev, par, infos, s) ==
  DCompare(par.vType, par.operation,
           DComputeValue(par.vType, ev, infos, s, par.leftTree, par.lSize),
           DComputeValue(par.vType, ev, infos, s, par.rightTree, par.rSize))

DCheckComplexParameterForNegation(ev, neg, par, infos, s) ==
  DCompare(par.vType, par.operation,
           DComputeValueForNegation(par.vType, ev, neg, infos, s, par.leftTree, par.lSize),
           DComputeValueForNegation(par.vType, ev, neg, infos, s, par.rightTree, par.rSize))

DCheckComplexParameterForAggregate(ev, par, infos) ==
  DCompare(par.vType, par.operation,
           DComputeValueForAggregate(par.vType, ev, infos, par.leftTree, par.lSize),
           DComputeValueForAggregate(par.vType, ev, infos, par.rightTree, par.rSize))

----------------------------------------------------------------------------
(* Aggregates.  k has what a kernel is given: the events in range, the     *)
(* position of the attribute, the events of the result, the aggregate's    *)
(* index and the parameters of all aggregates as the device has them.      *)

\* computeVal: past the size there is no element.  For each parameter of the
\* aggregate the parameter checked is the one param points to, the first of the
\* rule's aggregate parameters.
ComputeVal(k, i) ==
  LET ev == k.events[i + 1]
      param == k.pars.list[1]
      checked == IF param.known THEN DCheckComplexParameterForAggregate(ev, param.par, k.infos)
                 ELSE k.undef
  IN  IF i >= Len(k.events) THEN [ok |-> FALSE, val |-> 0]
      ELSE [ok |-> IF k.pars.set
                   THEN \A g \in Range(k.pars.list) : g.par.aggIndex = k.agg => checked
                   ELSE k.undef,
            val |-> ReadAttr("FLOAT", ev, k.attr)]

PowerOfTwo(size) == CHOOSE n \in {2^k : k \in 0 .. 16} : n >= size /\ (n = 1 \/ n \div 2 < size)

\* The halving in shared memory of b values, b a power of two: sdata[0].
Halved(Op(_, _), sdata, b) ==
  LET widths == SelectSeq([j \in 1 .. 16 |-> b \div 2^j], LAMBDA w : w > 0)
  IN  FoldLeft(LAMBDA s, w : [t \in 0 .. w - 1 |-> Op(s[t], s[t + w])], sdata, widths)[0]

\* Each thread of the block first combines two elements, b apart.
ReduceFirst(vals, n, Op(_, _), Value(_)) ==
  LET b == IF n = 1 THEN 1 ELSE n \div 2
  IN  Halved(Op, [t \in 0 .. b - 1 |-> Op(Value(vals[t]), Value(vals[t + b]))], b)

ReduceFirstMax(vals, n, isMax) ==
  ReduceFirst(vals, n,
              LAMBDA x, y : IF isMax = (x > y) THEN x ELSE y,
              LAMBDA it : IF it.ok THEN it.val
                          ELSE IF isMax THEN - BIG_NUM ELSE BIG_NUM)

ReduceFirstSumFloat(vals, n) ==
  ReduceFirst(vals, n, LAMBDA x, y : x + y, LAMBDA it : IF it.ok THEN it.val ELSE 0)

\* The end of computeAggregates, for what computeVal gives the threads: a float.
FromThreads(fun, n, vals) ==
  LET count == Cardinality({t \in 0 .. n - 1 : vals[t].ok})
      sum   == ReduceFirstSumFloat(vals, n)
  IN  CASE fun = "COUNT" -> count * Unit
        [] fun = "SUM" -> sum
        [] fun = "AVG" -> IF count > 0 THEN Truncated(sum, count) ELSE 0
        [] fun \in {"MAX", "MIN"} -> ReduceFirstMax(vals, n, fun = "MAX")

Reduction(fun, n, k) == FromThreads(fun, n, [t \in 0 .. n |-> ComputeVal(k, t)])

----------------------------------------------------------------------------
(* Composite events.  samples[i] is the sample of predicate i, in which     *)
(* the position of an attribute is looked up.                              *)

\* The member of the union for t, whatever the attribute holds.
RawMember(t, ev, pos) ==
  IF ev.attrs[pos].type = t THEN ev.attrs[pos].value ELSE NaN

\* computeIntValue and computeFloatValue.
GPUComputeNumber(t, n, infos, tree, samples, aggs) ==
  LET leaf(s, ref) ==
        CASE ref.ref = "STATIC" -> Convert(s, ref.type, ref.value)
          [] ref.ref # "STATIC" /\ ref.sType = "AGG" -> Convert(s, "FLOAT", aggs[ref.index])
          [] OTHER -> LET pos == AttributeIndex(samples[ref.index], ref.name)
                      IN  IF pos = 0 THEN 0 ELSE RawMember(s, infos[n - 1 - ref.index], pos)
  IN  Evaluated(t, tree, [s \in {"INT", "FLOAT"} |->
                            [ref \in Leaves(tree) |-> leaf(s, ref)]])

GPUComputeBool(n, infos, tree, samples) ==
  LET leaf(ref) ==
        CASE ref.ref = "STATIC" -> Convert("BOOL", ref.type, ref.value)
          [] OTHER -> LET pos == AttributeIndex(samples[ref.index], ref.name)
                      IN  /\ ref.sType # "AGG" /\ pos # 0
                          /\ RawMember("BOOL", infos[n - 1 - ref.index], pos)
  IN  Evaluated("BOOL", tree, [t \in {"BOOL"} |->
                                 [ref \in Leaves(tree) |-> leaf(ref)]])

GPUComputeString(n, infos, tree, samples) ==
  CASE tree.ref.ref = "STATIC" -> tree.ref.value
    [] OTHER -> LET pos == AttributeIndex(samples[tree.ref.index], tree.ref.name)
                IN  IF pos = 0 THEN ""
                    ELSE RawMember("STRING", infos[n - 1 - tree.ref.index], pos)

AddStaticAttributes(tmpl, attributes) == attributes \o tmpl.statics

\* One event of getGeneratedEvents, with the time of the terminator.
GPUCompositeEvent(tmpl, n, infos, samples, aggs) ==
  LET value(tree) ==
        CASE tree.vtype \in {"INT", "FLOAT"} ->
               GPUComputeNumber(tree.vtype, n, infos, tree, samples, aggs)
          [] tree.vtype = "BOOL" -> GPUComputeBool(n, infos, tree, samples)
          [] tree.vtype = "STRING" -> GPUComputeString(n, infos, tree, samples)
  IN  [eventType |-> tmpl.eventType, ts |-> infos[n - 1].ts,
       attrs |-> AddStaticAttributes(tmpl,
                   [i \in DOMAIN tmpl.attributes |->
                      [name |-> tmpl.attributes[i].name,
                       type |-> tmpl.attributes[i].tree.vtype,
                       value |-> value(tmpl.attributes[i].tree)]])]
=============================================================================
