--------------------------- MODULE Unmarshaller ---------------------------
(***************************************************************************)
(* The library's Unmarshaller (Unmarshaller.cc) and the server's packet    *)
(* framing (BufferedPacketUnmarshaller.cpp).  A rule is not stored as it   *)
(* is read: its parts are kept in maps and then added to a new RulePkt in  *)
(* the order predicates, aggregates, negations, parameters, template,      *)
(* consuming, by the operations of RulePkt, whose refusals are ignored.    *)
(***************************************************************************)
EXTENDS WireFormat

CppName ==
  [kind  |-> <<"EACH_WITHIN", "FIRST_WITHIN", "LAST_WITHIN", "ALL_WITHIN">>,
   op    |-> <<"EQ", "LT", "GT", "NE", "IN", "LE", "GE">>,
   sType |-> <<"STATE", "NEG", "AGG">>,
   ref   |-> <<"RULEPKT", "STATIC">>,
   vtype |-> <<"INT", "FLOAT", "BOOL", "STRING">>,
   fun   |-> <<"NONE", "AVG", "COUNT", "MIN", "MAX", "SUM">>,
   tree  |-> <<"LEAF", "INNER">>,
   oper  |-> <<"ADD", "SUB", "MUL", "DIV", "AND", "OR">>]

\* An unknown operator stays EQ; in the other enumerations the last constant
\* takes every other code.
CppEnum(s, i, e) ==
  LET n == At(s, i, "byte") + 1
  IN IF n \in DOMAIN CppName[e] THEN CppName[e][n]
     ELSE IF e = "op" THEN "EQ" ELSE Last(CppName[e])

----------------------------------------------------------------------------
(* Structures.                                                             *)

DecodeConstraint(s, i) ==
  LET o    == StrEnd(s, i)
      type == CppEnum(s, o + 1, "vtype")
      val  == ValAt(s, o + 2, type)
  IN [v |-> [name |-> StrAt(s, i), op |-> CppEnum(s, o, "op"), type |-> type,
             val |-> val.v],
      i |-> val.i]

DecodeAttribute(s, i) ==
  LET t    == StrEnd(s, i)
      type == CppEnum(s, t, "vtype")
      val  == ValAt(s, t + 1, type)
  IN [v |-> [name |-> StrAt(s, i), type |-> type, val |-> val.v], i |-> val.i]

\* constraintsNum and the constraints after it.
DecodeConstraints(s, i) ==
  DecodeN(LAMBDA k : DecodeConstraint(s, k), At(s, i, "int"), i + 4)

\* The fields of a predicate, a negation and an aggregate after its constraints
\* cs; type is the type of the event.
PredicateFields(s, type, cs) ==
  [v |-> [eventType |-> type, constraints |-> cs.v,
          refersTo |-> At(s, cs.i, "int"), win |-> At(s, cs.i + 4, "long"),
          kind |-> CppEnum(s, cs.i + 12, "kind")],
   i |-> cs.i + 13]

NegationFields(s, type, cs) ==
  [v |-> [eventType |-> type, constraints |-> cs.v,
          lowerId |-> At(s, cs.i, "int"), lowerTime |-> At(s, cs.i + 4, "long"),
          upperId |-> At(s, cs.i + 12, "int")],
   i |-> cs.i + 16]

AggregateFields(s, type, cs) ==
  [v |-> [eventType |-> type, constraints |-> cs.v,
          lowerId |-> At(s, cs.i, "int"), lowerTime |-> At(s, cs.i + 4, "long"),
          upperId |-> At(s, cs.i + 12, "int"), fun |-> CppEnum(s, cs.i + 16, "fun"),
          name |-> StrAt(s, cs.i + 17)],
   i |-> StrEnd(s, cs.i + 17)]

DecodeEventPredicate(s, i) ==
  PredicateFields(s, At(s, i, "int"), DecodeConstraints(s, i + 4))

DecodeNegation(s, i) ==
  NegationFields(s, At(s, i, "int"), DecodeConstraints(s, i + 4))

DecodeAggregate(s, i) ==
  AggregateFields(s, At(s, i, "int"), DecodeConstraints(s, i + 4))

\* An aggregate's reference with an empty name has no name.
DecodeRulePktReference(s, i) ==
  LET sType == CppEnum(s, i + 4, "sType")
      name  == StrAt(s, i + 5)
  IN [v |-> [ref |-> "RULEPKT", index |-> At(s, i, "int"), sType |-> sType,
             name |-> IF sType = "AGG" /\ name = "" THEN "NULL" ELSE name],
      i |-> StrEnd(s, i + 5)]

DecodeStaticValueReference(s, i) ==
  LET type == CppEnum(s, i, "vtype")
      val  == ValAt(s, i + 1, type)
  IN [v |-> [ref |-> "STATIC", type |-> type, value |-> val.v], i |-> val.i]

DecodeValueReference(s, i) ==
  IF CppEnum(s, i, "ref") = "RULEPKT" THEN DecodeRulePktReference(s, i + 1)
  ELSE DecodeStaticValueReference(s, i + 1)

\* Past the end of the buffer the code would read on; here it stops.
RECURSIVE DecodeOpTree(_, _)
DecodeOpTree(s, i) ==
  LET vtype == CppEnum(s, i + 1, "vtype") IN
  IF CppEnum(s, i, "tree") = "LEAF" \/ i > Len(s)
  THEN LET ref == DecodeValueReference(s, i + 2)
       IN [v |-> [type |-> "LEAF", vtype |-> vtype, ref |-> ref.v], i |-> ref.i]
  ELSE LET l == DecodeOpTree(s, i + 2)
           r == DecodeOpTree(s, l.i)
       IN [v |-> [type |-> "INNER", vtype |-> vtype, left |-> l.v, right |-> r.v,
                  op |-> CppEnum(s, r.i, "oper")],
           i |-> r.i + 1]

DecodeParameter(s, i) ==
  LET l == DecodeOpTree(s, i + 3)
      r == DecodeOpTree(s, l.i)
  IN [v |-> [operation |-> CppEnum(s, i, "op"), type |-> CppEnum(s, i + 1, "sType"),
             vtype |-> CppEnum(s, i + 2, "vtype"), leftTree |-> l.v, rightTree |-> r.v],
      i |-> r.i]

DecodeTemplateAttr(s, i) ==
  LET tree == DecodeOpTree(s, StrEnd(s, i))
  IN [v |-> [name |-> StrAt(s, i), value |-> tree.v], i |-> tree.i]

DecodeEventTemplate(s, i) ==
  LET attrs == DecodeN(LAMBDA k : DecodeTemplateAttr(s, k), At(s, i + 4, "int"), i + 8)
      stat  == DecodeN(LAMBDA k : DecodeAttribute(s, k),
                       At(s, attrs.i, "int"), attrs.i + 4)
  IN [v |-> [eventType |-> At(s, i, "int"), attributes |-> attrs.v,
             staticAttributes |-> stat.v],
      i |-> stat.i]

----------------------------------------------------------------------------
(* Packets.  A section of a rule is read into a map, in which the first    *)
(* element with a key stays, and used in the order of its keys.            *)

InKeyOrder(pairs) ==
  LET keys == SetToSortSeq({p.key : p \in Range(pairs)}, <)
  IN [k \in DOMAIN keys |-> pairs[SelectInSeq(pairs, LAMBDA p : p.key = keys[k])]]

ValuesOf(pairs) == [k \in DOMAIN pairs |-> pairs[k].value]

DecodeMap(Dec(_), s, i) ==
  LET Pair(k) == LET d == Dec(k + 4)
                 IN [v |-> [key |-> At(s, k, "int"), value |-> d.v], i |-> d.i]
      d == DecodeN(Pair, At(s, i, "int"), i + 4)
  IN [v |-> InKeyOrder(d.v), i |-> d.i]

DecodeIntSet(s, i) ==
  LET d == DecodeN(LAMBDA k : [v |-> At(s, k, "int"), i |-> k + 4],
                   At(s, i, "int"), i + 4)
  IN [v |-> Range(d.v), i |-> d.i]

\* Only the key 0 is the root's.
AddDecodedPredicates(r, pairs) ==
  FoldLeft(LAMBDA rule, p : IF p.key = 0 THEN AddRootPredicate(rule, p.value)
                            ELSE AddPredicate(rule, p.value), r, pairs)

AddDecodedAggregate(r, a) ==
  IF a.lowerId < 0 THEN AddTimeBasedAggregate(r, a, a.upperId, a.lowerTime)
  ELSE AddAggregateBetweenStates(r, a, a.lowerId, a.upperId)

AddDecodedNegation(r, n) ==
  IF n.lowerId < 0 THEN AddTimeBasedNegation(r, n, n.upperId, n.lowerTime)
  ELSE AddNegationBetweenStates(r, n, n.lowerId, n.upperId)

AddDecodedParameter(r, p) ==
  CASE p.type = "STATE" -> AddComplexParameter(r, p)
    [] p.type = "AGG"   -> AddComplexParameterForAggregate(r, p)
    [] OTHER            -> AddComplexParameterForNegation(r, p)

\* The section called name, at the position the sections before it have reached.
DecodeSection(s, read, name) ==
  LET with(d) == [i |-> d.i, v |-> read.v @@ (name :> d.v)]
  IN with(CASE name = "preds"  -> DecodeMap(LAMBDA k : DecodeEventPredicate(s, k), s, read.i)
            [] name = "params" -> DecodeMap(LAMBDA k : DecodeParameter(s, k), s, read.i)
            [] name = "aggs"   -> DecodeMap(LAMBDA k : DecodeAggregate(s, k), s, read.i)
            [] name = "negs"   -> DecodeMap(LAMBDA k : DecodeNegation(s, k), s, read.i)
            [] name = "templ"  -> DecodeEventTemplate(s, read.i)
            [] name = "cons"   -> DecodeIntSet(s, read.i))

\* The rule of the sections, by the operations of RulePkt.
BuildRule(v) ==
  LET r1 == AddDecodedPredicates(NewRule, v.preds)
      r2 == FoldLeft(AddDecodedAggregate, r1, ValuesOf(v.aggs))
      r3 == FoldLeft(AddDecodedNegation, r2, ValuesOf(v.negs))
      r4 == FoldLeft(AddDecodedParameter, r3, ValuesOf(v.params))
      r5 == SetCompositeEventTemplate(r4, v.templ)
  IN FoldLeft(AddConsuming, r5, SetToSortSeq(v.cons, <))

DecodeRulePkt(s, i) ==
  BuildRule(FoldLeft(LAMBDA read, name : DecodeSection(s, read, name),
                     [i |-> i, v |-> <<>>],
                     <<"preds", "params", "aggs", "negs", "templ", "cons">>).v)

\* A publication without a time stamp gets the server's time; TimeMs is unsigned,
\* so every other stamp is kept.
DecodePubPkt(s, i) ==
  LET time  == At(s, i + 4, "long")
      attrs == DecodeN(LAMBDA k : DecodeAttribute(s, k), At(s, i + 12, "int"), i + 16)
  IN [eventType |-> At(s, i, "int"), time |-> IF time # 0 THEN time ELSE TimeNow,
      attributes |-> attrs.v]

DecodeSubPkt(s, i) ==
  [eventType |-> At(s, i, "int"), constraints |-> DecodeConstraints(s, i + 4).v]

\* The nested packet's own type and length are skipped.
DecodeUnSubPkt(s, i) == [sub |-> DecodeSubPkt(s, i + 5)]

----------------------------------------------------------------------------
(* BufferedPacketUnmarshaller: one packet from the front of the buffer, if *)
(* it is complete; the bytes of the next ones stay.                        *)

NoPacket == [pkt |-> "none"]

\* Only the types that the library itself knows.
MutDecodePktType(buffer) ==
  LET types == {t \in {"PUB", "RULE", "SUB"} : PktCode[t] = At(buffer, 1, "byte")}
  IN IF types = {} THEN "logic_error" ELSE CHOOSE t \in types : TRUE

\* An unknown type throws.
DecodePktType(buffer) ==
  LET types == {t \in DOMAIN PktCode : PktCode[t] = At(buffer, 1, "byte")}
  IN IF types = {} THEN "logic_error" ELSE CHOOSE t \in types : TRUE

\* Waits for one byte too many.
MutComplete(buffer) ==
  Len(buffer) - 1 >= 4 /\ Len(buffer) - 5 > At(buffer, 2, "int")

\* Type and length are there, and as many bytes as the length says.
Complete(buffer) ==
  Len(buffer) - 1 >= 4 /\ Len(buffer) - 5 >= At(buffer, 2, "int")

DecodePacket(type, buffer) ==
  CASE type = "PUB"   -> DecodePubPkt(buffer, 6)
    [] type = "RULE"  -> DecodeRulePkt(buffer, 6)
    [] type = "SUB"   -> DecodeSubPkt(buffer, 6)
    [] type = "UNSUB" -> DecodeUnSubPkt(buffer, 6)
    [] type = "PING"  -> <<>>

UnmarshalOne(buffer) ==
  LET type == DecodePktType(buffer)
  IN IF buffer = <<>> THEN [pkt |-> NoPacket, rest |-> buffer]
     ELSE IF type = "logic_error" THEN [pkt |-> [pkt |-> type], rest |-> buffer]
     ELSE IF ~Complete(buffer) THEN [pkt |-> NoPacket, rest |-> buffer]
     ELSE [pkt |-> [pkt |-> type, body |-> DecodePacket(type, buffer)],
           rest |-> SubSeq(buffer, 5 + At(buffer, 2, "int") + 1, Len(buffer))]

\* An exception leaves the call: the packets before it are lost, the buffer stays.
RECURSIVE UnmarshalAll(_, _)
UnmarshalAll(got, one) ==
  IF one.pkt = NoPacket THEN [pkts |-> got, rest |-> one.rest]
  ELSE IF one.pkt.pkt = "logic_error" THEN [pkts |-> <<one.pkt>>, rest |-> one.rest]
  ELSE UnmarshalAll(Append(got, one.pkt), UnmarshalOne(one.rest))

\* Every complete packet at the front of the buffer.
CppUnmarshal(buffer) == UnmarshalAll(<<>>, UnmarshalOne(buffer))

============================================================================
