----------------------------- MODULE JavaCodec -----------------------------
(***************************************************************************)
(* The Java client's side of the wire: marshalling/Marshaller.java (what   *)
(* the client sends), Unmarshaller.java and BufferedPacketUnmarshaller.java*)
(* (what it receives from the server: publications and pings).  A rule     *)
(* of the client is a record of sequences: its maps are filled with the    *)
(* keys 0, 1, 2... and iterated in that order.                             *)
(***************************************************************************)
EXTENDS WireFormat

JavaCode(x) == CodeIn(
  {<<"EACH_WITHIN", "FIRST_WITHIN", "LAST_WITHIN", "ALL_WITHIN">>,
   <<"EQ", "LT", "GT", "NE", "IN", "LE", "GE">>,
   <<"INT", "FLOAT", "BOOL", "STRING">>,
   <<"STATE", "NEG", "AGG">>,
   <<"NONE", "AVG", "COUNT", "MIN", "MAX", "SUM">>,
   <<"LEAF", "INNER">>,
   <<"ADD", "SUB", "MUL", "DIV", "AND", "OR">>,
   <<"RULEPKT", "STATIC">>}, x)

JavaValType(s, i) ==
  LET n == At(s, i, "byte")
  IN CASE n = 0 -> "INT" [] n = 1 -> "FLOAT" [] n = 2 -> "BOOL" [] OTHER -> "STRING"

----------------------------------------------------------------------------
(* Encoders.                                                               *)

Coll(Enc(_), seq) == PutInt(Len(seq)) \o Each(Enc, seq)

JavaConstraint(c) ==
  PutStr(c.name) \o PutByte(JavaCode(c.op)) \o PutByte(JavaCode(c.type))
  \o Val(c.type, c.val)
JavaAttribute(a) == PutStr(a.name) \o PutByte(JavaCode(a.type)) \o Val(a.type, a.val)

JavaPredicate(p) ==
  PutInt(p.eventType) \o Coll(JavaConstraint, p.constraints) \o PutInt(p.refersTo)
  \o PutLong(p.win) \o PutByte(JavaCode(p.kind))

JavaNegation(n) ==
  PutInt(n.eventType) \o Coll(JavaConstraint, n.constraints) \o PutInt(n.lowerId)
  \o PutLong(n.lowerTime) \o PutInt(n.upperId)

JavaAggregate(a) ==
  PutInt(a.eventType) \o Coll(JavaConstraint, a.constraints) \o PutInt(a.lowerId)
  \o PutLong(a.lowerTime) \o PutInt(a.upperId) \o PutByte(JavaCode(a.fun))
  \o PutStr(a.name)

JavaReference(ref) ==
  PutByte(JavaCode(ref.ref))
  \o IF ref.ref = "RULEPKT"
     THEN PutInt(ref.index) \o PutByte(JavaCode(ref.sType)) \o PutStr(ref.name)
     ELSE PutByte(JavaCode(ref.type)) \o Val(ref.type, ref.value)

RECURSIVE JavaOpTree(_)
JavaOpTree(t) ==
  PutByte(JavaCode(t.type)) \o PutByte(JavaCode(t.vtype))
  \o IF t.type = "INNER"
     THEN JavaOpTree(t.left) \o JavaOpTree(t.right) \o PutByte(JavaCode(t.op))
     ELSE JavaReference(t.ref)

JavaParameter(p) ==
  PutByte(JavaCode(p.operation)) \o PutByte(JavaCode(p.type))
  \o PutByte(JavaCode(p.vtype)) \o JavaOpTree(p.leftTree) \o JavaOpTree(p.rightTree)

JavaTemplate(t) ==
  PutInt(t.eventType)
  \o Coll(LAMBDA a : PutStr(a.name) \o JavaOpTree(a.value), t.attributes)
  \o Coll(JavaAttribute, t.staticAttributes)

JavaRuleBody(r) ==
  Indexed(JavaPredicate, r.predicates) \o Indexed(JavaParameter, r.parameters)
  \o Indexed(JavaAggregate, r.aggregates) \o Indexed(JavaNegation, r.negations)
  \o JavaTemplate(r.template) \o Ints(r.consuming)

JavaPubBody(p) ==
  PutInt(p.eventType) \o PutLong(p.time) \o Coll(JavaAttribute, p.attributes)

JavaSubBody(p) == PutInt(p.eventType) \o Coll(JavaConstraint, p.constraints)

----------------------------------------------------------------------------
(* Sizes: getNumBytes, which dimensions the array and is sent as length.   *)

CollSize(Size(_), seq) == 4 + Total(Size, seq)

JavaConstraintSize(c) == StrSize(c.name) + 1 + 1 + ValSize(c.type, c.val)
JavaAttributeSize(a) == StrSize(a.name) + 1 + ValSize(a.type, a.val)
JavaPredicateSize(p) == 4 + CollSize(JavaConstraintSize, p.constraints) + 4 + 8 + 1
JavaNegationSize(n) == 4 + CollSize(JavaConstraintSize, n.constraints) + 4 + 8 + 4
JavaAggregateSize(a) ==
  4 + CollSize(JavaConstraintSize, a.constraints) + 4 + 8 + 4 + 1 + StrSize(a.name)

RECURSIVE JavaOpTreeSize(_)
JavaOpTreeSize(t) ==
  2 + IF t.type = "INNER" THEN JavaOpTreeSize(t.left) + JavaOpTreeSize(t.right) + 1
      ELSE 1 + IF t.ref.ref = "RULEPKT" THEN 4 + 1 + StrSize(t.ref.name)
               ELSE 1 + ValSize(t.ref.type, t.ref.value)

JavaParameterSize(p) == 3 + JavaOpTreeSize(p.rightTree) + JavaOpTreeSize(p.leftTree)

JavaTemplateSize(t) ==
  4 + CollSize(LAMBDA a : StrSize(a.name) + JavaOpTreeSize(a.value), t.attributes)
  + CollSize(JavaAttributeSize, t.staticAttributes)

JavaRuleSize(r) ==
  IndexedSize(JavaPredicateSize, r.predicates)
  + IndexedSize(JavaParameterSize, r.parameters)
  + IndexedSize(JavaAggregateSize, r.aggregates)
  + IndexedSize(JavaNegationSize, r.negations)
  + JavaTemplateSize(r.template) + 4 + 4 * Cardinality(r.consuming)

JavaPubSize(p) == 4 + 8 + CollSize(JavaAttributeSize, p.attributes)
JavaSubSize(p) == 4 + CollSize(JavaConstraintSize, p.constraints)

JavaSub(p) == Framed(PktCode.SUB, JavaSubSize(p), JavaSubBody(p))

JavaMarshal(p) ==
  CASE p.pkt = "PUB"   -> Framed(PktCode.PUB, JavaPubSize(p), JavaPubBody(p))
    [] p.pkt = "RULE"  -> Framed(PktCode.RULE, JavaRuleSize(p), JavaRuleBody(p))
    [] p.pkt = "SUB"   -> JavaSub(p)
    [] p.pkt = "UNSUB" -> Framed(PktCode.UNSUB, JavaSubSize(p.sub) + 5, JavaSub(p.sub))
    [] p.pkt = "PING"  -> Framed(PktCode.PING, 0, <<>>)

----------------------------------------------------------------------------
(* Decoders.                                                               *)

JavaDecodeAttribute(s, i) ==
  LET t    == StrEnd(s, i)
      type == JavaValType(s, t)
      val  == ValAt(s, t + 1, type)
  IN [v |-> [name |-> StrAt(s, i), type |-> type, val |-> val.v], i |-> val.i]

JavaDecodePub(s, i) ==
  LET attrs == DecodeN(LAMBDA k : JavaDecodeAttribute(s, k),
                       At(s, i + 12, "int"), i + 16)
  IN [eventType |-> At(s, i, "int"), time |-> At(s, i + 4, "long"),
      attributes |-> attrs.v]

\* PacketType.fromValue: an unknown type throws.
JavaPktType(buffer) ==
  LET types == {t \in DOMAIN PktCode : PktCode[t] = At(buffer, 1, "byte")}
  IN IF types = {} THEN "IllegalArgumentException" ELSE CHOOSE t \in types : TRUE

\* The server sends no rule and no subscription: their bodies are left out.
JavaUnmarshalOne(buffer) ==
  LET length == At(buffer, 2, "int")
      type   == JavaPktType(buffer)
      body   == CASE type = "PUB"  -> JavaDecodePub(buffer, 6)
                  [] type = "PING" -> <<>>
                  [] OTHER         -> "left out"
  IN IF buffer = <<>> THEN [pkt |-> [pkt |-> "none"], rest |-> buffer]
     ELSE IF type = "IllegalArgumentException"
     THEN [pkt |-> [pkt |-> type], rest |-> buffer]
     ELSE IF Len(buffer) - 1 < 4 \/ Len(buffer) - 5 < length
     THEN [pkt |-> [pkt |-> "none"], rest |-> buffer]
     ELSE [pkt |-> [pkt |-> type, body |-> body],
           rest |-> SubSeq(buffer, 5 + length + 1, Len(buffer))]

\* As on the server, an exception leaves the call and the buffer stays.
RECURSIVE JavaUnmarshalAll(_, _)
JavaUnmarshalAll(got, one) ==
  IF one.pkt.pkt = "none" THEN [pkts |-> got, rest |-> one.rest]
  ELSE IF one.pkt.pkt = "IllegalArgumentException"
  THEN [pkts |-> <<one.pkt>>, rest |-> one.rest]
  ELSE JavaUnmarshalAll(Append(got, one.pkt), JavaUnmarshalOne(one.rest))

JavaUnmarshal(buffer) == JavaUnmarshalAll(<<>>, JavaUnmarshalOne(buffer))

============================================================================
