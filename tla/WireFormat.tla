---------------------------- MODULE WireFormat ----------------------------
(***************************************************************************)
(* The bytes on the wire between the Java client and the server: the       *)
(* fields, and the library's Marshaller (Marshaller.cc: the encoders, and  *)
(* the sizes counted apart from them) with the server's PacketMarshaller.  *)
(* Unmarshaller has the library's decoders, JavaCodec the client's side.   *)
(*                                                                         *)
(* A buffer is a sequence of byte cells [k, v, j]: byte j of a field of    *)
(* kind k that holds v.  A decoder that reads a field where no such field  *)
(* starts gets Garbage; that abstracts the number the bytes would make.    *)
(* Strings keep their length.  Decoders of a structure take the buffer and *)
(* the position of its first byte and return [v, i]: the value and the     *)
(* position after it (the code's index).                                   *)
(***************************************************************************)
EXTENDS RulePkt

Garbage == -77

----------------------------------------------------------------------------
(* Primitive fields (both languages write them with the same widths).      *)

Field(k, v, w) == [j \in 1 .. w |-> [k |-> k, v |-> v, j |-> j]]

PutByte(v)  == Field("byte", v, 1)
PutBool(v)  == Field("bool", v, 1)
PutInt(v)   == Field("int", v, 4)
PutFloat(v) == Field("float", v, 4)
PutLong(v)  == Field("long", v, 8)
PutStr(v)   == PutInt(Len(v)) \o Field("chars", v, Len(v))

\* getNumBytes(char* ): the length and the characters.
StrSize(v) == Len(v) + 4

At(s, i, k) ==
  IF i \in DOMAIN s /\ s[i].k = k /\ s[i].j = 1 THEN s[i].v ELSE Garbage

StrAt(s, i)  == IF At(s, i, "int") = 0 THEN "" ELSE At(s, i + 4, "chars")
StrEnd(s, i) == i + 4 + At(s, i, "int")

\* Elements one after the other, and the sum of their sizes.
Each(Enc(_), seq)  == FlattenSeq([i \in DOMAIN seq |-> Enc(seq[i])])
Total(Size(_), seq) == FoldLeft(LAMBDA n, x : n + Size(x), 0, seq)

\* n elements decoded from position i.
DecodeN(Dec(_), n, i) ==
  FoldLeft(LAMBDA done, k : LET d == Dec(done.i) IN [v |-> Append(done.v, d.v), i |-> d.i],
           [v |-> <<>>, i |-> i], [k \in 1 .. n |-> k])

----------------------------------------------------------------------------
(* Enumerations: the code of each constant, and the constant of each code. *)

\* The position of a constant in its enumeration is its code.
CodeIn(enums, x) ==
  CHOOSE n \in 0 .. 6 : \E e \in enums : n + 1 \in DOMAIN e /\ e[n + 1] = x

CppCode(x) == CodeIn(
  {<<"EACH_WITHIN", "FIRST_WITHIN", "LAST_WITHIN", "ALL_WITHIN">>,
   <<"EQ", "LT", "GT", "NE", "IN", "LE", "GE">>,
   <<"STATE", "NEG", "AGG">>,
   <<"INT", "FLOAT", "BOOL", "STRING">>,
   <<"NONE", "AVG", "COUNT", "MIN", "MAX", "SUM">>,
   <<"LEAF", "INNER">>,
   <<"ADD", "SUB", "MUL", "DIV", "AND", "OR">>}, x)

\* The packet types of the framing (packet type 100 and 101 are the server's
\* and the client's own).
PktCode == [PUB |-> 0, RULE |-> 1, SUB |-> 2, UNSUB |-> 100, PING |-> 101]

----------------------------------------------------------------------------
(* Values of an attribute or a constraint, by their type.                  *)

Val(type, v) ==
  CASE type = "INT" -> PutInt(v) [] type = "FLOAT" -> PutFloat(v)
    [] type = "BOOL" -> PutBool(v) [] type = "STRING" -> PutStr(v)

ValSize(type, v) ==
  CASE type \in {"INT", "FLOAT"} -> 4 [] type = "BOOL" -> 1
    [] type = "STRING" -> StrSize(v)

ValAt(s, i, type) ==
  CASE type = "INT" -> [v |-> At(s, i, "int"), i |-> i + 4]
    [] type = "FLOAT" -> [v |-> At(s, i, "float"), i |-> i + 4]
    [] type = "BOOL" -> [v |-> At(s, i, "bool"), i |-> i + 1]
    [] OTHER -> [v |-> StrAt(s, i), i |-> StrEnd(s, i)]

----------------------------------------------------------------------------
(* The library's encoders (Marshaller.cc).                                 *)

CppConstraint(c) ==
  PutStr(c.name) \o PutByte(CppCode(c.op)) \o PutByte(CppCode(c.type)) \o Val(c.type, c.val)
CppAttribute(a) == PutStr(a.name) \o PutByte(CppCode(a.type)) \o Val(a.type, a.val)
CppConstraints(cs) == PutInt(Len(cs)) \o Each(CppConstraint, cs)

CppPredicate(p) ==
  PutInt(p.eventType) \o CppConstraints(p.constraints) \o PutInt(p.refersTo)
  \o PutLong(p.win) \o PutByte(CppCode(p.kind))

CppParameter(p) ==
  PutInt(p.evIndex1) \o PutStr(p.name1) \o PutInt(p.evIndex2) \o PutStr(p.name2)
  \o PutByte(CppCode(p.type))

CppNegation(n) ==
  PutInt(n.eventType) \o CppConstraints(n.constraints) \o PutInt(n.lowerId)
  \o PutLong(n.lowerTime) \o PutInt(n.upperId)

CppAggregate(a) ==
  PutInt(a.eventType) \o CppConstraints(a.constraints) \o PutInt(a.lowerId)
  \o PutLong(a.lowerTime) \o PutInt(a.upperId) \o PutByte(CppCode(a.fun)) \o PutStr(a.name)

\* A reference without a name (an aggregate's) is written with the name "0".
RefName(ref) == IF ref.name = "NULL" THEN "0" ELSE ref.name

CppReference(ref) ==
  PutInt(ref.index) \o PutByte(CppCode(ref.sType)) \o PutStr(RefName(ref))

RECURSIVE CppOpTree(_)
CppOpTree(t) ==
  PutByte(CppCode(t.type)) \o PutByte(CppCode(t.vtype))
  \o IF t.type = "INNER"
     THEN CppOpTree(t.left) \o CppOpTree(t.right) \o PutByte(CppCode(t.op))
     ELSE CppReference(t.ref)

\* Static attributes are not written.
CppTemplate(t) ==
  PutInt(t.eventType) \o PutInt(Len(t.attributes))
  \o Each(LAMBDA a : PutStr(a.name) \o CppOpTree(a.value), t.attributes)

\* A section of a rule: the number of elements, each after its index.
Indexed(Enc(_), seq) ==
  PutInt(Len(seq)) \o FlattenSeq([i \in DOMAIN seq |-> PutInt(i - 1) \o Enc(seq[i])])

Ints(set) == PutInt(Cardinality(set)) \o Each(PutInt, SetToSortSeq(set, <))

CppRuleBody(r) ==
  Indexed(CppPredicate, r.predicates) \o Indexed(CppParameter, r.parameters)
  \o Indexed(CppAggregate, r.aggregates) \o Indexed(CppNegation, r.negations)
  \o CppTemplate(r.ceTemplate) \o Ints(r.consuming)

CppPubBody(p) ==
  PutInt(p.eventType) \o PutLong(p.time) \o PutInt(Len(p.attributes))
  \o Each(CppAttribute, p.attributes)

CppSubBody(p) == PutInt(p.eventType) \o CppConstraints(p.constraints)

----------------------------------------------------------------------------
(* The library's sizes, counted apart from the encoders: getNumBytes.      *)

CppConstraintSize(c) == StrSize(c.name) + 1 + 1 + ValSize(c.type, c.val)
CppAttributeSize(a) == StrSize(a.name) + 1 + ValSize(a.type, a.val)
CppConstraintsSize(cs) == 4 + Total(CppConstraintSize, cs)
CppPredicateSize(p) == 4 + CppConstraintsSize(p.constraints) + 4 + 8 + 1
CppParameterSize(p) == 4 + StrSize(p.name1) + 4 + StrSize(p.name2) + 1
CppNegationSize(n) == 4 + CppConstraintsSize(n.constraints) + 4 + 8 + 4
\* Without the byte of the function.
MutCppAggregateSize(a) ==
  4 + CppConstraintsSize(a.constraints) + 4 + 8 + 4 + StrSize(a.name)

CppAggregateSize(a) ==
  4 + CppConstraintsSize(a.constraints) + 4 + 8 + 4 + 1 + StrSize(a.name)

RECURSIVE CppOpTreeSize(_)
CppOpTreeSize(t) ==
  2 + IF t.type = "INNER" THEN CppOpTreeSize(t.left) + CppOpTreeSize(t.right) + 1
      ELSE 4 + 1 + StrSize(RefName(t.ref))

CppTemplateSize(t) ==
  4 + 4 + Total(LAMBDA a : StrSize(a.name) + CppOpTreeSize(a.value), t.attributes)

IndexedSize(Size(_), seq) == 4 + Total(LAMBDA x : 4 + Size(x), seq)

CppRuleSize(r) ==
  IndexedSize(CppPredicateSize, r.predicates)
  + IndexedSize(CppParameterSize, r.parameters)
  + IndexedSize(CppAggregateSize, r.aggregates)
  + IndexedSize(CppNegationSize, r.negations)
  + CppTemplateSize(r.ceTemplate) + 4 + 4 * Cardinality(r.consuming)

CppPubSize(p) == 4 + 8 + 4 + Total(CppAttributeSize, p.attributes)

\* The number of constraints is counted twice.
CppSubSize(p) == 4 + 4 + 4 + Total(CppConstraintSize, p.constraints)

\* A packet in an array of getSize bytes: type, length, body, and the bytes
\* of the array that the encoder does not write.
Framed(type, size, body) ==
  PutByte(type) \o PutInt(size) \o body \o Field("unset", 0, size - Len(body))

CppSub(p) == Framed(PktCode.SUB, CppSubSize(p), CppSubBody(p))

\* PacketMarshaller::marshal with getSize + 5 of the Marshaller.
CppMarshal(p) ==
  CASE p.pkt = "PUB"   -> Framed(PktCode.PUB, CppPubSize(p), CppPubBody(p))
    [] p.pkt = "RULE"  -> Framed(PktCode.RULE, CppRuleSize(p), CppRuleBody(p))
    [] p.pkt = "SUB"   -> CppSub(p)
    [] p.pkt = "UNSUB" -> Framed(PktCode.UNSUB, CppSubSize(p.sub) + 5, CppSub(p.sub))
    [] p.pkt = "PING"  -> Framed(PktCode.PING, 0, <<>>)

============================================================================
