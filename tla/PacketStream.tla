--------------------------- MODULE PacketStream ---------------------------
(***************************************************************************)
(* Packets between a Java client and the server over a byte stream: the    *)
(* sender writes each packet into an array and the array into the stream,  *)
(* the receiver reads pieces of any size, appends them to the buffer of    *)
(* its BufferedPacketUnmarshaller and takes out every complete packet.     *)
(*                                                                         *)
(* A behaviour is one direction: "toServer" (Java encodes, C++ decodes),   *)
(* "toClient" (C++ encodes, Java decodes) or "library", where packets are  *)
(* only encoded, by the parts of the library's Marshaller that the server  *)
(* does not use itself.                                                    *)
(***************************************************************************)
EXTENDS Unmarshaller, JavaCodec

CONSTANTS
  Scripts(_),   \* the sequences of packets a sender of a direction may send
  Chunks        \* the numbers of bytes one read may return

ASSUME ChunksAssumption == Chunks \subseteq 1 .. 80 /\ Chunks # {}

VARIABLES
  dir,      \* the direction
  todo,     \* the packets still to be sent
  sent,     \* the packets sent so far
  net,      \* the bytes in the stream
  buffer,   \* the receiver's buffer
  got       \* the packets the receiver has decoded

vars == <<dir, todo, sent, net, buffer, got>>

Marshal(p) == IF dir = "toServer" THEN JavaMarshal(p) ELSE CppMarshal(p)

Unmarshal(bytes) == IF dir = "toServer" THEN CppUnmarshal(bytes)
                    ELSE JavaUnmarshal(bytes)

Init ==
  /\ dir \in {"toServer", "toClient", "library"}
  /\ todo \in Scripts(dir)
  /\ sent = <<>> /\ net = <<>> /\ buffer = <<>> /\ got = <<>>

\* TransportManager.send and Connection::asyncWrite: one write per packet.
Send ==
  /\ todo # <<>>
  /\ sent' = Append(sent, Head(todo))
  /\ todo' = Tail(todo)
  /\ net' = IF dir = "library" THEN <<>> ELSE net \o Marshal(Head(todo))
  /\ UNCHANGED <<dir, buffer, got>>

\* Connection::handleRead with RequestHandler::handleRequest, and one turn of
\* PacketReader.run: n bytes, or fewer when fewer are there.
Receive(n) ==
  /\ net # <<>>
  /\ LET k == Min({n, Len(net)})
     IN /\ net' = SubSeq(net, k + 1, Len(net))
        /\ \E d \in {Unmarshal(buffer \o SubSeq(net, 1, k))} :
             buffer' = d.rest /\ got' = got \o d.pkts
  /\ UNCHANGED <<dir, todo, sent>>

Next == Send \/ \E n \in Chunks : Receive(n)

Spec == Init /\ [][Next]_vars

----------------------------------------------------------------------------
(* What a receiver should hold, field by field.                            *)

RECURSIVE SameTree(_, _)
SameTree(t, u) ==
  /\ t.type = u.type /\ t.vtype = u.vtype
  /\ IF t.type = "INNER"
     THEN t.op = u.op /\ SameTree(t.left, u.left) /\ SameTree(t.right, u.right)
     ELSE IF t.ref.ref = "RULEPKT" /\ t.ref.sType = "AGG" /\ t.ref.name = ""
     THEN u.ref = [t.ref EXCEPT !.name = "NULL"]
     ELSE u.ref = t.ref

\* A bounded element: same event, same bounds in the order the engine needs.
SameBounded(x, y) ==
  /\ y.eventType = x.eventType /\ y.constraints = x.constraints
  /\ {y.lowerId, y.upperId} = {x.lowerId, x.upperId}
  /\ IF x.lowerId < 0 THEN y.lowerId < 0 /\ y.lowerTime = x.lowerTime
     ELSE y.lowerId > y.upperId

Matched(R(_, _), s, t) == Len(s) = Len(t) /\ \A i \in DOMAIN s : R(s[i], t[i])

SameRule(p, r) ==
  /\ r.predicates = p.predicates
  /\ Matched(SameBounded, p.negations, r.negations)
  /\ Matched(LAMBDA a, b : SameBounded(a, b) /\ b.fun = a.fun /\ b.name = a.name,
               p.aggregates, r.aggregates)
  /\ Matched(LAMBDA a, b : /\ b.operation = a.operation
                             /\ b.type = a.type /\ b.vtype = a.vtype
                             /\ SameTree(a.leftTree, b.leftTree)
                             /\ SameTree(a.rightTree, b.rightTree),
               p.parameters, r.complex)
  /\ r.consuming = p.consuming
  /\ \A t \in 0 .. 9 : ContainsEventType(r, t, TRUE)
       <=> \E i \in DOMAIN p.predicates \union DOMAIN p.negations :
             \/ i \in DOMAIN p.predicates /\ p.predicates[i].eventType = t
             \/ i \in DOMAIN p.negations /\ p.negations[i].eventType = t
  /\ r.ceTemplate.eventType = p.template.eventType
  /\ Matched(LAMBDA a, b : a.name = b.name /\ SameTree(a.value, b.value),
               p.template.attributes, r.ceTemplate.attributes)
  /\ r.ceTemplate.staticAttributes = p.template.staticAttributes

SameSub(p, q) == q.eventType = p.eventType /\ q.constraints = p.constraints

SamePacket(p, q) ==
  /\ q.pkt = p.pkt
  /\ CASE p.pkt = "PUB" ->
            /\ q.body.eventType = p.eventType /\ q.body.attributes = p.attributes
            /\ IF dir = "toServer" /\ p.time = 0 THEN q.body.time = TimeNow
               ELSE q.body.time = p.time
       [] p.pkt = "RULE"  -> SameRule(p, q.body)
       [] p.pkt = "SUB"   -> SameSub(p, q.body)
       [] p.pkt = "UNSUB" -> SameSub(p.sub, q.body.sub)
       [] p.pkt = "PING"  -> TRUE

ReceivedRules == {got[i].body : i \in {k \in DOMAIN got : got[k].pkt = "RULE"}}

----------------------------------------------------------------------------
(* Properties.                                                             *)

\* What a receiver takes out of the stream is a packet of a known type, never
\* a decoder's exception, and nothing is received that was not sent.
TypeOK ==
  /\ dir \in {"toServer", "toClient", "library"}
  /\ Len(got) <= Len(sent)
  /\ \A i \in DOMAIN got : got[i].pkt \in DOMAIN PktCode

\* Encoders never write past the array that getNumBytes dimensioned: the
\* bytes of a packet, counted one by one, are its header and the length that
\* the header announces.
EncodingFits ==
  \A i \in DOMAIN sent :
    LET bytes == Marshal(sent[i]) IN Len(bytes) = 5 + At(bytes, 2, "int")

\* However the stream is cut, the receiver decodes the packets that were
\* sent, in order, each with the meaning it had for the sender; a rule keeps
\* every predicate, negation, aggregate, parameter and consuming clause
\* through RulePkt's add operations, none of which refuses.
ReceivedAsSent ==
  \A i \in DOMAIN got : SamePacket(sent[i], got[i])

\* The trees of a node array, rebuilt from its prefix order; state indexes
\* turned back with the rule's final number of predicates.
RECURSIVE Rebuild(_, _, _)
Rebuild(r, nodes, i) ==
  LET n == nodes[i] IN
  IF n.type = "LEAF"
  THEN [i |-> i + 1,
        v |-> IF n.isStatic
              THEN [type |-> "LEAF", ref |-> <<n.valueType, n.value>>]
              ELSE [type |-> "LEAF",
                    ref |-> <<n.sType, IF n.sType = "STATE"
                                       THEN PredicatesNum(r) - 1 - n.refersTo
                                       ELSE n.refersTo, n.attrName>>]]
  ELSE LET left  == Rebuild(r, nodes, i + 1)
           right == Rebuild(r, nodes, left.i)
       IN [i |-> right.i,
           v |-> [type |-> "INNER", op |-> n.operation,
                  left |-> left.v, right |-> right.v]]

\* The same of a tree of the CPU form; an aggregate's leaf has no name.
RECURSIVE Shape(_)
Shape(t) ==
  IF t.type = "INNER"
  THEN [type |-> "INNER", op |-> t.op, left |-> Shape(t.left), right |-> Shape(t.right)]
  ELSE [type |-> "LEAF",
        ref |-> IF t.ref.ref = "STATIC"
                THEN <<t.ref.type, t.ref.value>>
                ELSE <<t.ref.sType, t.ref.index,
                       IF t.ref.sType = "AGG" THEN "unset" ELSE t.ref.name>>]

\* No leaf has a static value that serializeNode leaves behind.
RECURSIVE Carried(_)
Carried(t) ==
  IF t.type = "INNER" THEN Carried(t.left) /\ Carried(t.right)
  ELSE t.ref.ref = "STATIC" => t.ref.type \in {"INT", "FLOAT"}

\* The two forms of a complex parameter agree: the node arrays of the GPU
\* form, read back in prefix order, are the trees of the CPU form, attribute
\* names and values included, with every state index inverted about the rule's
\* final number of predicates, and no node lies in the part of the array that
\* was not cleared.  Excepted are trees with a static BOOL or STRING, whose value
\* the GPU form loses, and trees deeper than the array has room for.
GPUFormAgrees ==
  \A r \in ReceivedRules : \A k \in DOMAIN r.complex :
    LET p == r.complex[k]
        g == r.gpu[k]
        same(t, size, nodes) ==
          Carried(t) => Rebuild(r, nodes, 1) = [i |-> size + 1, v |-> Shape(t)]
    IN /\ Len(r.gpu) = Len(r.complex)
       /\ g.depth <= MAX_DEPTH =>
            /\ {g.lSize, g.rSize} \subseteq 1 .. 2^g.depth - 1
            /\ same(p.leftTree, g.lSize, g.leftTree)
            /\ same(p.rightTree, g.rSize, g.rightTree)
       /\ p.type = "STATE" => g.lastIndex = PredicatesNum(r) - 1 - p.lastIndex

\* The ancestors of a predicate by repeated refersTo.
Ancestors(r, i) ==
  LET A[n \in Nat] ==
        IF n = 0 THEN {r.predicates[i + 1].refersTo}
        ELSE A[n - 1] \union {r.predicates[j + 1].refersTo : j \in A[n - 1] \ {-1}}
  IN A[PredicatesNum(r)] \ {-1}

\* The ordering graph of a received rule is a tree with root 0; two predicates
\* are in the same sequence iff one is an ancestor of the other, the leaves are
\* nobody's ancestors, and the maximum window is the longest sum of windows from
\* any predicate up.
OrderingGraph ==
  \A r \in ReceivedRules :
    LET ids == 0 .. PredicatesNum(r) - 1
        up(i) == IF i = 0 THEN {} ELSE Ancestors(r, i)
        span(i) == FoldSet(LAMBDA j, n : n + r.predicates[j + 1].win, 0,
                           ({i} \union up(i)) \ {0})
    IN /\ \A i \in ids \ {0} : 0 \in up(i) /\ \A j \in up(i) : j < i
       /\ \A i, j \in ids : IsInTheSameSequence(r, i, j)
                              <=> (i \in up(j) \/ j \in up(i))
       /\ \A i, j \in ids : IsDirectlyConnected(r, i, j) => IsInTheSameSequence(r, i, j)
       /\ GetLeaves(r) = {i \in ids : \A j \in ids : i \notin up(j)}
       /\ GetMaxWin(r) = Max({span(i) : i \in ids})

\* Whenever the stream is drained, every packet sent has been delivered and
\* no byte is left in the buffer: a packet never waits for bytes that are not
\* its own, and none of its bytes is taken for the next packet's.
AllReceived ==
  dir # "library" /\ net = <<>> => Len(got) = Len(sent) /\ buffer = <<>>

============================================================================
