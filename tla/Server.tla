------------------------------- MODULE Server -------------------------------
(***************************************************************************)
(* The server's connections: accepting, asynchronous reads and writes,     *)
(* ping timers, closing and destruction (Connection.cpp, SOEPServer.cpp),  *)
(* and what a connection does with the packets it receives                 *)
(* (RequestHandler.cpp, SubscriptionTable.cpp).                            *)
(*                                                                         *)
(* Every operation that a connection has started ends with a handler,      *)
(* which one of the io_service's threads runs; a handler holds a reference *)
(* to its connection, and the connection is destroyed with the last one.   *)
(* Handlers of reads and writes run in the connection's strand, those of   *)
(* the timers do not.  A publication visits the listeners one at a time.   *)
(*                                                                         *)
(* A packet is atomic here (PacketStream has the bytes); one read may give *)
(* several.  The engine is the constant Results: the composite events that *)
(* it reports for a publication, in one call of each result listener.      *)
(***************************************************************************)
EXTENDS SubMatching, FiniteSets

CONSTANTS
  Conns,        \* the connections that clients make
  Threads,      \* the threads that run the io_service
  Setups,       \* usePing of SOEPServer, and the packets each client may send
  Results(_),   \* the composite events the engine creates for a publication
  MaxWrites     \* bound: a ping is sent only when fewer writes are unfinished

ASSUME ServerAssumption ==
  /\ IsFiniteSet(Conns) /\ IsFiniteSet(Threads) /\ Threads # {}
  /\ \A s \in Setups : s.usePing \in BOOLEAN
  /\ MaxWrites \in Nat \ {0}

VARIABLES
  usePing,  \* whether the server uses ping timers
  script,   \* what each client still has to send
  peer,     \* each client: "absent", "up" or "down"
  inbox,    \* packets that have arrived at a connection's socket
  socket,   \* each connection's socket: "none", "open" or "closed"
  read,     \* its read: "none", "pending", or the queued handler "ok", "error"
  rbuf,     \* the packets that a completed read has brought
  writes,   \* its unfinished writes: "pending", or queued handlers "ok", "error"
  timer,    \* its timers: "off", "waiting", queued handler "expired", "aborted"
  stop,     \* stopTimers
  subs,     \* subscriptions: the packet, and whether its constraints exist
  first,    \* firstSubscriptionDone
  table,    \* listeners of the subscription table
  engine,   \* result listeners of the engine
  thread,   \* what each thread does
  life,     \* each connection: "none", "live" or "gone"
  sent,     \* history: the events each connection was told to write
  asked,    \* history: the subscriptions its client has made and not ended
  want      \* history: the events its client should be sent

vars == <<usePing, script, peer, inbox, socket, read, rbuf, writes, timer, stop, subs,
          first, table, engine, thread, life, sent, asked, want>>

client == <<usePing, script, peer, inbox>>
ops    == <<read, rbuf, writes>>
subscr == <<subs, first, table, engine, asked>>

Idle == [stage |-> "idle"]

Init ==
  /\ \E s \in Setups : usePing = s.usePing /\ script = s.script
  /\ peer = [c \in Conns |-> "absent"]
  /\ inbox = [c \in Conns |-> <<>>]
  /\ socket = [c \in Conns |-> "none"]
  /\ read = [c \in Conns |-> "none"]
  /\ rbuf = [c \in Conns |-> <<>>]
  /\ writes = [c \in Conns |-> <<>>]
  /\ timer = [c \in Conns |-> [recv |-> "off", send |-> "off"]]
  /\ stop = [c \in Conns |-> FALSE]
  /\ subs = [c \in Conns |-> <<>>]
  /\ first = [c \in Conns |-> FALSE]
  /\ table = {} /\ engine = {}
  /\ thread = [t \in Threads |-> Idle]
  /\ life = [c \in Conns |-> "none"]
  /\ sent = [c \in Conns |-> <<>>]
  /\ asked = [c \in Conns |-> {}]
  /\ want = [c \in Conns |-> <<>>]

----------------------------------------------------------------------------
(* The clients and the network.                                            *)

ClientSend(c) ==
  /\ peer[c] = "up" /\ script[c] # <<>>
  /\ inbox' = [inbox EXCEPT ![c] = Append(@, Head(script[c]))]
  /\ script' = [script EXCEPT ![c] = Tail(@)]
  /\ UNCHANGED <<usePing, peer, socket, ops, timer, stop, subscr, thread, life, sent, want>>

ClientLeave(c) ==
  /\ peer[c] = "up"
  /\ peer' = [peer EXCEPT ![c] = "down"]
  /\ UNCHANGED <<usePing, script, inbox, socket, ops, timer, stop, subscr, thread, life, sent, want>>

\* The read ends with what has arrived (up to some packet), or with an error:
\* the end of the stream, or the closing of the socket.
ReadCompletes(c) ==
  /\ read[c] = "pending"
  /\ \/ /\ socket[c] = "open" /\ inbox[c] # <<>>
        /\ \E n \in 1 .. Len(inbox[c]) :
             /\ rbuf' = [rbuf EXCEPT ![c] = SubSeq(inbox[c], 1, n)]
             /\ inbox' = [inbox EXCEPT ![c] = SubSeq(@, n + 1, Len(@))]
        /\ read' = [read EXCEPT ![c] = "ok"]
     \/ /\ socket[c] = "closed" \/ (peer[c] = "down" /\ inbox[c] = <<>>)
        /\ read' = [read EXCEPT ![c] = "error"]
        /\ UNCHANGED <<rbuf, inbox>>
  /\ UNCHANGED <<usePing, script, peer, socket, writes, timer, stop, subscr, thread, life, sent, want>>

WriteCompletes(c) ==
  \E i \in DOMAIN writes[c] :
    /\ writes[c][i] = "pending" /\ \A j \in 1 .. i - 1 : writes[c][j] # "pending"
    /\ \E s \in {"ok", "error"} :
         /\ s = "ok" => socket[c] = "open"
         /\ s = "error" => socket[c] = "closed" \/ peer[c] = "down"
         /\ writes' = [writes EXCEPT ![c][i] = s]
    /\ UNCHANGED <<client, socket, read, rbuf, timer, stop, subscr, thread, life, sent, want>>

\* PING_TIMEOUT or PING_DELAY has passed.
TimerExpires(c, k) ==
  /\ timer[c][k] = "waiting"
  /\ k = "send" => Len(writes[c]) < MaxWrites
  /\ timer' = [timer EXCEPT ![c][k] = "expired"]
  /\ UNCHANGED <<client, socket, ops, stop, subscr, thread, life, sent, want>>

----------------------------------------------------------------------------
(* Pieces of the handlers.                                                 *)

\* deadline_timer::cancel: the handler of a waiting timer is queued with
\* operation_aborted; one that is already queued stays as it is.
Cancel(state) == IF state = "waiting" THEN "aborted" ELSE state

CancelBoth(tm) == [k \in DOMAIN tm |-> Cancel(tm[k])]

\* shutdown may throw when the client is no longer there: close is skipped.
CloseSocket(c) ==
  \E s \in {"closed"} \union IF peer[c] = "down" THEN {socket[c]} ELSE {} :
    socket' = [socket EXCEPT ![c] = s]

\* The strand runs one handler of the connection at a time.
StrandFree(c) ==
  \A t \in Threads : thread[t].stage # "idle" => thread[t].conn # c \/ ~thread[t].strand

Begin(t, c) == thread[t].stage = "idle" /\ StrandFree(c) /\ life[c] = "live"

Handled(t, c, strand) ==
  thread' = [thread EXCEPT ![t] = [stage |-> "end", conn |-> c, strand |-> strand]]

\* Error path of handleRead and handleWrite.
Fail(c) ==
  /\ CloseSocket(c)
  /\ stop' = [stop EXCEPT ![c] = TRUE]
  /\ timer' = [timer EXCEPT ![c] = CancelBoth(@)]

----------------------------------------------------------------------------
(* Accepting, reading, writing.                                            *)

\* handle_accept and Connection::start, for a client that is still there when
\* the handler runs: for one that has gone remote_endpoint throws, nothing
\* catches it, and the process ends.
Accept(t, c) ==
  /\ thread[t].stage = "idle" /\ peer[c] = "absent" /\ script[c] # <<>>
  /\ peer' = [peer EXCEPT ![c] = "up"]
  /\ life' = [life EXCEPT ![c] = "live"]
  /\ socket' = [socket EXCEPT ![c] = "open"]
  /\ read' = [read EXCEPT ![c] = "pending"]
  /\ timer' = IF usePing
              THEN [timer EXCEPT ![c] = [recv |-> "waiting", send |-> "waiting"]]
              ELSE timer
  /\ UNCHANGED <<usePing, script, inbox, rbuf, writes, stop, subscr, thread, sent, want>>

HandleReadError(t, c) ==
  /\ Begin(t, c) /\ read[c] = "error"
  /\ read' = [read EXCEPT ![c] = "none"]
  /\ Fail(c)
  /\ Handled(t, c, TRUE)
  /\ UNCHANGED <<client, rbuf, writes, subscr, life, sent, want>>

\* The packets of the read are handled one by one by the actions below.
HandleRead(t, c) ==
  /\ Begin(t, c) /\ read[c] = "ok"
  /\ read' = [read EXCEPT ![c] = "none"]
  /\ rbuf' = [rbuf EXCEPT ![c] = <<>>]
  /\ timer' = [timer EXCEPT ![c].recv = Cancel(@)]
  /\ thread' = [thread EXCEPT ![t] = [stage |-> "packets", conn |-> c,
                                      strand |-> TRUE, pkts |-> rbuf[c]]]
  /\ UNCHANGED <<client, socket, writes, stop, subscr, life, sent, want>>

\* Returns without asyncReadSome.
MutReadAgain(t) ==
  /\ thread[t].stage = "packets" /\ thread[t].pkts = <<>>
  /\ Handled(t, thread[t].conn, TRUE)
  /\ UNCHANGED <<client, socket, ops, timer, stop, subscr, life, sent, want>>

\* asyncReadSome at the end of handleRead.
ReadAgain(t) ==
  /\ thread[t].stage = "packets" /\ thread[t].pkts = <<>>
  /\ LET c == thread[t].conn IN
     /\ read' = IF socket[c] = "open" THEN [read EXCEPT ![c] = "pending"] ELSE read
     /\ Handled(t, c, TRUE)
  /\ UNCHANGED <<client, socket, rbuf, writes, timer, stop, subscr, life, sent, want>>

HandleWrite(t, c) ==
  /\ Begin(t, c) /\ writes[c] # <<>> /\ Head(writes[c]) # "pending"
  /\ writes' = [writes EXCEPT ![c] = Tail(@)]
  /\ IF Head(writes[c]) = "ok"
     THEN /\ timer' = [timer EXCEPT ![c].send = Cancel(@)]
          /\ UNCHANGED <<socket, stop>>
     ELSE Fail(c)
  /\ Handled(t, c, TRUE)
  /\ UNCHANGED <<client, read, rbuf, subscr, life, sent, want>>

\* Forgets the unfinished writes.
MutReferenced(t, c) ==
  \/ read[c] # "none"
  \/ \E k \in DOMAIN timer[c] : timer[c][k] # "off"
  \/ \E u \in Threads \ {t} : thread[u].stage # "idle" /\ thread[u].conn = c

\* The handler's reference is dropped; with the last one the connection and
\* its RequestHandler are destroyed.
Referenced(t, c) ==
  \/ read[c] # "none" \/ writes[c] # <<>>
  \/ \E k \in DOMAIN timer[c] : timer[c][k] # "off"
  \/ \E u \in Threads \ {t} : thread[u].stage # "idle" /\ thread[u].conn = c

\* Leaves the connection in the subscription table.
MutUnregister(c) == engine' = engine \ {c} /\ table' = table

\* ~RequestHandler.
Unregister(c) == engine' = engine \ {c} /\ table' = table \ {c}

HandlerEnds(t) ==
  /\ thread[t].stage = "end"
  /\ LET c == thread[t].conn IN
     IF Referenced(t, c) THEN UNCHANGED <<socket, life, subscr>>
     ELSE /\ life' = [life EXCEPT ![c] = "gone"]
          /\ socket' = [socket EXCEPT ![c] = "closed"]
          /\ IF first[c] THEN Unregister(c) ELSE UNCHANGED <<table, engine>>
          /\ UNCHANGED <<subs, first, asked>>
  /\ thread' = [thread EXCEPT ![t] = Idle]
  /\ UNCHANGED <<client, ops, timer, stop, sent, want>>

----------------------------------------------------------------------------
(* Timers.                                                                 *)

\* Does not start an aborted wait again.
MutHandlePingReceive(t, c) ==
  /\ thread[t].stage = "idle" /\ life[c] = "live"
  /\ timer[c].recv \in {"aborted", "expired"}
  /\ timer' = [timer EXCEPT ![c].recv = "off"]
  /\ IF timer[c].recv = "aborted" \/ stop[c] \/ socket[c] = "closed"
     THEN UNCHANGED socket ELSE CloseSocket(c)
  /\ Handled(t, c, FALSE)
  /\ UNCHANGED <<client, ops, stop, subscr, life, sent, want>>

\* An aborted wait is started again, also after stopTimers; after a timeout
\* only the socket is closed.
HandlePingReceive(t, c) ==
  /\ thread[t].stage = "idle" /\ life[c] = "live"
  /\ \/ /\ timer[c].recv = "aborted"
        /\ timer' = [timer EXCEPT ![c].recv = "waiting"]
        /\ UNCHANGED socket
     \/ /\ timer[c].recv = "expired"
        /\ timer' = [timer EXCEPT ![c].recv = "off"]
        /\ IF stop[c] \/ socket[c] = "closed" THEN UNCHANGED socket ELSE CloseSocket(c)
  /\ Handled(t, c, FALSE)
  /\ UNCHANGED <<client, ops, stop, subscr, life, sent, want>>

\* Leaves the timer running after stopTimers.
MutHandlePingSend(t, c) ==
  /\ thread[t].stage = "idle" /\ life[c] = "live"
  /\ timer[c].send \in {"aborted", "expired"}
  /\ timer' = [timer EXCEPT ![c].send = "waiting"]
  /\ writes' = IF timer[c].send = "expired" /\ socket[c] = "open"
               THEN [writes EXCEPT ![c] = Append(@, "pending")] ELSE writes
  /\ Handled(t, c, FALSE)
  /\ UNCHANGED <<client, socket, read, rbuf, stop, subscr, life, sent, want>>

HandlePingSend(t, c) ==
  /\ thread[t].stage = "idle" /\ life[c] = "live"
  /\ timer[c].send \in {"aborted", "expired"}
  /\ timer' = [timer EXCEPT ![c].send = IF @ = "expired" /\ stop[c] THEN "off" ELSE "waiting"]
  /\ writes' = IF timer[c].send = "expired" /\ ~stop[c] /\ socket[c] = "open"
               THEN [writes EXCEPT ![c] = Append(@, "pending")] ELSE writes
  /\ Handled(t, c, FALSE)
  /\ UNCHANGED <<client, socket, read, rbuf, stop, subscr, life, sent, want>>

----------------------------------------------------------------------------
(* Packets: PktHandleVisitor.                                              *)

Current(t, type) ==
  /\ thread[t].stage = "packets" /\ thread[t].pkts # <<>>
  /\ Head(thread[t].pkts).pkt = type

Done(t) == thread' = [thread EXCEPT ![t] =
  [stage |-> "packets", conn |-> thread[t].conn, strand |-> TRUE,
   pkts |-> Tail(thread[t].pkts)]]

\* Rules go to the engine, pings are dropped.
HandleOther(t) ==
  /\ Current(t, "RULE") \/ Current(t, "PING")
  /\ Done(t)
  /\ UNCHANGED <<client, socket, ops, timer, stop, subscr, life, sent, want>>

\* What a subscription means, for the history: a set of constraints.
Filter(sub) == [eventType |-> sub.eventType, constraints |-> ToSet(sub.constraints)]

Passes(f, ev) ==
  /\ ev.eventType = f.eventType
  /\ \A k \in f.constraints : \E a \in ToSet(ev.attributes) : MatchesConstraint(k, a)

\* Does not look for an equal subscription.
MutAdded(list, sub, undef) == Append(list, [sub |-> sub, alive |-> TRUE])

\* equals and matches on an element of subs: freed constraints may answer anything,
\* undef.
IsSub(e, sub, undef) ==
  IF e.alive THEN Equals(e.sub, sub)
  ELSE /\ e.sub.eventType = sub.eventType /\ Len(e.sub.constraints) = Len(sub.constraints)
       /\ undef

Wants(e, ev, undef) ==
  IF e.alive THEN Matches(e.sub, ev) ELSE ev.eventType = e.sub.eventType /\ undef

Added(list, sub, undef) ==
  IF \E i \in DOMAIN list : IsSub(list[i], sub, undef) THEN list
  ELSE Append(list, [sub |-> sub, alive |-> TRUE])

HandleSub(t) ==
  /\ Current(t, "SUB")
  /\ LET c == thread[t].conn IN
     /\ \E undef \in BOOLEAN :
          subs' = [subs EXCEPT ![c] = Added(@, Head(thread[t].pkts).sub, undef)]
     /\ first' = [first EXCEPT ![c] = TRUE]
     /\ engine' = IF first[c] THEN engine ELSE engine \union {c}
     /\ table' = IF first[c] THEN table ELSE table \union {c}
     /\ asked' = [asked EXCEPT ![c] = @ \union {Filter(Head(thread[t].pkts).sub)}]
  /\ Done(t)
  /\ UNCHANGED <<client, socket, ops, timer, stop, life, sent, want>>

\* vector::erase assigns every later element to the one before it and then
\* destroys the last.  SubPkt has no assignment of its own, so the last two
\* share the array of constraints that the destruction frees.
Erased(list, i) ==
  LET n == Len(list)
      freed == i < n /\ list[n].sub.constraints # <<>>
  IN [k \in 1 .. n - 1 |->
        LET e == list[IF k < i THEN k ELSE k + 1]
        IN IF freed /\ k = n - 1 THEN [e EXCEPT !.alive = FALSE] ELSE e]

\* The first subscription of a list that equals sub, 0 if there is none.
Position(list, sub, undef) == SelectInSeq(list, LAMBDA e : IsSub(e, sub, undef))

Removed(list, sub, undef) ==
  LET i == Position(list, sub, undef) IN IF i = 0 THEN list ELSE Erased(list, i)

HandleUnSub(t) ==
  /\ Current(t, "UNSUB")
  /\ LET c == thread[t].conn
     IN /\ \E undef \in BOOLEAN :
             subs' = [subs EXCEPT ![c] = Removed(@, Head(thread[t].pkts).sub, undef)]
        /\ asked' = [asked EXCEPT ![c] = @ \ {Filter(Head(thread[t].pkts).sub)}]
  /\ Done(t)
  /\ UNCHANGED <<client, socket, ops, timer, stop, first, table, engine, life, sent, want>>

\* Each event as often as count says.
Repeated(events, count) ==
  FlattenSeq([i \in DOMAIN events |-> [j \in 1 .. count[i] |-> events[i]]])

\* Events once for each of a client's subscriptions: history only.
Deserved(filters, events) ==
  Repeated(events, [i \in DOMAIN events |-> Cardinality({f \in filters : Passes(f, events[i])})])

\* SubscriptionTable::processPublication begins.
HandlePub(t) ==
  /\ Current(t, "PUB")
  /\ LET p == Head(thread[t].pkts).pub IN
     /\ thread' = [thread EXCEPT ![t] =
          [stage |-> "table", conn |-> thread[t].conn, strand |-> TRUE,
           pkts |-> thread[t].pkts, events |-> <<p>>, list |-> table]]
     /\ want' = [c \in Conns |->
          IF life[c] = "live" /\ socket[c] = "open"
          THEN want[c] \o Deserved(asked[c], <<p>>) \o Deserved(asked[c], Results(p))
          ELSE want[c]]
  /\ UNCHANGED <<client, socket, ops, timer, stop, subscr, life, sent>>

\* processPubPkt and handleResult of one listener: a write for every event
\* and every subscription that it matches.
Outgoing(c, events, undef) ==
  Repeated(events, [i \in DOMAIN events |->
    Cardinality({k \in DOMAIN subs[c] : Wants(subs[c][k], events[i], undef)})])

Visit(t) ==
  /\ thread[t].stage \in {"table", "engine"}
  /\ \E c \in thread[t].list, undef \in BOOLEAN :
       LET out == IF socket[c] = "open" THEN Outgoing(c, thread[t].events, undef) ELSE <<>>
       IN /\ writes' = [writes EXCEPT ![c] = @ \o [i \in DOMAIN out |-> "pending"]]
          /\ sent' = [sent EXCEPT ![c] = @ \o out]
          /\ thread' = [thread EXCEPT ![t].list = @ \ {c}]
  /\ UNCHANGED <<client, socket, read, rbuf, timer, stop, subscr, life, want>>

\* After the table the engine processes the packet and notifies its listeners.
NotifyResults(t) ==
  /\ thread[t].stage = "table" /\ thread[t].list = {}
  /\ thread' = [thread EXCEPT ![t] =
       [stage |-> "engine", conn |-> thread[t].conn, strand |-> TRUE,
        pkts |-> thread[t].pkts, events |-> Results(Head(thread[t].pkts).pub),
        list |-> engine]]
  /\ UNCHANGED <<client, socket, ops, timer, stop, subscr, life, sent, want>>

PubDone(t) ==
  /\ thread[t].stage = "engine" /\ thread[t].list = {}
  /\ Done(t)
  /\ UNCHANGED <<client, socket, ops, timer, stop, subscr, life, sent, want>>

----------------------------------------------------------------------------

Handler(t) ==
  \/ \E c \in Conns : \/ HandleRead(t, c) \/ HandleReadError(t, c) \/ HandleWrite(t, c)
                      \/ HandlePingReceive(t, c) \/ HandlePingSend(t, c)
  \/ HandleOther(t) \/ HandleSub(t) \/ HandleUnSub(t) \/ HandlePub(t)
  \/ Visit(t) \/ NotifyResults(t) \/ PubDone(t) \/ ReadAgain(t) \/ HandlerEnds(t)

Completion ==
  \E c \in Conns : \/ ReadCompletes(c) \/ WriteCompletes(c)
                   \/ \E k \in {"recv", "send"} : TimerExpires(c, k)

Next ==
  \/ Completion
  \/ \E t \in Threads : Handler(t)
  \/ \E t \in Threads, c \in Conns : Accept(t, c)
  \/ \E c \in Conns : ClientSend(c) \/ ClientLeave(c)

\* The threads run, operations end and timers expire; the io_service queues
\* handlers in order, so a handler that is queued again and again while the
\* threads are busy gets its turn.  Nothing obliges a client to do anything.
Fairness ==
  /\ \A t \in Threads : WF_vars(Handler(t))
  /\ \A c \in Conns :
       /\ WF_vars(ReadCompletes(c)) /\ WF_vars(WriteCompletes(c))
       /\ \A k \in {"recv", "send"} : WF_vars(TimerExpires(c, k))
       /\ SF_vars(\E t \in Threads : HandleRead(t, c) \/ HandleReadError(t, c))
       /\ SF_vars(\E t \in Threads : HandleWrite(t, c))
       /\ SF_vars(\E t \in Threads : HandlePingReceive(t, c))
       /\ SF_vars(\E t \in Threads : HandlePingSend(t, c))

Spec == Init /\ [][Next]_vars /\ Fairness

----------------------------------------------------------------------------
(* Properties.                                                             *)

TimerStates == {"off", "waiting", "expired", "aborted"}

\* Packets as the properties take them: an event has one attribute of a name, as in
\* contentMap, and a subscription states no constraint twice.
IsSeq(q) == q \in Seq(Range(q))
Distinct(q) == IsSeq(q) /\ \A i, j \in DOMAIN q : q[i] = q[j] => i = j

EventOK(ev) ==
  /\ IsSeq(ev.attributes)
  /\ \A i, j \in DOMAIN ev.attributes : ev.attributes[i].name = ev.attributes[j].name => i = j
EventsOK(q) == IsSeq(q) /\ \A i \in DOMAIN q : EventOK(q[i])

PacketOK(p) ==
  /\ p.pkt = "PUB" => EventOK(p.pub) /\ EventsOK(Results(p.pub))
  /\ p.pkt \in {"SUB", "UNSUB"} => Distinct(p.sub.constraints)
PacketsOK(q) == IsSeq(q) /\ \A i \in DOMAIN q : PacketOK(q[i])

ScriptsOK == \A s \in Setups : DOMAIN s.script = Conns /\ \A c \in Conns : PacketsOK(s.script[c])

\* No constraints of a subscription have been freed.
SubsIntact == \A c \in Conns : \A i \in DOMAIN subs[c] : subs[c][i].alive

\* Every variable is in its range; a thread works for a connection that
\* still exists, and a destroyed connection has no operation left.
TypeOK ==
  /\ socket \in [Conns -> {"none", "open", "closed"}]
  /\ read \in [Conns -> {"none", "pending", "ok", "error"}]
  /\ timer \in [Conns -> [{"recv", "send"} -> TimerStates]]
  /\ \A t \in Threads : thread[t].stage # "idle" => life[thread[t].conn] = "live"
  /\ \A c \in Conns : life[c] = "gone" =>
       /\ read[c] = "none" /\ writes[c] = <<>> /\ socket[c] = "closed"
       /\ \A k \in {"recv", "send"} : timer[c][k] = "off"

\* The subscription table and the engine have the same listeners, and each is
\* a connection that exists and has subscribed.
TablesLive ==
  /\ table = engine
  /\ \A c \in table : life[c] = "live" /\ first[c]

\* The listeners that a publication is still to visit exist.
VisitsLive ==
  \A t \in Threads : thread[t].stage \in {"table", "engine"} =>
    \A c \in thread[t].list : life[c] = "live"

\* The pointers that the subscription table and the engine keep without a
\* reference count, and those a publication is still to visit, belong to
\* connections that exist; both tables have the same ones.
ListenersLive == TablesLive /\ VisitsLive

\* Between handlers, every connection has been told to write exactly the
\* publications and composite events that its client's subscriptions ask
\* for, each once per subscription, a publication before its results.
DeliveredAsSubscribed ==
  (\A t \in Threads : thread[t].stage = "idle") => sent = want

\* A connection that is open towards a client that is there always has a
\* pending read or its completion, and with pings both timers: none of the
\* cancellations and restarts loses a timer.
WatchdogArmed ==
  \A c \in Conns :
    /\ life[c] = "live" /\ socket[c] = "open" /\ peer[c] = "up"
    /\ \A t \in Threads : thread[t].stage = "idle" \/ thread[t].conn # c
    => /\ read[c] # "none"
       /\ usePing => timer[c].recv # "off" /\ timer[c].send # "off"

\* A publication has c among the listeners it is still to visit.
PublicationReaches(c) ==
  \E t \in Threads : thread[t].stage \in {"table", "engine"} /\ c \in thread[t].list

\* A connection on which a read or a write has failed is eventually destroyed,
\* although its cancelled timers are started again, unless publications reach it
\* for ever: where shutdown has thrown, the socket and the listener are still
\* there, and every write that fails cancels and starts the timers once more.
FailedConnectionsEnd ==
  \A c \in Conns : (stop[c] ~> life[c] = "gone") \/ []<>PublicationReaches(c)

\* A connection whose socket has been closed, for whatever reason, is
\* eventually destroyed, and its listeners with it.
ClosedConnectionsEnd ==
  \A c \in Conns : socket[c] = "closed" ~> life[c] = "gone"

\* Packets of c wait at the socket, in a completed read, or in the thread that
\* goes through them.
Unhandled(c) ==
  \/ inbox[c] # <<>> \/ rbuf[c] # <<>>
  \/ \E t \in Threads : /\ thread[t].stage \in {"packets", "table", "engine"}
                        /\ thread[t].conn = c /\ thread[t].pkts # <<>>

\* Everything that a client has sent is eventually read, gone through to the last
\* packet and its last listener, unless the connection is closed.
RequestsHandled ==
  \A c \in Conns : Unhandled(c) ~> ~Unhandled(c) \/ socket[c] = "closed"

============================================================================
