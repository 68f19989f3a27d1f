--------------------------- MODULE Server_proofs ---------------------------
(***************************************************************************)
(* The connections of the server, for any number of clients and of packets *)
(* they send.  What holds of one connection alone is proved for any number *)
(* of io threads; that a publication visits only connections that exist    *)
(* needs that there is one.                                                *)
(***************************************************************************)
EXTENDS Server, Loops_proofs, FiniteSetTheorems, SequenceTheorems, TLAPS

\* One thread runs the io_service.
SingleThread == \A t, u \in Threads : t = u

TimerKinds == {"recv", "send"}

\* What a thread does, as a record of the right fields.
WorkOK(w) ==
  /\ w.stage \in {"idle", "end", "packets", "table", "engine"}
  /\ w.stage # "idle" => w.conn \in Conns
  /\ w.stage \in {"table", "engine"} =>
       /\ w = [stage |-> w.stage, conn |-> w.conn, strand |-> w.strand, pkts |-> w.pkts,
               events |-> w.events, list |-> w.list]
       /\ w.list \subseteq Conns

ShapeInv ==
  /\ usePing \in BOOLEAN
  /\ peer \in [Conns -> {"absent", "up", "down"}]
  /\ socket \in [Conns -> {"none", "open", "closed"}]
  /\ read \in [Conns -> {"none", "pending", "ok", "error"}]
  /\ timer \in [Conns -> [TimerKinds -> TimerStates]]
  /\ stop \in [Conns -> BOOLEAN]
  /\ first \in [Conns -> BOOLEAN]
  /\ life \in [Conns -> {"none", "live", "gone"}]
  /\ DOMAIN writes = Conns
  /\ table \subseteq Conns
  /\ DOMAIN thread = Threads
  /\ \A t \in Threads : WorkOK(thread[t])

\* A connection has nothing to do before it is accepted and after it is gone.
Quiet(c) ==
  read[c] = "none" /\ writes[c] = <<>> /\ timer[c]["recv"] = "off" /\ timer[c]["send"] = "off"

\* The life of a connection: accepted, referenced by what it has started and by
\* the threads that handle it, gone with the last reference.
LifeInv ==
  /\ \A t \in Threads : thread[t].stage # "idle" => life[thread[t].conn] = "live"
  /\ \A c \in Conns :
       /\ life[c] = "none" <=> peer[c] = "absent"
       /\ life[c] = "none" => Quiet(c) /\ socket[c] = "none" /\ ~stop[c] /\ ~first[c]
       /\ life[c] = "live" => socket[c] # "none"
       /\ life[c] = "gone" => Quiet(c) /\ socket[c] = "closed"

\* Who keeps a connection going.  The timers of an open one end only after
\* stopTimers, which is set where the socket is closed; without a read one of
\* the threads is handling what the last one brought.
ArmedInv ==
  \A c \in Conns :
    life[c] = "live" /\ socket[c] = "open" /\ peer[c] = "up" =>
      /\ ~stop[c]
      /\ usePing => timer[c]["recv"] # "off" /\ timer[c]["send"] # "off"
      /\ read[c] = "none" =>
           \E t \in Threads : thread[t].stage \in {"packets", "table", "engine"}
                              /\ thread[t].conn = c

\* The inductive invariant for any number of threads.
ServerInv == ShapeInv /\ LifeInv /\ ArmedInv /\ TablesLive

-----------------------------------------------------------------------------
\* A record of timers is a function on their kinds.
LEMMA TimerRecord ==
  ASSUME NEW a \in TimerStates, NEW b \in TimerStates
  PROVE  /\ [recv |-> a, send |-> b] \in [TimerKinds -> TimerStates]
         /\ [recv |-> a, send |-> b]["recv"] = a
         /\ [recv |-> a, send |-> b]["send"] = b
BY DEF TimerKinds

\* Before any client connects.
LEMMA InitServerInv == Init => ServerInv
<1> SUFFICES ASSUME Init PROVE ServerInv
  OBVIOUS
<1>1. [recv |-> "off", send |-> "off"] \in [TimerKinds -> TimerStates]
  BY TimerRecord DEF TimerStates
<1>2. usePing \in BOOLEAN
  BY ServerAssumption DEF Init
<1>3. ShapeInv
  BY <1>1, <1>2 DEF Init, ShapeInv, WorkOK, Idle
<1>4. LifeInv
  BY DEF Init, LifeInv, Quiet, Idle
<1>5. ArmedInv /\ TablesLive
  BY DEF Init, ArmedInv, TablesLive
<1> QED
  BY <1>3, <1>4, <1>5 DEF ServerInv


\* Cancelling leaves a timer in its range and turns none off.
LEMMA TimerCancel ==
  \A s \in TimerStates : Cancel(s) \in TimerStates /\ (Cancel(s) = "off" <=> s = "off")
BY DEF TimerStates, Cancel

\* cancel leaves both timers in their range and turns none of them off.
LEMMA TimerCancelBoth ==
  ASSUME NEW tm \in [TimerKinds -> TimerStates]
  PROVE  /\ CancelBoth(tm) \in [TimerKinds -> TimerStates]
         /\ \A k \in TimerKinds : CancelBoth(tm)[k] = "off" <=> tm[k] = "off"
BY TimerCancel DEF CancelBoth

\* Closing a socket touches no other and leaves it open only when the client has
\* left.
LEMMA CloseFacts ==
  ASSUME ShapeInv, NEW c \in Conns, CloseSocket(c)
  PROVE  /\ socket' \in [Conns -> {"none", "open", "closed"}]
         /\ \A d \in Conns : d # c => socket'[d] = socket[d]
         /\ socket'[c] = "closed" \/ (peer[c] = "down" /\ socket'[c] = socket[c])
<1>1. PICK s \in {"closed"} \union (IF peer[c] = "down" THEN {socket[c]} ELSE {}) :
        socket' = [socket EXCEPT ![c] = s]
  BY DEF CloseSocket
<1>2. s = "closed" \/ (peer[c] = "down" /\ s = socket[c])
  BY <1>1
<1> QED
  BY <1>1, <1>2 DEF ShapeInv

\* The error path of a read or a write.
LEMMA FailFacts ==
  ASSUME ShapeInv, NEW c \in Conns, Fail(c)
  PROVE  /\ CloseSocket(c)
         /\ stop' \in [Conns -> BOOLEAN] /\ stop'[c]
         /\ timer' \in [Conns -> [TimerKinds -> TimerStates]]
         /\ \A k \in TimerKinds : timer'[c][k] = "off" <=> timer[c][k] = "off"
         /\ \A d \in Conns : d # c => stop'[d] = stop[d] /\ timer'[d] = timer[d]
<1>1. timer[c] \in [TimerKinds -> TimerStates]
  BY DEF ShapeInv
<1>2. /\ CancelBoth(timer[c]) \in [TimerKinds -> TimerStates]
      /\ \A k \in TimerKinds : CancelBoth(timer[c])[k] = "off" <=> timer[c][k] = "off"
  BY <1>1, TimerCancelBoth
<1> QED
  BY <1>2 DEF Fail, ShapeInv

\* What a thread does in a publication, with fewer listeners to visit.
LEMMA WorkUpdate ==
  ASSUME NEW w, WorkOK(w), w.stage \in {"table", "engine"}, NEW l \in SUBSET Conns
  PROVE  /\ WorkOK([w EXCEPT !.list = l])
         /\ [w EXCEPT !.list = l].stage = w.stage
         /\ [w EXCEPT !.list = l].conn = w.conn
         /\ [w EXCEPT !.list = l].list = l
         /\ [w EXCEPT !.list = l].pkts = w.pkts
         /\ [w EXCEPT !.list = l].events = w.events
<1> DEFINE st == w.stage
           cn == w.conn
           ps == w.pkts
           ev == w.events
           sd == w.strand
<1>1. w = [stage |-> st, conn |-> cn, strand |-> sd, pkts |-> ps, events |-> ev,
           list |-> w.list] /\ cn \in Conns /\ st \in {"table", "engine"}
  BY DEF WorkOK
<1> HIDE DEF st, cn, ps, ev, sd
<1> DEFINE v == [w EXCEPT !.list = l]
<1>2. v = [stage |-> st, conn |-> cn, strand |-> sd, pkts |-> ps, events |-> ev, list |-> l]
  BY <1>1
<1> HIDE DEF v
<1>3. v.stage = st /\ v.conn = cn /\ v.strand = sd /\ v.pkts = ps /\ v.events = ev /\ v.list = l
  BY <1>2
<1>4. WorkOK(v)
  BY <1>1, <1>2, <1>3 DEF WorkOK
<1> QED
  BY <1>3, <1>4 DEF v, st, cn, ps, ev

\* Every step keeps the shape.
LEMMA ShapeNext ==
  ASSUME ServerInv, [Next]_vars
  PROVE  ShapeInv'
<1> USE DEF TimerKinds, TimerStates
<1>s. ShapeInv /\ table = engine
  BY DEF ServerInv, TablesLive
<1> USE <1>s
<1>1. ASSUME NEW c \in Conns, ClientSend(c)
      PROVE  ShapeInv'
  BY <1>1 DEF ClientSend, client, ops, subscr, ShapeInv
<1>2. ASSUME NEW c \in Conns, ClientLeave(c)
      PROVE  ShapeInv'
  BY <1>2 DEF ClientLeave, client, ops, subscr, ShapeInv
<1>3. ASSUME NEW c \in Conns, ReadCompletes(c)
      PROVE  ShapeInv'
  BY <1>3, SMTT(60) DEF ReadCompletes, client, ops, subscr, ShapeInv
<1>4. ASSUME NEW c \in Conns, WriteCompletes(c)
      PROVE  ShapeInv'
  BY <1>4 DEF WriteCompletes, client, ops, subscr, ShapeInv
<1>5. ASSUME NEW c \in Conns, NEW k \in TimerKinds, TimerExpires(c, k)
      PROVE  ShapeInv'
  BY <1>5 DEF TimerExpires, client, ops, subscr, ShapeInv
<1>6. ASSUME NEW t \in Threads, NEW c \in Conns, Accept(t, c)
      PROVE  ShapeInv'
  BY <1>6 DEF Accept, client, ops, subscr, ShapeInv
<1>7. ASSUME NEW t \in Threads, NEW c \in Conns, HandleRead(t, c)
      PROVE  ShapeInv'
  BY <1>7, TimerCancel, SMTT(60) DEF HandleRead, Begin, client, ops, subscr, ShapeInv, WorkOK
<1>8. ASSUME NEW t \in Threads, NEW c \in Conns, HandleReadError(t, c)
      PROVE  ShapeInv'
  <2>1. Fail(c)
    BY <1>8 DEF HandleReadError
  <2>2. /\ socket' \in [Conns -> {"none", "open", "closed"}]
        /\ stop' \in [Conns -> BOOLEAN]
        /\ timer' \in [Conns -> [TimerKinds -> TimerStates]]
    BY <2>1, FailFacts, CloseFacts
  <2> QED
    BY <1>8, <2>2 DEF HandleReadError, Handled, client, ops, subscr, ShapeInv, WorkOK
<1>9. ASSUME NEW t \in Threads, NEW c \in Conns, HandleWrite(t, c)
      PROVE  ShapeInv'
  <2>1. /\ socket' \in [Conns -> {"none", "open", "closed"}]
        /\ stop' \in [Conns -> BOOLEAN]
        /\ timer' \in [Conns -> [TimerKinds -> TimerStates]]
    <3>1. CASE Fail(c)
      BY <3>1, FailFacts, CloseFacts
    <3>2. CASE timer' = [timer EXCEPT ![c].send = Cancel(@)] /\ UNCHANGED <<socket, stop>>
      BY <3>2, TimerCancel, ZenonT(60) DEF ShapeInv
    <3> QED
      BY <1>9, <3>1, <3>2 DEF HandleWrite
  <2> QED
    BY <1>9, <2>1 DEF HandleWrite, Handled, client, ops, subscr, ShapeInv, WorkOK
<1>10. ASSUME NEW t \in Threads, NEW c \in Conns, HandlePingReceive(t, c)
      PROVE  ShapeInv'
  <2>1. socket' \in [Conns -> {"none", "open", "closed"}]
    BY <1>10, CloseFacts DEF HandlePingReceive, ShapeInv
  <2>2. timer' \in [Conns -> [TimerKinds -> TimerStates]]
    BY <1>10 DEF HandlePingReceive, ShapeInv
  <2> QED
    BY <1>10, <2>1, <2>2 DEF HandlePingReceive, Handled, client, ops, subscr, ShapeInv, WorkOK
<1>11. ASSUME NEW t \in Threads, NEW c \in Conns, HandlePingSend(t, c)
      PROVE  ShapeInv'
  BY <1>11, TimerCancel, SMTT(60) DEF HandlePingSend, Handled, client, ops, subscr, ShapeInv, WorkOK
<1>12. ASSUME NEW t \in Threads, HandleOther(t)
      PROVE  ShapeInv'
  BY <1>12 DEF HandleOther, Current, Done, client, ops, subscr, ShapeInv, WorkOK
<1>13. ASSUME NEW t \in Threads, HandleSub(t)
      PROVE  ShapeInv'
  BY <1>13 DEF HandleSub, Current, Done, client, ops, subscr, ShapeInv, WorkOK
<1>14. ASSUME NEW t \in Threads, HandleUnSub(t)
      PROVE  ShapeInv'
  BY <1>14, SMTT(60) DEF HandleUnSub, Current, Done, client, ops, subscr, ShapeInv, WorkOK
<1>15. ASSUME NEW t \in Threads, HandlePub(t)
      PROVE  ShapeInv'
  BY <1>15 DEF HandlePub, Current, client, ops, subscr, ShapeInv, WorkOK
<1>16. ASSUME NEW t \in Threads, Visit(t)
      PROVE  ShapeInv'
  <2>1. PICK c \in thread[t].list : thread' = [thread EXCEPT ![t].list = @ \ {c}]
    BY <1>16 DEF Visit
  <2>2. WorkOK(thread[t]) /\ thread[t].stage \in {"table", "engine"}
    BY <1>16 DEF Visit, ShapeInv
  <2>3. WorkOK([thread[t] EXCEPT !.list = thread[t].list \ {c}])
    <3>1. thread[t].list \ {c} \in SUBSET Conns
      BY <2>2 DEF WorkOK
    <3> QED
      BY <2>2, <3>1, WorkUpdate
  <2>4. thread' = [thread EXCEPT ![t] = [thread[t] EXCEPT !.list = @ \ {c}]]
    BY <2>1
  <2>5. \A u \in Threads : WorkOK(thread'[u])
    BY <2>3, <2>4 DEF ShapeInv
  <2> QED
    BY <1>16, <2>4, <2>5 DEF Visit, client, ops, subscr, ShapeInv, WorkOK
<1>17. ASSUME NEW t \in Threads, NotifyResults(t)
      PROVE  ShapeInv'
  BY <1>17 DEF NotifyResults, client, ops, subscr, ShapeInv, WorkOK
<1>18. ASSUME NEW t \in Threads, PubDone(t)
      PROVE  ShapeInv'
  BY <1>18 DEF PubDone, Done, client, ops, subscr, ShapeInv, WorkOK
<1>19. ASSUME NEW t \in Threads, ReadAgain(t)
      PROVE  ShapeInv'
  BY <1>19 DEF ReadAgain, Handled, client, ops, subscr, ShapeInv, WorkOK
<1>20. ASSUME NEW t \in Threads, HandlerEnds(t)
      PROVE  ShapeInv'
  <2>1. thread[t].conn \in Conns
    BY <1>20 DEF HandlerEnds, ShapeInv, WorkOK
  <2>2. /\ socket' \in [Conns -> {"none", "open", "closed"}]
        /\ life' \in [Conns -> {"none", "live", "gone"}]
        /\ table' \subseteq Conns /\ first' = first
    BY <1>20, <2>1, ZenonT(60) DEF HandlerEnds, Unregister, subscr, ShapeInv
  <2>3. WorkOK(Idle)
    BY DEF WorkOK, Idle
  <2> QED
    BY <1>20, <2>2, <2>3 DEF HandlerEnds, client, ops, ShapeInv
<1>21. CASE UNCHANGED vars
  BY <1>21 DEF vars, ShapeInv, WorkOK
<1> QED
  BY <1>1, <1>2, <1>3, <1>4, <1>5, <1>6, <1>7, <1>8, <1>9, <1>10, <1>11, <1>12, <1>13, <1>14, <1>15, <1>16, <1>17, <1>18, <1>19, <1>20, <1>21 DEF Next, Completion, Handler


\* A handler keeps its connection; one without operations is destroyed for good.
LEMMA LifeNext ==
  ASSUME ServerInv, [Next]_vars
  PROVE  LifeInv'
<1> USE DEF TimerKinds
<1>s. ShapeInv /\ LifeInv
  BY DEF ServerInv
<1>t. /\ peer \in [Conns -> {"absent", "up", "down"}]
      /\ socket \in [Conns -> {"none", "open", "closed"}]
      /\ read \in [Conns -> {"none", "pending", "ok", "error"}]
      /\ timer \in [Conns -> [TimerKinds -> TimerStates]]
      /\ stop \in [Conns -> BOOLEAN]
      /\ first \in [Conns -> BOOLEAN]
      /\ life \in [Conns -> {"none", "live", "gone"}]
      /\ DOMAIN writes = Conns
      /\ DOMAIN thread = Threads
      /\ \A t \in Threads : thread[t].stage # "idle" => thread[t].conn \in Conns
  BY <1>s DEF ShapeInv, WorkOK
<1> USE <1>s, <1>t
<1>1. ASSUME NEW c \in Conns, ClientSend(c)
      PROVE  LifeInv'
  BY <1>1 DEF ClientSend, client, ops, subscr, LifeInv, Quiet
<1>2. ASSUME NEW c \in Conns, ClientLeave(c)
      PROVE  LifeInv'
  BY <1>2 DEF ClientLeave, client, ops, subscr, LifeInv, Quiet
<1>3. ASSUME NEW c \in Conns, ReadCompletes(c)
      PROVE  LifeInv'
  BY <1>3 DEF ReadCompletes, client, ops, subscr, LifeInv, Quiet
<1>4. ASSUME NEW c \in Conns, WriteCompletes(c)
      PROVE  LifeInv'
  BY <1>4 DEF WriteCompletes, client, ops, subscr, LifeInv, Quiet
<1>5. ASSUME NEW c \in Conns, NEW k \in TimerKinds, TimerExpires(c, k)
      PROVE  LifeInv'
  BY <1>5 DEF TimerExpires, client, ops, subscr, LifeInv, Quiet
<1>6. ASSUME NEW t \in Threads, NEW c \in Conns, Accept(t, c)
      PROVE  LifeInv'
  BY <1>6 DEF Accept, client, ops, subscr, LifeInv, Quiet
<1>7. ASSUME NEW t \in Threads, NEW c \in Conns, HandleRead(t, c)
      PROVE  LifeInv'
  BY <1>7 DEF HandleRead, Begin, client, ops, subscr, LifeInv, Quiet
<1>8. ASSUME NEW t \in Threads, NEW c \in Conns, HandleReadError(t, c)
      PROVE  LifeInv'
  <2>1. /\ socket'[c] = "closed" \/ socket'[c] = socket[c]
        /\ \A d \in Conns : d # c =>
             socket'[d] = socket[d] /\ stop'[d] = stop[d] /\ timer'[d] = timer[d]
    BY <1>8, FailFacts, CloseFacts DEF HandleReadError
  <2>2. life[c] = "live" /\ socket'[c] # "none"
    BY <1>8, <2>1 DEF HandleReadError, Begin, LifeInv
  <2> QED
    BY <1>8, <2>1, <2>2 DEF HandleReadError, Handled, client, ops, subscr, LifeInv, Quiet
<1>9. ASSUME NEW t \in Threads, NEW c \in Conns, HandleWrite(t, c)
      PROVE  LifeInv'
  <2>1. /\ socket'[c] = "closed" \/ socket'[c] = socket[c]
        /\ \A d \in Conns : d # c =>
             socket'[d] = socket[d] /\ stop'[d] = stop[d] /\ timer'[d] = timer[d]
    BY <1>9, FailFacts, CloseFacts DEF HandleWrite
  <2>2. life[c] = "live" /\ socket'[c] # "none"
    BY <1>9, <2>1 DEF HandleWrite, Begin, LifeInv
  <2> QED
    BY <1>9, <2>1, <2>2 DEF HandleWrite, Handled, client, ops, subscr, LifeInv, Quiet
<1>10. ASSUME NEW t \in Threads, NEW c \in Conns, HandlePingReceive(t, c)
      PROVE  LifeInv'
  <2>1. /\ socket'[c] = "closed" \/ socket'[c] = socket[c]
        /\ \A d \in Conns : d # c => socket'[d] = socket[d] /\ timer'[d] = timer[d]
    BY <1>10, CloseFacts DEF HandlePingReceive
  <2>2. life[c] = "live" /\ socket'[c] # "none"
    BY <1>10, <2>1 DEF HandlePingReceive, LifeInv
  <2> QED
    BY <1>10, <2>1, <2>2 DEF HandlePingReceive, Handled, client, ops, subscr, LifeInv, Quiet
<1>11. ASSUME NEW t \in Threads, NEW c \in Conns, HandlePingSend(t, c)
      PROVE  LifeInv'
  BY <1>11 DEF HandlePingSend, Handled, client, ops, subscr, LifeInv, Quiet
<1>12. ASSUME NEW t \in Threads, HandleOther(t)
      PROVE  LifeInv'
  BY <1>12 DEF HandleOther, Current, Done, client, ops, subscr, LifeInv, Quiet
<1>13. ASSUME NEW t \in Threads, HandleSub(t)
      PROVE  LifeInv'
  BY <1>13 DEF HandleSub, Current, Done, client, ops, subscr, LifeInv, Quiet
<1>14. ASSUME NEW t \in Threads, HandleUnSub(t)
      PROVE  LifeInv'
  BY <1>14, SMTT(60) DEF HandleUnSub, Current, Done, client, ops, subscr, LifeInv, Quiet
<1>15. ASSUME NEW t \in Threads, HandlePub(t)
      PROVE  LifeInv'
  BY <1>15 DEF HandlePub, Current, client, ops, subscr, LifeInv, Quiet
<1>16. ASSUME NEW t \in Threads, Visit(t)
      PROVE  LifeInv'
  BY <1>16 DEF Visit, client, ops, subscr, LifeInv, Quiet
<1>17. ASSUME NEW t \in Threads, NotifyResults(t)
      PROVE  LifeInv'
  BY <1>17 DEF NotifyResults, client, ops, subscr, LifeInv, Quiet
<1>18. ASSUME NEW t \in Threads, PubDone(t)
      PROVE  LifeInv'
  BY <1>18 DEF PubDone, Done, client, ops, subscr, LifeInv, Quiet
<1>19. ASSUME NEW t \in Threads, ReadAgain(t)
      PROVE  LifeInv'
  BY <1>19 DEF ReadAgain, Handled, client, ops, subscr, LifeInv, Quiet
<1>20. ASSUME NEW t \in Threads, HandlerEnds(t)
      PROVE  LifeInv'
  BY <1>20 DEF HandlerEnds, Referenced, Unregister, Idle, client, ops, subscr, LifeInv, Quiet
<1>21. CASE UNCHANGED vars
  BY <1>21 DEF vars, LifeInv, Quiet
<1> QED
  BY <1>1, <1>2, <1>3, <1>4, <1>5, <1>6, <1>7, <1>8, <1>9, <1>10, <1>11, <1>12, <1>13, <1>14, <1>15, <1>16, <1>17, <1>18, <1>19, <1>20, <1>21 DEF Next, Completion, Handler


\* A listener is removed with its connection.
LEMMA TablesNext ==
  ASSUME ServerInv, [Next]_vars
  PROVE  TablesLive'
<1> USE DEF TimerKinds
<1>s. ShapeInv /\ LifeInv /\ TablesLive
  BY DEF ServerInv
<1>t. /\ peer \in [Conns -> {"absent", "up", "down"}]
      /\ socket \in [Conns -> {"none", "open", "closed"}]
      /\ read \in [Conns -> {"none", "pending", "ok", "error"}]
      /\ timer \in [Conns -> [TimerKinds -> TimerStates]]
      /\ stop \in [Conns -> BOOLEAN]
      /\ first \in [Conns -> BOOLEAN]
      /\ life \in [Conns -> {"none", "live", "gone"}]
      /\ DOMAIN thread = Threads
      /\ \A t \in Threads : thread[t].stage # "idle" => thread[t].conn \in Conns
  BY <1>s DEF ShapeInv, WorkOK
<1> USE <1>s, <1>t
<1>1. ASSUME NEW c \in Conns, ClientSend(c)
      PROVE  TablesLive'
  BY <1>1 DEF ClientSend, client, ops, subscr, LifeInv, TablesLive
<1>2. ASSUME NEW c \in Conns, ClientLeave(c)
      PROVE  TablesLive'
  BY <1>2 DEF ClientLeave, client, ops, subscr, LifeInv, TablesLive
<1>3. ASSUME NEW c \in Conns, ReadCompletes(c)
      PROVE  TablesLive'
  BY <1>3 DEF ReadCompletes, client, ops, subscr, LifeInv, TablesLive
<1>4. ASSUME NEW c \in Conns, WriteCompletes(c)
      PROVE  TablesLive'
  BY <1>4 DEF WriteCompletes, client, ops, subscr, LifeInv, TablesLive
<1>5. ASSUME NEW c \in Conns, NEW k \in TimerKinds, TimerExpires(c, k)
      PROVE  TablesLive'
  BY <1>5 DEF TimerExpires, client, ops, subscr, LifeInv, TablesLive
<1>6. ASSUME NEW t \in Threads, NEW c \in Conns, Accept(t, c)
      PROVE  TablesLive'
  BY <1>6 DEF Accept, client, ops, subscr, LifeInv, TablesLive
<1>7. ASSUME NEW t \in Threads, NEW c \in Conns, HandleRead(t, c)
      PROVE  TablesLive'
  BY <1>7 DEF HandleRead, Begin, client, ops, subscr, LifeInv, TablesLive
<1>8. ASSUME NEW t \in Threads, NEW c \in Conns, HandleReadError(t, c)
      PROVE  TablesLive'
  BY <1>8 DEF HandleReadError, Begin, Handled, client, ops, subscr, LifeInv, TablesLive
<1>9. ASSUME NEW t \in Threads, NEW c \in Conns, HandleWrite(t, c)
      PROVE  TablesLive'
  BY <1>9 DEF HandleWrite, Begin, Handled, client, ops, subscr, LifeInv, TablesLive
<1>10. ASSUME NEW t \in Threads, NEW c \in Conns, HandlePingReceive(t, c)
      PROVE  TablesLive'
  BY <1>10 DEF HandlePingReceive, Handled, client, ops, subscr, LifeInv, TablesLive
<1>11. ASSUME NEW t \in Threads, NEW c \in Conns, HandlePingSend(t, c)
      PROVE  TablesLive'
  BY <1>11 DEF HandlePingSend, Handled, client, ops, subscr, LifeInv, TablesLive
<1>12. ASSUME NEW t \in Threads, HandleOther(t)
      PROVE  TablesLive'
  BY <1>12 DEF HandleOther, Current, Done, client, ops, subscr, LifeInv, TablesLive
<1>13. ASSUME NEW t \in Threads, HandleSub(t)
      PROVE  TablesLive'
  BY <1>13 DEF HandleSub, Current, Done, client, ops, subscr, LifeInv, TablesLive
<1>14. ASSUME NEW t \in Threads, HandleUnSub(t)
      PROVE  TablesLive'
  BY <1>14, SMTT(60) DEF HandleUnSub, Current, Done, client, ops, subscr, LifeInv, TablesLive
<1>15. ASSUME NEW t \in Threads, HandlePub(t)
      PROVE  TablesLive'
  BY <1>15 DEF HandlePub, Current, client, ops, subscr, LifeInv, TablesLive
<1>16. ASSUME NEW t \in Threads, Visit(t)
      PROVE  TablesLive'
  BY <1>16 DEF Visit, client, ops, subscr, LifeInv, TablesLive
<1>17. ASSUME NEW t \in Threads, NotifyResults(t)
      PROVE  TablesLive'
  BY <1>17 DEF NotifyResults, client, ops, subscr, LifeInv, TablesLive
<1>18. ASSUME NEW t \in Threads, PubDone(t)
      PROVE  TablesLive'
  BY <1>18 DEF PubDone, Done, client, ops, subscr, LifeInv, TablesLive
<1>19. ASSUME NEW t \in Threads, ReadAgain(t)
      PROVE  TablesLive'
  BY <1>19 DEF ReadAgain, Handled, client, ops, subscr, LifeInv, TablesLive
<1>20. ASSUME NEW t \in Threads, HandlerEnds(t)
      PROVE  TablesLive'
  <2> DEFINE c == thread[t].conn
  <2>1. c \in Conns /\ table \subseteq Conns
    BY <1>20 DEF HandlerEnds, ShapeInv
  <2>2. CASE Referenced(t, c)
    BY <1>20, <2>2 DEF HandlerEnds, subscr, TablesLive
  <2>3. CASE ~Referenced(t, c)
    <3>1. /\ life' = [life EXCEPT ![c] = "gone"]
          /\ IF first[c] THEN Unregister(c) ELSE UNCHANGED <<table, engine>>
          /\ first' = first
      BY <1>20, <2>3 DEF HandlerEnds
    <3>2. table' = table \ {c} /\ engine' = engine \ {c}
      BY <3>1 DEF Unregister, TablesLive
    <3> QED
      BY <2>1, <3>1, <3>2 DEF TablesLive
  <2> QED
    BY <2>2, <2>3
<1>21. CASE UNCHANGED vars
  BY <1>21 DEF vars, TablesLive
<1> QED
  BY <1>1, <1>2, <1>3, <1>4, <1>5, <1>6, <1>7, <1>8, <1>9, <1>10, <1>11, <1>12, <1>13, <1>14, <1>15, <1>16, <1>17, <1>18, <1>19, <1>20, <1>21 DEF Next, Completion, Handler


\* Every handler of an open connection restarts what it was called for.
LEMMA ArmedNext ==
  ASSUME ServerInv, [Next]_vars
  PROVE  ArmedInv'
<1> USE DEF TimerKinds
<1>s. ShapeInv /\ LifeInv /\ ArmedInv
  BY DEF ServerInv
<1>t. /\ peer \in [Conns -> {"absent", "up", "down"}]
      /\ socket \in [Conns -> {"none", "open", "closed"}]
      /\ read \in [Conns -> {"none", "pending", "ok", "error"}]
      /\ timer \in [Conns -> [TimerKinds -> TimerStates]]
      /\ stop \in [Conns -> BOOLEAN]
      /\ first \in [Conns -> BOOLEAN]
      /\ life \in [Conns -> {"none", "live", "gone"}]
      /\ DOMAIN thread = Threads
      /\ \A t \in Threads : thread[t].stage # "idle" => thread[t].conn \in Conns
  BY <1>s DEF ShapeInv, WorkOK
<1> USE <1>s, <1>t
<1>1. ASSUME NEW c \in Conns, ClientSend(c)
      PROVE  ArmedInv'
  BY <1>1 DEF ClientSend, client, ops, subscr, LifeInv, ArmedInv
<1>2. ASSUME NEW c \in Conns, ClientLeave(c)
      PROVE  ArmedInv'
  BY <1>2 DEF ClientLeave, client, ops, subscr, LifeInv, ArmedInv
<1>3. ASSUME NEW c \in Conns, ReadCompletes(c)
      PROVE  ArmedInv'
  BY <1>3 DEF ReadCompletes, client, ops, subscr, LifeInv, ArmedInv
<1>4. ASSUME NEW c \in Conns, WriteCompletes(c)
      PROVE  ArmedInv'
  BY <1>4 DEF WriteCompletes, client, ops, subscr, LifeInv, ArmedInv
<1>5. ASSUME NEW c \in Conns, NEW k \in TimerKinds, TimerExpires(c, k)
      PROVE  ArmedInv'
  BY <1>5 DEF TimerExpires, client, ops, subscr, LifeInv, ArmedInv
<1>6. ASSUME NEW t \in Threads, NEW c \in Conns, Accept(t, c)
      PROVE  ArmedInv'
  BY <1>6 DEF Accept, client, ops, subscr, LifeInv, ArmedInv
<1>7. ASSUME NEW t \in Threads, NEW c \in Conns, HandleRead(t, c)
      PROVE  ArmedInv'
  <2>1. \A d \in Conns : \A k \in TimerKinds : timer'[d][k] = "off" => timer[d][k] = "off"
    BY <1>7, TimerCancel DEF HandleRead
  <2>2. \A u \in Threads : thread[u].stage \in {"packets", "table", "engine"} =>
          thread'[u] = thread[u]
    BY <1>7 DEF HandleRead, Begin
  <2>3. thread'[t].stage = "packets" /\ thread'[t].conn = c
    BY <1>7 DEF HandleRead
  <2> QED
    BY <1>7, <2>1, <2>2, <2>3 DEF HandleRead, client, ArmedInv
<1>8. ASSUME NEW t \in Threads, NEW c \in Conns, HandleReadError(t, c)
      PROVE  ArmedInv'
  <2>1. \A d \in Conns : \A k \in TimerKinds : timer'[d][k] = "off" => timer[d][k] = "off"
    BY <1>8, TimerCancel, FailFacts DEF HandleReadError
  <2>2. \A u \in Threads : thread[u].stage \in {"packets", "table", "engine"} =>
          thread'[u] = thread[u]
    BY <1>8 DEF HandleReadError, Begin, Handled
  <2>3. ~(socket'[c] = "open" /\ peer[c] = "up")
    BY <1>8, FailFacts, CloseFacts DEF HandleReadError
  <2>4. \A d \in Conns : d # c =>
          socket'[d] = socket[d] /\ stop'[d] = stop[d] /\ read'[d] = read[d]
    BY <1>8, FailFacts, CloseFacts DEF HandleReadError
  <2> QED
    BY <1>8, <2>1, <2>2, <2>3, <2>4 DEF HandleReadError, client, ArmedInv
<1>9. ASSUME NEW t \in Threads, NEW c \in Conns, HandleWrite(t, c)
      PROVE  ArmedInv'
  <2>1. \A d \in Conns : \A k \in TimerKinds : timer'[d][k] = "off" => timer[d][k] = "off"
    BY <1>9, TimerCancel, FailFacts, SMTT(60) DEF HandleWrite
  <2>2. \A u \in Threads : thread[u].stage \in {"packets", "table", "engine"} =>
          thread'[u] = thread[u]
    BY <1>9 DEF HandleWrite, Begin, Handled
  <2>3. \/ ~(socket'[c] = "open" /\ peer[c] = "up")
        \/ UNCHANGED <<socket, stop>>
    BY <1>9, FailFacts, CloseFacts DEF HandleWrite
  <2>4. \A d \in Conns : d # c => socket'[d] = socket[d] /\ stop'[d] = stop[d]
    BY <1>9, FailFacts, CloseFacts DEF HandleWrite
  <2>5. UNCHANGED <<usePing, peer, read, life>>
    BY <1>9 DEF HandleWrite, client
  <2> QED
    BY <2>1, <2>2, <2>3, <2>4, <2>5 DEF ArmedInv
<1>10. ASSUME NEW t \in Threads, NEW c \in Conns, HandlePingReceive(t, c)
      PROVE  ArmedInv'
  <2>1. \A u \in Threads : thread[u].stage \in {"packets", "table", "engine"} =>
          thread'[u] = thread[u]
    BY <1>10 DEF HandlePingReceive, Handled
  <2>2. CASE timer[c].recv = "aborted"
    <3>1. UNCHANGED <<usePing, peer, socket, read, stop, life>>
      BY <1>10, <2>2 DEF HandlePingReceive, client, ops
    <3>2. \A d \in Conns : \A k \in TimerKinds : timer'[d][k] = "off" => timer[d][k] = "off"
      BY <1>10, <2>2 DEF HandlePingReceive
    <3> QED
      BY <2>1, <3>1, <3>2 DEF ArmedInv
  <2>3. CASE timer[c].recv = "expired"
    <3>1. socket'[c] = socket[c] \/ ~(socket'[c] = "open" /\ peer[c] = "up")
      BY <1>10, <2>3, CloseFacts DEF HandlePingReceive
    <3>2. ~(socket'[c] = "open" /\ peer[c] = "up" /\ life[c] = "live")
      BY <1>10, <2>3, <3>1, CloseFacts DEF HandlePingReceive, ArmedInv
    <3>3. \A d \in Conns : d # c => socket'[d] = socket[d] /\ timer'[d] = timer[d]
      BY <1>10, <2>3, CloseFacts DEF HandlePingReceive
    <3> QED
      BY <1>10, <2>1, <3>2, <3>3 DEF HandlePingReceive, client, ops, ArmedInv
  <2> QED
    BY <1>10, <2>2, <2>3 DEF HandlePingReceive
<1>11. ASSUME NEW t \in Threads, NEW c \in Conns, HandlePingSend(t, c)
      PROVE  ArmedInv'
  BY <1>11, SMTT(60) DEF HandlePingSend, Handled, client, ops, subscr, LifeInv, ArmedInv
<1>12. ASSUME NEW t \in Threads, HandleOther(t)
      PROVE  ArmedInv'
  BY <1>12 DEF HandleOther, Current, Done, client, ops, subscr, LifeInv, ArmedInv
<1>13. ASSUME NEW t \in Threads, HandleSub(t)
      PROVE  ArmedInv'
  BY <1>13 DEF HandleSub, Current, Done, client, ops, subscr, LifeInv, ArmedInv
<1>14. ASSUME NEW t \in Threads, HandleUnSub(t)
      PROVE  ArmedInv'
  BY <1>14, SMTT(60) DEF HandleUnSub, Current, Done, client, ops, subscr, LifeInv, ArmedInv
<1>15. ASSUME NEW t \in Threads, HandlePub(t)
      PROVE  ArmedInv'
  BY <1>15 DEF HandlePub, Current, client, ops, subscr, LifeInv, ArmedInv
<1>16. ASSUME NEW t \in Threads, Visit(t)
      PROVE  ArmedInv'
  BY <1>16 DEF Visit, client, ops, subscr, LifeInv, ArmedInv
<1>17. ASSUME NEW t \in Threads, NotifyResults(t)
      PROVE  ArmedInv'
  BY <1>17 DEF NotifyResults, client, ops, subscr, LifeInv, ArmedInv
<1>18. ASSUME NEW t \in Threads, PubDone(t)
      PROVE  ArmedInv'
  BY <1>18 DEF PubDone, Done, client, ops, subscr, LifeInv, ArmedInv
<1>19. ASSUME NEW t \in Threads, ReadAgain(t)
      PROVE  ArmedInv'
  BY <1>19 DEF ReadAgain, Handled, client, ops, subscr, LifeInv, ArmedInv
<1>20. ASSUME NEW t \in Threads, HandlerEnds(t)
      PROVE  ArmedInv'
  BY <1>20, SMTT(60) DEF HandlerEnds, Referenced, Unregister, Idle, client, ops, subscr, LifeInv, ArmedInv
<1>21. CASE UNCHANGED vars
  BY <1>21 DEF vars, ArmedInv
<1> QED
  BY <1>1, <1>2, <1>3, <1>4, <1>5, <1>6, <1>7, <1>8, <1>9, <1>10, <1>11, <1>12, <1>13, <1>14, <1>15, <1>16, <1>17, <1>18, <1>19, <1>20, <1>21 DEF Next, Completion, Handler


\* One thread visits the listeners and destroys none meanwhile.
LEMMA VisitsNext ==
  ASSUME ServerInv, SingleThread, VisitsLive, [Next]_vars
  PROVE  VisitsLive'
<1> USE DEF TimerKinds
<1>s. ShapeInv /\ LifeInv /\ TablesLive
  BY DEF ServerInv
<1>t. /\ peer \in [Conns -> {"absent", "up", "down"}]
      /\ socket \in [Conns -> {"none", "open", "closed"}]
      /\ read \in [Conns -> {"none", "pending", "ok", "error"}]
      /\ timer \in [Conns -> [TimerKinds -> TimerStates]]
      /\ stop \in [Conns -> BOOLEAN]
      /\ first \in [Conns -> BOOLEAN]
      /\ life \in [Conns -> {"none", "live", "gone"}]
      /\ DOMAIN thread = Threads
      /\ \A t \in Threads : thread[t].stage # "idle" => thread[t].conn \in Conns
  BY <1>s DEF ShapeInv, WorkOK
<1> USE <1>s, <1>t
<1>1. ASSUME NEW c \in Conns, ClientSend(c)
      PROVE  VisitsLive'
  BY <1>1 DEF ClientSend, client, ops, subscr, TablesLive, VisitsLive
<1>2. ASSUME NEW c \in Conns, ClientLeave(c)
      PROVE  VisitsLive'
  BY <1>2 DEF ClientLeave, client, ops, subscr, TablesLive, VisitsLive
<1>3. ASSUME NEW c \in Conns, ReadCompletes(c)
      PROVE  VisitsLive'
  BY <1>3 DEF ReadCompletes, client, ops, subscr, TablesLive, VisitsLive
<1>4. ASSUME NEW c \in Conns, WriteCompletes(c)
      PROVE  VisitsLive'
  BY <1>4 DEF WriteCompletes, client, ops, subscr, TablesLive, VisitsLive
<1>5. ASSUME NEW c \in Conns, NEW k \in TimerKinds, TimerExpires(c, k)
      PROVE  VisitsLive'
  BY <1>5 DEF TimerExpires, client, ops, subscr, TablesLive, VisitsLive
<1>6. ASSUME NEW t \in Threads, NEW c \in Conns, Accept(t, c)
      PROVE  VisitsLive'
  BY <1>6 DEF Accept, client, ops, subscr, TablesLive, VisitsLive
<1>7. ASSUME NEW t \in Threads, NEW c \in Conns, HandleRead(t, c)
      PROVE  VisitsLive'
  BY <1>7 DEF HandleRead, Begin, client, ops, subscr, TablesLive, VisitsLive
<1>8. ASSUME NEW t \in Threads, NEW c \in Conns, HandleReadError(t, c)
      PROVE  VisitsLive'
  BY <1>8 DEF HandleReadError, Begin, Handled, client, ops, subscr, TablesLive, VisitsLive
<1>9. ASSUME NEW t \in Threads, NEW c \in Conns, HandleWrite(t, c)
      PROVE  VisitsLive'
  BY <1>9 DEF HandleWrite, Begin, Handled, client, ops, subscr, TablesLive, VisitsLive
<1>10. ASSUME NEW t \in Threads, NEW c \in Conns, HandlePingReceive(t, c)
      PROVE  VisitsLive'
  BY <1>10 DEF HandlePingReceive, Handled, client, ops, subscr, TablesLive, VisitsLive
<1>11. ASSUME NEW t \in Threads, NEW c \in Conns, HandlePingSend(t, c)
      PROVE  VisitsLive'
  BY <1>11 DEF HandlePingSend, Handled, client, ops, subscr, TablesLive, VisitsLive
<1>12. ASSUME NEW t \in Threads, HandleOther(t)
      PROVE  VisitsLive'
  BY <1>12 DEF HandleOther, Current, Done, client, ops, subscr, TablesLive, VisitsLive
<1>13. ASSUME NEW t \in Threads, HandleSub(t)
      PROVE  VisitsLive'
  BY <1>13 DEF HandleSub, Current, Done, client, ops, subscr, TablesLive, VisitsLive
<1>14. ASSUME NEW t \in Threads, HandleUnSub(t)
      PROVE  VisitsLive'
  BY <1>14, SMTT(60) DEF HandleUnSub, Current, Done, client, ops, subscr, TablesLive, VisitsLive
<1>15. ASSUME NEW t \in Threads, HandlePub(t)
      PROVE  VisitsLive'
  BY <1>15 DEF HandlePub, Current, client, ops, subscr, TablesLive, VisitsLive
<1>16. ASSUME NEW t \in Threads, Visit(t)
      PROVE  VisitsLive'
  BY <1>16 DEF Visit, client, ops, subscr, TablesLive, VisitsLive
<1>17. ASSUME NEW t \in Threads, NotifyResults(t)
      PROVE  VisitsLive'
  BY <1>17 DEF NotifyResults, client, ops, subscr, TablesLive, VisitsLive
<1>18. ASSUME NEW t \in Threads, PubDone(t)
      PROVE  VisitsLive'
  BY <1>18 DEF PubDone, Done, client, ops, subscr, TablesLive, VisitsLive
<1>19. ASSUME NEW t \in Threads, ReadAgain(t)
      PROVE  VisitsLive'
  BY <1>19 DEF ReadAgain, Handled, client, ops, subscr, TablesLive, VisitsLive
<1>20. ASSUME NEW t \in Threads, HandlerEnds(t)
      PROVE  VisitsLive'
  <2>1. \A u \in Threads : u = t /\ thread'[u] = Idle
    BY <1>20 DEF HandlerEnds, SingleThread
  <2> QED
    BY <2>1 DEF VisitsLive, Idle
<1>21. CASE UNCHANGED vars
  BY <1>21 DEF vars, VisitsLive
<1> QED
  BY <1>1, <1>2, <1>3, <1>4, <1>5, <1>6, <1>7, <1>8, <1>9, <1>10, <1>11, <1>12, <1>13, <1>14, <1>15, <1>16, <1>17, <1>18, <1>19, <1>20, <1>21 DEF Next, Completion, Handler

-----------------------------------------------------------------------------
\* Every step keeps the invariant.
LEMMA ServerInvNext == ServerInv /\ [Next]_vars => ServerInv'
BY ShapeNext, LifeNext, ArmedNext, TablesNext DEF ServerInv

\* The invariant of every behaviour.
LEMMA ServerInvHolds == Spec => []ServerInv
<1>1. ServerInv /\ [Next]_vars => ServerInv'
  BY ServerInvNext
<1> QED
  BY <1>1, InitServerInv, PTL DEF Spec

\* A thread works only for a connection that exists and a connection that is
\* destroyed has no operation, timer or open socket left, for any number of
\* connections and io threads: the shared_ptr that every handler holds is enough.
THEOREM ServerTypeCorrect == Spec => []TypeOK
<1>1. ServerInv => TypeOK
  BY DEF ServerInv, ShapeInv, LifeInv, Quiet, TypeOK, TimerKinds
<1> QED
  BY <1>1, ServerInvHolds, PTL

\* No order of reads, writes, expirations, cancellations and restarts leaves an
\* open connection to a present client without a read or, with pings, without
\* its two timers, for any number of connections and io threads.
THEOREM WatchdogStaysArmed == Spec => []WatchdogArmed
<1>1. ServerInv => WatchdogArmed
  BY DEF ServerInv, ShapeInv, WorkOK, ArmedInv, WatchdogArmed
<1> QED
  BY <1>1, ServerInvHolds, PTL

\* The pointers in the subscription table and in the engine belong to the same
\* connections, and these exist and have subscribed, for any number of io threads.
THEOREM TablesStayLive == Spec => []TablesLive
<1>1. ServerInv => TablesLive
  BY DEF ServerInv
<1> QED
  BY <1>1, ServerInvHolds, PTL

\* With one io thread also a publication visits only listeners that exist: no
\* connection is destroyed between the copy of a table and the visit.
THEOREM ListenersStayLive == SingleThread => (Spec => []ListenersLive)
<1> SUFFICES ASSUME SingleThread PROVE Spec => []ListenersLive
  OBVIOUS
<1>1. Init => VisitsLive
  BY DEF Init, VisitsLive, Idle
<1>2. ServerInv /\ VisitsLive /\ [Next]_vars => VisitsLive'
  BY VisitsNext
<1>3. ServerInv /\ VisitsLive => ListenersLive
  BY DEF ServerInv, ListenersLive
<1> QED
  BY <1>1, <1>2, <1>3, ServerInvHolds, PTL DEF Spec
-----------------------------------------------------------------------------
(* What a subscription means: the server compares sequences of constraints,  *)
(* the history sets of them.                                               *)

\* A sequence without repetitions has as many elements as its length.
LEMMA DistinctCount ==
  ASSUME NEW q, Distinct(q)
  PROVE  /\ Len(q) \in Nat /\ DOMAIN q = 1 .. Len(q)
         /\ IsFiniteSet(ToSet(q)) /\ Cardinality(ToSet(q)) = Len(q)
<1>1. Len(q) \in Nat /\ DOMAIN q = 1 .. Len(q)
  BY RangeOf DEF Distinct, IsSeq
<1> DEFINE n == Len(q)
           T == ToSet(q)
           f == [i \in 1 .. n |-> q[i]]
<1>2. f \in [1 .. n -> T] /\ \A i \in 1 .. n : f[i] = q[i]
  BY <1>1 DEF ToSet
<1>3. \A a \in T : \E i \in 1 .. n : q[i] = a
  BY <1>1 DEF ToSet
<1>4. \A i, j \in 1 .. n : q[i] = q[j] => i = j
  BY <1>1 DEF Distinct
<1> HIDE DEF f, T, n
<1>5. f \in Bijection(1 .. n, T)
  BY <1>2, <1>3, <1>4 DEF Bijection, Injection, Surjection, IsInjective
<1>6. ExistsBijection(1 .. n, T) /\ n \in Nat
  BY <1>1, <1>5 DEF ExistsBijection, n
<1>7. IsFiniteSet(T) /\ Cardinality(T) = n
  BY <1>6, FS_CountingElements, FS_NatBijection
<1> QED
  BY <1>1, <1>7 DEF T, n

\* equals compares subscriptions by what they ask for.
LEMMA EqualsFilter ==
  ASSUME NEW a, NEW b, Distinct(a.constraints), Distinct(b.constraints)
  PROVE  Equals(a, b) <=> Filter(a) = Filter(b)
<1> DEFINE p == a.constraints
           q == b.constraints
<1>1. /\ Len(p) \in Nat /\ DOMAIN p = 1 .. Len(p) /\ IsFiniteSet(ToSet(p))
      /\ Cardinality(ToSet(p)) = Len(p)
  BY DistinctCount
<1>2. /\ Len(q) \in Nat /\ DOMAIN q = 1 .. Len(q) /\ IsFiniteSet(ToSet(q))
      /\ Cardinality(ToSet(q)) = Len(q)
  BY DistinctCount
<1>3. ToSet(p) \subseteq ToSet(q) <=> \A i \in DOMAIN p : \E j \in DOMAIN q : p[i] = q[j]
  BY DEF ToSet
<1>4. Filter(a) = Filter(b) <=> a.eventType = b.eventType /\ ToSet(p) = ToSet(q)
  BY DEF Filter
<1>5. Equals(a, b) <=> /\ a.eventType = b.eventType /\ Len(p) = Len(q)
                       /\ ToSet(p) \subseteq ToSet(q)
  BY <1>3 DEF Equals
<1> HIDE DEF p, q
<1>6. Len(p) = Len(q) /\ ToSet(p) \subseteq ToSet(q) => ToSet(p) = ToSet(q)
  <2> SUFFICES ASSUME Len(p) = Len(q), ToSet(p) \subseteq ToSet(q) PROVE ToSet(p) = ToSet(q)
    OBVIOUS
  <2>1. ToSet(p) \in SUBSET ToSet(q) /\ Cardinality(ToSet(q)) = Cardinality(ToSet(p))
    BY SMTT(60), <1>1, <1>2
  <2> QED
    BY <1>2, <2>1, FS_Subset
<1>7. ToSet(p) = ToSet(q) => Len(p) = Len(q)
  BY <1>1, <1>2
<1> QED
  BY <1>4, <1>5, <1>6, <1>7

\* The attribute that matches looks at is the only one of its name.
LEMMA AttributeFacts ==
  ASSUME NEW ev, EventOK(ev), NEW name
  PROVE  /\ AttributeOf(ev, name) # 0 => /\ AttributeOf(ev, name) \in DOMAIN ev.attributes
                                         /\ ev.attributes[AttributeOf(ev, name)].name = name
         /\ \A i \in DOMAIN ev.attributes :
              ev.attributes[i].name = name => AttributeOf(ev, name) = i /\ i # 0
<1> DEFINE q == ev.attributes
           I == {i \in 1 .. Len(q) : q[i].name = name}
<1>1. Len(q) \in Nat /\ DOMAIN q = 1 .. Len(q)
  BY RangeOf DEF EventOK, IsSeq
<1>2. AttributeOf(ev, name) = IF I # {} THEN Min(I) ELSE 0
  BY DEF AttributeOf, SelectInSeq
<1>3. I \subseteq Nat
  BY <1>1
<1>4. I # {} => Min(I) \in I
  BY <1>3, MinLeast
<1>5. \A i, j \in I : i = j
  BY <1>1 DEF EventOK
<1>6. \A i \in I : i \in DOMAIN q /\ q[i].name = name /\ i # 0
  BY <1>1
<1>7. \A i \in DOMAIN q : q[i].name = name => i \in I
  BY <1>1
<1> HIDE DEF q, I
<1>8. /\ AttributeOf(ev, name) # 0 => AttributeOf(ev, name) \in I
      /\ \A i \in I : AttributeOf(ev, name) = i
  BY <1>2, <1>4, <1>5
<1>9. /\ AttributeOf(ev, name) # 0 => /\ AttributeOf(ev, name) \in DOMAIN q
                                      /\ q[AttributeOf(ev, name)].name = name
      /\ \A i \in DOMAIN q : q[i].name = name => AttributeOf(ev, name) = i /\ i # 0
  BY <1>6, <1>7, <1>8
<1> QED
  BY <1>9 DEF q

\* matches and the meaning of the subscription agree.
LEMMA MatchesPasses ==
  ASSUME NEW sub, NEW ev, EventOK(ev)
  PROVE  Matches(sub, ev) <=> Passes(Filter(sub), ev)
<1> DEFINE p == sub.constraints
           q == ev.attributes
           At(name) == AttributeOf(ev, name)
           Hit(k) == At(k.name) # 0 /\ MatchesConstraint(k, q[At(k.name)])
           Some(k) == \E a \in ToSet(q) : MatchesConstraint(k, a)
<1>1. ASSUME NEW k PROVE Hit(k) <=> Some(k)
  <2>1. Hit(k) => Some(k)
    BY AttributeFacts DEF ToSet
  <2>2. ASSUME NEW a \in ToSet(q), MatchesConstraint(k, a) PROVE Hit(k)
    <3>1. PICK i \in DOMAIN q : q[i] = a
      BY DEF ToSet
    <3>2. k.name = q[i].name
      BY <2>2, <3>1 DEF MatchesConstraint
    <3>3. At(k.name) = i /\ i # 0
      BY <3>2, AttributeFacts
    <3> QED
      BY <2>2, <3>1, <3>3
  <2> QED
    BY <2>1, <2>2
<1>2. Matches(sub, ev) <=> ev.eventType = sub.eventType /\ \A i \in DOMAIN p : Hit(p[i])
  BY DEF Matches
<1>3. Passes(Filter(sub), ev) <=> ev.eventType = sub.eventType /\ \A k \in ToSet(p) : Some(k)
  BY DEF Passes, Filter
<1>4. (\A i \in DOMAIN p : Hit(p[i])) <=> \A k \in ToSet(p) : Hit(k)
  BY DEF ToSet
<1> HIDE DEF Hit, Some, p
<1> QED
  BY <1>1, <1>2, <1>3, <1>4

-----------------------------------------------------------------------------
(* The subscriptions of a connection.                                      *)

\* The elements of subs ask for different things.
ListOK(list) ==
  /\ IsSeq(list)
  /\ \A i \in DOMAIN list :
       /\ list[i] = [sub |-> list[i].sub, alive |-> list[i].alive]
       /\ Distinct(list[i].sub.constraints)
  /\ \A i, j \in DOMAIN list : Filter(list[i].sub) = Filter(list[j].sub) => i = j

Filters(list) == {Filter(list[i].sub) : i \in DOMAIN list}

\* The positions of a list are an interval.
LEMMA ListFacts ==
  ASSUME NEW list, ListOK(list)
  PROVE  Len(list) \in Nat /\ DOMAIN list = 1 .. Len(list)
BY RangeOf DEF ListOK, IsSeq

\* As many subscriptions of a list match an event as filters pass it.
LEMMA CountsAgree ==
  ASSUME NEW list, ListOK(list), \A i \in DOMAIN list : list[i].alive,
         NEW ev, EventOK(ev), NEW undef
  PROVE  /\ Cardinality({k \in DOMAIN list : Wants(list[k], ev, undef)})
              = Cardinality({f \in Filters(list) : Passes(f, ev)})
         /\ Cardinality({f \in Filters(list) : Passes(f, ev)}) \in Nat
<1> DEFINE S == {k \in DOMAIN list : Wants(list[k], ev, undef)}
           T == {f \in Filters(list) : Passes(f, ev)}
           g == [k \in S |-> Filter(list[k].sub)]
<1>1. \A k \in DOMAIN list : Wants(list[k], ev, undef) <=> Passes(Filter(list[k].sub), ev)
  BY MatchesPasses DEF Wants
<1>2. g \in [S -> T] /\ \A k \in S : g[k] = Filter(list[k].sub)
  BY <1>1 DEF Filters
<1>3. \A f \in T : \E k \in S : f = Filter(list[k].sub)
  BY <1>1 DEF Filters
<1>4. \A i, j \in S : Filter(list[i].sub) = Filter(list[j].sub) => i = j
  BY DEF ListOK
<1>5. IsFiniteSet(S)
  <2>1. IsFiniteSet(1 .. Len(list))
    BY ListFacts, FS_Interval
  <2>2. S \in SUBSET (1 .. Len(list))
    BY ListFacts
  <2> QED
    BY <2>1, <2>2, FS_Subset
<1> HIDE DEF g, S, T
<1>6. g \in Bijection(S, T)
  BY <1>2, <1>3, <1>4 DEF Bijection, Injection, Surjection, IsInjective
<1>7. ExistsBijection(S, T)
  BY <1>6 DEF ExistsBijection
<1>8. IsFiniteSet(T) /\ Cardinality(T) = Cardinality(S)
  BY <1>5, <1>7, FS_Bijection
<1>9. Cardinality(T) \in Nat
  BY <1>8, FS_CardinalityType
<1> QED
  BY <1>8, <1>9 DEF S, T

\* Repeated events are a sequence.
LEMMA RepeatedSeq ==
  ASSUME NEW events, IsSeq(events), NEW count, \A i \in DOMAIN events : count[i] \in Nat
  PROVE  IsSeq(Repeated(events, count))
<1> DEFINE S == Range(events)
           q == [i \in DOMAIN events |-> [j \in 1 .. count[i] |-> events[i]]]
<1>1. Len(events) \in Nat /\ DOMAIN events = 1 .. Len(events)
      /\ \A i \in 1 .. Len(events) : events[i] \in S
  BY RangeOf DEF IsSeq
<1> HIDE DEF S
<1>2. ASSUME NEW i \in 1 .. Len(events) PROVE [j \in 1 .. count[i] |-> events[i]] \in Seq(S)
  <2>1. count[i] \in Nat /\ events[i] \in S
    BY <1>1
  <2> QED
    BY <2>1
<1>3. q \in Seq(Seq(S))
  BY <1>1, <1>2
<1>4. FlattenSeq(q) \in Seq(S)
  BY <1>3, FlattenFacts
<1>5. Repeated(events, count) = FlattenSeq(q)
  BY DEF Repeated
<1> HIDE DEF q
<1> DEFINE r == Repeated(events, count)
<1>6. /\ r \in Seq(S) /\ Len(r) \in Nat /\ r = [i \in 1 .. Len(r) |-> r[i]]
      /\ \A i \in 1 .. Len(r) : r[i] \in Range(r)
  BY <1>4, <1>5, RangeOf
<1> HIDE DEF r
<1>7. r \in Seq(Range(r))
  BY <1>6
<1> QED
  BY <1>7 DEF IsSeq, r

\* Events that nobody wants.
LEMMA RepeatedNone ==
  ASSUME NEW events, IsSeq(events), NEW count, \A i \in DOMAIN events : count[i] = 0
  PROVE  Repeated(events, count) = <<>>
<1> DEFINE N == Len(events)
           q == [i \in DOMAIN events |-> [j \in 1 .. count[i] |-> events[i]]]
<1>1. N \in Nat /\ DOMAIN events = 1 .. N
  BY RangeOf DEF IsSeq
<1>2. \A i \in 1 .. N : q[i] = <<>>
  BY <1>1
<1>3. q = [i \in 1 .. N |-> q[i]] /\ Len(q) = N
  BY <1>1
<1>4. Repeated(events, count) = FlattenSeq(q)
  BY DEF Repeated
<1> HIDE DEF q, N
<1>5. CASE N = 0
  <2>1. q = <<>>
    BY <1>3, <1>5
  <2> QED
    BY <1>3, <1>4, <1>5, <2>1 DEF FlattenSeq
<1>6. CASE N # 0
  <2> DEFINE Eq(g) == g = [i \in 1 .. Len(q) |-> IF i = 1 THEN q[i] ELSE g[i - 1] \o q[i]]
             h == CHOOSE g : Eq(g)
             e == [i \in 1 .. N |-> <<>>]
  <2>1. FlattenSeq(q) = h[N]
    BY <1>3, <1>6 DEF FlattenSeq
  <2>2. Eq(e)
    <3>1. ASSUME NEW i \in 1 .. N PROVE e[i] = IF i = 1 THEN q[i] ELSE e[i - 1] \o q[i]
      <4>1. CASE i = 1
        BY <1>2, <4>1
      <4>2. CASE i # 1
        <5>1. i - 1 \in 1 .. N
          BY <1>1, <4>2
        <5>2. e[i - 1] = <<>> /\ e[i] = <<>> /\ q[i] = <<>>
          BY <1>2, <5>1
        <5>3. <<>> \o <<>> = <<>>
          OBVIOUS
        <5> QED
          BY <4>2, <5>2, <5>3
      <4> QED
        BY <4>1, <4>2
    <3>2. e = [i \in 1 .. N |-> e[i]]
      BY Zenon
    <3> HIDE DEF e
    <3> QED
      BY <1>3, <3>1, <3>2
  <2>3. Eq(h)
    BY <2>2
  <2> HIDE DEF h
  <2>4. ASSUME NEW i \in 1 .. N PROVE h[i] = IF i = 1 THEN q[i] ELSE h[i - 1] \o q[i]
    BY <1>3, <2>3
  <2> DEFINE T == {0} \cup {i \in 1 .. N : h[i] = <<>>}
  <2>5. ASSUME NEW i \in 1 .. N, i - 1 \in T PROVE i \in T
    <3>1. CASE i = 1
      BY <1>2, <2>4, <3>1
    <3>2. CASE i # 1
      <4>1. h[i - 1] = <<>> /\ q[i] = <<>>
        BY <1>2, <2>5, <3>2
      <4>2. <<>> \o <<>> = <<>>
        OBVIOUS
      <4> QED
        BY <2>4, <3>2, <4>1, <4>2
    <3> QED
      BY <3>1, <3>2
  <2>6. 0 \in T
    OBVIOUS
  <2> HIDE DEF T
  <2>7. \A i \in 0 .. N : i \in T
    BY <1>1, <2>5, <2>6, Upward
  <2>8. N \in T /\ N # 0
    BY <1>1, <1>6, <2>7
  <2> QED
    BY <1>4, <2>1, <2>8 DEF T
<1> QED
  BY <1>5, <1>6

\* A function on an initial interval is a sequence.
LEMMA FunSeq ==
  ASSUME NEW n \in Nat, NEW q, q = [i \in 1 .. n |-> q[i]]
  PROVE  IsSeq(q) /\ Len(q) = n /\ DOMAIN q = 1 .. n
<1>1. DOMAIN q = 1 .. n
  BY Zenon
<1>2. \A i \in 1 .. n : q[i] \in Range(q)
  BY <1>1 DEF Range
<1> DEFINE R == Range(q)
<1> HIDE DEF R
<1>3. q \in [1 .. n -> R]
  BY <1>2, Zenon DEF R
<1>4. q \in Seq(R) /\ Len(q) = n
  BY <1>3
<1> QED
  BY <1>1, <1>4 DEF IsSeq, R

\* A concatenation of sequences is one, and nothing is added by an empty one.
LEMMA ConcatSeq ==
  ASSUME NEW a, IsSeq(a)
  PROVE  a \o <<>> = a /\ \A b : IsSeq(b) => IsSeq(a \o b)
<1>1. a \o <<>> = a
  BY DEF IsSeq
<1>2. ASSUME NEW b, IsSeq(b) PROVE IsSeq(a \o b)
  <2> DEFINE S == Range(a) \cup Range(b)
  <2>1. a \in Seq(S) /\ b \in Seq(S)
    <3>1. /\ a \in Seq(Range(a)) /\ b \in Seq(Range(b))
          /\ \A i \in 1 .. Len(a) : a[i] \in Range(a)
          /\ \A i \in 1 .. Len(b) : b[i] \in Range(b)
      BY <1>2, RangeOf DEF IsSeq
    <3> QED
      BY <3>1
  <2> HIDE DEF S
  <2> DEFINE r == a \o b
  <2>2. r \in Seq(S)
    BY <2>1
  <2> HIDE DEF r
  <2>3. Len(r) \in Nat /\ r = [i \in 1 .. Len(r) |-> r[i]]
    BY <2>2
  <2>4. IsSeq(r)
    BY <2>3, FunSeq
  <2> QED
    BY <2>4 DEF r
<1> QED
  BY <1>1, <1>2

\* What a connection writes for some events is what its client is to be sent.
LEMMA OutgoingIsDeserved ==
  ASSUME NEW c, ListOK(subs[c]), asked[c] = Filters(subs[c]),
         \A i \in DOMAIN subs[c] : subs[c][i].alive,
         NEW evs, EventsOK(evs), NEW undef
  PROVE  Outgoing(c, evs, undef) = Deserved(asked[c], evs) /\ IsSeq(Deserved(asked[c], evs))
<1> DEFINE wants == [i \in DOMAIN evs |->
                      Cardinality({k \in DOMAIN subs[c] : Wants(subs[c][k], evs[i], undef)})]
           passes == [i \in DOMAIN evs |->
                      Cardinality({f \in asked[c] : Passes(f, evs[i])})]
<1>1. ASSUME NEW i \in DOMAIN evs
      PROVE  /\ Cardinality({k \in DOMAIN subs[c] : Wants(subs[c][k], evs[i], undef)})
                  = Cardinality({f \in asked[c] : Passes(f, evs[i])})
             /\ Cardinality({f \in asked[c] : Passes(f, evs[i])}) \in Nat
  <2>1. EventOK(evs[i])
    BY DEF EventsOK
  <2> DEFINE list == subs[c]
             ev == evs[i]
  <2>2. ListOK(list) /\ (\A j \in DOMAIN list : list[j].alive) /\ EventOK(ev)
    BY <2>1
  <2> HIDE DEF list, ev
  <2>3. /\ Cardinality({k \in DOMAIN list : Wants(list[k], ev, undef)})
             = Cardinality({f \in Filters(list) : Passes(f, ev)})
        /\ Cardinality({f \in Filters(list) : Passes(f, ev)}) \in Nat
    BY ZenonT(60), <2>2, CountsAgree
  <2> QED
    BY <2>3 DEF list, ev
<1>2. wants = passes /\ \A i \in DOMAIN evs : passes[i] \in Nat
  BY <1>1
<1>3. Outgoing(c, evs, undef) = Repeated(evs, wants)
  BY DEF Outgoing
<1>4. Deserved(asked[c], evs) = Repeated(evs, passes)
  BY DEF Deserved
<1> HIDE DEF wants, passes
<1>5. IsSeq(Repeated(evs, passes))
  BY <1>2, RepeatedSeq DEF EventsOK
<1> QED
  BY <1>2, <1>3, <1>4, <1>5

\* Who has not subscribed is sent nothing.
LEMMA DeservedNone ==
  ASSUME NEW evs, EventsOK(evs)
  PROVE  Deserved({}, evs) = <<>>
<1> DEFINE passes == [i \in DOMAIN evs |-> Cardinality({f \in {} : Passes(f, evs[i])})]
<1>1. \A i \in DOMAIN evs : passes[i] = 0
  <2>1. \A i \in DOMAIN evs : {f \in {} : Passes(f, evs[i])} = {}
    OBVIOUS
  <2>2. Cardinality({}) = 0
    BY FS_EmptySet
  <2> QED
    BY <2>1, <2>2
<1>2. Deserved({}, evs) = Repeated(evs, passes)
  BY DEF Deserved
<1> HIDE DEF passes
<1> QED
  BY <1>1, <1>2, RepeatedNone DEF EventsOK

\* A new subscription.
LEMMA AddedOK ==
  ASSUME NEW list, ListOK(list), \A i \in DOMAIN list : list[i].alive,
         NEW sub, Distinct(sub.constraints), NEW undef
  PROVE  /\ ListOK(Added(list, sub, undef))
         /\ Filters(Added(list, sub, undef)) = Filters(list) \cup {Filter(sub)}
<1>1. \A i \in DOMAIN list : IsSub(list[i], sub, undef) <=> Filter(list[i].sub) = Filter(sub)
  BY EqualsFilter DEF IsSub, ListOK
<1>2. CASE \E i \in DOMAIN list : IsSub(list[i], sub, undef)
  <2>1. Added(list, sub, undef) = list
    BY <1>2 DEF Added
  <2>2. Filter(sub) \in Filters(list)
    BY <1>1, <1>2 DEF Filters
  <2> QED
    BY <2>1, <2>2
<1>3. CASE ~\E i \in DOMAIN list : IsSub(list[i], sub, undef)
  <2> DEFINE e == [sub |-> sub, alive |-> TRUE]
             r == Append(list, e)
             n == Len(list)
  <2>1. Added(list, sub, undef) = r
    BY <1>3 DEF Added
  <2>2. n \in Nat /\ DOMAIN list = 1 .. n
    BY ListFacts
  <2>3. /\ IsSeq(r) /\ DOMAIN r = 1 .. n + 1 /\ r[n + 1] = e
        /\ \A i \in 1 .. n : r[i] = list[i]
    BY AppendFacts DEF IsSeq, ListOK
  <2>4. e = [sub |-> e.sub, alive |-> e.alive] /\ e.sub = sub
    OBVIOUS
  <2> HIDE DEF r, e, n
  <2>5. \A i \in 1 .. n + 1 : i = n + 1 \/ i \in 1 .. n
    BY <2>2
  <2>6. \A i \in 1 .. n : i \in 1 .. n + 1 /\ n + 1 \in 1 .. n + 1
    BY <2>2
  <2>7. ListOK(r)
    <3>1. ASSUME NEW i \in DOMAIN r
          PROVE  r[i] = [sub |-> r[i].sub, alive |-> r[i].alive] /\ Distinct(r[i].sub.constraints)
      BY <2>2, <2>3, <2>4, <2>5, Zenon DEF ListOK
    <3>2. ASSUME NEW i \in DOMAIN r, NEW j \in DOMAIN r, Filter(r[i].sub) = Filter(r[j].sub)
          PROVE  i = j
      <4>1. \A k \in 1 .. n : r[k].sub = list[k].sub /\ Filter(list[k].sub) # Filter(sub)
        BY <1>1, <1>3, <2>2, <2>3
      <4>2. r[n + 1].sub = sub
        BY <2>3, <2>4
      <4>3. \A k, l \in 1 .. n : Filter(list[k].sub) = Filter(list[l].sub) => k = l
        BY <2>2 DEF ListOK
      <4>4. CASE i = n + 1
        BY <2>3, <2>5, <3>2, <4>1, <4>2, <4>4
      <4>5. CASE i \in 1 .. n /\ j = n + 1
        BY <3>2, <4>1, <4>2, <4>5
      <4>6. CASE i \in 1 .. n /\ j \in 1 .. n
        BY <3>2, <4>1, <4>3, <4>6
      <4> QED
        BY <2>3, <2>5, <4>4, <4>5, <4>6
    <3> QED
      BY <2>3, <3>1, <3>2 DEF ListOK
  <2>8. Filters(r) = Filters(list) \cup {Filter(sub)}
    <3>1. \A f \in Filters(r) : f \in Filters(list) \cup {Filter(sub)}
      BY <2>2, <2>3, <2>4, <2>5 DEF Filters
    <3>2. \A f \in Filters(list) : f \in Filters(r)
      BY <2>2, <2>3, <2>6 DEF Filters
    <3>3. Filter(sub) \in Filters(r)
      <4>1. n + 1 \in DOMAIN r
        BY <2>2, <2>3
      <4> QED
        BY <2>3, <2>4, <4>1 DEF Filters
    <3> QED
      BY <3>1, <3>2, <3>3
  <2> QED
    BY <2>1, <2>7, <2>8
<1> QED
  BY <1>2, <1>3

\* An element less: every other one keeps its place among them and its subscription.
LEMMA ErasedOK ==
  ASSUME NEW list, ListOK(list), NEW i \in DOMAIN list
  PROVE  /\ ListOK(Erased(list, i))
         /\ Filters(Erased(list, i)) = Filters(list) \ {Filter(list[i].sub)}
<1> DEFINE n == Len(list)
           r == Erased(list, i)
           freed == i < n /\ list[n].sub.constraints # <<>>
           Old(k) == IF k < i THEN k ELSE k + 1
           New(e, k) == IF freed /\ k = n - 1 THEN [e EXCEPT !.alive = FALSE] ELSE e
<1>1. n \in Nat /\ DOMAIN list = 1 .. n /\ i \in 1 .. n /\ n - 1 \in Nat
  BY ListFacts
<1>2. r = [k \in 1 .. n - 1 |-> New(list[Old(k)], k)]
  BY DEF Erased
<1>3. ASSUME NEW e, e = [sub |-> e.sub, alive |-> e.alive], NEW k
      PROVE  New(e, k) = [sub |-> New(e, k).sub, alive |-> New(e, k).alive] /\ New(e, k).sub = e.sub
  <2> DEFINE s == e.sub
             a == e.alive
             no == FALSE
             d == [e EXCEPT !.alive = no]
  <2>1. e = [sub |-> s, alive |-> a]
    BY <1>3
  <2> HIDE DEF s, a, no
  <2>2. d = [sub |-> s, alive |-> no]
    BY <2>1
  <2> HIDE DEF d
  <2>3. d.sub = s /\ d.alive = no /\ d = [sub |-> d.sub, alive |-> d.alive]
    BY <2>2
  <2> HIDE DEF freed
  <2>4. New(e, k) = d \/ New(e, k) = e
    BY Zenon DEF d, no
  <2> QED
    BY <1>3, <2>3, <2>4 DEF s
<1> HIDE DEF New
<1>4. \A k \in 1 .. n - 1 : Old(k) \in 1 .. n /\ Old(k) # i
  BY <1>1
<1>5. \A k, l \in 1 .. n - 1 : Old(k) = Old(l) => k = l
  BY <1>1
<1>6. \A j \in 1 .. n : j # i => \E k \in 1 .. n - 1 : Old(k) = j
  <2> SUFFICES ASSUME NEW j \in 1 .. n, j # i PROVE \E k \in 1 .. n - 1 : Old(k) = j
    OBVIOUS
  <2> DEFINE m == IF j < i THEN j ELSE j - 1
  <2>1. m \in 1 .. n - 1 /\ Old(m) = j
    BY <1>1
  <2> QED
    BY <2>1
<1> HIDE DEF Old
<1>7. ASSUME NEW k \in 1 .. n - 1
      PROVE  r[k].sub = list[Old(k)].sub /\ r[k] = [sub |-> r[k].sub, alive |-> r[k].alive]
  <2>1. r[k] = New(list[Old(k)], k)
    BY <1>2
  <2>2. list[Old(k)] = [sub |-> list[Old(k)].sub, alive |-> list[Old(k)].alive]
    BY <1>1, <1>4 DEF ListOK
  <2> QED
    BY <1>3, <2>1, <2>2
<1>8. r = [k \in 1 .. n - 1 |-> r[k]]
  BY <1>2
<1> HIDE DEF r
<1>9. IsSeq(r) /\ DOMAIN r = 1 .. n - 1
  BY <1>1, <1>8, FunSeq
<1> HIDE DEF n
<1>10. ListOK(r)
  <2>1. \A j, l \in 1 .. n : Filter(list[j].sub) = Filter(list[l].sub) => j = l
    BY <1>1 DEF ListOK
  <2>2. \A j \in 1 .. n : Distinct(list[j].sub.constraints)
    BY <1>1 DEF ListOK
  <2>3. \A k, l \in 1 .. n - 1 : Filter(r[k].sub) = Filter(r[l].sub) => k = l
    <3> TAKE k, l \in 1 .. n - 1
    <3> HAVE Filter(r[k].sub) = Filter(r[l].sub)
    <3>1. Old(k) \in 1 .. n /\ Old(l) \in 1 .. n
      BY <1>4
    <3>2. r[k].sub = list[Old(k)].sub /\ r[l].sub = list[Old(l)].sub
      BY <1>7
    <3>3. Old(k) = Old(l)
      BY <2>1, <3>1, <3>2
    <3> QED
      BY <1>5, <3>3
  <2>4. \A k \in 1 .. n - 1 : Distinct(r[k].sub.constraints)
    BY <1>4, <1>7, <2>2
  <2> QED
    BY <1>7, <1>9, <2>3, <2>4 DEF ListOK
<1>11. Filters(r) = Filters(list) \ {Filter(list[i].sub)}
  <2>1. \A f \in Filters(r) : f \in Filters(list) /\ f # Filter(list[i].sub)
    <3>1. \A j \in 1 .. n : Filter(list[j].sub) = Filter(list[i].sub) => j = i
      BY <1>1 DEF ListOK
    <3>2. \A k \in 1 .. n - 1 :
            Filter(r[k].sub) = Filter(list[Old(k)].sub) /\ Old(k) \in 1 .. n /\ Old(k) # i
      BY <1>4, <1>7
    <3> QED
      BY <1>1, <1>9, <3>1, <3>2 DEF Filters
  <2>2. ASSUME NEW f \in Filters(list), f # Filter(list[i].sub) PROVE f \in Filters(r)
    <3>1. PICK j \in 1 .. n : f = Filter(list[j].sub)
      BY <1>1 DEF Filters
    <3>2. PICK k \in 1 .. n - 1 : Old(k) = j
      BY <1>6, <2>2, <3>1
    <3>3. f = Filter(r[k].sub)
      BY <1>7, <3>1, <3>2
    <3> QED
      BY <1>9, <3>3 DEF Filters
  <2> QED
    BY <2>1, <2>2
<1> QED
  BY <1>10, <1>11 DEF r

\* The end of a subscription.
LEMMA RemovedOK ==
  ASSUME NEW list, ListOK(list), \A i \in DOMAIN list : list[i].alive,
         NEW sub, Distinct(sub.constraints), NEW undef
  PROVE  /\ ListOK(Removed(list, sub, undef))
         /\ Filters(Removed(list, sub, undef)) = Filters(list) \ {Filter(sub)}
<1>1. \A i \in DOMAIN list : IsSub(list[i], sub, undef) <=> Filter(list[i].sub) = Filter(sub)
  BY EqualsFilter DEF IsSub, ListOK
<1> DEFINE n == Len(list)
           I == {i \in 1 .. n : IsSub(list[i], sub, undef)}
           m == Position(list, sub, undef)
<1>2. n \in Nat /\ DOMAIN list = 1 .. n
  BY ListFacts
<1>3. m = IF I # {} THEN Min(I) ELSE 0
  BY DEF Position, SelectInSeq
<1>4. I \subseteq Nat
  BY <1>2
<1>5. \A i \in I : i \in 1 .. n /\ i # 0 /\ IsSub(list[i], sub, undef)
  BY <1>2
<1>6. \A i \in 1 .. n : IsSub(list[i], sub, undef) => i \in I
  OBVIOUS
<1>7. Removed(list, sub, undef) = IF m = 0 THEN list ELSE Erased(list, m)
  BY DEF Removed
<1> HIDE DEF I, m, n
<1>8. CASE I = {}
  <2>1. Removed(list, sub, undef) = list
    BY <1>3, <1>7, <1>8
  <2>2. Filter(sub) \notin Filters(list)
    BY <1>1, <1>2, <1>6, <1>8 DEF Filters
  <2> QED
    BY <2>1, <2>2
<1>9. CASE I # {}
  <2>1. m \in I
    BY <1>3, <1>4, <1>9, MinLeast
  <2>2. m \in DOMAIN list /\ m # 0 /\ Filter(list[m].sub) = Filter(sub)
    BY <1>1, <1>2, <1>5, <2>1
  <2>3. Removed(list, sub, undef) = Erased(list, m)
    BY <1>7, <2>2
  <2> QED
    BY <2>2, <2>3, ErasedOK
<1> QED
  BY <1>8, <1>9

-----------------------------------------------------------------------------
(* Delivery.                                                               *)

\* Every packet on its way to a handler, or in its hands, is one of a script.
FlightInv ==
  /\ DOMAIN script = Conns /\ DOMAIN inbox = Conns /\ DOMAIN rbuf = Conns
  /\ \A c \in Conns : PacketsOK(script[c]) /\ PacketsOK(inbox[c]) /\ PacketsOK(rbuf[c])
  /\ \A t \in Threads : thread[t].stage \in {"packets", "table", "engine"} =>
       PacketsOK(thread[t].pkts)

\* The server's subscriptions are those that the client has made, and a connection
\* that has one is a listener.
AskedInv ==
  /\ DOMAIN subs = Conns /\ DOMAIN asked = Conns
  /\ \A c \in Conns :
       /\ ListOK(subs[c]) /\ asked[c] = Filters(subs[c])
       /\ subs[c] # <<>> => first[c]
       /\ first[c] /\ life[c] = "live" => c \in table

Busy(t) == thread[t].stage \in {"table", "engine"}

Reached(c) == life[c] = "live" /\ socket[c] = "open"

\* What a connection will have been told to write when thread t has made its round,
\* and when it has made also the one after it.
AfterRound(t, c) ==
  IF c \in thread[t].list /\ Reached(c) THEN sent[c] \o Deserved(asked[c], thread[t].events)
  ELSE sent[c]

Due(t, c) ==
  IF thread[t].stage = "table" /\ c \in table /\ Reached(c)
  THEN AfterRound(t, c) \o Deserved(asked[c], Results(Head(thread[t].pkts).pub))
  ELSE AfterRound(t, c)

\* What the client should be sent is what has been written, or what is due.
DeliverInv ==
  /\ sent = [c \in Conns |-> sent[c]] /\ want = [c \in Conns |-> want[c]]
  /\ \A c \in Conns : IsSeq(sent[c])
  /\ (\A t \in Threads : ~Busy(t)) => \A c \in Conns : want[c] = sent[c]
  /\ \A t \in Threads : Busy(t) =>
       /\ thread[t].pkts # <<>> /\ Head(thread[t].pkts).pkt = "PUB"
       /\ EventsOK(thread[t].events)
       /\ thread[t].list \subseteq table
       /\ \A c \in Conns : want[c] = Due(t, c)

\* A step that leaves the subscriptions, the listeners and the lives alone.
LEMMA AskedSame ==
  ASSUME AskedInv, UNCHANGED <<subs, asked, first, life, table>>
  PROVE  AskedInv'
BY DEF AskedInv, ListOK, Filters

\* The parts of a sequence of packets.
LEMMA PacketsParts ==
  ASSUME NEW q, PacketsOK(q)
  PROVE  /\ q # <<>> => PacketOK(Head(q)) /\ PacketsOK(Tail(q))
         /\ \A n \in 1 .. Len(q) : PacketsOK(SubSeq(q, 1, n)) /\ PacketsOK(SubSeq(q, n + 1, Len(q)))
         /\ \A p : PacketOK(p) => PacketsOK(Append(q, p))
<1> DEFINE N == Len(q)
<1>1. q \in Seq(Range(q)) /\ N \in Nat /\ DOMAIN q = 1 .. N
  BY RangeOf DEF PacketsOK, IsSeq
<1>2. \A i \in 1 .. N : PacketOK(q[i])
  BY <1>1 DEF PacketsOK
<1>3. ASSUME q # <<>> PROVE PacketOK(Head(q)) /\ PacketsOK(Tail(q))
  <2> DEFINE r == Tail(q)
  <2>1. N # 0 /\ Head(q) = q[1]
    BY <1>1, <1>3
  <2>2. N - 1 \in Nat /\ 1 \in 1 .. N
    BY <1>1, <2>1
  <2>r. r \in Seq(Range(q)) /\ Len(r) = N - 1 /\ \A i \in 1 .. Len(r) : r[i] = q[i + 1]
    BY <1>1, <1>3, HeadTailProperties
  <2> HIDE DEF r
  <2>3. r = [i \in 1 .. N - 1 |-> r[i]] /\ \A i \in 1 .. N - 1 : r[i] = q[i + 1]
    BY <2>r
  <2>4. \A i \in 1 .. N - 1 : i + 1 \in 1 .. N
    BY <1>1
  <2> HIDE DEF N
  <2>5. IsSeq(r) /\ DOMAIN r = 1 .. N - 1
    BY <2>2, <2>3, FunSeq
  <2>6. PacketsOK(r)
    BY <1>2, <2>3, <2>4, <2>5 DEF PacketsOK
  <2> QED
    BY <1>2, <2>1, <2>2, <2>6 DEF r
<1>4. ASSUME NEW n \in 1 .. N
      PROVE  PacketsOK(SubSeq(q, 1, n)) /\ PacketsOK(SubSeq(q, n + 1, N))
  <2> DEFINE r == SubSeq(q, 1, n)
             s == SubSeq(q, n + 1, N)
  <2>1. n \in Nat /\ N - n \in Nat
    BY <1>1
  <2>2. r = [i \in 1 .. n |-> r[i]] /\ \A i \in 1 .. n : r[i] = q[i]
    BY <1>1
  <2>3. s = [i \in 1 .. N - n |-> s[i]] /\ \A i \in 1 .. N - n : s[i] = q[n + i]
    BY <1>1
  <2>4. (\A i \in 1 .. n : i \in 1 .. N) /\ (\A i \in 1 .. N - n : n + i \in 1 .. N)
    BY <1>1
  <2> HIDE DEF r, s, N
  <2>5. IsSeq(r) /\ DOMAIN r = 1 .. n /\ IsSeq(s) /\ DOMAIN s = 1 .. N - n
    BY <2>1, <2>2, <2>3, FunSeq
  <2>6. PacketsOK(r) /\ PacketsOK(s)
    BY <1>2, <2>2, <2>3, <2>4, <2>5 DEF PacketsOK
  <2> QED
    BY <2>6 DEF r, s
<1>5. ASSUME NEW p, PacketOK(p) PROVE PacketsOK(Append(q, p))
  <2> DEFINE r == Append(q, p)
  <2>1. /\ IsSeq(r) /\ DOMAIN r = 1 .. N + 1 /\ r[N + 1] = p
        /\ \A i \in 1 .. N : r[i] = q[i]
    BY <1>1, AppendFacts DEF IsSeq
  <2>2. \A i \in 1 .. N + 1 : i = N + 1 \/ i \in 1 .. N
    BY <1>1
  <2> HIDE DEF r, N
  <2>3. PacketsOK(r)
    BY <1>2, <1>5, <2>1, <2>2 DEF PacketsOK
  <2> QED
    BY <2>3 DEF r
<1> QED
  BY <1>3, <1>4, <1>5

\* A step of one thread that takes no packet from the network.
LEMMA FlightThread ==
  ASSUME FlightInv, DOMAIN thread = Threads, NEW t \in Threads, NEW w,
         thread' = [thread EXCEPT ![t] = w],
         w.stage \in {"packets", "table", "engine"} => PacketsOK(w.pkts),
         UNCHANGED <<script, inbox, rbuf>>
  PROVE  FlightInv'
<1>1. \A u \in Threads : thread'[u] = w \/ thread'[u] = thread[u]
  BY Zenon
<1> QED
  BY <1>1, Zenon DEF FlightInv

\* The step of a thread that ends a handler.
LEMMA FlightHandled ==
  ASSUME FlightInv, DOMAIN thread = Threads, NEW t \in Threads, NEW c, NEW strand,
         Handled(t, c, strand), UNCHANGED <<script, inbox, rbuf>>
  PROVE  FlightInv'
<1> DEFINE w == [stage |-> "end", conn |-> c, strand |-> strand]
<1>1. thread' = [thread EXCEPT ![t] = w] /\ w.stage \notin {"packets", "table", "engine"}
  BY DEF Handled
<1> HIDE DEF w
<1> QED
  BY <1>1, FlightThread

\* The step of a thread that has done with a packet.
LEMMA FlightDone ==
  ASSUME FlightInv, DOMAIN thread = Threads, NEW t \in Threads,
         thread[t].stage \in {"packets", "table", "engine"}, thread[t].pkts # <<>>,
         Done(t), UNCHANGED <<script, inbox, rbuf>>
  PROVE  FlightInv'
<1> DEFINE w == [stage |-> "packets", conn |-> thread[t].conn, strand |-> TRUE,
                 pkts |-> Tail(thread[t].pkts)]
<1>1. thread' = [thread EXCEPT ![t] = w] /\ w.pkts = Tail(thread[t].pkts)
  BY DEF Done
<1>2. PacketsOK(Tail(thread[t].pkts))
  BY PacketsParts DEF FlightInv
<1> HIDE DEF w
<1> QED
  BY <1>1, <1>2, FlightThread

\* Every step keeps the packets.
LEMMA FlightNext ==
  ASSUME ServerInv, FlightInv, DeliverInv, [Next]_vars
  PROVE  FlightInv'
<1>d. DOMAIN thread = Threads /\ \A t \in Threads : thread[t].stage # "idle" => thread[t].conn \in Conns
  BY DEF ServerInv, ShapeInv, WorkOK
<1>e. PacketsOK(<<>>)
  <2>1. IsSeq(<<>>) /\ DOMAIN <<>> = {}
    BY DEF IsSeq
  <2> QED
    BY <2>1 DEF PacketsOK
<1>f. UNCHANGED <<script, inbox, rbuf, thread>> => FlightInv'
  BY DEF FlightInv
<1>h. ASSUME NEW t \in Threads, Busy(t) PROVE thread[t].pkts # <<>>
  BY <1>h DEF DeliverInv
<1>1. ASSUME NEW c \in Conns, ClientSend(c)
      PROVE  FlightInv'
  <2> DEFINE a == Append(inbox[c], Head(script[c]))
             b == Tail(script[c])
  <2>1. PacketsOK(a) /\ PacketsOK(b)
    BY <1>1, PacketsParts DEF FlightInv, ClientSend
  <2>2. /\ inbox' = [inbox EXCEPT ![c] = a] /\ script' = [script EXCEPT ![c] = b]
        /\ UNCHANGED <<rbuf, thread>>
    BY <1>1 DEF ClientSend, ops
  <2> HIDE DEF a, b
  <2> QED
    BY <2>1, <2>2, Zenon DEF FlightInv
<1>2. ASSUME NEW c \in Conns, ClientLeave(c)
      PROVE  FlightInv'
  BY <1>2, <1>f DEF ClientLeave, ops
<1>3. ASSUME NEW c \in Conns, ReadCompletes(c)
      PROVE  FlightInv'
  <2>1. CASE socket[c] = "open" /\ inbox[c] # <<>>
             /\ \E n \in 1 .. Len(inbox[c]) :
                  /\ rbuf' = [rbuf EXCEPT ![c] = SubSeq(inbox[c], 1, n)]
                  /\ inbox' = [inbox EXCEPT ![c] = SubSeq(@, n + 1, Len(@))]
    <3>1. PICK n \in 1 .. Len(inbox[c]) :
                  /\ rbuf' = [rbuf EXCEPT ![c] = SubSeq(inbox[c], 1, n)]
                  /\ inbox' = [inbox EXCEPT ![c] = SubSeq(inbox[c], n + 1, Len(inbox[c]))]
      BY <2>1
    <3> DEFINE a == SubSeq(inbox[c], 1, n)
               b == SubSeq(inbox[c], n + 1, Len(inbox[c]))
    <3>2. PacketsOK(a) /\ PacketsOK(b)
      BY PacketsParts DEF FlightInv
    <3>3. /\ rbuf' = [rbuf EXCEPT ![c] = a] /\ inbox' = [inbox EXCEPT ![c] = b]
          /\ UNCHANGED <<script, thread>>
      BY <1>3, <3>1 DEF ReadCompletes
    <3> HIDE DEF a, b
    <3> QED
      BY <3>2, <3>3, Zenon DEF FlightInv
  <2>2. CASE UNCHANGED <<rbuf, inbox>>
    BY <1>3, <1>f, <2>2 DEF ReadCompletes
  <2> QED
    BY <1>3, <2>1, <2>2 DEF ReadCompletes
<1>4. ASSUME NEW c \in Conns, WriteCompletes(c)
      PROVE  FlightInv'
  BY <1>4, <1>f DEF WriteCompletes, client
<1>5. ASSUME NEW c \in Conns, NEW k \in TimerKinds, TimerExpires(c, k)
      PROVE  FlightInv'
  BY <1>5, <1>f DEF TimerExpires, client, ops
<1>6. ASSUME NEW t \in Threads, NEW c \in Conns, Accept(t, c)
      PROVE  FlightInv'
  BY <1>6, <1>f DEF Accept
<1>7. ASSUME NEW t \in Threads, NEW c \in Conns, HandleRead(t, c)
      PROVE  FlightInv'
  <2> DEFINE w == [stage |-> "packets", conn |-> c, strand |-> TRUE, pkts |-> rbuf[c]]
             z == <<>>
  <2>1. /\ thread' = [thread EXCEPT ![t] = w] /\ w.pkts = rbuf[c]
        /\ rbuf' = [rbuf EXCEPT ![c] = z] /\ UNCHANGED <<script, inbox>>
    BY <1>7 DEF HandleRead, client
  <2>2. PacketsOK(w.pkts) /\ PacketsOK(z)
    BY <1>e, <2>1 DEF FlightInv
  <2> HIDE DEF w, z
  <2>3. \A u \in Threads : thread'[u] = w \/ thread'[u] = thread[u]
    BY <1>d, <2>1, Zenon
  <2>4. DOMAIN rbuf' = DOMAIN rbuf /\ \A d \in Conns : rbuf'[d] = z \/ rbuf'[d] = rbuf[d]
    BY <2>1, Zenon DEF FlightInv
  <2> QED
    BY <2>1, <2>2, <2>3, <2>4, Zenon DEF FlightInv
<1>8. ASSUME NEW t \in Threads, NEW c \in Conns, HandleReadError(t, c)
      PROVE  FlightInv'
  BY <1>8, <1>d, FlightHandled DEF HandleReadError, client
<1>9. ASSUME NEW t \in Threads, NEW c \in Conns, HandleWrite(t, c)
      PROVE  FlightInv'
  BY <1>9, <1>d, FlightHandled DEF HandleWrite, client
<1>10. ASSUME NEW t \in Threads, NEW c \in Conns, HandlePingReceive(t, c)
      PROVE  FlightInv'
  BY <1>10, <1>d, FlightHandled DEF HandlePingReceive, client, ops
<1>11. ASSUME NEW t \in Threads, NEW c \in Conns, HandlePingSend(t, c)
      PROVE  FlightInv'
  BY <1>11, <1>d, FlightHandled DEF HandlePingSend, client
<1>12. ASSUME NEW t \in Threads, HandleOther(t)
      PROVE  FlightInv'
  BY <1>12, <1>d, FlightDone DEF HandleOther, Current, client, ops
<1>13. ASSUME NEW t \in Threads, HandleSub(t)
      PROVE  FlightInv'
  BY <1>13, <1>d, FlightDone DEF HandleSub, Current, client, ops
<1>14. ASSUME NEW t \in Threads, HandleUnSub(t)
      PROVE  FlightInv'
  BY <1>14, <1>d, FlightDone DEF HandleUnSub, Current, client, ops
<1>15. ASSUME NEW t \in Threads, HandlePub(t)
      PROVE  FlightInv'
  <2> DEFINE w == [stage |-> "table", conn |-> thread[t].conn, strand |-> TRUE,
                   pkts |-> thread[t].pkts, events |-> <<Head(thread[t].pkts).pub>>,
                   list |-> table]
  <2>1. thread' = [thread EXCEPT ![t] = w] /\ UNCHANGED <<script, inbox, rbuf>>
    BY <1>15 DEF HandlePub, client, ops
  <2>2. PacketsOK(w.pkts)
    BY <1>15 DEF HandlePub, Current, FlightInv
  <2> HIDE DEF w
  <2> QED
    BY <1>d, <2>1, <2>2, FlightThread
<1>16. ASSUME NEW t \in Threads, Visit(t)
      PROVE  FlightInv'
  <2>1. PICK c \in thread[t].list : thread' = [thread EXCEPT ![t].list = @ \ {c}]
    BY <1>16 DEF Visit
  <2>2. WorkOK(thread[t]) /\ thread[t].stage \in {"table", "engine"}
    BY <1>16 DEF Visit, ServerInv, ShapeInv
  <2> DEFINE w == [thread[t] EXCEPT !.list = thread[t].list \ {c}]
  <2>3. w.pkts = thread[t].pkts
    <3>1. thread[t].list \ {c} \in SUBSET Conns
      BY <2>2 DEF WorkOK
    <3> QED
      BY <2>2, <3>1, WorkUpdate
  <2>4. thread' = [thread EXCEPT ![t] = w] /\ UNCHANGED <<script, inbox, rbuf>>
    BY <1>16, <2>1 DEF Visit, client
  <2>5. PacketsOK(w.pkts)
    BY <2>2, <2>3 DEF FlightInv
  <2> HIDE DEF w
  <2> QED
    BY <1>d, <2>4, <2>5, FlightThread
<1>17. ASSUME NEW t \in Threads, NotifyResults(t)
      PROVE  FlightInv'
  <2> DEFINE w == [stage |-> "engine", conn |-> thread[t].conn, strand |-> TRUE,
                   pkts |-> thread[t].pkts, events |-> Results(Head(thread[t].pkts).pub),
                   list |-> engine]
  <2>1. thread' = [thread EXCEPT ![t] = w] /\ UNCHANGED <<script, inbox, rbuf>>
    BY <1>17 DEF NotifyResults, client, ops
  <2>2. PacketsOK(w.pkts)
    BY <1>17 DEF NotifyResults, FlightInv
  <2> HIDE DEF w
  <2> QED
    BY <1>d, <2>1, <2>2, FlightThread
<1>18. ASSUME NEW t \in Threads, PubDone(t)
      PROVE  FlightInv'
  BY <1>18, <1>d, <1>h, FlightDone DEF PubDone, Busy, client, ops
<1>19. ASSUME NEW t \in Threads, ReadAgain(t)
      PROVE  FlightInv'
  BY <1>19, <1>d, FlightHandled DEF ReadAgain, client
<1>20. ASSUME NEW t \in Threads, HandlerEnds(t)
      PROVE  FlightInv'
  <2>1. thread' = [thread EXCEPT ![t] = Idle] /\ UNCHANGED <<script, inbox, rbuf>>
    BY <1>20 DEF HandlerEnds, client, ops
  <2>2. Idle.stage \notin {"packets", "table", "engine"}
    BY DEF Idle
  <2> QED
    BY <1>d, <2>1, <2>2, FlightThread
<1>21. CASE UNCHANGED vars
  BY <1>21, <1>f DEF vars
<1> QED
  BY <1>1, <1>2, <1>3, <1>4, <1>5, <1>6, <1>7, <1>8, <1>9, <1>10, <1>11, <1>12, <1>13, <1>14, <1>15, <1>16, <1>17, <1>18, <1>19, <1>20, <1>21 DEF Next, Completion, Handler, TimerKinds

\* Every step keeps what the client has asked for and what the server knows of it
\* the same.
LEMMA AskedNext ==
  ASSUME ServerInv, FlightInv, AskedInv, SubsIntact, [Next]_vars
  PROVE  AskedInv'
<1>d. /\ \A t \in Threads : thread[t].stage # "idle" => thread[t].conn \in Conns
      /\ first \in [Conns -> BOOLEAN] /\ life \in [Conns -> {"none", "live", "gone"}]
      /\ table = engine
  BY DEF ServerInv, ShapeInv, WorkOK, TablesLive
<1>i. ASSUME NEW c \in Conns PROVE \A i \in DOMAIN subs[c] : subs[c][i].alive
  BY DEF SubsIntact
<1>p. ASSUME NEW t \in Threads, NEW type \in {"SUB", "UNSUB"}, Current(t, type)
      PROVE  thread[t].conn \in Conns /\ Distinct(Head(thread[t].pkts).sub.constraints)
  <2>1. PacketOK(Head(thread[t].pkts))
    BY <1>p, PacketsParts DEF Current, FlightInv
  <2> QED
    BY <1>d, <1>p, <2>1 DEF Current, PacketOK
<1>1. ASSUME NEW t \in Threads, NEW c \in Conns, Accept(t, c)
      PROVE  AskedInv'
  <2>1. life[c] = "none" /\ ~first[c]
    BY <1>1 DEF Accept, ServerInv, LifeInv
  <2>2. UNCHANGED <<subs, asked, first, table>> /\ life' = [life EXCEPT ![c] = "live"]
    BY <1>1 DEF Accept, subscr
  <2>3. \A d \in Conns : first[d] /\ life'[d] = "live" => life[d] = "live"
    BY <1>d, <2>1, <2>2
  <2> QED
    BY <2>2, <2>3 DEF AskedInv, ListOK, Filters
<1>2. ASSUME NEW t \in Threads, HandleSub(t)
      PROVE  AskedInv'
  <2> DEFINE c == thread[t].conn
             sub == Head(thread[t].pkts).sub
  <2>1. c \in Conns /\ Distinct(sub.constraints)
    BY <1>2, <1>p DEF HandleSub
  <2>2. PICK undef \in BOOLEAN : subs' = [subs EXCEPT ![c] = Added(subs[c], sub, undef)]
    BY <1>2 DEF HandleSub
  <2>3. /\ asked' = [asked EXCEPT ![c] = asked[c] \cup {Filter(sub)}]
        /\ first' = [first EXCEPT ![c] = TRUE] /\ life' = life
        /\ table' = IF first[c] THEN table ELSE table \union {c}
    BY <1>2 DEF HandleSub
  <2> HIDE DEF c, sub
  <2> DEFINE a == Added(subs[c], sub, undef)
             g == asked[c] \cup {Filter(sub)}
  <2>4. ListOK(a) /\ g = Filters(a)
    <3>1. ListOK(subs[c]) /\ asked[c] = Filters(subs[c])
      BY <2>1 DEF AskedInv
    <3> QED
      BY <1>i, <2>1, <3>1, AddedOK
  <2>5. subs' = [subs EXCEPT ![c] = a] /\ asked' = [asked EXCEPT ![c] = g]
    BY <2>2, <2>3
  <2> HIDE DEF a, g
  <2>6. /\ DOMAIN subs' = Conns /\ DOMAIN asked' = Conns
        /\ subs'[c] = a /\ asked'[c] = g /\ first'[c]
        /\ \A d \in Conns : d # c => subs'[d] = subs[d] /\ asked'[d] = asked[d] /\ first'[d] = first[d]
    BY <1>d, <2>1, <2>3, <2>5 DEF AskedInv
  <2>7. \A d \in Conns : first'[d] /\ life'[d] = "live" => d \in table'
    BY <1>d, <2>3, <2>6 DEF AskedInv
  <2> QED
    BY <2>4, <2>6, <2>7, Zenon DEF AskedInv
<1>3. ASSUME NEW t \in Threads, HandleUnSub(t)
      PROVE  AskedInv'
  <2> DEFINE c == thread[t].conn
             sub == Head(thread[t].pkts).sub
  <2>1. c \in Conns /\ Distinct(sub.constraints)
    BY <1>3, <1>p DEF HandleUnSub
  <2>2. PICK undef \in BOOLEAN : subs' = [subs EXCEPT ![c] = Removed(subs[c], sub, undef)]
    BY <1>3 DEF HandleUnSub
  <2>3. /\ asked' = [asked EXCEPT ![c] = asked[c] \ {Filter(sub)}]
        /\ UNCHANGED <<first, life, table>>
    BY <1>3 DEF HandleUnSub
  <2> HIDE DEF c, sub
  <2> DEFINE a == Removed(subs[c], sub, undef)
             g == asked[c] \ {Filter(sub)}
  <2>l. ListOK(subs[c]) /\ asked[c] = Filters(subs[c])
    BY <2>1 DEF AskedInv
  <2>4. ListOK(a) /\ g = Filters(a)
    BY <1>i, <2>1, <2>l, RemovedOK
  <2>5. subs' = [subs EXCEPT ![c] = a] /\ asked' = [asked EXCEPT ![c] = g]
    BY <2>2, <2>3
  <2>6. subs[c] = <<>> => a = <<>>
    <3> SUFFICES ASSUME subs[c] = <<>> PROVE Removed(<<>>, sub, undef) = <<>>
      OBVIOUS
    <3>1. {i \in 1 .. Len(<<>>) : IsSub(<<>>[i], sub, undef)} = {}
      OBVIOUS
    <3>2. Position(<<>>, sub, undef) = 0
      BY <3>1 DEF Position, SelectInSeq
    <3> QED
      BY <3>2 DEF Removed
  <2> HIDE DEF a, g
  <2>7. /\ DOMAIN subs' = Conns /\ DOMAIN asked' = Conns
        /\ subs'[c] = a /\ asked'[c] = g
        /\ \A d \in Conns : d # c => subs'[d] = subs[d] /\ asked'[d] = asked[d]
    BY <2>1, <2>5 DEF AskedInv
  <2> QED
    BY <2>3, <2>4, <2>6, <2>7, Zenon DEF AskedInv
<1>4. ASSUME NEW t \in Threads, HandlerEnds(t)
      PROVE  AskedInv'
  <2> DEFINE c == thread[t].conn
  <2>1. c \in Conns
    BY <1>4, <1>d DEF HandlerEnds
  <2>2. CASE Referenced(t, c)
    BY <1>4, <2>2, AskedSame DEF HandlerEnds, subscr
  <2>3. CASE ~Referenced(t, c)
    <3>1. /\ life' = [life EXCEPT ![c] = "gone"] /\ UNCHANGED <<subs, first, asked>>
          /\ table' = table \/ table' = table \ {c}
      BY <1>4, <2>3 DEF HandlerEnds, Unregister
    <3> HIDE DEF c
    <3>2. \A d \in Conns : first[d] /\ life'[d] = "live" => life[d] = "live" /\ d # c
      BY <1>d, <2>1, <3>1
    <3> QED
      BY <3>1, <3>2 DEF AskedInv, ListOK, Filters
  <2> QED
    BY <2>2, <2>3
<1>5. CASE UNCHANGED vars
  BY <1>5, AskedSame DEF vars
<1>6. ASSUME NEW c \in Conns, \/ ClientSend(c) \/ ClientLeave(c) \/ ReadCompletes(c) \/ WriteCompletes(c)
                              \/ \E k \in TimerKinds : TimerExpires(c, k)
      PROVE  AskedInv'
  BY <1>6, AskedSame DEF ClientSend, ClientLeave, ReadCompletes, WriteCompletes, TimerExpires, subscr
<1>7. ASSUME NEW t \in Threads, NEW c \in Conns,
             \/ HandleRead(t, c) \/ HandleReadError(t, c) \/ HandleWrite(t, c)
             \/ HandlePingReceive(t, c) \/ HandlePingSend(t, c)
      PROVE  AskedInv'
  BY <1>7, AskedSame DEF HandleRead, HandleReadError, HandleWrite, HandlePingReceive, HandlePingSend, subscr
<1>8. ASSUME NEW t \in Threads,
             \/ HandleOther(t) \/ HandlePub(t) \/ Visit(t) \/ NotifyResults(t) \/ PubDone(t)
             \/ ReadAgain(t)
      PROVE  AskedInv'
  BY <1>8, AskedSame DEF HandleOther, HandlePub, Visit, NotifyResults, PubDone, ReadAgain, subscr
<1> QED
  BY <1>1, <1>2, <1>3, <1>4, <1>5, <1>6, <1>7, <1>8 DEF Next, Completion, Handler, TimerKinds

\* A step that does not concern the delivery.
LEMMA DeliverStill ==
  ASSUME DeliverInv, UNCHANGED <<thread, sent, want, table, life, socket, asked>>
  PROVE  DeliverInv'
BY ZenonT(60) DEF DeliverInv, Busy, Due, AfterRound, Reached

\* A step of the thread that delivers nothing and does not begin to.
LEMMA DeliverCalm ==
  ASSUME SingleThread, DeliverInv, NEW t \in Threads, ~Busy(t),
         thread'[t].stage \notin {"table", "engine"}, UNCHANGED <<sent, want>>
  PROVE  DeliverInv'
<1>1. \A u \in Threads : u = t
  BY DEF SingleThread
<1>2. (\A u \in Threads : ~Busy(u)) /\ \A u \in Threads : ~(thread'[u].stage \in {"table", "engine"})
  BY <1>1
<1>3. \A c \in Conns : want[c] = sent[c]
  BY <1>2 DEF DeliverInv
<1> QED
  BY <1>2, <1>3 DEF DeliverInv, Busy

\* The same for a step that ends a handler, or goes on to the next packet.
LEMMA DeliverHandled ==
  ASSUME SingleThread, DeliverInv, DOMAIN thread = Threads, NEW t \in Threads, ~Busy(t),
         Done(t) \/ \E c, strand : Handled(t, c, strand), UNCHANGED <<sent, want>>
  PROVE  DeliverInv'
<1>1. thread'[t].stage \in {"end", "packets"}
  BY DEF Done, Handled
<1> QED
  BY <1>1, DeliverCalm

\* Every step keeps the account of what is due.
LEMMA DeliverNext ==
  ASSUME SingleThread, ServerInv, VisitsLive, FlightInv, AskedInv, SubsIntact, DeliverInv,
         [Next]_vars
  PROVE  DeliverInv'
<1>d. /\ DOMAIN thread = Threads /\ table = engine /\ table \subseteq Conns
      /\ \A t \in Threads : thread[t].stage # "idle" => thread[t].conn \in Conns
  BY DEF ServerInv, ShapeInv, WorkOK, TablesLive
<1>o. \A t, u \in Threads : u = t
  BY DEF SingleThread
<1>s. /\ sent = [c \in Conns |-> sent[c]] /\ want = [c \in Conns |-> want[c]]
      /\ \A c \in Conns : IsSeq(sent[c])
  BY DEF DeliverInv
<1>n. ASSUME NEW t \in Threads, ~Busy(t) PROVE \A c \in Conns : want[c] = sent[c]
  BY <1>n, <1>o DEF DeliverInv
<1>b. ASSUME NEW t \in Threads, Busy(t)
      PROVE  /\ thread[t].pkts # <<>> /\ Head(thread[t].pkts).pkt = "PUB"
             /\ EventsOK(thread[t].events) /\ thread[t].list \subseteq table
             /\ \A c \in Conns : want[c] = Due(t, c)
  BY <1>b DEF DeliverInv
<1>k. ASSUME NEW t \in Threads, thread[t].stage \in {"packets", "table", "engine"},
             thread[t].pkts # <<>>, Head(thread[t].pkts).pkt = "PUB"
      PROVE  EventOK(Head(thread[t].pkts).pub) /\ EventsOK(Results(Head(thread[t].pkts).pub))
  BY <1>k, PacketsParts DEF FlightInv, PacketOK
<1>m. ASSUME NEW c \in Conns, Reached(c), c \notin table PROVE asked[c] = {}
  <2>1. subs[c] = <<>> /\ asked[c] = Filters(subs[c])
    BY <1>m DEF AskedInv, Reached
  <2> QED
    BY <2>1 DEF Filters
<1>1. ASSUME NEW c \in Conns, \/ ClientSend(c) \/ ClientLeave(c) \/ ReadCompletes(c) \/ WriteCompletes(c)
                              \/ \E k \in TimerKinds : TimerExpires(c, k)
      PROVE  DeliverInv'
  BY <1>1, DeliverStill DEF ClientSend, ClientLeave, ReadCompletes, WriteCompletes, TimerExpires, subscr
<1>2. CASE UNCHANGED vars
  BY <1>2, DeliverStill DEF vars
<1>3. ASSUME NEW t \in Threads, NEW c \in Conns, Accept(t, c)
      PROVE  DeliverInv'
  BY <1>3, DeliverCalm DEF Accept, Busy
<1>4. ASSUME NEW t \in Threads, NEW c \in Conns, HandleRead(t, c)
      PROVE  DeliverInv'
  <2>1. thread'[t].stage = "packets" /\ thread[t].stage = "idle" /\ UNCHANGED <<sent, want>>
    BY <1>4, <1>d DEF HandleRead, Begin
  <2> QED
    BY <2>1, DeliverCalm DEF Busy
<1>5. ASSUME NEW t \in Threads, NEW c \in Conns,
             \/ HandleReadError(t, c) \/ HandleWrite(t, c)
             \/ HandlePingReceive(t, c) \/ HandlePingSend(t, c)
      PROVE  DeliverInv'
  <2>1. /\ thread[t].stage = "idle" /\ UNCHANGED <<sent, want>>
        /\ \E d, strand : Handled(t, d, strand)
    BY <1>5, Zenon DEF HandleReadError, HandleWrite, HandlePingReceive, HandlePingSend, Begin
  <2> QED
    BY <1>d, <2>1, DeliverHandled DEF Busy
<1>6. ASSUME NEW t \in Threads, HandleOther(t) \/ HandleSub(t) \/ HandleUnSub(t) \/ ReadAgain(t)
      PROVE  DeliverInv'
  <2>1. /\ thread[t].stage = "packets" /\ UNCHANGED <<sent, want>>
        /\ Done(t) \/ \E d, strand : Handled(t, d, strand)
    BY <1>6, Zenon DEF HandleOther, HandleSub, HandleUnSub, ReadAgain, Current
  <2> QED
    BY <1>d, <2>1, DeliverHandled DEF Busy
<1>7. ASSUME NEW t \in Threads, HandlerEnds(t)
      PROVE  DeliverInv'
  <2>1. thread'[t].stage = "idle" /\ thread[t].stage = "end" /\ UNCHANGED <<sent, want>>
    BY <1>7, <1>d DEF HandlerEnds, Idle
  <2> QED
    BY <2>1, DeliverCalm DEF Busy
<1>8. ASSUME NEW t \in Threads, HandlePub(t)
      PROVE  DeliverInv'
  <2> DEFINE w == [stage |-> "table", conn |-> thread[t].conn, strand |-> TRUE,
                   pkts |-> thread[t].pkts, events |-> <<Head(thread[t].pkts).pub>>,
                   list |-> table]
             p == Head(thread[t].pkts).pub
             ps == thread[t].pkts
             one == <<p>>
             res == Results(p)
  <2>1. /\ thread' = [thread EXCEPT ![t] = w]
        /\ want' = [c \in Conns |-> IF life[c] = "live" /\ socket[c] = "open"
                                    THEN want[c] \o Deserved(asked[c], one) \o Deserved(asked[c], res)
                                    ELSE want[c]]
        /\ UNCHANGED <<sent, table, life, socket, asked>>
    BY <1>8 DEF HandlePub, subscr
  <2>2. thread[t].stage = "packets" /\ ps # <<>> /\ Head(ps).pkt = "PUB"
    BY <1>8 DEF HandlePub, Current
  <2>3. EventOK(p) /\ EventsOK(res)
    BY <1>k, <2>2
  <2>4. EventsOK(one)
    BY <2>3 DEF EventsOK, IsSeq, Range
  <2>5. w.stage = "table" /\ w.pkts = ps /\ w.events = one /\ w.list = table
    OBVIOUS
  <2>6. p = Head(ps).pub
    OBVIOUS
  <2> HIDE DEF w, p, ps, one, res
  <2>7. thread'[t] = w
    BY <1>d, <2>1
  <2>8. \A c \in Conns : want[c] = sent[c]
    BY <1>n, <2>2 DEF Busy
  <2>9. ASSUME NEW c \in Conns PROVE want'[c] = Due(t, c)'
    <3>1. want'[c] = IF Reached(c)
                     THEN sent[c] \o Deserved(asked[c], one) \o Deserved(asked[c], res)
                     ELSE sent[c]
      BY <2>1, <2>8 DEF Reached
    <3>2. Due(t, c)' = IF c \in table /\ Reached(c)
                       THEN sent[c] \o Deserved(asked[c], one) \o Deserved(asked[c], res)
                       ELSE sent[c]
      BY <2>1, <2>5, <2>6, <2>7 DEF Due, AfterRound, Reached, res
    <3>3. CASE Reached(c) /\ c \notin table
      <4>1. Deserved(asked[c], one) = <<>> /\ Deserved(asked[c], res) = <<>>
        BY <1>m, <2>3, <2>4, <3>3, DeservedNone
      <4>2. sent[c] \o <<>> = sent[c]
        BY <1>s, ConcatSeq
      <4> QED
        BY <3>1, <3>2, <3>3, <4>1, <4>2
    <3> QED
      BY <3>1, <3>2, <3>3
  <2>10. /\ thread'[t].pkts # <<>> /\ Head(thread'[t].pkts).pkt = "PUB"
         /\ EventsOK(thread'[t].events) /\ thread'[t].list \subseteq table'
         /\ thread'[t].stage = "table"
    BY <2>1, <2>2, <2>4, <2>5, <2>7
  <2>11. sent' = [c \in Conns |-> sent'[c]] /\ want' = [c \in Conns |-> want'[c]]
         /\ \A c \in Conns : IsSeq(sent'[c])
    <3>1. want' = [c \in Conns |-> want'[c]]
      BY <2>1, Zenon
    <3> QED
      BY <1>s, <2>1, <3>1
  <2> QED
    BY <1>o, <2>9, <2>10, <2>11 DEF DeliverInv, Busy
<1>9. ASSUME NEW t \in Threads, Visit(t)
      PROVE  DeliverInv'
  <2>1. PICK c \in thread[t].list, undef \in BOOLEAN :
          LET out == IF socket[c] = "open" THEN Outgoing(c, thread[t].events, undef) ELSE <<>>
          IN /\ sent' = [sent EXCEPT ![c] = @ \o out]
             /\ thread' = [thread EXCEPT ![t].list = @ \ {c}]
    BY <1>9 DEF Visit
  <2> DEFINE evs == thread[t].events
             list == thread[t].list
             ps == thread[t].pkts
             out == IF socket[c] = "open" THEN Outgoing(c, evs, undef) ELSE <<>>
             w == [thread[t] EXCEPT !.list = list \ {c}]
             s == sent[c] \o out
  <2>2. /\ thread' = [thread EXCEPT ![t] = w] /\ sent' = [sent EXCEPT ![c] = s]
        /\ UNCHANGED <<want, table, life, socket, asked>>
    BY <1>9, <2>1 DEF Visit, subscr
  <2>3. thread[t].stage \in {"table", "engine"} /\ WorkOK(thread[t])
    BY <1>9 DEF Visit, ServerInv, ShapeInv
  <2>4. /\ ps # <<>> /\ Head(ps).pkt = "PUB" /\ EventsOK(evs) /\ list \subseteq table
        /\ \A d \in Conns : want[d] = Due(t, d)
    BY <1>b, <2>3 DEF Busy
  <2>5. c \in table /\ c \in Conns /\ life[c] = "live"
    BY <1>d, <2>1, <2>3, <2>4 DEF VisitsLive
  <2>6. w.stage = thread[t].stage /\ w.pkts = ps /\ w.events = evs /\ w.list = list \ {c}
    <3>1. list \ {c} \in SUBSET Conns
      BY <1>d, <2>4
    <3> QED
      BY <2>3, <3>1, WorkUpdate
  <2>7. /\ s = IF Reached(c) THEN sent[c] \o Deserved(asked[c], evs) ELSE sent[c]
        /\ IsSeq(s)
    <3>1. sent[c] \o <<>> = sent[c] /\ IsSeq(sent[c]) /\ \A q : IsSeq(q) => IsSeq(sent[c] \o q)
      BY <1>s, <2>5, ConcatSeq
    <3>2. CASE socket[c] = "open"
      <4>1. ListOK(subs[c]) /\ asked[c] = Filters(subs[c]) /\ \A i \in DOMAIN subs[c] : subs[c][i].alive
        BY <2>5 DEF AskedInv, SubsIntact
      <4> HIDE DEF evs
      <4>2. Outgoing(c, evs, undef) = Deserved(asked[c], evs) /\ IsSeq(Deserved(asked[c], evs))
        BY <2>4, <4>1, OutgoingIsDeserved
      <4>3. s = sent[c] \o Deserved(asked[c], evs)
        BY <3>2, <4>2
      <4> QED
        BY <2>5, <3>1, <3>2, <4>2, <4>3 DEF Reached
    <3>3. CASE socket[c] # "open"
      BY <3>1, <3>3 DEF Reached
    <3> QED
      BY <3>2, <3>3
  <2>c. c \in list
    BY <2>1
  <2>t. \A d \in Conns : Due(t, d) = IF thread[t].stage = "table" /\ d \in table /\ Reached(d)
                                     THEN AfterRound(t, d) \o Deserved(asked[d], Results(Head(ps).pub))
                                     ELSE AfterRound(t, d)
    BY DEF Due
  <2>a. \A d \in Conns : AfterRound(t, d) = IF d \in list /\ Reached(d)
                                            THEN sent[d] \o Deserved(asked[d], evs) ELSE sent[d]
    BY DEF AfterRound
  <2> HIDE DEF evs, list, ps, out, w, s
  <2>8. thread'[t] = w /\ sent'[c] = s /\ \A d \in Conns : d # c => sent'[d] = sent[d]
    BY <1>d, <1>s, <2>2, <2>5
  <2>9. ASSUME NEW d \in Conns PROVE want'[d] = Due(t, d)'
    <3>1. AfterRound(t, d)' = IF d \in list /\ d # c /\ Reached(d)
                              THEN sent'[d] \o Deserved(asked[d], evs) ELSE sent'[d]
      BY <2>2, <2>6, <2>8 DEF AfterRound, Reached
    <3>2. AfterRound(t, d)' = AfterRound(t, d)
      <4>1. CASE d = c
        BY <2>7, <2>8, <2>a, <2>c, <3>1, <4>1
      <4>2. CASE d # c
        BY <2>8, <2>a, <3>1, <4>2
      <4> QED
        BY <4>1, <4>2
    <3>3. Due(t, d)' = IF thread[t].stage = "table" /\ d \in table /\ Reached(d)
                       THEN AfterRound(t, d)' \o Deserved(asked[d], Results(Head(ps).pub))
                       ELSE AfterRound(t, d)'
      BY <2>2, <2>6, <2>8 DEF Due, Reached
    <3> QED
      BY <2>2, <2>4, <2>t, <3>2, <3>3
  <2>10. /\ thread'[t].pkts # <<>> /\ Head(thread'[t].pkts).pkt = "PUB"
         /\ EventsOK(thread'[t].events) /\ thread'[t].list \subseteq table'
         /\ thread'[t].stage \in {"table", "engine"}
    BY <2>2, <2>3, <2>4, <2>6, <2>8
  <2>11. /\ sent' = [d \in Conns |-> sent'[d]] /\ want' = [d \in Conns |-> want'[d]]
         /\ \A d \in Conns : IsSeq(sent'[d])
    <3>1. sent' = [d \in Conns |-> sent'[d]]
      BY <1>s, <2>2
    <3>2. want' = [d \in Conns |-> want'[d]]
      BY <1>s, <2>2
    <3> QED
      BY <1>s, <2>7, <2>8, <3>1, <3>2
  <2> QED
    BY <1>o, <2>9, <2>10, <2>11 DEF DeliverInv, Busy
<1>10. ASSUME NEW t \in Threads, NotifyResults(t)
      PROVE  DeliverInv'
  <2> DEFINE ps == thread[t].pkts
             res == Results(Head(ps).pub)
             w == [stage |-> "engine", conn |-> thread[t].conn, strand |-> TRUE,
                   pkts |-> ps, events |-> res, list |-> engine]
  <2>1. /\ thread' = [thread EXCEPT ![t] = w]
        /\ UNCHANGED <<sent, want, table, life, socket, asked>>
    BY <1>10 DEF NotifyResults, subscr
  <2>2. thread[t].stage = "table" /\ thread[t].list = {}
    BY <1>10 DEF NotifyResults
  <2>3. ps # <<>> /\ Head(ps).pkt = "PUB" /\ \A d \in Conns : want[d] = Due(t, d)
    BY <1>b, <2>2 DEF Busy
  <2>4. EventsOK(res)
    BY <1>k, <2>2, <2>3
  <2>5. w.stage = "engine" /\ w.pkts = ps /\ w.events = res /\ w.list = table
    BY <1>d
  <2>6. \A d \in Conns : Due(t, d) = IF d \in table /\ Reached(d)
                                     THEN sent[d] \o Deserved(asked[d], res) ELSE sent[d]
    BY <2>2 DEF Due, AfterRound
  <2> HIDE DEF ps, res, w
  <2>7. thread'[t] = w
    BY <1>d, <2>1
  <2>8. ASSUME NEW d \in Conns PROVE want'[d] = Due(t, d)'
    <3>1. Due(t, d)' = IF d \in table /\ Reached(d)
                       THEN sent[d] \o Deserved(asked[d], res) ELSE sent[d]
      BY <2>1, <2>5, <2>7 DEF Due, AfterRound, Reached
    <3> QED
      BY <2>1, <2>3, <2>6, <3>1
  <2>9. /\ thread'[t].pkts # <<>> /\ Head(thread'[t].pkts).pkt = "PUB"
        /\ EventsOK(thread'[t].events) /\ thread'[t].list \subseteq table'
        /\ thread'[t].stage = "engine"
    BY <2>1, <2>3, <2>4, <2>5, <2>7
  <2>10. /\ sent' = [d \in Conns |-> sent'[d]] /\ want' = [d \in Conns |-> want'[d]]
         /\ \A d \in Conns : IsSeq(sent'[d])
    BY <1>s, <2>1
  <2> QED
    BY <1>o, <2>8, <2>9, <2>10 DEF DeliverInv, Busy
<1>11. ASSUME NEW t \in Threads, PubDone(t)
      PROVE  DeliverInv'
  <2>1. thread[t].stage = "engine" /\ thread[t].list = {} /\ UNCHANGED <<sent, want>>
    BY <1>11 DEF PubDone
  <2>2. \A d \in Conns : want[d] = sent[d]
    <3>1. \A d \in Conns : want[d] = Due(t, d)
      BY <1>b, <2>1 DEF Busy
    <3> QED
      BY <2>1, <3>1 DEF Due, AfterRound
  <2>3. thread'[t].stage = "packets"
    BY <1>11, <1>d DEF PubDone, Done
  <2>4. \A u \in Threads : ~(thread'[u].stage \in {"table", "engine"})
    BY <1>o, <2>3
  <2> QED
    BY <1>s, <2>1, <2>2, <2>4 DEF DeliverInv, Busy
<1> QED
  BY <1>1, <1>2, <1>3, <1>4, <1>5, <1>6, <1>7, <1>8, <1>9, <1>10, <1>11 DEF Next, Completion, Handler, TimerKinds

\* With one io thread every connection is told to write exactly what its client's
\* subscriptions ask for, each event once per subscription and a publication before its
\* results, for any clients, scripts of well-formed packets and engine, as long as no
\* removal from the vector of subscriptions has freed constraints that are in use.
THEOREM DeliveredCorrect ==
  SingleThread /\ ScriptsOK => (Spec /\ []SubsIntact => []DeliveredAsSubscribed)
<1> SUFFICES ASSUME SingleThread, ScriptsOK
             PROVE  Spec /\ []SubsIntact => []DeliveredAsSubscribed
  OBVIOUS
<1> DEFINE IInv == VisitsLive /\ FlightInv /\ AskedInv /\ DeliverInv
<1>1. Init => IInv
  <2> SUFFICES ASSUME Init PROVE IInv
    OBVIOUS
  <2>1. IsSeq(<<>>) /\ DOMAIN <<>> = {}
    BY DEF IsSeq
  <2>2. PacketsOK(<<>>) /\ ListOK(<<>>) /\ Filters(<<>>) = {}
    BY <2>1 DEF PacketsOK, ListOK, Filters
  <2>3. \A t \in Threads : thread[t].stage = "idle"
    BY DEF Init, Idle
  <2>4. DOMAIN script = Conns /\ \A c \in Conns : PacketsOK(script[c])
    BY DEF Init, ScriptsOK
  <2>5. FlightInv
    BY <2>2, <2>3, <2>4 DEF Init, FlightInv
  <2>6. AskedInv
    BY <2>2 DEF Init, AskedInv
  <2>7. DeliverInv
    BY <2>1, <2>3 DEF Init, DeliverInv, Busy
  <2>8. VisitsLive
    BY <2>3 DEF VisitsLive
  <2> QED
    BY <2>5, <2>6, <2>7, <2>8
<1>2. ServerInv /\ SubsIntact /\ IInv /\ [Next]_vars => IInv'
  BY VisitsNext, FlightNext, AskedNext, DeliverNext
<1>3. IInv => DeliveredAsSubscribed
  BY DEF DeliverInv, Busy, DeliveredAsSubscribed
<1> HIDE DEF IInv
<1> QED
  BY <1>1, <1>2, <1>3, ServerInvHolds, PTL DEF Spec

=============================================================================
