------------------------------ MODULE MCServer ------------------------------
(***************************************************************************)
(* Clients for Server: a subscriber and a publisher that may be the same.  *)
(***************************************************************************)
EXTENDS Server, TLC

Con(n, o, t, v) == [name |-> n, op |-> o, type |-> t, val |-> v]
Att(n, t, v) == [name |-> n, type |-> t, val |-> v]

\* The same filter in two orders, a filter for composite events, one for all.
FilterA == [eventType |-> 1, constraints |-> <<Con("x", "GE", "INT", 3), Con("s", "IN", "STRING", <<2>>)>>]
FilterB == [eventType |-> 1, constraints |-> <<Con("s", "IN", "STRING", <<2>>), Con("x", "GE", "INT", 3)>>]
FilterC == [eventType |-> 9, constraints |-> <<Con("x", "NE", "INT", 4)>>]
FilterD == [eventType |-> 1, constraints |-> <<>>]

PubA == [eventType |-> 1, attributes |-> <<Att("x", "INT", 3), Att("s", "STRING", <<1, 2, 3>>)>>]
PubB == [eventType |-> 1, attributes |-> <<Att("x", "INT", 5), Att("s", "STRING", <<1>>)>>]
Composite == [eventType |-> 9, attributes |-> <<Att("x", "INT", 3)>>]

Sub(f)   == [pkt |-> "SUB", sub |-> f]
UnSub(f) == [pkt |-> "UNSUB", sub |-> f]
Pub(p)   == [pkt |-> "PUB", pub |-> p]

MCResults(p) == IF p = PubA THEN <<Composite>> ELSE <<>>

CONSTANTS c1, c2

Setup(ping, s1, s2) ==
  [usePing |-> ping, script |-> (c1 :> s1 @@ c2 :> s2)]

\* In the last setup the publications that a client left behind reach its own
\* connection after a ping has failed on it.
SerialSetups ==
  {Setup(FALSE, <<Sub(FilterA), Sub(FilterB)>>, <<Sub(FilterC), Pub(PubA)>>),
   Setup(FALSE, <<Sub(FilterD), UnSub(FilterD), Pub(PubA)>>, <<Pub(PubB)>>),
   Setup(TRUE, <<[pkt |-> "RULE"], [pkt |-> "PING"]>>, <<>>),
   Setup(TRUE, <<Sub(FilterD), Pub(PubB), Pub(PubB)>>, <<>>)}

ASSUME CheckedScripts == ScriptsOK

PingSetups == {Setup(TRUE, <<[pkt |-> "PING"]>>, <<>>)}

============================================================================
