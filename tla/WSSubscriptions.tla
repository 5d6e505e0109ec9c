--------------------------- MODULE WSSubscriptions ---------------------------
(***************************************************************************)
(* WSClient as an implementation of Subscriptions: what its channels, its  *)
(* commands on the way and the answers it has not read yet ask for.        *)
(***************************************************************************)
EXTENDS WSClientProperties

\* Unread "ok" answers about subscription s, each with the tickers it will leave.
Unread(s) ==
    IF rconn = NoConn THEN {}
    ELSE {i \in DOMAIN down[rconn] : down[rconn][i].type = "ok" /\ down[rconn][i].sid = s}

\* The tickers of a channel's state once the reader has caught up (handleOK).
Settling(o) ==
    LET unread == Unread(obj[o].sid)
    IN  IF unread = {} THEN obj[o].markets
        ELSE down[rconn][CHOOSE i \in unread : \A j \in unread : j <= i].tickers

InTheMaking == {"register", "grab", "write", "finish"}

\* What callers are adding to or taking off state o, and what its flush is sending.
Adding(o) ==
    UNION ({out[p].tickers : p \in {q \in Callers : /\ call[q].op = "add" /\ call[q].state = o
                                                    /\ pc[q] \in InTheMaking}}
           \cup {out[Reader].tickers : r \in {flushing} \cap {o}})
Removing(o) ==
    UNION {out[p].tickers : p \in {q \in Callers : /\ call[q].op = "remove" /\ call[q].state = o
                                                   /\ pc[q] \in InTheMaking}}

Ending(ch) == \E p \in Callers : call[p].op = "unsubscribe" /\ pc[p] \in InTheMaking /\ Ch(p) = ch

Asked == [ch \in Channels |->
    LET o == channels[ch]
    IN  IF o = Nil \/ Ending(ch) THEN [on |-> FALSE, global |-> FALSE, tickers |-> {}]
        ELSE [on |-> TRUE, global |-> obj[o].global,
              tickers |-> (Settling(o) \cup obj[o].pending \cup Adding(o)) \ Removing(o)]]

\* A method takes effect before it sends.
Requested == [p \in Callers |->
    [op |-> call[p].op, chs |-> call[p].chs, tickers |-> call[p].tickers,
     global |-> call[p].global,
     served |-> pc[p] \in InTheMaking]]

Promised == INSTANCE Subscriptions WITH
    Requests <- {[op |-> c.op, chs |-> c.chs, tickers |-> c.tickers,
                  global |-> c.global, served |-> FALSE] : c \in Calls},
    asked <- Asked,
    request <- Requested

\* Each call takes effect once, at one moment, and answers, flushes, late messages and
\* recoveries never change what the callers have asked for (AddMarkets,
\* handleSubscribed, handleOK, handleConnectionLoss).
PromisesKept == Promised!Spec

\* "subscription recovery" (:34): a lost connection does not change what is asked for,
\* whatever answers were on their way (handleConnectionLoss, the flush of :279).
LossForgetsNothing == [][HandleConnectionLoss => Asked' = Asked]_vars

\* At rest the service sends what is asked for: the subscription whose sid the client
\* holds is live, and of exactly those tickers (handleSubscribed's flush, AddMarkets).
Served ==
    Quiet => \A ch \in Channels : Asked[ch].on =>
        /\ HasSID(ch)
        /\ LET sub == subs[rconn][obj[channels[ch]].sid]
           IN  sub.live /\ sub.global = Asked[ch].global /\ sub.tickers = Asked[ch].tickers

\* At rest the messages of every subscription whose sid the client holds reach its
\* channel's state: none is silent (Unsubscribe's delete of :420 after its unlock).
NoneSilent ==
    Quiet => \A ch \in Channels : HasSID(ch) => sidMap[obj[channels[ch]].sid] = channels[ch]

\* "Unsubscribe tears down subscriptions for the given channels entirely" (:396): at
\* rest the service sends nothing on a channel that nobody asks for.
EndedEntirely ==
    Quiet => \A s \in DOMAIN subs[rconn] : subs[rconn][s].live => Asked[subs[rconn][s].ch].on

\* "Filter out already-subscribed tickers" (:460): a ticker that the next AddMarkets
\* would leave out is subscribed.
FilteredAreSubscribed ==
    (At("read") /\ \A p \in Callers : pc[p] = "idle") =>
        \A ch \in Channels : HasSID(ch) /\ ~obj[channels[ch]].global =>
            obj[channels[ch]].markets \subseteq subs[rconn][obj[channels[ch]].sid].tickers

\* Connected is false after Close (ws_client_test.go:112).
ClosedStaysDisconnected ==
    closed /\ (\A p \in Callers : pc[p] # "closing") => conn = NoConn
=============================================================================
