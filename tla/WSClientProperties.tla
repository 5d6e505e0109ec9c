-------------------------- MODULE WSClientProperties --------------------------
(***************************************************************************)
(* What the WebSocket client is meant to guarantee, over WSClient.         *)
(***************************************************************************)
EXTENDS WSClient

(* Type correctness.                                                       *)
OutKinds == Kinds \cup {"none"}
SendRecord ==
    [kind: OutKinds, id: Nat, ch: Channels \cup {"none"},
     sid: Sids \cup {NoSID}, tickers: SUBSET Tickers, global: BOOLEAN,
     conn: Conns \cup {NoConn}, ok: BOOLEAN]
CallRecord ==
    [op: Ops \cup {"none"}, chs: Seq(Channels), tickers: SUBSET Tickers,
     global: BOOLEAN, state: Objs \cup {Nil}, created: BOOLEAN]
Dispatched == [conn: Conns \cup {NoConn}, sid: Sids \cup {NoSID}, seq: Nat]

\* Every variable has its type; a message in flight names a sid of its
\* connection's range.
TypeOK ==
    /\ ServerTypeOK
    /\ conn \in Conns \cup {NoConn} /\ rconn \in Conns \cup {NoConn}
    /\ msgCh \in Seq(Dispatched) /\ Len(msgCh) <= BufSize
    /\ dispatch \in Dispatched
    /\ msgID \in Nat
    /\ channels \in [Channels -> Objs \cup {Nil}]
    /\ sidMap \in [Sids -> Objs \cup {Nil}]
    /\ pendingInit \subseteq Pending
    /\ obj \in [Objs -> ChannelState]
    /\ closed \in BOOLEAN /\ force \in BOOLEAN /\ ctxDone \in BOOLEAN
    /\ mu \in Procs \cup {Nobody}
    /\ pc \in [Procs -> CallerLabels \cup ReaderLabels]
    /\ out \in [Procs -> SendRecord]
    /\ call \in [Callers -> CallRecord]
    /\ callsLeft \in 0..MaxCalls
    /\ flushing \in Objs \cup {Nil}
    /\ todo \subseteq Objs /\ seen \subseteq Objs
    /\ backoff \in MinBackoff..MaxBackoff

-----------------------------------------------------------------------------
(* Safety.                                                                 *)

\* A message of sid s is accounted to the channel the service gave s to: every
\* entry of sidMap was assigned on the connection readLoop reads, to the channel
\* the entry's state names.  A wrong entry would put one channel's messages into
\* another's sequence and market set (handleSubscribed, handleConnectionLoss).
RoutingSound ==
    \A s \in Sids : sidMap[s] # Nil =>
        /\ rconn # NoConn
        /\ s \in DOMAIN subs[rconn]
        /\ subs[rconn][s].ch = obj[sidMap[s]].name

\* No two commands carry one id, whichever goroutines send them and on whatever
\* connection: an answer never completes another channel's subscribe.
IdsUnique ==
    /\ \A p, q \in Procs :
         p # q /\ out[p].id # 0 => out[p].id # out[q].id
    /\ \A e, f \in pendingInit : e.id = f.id => e = f
    /\ \A e \in pendingInit, p \in Procs :
         out[p].id = e.id => out[p].kind = "subscribe" /\ out[p].ch = e.ch

\* An update or unsubscribe about to be written never names, on the connection it
\* is written to, a subscription of another channel than the caller asked about.
CommandsAimed ==
    \A p \in Procs :
        LET o == out[p]
        IN  pc[p] = "write" /\ o.sid # NoSID =>
              (o.sid \in DOMAIN subs[o.conn] => subs[o.conn][o.sid].ch = o.ch)

\* readLoop never waits for more on a connection after it has read the message
\* that reveals a loss (handleDataMessage, handleOK, the CompareAndSwap of
\* readLoop).
NoReadPastGap ==
    At("read") =>
        \A s \in Sids :
            sidMap[s] # Nil /\ s \in DOMAIN subs[rconn] /\ subs[rconn][s].gap # 0 =>
                \E i \in DOMAIN down[rconn] :
                    /\ down[rconn][i].sid = s
                    /\ down[rconn][i].seq = subs[rconn][s].gap

\* A service that answers every command and loses nothing is never left for a
\* sequence gap or a failed flush.
NeverForced == ~force

\* Listening never reaches a read on a nil connection.
NoPanic == ~At("panic")

\* Nothing is on its way: no call in progress, readLoop waiting on a connection
\* that is up and has nothing left to read.
Quiet ==
    /\ \A p \in Callers : pc[p] = "idle"
    /\ At("read") /\ conn = rconn /\ Up(rconn) /\ down[rconn] = <<>>

\* At rest, the client's market set of a scoped channel is the service's ticker
\* list, so the tickers AddMarkets filters out really are subscribed.
MarketsAgree ==
    Quiet => \A ch \in Channels :
        LET o == channels[ch]
        IN  o # Nil /\ obj[o].sid # NoSID /\ ~obj[o].global =>
              obj[o].markets = subs[rconn][obj[o].sid].tickers

Wanted(ch) ==
    channels[ch] # Nil /\
        (obj[channels[ch]].global \/ obj[channels[ch]].markets # {})

\* At rest, every channel that has something to recover is subscribed.
Recovered == Quiet => \A ch \in Channels : Wanted(ch) => HasSID(ch)

\* The answer to the pending subscribe e is still to come: somebody is sending
\* the command, or the answer waits to be read.
AnswerComing(e) ==
    \/ \E p \in Procs : out[p].id = e.id /\ pc[p] \in {"grab", "write", "finish"}
    \/ \E i \in DOMAIN down[rconn] :
          down[rconn][i].type = "subscribed" /\ down[rconn][i].id = e.id

\* Tickers that AddMarkets queued, and reported as added, wait for a subscribe
\* whose answer will send them.
QueuedWillBeSent ==
    At("read") => \A ch \in Channels :
        channels[ch] # Nil /\ obj[channels[ch]].pending # {} =>
            \/ \E e \in pendingInit : e.ch = ch /\ AnswerComing(e)
            \/ \E p \in Procs : /\ pc[p] = "register"
                               /\ out[p].kind = "subscribe" /\ out[p].ch = ch

-----------------------------------------------------------------------------
(* Liveness.  sync.Mutex hands the lock to a waiter that starves, so every *)
(* goroutine gets strong fairness; callers are not obliged to call, nor    *)
(* the consumer to read, nor the service to send.                          *)
Progress == SF_vars(ReaderStep) /\ \A p \in Callers : SF_vars(CallerStep(p))

StalledSpec == Spec /\ Progress
\* Dialling again and again succeeds in the end.
RedialSpec ==
    /\ StalledSpec /\ WF_vars(Consume)
    /\ SF_vars(Dial /\ Dialled) /\ SF_vars(Redial /\ Dialled)

\* A call returns even if the consumer never reads from MsgCh(): the blocking
\* send of handleIncoming is made without the lock.
CallsReturn == \A p \in Callers : pc[p] # "idle" ~> pc[p] = "idle"

\* The consumer goes on making room.
Room == []<>(Len(msgCh) < BufSize)

\* ListenLoop returns after its context is cancelled, if the consumer reads and
\* Close does not make it panic (NoPanic).
CancelEnds == Room => (ctxDone ~> At("done") \/ At("panic"))

\* ListenLoop returns after Close finds it reading, if the consumer reads.
CloseEnds ==
    Room => ((\E p \in Callers : pc[p] = "closing") /\ At("read") /\ conn = rconn
                ~> At("done"))

\* Every channel with something to recover is, again and again, subscribed or
\* given up by its callers.
AlwaysResubscribed ==
    \A ch \in Channels : []<>(Wanted(ch) => HasSID(ch))
=============================================================================
