---------------------------- MODULE WSClientProofs ----------------------------
(***************************************************************************)
(* Proofs about WSClient for any channels, tickers, callers and bounds.    *)
(***************************************************************************)
EXTENDS WSClientProperties, SequenceTheorems, TLAPS

-----------------------------------------------------------------------------
(* What the steps of WSServer preserve, whoever takes them: types, and the *)
(* channel a subscription was made for.                                    *)

\* A command as the service may receive it.
Received(cmd) ==
    /\ cmd.id \in Nat /\ cmd.sid \in Sids \cup {0}
    /\ cmd.tickers \in SUBSET Tickers /\ cmd.global \in BOOLEAN
    /\ cmd.kind = "subscribe" => cmd.ch \in Channels

\* Subscriptions stay in their place and keep their channel.
SubsKept ==
    \A k \in Conns : \A s \in DOMAIN subs[k] :
        s \in DOMAIN subs'[k] /\ subs'[k][s].ch = subs[k][s].ch

\* Connection k got the message m, the others none.
Enqueued(k, m) == down' = [down EXCEPT ![k] = Append(@, m)]

\* The next number of a subscription leaves the rest of it alone.
LEMMA AdvanceType ==
    ASSUME NEW sub \in Subscription
    PROVE  /\ Advance(sub) \in Subscription
           /\ Advance(sub).ch = sub.ch /\ Advance(sub).seq \in Nat
<1> DEFINE gap == IF sub.gap = 0 /\ sub.lost THEN sub.seq + 1 ELSE sub.gap
<1>1. gap \in Nat /\ sub.seq + 1 \in Nat /\ sub.seq \in Nat
  BY DEF Subscription
<1>2. [sub EXCEPT !.seq = @ + 1, !.sent = TRUE, !.gap = gap] \in Subscription
  <2> HIDE DEF gap
  <2> QED BY <1>1 DEF Subscription
<1>3. CASE Numbered(sub)
  <2>1. Advance(sub) = [sub EXCEPT !.seq = @ + 1, !.sent = TRUE, !.gap = gap]
    BY <1>3 DEF Advance
  <2> QED BY <1>1, <1>2, <2>1 DEF Subscription
<1>4. CASE ~Numbered(sub)
  BY <1>1, <1>4 DEF Advance
<1> QED BY <1>3, <1>4

\* A skipped number too.
LEMMA SkippedType ==
    ASSUME NEW sub \in Subscription
    PROVE  Skipped(sub) \in Subscription /\ Skipped(sub).ch = sub.ch
<1>1. PICK lost \in BOOLEAN : lost = (sub.lost \/ sub.sent)
  BY Zenon
<1>2. Skipped(sub) = [sub EXCEPT !.seq = @ + 1, !.lost = lost]
  BY <1>1, Zenon DEF Skipped
<1>3. sub.seq + 1 \in Nat
  BY DEF Subscription
<1> QED BY <1>2, <1>3 DEF Subscription

\* Replacing subscription s of connection k by one of the same channel.
LEMMA SubsReplaced ==
    ASSUME ServerTypeOK, NEW k \in Conns, NEW s \in DOMAIN subs[k],
           NEW sub \in Subscription, sub.ch = subs[k][s].ch,
           subs' = [subs EXCEPT ![k][s] = sub]
    PROVE  /\ subs' \in [Conns -> Seq(Subscription)]
           /\ \A j \in Conns : Len(subs'[j]) <= MaxSubs
           /\ SubsKept
<1> DEFINE list == [subs[k] EXCEPT ![s] = sub]
<1>1. subs \in [Conns -> Seq(Subscription)] /\ subs[k] \in Seq(Subscription)
  BY DEF ServerTypeOK
<1>2. s \in 1..Len(subs[k])
  BY <1>1, LenProperties
<1>3. list \in Seq(Subscription) /\ Len(list) = Len(subs[k])
  BY <1>1, <1>2, ExceptSeq
<1>4. subs' = [subs EXCEPT ![k] = list]
  BY <1>1
<1>5. DOMAIN list = DOMAIN subs[k]
     /\ \A i \in DOMAIN subs[k] : list[i].ch = subs[k][i].ch
  BY <1>1
<1> QED
  BY <1>1, <1>3, <1>4, <1>5 DEF ServerTypeOK, SubsKept

\* A new message keeps the type of the queues.
LEMMA DownType ==
    ASSUME ServerTypeOK, NEW k \in Conns, NEW m \in Message, Enqueued(k, m)
    PROVE  down' \in [Conns -> Seq(Message)]
<1>1. down \in [Conns -> Seq(Message)] /\ Append(down[k], m) \in Seq(Message)
  BY DEF ServerTypeOK
<1> QED
  BY <1>1 DEF Enqueued

\* The sids of a connection are in the range of sids.
LEMMA SidsOfSubs ==
    ASSUME ServerTypeOK, NEW k \in Conns, NEW s \in DOMAIN subs[k]
    PROVE  s \in Sids /\ subs[k][s] \in Subscription
<1>1. subs[k] \in Seq(Subscription) /\ Len(subs[k]) <= MaxSubs
  BY DEF ServerTypeOK
<1>2. Len(subs[k]) \in Nat /\ s \in 1..Len(subs[k])
  BY <1>1, LenProperties
<1> QED BY <1>1, <1>2, ElementOfSeq, ServerAssumption DEF Sids, ServerAssumption

\* What a message on connection k does to the queues and the subscriptions.
Enqueues(k, m) ==
    /\ m \in Message /\ Enqueued(k, m)
    /\ subs' \in [Conns -> Seq(Subscription)]
    /\ \A j \in Conns : Len(subs'[j]) <= MaxSubs
    /\ down' \in [Conns -> Seq(Message)]
    /\ SubsKept

\* A message on a subscription.
LEMMA AnswerStep ==
    ASSUME ServerTypeOK, NEW k \in Conns, NEW s \in DOMAIN subs[k],
           NEW sub \in Subscription, sub.ch = subs[k][s].ch,
           NEW type \in MessageTypes, NEW id \in Nat,
           NEW tickers \in SUBSET Tickers, Answer(k, s, sub, type, id, tickers)
    PROVE  \E m : Enqueues(k, m) /\ m.type = type /\ m.id = id
<1> DEFINE m == Msg(type, id, s, Advance(sub).seq, tickers)
<1>1. Advance(sub) \in Subscription /\ Advance(sub).ch = sub.ch
     /\ Advance(sub).seq \in Nat
  BY AdvanceType
<1>2. s \in Sids
  BY SidsOfSubs
<1>3. m \in Message /\ m.type = type /\ m.id = id
  BY <1>1, <1>2 DEF Message, Msg
<1>4. subs' = [subs EXCEPT ![k][s] = Advance(sub)] /\ Enqueued(k, m)
  BY DEF Answer, Enqueued
<1>5. Enqueues(k, m)
  <2> HIDE DEF m
  <2> QED BY <1>1, <1>3, <1>4, SubsReplaced, DownType DEF Enqueues
<1> QED BY <1>3, <1>5

\* An error that belongs to no subscription.
LEMMA ErrorStep ==
    ASSUME ServerTypeOK, NEW k \in Conns, NEW id \in Nat, Error(k, id)
    PROVE  \E m : Enqueues(k, m) /\ m.type = "error" /\ m.id = id
<1> DEFINE m == Msg("error", id, 0, 0, {})
<1>1. m \in Message /\ m.type = "error" /\ m.id = id
  BY DEF Message, Msg, MessageTypes
<1>2. Enqueued(k, m) /\ subs' = subs
  BY DEF Error, Enqueued
<1>3. Enqueues(k, m)
  <2> HIDE DEF m
  <2> QED BY <1>1, <1>2, DownType DEF Enqueues, ServerTypeOK, SubsKept
<1> QED BY <1>1, <1>3

\* A "subscribed" answer names a new subscription of the channel asked for.
SubscribedAnswers(k, cmd, m) ==
    m.type = "subscribed" =>
        /\ cmd.kind = "subscribe"
        /\ m.sid \in DOMAIN subs'[k] /\ subs'[k][m.sid].ch = cmd.ch

\* Every command is answered by one message, with the command's id or, when a
\* snapshot is sent, with none.
LEMMA ReceiveStep ==
    ASSUME ServerTypeOK, NEW k \in Conns, NEW cmd, Received(cmd), Receive(k, cmd)
    PROVE  \E m : /\ Enqueues(k, m) /\ m.id \in {0, cmd.id}
                  /\ SubscribedAnswers(k, cmd, m)
<1> USE DEF Received
<1>0. cmd.id \in Nat /\ cmd.tickers \in SUBSET Tickers
  OBVIOUS
<1>1. CASE AcceptSubscribe(k, cmd)
  <2> DEFINE sub == [ch |-> cmd.ch, global |-> cmd.global,
                     tickers |-> cmd.tickers, live |-> TRUE, seq |-> 0,
                     sent |-> FALSE, lost |-> FALSE, gap |-> 0]
             n == Len(subs[k]) + 1
             m == Msg("subscribed", cmd.id, n, 0, {})
             list == Append(subs[k], sub)
  <2>1. sub \in Subscription /\ sub.ch = cmd.ch
    BY <1>1 DEF AcceptSubscribe, Subscription
  <2>2. subs' = [subs EXCEPT ![k] = list] /\ Enqueued(k, m)
       /\ cmd.kind = "subscribe" /\ Len(subs[k]) < MaxSubs
    BY <1>1 DEF AcceptSubscribe, Enqueued
  <2>3. subs \in [Conns -> Seq(Subscription)] /\ subs[k] \in Seq(Subscription)
       /\ \A j \in Conns : Len(subs[j]) <= MaxSubs
    BY DEF ServerTypeOK
  <2>4. /\ list \in Seq(Subscription) /\ Len(list) = n /\ n \in Sids
        /\ n \in DOMAIN list /\ list[n].ch = cmd.ch
        /\ \A s \in DOMAIN subs[k] : s \in DOMAIN list /\ list[s] = subs[k][s]
    <3> HIDE DEF sub
    <3> QED BY <2>1, <2>2, <2>3, ServerAssumption, LenProperties
            DEF Sids, ServerAssumption
  <2>5. m \in Message /\ m.type = "subscribed" /\ m.id = cmd.id /\ m.sid = n
    <3> HIDE DEF n
    <3> QED BY <2>4 DEF Message, Msg, MessageTypes
  <2> HIDE DEF sub, list, m
  <2>6. /\ subs' \in [Conns -> Seq(Subscription)] /\ SubsKept
        /\ subs'[k] = list /\ \A j \in Conns : Len(subs'[j]) <= MaxSubs
    BY <2>2, <2>3, <2>4, ServerAssumption DEF SubsKept, ServerAssumption
  <2>7. Enqueues(k, m)
    BY <2>2, <2>5, <2>6, DownType DEF Enqueues
  <2> QED BY <2>2, <2>4, <2>5, <2>6, <2>7 DEF SubscribedAnswers
<1>2. CASE AcceptUpdate(k, cmd)
  <2> DEFINE tickers == UpdatedTickers(subs[k][cmd.sid], cmd)
             sub == [subs[k][cmd.sid] EXCEPT !.tickers = tickers, !.global = FALSE]
  <2>1. cmd.sid \in DOMAIN subs[k] /\ Answer(k, cmd.sid, sub, "ok", cmd.id, tickers)
    BY <1>2 DEF AcceptUpdate, Live
  <2>2. subs[k][cmd.sid] \in Subscription
    BY <2>1, SidsOfSubs
  <2>3. tickers \in SUBSET Tickers
    BY <2>2 DEF UpdatedTickers, Subscription
  <2>4. sub \in Subscription /\ sub.ch = subs[k][cmd.sid].ch
    <3> HIDE DEF tickers
    <3> QED BY <2>2, <2>3 DEF Subscription
  <2> HIDE DEF sub, tickers
  <2> QED BY <1>0, <2>1, <2>3, <2>4, AnswerStep DEF SubscribedAnswers, MessageTypes
<1>3. CASE AcceptSnapshot(k, cmd)
  BY <1>0, <1>3, AnswerStep, SidsOfSubs
     DEF AcceptSnapshot, Live, SubscribedAnswers, MessageTypes
<1>4. CASE AcceptUnsubscribe(k, cmd)
  <2> DEFINE sub == [subs[k][cmd.sid] EXCEPT !.live = FALSE]
  <2>1. cmd.sid \in DOMAIN subs[k] /\ Answer(k, cmd.sid, sub, "unsubscribed", cmd.id, {})
    BY <1>4 DEF AcceptUnsubscribe, Live
  <2>2. subs[k][cmd.sid] \in Subscription
    BY <2>1, SidsOfSubs
  <2>3. sub \in Subscription /\ sub.ch = subs[k][cmd.sid].ch
    BY <2>2 DEF Subscription
  <2> HIDE DEF sub
  <2> QED BY <1>0, <2>1, <2>3, AnswerStep DEF SubscribedAnswers, MessageTypes
<1>5. CASE Reject(k, cmd)
  <2>1. CASE Error(k, cmd.id)
    BY <1>0, <2>1, ErrorStep DEF SubscribedAnswers
  <2>2. CASE Live(k, cmd.sid) /\ Answer(k, cmd.sid, subs[k][cmd.sid], "error", cmd.id, {})
    BY <1>0, <2>2, AnswerStep, SidsOfSubs DEF Live, SubscribedAnswers, MessageTypes
  <2> QED BY <1>5, <2>1, <2>2 DEF Reject
<1>6. CASE UnknownSid(k, cmd)
  BY <1>0, <1>6, ErrorStep DEF UnknownSid, SubscribedAnswers
<1> QED BY <1>1, <1>2, <1>3, <1>4, <1>5, <1>6 DEF Receive

\* Closing or losing a connection keeps the type of link.
LEMMA SetLinkType ==
    ASSUME ServerTypeOK, NEW k, NEW s \in LinkStates, SetLink(k, s)
    PROVE  link' \in Seq(LinkStates) /\ Len(link') <= MaxConns
<1>1. link \in Seq(LinkStates) /\ Len(link) <= MaxConns
  BY DEF ServerTypeOK
<1>2. CASE Up(k)
  BY <1>1, <1>2, LenProperties, ExceptSeq DEF SetLink, Up
<1>3. CASE ~Up(k)
  BY <1>1, <1>3 DEF SetLink
<1> QED BY <1>2, <1>3

\* The feed: types, and at most one data message.
LEMMA FeedStep ==
    ASSUME ServerTypeOK, ServerStep
    PROVE  /\ ServerTypeOK' /\ SubsKept
           /\ \/ UNCHANGED down
              \/ \E k \in Conns : \E m : Enqueues(k, m) /\ m.type = "data" /\ m.id = 0
<1>1. PICK k \in Conns : Break(k) \/ \E s \in Sids : Send(k, s) \/ Lose(k, s)
  BY DEF ServerStep
<1>2. CASE Break(k)
  BY <1>2, SetLinkType DEF Break, LinkStates, ServerTypeOK, SubsKept
<1>3. CASE \E s \in Sids : Send(k, s)
  <2> PICK s \in Sids : Send(k, s) BY <1>3
  <2>1. s \in DOMAIN subs[k] /\ Answer(k, s, subs[k][s], "data", 0, {})
       /\ UNCHANGED link
    BY <1>3 DEF Send, CanSend, Live
  <2>2. PICK m : Enqueues(k, m) /\ m.type = "data" /\ m.id = 0
    BY <2>1, AnswerStep, SidsOfSubs DEF MessageTypes
  <2> QED BY <2>1, <2>2 DEF Enqueues, ServerTypeOK
<1>4. CASE \E s \in Sids : Lose(k, s)
  <2> PICK s \in Sids : Lose(k, s) BY <1>4
  <2>1. s \in DOMAIN subs[k] /\ UNCHANGED <<link, down>>
       /\ subs' = [subs EXCEPT ![k][s] = Skipped(subs[k][s])]
    BY <1>4 DEF Lose, CanSend, Live
  <2>2. subs[k][s] \in Subscription
    BY <2>1, SidsOfSubs
  <2> QED BY <2>1, <2>2, SkippedType, SubsReplaced DEF ServerTypeOK
<1> QED BY <1>1, <1>2, <1>3, <1>4

-----------------------------------------------------------------------------
(* The shape of the state: types, and what the control points imply.       *)

\* A command names a channel, and a method in progress has channels left.
CommandShape ==
    /\ \A p \in Procs : out[p].kind = "none" \/ out[p].ch \in Channels
    /\ \A p \in Callers :
         call[p].op \notin {"none", "connect", "close"} => call[p].chs # <<>>

Sending == {"register", "grab", "write", "finish"}
Attached == {"read", "deliver", "check", "returned"}
Detached == {"top", "dial", "wait", "enter", "waitLoss", "redial", "recover",
             "next", "panic"}

\* Where the reader is tells what it sends, which connection it reads and
\* whether it holds the state of a channel.
ReaderShape ==
    /\ pc[Reader] \in Attached => rconn # NoConn
    /\ pc[Reader] \in Sending =>
         \/ out[Reader].kind = "add" /\ rconn # NoConn /\ flushing # Nil
         \/ out[Reader].kind = "subscribe" /\ rconn = NoConn
    /\ pc[Reader] \in Detached => rconn = NoConn

Shape == TypeOK /\ CommandShape /\ ReaderShape

-----------------------------------------------------------------------------
(* The inductive invariant.                                                *)

\* A channel's state carries its name, so two channels never share one.
NamesMatch ==
    \A ch \in Channels : channels[ch] # Nil => obj[channels[ch]].name = ch

\* No id in use is beyond the counter.
IdsBounded ==
    /\ \A p \in Procs : out[p].id <= msgID
    /\ \A e \in pendingInit : e.id \in 1..msgID
    /\ \A k \in Conns : \A i \in DOMAIN down[k] : down[k][i].id <= msgID

\* A "subscribed" answer still to be read, on whatever connection, is about the
\* channel that pendingInit notes for its id.
AnswersTrue ==
    \A k \in Conns : \A i \in DOMAIN down[k] :
        LET m == down[k][i]
        IN  m.type = "subscribed" =>
              /\ m.sid \in DOMAIN subs[k]
              /\ \A e \in pendingInit : e.id = m.id => e.ch = subs[k][m.sid].ch

Inv == /\ Shape /\ NamesMatch /\ IdsBounded /\ IdsUnique
       /\ AnswersTrue /\ RoutingSound

-----------------------------------------------------------------------------
(* Facts about records and functions that several steps use.               *)

\* The reader is not one of the callers.
LEMMA ReaderIsNoCaller ==
    /\ Reader \in Procs /\ Callers \subseteq Procs
    /\ \A p \in Callers : p # Reader
  BY ClientAssumption DEF Procs, ClientAssumption

\* A sequence of two or more elements has a tail with one.
LEMMA TailType ==
    ASSUME NEW S, NEW s \in Seq(S), s # <<>>, Len(s) # 1
    PROVE  Tail(s) \in Seq(S) /\ Tail(s) # <<>>
<1>1. Len(s) \in Nat \ {0} /\ Len(<<>>) = 0
  BY EmptySeq
<1>2. Tail(s) \in Seq(S) /\ Len(Tail(s)) = Len(s) - 1
  BY HeadTailProperties
<1>3. \A n \in Nat \ {0} : n # 1 => n - 1 # 0
  OBVIOUS
<1>4. Len(Tail(s)) # 0
  BY <1>1, <1>2, <1>3, Zenon
<1> QED BY <1>1, <1>2, <1>4, Zenon

\* The command a goroutine starts to send has no id yet.
NewCommand(cmd) ==
    /\ cmd \in SendRecord /\ cmd.id = 0
    /\ cmd.kind = "none" \/ cmd.ch \in Channels

\* No command at all is a new command.
LEMMA NoSendType == NewCommand(NoSend)
  BY DEF NewCommand, NoSend, SendRecord, OutKinds

\* A command made from fields of the right types is one.
LEMMA CommandType ==
    ASSUME NEW kind \in Kinds, NEW ch \in Channels, NEW sid \in Sids \cup {NoSID},
           NEW tickers \in SUBSET Tickers, NEW global \in BOOLEAN
    PROVE  /\ NewCommand(Command(kind, ch, sid, tickers, global))
           /\ Command(kind, ch, sid, tickers, global).kind = kind
  BY DEF NewCommand, Command, SendRecord, OutKinds

\* One object gets a new state, under its old name.
Renewed(o, state) ==
    /\ state \in ChannelState /\ state.name = obj[o].name
    /\ obj' = [obj EXCEPT ![o] = state]

NamesKept == \A o \in Objs : obj'[o].name = obj[o].name

\* Renewing one state keeps the heap's type and the names.
LEMMA RenewedType ==
    ASSUME obj \in [Objs -> ChannelState], NEW o \in Objs, NEW state,
           Renewed(o, state)
    PROVE  obj' \in [Objs -> ChannelState] /\ NamesKept
  BY DEF Renewed, NamesKept

\* The fields of a state that change in place.
LEMMA StateFields ==
    ASSUME NEW st \in ChannelState
    PROVE  /\ \A x \in SUBSET Tickers :
                /\ [st EXCEPT !.markets = x] \in ChannelState
                /\ [st EXCEPT !.markets = x].name = st.name
           /\ \A x \in SUBSET Tickers :
                /\ [st EXCEPT !.pending = x] \in ChannelState
                /\ [st EXCEPT !.pending = x].name = st.name
           /\ \A x \in Nat :
                /\ [st EXCEPT !.seq = x] \in ChannelState
                /\ [st EXCEPT !.seq = x].name = st.name
           /\ [st EXCEPT !.global = FALSE] \in ChannelState
           /\ [st EXCEPT !.global = FALSE].name = st.name
           /\ st.markets \in SUBSET Tickers /\ st.pending \in SUBSET Tickers
           /\ st.sid \in Sids \cup {NoSID} /\ st.seq \in Nat
           /\ st.global \in BOOLEAN /\ st.name \in Channels
  BY DEF ChannelState

-----------------------------------------------------------------------------
(* What one step of a method does, whatever the method.                    *)

\* To the goroutine that makes it ...
ControlEffect(p) ==
    /\ \E l \in CallerLabels : pc' = [pc EXCEPT ![p] = l]
    /\ \E cmd : /\ NewCommand(cmd) \/ cmd = out[p]
                /\ out' = [out EXCEPT ![p] = cmd]
    /\ \E c \in CallRecord :
         /\ c.op \notin {"none", "connect", "close"} => c.chs # <<>>
         /\ call' = [call EXCEPT ![p] = c]
    /\ mu' \in Procs \cup {Nobody}

\* ... and to the client's state.
HeapEffect ==
    /\ pendingInit' \subseteq pendingInit
    /\ channels' \in [Channels -> Objs \cup {Nil}]
    /\ obj' \in [Objs -> ChannelState]
    /\ NamesMatch'
    /\ sidMap' \in [Sids -> Objs \cup {Nil}]
    /\ \A s \in Sids : sidMap'[s] # Nil =>
         sidMap'[s] = sidMap[s] /\ obj'[sidMap[s]].name = obj[sidMap[s]].name

\* Returning is a step of the caller's own control ...
LEMMA ReturnControl ==
    ASSUME Shape, NEW p \in Callers, Return(p)
    PROVE  ControlEffect(p)
<1>1. NoCall \in CallRecord /\ NoCall.op = "none"
  BY EmptySeq DEF NoCall, CallRecord
<1>2. pc' = [pc EXCEPT ![p] = "idle"] /\ out' = [out EXCEPT ![p] = NoSend]
     /\ call' = [call EXCEPT ![p] = NoCall] /\ mu' = Nobody
  BY DEF Return, Unlock
<1> QED BY <1>1, <1>2, NoSendType DEF ControlEffect, CallerLabels

\* ... and so is going on with the next channel ...
LEMMA ContinueControl ==
    ASSUME Shape, NEW p \in Callers, Continue(p),
           call[p].op \notin {"none", "connect", "close"}
    PROVE  ControlEffect(p)
<1>1. CASE Len(call[p].chs) = 1
  BY <1>1, ReturnControl DEF Continue
<1>2. CASE Len(call[p].chs) # 1
  <2> DEFINE c == [call[p] EXCEPT !.chs = Tail(@), !.state = Nil, !.created = FALSE]
  <2>1. call \in [Callers -> CallRecord] /\ call[p] \in CallRecord
       /\ call[p].chs # <<>>
    BY DEF Shape, TypeOK, CommandShape
  <2>2. call[p].chs \in Seq(Channels)
    BY <2>1 DEF CallRecord
  <2>3. Tail(call[p].chs) \in Seq(Channels) /\ Tail(call[p].chs) # <<>>
    BY <1>2, <2>1, <2>2, TailType
  <2>4. c \in CallRecord /\ c.chs # <<>>
    BY <2>1, <2>3 DEF CallRecord
  <2>5. call' = [call EXCEPT ![p] = c]
    <3>1. call' = [call EXCEPT ![p].chs = Tail(@), ![p].state = Nil,
                               ![p].created = FALSE]
      BY <1>2 DEF Continue
    <3> QED BY <2>1, <3>1
  <2>6. pc' = [pc EXCEPT ![p] = "section"] /\ out' = [out EXCEPT ![p] = NoSend]
       /\ mu' = p
    BY <1>2 DEF Continue
  <2> HIDE DEF c
  <2> QED
    BY <2>4, <2>5, <2>6, NoSendType, ReaderIsNoCaller DEF ControlEffect, CallerLabels
<1> QED BY <1>1, <1>2

\* ... and so is unlocking to send.
LEMMA StartControl ==
    ASSUME Shape, NEW p \in Callers, NEW cmd, NewCommand(cmd), SendStart(p, cmd),
           \/ UNCHANGED call
           \/ \E o \in Objs \cup {Nil}, created \in BOOLEAN :
                call' = [call EXCEPT ![p].state = o, ![p].created = created]
    PROVE  ControlEffect(p)
<1>1. call \in [Callers -> CallRecord] /\ call[p] \in CallRecord
     /\ (call[p].op \notin {"none", "connect", "close"} => call[p].chs # <<>>)
  BY DEF Shape, TypeOK, CommandShape
<1>2. \E c \in CallRecord :
        /\ c.op \notin {"none", "connect", "close"} => c.chs # <<>>
        /\ call' = [call EXCEPT ![p] = c]
  <2>1. CASE UNCHANGED call
    BY <1>1, <2>1
  <2>2. ASSUME NEW o \in Objs \cup {Nil}, NEW created \in BOOLEAN,
               call' = [call EXCEPT ![p].state = o, ![p].created = created]
        PROVE  \E c \in CallRecord :
                 /\ c.op \notin {"none", "connect", "close"} => c.chs # <<>>
                 /\ call' = [call EXCEPT ![p] = c]
    <3> DEFINE c == [call[p] EXCEPT !.state = o, !.created = created]
    <3>1. c \in CallRecord /\ c.op = call[p].op /\ c.chs = call[p].chs
      BY <1>1 DEF CallRecord
    <3>2. call' = [call EXCEPT ![p] = c]
      BY <1>1, <2>2
    <3> HIDE DEF c
    <3> QED BY <1>1, <3>1, <3>2
  <2> QED BY <2>1, <2>2
<1>3. pc' = [pc EXCEPT ![p] = "register"] /\ out' = [out EXCEPT ![p] = cmd]
     /\ mu' = Nobody
  BY DEF SendStart, Unlock
<1> QED BY <1>2, <1>3 DEF ControlEffect, CallerLabels

\* The variables that only the connection and the flags concern.
FlagTypes ==
    /\ link' \in Seq(LinkStates) /\ Len(link') <= MaxConns
    /\ conn' \in Conns \cup {NoConn}
    /\ msgCh' \in Seq(Dispatched) /\ Len(msgCh') <= BufSize
    /\ closed' \in BOOLEAN /\ force' \in BOOLEAN /\ ctxDone' \in BOOLEAN
    /\ callsLeft' \in 0..MaxCalls

\* The types of the flags, when nothing happens to them.
LEMMA FlagsKept ==
    ASSUME TypeOK, UNCHANGED <<link, conn, flagVars>>
    PROVE  FlagTypes
  BY DEF TypeOK, ServerTypeOK, FlagTypes, flagVars

\* A caller's step keeps the invariant: it does not touch what the reader reads.
LEMMA CallerInv ==
    ASSUME Inv, NEW p \in Callers, ControlEffect(p), HeapEffect, FlagTypes,
           UNCHANGED <<subs, down, msgID, readerVars>>
    PROVE  Inv'
<1>1. PICK l \in CallerLabels, cmd \in SendRecord, c \in CallRecord :
        /\ NewCommand(cmd) \/ cmd = out[p]
        /\ c.op \notin {"none", "connect", "close"} => c.chs # <<>>
        /\ pc' = [pc EXCEPT ![p] = l]
        /\ out' = [out EXCEPT ![p] = cmd]
        /\ call' = [call EXCEPT ![p] = c]
  BY ReaderIsNoCaller DEF Inv, Shape, TypeOK, ControlEffect, NewCommand
<1>2. p \in Procs /\ p # Reader /\ Reader \in Procs
  BY ReaderIsNoCaller
<1>3. /\ pc \in [Procs -> CallerLabels \cup ReaderLabels]
      /\ out \in [Procs -> SendRecord] /\ call \in [Callers -> CallRecord]
      /\ cmd \in SendRecord /\ (cmd.id = 0 \/ cmd = out[p])
      /\ msgID \in Nat /\ pendingInit \subseteq Pending
  BY <1>1 DEF Inv, Shape, TypeOK, NewCommand
<1>4. /\ pc' \in [Procs -> CallerLabels \cup ReaderLabels]
      /\ pc'[Reader] = pc[Reader] /\ out'[Reader] = out[Reader]
  BY <1>1, <1>2, <1>3
<1>5. /\ out' \in [Procs -> SendRecord]
      /\ \A q \in Procs : out'[q] = IF q = p THEN cmd ELSE out[q]
  BY <1>1, <1>2, <1>3
<1>6. /\ call' \in [Callers -> CallRecord]
      /\ \A q \in Callers : call'[q] = IF q = p THEN c ELSE call[q]
  BY <1>1, <1>2, <1>3
<1>7. TypeOK'
  BY <1>3, <1>4, <1>5, <1>6 DEF Inv, Shape, TypeOK, ServerTypeOK, HeapEffect,
     ControlEffect, FlagTypes, readerVars
<1>8. CommandShape'
  BY <1>1, <1>5, <1>6 DEF Inv, Shape, CommandShape, NewCommand
<1>9. ReaderShape'
  BY <1>2, <1>4, <1>5 DEF Inv, Shape, ReaderShape, readerVars
<1>10. IdsBounded'
  <2>1. \A q \in Procs : out'[q].id = 0 \/ out'[q].id = out[q].id
    BY <1>3, <1>5
  <2>2. 0 <= msgID /\ msgID' = msgID /\ down' = down
    BY <1>3
  <2> QED BY <2>1, <2>2 DEF Inv, IdsBounded, HeapEffect
<1>11. IdsUnique'
  <2>1. \A q \in Procs : out'[q].id = 0 \/ out'[q] = out[q]
    BY <1>3, <1>5
  <2>2. \A e \in pendingInit : e.id # 0
    BY DEF Inv, IdsBounded
  <2> QED BY <2>1, <2>2 DEF Inv, IdsUnique, HeapEffect
<1>12. AnswersTrue'
  BY DEF Inv, AnswersTrue, HeapEffect
<1>13. RoutingSound'
  BY DEF Inv, RoutingSound, HeapEffect, readerVars
<1> QED
  BY <1>7, <1>8, <1>9, <1>10, <1>11, <1>12, <1>13 DEF Inv, Shape, HeapEffect

\* A step that also leaves the flags and the connection alone.
LEMMA MethodInv ==
    ASSUME Inv, NEW p \in Callers, MethodFrame, ControlEffect(p), HeapEffect
    PROVE  Inv'
<1>1. UNCHANGED <<subs, down, msgID, readerVars>> /\ UNCHANGED <<link, conn, flagVars>>
  BY DEF MethodFrame, serverVars
<1> QED BY <1>1, FlagsKept, CallerInv DEF Inv, Shape

\* A step that leaves the heap alone.
LEMMA HeapKept ==
    ASSUME Inv, UNCHANGED <<pendingInit, stateVars>>
    PROVE  HeapEffect
  BY DEF Inv, Shape, TypeOK, NamesMatch, HeapEffect, stateVars

\* The arguments of a call in progress.
LEMMA CallFacts ==
    ASSUME Inv, NEW p \in Callers, call[p].op \notin {"none", "connect", "close"}
    PROVE  /\ Ch(p) \in Channels
           /\ call[p].tickers \in SUBSET Tickers /\ call[p].global \in BOOLEAN
<1>1. call[p] \in CallRecord /\ call[p].chs # <<>>
  BY DEF Inv, Shape, TypeOK, CommandShape
<1>2. /\ call[p].chs \in Seq(Channels)
      /\ call[p].tickers \in SUBSET Tickers /\ call[p].global \in BOOLEAN
  BY <1>1 DEF CallRecord
<1> QED BY <1>1, <1>2, HeadTailProperties DEF Ch

\* Forgetting a channel only removes.
LEMMA ForgetHeap ==
    ASSUME Inv, NEW ch \in Channels, ForgetChannel(ch)
    PROVE  HeapEffect
<1>1. channels' = [channels EXCEPT ![ch] = Nil] /\ UNCHANGED <<sidMap, obj>>
  BY DEF ForgetChannel
<1>2. pendingInit' \subseteq pendingInit
  BY DEF ForgetChannel
<1>3. /\ channels \in [Channels -> Objs \cup {Nil}] /\ obj \in [Objs -> ChannelState]
      /\ sidMap \in [Sids -> Objs \cup {Nil}]
  BY DEF Inv, Shape, TypeOK
<1> QED BY <1>1, <1>2, <1>3 DEF Inv, NamesMatch, HeapEffect

\* Changing one state under its name, or nothing but channels lost.
LEMMA RenewHeap ==
    ASSUME Inv, NEW o \in Objs, NEW state, Renewed(o, state),
           UNCHANGED <<pendingInit, channels, sidMap>>
    PROVE  HeapEffect
<1>1. obj' \in [Objs -> ChannelState] /\ NamesKept
  BY RenewedType DEF Inv, Shape, TypeOK
<1>2. /\ channels \in [Channels -> Objs \cup {Nil}] /\ obj \in [Objs -> ChannelState]
      /\ sidMap \in [Sids -> Objs \cup {Nil}]
  BY DEF Inv, Shape, TypeOK
<1> QED BY <1>1, <1>2 DEF Inv, NamesMatch, HeapEffect, NamesKept

\* A new object for a channel that has none.
LEMMA AllocateHeap ==
    ASSUME Inv, NEW ch \in Channels, channels[ch] = Nil, NEW o \in Unused,
           NEW state \in ChannelState, state.name = ch,
           obj' = [obj EXCEPT ![o] = state],
           channels' = [channels EXCEPT ![ch] = o],
           UNCHANGED <<pendingInit, sidMap>>
    PROVE  HeapEffect
<1>1. /\ channels \in [Channels -> Objs \cup {Nil}] /\ obj \in [Objs -> ChannelState]
      /\ sidMap \in [Sids -> Objs \cup {Nil}]
  BY DEF Inv, Shape, TypeOK
<1>2. /\ o \in Objs /\ \A d \in Channels : channels[d] # Nil => channels[d] # o
      /\ \A s \in Sids : sidMap[s] # Nil => sidMap[s] # o
  BY DEF Unused, Registered, Mapped
<1>3. obj' \in [Objs -> ChannelState] /\ obj'[o].name = ch
     /\ \A x \in Objs : x # o => obj'[x] = obj[x]
  BY <1>1, <1>2
<1>4. channels' \in [Channels -> Objs \cup {Nil}] /\ channels'[ch] = o
     /\ \A d \in Channels : d # ch => channels'[d] = channels[d]
  BY <1>1, <1>2
<1>5. NamesMatch'
  BY <1>1, <1>2, <1>3, <1>4 DEF Inv, NamesMatch
<1>6. \A s \in Sids : sidMap[s] # Nil => obj'[sidMap[s]].name = obj[sidMap[s]].name
  BY <1>1, <1>2, <1>3
<1> QED BY <1>1, <1>3, <1>4, <1>5, <1>6 DEF HeapEffect

-----------------------------------------------------------------------------
(* The methods: each action of a caller preserves the invariant.           *)

\* Subscribe allocates a state, or finds the channel and returns.
LEMMA SubscribeInv == ASSUME Inv, NEW p \in Callers, Subscribe(p) PROVE Inv'
<1>1. MethodFrame /\ call[p].op = "subscribe" /\ UNCHANGED pendingInit
  BY DEF Subscribe, InSection
<1>2. /\ Ch(p) \in Channels
      /\ call[p].tickers \in SUBSET Tickers /\ call[p].global \in BOOLEAN
  BY <1>1, CallFacts
<1>3. CASE channels[Ch(p)] # Nil /\ Return(p) /\ UNCHANGED stateVars
  BY <1>1, <1>3, ReturnControl, HeapKept, MethodInv DEF Inv
<1>4. CASE ~(channels[Ch(p)] # Nil /\ Return(p) /\ UNCHANGED stateVars)
  <2> DEFINE state == NewChannelState(Ch(p), call[p].tickers, call[p].global)
             cmd == Command("subscribe", Ch(p), NoSID, call[p].tickers,
                            call[p].global)
  <2>1. PICK o \in Objs :
          /\ channels[Ch(p)] = Nil /\ FirstUnused(o) /\ UNCHANGED sidMap
          /\ obj' = [obj EXCEPT ![o] = state]
          /\ channels' = [channels EXCEPT ![Ch(p)] = o]
          /\ SendFor(p, o, TRUE, cmd)
    BY <1>4 DEF Subscribe
  <2>2. state \in ChannelState /\ state.name = Ch(p)
    BY <1>2 DEF NewChannelState, ChannelState
  <2>3. NewCommand(cmd)
    BY <1>2, CommandType DEF Kinds
  <2> HIDE DEF state, cmd
  <2>4. ControlEffect(p)
    BY <2>1, <2>3, StartControl DEF SendFor, Inv
  <2>5. HeapEffect
    BY <1>1, <1>2, <2>1, <2>2, AllocateHeap DEF FirstUnused
  <2> QED BY <1>1, <2>4, <2>5, MethodInv
<1> QED BY <1>3, <1>4

\* Subscribe goes on, or forgets the channel.
LEMMA SubscribeSentInv ==
    ASSUME Inv, NEW p \in Callers, SubscribeSent(p) PROVE Inv'
<1>1. MethodFrame /\ call[p].op = "subscribe"
  BY DEF SubscribeSent, InFinish
<1>2. Ch(p) \in Channels
  BY <1>1, CallFacts
<1>3. CASE Continue(p) /\ UNCHANGED <<pendingInit, stateVars>>
  BY <1>1, <1>3, ContinueControl, HeapKept, MethodInv DEF Inv
<1>4. CASE Return(p) /\ ForgetChannel(Ch(p))
  BY <1>1, <1>2, <1>4, ReturnControl, ForgetHeap, MethodInv DEF Inv
<1> QED BY <1>3, <1>4 DEF SubscribeSent

\* Unsubscribe skips, forgets or starts to send.
LEMMA UnsubscribeInv ==
    ASSUME Inv, NEW p \in Callers, Unsubscribe(p) PROVE Inv'
<1>1. MethodFrame /\ call[p].op = "unsubscribe"
  BY DEF Unsubscribe, InSection
<1>2. Ch(p) \in Channels
  BY <1>1, CallFacts
<1>3. CASE Continue(p) /\ UNCHANGED <<pendingInit, stateVars>>
  BY <1>1, <1>3, ContinueControl, HeapKept, MethodInv DEF Inv
<1>4. CASE ForgetChannel(Ch(p)) /\ Continue(p)
  BY <1>1, <1>2, <1>4, ContinueControl, ForgetHeap, MethodInv DEF Inv
<1>5. CASE /\ channels[Ch(p)] # Nil
           /\ SendStart(p, Command("unsubscribe", Ch(p),
                                   obj[channels[Ch(p)]].sid, {}, FALSE))
           /\ UNCHANGED <<call, pendingInit, stateVars>>
  <2> DEFINE cmd == Command("unsubscribe", Ch(p), obj[channels[Ch(p)]].sid, {}, FALSE)
  <2>1. obj[channels[Ch(p)]].sid \in Sids \cup {NoSID}
    BY <1>2, <1>5, StateFields DEF Inv, Shape, TypeOK
  <2>2. NewCommand(cmd)
    BY <1>2, <2>1, CommandType DEF Kinds
  <2> HIDE DEF cmd
  <2>3. SendStart(p, cmd) /\ UNCHANGED <<call, pendingInit, stateVars>>
    BY <1>5 DEF cmd
  <2> QED BY <1>1, <2>2, <2>3, StartControl, HeapKept, MethodInv DEF Inv
<1> QED BY <1>3, <1>4, <1>5 DEF Unsubscribe

\* Unsubscribe deletes the sid it copied, whoever has it now.
LEMMA UnsubscribeSentInv ==
    ASSUME Inv, NEW p \in Callers, UnsubscribeSent(p) PROVE Inv'
<1>1. MethodFrame /\ call[p].op = "unsubscribe" /\ UNCHANGED <<pendingInit, obj>>
  BY DEF UnsubscribeSent, InFinish
<1>2. /\ channels \in [Channels -> Objs \cup {Nil}] /\ obj \in [Objs -> ChannelState]
      /\ sidMap \in [Sids -> Objs \cup {Nil}]
  BY DEF Inv, Shape, TypeOK
<1>3. CASE /\ Continue(p)
           /\ sidMap' = [sidMap EXCEPT ![out[p].sid] = Nil]
           /\ channels' = [channels EXCEPT ![Ch(p)] = Nil]
  <2>1. HeapEffect
    BY <1>1, <1>2, <1>3 DEF Inv, NamesMatch, HeapEffect
  <2> QED BY <1>1, <1>3, <2>1, ContinueControl, MethodInv DEF Inv
<1>4. CASE Return(p) /\ UNCHANGED <<sidMap, channels>>
  <2>1. HeapEffect
    BY <1>1, <1>4, HeapKept DEF stateVars
  <2> QED BY <1>1, <1>4, <2>1, ReturnControl, MethodInv DEF Inv
<1> QED BY <1>3, <1>4 DEF UnsubscribeSent

\* AddMarkets notes its tickers in the state it points to.
LEMMA AddMarketsSentInv ==
    ASSUME Inv, NEW p \in Callers, AddMarketsSent(p) PROVE Inv'
<1>1. MethodFrame /\ call[p].op = "add"
  BY DEF AddMarketsSent, InFinish
<1>2. Ch(p) \in Channels
  BY <1>1, CallFacts
<1>3. CASE Return(p) /\ ForgetChannel(Ch(p))
  BY <1>1, <1>2, <1>3, ReturnControl, ForgetHeap, MethodInv DEF Inv
<1>4. CASE Return(p) /\ UNCHANGED <<pendingInit, stateVars>>
  BY <1>1, <1>4, ReturnControl, HeapKept, MethodInv DEF Inv
<1>5. CASE /\ Continue(p) /\ UNCHANGED <<channels, sidMap, pendingInit>>
           /\ obj' = [obj EXCEPT ![call[p].state].markets = @ \cup out[p].tickers]
  <2> DEFINE o == call[p].state
             state == [obj[o] EXCEPT !.markets = @ \cup out[p].tickers]
  <2>1. /\ obj \in [Objs -> ChannelState] /\ out[p].tickers \in SUBSET Tickers
    BY ReaderIsNoCaller DEF Inv, Shape, TypeOK, SendRecord
  <2>2. CASE o \in Objs
    <3>1. obj[o].markets \cup out[p].tickers \in SUBSET Tickers
      BY <2>1, <2>2, StateFields
    <3>2. Renewed(o, state)
      BY <1>5, <2>1, <2>2, <3>1, StateFields DEF Renewed
    <3> HIDE DEF o, state
    <3>3. HeapEffect
      BY <1>5, <2>2, <3>2, RenewHeap
    <3> QED BY <1>1, <1>5, <3>3, ContinueControl, MethodInv DEF Inv
  <2>3. CASE o \notin Objs
    <3>1. obj' = obj
      BY <1>5, <2>1, <2>3
    <3>2. HeapEffect
      BY <1>5, <3>1, HeapKept DEF stateVars
    <3> QED BY <1>1, <1>5, <3>2, ContinueControl, MethodInv DEF Inv
  <2> QED BY <2>2, <2>3
<1> QED BY <1>3, <1>4, <1>5 DEF AddMarketsSent

\* RemoveMarkets drops its tickers from the state it points to.
LEMMA RemoveMarketsSentInv ==
    ASSUME Inv, NEW p \in Callers, RemoveMarketsSent(p) PROVE Inv'
<1>1. /\ MethodFrame /\ call[p].op = "remove"
      /\ UNCHANGED <<pendingInit, channels, sidMap>>
  BY DEF RemoveMarketsSent, InFinish
<1>2. CASE Return(p) /\ UNCHANGED obj
  <2>1. HeapEffect
    BY <1>1, <1>2, HeapKept DEF stateVars
  <2> QED BY <1>1, <1>2, <2>1, ReturnControl, MethodInv DEF Inv
<1>3. CASE /\ Continue(p)
           /\ obj' = [obj EXCEPT ![call[p].state].markets = @ \ out[p].tickers]
  <2> DEFINE o == call[p].state
             state == [obj[o] EXCEPT !.markets = @ \ out[p].tickers]
  <2>1. obj \in [Objs -> ChannelState]
    BY DEF Inv, Shape, TypeOK
  <2>2. CASE o \in Objs
    <3>1. obj[o].markets \ out[p].tickers \in SUBSET Tickers
      BY <2>1, <2>2, StateFields
    <3>2. Renewed(o, state)
      BY <1>3, <2>1, <2>2, <3>1, StateFields DEF Renewed
    <3> HIDE DEF o, state
    <3>3. HeapEffect
      BY <1>1, <2>2, <3>2, RenewHeap
    <3> QED BY <1>1, <1>3, <3>3, ContinueControl, MethodInv DEF Inv
  <2>3. CASE o \notin Objs
    <3>1. obj' = obj
      BY <1>3, <2>1, <2>3
    <3>2. HeapEffect
      BY <1>1, <3>1, HeapKept DEF stateVars
    <3> QED BY <1>1, <1>3, <3>2, ContinueControl, MethodInv DEF Inv
  <2> QED BY <2>2, <2>3
<1> QED BY <1>2, <1>3 DEF RemoveMarketsSent

\* GetSnapshot skips a channel or starts to send.
LEMMA GetSnapshotInv ==
    ASSUME Inv, NEW p \in Callers, GetSnapshot(p) PROVE Inv'
<1>1. /\ MethodFrame /\ call[p].op = "snapshot"
      /\ UNCHANGED <<pendingInit, stateVars>>
  BY DEF GetSnapshot, InSection
<1>2. Ch(p) \in Channels /\ call[p].tickers \in SUBSET Tickers
  BY <1>1, CallFacts
<1>3. CASE Continue(p)
  BY <1>1, <1>3, ContinueControl, HeapKept, MethodInv DEF Inv
<1>4. CASE /\ channels[Ch(p)] # Nil /\ UNCHANGED call
           /\ SendStart(p, Command("snapshot", Ch(p), obj[channels[Ch(p)]].sid,
                                   call[p].tickers, FALSE))
  <2> DEFINE cmd == Command("snapshot", Ch(p), obj[channels[Ch(p)]].sid,
                            call[p].tickers, FALSE)
  <2>1. obj[channels[Ch(p)]].sid \in Sids \cup {NoSID}
    BY <1>2, <1>4, StateFields DEF Inv, Shape, TypeOK
  <2>2. NewCommand(cmd)
    BY <1>2, <2>1, CommandType DEF Kinds
  <2> HIDE DEF cmd
  <2>3. SendStart(p, cmd) /\ UNCHANGED call
    BY <1>4 DEF cmd
  <2> QED BY <1>1, <2>2, <2>3, StartControl, HeapKept, MethodInv DEF Inv
<1> QED BY <1>3, <1>4 DEF GetSnapshot, HasSID

\* GetSnapshot changes no state.
LEMMA GetSnapshotSentInv ==
    ASSUME Inv, NEW p \in Callers, GetSnapshotSent(p) PROVE Inv'
<1>1. /\ MethodFrame /\ call[p].op = "snapshot"
      /\ UNCHANGED <<pendingInit, stateVars>> /\ (Continue(p) \/ Return(p))
  BY DEF GetSnapshotSent, InFinish
<1> QED BY <1>1, ContinueControl, ReturnControl, HeapKept, MethodInv DEF Inv

\* RemoveMarkets narrows the state and starts to send.
LEMMA RemoveMarketsInv ==
    ASSUME Inv, NEW p \in Callers, RemoveMarkets(p) PROVE Inv'
<1>1. /\ MethodFrame /\ call[p].op = "remove"
      /\ UNCHANGED <<pendingInit, channels, sidMap>>
  BY DEF RemoveMarkets, InSection
<1>2. Ch(p) \in Channels /\ call[p].tickers \in SUBSET Tickers
  BY <1>1, CallFacts
<1>3. CASE Continue(p) /\ UNCHANGED obj
  <2>1. HeapEffect
    BY <1>1, <1>3, HeapKept DEF stateVars
  <2> QED BY <1>1, <1>3, <2>1, ContinueControl, MethodInv DEF Inv
<1>4. CASE ~(Continue(p) /\ UNCHANGED obj)
  <2> DEFINE o == channels[Ch(p)]
             cmd == Command("delete", Ch(p), obj[o].sid, call[p].tickers, FALSE)
             state == [obj[o] EXCEPT !.global = FALSE]
  <2>1. /\ o # Nil /\ obj' = [obj EXCEPT ![o].global = FALSE]
        /\ SendFor(p, o, FALSE, cmd)
    BY <1>4 DEF RemoveMarkets, HasSID
  <2>2. o \in Objs /\ obj \in [Objs -> ChannelState]
    BY <1>2, <2>1 DEF Inv, Shape, TypeOK
  <2>3. NewCommand(cmd)
    BY <1>2, <2>2, StateFields, CommandType DEF Kinds
  <2>4. Renewed(o, state)
    BY <2>1, <2>2, StateFields DEF Renewed
  <2> HIDE DEF o, cmd, state
  <2>5. HeapEffect
    BY <1>1, <2>2, <2>4, RenewHeap
  <2> QED BY <1>1, <2>1, <2>2, <2>3, <2>5, StartControl, MethodInv DEF SendFor, Inv
<1> QED BY <1>3, <1>4

\* AddMarkets allocates or narrows a state, then queues, sends or goes on.
LEMMA AddMarketsInv ==
    ASSUME Inv, NEW p \in Callers, AddMarkets(p) PROVE Inv'
<1>1. /\ MethodFrame /\ call[p].op = "add" /\ UNCHANGED <<sidMap, pendingInit>>
  BY DEF AddMarkets, InSection
<1>2. Ch(p) \in Channels /\ call[p].tickers \in SUBSET Tickers
  BY <1>1, CallFacts
<1>3. PICK o \in Objs, created \in BOOLEAN :
        LET state == TargetState(p, o, created)
            new == call[p].tickers \ state.markets
            queue == new # {} /\ state.sid = NoSID /\ IsPending(Ch(p))
        IN  /\ Target(p, o, created)
            /\ channels' = [channels EXCEPT ![Ch(p)] = o]
            /\ obj' = [obj EXCEPT ![o] =
                 IF queue THEN [state EXCEPT !.pending = @ \cup new] ELSE state]
            /\ \/ Continue(p)
               \/ SendFor(p, o, created, Command("add", Ch(p), state.sid, new, FALSE))
               \/ SendFor(p, o, created, Command("subscribe", Ch(p), NoSID, new, FALSE))
  BY DEF AddMarkets
<1> DEFINE state == TargetState(p, o, created)
           new == call[p].tickers \ state.markets
           next == IF new # {} /\ state.sid = NoSID /\ IsPending(Ch(p))
                   THEN [state EXCEPT !.pending = @ \cup new] ELSE state
<1>4. /\ obj \in [Objs -> ChannelState] /\ channels \in [Channels -> Objs \cup {Nil}]
      /\ Target(p, o, created)
  BY <1>3 DEF Inv, Shape, TypeOK
<1>5. state \in ChannelState
     /\ state.name = IF created THEN Ch(p) ELSE obj[o].name
  <2>1. CASE created
    BY <1>2, <2>1 DEF TargetState, NewChannelState, ChannelState
  <2>2. CASE ~created
    BY <1>4, <2>2, StateFields DEF TargetState
  <2> QED BY <2>1, <2>2
<1>6. new \in SUBSET Tickers /\ state.sid \in Sids \cup {NoSID}
     /\ state.pending \cup new \in SUBSET Tickers
  <2> HIDE DEF state
  <2> QED BY <1>2, <1>5, StateFields
<1>7. next \in ChannelState /\ next.name = state.name
  <2> HIDE DEF state, new
  <2> QED BY <1>5, <1>6, StateFields
<1>8. obj' = [obj EXCEPT ![o] = next] /\ channels' = [channels EXCEPT ![Ch(p)] = o]
  BY <1>3
<1>9. HeapEffect
  <2> HIDE DEF state, new, next
  <2>1. CASE channels[Ch(p)] = Nil
    <3>1. created /\ o \in Unused /\ next.name = Ch(p)
      BY <1>4, <1>5, <1>7, <2>1 DEF Target, FirstUnused
    <3> QED BY <1>1, <1>2, <1>7, <1>8, <2>1, <3>1, AllocateHeap
  <2>2. CASE channels[Ch(p)] # Nil
    <3>1. ~created /\ o = channels[Ch(p)]
      BY <1>4, <2>2 DEF Target
    <3>2. Renewed(o, next) /\ channels' = channels
      BY <1>2, <1>4, <1>5, <1>7, <1>8, <3>1 DEF Renewed
    <3> QED BY <1>1, <3>2, RenewHeap
  <2> QED BY <2>1, <2>2
<1>10. ControlEffect(p)
  <2> DEFINE add == Command("add", Ch(p), state.sid, new, FALSE)
             first == Command("subscribe", Ch(p), NoSID, new, FALSE)
  <2>1. NewCommand(add) /\ NewCommand(first)
    <3> HIDE DEF state, new
    <3> QED BY <1>2, <1>6, CommandType DEF Kinds
  <2>2. Continue(p) \/ SendFor(p, o, created, add) \/ SendFor(p, o, created, first)
    BY <1>3
  <2> HIDE DEF add, first
  <2> QED BY <1>1, <2>1, <2>2, ContinueControl, StartControl DEF SendFor, Inv
<1> QED BY <1>1, <1>9, <1>10, MethodInv

\* A call begins.
LEMMA BeginInv == ASSUME Inv, NEW p \in Callers, Begin(p) PROVE Inv'
<1>1. PICK c \in Calls :
        call' = [call EXCEPT ![p] =
           [NoCall EXCEPT !.op = c.op, !.chs = c.chs, !.tickers = c.tickers,
                          !.global = c.global]]
  BY DEF Begin
<1> DEFINE new == [NoCall EXCEPT !.op = c.op, !.chs = c.chs, !.tickers = c.tickers,
                                 !.global = c.global]
<1>2. c \in [op: Ops, chs: Seq(Channels), tickers: SUBSET Tickers, global: BOOLEAN]
     /\ (c.op \notin {"connect", "close"} => c.chs # <<>>)
  BY ClientAssumption DEF ClientAssumption
<1>3. new \in CallRecord /\ new.op = c.op /\ new.chs = c.chs
  BY <1>2 DEF NoCall, CallRecord
<1>4. call' = [call EXCEPT ![p] = new]
  BY <1>1
<1> HIDE DEF new
<1>5. /\ pc' = [pc EXCEPT ![p] = "section"] /\ UNCHANGED <<mu, out>>
      /\ callsLeft > 0 /\ callsLeft' = callsLeft - 1
      /\ UNCHANGED <<serverVars, conn, cmdVars, stateVars, msgCh, closed, ctxDone,
                     force, readerVars>>
  BY DEF Begin
<1>6. callsLeft' \in 0..MaxCalls
  <2>1. callsLeft \in 0..MaxCalls /\ MaxCalls \in Nat
    BY ClientAssumption DEF Inv, Shape, TypeOK, ClientAssumption
  <2> QED BY <1>5, <2>1
<1>7. FlagTypes
  BY <1>5, <1>6 DEF Inv, Shape, TypeOK, ServerTypeOK, FlagTypes, serverVars
<1>8. out[p] \in SendRecord /\ (out[p].kind = "none" \/ out[p].ch \in Channels)
     /\ out' = [out EXCEPT ![p] = out[p]]
  BY <1>5, ReaderIsNoCaller DEF Inv, Shape, TypeOK, CommandShape

<1>9. ControlEffect(p)
  BY <1>2, <1>3, <1>4, <1>5, <1>8 DEF ControlEffect, CallerLabels, Inv, Shape, TypeOK
<1>10. HeapEffect
  BY <1>5, HeapKept DEF cmdVars
<1>11. UNCHANGED <<subs, down, msgID, readerVars>>
  BY <1>5 DEF serverVars, cmdVars
<1> QED BY <1>7, <1>9, <1>10, <1>11, CallerInv

\* Dialling, successful or not, and what it may change.
LEMMA DialTypes ==
    ASSUME TypeOK, NEW p \in Procs, Dialled \/ DialFailed(p)
    PROVE  /\ link' \in Seq(LinkStates) /\ Len(link') <= MaxConns
           /\ conn' \in Conns \cup {NoConn}
           /\ UNCHANGED <<subs, down>>
<1>1. link \in Seq(LinkStates) /\ Len(link) <= MaxConns /\ conn \in Conns \cup {NoConn}
     /\ MaxConns \in Nat
  BY ServerAssumption DEF TypeOK, ServerTypeOK, ServerAssumption
<1>2. CASE Dialled
  <2>1. link' = Append(link, "up") /\ Len(link) < MaxConns /\ "up" \in LinkStates
    BY <1>2 DEF Dialled, Open, LinkStates
  <2>2. link' \in Seq(LinkStates) /\ Len(link') = Len(link) + 1 /\ Len(link) \in Nat
    BY <1>1, <2>1, AppendProperties, LenProperties
  <2>3. conn' = Len(link) + 1 /\ UNCHANGED <<subs, down>>
    BY <1>2 DEF Dialled
  <2> QED BY <1>1, <2>1, <2>2, <2>3 DEF Conns
<1>3. CASE DialFailed(p)
  BY <1>1, <1>3 DEF DialFailed, serverVars
<1> QED BY <1>2, <1>3

\* Connect stores a new connection, which the reader may not be reading.
LEMMA ConnectInv == ASSUME Inv, NEW p \in Callers, Connect(p) PROVE Inv'
<1>1. /\ Dialled \/ DialFailed(p)
      /\ Return(p) /\ UNCHANGED <<cmdVars, stateVars, flagVars, readerVars>>
  BY DEF Connect
<1>2. p \in Procs
  BY ReaderIsNoCaller
<1>3. FlagTypes /\ UNCHANGED <<subs, down>>
  BY <1>1, <1>2, DialTypes DEF Inv, Shape, TypeOK, FlagTypes, flagVars
<1>4. HeapEffect
  BY <1>1, HeapKept DEF cmdVars
<1>5. UNCHANGED <<msgID, readerVars>>
  BY <1>1 DEF cmdVars
<1> QED BY <1>1, <1>3, <1>4, <1>5, ReturnControl, CallerInv DEF Inv

\* Close stores its flag.
LEMMA CloseInv == ASSUME Inv, NEW p \in Callers, Close(p) PROVE Inv'
<1>1. /\ pc' = [pc EXCEPT ![p] = "closing"] /\ closed' = TRUE
      /\ UNCHANGED <<serverVars, conn, cmdVars, stateVars, msgCh, ctxDone, force,
                     callsLeft, mu, out, call, readerVars>>
  BY DEF Close
<1>2. FlagTypes
  BY <1>1 DEF Inv, Shape, TypeOK, ServerTypeOK, FlagTypes, serverVars
<1>3. HeapEffect
  BY <1>1, HeapKept DEF cmdVars
<1>4. /\ call[p] \in CallRecord /\ mu' \in Procs \cup {Nobody}
      /\ out \in [Procs -> SendRecord] /\ call \in [Callers -> CallRecord]
      /\ (call[p].op \notin {"none", "connect", "close"} => call[p].chs # <<>>)
  BY <1>1, ReaderIsNoCaller DEF Inv, Shape, TypeOK, CommandShape
<1>5. ControlEffect(p)
  <2> DEFINE c == call[p]
             cmd == out[p]
  <2>1. out' = [out EXCEPT ![p] = cmd] /\ call' = [call EXCEPT ![p] = c]
    BY <1>1, <1>4, ReaderIsNoCaller
  <2>2. c \in CallRecord /\ (c.op \notin {"none", "connect", "close"} => c.chs # <<>>)
    BY <1>4
  <2> HIDE DEF c
  <2> QED BY <1>1, <1>4, <2>1, <2>2 DEF ControlEffect, CallerLabels
<1>6. UNCHANGED <<subs, down, msgID, readerVars>>
  BY <1>1 DEF serverVars, cmdVars
<1> QED BY <1>2, <1>3, <1>5, <1>6, CallerInv

\* Close takes the connection out, which the reader may still be reading.
LEMMA CloseConnInv == ASSUME Inv, NEW p \in Callers, CloseConn(p) PROVE Inv'
<1>1. /\ conn' = NoConn /\ SetLink(conn, "closed") /\ Return(p)
      /\ UNCHANGED <<subs, down, cmdVars, stateVars, flagVars, readerVars>>
  BY DEF CloseConn
<1>2. link' \in Seq(LinkStates) /\ Len(link') <= MaxConns
  BY <1>1, SetLinkType DEF Inv, Shape, TypeOK, LinkStates
<1>3. FlagTypes
  BY <1>1, <1>2 DEF Inv, Shape, TypeOK, FlagTypes, flagVars
<1>4. HeapEffect
  BY <1>1, HeapKept DEF cmdVars
<1>5. UNCHANGED <<subs, down, msgID, readerVars>>
  BY <1>1 DEF cmdVars
<1> QED BY <1>1, <1>3, <1>4, <1>5, ReturnControl, CallerInv DEF Inv

-----------------------------------------------------------------------------
(* Sending a command, whoever sends it.                                    *)

\* The fields of the command that a send step fills in.
Filled(p) ==
    \/ \E n \in Nat : out' = [out EXCEPT ![p].id = n]
    \/ \E k \in Conns \cup {NoConn} : out' = [out EXCEPT ![p].conn = k]
    \/ \E b \in BOOLEAN : out' = [out EXCEPT ![p].ok = b]

\* Filling in a field keeps the command's kind and channel, and all other commands.
LEMMA FilledFields ==
    ASSUME out \in [Procs -> SendRecord], NEW p \in Procs, Filled(p)
    PROVE  /\ out' \in [Procs -> SendRecord]
           /\ \A q \in Procs : q # p => out'[q] = out[q]
           /\ \A q \in Procs : out'[q].kind = out[q].kind /\ out'[q].ch = out[q].ch
<1>1. out[p] \in SendRecord
  OBVIOUS
<1>2. CASE \E n \in Nat : out' = [out EXCEPT ![p].id = n]
  <2>1. PICK n \in Nat : out' = [out EXCEPT ![p].id = n]
    BY <1>2
  <2> DEFINE r == [out[p] EXCEPT !.id = n]
  <2>2. r \in SendRecord /\ r.kind = out[p].kind /\ r.ch = out[p].ch
    BY <1>1 DEF SendRecord
  <2>3. out' = [out EXCEPT ![p] = r]
    BY <2>1
  <2> HIDE DEF r
  <2> QED BY <2>2, <2>3
<1>3. CASE \E k \in Conns \cup {NoConn} : out' = [out EXCEPT ![p].conn = k]
  <2>1. PICK k \in Conns \cup {NoConn} : out' = [out EXCEPT ![p].conn = k]
    BY <1>3
  <2> DEFINE r == [out[p] EXCEPT !.conn = k]
  <2>2. r \in SendRecord /\ r.kind = out[p].kind /\ r.ch = out[p].ch
    BY <1>1 DEF SendRecord
  <2>3. out' = [out EXCEPT ![p] = r]
    BY <2>1
  <2> HIDE DEF r
  <2> QED BY <2>2, <2>3
<1>4. CASE \E b \in BOOLEAN : out' = [out EXCEPT ![p].ok = b]
  <2>1. PICK b \in BOOLEAN : out' = [out EXCEPT ![p].ok = b]
    BY <1>4
  <2> DEFINE r == [out[p] EXCEPT !.ok = b]
  <2>2. r \in SendRecord /\ r.kind = out[p].kind /\ r.ch = out[p].ch
    BY <1>1 DEF SendRecord
  <2>3. out' = [out EXCEPT ![p] = r]
    BY <2>1
  <2> HIDE DEF r
  <2> QED BY <2>2, <2>3
<1> QED BY <1>2, <1>3, <1>4 DEF Filled

\* A send step moves the goroutine from one label of a send to another.
SendMove(p) ==
    /\ pc[p] \in Sending /\ Filled(p) /\ SendFrame
    /\ \E l \in Sending : pc' = [pc EXCEPT ![p] = l]

\* The shape is kept by a send step.
LEMMA SendShape ==
    ASSUME Shape, NEW p \in Procs, SendMove(p),
           ServerTypeOK', msgID' \in Nat, pendingInit' \subseteq Pending
    PROVE  Shape'
<1>1. PICK l \in Sending : pc' = [pc EXCEPT ![p] = l]
  BY DEF SendMove
<1>2. /\ out' \in [Procs -> SendRecord]
      /\ \A q \in Procs : out'[q].kind = out[q].kind /\ out'[q].ch = out[q].ch
  BY FilledFields DEF SendMove, Shape, TypeOK
<1>3. UNCHANGED <<conn, stateVars, flagVars, mu, call, readerVars>>
  BY DEF SendMove, SendFrame
<1>4. pc \in [Procs -> CallerLabels \cup ReaderLabels]
  BY DEF Shape, TypeOK
<1>5. /\ pc' \in [Procs -> CallerLabels \cup ReaderLabels]
      /\ \A q \in Procs : pc'[q] = IF q = p THEN l ELSE pc[q]
  BY <1>1, <1>4 DEF Sending, CallerLabels
<1>6. TypeOK'
  BY <1>2, <1>3, <1>5 DEF Shape, TypeOK, stateVars, flagVars, readerVars
<1>7. CommandShape'
  BY <1>2, <1>3 DEF Shape, CommandShape
<1>8. ReaderShape'
  <2>1. Reader \in Procs /\ UNCHANGED <<rconn, flushing>>
    BY <1>3, ReaderIsNoCaller DEF readerVars
  <2>2. pc'[Reader] = pc[Reader] \/ (pc[Reader] \in Sending /\ pc'[Reader] \in Sending)
    BY <1>1, <1>5, <2>1 DEF SendMove
  <2> QED BY <1>2, <2>1, <2>2 DEF Shape, ReaderShape, Sending, Attached, Detached
<1> QED BY <1>6, <1>7, <1>8 DEF Shape

\* The new id is beyond every id in use.
LEMMA RegisterInv == ASSUME Inv, NEW p \in Procs, Register(p) PROVE Inv'
<1> DEFINE new == {e \in {[id |-> NextID, ch |-> out[p].ch]} : out[p].kind = "subscribe"}
<1>1. /\ pc[p] = "register" /\ msgID' = msgID + 1 /\ pendingInit' = pendingInit \cup new
      /\ out' = [out EXCEPT ![p].id = msgID + 1] /\ pc' = [pc EXCEPT ![p] = "grab"]
      /\ SendFrame /\ UNCHANGED serverVars
  BY DEF Register, NextID
<1>2. /\ msgID \in Nat /\ msgID + 1 \in Nat /\ msgID + 1 > msgID
      /\ pendingInit \subseteq Pending /\ out \in [Procs -> SendRecord]
      /\ ServerTypeOK /\ (out[p].kind = "none" \/ out[p].ch \in Channels)
  BY DEF Inv, Shape, TypeOK, CommandShape
<1>3. \A e \in new : /\ e = [id |-> msgID + 1, ch |-> out[p].ch]
                    /\ out[p].kind = "subscribe" /\ out[p].ch \in Channels
  BY <1>2 DEF NextID
<1>4. pendingInit' \subseteq Pending
  <2> HIDE DEF new
  <2> QED BY <1>1, <1>2, <1>3 DEF Pending
<1>5. SendMove(p)
  BY <1>1, <1>2 DEF SendMove, Filled, Sending
<1>6. UNCHANGED <<link, subs, down>>
  BY <1>1 DEF serverVars
<1>7. Shape'
  BY <1>1, <1>2, <1>4, <1>5, <1>6, SendShape DEF Inv, ServerTypeOK
<1>8. /\ \A q \in Procs : q # p => out'[q] = out[q]
      /\ \A q \in Procs : out'[q].kind = out[q].kind /\ out'[q].ch = out[q].ch
      /\ out'[p].id = msgID + 1
  <2>1. out'[p].id = msgID + 1
    BY <1>1, <1>2 DEF SendRecord
  <2> QED BY <1>2, <1>5, <2>1, FilledFields DEF SendMove
<1>9. UNCHANGED <<channels, obj, sidMap, rconn>>
  BY <1>1 DEF SendFrame, stateVars, readerVars
<1>10. NamesMatch' /\ RoutingSound'
  BY <1>6, <1>9 DEF Inv, NamesMatch, RoutingSound
<1>11. /\ \A q \in Procs : out[q].id <= msgID /\ out[q].id \in Nat
       /\ \A e \in pendingInit : e.id <= msgID /\ e.id \in 1..msgID /\ e.id \in Nat
       /\ \A k \in Conns : \A i \in DOMAIN down[k] :
            down[k][i].id <= msgID /\ down[k][i].id \in Nat
  <2>1. \A k \in Conns : \A i \in DOMAIN down[k] : down[k][i] \in Message
    BY <1>2, ElementOfSeq, LenProperties DEF ServerTypeOK
  <2> QED BY <1>2, <2>1 DEF Inv, IdsBounded, SendRecord, Pending, Message
<1>12. \A n \in Nat : n <= msgID => n <= msgID + 1 /\ n # msgID + 1
  BY <1>2
<1>13. \A n : n \in 1..msgID => n \in 1..(msgID + 1)
  BY <1>2
<1>14. \A e \in pendingInit' : e \in pendingInit \/ e \in new
  BY <1>1
<1> HIDE DEF new
<1>15. IdsBounded'
  <2>1. \A q \in Procs : out'[q].id <= msgID + 1
    BY <1>2, <1>8, <1>11, <1>12
  <2>2. \A e \in pendingInit' : e.id \in 1..(msgID + 1)
    BY <1>2, <1>3, <1>11, <1>13, <1>14
  <2>3. \A k \in Conns : \A i \in DOMAIN down[k] : down[k][i].id <= msgID + 1
    BY <1>11, <1>12, Zenon
  <2>4. msgID' = msgID + 1 /\ down' = down
    BY <1>1, <1>6
  <2> QED BY <2>1, <2>2, <2>3, <2>4, Zenon DEF IdsBounded
<1>16. IdsUnique'
  <2>1. \A q, r \in Procs : q # r /\ out'[q].id # 0 => out'[q].id # out'[r].id
    BY <1>8, <1>11, <1>12 DEF Inv, IdsUnique
  <2>2. \A e, f \in pendingInit' : e.id = f.id => e = f
    BY <1>3, <1>11, <1>12, <1>14 DEF Inv, IdsUnique
  <2>3. \A e \in pendingInit', q \in Procs :
          out'[q].id = e.id => out'[q].kind = "subscribe" /\ out'[q].ch = e.ch
    <3> SUFFICES ASSUME NEW e \in pendingInit', NEW q \in Procs, out'[q].id = e.id
                 PROVE  out'[q].kind = "subscribe" /\ out'[q].ch = e.ch
      OBVIOUS
    <3>1. CASE e \in pendingInit
      <4>1. q # p
        BY <1>8, <1>11, <1>12, <3>1
      <4> QED BY <1>8, <3>1, <4>1 DEF Inv, IdsUnique
    <3>2. CASE e \in new
      <4>1. q = p
        BY <1>3, <1>8, <1>11, <1>12, <3>2
      <4> QED BY <1>3, <1>8, <3>2, <4>1
    <3> QED BY <1>14, <3>1, <3>2
  <2> QED BY <2>1, <2>2, <2>3 DEF IdsUnique
<1>17. AnswersTrue'
  <2>1. ASSUME NEW k \in Conns, NEW i \in DOMAIN down[k],
               down[k][i].type = "subscribed"
        PROVE  /\ down[k][i].sid \in DOMAIN subs[k]
               /\ \A e \in pendingInit' :
                    e.id = down[k][i].id => e.ch = subs[k][down[k][i].sid].ch
    <3>1. down[k][i].id # msgID + 1
      BY <1>11, <1>12, Zenon
    <3>2. \A e \in new : e.id = msgID + 1
      BY <1>3
    <3> QED BY <1>14, <2>1, <3>1, <3>2 DEF Inv, AnswersTrue
  <2>2. down' = down /\ subs' = subs
    BY <1>6
  <2> QED BY <2>1, <2>2 DEF AnswersTrue
<1> QED BY <1>7, <1>10, <1>15, <1>16, <1>17 DEF Inv

\* A send step that allocates no id.  What the service puts on its connections
\* carries a known id, and a "subscribed" is about the channel asked for.
LEMMA SentInv ==
    ASSUME Inv, NEW p \in Procs, SendMove(p), UNCHANGED cmdVars, out'[p].id = out[p].id,
           ServerTypeOK', IdsBounded', AnswersTrue', SubsKept
    PROVE  Inv'
<1>1. UNCHANGED <<conn, channels, obj, sidMap, rconn, msgID, pendingInit>>
  BY DEF SendMove, SendFrame, stateVars, readerVars, cmdVars
<1>2. Shape'
  BY <1>1, SendShape DEF Inv, Shape, TypeOK
<1>3. /\ \A q \in Procs : out'[q].id = out[q].id
      /\ \A q \in Procs : out'[q].kind = out[q].kind /\ out'[q].ch = out[q].ch
  BY FilledFields DEF SendMove, Inv, Shape, TypeOK
<1>4. IdsUnique'
  BY <1>1, <1>3 DEF Inv, IdsUnique
<1>5. NamesMatch'
  BY <1>1 DEF Inv, NamesMatch
<1>6. RoutingSound'
  <2>1. rconn \in Conns \cup {NoConn}
    BY DEF Inv, Shape, TypeOK
  <2> QED BY <1>1, <2>1 DEF Inv, RoutingSound, SubsKept
<1> QED BY <1>2, <1>4, <1>5, <1>6 DEF Inv

\* The same, when the service sends nothing.
LEMMA QuietSendInv ==
    ASSUME Inv, NEW p \in Procs, SendMove(p), out'[p].id = out[p].id,
           link' \in Seq(LinkStates), Len(link') <= MaxConns,
           UNCHANGED <<subs, down, cmdVars>>
    PROVE  Inv'
<1>1. UNCHANGED <<msgID, pendingInit>>
  BY DEF cmdVars
<1>2. \A q \in Procs : out'[q].id = out[q].id
  BY FilledFields DEF SendMove, Inv, Shape, TypeOK
<1>3. ServerTypeOK' /\ SubsKept
  BY DEF Inv, Shape, TypeOK, ServerTypeOK, SubsKept
<1>4. IdsBounded' /\ AnswersTrue'
  BY <1>1, <1>2 DEF Inv, IdsBounded, AnswersTrue
<1> QED BY <1>3, <1>4, SentInv

\* writeJSON copies the connection.
LEMMA GrabConnInv == ASSUME Inv, NEW p \in Procs, GrabConn(p) PROVE Inv'
<1>1. /\ pc[p] = "grab" /\ out' = [out EXCEPT ![p].conn = conn]
      /\ pc' = [pc EXCEPT ![p] = IF conn = NoConn THEN "finish" ELSE "write"]
      /\ SendFrame /\ UNCHANGED <<serverVars, cmdVars>>
  BY DEF GrabConn
<1>2. conn \in Conns \cup {NoConn} /\ out \in [Procs -> SendRecord] /\ ServerTypeOK
  BY DEF Inv, Shape, TypeOK
<1>3. Filled(p) /\ out'[p].id = out[p].id
  BY <1>1, <1>2 DEF Filled, SendRecord
<1>4. SendMove(p)
  BY <1>1, <1>3 DEF SendMove, Sending
<1> QED BY <1>1, <1>2, <1>3, <1>4, QuietSendInv DEF serverVars, ServerTypeOK

\* The outcome of a write is a send step.
LEMMA WrittenMove ==
    ASSUME Inv, NEW p \in Procs, NEW ok \in BOOLEAN, pc[p] = "write", Written(p, ok)
    PROVE  SendMove(p) /\ out'[p].id = out[p].id /\ UNCHANGED cmdVars
<1>1. /\ pc' = [pc EXCEPT ![p] = "finish"] /\ out' = [out EXCEPT ![p].ok = ok]
      /\ SendFrame /\ UNCHANGED cmdVars
  BY DEF Written
<1>2. Filled(p) /\ out'[p].id = out[p].id
  BY <1>1 DEF Filled, SendRecord, Inv, Shape, TypeOK
<1> QED BY <1>1, <1>2 DEF SendMove, Sending

\* A write on a broken connection.
LEMMA WriteLostInv == ASSUME Inv, NEW p \in Procs, WriteLost(p) PROVE Inv'
<1>1. PICK ok \in BOOLEAN : pc[p] = "write" /\ Written(p, ok) /\ UNCHANGED serverVars
  BY DEF WriteLost
<1> QED BY <1>1, WrittenMove, QuietSendInv DEF serverVars, Inv, Shape, TypeOK, ServerTypeOK

\* A write that times out.
LEMMA WriteTimeoutInv == ASSUME Inv, NEW p \in Procs, WriteTimeout(p) PROVE Inv'
<1>1. PICK s \in {"up", "closed"} :
        pc[p] = "write" /\ SetLink(out[p].conn, s) /\ Written(p, FALSE)
          /\ UNCHANGED <<subs, down>>
  BY DEF WriteTimeout
<1>2. link' \in Seq(LinkStates) /\ Len(link') <= MaxConns
  BY <1>1, SetLinkType DEF LinkStates, Inv, Shape, TypeOK
<1> QED BY <1>1, <1>2, WrittenMove, QuietSendInv

\* After a message is enqueued, the queues hold it and what they held.
LEMMA QueuedMessages ==
    ASSUME ServerTypeOK, NEW k \in Conns, NEW m, Enqueues(k, m)
    PROVE  \A j \in Conns : \A i \in DOMAIN down'[j] :
             \/ j = k /\ down'[j][i] = m
             \/ i \in DOMAIN down[j] /\ down'[j][i] = down[j][i]
<1>1. down \in [Conns -> Seq(Message)] /\ down[k] \in Seq(Message) /\ m \in Message
      /\ down' = [down EXCEPT ![k] = Append(down[k], m)]
  BY DEF ServerTypeOK, Enqueues, Enqueued
<1>2. /\ DOMAIN down[k] = 1..Len(down[k]) /\ Len(down[k]) \in Nat
      /\ DOMAIN Append(down[k], m) = 1..(Len(down[k]) + 1)
      /\ \A i \in 1..Len(down[k]) : Append(down[k], m)[i] = down[k][i]
      /\ Append(down[k], m)[Len(down[k]) + 1] = m
  BY <1>1, AppendProperties, LenProperties
<1>3. \A i \in 1..(Len(down[k]) + 1) : i \in 1..Len(down[k]) \/ i = Len(down[k]) + 1
  BY <1>2
<1> QED BY <1>1, <1>2, <1>3

\* A write that arrives, and its answer.
LEMMA WriteDeliveredInv ==
    ASSUME Inv, NEW p \in Procs, WriteDelivered(p) PROVE Inv'
<1> DEFINE k == out[p].conn
           cmd == out[p]
<1>1. /\ pc[p] = "write" /\ Up(k) /\ Receive(k, cmd) /\ Written(p, TRUE)
      /\ UNCHANGED link
  BY DEF WriteDelivered
<1>2. /\ ServerTypeOK /\ cmd \in SendRecord
      /\ (cmd.kind = "none" \/ cmd.ch \in Channels)
  BY DEF Inv, Shape, TypeOK, CommandShape
<1>3. k \in Conns
  <2>1. k \in 1..Len(link) /\ k \in Conns \cup {NoConn}
    BY <1>1, <1>2, LenProperties DEF Up, ServerTypeOK, SendRecord
  <2> QED BY <2>1 DEF NoConn
<1>4. Received(cmd)
  BY <1>2 DEF Received, SendRecord, NoSID
<1>5. PICK m : Enqueues(k, m) /\ m.id \in {0, cmd.id} /\ SubscribedAnswers(k, cmd, m)
  <2> HIDE DEF k, cmd
  <2> QED BY <1>1, <1>2, <1>3, <1>4, ReceiveStep
<1>6. ServerTypeOK' /\ SubsKept
  BY <1>1, <1>2, <1>5 DEF Enqueues, ServerTypeOK
<1>7. SendMove(p) /\ out'[p].id = out[p].id /\ UNCHANGED cmdVars
  BY <1>1, WrittenMove
<1>8. UNCHANGED <<msgID, pendingInit>> /\ \A q \in Procs : out'[q].id = out[q].id
  BY <1>7, FilledFields DEF SendMove, Inv, Shape, TypeOK, cmdVars
<1>9. \A j \in Conns : \A i \in DOMAIN down'[j] :
        \/ j = k /\ down'[j][i] = m
        \/ i \in DOMAIN down[j] /\ down'[j][i] = down[j][i]
  BY <1>2, <1>3, <1>5, QueuedMessages
<1>10. IdsBounded'
  <2>1. m.id <= msgID
    <3>1. 0 <= msgID /\ cmd.id <= msgID
      BY DEF Inv, Shape, TypeOK, IdsBounded
    <3> QED BY <1>5, <3>1
  <2> QED BY <1>8, <1>9, <2>1 DEF Inv, IdsBounded
<1>11. AnswersTrue'
  <2>1. ASSUME NEW j \in Conns, NEW i \in DOMAIN down'[j],
               down'[j][i].type = "subscribed"
        PROVE  /\ down'[j][i].sid \in DOMAIN subs'[j]
               /\ \A e \in pendingInit :
                    e.id = down'[j][i].id => e.ch = subs'[j][down'[j][i].sid].ch
    <3>1. CASE j = k /\ down'[j][i] = m
      <4>1. /\ cmd.kind = "subscribe" /\ m.sid \in DOMAIN subs'[k]
            /\ subs'[k][m.sid].ch = cmd.ch
        BY <1>5, <2>1, <3>1 DEF SubscribedAnswers
      <4>2. \A e \in pendingInit : e.id # 0 /\ (e.id = cmd.id => e.ch = cmd.ch)
        BY DEF Inv, IdsBounded, IdsUnique
      <4> QED BY <1>5, <3>1, <4>1, <4>2
    <3>2. CASE i \in DOMAIN down[j] /\ down'[j][i] = down[j][i]
      BY <1>6, <2>1, <3>2 DEF Inv, AnswersTrue, SubsKept
    <3> QED BY <1>9, <3>1, <3>2
  <2> QED BY <1>8, <2>1 DEF AnswersTrue
<1> QED BY <1>6, <1>7, <1>10, <1>11, SentInv

\* Every step of a send keeps the invariant.
LEMMA SendStepInv == ASSUME Inv, NEW p \in Procs, SendStep(p) PROVE Inv'
  BY RegisterInv, GrabConnInv, WriteDeliveredInv, WriteLostInv, WriteTimeoutInv
     DEF SendStep

-----------------------------------------------------------------------------
(* ListenLoop.                                                             *)

\* A step of the reader that leaves the channels, the commands and what the
\* service holds alone.
LEMMA ReaderInv ==
    ASSUME Inv, TypeOK', ReaderShape',
           UNCHANGED <<cmdVars, stateVars, out, call, subs, down>>,
           rconn' = rconn \/ rconn = NoConn
    PROVE  Inv'
<1>1. UNCHANGED <<msgID, pendingInit, channels, sidMap, obj>>
  BY DEF cmdVars, stateVars
<1>2. CommandShape'
  BY DEF Inv, Shape, CommandShape
<1>3. NamesMatch' /\ IdsBounded' /\ IdsUnique' /\ AnswersTrue'
  BY <1>1 DEF Inv, NamesMatch, IdsBounded, IdsUnique, AnswersTrue
<1>4. RoutingSound'
  BY <1>1 DEF Inv, RoutingSound
<1> QED BY <1>2, <1>3, <1>4 DEF Inv, Shape

\* A step of the loop to another label, with or without a connection.
LEMMA LoopInv ==
    ASSUME Inv, LoopFrame, UNCHANGED <<subs, down>>,
           link' \in Seq(LinkStates), Len(link') <= MaxConns,
           conn' \in Conns \cup {NoConn}, force' \in BOOLEAN,
           backoff' \in MinBackoff..MaxBackoff,
           rconn' \in Conns \cup {NoConn}, rconn' = rconn \/ rconn = NoConn,
           NEW l \in ReaderLabels, l \notin Sending, Goto(l),
           l \in Attached => rconn' # NoConn, l \in Detached => rconn' = NoConn
    PROVE  Inv'
<1>1. UNCHANGED <<cmdVars, stateVars, msgCh, closed, ctxDone, callsLeft,
                  mu, out, call, dispatch, flushing, todo, seen>>
  BY DEF LoopFrame
<1>2. /\ pc' \in [Procs -> CallerLabels \cup ReaderLabels]
      /\ pc'[Reader] = l
  BY ReaderIsNoCaller DEF Inv, Shape, TypeOK, Goto
<1>3. TypeOK'
  BY <1>1, <1>2 DEF Inv, Shape, TypeOK, ServerTypeOK, cmdVars, stateVars
<1>4. ReaderShape'
  BY <1>2 DEF ReaderShape
<1> QED BY <1>1, <1>3, <1>4, ReaderInv

\* The doubled backoff stays between its bounds.
LEMMA BackoffType ==
    ASSUME backoff \in MinBackoff..MaxBackoff
    PROVE  NextBackoff \in MinBackoff..MaxBackoff
<1>1. MinBackoff \in Nat \ {0} /\ MaxBackoff \in Nat /\ MinBackoff <= MaxBackoff
  BY ClientAssumption DEF ClientAssumption
<1> QED BY <1>1 DEF NextBackoff

\* The facts about the reader's state that the steps of the loop start from.
LEMMA LoopFacts ==
    ASSUME Inv
    PROVE  /\ link \in Seq(LinkStates) /\ Len(link) <= MaxConns
           /\ conn \in Conns \cup {NoConn} /\ rconn \in Conns \cup {NoConn}
           /\ force \in BOOLEAN /\ backoff \in MinBackoff..MaxBackoff
           /\ NextBackoff \in MinBackoff..MaxBackoff
           /\ pc[Reader] \in Attached => rconn # NoConn
           /\ pc[Reader] \in Detached => rconn = NoConn
  BY BackoffType DEF Inv, Shape, TypeOK, ServerTypeOK, ReaderShape

\* The top of the loop.
LEMMA LoopTopInv == ASSUME Inv, LoopTop PROVE Inv'
<1>1. PICK l \in {"done", "dial", "enter"} : Goto(l)
  BY DEF LoopTop, FromTop
<1>2. At("top") /\ UNCHANGED <<serverVars, conn, force, rconn, backoff>> /\ LoopFrame
  BY DEF LoopTop
<1> QED
  BY <1>1, <1>2, LoopFacts, LoopInv
     DEF At, Sending, Attached, Detached, ReaderLabels, serverVars

\* The dial at the top of the loop.
LEMMA DialInv == ASSUME Inv, Dial PROVE Inv'
<1>1. PICK l \in {"enter", "wait"} : Goto(l)
  BY DEF Dial
<1>2. /\ At("dial") /\ UNCHANGED <<force, rconn, backoff>> /\ LoopFrame
      /\ Dialled \/ DialFailed(Reader)
  BY DEF Dial
<1>3. /\ link' \in Seq(LinkStates) /\ Len(link') <= MaxConns
      /\ conn' \in Conns \cup {NoConn} /\ UNCHANGED <<subs, down>>
  BY <1>2, DialTypes, ReaderIsNoCaller DEF Inv, Shape
<1> QED
  BY <1>1, <1>2, <1>3, LoopFacts, LoopInv
     DEF At, Sending, Attached, Detached, ReaderLabels

\* The sleep after a failed dial.
LEMMA WaitInv == ASSUME Inv, Wait PROVE Inv'
<1>1. PICK l \in {"done", "top"} : Goto(l)
  BY DEF Wait
<1>2. /\ At("wait") /\ UNCHANGED <<serverVars, conn, force, rconn>> /\ LoopFrame
      /\ backoff' = backoff \/ backoff' = NextBackoff
  BY DEF Wait
<1> QED
  BY <1>1, <1>2, LoopFacts, LoopInv
     DEF At, Sending, Attached, Detached, ReaderLabels, serverVars

\* No sid is known when readLoop starts, so what the connection is does not matter.
LEMMA EnterReadLoopInv == ASSUME Inv, EnterReadLoop PROVE Inv'
<1> DEFINE l == IF conn = NoConn THEN "panic" ELSE "read"
<1>1. /\ At("enter") /\ rconn' = conn /\ Goto(l)
      /\ UNCHANGED <<serverVars, conn, force, backoff>> /\ LoopFrame
  BY DEF EnterReadLoop
<1>2. /\ l \in ReaderLabels /\ l \notin Sending
      /\ l \in Attached => conn # NoConn
      /\ l \in Detached => conn = NoConn
  BY DEF ReaderLabels, Sending, Attached, Detached
<1> HIDE DEF l
<1> QED
  BY <1>1, <1>2, LoopFacts, LoopInv DEF At, Detached, serverVars

\* The read fails.
LEMMA ReadErrorInv == ASSUME Inv, ReadError PROVE Inv'
<1>1. /\ At("read") /\ Goto("returned") /\ LoopFrame
      /\ UNCHANGED <<subs, down, conn, force, rconn, backoff>>
      /\ SetLink(rconn, "closed") \/ UNCHANGED link
  BY DEF ReadError
<1>2. link' \in Seq(LinkStates) /\ Len(link') <= MaxConns
  BY <1>1, LoopFacts, SetLinkType DEF LinkStates, Inv, Shape, TypeOK
<1> QED
  BY <1>1, <1>2, LoopFacts, LoopInv
     DEF At, Sending, Attached, Detached, ReaderLabels

\* The flag of a forced reconnect is taken.
LEMMA CheckForceInv == ASSUME Inv, CheckForce PROVE Inv'
<1>1. PICK l \in {"returned", "read"} : Goto(l)
  BY DEF CheckForce
<1>2. /\ At("check") /\ force' = FALSE /\ LoopFrame
      /\ UNCHANGED <<serverVars, conn, rconn, backoff>>
  BY DEF CheckForce
<1> QED
  BY <1>1, <1>2, LoopFacts, LoopInv
     DEF At, Sending, Attached, Detached, ReaderLabels, serverVars

\* The loop leaves.
LEMMA LoopLeavesInv == ASSUME Inv, LoopLeaves PROVE Inv'
<1>1. /\ Goto("done") /\ LoopFrame
      /\ UNCHANGED <<serverVars, conn, force, rconn, backoff>>
  BY DEF LoopLeaves
<1> QED
  BY <1>1, LoopFacts, LoopInv DEF Sending, Attached, Detached, ReaderLabels, serverVars

\* The sleep after a loss.
LEMMA WaitLossInv == ASSUME Inv, WaitLoss PROVE Inv'
<1>1. PICK l \in {"done", "redial"} : Goto(l)
  BY DEF WaitLoss
<1>2. /\ At("waitLoss") /\ LoopFrame
      /\ UNCHANGED <<serverVars, conn, force, rconn, backoff>>
  BY DEF WaitLoss
<1> QED
  BY <1>1, <1>2, LoopFacts, LoopInv
     DEF At, Sending, Attached, Detached, ReaderLabels, serverVars

\* The dial after a loss.
LEMMA RedialInv == ASSUME Inv, Redial PROVE Inv'
<1>1. PICK l \in {"recover", "top"} : Goto(l)
  BY DEF Redial
<1>2. /\ At("redial") /\ LoopFrame /\ UNCHANGED <<force, rconn>>
      /\ Dialled \/ DialFailed(Reader)
      /\ backoff' = MinBackoff \/ backoff' = NextBackoff
  BY DEF Redial
<1>3. /\ link' \in Seq(LinkStates) /\ Len(link') <= MaxConns
      /\ conn' \in Conns \cup {NoConn} /\ UNCHANGED <<subs, down>>
  BY <1>2, DialTypes, ReaderIsNoCaller DEF Inv, Shape
<1>4. MinBackoff \in MinBackoff..MaxBackoff
  BY ClientAssumption DEF ClientAssumption
<1> QED
  BY <1>1, <1>2, <1>3, <1>4, LoopFacts, LoopInv
     DEF At, Sending, Attached, Detached, ReaderLabels

-----------------------------------------------------------------------------
(* What a step of the reader that handles messages, losses or the recovery *)
(* does to the data it works on, and to its own control.                   *)
ReaderData ==
    /\ UNCHANGED <<link, subs, msgID, channels, msgCh, closed, ctxDone,
                   callsLeft, call, backoff>>
    /\ conn' \in Conns \cup {NoConn} /\ rconn' \in Conns \cup {NoConn}
    /\ pendingInit' \subseteq pendingInit
    /\ obj' \in [Objs -> ChannelState] /\ NamesKept
    /\ sidMap' \in [Sids -> Objs \cup {Nil}]
    /\ force' \in BOOLEAN /\ dispatch' \in Dispatched
    /\ flushing' \in Objs \cup {Nil} /\ mu' \in Procs \cup {Nobody}
    /\ todo' \subseteq Objs /\ seen' \subseteq Objs

ReaderControl(l, cmd) ==
    /\ Goto(l) /\ out' = [out EXCEPT ![Reader] = cmd]
    /\ l \in ReaderLabels /\ (NewCommand(cmd) \/ cmd = out[Reader])
    /\ l \in Attached => rconn' # NoConn
    /\ l \in Detached => rconn' = NoConn
    /\ l \in Sending =>
         \/ cmd.kind = "add" /\ rconn' # NoConn /\ flushing' # Nil
         \/ cmd.kind = "subscribe" /\ rconn' = NoConn

\* No message appears.
DownShrinks ==
    /\ down' \in [Conns -> Seq(Message)]
    /\ \A k \in Conns : \A i \in DOMAIN down'[k] :
         \E n \in DOMAIN down[k] : down'[k][i] = down[k][n]

\* A step of the reader of that form keeps the invariant.
LEMMA ReaderStepInv ==
    ASSUME Inv, ReaderData, DownShrinks, RoutingSound',
           NEW l, NEW cmd, ReaderControl(l, cmd)
    PROVE  Inv'
<1>1. /\ Reader \in Procs /\ out \in [Procs -> SendRecord]
      /\ pc \in [Procs -> CallerLabels \cup ReaderLabels]
      /\ cmd \in SendRecord
      /\ (cmd.kind = "none" \/ cmd.ch \in Channels)
      /\ (cmd.id = 0 \/ cmd = out[Reader])
  BY ReaderIsNoCaller
     DEF ReaderControl, NewCommand, Inv, Shape, TypeOK, CommandShape
<1>2. /\ out' \in [Procs -> SendRecord]
      /\ \A q \in Procs : out'[q] = IF q = Reader THEN cmd ELSE out[q]
  BY <1>1 DEF ReaderControl
<1>3. /\ pc' \in [Procs -> CallerLabels \cup ReaderLabels]
      /\ pc'[Reader] = l
  BY <1>1 DEF ReaderControl, Goto
<1>4. TypeOK'
  BY <1>2, <1>3 DEF ReaderData, DownShrinks, Inv, Shape, TypeOK, ServerTypeOK
<1>5. CommandShape'
  BY <1>1, <1>2 DEF ReaderData, Inv, Shape, CommandShape
<1>6. ReaderShape'
  BY <1>1, <1>2, <1>3 DEF ReaderControl, ReaderShape
<1>7. NamesMatch'
  BY DEF ReaderData, NamesKept, Inv, Shape, TypeOK, NamesMatch
<1>8. IdsBounded'
  <2>1. \A q \in Procs : out'[q].id = 0 \/ out'[q].id = out[q].id
    BY <1>1, <1>2
  <2>2. 0 <= msgID /\ msgID' = msgID
    BY DEF ReaderData, Inv, Shape, TypeOK
  <2> QED BY <2>1, <2>2 DEF ReaderData, DownShrinks, Inv, IdsBounded
<1>9. IdsUnique'
  <2>1. \A q \in Procs : out'[q].id = 0 \/ out'[q] = out[q]
    BY <1>1, <1>2
  <2>2. \A e \in pendingInit : e.id # 0
    BY DEF Inv, IdsBounded
  <2> QED BY <2>1, <2>2 DEF ReaderData, Inv, IdsUnique
<1>10. AnswersTrue'
  <2>1. /\ subs' = subs /\ pendingInit' \subseteq pendingInit
        /\ AnswersTrue
    BY DEF ReaderData, Inv
  <2>2. SUFFICES ASSUME NEW k \in Conns, NEW i \in DOMAIN down'[k],
                        down'[k][i].type = "subscribed"
                 PROVE  /\ down'[k][i].sid \in DOMAIN subs[k]
                        /\ \A e \in pendingInit' :
                              e.id = down'[k][i].id
                                => e.ch = subs[k][down'[k][i].sid].ch
    BY <2>1 DEF AnswersTrue
  <2>3. PICK n \in DOMAIN down[k] : down'[k][i] = down[k][n]
    BY DEF DownShrinks
  <2>4. down[k][n].type = "subscribed"
    BY <2>2, <2>3
  <2>5. /\ down[k][n].sid \in DOMAIN subs[k]
        /\ \A e \in pendingInit :
              e.id = down[k][n].id => e.ch = subs[k][down[k][n].sid].ch
    BY <2>1, <2>4 DEF AnswersTrue
  <2> QED BY <2>1, <2>3, <2>5
<1> QED BY <1>4, <1>5, <1>6, <1>7, <1>8, <1>9, <1>10 DEF Inv, Shape

\* Taking a message off the connection that is read.
LEMMA IncomingFacts ==
    ASSUME Inv, NEW type, Incoming(type)
    PROVE  /\ DownShrinks
           /\ rconn \in Conns /\ rconn # NoConn /\ M \in Message
           /\ \E n \in DOMAIN down[rconn] : M = down[rconn][n]
           /\ M.type = type
           /\ UNCHANGED <<link, subs, conn, msgID, msgCh, closed, ctxDone,
                          callsLeft, mu, call, rconn, todo, seen, backoff>>
<1>1. /\ At("read") /\ down[rconn] # <<>> /\ M.type = type
      /\ down' = [down EXCEPT ![rconn] = Tail(down[rconn])]
      /\ UNCHANGED <<link, subs, conn, msgID, msgCh, closed, ctxDone,
                     callsLeft, mu, call, rconn, todo, seen, backoff>>
  BY DEF Incoming, M
<1>2. rconn \in Conns /\ rconn # NoConn /\ down \in [Conns -> Seq(Message)]
  BY <1>1 DEF Inv, Shape, TypeOK, ServerTypeOK, ReaderShape, At, Attached
<1>3. /\ down[rconn] \in Seq(Message) /\ Len(down[rconn]) \in Nat \ {0}
      /\ DOMAIN down[rconn] = 1..Len(down[rconn])
  <2>1. down[rconn] \in Seq(Message)
    BY <1>2
  <2> QED BY <1>1, <2>1, LenProperties, EmptySeq
<1>4. /\ M = down[rconn][1] /\ M \in Message
      /\ Tail(down[rconn]) \in Seq(Message)
      /\ Len(Tail(down[rconn])) = Len(down[rconn]) - 1
      /\ \A i \in 1..Len(Tail(down[rconn])) :
           Tail(down[rconn])[i] = down[rconn][i + 1]
  BY <1>1, <1>3, HeadTailProperties DEF M
<1>5. \A i \in DOMAIN Tail(down[rconn]) :
        \E n \in DOMAIN down[rconn] : Tail(down[rconn])[i] = down[rconn][n]
  <2>1. DOMAIN Tail(down[rconn]) = 1..Len(Tail(down[rconn]))
    BY <1>4, LenProperties
  <2>2. \A i \in 1..Len(Tail(down[rconn])) : i + 1 \in 1..Len(down[rconn])
    BY <1>3, <1>4
  <2> QED BY <1>3, <1>4, <2>1, <2>2
<1>6. DownShrinks
  <2>1. /\ down' \in [Conns -> Seq(Message)]
        /\ down'[rconn] = Tail(down[rconn])
        /\ \A k \in Conns : k # rconn => down'[k] = down[k]
    BY <1>1, <1>2, <1>4
  <2>2. \A k \in Conns : \A i \in DOMAIN down'[k] :
          \E n \in DOMAIN down[k] : down'[k][i] = down[k][n]
    <3> SUFFICES ASSUME NEW k \in Conns, NEW i \in DOMAIN down'[k]
                 PROVE  \E n \in DOMAIN down[k] : down'[k][i] = down[k][n]
      OBVIOUS
    <3>1. CASE k = rconn
      <4>1. down'[k] = Tail(down[rconn])
        BY <2>1, <3>1
      <4> QED BY <1>5, <3>1, <4>1, Zenon
    <3>2. CASE k # rconn
      <4>1. down'[k] = down[k]
        BY <2>1, <3>2
      <4> QED BY <4>1, Zenon
    <3> QED BY <3>1, <3>2
  <2> QED BY <2>1, <2>2 DEF DownShrinks
<1>7. 1 \in DOMAIN down[rconn]
  BY <1>3
<1> QED BY <1>1, <1>2, <1>4, <1>6, <1>7

\* Sids that stay, or go, stay routed.
LEMMA RoutingKept ==
    ASSUME Inv, UNCHANGED <<subs, rconn>>, NamesKept,
           \A s \in Sids : sidMap'[s] # Nil => sidMap'[s] = sidMap[s]
    PROVE  RoutingSound'
  BY DEF Inv, Shape, TypeOK, RoutingSound, NamesKept

\* The heap, when nothing happens to it.
LEMMA ObjKept ==
    ASSUME Inv, UNCHANGED obj
    PROVE  obj' \in [Objs -> ChannelState] /\ NamesKept
  BY DEF Inv, Shape, TypeOK, NamesKept

\* The reader goes on to a label that is not part of a send.
LEMMA GoOn ==
    ASSUME Inv, NEW l \in {"check", "deliver"}, Goto(l), UNCHANGED <<out, rconn>>,
           rconn # NoConn
    PROVE  ReaderControl(l, out[Reader])
<1> DEFINE cmd == out[Reader]
<1>1. out' = [out EXCEPT ![Reader] = cmd]
  BY ReaderIsNoCaller DEF Inv, Shape, TypeOK
<1> QED
  BY <1>1 DEF ReaderControl, Sending, Attached, Detached, ReaderLabels

\* What most handlers leave alone.
LEMMA QuietData ==
    ASSUME Inv, NEW type, Incoming(type), UNCHANGED <<channels, flushing>>,
           pendingInit' \subseteq pendingInit,
           obj' \in [Objs -> ChannelState], NamesKept,
           sidMap' \in [Sids -> Objs \cup {Nil}],
           force' \in BOOLEAN, dispatch' \in Dispatched
    PROVE  ReaderData
  BY IncomingFacts DEF Inv, Shape, TypeOK, ReaderData

\* An error answer changes nothing.
LEMMA HandleErrorInv == ASSUME Inv, HandleError PROVE Inv'
<1>1. /\ Incoming("error") /\ Goto("check")
      /\ UNCHANGED <<out, flushing, dispatch, pendingInit, force>>
      /\ UNCHANGED <<channels, sidMap, obj>>
  BY DEF HandleError, Handled, stateVars
<1>2. DownShrinks /\ UNCHANGED <<subs, rconn>> /\ rconn # NoConn
  BY <1>1, IncomingFacts
<1>3. ReaderData
  BY <1>1, ObjKept, QuietData DEF Inv, Shape, TypeOK
<1>4. RoutingSound'
  BY <1>1, <1>2, ObjKept, RoutingKept
<1>5. ReaderControl("check", out[Reader])
  BY <1>1, <1>2, GoOn
<1> QED BY <1>2, <1>3, <1>4, <1>5, ReaderStepInv

\* An answer nobody awaits changes nothing.
LEMMA HandleUnknownIdInv == ASSUME Inv, HandleUnknownId PROVE Inv'
<1>1. /\ Incoming("subscribed") /\ Goto("check")
      /\ UNCHANGED <<out, flushing, dispatch, pendingInit, force>>
      /\ UNCHANGED <<channels, sidMap, obj>>
  BY DEF HandleUnknownId, Handled, stateVars
<1>2. DownShrinks /\ UNCHANGED <<subs, rconn>> /\ rconn # NoConn
  BY <1>1, IncomingFacts
<1>3. ReaderData
  BY <1>1, ObjKept, QuietData DEF Inv, Shape, TypeOK
<1>4. RoutingSound'
  BY <1>1, <1>2, ObjKept, RoutingKept
<1>5. ReaderControl("check", out[Reader])
  BY <1>1, <1>2, GoOn
<1> QED BY <1>2, <1>3, <1>4, <1>5, ReaderStepInv

\* The sid of an ended subscription goes.
LEMMA HandleUnsubscribedInv == ASSUME Inv, HandleUnsubscribed PROVE Inv'
<1>1. /\ Incoming("unsubscribed") /\ Goto("check")
      /\ UNCHANGED <<out, flushing, dispatch, pendingInit, channels, obj, force>>
      /\ sidMap' = [s \in Sids |-> IF s = M.sid THEN Nil ELSE sidMap[s]]
  BY DEF HandleUnsubscribed, Handled
<1>2. DownShrinks /\ UNCHANGED <<subs, rconn>> /\ rconn # NoConn
  BY <1>1, IncomingFacts
<1>3. /\ sidMap' \in [Sids -> Objs \cup {Nil}]
      /\ \A s \in Sids : sidMap'[s] # Nil => sidMap'[s] = sidMap[s]
  BY <1>1 DEF Inv, Shape, TypeOK
<1>4. ReaderData
  BY <1>1, <1>3, ObjKept, QuietData DEF Inv, Shape, TypeOK
<1>5. RoutingSound'
  BY <1>1, <1>2, <1>3, ObjKept, RoutingKept
<1>6. ReaderControl("check", out[Reader])
  BY <1>1, <1>2, GoOn
<1> QED BY <1>2, <1>4, <1>5, <1>6, ReaderStepInv

\* The state that an answer or a data message renews.
LEMMA StateOfType ==
    ASSUME Inv, NEW s, StateOf(s) # Nil
    PROVE  StateOf(s) \in Objs /\ obj[StateOf(s)] \in ChannelState
  BY DEF Inv, Shape, TypeOK, StateOf

\* An ok answer renews a state under its name.
LEMMA ReconciledType ==
    ASSUME Inv, NEW o \in Objs, M \in Message
    PROVE  /\ Reconciled(o) \in ChannelState
           /\ Reconciled(o).name = obj[o].name
<1>1. /\ obj[o] \in ChannelState /\ M.seq \in Nat /\ M.tickers \in SUBSET Tickers
  BY DEF Inv, Shape, TypeOK, Message
<1> QED BY <1>1 DEF Reconciled, ChannelState

\* The flag of a forced reconnect stays a Boolean.
LEMMA ForceType ==
    ASSUME Inv, NEW o, force' = (force \/ Gap(o))
    PROVE  force' \in BOOLEAN
<1>1. PICK b \in BOOLEAN : b = (force \/ Gap(o))
  BY Zenon
<1> QED BY <1>1

\* An ok answer renews the state its sid leads to.
LEMMA HandleOKInv == ASSUME Inv, HandleOK PROVE Inv'
<1> DEFINE o == StateOf(M.sid)
<1>1. /\ Incoming("ok") /\ Goto("check")
      /\ UNCHANGED <<out, flushing, dispatch, pendingInit, channels, sidMap>>
      /\ \/ o = Nil /\ UNCHANGED <<obj, force>>
         \/ /\ o # Nil /\ force' = (force \/ Gap(o))
            /\ obj' = [obj EXCEPT ![o] = Reconciled(o)]
  BY DEF HandleOK, Handled
<1>2. /\ DownShrinks /\ UNCHANGED <<subs, rconn>> /\ rconn # NoConn
      /\ M \in Message
  BY <1>1, IncomingFacts
<1>3. obj' \in [Objs -> ChannelState] /\ NamesKept /\ force' \in BOOLEAN
  <2>1. CASE o = Nil
    BY <1>1, <2>1, ObjKept DEF Inv, Shape, TypeOK
  <2>2. CASE o # Nil
    <3>1. o \in Objs
      BY <2>2, StateOfType
    <3> HIDE DEF o
    <3>2. Renewed(o, Reconciled(o))
      BY <1>1, <1>2, <2>2, <3>1, ReconciledType DEF Renewed
    <3> QED BY <1>1, <2>2, <3>1, <3>2, RenewedType, ForceType DEF Inv, Shape, TypeOK
  <2> QED BY <2>1, <2>2
<1>4. ReaderData
  BY <1>1, <1>3, QuietData DEF Inv, Shape, TypeOK
<1>5. RoutingSound'
  BY <1>1, <1>2, <1>3, RoutingKept
<1>6. ReaderControl("check", out[Reader])
  BY <1>1, <1>2, GoOn
<1> QED BY <1>2, <1>4, <1>5, <1>6, ReaderStepInv

\* A data message renews the number of the state its sid leads to.
LEMMA HandleDataMessageInv == ASSUME Inv, HandleDataMessage PROVE Inv'
<1> DEFINE o == StateOf(M.sid)
<1>1. /\ Incoming("data")
      /\ UNCHANGED <<out, flushing, pendingInit, channels, sidMap>>
      /\ \/ o = Nil /\ Goto("check") /\ UNCHANGED <<obj, force, dispatch>>
         \/ /\ o # Nil /\ force' = (force \/ Gap(o)) /\ Goto("deliver")
            /\ obj' = [obj EXCEPT ![o].seq = M.seq]
            /\ dispatch' = [conn |-> rconn, sid |-> M.sid, seq |-> M.seq]
  BY DEF HandleDataMessage, Handled
<1>2. /\ DownShrinks /\ UNCHANGED <<subs, rconn>> /\ rconn # NoConn
      /\ M \in Message /\ rconn \in Conns
  BY <1>1, IncomingFacts
<1>3. /\ obj' \in [Objs -> ChannelState] /\ NamesKept /\ force' \in BOOLEAN
      /\ dispatch' \in Dispatched
  <2>1. CASE o = Nil
    BY <1>1, <2>1, ObjKept DEF Inv, Shape, TypeOK
  <2>2. CASE o # Nil
    <3>1. o \in Objs /\ obj[o] \in ChannelState /\ M.seq \in Nat
          /\ obj \in [Objs -> ChannelState]
      BY <1>2, <2>2, StateOfType DEF Message, Inv, Shape, TypeOK
    <3>2. dispatch' \in Dispatched
      BY <1>1, <1>2, <2>2 DEF Dispatched, Message, NoSID
    <3> DEFINE state == [obj[o] EXCEPT !.seq = M.seq]
    <3>3. obj' = [obj EXCEPT ![o] = state]
      BY <1>1, <2>2, <3>1
    <3>4. force' \in BOOLEAN
      BY <1>1, <2>2, ForceType
    <3> HIDE DEF o
    <3>5. state \in ChannelState /\ state.name = obj[o].name
      BY <3>1, StateFields
    <3> HIDE DEF state
    <3>6. Renewed(o, state)
      BY <3>3, <3>5 DEF Renewed
    <3> QED BY <3>1, <3>2, <3>4, <3>6, RenewedType
  <2> QED BY <2>1, <2>2
<1>4. ReaderData
  BY <1>1, <1>3, QuietData DEF Inv, Shape, TypeOK
<1>5. RoutingSound'
  BY <1>1, <1>2, <1>3, RoutingKept
<1>6. \E l \in {"check", "deliver"} : Goto(l)
  BY <1>1
<1>7. \E l \in {"check", "deliver"} : ReaderControl(l, out[Reader])
  BY <1>1, <1>2, <1>6, GoOn
<1> QED BY <1>2, <1>4, <1>5, <1>7, ReaderStepInv

\* The channel gets the sid that the service gave it: AnswersTrue says so.
LEMMA HandleSubscribedInv == ASSUME Inv, HandleSubscribed PROVE Inv'
<1>1. PICK e \in pendingInit :
        LET o == channels[e.ch]
        IN  /\ e.id = M.id
            /\ pendingInit' = pendingInit \ {e}
            /\ \/ o = Nil /\ Handled /\ UNCHANGED <<sidMap, obj>>
               \/ /\ o # Nil
                  /\ obj' = [obj EXCEPT ![o].sid = M.sid, ![o].pending = {}]
                  /\ sidMap' = [sidMap EXCEPT ![M.sid] = o]
                  /\ \/ obj[o].pending = {} /\ Handled
                     \/ /\ obj[o].pending # {}
                        /\ flushing' = o
                        /\ SendStart(Reader, Command("add", e.ch, M.sid,
                                                     obj[o].pending, FALSE))
  BY DEF HandleSubscribed
<1>2. Incoming("subscribed") /\ UNCHANGED <<channels, force, dispatch>>
  BY DEF HandleSubscribed
<1>3. /\ DownShrinks /\ rconn \in Conns /\ rconn # NoConn /\ M \in Message
      /\ \E n \in DOMAIN down[rconn] : M = down[rconn][n]
      /\ M.type = "subscribed"
      /\ UNCHANGED <<link, subs, conn, msgID, msgCh, closed, ctxDone,
                     callsLeft, mu, call, rconn, todo, seen, backoff>>
  BY <1>2, IncomingFacts
<1> DEFINE o == channels[e.ch]
<1>4. /\ e.ch \in Channels /\ o \in Objs \cup {Nil}
      /\ obj \in [Objs -> ChannelState] /\ sidMap \in [Sids -> Objs \cup {Nil}]
      /\ out \in [Procs -> SendRecord]
  BY DEF Inv, Shape, TypeOK, Pending
<1>5. /\ M.sid \in DOMAIN subs[rconn] /\ subs[rconn][M.sid].ch = e.ch
      /\ M.sid \in Sids
  <2>1. M.sid \in DOMAIN subs[rconn] /\ subs[rconn][M.sid].ch = e.ch
    <3>1. AnswersTrue /\ e \in pendingInit /\ e.id = M.id
      BY <1>1 DEF Inv
    <3>2. PICK n \in DOMAIN down[rconn] : M = down[rconn][n]
      BY <1>3
    <3>3. /\ rconn \in Conns /\ down[rconn][n].type = "subscribed"
          /\ down[rconn][n].id = e.id
      BY <1>3, <3>1, <3>2
    <3> QED BY <3>1, <3>2, <3>3 DEF AnswersTrue
  <2> QED BY <1>3, <2>1, SidsOfSubs DEF Inv, Shape, TypeOK
<1>6. CASE o = Nil
  <2>1. /\ Goto("check") /\ UNCHANGED <<out, flushing, dispatch, sidMap, obj>>
        /\ pendingInit' \subseteq pendingInit
    BY <1>1, <1>6 DEF Handled
  <2>2. ReaderData
    BY <1>2, <2>1, ObjKept, QuietData DEF Inv, Shape, TypeOK
  <2>3. RoutingSound'
    BY <1>3, <2>1, ObjKept, RoutingKept
  <2>4. ReaderControl("check", out[Reader])
    BY <1>3, <2>1, GoOn
  <2> QED BY <1>3, <2>2, <2>3, <2>4, ReaderStepInv
<1>7. CASE o # Nil
  <2> DEFINE state == [obj[o] EXCEPT !.sid = M.sid, !.pending = {}]
             cmd == Command("add", e.ch, M.sid, obj[o].pending, FALSE)
  <2>1. /\ o \in Objs /\ obj[o].name = e.ch /\ obj[o] \in ChannelState
    BY <1>4, <1>7 DEF Inv, NamesMatch
  <2>2. obj' = [obj EXCEPT ![o] = state] /\ sidMap' = [sidMap EXCEPT ![M.sid] = o]
    BY <1>1, <1>4, <1>7, <2>1
  <2>3. state \in ChannelState /\ state.name = obj[o].name
    BY <1>5, <2>1 DEF ChannelState
  <2>4. NewCommand(cmd) /\ cmd.kind = "add"
    <3> HIDE DEF o
    <3>1. obj[o].pending \in SUBSET Tickers /\ "add" \in Kinds
      BY <2>1, StateFields DEF Kinds
    <3> QED BY <1>4, <1>5, <3>1, CommandType
  <2>5. \/ Handled
        \/ flushing' = o /\ SendStart(Reader, cmd)
    BY <1>1, <1>7
  <2>6. pendingInit' \subseteq pendingInit
    BY <1>1
  <2> HIDE DEF o, state, cmd
  <2>7. obj' \in [Objs -> ChannelState] /\ NamesKept
    BY <1>4, <2>1, <2>2, <2>3, RenewedType DEF Renewed
  <2>8. sidMap' \in [Sids -> Objs \cup {Nil}]
    BY <1>4, <1>5, <2>1, <2>2
  <2>9. RoutingSound'
    <3>1. \A s \in Sids : sidMap'[s] # Nil /\ s # M.sid => sidMap'[s] = sidMap[s]
      BY <1>4, <2>2
    <3>2. sidMap'[M.sid] = o /\ obj'[o].name = e.ch
      BY <1>4, <1>5, <2>1, <2>2, <2>3
    <3> QED
      BY <1>3, <1>4, <1>5, <2>7, <3>1, <3>2 DEF Inv, RoutingSound, NamesKept
  <2>10. CASE Handled
    <3>1. Goto("check") /\ UNCHANGED <<out, flushing, dispatch>>
      BY <2>10 DEF Handled
    <3>2. ReaderData
      BY <1>2, <2>6, <2>7, <2>8, <3>1, QuietData DEF Inv, Shape, TypeOK
    <3>3. ReaderControl("check", out[Reader])
      BY <1>3, <3>1, GoOn
    <3> QED BY <1>3, <2>9, <3>2, <3>3, ReaderStepInv
  <2>11. CASE flushing' = o /\ SendStart(Reader, cmd)
    <3>1. /\ Goto("register") /\ out' = [out EXCEPT ![Reader] = cmd]
          /\ mu' = Nobody
      BY <2>11 DEF SendStart, Goto, Unlock
    <3>2. ReaderData
      BY <1>2, <1>3, <2>1, <2>6, <2>7, <2>8, <2>11, <3>1
         DEF Inv, Shape, TypeOK, ReaderData
    <3>3. flushing' # Nil
      BY <1>7, <2>11
    <3>4. ReaderControl("register", cmd)
      BY <1>3, <2>4, <3>1, <3>3
         DEF ReaderControl, Sending, Attached, Detached, ReaderLabels
    <3> QED BY <1>3, <2>9, <3>2, <3>4, ReaderStepInv
  <2> QED BY <2>5, <2>10, <2>11
<1> QED BY <1>6, <1>7

\* A step of the reader that takes nothing off a connection.
LEMMA DownKept ==
    ASSUME Inv, UNCHANGED serverVars
    PROVE  DownShrinks /\ UNCHANGED <<link, subs>>
  BY DEF Inv, Shape, TypeOK, ServerTypeOK, DownShrinks, serverVars

\* The flush sends again or ends.
LEMMA FlushSentInv == ASSUME Inv, FlushSent PROVE Inv'
<1> DEFINE o == flushing
           pending == obj[o].pending
           cmd == Command("add", out[Reader].ch, out[Reader].sid, pending, FALSE)
<1>1. /\ At("finish") /\ out[Reader].kind = "add"
      /\ UNCHANGED serverVars
      /\ UNCHANGED <<conn, msgID, pendingInit, channels, sidMap, msgCh, closed,
                     ctxDone, callsLeft, call, rconn, dispatch, todo, seen,
                     backoff>>
  BY DEF FlushSent, cmdVars
<1>2. \/ /\ obj' = [obj EXCEPT ![o].pending = {}] /\ SendStart(Reader, cmd)
         /\ UNCHANGED <<flushing, force>>
      \/ /\ force' = (force \/ ~out[Reader].ok) /\ flushing' = Nil
         /\ out' = [out EXCEPT ![Reader] = NoSend]
         /\ Goto("check") /\ UNCHANGED <<mu, obj>>
  BY DEF FlushSent
<1>3. /\ rconn # NoConn /\ o \in Objs /\ out[Reader] \in SendRecord
      /\ out[Reader].ch \in Channels
  BY <1>1, ReaderIsNoCaller
     DEF At, Sending, Inv, Shape, ReaderShape, CommandShape, TypeOK
<1>4. DownShrinks /\ UNCHANGED <<link, subs>>
  BY <1>1, DownKept
<1>5. CASE /\ obj' = [obj EXCEPT ![o].pending = {}] /\ SendStart(Reader, cmd)
           /\ UNCHANGED <<flushing, force>>
  <2> DEFINE state == [obj[o] EXCEPT !.pending = {}]
  <2>1. obj \in [Objs -> ChannelState] /\ obj[o] \in ChannelState
    BY <1>3 DEF Inv, Shape, TypeOK
  <2>2. obj' = [obj EXCEPT ![o] = state]
    BY <1>5, <2>1
  <2>3. state \in ChannelState /\ state.name = obj[o].name
    BY <2>1, StateFields
  <2>4. NewCommand(cmd) /\ cmd.kind = "add"
    <3> HIDE DEF o
    <3>1. pending \in SUBSET Tickers /\ out[Reader].sid \in Sids \cup {NoSID}
          /\ "add" \in Kinds
      BY <1>3, <2>1, StateFields DEF SendRecord, Kinds
    <3> HIDE DEF pending
    <3> QED BY <1>3, <3>1, CommandType
  <2> HIDE DEF cmd, state
  <2>5. obj' \in [Objs -> ChannelState] /\ NamesKept
    BY <1>3, <2>1, <2>2, <2>3, RenewedType DEF Renewed
  <2>6. /\ Goto("register") /\ out' = [out EXCEPT ![Reader] = cmd] /\ mu' = Nobody
    BY <1>5 DEF SendStart, Goto, Unlock
  <2>7. ReaderData
    BY <1>1, <1>4, <1>5, <2>5, <2>6 DEF Inv, Shape, TypeOK, ReaderData
  <2>8. ReaderControl("register", cmd)
    BY <1>1, <1>3, <1>5, <2>4, <2>6
       DEF ReaderControl, Sending, Attached, Detached, ReaderLabels, Nil, Inv,
           Shape, ReaderShape, At
  <2>9. RoutingSound'
    BY <1>1, <1>4, <2>5, RoutingKept
  <2> QED BY <1>4, <2>7, <2>8, <2>9, ReaderStepInv
<1>6. CASE /\ force' = (force \/ ~out[Reader].ok) /\ flushing' = Nil
           /\ out' = [out EXCEPT ![Reader] = NoSend]
           /\ Goto("check") /\ UNCHANGED <<mu, obj>>
  <2>1. force' \in BOOLEAN
    <3>1. PICK b \in BOOLEAN : b = (force \/ ~out[Reader].ok)
      BY Zenon
    <3> QED BY <1>6, <3>1
  <2>2. obj' \in [Objs -> ChannelState] /\ NamesKept
    BY <1>6, ObjKept
  <2>3. ReaderData
    BY <1>1, <1>4, <1>6, <2>1, <2>2 DEF Inv, Shape, TypeOK, ReaderData
  <2>4. ReaderControl("check", NoSend)
    BY <1>1, <1>3, <1>6, NoSendType
       DEF ReaderControl, Sending, Attached, Detached, ReaderLabels
  <2>5. RoutingSound'
    BY <1>1, <1>4, <2>2, RoutingKept
  <2> QED BY <1>4, <2>3, <2>4, <2>5, ReaderStepInv
<1> QED BY <1>2, <1>5, <1>6

\* The dispatched message goes into msgCh, which has room.
LEMMA DeliverInv == ASSUME Inv, Deliver PROVE Inv'
<1>1. /\ At("deliver") /\ Len(msgCh) < BufSize
      /\ msgCh' = Append(msgCh, dispatch) /\ dispatch' = NoDispatch
      /\ Goto("check")
      /\ UNCHANGED <<serverVars, conn, cmdVars, stateVars, closed, ctxDone,
                     force, callsLeft, mu, out, call, rconn, flushing, todo,
                     seen, backoff>>
  BY DEF Deliver
<1>2. msgCh' \in Seq(Dispatched) /\ Len(msgCh') <= BufSize
  <2>1. /\ msgCh \in Seq(Dispatched) /\ Len(msgCh) \in Nat
        /\ dispatch \in Dispatched /\ BufSize \in Nat
    BY ClientAssumption, LenProperties
       DEF Inv, Shape, TypeOK, ClientAssumption
  <2>2. msgCh' \in Seq(Dispatched) /\ Len(msgCh') = Len(msgCh) + 1
    BY <1>1, <2>1, AppendProperties
  <2> QED BY <1>1, <2>1, <2>2
<1>3. /\ pc' \in [Procs -> CallerLabels \cup ReaderLabels]
      /\ pc'[Reader] = "check"
  BY <1>1, ReaderIsNoCaller DEF Goto, CallerLabels, ReaderLabels, Inv, Shape, TypeOK
<1>4. NoDispatch \in Dispatched
  BY DEF NoDispatch, Dispatched
<1>5. TypeOK'
  BY <1>1, <1>2, <1>3, <1>4
     DEF Inv, Shape, TypeOK, ServerTypeOK, serverVars, cmdVars, stateVars
<1>6. ReaderShape'
  BY <1>1, <1>3 DEF ReaderShape, Inv, Shape, At, Attached, Detached, Sending
<1> QED BY <1>1, <1>5, <1>6, ReaderInv DEF serverVars

\* With the connection go its sids and the answers that were awaited on it.
LEMMA HandleConnectionLossInv == ASSUME Inv, HandleConnectionLoss PROVE Inv'
<1>1. /\ sidMap' = ClearedSids /\ pendingInit' = {}
      /\ obj' = [o \in Objs |->
                   IF o \in Registered THEN Forgotten(obj[o]) ELSE obj[o]]
      /\ conn' = NoConn /\ rconn' = NoConn /\ Goto("waitLoss")
      /\ UNCHANGED <<serverVars, msgID, channels, flagVars, mu, out, call,
                     dispatch, flushing, todo, seen, backoff>>
  BY DEF HandleConnectionLoss
<1>2. DownShrinks /\ UNCHANGED <<link, subs>>
  BY <1>1, DownKept
<1>3. /\ obj' \in [Objs -> ChannelState] /\ NamesKept
  <2>1. \A o \in Objs : /\ obj[o] \in ChannelState
                        /\ Forgotten(obj[o]) \in ChannelState
                        /\ Forgotten(obj[o]).name = obj[o].name
    BY DEF Inv, Shape, TypeOK, Forgotten, ChannelState
  <2> QED BY <1>1, <2>1 DEF NamesKept
<1>4. /\ sidMap' \in [Sids -> Objs \cup {Nil}]
      /\ \A s \in Sids : sidMap'[s] = Nil
  BY <1>1 DEF ClearedSids
<1>5. ReaderData
  BY <1>1, <1>2, <1>3, <1>4 DEF Inv, Shape, TypeOK, ReaderData, flagVars
<1>6. RoutingSound'
  BY <1>4 DEF RoutingSound
<1> DEFINE cmd == out[Reader]
<1>7. out' = [out EXCEPT ![Reader] = cmd]
  BY <1>1, ReaderIsNoCaller DEF Inv, Shape, TypeOK
<1>8. ReaderControl("waitLoss", cmd)
  BY <1>1, <1>7 DEF ReaderControl, Sending, Attached, Detached, ReaderLabels
<1> HIDE DEF cmd
<1> QED BY <1>2, <1>5, <1>6, <1>8, ReaderStepInv

\* A step of recoverSubscriptions, which runs outside readLoop.
LEMMA RecoverInv ==
    ASSUME Inv, RecoverFrame, rconn = NoConn, mu' \in Procs \cup {Nobody},
           todo' \subseteq Objs, seen' \subseteq Objs,
           NEW l, NEW cmd, ReaderControl(l, cmd)
    PROVE  Inv'
<1>1. UNCHANGED <<serverVars, conn, msgID, pendingInit, channels, sidMap, obj,
                  msgCh, closed, ctxDone, force, callsLeft, call, rconn,
                  dispatch, flushing, backoff>>
  BY DEF RecoverFrame, cmdVars, stateVars, flagVars
<1>2. DownShrinks /\ UNCHANGED <<link, subs>>
  BY <1>1, DownKept
<1>3. obj' \in [Objs -> ChannelState] /\ NamesKept
  BY <1>1, ObjKept
<1>4. ReaderData
  BY <1>1, <1>2, <1>3 DEF Inv, Shape, TypeOK, ReaderData
<1>5. RoutingSound'
  BY <1>1, <1>2, <1>3, RoutingKept
<1> QED BY <1>2, <1>4, <1>5, ReaderStepInv

\* The registered states are objects.
LEMMA RegisteredType == ASSUME Inv PROVE Registered \subseteq Objs
  BY DEF Inv, Shape, TypeOK, Registered

\* The range starts.
LEMMA RecoverStartInv == ASSUME Inv, RecoverStart PROVE Inv'
<1>1. /\ At("recover") /\ Goto("next") /\ todo' = Registered /\ mu' = Reader
      /\ UNCHANGED <<out, seen>> /\ RecoverFrame
  BY DEF RecoverStart
<1>2. /\ rconn = NoConn /\ rconn' = NoConn /\ Reader \in Procs
      /\ todo' \subseteq Objs /\ seen' \subseteq Objs
  BY <1>1, RegisteredType, ReaderIsNoCaller
     DEF Inv, Shape, TypeOK, ReaderShape, At, Detached, RecoverFrame
<1> DEFINE cmd == out[Reader]
<1>3. out' = [out EXCEPT ![Reader] = cmd]
  BY <1>1, <1>2 DEF Inv, Shape, TypeOK
<1>4. ReaderControl("next", cmd)
  BY <1>1, <1>2, <1>3 DEF ReaderControl, Sending, Attached, Detached, ReaderLabels
<1> HIDE DEF cmd
<1> QED BY <1>1, <1>2, <1>4, RecoverInv

\* The range ends.
LEMMA RecoverEndInv == ASSUME Inv, RecoverEnd PROVE Inv'
<1>1. /\ At("next") /\ Goto("top") /\ mu' = Nobody /\ todo' = {} /\ seen' = {}
      /\ UNCHANGED out /\ RecoverFrame
  BY DEF RecoverEnd, Unlock
<1>2. rconn = NoConn /\ rconn' = NoConn /\ Reader \in Procs
  BY <1>1, ReaderIsNoCaller
     DEF Inv, Shape, ReaderShape, At, Detached, RecoverFrame
<1> DEFINE cmd == out[Reader]
<1>3. out' = [out EXCEPT ![Reader] = cmd]
  BY <1>1, <1>2 DEF Inv, Shape, TypeOK
<1>4. ReaderControl("top", cmd)
  BY <1>1, <1>2, <1>3 DEF ReaderControl, Sending, Attached, Detached, ReaderLabels
<1> HIDE DEF cmd
<1> QED BY <1>1, <1>2, <1>4, RecoverInv

\* The recovery goes on, or ends at a failed send.
LEMMA RecoverSentInv == ASSUME Inv, RecoverSent PROVE Inv'
<1>1. /\ At("finish") /\ out[Reader].kind = "subscribe"
      /\ out' = [out EXCEPT ![Reader] = NoSend] /\ RecoverFrame
      /\ \/ Goto("top") /\ todo' = {} /\ seen' = {} /\ UNCHANGED mu
         \/ Goto("next") /\ mu' = Reader /\ UNCHANGED <<todo, seen>>
  BY DEF RecoverSent
<1>2. /\ rconn = NoConn /\ rconn' = NoConn /\ Reader \in Procs
      /\ todo' \subseteq Objs /\ seen' \subseteq Objs
      /\ mu' \in Procs \cup {Nobody}
  BY <1>1, ReaderIsNoCaller
     DEF Inv, Shape, TypeOK, ReaderShape, At, Sending, RecoverFrame
<1>3. PICK l \in {"top", "next"} : Goto(l)
  BY <1>1
<1>4. ReaderControl(l, NoSend)
  BY <1>1, <1>2, <1>3, NoSendType
     DEF ReaderControl, Sending, Attached, Detached, ReaderLabels
<1> QED BY <1>1, <1>2, <1>4, RecoverInv

\* The range visits a channel.
LEMMA RecoverNextInv ==
    ASSUME Inv, NEW ch \in Channels, RecoverNext(ch) PROVE Inv'
<1> DEFINE o == channels[ch]
           tickers == IF obj[o].global THEN {} ELSE obj[o].markets
           cmd == Command("subscribe", obj[o].name, NoSID, tickers, obj[o].global)
<1>1. /\ At("next") /\ o # Nil /\ seen' = seen \cup {o}
      /\ UNCHANGED todo /\ RecoverFrame
      /\ \/ UNCHANGED <<mu, pc, out>>
         \/ SendStart(Reader, cmd)
  BY DEF RecoverNext
<1>2. /\ rconn = NoConn /\ rconn' = NoConn /\ Reader \in Procs
      /\ pc[Reader] = "next" /\ o \in Objs /\ obj[o] \in ChannelState
  BY <1>1, ReaderIsNoCaller
     DEF Inv, Shape, TypeOK, ReaderShape, At, Detached, RecoverFrame
<1>3. todo' \subseteq Objs /\ seen' \subseteq Objs
  BY <1>1, <1>2 DEF Inv, Shape, TypeOK
<1>4. CASE UNCHANGED <<mu, pc, out>>
  <2> DEFINE same == out[Reader]
  <2>1. out' = [out EXCEPT ![Reader] = same] /\ Goto("next")
        /\ mu' \in Procs \cup {Nobody}
    BY <1>2, <1>4 DEF Goto, Inv, Shape, TypeOK
  <2>2. ReaderControl("next", same)
    BY <1>2, <2>1 DEF ReaderControl, Sending, Attached, Detached, ReaderLabels
  <2> HIDE DEF same
  <2> QED BY <1>1, <1>2, <1>3, <2>1, <2>2, RecoverInv
<1>5. CASE SendStart(Reader, cmd)
  <2>1. /\ obj[o].name \in Channels /\ obj[o].global \in BOOLEAN
        /\ tickers \in SUBSET Tickers
    <3> HIDE DEF o
    <3> QED BY <1>2, StateFields
  <2>2. NewCommand(cmd) /\ cmd.kind = "subscribe"
    <3>1. "subscribe" \in Kinds /\ NoSID \in Sids \cup {NoSID}
      BY DEF Kinds
    <3> HIDE DEF o, tickers
    <3> QED BY <2>1, <3>1, CommandType
  <2> HIDE DEF cmd
  <2>3. /\ Goto("register") /\ out' = [out EXCEPT ![Reader] = cmd]
        /\ mu' = Nobody
    BY <1>5 DEF SendStart, Goto, Unlock
  <2>4. ReaderControl("register", cmd)
    BY <1>2, <2>2, <2>3
       DEF ReaderControl, Sending, Attached, Detached, ReaderLabels
  <2> QED BY <1>1, <1>2, <1>3, <2>3, <2>4, RecoverInv
<1> QED BY <1>1, <1>4, <1>5

-----------------------------------------------------------------------------
(* The consumer, the context and the feed.                                 *)
\* The consumer takes a message.
LEMMA ConsumeInv == ASSUME Inv, Consume PROVE Inv'
<1>1. /\ msgCh # <<>> /\ msgCh' = Tail(msgCh)
      /\ UNCHANGED <<serverVars, conn, cmdVars, stateVars, closed, ctxDone,
                     force, callsLeft, procVars, readerVars>>
  BY DEF Consume
<1>2. msgCh' \in Seq(Dispatched) /\ Len(msgCh') <= BufSize
  <2>1. /\ msgCh \in Seq(Dispatched) /\ Len(msgCh) \in Nat
        /\ Len(msgCh) <= BufSize /\ BufSize \in Nat
    BY ClientAssumption, LenProperties
       DEF Inv, Shape, TypeOK, ClientAssumption
  <2>2. msgCh' \in Seq(Dispatched) /\ Len(msgCh') = Len(msgCh) - 1
    BY <1>1, <2>1, HeadTailProperties
  <2> QED BY <2>1, <2>2
<1>3. TypeOK'
  BY <1>1, <1>2 DEF Inv, Shape, TypeOK, ServerTypeOK, serverVars, cmdVars,
     stateVars, procVars, readerVars
<1>4. ReaderShape'
  BY <1>1 DEF Inv, Shape, ReaderShape, procVars, readerVars
<1> QED BY <1>1, <1>3, <1>4, ReaderInv DEF serverVars, procVars, readerVars

\* The context is cancelled.
LEMMA CancelInv == ASSUME Inv, Cancel PROVE Inv'
<1>1. /\ ctxDone' = TRUE
      /\ UNCHANGED <<serverVars, conn, cmdVars, stateVars, msgCh, closed,
                     force, callsLeft, procVars, readerVars>>
  BY DEF Cancel
<1>2. TypeOK'
  BY <1>1 DEF Inv, Shape, TypeOK, ServerTypeOK, serverVars, cmdVars,
     stateVars, procVars, readerVars
<1>3. ReaderShape'
  BY <1>1 DEF Inv, Shape, ReaderShape, procVars, readerVars
<1> QED BY <1>1, <1>2, <1>3, ReaderInv DEF serverVars, procVars, readerVars

\* What the feed adds to the queues answers no command.
LEMMA FeedInv == ASSUME Inv, Feed PROVE Inv'
<1>1. ServerStep /\ UNCHANGED clientVars
  BY DEF Feed
<1>2. UNCHANGED <<conn, msgID, pendingInit, channels, sidMap, obj, msgCh,
                  closed, ctxDone, force, callsLeft, mu, pc, out, call, rconn,
                  dispatch, flushing, todo, seen, backoff>>
  BY <1>1 DEF clientVars, cmdVars, stateVars, flagVars, procVars, readerVars
<1>3. /\ ServerTypeOK' /\ SubsKept
      /\ \/ UNCHANGED down
         \/ \E k \in Conns :
              \E m : Enqueues(k, m) /\ m.type = "data" /\ m.id = 0
  BY <1>1, FeedStep DEF Inv, Shape, TypeOK
<1>4. \A j \in Conns : \A i \in DOMAIN down'[j] :
        \/ down'[j][i].type = "data" /\ down'[j][i].id = 0
        \/ i \in DOMAIN down[j] /\ down'[j][i] = down[j][i]
  <2>1. CASE down' = down
    BY <2>1
  <2>2. CASE down' # down
    <3>1. PICK k \in Conns :
            \E m : Enqueues(k, m) /\ m.type = "data" /\ m.id = 0
      BY <1>3, <2>2
    <3>2. PICK m : Enqueues(k, m) /\ m.type = "data" /\ m.id = 0
      BY <3>1
    <3> QED BY <3>2, QueuedMessages DEF Inv, Shape, TypeOK
  <2> QED BY <2>1, <2>2
<1>5. Shape'
  BY <1>2, <1>3 DEF Inv, Shape, TypeOK, CommandShape, ReaderShape
<1>6. NamesMatch' /\ IdsUnique'
  BY <1>2 DEF Inv, NamesMatch, IdsUnique
<1>7. IdsBounded'
  <2>1. 0 <= msgID /\ msgID' = msgID
    BY <1>2 DEF Inv, Shape, TypeOK
  <2> QED BY <1>2, <1>4, <2>1 DEF Inv, IdsBounded
<1>8. AnswersTrue'
  BY <1>2, <1>3, <1>4 DEF Inv, AnswersTrue, SubsKept
<1>9. RoutingSound'
  <2>1. rconn \in Conns \cup {NoConn}
    BY DEF Inv, Shape, TypeOK
  <2> QED BY <1>2, <1>3, <2>1 DEF Inv, RoutingSound, SubsKept
<1> QED BY <1>5, <1>6, <1>7, <1>8, <1>9 DEF Inv

-----------------------------------------------------------------------------
(* The theorems.                                                           *)
\* The invariant holds initially.
LEMMA InitInv == Init => Inv
<1> SUFFICES ASSUME Init PROVE Inv
  OBVIOUS
<1>0. /\ <<>> \in Seq(Dispatched) /\ <<>> \in Seq(LinkStates)
      /\ <<>> \in Seq(Subscription) /\ <<>> \in Seq(Message)
      /\ Len(<<>>) = 0 /\ DOMAIN <<>> = {}
  <2>1. DOMAIN <<>> = {}
    OBVIOUS
  <2> QED BY <2>1, EmptySeq, Zenon
<1>1. /\ ServerTypeOK /\ conn \in Conns \cup {NoConn}
      /\ \A k \in Conns : down[k] = <<>> /\ subs[k] = <<>>
  <2>1. link \in Seq(LinkStates) /\ Len(link) \in {0, 1}
    <3>1. <<"up">> \in Seq(LinkStates) /\ Len(<<"up">>) = 1
      <4>1. "up" \in LinkStates /\ <<"up">> = Append(<<>>, "up")
        BY DEF LinkStates
      <4>2. 0 + 1 = 1
        OBVIOUS
      <4>3. /\ Append(<<>>, "up") \in Seq(LinkStates)
            /\ Len(Append(<<>>, "up")) = Len(<<>>) + 1
        <5>1. <<>> \in Seq(LinkStates) /\ "up" \in LinkStates
          BY <1>0, <4>1
        <5> QED BY <5>1, AppendProperties
      <4>4. <<"up">> \in Seq(LinkStates)
        BY <4>1, <4>3, Zenon
      <4>5. Len(<<"up">>) = 0 + 1
        BY <1>0, <4>1, <4>3, Zenon
      <4> QED BY <4>2, <4>4, <4>5
    <3>2. link = <<"up">> \/ link = <<>>
      BY DEF Init, ServerInit
    <3> QED BY <1>0, <3>1, <3>2
  <2>2. MaxConns \in Nat \ {0} /\ MaxSubs \in Nat
    BY ServerAssumption DEF ServerAssumption
  <2>3. /\ subs = [k \in Conns |-> <<>>] /\ down = [k \in Conns |-> <<>>]
        /\ conn = Len(link)
    BY DEF Init, ServerInit
  <2>4. conn \in Conns \cup {NoConn}
    <3>1. CASE Len(link) = 0
      BY <2>3, <3>1 DEF NoConn
    <3>2. CASE Len(link) = 1
      BY <2>2, <2>3, <3>2 DEF Conns
    <3> QED BY <2>1, <3>1, <3>2
  <2>5. Len(link) <= MaxConns
    BY <2>1, <2>2
  <2>6. /\ subs \in [Conns -> Seq(Subscription)]
        /\ down \in [Conns -> Seq(Message)]
        /\ \A k \in Conns : down[k] = <<>> /\ subs[k] = <<>>
    BY <1>0, <2>3
  <2>7. \A k \in Conns : Len(subs[k]) <= MaxSubs
    BY <1>0, <2>2, <2>6
  <2> QED BY <2>1, <2>4, <2>5, <2>6, <2>7 DEF ServerTypeOK
<1>2. /\ NoCall \in CallRecord /\ NoDispatch \in Dispatched
      /\ NoSend \in SendRecord /\ NoSend.id = 0 /\ NoSend.kind = "none"
  BY NoSendType, EmptySeq
     DEF NewCommand, NoCall, CallRecord, NoDispatch, Dispatched, NoSend
<1>3. \A o \in Objs : obj[o] \in ChannelState
  <2>1. (CHOOSE ch \in Channels : TRUE) \in Channels
    BY ServerAssumption DEF ServerAssumption
  <2> QED BY <2>1 DEF Init, NewChannelState, ChannelState
<1>4. /\ msgCh \in Seq(Dispatched) /\ Len(msgCh) <= BufSize
      /\ MaxCalls \in 0..MaxCalls /\ MinBackoff \in MinBackoff..MaxBackoff
  <2>1. /\ MaxCalls \in Nat /\ BufSize \in Nat /\ MinBackoff \in Nat
        /\ MaxBackoff \in Nat /\ MinBackoff <= MaxBackoff /\ msgCh = <<>>
    BY ClientAssumption DEF Init, ClientAssumption
  <2> QED BY <1>0, <2>1
<1>5. /\ pc \in [Procs -> CallerLabels \cup ReaderLabels] /\ pc[Reader] = "top"
      /\ out \in [Procs -> SendRecord]
  BY <1>2, ReaderIsNoCaller DEF Init, CallerLabels, ReaderLabels
<1>6. TypeOK
  BY <1>1, <1>2, <1>3, <1>4, <1>5 DEF Init, TypeOK, Nil
<1>7. CommandShape
  BY <1>2 DEF Init, CommandShape, NoCall
<1>8. ReaderShape
  BY <1>5 DEF Init, ReaderShape, Attached, Detached, Sending
<1>9. NamesMatch /\ RoutingSound
  BY DEF Init, NamesMatch, RoutingSound
<1>10. \A p \in Procs : out[p].id = 0
  BY <1>2 DEF Init
<1>11. IdsBounded /\ IdsUnique /\ AnswersTrue
  <2>1. pendingInit = {} /\ msgID = 0
    BY DEF Init
  <2>2. \A k \in Conns : DOMAIN down[k] = {}
    BY <1>0, <1>1
  <2> QED BY <1>10, <2>1, <2>2 DEF IdsBounded, IdsUnique, AnswersTrue
<1> QED BY <1>6, <1>7, <1>8, <1>9, <1>11 DEF Inv, Shape

\* A step that changes nothing.
LEMMA StutterInv == ASSUME Inv, UNCHANGED vars PROVE Inv'
<1>1. UNCHANGED <<link, subs, down>>
  BY DEF vars, serverVars
<1>2. UNCHANGED <<conn, msgID, pendingInit, channels, sidMap, obj, msgCh,
                  closed, ctxDone, force, callsLeft, mu, pc, out, call, rconn,
                  dispatch, flushing, todo, seen, backoff>>
  BY DEF vars, clientVars, cmdVars, stateVars, flagVars, procVars, readerVars
<1>3. TypeOK'
  BY <1>1, <1>2 DEF Inv, Shape, TypeOK, ServerTypeOK
<1>4. ReaderShape'
  BY <1>2 DEF Inv, Shape, ReaderShape
<1> QED BY <1>1, <1>2, <1>3, <1>4, ReaderInv DEF cmdVars, stateVars

\* All steps of the callers.
LEMMA CallerStepInv ==
    ASSUME Inv, NEW p \in Callers, Begin(p) \/ CallerStep(p) PROVE Inv'
<1>1. p \in Procs
  BY ReaderIsNoCaller
<1> QED
  BY <1>1, BeginInv, SendStepInv, SubscribeInv, SubscribeSentInv,
     UnsubscribeInv, UnsubscribeSentInv, AddMarketsInv, AddMarketsSentInv,
     RemoveMarketsInv, RemoveMarketsSentInv, GetSnapshotInv,
     GetSnapshotSentInv, ConnectInv, CloseInv, CloseConnInv
     DEF CallerStep

\* All steps of the reader.
LEMMA ReaderStepsInv == ASSUME Inv, ReaderStep PROVE Inv'
<1>1. Reader \in Procs
  BY ReaderIsNoCaller
<1>2. ASSUME HandleIncoming PROVE Inv'
  BY <1>2, HandleSubscribedInv, HandleUnknownIdInv, HandleOKInv,
     HandleUnsubscribedInv, HandleErrorInv, HandleDataMessageInv
     DEF HandleIncoming
<1> QED
  BY <1>1, <1>2, LoopTopInv, DialInv, WaitInv, EnterReadLoopInv, ReadErrorInv,
     CheckForceInv, FlushSentInv, DeliverInv, LoopLeavesInv,
     HandleConnectionLossInv, WaitLossInv, RedialInv, RecoverStartInv,
     RecoverEndInv, RecoverSentInv, RecoverNextInv, SendStepInv
     DEF ReaderStep

\* The invariant is inductive: every step of the client, of its consumer and of
\* the service preserves it.
THEOREM Inductive == Spec => []Inv
<1>1. Inv /\ [Next]_vars => Inv'
  <2> SUFFICES ASSUME Inv, [Next]_vars PROVE Inv'
    OBVIOUS
  <2>1. CASE \E p \in Callers : Begin(p) \/ CallerStep(p)
    BY <2>1, CallerStepInv
  <2>2. CASE ReaderStep
    BY <2>2, ReaderStepsInv
  <2>3. CASE Consume \/ Cancel \/ Feed
    BY <2>3, ConsumeInv, CancelInv, FeedInv
  <2>4. CASE UNCHANGED vars
    BY <2>4, StutterInv
  <2> QED BY <2>1, <2>2, <2>3, <2>4 DEF Next
<1> QED BY InitInv, <1>1, PTL DEF Spec

\* Every variable keeps its type, in particular msgCh never exceeds its capacity
\* and the backoff stays between its bounds (ListenLoop's doubling and its cap).
THEOREM TypeCorrect == Spec => []TypeOK
<1>1. Inv => TypeOK
  BY DEF Inv, Shape
<1> QED BY <1>1, Inductive, PTL

\* However sends, answers, losses and recoveries interleave, a sid that the client
\* knows is one the service assigned, on the connection being read, to the channel
\* that the sid's state names (handleSubscribed, handleConnectionLoss).
THEOREM Routing == Spec => []RoutingSound
<1>1. Inv => RoutingSound
  BY DEF Inv
<1> QED BY <1>1, Inductive, PTL

\* No two commands in flight or awaiting an answer share an id, across goroutines
\* and across connections (sendSubscribe, sendUnsubscribe, sendUpdateSub).
THEOREM Ids == Spec => []IdsUnique
<1>1. Inv => IdsUnique
  BY DEF Inv
<1> QED BY <1>1, Inductive, PTL

-----------------------------------------------------------------------------
(* Two more facts, on top of the invariant: the lock is never held where a *)
(* goroutine may block, and without Close nobody reads from a nil          *)
(* connection.                                                             *)

\* Who holds c.mu from one step to the next is in a loop over channels, on its way to
\* the next one: never dialling, writing, sleeping or sending on msgCh.
LockShort ==
    /\ \A p \in Callers : mu = p => pc[p] = "section" /\ call[p].op # "close"
    /\ mu = Reader => pc[Reader] = "next"

\* Nobody is closing the client, and readLoop is entered with a connection.
Listening ==
    /\ \A p \in Callers : pc[p] # "closing" /\ call[p].op # "close"
    /\ pc[Reader] = "enter" => conn # NoConn
    /\ pc[Reader] # "panic"

-----------------------------------------------------------------------------
(* Steps of the callers.                                                   *)

\* What a caller's step does to its control, and to nobody else's.
Moves(p) ==
    /\ \A q \in Procs \ {p} : pc'[q] = pc[q]
    /\ \A q \in Callers \ {p} : call'[q].op = call[q].op
    /\ call'[p].op \in {call[p].op, "none"}
    /\ pc'[p] # "closing"
    /\ \/ mu' = Nobody
       \/ mu' = mu /\ mu # p
       \/ mu' = p /\ pc'[p] = "section" /\ call'[p].op # "close"

ConnectionKept == conn' = conn \/ conn' # NoConn

LEMMA MovesKeepLock ==
    ASSUME Inv, LockShort, NEW p \in Callers, Moves(p) PROVE LockShort'
<1>1. Reader # p /\ Reader \in Procs /\ p \in Procs /\ Callers \subseteq Procs
  BY ReaderIsNoCaller
<1>2. Nobody # Reader /\ Nobody \notin Callers
  BY ClientAssumption DEF ClientAssumption
<1> QED BY <1>1, <1>2 DEF LockShort, Moves

LEMMA MovesKeepListening ==
    ASSUME Inv, Listening, NEW p \in Callers, Moves(p), ConnectionKept PROVE Listening'
<1>1. Reader # p /\ Reader \in Procs /\ p \in Procs /\ Callers \subseteq Procs
  BY ReaderIsNoCaller
<1> QED BY <1>1 DEF Listening, Moves, ConnectionKept

\* The ends of a method's step: to return, to go on, to send.
Ends(p) ==
    \/ Return(p)
    \/ Continue(p)
    \/ \E cmd : /\ SendStart(p, cmd)
                /\ \/ UNCHANGED call
                   \/ \E o, created : call' = [call EXCEPT ![p].state = o, ![p].created = created]

LEMMA EndsMove ==
    ASSUME Inv, NEW p \in Callers, Ends(p), call[p].op # "close"
    PROVE  Moves(p)
<1>1. /\ pc \in [Procs -> CallerLabels \cup ReaderLabels] /\ p \in Procs
      /\ call \in [Callers -> CallRecord]
  BY ReaderIsNoCaller DEF Inv, Shape, TypeOK
<1>2. ASSUME Return(p) PROVE Moves(p)
  BY <1>1, <1>2 DEF Return, Unlock, NoCall, Moves
<1>3. ASSUME Continue(p), ~Return(p) PROVE Moves(p)
  <2>1. /\ pc' = [pc EXCEPT ![p] = "section"] /\ mu' = p
        /\ call' = [call EXCEPT ![p].chs = Tail(@), ![p].state = Nil, ![p].created = FALSE]
    BY <1>3 DEF Continue
  <2>2. call'[p].op = call[p].op /\ \A q \in Callers \ {p} : call'[q] = call[q]
    BY <1>1, <2>1 DEF CallRecord
  <2> QED BY <1>1, <2>1, <2>2 DEF Moves
<1>4. ASSUME NEW cmd, SendStart(p, cmd),
             \/ UNCHANGED call
             \/ \E o, created : call' = [call EXCEPT ![p].state = o, ![p].created = created]
      PROVE  Moves(p)
  <2>1. call'[p].op = call[p].op /\ \A q \in Callers \ {p} : call'[q] = call[q]
    BY <1>1, <1>4 DEF CallRecord
  <2>2. pc' = [pc EXCEPT ![p] = "register"] /\ mu' = Nobody
    BY <1>4 DEF SendStart, Unlock
  <2> QED BY <1>1, <2>1, <2>2 DEF Moves
<1> QED BY <1>2, <1>3, <1>4 DEF Ends

\* The methods that send commands: each step ends the call or begins to send.
LEMMA MethodsEnd ==
    ASSUME NEW p \in Callers,
           \/ Subscribe(p) \/ SubscribeSent(p) \/ Unsubscribe(p) \/ UnsubscribeSent(p)
           \/ AddMarkets(p) \/ AddMarketsSent(p) \/ RemoveMarkets(p)
           \/ RemoveMarketsSent(p) \/ GetSnapshot(p) \/ GetSnapshotSent(p)
    PROVE  MethodFrame /\ Ends(p) /\ call[p].op # "close"
<1>1. CASE Subscribe(p)
  BY <1>1 DEF Subscribe, InSection, SendFor, Ends
<1>2. CASE SubscribeSent(p)
  BY <1>2 DEF SubscribeSent, InFinish, Ends
<1>3. CASE Unsubscribe(p)
  BY <1>3 DEF Unsubscribe, InSection, Ends
<1>4. CASE UnsubscribeSent(p)
  BY <1>4 DEF UnsubscribeSent, InFinish, Ends
<1>5. CASE AddMarkets(p)
  BY <1>5 DEF AddMarkets, InSection, SendFor, Ends
<1>6. CASE AddMarketsSent(p)
  BY <1>6 DEF AddMarketsSent, InFinish, Ends
<1>7. CASE RemoveMarkets(p)
  BY <1>7 DEF RemoveMarkets, InSection, SendFor, Ends
<1>8. CASE RemoveMarketsSent(p)
  BY <1>8 DEF RemoveMarketsSent, InFinish, Ends
<1>9. CASE GetSnapshot(p)
  BY <1>9 DEF GetSnapshot, InSection, Ends
<1>10. CASE GetSnapshotSent(p)
  BY <1>10 DEF GetSnapshotSent, InFinish, Ends
<1> QED BY <1>1, <1>2, <1>3, <1>4, <1>5, <1>6, <1>7, <1>8, <1>9, <1>10

LEMMA MethodsMove ==
    ASSUME Inv, NEW p \in Callers,
           \/ Subscribe(p) \/ SubscribeSent(p) \/ Unsubscribe(p) \/ UnsubscribeSent(p)
           \/ AddMarkets(p) \/ AddMarketsSent(p) \/ RemoveMarkets(p)
           \/ RemoveMarketsSent(p) \/ GetSnapshot(p) \/ GetSnapshotSent(p)
    PROVE  Moves(p) /\ ConnectionKept
  BY MethodsEnd, EndsMove DEF MethodFrame, ConnectionKept

\* Dialling stores a connection or leaves the one there is.
LEMMA DialKeeps ==
    ASSUME Inv, NEW p \in Procs, Dialled \/ DialFailed(p)
    PROVE  ConnectionKept /\ (Dialled => conn' # NoConn)
<1>1. Len(link) \in Nat
  BY LenProperties DEF Inv, Shape, TypeOK, ServerTypeOK
<1>2. Dialled => conn' # NoConn
  BY <1>1 DEF Dialled, NoConn
<1> QED BY <1>2 DEF ConnectionKept, DialFailed

\* Sending, whoever sends.
LEMMA SendsMove ==
    ASSUME Inv, NEW p \in Procs, SendStep(p)
    PROVE  /\ \E l \in {"grab", "write", "finish"} : pc' = [pc EXCEPT ![p] = l]
           /\ pc[p] \in Sending
           /\ UNCHANGED <<conn, mu, call>>
  BY DEF SendStep, Register, GrabConn, WriteDelivered, WriteLost, WriteTimeout, Written,
         SendFrame, Sending

\* Beginning a call: which calls there are is for the programs that use the client.
LEMMA BeginLock == ASSUME Inv, LockShort, NEW p \in Callers, Begin(p) PROVE LockShort'
<1>1. pc[p] = "idle" /\ UNCHANGED mu /\ pc' = [pc EXCEPT ![p] = "section"]
      /\ \E c : call' = [call EXCEPT ![p] = c]
  BY DEF Begin
<1>2. mu # p
  BY <1>1 DEF LockShort
<1> QED BY <1>1, <1>2, ReaderIsNoCaller DEF LockShort, Inv, Shape, TypeOK

LEMMA BeginListening ==
    ASSUME Inv, Listening, NEW p \in Callers, Begin(p), \A c \in Calls : c.op # "close"
    PROVE  Listening'
<1>1. PICK c \in Calls :
        call' = [call EXCEPT ![p] =
           [NoCall EXCEPT !.op = c.op, !.chs = c.chs, !.tickers = c.tickers,
                          !.global = c.global]]
  BY DEF Begin
<1>2. pc' = [pc EXCEPT ![p] = "section"] /\ UNCHANGED conn
  BY DEF Begin
<1>3. call'[p].op = c.op /\ \A q \in Callers \ {p} : call'[q] = call[q]
  BY <1>1 DEF NoCall, Inv, Shape, TypeOK
<1> QED BY <1>2, <1>3, ReaderIsNoCaller DEF Listening, Inv, Shape, TypeOK

\* Each step of a caller keeps the lock short.
LEMMA CallerLock ==
    ASSUME Inv, LockShort, NEW p \in Callers, Begin(p) \/ CallerStep(p) PROVE LockShort'
<1>1. p \in Procs /\ p # Reader /\ Reader \in Procs /\ Callers \subseteq Procs
  BY ReaderIsNoCaller
<1>2. pc \in [Procs -> CallerLabels \cup ReaderLabels] /\ call \in [Callers -> CallRecord]
  BY DEF Inv, Shape, TypeOK
<1>3. CASE SendStep(p)
  <2>1. pc[p] # "section" /\ UNCHANGED <<mu, call>>
        /\ \A q \in Procs \ {p} : pc'[q] = pc[q]
    BY <1>1, <1>2, <1>3, SendsMove DEF Sending
  <2> QED BY <1>1, <2>1 DEF LockShort
<1>4. CASE Connect(p)
  <2>1. Return(p) /\ call[p].op # "close"
    BY <1>4 DEF Connect, InSection
  <2> QED BY <2>1, EndsMove, MovesKeepLock DEF Ends
<1>5. CASE Close(p)
  <2>1. mu # p /\ UNCHANGED <<mu, call>> /\ pc' = [pc EXCEPT ![p] = "closing"]
    BY <1>5 DEF Close, LockShort
  <2> QED BY <1>1, <1>2, <2>1 DEF LockShort
<1>6. CASE CloseConn(p)
  <2>1. mu' = Nobody
    BY <1>6 DEF CloseConn, Return, Unlock
  <2>2. Nobody # Reader /\ Nobody \notin Callers
    BY ClientAssumption DEF ClientAssumption
  <2> QED BY <2>1, <2>2 DEF LockShort
<1> QED BY <1>3, <1>4, <1>5, <1>6, BeginLock, MethodsMove, MovesKeepLock DEF CallerStep

\* Each step of a caller, in a program without Close, leaves the reader its connection.
LEMMA CallerListening ==
    ASSUME Inv, Listening, NEW p \in Callers, Begin(p) \/ CallerStep(p),
           \A c \in Calls : c.op # "close"
    PROVE  Listening'
<1>1. p \in Procs /\ p # Reader /\ Reader \in Procs /\ Callers \subseteq Procs
  BY ReaderIsNoCaller
<1>2. pc \in [Procs -> CallerLabels \cup ReaderLabels]
  BY DEF Inv, Shape, TypeOK
<1>3. CASE SendStep(p)
  <2>1. /\ UNCHANGED <<conn, call>> /\ pc'[p] # "closing"
        /\ \A q \in Procs \ {p} : pc'[q] = pc[q]
    BY <1>1, <1>2, <1>3, SendsMove
  <2> QED BY <1>1, <2>1 DEF Listening
<1>4. CASE Connect(p)
  <2>1. Return(p) /\ call[p].op # "close" /\ (Dialled \/ DialFailed(p))
    BY <1>4 DEF Connect, InSection
  <2> QED BY <1>1, <2>1, EndsMove, DialKeeps, MovesKeepListening DEF Ends
<1>5. ~Close(p) /\ ~CloseConn(p)
  BY DEF Listening, Close, CloseConn
<1> QED BY <1>3, <1>4, <1>5, BeginListening, MethodsMove, MovesKeepListening DEF CallerStep

-----------------------------------------------------------------------------
(* Steps of the reader.                                                    *)

\* What a step of the reader does to the labels and the lock.
ReaderMoves ==
    /\ \A q \in Callers : pc'[q] = pc[q] /\ call'[q] = call[q]
    /\ \/ mu' = Nobody
       \/ mu' = mu /\ (mu = Reader => pc'[Reader] = "next")
       \/ mu' = Reader /\ pc'[Reader] = "next"
    /\ pc'[Reader] = "enter" => conn' # NoConn
    /\ pc'[Reader] # "panic"

LEMMA ReaderMovesKeep ==
    ASSUME Inv, ReaderMoves
    PROVE  (LockShort => LockShort') /\ (Listening => Listening')
<1>1. Nobody # Reader /\ Nobody \notin Callers /\ Reader \notin Callers
  BY ClientAssumption DEF ClientAssumption
<1> QED BY <1>1 DEF ReaderMoves, LockShort, Listening

\* A step to label l, with the lock as it is or freed.
LEMMA StepTo ==
    ASSUME Inv, LockShort, NEW l, Goto(l), UNCHANGED call, mu' \in {mu, Nobody},
           pc[Reader] # "next", l # "panic", l = "enter" => conn' # NoConn
    PROVE  ReaderMoves
<1>1. pc \in [Procs -> CallerLabels \cup ReaderLabels] /\ Reader \in Procs
      /\ \A q \in Callers : q \in Procs /\ q # Reader
  BY ReaderIsNoCaller DEF Inv, Shape, TypeOK
<1>2. mu # Reader
  BY DEF LockShort
<1> QED BY <1>1, <1>2 DEF Goto, ReaderMoves

\* A step that unlocks to send a command.
LEMMA StepToSend ==
    ASSUME Inv, NEW cmd, SendStart(Reader, cmd), UNCHANGED call
    PROVE  ReaderMoves
<1>1. pc \in [Procs -> CallerLabels \cup ReaderLabels] /\ Reader \in Procs
      /\ \A q \in Callers : q \in Procs /\ q # Reader
  BY ReaderIsNoCaller DEF Inv, Shape, TypeOK
<1> QED BY <1>1 DEF SendStart, Unlock, ReaderMoves

\* handleIncoming is over, or unlocks to flush or to deliver.
LEMMA IncomingMoves == ASSUME Inv, LockShort, HandleIncoming PROVE ReaderMoves
<1>1. PICK type : Incoming(type)
  BY DEF HandleIncoming, HandleSubscribed, HandleUnknownId, HandleOK,
         HandleUnsubscribed, HandleError, HandleDataMessage
<1>2. pc[Reader] = "read" /\ mu = Nobody /\ UNCHANGED <<call, mu>>
  BY <1>1 DEF Incoming, At
<1>3. \/ Goto("check") \/ Goto("deliver")
      \/ \E cmd : SendStart(Reader, cmd)
  BY DEF HandleIncoming, HandleSubscribed, HandleUnknownId, HandleOK,
         HandleUnsubscribed, HandleError, HandleDataMessage, Handled
<1> QED BY <1>2, <1>3, StepTo, StepToSend

\* Every step of the reader but the one that enters readLoop.
LEMMA ReaderStepMoves ==
    ASSUME Inv, LockShort, ReaderStep PROVE ReaderMoves \/ EnterReadLoop
<1>1. Reader \in Procs /\ pc \in [Procs -> CallerLabels \cup ReaderLabels]
      /\ \A q \in Callers : q \in Procs /\ q # Reader
  BY ReaderIsNoCaller DEF Inv, Shape, TypeOK
<1>2. CASE LoopTop
  <2>1. UNCHANGED <<conn, mu, call>> /\ pc[Reader] = "top"
    BY <1>2 DEF LoopTop, LoopFrame, At
  <2>2. \E l \in {"done", "dial", "enter"} : Goto(l) /\ (l = "enter" => conn # NoConn)
    BY <1>2 DEF LoopTop, FromTop
  <2> QED BY <2>1, <2>2, StepTo
<1>3. CASE Dial
  <2>1. UNCHANGED <<mu, call>> /\ pc[Reader] = "dial"
    BY <1>3 DEF Dial, LoopFrame, At
  <2>2. (Dialled /\ Goto("enter")) \/ (DialFailed(Reader) /\ Goto("wait"))
    BY <1>3 DEF Dial
  <2>3. Dialled => conn' # NoConn
    BY <1>1, DialKeeps
  <2> QED BY <2>1, <2>2, <2>3, StepTo
<1>4. CASE Wait \/ WaitLoss \/ Redial
  <2>1. UNCHANGED <<mu, call>> /\ pc[Reader] \in {"wait", "waitLoss", "redial"}
    BY <1>4 DEF Wait, WaitLoss, Redial, LoopFrame, At
  <2>2. \E l \in {"done", "top", "redial", "recover"} : Goto(l)
    BY <1>4 DEF Wait, WaitLoss, Redial
  <2> QED BY <2>1, <2>2, StepTo
<1>5. CASE ReadError \/ CheckForce \/ LoopLeaves
  <2>1. UNCHANGED <<mu, call>> /\ pc[Reader] \in {"read", "check", "returned"}
    BY <1>5 DEF ReadError, CheckForce, LoopLeaves, LoopFrame, At
  <2>2. \E l \in {"returned", "read", "done"} : Goto(l)
    BY <1>5 DEF ReadError, CheckForce, LoopLeaves
  <2> QED BY <2>1, <2>2, StepTo
<1>6. CASE HandleIncoming
  BY <1>6, IncomingMoves
<1>7. CASE FlushSent
  <2>1. pc[Reader] = "finish" /\ mu = Nobody /\ UNCHANGED call
    BY <1>7 DEF FlushSent, At
  <2>2. (\E cmd : SendStart(Reader, cmd)) \/ (Goto("check") /\ UNCHANGED mu)
    BY <1>7 DEF FlushSent
  <2> QED BY <2>1, <2>2, StepTo, StepToSend
<1>8. CASE Deliver \/ HandleConnectionLoss
  <2>1. UNCHANGED <<mu, call>> /\ pc[Reader] \in {"deliver", "returned"}
    BY <1>8 DEF Deliver, HandleConnectionLoss, At
  <2>2. Goto("check") \/ Goto("waitLoss")
    BY <1>8 DEF Deliver, HandleConnectionLoss
  <2> QED BY <2>1, <2>2, StepTo
<1>9. CASE RecoverStart
  <2>1. mu' = Reader /\ Goto("next") /\ UNCHANGED call
    BY <1>9 DEF RecoverStart, RecoverFrame
  <2> QED BY <1>1, <2>1 DEF Goto, ReaderMoves
<1>10. CASE RecoverEnd
  <2>1. mu' = Nobody /\ Goto("top") /\ UNCHANGED call
    BY <1>10 DEF RecoverEnd, RecoverFrame, Unlock
  <2> QED BY <1>1, <2>1 DEF Goto, ReaderMoves
<1>11. CASE RecoverSent
  <2>1. pc[Reader] = "finish" /\ UNCHANGED call
    BY <1>11 DEF RecoverSent, RecoverFrame, At
  <2>2. (Goto("top") /\ UNCHANGED mu) \/ (Goto("next") /\ mu' = Reader)
    BY <1>11 DEF RecoverSent
  <2>3. CASE Goto("next") /\ mu' = Reader
    BY <1>1, <2>1, <2>3 DEF Goto, ReaderMoves
  <2> QED BY <2>1, <2>2, <2>3, StepTo
<1>12. CASE \E ch \in Channels : RecoverNext(ch)
  <2>1. pc[Reader] = "next" /\ UNCHANGED call
    BY <1>12 DEF RecoverNext, RecoverFrame, At
  <2>2. UNCHANGED <<mu, pc>> \/ \E cmd : SendStart(Reader, cmd)
    BY <1>12 DEF RecoverNext
  <2>3. CASE UNCHANGED <<mu, pc>>
    BY <2>1, <2>3 DEF ReaderMoves
  <2> QED BY <2>1, <2>2, <2>3, StepToSend
<1>13. CASE SendStep(Reader)
  <2>1. /\ \E l \in {"grab", "write", "finish"} : Goto(l)
        /\ pc[Reader] # "next" /\ UNCHANGED <<mu, call>>
    BY <1>1, <1>13, SendsMove DEF Goto, Sending
  <2> QED BY <2>1, StepTo
<1> QED
  BY <1>2, <1>3, <1>4, <1>5, <1>6, <1>7, <1>8, <1>9, <1>10, <1>11, <1>12, <1>13
     DEF ReaderStep

LEMMA EnterLock == ASSUME Inv, LockShort, EnterReadLoop PROVE LockShort'
<1>1. mu = Nobody /\ UNCHANGED mu
  BY DEF EnterReadLoop, LoopFrame
<1>2. Nobody # Reader /\ Nobody \notin Callers
  BY ClientAssumption DEF ClientAssumption
<1> QED BY <1>1, <1>2 DEF LockShort

LEMMA EnterListening == ASSUME Inv, LockShort, Listening, EnterReadLoop PROVE Listening'
<1>1. /\ pc[Reader] = "enter" /\ UNCHANGED <<conn, mu, call>>
      /\ Goto(IF conn = NoConn THEN "panic" ELSE "read")
  BY DEF EnterReadLoop, LoopFrame, At
<1>2. conn # NoConn
  BY <1>1 DEF Listening
<1>3. Goto("read")
  BY <1>1, <1>2
<1>4. ReaderMoves
  BY <1>1, <1>3, StepTo
<1> QED BY <1>4, ReaderMovesKeep

-----------------------------------------------------------------------------
(* All steps.                                                              *)

\* What the consumer, the context's owner and the service leave alone.
LEMMA OthersKeep ==
    ASSUME Consume \/ Cancel \/ Feed \/ UNCHANGED vars
    PROVE  UNCHANGED <<conn, mu, pc, call>>
  BY DEF Consume, Cancel, Feed, vars, clientVars, procVars

LEMMA LockKept == ASSUME Inv, LockShort, [Next]_vars PROVE LockShort'
<1>1. CASE \E p \in Callers : Begin(p) \/ CallerStep(p)
  BY <1>1, CallerLock
<1>2. CASE ReaderStep
  BY <1>2, ReaderStepMoves, ReaderMovesKeep, EnterLock
<1>3. CASE Consume \/ Cancel \/ Feed \/ UNCHANGED vars
  BY <1>3, OthersKeep DEF LockShort
<1> QED BY <1>1, <1>2, <1>3 DEF Next

LEMMA ListeningKept ==
    ASSUME Inv, LockShort, Listening, [Next]_vars, \A c \in Calls : c.op # "close"
    PROVE  Listening'
<1>1. CASE \E p \in Callers : Begin(p) \/ CallerStep(p)
  BY <1>1, CallerListening
<1>2. CASE ReaderStep
  BY <1>2, ReaderStepMoves, ReaderMovesKeep, EnterListening
<1>3. CASE Consume \/ Cancel \/ Feed \/ UNCHANGED vars
  BY <1>3, OthersKeep DEF Listening
<1> QED BY <1>1, <1>2, <1>3 DEF Next

LEMMA InitListening == ASSUME Init PROVE LockShort /\ Listening
<1>1. /\ mu = Nobody /\ pc[Reader] = "top"
      /\ \A p \in Callers : pc[p] = "idle" /\ call[p] = NoCall
  BY ReaderIsNoCaller DEF Init
<1>2. Nobody # Reader /\ Nobody \notin Callers
  BY ClientAssumption DEF ClientAssumption
<1> QED BY <1>1, <1>2 DEF LockShort, Listening, NoCall

\* No goroutine holds c.mu where it may block: dialling, writing to a connection,
\* sleeping, or sending on a full MsgCh (handleIncoming, writeJSON, ListenLoop).
THEOREM LockNeverHeldBlocking == Spec => []LockShort
<1>1. Init => LockShort
  BY InitListening
<1>2. Inv /\ LockShort /\ [Next]_vars => LockShort'
  BY LockKept
<1> QED BY <1>1, <1>2, Inductive, PTL DEF Spec

\* In a program that does not call Close, readLoop never reads from a nil connection,
\* whatever breaks and whoever connects (ListenLoop's check, readLoop's copy).
THEOREM NoNilRead == ASSUME \A c \in Calls : c.op # "close" PROVE Spec => []NoPanic
<1>1. Init => Listening
  BY InitListening
<1>2. Inv /\ LockShort /\ Listening /\ [Next]_vars => Listening'
  BY ListeningKept
<1>3. Listening => NoPanic
  BY DEF Listening, NoPanic, At
<1> QED BY <1>1, <1>2, <1>3, Inductive, LockNeverHeldBlocking, PTL DEF Spec

=============================================================================
