------------------------------- MODULE WSClient -------------------------------
(***************************************************************************)
(* The WebSocket client (ws_client.go): the goroutine that runs ListenLoop *)
(* (process Reader) and the goroutines that call the client's methods      *)
(* (processes Callers), over the connections of WSServer.                  *)
(*                                                                         *)
(* The critical sections under c.mu are the steps.  A method that unlocks  *)
(* to send a command goes through the labels "register" (allocate the      *)
(* command's id), "grab" (copy c.conn), "write" (conn.Write) and "finish"  *)
(* (lock again and act on the result); between any two of them the other   *)
(* goroutines run.  mu records who still holds the lock when a method goes *)
(* round its loop over channels without releasing it.                      *)
(*                                                                         *)
(* A *ChannelState is an object of the heap obj, because goroutines keep   *)
(* pointers to it while the maps that led to it change.                    *)
(***************************************************************************)
EXTENDS WSServer, FiniteSets

CONSTANTS
    Callers,      \* the goroutines that call the client's methods
    Reader,       \* the goroutine that runs ListenLoop
    Nobody,       \* holder of a free mutex
    Objs,         \* bound: addresses of ChannelState objects
    Calls,        \* the method calls that may be made
    MaxCalls,     \* bound: method calls made in a behaviour
    BufSize,      \* WithWSMsgBufSize
    MinBackoff,   \* WithWSBackoff, in units of time
    MaxBackoff,
    DialMayFail,  \* websocket.Dial may fail
    MayTimeout,   \* conn.Write may fail on a connection that is up
    MayCancel,    \* ListenLoop's context may be cancelled
    Connected     \* Connect succeeded before ListenLoop was started

Nil == 0
NoConn == 0
NoSID == 0
Procs == Callers \cup {Reader}

Ops == {"subscribe", "unsubscribe", "add", "remove", "snapshot",
        "connect", "close"}

\* The last three bounds restrict what an owner may configure, as the options check
\* nothing: MsgCh() has a buffer, and the backoff grows from a MinBackoff above zero.  The
\* defaults, 4096 messages and 1 s to 32 s, satisfy them.
ASSUME ClientAssumption ==
    /\ Reader \notin Callers /\ Nobody \notin Callers \cup {Reader}
    /\ Objs \subseteq Nat \ {0}
    /\ Calls \subseteq [op: Ops, chs: Seq(Channels), tickers: SUBSET Tickers,
                        global: BOOLEAN]
    /\ \A c \in Calls : c.chs = <<>> => c.op \in {"connect", "close"}
    /\ MaxCalls \in Nat
    /\ {DialMayFail, MayTimeout, MayCancel, Connected} \subseteq BOOLEAN
    /\ BufSize \in Nat \ {0}
    /\ MinBackoff \in Nat \ {0} /\ MaxBackoff \in Nat
    /\ MinBackoff <= MaxBackoff

VARIABLES
    conn,         \* c.conn
    msgCh,        \* c.msgCh; a message also tells the connection it came on
    msgID,        \* c.msgID
    channels,     \* c.channels: channel name -> object
    sidMap,       \* c.sidMap: sid -> object
    pendingInit,  \* c.pendingInit: pairs of message id and channel name
    obj,          \* the heap of ChannelState objects
    closed,       \* c.closed
    force,        \* c.forceReconnect
    mu,           \* who holds c.mu between two steps
    ctxDone,      \* ListenLoop's context is cancelled
    pc,           \* what each goroutine does next
    out,          \* the command each goroutine is sending
    call,         \* the method call each caller is in
    callsLeft,
    rconn,        \* readLoop's conn, NoConn outside readLoop
    dispatch,     \* handleIncoming's dispatch, while it is being delivered
    flushing,     \* handleSubscribed's state, while it flushes
    todo,         \* recoverSubscriptions: objects the range has to visit
    seen,         \* recoverSubscriptions: objects the range has visited
    backoff       \* ListenLoop's backoff

cmdVars == <<msgID, pendingInit>>
stateVars == <<channels, sidMap, obj>>
flagVars == <<msgCh, closed, ctxDone, force, callsLeft>>
procVars == <<mu, pc, out, call>>
readerVars == <<rconn, dispatch, flushing, todo, seen, backoff>>
clientVars == <<conn, cmdVars, stateVars, flagVars, procVars, readerVars>>
vars == <<serverVars, clientVars>>

ChannelState ==
    [name: Channels, markets: SUBSET Tickers, pending: SUBSET Tickers,
     sid: Sids \cup {NoSID}, seq: Nat, global: BOOLEAN]

NewChannelState(ch, markets, global) ==
    [name |-> ch, markets |-> markets, pending |-> {}, sid |-> NoSID,
     seq |-> 0, global |-> global]

Pending == [id: Nat, ch: Channels]

\* The command a goroutine is sending, the connection it copied and the result.
NoSend == [kind |-> "none", id |-> 0, ch |-> "none", sid |-> NoSID,
           tickers |-> {}, global |-> FALSE, conn |-> NoConn, ok |-> FALSE]
Command(kind, ch, sid, tickers, global) ==
    [kind |-> kind, id |-> 0, ch |-> ch, sid |-> sid, tickers |-> tickers,
     global |-> global, conn |-> NoConn, ok |-> FALSE]

\* A call in progress: what is left of it, the object it points to, and whether
\* it created that object.
NoCall == [op |-> "none", chs |-> <<>>, tickers |-> {}, global |-> FALSE,
           state |-> Nil, created |-> FALSE]

NoDispatch == [conn |-> NoConn, sid |-> NoSID, seq |-> 0]

CallerLabels == {"idle", "section", "register", "grab", "write", "finish",
                 "closing"}
ReaderLabels == {"top", "dial", "wait", "enter", "read", "deliver", "check",
                 "returned", "waitLoss", "redial", "recover", "next",
                 "register", "grab", "write", "finish", "done", "panic"}

Registered == {channels[ch] : ch \in Channels} \ {Nil}
Mapped == {sidMap[s] : s \in Sids} \ {Nil}
Held == {call[p].state : p \in Callers} \cup {flushing} \cup todo \cup seen
Unused == Objs \ (Registered \cup Mapped \cup Held)

\* Mutated: handleIncoming keeps the lock during the send on msgCh.
Free_Delivering(p) == mu \in {Nobody, p} /\ pc[Reader] # "deliver"

Free(p) == mu \in {Nobody, p}
-----------------------------------------------------------------------------
(* Sending a command, whoever sends it.                                    *)
Unlock == mu' = Nobody
SendStart(p, cmd) ==
    /\ pc' = [pc EXCEPT ![p] = "register"]
    /\ out' = [out EXCEPT ![p] = cmd]
    /\ Unlock

SendFrame == UNCHANGED <<conn, stateVars, flagVars, mu, call, readerVars>>

\* Mutated: the id is the number of answers awaited.
NextID_Awaited == Cardinality(pendingInit) + 1

NextID == msgID + 1

\* sendSubscribe, sendUnsubscribe and sendUpdateSub allocate the id; the first
\* also notes which channel the answer will be about.
Register(p) ==
    /\ pc[p] = "register" /\ mu = Nobody
    /\ msgID' = NextID
    /\ pendingInit' = pendingInit \cup
         {e \in {[id |-> NextID, ch |-> out[p].ch]} : out[p].kind = "subscribe"}
    /\ out' = [out EXCEPT ![p].id = NextID]
    /\ pc' = [pc EXCEPT ![p] = "grab"]
    /\ SendFrame /\ UNCHANGED serverVars

\* writeJSON copies the connection under the lock and fails without one.
GrabConn(p) ==
    /\ pc[p] = "grab" /\ mu = Nobody
    /\ out' = [out EXCEPT ![p].conn = conn]
    /\ pc' = [pc EXCEPT ![p] = IF conn = NoConn THEN "finish" ELSE "write"]
    /\ SendFrame /\ UNCHANGED <<serverVars, cmdVars>>

Written(p, ok) ==
    /\ pc' = [pc EXCEPT ![p] = "finish"]
    /\ out' = [out EXCEPT ![p].ok = ok]
    /\ SendFrame /\ UNCHANGED cmdVars

WriteDelivered(p) ==
    /\ pc[p] = "write" /\ Up(out[p].conn)
    /\ Receive(out[p].conn, out[p])
    /\ Written(p, TRUE)
    /\ UNCHANGED link

\* A broken connection may take the frame or refuse it; one that this client
\* closed refuses it.
WriteLost(p) ==
    /\ pc[p] = "write" /\ ~Up(out[p].conn)
    /\ \/ Written(p, FALSE)
       \/ link[out[p].conn] = "broken" /\ Written(p, TRUE)
    /\ UNCHANGED serverVars

\* The write's context ends first (ListenLoop's, when recovering), which closes
\* the connection if the frame was being written.
WriteTimeout(p) ==
    /\ pc[p] = "write" /\ Up(out[p].conn)
    /\ \/ MayTimeout
       \/ (p = Reader /\ ctxDone /\ out[p].kind = "subscribe")
    /\ \E s \in {"up", "closed"} : SetLink(out[p].conn, s)
    /\ Written(p, FALSE)
    /\ UNCHANGED <<subs, down>>

SendStep(p) ==
    \/ Register(p) \/ GrabConn(p)
    \/ WriteDelivered(p) \/ WriteLost(p) \/ WriteTimeout(p)

-----------------------------------------------------------------------------
(* The methods.  A call whose arguments are refused changes nothing and is *)
(* not a step.  Each method has a step that works on one channel up to the *)
(* unlock that precedes a send, and one that goes on after the send.       *)
Begin(p) ==
    /\ pc[p] = "idle" /\ callsLeft > 0
    /\ \E c \in Calls :
         call' = [call EXCEPT ![p] =
            [NoCall EXCEPT !.op = c.op, !.chs = c.chs, !.tickers = c.tickers,
                           !.global = c.global]]
    /\ pc' = [pc EXCEPT ![p] = "section"]
    /\ callsLeft' = callsLeft - 1
    /\ UNCHANGED <<serverVars, conn, cmdVars, stateVars, msgCh, closed, ctxDone,
                   force, mu, out, readerVars>>

InSection(p, op) == pc[p] = "section" /\ call[p].op = op /\ Free(p)
InFinish(p, op) == pc[p] = "finish" /\ call[p].op = op /\ mu = Nobody
Ch(p) == Head(call[p].chs)
MethodFrame == UNCHANGED <<serverVars, conn, msgID, flagVars, readerVars>>

\* The end of a method: its deferred unlock.
Return(p) ==
    /\ pc' = [pc EXCEPT ![p] = "idle"]
    /\ out' = [out EXCEPT ![p] = NoSend]
    /\ call' = [call EXCEPT ![p] = NoCall]
    /\ Unlock

\* The next round of the loop over channels, under the same lock.
Continue(p) ==
    IF Len(call[p].chs) = 1
    THEN Return(p)
    ELSE /\ pc' = [pc EXCEPT ![p] = "section"]
         /\ out' = [out EXCEPT ![p] = NoSend]
         /\ call' = [call EXCEPT ![p].chs = Tail(@), ![p].state = Nil,
                                 ![p].created = FALSE]
         /\ mu' = p

\* Unlock and send, holding on to a pointer to state o.
SendFor(p, o, created, cmd) ==
    /\ call' = [call EXCEPT ![p].state = o, ![p].created = created]
    /\ SendStart(p, cmd)

\* Mutated: any channel's subscribe will do.
IsPending_Any(ch) == pendingInit # {}

IsPending(ch) == \E e \in pendingInit : e.ch = ch

\* Mutated: the pending subscribe is dropped and the channel stays.
ForgetChannel_Kept(ch) ==
    /\ pendingInit' = {e \in pendingInit : e.ch # ch}
    /\ UNCHANGED stateVars

\* delete(c.channels, ch), and deletePendingInitForChannel: one entry goes.
ForgetChannel(ch) ==
    /\ channels' = [channels EXCEPT ![ch] = Nil]
    /\ IF IsPending(ch)
       THEN \E e \in pendingInit : e.ch = ch /\ pendingInit' = pendingInit \ {e}
       ELSE UNCHANGED pendingInit
    /\ UNCHANGED <<sidMap, obj>>

\* An address nothing points to, for a new object.
FirstUnused(o) == o \in Unused /\ \A u \in Unused : o <= u

Subscribe(p) ==
    /\ InSection(p, "subscribe")
    /\ \/ channels[Ch(p)] # Nil /\ Return(p) /\ UNCHANGED stateVars
       \/ /\ channels[Ch(p)] = Nil
          /\ \E o \in Objs :
               /\ FirstUnused(o)
               /\ obj' = [obj EXCEPT ![o] =
                     NewChannelState(Ch(p), call[p].tickers, call[p].global)]
               /\ channels' = [channels EXCEPT ![Ch(p)] = o]
               /\ SendFor(p, o, TRUE, Command("subscribe", Ch(p), NoSID,
                                              call[p].tickers, call[p].global))
          /\ UNCHANGED sidMap
    /\ UNCHANGED pendingInit /\ MethodFrame

SubscribeSent(p) ==
    /\ InFinish(p, "subscribe")
    /\ \/ out[p].ok /\ Continue(p) /\ UNCHANGED <<pendingInit, stateVars>>
       \/ ~out[p].ok /\ Return(p) /\ ForgetChannel(Ch(p))
    /\ MethodFrame

Unsubscribe(p) ==
    LET o == channels[Ch(p)]
    IN  /\ InSection(p, "unsubscribe")
        /\ \/ o = Nil /\ Continue(p) /\ UNCHANGED <<pendingInit, stateVars>>
           \/ /\ o # Nil /\ obj[o].sid = NoSID
              /\ ForgetChannel(Ch(p)) /\ Continue(p)
           \/ /\ o # Nil /\ obj[o].sid # NoSID
              /\ SendStart(p, Command("unsubscribe", Ch(p), obj[o].sid, {}, FALSE))
              /\ UNCHANGED <<call, pendingInit, stateVars>>
        /\ MethodFrame

UnsubscribeSent(p) ==
    /\ InFinish(p, "unsubscribe")
    /\ \/ /\ out[p].ok /\ Continue(p)
          /\ sidMap' = [sidMap EXCEPT ![out[p].sid] = Nil]
          /\ channels' = [channels EXCEPT ![Ch(p)] = Nil]
       \/ ~out[p].ok /\ Return(p) /\ UNCHANGED <<sidMap, channels>>
    /\ UNCHANGED <<pendingInit, obj>> /\ MethodFrame

\* AddMarkets goes on with the channel's object, made ticker-scoped, or a new one.
Target(p, o, created) ==
    IF channels[Ch(p)] = Nil THEN created /\ FirstUnused(o)
                             ELSE ~created /\ o = channels[Ch(p)]

\* Mutated: a global subscription stays global.
TargetState_Global(p, o, created) ==
    IF created THEN NewChannelState(Ch(p), {}, FALSE) ELSE obj[o]

TargetState(p, o, created) ==
    IF created THEN NewChannelState(Ch(p), {}, FALSE)
               ELSE [obj[o] EXCEPT !.global = FALSE]

AddMarkets(p) ==
    /\ InSection(p, "add")
    /\ \E o \in Objs, created \in BOOLEAN :
         LET state == TargetState(p, o, created)
             new == call[p].tickers \ state.markets
             queue == new # {} /\ state.sid = NoSID /\ IsPending(Ch(p))
         IN  /\ Target(p, o, created)
             /\ channels' = [channels EXCEPT ![Ch(p)] = o]
             /\ obj' = [obj EXCEPT ![o] =
                  IF queue THEN [state EXCEPT !.pending = @ \cup new] ELSE state]
             /\ \/ (queue \/ new = {}) /\ Continue(p)
                \/ /\ new # {} /\ state.sid # NoSID
                   /\ SendFor(p, o, created,
                              Command("add", Ch(p), state.sid, new, FALSE))
                \/ /\ new # {} /\ state.sid = NoSID /\ ~queue
                   /\ SendFor(p, o, created,
                              Command("subscribe", Ch(p), NoSID, new, FALSE))
    /\ UNCHANGED <<sidMap, pendingInit>> /\ MethodFrame

AddMarketsSent(p) ==
    /\ InFinish(p, "add")
    /\ \/ /\ out[p].ok /\ Continue(p)
          /\ obj' = [obj EXCEPT ![call[p].state].markets = @ \cup out[p].tickers]
          /\ UNCHANGED <<channels, sidMap, pendingInit>>
       \/ ~out[p].ok /\ call[p].created /\ Return(p) /\ ForgetChannel(Ch(p))
       \/ /\ ~out[p].ok /\ ~call[p].created /\ Return(p)
          /\ UNCHANGED <<pendingInit, stateVars>>
    /\ MethodFrame

\* RemoveMarkets and GetSnapshot skip a channel without a sid.
HasSID(ch) == channels[ch] # Nil /\ obj[channels[ch]].sid # NoSID

RemoveMarkets(p) ==
    LET o == channels[Ch(p)]
    IN  /\ InSection(p, "remove")
        /\ \/ ~HasSID(Ch(p)) /\ Continue(p) /\ UNCHANGED obj
           \/ /\ HasSID(Ch(p))
              /\ obj' = [obj EXCEPT ![o].global = FALSE]
              /\ SendFor(p, o, FALSE, Command("delete", Ch(p), obj[o].sid,
                                              call[p].tickers, FALSE))
        /\ UNCHANGED <<pendingInit, channels, sidMap>> /\ MethodFrame

RemoveMarketsSent(p) ==
    /\ InFinish(p, "remove")
    /\ \/ /\ out[p].ok /\ Continue(p)
          /\ obj' = [obj EXCEPT ![call[p].state].markets = @ \ out[p].tickers]
       \/ ~out[p].ok /\ Return(p) /\ UNCHANGED obj
    /\ UNCHANGED <<pendingInit, channels, sidMap>> /\ MethodFrame

GetSnapshot(p) ==
    /\ InSection(p, "snapshot")
    /\ \/ ~HasSID(Ch(p)) /\ Continue(p)
       \/ /\ HasSID(Ch(p)) /\ UNCHANGED call
          /\ SendStart(p, Command("snapshot", Ch(p), obj[channels[Ch(p)]].sid,
                                  call[p].tickers, FALSE))
    /\ UNCHANGED <<pendingInit, stateVars>> /\ MethodFrame

GetSnapshotSent(p) ==
    /\ InFinish(p, "snapshot")
    /\ IF out[p].ok THEN Continue(p) ELSE Return(p)
    /\ UNCHANGED <<pendingInit, stateVars>> /\ MethodFrame

\* Connect dials, then stores the connection over any other.
Dialled ==
    /\ Open
    /\ conn' = Len(link) + 1
    /\ UNCHANGED <<subs, down>>
DialFailed(p) ==
    /\ DialMayFail \/ (p = Reader /\ ctxDone)
    /\ UNCHANGED <<serverVars, conn>>

Connect(p) ==
    /\ InSection(p, "connect")
    /\ (Dialled \/ DialFailed(p))
    /\ Return(p)
    /\ UNCHANGED <<cmdVars, stateVars, flagVars, readerVars>>

\* Close stores the flag without the lock, then takes the connection out and
\* closes it.
Close(p) ==
    /\ pc[p] = "section" /\ call[p].op = "close"
    /\ closed' = TRUE
    /\ pc' = [pc EXCEPT ![p] = "closing"]
    /\ UNCHANGED <<serverVars, conn, cmdVars, stateVars, msgCh, ctxDone, force,
                   callsLeft, mu, out, call, readerVars>>

\* The connection is closed right after the lock is released.  A command whose sender
\* copied the connection before may still go out in between; it is one that this step
\* lets go out before it.
CloseConn(p) ==
    /\ pc[p] = "closing" /\ mu = Nobody
    /\ conn' = NoConn
    /\ SetLink(conn, "closed")
    /\ Return(p)
    /\ UNCHANGED <<subs, down, cmdVars, stateVars, flagVars, readerVars>>

CallerStep(p) ==
    \/ SendStep(p)
    \/ Subscribe(p) \/ SubscribeSent(p) \/ Unsubscribe(p) \/ UnsubscribeSent(p)
    \/ AddMarkets(p) \/ AddMarketsSent(p) \/ RemoveMarkets(p)
    \/ RemoveMarketsSent(p) \/ GetSnapshot(p) \/ GetSnapshotSent(p)
    \/ Connect(p) \/ Close(p) \/ CloseConn(p)

-----------------------------------------------------------------------------
(* ListenLoop.                                                             *)
At(label) == pc[Reader] = label
Goto(label) == pc' = [pc EXCEPT ![Reader] = label]
LoopFrame == UNCHANGED <<cmdVars, stateVars, msgCh, closed, ctxDone, callsLeft,
                         mu, out, call, dispatch, flushing, todo, seen>>

\* Mutated: the doubling is not capped.
NextBackoff_Uncapped == 2 * backoff

NextBackoff == IF 2 * backoff > MaxBackoff THEN MaxBackoff ELSE 2 * backoff

\* Mutated: the top of the loop does not look at c.conn.
FromTop_Unchecked == "enter"

FromTop == IF conn = NoConn THEN "dial" ELSE "enter"

LoopTop ==
    /\ At("top")
    /\ \/ ctxDone /\ Goto("done")
       \/ ~ctxDone /\ mu = Nobody /\ Goto(FromTop)
    /\ UNCHANGED <<serverVars, conn, force, rconn, backoff>> /\ LoopFrame

Dial ==
    /\ At("dial")
    /\ \/ Dialled /\ mu = Nobody /\ Goto("enter")
       \/ DialFailed(Reader) /\ Goto("wait")
    /\ UNCHANGED <<force, rconn, backoff>> /\ LoopFrame

Wait ==
    /\ At("wait")
    /\ \/ ctxDone /\ Goto("done") /\ UNCHANGED backoff
       \/ Goto("top") /\ backoff' = NextBackoff
    /\ UNCHANGED <<serverVars, conn, force, rconn>> /\ LoopFrame

\* readLoop copies the connection; reading from a nil one panics.
EnterReadLoop ==
    /\ At("enter") /\ mu = Nobody
    /\ rconn' = conn
    /\ Goto(IF conn = NoConn THEN "panic" ELSE "read")
    /\ UNCHANGED <<serverVars, conn, force, backoff>> /\ LoopFrame

\* Mutated: the read is not under ListenLoop's context.
ReadFails_NoContext == ~Up(rconn)

\* conn.Read fails on a connection that is not up, and when the context ends,
\* which closes the connection.
ReadFails == ~Up(rconn) \/ ctxDone

ReadError ==
    /\ At("read") /\ ReadFails
    /\ IF ctxDone THEN SetLink(rconn, "closed") ELSE UNCHANGED link
    /\ Goto("returned")
    /\ UNCHANGED <<subs, down, conn, force, rconn, backoff>> /\ LoopFrame

\* forceReconnect.CompareAndSwap(true, false)
CheckForce ==
    /\ At("check")
    /\ force' = FALSE
    /\ Goto(IF force THEN "returned" ELSE "read")
    /\ UNCHANGED <<serverVars, conn, rconn, backoff>> /\ LoopFrame

-----------------------------------------------------------------------------
(* handleIncoming.  conn.Read and the handling under the lock are one      *)
(* step: nobody else takes messages off the connection.                    *)
Incoming(type) ==
    /\ At("read") /\ mu = Nobody
    /\ down[rconn] # <<>> /\ Head(down[rconn]).type = type
    /\ down' = [down EXCEPT ![rconn] = Tail(@)]
    /\ UNCHANGED <<link, subs, conn, msgID, msgCh, closed, ctxDone, callsLeft, mu,
                   call, rconn, todo, seen, backoff>>

M == Head(down[rconn])
StateOf(s) == IF s \in Sids THEN sidMap[s] ELSE Nil
Handled == Goto("check") /\ UNCHANGED <<out, flushing, dispatch>>

\* The channel gets its sid; tickers queued in the meantime are sent.
HandleSubscribed ==
    /\ Incoming("subscribed")
    /\ UNCHANGED <<channels, force, dispatch>>
    /\ \E e \in pendingInit :
         LET o == channels[e.ch]
         IN  /\ e.id = M.id
             /\ pendingInit' = pendingInit \ {e}
             /\ \/ o = Nil /\ Handled /\ UNCHANGED <<sidMap, obj>>
                \/ /\ o # Nil
                   /\ obj' = [obj EXCEPT ![o].sid = M.sid, ![o].pending = {}]
                   /\ sidMap' = [sidMap EXCEPT ![M.sid] = o]
                   /\ \/ obj[o].pending = {} /\ Handled
                      \/ /\ obj[o].pending # {}
                         /\ flushing' = o
                         /\ SendStart(Reader, Command("add", e.ch, M.sid,
                                                      obj[o].pending, FALSE))

HandleUnknownId ==
    /\ Incoming("subscribed") /\ \A e \in pendingInit : e.id # M.id
    /\ Handled /\ UNCHANGED <<pendingInit, stateVars, force>>

\* After the send; a failed flush forces a reconnect, and the loop goes on while
\* tickers are queued.
FlushSent ==
    /\ At("finish") /\ out[Reader].kind = "add" /\ mu = Nobody
    /\ LET pending == obj[flushing].pending
       IN  IF out[Reader].ok /\ pending # {}
           THEN /\ obj' = [obj EXCEPT ![flushing].pending = {}]
                /\ SendStart(Reader, Command("add", out[Reader].ch,
                                             out[Reader].sid, pending, FALSE))
                /\ UNCHANGED <<flushing, force>>
           ELSE /\ force' = (force \/ ~out[Reader].ok)
                /\ out' = [out EXCEPT ![Reader] = NoSend]
                /\ flushing' = Nil
                /\ Goto("check") /\ UNCHANGED <<mu, obj>>
    /\ UNCHANGED <<serverVars, conn, cmdVars, channels, sidMap, msgCh, closed,
                   ctxDone, callsLeft, call, rconn, dispatch, todo, seen, backoff>>

\* Mutated: only a number that goes back is a gap.
Gap_Backwards(o) == obj[o].seq # 0 /\ M.seq < obj[o].seq

\* The sequence check of handleOK and handleDataMessage.
Gap(o) == obj[o].seq # 0 /\ obj[o].seq + 1 # M.seq

\* Mutated: the answer does not count as a message of the sequence.
Reconciled_Uncounted(o) ==
    [obj[o] EXCEPT !.markets = IF M.tickers = {} THEN @ ELSE M.tickers]

\* Mutated: the listed tickers are added to the client's.
Reconciled_Merged(o) == [obj[o] EXCEPT !.seq = M.seq, !.markets = @ \cup M.tickers]

Reconciled(o) ==
    [obj[o] EXCEPT !.seq = M.seq,
                   !.markets = IF M.tickers = {} THEN @ ELSE M.tickers]

HandleOK ==
    LET o == StateOf(M.sid)
    IN  /\ Incoming("ok")
        /\ \/ o = Nil /\ UNCHANGED <<obj, force>>
           \/ /\ o # Nil
              /\ force' = (force \/ Gap(o))
              /\ obj' = [obj EXCEPT ![o] = Reconciled(o)]
        /\ Handled /\ UNCHANGED <<pendingInit, channels, sidMap>>

HandleUnsubscribed ==
    /\ Incoming("unsubscribed")
    /\ sidMap' = [s \in Sids |-> IF s = M.sid THEN Nil ELSE sidMap[s]]
    /\ Handled /\ UNCHANGED <<pendingInit, channels, obj, force>>

\* An error is logged and nothing else.
HandleError ==
    /\ Incoming("error")
    /\ Handled /\ UNCHANGED <<pendingInit, stateVars, force>>

\* A data message of a known sid goes to msgCh, also the one after a gap.
HandleDataMessage ==
    LET o == StateOf(M.sid)
    IN  /\ Incoming("data")
        /\ \/ o = Nil /\ Handled /\ UNCHANGED <<obj, force>>
           \/ /\ o # Nil
              /\ force' = (force \/ Gap(o))
              /\ obj' = [obj EXCEPT ![o].seq = M.seq]
              /\ dispatch' = [conn |-> rconn, sid |-> M.sid, seq |-> M.seq]
              /\ Goto("deliver") /\ UNCHANGED <<out, flushing>>
        /\ UNCHANGED <<pendingInit, channels, sidMap>>

HandleIncoming ==
    \/ HandleSubscribed \/ HandleUnknownId \/ HandleOK
    \/ HandleUnsubscribed \/ HandleError \/ HandleDataMessage

\* The send on msgCh blocks while the channel is full; no lock is held.
Deliver ==
    /\ At("deliver") /\ Len(msgCh) < BufSize
    /\ msgCh' = Append(msgCh, dispatch)
    /\ dispatch' = NoDispatch
    /\ Goto("check")
    /\ UNCHANGED <<serverVars, conn, cmdVars, stateVars, closed, ctxDone, force,
                   callsLeft, mu, out, call, rconn, flushing, todo, seen, backoff>>

-----------------------------------------------------------------------------
(* Losing a connection and getting the subscriptions back.                 *)

\* Mutated: Close's flag is not looked at.
Leaving_Cancelled == ctxDone

\* readLoop has returned: leave, or handle the loss.
Leaving == ctxDone \/ closed

LoopLeaves ==
    /\ At("returned") /\ Leaving
    /\ Goto("done")
    /\ UNCHANGED <<serverVars, conn, force, rconn, backoff>> /\ LoopFrame

\* Mutated: the sids of the lost connection stay.
ClearedSids_Kept == sidMap

ClearedSids == [s \in Sids |-> Nil]
Forgotten(state) == [state EXCEPT !.sid = NoSID, !.seq = 0]

\* handleConnectionLoss, after the OnDisconnect callback.  It forgets the
\* connection and does not close it.
HandleConnectionLoss ==
    /\ At("returned") /\ ~Leaving /\ mu = Nobody
    /\ sidMap' = ClearedSids
    /\ pendingInit' = {}
    /\ obj' = [o \in Objs |-> IF o \in Registered THEN Forgotten(obj[o]) ELSE obj[o]]
    /\ conn' = NoConn /\ rconn' = NoConn
    /\ Goto("waitLoss")
    /\ UNCHANGED <<serverVars, msgID, channels, flagVars, mu, out, call, dispatch,
                   flushing, todo, seen, backoff>>

WaitLoss ==
    /\ At("waitLoss")
    /\ \/ ctxDone /\ Goto("done")
       \/ Goto("redial")
    /\ UNCHANGED <<serverVars, conn, force, rconn, backoff>> /\ LoopFrame

\* Only this dial, when it succeeds, leads to recoverSubscriptions: after a
\* failure the loop dials again from its top.
Redial ==
    /\ At("redial")
    /\ \/ Dialled /\ mu = Nobody /\ Goto("recover") /\ backoff' = MinBackoff
       \/ DialFailed(Reader) /\ Goto("top") /\ backoff' = NextBackoff
    /\ UNCHANGED <<force, rconn>> /\ LoopFrame

\* recoverSubscriptions ranges over c.channels, releasing the lock for each send.
\* Go's range may or may not visit an entry added on the way, and does not visit
\* one deleted before its turn.
RecoverFrame ==
    UNCHANGED <<serverVars, conn, cmdVars, stateVars, flagVars, call, rconn,
                dispatch, flushing, backoff>>

RecoverStart ==
    /\ At("recover") /\ mu = Nobody
    /\ todo' = Registered
    /\ mu' = Reader
    /\ Goto("next") /\ UNCHANGED <<out, seen>> /\ RecoverFrame

\* Mutated: a global subscription, which has no tickers, is not recovered.
HasMarkets_Scoped(state) == state.markets # {}

HasMarkets(state) == state.global \/ state.markets # {}

RecoverNext(ch) ==
    LET o == channels[ch]
        tickers == IF obj[o].global THEN {} ELSE obj[o].markets
    IN  /\ At("next") /\ o # Nil /\ o \notin seen
        /\ seen' = seen \cup {o}
        /\ \/ ~HasMarkets(obj[o]) /\ UNCHANGED <<mu, pc, out>>
           \/ /\ HasMarkets(obj[o])
              /\ SendStart(Reader,
                   Command("subscribe", obj[o].name, NoSID, tickers, obj[o].global))
        /\ UNCHANGED todo /\ RecoverFrame

\* The range is over when what was there and still is has been visited.
RecoverEnd ==
    /\ At("next") /\ todo \cap Registered \subseteq seen
    /\ Goto("top") /\ Unlock
    /\ todo' = {} /\ seen' = {} /\ UNCHANGED out /\ RecoverFrame

\* Mutated: ListenLoop returns when a recovery fails.
RecoverSent_Returns ==
    /\ At("finish") /\ out[Reader].kind = "subscribe" /\ mu = Nobody
    /\ out' = [out EXCEPT ![Reader] = NoSend]
    /\ \/ ~out[Reader].ok /\ Goto("done") /\ todo' = {} /\ seen' = {} /\ UNCHANGED mu
       \/ out[Reader].ok /\ Goto("next") /\ mu' = Reader /\ UNCHANGED <<todo, seen>>
    /\ RecoverFrame

\* A subscribe that could not be sent ends the recovery.
RecoverSent ==
    /\ At("finish") /\ out[Reader].kind = "subscribe" /\ mu = Nobody
    /\ out' = [out EXCEPT ![Reader] = NoSend]
    /\ \/ ~out[Reader].ok /\ Goto("top") /\ todo' = {} /\ seen' = {} /\ UNCHANGED mu
       \/ out[Reader].ok /\ Goto("next") /\ mu' = Reader /\ UNCHANGED <<todo, seen>>
    /\ RecoverFrame

ReaderStep ==
    \/ LoopTop \/ Dial \/ Wait \/ EnterReadLoop \/ ReadError \/ CheckForce
    \/ HandleIncoming \/ FlushSent \/ Deliver
    \/ LoopLeaves \/ HandleConnectionLoss \/ WaitLoss \/ Redial
    \/ RecoverStart \/ RecoverEnd \/ RecoverSent
    \/ \E ch \in Channels : RecoverNext(ch)
    \/ SendStep(Reader)

-----------------------------------------------------------------------------
(* The consumer of MsgCh(), and the owner of ListenLoop's context.         *)
Consume ==
    /\ msgCh # <<>>
    /\ msgCh' = Tail(msgCh)
    /\ UNCHANGED <<serverVars, conn, cmdVars, stateVars, closed, ctxDone, force,
                   callsLeft, procVars, readerVars>>

Cancel ==
    /\ MayCancel /\ ~ctxDone
    /\ ctxDone' = TRUE
    /\ UNCHANGED <<serverVars, conn, cmdVars, stateVars, msgCh, closed, force,
                   callsLeft, procVars, readerVars>>

Feed == ServerStep /\ UNCHANGED clientVars

Init ==
    /\ ServerInit(IF Connected THEN <<"up">> ELSE <<>>)
    /\ conn = Len(link) /\ msgCh = <<>> /\ msgID = 0 /\ pendingInit = {}
    /\ channels = [ch \in Channels |-> Nil]
    /\ sidMap = [s \in Sids |-> Nil]
    /\ obj = [o \in Objs |->
                NewChannelState(CHOOSE ch \in Channels : TRUE, {}, FALSE)]
    /\ closed = FALSE /\ force = FALSE /\ ctxDone = FALSE
    /\ mu = Nobody
    /\ pc = [p \in Procs |-> IF p = Reader THEN "top" ELSE "idle"]
    /\ out = [p \in Procs |-> NoSend]
    /\ call = [p \in Callers |-> NoCall]
    /\ callsLeft = MaxCalls
    /\ rconn = NoConn /\ dispatch = NoDispatch /\ flushing = Nil
    /\ todo = {} /\ seen = {} /\ backoff = MinBackoff

Next ==
    \/ \E p \in Callers : Begin(p) \/ CallerStep(p)
    \/ ReaderStep
    \/ Consume \/ Cancel \/ Feed

Spec == Init /\ [][Next]_vars
=============================================================================
