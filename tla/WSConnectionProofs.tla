-------------------------- MODULE WSConnectionProofs --------------------------
(***************************************************************************)
(* Proofs about the connections of WSClient. The first: where commands go  *)
(* and which answers are still to come. What these invariants relate (a    *)
(* sid, a pending subscribe, an answer) belongs to one connection, and the *)
(* client does not tie a command in progress to the connection it was made *)
(* for: once a second connection has been dialled they need not hold (the  *)
(* runs that expect a violation), so each of them speaks of the states     *)
(* where there is one connection. Then the recovery, on whatever           *)
(* connection: it does not look at what sids lead to, only at who has one. *)
(***************************************************************************)
EXTENDS WSClientProofs

-----------------------------------------------------------------------------
(* What every step does to the connections.                                *)

Recovering ==
    \/ pc[Reader] \in {"recover", "next"}
    \/ pc[Reader] \in Sending /\ out[Reader].kind = "subscribe"

\* Whatever connection the client uses was dialled; a command is written to one;
\* the loop is on the way to a redial after one, and in a recovery after two.
Dialed ==
    /\ conn <= Len(link) /\ rconn <= Len(link)
    /\ \A p \in Procs : out[p].conn <= Len(link)
    /\ \A p \in Procs : pc[p] = "write" => out[p].conn # NoConn
    /\ pc[Reader] \in {"waitLoss", "redial"} => Len(link) >= 1
    /\ Recovering => Len(link) >= 2

\* One connection more, one that changes its state, or nothing.
LinkStep ==
    \/ UNCHANGED link
    \/ link' = Append(link, "up")
    \/ \E k, s : SetLink(k, s)

\* The connection that was dialled becomes the client's.
NewConn == link' = Append(link, "up") /\ conn' = Len(link')

\* Connections are never forgotten, and one that is not up does not come up again.
LEMMA LinkGrows ==
    ASSUME Inv, LinkStep
    PROVE  /\ Len(link) \in Nat /\ Len(link') \in Nat /\ Len(link') >= Len(link)
           /\ Len(link) # 0 /\ link' = <<"up">> => link = <<"up">>
<1>1. link \in Seq(LinkStates)
  BY DEF Inv, Shape, TypeOK, ServerTypeOK
<1>2. Len(link) \in Nat /\ DOMAIN link = 1..Len(link)
  BY <1>1, LenProperties
<1>3. CASE UNCHANGED link
  BY <1>2, <1>3
<1>4. CASE link' = Append(link, "up")
  <2>1. Len(link') = Len(link) + 1
    BY <1>1, <1>4, AppendProperties DEF LinkStates
  <2>2. Len(<<"up">>) = 1
    OBVIOUS
  <2> QED BY <1>2, <2>1, <2>2
<1>5. ASSUME NEW k, NEW s, SetLink(k, s), ~UNCHANGED link
      PROVE  /\ Len(link') \in Nat /\ Len(link') >= Len(link)
             /\ link' = <<"up">> => link = <<"up">>
  <2>1. k \in DOMAIN link /\ link[k] = "up" /\ link' = [link EXCEPT ![k] = s]
    BY <1>5, Zenon DEF SetLink, Up
  <2>2. Len(link') = Len(link)
    BY <1>2, <2>1
  <2>3. ASSUME link' = <<"up">> PROVE link = <<"up">>
    <3>1. Len(link) = 1 /\ DOMAIN link = {1}
      <4>1. Len(<<"up">>) = 1 /\ 1..1 = {1}
        OBVIOUS
      <4>2. Len(link) = 1
        BY <2>2, <2>3, <4>1
      <4> QED BY <1>2, <4>1, <4>2
    <3>2. k = 1 /\ link[1] = "up"
      BY <2>1, <3>1
    <3> QED BY <1>1, <3>1, <3>2
  <2> QED BY <1>2, <2>2, <2>3
<1> QED BY <1>2, <1>3, <1>4, <1>5 DEF LinkStep

\* What a step does to the connections that the client uses.
DialedEffect ==
    /\ LinkStep
    /\ conn' \in {conn, NoConn} \/ NewConn
    /\ rconn' \in {rconn, conn, NoConn}
    /\ \A p \in Procs : out'[p].conn \in {out[p].conn, conn, NoConn}
    /\ \A p \in Procs :
         pc'[p] = "write" => \/ pc[p] = "write" /\ out'[p].conn = out[p].conn
                             \/ out'[p].conn # NoConn
    /\ pc'[Reader] \in {"waitLoss", "redial"} =>
         pc[Reader] \in {"waitLoss", "redial"} \/ rconn # NoConn
    /\ Recovering' =>
         Recovering \/ (pc[Reader] = "redial" /\ link' = Append(link, "up"))

LEMMA DialedKept == ASSUME Inv, Dialed, DialedEffect PROVE Dialed'
<1>1. /\ Len(link) \in Nat /\ Len(link') \in Nat /\ Len(link') >= Len(link)
      /\ conn \in Nat /\ rconn \in Nat
      /\ \A p \in Procs : out[p].conn \in Nat
  <2>1. Conns \cup {NoConn} \subseteq Nat
    BY DEF Conns, NoConn
  <2> QED BY <2>1, LinkGrows DEF DialedEffect, Inv, Shape, TypeOK, SendRecord
<1>2. link' = Append(link, "up") => Len(link') = Len(link) + 1
  BY AppendProperties DEF LinkStates, Inv, Shape, TypeOK, ServerTypeOK
<1>3. conn' <= Len(link') /\ rconn' <= Len(link')
  BY <1>1 DEF Dialed, DialedEffect, NewConn, NoConn
<1>4. \A p \in Procs : out'[p].conn <= Len(link')
  BY <1>1 DEF Dialed, DialedEffect, NoConn
<1>5. \A p \in Procs : pc'[p] = "write" => out'[p].conn # NoConn
  BY DEF Dialed, DialedEffect
<1>6. pc'[Reader] \in {"waitLoss", "redial"} => Len(link') >= 1
  <2>1. rconn # NoConn => Len(link) >= 1
    BY <1>1 DEF Dialed, NoConn
  <2>2. pc'[Reader] \in {"waitLoss", "redial"} => Len(link) >= 1
    BY <2>1 DEF Dialed, DialedEffect
  <2> QED BY <1>1, <2>2
<1>7. Recovering' => Len(link') >= 2
  <2>1. CASE Recovering
    <3>1. Len(link) >= 2
      BY <2>1 DEF Dialed
    <3> QED BY <1>1, <3>1
  <2>2. CASE pc[Reader] = "redial" /\ link' = Append(link, "up")
    <3>1. Len(link) >= 1
      BY <2>2 DEF Dialed
    <3> QED BY <1>1, <1>2, <2>2, <3>1
  <2> QED BY <2>1, <2>2 DEF DialedEffect
<1> QED BY <1>3, <1>4, <1>5, <1>6, <1>7 DEF Dialed
-----------------------------------------------------------------------------
(* What a step of a method does, whatever the method.                      *)

\* A command made under the lock is for no subscription or for the one that the
\* channel it names has, and goes to no connection yet.
Asks(cmd) ==
    /\ cmd.id = 0 /\ cmd.conn = NoConn
    /\ \/ cmd.sid = NoSID
       \/ /\ cmd.ch \in Channels /\ channels[cmd.ch] # Nil
          /\ cmd.sid = obj[channels[cmd.ch]].sid

\* The state of an object that a step of a caller leaves to the reader.
Steady(o) == obj'[o].sid = obj[o].sid /\ obj'[o].seq = obj[o].seq

\* Channel ch is forgotten with the subscribe it waits for, if any; the end of an
\* unsubscribe looks for none.
Dropped(p, ch) ==
    \/ ~IsPending(ch)
    \/ \E e \in pendingInit : e.ch = ch /\ pendingInit' = pendingInit \ {e}
    \/ pc[p] = "finish" /\ call[p].op = "unsubscribe" /\ ch = Ch(p)

HeapStep(p) ==
    /\ pendingInit' \subseteq pendingInit
    /\ \A e \in pendingInit : e \notin pendingInit' => channels'[e.ch] = Nil
    /\ \A s \in Sids : sidMap'[s] # Nil => sidMap'[s] = sidMap[s] /\ Steady(sidMap[s])
    /\ \A o \in Objs : \/ obj'[o].sid = NoSID
                       \/ obj'[o].sid = obj[o].sid /\ obj'[o].name = obj[o].name
    /\ \A ch \in Channels :
         LET o == channels'[ch]
         IN  \/ o = Nil /\ (channels[ch] = Nil \/ Dropped(p, ch))
             \/ /\ o # Nil /\ channels[ch] = o /\ Steady(o)
                /\ \/ obj'[o].pending = obj[o].pending
                   \/ \E e \in pendingInit' : e.ch = ch
             \/ /\ o # Nil /\ channels[ch] = Nil
                /\ obj'[o].sid = NoSID /\ obj'[o].seq = 0
                /\ obj'[o].pending = {} \/ \E e \in pendingInit' : e.ch = ch

\* A subscribe starts for a channel that has no sid and waits for none, an
\* unsubscribe for a channel that has one.
StartStep(p) ==
    pc'[p] = "register" =>
        /\ pendingInit' = pendingInit
        /\ out'[p].kind = "subscribe" =>
             LET ch == out'[p].ch
             IN  /\ ch \in Channels /\ channels'[ch] # Nil
                 /\ obj'[channels'[ch]].sid = NoSID
                 /\ channels[ch] = Nil \/ ~IsPending(ch)
        /\ call'[p].op = "unsubscribe" =>
             /\ out'[p].kind = "unsubscribe" /\ call'[p] = call[p]
             /\ HasSID(Ch(p))

ControlStep(p) ==
    /\ pc[p] \in {"section", "finish"}
    /\ \E l \in {"idle", "section", "register"} : pc' = [pc EXCEPT ![p] = l]
    /\ \E cmd : Asks(cmd) /\ out' = [out EXCEPT ![p] = cmd]

MethodStep(p) == MethodFrame /\ ControlStep(p) /\ HeapStep(p) /\ StartStep(p)

\* The types that these lemmas use.
LEMMA Types ==
    ASSUME Inv
    PROVE  /\ channels \in [Channels -> Objs \cup {Nil}]
           /\ sidMap \in [Sids -> Objs \cup {Nil}]
           /\ pendingInit \subseteq Pending
           /\ obj \in [Objs -> ChannelState] /\ Nil \notin Objs
           /\ pc \in [Procs -> CallerLabels \cup ReaderLabels]
           /\ out \in [Procs -> SendRecord]
           /\ call \in [Callers -> CallRecord]
           /\ subs \in [Conns -> Seq(Subscription)]
           /\ down \in [Conns -> Seq(Message)]
           /\ conn \in Conns \cup {NoConn} /\ rconn \in Conns \cup {NoConn}
           /\ force \in BOOLEAN /\ msgID \in Nat
           /\ link \in Seq(LinkStates)
  BY ClientAssumption DEF Inv, Shape, TypeOK, ServerTypeOK, ClientAssumption, Nil

\* Returning and going on leave no command behind.
LEMMA EndsControl ==
    ASSUME Inv, NEW p \in Callers, pc[p] \in {"section", "finish"},
           Return(p) \/ Continue(p)
    PROVE  ControlStep(p) /\ StartStep(p)
<1>1. p \in Procs /\ pc \in [Procs -> CallerLabels \cup ReaderLabels]
  BY Types, ReaderIsNoCaller
<1>2. Asks(NoSend)
  BY DEF Asks, NoSend
<1>3. PICK l \in {"idle", "section"} :
        pc' = [pc EXCEPT ![p] = l] /\ out' = [out EXCEPT ![p] = NoSend]
  BY DEF Return, Continue
<1>4. pc'[p] # "register"
  BY <1>1, <1>3
<1> QED BY <1>2, <1>3, <1>4 DEF ControlStep, StartStep

LEMMA SendControl ==
    ASSUME Inv, NEW p \in Callers, pc[p] \in {"section", "finish"},
           NEW cmd, Asks(cmd), SendStart(p, cmd)
    PROVE  ControlStep(p) /\ out'[p] = cmd
<1>1. p \in Procs /\ out \in [Procs -> SendRecord]
  BY Types, ReaderIsNoCaller
<1> QED BY <1>1 DEF SendStart, ControlStep

\* Nothing happens to the maps and the heap.
LEMMA HeapAlone ==
    ASSUME Inv, NEW p, UNCHANGED <<pendingInit, stateVars>>
    PROVE  HeapStep(p)
<1>1. UNCHANGED <<pendingInit, channels, sidMap, obj>>
  BY DEF stateVars
<1> QED BY <1>1, Types DEF HeapStep, Steady

\* delete(c.channels, ch) and deletePendingInitForChannel.
LEMMA HeapForget ==
    ASSUME Inv, NEW p, NEW ch \in Channels, ForgetChannel(ch)
    PROVE  HeapStep(p)
<1>1. channels' = [channels EXCEPT ![ch] = Nil] /\ UNCHANGED <<sidMap, obj>>
     /\ \/ ~IsPending(ch) /\ pendingInit' = pendingInit
        \/ \E e \in pendingInit : e.ch = ch /\ pendingInit' = pendingInit \ {e}
  BY DEF ForgetChannel
<1>2. channels'[ch] = Nil /\ \A c \in Channels \ {ch} : channels'[c] = channels[c]
  BY <1>1, Types
<1>3. \A c \in Channels : channels'[c] = Nil \/ channels'[c] = channels[c]
  BY <1>2
<1>4. Dropped(p, ch)
  BY <1>1 DEF Dropped
<1>5. \A e \in pendingInit : e \notin pendingInit' => channels'[e.ch] = Nil
  BY <1>1, <1>2
<1> QED BY <1>1, <1>2, <1>3, <1>4, <1>5 DEF HeapStep, Steady

\* A new object becomes the state of a channel that had none.
LEMMA HeapNew ==
    ASSUME Inv, NEW p, NEW ch \in Channels, NEW o \in Objs, FirstUnused(o),
           channels[ch] = Nil, NEW state \in ChannelState,
           state.sid = NoSID, state.seq = 0, state.pending = {} \/ IsPending(ch),
           obj' = [obj EXCEPT ![o] = state],
           channels' = [channels EXCEPT ![ch] = o],
           UNCHANGED <<sidMap, pendingInit>>
    PROVE  HeapStep(p)
<1>1. o \notin Registered /\ o \notin Mapped
  BY DEF FirstUnused, Unused
<1>2. obj'[o] = state /\ \A q \in Objs \ {o} : obj'[q] = obj[q]
  BY Types
<1>3. channels'[ch] = o /\ \A c \in Channels \ {ch} : channels'[c] = channels[c]
  BY Types
<1>4. \A c \in Channels : channels[c] # o /\ (channels[c] # Nil => channels[c] \in Objs)
  BY <1>1, Types DEF Registered
<1>5. \A s \in Sids : sidMap[s] # o /\ (sidMap[s] # Nil => sidMap[s] \in Objs)
  BY <1>1, Types DEF Mapped
<1>6. o # Nil
  BY Types
<1>7. obj'[o].pending = {} \/ \E e \in pendingInit' : e.ch = ch
  BY <1>2 DEF IsPending
<1> QED BY <1>2, <1>3, <1>4, <1>5, <1>6, <1>7 DEF HeapStep, Steady

\* A state changes in place, and not what the reader reads of it.
LEMMA HeapChange ==
    ASSUME Inv, NEW p, NEW o \in Objs, NEW state \in ChannelState,
           state.sid = obj[o].sid, state.seq = obj[o].seq, state.name = obj[o].name,
           state.pending = obj[o].pending \/ IsPending(obj[o].name),
           obj' = [obj EXCEPT ![o] = state],
           UNCHANGED <<channels, sidMap, pendingInit>>
    PROVE  HeapStep(p)
<1>1. obj'[o] = state /\ \A q \in Objs \ {o} : obj'[q] = obj[q]
  BY Types
<1>2. \A q \in Objs : Steady(q) /\ obj'[q].name = obj[q].name
  BY <1>1 DEF Steady
<1>3. \A ch \in Channels :
        /\ channels[ch] # Nil => channels[ch] \in Objs
        /\ channels[ch] = o => ch = obj[o].name
  BY Types DEF Inv, NamesMatch
<1>4. \A s \in Sids : sidMap[s] # Nil => sidMap[s] \in Objs
  BY Types
<1>5. ASSUME NEW ch \in Channels, channels[ch] # Nil
      PROVE  \/ obj'[channels[ch]].pending = obj[channels[ch]].pending
             \/ \E e \in pendingInit' : e.ch = ch
  <2>1. CASE channels[ch] = o
    BY <1>1, <1>3, <2>1 DEF IsPending
  <2>2. CASE channels[ch] # o
    BY <1>1, <1>3, <1>5, <2>2
  <2> QED BY <2>1, <2>2
<1> QED BY <1>2, <1>3, <1>4, <1>5 DEF HeapStep, Steady
\* The fields of a command and of a new state.
LEMMA CommandFields ==
    ASSUME NEW kind, NEW ch, NEW sid, NEW tickers, NEW global
    PROVE  LET cmd == Command(kind, ch, sid, tickers, global)
           IN  /\ cmd.id = 0 /\ cmd.conn = NoConn
               /\ cmd.kind = kind /\ cmd.ch = ch /\ cmd.sid = sid
  BY DEF Command

LEMMA NewStateFields ==
    ASSUME NEW ch \in Channels, NEW markets \in SUBSET Tickers, NEW global \in BOOLEAN
    PROVE  LET state == NewChannelState(ch, markets, global)
           IN  /\ state \in ChannelState /\ state.sid = NoSID /\ state.seq = 0
               /\ state.pending = {} /\ state.name = ch
  BY DEF NewChannelState, ChannelState, NoSID

LEMMA SubscribeStep == ASSUME Inv, NEW p \in Callers, Subscribe(p) PROVE MethodStep(p)
<1> DEFINE ch == Ch(p)
           state == NewChannelState(ch, call[p].tickers, call[p].global)
           cmd == Command("subscribe", ch, NoSID, call[p].tickers, call[p].global)
<1>1. /\ pc[p] = "section" /\ call[p].op = "subscribe" /\ MethodFrame
      /\ UNCHANGED pendingInit
      /\ \/ Return(p) /\ UNCHANGED stateVars
         \/ /\ channels[ch] = Nil /\ UNCHANGED sidMap
            /\ \E o \in Objs : /\ FirstUnused(o) /\ obj' = [obj EXCEPT ![o] = state]
                               /\ channels' = [channels EXCEPT ![ch] = o]
                               /\ SendFor(p, o, TRUE, cmd)
  BY DEF Subscribe, InSection
<1>2. CASE Return(p) /\ UNCHANGED stateVars
  BY <1>1, <1>2, EndsControl, HeapAlone DEF MethodStep
<1>3. ASSUME channels[ch] = Nil, UNCHANGED sidMap, NEW o \in Objs, FirstUnused(o),
             obj' = [obj EXCEPT ![o] = state],
             channels' = [channels EXCEPT ![ch] = o], SendFor(p, o, TRUE, cmd)
      PROVE  MethodStep(p)
  <2>1. ch \in Channels /\ state \in ChannelState /\ state.sid = NoSID
       /\ state.seq = 0 /\ state.pending = {}
    BY <1>1, CallFacts, NewStateFields
  <2>2. Asks(cmd) /\ cmd.kind = "subscribe" /\ cmd.ch = ch
    BY CommandFields DEF Asks
  <2> HIDE DEF state, cmd, ch
  <2>3. HeapStep(p)
    BY <1>1, <1>3, <2>1, HeapNew
  <2>4. SendStart(p, cmd)
       /\ call' = [call EXCEPT ![p].state = o, ![p].created = TRUE]
    BY <1>3 DEF SendFor
  <2>5. ControlStep(p) /\ out'[p] = cmd
    BY <1>1, <2>2, <2>4, SendControl
  <2>6. channels'[ch] = o /\ obj'[o] = state /\ o # Nil
    BY <1>3, <2>1, Types
  <2>7. call'[p].op # "unsubscribe"
    BY <1>1, <2>4, Types DEF CallRecord
  <2>8. StartStep(p)
    BY <1>1, <1>3, <2>1, <2>2, <2>5, <2>6, <2>7 DEF StartStep
  <2> QED BY <1>1, <2>3, <2>5, <2>8 DEF MethodStep
<1> HIDE DEF ch, state, cmd
<1> QED BY <1>1, <1>2, <1>3

LEMMA SubscribeSentStep == ASSUME Inv, NEW p \in Callers, SubscribeSent(p) PROVE MethodStep(p)
<1>1. /\ pc[p] = "finish" /\ call[p].op = "subscribe" /\ MethodFrame
      /\ \/ Continue(p) /\ UNCHANGED <<pendingInit, stateVars>>
         \/ Return(p) /\ ForgetChannel(Ch(p))
  BY DEF SubscribeSent, InFinish
<1>2. Ch(p) \in Channels
  BY <1>1, CallFacts
<1>3. CASE Continue(p) /\ UNCHANGED <<pendingInit, stateVars>>
  BY <1>1, <1>3, EndsControl, HeapAlone DEF MethodStep
<1>4. CASE Return(p) /\ ForgetChannel(Ch(p))
  BY <1>1, <1>2, <1>4, EndsControl, HeapForget DEF MethodStep
<1> QED BY <1>1, <1>3, <1>4

LEMMA UnsubscribeStep == ASSUME Inv, NEW p \in Callers, Unsubscribe(p) PROVE MethodStep(p)
<1> DEFINE ch == Ch(p)
           o == channels[ch]
           cmd == Command("unsubscribe", ch, obj[o].sid, {}, FALSE)
<1>1. /\ pc[p] = "section" /\ call[p].op = "unsubscribe" /\ MethodFrame
      /\ \/ Continue(p) /\ UNCHANGED <<pendingInit, stateVars>>
         \/ Continue(p) /\ ForgetChannel(ch)
         \/ /\ o # Nil /\ obj[o].sid # NoSID /\ SendStart(p, cmd)
            /\ UNCHANGED <<call, pendingInit, stateVars>>
  BY DEF Unsubscribe, InSection
<1>2. ch \in Channels
  BY <1>1, CallFacts
<1>3. CASE Continue(p) /\ UNCHANGED <<pendingInit, stateVars>>
  BY <1>1, <1>3, EndsControl, HeapAlone DEF MethodStep
<1>4. CASE Continue(p) /\ ForgetChannel(ch)
  <2> HIDE DEF ch
  <2> QED BY <1>1, <1>2, <1>4, EndsControl, HeapForget DEF MethodStep
<1>5. CASE /\ o # Nil /\ obj[o].sid # NoSID /\ SendStart(p, cmd)
           /\ UNCHANGED <<call, pendingInit, stateVars>>
  <2>0. /\ cmd.id = 0 /\ cmd.conn = NoConn /\ cmd.kind = "unsubscribe"
        /\ cmd.ch = ch /\ cmd.sid = obj[o].sid
    BY DEF Command
  <2> HIDE DEF cmd
  <2>1. Asks(cmd)
    BY <1>2, <1>5, <2>0, Zenon DEF Asks
  <2>2. ControlStep(p) /\ out'[p] = cmd
    BY <1>1, <1>5, <2>1, SendControl
  <2>3. StartStep(p)
    <3>1. UNCHANGED <<call, pendingInit>> /\ call[p].op = "unsubscribe"
      BY <1>1, <1>5
    <3>2. HasSID(Ch(p))
      BY <1>5 DEF HasSID
    <3>3. out'[p].kind = "unsubscribe"
      BY <2>0, <2>2
    <3> QED BY <3>1, <3>2, <3>3 DEF StartStep
  <2> QED BY <1>1, <1>5, <2>2, <2>3, HeapAlone DEF MethodStep
<1> HIDE DEF ch, o, cmd
<1> QED BY <1>1, <1>3, <1>4, <1>5

LEMMA UnsubscribeSentStep ==
    ASSUME Inv, NEW p \in Callers, UnsubscribeSent(p) PROVE MethodStep(p)
<1>1. /\ pc[p] = "finish" /\ call[p].op = "unsubscribe" /\ MethodFrame
      /\ UNCHANGED <<pendingInit, obj>>
      /\ \/ /\ Continue(p) /\ sidMap' = [sidMap EXCEPT ![out[p].sid] = Nil]
            /\ channels' = [channels EXCEPT ![Ch(p)] = Nil]
         \/ Return(p) /\ UNCHANGED <<sidMap, channels>>
  BY DEF UnsubscribeSent, InFinish
<1>2. Ch(p) \in Channels
  BY <1>1, CallFacts
<1>3. /\ \A s \in Sids : sidMap'[s] # Nil => sidMap'[s] = sidMap[s]
      /\ \A ch \in Channels :
           \/ channels'[ch] = channels[ch]
           \/ channels'[ch] = Nil /\ ch = Ch(p)
  BY <1>1, <1>2, Types
<1>4. \A ch \in Channels : ch = Ch(p) => Dropped(p, ch)
  BY <1>1 DEF Dropped
<1>5. HeapStep(p)
  BY <1>1, <1>3, <1>4, Types DEF HeapStep, Steady
<1> QED BY <1>1, <1>5, EndsControl DEF MethodStep
LEMMA AddMarketsStep == ASSUME Inv, NEW p \in Callers, AddMarkets(p) PROVE MethodStep(p)
<1>1. PICK o \in Objs, created \in BOOLEAN :
        LET state == TargetState(p, o, created)
            new == call[p].tickers \ state.markets
            queue == new # {} /\ state.sid = NoSID /\ IsPending(Ch(p))
        IN  /\ Target(p, o, created)
            /\ channels' = [channels EXCEPT ![Ch(p)] = o]
            /\ obj' = [obj EXCEPT ![o] =
                 IF queue THEN [state EXCEPT !.pending = @ \cup new] ELSE state]
            /\ \/ (queue \/ new = {}) /\ Continue(p)
               \/ /\ new # {} /\ state.sid # NoSID
                  /\ SendFor(p, o, created, Command("add", Ch(p), state.sid, new, FALSE))
               \/ /\ new # {} /\ state.sid = NoSID /\ ~queue
                  /\ SendFor(p, o, created, Command("subscribe", Ch(p), NoSID, new, FALSE))
  BY Zenon DEF AddMarkets
<1> DEFINE ch == Ch(p)
           state == TargetState(p, o, created)
           new == call[p].tickers \ state.markets
           queue == new # {} /\ state.sid = NoSID /\ IsPending(ch)
           final == IF queue THEN [state EXCEPT !.pending = @ \cup new] ELSE state
           add == Command("add", ch, state.sid, new, FALSE)
           subscribe == Command("subscribe", ch, NoSID, new, FALSE)
<1>2. /\ pc[p] = "section" /\ call[p].op = "add" /\ MethodFrame
      /\ UNCHANGED <<sidMap, pendingInit>>
  BY DEF AddMarkets, InSection
<1>3. ch \in Channels /\ call[p].tickers \in SUBSET Tickers
  BY <1>2, CallFacts
<1>4. /\ add.id = 0 /\ add.conn = NoConn /\ add.sid = state.sid /\ add.ch = ch
      /\ add.kind = "add"
      /\ subscribe.id = 0 /\ subscribe.conn = NoConn /\ subscribe.sid = NoSID
      /\ subscribe.kind = "subscribe" /\ subscribe.ch = ch
  BY DEF Command
<1>5. /\ Target(p, o, created) /\ channels' = [channels EXCEPT ![ch] = o]
      /\ obj' = [obj EXCEPT ![o] = final]
      /\ \/ Continue(p)
         \/ new # {} /\ state.sid # NoSID /\ SendFor(p, o, created, add)
         \/ new # {} /\ state.sid = NoSID /\ ~queue /\ SendFor(p, o, created, subscribe)
  BY <1>1
<1>6. CASE created
  <2>1. channels[ch] = Nil /\ FirstUnused(o)
    BY <1>5, <1>6 DEF Target
  <2>2. state = NewChannelState(ch, {}, FALSE)
    BY <1>6 DEF TargetState
  <2>3. state \in ChannelState /\ state.sid = NoSID /\ state.seq = 0 /\ state.pending = {}
    <3>1. {} \in SUBSET Tickers /\ FALSE \in BOOLEAN
      OBVIOUS
    <3> HIDE DEF state, ch
    <3> QED BY <1>3, <2>2, <3>1, NewStateFields
  <2> HIDE DEF state
  <2>4. new \in SUBSET Tickers
    BY <1>3
  <2> HIDE DEF new
  <2>5. [state EXCEPT !.pending = @ \cup new] \in ChannelState
    BY <2>3, <2>4 DEF ChannelState
  <2>6. /\ final \in ChannelState /\ final.sid = NoSID /\ final.seq = 0
        /\ final.pending = {} \/ IsPending(ch)
    BY <2>3, <2>5 DEF ChannelState
  <2> HIDE DEF final, ch
  <2>7. HeapStep(p)
    BY <1>2, <1>3, <1>5, <2>1, <2>6, HeapNew
  <2>8. channels'[ch] = o /\ obj'[o] = final /\ o # Nil
    BY <1>3, <1>5, Types
  <2> HIDE DEF queue, add, subscribe
  <2>9. ASSUME NEW cmd, SendFor(p, o, created, cmd), Asks(cmd),
               cmd.kind = "subscribe" => cmd.ch = ch
        PROVE  MethodStep(p)
    <3>1. SendStart(p, cmd) /\ call' = [call EXCEPT ![p].state = o, ![p].created = created]
      BY <2>9 DEF SendFor
    <3>2. ControlStep(p) /\ out'[p] = cmd
      BY <1>2, <2>9, <3>1, SendControl
    <3>3. call'[p].op # "unsubscribe"
      BY <1>2, <3>1, Types DEF CallRecord
    <3>4. StartStep(p)
      BY <1>2, <1>3, <2>1, <2>6, <2>8, <2>9, <3>2, <3>3 DEF StartStep
    <3> QED BY <1>2, <2>7, <3>2, <3>4 DEF MethodStep
  <2>10. CASE Continue(p)
    BY <1>2, <2>7, <2>10, EndsControl DEF MethodStep
  <2>11. CASE SendFor(p, o, created, subscribe)
    <3>1. Asks(subscribe)
      BY <1>4 DEF Asks
    <3> QED BY <1>4, <2>9, <2>11, <3>1
  <2> QED BY <1>5, <2>3, <2>10, <2>11
<1>7. CASE ~created
  <2>1. channels[ch] # Nil /\ o = channels[ch]
    BY <1>5, <1>7 DEF Target
  <2>2. state = [obj[o] EXCEPT !.global = FALSE] /\ obj[o] \in ChannelState
    BY <1>7, Types DEF TargetState
  <2>3. /\ state \in ChannelState /\ state.sid = obj[o].sid /\ state.seq = obj[o].seq
        /\ state.pending = obj[o].pending /\ state.name = obj[o].name
    BY <2>2 DEF ChannelState
  <2> HIDE DEF state
  <2>4. new \in SUBSET Tickers
    BY <1>3
  <2> HIDE DEF new
  <2>5. [state EXCEPT !.pending = @ \cup new] \in ChannelState
    BY <2>3, <2>4 DEF ChannelState
  <2>6. obj[o].name = ch
    BY <1>3, <2>1 DEF Inv, NamesMatch
  <2>7. /\ final \in ChannelState /\ final.sid = obj[o].sid /\ final.seq = obj[o].seq
        /\ final.name = obj[o].name
        /\ final.pending = obj[o].pending \/ IsPending(obj[o].name)
    BY <2>3, <2>5, <2>6 DEF ChannelState
  <2> HIDE DEF final, ch
  <2>8. channels' = channels
    BY <1>3, <1>5, <2>1, Types
  <2>9. HeapStep(p)
    BY <1>2, <1>5, <2>7, <2>8, HeapChange
  <2>10. obj'[o] = final
    BY <1>5, Types
  <2> HIDE DEF queue, add, subscribe
  <2>11. ASSUME NEW cmd, SendFor(p, o, created, cmd), Asks(cmd),
                cmd.kind = "subscribe" =>
                  cmd.ch = ch /\ final.sid = NoSID /\ ~IsPending(ch)
         PROVE  MethodStep(p)
    <3>1. SendStart(p, cmd) /\ call' = [call EXCEPT ![p].state = o, ![p].created = created]
      BY <2>11 DEF SendFor
    <3>2. ControlStep(p) /\ out'[p] = cmd
      BY <1>2, <2>11, <3>1, SendControl
    <3>3. call'[p].op # "unsubscribe"
      BY <1>2, <3>1, Types DEF CallRecord
    <3>4. StartStep(p)
      BY <1>2, <1>3, <2>1, <2>8, <2>10, <2>11, <3>2, <3>3 DEF StartStep
    <3> QED BY <1>2, <2>9, <3>2, <3>4 DEF MethodStep
  <2>12. CASE Continue(p)
    BY <1>2, <2>9, <2>12, EndsControl DEF MethodStep
  <2>13. CASE SendFor(p, o, created, add)
    <3>1. Asks(add)
      BY <1>3, <1>4, <2>1, <2>3, Zenon DEF Asks
    <3> QED BY <1>4, <2>11, <2>13, <3>1
  <2>14. CASE /\ new # {} /\ state.sid = NoSID /\ ~queue
              /\ SendFor(p, o, created, subscribe)
    <3>1. Asks(subscribe)
      BY <1>4 DEF Asks
    <3>2. ~IsPending(ch)
      BY <2>14 DEF queue
    <3> QED BY <1>4, <2>3, <2>7, <2>11, <2>14, <3>1, <3>2
  <2> QED BY <1>5, <2>12, <2>13, <2>14
<1> QED BY <1>6, <1>7
\* A set of markets changes, if there is a state to change it in.
LEMMA HeapMarkets ==
    ASSUME Inv, NEW p \in Callers, NEW markets \in SUBSET Tickers,
           NEW o \in Objs \cup {Nil}, obj' = [obj EXCEPT ![o].markets = markets],
           UNCHANGED <<channels, sidMap, pendingInit>>
    PROVE  HeapStep(p)
<1>1. CASE o = Nil
  <2>1. obj' = obj
    BY <1>1, Types
  <2> QED BY <2>1, HeapAlone DEF stateVars
<1>2. CASE o # Nil
  <2> DEFINE state == [obj[o] EXCEPT !.markets = markets]
  <2>1. o \in Objs /\ obj[o] \in ChannelState
    BY <1>2, Types
  <2>2. /\ state \in ChannelState /\ state.sid = obj[o].sid /\ state.seq = obj[o].seq
        /\ state.name = obj[o].name /\ state.pending = obj[o].pending
    BY <2>1 DEF ChannelState
  <2>3. obj' = [obj EXCEPT ![o] = state]
    BY <2>1, Types
  <2> HIDE DEF state
  <2> QED BY <2>1, <2>2, <2>3, HeapChange
<1> QED BY <1>1, <1>2

LEMMA AddMarketsSentStep ==
    ASSUME Inv, NEW p \in Callers, AddMarketsSent(p) PROVE MethodStep(p)
<1> DEFINE o == call[p].state
           markets == obj[o].markets \cup out[p].tickers
<1>1. /\ pc[p] = "finish" /\ call[p].op = "add" /\ MethodFrame
      /\ \/ /\ Continue(p) /\ UNCHANGED <<channels, sidMap, pendingInit>>
            /\ obj' = [obj EXCEPT ![o].markets = markets]
         \/ Return(p) /\ ForgetChannel(Ch(p))
         \/ Return(p) /\ UNCHANGED <<pendingInit, stateVars>>
  BY DEF AddMarketsSent, InFinish
<1>2. Ch(p) \in Channels /\ o \in Objs \cup {Nil} /\ out[p].tickers \in SUBSET Tickers
  BY <1>1, CallFacts, Types, ReaderIsNoCaller DEF CallRecord, SendRecord
<1>3. CASE /\ Continue(p) /\ UNCHANGED <<channels, sidMap, pendingInit>>
           /\ obj' = [obj EXCEPT ![o].markets = markets]
  <2>1. CASE o = Nil
    <3>1. obj' = obj
      BY <1>3, <2>1, Types
    <3>2. HeapStep(p)
      BY <1>3, <3>1, HeapAlone DEF stateVars
    <3> QED BY <1>1, <1>3, <3>2, EndsControl DEF MethodStep
  <2>2. CASE o # Nil
    <3>1. markets \in SUBSET Tickers
      BY <1>2, <2>2, Types DEF ChannelState
    <3> HIDE DEF markets, o
    <3>2. HeapStep(p)
      BY <1>2, <1>3, <3>1, HeapMarkets
    <3> QED BY <1>1, <1>3, <3>2, EndsControl DEF MethodStep
  <2> QED BY <2>1, <2>2
<1>4. CASE Return(p) /\ ForgetChannel(Ch(p))
  BY <1>1, <1>2, <1>4, EndsControl, HeapForget DEF MethodStep
<1>5. CASE Return(p) /\ UNCHANGED <<pendingInit, stateVars>>
  BY <1>1, <1>5, EndsControl, HeapAlone DEF MethodStep
<1> HIDE DEF o, markets
<1> QED BY <1>1, <1>3, <1>4, <1>5

\* A command that is not a subscribe, sent by a method that is not Unsubscribe.
LEMMA UpdateStart ==
    ASSUME Inv, NEW p \in Callers, pc[p] = "section", call[p].op # "unsubscribe",
           NEW cmd, Asks(cmd), cmd.kind # "subscribe", SendStart(p, cmd),
           UNCHANGED pendingInit,
           \/ UNCHANGED call
           \/ \E o : call' = [call EXCEPT ![p].state = o, ![p].created = FALSE]
    PROVE  ControlStep(p) /\ StartStep(p)
<1>1. ControlStep(p) /\ out'[p] = cmd
  BY SendControl
<1>2. call'[p].op # "unsubscribe"
  <2>1. call \in [Callers -> CallRecord] /\ call[p] \in CallRecord
    BY Types
  <2>2. ASSUME NEW o, call' = [call EXCEPT ![p].state = o, ![p].created = FALSE]
        PROVE  call'[p].op = call[p].op
    <3>1. call'[p] = [call[p] EXCEPT !.state = o, !.created = FALSE]
      BY <2>1, <2>2, Zenon
    <3> QED BY <2>1, <3>1 DEF CallRecord
  <2> QED BY <2>2
<1> QED BY <1>1, <1>2 DEF StartStep

LEMMA RemoveMarketsStep ==
    ASSUME Inv, NEW p \in Callers, RemoveMarkets(p) PROVE MethodStep(p)
<1> DEFINE ch == Ch(p)
           o == channels[ch]
           state == [obj[o] EXCEPT !.global = FALSE]
           cmd == Command("delete", ch, obj[o].sid, call[p].tickers, FALSE)
<1>1. /\ pc[p] = "section" /\ call[p].op = "remove" /\ MethodFrame
      /\ UNCHANGED <<pendingInit, channels, sidMap>>
      /\ \/ Continue(p) /\ UNCHANGED obj
         \/ /\ HasSID(ch) /\ obj' = [obj EXCEPT ![o].global = FALSE]
            /\ SendFor(p, o, FALSE, cmd)
  BY DEF RemoveMarkets, InSection
<1>2. CASE Continue(p) /\ UNCHANGED obj
  BY <1>1, <1>2, EndsControl, HeapAlone DEF MethodStep, stateVars
<1>3. CASE /\ HasSID(ch) /\ obj' = [obj EXCEPT ![o].global = FALSE]
           /\ SendFor(p, o, FALSE, cmd)
  <2>1. ch \in Channels /\ o \in Objs /\ obj[o] \in ChannelState /\ o # Nil
    BY <1>1, <1>3, CallFacts, Types DEF HasSID
  <2>2. /\ state \in ChannelState /\ state.sid = obj[o].sid /\ state.seq = obj[o].seq
        /\ state.name = obj[o].name /\ state.pending = obj[o].pending
    BY <2>1 DEF ChannelState
  <2>3. obj' = [obj EXCEPT ![o] = state]
    BY <1>3, <2>1, Types
  <2>4. HeapStep(p)
    <3> HIDE DEF state, o
    <3> QED BY <1>1, <2>1, <2>2, <2>3, HeapChange
  <2>5. /\ cmd.id = 0 /\ cmd.conn = NoConn /\ cmd.sid = obj[o].sid /\ cmd.ch = ch
        /\ cmd.kind = "delete"
    BY DEF Command
  <2> HIDE DEF cmd
  <2>6. Asks(cmd)
    BY <2>1, <2>5, Zenon DEF Asks
  <2>7. SendStart(p, cmd)
        /\ call' = [call EXCEPT ![p].state = o, ![p].created = FALSE]
    BY <1>3 DEF SendFor
  <2>8. ControlStep(p) /\ StartStep(p)
    BY <1>1, <2>5, <2>6, <2>7, UpdateStart
  <2> QED BY <1>1, <2>4, <2>8 DEF MethodStep
<1> HIDE DEF ch, o, state, cmd
<1> QED BY <1>1, <1>2, <1>3

LEMMA RemoveMarketsSentStep ==
    ASSUME Inv, NEW p \in Callers, RemoveMarketsSent(p) PROVE MethodStep(p)
<1> DEFINE o == call[p].state
           markets == obj[o].markets \ out[p].tickers
<1>1. /\ pc[p] = "finish" /\ call[p].op = "remove" /\ MethodFrame
      /\ UNCHANGED <<pendingInit, channels, sidMap>>
      /\ \/ Continue(p) /\ obj' = [obj EXCEPT ![o].markets = markets]
         \/ Return(p) /\ UNCHANGED obj
  BY DEF RemoveMarketsSent, InFinish
<1>2. o \in Objs \cup {Nil}
  BY Types DEF CallRecord
<1>3. CASE Continue(p) /\ obj' = [obj EXCEPT ![o].markets = markets]
  <2>1. CASE o = Nil
    <3>1. obj' = obj
      BY <1>3, <2>1, Types
    <3>2. HeapStep(p)
      BY <1>1, <3>1, HeapAlone DEF stateVars
    <3> QED BY <1>1, <1>3, <3>2, EndsControl DEF MethodStep
  <2>2. CASE o # Nil
    <3>1. markets \in SUBSET Tickers
      BY <1>2, <2>2, Types DEF ChannelState
    <3> HIDE DEF markets, o
    <3>2. HeapStep(p)
      BY <1>1, <1>2, <1>3, <3>1, HeapMarkets
    <3> QED BY <1>1, <1>3, <3>2, EndsControl DEF MethodStep
  <2> QED BY <2>1, <2>2
<1>4. CASE Return(p) /\ UNCHANGED obj
  BY <1>1, <1>4, EndsControl, HeapAlone DEF MethodStep, stateVars
<1> HIDE DEF o, markets
<1> QED BY <1>1, <1>3, <1>4

LEMMA GetSnapshotStep == ASSUME Inv, NEW p \in Callers, GetSnapshot(p) PROVE MethodStep(p)
<1> DEFINE ch == Ch(p)
           o == channels[ch]
           cmd == Command("snapshot", ch, obj[o].sid, call[p].tickers, FALSE)
<1>1. /\ pc[p] = "section" /\ call[p].op = "snapshot" /\ MethodFrame
      /\ UNCHANGED <<pendingInit, stateVars>>
      /\ Continue(p) \/ (HasSID(ch) /\ UNCHANGED call /\ SendStart(p, cmd))
  BY DEF GetSnapshot, InSection
<1>2. HeapStep(p) /\ ch \in Channels
  BY <1>1, HeapAlone, CallFacts
<1>3. CASE Continue(p)
  BY <1>1, <1>2, <1>3, EndsControl DEF MethodStep
<1>4. CASE HasSID(ch) /\ UNCHANGED call /\ SendStart(p, cmd)
  <2>1. /\ cmd.id = 0 /\ cmd.conn = NoConn /\ cmd.sid = obj[o].sid /\ cmd.ch = ch
        /\ cmd.kind = "snapshot"
    BY DEF Command
  <2> HIDE DEF cmd
  <2>2. o # Nil
    BY <1>4 DEF HasSID
  <2>3. Asks(cmd)
    BY <1>2, <2>1, <2>2, Zenon DEF Asks
  <2>4. ControlStep(p) /\ StartStep(p)
    BY <1>1, <1>4, <2>1, <2>3, UpdateStart
  <2> QED BY <1>1, <1>2, <2>4 DEF MethodStep
<1> HIDE DEF ch, o, cmd
<1> QED BY <1>1, <1>3, <1>4

LEMMA GetSnapshotSentStep ==
    ASSUME Inv, NEW p \in Callers, GetSnapshotSent(p) PROVE MethodStep(p)
<1>1. /\ pc[p] = "finish" /\ MethodFrame /\ UNCHANGED <<pendingInit, stateVars>>
      /\ Continue(p) \/ Return(p)
  BY DEF GetSnapshotSent, InFinish
<1> QED BY <1>1, EndsControl, HeapAlone DEF MethodStep

Methods(p) ==
    \/ Subscribe(p) \/ SubscribeSent(p) \/ Unsubscribe(p) \/ UnsubscribeSent(p)
    \/ AddMarkets(p) \/ AddMarketsSent(p) \/ RemoveMarkets(p)
    \/ RemoveMarketsSent(p) \/ GetSnapshot(p) \/ GetSnapshotSent(p)

LEMMA MethodsStep == ASSUME Inv, NEW p \in Callers, Methods(p) PROVE MethodStep(p)
  BY SubscribeStep, SubscribeSentStep, UnsubscribeStep, UnsubscribeSentStep,
     AddMarketsStep, AddMarketsSentStep, RemoveMarketsStep, RemoveMarketsSentStep,
     GetSnapshotStep, GetSnapshotSentStep DEF Methods
-----------------------------------------------------------------------------
(* Every step keeps Dialed.                                                *)

\* A caller that is not writing a command makes a step.
LEMMA CallerDials ==
    ASSUME Inv, NEW p \in Callers, LinkStep, UNCHANGED rconn,
           conn' \in {conn, NoConn} \/ NewConn,
           NEW l, l # "write", pc' = [pc EXCEPT ![p] = l],
           NEW cmd, cmd.conn = NoConn \/ cmd = out[p], out' = [out EXCEPT ![p] = cmd]
    PROVE  DialedEffect
<1>1. /\ p \in Procs /\ Reader \in Procs /\ p # Reader
      /\ \A q \in Procs \ {p} : pc'[q] = pc[q] /\ out'[q] = out[q]
      /\ pc'[p] = l /\ out'[p] = cmd
  BY Types, ReaderIsNoCaller
<1>2. Recovering' = Recovering
  BY <1>1 DEF Recovering
<1> QED BY <1>1, <1>2 DEF DialedEffect

LEMMA MethodDials == ASSUME Inv, NEW p \in Callers, MethodStep(p) PROVE DialedEffect
<1>1. PICK l \in {"idle", "section", "register"} : pc' = [pc EXCEPT ![p] = l]
  BY DEF MethodStep, ControlStep
<1>2. PICK cmd : cmd.conn = NoConn /\ out' = [out EXCEPT ![p] = cmd]
  BY DEF MethodStep, ControlStep, Asks
<1>3. UNCHANGED <<link, conn, rconn>>
  BY DEF MethodStep, MethodFrame, serverVars, readerVars
<1> QED BY <1>1, <1>2, <1>3, CallerDials DEF LinkStep

LEMMA BeginDials == ASSUME Inv, NEW p \in Callers, Begin(p) PROVE DialedEffect
<1>1. out' = [out EXCEPT ![p] = out[p]]
  BY Types, ReaderIsNoCaller DEF Begin
<1>2. pc' = [pc EXCEPT ![p] = "section"] /\ UNCHANGED <<link, conn, rconn>>
  BY DEF Begin, serverVars, readerVars
<1> QED BY <1>1, <1>2, CallerDials DEF LinkStep

\* Dialling appends a connection and stores its number.
LEMMA DialLinks ==
    ASSUME Inv, NEW p, Dialled \/ DialFailed(p)
    PROVE  /\ LinkStep /\ (conn' = conn \/ NewConn)
           /\ UNCHANGED <<subs, down>>
           /\ Dialled => link' = Append(link, "up")
<1>1. CASE Dialled
  <2>1. link' = Append(link, "up") /\ conn' = Len(link) + 1 /\ UNCHANGED <<subs, down>>
    BY <1>1 DEF Dialled, Open
  <2>2. Len(link') = Len(link) + 1
    BY <2>1, Types, AppendProperties DEF LinkStates
  <2> QED BY <2>1, <2>2 DEF LinkStep, NewConn
<1>2. CASE DialFailed(p)
  BY <1>2 DEF DialFailed, serverVars, LinkStep, Dialled, Open
<1> QED BY <1>1, <1>2

LEMMA ConnectDials ==
    ASSUME Inv, NEW p \in Callers, Connect(p) \/ Close(p) \/ CloseConn(p)
    PROVE  DialedEffect
<1>1. NoSend.conn = NoConn
  BY DEF NoSend
<1>2. CASE Connect(p)
  <2>1. /\ pc' = [pc EXCEPT ![p] = "idle"] /\ out' = [out EXCEPT ![p] = NoSend]
        /\ UNCHANGED rconn /\ (Dialled \/ DialFailed(p))
    BY <1>2 DEF Connect, Return, readerVars
  <2>2. LinkStep /\ (conn' = conn \/ NewConn)
    BY <2>1, DialLinks
  <2> QED BY <1>1, <2>1, <2>2, CallerDials
<1>3. CASE Close(p)
  <2>1. out' = [out EXCEPT ![p] = out[p]]
    BY <1>3, Types, ReaderIsNoCaller DEF Close
  <2>2. pc' = [pc EXCEPT ![p] = "closing"] /\ UNCHANGED <<link, conn, rconn>>
    BY <1>3 DEF Close, serverVars, readerVars
  <2> QED BY <2>1, <2>2, CallerDials DEF LinkStep
<1>4. CASE CloseConn(p)
  <2>1. /\ pc' = [pc EXCEPT ![p] = "idle"] /\ out' = [out EXCEPT ![p] = NoSend]
        /\ conn' = NoConn /\ SetLink(conn, "closed") /\ UNCHANGED rconn
    BY <1>4 DEF CloseConn, Return, readerVars
  <2>2. LinkStep
    BY <2>1, Zenon DEF LinkStep
  <2> QED BY <1>1, <2>1, <2>2, CallerDials
<1> QED BY <1>2, <1>3, <1>4

\* A step of a send, whoever sends.
Sends(p, l, c, id, ok) ==
    /\ l \in {"grab", "write", "finish"} /\ pc' = [pc EXCEPT ![p] = l]
    /\ pc[p] \in Sending
    /\ out' = [out EXCEPT ![p] = [out[p] EXCEPT !.conn = c, !.id = id, !.ok = ok]]
    /\ c \in {out[p].conn, conn, NoConn} /\ (l = "write" => c # NoConn)

LEMMA SendDials == ASSUME Inv, NEW p \in Procs, SendStep(p) PROVE DialedEffect
<1>1. Reader \in Procs
  BY ReaderIsNoCaller
<1>2. LinkStep /\ UNCHANGED <<conn, rconn>>
  <2>1. CASE WriteTimeout(p)
    BY <2>1, Zenon DEF WriteTimeout, Written, SendFrame, readerVars, LinkStep
  <2>2. CASE Register(p) \/ GrabConn(p) \/ WriteDelivered(p) \/ WriteLost(p)
    BY <2>2 DEF Register, GrabConn, WriteDelivered, WriteLost, Written, SendFrame,
                readerVars, serverVars, LinkStep
  <2> QED BY <2>1, <2>2 DEF SendStep
<1>3. PICK l, c, id, ok : Sends(p, l, c, id, ok)
  <2>0. out[p] \in SendRecord
    BY Types
  <2>1. CASE Register(p)
    <3>1. out' = [out EXCEPT ![p] = [out[p] EXCEPT !.conn = out[p].conn, !.id = NextID,
                                                    !.ok = out[p].ok]]
      BY <2>0, <2>1 DEF Register, SendRecord
    <3>2. Sends(p, "grab", out[p].conn, NextID, out[p].ok)
      BY <2>1, <3>1 DEF Register, Sending, Sends
    <3> QED BY <3>2
  <2>2. CASE GrabConn(p)
    <3>1. out' = [out EXCEPT ![p] = [out[p] EXCEPT !.conn = conn, !.id = out[p].id,
                                                    !.ok = out[p].ok]]
      BY <2>0, <2>2 DEF GrabConn, SendRecord
    <3>2. PICK l \in {"write", "finish"} :
            pc' = [pc EXCEPT ![p] = l] /\ (l = "write" => conn # NoConn)
      BY <2>2 DEF GrabConn
    <3>3. Sends(p, l, conn, out[p].id, out[p].ok)
      BY <2>2, <3>1, <3>2 DEF GrabConn, Sending, Sends
    <3> QED BY <3>3
  <2>3. ASSUME NEW ok, Written(p, ok), pc[p] = "write"
        PROVE  Sends(p, "finish", out[p].conn, out[p].id, ok)
    <3>1. out' = [out EXCEPT ![p] = [out[p] EXCEPT !.conn = out[p].conn,
                                                    !.id = out[p].id, !.ok = ok]]
      BY <2>0, <2>3 DEF Written, SendRecord
    <3> QED BY <2>3, <3>1 DEF Written, Sending, Sends
  <2>4. CASE WriteDelivered(p) \/ WriteLost(p) \/ WriteTimeout(p)
    <3>1. pc[p] = "write" /\ \E ok : Written(p, ok)
      BY <2>4, Zenon DEF WriteDelivered, WriteLost, WriteTimeout
    <3> QED BY <3>1, <2>3
  <2> QED BY <2>1, <2>2, <2>4 DEF SendStep
<1>4. /\ \A q \in Procs \ {p} : pc'[q] = pc[q] /\ out'[q] = out[q]
      /\ pc'[p] = l /\ out'[p].conn = c /\ out'[p].kind = out[p].kind
  BY <1>3, Types DEF SendRecord, Sends
<1>5. Recovering' => Recovering
  BY <1>1, <1>3, <1>4 DEF Recovering, Sending, Sends
<1>6. pc'[Reader] \in {"waitLoss", "redial"} => pc[Reader] \in {"waitLoss", "redial"}
  BY <1>1, <1>3, <1>4 DEF Sends
<1> QED BY <1>2, <1>3, <1>4, <1>5, <1>6 DEF DialedEffect, Sends
\* A step of the reader that is not one of a send.
LEMMA ReaderDials ==
    ASSUME Inv, LinkStep, conn' \in {conn, NoConn} \/ NewConn,
           rconn' \in {rconn, conn, NoConn},
           NEW l, l # "write", Goto(l),
           NEW cmd, cmd.conn = NoConn \/ cmd = out[Reader],
           out' = [out EXCEPT ![Reader] = cmd],
           l \in {"waitLoss", "redial"} => pc[Reader] = "waitLoss" \/ rconn # NoConn,
           Recovering' => Recovering \/ (pc[Reader] = "redial" /\ link' = Append(link, "up"))
    PROVE  DialedEffect
<1>1. /\ Reader \in Procs
      /\ \A q \in Procs \ {Reader} : pc'[q] = pc[q] /\ out'[q] = out[q]
      /\ pc'[Reader] = l /\ out'[Reader] = cmd
  BY Types, ReaderIsNoCaller DEF Goto
<1> QED BY <1>1 DEF DialedEffect

\* The steps of the loop, where the command of the reader is left alone.
LEMMA LoopDials ==
    ASSUME Inv, LoopFrame, LinkStep,
           conn' \in {conn, NoConn} \/ NewConn,
           rconn' \in {rconn, conn, NoConn},
           NEW l, l \notin Sending \cup {"next"}, Goto(l),
           l \in {"waitLoss", "redial"} => pc[Reader] = "waitLoss" \/ rconn # NoConn,
           l = "recover" => (pc[Reader] = "redial" /\ link' = Append(link, "up"))
    PROVE  DialedEffect
<1>1. Reader \in Procs /\ out' = [out EXCEPT ![Reader] = out[Reader]]
  BY Types, ReaderIsNoCaller DEF LoopFrame
<1>2. pc'[Reader] = l
  BY <1>1, Types DEF Goto
<1>3. Recovering' => (pc[Reader] = "redial" /\ link' = Append(link, "up"))
  BY <1>2 DEF Recovering
<1> QED BY <1>1, <1>3, ReaderDials DEF Sending

LoopSteps ==
    \/ LoopTop \/ Dial \/ Wait \/ EnterReadLoop \/ ReadError \/ CheckForce
    \/ LoopLeaves \/ WaitLoss \/ Redial

LEMMA LoopStepsDial == ASSUME Inv, LoopSteps PROVE DialedEffect
<1>0. LoopFrame
  BY DEF LoopSteps, LoopTop, Dial, Wait, EnterReadLoop, ReadError, CheckForce,
         LoopLeaves, WaitLoss, Redial
<1>1. CASE LoopTop
  <2>1. PICK l \in {"done", "dial", "enter"} : Goto(l)
    BY <1>1, Zenon DEF LoopTop, FromTop
  <2>2. UNCHANGED <<link, conn, rconn>>
    BY <1>1 DEF LoopTop, serverVars
  <2> QED BY <1>0, <2>1, <2>2, LoopDials DEF LinkStep, Sending
<1>2. CASE Dial
  <2>1. PICK l \in {"enter", "wait"} : Goto(l) /\ UNCHANGED rconn
    BY <1>2 DEF Dial
  <2>2. Dialled \/ DialFailed(Reader)
    BY <1>2 DEF Dial
  <2>3. LinkStep /\ (conn' = conn \/ NewConn)
    BY <2>2, DialLinks
  <2> QED BY <1>0, <2>1, <2>3, LoopDials DEF Sending
<1>3. CASE Wait
  <2>1. PICK l \in {"done", "top"} : Goto(l)
    BY <1>3 DEF Wait
  <2>2. UNCHANGED <<link, conn, rconn>>
    BY <1>3 DEF Wait, serverVars
  <2> QED BY <1>0, <2>1, <2>2, LoopDials DEF LinkStep, Sending
<1>4. CASE EnterReadLoop
  <2>1. PICK l \in {"panic", "read"} : Goto(l)
    BY <1>4, Zenon DEF EnterReadLoop
  <2>2. UNCHANGED <<link, conn>> /\ rconn' = conn
    BY <1>4 DEF EnterReadLoop, serverVars
  <2> QED BY <1>0, <2>1, <2>2, LoopDials DEF LinkStep, Sending
<1>5. CASE ReadError
  <2>1. Goto("returned") /\ UNCHANGED <<conn, rconn>>
       /\ (SetLink(rconn, "closed") \/ UNCHANGED link)
    BY <1>5 DEF ReadError
  <2>2. LinkStep
    BY <2>1, Zenon DEF LinkStep
  <2> QED BY <1>0, <2>1, <2>2, LoopDials DEF Sending
<1>6. CASE CheckForce
  <2>1. PICK l \in {"returned", "read"} : Goto(l)
    BY <1>6, Zenon DEF CheckForce
  <2>2. UNCHANGED <<link, conn, rconn>>
    BY <1>6 DEF CheckForce, serverVars
  <2> QED BY <1>0, <2>1, <2>2, LoopDials DEF LinkStep, Sending
<1>7. CASE LoopLeaves
  BY <1>0, <1>7, LoopDials DEF LoopLeaves, LinkStep, Sending, serverVars
<1>8. CASE WaitLoss
  <2>1. PICK l \in {"done", "redial"} : Goto(l)
    BY <1>8 DEF WaitLoss
  <2>2. UNCHANGED <<link, conn, rconn>> /\ pc[Reader] = "waitLoss"
    BY <1>8 DEF WaitLoss, serverVars, At
  <2> QED BY <1>0, <2>1, <2>2, LoopDials DEF LinkStep, Sending
<1>9. CASE Redial
  <2>1. CASE Dialled /\ Goto("recover")
    <3>1. /\ LinkStep /\ (conn' = conn \/ NewConn)
          /\ link' = Append(link, "up") /\ pc[Reader] = "redial" /\ UNCHANGED rconn
      BY <1>9, <2>1, DialLinks DEF Redial, At
    <3> QED BY <1>0, <2>1, <3>1, LoopDials DEF Sending
  <2>2. CASE DialFailed(Reader) /\ Goto("top")
    <3>1. LinkStep /\ (conn' = conn \/ NewConn) /\ UNCHANGED rconn
      BY <1>9, <2>2, DialLinks DEF Redial
    <3> QED BY <1>0, <2>2, <3>1, LoopDials DEF Sending
  <2> QED BY <1>9, <2>1, <2>2 DEF Redial
<1> QED BY <1>1, <1>2, <1>3, <1>4, <1>5, <1>6, <1>7, <1>8, <1>9 DEF LoopSteps
\* A message is handled: on to the delivery or the check, or to a flush.
Handles ==
    /\ pc[Reader] = "read" /\ UNCHANGED <<link, subs, conn, rconn>>
    /\ \/ UNCHANGED out /\ \E l \in {"check", "deliver"} : Goto(l)
       \/ \E cmd : SendStart(Reader, cmd) /\ cmd.kind = "add" /\ cmd.conn = NoConn

LEMMA HandlesStep == ASSUME Inv, HandleIncoming PROVE Handles
<1>1. PICK type : Incoming(type)
  BY DEF HandleIncoming, HandleSubscribed, HandleUnknownId, HandleOK,
         HandleUnsubscribed, HandleError, HandleDataMessage
<1>2. pc[Reader] = "read" /\ UNCHANGED <<link, subs, conn, rconn>>
  BY <1>1 DEF Incoming, At
<1>3. \/ Goto("check") /\ UNCHANGED out
      \/ Goto("deliver") /\ UNCHANGED out
      \/ \E cmd : SendStart(Reader, cmd) /\ cmd.kind = "add" /\ cmd.conn = NoConn
  <2>1. CASE HandleSubscribed
    <3>1. PICK e \in pendingInit :
            LET o == channels[e.ch]
                cmd == Command("add", e.ch, M.sid, obj[o].pending, FALSE)
            IN  Handled \/ SendStart(Reader, cmd)
      BY <2>1 DEF HandleSubscribed
    <3> DEFINE cmd == Command("add", e.ch, M.sid, obj[channels[e.ch]].pending, FALSE)
    <3>2. cmd.kind = "add" /\ cmd.conn = NoConn
      BY DEF Command
    <3>3. Handled \/ SendStart(Reader, cmd)
      BY <3>1
    <3> HIDE DEF cmd
    <3> QED BY <3>2, <3>3 DEF Handled
  <2>2. CASE HandleDataMessage
    BY <2>2 DEF HandleDataMessage, Handled
  <2>3. CASE HandleUnknownId \/ HandleOK \/ HandleUnsubscribed \/ HandleError
    BY <2>3 DEF HandleUnknownId, HandleOK, HandleUnsubscribed, HandleError, Handled
  <2> QED BY <2>1, <2>2, <2>3 DEF HandleIncoming
<1> QED BY <1>2, <1>3 DEF Handles

LEMMA HandleDials == ASSUME Inv, HandleIncoming PROVE DialedEffect
<1>1. Handles /\ Reader \in Procs
  BY HandlesStep, ReaderIsNoCaller
<1>2. CASE UNCHANGED out /\ \E l \in {"check", "deliver"} : Goto(l)
  <2>1. PICK l \in {"check", "deliver"} : Goto(l)
    BY <1>2
  <2>2. pc'[Reader] = l
    BY <1>1, <2>1, Types DEF Goto
  <2>3. out' = [out EXCEPT ![Reader] = out[Reader]] /\ ~Recovering'
    BY <1>1, <1>2, <2>2, Types DEF Recovering, Sending
  <2> QED BY <1>1, <2>1, <2>3, ReaderDials DEF Handles, LinkStep
<1>3. ASSUME NEW cmd, SendStart(Reader, cmd), cmd.kind = "add", cmd.conn = NoConn
      PROVE  DialedEffect
  <2>1. Goto("register") /\ out' = [out EXCEPT ![Reader] = cmd]
    BY <1>3 DEF SendStart, Goto
  <2>2. pc'[Reader] = "register" /\ out'[Reader] = cmd
    BY <1>1, <2>1, Types DEF Goto
  <2>3. ~Recovering'
    BY <1>3, <2>2 DEF Recovering, Sending
  <2>4. LinkStep /\ UNCHANGED <<conn, rconn>>
    BY <1>1 DEF Handles, LinkStep
  <2>5. PICK l \in {"register"} : Goto(l)
    BY <2>1
  <2> QED BY <1>3, <2>1, <2>3, <2>4, <2>5, ReaderDials
<1> QED BY <1>1, <1>2, <1>3 DEF Handles

LEMMA FlushDials == ASSUME Inv, FlushSent PROVE DialedEffect
<1> DEFINE cmd == Command("add", out[Reader].ch, out[Reader].sid, obj[flushing].pending, FALSE)
<1>1. /\ UNCHANGED <<link, conn, rconn>> /\ Reader \in Procs
      /\ \/ SendStart(Reader, cmd)
         \/ out' = [out EXCEPT ![Reader] = NoSend] /\ Goto("check")
  BY ReaderIsNoCaller DEF FlushSent, serverVars
<1>2. cmd.kind = "add" /\ cmd.conn = NoConn
  BY DEF Command
<1> HIDE DEF cmd
<1>3. CASE SendStart(Reader, cmd)
  <2>1. Goto("register") /\ out' = [out EXCEPT ![Reader] = cmd]
    BY <1>3 DEF SendStart, Goto
  <2>2. pc'[Reader] = "register" /\ out'[Reader] = cmd
    BY <1>1, <2>1, Types DEF Goto
  <2>3. ~Recovering'
    BY <1>2, <2>2 DEF Recovering, Sending
  <2>4. PICK l \in {"register"} : Goto(l)
    BY <2>1
  <2>5. LinkStep
    BY <1>1 DEF LinkStep
  <2> QED BY <1>1, <1>2, <2>1, <2>3, <2>4, <2>5, ReaderDials
<1>4. CASE out' = [out EXCEPT ![Reader] = NoSend] /\ Goto("check")
  <2>1. pc'[Reader] = "check" /\ NoSend.conn = NoConn
    BY <1>1, <1>4, Types DEF Goto, NoSend
  <2>2. ~Recovering'
    BY <2>1 DEF Recovering, Sending
  <2> QED BY <1>1, <1>4, <2>1, <2>2, ReaderDials DEF LinkStep
<1> QED BY <1>1, <1>3, <1>4

LEMMA LeaveDials ==
    ASSUME Inv, Deliver \/ HandleConnectionLoss PROVE DialedEffect
<1>1. /\ Reader \in Procs /\ UNCHANGED <<link, out>>
      /\ conn' \in {conn, NoConn} /\ rconn' \in {rconn, NoConn}
  BY ReaderIsNoCaller DEF Deliver, HandleConnectionLoss, serverVars
<1>2. PICK l \in {"check", "waitLoss"} :
        Goto(l) /\ (l = "waitLoss" => pc[Reader] = "returned")
  BY DEF Deliver, HandleConnectionLoss, At
<1>3. pc[Reader] = "returned" => rconn # NoConn
  BY DEF Inv, Shape, ReaderShape, Attached
<1>4. pc'[Reader] = l /\ out' = [out EXCEPT ![Reader] = out[Reader]]
  BY <1>1, <1>2, Types DEF Goto
<1>5. ~Recovering'
  BY <1>4 DEF Recovering, Sending
<1> QED BY <1>1, <1>2, <1>3, <1>4, <1>5, ReaderDials DEF LinkStep

\* The recovery: what it sends it sends after its second connection.
RecoverSteps ==
    \/ RecoverStart \/ RecoverEnd \/ RecoverSent
    \/ \E ch \in Channels : RecoverNext(ch)

LEMMA RecoverDials == ASSUME Inv, RecoverSteps PROVE Recovering /\ DialedEffect
<1>1. UNCHANGED <<link, conn, rconn>> /\ Reader \in Procs
  BY ReaderIsNoCaller DEF RecoverSteps, RecoverStart, RecoverEnd, RecoverSent,
     RecoverNext, RecoverFrame, serverVars
<1>2. Recovering
  BY DEF RecoverSteps, RecoverStart, RecoverEnd, RecoverSent, RecoverNext, At,
     Recovering, Sending
<1>3. /\ \A q \in Procs \ {Reader} : pc'[q] = pc[q] /\ out'[q] = out[q]
      /\ pc'[Reader] \in {pc[Reader], "next", "top", "register"}
      /\ out'[Reader] = out[Reader] \/ out'[Reader].conn = NoConn
  <2>1. CASE RecoverStart \/ RecoverEnd \/ RecoverSent
    <3>1. /\ \E l \in {"next", "top"} : pc' = [pc EXCEPT ![Reader] = l]
          /\ UNCHANGED out \/ out' = [out EXCEPT ![Reader] = NoSend]
      BY <2>1 DEF RecoverStart, RecoverEnd, RecoverSent, Goto
    <3>2. NoSend.conn = NoConn
      BY DEF NoSend
    <3> QED BY <1>1, <3>1, <3>2, Types
  <2>2. ASSUME NEW ch \in Channels, RecoverNext(ch)
        PROVE  /\ \A q \in Procs \ {Reader} : pc'[q] = pc[q] /\ out'[q] = out[q]
               /\ pc'[Reader] \in {pc[Reader], "next", "top", "register"}
               /\ out'[Reader] = out[Reader] \/ out'[Reader].conn = NoConn
    <3>1. \/ UNCHANGED <<pc, out>>
          \/ \E tickers, global :
               SendStart(Reader, Command("subscribe", obj[channels[ch]].name, NoSID,
                                         tickers, global))
      BY <2>2 DEF RecoverNext
    <3>2. ASSUME NEW tickers, NEW global,
                 SendStart(Reader, Command("subscribe", obj[channels[ch]].name, NoSID,
                                           tickers, global))
          PROVE  /\ \A q \in Procs \ {Reader} : pc'[q] = pc[q] /\ out'[q] = out[q]
                 /\ pc'[Reader] = "register" /\ out'[Reader].conn = NoConn
      <4> DEFINE cmd == Command("subscribe", obj[channels[ch]].name, NoSID, tickers, global)
      <4>1. cmd.conn = NoConn
        BY DEF Command
      <4>2. pc' = [pc EXCEPT ![Reader] = "register"] /\ out' = [out EXCEPT ![Reader] = cmd]
        BY <3>2 DEF SendStart
      <4> HIDE DEF cmd
      <4> QED BY <1>1, <4>1, <4>2, Types
    <3> QED BY <3>1, <3>2
  <2> QED BY <2>1, <2>2 DEF RecoverSteps
<1>4. \A q \in Procs : out'[q].conn \in {out[q].conn, conn, NoConn}
  BY <1>3
<1>5. \A q \in Procs : pc'[q] = "write" => pc[q] = "write" /\ out'[q] = out[q]
  <2>1. pc[Reader] = "write" => FALSE
    BY DEF RecoverSteps, RecoverStart, RecoverEnd, RecoverSent, RecoverNext, At
  <2> QED BY <1>3, <2>1
<1>6. pc'[Reader] \in {"waitLoss", "redial"} => pc[Reader] \in {"waitLoss", "redial"}
  BY <1>3
<1> QED BY <1>1, <1>2, <1>4, <1>5, <1>6 DEF DialedEffect, LinkStep

\* The consumer, the context's owner, the network and the service.
LEMMA OutsideDials ==
    ASSUME Inv, Consume \/ Cancel \/ Feed \/ UNCHANGED vars PROVE DialedEffect
<1>1. UNCHANGED <<conn, rconn, pc, out>>
  BY DEF Consume, Cancel, Feed, vars, clientVars, procVars, readerVars
<1>2. LinkStep
  <2>1. CASE Feed
    <3>1. PICK k \in Conns : Break(k) \/ \E s \in Sids : Send(k, s) \/ Lose(k, s)
      BY <2>1 DEF Feed, ServerStep
    <3>2. SetLink(k, "broken") \/ UNCHANGED link
      BY <3>1 DEF Break, Send, Lose
    <3> QED BY <3>2, Zenon DEF LinkStep
  <2>2. CASE Consume \/ Cancel \/ UNCHANGED vars
    BY <2>2 DEF Consume, Cancel, vars, serverVars, LinkStep
  <2> QED BY <2>1, <2>2
<1> QED BY <1>1, <1>2 DEF DialedEffect, Recovering

\* The steps of the client, grouped by what they do.
LEMMA StepCases ==
    ASSUME [Next]_vars
    PROVE  \/ \E p \in Callers : Begin(p)
           \/ \E p \in Callers : Methods(p)
           \/ \E p \in Callers : Connect(p) \/ Close(p) \/ CloseConn(p)
           \/ \E p \in Procs : SendStep(p)
           \/ LoopSteps
           \/ HandleIncoming
           \/ FlushSent
           \/ Deliver \/ HandleConnectionLoss
           \/ RecoverSteps
           \/ Consume \/ Cancel \/ Feed \/ UNCHANGED vars
<1>1. Reader \in Procs /\ Callers \subseteq Procs
  BY ReaderIsNoCaller
<1>2. ASSUME NEW p \in Callers, CallerStep(p)
      PROVE  SendStep(p) \/ Methods(p) \/ Connect(p) \/ Close(p) \/ CloseConn(p)
  BY <1>2 DEF CallerStep, Methods
<1>3. ASSUME ReaderStep
      PROVE  \/ LoopSteps \/ HandleIncoming \/ FlushSent \/ Deliver
             \/ HandleConnectionLoss \/ RecoverSteps \/ SendStep(Reader)
  BY <1>3 DEF ReaderStep, LoopSteps, RecoverSteps
<1> QED BY <1>1, <1>2, <1>3 DEF Next

LEMMA DialedStep == ASSUME Inv, [Next]_vars PROVE DialedEffect
  BY StepCases, BeginDials, MethodsStep, MethodDials, ConnectDials, SendDials,
     LoopStepsDial, HandleDials, FlushDials, LeaveDials, RecoverDials, OutsideDials

LEMMA DialedInit == Init => Dialed
<1> SUFFICES ASSUME Init PROVE Dialed
  OBVIOUS
<1>1. /\ conn = Len(link) /\ rconn = 0 /\ pc[Reader] = "top"
      /\ \A p \in Procs : out[p].conn = 0 /\ pc[p] # "write"
  BY ReaderIsNoCaller DEF Init, NoConn, NoSend
<1>2. Len(link) \in Nat
  <2>1. link = <<>> \/ link = <<"up">>
    BY DEF Init, ServerInit
  <2>2. Len(<<>>) = 0 /\ Len(<<"up">>) = 1
    OBVIOUS
  <2> QED BY <2>1, <2>2
<1> QED BY <1>1, <1>2 DEF Dialed, Recovering, Sending

\* Dialed holds in every state.
LEMMA DialedAlways == Spec => []Dialed
<1>1. Inv /\ Inv' /\ Dialed /\ [Next]_vars => Dialed'
  BY DialedStep, DialedKept
<1> QED BY <1>1, DialedInit, Inductive, PTL DEF Spec
-----------------------------------------------------------------------------
(* Commands are aimed.                                                     *)

\* On the first connection, sid s was given to channel ch.
Owned(s, ch) == s # NoSID => s \in DOMAIN subs[1] /\ subs[1][s].ch = ch

\* While there is one connection, every sid that a state or a command holds was
\* given, on that connection, to the channel that the state or the command names.
Aimed ==
    Len(link) <= 1 =>
        /\ \A o \in Objs : Owned(obj[o].sid, obj[o].name)
        /\ \A p \in Procs : Owned(out[p].sid, out[p].ch)

\* A step keeps the sids that are held, drops some, and takes in none that the
\* service gave to another channel.
AimedEffect ==
    /\ LinkStep /\ SubsKept
    /\ Len(link) <= 1 =>
         /\ \A o \in Objs : \/ obj'[o].sid = obj[o].sid /\ obj'[o].name = obj[o].name
                            \/ Owned(obj'[o].sid, obj'[o].name)
         /\ \A p \in Procs : \/ out'[p].sid = out[p].sid /\ out'[p].ch = out[p].ch
                             \/ Owned(out'[p].sid, out'[p].ch)

LEMMA OneConn == 1 \in Conns
  BY ServerAssumption DEF Conns, ServerAssumption

LEMMA AimedKept == ASSUME Inv, Aimed, AimedEffect PROVE Aimed'
<1> SUFFICES ASSUME Len(link') <= 1
             PROVE  /\ \A o \in Objs : Owned(obj[o].sid, obj[o].name)'
                    /\ \A p \in Procs : Owned(out[p].sid, out[p].ch)'
  BY DEF Aimed
<1>1. Len(link) <= 1
  BY LinkGrows DEF AimedEffect
<1>2. \A s, ch : Owned(s, ch) =>
        (s # NoSID => s \in DOMAIN subs'[1] /\ subs'[1][s].ch = ch)
  BY OneConn DEF Owned, AimedEffect, SubsKept
<1>3. \A o \in Objs : Owned(obj'[o].sid, obj'[o].name)
  BY <1>1 DEF Aimed, AimedEffect
<1>4. \A p \in Procs : Owned(out'[p].sid, out'[p].ch)
  BY <1>1 DEF Aimed, AimedEffect
<1> QED BY <1>2, <1>3, <1>4 DEF Owned

\* The only connection is the one that is read.
LEMMA FirstRead ==
    ASSUME Inv, Dialed, Len(link) <= 1, rconn # NoConn
    PROVE  rconn = 1
<1>1. rconn \in Nat \ {0} /\ Len(link) \in Nat
  BY Types, LenProperties DEF Conns, NoConn
<1>2. rconn <= Len(link)
  BY DEF Dialed
<1> QED BY <1>1, <1>2

\* What a subscribed answer to pending subscribe e does.
Subscribed(e) ==
    /\ e \in pendingInit /\ e.id = M.id /\ pendingInit' = pendingInit \ {e}
    /\ rconn \in Conns /\ M.sid \in Sids /\ M.sid \in DOMAIN subs[rconn]
    /\ subs[rconn][M.sid].ch = e.ch
    /\ e.ch \in Channels /\ UNCHANGED <<channels, force>>
    /\ LET o == channels[e.ch]
       IN  \/ o = Nil /\ Goto("check") /\ UNCHANGED <<out, sidMap, obj>>
           \/ /\ o # Nil /\ sidMap' = [sidMap EXCEPT ![M.sid] = o]
              /\ obj' = [obj EXCEPT ![o] = [obj[o] EXCEPT !.sid = M.sid, !.pending = {}]]
              /\ \/ Goto("check") /\ UNCHANGED out
                 \/ \E cmd : /\ cmd.sid = M.sid /\ cmd.ch = e.ch /\ cmd.kind = "add"
                             /\ out' = [out EXCEPT ![Reader] = cmd]
                             /\ Goto("register")

LEMMA SubscribedStep == ASSUME Inv, HandleSubscribed PROVE \E e : Subscribed(e)
<1>1. PICK e \in pendingInit :
        LET o == channels[e.ch]
            cmd == Command("add", e.ch, M.sid, obj[o].pending, FALSE)
        IN  /\ e.id = M.id
            /\ pendingInit' = pendingInit \ {e}
            /\ \/ o = Nil /\ Handled /\ UNCHANGED <<sidMap, obj>>
               \/ /\ o # Nil
                  /\ obj' = [obj EXCEPT ![o].sid = M.sid, ![o].pending = {}]
                  /\ sidMap' = [sidMap EXCEPT ![M.sid] = o]
                  /\ Handled \/ SendStart(Reader, cmd)
  BY DEF HandleSubscribed
<1> DEFINE o == channels[e.ch]
           cmd == Command("add", e.ch, M.sid, obj[o].pending, FALSE)
<1>2. Incoming("subscribed") /\ UNCHANGED <<channels, force>>
  BY DEF HandleSubscribed
<1>3. /\ rconn \in Conns /\ M \in Message /\ M.type = "subscribed"
      /\ \E n \in DOMAIN down[rconn] : M = down[rconn][n]
  BY <1>2, IncomingFacts
<1>4. M.sid \in DOMAIN subs[rconn] /\ subs[rconn][M.sid].ch = e.ch
  <2>1. PICK n \in DOMAIN down[rconn] : M = down[rconn][n]
    BY <1>3
  <2>2. down[rconn][n].type = "subscribed" /\ down[rconn][n].id = e.id
    BY <1>1, <1>3, <2>1
  <2> QED BY <1>3, <2>1, <2>2 DEF Inv, AnswersTrue
<1>5. M.sid \in Sids /\ e.ch \in Channels
  BY <1>1, <1>3, <1>4, SidsOfSubs, Types DEF Inv, Shape, TypeOK, Pending
<1>6. cmd.sid = M.sid /\ cmd.ch = e.ch /\ cmd.kind = "add"
  BY DEF Command
<1> HIDE DEF cmd
<1>7. SendStart(Reader, cmd) => /\ out' = [out EXCEPT ![Reader] = cmd]
                                /\ Goto("register")
  BY DEF SendStart, Goto
<1>8. ASSUME o # Nil, obj' = [obj EXCEPT ![o].sid = M.sid, ![o].pending = {}]
      PROVE  obj' = [obj EXCEPT ![o] = [obj[o] EXCEPT !.sid = M.sid, !.pending = {}]]
  <2>1. o \in Objs /\ obj \in [Objs -> ChannelState]
    BY <1>5, <1>8, Types
  <2> HIDE DEF o
  <2> QED BY <1>8, <2>1
<1>9. \/ o = Nil /\ Goto("check") /\ UNCHANGED <<out, sidMap, obj>>
      \/ /\ o # Nil /\ sidMap' = [sidMap EXCEPT ![M.sid] = o]
         /\ obj' = [obj EXCEPT ![o] = [obj[o] EXCEPT !.sid = M.sid, !.pending = {}]]
         /\ \/ Goto("check") /\ UNCHANGED out
            \/ SendStart(Reader, cmd)
  BY <1>1, <1>8 DEF Handled, cmd
<1>10. Subscribed(e)
  <2> HIDE DEF Goto, M
  <2> QED BY <1>1, <1>2, <1>3, <1>4, <1>5, <1>6, <1>7, <1>9, Zenon DEF Subscribed
<1> QED BY <1>10
\* The subscriptions, when the service does nothing.
LEMMA SubsAlone == ASSUME Inv, UNCHANGED subs PROVE SubsKept
  BY DEF SubsKept

\* Objects keep their sid and their name, and commands too.
HeldAlone ==
    /\ \A o \in Objs : obj'[o].sid = obj[o].sid /\ obj'[o].name = obj[o].name
    /\ \A p \in Procs : out'[p].sid = out[p].sid /\ out'[p].ch = out[p].ch

LEMMA AloneAims == ASSUME Inv, LinkStep, SubsKept, HeldAlone PROVE AimedEffect
  BY DEF AimedEffect, HeldAlone

LEMMA MethodAims ==
    ASSUME Inv, Aimed, NEW p \in Callers, MethodStep(p) PROVE AimedEffect
<1>1. UNCHANGED <<link, subs>>
  BY DEF MethodStep, MethodFrame, serverVars
<1>2. PICK cmd : Asks(cmd) /\ out' = [out EXCEPT ![p] = cmd]
  BY DEF MethodStep, ControlStep
<1>3. /\ p \in Procs /\ out'[p] = cmd
      /\ \A q \in Procs \ {p} : out'[q] = out[q]
  BY <1>2, Types, ReaderIsNoCaller
<1>4. ASSUME Len(link) <= 1 PROVE Owned(cmd.sid, cmd.ch)
  <2>1. CASE cmd.sid = NoSID
    BY <2>1 DEF Owned
  <2>2. CASE /\ cmd.ch \in Channels /\ channels[cmd.ch] # Nil
             /\ cmd.sid = obj[channels[cmd.ch]].sid
    <3>1. channels[cmd.ch] \in Objs /\ obj[channels[cmd.ch]].name = cmd.ch
      BY <2>2, Types DEF Inv, NamesMatch
    <3>2. Owned(obj[channels[cmd.ch]].sid, obj[channels[cmd.ch]].name)
      BY <1>4, <3>1 DEF Aimed
    <3> QED BY <2>2, <3>1, <3>2
  <2> QED BY <1>2, <2>1, <2>2 DEF Asks
<1>5. \A o \in Objs : \/ obj'[o].sid = obj[o].sid /\ obj'[o].name = obj[o].name
                      \/ Owned(obj'[o].sid, obj'[o].name)
  BY DEF MethodStep, HeapStep, Owned
<1> QED BY <1>1, <1>3, <1>4, <1>5, SubsAlone DEF AimedEffect, LinkStep

LEMMA ConnectAims ==
    ASSUME Inv, LinkStep, NEW p \in Callers,
           Begin(p) \/ Connect(p) \/ Close(p) \/ CloseConn(p)
    PROVE  AimedEffect
<1>1. UNCHANGED <<subs, obj>> /\ (UNCHANGED out \/ out' = [out EXCEPT ![p] = NoSend])
  BY DEF Begin, Connect, Close, CloseConn, Return, Dialled, DialFailed, stateVars,
         serverVars
<1>2. \A q \in Procs : out'[q] = out[q] \/ out'[q] = NoSend
  BY <1>1, Types
<1>3. Owned(NoSend.sid, NoSend.ch)
  BY DEF Owned, NoSend
<1> QED BY <1>1, <1>2, <1>3, SubsAlone DEF AimedEffect

\* A write that arrives adds to the subscriptions, at most.
LEMMA DeliveredFacts ==
    ASSUME Inv, NEW p \in Procs, WriteDelivered(p)
    PROVE  /\ out[p].conn \in Conns /\ Received(out[p]) /\ ServerTypeOK
           /\ Receive(out[p].conn, out[p])
<1>1. /\ ServerTypeOK /\ out[p] \in SendRecord
      /\ (out[p].kind = "none" \/ out[p].ch \in Channels)
      /\ Up(out[p].conn) /\ Receive(out[p].conn, out[p])
  BY DEF Inv, Shape, TypeOK, CommandShape, WriteDelivered
<1>2. out[p].conn \in 1..Len(link) /\ out[p].conn \in Conns \cup {NoConn}
  BY <1>1, LenProperties DEF Up, ServerTypeOK, SendRecord
<1>3. Received(out[p])
  BY <1>1 DEF Received, SendRecord, NoSID
<1> QED BY <1>1, <1>2, <1>3 DEF NoConn

LEMMA SendAims == ASSUME Inv, LinkStep, NEW p \in Procs, SendStep(p) PROVE AimedEffect
<1>1. UNCHANGED obj
  BY DEF SendStep, Register, GrabConn, WriteDelivered, WriteLost, WriteTimeout,
         Written, SendFrame, stateVars
<1>2. SubsKept
  <2>1. CASE WriteDelivered(p)
    BY <2>1, DeliveredFacts, ReceiveStep DEF Enqueues
  <2>2. CASE Register(p) \/ GrabConn(p) \/ WriteLost(p) \/ WriteTimeout(p)
    BY <2>2, SubsAlone DEF Register, GrabConn, WriteLost, WriteTimeout, serverVars
  <2> QED BY <2>1, <2>2 DEF SendStep
<1>3. \A q \in Procs : out'[q].sid = out[q].sid /\ out'[q].ch = out[q].ch
  <2>1. \/ \E ok : out' = [out EXCEPT ![p].ok = ok]
        \/ out' = [out EXCEPT ![p].id = NextID]
        \/ out' = [out EXCEPT ![p].conn = conn]
    BY Zenon DEF SendStep, Register, GrabConn, WriteDelivered, WriteLost,
       WriteTimeout, Written
  <2>2. out \in [Procs -> SendRecord] /\ out[p] \in SendRecord
    BY Types
  <2>3. ASSUME NEW ok, out' = [out EXCEPT ![p].ok = ok]
        PROVE  \A q \in Procs : out'[q].sid = out[q].sid /\ out'[q].ch = out[q].ch
    BY <2>2, <2>3 DEF SendRecord
  <2>4. CASE out' = [out EXCEPT ![p].id = NextID]
    BY <2>2, <2>4 DEF SendRecord
  <2>5. CASE out' = [out EXCEPT ![p].conn = conn]
    BY <2>2, <2>5 DEF SendRecord
  <2> QED BY <2>1, <2>3, <2>4, <2>5
<1> QED BY <1>1, <1>2, <1>3, AloneAims DEF HeldAlone

LEMMA LoopAims == ASSUME Inv, LinkStep, LoopSteps PROVE AimedEffect
<1>1. LoopFrame
  BY DEF LoopSteps, LoopTop, Dial, Wait, EnterReadLoop, ReadError, CheckForce,
         LoopLeaves, WaitLoss, Redial
<1>2. UNCHANGED subs
  BY DEF LoopSteps, LoopTop, Dial, Wait, EnterReadLoop, ReadError, CheckForce,
         LoopLeaves, WaitLoss, Redial, Dialled, DialFailed, serverVars
<1> QED BY <1>1, <1>2, SubsAlone, AloneAims DEF LoopFrame, stateVars, HeldAlone

\* The number and the markets of a state change, not its sid.
LEMMA HandlersKeep ==
    ASSUME Inv, HandleIncoming, ~HandleSubscribed
    PROVE  /\ UNCHANGED <<channels, pendingInit, out, subs>>
           /\ \A o \in Objs : /\ obj'[o].sid = obj[o].sid /\ obj'[o].name = obj[o].name
                              /\ obj'[o].pending = obj[o].pending
<1>1. UNCHANGED subs
  BY HandlesStep DEF Handles
<1>2. CASE HandleUnknownId \/ HandleUnsubscribed \/ HandleError
  BY <1>1, <1>2 DEF HandleUnknownId, HandleUnsubscribed, HandleError, Handled, stateVars
<1>3. CASE HandleOK
  <2> DEFINE o == StateOf(M.sid)
  <2>1. /\ UNCHANGED <<channels, pendingInit, out>>
        /\ UNCHANGED obj \/ (o # Nil /\ obj' = [obj EXCEPT ![o] = Reconciled(o)])
    BY <1>3 DEF HandleOK, Handled
  <2>2. CASE o # Nil /\ obj' = [obj EXCEPT ![o] = Reconciled(o)]
    <3>1. o \in Objs /\ obj[o] \in ChannelState
      BY <2>2, StateOfType
    <3>2. /\ Reconciled(o).sid = obj[o].sid /\ Reconciled(o).name = obj[o].name
          /\ Reconciled(o).pending = obj[o].pending
      BY <3>1 DEF Reconciled, ChannelState
    <3> HIDE DEF o
    <3> QED BY <1>1, <2>1, <2>2, <3>1, <3>2, Types
  <2> QED BY <1>1, <2>1, <2>2
<1>4. CASE HandleDataMessage
  <2> DEFINE o == StateOf(M.sid)
             state == [obj[o] EXCEPT !.seq = M.seq]
  <2>1. /\ UNCHANGED <<channels, pendingInit, out>>
        /\ UNCHANGED obj \/ (o # Nil /\ obj' = [obj EXCEPT ![o].seq = M.seq])
    BY <1>4 DEF HandleDataMessage, Handled
  <2>2. CASE o # Nil /\ obj' = [obj EXCEPT ![o].seq = M.seq]
    <3>1. o \in Objs /\ obj[o] \in ChannelState
      BY <2>2, StateOfType
    <3>2. /\ state.sid = obj[o].sid /\ state.name = obj[o].name
          /\ state.pending = obj[o].pending
      BY <3>1 DEF ChannelState
    <3>3. obj' = [obj EXCEPT ![o] = state]
      BY <2>2, <3>1, Types
    <3> HIDE DEF o, state
    <3> QED BY <1>1, <2>1, <3>1, <3>2, <3>3, Types
  <2> QED BY <1>1, <2>1, <2>2
<1> QED BY <1>2, <1>3, <1>4 DEF HandleIncoming

LEMMA HandleAims == ASSUME Inv, Dialed, LinkStep, HandleIncoming PROVE AimedEffect
<1>1. SubsKept
  BY HandlesStep, SubsAlone DEF Handles
<1>2. CASE ~HandleSubscribed
  BY <1>1, <1>2, HandlersKeep, AloneAims DEF HeldAlone
<1>3. CASE HandleSubscribed
  <2>1. PICK e : Subscribed(e)
    BY <1>3, SubscribedStep
  <2> DEFINE o == channels[e.ch]
  <2>2. ASSUME Len(link) <= 1 PROVE Owned(M.sid, e.ch)
    <3>1. rconn = 1
      BY <2>1, <2>2, FirstRead DEF Subscribed, Conns, NoConn
    <3> QED BY <2>1, <3>1 DEF Subscribed, Owned
  <2>3. CASE UNCHANGED <<out, obj>>
    BY <1>1, <2>3, AloneAims DEF HeldAlone
  <2>4. CASE /\ o # Nil
             /\ obj' = [obj EXCEPT ![o] = [obj[o] EXCEPT !.sid = M.sid, !.pending = {}]]
             /\ UNCHANGED out \/ \E cmd : /\ cmd.sid = M.sid /\ cmd.ch = e.ch
                                          /\ out' = [out EXCEPT ![Reader] = cmd]
    <3>1. o \in Objs /\ obj[o] \in ChannelState /\ obj[o].name = e.ch
      BY <2>1, <2>4, Types DEF Subscribed, Inv, NamesMatch
    <3>2. /\ obj'[o].sid = M.sid /\ obj'[o].name = e.ch
          /\ \A q \in Objs \ {o} : obj'[q] = obj[q]
      BY <2>4, <3>1, Types DEF ChannelState
    <3>3. \A p \in Procs : out'[p] = out[p] \/ (out'[p].sid = M.sid /\ out'[p].ch = e.ch)
      BY <2>4, Types
    <3> HIDE DEF o, M
    <3> QED BY <1>1, <2>2, <3>2, <3>3 DEF AimedEffect
  <2> QED BY <2>1, <2>3, <2>4 DEF Subscribed
<1> QED BY <1>2, <1>3

LEMMA FlushAims == ASSUME Inv, Aimed, LinkStep, FlushSent PROVE AimedEffect
<1> DEFINE cmd == Command("add", out[Reader].ch, out[Reader].sid, obj[flushing].pending, FALSE)
<1>1. /\ UNCHANGED subs /\ Reader \in Procs
      /\ UNCHANGED obj \/ obj' = [obj EXCEPT ![flushing].pending = {}]
      /\ \/ out' = [out EXCEPT ![Reader] = cmd]
         \/ out' = [out EXCEPT ![Reader] = NoSend]
  BY ReaderIsNoCaller DEF FlushSent, serverVars, SendStart
<1>2. cmd.sid = out[Reader].sid /\ cmd.ch = out[Reader].ch
  BY DEF Command
<1>3. Owned(NoSend.sid, NoSend.ch)
  BY DEF Owned, NoSend
<1> HIDE DEF cmd
<1>4. \A p \in Procs : \/ out'[p].sid = out[p].sid /\ out'[p].ch = out[p].ch
                       \/ Owned(out'[p].sid, out'[p].ch)
  BY <1>1, <1>2, <1>3, Types
<1>5. \A o \in Objs : obj'[o].sid = obj[o].sid /\ obj'[o].name = obj[o].name
  <2>1. CASE UNCHANGED obj
    BY <2>1
  <2>2. CASE obj' = [obj EXCEPT ![flushing].pending = {}]
    <3>1. \A o \in Objs :
            obj'[o] = IF o = flushing THEN [obj[o] EXCEPT !.pending = {}] ELSE obj[o]
      BY <2>2, Types
    <3>2. \A o \in Objs : /\ [obj[o] EXCEPT !.pending = {}].sid = obj[o].sid
                         /\ [obj[o] EXCEPT !.pending = {}].name = obj[o].name
      BY Types DEF ChannelState
    <3> QED BY <3>1, <3>2
  <2> QED BY <1>1, <2>1, <2>2
<1> QED BY <1>1, <1>4, <1>5, SubsAlone DEF AimedEffect

LEMMA LeaveAims ==
    ASSUME Inv, LinkStep, Deliver \/ HandleConnectionLoss PROVE AimedEffect
<1>1. UNCHANGED <<subs, out>>
  BY DEF Deliver, HandleConnectionLoss, serverVars
<1>2. \A o \in Objs : \/ obj'[o].sid = obj[o].sid /\ obj'[o].name = obj[o].name
                      \/ obj'[o].sid = NoSID
  <2>1. CASE Deliver
    BY <2>1 DEF Deliver, stateVars
  <2>2. CASE HandleConnectionLoss
    <3>1. \A o \in Objs : obj'[o] = obj[o] \/ obj'[o] = Forgotten(obj[o])
      BY <2>2 DEF HandleConnectionLoss
    <3>2. \A o \in Objs : Forgotten(obj[o]).sid = NoSID
      BY Types DEF Forgotten, ChannelState
    <3> QED BY <3>1, <3>2
  <2> QED BY <2>1, <2>2
<1> QED BY <1>1, <1>2, SubsAlone DEF AimedEffect, Owned

LEMMA RecoverAims == ASSUME Inv, Dialed, LinkStep, RecoverSteps PROVE AimedEffect
<1>1. UNCHANGED subs
  BY DEF RecoverSteps, RecoverStart, RecoverEnd, RecoverSent, RecoverNext,
         RecoverFrame, serverVars
<1>2. Len(link) \in Nat /\ Len(link) >= 2
  BY RecoverDials, LinkGrows DEF Dialed
<1>3. ~(Len(link) <= 1)
  BY <1>2
<1> QED BY <1>1, <1>3, SubsAlone DEF AimedEffect

LEMMA OutsideAims ==
    ASSUME Inv, LinkStep, Consume \/ Cancel \/ Feed \/ UNCHANGED vars PROVE AimedEffect
<1>1. UNCHANGED <<obj, out>>
  BY DEF Consume, Cancel, Feed, vars, clientVars, procVars, stateVars
<1>2. SubsKept
  <2>1. CASE Feed
    BY <2>1, FeedStep DEF Feed, Inv, Shape, TypeOK
  <2>2. CASE Consume \/ Cancel \/ UNCHANGED vars
    BY <2>2, SubsAlone DEF Consume, Cancel, vars, serverVars
  <2> QED BY <2>1, <2>2
<1> QED BY <1>1, <1>2, AloneAims DEF HeldAlone

LEMMA AimedStep == ASSUME Inv, Dialed, Aimed, [Next]_vars PROVE Aimed'
<1>1. LinkStep
  BY DialedStep DEF DialedEffect
<1>2. AimedEffect
  BY <1>1, StepCases, MethodsStep, MethodAims, ConnectAims, SendAims, LoopAims,
     HandleAims, FlushAims, LeaveAims, RecoverAims, OutsideAims
<1> QED BY <1>2, AimedKept

LEMMA AimedInit == Init => Aimed
<1> SUFFICES ASSUME Init PROVE Aimed
  OBVIOUS
<1>1. \A o \in Objs : obj[o].sid = NoSID
  BY DEF Init, NewChannelState
<1>2. \A p \in Procs : out[p].sid = NoSID
  BY DEF Init, NoSend
<1> QED BY <1>1, <1>2 DEF Aimed, Owned

\* As long as the client has had one connection, whatever is called from however
\* many goroutines and whatever fails, an update or unsubscribe that is about to be
\* written names no subscription of another channel than the caller asked about.
THEOREM FirstConnectionAimed == Spec => [](Len(link) <= 1 => CommandsAimed)
<1>1. Inv /\ Inv' /\ Dialed /\ Aimed /\ [Next]_vars => Aimed'
  BY AimedStep
<1>2. Inv /\ Dialed /\ Aimed => (Len(link) <= 1 => CommandsAimed)
  <2> SUFFICES ASSUME Inv, Dialed, Aimed, Len(link) <= 1, NEW p \in Procs,
                      pc[p] = "write", out[p].sid # NoSID
               PROVE  /\ out[p].sid \in DOMAIN subs[out[p].conn]
                      /\ subs[out[p].conn][out[p].sid].ch = out[p].ch
    BY DEF CommandsAimed
  <2>1. out[p].conn \in Nat /\ out[p].conn # 0 /\ out[p].conn <= Len(link)
       /\ Len(link) \in Nat
    BY Types, LenProperties DEF Dialed, SendRecord, Conns, NoConn
  <2>2. out[p].conn = 1
    BY <2>1
  <2>3. Owned(out[p].sid, out[p].ch)
    BY DEF Aimed
  <2> QED BY <2>2, <2>3 DEF Owned
<1> QED BY <1>1, <1>2, AimedInit, DialedAlways, Inductive, PTL DEF Spec
-----------------------------------------------------------------------------
(* Queued tickers wait for an answer.                                      *)

\* A service that answers every command over one connection that stays up, and no
\* write that times out.
Reliable == Connected /\ ~MayReject /\ ~MayTimeout

\* A connection was dialled.
Linked == Len(link) # 0

\* Only the connection that Connect dialled, and it is up.
OnlyFirst == link = <<"up">>

InFlight(e) == \E p \in Procs : out[p].id = e.id /\ pc[p] \in {"grab", "write"}
Answered(e) ==
    \E i \in DOMAIN down[1] : down[1][i].type = "subscribed" /\ down[1][i].id = e.id
Underway(e) == InFlight(e) \/ Answered(e)

\* Tickers are queued for channels with a pending subscribe only.
Covered ==
    \A ch \in Channels :
        channels[ch] # Nil /\ obj[channels[ch]].pending # {} => IsPending(ch)

\* While the client uses its first connection, every pending subscribe is on its way
\* to the service or answered.
Queue ==
    OnlyFirst =>
        /\ conn = NoConn => rconn = NoConn
        /\ conn # NoConn => Covered /\ \A e \in pendingInit : Underway(e)

\* What a step that leaves the only connection up does to them.
QueueEffect ==
    /\ conn' # NoConn => conn # NoConn
    /\ conn' = NoConn => conn = NoConn \/ rconn' = NoConn
    /\ conn' # NoConn /\ Covered => Covered'
    /\ conn' # NoConn =>
         \A e \in pendingInit' : Underway(e)' \/ (e \in pendingInit /\ ~Underway(e))

\* The only connection stays the only one, and is up from the start.
Alone == OnlyFirst /\ OnlyFirst'

LEMMA OnlyFacts ==
    ASSUME Inv, Dialed, OnlyFirst
    PROVE  /\ Len(link) = 1 /\ Up(1) /\ ~Recovering
           /\ \A k \in Conns : k <= Len(link) => k = 1
           /\ conn # NoConn => conn = 1
           /\ \A p \in Procs : pc[p] = "write" => out[p].conn = 1
<1>1. Len(link) = 1 /\ DOMAIN link = {1} /\ link[1] = "up"
  <2>1. Len(<<"up">>) = 1 /\ DOMAIN <<"up">> = {1} /\ <<"up">>[1] = "up"
    OBVIOUS
  <2> QED BY <2>1 DEF OnlyFirst
<1>2. \A k \in Conns : k \in Nat \ {0}
  BY DEF Conns
<1>3. \A k \in Conns : k <= Len(link) => k = 1
  BY <1>1, <1>2
<1>4. conn \in Conns \cup {NoConn} /\ \A p \in Procs : out[p].conn \in Conns \cup {NoConn}
  BY Types DEF SendRecord
<1>5. ~Recovering
  BY <1>1 DEF Dialed
<1> QED BY <1>1, <1>3, <1>4, <1>5 DEF Dialed, Up

LEMMA QueueKept ==
    ASSUME Inv, Dialed, DialedEffect, Queue, Len(link) # 0,
           Alone => QueueEffect
    PROVE  Queue'
<1> SUFFICES ASSUME OnlyFirst'
             PROVE  /\ conn' = NoConn => rconn' = NoConn
                    /\ conn' # NoConn => Covered' /\ \A e \in pendingInit' : Underway(e)'
  BY DEF Queue
<1>1. OnlyFirst /\ QueueEffect
  BY LinkGrows DEF DialedEffect, OnlyFirst, Alone
<1>2. rconn' \in {rconn, conn, NoConn}
  BY DEF DialedEffect
<1> QED BY <1>1, <1>2 DEF Queue, QueueEffect

\* Messages read or sent on connection 1 other than answers to a subscribe.
NoAnswerRead ==
    \A i \in DOMAIN down[1] :
        \E n \in DOMAIN down'[1] : down'[1][n] = down[1][i]

\* Whoever is writing goes on writing.
SendersKept ==
    \A p \in Procs : pc[p] \in {"grab", "write"} => pc'[p] = pc[p] /\ out'[p] = out[p]

LEMMA UnderwayKept ==
    ASSUME SendersKept, NoAnswerRead, NEW e, Underway(e)
    PROVE  Underway(e)'
<1>1. CASE InFlight(e)
  BY <1>1 DEF InFlight, SendersKept, Underway
<1>2. CASE Answered(e)
  BY <1>2 DEF Answered, NoAnswerRead, Underway
<1> QED BY <1>1, <1>2 DEF Underway

LEMMA CoveredAlone ==
    ASSUME Inv, Covered, UNCHANGED channels, pendingInit \subseteq pendingInit',
           \A o \in Objs : obj'[o].pending \in {obj[o].pending, {}}
    PROVE  Covered'
<1>1. \A ch \in Channels : channels[ch] # Nil => channels[ch] \in Objs
  BY Types
<1> QED BY <1>1 DEF Covered, IsPending

\* One goroutine that is not writing moves, and takes no pending subscribe away but
\* with its channel.
LEMMA QueueAlone ==
    ASSUME NEW p \in Procs, pc[p] \notin {"grab", "write"},
           \A q \in Procs \ {p} : pc'[q] = pc[q] /\ out'[q] = out[q]
    PROVE  SendersKept
  BY DEF SendersKept

LEMMA BeginQueue ==
    ASSUME Inv, NEW p \in Callers, Begin(p) \/ Methods(p) PROVE QueueEffect
<1>0. p \in Procs
  BY ReaderIsNoCaller
<1>1. CASE Begin(p)
  <2>1. /\ UNCHANGED <<conn, channels, obj, pendingInit, out, down>>
        /\ pc[p] = "idle" /\ pc' = [pc EXCEPT ![p] = "section"]
    BY <1>1 DEF Begin, stateVars, serverVars, cmdVars
  <2>2. SendersKept
    BY <1>0, <2>1, Types, QueueAlone
  <2>3. NoAnswerRead
    BY <2>1 DEF NoAnswerRead
  <2>4. Covered => Covered'
    BY <2>1, CoveredAlone
  <2> QED BY <2>1, <2>2, <2>3, <2>4, UnderwayKept DEF QueueEffect
<1>2. CASE Methods(p)
  <2>1. MethodStep(p)
    BY <1>2, MethodsStep
  <2>2. UNCHANGED <<conn, down>> /\ pendingInit' \subseteq pendingInit
    BY <2>1 DEF MethodStep, MethodFrame, serverVars, HeapStep
  <2>3. SendersKept
    <3>1. /\ pc[p] \in {"section", "finish"}
          /\ \E l : pc' = [pc EXCEPT ![p] = l]
          /\ \E cmd : out' = [out EXCEPT ![p] = cmd]
      BY <2>1 DEF MethodStep, ControlStep
    <3> QED BY <1>0, <3>1, Types, QueueAlone
  <2>4. NoAnswerRead
    BY <2>2 DEF NoAnswerRead
  <2>5. ASSUME Covered, NEW ch \in Channels, channels'[ch] # Nil,
               obj'[channels'[ch]].pending # {}
        PROVE  \E e \in pendingInit' : e.ch = ch
    <3>1. \A e \in pendingInit : e \notin pendingInit' => channels'[e.ch] = Nil
      BY <2>1 DEF MethodStep, HeapStep
    <3>2. \/ \E e \in pendingInit' : e.ch = ch
          \/ /\ channels[ch] = channels'[ch]
             /\ obj'[channels'[ch]].pending = obj[channels'[ch]].pending
      BY <2>1, <2>5 DEF MethodStep, HeapStep
    <3>3. CASE /\ channels[ch] = channels'[ch]
               /\ obj'[channels'[ch]].pending = obj[channels'[ch]].pending
      <4>1. PICK e \in pendingInit : e.ch = ch
        BY <2>5, <3>3 DEF Covered, IsPending
      <4> QED BY <2>5, <3>1, <4>1
    <3> QED BY <3>2, <3>3
  <2>6. Covered => Covered'
    BY <2>5 DEF Covered, IsPending
  <2> QED BY <2>2, <2>3, <2>4, <2>6, UnderwayKept DEF QueueEffect
<1> QED BY <1>1, <1>2

\* Dialling a second connection, or closing the first, leaves it not alone.
LEMMA NoneDialled ==
    ASSUME Inv, Alone PROVE ~Dialled
<1>1. link \in Seq(LinkStates) /\ Len(link) \in Nat
  BY Types, LenProperties
<1>2. link' = Append(link, "up") => Len(link') = Len(link) + 1
  BY <1>1, AppendProperties DEF LinkStates
<1>3. Len(link') = Len(link)
  BY DEF Alone, OnlyFirst
<1> QED BY <1>1, <1>2, <1>3 DEF Dialled, Open

LEMMA ConnectQueue ==
    ASSUME Inv, Dialed, Alone, NEW p \in Callers, Connect(p) \/ Close(p) \/ CloseConn(p)
    PROVE  QueueEffect
<1>0. p \in Procs
  BY ReaderIsNoCaller
<1>1. /\ UNCHANGED <<channels, obj, pendingInit, down>>
      /\ pc[p] \in {"section", "closing"} /\ \E l : pc' = [pc EXCEPT ![p] = l]
      /\ UNCHANGED out \/ \E cmd : out' = [out EXCEPT ![p] = cmd]
  BY DEF Connect, Close, CloseConn, InSection, Return, stateVars, cmdVars, serverVars,
         Dialled, DialFailed
<1>2. SendersKept
  BY <1>0, <1>1, Types, QueueAlone
<1>3. NoAnswerRead
  BY <1>1 DEF NoAnswerRead
<1>4. Covered => Covered'
  BY <1>1, CoveredAlone
<1>5. UNCHANGED conn
  <2>1. CASE Connect(p)
    BY <2>1, NoneDialled DEF Connect, DialFailed
  <2>2. CASE Close(p)
    BY <2>2 DEF Close
  <2>3. CASE CloseConn(p)
    <3>1. conn' = NoConn /\ SetLink(conn, "closed")
      BY <2>3 DEF CloseConn
    <3>2. CASE conn = 1
      <4>1. Up(1) /\ link' = [link EXCEPT ![1] = "closed"]
        BY <3>1, <3>2, OnlyFacts DEF SetLink, Alone
      <4>2. link'[1] = "closed"
        BY <4>1 DEF Up
      <4>3. <<"up">>[1] = "up"
        OBVIOUS
      <4> QED BY <4>2, <4>3 DEF Alone, OnlyFirst
    <3> QED BY <3>1, <3>2, OnlyFacts DEF Alone
  <2> QED BY <2>1, <2>2, <2>3
<1> QED BY <1>1, <1>2, <1>3, <1>4, <1>5, UnderwayKept DEF QueueEffect

\* Dialling leaves the loop's connection as it is, when there is no second one.
LEMMA LoopQueue == ASSUME Inv, Alone, LoopSteps PROVE QueueEffect
<1>1. /\ LoopFrame /\ UNCHANGED down /\ Reader \in Procs
      /\ pc[Reader] \in {"top", "dial", "wait", "enter", "read", "check", "returned",
                         "waitLoss", "redial"}
  BY ReaderIsNoCaller
     DEF LoopSteps, LoopTop, Dial, Wait, EnterReadLoop, ReadError, CheckForce,
         LoopLeaves, WaitLoss, Redial, Dialled, DialFailed, serverVars, At
<1>2. UNCHANGED conn
  BY NoneDialled DEF LoopSteps, LoopTop, Dial, Wait, EnterReadLoop, ReadError,
     CheckForce, LoopLeaves, WaitLoss, Redial, DialFailed
<1>3. \E l : Goto(l)
  BY Zenon DEF LoopSteps, LoopTop, Dial, Wait, EnterReadLoop, ReadError, CheckForce,
     LoopLeaves, WaitLoss, Redial
<1>4. UNCHANGED <<channels, obj, pendingInit, out>>
  BY <1>1 DEF LoopFrame, stateVars, cmdVars
<1>5. SendersKept
  BY <1>1, <1>3, <1>4, Types, QueueAlone DEF Goto
<1>6. NoAnswerRead
  BY <1>1 DEF NoAnswerRead
<1>7. Covered => Covered'
  BY <1>4, CoveredAlone
<1> QED BY <1>2, <1>4, <1>5, <1>6, <1>7, UnderwayKept DEF QueueEffect

\* What was sent stays, and one message may follow.
LEMMA EnqueuedStays ==
    ASSUME Inv, NEW k \in Conns, NEW m, Enqueued(k, m)
    PROVE  NoAnswerRead /\ (k = 1 => \E n \in DOMAIN down'[1] : down'[1][n] = m)
<1>1. down \in [Conns -> Seq(Message)] /\ 1 \in Conns
  BY Types, OneConn
<1>2. CASE k = 1
  <2>1. down'[1] = Append(down[1], m)
    BY <1>1, <1>2 DEF Enqueued
  <2>2. /\ DOMAIN down[1] = 1..Len(down[1]) /\ Len(down[1]) \in Nat
        /\ DOMAIN Append(down[1], m) = 1..(Len(down[1]) + 1)
        /\ \A i \in 1..Len(down[1]) : Append(down[1], m)[i] = down[1][i]
        /\ Append(down[1], m)[Len(down[1]) + 1] = m
    BY <1>1, AppendProperties, LenProperties
  <2>3. \A i \in 1..Len(down[1]) : i \in 1..(Len(down[1]) + 1)
    BY <2>2
  <2>4. Len(down[1]) + 1 \in 1..(Len(down[1]) + 1)
    BY <2>2
  <2>5. NoAnswerRead
    BY <2>1, <2>2, <2>3 DEF NoAnswerRead
  <2> QED BY <2>1, <2>2, <2>4, <2>5
<1>3. CASE k # 1
  <2>1. down'[1] = down[1]
    BY <1>1, <1>3 DEF Enqueued
  <2> QED BY <1>3, <2>1 DEF NoAnswerRead
<1> QED BY <1>2, <1>3

LEMMA SendQueue ==
    ASSUME Inv, Dialed, Alone, ~MayReject, ~MayTimeout, NEW p \in Procs, SendStep(p)
    PROVE  QueueEffect
<1>1. UNCHANGED <<conn, channels, obj>> /\ pendingInit \subseteq pendingInit'
  BY DEF SendStep, Register, GrabConn, WriteDelivered, WriteLost, WriteTimeout,
         Written, SendFrame, stateVars, cmdVars
<1>2. Covered => Covered'
  BY <1>1, CoveredAlone
<1>3. out \in [Procs -> SendRecord] /\ pc \in [Procs -> CallerLabels \cup ReaderLabels]
     /\ out[p] \in SendRecord
  BY Types
<1>4. CASE Register(p)
  <2>1. /\ pc[p] = "register" /\ pc' = [pc EXCEPT ![p] = "grab"]
        /\ out' = [out EXCEPT ![p].id = NextID] /\ UNCHANGED down
        /\ \A e \in pendingInit' : e \in pendingInit \/ e.id = NextID
    BY <1>4 DEF Register, serverVars
  <2>2. out'[p].id = NextID /\ pc'[p] = "grab"
    BY <1>3, <2>1 DEF SendRecord
  <2>3. SendersKept
    BY <1>3, <2>1, QueueAlone
  <2>4. NoAnswerRead
    BY <2>1 DEF NoAnswerRead
  <2>5. ASSUME NEW e \in pendingInit', e \notin pendingInit PROVE Underway(e)'
    BY <2>1, <2>2, <2>5 DEF Underway, InFlight
  <2> QED BY <1>1, <1>2, <2>3, <2>4, <2>5, UnderwayKept DEF QueueEffect
<1>5. CASE GrabConn(p)
  <2>1. /\ pc[p] = "grab" /\ (conn # NoConn => pc' = [pc EXCEPT ![p] = "write"])
        /\ out' = [out EXCEPT ![p].conn = conn] /\ UNCHANGED <<down, pendingInit>>
    BY <1>5 DEF GrabConn, serverVars, cmdVars
  <2>2. \A q \in Procs : out'[q].id = out[q].id
    BY <1>3, <2>1 DEF SendRecord
  <2>3. conn # NoConn =>
          \A q \in Procs : pc[q] \in {"grab", "write"} => pc'[q] \in {"grab", "write"}
    BY <1>3, <2>1
  <2>4. ASSUME conn # NoConn, NEW e, Underway(e) PROVE Underway(e)'
    BY <2>1, <2>2, <2>3, <2>4 DEF Underway, InFlight, Answered
  <2> QED BY <1>1, <1>2, <2>1, <2>4 DEF QueueEffect
<1>6. CASE WriteDelivered(p)
  <2>1. /\ pc[p] = "write" /\ UNCHANGED pendingInit
        /\ \E l : pc' = [pc EXCEPT ![p] = l]
        /\ \E ok : out' = [out EXCEPT ![p].ok = ok]
    BY <1>6 DEF WriteDelivered, Written, cmdVars
  <2>2. out[p].conn = 1
    BY <2>1, OnlyFacts DEF Alone
  <2>3. PICK m : Enqueues(out[p].conn, m)
    BY <1>6, DeliveredFacts, ReceiveStep
  <2>4. NoAnswerRead
    BY <1>6, <2>3, DeliveredFacts, EnqueuedStays DEF Enqueues
  <2>5. ASSUME NEW e \in pendingInit, out[p].id = e.id PROVE Answered(e)'
    <3>1. out[p].kind = "subscribe"
      BY <2>5 DEF Inv, IdsUnique
    <3>2. AcceptSubscribe(out[p].conn, out[p])
      BY <1>6, <3>1 DEF WriteDelivered, Receive, AcceptUpdate, AcceptSnapshot,
                       AcceptUnsubscribe, Reject, UnknownSid
    <3> DEFINE n == Msg("subscribed", out[p].id, Len(subs[out[p].conn]) + 1, 0, {})
    <3>3. Enqueued(out[p].conn, n) /\ n.type = "subscribed" /\ n.id = out[p].id
      BY <3>2 DEF AcceptSubscribe, Enqueued, Msg
    <3> HIDE DEF n
    <3>4. \E i \in DOMAIN down'[1] : down'[1][i] = n
      BY <2>2, <3>3, OneConn, EnqueuedStays
    <3> QED BY <2>5, <3>3, <3>4 DEF Answered
  <2>6. \A q \in Procs : q # p => pc'[q] = pc[q] /\ out'[q] = out[q]
    BY <1>3, <2>1
  <2>7. ASSUME NEW e \in pendingInit, Underway(e) PROVE Underway(e)'
    <3>1. CASE out[p].id = e.id
      BY <2>5, <3>1 DEF Underway
    <3>2. CASE out[p].id # e.id /\ InFlight(e)
      BY <2>6, <3>2 DEF InFlight, Underway
    <3>3. CASE Answered(e)
      BY <2>4, <3>3 DEF Answered, NoAnswerRead, Underway
    <3> QED BY <2>7, <3>1, <3>2, <3>3 DEF Underway
  <2> QED BY <1>1, <1>2, <2>1, <2>7 DEF QueueEffect
<1>7. CASE WriteLost(p)
  BY <1>7, OnlyFacts DEF WriteLost, Alone
<1>8. CASE WriteTimeout(p)
  <2>1. pc[Reader] = "write" /\ out[Reader].kind = "subscribe"
    BY <1>8 DEF WriteTimeout
  <2> QED BY <2>1, OnlyFacts DEF Alone, Recovering, Sending
<1> QED BY <1>4, <1>5, <1>6, <1>7, <1>8 DEF SendStep

\* Reading takes one message, the first.
LEMMA HeadTaken ==
    ASSUME Inv, Dialed, Alone, NEW type, Incoming(type)
    PROVE  /\ rconn = 1 /\ M.type = type /\ M = down[1][1]
           /\ \A i \in DOMAIN down[1] :
                i = 1 \/ \E n \in DOMAIN down'[1] : down'[1][n] = down[1][i]
<1>1. rconn = 1
  <2>1. Len(link) <= 1
    BY OnlyFacts DEF Alone
  <2> QED BY <2>1, IncomingFacts, FirstRead
<1>2. /\ down[1] # <<>> /\ M.type = type /\ down \in [Conns -> Seq(Message)]
      /\ down' = [down EXCEPT ![1] = Tail(down[1])] /\ 1 \in Conns
  BY <1>1, Types, OneConn DEF Incoming, M
<1>3. /\ down[1] \in Seq(Message) /\ Len(down[1]) \in Nat \ {0}
      /\ DOMAIN down[1] = 1..Len(down[1])
  <2>1. down[1] \in Seq(Message)
    BY <1>2
  <2> QED BY <1>2, <2>1, LenProperties, EmptySeq
<1>4. /\ Head(down[1]) = down[1][1] /\ Len(Tail(down[1])) = Len(down[1]) - 1
      /\ Tail(down[1]) \in Seq(Message)
      /\ \A i \in 1..Len(Tail(down[1])) : Tail(down[1])[i] = down[1][i + 1]
  BY <1>2, <1>3, HeadTailProperties
<1>5. DOMAIN Tail(down[1]) = 1..(Len(down[1]) - 1)
  BY <1>4, LenProperties
<1>6. \A i \in DOMAIN down[1] : i # 1 =>
        i - 1 \in DOMAIN Tail(down[1]) /\ Tail(down[1])[i - 1] = down[1][i]
  BY <1>3, <1>4, <1>5
<1>7. down'[1] = Tail(down[1])
  BY <1>2
<1> QED BY <1>1, <1>2, <1>4, <1>6, <1>7 DEF M

LEMMA HandleQueue ==
    ASSUME Inv, Dialed, Alone, HandleIncoming PROVE QueueEffect
<1>1. Handles /\ Reader \in Procs
  BY HandlesStep, ReaderIsNoCaller
<1>2. UNCHANGED conn /\ SendersKept
  <2>1. /\ pc[Reader] = "read" /\ \E l : pc' = [pc EXCEPT ![Reader] = l]
        /\ UNCHANGED out \/ \E cmd : out' = [out EXCEPT ![Reader] = cmd]
    BY <1>1 DEF Handles, Goto, SendStart
  <2> QED BY <1>1, <2>1, Types, QueueAlone DEF Handles
<1>3. PICK type : Incoming(type)
  BY DEF HandleIncoming, HandleSubscribed, HandleUnknownId, HandleOK,
         HandleUnsubscribed, HandleError, HandleDataMessage
<1>4. /\ M.type = type /\ M = down[1][1]
      /\ \A i \in DOMAIN down[1] :
           i = 1 \/ \E n \in DOMAIN down'[1] : down'[1][n] = down[1][i]
  BY <1>3, HeadTaken
<1>5. ASSUME NEW e \in pendingInit, M.type = "subscribed" => M.id # e.id, Underway(e)
      PROVE  Underway(e)'
  <2>1. CASE InFlight(e)
    BY <1>2, <2>1 DEF InFlight, SendersKept, Underway
  <2>2. CASE Answered(e)
    BY <1>4, <1>5, <2>2 DEF Answered, Underway
  <2> QED BY <1>5, <2>1, <2>2 DEF Underway
<1>6. CASE HandleSubscribed
  <2>1. PICK e : Subscribed(e)
    BY <1>6, SubscribedStep
  <2>2. /\ e \in pendingInit /\ e.id = M.id /\ pendingInit' = pendingInit \ {e}
        /\ e.ch \in Channels /\ UNCHANGED channels
    BY <2>1 DEF Subscribed
  <2>3. \A f \in pendingInit' : f \in pendingInit /\ f.id # M.id
    BY <2>2 DEF Inv, IdsUnique
  <2>4. ASSUME NEW ch \in Channels, channels[ch] # Nil, obj'[channels[ch]].pending # {}
        PROVE  ch # e.ch /\ obj'[channels[ch]].pending = obj[channels[ch]].pending
    <3> DEFINE o == channels[e.ch]
    <3>1. channels[ch] \in Objs /\ obj[channels[ch]].name = ch
      BY <2>4, Types DEF Inv, NamesMatch
    <3>2. o # Nil => o \in Objs /\ obj[o].name = e.ch /\ obj[o] \in ChannelState
      BY <2>2, Types DEF Inv, NamesMatch
    <3>3. CASE o = Nil
      BY <2>1, <2>4, <3>3 DEF Subscribed
    <3>4. CASE o # Nil
      <4>1. obj' = [obj EXCEPT ![o] = [obj[o] EXCEPT !.sid = M.sid, !.pending = {}]]
        BY <2>1, <3>4 DEF Subscribed
      <4>2. obj'[o].pending = {} /\ \A q \in Objs \ {o} : obj'[q] = obj[q]
        BY <3>2, <3>4, <4>1, Types DEF ChannelState
      <4> HIDE DEF o
      <4> QED BY <2>4, <3>1, <3>2, <3>4, <4>2 DEF o
    <3> QED BY <3>3, <3>4
  <2>5. Covered => Covered'
    BY <2>2, <2>4 DEF Covered, IsPending
  <2> QED BY <1>2, <1>5, <2>3, <2>5 DEF QueueEffect
<1>7. CASE ~HandleSubscribed
  <2>1. /\ UNCHANGED <<channels, pendingInit>>
        /\ \A o \in Objs : obj'[o].pending = obj[o].pending
    BY <1>7, HandlersKeep
  <2>2. Covered => Covered'
    BY <2>1, CoveredAlone
  <2>3. \A e \in pendingInit : M.type = "subscribed" => M.id # e.id
    <3>1. CASE HandleUnknownId
      BY <3>1 DEF HandleUnknownId
    <3>2. CASE HandleOK \/ HandleUnsubscribed \/ HandleError \/ HandleDataMessage
      <4>1. PICK t \in {"ok", "unsubscribed", "error", "data"} : Incoming(t)
        BY <3>2 DEF HandleOK, HandleUnsubscribed, HandleError, HandleDataMessage
      <4>2. M.type = t
        BY <4>1, IncomingFacts
      <4> QED BY <4>2
    <3> QED BY <1>7, <3>1, <3>2 DEF HandleIncoming
  <2> QED BY <1>2, <1>5, <2>1, <2>2, <2>3 DEF QueueEffect
<1> QED BY <1>6, <1>7

LEMMA FlushQueue == ASSUME Inv, FlushSent PROVE QueueEffect
<1>1. /\ UNCHANGED <<conn, down, channels, pendingInit>> /\ Reader \in Procs
      /\ pc[Reader] = "finish" /\ \E l : pc' = [pc EXCEPT ![Reader] = l]
      /\ \E cmd : out' = [out EXCEPT ![Reader] = cmd]
      /\ UNCHANGED obj \/ obj' = [obj EXCEPT ![flushing].pending = {}]
  BY ReaderIsNoCaller DEF FlushSent, SendStart, serverVars, cmdVars, At, Goto
<1>2. SendersKept
  BY <1>1, Types, QueueAlone
<1>3. NoAnswerRead
  BY <1>1 DEF NoAnswerRead
<1>4. \A o \in Objs : obj'[o].pending \in {obj[o].pending, {}}
  <2>1. CASE UNCHANGED obj
    BY <2>1
  <2>2. CASE obj' = [obj EXCEPT ![flushing].pending = {}]
    <3>1. \A o \in Objs :
            obj'[o] = IF o = flushing THEN [obj[o] EXCEPT !.pending = {}] ELSE obj[o]
      BY <2>2, Types
    <3>2. \A o \in Objs : [obj[o] EXCEPT !.pending = {}].pending = {}
      BY Types DEF ChannelState
    <3> QED BY <3>1, <3>2
  <2> QED BY <1>1, <2>1, <2>2
<1>5. Covered => Covered'
  BY <1>1, <1>4, CoveredAlone
<1> QED BY <1>1, <1>2, <1>3, <1>5, UnderwayKept DEF QueueEffect

LEMMA LeaveQueue ==
    ASSUME Inv, Deliver \/ HandleConnectionLoss PROVE QueueEffect
<1>1. CASE Deliver
  <2>1. /\ UNCHANGED <<conn, down, channels, obj, pendingInit, out>>
        /\ Reader \in Procs /\ pc[Reader] = "deliver" /\ Goto("check")
    BY <1>1, ReaderIsNoCaller DEF Deliver, serverVars, cmdVars, stateVars, At
  <2>2. SendersKept
    BY <2>1, Types, QueueAlone DEF Goto
  <2>3. NoAnswerRead
    BY <2>1 DEF NoAnswerRead
  <2>4. Covered => Covered'
    BY <2>1, CoveredAlone
  <2> QED BY <2>1, <2>2, <2>3, <2>4, UnderwayKept DEF QueueEffect
<1>2. CASE HandleConnectionLoss
  BY <1>2 DEF HandleConnectionLoss, QueueEffect
<1> QED BY <1>1, <1>2

LEMMA OutsideQueue ==
    ASSUME Inv, Consume \/ Cancel \/ Feed \/ UNCHANGED vars PROVE QueueEffect
<1>1. UNCHANGED <<conn, pc, out, channels, obj, pendingInit>>
  BY DEF Consume, Cancel, Feed, vars, clientVars, procVars, stateVars, cmdVars
<1>2. NoAnswerRead
  <2>1. CASE UNCHANGED down
    BY <2>1 DEF NoAnswerRead
  <2>2. CASE Feed
    <3>1. UNCHANGED down \/ \E k \in Conns : \E m : Enqueues(k, m)
      BY <2>2, FeedStep DEF Feed, Inv, Shape, TypeOK
    <3> QED BY <2>1, <3>1, EnqueuedStays DEF Enqueues
  <2> QED BY <2>1, <2>2 DEF Consume, Cancel, vars, serverVars
<1>3. SendersKept
  BY <1>1 DEF SendersKept
<1>4. Covered => Covered'
  BY <1>1, CoveredAlone
<1> QED BY <1>1, <1>2, <1>3, <1>4, UnderwayKept DEF QueueEffect

\* Every step that leaves the only connection up.
LEMMA QueueMoves ==
    ASSUME Inv, Dialed, ~MayReject, ~MayTimeout, Alone, [Next]_vars
    PROVE  QueueEffect
<1>1. ~RecoverSteps
  BY RecoverDials, OnlyFacts DEF Alone
<1> QED BY <1>1, StepCases, BeginQueue, ConnectQueue, SendQueue, LoopQueue,
           HandleQueue, FlushQueue, LeaveQueue, OutsideQueue

LEMMA QueueStep ==
    ASSUME Inv, Dialed, Queue, Len(link) # 0, ~MayReject, ~MayTimeout, [Next]_vars
    PROVE  Queue'
  BY DialedStep, QueueMoves, QueueKept

LEMMA QueueInit == Init => Queue /\ (Connected => Len(link) # 0)
<1> SUFFICES ASSUME Init PROVE Queue /\ (Connected => Len(link) # 0)
  OBVIOUS
<1>1. \A ch \in Channels : channels[ch] = Nil
  BY DEF Init
<1>2. pendingInit = {} /\ rconn = NoConn
  BY DEF Init
<1>3. Connected => link = <<"up">>
  BY DEF Init, ServerInit
<1>4. Len(<<"up">>) # 0
  OBVIOUS
<1> QED BY <1>1, <1>2, <1>3, <1>4 DEF Queue, Covered

\* If the service answers every command and no write times out, then on the first
\* connection, as long as it is up, the tickers that AddMarkets queued, and reported
\* as added, always wait for a subscribe whose answer will send them, whatever the
\* callers do and however their calls interleave (AddMarkets, sendSubscribe,
\* deletePendingInitForChannel, handleSubscribed).
THEOREM QueuedIsSent ==
    ASSUME Reliable PROVE Spec => [](OnlyFirst => QueuedWillBeSent)
<1>1. Connected /\ ~MayReject /\ ~MayTimeout
  BY DEF Reliable
<1>2. Init => Queue /\ Linked
  BY <1>1, QueueInit DEF Linked
<1>3. Inv /\ Inv' /\ Dialed /\ Queue /\ Linked /\ [Next]_vars
        => Queue' /\ Linked'
  <2> SUFFICES ASSUME Inv, Dialed, Queue, Linked, [Next]_vars
               PROVE  Queue' /\ Linked'
    OBVIOUS
  <2>1. Len(link) \in Nat /\ Len(link') \in Nat /\ Len(link') >= Len(link)
    BY DialedStep, LinkGrows DEF DialedEffect
  <2> QED BY <1>1, <2>1, QueueStep DEF Linked
<1>4. Inv /\ Dialed /\ Queue => (OnlyFirst => QueuedWillBeSent)
  <2> SUFFICES ASSUME Inv, Dialed, Queue, OnlyFirst, At("read"), NEW ch \in Channels,
                      channels[ch] # Nil, obj[channels[ch]].pending # {}
               PROVE  \E e \in pendingInit : e.ch = ch /\ AnswerComing(e)
    BY DEF QueuedWillBeSent
  <2>1. rconn # NoConn
    BY DEF Inv, Shape, ReaderShape, Attached, At
  <2>2. rconn = 1
    <3>1. Len(link) <= 1
      BY OnlyFacts
    <3> QED BY <2>1, <3>1, FirstRead
  <2>3. Covered /\ \A e \in pendingInit : Underway(e)
    BY <2>1 DEF Queue
  <2>4. PICK e \in pendingInit : e.ch = ch
    BY <2>3 DEF Covered, IsPending
  <2> QED BY <2>2, <2>3, <2>4 DEF Underway, InFlight, Answered, AnswerComing
<1> QED BY <1>2, <1>3, <1>4, DialedAlways, Inductive, PTL DEF Spec
-----------------------------------------------------------------------------
(* The recovery, on whatever connection.                                   *)

\* The programs of the theorem: AddMarkets notes its tickers too late for a recovery
\* that overtakes it, Connect and Close change the connection under the loop.
RecoverableOps == {"subscribe", "unsubscribe", "remove", "snapshot"}

\* The client's connection is lost, and the loop has not handled it yet.
Severed == conn # NoConn /\ ~Up(conn)

\* p is on its way to subscribe channel ch on the client's connection, or to forget it.
Awaits(p) == \E e \in pendingInit : e.id = out[p].id /\ e.ch = out[p].ch
Subscribing(p, ch) ==
    /\ out[p].kind = "subscribe" /\ out[p].ch = ch
    /\ \/ pc[p] = "register"
       \/ pc[p] = "grab" /\ Awaits(p)
       \/ pc[p] = "write" /\ Awaits(p) /\ out[p].conn = conn
       \/ pc[p] = "finish" /\ ~out[p].ok /\ p # Reader

\* The answer to a subscribe of ch is on the client's connection.
ToBeRead(ch) ==
    /\ conn # NoConn
    /\ \E e \in pendingInit :
         /\ e.ch = ch
         /\ \E i \in DOMAIN down[conn] :
              down[conn][i].type = "subscribed" /\ down[conn][i].id = e.id

\* The loop recovers, and has not come to ch.
Resending ==
    \/ pc[Reader] = "next"
    \/ pc[Reader] \in Sending /\ out[Reader].kind = "subscribe"
ToRecover(ch) ==
    \/ pc[Reader] \in {"waitLoss", "redial", "recover"}
    \/ Resending /\ channels[ch] \in todo \ seen

\* The loop has ended or, its context cancelled, is about to.
GivingUp ==
    \/ pc[Reader] \in {"done", "panic"}
    \/ /\ ctxDone
       /\ \/ pc[Reader] \in {"top", "wait"}
          \/ pc[Reader] = "finish" /\ out[Reader].kind = "subscribe" /\ ~out[Reader].ok

Secured(ch) ==
    \/ HasSID(ch) \/ Severed \/ GivingUp \/ ToRecover(ch) \/ ToBeRead(ch)
    \/ \E p \in Procs : Subscribing(p, ch)

AllSecured == \A ch \in Channels : Wanted(ch) => Secured(ch)

\* The loop reads the client's connection, dials when it has none, recovers on one, and
\* what it fails to send it fails to send because the connection or the context ended.
Course ==
    /\ rconn # NoConn => rconn = conn
    /\ pc[Reader] \in {"dial", "waitLoss", "redial"} => conn = NoConn
    /\ pc[Reader] = "recover" \/ Resending => conn # NoConn
    /\ pc[Reader] = "write" => out[Reader].conn = conn
    /\ pc[Reader] = "finish" /\ out[Reader].kind = "subscribe" /\ ~out[Reader].ok =>
         Severed \/ ctxDone
    /\ ~Resending => seen = {}

\* A state that a sid leads to has one.
MappedSubscribed == \A s \in Sids : sidMap[s] # Nil => obj[sidMap[s]].sid # NoSID

\* What the callers do, and that a send has no result before it is over.
PlainCalls ==
    /\ \A p \in Callers :
         /\ call[p].op \in RecoverableOps \cup {"none"} /\ pc[p] # "closing"
         /\ pc[p] \in Sending /\ out[p].kind = "subscribe" =>
              call[p].op = "subscribe" /\ out[p].ch = Ch(p)
    /\ \A p \in Procs : pc[p] \in {"register", "grab", "write"} => ~out[p].ok
-----------------------------------------------------------------------------
(* What keeps a channel secured.                                           *)

\* A connection that is not up stays down.
LEMMA DownStays ==
    ASSUME Inv, LinkStep, NEW k \in Nat, k <= Len(link), k # NoConn, ~Up(k)
    PROVE  ~Up(k)'
<1>1. link \in Seq(LinkStates) /\ Len(link) \in Nat /\ DOMAIN link = 1..Len(link)
  BY Types, LenProperties
<1>2. k \in DOMAIN link /\ link[k] # "up"
  BY <1>1 DEF Up, NoConn
<1>3. CASE link' = Append(link, "up")
  <2>1. link'[k] = link[k]
    BY <1>1, <1>2, <1>3, AppendProperties DEF LinkStates
  <2> QED BY <1>2, <2>1 DEF Up
<1>4. ASSUME NEW j, NEW s, SetLink(j, s) PROVE ~Up(k)'
  <2>1. CASE Up(j)
    <3>1. j # k /\ link' = [link EXCEPT ![j] = s]
      BY <1>4, <2>1 DEF SetLink
    <3>2. link'[k] = link[k]
      BY <1>2, <3>1
    <3> QED BY <1>2, <3>2 DEF Up
  <2>2. CASE ~Up(j)
    BY <1>2, <1>4, <2>2 DEF SetLink, Up
  <2> QED BY <2>1, <2>2
<1> QED BY <1>2, <1>3, <1>4 DEF LinkStep, Up

LEMMA SeveredStays ==
    ASSUME Inv, Dialed, LinkStep, UNCHANGED conn, Severed PROVE Severed'
<1>1. conn \in Nat /\ conn <= Len(link) /\ conn # NoConn
  BY Types DEF Conns, NoConn, Dialed, Severed
<1> QED BY <1>1, DownStays DEF Severed

\* Channel ch keeps its state, its connection, its pending subscribes and their answers.
AnswerThere(e) ==
    \E i \in DOMAIN down[conn] : down[conn][i].type = "subscribed" /\ down[conn][i].id = e.id
Unharmed(ch) ==
    /\ LinkStep /\ UNCHANGED conn
    /\ HasSID(ch) => HasSID(ch)'
    /\ \A e \in pendingInit :
         e.ch = ch =>
            /\ e \in pendingInit'
            /\ conn # NoConn /\ AnswerThere(e) => AnswerThere(e)'

\* A goroutine that makes no step.
Rests(q) == pc'[q] = pc[q] /\ out'[q] = out[q]

LEMMA RestsSubscribing ==
    ASSUME NEW ch, Unharmed(ch), NEW q, Rests(q), Subscribing(q, ch)
    PROVE  Subscribing(q, ch)'
<1>1. Awaits(q) => Awaits(q)'
  BY DEF Awaits, Unharmed, Subscribing, Rests
<1> QED BY <1>1 DEF Subscribing, Rests, Unharmed

\* The reader makes no step; its context may be cancelled.
ReaderRests ==
    Rests(Reader) /\ (ctxDone => ctxDone') /\ UNCHANGED <<todo, seen>>

LEMMA ReaderElsewhere ==
    ASSUME NEW ch, ReaderRests, channels'[ch] = channels[ch]
    PROVE  (GivingUp => GivingUp') /\ (ToRecover(ch) => ToRecover(ch)')
BY DEF ReaderRests, Rests, GivingUp, ToRecover, Resending

\* A step of p in which nobody else moves: it has to say what becomes of the reader's
\* and of p's part in it.
LEMMA StaysSecured ==
    ASSUME Inv, Dialed, NEW ch \in Channels, Secured(ch), Unharmed(ch),
           NEW p, \A q \in Procs \ {p} : Rests(q),
           GivingUp => Secured(ch)', ToRecover(ch) => Secured(ch)',
           Subscribing(p, ch) => Secured(ch)'
    PROVE  Secured(ch)'
<1>1. HasSID(ch) => Secured(ch)'
  BY DEF Unharmed, Secured
<1>2. Severed => Secured(ch)'
  BY SeveredStays DEF Unharmed, Secured
<1>3. ToBeRead(ch) => Secured(ch)'
  <2>1. ToBeRead(ch) => ToBeRead(ch)'
    BY DEF ToBeRead, Unharmed, AnswerThere
  <2> QED BY <2>1 DEF Secured
<1>4. ASSUME NEW q \in Procs, Subscribing(q, ch) PROVE Secured(ch)'
  <2>1. CASE q = p
    BY <1>4, <2>1
  <2>2. CASE q # p
    BY <1>4, <2>2, RestsSubscribing DEF Secured
  <2> QED BY <2>1, <2>2
<1> QED BY <1>1, <1>2, <1>3, <1>4 DEF Secured

\* What is wanted of ch was wanted before.
StillWanted(ch) ==
    /\ channels'[ch] = channels[ch]
    /\ channels[ch] # Nil =>
         /\ obj'[channels[ch]].global => obj[channels[ch]].global
         /\ obj'[channels[ch]].markets \subseteq obj[channels[ch]].markets

LEMMA StillWantedIs ==
    ASSUME NEW ch, StillWanted(ch), Wanted(ch)' PROVE Wanted(ch)
BY DEF StillWanted, Wanted
-----------------------------------------------------------------------------
(* What each step keeps.                                                   *)

Recovery == AllSecured /\ Course /\ MappedSubscribed /\ PlainCalls

\* The callers but p are where they were.
LEMMA PlainRests ==
    ASSUME Inv, PlainCalls, NEW p \in Procs, \A q \in Procs \ {p} : Rests(q),
           \A q \in Callers \ {p} : call'[q] = call[q],
           pc'[p] \in {"register", "grab", "write"} => ~out'[p].ok,
           p \in Callers =>
             /\ call'[p].op \in RecoverableOps \cup {"none"} /\ pc'[p] # "closing"
             /\ pc'[p] \in Sending /\ out'[p].kind = "subscribe" =>
                  call'[p].op = "subscribe" /\ out'[p].ch = Head(call'[p].chs)
    PROVE  PlainCalls'
<1>1. ASSUME NEW q \in Callers
      PROVE  /\ call'[q].op \in RecoverableOps \cup {"none"} /\ pc'[q] # "closing"
             /\ pc'[q] \in Sending /\ out'[q].kind = "subscribe" =>
                  call'[q].op = "subscribe" /\ out'[q].ch = Head(call'[q].chs)
  <2>1. CASE q = p
    BY <2>1
  <2>2. CASE q # p
    <3>1. Rests(q) /\ call'[q] = call[q]
      BY <2>2, ReaderIsNoCaller
    <3> QED BY <3>1 DEF PlainCalls, Rests, Ch
  <2> QED BY <2>1, <2>2
<1>2. ASSUME NEW q \in Procs, pc'[q] \in {"register", "grab", "write"} PROVE ~out'[q].ok
  <2>1. CASE q = p
    BY <1>2, <2>1
  <2>2. CASE q # p
    BY <1>2, <2>2 DEF PlainCalls, Rests
  <2> QED BY <2>1, <2>2
<1> QED BY <1>1, <1>2 DEF PlainCalls, Ch

\* A step of a caller that leaves the connections alone.
LEMMA CourseRests ==
    ASSUME Course, ReaderRests, UNCHANGED <<link, conn, rconn>> PROVE Course'
BY DEF Course, ReaderRests, Rests, Resending, Severed, Up

LEMMA BeginRecovery ==
    ASSUME Inv, Dialed, Recovery, \A c \in Calls : c.op \in RecoverableOps,
           NEW p \in Callers, Begin(p)
    PROVE  Recovery'
<1>1. /\ p \in Procs /\ p # Reader /\ pc[p] = "idle" /\ pc' = [pc EXCEPT ![p] = "section"]
      /\ UNCHANGED <<serverVars, conn, cmdVars, stateVars, ctxDone, out, readerVars>>
  BY ReaderIsNoCaller DEF Begin
<1>2. PICK c \in Calls :
        call' = [call EXCEPT ![p] =
           [NoCall EXCEPT !.op = c.op, !.chs = c.chs, !.tickers = c.tickers,
                          !.global = c.global]]
  BY <1>1 DEF Begin
<1>3. call'[p].op = c.op /\ c.op \in RecoverableOps
     /\ \A q \in Callers \ {p} : call'[q] = call[q]
  BY <1>2, Types DEF NoCall
<1>4. pc'[p] = "section" /\ \A q \in Procs \ {p} : Rests(q)
  BY <1>1, Types DEF Rests
<1>5. ReaderRests /\ UNCHANGED <<link, conn, rconn, pendingInit, down, channels, obj, sidMap>>
  BY <1>1, <1>4, ReaderIsNoCaller DEF ReaderRests, readerVars, serverVars, cmdVars, stateVars
<1>6. Course' /\ MappedSubscribed'
  BY <1>5, CourseRests DEF Recovery, MappedSubscribed
<1>7. PlainCalls'
  BY <1>1, <1>3, <1>4, PlainRests DEF Recovery, Sending
<1>8. ASSUME NEW ch \in Channels, Wanted(ch)' PROVE Secured(ch)'
  <2>1. Secured(ch)
    BY <1>5, <1>8 DEF Recovery, AllSecured, Wanted
  <2>2. Unharmed(ch)
    BY <1>5 DEF Unharmed, LinkStep, HasSID, AnswerThere
  <2>3. (GivingUp => GivingUp') /\ (ToRecover(ch) => ToRecover(ch)')
    BY <1>5, ReaderElsewhere
  <2>4. ~Subscribing(p, ch)
    BY <1>1 DEF Subscribing
  <2> QED BY <1>1, <1>4, <2>1, <2>2, <2>3, <2>4, StaysSecured DEF Recovery, Secured
<1> QED BY <1>6, <1>7, <1>8 DEF Recovery, AllSecured

-----------------------------------------------------------------------------
(* The methods.                                                            *)

\* What a method leaves behind of a channel it had before, or is about to subscribe.
AsksNoMore(p) ==
    \A ch \in Channels : channels'[ch] # Nil =>
        \/ StillWanted(ch)
        \/ pc'[p] = "register" /\ out'[p].kind = "subscribe" /\ out'[p].ch = ch
FailedEnds(p) == \A ch \in Channels : Subscribing(p, ch) => channels'[ch] = Nil
PlainStep(p) ==
    /\ \A q \in Callers \ {p} : call'[q] = call[q]
    /\ call'[p].op \in {call[p].op, "none"}
    /\ pc'[p] = "register" =>
         /\ ~out'[p].ok
         /\ out'[p].kind = "subscribe" =>
              call'[p].op = "subscribe" /\ out'[p].ch = Head(call'[p].chs)
MethodPlain(p) == AsksNoMore(p) /\ FailedEnds(p) /\ PlainStep(p)

LEMMA EndsPlain ==
    ASSUME Inv, NEW p \in Callers, Return(p) \/ Continue(p) PROVE PlainStep(p)
<1>1. p \in Procs
  BY ReaderIsNoCaller
<1>2. CASE Return(p)
  <2>1. /\ \A q \in Callers \ {p} : call'[q] = call[q]
        /\ call'[p].op = "none" /\ pc'[p] = "idle"
    BY <1>1, <1>2, Types DEF Return, NoCall
  <2> QED BY <2>1 DEF PlainStep
<1>3. CASE Continue(p) /\ ~Return(p)
  <2>1. /\ pc' = [pc EXCEPT ![p] = "section"]
        /\ call' = [call EXCEPT ![p].chs = Tail(@), ![p].state = Nil, ![p].created = FALSE]
    BY <1>3 DEF Continue
  <2>2. /\ \A q \in Callers \ {p} : call'[q] = call[q]
        /\ call'[p].op = call[p].op /\ pc'[p] = "section"
    BY <1>1, <2>1, Types DEF CallRecord
  <2> QED BY <2>2 DEF PlainStep
<1> QED BY <1>2, <1>3

LEMMA StartsPlain ==
    ASSUME Inv, NEW p \in Callers, NEW cmd, SendStart(p, cmd), ~cmd.ok,
           \/ UNCHANGED call
           \/ \E o, c : call' = [call EXCEPT ![p].state = o, ![p].created = c],
           cmd.kind = "subscribe" => call[p].op = "subscribe" /\ cmd.ch = Ch(p)
    PROVE  PlainStep(p) /\ pc'[p] = "register" /\ out'[p] = cmd
<1>1. p \in Procs
  BY ReaderIsNoCaller
<1>3. pc' = [pc EXCEPT ![p] = "register"] /\ out' = [out EXCEPT ![p] = cmd]
  BY DEF SendStart
<1>4. pc'[p] = "register" /\ out'[p] = cmd
  BY <1>1, <1>3, Types
<1>5. /\ \A q \in Callers \ {p} : call'[q] = call[q]
      /\ call'[p].op = call[p].op /\ call'[p].chs = call[p].chs
  <2>1. CASE UNCHANGED call
    BY <2>1
  <2>2. ASSUME NEW o, NEW c, call' = [call EXCEPT ![p].state = o, ![p].created = c]
        PROVE  /\ \A q \in Callers \ {p} : call'[q] = call[q]
               /\ call'[p].op = call[p].op /\ call'[p].chs = call[p].chs
    BY <2>2, Types DEF CallRecord
  <2> QED BY <2>1, <2>2
<1> QED BY <1>4, <1>5 DEF PlainStep, Ch

\* A method that has not failed to subscribe.
LEMMA NothingFailed ==
    ASSUME PlainCalls, NEW p \in Callers, pc[p] \in {"section", "finish"},
           call[p].op # "subscribe" \/ pc[p] = "section" \/ out[p].ok
    PROVE  FailedEnds(p)
BY ReaderIsNoCaller DEF FailedEnds, Subscribing, PlainCalls, Sending

LEMMA WantedAlone == ASSUME NEW p, UNCHANGED <<channels, obj>> PROVE AsksNoMore(p)
BY DEF AsksNoMore, StillWanted

LEMMA WantedForget ==
    ASSUME Inv, NEW p, NEW ch \in Channels, channels' = [channels EXCEPT ![ch] = Nil],
           UNCHANGED obj
    PROVE  AsksNoMore(p) /\ channels'[ch] = Nil
<1>1. channels'[ch] = Nil /\ \A c \in Channels : channels'[c] \in {channels[c], Nil}
  BY Types
<1> QED BY <1>1 DEF AsksNoMore, StillWanted

\* A state changes in place, and less of it is wanted.
LEMMA WantedLess ==
    ASSUME Inv, NEW p, NEW o \in Objs, NEW state, obj' = [obj EXCEPT ![o] = state],
           state.global => obj[o].global, state.markets \subseteq obj[o].markets,
           UNCHANGED channels
    PROVE  AsksNoMore(p)
<1>1. \A q \in Objs : obj'[q] = IF q = o THEN state ELSE obj[q]
  BY Types
<1>2. \A ch \in Channels : channels[ch] # Nil => channels[ch] \in Objs
  BY Types
<1>3. ASSUME NEW q \in Objs
      PROVE  /\ obj'[q].global => obj[q].global
             /\ obj'[q].markets \subseteq obj[q].markets
  BY <1>1
<1> QED BY <1>2, <1>3 DEF AsksNoMore, StillWanted

LEMMA SubscribePlain ==
    ASSUME Inv, PlainCalls, NEW p \in Callers, Subscribe(p) \/ SubscribeSent(p)
    PROVE  MethodPlain(p)
<1>1. CASE Subscribe(p) /\ Return(p) /\ UNCHANGED stateVars
  <2>1. pc[p] = "section" /\ UNCHANGED <<channels, obj>>
    BY <1>1 DEF Subscribe, InSection, stateVars
  <2> QED BY <1>1, <2>1, EndsPlain, NothingFailed, WantedAlone DEF MethodPlain
<1>2. CASE Subscribe(p) /\ ~(Return(p) /\ UNCHANGED stateVars)
  <2> DEFINE ch == Ch(p)
             state == NewChannelState(ch, call[p].tickers, call[p].global)
  <2>1. PICK o \in Objs :
          /\ FirstUnused(o) /\ obj' = [obj EXCEPT ![o] = state]
          /\ channels' = [channels EXCEPT ![ch] = o]
          /\ SendFor(p, o, TRUE, Command("subscribe", ch, NoSID,
                                         call[p].tickers, call[p].global))
    BY <1>2 DEF Subscribe
  <2>2. pc[p] = "section" /\ call[p].op = "subscribe"
    BY <1>2 DEF Subscribe, InSection
  <2>3. ch \in Channels
    BY <2>2, CallFacts
  <2>4. PlainStep(p) /\ pc'[p] = "register" /\ out'[p].kind = "subscribe" /\ out'[p].ch = ch
    <3> DEFINE cmd == Command("subscribe", ch, NoSID, call[p].tickers, call[p].global)
    <3>1. ~cmd.ok /\ cmd.kind = "subscribe" /\ cmd.ch = ch /\ ch = Ch(p)
      BY DEF Command
    <3>2. /\ SendStart(p, cmd)
          /\ \E q, c : call' = [call EXCEPT ![p].state = q, ![p].created = c]
      BY <2>1 DEF SendFor
    <3> HIDE DEF cmd, ch, state
    <3> QED BY <2>2, <3>1, <3>2, StartsPlain
  <2>5. o \notin Registered
    BY <2>1 DEF FirstUnused, Unused
  <2> HIDE DEF state, ch
  <2>6. \A c \in Channels \ {ch} : channels'[c] = channels[c] /\ channels[c] # o
    BY <2>1, <2>5, Types DEF Registered
  <2>7. \A q \in Objs \ {o} : obj'[q] = obj[q]
    BY <2>1, Types
  <2>8. \A c \in Channels : channels[c] # Nil => channels[c] \in Objs
    BY Types
  <2>9. AsksNoMore(p)
    BY <2>4, <2>6, <2>7, <2>8 DEF AsksNoMore, StillWanted
  <2> QED BY <2>2, <2>4, <2>9, NothingFailed DEF MethodPlain
<1>3. CASE SubscribeSent(p)
  <2>1. pc[p] = "finish" /\ call[p].op = "subscribe"
    BY <1>3 DEF SubscribeSent, InFinish
  <2>2. CASE out[p].ok /\ Continue(p) /\ UNCHANGED <<pendingInit, stateVars>>
    <3>1. UNCHANGED <<channels, obj>>
      BY <2>2 DEF stateVars
    <3> QED BY <2>1, <2>2, <3>1, EndsPlain, NothingFailed, WantedAlone DEF MethodPlain
  <2>3. CASE Return(p) /\ ForgetChannel(Ch(p))
    <3>1. Ch(p) \in Channels
      BY <2>1, CallFacts
    <3>2. AsksNoMore(p) /\ channels'[Ch(p)] = Nil
      BY <2>3, <3>1, WantedForget DEF ForgetChannel
    <3>3. \A ch \in Channels : Subscribing(p, ch) => ch = Ch(p)
      BY <2>1 DEF Subscribing, PlainCalls, Sending
    <3>4. FailedEnds(p)
      BY <3>2, <3>3 DEF FailedEnds
    <3> QED BY <2>3, <3>2, <3>4, EndsPlain DEF MethodPlain
  <2> QED BY <1>3, <2>2, <2>3 DEF SubscribeSent
<1> QED BY <1>1, <1>2, <1>3

LEMMA UnsubscribePlain ==
    ASSUME Inv, PlainCalls, NEW p \in Callers, Unsubscribe(p) \/ UnsubscribeSent(p)
    PROVE  MethodPlain(p)
<1>1. /\ pc[p] \in {"section", "finish"} /\ call[p].op = "unsubscribe"
      /\ Ch(p) \in Channels
  BY CallFacts DEF Unsubscribe, UnsubscribeSent, InSection, InFinish
<1>2. FailedEnds(p)
  BY <1>1, NothingFailed
<1>3. CASE Unsubscribe(p)
  <2> DEFINE cmd == Command("unsubscribe", Ch(p), obj[channels[Ch(p)]].sid, {}, FALSE)
  <2>1. \/ Continue(p) /\ UNCHANGED <<pendingInit, stateVars>>
        \/ ForgetChannel(Ch(p)) /\ Continue(p)
        \/ SendStart(p, cmd) /\ UNCHANGED <<call, pendingInit, stateVars>>
    BY <1>3 DEF Unsubscribe
  <2>2. ~cmd.ok /\ cmd.kind # "subscribe"
    BY DEF Command
  <2> HIDE DEF cmd
  <2>3. PlainStep(p)
    BY <2>1, <2>2, EndsPlain, StartsPlain
  <2>4. AsksNoMore(p)
    BY <1>1, <2>1, WantedAlone, WantedForget DEF stateVars, ForgetChannel
  <2> QED BY <1>2, <2>3, <2>4 DEF MethodPlain
<1>4. CASE UnsubscribeSent(p)
  <2>1. /\ UNCHANGED obj /\ (Continue(p) \/ Return(p))
        /\ channels' = [channels EXCEPT ![Ch(p)] = Nil] \/ UNCHANGED channels
    BY <1>4 DEF UnsubscribeSent
  <2>2. AsksNoMore(p)
    BY <1>1, <2>1, WantedAlone, WantedForget
  <2> QED BY <1>2, <2>1, <2>2, EndsPlain DEF MethodPlain
<1> QED BY <1>3, <1>4

LEMMA RemoveMarketsPlain ==
    ASSUME Inv, PlainCalls, NEW p \in Callers, RemoveMarkets(p) \/ RemoveMarketsSent(p)
    PROVE  MethodPlain(p)
<1>1. /\ pc[p] \in {"section", "finish"} /\ call[p].op = "remove"
      /\ Ch(p) \in Channels /\ UNCHANGED channels
  BY CallFacts DEF RemoveMarkets, RemoveMarketsSent, InSection, InFinish
<1>2. FailedEnds(p)
  BY <1>1, NothingFailed
<1>3. CASE (Continue(p) \/ Return(p)) /\ UNCHANGED obj
  BY <1>1, <1>2, <1>3, EndsPlain, WantedAlone DEF MethodPlain
<1>4. CASE RemoveMarkets(p) /\ ~(Continue(p) /\ UNCHANGED obj)
  <2> DEFINE o == channels[Ch(p)]
             cmd == Command("delete", Ch(p), obj[o].sid, call[p].tickers, FALSE)
             state == [obj[o] EXCEPT !.global = FALSE]
  <2>1. /\ HasSID(Ch(p)) /\ obj' = [obj EXCEPT ![o].global = FALSE]
        /\ SendFor(p, o, FALSE, cmd)
    BY <1>4 DEF RemoveMarkets
  <2>2. ~cmd.ok /\ cmd.kind # "subscribe"
    BY DEF Command
  <2>3. o \in Objs
    BY <1>1, <2>1, Types DEF HasSID
  <2>4. obj' = [obj EXCEPT ![o] = state]
    BY <2>1
  <2>5. ~state.global /\ state.markets = obj[o].markets
    BY <2>3, Types DEF ChannelState
  <2>6. SendStart(p, cmd) /\ \E q, c : call' = [call EXCEPT ![p].state = q, ![p].created = c]
    BY <2>1 DEF SendFor
  <2> HIDE DEF cmd, state, o
  <2>7. PlainStep(p)
    BY <2>2, <2>6, StartsPlain
  <2>8. AsksNoMore(p)
    BY <1>1, <2>3, <2>4, <2>5, WantedLess
  <2> QED BY <1>2, <2>7, <2>8 DEF MethodPlain
<1>5. CASE RemoveMarketsSent(p) /\ ~(Return(p) /\ UNCHANGED obj)
  <2> DEFINE o == call[p].state
             state == [obj[o] EXCEPT !.markets = @ \ out[p].tickers]
  <2>1. Continue(p) /\ obj' = [obj EXCEPT ![o] = state]
    BY <1>5 DEF RemoveMarketsSent
  <2>2. o \in Objs \cup {Nil}
    BY Types DEF CallRecord
  <2>3. AsksNoMore(p)
    <3>1. CASE o \in Objs
      <4>1. state.global = obj[o].global /\ state.markets \subseteq obj[o].markets
        BY <3>1, Types DEF ChannelState
      <4>2. obj' = [obj EXCEPT ![o] = state]
        BY <2>1
      <4> HIDE DEF state, o
      <4> QED BY <1>1, <3>1, <4>1, <4>2, WantedLess
    <3>2. CASE o \notin Objs
      <4>1. UNCHANGED obj
        BY <2>1, <3>2, Types
      <4> QED BY <1>1, <4>1, WantedAlone
    <3> QED BY <3>1, <3>2
  <2> QED BY <1>2, <2>1, <2>3, EndsPlain DEF MethodPlain
<1> QED BY <1>3, <1>4, <1>5 DEF RemoveMarketsSent

LEMMA SnapshotPlain ==
    ASSUME Inv, PlainCalls, NEW p \in Callers, GetSnapshot(p) \/ GetSnapshotSent(p)
    PROVE  MethodPlain(p)
<1>1. /\ pc[p] \in {"section", "finish"} /\ call[p].op = "snapshot"
      /\ UNCHANGED <<channels, obj>>
  BY DEF GetSnapshot, GetSnapshotSent, InSection, InFinish, stateVars
<1>2. FailedEnds(p) /\ AsksNoMore(p)
  BY <1>1, NothingFailed, WantedAlone
<1>3. CASE Continue(p) \/ Return(p)
  BY <1>2, <1>3, EndsPlain DEF MethodPlain
<1>4. CASE GetSnapshot(p) /\ ~Continue(p)
  <2> DEFINE cmd == Command("snapshot", Ch(p), obj[channels[Ch(p)]].sid,
                            call[p].tickers, FALSE)
  <2>1. SendStart(p, cmd) /\ UNCHANGED call
    BY <1>4 DEF GetSnapshot
  <2>2. ~cmd.ok /\ cmd.kind # "subscribe"
    BY DEF Command
  <2> HIDE DEF cmd
  <2> QED BY <1>2, <2>1, <2>2, StartsPlain DEF MethodPlain
<1> QED BY <1>3, <1>4 DEF GetSnapshotSent

LEMMA MethodsPlain ==
    ASSUME Inv, PlainCalls, NEW p \in Callers, Methods(p) PROVE MethodPlain(p)
<1>1. ~AddMarkets(p) /\ ~AddMarketsSent(p)
  BY DEF PlainCalls, RecoverableOps, AddMarkets, AddMarketsSent, InSection, InFinish
<1> QED BY <1>1, SubscribePlain, UnsubscribePlain, RemoveMarketsPlain, SnapshotPlain
        DEF Methods

LEMMA MethodsRecovery ==
    ASSUME Inv, Dialed, Recovery, NEW p \in Callers, Methods(p) PROVE Recovery'
<1>1. MethodStep(p) /\ MethodPlain(p) /\ p \in Procs /\ p # Reader
  BY MethodsStep, MethodsPlain, ReaderIsNoCaller DEF Recovery
<1>2. PICK l \in {"idle", "section", "register"} : pc' = [pc EXCEPT ![p] = l]
  BY <1>1 DEF MethodStep, ControlStep
<1>3. PICK cmd : out' = [out EXCEPT ![p] = cmd]
  BY <1>1 DEF MethodStep, ControlStep
<1>4. pc'[p] = l /\ \A q \in Procs \ {p} : Rests(q)
  BY <1>1, <1>2, <1>3, Types DEF Rests
<1>5. ReaderRests /\ UNCHANGED <<link, conn, rconn, down>>
  BY <1>1, <1>4, ReaderIsNoCaller
     DEF ReaderRests, MethodStep, MethodFrame, readerVars, serverVars, flagVars
<1>6. Course'
  BY <1>5, CourseRests DEF Recovery
<1>7. MappedSubscribed'
  BY <1>1 DEF MethodStep, HeapStep, Steady, Recovery, MappedSubscribed
<1>8. PlainCalls'
  <2>1. call[p].op \in RecoverableOps \cup {"none"}
    BY DEF Recovery, PlainCalls
  <2>2. /\ \A q \in Callers \ {p} : call'[q] = call[q]
        /\ call'[p].op \in RecoverableOps \cup {"none"} /\ pc'[p] # "closing"
        /\ pc'[p] \in {"register", "grab", "write"} => ~out'[p].ok
        /\ pc'[p] \in Sending /\ out'[p].kind = "subscribe" =>
             call'[p].op = "subscribe" /\ out'[p].ch = Head(call'[p].chs)
    BY <1>1, <1>4, <2>1 DEF MethodPlain, PlainStep, Sending
  <2> QED BY <1>1, <1>4, <2>2, PlainRests DEF Recovery
<1>9. ASSUME NEW ch \in Channels, Wanted(ch)' PROVE Secured(ch)'
  <2>1. channels'[ch] # Nil
    BY <1>9 DEF Wanted
  <2>2. CASE StillWanted(ch)
    <3>1. Secured(ch) /\ channels'[ch] = channels[ch]
      BY <1>9, <2>2, StillWantedIs DEF Recovery, AllSecured, StillWanted
    <3>2. Steady(channels[ch])
      BY <1>1, <2>1, <3>1 DEF MethodStep, HeapStep
    <3>3. \A e \in pendingInit : e.ch = ch => e \in pendingInit'
      BY <1>1, <2>1 DEF MethodStep, HeapStep
    <3>4. Unharmed(ch)
      BY <1>5, <3>1, <3>2, <3>3 DEF Unharmed, LinkStep, HasSID, AnswerThere, Steady
    <3>5. (GivingUp => GivingUp') /\ (ToRecover(ch) => ToRecover(ch)')
      BY <1>5, <3>1, ReaderElsewhere
    <3>6. ~Subscribing(p, ch)
      BY <1>1, <2>1 DEF MethodPlain, FailedEnds
    <3> QED BY <1>1, <1>4, <3>1, <3>4, <3>5, <3>6, StaysSecured DEF Secured
  <2>3. CASE pc'[p] = "register" /\ out'[p].kind = "subscribe" /\ out'[p].ch = ch
    BY <1>1, <2>3 DEF Subscribing, Secured
  <2> QED BY <1>1, <2>1, <2>2, <2>3 DEF MethodPlain, AsksNoMore
<1> QED BY <1>6, <1>7, <1>8, <1>9 DEF Recovery, AllSecured

\* Connect and Close are not called.
LEMMA NobodyConnects ==
    ASSUME PlainCalls, NEW p \in Callers
    PROVE  ~Connect(p) /\ ~Close(p) /\ ~CloseConn(p)
BY DEF PlainCalls, RecoverableOps, Connect, Close, CloseConn, InSection
-----------------------------------------------------------------------------
(* The steps of a send.                                                    *)

\* What was sent on the client's connection stays, and one message may follow.
LEMMA LaterAnswers ==
    ASSUME Inv, NEW k \in Conns, NEW m, Enqueued(k, m), UNCHANGED conn, conn # NoConn
    PROVE  /\ \A e : AnswerThere(e) => AnswerThere(e)'
           /\ k = conn => \E n \in DOMAIN down'[conn] : down'[conn][n] = m
<1>1. down \in [Conns -> Seq(Message)] /\ conn \in Conns
  BY Types
<1>2. CASE k = conn
  <2>1. down'[conn] = Append(down[conn], m)
    BY <1>1, <1>2 DEF Enqueued
  <2>2. /\ DOMAIN down[conn] = 1..Len(down[conn]) /\ Len(down[conn]) \in Nat
        /\ DOMAIN Append(down[conn], m) = 1..(Len(down[conn]) + 1)
        /\ \A i \in 1..Len(down[conn]) : Append(down[conn], m)[i] = down[conn][i]
        /\ Append(down[conn], m)[Len(down[conn]) + 1] = m
    <3>1. down[conn] \in Seq(Message)
      BY <1>1
    <3> QED BY <3>1, AppendProperties, LenProperties
  <2>3. \A i \in 1..Len(down[conn]) : i \in 1..(Len(down[conn]) + 1)
    BY <2>2
  <2>4. Len(down[conn]) + 1 \in 1..(Len(down[conn]) + 1)
    BY <2>2
  <2>5. \A e : AnswerThere(e) => AnswerThere(e)'
    BY <2>1, <2>2, <2>3 DEF AnswerThere
  <2> QED BY <2>1, <2>2, <2>4, <2>5
<1>3. CASE k # conn
  <2>1. down'[conn] = down[conn]
    BY <1>1, <1>3 DEF Enqueued
  <2> QED BY <1>3, <2>1 DEF AnswerThere
<1> QED BY <1>2, <1>3

\* What the steps of a send have in common.
Sent(p) ==
    /\ LinkStep /\ UNCHANGED <<conn, rconn, channels, obj, sidMap, ctxDone, call, todo, seen>>
    /\ pendingInit \subseteq pendingInit'
    /\ \A e : conn # NoConn /\ AnswerThere(e) => AnswerThere(e)'
    /\ \A q \in Procs \ {p} : Rests(q)
    /\ pc[p] \in {"register", "grab", "write"} /\ pc'[p] \in {"grab", "write", "finish"}
    /\ out'[p].kind = out[p].kind /\ out'[p].ch = out[p].ch
    /\ pc'[p] # "finish" => out'[p].ok = out[p].ok

LEMMA SendSent == ASSUME Inv, NEW p \in Procs, SendStep(p) PROVE Sent(p)
<1>1. LinkStep
  BY SendDials DEF DialedEffect
<1>2. /\ UNCHANGED <<conn, rconn, channels, obj, sidMap, ctxDone, call, todo, seen>>
      /\ pendingInit \subseteq pendingInit' /\ pc[p] \in {"register", "grab", "write"}
  BY DEF SendStep, Register, GrabConn, WriteDelivered, WriteLost, WriteTimeout,
         Written, SendFrame, stateVars, cmdVars, flagVars, readerVars
<1>3. \A e : conn # NoConn /\ AnswerThere(e) => AnswerThere(e)'
  <2>1. CASE WriteDelivered(p)
    <3>1. PICK m : Enqueued(out[p].conn, m)
      BY <2>1, DeliveredFacts, ReceiveStep DEF Enqueues
    <3>2. out[p].conn \in Conns
      BY <2>1, DeliveredFacts
    <3> QED BY <1>2, <3>1, <3>2, LaterAnswers
  <2>2. CASE ~WriteDelivered(p)
    <3>1. UNCHANGED down
      BY <2>2 DEF SendStep, Register, GrabConn, WriteLost, WriteTimeout, serverVars
    <3> QED BY <1>2, <3>1 DEF AnswerThere
  <2> QED BY <2>1, <2>2
<1>4. PICK l \in {"grab", "write", "finish"} : pc' = [pc EXCEPT ![p] = l]
  BY DEF SendStep, Register, GrabConn, WriteDelivered, WriteLost, WriteTimeout, Written
<1>5. \/ \E c : out' = [out EXCEPT ![p].conn = c]
      \/ \E id : out' = [out EXCEPT ![p].id = id]
      \/ l = "finish" /\ \E ok : out' = [out EXCEPT ![p].ok = ok]
  <2>1. CASE Register(p) \/ GrabConn(p)
    BY <2>1 DEF Register, GrabConn
  <2>2. ASSUME NEW ok, Written(p, ok)
        PROVE  l = "finish" /\ out' = [out EXCEPT ![p].ok = ok]
    <3>1. pc' = [pc EXCEPT ![p] = "finish"]
      BY <2>2 DEF Written
    <3> QED BY <1>4, <2>2, <3>1, Types DEF Written
  <2>3. CASE WriteDelivered(p) \/ WriteLost(p) \/ WriteTimeout(p)
    <3>1. \E ok : Written(p, ok)
      BY <2>3, Zenon DEF WriteDelivered, WriteLost, WriteTimeout
    <3> QED BY <2>2, <3>1
  <2> QED BY <2>1, <2>3 DEF SendStep
<1>6. /\ \A q \in Procs \ {p} : Rests(q)
      /\ pc'[p] = l /\ out'[p].kind = out[p].kind /\ out'[p].ch = out[p].ch
      /\ pc'[p] # "finish" => out'[p].ok = out[p].ok
  BY <1>4, <1>5, Types DEF SendRecord, Rests
<1> QED BY <1>1, <1>2, <1>3, <1>6 DEF Sent

\* How a subscribe comes to an end: with its answer on the way, or because the
\* connection or the context has ended.
LEMMA SubscribeEnds ==
    ASSUME Inv, Dialed, Recovery, ~MayReject, ~MayTimeout,
           NEW p \in Procs, SendStep(p), pc'[p] = "finish",
           out[p].kind = "subscribe", NEW ch, out[p].ch = ch
    PROVE  /\ Subscribing(p, ch) => (Subscribing(p, ch) \/ ToBeRead(ch) \/ Severed \/ GivingUp)'
           /\ p = Reader => out'[p].ok \/ Severed' \/ ctxDone
<1>1. Sent(p) /\ p \in Procs
  BY SendSent
<1>2. CASE Register(p)
  BY <1>2, Types DEF Register
<1>3. CASE GrabConn(p)
  <2>1. conn = NoConn /\ pc[p] = "grab"
    BY <1>3, Types DEF GrabConn
  <2>2. p # Reader
    BY <1>1, <2>1 DEF Recovery, Course, Resending, Sending
  <2>3. ~out'[p].ok
    <3>1. ~out[p].ok
      BY <2>1 DEF Recovery, PlainCalls
    <3>2. out' = [out EXCEPT ![p].conn = conn]
      BY <1>3 DEF GrabConn
    <3> QED BY <3>1, <3>2, Types DEF SendRecord
  <2>4. Subscribing(p, ch)'
    BY <1>1, <2>2, <2>3 DEF Subscribing, Sent
  <2> QED BY <2>2, <2>4
<1>4. CASE WriteDelivered(p)
  <2>1. out'[p].ok
    BY <1>4, Types DEF WriteDelivered, Written, SendRecord
  <2>2. ASSUME Subscribing(p, ch) PROVE ToBeRead(ch)'
    <3>1. out[p].conn = conn /\ conn # NoConn
      BY <1>4, <2>2 DEF Subscribing, WriteDelivered, Dialed
    <3>2. PICK e \in pendingInit : e.id = out[p].id /\ e.ch = ch
      BY <1>4, <2>2 DEF Subscribing, Awaits, WriteDelivered
    <3>3. AcceptSubscribe(conn, out[p])
      BY <1>4, <3>1 DEF WriteDelivered, Receive, AcceptUpdate, AcceptSnapshot,
                       AcceptUnsubscribe, Reject, UnknownSid
    <3> DEFINE m == Msg("subscribed", out[p].id, Len(subs[conn]) + 1, 0, {})
    <3>4. Enqueued(conn, m) /\ m.type = "subscribed" /\ m.id = out[p].id
      BY <3>3 DEF AcceptSubscribe, Enqueued, Msg
    <3> HIDE DEF m
    <3>5. UNCHANGED conn /\ e \in pendingInit' /\ conn \in Conns
      BY <1>1, <3>1, <3>2, Types DEF Sent
    <3>6. PICK n \in DOMAIN down'[conn] : down'[conn][n] = m
      BY <3>1, <3>4, <3>5, LaterAnswers
    <3> QED BY <3>1, <3>2, <3>4, <3>5, <3>6 DEF ToBeRead
  <2> QED BY <2>1, <2>2
<1>5. CASE WriteLost(p)
  <2>1. pc[p] = "write" /\ ~Up(out[p].conn) /\ UNCHANGED <<link, conn>>
    BY <1>1, <1>5 DEF WriteLost, serverVars, Sent, Written, SendFrame
  <2>2. out[p].conn # NoConn
    BY <2>1 DEF Dialed
  <2>3. out[p].conn = conn => Severed'
    BY <2>1, <2>2 DEF Severed, Up
  <2>4. Subscribing(p, ch) => out[p].conn = conn
    BY <2>1 DEF Subscribing
  <2>5. p = Reader => out[p].conn = conn
    BY <2>1 DEF Recovery, Course
  <2> QED BY <2>3, <2>4, <2>5
<1>6. CASE WriteTimeout(p)
  <2>1. p = Reader /\ ctxDone
    BY <1>6 DEF WriteTimeout
  <2>2. ~out'[p].ok
    BY <1>6, Types DEF WriteTimeout, Written, SendRecord
  <2>3. GivingUp'
    BY <1>1, <2>1, <2>2 DEF GivingUp, Sent
  <2> QED BY <2>1, <2>3
<1> QED BY <1>2, <1>3, <1>4, <1>5, <1>6 DEF SendStep

LEMMA SendRecovery ==
    ASSUME Inv, Dialed, Recovery, ~MayReject, ~MayTimeout, NEW p \in Procs, SendStep(p)
    PROVE  Recovery'
<1>1. Sent(p) /\ Reader \in Procs
  BY SendSent, ReaderIsNoCaller
<1>2. MappedSubscribed'
  BY <1>1 DEF Sent, Recovery, MappedSubscribed
<1>3. PlainCalls'
  <2>1. pc[p] \in Sending /\ pc'[p] \in Sending /\ pc'[p] # "closing"
    BY <1>1 DEF Sent, Sending
  <2>2. pc'[p] \in {"register", "grab", "write"} => ~out'[p].ok
    BY <1>1 DEF Sent, Recovery, PlainCalls
  <2>3. p \in Callers =>
          /\ call'[p].op \in RecoverableOps \cup {"none"}
          /\ out'[p].kind = "subscribe" =>
               call'[p].op = "subscribe" /\ out'[p].ch = Head(call'[p].chs)
    BY <1>1, <2>1 DEF Sent, Recovery, PlainCalls, Ch
  <2>4. /\ \A q \in Procs \ {p} : Rests(q)
        /\ \A q \in Callers \ {p} : call'[q] = call[q]
    BY <1>1 DEF Sent
  <2> QED BY <2>1, <2>2, <2>3, <2>4, PlainRests DEF Recovery
<1>4. Severed => Severed'
  BY <1>1, SeveredStays DEF Sent
<1>5. Course'
  <2>1. CASE p # Reader
    <3>1. ReaderRests
      BY <1>1, <2>1 DEF Sent, ReaderRests
    <3> QED BY <1>1, <1>4, <3>1 DEF Course, Recovery, ReaderRests, Rests, Resending, Sent
  <2>2. CASE p = Reader
    <3>1. /\ pc[Reader] \in {"register", "grab", "write"}
          /\ pc'[Reader] \in {"grab", "write", "finish"} /\ out'[Reader].kind = out[Reader].kind
          /\ UNCHANGED <<conn, rconn, seen, ctxDone>>
      BY <1>1, <2>2 DEF Sent
    <3>2. Resending' <=> Resending
      BY <3>1 DEF Resending, Sending
    <3>3. pc'[Reader] = "write" => out'[Reader].conn = conn'
      <4>1. CASE GrabConn(p)
        BY <2>2, <3>1, <4>1, Types DEF GrabConn, SendRecord
      <4>2. CASE ~GrabConn(p)
        <5>1. pc'[Reader] # "write"
          BY <2>2, <4>2, Types DEF SendStep, Register, WriteDelivered, WriteLost,
                                   WriteTimeout, Written
        <5> QED BY <5>1
      <4> QED BY <4>1, <4>2
    <3>4. pc'[Reader] = "finish" /\ out'[Reader].kind = "subscribe" /\ ~out'[Reader].ok
            => Severed' \/ ctxDone'
      BY <2>2, <3>1, SubscribeEnds
    <3> QED BY <3>1, <3>2, <3>3, <3>4 DEF Course, Recovery
  <2> QED BY <2>1, <2>2
<1>6. ASSUME NEW ch \in Channels, Wanted(ch)' PROVE Secured(ch)'
  <2>1. Secured(ch)
    BY <1>1, <1>6 DEF Sent, Recovery, AllSecured, Wanted
  <2>2. Unharmed(ch)
    BY <1>1 DEF Sent, Unharmed, HasSID
  <2>3. (GivingUp => GivingUp') /\ (ToRecover(ch) => ToRecover(ch)')
    <3>1. CASE p # Reader
      <4>1. ReaderRests /\ channels'[ch] = channels[ch]
        BY <1>1, <3>1 DEF Sent, ReaderRests
      <4> QED BY <4>1, ReaderElsewhere
    <3>2. CASE p = Reader
      BY <1>1, <3>2 DEF Sent, GivingUp, ToRecover, Resending, Sending
    <3> QED BY <3>1, <3>2
  <2>4. ASSUME Subscribing(p, ch) PROVE Secured(ch)'
    <3>1. out[p].kind = "subscribe" /\ out[p].ch = ch
      BY <2>4 DEF Subscribing
    <3>2. CASE pc'[p] = "finish"
      BY <2>4, <3>1, <3>2, SubscribeEnds DEF Secured
    <3>3. CASE Register(p)
      <4>1. /\ [id |-> NextID, ch |-> ch] \in pendingInit'
            /\ out' = [out EXCEPT ![p].id = NextID] /\ pc'[p] = "grab"
        BY <3>1, <3>3, Types DEF Register
      <4>2. out'[p].id = NextID
        BY <4>1, Types DEF SendRecord
      <4>3. Awaits(p)'
        BY <1>1, <3>1, <4>1, <4>2 DEF Awaits, Sent
      <4> QED BY <1>1, <3>1, <4>1, <4>3 DEF Subscribing, Sent, Secured
    <3>4. CASE GrabConn(p) /\ pc'[p] = "write"
      <4>1. pc[p] = "grab" /\ out'[p].conn = conn' /\ out'[p].id = out[p].id
        BY <1>1, <3>4, Types DEF GrabConn, SendRecord, Sent
      <4>2. Awaits(p)'
        BY <1>1, <2>4, <4>1 DEF Subscribing, Awaits, Sent
      <4> QED BY <1>1, <3>1, <3>4, <4>1, <4>2 DEF Subscribing, Sent, Secured
    <3>5. pc'[p] = "finish" \/ Register(p) \/ (GrabConn(p) /\ pc'[p] = "write")
      BY Types DEF SendStep, GrabConn, WriteDelivered, WriteLost, WriteTimeout, Written
    <3> QED BY <3>2, <3>3, <3>4, <3>5
  <2>5. \A q \in Procs \ {p} : Rests(q)
    BY <1>1 DEF Sent
  <2> QED BY <2>1, <2>2, <2>3, <2>4, <2>5, StaysSecured DEF Secured
<1> QED BY <1>2, <1>3, <1>5, <1>6 DEF Recovery, AllSecured
-----------------------------------------------------------------------------
(* The steps of the loop.                                                  *)

\* The callers make no step.
LEMMA PlainReader ==
    ASSUME Inv, PlainCalls, \A q \in Procs \ {Reader} : Rests(q), UNCHANGED call,
           pc'[Reader] \in {"register", "grab", "write"} => ~out'[Reader].ok
    PROVE  PlainCalls'
<1>1. Reader \in Procs /\ Reader \notin Callers
  BY ReaderIsNoCaller
<1> QED BY <1>1, PlainRests

\* The loop goes to l, with what it sends and has visited left alone.
Loops(l) ==
    /\ Goto(l) /\ LinkStep
    /\ UNCHANGED <<down, pendingInit, channels, obj, sidMap, ctxDone, call, out, todo, seen>>

LEMMA LoopStepsLoop ==
    ASSUME Inv, LoopSteps
    PROVE  /\ LinkStep
           /\ UNCHANGED <<down, pendingInit, channels, obj, sidMap, ctxDone, call,
                          out, todo, seen>>
<1>1. LinkStep
  BY LoopStepsDial DEF DialedEffect
<1>2. LoopFrame
  BY DEF LoopSteps, LoopTop, Dial, Wait, EnterReadLoop, ReadError, CheckForce,
         LoopLeaves, WaitLoss, Redial
<1>3. UNCHANGED down
  BY DEF LoopSteps, LoopTop, Dial, Wait, EnterReadLoop, ReadError, CheckForce,
         LoopLeaves, WaitLoss, Redial, Dialled, DialFailed, serverVars
<1> QED BY <1>1, <1>2, <1>3 DEF LoopFrame, cmdVars, stateVars

\* The loop goes on with the connection that it has.
LEMMA LoopsOn ==
    ASSUME Inv, Dialed, Recovery, NEW l, Loops(l), UNCHANGED conn,
           pc[Reader] \notin Sending \cup {"next"}, l \notin Sending \cup {"next", "recover"},
           rconn' \in {rconn, conn},
           l \in {"dial", "waitLoss", "redial"} => conn = NoConn,
           GivingUp => l = "done" \/ (ctxDone /\ l = "top"),
           pc[Reader] \in {"waitLoss", "redial", "recover"} =>
               l \in {"done", "redial"} \/ (ctxDone /\ l = "top")
    PROVE  Recovery'
<1>1. /\ Reader \in Procs /\ pc'[Reader] = l
      /\ \A q \in Procs \ {Reader} : Rests(q)
  BY Types, ReaderIsNoCaller DEF Loops, Goto, Rests
<1>2. PlainCalls' /\ MappedSubscribed'
  <2>1. UNCHANGED call /\ pc'[Reader] \notin {"register", "grab", "write"}
    BY <1>1 DEF Loops, Sending
  <2>2. PlainCalls'
    BY <1>1, <2>1, PlainReader DEF Recovery
  <2> QED BY <2>2 DEF Loops, Recovery, MappedSubscribed
<1>3. ~Resending /\ ~Resending' /\ UNCHANGED <<conn, seen>>
  BY <1>1 DEF Resending, Loops
<1>4. Course'
  BY <1>1, <1>3 DEF Course, Recovery, Sending
<1>5. ASSUME NEW ch \in Channels, Wanted(ch)' PROVE Secured(ch)'
  <2>1. Secured(ch)
    BY <1>5 DEF Loops, Recovery, AllSecured, Wanted
  <2>2. Unharmed(ch)
    BY DEF Loops, Unharmed, HasSID, AnswerThere
  <2>3. l = "done" \/ (ctxDone /\ l = "top") => GivingUp'
    BY <1>1 DEF GivingUp, Loops
  <2>4. GivingUp => Secured(ch)'
    BY <2>3 DEF Secured
  <2>5. ToRecover(ch) => Secured(ch)'
    BY <1>1, <1>3, <2>3 DEF ToRecover, Secured
  <2>6. ~Subscribing(Reader, ch)
    BY DEF Subscribing, Sending
  <2> QED BY <1>1, <2>1, <2>2, <2>4, <2>5, <2>6, StaysSecured DEF Recovery
<1> QED BY <1>2, <1>4, <1>5 DEF Recovery, AllSecured

\* The loop has a new connection, having had none.
LEMMA LoopsAnew ==
    ASSUME Inv, Dialed, Recovery, NEW l, Loops(l), conn = NoConn, conn' # NoConn,
           UNCHANGED rconn, rconn = NoConn,
           \/ pc[Reader] = "redial" /\ l = "recover"
           \/ pc[Reader] = "dial" /\ l = "enter"
    PROVE  Recovery'
<1>1. /\ Reader \in Procs /\ pc'[Reader] = l
      /\ \A q \in Procs \ {Reader} : Rests(q)
  BY Types, ReaderIsNoCaller DEF Loops, Goto, Rests
<1>2. PlainCalls' /\ MappedSubscribed'
  <2>1. UNCHANGED call /\ pc'[Reader] \notin {"register", "grab", "write"}
    BY <1>1 DEF Loops
  <2>2. PlainCalls'
    BY <1>1, <2>1, PlainReader DEF Recovery
  <2> QED BY <2>2 DEF Loops, Recovery, MappedSubscribed
<1>3. ~Resending /\ ~Resending' /\ UNCHANGED seen
  BY <1>1 DEF Resending, Loops, Sending
<1>4. Course'
  BY <1>1, <1>3 DEF Course, Recovery
<1>5. ASSUME NEW ch \in Channels, Wanted(ch)' PROVE Secured(ch)'
  <2>1. Secured(ch)
    BY <1>5 DEF Loops, Recovery, AllSecured, Wanted
  <2>2. CASE l = "recover"
    BY <1>1, <2>2 DEF ToRecover, Secured
  <2>3. CASE pc[Reader] = "dial"
    <3>1. ~Severed /\ ~GivingUp /\ ~ToRecover(ch) /\ ~ToBeRead(ch)
      BY <2>3 DEF Severed, GivingUp, ToRecover, Resending, Sending, ToBeRead
    <3>2. HasSID(ch) => HasSID(ch)'
      BY DEF HasSID, Loops
    <3>3. ASSUME NEW q \in Procs, Subscribing(q, ch) PROVE Subscribing(q, ch)'
      <4>1. q # Reader /\ Rests(q)
        BY <1>1, <2>3, <3>3 DEF Subscribing
      <4>2. pc[q] # "write" \/ out[q].conn # conn
        BY DEF Dialed
      <4>3. Awaits(q)' <=> Awaits(q)
        BY DEF Awaits, Loops
      <4> QED BY <3>3, <4>1, <4>2, <4>3 DEF Subscribing, Rests
    <3> QED BY <2>1, <3>1, <3>2, <3>3 DEF Secured
  <2> QED BY <2>2, <2>3
<1> QED BY <1>2, <1>4, <1>5 DEF Recovery, AllSecured

LEMMA LoopRecovery ==
    ASSUME Inv, Dialed, Recovery, ~DialMayFail, LoopSteps PROVE Recovery'
<1>1. /\ LinkStep
      /\ UNCHANGED <<down, pendingInit, channels, obj, sidMap, ctxDone, call,
                     out, todo, seen>>
  BY LoopStepsLoop
<1>2. Course
  BY DEF Recovery
<1>3. CASE LoopTop
  <2>1. PICK l \in {"done", "dial", "enter"} : Goto(l) /\ (l = "dial" => conn = NoConn)
                                            /\ (ctxDone => l = "done")
    BY <1>3, Zenon DEF LoopTop, FromTop
  <2>2. UNCHANGED <<conn, rconn>> /\ pc[Reader] = "top"
    BY <1>3 DEF LoopTop, At
  <2>3. GivingUp => ctxDone
    BY <2>2 DEF GivingUp
  <2>4. Loops(l)
    BY <1>1, <2>1 DEF Loops
  <2> QED BY <2>1, <2>2, <2>3, <2>4, LoopsOn DEF Sending
<1>4. CASE Dial
  <2>1. pc[Reader] = "dial" /\ UNCHANGED rconn /\ conn = NoConn /\ rconn = NoConn
    BY <1>2, <1>4 DEF Dial, At, Course, Inv, Shape, ReaderShape, Detached
  <2>2. CASE Dialled /\ Goto("enter")
    <3>1. conn' # NoConn
      BY <2>2, Types, LenProperties DEF Dialled, NoConn
    <3>2. Loops("enter")
      BY <1>1, <2>2 DEF Loops
    <3> QED BY <2>1, <3>1, <3>2, LoopsAnew
  <2>3. CASE DialFailed(Reader) /\ Goto("wait")
    <3>1. UNCHANGED conn /\ Loops("wait") /\ ~GivingUp
      BY <1>1, <2>1, <2>3 DEF DialFailed, Loops, GivingUp
    <3> QED BY <2>1, <3>1, LoopsOn DEF Sending
  <2> QED BY <1>4, <2>2, <2>3 DEF Dial
<1>5. CASE Wait
  <2>1. PICK l \in {"done", "top"} : Goto(l)
    BY <1>5 DEF Wait
  <2>2. UNCHANGED <<conn, rconn>> /\ pc[Reader] = "wait"
    BY <1>5 DEF Wait, At
  <2>3. GivingUp => ctxDone
    BY <2>2 DEF GivingUp
  <2>4. Loops(l)
    BY <1>1, <2>1 DEF Loops
  <2> QED BY <2>1, <2>2, <2>3, <2>4, LoopsOn DEF Sending
<1>6. CASE EnterReadLoop
  <2>1. PICK l \in {"panic", "read"} : Goto(l)
    BY <1>6, Zenon DEF EnterReadLoop
  <2>2. UNCHANGED conn /\ rconn' = conn /\ pc[Reader] = "enter" /\ ~GivingUp
    BY <1>6 DEF EnterReadLoop, At, GivingUp
  <2>3. Loops(l)
    BY <1>1, <2>1 DEF Loops
  <2> QED BY <2>1, <2>2, <2>3, LoopsOn DEF Sending
<1>7. CASE ReadError \/ CheckForce \/ LoopLeaves
  <2>1. PICK l \in {"returned", "read", "done"} : Goto(l)
    BY <1>7, Zenon DEF ReadError, CheckForce, LoopLeaves
  <2>2. /\ UNCHANGED <<conn, rconn>> /\ pc[Reader] \in {"read", "check", "returned"}
        /\ ~GivingUp
    BY <1>7 DEF ReadError, CheckForce, LoopLeaves, At, GivingUp
  <2>3. Loops(l)
    BY <1>1, <2>1 DEF Loops
  <2> QED BY <2>1, <2>2, <2>3, LoopsOn DEF Sending
<1>8. CASE WaitLoss
  <2>1. PICK l \in {"done", "redial"} : Goto(l)
    BY <1>8 DEF WaitLoss
  <2>2. UNCHANGED <<conn, rconn>> /\ pc[Reader] = "waitLoss" /\ ~GivingUp /\ conn = NoConn
    BY <1>2, <1>8 DEF WaitLoss, At, GivingUp, Course
  <2>3. Loops(l)
    BY <1>1, <2>1 DEF Loops
  <2> QED BY <2>1, <2>2, <2>3, LoopsOn DEF Sending
<1>9. CASE Redial
  <2>1. pc[Reader] = "redial" /\ UNCHANGED rconn /\ conn = NoConn /\ rconn = NoConn
    BY <1>2, <1>9 DEF Redial, At, Course, Inv, Shape, ReaderShape, Detached
  <2>2. CASE Dialled /\ Goto("recover")
    <3>1. conn' # NoConn
      BY <2>2, Types, LenProperties DEF Dialled, NoConn
    <3>2. Loops("recover")
      BY <1>1, <2>2 DEF Loops
    <3> QED BY <2>1, <3>1, <3>2, LoopsAnew
  <2>3. CASE DialFailed(Reader) /\ Goto("top")
    <3>1. UNCHANGED conn /\ Loops("top") /\ ctxDone
      BY <1>1, <2>3 DEF DialFailed, Loops
    <3> QED BY <2>1, <3>1, LoopsOn DEF Sending
  <2> QED BY <1>9, <2>2, <2>3 DEF Redial
<1> QED BY <1>3, <1>4, <1>5, <1>6, <1>7, <1>8, <1>9 DEF LoopSteps
-----------------------------------------------------------------------------
(* Reading and handling a message.                                         *)

\* The reader goes on with what it has read, and subscribes to nothing itself.
ReadsOn ==
    /\ LinkStep /\ UNCHANGED <<conn, rconn, call, seen>>
    /\ \A q \in Procs \ {Reader} : Rests(q)
    /\ \/ pc[Reader] \in {"read", "deliver"}
       \/ pc[Reader] = "finish" /\ out[Reader].kind = "add"
    /\ \/ pc'[Reader] \in {"check", "deliver"}
       \/ pc'[Reader] = "register" /\ out'[Reader].kind = "add" /\ ~out'[Reader].ok

LEMMA ReadsOnKeeps ==
    ASSUME Inv, Dialed, Recovery, ReadsOn
    PROVE  /\ Course' /\ PlainCalls'
           /\ \A ch \in Channels : Secured(ch) /\ Unharmed(ch) => Secured(ch)'
<1>1. ~Resending /\ ~Resending' /\ ~GivingUp
  BY DEF ReadsOn, Resending, GivingUp, Sending
<1>2. Course'
  BY <1>1 DEF ReadsOn, Recovery, Course
<1>3. PlainCalls'
  BY PlainReader DEF ReadsOn, Recovery
<1>4. ASSUME NEW ch \in Channels, Secured(ch), Unharmed(ch) PROVE Secured(ch)'
  <2>1. ~ToRecover(ch) /\ ~Subscribing(Reader, ch)
    BY <1>1 DEF ReadsOn, ToRecover, Subscribing
  <2>2. \A q \in Procs \ {Reader} : Rests(q)
    BY DEF ReadsOn
  <2> QED BY <1>1, <1>4, <2>1, <2>2, ReaderIsNoCaller, StaysSecured
<1> QED BY <1>2, <1>3, <1>4

\* Reading takes the first message; the others stay.
LEMMA OthersToBeRead ==
    ASSUME Inv, NEW type, Incoming(type), conn = rconn, UNCHANGED conn,
           NEW e, AnswerThere(e), M.type = "subscribed" => M.id # e.id
    PROVE  AnswerThere(e)'
<1>1. /\ conn \in Conns /\ down[conn] # <<>> /\ M = Head(down[conn])
      /\ down \in [Conns -> Seq(Message)]
      /\ down' = [down EXCEPT ![conn] = Tail(down[conn])]
  <2>1. rconn \in Conns
    BY IncomingFacts
  <2> QED BY <2>1, Types DEF Incoming, M
<1>2. /\ down[conn] \in Seq(Message) /\ Len(down[conn]) \in Nat \ {0}
      /\ DOMAIN down[conn] = 1..Len(down[conn])
  <2>1. down[conn] \in Seq(Message)
    BY <1>1
  <2> QED BY <1>1, <2>1, LenProperties, EmptySeq
<1>3. /\ Head(down[conn]) = down[conn][1] /\ Len(Tail(down[conn])) = Len(down[conn]) - 1
      /\ Tail(down[conn]) \in Seq(Message)
      /\ \A i \in 1..Len(Tail(down[conn])) : Tail(down[conn])[i] = down[conn][i + 1]
  BY <1>1, <1>2, HeadTailProperties
<1>4. DOMAIN Tail(down[conn]) = 1..(Len(down[conn]) - 1)
  BY <1>3, LenProperties
<1>5. PICK i \in DOMAIN down[conn] : down[conn][i].type = "subscribed" /\ down[conn][i].id = e.id
  BY DEF AnswerThere
<1>6. i # 1
  BY <1>1, <1>3, <1>5
<1>7. i - 1 \in DOMAIN Tail(down[conn]) /\ Tail(down[conn])[i - 1] = down[conn][i]
  BY <1>2, <1>3, <1>4, <1>5, <1>6
<1>8. down'[conn] = Tail(down[conn])
  BY <1>1
<1> QED BY <1>5, <1>7, <1>8 DEF AnswerThere

LEMMA HandleReadsOn ==
    ASSUME Inv, Recovery, HandleIncoming
    PROVE  ReadsOn /\ conn = rconn /\ UNCHANGED <<ctxDone, channels>>
<1>1. PICK type : Incoming(type)
  BY DEF HandleIncoming, HandleSubscribed, HandleUnknownId, HandleOK,
         HandleUnsubscribed, HandleError, HandleDataMessage
<1>2. /\ LinkStep /\ UNCHANGED <<conn, rconn, call, seen, ctxDone>> /\ rconn # NoConn
      /\ pc[Reader] = "read"
  BY <1>1, IncomingFacts DEF LinkStep, Incoming, At
<1>3. \/ UNCHANGED out /\ \E l \in {"check", "deliver"} : Goto(l)
      \/ \E cmd : SendStart(Reader, cmd) /\ cmd.kind = "add" /\ ~cmd.ok
  <2>1. CASE HandleSubscribed
    <3>1. PICK e \in pendingInit :
            LET cmd == Command("add", e.ch, M.sid, obj[channels[e.ch]].pending, FALSE)
            IN  Handled \/ SendStart(Reader, cmd)
      BY <2>1 DEF HandleSubscribed
    <3> DEFINE cmd == Command("add", e.ch, M.sid, obj[channels[e.ch]].pending, FALSE)
    <3>2. cmd.kind = "add" /\ ~cmd.ok
      BY DEF Command
    <3>3. Handled \/ SendStart(Reader, cmd)
      BY <3>1
    <3> HIDE DEF cmd
    <3> QED BY <3>2, <3>3 DEF Handled
  <2>2. CASE HandleDataMessage
    BY <2>2 DEF HandleDataMessage, Handled
  <2>3. CASE HandleUnknownId \/ HandleOK \/ HandleUnsubscribed \/ HandleError
    BY <2>3 DEF HandleUnknownId, HandleOK, HandleUnsubscribed, HandleError, Handled
  <2> QED BY <2>1, <2>2, <2>3 DEF HandleIncoming
<1>4. /\ \A q \in Procs \ {Reader} : Rests(q)
      /\ \/ pc'[Reader] \in {"check", "deliver"}
         \/ pc'[Reader] = "register" /\ out'[Reader].kind = "add" /\ ~out'[Reader].ok
  <2>1. CASE UNCHANGED out /\ \E l \in {"check", "deliver"} : Goto(l)
    BY <2>1, Types, ReaderIsNoCaller DEF Goto, Rests
  <2>2. ASSUME NEW cmd, SendStart(Reader, cmd), cmd.kind = "add", ~cmd.ok
        PROVE  /\ \A q \in Procs \ {Reader} : Rests(q)
               /\ pc'[Reader] = "register" /\ out'[Reader].kind = "add" /\ ~out'[Reader].ok
    BY <2>2, Types, ReaderIsNoCaller DEF SendStart, Rests
  <2> QED BY <1>3, <2>1, <2>2
<1>5. UNCHANGED channels
  BY DEF HandleIncoming, HandleSubscribed, HandleUnknownId, HandleOK,
         HandleUnsubscribed, HandleError, HandleDataMessage, stateVars
<1> QED BY <1>2, <1>4, <1>5 DEF ReadsOn, Recovery, Course

\* Nothing becomes wanted of a channel that has no sid.
LEMMA HandlesWanted ==
    ASSUME Inv, MappedSubscribed, HandleIncoming, NEW ch \in Channels
    PROVE  StillWanted(ch) \/ HasSID(ch)'
<1>0. UNCHANGED channels
  BY DEF HandleIncoming, HandleSubscribed, HandleUnknownId, HandleOK,
         HandleUnsubscribed, HandleError, HandleDataMessage, stateVars
<1>1. CASE UNCHANGED obj
  BY <1>0, <1>1 DEF StillWanted
<1>2. ASSUME NEW o \in Objs, NEW state, obj' = [obj EXCEPT ![o] = state],
             state.global = obj[o].global,
             state.markets = obj[o].markets \/ state.sid # NoSID
      PROVE  StillWanted(ch) \/ HasSID(ch)'
  <2>1. channels[ch] # Nil => channels[ch] \in Objs
    BY Types
  <2>2. obj'[o] = state /\ \A q \in Objs \ {o} : obj'[q] = obj[q]
    BY <1>2, Types
  <2> QED BY <1>0, <1>2, <2>1, <2>2 DEF StillWanted, HasSID
<1>3. CASE HandleSubscribed /\ ~UNCHANGED obj
  <2>1. PICK e : Subscribed(e)
    BY <1>3, SubscribedStep
  <2> DEFINE o == channels[e.ch]
             state == [obj[o] EXCEPT !.sid = M.sid, !.pending = {}]
  <2>2. o # Nil /\ obj' = [obj EXCEPT ![o] = state] /\ e.ch \in Channels
    BY <1>3, <2>1 DEF Subscribed
  <2>3. o \in Objs
    BY <2>2, Types
  <2>4. state.global = obj[o].global /\ state.markets = obj[o].markets
    BY <2>3, Types DEF ChannelState
  <2> HIDE DEF o, state
  <2> QED BY <1>2, <2>2, <2>3, <2>4
<1>4. CASE (HandleOK \/ HandleDataMessage) /\ ~UNCHANGED obj
  <2> DEFINE o == StateOf(M.sid)
             state == [obj[o] EXCEPT !.seq = M.seq]
  <2>1. /\ o # Nil
        /\ obj' = [obj EXCEPT ![o] = Reconciled(o)] \/ obj' = [obj EXCEPT ![o].seq = M.seq]
    BY <1>4 DEF HandleOK, HandleDataMessage
  <2>2. o \in Objs /\ obj[o] \in ChannelState
    BY <2>1, StateOfType
  <2>3. obj[o].sid # NoSID
    BY <2>1 DEF MappedSubscribed, StateOf
  <2>4. /\ Reconciled(o).global = obj[o].global /\ Reconciled(o).sid # NoSID
        /\ state.global = obj[o].global /\ state.sid # NoSID
    BY <2>2, <2>3 DEF Reconciled, ChannelState
  <2>5. obj' = [obj EXCEPT ![o] = Reconciled(o)] \/ obj' = [obj EXCEPT ![o] = state]
    BY <2>1
  <2> HIDE DEF o, state
  <2> QED BY <1>2, <2>2, <2>4, <2>5
<1> QED BY <1>1, <1>3, <1>4
        DEF HandleIncoming, HandleUnknownId, HandleUnsubscribed, HandleError, stateVars

\* What handling does to the sids.
LEMMA HandlesMapped ==
    ASSUME Inv, MappedSubscribed, HandleIncoming PROVE MappedSubscribed'
<1>1. CASE HandleSubscribed
  <2>1. PICK e : Subscribed(e)
    BY <1>1, SubscribedStep
  <2> DEFINE o == channels[e.ch]
             state == [obj[o] EXCEPT !.sid = M.sid, !.pending = {}]
  <2>2. M.sid \in Sids /\ e.ch \in Channels /\ M.sid # NoSID
    BY <2>1 DEF Subscribed, Sids, NoSID
  <2>3. CASE UNCHANGED <<sidMap, obj>>
    BY <2>3 DEF MappedSubscribed
  <2>4. CASE ~UNCHANGED <<sidMap, obj>>
    <3>1. /\ o # Nil /\ sidMap' = [sidMap EXCEPT ![M.sid] = o]
          /\ obj' = [obj EXCEPT ![o] = state]
      BY <2>1, <2>4 DEF Subscribed
    <3>2. o \in Objs
      BY <2>2, <3>1, Types
    <3>3. state.sid = M.sid
      BY <3>2, Types DEF ChannelState
    <3> HIDE DEF o, state
    <3>4. obj'[o].sid # NoSID /\ \A q \in Objs \ {o} : obj'[q] = obj[q]
      BY <2>2, <3>1, <3>2, <3>3, Types
    <3>5. \A s \in Sids : sidMap'[s] \in {sidMap[s], o} /\ sidMap[s] \in Objs \cup {Nil}
      BY <3>1, Types
    <3>6. Nil \notin Objs
      BY Types
    <3> QED BY <3>2, <3>4, <3>5, <3>6 DEF MappedSubscribed
  <2> QED BY <2>3, <2>4
<1>2. CASE ~HandleSubscribed
  <2>1. \A s \in Sids : sidMap'[s] = Nil \/ sidMap'[s] = sidMap[s]
    BY <1>2, Types DEF HandleIncoming, HandleUnknownId, HandleOK, HandleUnsubscribed,
                       HandleError, HandleDataMessage, stateVars
  <2>2. \A o \in Objs : obj'[o].sid = obj[o].sid
    BY <1>2, HandlersKeep
  <2>3. \A s \in Sids : sidMap[s] # Nil => sidMap[s] \in Objs
    BY Types
  <2> QED BY <2>1, <2>2, <2>3 DEF MappedSubscribed
<1> QED BY <1>1, <1>2

LEMMA HandleRecovery ==
    ASSUME Inv, Dialed, Recovery, HandleIncoming PROVE Recovery'
<1>1. ReadsOn /\ conn = rconn /\ UNCHANGED <<ctxDone, channels, conn>> /\ LinkStep
  BY HandleReadsOn DEF ReadsOn
<1>2. Course' /\ PlainCalls' /\ MappedSubscribed'
  BY <1>1, ReadsOnKeeps, HandlesMapped DEF Recovery
<1>3. PICK type : Incoming(type)
  BY DEF HandleIncoming, HandleSubscribed, HandleUnknownId, HandleOK,
         HandleUnsubscribed, HandleError, HandleDataMessage
<1>4. M.type = type
  BY <1>3, IncomingFacts
<1>5. ASSUME NEW ch \in Channels, Wanted(ch)' PROVE Secured(ch)'
  <2>1. CASE HasSID(ch)'
    BY <2>1 DEF Secured
  <2>2. CASE ~HasSID(ch)'
    <3>1. Secured(ch)
      BY <1>5, <2>2, HandlesWanted, StillWantedIs DEF Recovery, AllSecured
    <3>2. channels[ch] \in Objs
      BY <1>1, <1>5, Types DEF Wanted
    <3>3. CASE HandleSubscribed
      <4>1. PICK e : Subscribed(e)
        BY <3>3, SubscribedStep
      <4>2. /\ e \in pendingInit /\ e.id = M.id /\ pendingInit' = pendingInit \ {e}
            /\ e.ch \in Channels /\ M.sid # NoSID
        BY <4>1 DEF Subscribed, Sids, NoSID
      <4>3. ch # e.ch /\ (HasSID(ch) => HasSID(ch)')
        <5> DEFINE o == channels[e.ch]
                   state == [obj[o] EXCEPT !.sid = M.sid, !.pending = {}]
        <5>1. CASE UNCHANGED obj /\ o = Nil
          BY <1>1, <3>2, <5>1, Types DEF HasSID
        <5>2. CASE o # Nil /\ obj' = [obj EXCEPT ![o] = state]
          <6>1. o \in Objs
            BY <4>2, <5>2, Types
          <6>2. state.sid = M.sid
            BY <6>1, Types DEF ChannelState
          <6>3. obj'[o].sid = M.sid /\ \A q \in Objs \ {o} : obj'[q] = obj[q]
            <7> HIDE DEF o, state
            <7> QED BY <5>2, <6>1, <6>2, Types
          <6>4. channels[ch] # o
            BY <1>1, <2>2, <4>2, <5>2, <6>3 DEF HasSID
          <6> QED BY <1>1, <3>2, <6>3, <6>4 DEF HasSID
        <5> QED BY <4>1, <5>1, <5>2 DEF Subscribed
      <4>4. \A f \in pendingInit : f.ch = ch => f \in pendingInit' /\ f.id # M.id
        BY <4>2, <4>3 DEF Inv, IdsUnique
      <4>5. \A f \in pendingInit : f.ch = ch /\ AnswerThere(f) => AnswerThere(f)'
        BY <1>1, <1>3, <4>4, OthersToBeRead
      <4>6. Unharmed(ch)
        BY <1>1, <4>3, <4>4, <4>5 DEF Unharmed
      <4> QED BY <1>1, <3>1, <4>6, ReadsOnKeeps
    <3>4. CASE ~HandleSubscribed
      <4>1. UNCHANGED pendingInit /\ (HasSID(ch) => HasSID(ch)')
        BY <1>1, <3>2, <3>4, HandlersKeep DEF HasSID
      <4>2. \A f \in pendingInit : M.type = "subscribed" => M.id # f.id
        <5>1. CASE HandleUnknownId
          BY <5>1 DEF HandleUnknownId
        <5>2. CASE HandleOK \/ HandleUnsubscribed \/ HandleError \/ HandleDataMessage
          <6>1. PICK t \in {"ok", "unsubscribed", "error", "data"} : Incoming(t)
            BY <5>2 DEF HandleOK, HandleUnsubscribed, HandleError, HandleDataMessage
          <6>2. M.type = t
            BY <6>1, IncomingFacts
          <6> QED BY <6>2
        <5> QED BY <3>4, <5>1, <5>2 DEF HandleIncoming
      <4>3. \A f \in pendingInit : AnswerThere(f) => AnswerThere(f)'
        BY <1>1, <1>3, <4>2, OthersToBeRead
      <4>4. Unharmed(ch)
        BY <1>1, <4>1, <4>3 DEF Unharmed
      <4> QED BY <1>1, <3>1, <4>4, ReadsOnKeeps
    <3> QED BY <3>3, <3>4
  <2> QED BY <2>1, <2>2
<1> QED BY <1>2, <1>5 DEF Recovery, AllSecured

LEMMA FlushRecovery == ASSUME Inv, Dialed, Recovery, FlushSent PROVE Recovery'
<1>1. /\ pc[Reader] = "finish" /\ out[Reader].kind = "add" /\ Reader \in Procs
      /\ UNCHANGED <<link, down, conn, rconn, pendingInit, channels, sidMap, call, seen>>
  BY ReaderIsNoCaller DEF FlushSent, At, serverVars, cmdVars
<1> DEFINE cmd == Command("add", out[Reader].ch, out[Reader].sid, obj[flushing].pending, FALSE)
<1>2. \/ SendStart(Reader, cmd) /\ obj' = [obj EXCEPT ![flushing].pending = {}]
      \/ Goto("check") /\ out' = [out EXCEPT ![Reader] = NoSend] /\ UNCHANGED obj
  BY DEF FlushSent
<1>3. cmd.kind = "add" /\ ~cmd.ok
  BY DEF Command
<1> HIDE DEF cmd
<1>4. /\ \A q \in Procs \ {Reader} : Rests(q)
      /\ \/ pc'[Reader] = "check"
         \/ pc'[Reader] = "register" /\ out'[Reader].kind = "add" /\ ~out'[Reader].ok
  BY <1>1, <1>2, <1>3, Types DEF SendStart, Goto, Rests
<1>5. ReadsOn
  BY <1>1, <1>4 DEF ReadsOn, LinkStep
<1>6. \A o \in Objs : /\ obj'[o].sid = obj[o].sid /\ obj'[o].global = obj[o].global
                      /\ obj'[o].markets = obj[o].markets
  <2>1. CASE UNCHANGED obj
    BY <2>1
  <2>2. CASE obj' = [obj EXCEPT ![flushing].pending = {}]
    <3>1. \A o \in Objs :
            obj'[o] = IF o = flushing THEN [obj[o] EXCEPT !.pending = {}] ELSE obj[o]
      BY <2>2, Types
    <3> QED BY <3>1, Types DEF ChannelState
  <2> QED BY <1>2, <2>1, <2>2
<1>7. MappedSubscribed'
  <2>1. \A s \in Sids : sidMap[s] # Nil => sidMap[s] \in Objs
    BY Types
  <2> QED BY <1>1, <1>6, <2>1 DEF Recovery, MappedSubscribed
<1>8. ASSUME NEW ch \in Channels, Wanted(ch)' PROVE Secured(ch)'
  <2>1. channels[ch] # Nil => channels[ch] \in Objs
    BY Types
  <2>2. StillWanted(ch)
    BY <1>1, <1>6, <2>1 DEF StillWanted
  <2>3. Secured(ch)
    BY <1>8, <2>2, StillWantedIs DEF Recovery, AllSecured
  <2>4. Unharmed(ch)
    BY <1>1, <1>6, <2>1 DEF Unharmed, LinkStep, HasSID, AnswerThere
  <2> QED BY <1>5, <2>3, <2>4, ReadsOnKeeps
<1> QED BY <1>5, <1>7, <1>8, ReadsOnKeeps DEF Recovery, AllSecured

LEMMA DeliverRecovery == ASSUME Inv, Dialed, Recovery, Deliver PROVE Recovery'
<1>1. /\ pc[Reader] = "deliver" /\ Goto("check") /\ Reader \in Procs
      /\ UNCHANGED <<link, down, conn, rconn, pendingInit, channels, obj, sidMap, call,
                     seen, out>>
  BY ReaderIsNoCaller DEF Deliver, At, serverVars, cmdVars, stateVars
<1>2. pc'[Reader] = "check" /\ \A q \in Procs \ {Reader} : Rests(q)
  BY <1>1, Types DEF Goto, Rests
<1>3. ReadsOn
  BY <1>1, <1>2 DEF ReadsOn, LinkStep
<1>4. MappedSubscribed'
  BY <1>1 DEF Recovery, MappedSubscribed
<1>5. ASSUME NEW ch \in Channels, Wanted(ch)' PROVE Secured(ch)'
  <2>1. Secured(ch) /\ Unharmed(ch)
    BY <1>1, <1>5
       DEF Recovery, AllSecured, Wanted, Unharmed, LinkStep, HasSID, AnswerThere
  <2> QED BY <1>3, <2>1, ReadsOnKeeps
<1> QED BY <1>3, <1>4, <1>5, ReadsOnKeeps DEF Recovery, AllSecured

-----------------------------------------------------------------------------
(* The loss and the recovery.                                              *)

LEMMA LossRecovery == ASSUME Inv, Dialed, Recovery, HandleConnectionLoss PROVE Recovery'
<1>1. /\ pc[Reader] = "returned" /\ Goto("waitLoss") /\ Reader \in Procs
      /\ conn' = NoConn /\ rconn' = NoConn /\ \A s \in Sids : sidMap'[s] = Nil
      /\ UNCHANGED <<call, out, seen>>
  BY ReaderIsNoCaller DEF HandleConnectionLoss, At, ClearedSids
<1>2. pc'[Reader] = "waitLoss" /\ \A q \in Procs \ {Reader} : Rests(q)
  BY <1>1, Types DEF Goto, Rests
<1>3. PlainCalls'
  BY <1>1, <1>2, PlainReader DEF Recovery
<1>4. ~Resending /\ ~Resending'
  BY <1>1, <1>2 DEF Resending, Sending
<1>5. Course'
  BY <1>1, <1>2, <1>4 DEF Recovery, Course
<1>6. \A ch \in Channels : Secured(ch)'
  BY <1>2 DEF ToRecover, Secured
<1> QED BY <1>1, <1>3, <1>5, <1>6 DEF Recovery, AllSecured, MappedSubscribed

\* The reader recovers, and nothing else changes but its part in it.
Recovers ==
    /\ \A q \in Procs \ {Reader} : Rests(q)
    /\ UNCHANGED <<link, down, conn, rconn, pendingInit, channels, obj, sidMap, call, ctxDone>>

LEMMA RecoversKeeps ==
    ASSUME Inv, Dialed, Recovery, Recovers,
           pc'[Reader] \in {"register", "grab", "write"} => ~out'[Reader].ok, Course',
           \A ch \in Channels :
             Wanted(ch) => /\ GivingUp => Secured(ch)'
                           /\ ToRecover(ch) => Secured(ch)'
                           /\ Subscribing(Reader, ch) => Secured(ch)'
    PROVE  Recovery'
<1>1. PlainCalls' /\ MappedSubscribed'
  <2>1. PlainCalls'
    BY PlainReader DEF Recovers, Recovery
  <2> QED BY <2>1 DEF Recovers, Recovery, MappedSubscribed
<1>2. ASSUME NEW ch \in Channels, Wanted(ch)' PROVE Secured(ch)'
  <2>1. Wanted(ch) /\ Secured(ch)
    BY <1>2 DEF Recovers, Wanted, Recovery, AllSecured
  <2>2. Unharmed(ch)
    BY DEF Recovers, Unharmed, LinkStep, HasSID, AnswerThere
  <2>3. \A q \in Procs \ {Reader} : Rests(q)
    BY DEF Recovers
  <2> QED BY <2>1, <2>2, <2>3, ReaderIsNoCaller, StaysSecured
<1> QED BY <1>1, <1>2 DEF Recovery, AllSecured

LEMMA RecoverStartRecovery == ASSUME Inv, Dialed, Recovery, RecoverStart PROVE Recovery'
<1>1. /\ pc[Reader] = "recover" /\ Goto("next") /\ Reader \in Procs
      /\ todo' = Registered /\ UNCHANGED <<out, seen, channels>>
      /\ UNCHANGED <<link, down, conn, rconn, pendingInit, obj, sidMap, call, ctxDone>>
  BY ReaderIsNoCaller DEF RecoverStart, At, RecoverFrame, serverVars, cmdVars, stateVars,
     flagVars
<1>2. pc'[Reader] = "next" /\ \A q \in Procs \ {Reader} : Rests(q)
  BY <1>1, Types DEF Goto, Rests
<1>3. Recovers
  BY <1>1, <1>2 DEF Recovers
<1>4. seen = {}
  BY <1>1 DEF Recovery, Course, Resending, Sending
<1>5. Course'
  BY <1>1, <1>2 DEF Recovery, Course, Resending
<1>6. ASSUME NEW ch \in Channels, Wanted(ch) PROVE Secured(ch)'
  <2>1. channels'[ch] \in todo' \ seen'
    BY <1>1, <1>4, <1>6 DEF Wanted, Registered
  <2> QED BY <1>2, <2>1 DEF ToRecover, Resending, Secured
<1> QED BY <1>2, <1>3, <1>5, <1>6, RecoversKeeps

LEMMA RecoverNextRecovery ==
    ASSUME Inv, Dialed, Recovery, NEW c \in Channels, RecoverNext(c) PROVE Recovery'
<1> DEFINE o == channels[c]
           tickers == IF obj[o].global THEN {} ELSE obj[o].markets
           cmd == Command("subscribe", obj[o].name, NoSID, tickers, obj[o].global)
<1>1. /\ pc[Reader] = "next" /\ o # Nil /\ o \notin seen /\ Reader \in Procs
      /\ seen' = seen \cup {o} /\ UNCHANGED todo
      /\ UNCHANGED <<link, down, conn, rconn, pendingInit, channels, obj, sidMap, call, ctxDone>>
      /\ \/ ~HasMarkets(obj[o]) /\ UNCHANGED <<pc, out>>
         \/ HasMarkets(obj[o]) /\ SendStart(Reader, cmd)
  BY ReaderIsNoCaller DEF RecoverNext, At, RecoverFrame, serverVars, cmdVars, stateVars,
     flagVars
<1>2. cmd.kind = "subscribe" /\ cmd.ch = obj[o].name /\ ~cmd.ok
  BY DEF Command
<1>3. obj[o].name = c
  BY <1>1 DEF Inv, NamesMatch
<1> HIDE DEF cmd, tickers, o
<1>4. /\ \A q \in Procs \ {Reader} : Rests(q)
      /\ \/ ~HasMarkets(obj[o]) /\ pc'[Reader] = "next"
         \/ /\ pc'[Reader] = "register" /\ out'[Reader].kind = "subscribe"
            /\ out'[Reader].ch = c /\ ~out'[Reader].ok
  BY <1>1, <1>2, <1>3, Types DEF SendStart, Rests
<1>5. Resending /\ Resending' /\ Recovers
  BY <1>1, <1>4 DEF Resending, Sending, Recovers
<1>6. Course'
  BY <1>1, <1>4, <1>5 DEF Recovery, Course
<1>7. ASSUME NEW ch \in Channels, Wanted(ch) PROVE ToRecover(ch) => Secured(ch)'
  <2>1. CASE ch = c /\ HasMarkets(obj[o])
    <3>1. Subscribing(Reader, ch)'
      BY <1>4, <2>1 DEF Subscribing
    <3> QED BY <1>1, <3>1 DEF Secured
  <2>2. CASE ch = c /\ ~HasMarkets(obj[o])
    BY <1>7, <2>2 DEF Wanted, HasMarkets, o
  <2>3. CASE ch # c
    <3>1. channels[ch] # o
      BY <1>3, <1>7, <2>3 DEF Wanted, Inv, NamesMatch
    <3>2. ToRecover(ch) => channels'[ch] \in todo' \ seen'
      BY <1>1, <3>1 DEF ToRecover
    <3> QED BY <1>5, <3>2 DEF ToRecover, Secured
  <2> QED BY <2>1, <2>2, <2>3
<1>8. ~GivingUp /\ \A ch \in Channels : ~Subscribing(Reader, ch)
  BY <1>1 DEF GivingUp, Subscribing
<1> QED BY <1>4, <1>5, <1>6, <1>7, <1>8, RecoversKeeps

LEMMA RecoverEndRecovery == ASSUME Inv, Dialed, Recovery, RecoverEnd PROVE Recovery'
<1>1. /\ pc[Reader] = "next" /\ todo \cap Registered \subseteq seen /\ Goto("top")
      /\ Reader \in Procs /\ seen' = {} /\ UNCHANGED out
      /\ UNCHANGED <<link, down, conn, rconn, pendingInit, channels, obj, sidMap, call, ctxDone>>
  BY ReaderIsNoCaller DEF RecoverEnd, At, RecoverFrame, serverVars, cmdVars, stateVars,
     flagVars
<1>2. pc'[Reader] = "top" /\ \A q \in Procs \ {Reader} : Rests(q)
  BY <1>1, Types DEF Goto, Rests
<1>3. Recovers
  BY <1>1, <1>2 DEF Recovers
<1>4. Course'
  BY <1>1, <1>2 DEF Recovery, Course, Resending, Sending
<1>5. \A ch \in Channels :
        Wanted(ch) => ~ToRecover(ch) /\ ~GivingUp /\ ~Subscribing(Reader, ch)
  BY <1>1 DEF Wanted, Registered, ToRecover, GivingUp, Subscribing
<1> QED BY <1>2, <1>3, <1>4, <1>5, RecoversKeeps

LEMMA RecoverSentRecovery == ASSUME Inv, Dialed, Recovery, RecoverSent PROVE Recovery'
<1>1. /\ pc[Reader] = "finish" /\ out[Reader].kind = "subscribe" /\ Reader \in Procs
      /\ out' = [out EXCEPT ![Reader] = NoSend]
      /\ \/ ~out[Reader].ok /\ Goto("top") /\ seen' = {}
         \/ out[Reader].ok /\ Goto("next") /\ UNCHANGED <<todo, seen>>
      /\ UNCHANGED <<link, down, conn, rconn, pendingInit, channels, obj, sidMap, call, ctxDone>>
  BY ReaderIsNoCaller DEF RecoverSent, At, RecoverFrame, serverVars, cmdVars, stateVars,
     flagVars
<1>2. /\ \A q \in Procs \ {Reader} : Rests(q)
      /\ \/ ~out[Reader].ok /\ pc'[Reader] = "top" /\ seen' = {}
         \/ out[Reader].ok /\ pc'[Reader] = "next" /\ UNCHANGED <<todo, seen>>
  BY <1>1, Types DEF Goto, Rests
<1>3. Recovers /\ Resending /\ pc'[Reader] \notin {"register", "grab", "write"}
  BY <1>1, <1>2 DEF Recovers, Resending, Sending
<1>4. Course'
  BY <1>1, <1>2, <1>3 DEF Recovery, Course, Resending
<1>5. CASE ~out[Reader].ok
  <2>1. Severed' \/ GivingUp'
    <3>1. Severed \/ ctxDone
      BY <1>1, <1>5 DEF Recovery, Course
    <3> QED BY <1>1, <1>2, <1>5, <3>1 DEF Severed, Up, GivingUp
  <2>2. \A ch \in Channels : Secured(ch)'
    BY <2>1 DEF Secured
  <2> QED BY <1>3, <1>4, <2>2, RecoversKeeps
<1>6. CASE out[Reader].ok
  <2>1. ~GivingUp /\ \A ch \in Channels : ~Subscribing(Reader, ch)
    BY <1>1, <1>6 DEF GivingUp, Subscribing
  <2>2. \A ch \in Channels : ToRecover(ch) => ToRecover(ch)'
    BY <1>1, <1>2, <1>6 DEF ToRecover, Resending
  <2> QED BY <1>3, <1>4, <2>1, <2>2, RecoversKeeps DEF Secured
<1> QED BY <1>5, <1>6

\* The consumer, the context's owner, the network and the service.
LEMMA OutsideRecovery ==
    ASSUME Inv, Dialed, Recovery, Consume \/ Cancel \/ Feed \/ UNCHANGED vars
    PROVE  Recovery'
<1>1. /\ UNCHANGED <<conn, rconn, pc, out, call, channels, sidMap, obj, pendingInit, todo, seen>>
      /\ ctxDone => ctxDone'
  BY DEF Consume, Cancel, Feed, vars, clientVars, procVars, stateVars, cmdVars, readerVars,
         flagVars
<1>2. LinkStep
  BY OutsideDials DEF DialedEffect
<1>3. \A e : conn # NoConn /\ AnswerThere(e) => AnswerThere(e)'
  <2>1. CASE UNCHANGED down
    BY <1>1, <2>1 DEF AnswerThere
  <2>2. CASE Feed
    <3>1. UNCHANGED down \/ \E k \in Conns : \E m : Enqueues(k, m)
      BY <2>2, FeedStep DEF Feed, Inv, Shape, TypeOK
    <3> QED BY <1>1, <2>1, <3>1, LaterAnswers DEF Enqueues
  <2> QED BY <2>1, <2>2 DEF Consume, Cancel, vars, serverVars
<1>4. (\A q \in Procs : Rests(q)) /\ ReaderRests /\ Reader \in Procs
  BY <1>1, ReaderIsNoCaller DEF Rests, ReaderRests
<1>5. Course'
  <2>1. Severed => Severed'
    BY <1>1, <1>2, SeveredStays
  <2> QED BY <1>1, <2>1 DEF Recovery, Course, Resending
<1>6. PlainCalls' /\ MappedSubscribed'
  BY <1>1 DEF Recovery, PlainCalls, MappedSubscribed, Ch
<1>7. ASSUME NEW ch \in Channels, Wanted(ch)' PROVE Secured(ch)'
  <2>1. Secured(ch)
    BY <1>1, <1>7 DEF Recovery, AllSecured, Wanted
  <2>2. Unharmed(ch)
    BY <1>1, <1>2, <1>3 DEF Unharmed, HasSID
  <2>3. (GivingUp => GivingUp') /\ (ToRecover(ch) => ToRecover(ch)')
    BY <1>1, <1>4, ReaderElsewhere
  <2>4. Subscribing(Reader, ch) => Subscribing(Reader, ch)'
    BY <1>4, <2>2, RestsSubscribing
  <2>5. Subscribing(Reader, ch) => Secured(ch)'
    BY <1>4, <2>4 DEF Secured
  <2>6. (GivingUp => Secured(ch)') /\ (ToRecover(ch) => Secured(ch)')
    BY <2>3 DEF Secured
  <2> QED BY <1>4, <2>1, <2>2, <2>5, <2>6, StaysSecured
<1> QED BY <1>5, <1>6, <1>7 DEF Recovery, AllSecured

-----------------------------------------------------------------------------
(* The theorem.                                                            *)

\* The service answers every command, no write fails on a connection that is up, every
\* dial succeeds, and the callers subscribe, unsubscribe, remove tickers and ask for
\* snapshots.
Recoverable ==
    /\ ~MayReject /\ ~MayTimeout /\ ~DialMayFail
    /\ \A c \in Calls : c.op \in RecoverableOps

LEMMA RecoveryStep ==
    ASSUME Recoverable, Inv, Dialed, Recovery, [Next]_vars PROVE Recovery'
<1>1. ~MayReject /\ ~MayTimeout /\ ~DialMayFail /\ \A c \in Calls : c.op \in RecoverableOps
  BY DEF Recoverable
<1>2. CASE \E p \in Callers : Begin(p) \/ Methods(p)
  BY <1>1, <1>2, BeginRecovery, MethodsRecovery
<1>3. CASE \E p \in Callers : Connect(p) \/ Close(p) \/ CloseConn(p)
  BY <1>3, NobodyConnects DEF Recovery
<1>4. CASE \E p \in Procs : SendStep(p)
  BY <1>1, <1>4, SendRecovery
<1>5. CASE LoopSteps \/ HandleIncoming \/ FlushSent \/ Deliver \/ HandleConnectionLoss
  BY <1>1, <1>5, LoopRecovery, HandleRecovery, FlushRecovery, DeliverRecovery, LossRecovery
<1>6. CASE RecoverSteps
  BY <1>6, RecoverStartRecovery, RecoverNextRecovery, RecoverEndRecovery,
     RecoverSentRecovery DEF RecoverSteps
<1> QED BY <1>2, <1>3, <1>4, <1>5, <1>6, StepCases, OutsideRecovery

LEMMA RecoveryInit == Init => Recovery
<1> SUFFICES ASSUME Init PROVE Recovery
  OBVIOUS
<1>1. /\ \A ch \in Channels : channels[ch] = Nil
      /\ \A s \in Sids : sidMap[s] = Nil
      /\ rconn = NoConn /\ seen = {}
  BY DEF Init
<1>2. pc[Reader] = "top" /\ \A p \in Callers : pc[p] = "idle" /\ call[p].op = "none"
  BY ReaderIsNoCaller DEF Init, NoCall
<1>3. \A p \in Procs : pc[p] \notin Sending
  BY DEF Init, Sending
<1>4. PlainCalls
  BY <1>2, <1>3 DEF PlainCalls, Sending
<1>5. Course
  BY <1>1, <1>2 DEF Course, Resending, Sending
<1> QED BY <1>1, <1>4, <1>5 DEF Recovery, AllSecured, Wanted, MappedSubscribed

\* At rest, on whatever connection and after however many losses, every channel that has
\* something to recover is subscribed, however the recovery and the callers' subscribes,
\* unsubscribes and removals interleave (recoverSubscriptions, handleConnectionLoss,
\* ListenLoop, Subscribe, Unsubscribe, writeJSON).
THEOREM SubscriptionsRecovered == ASSUME Recoverable PROVE Spec => []Recovered
<1>1. Inv /\ Inv' /\ Dialed /\ Recovery /\ [Next]_vars => Recovery'
  BY RecoveryStep
<1>2. Inv /\ Recovery => Recovered
  <2> SUFFICES ASSUME Inv, Recovery, Quiet, NEW ch \in Channels, Wanted(ch)
               PROVE  HasSID(ch)
    BY DEF Recovered
  <2>1. /\ pc[Reader] = "read" /\ conn = rconn /\ Up(conn) /\ down[conn] = <<>>
        /\ \A p \in Callers : pc[p] = "idle"
    BY DEF Quiet, At
  <2>2. DOMAIN <<>> = {}
    OBVIOUS
  <2>3. ~Severed /\ ~GivingUp /\ ~ToRecover(ch)
    BY <2>1 DEF Severed, GivingUp, ToRecover, Resending, Sending
  <2>4. ~ToBeRead(ch)
    BY <2>1, <2>2 DEF ToBeRead
  <2>5. \A p \in Procs : ~Subscribing(p, ch)
    BY <2>1 DEF Subscribing, Procs
  <2> QED BY <2>3, <2>4, <2>5 DEF Recovery, AllSecured, Secured
<1> QED BY <1>1, <1>2, RecoveryInit, DialedAlways, Inductive, PTL DEF Spec
=============================================================================
