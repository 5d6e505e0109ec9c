------------------------------- MODULE WSServer -------------------------------
(***************************************************************************)
(* The other end of the WebSocket client's connections: the dialled        *)
(* connections themselves (the nhooyr.io/websocket library and the         *)
(* network) and the Kalshi service behind them.  None of it is code of the *)
(* repository: it is modelled from how ws_client.go uses it and from       *)
(* specs/asyncapi.yaml, and every definition is mapped as external.        *)
(*                                                                         *)
(* Connections are numbered 1, 2, ... in the order they are dialled.  On   *)
(* each one the service keeps its subscriptions; a subscription's sid is   *)
(* its position in that list, so sids start from 1 again on every          *)
(* connection, and one sid means different things on two connections.      *)
(***************************************************************************)
EXTENDS Naturals, Sequences

CONSTANTS
    Channels,     \* the channel names
    Sequenced,    \* the channels whose messages carry a sequence number
    Tickers,      \* the market tickers
    MaxConns,     \* bound: connections dialled in a behaviour
    MaxSubs,      \* bound: subscriptions made on one connection
    MaxSeq,       \* bound: last sequence number a data message may carry
    QueueLen,     \* bound: data messages are sent while fewer than this wait
    MayReject,    \* the service may answer a command with an error
    MayLose,      \* the service may skip a sequence number
    MayDrop       \* connections may break

ASSUME ServerAssumption ==
    /\ Channels # {} /\ Sequenced \subseteq Channels
    /\ MaxConns \in Nat \ {0}
    /\ MaxSubs \in Nat /\ MaxSeq \in Nat /\ QueueLen \in Nat
    /\ {MayReject, MayLose, MayDrop} \subseteq BOOLEAN

VARIABLES
    link,         \* link[k]: state of the k-th dialled connection
    subs,         \* subs[k]: the subscriptions of connection k, in sid order
    down          \* down[k]: messages sent to the client and not read yet

serverVars == <<link, subs, down>>

Conns == 1..MaxConns
Sids == 1..MaxSubs

(* "closed" is closed by this client, "broken" lost by the network.        *)
LinkStates == {"up", "broken", "closed"}

(* What the client cannot see and the properties need: whether a numbered  *)
(* message was sent, whether one was lost after that, and the number of    *)
(* the first message sent after a loss, 0 if none.                         *)
Subscription ==
    [ch: Channels, global: BOOLEAN, tickers: SUBSET Tickers, live: BOOLEAN,
     seq: Nat, sent: BOOLEAN, lost: BOOLEAN, gap: Nat]

MessageTypes == {"subscribed", "ok", "unsubscribed", "error", "data"}
Message ==
    [type: MessageTypes, id: Nat, sid: Sids \cup {0}, seq: Nat,
     tickers: SUBSET Tickers]

Kinds == {"subscribe", "unsubscribe", "add", "delete", "snapshot"}

ServerTypeOK ==
    /\ link \in Seq(LinkStates) /\ Len(link) <= MaxConns
    /\ subs \in [Conns -> Seq(Subscription)]
    /\ \A k \in Conns : Len(subs[k]) <= MaxSubs
    /\ down \in [Conns -> Seq(Message)]

ServerInit(links) ==
    /\ link = links
    /\ subs = [k \in Conns |-> <<>>]
    /\ down = [k \in Conns |-> <<>>]

Up(k) == k \in DOMAIN link /\ link[k] = "up"
Live(k, s) == s \in DOMAIN subs[k] /\ subs[k][s].live

-----------------------------------------------------------------------------
(* The connection.                                                         *)

(* websocket.Dial succeeds: the new connection is number Len(link) + 1.    *)
Open == Len(link) < MaxConns /\ link' = Append(link, "up")

SetLink(k, s) == link' = IF Up(k) THEN [link EXCEPT ![k] = s] ELSE link

(* The network or the service ends connection k.  The last connection a    *)
(* behaviour may dial stays up, so that there always is one to recover on. *)
Break(k) ==
    /\ MayDrop /\ Up(k) /\ k < MaxConns
    /\ SetLink(k, "broken")
    /\ UNCHANGED <<subs, down>>

-----------------------------------------------------------------------------
(* Sequence numbers: one counter per subscription, shared by its data      *)
(* messages and by the answers to the commands on it.                      *)
Numbered(sub) == sub.ch \in Sequenced

Advance(sub) ==
    IF Numbered(sub)
    THEN [sub EXCEPT !.seq = @ + 1, !.sent = TRUE,
                     !.gap = IF @ = 0 /\ sub.lost THEN sub.seq + 1 ELSE @]
    ELSE sub

Skipped(sub) == [sub EXCEPT !.seq = @ + 1, !.lost = @ \/ sub.sent]

Msg(type, id, sid, seq, tickers) ==
    [type |-> type, id |-> id, sid |-> sid, seq |-> seq, tickers |-> tickers]

(* Subscription s of connection k becomes sub, advanced by the message.    *)
Answer(k, s, sub, type, id, tickers) ==
    LET next == Advance(sub)
    IN  /\ subs' = [subs EXCEPT ![k][s] = next]
        /\ down' = [down EXCEPT ![k] =
                      Append(@, Msg(type, id, s, next.seq, tickers))]

Error(k, id) ==
    /\ down' = [down EXCEPT ![k] = Append(@, Msg("error", id, 0, 0, {}))]
    /\ UNCHANGED subs

(* Commands.  A command is answered when it is written: the connection is  *)
(* a FIFO both ways, so a later answer only delays what the client reads.  *)
AcceptSubscribe(k, cmd) ==
    LET sub == [ch |-> cmd.ch, global |-> cmd.global, tickers |-> cmd.tickers,
                live |-> TRUE, seq |-> 0, sent |-> FALSE, lost |-> FALSE,
                gap |-> 0]
    IN  /\ cmd.kind = "subscribe"
        /\ Len(subs[k]) < MaxSubs
        /\ subs' = [subs EXCEPT ![k] = Append(@, sub)]
        /\ down' = [down EXCEPT ![k] =
              Append(@, Msg("subscribed", cmd.id, Len(subs[k]) + 1, 0, {}))]

(* The tickers after an update; the answer lists them.  An update narrows  *)
(* a global subscription to tickers.                                       *)
UpdatedTickers(sub, cmd) ==
    IF cmd.kind = "add" THEN sub.tickers \cup cmd.tickers
                        ELSE sub.tickers \ cmd.tickers

AcceptUpdate(k, cmd) ==
    LET sub == subs[k][cmd.sid]
        tickers == UpdatedTickers(sub, cmd)
    IN  /\ cmd.kind \in {"add", "delete"} /\ Live(k, cmd.sid)
        /\ Answer(k, cmd.sid, [sub EXCEPT !.tickers = tickers, !.global = FALSE],
                  "ok", cmd.id, tickers)

(* A snapshot comes back as a data message of the subscription.            *)
AcceptSnapshot(k, cmd) ==
    /\ cmd.kind = "snapshot" /\ Live(k, cmd.sid)
    /\ Answer(k, cmd.sid, subs[k][cmd.sid], "data", 0, {})

AcceptUnsubscribe(k, cmd) ==
    /\ cmd.kind = "unsubscribe" /\ Live(k, cmd.sid)
    /\ Answer(k, cmd.sid, [subs[k][cmd.sid] EXCEPT !.live = FALSE],
              "unsubscribed", cmd.id, {})

(* An error on a subscription uses up one of its numbers.                  *)
Reject(k, cmd) ==
    \/ /\ MayReject /\ cmd.kind = "subscribe"
       /\ Error(k, cmd.id)
    \/ /\ MayReject /\ cmd.kind # "subscribe" /\ Live(k, cmd.sid)
       /\ Answer(k, cmd.sid, subs[k][cmd.sid], "error", cmd.id, {})

UnknownSid(k, cmd) ==
    /\ cmd.kind # "subscribe" /\ ~Live(k, cmd.sid)
    /\ Error(k, cmd.id)

Receive(k, cmd) ==
    \/ AcceptSubscribe(k, cmd)
    \/ AcceptUpdate(k, cmd)
    \/ AcceptSnapshot(k, cmd)
    \/ AcceptUnsubscribe(k, cmd)
    \/ Reject(k, cmd)
    \/ UnknownSid(k, cmd)

-----------------------------------------------------------------------------
(* The feed: a data message, or one the service skipped.                   *)
CanSend(k, s) ==
    /\ Up(k) /\ Live(k, s)
    /\ Len(down[k]) < QueueLen
    /\ Numbered(subs[k][s]) => subs[k][s].seq < MaxSeq

Send(k, s) ==
    /\ CanSend(k, s)
    /\ Answer(k, s, subs[k][s], "data", 0, {})
    /\ UNCHANGED link

Lose(k, s) ==
    /\ MayLose /\ k < MaxConns
    /\ CanSend(k, s) /\ Numbered(subs[k][s])
    /\ subs' = [subs EXCEPT ![k][s] = Skipped(@)]
    /\ UNCHANGED <<link, down>>

ServerStep ==
    \E k \in Conns :
        \/ Break(k)
        \/ \E s \in Sids : Send(k, s) \/ Lose(k, s)
=============================================================================
