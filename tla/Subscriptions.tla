---------------------------- MODULE Subscriptions ----------------------------
(***************************************************************************)
(* What the methods of the streaming client promise: a call takes effect,  *)
(* on one channel after the other, at some moment while it runs, and what  *)
(* is asked for never changes in any other way.  Connections, message      *)
(* ids, sids, answers and their order do not occur here.                   *)
(***************************************************************************)
EXTENDS Sequences

CONSTANTS
    Channels,
    Callers,
    Requests      \* the calls that may be made

VARIABLES
    asked,        \* what is asked for, on each channel
    request       \* the call each caller is in, or what is left of it

promised == <<asked, request>>

Nothing == [on |-> FALSE, global |-> FALSE, tickers |-> {}]

\* A call that has taken effect on the first of the channels left is served.
NoRequest == [op |-> "none", chs |-> <<>>, tickers |-> {}, global |-> FALSE,
              served |-> FALSE]

Busy(p) == request[p] # NoRequest
First(p) == Head(request[p].chs)

\* What a call makes of what is asked for on a channel.
Effect(r, a) ==
    CASE r.op = "subscribe" /\ ~a.on ->
           [on |-> TRUE, global |-> r.global, tickers |-> r.tickers]
      [] r.op = "unsubscribe" -> Nothing
      [] r.op = "add" -> [on |-> TRUE, global |-> FALSE, tickers |-> a.tickers \cup r.tickers]
      [] r.op = "remove" -> [a EXCEPT !.global = FALSE, !.tickers = @ \ r.tickers]
      [] OTHER -> a

Init == asked = [ch \in Channels |-> Nothing] /\ request = [p \in Callers |-> NoRequest]

Start(p) ==
    /\ ~Busy(p)
    /\ \E r \in Requests : request' = [request EXCEPT ![p] = r]
    /\ UNCHANGED asked

TakesEffect(p) ==
    /\ Busy(p) /\ ~request[p].served
    /\ asked' = [asked EXCEPT ![First(p)] = Effect(request[p], @)]

Serve(p) ==
    /\ TakesEffect(p)
    /\ request' = [request EXCEPT ![p].served = TRUE]

\* What is left of a call after its first channel.
Rest(r) == IF Len(r.chs) = 1 THEN NoRequest ELSE [r EXCEPT !.chs = Tail(@), !.served = FALSE]

\* A call returns, or goes to its next channel, when it has taken effect.
GoOn(p) ==
    /\ TakesEffect(p) \/ (Busy(p) /\ request[p].served /\ UNCHANGED asked)
    /\ request' = [request EXCEPT ![p] = Rest(@)]

\* A channel that is subscribed refuses another Subscribe, which ends.
Refuse(p) ==
    /\ request[p].op = "subscribe" /\ ~request[p].served /\ asked[First(p)].on
    /\ request' = [request EXCEPT ![p] = NoRequest]
    /\ UNCHANGED asked

Next == \E p \in Callers : Start(p) \/ Serve(p) \/ GoOn(p) \/ Refuse(p)

Spec == Init /\ [][Next]_promised
=============================================================================
