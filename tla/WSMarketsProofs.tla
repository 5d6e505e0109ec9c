---------------------------- MODULE WSMarketsProofs ----------------------------
(***************************************************************************)
(* Proofs about the tickers of WSClient's channels, for any calls and      *)
(* bounds, one goroutine that calls and a service that answers every       *)
(* command: on the first connection, what the client holds as a channel's  *)
(* markets is what the service sends, and what the callers asked for.      *)
(*                                                                         *)
(* A ticker is on its way through four places: the command that asks for   *)
(* it, the service's subscription, the answer that lists it, and the       *)
(* channel's markets or queue.  The invariant follows each channel through *)
(* them: it is being opened by a subscribe on its way, opened by one that  *)
(* the client has not read the answer to, or kept, with a sid.             *)
(***************************************************************************)
EXTENDS WSSequenceProofs, WSSubscriptions

-----------------------------------------------------------------------------
(* What the programs that use the client do.                               *)

\* The arguments that the methods do not refuse: Subscribe with tickers or for all,
\* AddMarkets with tickers.  And nobody calls RemoveMarkets.
Accepted ==
    \A c \in Calls :
        /\ c.op # "remove"
        /\ c.op = "add" => c.tickers # {}
        /\ c.op = "subscribe" => (c.global <=> c.tickers = {})

\* The calls in progress are such calls.
CallsFit ==
    \A p \in Callers :
        /\ call[p].op # "remove"
        /\ call[p].op = "add" => call[p].tickers # {}
        /\ call[p].op = "subscribe" => (call[p].global <=> call[p].tickers = {})

-----------------------------------------------------------------------------
(* Messages on a connection.                                               *)

\* The sids that d announces as answers to command id.
AnnouncedIn(d, id) ==
    {d[i].sid : i \in {j \in DOMAIN d : d[j].type = "subscribed" /\ d[j].id = id}}

\* The places in d of the ticker lists of subscription s.
ListsOf(d, s) == {i \in DOMAIN d : d[i].sid = s /\ d[i].type = "ok"}

\* Every list is part of tickers, and the last one is all of them.
Lists(d, s, tickers) ==
    \A i \in ListsOf(d, s) :
        /\ d[i].tickers # {} /\ d[i].tickers \subseteq tickers
        /\ (\A j \in ListsOf(d, s) : j <= i) => d[i].tickers = tickers

\* Subscription s is answered to be over.
OverIn(d, s) == \E i \in DOMAIN d : d[i].sid = s /\ d[i].type = "unsubscribed"

\* A message more.
LEMMA MessageAppended ==
    ASSUME NEW d \in Seq(Message), NEW m \in Message
    PROVE  LET a == Append(d, m)
           IN  /\ \A id : m.type # "subscribed" \/ m.id # id => AnnouncedIn(a, id) = AnnouncedIn(d, id)
               /\ m.type = "subscribed" => AnnouncedIn(a, m.id) = AnnouncedIn(d, m.id) \cup {m.sid}
               /\ \A s : BornOf(a, s) = {} <=> BornOf(d, s) = {} /\ (m.sid # s \/ m.type # "subscribed")
               /\ \A s : ListsOf(a, s) # {} <=> ListsOf(d, s) # {} \/ (m.sid = s /\ m.type = "ok")
               /\ \A s : OverIn(a, s) <=> OverIn(d, s) \/ (m.sid = s /\ m.type = "unsubscribed")
               /\ \A s, tickers : Lists(d, s, tickers) /\ (m.sid # s \/ m.type # "ok") => Lists(a, s, tickers)
               /\ \A s, tickers : /\ Lists(d, s, tickers) /\ m.sid = s /\ m.type = "ok"
                                  /\ tickers \subseteq m.tickers /\ m.tickers # {}
                                  => Lists(a, s, m.tickers)
<1> DEFINE a == Append(d, m)
           last == Len(d) + 1
<1>1. /\ a \in Seq(Message) /\ last \in Nat /\ last \in DOMAIN a /\ a[last] = m
      /\ \A i \in DOMAIN a : i = last \/ i \in DOMAIN d
      /\ \A i \in DOMAIN d : i \in Nat /\ i < last /\ i \in DOMAIN a /\ a[i] = d[i]
  BY Appended
<1> HIDE DEF a, last
<1>2. \A id : m.type # "subscribed" \/ m.id # id => AnnouncedIn(a, id) = AnnouncedIn(d, id)
  BY <1>1 DEF AnnouncedIn
<1>3. m.type = "subscribed" => AnnouncedIn(a, m.id) = AnnouncedIn(d, m.id) \cup {m.sid}
  BY <1>1 DEF AnnouncedIn
<1>4. \A s : BornOf(a, s) = {} <=> BornOf(d, s) = {} /\ (m.sid # s \/ m.type # "subscribed")
  BY <1>1 DEF BornOf
<1>5. \A s : ListsOf(a, s) # {} <=> ListsOf(d, s) # {} \/ (m.sid = s /\ m.type = "ok")
  BY <1>1 DEF ListsOf
<1>6. \A s : OverIn(a, s) <=> OverIn(d, s) \/ (m.sid = s /\ m.type = "unsubscribed")
  BY <1>1 DEF OverIn
<1>7. ASSUME NEW s, NEW tickers, Lists(d, s, tickers), m.sid # s \/ m.type # "ok"
      PROVE  Lists(a, s, tickers)
  <2>1. ListsOf(a, s) = ListsOf(d, s)
    BY <1>1, <1>7 DEF ListsOf
  <2>2. \A i \in ListsOf(d, s) : a[i] = d[i]
    BY <1>1 DEF ListsOf
  <2> QED BY <1>7, <2>1, <2>2 DEF Lists
<1>8. ASSUME NEW s, NEW tickers, Lists(d, s, tickers), m.sid = s, m.type = "ok",
             tickers \subseteq m.tickers, m.tickers # {}
      PROVE  Lists(a, s, m.tickers)
  <2>1. ListsOf(a, s) = ListsOf(d, s) \cup {last}
    BY <1>1, <1>8 DEF ListsOf
  <2>2. \A i \in ListsOf(d, s) : a[i] = d[i] /\ i \in Nat /\ i < last
    BY <1>1 DEF ListsOf
  <2>3. ASSUME NEW i \in ListsOf(a, s)
        PROVE  /\ a[i].tickers # {} /\ a[i].tickers \subseteq m.tickers
               /\ (\A j \in ListsOf(a, s) : j <= i) => a[i].tickers = m.tickers
    <3>1. CASE i = last
      BY <1>1, <1>8, <3>1
    <3>2. CASE i \in ListsOf(d, s)
      <4>1. a[i].tickers # {} /\ a[i].tickers \subseteq m.tickers
        BY <1>8, <2>2, <3>2 DEF Lists
      <4>2. ~(last <= i)
        BY <1>1, <2>2, <3>2
      <4> QED BY <2>1, <4>1, <4>2
    <3> QED BY <2>1, <3>1, <3>2
  <2> QED BY <2>3 DEF Lists
<1> QED BY <1>2, <1>3, <1>4, <1>5, <1>6, <1>7, <1>8 DEF a

\* A message less.
LEMMA MessageTaken ==
    ASSUME NEW d \in Seq(Message), d # <<>>
    PROVE  LET h == Head(d)
               t == Tail(d)
           IN  /\ \A id : AnnouncedIn(t, id) \subseteq AnnouncedIn(d, id)
               /\ \A id : h.type # "subscribed" \/ h.id # id => AnnouncedIn(t, id) = AnnouncedIn(d, id)
               /\ h.type = "subscribed" => h.sid \in AnnouncedIn(d, h.id)
               /\ \A s : BornOf(d, s) = {} => BornOf(t, s) = {}
               /\ \A s : ListsOf(t, s) # {} => ListsOf(d, s) # {}
               /\ \A s : ListsOf(d, s) # {} /\ (h.sid # s \/ h.type # "ok") => ListsOf(t, s) # {}
               /\ \A s : OverIn(t, s) => OverIn(d, s)
               /\ h.type = "unsubscribed" => OverIn(d, h.sid)
               /\ \A s, tickers : Lists(d, s, tickers) => Lists(t, s, tickers)
               /\ \A tickers : Lists(d, h.sid, tickers) /\ h.type = "ok" =>
                    /\ h.tickers # {} /\ h.tickers \subseteq tickers
                    /\ ListsOf(t, h.sid) = {} => h.tickers = tickers
<1> DEFINE h == Head(d)
           t == Tail(d)
<1>1. /\ t \in Seq(Message) /\ 1 \in DOMAIN d /\ d[1] = h
      /\ \A i \in DOMAIN t : i \in Nat /\ 1 <= i /\ i + 1 \in DOMAIN d /\ t[i] = d[i + 1]
      /\ \A j \in DOMAIN d : /\ j \in Nat /\ 1 <= j
                             /\ j = 1 \/ (j - 1 \in DOMAIN t /\ t[j - 1] = d[j])
  BY Shifted
<1> HIDE DEF h, t
<1>2. \A id : AnnouncedIn(t, id) \subseteq AnnouncedIn(d, id)
  BY <1>1 DEF AnnouncedIn
<1>3. ASSUME NEW id, h.type # "subscribed" \/ h.id # id
      PROVE  AnnouncedIn(t, id) = AnnouncedIn(d, id)
  <2>1. ASSUME NEW s \in AnnouncedIn(d, id) PROVE s \in AnnouncedIn(t, id)
    <3>1. PICK j \in DOMAIN d : d[j].type = "subscribed" /\ d[j].id = id /\ s = d[j].sid
      BY DEF AnnouncedIn
    <3>2. j - 1 \in DOMAIN t /\ t[j - 1] = d[j]
      BY <1>1, <1>3, <3>1
    <3> QED BY <3>1, <3>2 DEF AnnouncedIn
  <2> QED BY <1>2, <2>1
<1>4. h.type = "subscribed" => h.sid \in AnnouncedIn(d, h.id)
  BY <1>1 DEF AnnouncedIn
<1>5. \A s : BornOf(d, s) = {} => BornOf(t, s) = {}
  BY <1>1 DEF BornOf
<1>6. \A s : ListsOf(t, s) # {} => ListsOf(d, s) # {}
  BY <1>1 DEF ListsOf
<1>7. \A s : ListsOf(d, s) # {} /\ (h.sid # s \/ h.type # "ok") => ListsOf(t, s) # {}
  BY <1>1 DEF ListsOf
<1>8. \A s : OverIn(t, s) => OverIn(d, s)
  BY <1>1 DEF OverIn
<1>9. h.type = "unsubscribed" => OverIn(d, h.sid)
  BY <1>1 DEF OverIn
<1>10. ASSUME NEW s, NEW tickers, Lists(d, s, tickers) PROVE Lists(t, s, tickers)
  <2>1. ASSUME NEW i \in ListsOf(t, s)
        PROVE  /\ t[i].tickers # {} /\ t[i].tickers \subseteq tickers
               /\ (\A j \in ListsOf(t, s) : j <= i) => t[i].tickers = tickers
    <3>1. i \in Nat /\ 1 <= i /\ i + 1 \in ListsOf(d, s) /\ t[i] = d[i + 1]
      BY <1>1 DEF ListsOf
    <3>2. \A j \in ListsOf(d, s) : j \in Nat /\ (j = 1 \/ j - 1 \in ListsOf(t, s))
      BY <1>1 DEF ListsOf
    <3>3. (\A j \in ListsOf(t, s) : j <= i) => \A j \in ListsOf(d, s) : j <= i + 1
      BY <3>1, <3>2
    <3>4. /\ d[i + 1].tickers # {} /\ d[i + 1].tickers \subseteq tickers
          /\ (\A j \in ListsOf(d, s) : j <= i + 1) => d[i + 1].tickers = tickers
      BY <1>10, <3>1 DEF Lists
    <3> QED BY <3>1, <3>3, <3>4
  <2> QED BY <2>1 DEF Lists
<1>11. ASSUME NEW tickers, Lists(d, h.sid, tickers), h.type = "ok"
       PROVE  /\ h.tickers # {} /\ h.tickers \subseteq tickers
              /\ ListsOf(t, h.sid) = {} => h.tickers = tickers
  <2>1. 1 \in ListsOf(d, h.sid)
    BY <1>1, <1>11 DEF ListsOf
  <2>2. ASSUME ListsOf(t, h.sid) = {} PROVE \A j \in ListsOf(d, h.sid) : j <= 1
    <3>1. \A j \in ListsOf(d, h.sid) : j \in Nat /\ (j = 1 \/ j - 1 \in ListsOf(t, h.sid))
      BY <1>1 DEF ListsOf
    <3> QED BY <2>2, <3>1
  <2> QED BY <1>1, <1>11, <2>1, <2>2 DEF Lists
<1> QED BY <1>2, <1>3, <1>4, <1>5, <1>6, <1>7, <1>8, <1>9, <1>10, <1>11 DEF h, t

-----------------------------------------------------------------------------
(* The invariant, about the first connection.                              *)

Announced(id) == AnnouncedIn(down[1], id)
Listing(s) == ListsOf(down[1], s) # {}

\* What the service has said on subscription s.
SaidOf(s) ==
    LET sub == subs[1][s]
    IN  /\ sub.global => sub.tickers = {}
        /\ Lists(down[1], s, sub.tickers)
        /\ sub.live => ~OverIn(down[1], s)

Answers == \A s \in DOMAIN subs[1] : SaidOf(s)

\* What a caller sends is what its call is for.
CallerSends(p) ==
    /\ out[p].ch = Ch(p)
    /\ \/ call[p].op \in {"unsubscribe", "snapshot"} /\ out[p].kind = call[p].op
       \/ /\ call[p].op = "subscribe" /\ out[p].kind = "subscribe"
          /\ out[p].global <=> out[p].tickers = {}
       \/ /\ call[p].op = "add" /\ out[p].kind \in {"add", "subscribe"}
          /\ ~out[p].global /\ out[p].tickers # {}
          /\ call[p].state \in Objs /\ channels[Ch(p)] = call[p].state
          /\ out[p].kind = "add" => out[p].sid = obj[call[p].state].sid

\* The reader sends what was queued, for the state whose sid it has read.
ReaderSends ==
    /\ out[Reader].kind = "add" /\ out[Reader].tickers # {} /\ flushing # Nil
    /\ out[Reader].sid = obj[flushing].sid

\* A command on its way: nothing answers it yet.
Unanswered(p) ==
    /\ Announced(out[p].id) = {}
    /\ out[p].kind = "subscribe" => [id |-> out[p].id, ch |-> out[p].ch] \in pendingInit

CommandFine(p) ==
    /\ IF p = Reader THEN ReaderSends ELSE CallerSends(p)
    /\ out[p].kind # "subscribe" => out[p].sid # NoSID /\ BornOf(down[1], out[p].sid) = {}
    /\ pc[p] \in {"grab", "write"} => Unanswered(p)
    /\ pc[p] = "finish" => out[p].ok

Commands ==
    /\ \A p \in Procs : pc[p] \in Sending => CommandFine(p)
    /\ pc[Reader] \notin Sending => flushing = Nil

Upward == {"register", "grab", "write"}

\* The tickers that a caller has sent for state o and will note in it, and what the
\* state will hold then.
Paying(o) ==
    UNION {out[p].tickers : p \in {q \in Callers : /\ pc[q] = "finish" /\ call[q].op = "add"
                                                   /\ call[q].state = o}}
Owed(o) == obj[o].markets \cup Paying(o)

\* The service's tickers are those, or a list that the client has not read tells them.
Agrees(o, s) ==
    /\ s \in DOMAIN subs[1] /\ subs[1][s].live
    /\ Owed(o) \subseteq subs[1][s].tickers
    /\ Listing(s) \/ Owed(o) = subs[1][s].tickers

\* Tickers for subscription s are on their way, or were sent and not noted.
Narrows(s) == \E p \in Procs : pc[p] \in Upward /\ out[p].kind = "add" /\ out[p].sid = s
Widens(s) == \E p \in Procs : pc[p] \in Sending /\ out[p].kind = "add" /\ out[p].sid = s

\* A subscription to all tickers is one in the client's eyes too, or will be narrowed.
Scope(o, s) ==
    \/ subs[1][s].global = obj[o].global
    \/ subs[1][s].global /\ (obj[o].pending # {} \/ Narrows(s))

\* An unsubscribe of ch was sent.
Parting(ch) == \E p \in Callers : pc[p] = "finish" /\ call[p].op = "unsubscribe" /\ Ch(p) = ch

\* Channel ch, with state o, has a sid,
Kept(ch, o) ==
    LET s == obj[o].sid
    IN  /\ BornOf(down[1], s) = {} /\ s \in DOMAIN subs[1]
        /\ \/ ~subs[1][s].live /\ Parting(ch)
           \/ /\ sidMap[s] = o /\ obj[o].pending = {}
              /\ Agrees(o, s) /\ Scope(o, s)
              /\ Widens(s) => ~obj[o].global

\* or a subscribe for it is on its way,
Opening(ch, o) ==
    \E p \in Callers :
        /\ pc[p] \in Upward /\ out[p].kind = "subscribe" /\ out[p].ch = ch
        /\ obj[o].pending = {} /\ obj[o].global = out[p].global
        /\ obj[o].markets = IF call[p].op = "subscribe" THEN out[p].tickers ELSE {}

\* or answered.
Opened(ch, o) ==
    \E e \in pendingInit :
        /\ e.ch = ch /\ Announced(e.id) # {}
        /\ \A s \in Announced(e.id) : Agrees(o, s) /\ Scope(o, s) /\ ~Listing(s)
        /\ obj[o].pending # {} => ~obj[o].global

Fine(ch, o) == IF obj[o].sid = NoSID THEN Opening(ch, o) \/ Opened(ch, o) ELSE Kept(ch, o)

ChannelsFine == \A ch \in Channels, o \in Objs : channels[ch] = o => Fine(ch, o)

Agreement == OnlyFirst /\ conn # NoConn => Answers /\ Commands /\ ChannelsFine

\* What the steps below start from.
Base ==
    /\ Inv /\ Dialed /\ Aimed /\ Named /\ Order
    /\ OneCaller /\ CallsFit /\ OnlyFirst /\ conn # NoConn
    /\ Answers /\ Commands /\ ChannelsFine

-----------------------------------------------------------------------------
(* What a step may do without a channel minding.                           *)

\* Process q goes on with what it was sending, or sends nothing before and after.
RoleKept(q) ==
    \/ pc[q] \notin Sending /\ pc'[q] \notin Sending
    \/ /\ pc[q] = pc'[q] \/ (pc[q] \in Upward /\ pc'[q] \in Upward)
       /\ out'[q].kind = out[q].kind /\ out'[q].ch = out[q].ch /\ out'[q].sid = out[q].sid
       /\ out'[q].tickers = out[q].tickers /\ out'[q].global = out[q].global
       /\ q \in Callers => call'[q] = call[q]

\* What the client knows of a channel's tickers stays.
TickersSame(o) ==
    /\ obj'[o].sid = obj[o].sid /\ obj'[o].global = obj[o].global
    /\ obj'[o].markets = obj[o].markets /\ obj'[o].pending = obj[o].pending

\* What the channels see of the commands.
RolesSame ==
    /\ \A o : Paying(o)' = Paying(o)
    /\ \A s : (Narrows(s) => Narrows(s)') /\ (Widens(s)' => Widens(s))
    /\ \A ch : Parting(ch) => Parting(ch)'
    /\ \A ch, o : Opening(ch, o) /\ TickersSame(o) => Opening(ch, o)'

\* If nobody's command changes what it is for, no channel's opening or ending does.
LEMMA RolesKept == ASSUME Inv, \A q \in Procs : RoleKept(q) PROVE RolesSame
<1>1. \A q \in Callers : q \in Procs
  BY DEF Procs
<1>2. ASSUME NEW o PROVE Paying(o)' = Paying(o)
  <2>1. \A q \in Callers : /\ pc'[q] = "finish" <=> pc[q] = "finish"
                           /\ pc[q] = "finish" => call'[q] = call[q] /\ out'[q].tickers = out[q].tickers
    BY <1>1 DEF RoleKept, Sending, Upward
  <2> QED BY <2>1 DEF Paying
<1>3. ASSUME NEW s PROVE (Narrows(s) => Narrows(s)') /\ (Widens(s)' => Widens(s))
  BY DEF Narrows, Widens, RoleKept, Sending, Upward
<1>4. ASSUME NEW ch PROVE Parting(ch) => Parting(ch)'
  <2>1. \A q \in Callers : pc[q] = "finish" => pc'[q] = "finish" /\ call'[q] = call[q]
    BY <1>1 DEF RoleKept, Sending, Upward
  <2> QED BY <2>1 DEF Parting, Ch
<1>5. ASSUME NEW ch, NEW o, Opening(ch, o), TickersSame(o) PROVE Opening(ch, o)'
  <2>1. \A q \in Callers : pc[q] \in Upward =>
          /\ pc'[q] \in Upward /\ call'[q] = call[q] /\ out'[q].kind = out[q].kind
          /\ out'[q].ch = out[q].ch /\ out'[q].global = out[q].global /\ out'[q].tickers = out[q].tickers
    BY <1>1 DEF RoleKept, Sending, Upward
  <2> QED BY <1>5, <2>1 DEF Opening, TickersSame
<1> QED BY <1>2, <1>3, <1>4, <1>5 DEF RolesSame

\* The subscriptions that channel ch, with state o, is about.
Matters(ch, o, s) ==
    \/ s = obj[o].sid /\ s # NoSID
    \/ \E e \in pendingInit : e.ch = ch /\ s \in Announced(e.id)

\* Subscription s is what it was.
SubKept(s) ==
    s \in DOMAIN subs[1] =>
        /\ s \in DOMAIN subs'[1] /\ subs'[1][s].tickers = subs[1][s].tickers
        /\ subs'[1][s].live = subs[1][s].live /\ subs'[1][s].global = subs[1][s].global
        /\ Listing(s)' <=> Listing(s)
        /\ BornOf(down[1], s) = {} => BornOf(down[1], s)' = {}

\* A channel is as it was when all that is said of it is.
LEMMA FineKept ==
    ASSUME NEW ch, NEW o, Fine(ch, o),
           obj'[o].sid = obj[o].sid, obj'[o].pending = obj[o].pending,
           obj'[o].global = obj[o].global, Owed(o)' = Owed(o),
           Opening(ch, o) => Opening(ch, o)',
           Parting(ch) => Parting(ch)',
           \A e \in pendingInit : e.ch = ch => e \in pendingInit' /\ Announced(e.id)' = Announced(e.id),
           obj[o].sid # NoSID /\ Agrees(o, obj[o].sid) => sidMap'[obj[o].sid] = sidMap[obj[o].sid],
           \A s : Matters(ch, o, s) =>
             SubKept(s) /\ (Narrows(s) => Narrows(s)') /\ (Widens(s)' => Widens(s))
    PROVE  Fine(ch, o)'
<1>1. ASSUME NEW s, Matters(ch, o, s), Agrees(o, s) PROVE Agrees(o, s)'
  BY <1>1 DEF Agrees, SubKept
<1>2. ASSUME NEW s, Matters(ch, o, s), s \in DOMAIN subs[1], Scope(o, s) PROVE Scope(o, s)'
  BY <1>2 DEF Scope, SubKept
<1>3. CASE obj[o].sid = NoSID /\ Opening(ch, o)
  BY <1>3 DEF Fine
<1>4. CASE obj[o].sid = NoSID /\ Opened(ch, o)
  <2>1. PICK e \in pendingInit :
          /\ e.ch = ch /\ Announced(e.id) # {}
          /\ \A s \in Announced(e.id) : Agrees(o, s) /\ Scope(o, s) /\ ~Listing(s)
          /\ obj[o].pending # {} => ~obj[o].global
    BY <1>4 DEF Opened
  <2>2. e \in pendingInit' /\ Announced(e.id)' = Announced(e.id)
    BY <2>1
  <2>3. ASSUME NEW s \in Announced(e.id) PROVE (Agrees(o, s) /\ Scope(o, s) /\ ~Listing(s))'
    <3>1. Matters(ch, o, s) /\ s \in DOMAIN subs[1]
      BY <2>1, <2>3 DEF Matters, Agrees
    <3> QED BY <1>1, <1>2, <2>1, <2>3, <3>1 DEF SubKept
  <2>4. Opened(ch, o)'
    BY <2>1, <2>2, <2>3 DEF Opened
  <2> QED BY <1>4, <2>4 DEF Fine
<1>5. CASE obj[o].sid # NoSID
  <2> DEFINE s == obj[o].sid
  <2>1. Kept(ch, o) /\ Matters(ch, o, s) /\ s \in DOMAIN subs[1]
    BY <1>5 DEF Fine, Kept, Matters
  <2>2. /\ SubKept(s) /\ (Narrows(s) => Narrows(s)') /\ (Widens(s)' => Widens(s))
        /\ Agrees(o, s) => sidMap'[s] = sidMap[s]
    BY <1>5, <2>1
  <2>3. Agrees(o, s) => Agrees(o, s)'
    BY <1>1, <2>1
  <2>4. Scope(o, s) => Scope(o, s)'
    BY <1>2, <2>1
  <2>5. PICK t : t = s
    OBVIOUS
  <2>6. /\ BornOf(down[1], t)' = {} /\ t \in DOMAIN subs'[1]
        /\ \/ ~subs'[1][t].live /\ Parting(ch)'
           \/ /\ sidMap'[t] = o /\ obj'[o].pending = {}
              /\ Agrees(o, t)' /\ Scope(o, t)'
              /\ Widens(t)' => ~obj'[o].global
    <3>1. /\ SubKept(t) /\ (Widens(t)' => Widens(t)) /\ (Agrees(o, t) => sidMap'[t] = sidMap[t])
          /\ Agrees(o, t) => Agrees(o, t)'
          /\ Scope(o, t) => Scope(o, t)'
          /\ Matters(ch, o, t)
      <4>1. Agrees(o, t) => Agrees(o, t)'
        BY <1>1, <2>1, <2>5
      <4>2. Scope(o, t) => Scope(o, t)'
        BY <1>2, <2>1, <2>5
      <4>3. SubKept(t) /\ (Widens(t)' => Widens(t))
        BY <2>1, <2>5
      <4> QED BY <2>1, <2>2, <2>5, <4>1, <4>2, <4>3
    <3>2. /\ BornOf(down[1], t) = {} /\ t \in DOMAIN subs[1]
          /\ \/ ~subs[1][t].live /\ Parting(ch)
             \/ /\ sidMap[t] = o /\ obj[o].pending = {}
                /\ Agrees(o, t) /\ Scope(o, t)
                /\ Widens(t) => ~obj[o].global
      BY <2>1, <2>5 DEF Kept
    <3> QED BY <3>1, <3>2 DEF SubKept
  <2>7. Kept(ch, o)'
    BY <2>5, <2>6 DEF Kept
  <2> QED BY <1>5, <2>7 DEF Fine
<1> QED BY <1>3, <1>4, <1>5 DEF Fine

\* What the states that the steps below start from have in common.
LEMMA BaseFacts ==
    ASSUME Base
    PROVE  /\ 1 \in Conns /\ down[1] \in Seq(Message) /\ subs[1] \in Seq(Subscription)
           /\ \A s \in DOMAIN subs[1] : s \in Sids /\ subs[1][s] \in Subscription /\ s # NoSID
           /\ First /\ conn = 1 /\ Up(1) /\ ~Recovering /\ Len(link) = 1
           /\ \A p \in Procs : pc[p] = "write" => out[p].conn = 1
           /\ \A ch \in Channels : channels[ch] = Nil \/ channels[ch] \in Objs
           /\ \A ch \in Channels, o \in Objs : channels[ch] = o =>
                Fine(ch, o) /\ obj[o].name = ch /\ obj[o] \in ChannelState
<1>1. Len(link) = 1 /\ Up(1) /\ ~Recovering /\ conn = 1
      /\ \A p \in Procs : pc[p] = "write" => out[p].conn = 1
  BY OnlyFacts DEF Base
<1>2. First
  BY <1>1 DEF First
<1>3. 1 \in Conns /\ down[1] \in Seq(Message) /\ subs[1] \in Seq(Subscription)
      /\ \A s \in DOMAIN subs[1] : s \in Sids /\ subs[1][s] \in Subscription /\ s # NoSID
  BY FirstTypes DEF Base, NoSID
<1>4. \A ch \in Channels : channels[ch] = Nil \/ channels[ch] \in Objs
  BY Types DEF Base
<1>5. \A ch \in Channels, o \in Objs : channels[ch] = o =>
        Fine(ch, o) /\ obj[o].name = ch /\ obj[o] \in ChannelState
  BY Types DEF Base, ChannelsFine, Inv, NamesMatch
<1> QED BY <1>1, <1>2, <1>3, <1>4, <1>5

\* What a channel is about is a subscription of that channel.
LEMMA MattersWhere ==
    ASSUME Base, NEW ch \in Channels, NEW o \in Objs, channels[ch] = o, NEW s, Matters(ch, o, s)
    PROVE  s \in DOMAIN subs[1] /\ subs[1][s].ch = ch
<1>1. obj[o].name = ch /\ Len(link) <= 1 /\ 1 \in Conns
  <2>1. obj[o].name = ch /\ Len(link) = 1 /\ 1 \in Conns
    BY BaseFacts
  <2> QED BY <2>1
<1>2. CASE s = obj[o].sid /\ s # NoSID
  BY <1>1, <1>2 DEF Base, Aimed, Owned
<1>3. ASSUME NEW e \in pendingInit, e.ch = ch, s \in Announced(e.id)
      PROVE  s \in DOMAIN subs[1] /\ subs[1][s].ch = ch
  BY <1>1, <1>3 DEF Announced, AnnouncedIn, Base, Inv, AnswersTrue
<1> QED BY <1>2, <1>3 DEF Matters

\* A step that no channel minds.
LEMMA ChannelsKept ==
    ASSUME Base, RolesSame, UNCHANGED <<channels, sidMap>>, pendingInit \subseteq pendingInit',
           \A o \in Objs : TickersSame(o),
           \A s \in DOMAIN subs[1] : SubKept(s),
           \A e \in pendingInit : Announced(e.id)' = Announced(e.id)
    PROVE  ChannelsFine'
<1> SUFFICES ASSUME NEW ch \in Channels, NEW o \in Objs, channels[ch] = o
             PROVE  Fine(ch, o)'
  BY DEF ChannelsFine
<1>1. Fine(ch, o)
  BY BaseFacts
<1>2. TickersSame(o) /\ Owed(o)' = Owed(o)
  BY DEF TickersSame, RolesSame, Owed
<1>3. Opening(ch, o) => Opening(ch, o)'
  BY <1>2 DEF RolesSame
<1>4. Parting(ch) => Parting(ch)'
  BY DEF RolesSame
<1>5. \A s : Matters(ch, o, s) =>
        SubKept(s) /\ (Narrows(s) => Narrows(s)') /\ (Widens(s)' => Widens(s))
  BY MattersWhere DEF RolesSame
<1> QED BY <1>1, <1>2, <1>3, <1>4, <1>5, FineKept DEF TickersSame

\* A step that leaves the command of process p alone.
CommandKept(p) ==
    /\ pc'[p] = pc[p] /\ out'[p] = out[p] /\ (p \in Callers => call'[p] = call[p])
    /\ BornOf(down[1], out[p].sid) = {} => BornOf(down[1], out[p].sid)' = {}
    /\ pc[p] \in {"grab", "write"} =>
         /\ Announced(out[p].id) = {} => Announced(out[p].id)' = {}
         /\ [id |-> out[p].id, ch |-> out[p].ch] \in pendingInit =>
              [id |-> out[p].id, ch |-> out[p].ch] \in pendingInit'
    /\ p \in Callers /\ call[p].op = "add" =>
         /\ channels'[Ch(p)] = channels[Ch(p)]
         /\ out[p].kind = "add" => obj'[call[p].state].sid = obj[call[p].state].sid
    /\ p = Reader => flushing' = flushing /\ obj'[flushing].sid = obj[flushing].sid

\* A command whose data and control stay is as right as it was.
LEMMA CommandStays ==
    ASSUME NEW p \in Procs, CommandFine(p), CommandKept(p)
    PROVE  CommandFine(p)'
<1>1. p = Reader => (ReaderSends => ReaderSends')
  BY DEF CommandKept, ReaderSends
<1>2. p # Reader => (CallerSends(p) => CallerSends(p)')
  <2>1. p # Reader => p \in Callers
    BY DEF Procs
  <2>2. p \in Callers => Ch(p)' = Ch(p)
    BY DEF CommandKept, Ch
  <2> QED BY <2>1, <2>2 DEF CommandKept, CallerSends
<1>3. pc[p] \in {"grab", "write"} /\ Unanswered(p) => Unanswered(p)'
  BY DEF CommandKept, Unanswered
<1>4. out[p].kind # "subscribe" =>
        (out[p].sid # NoSID /\ BornOf(down[1], out[p].sid) = {})'
  BY DEF CommandFine, CommandKept
<1> QED BY <1>1, <1>2, <1>3, <1>4 DEF CommandFine, CommandKept

\* The service's side, when nothing is said and nothing is read.
LEMMA NothingSaid ==
    ASSUME UNCHANGED <<subs, down>>
    PROVE  /\ Answers => Answers'
           /\ \A s : SubKept(s)
           /\ \A id : Announced(id)' = Announced(id)
           /\ \A s : BornOf(down[1], s)' = BornOf(down[1], s)
  BY DEF Answers, SaidOf, SubKept, Announced, Listing

-----------------------------------------------------------------------------
(* Steps outside the methods that send and read nothing.                   *)

\* What such a step keeps, but for what the service may say in the meantime.
Idles ==
    /\ \A q \in Procs : \/ pc[q] \notin Sending /\ pc'[q] \notin Sending
                        \/ /\ pc'[q] = pc[q] /\ out'[q] = out[q]
                           /\ q \in Callers => call'[q] = call[q]
    /\ UNCHANGED <<stateVars, pendingInit, flushing>>

\* A step that sends nothing keeps what is said of the commands.
LEMMA IdleCommands ==
    ASSUME Base, Idles,
           \A s : BornOf(down[1], s) = {} => BornOf(down[1], s)' = {},
           \A p \in Procs : pc[p] \in {"grab", "write"} /\ Announced(out[p].id) = {} =>
             Announced(out[p].id)' = {}
    PROVE  Commands'
<1>1. ASSUME NEW p \in Procs, pc'[p] \in Sending PROVE CommandFine(p)'
  <2>1. pc[p] \in Sending /\ CommandFine(p)
    BY <1>1 DEF Idles, Base, Commands
  <2>2. p \in Callers => Ch(p)' = Ch(p)
    BY <1>1 DEF Idles, Ch
  <2>3. CommandKept(p)
    BY <1>1, <2>1 DEF Idles, CommandKept, stateVars
  <2> QED BY <2>1, <2>3, CommandStays
<1>2. pc'[Reader] \notin Sending => flushing' = Nil
  BY ReaderIsNoCaller DEF Idles, Base, Commands
<1> QED BY <1>1, <1>2 DEF Commands

\* A step that touches no role keeps what is said of the channels.
LEMMA IdleChannels ==
    ASSUME Base, Idles, \A s \in DOMAIN subs[1] : SubKept(s),
           \A e \in pendingInit : Announced(e.id)' = Announced(e.id)
    PROVE  ChannelsFine'
<1>1. \A q \in Procs : RoleKept(q)
  BY DEF Idles, RoleKept
<1>2. RolesSame
  BY <1>1, RolesKept DEF Base
<1>3. UNCHANGED <<channels, sidMap>> /\ pendingInit \subseteq pendingInit'
      /\ \A o \in Objs : TickersSame(o)
  BY DEF Idles, stateVars, TickersSame
<1> QED BY <1>2, <1>3, ChannelsKept

\* A step outside the connection and the states keeps everything.
LEMMA IdleSteps ==
    ASSUME Base, Idles, UNCHANGED <<subs, down>>
    PROVE  Answers' /\ Commands' /\ ChannelsFine'
<1>1. Answers'
  BY NothingSaid DEF Base
<1>2. Commands'
  <2>1. \A s : BornOf(down[1], s) = {} => BornOf(down[1], s)' = {}
    BY NothingSaid
  <2>2. \A p \in Procs : pc[p] \in {"grab", "write"} /\ Announced(out[p].id) = {} =>
          Announced(out[p].id)' = {}
    <3> SUFFICES ASSUME NEW p \in Procs, pc[p] \in {"grab", "write"}, Announced(out[p].id) = {}
                 PROVE  Announced(out[p].id)' = {}
      OBVIOUS
    <3>1. pc'[p] = pc[p] /\ out'[p] = out[p]
      BY DEF Idles, Sending
    <3> QED BY <3>1 DEF Announced
  <2> QED BY <2>1, <2>2, IdleCommands
<1>3. ChannelsFine'
  BY NothingSaid, IdleChannels
<1> QED BY <1>1, <1>2, <1>3

\* Beginning a call, connecting and closing, the loop, the consumer and the context.
LEMMA OutsideIdles ==
    ASSUME Base,
           \/ \E p \in Callers : Begin(p) \/ Connect(p) \/ Close(p) \/ CloseConn(p)
           \/ LoopSteps \/ Deliver \/ Consume \/ Cancel \/ Feed \/ UNCHANGED vars
    PROVE  Idles
<1>1. ASSUME NEW p \in Callers, Begin(p) \/ Connect(p) \/ Close(p) \/ CloseConn(p) PROVE Idles
  <2>1. /\ pc[p] \in {"idle", "section", "closing"}
        /\ \E l \in {"idle", "section", "closing"} : pc' = [pc EXCEPT ![p] = l]
        /\ UNCHANGED out \/ \E cmd : out' = [out EXCEPT ![p] = cmd]
        /\ UNCHANGED call \/ \E c : call' = [call EXCEPT ![p] = c]
        /\ UNCHANGED <<stateVars, pendingInit, flushing>>
    BY <1>1 DEF Begin, Connect, Close, CloseConn, Return, InSection, cmdVars, readerVars
  <2>2. \A q \in Procs : q # p =>
          pc'[q] = pc[q] /\ out'[q] = out[q] /\ (q \in Callers => call'[q] = call[q])
    BY <2>1, Types DEF Base
  <2>3. pc[p] \notin Sending /\ pc'[p] \notin Sending
    <3>1. p \in DOMAIN pc
      BY Types DEF Base, Procs
    <3> QED BY <2>1, <3>1 DEF Sending
  <2> QED BY <2>1, <2>2, <2>3 DEF Idles
<1>2. ASSUME LoopSteps \/ Deliver PROVE Idles
  <2>1. /\ pc[Reader] \notin Sending /\ \E l : l \notin Sending /\ Goto(l)
        /\ UNCHANGED <<stateVars, pendingInit, flushing, out, call>>
    <3>1. UNCHANGED <<stateVars, pendingInit, flushing, out, call>>
      BY <1>2 DEF LoopSteps, LoopTop, Dial, Wait, EnterReadLoop, ReadError, CheckForce,
         LoopLeaves, WaitLoss, Redial, Deliver, LoopFrame, cmdVars
    <3>2. pc[Reader] \notin Sending
      BY <1>2 DEF LoopSteps, LoopTop, Dial, Wait, EnterReadLoop, ReadError, CheckForce,
         LoopLeaves, WaitLoss, Redial, Deliver, At, Sending
    <3>3. \E l \in {"done", "dial", "enter", "wait", "top", "read", "panic", "returned",
                    "waitLoss", "redial", "recover", "check"} : Goto(l)
      BY <1>2, Zenon DEF LoopSteps, LoopTop, Dial, Wait, EnterReadLoop, ReadError, CheckForce,
         LoopLeaves, WaitLoss, Redial, Deliver, FromTop
    <3> QED BY <3>1, <3>2, <3>3 DEF Sending
  <2>2. \A q \in Procs : q # Reader => pc'[q] = pc[q]
    BY <2>1, Types DEF Goto, Base
  <2>3. pc'[Reader] \notin Sending
    BY <2>1, Types, ReaderIsNoCaller DEF Goto, Base
  <2> QED BY <2>1, <2>2, <2>3 DEF Idles
<1>3. ASSUME Consume \/ Cancel \/ Feed \/ UNCHANGED vars PROVE Idles
  BY <1>3 DEF Consume, Cancel, Feed, vars, clientVars, cmdVars, procVars, readerVars, Idles
<1> QED BY <1>1, <1>2, <1>3

-----------------------------------------------------------------------------
(* What the service says.                                                  *)

\* The next number of a subscription leaves its tickers alone.
LEMMA AdvanceTickers ==
    ASSUME NEW sub \in Subscription
    PROVE  LET next == Advance(sub)
           IN  next.tickers = sub.tickers /\ next.live = sub.live /\ next.global = sub.global
<1> DEFINE gap == IF sub.gap = 0 /\ sub.lost THEN sub.seq + 1 ELSE sub.gap
<1>1. CASE Numbered(sub)
  <2>1. Advance(sub) = [sub EXCEPT !.seq = @ + 1, !.sent = TRUE, !.gap = gap]
    BY <1>1 DEF Advance
  <2> HIDE DEF gap
  <2> QED BY <2>1 DEF Subscription
<1>2. CASE ~Numbered(sub)
  BY <1>2 DEF Advance
<1> QED BY <1>1, <1>2

\* A message of the type on subscription s, which becomes one with these fields.
Spoken(s, live, global, tickers, type, list) ==
    LET next == subs'[1][s]
    IN  /\ DOMAIN subs'[1] = DOMAIN subs[1]
        /\ \A t \in DOMAIN subs[1] : t # s => subs'[1][t] = subs[1][t]
        /\ next.live = live /\ next.global = global /\ next.tickers = tickers
        /\ \E m \in Message : /\ down'[1] = Append(down[1], m)
                              /\ m.sid = s /\ m.type = type /\ m.tickers = list

\* An answer to a subscription's command is one message more on the connection.
LEMMA AnswerSpoken ==
    ASSUME Inv, NEW s \in DOMAIN subs[1], NEW sub \in Subscription,
           NEW type \in MessageTypes, NEW id \in Nat,
           NEW tickers \in SUBSET Tickers, Answer(1, s, sub, type, id, tickers)
    PROVE  Spoken(s, sub.live, sub.global, sub.tickers, type, tickers)
<1> DEFINE next == Advance(sub)
           m == Msg(type, id, s, next.seq, tickers)
<1>1. /\ next \in Subscription
      /\ next.tickers = sub.tickers /\ next.live = sub.live /\ next.global = sub.global
  BY AdvanceTickers, AdvanceFields
<1>2. subs' = [subs EXCEPT ![1][s] = next] /\ down' = [down EXCEPT ![1] = Append(@, m)]
  BY DEF Answer
<1>3. s \in Sids /\ next.seq \in Nat
  BY <1>1, FirstTypes DEF Subscription
<1> HIDE DEF next
<1>4. m \in Message /\ m.sid = s /\ m.type = type /\ m.tickers = tickers
  BY <1>3 DEF Msg, Message
<1> HIDE DEF m
<1>5. down'[1] = Append(down[1], m)
  BY <1>2, Types, OneConn
<1>6. subs'[1] = [subs[1] EXCEPT ![s] = next]
  BY <1>2, Types, OneConn
<1>7. /\ subs'[1][s] = next /\ DOMAIN subs'[1] = DOMAIN subs[1]
      /\ \A t \in DOMAIN subs[1] : t # s => subs'[1][t] = subs[1][t]
  BY <1>6
<1> QED BY <1>1, <1>4, <1>5, <1>7 DEF Spoken

\* The service says nothing about tickers.
Chatter ==
    /\ DOMAIN subs'[1] = DOMAIN subs[1]
    /\ \A s \in DOMAIN subs[1] :
         /\ subs'[1][s].tickers = subs[1][s].tickers
         /\ subs'[1][s].live = subs[1][s].live /\ subs'[1][s].global = subs[1][s].global
    /\ \/ down'[1] = down[1]
       \/ \E m \in Message : down'[1] = Append(down[1], m) /\ m.type \in {"data", "error"}

\* Data and errors announce nothing, list nothing and end nothing.
LEMMA ChatterKeeps ==
    ASSUME Inv, Chatter
    PROVE  /\ Answers => Answers'
           /\ \A s \in DOMAIN subs[1] : SubKept(s)
           /\ \A id : Announced(id)' = Announced(id)
           /\ \A s : BornOf(down[1], s) = {} => BornOf(down[1], s)' = {}
<1>1. down[1] \in Seq(Message)
  BY FirstTypes
<1>2. /\ \A id : AnnouncedIn(down'[1], id) = AnnouncedIn(down[1], id)
      /\ \A s : BornOf(down[1], s) = {} => BornOf(down'[1], s) = {}
      /\ \A s : ListsOf(down'[1], s) # {} <=> ListsOf(down[1], s) # {}
      /\ \A s : OverIn(down'[1], s) <=> OverIn(down[1], s)
      /\ \A s, tickers : Lists(down[1], s, tickers) => Lists(down'[1], s, tickers)
  <2>1. CASE down'[1] = down[1]
    BY <2>1
  <2>2. ASSUME NEW m \in Message, down'[1] = Append(down[1], m), m.type \in {"data", "error"}
        PROVE  <1>2!:
    <3>1. m.type # "subscribed" /\ m.type # "ok" /\ m.type # "unsubscribed"
      BY <2>2
    <3> QED BY <1>1, <2>2, <3>1, MessageAppended
  <2> QED BY <2>1, <2>2 DEF Chatter
<1>3. Answers => Answers'
  <2> SUFFICES ASSUME Answers, NEW s \in DOMAIN subs'[1] PROVE SaidOf(s)'
    BY DEF Answers
  <2>1. s \in DOMAIN subs[1] /\ SaidOf(s)
    BY DEF Answers, Chatter
  <2> QED BY <1>2, <2>1 DEF Chatter, SaidOf
<1>4. ASSUME NEW s \in DOMAIN subs[1] PROVE SubKept(s)
  BY <1>2, <1>4 DEF Chatter, SubKept, Listing
<1> QED BY <1>2, <1>3, <1>4 DEF Announced

\* Numbering a message of data or an error is such chatter.
LEMMA SpokenChatter ==
    ASSUME Inv, NEW s \in DOMAIN subs[1], NEW type \in {"data", "error"}, NEW id \in Nat,
           NEW sub \in Subscription, sub.live = subs[1][s].live,
           sub.global = subs[1][s].global, sub.tickers = subs[1][s].tickers,
           Answer(1, s, sub, type, id, {})
    PROVE  Chatter
<1>1. type \in MessageTypes
  BY DEF MessageTypes
<1>2. Spoken(s, sub.live, sub.global, sub.tickers, type, {})
  BY <1>1, AnswerSpoken
<1> QED BY <1>2 DEF Spoken, Chatter

\* The feed.
LEMMA FeedChatter == ASSUME Inv, ServerStep PROVE Chatter
<1>1. PICK k \in Conns : Break(k) \/ \E s \in Sids : Send(k, s) \/ Lose(k, s)
  BY DEF ServerStep
<1>2. CASE Break(k)
  BY <1>2 DEF Break, Chatter
<1>3. ASSUME NEW s \in Sids, Send(k, s) PROVE Chatter
  <2>1. s \in DOMAIN subs[k] /\ Answer(k, s, subs[k][s], "data", 0, {})
    BY <1>3 DEF Send, CanSend, Live
  <2>2. CASE k = 1
    <3>1. subs[1][s] \in Subscription
      BY <2>1, <2>2, FirstTypes
    <3> QED BY <2>1, <2>2, <3>1, SpokenChatter
  <2>3. CASE k # 1
    BY <2>1, <2>3, Types, OneConn DEF Answer, Chatter
  <2> QED BY <2>2, <2>3
<1>4. ASSUME NEW s \in Sids, Lose(k, s) PROVE Chatter
  <2>1. /\ s \in DOMAIN subs[k] /\ UNCHANGED down
        /\ subs' = [subs EXCEPT ![k][s] = Skipped(subs[k][s])]
    BY <1>4 DEF Lose, CanSend, Live
  <2>2. CASE k = 1
    <3>1. subs'[1] = [subs[1] EXCEPT ![s] = Skipped(subs[1][s])]
      BY <2>1, <2>2, Types, OneConn
    <3>2. subs[1][s] \in Subscription
      BY <2>1, <2>2, FirstTypes
    <3>3. /\ Skipped(subs[1][s]).tickers = subs[1][s].tickers
          /\ Skipped(subs[1][s]).live = subs[1][s].live
          /\ Skipped(subs[1][s]).global = subs[1][s].global
      BY <3>2 DEF Skipped, Subscription
    <3> QED BY <2>1, <2>2, <3>1, <3>3 DEF Chatter
  <2>3. CASE k # 1
    BY <2>1, <2>3, Types, OneConn DEF Chatter
  <2> QED BY <2>2, <2>3
<1> QED BY <1>1, <1>2, <1>3, <1>4

\* The service's data.
LEMMA FeedSteps == ASSUME Base, Feed PROVE Answers' /\ Commands' /\ ChannelsFine'
<1>1. Idles /\ Chatter
  BY OutsideIdles, FeedChatter DEF Feed, Base
<1>2. Answers'
  BY <1>1, ChatterKeeps DEF Base
<1>3. Commands'
  <2>1. \A s : BornOf(down[1], s) = {} => BornOf(down[1], s)' = {}
    BY <1>1, ChatterKeeps DEF Base
  <2>2. \A id : Announced(id)' = Announced(id)
    BY <1>1, ChatterKeeps DEF Base
  <2>3. \A p \in Procs : pc[p] \in {"grab", "write"} /\ Announced(out[p].id) = {} =>
          Announced(out[p].id)' = {}
    <3> SUFFICES ASSUME NEW p \in Procs, pc[p] \in {"grab", "write"}, Announced(out[p].id) = {}
                 PROVE  Announced(out[p].id)' = {}
      OBVIOUS
    <3>1. out' = out
      BY DEF Feed, clientVars, procVars
    <3> QED BY <2>2, <3>1 DEF Announced
  <2> QED BY <1>1, <2>1, <2>3, IdleCommands
<1>4. ChannelsFine'
  BY <1>1, ChatterKeeps, IdleChannels DEF Base
<1> QED BY <1>2, <1>3, <1>4

-----------------------------------------------------------------------------
(* Sending a command.                                                      *)

\* The sender goes on to label l; what it sends is the same.
Pushes(p, l) ==
    /\ p \in Procs /\ pc[p] \in Upward /\ CommandFine(p)
    /\ pc' = [pc EXCEPT ![p] = l]
    /\ \A q \in Procs : q # p => pc'[q] = pc[q] /\ out'[q] = out[q]
    /\ pc'[p] = l
    /\ out'[p].kind = out[p].kind /\ out'[p].ch = out[p].ch /\ out'[p].sid = out[p].sid
    /\ out'[p].tickers = out[p].tickers /\ out'[p].global = out[p].global
    /\ UNCHANGED <<call, stateVars, flushing>>

\* A send goes from one label to the next, and changes no role.
LEMMA SendPushes ==
    ASSUME Base, NEW p \in Procs, SendStep(p)
    PROVE  \E l \in {"grab", "write", "finish"} : Pushes(p, l)
<1>1. /\ \E l \in {"grab", "write", "finish"} : pc' = [pc EXCEPT ![p] = l]
      /\ \/ \E id : out' = [out EXCEPT ![p].id = id]
         \/ \E c : out' = [out EXCEPT ![p].conn = c]
         \/ \E ok : out' = [out EXCEPT ![p].ok = ok]
      /\ pc[p] \in Upward
      /\ UNCHANGED <<call, stateVars, flushing>>
  BY DEF SendStep, Register, GrabConn, WriteDelivered, WriteLost, WriteTimeout, Written,
         SendFrame, readerVars, Upward
<1>2. pc \in [Procs -> CallerLabels \cup ReaderLabels] /\ out \in [Procs -> SendRecord]
  BY Types DEF Base
<1>3. /\ \A q \in Procs : q # p => pc'[q] = pc[q] /\ out'[q] = out[q]
      /\ \A l : pc' = [pc EXCEPT ![p] = l] => pc'[p] = l
  BY <1>1, <1>2
<1>4. /\ out'[p].kind = out[p].kind /\ out'[p].ch = out[p].ch /\ out'[p].sid = out[p].sid
      /\ out'[p].tickers = out[p].tickers /\ out'[p].global = out[p].global
  BY <1>1, <1>2 DEF SendRecord
<1>5. CommandFine(p)
  BY <1>1 DEF Base, Commands, Upward, Sending
<1> QED BY <1>1, <1>3, <1>4, <1>5 DEF Pushes

\* What is sent stays what it is sent for.
LEMMA PushedSends ==
    ASSUME NEW p, NEW l, Pushes(p, l)
    PROVE  /\ p = Reader => ReaderSends'
           /\ p # Reader => CallerSends(p)'
<1>1. p # Reader => p \in Callers
  BY DEF Pushes, Procs
<1>2. p = Reader => ReaderSends'
  BY DEF Pushes, CommandFine, ReaderSends, stateVars
<1>3. p # Reader => CallerSends(p)'
  <2>1. Ch(p)' = Ch(p)
    BY DEF Pushes, Ch
  <2> QED BY <1>1, <2>1 DEF Pushes, CommandFine, CallerSends, stateVars
<1> QED BY <1>2, <1>3

\* It keeps the commands when the id it took is a new one.
LEMMA PushedCommands ==
    ASSUME Base, NEW p, NEW l \in {"grab", "write", "finish"}, Pushes(p, l),
           l \in {"grab", "write"} => Unanswered(p)',
           l = "finish" => out'[p].ok,
           pendingInit \subseteq pendingInit',
           \A q \in Procs : BornOf(down[1], out[q].sid) = {} => BornOf(down'[1], out[q].sid) = {},
           \A q \in Procs : q # p /\ pc[q] \in {"grab", "write"} /\ Announced(out[q].id) = {} =>
             AnnouncedIn(down'[1], out[q].id) = {}
    PROVE  Commands'
<1>1. ASSUME NEW q \in Procs, pc'[q] \in Sending PROVE CommandFine(q)'
  <2>1. CASE q # p
    <3>1. pc[q] \in Sending /\ CommandFine(q)
      BY <1>1, <2>1 DEF Pushes, Base, Commands
    <3>2. q \in Callers => Ch(q)' = Ch(q)
      BY DEF Pushes, Ch
    <3>3. pc'[q] = pc[q] /\ out'[q] = out[q] /\ call' = call
      BY <2>1 DEF Pushes
    <3>4. BornOf(down[1], out[q].sid) = {} => BornOf(down[1], out[q].sid)' = {}
      BY <3>3
    <3>5. pc[q] \in {"grab", "write"} /\ Announced(out[q].id) = {} => Announced(out[q].id)' = {}
      BY <2>1, <3>3 DEF Announced
    <3>6. CommandKept(q)
      BY <3>2, <3>3, <3>4, <3>5 DEF Pushes, CommandKept, stateVars
    <3> QED BY <3>1, <3>6, CommandStays
  <2>2. CASE q = p
    <3>1. CommandFine(p) /\ p \in Procs
      BY DEF Pushes
    <3>2. out'[p].kind # "subscribe" => out'[p].sid # NoSID /\ BornOf(down[1], out[p].sid)' = {}
      BY <3>1 DEF Pushes, CommandFine
    <3>3. IF p = Reader THEN ReaderSends' ELSE CallerSends(p)'
      BY PushedSends
    <3>4. pc'[p] \in {"grab", "write"} => Unanswered(p)'
      BY DEF Pushes
    <3>5. pc'[p] = "finish" => out'[p].ok
      BY DEF Pushes
    <3> QED BY <2>2, <3>2, <3>3, <3>4, <3>5 DEF CommandFine
  <2> QED BY <2>1, <2>2
<1>2. pc'[Reader] \notin Sending => flushing' = Nil
  <2>1. CASE p = Reader
    BY <2>1 DEF Pushes, Sending
  <2>2. CASE p # Reader
    BY <2>2, ReaderIsNoCaller DEF Pushes, Base, Commands
  <2> QED BY <2>1, <2>2
<1> QED BY <1>1, <1>2 DEF Commands

\* On the way to the write.
LEMMA PushedUpward ==
    ASSUME Base, NEW p, NEW l \in {"grab", "write"}, Pushes(p, l),
           Unanswered(p)', pendingInit \subseteq pendingInit', UNCHANGED <<subs, down>>
    PROVE  Answers' /\ Commands' /\ ChannelsFine'
<1>1. Answers'
  BY NothingSaid DEF Base
<1>2. Commands'
  BY PushedCommands DEF Announced
<1>3. RolesSame
  <2>1. \A q \in Procs : RoleKept(q)
    BY DEF Pushes, RoleKept, Upward
  <2> QED BY <2>1, RolesKept DEF Base
<1>4. ChannelsFine'
  <2>1. UNCHANGED <<channels, sidMap>> /\ \A o \in Objs : TickersSame(o)
    BY DEF Pushes, stateVars, TickersSame
  <2> QED BY <1>3, <2>1, NothingSaid, ChannelsKept
<1> QED BY <1>1, <1>2, <1>4

\* The id is allocated, and the pending subscribe entered.
LEMMA RegisterSteps ==
    ASSUME Base, NEW p \in Procs, Register(p)
    PROVE  Answers' /\ Commands' /\ ChannelsFine'
<1>1. PICK l \in {"grab", "write", "finish"} : Pushes(p, l)
  BY SendPushes DEF SendStep
<1>2. l = "grab"
  BY <1>1, Types DEF Pushes, Register, Base
<1>3. /\ UNCHANGED <<subs, down>> /\ pendingInit \subseteq pendingInit'
      /\ out'[p].id = NextID
      /\ out[p].kind = "subscribe" => [id |-> NextID, ch |-> out[p].ch] \in pendingInit'
  <2>1. out \in [Procs -> SendRecord]
    BY Types DEF Base
  <2>2. out'[p].id = NextID
    BY <2>1 DEF Register, SendRecord
  <2> QED BY <2>2 DEF Register, serverVars
<1>4. Announced(NextID) = {}
  <2>1. \A i \in DOMAIN down[1] : down[1][i].id <= msgID /\ down[1][i].id \in Nat /\ msgID \in Nat
    <3>1. 1 \in Conns /\ down[1] \in Seq(Message) /\ msgID \in Nat
      BY BaseFacts, Types DEF Base
    <3>2. \A i \in DOMAIN down[1] : down[1][i] \in Message
      BY <3>1
    <3> QED BY <3>1, <3>2 DEF Base, Inv, IdsBounded, Message
  <2> QED BY <2>1 DEF Announced, AnnouncedIn, NextID
<1>5. Unanswered(p)'
  <2>1. Announced(out[p].id)' = {}
    BY <1>3, <1>4 DEF Announced
  <2>2. out'[p].kind = out[p].kind /\ out'[p].ch = out[p].ch
    BY <1>1 DEF Pushes
  <2> QED BY <1>3, <2>1, <2>2 DEF Unanswered
<1> QED BY <1>1, <1>2, <1>3, <1>5, PushedUpward

\* writeJSON copies the connection.
LEMMA GrabConnSteps ==
    ASSUME Base, NEW p \in Procs, GrabConn(p)
    PROVE  Answers' /\ Commands' /\ ChannelsFine'
<1>1. PICK l \in {"grab", "write", "finish"} : Pushes(p, l)
  BY SendPushes DEF SendStep
<1>2. l = "write"
  BY <1>1, Types DEF Pushes, GrabConn, Base
<1>3. /\ UNCHANGED <<subs, down, pendingInit>> /\ out'[p].id = out[p].id
  <2>1. out \in [Procs -> SendRecord]
    BY Types DEF Base
  <2>2. out'[p].id = out[p].id
    BY <2>1 DEF GrabConn, SendRecord
  <2> QED BY <2>2 DEF GrabConn, serverVars, cmdVars
<1>4. Unanswered(p)'
  <2>1. Unanswered(p)
    BY <1>1 DEF Pushes, CommandFine, GrabConn
  <2> QED BY <1>1, <1>3, <2>1 DEF Unanswered, Announced, Pushes
<1> QED BY <1>1, <1>2, <1>3, <1>4, PushedUpward

-----------------------------------------------------------------------------
(* The service gets a command.                                             *)

\* The command of p is written, and answered.
Delivers(p) ==
    /\ p \in Procs /\ pc[p] = "write" /\ Pushes(p, "finish") /\ out'[p].ok
    /\ Received(out[p]) /\ Receive(1, out[p])
    /\ UNCHANGED pendingInit

\* What a delivered write does to its sender.
LEMMA DeliveredDelivers ==
    ASSUME Base, NEW p \in Procs, WriteDelivered(p) PROVE Delivers(p)
<1>1. PICK l \in {"grab", "write", "finish"} : Pushes(p, l)
  BY SendPushes DEF SendStep
<1>2. l = "finish" /\ out'[p].ok
  <2>1. pc \in [Procs -> CallerLabels \cup ReaderLabels] /\ out \in [Procs -> SendRecord]
    BY Types DEF Base
  <2> QED BY <1>1, <2>1 DEF Pushes, WriteDelivered, Written, SendRecord
<1>3. out[p].conn = 1
  BY BaseFacts DEF WriteDelivered
<1>4. Received(out[p]) /\ Receive(1, out[p])
  BY <1>3, DeliveredFacts DEF Base
<1> QED BY <1>1, <1>2, <1>4 DEF Delivers, WriteDelivered, Written, cmdVars

\* The write can only succeed.
LEMMA WritesDeliver ==
    ASSUME Base, ~MayTimeout, NEW p \in Procs, SendStep(p)
    PROVE  Register(p) \/ GrabConn(p) \/ WriteDelivered(p)
<1>1. pc[p] = "write" => Up(out[p].conn)
  BY BaseFacts
<1>2. ~WriteLost(p)
  BY <1>1 DEF WriteLost
<1>3. ~WriteTimeout(p)
  <2>1. ~Recovering
    BY BaseFacts
  <2> QED BY <2>1 DEF WriteTimeout, Recovering, Sending
<1> QED BY <1>2, <1>3 DEF SendStep

\* Whose commands and whose tickers these are, after the write.
LEMMA DeliversRoles ==
    ASSUME Base, NEW p, Delivers(p)
    PROVE  /\ \A ch : Parting(ch) => Parting(ch)'
           /\ \A ch, o : (Opening(ch, o) /\ out[p].kind # "subscribe") => Opening(ch, o)'
           /\ \A s : s # out[p].sid => (Narrows(s) => Narrows(s)')
           /\ out[p].kind # "add" => \A s : Narrows(s) => Narrows(s)'
           /\ \A s : Widens(s)' => Widens(s)
           /\ \A o : (p = Reader \/ call[p].op # "add" \/ call[p].state # o) => Paying(o)' = Paying(o)
           /\ \A o : Paying(o)' \subseteq Paying(o) \cup out[p].tickers
<1>1. /\ \A q \in Procs : q # p => pc'[q] = pc[q] /\ out'[q] = out[q]
      /\ pc[p] = "write" /\ pc'[p] = "finish" /\ p \in Procs
      /\ out'[p].kind = out[p].kind /\ out'[p].sid = out[p].sid
      /\ out'[p].tickers = out[p].tickers
      /\ UNCHANGED <<call, stateVars, flushing>>
  BY DEF Delivers, Pushes
<1>2. \A q \in Callers : q \in Procs /\ q # Reader
  BY ReaderIsNoCaller
<1>3. ASSUME NEW ch, Parting(ch) PROVE Parting(ch)'
  BY <1>1, <1>2, <1>3 DEF Parting, Ch
<1>4. ASSUME NEW ch, NEW o, Opening(ch, o), out[p].kind # "subscribe" PROVE Opening(ch, o)'
  <2>1. PICK q \in Callers :
          /\ pc[q] \in Upward /\ out[q].kind = "subscribe" /\ out[q].ch = ch
          /\ obj[o].pending = {} /\ obj[o].global = out[q].global
          /\ obj[o].markets = IF call[q].op = "subscribe" THEN out[q].tickers ELSE {}
    BY <1>4 DEF Opening
  <2>2. q # p /\ q \in Procs
    BY <1>2, <1>4, <2>1
  <2> QED BY <1>1, <2>1, <2>2 DEF Opening, stateVars
<1>5. ASSUME NEW s, s # out[p].sid \/ out[p].kind # "add", Narrows(s) PROVE Narrows(s)'
  <2>1. PICK q \in Procs : pc[q] \in Upward /\ out[q].kind = "add" /\ out[q].sid = s
    BY <1>5 DEF Narrows
  <2>2. q # p
    BY <1>5, <2>1
  <2> QED BY <1>1, <2>1, <2>2 DEF Narrows
<1>6. \A s : Widens(s)' => Widens(s)
  BY <1>1 DEF Widens, Sending
<1>7. ASSUME NEW o, p = Reader \/ call[p].op # "add" \/ call[p].state # o
      PROVE  Paying(o)' = Paying(o)
  <2>1. \A q \in Callers : call[q].op = "add" /\ call[q].state = o => q # p
    BY <1>2, <1>7
  <2>2. ASSUME NEW q \in Callers, call[q].op = "add", call[q].state = o
        PROVE  (pc'[q] = "finish" <=> pc[q] = "finish") /\ out'[q] = out[q]
    BY <1>1, <1>2, <2>1, <2>2
  <2>3. {q \in Callers : pc'[q] = "finish" /\ call[q].op = "add" /\ call[q].state = o}
          = {q \in Callers : pc[q] = "finish" /\ call[q].op = "add" /\ call[q].state = o}
    BY <2>2
  <2> QED BY <1>1, <2>2, <2>3 DEF Paying
<1>8. ASSUME NEW o PROVE Paying(o)' \subseteq Paying(o) \cup out[p].tickers
  <2> SUFFICES ASSUME NEW x, x \in Paying(o)' PROVE x \in Paying(o) \cup out[p].tickers
    OBVIOUS
  <2>1. PICK q \in Callers : /\ pc'[q] = "finish" /\ call[q].op = "add" /\ call[q].state = o
                             /\ x \in out'[q].tickers
    BY <1>1 DEF Paying
  <2>2. CASE q = p
    BY <1>1, <2>1, <2>2
  <2>3. CASE q # p
    <3>1. pc[q] = "finish" /\ x \in out[q].tickers
      BY <1>1, <1>2, <2>1, <2>3
    <3> QED BY <2>1, <3>1 DEF Paying
  <2> QED BY <2>2, <2>3
<1> QED BY <1>3, <1>4, <1>5, <1>6, <1>7, <1>8

\* A channel that the command is not about.
LEMMA DeliversOther ==
    ASSUME Base, NEW p, Delivers(p), out[p].kind # "subscribe",
           NEW ch \in Channels, NEW o \in Objs, channels[ch] = o,
           obj[o].sid # out[p].sid,
           p = Reader \/ call[p].op # "add" \/ call[p].state # o,
           \A s \in DOMAIN subs[1] : s # out[p].sid => SubKept(s),
           \A id : Announced(id)' = Announced(id)
    PROVE  Fine(ch, o)'
<1>1. Fine(ch, o) /\ obj[o].name = ch
  BY BaseFacts
<1>2. UNCHANGED <<stateVars, pendingInit>>
  BY DEF Delivers, Pushes
<1>3. \A s : s \in DOMAIN subs[1] /\ s # out[p].sid =>
        SubKept(s) /\ (Narrows(s) => Narrows(s)') /\ (Widens(s)' => Widens(s))
  BY DeliversRoles
<1>4. ASSUME NEW s, Matters(ch, o, s) PROVE s \in DOMAIN subs[1] /\ s # out[p].sid
  <2>1. s \in DOMAIN subs[1]
    BY <1>4, MattersWhere
  <2>2. BornOf(down[1], out[p].sid) = {}
    BY DEF Delivers, Pushes, CommandFine
  <2>3. ASSUME NEW e, s \in Announced(e.id) PROVE BornOf(down[1], s) # {}
    BY <2>3 DEF Announced, AnnouncedIn, BornOf
  <2> QED BY <1>4, <2>1, <2>2, <2>3 DEF Matters
<1>5. Owed(o)' = Owed(o)
  <2>1. Paying(o)' = Paying(o)
    BY DeliversRoles
  <2> QED BY <1>2, <2>1 DEF Owed, stateVars
<1>6. Opening(ch, o) => Opening(ch, o)'
  BY DeliversRoles
<1>7. Parting(ch) => Parting(ch)'
  BY DeliversRoles
<1>8. \A s : Matters(ch, o, s) =>
        SubKept(s) /\ (Narrows(s) => Narrows(s)') /\ (Widens(s)' => Widens(s))
  BY <1>3, <1>4
<1> QED BY <1>1, <1>2, <1>5, <1>6, <1>7, <1>8, FineKept DEF stateVars

\* What a command about a subscription leads to.
Word(p) == Chatter /\ (out[p].kind = "snapshot" \/ ~subs[1][out[p].sid].live)
Update(p) ==
    LET s == out[p].sid
        tickers == subs[1][s].tickers \cup out[p].tickers
    IN  /\ out[p].kind = "add" /\ subs[1][s].live
        /\ Spoken(s, TRUE, FALSE, tickers, "ok", tickers)
Farewell(p) ==
    LET s == out[p].sid
        sub == subs[1][s]
    IN  /\ out[p].kind = "unsubscribe" /\ sub.live
        /\ Spoken(s, FALSE, sub.global, sub.tickers, "unsubscribed", {})

\* A command about a subscription is answered with a word, an update or a farewell.
LEMMA AboutCases ==
    ASSUME Base, ~MayReject, NEW p, Delivers(p), out[p].kind # "subscribe"
    PROVE  /\ out[p].sid \in DOMAIN subs[1]
           /\ Word(p) \/ Update(p) \/ Farewell(p)
<1> DEFINE cmd == out[p]
           s == cmd.sid
<1>1. /\ cmd.id \in Nat /\ cmd.tickers \in SUBSET Tickers /\ Receive(1, cmd)
      /\ CommandFine(p) /\ s # NoSID
  BY DEF Delivers, Received, Pushes, CommandFine
<1>2. s \in DOMAIN subs[1] /\ subs[1][s] \in Subscription
  <2>1. Len(link) = 1
    BY BaseFacts
  <2>2. s \in DOMAIN subs[1]
    BY <1>1, <2>1 DEF Base, Aimed, Owned, Delivers
  <2> QED BY <2>2, BaseFacts
<1>3. cmd.kind \in {"add", "snapshot", "unsubscribe"}
  BY <1>1 DEF CommandFine, ReaderSends, CallerSends
<1>4. CASE AcceptSubscribe(1, cmd)
  BY <1>4 DEF AcceptSubscribe
<1>5. CASE AcceptUpdate(1, cmd)
  <2> DEFINE tickers == subs[1][s].tickers \cup cmd.tickers
             sub == [subs[1][s] EXCEPT !.tickers = tickers, !.global = FALSE]
  <2>1. cmd.kind = "add" /\ subs[1][s].live
    BY <1>3, <1>5 DEF AcceptUpdate, Live
  <2>2. Answer(1, s, sub, "ok", cmd.id, tickers)
    BY <1>5, <2>1 DEF AcceptUpdate, UpdatedTickers
  <2>3. tickers \in SUBSET Tickers
    BY <1>1, <1>2 DEF Subscription
  <2>4. /\ sub \in Subscription /\ sub.live = TRUE /\ sub.global = FALSE
        /\ sub.tickers = tickers
    <3> HIDE DEF tickers
    <3> QED BY <1>2, <2>1, <2>3 DEF Subscription
  <2>5. "ok" \in MessageTypes
    BY DEF MessageTypes
  <2> HIDE DEF sub, tickers
  <2>6. Spoken(s, sub.live, sub.global, sub.tickers, "ok", tickers)
    BY <1>1, <1>2, <2>2, <2>3, <2>4, <2>5, AnswerSpoken DEF Base
  <2> QED BY <1>2, <2>1, <2>4, <2>6 DEF Update, tickers
<1>6. CASE AcceptSnapshot(1, cmd)
  <2>1. cmd.kind = "snapshot" /\ Answer(1, s, subs[1][s], "data", 0, {})
    BY <1>6 DEF AcceptSnapshot
  <2>2. Chatter
    BY <1>2, <2>1, SpokenChatter DEF Base
  <2> QED BY <1>2, <2>1, <2>2 DEF Word
<1>7. CASE AcceptUnsubscribe(1, cmd)
  <2> DEFINE sub == [subs[1][s] EXCEPT !.live = FALSE]
  <2>1. cmd.kind = "unsubscribe" /\ subs[1][s].live
        /\ Answer(1, s, sub, "unsubscribed", cmd.id, {})
    BY <1>7 DEF AcceptUnsubscribe, Live
  <2>2. "unsubscribed" \in MessageTypes
    BY DEF MessageTypes
  <2>3. /\ sub \in Subscription /\ sub.live = FALSE /\ sub.global = subs[1][s].global
        /\ sub.tickers = subs[1][s].tickers
    BY <1>2 DEF Subscription
  <2> HIDE DEF sub
  <2>4. Spoken(s, sub.live, sub.global, sub.tickers, "unsubscribed", {})
    BY <1>1, <1>2, <2>1, <2>2, <2>3, AnswerSpoken DEF Base
  <2> QED BY <1>2, <2>1, <2>3, <2>4 DEF Farewell
<1>8. CASE UnknownSid(1, cmd)
  <2> DEFINE m == Msg("error", cmd.id, 0, 0, {})
  <2>1. /\ down' = [down EXCEPT ![1] = Append(@, m)] /\ subs' = subs
        /\ ~subs[1][s].live
    BY <1>2, <1>8 DEF UnknownSid, Error, Live
  <2>2. m \in Message /\ m.type = "error"
    BY <1>1 DEF Message, Msg, MessageTypes
  <2> HIDE DEF m
  <2>3. Chatter
    BY <2>1, <2>2, Types, OneConn DEF Chatter, Base
  <2> QED BY <1>2, <2>1, <2>3 DEF Word
<1> QED BY <1>1, <1>4, <1>5, <1>6, <1>7, <1>8 DEF Receive, Reject

\* A channel whose subscription has ended.
LEMMA PartingKept ==
    ASSUME Base, NEW ch \in Channels, NEW o \in Objs, channels[ch] = o,
           obj'[o].sid = obj[o].sid, obj[o].sid # NoSID,
           LET s == obj[o].sid
           IN  /\ s \in DOMAIN subs'[1] /\ ~subs'[1][s].live
               /\ BornOf(down[1], s) = {} => BornOf(down'[1], s) = {},
           Parting(ch)'
    PROVE  Fine(ch, o)'
<1>1. Fine(ch, o)
  BY BaseFacts
<1>2. BornOf(down[1], obj[o].sid) = {}
  BY <1>1 DEF Fine, Kept
<1>3. PICK s : s = obj[o].sid
  OBVIOUS
<1>4. BornOf(down'[1], s) = {} /\ s \in DOMAIN subs'[1] /\ ~subs'[1][s].live
  BY <1>2, <1>3
<1>5. obj'[o].sid = s
  BY <1>3
<1>6. Kept(ch, o)'
  BY <1>4, <1>5 DEF Kept
<1> QED BY <1>3, <1>5, <1>6 DEF Fine

\* The states that a caller's add is about have the sid it is sent for.
LEMMA AddsTo ==
    ASSUME Base, NEW p, Delivers(p), out[p].kind # "subscribe", p # Reader,
           call[p].op = "add"
    PROVE  obj[call[p].state].sid = out[p].sid
  BY DEF Delivers, Pushes, CommandFine, CallerSends

\* The answer to a snapshot, or to an update of a subscription that is over.
LEMMA WordDelivered ==
    ASSUME Base, NEW p, Delivers(p), out[p].kind # "subscribe", Word(p),
           out[p].sid \in DOMAIN subs[1]
    PROVE  Answers' /\ Commands' /\ ChannelsFine'
<1>1. /\ Answers' /\ Chatter
      /\ \A s \in DOMAIN subs[1] : SubKept(s)
      /\ \A id : Announced(id)' = Announced(id)
      /\ \A s : BornOf(down[1], s) = {} => BornOf(down'[1], s) = {}
  BY ChatterKeeps DEF Base, Word
<1>2. Commands'
  <2>1. \A id : AnnouncedIn(down'[1], id) = Announced(id)
    BY <1>1 DEF Announced
  <2> QED BY <1>1, <2>1, PushedCommands DEF Delivers
<1>3. /\ UNCHANGED <<stateVars, pendingInit>>
      /\ \A o : TickersSame(o)
  BY DEF Delivers, Pushes, stateVars, TickersSame
<1>4. CASE out[p].kind = "snapshot"
  <2>1. p = Reader \/ call[p].op # "add"
    BY <1>4 DEF Delivers, Pushes, CommandFine, CallerSends
  <2>2. \A o : Paying(o)' = Paying(o)
    BY <2>1, DeliversRoles
  <2>3. RolesSame
    BY <1>4, <2>2, DeliversRoles DEF RolesSame
  <2>4. ChannelsFine'
    BY <1>1, <1>3, <2>3, ChannelsKept DEF stateVars
  <2> QED BY <1>1, <1>2, <2>4
<1>5. CASE ~subs[1][out[p].sid].live
  <2>1. ASSUME NEW ch \in Channels, NEW o \in Objs, channels[ch] = o PROVE Fine(ch, o)'
    <3>1. CASE obj[o].sid # out[p].sid
      <4>1. p = Reader \/ call[p].op # "add" \/ call[p].state # o
        BY <3>1, AddsTo
      <4> QED BY <1>1, <2>1, <3>1, <4>1, DeliversOther
    <3>2. CASE obj[o].sid = out[p].sid
      <4>1. Fine(ch, o) /\ obj[o].sid # NoSID
        BY <2>1, <3>2, BaseFacts
      <4>2. Parting(ch)
        BY <1>5, <3>2, <4>1 DEF Fine, Kept, Agrees
      <4>3. Parting(ch)'
        BY <4>2, DeliversRoles
      <4>4. obj[o].sid \in DOMAIN subs'[1] /\ ~subs'[1][obj[o].sid].live
        BY <1>1, <1>5, <3>2 DEF Chatter
      <4> QED BY <1>1, <1>3, <2>1, <4>1, <4>3, <4>4, PartingKept DEF stateVars
    <3> QED BY <3>1, <3>2
  <2>2. ChannelsFine'
    BY <1>3, <2>1 DEF ChannelsFine, stateVars
  <2> QED BY <1>1, <1>2, <2>2
<1> QED BY <1>4, <1>5 DEF Word

\* A message on subscription s says nothing of the others.
LEMMA SpokenOthers ==
    ASSUME Inv, NEW s \in DOMAIN subs[1], NEW live, NEW global, NEW tickers, NEW type, NEW list,
           type # "subscribed", Spoken(s, live, global, tickers, type, list)
    PROVE  /\ \A t \in DOMAIN subs[1] : t # s => SubKept(t) /\ (SaidOf(t) => SaidOf(t)')
           /\ \A id : Announced(id)' = Announced(id)
           /\ \A t : BornOf(down[1], t) = {} => BornOf(down'[1], t) = {}
<1>1. down[1] \in Seq(Message)
  BY FirstTypes
<1>2. PICK m \in Message : /\ down'[1] = Append(down[1], m)
                           /\ m.sid = s /\ m.type = type /\ m.tickers = list
  BY DEF Spoken
<1>3. /\ \A id : AnnouncedIn(down'[1], id) = AnnouncedIn(down[1], id)
      /\ \A t : BornOf(down[1], t) = {} => BornOf(down'[1], t) = {}
      /\ \A t : t # s => (ListsOf(down'[1], t) # {} <=> ListsOf(down[1], t) # {})
      /\ \A t : t # s => (OverIn(down'[1], t) <=> OverIn(down[1], t))
      /\ \A t, x : t # s /\ Lists(down[1], t, x) => Lists(down'[1], t, x)
  BY <1>1, <1>2, MessageAppended
<1>4. ASSUME NEW t \in DOMAIN subs[1], t # s PROVE SubKept(t) /\ (SaidOf(t) => SaidOf(t)')
  <2>1. subs'[1][t] = subs[1][t] /\ t \in DOMAIN subs'[1]
    BY <1>4 DEF Spoken
  <2> QED BY <1>3, <1>4, <2>1 DEF SubKept, SaidOf, Listing
<1> QED BY <1>3, <1>4 DEF Announced

\* The answer to an unsubscribe.
LEMMA FarewellDelivered ==
    ASSUME Base, NEW p, Delivers(p), Farewell(p), out[p].sid \in DOMAIN subs[1]
    PROVE  Answers' /\ Commands' /\ ChannelsFine'
<1> DEFINE s == out[p].sid
           sub == subs[1][s]
<1>1. /\ out[p].kind = "unsubscribe" /\ sub.live
      /\ Spoken(s, FALSE, sub.global, sub.tickers, "unsubscribed", {})
  BY DEF Farewell
<1>2. /\ \A t \in DOMAIN subs[1] : t # s => SubKept(t) /\ (SaidOf(t) => SaidOf(t)')
      /\ \A id : Announced(id)' = Announced(id)
      /\ \A t : BornOf(down[1], t) = {} => BornOf(down'[1], t) = {}
  BY <1>1, SpokenOthers DEF Base
<1>3. Answers'
  <2>1. ASSUME NEW t \in DOMAIN subs'[1] PROVE SaidOf(t)'
    <3>1. t \in DOMAIN subs[1] /\ SaidOf(t)
      BY <1>1 DEF Spoken, Base, Answers
    <3>2. CASE t # s
      BY <1>2, <3>1, <3>2
    <3>3. CASE t = s
      <4>1. Lists(down[1], s, sub.tickers) /\ (sub.global => sub.tickers = {})
        BY <3>1, <3>3 DEF SaidOf
      <4>2. Lists(down'[1], s, sub.tickers)
        <5>1. PICK m \in Message : /\ down'[1] = Append(down[1], m)
                                   /\ m.sid = s /\ m.type = "unsubscribed"
          BY <1>1 DEF Spoken
        <5> QED BY <4>1, <5>1, BaseFacts, MessageAppended
      <4>3. subs'[1][t].live = FALSE /\ subs'[1][t].global = sub.global
            /\ subs'[1][t].tickers = sub.tickers
        BY <1>1, <3>3 DEF Spoken
      <4> QED BY <3>3, <4>1, <4>2, <4>3 DEF SaidOf
    <3> QED BY <3>2, <3>3
  <2> QED BY <2>1 DEF Answers
<1>4. Commands'
  <2>1. \A id : AnnouncedIn(down'[1], id) = Announced(id)
    BY <1>2 DEF Announced
  <2> QED BY <1>2, <2>1, PushedCommands DEF Delivers
<1>5. UNCHANGED <<stateVars, pendingInit>>
  BY DEF Delivers, Pushes
<1>6. p \in Callers /\ call[p].op = "unsubscribe" /\ out[p].ch = Ch(p)
  BY <1>1 DEF Delivers, Pushes, CommandFine, ReaderSends, CallerSends, Procs
<1>7. ASSUME NEW ch \in Channels, NEW o \in Objs, channels[ch] = o PROVE Fine(ch, o)'
  <2>1. CASE obj[o].sid # s
    BY <1>1, <1>2, <1>6, <1>7, <2>1, DeliversOther
  <2>2. CASE obj[o].sid = s
    <3>1. s # NoSID /\ p \in Procs
      BY <1>1 DEF Delivers, Pushes, CommandFine
    <3>2. ch = Ch(p)
      <4>1. Len(link) <= 1 /\ obj[o].name = ch
        <5>1. Len(link) = 1
          BY BaseFacts
        <5> QED BY <1>7, <5>1, BaseFacts
      <4>2. sub.ch = ch
        BY <2>2, <3>1, <4>1 DEF Base, Aimed, Owned
      <4>3. sub.ch = out[p].ch
        BY <3>1, <4>1 DEF Base, Aimed, Owned
      <4> QED BY <1>6, <4>2, <4>3
    <3>3. Parting(ch)'
      <4>1. pc'[p] = "finish" /\ call' = call
        BY DEF Delivers, Pushes
      <4> QED BY <1>6, <3>2, <4>1 DEF Parting, Ch
    <3>4. s \in DOMAIN subs'[1] /\ ~subs'[1][s].live
      BY <1>1 DEF Spoken
    <3> QED BY <1>2, <1>5, <1>7, <2>2, <3>1, <3>3, <3>4, PartingKept DEF stateVars
  <2> QED BY <2>1, <2>2
<1>8. ChannelsFine'
  BY <1>5, <1>7 DEF ChannelsFine, stateVars
<1> QED BY <1>3, <1>4, <1>8

\* The answer to an update: a list of all the subscription's tickers.
LEMMA UpdateDelivered ==
    ASSUME Base, NEW p, Delivers(p), Update(p), out[p].sid \in DOMAIN subs[1]
    PROVE  Answers' /\ Commands' /\ ChannelsFine'
<1> DEFINE s == out[p].sid
           sub == subs[1][s]
           tickers == sub.tickers \cup out[p].tickers
<1>1. /\ out[p].kind = "add" /\ sub.live
      /\ Spoken(s, TRUE, FALSE, tickers, "ok", tickers)
  BY DEF Update
<1>2. /\ \A t \in DOMAIN subs[1] : t # s => SubKept(t) /\ (SaidOf(t) => SaidOf(t)')
      /\ \A id : Announced(id)' = Announced(id)
      /\ \A t : BornOf(down[1], t) = {} => BornOf(down'[1], t) = {}
  BY <1>1, SpokenOthers DEF Base
<1>3. out[p].tickers # {}
  BY <1>1 DEF Delivers, Pushes, CommandFine, ReaderSends, CallerSends
<1>4. PICK m \in Message : /\ down'[1] = Append(down[1], m)
                           /\ m.sid = s /\ m.type = "ok" /\ m.tickers = tickers
  BY <1>1 DEF Spoken
<1>5. /\ s \in DOMAIN subs'[1] /\ subs'[1][s].live = TRUE /\ subs'[1][s].global = FALSE
      /\ subs'[1][s].tickers = tickers
  BY <1>1 DEF Spoken
<1>6. SaidOf(s)
  BY DEF Base, Answers
<1>7. /\ Lists(down'[1], s, m.tickers) /\ ~OverIn(down'[1], s)
      /\ ListsOf(down'[1], s) # {}
  <2>1. Lists(down[1], s, sub.tickers) /\ ~OverIn(down[1], s)
    BY <1>1, <1>6 DEF SaidOf
  <2>2. sub.tickers \subseteq m.tickers /\ m.tickers # {}
    BY <1>3, <1>4
  <2>3. down[1] \in Seq(Message)
    BY BaseFacts
  <2> HIDE DEF sub, tickers, s
  <2>4. m.sid = s /\ m.type = "ok" /\ down'[1] = Append(down[1], m)
    BY <1>4
  <2>5. Lists(down'[1], s, m.tickers)
    <3>1. \A u, x : /\ Lists(down[1], u, x) /\ m.sid = u /\ m.type = "ok"
                    /\ x \subseteq m.tickers /\ m.tickers # {}
                    => Lists(Append(down[1], m), u, m.tickers)
      BY <2>3, MessageAppended
    <3> QED BY <2>1, <2>2, <2>4, <3>1
  <2>6. ~OverIn(down'[1], s) /\ ListsOf(down'[1], s) # {}
    BY <2>1, <2>3, <2>4, MessageAppended
  <2> QED BY <2>5, <2>6
<1>8. Answers'
  <2>1. ASSUME NEW t \in DOMAIN subs'[1] PROVE SaidOf(t)'
    <3>1. t \in DOMAIN subs[1] /\ SaidOf(t)
      BY <1>1 DEF Spoken, Base, Answers
    <3>2. CASE t # s
      BY <1>2, <3>1, <3>2
    <3>3. CASE t = s
      BY <1>4, <1>5, <1>7, <3>3 DEF SaidOf
    <3> QED BY <3>2, <3>3
  <2> QED BY <2>1 DEF Answers
<1>9. Commands'
  <2>1. \A id : AnnouncedIn(down'[1], id) = Announced(id)
    BY <1>2 DEF Announced
  <2> QED BY <1>2, <2>1, PushedCommands DEF Delivers
<1>10. UNCHANGED <<stateVars, pendingInit>>
  BY DEF Delivers, Pushes
<1>11. ASSUME NEW ch \in Channels, NEW o \in Objs, channels[ch] = o PROVE Fine(ch, o)'
  <2>1. CASE obj[o].sid # s
    <3>1. p = Reader \/ call[p].op # "add" \/ call[p].state # o
      BY <1>1, <2>1, AddsTo
    <3> QED BY <1>1, <1>2, <1>11, <2>1, <3>1, DeliversOther
  <2>2. CASE obj[o].sid = s
    <3>1. s # NoSID /\ p \in Procs /\ pc[p] = "write"
      BY <1>1 DEF Delivers, Pushes, CommandFine
    <3>2. Kept(ch, o)
      BY <1>11, <2>2, <3>1, BaseFacts DEF Fine
    <3>3. Widens(s)
      BY <1>1, <3>1 DEF Widens, Sending
    <3>4. /\ BornOf(down[1], s) = {} /\ sidMap[s] = o /\ obj[o].pending = {}
          /\ Agrees(o, s) /\ ~obj[o].global
      BY <1>1, <2>2, <3>2, <3>3 DEF Kept
    <3>5. PICK t : t = s
      OBVIOUS
    <3>6. Agrees(o, t)'
      <4>1. Owed(o)' \subseteq Owed(o) \cup out[p].tickers
        <5>1. Paying(o)' \subseteq Paying(o) \cup out[p].tickers
          BY DeliversRoles
        <5> QED BY <1>10, <5>1 DEF Owed, stateVars
      <4>2. Owed(o)' \subseteq tickers
        BY <3>4, <4>1 DEF Agrees
      <4>3. t \in DOMAIN subs'[1] /\ subs'[1][t].live /\ subs'[1][t].tickers = tickers
            /\ ListsOf(down'[1], t) # {}
        BY <1>5, <1>7, <3>5
      <4> QED BY <4>2, <4>3 DEF Agrees, Listing
    <3>7. Scope(o, t)'
      <4>1. subs'[1][t].global = FALSE /\ obj'[o].global = obj[o].global
            /\ obj[o].global \in BOOLEAN
        BY <1>5, <1>10, <1>11, <3>5, BaseFacts DEF stateVars, ChannelState
      <4> QED BY <3>4, <4>1 DEF Scope
    <3>8. /\ BornOf(down'[1], t) = {} /\ t \in DOMAIN subs'[1] /\ sidMap'[t] = o
          /\ obj'[o].pending = {} /\ ~obj'[o].global /\ obj'[o].sid = t
      BY <1>2, <1>5, <1>10, <2>2, <3>4, <3>5 DEF stateVars
    <3>9. Kept(ch, o)'
      BY <3>6, <3>7, <3>8 DEF Kept
    <3> QED BY <3>1, <3>5, <3>8, <3>9 DEF Fine
  <2> QED BY <2>1, <2>2
<1>12. ChannelsFine'
  BY <1>10, <1>11 DEF ChannelsFine, stateVars
<1> QED BY <1>8, <1>9, <1>12

\* A new subscription, announced as the answer to command id.
Starts(s, id, global, tickers) ==
    LET next == subs'[1][s]
    IN  /\ s \in Sids /\ s \notin DOMAIN subs[1]
        /\ DOMAIN subs'[1] = DOMAIN subs[1] \cup {s}
        /\ \A t \in DOMAIN subs[1] : subs'[1][t] = subs[1][t]
        /\ next.live = TRUE /\ next.global = global /\ next.tickers = tickers
        /\ \E m \in Message : /\ down'[1] = Append(down[1], m) /\ m.type = "subscribed"
                              /\ m.sid = s /\ m.id = id

\* A subscribe makes one subscription, announced by one message.
LEMMA SubscribeStarts ==
    ASSUME Base, ~MayReject, NEW p, Delivers(p), out[p].kind = "subscribe"
    PROVE  \E s : Starts(s, out[p].id, out[p].global, out[p].tickers)
<1> DEFINE cmd == out[p]
           s == Len(subs[1]) + 1
           m == Msg("subscribed", cmd.id, s, 0, {})
           sub == [ch |-> cmd.ch, global |-> cmd.global, tickers |-> cmd.tickers,
                   live |-> TRUE, seq |-> 0, sent |-> FALSE, lost |-> FALSE, gap |-> 0]
<1>1. cmd.id \in Nat /\ Receive(1, cmd)
  BY DEF Delivers, Received
<1>2. AcceptSubscribe(1, cmd)
  BY <1>1 DEF Receive, Reject, AcceptUpdate, AcceptSnapshot, AcceptUnsubscribe, UnknownSid
<1>3. /\ subs' = [subs EXCEPT ![1] = Append(@, sub)]
      /\ down' = [down EXCEPT ![1] = Append(@, m)] /\ Len(subs[1]) < MaxSubs
  BY <1>2 DEF AcceptSubscribe
<1>4. sub.live = TRUE /\ sub.global = cmd.global /\ sub.tickers = cmd.tickers
  OBVIOUS
<1> HIDE DEF sub
<1>5. subs'[1] = Append(subs[1], sub) /\ down'[1] = Append(down[1], m)
  BY <1>3, Types, OneConn DEF Base
<1>6. /\ DOMAIN subs[1] = 1..Len(subs[1]) /\ Len(subs[1]) \in Nat
      /\ DOMAIN subs'[1] = 1..(Len(subs[1]) + 1)
      /\ \A t \in DOMAIN subs[1] : subs'[1][t] = subs[1][t]
      /\ subs'[1][s] = sub
  BY <1>5, BaseFacts, LenProperties, AppendProperties
<1>7. s \in Sids /\ s \notin DOMAIN subs[1] /\ DOMAIN subs'[1] = DOMAIN subs[1] \cup {s}
  BY <1>3, <1>6, ServerAssumption DEF Sids, ServerAssumption
<1>8. m \in Message /\ m.sid = s /\ m.type = "subscribed" /\ m.id = cmd.id
  <2> HIDE DEF s
  <2> QED BY <1>1, <1>7 DEF Message, Msg, MessageTypes
<1> HIDE DEF s, m
<1> QED BY <1>4, <1>5, <1>6, <1>7, <1>8 DEF Starts

\* What is said of the others, and of the new one.
LEMMA StartsSays ==
    ASSUME Base, NEW s, NEW id, NEW global, NEW tickers, Starts(s, id, global, tickers),
           global => tickers = {}
    PROVE  /\ \A t \in DOMAIN subs[1] : SubKept(t) /\ SaidOf(t)'
           /\ SaidOf(s)' /\ ~Listing(s)'
           /\ \A i : i # id => AnnouncedIn(down'[1], i) = Announced(i)
           /\ AnnouncedIn(down'[1], id) = Announced(id) \cup {s}
           /\ \A t \in DOMAIN subs[1] \cup {NoSID} :
                BornOf(down[1], t) = {} => BornOf(down'[1], t) = {}
<1>1. down[1] \in Seq(Message)
  BY BaseFacts
<1>2. PICK m \in Message : /\ down'[1] = Append(down[1], m) /\ m.type = "subscribed"
                           /\ m.sid = s /\ m.id = id
  BY DEF Starts
<1>3. /\ \A i : i # id => AnnouncedIn(down'[1], i) = AnnouncedIn(down[1], i)
      /\ AnnouncedIn(down'[1], id) = AnnouncedIn(down[1], id) \cup {s}
      /\ \A t : t # s => (BornOf(down[1], t) = {} => BornOf(down'[1], t) = {})
      /\ \A t : ListsOf(down'[1], t) # {} <=> ListsOf(down[1], t) # {}
      /\ \A t : OverIn(down'[1], t) <=> OverIn(down[1], t)
      /\ \A t, x : Lists(down[1], t, x) => Lists(down'[1], t, x)
  BY <1>1, <1>2, MessageAppended
<1>4. s \notin DOMAIN subs[1] /\ s # NoSID
  BY ServerAssumption DEF Starts, Sids, NoSID, ServerAssumption
<1>5. ASSUME NEW t \in DOMAIN subs[1] PROVE SubKept(t) /\ SaidOf(t)'
  <2>1. subs'[1][t] = subs[1][t] /\ t \in DOMAIN subs'[1] /\ t # s
    BY <1>4 DEF Starts
  <2>2. SaidOf(t)
    BY DEF Base, Answers
  <2> QED BY <1>3, <2>1, <2>2 DEF SubKept, SaidOf, Listing
<1>6. \A i \in DOMAIN down[1] : down[1][i].sid # s
  BY <1>4 DEF Base, Order, NoSID
<1>7. ListsOf(down[1], s) = {} /\ ~OverIn(down[1], s)
  BY <1>6 DEF ListsOf, OverIn
<1>8. ListsOf(down'[1], s) = {} /\ ~OverIn(down'[1], s)
  BY <1>3, <1>7
<1>9. SaidOf(s)'
  <2>1. Lists(down'[1], s, tickers)
    BY <1>8 DEF Lists
  <2>2. subs'[1][s].global = global /\ subs'[1][s].tickers = tickers
    BY DEF Starts
  <2> QED BY <1>8, <2>1, <2>2 DEF SaidOf
<1>10. \A t \in DOMAIN subs[1] \cup {NoSID} : t # s
  BY <1>4
<1> QED BY <1>3, <1>5, <1>8, <1>9, <1>10 DEF Announced, Listing

\* Its channel, which was being opened, is opened.
LEMMA SubscribeDelivered ==
    ASSUME Base, NEW p, Delivers(p), out[p].kind = "subscribe",
           NEW s, Starts(s, out[p].id, out[p].global, out[p].tickers)
    PROVE  Answers' /\ Commands' /\ ChannelsFine'
<1> DEFINE e == [id |-> out[p].id, ch |-> out[p].ch]
<1>1. /\ p \in Callers /\ p # Reader /\ p \in Procs /\ CallerSends(p) /\ pc[p] = "write"
      /\ Announced(out[p].id) = {} /\ e \in pendingInit
  BY DEF Delivers, Pushes, CommandFine, ReaderSends, Unanswered, Procs
<1>2. /\ out[p].ch = Ch(p) /\ (out[p].global <=> out[p].tickers = {})
      /\ \/ call[p].op = "subscribe"
         \/ call[p].op = "add" /\ channels[Ch(p)] = call[p].state
  BY <1>1 DEF CallerSends
<1>3. /\ \A t \in DOMAIN subs[1] : SubKept(t) /\ SaidOf(t)'
      /\ SaidOf(s)' /\ ~Listing(s)'
      /\ \A i : i # out[p].id => AnnouncedIn(down'[1], i) = Announced(i)
      /\ AnnouncedIn(down'[1], out[p].id) = {s}
      /\ \A t \in DOMAIN subs[1] \cup {NoSID} :
           BornOf(down[1], t) = {} => BornOf(down'[1], t) = {}
  BY <1>1, <1>2, StartsSays
<1>4. Answers'
  BY <1>3 DEF Answers, Starts
<1>5. Commands'
  <2>1. ASSUME NEW q \in Procs PROVE out[q].sid \in DOMAIN subs[1] \cup {NoSID}
    <3>1. Len(link) <= 1
      <4>1. Len(link) = 1
        BY BaseFacts
      <4> QED BY <4>1
    <3> QED BY <3>1 DEF Base, Aimed, Owned
  <2>2. ASSUME NEW q \in Procs, q # p PROVE out[q].id # out[p].id
    <3>1. out[p].id # 0
      BY <1>1 DEF Base, Inv, IdsBounded
    <3> QED BY <1>1, <2>2, <3>1 DEF Base, Inv, IdsUnique
  <2>3. \A q \in Procs : q # p /\ Announced(out[q].id) = {} => AnnouncedIn(down'[1], out[q].id) = {}
    BY <1>3, <2>2 DEF Announced
  <2> QED BY <1>3, <2>1, <2>3, PushedCommands DEF Delivers
<1>6. UNCHANGED <<stateVars, pendingInit, call>>
  BY DEF Delivers, Pushes
<1>7. \A q \in Callers : q = p
  BY <1>1 DEF Base, OneCaller
<1>8. ASSUME NEW f \in pendingInit, f # e PROVE f.id # out[p].id /\ f.ch # out[p].ch
  BY <1>1, <1>8 DEF Base, Inv, IdsUnique, Named, PendingMatch
<1>9. ASSUME NEW o PROVE Owed(o)' = obj[o].markets \cup
               (IF call[p].op = "add" /\ call[p].state = o THEN out[p].tickers ELSE {})
  <2>1. Paying(o)' = UNION {out'[q].tickers : q \in
                              {r \in Callers : /\ pc'[r] = "finish" /\ call[r].op = "add"
                                               /\ call[r].state = o}}
    BY <1>6 DEF Paying
  <2>2. pc'[p] = "finish" /\ out'[p].tickers = out[p].tickers
    BY DEF Delivers, Pushes
  <2>3. CASE call[p].op = "add" /\ call[p].state = o
    <3>1. {r \in Callers : pc'[r] = "finish" /\ call[r].op = "add" /\ call[r].state = o} = {p}
      BY <1>1, <1>7, <2>2, <2>3
    <3> QED BY <1>6, <2>1, <2>2, <2>3, <3>1 DEF Owed, stateVars
  <2>4. CASE ~(call[p].op = "add" /\ call[p].state = o)
    <3>1. {r \in Callers : pc'[r] = "finish" /\ call[r].op = "add" /\ call[r].state = o} = {}
      BY <1>7, <2>4
    <3> QED BY <1>6, <2>1, <2>4, <3>1 DEF Owed, stateVars
  <2> QED BY <2>3, <2>4
<1>10. ASSUME NEW o PROVE Owed(o) = obj[o].markets
  <2>1. {r \in Callers : pc[r] = "finish" /\ call[r].op = "add" /\ call[r].state = o} = {}
    BY <1>1, <1>7
  <2> QED BY <2>1 DEF Owed, Paying
<1>11. ASSUME NEW ch \in Channels, NEW o \in Objs, channels[ch] = o, ch = out[p].ch
       PROVE  Fine(ch, o)'
  <2>1. obj[o].sid = NoSID /\ Fine(ch, o)
    <3>1. Unnamed(ch)
      BY <1>1, <1>11 DEF Base, Named, PendingMatch
    <3> QED BY <1>11, <3>1, BaseFacts DEF Unnamed
  <2>2. ~Opened(ch, o)
    BY <1>1, <1>8, <1>11 DEF Opened
  <2>3. /\ obj[o].pending = {} /\ obj[o].global = out[p].global
        /\ obj[o].markets = IF call[p].op = "subscribe" THEN out[p].tickers ELSE {}
    <3>1. Opening(ch, o)
      BY <2>1, <2>2 DEF Fine
    <3> QED BY <1>7, <3>1 DEF Opening
  <2>4. Owed(o)' = out[p].tickers
    BY <1>2, <1>9, <1>11, <2>3
  <2>5. PICK f : f = e
    OBVIOUS
  <2>6. f \in pendingInit' /\ f.ch = ch /\ f.id = out[p].id
    BY <1>1, <1>6, <1>11, <2>5
  <2>7. Agrees(o, s)' /\ Scope(o, s)' /\ ~Listing(s)'
    <3>1. s \in DOMAIN subs'[1] /\ subs'[1][s].live /\ subs'[1][s].tickers = out[p].tickers
          /\ subs'[1][s].global = out[p].global
      BY DEF Starts
    <3>2. Agrees(o, s)'
      BY <2>4, <3>1 DEF Agrees
    <3>3. Scope(o, s)'
      BY <1>6, <2>3, <3>1 DEF Scope, stateVars
    <3> QED BY <1>3, <3>2, <3>3
  <2>8. Announced(f.id)' = {s}
    BY <1>3, <2>6 DEF Announced
  <2>9. Opened(ch, o)'
    BY <1>6, <2>3, <2>6, <2>7, <2>8 DEF Opened, stateVars
  <2> QED BY <1>6, <2>1, <2>9 DEF Fine, stateVars
<1>12. ASSUME NEW ch \in Channels, NEW o \in Objs, channels[ch] = o, ch # out[p].ch
       PROVE  Fine(ch, o)'
  <2>1. Fine(ch, o) /\ obj[o].name = ch
    BY <1>12, BaseFacts
  <2>2. Owed(o)' = Owed(o)
    <3>1. ~(call[p].op = "add" /\ call[p].state = o)
      <4>1. ASSUME call[p].op = "add", call[p].state = o PROVE FALSE
        <5>1. channels[out[p].ch] = o /\ out[p].ch \in Channels
          BY <1>1, <1>2, <4>1, Types DEF Base, Pending
        <5>2. obj[o].name = out[p].ch
          BY <5>1, BaseFacts
        <5> QED BY <1>12, <2>1, <5>2
      <4> QED BY <4>1
    <3> QED BY <1>9, <1>10, <3>1
  <2>3. ~Opening(ch, o) /\ ~Parting(ch)
    BY <1>1, <1>7, <1>12 DEF Opening, Parting
  <2>4. ASSUME NEW f \in pendingInit, f.ch = ch
        PROVE  f \in pendingInit' /\ Announced(f.id)' = Announced(f.id)
    <3>1. f.id # out[p].id
      BY <1>8, <1>12, <2>4
    <3> QED BY <1>3, <1>6, <3>1 DEF Announced
  <2>5. ASSUME NEW t, Matters(ch, o, t)
        PROVE  SubKept(t) /\ (Narrows(t) => Narrows(t)') /\ (Widens(t)' => Widens(t))
    <3>1. t \in DOMAIN subs[1]
      BY <1>12, <2>5, MattersWhere
    <3> QED BY <1>3, <3>1, DeliversRoles
  <2> QED BY <1>6, <2>1, <2>2, <2>3, <2>4, <2>5, FineKept DEF stateVars
<1>13. ChannelsFine'
  BY <1>6, <1>11, <1>12 DEF ChannelsFine, stateVars
<1> QED BY <1>4, <1>5, <1>13

\* Every step of a send.
LEMMA SendSteps ==
    ASSUME Base, ~MayReject, ~MayTimeout, NEW p \in Procs, SendStep(p)
    PROVE  Answers' /\ Commands' /\ ChannelsFine'
<1>1. CASE WriteDelivered(p)
  <2>1. Delivers(p)
    BY <1>1, DeliveredDelivers
  <2>2. CASE out[p].kind = "subscribe"
    BY <2>1, <2>2, SubscribeStarts, SubscribeDelivered
  <2>3. CASE out[p].kind # "subscribe"
    <3>1. out[p].sid \in DOMAIN subs[1] /\ (Word(p) \/ Update(p) \/ Farewell(p))
      BY <2>1, <2>3, AboutCases
    <3> QED BY <2>1, <2>3, <3>1, WordDelivered, UpdateDelivered, FarewellDelivered
  <2> QED BY <2>2, <2>3
<1> QED BY <1>1, WritesDeliver, RegisterSteps, GrabConnSteps

-----------------------------------------------------------------------------
(* The methods.                                                            *)

\* The only caller does not send before a step of its method, and registers a command
\* or sends none after it.
LEMMA MethodRoles ==
    ASSUME Base, NEW p \in Callers, Methods(p)
    PROVE  /\ UNCHANGED <<subs, down, flushing>> /\ pendingInit' \subseteq pendingInit
           /\ p \in Procs /\ p # Reader /\ \A q \in Callers : q = p
           /\ pc[p] \in {"section", "finish"} /\ pc'[p] \in {"idle", "section", "register"}
           /\ \A q \in Procs : q # p => pc'[q] = pc[q] /\ out'[q] = out[q] /\ q = Reader
           /\ \A o : Paying(o)' = {}
           /\ \A o : pc[p] # "finish" \/ call[p].op # "add" \/ call[p].state # o => Paying(o) = {}
           /\ \A s : Narrows(s) => Narrows(s)'
           /\ \A s : Widens(s)' =>
                Widens(s) \/ (pc'[p] = "register" /\ out'[p].kind = "add" /\ out'[p].sid = s)
           /\ \A ch, o : ~Opening(ch, o)
           /\ \A ch : Parting(ch) => pc[p] = "finish" /\ call[p].op = "unsubscribe" /\ ch = Ch(p)
<1>1. MethodStep(p)
  BY MethodsStep DEF Base
<1>2. UNCHANGED <<subs, down, flushing>> /\ pendingInit' \subseteq pendingInit
  BY <1>1 DEF MethodStep, MethodFrame, HeapStep, serverVars, readerVars
<1>3. p \in Procs /\ p # Reader /\ \A q \in Callers : q = p
  BY ReaderIsNoCaller DEF Base, OneCaller
<1>4. pc[p] \in {"section", "finish"} /\ pc'[p] \in {"idle", "section", "register"}
  BY <1>1, <1>3, Types DEF Base, MethodStep, ControlStep
<1>5. \A q \in Procs : q # p => pc'[q] = pc[q] /\ out'[q] = out[q] /\ q = Reader
  BY <1>1, <1>3, Types DEF Base, MethodStep, ControlStep, Procs
<1>6. ASSUME NEW o PROVE Paying(o)' = {}
  <2>1. {q \in Callers : pc'[q] = "finish" /\ call'[q].op = "add" /\ call'[q].state = o} = {}
    BY <1>3, <1>4
  <2> QED BY <2>1 DEF Paying
<1>7. ASSUME NEW o, pc[p] # "finish" \/ call[p].op # "add" \/ call[p].state # o
      PROVE  Paying(o) = {}
  <2>1. {q \in Callers : pc[q] = "finish" /\ call[q].op = "add" /\ call[q].state = o} = {}
    BY <1>3, <1>7
  <2> QED BY <2>1 DEF Paying
<1>8. ASSUME NEW s, Narrows(s) PROVE Narrows(s)'
  <2>1. PICK q \in Procs : pc[q] \in Upward /\ out[q].kind = "add" /\ out[q].sid = s
    BY <1>8 DEF Narrows
  <2>2. q # p
    BY <1>4, <2>1 DEF Upward
  <2> QED BY <1>5, <2>1, <2>2 DEF Narrows
<1>9. ASSUME NEW s, Widens(s)'
      PROVE  Widens(s) \/ (pc'[p] = "register" /\ out'[p].kind = "add" /\ out'[p].sid = s)
  <2>1. PICK q \in Procs : pc'[q] \in Sending /\ out'[q].kind = "add" /\ out'[q].sid = s
    BY <1>9 DEF Widens
  <2>2. CASE q = p
    BY <1>4, <2>1, <2>2 DEF Sending
  <2>3. CASE q # p
    BY <1>5, <2>1, <2>3 DEF Widens
  <2> QED BY <2>2, <2>3
<1>10. \A ch, o : ~Opening(ch, o)
  BY <1>3, <1>4 DEF Opening, Upward
<1>11. \A ch : Parting(ch) => pc[p] = "finish" /\ call[p].op = "unsubscribe" /\ ch = Ch(p)
  BY <1>3 DEF Parting
<1> QED BY <1>2, <1>3, <1>4, <1>5, <1>6, <1>7, <1>8, <1>9, <1>10, <1>11

\* What the service holds and has said stays.
LEMMA MethodAnswers ==
    ASSUME Base, NEW p \in Callers, Methods(p)
    PROVE  /\ Answers'
           /\ \A s : SubKept(s)
           /\ \A id : Announced(id)' = Announced(id)
           /\ \A s : BornOf(down[1], s)' = BornOf(down[1], s)
<1>1. UNCHANGED <<subs, down>>
  BY MethodRoles
<1> QED BY <1>1, NothingSaid DEF Base

\* A method's step changes its own caller's command only.
LEMMA MethodCommands ==
    ASSUME Base, NEW p \in Callers, Methods(p), pc'[p] = "register" => CommandFine(p)',
           obj'[flushing].sid = obj[flushing].sid
    PROVE  Commands'
<1>1. /\ UNCHANGED <<flushing, down>> /\ p # Reader
      /\ pc'[p] \in {"idle", "section", "register"}
      /\ \A q \in Procs : q # p => pc'[q] = pc[q] /\ out'[q] = out[q] /\ q = Reader
  BY MethodRoles
<1>2. Reader \in Procs /\ Reader \notin Callers
  BY ReaderIsNoCaller
<1>3. pc'[Reader] = pc[Reader] /\ out'[Reader] = out[Reader]
  BY <1>1, <1>2
<1>4. ASSUME pc'[Reader] \in Sending PROVE CommandFine(Reader)'
  <2>1. CommandFine(Reader)
    BY <1>2, <1>3, <1>4 DEF Base, Commands
  <2>2. out[Reader].kind = "add"
    BY <2>1 DEF CommandFine, ReaderSends
  <2>3. [id |-> out[Reader].id, ch |-> out[Reader].ch] \notin pendingInit
    BY <1>2, <2>2 DEF Base, Inv, IdsUnique
  <2>4. BornOf(down[1], out[Reader].sid) = {} => BornOf(down[1], out[Reader].sid)' = {}
    BY <1>1, <1>3
  <2>5. Announced(out[Reader].id) = {} => Announced(out[Reader].id)' = {}
    BY <1>1, <1>3 DEF Announced
  <2>6. CommandKept(Reader)
    BY <1>1, <1>2, <1>3, <2>3, <2>4, <2>5 DEF CommandKept
  <2> QED BY <1>2, <2>1, <2>6, CommandStays
<1>5. \A q \in Procs : pc'[q] \in Sending => CommandFine(q)'
  BY <1>1, <1>4 DEF Sending
<1>6. pc'[Reader] \notin Sending => flushing' = Nil
  BY <1>1, <1>3 DEF Base, Commands
<1> QED BY <1>5, <1>6 DEF Commands

\* A channel of which the method changes no more than the place of its tickers.
LEMMA MethodFine ==
    ASSUME Base, NEW p \in Callers, Methods(p),
           NEW ch \in Channels, NEW o \in Objs, channels[ch] = o,
           obj'[o].sid = obj[o].sid, obj'[o].pending = obj[o].pending,
           obj'[o].global = obj[o].global, Owed(o)' = Owed(o), ~Parting(ch),
           \A e \in pendingInit : e.ch = ch => e \in pendingInit',
           obj[o].sid # NoSID => sidMap'[obj[o].sid] = sidMap[obj[o].sid],
           pc'[p] = "register" /\ out'[p].kind = "add" => ~Matters(ch, o, out'[p].sid)
    PROVE  Fine(ch, o)'
<1>1. Fine(ch, o)
  BY BaseFacts
<1>2. ~Opening(ch, o)
  BY MethodRoles
<1>3. \A e \in pendingInit : e.ch = ch => e \in pendingInit' /\ Announced(e.id)' = Announced(e.id)
  <2>1. UNCHANGED down
    BY MethodRoles
  <2> QED BY <2>1 DEF Announced
<1>4. ASSUME NEW s, Matters(ch, o, s)
      PROVE  SubKept(s) /\ (Narrows(s) => Narrows(s)') /\ (Widens(s)' => Widens(s))
  <2>1. SubKept(s) /\ (Narrows(s) => Narrows(s)')
    BY MethodAnswers, MethodRoles
  <2>2. Widens(s)' =>
          Widens(s) \/ (pc'[p] = "register" /\ out'[p].kind = "add" /\ out'[p].sid = s)
    BY MethodRoles
  <2> QED BY <1>4, <2>1, <2>2
<1> QED BY <1>1, <1>2, <1>3, <1>4, FineKept

\* A channel that the method leaves alone.
LEMMA MethodAlone ==
    ASSUME Base, NEW p \in Callers, Methods(p),
           NEW ch \in Channels, NEW o \in Objs, channels[ch] = o, obj'[o] = obj[o],
           pc[p] # "finish" \/ (call[p].op = "unsubscribe" => ch # Ch(p)),
           pc[p] # "finish" \/ call[p].op # "add",
           \A e \in pendingInit : e.ch = ch => e \in pendingInit',
           obj[o].sid # NoSID => sidMap'[obj[o].sid] = sidMap[obj[o].sid],
           pc'[p] = "register" /\ out'[p].kind = "add" =>
             Matters(Ch(p), channels[Ch(p)], out'[p].sid) /\ ch # Ch(p)
             /\ Ch(p) \in Channels /\ channels[Ch(p)] \in Objs
    PROVE  Fine(ch, o)'
<1>1. Paying(o)' = {} /\ Paying(o) = {}
  BY MethodRoles
<1>2. Owed(o)' = Owed(o)
  BY <1>1 DEF Owed
<1>3. ~Parting(ch)
  BY MethodRoles
<1>4. pc'[p] = "register" /\ out'[p].kind = "add" => ~Matters(ch, o, out'[p].sid)
  BY MattersWhere
<1> QED BY <1>2, <1>3, <1>4, MethodFine

\* A step of a method that changes nothing of the client's state.
LEMMA MethodIdles ==
    ASSUME Base, NEW p \in Callers, Methods(p), UNCHANGED <<stateVars, pendingInit>>,
           pc[p] # "finish" \/ call[p].op \notin {"unsubscribe", "add"},
           pc'[p] = "register" => out'[p].kind # "add" /\ CommandFine(p)'
    PROVE  Answers' /\ Commands' /\ ChannelsFine'
<1>1. Answers'
  BY MethodAnswers
<1>2. Commands'
  BY MethodCommands DEF stateVars
<1>3. ASSUME NEW ch \in Channels, NEW o \in Objs, channels[ch] = o PROVE Fine(ch, o)'
  BY <1>3, MethodAlone DEF stateVars
<1>4. ChannelsFine'
  BY <1>3 DEF ChannelsFine, stateVars
<1> QED BY <1>1, <1>2, <1>4

\* How a step of a method ends.
LEMMA EndsThere ==
    ASSUME Base, NEW p \in Callers, Return(p) \/ Continue(p)
    PROVE  pc'[p] # "register"
  BY ReaderIsNoCaller, Types DEF Base, Return, Continue

\* The command with which a method begins to send.
LEMMA SendsThere ==
    ASSUME Base, NEW p \in Callers, NEW kind, NEW ch, NEW sid, NEW tickers, NEW global,
           SendStart(p, Command(kind, ch, sid, tickers, global))
    PROVE  /\ pc'[p] = "register"
           /\ out'[p].kind = kind /\ out'[p].ch = ch /\ out'[p].sid = sid
           /\ out'[p].tickers = tickers /\ out'[p].global = global
  BY ReaderIsNoCaller, Types DEF Base, SendStart, Command

\* A registered command of a caller.
LEMMA CommandBegun ==
    ASSUME Base, NEW p \in Callers, Methods(p), pc'[p] = "register", CallerSends(p)',
           out'[p].kind # "subscribe" => out'[p].sid # NoSID /\ BornOf(down[1], out'[p].sid) = {}
    PROVE  CommandFine(p)'
<1>1. UNCHANGED down /\ p # Reader
  BY MethodRoles
<1> QED BY <1>1 DEF CommandFine

\* A channel with a sid, which is not being unsubscribed, has a live subscription.
LEMMA LiveChannel ==
    ASSUME Base, NEW p \in Callers, Methods(p), pc[p] = "section",
           NEW ch \in Channels, HasSID(ch)
    PROVE  LET o == channels[ch]
               s == obj[o].sid
           IN  /\ o \in Objs /\ BornOf(down[1], s) = {} /\ s \in DOMAIN subs[1]
               /\ sidMap[s] = o /\ obj[o].pending = {} /\ Agrees(o, s) /\ Scope(o, s)
               /\ obj[o].sid # NoSID /\ Owed(o) = obj[o].markets
               /\ SaidOf(s)
<1>1. channels[ch] \in Objs /\ Fine(ch, channels[ch]) /\ obj[channels[ch]].sid # NoSID
  BY BaseFacts DEF HasSID
<1>2. ~Parting(ch) /\ Paying(channels[ch]) = {}
  BY MethodRoles
<1>3. Kept(ch, channels[ch])
  BY <1>1 DEF Fine
<1> QED BY <1>1, <1>2, <1>3 DEF Kept, Owed, Base, Answers

\* Subscribe up to its unlock: the channel is being opened.
LEMMA SubscribeSteps ==
    ASSUME Base, NEW p \in Callers, Subscribe(p)
    PROVE  Answers' /\ Commands' /\ ChannelsFine'
<1>1. Methods(p) /\ pc[p] = "section" /\ call[p].op = "subscribe" /\ Ch(p) \in Channels
  BY CallFacts DEF Methods, Subscribe, InSection, Base
<1>2. CASE channels[Ch(p)] # Nil /\ Return(p) /\ UNCHANGED stateVars
  BY <1>1, <1>2, EndsThere, MethodIdles DEF Subscribe
<1>3. ASSUME NEW o \in Objs, channels[Ch(p)] = Nil, FirstUnused(o),
             obj' = [obj EXCEPT ![o] = NewChannelState(Ch(p), call[p].tickers, call[p].global)],
             channels' = [channels EXCEPT ![Ch(p)] = o],
             SendFor(p, o, TRUE, Command("subscribe", Ch(p), NoSID, call[p].tickers, call[p].global)),
             UNCHANGED <<sidMap, pendingInit>>
      PROVE  Answers' /\ Commands' /\ ChannelsFine'
  <2>1. /\ pc'[p] = "register"
        /\ out'[p].kind = "subscribe" /\ out'[p].ch = Ch(p)
        /\ out'[p].tickers = call[p].tickers /\ out'[p].global = call[p].global
    BY <1>3, SendsThere DEF SendFor
  <2>2. call'[p].op = "subscribe" /\ Ch(p)' = Ch(p)
    BY <1>1, <1>3, Types DEF Base, SendFor, Ch, CallRecord
  <2>3. call[p].global <=> call[p].tickers = {}
    BY <1>1 DEF Base, CallsFit
  <2>4. CommandFine(p)'
    BY <1>1, <2>1, <2>2, <2>3, CommandBegun DEF CallerSends
  <2>5. \A x \in Objs : x # o => obj'[x] = obj[x]
    BY <1>3, Types DEF Base
  <2>6. Commands'
    <3>1. obj'[flushing] = obj[flushing]
      BY <1>3, Types DEF Base, FirstUnused, Unused, Held
    <3> QED BY <1>1, <2>4, <3>1, MethodCommands
  <2>7. ASSUME NEW ch \in Channels, NEW x \in Objs, channels'[ch] = x PROVE Fine(ch, x)'
    <3>1. CASE ch = Ch(p)
      <4>1. x = o
        BY <1>1, <1>3, <2>7, <3>1, Types DEF Base
      <4>2. /\ obj'[o].sid = NoSID /\ obj'[o].pending = {}
            /\ obj'[o].markets = call[p].tickers /\ obj'[o].global = call[p].global
        BY <1>3, Types DEF Base, NewChannelState
      <4>3. Opening(ch, o)'
        BY <2>1, <2>2, <3>1, <4>2 DEF Opening, Upward
      <4> QED BY <4>1, <4>2, <4>3 DEF Fine
    <3>2. CASE ch # Ch(p)
      <4>1. channels[ch] = x
        BY <1>1, <1>3, <2>7, <3>2, Types DEF Base
      <4>2. x # o
        BY <1>3, <2>7, <4>1, Types DEF Base, FirstUnused, Unused, Registered
      <4> QED BY <1>1, <1>3, <2>1, <2>5, <2>7, <4>1, <4>2, MethodAlone
    <3> QED BY <3>1, <3>2
  <2>8. ChannelsFine'
    BY <2>7 DEF ChannelsFine
  <2> QED BY <1>1, <2>6, <2>8, MethodAnswers
<1> QED BY <1>2, <1>3 DEF Subscribe

\* Subscribe after its send.
LEMMA SubscribeSentSteps ==
    ASSUME Base, NEW p \in Callers, SubscribeSent(p)
    PROVE  Answers' /\ Commands' /\ ChannelsFine'
<1>1. Methods(p) /\ pc[p] = "finish" /\ call[p].op = "subscribe" /\ p \in Procs
  BY ReaderIsNoCaller DEF Methods, SubscribeSent, InFinish
<1>2. out[p].ok
  BY <1>1 DEF Base, Commands, CommandFine, Sending
<1>3. Continue(p) /\ UNCHANGED <<pendingInit, stateVars>>
  BY <1>2 DEF SubscribeSent
<1> QED BY <1>1, <1>3, EndsThere, MethodIdles

\* GetSnapshot, which changes no state.
LEMMA GetSnapshotSteps ==
    ASSUME Base, NEW p \in Callers, GetSnapshot(p) \/ GetSnapshotSent(p)
    PROVE  Answers' /\ Commands' /\ ChannelsFine'
<1>1. /\ Methods(p) /\ call[p].op = "snapshot" /\ UNCHANGED <<pendingInit, stateVars>>
      /\ Ch(p) \in Channels
  BY CallFacts DEF Methods, GetSnapshot, GetSnapshotSent, InFinish, InSection, Base
<1>2. CASE Return(p) \/ Continue(p)
  BY <1>1, <1>2, EndsThere, MethodIdles
<1>3. ASSUME pc[p] = "section", HasSID(Ch(p)), UNCHANGED call,
             SendStart(p, Command("snapshot", Ch(p), obj[channels[Ch(p)]].sid,
                                  call[p].tickers, FALSE))
      PROVE  Answers' /\ Commands' /\ ChannelsFine'
  <2>1. /\ pc'[p] = "register" /\ out'[p].kind = "snapshot" /\ out'[p].ch = Ch(p)
        /\ out'[p].sid = obj[channels[Ch(p)]].sid
    <3>1. PICK sid, global : sid = obj[channels[Ch(p)]].sid /\ global = FALSE
      OBVIOUS
    <3>2. SendStart(p, Command("snapshot", Ch(p), sid, call[p].tickers, global))
      BY <1>3, <3>1
    <3> QED BY <3>1, <3>2, SendsThere
  <2>2. Ch(p)' = Ch(p)
    BY <1>3 DEF Ch
  <2>3. CallerSends(p)'
    BY <1>1, <1>3, <2>1, <2>2 DEF CallerSends
  <2>4. out'[p].sid # NoSID /\ BornOf(down[1], out'[p].sid) = {}
    BY <1>1, <1>3, <2>1, LiveChannel
  <2>5. CommandFine(p)'
    BY <1>1, <2>1, <2>3, <2>4, CommandBegun
  <2> QED BY <1>1, <2>1, <2>5, MethodIdles
<1> QED BY <1>2, <1>3 DEF GetSnapshot, GetSnapshotSent, InSection

\* Nobody calls RemoveMarkets.
LEMMA NoRemoves ==
    ASSUME Base, NEW p \in Callers PROVE ~RemoveMarkets(p) /\ ~RemoveMarketsSent(p)
  BY DEF Base, CallsFit, RemoveMarkets, RemoveMarketsSent, InSection, InFinish

\* Unsubscribe up to its unlock.
LEMMA UnsubscribeSteps ==
    ASSUME Base, NEW p \in Callers, Unsubscribe(p)
    PROVE  Answers' /\ Commands' /\ ChannelsFine'
<1>1. /\ Methods(p) /\ call[p].op = "unsubscribe" /\ Ch(p) \in Channels /\ pc[p] = "section"
      /\ channels \in [Channels -> Objs \cup {Nil}]
  BY CallFacts, Types DEF Methods, Unsubscribe, InSection, Base
<1>2. CASE Continue(p) /\ UNCHANGED <<pendingInit, stateVars>>
  BY <1>1, <1>2, EndsThere, MethodIdles
<1>3. CASE ForgetChannel(Ch(p)) /\ Continue(p)
  <2>1. pc'[p] # "register"
    BY <1>3, EndsThere
  <2>2. /\ channels' = [channels EXCEPT ![Ch(p)] = Nil] /\ UNCHANGED <<sidMap, obj>>
        /\ \A e \in pendingInit : e.ch # Ch(p) => e \in pendingInit'
    BY <1>3 DEF ForgetChannel
  <2>3. Commands'
    BY <1>1, <2>1, <2>2, MethodCommands, MethodRoles
  <2>4. ASSUME NEW ch \in Channels, NEW o \in Objs, channels'[ch] = o PROVE Fine(ch, o)'
    <3>1. ch # Ch(p) /\ channels[ch] = o
      BY <1>1, <2>2, <2>4, Types DEF Base
    <3> QED BY <1>1, <2>1, <2>2, <2>4, <3>1, MethodAlone
  <2>5. ChannelsFine'
    BY <2>4 DEF ChannelsFine
  <2> QED BY <1>1, <2>3, <2>5, MethodAnswers
<1>4. ASSUME channels[Ch(p)] # Nil, obj[channels[Ch(p)]].sid # NoSID, UNCHANGED call,
             SendStart(p, Command("unsubscribe", Ch(p), obj[channels[Ch(p)]].sid, {}, FALSE)),
             UNCHANGED <<pendingInit, stateVars>>
      PROVE  Answers' /\ Commands' /\ ChannelsFine'
  <2>1. /\ pc'[p] = "register" /\ out'[p].kind = "unsubscribe" /\ out'[p].ch = Ch(p)
        /\ out'[p].sid = obj[channels[Ch(p)]].sid
    <3>1. PICK sid, global : sid = obj[channels[Ch(p)]].sid /\ global = FALSE
      OBVIOUS
    <3>2. SendStart(p, Command("unsubscribe", Ch(p), sid, {}, global))
      BY <1>4, <3>1
    <3> QED BY <3>1, <3>2, SendsThere
  <2>2. Ch(p)' = Ch(p)
    BY <1>4 DEF Ch
  <2>3. CallerSends(p)'
    BY <1>1, <1>4, <2>1, <2>2 DEF CallerSends
  <2>4. out'[p].sid # NoSID /\ BornOf(down[1], out'[p].sid) = {}
    BY <1>1, <1>4, <2>1, LiveChannel DEF HasSID
  <2>5. CommandFine(p)'
    BY <1>1, <2>1, <2>3, <2>4, CommandBegun
  <2> QED BY <1>1, <1>4, <2>1, <2>5, MethodIdles
<1> QED BY <1>2, <1>3, <1>4 DEF Unsubscribe

\* What a caller in "finish" has sent.
LEMMA SentFacts ==
    ASSUME Base, NEW p \in Callers, pc[p] = "finish"
    PROVE  CommandFine(p) /\ CallerSends(p) /\ out[p].ok
  BY ReaderIsNoCaller DEF Base, Commands, CommandFine, Sending

\* Unsubscribe after its send: the channel and its sid are gone.
LEMMA UnsubscribeSentSteps ==
    ASSUME Base, NEW p \in Callers, UnsubscribeSent(p)
    PROVE  Answers' /\ Commands' /\ ChannelsFine'
<1>1. /\ Methods(p) /\ call[p].op = "unsubscribe" /\ Ch(p) \in Channels /\ pc[p] = "finish"
      /\ channels \in [Channels -> Objs \cup {Nil}] /\ sidMap \in [Sids -> Objs \cup {Nil}]
      /\ p \in Procs
  BY CallFacts, Types, ReaderIsNoCaller DEF Methods, UnsubscribeSent, InFinish, Base
<1>2. /\ CommandFine(p) /\ out[p].ok /\ out[p].kind = "unsubscribe" /\ out[p].ch = Ch(p)
      /\ out[p].sid # NoSID
  <2>1. CommandFine(p) /\ CallerSends(p) /\ out[p].ok
    BY <1>1, SentFacts
  <2> QED BY <1>1, <2>1 DEF CallerSends, CommandFine
<1>3. /\ Continue(p) /\ UNCHANGED <<pendingInit, obj>>
      /\ sidMap' = [sidMap EXCEPT ![out[p].sid] = Nil]
      /\ channels' = [channels EXCEPT ![Ch(p)] = Nil]
  BY <1>2 DEF UnsubscribeSent
<1>4. pc'[p] # "register"
  BY <1>3, EndsThere
<1>5. Commands'
  BY <1>1, <1>3, <1>4, MethodCommands, MethodRoles
<1>6. ASSUME NEW ch \in Channels, NEW o \in Objs, channels'[ch] = o PROVE Fine(ch, o)'
  <2>1. ch # Ch(p) /\ channels[ch] = o
    BY <1>1, <1>3, <1>6, Types DEF Base
  <2>2. ASSUME obj[o].sid # NoSID PROVE sidMap'[obj[o].sid] = sidMap[obj[o].sid]
    <3>1. Len(link) <= 1 /\ obj[o].name = ch /\ obj[o] \in ChannelState
      <4>1. Len(link) = 1
        BY BaseFacts
      <4> QED BY <2>1, <4>1, BaseFacts
    <3>2. obj[o].sid # out[p].sid
      <4>1. subs[1][obj[o].sid].ch = ch
        BY <2>2, <3>1 DEF Base, Aimed, Owned
      <4>2. subs[1][out[p].sid].ch = Ch(p)
        BY <1>1, <1>2, <3>1 DEF Base, Aimed, Owned
      <4> QED BY <2>1, <4>1, <4>2
    <3>3. obj[o].sid \in Sids
      BY <2>2, <3>1 DEF ChannelState
    <3> QED BY <1>1, <1>3, <3>2, <3>3
  <2> QED BY <1>1, <1>3, <1>4, <1>6, <2>1, <2>2, MethodAlone
<1>7. ChannelsFine'
  BY <1>6 DEF ChannelsFine
<1> QED BY <1>1, <1>5, <1>7, MethodAnswers

\* AddMarkets after its send: the tickers are in Markets.
LEMMA AddMarketsSentSteps ==
    ASSUME Base, NEW p \in Callers, AddMarketsSent(p)
    PROVE  Answers' /\ Commands' /\ ChannelsFine'
<1> DEFINE o == call[p].state
<1>1. /\ Methods(p) /\ call[p].op = "add" /\ pc[p] = "finish"
      /\ obj \in [Objs -> ChannelState]
  BY Types DEF Methods, AddMarketsSent, InFinish, Base
<1>2. CallerSends(p) /\ out[p].ok
  BY <1>1, SentFacts
<1>3. /\ Continue(p) /\ UNCHANGED <<channels, sidMap, pendingInit>>
      /\ obj' = [obj EXCEPT ![o].markets = @ \cup out[p].tickers]
  BY <1>2 DEF AddMarketsSent
<1>4. pc'[p] # "register"
  BY <1>3, EndsThere
<1>5. \A x \in Objs : /\ obj'[x].sid = obj[x].sid /\ obj'[x].pending = obj[x].pending
                      /\ obj'[x].global = obj[x].global
                      /\ obj'[x].markets = IF x = o THEN obj[x].markets \cup out[p].tickers
                                                    ELSE obj[x].markets
  BY <1>1, <1>3 DEF ChannelState
<1>6. Commands'
  <2>1. obj'[flushing].sid = obj[flushing].sid
    <3>1. CASE flushing \in Objs
      BY <1>5, <3>1
    <3>2. CASE flushing \notin Objs
      BY <1>1, <1>3, <3>2
    <3> QED BY <3>1, <3>2
  <2> QED BY <1>1, <1>4, <2>1, MethodCommands
<1>7. ASSUME NEW x \in Objs PROVE Owed(x)' = Owed(x)
  <2>1. Paying(x)' = {}
    BY <1>1, MethodRoles
  <2>2. CASE x = o
    <3>1. {q \in Callers : pc[q] = "finish" /\ call[q].op = "add" /\ call[q].state = x} = {p}
      BY <1>1, <2>2, MethodRoles
    <3>2. Paying(x) = out[p].tickers
      BY <3>1 DEF Paying
    <3> QED BY <1>5, <2>1, <2>2, <3>2 DEF Owed
  <2>3. CASE x # o
    <3>1. Paying(x) = {}
      BY <1>1, <2>3, MethodRoles
    <3> QED BY <1>5, <2>1, <2>3, <3>1 DEF Owed
  <2> QED BY <2>2, <2>3
<1>8. ASSUME NEW ch \in Channels, NEW x \in Objs, channels'[ch] = x PROVE Fine(ch, x)'
  <2>1. ~Parting(ch)
    BY <1>1, MethodRoles
  <2> QED BY <1>1, <1>3, <1>4, <1>5, <1>7, <1>8, <2>1, MethodFine
<1>9. ChannelsFine'
  BY <1>8 DEF ChannelsFine
<1> QED BY <1>1, <1>6, <1>9, MethodAnswers

\* AddMarkets makes the channel ticker-scoped, queues or sends what is new, and leaves
\* the channel's markets as they are until the answer.
LEMMA TickerScoped ==
    ASSUME Base, NEW p \in Callers, Methods(p), pc[p] = "section",
           NEW ch \in Channels, NEW o \in Objs, channels[ch] = o,
           obj'[o].sid = obj[o].sid, obj'[o].markets = obj[o].markets, obj'[o].global = FALSE,
           obj[o].sid # NoSID => obj'[o].pending = obj[o].pending,
           UNCHANGED <<sidMap, pendingInit>>,
           \A s : Matters(ch, o, s) /\ subs[1][s].global => obj'[o].pending # {} \/ Narrows(s)'
    PROVE  Fine(ch, o)'
<1>1. /\ UNCHANGED <<subs, down>> /\ Fine(ch, o) /\ ~Opening(ch, o) /\ ~Parting(ch)
      /\ Paying(o)' = {} /\ Paying(o) = {}
  BY BaseFacts, MethodRoles
<1>2. Owed(o)' = Owed(o)
  BY <1>1 DEF Owed
<1>3. \A id : Announced(id)' = Announced(id)
  BY <1>1 DEF Announced
<1>4. \A s : (Listing(s)' <=> Listing(s)) /\ (Agrees(o, s) => Agrees(o, s)')
  BY <1>1, <1>2 DEF Agrees, Listing
<1>5. \A s \in DOMAIN subs[1] : subs[1][s].global \in BOOLEAN
  BY BaseFacts DEF Subscription
<1>6. ASSUME NEW s, Matters(ch, o, s) PROVE Scope(o, s)'
  <2>1. s \in DOMAIN subs[1]
    BY <1>6, MattersWhere
  <2>2. subs[1][s].global \in BOOLEAN
    BY <1>5, <2>1
  <2>3. subs'[1][s].global = subs[1][s].global
    BY <1>1
  <2>4. subs[1][s].global => obj'[o].pending # {} \/ Narrows(s)'
    BY <1>6
  <2> QED BY <2>2, <2>3, <2>4 DEF Scope
<1>7. CASE obj[o].sid = NoSID
  <2>1. PICK e \in pendingInit :
          /\ e.ch = ch /\ Announced(e.id) # {}
          /\ \A s \in Announced(e.id) : Agrees(o, s) /\ Scope(o, s) /\ ~Listing(s)
    BY <1>1, <1>7 DEF Fine, Opened
  <2>2. e \in pendingInit' /\ Announced(e.id)' = Announced(e.id)
    BY <1>3
  <2>3. ASSUME NEW s \in Announced(e.id) PROVE (Agrees(o, s) /\ Scope(o, s) /\ ~Listing(s))'
    <3>1. Matters(ch, o, s)
      BY <2>1, <2>3 DEF Matters
    <3> QED BY <1>4, <1>6, <2>1, <2>3, <3>1
  <2>4. Opened(ch, o)'
    BY <2>1, <2>2, <2>3 DEF Opened
  <2> QED BY <1>7, <2>4 DEF Fine
<1>8. CASE obj[o].sid # NoSID
  <2>1. PICK s : s = obj[o].sid
    OBVIOUS
  <2>2. /\ BornOf(down[1], s) = {} /\ s \in DOMAIN subs[1]
        /\ \/ ~subs[1][s].live /\ Parting(ch)
           \/ sidMap[s] = o /\ obj[o].pending = {} /\ Agrees(o, s)
    BY <1>1, <1>8, <2>1 DEF Fine, Kept
  <2>3. Scope(o, s)'
    BY <1>6, <1>8, <2>1 DEF Matters
  <2>4. /\ BornOf(down[1], s)' = {} /\ s \in DOMAIN subs'[1]
        /\ sidMap'[s] = o /\ obj'[o].pending = {} /\ Agrees(o, s)'
    BY <1>1, <1>4, <1>8, <2>2
  <2>5. Kept(ch, o)'
    BY <2>1, <2>3, <2>4 DEF Kept
  <2> QED BY <1>8, <2>5 DEF Fine
<1> QED BY <1>7, <1>8

\* AddMarkets up to its unlock: filtered, queued, or about to be sent.
LEMMA AddMarketsSteps ==
    ASSUME Base, NEW p \in Callers, AddMarkets(p)
    PROVE  Answers' /\ Commands' /\ ChannelsFine'
<1> DEFINE ch == Ch(p)
<1>1. /\ Methods(p) /\ pc[p] = "section" /\ call[p].op = "add" /\ ch \in Channels
      /\ call[p].tickers # {} /\ channels \in [Channels -> Objs \cup {Nil}]
      /\ obj \in [Objs -> ChannelState] /\ Nil \notin Objs
  BY CallFacts, Types DEF Methods, AddMarkets, InSection, Base, CallsFit
<1>2. PICK o \in Objs, created \in BOOLEAN :
        LET state == TargetState(p, o, created)
            new == call[p].tickers \ state.markets
            queue == new # {} /\ state.sid = NoSID /\ IsPending(Ch(p))
        IN  /\ Target(p, o, created)
            /\ channels' = [channels EXCEPT ![Ch(p)] = o]
            /\ obj' = [obj EXCEPT ![o] =
                 IF queue THEN [state EXCEPT !.pending = @ \cup new] ELSE state]
            /\ \/ (queue \/ new = {}) /\ Continue(p)
               \/ /\ new # {} /\ state.sid # NoSID
                  /\ SendFor(p, o, created, Command("add", Ch(p), state.sid, new, FALSE))
               \/ /\ new # {} /\ state.sid = NoSID /\ ~queue
                  /\ SendFor(p, o, created, Command("subscribe", Ch(p), NoSID, new, FALSE))
  BY DEF AddMarkets
<1>3. UNCHANGED <<sidMap, pendingInit>>
  BY DEF AddMarkets
<1>4. PICK state, new, queue, sid, global :
        /\ state = TargetState(p, o, created) /\ new = call[p].tickers \ state.markets
        /\ queue = (new # {} /\ state.sid = NoSID /\ IsPending(ch))
        /\ sid = state.sid /\ global = FALSE
  OBVIOUS
<1>5. /\ Target(p, o, created) /\ channels' = [channels EXCEPT ![ch] = o]
      /\ obj' = [obj EXCEPT ![o] =
           IF queue THEN [state EXCEPT !.pending = @ \cup new] ELSE state]
      /\ \/ (queue \/ new = {}) /\ Continue(p)
         \/ /\ new # {} /\ sid # NoSID
            /\ SendFor(p, o, created, Command("add", ch, sid, new, global))
         \/ /\ new # {} /\ sid = NoSID /\ ~queue
            /\ SendFor(p, o, created, Command("subscribe", ch, NoSID, new, global))
  BY <1>2, <1>4
<1> HIDE DEF ch
<1>6. /\ state \in ChannelState /\ state.global = FALSE
      /\ created => state = NewChannelState(ch, {}, FALSE)
      /\ ~created => /\ state.sid = obj[o].sid /\ state.markets = obj[o].markets
                     /\ state.pending = obj[o].pending
  <2>1. obj[o] \in ChannelState
    BY <1>1
  <2>2. CASE created
    BY <1>1, <1>4, <2>2 DEF TargetState, NewChannelState, ChannelState, ch
  <2>3. CASE ~created
    BY <1>4, <2>1, <2>3 DEF TargetState, ChannelState
  <2> QED BY <2>2, <2>3
<1>7. /\ obj'[o].sid = state.sid /\ obj'[o].markets = state.markets /\ obj'[o].global = FALSE
      /\ obj'[o].pending = IF queue THEN state.pending \cup new ELSE state.pending
      /\ \A x \in Objs : x # o => obj'[x] = obj[x]
  BY <1>1, <1>5, <1>6 DEF ChannelState
<1>8. ASSUME pc'[p] = "register"
      PROVE  /\ new # {} /\ ~queue /\ out'[p].ch = ch /\ out'[p].tickers = new
             /\ out'[p].global = FALSE
             /\ \/ sid # NoSID /\ out'[p].kind = "add" /\ out'[p].sid = sid
                \/ sid = NoSID /\ out'[p].kind = "subscribe"
             /\ Ch(p)' = ch /\ call'[p].op = "add" /\ call'[p].state = o
  <2>1. ~Continue(p)
    BY <1>8, EndsThere
  <2>2. ASSUME NEW kind, NEW s, SendFor(p, o, created, Command(kind, ch, s, new, global))
        PROVE  /\ out'[p].kind = kind /\ out'[p].ch = ch /\ out'[p].sid = s
               /\ out'[p].tickers = new /\ out'[p].global = global
               /\ Ch(p)' = ch /\ call'[p].op = "add" /\ call'[p].state = o
    <3>1. PICK c : c = ch
      OBVIOUS
    <3>2. SendStart(p, Command(kind, c, s, new, global))
      BY <2>2, <3>1 DEF SendFor
    <3>3. /\ out'[p].kind = kind /\ out'[p].ch = c /\ out'[p].sid = s
          /\ out'[p].tickers = new /\ out'[p].global = global
      BY <3>2, SendsThere
    <3>4. Ch(p)' = ch /\ call'[p].op = "add" /\ call'[p].state = o
      BY <1>1, <2>2, Types DEF Base, SendFor, Ch, CallRecord, ch
    <3> QED BY <3>1, <3>3, <3>4
  <2> QED BY <1>4, <1>5, <2>1, <2>2
<1>9. pc'[p] # "register" => queue \/ new = {}
  <2>1. ASSUME NEW kind, NEW s, SendFor(p, o, created, Command(kind, ch, s, new, global))
        PROVE  pc'[p] = "register"
    <3>1. PICK c : c = ch
      OBVIOUS
    <3>2. SendStart(p, Command(kind, c, s, new, global))
      BY <2>1, <3>1 DEF SendFor
    <3> QED BY <3>2, SendsThere
  <2> QED BY <1>5, <2>1
<1>10. ~created => channels[ch] = o
  BY <1>1, <1>5 DEF Target, ch
<1>11. created => channels[ch] = Nil /\ FirstUnused(o) /\ ~IsPending(ch) /\ ~queue
  <2>1. created => channels[ch] = Nil /\ FirstUnused(o)
    BY <1>5 DEF Target, ch
  <2>2. IsPending(ch) => channels[ch] # Nil
    BY DEF IsPending, Base, Named, PendingMatch, Unnamed
  <2> QED BY <1>4, <2>1, <2>2
<1>12. ~created /\ sid # NoSID =>
         /\ HasSID(ch) /\ BornOf(down[1], sid) = {} /\ sid \in DOMAIN subs[1]
         /\ Agrees(o, sid) /\ Owed(o) = obj[o].markets /\ SaidOf(sid)
  <2> SUFFICES ASSUME ~created, sid # NoSID
               PROVE  /\ HasSID(ch) /\ BornOf(down[1], sid) = {} /\ sid \in DOMAIN subs[1]
                      /\ Agrees(o, sid) /\ Owed(o) = obj[o].markets /\ SaidOf(sid)
    OBVIOUS
  <2>1. channels[ch] = o /\ obj[o].sid = sid
    BY <1>4, <1>6, <1>10
  <2>2. HasSID(ch)
    BY <1>1, <2>1 DEF HasSID
  <2> QED BY <1>1, <2>1, <2>2, LiveChannel
<1>13. ASSUME pc'[p] = "register" PROVE CommandFine(p)'
  <2>1. ~created \/ sid = NoSID
    BY <1>4, <1>6 DEF NewChannelState
  <2>2. channels'[ch] = o
    BY <1>1, <1>5
  <2>3. CallerSends(p)'
    BY <1>4, <1>7, <1>8, <1>13, <2>2 DEF CallerSends
  <2>4. out'[p].kind # "subscribe" => out'[p].sid # NoSID /\ BornOf(down[1], out'[p].sid) = {}
    BY <1>8, <1>12, <1>13, <2>1
  <2> QED BY <1>1, <1>13, <2>3, <2>4, CommandBegun
<1>14. Commands'
  <2>1. obj'[flushing].sid = obj[flushing].sid
    <3>1. CASE flushing \notin Objs
      BY <1>1, <1>5, <3>1
    <3>2. CASE flushing = o
      <4>1. ~created
        BY <1>11, <3>2 DEF FirstUnused, Unused, Held
      <4> QED BY <1>6, <1>7, <3>2, <4>1
    <3> QED BY <1>7, <3>1, <3>2
  <2> QED BY <1>1, <1>13, <2>1, MethodCommands
<1>15. ASSUME NEW c \in Channels, NEW x \in Objs, channels'[c] = x PROVE Fine(c, x)'
  <2>1. CASE c # ch
    <3>1. channels[c] = x
      BY <1>1, <1>5, <1>15, <2>1
    <3>2. x # o
      <4>1. CASE created
        BY <1>1, <1>11, <1>15, <3>1, <4>1 DEF FirstUnused, Unused, Registered
      <4>2. CASE ~created
        BY <1>1, <1>10, <2>1, <3>1, <4>2, BaseFacts
      <4> QED BY <4>1, <4>2
    <3>3. obj'[x] = obj[x]
      BY <1>7, <3>2
    <3>4. pc'[p] = "register" /\ out'[p].kind = "add" =>
            /\ Matters(Ch(p), channels[Ch(p)], out'[p].sid) /\ c # Ch(p)
            /\ Ch(p) \in Channels /\ channels[Ch(p)] \in Objs
      <4> SUFFICES ASSUME pc'[p] = "register", out'[p].kind = "add"
                   PROVE  /\ Matters(ch, channels[ch], sid) /\ out'[p].sid = sid /\ c # ch
                          /\ ch \in Channels /\ channels[ch] \in Objs
        BY DEF ch
      <4>1. sid # NoSID /\ out'[p].sid = sid
        BY <1>8
      <4>2. ~created
        BY <1>4, <1>6, <4>1 DEF NewChannelState
      <4>3. obj[channels[ch]].sid = sid
        BY <1>4, <1>6, <1>10, <4>2
      <4> QED BY <1>1, <1>10, <2>1, <4>1, <4>2, <4>3 DEF Matters
    <3> QED BY <1>1, <1>3, <1>15, <3>1, <3>3, <3>4, MethodAlone
  <2>2. CASE c = ch /\ created
    <3>1. x = o
      BY <1>1, <1>5, <1>15, <2>2
    <3>2. /\ state.sid = NoSID /\ state.markets = {} /\ state.pending = {}
          /\ new = call[p].tickers
      <4>1. state.sid = NoSID /\ state.markets = {} /\ state.pending = {}
        BY <1>6, <2>2 DEF NewChannelState
      <4>2. new = call[p].tickers \ {}
        BY <1>4, <4>1
      <4> QED BY <4>1, <4>2
    <3>3. pc'[p] = "register"
      BY <1>1, <1>9, <1>11, <2>2, <3>2
    <3>4. /\ out'[p].kind = "subscribe" /\ out'[p].ch = ch /\ out'[p].global = FALSE
          /\ call'[p].op = "add"
      BY <1>4, <1>8, <3>2, <3>3
    <3>5. /\ obj'[o].sid = NoSID /\ obj'[o].pending = {} /\ obj'[o].markets = {}
          /\ obj'[o].global = FALSE
      BY <1>7, <1>11, <2>2, <3>2
    <3>6. Opening(c, o)'
      BY <2>2, <3>3, <3>4, <3>5 DEF Opening, Upward
    <3> QED BY <3>1, <3>5, <3>6 DEF Fine
  <2>3. CASE c = ch /\ ~created
    <3>1. x = o /\ channels[c] = o
      BY <1>1, <1>5, <1>10, <1>15, <2>3
    <3>2. obj'[o].sid = obj[o].sid /\ obj'[o].markets = obj[o].markets /\ obj'[o].global = FALSE
      BY <1>6, <1>7, <2>3
    <3>3. obj[o].sid # NoSID => obj'[o].pending = obj[o].pending
      BY <1>4, <1>6, <1>7, <2>3
    <3>4. ASSUME NEW s, Matters(c, o, s), subs[1][s].global
          PROVE  obj'[o].pending # {} \/ Narrows(s)'
      <4>1. Fine(c, o) /\ ~Opening(c, o) /\ ~Parting(c) /\ Paying(o) = {}
        BY <1>1, <3>1, BaseFacts, MethodRoles
      <4>2. s \in DOMAIN subs[1] /\ SaidOf(s)
        BY <3>1, <3>4, MattersWhere DEF Base, Answers
      <4>3. subs[1][s].tickers = {}
        BY <3>4, <4>2 DEF SaidOf
      <4>4. CASE obj[o].sid = NoSID
        <5>1. Opened(c, o)
          BY <4>1, <4>4 DEF Fine
        <5>2. PICK e \in pendingInit : e.ch = c /\ \A t \in Announced(e.id) : Agrees(o, t)
          BY <5>1 DEF Opened
        <5>3. \A f \in pendingInit : f.ch = c => f = e
          BY <5>2 DEF Base, Named, PendingMatch
        <5>4. Agrees(o, s)
          BY <3>4, <4>4, <5>2, <5>3 DEF Matters
        <5>5. obj[o].markets = {}
          BY <4>3, <5>4 DEF Agrees, Owed
        <5>6. queue /\ new # {}
          BY <1>1, <1>4, <1>6, <2>3, <4>4, <5>2, <5>5 DEF IsPending
        <5> QED BY <1>7, <5>6
      <4>5. CASE obj[o].sid # NoSID
        <5>1. s = sid /\ sid # NoSID
          <6>1. \A e \in pendingInit : e.ch # c
            BY <3>1, <4>5 DEF Base, Named, PendingMatch, Unnamed
          <6> QED BY <1>4, <1>6, <2>3, <3>4, <4>5, <6>1 DEF Matters
        <5>2. obj[o].markets = {}
          BY <1>12, <2>3, <4>3, <5>1 DEF Agrees
        <5>3. new # {} /\ ~queue
          BY <1>1, <1>4, <1>6, <2>3, <5>1, <5>2
        <5>4. pc'[p] = "register"
          BY <1>9, <5>3
        <5>5. out'[p].kind = "add" /\ out'[p].sid = s /\ p \in Procs
          BY <1>8, <5>1, <5>4, ReaderIsNoCaller
        <5> QED BY <5>4, <5>5 DEF Narrows, Upward
      <4> QED BY <4>4, <4>5
    <3> QED BY <1>1, <1>3, <3>1, <3>2, <3>3, <3>4, TickerScoped
  <2> QED BY <2>1, <2>2, <2>3
<1>16. ChannelsFine'
  BY <1>15 DEF ChannelsFine
<1> QED BY <1>1, <1>14, <1>16, MethodAnswers

\* Whatever method goes on.
LEMMA MethodsSteps ==
    ASSUME Base, NEW p \in Callers, Methods(p)
    PROVE  Answers' /\ Commands' /\ ChannelsFine'
  BY SubscribeSteps, SubscribeSentSteps, UnsubscribeSteps, UnsubscribeSentSteps, AddMarketsSteps,
     AddMarketsSentSteps, NoRemoves, GetSnapshotSteps DEF Methods

-----------------------------------------------------------------------------
(* The calls in progress.                                                  *)

\* A goroutine's call is what it was, is over, or begins.
CallMoves ==
    \A p \in Callers :
        \/ /\ call'[p].op = call[p].op /\ call'[p].tickers = call[p].tickers
           /\ call'[p].global = call[p].global
        \/ call'[p].op = "none"
        \/ \E c \in Calls : /\ call'[p].op = c.op /\ call'[p].tickers = c.tickers
                            /\ call'[p].global = c.global

\* A method's ends leave its operation and arguments alone.
LEMMA CallMoved ==
    ASSUME Inv, NEW p \in Callers,
           \/ Return(p) \/ Continue(p)
           \/ \E o, created : call' = [call EXCEPT ![p].state = o, ![p].created = created]
    PROVE  CallMoves
<1>1. call \in [Callers -> CallRecord]
  BY Types
<1>2. CASE Return(p)
  BY <1>1, <1>2 DEF Return, NoCall, CallMoves
<1>3. CASE Continue(p)
  <2>1. CASE Return(p)
    BY <1>2, <2>1
  <2>2. CASE call' = [call EXCEPT ![p].chs = Tail(@), ![p].state = Nil, ![p].created = FALSE]
    <3>1. call'[p] = [call[p] EXCEPT !.chs = Tail(call[p].chs), !.state = Nil, !.created = FALSE]
      BY <1>1, <2>2
    <3>2. \A q \in Callers : q # p => call'[q] = call[q]
      BY <1>1, <2>2
    <3>3. call[p] \in CallRecord
      BY <1>1
    <3>4. /\ call'[p].op = call[p].op /\ call'[p].tickers = call[p].tickers
          /\ call'[p].global = call[p].global
      BY <3>1, <3>3 DEF CallRecord
    <3> QED BY <3>2, <3>4 DEF CallMoves
  <2> QED BY <1>3, <2>1, <2>2 DEF Continue
<1>4. ASSUME NEW o, NEW created,
             call' = [call EXCEPT ![p].state = o, ![p].created = created]
      PROVE  CallMoves
  <2>1. call'[p] = [call[p] EXCEPT !.state = o, !.created = created]
    BY <1>1, <1>4
  <2>2. \A q \in Callers : q # p => call'[q] = call[q]
    BY <1>1, <1>4
  <2>3. call[p] \in CallRecord
    BY <1>1
  <2>4. /\ call'[p].op = call[p].op /\ call'[p].tickers = call[p].tickers
        /\ call'[p].global = call[p].global
    BY <2>1, <2>3 DEF CallRecord
  <2> QED BY <2>2, <2>4 DEF CallMoves
<1> QED BY <1>2, <1>3, <1>4

LEMMA MethodMoves == ASSUME Inv, NEW p \in Callers, Methods(p) PROVE CallMoves
<1>1. \/ UNCHANGED call \/ Return(p) \/ Continue(p)
      \/ \E o, created : call' = [call EXCEPT ![p].state = o, ![p].created = created]
  <2>1. CASE Subscribe(p) \/ SubscribeSent(p)
    BY <2>1 DEF Subscribe, SubscribeSent, SendFor
  <2>2. CASE Unsubscribe(p) \/ UnsubscribeSent(p)
    BY <2>2 DEF Unsubscribe, UnsubscribeSent
  <2>3. CASE AddMarkets(p)
    BY <2>3 DEF AddMarkets, SendFor
  <2>4. CASE AddMarketsSent(p)
    BY <2>4 DEF AddMarketsSent
  <2>5. CASE RemoveMarkets(p) \/ RemoveMarketsSent(p)
    BY <2>5 DEF RemoveMarkets, RemoveMarketsSent, SendFor
  <2>6. CASE GetSnapshot(p) \/ GetSnapshotSent(p)
    BY <2>6 DEF GetSnapshot, GetSnapshotSent
  <2> QED BY <2>1, <2>2, <2>3, <2>4, <2>5, <2>6 DEF Methods
<1> QED BY <1>1, CallMoved DEF CallMoves

LEMMA StepMoves == ASSUME Inv, [Next]_vars PROVE CallMoves
<1>1. ASSUME NEW p \in Callers, Begin(p) PROVE CallMoves
  <2>1. PICK c \in Calls :
          call' = [call EXCEPT ![p] =
             [NoCall EXCEPT !.op = c.op, !.chs = c.chs, !.tickers = c.tickers,
                            !.global = c.global]]
    BY <1>1 DEF Begin
  <2>2. \A q \in Callers : q # p => call'[q] = call[q]
    BY <2>1, Types
  <2>3. /\ call'[p].op = c.op /\ call'[p].tickers = c.tickers
        /\ call'[p].global = c.global
    BY <2>1, Types DEF NoCall
  <2> QED BY <2>2, <2>3 DEF CallMoves
<1>2. ASSUME NEW p \in Callers, Connect(p) \/ Close(p) \/ CloseConn(p) PROVE CallMoves
  <2>1. UNCHANGED call \/ Return(p)
    BY <1>2 DEF Connect, Close, CloseConn
  <2> QED BY <2>1, CallMoved DEF CallMoves
<1>3. ASSUME NEW p \in Procs, SendStep(p) PROVE UNCHANGED call
  BY <1>3 DEF SendStep, Register, GrabConn, WriteDelivered, WriteLost, WriteTimeout, Written,
     SendFrame
<1>4. LoopSteps => UNCHANGED call
  BY DEF LoopSteps, LoopTop, Dial, Wait, EnterReadLoop, ReadError, CheckForce,
     LoopLeaves, WaitLoss, Redial, LoopFrame
<1>5. HandleIncoming => UNCHANGED call
  BY DEF HandleIncoming, HandleSubscribed, HandleUnknownId, HandleOK, HandleUnsubscribed,
     HandleError, HandleDataMessage, Incoming
<1>6. FlushSent \/ Deliver \/ HandleConnectionLoss \/ RecoverSteps => UNCHANGED call
  BY DEF FlushSent, Deliver, HandleConnectionLoss, RecoverSteps, RecoverStart, RecoverEnd,
     RecoverSent, RecoverNext, RecoverFrame
<1>7. Consume \/ Cancel \/ Feed \/ UNCHANGED vars => UNCHANGED call
  BY DEF Consume, Cancel, Feed, vars, clientVars, procVars
<1> QED BY <1>1, <1>2, <1>3, <1>4, <1>5, <1>6, <1>7, StepCases, MethodMoves DEF CallMoves

LEMMA CallsFitStep == ASSUME Inv, Accepted, CallsFit, [Next]_vars PROVE CallsFit'
<1> SUFFICES ASSUME NEW p \in Callers
             PROVE  /\ call'[p].op # "remove"
                    /\ call'[p].op = "add" => call'[p].tickers # {}
                    /\ call'[p].op = "subscribe" => (call'[p].global <=> call'[p].tickers = {})
  BY DEF CallsFit
<1>1. CASE /\ call'[p].op = call[p].op /\ call'[p].tickers = call[p].tickers
           /\ call'[p].global = call[p].global
  BY <1>1 DEF CallsFit
<1>2. CASE call'[p].op = "none"
  BY <1>2
<1>3. ASSUME NEW c \in Calls, call'[p].op = c.op, call'[p].tickers = c.tickers,
             call'[p].global = c.global
      PROVE  /\ call'[p].op # "remove"
             /\ call'[p].op = "add" => call'[p].tickers # {}
             /\ call'[p].op = "subscribe" => (call'[p].global <=> call'[p].tickers = {})
  BY <1>3 DEF Accepted
<1> QED BY <1>1, <1>2, <1>3, StepMoves DEF CallMoves

LEMMA CallsFitAlways == ASSUME Accepted PROVE Spec => []CallsFit
<1>1. Init => CallsFit
  <2> SUFFICES ASSUME Init, NEW p \in Callers PROVE call[p].op = "none"
    BY DEF CallsFit
  <2> QED BY DEF Init, NoCall
<1>2. Inv /\ CallsFit /\ [Next]_vars => CallsFit'
  BY CallsFitStep
<1> QED BY <1>1, <1>2, Inductive, PTL DEF Spec

-----------------------------------------------------------------------------
(* What the reader reads.                                                  *)

\* A message of the given type is taken off the connection.
Reads(type) ==
    /\ pc[Reader] = "read" /\ flushing = Nil /\ M = Head(down[1]) /\ M.type = type /\ M \in Message
    /\ down[1] \in Seq(Message) /\ down[1] # <<>> /\ down'[1] = Tail(down[1])
    /\ UNCHANGED <<subs, call>>

\* Handling a message takes it off the connection.
LEMMA IncomingReads == ASSUME Base, NEW type, Incoming(type) PROVE Reads(type)
<1>1. rconn = 1 /\ M \in Message /\ M.type = type /\ UNCHANGED <<link, subs, call>>
  <2>1. Len(link) <= 1
    <3>1. Len(link) = 1
      BY BaseFacts
    <3> QED BY <3>1
  <2> QED BY <2>1, IncomingFacts, FirstRead DEF Base
<1>2. down[1] # <<>> /\ down' = [down EXCEPT ![1] = Tail(down[1])] /\ M = Head(down[1])
  BY <1>1 DEF Incoming, M
<1>3. down[1] \in Seq(Message) /\ 1 \in DOMAIN down
  BY BaseFacts, Types DEF Base
<1>4. pc[Reader] = "read" /\ flushing = Nil
  BY DEF Incoming, At, Base, Commands, Sending
<1> QED BY <1>1, <1>2, <1>3, <1>4 DEF Reads

\* What is left to read.
LEMMA ReadLeaves ==
    ASSUME Base, NEW type, Reads(type)
    PROVE  /\ Answers'
           /\ \A id : Announced(id)' \subseteq Announced(id)
           /\ \A id : type # "subscribed" \/ M.id # id => Announced(id)' = Announced(id)
           /\ type = "subscribed" => M.sid \in Announced(M.id)
           /\ \A s : BornOf(down[1], s) = {} => BornOf(down[1], s)' = {}
           /\ \A s : Listing(s)' => Listing(s)
           /\ \A s : M.sid # s \/ type # "ok" => (Listing(s)' <=> Listing(s))
           /\ \A s : M.sid # s \/ type # "ok" => SubKept(s)
           /\ type = "ok" => Listing(M.sid)
           /\ type = "unsubscribed" => OverIn(down[1], M.sid)
<1> DEFINE d == down[1]
           t == Tail(d)
<1>1. d \in Seq(Message) /\ d # <<>> /\ down'[1] = t /\ M = Head(d) /\ M.type = type /\ UNCHANGED subs
  BY DEF Reads
<1> HIDE DEF d, t
<1>2. /\ \A id : AnnouncedIn(t, id) \subseteq AnnouncedIn(d, id)
      /\ \A id : M.type # "subscribed" \/ M.id # id => AnnouncedIn(t, id) = AnnouncedIn(d, id)
      /\ M.type = "subscribed" => M.sid \in AnnouncedIn(d, M.id)
      /\ \A s : BornOf(d, s) = {} => BornOf(t, s) = {}
      /\ \A s : ListsOf(t, s) # {} => ListsOf(d, s) # {}
      /\ \A s : ListsOf(d, s) # {} /\ (M.sid # s \/ M.type # "ok") => ListsOf(t, s) # {}
      /\ \A s : OverIn(t, s) => OverIn(d, s)
      /\ M.type = "unsubscribed" => OverIn(d, M.sid)
      /\ \A s, tickers : Lists(d, s, tickers) => Lists(t, s, tickers)
  BY <1>1, MessageTaken DEF t
<1>3. type = "ok" => ListsOf(d, M.sid) # {}
  <2>1. 1 \in DOMAIN d /\ d[1] = M
    BY <1>1, Shifted
  <2> QED BY <1>1, <2>1 DEF ListsOf
<1>4. Answers'
  <2> SUFFICES ASSUME NEW s \in DOMAIN subs'[1] PROVE SaidOf(s)'
    BY DEF Answers
  <2>1. SaidOf(s) /\ subs'[1][s] = subs[1][s]
    BY <1>1 DEF Base, Answers
  <2>2. /\ subs[1][s].global => subs[1][s].tickers = {}
        /\ Lists(t, s, subs[1][s].tickers)
        /\ subs[1][s].live => ~OverIn(t, s)
    BY <1>2, <2>1 DEF SaidOf, d
  <2> QED BY <1>1, <2>1, <2>2 DEF SaidOf
<1>5. \A s : M.sid # s \/ type # "ok" => (Listing(s)' <=> Listing(s))
  BY <1>1, <1>2 DEF Listing, d
<1>6. \A s : BornOf(down[1], s) = {} => BornOf(down[1], s)' = {}
  BY <1>1, <1>2 DEF d
<1>7. \A s : M.sid # s \/ type # "ok" => SubKept(s)
  BY <1>1, <1>5, <1>6 DEF SubKept
<1>8. /\ \A id : Announced(id)' \subseteq Announced(id)
      /\ \A id : type # "subscribed" \/ M.id # id => Announced(id)' = Announced(id)
      /\ type = "subscribed" => M.sid \in Announced(M.id)
      /\ \A s : Listing(s)' => Listing(s)
      /\ type = "ok" => Listing(M.sid)
      /\ type = "unsubscribed" => OverIn(down[1], M.sid)
  BY <1>1, <1>2, <1>3 DEF Announced, Listing, d
<1> QED BY <1>4, <1>5, <1>6, <1>7, <1>8

\* The callers while the reader handles a message.
CallersWait == \A q \in Callers : pc'[q] = pc[q] /\ out'[q] = out[q] /\ call'[q] = call[q]

\* The commands, when the reader has no sid for what a caller updates to change.
LEMMA ReadCommands ==
    ASSUME Base, NEW type, Reads(type), CallersWait, UNCHANGED channels,
           \A e \in pendingInit : e \notin pendingInit' => type = "subscribed" /\ e.id = M.id,
           \A o \in Objs : obj[o].sid # NoSID => obj'[o].sid = obj[o].sid,
           IF pc'[Reader] \in Sending THEN CommandFine(Reader)' ELSE flushing' = Nil
    PROVE  Commands'
<1>1. ASSUME NEW q \in Callers, pc[q] \in Sending PROVE CommandFine(q)'
  <2>1. q \in Procs /\ q # Reader /\ CommandFine(q) /\ CallerSends(q)
    BY <1>1, ReaderIsNoCaller DEF Base, Commands, CommandFine
  <2>2. BornOf(down[1], out[q].sid) = {} => BornOf(down[1], out[q].sid)' = {}
    <3>1. out'[q].sid = out[q].sid
      BY DEF CallersWait
    <3>2. PICK s : s = out[q].sid
      OBVIOUS
    <3>3. BornOf(down[1], s) = {} => BornOf(down[1], s)' = {}
      BY ReadLeaves
    <3> QED BY <3>1, <3>2, <3>3
  <2>3. ASSUME pc[q] \in {"grab", "write"}
        PROVE  /\ Announced(out[q].id) = {} /\ Announced(out[q].id)' = {}
               /\ [id |-> out[q].id, ch |-> out[q].ch] \in pendingInit =>
                    [id |-> out[q].id, ch |-> out[q].ch] \in pendingInit'
    <3>1. Announced(out[q].id) = {}
      BY <2>1, <2>3 DEF CommandFine, Unanswered
    <3>2. PICK n : n = out[q].id
      OBVIOUS
    <3>3. out'[q].id = n /\ Announced(n)' \subseteq Announced(n)
      BY <3>2, ReadLeaves DEF CallersWait
    <3>4. type = "subscribed" => M.id # n
      BY <3>1, <3>2, ReadLeaves
    <3> QED BY <3>1, <3>2, <3>3, <3>4
  <2>4. ASSUME call[q].op = "add", out[q].kind = "add"
        PROVE  obj'[call[q].state].sid = obj[call[q].state].sid
    <3>1. /\ out[q].sid = obj[call[q].state].sid /\ out[q].sid # NoSID
          /\ call[q].state \in Objs
      BY <2>1, <2>4 DEF CallerSends, CommandFine
    <3> QED BY <3>1
  <2>5. CommandKept(q)
    BY <1>1, <2>1, <2>2, <2>3, <2>4 DEF CommandKept, CallersWait
  <2> QED BY <2>1, <2>5, CommandStays
<1>2. \A q \in Procs : q # Reader => q \in Callers /\ pc'[q] = pc[q]
  BY DEF CallersWait, Procs
<1>3. \A q \in Procs : pc'[q] \in Sending => CommandFine(q)'
  BY <1>1, <1>2
<1> QED BY <1>3 DEF Commands

\* What the channels see of a step of the reader that was sending nothing.
LEMMA ReadRoles ==
    ASSUME Base, pc[Reader] \notin Sending, CallersWait
    PROVE  /\ \A o : Paying(o)' = Paying(o)
           /\ \A s : Narrows(s) => Narrows(s)'
           /\ \A s : Widens(s)' =>
                \/ Widens(s)
                \/ pc'[Reader] \in Sending /\ out'[Reader].kind = "add" /\ out'[Reader].sid = s
           /\ \A ch : Parting(ch) => Parting(ch)'
           /\ \A ch, o : Opening(ch, o) /\ TickersSame(o) => Opening(ch, o)'
<1>1. \A q \in Procs : q # Reader => q \in Callers
  BY DEF Procs
<1>2. \A q \in Callers : q \in Procs
  BY DEF Procs
<1>3. \A o : Paying(o)' = Paying(o)
  BY DEF CallersWait, Paying
<1>4. \A s : Narrows(s) => Narrows(s)'
  BY <1>1 DEF Narrows, CallersWait, Upward, Sending
<1>5. \A s : Widens(s)' =>
        \/ Widens(s)
        \/ pc'[Reader] \in Sending /\ out'[Reader].kind = "add" /\ out'[Reader].sid = s
  BY <1>1 DEF Widens, CallersWait
<1>6. \A ch : Parting(ch) => Parting(ch)'
  BY DEF Parting, CallersWait, Ch
<1>7. \A ch, o : Opening(ch, o) /\ TickersSame(o) => Opening(ch, o)'
  BY DEF Opening, CallersWait, TickersSame
<1> QED BY <1>3, <1>4, <1>5, <1>6, <1>7

\* A message that is no answer to a pending subscribe and lists no tickers.
LEMMA ReadElse ==
    ASSUME Base, NEW type, Reads(type), CallersWait, type # "ok",
           \A e \in pendingInit : type = "subscribed" => e.id # M.id,
           UNCHANGED <<channels, pendingInit, flushing>>, pc'[Reader] \notin Sending,
           \A o \in Objs : TickersSame(o),
           \A s \in Sids : sidMap'[s] = sidMap[s] \/ (type = "unsubscribed" /\ s = M.sid)
    PROVE  Answers' /\ Commands' /\ ChannelsFine'
<1>1. Answers'
  BY ReadLeaves
<1>2. Commands'
  BY ReadCommands DEF TickersSame, Reads
<1>3. ASSUME NEW ch \in Channels, NEW o \in Objs, channels'[ch] = o PROVE Fine(ch, o)'
  <2>1. channels[ch] = o /\ Fine(ch, o) /\ obj[o] \in ChannelState
    BY <1>3, BaseFacts
  <2>2. pc[Reader] \notin Sending
    BY DEF Reads, Sending
  <2>3. /\ Paying(o)' = Paying(o) /\ (Parting(ch) => Parting(ch)')
        /\ Opening(ch, o) => Opening(ch, o)'
        /\ \A s : (Narrows(s) => Narrows(s)') /\ (Widens(s)' => Widens(s))
    BY <2>2, ReadRoles
  <2>4. Owed(o)' = Owed(o)
    BY <2>3 DEF Owed, TickersSame
  <2>5. \A e \in pendingInit : e.ch = ch => e \in pendingInit' /\ Announced(e.id)' = Announced(e.id)
    BY ReadLeaves
  <2>6. ASSUME obj[o].sid # NoSID, Agrees(o, obj[o].sid)
        PROVE  sidMap'[obj[o].sid] = sidMap[obj[o].sid]
    <3>1. obj[o].sid \in Sids
      BY <2>1, <2>6 DEF ChannelState
    <3>2. ~OverIn(down[1], obj[o].sid)
      BY <2>6 DEF Agrees, Base, Answers, SaidOf
    <3>3. ~(type = "unsubscribed" /\ obj[o].sid = M.sid)
      BY <3>2, ReadLeaves
    <3> QED BY <3>1, <3>3
  <2>7. \A s : SubKept(s)
    BY ReadLeaves
  <2> QED BY <2>1, <2>3, <2>4, <2>5, <2>6, <2>7, FineKept DEF TickersSame
<1>4. ChannelsFine'
  BY <1>3 DEF ChannelsFine
<1> QED BY <1>1, <1>2, <1>4

\* A handler that does not send leaves the callers where they are.
LEMMA HandledWaits ==
    ASSUME Base, NEW type, Incoming(type), NEW l, Goto(l), UNCHANGED out
    PROVE  CallersWait /\ pc'[Reader] = l
  BY ReaderIsNoCaller, Types, IncomingReads DEF Base, Goto, CallersWait, Reads

\* The handlers of messages that say nothing about tickers.
LEMMA ElseSteps ==
    ASSUME Base, HandleUnknownId \/ HandleUnsubscribed \/ HandleError \/ HandleDataMessage
    PROVE  Answers' /\ Commands' /\ ChannelsFine'
<1>1. PICK type \in {"subscribed", "unsubscribed", "error", "data"}, l \in {"check", "deliver"} :
        /\ Incoming(type) /\ Goto(l) /\ UNCHANGED <<out, channels, pendingInit, flushing>>
        /\ type = "subscribed" => \A e \in pendingInit : e.id # M.id
        /\ \/ UNCHANGED sidMap
           \/ type = "unsubscribed" /\ sidMap' = [s \in Sids |-> IF s = M.sid THEN Nil ELSE sidMap[s]]
        /\ UNCHANGED obj \/ obj' = [obj EXCEPT ![StateOf(M.sid)].seq = M.seq]
  <2>1. CASE HandleUnknownId
    BY <2>1 DEF HandleUnknownId, Handled, stateVars
  <2>2. CASE HandleUnsubscribed
    BY <2>2 DEF HandleUnsubscribed, Handled
  <2>3. CASE HandleError
    BY <2>3 DEF HandleError, Handled, stateVars
  <2>4. CASE HandleDataMessage
    BY <2>4 DEF HandleDataMessage, Handled
  <2> QED BY <2>1, <2>2, <2>3, <2>4
<1>2. Reads(type) /\ CallersWait /\ pc'[Reader] = l
  BY <1>1, IncomingReads, HandledWaits
<1>3. ASSUME NEW o \in Objs PROVE TickersSame(o)
  <2>1. obj \in [Objs -> ChannelState] /\ obj[o] \in ChannelState
    BY Types DEF Base
  <2>2. obj'[o] = obj[o] \/ obj'[o] = [obj[o] EXCEPT !.seq = M.seq]
    <3>1. PICK t : t = StateOf(M.sid)
      OBVIOUS
    <3>2. UNCHANGED obj \/ obj' = [obj EXCEPT ![t].seq = M.seq]
      BY <1>1, <3>1
    <3> QED BY <2>1, <3>2
  <2> QED BY <2>1, <2>2 DEF TickersSame, ChannelState
<1>4. \A s \in Sids : sidMap'[s] = sidMap[s] \/ (type = "unsubscribed" /\ s = M.sid)
  BY <1>1
<1>5. pc'[Reader] \notin Sending
  BY <1>2 DEF Sending
<1> QED BY <1>1, <1>2, <1>3, <1>4, <1>5, ReadElse

\* The list that is read, the last one or not.
LEMMA ListRead ==
    ASSUME NEW d \in Seq(Message), d # <<>>, NEW tickers, Lists(d, Head(d).sid, tickers),
           Head(d).type = "ok"
    PROVE  /\ Head(d).tickers # {} /\ Head(d).tickers \subseteq tickers
           /\ ListsOf(Tail(d), Head(d).sid) = {} => Head(d).tickers = tickers
<1>1. \A ts : Lists(d, Head(d).sid, ts) /\ Head(d).type = "ok" =>
        /\ Head(d).tickers # {} /\ Head(d).tickers \subseteq ts
        /\ ListsOf(Tail(d), Head(d).sid) = {} => Head(d).tickers = ts
  BY MessageTaken
<1> QED BY <1>1

\* A list of tickers: it replaces the markets of the state that sidMap leads to, and is
\* the service's tickers when no later one is on its way.
LEMMA OKSteps ==
    ASSUME Base, HandleOK
    PROVE  Answers' /\ Commands' /\ ChannelsFine'
<1>1. PICK sid, to : sid = M.sid /\ to = StateOf(M.sid)
  OBVIOUS
<1>2. /\ Incoming("ok") /\ Goto("check")
      /\ UNCHANGED <<out, channels, pendingInit, sidMap, flushing>>
      /\ \/ to = Nil /\ UNCHANGED obj
         \/ to # Nil /\ obj' = [obj EXCEPT ![to] = Reconciled(to)]
  BY <1>1 DEF HandleOK, Handled
<1>3. Reads("ok") /\ CallersWait /\ pc'[Reader] = "check"
  BY <1>2, IncomingReads, HandledWaits
<1>4. pc[Reader] \notin Sending /\ pc'[Reader] \notin Sending
  BY <1>3 DEF Reads, Sending
<1>5. \A s : sid # s => SubKept(s)
  BY <1>1, <1>3, ReadLeaves
<1>6. /\ Listing(sid) /\ UNCHANGED subs
      /\ \A id : Announced(id)' = Announced(id)
      /\ BornOf(down[1], sid) = {} => BornOf(down[1], sid)' = {}
  BY <1>1, <1>3, ReadLeaves DEF Reads
<1>7. obj \in [Objs -> ChannelState] /\ sidMap \in [Sids -> Objs \cup {Nil}] /\ Nil \notin Objs
  BY Types DEF Base
<1>8. to # Nil => to \in Objs /\ sid \in Sids /\ sidMap[sid] = to /\ obj[to].sid = sid
  BY <1>1, <1>7 DEF StateOf, Base, Named, SidsMatch
<1>9. \A x \in Objs : /\ obj'[x].sid = obj[x].sid /\ obj'[x].pending = obj[x].pending
                      /\ obj'[x].global = obj[x].global
                      /\ obj'[x].markets = IF x = to /\ M.tickers # {} THEN M.tickers
                                                                       ELSE obj[x].markets
  <2> SUFFICES ASSUME NEW x \in Objs
               PROVE  /\ obj'[x].sid = obj[x].sid /\ obj'[x].pending = obj[x].pending
                      /\ obj'[x].global = obj[x].global
                      /\ obj'[x].markets = IF x = to /\ M.tickers # {} THEN M.tickers
                                                                       ELSE obj[x].markets
    OBVIOUS
  <2>1. obj[x] \in ChannelState
    BY <1>7
  <2>2. CASE x = to
    <3>1. obj'[x] = Reconciled(x)
      BY <1>2, <1>7, <2>2
    <3> QED BY <2>1, <2>2, <3>1 DEF Reconciled, ChannelState
  <2>3. CASE x # to
    <3>1. obj'[x] = obj[x]
      BY <1>2, <1>7, <2>3
    <3> QED BY <2>3, <3>1
  <2> QED BY <2>2, <2>3
<1>10. Answers'
  BY <1>3, ReadLeaves
<1>11. Commands'
  BY <1>2, <1>3, <1>4, <1>9, ReadCommands DEF Reads
<1>12. ASSUME NEW ch \in Channels, NEW o \in Objs, channels'[ch] = o PROVE Fine(ch, o)'
  <2>1. channels[ch] = o /\ Fine(ch, o)
    BY <1>2, <1>12, BaseFacts
  <2>2. /\ Paying(o)' = Paying(o) /\ (Parting(ch) => Parting(ch)')
        /\ TickersSame(o) /\ Opening(ch, o) => Opening(ch, o)'
        /\ \A s : (Narrows(s) => Narrows(s)') /\ (Widens(s)' => Widens(s))
    BY <1>3, <1>4, ReadRoles
  <2>3. CASE obj[o].sid # sid \/ obj[o].sid = NoSID
    <3>1. o # to
      <4>1. sid # NoSID \/ to = Nil
        BY <1>7, <1>8 DEF NoSID, Sids
      <4> QED BY <1>7, <1>8, <2>3, <4>1
    <3>2. TickersSame(o) /\ Owed(o)' = Owed(o)
      BY <1>9, <2>2, <3>1 DEF TickersSame, Owed
    <3>3. ASSUME NEW e \in pendingInit, e.ch = ch, sid \in Announced(e.id) PROVE Opened(ch, o) => FALSE
      BY <1>6, <3>3 DEF Opened, Base, Named, PendingMatch
    <3>4. CASE Opening(ch, o) /\ obj[o].sid = NoSID
      BY <1>9, <2>2, <3>2, <3>4 DEF Fine
    <3>5. CASE ~(Opening(ch, o) /\ obj[o].sid = NoSID)
      <4>1. ASSUME NEW s, Matters(ch, o, s) PROVE s # sid
        <5>1. obj[o].sid = NoSID => Opened(ch, o)
          BY <2>1, <3>5 DEF Fine
        <5>2. obj[o].sid # NoSID => \A e \in pendingInit : e.ch # ch
          BY <2>1 DEF Base, Named, PendingMatch, Unnamed
        <5> QED BY <2>3, <3>3, <4>1, <5>1, <5>2 DEF Matters
      <4>2. \A s : Matters(ch, o, s) =>
              SubKept(s) /\ (Narrows(s) => Narrows(s)') /\ (Widens(s)' => Widens(s))
        BY <1>5, <2>2, <4>1
      <4> QED BY <1>2, <1>6, <2>1, <2>2, <3>2, <4>2, FineKept DEF TickersSame
    <3> QED BY <3>4, <3>5
  <2>4. CASE obj[o].sid = sid /\ sid # NoSID
    <3>1. /\ BornOf(down[1], sid) = {} /\ sid \in DOMAIN subs[1]
          /\ \/ ~subs[1][sid].live /\ Parting(ch)
             \/ /\ sidMap[sid] = o /\ obj[o].pending = {}
                /\ Agrees(o, sid) /\ Scope(o, sid)
                /\ Widens(sid) => ~obj[o].global
      BY <2>1, <2>4 DEF Fine, Kept
    <3>2. /\ BornOf(down[1], sid)' = {} /\ sid \in DOMAIN subs'[1] /\ obj'[o].sid = sid
          /\ subs'[1][sid] = subs[1][sid]
      BY <1>6, <1>9, <2>4, <3>1
    <3>3. CASE ~subs[1][sid].live /\ Parting(ch)
      <4>1. Kept(ch, o)'
        BY <2>2, <3>2, <3>3 DEF Kept
      <4> QED BY <2>4, <3>2, <4>1 DEF Fine
    <3>4. CASE /\ sidMap[sid] = o /\ obj[o].pending = {}
               /\ Agrees(o, sid) /\ Scope(o, sid)
               /\ Widens(sid) => ~obj[o].global
      <4>1. to = o
        <5>1. sid \in Sids
          BY <3>1, BaseFacts
        <5> QED BY <1>1, <3>4, <5>1 DEF StateOf
      <4>2. /\ M.tickers # {} /\ M.tickers \subseteq subs[1][sid].tickers
            /\ ~Listing(sid)' => M.tickers = subs[1][sid].tickers
        <5>1. Lists(down[1], sid, subs[1][sid].tickers)
          BY <3>1 DEF Base, Answers, SaidOf
        <5>2. /\ down[1] \in Seq(Message) /\ down[1] # <<>> /\ M = Head(down[1])
              /\ down'[1] = Tail(down[1]) /\ M.type = "ok"
          BY <1>3 DEF Reads
        <5>3. Lists(down[1], Head(down[1]).sid, subs[1][sid].tickers)
          BY <1>1, <5>1, <5>2
        <5>4. /\ M.tickers # {} /\ M.tickers \subseteq subs[1][sid].tickers
              /\ ListsOf(Tail(down[1]), sid) = {} => M.tickers = subs[1][sid].tickers
          BY <1>1, <5>2, <5>3, ListRead
        <5> QED BY <5>2, <5>4 DEF Listing
      <4>3. Owed(o)' = M.tickers \cup Paying(o) /\ Paying(o) \subseteq subs[1][sid].tickers
        BY <1>9, <2>2, <3>4, <4>1, <4>2 DEF Owed, Agrees
      <4>4. Agrees(o, sid)'
        <5>1. Owed(o)' \subseteq subs[1][sid].tickers
          BY <4>2, <4>3
        <5>2. ~Listing(sid)' => Owed(o)' = subs[1][sid].tickers
          BY <4>2, <4>3
        <5> QED BY <3>2, <3>4, <5>1, <5>2 DEF Agrees
      <4>5. Scope(o, sid)'
        BY <1>9, <2>2, <3>2, <3>4 DEF Scope
      <4>6. Kept(ch, o)'
        BY <1>2, <1>9, <2>2, <3>2, <3>4, <4>4, <4>5 DEF Kept
      <4> QED BY <2>4, <3>2, <4>6 DEF Fine
    <3> QED BY <3>1, <3>3, <3>4
  <2> QED BY <2>3, <2>4
<1>13. ChannelsFine'
  BY <1>12 DEF ChannelsFine
<1> QED BY <1>10, <1>11, <1>13

\* The announcement that is read was the only one.
LEMMA BirthRead ==
    ASSUME NEW d \in Seq(Message), d # <<>>, NEW s, Head(d).sid = s, Head(d).type = "subscribed",
           \A i, j \in BornOf(d, s) : i = j
    PROVE  BornOf(d, s) # {} /\ BornOf(Tail(d), s) = {}
<1> DEFINE t == Tail(d)
<1>1. /\ 1 \in DOMAIN d /\ d[1] = Head(d)
      /\ \A i \in DOMAIN t : i \in Nat /\ 1 <= i /\ i + 1 \in DOMAIN d /\ t[i] = d[i + 1]
  BY Shifted
<1> HIDE DEF t
<1>2. 1 \in BornOf(d, s)
  BY <1>1 DEF BornOf
<1>3. ASSUME NEW i \in BornOf(t, s) PROVE FALSE
  <2>1. i \in Nat /\ 1 <= i /\ i + 1 \in BornOf(d, s)
    BY <1>1 DEF BornOf
  <2>2. i + 1 = 1
    BY <1>2, <2>1
  <2> QED BY <2>1, <2>2
<1> QED BY <1>2, <1>3 DEF t

\* The answer to pending subscribe e gives channel ch, with state o, its sid; the tickers
\* that were queued are to be sent.
Gets(e, ch, o, sid, queued) ==
    /\ Reads("subscribed") /\ CallersWait /\ UNCHANGED channels
    /\ e \in pendingInit /\ pendingInit' = pendingInit \ {e} /\ e.id = M.id
    /\ ch = e.ch /\ sid = M.sid /\ queued = obj[o].pending
    /\ ch \in Channels /\ o \in Objs /\ o # Nil /\ obj[o].sid = NoSID /\ channels[ch] = o
    /\ sid \in DOMAIN subs[1] /\ sid \in Sids /\ sid # NoSID /\ subs[1][sid].ch = ch
    /\ sid \in Announced(e.id) /\ BornOf(down[1], sid) # {} /\ BornOf(down[1], sid)' = {}
    /\ sidMap' = [sidMap EXCEPT ![sid] = o]
    /\ obj'[o].sid = sid /\ obj'[o].pending = {} /\ obj'[o].markets = obj[o].markets
    /\ obj'[o].global = obj[o].global
    /\ \A x \in Objs : x # o => obj'[x] = obj[x]
    /\ queued = {} => pc'[Reader] = "check" /\ flushing' = flushing
    /\ queued # {} => /\ pc'[Reader] = "register" /\ flushing' = o
                      /\ out'[Reader].kind = "add" /\ out'[Reader].sid = sid
                      /\ out'[Reader].tickers = queued
    /\ Agrees(o, sid) /\ Scope(o, sid) /\ ~Listing(sid) /\ (queued # {} => ~obj[o].global)

LEMMA SubscribedGets ==
    ASSUME Base, HandleSubscribed
    PROVE  \E e, ch, o, sid, queued : Gets(e, ch, o, sid, queued)
<1>1. PICK e \in pendingInit :
        LET o == channels[e.ch]
        IN  /\ e.id = M.id
            /\ pendingInit' = pendingInit \ {e}
            /\ \/ o = Nil /\ Handled /\ UNCHANGED <<sidMap, obj>>
               \/ /\ o # Nil
                  /\ obj' = [obj EXCEPT ![o].sid = M.sid, ![o].pending = {}]
                  /\ sidMap' = [sidMap EXCEPT ![M.sid] = o]
                  /\ \/ obj[o].pending = {} /\ Handled
                     \/ /\ obj[o].pending # {}
                        /\ flushing' = o
                        /\ SendStart(Reader, Command("add", e.ch, M.sid,
                                                     obj[o].pending, FALSE))
  BY DEF HandleSubscribed
<1>2. Incoming("subscribed") /\ UNCHANGED channels
  BY DEF HandleSubscribed
<1>3. PICK ch, sid, o, queued, global :
        /\ ch = e.ch /\ sid = M.sid /\ o = channels[e.ch] /\ queued = obj[o].pending
        /\ global = FALSE
  OBVIOUS
<1>4. /\ ch \in Channels /\ o \in Objs /\ o # Nil /\ obj[o].sid = NoSID /\ channels[ch] = o
      /\ Fine(ch, o) /\ obj[o] \in ChannelState
      /\ obj \in [Objs -> ChannelState] /\ sidMap \in [Sids -> Objs \cup {Nil}]
  <2>1. ch \in Channels /\ Unnamed(ch)
    BY <1>3, Types DEF Base, Named, PendingMatch, Pending
  <2>2. o \in Objs /\ o # Nil
    BY <1>3, <2>1, BaseFacts DEF Unnamed
  <2> QED BY <1>3, <2>1, <2>2, BaseFacts, Types DEF Unnamed, Base
<1>5. /\ pendingInit' = pendingInit \ {e} /\ e.id = M.id
      /\ obj' = [obj EXCEPT ![o].sid = sid, ![o].pending = {}]
      /\ sidMap' = [sidMap EXCEPT ![sid] = o]
      /\ \/ queued = {} /\ Handled
         \/ /\ queued # {} /\ flushing' = o
            /\ SendStart(Reader, Command("add", ch, sid, queued, global))
  BY <1>1, <1>3, <1>4
<1>6. Reads("subscribed") /\ pc[Reader] \notin Sending
  BY <1>2, IncomingReads DEF Reads, Sending
<1>7. /\ Answers' /\ UNCHANGED <<subs, call>>
      /\ sid \in Announced(e.id)
      /\ \A id : Announced(id)' \subseteq Announced(id)
      /\ \A id : id # e.id => Announced(id)' = Announced(id)
      /\ \A s : (BornOf(down[1], s) = {} => BornOf(down[1], s)' = {})
      /\ \A s : SubKept(s) /\ (Listing(s)' <=> Listing(s))
  BY <1>3, <1>5, <1>6, ReadLeaves DEF Reads
<1>8. /\ sid \in DOMAIN subs[1] /\ sid \in Sids /\ sid # NoSID /\ subs[1][sid].ch = ch
  <2>1. sid \in DOMAIN subs[1] /\ subs[1][sid].ch = ch
    BY <1>3, <1>7, OneConn DEF Announced, AnnouncedIn, Base, Inv, AnswersTrue
  <2> QED BY <2>1, BaseFacts
<1>9. BornOf(down[1], sid) # {} /\ BornOf(down[1], sid)' = {}
  <2>1. \A i, j \in BornOf(down[1], sid) : i = j
    BY <1>8 DEF Base, Order
  <2>2. /\ down[1] \in Seq(Message) /\ down[1] # <<>> /\ Head(down[1]).sid = sid
        /\ Head(down[1]).type = "subscribed" /\ down'[1] = Tail(down[1])
    BY <1>3, <1>6 DEF Reads
  <2> QED BY <2>1, <2>2, BirthRead
<1>10. /\ obj'[o].sid = sid /\ obj'[o].pending = {} /\ obj'[o].markets = obj[o].markets
       /\ obj'[o].global = obj[o].global
       /\ \A x \in Objs : x # o => obj'[x] = obj[x]
  <2>1. obj'[o] = [obj[o] EXCEPT !.sid = sid, !.pending = {}]
    BY <1>4, <1>5
  <2> QED BY <1>4, <1>5, <2>1 DEF ChannelState
<1>11. /\ CallersWait
       /\ queued = {} => pc'[Reader] = "check" /\ flushing' = flushing
       /\ queued # {} => /\ pc'[Reader] = "register" /\ flushing' = o
                         /\ out'[Reader].kind = "add" /\ out'[Reader].sid = sid
                         /\ out'[Reader].tickers = queued
  <2>1. CASE queued = {}
    <3>1. Goto("check") /\ UNCHANGED <<out, flushing>>
      BY <1>5, <2>1 DEF Handled
    <3> QED BY <1>2, <2>1, <3>1, HandledWaits
  <2>2. CASE queued # {}
    <3>1. PICK cmd : cmd = Command("add", ch, sid, queued, global)
      OBVIOUS
    <3>2. pc' = [pc EXCEPT ![Reader] = "register"] /\ out' = [out EXCEPT ![Reader] = cmd]
      BY <1>5, <2>2, <3>1 DEF SendStart
    <3>3. /\ pc'[Reader] = "register" /\ out'[Reader] = cmd
          /\ \A q \in Callers : pc'[q] = pc[q] /\ out'[q] = out[q]
      BY <3>2, Types, ReaderIsNoCaller DEF Base
    <3>4. cmd.kind = "add" /\ cmd.sid = sid /\ cmd.tickers = queued
      BY <3>1 DEF Command
    <3> QED BY <1>5, <1>7, <2>2, <3>3, <3>4 DEF CallersWait
  <2> QED BY <2>1, <2>2
<1>12. ~Opening(ch, o)
  <2> SUFFICES ASSUME NEW p \in Callers, pc[p] \in Upward, out[p].kind = "subscribe",
                      out[p].ch = ch
               PROVE  FALSE
    BY DEF Opening
  <2>1. p \in Procs /\ IsPending(ch)
    BY <1>3, ReaderIsNoCaller DEF IsPending
  <2>2. CASE pc[p] = "register"
    BY <2>1, <2>2 DEF Base, Named, CallsMatch
  <2>3. CASE pc[p] \in {"grab", "write"}
    <3>1. Unanswered(p)
      BY <2>1, <2>3 DEF Base, Commands, CommandFine, Sending
    <3>2. PICK f \in pendingInit : f.id = out[p].id /\ f.ch = out[p].ch
      BY <3>1 DEF Unanswered
    <3>3. f = e
      BY <1>3, <3>2 DEF Base, Named, PendingMatch
    <3> QED BY <1>7, <3>1, <3>2, <3>3 DEF Unanswered
  <2> QED BY <2>2, <2>3 DEF Upward
<1>13. PICK f \in pendingInit :
        /\ f.ch = ch
        /\ \A s \in Announced(f.id) : Agrees(o, s) /\ Scope(o, s) /\ ~Listing(s)
        /\ obj[o].pending # {} => ~obj[o].global
  BY <1>4, <1>12 DEF Fine, Opened
<1>14. f = e
  BY <1>3, <1>13 DEF Base, Named, PendingMatch
<1>15. Agrees(o, sid) /\ Scope(o, sid) /\ ~Listing(sid) /\ (queued # {} => ~obj[o].global)
  BY <1>3, <1>7, <1>13, <1>14
<1>16. Gets(e, ch, o, sid, queued)
  <2>1. Reads("subscribed") /\ CallersWait /\ UNCHANGED channels
    BY <1>2, <1>6, <1>11
  <2>2. sidMap' = [sidMap EXCEPT ![sid] = o] /\ pendingInit' = pendingInit \ {e} /\ e.id = M.id
    BY <1>5
  <2> QED BY <2>1, <2>2, <1>3, <1>4, <1>7, <1>8, <1>9, <1>10, <1>11, <1>15 DEF Gets
<1> QED BY <1>16

\* A sid comes: what was queued is sent, and the channel is kept from now on.
LEMMA SubscribedSteps ==
    ASSUME Base, HandleSubscribed
    PROVE  Answers' /\ Commands' /\ ChannelsFine'
<1>1. PICK e, ch, o, sid, queued : Gets(e, ch, o, sid, queued)
  BY SubscribedGets
<1>2. UNCHANGED channels
  BY <1>1 DEF Gets
<1>3. e \in pendingInit /\ ch = e.ch /\ sid = M.sid /\ queued = obj[o].pending
  BY <1>1 DEF Gets
<1>4. /\ ch \in Channels /\ o \in Objs /\ o # Nil /\ obj[o].sid = NoSID /\ channels[ch] = o
      /\ sidMap \in [Sids -> Objs \cup {Nil}]
  BY <1>1, Types DEF Gets, Base
<1>5. /\ pendingInit' = pendingInit \ {e} /\ e.id = M.id
      /\ sidMap' = [sidMap EXCEPT ![sid] = o]
  BY <1>1 DEF Gets
<1>6. Reads("subscribed") /\ pc[Reader] \notin Sending
  BY <1>1 DEF Gets, Reads, Sending
<1>7. /\ Answers' /\ UNCHANGED <<subs, call>>
      /\ sid \in Announced(e.id)
      /\ \A id : Announced(id)' \subseteq Announced(id)
      /\ \A id : id # e.id => Announced(id)' = Announced(id)
      /\ \A s : (BornOf(down[1], s) = {} => BornOf(down[1], s)' = {})
      /\ \A s : SubKept(s) /\ (Listing(s)' <=> Listing(s))
  BY <1>3, <1>5, <1>6, ReadLeaves DEF Reads
<1>8. sid \in DOMAIN subs[1] /\ sid \in Sids /\ sid # NoSID /\ subs[1][sid].ch = ch
  BY <1>1 DEF Gets
<1>9. BornOf(down[1], sid) # {} /\ BornOf(down[1], sid)' = {}
  BY <1>1 DEF Gets
<1>10. /\ obj'[o].sid = sid /\ obj'[o].pending = {} /\ obj'[o].markets = obj[o].markets
       /\ obj'[o].global = obj[o].global
       /\ \A x \in Objs : x # o => obj'[x] = obj[x]
  BY <1>1 DEF Gets
<1>11. /\ CallersWait
       /\ queued = {} => pc'[Reader] = "check" /\ flushing' = flushing
       /\ queued # {} => /\ pc'[Reader] = "register" /\ flushing' = o
                         /\ out'[Reader].kind = "add" /\ out'[Reader].sid = sid
                         /\ out'[Reader].tickers = queued
  BY <1>1 DEF Gets
<1>12. /\ \A x : Paying(x)' = Paying(x)
       /\ \A s : Narrows(s) => Narrows(s)'
       /\ \A s : Widens(s)' => Widens(s) \/ (queued # {} /\ sid = s)
       /\ \A c : Parting(c) => Parting(c)'
       /\ \A c, x : Opening(c, x) /\ TickersSame(x) => Opening(c, x)'
  <2>1. /\ \A x : Paying(x)' = Paying(x)
        /\ \A s : Narrows(s) => Narrows(s)'
        /\ \A s : Widens(s)' =>
             \/ Widens(s)
             \/ pc'[Reader] \in Sending /\ out'[Reader].kind = "add" /\ out'[Reader].sid = s
        /\ \A c : Parting(c) => Parting(c)'
        /\ \A c, x : Opening(c, x) /\ TickersSame(x) => Opening(c, x)'
    BY <1>6, <1>11, ReadRoles
  <2>2. pc'[Reader] \in Sending => queued # {} /\ out'[Reader].sid = sid
    BY <1>11 DEF Sending
  <2> QED BY <2>1, <2>2
<1>13. Commands'
  <2>1. ASSUME queued # {} PROVE CommandFine(Reader)'
    <3>1. ReaderSends'
      BY <1>4, <1>10, <1>11, <2>1 DEF ReaderSends
    <3>2. out'[Reader].sid = sid /\ pc'[Reader] = "register"
      BY <1>11, <2>1
    <3> QED BY <1>8, <1>9, <3>1, <3>2 DEF CommandFine
  <2>2. IF pc'[Reader] \in Sending THEN CommandFine(Reader)' ELSE flushing' = Nil
    BY <1>6, <1>11, <2>1 DEF Sending, Reads
  <2>3. \A f \in pendingInit : f \notin pendingInit' => f.id = M.id
    BY <1>5
  <2>4. \A x \in Objs : obj[x].sid # NoSID => obj'[x].sid = obj[x].sid
    BY <1>4, <1>10
  <2> QED BY <1>2, <1>6, <1>11, <2>2, <2>3, <2>4, ReadCommands
<1>14. Fine(ch, o)'
  <2>4. Agrees(o, sid) /\ Scope(o, sid) /\ (queued # {} => ~obj[o].global)
    BY <1>1 DEF Gets
  <2>5. ~Widens(sid)
    <3> SUFFICES ASSUME NEW p \in Procs, pc[p] \in Sending, out[p].kind = "add", out[p].sid = sid
                 PROVE  FALSE
      BY DEF Widens
    <3> QED BY <1>9 DEF Base, Commands, CommandFine
  <2>6. Agrees(o, sid)'
    <3>1. Owed(o)' = Owed(o)
      BY <1>10, <1>12 DEF Owed
    <3> QED BY <1>7, <2>4, <3>1 DEF Agrees
  <2>7. Scope(o, sid)'
    <3>1. subs'[1][sid].global = subs[1][sid].global
      BY <1>7
    <3>2. CASE queued = {}
      BY <1>3, <1>10, <1>12, <2>4, <3>1, <3>2 DEF Scope
    <3>3. CASE queued # {}
      <4>1. Narrows(sid)'
        BY <1>11, <3>3, ReaderIsNoCaller DEF Narrows, Upward
      <4> QED BY <1>10, <2>4, <3>1, <4>1 DEF Scope
    <3> QED BY <3>2, <3>3
  <2>8. Widens(sid)' => ~obj'[o].global
    BY <1>10, <1>12, <2>4, <2>5
  <2>9. sidMap'[sid] = o /\ sid \in DOMAIN subs'[1]
    BY <1>4, <1>5, <1>7, <1>8
  <2>10. Kept(ch, o)'
    BY <1>9, <1>10, <2>6, <2>7, <2>8, <2>9 DEF Kept
  <2> QED BY <1>8, <1>10, <2>10 DEF Fine
<1>15. ASSUME NEW c \in Channels, NEW x \in Objs, channels'[c] = x, c # ch PROVE Fine(c, x)'
  <2>1. channels[c] = x /\ Fine(c, x) /\ obj[x].name = c /\ obj[x] \in ChannelState
    BY <1>2, <1>15, BaseFacts
  <2>2. x # o
    BY <1>4, <1>15, <2>1, BaseFacts
  <2>3. obj'[x] = obj[x]
    BY <1>10, <2>2
  <2>4. Owed(x)' = Owed(x) /\ TickersSame(x)
    BY <1>12, <2>3 DEF Owed, TickersSame
  <2>5. \A f \in pendingInit : f.ch = c => f \in pendingInit' /\ Announced(f.id)' = Announced(f.id)
    <3> SUFFICES ASSUME NEW f \in pendingInit, f.ch = c
                 PROVE  f \in pendingInit' /\ Announced(f.id)' = Announced(f.id)
      OBVIOUS
    <3>1. f # e
      BY <1>3, <1>15
    <3>2. f.id # e.id
      BY <1>3, <3>1 DEF Base, Inv, IdsUnique
    <3> QED BY <1>5, <1>7, <3>1, <3>2
  <2>6. ASSUME NEW s, Matters(c, x, s)
        PROVE  s # sid /\ SubKept(s) /\ (Narrows(s) => Narrows(s)') /\ (Widens(s)' => Widens(s))
    <3>1. s # sid
      BY <1>8, <1>15, <2>1, <2>6, MattersWhere
    <3> QED BY <1>7, <1>12, <3>1
  <2>7. obj[x].sid # NoSID => sidMap'[obj[x].sid] = sidMap[obj[x].sid]
    <3> SUFFICES ASSUME obj[x].sid # NoSID PROVE sidMap'[obj[x].sid] = sidMap[obj[x].sid]
      OBVIOUS
    <3>1. obj[x].sid # sid
      BY <2>6 DEF Matters
    <3>2. obj[x].sid \in Sids
      BY <2>1 DEF ChannelState
    <3> QED BY <1>4, <1>5, <3>1, <3>2
  <2> QED BY <1>12, <2>1, <2>3, <2>4, <2>5, <2>6, <2>7, FineKept
<1>16. ChannelsFine'
  <2>1. channels' = channels
    BY <1>2
  <2>2. ASSUME NEW c \in Channels, NEW x \in Objs, channels'[c] = x PROVE Fine(c, x)'
    <3>1. CASE c = ch
      <4>1. x = o
        BY <1>4, <2>1, <2>2, <3>1
      <4> QED BY <1>14, <3>1, <4>1
    <3> QED BY <1>15, <2>2, <3>1
  <2> QED BY <2>2 DEF ChannelsFine
<1> QED BY <1>7, <1>13, <1>16

\* After a flush: what was queued since is sent, if the service took the last one.
LEMMA FlushSteps ==
    ASSUME Base, FlushSent
    PROVE  Answers' /\ Commands' /\ ChannelsFine'
<1>1. /\ pc[Reader] = "finish" /\ UNCHANGED <<subs, down, call, channels, sidMap, pendingInit>>
      /\ Reader \in Procs /\ obj \in [Objs -> ChannelState]
  BY ReaderIsNoCaller, Types DEF FlushSent, At, serverVars, cmdVars, Base
<1>2. /\ CommandFine(Reader) /\ ReaderSends /\ out[Reader].ok
      /\ out[Reader].sid # NoSID /\ out[Reader].sid = obj[flushing].sid
  BY <1>1 DEF Base, Commands, CommandFine, ReaderSends, Sending
<1>3. PICK sid, queued, ch, global :
        /\ sid = out[Reader].sid /\ queued = obj[flushing].pending /\ ch = out[Reader].ch
        /\ global = FALSE
  OBVIOUS
<1>4. IF queued # {}
      THEN /\ obj' = [obj EXCEPT ![flushing].pending = {}]
           /\ SendStart(Reader, Command("add", ch, sid, queued, global))
           /\ UNCHANGED flushing
      ELSE /\ out' = [out EXCEPT ![Reader] = NoSend] /\ flushing' = Nil
           /\ Goto("check") /\ UNCHANGED obj
  BY <1>2, <1>3 DEF FlushSent
<1>5. /\ CallersWait
      /\ queued = {} => pc'[Reader] = "check" /\ flushing' = Nil
      /\ queued # {} => /\ pc'[Reader] = "register" /\ flushing' = flushing
                        /\ out'[Reader].kind = "add" /\ out'[Reader].sid = sid
                        /\ out'[Reader].tickers = queued
  <2>1. PICK l, cmd : /\ pc' = [pc EXCEPT ![Reader] = l] /\ out' = [out EXCEPT ![Reader] = cmd]
                      /\ queued = {} => l = "check" /\ flushing' = Nil
                      /\ queued # {} => /\ l = "register" /\ flushing' = flushing
                                        /\ cmd = Command("add", ch, sid, queued, global)
    BY <1>4 DEF Goto, SendStart
  <2>2. pc'[Reader] = l /\ out'[Reader] = cmd
    BY <1>1, <2>1, Types DEF Base
  <2>3. \A q \in Callers : pc'[q] = pc[q] /\ out'[q] = out[q]
    BY <2>1, Types, ReaderIsNoCaller DEF Base
  <2>4. queued # {} => cmd.kind = "add" /\ cmd.sid = sid /\ cmd.tickers = queued
    BY <2>1 DEF Command
  <2> QED BY <1>1, <2>1, <2>2, <2>3, <2>4 DEF CallersWait
<1>6. /\ \A q \in Callers : q \in Procs
      /\ \A q \in Procs : q # Reader => q \in Callers /\ pc'[q] = pc[q] /\ out'[q] = out[q]
  BY <1>5 DEF Procs, CallersWait
<1>7. /\ \A x : Paying(x)' = Paying(x)
      /\ \A c : Parting(c) => Parting(c)'
      /\ \A c, x : Opening(c, x) /\ TickersSame(x) => Opening(c, x)'
  BY <1>5 DEF Paying, Parting, Opening, TickersSame, CallersWait, Ch
<1>8. \A s : (Narrows(s) => Narrows(s)') /\ (Widens(s)' => Widens(s))
  <2> SUFFICES ASSUME NEW s PROVE (Narrows(s) => Narrows(s)') /\ (Widens(s)' => Widens(s))
    OBVIOUS
  <2>1. Narrows(s) => Narrows(s)'
    BY <1>1, <1>6 DEF Narrows, Upward
  <2>2. ASSUME Widens(s)' PROVE Widens(s)
    <3>1. PICK q \in Procs : pc'[q] \in Sending /\ out'[q].kind = "add" /\ out'[q].sid = s
      BY <2>2 DEF Widens
    <3>2. CASE q # Reader
      BY <1>6, <3>1, <3>2 DEF Widens
    <3>3. CASE q = Reader
      <4>1. queued # {}
        BY <1>5, <3>1, <3>3 DEF Sending
      <4>2. s = out[Reader].sid /\ out[Reader].kind = "add" /\ pc[Reader] \in Sending
        BY <1>1, <1>2, <1>3, <1>5, <3>1, <3>3, <4>1 DEF ReaderSends, Sending
      <4> QED BY <1>1, <4>2 DEF Widens
    <3> QED BY <3>2, <3>3
  <2> QED BY <2>1, <2>2
<1>9. \A x \in Objs : /\ obj'[x].sid = obj[x].sid /\ obj'[x].markets = obj[x].markets
                      /\ obj'[x].global = obj[x].global
                      /\ obj'[x].pending = IF x = flushing THEN {} ELSE obj[x].pending
  <2> SUFFICES ASSUME NEW x \in Objs
               PROVE  /\ obj'[x].sid = obj[x].sid /\ obj'[x].markets = obj[x].markets
                      /\ obj'[x].global = obj[x].global
                      /\ obj'[x].pending = IF x = flushing THEN {} ELSE obj[x].pending
    OBVIOUS
  <2>1. obj[x] \in ChannelState
    BY <1>1
  <2>2. CASE x = flushing /\ queued # {}
    <3>1. obj'[x] = [obj[x] EXCEPT !.pending = {}]
      BY <1>1, <1>4, <2>2
    <3> QED BY <2>1, <2>2, <3>1 DEF ChannelState
  <2>3. CASE x # flushing \/ queued = {}
    <3>1. obj'[x] = obj[x]
      BY <1>1, <1>4, <2>3
    <3> QED BY <1>3, <2>3, <3>1
  <2> QED BY <2>2, <2>3
<1>10. Answers' /\ \A s : SubKept(s)
  BY <1>1, NothingSaid DEF Base
<1>11. Commands'
  <2>1. ASSUME NEW q \in Callers, pc'[q] \in Sending PROVE CommandFine(q)'
    <3>1. q \in Procs /\ q # Reader /\ CommandFine(q) /\ pc'[q] = pc[q] /\ out'[q] = out[q]
      BY <1>5, <1>6, <2>1, ReaderIsNoCaller DEF Base, Commands, CallersWait
    <3>2. call[q].op = "add" /\ out[q].kind = "add" =>
            obj'[call[q].state].sid = obj[call[q].state].sid
      BY <1>9, <3>1 DEF CommandFine, CallerSends
    <3>3. BornOf(down[1], out[q].sid) = {} => BornOf(down[1], out[q].sid)' = {}
      BY <1>1, <3>1
    <3>4. Announced(out[q].id) = {} => Announced(out[q].id)' = {}
      BY <1>1, <3>1 DEF Announced
    <3>5. CommandKept(q)
      BY <1>1, <3>1, <3>2, <3>3, <3>4 DEF CommandKept
    <3> QED BY <3>1, <3>5, CommandStays
  <2>2. ASSUME queued # {} PROVE CommandFine(Reader)'
    <3>1. obj'[flushing].sid = sid
      <4>1. CASE flushing \in Objs
        BY <1>2, <1>3, <1>9, <4>1
      <4>2. CASE flushing \notin Objs
        BY <1>1, <1>2, <1>3, <1>4, <2>2, <4>2
      <4> QED BY <4>1, <4>2
    <3>2. ReaderSends'
      BY <1>2, <1>3, <1>5, <2>2, <3>1 DEF ReaderSends
    <3>3. out'[Reader].sid = sid /\ pc'[Reader] = "register" /\ sid # NoSID
          /\ BornOf(down[1], sid) = {} /\ UNCHANGED down
      BY <1>1, <1>2, <1>3, <1>5, <2>2 DEF CommandFine, ReaderSends
    <3> QED BY <3>2, <3>3 DEF CommandFine
  <2>3. pc'[Reader] \in Sending => CommandFine(Reader)'
    BY <1>5, <2>2 DEF Sending
  <2>4. pc'[Reader] \notin Sending => flushing' = Nil
    BY <1>5 DEF Sending
  <2> QED BY <1>6, <2>1, <2>3, <2>4 DEF Commands
<1>12. ASSUME NEW c \in Channels, NEW x \in Objs, channels'[c] = x PROVE Fine(c, x)'
  <2>1. channels[c] = x /\ Fine(c, x)
    BY <1>1, <1>12, BaseFacts
  <2>2. Owed(x)' = Owed(x)
    BY <1>7, <1>9 DEF Owed
  <2>3. \A e \in pendingInit : e.ch = c => e \in pendingInit' /\ Announced(e.id)' = Announced(e.id)
    BY <1>1 DEF Announced
  <2>4. CASE obj'[x].pending = obj[x].pending
    <3>1. TickersSame(x)
      BY <1>9, <2>4 DEF TickersSame
    <3>2. Opening(c, x) => Opening(c, x)'
      BY <1>7, <3>1
    <3> QED BY <1>1, <1>7, <1>8, <1>10, <2>1, <2>2, <2>3, <3>1, <3>2, FineKept DEF TickersSame
  <2>5. CASE obj'[x].pending # obj[x].pending
    <3>1. x = flushing /\ obj[x].pending # {} /\ obj[x].sid = sid /\ sid # NoSID
      BY <1>2, <1>3, <1>9, <2>5
    <3>2. BornOf(down[1], sid) = {} /\ sid \in DOMAIN subs[1] /\ ~subs[1][sid].live /\ Parting(c)
      BY <2>1, <3>1 DEF Fine, Kept
    <3>3. /\ obj'[x].sid = sid /\ BornOf(down[1], sid)' = {} /\ sid \in DOMAIN subs'[1]
          /\ ~subs'[1][sid].live /\ Parting(c)'
      BY <1>1, <1>7, <1>9, <3>1, <3>2
    <3>4. Kept(c, x)'
      BY <3>3 DEF Kept
    <3> QED BY <3>1, <3>3, <3>4 DEF Fine
  <2> QED BY <2>4, <2>5
<1>13. ChannelsFine'
  BY <1>12 DEF ChannelsFine
<1> QED BY <1>10, <1>11, <1>13

-----------------------------------------------------------------------------
(* The theorems.                                                           *)

LEMMA AgreementStep ==
    ASSUME Inv, Dialed, Aimed, Straight, Agreement, CallsFit, Linked,
           OneCaller, Reliable, [Next]_vars
    PROVE  Agreement'
<1> SUFFICES ASSUME OnlyFirst', conn' # NoConn
             PROVE  Answers' /\ Commands' /\ ChannelsFine'
  BY DEF Agreement
<1>1. OnlyFirst
  BY DialedStep, LinkGrows DEF DialedEffect, OnlyFirst, Linked
<1>2. ~MayReject /\ ~MayTimeout /\ QueueEffect
  BY <1>1, QueueMoves DEF Alone, Reliable
<1>3. conn # NoConn
  BY <1>2 DEF QueueEffect
<1>4. Base
  <2>1. conn = 1 /\ Len(link) = 1
    BY <1>1, <1>3, OnlyFacts
  <2>2. First
    BY <2>1 DEF First
  <2> QED BY <1>1, <1>3, <2>2 DEF Base, Agreement, Straight
<1>5. ~RecoverSteps
  BY <1>1, RecoverDials, OnlyFacts
<1>6. ~HandleConnectionLoss
  BY DEF HandleConnectionLoss
<1>7. HandleIncoming => Answers' /\ Commands' /\ ChannelsFine'
  BY <1>4, SubscribedSteps, OKSteps, ElseSteps DEF HandleIncoming
<1>8. ASSUME \/ \E p \in Callers : Begin(p) \/ Connect(p) \/ Close(p) \/ CloseConn(p)
             \/ LoopSteps \/ Deliver \/ Consume \/ Cancel \/ UNCHANGED vars
      PROVE  Answers' /\ Commands' /\ ChannelsFine'
  <2>1. UNCHANGED <<subs, down>>
    <3>1. ASSUME NEW p \in Callers, Begin(p) \/ Connect(p) \/ Close(p) \/ CloseConn(p)
          PROVE  UNCHANGED <<subs, down>>
      BY <3>1 DEF Begin, Connect, Close, CloseConn, Dialled, DialFailed, serverVars
    <3>2. LoopSteps => UNCHANGED <<subs, down>>
      BY DEF LoopSteps, LoopTop, Dial, Wait, EnterReadLoop, ReadError, CheckForce,
         LoopLeaves, WaitLoss, Redial, Dialled, DialFailed, serverVars
    <3>3. Deliver \/ Consume \/ Cancel \/ UNCHANGED vars => UNCHANGED <<subs, down>>
      BY DEF Deliver, Consume, Cancel, vars, serverVars
    <3> QED BY <1>8, <3>1, <3>2, <3>3
  <2>2. Idles
    BY <1>4, <1>8, OutsideIdles
  <2> QED BY <1>4, <2>1, <2>2, IdleSteps
<1> QED BY <1>2, <1>4, <1>5, <1>6, <1>7, <1>8, StepCases, MethodsSteps, SendSteps, FlushSteps,
           FeedSteps

\* In the beginning there are no channels.
LEMMA AgreementInit == Init => Agreement
<1> SUFFICES ASSUME Init PROVE Answers /\ Commands /\ ChannelsFine
  BY DEF Agreement
<1>1. /\ \A ch \in Channels : channels[ch] = Nil
      /\ flushing = Nil /\ \A p \in Procs : pc[p] \in {"top", "idle"}
  BY DEF Init
<1>2. DOMAIN subs[1] = {}
  <2>1. subs[1] = <<>>
    BY OneConn DEF Init, ServerInit
  <2> QED BY <2>1
<1>3. Nil \notin Objs
  BY ClientAssumption DEF ClientAssumption, Nil
<1> QED BY <1>1, <1>2, <1>3 DEF Answers, Commands, ChannelsFine, Sending

\* At rest on the first connection, every channel with a state is kept, with the tickers
\* of a live subscription, and nothing is queued or on its way.
LEMMA AtRest ==
    ASSUME Inv, Dialed, Aimed, Straight, Agreement, CallsFit, OneCaller, OnlyFirst, Quiet,
           NEW ch \in Channels, channels[ch] # Nil
    PROVE  LET o == channels[ch]
               s == obj[o].sid
           IN  /\ rconn = 1 /\ o \in Objs /\ s # NoSID /\ s \in DOMAIN subs[1] /\ subs[1][s].live
               /\ obj[o].pending = {} /\ obj[o].markets = subs[1][s].tickers
               /\ obj[o].global = subs[1][s].global
               /\ flushing = Nil /\ down[1] = <<>>
<1> DEFINE o == channels[ch]
<1>1. pc[Reader] = "read" /\ conn = rconn /\ \A p \in Callers : pc[p] = "idle"
  BY DEF Quiet, At
<1>2. rconn # NoConn
  BY <1>1 DEF Inv, Shape, ReaderShape, Attached
<1>3. rconn = 1 /\ conn = 1 /\ down[1] = <<>> /\ First
  <2>1. conn = 1 /\ Len(link) = 1
    BY <1>1, <1>2, OnlyFacts
  <2> QED BY <1>1, <2>1 DEF First, Quiet
<1>4. Base
  BY <1>1, <1>2, <1>3 DEF Base, Agreement, Straight
<1>5. o \in Objs /\ Fine(ch, o)
  BY <1>4, BaseFacts
<1>6. \A p \in Procs : pc[p] \notin Sending
  BY <1>1 DEF Procs, Sending
<1>7. flushing = Nil
  BY <1>4, <1>6, ReaderIsNoCaller DEF Base, Commands
<1>8. /\ \A id : Announced(id) = {}
      /\ \A s : ~Listing(s)
  BY <1>3 DEF Announced, AnnouncedIn, Listing, ListsOf
<1>9. ~Opening(ch, o) /\ ~Parting(ch) /\ Paying(o) = {} /\ \A s : ~Narrows(s)
  <2>1. ~Opening(ch, o) /\ ~Parting(ch)
    BY <1>1 DEF Opening, Parting, Upward
  <2>2. Paying(o) = {}
    <3>1. {q \in Callers : pc[q] = "finish" /\ call[q].op = "add" /\ call[q].state = o} = {}
      BY <1>1
    <3> QED BY <3>1 DEF Paying
  <2>3. \A s : ~Narrows(s)
    BY <1>6 DEF Narrows, Sending, Upward
  <2> QED BY <2>1, <2>2, <2>3
<1>10. obj[o].sid # NoSID /\ Kept(ch, o)
  BY <1>5, <1>8, <1>9 DEF Fine, Opened
<1>11. PICK s : s = obj[o].sid
  OBVIOUS
<1>12. /\ s \in DOMAIN subs[1] /\ obj[o].pending = {} /\ Agrees(o, s) /\ Scope(o, s)
  BY <1>9, <1>10, <1>11 DEF Kept
<1>13. subs[1][s].live /\ obj[o].markets = subs[1][s].tickers
  BY <1>8, <1>9, <1>12 DEF Agrees, Owed
<1>14. obj[o].global = subs[1][s].global
  BY <1>9, <1>12 DEF Scope
<1> QED BY <1>3, <1>5, <1>7, <1>10, <1>11, <1>12, <1>13, <1>14

\* What is asked for at rest is what the channel's state says.
LEMMA AskedAtRest ==
    ASSUME NEW ch \in Channels, Asked[ch].on, NEW o, o = channels[ch], rconn = 1, down[1] = <<>>,
           flushing = Nil, obj[o].pending = {}, \A p \in Callers : pc[p] = "idle"
    PROVE  o # Nil /\ Asked[ch].global = obj[o].global /\ Asked[ch].tickers = obj[o].markets
<1>1. Asked[ch] = IF o = Nil \/ Ending(ch) THEN [on |-> FALSE, global |-> FALSE, tickers |-> {}]
                  ELSE [on |-> TRUE, global |-> obj[o].global,
                        tickers |-> (Settling(o) \cup obj[o].pending \cup Adding(o)) \ Removing(o)]
  BY DEF Asked
<1>2. /\ o # Nil /\ Asked[ch].global = obj[o].global
      /\ Asked[ch].tickers = (Settling(o) \cup obj[o].pending \cup Adding(o)) \ Removing(o)
  <2>1. ~(o = Nil \/ Ending(ch))
    <3> SUFFICES ASSUME o = Nil \/ Ending(ch) PROVE FALSE
      OBVIOUS
    <3>1. Asked[ch] = [on |-> FALSE, global |-> FALSE, tickers |-> {}]
      BY <1>1
    <3> QED BY <3>1
  <2>2. Asked[ch] = [on |-> TRUE, global |-> obj[o].global,
                     tickers |-> (Settling(o) \cup obj[o].pending \cup Adding(o)) \ Removing(o)]
    BY <1>1, <2>1
  <2> QED BY <2>1, <2>2
<1>3. Settling(o) = obj[o].markets
  BY DEF Settling, Unread
<1>4. Adding(o) = {}
  <2>1. {q \in Callers : call[q].op = "add" /\ call[q].state = o /\ pc[q] \in InTheMaking} = {}
    BY DEF InTheMaking
  <2>2. {flushing} \cap {o} = {}
    BY <1>2
  <2> QED BY <2>1, <2>2 DEF Adding
<1>5. Removing(o) = {}
  <2>1. {q \in Callers : call[q].op = "remove" /\ call[q].state = o /\ pc[q] \in InTheMaking} = {}
    BY DEF InTheMaking
  <2> QED BY <2>1 DEF Removing
<1> QED BY <1>2, <1>3, <1>4, <1>5

\* What the theorems below rest on, while OnlyFirst holds.
LEMMA AgreementAlways ==
    ASSUME OneCaller, Reliable, Accepted
    PROVE  Spec => [](Inv /\ Dialed /\ Aimed /\ Straight /\ Agreement /\ CallsFit)
<1>1. Connected /\ ~MayReject
  BY DEF Reliable
<1>2. Init => Agreement /\ Aimed /\ Straight /\ Linked
  BY <1>1, AgreementInit, AimedInit, StraightInit, QueueInit DEF Linked
<1>3. Inv /\ Inv' /\ Dialed /\ Aimed /\ Straight /\ Agreement /\ CallsFit /\ Linked /\ [Next]_vars
        => Aimed' /\ Straight' /\ Agreement' /\ Linked'
  <2> SUFFICES ASSUME Inv, Dialed, Aimed, Straight, Agreement, CallsFit, Linked, [Next]_vars
               PROVE  Aimed' /\ Straight' /\ Agreement' /\ Linked'
    OBVIOUS
  <2>1. Len(link) \in Nat /\ Len(link') \in Nat /\ Len(link') >= Len(link)
    BY DialedStep, LinkGrows DEF DialedEffect
  <2>2. Linked'
    BY <2>1 DEF Linked
  <2> QED BY <1>1, <2>2, AimedStep, StraightStep, AgreementStep
<1> QED BY <1>2, <1>3, CallsFitAlways, DialedAlways, Inductive, PTL DEF Spec

\* If one goroutine calls Subscribe with tickers or for all of them, AddMarkets with tickers,
\* Unsubscribe and GetSnapshot, and the service answers every command, then on the first
\* connection, as long as it is up, the markets that the client holds of a ticker-scoped
\* channel are at rest exactly the service's: what AddMarkets filters out is subscribed
\* (AddMarkets, handleSubscribed's flush, handleOK's reconciliation).
THEOREM TickersInStep ==
    ASSUME OneCaller, Reliable, Accepted
    PROVE  Spec => [](OnlyFirst => MarketsAgree)
<1>1. Inv /\ Dialed /\ Aimed /\ Straight /\ Agreement /\ CallsFit => (OnlyFirst => MarketsAgree)
  <2> SUFFICES ASSUME Inv, Dialed, Aimed, Straight, Agreement, CallsFit, OnlyFirst, Quiet,
                      NEW ch \in Channels, channels[ch] # Nil
               PROVE  obj[channels[ch]].markets = subs[rconn][obj[channels[ch]].sid].tickers
    BY DEF MarketsAgree
  <2> QED BY AtRest
<1> QED BY <1>1, AgreementAlways, PTL

\* Under the same conditions the service sends at rest what the callers asked for: for
\* each channel asked for and not ended the client has the sid of a live subscription,
\* of the tickers asked for, or of all when a global one was asked for (Subscribe,
\* AddMarkets, handleSubscribed, handleOK).
THEOREM FirstConnectionServes ==
    ASSUME OneCaller, Reliable, Accepted
    PROVE  Spec => [](OnlyFirst => Served)
<1>1. Inv /\ Dialed /\ Aimed /\ Straight /\ Agreement /\ CallsFit => (OnlyFirst => Served)
  <2> SUFFICES ASSUME Inv, Dialed, Aimed, Straight, Agreement, CallsFit, OnlyFirst, Quiet,
                      NEW ch \in Channels, Asked[ch].on
               PROVE  /\ HasSID(ch)
                      /\ LET sub == subs[rconn][obj[channels[ch]].sid]
                         IN  /\ sub.live /\ sub.global = Asked[ch].global
                             /\ sub.tickers = Asked[ch].tickers
    BY DEF Served
  <2>1. channels[ch] # Nil
    BY DEF Asked
  <2>2. PICK o, s : o = channels[ch] /\ s = obj[o].sid
    OBVIOUS
  <2>3. /\ rconn = 1 /\ s # NoSID /\ subs[1][s].live
        /\ obj[o].pending = {} /\ obj[o].markets = subs[1][s].tickers
        /\ obj[o].global = subs[1][s].global
        /\ flushing = Nil /\ down[1] = <<>>
    BY <2>1, <2>2, AtRest
  <2>4. Asked[ch].global = obj[o].global /\ Asked[ch].tickers = obj[o].markets
    BY <2>2, <2>3, AskedAtRest DEF Quiet
  <2> QED BY <2>1, <2>2, <2>3, <2>4 DEF HasSID
<1> QED BY <1>1, AgreementAlways, PTL

=============================================================================
