------------------------- MODULE WSSubscriptionsProofs -------------------------
(***************************************************************************)
(* Proofs that WSClient implements Subscriptions, for any calls and bounds,*)
(* one goroutine that calls and a service that answers every command: on   *)
(* the first connection, as long as it is up, each step of the client      *)
(* is a step of Subscriptions or changes nothing that Subscriptions sees.  *)
(*                                                                         *)
(* What is asked for on a channel is put together from what the client     *)
(* holds, what is being sent and what is unread.  The invariant of         *)
(* WSMarketsProofs gives it a simpler form, Shown, in which a channel that *)
(* has a sid counts for what the service sends, and not for what it holds  *)
(* or has not read; the steps are followed on that form.                   *)
(***************************************************************************)
EXTENDS WSMarketsProofs, WellFoundedInduction

-----------------------------------------------------------------------------
(* What is asked for, once more.                                           *)

Unasked == [on |-> FALSE, global |-> FALSE, tickers |-> {}]

\* What the service sends for state o, or will be asked to by the subscribe on its way.
Stock(o) == IF obj[o].sid = NoSID THEN obj[o].markets ELSE subs[1][obj[o].sid].tickers

\* What callers are sending for state o, or have sent and not noted, and what its flush is.
SentFor(o) ==
    UNION {out[p].tickers : p \in {q \in Callers : /\ call[q].op = "add" /\ call[q].state = o
                                                   /\ pc[q] \in Sending}}
FlushFor(o) == IF flushing = o THEN out[Reader].tickers ELSE {}

Holding(o) == Stock(o) \cup obj[o].pending \cup SentFor(o) \cup FlushFor(o)

Shown(ch) ==
    IF channels[ch] = Nil \/ Ending(ch) THEN Unasked
    ELSE [on |-> TRUE, global |-> obj[channels[ch]].global, tickers |-> Holding(channels[ch])]

AskedShown == Asked = [ch \in Channels |-> Shown(ch)]

\* Nobody calls Connect or Close.
Staying == \A c \in Calls : c.op \notin {"connect", "close"}

\* A caller is in a call, or in none.
CallsAt ==
    \A p \in Callers :
        IF pc[p] = "idle" THEN call[p] = NoCall
        ELSE /\ call[p].op \in {"subscribe", "unsubscribe", "add", "snapshot"}
             /\ pc[p] \in {"section"} \cup Sending

\* readLoop was entered before any sid was read.
Entered == rconn = NoConn => \A o \in Objs : obj[o].sid = NoSID

\* The state that is flushed is the one that its sid leads to, and the service has what
\* was flushed for it.
Noted ==
    pc[Reader] \in Sending =>
        LET s == out[Reader].sid
        IN  /\ sidMap[s] \in {flushing, Nil}
            /\ pc[Reader] = "finish" /\ subs[1][s].live =>
                 out[Reader].tickers \subseteq subs[1][s].tickers

\* A list of tickers is of a subscription.
Marked == \A i \in DOMAIN down[1] : down[1][i].type = "ok" => down[1][i].sid # NoSID

Following == OnlyFirst /\ conn # NoConn => Entered /\ Noted /\ Marked

\* What the steps below start from.
Footing == Base /\ CallsAt /\ Entered /\ Noted /\ Marked

-----------------------------------------------------------------------------
(* What is asked for is what is shown.                                     *)

\* A set of places has a last one.
LEMMA LastPlace ==
    ASSUME NEW n \in Nat, NEW T \in SUBSET (1..n), T # {}
    PROVE  \E i \in T : \A j \in T : j <= i
<1> DEFINE R == OpToRel(<, Nat)
<1>1. \A x, y \in Nat : x < y => <<x, y>> \in R
  BY DEF OpToRel
<1>2. IsWellFoundedOn(R, Nat)
  BY NatLessThanWellFounded
<1> HIDE DEF R
<1> DEFINE U == {n - i : i \in T}
<1>3. U \subseteq Nat /\ U # {}
  <2>1. \A i \in T : i \in Nat /\ n - i \in Nat /\ n - i \in U
    OBVIOUS
  <2>2. PICK i \in T : TRUE
    OBVIOUS
  <2> QED BY <2>1, <2>2
<1>4. PICK x \in U : \A y \in U : ~(<<y, x>> \in R)
  <2> HIDE DEF U
  <2> QED BY <1>2, <1>3, WFMin
<1>5. PICK i \in T : x = n - i
  OBVIOUS
<1>6. \A j \in T : j \in Nat /\ n - j \in U
  OBVIOUS
<1> HIDE DEF U
<1>7. \A j \in T : ~(n - j < n - i)
  BY <1>1, <1>3, <1>4, <1>5, <1>6
<1> QED BY <1>7

\* A channel that has a sid and is not being ended is served.
Standing(ch, o, s) ==
    /\ o \in Objs /\ channels[ch] = o /\ s = obj[o].sid /\ s # NoSID /\ s \in DOMAIN subs[1]
    /\ subs[1][s].live /\ sidMap[s] = o /\ obj[o].pending = {} /\ Agrees(o, s)

LEMMA KeptLives ==
    ASSUME Base, NEW ch \in Channels, NEW o, NEW s, channels[ch] = o, o # Nil, ~Ending(ch),
           s = obj[o].sid, s # NoSID
    PROVE  Standing(ch, o, s)
<1>1. o \in Objs /\ Fine(ch, o)
  BY BaseFacts
<1>2. ~Parting(ch)
  BY DEF Parting, Ending, InTheMaking
<1>3. Kept(ch, o)
  BY <1>1 DEF Fine
<1>4. /\ s \in DOMAIN subs[1]
      /\ \/ ~subs[1][s].live /\ Parting(ch)
         \/ sidMap[s] = o /\ obj[o].pending = {} /\ Agrees(o, s)
  BY <1>3 DEF Kept
<1>5. Agrees(o, s)
  BY <1>2, <1>4
<1> QED BY <1>1, <1>2, <1>4, <1>5 DEF Standing, Agrees

\* What callers have sent and not noted is among what they are sending or have sent.
LEMMA PayingSent == ASSUME NEW o PROVE Paying(o) \subseteq SentFor(o)
  BY DEF Paying, SentFor, Sending

\* What the client adds.
LEMMA AddingIs == ASSUME NEW o PROVE Adding(o) = SentFor(o) \cup FlushFor(o)
<1>1. Adding(o) = SentFor(o) \cup UNION {out[Reader].tickers : r \in {flushing} \cap {o}}
  BY DEF Adding, SentFor, InTheMaking, Sending
<1>2. UNION {out[Reader].tickers : r \in {flushing} \cap {o}} = FlushFor(o)
  BY DEF FlushFor
<1> QED BY <1>1, <1>2

\* The answers that are still to be read leave what the service sends.
LEMMA SettlesKnown ==
    ASSUME Footing, NEW ch \in Channels, NEW o, channels[ch] = o, o # Nil, ~Ending(ch)
    PROVE  Settling(o) \cup obj[o].pending \cup SentFor(o) \cup FlushFor(o) = Holding(o)
<1>0. Base /\ Entered /\ Marked
  BY DEF Footing
<1>1. PICK s : s = obj[o].sid
  OBVIOUS
<1>2. Unread(s) = IF rconn = NoConn THEN {} ELSE ListsOf(down[rconn], s)
  BY DEF Unread, ListsOf
<1>3. Settling(o) = IF Unread(s) = {} THEN obj[o].markets
                    ELSE down[rconn][CHOOSE i \in Unread(s) : \A j \in Unread(s) : j <= i].tickers
  BY <1>1 DEF Settling
<1>4. rconn # NoConn => rconn = 1
  <2>1. Len(link) = 1
    BY <1>0, BaseFacts
  <2> QED BY <1>0, <2>1, FirstRead DEF Base
<1>5. CASE s = NoSID
  <2>1. Unread(s) = {}
    BY <1>0, <1>2, <1>4, <1>5 DEF Marked, ListsOf
  <2> QED BY <1>1, <1>3, <1>5, <2>1 DEF Holding, Stock
<1>6. CASE s # NoSID
  <2>1. Standing(ch, o, s)
    BY <1>0, <1>1, <1>6, KeptLives
  <2>2. rconn = 1 /\ Unread(s) = ListsOf(down[1], s)
    BY <1>0, <1>1, <1>2, <1>4, <1>6, <2>1 DEF Entered, Standing
  <2>3. Stock(o) = subs[1][s].tickers
    BY <1>1, <1>6 DEF Stock
  <2>4. CASE ListsOf(down[1], s) = {}
    <3>1. Settling(o) = obj[o].markets
      BY <1>3, <2>2, <2>4
    <3>2. obj[o].markets \cup Paying(o) = subs[1][s].tickers
      BY <2>1, <2>4 DEF Standing, Agrees, Owed, Listing
    <3> QED BY <2>3, <3>1, <3>2, PayingSent DEF Holding
  <2>5. CASE ListsOf(down[1], s) # {}
    <3>1. PICK i \in ListsOf(down[1], s) : \A j \in ListsOf(down[1], s) : j <= i
      <4>1. down[1] \in Seq(Message)
        BY <1>0, BaseFacts
      <4>2. Len(down[1]) \in Nat /\ DOMAIN down[1] = 1..Len(down[1])
        BY <4>1, LenProperties
      <4>3. ListsOf(down[1], s) \in SUBSET (1..Len(down[1]))
        BY <4>2 DEF ListsOf
      <4> QED BY <2>5, <4>2, <4>3, LastPlace
    <3>2. PICK l : l = CHOOSE k \in ListsOf(down[1], s) : \A j \in ListsOf(down[1], s) : j <= k
      OBVIOUS
    <3>3. l \in ListsOf(down[1], s) /\ \A j \in ListsOf(down[1], s) : j <= l
      BY <3>1, <3>2
    <3>4. Settling(o) = down[1][l].tickers
      BY <1>3, <2>2, <2>5, <3>2
    <3>5. SaidOf(s)
      BY <1>0, <2>1 DEF Base, Answers, Standing
    <3>6. down[1][l].tickers = subs[1][s].tickers
      BY <3>3, <3>5 DEF SaidOf, Lists
    <3> QED BY <2>3, <3>4, <3>6 DEF Holding
  <2> QED BY <2>4, <2>5
<1> QED BY <1>5, <1>6

LEMMA AskedIsShown == ASSUME Footing PROVE AskedShown
<1> SUFFICES ASSUME NEW ch \in Channels PROVE Asked[ch] = Shown(ch)
  BY DEF Asked, AskedShown
<1>1. PICK o : o = channels[ch]
  OBVIOUS
<1>2. Asked[ch] = IF o = Nil \/ Ending(ch) THEN Unasked
                  ELSE [on |-> TRUE, global |-> obj[o].global,
                        tickers |-> (Settling(o) \cup obj[o].pending \cup Adding(o)) \ Removing(o)]
  BY <1>1 DEF Asked, Unasked
<1>3. Shown(ch) = IF o = Nil \/ Ending(ch) THEN Unasked
                  ELSE [on |-> TRUE, global |-> obj[o].global, tickers |-> Holding(o)]
  BY <1>1 DEF Shown
<1>4. Removing(o) = {}
  <2>1. {q \in Callers : call[q].op = "remove" /\ call[q].state = o /\ pc[q] \in InTheMaking} = {}
    BY DEF Footing, Base, CallsFit
  <2> QED BY <2>1 DEF Removing
<1>5. ASSUME o # Nil, ~Ending(ch)
      PROVE  (Settling(o) \cup obj[o].pending \cup Adding(o)) \ Removing(o) = Holding(o)
  <2>1. Settling(o) \cup obj[o].pending \cup SentFor(o) \cup FlushFor(o) = Holding(o)
    BY <1>1, <1>5, SettlesKnown
  <2> QED BY <1>4, <2>1, AddingIs
<1> QED BY <1>2, <1>3, <1>5

-----------------------------------------------------------------------------
(* Steps that nobody sees.                                                 *)

\* The callers go on with what they are sending, or send nothing before and after.
CallersGoOn ==
    \A q \in Callers : /\ call'[q] = call[q]
                       /\ pc'[q] \in Sending <=> pc[q] \in Sending
                       /\ pc[q] \in Sending => out'[q].tickers = out[q].tickers

LEMMA RequestsStay ==
    ASSUME CallersGoOn
    PROVE  /\ Requested' = Requested
           /\ \A o : SentFor(o)' = SentFor(o)
           /\ \A ch : Ending(ch)' <=> Ending(ch)
<1>1. Requested' = Requested
  BY DEF CallersGoOn, Requested, InTheMaking, Sending
<1>2. ASSUME NEW o PROVE SentFor(o)' = SentFor(o)
  BY DEF CallersGoOn, SentFor
<1>3. ASSUME NEW ch PROVE Ending(ch)' <=> Ending(ch)
  BY DEF CallersGoOn, Ending, Ch, InTheMaking, Sending
<1> QED BY <1>1, <1>2, <1>3

\* A channel that keeps its state, its scope and its tickers shows what it did.
LEMMA ShownStays ==
    ASSUME NEW ch, NEW o, channels[ch] = o, channels'[ch] = o, Ending(ch)' <=> Ending(ch),
           o # Nil /\ ~Ending(ch) => obj'[o].global = obj[o].global /\ Holding(o)' = Holding(o)
    PROVE  Shown(ch)' = Shown(ch)
<1>1. Shown(ch) = IF o = Nil \/ Ending(ch) THEN Unasked
                  ELSE [on |-> TRUE, global |-> obj[o].global, tickers |-> Holding(o)]
  BY DEF Shown
<1>2. Shown(ch)' = IF o = Nil \/ Ending(ch)' THEN Unasked
                   ELSE [on |-> TRUE, global |-> obj'[o].global, tickers |-> Holding(o)']
  BY DEF Shown, Unasked
<1> QED BY <1>1, <1>2

LEMMA AllStays ==
    ASSUME AskedShown, AskedShown', \A ch \in Channels : Shown(ch)' = Shown(ch)
    PROVE  Asked' = Asked
  BY DEF AskedShown

\* A step in which the channels keep what they hold.
LEMMA Unseen ==
    ASSUME AskedShown, AskedShown', CallersGoOn, UNCHANGED channels,
           \A ch \in Channels : \A o : channels[ch] = o /\ o # Nil /\ ~Ending(ch) =>
             obj'[o].global = obj[o].global /\ Holding(o)' = Holding(o)
    PROVE  UNCHANGED <<Asked, Requested>>
<1>1. ASSUME NEW ch \in Channels PROVE Shown(ch)' = Shown(ch)
  <2>1. PICK o : o = channels[ch]
    OBVIOUS
  <2> QED BY <2>1, ShownStays, RequestsStay
<1> QED BY <1>1, AllStays, RequestsStay

\* What the state of a channel holds stays when its parts do.
LEMMA HoldingStays ==
    ASSUME NEW o, CallersGoOn, Stock(o)' = Stock(o), obj'[o].pending = obj[o].pending,
           FlushFor(o)' = FlushFor(o)
    PROVE  Holding(o)' = Holding(o)
  BY RequestsStay DEF Holding

LEMMA StockStays ==
    ASSUME NEW o, obj'[o].sid = obj[o].sid, obj'[o].markets = obj[o].markets \/ obj[o].sid # NoSID,
           NEW s, s = obj[o].sid, s # NoSID => subs'[1][s].tickers = subs[1][s].tickers
    PROVE  Stock(o)' = Stock(o)
  BY DEF Stock

-----------------------------------------------------------------------------
(* Steps that send and read nothing.                                       *)

LEMMA IdlesUnseen ==
    ASSUME Footing, AskedShown, AskedShown', Idles, UNCHANGED call,
           \A s \in DOMAIN subs[1] : SubKept(s)
    PROVE  UNCHANGED <<Asked, Requested>>
<1>1. CallersGoOn
  BY ReaderIsNoCaller DEF Idles, CallersGoOn
<1>2. ASSUME NEW ch \in Channels, NEW o, channels[ch] = o, o # Nil, ~Ending(ch)
      PROVE  obj'[o].global = obj[o].global /\ Holding(o)' = Holding(o)
  <2>1. PICK s : s = obj[o].sid
    OBVIOUS
  <2>2. s # NoSID => s \in DOMAIN subs[1]
    BY <1>2, <2>1, KeptLives DEF Footing, Standing
  <2>3. obj' = obj /\ flushing' = flushing
    BY DEF Idles, stateVars
  <2>4. Stock(o)' = Stock(o)
    BY <2>1, <2>2, <2>3, StockStays DEF SubKept
  <2>5. FlushFor(o)' = FlushFor(o)
    <3>1. flushing = o => pc[Reader] \in Sending
      BY <1>2 DEF Footing, Base, Commands
    <3>2. flushing = o => out'[Reader] = out[Reader]
      BY <3>1, ReaderIsNoCaller DEF Idles
    <3> QED BY <2>3, <3>2 DEF FlushFor
  <2> QED BY <1>1, <2>3, <2>4, <2>5, HoldingStays
<1> QED BY <1>1, <1>2, Unseen DEF Idles, stateVars

-----------------------------------------------------------------------------
(* Sending.                                                                *)

\* The sender of tickers for subscription s is a caller in AddMarkets, or the flush, for
\* the state that has the sid.
LEMMA SentForIt ==
    ASSUME Footing, NEW p \in Procs, pc[p] \in Sending, out[p].kind = "add",
           NEW ch \in Channels, NEW o, NEW s, Standing(ch, o, s), out[p].sid = s
    PROVE  out[p].tickers \subseteq SentFor(o) \cup FlushFor(o)
<1>0. Base /\ CommandFine(p)
  BY DEF Footing, Base, Commands
<1>1. CASE p = Reader
  <2>1. sidMap[s] \in {flushing, Nil} /\ sidMap[s] = o /\ o # Nil
    BY <1>0, <1>1, Types DEF Footing, Noted, Standing, Base
  <2> QED BY <1>1, <2>1 DEF FlushFor
<1>2. CASE p # Reader
  <2>1. p \in Callers /\ CallerSends(p)
    BY <1>0, <1>2 DEF CommandFine, Procs
  <2>2. PICK c, u : c = Ch(p) /\ u = call[p].state
    OBVIOUS
  <2>3. call[p].op = "add" /\ u \in Objs /\ channels[c] = u /\ s = obj[u].sid
    BY <2>1, <2>2 DEF CallerSends
  <2>4. c \in Channels
    BY <1>0, <2>1, <2>2, <2>3, CallFacts DEF Base
  <2>5. ~Ending(c)
    BY <1>0, <2>1, <2>3 DEF Base, OneCaller, Ending
  <2>6. u # Nil /\ s # NoSID
    BY <1>0, <2>3, Types DEF Base, Standing
  <2>7. Standing(c, u, s)
    BY <1>0, <2>3, <2>4, <2>5, <2>6, KeptLives
  <2>8. u = o
    BY <2>7 DEF Standing
  <2> QED BY <2>1, <2>2, <2>3, <2>8 DEF SentFor
<1> QED BY <1>1, <1>2

\* A send that goes on, or is delivered, shows nothing new.
LEMMA PushUnseen ==
    ASSUME Footing, AskedShown, AskedShown', NEW p \in Procs, NEW l \in {"grab", "write", "finish"},
           Pushes(p, l),
           \A s \in DOMAIN subs[1] :
             \/ subs'[1][s].tickers = subs[1][s].tickers
             \/ /\ out[p].kind = "add" /\ out[p].sid = s
                /\ subs'[1][s].tickers = subs[1][s].tickers \cup out[p].tickers
    PROVE  UNCHANGED <<Asked, Requested>>
<1>1. /\ pc[p] \in Sending /\ pc'[p] \in Sending
      /\ \A q \in Procs : q # p => pc'[q] = pc[q] /\ out'[q] = out[q]
      /\ out'[p].tickers = out[p].tickers
      /\ UNCHANGED <<call, channels, obj, flushing>>
  BY DEF Pushes, Upward, Sending, stateVars
<1>2. CallersGoOn
  BY <1>1, ReaderIsNoCaller DEF CallersGoOn
<1>3. ASSUME NEW ch \in Channels, NEW o, channels[ch] = o, o # Nil, ~Ending(ch)
      PROVE  obj'[o].global = obj[o].global /\ Holding(o)' = Holding(o)
  <2>1. PICK s : s = obj[o].sid
    OBVIOUS
  <2>2. SentFor(o)' = SentFor(o)
    BY <1>2, RequestsStay
  <2>3. FlushFor(o)' = FlushFor(o)
    BY <1>1, ReaderIsNoCaller DEF FlushFor
  <2>4. Stock(o)' = Stock(o) \/ (Stock(o)' = Stock(o) \cup out[p].tickers
                                 /\ out[p].tickers \subseteq SentFor(o) \cup FlushFor(o))
    <3>1. CASE s = NoSID
      BY <1>1, <2>1, <3>1 DEF Stock
    <3>2. CASE s # NoSID
      <4>1. Standing(ch, o, s)
        BY <1>3, <2>1, <3>2, KeptLives DEF Footing
      <4>2. Stock(o) = subs[1][s].tickers /\ Stock(o)' = subs'[1][s].tickers
        BY <1>1, <2>1, <3>2 DEF Stock
      <4>3. s \in DOMAIN subs[1]
        BY <4>1 DEF Standing
      <4>4. out[p].kind = "add" /\ out[p].sid = s => out[p].tickers \subseteq SentFor(o) \cup FlushFor(o)
        BY <1>1, <4>1, SentForIt
      <4> QED BY <4>2, <4>3, <4>4
    <3> QED BY <3>1, <3>2
  <2> QED BY <1>1, <2>2, <2>3, <2>4 DEF Holding
<1> QED BY <1>1, <1>2, <1>3, Unseen

LEMMA SendUnseen ==
    ASSUME Footing, AskedShown, AskedShown', ~MayReject, ~MayTimeout, NEW p \in Procs, SendStep(p)
    PROVE  UNCHANGED <<Asked, Requested>>
<1>0. Base
  BY DEF Footing
<1>1. PICK l \in {"grab", "write", "finish"} : Pushes(p, l)
  BY <1>0, SendPushes
<1>2. CASE Register(p) \/ GrabConn(p)
  <2>1. UNCHANGED subs
    BY <1>2 DEF Register, GrabConn, serverVars
  <2> QED BY <1>1, <2>1, PushUnseen
<1>3. CASE WriteDelivered(p)
  <2>1. Delivers(p)
    BY <1>0, <1>3, DeliveredDelivers
  <2>2. ASSUME NEW s \in DOMAIN subs[1]
        PROVE  \/ subs'[1][s].tickers = subs[1][s].tickers
               \/ /\ out[p].kind = "add" /\ out[p].sid = s
                  /\ subs'[1][s].tickers = subs[1][s].tickers \cup out[p].tickers
    <3>1. CASE out[p].kind = "subscribe"
      <4>1. PICK t : Starts(t, out[p].id, out[p].global, out[p].tickers)
        BY <1>0, <2>1, <3>1, SubscribeStarts
      <4> QED BY <4>1 DEF Starts
    <3>2. CASE out[p].kind # "subscribe"
      <4>1. out[p].sid \in DOMAIN subs[1] /\ (Word(p) \/ Update(p) \/ Farewell(p))
        BY <1>0, <2>1, <3>2, AboutCases
      <4>2. Word(p) => subs'[1][s].tickers = subs[1][s].tickers
        BY DEF Word, Chatter
      <4>3. Farewell(p) => subs'[1][s].tickers = subs[1][s].tickers
        BY DEF Farewell, Spoken
      <4>4. Update(p) =>
              \/ subs'[1][s].tickers = subs[1][s].tickers
              \/ /\ out[p].kind = "add" /\ out[p].sid = s
                 /\ subs'[1][s].tickers = subs[1][s].tickers \cup out[p].tickers
        BY DEF Update, Spoken
      <4> QED BY <4>1, <4>2, <4>3, <4>4
    <3> QED BY <3>1, <3>2
  <2> QED BY <1>1, <2>2, PushUnseen
<1> QED BY <1>0, <1>2, <1>3, WritesDeliver

-----------------------------------------------------------------------------
(* Reading.                                                                *)

\* A message that gives no sid: what is said and noted of tickers is nothing new.
LEMMA ReadUnseen ==
    ASSUME Footing, AskedShown, AskedShown', CallersWait, UNCHANGED <<subs, channels, flushing>>,
           flushing = Nil,
           \A o \in Objs : /\ obj'[o].sid = obj[o].sid /\ obj'[o].pending = obj[o].pending
                           /\ obj'[o].global = obj[o].global
                           /\ obj'[o].markets = obj[o].markets \/ obj[o].sid # NoSID
    PROVE  UNCHANGED <<Asked, Requested>>
<1>1. CallersGoOn
  BY DEF CallersWait, CallersGoOn
<1>2. ASSUME NEW ch \in Channels, NEW o, channels[ch] = o, o # Nil, ~Ending(ch)
      PROVE  obj'[o].global = obj[o].global /\ Holding(o)' = Holding(o)
  <2>1. o \in Objs
    BY <1>2, BaseFacts DEF Footing
  <2>2. Stock(o)' = Stock(o)
    BY <2>1, StockStays
  <2>3. FlushFor(o)' = FlushFor(o)
    BY <1>2 DEF FlushFor
  <2> QED BY <1>1, <2>1, <2>2, <2>3, HoldingStays
<1> QED BY <1>1, <1>2, Unseen

\* The handlers that give no sid.
LEMMA ElseUnseen ==
    ASSUME Footing, AskedShown, AskedShown',
           HandleUnknownId \/ HandleUnsubscribed \/ HandleError \/ HandleDataMessage \/ HandleOK
    PROVE  UNCHANGED <<Asked, Requested>>
<1>0. Base /\ obj \in [Objs -> ChannelState] /\ sidMap \in [Sids -> Objs \cup {Nil}] /\ Nil \notin Objs
  BY Types DEF Footing, Base
<1>1. PICK type \in MessageTypes, l \in {"check", "deliver"} :
        /\ Incoming(type) /\ Goto(l) /\ UNCHANGED <<out, channels, flushing>>
        /\ \/ UNCHANGED obj
           \/ obj' = [obj EXCEPT ![StateOf(M.sid)].seq = M.seq]
           \/ StateOf(M.sid) # Nil /\ obj' = [obj EXCEPT ![StateOf(M.sid)] = Reconciled(StateOf(M.sid))]
  <2>1. CASE HandleUnknownId
    BY <2>1 DEF HandleUnknownId, Handled, stateVars, MessageTypes
  <2>2. CASE HandleUnsubscribed
    BY <2>2 DEF HandleUnsubscribed, Handled, MessageTypes
  <2>3. CASE HandleError
    BY <2>3 DEF HandleError, Handled, stateVars, MessageTypes
  <2>4. CASE HandleDataMessage
    BY <2>4 DEF HandleDataMessage, Handled, MessageTypes
  <2>5. CASE HandleOK
    BY <2>5 DEF HandleOK, Handled, MessageTypes
  <2> QED BY <2>1, <2>2, <2>3, <2>4, <2>5
<1>2. Reads(type) /\ CallersWait
  BY <1>0, <1>1, IncomingReads, HandledWaits
<1>3. PICK to, sid : to = StateOf(M.sid) /\ sid = M.sid
  OBVIOUS
<1>4. to # Nil => to \in Objs /\ obj[to].sid # NoSID
  BY <1>0, <1>3 DEF StateOf, Base, Named, SidsMatch, Sids, NoSID
<1>5. ASSUME NEW o \in Objs
      PROVE  /\ obj'[o].sid = obj[o].sid /\ obj'[o].pending = obj[o].pending
             /\ obj'[o].global = obj[o].global
             /\ obj'[o].markets = obj[o].markets \/ obj[o].sid # NoSID
  <2>1. obj[o] \in ChannelState
    BY <1>0
  <2>2. \/ obj'[o] = obj[o]
        \/ obj'[o] = [obj[o] EXCEPT !.seq = M.seq]
        \/ o = to /\ to # Nil /\ obj'[o] = Reconciled(o)
    <3>1. \/ UNCHANGED obj
          \/ obj' = [obj EXCEPT ![to].seq = M.seq]
          \/ to # Nil /\ obj' = [obj EXCEPT ![to] = Reconciled(to)]
      BY <1>1, <1>3
    <3> QED BY <1>0, <3>1
  <2>3. CASE obj'[o] = obj[o] \/ obj'[o] = [obj[o] EXCEPT !.seq = M.seq]
    BY <2>1, <2>3 DEF ChannelState
  <2>4. CASE o = to /\ to # Nil /\ obj'[o] = Reconciled(o)
    BY <1>4, <2>1, <2>4 DEF Reconciled, ChannelState
  <2> QED BY <2>2, <2>3, <2>4
<1> QED BY <1>1, <1>2, <1>5, ReadUnseen DEF Reads

\* A sid comes: the markets that the service was asked for are those it sends, and what
\* was queued is flushed.
LEMMA SubscribedUnseen ==
    ASSUME Footing, AskedShown, AskedShown', HandleSubscribed
    PROVE  UNCHANGED <<Asked, Requested>>
<1>0. Base
  BY DEF Footing
<1>1. PICK e, ch, o, sid, queued : Gets(e, ch, o, sid, queued)
  BY <1>0, SubscribedGets
<1>2. CallersGoOn /\ UNCHANGED <<channels, subs>> /\ flushing = Nil
  BY <1>1 DEF Gets, CallersWait, CallersGoOn, Reads
<1>3. o \in Objs /\ o # Nil /\ channels[ch] = o /\ ch \in Channels
  BY <1>1 DEF Gets
<1>4. ASSUME NEW c \in Channels, NEW x, channels[c] = x, x # Nil, ~Ending(c)
      PROVE  obj'[x].global = obj[x].global /\ Holding(x)' = Holding(x)
  <2>1. x \in Objs
    BY <1>0, <1>4, BaseFacts
  <2>2. CASE x # o
    <3>1. obj'[x] = obj[x]
      BY <1>1, <2>1, <2>2 DEF Gets
    <3>2. FlushFor(x) = {} /\ FlushFor(x)' = {}
      <4>1. flushing' = flushing \/ flushing' = o
        BY <1>1 DEF Gets
      <4> QED BY <1>2, <1>4, <2>2, <4>1 DEF FlushFor
    <3>3. Stock(x)' = Stock(x)
      BY <1>2, <3>1, StockStays
    <3> QED BY <1>2, <3>1, <3>2, <3>3, HoldingStays
  <2>3. CASE x = o
    <3>1. obj[o].markets \cup Paying(o) = subs[1][sid].tickers
      BY <1>1 DEF Gets, Agrees, Owed
    <3>2. Stock(o) = obj[o].markets /\ Stock(o)' = subs[1][sid].tickers
      BY <1>1, <1>2 DEF Gets, Stock
    <3>3. SentFor(o)' = SentFor(o)
      BY <1>2, RequestsStay
    <3>4. FlushFor(o) = {}
      BY <1>2, <1>3 DEF FlushFor
    <3>5. FlushFor(o)' = obj[o].pending
      BY <1>1, <1>2, <1>3 DEF Gets, FlushFor
    <3>6. obj'[o].pending = {} /\ obj'[o].global = obj[o].global
      BY <1>1 DEF Gets
    <3> QED BY <2>3, <3>1, <3>2, <3>3, <3>4, <3>5, <3>6, PayingSent DEF Holding
  <2> QED BY <2>2, <2>3
<1> QED BY <1>2, <1>4, Unseen

\* After a flush the service has what was flushed.
LEMMA FlushUnseen ==
    ASSUME Footing, AskedShown, AskedShown', FlushSent
    PROVE  UNCHANGED <<Asked, Requested>>
<1>0. Base /\ Noted
  BY DEF Footing
<1>1. PICK f, s, cmd :
        /\ f = flushing /\ s = out[Reader].sid
        /\ cmd = Command("add", out[Reader].ch, out[Reader].sid, obj[flushing].pending, FALSE)
  OBVIOUS
<1>2. /\ pc[Reader] = "finish" /\ UNCHANGED <<channels, call, subs>>
      /\ \/ /\ obj[f].pending # {} /\ obj' = [obj EXCEPT ![f].pending = {}]
            /\ flushing' = f /\ \E l : pc' = [pc EXCEPT ![Reader] = l]
            /\ \E c : out' = [out EXCEPT ![Reader] = c]
         \/ /\ obj' = obj /\ flushing' = Nil
            /\ \E l : pc' = [pc EXCEPT ![Reader] = l]
            /\ \E c : out' = [out EXCEPT ![Reader] = c]
  BY <1>1 DEF FlushSent, At, Goto, SendStart, serverVars
<1>3. ReaderSends /\ f # Nil /\ s = obj[f].sid /\ s # NoSID
  BY <1>0, <1>1, <1>2, ReaderIsNoCaller DEF Base, Commands, CommandFine, ReaderSends, Sending
<1>4. CallersGoOn
  BY <1>0, <1>2, Types, ReaderIsNoCaller DEF Base, CallersGoOn
<1>5. ASSUME NEW ch \in Channels, NEW o, channels[ch] = o, o # Nil, ~Ending(ch)
      PROVE  obj'[o].global = obj[o].global /\ Holding(o)' = Holding(o)
  <2>1. o \in Objs /\ obj \in [Objs -> ChannelState]
    BY <1>0, <1>5, BaseFacts, Types DEF Base
  <2>2. CASE o # f
    <3>1. obj'[o] = obj[o] /\ FlushFor(o) = {} /\ FlushFor(o)' = {}
      BY <1>1, <1>2, <1>5, <2>1, <2>2 DEF FlushFor
    <3>2. Stock(o)' = Stock(o)
      BY <1>2, <3>1, StockStays
    <3> QED BY <1>4, <3>1, <3>2, HoldingStays
  <2>3. CASE o = f
    <3>1. Standing(ch, o, s)
      BY <1>0, <1>3, <1>5, <2>3, KeptLives
    <3>2. obj[f].pending = {} /\ subs[1][s].live
      BY <2>3, <3>1 DEF Standing
    <3>3. obj' = obj /\ flushing' = Nil
      BY <1>2, <3>2
    <3>4. FlushFor(o) \subseteq subs[1][s].tickers /\ FlushFor(o)' = {}
      BY <1>0, <1>1, <1>2, <1>5, <3>2, <3>3 DEF Noted, FlushFor, Sending
    <3>5. Stock(o) = subs[1][s].tickers /\ Stock(o)' = Stock(o)
      BY <1>2, <1>3, <2>3, <3>3 DEF Stock
    <3>6. SentFor(o)' = SentFor(o)
      BY <1>4, RequestsStay
    <3> QED BY <3>3, <3>4, <3>5, <3>6 DEF Holding
  <2> QED BY <2>2, <2>3
<1> QED BY <1>2, <1>4, <1>5, Unseen

-----------------------------------------------------------------------------
(* The methods.                                                            *)

\* Whose sends and endings there are, with one caller; another channel than the call's
\* has none.
Apart ==
    \A p \in Callers :
        /\ \A c : Ending(c) <=> call[p].op = "unsubscribe" /\ pc[p] \in Sending /\ Ch(p) = c
        /\ \A o : SentFor(o) = IF call[p].op = "add" /\ call[p].state = o /\ pc[p] \in Sending
                               THEN out[p].tickers ELSE {}
        /\ \A c \in Channels : channels[c] # Nil /\ c # Ch(p) =>
             ~Ending(c) /\ SentFor(channels[c]) = {}

Clear == AskedShown /\ Apart

LEMMA ApartHolds == ASSUME Footing PROVE Apart
<1> SUFFICES ASSUME NEW p \in Callers
             PROVE  /\ \A c : Ending(c) <=> call[p].op = "unsubscribe" /\ pc[p] \in Sending /\ Ch(p) = c
                    /\ \A o : SentFor(o) = IF call[p].op = "add" /\ call[p].state = o /\ pc[p] \in Sending
                                           THEN out[p].tickers ELSE {}
                    /\ \A c \in Channels : channels[c] # Nil /\ c # Ch(p) =>
                         ~Ending(c) /\ SentFor(channels[c]) = {}
  BY DEF Apart
<1>0. Base /\ \A q \in Callers : q = p
  BY DEF Footing, Base, OneCaller
<1>1. ASSUME NEW c PROVE Ending(c) <=> call[p].op = "unsubscribe" /\ pc[p] \in Sending /\ Ch(p) = c
  BY <1>0 DEF Ending, InTheMaking, Sending
<1>2. ASSUME NEW o
      PROVE  SentFor(o) = IF call[p].op = "add" /\ call[p].state = o /\ pc[p] \in Sending
                          THEN out[p].tickers ELSE {}
  <2> DEFINE S == {q \in Callers : call[q].op = "add" /\ call[q].state = o /\ pc[q] \in Sending}
  <2>1. S = IF call[p].op = "add" /\ call[p].state = o /\ pc[p] \in Sending THEN {p} ELSE {}
    BY <1>0
  <2>2. SentFor(o) = UNION {out[q].tickers : q \in S}
    BY DEF SentFor
  <2> HIDE DEF S
  <2> QED BY <2>1, <2>2
<1>3. ASSUME NEW c \in Channels, channels[c] # Nil, c # Ch(p)
      PROVE  ~Ending(c) /\ SentFor(channels[c]) = {}
  <2>1. PICK o, d : o = channels[c] /\ d = Ch(p)
    OBVIOUS
  <2>2. ~(call[p].op = "add" /\ call[p].state = o /\ pc[p] \in Sending)
    <3> SUFFICES ASSUME call[p].op = "add", call[p].state = o, pc[p] \in Sending PROVE FALSE
      OBVIOUS
    <3>1. CallerSends(p)
      BY <1>0, ReaderIsNoCaller DEF Base, Commands, CommandFine
    <3>2. o \in Objs /\ channels[d] = o
      BY <2>1, <3>1 DEF CallerSends
    <3>3. d \in Channels
      BY <1>0, <2>1, CallFacts DEF Base
    <3> QED BY <1>0, <1>3, <2>1, <3>2, <3>3, BaseFacts
  <2>3. SentFor(o) = {}
    BY <1>2, <2>2
  <2> QED BY <1>1, <1>3, <2>1, <2>3
<1> QED BY <1>1, <1>2, <1>3

\* What the call of p is, as a request.
LEMMA RequestIs ==
    ASSUME NEW p \in Callers
    PROVE  /\ Requested[p].op = call[p].op /\ Requested[p].chs = call[p].chs
           /\ Requested[p].tickers = call[p].tickers /\ Requested[p].global = call[p].global
           /\ Requested[p].served = (pc[p] \in Sending)
           /\ Promised!First(p) = Ch(p)
  BY DEF Requested, InTheMaking, Sending, Promised!First, Ch

\* A request that has taken effect, or goes to its next channel.
LEMMA RequestFields ==
    ASSUME NEW p \in Callers, NEW r, r = Requested[p], NEW c, c = call[p]
    PROVE  /\ [r EXCEPT !.served = TRUE] =
                [op |-> c.op, chs |-> c.chs, tickers |-> c.tickers, global |-> c.global,
                 served |-> TRUE]
           /\ [r EXCEPT !.chs = Tail(@), !.served = FALSE] =
                [op |-> c.op, chs |-> Tail(c.chs), tickers |-> c.tickers, global |-> c.global,
                 served |-> FALSE]
<1> DEFINE D == {"op", "chs", "tickers", "global", "served"}
<1> DEFINE e == [r EXCEPT !.served = TRUE]
           g == [op |-> c.op, chs |-> c.chs, tickers |-> c.tickers, global |-> c.global,
                 served |-> TRUE]
           u == [r EXCEPT !.chs = Tail(@), !.served = FALSE]
           v == [op |-> c.op, chs |-> Tail(c.chs), tickers |-> c.tickers, global |-> c.global,
                 served |-> FALSE]
<1>0. r.op = c.op /\ r.chs = c.chs /\ r.tickers = c.tickers /\ r.global = c.global
  BY RequestIs
<1>1. DOMAIN r = D
  BY DEF Requested
<1>2. DOMAIN e = D /\ e = [f \in D |-> e[f]]
  BY <1>1
<1>3. DOMAIN g = D /\ g = [f \in D |-> g[f]]
  OBVIOUS
<1>4. DOMAIN u = D /\ u = [f \in D |-> u[f]]
  BY <1>1
<1>5. DOMAIN v = D /\ v = [f \in D |-> v[f]]
  OBVIOUS
<1>6. ASSUME NEW f \in D PROVE e[f] = g[f]
  <2>1. CASE f = "served"
    <3>1. e[f] = TRUE
      BY <1>1, <2>1
    <3>2. g[f] = TRUE
      BY <2>1
    <3> QED BY <3>1, <3>2
  <2>2. CASE f # "served"
    <3>1. e[f] = r[f]
      BY <1>1, <2>2
    <3>2. g[f] = r[f]
      BY <1>0, <2>2
    <3> QED BY <3>1, <3>2
  <2> QED BY <2>1, <2>2
<1>7. ASSUME NEW f \in D PROVE u[f] = v[f]
  <2>1. CASE f = "served"
    <3>1. u[f] = FALSE
      BY <1>1, <2>1
    <3>2. v[f] = FALSE
      BY <2>1
    <3> QED BY <3>1, <3>2
  <2>2. CASE f = "chs"
    <3>1. u[f] = Tail(c.chs)
      BY <1>0, <1>1, <2>2
    <3>2. v[f] = Tail(c.chs)
      BY <2>2
    <3> QED BY <3>1, <3>2
  <2>3. CASE f \notin {"served", "chs"}
    <3>1. u[f] = r[f]
      BY <1>1, <2>3
    <3>2. v[f] = r[f]
      BY <1>0, <2>3
    <3> QED BY <3>1, <3>2
  <2> QED BY <2>1, <2>2, <2>3
<1> HIDE DEF D, e, g, u, v
<1>8. e = g
  BY <1>2, <1>3, <1>6
<1>9. u = v
  BY <1>4, <1>5, <1>7
<1> QED BY <1>8, <1>9 DEF e, g, u, v

\* The only request is the caller's.
LEMMA OneRequest ==
    ASSUME OneCaller, NEW p \in Callers, NEW r, Requested'[p] = r
    PROVE  Requested' = [Requested EXCEPT ![p] = r]
<1>1. \A q \in Callers : q = p
  BY DEF OneCaller
<1>2. /\ Requested' = [q \in Callers |-> Requested'[q]]
      /\ DOMAIN Requested = Callers
  BY DEF Requested
<1> QED BY <1>1, <1>2

\* What it is after a step.
LEMMA RequestNext ==
    ASSUME NEW p \in Callers, NEW c, c = call'[p], NEW served \in BOOLEAN, pc'[p] \in Sending <=> served
    PROVE  Requested'[p] = [op |-> c.op, chs |-> c.chs, tickers |-> c.tickers,
                            global |-> c.global, served |-> served]
<1>1. (pc'[p] \in Sending) = served
  OBVIOUS
<1>2. Requested'[p] = [op |-> c.op, chs |-> c.chs, tickers |-> c.tickers,
                       global |-> c.global, served |-> pc'[p] \in Sending]
  BY DEF Requested, InTheMaking, Sending
<1> QED BY <1>1, <1>2, Zenon

\* What it is before the call begins.
LEMMA RequestNone ==
    ASSUME NEW p \in Callers, call[p] = NoCall, pc[p] = "idle"
    PROVE  Requested[p] = Promised!NoRequest
<1>1. PICK c : c = NoCall
  OBVIOUS
<1>7. PICK served \in BOOLEAN : served <=> FALSE
  OBVIOUS
<1>2. (pc[p] \in Sending) = served
  BY <1>7 DEF Sending
<1>3. Requested[p] = [op |-> c.op, chs |-> c.chs, tickers |-> c.tickers,
                      global |-> c.global, served |-> pc[p] \in Sending]
  BY <1>1 DEF Requested, InTheMaking, Sending
<1>4. Requested[p] = [op |-> c.op, chs |-> c.chs, tickers |-> c.tickers,
                      global |-> c.global, served |-> served]
  BY <1>2, <1>3, Zenon
<1>5. served = FALSE
  BY <1>7
<1>6. Requested[p] = [op |-> NoCall.op, chs |-> NoCall.chs, tickers |-> NoCall.tickers,
                      global |-> NoCall.global, served |-> FALSE]
  BY <1>1, <1>4, <1>5, Zenon
<1> QED BY <1>6 DEF NoCall, Promised!NoRequest

LEMMA Ended ==
    ASSUME Base, NEW p \in Callers, Return(p)
    PROVE  Requested' = [Requested EXCEPT ![p] = Promised!NoRequest]
<1>1. pc'[p] = "idle" /\ call'[p] = NoCall
  BY Types, ReaderIsNoCaller DEF Base, Return
<1>2. pc'[p] \in Sending <=> FALSE
  BY <1>1 DEF Sending
<1>3. Requested'[p] = [op |-> NoCall.op, chs |-> NoCall.chs, tickers |-> NoCall.tickers,
                       global |-> NoCall.global, served |-> FALSE]
  BY <1>1, <1>2, RequestNext
<1>4. Requested'[p] = Promised!NoRequest
  BY <1>3 DEF NoCall, Promised!NoRequest
<1> QED BY <1>4, OneRequest DEF Base

\* What is left of a call when it goes on.
LEMMA Advanced ==
    ASSUME Base, NEW p \in Callers, Continue(p)
    PROVE  Requested' = [Requested EXCEPT ![p] = Promised!Rest(@)]
<1>1. CASE Len(call[p].chs) = 1
  BY <1>1, Ended, RequestIs DEF Continue, Promised!Rest
<1>2. CASE Len(call[p].chs) # 1
  <2>1. /\ pc'[p] = "section" /\ call[p] \in CallRecord
        /\ call' = [call EXCEPT ![p].chs = Tail(@), ![p].state = Nil, ![p].created = FALSE]
    BY <1>2, Types, ReaderIsNoCaller DEF Base, Continue
  <2>2. /\ call'[p].op = call[p].op /\ call'[p].tickers = call[p].tickers
        /\ call'[p].global = call[p].global /\ call'[p].chs = Tail(call[p].chs)
    BY <2>1, Types DEF Base, CallRecord
  <2>3. PICK r : r = Requested[p]
    OBVIOUS
  <2>4. PICK c, d : c = call[p] /\ d = call'[p]
    OBVIOUS
  <2>5. d.op = c.op /\ d.tickers = c.tickers /\ d.global = c.global /\ d.chs = Tail(c.chs)
    BY <2>2, <2>4
  <2>6. [r EXCEPT !.chs = Tail(@), !.served = FALSE] =
          [op |-> c.op, chs |-> Tail(c.chs), tickers |-> c.tickers, global |-> c.global,
           served |-> FALSE]
    BY <2>3, <2>4, RequestFields
  <2>7. Requested'[p] = [op |-> d.op, chs |-> d.chs, tickers |-> d.tickers, global |-> d.global,
                         served |-> FALSE]
    <3>1. pc'[p] \in Sending <=> FALSE
      BY <2>1 DEF Sending
    <3> QED BY <2>4, <3>1, RequestNext
  <2>8. Len(r.chs) # 1
    BY <1>2, <2>3, RequestIs
  <2>9. Requested'[p] = Promised!Rest(Requested[p])
    BY <2>3, <2>5, <2>6, <2>7, <2>8 DEF Promised!Rest
  <2> QED BY <2>9, OneRequest DEF Base
<1> QED BY <1>1, <1>2

\* A call that begins to send is served.
LEMMA CallSends ==
    ASSUME Base, NEW p \in Callers, Methods(p), pc'[p] = "register"
    PROVE  /\ call'[p].op = call[p].op /\ Ch(p)' = Ch(p)
           /\ Requested' = [Requested EXCEPT ![p].served = TRUE]
<1>1. Ends(p)
  BY MethodsEnd DEF Methods
<1>2. \/ UNCHANGED call
      \/ \E o, created : call' = [call EXCEPT ![p].state = o, ![p].created = created]
  BY <1>1, EndsThere DEF Ends
<1>3. /\ call'[p].op = call[p].op /\ call'[p].tickers = call[p].tickers
      /\ call'[p].global = call[p].global /\ call'[p].chs = call[p].chs
  <2>1. call \in [Callers -> CallRecord]
    BY Types DEF Base
  <2>2. CASE UNCHANGED call
    BY <2>2
  <2>3. ASSUME NEW o, NEW created, call' = [call EXCEPT ![p].state = o, ![p].created = created]
        PROVE  /\ call'[p].op = call[p].op /\ call'[p].tickers = call[p].tickers
               /\ call'[p].global = call[p].global /\ call'[p].chs = call[p].chs
    BY <2>1, <2>3 DEF CallRecord
  <2> QED BY <1>2, <2>2, <2>3
<1>4. PICK r, c, d : r = Requested[p] /\ c = call[p] /\ d = call'[p]
  OBVIOUS
<1>5. [r EXCEPT !.served = TRUE] =
        [op |-> c.op, chs |-> c.chs, tickers |-> c.tickers, global |-> c.global, served |-> TRUE]
  BY <1>4, RequestFields
<1>6. Requested'[p] = [op |-> d.op, chs |-> d.chs, tickers |-> d.tickers, global |-> d.global,
                       served |-> TRUE]
  <2>1. pc'[p] \in Sending <=> TRUE
    BY DEF Sending
  <2> QED BY <1>4, <2>1, RequestNext
<1>7. Requested'[p] = [r EXCEPT !.served = TRUE]
  BY <1>3, <1>4, <1>5, <1>6
<1>8. Requested' = [Requested EXCEPT ![p] = [Requested[p] EXCEPT !.served = TRUE]]
  BY <1>4, <1>7, OneRequest DEF Base
<1>9. Ch(p)' = Head(call'[p].chs)
  BY DEF Ch
<1> QED BY <1>3, <1>8, <1>9 DEF Ch

\* What is asked for on a channel that is subscribed.
Placed(global, tickers) == [on |-> TRUE, global |-> global, tickers |-> tickers]

\* A subscription to some markets only.
Individual == FALSE

\* What the calls make of what is asked for.
LEMMA SubscribeEffect ==
    ASSUME NEW p \in Callers, call[p].op = "subscribe",
           NEW r, r = Requested[p], NEW a, a = Unasked,
           NEW tickers, tickers = call[p].tickers, NEW global, global = call[p].global
    PROVE  Promised!Effect(r, a) = Placed(global, tickers)
<1>1. r.op = "subscribe" /\ r.tickers = tickers /\ r.global = global
  BY RequestIs
<1>2. ~a.on
  BY DEF Unasked
<1> QED BY <1>1, <1>2 DEF Promised!Effect, Placed

LEMMA UnsubscribeEffect ==
    ASSUME NEW p \in Callers, call[p].op = "unsubscribe", NEW r, r = Requested[p], NEW a
    PROVE  Promised!Effect(r, a) = Unasked
<1>1. r.op = "unsubscribe"
  BY RequestIs
<1> QED BY <1>1 DEF Promised!Effect, Promised!Nothing, Unasked

LEMMA AddEffect ==
    ASSUME NEW p \in Callers, call[p].op = "add", NEW r, r = Requested[p], NEW a,
           NEW list, list = a.tickers \cup call[p].tickers, NEW off, off = Individual
    PROVE  Promised!Effect(r, a) = Placed(off, list)
<1>1. r.op = "add" /\ a.tickers \cup r.tickers = list
  BY RequestIs
<1> QED BY <1>1 DEF Promised!Effect, Placed, Individual

LEMMA SnapshotEffect ==
    ASSUME NEW p \in Callers, call[p].op = "snapshot", NEW r, r = Requested[p], NEW a
    PROVE  Promised!Effect(r, a) = a
<1>1. r.op = "snapshot"
  BY RequestIs
<1> QED BY <1>1 DEF Promised!Effect

\* A call that is in one of its critical sections before it sends, or after.
LEMMA CallBusy ==
    ASSUME Footing, NEW p \in Callers, Methods(p)
    PROVE  /\ Promised!Busy(p) /\ Ch(p) \in Channels
           /\ pc[p] = "section" => ~Requested[p].served
           /\ pc[p] = "finish" => Requested[p].served
<1>1. Base /\ pc[p] \in {"section", "finish"}
  BY MethodRoles DEF Footing
<1>2. call[p].op \in {"subscribe", "unsubscribe", "add", "snapshot"}
  BY <1>1 DEF Footing, CallsAt, Sending
<1>3. Requested[p] # Promised!NoRequest
  BY <1>2, RequestIs DEF Promised!NoRequest
<1>4. Ch(p) \in Channels
  BY <1>1, <1>2, CallFacts DEF Base
<1> QED BY <1>1, <1>3, <1>4, RequestIs DEF Promised!Busy, Sending

\* The steps of the methods, given what they make of what is asked for.
LEMMA Serves ==
    ASSUME Footing, NEW p \in Callers, Methods(p), pc[p] = "section", pc'[p] = "register",
           Asked' = [Asked EXCEPT ![Ch(p)] = Promised!Effect(Requested[p], Asked[Ch(p)])]
    PROVE  Promised!Serve(p)
<1>1. Promised!Busy(p) /\ ~Requested[p].served /\ Promised!First(p) = Ch(p)
  BY CallBusy, RequestIs
<1>2. Requested' = [Requested EXCEPT ![p].served = TRUE]
  BY CallSends DEF Footing
<1> QED BY <1>1, <1>2 DEF Promised!Serve, Promised!TakesEffect

LEMMA Goes ==
    ASSUME Footing, NEW p \in Callers, Methods(p), pc[p] = "section", Continue(p),
           Asked' = [Asked EXCEPT ![Ch(p)] = Promised!Effect(Requested[p], Asked[Ch(p)])]
    PROVE  Promised!GoOn(p)
<1>1. Promised!Busy(p) /\ ~Requested[p].served /\ Promised!First(p) = Ch(p)
  BY CallBusy, RequestIs
<1>2. Requested' = [Requested EXCEPT ![p] = Promised!Rest(@)]
  BY Advanced DEF Footing
<1> QED BY <1>1, <1>2 DEF Promised!GoOn, Promised!TakesEffect

LEMMA GoesServed ==
    ASSUME Footing, NEW p \in Callers, Methods(p), pc[p] = "finish", Continue(p), Asked' = Asked
    PROVE  Promised!GoOn(p)
<1>1. Promised!Busy(p) /\ Requested[p].served
  BY CallBusy
<1>2. Requested' = [Requested EXCEPT ![p] = Promised!Rest(@)]
  BY Advanced DEF Footing
<1> QED BY <1>1, <1>2 DEF Promised!GoOn

LEMMA Refuses ==
    ASSUME Footing, NEW p \in Callers, Methods(p), pc[p] = "section", Return(p),
           call[p].op = "subscribe", Asked[Ch(p)].on, Asked' = Asked
    PROVE  Promised!Refuse(p)
<1>1. ~Requested[p].served /\ Promised!First(p) = Ch(p) /\ Requested[p].op = "subscribe"
  BY CallBusy, RequestIs
<1>2. Requested' = [Requested EXCEPT ![p] = Promised!NoRequest]
  BY Ended DEF Footing
<1> QED BY <1>1, <1>2 DEF Promised!Refuse

-----------------------------------------------------------------------------
(* What each method makes of what is asked for.                            *)

\* The channels that a method leaves alone show what they did.
OthersStay(p) ==
    \A c \in Channels : c # Ch(p) =>
        /\ channels'[c] = channels[c]
        /\ channels[c] # Nil => obj'[channels[c]] = obj[channels[c]]

LEMMA OtherShows ==
    ASSUME Footing, Clear, Clear', NEW p \in Callers, Methods(p),
           NEW c \in Channels, NEW o, c # Ch(p), channels[c] = o, channels'[c] = o,
           o # Nil => obj'[o] = obj[o]
    PROVE  Shown(c)' = Shown(c)
<1>0. Base /\ Apart /\ Apart'
  BY DEF Footing, Clear
<1>1. CASE o = Nil
  BY <1>1 DEF Shown, Unasked
<1>2. CASE o # Nil
  <2>1. ~Ending(c) /\ SentFor(o) = {}
    BY <1>0, <1>2 DEF Apart
  <2>2. ~Ending(c)' /\ SentFor(o)' = {}
    <3>1. pc'[p] \in {"idle", "section", "register"}
      BY <1>0, MethodRoles
    <3>2. CASE pc'[p] = "register"
      <4>1. PICK d : d = Ch(p)
        OBVIOUS
      <4>2. Ch(p)' = d
        BY <1>0, <3>2, <4>1, CallSends
      <4>3. \A x \in Channels : channels'[x] # Nil /\ x # d =>
              ~Ending(x)' /\ SentFor(channels[x])' = {}
        BY <1>0, <4>2 DEF Apart
      <4> QED BY <1>2, <4>1, <4>3
    <3>3. CASE pc'[p] # "register"
      <4>1. pc'[p] \notin Sending
        BY <3>1, <3>3 DEF Sending
      <4> QED BY <1>0, <4>1 DEF Apart
    <3> QED BY <3>2, <3>3
  <2>3. Stock(o)' = Stock(o) /\ obj'[o].pending = obj[o].pending
    <3>1. UNCHANGED subs
      BY <1>0, MethodRoles
    <3> QED BY <1>2, <3>1, StockStays
  <2>4. FlushFor(o)' = FlushFor(o)
    <3>1. flushing' = flushing /\ out'[Reader] = out[Reader]
      BY <1>0, MethodRoles, ReaderIsNoCaller
    <3> QED BY <3>1 DEF FlushFor
  <2>5. Holding(o)' = Holding(o)
    BY <2>1, <2>2, <2>3, <2>4 DEF Holding
  <2> QED BY <1>2, <2>1, <2>2, <2>5, ShownStays
<1> QED BY <1>1, <1>2

\* So what is asked for changes on the call's channel only.
LEMMA AskedThere ==
    ASSUME Footing, Clear, Clear', NEW p \in Callers, Methods(p), OthersStay(p),
           NEW ch \in Channels, ch = Ch(p)
    PROVE  /\ Asked[ch] = Shown(ch)
           /\ Asked' = [Asked EXCEPT ![ch] = Shown(ch)']
<1>1. ASSUME NEW c \in Channels, c # ch PROVE Shown(c)' = Shown(c)
  <2>1. PICK o : o = channels[c]
    OBVIOUS
  <2>2. channels'[c] = o /\ (o # Nil => obj'[o] = obj[o])
    BY <1>1, <2>1 DEF OthersStay
  <2> QED BY <1>1, <2>1, <2>2, OtherShows
<1>2. Asked = [c \in Channels |-> Shown(c)] /\ Asked' = [c \in Channels |-> Shown(c)']
  BY DEF Clear, AskedShown
<1> QED BY <1>1, <1>2

\* What p has under way before a method's step and after it.
Acts(p) ==
    /\ pc[p] \in {"section", "finish"} /\ UNCHANGED <<subs, flushing>>
    /\ pc[p] = "section" => \A o : ~Ending(o) /\ SentFor(o) = {}
    /\ pc[p] = "finish" =>
         /\ \A c : Ending(c) <=> call[p].op = "unsubscribe" /\ Ch(p) = c
         /\ \A o : SentFor(o) = IF call[p].op = "add" /\ call[p].state = o THEN out[p].tickers ELSE {}
    /\ pc'[p] = "register" =>
         /\ \A c : Ending(c)' <=> call[p].op = "unsubscribe" /\ Ch(p) = c
         /\ \A o : SentFor(o)' = IF call[p].op = "add" /\ call'[p].state = o THEN out'[p].tickers ELSE {}
    /\ pc'[p] # "register" => \A o : ~Ending(o)' /\ SentFor(o)' = {}
    /\ \A o : FlushFor(o)' = FlushFor(o)

LEMMA MethodActs ==
    ASSUME Footing, Clear, Clear', NEW p \in Callers, Methods(p)
    PROVE  Acts(p)
<1>0. Base /\ Apart /\ Apart'
  BY DEF Footing, Clear
<1>1. /\ pc[p] \in {"section", "finish"} /\ pc'[p] \in {"idle", "section", "register"}
      /\ UNCHANGED <<subs, flushing>> /\ out'[Reader] = out[Reader]
  BY <1>0, MethodRoles, ReaderIsNoCaller
<1>2. pc[p] = "section" => \A o : ~Ending(o) /\ SentFor(o) = {}
  <2> SUFFICES ASSUME pc[p] = "section" PROVE \A o : ~Ending(o) /\ SentFor(o) = {}
    OBVIOUS
  <2>1. pc[p] \notin Sending
    BY DEF Sending
  <2> QED BY <1>0, <2>1 DEF Apart
<1>3. pc[p] = "finish" =>
        /\ \A c : Ending(c) <=> call[p].op = "unsubscribe" /\ Ch(p) = c
        /\ \A o : SentFor(o) = IF call[p].op = "add" /\ call[p].state = o THEN out[p].tickers ELSE {}
  <2> SUFFICES ASSUME pc[p] = "finish"
               PROVE  /\ \A c : Ending(c) <=> call[p].op = "unsubscribe" /\ Ch(p) = c
                      /\ \A o : SentFor(o) = IF call[p].op = "add" /\ call[p].state = o
                                             THEN out[p].tickers ELSE {}
    OBVIOUS
  <2>1. pc[p] \in Sending
    BY DEF Sending
  <2> QED BY <1>0, <2>1 DEF Apart
<1>4. pc'[p] = "register" =>
        /\ \A c : Ending(c)' <=> call[p].op = "unsubscribe" /\ Ch(p) = c
        /\ \A o : SentFor(o)' = IF call[p].op = "add" /\ call'[p].state = o THEN out'[p].tickers ELSE {}
  <2> SUFFICES ASSUME pc'[p] = "register"
               PROVE  /\ \A c : Ending(c)' <=> call[p].op = "unsubscribe" /\ Ch(p) = c
                      /\ \A o : SentFor(o)' = IF call[p].op = "add" /\ call'[p].state = o
                                              THEN out'[p].tickers ELSE {}
    OBVIOUS
  <2>1. pc'[p] \in Sending
    BY DEF Sending
  <2>2. call'[p].op = call[p].op
    BY <1>0, CallSends
  <2>3. PICK d : d = Ch(p)
    OBVIOUS
  <2>4. Ch(p)' = d
    BY <1>0, <2>3, CallSends
  <2>5. ASSUME NEW c PROVE Ending(c)' <=> call'[p].op = "unsubscribe" /\ d = c
    BY <1>0, <2>1, <2>4 DEF Apart
  <2>6. ASSUME NEW o
        PROVE  SentFor(o)' = IF call'[p].op = "add" /\ call'[p].state = o THEN out'[p].tickers ELSE {}
    BY <1>0, <2>1 DEF Apart
  <2> QED BY <2>2, <2>3, <2>5, <2>6
<1>5. pc'[p] # "register" => \A o : ~Ending(o)' /\ SentFor(o)' = {}
  <2> SUFFICES ASSUME pc'[p] # "register" PROVE \A o : ~Ending(o)' /\ SentFor(o)' = {}
    OBVIOUS
  <2>1. pc'[p] \notin Sending
    BY <1>1 DEF Sending
  <2> QED BY <1>0, <2>1 DEF Apart
<1>6. \A o : FlushFor(o)' = FlushFor(o)
  BY <1>1 DEF FlushFor
<1> QED BY <1>1, <1>2, <1>3, <1>4, <1>5, <1>6 DEF Acts

\* A method that leaves the states alone, and neither adds nor ends, changes nothing that
\* is asked for.
LEMMA NothingAsked ==
    ASSUME Footing, Clear, Clear', NEW p \in Callers, Methods(p), UNCHANGED <<channels, obj>>,
           call[p].op \notin {"unsubscribe", "add"}
    PROVE  Asked' = Asked
<1>1. Acts(p)
  BY MethodActs
<1>2. \A o : (Ending(o)' <=> Ending(o)) /\ SentFor(o)' = SentFor(o)
  BY <1>1 DEF Acts
<1>3. ASSUME NEW c \in Channels PROVE Shown(c)' = Shown(c)
  <2>1. PICK o : o = channels[c]
    OBVIOUS
  <2>2. Stock(o)' = Stock(o)
    BY <1>1, StockStays DEF Acts
  <2>3. Holding(o)' = Holding(o)
    BY <1>1, <1>2, <2>2 DEF Acts, Holding
  <2> QED BY <1>2, <2>1, <2>3, ShownStays
<1> QED BY <1>3, AllStays DEF Clear

LEMMA SubscribeServed ==
    ASSUME Footing, Clear, Clear', NEW p \in Callers, Subscribe(p)
    PROVE  Promised!Serve(p) \/ Promised!Refuse(p)
<1>0. Base
  BY DEF Footing
<1>1. /\ Methods(p) /\ pc[p] = "section" /\ call[p].op = "subscribe" /\ Ch(p) \in Channels
      /\ channels \in [Channels -> Objs \cup {Nil}] /\ obj \in [Objs -> ChannelState]
      /\ Nil \notin Objs /\ Acts(p)
  BY <1>0, CallBusy, Types, MethodActs DEF Methods, Subscribe, InSection, Base
<1>2. PICK ch : ch = Ch(p)
  OBVIOUS
<1>3. CASE channels[ch] # Nil /\ Return(p) /\ UNCHANGED stateVars
  <2>1. Asked' = Asked
    BY <1>1, <1>3, NothingAsked DEF stateVars
  <2>2. Asked[ch].on
    <3>1. Asked[ch] = Shown(ch)
      BY <1>1, <1>2 DEF Clear, AskedShown
    <3>2. ~Ending(ch)
      BY <1>1 DEF Acts
    <3> QED BY <1>3, <3>1, <3>2 DEF Shown
  <2> QED BY <1>1, <1>2, <1>3, <2>1, <2>2, Refuses
<1>4. CASE channels[ch] = Nil
  <2>1. PICK o \in Objs :
          /\ FirstUnused(o)
          /\ obj' = [obj EXCEPT ![o] = NewChannelState(Ch(p), call[p].tickers, call[p].global)]
          /\ channels' = [channels EXCEPT ![Ch(p)] = o]
          /\ SendFor(p, o, TRUE, Command("subscribe", Ch(p), NoSID, call[p].tickers, call[p].global))
    BY <1>2, <1>4 DEF Subscribe
  <2>2. PICK tickers, global : tickers = call[p].tickers /\ global = call[p].global
    OBVIOUS
  <2>3. /\ obj'[o].sid = NoSID /\ obj'[o].pending = {} /\ obj'[o].markets = tickers
        /\ obj'[o].global = global
        /\ channels'[ch] = o /\ o # Nil
        /\ \A x \in Objs : x # o => obj'[x] = obj[x]
        /\ \A c \in Channels : c # ch => channels'[c] = channels[c]
    BY <1>1, <1>2, <2>1, <2>2 DEF NewChannelState
  <2>4. pc'[p] = "register"
    <3>1. SendStart(p, Command("subscribe", ch, NoSID, tickers, global))
      BY <1>2, <2>1, <2>2 DEF SendFor
    <3> QED BY <1>0, <3>1, SendsThere
  <2>5. flushing # o /\ o \notin Registered
    BY <2>1 DEF FirstUnused, Unused, Held
  <2>6. OthersStay(p)
    BY <1>1, <1>2, <2>3, <2>5 DEF OthersStay, Registered
  <2>7. Asked[ch] = Shown(ch) /\ Asked' = [Asked EXCEPT ![ch] = Shown(ch)']
    BY <1>1, <1>2, <2>6, AskedThere
  <2>8. Shown(ch)' = Placed(global, tickers)
    <3>1. ~Ending(ch)' /\ SentFor(o)' = {} /\ FlushFor(o)' = {}
      BY <1>1, <2>4, <2>5 DEF Acts, FlushFor
    <3>2. Stock(o)' = tickers
      BY <2>3 DEF Stock
    <3>3. Holding(o)' = tickers
      BY <2>3, <3>1, <3>2 DEF Holding
    <3> QED BY <2>3, <3>1, <3>3 DEF Shown, Placed
  <2>9. Shown(ch) = Unasked
    BY <1>4 DEF Shown
  <2>10. Promised!Effect(Requested[p], Asked[ch]) = Shown(ch)'
    <3>1. PICK r, a, e : r = Requested[p] /\ a = Asked[ch] /\ e = Shown(ch)'
      OBVIOUS
    <3>2. a = Unasked
      BY <2>7, <2>9, <3>1
    <3>3. Promised!Effect(r, a) = Placed(global, tickers)
      <4>1. call[p].op = "subscribe"
        BY <1>1
      <4>2. r = Requested[p]
        BY <3>1
      <4> QED BY <2>2, <3>2, <4>1, <4>2, SubscribeEffect
    <3>4. e = Placed(global, tickers)
      BY <2>8, <3>1
    <3>5. Promised!Effect(r, a) = e
      BY <3>3, <3>4
    <3> QED BY <3>1, <3>5
  <2> QED BY <1>1, <1>2, <2>4, <2>7, <2>10, Serves
<1> QED BY <1>2, <1>3, <1>4 DEF Subscribe

\* After the send of a Subscribe, or of a GetSnapshot, nothing else is asked for.
LEMMA SubscribeSentServed ==
    ASSUME Footing, Clear, Clear', NEW p \in Callers, SubscribeSent(p)
    PROVE  Promised!GoOn(p)
<1>1. Methods(p) /\ pc[p] = "finish" /\ call[p].op = "subscribe"
  BY DEF Methods, SubscribeSent, InFinish
<1>2. out[p].ok
  BY <1>1, SentFacts DEF Footing
<1>3. Continue(p) /\ UNCHANGED stateVars
  BY <1>2 DEF SubscribeSent
<1>4. Asked' = Asked
  BY <1>1, <1>3, NothingAsked DEF stateVars
<1> QED BY <1>1, <1>3, <1>4, GoesServed

LEMMA GetSnapshotServed ==
    ASSUME Footing, Clear, Clear', NEW p \in Callers, GetSnapshot(p) \/ GetSnapshotSent(p)
    PROVE  Promised!GoOn(p) \/ Promised!Serve(p)
<1>0. Base
  BY DEF Footing
<1>1. Methods(p) /\ call[p].op = "snapshot" /\ UNCHANGED stateVars
  BY DEF Methods, GetSnapshot, GetSnapshotSent, InSection, InFinish
<1>2. Asked' = Asked
  BY <1>1, NothingAsked DEF stateVars
<1>3. Asked' = [Asked EXCEPT ![Ch(p)] = Promised!Effect(Requested[p], Asked[Ch(p)])]
  <2>1. Promised!Effect(Requested[p], Asked[Ch(p)]) = Asked[Ch(p)]
    BY <1>1, SnapshotEffect
  <2>2. Asked = [c \in Channels |-> Asked[c]]
    BY DEF Asked
  <2> QED BY <1>2, <2>1, <2>2
<1>4. CASE GetSnapshot(p)
  <2>1. pc[p] = "section"
    BY <1>4 DEF GetSnapshot, InSection
  <2>2. CASE Continue(p)
    BY <1>1, <1>3, <2>1, <2>2, Goes
  <2>3. CASE ~Continue(p)
    <3>1. PICK ch, sid, tickers : /\ ch = Ch(p) /\ sid = obj[channels[Ch(p)]].sid
                                  /\ tickers = call[p].tickers
      OBVIOUS
    <3>2. SendStart(p, Command("snapshot", ch, sid, tickers, FALSE))
      BY <1>4, <2>3, <3>1 DEF GetSnapshot
    <3>3. pc'[p] = "register"
      BY <1>0, <3>2, SendsThere
    <3> QED BY <1>1, <1>3, <2>1, <3>3, Serves
  <2> QED BY <2>2, <2>3
<1>5. CASE GetSnapshotSent(p)
  <2>1. pc[p] = "finish"
    BY <1>5 DEF GetSnapshotSent, InFinish
  <2>2. out[p].ok
    BY <1>0, <2>1, SentFacts
  <2>3. Continue(p)
    BY <1>5, <2>2 DEF GetSnapshotSent
  <2> QED BY <1>1, <1>2, <2>1, <2>3, GoesServed
<1> QED BY <1>4, <1>5

\* Unsubscribe: what is asked for on its channel is nothing, before a sid or with one.
LEMMA UnsubscribeServed ==
    ASSUME Footing, Clear, Clear', NEW p \in Callers, Unsubscribe(p)
    PROVE  Promised!GoOn(p) \/ Promised!Serve(p)
<1>0. Base
  BY DEF Footing
<1>1. /\ Methods(p) /\ pc[p] = "section" /\ call[p].op = "unsubscribe" /\ Ch(p) \in Channels
      /\ channels \in [Channels -> Objs \cup {Nil}] /\ Acts(p)
  BY <1>0, CallBusy, Types, MethodActs DEF Methods, Unsubscribe, InSection, Base
<1>2. PICK ch, o : ch = Ch(p) /\ o = channels[Ch(p)]
  OBVIOUS
<1>3. \/ Continue(p) /\ UNCHANGED obj /\ channels' = [channels EXCEPT ![ch] = Nil]
      \/ /\ o # Nil /\ UNCHANGED <<channels, obj>>
         /\ \E sid : SendStart(p, Command("unsubscribe", ch, sid, {}, FALSE))
  <2>1. CASE o = Nil
    <3>1. Continue(p) /\ UNCHANGED stateVars
      BY <1>2, <2>1 DEF Unsubscribe
    <3> QED BY <1>1, <1>2, <2>1, <3>1 DEF stateVars
  <2>2. CASE o # Nil /\ obj[o].sid = NoSID
    <3>1. Continue(p) /\ ForgetChannel(ch)
      BY <1>2, <2>2 DEF Unsubscribe
    <3> QED BY <3>1 DEF ForgetChannel
  <2>3. CASE o # Nil /\ obj[o].sid # NoSID
    <3>1. SendStart(p, Command("unsubscribe", ch, obj[o].sid, {}, FALSE)) /\ UNCHANGED stateVars
      BY <1>2, <2>3 DEF Unsubscribe
    <3> QED BY <2>3, <3>1 DEF stateVars
  <2> QED BY <2>1, <2>2, <2>3
<1>4. OthersStay(p)
  BY <1>1, <1>2, <1>3 DEF OthersStay
<1>5. Asked' = [Asked EXCEPT ![ch] = Shown(ch)']
  BY <1>1, <1>2, <1>4, AskedThere
<1>6. ASSUME NEW e, e = Shown(ch)', e = Unasked
      PROVE  Asked' = [Asked EXCEPT ![Ch(p)] = Promised!Effect(Requested[p], Asked[Ch(p)])]
  <2>1. Promised!Effect(Requested[p], Asked[Ch(p)]) = Unasked
    BY <1>1, UnsubscribeEffect
  <2> QED BY <1>2, <1>5, <1>6, <2>1
<1>7. CASE Continue(p) /\ channels' = [channels EXCEPT ![ch] = Nil]
  <2>1. Shown(ch)' = Unasked
    BY <1>1, <1>2, <1>7 DEF Shown, Unasked
  <2> QED BY <1>1, <1>6, <1>7, <2>1, Goes
<1>8. CASE \E sid : SendStart(p, Command("unsubscribe", ch, sid, {}, FALSE))
  <2>1. pc'[p] = "register"
    BY <1>0, <1>8, SendsThere
  <2>2. Ending(ch)'
    BY <1>1, <1>2, <2>1 DEF Acts
  <2>3. Shown(ch)' = Unasked
    BY <2>2 DEF Shown, Unasked
  <2> QED BY <1>1, <1>6, <2>1, <2>3, Serves
<1> QED BY <1>3, <1>7, <1>8

\* After its send nothing was asked for there, and nothing is.
LEMMA UnsubscribeSentServed ==
    ASSUME Footing, Clear, Clear', NEW p \in Callers, UnsubscribeSent(p)
    PROVE  Promised!GoOn(p)
<1>1. /\ Methods(p) /\ pc[p] = "finish" /\ call[p].op = "unsubscribe"
      /\ UNCHANGED obj /\ Acts(p)
  BY MethodActs DEF Methods, UnsubscribeSent, InFinish
<1>2. PICK ch : ch = Ch(p)
  OBVIOUS
<1>3. out[p].ok /\ ch \in Channels /\ channels \in [Channels -> Objs \cup {Nil}]
  BY <1>1, <1>2, SentFacts, CallBusy, Types DEF Footing, Base
<1>4. Continue(p) /\ channels' = [channels EXCEPT ![ch] = Nil]
  BY <1>2, <1>3 DEF UnsubscribeSent
<1>5. OthersStay(p)
  BY <1>1, <1>2, <1>3, <1>4 DEF OthersStay
<1>6. Asked[ch] = Shown(ch) /\ Asked' = [Asked EXCEPT ![ch] = Shown(ch)']
  BY <1>1, <1>2, <1>3, <1>5, AskedThere
<1>7. Shown(ch) = Unasked
  BY <1>1, <1>2 DEF Acts, Shown
<1>8. Shown(ch)' = Unasked
  BY <1>3, <1>4 DEF Shown, Unasked
<1>9. Asked' = Asked
  <2>1. PICK e : e = Shown(ch)' /\ e = Asked[ch]
    BY <1>6, <1>7, <1>8
  <2>2. Asked = [c \in Channels |-> Asked[c]]
    BY DEF Asked
  <2> QED BY <1>6, <2>1, <2>2
<1> QED BY <1>1, <1>4, <1>9, GoesServed

\* AddMarkets after its send: the tickers are in the client's set, or the service has them.
LEMMA AddMarketsSentServed ==
    ASSUME Footing, Clear, Clear', NEW p \in Callers, AddMarketsSent(p)
    PROVE  Promised!GoOn(p)
<1>0. Base
  BY DEF Footing
<1>1. /\ Methods(p) /\ pc[p] = "finish" /\ call[p].op = "add" /\ Acts(p)
      /\ obj \in [Objs -> ChannelState] /\ Nil \notin Objs
  BY <1>0, MethodActs, Types DEF Methods, AddMarketsSent, InFinish, Base
<1>2. PICK ch, o, tickers : ch = Ch(p) /\ o = call[p].state /\ tickers = out[p].tickers
  OBVIOUS
<1>3. out[p].ok /\ ch \in Channels /\ o \in Objs /\ channels[ch] = o
  BY <1>0, <1>1, <1>2, SentFacts, CallBusy DEF CallerSends
<1>4. /\ Continue(p) /\ UNCHANGED channels
      /\ obj' = [obj EXCEPT ![o].markets = @ \cup tickers]
  BY <1>2, <1>3 DEF AddMarketsSent
<1>5. /\ obj'[o].sid = obj[o].sid /\ obj'[o].pending = obj[o].pending
      /\ obj'[o].global = obj[o].global /\ obj'[o].markets = obj[o].markets \cup tickers
      /\ \A x \in Objs : x # o => obj'[x] = obj[x]
  BY <1>1, <1>3, <1>4 DEF ChannelState
<1>6. OthersStay(p)
  <2> SUFFICES ASSUME NEW c \in Channels, c # ch, channels[c] # Nil
               PROVE  obj'[channels[c]] = obj[channels[c]]
    BY <1>2, <1>4 DEF OthersStay
  <2>1. channels[c] \in Objs /\ channels[c] # o
    BY <1>0, <1>3, BaseFacts
  <2> QED BY <1>5, <2>1
<1>7. Asked[ch] = Shown(ch) /\ Asked' = [Asked EXCEPT ![ch] = Shown(ch)']
  BY <1>1, <1>2, <1>3, <1>6, AskedThere
<1>8. pc'[p] # "register"
  BY <1>0, <1>4, EndsThere
<1>9. ~Ending(ch) /\ ~Ending(ch)' /\ SentFor(o) = tickers /\ SentFor(o)' = {}
  BY <1>1, <1>2, <1>8 DEF Acts
<1>10. Holding(o)' = Holding(o)
  <2>1. CASE obj[o].sid = NoSID
    <3>1. Stock(o) = obj[o].markets /\ Stock(o)' = obj[o].markets \cup tickers
      BY <1>5, <2>1 DEF Stock
    <3> QED BY <1>1, <1>5, <1>9, <3>1 DEF Holding, Acts
  <2>2. CASE obj[o].sid # NoSID
    <3>1. PICK s : s = obj[o].sid
      OBVIOUS
    <3>2. Agrees(o, s)
      BY <1>0, <1>1, <1>3, <1>9, <2>2, <3>1, KeptLives DEF Standing
    <3>3. tickers \subseteq Paying(o)
      BY <1>1, <1>2 DEF Paying
    <3>4. tickers \subseteq subs[1][s].tickers
      BY <3>2, <3>3 DEF Agrees, Owed
    <3>5. Stock(o) = subs[1][s].tickers /\ Stock(o)' = subs[1][s].tickers
      BY <1>1, <1>5, <2>2, <3>1 DEF Stock, Acts
    <3> QED BY <1>1, <1>5, <1>9, <3>4, <3>5 DEF Holding, Acts
  <2> QED BY <2>1, <2>2
<1>11. Shown(ch)' = Shown(ch)
  <2>1. channels'[ch] = o /\ (Ending(ch)' <=> Ending(ch))
    BY <1>3, <1>4, <1>9
  <2> QED BY <1>3, <1>5, <1>10, <2>1, ShownStays
<1>12. Asked' = Asked
  <2>1. PICK e : e = Shown(ch)' /\ e = Asked[ch]
    BY <1>7, <1>11
  <2>2. Asked = [c \in Channels |-> Asked[c]]
    BY DEF Asked
  <2> QED BY <1>7, <2>1, <2>2
<1> QED BY <1>1, <1>4, <1>12, GoesServed

\* AddMarkets up to its unlock: the tickers are asked for at once, queued, on their way in a
\* command, or there already.
LEMMA AddMarketsServed ==
    ASSUME Footing, Clear, Clear', NEW p \in Callers, AddMarkets(p)
    PROVE  Promised!GoOn(p) \/ Promised!Serve(p)
<1>0. Base
  BY DEF Footing
<1>1. /\ Methods(p) /\ pc[p] = "section" /\ call[p].op = "add" /\ Ch(p) \in Channels
      /\ call[p].tickers # {} /\ channels \in [Channels -> Objs \cup {Nil}]
      /\ obj \in [Objs -> ChannelState] /\ Nil \notin Objs /\ Acts(p)
  BY <1>0, CallBusy, Types, MethodActs DEF Methods, AddMarkets, InSection, Base, CallsFit
<1>2. PICK ch, tickers : ch = Ch(p) /\ tickers = call[p].tickers
  OBVIOUS
<1>3. PICK o \in Objs, created \in BOOLEAN :
        LET state == TargetState(p, o, created)
            new == call[p].tickers \ state.markets
            queue == new # {} /\ state.sid = NoSID /\ IsPending(Ch(p))
        IN  /\ Target(p, o, created)
            /\ channels' = [channels EXCEPT ![Ch(p)] = o]
            /\ obj' = [obj EXCEPT ![o] =
                 IF queue THEN [state EXCEPT !.pending = @ \cup new] ELSE state]
            /\ \/ (queue \/ new = {}) /\ Continue(p)
               \/ /\ new # {} /\ state.sid # NoSID
                  /\ SendFor(p, o, created, Command("add", Ch(p), state.sid, new, FALSE))
               \/ /\ new # {} /\ state.sid = NoSID /\ ~queue
                  /\ SendFor(p, o, created, Command("subscribe", Ch(p), NoSID, new, FALSE))
  BY DEF AddMarkets
<1>4. PICK state, new, queue, global :
        /\ state = TargetState(p, o, created) /\ new = tickers \ state.markets
        /\ queue = (new # {} /\ state.sid = NoSID /\ IsPending(ch)) /\ global = FALSE
  OBVIOUS
<1>5. /\ Target(p, o, created) /\ channels' = [channels EXCEPT ![ch] = o]
      /\ obj' = [obj EXCEPT ![o] =
           IF queue THEN [state EXCEPT !.pending = @ \cup new] ELSE state]
      /\ \/ (queue \/ new = {}) /\ Continue(p)
         \/ /\ new # {} /\ ~queue
            /\ \E kind, sid : SendFor(p, o, created, Command(kind, ch, sid, new, global))
  <2>1. /\ Target(p, o, created) /\ channels' = [channels EXCEPT ![ch] = o]
        /\ obj' = [obj EXCEPT ![o] =
             IF queue THEN [state EXCEPT !.pending = @ \cup new] ELSE state]
        /\ \/ (queue \/ new = {}) /\ Continue(p)
           \/ /\ new # {} /\ state.sid # NoSID
              /\ SendFor(p, o, created, Command("add", ch, state.sid, new, global))
           \/ /\ new # {} /\ state.sid = NoSID /\ ~queue
              /\ SendFor(p, o, created, Command("subscribe", ch, NoSID, new, global))
    BY <1>2, <1>3, <1>4
  <2>2. state.sid # NoSID => ~queue
    BY <1>4
  <2> QED BY <2>1, <2>2
<1>6. /\ state \in ChannelState /\ state.global = FALSE
      /\ created => state = NewChannelState(ch, {}, FALSE)
      /\ ~created => /\ state.sid = obj[o].sid /\ state.markets = obj[o].markets
                     /\ state.pending = obj[o].pending
  <2>1. obj[o] \in ChannelState
    BY <1>1
  <2>2. CASE created
    BY <1>1, <1>2, <1>4, <2>2 DEF TargetState, NewChannelState, ChannelState
  <2>3. CASE ~created
    BY <1>4, <2>1, <2>3 DEF TargetState, ChannelState
  <2> QED BY <2>2, <2>3
<1>7. /\ obj'[o].sid = state.sid /\ obj'[o].markets = state.markets /\ obj'[o].global = FALSE
      /\ obj'[o].pending = IF queue THEN state.pending \cup new ELSE state.pending
      /\ \A x \in Objs : x # o => obj'[x] = obj[x]
  BY <1>1, <1>5, <1>6 DEF ChannelState
<1>8. created => channels[ch] = Nil /\ FirstUnused(o) /\ ~queue
  <2>1. created => channels[ch] = Nil /\ FirstUnused(o)
    BY <1>2, <1>5 DEF Target
  <2>2. IsPending(ch) => channels[ch] # Nil
    BY <1>0 DEF IsPending, Base, Named, PendingMatch, Unnamed
  <2> QED BY <1>4, <2>1, <2>2
<1>9. ~created => channels[ch] = o
  BY <1>1, <1>2, <1>5 DEF Target
<1>10. channels'[ch] = o /\ o # Nil
  BY <1>1, <1>2, <1>5
<1>11. OthersStay(p)
  <2> SUFFICES ASSUME NEW c \in Channels, c # ch
               PROVE  /\ channels'[c] = channels[c]
                      /\ channels[c] # Nil => obj'[channels[c]] = obj[channels[c]]
    BY <1>2 DEF OthersStay
  <2>1. channels'[c] = channels[c]
    BY <1>1, <1>5
  <2>2. channels[c] # o
    <3>1. CASE created
      BY <1>1, <1>8, <3>1 DEF FirstUnused, Unused, Registered
    <3>2. CASE ~created
      BY <1>0, <1>1, <1>2, <1>9, <3>2, BaseFacts
    <3> QED BY <3>1, <3>2
  <2>3. channels[c] # Nil => channels[c] \in Objs
    BY <1>1
  <2> QED BY <1>7, <2>1, <2>2, <2>3
<1>12. Asked[ch] = Shown(ch) /\ Asked' = [Asked EXCEPT ![ch] = Shown(ch)']
  BY <1>1, <1>2, <1>11, AskedThere
<1>13. ~Ending(ch) /\ SentFor(o) = {} /\ ~Ending(ch)' /\ FlushFor(o)' = FlushFor(o)
  BY <1>1 DEF Acts
<1>14. /\ SentFor(o)' = IF new # {} /\ ~queue THEN new ELSE {}
       /\ new # {} /\ ~queue => pc'[p] = "register"
       /\ queue \/ new = {} => Continue(p)
  <2>1. CASE queue \/ new = {}
    <3>1. Continue(p)
      BY <1>5, <2>1
    <3>2. pc'[p] # "register"
      BY <1>0, <3>1, EndsThere
    <3> QED BY <1>1, <2>1, <3>1, <3>2 DEF Acts
  <2>2. CASE new # {} /\ ~queue
    <3>1. PICK kind, sid : SendFor(p, o, created, Command(kind, ch, sid, new, global))
      BY <1>5, <2>2
    <3>2. SendStart(p, Command(kind, ch, sid, new, global))
      BY <3>1 DEF SendFor
    <3>3. pc'[p] = "register" /\ out'[p].tickers = new
      BY <1>0, <3>2, SendsThere
    <3>4. call'[p].state = o
      BY <1>0, <3>1, Types DEF Base, SendFor, CallRecord
    <3> QED BY <1>1, <2>2, <3>3, <3>4 DEF Acts
  <2> QED BY <2>1, <2>2
<1>15. Holding(o)' = (IF created THEN {} ELSE Holding(o)) \cup tickers
  <2>1. CASE created
    <3>1. state.sid = NoSID /\ state.markets = {} /\ state.pending = {}
      BY <1>6, <2>1 DEF NewChannelState
    <3>2. new = tickers /\ ~queue /\ new # {}
      BY <1>1, <1>2, <1>4, <1>8, <2>1, <3>1
    <3>3. FlushFor(o) = {}
      BY <1>8, <2>1 DEF FlushFor, FirstUnused, Unused, Held
    <3>4. Stock(o)' = {}
      BY <1>7, <3>1 DEF Stock
    <3> QED BY <1>7, <1>13, <1>14, <2>1, <3>1, <3>2, <3>3, <3>4 DEF Holding
  <2>2. CASE ~created
    <3>1. obj'[o].sid = obj[o].sid /\ obj'[o].markets = obj[o].markets
      BY <1>6, <1>7, <2>2
    <3>2. Stock(o)' = Stock(o)
      BY <1>1, <3>1, StockStays DEF Acts
    <3>3. obj[o].markets \subseteq Stock(o)
      <4>1. CASE obj[o].sid = NoSID
        BY <4>1 DEF Stock
      <4>2. CASE obj[o].sid # NoSID
        <5>1. PICK s : s = obj[o].sid
          OBVIOUS
        <5>2. Agrees(o, s)
          BY <1>0, <1>1, <1>2, <1>9, <1>10, <1>13, <2>2, <4>2, <5>1, KeptLives DEF Standing
        <5> QED BY <4>2, <5>1, <5>2 DEF Agrees, Owed, Stock
      <4> QED BY <4>1, <4>2
    <3>4. new = tickers \ obj[o].markets
      BY <1>4, <1>6, <2>2
    <3>5. obj'[o].pending \cup SentFor(o)' = obj[o].pending \cup new
      BY <1>6, <1>7, <1>14, <2>2
    <3>6. Holding(o)' = Stock(o)' \cup (obj'[o].pending \cup SentFor(o)') \cup FlushFor(o)'
      BY DEF Holding
    <3>7. Holding(o) = Stock(o) \cup obj[o].pending \cup FlushFor(o)
      BY <1>13 DEF Holding
    <3> QED BY <1>13, <2>2, <3>2, <3>3, <3>4, <3>5, <3>6, <3>7
  <2> QED BY <2>1, <2>2
<1>16. Shown(ch).tickers = IF created THEN {} ELSE Holding(o)
  <2>1. CASE created
    BY <1>8, <2>1 DEF Shown, Unasked
  <2>2. CASE ~created
    BY <1>9, <1>10, <1>13, <2>2 DEF Shown
  <2> QED BY <2>1, <2>2
<1>17. Asked' = [Asked EXCEPT ![Ch(p)] = Promised!Effect(Requested[p], Asked[Ch(p)])]
  <2>1. PICK r, a, e, h : r = Requested[p] /\ a = Asked[ch] /\ e = Shown(ch)' /\ h = Holding(o)'
    OBVIOUS
  <2>2. PICK off : off = obj'[o].global
    OBVIOUS
  <2>3. h = a.tickers \cup tickers
    BY <1>12, <1>15, <1>16, <2>1
  <2>6. Promised!Effect(r, a) = Placed(off, h)
    <3>1. off = Individual
      BY <1>7, <2>2 DEF Individual
    <3>2. h = a.tickers \cup call[p].tickers
      BY <1>2, <2>3
    <3>3. call[p].op = "add"
      BY <1>1
    <3>4. r = Requested[p]
      BY <2>1
    <3> QED BY <3>1, <3>2, <3>3, <3>4, AddEffect
  <2>4. e = Placed(off, h)
    <3>1. Shown(ch)' = [on |-> TRUE, global |-> obj'[o].global, tickers |-> Holding(o)']
      BY <1>10, <1>13 DEF Shown
    <3> QED BY <2>1, <2>2, <3>1 DEF Placed
  <2>5. Promised!Effect(r, a) = e
    BY <2>4, <2>6
  <2> QED BY <1>2, <1>12, <2>1, <2>5
<1>18. CASE queue \/ new = {}
  BY <1>1, <1>14, <1>17, <1>18, Goes
<1>19. CASE new # {} /\ ~queue
  BY <1>1, <1>14, <1>17, <1>19, Serves
<1> QED BY <1>18, <1>19

\* So each method's step is one of Subscriptions.
LEMMA MethodsServed ==
    ASSUME Footing, Clear, Clear', NEW p \in Callers, Methods(p)
    PROVE  Promised!Next
<1>1. ~RemoveMarkets(p) /\ ~RemoveMarketsSent(p)
  BY NoRemoves DEF Footing
<1>2. Promised!Serve(p) \/ Promised!GoOn(p) \/ Promised!Refuse(p)
  BY <1>1, SubscribeServed, SubscribeSentServed, UnsubscribeServed, UnsubscribeSentServed,
     AddMarketsServed, AddMarketsSentServed, GetSnapshotServed DEF Methods
<1> QED BY <1>2 DEF Promised!Next

\* A call begins, and nothing else is asked for.
LEMMA BeginStarts ==
    ASSUME Footing, Clear, Clear', NEW p \in Callers, Begin(p)
    PROVE  Promised!Next
<1>0. Base /\ CallsAt /\ Idles
  BY OutsideIdles DEF Footing
<1>1. PICK c \in Calls :
        call' = [call EXCEPT ![p] =
            [NoCall EXCEPT !.op = c.op, !.chs = c.chs, !.tickers = c.tickers, !.global = c.global]]
  BY DEF Begin
<1>2. /\ pc[p] = "idle" /\ pc'[p] = "section" /\ UNCHANGED <<channels, obj, subs, flushing, out>>
  BY <1>0, Types, ReaderIsNoCaller DEF Begin, Base, stateVars, serverVars, readerVars
<1>3. Promised!NoRequest = Requested[p]
  <2>1. call[p] = NoCall
    BY <1>0, <1>2 DEF CallsAt
  <2> QED BY <1>2, <2>1, RequestNone
<1>4. Asked' = Asked
  <2>1. ASSUME NEW o PROVE ~Ending(o) /\ ~Ending(o)' /\ SentFor(o) = {} /\ SentFor(o)' = {}
    BY <1>2 DEF Clear, Apart, Sending
  <2>2. ASSUME NEW ch \in Channels PROVE Shown(ch)' = Shown(ch)
    <3>1. PICK o : o = channels[ch]
      OBVIOUS
    <3>2. Stock(o)' = Stock(o) /\ FlushFor(o)' = FlushFor(o)
      BY <1>2 DEF Stock, FlushFor
    <3>3. Holding(o)' = Holding(o)
      BY <1>2, <2>1, <3>2 DEF Holding
    <3> QED BY <1>2, <2>1, <3>1, <3>3, ShownStays
  <2> QED BY <2>2, AllStays DEF Clear
<1>5. PICK r : r = [op |-> c.op, chs |-> c.chs, tickers |-> c.tickers, global |-> c.global,
                    served |-> FALSE]
  OBVIOUS
<1>6. Requested' = [Requested EXCEPT ![p] = r]
  <2>1. PICK d : d = call'[p]
    OBVIOUS
  <2>2. d.op = c.op /\ d.chs = c.chs /\ d.tickers = c.tickers /\ d.global = c.global
    BY <1>0, <1>1, <2>1, Types DEF Base, NoCall
  <2>3. pc'[p] \in Sending <=> FALSE
    BY <1>2 DEF Sending
  <2>4. Requested'[p] = [op |-> d.op, chs |-> d.chs, tickers |-> d.tickers, global |-> d.global,
                         served |-> FALSE]
    BY <2>1, <2>3, RequestNext
  <2>5. Requested'[p] = r
    BY <1>5, <2>2, <2>4
  <2> QED BY <1>0, <2>5, OneRequest DEF Base
<1>7. Promised!Start(p)
  BY <1>3, <1>4, <1>5, <1>6 DEF Promised!Start, Promised!Busy
<1> QED BY <1>7 DEF Promised!Next

-----------------------------------------------------------------------------
(* Callers are in the calls they began.                                    *)

\* The loop's own steps.
LEMMA LoopAlone ==
    ASSUME Inv, LoopSteps \/ HandleIncoming \/ FlushSent \/ Deliver \/ HandleConnectionLoss \/ RecoverSteps
    PROVE  \A q \in Callers : pc'[q] = pc[q] /\ call'[q] = call[q]
<1>1. UNCHANGED call
  <2>1. LoopSteps => UNCHANGED call
    BY DEF LoopSteps, LoopTop, Dial, Wait, EnterReadLoop, ReadError, CheckForce,
       LoopLeaves, WaitLoss, Redial, LoopFrame
  <2>2. HandleIncoming => UNCHANGED call
    BY DEF HandleIncoming, HandleSubscribed, HandleUnknownId, HandleOK, HandleUnsubscribed,
       HandleError, HandleDataMessage, Incoming
  <2>3. FlushSent \/ Deliver \/ HandleConnectionLoss \/ RecoverSteps => UNCHANGED call
    BY DEF FlushSent, Deliver, HandleConnectionLoss, RecoverSteps, RecoverStart, RecoverEnd,
       RecoverSent, RecoverNext, RecoverFrame
  <2> QED BY <2>1, <2>2, <2>3
<1>2. UNCHANGED pc \/ \E l : pc' = [pc EXCEPT ![Reader] = l]
  <2>1. LoopSteps => \E l : pc' = [pc EXCEPT ![Reader] = l]
    BY DEF LoopSteps, LoopTop, Dial, Wait, EnterReadLoop, ReadError, CheckForce,
       LoopLeaves, WaitLoss, Redial, Goto
  <2>2. HandleIncoming => \E l : pc' = [pc EXCEPT ![Reader] = l]
    BY DEF HandleIncoming, HandleSubscribed, HandleUnknownId, HandleOK, HandleUnsubscribed,
       HandleError, HandleDataMessage, Handled, Goto, SendStart
  <2>3. FlushSent \/ Deliver \/ HandleConnectionLoss => \E l : pc' = [pc EXCEPT ![Reader] = l]
    BY DEF FlushSent, Deliver, HandleConnectionLoss, Goto, SendStart
  <2>4. RecoverSteps => UNCHANGED pc \/ \E l : pc' = [pc EXCEPT ![Reader] = l]
    BY DEF RecoverSteps, RecoverStart, RecoverEnd, RecoverSent, RecoverNext, Goto, SendStart
  <2> QED BY <2>1, <2>2, <2>3, <2>4
<1> QED BY <1>1, <1>2, ReaderIsNoCaller, Types

\* A method goes on with its call or ends it.
LEMMA MethodCalls ==
    ASSUME Inv, NEW p \in Callers, Methods(p)
    PROVE  /\ \A q \in Callers : q # p => pc'[q] = pc[q] /\ call'[q] = call[q]
           /\ \/ pc'[p] = "idle" /\ call'[p] = NoCall
              \/ pc'[p] \in {"section", "register"} /\ call'[p].op = call[p].op
<1>1. Ends(p)
  BY MethodsEnd DEF Methods
<1>2. /\ pc \in [Procs -> CallerLabels \cup ReaderLabels] /\ call \in [Callers -> CallRecord]
      /\ p \in Procs /\ \A q \in Callers : q \in Procs
  BY Types, ReaderIsNoCaller
<1>3. CASE Return(p)
  BY <1>2, <1>3 DEF Return
<1>4. CASE Continue(p) /\ ~Return(p)
  <2>1. /\ pc' = [pc EXCEPT ![p] = "section"]
        /\ call' = [call EXCEPT ![p].chs = Tail(@), ![p].state = Nil, ![p].created = FALSE]
    BY <1>4 DEF Continue
  <2>2. call'[p].op = call[p].op /\ \A q \in Callers : q # p => call'[q] = call[q]
    BY <1>2, <2>1 DEF CallRecord
  <2> QED BY <1>2, <2>1, <2>2
<1>5. CASE \E cmd : /\ SendStart(p, cmd)
                    /\ \/ UNCHANGED call
                       \/ \E o, created : call' = [call EXCEPT ![p].state = o, ![p].created = created]
  <2>1. pc' = [pc EXCEPT ![p] = "register"]
    BY <1>5 DEF SendStart
  <2>2. call'[p].op = call[p].op /\ \A q \in Callers : q # p => call'[q] = call[q]
    <3>1. CASE UNCHANGED call
      BY <3>1
    <3>2. ASSUME NEW o, NEW created, call' = [call EXCEPT ![p].state = o, ![p].created = created]
          PROVE  call'[p].op = call[p].op /\ \A q \in Callers : q # p => call'[q] = call[q]
      BY <1>2, <3>2 DEF CallRecord
    <3> QED BY <1>5, <3>1, <3>2
  <2> QED BY <1>2, <2>1, <2>2
<1> QED BY <1>1, <1>3, <1>4, <1>5 DEF Ends

LEMMA CallsAtStep ==
    ASSUME Inv, Accepted, Staying, CallsAt, [Next]_vars
    PROVE  CallsAt'
<1> DEFINE At1(l, c) == IF l = "idle" THEN c = NoCall
                        ELSE /\ c.op \in {"subscribe", "unsubscribe", "add", "snapshot"}
                             /\ l \in {"section"} \cup Sending
<1>0. /\ pc \in [Procs -> CallerLabels \cup ReaderLabels] /\ call \in [Callers -> CallRecord]
      /\ \A q \in Callers : q \in Procs
  BY Types, ReaderIsNoCaller
<1>1. \A q \in Callers : At1(pc[q], call[q])
  BY DEF CallsAt
<1>2. ASSUME NEW p \in Callers, Begin(p) PROVE \A q \in Callers : At1(pc'[q], call'[q])
  <2>1. PICK c \in Calls :
          call' = [call EXCEPT ![p] =
              [NoCall EXCEPT !.op = c.op, !.chs = c.chs, !.tickers = c.tickers, !.global = c.global]]
    BY <1>2 DEF Begin
  <2>2. call'[p].op = c.op /\ \A q \in Callers : q # p => call'[q] = call[q]
    BY <1>0, <2>1 DEF NoCall
  <2>3. c.op \in Ops /\ c.op \notin {"remove", "connect", "close"}
    BY ClientAssumption DEF ClientAssumption, Accepted, Staying
  <2>4. pc'[p] = "section" /\ \A q \in Callers : q # p => pc'[q] = pc[q]
    BY <1>0, <1>2 DEF Begin
  <2> QED BY <1>1, <2>2, <2>3, <2>4 DEF Ops
<1>3. ASSUME NEW p \in Callers, Methods(p) PROVE \A q \in Callers : At1(pc'[q], call'[q])
  <2>1. pc[p] \in {"section", "finish"}
    BY <1>3, MethodsStep DEF MethodStep, ControlStep
  <2> QED BY <1>1, <1>3, <2>1, MethodCalls DEF Sending
<1>4. ASSUME NEW p \in Callers PROVE ~(Connect(p) \/ Close(p) \/ CloseConn(p))
  BY <1>1 DEF Connect, Close, CloseConn, InSection, Sending
<1>5. ASSUME NEW p \in Procs, SendStep(p) PROVE \A q \in Callers : At1(pc'[q], call'[q])
  <2>1. /\ \E l \in {"grab", "write", "finish"} : pc' = [pc EXCEPT ![p] = l]
        /\ pc[p] \in Sending /\ UNCHANGED call
    BY <1>5, SendsMove
  <2>2. ASSUME NEW q \in Callers, q # p PROVE pc'[q] = pc[q]
    BY <1>0, <2>1, <2>2
  <2>3. p \in Callers => pc'[p] \in {"grab", "write", "finish"}
    BY <1>0, <2>1
  <2> QED BY <1>1, <2>1, <2>2, <2>3 DEF Sending
<1>6. LoopSteps \/ HandleIncoming \/ FlushSent \/ Deliver \/ HandleConnectionLoss \/ RecoverSteps
        => \A q \in Callers : At1(pc'[q], call'[q])
  BY <1>1, LoopAlone
<1>7. Consume \/ Cancel \/ Feed \/ UNCHANGED vars => \A q \in Callers : At1(pc'[q], call'[q])
  BY <1>1, OthersKeep
<1>8. \A q \in Callers : At1(pc'[q], call'[q])
  BY <1>2, <1>3, <1>4, <1>5, <1>6, <1>7, StepCases
<1> QED BY <1>8 DEF CallsAt

LEMMA CallsAtInit == Init => CallsAt
  BY ReaderIsNoCaller DEF Init, CallsAt

-----------------------------------------------------------------------------
(* What the steps below start from is kept.                                *)

\* As long as the connection is up, nothing is lost or recovered.
LEMMA StillFirst ==
    ASSUME Base, Inv', Dialed', OnlyFirst', conn' # NoConn
    PROVE  ~HandleConnectionLoss /\ ~RecoverSteps /\ First'
<1>1. ~HandleConnectionLoss
  BY DEF HandleConnectionLoss
<1>2. ~RecoverSteps
  BY RecoverDials, BaseFacts DEF Base
<1>3. conn' \in Conns /\ conn' <= Len(link') /\ Len(link') = 1
  BY DEF Inv, Shape, TypeOK, Dialed, OnlyFirst
<1>4. conn' = 1
  BY <1>3 DEF Conns
<1> QED BY <1>1, <1>2, <1>3, <1>4 DEF First

LEMMA EnteredStep ==
    ASSUME Footing, [Next]_vars, conn # NoConn, ~HandleConnectionLoss, ~RecoverSteps
    PROVE  Entered'
<1>0. Base /\ Entered /\ Inv /\ obj \in [Objs -> ChannelState]
  BY Types DEF Footing, Base
<1>1. ASSUME rconn' = rconn, \A o \in Objs : obj'[o].sid \in {obj[o].sid, NoSID} PROVE Entered'
  BY <1>0, <1>1 DEF Entered
<1>2. ASSUME NEW p \in Callers, Begin(p) \/ Connect(p) \/ Close(p) \/ CloseConn(p)
      PROVE  UNCHANGED <<obj, rconn>>
  BY <1>2 DEF Begin, Connect, Close, CloseConn, stateVars, readerVars
<1>3. ASSUME NEW p \in Callers, Methods(p)
      PROVE  rconn' = rconn /\ \A o \in Objs : obj'[o].sid \in {obj[o].sid, NoSID}
  <2>1. MethodFrame /\ HeapStep(p)
    BY <1>0, <1>3, MethodsStep DEF MethodStep
  <2> QED BY <2>1 DEF MethodFrame, HeapStep, readerVars
<1>4. ASSUME NEW p \in Procs, SendStep(p) PROVE UNCHANGED <<obj, rconn>>
  BY <1>4 DEF SendStep, Register, GrabConn, WriteDelivered, WriteLost, WriteTimeout, Written,
     SendFrame, stateVars, readerVars
<1>5. LoopSteps => obj' = obj /\ (rconn' = rconn \/ rconn' = conn)
  BY DEF LoopSteps, LoopTop, Dial, Wait, EnterReadLoop, ReadError, CheckForce,
     LoopLeaves, WaitLoss, Redial, LoopFrame, stateVars
<1>6. HandleIncoming => rconn' = rconn /\ rconn # NoConn
  <2>1. HandleIncoming => At("read") /\ rconn' = rconn
    BY DEF HandleIncoming, HandleSubscribed, HandleUnknownId, HandleOK, HandleUnsubscribed,
       HandleError, HandleDataMessage, Incoming
  <2>2. At("read") => rconn # NoConn
    BY <1>0 DEF Inv, Shape, ReaderShape, At, Attached
  <2> QED BY <2>1, <2>2
<1>7. FlushSent => rconn' = rconn /\ \A o \in Objs : obj'[o].sid = obj[o].sid
  <2> SUFFICES ASSUME FlushSent PROVE rconn' = rconn /\ \A o \in Objs : obj'[o].sid = obj[o].sid
    OBVIOUS
  <2>1. rconn' = rconn /\ (obj' = obj \/ obj' = [obj EXCEPT ![flushing].pending = {}])
    BY DEF FlushSent
  <2>2. ASSUME NEW o \in Objs PROVE obj'[o].sid = obj[o].sid
    <3>1. obj[o] \in ChannelState
      BY <1>0
    <3>2. obj'[o] = obj[o] \/ obj'[o] = [obj[o] EXCEPT !.pending = {}]
      BY <1>0, <2>1
    <3> QED BY <3>1, <3>2 DEF ChannelState
  <2> QED BY <2>1, <2>2
<1>8. Deliver \/ Consume \/ Cancel \/ Feed \/ UNCHANGED vars => UNCHANGED <<obj, rconn>>
  BY DEF Deliver, Consume, Cancel, Feed, vars, clientVars, stateVars, readerVars
<1>9. LoopSteps => Entered'
  BY <1>1, <1>5 DEF Entered
<1>10. HandleIncoming => Entered'
  BY <1>6 DEF Entered
<1> QED BY <1>1, <1>2, <1>3, <1>4, <1>7, <1>8, <1>9, <1>10, StepCases

\* A live subscription was live before, and its tickers are still there.
Growing ==
    \A s \in DOMAIN subs[1] :
        subs'[1][s].live => subs[1][s].live /\ subs[1][s].tickers \subseteq subs'[1][s].tickers

LEMMA NotedStays ==
    ASSUME Footing, Growing,
           pc'[Reader] \in Sending =>
             /\ pc[Reader] \in Sending /\ (pc'[Reader] = "finish" => pc[Reader] = "finish")
             /\ out'[Reader].sid = out[Reader].sid /\ out'[Reader].tickers = out[Reader].tickers
             /\ flushing' = flushing
             /\ \A s \in Sids : sidMap'[s] \in {sidMap[s], Nil}
    PROVE  Noted'
<1> SUFFICES ASSUME pc'[Reader] \in Sending
             PROVE  LET s == out'[Reader].sid
                    IN  /\ sidMap'[s] \in {flushing', Nil}
                        /\ pc'[Reader] = "finish" /\ subs'[1][s].live =>
                             out'[Reader].tickers \subseteq subs'[1][s].tickers
  BY DEF Noted
<1>0. Base /\ Noted /\ pc[Reader] \in Sending
  BY DEF Footing
<1>1. PICK s : s = out[Reader].sid
  OBVIOUS
<1>2. s \in DOMAIN subs[1] /\ s \in Sids
  <2>1. CommandFine(Reader) /\ out[Reader].kind = "add"
    BY <1>0, ReaderIsNoCaller DEF Base, Commands, CommandFine, ReaderSends
  <2>2. s # NoSID
    BY <1>1, <2>1 DEF CommandFine
  <2>3. Len(link) <= 1
    <3>1. Len(link) = 1
      BY <1>0, BaseFacts
    <3> QED BY <3>1
  <2> QED BY <1>0, <1>1, <2>2, <2>3, BaseFacts, ReaderIsNoCaller DEF Base, Aimed, Owned
<1>3. sidMap[s] \in {flushing, Nil} /\ sidMap'[s] \in {sidMap[s], Nil}
  BY <1>0, <1>1, <1>2 DEF Noted
<1>4. ASSUME pc'[Reader] = "finish", subs'[1][s].live
      PROVE  out[Reader].tickers \subseteq subs'[1][s].tickers
  <2>1. subs[1][s].live /\ subs[1][s].tickers \subseteq subs'[1][s].tickers
    BY <1>2, <1>4 DEF Growing
  <2>2. out[Reader].tickers \subseteq subs[1][s].tickers
    BY <1>0, <1>1, <1>4, <2>1 DEF Noted
  <2> QED BY <2>1, <2>2
<1> QED BY <1>1, <1>3, <1>4

\* What a send does to the subscriptions.
LEMMA SendGrows ==
    ASSUME Base, ~MayReject, ~MayTimeout, NEW p \in Procs, SendStep(p)
    PROVE  /\ Growing
           /\ pc'[p] = "finish" /\ out[p].kind = "add" /\ subs'[1][out[p].sid].live =>
                out[p].tickers \subseteq subs'[1][out[p].sid].tickers
<1>1. CASE Register(p) \/ GrabConn(p)
  <2>1. UNCHANGED subs
    BY <1>1 DEF Register, GrabConn, serverVars
  <2>2. pc'[p] # "finish"
    BY <1>1, Types, BaseFacts DEF Base, Register, GrabConn, NoConn
  <2> QED BY <2>1, <2>2 DEF Growing
<1>2. CASE WriteDelivered(p)
  <2>1. Delivers(p)
    BY <1>2, DeliveredDelivers
  <2>2. CASE out[p].kind = "subscribe"
    <3>1. PICK t : Starts(t, out[p].id, out[p].global, out[p].tickers)
      BY <2>1, <2>2, SubscribeStarts
    <3> QED BY <2>2, <3>1 DEF Starts, Growing
  <2>3. CASE out[p].kind # "subscribe"
    <3>1. out[p].sid \in DOMAIN subs[1] /\ (Word(p) \/ Update(p) \/ Farewell(p))
      BY <2>1, <2>3, AboutCases
    <3>2. CASE Word(p)
      BY <3>1, <3>2 DEF Word, Chatter, Growing
    <3>3. CASE Farewell(p)
      <4>1. PICK s : s = out[p].sid
        OBVIOUS
      <4>2. /\ \A t \in DOMAIN subs[1] : t # s => subs'[1][t] = subs[1][t]
            /\ subs'[1][s].live = FALSE /\ out[p].kind # "add"
        BY <3>3, <4>1 DEF Farewell, Spoken
      <4> QED BY <4>2 DEF Growing
    <3>4. CASE Update(p)
      <4>1. PICK s : s = out[p].sid
        OBVIOUS
      <4>2. /\ \A t \in DOMAIN subs[1] : t # s => subs'[1][t] = subs[1][t]
            /\ subs[1][s].live /\ subs'[1][s].tickers = subs[1][s].tickers \cup out[p].tickers
        BY <3>4, <4>1 DEF Update, Spoken
      <4> QED BY <4>1, <4>2 DEF Growing
    <3> QED BY <3>1, <3>2, <3>3, <3>4
  <2> QED BY <2>2, <2>3
<1> QED BY <1>1, <1>2, WritesDeliver

LEMMA NotedStep ==
    ASSUME Footing, ~MayReject, ~MayTimeout, [Next]_vars, ~HandleConnectionLoss, ~RecoverSteps
    PROVE  Noted'
<1>0. Base /\ Inv /\ pc \in [Procs -> CallerLabels \cup ReaderLabels] /\ out \in [Procs -> SendRecord]
      /\ Reader \in Procs /\ \A q \in Callers : q \in Procs /\ q # Reader
  BY Types, ReaderIsNoCaller DEF Footing, Base
<1>1. UNCHANGED subs => Growing
  BY DEF Growing
<1>2. ASSUME NEW p \in Callers, Begin(p) \/ Connect(p) \/ Close(p) \/ CloseConn(p) PROVE Noted'
  <2>1. /\ UNCHANGED <<subs, sidMap, flushing>> /\ pc'[Reader] = pc[Reader]
        /\ out'[Reader] = out[Reader]
    BY <1>0, <1>2 DEF Begin, Connect, Close, CloseConn, Return, Dialled, DialFailed, serverVars,
       stateVars, readerVars
  <2> QED BY <1>1, <2>1, NotedStays
<1>3. ASSUME NEW p \in Callers, Methods(p) PROVE Noted'
  <2>1. /\ UNCHANGED <<subs, flushing>> /\ pc'[Reader] = pc[Reader] /\ out'[Reader] = out[Reader]
    BY <1>0, <1>3, MethodRoles
  <2>2. \A s \in Sids : sidMap'[s] \in {sidMap[s], Nil}
    BY <1>0, <1>3, MethodsStep DEF MethodStep, HeapStep
  <2> QED BY <1>1, <2>1, <2>2, NotedStays
<1>4. ASSUME NEW p \in Procs, SendStep(p) PROVE Noted'
  <2>1. PICK l \in {"grab", "write", "finish"} : Pushes(p, l)
    BY <1>0, <1>4, SendPushes
  <2>2. Growing /\ UNCHANGED <<sidMap, flushing>>
    BY <1>0, <1>4, <2>1, SendGrows DEF Pushes, stateVars
  <2>3. CASE p # Reader
    BY <1>0, <2>1, <2>2, <2>3, NotedStays DEF Pushes
  <2>4. CASE p = Reader /\ l # "finish"
    <3>1. /\ pc[Reader] \in Sending /\ pc'[Reader] # "finish" /\ out'[Reader].sid = out[Reader].sid
          /\ out'[Reader].tickers = out[Reader].tickers
      BY <2>1, <2>4 DEF Pushes, Upward, Sending
    <3> QED BY <2>2, <3>1, NotedStays
  <2>5. CASE p = Reader /\ l = "finish"
    <3>1. PICK s : s = out[Reader].sid
      OBVIOUS
    <3>2. /\ pc[Reader] \in Sending /\ pc'[Reader] = "finish" /\ out'[Reader].sid = s
          /\ out'[Reader].tickers = out[Reader].tickers /\ out[Reader].kind = "add"
      BY <2>1, <2>5, <3>1 DEF Pushes, Upward, Sending, CommandFine, ReaderSends
    <3>3. sidMap[s] \in {flushing, Nil}
      BY <3>1, <3>2 DEF Footing, Noted
    <3>4. subs'[1][s].live => out[Reader].tickers \subseteq subs'[1][s].tickers
      BY <1>0, <1>4, <2>5, <3>1, <3>2, SendGrows
    <3> QED BY <2>2, <3>2, <3>3, <3>4 DEF Noted
  <2> QED BY <2>3, <2>4, <2>5
<1>5. LoopSteps \/ Deliver => pc'[Reader] \notin Sending
  BY <1>0 DEF LoopSteps, LoopTop, Dial, Wait, EnterReadLoop, ReadError, CheckForce,
     LoopLeaves, WaitLoss, Redial, Deliver, Goto, FromTop, Sending
<1>6. HandleUnknownId \/ HandleUnsubscribed \/ HandleError \/ HandleDataMessage \/ HandleOK =>
        pc'[Reader] \notin Sending
  BY <1>0 DEF HandleUnknownId, HandleOK, HandleUnsubscribed, HandleError, HandleDataMessage,
     Handled, Goto, Sending
<1>7. HandleSubscribed => Noted'
  <2> SUFFICES ASSUME HandleSubscribed PROVE Noted'
    OBVIOUS
  <2>1. PICK e, ch, o, sid, queued : Gets(e, ch, o, sid, queued)
    BY <1>0, SubscribedGets
  <2>2. CASE queued = {}
    BY <2>1, <2>2 DEF Gets, Noted, Sending
  <2>3. CASE queued # {}
    <3>1. pc'[Reader] = "register" /\ flushing' = o /\ out'[Reader].sid = sid
      BY <2>1, <2>3 DEF Gets
    <3>2. sidMap'[sid] = o
      BY <1>0, <2>1, Types DEF Gets
    <3> QED BY <3>1, <3>2 DEF Noted
  <2> QED BY <2>2, <2>3
<1>8. FlushSent => Noted'
  <2> SUFFICES ASSUME FlushSent PROVE Noted'
    OBVIOUS
  <2>1. pc[Reader] = "finish" /\ UNCHANGED <<sidMap, subs>>
    BY DEF FlushSent, At, serverVars
  <2>2. \/ pc'[Reader] = "check"
        \/ /\ pc'[Reader] = "register" /\ flushing' = flushing
           /\ \E kind, ch, tickers, global :
                out'[Reader] = Command(kind, ch, out[Reader].sid, tickers, global)
    BY <1>0 DEF FlushSent, Goto, SendStart
  <2>3. CASE pc'[Reader] = "check"
    BY <2>3 DEF Noted, Sending
  <2>4. CASE pc'[Reader] # "check"
    <3>1. pc'[Reader] = "register" /\ flushing' = flushing /\ out'[Reader].sid = out[Reader].sid
      BY <2>2, <2>4, CommandFields
    <3> QED BY <2>1, <3>1 DEF Noted, Footing, Sending
  <2> QED BY <2>3, <2>4
<1>9. Consume \/ Cancel \/ UNCHANGED vars => Noted'
  <2>1. Consume \/ Cancel \/ UNCHANGED vars => UNCHANGED <<subs, sidMap, flushing, pc, out>>
    BY DEF Consume, Cancel, vars, clientVars, serverVars, stateVars, procVars, readerVars
  <2> QED BY <1>1, <2>1, NotedStays
<1>10. Feed => Noted'
  <2>1. Feed => UNCHANGED <<sidMap, flushing, pc, out>>
    BY DEF Feed, clientVars, stateVars, procVars, readerVars
  <2>2. Feed => Growing
    BY <1>0, FeedChatter DEF Feed, Chatter, Growing
  <2> QED BY <2>1, <2>2, NotedStays
<1>11. LoopSteps \/ Deliver => Noted'
  BY <1>5 DEF Noted
<1>12. HandleIncoming => Noted'
  BY <1>6, <1>7 DEF Noted, HandleIncoming
<1> QED BY <1>2, <1>3, <1>4, <1>8, <1>9, <1>10, <1>11, <1>12, StepCases

\* Every message about tickers is of a subscription.
LEMMA MarkedStep ==
    ASSUME Footing, First', ~MayReject, [Next]_vars
    PROVE  Marked'
<1>0. Base /\ Marked /\ down[1] \in Seq(Message)
  BY BaseFacts DEF Footing
<1>1. CASE HandleIncoming
  <2>1. \E type : Incoming(type)
    BY <1>1 DEF HandleIncoming, HandleSubscribed, HandleUnknownId, HandleOK, HandleUnsubscribed,
       HandleError, HandleDataMessage
  <2>2. down[1] # <<>> /\ down'[1] = Tail(down[1])
    BY <1>0, <2>1, IncomingReads DEF Reads
  <2>3. PICK d, t : /\ d \in Seq(Message) /\ d = down[1] /\ t = Tail(d) /\ d # <<>>
                    /\ down'[1] = t
    BY <1>0, <2>2
  <2>4. \A i \in DOMAIN t : i + 1 \in DOMAIN d /\ t[i] = d[i + 1]
    BY <2>3, Shifted
  <2> QED BY <1>0, <2>3, <2>4 DEF Marked
<1>2. CASE ~HandleIncoming
  <2>1. Says
    BY <1>0, <1>2, BaseFacts, QuietSteps DEF Base
  <2>2. ASSUME NEW m \in Message, down'[1] = Append(down[1], m), m.type = "ok" => m.sid # NoSID
        PROVE  Marked'
    <3>1. \A i \in DOMAIN down'[1] : down'[1][i] = m \/ (i \in DOMAIN down[1] /\ down'[1][i] = down[1][i])
      BY <1>0, <2>2, Appended
    <3> QED BY <1>0, <2>2, <3>1 DEF Marked
  <2>3. Silent \/ (\E s : Skips(s)) => Marked'
    BY <1>0 DEF Silent, Skips, Marked
  <2>4. Refused => Marked'
    BY <2>2 DEF Refused
  <2>5. ASSUME NEW s, Told(s) PROVE Marked'
    <3>1. s # NoSID
      BY <1>0, <2>5, BaseFacts DEF Told
    <3> QED BY <2>2, <2>5, <3>1 DEF Told
  <2>6. ASSUME NEW s, Begun(s) PROVE Marked'
    BY <2>2, <2>6 DEF Begun
  <2> QED BY <2>1, <2>3, <2>4, <2>5, <2>6 DEF Says
<1> QED BY <1>1, <1>2

-----------------------------------------------------------------------------
(* The steps of the first connection.                                      *)

\* The invariant of WSMarketsProofs, with what it rests on.
Grounds == Inv /\ Dialed /\ Aimed /\ Straight /\ Agreement /\ CallsFit /\ Linked

LEMMA FootingHolds ==
    ASSUME OneCaller, Grounds, CallsAt, Following, OnlyFirst, conn # NoConn
    PROVE  Footing
<1>1. conn = 1 /\ Len(link) = 1
  BY OnlyFacts DEF Grounds
<1>2. First
  BY <1>1 DEF First
<1>3. Base
  BY <1>2 DEF Base, Grounds, Agreement, Straight
<1> QED BY <1>3 DEF Footing, Following

\* A connection that is up was up before.
LEMMA UpBefore ==
    ASSUME Reliable, Grounds, [Next]_vars, OnlyFirst', conn' # NoConn
    PROVE  OnlyFirst /\ conn # NoConn
<1>1. OnlyFirst
  BY DialedStep, LinkGrows DEF Grounds, DialedEffect, OnlyFirst, Linked
<1>2. QueueEffect
  BY <1>1, QueueMoves DEF Alone, Reliable, Grounds
<1> QED BY <1>1, <1>2 DEF QueueEffect

LEMMA FollowingStep ==
    ASSUME OneCaller, Reliable, Grounds, Inv', Dialed', CallsAt, Following, [Next]_vars
    PROVE  Following'
<1> SUFFICES ASSUME OnlyFirst', conn' # NoConn PROVE Entered' /\ Noted' /\ Marked'
  BY DEF Following
<1>1. Footing /\ OnlyFirst /\ conn # NoConn
  BY UpBefore, FootingHolds
<1>2. ~HandleConnectionLoss /\ ~RecoverSteps /\ First'
  BY <1>1, StillFirst DEF Footing
<1>3. ~MayReject /\ ~MayTimeout
  BY DEF Reliable
<1> QED BY <1>1, <1>2, <1>3, EnteredStep, NotedStep, MarkedStep

LEMMA FollowingInit == Init => Following
<1> SUFFICES ASSUME Init PROVE Entered /\ Noted /\ Marked
  BY DEF Following
<1>1. pc[Reader] = "top" /\ \A o \in Objs : obj[o].sid = NoSID
  BY ReaderIsNoCaller DEF Init, NewChannelState
<1>2. down[1] = <<>>
  BY OneConn DEF Init, ServerInit
<1> QED BY <1>1, <1>2 DEF Entered, Noted, Marked, Sending

\* On the first connection, while it is up.
Clearly == OnlyFirst /\ conn # NoConn => Footing /\ Clear

LEMMA ClearAlways ==
    ASSUME OneCaller, Reliable, Accepted, Staying
    PROVE  Spec => [](Grounds /\ CallsAt /\ Clearly)
<1>1. Init => CallsAt /\ Following /\ Linked
  BY CallsAtInit, FollowingInit, QueueInit DEF Linked, Reliable
<1>2. Inv /\ Linked /\ [Next]_vars => Linked'
  <2> SUFFICES ASSUME Inv, Linked, [Next]_vars PROVE Linked'
    OBVIOUS
  <2>1. Len(link) \in Nat /\ Len(link') \in Nat /\ Len(link') >= Len(link)
    BY DialedStep, LinkGrows DEF DialedEffect
  <2> QED BY <2>1 DEF Linked
<1>3. Inv /\ CallsAt /\ [Next]_vars => CallsAt'
  BY CallsAtStep
<1>4. Grounds /\ Inv' /\ Dialed' /\ CallsAt /\ Following /\ [Next]_vars => Following'
  BY FollowingStep
<1>5. Grounds /\ CallsAt /\ Following => Clearly
  BY FootingHolds, AskedIsShown, ApartHolds DEF Clearly, Clear
<1>6. Inv /\ Dialed /\ Aimed /\ Straight /\ Agreement /\ CallsFit /\ Linked <=> Grounds
  BY DEF Grounds
<1> QED BY <1>1, <1>2, <1>3, <1>4, <1>5, <1>6, AgreementAlways, PTL DEF Spec

LEMMA EachStep ==
    ASSUME OneCaller, Reliable, Grounds, Inv', Dialed', Clearly, Clearly', [Next]_vars,
           OnlyFirst', conn' # NoConn
    PROVE  Promised!Next \/ UNCHANGED <<Asked, Requested>>
<1>1. Footing /\ Clear /\ Clear' /\ AskedShown /\ AskedShown'
  BY UpBefore DEF Clearly, Clear
<1>2. Base /\ ~MayReject /\ ~MayTimeout
  BY <1>1 DEF Footing, Reliable
<1>3. ~HandleConnectionLoss /\ ~RecoverSteps
  BY <1>2, StillFirst
<1>4. ASSUME NEW p \in Callers PROVE ~(Connect(p) \/ Close(p) \/ CloseConn(p))
  BY <1>1 DEF Footing, CallsAt, Connect, Close, CloseConn, InSection, Sending
<1>5. HandleIncoming => UNCHANGED <<Asked, Requested>>
  BY <1>1, ElseUnseen, SubscribedUnseen DEF HandleIncoming
<1>6. LoopSteps \/ Deliver \/ Consume \/ Cancel \/ Feed \/ UNCHANGED vars =>
        UNCHANGED <<Asked, Requested>>
  <2> SUFFICES ASSUME LoopSteps \/ Deliver \/ Consume \/ Cancel \/ Feed \/ UNCHANGED vars
               PROVE  UNCHANGED <<Asked, Requested>>
    OBVIOUS
  <2>1. Idles
    BY <1>2, OutsideIdles
  <2>2. UNCHANGED call
    BY DEF LoopSteps, LoopTop, Dial, Wait, EnterReadLoop, ReadError, CheckForce, LoopLeaves,
       WaitLoss, Redial, LoopFrame, Deliver, Consume, Cancel, Feed, vars, clientVars, procVars
  <2>3. Feed => \A s \in DOMAIN subs[1] : SubKept(s)
    BY <1>2, FeedChatter, ChatterKeeps DEF Feed, Base
  <2>4. ~Feed => UNCHANGED <<subs, down>>
    <3>1. LoopSteps => UNCHANGED <<subs, down>>
      BY DEF LoopSteps, LoopTop, Dial, Wait, EnterReadLoop, ReadError, CheckForce,
         LoopLeaves, WaitLoss, Redial, Dialled, DialFailed, serverVars
    <3>2. Deliver \/ Consume \/ Cancel \/ UNCHANGED vars => UNCHANGED <<subs, down>>
      BY DEF Deliver, Consume, Cancel, vars, serverVars
    <3> QED BY <3>1, <3>2
  <2>5. \A s \in DOMAIN subs[1] : SubKept(s)
    BY <2>3, <2>4, NothingSaid
  <2> QED BY <1>1, <2>1, <2>2, <2>5, IdlesUnseen
<1>7. FlushSent => UNCHANGED <<Asked, Requested>>
  BY <1>1, FlushUnseen
<1>8. ASSUME NEW p \in Procs, SendStep(p) PROVE UNCHANGED <<Asked, Requested>>
  BY <1>1, <1>2, <1>8, SendUnseen
<1>9. ASSUME NEW p \in Callers, Begin(p) PROVE Promised!Next
  BY <1>1, <1>9, BeginStarts
<1>10. ASSUME NEW p \in Callers, Methods(p) PROVE Promised!Next
  BY <1>1, <1>10, MethodsServed
<1> QED BY <1>3, <1>4, <1>5, <1>6, <1>7, <1>8, <1>9, <1>10, StepCases

\* In the beginning nothing is asked for.
LEMMA PromisedInit == Init => Promised!Init
<1> SUFFICES ASSUME Init PROVE Promised!Init
  OBVIOUS
<1>1. \A ch \in Channels : channels[ch] = Nil
  BY DEF Init
<1>2. Asked = [ch \in Channels |-> Promised!Nothing]
  BY <1>1 DEF Asked, Promised!Nothing
<1>3. ASSUME NEW p \in Callers PROVE Requested[p] = Promised!NoRequest
  <2>1. call[p] = NoCall /\ pc[p] = "idle"
    BY ReaderIsNoCaller DEF Init
  <2> QED BY <2>1, RequestNone
<1>4. Requested = [p \in Callers |-> Requested[p]]
  BY DEF Requested
<1>5. Requested = [p \in Callers |-> Promised!NoRequest]
  BY <1>3, <1>4
<1> QED BY <1>2, <1>5 DEF Promised!Init

\* If one goroutine calls Subscribe with tickers or for all of them, AddMarkets with tickers,
\* Unsubscribe and GetSnapshot, and the service answers every command, then on the first
\* connection, as long as it is up, each of these calls changes what is asked for once, at
\* one moment while it runs and on one channel after the other, and nothing else does:
\* neither an answer nor the flush of what was queued, however late they come (Subscribe,
\* AddMarkets, handleSubscribed, handleOK).
THEOREM EachCallOnce ==
    ASSUME OneCaller, Reliable, Accepted, Staying
    PROVE  Spec => /\ Promised!Init
                   /\ [][OnlyFirst' /\ conn' # NoConn =>
                           Promised!Next \/ UNCHANGED <<Asked, Requested>>]_vars
<1>1. Grounds /\ Grounds' /\ Clearly /\ Clearly' /\ [Next]_vars =>
        (OnlyFirst' /\ conn' # NoConn => Promised!Next \/ UNCHANGED <<Asked, Requested>>)
  <2> SUFFICES ASSUME Grounds, Grounds', Clearly, Clearly', [Next]_vars, OnlyFirst', conn' # NoConn
               PROVE  Promised!Next \/ UNCHANGED <<Asked, Requested>>
    OBVIOUS
  <2>1. Inv' /\ Dialed'
    BY DEF Grounds
  <2> QED BY <2>1, EachStep
<1> QED BY <1>1, PromisedInit, ClearAlways, PTL DEF Spec

-----------------------------------------------------------------------------
(* A connection that lasts.                                                *)

\* The labels of a loop that has no connection to read.
Dialling == {"dial", "wait", "waitLoss", "redial"}

\* Nobody and nothing ends the first connection.
Lasting == OnlyFirst /\ ~ctxDone /\ pc[Reader] \notin Dialling

LEMMA LastingInit == ASSUME Connected PROVE Init => Lasting
<1> SUFFICES ASSUME Init PROVE Lasting
  OBVIOUS
<1>1. pc[Reader] = "top" /\ ~ctxDone /\ link = <<"up">>
  BY ReaderIsNoCaller DEF Init, ServerInit
<1> QED BY <1>1 DEF Lasting, OnlyFirst, Dialling

\* A step of a caller that sends nothing.
LEMMA CallerLasts ==
    ASSUME Inv, Lasting, UNCHANGED <<link, ctxDone>>, NEW p \in Callers,
           NEW l, pc' = [pc EXCEPT ![p] = l]
    PROVE  Lasting'
<1>1. pc'[Reader] = pc[Reader]
  BY ReaderIsNoCaller, Types
<1> QED BY <1>1 DEF Lasting, OnlyFirst

LEMMA ReaderLasts ==
    ASSUME Inv, Lasting, UNCHANGED <<link, ctxDone>>,
           NEW l, l \notin Dialling, pc' = [pc EXCEPT ![Reader] = l]
    PROVE  Lasting'
<1>1. pc'[Reader] = l
  BY ReaderIsNoCaller, Types
<1> QED BY <1>1 DEF Lasting, OnlyFirst

\* The loop enters readLoop at once and stays there.
LEMMA LoopLasts ==
    ASSUME Inv, Dialed, Settled, Lasting, LoopSteps
    PROVE  Lasting'
<1>1. OnlyFirst /\ conn = 1 /\ Intact /\ ~ctxDone
  BY DEF Lasting, Settled, Intact
<1>2. Up(1) /\ pc[Reader] # "returned" /\ ~force /\ pc[Reader] \notin Dialling
  BY <1>1, OnlyFacts DEF Settled, Lasting
<1>3. ctxDone' = ctxDone
  BY DEF LoopSteps, LoopTop, Dial, Wait, EnterReadLoop, ReadError, CheckForce, LoopLeaves,
         WaitLoss, Redial, LoopFrame
<1>4. ~(Dial \/ Wait \/ WaitLoss \/ Redial \/ LoopLeaves)
  BY <1>2 DEF Dial, Wait, WaitLoss, Redial, LoopLeaves, At, Dialling
<1>5. ~ReadError
  <2> SUFFICES ASSUME ReadError PROVE FALSE
    OBVIOUS
  <2>1. rconn # NoConn /\ ReadFails
    BY DEF ReadError, At, Inv, Shape, ReaderShape, Attached
  <2>2. rconn = 1
    BY <1>1, <2>1, IntactFacts
  <2> QED BY <1>1, <1>2, <2>1, <2>2 DEF ReadFails
<1>6. \E l \in {"enter", "panic", "read"} : pc' = [pc EXCEPT ![Reader] = l]
  BY <1>1, <1>2, <1>4, <1>5 DEF LoopSteps, LoopTop, FromTop, EnterReadLoop, CheckForce, Goto,
     NoConn
<1>7. UNCHANGED link
  BY <1>4, <1>5 DEF LoopSteps, LoopTop, EnterReadLoop, CheckForce, serverVars
<1> QED BY <1>3, <1>6, <1>7, ReaderLasts DEF Dialling

LEMMA LastingStep ==
    ASSUME Inv, Dialed, Settled, CallsAt, Reliable, ~MayDrop, ~MayCancel, Lasting,
           [Next]_vars
    PROVE  Lasting'
<1>1. OnlyFirst /\ conn = 1 /\ Intact /\ ~ctxDone /\ pc[Reader] # "returned"
  BY DEF Lasting, Settled, Intact
<1>2. ~HandleConnectionLoss /\ ~RecoverSteps
  BY <1>1, OnlyFacts, RecoverDials DEF HandleConnectionLoss, At
<1>3. ASSUME NEW p \in Callers PROVE ~(Connect(p) \/ Close(p) \/ CloseConn(p))
  BY DEF CallsAt, Connect, Close, CloseConn, InSection, Sending
<1>4. ASSUME NEW p \in Callers, Begin(p) PROVE Lasting'
  BY <1>4, CallerLasts DEF Begin, serverVars
<1>5. ASSUME NEW p \in Callers, Methods(p) PROVE Lasting'
  <2>1. MethodStep(p)
    BY <1>5, MethodsStep
  <2>2. UNCHANGED <<link, ctxDone>> /\ \E l : pc' = [pc EXCEPT ![p] = l]
    BY <2>1 DEF MethodStep, MethodFrame, ControlStep, serverVars, flagVars
  <2> QED BY <2>2, CallerLasts
<1>6. ASSUME NEW p \in Procs, SendStep(p) PROVE Lasting'
  <2>1. ~WriteTimeout(p)
    BY <1>1 DEF WriteTimeout, Reliable
  <2>2. UNCHANGED <<link, ctxDone>>
    BY <1>6, <2>1 DEF SendStep, Register, GrabConn, WriteDelivered, WriteLost, Written,
       SendFrame, serverVars, flagVars
  <2>3. PICK l \in {"grab", "write", "finish"} : pc' = [pc EXCEPT ![p] = l]
    BY <1>6, SendsMove
  <2>4. p \in Callers \/ p = Reader
    BY DEF Procs
  <2> QED BY <2>2, <2>3, <2>4, CallerLasts, ReaderLasts DEF Dialling
<1>7. ASSUME HandleIncoming PROVE Lasting'
  <2>1. UNCHANGED <<link, ctxDone>>
    BY <1>7 DEF HandleIncoming, HandleSubscribed, HandleUnknownId, HandleOK,
       HandleUnsubscribed, HandleError, HandleDataMessage, Incoming
  <2>2. \E l \in {"check", "deliver", "register"} : pc' = [pc EXCEPT ![Reader] = l]
    BY <1>7 DEF HandleIncoming, HandleSubscribed, HandleUnknownId, HandleOK,
       HandleUnsubscribed, HandleError, HandleDataMessage, Handled, Goto, SendStart
  <2> QED BY <2>1, <2>2, ReaderLasts DEF Dialling
<1>8. ASSUME FlushSent PROVE Lasting'
  <2>1. UNCHANGED <<link, ctxDone>> /\ \E l \in {"check", "register"} : pc' = [pc EXCEPT ![Reader] = l]
    BY <1>8 DEF FlushSent, Goto, SendStart, serverVars
  <2> QED BY <2>1, ReaderLasts DEF Dialling
<1>9. ASSUME Deliver PROVE Lasting'
  BY <1>9, ReaderLasts DEF Deliver, Goto, serverVars, Dialling
<1>10. ASSUME Consume \/ Feed \/ UNCHANGED vars PROVE Lasting'
  <2>1. UNCHANGED <<ctxDone, pc>>
    BY <1>10 DEF Consume, Feed, vars, clientVars, flagVars, procVars
  <2>2. UNCHANGED link
    <3>1. CASE Feed
      BY <3>1 DEF Feed, ServerStep, Break, Send, Lose
    <3>2. CASE Consume \/ UNCHANGED vars
      BY <3>2 DEF Consume, vars, serverVars
    <3> QED BY <1>10, <3>1, <3>2
  <2> QED BY <2>1, <2>2 DEF Lasting, OnlyFirst
<1>11. ~Cancel
  BY DEF Cancel
<1> QED BY <1>2, <1>3, <1>4, <1>5, <1>6, <1>7, <1>8, <1>9, <1>10, <1>11, LoopLasts, StepCases

\* If one goroutine calls Subscribe with tickers or for all of them, AddMarkets with tickers,
\* Unsubscribe and GetSnapshot, the service answers every command and loses nothing, the
\* connection does not break, and ListenLoop's context is not cancelled, then each call takes
\* effect once, at one moment while it runs, and what is asked for never changes in any
\* other way (Subscribe, AddMarkets, handleSubscribed, handleOK).
THEOREM PromisesMet ==
    ASSUME OneCaller, Reliable, Accepted, Staying, ~MayDrop, ~MayLose, ~MayCancel
    PROVE  Spec => PromisesKept
<1>1. Init => Lasting /\ Settled
  BY LastingInit, SettledInit DEF Reliable
<1>2. Grounds /\ CallsAt /\ Settled /\ Lasting /\ [Next]_vars => Settled' /\ Lasting'
  <2> SUFFICES ASSUME Grounds, CallsAt, Settled, Lasting, [Next]_vars PROVE Settled' /\ Lasting'
    OBVIOUS
  <2>1. Inv /\ Dialed /\ Straight /\ ~MayTimeout
    BY DEF Grounds, Reliable
  <2> QED BY <2>1, SettledStep, LastingStep
<1>3. /\ Grounds /\ Grounds' /\ Clearly /\ Clearly' /\ Settled' /\ Lasting' /\ [Next]_vars
      => [Promised!Next]_<<Asked, Requested>>
  <2> SUFFICES ASSUME Grounds, Grounds', Clearly, Clearly', Settled', Lasting', [Next]_vars
               PROVE  Promised!Next \/ UNCHANGED <<Asked, Requested>>
    OBVIOUS
  <2>1. Inv' /\ Dialed'
    BY DEF Grounds
  <2>2. OnlyFirst' /\ conn' # NoConn
    BY DEF Settled, Lasting, Intact, NoConn
  <2> QED BY <2>1, <2>2, EachStep
<1>4. Spec => Promised!Init /\ [][Promised!Next]_<<Asked, Requested>>
  BY <1>1, <1>2, <1>3, PromisedInit, ClearAlways, PTL DEF Spec
<1> QED BY <1>4 DEF PromisesKept, Promised!Spec, Promised!promised
=============================================================================
