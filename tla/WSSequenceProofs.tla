---------------------------- MODULE WSSequenceProofs ----------------------------
(***************************************************************************)
(* Proofs about the sequence numbers of WSClient, for any calls and bounds *)
(* and one goroutine that calls: on the first connection, a lost message   *)
(* is noticed with the first message that follows it, and nothing else is  *)
(* taken for a loss.                                                       *)
(*                                                                         *)
(* The service numbers the messages of a subscription; the client has the  *)
(* number of the last one it handled.  What ties the two are the messages  *)
(* in between: Fits says how the client's number n, the messages d that    *)
(* wait on the connection and the service's subscription sub belong        *)
(* together.                                                               *)
(***************************************************************************)
EXTENDS WSConnectionProofs

-----------------------------------------------------------------------------
(* Messages on a connection.                                               *)

\* The places in d of what was said on subscription s, and of its announcement.
NewsOf(d, s) == {i \in DOMAIN d : d[i].sid = s /\ d[i].type # "subscribed"}
BornOf(d, s) == {i \in DOMAIN d : d[i].sid = s /\ d[i].type = "subscribed"}

\* The numbers go up; something numbered was said before the first loss, and no
\* number is followed at once by the one that reveals the loss.
Fits(n, d, s, sub) ==
    /\ n <= sub.seq
    /\ \A i \in NewsOf(d, s) : n < d[i].seq /\ d[i].seq <= sub.seq
    /\ \A i, j \in NewsOf(d, s) : i < j => d[i].seq < d[j].seq
    /\ sub.lost \/ sub.gap # 0 => sub.sent
    /\ sub.sent => \/ n # 0
                   \/ \E i \in NewsOf(d, s) : sub.gap = 0 \/ d[i].seq < sub.gap
    /\ sub.lost /\ sub.gap = 0 =>
         n # sub.seq /\ \A i \in NewsOf(d, s) : d[i].seq # sub.seq
    /\ sub.gap # 0 => /\ sub.gap <= sub.seq /\ n + 1 # sub.gap
                      /\ \A i \in NewsOf(d, s) : d[i].seq + 1 # sub.gap

\* The message that reveals the first loss is still to be read.
Revealed(d, s, sub) == \E i \in NewsOf(d, s) : d[i].seq = sub.gap

\* Nothing is missing between the client's number and the service's.
Unbroken(n, d, s, sub) ==
    \A m \in Nat : n < m /\ m <= sub.seq => \E i \in NewsOf(d, s) : d[i].seq = m

\* A subscription that does not number its messages.
Plain(n, d, s, sub) ==
    sub.seq = 0 /\ sub.gap = 0 /\ n = 0 /\ \A i \in NewsOf(d, s) : d[i].seq = 0

\* What one message more makes of the places.
LEMMA Appended ==
    ASSUME NEW d \in Seq(Message), NEW m \in Message
    PROVE  LET a == Append(d, m)
               last == Len(d) + 1
           IN  /\ a \in Seq(Message) /\ last \in Nat /\ last \in DOMAIN a /\ a[last] = m
               /\ \A i \in DOMAIN a : i = last \/ i \in DOMAIN d
               /\ \A i \in DOMAIN d : i \in Nat /\ i < last /\ i \in DOMAIN a /\ a[i] = d[i]
<1>1. /\ Len(d) \in Nat /\ DOMAIN d = 1..Len(d)
      /\ Append(d, m) \in Seq(Message)
      /\ DOMAIN Append(d, m) = 1..(Len(d) + 1)
      /\ \A i \in 1..Len(d) : Append(d, m)[i] = d[i]
      /\ Append(d, m)[Len(d) + 1] = m
  BY AppendProperties, LenProperties
<1> QED BY <1>1

LEMMA NewsAppended ==
    ASSUME NEW d \in Seq(Message), NEW m \in Message, NEW s
    PROVE  LET a == Append(d, m)
               last == Len(d) + 1
           IN  /\ \A i \in NewsOf(d, s) : i \in Nat /\ i < last /\ a[i] = d[i]
               /\ m.sid = s /\ m.type # "subscribed" =>
                    NewsOf(a, s) = NewsOf(d, s) \cup {last} /\ BornOf(a, s) = BornOf(d, s)
               /\ m.sid = s /\ m.type = "subscribed" =>
                    NewsOf(a, s) = NewsOf(d, s) /\ BornOf(a, s) = BornOf(d, s) \cup {last}
               /\ m.sid # s => NewsOf(a, s) = NewsOf(d, s) /\ BornOf(a, s) = BornOf(d, s)
<1> DEFINE a == Append(d, m)
           last == Len(d) + 1
<1>1. /\ last \in Nat /\ last \in DOMAIN a /\ a[last] = m
      /\ \A i \in DOMAIN a : i = last \/ i \in DOMAIN d
      /\ \A i \in DOMAIN d : i \in Nat /\ i < last /\ i \in DOMAIN a /\ a[i] = d[i]
  BY Appended
<1> HIDE DEF a, last
<1>2. \A i \in NewsOf(d, s) : i \in Nat /\ i < last /\ a[i] = d[i]
  BY <1>1 DEF NewsOf
<1>3. \A i : i \in NewsOf(a, s) <=> \/ i = last /\ m.sid = s /\ m.type # "subscribed"
                                   \/ i \in NewsOf(d, s)
  BY <1>1 DEF NewsOf
<1>4. \A i : i \in BornOf(a, s) <=> \/ i = last /\ m.sid = s /\ m.type = "subscribed"
                                   \/ i \in BornOf(d, s)
  BY <1>1 DEF BornOf
<1>5. CASE m.sid = s /\ m.type # "subscribed"
  <2>1. NewsOf(a, s) = NewsOf(d, s) \cup {last} /\ BornOf(a, s) = BornOf(d, s)
    BY <1>3, <1>4, <1>5
  <2> QED BY <1>2, <1>5, <2>1 DEF a, last
<1>6. CASE m.sid = s /\ m.type = "subscribed"
  <2>1. NewsOf(a, s) = NewsOf(d, s) /\ BornOf(a, s) = BornOf(d, s) \cup {last}
    BY <1>3, <1>4, <1>6
  <2> QED BY <1>2, <1>6, <2>1 DEF a, last
<1>7. CASE m.sid # s
  <2>1. NewsOf(a, s) = NewsOf(d, s) /\ BornOf(a, s) = BornOf(d, s)
    BY <1>3, <1>4, <1>7
  <2> QED BY <1>2, <1>7, <2>1 DEF a, last
<1> QED BY <1>5, <1>6, <1>7

\* What reading the first message makes of them.
LEMMA Shifted ==
    ASSUME NEW d \in Seq(Message), d # <<>>
    PROVE  LET t == Tail(d)
           IN  /\ t \in Seq(Message) /\ 1 \in DOMAIN d /\ d[1] = Head(d)
               /\ \A i \in DOMAIN t : /\ i \in Nat /\ 1 <= i
                                      /\ i + 1 \in DOMAIN d /\ t[i] = d[i + 1]
               /\ \A j \in DOMAIN d : /\ j \in Nat /\ 1 <= j
                                      /\ j = 1 \/ (j - 1 \in DOMAIN t /\ t[j - 1] = d[j])
<1>1. /\ Len(d) \in Nat \ {0} /\ DOMAIN d = 1..Len(d) /\ Head(d) = d[1]
      /\ Tail(d) \in Seq(Message) /\ Len(Tail(d)) = Len(d) - 1
      /\ \A i \in 1..Len(Tail(d)) : Tail(d)[i] = d[i + 1]
  BY HeadTailProperties, LenProperties, EmptySeq
<1>2. DOMAIN Tail(d) = 1..(Len(d) - 1)
  BY <1>1, LenProperties
<1> QED BY <1>1, <1>2

LEMMA NewsShifted ==
    ASSUME NEW d \in Seq(Message), d # <<>>, NEW s
    PROVE  LET t == Tail(d)
           IN  /\ \A i \in NewsOf(t, s) :
                    i \in Nat /\ 1 <= i /\ i + 1 \in NewsOf(d, s) /\ t[i] = d[i + 1]
               /\ \A j \in NewsOf(d, s) :
                    /\ j \in Nat /\ 1 <= j
                    /\ j = 1 \/ (j - 1 \in NewsOf(t, s) /\ t[j - 1] = d[j])
               /\ \A i \in BornOf(t, s) : i \in Nat /\ i + 1 \in BornOf(d, s)
               /\ \A i \in BornOf(d, s) : i \in Nat /\ 1 <= i
<1> DEFINE t == Tail(d)
<1>1. /\ \A i \in DOMAIN t : /\ i \in Nat /\ 1 <= i
                                      /\ i + 1 \in DOMAIN d /\ t[i] = d[i + 1]
      /\ \A j \in DOMAIN d : /\ j \in Nat /\ 1 <= j
                             /\ j = 1 \/ (j - 1 \in DOMAIN t /\ t[j - 1] = d[j])
  BY Shifted
<1> HIDE DEF t
<1>2. \A i \in NewsOf(t, s) : i \in Nat /\ 1 <= i /\ i + 1 \in NewsOf(d, s) /\ t[i] = d[i + 1]
  BY <1>1 DEF NewsOf
<1>3. \A j \in NewsOf(d, s) : /\ j \in Nat /\ 1 <= j
                              /\ j = 1 \/ (j - 1 \in NewsOf(t, s) /\ t[j - 1] = d[j])
  BY <1>1 DEF NewsOf
<1>4. \A i \in BornOf(t, s) : i \in Nat /\ i + 1 \in BornOf(d, s)
  BY <1>1 DEF BornOf
<1>5. \A i \in BornOf(d, s) : i \in Nat /\ 1 <= i
  BY <1>1 DEF BornOf
<1> QED BY <1>2, <1>3, <1>4, <1>5 DEF t

-----------------------------------------------------------------------------
(* How numbers, messages and subscriptions stay together.                  *)

\* The counters of a subscription after the next number is used.
Next1(sub, next) ==
    /\ next.seq = sub.seq + 1 /\ next.sent = TRUE /\ next.lost = sub.lost
    /\ next.gap = IF sub.gap = 0 /\ sub.lost THEN sub.seq + 1 ELSE sub.gap

\* The numbers of the messages are numbers.
LEMMA SeqsOfNews ==
    ASSUME NEW d \in Seq(Message), NEW s
    PROVE  \A i \in NewsOf(d, s) : d[i].seq \in Nat /\ i \in Nat
<1>1. DOMAIN d = 1..Len(d) /\ Len(d) \in Nat
  BY LenProperties
<1>2. \A i \in DOMAIN d : d[i] \in Message
  BY <1>1, ElementOfSeq
<1> QED BY <1>1, <1>2 DEF NewsOf, Message

\* Messages about something else do not matter.
LEMMA OtherAppended ==
    ASSUME NEW d \in Seq(Message), NEW m \in Message, NEW s, NEW n, NEW sub,
           m.sid # s \/ m.type = "subscribed"
    PROVE  /\ Fits(n, d, s, sub) => Fits(n, Append(d, m), s, sub)
           /\ Revealed(d, s, sub) => Revealed(Append(d, m), s, sub)
           /\ Unbroken(n, d, s, sub) => Unbroken(n, Append(d, m), s, sub)
           /\ Plain(n, d, s, sub) => Plain(n, Append(d, m), s, sub)
<1> DEFINE a == Append(d, m)
<1>1. NewsOf(a, s) = NewsOf(d, s) /\ \A i \in NewsOf(d, s) : a[i] = d[i]
  BY NewsAppended
<1> HIDE DEF a
<1>2. Fits(n, d, s, sub) => Fits(n, a, s, sub)
  BY <1>1 DEF Fits
<1>3. Revealed(d, s, sub) => Revealed(a, s, sub)
  BY <1>1 DEF Revealed
<1>4. Unbroken(n, d, s, sub) => Unbroken(n, a, s, sub)
  BY <1>1 DEF Unbroken
<1>5. Plain(n, d, s, sub) => Plain(n, a, s, sub)
  BY <1>1 DEF Plain
<1> QED BY <1>2, <1>3, <1>4, <1>5 DEF a

\* The subscription's next message.
LEMMA NextAppended ==
    ASSUME NEW d \in Seq(Message), NEW m \in Message, NEW s, NEW n \in Nat,
           NEW sub \in Subscription, NEW next \in Subscription, Next1(sub, next),
           m.sid = s, m.type # "subscribed", m.seq = next.seq, Fits(n, d, s, sub)
    PROVE  /\ Fits(n, Append(d, m), s, next)
           /\ next.gap # 0 => \/ Revealed(Append(d, m), s, next)
                              \/ sub.gap # 0 /\ ~Revealed(d, s, sub)
           /\ Unbroken(n, d, s, sub) => Unbroken(n, Append(d, m), s, next)
<1> DEFINE a == Append(d, m)
           last == Len(d) + 1
<1>1. /\ \A i \in NewsOf(d, s) : i \in Nat /\ i < last /\ a[i] = d[i]
      /\ NewsOf(a, s) = NewsOf(d, s) \cup {last}
      /\ last \in Nat /\ a[last] = m
  <2>1. last \in Nat /\ a[last] = m
    BY Appended
  <2> QED BY <2>1, NewsAppended
<1> HIDE DEF a, last
<1>2. \A i \in NewsOf(d, s) : d[i].seq \in Nat
  BY SeqsOfNews
<1>3. sub.seq \in Nat /\ sub.gap \in Nat /\ next.seq = sub.seq + 1 /\ next.gap \in Nat
     /\ sub.lost \in BOOLEAN /\ sub.sent \in BOOLEAN
  BY DEF Subscription, Next1
<1>4. \A i \in NewsOf(a, s) : \/ i = last /\ a[i].seq = sub.seq + 1
                              \/ i \in NewsOf(d, s) /\ a[i].seq = d[i].seq /\ i < last
  BY <1>1, <1>3
<1>5. \A i \in NewsOf(a, s) : n < a[i].seq /\ a[i].seq <= next.seq
  BY <1>2, <1>3, <1>4 DEF Fits
<1>6. ASSUME NEW i \in NewsOf(a, s), NEW j \in NewsOf(a, s), i < j
      PROVE  a[i].seq < a[j].seq
  <2>1. i # last
    BY <1>1, <1>4, <1>6
  <2>2. i \in NewsOf(d, s) /\ a[i].seq = d[i].seq /\ d[i].seq <= sub.seq
    BY <1>4, <2>1 DEF Fits
  <2>3. CASE j = last
    BY <1>1, <1>2, <1>3, <2>2, <2>3
  <2>4. CASE j \in NewsOf(d, s)
    BY <1>1, <1>6, <2>2, <2>4 DEF Fits
  <2> QED BY <1>4, <2>3, <2>4
<1>7. n # 0 \/ \E i \in NewsOf(a, s) : next.gap = 0 \/ a[i].seq < next.gap
  <2>1. CASE ~sub.sent
    <3>1. next.gap = 0
      BY <2>1 DEF Fits, Next1
    <3> QED BY <1>1, <3>1
  <2>2. CASE sub.sent /\ n = 0
    <3>1. PICK i \in NewsOf(d, s) : sub.gap = 0 \/ d[i].seq < sub.gap
      BY <2>2 DEF Fits
    <3>2. i \in NewsOf(a, s) /\ a[i].seq = d[i].seq /\ d[i].seq <= sub.seq /\ d[i].seq \in Nat
      BY <1>1, <1>2 DEF Fits
    <3> QED BY <1>3, <3>1, <3>2 DEF Next1
  <2> QED BY <1>3, <2>1, <2>2
<1>8. next.lost /\ next.gap = 0 => FALSE
  BY <1>3 DEF Next1
<1>9. ASSUME next.gap # 0
      PROVE  /\ next.gap <= next.seq /\ n + 1 # next.gap
             /\ \A i \in NewsOf(a, s) : a[i].seq + 1 # next.gap
  <2>1. CASE sub.gap = 0 /\ sub.lost
    <3>1. next.gap = sub.seq + 1 /\ n # sub.seq
          /\ \A i \in NewsOf(d, s) : d[i].seq # sub.seq
      BY <2>1 DEF Next1, Fits
    <3> QED BY <1>2, <1>3, <1>4, <3>1
  <2>2. CASE ~(sub.gap = 0 /\ sub.lost)
    <3>1. next.gap = sub.gap
      BY <2>2 DEF Next1
    <3>2. /\ sub.gap <= sub.seq /\ n + 1 # sub.gap
          /\ \A i \in NewsOf(d, s) : d[i].seq + 1 # sub.gap
      BY <1>9, <3>1 DEF Fits
    <3>3. sub.seq + 1 + 1 # sub.gap
      BY <1>3, <3>2
    <3> QED BY <1>2, <1>3, <1>4, <3>1, <3>2, <3>3
  <2> QED BY <2>1, <2>2
<1>10. Fits(n, a, s, next)
  <2>1. n <= next.seq /\ next.sent
    BY <1>3 DEF Fits, Next1
  <2> QED BY <1>5, <1>6, <1>7, <1>8, <1>9, <2>1 DEF Fits
<1>11. next.gap # 0 => \/ Revealed(a, s, next)
                       \/ sub.gap # 0 /\ ~Revealed(d, s, sub)
  <2>1. CASE sub.gap = 0 /\ sub.lost
    BY <1>1, <1>3, <2>1 DEF Next1, Revealed
  <2>2. CASE ~(sub.gap = 0 /\ sub.lost)
    BY <1>1, <2>2 DEF Next1, Revealed
  <2> QED BY <2>1, <2>2
<1>12. ASSUME Unbroken(n, d, s, sub), NEW k \in Nat, n < k, k <= next.seq
       PROVE  \E i \in NewsOf(a, s) : a[i].seq = k
  <2>1. CASE k = next.seq
    BY <1>1, <2>1
  <2>2. CASE k # next.seq
    <3>1. k <= sub.seq
      BY <1>3, <1>12, <2>2
    <3>2. PICK i \in NewsOf(d, s) : d[i].seq = k
      BY <1>12, <3>1 DEF Unbroken
    <3> QED BY <1>1, <3>2
  <2> QED BY <2>1, <2>2
<1>13. Unbroken(n, d, s, sub) => Unbroken(n, a, s, next)
  BY <1>12 DEF Unbroken
<1> QED BY <1>10, <1>11, <1>13 DEF a

\* A number that is skipped.
LEMMA SkippedFits ==
    ASSUME NEW d \in Seq(Message), NEW s, NEW n \in Nat, NEW sub \in Subscription,
           NEW next, next.seq = sub.seq + 1, next.lost = (sub.lost \/ sub.sent),
           next.sent = sub.sent, next.gap = sub.gap, Fits(n, d, s, sub)
    PROVE  /\ Fits(n, d, s, next)
           /\ Revealed(d, s, sub) => Revealed(d, s, next)
<1>1. \A i \in NewsOf(d, s) : d[i].seq \in Nat
  BY SeqsOfNews
<1>2. sub.seq \in Nat /\ sub.gap \in Nat /\ sub.lost \in BOOLEAN /\ sub.sent \in BOOLEAN
  BY DEF Subscription
<1>3. n <= sub.seq /\ \A i \in NewsOf(d, s) : n < d[i].seq /\ d[i].seq <= sub.seq
  BY DEF Fits
<1>4. n <= next.seq /\ \A i \in NewsOf(d, s) : n < d[i].seq /\ d[i].seq <= next.seq
  BY <1>1, <1>2, <1>3
<1>5. n # next.seq /\ \A i \in NewsOf(d, s) : d[i].seq # next.seq
  BY <1>1, <1>2, <1>3
<1>6. next.gap # 0 => next.gap <= next.seq
  BY <1>2 DEF Fits
<1>7. Fits(n, d, s, next)
  BY <1>2, <1>4, <1>5, <1>6 DEF Fits
<1> QED BY <1>7 DEF Revealed

\* A message about something else is read.
LEMMA OtherTaken ==
    ASSUME NEW d \in Seq(Message), d # <<>>, NEW s, NEW n, NEW sub,
           Head(d).sid # s \/ Head(d).type = "subscribed"
    PROVE  /\ Fits(n, d, s, sub) => Fits(n, Tail(d), s, sub)
           /\ Revealed(d, s, sub) => Revealed(Tail(d), s, sub)
           /\ Unbroken(n, d, s, sub) => Unbroken(n, Tail(d), s, sub)
           /\ Plain(n, d, s, sub) => Plain(n, Tail(d), s, sub)
<1> DEFINE t == Tail(d)
<1>1. 1 \notin NewsOf(d, s)
  <2>1. d[1] = Head(d)
    BY Shifted
  <2> QED BY <2>1 DEF NewsOf
<1>2. /\ \A i \in NewsOf(t, s) : i \in Nat /\ 1 <= i /\ i + 1 \in NewsOf(d, s) /\ t[i] = d[i + 1]
      /\ \A j \in NewsOf(d, s) : j \in Nat /\ j - 1 \in NewsOf(t, s) /\ t[j - 1] = d[j]
  BY <1>1, NewsShifted
<1> HIDE DEF t
<1>3. ASSUME Fits(n, d, s, sub) PROVE Fits(n, t, s, sub)
  <2>1. \A i, j \in NewsOf(t, s) : i < j => t[i].seq < t[j].seq
    <3> SUFFICES ASSUME NEW i \in NewsOf(t, s), NEW j \in NewsOf(t, s), i < j
                 PROVE  t[i].seq < t[j].seq
      OBVIOUS
    <3>1. i + 1 < j + 1
      BY <1>2
    <3> QED BY <1>2, <1>3, <3>1 DEF Fits
  <2>2. \A i \in NewsOf(t, s) : n < t[i].seq /\ t[i].seq <= sub.seq
    BY <1>2, <1>3 DEF Fits
  <2>3. sub.sent => \/ n # 0
                    \/ \E i \in NewsOf(t, s) : sub.gap = 0 \/ t[i].seq < sub.gap
    BY <1>2, <1>3 DEF Fits
  <2>4. /\ sub.lost /\ sub.gap = 0 => \A i \in NewsOf(t, s) : t[i].seq # sub.seq
        /\ sub.gap # 0 => \A i \in NewsOf(t, s) : t[i].seq + 1 # sub.gap
    BY <1>2, <1>3 DEF Fits
  <2> QED BY <1>3, <2>1, <2>2, <2>3, <2>4 DEF Fits
<1>4. Revealed(d, s, sub) => Revealed(t, s, sub)
  BY <1>2 DEF Revealed
<1>5. Unbroken(n, d, s, sub) => Unbroken(n, t, s, sub)
  BY <1>2 DEF Unbroken
<1>6. Plain(n, d, s, sub) => Plain(n, t, s, sub)
  BY <1>2 DEF Plain
<1> QED BY <1>3, <1>4, <1>5, <1>6 DEF t

\* The next message of a subscription is read: the one that reveals a loss does not
\* follow the client's number, and when nothing is missing every one does.
LEMMA NextTaken ==
    ASSUME NEW d \in Seq(Message), d # <<>>, NEW s, NEW n \in Nat,
           NEW sub \in Subscription, Head(d).sid = s, Head(d).type # "subscribed",
           Fits(n, d, s, sub)
    PROVE  LET q == Head(d).seq
           IN  /\ Fits(q, Tail(d), s, sub)
               /\ sub.gap # 0 /\ Revealed(d, s, sub) =>
                    Revealed(Tail(d), s, sub) \/ (n # 0 /\ n + 1 # q)
               /\ Unbroken(n, d, s, sub) =>
                    Unbroken(q, Tail(d), s, sub) /\ n + 1 = q
<1> DEFINE t == Tail(d)
           q == Head(d).seq
<1>1. 1 \in NewsOf(d, s) /\ d[1].seq = q
  <2>1. 1 \in DOMAIN d /\ d[1] = Head(d)
    BY Shifted
  <2> QED BY <2>1 DEF NewsOf
<1>2. /\ \A i \in NewsOf(t, s) : i \in Nat /\ 1 <= i /\ i + 1 \in NewsOf(d, s) /\ t[i] = d[i + 1]
      /\ \A j \in NewsOf(d, s) :
           /\ j \in Nat /\ 1 <= j
           /\ j = 1 \/ (j - 1 \in NewsOf(t, s) /\ t[j - 1] = d[j])
  BY NewsShifted
<1>3. /\ q \in Nat /\ \A i \in NewsOf(d, s) : d[i].seq \in Nat
      /\ \A i \in NewsOf(t, s) : t[i].seq \in Nat
  <2>1. t \in Seq(Message)
    BY Shifted
  <2> QED BY <1>1, <2>1, SeqsOfNews
<1> HIDE DEF t, q
<1>4. n < q /\ q <= sub.seq
  BY <1>1 DEF Fits
<1>5. \A j \in NewsOf(d, s) : j # 1 => q < d[j].seq
  <2> SUFFICES ASSUME NEW j \in NewsOf(d, s), j # 1 PROVE q < d[j].seq
    OBVIOUS
  <2>1. 1 < j
    BY <1>2
  <2> QED BY <1>1, <2>1 DEF Fits
<1>6. Fits(q, t, s, sub)
  <2>1. \A i, j \in NewsOf(t, s) : i < j => t[i].seq < t[j].seq
    <3> SUFFICES ASSUME NEW i \in NewsOf(t, s), NEW j \in NewsOf(t, s), i < j
                 PROVE  t[i].seq < t[j].seq
      OBVIOUS
    <3>1. i + 1 < j + 1
      BY <1>2
    <3> QED BY <1>2, <3>1 DEF Fits
  <2>2. \A i \in NewsOf(t, s) : q < t[i].seq /\ t[i].seq <= sub.seq
    <3> SUFFICES ASSUME NEW i \in NewsOf(t, s) PROVE q < t[i].seq /\ t[i].seq <= sub.seq
      OBVIOUS
    <3>1. i + 1 \in NewsOf(d, s) /\ i + 1 # 1 /\ t[i] = d[i + 1]
      BY <1>2
    <3> QED BY <1>5, <3>1 DEF Fits
  <2>3. q # 0
    BY <1>3, <1>4
  <2>4. sub.lost /\ sub.gap = 0 =>
          q # sub.seq /\ \A i \in NewsOf(t, s) : t[i].seq # sub.seq
    BY <1>1, <1>2 DEF Fits
  <2>5. sub.gap # 0 => /\ q + 1 # sub.gap
                       /\ \A i \in NewsOf(t, s) : t[i].seq + 1 # sub.gap
    BY <1>1, <1>2 DEF Fits
  <2> QED BY <1>4, <2>1, <2>2, <2>3, <2>4, <2>5 DEF Fits
<1>7. ASSUME sub.gap # 0, Revealed(d, s, sub), ~Revealed(t, s, sub)
      PROVE  n # 0 /\ n + 1 # q
  <2>1. PICK i \in NewsOf(d, s) : d[i].seq = sub.gap
    BY <1>7 DEF Revealed
  <2>2. i = 1
    BY <1>2, <1>7, <2>1 DEF Revealed
  <2>3. q = sub.gap /\ n + 1 # sub.gap
    BY <1>1, <1>7, <2>1, <2>2 DEF Fits
  <2>4. \A j \in NewsOf(d, s) : ~(d[j].seq < sub.gap)
    BY <1>1, <1>3, <1>5, <2>3
  <2>5. n # 0
    BY <1>7, <2>4 DEF Fits
  <2> QED BY <2>3, <2>5
<1>8. ASSUME Unbroken(n, d, s, sub) PROVE Unbroken(q, t, s, sub) /\ n + 1 = q
  <2>1. n + 1 = q
    <3>1. sub.seq \in Nat
      BY DEF Subscription
    <3>2. n + 1 \in Nat /\ n < n + 1 /\ n + 1 <= q /\ n + 1 <= sub.seq
      BY <1>3, <1>4, <3>1
    <3>3. PICK i \in NewsOf(d, s) : d[i].seq = n + 1
      BY <1>8, <3>2 DEF Unbroken
    <3>4. CASE i = 1
      BY <1>1, <3>3, <3>4
    <3>5. CASE i # 1
      BY <1>3, <1>5, <3>2, <3>3, <3>5
    <3> QED BY <3>4, <3>5
  <2>2. ASSUME NEW m \in Nat, q < m, m <= sub.seq
        PROVE  \E i \in NewsOf(t, s) : t[i].seq = m
    <3>1. n < m
      BY <1>3, <1>4, <2>2
    <3>2. PICK i \in NewsOf(d, s) : d[i].seq = m
      BY <1>8, <2>2, <3>1 DEF Unbroken
    <3>3. i # 1
      BY <1>1, <1>3, <2>2, <3>2
    <3> QED BY <1>2, <3>2, <3>3
  <2> QED BY <2>1, <2>2 DEF Unbroken
<1> QED BY <1>6, <1>7, <1>8 DEF t, q

\* A subscription that has just begun.
LEMMA FreshFits ==
    ASSUME NEW d \in Seq(Message), NEW m \in Message, NEW s, NEW sub,
           \A i \in DOMAIN d : d[i].sid # s, m.type = "subscribed",
           sub.seq = 0, sub.gap = 0, sub.sent = FALSE, sub.lost = FALSE
    PROVE  LET a == Append(d, m)
           IN  Fits(0, a, s, sub) /\ Unbroken(0, a, s, sub) /\ Plain(0, a, s, sub)
<1> DEFINE a == Append(d, m)
<1>1. NewsOf(a, s) = {}
  <2>1. NewsOf(d, s) = {}
    BY DEF NewsOf
  <2>2. NewsOf(a, s) = NewsOf(d, s)
    BY NewsAppended
  <2> QED BY <2>1, <2>2
<1> HIDE DEF a
<1>2. Fits(0, a, s, sub) /\ Plain(0, a, s, sub)
  BY <1>1 DEF Fits, Plain
<1>3. Unbroken(0, a, s, sub)
  BY DEF Unbroken
<1> QED BY <1>2, <1>3 DEF a

-----------------------------------------------------------------------------
(* The invariant.                                                          *)

\* One goroutine calls the client's methods.
OneCaller == \A p, q \in Callers : p = q

\* No second connection was dialled, and the first is still in use.
First == Len(link) = 0 \/ (Len(link) = 1 /\ 1 \in {conn, rconn})

\* An entry of sidMap and the state it leads to name the same sid.
SidsMatch == \A s \in Sids : sidMap[s] # Nil => obj[sidMap[s]].sid = s

\* Channel ch waits for a sid.
Unnamed(ch) == channels[ch] # Nil /\ obj[channels[ch]].sid = NoSID

\* At most one subscribe is pending for a channel, and then the channel has no sid.
PendingMatch ==
    /\ \A e \in pendingInit : Unnamed(e.ch)
    /\ \A e, f \in pendingInit : e.ch = f.ch => e = f

\* A subscribe is sent for a channel that waits for no other one, and nothing is
\* pending for a channel that is being unsubscribed.
CallsMatch ==
    \A p \in Callers :
        /\ pc[p] = "register" /\ out[p].kind = "subscribe" =>
             Unnamed(out[p].ch) /\ ~IsPending(out[p].ch)
        /\ pc[p] \in Sending /\ call[p].op = "unsubscribe" =>
             out[p].kind = "unsubscribe" /\ ~IsPending(Ch(p))

\* A channel without a sid has read nothing.
Uncounted == \A ch \in Channels : Unnamed(ch) => obj[channels[ch]].seq = 0

Named == SidsMatch /\ PendingMatch /\ CallsMatch /\ Uncounted

\* The number that the client has of subscription s.
N(s) == IF sidMap[s] # Nil THEN obj[sidMap[s]].seq ELSE 0

\* The client follows s, or will when it reads the announcement.
Tracked(s) == sidMap[s] # Nil \/ BornOf(down[1], s) # {}

\* readLoop returns after the message it handles, or has returned.
Forced == force \/ pc[Reader] \in {"returned", "done"}

\* The announcement of a subscription comes once, first and before its sid is known.
Order ==
    /\ \A i \in DOMAIN down[1] :
         /\ down[1][i].sid = 0 \/ down[1][i].sid \in DOMAIN subs[1]
         /\ down[1][i].type = "error" => down[1][i].sid = 0
    /\ \A s \in Sids : \A i \in BornOf(down[1], s) :
         /\ \A j \in NewsOf(down[1], s) : i < j
         /\ \A j \in BornOf(down[1], s) : i = j
         /\ sidMap[s] = Nil

FlowOf(s) ==
    LET sub == subs[1][s]
    IN  IF Numbered(sub)
        THEN /\ Fits(N(s), down[1], s, sub)
             /\ sub.gap # 0 => Revealed(down[1], s, sub) \/ Forced
             /\ ~MayLose => Unbroken(N(s), down[1], s, sub)
        ELSE Plain(N(s), down[1], s, sub)

Flow == \A s \in DOMAIN subs[1] : Tracked(s) => FlowOf(s)

Straight == First => Named /\ Order /\ Flow

\* The flag is looked at before the next message is read.
ForceSeen == force => pc[Reader] \in {"check", "deliver"}

\* Types of what is read and sent on the first connection.
LEMMA FirstTypes ==
    ASSUME Inv
    PROVE  /\ 1 \in Conns /\ down[1] \in Seq(Message) /\ subs[1] \in Seq(Subscription)
           /\ \A s \in DOMAIN subs[1] : s \in Sids /\ subs[1][s] \in Subscription
           /\ \A s \in Sids : N(s) \in Nat
           /\ \A s \in Sids : s # 0 /\ s \in Nat
           /\ Len(link) \in Nat
<1>1. 1 \in Conns /\ ServerTypeOK
  BY OneConn DEF Inv, Shape, TypeOK
<1>2. \A s \in DOMAIN subs[1] : s \in Sids /\ subs[1][s] \in Subscription
  BY <1>1, SidsOfSubs
<1>3. \A s \in Sids : N(s) \in Nat
  BY Types DEF N, ChannelState
<1>4. Len(link) \in Nat
  BY Types, LenProperties
<1> QED BY <1>1, <1>2, <1>3, <1>4, Types DEF Sids

\* First ends for good.
LEMMA FirstBefore == ASSUME Inv, Dialed, DialedEffect, First' PROVE First
<1>1. /\ Len(link) \in Nat /\ Len(link') \in Nat /\ Len(link') >= Len(link)
      /\ link' = Append(link, "up") => Len(link') = Len(link) + 1
  BY LinkGrows, Types, AppendProperties DEF LinkStates, DialedEffect
<1>2. CASE Len(link') = 0
  BY <1>1, <1>2 DEF First
<1>3. CASE Len(link') = 1 /\ 1 \in {conn', rconn'}
  <2>1. CASE Len(link) = 0
    BY <2>1 DEF First
  <2>2. CASE Len(link) # 0
    <3>1. Len(link) = 1 /\ Len(link') # Len(link) + 1
      BY <1>1, <1>3, <2>2
    <3>2. ~NewConn
      BY <1>1, <3>1, Zenon DEF NewConn
    <3> QED BY <1>3, <3>1, <3>2 DEF DialedEffect, First, NoConn
  <2> QED BY <2>1, <2>2
<1> QED BY <1>2, <1>3 DEF First
-----------------------------------------------------------------------------
(* Channels, sids and pending subscribes.                                  *)

\* Callers go on with what they send.
CallersKeep ==
    \A q \in Callers :
        /\ pc'[q] = "register" => pc[q] = "register"
        /\ pc'[q] \in Sending =>
             /\ pc[q] \in Sending /\ call'[q] = call[q]
             /\ out'[q].kind = out[q].kind /\ out'[q].ch = out[q].ch

\* What the reader does to its own control is not theirs.
LEMMA ReaderAway ==
    ASSUME Inv, UNCHANGED call,
           UNCHANGED pc \/ \E l : pc' = [pc EXCEPT ![Reader] = l],
           UNCHANGED out \/ \E cmd : out' = [out EXCEPT ![Reader] = cmd]
    PROVE  CallersKeep
<1>1. \A q \in Callers : pc'[q] = pc[q] /\ out'[q] = out[q] /\ call'[q] = call[q]
  BY Types, ReaderIsNoCaller
<1> QED BY <1>1 DEF CallersKeep

\* Sids stay where they are, or go.
NamesSteady ==
    /\ UNCHANGED channels /\ pendingInit' \subseteq pendingInit
    /\ \A s \in Sids : sidMap'[s] # Nil => sidMap'[s] = sidMap[s]
    /\ \A o \in Objs : /\ obj'[o].sid = obj[o].sid
                       /\ obj'[o].seq = obj[o].seq \/ obj[o].sid # NoSID

LEMMA NamedSteady ==
    ASSUME Inv, Named, CallersKeep, NamesSteady PROVE Named'
<1>1. /\ \A ch \in Channels : channels[ch] # Nil => channels[ch] \in Objs
      /\ \A s \in Sids : sidMap[s] # Nil => sidMap[s] \in Objs
      /\ \A e \in pendingInit : e.ch \in Channels
      /\ \A p \in Callers : out[p].kind = "subscribe" => out[p].ch \in Channels
  BY Types, ReaderIsNoCaller DEF Pending, Inv, Shape, CommandShape
<1>2. \A ch \in Channels : Unnamed(ch)' <=> Unnamed(ch)
  BY <1>1 DEF Unnamed, NamesSteady
<1>3. SidsMatch'
  BY <1>1 DEF Named, SidsMatch, NamesSteady
<1>4. PendingMatch'
  BY <1>1, <1>2 DEF Named, PendingMatch, NamesSteady
<1>5. \A ch : IsPending(ch)' => IsPending(ch)
  BY DEF IsPending, NamesSteady
<1>6. CallsMatch'
  <2> SUFFICES ASSUME NEW p \in Callers
               PROVE  /\ pc'[p] = "register" /\ out'[p].kind = "subscribe" =>
                           Unnamed(out[p].ch)' /\ ~IsPending(out[p].ch)'
                      /\ pc'[p] \in Sending /\ call'[p].op = "unsubscribe" =>
                           out'[p].kind = "unsubscribe" /\ ~IsPending(Ch(p))'
    BY Zenon DEF CallsMatch
  <2>1. ASSUME pc'[p] = "register", out'[p].kind = "subscribe"
        PROVE  Unnamed(out[p].ch)' /\ ~IsPending(out[p].ch)'
    <3>1. /\ pc[p] = "register" /\ out[p].kind = "subscribe" /\ out'[p].ch = out[p].ch
      BY <2>1 DEF CallersKeep, Sending
    <3>2. out[p].ch \in Channels /\ Unnamed(out[p].ch) /\ ~IsPending(out[p].ch)
      BY <1>1, <3>1 DEF Named, CallsMatch
    <3>3. Unnamed(out[p].ch)'
      BY <1>1, <3>1, <3>2 DEF Unnamed, NamesSteady
    <3> QED BY <3>1, <3>2, <3>3 DEF IsPending, NamesSteady
  <2>2. ASSUME pc'[p] \in Sending, call'[p].op = "unsubscribe"
        PROVE  out'[p].kind = "unsubscribe" /\ ~IsPending(Ch(p))'
    <3>1. /\ pc[p] \in Sending /\ call'[p] = call[p] /\ out'[p].kind = out[p].kind
      BY <2>2 DEF CallersKeep
    <3>2. out[p].kind = "unsubscribe" /\ ~IsPending(Ch(p))
      BY <2>2, <3>1 DEF Named, CallsMatch
    <3> QED BY <3>1, <3>2 DEF IsPending, Ch, NamesSteady
  <2> QED BY <2>1, <2>2
<1>7. Uncounted'
  BY <1>1, <1>2 DEF Named, Uncounted, NamesSteady, Unnamed
<1> QED BY <1>3, <1>4, <1>6, <1>7 DEF Named

\* A method's step; no other goroutine is in a call.
LEMMA MethodNamed ==
    ASSUME Inv, OneCaller, Named, NEW p \in Callers, MethodStep(p) PROVE Named'
<1>1. /\ \A ch \in Channels : channels[ch] # Nil => channels[ch] \in Objs
      /\ \A s \in Sids : sidMap[s] # Nil => sidMap[s] \in Objs
      /\ \A e \in pendingInit : e.ch \in Channels
      /\ p \in Procs
  BY Types, ReaderIsNoCaller DEF Pending
<1>2. HeapStep(p) /\ StartStep(p) /\ pendingInit' \subseteq pendingInit
  BY DEF MethodStep, HeapStep
<1>3. pc'[p] \in {"idle", "section", "register"}
  BY <1>1, Types DEF MethodStep, ControlStep
<1>4. SidsMatch'
  BY <1>1, <1>2 DEF HeapStep, Steady, Named, SidsMatch
<1>5. ASSUME NEW e \in pendingInit' PROVE Unnamed(e.ch)'
  <2>1. e \in pendingInit /\ e.ch \in Channels /\ Unnamed(e.ch) /\ IsPending(e.ch)
    BY <1>1, <1>2 DEF Named, PendingMatch, IsPending
  <2>2. ~Dropped(p, e.ch)
    <3>1. ASSUME NEW f \in pendingInit, f.ch = e.ch, pendingInit' = pendingInit \ {f}
          PROVE  FALSE
      BY <2>1, <3>1 DEF Named, PendingMatch
    <3>2. ASSUME pc[p] = "finish", call[p].op = "unsubscribe", e.ch = Ch(p)
          PROVE  FALSE
      BY <2>1, <3>2 DEF Named, CallsMatch, Sending
    <3> QED BY <2>1, <3>1, <3>2 DEF Dropped
  <2>3. channels[e.ch] # Nil
    BY <2>1 DEF Unnamed
  <2>4. /\ channels'[e.ch] # Nil /\ channels[e.ch] = channels'[e.ch]
        /\ Steady(channels'[e.ch])
    BY <1>2, <2>1, <2>2, <2>3 DEF HeapStep
  <2> QED BY <2>1, <2>4 DEF Unnamed, Steady
<1>6. PendingMatch'
  BY <1>2, <1>5 DEF Named, PendingMatch
<1>7. ASSUME pc'[p] = "register", out'[p].kind = "subscribe"
      PROVE  Unnamed(out[p].ch)' /\ ~IsPending(out[p].ch)'
  <2>1. /\ out'[p].ch \in Channels /\ channels'[out'[p].ch] # Nil
        /\ obj'[channels'[out'[p].ch]].sid = NoSID
        /\ channels[out'[p].ch] = Nil \/ ~IsPending(out'[p].ch)
        /\ pendingInit' = pendingInit
    BY <1>2, <1>7 DEF StartStep
  <2>2. ~IsPending(out'[p].ch)
    BY <2>1 DEF Named, PendingMatch, Unnamed, IsPending
  <2> QED BY <2>1, <2>2 DEF Unnamed, IsPending
<1>8. ASSUME pc'[p] \in Sending, call'[p].op = "unsubscribe"
      PROVE  out'[p].kind = "unsubscribe" /\ ~IsPending(Ch(p))'
  <2>1. pc'[p] = "register"
    BY <1>3, <1>8 DEF Sending
  <2>2. /\ out'[p].kind = "unsubscribe" /\ call'[p] = call[p] /\ HasSID(Ch(p))
        /\ pendingInit' = pendingInit
    BY <1>2, <1>8, <2>1 DEF StartStep
  <2>3. ~IsPending(Ch(p))
    BY <2>2 DEF HasSID, Named, PendingMatch, Unnamed, IsPending
  <2> QED BY <2>2, <2>3 DEF IsPending, Ch
<1>9. CallsMatch'
  <2>1. \A q \in Callers : q = p
    BY DEF OneCaller
  <2> QED BY <1>7, <1>8, <2>1 DEF CallsMatch
<1>10. Uncounted'
  <2> SUFFICES ASSUME NEW ch \in Channels, Unnamed(ch)' PROVE obj'[channels'[ch]].seq = 0
    BY DEF Uncounted
  <2>1. channels'[ch] # Nil /\ obj'[channels'[ch]].sid = NoSID
    BY DEF Unnamed
  <2>2. CASE channels[ch] = channels'[ch] /\ Steady(channels'[ch])
    BY <2>1, <2>2 DEF Steady, Named, Uncounted, Unnamed
  <2>3. CASE obj'[channels'[ch]].seq = 0
    BY <2>3
  <2> QED BY <1>2, <2>1, <2>2, <2>3 DEF HeapStep
<1> QED BY <1>4, <1>6, <1>9, <1>10 DEF Named

\* The steps of callers that leave the channels alone.
LEMMA ConnectNamed ==
    ASSUME Inv, Named, NEW p \in Callers,
           Begin(p) \/ Connect(p) \/ Close(p) \/ CloseConn(p)
    PROVE  Named'
<1>1. UNCHANGED <<channels, sidMap, obj, pendingInit>>
  BY DEF Begin, Connect, Close, CloseConn, stateVars, cmdVars
<1>2. /\ \E l \in {"idle", "section", "closing"} : pc' = [pc EXCEPT ![p] = l]
      /\ \A q \in Callers \ {p} : out'[q] = out[q] /\ call'[q] = call[q]
  <2>1. \E l \in {"idle", "section", "closing"} : pc' = [pc EXCEPT ![p] = l]
    BY DEF Begin, Connect, Close, CloseConn, Return
  <2>2. /\ UNCHANGED call \/ \E c : call' = [call EXCEPT ![p] = c]
        /\ UNCHANGED out \/ out' = [out EXCEPT ![p] = NoSend]
    BY DEF Begin, Connect, Close, CloseConn, Return
  <2> QED BY <2>1, <2>2, Types, ReaderIsNoCaller
<1>3. CallersKeep
  BY <1>2, Types, ReaderIsNoCaller DEF CallersKeep, Sending
<1> QED BY <1>1, <1>3, NamedSteady DEF NamesSteady

\* A send: a subscribe becomes pending when it gets its id.
LEMMA SendNamed ==
    ASSUME Inv, Dialed, OneCaller, Named, First, NEW p \in Procs, SendStep(p)
    PROVE  Named'
<1>1. UNCHANGED <<channels, sidMap, obj, call>>
  BY DEF SendStep, Register, GrabConn, WriteDelivered, WriteLost, WriteTimeout,
         Written, SendFrame, stateVars
<1>2. /\ pc[p] \in Sending /\ \E l \in {"grab", "write", "finish"} : pc' = [pc EXCEPT ![p] = l]
      /\ \A q \in Procs : out'[q].kind = out[q].kind /\ out'[q].ch = out[q].ch
  <2>1. pc[p] \in Sending /\ \E l \in {"grab", "write", "finish"} : pc' = [pc EXCEPT ![p] = l]
    BY Zenon DEF SendStep, Register, GrabConn, WriteDelivered, WriteLost, WriteTimeout,
       Written, Sending
  <2>2. \/ \E ok : out' = [out EXCEPT ![p].ok = ok]
        \/ out' = [out EXCEPT ![p].id = NextID]
        \/ out' = [out EXCEPT ![p].conn = conn]
    BY Zenon DEF SendStep, Register, GrabConn, WriteDelivered, WriteLost,
       WriteTimeout, Written
  <2>3. out \in [Procs -> SendRecord] /\ out[p] \in SendRecord
    BY Types
  <2>4. ASSUME NEW ok, out' = [out EXCEPT ![p].ok = ok]
        PROVE  \A q \in Procs : out'[q].kind = out[q].kind /\ out'[q].ch = out[q].ch
    BY <2>3, <2>4 DEF SendRecord
  <2>5. ASSUME out' = [out EXCEPT ![p].id = NextID]
        PROVE  \A q \in Procs : out'[q].kind = out[q].kind /\ out'[q].ch = out[q].ch
    BY <2>3, <2>5 DEF SendRecord
  <2>6. ASSUME out' = [out EXCEPT ![p].conn = conn]
        PROVE  \A q \in Procs : out'[q].kind = out[q].kind /\ out'[q].ch = out[q].ch
    BY <2>3, <2>6 DEF SendRecord
  <2> QED BY <2>1, <2>2, <2>4, <2>5, <2>6
<1>3. /\ pc'[p] # "register" /\ pc'[p] \in Sending
      /\ \A q \in Procs : q # p => pc'[q] = pc[q]
  BY <1>2, Types DEF Sending
<1>4. CallersKeep
  BY <1>1, <1>2, <1>3, ReaderIsNoCaller DEF CallersKeep
<1>5. CASE UNCHANGED pendingInit
  BY <1>1, <1>4, <1>5, NamedSteady DEF NamesSteady
<1>6. CASE Register(p) /\ out[p].kind = "subscribe"
  <2> DEFINE e == [id |-> NextID, ch |-> out[p].ch]
  <2>1. pc[p] = "register" /\ pendingInit' = pendingInit \cup {e} /\ e.ch = out[p].ch
    BY <1>6 DEF Register
  <2>2. p \in Callers
    <3>1. ASSUME p = Reader PROVE FALSE
      <4>1. Recovering
        BY <1>6, <2>1, <3>1 DEF Recovering, Sending
      <4>2. Len(link) >= 2
        BY <4>1 DEF Dialed
      <4>3. Len(link) = 0 \/ Len(link) = 1
        BY DEF First
      <4>4. \A n : (n = 0 \/ n = 1) => ~(n >= 2)
        OBVIOUS
      <4> QED BY <4>2, <4>3, <4>4
    <3> QED BY <3>1 DEF Procs
  <2> HIDE DEF e
  <2>3. Unnamed(out[p].ch) /\ ~IsPending(out[p].ch)
    BY <1>6, <2>1, <2>2 DEF Named, CallsMatch
  <2>4. PendingMatch'
    <3>1. \A ch : Unnamed(ch)' <=> Unnamed(ch)
      BY <1>1 DEF Unnamed
    <3>2. \A f \in pendingInit' : Unnamed(f.ch)
      BY <2>1, <2>3 DEF Named, PendingMatch
    <3>3. \A f, g \in pendingInit' : f.ch = g.ch => f = g
      BY <2>1, <2>3 DEF Named, PendingMatch, IsPending
    <3> QED BY <3>1, <3>2, <3>3 DEF PendingMatch
  <2>5. CallsMatch'
    <3>1. \A q \in Callers : q = p
      BY <2>2 DEF OneCaller
    <3>2. call'[p].op = "unsubscribe" => FALSE
      BY <1>1, <1>2, <1>6, <2>1, <2>2 DEF Named, CallsMatch, Sending
    <3> QED BY <1>3, <3>1, <3>2 DEF CallsMatch
  <2>6. SidsMatch' /\ Uncounted'
    BY <1>1 DEF Named, SidsMatch, Uncounted, Unnamed
  <2> QED BY <2>4, <2>5, <2>6 DEF Named
<1>7. CASE Register(p) /\ out[p].kind # "subscribe"
  BY <1>5, <1>7 DEF Register
<1>8. CASE ~Register(p)
  BY <1>5, <1>8 DEF SendStep, GrabConn, WriteDelivered, WriteLost, WriteTimeout, Written,
                    cmdVars
<1> QED BY <1>6, <1>7, <1>8

\* While the first connection is in use nothing is recovered, and it is the one that
\* is read and written to.
LEMMA FirstOnly ==
    ASSUME Inv, Dialed, First
    PROVE  /\ ~Recovering
           /\ rconn # NoConn => rconn = 1
           /\ \A p \in Procs : pc[p] = "write" => out[p].conn = 1
<1>1. Len(link) = 0 \/ Len(link) = 1
  BY DEF First
<1>2. \A n : (n = 0 \/ n = 1) => ~(n >= 2) /\ n <= 1
  OBVIOUS
<1>3. ~Recovering
  BY <1>1, <1>2 DEF Dialed
<1>4. rconn # NoConn => rconn = 1
  BY <1>1, <1>2, FirstRead
<1>5. ASSUME NEW p \in Procs, pc[p] = "write" PROVE out[p].conn = 1
  <2>1. out[p].conn \in Nat \ {0} /\ out[p].conn <= Len(link)
    BY <1>5, Types DEF Dialed, SendRecord, Conns, NoConn
  <2>2. \A n \in Nat \ {0} : n <= 0 \/ n <= 1 => n = 1
    OBVIOUS
  <2> QED BY <1>1, <2>1, <2>2
<1> QED BY <1>3, <1>4, <1>5

\* An announcement gives its channel the sid.
LEMMA SubscribedNamed == ASSUME Inv, Named, HandleSubscribed PROVE Named'
<1>1. PICK e : Subscribed(e)
  BY SubscribedStep
<1> DEFINE o == channels[e.ch]
           s0 == M.sid
<1>2. CallersKeep
  <2>1. UNCHANGED call
    BY DEF HandleSubscribed, Incoming
  <2>2. /\ \E l : pc' = [pc EXCEPT ![Reader] = l]
        /\ UNCHANGED out \/ \E cmd : out' = [out EXCEPT ![Reader] = cmd]
    BY <1>1 DEF Subscribed, Goto
  <2> QED BY <2>1, <2>2, ReaderAway
<1>3. /\ e \in pendingInit /\ e.ch \in Channels /\ UNCHANGED channels
      /\ pendingInit' = pendingInit \ {e} /\ s0 \in Sids
  BY <1>1 DEF Subscribed
<1>4. Unnamed(e.ch) /\ IsPending(e.ch)
  BY <1>3 DEF Named, PendingMatch, IsPending
<1>5. o # Nil /\ o \in Objs /\ obj[o].sid = NoSID /\ obj[o].name = e.ch
     /\ obj[o] \in ChannelState
  BY <1>3, <1>4, Types DEF Unnamed, Inv, NamesMatch
<1>6. /\ sidMap' = [sidMap EXCEPT ![s0] = o]
      /\ obj' = [obj EXCEPT ![o] = [obj[o] EXCEPT !.sid = s0, !.pending = {}]]
  BY <1>1, <1>5 DEF Subscribed
<1>7. /\ \A q \in Objs : q # o => obj'[q] = obj[q]
      /\ obj'[o].sid = s0 /\ s0 # NoSID
      /\ sidMap'[s0] = o /\ \A s \in Sids : s # s0 => sidMap'[s] = sidMap[s]
  <2> HIDE DEF o, s0
  <2> QED BY <1>3, <1>5, <1>6, Types DEF ChannelState, Sids, NoSID
<1> HIDE DEF o, s0
<1>8. ASSUME NEW ch \in Channels, ch # e.ch
      PROVE  channels[ch] # Nil => channels[ch] \in Objs /\ channels[ch] # o
  BY <1>5, <1>8, Types DEF Inv, NamesMatch
<1>9. \A ch \in Channels : ch # e.ch => (Unnamed(ch) => Unnamed(ch)')
  BY <1>3, <1>7, <1>8 DEF Unnamed
<1>10. SidsMatch'
  <2> SUFFICES ASSUME NEW s \in Sids, sidMap'[s] # Nil PROVE obj'[sidMap'[s]].sid = s
    BY DEF SidsMatch
  <2>1. CASE s = s0
    BY <1>7, <2>1
  <2>2. CASE s # s0
    <3>1. sidMap'[s] = sidMap[s] /\ sidMap[s] \in Objs /\ obj[sidMap[s]].sid = s
      BY <1>7, <2>2, Types DEF Named, SidsMatch
    <3>2. sidMap[s] # o
      BY <1>5, <3>1 DEF Sids, NoSID
    <3> QED BY <1>7, <3>1, <3>2
  <2> QED BY <2>1, <2>2
<1>11. PendingMatch'
  <2>1. \A f \in pendingInit' : f \in pendingInit /\ f.ch \in Channels /\ f.ch # e.ch
    BY <1>3, Types DEF Named, PendingMatch, Pending
  <2>2. \A f \in pendingInit' : Unnamed(f.ch)'
    BY <1>9, <2>1 DEF Named, PendingMatch
  <2>3. \A f, g \in pendingInit' : f.ch = g.ch => f = g
    BY <2>1 DEF Named, PendingMatch
  <2> QED BY <2>2, <2>3 DEF PendingMatch
<1>12. \A ch : IsPending(ch)' => IsPending(ch)
  BY <1>3 DEF IsPending
<1>13. CallsMatch'
  <2> SUFFICES ASSUME NEW p \in Callers
               PROVE  /\ pc'[p] = "register" /\ out'[p].kind = "subscribe" =>
                           Unnamed(out[p].ch)' /\ ~IsPending(out[p].ch)'
                      /\ pc'[p] \in Sending /\ call'[p].op = "unsubscribe" =>
                           out'[p].kind = "unsubscribe" /\ ~IsPending(Ch(p))'
    BY Zenon DEF CallsMatch
  <2>1. ASSUME pc'[p] = "register", out'[p].kind = "subscribe"
        PROVE  Unnamed(out[p].ch)' /\ ~IsPending(out[p].ch)'
    <3>1. /\ pc[p] = "register" /\ out[p].kind = "subscribe" /\ out'[p].ch = out[p].ch
      BY <1>2, <2>1 DEF CallersKeep, Sending
    <3>2. out[p].ch \in Channels /\ Unnamed(out[p].ch) /\ ~IsPending(out[p].ch)
      BY <3>1, ReaderIsNoCaller DEF Named, CallsMatch, Inv, Shape, CommandShape
    <3>3. out[p].ch # e.ch
      BY <1>4, <3>2
    <3>4. Unnamed(out[p].ch)'
      BY <1>3, <1>7, <1>8, <3>1, <3>2, <3>3 DEF Unnamed
    <3>5. ~IsPending(out[p].ch)'
      BY <1>3, <3>1, <3>2 DEF IsPending
    <3> QED BY <3>4, <3>5
  <2>2. ASSUME pc'[p] \in Sending, call'[p].op = "unsubscribe"
        PROVE  out'[p].kind = "unsubscribe" /\ ~IsPending(Ch(p))'
    <3>1. /\ pc[p] \in Sending /\ call'[p] = call[p] /\ out'[p].kind = out[p].kind
      BY <1>2, <2>2 DEF CallersKeep
    <3>2. out[p].kind = "unsubscribe" /\ ~IsPending(Ch(p))
      BY <2>2, <3>1 DEF Named, CallsMatch
    <3> QED BY <1>3, <3>1, <3>2 DEF IsPending, Ch
  <2> QED BY <2>1, <2>2
<1>14. Uncounted'
  <2> SUFFICES ASSUME NEW ch \in Channels, Unnamed(ch)' PROVE obj'[channels'[ch]].seq = 0
    BY DEF Uncounted
  <2>1. channels'[ch] = channels[ch] /\ channels[ch] # Nil /\ obj'[channels[ch]].sid = NoSID
    BY <1>3 DEF Unnamed
  <2>2. ch # e.ch
    BY <1>7, <2>1 DEF o
  <2>3. obj'[channels[ch]] = obj[channels[ch]]
    BY <1>7, <1>8, <2>1, <2>2
  <2> QED BY <2>1, <2>3 DEF Named, Uncounted, Unnamed
<1> QED BY <1>10, <1>11, <1>13, <1>14 DEF Named

\* What a message other than an announcement changes: the number of the state that its
\* sid leads to, or the entry of its sid.
LEMMA HandlersCount ==
    ASSUME Inv, HandleIncoming, ~HandleSubscribed
    PROVE  /\ \A s \in Sids : sidMap'[s] # Nil => sidMap'[s] = sidMap[s]
           /\ \A o \in Objs :
                obj'[o].seq = obj[o].seq \/ (M.sid \in Sids /\ o = sidMap[M.sid])
<1>1. CASE HandleUnknownId \/ HandleUnsubscribed \/ HandleError
  BY <1>1 DEF HandleUnknownId, HandleUnsubscribed, HandleError, stateVars
<1>2. CASE HandleOK
  <2> DEFINE o == StateOf(M.sid)
  <2>1. /\ UNCHANGED sidMap
        /\ UNCHANGED obj \/ (o # Nil /\ obj' = [obj EXCEPT ![o] = Reconciled(o)])
    BY <1>2 DEF HandleOK
  <2>2. o # Nil => M.sid \in Sids /\ o = sidMap[M.sid]
    BY DEF StateOf
  <2> HIDE DEF o
  <2> QED BY <2>1, <2>2, Types
<1>3. CASE HandleDataMessage
  <2> DEFINE o == StateOf(M.sid)
  <2>1. /\ UNCHANGED sidMap
        /\ UNCHANGED obj \/ (o # Nil /\ obj' = [obj EXCEPT ![o].seq = M.seq])
    BY <1>3 DEF HandleDataMessage
  <2>2. o # Nil => M.sid \in Sids /\ o = sidMap[M.sid]
    BY DEF StateOf
  <2> HIDE DEF o, M
  <2> QED BY <2>1, <2>2, Types
<1> QED BY <1>1, <1>2, <1>3 DEF HandleIncoming

LEMMA HandleNamed == ASSUME Inv, Named, HandleIncoming PROVE Named'
<1>1. CASE HandleSubscribed
  BY <1>1, SubscribedNamed
<1>2. CASE ~HandleSubscribed
  <2>1. CallersKeep
    <3>1. UNCHANGED <<call, out>> /\ \E l : pc' = [pc EXCEPT ![Reader] = l]
      <4>1. PICK type : Incoming(type)
        BY DEF HandleIncoming, HandleSubscribed, HandleUnknownId, HandleOK,
               HandleUnsubscribed, HandleError, HandleDataMessage
      <4> QED BY <1>2, <4>1, HandlersKeep, HandlesStep DEF Handles, Goto, SendStart, Incoming
    <3> QED BY <3>1, ReaderAway
  <2>2. NamesSteady
    <3>1. \A o \in Objs : M.sid \in Sids /\ o = sidMap[M.sid] => obj[o].sid # NoSID
      BY Types, FirstTypes DEF Named, SidsMatch, NoSID, Nil
    <3> QED BY <1>2, <3>1, HandlersKeep, HandlersCount DEF NamesSteady
  <2> QED BY <2>1, <2>2, NamedSteady
<1> QED BY <1>1, <1>2

\* The reader's other steps, and those of nobody.
LEMMA QuietNamed ==
    ASSUME Inv, Dialed, Named, First',
           \/ LoopSteps \/ FlushSent \/ Deliver \/ HandleConnectionLoss
           \/ Consume \/ Cancel \/ Feed \/ UNCHANGED vars
    PROVE  Named'
<1>1. CASE LoopSteps
  <2>1. LoopFrame
    BY <1>1 DEF LoopSteps, LoopTop, Dial, Wait, EnterReadLoop, ReadError, CheckForce,
           LoopLeaves, WaitLoss, Redial
  <2>2. \E l : Goto(l)
    BY <1>1, Zenon DEF LoopSteps, LoopTop, Dial, Wait, EnterReadLoop, ReadError, CheckForce,
           LoopLeaves, WaitLoss, Redial
  <2>3. CallersKeep
    BY <2>1, <2>2, ReaderAway DEF LoopFrame, Goto
  <2> QED BY <2>1, <2>3, NamedSteady DEF NamesSteady, LoopFrame, stateVars, cmdVars
<1>2. CASE FlushSent
  <2>1. /\ UNCHANGED <<call, channels, sidMap, pendingInit>>
        /\ \E l : pc' = [pc EXCEPT ![Reader] = l]
        /\ \E cmd : out' = [out EXCEPT ![Reader] = cmd]
        /\ UNCHANGED obj \/ obj' = [obj EXCEPT ![flushing].pending = {}]
    BY <1>2, Zenon DEF FlushSent, SendStart, Goto, cmdVars
  <2>2. \A o \in Objs : obj'[o].sid = obj[o].sid /\ obj'[o].seq = obj[o].seq
    <3> SUFFICES ASSUME NEW o \in Objs
                 PROVE  obj'[o].sid = obj[o].sid /\ obj'[o].seq = obj[o].seq
      OBVIOUS
    <3>1. obj[o] \in ChannelState /\ obj'[o] \in {obj[o], [obj[o] EXCEPT !.pending = {}]}
      BY <2>1, Types
    <3> QED BY <3>1 DEF ChannelState
  <2>3. CallersKeep
    BY <2>1, ReaderAway
  <2> QED BY <2>1, <2>2, <2>3, NamedSteady DEF NamesSteady
<1>3. CASE Deliver
  <2>1. /\ UNCHANGED <<call, out, channels, sidMap, obj, pendingInit>>
        /\ pc' = [pc EXCEPT ![Reader] = "check"]
    BY <1>3 DEF Deliver, Goto, stateVars, cmdVars
  <2>2. CallersKeep
    BY <2>1, ReaderAway
  <2> QED BY <2>1, <2>2, NamedSteady DEF NamesSteady
<1>4. CASE HandleConnectionLoss
  <2>1. /\ UNCHANGED link /\ conn' = NoConn /\ rconn' = NoConn /\ rconn # NoConn
    BY <1>4 DEF HandleConnectionLoss, serverVars, Inv, Shape, ReaderShape, Attached, At
  <2>2. Len(link) # 0
    BY <2>1, Types DEF Dialed, Conns, NoConn
  <2> QED BY <2>1, <2>2 DEF First, NoConn
<1>5. CASE Consume \/ Cancel \/ Feed \/ UNCHANGED vars
  <2>1. UNCHANGED <<pc, call, out, channels, sidMap, obj, pendingInit>>
    BY <1>5 DEF Consume, Cancel, Feed, vars, clientVars, procVars, stateVars, cmdVars
  <2>2. CallersKeep
    BY <2>1 DEF CallersKeep
  <2> QED BY <2>1, <2>2, NamedSteady DEF NamesSteady
<1> QED BY <1>1, <1>2, <1>3, <1>4, <1>5

LEMMA NamedStep ==
    ASSUME Inv, Dialed, OneCaller, Named, First, First', [Next]_vars PROVE Named'
<1>1. ~RecoverSteps
  BY FirstOnly, RecoverDials
<1>2. ASSUME NEW p \in Callers, Methods(p) PROVE Named'
  BY <1>2, MethodsStep, MethodNamed
<1> QED BY <1>1, <1>2, StepCases, ConnectNamed, SendNamed, HandleNamed, QuietNamed
-----------------------------------------------------------------------------
(* The flag.                                                               *)

\* What a step does to the flag and the reader's place.
ForceEffect ==
    \/ force' = force /\ pc'[Reader] = pc[Reader]
    \/ force' = force /\ pc[Reader] \notin {"check", "deliver", "returned", "done"}
    \/ pc[Reader] = "check" /\ force' = FALSE /\ (force => pc'[Reader] = "returned")
    \/ pc[Reader] = "deliver" /\ force' = force /\ pc'[Reader] = "check"
    \/ /\ pc[Reader] \in {"read", "finish"} /\ pc'[Reader] \in {"check", "deliver"}
       /\ force => force'
    \/ pc[Reader] = "returned" /\ force' = force /\ pc'[Reader] = "done"
    \/ pc[Reader] = "returned" /\ force' = force /\ HandleConnectionLoss

LEMMA ForceSteps == ASSUME Inv, [Next]_vars PROVE ForceEffect
<1>1. /\ Reader \in Procs /\ pc \in [Procs -> CallerLabels \cup ReaderLabels]
      /\ force \in BOOLEAN /\ \A p \in Callers : p \in Procs /\ p # Reader
  BY Types, ReaderIsNoCaller
<1>2. ASSUME NEW p \in Callers,
             Begin(p) \/ Methods(p) \/ Connect(p) \/ Close(p) \/ CloseConn(p)
      PROVE  ForceEffect
  <2>1. force' = force /\ \E l : pc' = [pc EXCEPT ![p] = l]
    <3>1. CASE Begin(p) \/ Connect(p) \/ Close(p) \/ CloseConn(p)
      BY <3>1 DEF Begin, Connect, Close, CloseConn, Return, flagVars
    <3>2. CASE Methods(p)
      <4>1. MethodStep(p)
        BY <3>2, MethodsStep
      <4> QED BY <4>1 DEF MethodStep, MethodFrame, ControlStep, flagVars
    <3> QED BY <1>2, <3>1, <3>2
  <2> QED BY <1>1, <2>1 DEF ForceEffect
<1>3. ASSUME NEW p \in Procs, SendStep(p) PROVE ForceEffect
  <2>1. /\ force' = force /\ pc[p] \in Sending /\ \E l : pc' = [pc EXCEPT ![p] = l]
    BY <1>3, Zenon DEF SendStep, Register, GrabConn, WriteDelivered, WriteLost, WriteTimeout,
       Written, SendFrame, flagVars, Sending
  <2>2. CASE p = Reader
    BY <2>1, <2>2 DEF Sending, ForceEffect
  <2>3. CASE p # Reader
    BY <1>1, <2>1, <2>3 DEF ForceEffect
  <2> QED BY <2>2, <2>3
<1>4. ASSUME LoopSteps PROVE ForceEffect
  <2>1. CASE LoopTop \/ Dial \/ Wait \/ EnterReadLoop \/ ReadError \/ WaitLoss \/ Redial
    BY <2>1 DEF LoopTop, Dial, Wait, EnterReadLoop, ReadError, WaitLoss, Redial, At,
                ForceEffect
  <2>2. CASE CheckForce
    <3>1. /\ pc[Reader] = "check" /\ force' = FALSE
          /\ force => pc' = [pc EXCEPT ![Reader] = "returned"]
      BY <2>2 DEF CheckForce, Goto, At
    <3> QED BY <1>1, <3>1 DEF ForceEffect
  <2>3. CASE LoopLeaves
    <3>1. /\ pc[Reader] = "returned" /\ force' = force
          /\ pc' = [pc EXCEPT ![Reader] = "done"]
      BY <2>3 DEF LoopLeaves, Goto, At
    <3> QED BY <1>1, <3>1 DEF ForceEffect
  <2> QED BY <1>4, <2>1, <2>2, <2>3 DEF LoopSteps
<1>5. ASSUME HandleIncoming PROVE ForceEffect
  <2>1. pc[Reader] = "read"
    BY <1>5, HandlesStep DEF Handles
  <2>2. \/ force' = force
        \/ (force => force') /\ \E l \in {"check", "deliver"} : Goto(l)
    BY <1>5 DEF HandleIncoming, HandleSubscribed, HandleUnknownId, HandleOK,
               HandleUnsubscribed, HandleError, HandleDataMessage, Handled
  <2>3. \A l : Goto(l) => pc'[Reader] = l
    BY <1>1 DEF Goto
  <2> QED BY <2>1, <2>2, <2>3 DEF ForceEffect
<1>6. ASSUME FlushSent PROVE ForceEffect
  <2>1. /\ pc[Reader] = "finish"
        /\ \/ force' = force
           \/ (force => force') /\ pc' = [pc EXCEPT ![Reader] = "check"]
    BY <1>6 DEF FlushSent, Goto, At
  <2> QED BY <1>1, <2>1 DEF ForceEffect
<1>7. ASSUME Deliver PROVE ForceEffect
  <2>1. /\ pc[Reader] = "deliver" /\ force' = force
        /\ pc' = [pc EXCEPT ![Reader] = "check"]
    BY <1>7 DEF Deliver, Goto, At
  <2> QED BY <1>1, <2>1 DEF ForceEffect
<1>8. ASSUME HandleConnectionLoss PROVE ForceEffect
  BY <1>8 DEF HandleConnectionLoss, ForceEffect, At, flagVars
<1>9. ASSUME RecoverSteps PROVE ForceEffect
  BY <1>9 DEF RecoverSteps, RecoverStart, RecoverEnd, RecoverSent, RecoverNext, RecoverFrame,
             flagVars, At, ForceEffect
<1>10. ASSUME Consume \/ Cancel \/ Feed \/ UNCHANGED vars PROVE ForceEffect
  BY <1>10 DEF Consume, Cancel, Feed, vars, clientVars, procVars, flagVars, ForceEffect
<1> QED BY <1>2, <1>3, <1>4, <1>5, <1>6, <1>7, <1>8, <1>9, <1>10, StepCases

LEMMA ForceKept == ASSUME Inv, ForceSeen, [Next]_vars PROVE ForceSeen'
<1>1. ForceEffect
  BY ForceSteps
<1> QED BY <1>1 DEF ForceSeen, ForceEffect

-----------------------------------------------------------------------------
(* What the service says on the first connection.                          *)

\* A message on subscription s, which goes on with the next number.
Told(s) ==
    LET sub == subs[1][s]
        next == subs'[1][s]
    IN  /\ s \in DOMAIN subs[1] /\ DOMAIN subs'[1] = DOMAIN subs[1]
        /\ \A t \in DOMAIN subs[1] : t # s => subs'[1][t] = subs[1][t]
        /\ next \in Subscription /\ next.ch = sub.ch
        /\ Numbered(sub) => Next1(sub, next)
        /\ ~Numbered(sub) => next.seq = sub.seq /\ next.gap = sub.gap
        /\ \E m \in Message :
             /\ down'[1] = Append(down[1], m)
             /\ m.sid = s /\ m.type \notin {"subscribed", "error"} /\ m.seq = next.seq

\* A new subscription s and its announcement.
Begun(s) ==
    LET next == subs'[1][s]
    IN  /\ s \in Sids /\ s \notin DOMAIN subs[1]
        /\ DOMAIN subs'[1] = DOMAIN subs[1] \cup {s}
        /\ \A t \in DOMAIN subs[1] : subs'[1][t] = subs[1][t]
        /\ next.seq = 0 /\ next.gap = 0 /\ next.sent = FALSE /\ next.lost = FALSE
        /\ \E m \in Message :
             down'[1] = Append(down[1], m) /\ m.sid = s /\ m.type = "subscribed"

\* An error that belongs to no subscription.
Refused ==
    /\ subs'[1] = subs[1]
    /\ \E m \in Message :
         down'[1] = Append(down[1], m) /\ m.sid = 0 /\ m.type = "error"

\* A number of subscription s is skipped.
Skips(s) ==
    /\ MayLose /\ s \in DOMAIN subs[1] /\ Numbered(subs[1][s])
    /\ DOMAIN subs'[1] = DOMAIN subs[1]
    /\ \A t \in DOMAIN subs[1] : t # s => subs'[1][t] = subs[1][t]
    /\ subs'[1][s] = Skipped(subs[1][s]) /\ down'[1] = down[1]

Silent == subs'[1] = subs[1] /\ down'[1] = down[1]

Says == Silent \/ Refused \/ \E s : Told(s) \/ Begun(s) \/ Skips(s)

\* The service goes on with a subscription.
LEMMA AdvanceFields ==
    ASSUME NEW sub \in Subscription
    PROVE  LET next == Advance(sub)
           IN  /\ next \in Subscription /\ next.ch = sub.ch
               /\ Numbered(sub) => Next1(sub, next)
               /\ ~Numbered(sub) => next = sub
<1>1. Advance(sub) \in Subscription /\ Advance(sub).ch = sub.ch
  BY AdvanceType
<1> DEFINE gap == IF sub.gap = 0 /\ sub.lost THEN sub.seq + 1 ELSE sub.gap
<1>2. ASSUME Numbered(sub) PROVE Next1(sub, Advance(sub))
  <2>1. Advance(sub) = [sub EXCEPT !.seq = @ + 1, !.sent = TRUE, !.gap = gap]
    BY <1>2 DEF Advance
  <2>2. [sub EXCEPT !.seq = @ + 1, !.sent = TRUE, !.gap = gap].gap = gap
    <3> HIDE DEF gap
    <3> QED BY DEF Subscription
  <2>3. /\ Advance(sub).seq = sub.seq + 1 /\ Advance(sub).sent = TRUE
        /\ Advance(sub).lost = sub.lost
    <3> HIDE DEF gap
    <3> QED BY <2>1 DEF Subscription
  <2> QED BY <2>1, <2>2, <2>3 DEF Next1
<1>3. ~Numbered(sub) => Advance(sub) = sub
  BY DEF Advance
<1> QED BY <1>1, <1>2, <1>3

\* A message on a subscription of the first connection.
LEMMA AnswerTold ==
    ASSUME Inv, NEW s \in DOMAIN subs[1], NEW sub \in Subscription,
           sub.ch = subs[1][s].ch, sub.seq = subs[1][s].seq, sub.gap = subs[1][s].gap,
           sub.lost = subs[1][s].lost,
           NEW type \in MessageTypes \ {"subscribed", "error"}, NEW id \in Nat,
           NEW tickers \in SUBSET Tickers, Answer(1, s, sub, type, id, tickers)
    PROVE  Told(s)
<1> DEFINE next == Advance(sub)
           m == Msg(type, id, s, next.seq, tickers)
<1>1. /\ next \in Subscription /\ next.ch = sub.ch
      /\ Numbered(sub) => Next1(sub, next)
      /\ ~Numbered(sub) => next = sub
  BY AdvanceFields
<1>2. subs' = [subs EXCEPT ![1][s] = next] /\ down' = [down EXCEPT ![1] = Append(@, m)]
  BY DEF Answer
<1>3. s \in Sids /\ next.seq \in Nat
  BY <1>1, FirstTypes DEF Subscription
<1> HIDE DEF next
<1>4. m \in Message /\ m.sid = s /\ m.type = type /\ m.seq = next.seq
  BY <1>3 DEF Msg, Message
<1> HIDE DEF m
<1>5. down'[1] = Append(down[1], m)
  BY <1>2, Types, OneConn
<1>6. subs'[1] = [subs[1] EXCEPT ![s] = next]
  BY <1>2, Types, OneConn
<1>7. /\ subs'[1][s] = next /\ DOMAIN subs'[1] = DOMAIN subs[1]
      /\ \A t \in DOMAIN subs[1] : t # s => subs'[1][t] = subs[1][t]
  BY <1>6
<1>8. Numbered(subs[1][s]) <=> Numbered(sub)
  BY DEF Numbered
<1>9. Next1(sub, next) => Next1(subs[1][s], next)
  BY DEF Next1
<1> QED BY <1>1, <1>4, <1>5, <1>7, <1>8, <1>9 DEF Told

\* What a command leads to, when it is not rejected.
LEMMA ReceiveSays ==
    ASSUME Inv, ~MayReject, NEW cmd, Received(cmd), Receive(1, cmd) PROVE Says
<1>0. cmd.id \in Nat /\ cmd.tickers \in SUBSET Tickers
  BY DEF Received
<1>1. CASE AcceptSubscribe(1, cmd)
  <2> DEFINE s == Len(subs[1]) + 1
             m == Msg("subscribed", cmd.id, s, 0, {})
             sub == [ch |-> cmd.ch, global |-> cmd.global, tickers |-> cmd.tickers,
                     live |-> TRUE, seq |-> 0, sent |-> FALSE, lost |-> FALSE, gap |-> 0]
  <2>1. /\ subs' = [subs EXCEPT ![1] = Append(@, sub)]
        /\ down' = [down EXCEPT ![1] = Append(@, m)] /\ Len(subs[1]) < MaxSubs
    BY <1>1 DEF AcceptSubscribe
  <2>2. sub.seq = 0 /\ sub.gap = 0 /\ sub.sent = FALSE /\ sub.lost = FALSE
    OBVIOUS
  <2> HIDE DEF sub
  <2>3. subs'[1] = Append(subs[1], sub) /\ down'[1] = Append(down[1], m)
    BY <2>1, Types, OneConn
  <2>4. /\ DOMAIN subs[1] = 1..Len(subs[1]) /\ Len(subs[1]) \in Nat
        /\ DOMAIN subs'[1] = 1..(Len(subs[1]) + 1)
        /\ \A t \in DOMAIN subs[1] : subs'[1][t] = subs[1][t]
        /\ subs'[1][s] = sub
    BY <2>3, FirstTypes, LenProperties, AppendProperties
  <2>5. s \in Sids /\ s \notin DOMAIN subs[1] /\ DOMAIN subs'[1] = DOMAIN subs[1] \cup {s}
    BY <2>1, <2>4, ServerAssumption DEF Sids, ServerAssumption
  <2>6. m \in Message /\ m.sid = s /\ m.type = "subscribed"
    <3> HIDE DEF s
    <3> QED BY <1>0, <2>5 DEF Message, Msg, MessageTypes
  <2> HIDE DEF s, m
  <2>7. Begun(s)
    BY <2>2, <2>3, <2>4, <2>5, <2>6 DEF Begun
  <2> QED BY <2>7 DEF Says
<1>2. CASE AcceptUpdate(1, cmd)
  <2> DEFINE tickers == UpdatedTickers(subs[1][cmd.sid], cmd)
             sub == [subs[1][cmd.sid] EXCEPT !.tickers = tickers, !.global = FALSE]
  <2>1. cmd.sid \in DOMAIN subs[1] /\ Answer(1, cmd.sid, sub, "ok", cmd.id, tickers)
    BY <1>2 DEF AcceptUpdate, Live
  <2>2. subs[1][cmd.sid] \in Subscription
    BY <2>1, FirstTypes
  <2>3. tickers \in SUBSET Tickers
    BY <1>0, <2>2 DEF UpdatedTickers, Subscription
  <2>4. /\ sub \in Subscription /\ sub.ch = subs[1][cmd.sid].ch
        /\ sub.seq = subs[1][cmd.sid].seq /\ sub.gap = subs[1][cmd.sid].gap
        /\ sub.lost = subs[1][cmd.sid].lost
    <3> HIDE DEF tickers
    <3> QED BY <2>2, <2>3 DEF Subscription
  <2> HIDE DEF sub, tickers
  <2>5. "ok" \in MessageTypes \ {"subscribed", "error"}
    BY DEF MessageTypes
  <2>6. Told(cmd.sid)
    BY <1>0, <2>1, <2>3, <2>4, <2>5, AnswerTold
  <2> QED BY <2>6 DEF Says
<1>3. CASE AcceptSnapshot(1, cmd)
  <2>1. /\ cmd.sid \in DOMAIN subs[1]
        /\ Answer(1, cmd.sid, subs[1][cmd.sid], "data", 0, {})
    BY <1>3 DEF AcceptSnapshot, Live
  <2>2. subs[1][cmd.sid] \in Subscription /\ "data" \in MessageTypes \ {"subscribed", "error"}
    BY <2>1, FirstTypes DEF MessageTypes
  <2>3. Told(cmd.sid)
    BY <2>1, <2>2, AnswerTold
  <2> QED BY <2>3 DEF Says
<1>4. CASE AcceptUnsubscribe(1, cmd)
  <2> DEFINE sub == [subs[1][cmd.sid] EXCEPT !.live = FALSE]
  <2>1. cmd.sid \in DOMAIN subs[1] /\ Answer(1, cmd.sid, sub, "unsubscribed", cmd.id, {})
    BY <1>4 DEF AcceptUnsubscribe, Live
  <2>2. subs[1][cmd.sid] \in Subscription
        /\ "unsubscribed" \in MessageTypes \ {"subscribed", "error"}
    BY <2>1, FirstTypes DEF MessageTypes
  <2>3. /\ sub \in Subscription /\ sub.ch = subs[1][cmd.sid].ch
        /\ sub.seq = subs[1][cmd.sid].seq /\ sub.gap = subs[1][cmd.sid].gap
        /\ sub.lost = subs[1][cmd.sid].lost
    BY <2>2 DEF Subscription
  <2> HIDE DEF sub
  <2>4. Told(cmd.sid)
    BY <1>0, <2>1, <2>2, <2>3, AnswerTold
  <2> QED BY <2>4 DEF Says
<1>5. CASE UnknownSid(1, cmd)
  <2> DEFINE m == Msg("error", cmd.id, 0, 0, {})
  <2>1. down' = [down EXCEPT ![1] = Append(@, m)] /\ subs' = subs
    BY <1>5 DEF UnknownSid, Error
  <2>2. m \in Message /\ m.sid = 0 /\ m.type = "error"
    BY <1>0 DEF Message, Msg, MessageTypes
  <2> HIDE DEF m
  <2>3. Refused
    BY <2>1, <2>2, Types, OneConn DEF Refused
  <2> QED BY <2>3 DEF Says
<1> QED BY <1>1, <1>2, <1>3, <1>4, <1>5 DEF Receive, Reject

LEMMA FeedSays == ASSUME Inv, ServerStep PROVE Says
<1>1. PICK k \in Conns : Break(k) \/ \E s \in Sids : Send(k, s) \/ Lose(k, s)
  BY DEF ServerStep
<1>2. CASE Break(k)
  BY <1>2 DEF Break, Says, Silent
<1>3. ASSUME NEW s \in Sids, Send(k, s) PROVE Says
  <2>1. s \in DOMAIN subs[k] /\ Answer(k, s, subs[k][s], "data", 0, {})
    BY <1>3 DEF Send, CanSend, Live
  <2>2. CASE k = 1
    <3>1. subs[1][s] \in Subscription /\ "data" \in MessageTypes \ {"subscribed", "error"}
      BY <2>1, <2>2, FirstTypes DEF MessageTypes
    <3>2. Told(s)
      BY <2>1, <2>2, <3>1, AnswerTold
    <3> QED BY <3>2 DEF Says
  <2>3. CASE k # 1
    BY <2>1, <2>3, Types, OneConn DEF Answer, Says, Silent
  <2> QED BY <2>2, <2>3
<1>4. ASSUME NEW s \in Sids, Lose(k, s) PROVE Says
  <2>1. /\ MayLose /\ s \in DOMAIN subs[k] /\ Numbered(subs[k][s]) /\ UNCHANGED down
        /\ subs' = [subs EXCEPT ![k][s] = Skipped(subs[k][s])]
    BY <1>4 DEF Lose, CanSend, Live
  <2>2. CASE k = 1
    <3>1. subs'[1] = [subs[1] EXCEPT ![s] = Skipped(subs[1][s])]
      BY <2>1, <2>2, Types, OneConn
    <3>2. Skips(s)
      BY <2>1, <2>2, <3>1 DEF Skips
    <3> QED BY <3>2 DEF Says
  <2>3. CASE k # 1
    BY <2>1, <2>3, Types, OneConn DEF Says, Silent
  <2> QED BY <2>2, <2>3
<1> QED BY <1>1, <1>2, <1>3, <1>4

\* The numbers that the client has stay, or go with their sid; a reader that is leaving
\* goes on leaving.
Followed ==
    /\ \A s \in Sids : sidMap'[s] # Nil =>
         sidMap'[s] = sidMap[s] /\ obj'[sidMap[s]].seq = obj[sidMap[s]].seq
    /\ Forced => Forced'

\* Steps other than reading a message.
LEMMA QuietSteps ==
    ASSUME Inv, Dialed, First, First', ~MayReject, [Next]_vars, ~HandleIncoming
    PROVE  Followed /\ Says
<1>1. Forced => Forced'
  <2>1. ASSUME HandleConnectionLoss PROVE FALSE
    <3>1. /\ UNCHANGED link /\ conn' = NoConn /\ rconn' = NoConn /\ rconn # NoConn
      BY <2>1 DEF HandleConnectionLoss, serverVars, Inv, Shape, ReaderShape, Attached, At
    <3>2. Len(link) # 0
      BY <3>1, Types DEF Dialed, Conns, NoConn
    <3> QED BY <3>1, <3>2 DEF First, NoConn
  <2> QED BY <2>1, ForceSteps, Types DEF ForceEffect, Forced
<1>2. ~RecoverSteps
  BY FirstOnly, RecoverDials
<1>3. Reader \in Procs /\ \A p \in Callers : p \in Procs
  BY ReaderIsNoCaller
<1> DEFINE Steps == \A s \in Sids : sidMap'[s] # Nil =>
                      sidMap'[s] = sidMap[s] /\ obj'[sidMap[s]].seq = obj[sidMap[s]].seq
<1>4. ASSUME NEW p \in Callers, Methods(p) PROVE Steps /\ Silent
  <2>1. MethodStep(p)
    BY <1>4, MethodsStep
  <2> QED BY <2>1 DEF MethodStep, MethodFrame, HeapStep, Steady, Silent, serverVars
<1>5. ASSUME NEW p \in Callers, Begin(p) \/ Connect(p) \/ Close(p) \/ CloseConn(p)
      PROVE  Steps /\ Silent
  BY <1>5 DEF Begin, Connect, Close, CloseConn, Dialled, DialFailed, stateVars, Silent,
              serverVars
<1>6. ASSUME NEW p \in Procs, SendStep(p) PROVE Steps /\ Says
  <2>1. UNCHANGED <<sidMap, obj>>
    BY <1>6 DEF SendStep, Register, GrabConn, WriteDelivered, WriteLost, WriteTimeout,
         Written, SendFrame, stateVars
  <2>2. CASE WriteDelivered(p)
    <3>1. out[p].conn = 1
      BY <2>2, FirstOnly DEF WriteDelivered
    <3>2. Received(out[p]) /\ Receive(1, out[p])
      BY <2>2, <3>1, DeliveredFacts
    <3> QED BY <2>1, <3>2, ReceiveSays
  <2>3. CASE ~WriteDelivered(p)
    <3>1. UNCHANGED <<subs, down>>
      BY <1>6, <2>3 DEF SendStep, Register, GrabConn, WriteLost, WriteTimeout, serverVars
    <3> QED BY <2>1, <3>1 DEF Says, Silent
  <2> QED BY <2>2, <2>3
<1>7. ASSUME LoopSteps PROVE Steps /\ Silent
  <2>1. LoopFrame
    BY <1>7 DEF LoopSteps, LoopTop, Dial, Wait, EnterReadLoop, ReadError, CheckForce,
           LoopLeaves, WaitLoss, Redial
  <2>2. UNCHANGED <<subs, down>>
    BY <1>7 DEF LoopSteps, LoopTop, Dial, Wait, EnterReadLoop, ReadError, CheckForce,
         LoopLeaves, WaitLoss, Redial, Dialled, DialFailed, serverVars
  <2> QED BY <2>1, <2>2 DEF LoopFrame, stateVars, Silent
<1>8. ASSUME FlushSent PROVE Steps /\ Silent
  <2>1. /\ UNCHANGED <<sidMap, subs, down>>
        /\ UNCHANGED obj \/ obj' = [obj EXCEPT ![flushing].pending = {}]
    BY <1>8, Zenon DEF FlushSent, serverVars
  <2>2. ASSUME NEW o \in Objs PROVE obj'[o].seq = obj[o].seq
    <3>1. obj[o] \in ChannelState /\ obj'[o] \in {obj[o], [obj[o] EXCEPT !.pending = {}]}
      BY <2>1, Types
    <3> QED BY <3>1 DEF ChannelState
  <2>3. \A s \in Sids : sidMap[s] # Nil => sidMap[s] \in Objs
    BY Types
  <2> QED BY <2>1, <2>2, <2>3 DEF Silent
<1>9. ASSUME Deliver PROVE Steps /\ Silent
  BY <1>9 DEF Deliver, stateVars, serverVars, Silent
<1>10. ASSUME HandleConnectionLoss PROVE Steps /\ Silent
  BY <1>10 DEF HandleConnectionLoss, ClearedSids, serverVars, Silent
<1>11. ASSUME Consume \/ Cancel \/ Feed \/ UNCHANGED vars PROVE Steps /\ Says
  <2>1. UNCHANGED <<sidMap, obj>>
    BY <1>11 DEF Consume, Cancel, Feed, vars, clientVars, stateVars
  <2>2. Says
    <3>1. CASE Feed
      BY <3>1, FeedSays DEF Feed
    <3>2. CASE Consume \/ Cancel \/ UNCHANGED vars
      BY <3>2 DEF Consume, Cancel, vars, serverVars, Says, Silent
    <3> QED BY <1>11, <3>1, <3>2
  <2> QED BY <2>1, <2>2
<1>12. Steps /\ Says
  <2>1. Silent => Says
    BY DEF Says
  <2> HIDE DEF Steps
  <2> QED BY <1>2, <1>4, <1>5, <1>6, <1>7, <1>8, <1>9, <1>10, <1>11, <2>1, StepCases
<1> QED BY <1>1, <1>12 DEF Followed
-----------------------------------------------------------------------------
(* Numbers and messages stay together.                                     *)

\* What is followed after a step other than reading was followed before, from the same
\* number.
LEMMA TrackedSteady ==
    ASSUME Inv, Order, Followed, NEW s \in Sids,
           sidMap'[s] # Nil \/ BornOf(down[1], s) # {}
    PROVE  Tracked(s) /\ N(s)' = N(s)
<1>1. CASE sidMap'[s] # Nil
  BY <1>1 DEF Followed, Tracked, N
<1>2. CASE sidMap'[s] = Nil
  <2>1. sidMap[s] = Nil
    BY <1>2 DEF Order
  <2> QED BY <1>2, <2>1 DEF Tracked, N
<1> QED BY <1>1, <1>2

\* The order of the messages, when there may be one more.
LEMMA OrderAppended ==
    ASSUME Inv, Order, NEW m \in Message, down'[1] = Append(down[1], m),
           DOMAIN subs[1] \subseteq DOMAIN subs'[1],
           m.sid = 0 \/ m.sid \in DOMAIN subs'[1],
           m.type = "error" => m.sid = 0,
           \A s \in Sids : sidMap'[s] # Nil => sidMap[s] # Nil,
           m.type = "subscribed" => /\ \A i \in DOMAIN down[1] : down[1][i].sid # m.sid
                                    /\ m.sid \in Sids => sidMap[m.sid] = Nil
    PROVE  Order'
<1> DEFINE a == Append(down[1], m)
           last == Len(down[1]) + 1
<1>1. /\ last \in Nat /\ last \in DOMAIN a /\ a[last] = m
      /\ \A i \in DOMAIN a : i = last \/ i \in DOMAIN down[1]
      /\ \A i \in DOMAIN down[1] : i \in Nat /\ i < last /\ i \in DOMAIN a /\ a[i] = down[1][i]
  BY FirstTypes, Appended
<1> HIDE DEF a, last
<1>2. ASSUME NEW i \in DOMAIN a
      PROVE  /\ a[i].sid = 0 \/ a[i].sid \in DOMAIN subs'[1]
             /\ a[i].type = "error" => a[i].sid = 0
  <2>1. CASE i = last
    BY <1>1, <2>1
  <2>2. CASE i \in DOMAIN down[1]
    BY <1>1, <2>2 DEF Order
  <2> QED BY <1>1, <2>1, <2>2
<1>3. ASSUME NEW s \in Sids, NEW i \in BornOf(a, s)
      PROVE  /\ \A j \in NewsOf(a, s) : i < j
             /\ \A j \in BornOf(a, s) : i = j
             /\ sidMap'[s] = Nil
  <2>1. CASE i = last
    <3>1. m.sid = s /\ m.type = "subscribed"
      BY <1>1, <1>3, <2>1 DEF BornOf
    <3>2. NewsOf(a, s) = {} /\ \A j \in BornOf(a, s) : j = last
      BY <1>1, <3>1 DEF NewsOf, BornOf
    <3> QED BY <2>1, <3>1, <3>2
  <2>2. CASE i # last
    <3>1. i \in BornOf(down[1], s)
      BY <1>1, <1>3, <2>2 DEF BornOf
    <3>2. /\ sidMap[s] = Nil
          /\ \A j \in NewsOf(down[1], s) : i < j
          /\ \A j \in BornOf(down[1], s) : i = j
      BY <3>1 DEF Order
    <3>3. ~(m.sid = s /\ m.type = "subscribed")
      BY <3>1 DEF BornOf
    <3>4. \A j \in NewsOf(a, s) : j = last \/ j \in NewsOf(down[1], s)
      BY <1>1 DEF NewsOf
    <3>5. \A j \in BornOf(a, s) : j \in BornOf(down[1], s)
      BY <1>1, <3>3 DEF BornOf
    <3>6. i < last
      BY <1>1, <3>1 DEF BornOf
    <3>7. \A j \in NewsOf(a, s) : i < j
      BY <3>2, <3>4, <3>6
    <3>8. \A j \in BornOf(a, s) : i = j
      BY <3>2, <3>5
    <3>9. sidMap'[s] = Nil
      BY <3>2
    <3> QED BY <3>7, <3>8, <3>9
  <2> QED BY <2>1, <2>2
<1>4. down'[1] = a
  BY DEF a
<1> QED BY <1>2, <1>3, <1>4 DEF Order

\* A subscription that the message is not about.
LEMMA OthersFlow ==
    ASSUME Inv, Order, Flow, Followed, NEW s \in DOMAIN subs[1], subs'[1][s] = subs[1][s],
           \/ down'[1] = down[1]
           \/ \E m \in Message : down'[1] = Append(down[1], m) /\ m.sid # s,
           Tracked(s)'
    PROVE  FlowOf(s)'
<1> DEFINE sub == subs[1][s]
<1>1. s \in Sids /\ sub \in Subscription
  BY FirstTypes
<1>2. BornOf(down'[1], s) = BornOf(down[1], s)
  <2>1. CASE down'[1] = down[1]
    BY <2>1
  <2>2. CASE \E m \in Message : down'[1] = Append(down[1], m) /\ m.sid # s
    <3>1. PICK m \in Message : down'[1] = Append(down[1], m) /\ m.sid # s
      BY <2>2
    <3>2. BornOf(Append(down[1], m), s) = BornOf(down[1], s)
      BY <3>1, NewsAppended, FirstTypes
    <3> QED BY <3>1, <3>2
  <2> QED BY <2>1, <2>2
<1>3. Tracked(s) /\ N(s)' = N(s)
  BY <1>1, <1>2, TrackedSteady DEF Tracked
<1>4. FlowOf(s)
  BY <1>3 DEF Flow
<1>5. /\ Fits(N(s), down[1], s, sub) => Fits(N(s), down'[1], s, sub)
      /\ Revealed(down[1], s, sub) => Revealed(down'[1], s, sub)
      /\ Unbroken(N(s), down[1], s, sub) => Unbroken(N(s), down'[1], s, sub)
      /\ Plain(N(s), down[1], s, sub) => Plain(N(s), down'[1], s, sub)
  <2>1. CASE down'[1] = down[1]
    BY <2>1
  <2>2. CASE \E m \in Message : down'[1] = Append(down[1], m) /\ m.sid # s
    BY <2>2, OtherAppended, FirstTypes
  <2> QED BY <2>1, <2>2
<1> HIDE DEF sub
<1>6. subs'[1][s] = sub
  BY DEF sub
<1> QED BY <1>3, <1>4, <1>5, <1>6 DEF FlowOf, Followed, sub

\* The next message of subscription s.
LEMMA ToldFlow ==
    ASSUME Inv, Order, Flow, Followed, NEW s, Told(s) PROVE Order' /\ Flow'
<1> DEFINE sub == subs[1][s]
           next == subs'[1][s]
<1>1. /\ s \in DOMAIN subs[1] /\ DOMAIN subs'[1] = DOMAIN subs[1]
      /\ \A t \in DOMAIN subs[1] : t # s => subs'[1][t] = subs[1][t]
      /\ next \in Subscription /\ next.ch = sub.ch
      /\ Numbered(sub) => Next1(sub, next)
      /\ ~Numbered(sub) => next.seq = sub.seq /\ next.gap = sub.gap
  BY DEF Told
<1>2. PICK m \in Message : /\ down'[1] = Append(down[1], m)
                           /\ m.sid = s /\ m.type \notin {"subscribed", "error"}
                           /\ m.seq = next.seq
  BY DEF Told
<1>3. s \in Sids /\ sub \in Subscription /\ N(s) \in Nat /\ down[1] \in Seq(Message)
  BY <1>1, FirstTypes
<1>4. \A t \in Sids : sidMap'[t] # Nil => sidMap[t] # Nil
  BY DEF Followed
<1>5. Order'
  BY <1>1, <1>2, <1>4, OrderAppended
<1>6. ASSUME NEW t \in DOMAIN subs[1], t # s, Tracked(t)' PROVE FlowOf(t)'
  BY <1>1, <1>2, <1>6, OthersFlow
<1>7. ASSUME Tracked(s)' PROVE FlowOf(s)'
  <2>1. BornOf(down'[1], s) = BornOf(down[1], s)
    BY <1>2, <1>3, NewsAppended
  <2>2. Tracked(s) /\ N(s)' = N(s)
    BY <1>3, <1>7, <2>1, TrackedSteady DEF Tracked
  <2>3. FlowOf(s)
    BY <1>1, <2>2 DEF Flow
  <2>4. CASE Numbered(sub)
    <3>1. /\ Fits(N(s), down[1], s, sub)
          /\ sub.gap # 0 => Revealed(down[1], s, sub) \/ Forced
          /\ ~MayLose => Unbroken(N(s), down[1], s, sub)
      BY <2>3, <2>4 DEF FlowOf
    <3>2. /\ Fits(N(s), down'[1], s, next)
          /\ next.gap # 0 => \/ Revealed(down'[1], s, next)
                             \/ sub.gap # 0 /\ ~Revealed(down[1], s, sub)
          /\ Unbroken(N(s), down[1], s, sub) => Unbroken(N(s), down'[1], s, next)
      <4>1. Next1(sub, next) /\ next \in Subscription
        BY <1>1, <2>4
      <4> HIDE DEF sub, next
      <4>2. m.sid = s /\ m.type # "subscribed" /\ m.seq = next.seq
        BY <1>2
      <4>3. Fits(N(s), down[1], s, sub)
        BY <3>1
      <4>4. /\ Fits(N(s), Append(down[1], m), s, next)
            /\ next.gap # 0 => \/ Revealed(Append(down[1], m), s, next)
                               \/ sub.gap # 0 /\ ~Revealed(down[1], s, sub)
            /\ Unbroken(N(s), down[1], s, sub) => Unbroken(N(s), Append(down[1], m), s, next)
        BY <1>3, <4>1, <4>2, <4>3, NextAppended
      <4> QED BY <1>2, <4>4
    <3>3. Numbered(next)
      BY <1>1, <2>4 DEF Numbered
    <3>4. next.gap # 0 => Revealed(down'[1], s, next) \/ Forced'
      BY <3>1, <3>2 DEF Followed
    <3> HIDE DEF sub
    <3> QED BY <2>2, <3>1, <3>2, <3>3, <3>4 DEF FlowOf
  <2>5. CASE ~Numbered(sub)
    <3>1. Plain(N(s), down[1], s, sub)
      BY <2>3, <2>5 DEF FlowOf
    <3>2. ~Numbered(next)
      BY <1>1, <2>5 DEF Numbered
    <3>3. /\ \A i \in NewsOf(down[1], s) : down'[1][i] = down[1][i]
          /\ NewsOf(down'[1], s) = NewsOf(down[1], s) \cup {Len(down[1]) + 1}
          /\ down'[1][Len(down[1]) + 1] = m
      <4>1. down'[1][Len(down[1]) + 1] = m
        BY <1>2, <1>3, Appended
      <4>2. m.sid = s /\ m.type # "subscribed"
        BY <1>2
      <4> DEFINE d == down[1]
                 a == Append(d, m)
                 last == Len(d) + 1
      <4>3. d \in Seq(Message)
        BY <1>3
      <4>4. /\ \A i \in NewsOf(d, s) : i \in Nat /\ i < last /\ a[i] = d[i]
            /\ m.sid = s /\ m.type # "subscribed" =>
                 NewsOf(a, s) = NewsOf(d, s) \cup {last} /\ BornOf(a, s) = BornOf(d, s)
        <5> HIDE DEF d, sub, next
        <5> QED BY <4>3, NewsAppended
      <4> QED BY <1>2, <4>1, <4>2, <4>4
    <3>4. Plain(N(s), down'[1], s, next)
      <4> HIDE DEF sub, next
      <4> QED BY <1>1, <1>2, <2>5, <3>1, <3>3 DEF Plain
    <3> HIDE DEF sub
    <3> QED BY <2>2, <3>2, <3>4 DEF FlowOf
  <2> QED BY <2>4, <2>5
<1>8. Flow'
  BY <1>1, <1>6, <1>7 DEF Flow
<1> QED BY <1>5, <1>8

\* A new subscription, whose sid the client does not have: nothing in sidMap is beyond
\* the subscriptions of the connection it reads.
LEMMA BegunFlow ==
    ASSUME Inv, Dialed, First, Order, Flow, Followed, NEW s, Begun(s) PROVE Order' /\ Flow'
<1> DEFINE next == subs'[1][s]
<1>1. /\ s \in Sids /\ s \notin DOMAIN subs[1]
      /\ DOMAIN subs'[1] = DOMAIN subs[1] \cup {s}
      /\ \A t \in DOMAIN subs[1] : subs'[1][t] = subs[1][t]
      /\ next.seq = 0 /\ next.gap = 0 /\ next.sent = FALSE /\ next.lost = FALSE
  BY DEF Begun
<1>2. PICK m \in Message : /\ down'[1] = Append(down[1], m)
                           /\ m.sid = s /\ m.type = "subscribed"
  BY DEF Begun
<1>3. down[1] \in Seq(Message) /\ s # 0
  BY <1>1, FirstTypes
<1>4. \A i \in DOMAIN down[1] : down[1][i].sid # s
  BY <1>1, <1>3 DEF Order
<1>5. sidMap[s] = Nil
  BY <1>1, FirstOnly DEF Inv, RoutingSound
<1>6. sidMap'[s] = Nil /\ \A t \in Sids : sidMap'[t] # Nil => sidMap[t] # Nil
  BY <1>1, <1>5 DEF Followed
<1>7. Order'
  BY <1>1, <1>2, <1>4, <1>5, <1>6, OrderAppended
<1>8. ASSUME NEW t \in DOMAIN subs[1], Tracked(t)' PROVE FlowOf(t)'
  BY <1>1, <1>2, <1>8, OthersFlow
<1>9. FlowOf(s)'
  <2>1. N(s)' = 0
    BY <1>6 DEF N
  <2>2. /\ Fits(0, down'[1], s, next) /\ Unbroken(0, down'[1], s, next)
        /\ Plain(0, down'[1], s, next)
    <3> DEFINE d == down[1]
    <3>1. /\ d \in Seq(Message) /\ \A i \in DOMAIN d : d[i].sid # s
          /\ next.seq = 0 /\ next.gap = 0 /\ next.sent = FALSE /\ next.lost = FALSE
          /\ down'[1] = Append(d, m)
      BY <1>1, <1>2, <1>3, <1>4
    <3> HIDE DEF next, d
    <3> QED BY <1>2, <3>1, FreshFits
  <2> QED BY <1>1, <2>1, <2>2 DEF FlowOf
<1>10. Flow'
  BY <1>1, <1>8, <1>9 DEF Flow
<1> QED BY <1>7, <1>10

LEMMA RefusedFlow ==
    ASSUME Inv, Order, Flow, Followed, Refused PROVE Order' /\ Flow'
<1>1. PICK m \in Message : down'[1] = Append(down[1], m) /\ m.sid = 0 /\ m.type = "error"
  BY DEF Refused
<1>2. subs'[1] = subs[1] /\ \A t \in DOMAIN subs[1] : t # 0
  BY FirstTypes DEF Refused
<1>3. \A t \in Sids : sidMap'[t] # Nil => sidMap[t] # Nil
  BY DEF Followed
<1>4. Order'
  BY <1>1, <1>2, <1>3, OrderAppended
<1>5. ASSUME NEW t \in DOMAIN subs[1], Tracked(t)' PROVE FlowOf(t)'
  BY <1>1, <1>2, <1>5, OthersFlow
<1> QED BY <1>2, <1>4, <1>5 DEF Flow

LEMMA SilentOrder ==
    ASSUME Inv, Order, Followed, down'[1] = down[1], DOMAIN subs'[1] = DOMAIN subs[1]
    PROVE  Order'
<1>1. \A s \in Sids : sidMap[s] = Nil => sidMap'[s] = Nil
  BY DEF Followed
<1> QED BY <1>1 DEF Order

LEMMA SilentFlow ==
    ASSUME Inv, Order, Flow, Followed, Silent PROVE Order' /\ Flow'
<1>1. Order'
  BY SilentOrder DEF Silent
<1>2. ASSUME NEW t \in DOMAIN subs[1], Tracked(t)' PROVE FlowOf(t)'
  BY <1>2, OthersFlow DEF Silent
<1> QED BY <1>1, <1>2 DEF Flow, Silent

LEMMA SkipsFlow ==
    ASSUME Inv, Order, Flow, Followed, NEW s, Skips(s) PROVE Order' /\ Flow'
<1> DEFINE sub == subs[1][s]
           next == subs'[1][s]
<1>1. /\ MayLose /\ s \in DOMAIN subs[1] /\ Numbered(sub)
      /\ DOMAIN subs'[1] = DOMAIN subs[1]
      /\ \A t \in DOMAIN subs[1] : t # s => subs'[1][t] = subs[1][t]
      /\ next = Skipped(sub) /\ down'[1] = down[1]
  BY DEF Skips
<1>2. s \in Sids /\ sub \in Subscription /\ N(s) \in Nat /\ down[1] \in Seq(Message)
  BY <1>1, FirstTypes
<1>3. /\ next.seq = sub.seq + 1 /\ next.lost = (sub.lost \/ sub.sent)
      /\ next.sent = sub.sent /\ next.gap = sub.gap /\ next.ch = sub.ch
  <2>1. next = [sub EXCEPT !.seq = @ + 1, !.lost = @ \/ sub.sent]
    BY <1>1 DEF Skipped
  <2> HIDE DEF sub, next
  <2>2. /\ next.seq = sub.seq + 1
        /\ next.sent = sub.sent /\ next.gap = sub.gap /\ next.ch = sub.ch
    BY <1>2, <2>1 DEF Subscription
  <2>3. next.lost = (sub.lost \/ sub.sent)
    BY <1>2, <2>1 DEF Subscription
  <2> QED BY <2>2, <2>3
<1>4. Order'
  BY <1>1, SilentOrder
<1>5. ASSUME NEW t \in DOMAIN subs[1], t # s, Tracked(t)' PROVE FlowOf(t)'
  BY <1>1, <1>5, OthersFlow
<1>6. ASSUME Tracked(s)' PROVE FlowOf(s)'
  <2>1. Tracked(s) /\ N(s)' = N(s)
    BY <1>1, <1>2, <1>6, TrackedSteady DEF Tracked
  <2>2. /\ Fits(N(s), down[1], s, sub)
        /\ sub.gap # 0 => Revealed(down[1], s, sub) \/ Forced
    BY <1>1, <2>1 DEF Flow, FlowOf
  <2>3. /\ Fits(N(s), down[1], s, next)
        /\ Revealed(down[1], s, sub) => Revealed(down[1], s, next)
    <3> HIDE DEF sub, next
    <3> QED BY <1>2, <1>3, <2>2, SkippedFits
  <2>4. Numbered(next) /\ (next.gap # 0 => Revealed(down'[1], s, next) \/ Forced')
    BY <1>1, <1>3, <2>2, <2>3 DEF Numbered, Followed
  <2> HIDE DEF sub
  <2> QED BY <1>1, <2>1, <2>3, <2>4 DEF FlowOf
<1> QED BY <1>1, <1>4, <1>5, <1>6 DEF Flow

LEMMA QuietFlow ==
    ASSUME Inv, Dialed, First, Order, Flow, Followed, Says PROVE Order' /\ Flow'
  BY SilentFlow, RefusedFlow, ToldFlow, BegunFlow, SkipsFlow DEF Says
-----------------------------------------------------------------------------
(* Reading a message.                                                      *)

\* The order of the messages, when the first of them is taken.
LEMMA OrderTaken ==
    ASSUME Inv, Order, down[1] # <<>>, down'[1] = Tail(down[1]), subs'[1] = subs[1],
           \A s \in Sids : sidMap'[s] # Nil => sidMap[s] # Nil \/ 1 \in BornOf(down[1], s)
    PROVE  Order'
<1> DEFINE d == down[1]
           t == Tail(d)
<1>1. /\ \A i \in DOMAIN t : i \in Nat /\ i + 1 \in DOMAIN d /\ t[i] = d[i + 1]
  BY FirstTypes, Shifted
<1>2. \A s : /\ \A i \in NewsOf(t, s) : i \in Nat /\ i + 1 \in NewsOf(d, s)
             /\ \A i \in BornOf(t, s) : i \in Nat /\ i + 1 \in BornOf(d, s)
  BY FirstTypes, NewsShifted
<1>3. ASSUME NEW s \in Sids, NEW i \in BornOf(t, s)
      PROVE  /\ \A j \in NewsOf(t, s) : i < j
             /\ \A j \in BornOf(t, s) : i = j
             /\ sidMap'[s] = Nil
  <2>1. i \in Nat /\ i + 1 \in BornOf(d, s)
    BY <1>2, <1>3
  <2>2. /\ sidMap[s] = Nil
        /\ \A j \in NewsOf(d, s) : i + 1 < j
        /\ \A j \in BornOf(d, s) : i + 1 = j
    BY <2>1 DEF Order
  <2> HIDE DEF d, t
  <2>3. \A j \in NewsOf(t, s) : i < j
    <3> SUFFICES ASSUME NEW j \in NewsOf(t, s) PROVE i < j
      OBVIOUS
    <3>1. j \in Nat /\ i + 1 < j + 1
      BY <1>2, <2>2
    <3> QED BY <2>1, <3>1
  <2>4. \A j \in BornOf(t, s) : i = j
    <3> SUFFICES ASSUME NEW j \in BornOf(t, s) PROVE i = j
      OBVIOUS
    <3>1. j \in Nat /\ i + 1 = j + 1
      BY <1>2, <2>2
    <3> QED BY <2>1, <3>1
  <2>5. 1 \notin BornOf(d, s)
    <3>1. i # 0
      BY <1>1, <1>3 DEF BornOf, d, t
    <3> QED BY <2>1, <2>2, <3>1
  <2> QED BY <2>2, <2>3, <2>4, <2>5 DEF d
<1>4. \A i \in DOMAIN t : /\ t[i].sid = 0 \/ t[i].sid \in DOMAIN subs[1]
                          /\ t[i].type = "error" => t[i].sid = 0
  BY <1>1 DEF Order
<1> HIDE DEF d
<1>5. down'[1] = t
  BY DEF d
<1> HIDE DEF t
<1> QED BY <1>3, <1>4, <1>5 DEF Order

\* A subscription that the message is not about.
LEMMA OthersTaken ==
    ASSUME Inv, Order, Flow, NEW s \in DOMAIN subs[1], down[1] # <<>>,
           down'[1] = Tail(down[1]), subs'[1] = subs[1],
           Head(down[1]).sid # s \/ Head(down[1]).type = "subscribed",
           Tracked(s), N(s)' = N(s), Forced => Forced'
    PROVE  FlowOf(s)'
<1> DEFINE sub == subs[1][s]
           d == down[1]
<1>1. FlowOf(s)
  BY DEF Flow
<1>2. d \in Seq(Message)
  BY FirstTypes
<1>3. /\ Fits(N(s), d, s, sub) => Fits(N(s), Tail(d), s, sub)
      /\ Revealed(d, s, sub) => Revealed(Tail(d), s, sub)
      /\ Unbroken(N(s), d, s, sub) => Unbroken(N(s), Tail(d), s, sub)
      /\ Plain(N(s), d, s, sub) => Plain(N(s), Tail(d), s, sub)
  <2> HIDE DEF sub
  <2> QED BY <1>2, OtherTaken
<1> HIDE DEF sub
<1>4. subs'[1][s] = sub
  BY DEF sub
<1> QED BY <1>1, <1>3, <1>4 DEF FlowOf, sub

\* What a message does to the state that its sid leads to.
LEMMA Counted ==
    ASSUME Inv, HandleIncoming, M.type \in {"ok", "data"},
           M.sid \in Sids, sidMap[M.sid] # Nil
    PROVE  LET o == sidMap[M.sid]
           IN  /\ sidMap' = sidMap /\ obj'[o].seq = M.seq
               /\ Gap(o) => force'
               /\ ~Gap(o) => force' = force
<1> DEFINE o == StateOf(M.sid)
<1>1. o = sidMap[M.sid] /\ o # Nil /\ o \in Objs /\ obj[o] \in ChannelState
  BY Types DEF StateOf
<1>2. HandleOK \/ HandleDataMessage
  BY DEF HandleIncoming, HandleSubscribed, HandleUnknownId, HandleUnsubscribed, HandleError,
         Incoming, M
<1>3. CASE HandleOK
  <2>1. /\ sidMap' = sidMap /\ force' = (force \/ Gap(o))
        /\ obj' = [obj EXCEPT ![o] = Reconciled(o)]
    BY <1>1, <1>3 DEF HandleOK
  <2>2. Reconciled(o).seq = M.seq
    BY <1>1 DEF Reconciled, ChannelState
  <2> HIDE DEF o, M
  <2>3. obj'[o].seq = M.seq
    BY <1>1, <2>1, <2>2, Types
  <2>4. (Gap(o) => force') /\ (~Gap(o) => force' = force)
    BY <2>1, Types
  <2> QED BY <1>1, <2>1, <2>3, <2>4
<1>4. CASE HandleDataMessage
  <2>1. /\ sidMap' = sidMap /\ force' = (force \/ Gap(o))
        /\ obj' = [obj EXCEPT ![o].seq = M.seq]
    BY <1>1, <1>4 DEF HandleDataMessage
  <2> HIDE DEF o, M
  <2>2. obj'[o].seq = M.seq
    BY <1>1, <2>1, Types DEF ChannelState
  <2>3. (Gap(o) => force') /\ (~Gap(o) => force' = force)
    BY <2>1, Types
  <2> QED BY <1>1, <2>1, <2>2, <2>3
<1> QED BY <1>2, <1>3, <1>4

\* The next message of a subscription that the client follows.
LEMMA CountedFlow ==
    ASSUME Inv, Order, Flow, HandleIncoming, rconn = 1, down[1] # <<>>,
           down'[1] = Tail(down[1]), subs'[1] = subs[1], NEW s \in DOMAIN subs[1],
           M.sid = s, M.type \in {"ok", "data"}, sidMap[s] # Nil, Forced => Forced'
    PROVE  FlowOf(s)'
<1> DEFINE sub == subs[1][s]
           d == down[1]
           o == sidMap[s]
           n == obj[o].seq
           q == M.seq
<1>1. /\ d \in Seq(Message) /\ sub \in Subscription /\ s \in Sids /\ M = Head(d)
      /\ N(s) = n /\ n \in Nat
  <2>1. N(s) \in Nat
    BY FirstTypes
  <2> QED BY <2>1, FirstTypes DEF N, M
<1>2. /\ sidMap' = sidMap /\ obj'[o].seq = q /\ (Gap(o) => force')
  BY <1>1, Counted
<1>3. N(s)' = q
  BY <1>2 DEF N
<1>4. FlowOf(s)
  BY DEF Flow, Tracked
<1>5. Gap(o) <=> n # 0 /\ n + 1 # q
  BY DEF Gap
<1>6. Head(d).sid = s /\ Head(d).type # "subscribed" /\ q = Head(d).seq
  BY <1>1
<1>7. CASE Numbered(sub)
  <2>1. /\ Fits(n, d, s, sub)
        /\ sub.gap # 0 => Revealed(d, s, sub) \/ Forced
        /\ ~MayLose => Unbroken(n, d, s, sub)
    BY <1>1, <1>4, <1>7 DEF FlowOf
  <2> HIDE DEF sub, d, o, n, q
  <2>2. /\ Fits(q, Tail(d), s, sub)
        /\ sub.gap # 0 /\ Revealed(d, s, sub) =>
             Revealed(Tail(d), s, sub) \/ (n # 0 /\ n + 1 # q)
        /\ Unbroken(n, d, s, sub) => Unbroken(q, Tail(d), s, sub)
    BY <1>1, <1>6, <2>1, NextTaken DEF d
  <2>3. sub.gap # 0 => Revealed(Tail(d), s, sub) \/ Forced'
    BY <1>2, <1>5, <2>1, <2>2 DEF Forced
  <2>4. subs'[1][s] = sub /\ down'[1] = Tail(d)
    BY DEF sub, d
  <2> QED BY <1>3, <1>7, <2>1, <2>2, <2>3, <2>4 DEF FlowOf
<1>8. CASE ~Numbered(sub)
  <2>1. Plain(n, d, s, sub)
    BY <1>1, <1>4, <1>8 DEF FlowOf
  <2> HIDE DEF sub, d, o, n, q
  <2>2. 1 \in DOMAIN d /\ d[1] = Head(d)
    BY <1>1, Shifted DEF d
  <2>3. n = 0 /\ q = 0
    BY <1>6, <2>1, <2>2 DEF Plain, NewsOf
  <2>4. \A i \in NewsOf(Tail(d), s) : i + 1 \in NewsOf(d, s) /\ Tail(d)[i] = d[i + 1]
    BY <1>1, NewsShifted DEF d
  <2>5. Plain(q, Tail(d), s, sub)
    BY <2>1, <2>3, <2>4 DEF Plain
  <2>6. subs'[1][s] = sub /\ down'[1] = Tail(d)
    BY DEF sub, d
  <2> QED BY <1>3, <1>8, <2>5, <2>6 DEF FlowOf
<1> QED BY <1>7, <1>8

\* A state whose sid the message does not name keeps its number.
LEMMA OthersCount ==
    ASSUME Inv, Named, HandleIncoming, NEW s \in Sids, M.sid # s, sidMap'[s] # Nil
    PROVE  sidMap'[s] = sidMap[s] /\ obj'[sidMap[s]].seq = obj[sidMap[s]].seq
<1>1. CASE HandleSubscribed
  <2>1. PICK e : Subscribed(e)
    BY <1>1, SubscribedStep
  <2> DEFINE o == channels[e.ch]
             s0 == M.sid
  <2>2. /\ e.ch \in Channels /\ s0 \in Sids
        /\ \/ UNCHANGED <<sidMap, obj>>
           \/ /\ o # Nil /\ sidMap' = [sidMap EXCEPT ![s0] = o]
              /\ obj' = [obj EXCEPT ![o] = [obj[o] EXCEPT !.sid = s0, !.pending = {}]]
    BY <2>1 DEF Subscribed
  <2>3. o # Nil => o \in Objs /\ obj[o] \in ChannelState
    BY <2>2, Types
  <2> HIDE DEF o, s0
  <2>4. sidMap'[s] = sidMap[s]
    BY <2>2, Types DEF s0
  <2>5. sidMap[s] \in Objs
    BY <2>4, Types
  <2>6. ASSUME NEW q \in Objs PROVE obj'[q].seq = obj[q].seq
    <3>1. CASE q = o /\ ~UNCHANGED obj
      <4>1. obj'[q] = [obj[q] EXCEPT !.sid = s0, !.pending = {}] /\ obj[q] \in ChannelState
        BY <2>2, <3>1, Types
      <4> QED BY <4>1 DEF ChannelState
    <3>2. CASE ~(q = o /\ ~UNCHANGED obj)
      <4>1. obj'[q] = obj[q]
        BY <2>2, <3>2, Types
      <4> QED BY <4>1
    <3> QED BY <3>1, <3>2
  <2> QED BY <2>4, <2>5, <2>6
<1>2. CASE ~HandleSubscribed
  <2>1. sidMap'[s] = sidMap[s] /\ sidMap[s] \in Objs /\ Nil \notin Objs
    BY <1>2, HandlersCount, Types
  <2>2. ASSUME M.sid \in Sids, sidMap[s] = sidMap[M.sid] PROVE FALSE
    BY <2>1, <2>2 DEF Named, SidsMatch
  <2> QED BY <1>2, <2>1, <2>2, HandlersCount
<1> QED BY <1>1, <1>2

LEMMA HandleFlow ==
    ASSUME Inv, Dialed, Named, First, Order, Flow, HandleIncoming PROVE Order' /\ Flow'
<1> DEFINE d == down[1]
<1>0. PICK s0 : s0 = M.sid
  OBVIOUS
<1>1. PICK type : Incoming(type)
  BY DEF HandleIncoming, HandleSubscribed, HandleUnknownId, HandleOK,
         HandleUnsubscribed, HandleError, HandleDataMessage
<1>2. /\ rconn = 1 /\ d # <<>> /\ down'[1] = Tail(d) /\ subs'[1] = subs[1]
      /\ pc[Reader] = "read" /\ M = Head(d) /\ M.type = type
  <2>1. rconn # NoConn
    BY <1>1 DEF Inv, Shape, ReaderShape, Attached, Incoming, At
  <2>2. rconn = 1
    BY <2>1, FirstOnly
  <2> QED BY <1>1, <2>2, Types, OneConn DEF Incoming, M, At
<1>3. d \in Seq(Message) /\ 1 \in DOMAIN d /\ d[1] = M
  BY <1>2, FirstTypes, Shifted
<1>4. Forced => Forced'
  <2>1. force => force'
    BY DEF HandleIncoming, HandleSubscribed, HandleUnknownId, HandleOK,
           HandleUnsubscribed, HandleError, HandleDataMessage
  <2> QED BY <1>2, <2>1 DEF Forced
<1>5. /\ s0 \in Sids /\ type = "subscribed" => 1 \in BornOf(d, s0)
      /\ type # "subscribed" => 1 \in NewsOf(d, s0)
  BY <1>0, <1>2, <1>3 DEF BornOf, NewsOf
<1>6. ASSUME HandleSubscribed
      PROVE  type = "subscribed" /\ s0 \in Sids /\ N(s0) = 0 /\ N(s0)' = 0
  <2>1. PICK e : Subscribed(e)
    BY <1>6, SubscribedStep
  <2> DEFINE o == channels[e.ch]
  <2>2. type = "subscribed"
    BY <1>2, <1>6, IncomingFacts DEF HandleSubscribed
  <2>3. s0 \in Sids /\ sidMap[s0] = Nil
    BY <1>0, <1>5, <2>1, <2>2 DEF Subscribed, Order
  <2>4. CASE UNCHANGED sidMap
    BY <2>2, <2>3, <2>4 DEF N
  <2>5. CASE ~UNCHANGED sidMap
    <3>1. /\ o # Nil /\ sidMap' = [sidMap EXCEPT ![s0] = o]
          /\ obj' = [obj EXCEPT ![o] = [obj[o] EXCEPT !.sid = s0, !.pending = {}]]
          /\ e \in pendingInit /\ e.ch \in Channels
      BY <1>0, <2>1, <2>5 DEF Subscribed
    <3>2. obj[o].seq = 0 /\ o \in Objs /\ obj[o] \in ChannelState
      BY <3>1, Types DEF Named, PendingMatch, Uncounted, Unnamed
    <3> HIDE DEF o
    <3>3. sidMap'[s0] = o /\ obj'[o].seq = 0
      BY <2>3, <3>1, <3>2, Types DEF ChannelState
    <3> QED BY <2>2, <2>3, <3>3 DEF N
  <2> QED BY <2>4, <2>5
<1>7. ASSUME ~HandleSubscribed
      PROVE  \A s \in Sids : sidMap'[s] # Nil => sidMap'[s] = sidMap[s]
  BY <1>7, HandlersCount
<1>8. Order'
  <2>1. ASSUME NEW s \in Sids, sidMap'[s] # Nil
        PROVE  sidMap[s] # Nil \/ 1 \in BornOf(d, s)
    <3>1. CASE HandleSubscribed
      BY <1>0, <1>5, <1>6, <2>1, <3>1, OthersCount
    <3>2. CASE ~HandleSubscribed
      BY <1>7, <2>1, <3>2
    <3> QED BY <3>1, <3>2
  <2> QED BY <1>2, <2>1, OrderTaken
<1>9. ASSUME NEW s \in Sids, BornOf(Tail(d), s) # {}
      PROVE  /\ BornOf(d, s) # {} /\ sidMap[s] = Nil
             /\ 1 \notin NewsOf(d, s)
  <2>1. PICK i \in BornOf(Tail(d), s) : TRUE
    BY <1>9
  <2>2. i \in Nat /\ i + 1 \in BornOf(d, s)
    BY <1>2, <1>3, <2>1, NewsShifted
  <2>3. sidMap[s] = Nil /\ \A j \in NewsOf(d, s) : i + 1 < j
    BY <2>2 DEF Order
  <2>4. ~(i + 1 < 1)
    BY <2>2
  <2> QED BY <2>2, <2>3, <2>4
<1>10. ASSUME NEW s \in DOMAIN subs[1], s # s0, Tracked(s)' PROVE FlowOf(s)'
  <2>1. s \in Sids
    BY FirstTypes
  <2>2. Tracked(s) /\ N(s)' = N(s)
    <3>1. CASE sidMap'[s] # Nil
      BY <1>0, <1>10, <2>1, <3>1, OthersCount DEF Tracked, N
    <3>2. CASE sidMap'[s] = Nil
      <4>1. BornOf(d, s) # {} /\ sidMap[s] = Nil
        BY <1>2, <1>9, <1>10, <2>1, <3>2 DEF Tracked
      <4> QED BY <3>2, <4>1 DEF Tracked, N
    <3> QED BY <3>1, <3>2
  <2> QED BY <1>0, <1>2, <1>4, <1>10, <2>2, OthersTaken
<1>11. ASSUME s0 \in DOMAIN subs[1], Tracked(s0)' PROVE FlowOf(s0)'
  <2>1. s0 \in Sids
    BY <1>11, FirstTypes
  <2>2. CASE type = "subscribed"
    <3>1. sidMap[s0] = Nil /\ Tracked(s0)
      BY <1>5, <2>1, <2>2 DEF Order, Tracked
    <3>2. N(s0)' = N(s0)
      <4>1. CASE HandleSubscribed
        BY <1>6, <4>1
      <4>2. CASE ~HandleSubscribed
        BY <1>7, <2>1, <3>1, <4>2 DEF N
      <4> QED BY <4>1, <4>2
    <3> QED BY <1>0, <1>2, <1>4, <1>11, <2>2, <3>1, <3>2, OthersTaken
  <2>3. CASE type # "subscribed"
    <3>1. BornOf(Tail(d), s0) = {}
      BY <1>5, <1>9, <2>1, <2>3
    <3>2. sidMap'[s0] # Nil
      BY <1>2, <1>11, <3>1 DEF Tracked
    <3>3. ~HandleSubscribed /\ sidMap[s0] # Nil
      BY <1>6, <1>7, <2>1, <2>3, <3>2
    <3>4. type \in {"ok", "data"}
      <4>1. s0 # 0
        BY <2>1, FirstTypes
      <4>2. M.type # "error"
        BY <1>0, <1>3, <4>1 DEF Order
      <4>3. M.type # "unsubscribed"
        <5>1. HandleUnsubscribed => sidMap'[s0] = Nil
          BY <1>0, <2>1, Types DEF HandleUnsubscribed
        <5> QED BY <3>2, <5>1 DEF HandleIncoming, HandleSubscribed, HandleUnknownId, HandleOK,
                  HandleError, HandleDataMessage, Incoming, M
      <4>4. M \in Message
        BY <1>3, ElementOfSeq, LenProperties
      <4> QED BY <1>2, <2>3, <4>2, <4>3, <4>4 DEF Message, MessageTypes
    <3> QED BY <1>0, <1>2, <1>4, <1>11, <3>3, <3>4, CountedFlow
  <2> QED BY <2>2, <2>3
<1>12. Flow'
  BY <1>2, <1>10, <1>11 DEF Flow
<1> QED BY <1>8, <1>12

LEMMA StraightStep ==
    ASSUME Inv, Dialed, OneCaller, ~MayReject, Straight, [Next]_vars PROVE Straight'
<1> SUFFICES ASSUME First' PROVE Named' /\ Order' /\ Flow'
  BY DEF Straight
<1>1. First
  BY DialedStep, FirstBefore
<1>2. Named /\ Order /\ Flow
  BY <1>1 DEF Straight
<1>3. Named'
  BY <1>1, <1>2, NamedStep
<1>4. CASE HandleIncoming
  BY <1>1, <1>2, <1>3, <1>4, HandleFlow
<1>5. CASE ~HandleIncoming
  BY <1>1, <1>2, <1>3, <1>5, QuietSteps, QuietFlow
<1> QED BY <1>4, <1>5

LEMMA StraightInit == Init => Straight /\ ForceSeen
<1> SUFFICES ASSUME Init PROVE Straight /\ ForceSeen
  OBVIOUS
<1>1. /\ \A ch \in Channels : channels[ch] = Nil
      /\ \A s \in Sids : sidMap[s] = Nil
      /\ pendingInit = {} /\ force = FALSE
      /\ \A p \in Callers : pc[p] = "idle"
  BY ReaderIsNoCaller DEF Init
<1>2. subs[1] = <<>> /\ down[1] = <<>>
  BY OneConn DEF Init, ServerInit
<1>3. DOMAIN subs[1] = {} /\ DOMAIN down[1] = {}
  BY <1>2
<1>4. Named
  <2>1. SidsMatch /\ PendingMatch /\ Uncounted
    BY <1>1 DEF SidsMatch, PendingMatch, Uncounted, Unnamed
  <2>2. CallsMatch
    BY <1>1 DEF CallsMatch, Sending
  <2> QED BY <2>1, <2>2 DEF Named
<1>5. Order /\ Flow
  BY <1>3 DEF Order, Flow, BornOf, NewsOf
<1> QED BY <1>1, <1>4, <1>5 DEF Straight, ForceSeen

\* If one goroutine calls the client and the service rejects nothing, then as long as the
\* client has had one connection, readLoop never waits for more after it has read the
\* message that reveals a loss, on whichever subscription and however many numbers were
\* lost (handleDataMessage, handleOK, the CompareAndSwap of readLoop).
THEOREM LossIsNoticed ==
    ASSUME OneCaller, ~MayReject
    PROVE  Spec => [](Len(link) <= 1 => NoReadPastGap)
<1>1. Inv /\ Dialed /\ Straight /\ [Next]_vars => Straight'
  BY StraightStep
<1>2. Inv /\ ForceSeen /\ [Next]_vars => ForceSeen'
  BY ForceKept
<1>3. Inv /\ Dialed /\ Straight /\ ForceSeen => (Len(link) <= 1 => NoReadPastGap)
  <2> SUFFICES ASSUME Inv, Dialed, Straight, ForceSeen, Len(link) <= 1, At("read"),
                      NEW s \in Sids, sidMap[s] # Nil, s \in DOMAIN subs[rconn],
                      subs[rconn][s].gap # 0
               PROVE  \E i \in DOMAIN down[rconn] :
                        /\ down[rconn][i].sid = s
                        /\ down[rconn][i].seq = subs[rconn][s].gap
    BY DEF NoReadPastGap
  <2>1. rconn # NoConn
    BY DEF Inv, Shape, ReaderShape, Attached, At
  <2>2. rconn = 1
    BY <2>1, FirstRead
  <2>3. First
    <3>1. Len(link) \in Nat
      BY FirstTypes
    <3>2. \A n \in Nat : n <= 1 => n = 0 \/ n = 1
      OBVIOUS
    <3> QED BY <2>2, <3>1, <3>2 DEF First
  <2>4. FlowOf(s)
    BY <2>2, <2>3 DEF Straight, Flow, Tracked
  <2>5. ~Forced
    BY DEF ForceSeen, Forced, At
  <2>6. Revealed(down[1], s, subs[1][s])
    BY <2>2, <2>4, <2>5 DEF FlowOf, Plain
  <2> QED BY <2>2, <2>6 DEF Revealed, NewsOf
<1> QED BY <1>1, <1>2, <1>3, StraightInit, DialedAlways, Inductive, PTL DEF Spec
-----------------------------------------------------------------------------
(* Nothing else is taken for a loss.                                       *)

\* There is no connection but the first, which is up if it was dialled.
Intact == Len(link) = 0 \/ OnlyFirst

\* Then the client has it, and nothing tells the loop to leave it.
Settled ==
    Intact =>
        /\ OnlyFirst => conn = 1
        /\ ~force /\ pc[Reader] # "returned"
        /\ pc[Reader] = "finish" /\ out[Reader].kind = "add" => out[Reader].ok

LEMMA IntactFacts ==
    ASSUME Inv, Dialed, Settled, Intact
    PROVE  /\ First /\ ~Recovering
           /\ rconn # NoConn => OnlyFirst /\ rconn = 1 /\ conn = 1 /\ Up(1)
           /\ \A p \in Procs : pc[p] = "write" => Up(out[p].conn)
<1>1. First
  BY OnlyFacts DEF Intact, Settled, First
<1>2. /\ ~Recovering
      /\ rconn # NoConn => rconn = 1
      /\ \A p \in Procs : pc[p] = "write" => out[p].conn = 1
  BY <1>1, FirstOnly
<1>3. 1 <= Len(link) => OnlyFirst
  BY DEF Intact
<1>4. rconn = 1 => OnlyFirst
  BY <1>3 DEF Dialed
<1>5. \A p \in Procs : out[p].conn = 1 => OnlyFirst
  BY <1>3 DEF Dialed
<1>6. OnlyFirst => Up(1) /\ conn = 1
  BY OnlyFacts DEF Settled, Intact
<1>7. ASSUME NEW p \in Procs, pc[p] = "write" PROVE Up(out[p].conn)
  BY <1>2, <1>5, <1>6, <1>7
<1> QED BY <1>1, <1>2, <1>4, <1>6, <1>7

\* The next number is the expected one when nothing was lost.
LEMMA NoGap ==
    ASSUME Inv, Dialed, First, Straight, ~MayLose, HandleIncoming
    PROVE  force' = force
<1>1. CASE ~(HandleOK \/ HandleDataMessage)
  BY <1>1 DEF HandleIncoming, HandleSubscribed, HandleUnknownId, HandleUnsubscribed,
              HandleError
<1>2. CASE StateOf(M.sid) = Nil
  BY <1>1, <1>2 DEF HandleOK, HandleDataMessage
<1>3. ASSUME HandleOK \/ HandleDataMessage, StateOf(M.sid) # Nil PROVE force' = force
  <2> DEFINE s == M.sid
             d == down[1]
             n == N(s)
             sub == subs[1][s]
  <2>1. s \in Sids /\ sidMap[s] # Nil /\ N(s) = obj[sidMap[s]].seq
    BY <1>3 DEF StateOf, N
  <2>2. PICK type \in {"ok", "data"} : Incoming(type)
    BY <1>3 DEF HandleOK, HandleDataMessage
  <2>3. rconn = 1
    BY <2>2, FirstOnly DEF Inv, Shape, ReaderShape, Attached, Incoming, At
  <2>4. M.type = type /\ d # <<>> /\ M = Head(d)
    BY <2>2, <2>3 DEF Incoming, M
  <2>5. s \in DOMAIN subs[1]
    BY <2>1, <2>3 DEF Inv, RoutingSound
  <2>6. d \in Seq(Message) /\ sub \in Subscription /\ n \in Nat
    BY <2>1, <2>5, FirstTypes
  <2>7. FlowOf(s)
    BY <2>1, <2>5 DEF Straight, Flow, Tracked
  <2>8. ~Gap(sidMap[s])
    <3>1. Head(d).sid = s /\ Head(d).type # "subscribed"
      BY <2>2, <2>4
    <3>2. CASE Numbered(sub)
      <4>1. Fits(n, d, s, sub) /\ Unbroken(n, d, s, sub)
        BY <2>7, <3>2 DEF FlowOf
      <4> HIDE DEF s, d, n, sub
      <4>2. n + 1 = Head(d).seq
        BY <2>4, <2>6, <3>1, <4>1, NextTaken
      <4> QED BY <2>1, <2>4, <4>2 DEF Gap, n
    <3>3. CASE ~Numbered(sub)
      <4>1. n = 0
        BY <2>7, <3>3 DEF FlowOf, Plain
      <4> QED BY <2>1, <4>1 DEF Gap
    <3> QED BY <3>2, <3>3
  <2> QED BY <2>1, <2>2, <2>4, <2>8, Counted
<1> QED BY <1>1, <1>2, <1>3

\* A state of the connection that is set leaves their number.
LEMMA SetKeeps ==
    ASSUME Inv, NEW k, NEW s, SetLink(k, s)
    PROVE  /\ Len(link') = Len(link) /\ Len(link) \in Nat
           /\ Len(link) = 0 => UNCHANGED link
           /\ Up(k) => link'[k] = s
<1>1. link \in Seq(LinkStates) /\ Len(link) \in Nat /\ DOMAIN link = 1..Len(link)
  BY Types, LenProperties
<1>2. CASE ~Up(k)
  BY <1>1, <1>2 DEF SetLink
<1>3. CASE Up(k)
  <2>1. k \in DOMAIN link /\ link' = [link EXCEPT ![k] = s]
    BY <1>3, Zenon DEF SetLink, Up
  <2>2. Len(link') = Len(link) /\ link'[k] = s
    BY <1>1, <2>1
  <2>3. Len(link) # 0
    BY <1>1, <2>1
  <2> QED BY <1>1, <2>2, <2>3
<1> QED BY <1>2, <1>3

\* The first connection, once closed, is not intact.
LEMMA ClosedEnds ==
    ASSUME Inv, Dialed, OnlyFirst, SetLink(1, "closed") PROVE ~Intact'
<1>1. Up(1) /\ Len(link) = 1
  BY OnlyFacts
<1>2. Len(link') = 1 /\ link'[1] = "closed"
  BY <1>1, SetKeeps
<1>3. <<"up">>[1] = "up"
  OBVIOUS
<1> QED BY <1>2, <1>3 DEF Intact, OnlyFirst

\* What a step does to the connection that the client has.
ConnEffect ==
    \/ NewConn
    \/ conn' = conn /\ (UNCHANGED link \/ \E k, s : SetLink(k, s))
    \/ conn' = NoConn /\ SetLink(conn, "closed")

LEMMA ConnSteps ==
    ASSUME Inv, ~RecoverSteps, ~HandleConnectionLoss, [Next]_vars PROVE ConnEffect
<1>1. ASSUME NEW p, Dialled \/ DialFailed(p) PROVE ConnEffect
  <2>1. Dialled => link' = Append(link, "up") /\ Len(link') = Len(link) + 1
    BY Types, AppendProperties DEF Dialled, Open, LinkStates
  <2> QED BY <1>1, <2>1 DEF Dialled, DialFailed, serverVars, ConnEffect, NewConn
<1>2. ASSUME NEW p \in Callers, Begin(p) \/ Methods(p) PROVE ConnEffect
  <2>1. Methods(p) => MethodStep(p)
    BY <1>2, MethodsStep
  <2> QED BY <1>2, <2>1 DEF Begin, MethodStep, MethodFrame, serverVars, ConnEffect
<1>3. ASSUME NEW p \in Callers, Connect(p) \/ Close(p) \/ CloseConn(p) PROVE ConnEffect
  <2>1. CASE Connect(p)
    BY <1>1, <2>1 DEF Connect
  <2>2. CASE Close(p) \/ CloseConn(p)
    BY <2>2 DEF Close, CloseConn, serverVars, ConnEffect
  <2> QED BY <1>3, <2>1, <2>2
<1>4. ASSUME NEW p \in Procs, SendStep(p) PROVE ConnEffect
  <2>1. CASE WriteTimeout(p)
    BY <2>1, Zenon DEF WriteTimeout, Written, SendFrame, ConnEffect
  <2>2. CASE Register(p) \/ GrabConn(p) \/ WriteDelivered(p) \/ WriteLost(p)
    BY <2>2 DEF Register, GrabConn, WriteDelivered, WriteLost, Written, SendFrame,
                serverVars, ConnEffect
  <2> QED BY <1>4, <2>1, <2>2 DEF SendStep
<1>5. ASSUME LoopSteps PROVE ConnEffect
  <2>1. CASE Dial \/ Redial
    BY <1>1, <2>1 DEF Dial, Redial
  <2>2. CASE ReadError
    BY <2>2, Zenon DEF ReadError, ConnEffect
  <2>3. CASE LoopTop \/ Wait \/ EnterReadLoop \/ CheckForce \/ LoopLeaves \/ WaitLoss
    BY <2>3 DEF LoopTop, Wait, EnterReadLoop, CheckForce, LoopLeaves, WaitLoss, serverVars,
                ConnEffect
  <2> QED BY <1>5, <2>1, <2>2, <2>3 DEF LoopSteps
<1>6. ASSUME HandleIncoming PROVE ConnEffect
  BY <1>6, HandlesStep DEF Handles, ConnEffect
<1>7. ASSUME FlushSent \/ Deliver PROVE ConnEffect
  BY <1>7 DEF FlushSent, Deliver, serverVars, ConnEffect
<1>8. ASSUME Consume \/ Cancel \/ Feed \/ UNCHANGED vars PROVE ConnEffect
  <2>1. conn' = conn
    BY <1>8 DEF Consume, Cancel, Feed, vars, clientVars
  <2>2. UNCHANGED link \/ \E k, s : SetLink(k, s)
    <3>1. CASE Feed
      BY <3>1, Zenon DEF Feed, ServerStep, Break, Send, Lose
    <3>2. CASE Consume \/ Cancel \/ UNCHANGED vars
      BY <3>2 DEF Consume, Cancel, vars, serverVars
    <3> QED BY <1>8, <3>1, <3>2
  <2> QED BY <2>1, <2>2 DEF ConnEffect
<1> QED BY <1>2, <1>3, <1>4, <1>5, <1>6, <1>7, <1>8, StepCases

LEMMA ConnKept ==
    ASSUME Inv, Dialed, Settled, Intact, OnlyFirst', ConnEffect PROVE conn' = 1
<1>1. Len(link') = 1
  <2>1. Len(<<"up">>) = 1
    OBVIOUS
  <2> QED BY <2>1 DEF OnlyFirst
<1>2. CASE NewConn
  BY <1>1, <1>2 DEF NewConn
<1>3. ASSUME NEW k, NEW s, SetLink(k, s) PROVE OnlyFirst
  <2>1. Len(link) = 1
    BY <1>1, <1>3, SetKeeps
  <2> QED BY <2>1 DEF Intact
<1>4. CASE conn' = conn /\ (UNCHANGED link \/ \E k, s : SetLink(k, s))
  <2>1. OnlyFirst
    BY <1>3, <1>4 DEF OnlyFirst
  <2> QED BY <1>4, <2>1 DEF Settled, Intact
<1>5. CASE conn' = NoConn /\ SetLink(conn, "closed")
  <2>1. OnlyFirst /\ conn = 1
    BY <1>3, <1>5 DEF Settled, Intact
  <2> QED BY <1>5, <2>1, ClosedEnds DEF Intact
<1> QED BY <1>2, <1>4, <1>5 DEF ConnEffect

\* What a step does to the flag and to what the reader does next.
StaysEffect ==
    \/ pc'[Reader] = pc[Reader] /\ out'[Reader] = out[Reader] /\ force' = force
    \/ pc'[Reader] \notin {"returned", "finish"} /\ ~force'
    \/ /\ pc'[Reader] = "finish" /\ force' = force
       /\ out'[Reader].kind = "add" => out'[Reader].ok

\* A flush is written to a connection that is up, and is delivered.
LEMMA SendStays ==
    ASSUME Inv, Dialed, Settled, Intact, ~MayTimeout, NEW p \in Procs, SendStep(p)
    PROVE  StaysEffect
<1>1. Reader \in Procs /\ force' = force /\ ~force
  BY ReaderIsNoCaller DEF SendStep, Register, GrabConn, WriteDelivered, WriteLost,
     WriteTimeout, Written, SendFrame, flagVars, Settled
<1>2. CASE p # Reader
  <2>1. pc'[Reader] = pc[Reader] /\ out'[Reader] = out[Reader]
    BY <1>1, <1>2, Types DEF SendStep, Register, GrabConn, WriteDelivered, WriteLost,
       WriteTimeout, Written
  <2> QED BY <1>1, <2>1 DEF StaysEffect
<1>3. CASE p = Reader
  <2>1. ASSUME NEW l, l \notin {"returned", "finish"}, pc' = [pc EXCEPT ![p] = l]
        PROVE  StaysEffect
    BY <1>1, <1>3, <2>1, Types DEF StaysEffect
  <2>2. CASE Register(p)
    BY <2>1, <2>2 DEF Register
  <2>3. CASE GrabConn(p)
    <3>1. CASE conn # NoConn
      BY <2>1, <2>3, <3>1 DEF GrabConn
    <3>2. CASE conn = NoConn
      <4>1. out[Reader].kind # "add"
        <5>1. out[Reader].kind = "add" => rconn # NoConn
          BY <1>3, <2>3 DEF GrabConn, Inv, Shape, ReaderShape, Sending
        <5> QED BY <3>2, <5>1, IntactFacts DEF NoConn
      <4>2. pc'[Reader] = "finish" /\ out'[Reader].kind = out[Reader].kind
        BY <1>1, <1>3, <2>3, <3>2, Types DEF GrabConn, SendRecord
      <4> QED BY <1>1, <4>1, <4>2 DEF StaysEffect
    <3> QED BY <3>1, <3>2
  <2>4. CASE WriteDelivered(p)
    <3>1. pc'[Reader] = "finish" /\ out'[Reader].ok
      BY <1>1, <1>3, <2>4, Types DEF WriteDelivered, Written, SendRecord
    <3> QED BY <1>1, <3>1 DEF StaysEffect
  <2>5. CASE WriteLost(p)
    BY <2>5, IntactFacts DEF WriteLost
  <2>6. CASE WriteTimeout(p)
    <3>1. out[Reader].kind = "subscribe" /\ Written(p, FALSE)
      BY <1>3, <2>6, Zenon DEF WriteTimeout
    <3>2. pc'[Reader] = "finish" /\ out'[Reader].kind = out[Reader].kind
      BY <1>1, <1>3, <3>1, Types DEF Written, SendRecord
    <3> QED BY <1>1, <3>1, <3>2 DEF StaysEffect
  <2> QED BY <2>2, <2>3, <2>4, <2>5, <2>6 DEF SendStep
<1> QED BY <1>2, <1>3

LEMMA LoopStays ==
    ASSUME Inv, Dialed, Settled, Intact, Intact', LoopSteps PROVE StaysEffect
<1>1. Reader \in Procs /\ ~force
  BY ReaderIsNoCaller DEF Settled
<1>2. ASSUME NEW l, l \notin {"returned", "finish"}, Goto(l), ~force' PROVE StaysEffect
  BY <1>1, <1>2, Types DEF Goto, StaysEffect
<1>3. CASE ReadError
  <2>1. /\ pc[Reader] = "read" /\ ReadFails
        /\ ctxDone => SetLink(rconn, "closed")
    BY <1>3 DEF ReadError, At
  <2>2. rconn = 1 /\ Up(1) /\ OnlyFirst
    BY <2>1, IntactFacts DEF Inv, Shape, ReaderShape, Attached
  <2> QED BY <2>1, <2>2, ClosedEnds DEF ReadFails
<1>4. CASE CheckForce
  <2>1. Goto("read") /\ ~force'
    BY <1>1, <1>4 DEF CheckForce
  <2> QED BY <1>2, <2>1
<1>5. CASE EnterReadLoop
  <2>1. \E l \in {"panic", "read"} : Goto(l)
    BY <1>5 DEF EnterReadLoop
  <2>2. ~force'
    BY <1>1, <1>5 DEF EnterReadLoop
  <2> QED BY <1>2, <2>1, <2>2
<1>6. CASE LoopTop \/ Dial \/ Wait \/ LoopLeaves \/ WaitLoss \/ Redial
  <2>1. \E l \in {"done", "dial", "enter", "wait", "top", "redial", "recover"} : Goto(l)
    BY <1>6 DEF LoopTop, FromTop, Dial, Wait, LoopLeaves, WaitLoss, Redial
  <2>2. ~force'
    BY <1>1, <1>6 DEF LoopTop, Dial, Wait, LoopLeaves, WaitLoss, Redial
  <2> QED BY <1>2, <2>1, <2>2
<1> QED BY <1>3, <1>4, <1>5, <1>6 DEF LoopSteps

LEMMA StaysSteps ==
    ASSUME Inv, Dialed, Straight, Settled, Intact, Intact', ~MayTimeout, ~MayLose,
           [Next]_vars
    PROVE  StaysEffect
<1>1. Reader \in Procs /\ ~force /\ pc[Reader] # "returned" /\ First /\ ~Recovering
  BY ReaderIsNoCaller, IntactFacts DEF Settled
<1>2. ASSUME NEW p \in Callers,
             Begin(p) \/ Methods(p) \/ Connect(p) \/ Close(p) \/ CloseConn(p)
      PROVE  StaysEffect
  <2>1. Methods(p) => MethodStep(p)
    BY <1>2, MethodsStep
  <2>2. force' = force
    BY <1>2, <2>1 DEF Begin, MethodStep, MethodFrame, Connect, Close, CloseConn, flagVars
  <2>3. /\ \E l : pc' = [pc EXCEPT ![p] = l]
        /\ UNCHANGED out \/ \E cmd : out' = [out EXCEPT ![p] = cmd]
    BY <1>2, <2>1 DEF Begin, MethodStep, ControlStep, Connect, Close, CloseConn, Return
  <2>4. pc'[Reader] = pc[Reader] /\ out'[Reader] = out[Reader]
    BY <1>1, <2>3, ReaderIsNoCaller, Types
  <2> QED BY <2>2, <2>4 DEF StaysEffect
<1>3. ASSUME HandleIncoming PROVE StaysEffect
  <2>1. pc'[Reader] \in {"check", "deliver", "register"}
    BY <1>1, <1>3, HandlesStep, Types DEF Handles, Goto, SendStart
  <2> QED BY <1>1, <1>3, <2>1, NoGap DEF StaysEffect
<1>4. ASSUME FlushSent PROVE StaysEffect
  <2>1. out[Reader].ok
    BY <1>4 DEF FlushSent, At, Settled
  <2>2. force' = force /\ \E l \in {"register", "check"} : pc' = [pc EXCEPT ![Reader] = l]
    BY <1>4, <2>1, Types DEF FlushSent, SendStart, Goto
  <2> QED BY <1>1, <2>2, Types DEF StaysEffect
<1>5. ASSUME Deliver PROVE StaysEffect
  BY <1>1, <1>5, Types DEF Deliver, Goto, StaysEffect
<1>6. ~HandleConnectionLoss /\ ~RecoverSteps
  BY <1>1, RecoverDials DEF HandleConnectionLoss, At
<1>7. ASSUME Consume \/ Cancel \/ Feed \/ UNCHANGED vars PROVE StaysEffect
  BY <1>7 DEF Consume, Cancel, Feed, vars, clientVars, procVars, flagVars, StaysEffect
<1> QED BY <1>2, <1>3, <1>4, <1>5, <1>6, <1>7, StepCases, SendStays, LoopStays

LEMMA SettledStep ==
    ASSUME Inv, Dialed, Straight, Settled, ~MayTimeout, ~MayLose, [Next]_vars
    PROVE  Settled'
<1> SUFFICES ASSUME Intact'
             PROVE  /\ OnlyFirst' => conn' = 1
                    /\ ~force' /\ pc'[Reader] # "returned"
                    /\ pc'[Reader] = "finish" /\ out'[Reader].kind = "add" =>
                         out'[Reader].ok
  BY DEF Settled
<1>1. Intact
  <2>1. /\ Len(link) \in Nat /\ Len(link') \in Nat /\ Len(link') >= Len(link)
        /\ Len(link) # 0 /\ link' = <<"up">> => link = <<"up">>
    BY DialedStep, LinkGrows DEF DialedEffect
  <2> QED BY <2>1 DEF Intact, OnlyFirst
<1>2. StaysEffect
  BY <1>1, StaysSteps
<1>3. ~HandleConnectionLoss /\ ~RecoverSteps
  BY <1>1, IntactFacts, RecoverDials DEF HandleConnectionLoss, At, Settled
<1>4. OnlyFirst' => conn' = 1
  BY <1>1, <1>3, ConnSteps, ConnKept
<1> QED BY <1>1, <1>2, <1>4 DEF Settled, StaysEffect

LEMMA SettledInit == Init => Settled
<1> SUFFICES ASSUME Init PROVE Settled
  OBVIOUS
<1>1. conn = Len(link) /\ force = FALSE /\ pc[Reader] = "top"
  BY ReaderIsNoCaller DEF Init
<1>2. Len(<<"up">>) = 1
  OBVIOUS
<1> QED BY <1>1, <1>2 DEF Settled, OnlyFirst

\* If one goroutine calls the client, the service answers every command and loses
\* nothing, and no write times out, then readLoop is never told to leave the first
\* connection while it is up: no message is taken for one that follows a loss, although
\* answers and data share the numbers, and no flush of queued tickers fails
\* (handleSubscribed, handleOK, handleDataMessage).
THEOREM NothingForced ==
    ASSUME OneCaller, ~MayReject, ~MayTimeout, ~MayLose
    PROVE  Spec => [](OnlyFirst => NeverForced)
<1>1. Inv /\ Dialed /\ Straight /\ [Next]_vars => Straight'
  BY StraightStep
<1>2. Inv /\ Dialed /\ Straight /\ Settled /\ [Next]_vars => Settled'
  BY SettledStep
<1>3. Settled => (OnlyFirst => NeverForced)
  BY DEF Settled, Intact, NeverForced
<1> QED BY <1>1, <1>2, <1>3, StraightInit, SettledInit, DialedAlways, Inductive, PTL DEF Spec
=============================================================================
