-------------------------- MODULE TokenBucketProofs --------------------------
(***************************************************************************)
(* Proofs about TokenBucket, for any buckets, goroutines, costs and steps  *)
(* of the clock: types, what is granted is paid for and within the quota,  *)
(* and a wait is long enough.                                              *)
(***************************************************************************)
EXTENDS TokenBucket, TLAPS

-----------------------------------------------------------------------------
(* Arithmetic.                                                             *)

\* A truncated division is less than one divisor off.
LEMMA Division ==
    ASSUME NEW a \in Nat, NEW b \in Nat \ {0}
    PROVE  a \div b \in Nat /\ a < b * (a \div b + 1)
<1>1. a \div b \in Nat /\ a < b * (a \div b) + b
  OBVIOUS
<1>2. b * (a \div b + 1) = b * (a \div b) + b
  BY <1>1
<1> QED BY <1>1, <1>2

LEMMA ProductNat == ASSUME NEW r \in Nat, NEW x \in Nat PROVE r * x \in Nat
OBVIOUS

LEMMA ProductSum ==
    ASSUME NEW r \in Int, NEW x \in Int, NEW y \in Int
    PROVE  r * x \in Int /\ r * y \in Int /\ r * (x + y) = r * x + r * y
OBVIOUS

LEMMA ProductOrder ==
    ASSUME NEW r \in Nat, NEW x \in Int, NEW y \in Int, x <= y
    PROVE  r * x \in Int /\ r * y \in Int /\ r * x <= r * y
<1>1. y - x \in Nat /\ y = x + (y - x)
  OBVIOUS
<1>2. r * (y - x) \in Nat
  BY <1>1, ProductNat
<1>3. r * (x + (y - x)) = r * x + r * (y - x) /\ r * x \in Int
  BY <1>1, ProductSum
<1> QED BY <1>1, <1>2, <1>3

\* A sum of d and g times r, divided by r, is at least g more than what covers d.
LEMMA PaddedDivision ==
    ASSUME NEW d \in Nat, NEW r \in Nat \ {0}, NEW q \in Nat \ {0}, NEW s \in Nat,
           NEW g \in Nat, g * q <= s
    PROVE  LET w == (d * q + s * r) \div (r * q)
           IN  w \in Nat /\ w >= g /\ d <= r * ((w + 1) - g)
<1> DEFINE w == (d * q + s * r) \div (r * q)
           x == r * ((w + 1) - g)
<1>1. d * q \in Nat /\ s * r \in Nat /\ r * q \in Nat \ {0}
  BY ProductNat
<1>2. w \in Nat /\ d * q + s * r < (r * q) * (w + 1)
  <2> DEFINE sum == d * q + s * r
             by == r * q
  <2>1. sum \in Nat /\ by \in Nat \ {0}
    BY <1>1
  <2>2. w = sum \div by
    OBVIOUS
  <2> HIDE DEF sum, by, w
  <2>3. w \in Nat /\ sum < by * (w + 1)
    BY <2>1, <2>2, Division
  <2> QED BY <2>3 DEF sum, by
<1>3. (g * q) * r \in Int /\ (g * q) * r <= s * r
  <2>1. r * (g * q) <= r * s
    BY ProductOrder
  <2> QED BY <2>1
<1> HIDE DEF w
<1>4. x \in Int /\ q * x = (r * q) * (w + 1) - (g * q) * r
  <2>1. (w + 1) - g \in Int /\ w + 1 \in Int
    BY <1>2
  <2>2. x = r * (w + 1) - r * g
    BY <1>2
  <2>3. q * x = q * (r * (w + 1)) - q * (r * g)
    BY <1>2, <2>2
  <2> QED BY <1>2, <2>1, <2>3
<1>5. d < x
  <2>1. q * d < q * x /\ q * x \in Int
    BY <1>1, <1>2, <1>3, <1>4
  <2>2. CASE x <= d
    <3>1. q * x <= q * d
      BY <1>4, <2>2, ProductOrder
    <3> QED BY <2>1, <3>1
  <2> QED BY <1>4, <2>2
<1>6. w >= g
  <2>1. SUFFICES ASSUME w < g PROVE FALSE
    BY <1>2
  <2>2. (w + 1) - g \in Int /\ (w + 1) - g <= 0
    BY <1>2, <2>1
  <2>3. x <= r * 0
    BY <2>2, ProductOrder
  <2> QED BY <1>4, <1>5, <2>3
<1> QED BY <1>2, <1>5, <1>6 DEF w

\* The reading of the clock is behind the time by less than its resolution, and never
\* goes back when time goes on.
LEMMA Reading ==
    ASSUME NEW t \in Int
    PROVE  ClockAt(t) \in Int /\ ClockAt(t) <= t /\ t < ClockAt(t) + Grain
<1>1. Grain \in Nat \ {0}
  BY BucketAssumption
<1>2. t \div Grain \in Int /\ Grain * (t \div Grain) <= t
      /\ t < Grain * (t \div Grain) + Grain
  BY <1>1
<1> QED BY <1>1, <1>2 DEF ClockAt

LEMMA ReadingOrder ==
    ASSUME NEW t \in Int, NEW u \in Int, t <= u
    PROVE  ClockAt(t) <= ClockAt(u)
<1>1. Grain \in Nat \ {0} /\ t \div Grain \in Int /\ u \div Grain \in Int
  BY BucketAssumption
<1>2. t \div Grain <= u \div Grain
  <2>1. SUFFICES ASSUME u \div Grain + 1 <= t \div Grain PROVE FALSE
    BY <1>1
  <2>2. Grain * (u \div Grain + 1) <= Grain * (t \div Grain)
    BY <1>1, <2>1, ProductOrder
  <2>3. Grain * (u \div Grain + 1) = Grain * (u \div Grain) + Grain
    BY <1>1
  <2>4. Grain * (t \div Grain) <= t /\ u < Grain * (u \div Grain) + Grain
        /\ Grain * (t \div Grain) \in Int /\ Grain * (u \div Grain) \in Int
    BY <1>1, Reading DEF ClockAt
  <2> QED BY <1>1, <2>2, <2>3, <2>4
<1> QED BY <1>1, <1>2, ProductOrder DEF ClockAt

-----------------------------------------------------------------------------
(* One bucket.                                                             *)

\* Rates are positive and capacities are not negative (readCap, writeCap).
LEMMA Configured ==
    /\ Rate \in [Limiters -> [Lanes -> Nat \ {0}]]
    /\ Capacity \in [Limiters -> Costs]
BY BucketAssumption DEF Rate, Capacity, CapOf, TokenBucketConfig, Costs, Lanes

\* What a refill makes of a bucket: full, or with what the rate added.
LEMMA RefillFacts ==
    ASSUME BucketTypeOK, NEW l \in Limiters
    PROVE  /\ Refilled(l) \in Costs /\ RefillTime(l) \in Int
           /\ lastRefill[l] <= RefillTime(l) /\ Clock <= RefillTime(l)
           /\ \A k \in Lanes :
                /\ Refilled(l)[k] <= Capacity[l][k]
                /\ LET more == tokens[l][k] + Rate[l][k] * (RefillTime(l) - lastRefill[l])
                   IN  /\ Refilled(l)[k] <= more
                       /\ Refilled(l)[k] < Capacity[l][k] => Refilled(l)[k] = more
<1>1. /\ Clock \in Int /\ lastRefill[l] \in Int /\ tokens[l] \in Costs
      /\ \A k \in Lanes : tokens[l][k] <= Capacity[l][k]
  BY Reading DEF BucketTypeOK, Clock
<1>2. /\ Capacity[l] \in Costs /\ Rate[l] \in [Lanes -> Nat \ {0}]
  BY Configured
<1>3. CASE Clock <= lastRefill[l]
  <2>1. Refilled(l) = tokens[l] /\ RefillTime(l) = lastRefill[l]
    BY <1>3 DEF Refilled, RefillTime
  <2>2. \A k \in Lanes : Rate[l][k] * (lastRefill[l] - lastRefill[l]) = 0
    BY <1>1, <1>2
  <2> QED BY <1>1, <1>2, <1>3, <2>1, <2>2 DEF Costs
<1>4. CASE ~(Clock <= lastRefill[l])
  <2> DEFINE gain(k) == (Clock - lastRefill[l]) * Rate[l][k]
  <2>1. /\ Refilled(l) = [k \in Lanes |-> Least(tokens[l][k] + gain(k), Capacity[l][k])]
        /\ RefillTime(l) = Clock
    BY <1>4 DEF Refilled, RefillTime
  <2>2. ASSUME NEW k \in Lanes
        PROVE  gain(k) \in Nat /\ gain(k) = Rate[l][k] * (Clock - lastRefill[l])
    <3>1. Clock - lastRefill[l] \in Nat /\ Rate[l][k] \in Nat
      BY <1>1, <1>2, <1>4
    <3> QED BY <3>1, ProductNat
  <2> HIDE DEF gain
  <2> QED BY <1>1, <1>2, <1>4, <2>1, <2>2 DEF Costs, Least
<1> QED BY <1>3, <1>4

\* What is left when a cost is taken.
LEMMA ConsumeFacts ==
    ASSUME NEW t \in Costs, NEW cost \in Costs, canProceed(t, cost)
    PROVE  /\ consume(t, cost) \in Costs
           /\ \A k \in Lanes : consume(t, cost)[k] = t[k] - cost[k]
BY DEF Costs, canProceed, consume

\* The wait is whole, and with a padding of at least g ticks it is enough even when g - 1
\* of them do not count.
LEMMA WaitFacts ==
    ASSUME NEW l \in Limiters, NEW t \in Costs, NEW cost \in Costs,
           NEW g \in Nat, g * Parts <= Padding
    PROVE  LET wait == calculateWaitTime(l, t, cost)
           IN  /\ wait \in Nat /\ wait >= g
               /\ \A k \in Lanes : cost[k] <= t[k] + Rate[l][k] * ((wait + 1) - g)
<1> DEFINE wait == calculateWaitTime(l, t, cost)
           W(k) == LaneWait(l, t, cost, k, Padding)
           deficit(k) == Greatest(cost[k] - t[k], 0)
<1>0. Padding \in Nat /\ Parts \in Nat \ {0}
  BY BucketAssumption
<1>1. ASSUME NEW k \in Lanes
      PROVE  /\ cost[k] \in Nat /\ t[k] \in Nat /\ Rate[l][k] \in Nat \ {0}
             /\ deficit(k) \in Nat /\ cost[k] <= t[k] + deficit(k)
  BY Configured DEF Costs, Greatest
<1>2. ASSUME NEW k \in Lanes
      PROVE  W(k) \in Nat /\ W(k) >= g /\ deficit(k) <= Rate[l][k] * ((W(k) + 1) - g)
  <2>1. W(k) = (deficit(k) * Parts + Padding * Rate[l][k]) \div (Rate[l][k] * Parts)
    BY DEF LaneWait
  <2>2. /\ deficit(k) \in Nat /\ Rate[l][k] \in Nat \ {0} /\ Parts \in Nat \ {0}
        /\ Padding \in Nat /\ g \in Nat /\ g * Parts <= Padding
    BY <1>0, <1>1
  <2> DEFINE d == deficit(k)
             r == Rate[l][k]
             w == (d * Parts + Padding * r) \div (r * Parts)
  <2>3. d \in Nat /\ r \in Nat \ {0} /\ W(k) = w
    BY <2>1, <2>2
  <2> HIDE DEF W, deficit, d, r
  <2>4. w \in Nat /\ w >= g /\ d <= r * ((w + 1) - g)
    BY <2>2, <2>3, PaddedDivision
  <2> HIDE DEF w
  <2> QED BY <2>3, <2>4 DEF d, r
<1>3. wait = Greatest(W("read"), W("write"))
  BY DEF calculateWaitTime
<1> HIDE DEF wait, W, deficit
<1>4. /\ wait \in Nat /\ wait >= g
      /\ \A k \in Lanes : wait >= W(k)
  BY <1>2, <1>3 DEF Greatest, Lanes
<1>5. ASSUME NEW k \in Lanes PROVE cost[k] <= t[k] + Rate[l][k] * ((wait + 1) - g)
  <2>1. (W(k) + 1) - g \in Int /\ (wait + 1) - g \in Int /\ (W(k) + 1) - g <= (wait + 1) - g
    BY <1>2, <1>4
  <2>2. /\ Rate[l][k] * ((W(k) + 1) - g) \in Int /\ Rate[l][k] * ((wait + 1) - g) \in Int
        /\ Rate[l][k] * ((W(k) + 1) - g) <= Rate[l][k] * ((wait + 1) - g)
    BY <1>1, <2>1, ProductOrder
  <2> QED BY <1>1, <1>2, <2>2
<1> QED BY <1>4, <1>5 DEF wait

LEMMA WaitWhole ==
    ASSUME NEW l \in Limiters, NEW t \in Costs, NEW cost \in Costs
    PROVE  /\ calculateWaitTime(l, t, cost) \in Nat
           /\ Padding >= Parts => calculateWaitTime(l, t, cost) >= 1
<1>1. Padding \in Nat /\ Parts \in Nat /\ 0 * Parts = 0 /\ 1 * Parts = Parts
  BY BucketAssumption
<1>2. calculateWaitTime(l, t, cost) \in Nat
  BY <1>1, WaitFacts
<1>3. ASSUME Padding >= Parts PROVE calculateWaitTime(l, t, cost) >= 1
  <2>1. 1 * Parts <= Padding
    BY <1>1, <1>3
  <2> QED BY <2>1, WaitFacts
<1> QED BY <1>2, <1>3

-----------------------------------------------------------------------------
(* Types.                                                                  *)

\* What a step does to the buckets.
Looked(l) ==
    /\ tokens' = [tokens EXCEPT ![l] = Refilled(l)]
    /\ lastRefill' = [lastRefill EXCEPT ![l] = RefillTime(l)]
    /\ since' = [since EXCEPT ![l] = RefillTime(l)]
    /\ spent' = [spent EXCEPT ![l] = [k \in Lanes |-> 0]]
    /\ UNCHANGED made
Took(l, cost) == canProceed(Refilled(l), cost) /\ TakeFrom(l, cost)

StoreTypes ==
    /\ made \subseteq Limiters
    /\ tokens \in [Limiters -> Costs] /\ lastRefill \in [Limiters -> Int]
    /\ \A l \in Limiters : \A k \in Lanes : tokens[l][k] <= Capacity[l][k]
    /\ spent \in [Limiters -> Costs] /\ since \in [Limiters -> Int]
ControlTypes ==
    /\ acq \in [Procs -> AcquireState]
    /\ timer \in [Procs -> Nat] /\ ctxDone \in [Procs -> BOOLEAN]
ClockTypes == now \in Int /\ lull \in Nat /\ steps \in Nat

LEMMA TypesSplit ==
    /\ BucketTypeOK <=> StoreTypes /\ ControlTypes /\ ClockTypes
    /\ BucketTypeOK' <=> StoreTypes' /\ ControlTypes' /\ ClockTypes'
BY DEF BucketTypeOK, StoreTypes, ControlTypes, ClockTypes

LEMMA NoCost == [k \in Lanes |-> 0] \in Costs
BY DEF Costs

LEMMA TookTypes ==
    ASSUME BucketTypeOK, NEW l \in Limiters, NEW cost \in Costs, Took(l, cost)
    PROVE  StoreTypes'
<1> DEFINE left == consume(Refilled(l), cost)
           total == [k \in Lanes |-> spent[l][k] + cost[k]]
<1>1. /\ Refilled(l) \in Costs /\ RefillTime(l) \in Int
      /\ \A k \in Lanes : Refilled(l)[k] <= Capacity[l][k]
  BY RefillFacts
<1>2. /\ left \in Costs
      /\ \A k \in Lanes : left[k] = Refilled(l)[k] - cost[k]
  BY <1>1, ConsumeFacts DEF Took
<1>3. \A k \in Lanes : left[k] <= Capacity[l][k]
  <2> HIDE DEF left
  <2> QED BY <1>1, <1>2, Configured DEF Costs
<1>4. total \in Costs
  BY DEF Costs, BucketTypeOK
<1>5. /\ tokens' = [tokens EXCEPT ![l] = left]
      /\ lastRefill' = [lastRefill EXCEPT ![l] = RefillTime(l)]
      /\ spent' = [spent EXCEPT ![l] = total]
      /\ UNCHANGED <<made, since>>
  BY DEF Took, TakeFrom
<1> HIDE DEF left, total
<1> QED BY <1>1, <1>2, <1>3, <1>4, <1>5 DEF BucketTypeOK, StoreTypes

LEMMA RefillTypes ==
    ASSUME BucketTypeOK, NEW l \in Limiters, RefillOnly(l)
    PROVE  StoreTypes'
BY RefillFacts DEF RefillOnly, BucketTypeOK, StoreTypes

LEMMA LookedTypes ==
    ASSUME BucketTypeOK, NEW l \in Limiters, Looked(l)
    PROVE  StoreTypes'
BY RefillFacts, NoCost DEF Looked, BucketTypeOK, StoreTypes

LEMMA NewBucketTypes ==
    ASSUME BucketTypeOK, NEW l \in Limiters, NewBucket(l)
    PROVE  StoreTypes'
<1>1. /\ Capacity[l] \in Costs /\ \A k \in Lanes : Capacity[l][k] <= Capacity[l][k]
      /\ Clock \in Int
  BY Configured, Reading DEF Costs, Clock, BucketTypeOK
<1> QED BY <1>1 DEF NewBucket, BucketTypeOK, StoreTypes

LEMMA SameStoreTypes == ASSUME StoreTypes, UNCHANGED storeVars PROVE StoreTypes'
BY DEF StoreTypes, storeVars

LEMMA SameControlTypes ==
    ASSUME ControlTypes, UNCHANGED <<acq, timer, ctxDone>> PROVE ControlTypes'
BY DEF ControlTypes

LEMMA SameClockTypes == ASSUME ClockTypes, UNCHANGED clockVars PROVE ClockTypes'
BY DEF ClockTypes, clockVars

\* Disturb only looks away from who sleeps.
LEMMA DisturbFacts ==
    ASSUME BucketTypeOK, NEW l \in Limiters, NEW p \in Procs, NEW a \in AcquireState,
           Disturb(l, p, a)
    PROVE  /\ acq' \in [Procs -> AcquireState] /\ acq'[p] = a
           /\ \A q \in Procs \ {p} :
                /\ acq'[q].pc = acq[q].pc /\ acq'[q].lim = acq[q].lim
                /\ acq'[q].cost = acq[q].cost /\ acq'[q].paid = acq[q].paid
                /\ acq'[q].calm => acq[q].calm /\ acq[q].lim # l
<1>1. ASSUME NEW q \in Procs \ {p}
      PROVE  /\ acq'[q] \in AcquireState
             /\ acq'[q].pc = acq[q].pc /\ acq'[q].lim = acq[q].lim
             /\ acq'[q].cost = acq[q].cost /\ acq'[q].paid = acq[q].paid
             /\ acq'[q].calm => acq[q].calm /\ acq[q].lim # l
  <2>1. acq[q] \in AcquireState
    BY DEF BucketTypeOK
  <2>2. acq'[q] = IF acq[q].lim = l THEN [acq[q] EXCEPT !.calm = FALSE] ELSE acq[q]
    BY DEF Disturb
  <2>3. CASE acq[q].lim = l
    BY <2>1, <2>2, <2>3 DEF AcquireState
  <2>4. CASE acq[q].lim # l
    BY <2>1, <2>2, <2>4 DEF AcquireState
  <2> QED BY <2>3, <2>4
<1>2. acq'[p] = a
  BY DEF Disturb
<1>3. acq' = [q \in Procs |-> acq'[q]]
  BY DEF Disturb
<1>4. \A q \in Procs : acq'[q] \in AcquireState
  BY <1>1, <1>2
<1> QED BY <1>1, <1>2, <1>3, <1>4

\* The steps of Acquire, one by one.
LEMMA AcquireTypes ==
    ASSUME BucketTypeOK, NEW p \in Procs,
           \/ TryCancelled(p) \/ TryGranted(p) \/ TryWait(p) \/ Wake(p) \/ SleepCancelled(p)
    PROVE  BucketTypeOK'
<1> DEFINE l == acq[p].lim  c == acq[p].cost
<1>0. /\ StoreTypes /\ ControlTypes /\ ClockTypes
      /\ acq[p] \in AcquireState /\ l \in Limiters /\ c \in Costs
  BY TypesSplit DEF ControlTypes, AcquireState
<1>1. CASE TryCancelled(p)
  <2>1. ControlTypes'
    BY <1>0, <1>1 DEF TryCancelled, ControlTypes, AcquireState
  <2> QED BY <1>0, <1>1, <2>1, SameStoreTypes, SameClockTypes, TypesSplit DEF TryCancelled
<1>2. CASE TryGranted(p)
  <2>1. Took(l, c) /\ Disturb(l, p, [acq[p] EXCEPT !.pc = "granted", !.paid = TRUE])
        /\ UNCHANGED <<clockVars, timer, ctxDone>>
    BY <1>2 DEF TryGranted, Took
  <2>2. StoreTypes'
    BY <1>0, <2>1, TookTypes
  <2>3. [acq[p] EXCEPT !.pc = "granted", !.paid = TRUE] \in AcquireState
    BY <1>0 DEF AcquireState
  <2>4. acq' \in [Procs -> AcquireState]
    BY <1>0, <2>1, <2>3, DisturbFacts
  <2> QED BY <1>0, <2>1, <2>2, <2>4, SameClockTypes, TypesSplit DEF ControlTypes
<1>3. CASE TryWait(p)
  <2> DEFINE wait == calculateWaitTime(l, Refilled(l), c)
  <2>1. StoreTypes'
    BY <1>0, <1>3, RefillTypes DEF TryWait
  <2>2. wait \in Nat
    BY <1>0, RefillFacts, WaitWhole
  <2>3. /\ acq' = [acq EXCEPT ![p].pc = IF wait = 0 THEN "granted" ELSE "sleep",
                              ![p].calm = ~(Clock < lastRefill[l])]
        /\ timer' = [timer EXCEPT ![p] = wait] /\ UNCHANGED <<clockVars, ctxDone>>
    BY <1>3 DEF TryWait
  <2> HIDE DEF wait
  <2>4. PICK calm \in BOOLEAN : calm = ~(Clock < lastRefill[l])
    BY Zenon
  <2>5. PICK pc \in {"granted", "sleep"} : pc = IF wait = 0 THEN "granted" ELSE "sleep"
    BY Zenon
  <2>6. acq' = [acq EXCEPT ![p].pc = pc, ![p].calm = calm]
    BY <2>3, <2>4, <2>5, Zenon
  <2>7. acq' \in [Procs -> AcquireState]
    BY <1>0, <2>6 DEF AcquireState, ControlTypes
  <2> QED BY <1>0, <2>1, <2>2, <2>3, <2>7, SameClockTypes, TypesSplit DEF ControlTypes
<1>4. CASE Wake(p)
  <2>1. ControlTypes'
    BY <1>0, <1>4 DEF Wake, ControlTypes, AcquireState
  <2> QED BY <1>0, <1>4, <2>1, SameStoreTypes, SameClockTypes, TypesSplit DEF Wake
<1>5. CASE SleepCancelled(p)
  <2>1. ControlTypes'
    BY <1>0, <1>5 DEF SleepCancelled, ControlTypes, AcquireState
  <2> QED BY <1>0, <1>5, <2>1, SameStoreTypes, SameClockTypes, TypesSplit DEF SleepCancelled
<1> QED BY <1>1, <1>2, <1>3, <1>4, <1>5

\* A call of Acquire or TryAcquire.
LEMMA CallTypes ==
    ASSUME BucketTypeOK, NEW l \in Limiters, NEW cost \in Costs, NEW p \in Procs,
           Acquire(p, l, cost) \/ TryAcquire(p, l, cost)
    PROVE  BucketTypeOK'
<1>0. StoreTypes /\ ControlTypes /\ ClockTypes /\ acq[p] \in AcquireState
  BY TypesSplit DEF ControlTypes
<1>1. CASE Acquire(p, l, cost)
  <2>1. PICK pc \in {"refused", "try"} :
            pc = IF \E k \in Lanes : cost[k] > Capacity[l][k] THEN "refused" ELSE "try"
    BY Zenon
  <2>2. acq' = [acq EXCEPT ![p] = [pc |-> pc, lim |-> l, cost |-> cost,
                                   paid |-> FALSE, calm |-> FALSE]]
    BY <1>1, <2>1, Zenon DEF Acquire
  <2>3. acq' \in [Procs -> AcquireState]
    BY <1>0, <2>2 DEF ControlTypes, AcquireState
  <2> QED BY <1>0, <1>1, <2>3, SameStoreTypes, SameClockTypes, TypesSplit
          DEF Acquire, ControlTypes
<1>2. CASE TryAcquire(p, l, cost)
  <2>1. Took(l, cost) /\ Disturb(l, p, acq[p]) /\ UNCHANGED <<clockVars, timer, ctxDone>>
    BY <1>2 DEF TryAcquire, Took
  <2>2. StoreTypes' /\ acq' \in [Procs -> AcquireState]
    BY <1>0, <2>1, TookTypes, DisturbFacts
  <2> QED BY <1>0, <2>1, <2>2, SameClockTypes, TypesSplit DEF ControlTypes
<1> QED BY <1>1, <1>2

LEMMA CollectTypes ==
    ASSUME ControlTypes, NEW p \in Procs, NEW outcome, Collect(p, outcome)
    PROVE  acq' \in [Procs -> AcquireState]
BY DEF Collect, ControlTypes, AcquireState

LEMMA CallerTypes == ASSUME BucketTypeOK, CallerStep PROVE BucketTypeOK'
<1>0. StoreTypes /\ ControlTypes /\ ClockTypes
  BY TypesSplit
<1>1. acq' \in [Procs -> AcquireState]
  <2>1. CASE UNCHANGED acq
    BY <1>0, <2>1 DEF ControlTypes
  <2>2. CASE \E p \in Procs : \E outcome \in {"granted", "refused"} : Collect(p, outcome)
    BY <1>0, <2>2, CollectTypes
  <2> QED BY <2>1, <2>2 DEF CallerStep
<1> QED BY <1>0, <1>1, SameStoreTypes, SameClockTypes, TypesSplit
        DEF CallerStep, ControlTypes

LEMMA TickTypes == ASSUME BucketTypeOK, Tick PROVE BucketTypeOK'
<1>0. StoreTypes /\ ControlTypes /\ ClockTypes
  BY TypesSplit
<1>1. timer' \in [Procs -> Nat]
  BY <1>0 DEF Tick, ControlTypes, Greatest
<1>2. ClockTypes'
  BY <1>0 DEF Tick, ClockTypes
<1> QED BY <1>0, <1>1, <1>2, SameStoreTypes, TypesSplit DEF Tick, ControlTypes

LEMMA ClockTypesKept ==
    ASSUME BucketTypeOK, NEW d \in ClockSteps, SetClock(d) PROVE BucketTypeOK'
<1>0. StoreTypes /\ ControlTypes /\ ClockTypes /\ d \in Int
  BY TypesSplit, BucketAssumption
<1>1. acq' \in [Procs -> AcquireState]
  BY <1>0 DEF SetClock, ControlTypes, AcquireState
<1>2. ClockTypes'
  BY <1>0 DEF SetClock, ClockTypes
<1> QED BY <1>0, <1>1, <1>2, SameStoreTypes, TypesSplit DEF SetClock, ControlTypes

LEMMA StepTypes == ASSUME BucketTypeOK, [BucketNext]_bucketVars PROVE BucketTypeOK'
<1>1. ASSUME NEW l \in Limiters,
             \/ NewBucket(l) /\ UNCHANGED <<clockVars, acq, timer, ctxDone>>
             \/ Status(l) \/ GetWaitTime(l)
      PROVE  BucketTypeOK'
  BY <1>1, LookedTypes, RefillTypes, NewBucketTypes, SameControlTypes, SameClockTypes,
     TypesSplit DEF Status, Looked, GetWaitTime
<1>2. ASSUME NEW l \in Limiters, NEW cost \in Costs, TryAcquireFails(l, cost)
      PROVE  BucketTypeOK'
  BY <1>2, RefillTypes, SameControlTypes, SameClockTypes, TypesSplit DEF TryAcquireFails
<1>3. ASSUME NEW l \in Limiters, NEW cost \in Costs, NEW p \in Procs,
             Acquire(p, l, cost) \/ TryAcquire(p, l, cost)
      PROVE  BucketTypeOK'
  BY <1>3, CallTypes
<1>4. CASE UNCHANGED bucketVars
  BY <1>4 DEF bucketVars, BucketTypeOK
<1> QED BY <1>1, <1>2, <1>3, <1>4, AcquireTypes, CallerTypes, TickTypes, ClockTypesKept
        DEF BucketNext

-----------------------------------------------------------------------------
(* What a step may do to an Acquire, and to a bucket.                      *)

\* A goroutine that is in Acquire is in it with a bucket that exists, and waits only
\* for a cost that a full bucket covers.
LimMade == \A p \in Procs : acq[p].pc # "idle" => acq[p].lim \in made
Fits(p) == \A k \in Lanes : acq[p].cost[k] <= Capacity[acq[p].lim][k]
CostFits == \A p \in Procs : acq[p].pc \in {"try", "sleep"} => Fits(p)

Same(p) == acq'[p].lim = acq[p].lim /\ acq'[p].cost = acq[p].cost /\ acq'[p].paid = acq[p].paid
Stays(p) == Same(p) /\ acq'[p].pc = acq[p].pc
Enters(p) == /\ acq[p].pc = "idle" /\ acq'[p].pc \in {"try", "refused"}
             /\ acq'[p].lim \in made /\ ~acq'[p].paid
             /\ acq'[p].pc = "try" => Fits(p)'
Moves(p) == /\ acq[p].pc \in {"try", "sleep"} /\ acq'[p].pc \in {"try", "sleep", "refused"}
            /\ Same(p)
Grants(p) == /\ acq[p].pc = "try" /\ acq'[p].pc = "granted" /\ acq'[p].lim = acq[p].lim
             /\ Padding >= Parts => acq'[p].paid
Leaves(p) == acq'[p].pc = "idle"
ControlStep ==
    \A p \in Procs : Stays(p) \/ Enters(p) \/ Moves(p) \/ Grants(p) \/ Leaves(p)

StoreStep ==
    \/ UNCHANGED storeVars
    \/ \E l \in Limiters : NewBucket(l)
    \/ \E l \in made : RefillOnly(l) \/ Looked(l)
    \/ \E l \in made : \E cost \in Costs : Took(l, cost)

\* If one goroutine changes its Acquire, the others stay as they are.
LEMMA OneChanges ==
    ASSUME BucketTypeOK, NEW p \in Procs, NEW a, acq' = [acq EXCEPT ![p] = a],
           Stays(p) \/ Enters(p) \/ Moves(p) \/ Grants(p) \/ Leaves(p)
    PROVE  ControlStep
BY DEF BucketTypeOK, ControlStep, Stays, Same

LEMMA DisturbChanges ==
    ASSUME BucketTypeOK, NEW l \in Limiters, NEW p \in Procs, NEW a \in AcquireState,
           Disturb(l, p, a), a = acq[p] \/ Grants(p)
    PROVE  ControlStep
BY DisturbFacts DEF ControlStep, Stays, Same

LEMMA NobodyChanges == ASSUME UNCHANGED acq PROVE ControlStep
BY DEF ControlStep, Stays, Same

LEMMA AcquireEffects ==
    ASSUME BucketTypeOK, LimMade, NEW p \in Procs,
           \/ TryCancelled(p) \/ TryGranted(p) \/ TryWait(p) \/ Wake(p) \/ SleepCancelled(p)
    PROVE  ControlStep /\ StoreStep
<1> DEFINE l == acq[p].lim  c == acq[p].cost
<1>0. /\ acq[p] \in AcquireState /\ l \in Limiters /\ c \in Costs
      /\ acq[p].pc # "idle" => l \in made
  BY DEF BucketTypeOK, AcquireState, LimMade
<1>1. CASE TryCancelled(p) \/ Wake(p) \/ SleepCancelled(p)
  <2>1. StoreStep
    BY <1>1 DEF TryCancelled, Wake, SleepCancelled, StoreStep
  <2>2. ControlStep
    BY <1>1, OneChanges DEF TryCancelled, Wake, SleepCancelled, Moves, Same, BucketTypeOK, AcquireState
  <2> QED BY <2>1, <2>2
<1>2. CASE TryGranted(p)
  <2> DEFINE a == [acq[p] EXCEPT !.pc = "granted", !.paid = TRUE]
  <2>1. a \in AcquireState /\ a.pc = "granted" /\ a.lim = l /\ a.paid
    BY <1>0 DEF AcquireState
  <2>2. acq[p].pc = "try" /\ Took(l, c) /\ Disturb(l, p, a)
    BY <1>2 DEF TryGranted, Took
  <2> HIDE DEF a
  <2>3. Grants(p)
    BY <1>0, <2>1, <2>2, DisturbFacts DEF Grants
  <2> QED BY <1>0, <2>1, <2>2, <2>3, DisturbChanges DEF StoreStep
<1>3. CASE TryWait(p)
  <2> DEFINE wait == calculateWaitTime(l, Refilled(l), c)
  <2>1. acq[p].pc = "try" /\ RefillOnly(l)
        /\ acq' = [acq EXCEPT ![p].pc = IF wait = 0 THEN "granted" ELSE "sleep",
                              ![p].calm = ~(Clock < lastRefill[l])]
    BY <1>3 DEF TryWait
  <2>2. wait \in Nat /\ (Padding >= Parts => wait >= 1)
    BY <1>0, RefillFacts, WaitWhole
  <2> HIDE DEF wait
  <2>3. Grants(p) \/ Moves(p)
    BY <1>0, <2>1, <2>2 DEF Grants, Moves, Same, BucketTypeOK, AcquireState
  <2>4. ControlStep
    BY <2>1, <2>3, OneChanges
  <2> QED BY <1>0, <2>1, <2>4 DEF StoreStep
<1> QED BY <1>1, <1>2, <1>3

LEMMA CallEffects ==
    ASSUME BucketTypeOK, NEW l \in Limiters, NEW cost \in Costs, NEW p \in Procs,
           Acquire(p, l, cost) \/ TryAcquire(p, l, cost)
    PROVE  ControlStep /\ StoreStep
<1>1. CASE Acquire(p, l, cost)
  <2> DEFINE over == \E k \in Lanes : cost[k] > Capacity[l][k]
             a == [pc |-> IF over THEN "refused" ELSE "try", lim |-> l, cost |-> cost,
                   paid |-> FALSE, calm |-> FALSE]
  <2>1. acq[p].pc = "idle" /\ l \in made /\ acq' = [acq EXCEPT ![p] = a] /\ UNCHANGED storeVars
    BY <1>1 DEF Acquire
  <2>2. acq'[p] = a
    BY <2>1 DEF BucketTypeOK
  <2>3. /\ acq'[p].pc = IF over THEN "refused" ELSE "try"
        /\ acq'[p].lim = l /\ acq'[p].cost = cost /\ acq'[p].paid = FALSE
    BY <2>2
  <2>4. ~over => \A k \in Lanes : cost[k] <= Capacity[l][k]
    BY Configured DEF Costs
  <2>5. Capacity' = Capacity
    OBVIOUS
  <2> HIDE DEF over, a
  <2>6. Enters(p)
    BY <2>1, <2>3, <2>4, <2>5 DEF Enters, Fits, storeVars
  <2> QED BY <2>1, <2>6, OneChanges DEF StoreStep
<1>2. CASE TryAcquire(p, l, cost)
  <2>1. l \in made /\ Took(l, cost) /\ Disturb(l, p, acq[p]) /\ acq[p] \in AcquireState
    BY <1>2 DEF TryAcquire, Took, BucketTypeOK
  <2> QED BY <2>1, DisturbChanges DEF StoreStep
<1> QED BY <1>1, <1>2

LEMMA CallerEffects == ASSUME BucketTypeOK, CallerStep PROVE ControlStep /\ StoreStep
<1>1. CASE UNCHANGED acq
  BY <1>1, NobodyChanges DEF CallerStep, StoreStep
<1>2. ASSUME NEW p \in Procs, NEW outcome \in {"granted", "refused"}, Collect(p, outcome)
      PROVE  ControlStep
  BY <1>2, OneChanges DEF Collect, Leaves, BucketTypeOK, AcquireState
<1> QED BY <1>1, <1>2 DEF CallerStep, StoreStep

LEMMA ClockEffects ==
    ASSUME BucketTypeOK, Tick \/ \E d \in ClockSteps : SetClock(d)
    PROVE  ControlStep /\ StoreStep
<1>1. CASE Tick
  BY <1>1, NobodyChanges DEF Tick, StoreStep
<1>2. CASE \E d \in ClockSteps : SetClock(d)
  BY <1>2 DEF SetClock, StoreStep, ControlStep, Stays, Same, BucketTypeOK, AcquireState
<1> QED BY <1>1, <1>2

LEMMA StepEffects ==
    ASSUME BucketTypeOK, LimMade, [BucketNext]_bucketVars
    PROVE  ControlStep /\ StoreStep
<1>1. ASSUME NEW l \in Limiters,
             \/ NewBucket(l) /\ UNCHANGED <<clockVars, acq, timer, ctxDone>>
             \/ Status(l) \/ GetWaitTime(l)
      PROVE  ControlStep /\ StoreStep
  BY <1>1, NobodyChanges DEF Status, Looked, GetWaitTime, StoreStep
<1>2. ASSUME NEW l \in Limiters, NEW cost \in Costs, TryAcquireFails(l, cost)
      PROVE  ControlStep /\ StoreStep
  BY <1>2, NobodyChanges DEF TryAcquireFails, StoreStep
<1>3. ASSUME NEW l \in Limiters, NEW cost \in Costs, NEW p \in Procs,
             Acquire(p, l, cost) \/ TryAcquire(p, l, cost)
      PROVE  ControlStep /\ StoreStep
  BY <1>3, CallEffects
<1>4. CASE UNCHANGED bucketVars
  BY <1>4, NobodyChanges DEF bucketVars, StoreStep, storeVars
<1> QED BY <1>1, <1>2, <1>3, <1>4, AcquireEffects, CallerEffects, ClockEffects DEF BucketNext

-----------------------------------------------------------------------------
(* Who is granted tokens.                                                  *)

LEMMA ControlKept ==
    ASSUME BucketTypeOK, LimMade, CostFits, ControlStep, made \subseteq made'
    PROVE  LimMade' /\ CostFits' /\ (Padding >= Parts /\ GrantsPaid => GrantsPaid')
<1> USE DEF Stays, Enters, Moves, Grants, Leaves, Same
<1>1. LimMade'
  BY DEF LimMade, ControlStep
<1>2. CostFits'
  <2> SUFFICES ASSUME NEW p \in Procs, acq'[p].pc \in {"try", "sleep"} PROVE Fits(p)'
    BY DEF CostFits
  <2>1. Enters(p) \/ (Same(p) /\ acq[p].pc \in {"try", "sleep"})
    BY DEF ControlStep
  <2>2. CASE Same(p) /\ acq[p].pc \in {"try", "sleep"}
    <3>1. Capacity' = Capacity
      OBVIOUS
    <3> QED BY <2>2, <3>1 DEF CostFits, Fits
  <2> QED BY <2>1, <2>2
<1>3. ASSUME Padding >= Parts, GrantsPaid PROVE GrantsPaid'
  BY <1>3 DEF GrantsPaid, ControlStep
<1> QED BY <1>1, <1>2, <1>3

LEMMA MadeGrows == ASSUME StoreStep PROVE made \subseteq made'
BY DEF StoreStep, storeVars, NewBucket, RefillOnly, Looked, Took, TakeFrom

\* A bucket starts full, and nobody waits at it yet.
LEMMA InitTypes == ASSUME NEW first \in Limiters, BucketInit(first) PROVE BucketTypeOK
<1>1. \A l \in Limiters : \A k \in Lanes : Capacity[l][k] <= Capacity[l][k]
  BY Configured DEF Costs
<1> QED BY <1>1, Configured, NoCost, BucketAssumption DEF BucketInit, BucketTypeOK, AcquireState

LEMMA InitControl ==
    ASSUME NEW first \in Limiters, BucketInit(first)
    PROVE  LimMade /\ CostFits /\ GrantsPaid
BY DEF BucketInit, LimMade, CostFits, GrantsPaid

\* Every variable keeps its type: no lane of a bucket is ever overdrawn or overfull
\* (refill, canProceed and consume), and no wait is negative.
THEOREM BucketTypes == BucketSpec => []BucketTypeOK
<1>1. (\E l \in Limiters : BucketInit(l)) => BucketTypeOK
  BY InitTypes
<1> QED BY <1>1, StepTypes, PTL DEF BucketSpec

BucketControl == BucketTypeOK /\ LimMade /\ CostFits

LEMMA ControlInvariant == BucketSpec => []BucketControl
<1>1. (\E l \in Limiters : BucketInit(l)) => BucketControl
  BY InitTypes, InitControl DEF BucketControl
<1>2. BucketControl /\ [BucketNext]_bucketVars => BucketControl'
  BY StepTypes, StepEffects, MadeGrows, ControlKept DEF BucketControl
<1> QED BY <1>1, <1>2, PTL DEF BucketSpec

\* With a SafetyPadding of at least a tick, Acquire returns nil exactly when it has taken the
\* tokens (Acquire reads a wait of 0 as success; calculateWaitTime never returns 0).
THEOREM Paid == ASSUME Padding >= Parts PROVE BucketSpec => []GrantsPaid
<1>1. (\E l \in Limiters : BucketInit(l)) => GrantsPaid
  BY InitControl
<1>2. BucketControl /\ GrantsPaid /\ [BucketNext]_bucketVars => GrantsPaid'
  BY StepEffects, MadeGrows, ControlKept DEF BucketControl
<1> QED BY <1>1, <1>2, ControlInvariant, PTL DEF BucketSpec

-----------------------------------------------------------------------------
(* The quota.                                                              *)

\* The tokens that a bucket granted since the last look, with those that it still
\* has, are no more than a full bucket and what the rate added since.  A bucket that
\* is yet to be made has granted none.
Accounted(l) ==
    /\ since[l] <= lastRefill[l]
    /\ l \notin made => since[l] = lastRefill[l] /\ spent[l] = [k \in Lanes |-> 0]
    /\ \A k \in Lanes :
          spent[l][k] + tokens[l][k] <= Capacity[l][k] + Rate[l][k] * (lastRefill[l] - since[l])
QuotaKept == \A l \in Limiters : Accounted(l)

\* A refill adds no more than the rate does.
LEMMA RefillAccounted ==
    ASSUME BucketTypeOK, NEW l \in Limiters, Accounted(l), NEW k \in Lanes
    PROVE  spent[l][k] + Refilled(l)[k]
             <= Capacity[l][k] + Rate[l][k] * (RefillTime(l) - since[l])
<1> DEFINE r == Rate[l][k]  s == since[l]  f == lastRefill[l]  t == RefillTime(l)
<1>1. r \in Nat /\ s \in Int /\ f \in Int /\ t \in Int /\ f - s \in Int /\ t - f \in Int
  BY Configured, RefillFacts DEF BucketTypeOK
<1>2. /\ r * ((f - s) + (t - f)) = r * (f - s) + r * (t - f)
      /\ r * (f - s) \in Int /\ r * (t - f) \in Int
  <2> HIDE DEF r, s, f, t
  <2> QED BY <1>1, ProductSum
<1>3. (f - s) + (t - f) = t - s
  <2> HIDE DEF r, s, f, t
  <2> QED BY <1>1
<1>4. r * (t - s) = r * (f - s) + r * (t - f)
  BY <1>2, <1>3
<1>5. /\ spent[l][k] \in Nat /\ tokens[l][k] \in Nat /\ Capacity[l][k] \in Nat
      /\ Refilled(l)[k] \in Nat
      /\ spent[l][k] + tokens[l][k] <= Capacity[l][k] + r * (f - s)
      /\ Refilled(l)[k] <= tokens[l][k] + r * (t - f)
  BY Configured, RefillFacts DEF BucketTypeOK, Costs, Accounted
<1> HIDE DEF r, s, f, t
<1> QED BY <1>2, <1>4, <1>5 DEF r, s, t

LEMMA LookedAccounted ==
    ASSUME BucketTypeOK, NEW l \in Limiters, Looked(l), l \in made
    PROVE  Accounted(l)'
<1>1. /\ tokens'[l] = Refilled(l) /\ lastRefill'[l] = RefillTime(l)
      /\ since'[l] = RefillTime(l) /\ spent'[l] = [k \in Lanes |-> 0] /\ made' = made
  BY DEF Looked, BucketTypeOK
<1>2. RefillTime(l) \in Int
  BY RefillFacts
<1>3. \A k \in Lanes : /\ Refilled(l)[k] \in Nat /\ Refilled(l)[k] <= Capacity[l][k]
                       /\ Capacity'[l][k] = Capacity[l][k] /\ Capacity[l][k] \in Nat
                       /\ Rate'[l][k] * (RefillTime(l) - RefillTime(l)) = 0
  BY <1>2, RefillFacts, Configured DEF Costs
<1> QED BY <1>1, <1>2, <1>3 DEF Accounted

LEMMA NewBucketAccounted ==
    ASSUME BucketTypeOK, NEW l \in Limiters, Accounted(l), NewBucket(l)
    PROVE  Accounted(l)'
<1>1. /\ tokens'[l] = Capacity[l] /\ lastRefill'[l] = Clock /\ since'[l] = Clock
      /\ spent'[l] = [k \in Lanes |-> 0] /\ l \in made' /\ Clock \in Int
  BY Reading DEF NewBucket, BucketTypeOK, Accounted, Clock
<1>2. \A k \in Lanes : /\ Capacity'[l][k] = Capacity[l][k] /\ Capacity[l][k] \in Nat
                       /\ Rate'[l][k] * (Clock - Clock) = 0
  BY <1>1, Configured DEF Costs
<1> QED BY <1>1, <1>2 DEF Accounted

LEMMA RefillOnlyAccounted ==
    ASSUME BucketTypeOK, NEW l \in Limiters, Accounted(l), RefillOnly(l), l \in made
    PROVE  Accounted(l)'
<1>1. /\ tokens'[l] = Refilled(l) /\ lastRefill'[l] = RefillTime(l)
      /\ since'[l] = since[l] /\ spent'[l] = spent[l] /\ made' = made
  BY DEF RefillOnly, BucketTypeOK
<1>2. since[l] <= RefillTime(l)
  BY RefillFacts DEF Accounted, BucketTypeOK
<1>3. Capacity' = Capacity /\ Rate' = Rate
  OBVIOUS
<1> QED BY <1>1, <1>2, <1>3, RefillAccounted DEF Accounted

LEMMA TookAccounted ==
    ASSUME BucketTypeOK, NEW l \in Limiters, Accounted(l), l \in made,
           NEW cost \in Costs, Took(l, cost)
    PROVE  Accounted(l)'
<1> DEFINE left == consume(Refilled(l), cost)
<1>1. left \in Costs /\ \A k \in Lanes : left[k] = Refilled(l)[k] - cost[k]
  BY RefillFacts, ConsumeFacts DEF Took
<1>2. /\ tokens'[l] = left /\ lastRefill'[l] = RefillTime(l)
      /\ since'[l] = since[l] /\ made' = made
      /\ spent'[l] = [k \in Lanes |-> spent[l][k] + cost[k]]
  BY DEF Took, TakeFrom, BucketTypeOK
<1> HIDE DEF left
<1>3. \A k \in Lanes : spent'[l][k] + tokens'[l][k] = spent[l][k] + Refilled(l)[k]
  BY <1>1, <1>2, RefillFacts DEF BucketTypeOK, Costs
<1>4. since[l] <= RefillTime(l)
  BY RefillFacts DEF Accounted, BucketTypeOK
<1>5. Capacity' = Capacity /\ Rate' = Rate
  OBVIOUS
<1> QED BY <1>2, <1>3, <1>4, <1>5, RefillAccounted DEF Accounted

\* Whatever happens to bucket l, the others are as they were.
OthersKept(l) ==
    \A m \in Limiters \ {l} :
       /\ tokens'[m] = tokens[m] /\ lastRefill'[m] = lastRefill[m]
       /\ since'[m] = since[m] /\ spent'[m] = spent[m] /\ (m \in made' <=> m \in made)

LEMMA OneBucket ==
    ASSUME BucketTypeOK, NEW l \in Limiters,
           \/ NewBucket(l) \/ RefillOnly(l) \/ Looked(l)
           \/ \E cost \in Costs : Took(l, cost)
    PROVE  OthersKept(l)
BY DEF BucketTypeOK, OthersKept, NewBucket, RefillOnly, Looked, Took, TakeFrom

LEMMA QuotaStep == ASSUME BucketTypeOK, QuotaKept, StoreStep PROVE QuotaKept'
<1>1. Capacity' = Capacity /\ Rate' = Rate
  OBVIOUS
<1>2. CASE UNCHANGED storeVars
  BY <1>1, <1>2 DEF storeVars, QuotaKept, Accounted
<1>3. ASSUME NEW l \in Limiters, OthersKept(l), Accounted(l)' PROVE QuotaKept'
  <2> SUFFICES ASSUME NEW m \in Limiters \ {l} PROVE Accounted(m)'
    BY <1>3 DEF QuotaKept
  <2> QED BY <1>1, <1>3 DEF OthersKept, QuotaKept, Accounted
<1>4. \A l \in made : l \in Limiters
  BY DEF BucketTypeOK
<1>5. \A l \in Limiters : Accounted(l)
  BY DEF QuotaKept
<1> QED BY <1>2, <1>3, <1>4, <1>5, OneBucket, NewBucketAccounted, RefillOnlyAccounted,
        LookedAccounted, TookAccounted DEF StoreStep

BucketInv == BucketControl /\ QuotaKept

LEMMA InitQuota == ASSUME NEW first \in Limiters, BucketInit(first) PROVE QuotaKept
<1>1. \A l \in Limiters : \A k \in Lanes : Capacity[l][k] \in Nat /\ Rate[l][k] * 0 = 0
  BY Configured DEF Costs
<1> QED BY <1>1 DEF BucketInit, QuotaKept, Accounted

LEMMA BucketInvariant == BucketSpec => []BucketInv
<1>1. (\E l \in Limiters : BucketInit(l)) => QuotaKept
  BY InitQuota
<1>2. BucketControl /\ QuotaKept /\ [BucketNext]_bucketVars => QuotaKept'
  BY StepEffects, QuotaStep DEF BucketControl
<1> QED BY <1>1, <1>2, ControlInvariant, PTL DEF BucketSpec, BucketInv

\* The steps of the quota.
LEMMA ElapsedAt ==
    ASSUME NEW l \in Limiters
    PROVE  Elapsed[l] = lastRefill[l] - since[l] /\ Elapsed'[l] = lastRefill'[l] - since'[l]
BY DEF Elapsed

LEMMA TakenIsWithin ==
    ASSUME BucketTypeOK, BucketTypeOK', QuotaKept', NEW l \in Limiters, since'[l] = since[l],
           lastRefill[l] <= lastRefill'[l], \A k \in Lanes : spent[l][k] <= spent'[l][k]
    PROVE  Promise!Grant(l)
<1>1. Elapsed[l] <= Elapsed'[l]
  BY ElapsedAt DEF BucketTypeOK
<1>2. ASSUME NEW k \in Lanes
      PROVE  spent'[l][k] <= Capacity[l][k] + Rate[l][k] * Elapsed'[l]
  <2> DEFINE full == Capacity[l][k] + Rate[l][k] * (lastRefill'[l] - since'[l])
  <2>1. spent'[l][k] \in Nat /\ tokens'[l][k] \in Nat /\ lastRefill'[l] - since'[l] \in Int
    BY DEF BucketTypeOK, Costs
  <2>2. Capacity' = Capacity /\ Rate' = Rate
    OBVIOUS
  <2>3. spent'[l][k] + tokens'[l][k] <= full
    BY <2>2 DEF QuotaKept, Accounted
  <2>4. full \in Int
    BY <2>1, Configured, ProductSum DEF Costs
  <2> HIDE DEF full
  <2>5. spent'[l][k] <= full
    BY <2>1, <2>3, <2>4
  <2> QED BY <2>5, ElapsedAt DEF full
<1> QED BY <1>1, <1>2 DEF Promise!Grant, Promise!Within

LEMMA QuotaRefined ==
    ASSUME BucketTypeOK, BucketTypeOK', QuotaKept, QuotaKept', StoreStep
    PROVE  [Promise!Next]_<<spent, Elapsed>>
<1>1. ASSUME NEW l \in Limiters, OthersKept(l), Promise!Grant(l) \/ Promise!Restart(l)
      PROVE  Promise!Next
  BY <1>1, ElapsedAt DEF OthersKept, Promise!Next
<1>2. \A l \in made : l \in Limiters
  BY DEF BucketTypeOK
<1>3. CASE UNCHANGED storeVars
  BY <1>3 DEF storeVars, Elapsed
<1>4. ASSUME NEW l \in Limiters, NewBucket(l) PROVE UNCHANGED <<spent, Elapsed>>
  <2>1. spent' = spent
    BY <1>4 DEF NewBucket
  <2>2. ASSUME NEW m \in Limiters PROVE lastRefill'[m] - since'[m] = lastRefill[m] - since[m]
    <3>1. CASE m = l
      BY <1>4, <3>1 DEF NewBucket, BucketTypeOK, QuotaKept, Accounted
    <3>2. CASE m # l
      BY <1>4, <3>2 DEF NewBucket, BucketTypeOK
    <3> QED BY <3>1, <3>2
  <2>3. Elapsed' = Elapsed
    BY <2>2 DEF Elapsed
  <2> QED BY <2>1, <2>3
<1>5. ASSUME NEW l \in Limiters, RefillOnly(l) PROVE Promise!Grant(l)
  <2>1. since'[l] = since[l] /\ lastRefill[l] <= lastRefill'[l]
    BY <1>5, RefillFacts DEF RefillOnly, BucketTypeOK
  <2>2. \A k \in Lanes : spent[l][k] <= spent'[l][k]
    BY <1>5 DEF RefillOnly, BucketTypeOK, Costs
  <2> QED BY <2>1, <2>2, TakenIsWithin
<1>6. ASSUME NEW l \in Limiters, NEW cost \in Costs, Took(l, cost) PROVE Promise!Grant(l)
  <2>1. since'[l] = since[l] /\ lastRefill[l] <= lastRefill'[l]
    BY <1>6, RefillFacts DEF Took, TakeFrom, BucketTypeOK
  <2>2. \A k \in Lanes : spent'[l][k] = spent[l][k] + cost[k]
    BY <1>6 DEF Took, TakeFrom, BucketTypeOK
  <2>3. \A k \in Lanes : spent[l][k] <= spent'[l][k]
    BY <2>2 DEF BucketTypeOK, Costs
  <2> QED BY <2>1, <2>3, TakenIsWithin
<1>7. ASSUME NEW l \in Limiters, Looked(l) PROVE Promise!Restart(l)
  <2>1. /\ lastRefill'[l] = RefillTime(l) /\ since'[l] = RefillTime(l) /\ RefillTime(l) \in Int
        /\ spent'[l] = [k \in Lanes |-> 0]
    BY <1>7, RefillFacts DEF Looked, BucketTypeOK
  <2> QED BY <2>1, ElapsedAt DEF Promise!Restart
<1> QED BY <1>1, <1>2, <1>3, <1>4, <1>5, <1>6, <1>7, OneBucket DEF StoreStep

\* Every bucket keeps what Quota promises, whatever the clock does and whoever
\* waits, tries or looks: from any look on it grants no more than one full bucket
\* and what its rate added (refill, consume).
THEOREM WithinQuota == BucketSpec => MeetsQuota
<1>1. (\E l \in Limiters : BucketInit(l)) => Promise!Init
  BY DEF BucketInit, Promise!Init, Elapsed
<1>2. BucketInv /\ BucketInv' /\ [BucketNext]_bucketVars
        => [Promise!Next]_<<spent, Elapsed>>
  BY StepEffects, QuotaRefined DEF BucketInv, BucketControl
<1> QED BY <1>1, <1>2, BucketInvariant, PTL DEF BucketSpec, MeetsQuota, Promise!Spec

-----------------------------------------------------------------------------
(* The estimate of the wait.                                               *)

\* What a sleeper waits for will be in its bucket when its timer fires.
CoveredBy(l, cost, t, f, due) ==
    \A k \in Lanes : cost[k] <= Least(Capacity[l][k], t[k] + Rate[l][k] * (due - f))
Covered(p) == CoveredBy(acq[p].lim, acq[p].cost, tokens[acq[p].lim],
                        lastRefill[acq[p].lim], ClockAt(now + timer[p]))
Calm(p) == acq[p].pc = "sleep" /\ acq[p].calm

Untouched(l) == tokens'[l] = tokens[l] /\ lastRefill'[l] = lastRefill[l]
Refreshed(l) == tokens'[l] = Refilled(l) /\ lastRefill'[l] = RefillTime(l)
StaysCalm(p) == /\ Calm(p)
                /\ acq'[p].lim = acq[p].lim /\ acq'[p].cost = acq[p].cost
                /\ Untouched(acq[p].lim) \/ Refreshed(acq[p].lim)
                /\ now + timer[p] <= now' + timer'[p]
CalmStep == \A p \in Procs : Calm(p)' => StaysCalm(p) \/ TryWait(p)

\* While nobody takes tokens or sets the clock, the estimate stays right.
LEMMA StaysCovered ==
    ASSUME BucketTypeOK, BucketTypeOK', NEW p \in Procs, StaysCalm(p), Covered(p)
    PROVE  Covered(p)'
<1> DEFINE l == acq[p].lim
           due == ClockAt(now + timer[p])
           due2 == ClockAt(now' + timer'[p])
<1>1. /\ l \in Limiters /\ acq[p].cost \in Costs /\ due \in Int /\ due2 \in Int /\ due <= due2
      /\ Clock \in Int /\ lastRefill[l] \in Int /\ tokens[l] \in Costs /\ Clock <= due
      /\ acq'[p].lim = l /\ acq'[p].cost = acq[p].cost
  <2>1. /\ now + timer[p] \in Int /\ now' + timer'[p] \in Int /\ now \in Int
        /\ now + timer[p] <= now' + timer'[p] /\ now <= now + timer[p]
        /\ acq[p] \in AcquireState
    BY DEF BucketTypeOK, StaysCalm
  <2>2. /\ due \in Int /\ due2 \in Int /\ due <= due2 /\ Clock \in Int /\ Clock <= due
    BY <2>1, Reading, ReadingOrder DEF Clock
  <2> QED BY <2>1, <2>2 DEF BucketTypeOK, AcquireState, StaysCalm
<1>2. SUFFICES CoveredBy(l, acq[p].cost, tokens'[l], lastRefill'[l], due2)
  BY <1>1 DEF Covered
<1>3. SUFFICES ASSUME NEW k \in Lanes
               PROVE  acq[p].cost[k] <= Least(Capacity[l][k],
                          tokens'[l][k] + Rate[l][k] * (due2 - lastRefill'[l]))
  BY Zenon DEF CoveredBy
<1> DEFINE r == Rate[l][k]  c == acq[p].cost[k]  cap == Capacity[l][k]  f == lastRefill[l]
<1>4. r \in Nat /\ c \in Nat /\ cap \in Nat /\ tokens[l][k] \in Nat
  BY <1>1, Configured DEF Costs
<1>5. c <= Least(cap, tokens[l][k] + r * (due - f))
  BY Zenon DEF Covered, CoveredBy
<1>6. r * (due - f) \in Int /\ r * (due2 - f) \in Int /\ r * (due - f) <= r * (due2 - f)
  <2>1. due - f \in Int /\ due2 - f \in Int /\ due - f <= due2 - f
    BY <1>1
  <2> HIDE DEF due, due2, r, f
  <2> QED BY <1>4, <2>1, ProductOrder
<1>7. c <= cap /\ c <= tokens[l][k] + r * (due2 - f)
  <2> HIDE DEF due, due2, r, f, c, cap
  <2> QED BY <1>4, <1>5, <1>6 DEF Least
<1>8. CASE Untouched(l)
  BY <1>4, <1>6, <1>7, <1>8 DEF Untouched, Least
<1>9. CASE Refreshed(l) /\ ~Untouched(l)
  <2> DEFINE t == RefillTime(l)  full == Refilled(l)[k]
  <2>1. t = Clock /\ f < Clock
    BY <1>1, <1>9 DEF Refreshed, Untouched, Refilled, RefillTime
  <2>2. /\ full \in Nat /\ full <= cap
        /\ full < cap => full = tokens[l][k] + r * (t - f)
        /\ tokens'[l][k] = full /\ lastRefill'[l] = t
    BY <1>1, <1>9, RefillFacts DEF Refreshed, Costs
  <2>3. /\ r * (due2 - t) \in Nat /\ r * (t - f) \in Int
        /\ r * ((t - f) + (due2 - t)) = r * (t - f) + r * (due2 - t)
    <3>1. due2 - t \in Nat /\ t - f \in Int
      BY <1>1, <2>1
    <3> HIDE DEF r, t, f, due2
    <3> QED BY <1>4, <3>1, ProductNat, ProductSum
  <2>4. (t - f) + (due2 - t) = due2 - f
    BY <1>1, <2>1
  <2> HIDE DEF r, c, cap, f, t, full, due2
  <2>5. r * (due2 - f) = r * (t - f) + r * (due2 - t)
    BY <2>3, <2>4
  <2>6. c <= full + r * (due2 - t)
    BY <1>4, <1>7, <2>2, <2>3, <2>5
  <2>7. c <= Least(cap, full + r * (due2 - t))
    BY <1>4, <1>7, <2>2, <2>3, <2>6 DEF Least
  <2> QED BY <2>2, <2>7 DEF r, c, cap
<1> QED BY <1>8, <1>9 DEF StaysCalm

\* What calculateWaitTime returns is enough to begin with.
LEMMA WaitCovers ==
    ASSUME Padding >= Grain * Parts, BucketTypeOK, CostFits, NEW p \in Procs, TryWait(p), Calm(p)'
    PROVE  Covered(p)'
<1> DEFINE l == acq[p].lim  c == acq[p].cost  t == Refilled(l)
           wait == calculateWaitTime(l, t, c)
<1>1. /\ acq[p] \in AcquireState /\ l \in Limiters /\ c \in Costs /\ acq[p].pc = "try"
      /\ now \in Int /\ Clock \in Int /\ lastRefill[l] \in Int
  BY Reading DEF BucketTypeOK, AcquireState, TryWait, Clock
<1>2. /\ acq'[p].lim = l /\ acq'[p].cost = c /\ timer'[p] = wait /\ now' = now
      /\ acq'[p].calm = ~(Clock < lastRefill[l])
      /\ tokens'[l] = t /\ lastRefill'[l] = RefillTime(l)
  BY <1>1 DEF TryWait, RefillOnly, clockVars, BucketTypeOK, AcquireState
<1>3. /\ t \in Costs /\ wait \in Nat /\ Grain \in Nat
      /\ \A k \in Lanes : c[k] <= t[k] + Rate[l][k] * ((wait + 1) - Grain)
  <2>1. Grain \in Nat /\ Grain * Parts \in Nat /\ Grain * Parts <= Padding
    BY BucketAssumption
  <2> QED BY <1>1, <2>1, RefillFacts, WaitFacts
<1>4. ~(Clock < lastRefill[l])
  BY <1>2, Zenon DEF Calm
<1>5. RefillTime(l) = Clock
  BY <1>1, <1>4 DEF RefillTime
<1> DEFINE due == ClockAt(now + wait)
<1>6. due \in Int /\ (wait + 1) - Grain <= due - Clock
  <2>1. now + wait \in Int
    BY <1>1, <1>3
  <2>2. /\ due \in Int /\ now + wait < due + Grain /\ Clock <= now
    BY <1>1, <2>1, Reading DEF Clock
  <2> HIDE DEF due, wait
  <2> QED BY <1>1, <1>3, <2>2
<1>7. ASSUME NEW k \in Lanes
      PROVE  c[k] <= Least(Capacity[l][k], t[k] + Rate[l][k] * (due - Clock))
  <2>1. c[k] <= Capacity[l][k] /\ c[k] \in Nat /\ Rate[l][k] \in Nat /\ t[k] \in Nat
    BY <1>1, <1>3, Configured DEF CostFits, Fits, Costs
  <2>2. (wait + 1) - Grain \in Int /\ due - Clock \in Int
    BY <1>1, <1>3, <1>6
  <2> HIDE DEF t, wait, due, c, l
  <2>3. /\ Rate[l][k] * ((wait + 1) - Grain) \in Int /\ Rate[l][k] * (due - Clock) \in Int
        /\ Rate[l][k] * ((wait + 1) - Grain) <= Rate[l][k] * (due - Clock)
    BY <1>6, <2>1, <2>2, ProductOrder
  <2>4. c[k] <= t[k] + Rate[l][k] * (due - Clock)
    BY <1>3, <2>1, <2>3
  <2> QED BY <2>1, <2>4 DEF Least
<1> HIDE DEF l, c, t, wait, due
<1>8. CoveredBy(l, c, t, Clock, due)
  BY <1>7, Zenon DEF CoveredBy
<1> QED BY <1>2, <1>5, <1>8 DEF Covered, l, c, t, wait, due

\* If nothing happens to p's Acquire or timer, nor to the clock and to its bucket but
\* a refill, p stays as calm as it was.
LEMMA StaysCalmFacts ==
    ASSUME BucketTypeOK, NEW p \in Procs, acq'[p] = acq[p], timer'[p] = timer[p], now' = now,
           acq[p].pc = "sleep" => Untouched(acq[p].lim) \/ Refreshed(acq[p].lim), Calm(p)'
    PROVE  StaysCalm(p)
BY DEF BucketTypeOK, StaysCalm, Calm

LEMMA AcquireCalm ==
    ASSUME BucketTypeOK, NEW p \in Procs,
           \/ TryCancelled(p) \/ TryGranted(p) \/ TryWait(p) \/ Wake(p) \/ SleepCancelled(p)
    PROVE  CalmStep
<1> SUFFICES ASSUME NEW q \in Procs, Calm(q)' PROVE StaysCalm(q) \/ TryWait(q)
  BY DEF CalmStep
<1>0. acq[p] \in AcquireState
  BY DEF BucketTypeOK
<1>1. CASE TryCancelled(p) \/ Wake(p) \/ SleepCancelled(p)
  <2>1. /\ acq'[p].pc # "sleep" /\ UNCHANGED <<tokens, lastRefill, now>>
        /\ \A r \in Procs \ {p} : acq'[r] = acq[r] /\ timer'[r] = timer[r]
    BY <1>1, <1>0 DEF TryCancelled, Wake, SleepCancelled, storeVars, clockVars,
       BucketTypeOK, AcquireState
  <2> QED BY <2>1, StaysCalmFacts DEF Calm, Untouched
<1>2. CASE TryGranted(p)
  <2> DEFINE a == [acq[p] EXCEPT !.pc = "granted", !.paid = TRUE]
             l == acq[p].lim
  <2>1. a \in AcquireState /\ a.pc = "granted" /\ l \in Limiters
    BY <1>0 DEF AcquireState
  <2>2. Disturb(l, p, a) /\ TakeFrom(l, acq[p].cost) /\ UNCHANGED <<now, timer>>
    BY <1>2 DEF TryGranted, clockVars
  <2> HIDE DEF a, l
  <2>3. q # p /\ acq'[q].pc = acq[q].pc /\ acq'[q].lim = acq[q].lim
        /\ acq'[q].cost = acq[q].cost /\ acq[q].calm /\ acq[q].lim # l
    BY <2>1, <2>2, DisturbFacts DEF Calm
  <2>4. Untouched(acq[q].lim)
    BY <2>2, <2>3 DEF TakeFrom, Untouched, BucketTypeOK, AcquireState
  <2> QED BY <2>2, <2>3, <2>4 DEF StaysCalm, Calm, BucketTypeOK
<1>3. CASE TryWait(p)
  <2>1. /\ RefillOnly(acq[p].lim) /\ now' = now
        /\ q # p => acq'[q] = acq[q] /\ timer'[q] = timer[q]
    BY <1>3 DEF TryWait, clockVars, BucketTypeOK
  <2>2. Untouched(acq[q].lim) \/ Refreshed(acq[q].lim)
    BY <1>0, <2>1 DEF RefillOnly, Untouched, Refreshed, BucketTypeOK, AcquireState
  <2> QED BY <1>3, <2>1, <2>2, StaysCalmFacts
<1> QED BY <1>1, <1>2, <1>3

LEMMA OperationCalm ==
    ASSUME BucketTypeOK, LimMade, NEW l \in Limiters,
           \/ NewBucket(l) /\ UNCHANGED <<clockVars, acq, timer, ctxDone>>
           \/ Status(l) \/ GetWaitTime(l)
           \/ \E cost \in Costs : TryAcquireFails(l, cost)
    PROVE  CalmStep
<1> SUFFICES ASSUME NEW q \in Procs, Calm(q)' PROVE StaysCalm(q)
  BY DEF CalmStep
<1>1. acq' = acq /\ timer' = timer /\ now' = now
  BY DEF clockVars, Status, GetWaitTime, TryAcquireFails
<1>2. acq[q].lim \in Limiters
  BY DEF BucketTypeOK, AcquireState
<1>3. ASSUME acq[q].pc = "sleep" PROVE Untouched(acq[q].lim) \/ Refreshed(acq[q].lim)
  <2>1. acq[q].lim \in made
    BY <1>3 DEF LimMade
  <2> QED BY <1>2, <2>1 DEF NewBucket, Status, GetWaitTime, TryAcquireFails, RefillOnly, Untouched,
          Refreshed, BucketTypeOK
<1> QED BY <1>1, <1>3, StaysCalmFacts

LEMMA CallCalm ==
    ASSUME BucketTypeOK, NEW l \in Limiters, NEW cost \in Costs, NEW p \in Procs,
           Acquire(p, l, cost) \/ TryAcquire(p, l, cost)
    PROVE  CalmStep
<1> SUFFICES ASSUME NEW q \in Procs, Calm(q)' PROVE StaysCalm(q)
  BY DEF CalmStep
<1>0. acq[p] \in AcquireState
  BY DEF BucketTypeOK
<1>1. CASE Acquire(p, l, cost)
  <2>1. UNCHANGED <<tokens, lastRefill, now, timer>> /\ (q # p => acq'[q] = acq[q])
    BY <1>1 DEF Acquire, storeVars, clockVars, BucketTypeOK
  <2>2. q # p
    <3>1. acq'[p].pc = IF \E k \in Lanes : cost[k] > Capacity[l][k] THEN "refused" ELSE "try"
      BY <1>1 DEF Acquire, BucketTypeOK
    <3> QED BY <3>1 DEF Calm
  <2> QED BY <2>1, <2>2, StaysCalmFacts DEF Untouched
<1>2. CASE TryAcquire(p, l, cost)
  <2>1. Disturb(l, p, acq[p]) /\ TakeFrom(l, cost) /\ UNCHANGED <<now, timer>>
        /\ acq[p].pc = "idle"
    BY <1>2 DEF TryAcquire, clockVars
  <2>2. q # p /\ acq'[q].pc = acq[q].pc /\ acq'[q].lim = acq[q].lim
        /\ acq'[q].cost = acq[q].cost /\ acq[q].calm /\ acq[q].lim # l
    BY <1>0, <2>1, DisturbFacts DEF Calm
  <2>3. Untouched(acq[q].lim)
    BY <2>1, <2>2 DEF TakeFrom, Untouched, BucketTypeOK, AcquireState
  <2> QED BY <2>1, <2>2, <2>3 DEF StaysCalm, Calm, BucketTypeOK
<1> QED BY <1>1, <1>2

LEMMA OtherCalm ==
    ASSUME BucketTypeOK, CallerStep \/ Tick \/ \E d \in ClockSteps : SetClock(d)
    PROVE  CalmStep
<1> SUFFICES ASSUME NEW q \in Procs, Calm(q)' PROVE StaysCalm(q)
  BY DEF CalmStep
<1>1. CASE CallerStep
  <2>1. acq'[q] = acq[q]
    BY <1>1 DEF CallerStep, Collect, Calm, BucketTypeOK, AcquireState
  <2>2. acq[q].pc = "sleep" /\ timer'[q] = timer[q] /\ UNCHANGED <<tokens, lastRefill, now>>
    BY <1>1, <2>1 DEF CallerStep, Calm, storeVars, clockVars
  <2> QED BY <2>1, <2>2, StaysCalmFacts DEF Untouched
<1>2. CASE Tick
  <2>1. UNCHANGED <<tokens, lastRefill, acq>> /\ now' = now + 1
        /\ timer'[q] = Greatest(timer[q] - 1, 0)
    BY <1>2 DEF Tick, storeVars
  <2>2. now + timer[q] <= now' + timer'[q]
    BY <2>1 DEF Greatest, BucketTypeOK
  <2> QED BY <2>1, <2>2 DEF StaysCalm, Calm, Untouched
<1>3. CASE \E d \in ClockSteps : SetClock(d)
  BY <1>3 DEF SetClock, Calm, BucketTypeOK, AcquireState
<1> QED BY <1>1, <1>2, <1>3

LEMMA StepCalm ==
    ASSUME BucketTypeOK, LimMade, [BucketNext]_bucketVars
    PROVE  CalmStep
<1>1. CASE UNCHANGED bucketVars
  BY <1>1, StaysCalmFacts DEF bucketVars, CalmStep, Untouched
<1>2. ASSUME NEW l \in Limiters, NEW cost \in Costs, NEW p \in Procs,
             Acquire(p, l, cost) \/ TryAcquire(p, l, cost)
      PROVE  CalmStep
  BY <1>2, CallCalm
<1> QED BY <1>1, <1>2, AcquireCalm, OperationCalm, OtherCalm DEF BucketNext

LEMMA EstimateCovers == BucketTypeOK => (EstimateSuffices <=> \A p \in Procs : Calm(p) => Covered(p))
<1> SUFFICES ASSUME BucketTypeOK
             PROVE  EstimateSuffices <=> \A p \in Procs : Calm(p) => Covered(p)
  OBVIOUS
<1> QED BY Zenon DEF EstimateSuffices, Calm, Covered, CoveredBy

\* With a SafetyPadding of at least the resolution of the clock, calculateWaitTime never returns
\* too short a wait: if nobody takes tokens or sets the clock meanwhile, they are there when
\* the timer fires.
THEOREM WaitSuffices == ASSUME Padding >= Grain * Parts PROVE BucketSpec => []EstimateSuffices
<1> DEFINE AllCovered == \A p \in Procs : Calm(p) => Covered(p)
<1>1. (\E l \in Limiters : BucketInit(l)) => AllCovered
  BY DEF BucketInit, Calm
<1>2. BucketControl /\ BucketControl' /\ AllCovered /\ [BucketNext]_bucketVars => AllCovered'
  <2> SUFFICES ASSUME BucketControl, BucketControl', AllCovered, [BucketNext]_bucketVars,
                      NEW p \in Procs, Calm(p)'
               PROVE  Covered(p)'
    OBVIOUS
  <2>1. StaysCalm(p) \/ TryWait(p)
    BY StepCalm DEF BucketControl, CalmStep
  <2>2. CASE StaysCalm(p)
    BY <2>2, StaysCovered DEF BucketControl, StaysCalm
  <2>3. CASE TryWait(p)
    BY <2>3, WaitCovers DEF BucketControl
  <2> QED BY <2>1, <2>2, <2>3
<1>3. BucketControl /\ AllCovered => EstimateSuffices
  BY EstimateCovers DEF BucketControl
<1> QED BY <1>1, <1>2, <1>3, ControlInvariant, PTL DEF BucketSpec
=============================================================================
