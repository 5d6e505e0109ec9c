---------------------------- MODULE TokenBucket ----------------------------
(***************************************************************************)
(* The rate limiter (src/ratelimit.go): token buckets with a read and a    *)
(* write lane, the wall clock that refills them, and the goroutines that   *)
(* wait in Acquire.  Every operation of a bucket runs under its mutex from *)
(* its first to its last line, so each is one step.                        *)
(*                                                                         *)
(* A tick is the unit in which the code truncates a wait (:240).  The      *)
(* clock is read in whole grains of ticks, which is what a float64 keeps   *)
(* of the nanoseconds since 1970, and a padding may be any fraction of a   *)
(* tick.  Tokens are whole numbers of the amount that floating point tells *)
(* apart.                                                                  *)
(***************************************************************************)
EXTENDS Integers

CONSTANTS Procs,         \* the goroutines
          Limiters,      \* the buckets that exist or may be made
          Config,        \* Config[l]: the TokenBucketConfig of bucket l
          Grain,         \* resolution of the clock's reading, in ticks
          Parts, Padding,\* SafetyPadding is Padding of the Parts of a tick
          ClockSteps,    \* by how much the wall clock may be set
          MaxClockSteps, \* bound: how often it is set
          MaxLull        \* bound: ticks that pass while nobody waits

Lanes == {"read", "write"}
Costs == [Lanes -> Nat]

\* A configuration with a rate that is not positive is refused by a panic; a
\* capacity of 0 stands for the rate.
TokenBucketConfig == [rate : [Lanes -> Nat \ {0}], cap : [Lanes -> Nat]]

ASSUME BucketAssumption ==
    /\ Config \in [Limiters -> TokenBucketConfig]
    /\ Grain \in Nat \ {0} /\ Parts \in Nat \ {0} /\ Padding \in Nat
    /\ ClockSteps \subseteq Int
    /\ MaxClockSteps \in Nat /\ MaxLull \in Nat

VARIABLES now,           \* the wall clock, in ticks
          made,          \* the buckets that exist
          tokens,        \* tokens[l][lane]
          lastRefill,    \* lastRefill[l]
          acq,           \* acq[p]: the Acquire that p is in
          timer,         \* timer[p]: ticks left of the time.After that p is in
          ctxDone,       \* ctxDone[p]: the context of p's call is cancelled
          spent,         \* observer: tokens granted since its last look
          since,         \* observer: lastRefill when it looked
          lull, steps    \* what is left of the two bounds

bucketVars == <<now, made, tokens, lastRefill, acq, timer, ctxDone,
                spent, since, lull, steps>>
storeVars == <<made, tokens, lastRefill, spent, since>>
clockVars == <<now, lull, steps>>

\* Where an Acquire is: not called, about to try, asleep, returned nil, returned
\* an error.  paid and calm observe it: paid, that it took tokens; calm, that it
\* sleeps, that the clock was not behind its bucket when it was told to wait, and
\* that nobody has taken tokens or set the clock since.
AcquireState == [pc : {"idle", "try", "sleep", "granted", "refused"},
                 lim : Limiters, cost : Costs, paid : BOOLEAN, calm : BOOLEAN]

-----------------------------------------------------------------------------
(* The arithmetic of one bucket.                                           *)

Least(a, b) == IF a < b THEN a ELSE b
Greatest(a, b) == IF a < b THEN b ELSE a

\* readCap, writeCap.
CapOf(c) == [k \in Lanes |-> IF c.cap[k] > 0 THEN c.cap[k] ELSE c.rate[k]]
Rate == [l \in Limiters |-> Config[l].rate]
Capacity == [l \in Limiters |-> CapOf(Config[l])]

\* defaultClock: the reading at time t, a float64.  It is rounded down here; rounding to
\* the nearest is the same half a grain later.
ClockAt(t) == Grain * (t \div Grain)
Clock == ClockAt(now)

\* Mutated: no cap.
Refilled_Uncapped(l) ==
    IF Clock <= lastRefill[l] THEN tokens[l]
    ELSE [k \in Lanes |-> tokens[l][k] + (Clock - lastRefill[l]) * Rate[l][k]]

\* refill: tokens and lastRefill after it.  A clock that has not moved, or has
\* moved back, adds nothing and leaves lastRefill where it is.
Refilled(l) ==
    IF Clock <= lastRefill[l] THEN tokens[l]
    ELSE [k \in Lanes |-> Least(tokens[l][k] + (Clock - lastRefill[l]) * Rate[l][k],
                                Capacity[l][k])]
\* Mutated: the time of the refill is forgotten.
RefillTime_Kept(l) == lastRefill[l]
RefillTime(l) == IF Clock <= lastRefill[l] THEN lastRefill[l] ELSE Clock

canProceed(t, cost) == \A k \in Lanes : cost[k] > 0 => t[k] >= cost[k]
consume(t, cost) == [k \in Lanes |-> t[k] - cost[k]]

\* The time until lane k holds what it lacks, with a padding, in whole ticks: the sum is
\* truncated, not its parts.  The code pads the longer of the two times; as truncation
\* keeps the order, the longer of the two padded and truncated ones is the same.
LaneWait(l, t, cost, k, padding) ==
    (Greatest(cost[k] - t[k], 0) * Parts + padding * Rate[l][k]) \div (Rate[l][k] * Parts)
\* Mutated: no SafetyPadding.
calculateWaitTime_Bare(l, t, cost) ==
    Greatest(LaneWait(l, t, cost, "read", 0), LaneWait(l, t, cost, "write", 0))
calculateWaitTime(l, t, cost) ==
    Greatest(LaneWait(l, t, cost, "read", Padding), LaneWait(l, t, cost, "write", Padding))

-----------------------------------------------------------------------------
(* The operations.  Each starts with a refill.                             *)

\* What every operation does to its bucket: refill, then take a cost.
TakeFrom(l, cost) ==
    /\ tokens' = [tokens EXCEPT ![l] = consume(Refilled(l), cost)]
    /\ lastRefill' = [lastRefill EXCEPT ![l] = RefillTime(l)]
    /\ spent' = [spent EXCEPT ![l] = [k \in Lanes |-> @[k] + cost[k]]]
    /\ UNCHANGED <<made, since>>

RefillOnly(l) ==
    /\ tokens' = [tokens EXCEPT ![l] = Refilled(l)]
    /\ lastRefill' = [lastRefill EXCEPT ![l] = RefillTime(l)]
    /\ UNCHANGED <<made, spent, since>>

\* The sleepers of bucket l are no longer calm; p goes on with state a.
Disturb(l, p, a) ==
    acq' = [q \in Procs |-> IF q = p THEN a
                            ELSE IF acq[q].lim = l THEN [acq[q] EXCEPT !.calm = FALSE]
                            ELSE acq[q]]

\* NewReadWriteTokenBucket: a full bucket, last refilled now.
NewBucket(l) ==
    /\ l \notin made
    /\ made' = made \cup {l}
    /\ tokens' = [tokens EXCEPT ![l] = Capacity[l]]
    /\ lastRefill' = [lastRefill EXCEPT ![l] = Clock]
    /\ since' = [since EXCEPT ![l] = Clock]
    /\ UNCHANGED spent

\* Mutated: a cost that no full bucket covers is waited for.
Acquire_Unbounded(p, l, cost) ==
    /\ acq[p].pc = "idle" /\ l \in made
    /\ acq' = [acq EXCEPT ![p] =
                 [pc |-> "try", lim |-> l, cost |-> cost, paid |-> FALSE, calm |-> FALSE]]
    /\ UNCHANGED <<storeVars, clockVars, timer, ctxDone>>

\* Acquire, up to its loop: a cost that no full bucket covers fails at once.
Acquire(p, l, cost) ==
    /\ acq[p].pc = "idle" /\ l \in made
    /\ acq' = [acq EXCEPT ![p] =
                 [pc |-> IF \E k \in Lanes : cost[k] > Capacity[l][k]
                         THEN "refused" ELSE "try",
                  lim |-> l, cost |-> cost, paid |-> FALSE, calm |-> FALSE]]
    /\ UNCHANGED <<storeVars, clockVars, timer, ctxDone>>

\* One round of the loop: the context's check, then tryAcquireOrWait.
TryCancelled(p) ==
    /\ acq[p].pc = "try" /\ ctxDone[p]
    /\ acq' = [acq EXCEPT ![p].pc = "refused"]
    /\ UNCHANGED <<storeVars, clockVars, timer, ctxDone>>

TryGranted(p) ==
    LET l == acq[p].lim  c == acq[p].cost
    IN  /\ acq[p].pc = "try" /\ ~ctxDone[p]
        /\ canProceed(Refilled(l), c)
        /\ TakeFrom(l, c)
        /\ Disturb(l, p, [acq[p] EXCEPT !.pc = "granted", !.paid = TRUE])
        /\ UNCHANGED <<clockVars, timer, ctxDone>>

\* Acquire takes a wait of 0 for success.
TryWait(p) ==
    LET l == acq[p].lim  c == acq[p].cost
        wait == calculateWaitTime(l, Refilled(l), c)
    IN  /\ acq[p].pc = "try" /\ ~ctxDone[p]
        /\ ~canProceed(Refilled(l), c)
        /\ RefillOnly(l)
        /\ acq' = [acq EXCEPT ![p].pc = IF wait = 0 THEN "granted" ELSE "sleep",
                              ![p].calm = ~(Clock < lastRefill[l])]
        /\ timer' = [timer EXCEPT ![p] = wait]
        /\ UNCHANGED <<clockVars, ctxDone>>

\* Mutated: a waiter goes on only when somebody else's refill has covered its cost.
Wake_Signalled(p) ==
    /\ acq[p].pc = "sleep" /\ timer[p] = 0 /\ canProceed(tokens[acq[p].lim], acq[p].cost)
    /\ acq' = [acq EXCEPT ![p].pc = "try", ![p].calm = FALSE]
    /\ UNCHANGED <<storeVars, clockVars, timer, ctxDone>>

\* The select of the loop: the timer fires, or the context ends first.
Wake(p) ==
    /\ acq[p].pc = "sleep" /\ timer[p] = 0
    /\ acq' = [acq EXCEPT ![p].pc = "try", ![p].calm = FALSE]
    /\ UNCHANGED <<storeVars, clockVars, timer, ctxDone>>

SleepCancelled(p) ==
    /\ acq[p].pc = "sleep" /\ ctxDone[p]
    /\ acq' = [acq EXCEPT ![p].pc = "refused", ![p].calm = FALSE]
    /\ timer' = [timer EXCEPT ![p] = 0]
    /\ UNCHANGED <<storeVars, clockVars, ctxDone>>

\* Acquire returns to its caller.
Collect(p, outcome) ==
    /\ acq[p].pc = outcome /\ outcome \in {"granted", "refused"}
    /\ acq' = [acq EXCEPT ![p].pc = "idle"]
    /\ UNCHANGED <<storeVars, clockVars>>

\* TryAcquire that returns true; that returns false.
TryAcquire(p, l, cost) ==
    /\ acq[p].pc = "idle" /\ l \in made /\ canProceed(Refilled(l), cost)
    /\ TakeFrom(l, cost)
    /\ Disturb(l, p, acq[p])
    /\ UNCHANGED <<clockVars, timer, ctxDone>>

TryAcquireFails(l, cost) ==
    /\ l \in made /\ ~canProceed(Refilled(l), cost)
    /\ RefillOnly(l)
    /\ UNCHANGED <<clockVars, acq, timer, ctxDone>>

\* GetWaitTime, which returns 0 or calculateWaitTime and takes nothing.
GetWaitTime(l) ==
    /\ l \in made
    /\ RefillOnly(l)
    /\ UNCHANGED <<clockVars, acq, timer, ctxDone>>

\* Status: the observer looks, and starts to count from there.
Status(l) ==
    /\ l \in made
    /\ tokens' = [tokens EXCEPT ![l] = Refilled(l)]
    /\ lastRefill' = [lastRefill EXCEPT ![l] = RefillTime(l)]
    /\ since' = [since EXCEPT ![l] = RefillTime(l)]
    /\ spent' = [spent EXCEPT ![l] = [k \in Lanes |-> 0]]
    /\ UNCHANGED <<made, clockVars, acq, timer, ctxDone>>

-----------------------------------------------------------------------------
(* Time.                                                                   *)

\* A tick passes for the clock and for every timer.
Tick ==
    /\ \/ (\E p \in Procs : timer[p] > 0) /\ UNCHANGED lull
       \/ (\A p \in Procs : timer[p] = 0) /\ lull > 0 /\ lull' = lull - 1
    /\ now' = now + 1
    /\ timer' = [p \in Procs |-> Greatest(timer[p] - 1, 0)]
    /\ UNCHANGED <<storeVars, acq, ctxDone, steps>>

\* The wall clock is set; timers run on.
SetClock(d) ==
    /\ steps > 0 /\ steps' = steps - 1
    /\ now' = now + d
    /\ acq' = [p \in Procs |-> [acq[p] EXCEPT !.calm = FALSE]]
    /\ UNCHANGED <<storeVars, lull, timer, ctxDone>>

-----------------------------------------------------------------------------
\* At most one bucket, full.
BucketInit(first) ==
    /\ now = 0 /\ made \in {{}, {first}}
    /\ tokens = Capacity /\ lastRefill = [l \in Limiters |-> 0]
    /\ acq = [p \in Procs |-> [pc |-> "idle", lim |-> first, paid |-> FALSE,
                               cost |-> [k \in Lanes |-> 0], calm |-> FALSE]]
    /\ timer = [p \in Procs |-> 0] /\ ctxDone = [p \in Procs |-> FALSE]
    /\ spent = [l \in Limiters |-> [k \in Lanes |-> 0]]
    /\ since = [l \in Limiters |-> 0]
    /\ lull = MaxLull /\ steps = MaxClockSteps

\* The callers, as far as a bucket knows them: they collect what Acquire returned,
\* use their timers while they do not sleep in it, and their contexts end.
CallerStep ==
    /\ \/ UNCHANGED acq
       \/ \E p \in Procs : \E outcome \in {"granted", "refused"} : Collect(p, outcome)
    /\ timer' \in [Procs -> Nat] /\ ctxDone' \in [Procs -> BOOLEAN]
    /\ \A p \in Procs : acq[p].pc = "sleep" => timer'[p] = timer[p]
    /\ UNCHANGED <<storeVars, clockVars>>

BucketNext ==
    \/ \E l \in Limiters :
         \/ NewBucket(l) /\ UNCHANGED <<clockVars, acq, timer, ctxDone>>
         \/ Status(l) \/ GetWaitTime(l)
         \/ \E cost \in Costs : \/ TryAcquireFails(l, cost)
                                \/ \E p \in Procs : \/ Acquire(p, l, cost)
                                                   \/ TryAcquire(p, l, cost)
    \/ \E p \in Procs : \/ TryCancelled(p) \/ TryGranted(p) \/ TryWait(p)
                       \/ Wake(p) \/ SleepCancelled(p)
    \/ CallerStep \/ Tick \/ \E d \in ClockSteps : SetClock(d)

BucketSpec == (\E l \in Limiters : BucketInit(l)) /\ [][BucketNext]_bucketVars

-----------------------------------------------------------------------------
\* Types; no lane of a bucket is overdrawn (every amount is a Nat) or overfull.
BucketTypeOK ==
    /\ now \in Int /\ made \subseteq Limiters
    /\ tokens \in [Limiters -> Costs] /\ lastRefill \in [Limiters -> Int]
    /\ \A l \in Limiters : \A k \in Lanes : tokens[l][k] <= Capacity[l][k]
    /\ acq \in [Procs -> AcquireState]
    /\ timer \in [Procs -> Nat] /\ ctxDone \in [Procs -> BOOLEAN]
    /\ spent \in [Limiters -> Costs] /\ since \in [Limiters -> Int]
    /\ lull \in Nat /\ steps \in Nat

\* Acquire returns nil exactly when it has taken the tokens (ratelimit.go:100-103): never for a
\* wait that was cut down to nothing, and never after taking them for nothing.
GrantsPaid == \A p \in Procs :
    /\ acq[p].pc = "granted" => acq[p].paid
    /\ acq[p].pc \in {"refused", "try", "sleep"} => ~acq[p].paid

\* The wait that calculateWaitTime returns is long enough (:218-241): when nobody
\* takes tokens or sets the clock meanwhile, they are there when the timer fires,
\* though the wait was truncated, the bucket is capped and the clock's reading is coarse.
EstimateSuffices == \A p \in Procs :
    LET l == acq[p].lim
    IN  acq[p].pc = "sleep" /\ acq[p].calm =>
            \A k \in Lanes :
               acq[p].cost[k] <= Least(Capacity[l][k],
                   tokens[l][k] + Rate[l][k] * (ClockAt(now + timer[p]) - lastRefill[l]))

\* The tokens granted since any look at a bucket stay within one full bucket and
\* what the rate added since (:172-193): a lane is never refilled twice for the
\* same time, whatever the clock does.
Elapsed == [l \in Limiters |-> lastRefill[l] - since[l]]
Promise == INSTANCE Quota WITH elapsed <- Elapsed
MeetsQuota == Promise!Spec
=============================================================================
