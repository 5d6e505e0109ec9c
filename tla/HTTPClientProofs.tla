-------------------------- MODULE HTTPClientProofs --------------------------
(***************************************************************************)
(* Proofs about HTTPClient, for any limiters, tables, workloads, bounds of *)
(* the retries and any number of goroutines: it uses its buckets as        *)
(* TokenBucket expects, bills what the table lists, retries a bounded      *)
(* number of times, and loses no message of an error.                      *)
(***************************************************************************)
EXTENDS HTTPClient, TokenBucketProofs, EndpointCostsProofs

-----------------------------------------------------------------------------
(* The invariant.                                                          *)

Confs == {NewClientConfig(s) : s \in Settings} \cup {Written(h) : h \in HandMade} \cup {Failed}
Operations == {"none", "method", "limits", "costs"}
Points == {"idle", "acquire", "build", "answer", "backoff", "limits", "made", "costs"}
Kinds == {"none", "ok", "failed", "RateLimitError", "APIError"}
Results == {Outcome(kind, body) : kind \in Kinds, body \in Bodies}
Requests == {Request(c, o) : c \in {d \in Confs : d.ok}, o \in Offer} \cup {Unsent}

\* CallState of HTTPClient, by how its requests and results come about.
CallShape == [op : Operations, pc : Points, offer : Offer,
              table : DOMAIN Tables \cup {NoTable}, retries : Nat, attempts : Nat,
              fetched : Limiters, sent : Requests, result : Results]

\* Attempts and retries are counted alike, and a call that goes on has no result.
Counted(c) ==
    /\ c.pc # "idle" => c.result.kind = "none"
    /\ c.pc = "acquire" => c.retries = 0 /\ c.attempts = 0
    /\ c.pc = "build" => c.attempts = c.retries /\ c.retries <= MaxRetries
    /\ c.pc = "answer" => c.attempts = c.retries + 1 /\ c.retries <= MaxRetries
    /\ c.pc = "backoff" => c.attempts = c.retries + 1 /\ c.retries < MaxRetries
    /\ c.attempts <= MaxRetries + 1
    /\ c.result.kind = "RateLimitError" => c.attempts = MaxRetries + 1

\* What was fetched is a limiter of the service's limits, once there is one.
Fetched(c) ==
    /\ c.pc = "costs" => c.op = "costs"
    /\ c.op = "costs" \/ c.pc = "made" => c.fetched \notin {Own, Default}

Sound(c, config) ==
    /\ c \in CallShape
    /\ (c.op = "none") <=> (c.pc = "idle")
    /\ Counted(c) /\ Fetched(c)
    /\ c.pc = "answer" => c.sent = Request(config, c.offer)

\* A goroutine is in the limiter exactly where do waits for it, there with the cost
\* of its offer, and the limiter and the table are of one configuration.
OwnPair(l, t) == (l \in {Own, Default}) <=> (t = NoTable)
Billed(c, a) ==
    /\ (a.pc # "idle") <=> (c.pc = "acquire")
    /\ c.pc = "acquire" => a.cost = Costed(c.table, c.offer) /\ OwnPair(a.lim, c.table)

Settled ==
    /\ work \in DOMAIN Workloads
    /\ conf \in Confs
    /\ phase \notin {"start", "failed"} => conf.ok
    /\ phase \in {"start", "config", "failed"} =>
          limiter = Default /\ \A p \in Procs : call[p].op = "none"
    /\ limiter \in Limiters /\ table \in DOMAIN Tables \cup {NoTable}
    /\ OwnPair(limiter, table)

Calls ==
    /\ DOMAIN call = Procs /\ call = [p \in Procs |-> call[p]]
    /\ \A p \in Procs : Sound(call[p], conf) /\ Billed(call[p], acq[p])

HTTPInv == BucketTypeOK /\ Settled /\ Calls

-----------------------------------------------------------------------------
(* Values.                                                                 *)

LEMMA OutcomeShape ==
    ASSUME NEW kind, NEW body
    PROVE  Outcome(kind, body).kind = kind /\ Outcome(kind, body).body = body
BY DEF Outcome

LEMMA PlainShape ==
    ASSUME NEW kind \in Kinds
    PROVE  Plain(kind) \in Results /\ Plain(kind).kind = kind
<1>1. [form |-> "other", code |-> "", message |-> ""] \in Bodies
  BY DEF Bodies
<1>2. \A body \in Bodies : Outcome(kind, body) \in Results /\ Outcome(kind, body).kind = kind
  BY OutcomeShape DEF Results
<1> QED BY <1>1, <1>2 DEF Plain

LEMMA ConfigOffers ==
    /\ ConfigCall(GetAccountAPILimits) \in Offer
    /\ ConfigCall(GetAccountEndpointCosts) \in Offer
<1>1. GetAccountAPILimits \in AllEndpoints /\ GetAccountEndpointCosts \in AllEndpoints
  BY DEF AllEndpoints, AccountEndpoints
<1> QED BY <1>1 DEF ConfigCall, Offer, Arguments

LEMMA CostedType ==
    ASSUME NEW t \in DOMAIN Tables \cup {NoTable}, NEW o \in Offer
    PROVE  Costed(t, o) \in Costs
<1>1. o.ep.cost \in Nat /\ o.units \in Nat
  BY AllPriced DEF Offer, Priced
<1>2. CASE t = NoTable
  <2>1. resolveCosts(FALSE, <<>>, 0, o.ep, o.units) \in [{"read", "write"} -> Nat]
    BY <1>1, ResolvedCost
  <2> QED BY <1>2, <2>1 DEF Costed, Costs, Lanes
<1>3. CASE t # NoTable
  <2>1. Tables[t].default \in Nat /\ Tables[t].entries \in Seq(TableEntry)
    BY <1>3, HTTPAssumption
  <2>2. Matching(Routes(Tables[t].entries), o.ep.method, o.ep.path) # {}
           => lookupCost(Routes(Tables[t].entries), o.ep.method, o.ep.path) \in Nat
    BY <2>1, LookupType
  <2>3. resolveCosts(TRUE, Routes(Tables[t].entries), Tables[t].default, o.ep, o.units)
           \in [{"read", "write"} -> Nat]
    BY <1>1, <2>1, <2>2, ResolvedCost
  <2> QED BY <1>3, <2>3 DEF Costed, CostRoutes, Costs, Lanes
<1> QED BY <1>2, <1>3

LEMMA PowerType == ASSUME NEW n \in Nat PROVE 2^n \in Nat
<1>1. n \in Int /\ 1 \in Int /\ (IF 1 > n THEN 0 ELSE n - 1 + 1) = n
  OBVIOUS
<1>2. IsFiniteSet(1..n) /\ Cardinality(1..n) = n
  BY <1>1, FS_Interval
<1>3. IsFiniteSet(SUBSET (1..n)) /\ Cardinality(SUBSET (1..n)) = 2^n
  BY <1>2, FS_SUBSET
<1> QED BY <1>3, FS_CardinalityType

LEMMA BackoffType ==
    ASSUME NEW n \in Nat PROVE BaseDelay * 2^Least(n, 30) \in Nat
<1>1. Least(n, 30) \in Nat
  BY DEF Least
<1>2. 2^Least(n, 30) \in Nat
  BY <1>1, PowerType
<1> QED BY <1>2, ProductNat, HTTPAssumption

-----------------------------------------------------------------------------
(* One call.                                                               *)

LEMMA NoCallSound == ASSUME NEW config PROVE Sound(NoCall, config)
<1>1. Plain("none") \in Results /\ Plain("none").kind = "none"
  BY PlainShape DEF Kinds
<1>2. NoCall \in CallShape
  BY <1>1, ConfigOffers, HTTPAssumption DEF NoCall, CallShape, Operations, Points, Requests
<1>3. MaxRetries \in Nat
  BY HTTPAssumption
<1> QED BY <1>1, <1>2, <1>3 DEF Sound, Counted, Fetched, NoCall

\* What Do makes of a call.
Begun(op, offer, t, l) ==
    [NoCall EXCEPT !.op = op, !.pc = "acquire", !.offer = offer, !.table = t, !.fetched = l]

LEMMA BegunSound ==
    ASSUME NEW config, NEW op \in Operations \ {"none"}, NEW offer \in Offer,
           NEW t \in DOMAIN Tables \cup {NoTable}, NEW l \in Limiters,
           op = "costs" => l \notin {Own, Default}
    PROVE  /\ Sound(Begun(op, offer, t, l), config)
           /\ Begun(op, offer, t, l).pc = "acquire" /\ Begun(op, offer, t, l).op = op
           /\ Begun(op, offer, t, l).table = t /\ Begun(op, offer, t, l).offer = offer
<1> DEFINE c == Begun(op, offer, t, l)
<1>1. NoCall \in CallShape /\ NoCall.result.kind = "none"
      /\ NoCall.retries = 0 /\ NoCall.attempts = 0
  <2>1. Sound(NoCall, config) /\ NoCall.pc = "idle"
    BY NoCallSound DEF NoCall
  <2>2. NoCall.result = Plain("none")
    BY DEF NoCall
  <2> QED BY <2>1, <2>2, PlainShape DEF Sound, Kinds, NoCall
<1>2. /\ c \in CallShape /\ c.op = op /\ c.pc = "acquire" /\ c.offer = offer /\ c.table = t
      /\ c.fetched = l /\ c.result = NoCall.result /\ c.retries = 0 /\ c.attempts = 0
  BY <1>1 DEF Begun, CallShape, Points
<1> HIDE DEF c
<1>3. MaxRetries \in Nat
  BY HTTPAssumption
<1>4. Sound(c, config)
  BY <1>1, <1>2, <1>3 DEF Sound, Counted, Fetched
<1> QED BY <1>2, <1>4 DEF c

\* What Finish makes of a call.
Finished(c, result) == [c EXCEPT !.op = "none", !.pc = "idle", !.result = result]

LEMMA FinishedSound ==
    ASSUME NEW config, NEW c, Sound(c, config), NEW result \in Results,
           result.kind = "RateLimitError" => c.attempts = MaxRetries + 1
    PROVE  /\ Sound(Finished(c, result), config)
           /\ Finished(c, result).pc = "idle" /\ Finished(c, result).op = "none"
<1> DEFINE d == Finished(c, result)
<1>1. c \in CallShape /\ c.attempts <= MaxRetries + 1
  BY DEF Sound, Counted
<1>2. /\ d \in CallShape /\ d.op = "none" /\ d.pc = "idle" /\ d.result = result
      /\ d.attempts = c.attempts
  BY <1>1 DEF Finished, CallShape, Operations, Points
<1> HIDE DEF d
<1>3. Sound(d, config)
  BY <1>1, <1>2 DEF Sound, Counted, Fetched
<1> QED BY <1>2, <1>3 DEF d

-----------------------------------------------------------------------------
(* What a step leaves alone.                                               *)

\* The Acquire of q goes on, or there is none.
AcquireKept(q) ==
    /\ (acq'[q].pc = "idle") <=> (acq[q].pc = "idle")
    /\ acq'[q].cost = acq[q].cost /\ acq'[q].lim = acq[q].lim

LEMMA BilledKept ==
    ASSUME NEW c, NEW q, Billed(c, acq[q]), AcquireKept(q)
    PROVE  Billed(c, acq'[q])
BY DEF Billed, AcquireKept, OwnPair

\* A step in which nobody's call goes on.
LEMMA CallsUntouched ==
    ASSUME Calls, UNCHANGED call, UNCHANGED conf, \A q \in Procs : AcquireKept(q)
    PROVE  Calls'
BY BilledKept DEF Calls

\* A step of one call.
LEMMA CallsStep ==
    ASSUME Calls, NEW p \in Procs, NEW c, call' = [call EXCEPT ![p] = c], UNCHANGED conf,
           Sound(c, conf), Billed(c, acq'[p]), \A q \in Procs \ {p} : AcquireKept(q)
    PROVE  Calls'
<1>1. /\ call'[p] = c /\ \A q \in Procs \ {p} : call'[q] = call[q]
      /\ DOMAIN call' = Procs /\ call' = [q \in Procs |-> call'[q]]
  BY DEF Calls
<1>2. ASSUME NEW q \in Procs PROVE Sound(call'[q], conf) /\ Billed(call'[q], acq'[q])
  <2>1. CASE q = p
    BY <1>1, <2>1
  <2>2. CASE q # p
    BY <1>1, <2>2, BilledKept DEF Calls
  <2> QED BY <2>1, <2>2
<1> QED BY <1>1, <1>2 DEF Calls

\* A step of p in a call, or one that begins it.
LEMMA SettledStep ==
    ASSUME Settled, NEW p \in Procs, NEW c, call' = [call EXCEPT ![p] = c], DOMAIN call = Procs,
           phase \notin {"start", "config", "failed"},
           phase' = phase \/ phase' = "ready",
           UNCHANGED <<work, conf, limiter, table>>
    PROVE  Settled'
BY DEF Settled

LEMMA Inside ==
    ASSUME Settled, NEW p \in Procs, call[p].op # "none"
    PROVE  phase \notin {"start", "config", "failed"} /\ conf.ok
BY DEF Settled

\* The callers of a bucket, as TokenBucket expects them.
LEMMA CallerMoves ==
    ASSUME UNCHANGED <<storeVars, clockVars>>,
           \/ UNCHANGED acq
           \/ \E p \in Procs : \E outcome \in {"granted", "refused"} : Collect(p, outcome),
           timer' \in [Procs -> Nat], ctxDone' \in [Procs -> BOOLEAN],
           \A p \in Procs : acq[p].pc = "sleep" => timer'[p] = timer[p]
    PROVE  BucketNext
BY DEF BucketNext, CallerStep

-----------------------------------------------------------------------------
(* Each action keeps the invariant and is a step of the buckets.           *)

Kept == [BucketNext]_bucketVars /\ Settled' /\ Calls'

LEMMA LoadConfigKept == ASSUME HTTPInv, LoadConfig PROVE Kept
<1>1. Given \in Workload
  BY HTTPAssumption DEF HTTPInv, Settled, Given
<1>2. Given.settings \subseteq Settings /\ Given.written \subseteq HandMade
  BY <1>1 DEF Workload
<1>3. conf' \in Confs
  BY <1>2 DEF LoadConfig, Confs
<1>4. Settled'
  BY <1>3 DEF LoadConfig, HTTPInv, Settled
<1>5. UNCHANGED bucketVars
  BY DEF LoadConfig
<1>6. \A p \in Procs : call[p].pc # "answer"
  BY DEF HTTPInv, Settled, Calls, Sound, LoadConfig
<1>7. \A p \in Procs : Sound(call[p], conf')
  BY <1>6 DEF HTTPInv, Calls, Sound
<1>8. acq' = acq /\ call' = call
  BY <1>5 DEF bucketVars, LoadConfig
<1>9. Calls'
  BY <1>7, <1>8 DEF HTTPInv, Calls
<1> QED BY <1>4, <1>5, <1>9 DEF Kept

LEMMA NewClientKept == ASSUME HTTPInv, NewClient PROVE Kept
<1>1. BucketNext
  BY HTTPAssumption DEF NewClient, BucketNext
<1>2. Settled'
  BY HTTPAssumption DEF NewClient, HTTPInv, Settled, OwnPair
<1>3. UNCHANGED <<call, conf, acq>>
  BY DEF NewClient
<1>4. Calls'
  BY <1>3, CallsUntouched DEF HTTPInv, AcquireKept
<1> QED BY <1>1, <1>2, <1>4 DEF Kept

\* The steps of a bucket in an Acquire, and of time.
LEMMA BucketStepKept ==
    ASSUME HTTPInv, UNCHANGED clientVars,
           \/ \E p \in Procs : TryCancelled(p) \/ TryGranted(p) \/ TryWait(p) \/ Wake(p)
                               \/ SleepCancelled(p)
           \/ Tick \/ \E d \in ClockSteps : SetClock(d)
    PROVE  Kept
<1>1. BucketNext
  BY DEF BucketNext
<1>2. acq \in [Procs -> AcquireState]
  BY DEF HTTPInv, BucketTypeOK
<1>3. \A q \in Procs : AcquireKept(q)
  <2>1. ASSUME NEW p \in Procs, TryCancelled(p) \/ TryWait(p) \/ Wake(p) \/ SleepCancelled(p)
        PROVE  \A q \in Procs : AcquireKept(q)
    BY <1>2, <2>1 DEF AcquireKept, TryCancelled, TryWait, Wake, SleepCancelled, AcquireState
  <2>2. ASSUME NEW p \in Procs, TryGranted(p)
        PROVE  \A q \in Procs : AcquireKept(q)
    BY <1>2, <2>2 DEF AcquireKept, TryGranted, Disturb, AcquireState
  <2>3. ASSUME Tick \/ \E d \in ClockSteps : SetClock(d)
        PROVE  \A q \in Procs : AcquireKept(q)
    BY <1>2, <2>3 DEF AcquireKept, Tick, SetClock, AcquireState
  <2> QED BY <2>1, <2>2, <2>3
<1>4. UNCHANGED <<call, conf>> /\ Settled'
  BY DEF clientVars, HTTPInv, Settled
<1> QED BY <1>1, <1>3, <1>4, CallsUntouched DEF Kept, HTTPInv

LEMMA DoKept ==
    ASSUME HTTPInv, NEW p \in Procs, NEW op \in Operations \ {"none"}, NEW offer \in Offer,
           NEW l \in Limiters, op = "costs" => l \notin {Own, Default}, Do(p, op, offer, l),
           phase \notin {"start", "config", "failed"}, UNCHANGED phase
    PROVE  Kept
<1> DEFINE c == Begun(op, offer, table, l)
           cost == Costed(table, offer)
<1>1. limiter \in Limiters /\ table \in DOMAIN Tables \cup {NoTable} /\ OwnPair(limiter, table)
  BY DEF HTTPInv, Settled
<1>2. cost \in Costs
  BY <1>1, CostedType
<1>3. Acquire(p, limiter, cost) /\ call' = [call EXCEPT ![p] = c]
      /\ UNCHANGED <<work, conf, limiter, table>>
  BY DEF Do, Begun
<1>4. BucketNext
  BY <1>1, <1>2, <1>3 DEF BucketNext
<1>5. /\ Sound(c, conf) /\ c.pc = "acquire" /\ c.table = table /\ c.offer = offer
  <2>1. table \in DOMAIN Tables \cup {NoTable} /\ (op = "costs" => l \notin {Own, Default})
    BY <1>1
  <2> QED BY <2>1, BegunSound
<1> HIDE DEF c, cost
<1>6. /\ acq'[p].pc # "idle" /\ acq'[p].cost = cost /\ acq'[p].lim = limiter
      /\ \A q \in Procs \ {p} : AcquireKept(q)
  BY <1>3 DEF Acquire, AcquireKept, HTTPInv, BucketTypeOK
<1>7. Billed(c, acq'[p])
  BY <1>1, <1>5, <1>6 DEF Billed, cost
<1>8. Calls'
  BY <1>3, <1>5, <1>6, <1>7, CallsStep DEF HTTPInv
<1>9. Settled'
  BY <1>3, SettledStep DEF HTTPInv, Calls
<1> QED BY <1>4, <1>8, <1>9 DEF Kept

LEMMA MethodKept == ASSUME HTTPInv, NEW p \in Procs, Method(p) PROVE Kept
<1>1. Given \in Workload
  BY HTTPAssumption DEF HTTPInv, Settled, Given
<1>2. Given.offers[p] \subseteq Offer
  BY <1>1 DEF Workload
<1>3. PICK offer \in Given.offers[p] : Do(p, "method", offer, Default)
  BY DEF Method
<1>4. UNCHANGED phase /\ phase = "ready"
  BY DEF Method, MayCall
<1> QED BY <1>2, <1>3, <1>4, DoKept, HTTPAssumption DEF Operations

LEMMA ConfigureKept == ASSUME HTTPInv, NEW p \in Procs, ConfigureRateLimits(p) PROVE Kept
<1>1. Do(p, "limits", ConfigCall(GetAccountAPILimits), Default) /\ UNCHANGED phase
      /\ phase \in {"auto", "ready"}
  BY DEF ConfigureRateLimits, MayCall
<1> QED BY <1>1, DoKept, ConfigOffers, HTTPAssumption DEF Operations

LEMMA FetchCostsKept == ASSUME HTTPInv, NEW p \in Procs, FetchCosts(p) PROVE Kept
<1>1. Sound(call[p], conf) /\ call[p].pc = "made"
  BY DEF HTTPInv, Calls, FetchCosts
<1>2. call[p].fetched \in Limiters \ {Own, Default} /\ call[p].op # "none"
  BY <1>1 DEF Sound, Fetched, CallShape
<1>3. phase \notin {"start", "config", "failed"}
  BY <1>2, Inside DEF HTTPInv
<1>4. Do(p, "costs", ConfigCall(GetAccountEndpointCosts), call[p].fetched) /\ UNCHANGED phase
  BY DEF FetchCosts
<1> QED BY <1>2, <1>3, <1>4, DoKept, ConfigOffers DEF Operations

-----------------------------------------------------------------------------
(* The steps of a call that leave the bucket alone, or collect its answer. *)

\* p, in a call and out of the limiter, goes on with call c.
LEMMA GoesOn ==
    ASSUME HTTPInv, NEW p \in Procs, call[p].op # "none", call[p].pc # "acquire",
           NEW c, call' = [call EXCEPT ![p] = c], Sound(c, conf), c.pc # "acquire",
           phase' = phase \/ phase' = "ready",
           UNCHANGED <<work, conf, limiter, table, acq>>
    PROVE  Settled' /\ Calls'
<1>1. phase \notin {"start", "config", "failed"}
  BY Inside DEF HTTPInv
<1>2. Settled'
  BY <1>1, SettledStep DEF HTTPInv, Calls
<1>3. Billed(call[p], acq[p])
  BY DEF HTTPInv, Calls
<1>4. Billed(c, acq'[p])
  BY <1>3 DEF Billed
<1>5. \A q \in Procs \ {p} : AcquireKept(q)
  BY DEF AcquireKept
<1>6. Calls'
  BY <1>4, <1>5, CallsStep DEF HTTPInv
<1> QED BY <1>2, <1>6

\* Out of the limiter, p moves only its timer and its context.
LEMMA OutsideMoves ==
    ASSUME HTTPInv, NEW p \in Procs, call[p].pc # "acquire",
           UNCHANGED <<storeVars, clockVars, acq>>,
           UNCHANGED timer \/ \E n \in Nat : timer' = [timer EXCEPT ![p] = n],
           UNCHANGED ctxDone \/ \E b \in BOOLEAN : ctxDone' = [ctxDone EXCEPT ![p] = b]
    PROVE  BucketNext
<1>1. timer \in [Procs -> Nat] /\ ctxDone \in [Procs -> BOOLEAN]
  BY DEF HTTPInv, BucketTypeOK
<1>2. acq[p].pc = "idle"
  BY DEF HTTPInv, Calls, Billed
<1>3. timer' \in [Procs -> Nat]
  BY <1>1
<1>4. ctxDone' \in [Procs -> BOOLEAN]
  BY <1>1
<1>5. \A q \in Procs : acq[q].pc = "sleep" => timer'[q] = timer[q]
  BY <1>1, <1>2
<1> QED BY <1>3, <1>4, <1>5, CallerMoves

\* Out of the limiter, p returns from its call.
LEMMA Returns ==
    ASSUME HTTPInv, NEW p \in Procs, call[p].op # "none", call[p].pc # "acquire",
           NEW result \in Results, Finish(p, result),
           result.kind = "RateLimitError" => call[p].attempts = MaxRetries + 1,
           UNCHANGED <<storeVars, clockVars, acq, work, conf, limiter, table>>,
           UNCHANGED timer \/ \E n \in Nat : timer' = [timer EXCEPT ![p] = n]
    PROVE  Kept
<1> DEFINE c == Finished(call[p], result)
<1>1. Sound(call[p], conf) /\ DOMAIN call = Procs
  BY DEF HTTPInv, Calls
<1>2. Sound(c, conf) /\ c.pc = "idle" /\ c.op = "none"
  BY <1>1, FinishedSound
<1>3. call' = [call EXCEPT ![p] = c]
  BY <1>1 DEF Finish, Finished
<1>4. phase' = phase \/ phase' = "ready"
  BY DEF Finish
<1> HIDE DEF c
<1>5. Settled' /\ Calls'
  BY <1>2, <1>3, <1>4, GoesOn
<1>6. BucketNext
  BY OutsideMoves DEF Finish
<1> QED BY <1>5, <1>6 DEF Kept

LEMMA SendKept == ASSUME HTTPInv, NEW p \in Procs, Send(p) PROVE Kept
<1> DEFINE c == [call[p] EXCEPT !.pc = "answer", !.attempts = @ + 1,
                                !.sent = Request(conf, call[p].offer)]
<1>1. Sound(call[p], conf) /\ call[p].pc = "build" /\ DOMAIN call = Procs /\ conf \in Confs
  BY DEF HTTPInv, Calls, Send, Settled
<1>2. call[p] \in CallShape /\ call[p].offer \in Offer /\ call[p].attempts + 1 \in Nat
  BY <1>1 DEF Sound, CallShape
<1>3. Request(conf, call[p].offer) \in Requests
  <2>1. conf \in {d \in Confs : d.ok}
    BY <1>1, Inside DEF HTTPInv, Sound
  <2> QED BY <1>2, <2>1 DEF Requests
<1>4. /\ c \in CallShape
      /\ c.pc = "answer" /\ c.attempts = call[p].attempts + 1
      /\ c.retries = call[p].retries /\ c.op = call[p].op /\ c.result = call[p].result
      /\ c.fetched = call[p].fetched /\ c.offer = call[p].offer
      /\ c.sent = Request(conf, call[p].offer)
  BY <1>2, <1>3 DEF CallShape, Points
<1>5. call' = [call EXCEPT ![p] = c]
  BY <1>1 DEF Send
<1> HIDE DEF c
<1>6. Sound(c, conf)
  BY <1>1, <1>4, HTTPAssumption DEF Sound, Counted, Fetched, CallShape
<1>7. UNCHANGED <<work, conf, limiter, table, acq>> /\ phase' = phase
      /\ UNCHANGED bucketVars
  BY DEF Send, bucketVars
<1>8. call[p].op # "none"
  BY <1>1 DEF Sound
<1> QED BY <1>1, <1>4, <1>5, <1>6, <1>7, <1>8, GoesOn DEF Kept

LEMMA BackoffOverKept == ASSUME HTTPInv, NEW p \in Procs, BackoffOver(p) PROVE Kept
<1> DEFINE c == [call[p] EXCEPT !.pc = "build", !.retries = @ + 1]
<1>1. Sound(call[p], conf) /\ call[p].pc = "backoff" /\ DOMAIN call = Procs
  BY DEF HTTPInv, Calls, BackoffOver
<1>2. call[p] \in CallShape /\ call[p].retries + 1 \in Nat
  BY <1>1 DEF Sound, CallShape
<1>3. /\ c \in CallShape
      /\ c.pc = "build" /\ c.attempts = call[p].attempts
      /\ c.retries = call[p].retries + 1 /\ c.op = call[p].op /\ c.result = call[p].result
      /\ c.fetched = call[p].fetched
  BY <1>2 DEF CallShape, Points
<1>4. call' = [call EXCEPT ![p] = c]
  BY <1>1 DEF BackoffOver
<1> HIDE DEF c
<1>5. Sound(c, conf)
  BY <1>1, <1>2, <1>3, HTTPAssumption DEF Sound, Counted, Fetched, CallShape
<1>6. UNCHANGED <<work, conf, limiter, table, acq>> /\ phase' = phase
      /\ UNCHANGED bucketVars
  BY DEF BackoffOver, bucketVars
<1>7. call[p].op # "none"
  BY <1>1 DEF Sound
<1> QED BY <1>1, <1>3, <1>4, <1>5, <1>6, <1>7, GoesOn DEF Kept

\* Acquire has answered, and p goes on with call c.
LEMMA CollectKept ==
    ASSUME HTTPInv, NEW p \in Procs, call[p].pc = "acquire",
           NEW outcome \in {"granted", "refused"}, Collect(p, outcome),
           NEW c, call' = [call EXCEPT ![p] = c], Sound(c, conf), c.pc # "acquire",
           phase' = phase \/ phase' = "ready",
           UNCHANGED <<timer, work, conf, limiter, table>>,
           UNCHANGED ctxDone \/ \E b \in BOOLEAN : ctxDone' = [ctxDone EXCEPT ![p] = b]
    PROVE  Kept
<1>1. /\ acq \in [Procs -> AcquireState] /\ timer \in [Procs -> Nat]
      /\ ctxDone \in [Procs -> BOOLEAN]
  BY DEF HTTPInv, BucketTypeOK
<1>2. BucketNext
  <2>1. ctxDone' \in [Procs -> BOOLEAN] /\ timer' = timer
    BY <1>1
  <2>2. UNCHANGED <<storeVars, clockVars>>
    BY DEF Collect
  <2> QED BY <1>1, <2>1, <2>2, CallerMoves
<1>3. call[p].op # "none"
  BY DEF HTTPInv, Calls, Sound
<1>4. Settled'
  BY <1>3, Inside, SettledStep DEF HTTPInv, Calls
<1>5. acq'[p].pc = "idle" /\ \A q \in Procs \ {p} : AcquireKept(q)
  BY <1>1 DEF Collect, AcquireKept, AcquireState
<1>6. Billed(c, acq'[p])
  BY <1>5 DEF Billed
<1>7. Calls'
  BY <1>5, <1>6, CallsStep DEF HTTPInv
<1> QED BY <1>2, <1>4, <1>7 DEF Kept

LEMMA AcquireReturnsKept == ASSUME HTTPInv, NEW p \in Procs, AcquireReturns(p) PROVE Kept
<1>1. Sound(call[p], conf) /\ call[p].pc = "acquire" /\ DOMAIN call = Procs
  BY DEF HTTPInv, Calls, AcquireReturns
<1>2. call[p] \in CallShape
  BY <1>1 DEF Sound
<1>3. UNCHANGED <<timer, work, conf, limiter, table>>
  BY DEF AcquireReturns
<1>4. CASE /\ Collect(p, "granted")
           /\ call' = [call EXCEPT ![p].pc = "build"]
           /\ UNCHANGED <<phase, ctxDone>>
  <2> DEFINE c == [call[p] EXCEPT !.pc = "build"]
  <2>1. /\ c \in CallShape
        /\ c.pc = "build" /\ c.attempts = call[p].attempts /\ c.retries = call[p].retries
        /\ c.op = call[p].op /\ c.result = call[p].result /\ c.fetched = call[p].fetched
    BY <1>2 DEF CallShape, Points
  <2>2. call' = [call EXCEPT ![p] = c]
    BY <1>1, <1>4
  <2> HIDE DEF c
  <2>3. Sound(c, conf)
    BY <1>1, <2>1, HTTPAssumption DEF Sound, Counted, Fetched
  <2> QED BY <1>1, <1>3, <1>4, <2>1, <2>2, <2>3, CollectKept
<1>5. CASE Collect(p, "refused") /\ Finish(p, Plain("failed"))
  <2> DEFINE c == Finished(call[p], Plain("failed"))
  <2>1. Plain("failed") \in Results /\ Plain("failed").kind = "failed"
    BY PlainShape DEF Kinds
  <2>2. Sound(c, conf) /\ c.pc = "idle"
    BY <1>1, <2>1, FinishedSound
  <2>3. call' = [call EXCEPT ![p] = c]
    BY <1>1, <1>5 DEF Finish, Finished
  <2>4. phase' = phase \/ phase' = "ready"
    BY <1>5 DEF Finish
  <2>5. \E b \in BOOLEAN : ctxDone' = [ctxDone EXCEPT ![p] = b]
    BY <1>5 DEF Finish
  <2> HIDE DEF c
  <2> QED BY <1>1, <1>3, <1>5, <2>2, <2>3, <2>4, <2>5, CollectKept
<1> QED BY <1>4, <1>5 DEF AcquireReturns

LEMMA BuildFailsKept == ASSUME HTTPInv, NEW p \in Procs, BuildFails(p) PROVE Kept
<1>1. Plain("failed") \in Results /\ Plain("failed").kind = "failed"
  BY PlainShape DEF Kinds
<1>2. call[p].pc = "build" /\ call[p].op # "none"
  BY DEF BuildFails, HTTPInv, Calls, Sound
<1>3. Finish(p, Plain("failed"))
      /\ UNCHANGED <<storeVars, clockVars, acq, timer, work, conf, limiter, table>>
  BY DEF BuildFails
<1> QED BY <1>1, <1>2, <1>3, Returns

LEMMA BackoffCancelledKept ==
    ASSUME HTTPInv, NEW p \in Procs, BackoffCancelled(p) PROVE Kept
<1>1. Plain("failed") \in Results /\ Plain("failed").kind = "failed"
  BY PlainShape DEF Kinds
<1>2. call[p].pc = "backoff" /\ call[p].op # "none"
  BY DEF BackoffCancelled, HTTPInv, Calls, Sound
<1>3. /\ Finish(p, Plain("failed")) /\ timer' = [timer EXCEPT ![p] = 0]
      /\ UNCHANGED <<storeVars, clockVars, acq, work, conf, limiter, table>>
  BY DEF BackoffCancelled
<1>4. \E n \in Nat : timer' = [timer EXCEPT ![p] = n]
  BY <1>3
<1> QED BY <1>1, <1>2, <1>3, <1>4, Returns

LEMMA InstallKept == ASSUME HTTPInv, NEW p \in Procs, Install(p) PROVE Kept
<1> DEFINE c == Finished(call[p], Plain("ok"))
<1>1. Sound(call[p], conf) /\ call[p].pc = "costs" /\ DOMAIN call = Procs
  BY DEF HTTPInv, Calls, Install
<1>2. call[p].fetched \in Limiters \ {Own, Default} /\ call[p].op # "none"
  BY <1>1 DEF Sound, Fetched, CallShape
<1>3. Plain("ok") \in Results /\ Plain("ok").kind = "ok"
  BY PlainShape DEF Kinds
<1>4. Sound(c, conf) /\ c.pc = "idle" /\ c.op = "none"
  BY <1>1, <1>3, FinishedSound
<1>5. call' = [call EXCEPT ![p] = c]
  BY <1>1 DEF Install, Finish, Finished
<1> HIDE DEF c
<1>6. UNCHANGED <<storeVars, clockVars, acq, timer, work, conf>>
  BY DEF Install
<1>7. BucketNext
  <2>1. UNCHANGED timer /\ \E b \in BOOLEAN : ctxDone' = [ctxDone EXCEPT ![p] = b]
    BY DEF Install, Finish
  <2> QED BY <1>1, <1>6, <2>1, OutsideMoves
<1>8. Calls'
  <2>1. Billed(c, acq'[p])
    BY <1>1, <1>4, <1>6 DEF HTTPInv, Calls, Billed
  <2>2. \A q \in Procs \ {p} : AcquireKept(q)
    BY <1>6 DEF AcquireKept
  <2> QED BY <1>4, <1>5, <1>6, <2>1, <2>2, CallsStep DEF HTTPInv
<1>9. Settled'
  <2>1. phase \notin {"start", "config", "failed"} /\ conf.ok
    BY <1>2, Inside DEF HTTPInv
  <2>2. phase' = phase \/ phase' = "ready"
    BY DEF Install, Finish
  <2>3. limiter' \in Limiters \ {Own, Default} /\ table' \in DOMAIN Tables
    BY <1>2 DEF Install
  <2>4. OwnPair(limiter', table')
    BY <2>3, HTTPAssumption DEF OwnPair
  <2> QED BY <1>6, <2>1, <2>2, <2>3, <2>4 DEF HTTPInv, Settled
<1> QED BY <1>7, <1>8, <1>9 DEF Kept

\* handleRetry, and a good answer inside ConfigureRateLimits: the call goes on at pc.
LEMMA PointMoves ==
    ASSUME HTTPInv, NEW p \in Procs, call[p].pc = "answer", NEW pc \in Points,
           \/ pc = "backoff" /\ call[p].retries < MaxRetries
           \/ pc = call[p].op /\ call[p].op \in {"limits", "costs"},
           call' = [call EXCEPT ![p].pc = pc], UNCHANGED phase,
           UNCHANGED <<storeVars, clockVars, acq, work, conf, limiter, table, ctxDone>>,
           UNCHANGED timer \/ \E n \in Nat : timer' = [timer EXCEPT ![p] = n]
    PROVE  Kept
<1> DEFINE c == [call[p] EXCEPT !.pc = pc]
<1>1. Sound(call[p], conf) /\ DOMAIN call = Procs
  BY DEF HTTPInv, Calls
<1>2. call[p] \in CallShape /\ call[p].op # "none"
  BY <1>1 DEF Sound
<1>3. /\ c \in CallShape
      /\ c.pc = pc /\ c.attempts = call[p].attempts /\ c.retries = call[p].retries
      /\ c.op = call[p].op /\ c.result = call[p].result /\ c.fetched = call[p].fetched
  BY <1>2 DEF CallShape, Points
<1>4. call' = [call EXCEPT ![p] = c]
  BY <1>1
<1> HIDE DEF c
<1>5. Sound(c, conf) /\ c.pc # "acquire"
  BY <1>1, <1>2, <1>3, HTTPAssumption DEF Sound, Counted, Fetched
<1>6. Settled' /\ Calls'
  BY <1>2, <1>4, <1>5, GoesOn
<1>7. BucketNext
  BY OutsideMoves
<1> QED BY <1>6, <1>7 DEF Kept

LEMMA AnswerKept == ASSUME HTTPInv, NEW p \in Procs, Answer(p) PROVE Kept
<1>1. Sound(call[p], conf) /\ call[p].pc = "answer"
  BY DEF HTTPInv, Calls, Answer
<1>2. /\ call[p].op \in Operations \ {"none"} /\ call[p].retries \in Nat
      /\ call[p].attempts = call[p].retries + 1 /\ call[p].retries <= MaxRetries
      /\ MaxRetries \in Nat
  BY <1>1, HTTPAssumption DEF Sound, CallShape, Counted
<1>3. UNCHANGED <<storeVars, clockVars, acq, work, conf, limiter, table>>
  BY DEF Answer
<1>4. CASE handleRetry(p)
  <2>1. CASE /\ call[p].retries >= MaxRetries
             /\ Finish(p, Plain("RateLimitError"))
             /\ UNCHANGED timer
    <3>1. Plain("RateLimitError") \in Results
      BY PlainShape DEF Kinds
    <3>2. call[p].attempts = MaxRetries + 1
      BY <1>2, <2>1
    <3> QED BY <1>1, <1>2, <1>3, <2>1, <3>1, <3>2, Returns
  <2>2. CASE /\ call[p].retries < MaxRetries
             /\ call' = [call EXCEPT ![p].pc = "backoff"]
             /\ timer' = [timer EXCEPT ![p] = BaseDelay * 2^Least(call[p].retries, 30)]
             /\ UNCHANGED <<phase, ctxDone>>
    <3> DEFINE n == BaseDelay * 2^Least(call[p].retries, 30)
    <3>1. n \in Nat /\ timer' = [timer EXCEPT ![p] = n]
      BY <1>2, <2>2, BackoffType
    <3> HIDE DEF n
    <3>2. \E m \in Nat : timer' = [timer EXCEPT ![p] = m]
      BY <3>1
    <3>3. "backoff" \in Points
      BY DEF Points
    <3> QED BY <1>1, <1>3, <2>2, <3>2, <3>3, PointMoves
  <2> QED BY <1>4, <2>1, <2>2 DEF handleRetry
<1>5. CASE UNCHANGED timer /\ Answered(p)
  <2>1. CASE call[p].op = "method"
    <3>1. Plain("ok") \in Results /\ Plain("ok").kind = "ok"
      BY PlainShape DEF Kinds
    <3> QED BY <1>1, <1>2, <1>3, <1>5, <2>1, <3>1, Returns DEF Answered
  <2>2. CASE call[p].op # "method"
    <3> DEFINE pc == call[p].op
    <3>1. pc \in Points /\ pc \in {"limits", "costs"}
      BY <1>2, <2>2 DEF Operations, Points
    <3>2. call' = [call EXCEPT ![p].pc = pc] /\ UNCHANGED <<phase, ctxDone>>
      BY <1>5, <2>2 DEF Answered
    <3> QED BY <1>1, <1>3, <1>5, <3>1, <3>2, PointMoves
  <2> QED BY <2>1, <2>2
<1>6. ASSUME NEW b \in Bodies, UNCHANGED timer, Finish(p, Outcome("APIError", b))
      PROVE  Kept
  <2>1. Outcome("APIError", b) \in Results /\ Outcome("APIError", b).kind = "APIError"
    BY OutcomeShape DEF Results, Kinds
  <2> QED BY <1>1, <1>2, <1>3, <1>6, <2>1, Returns
<1>7. CASE UNCHANGED timer /\ Finish(p, Plain("failed"))
  <2>1. Plain("failed") \in Results /\ Plain("failed").kind = "failed"
    BY PlainShape DEF Kinds
  <2> QED BY <1>1, <1>2, <1>3, <1>7, <2>1, Returns
<1> QED BY <1>4, <1>5, <1>6, <1>7 DEF Answer

LEMMA MakeLimiterKept == ASSUME HTTPInv, NEW p \in Procs, MakeLimiter(p) PROVE Kept
<1>1. PICK l \in Limiters \ {Own, Default} :
         NewBucket(l) /\ call' = [call EXCEPT ![p].pc = "made", ![p].fetched = l]
  BY DEF MakeLimiter
<1> DEFINE c == [call[p] EXCEPT !.pc = "made", !.fetched = l]
<1>2. Sound(call[p], conf) /\ DOMAIN call = Procs /\ call[p].pc = "limits"
  BY DEF HTTPInv, Calls, MakeLimiter
<1>3. call[p] \in CallShape /\ call[p].op # "none"
  BY <1>2 DEF Sound
<1>4. /\ c \in CallShape
      /\ c.pc = "made" /\ c.attempts = call[p].attempts /\ c.retries = call[p].retries
      /\ c.op = call[p].op /\ c.result = call[p].result /\ c.fetched = l
  BY <1>1, <1>3 DEF CallShape, Points
<1>5. call' = [call EXCEPT ![p] = c]
  BY <1>1, <1>2
<1> HIDE DEF c
<1>6. Sound(c, conf) /\ c.pc # "acquire"
  BY <1>1, <1>2, <1>3, <1>4, HTTPAssumption DEF Sound, Counted, Fetched
<1>7. UNCHANGED <<clockVars, acq, timer, ctxDone, work, phase, conf, limiter, table>>
  BY DEF MakeLimiter
<1>8. Settled' /\ Calls'
  BY <1>2, <1>3, <1>5, <1>6, <1>7, GoesOn
<1>9. BucketNext
  BY <1>1, <1>7 DEF BucketNext
<1> QED BY <1>8, <1>9 DEF Kept

LEMMA DirectKept == ASSUME HTTPInv, NEW p \in Procs, Direct(p) PROVE Kept
<1>1. Given \in Workload /\ Own \in Limiters
  BY HTTPAssumption DEF HTTPInv, Settled, Given
<1>2. Given.offers[p] \subseteq Offer
  BY <1>1 DEF Workload
<1>3. acq \in [Procs -> AcquireState]
  BY DEF HTTPInv, BucketTypeOK
<1>4. BucketNext /\ \A q \in Procs : AcquireKept(q)
  <2>1. CASE Status(Own) \/ GetWaitTime(Own)
    BY <1>1, <2>1 DEF BucketNext, Status, GetWaitTime, AcquireKept
  <2>2. ASSUME NEW offer \in Given.offers[p],
               \/ TryAcquire(p, Own, Costed(NoTable, offer))
               \/ TryAcquireFails(Own, Costed(NoTable, offer))
        PROVE  BucketNext /\ \A q \in Procs : AcquireKept(q)
    <3> DEFINE cost == Costed(NoTable, offer)
    <3>1. cost \in Costs
      BY <1>2, CostedType
    <3> HIDE DEF cost
    <3>2. TryAcquire(p, Own, cost) \/ TryAcquireFails(Own, cost)
      BY <2>2 DEF cost
    <3>3. BucketNext
      BY <1>1, <3>1, <3>2 DEF BucketNext
    <3>4. \A q \in Procs : AcquireKept(q)
      BY <1>3, <3>2 DEF TryAcquire, TryAcquireFails, Disturb, AcquireKept, AcquireState
    <3> QED BY <3>3, <3>4
  <2> QED BY <2>1, <2>2 DEF Direct
<1>5. UNCHANGED <<work, phase, conf, limiter, table, call>>
  BY DEF Direct
<1>6. Calls'
  BY <1>4, <1>5, CallsUntouched DEF HTTPInv
<1>7. Settled'
  BY <1>5 DEF HTTPInv, Settled
<1> QED BY <1>4, <1>6, <1>7 DEF Kept

LEMMA CancelKept == ASSUME HTTPInv, NEW p \in Procs, Cancel(p) PROVE Kept
<1>1. /\ UNCHANGED <<storeVars, clockVars, acq, timer>> /\ UNCHANGED clientVars
      /\ ctxDone' = [ctxDone EXCEPT ![p] = TRUE]
  BY DEF Cancel
<1>2. timer \in [Procs -> Nat] /\ ctxDone \in [Procs -> BOOLEAN]
  BY DEF HTTPInv, BucketTypeOK
<1>3. BucketNext
  BY <1>1, <1>2, CallerMoves
<1>4. Settled' /\ UNCHANGED <<call, conf>>
  BY <1>1 DEF clientVars, HTTPInv, Settled
<1>5. Calls'
  BY <1>1, <1>4, CallsUntouched DEF HTTPInv, AcquireKept
<1> QED BY <1>3, <1>4, <1>5 DEF Kept

-----------------------------------------------------------------------------
(* The invariant, and the buckets inside the client.                       *)

LEMMA InitHolds == ASSUME Init PROVE HTTPInv /\ \E l \in Limiters : BucketInit(l)
<1>1. Own \in Limiters /\ Default \in Limiters /\ BucketInit(Own)
  BY HTTPAssumption DEF Init
<1>2. BucketTypeOK
  BY <1>1, InitTypes
<1>3. Settled
  BY <1>1 DEF Init, Settled, Confs, OwnPair, NoCall
<1>4. \A p \in Procs : acq[p].pc = "idle" /\ call[p] = NoCall
  BY DEF Init, BucketInit
<1>5. NoCall.pc = "idle"
  BY DEF NoCall
<1>6. \A p \in Procs : Sound(call[p], conf) /\ Billed(call[p], acq[p])
  BY <1>4, <1>5, NoCallSound DEF Billed
<1>7. Calls
  BY <1>6 DEF Init, Calls
<1> QED BY <1>1, <1>2, <1>3, <1>7 DEF HTTPInv

LEMMA ProgressKept == ASSUME HTTPInv, NEW p \in Procs, Progress(p) PROVE Kept
<1>1. CASE /\ UNCHANGED clientVars
           /\ \/ TryCancelled(p) \/ TryGranted(p) \/ TryWait(p) \/ Wake(p) \/ SleepCancelled(p)
  BY <1>1, BucketStepKept
<1>2. CASE \/ AcquireReturns(p) \/ Send(p) \/ BuildFails(p) \/ Answer(p)
           \/ BackoffOver(p) \/ BackoffCancelled(p)
           \/ MakeLimiter(p) \/ FetchCosts(p) \/ Install(p)
  BY <1>2, AcquireReturnsKept, SendKept, BuildFailsKept, AnswerKept, BackoffOverKept,
     BackoffCancelledKept, MakeLimiterKept, FetchCostsKept, InstallKept
<1> QED BY <1>1, <1>2 DEF Progress

LEMMA NextKept == ASSUME HTTPInv, [Next]_vars PROVE HTTPInv' /\ [BucketNext]_bucketVars
<1>1. ASSUME NEW p \in Procs,
             Progress(p) \/ Method(p) \/ ConfigureRateLimits(p) \/ Direct(p) \/ Cancel(p)
      PROVE  Kept
  BY <1>1, ProgressKept, MethodKept, ConfigureKept, DirectKept, CancelKept
<1>2. ASSUME TimePasses \/ ClockSet PROVE Kept
  BY <1>2, BucketStepKept DEF TimePasses, ClockSet
<1>3. ASSUME UNCHANGED vars PROVE Kept
  <2>1. UNCHANGED bucketVars /\ UNCHANGED clientVars /\ UNCHANGED <<acq, call, conf>>
    BY <1>3 DEF vars, bucketVars, clientVars
  <2>2. Calls'
    BY <2>1, CallsUntouched DEF HTTPInv, AcquireKept
  <2>3. Settled'
    BY <2>1 DEF HTTPInv, Settled, clientVars
  <2> QED BY <2>1, <2>2, <2>3 DEF Kept
<1>4. Kept
  BY <1>1, <1>2, <1>3, LoadConfigKept, NewClientKept DEF Next
<1>5. BucketTypeOK'
  BY <1>4, StepTypes DEF Kept, HTTPInv
<1> QED BY <1>4, <1>5 DEF Kept, HTTPInv

LEMMA HTTPInvariant == Spec => []HTTPInv
<1>1. Init => HTTPInv
  BY InitHolds
<1>2. HTTPInv /\ [Next]_vars => HTTPInv'
  BY NextKept
<1> QED BY <1>1, <1>2, PTL DEF Spec

\* The client uses its buckets as TokenBucket expects it of its callers (do,
\* ConfigureRateLimits): whatever holds of TokenBucket holds inside the client.
THEOREM UsesBuckets == Spec => BucketSpec
<1>1. Init => (\E l \in Limiters : BucketInit(l))
  BY InitHolds
<1>2. HTTPInv /\ [Next]_vars => [BucketNext]_bucketVars
  BY NextKept
<1> QED BY <1>1, <1>2, HTTPInvariant, PTL DEF Spec, BucketSpec

\* Acquire lets no call of the client through that did not take its tokens, however
\* calls, refreshes of the limits, retries and cancellations interleave (do).
THEOREM ClientPays == ASSUME Padding >= Parts PROVE Spec => []GrantsPaid
BY UsesBuckets, Paid, PTL

\* Each limiter the client has used keeps the quota, also while it is replaced
\* (ConfigureRateLimits).
THEOREM ClientWithinQuota == Spec => MeetsQuota
BY UsesBuckets, WithinQuota, PTL

\* No wait is too short inside the client either (do, calculateWaitTime).
THEOREM ClientWaits == ASSUME Padding >= Grain * Parts PROVE Spec => []EstimateSuffices
BY UsesBuckets, WaitSuffices, PTL

-----------------------------------------------------------------------------
(* What a call is billed.                                                  *)

LEMMA ListedMatches ==
    ASSUME NEW t \in DOMAIN Tables, NEW ep, NEW i \in Listed(t, ep)
    PROVE  matches(newCostRoute(Tables[t].entries[i]), ep.method, ep.path)
<1> DEFINE entry == Tables[t].entries[i]
           pattern == Full(entry.path)
<1>1. i \in DOMAIN Tables[t].entries /\ SameEndpoint(entry, ep)
  BY DEF Listed
<1>2. Tables[t].entries \in Seq(TableEntry)
  BY HTTPAssumption
<1>3. entry \in TableEntry
  BY <1>1, <1>2
<1>4. PathOf(entry) = pattern
  BY DEF PathOf, Full
<1>5. pattern \in Seq(STRING \cup {"trade-api", "v2"})
  BY <1>3, <1>4, PathType
<1>6. newCostRoute(entry).segments = pattern /\ newCostRoute(entry).method = entry.method
  BY DEF newCostRoute, Full
<1>7. /\ entry.method = ep.method /\ Len(pattern) = Len(ep.path)
      /\ \A k \in DOMAIN pattern :
            pattern[k] = ep.path[k] \/ isPathPlaceholder(pattern[k])
  BY <1>1 DEF SameEndpoint
<1> HIDE DEF pattern, entry
<1>8. segmentsMatch(pattern, ep.path)
  BY <1>5, <1>7, OwnPattern
<1>9. matches(newCostRoute(entry), ep.method, ep.path)
  BY <1>6, <1>7, <1>8 DEF matches
<1> QED BY <1>9 DEF entry

LEMMA ListedCost ==
    ASSUME NEW t \in DOMAIN Tables, NEW o \in Offer, NEW i \in Listed(t, o.ep),
           Decisive(t, i, o.ep)
    PROVE  Costed(t, o) = InLane(o.ep.method, Tables[t].entries[i].cost
                                                 * (IF o.units = 0 THEN 1 ELSE o.units))
<1> DEFINE entries == Tables[t].entries
           routes == Routes(entries)
<1>1. entries \in Seq(TableEntry) /\ t # NoTable
  BY HTTPAssumption
<1>2. i \in DOMAIN entries /\ matches(newCostRoute(entries[i]), o.ep.method, o.ep.path)
  BY ListedMatches DEF Listed
<1>3. \A j \in DOMAIN entries \ {i} :
         matches(newCostRoute(entries[j]), o.ep.method, o.ep.path)
            => newCostRoute(entries[j]).literals < newCostRoute(entries[i]).literals
  BY DEF Decisive
<1> HIDE DEF entries
<1>4. /\ Matching(routes, o.ep.method, o.ep.path) # {}
      /\ lookupCost(routes, o.ep.method, o.ep.path) = entries[i].cost
  BY <1>1, <1>2, <1>3, DecisiveEntry
<1>5. Costed(t, o) = resolveCosts(TRUE, routes, Tables[t].default, o.ep, o.units)
  BY <1>1 DEF Costed, CostRoutes, entries
<1>6. o.units \in Nat
  BY DEF Offer
<1>7. (IF o.units < 1 THEN 1 ELSE o.units) = (IF o.units = 0 THEN 1 ELSE o.units)
  BY <1>6
<1> HIDE DEF routes
<1>8. Costed(t, o) = InLane(o.ep.method, entries[i].cost
                                            * (IF o.units < 1 THEN 1 ELSE o.units))
  BY <1>4, <1>5 DEF resolveCosts
<1> QED BY <1>7, <1>8 DEF entries

\* Whatever table the service returns, in whatever order, a listed endpoint is billed as
\* it is listed, and from the limiter that came with the table (resolveCosts, the sort
\* and the lock of ConfigureRateLimits).
THEOREM BilledAsListed == Spec => []ListedBilled
<1>1. ASSUME HTTPInv, NEW p \in Procs, InLimiter(p),
             NEW t, t = call[p].table, NEW o, o = call[p].offer
      PROVE  /\ t = NoTable <=> acq[p].lim \in {Own, Default}
             /\ t # NoTable => \A i \in Listed(t, o.ep) : Decisive(t, i, o.ep) =>
                   acq[p].cost = InLane(o.ep.method, Tables[t].entries[i].cost
                                                       * (IF o.units = 0 THEN 1 ELSE o.units))
  <2>1. Sound(call[p], conf) /\ Billed(call[p], acq[p]) /\ call[p].pc = "acquire"
    BY <1>1 DEF HTTPInv, Calls, InLimiter
  <2>2. acq[p].cost = Costed(t, o) /\ OwnPair(acq[p].lim, t)
    BY <1>1, <2>1 DEF Billed
  <2>3. t \in DOMAIN Tables \cup {NoTable} /\ o \in Offer
    BY <1>1, <2>1 DEF Sound, CallShape
  <2>4. ASSUME t # NoTable, NEW i \in Listed(t, o.ep), Decisive(t, i, o.ep)
        PROVE  acq[p].cost = InLane(o.ep.method, Tables[t].entries[i].cost
                                                   * (IF o.units = 0 THEN 1 ELSE o.units))
    BY <2>2, <2>3, <2>4, ListedCost
  <2> QED BY <2>2, <2>4 DEF OwnPair
<1>2. HTTPInv => ListedBilled
  BY <1>1, Zenon DEF ListedBilled
<1> QED BY <1>2, HTTPInvariant, PTL

-----------------------------------------------------------------------------
(* What a call returns.                                                    *)

\* No service, however often it says 429, is asked more than MaxRetries more times, and
\* RateLimitError is for a call that was refused each time (handleRetry).
THEOREM RetriesBounded == Spec => []RetriesExhausted
<1>1. ASSUME HTTPInv, NEW p \in Procs
      PROVE  /\ call[p].attempts <= MaxRetries + 1
             /\ call[p].result.kind = "RateLimitError" => call[p].attempts = MaxRetries + 1
             /\ call[p].pc = "backoff" => call[p].attempts <= MaxRetries
  <2>1. Sound(call[p], conf)
    BY <1>1 DEF HTTPInv, Calls
  <2>2. Counted(call[p]) /\ call[p].retries \in Nat /\ MaxRetries \in Nat
    BY <2>1, HTTPAssumption DEF Sound, CallShape
  <2> QED BY <2>2 DEF Counted
<1>2. HTTPInv => RetriesExhausted
  BY <1>1 DEF RetriesExhausted
<1> QED BY <1>2, HTTPInvariant, PTL

LEMMA MessageInBody ==
    ASSUME NEW body \in Bodies
    PROVE  LET error == newAPIError(body)
           IN  /\ "body" \in Printed(error) \/ error.message = body.message
               /\ body.form # "other" /\ body.code # "" => error.code = body.code
BY DEF Bodies, newAPIError, Printed

\* No form of an error loses the service's message (newAPIError, APIError.Error).
THEOREM MessagesKept == Spec => []MessageKept
<1>1. ASSUME HTTPInv, NEW p \in Procs, NEW r, r = call[p].result, r.kind = "APIError"
      PROVE  /\ "body" \in Printed(r.error) \/ r.error.message = r.body.message
             /\ r.body.form # "other" /\ r.body.code # "" => r.error.code = r.body.code
  <2>1. r \in Results
    BY <1>1 DEF HTTPInv, Calls, Sound, CallShape
  <2>2. PICK body \in Bodies : \E kind \in Kinds : r = Outcome(kind, body)
    BY <2>1 DEF Results
  <2>3. r.body = body /\ r.error = newAPIError(body)
    BY <2>2 DEF Outcome
  <2> QED BY <2>3, MessageInBody
<1>2. HTTPInv => MessageKept
  BY <1>1, Zenon DEF MessageKept
<1> QED BY <1>2, HTTPInvariant, PTL

-----------------------------------------------------------------------------
(* The types.                                                              *)

Phases == {"start", "config", "auto", "ready", "failed"}

\* The limiter in use was made, and so was the one that was fetched; a timer runs for
\* a goroutine that sleeps only.
LimiterMade == phase \in {"auto", "ready"} => limiter \in made
OwnMade == Given.own => Own \in made
FetchedMade ==
    \A p \in Procs : call[p].op = "costs" \/ call[p].pc = "made" => call[p].fetched \in made
Asleep == \A p \in Procs : timer[p] > 0 => acq[p].pc = "sleep" \/ call[p].pc = "backoff"

Equipped ==
    /\ left \in [Procs -> Nat] /\ phase \in Phases
    /\ LimiterMade /\ OwnMade /\ FetchedMade /\ Asleep

LEMMA MadeStays == ASSUME [BucketNext]_bucketVars PROVE made \subseteq made'
<1>1. ASSUME NEW l, NewBucket(l) \/ Status(l) \/ GetWaitTime(l) PROVE made \subseteq made'
  BY <1>1 DEF NewBucket, Status, GetWaitTime, RefillOnly
<1>2. ASSUME NEW l, NEW cost, NEW p,
             TryAcquireFails(l, cost) \/ Acquire(p, l, cost) \/ TryAcquire(p, l, cost)
      PROVE  made \subseteq made'
  BY <1>2 DEF TryAcquireFails, Acquire, TryAcquire, RefillOnly, TakeFrom, storeVars
<1>3. ASSUME NEW p,
             TryCancelled(p) \/ TryGranted(p) \/ TryWait(p) \/ Wake(p) \/ SleepCancelled(p)
      PROVE  made \subseteq made'
  BY <1>3 DEF TryCancelled, TryGranted, TryWait, Wake, SleepCancelled, RefillOnly, TakeFrom,
     storeVars
<1>4. ASSUME CallerStep \/ Tick \/ \E d \in ClockSteps : SetClock(d) PROVE made \subseteq made'
  BY <1>4 DEF CallerStep, Tick, SetClock, storeVars
<1>5. ASSUME UNCHANGED bucketVars PROVE made \subseteq made'
  BY <1>5 DEF bucketVars, storeVars
<1> QED BY <1>1, <1>2, <1>3, <1>4, <1>5 DEF BucketNext

\* A call uses up one of the calls that its goroutine may make.
LEMMA LeftKept ==
    ASSUME left \in [Procs -> Nat], [Next]_vars PROVE left' \in [Procs -> Nat]
<1>1. ASSUME NEW p \in Procs, MayCall(p), Spend(p) PROVE left' \in [Procs -> Nat]
  <2>1. left[p] - 1 \in Nat
    BY <1>1 DEF MayCall
  <2> QED BY <1>1, <2>1 DEF Spend
<1>2. ASSUME NEW p \in Procs, Method(p) \/ ConfigureRateLimits(p) \/ Direct(p)
      PROVE  left' \in [Procs -> Nat]
  BY <1>1, <1>2 DEF Method, ConfigureRateLimits, Direct
<1>3. ASSUME NEW p \in Procs, Progress(p) \/ Cancel(p) PROVE UNCHANGED left
  BY <1>3 DEF Progress, AcquireReturns, Send, BuildFails, Answer, BackoffOver, BackoffCancelled,
     MakeLimiter, FetchCosts, Install, Cancel, clientVars
<1>4. ASSUME LoadConfig \/ NewClient \/ TimePasses \/ ClockSet \/ UNCHANGED vars
      PROVE  UNCHANGED left
  BY <1>4 DEF LoadConfig, NewClient, TimePasses, ClockSet, vars, clientVars
<1> QED BY <1>2, <1>3, <1>4 DEF Next

\* Only NewClient and ConfigureRateLimits change the client's limiter.
LEMMA LimiterStays ==
    ASSUME LimiterMade, made \subseteq made', UNCHANGED limiter, UNCHANGED phase
    PROVE  LimiterMade'
BY DEF LimiterMade

LEMMA LimiterKept ==
    ASSUME HTTPInv, LimiterMade, OwnMade, FetchedMade, made \subseteq made', [Next]_vars
    PROVE  LimiterMade' /\ OwnMade'
<1>1. UNCHANGED work
  <2>1. ASSUME NEW p \in Procs,
               Progress(p) \/ Method(p) \/ ConfigureRateLimits(p) \/ Direct(p) \/ Cancel(p)
        PROVE  UNCHANGED work
    BY <2>1 DEF Progress, AcquireReturns, Send, BuildFails, Answer, BackoffOver,
       BackoffCancelled, MakeLimiter, FetchCosts, Install, Cancel, clientVars, Method,
       ConfigureRateLimits, Direct, Do
  <2> QED BY <2>1 DEF Next, LoadConfig, NewClient, TimePasses, ClockSet, vars, clientVars
<1>2. OwnMade'
  BY <1>1 DEF OwnMade, Given
<1>3. ASSUME NEW p \in Procs,
             \/ AcquireReturns(p) \/ Send(p) \/ BuildFails(p) \/ Answer(p)
             \/ BackoffOver(p) \/ BackoffCancelled(p) \/ MakeLimiter(p) \/ FetchCosts(p)
      PROVE  LimiterMade'
  <2>1. UNCHANGED limiter
    BY <1>3 DEF AcquireReturns, Send, BuildFails, Answer, BackoffOver, BackoffCancelled,
       MakeLimiter, FetchCosts, Do
  <2>2. phase' = phase \/ phase' = (IF phase = "auto" THEN "ready" ELSE phase)
    BY <1>3 DEF AcquireReturns, Send, BuildFails, Answer, handleRetry, Answered, BackoffOver,
       BackoffCancelled, MakeLimiter, FetchCosts, Finish
  <2> QED BY <2>1, <2>2 DEF LimiterMade
<1>4. ASSUME NEW p \in Procs, Install(p) PROVE LimiterMade'
  <2>1. call[p].op = "costs"
    BY <1>4 DEF Install, HTTPInv, Calls, Sound, Fetched
  <2>2. limiter' \in made
    BY <1>4, <2>1 DEF Install, FetchedMade
  <2> QED BY <2>2 DEF LimiterMade
<1>5. ASSUME NEW p \in Procs, Method(p) \/ ConfigureRateLimits(p) \/ Direct(p) \/ Cancel(p)
      PROVE  LimiterMade'
  BY <1>5, LimiterStays DEF Method, ConfigureRateLimits, Direct, Cancel, Do, clientVars
<1>6. ASSUME NEW p \in Procs, Progress(p) PROVE LimiterMade'
  BY <1>3, <1>4, <1>6, LimiterStays DEF Progress, clientVars
<1>7. LoadConfig => LimiterMade'
  BY DEF LoadConfig, LimiterMade
<1>8. NewClient => LimiterMade'
  BY DEF NewClient, NewBucket, LimiterMade, OwnMade
<1>9. TimePasses \/ ClockSet \/ UNCHANGED vars => LimiterMade'
  BY LimiterStays DEF TimePasses, ClockSet, vars, clientVars
<1> QED BY <1>2, <1>5, <1>6, <1>7, <1>8, <1>9 DEF Next

\* p goes on with call c.
LEMMA FetchedStep ==
    ASSUME FetchedMade, made \subseteq made', DOMAIN call = Procs, NEW p \in Procs, NEW c,
           call' = [call EXCEPT ![p] = c], c.op = "costs" \/ c.pc = "made" => c.fetched \in made'
    PROVE  FetchedMade'
<1>1. ASSUME NEW q \in Procs, call'[q].op = "costs" \/ call'[q].pc = "made"
      PROVE  call'[q].fetched \in made'
  <2>1. CASE q = p
    BY <1>1, <2>1
  <2>2. CASE q # p
    BY <1>1, <2>2 DEF FetchedMade
  <2> QED BY <2>1, <2>2
<1> QED BY <1>1 DEF FetchedMade

LEMMA FetchedKept ==
    ASSUME HTTPInv, FetchedMade, made \subseteq made', [Next]_vars PROVE FetchedMade'
<1>1. DOMAIN call = Procs /\ \A p \in Procs : call[p] \in CallShape
  BY DEF HTTPInv, Calls, Sound
<1>2. ASSUME NEW p \in Procs, NEW result, Finish(p, result) PROVE FetchedMade'
  <2> DEFINE c == Finished(call[p], result)
  <2>1. c.op = "none" /\ c.pc = "idle"
    BY <1>1 DEF Finished, CallShape
  <2>2. call' = [call EXCEPT ![p] = c]
    BY <1>1, <1>2 DEF Finish, Finished
  <2> HIDE DEF c
  <2> QED BY <1>1, <2>1, <2>2, FetchedStep
<1>3. ASSUME NEW p \in Procs, NEW pc, pc # "made", call' = [call EXCEPT ![p].pc = pc]
      PROVE  FetchedMade'
  <2> DEFINE c == [call[p] EXCEPT !.pc = pc]
  <2>1. c.op = call[p].op /\ c.pc # "made" /\ c.fetched = call[p].fetched
    BY <1>1, <1>3 DEF CallShape
  <2>2. call' = [call EXCEPT ![p] = c]
    BY <1>1, <1>3
  <2> HIDE DEF c
  <2>3. c.op = "costs" => c.fetched \in made'
    BY <2>1 DEF FetchedMade
  <2> QED BY <1>1, <2>1, <2>2, <2>3, FetchedStep
<1>4. ASSUME NEW p \in Procs, NEW op, NEW offer, NEW l, Do(p, op, offer, l),
             op = "costs" => l \in made
      PROVE  FetchedMade'
  <2> DEFINE c == Begun(op, offer, table, l)
  <2>1. c.op = op /\ c.pc = "acquire" /\ c.fetched = l
    BY DEF Begun, NoCall
  <2>2. call' = [call EXCEPT ![p] = c]
    BY <1>4 DEF Do, Begun
  <2> HIDE DEF c
  <2> QED BY <1>1, <1>4, <2>1, <2>2, FetchedStep
<1>5. ASSUME NEW p \in Procs, Method(p) \/ ConfigureRateLimits(p) PROVE FetchedMade'
  BY <1>4, <1>5 DEF Method, ConfigureRateLimits
<1>6. ASSUME NEW p \in Procs, FetchCosts(p) PROVE FetchedMade'
  <2>1. Do(p, "costs", ConfigCall(GetAccountEndpointCosts), call[p].fetched)
        /\ call[p].fetched \in made
    BY <1>6 DEF FetchCosts, FetchedMade
  <2> QED BY <1>4, <2>1
<1>7. ASSUME NEW p \in Procs, MakeLimiter(p) PROVE FetchedMade'
  <2>1. PICK l : NewBucket(l) /\ call' = [call EXCEPT ![p].pc = "made", ![p].fetched = l]
    BY <1>7 DEF MakeLimiter
  <2> DEFINE c == [call[p] EXCEPT !.pc = "made", !.fetched = l]
  <2>2. c.fetched = l
    BY <1>1 DEF CallShape
  <2>3. call' = [call EXCEPT ![p] = c]
    BY <1>1, <2>1
  <2>4. l \in made'
    BY <2>1 DEF NewBucket
  <2> HIDE DEF c
  <2> QED BY <1>1, <2>2, <2>3, <2>4, FetchedStep
<1>8. ASSUME NEW p \in Procs, AcquireReturns(p) \/ BuildFails(p) \/ BackoffCancelled(p) \/ Install(p)
      PROVE  FetchedMade'
  BY <1>2, <1>3, <1>8 DEF AcquireReturns, BuildFails, BackoffCancelled, Install
<1>9. ASSUME NEW p \in Procs, Answer(p) PROVE FetchedMade'
  <2>1. call[p].op # "made"
    BY <1>1 DEF CallShape, Operations
  <2> QED BY <1>2, <1>3, <1>9, <2>1 DEF Answer, handleRetry, Answered
<1>10. ASSUME NEW p \in Procs, Send(p) PROVE FetchedMade'
  <2> DEFINE c == [call[p] EXCEPT !.pc = "answer", !.attempts = @ + 1,
                                  !.sent = Request(conf, call[p].offer)]
  <2>1. c.op = call[p].op /\ c.pc = "answer" /\ c.fetched = call[p].fetched
    BY <1>1 DEF CallShape
  <2>2. call' = [call EXCEPT ![p] = c]
    BY <1>1, <1>10 DEF Send
  <2> HIDE DEF c
  <2> QED BY <1>1, <2>1, <2>2, FetchedStep DEF FetchedMade
<1>11. ASSUME NEW p \in Procs, BackoffOver(p) PROVE FetchedMade'
  <2> DEFINE c == [call[p] EXCEPT !.pc = "build", !.retries = @ + 1]
  <2>1. c.op = call[p].op /\ c.pc = "build" /\ c.fetched = call[p].fetched
    BY <1>1 DEF CallShape
  <2>2. call' = [call EXCEPT ![p] = c]
    BY <1>1, <1>11 DEF BackoffOver
  <2> HIDE DEF c
  <2> QED BY <1>1, <2>1, <2>2, FetchedStep DEF FetchedMade
<1>12. UNCHANGED call => FetchedMade'
  BY DEF FetchedMade
<1>13. ASSUME NEW p \in Procs, Progress(p) \/ Direct(p) \/ Cancel(p) PROVE FetchedMade'
  BY <1>6, <1>7, <1>8, <1>9, <1>10, <1>11, <1>12, <1>13 DEF Progress, Direct, Cancel, clientVars
<1>14. LoadConfig \/ NewClient \/ TimePasses \/ ClockSet \/ UNCHANGED vars => UNCHANGED call
  BY DEF LoadConfig, NewClient, TimePasses, ClockSet, vars, clientVars
<1> QED BY <1>5, <1>12, <1>13, <1>14 DEF Next

\* The other goroutines' timers run on, and p's is stopped or p sleeps.
AsleepAt(p) == timer[p] > 0 => acq[p].pc = "sleep" \/ call[p].pc = "backoff"
Undisturbed(q) == timer'[q] = timer[q] /\ acq'[q].pc = acq[q].pc /\ call'[q].pc = call[q].pc

LEMMA AsleepStep ==
    ASSUME Asleep, \A q \in Procs : Undisturbed(q) \/ AsleepAt(q)' PROVE Asleep'
BY DEF Asleep, Undisturbed, AsleepAt

\* Whoever neither sleeps in the limiter nor backs off has no timer running.
LEMMA NoTimer ==
    ASSUME HTTPInv, Asleep, NEW p \in Procs, acq[p].pc # "sleep", call[p].pc # "backoff"
    PROVE  timer[p] = 0
<1>1. timer[p] \in Nat
  BY DEF HTTPInv, BucketTypeOK
<1> QED BY <1>1 DEF Asleep

LEMMA BucketAsleep ==
    ASSUME HTTPInv, Asleep, UNCHANGED clientVars,
           \/ \E p \in Procs : TryCancelled(p) \/ TryGranted(p) \/ TryWait(p) \/ Wake(p)
                               \/ SleepCancelled(p)
           \/ Tick \/ \E d \in ClockSteps : SetClock(d)
    PROVE  Asleep'
<1>1. acq \in [Procs -> AcquireState] /\ timer \in [Procs -> Nat] /\ call' = call
  BY DEF HTTPInv, BucketTypeOK, clientVars
<1>2. ASSUME NEW p \in Procs, TryCancelled(p) PROVE Asleep'
  <2>1. timer[p] = 0
    BY <1>1, <1>2, NoTimer DEF TryCancelled, HTTPInv, Calls, Billed
  <2> QED BY <1>1, <1>2, <2>1, AsleepStep DEF TryCancelled, Undisturbed, AsleepAt
<1>3. ASSUME NEW p \in Procs, TryGranted(p) PROVE Asleep'
  <2>1. timer[p] = 0 /\ timer' = timer
    BY <1>1, <1>3, NoTimer DEF TryGranted, HTTPInv, Calls, Billed
  <2>2. \A q \in Procs \ {p} : acq'[q].pc = acq[q].pc
    BY <1>1, <1>3 DEF TryGranted, Disturb, AcquireState
  <2>3. AsleepAt(p)'
    BY <2>1 DEF AsleepAt
  <2> QED BY <1>1, <2>1, <2>2, <2>3, AsleepStep DEF Undisturbed
<1>4. ASSUME NEW p \in Procs, TryWait(p) PROVE Asleep'
  <2> DEFINE wait == calculateWaitTime(acq[p].lim, Refilled(acq[p].lim), acq[p].cost)
  <2>1. /\ timer' = [timer EXCEPT ![p] = wait]
        /\ acq' = [acq EXCEPT ![p].pc = IF wait = 0 THEN "granted" ELSE "sleep",
                              ![p].calm = ~(Clock < lastRefill[acq[p].lim])]
    BY <1>4 DEF TryWait
  <2> HIDE DEF wait
  <2>2. \A q \in Procs \ {p} : timer'[q] = timer[q] /\ acq'[q] = acq[q]
    BY <1>1, <2>1
  <2>3. timer'[p] = wait /\ acq'[p].pc = (IF wait = 0 THEN "granted" ELSE "sleep")
    BY <1>1, <2>1 DEF AcquireState
  <2>4. AsleepAt(p)'
    BY <2>3 DEF AsleepAt
  <2> QED BY <1>1, <2>2, <2>4, AsleepStep DEF Undisturbed
<1>5. ASSUME NEW p \in Procs, Wake(p) PROVE Asleep'
  BY <1>1, <1>5, AsleepStep DEF Wake, Undisturbed, AsleepAt
<1>6. ASSUME NEW p \in Procs, SleepCancelled(p) PROVE Asleep'
  BY <1>1, <1>6, AsleepStep DEF SleepCancelled, Undisturbed, AsleepAt
<1>7. CASE Tick
  <2>1. \A q \in Procs : acq'[q] = acq[q] /\ timer'[q] = Greatest(timer[q] - 1, 0)
                         /\ timer[q] \in Nat
    BY <1>1, <1>7 DEF Tick
  <2>2. \A q \in Procs : timer'[q] > 0 => timer[q] > 0
    BY <2>1 DEF Greatest
  <2> QED BY <1>1, <2>1, <2>2 DEF Asleep
<1>8. ASSUME NEW d \in ClockSteps, SetClock(d) PROVE Asleep'
  <2>1. \A q \in Procs : acq'[q].pc = acq[q].pc /\ timer'[q] = timer[q]
    BY <1>1, <1>8 DEF SetClock, AcquireState
  <2> QED BY <1>1, <2>1, AsleepStep DEF Undisturbed
<1> QED BY <1>2, <1>3, <1>4, <1>5, <1>6, <1>7, <1>8

\* A step of p in a call: its timer is stopped, or it backs off.
LEMMA CallAsleep ==
    ASSUME HTTPInv, Asleep, NEW p \in Procs,
           \A q \in Procs \ {p} : timer'[q] = timer[q] /\ acq'[q] = acq[q],
           NEW c, call' = [call EXCEPT ![p] = c],
           timer'[p] = 0 \/ c.pc = "backoff"
    PROVE  Asleep'
<1>1. DOMAIN call = Procs
  BY DEF HTTPInv, Calls
<1>2. call'[p] = c /\ \A q \in Procs \ {p} : call'[q] = call[q]
  BY <1>1
<1>3. AsleepAt(p)'
  BY <1>2 DEF AsleepAt
<1> QED BY <1>2, <1>3, AsleepStep DEF Undisturbed

LEMMA AsleepKept == ASSUME HTTPInv, Asleep, [Next]_vars PROVE Asleep'
<1>1. /\ acq \in [Procs -> AcquireState] /\ timer \in [Procs -> Nat]
      /\ DOMAIN call = Procs /\ \A p \in Procs : call[p] \in CallShape
  BY DEF HTTPInv, BucketTypeOK, Calls, Sound
<1>2. ASSUME NEW p \in Procs, NEW op, NEW offer, NEW l, Do(p, op, offer, l),
             call[p].pc # "backoff"
      PROVE  Asleep'
  <2>1. timer[p] = 0 /\ timer' = timer /\ \A q \in Procs \ {p} : acq'[q] = acq[q]
    BY <1>1, <1>2, NoTimer DEF Do, Acquire
  <2>2. call' = [call EXCEPT ![p] = Begun(op, offer, table, l)]
    BY <1>2 DEF Do, Begun
  <2> QED BY <2>1, <2>2, CallAsleep
<1>3. ASSUME NEW p \in Procs, Method(p) \/ ConfigureRateLimits(p) PROVE Asleep'
  <2>1. call[p].pc # "backoff"
    BY <1>3 DEF Method, ConfigureRateLimits, MayCall, HTTPInv, Calls, Sound
  <2> QED BY <1>2, <1>3, <2>1 DEF Method, ConfigureRateLimits
<1>4. ASSUME NEW p \in Procs, FetchCosts(p) PROVE Asleep'
  BY <1>2, <1>4 DEF FetchCosts
<1>5. ASSUME NEW p \in Procs, NEW result, Finish(p, result), timer'[p] = 0,
             \A q \in Procs \ {p} : timer'[q] = timer[q] /\ acq'[q] = acq[q]
      PROVE  Asleep'
  <2>1. call' = [call EXCEPT ![p] = Finished(call[p], result)]
    BY <1>1, <1>5 DEF Finish, Finished
  <2> QED BY <1>5, <2>1, CallAsleep
<1>6. ASSUME NEW p \in Procs, NEW pc, call' = [call EXCEPT ![p].pc = pc],
             timer'[p] = 0 \/ pc = "backoff",
             \A q \in Procs \ {p} : timer'[q] = timer[q] /\ acq'[q] = acq[q]
      PROVE  Asleep'
  <2> DEFINE c == [call[p] EXCEPT !.pc = pc]
  <2>1. c.pc = pc /\ call' = [call EXCEPT ![p] = c]
    BY <1>1, <1>6 DEF CallShape
  <2> HIDE DEF c
  <2> QED BY <1>6, <2>1, CallAsleep
<1>7. ASSUME NEW p \in Procs, call[p].pc \in {"build", "answer", "limits", "costs"}
      PROVE  timer[p] = 0
  BY <1>1, <1>7, NoTimer DEF HTTPInv, Calls, Billed, AcquireState
<1>8. ASSUME NEW p \in Procs, AcquireReturns(p) PROVE Asleep'
  <2>1. PICK outcome \in {"granted", "refused"} : Collect(p, outcome)
    BY <1>8 DEF AcquireReturns
  <2>2. timer[p] = 0 /\ timer' = timer /\ \A q \in Procs \ {p} : acq'[q] = acq[q]
    BY <1>1, <1>8, <2>1, NoTimer DEF AcquireReturns, Collect
  <2> QED BY <1>5, <1>6, <1>8, <2>2 DEF AcquireReturns
<1>9. ASSUME NEW p \in Procs, BuildFails(p) \/ Install(p) PROVE Asleep'
  BY <1>5, <1>7, <1>9 DEF BuildFails, Install
<1>10. ASSUME NEW p \in Procs, BackoffCancelled(p) PROVE Asleep'
  <2>1. timer'[p] = 0 /\ \A q \in Procs \ {p} : timer'[q] = timer[q] /\ acq'[q] = acq[q]
    BY <1>1, <1>10 DEF BackoffCancelled
  <2> QED BY <1>5, <1>10, <2>1 DEF BackoffCancelled
<1>11. ASSUME NEW p \in Procs, Answer(p) PROVE Asleep'
  <2>1. timer[p] = 0 /\ UNCHANGED acq
    BY <1>7, <1>11 DEF Answer
  <2>2. CASE handleRetry(p)
    <3> DEFINE n == BaseDelay * 2^Least(call[p].retries, 30)
    <3>1. \/ UNCHANGED timer /\ Finish(p, Plain("RateLimitError"))
          \/ timer' = [timer EXCEPT ![p] = n] /\ call' = [call EXCEPT ![p].pc = "backoff"]
      BY <2>2 DEF handleRetry
    <3> HIDE DEF n
    <3> QED BY <1>1, <1>5, <1>6, <2>1, <3>1
  <2>3. CASE UNCHANGED timer /\ Answered(p)
    BY <1>5, <1>6, <2>1, <2>3 DEF Answered
  <2>4. CASE UNCHANGED timer /\ \E result : Finish(p, result)
    BY <1>5, <2>1, <2>4
  <2> QED BY <1>11, <2>2, <2>3, <2>4 DEF Answer
<1>12. ASSUME NEW p \in Procs, Send(p) PROVE Asleep'
  <2>1. call' = [call EXCEPT ![p] = [call[p] EXCEPT !.pc = "answer", !.attempts = @ + 1,
                                                   !.sent = Request(conf, call[p].offer)]]
    BY <1>1, <1>12 DEF Send
  <2>2. timer[p] = 0 /\ UNCHANGED <<timer, acq>>
    BY <1>7, <1>12 DEF Send, bucketVars
  <2> QED BY <2>1, <2>2, CallAsleep
<1>13. ASSUME NEW p \in Procs, BackoffOver(p) PROVE Asleep'
  <2>1. call' = [call EXCEPT ![p] = [call[p] EXCEPT !.pc = "build", !.retries = @ + 1]]
    BY <1>1, <1>13 DEF BackoffOver
  <2>2. timer[p] = 0 /\ UNCHANGED <<timer, acq>>
    BY <1>13 DEF BackoffOver, bucketVars
  <2> QED BY <2>1, <2>2, CallAsleep
<1>14. ASSUME NEW p \in Procs, MakeLimiter(p) PROVE Asleep'
  <2>1. PICK l : call' = [call EXCEPT ![p].pc = "made", ![p].fetched = l]
    BY <1>14 DEF MakeLimiter
  <2>2. call' = [call EXCEPT ![p] = [call[p] EXCEPT !.pc = "made", !.fetched = l]]
    BY <1>1, <2>1
  <2>3. timer[p] = 0 /\ UNCHANGED <<timer, acq>>
    BY <1>7, <1>14 DEF MakeLimiter
  <2> QED BY <2>2, <2>3, CallAsleep
<1>15. ASSUME UNCHANGED call, \A q \in Procs : timer'[q] = timer[q] /\ acq'[q].pc = acq[q].pc
       PROVE  Asleep'
  BY <1>15, AsleepStep DEF Undisturbed
<1>16. ASSUME NEW p \in Procs, Direct(p) PROVE Asleep'
  <2>1. UNCHANGED <<call, timer>>
    BY <1>16 DEF Direct, Status, GetWaitTime, TryAcquire, TryAcquireFails
  <2>2. UNCHANGED acq \/ \E l : Disturb(l, p, acq[p])
    BY <1>16 DEF Direct, Status, GetWaitTime, TryAcquire, TryAcquireFails
  <2>3. \A q \in Procs : acq'[q].pc = acq[q].pc
    BY <1>1, <2>2 DEF Disturb, AcquireState
  <2> QED BY <1>15, <2>1, <2>3
<1>17. LoadConfig \/ NewClient \/ (\E p \in Procs : Cancel(p)) \/ UNCHANGED vars =>
         UNCHANGED <<call, timer, acq>>
  BY DEF LoadConfig, NewClient, Cancel, vars, clientVars, bucketVars
<1>18. TimePasses \/ ClockSet => Asleep'
  BY BucketAsleep DEF TimePasses, ClockSet
<1>19. ASSUME NEW p \in Procs, Progress(p) PROVE Asleep'
  BY <1>4, <1>8, <1>9, <1>10, <1>11, <1>12, <1>13, <1>14, <1>19, BucketAsleep DEF Progress
<1> QED BY <1>3, <1>15, <1>16, <1>17, <1>18, <1>19 DEF Next

LEMMA PhaseKept == ASSUME phase \in Phases, [Next]_vars PROVE phase' \in Phases
<1>1. ASSUME NEW p \in Procs, Progress(p)
      PROVE  phase' = phase \/ phase' = (IF phase = "auto" THEN "ready" ELSE phase)
  BY <1>1 DEF Progress, AcquireReturns, Send, BuildFails, Answer, handleRetry, Answered,
     BackoffOver, BackoffCancelled, MakeLimiter, FetchCosts, Install, Finish, clientVars
<1>2. ASSUME NEW p \in Procs, Method(p) \/ ConfigureRateLimits(p) \/ Direct(p) \/ Cancel(p)
      PROVE  phase' = phase
  BY <1>2 DEF Method, ConfigureRateLimits, Direct, Cancel, clientVars
<1>3. LoadConfig \/ NewClient => phase' \in Phases
  BY DEF LoadConfig, NewClient, Phases
<1>4. TimePasses \/ ClockSet \/ UNCHANGED vars => phase' = phase
  BY DEF TimePasses, ClockSet, vars, clientVars
<1> QED BY <1>1, <1>2, <1>3, <1>4 DEF Next, Phases

LEMMA EquippedInit == ASSUME Init PROVE Equipped
<1>1. Given \in Workload
  BY HTTPAssumption DEF Init, Given
<1>2. left \in [Procs -> Nat] /\ phase \in Phases
  BY <1>1 DEF Init, Workload, Phases
<1>3. LimiterMade /\ OwnMade
  BY DEF Init, LimiterMade, OwnMade
<1>4. FetchedMade
  BY DEF Init, FetchedMade, NoCall
<1>5. Asleep
  BY DEF Init, BucketInit, Asleep
<1> QED BY <1>2, <1>3, <1>4, <1>5 DEF Equipped

LEMMA EquippedStep == ASSUME HTTPInv, Equipped, [Next]_vars PROVE Equipped'
<1>1. made \subseteq made'
  BY NextKept, MadeStays
<1>2. /\ left \in [Procs -> Nat] /\ phase \in Phases
      /\ LimiterMade /\ OwnMade /\ FetchedMade /\ Asleep
  BY DEF Equipped
<1>3. left' \in [Procs -> Nat] /\ phase' \in Phases
  BY <1>2, LeftKept, PhaseKept
<1>4. LimiterMade' /\ OwnMade' /\ FetchedMade'
  BY <1>1, <1>2, LimiterKept, FetchedKept
<1>5. Asleep'
  BY <1>2, AsleepKept
<1> QED BY <1>3, <1>4, <1>5 DEF Equipped

\* Where a request goes and whose key signs it.
LEMMA ConfigTexts ==
    ASSUME NEW c \in Confs, c.ok
    PROVE  /\ BaseURL(c) \in Environments \cup {"override", ""}
           /\ c.key \in Environments \cup {""}
<1>1. CASE \E s \in Settings : c = NewClientConfig(s)
  <2>1. PICK s \in Settings : c = NewClientConfig(s)
    BY <1>1
  <2> DEFINE env == IF s.env = "PROD" THEN "prod" ELSE "demo"
  <2>2. env \in Environments /\ BaseForEnv(env) = env /\ env # ""
    BY DEF Environments, BaseForEnv
  <2>3. c.key = env /\ c.http = (IF s.httpURL THEN "override" ELSE BaseForEnv(env))
    BY <2>1 DEF NewClientConfig, Failed
  <2> HIDE DEF env
  <2> QED BY <2>2, <2>3 DEF BaseURL
<1>2. CASE \E h \in HandMade : c = Written(h)
  <2>1. PICK h \in HandMade : c = Written(h)
    BY <1>2
  <2>2. c.key = h.key /\ c.env = h.env /\ c.http = h.http
    BY <2>1 DEF Written, Failed
  <2>3. h.http \in {"", "override"} /\ h.key \in Environments
    BY DEF HandMade
  <2> QED BY <2>2, <2>3 DEF BaseURL, BaseForEnv
<1>3. CASE c = Failed
  BY <1>3 DEF Failed
<1> QED BY <1>1, <1>2, <1>3 DEF Confs

LEMMA ConfigVerdict == ASSUME NEW c \in Confs PROVE c.ok \in BOOLEAN
<1>1. Failed.ok \in BOOLEAN
  BY DEF Failed
<1>2. ASSUME NEW s PROVE NewClientConfig(s).ok \in BOOLEAN
  BY <1>1 DEF NewClientConfig
<1>3. ASSUME NEW h PROVE Written(h).ok \in BOOLEAN
  BY <1>1 DEF Written
<1> QED BY <1>1, <1>2, <1>3 DEF Confs

LEMMA RequestType == ASSUME NEW r \in Requests PROVE r \in SentRequest
<1>1. CASE r = Unsent
  BY <1>1 DEF Unsent, SentRequest
<1>2. CASE r # Unsent
  <2>1. PICK c \in {d \in Confs : d.ok}, o \in Offer : r = Request(c, o)
    BY <1>2 DEF Requests
  <2>2. /\ BaseURL(c) \in Environments \cup {"override", ""}
        /\ c.key \in Environments \cup {""}
    BY ConfigTexts
  <2>3. o.ep \in AllEndpoints
    BY DEF Offer
  <2>4. QuerySent(o.ep.query, o.arg) \subseteq Parameters
    BY <2>3 DEF QuerySent, Parameters
  <2>5. <<o.ep.method, o.ep.path>> \in {<<ep.method, ep.path>> : ep \in AllEndpoints}
    BY <2>3
  <2> QED BY <2>1, <2>2, <2>4, <2>5 DEF Request, RequestHeaders, SentRequest
<1> QED BY <1>1, <1>2

LEMMA ResultType ==
    ASSUME NEW r \in Results
    PROVE  r \in [kind : Kinds, body : Bodies,
                  error : [code : {"", "code"}, message : {"", "message"}]]
<1>1. PICK kind \in Kinds, body \in Bodies : r = Outcome(kind, body)
  BY DEF Results
<1>2. newAPIError(body) \in [code : {"", "code"}, message : {"", "message"}]
  BY DEF newAPIError, Bodies
<1> QED BY <1>1, <1>2 DEF Outcome

LEMMA CallType == ASSUME NEW c \in CallShape PROVE c \in CallState
<1>1. c.sent \in SentRequest
  BY RequestType DEF CallShape
<1>2. c.result \in [kind : Kinds, body : Bodies,
                    error : [code : {"", "code"}, message : {"", "message"}]]
  BY ResultType DEF CallShape
<1> QED BY <1>1, <1>2 DEF CallShape, CallState, Operations, Points, Kinds

LEMMA TypesHold == ASSUME HTTPInv, Equipped PROVE TypeOK
<1>1. call \in [Procs -> CallState]
  <2>1. call = [p \in Procs |-> call[p]] /\ \A p \in Procs : call[p] \in CallShape
    BY DEF HTTPInv, Calls, Sound
  <2>2. \A p \in Procs : call[p] \in CallState
    BY <2>1, CallType
  <2> QED BY <2>1, <2>2
<1>2. /\ work \in DOMAIN Workloads /\ conf.ok \in BOOLEAN
      /\ limiter \in Limiters /\ table \in DOMAIN Tables \cup {NoTable}
  BY ConfigVerdict DEF HTTPInv, Settled
<1>3. \A p \in Procs :
         /\ (acq[p].pc # "idle") <=> (call[p].pc = "acquire")
         /\ timer[p] > 0 => acq[p].pc = "sleep" \/ call[p].pc = "backoff"
  BY DEF HTTPInv, Calls, Billed, Equipped, Asleep
<1>4. BucketTypeOK
  BY DEF HTTPInv
<1>5. /\ phase \in {"start", "config", "auto", "ready", "failed"} /\ left \in [Procs -> Nat]
      /\ phase = "ready" => limiter \in made
  BY DEF Equipped, Phases, LimiterMade
<1> QED BY <1>1, <1>2, <1>3, <1>4, <1>5 DEF TypeOK

\* Whatever the goroutines do at the same time: a ready client has a limiter that was
\* made (NewClient, ConfigureRateLimits), a goroutine is in the limiter where do waits for
\* it and nowhere else, a timer runs only while Acquire sleeps or handleRetry backs off, and
\* the requests that go out name a host, a key and parameters that the client knows.
THEOREM ClientTypes == Spec => []TypeOK
<1>1. Init => Equipped
  BY EquippedInit
<1>2. HTTPInv /\ Equipped /\ [Next]_vars => Equipped'
  BY EquippedStep
<1>3. HTTPInv /\ Equipped => TypeOK
  BY TypesHold
<1> QED BY <1>1, <1>2, <1>3, HTTPInvariant, PTL DEF Spec
=============================================================================
