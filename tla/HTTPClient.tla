----------------------------- MODULE HTTPClient -----------------------------
(***************************************************************************)
(* The HTTP client (src/client.go) on its token buckets: how it is         *)
(* configured and made, the goroutines that call its REST methods or       *)
(* refresh its limits at the same time, and the service that answers.      *)
(*                                                                         *)
(* An action stands for what a goroutine does from one blocking point (the *)
(* limiter, the service, a timer, the client's mutex) to the next.         *)
(***************************************************************************)
EXTENDS TokenBucket, EndpointCosts, Configuration

CONSTANTS Main,          \* the goroutine that makes the client
          Own, Default,  \* the user's limiter; the one NewClient starts with
          Tables,        \* the cost tables that the service may return
          Workloads,     \* what the program around the client may do
          MaxRetries, BaseDelay

\* What may come of a request besides a good answer: a body that does not parse, a
\* status of 400 or above, a 429, no answer, no request.
Faults == {"garbled", "error", "limited", "lost", "unsent"}

\* One call: a method, the number of its items, how its parameters are given.
Offer == [ep : AllEndpoints, units : Nat, arg : Arguments]

\* DefaultTokenBucketConfig, in tokens for a tenth of a second.
DefaultTokenBucketConfig == [rate |-> [read |-> 20, write |-> 10],
                             cap |-> [read |-> 200, write |-> 100]]

\* A workload: does the user bring a limiter; the settings, or the configurations
\* that it writes itself; which calls a goroutine may make and how many, refreshes
\* and direct uses of the limiter included; who may refresh the limits; may contexts
\* end, may the clock be set and time pass while nobody waits; what may go wrong.
Workload == [own : BOOLEAN, settings : SUBSET Settings, written : SUBSET HandMade,
             offers : [Procs -> SUBSET Offer], calls : [Procs -> Nat],
             refresh : SUBSET Procs, cancel : BOOLEAN, drift : BOOLEAN,
             faults : SUBSET Faults]

NoTable == "none"

ASSUME HTTPAssumption ==
    /\ Main \in Procs /\ {Own, Default} \subseteq Limiters /\ Own # Default
    /\ Config[Default] = DefaultTokenBucketConfig
    /\ MaxRetries \in Nat /\ BaseDelay \in Nat
    /\ NoTable \notin DOMAIN Tables
    /\ \A t \in DOMAIN Tables :
          Tables[t].default \in Nat /\ Tables[t].entries \in Seq(TableEntry)
    /\ \A w \in DOMAIN Workloads : Workloads[w] \in Workload

VARIABLES work,          \* the name of the workload
          phase,         \* of Main: "start", "config", "auto", "ready", "failed"
          conf,          \* the ClientConfig
          limiter, table,\* the client's limiter; the name of its cost table, if any
          call,          \* call[p]: the request that p is in
          left           \* left[p]: the calls that p may still make

clientVars == <<work, phase, conf, limiter, table, call, left>>
vars == <<bucketVars, clientVars>>

Given == Workloads[work]

\* c.costRoutes and c.defaultCost.
CostRoutes == [t \in DOMAIN Tables |-> Routes(Tables[t].entries)]
Costed(t, o) ==
    IF t = NoTable THEN resolveCosts(FALSE, <<>>, 0, o.ep, o.units)
    ELSE resolveCosts(TRUE, CostRoutes[t], Tables[t].default, o.ep, o.units)

\* What a call returns; an APIError is made of the body of the answer.
Outcome(kind, body) == [kind |-> kind, body |-> body, error |-> newAPIError(body)]
Plain(kind) == Outcome(kind, [form |-> "other", code |-> "", message |-> ""])

\* An attempt, as the service sees it.
Request(config, o) ==
    [host |-> BaseURL(config), headers |-> RequestHeaders(config, o.ep.method, o.ep.path),
     query |-> QuerySent(o.ep.query, o.arg)]
Unsent == [host |-> "", headers |-> [key |-> "", signed |-> <<"", <<>>>>], query |-> {}]

ConfigCall(ep) == [ep |-> ep, units |-> 1, arg |-> "unset"]
NoCall == [op |-> "none", pc |-> "idle", offer |-> ConfigCall(GetAccountAPILimits),
           table |-> NoTable, retries |-> 0, attempts |-> 0, sent |-> Unsent,
           fetched |-> Default, result |-> Plain("none")]

-----------------------------------------------------------------------------
(* Making the client.                                                      *)

LoadConfig ==
    /\ phase = "start"
    /\ \/ \E s \in Given.settings : conf' = NewClientConfig(s)
       \/ \E h \in Given.written : conf' = Written(h)
    /\ phase' = IF conf'.ok THEN "config" ELSE "failed"
    /\ UNCHANGED <<bucketVars, work, limiter, table, call, left>>

\* NewClient, up to its call of ConfigureRateLimits.
NewClient ==
    /\ phase = "config"
    /\ NewBucket(Default)
    /\ limiter' = IF Given.own THEN Own ELSE Default
    /\ phase' = IF Given.own THEN "ready" ELSE "auto"
    /\ UNCHANGED <<clockVars, acq, timer, ctxDone, work, conf, table, call, left>>

-----------------------------------------------------------------------------
(* do: every request of a method or of ConfigureRateLimits.                *)

\* The costs and the limiter are read under the lock, together.
Do(p, op, offer, fetched) ==
    /\ Acquire(p, limiter, Costed(table, offer))
    /\ call' = [call EXCEPT ![p] = [NoCall EXCEPT !.op = op, !.pc = "acquire",
                    !.offer = offer, !.table = table, !.fetched = fetched]]
    /\ UNCHANGED <<work, conf, limiter, table>>

\* do, or what called it, returns.  NewClient goes on whatever came out.
Finish(p, result) ==
    /\ call' = [call EXCEPT ![p].op = "none", ![p].pc = "idle", ![p].result = result]
    /\ phase' = IF phase = "auto" THEN "ready" ELSE phase
    /\ ctxDone' = [ctxDone EXCEPT ![p] = FALSE]

AcquireReturns(p) ==
    /\ call[p].pc = "acquire"
    /\ \/ /\ Collect(p, "granted")
          /\ call' = [call EXCEPT ![p].pc = "build"]
          /\ UNCHANGED <<phase, ctxDone>>
       \/ Collect(p, "refused") /\ Finish(p, Plain("failed"))
    /\ UNCHANGED <<timer, work, conf, limiter, table, left>>

\* buildAuthRequest and the sending half of executeRequest.
Send(p) ==
    /\ call[p].pc = "build"
    /\ call' = [call EXCEPT ![p].pc = "answer", ![p].attempts = @ + 1,
                                    ![p].sent = Request(conf, call[p].offer)]
    /\ UNCHANGED <<bucketVars, work, phase, conf, limiter, table, left>>

\* The body cannot be marshalled, or the request cannot be signed.
BuildFails(p) ==
    /\ call[p].pc = "build" /\ "unsent" \in Given.faults
    /\ Finish(p, Plain("failed"))
    /\ UNCHANGED <<storeVars, clockVars, acq, timer, work, conf, limiter, table, left>>

\* Mutated: one retry too many.
handleRetry_Late(p) ==
    \/ /\ call[p].retries > MaxRetries
       /\ Finish(p, Plain("RateLimitError"))
       /\ UNCHANGED timer
    \/ /\ call[p].retries <= MaxRetries
       /\ call' = [call EXCEPT ![p].pc = "backoff"]
       /\ timer' = [timer EXCEPT ![p] = BaseDelay * 2^Least(call[p].retries, 30)]
       /\ UNCHANGED <<phase, ctxDone>>

\* handleRetry.
handleRetry(p) ==
    \/ /\ call[p].retries >= MaxRetries
       /\ Finish(p, Plain("RateLimitError"))
       /\ UNCHANGED timer
    \/ /\ call[p].retries < MaxRetries
       /\ call' = [call EXCEPT ![p].pc = "backoff"]
       /\ timer' = [timer EXCEPT ![p] = BaseDelay * 2^Least(call[p].retries, 30)]
       /\ UNCHANGED <<phase, ctxDone>>

\* The answer to an attempt: what do, doJSON and the method make of it.  The two
\* requests of ConfigureRateLimits go on where its op says.
Answered(p) ==
    IF call[p].op = "method" THEN Finish(p, Plain("ok"))
    ELSE call' = [call EXCEPT ![p].pc = call[p].op] /\ UNCHANGED <<phase, ctxDone>>

Answer(p) ==
    /\ call[p].pc = "answer"
    /\ \/ "limited" \in Given.faults /\ handleRetry(p)
       \/ /\ UNCHANGED timer
          /\ \/ Answered(p)
             \/ "error" \in Given.faults /\ \E b \in Bodies : Finish(p, Outcome("APIError", b))
             \/ /\ Given.faults \cap {"garbled", "lost"} # {} \/ ctxDone[p]
                /\ Finish(p, Plain("failed"))
    /\ UNCHANGED <<storeVars, clockVars, acq, work, conf, limiter, table, left>>

\* The backoff of handleRetry ends; a retry takes no tokens.
BackoffOver(p) ==
    /\ call[p].pc = "backoff" /\ timer[p] = 0
    /\ call' = [call EXCEPT ![p].pc = "build", ![p].retries = @ + 1]
    /\ UNCHANGED <<bucketVars, work, phase, conf, limiter, table, left>>

BackoffCancelled(p) ==
    /\ call[p].pc = "backoff" /\ ctxDone[p]
    /\ Finish(p, Plain("failed"))
    /\ timer' = [timer EXCEPT ![p] = 0]
    /\ UNCHANGED <<storeVars, clockVars, acq, work, conf, limiter, table, left>>

-----------------------------------------------------------------------------
(* The calls.                                                              *)

\* p has nothing to do and may make a call.
MayCall(p) == phase = "ready" /\ call[p].op = "none" /\ left[p] > 0
Spend(p) == left' = [left EXCEPT ![p] = @ - 1]

Method(p) ==
    /\ MayCall(p) /\ Spend(p)
    /\ \E offer \in Given.offers[p] : Do(p, "method", offer, Default)
    /\ UNCHANGED phase

\* ConfigureRateLimits, by NewClient or by the program: ask for the limits, make a
\* limiter of them, ask for the costs, and install both under the lock.
ConfigureRateLimits(p) ==
    /\ \/ phase = "auto" /\ p = Main /\ call[p].op = "none" /\ UNCHANGED left
       \/ p \in Given.refresh /\ MayCall(p) /\ Spend(p)
    /\ Do(p, "limits", ConfigCall(GetAccountAPILimits), Default)
    /\ UNCHANGED phase

MakeLimiter(p) ==
    /\ call[p].pc = "limits"
    /\ \E l \in Limiters \ {Own, Default} :
          NewBucket(l) /\ call' = [call EXCEPT ![p].pc = "made", ![p].fetched = l]
    /\ UNCHANGED <<clockVars, acq, timer, ctxDone, work, phase, conf, limiter, table, left>>

FetchCosts(p) ==
    /\ call[p].pc = "made"
    /\ Do(p, "costs", ConfigCall(GetAccountEndpointCosts), call[p].fetched)
    /\ UNCHANGED <<phase, left>>

Install(p) ==
    /\ call[p].pc = "costs"
    /\ limiter' = call[p].fetched
    /\ table' \in DOMAIN Tables
    /\ Finish(p, Plain("ok"))
    /\ UNCHANGED <<storeVars, clockVars, acq, timer, work, conf, left>>

\* The program uses the limiter it brought: TryAcquire, GetWaitTime, Status.
Direct(p) ==
    /\ MayCall(p) /\ Given.own /\ Spend(p)
    /\ \/ Status(Own) \/ GetWaitTime(Own)
       \/ \E offer \in Given.offers[p] :
             TryAcquire(p, Own, Costed(NoTable, offer)) \/ TryAcquireFails(Own, Costed(NoTable, offer))
    /\ UNCHANGED <<work, phase, conf, limiter, table, call>>

\* The context of p's call ends; NewClient's after ten seconds.
Cancel(p) ==
    /\ Given.cancel /\ call[p].op # "none" /\ ~ctxDone[p]
    /\ ctxDone' = [ctxDone EXCEPT ![p] = TRUE]
    /\ UNCHANGED <<storeVars, clockVars, acq, timer, clientVars>>

-----------------------------------------------------------------------------
Init ==
    /\ work \in DOMAIN Workloads
    /\ BucketInit(Own) /\ made = IF Given.own THEN {Own} ELSE {}
    /\ phase = "start" /\ conf = Failed
    /\ limiter = Default /\ table = NoTable
    /\ call = [p \in Procs |-> NoCall]
    /\ left = Given.calls

\* What a goroutine does without being asked again.
Progress(p) ==
    \/ TryCancelled(p) /\ UNCHANGED clientVars
    \/ TryGranted(p) /\ UNCHANGED clientVars
    \/ TryWait(p) /\ UNCHANGED clientVars
    \/ Wake(p) /\ UNCHANGED clientVars
    \/ SleepCancelled(p) /\ UNCHANGED clientVars
    \/ AcquireReturns(p) \/ Send(p) \/ BuildFails(p) \/ Answer(p)
    \/ BackoffOver(p) \/ BackoffCancelled(p)
    \/ MakeLimiter(p) \/ FetchCosts(p) \/ Install(p)

TimePasses ==
    /\ Tick /\ (Given.drift \/ \E p \in Procs : timer[p] > 0)
    /\ UNCHANGED clientVars

ClockSet == Given.drift /\ (\E d \in ClockSteps : SetClock(d)) /\ UNCHANGED clientVars

Next ==
    \/ LoadConfig \/ NewClient
    \/ \E p \in Procs :
         Progress(p) \/ Method(p) \/ ConfigureRateLimits(p) \/ Direct(p) \/ Cancel(p)
    \/ TimePasses \/ ClockSet

Fairness == (\A p \in Procs : WF_vars(Progress(p))) /\ WF_vars(TimePasses)

Spec == Init /\ [][Next]_vars /\ Fairness

-----------------------------------------------------------------------------
\* A request: its host is of an environment or named by the program, it is signed for a
\* method of the client, and its query has parameters of such methods.
Parameters == UNION {UNION {ep.query.String, ep.query.Int, ep.query.Bool, ep.query.IntPtr} :
                     ep \in AllEndpoints}
SentRequest == [host : Environments \cup {"override", ""}, query : SUBSET Parameters,
                headers : [key : Environments \cup {""},
                           signed : {<<ep.method, ep.path>> : ep \in AllEndpoints}
                                    \cup {<<"", <<>>>>}]]

CallState == [op : {"none", "method", "limits", "costs"},
              pc : {"idle", "acquire", "build", "answer", "backoff", "limits", "made", "costs"},
              offer : Offer, table : DOMAIN Tables \cup {NoTable}, retries : Nat,
              attempts : Nat, fetched : Limiters,
              sent : SentRequest,
              result : [kind : {"none", "ok", "failed", "RateLimitError", "APIError"},
                        body : Bodies, error : [code : {"", "code"},
                                                message : {"", "message"}]]]

\* Types.  A goroutine is in the limiter, or sleeps, only where do waits for it.
TypeOK ==
    /\ BucketTypeOK
    /\ work \in DOMAIN Workloads /\ conf.ok \in BOOLEAN
    /\ phase \in {"start", "config", "auto", "ready", "failed"}
    /\ limiter \in Limiters /\ table \in DOMAIN Tables \cup {NoTable}
    /\ call \in [Procs -> CallState] /\ left \in [Procs -> Nat]
    /\ phase = "ready" => limiter \in made
    /\ \A p \in Procs :
          /\ (acq[p].pc # "idle") <=> (call[p].pc = "acquire")
          /\ timer[p] > 0 => acq[p].pc = "sleep" \/ call[p].pc = "backoff"

\* What the table lists for an endpoint: the entry of its method and its path, the
\* names of the parameters aside.
Full(path) == IF path # <<>> /\ path[1] = "trade-api" THEN path ELSE API \o path
SameEndpoint(entry, ep) ==
    LET path == Full(entry.path)
    IN  /\ entry.method = ep.method /\ Len(path) = Len(ep.path)
        /\ \A i \in DOMAIN path :
              \/ path[i] = ep.path[i]
              \/ isPathPlaceholder(path[i]) /\ ep.path[i] \in Placeholders
Listed(t, ep) == {i \in DOMAIN Tables[t].entries : SameEndpoint(Tables[t].entries[i], ep)}
InLimiter(p) == call[p].pc = "acquire" /\ acq[p].pc # "idle"

\* No other entry as specific as the i-th matches the endpoint.
Decisive(t, i, ep) ==
    LET route(j) == newCostRoute(Tables[t].entries[j])
    IN  \A j \in DOMAIN Tables[t].entries \ {i} :
          matches(route(j), ep.method, ep.path) => route(j).literals < route(i).literals

\* A listed endpoint is billed as it is listed, for each of its items (client.go
\* :130-136, :184-196, :212-215), whatever the order of the table and whichever less specific
\* entries match it too; and the table and the limiter it is billed to come from one
\* configuration, though others install new ones meanwhile.
ListedBilled == \A p \in Procs : InLimiter(p) =>
    LET t == call[p].table  o == call[p].offer
    IN  /\ t = NoTable <=> acq[p].lim \in {Own, Default}
        /\ t # NoTable => \A i \in Listed(t, o.ep) : Decisive(t, i, o.ep) =>
              acq[p].cost = InLane(o.ep.method, Tables[t].entries[i].cost
                                                  * (IF o.units = 0 THEN 1 ELSE o.units))

\* "Endpoints that use the default cost are omitted" from the table (account.go
\* :24-25): so one that is not listed is billed the default.
OmittedAtDefault == \A p \in Procs : InLimiter(p) =>
    LET t == call[p].table  o == call[p].offer
    IN  t # NoTable /\ Listed(t, o.ep) = {} /\ Tables[t].default > 0 =>
            acq[p].cost = InLane(o.ep.method, Tables[t].default
                                                * (IF o.units = 0 THEN 1 ELSE o.units))

\* A parameter to which zero and negative values mean something must not be filtered out
\* with them: exchange_index is the case that matters (query.go:23-29).  In an int field
\* zero cannot be told from unset, so this is about -1, which asks the service to route.
ExchangeIndexSent == \A p \in Procs :
    LET o == call[p].offer
    IN  call[p].pc = "answer" /\ o.arg = "negative"
        /\ "exchange_index" \in o.ep.query.Int \cup o.ep.query.IntPtr =>
            "exchange_index" \in call[p].sent.query

\* The service is asked at most MaxRetries more times, and RateLimitError is for a
\* call that was refused each time (client.go:243-249, :314-333).
RetriesExhausted == \A p \in Procs :
    /\ call[p].attempts <= MaxRetries + 1
    /\ call[p].result.kind = "RateLimitError" => call[p].attempts = MaxRetries + 1
    /\ call[p].pc = "backoff" => call[p].attempts <= MaxRetries

\* Whatever form the service gives an error, what is printed of it says the message
\* if there is one (errors.go:19-57).
MessageKept == \A p \in Procs :
    LET r == call[p].result
    IN  r.kind = "APIError" =>
          /\ "body" \in Printed(r.error) \/ r.error.message = r.body.message
          /\ r.body.form # "other" /\ r.body.code # "" => r.error.code = r.body.code

\* Every call returns: do neither waits nor retries for ever (client.go:217, :232-257),
\* and no goroutine sleeps in Acquire for tokens that it will not be given.
RequestsReturn == \A p \in Procs : call[p].op # "none" ~> call[p].op = "none"
=============================================================================
