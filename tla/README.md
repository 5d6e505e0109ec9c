# Verification of gokalshi

gokalshi is a Go SDK for the Kalshi prediction market. This directory holds
TLA+ models of the parts of it that have state and concurrency, TLC
configurations that check them, and TLAPS proofs. Line numbers are those of the
source beside it; `PROJECT.json` maps every definition to its lines.

## 1. Inventory

| Component | Source | State | Operations | Status |
|---|---|---|---|---|
| WebSocket client | `ws_client.go`, `ws_types.go`, `ws_options.go` | connection, channel states, sid map, pending subscribes, message counter, flags, backoff, `MsgCh` | `Connect`, `Close`, `ListenLoop`, `Subscribe`, `Unsubscribe`, `AddMarkets`, `RemoveMarkets`, `GetSnapshot` | modelled |
| Connection and streaming service | external (`specs/asyncapi.yaml` describes it) | per connection: link state, subscriptions, undelivered messages | receive a command, answer, send, lose, break | modelled as environment |
| Token bucket | `ratelimit.go` | two token counts, time of the last refill | `Acquire`, `TryAcquire`, `GetWaitTime`, `Status` | modelled |
| Endpoint costs | `endpoint_cost.go`, part of `client.go` | an immutable ordered list of routes | build, match | modelled |
| HTTP client | `client.go`, `account.go` | the installed limiter and cost table | `NewClient`, `do` with its retries, `ConfigureRateLimits` | modelled |
| REST methods | `markets.go`, `orders.go`, ... | none | one HTTP call each | modelled: method, path, cost, query |
| Query and path builders | `query.go`, `paths.go` | none | pure functions | modelled |
| Configuration | `config.go` | none | `NewClientConfig` | modelled |
| Authentication, errors | `auth.go`, `errors.go` | none | load a key, make headers; read an error | partly: no cryptography, no wording |
| Logger, interfaces | `logger.go`, `interfaces.go` | none | | not modelled |
| Generated types, generators, command-line tools | `*_generated.go`, `tools/`, `cmd/` | none | run at development time | not modelled |

How they interact. `Client` calls the rate limiter before each HTTP request, with
a cost from the endpoint table, and replaces both in `ConfigureRateLimits` while
requests run. `WSClient` shares nothing with `Client` but the signing key. Inside
`WSClient` one goroutine runs `ListenLoop` and any number of others call the
methods; they share everything under `c.mu`, except three atomic flags and the
Go channel `msgCh`. A method that sends a command unlocks, allocates the id under
the lock (`sendSubscribe` and its siblings), copies `c.conn` under the lock
(`writeJSON`), writes without it, and locks again to record the outcome.

What is hard about it:

- **The lock is released in the middle of every method.** What was read before a
  send (a sid, a state pointer, the fact that a channel was new) is used after it.
- **Answers come late**, through the reader, which itself sends (the flush of
  queued tickers) and blocks on a full `MsgCh`.
- **Sids start again on every connection.** Anything that outlives a connection
  and holds a sid may name another channel's subscription.
- **Connections break at any time**, also during the recovery of the last break;
  dials fail; writes fail in ways that do or do not deliver the frame.
- **Sequence numbers are shared** by data messages and by answers.
- **Cancellation and `Close`** come from other goroutines at any moment.

- **The rate limiter estimates.** A waiter is told once how long to sleep, in
  truncated units of a wall clock that may be set, and nobody keeps its place.
- **Limits are replaced while requests run**, and the service's cost table lists
  overlapping patterns in any order.
- **Requests fail in every way**: a 429 is retried, a context ends in a wait, an
  error has one of several forms.

What makes the HTTP side correct: no more tokens are granted than the service
allows, and none for free; waits are long enough; a request is billed what the
service charges; retries are bounded; an error keeps the service's message; every call
returns.

What makes the WebSocket client correct: messages are accounted to the right
channel; ids are unique; commands reach the subscription they were meant for; a
lost message is noticed; subscriptions survive a reconnect; the client's market
sets agree with the service's; method calls return; listening ends when it is
told to. `PROJECT.json` lists the hazards, each at its line.

## 2. Modules

| Module | What it is |
|---|---|
| `WSServer` | the environment: connections and the service behind them |
| `WSClient` | the client, composed with `WSServer` (`EXTENDS`) |
| `WSClientProperties` | its type invariant, safety and liveness properties and fairness |
| `Subscriptions` | what the client's methods promise their callers, abstractly |
| `WSSubscriptions` | `WSClient` as an implementation of `Subscriptions`, and properties of what is asked for |
| `MCWSClient` | method calls, symmetry and model values for TLC |
| `Quota` | what a token bucket promises, abstractly |
| `TokenBucket` | the buckets, their waiters, the wall clock; a refinement of `Quota` |
| `Endpoints` | the REST methods, their paths and the queries they make: data, and no state |
| `EndpointCosts` | what a request is billed: routes and matching (`EXTENDS Endpoints`) |
| `Configuration` | settings, keys, hosts, headers, errors: pure functions |
| `HTTPClient` | the client, composed of the three above (`EXTENDS`), with its properties |
| `MCHTTPClient` | limiters, cost tables and workloads for TLC |
| `TokenBucketProofs` | TLAPS: types, grants, quota and waits of a bucket |
| `EndpointCostsProofs` | TLAPS: sorting loses no route, the most specific match decides |
| `HTTPClientProofs` | TLAPS: the client uses its buckets as specified; types, billing, retries, messages |
| `WSClientProofs` | TLAPS: what any step of the service preserves; the inductive invariant, one lemma per action, the theorems; the lock is never held where a goroutine may block; no nil connection without `Close` |
| `WSConnectionProofs` | TLAPS, on top of that: on the first connection, where commands go and what queued tickers wait for; on every connection, that the recovery leaves no channel out |
| `WSSequenceProofs` | TLAPS, on top of that: sequence numbers, lost messages and forced reconnects |
| `WSMarketsProofs` | TLAPS, on top of that and of `WSSubscriptions`: a channel's tickers, at the client and at the service |
| `WSSubscriptionsProofs` | TLAPS, on top of that: on the first connection `WSClient` implements `Subscriptions`, step by step |

### `WSServer`

`link[k]` is the state of the k-th dialled connection, `subs[k]` the service's
subscriptions on it (a sid is a position in that list) and `down[k]` what it sent
and the client has not read. A command is answered when it is written: delivery
is FIFO, so delaying the answer only delays the reading of it, which `down`
already does. `MayReject`, `MayLose`, `MayDrop` switch the faults on. Three fields
of a subscription (`sent`, `lost`, `gap`) record what the client cannot see and
the property about lost messages needs. The last connection that a behaviour may
dial never breaks and loses nothing, so that there is always one to recover on.

### `WSClient`

A step is one critical section of `c.mu`, or one operation outside the lock that
another goroutine can observe.

| Source | Model |
|---|---|
| `c.conn`, `channels`, `sidMap`, `pendingInit`, `msgID`, `closed`, `forceReconnect`, `msgCh` | variables of the same names (`force` for `forceReconnect`) |
| `*ChannelState` | an address in the heap `obj`, so that a pointer kept across an unlock goes on pointing to the old object |
| `c.mu` held from one step to the next | `mu` |
| a goroutine's position and locals | `pc`, `out` (the command it sends), `call` (the method, what is left of its channels, its state pointer) |
| `readLoop`'s `conn`, `handleSubscribed`'s `state`, the range of `recoverSubscriptions` | `rconn`, `flushing`, `todo` and `seen` |
| `sendSubscribe`, `sendUnsubscribe`, `sendUpdateSub`, `writeJSON` | `Register`, `GrabConn`, `WriteDelivered`, `WriteLost`, `WriteTimeout`, whoever sends |
| each method | one action up to its unlock, one (`...Sent`) after the send |
| `ListenLoop`, `readLoop` | `LoopTop`, `Dial`, `Wait`, `EnterReadLoop`, `ReadError`, `CheckForce`, `LoopLeaves`, `WaitLoss`, `Redial` |
| `handleIncoming` and its handlers | one action per message type; `Deliver` is the blocking send on `msgCh`, `FlushSent` the loop that sends queued tickers |
| `handleConnectionLoss`, `recoverSubscriptions` | `HandleConnectionLoss`; `RecoverStart`, `RecoverNext`, `RecoverSent`, `RecoverEnd` |

`conn.Read` and the handling under the lock are one step: nobody else takes
messages off a connection, so what happens in between could as well happen before
the read. Go's `range` over a map is modelled as it is specified: an entry added
on the way may or may not be visited, a deleted one is not.

Abstracted: the callbacks `OnDisconnect` and `OnReconnect` (user code), frames
that are not JSON or of an unknown type (ignored by the code), the
initial-snapshot option (a flag the service reads), message payloads, and calls
whose arguments are refused (they return before they change anything). Sleeping
is a step that may be taken at any time: the model has no clock.

### `Subscriptions` and `WSSubscriptions`

`Subscriptions` knows no connections, ids, sids or answers: `asked` is what has
been asked for on each channel (subscribed or not, global, tickers), `request`
the call each caller is in. A call takes effect on one channel after the other,
once and at one moment, and nothing else changes `asked`.

The mapping has a method take effect where it decides, before it sends. What is
asked for on a channel is what its state will hold once everything on its way has
arrived: the list of the last unread `ok` about its sid, or else `Markets`
(`Settling`); the queued tickers; those that a caller or the flush is sending
(`Adding`); without those a caller is taking off (`Removing`); nothing at all while
an `Unsubscribe` is sending (`Ending`). So the steps that only move a ticker from one of these
to another (`HandleSubscribed`, `FlushSent`, `HandleOK`, `...Sent`) must map to
stuttering, and that they do is what the run shows.

### `TokenBucket` and `Quota`

Every operation of a bucket holds its mutex from its first line to its last, so
each is one step, which begins with the refill.

| Source | Model |
|---|---|
| `readTokens`, `writeTokens`, `lastRefill` | `tokens[l][lane]`, `lastRefill[l]` |
| `NewReadWriteTokenBucket` | `NewBucket`; its panics are the assumption that rates are positive |
| `Acquire` | `Acquire` (a cost above the capacity is refused at once), then rounds of `TryGranted`, `TryWait` and `TryCancelled`, and between them the `select`: `Wake` and `SleepCancelled` |
| `TryAcquire`, `GetWaitTime`, `Status` | `TryAcquire` and `TryAcquireFails`, `GetWaitTime`, `Status` |
| `time.Now` | `now`; `Tick` moves it with every timer, `SetClock` moves it alone |
| `defaultClock` | `Clock`: `now` in whole grains |

A tick is the unit to which the code truncates a wait, and tokens are whole
numbers of the smallest difference that floating point keeps; rates and costs are
scaled alike. Two roundings are kept. The wait is truncated after the padding was
added (`:239-240`), and the padding (`Padding` of the `Parts` of a tick) need not be
whole. The clock is read with a resolution of `Grain` ticks: a `float64` of the seconds
since 1970 (`:84`) tells moments apart that are some 238 ns from each other, while a
timer runs in nanoseconds. `paid`, `calm`, `spent` and `since` only observe.

`Quota` says what a limiter is for: count from any moment on, and at most one full
bucket and what its rate added has been granted. `TokenBucket` implements it with
`elapsed` as the time its refills have seen, which stands still while a clock that
was set back catches up.

### `Endpoints`, `EndpointCosts` and `Configuration`

All 103 methods are records: HTTP method, path as a sequence of segments, the
caller's own figure for the cost, and which parameters reach the query through
which of `String`, `Int`, `Bool` and `IntPtr`. `QuerySent` is what those keep of a
value, known by its sign. `newCostRoute`, `segmentsMatch`, `Sorted`, `lookupCost` and
`resolveCosts` follow the code; how a marked segment is spelled (`:id`, `{id}`,
`<id>`, `*rest`) is a set of examples. `NewClientConfig` reads a record of what the
environment holds; a key file is one of the cases that the PEM and PKCS parsers
tell apart; `newAPIError` reads the three forms of an error.

### `HTTPClient`

A step is what a goroutine does between two blocking points.

| Source | Model |
|---|---|
| `rateLimiter`, `costRoutes` and `defaultCost` | `limiter`, `table` (the name of the table they came from) |
| a goroutine in `do` | `call[p]`: `op` (what called it), `pc`, the limits fetched so far, retries, attempts, the last request sent, the last result |
| `NewClient` | `LoadConfig`, `NewClient`, and `ConfigureRateLimits` by `Main` in phase `auto`, whose failure it ignores |
| `do` | `Do` (the costs and the limiter under the lock, then `Acquire`), `AcquireReturns`, `Send` or `BuildFails`, `Answer`, `BackoffOver` or `BackoffCancelled` |
| `handleRetry` | `handleRetry`, a disjunct of `Answer` |
| `ConfigureRateLimits` | `ConfigureRateLimits`, `MakeLimiter`, `FetchCosts`, `Install` |
| a method of `Endpoints` | `Method` |
| a program that uses its limiter itself | `Direct` |
| a context | `ctxDone[p]`, set by `Cancel` at any moment of a call |

The service is part of `Answer`: a good answer, an error in any form, a 429, no
answer. It charges nothing in the model; what it should charge is `Listed`, said
of the table alone and without the code's routes.

## 3. Runs

### The streaming client

Bounds common to all: two tickers, at most three connections, six sids and six
channel-state objects (more than any of the runs uses up). Each run bounds the method
calls of a behaviour (`MaxCalls`) and names which calls they may be. None of the
state spaces is cut by a constraint; the bounds are in the guards. Deadlock is
not checked: when the calls are used up and listening has ended, or nothing is
left to read, the system rightly stops.

| Run | Properties | Instance, and why it is large enough |
|---|---|---|
| `edges` | `TypeOK`, `RoutingSound`, `IdsUnique`, `NoPanic` | two channels, two calls, every fault except lost messages and `Close`; two connections are what it takes for a sid to be reused |
| `commands` | `CommandsAimed`, `QueuedWillBeSent` | two callers and the reader, three calls, one connection: every interleaving of two methods with the answers to both |
| `settled` | `MarketsAgree`, `NeverForced` | one caller, four calls, so an update can follow an update on a subscription whose first answer is still unread; numbered data in between |
| `stream` | `NoReadPastGap` | numbers up to four, so a loss can lie before, between and after two messages and an `ok`; two connections, so the forced reconnect is taken |
| `recover` | `Recovered`, `AlwaysResubscribed` | two channels, two calls, three connections: the first breaks anywhere, also during the calls, and the second while the recovery sends on it; the third holds; 524 977 states. The mutant of `AlwaysResubscribed`, a loop that ends when its recovery fails, is found only where a recovery is interrupted |
| `asked` | `PromisesKept`, `Served` | one caller, six calls on two channels, so that every branch of `AddMarkets` meets every state that earlier calls leave; 876 154 states |
| `ends` | `CallsReturn`, `CancelEnds`, `CloseEnds` | two calls, cancellation, broken connections, failed dials, `MsgCh` of capacity one |

What a passing run leaves out is left out because the code does *not* keep the
property there, which one of the configurations below or section 6 says: `edges` has no
`Close` (`v_panic`); `commands` has one connection (`v_stale`) and no refused
commands (`v_queue`); `recover` has no failing dial (`v_redial`)
and no `AddMarkets` (`v_skipped`), and a subscribe that fails on a connection that stays
up ends a recovery (section 6); `settled` does
not remove a ticker that an outstanding flush is about to add, and has one caller;
`asked` has one caller (`v_double`), no removals (`v_late`) and a connection that
holds (`v_forgotten`).

### The HTTP client

One run, `http`, with six workloads, chosen in the initial state; each switches on
what its question needs. Two goroutines, four limiters (the user's, the default one
and two that the service's limits make), two cost tables, `MaxRetries` 2. A tick is
a tenth of a second here and a token a token: rates are small enough for a deficit
that does not divide by the rate (3 and 2 per tick), and costs for one that a full
bucket just does not cover (30 against 20). The clock is read in steps of two ticks
(`Grain`), and the padding is two and a half: with one of a single tick
`EstimateSuffices` fails, as it does in the code for a padding below the clock's
resolution.

| Workload | What it does |
|---|---|
| `survey` | one call of every method, batches of zero to three, every sign of an `exchange_index` and of what is given by pointer; `NewClient` gets its limits from the service, either table |
| `setup` | settings of every environment with every kind of key file, and every configuration written by hand, with the key of either environment |
| `contention` | two goroutines, two calls each, of a cheap read and an expensive batch, direct use of the limiter, contexts that end |
| `drifting` | two goroutines, a clock that is set once, by -2 or 3 ticks, and two ticks in which nobody waits |
| `failing` | calls and a refresh of the limits at the same time, with 429s and lost answers |
| `errors` | every failure of `NewClient` and of a call, every form of an error, a context that ends |

| Property | What it says |
|---|---|
| `GrantsPaid`, `EstimateSuffices`, `MeetsQuota` | the three promises of a bucket, here in the whole client |
| `ListedBilled` | a request takes what its table lists for its endpoint, times its units, from the limiter that came with that table |
| `RetriesExhausted` | at most `MaxRetries` retries; `RateLimitError` only after all of them |
| `MessageKept` | what is printed of a service's error says its message, or the whole body |
| `RequestsReturn` | every call returns |

`live`, the first table, is the one in `endpoint_cost_test.go`; `overlaps` lists
entries that match each other's requests, in an order in which the first match
would be wrong, with other marks, a relative path and no default. Deadlock is not
checked: callers stop when their calls are used up.

### Disagreements with the documentation

| Violation run | What TLC shows | The statement it contradicts |
|---|---|---|
| `v_redial` | one failed redial, and the next connection has no subscriptions: the dial at `:148` does not lead to `recoverSubscriptions` | `ws_client.go:34`, `README.md:175` |
| `v_panic` | `Close` between `:146` and `:192` leaves `readLoop` with a nil connection, and `conn.Read` panics | `ws_client.go:121` |
| `v_stale` | `AddMarkets` copies a sid, the connection is lost and recovered, and the command reaches another channel's subscription | `ws_client.go:430` |
| `v_billing` | with the live table, `GET /portfolio/orders/queue_positions`, which the table omits, is billed as `GET /portfolio/orders/:order_id` | `account.go:24` |

Nine more configurations check one property each that the code does not keep;
`tlc -workers 2 -config v_late.cfg MCWSClient` prints the shortest trace. They mark
the borders of the passing runs, and are not among the runs of `PROJECT.json`.

| Configuration | Property | What TLC shows | The statement it contradicts |
|---|---|---|---|
| `v_queue` | `QueuedWillBeSent` | a refused subscribe leaves its `pendingInit` entry, and later `AddMarkets` calls return nil with tickers that nothing will send | `ws_client.go:484` |
| `v_forgotten` | `LossForgetsNothing` | queued tickers are flushed, the connection breaks before the answer, and they are in no set that the recovery reads | `ws_client.go:34`, `:430` |
| `v_skipped` | `Recovered` | the connection is lost after `AddMarkets` wrote its first subscribe and before it locks again: the recovery skips the channel and the tickers are never subscribed | `ws_client.go:34`, `:430` |
| `v_late` | `FilteredAreSubscribed` | the late answer to an `AddMarkets` brings a removed ticker back into `Markets`, and the next `AddMarkets` filters it out | `ws_client.go:460` |
| `v_close` | `ClosedStaysDisconnected` | `Close` before `ListenLoop` dials, which then connects the closed client | `ws_client_test.go:112` |
| `v_ended` | `EndedEntirely` | `Unsubscribe` before the answer to the subscribe sends nothing, and the service's subscription lives on | `ws_client.go:396` |
| `v_double` | `Served` | two callers of `AddMarkets` subscribe the same channel: the pending entry is made (`:655`) after the lock under which it was missed (`:483`) is given up | `ws_client.go:484` |
| `v_silent` | `NoneSilent` | an `Unsubscribe` that a reconnect overtakes ends, or makes unknown, another channel's recovered subscription | `ws_client.go:396` |
| `v_index` | `ExchangeIndexSent` | `exchange_index` -1, given to a method of the order groups, is not sent (`order_groups.go:134`); run it with `MCHTTPClient` | `query.go:26`, `new_endpoints_test.go:245` |

Every property of a passing run has a mutant in `PROJECT.json`: a plausible
mistake in the code (a backoff that is not capped, sids that survive the
connection, ids taken from the number of pending answers, a lock held during the
send on `msgCh`, ...) under which the same run finds the property violated. The
mutated operators stand beside the originals, marked `Mutated:`.

### Fairness

Safety runs assume none. `StalledSpec` gives strong fairness to each goroutine:
an action is enabled again and again while others hold the lock between, and
`sync.Mutex` hands the lock to a waiter that has starved for a millisecond. It
obliges nobody to make a call, to read from `MsgCh`, or to send, and connections
need not break. `CancelEnds` and `CloseEnds` carry the premise `Room`, that the
consumer makes room again and again, because the send of `handleIncoming`
(`:242`) does not look at the context. `CloseEnds` speaks of a `Close` that
finds the loop reading: what another one leads to is `v_close`. `RedialSpec`, for `AlwaysResubscribed`
only, adds that the consumer reads and that a dial tried for ever succeeds in the
end, a claim about the network and not about the code.

`HTTPClient!Spec` gives weak fairness to each goroutine inside a call and to the
passing of time: the Go scheduler runs what can run, and timers fire. The service
answers in the end or the connection fails (`http.Client` has a timeout,
`client.go:73`). Nobody has to make a call, no context has to end, and the clock need
not be set. Locks need no strong fairness here: each is held within one step.

## 4. Proofs

`WSClientProofs` proves, for any set of channels, tickers, callers and calls, and
any values of the bounds and of the fault switches:

- `TypeCorrect`: `Spec => []TypeOK`
- `Routing`: `Spec => []RoutingSound`
- `Ids`: `Spec => []IdsUnique`

all three from `Inductive`: `Spec => []Inv`. The only assumptions are
`ServerAssumption` and `ClientAssumption`, which TLC evaluates in every run.

None of the three is inductive alone. That a "subscribed" answer routes its sid
rightly needs that the pending entry with its id is about the channel the service
was asked for (`AnswersTrue`), over *every* connection, because answers to
commands written on an old connection wait there. That in turn holds when the
answer is written because ids are unique (`IdsUnique`), which needs that no id in
use, sent, pending or still to be read, exceeds the counter (`IdsBounded`). That
the state found through `c.channels` is the one of that name is `NamesMatch`.
Types need that a command in progress names a channel (`CommandShape`) and that
the reader holds a connection exactly while it is inside `readLoop`
(`ReaderShape`). `Inv` is the conjunction; TLC checked it on the instances of
`edges` and `commands` before it was proved.

The proof has one lemma per action. The methods share `CallerInv`: whatever a
caller does to its own control (`ControlEffect`) and to the heap (`HeapEffect`)
keeps `Inv`, because pending entries and sids are only removed and states keep
their names. Sends share `SentInv`, and the reader's steps `LoopInv` and
`ReaderStepInv`. The first lemmas show that every command is answered by one
message with its id, and that subscriptions keep their place and their channel.

At its end the module adds two small invariants to `Inv`. `LockShort` says that whoever
holds `c.mu` from one step to the next is between two channels of a loop;
`LockNeverHeldBlocking` proves it, so no goroutine dials, writes, sleeps or sends on
a full `msgCh` with the lock. `Listening` says that nobody is closing and that
`readLoop` is entered with a connection: `NoNilRead` proves `NoPanic` from it for every
program that does not call `Close`, and `v_panic` shows why that premise is there.

`WSConnectionProofs`, `WSSequenceProofs`, `WSMarketsProofs` and `WSSubscriptionsProofs` are,
but for one theorem, about the first connection. A sid, a
pending subscribe and a sequence belong to one connection, and the client does not
tie a command in progress to the connection it was made for, so after a redial
they fail as the code stands (`v_stale`, `v_double`, and section 6). These theorems
therefore speak of the states in which one connection was dialled, and all but the
first of the ones in which it is up or still in use; each names what else it needs.
`SubscriptionsRecovered` speaks of every state, with any number of connections.

| Theorem | Property | Premises |
|---|---|---|
| `FirstConnectionAimed` | `CommandsAimed` | none |
| `QueuedIsSent` | `QueuedWillBeSent` | `Reliable`: `Connect` succeeded, nothing is refused, no write times out |
| `SubscriptionsRecovered` | `Recovered` | `Recoverable`: every command is answered, every dial succeeds, no write times out, and the callers make no call of `AddMarkets`, `Connect` or `Close` |
| `LossIsNoticed` | `NoReadPastGap` | one goroutine calls, nothing is refused |
| `NothingForced` | `NeverForced` | that, no write times out, nothing is lost |
| `TickersInStep` | `MarketsAgree` | one goroutine calls, `Reliable`, `Accepted`: no `RemoveMarkets`, arguments that the methods do not refuse |
| `FirstConnectionServes` | `Served` | the same |
| `EachCallOnce` | each step while the connection is up | the same, and `Staying`: nobody calls `Connect` or `Close` |
| `PromisesMet` | `PromisesKept` | that, and the connection does not break, loses nothing, and the context is not cancelled |

`FirstConnectionAimed` needs that every sid held by a state or a command, wherever it
is in its method, was given on that connection to the channel it is held for
(`Aimed`, by `AimedEffect` for each step). `QueuedIsSent` needs `Queue`: tickers are
queued for channels with a pending subscribe only, and each pending subscribe is being
written or answered (`Underway`); `Close` and a cancelled `ListenLoop` are allowed for.

`SubscriptionsRecovered` rests on `Recovery`. Its first part, `AllSecured`, says of every
channel with something to recover where its next sid comes from (`Secured`): it has one,
or the connection is lost and the loop has yet to see it (`Severed`), or the recovery has
yet to come to it (`ToRecover`), or somebody is subscribing it on the connection now in
use or is about to forget it (`Subscribing`), or the answer is unread (`ToBeRead`), or the
loop is ending (`GivingUp`). Each step may end one of these only by reaching another. That
needs `Course`, where the loop is with respect to the client's connection: it reads that
one, dials only without one, and while it recovers nobody takes it away, so a subscribe
of the recovery fails only if the connection or the context ended. It also needs that
what a sid leads to has one (`MappedSubscribed`), because an `ok` may change what is wanted of a
channel, and which commands the callers send (`PlainCalls`). At rest only the first of
the cases is left. The
premises exclude what breaks it in the code: a redial that fails (`v_redial`), a refused
subscribe or a timed-out one, after which nothing is sent again, `AddMarkets`, whose
tickers the recovery may not see yet (`v_skipped`), and `Connect` and `Close`, which replace
the connection under the loop. Callers, channels, losses and connections may be any number,
and the context may be cancelled. TLC checked `Recovery` first: on the instance of
`recover`, which meets the premises, with a cancelled context, and,
over the first eleven million states, with two callers and lost messages.

`Straight` is the invariant behind the numbers. `Named` says that a sid and its state
name each other, that a channel waits for one subscribe, and only while it has no
sid. `Order` says that a subscription is announced once, before anything else is said
on it and before the client knows its sid. `Flow` ties three things: the number the
client keeps, the messages on the connection, and the service's counter (`Fits`).
The numbers go up, are above the client's, and no number is followed by the
one that reveals the first loss; that message is still to be read, or the loop is
leaving (`Revealed`); and with a service that loses nothing, no number is missing
(`Unbroken`). `Settled` adds that nothing tells the loop to leave. TLC checked these
invariants on the instances of `edges`, `asked` and `settled` first. It also shows
that the premises are needed: with two callers, `Subscribe` and `AddMarkets` of one
channel, or two `AddMarkets`, subscribe it twice and both
subscriptions write one number, and an error uses a number that `HandleError` does
not count; either way both properties fail on the first connection.

`Agreement` is the invariant behind the last two. A ticker is in one of four places:
the command that asks for it, the service's subscription, the answer that lists it,
the channel's markets or queue. `Fine` says of each channel that it is being opened by
a subscribe not yet written (`Opening`), opened by one whose answer is unread
(`Opened`), or has a sid (`Kept`); and then, that what the state holds and will note
when the caller's send returns (`Owed`) is what the service sends, or part of it while
an `ok` with the rest is unread (`Agrees`), and that a subscription to all tickers is
one for the client too, or is about to be narrowed by its queue (`Scope`). `Answers`
keeps the unread lists in order (each is part of the service's, the last is all of it),
and `Commands` ties what is being sent to the call it is for. TLC checked it on the
instance of `asked`, which meets the premises, with up to six calls. Each premise is
there because the properties fail without it: a second caller (`v_double`), a
removal that an earlier answer brings back (`v_late`), a refused subscribe
(`v_queue`); `Accepted` rules out, besides removals, only calls that return with an error.

`PromisesMet` is the refinement of `Subscriptions`. What is asked for on a channel
(`Asked`) is put together from what the client holds, the last unread list, the queue,
and what callers and the flush are sending; a step of the reader changes several of
these at once. The proof first gives `Asked` another form (`Shown`, by `AskedIsShown`),
in which a channel that has a sid counts for what the service sends: by `Agrees` that
is the last unread list, or the client's markets once there is none. That there is a
last one is by well-founded induction on places in `down`. On `Shown` the answers
and `handleOK` are invisible, and each other action has a lemma: the flush moves
tickers from the queue to what is being sent and then to the service, the send of a
caller from its command to the service (`...Unseen`), and a method takes effect
where it leaves its first section and goes on from there (`MethodsServed`). Three facts
more than `Agreement` are needed: what a flush has sent is with the service or was ended
(`Noted`), no sid is known before `readLoop` has a connection (`Entered`), and every
list of tickers is of a subscription (`Marked`); together, `Following`. `Clear`, what a state and the next one have to satisfy, is
proved invariant while the connection is up (`ClearAlways`), and `EachStep` puts the
actions together: this is `EachCallOnce`, which holds up to the step that breaks or
closes the connection and says nothing of the ones after. `Lasting` is that there
is no such step. TLC checked `Following`, `Shown` and the step property on the
instance of `asked` and on one with two connections, losses and a cancelled context.
The instance of `asked` meets all premises.

`TokenBucketProofs` proves `BucketTypes`, `Paid`, `WithinQuota` and `WaitSuffices` for
any buckets, costs, goroutines and clocks. The types need that a bucket in use was
made (`LimMade`) and that a waiter's cost fits its bucket (`CostFits`), which
`Acquire` checks once (`:92`) and every later round relies on. `WithinQuota` is the
refinement of `Quota`: `Accounted` keeps what was granted since any moment below one
bucket and what the refills since have added, and each step maps to a step of
`Quota` or to a stutter. `Paid` assumes a `SafetyPadding` of at least a tick: without one
a deficit of less than a unit of time truncates to a wait of 0, which `Acquire` (`:101`)
takes for success. `WaitSuffices` assumes one of at least the clock's resolution, `Grain`
ticks: by that much the reading at the end of the wait may be behind the time
(`Reading`), and a wait that is padded so far is enough without it (`PaddedDivision`). The
default, 0.1 s, is far above both.

`EndpointCostsProofs` proves of `lookupCost`, for any table: `Sorted` is a permutation
of the service's list in order of specificity (`FirstMatch`), so no match is lost
and the first one is a most specific one; the one match with the most literals
decides wherever it is listed (`DecisiveEntry`).

`HTTPClientProofs` composes them. `UsesBuckets` shows that every step of the client is
a step of `TokenBucket` or leaves the buckets alone, which makes the theorems about a
bucket theorems about the client (`ClientPays`, `ClientWithinQuota`, `ClientWaits`).
The rest follows from `HTTPInv`: the types of the buckets, a client whose limiter
and table are of one configuration (`Settled`, `OwnPair`), and for every call that its
control point and its data fit (`Sound`): attempts and retries agree (`Counted`), what
is fetched is a limiter of the service's limits (`Fetched`), and it waits in the
limiter with the cost that the table it copied gives, both of one configuration (`Billed`). There is one
`...Kept` lemma per action. `BilledAsListed` combines it with `DecisiveEntry`.
`ClientTypes` proves the client's `TypeOK`, with a second invariant, `Equipped`, which is
inductive relative to `HTTPInv`: the limiter in use was made (`LimiterMade`), which needs
that the one a `ConfigureRateLimits` still carries was (`FetchedMade`), as was the one the
user brought (`OwnMade`); and a timer runs only for whom it makes wait (`Asleep`), which
needs that every way out of `Acquire`'s sleep and of the backoff stops it.

Model-checked only:

- all liveness (`CallsReturn`, `CancelEnds`, `CloseEnds`, `AlwaysResubscribed`,
  `RequestsReturn`), which is out of the prover's reach;
- the properties of the table above beyond its premises, where a run checks them
  with more than one connection, several callers or removals (section 3).

## 5. Plan

The modules planned at first (`TokenBucket`, `EndpointCosts`, `HTTPClient`, the
abstract `Subscriptions` and the proofs about them) are written. What could follow:

1. A `Subscriptions` with lost connections and several callers, for a client in
   which the races of section 3 are repaired; as the code stands, it does not
   implement one.
2. `PromisesMet` with `RemoveMarkets`, which skips a channel that has no sid yet and
   whose empty answer is not taken over (`:315`): its promise has to say so.
3. What a service refuses, and when, as a specification of its own in place of `MayReject`.

## 6. Known limits and what is not modelled

Seen on the models, and without a run of their own:

- A recovery between `Subscribe`'s unlock (`:378`) and its send subscribes the
  channel twice; both subscriptions write into one state's sequence number.
- A subscribe of the recovery that is refused, or whose write times out on a
  connection that stays up, is not repeated (`:182`): the recovery ends, and the
  loop reads on without the channels it has not come to.
- An `ok` with an empty ticker list is not taken over (`:315`): after the last
  ticker is removed by another update, `Markets` keeps what it had.
- An error answer uses up a number of the sequence and is not counted (`:225`), so
  the next message looks like a gap and forces a reconnect.
- While `ConfigureRateLimits` replaces a limiter, requests that copied the old one
  and requests that copy the new, full one together exceed the rate for a while
  (`client.go:214`); the quota is one of each limiter.
- Retries after a 429 take no tokens (`client.go:233`).
- Of two concurrent `ConfigureRateLimits`, the one with the older answers may
  install them last (`client.go:151`).
- Routes with equally many literals are tried in the order of the service's list:
  a wildcard can win over an exact entry that is as long (`client.go:134`).
  `ListedBilled` does not speak of such ties.
- A subaccount 0 is dropped wherever it goes through `Int` (`CancelOrderV2`,
  `orders.go:89`, `portfolio.go:102`); so is the `exchange_index` of the order groups
  (`v_index` shows it for -1). In an int field zero cannot be told from unset.
- A configuration written by hand may sign for hosts of one environment with the key
  of the other: `ClientConfig`'s `Credentials` and `Environment` are independent
  (`config.go:47-53`). No property says otherwise.

Not visible in the models: how long anything takes in the WebSocket client (the
missing backoff before the dial at `:148`, for one), what the callbacks do, memory
reordering (every shared access is under the lock or atomic), and connections left
open after a forced reconnect (`:622`), which is why old connections may still take
commands in the model.

Restricted:

- `ClientAssumption` excludes an unbuffered `MsgCh` and a `MinBackoff` that is zero
  or above `MaxBackoff`, which the options accept (`ws_client.go:44-58`);
- `Close` takes the connection out and closes it in one step (`CloseConn`), although
  the lock is released between the two (`:127`): a write in that window is taken for
  one before it;
- `BucketAssumption` excludes rates that are not positive, for which the
  constructor panics (`ratelimit.go:70`).

Not modelled:

- generated types and enumerations, and the code generators and tools (`tools/`,
  `cmd/`): they have no state at run time, and run while the library is developed;
- the contents of requests and answers beyond what a property speaks of: encoding
  JSON is the standard library's work;
- cryptography: a signature is the key it was made with;
- `WithRateLimiter(nil)`, with which the first request dereferences nil
  (`client.go:217`), and `Client.Close`, which only closes idle connections;
- logging, and the warning about suspicious path segments, which is only logged.

## 7. Running

    tlc -workers 2 -config edges.cfg MCWSClient     # any .cfg but the next three
    tlc -workers 2 -config http.cfg MCHTTPClient    # and v_billing.cfg, v_index.cfg
    tlapm TokenBucketProofs.tla                     # each *Proofs module in turn:
    tlapm EndpointCostsProofs.tla
    tlapm HTTPClientProofs.tla
    tlapm WSClientProofs.tla
    tlapm WSConnectionProofs.tla
    tlapm WSSequenceProofs.tla
    tlapm WSMarketsProofs.tla                       # the longest, some five minutes
    tlapm WSSubscriptionsProofs.tla
