---------------------------- MODULE MCHTTPClient ----------------------------
(* Instances of HTTPClient for TLC: limiters, cost tables and workloads.     *)
EXTENDS HTTPClient

CONSTANTS main, other, own, default, first, second

\* How the wall clock is set.
Steps == {-2, 3}

Entry(method, path, cost) == [method |-> method, path |-> path, cost |-> cost]

\* The table that the service returned on 2026-09-15 (endpoint_cost_test.go:24-45).
LiveEntries == <<
    Entry("POST", API \o <<"account", "api_usage_level", "upgrade">>, 30),
    Entry("GET", API \o <<"cfbenchmarks">>, 50),
    Entry("GET", API \o <<"cfbenchmarks", "*endpoint">>, 50),
    Entry("POST", pathQuotes, 2),
    Entry("DELETE", pathQuotes \o <<":quote_id">>, 2),
    Entry("GET", pathQuotes \o <<":quote_id">>, 2),
    Entry("DELETE", rfqQuotePath, 2),
    Entry("GET", rfqQuotePath, 2),
    Entry("PUT", rfqQuotePath \o <<"confirm">>, 1),
    Entry("GET", API \o <<"margin", "balance">>, 5),
    Entry("DELETE", API \o <<"margin", "orders", ":order_id">>, 1),
    Entry("POST", API \o <<"margin", "orders", ":order_id", "decrease">>, 1),
    Entry("DELETE", pathEventOrders, 2),
    Entry("DELETE", pathEventOrders \o <<":order_id">>, 2),
    Entry("DELETE", pathEventOrders \o <<"batched">>, 2),
    Entry("GET", pathOrders \o <<":order_id">>, 2),
    Entry("POST", pathSubaccounts \o <<"positions", "transfer", "batched">>, 2)>>

Live == [entries |-> LiveEntries, default |-> 10]

\* Overlapping entries that do not share a cost, in an unfortunate order, with other
\* marks, a relative path and no default.
Overlaps == [default |-> 0, entries |-> <<
    Entry("GET", API \o <<"events", "*endpoint">>, 7),
    Entry("GET", API \o <<"events", ":event_ticker">>, 4),
    Entry("DELETE", pathEventOrders \o <<"{order_id}">>, 2),
    Entry("DELETE", <<"portfolio", "events", "orders", "batched">>, 3),
    Entry("GET", API \o <<"events", ":event_ticker", "metadata">>, 5),
    Entry("GET", pathEvents \o <<"multivariate">>, 6)>>]

LiveTable == [live |-> Live]
TwoTables == [live |-> Live, overlaps |-> Overlaps]

\* The limiters: the user's, the default one and two that the service's limits make.
Buckets ==
    LET Bucket(r, w, rc, wc) == [rate |-> [read |-> r, write |-> w],
                                 cap |-> [read |-> rc, write |-> wc]]
    IN  [l \in Limiters |-> CASE l = Own -> Bucket(3, 2, 12, 20)
                              [] l = Default -> DefaultTokenBucketConfig
                              [] OTHER -> Bucket(10, 20, 60, 0)]

-----------------------------------------------------------------------------
(* Settings, and calls.                                                     *)

OneKey(env, id, file, url) ==
    [env |-> env, keyID |-> [e \in Environments |-> id], httpURL |-> url, wsURL |-> url,
     keyFile |-> [e \in Environments |-> file]]
Usual == OneKey("PROD", TRUE, "pkcs8_rsa", FALSE)
SomeSettings ==
    {OneKey(env, TRUE, "pkcs1", url) : env \in {"", "DEMO", "PROD", "STAGING"}, url \in BOOLEAN}
    \cup {OneKey("", id, file, FALSE) : id \in BOOLEAN, file \in KeyFiles \cup {"unset"}}
    \cup {[Usual EXCEPT !.keyID["demo"] = FALSE, !.env = env] : env \in {"DEMO", "PROD"}}

Call(ep, units, arg) == [ep |-> ep, units |-> units, arg |-> arg]
Named(name) == CHOOSE ep \in AllEndpoints : ep.name = name
EveryCall ==
    {Call(ep, units, arg) : ep \in {e \in AllEndpoints : e.batch}, units \in 0..3, arg \in {"unset"}}
    \cup {Call(ep, 1, "unset") : ep \in AllEndpoints}
    \cup {Call(ep, 1, arg) : ep \in {e \in AllEndpoints : "exchange_index" \in e.query.Int \/ e.query.IntPtr # {}}, arg \in Arguments}

Quiet == [own |-> FALSE, settings |-> {Usual}, written |-> {},
          offers |-> [p \in Procs |-> {}], calls |-> [p \in Procs |-> 0],
          refresh |-> {}, cancel |-> FALSE, drift |-> FALSE, faults |-> {}]
Only(p, n) == [q \in Procs |-> IF q = p THEN n ELSE 0]

\* One goroutine makes one call, of every method.
Survey == [Quiet EXCEPT !.offers = [p \in Procs |-> EveryCall], !.calls = Only(Main, 1)]

\* Every way to configure a client.
Setup == [Quiet EXCEPT !.own = TRUE, !.settings = SomeSettings, !.written = HandMade,
              !.calls = Only(Main, 1),
              !.offers = [p \in Procs |-> {Call(Named("GetMarket"), 1, "unset")}]]

\* Goroutines that compete for the tokens of the user's limiter, with contexts that
\* end; and with a clock that is set and time that passes.
Contention ==
    [Quiet EXCEPT !.own = TRUE, !.cancel = TRUE,
        !.calls = [p \in Procs |-> 2],
        !.offers = [p \in Procs |-> {Call(Named("GetOrder"), 1, "unset"),
                                     Call(Named("BatchCreateOrdersV2"), 3, "unset")}]]
Drifting ==
    [Contention EXCEPT !.cancel = FALSE, !.drift = TRUE,
        !.calls = [p \in Procs |-> IF p = Main THEN 1 ELSE 2],
        !.offers = [p \in Procs |-> {Call(Named("GetOrder"), 1, "unset")}]]

\* A service that fails, calls and a refresh at the same time.
Failing ==
    [Quiet EXCEPT !.own = TRUE, !.refresh = {other}, !.faults = {"limited", "lost"},
        !.calls = [p \in Procs |-> 1],
        !.offers = [p \in Procs |-> {Call(Named("CancelAllOrders"), 1, "zero")}]]

\* A service that fails in every way and a context that ends, while NewClient asks for
\* the limits and then in a call.
Errors == [Quiet EXCEPT !.faults = Faults, !.cancel = TRUE, !.calls = Only(Main, 1),
               !.offers = [p \in Procs |-> {Call(Named("GetMarket"), 1, "unset")}]]

HTTPWorkloads == [survey |-> Survey, setup |-> Setup, contention |-> Contention,
                  drifting |-> Drifting, failing |-> Failing, errors |-> Errors]
Surveys == [survey |-> Survey]
=============================================================================
