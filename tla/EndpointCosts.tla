--------------------------- MODULE EndpointCosts ---------------------------
(***************************************************************************)
(* What a request is billed (src/endpoint_cost.go and the cost part of     *)
(* src/client.go): the routes made of the table that GET                   *)
(* /account/endpoint_costs returns, and their match with a request.        *)
(***************************************************************************)
EXTENDS Endpoints, FiniteSets

\* Path segments that stand for a parameter: the marked ones, whatever the mark.
Wildcards == {"*endpoint"}
Placeholders == Wildcards \cup
    {":order_id", ":quote_id", ":rfq_id", ":api_key", ":ticker", ":event_ticker",
     "{order_id}", "<order_id>", "$order_id"}
isTrailingWildcard(segment) == segment \in Wildcards
isPathPlaceholder(segment) == segment \in Placeholders

\* An entry of the table; its path may be relative.
TableEntry == [method : STRING, path : Seq(STRING), cost : Nat]

newCostRoute(entry) ==
    LET segments == IF entry.path # <<>> /\ entry.path[1] = "trade-api" THEN entry.path
                    ELSE API \o entry.path
    IN  [method |-> entry.method, segments |-> segments, cost |-> entry.cost,
         literals |-> Cardinality({i \in DOMAIN segments : ~isPathPlaceholder(segments[i])})]

\* A wildcard swallows every segment from its place on, and needs one.
segmentsMatch(pattern, actual) ==
    LET wild == {i \in DOMAIN pattern : isTrailingWildcard(pattern[i])}
        fixed == {i \in DOMAIN pattern : \A w \in wild : i < w}
    IN  /\ IF wild = {} THEN Len(actual) = Len(pattern)
           ELSE Len(actual) > Cardinality(fixed)
        /\ \A i \in fixed : isPathPlaceholder(pattern[i]) \/ pattern[i] = actual[i]

matches(route, method, path) ==
    route.method = method /\ segmentsMatch(route.segments, path)

\* Mutated: the table's order.
Sorted_Declared(routes) == routes

\* sort.SliceStable: most literals first, in the table's order among equals.
Before(routes, i, j) ==
    \/ routes[i].literals > routes[j].literals
    \/ routes[i].literals = routes[j].literals /\ i < j
Rank(routes, j) == 1 + Cardinality({i \in DOMAIN routes : Before(routes, i, j)})
Sorted(routes) ==
    [k \in DOMAIN routes |-> routes[CHOOSE j \in DOMAIN routes : Rank(routes, j) = k]]

\* The routes that ConfigureRateLimits makes of a table's entries.
Routes(entries) == Sorted([i \in DOMAIN entries |-> newCostRoute(entries[i])])

\* lookupCost: the first route that matches; the numbers of those that do.
Matching(routes, method, path) == {i \in DOMAIN routes : matches(routes[i], method, path)}
lookupCost(routes, method, path) ==
    LET found == Matching(routes, method, path)
    IN  routes[CHOOSE i \in found : \A j \in found : i <= j].cost

\* A request takes tokens of one lane.
InLane(method, cost) == [read |-> IF method = "GET" THEN cost ELSE 0,
                         write |-> IF method = "GET" THEN 0 ELSE cost]

\* What the limiter is asked for: so much for each unit, and never for less than
\* one.  No route and no positive default leave the caller's own figure.
resolveCosts(loaded, routes, defaultCost, endpoint, units) ==
    LET found == loaded /\ Matching(routes, endpoint.method, endpoint.path) # {}
        unit == IF found THEN lookupCost(routes, endpoint.method, endpoint.path)
                ELSE IF loaded /\ defaultCost > 0 THEN defaultCost
                ELSE endpoint.cost
    IN  InLane(endpoint.method, unit * (IF units < 1 THEN 1 ELSE units))
=============================================================================
