------------------------ MODULE EndpointCostsProofs ------------------------
(***************************************************************************)
(* Proofs about EndpointCosts, for any table: sorting the routes neither   *)
(* loses nor invents one, and the first match is the most specific one.    *)
(***************************************************************************)
EXTENDS EndpointCosts, FiniteSetTheorems, TLAPS

\* A table of n routes.
RouteTable(routes, n) ==
    /\ n \in Nat /\ DOMAIN routes = 1..n
    /\ \A i \in 1..n : routes[i].literals \in Nat

\* The routes that go before the j-th, and the place of each route.
Ahead(routes, n, j) == {i \in 1..n : Before(routes, i, j)}
Place(routes, n) == [j \in 1..n |-> Rank(routes, j)]

-----------------------------------------------------------------------------
(* Sorting.                                                                *)

LEMMA AheadSize ==
    ASSUME NEW routes, NEW n, RouteTable(routes, n), NEW j \in 1..n
    PROVE  /\ IsFiniteSet(Ahead(routes, n, j))
           /\ Cardinality(Ahead(routes, n, j)) \in 0..(n - 1)
<1> DEFINE S == (1..n) \ {j}
<1>1. n \in Nat /\ IsFiniteSet(1..n) /\ Cardinality(1..n) = n
  BY FS_Interval DEF RouteTable
<1>2. IsFiniteSet(S) /\ Cardinality(S) = n - 1
  BY <1>1, FS_RemoveElement
<1>3. Ahead(routes, n, j) \in SUBSET S
  BY <1>1 DEF Ahead, Before, RouteTable
<1> HIDE DEF S
<1>4. IsFiniteSet(Ahead(routes, n, j)) /\ Cardinality(Ahead(routes, n, j)) <= n - 1
  BY <1>2, <1>3, FS_Subset
<1>5. Cardinality(Ahead(routes, n, j)) \in Nat
  BY <1>4, FS_CardinalityType
<1> QED BY <1>1, <1>4, <1>5

LEMMA RankOf ==
    ASSUME NEW routes, NEW n, RouteTable(routes, n), NEW j \in 1..n
    PROVE  Place(routes, n)[j] = 1 + Cardinality(Ahead(routes, n, j))
<1>1. DOMAIN routes = 1..n
  BY DEF RouteTable
<1>2. Rank(routes, j) = 1 + Cardinality(Ahead(routes, n, j))
  BY <1>1, Zenon DEF Rank, Ahead
<1> QED BY <1>2 DEF Place

\* Whoever goes before has the lower place.
LEMMA PlaceOrder ==
    ASSUME NEW routes, NEW n, RouteTable(routes, n), NEW i \in 1..n, NEW j \in 1..n,
           Before(routes, i, j)
    PROVE  Place(routes, n)[i] < Place(routes, n)[j]
<1> DEFINE A == Ahead(routes, n, i)
           B == Ahead(routes, n, j)
<1>1. A \in SUBSET B
  BY DEF Ahead, Before, RouteTable
<1>2. i \in B /\ i \notin A
  BY DEF Ahead, Before, RouteTable
<1>3. IsFiniteSet(A) /\ IsFiniteSet(B) /\ Cardinality(A) \in Nat /\ Cardinality(B) \in Nat
  BY AheadSize
<1>4. Place(routes, n)[i] = 1 + Cardinality(A) /\ Place(routes, n)[j] = 1 + Cardinality(B)
  BY RankOf
<1> HIDE DEF A, B
<1>5. Cardinality(A) <= Cardinality(B) /\ Cardinality(A) # Cardinality(B)
  BY <1>1, <1>2, <1>3, FS_Subset
<1> QED BY <1>3, <1>4, <1>5

\* The places are the numbers from 1 to n, each taken once.
LEMMA PlacesTaken ==
    ASSUME NEW routes, NEW n, RouteTable(routes, n)
    PROVE  /\ Place(routes, n) \in [1..n -> 1..n]
           /\ \A i, j \in 1..n : Place(routes, n)[i] = Place(routes, n)[j] => i = j
           /\ \A k \in 1..n : \E j \in 1..n : Place(routes, n)[j] = k
<1> DEFINE f == Place(routes, n)
<1>1. f \in [1..n -> 1..n]
  <2>1. ASSUME NEW j \in 1..n PROVE f[j] \in 1..n
    <3>1. f[j] = 1 + Cardinality(Ahead(routes, n, j)) /\ n \in Nat
      BY RankOf DEF RouteTable
    <3>2. Cardinality(Ahead(routes, n, j)) \in 0..(n - 1)
      BY AheadSize
    <3> QED BY <3>1, <3>2
  <2> QED BY <2>1 DEF Place
<1>2. ASSUME NEW i \in 1..n, NEW j \in 1..n, f[i] = f[j] PROVE i = j
  <2>1. f[i] \in Nat /\ f[j] \in Nat
    BY <1>1
  <2>2. i # j => Before(routes, i, j) \/ Before(routes, j, i)
    BY DEF Before, RouteTable
  <2> QED BY <1>2, <2>1, <2>2, PlaceOrder
<1> HIDE DEF f
<1>3. f \in Injection(1..n, 1..n)
  BY <1>1, <1>2 DEF Injection, IsInjective
<1>4. IsFiniteSet(1..n)
  <2>1. n \in Int /\ 1 \in Int
    BY DEF RouteTable
  <2> QED BY <2>1, FS_Interval
<1>5. f \in Surjection(1..n, 1..n)
  BY <1>3, <1>4, FS_Injection
<1>6. \A k \in 1..n : \E j \in 1..n : f[j] = k
  BY <1>5 DEF Surjection
<1> QED BY <1>1, <1>2, <1>6 DEF f

\* Sorting moves each route to its place.
LEMMA SortedAt ==
    ASSUME NEW routes, NEW n, RouteTable(routes, n)
    PROVE  /\ DOMAIN Sorted(routes) = 1..n
           /\ \A j \in 1..n : Sorted(routes)[Place(routes, n)[j]] = routes[j]
<1>1. DOMAIN routes = 1..n
  BY DEF RouteTable
<1> DEFINE At == [k \in DOMAIN routes |-> CHOOSE i \in DOMAIN routes : Rank(routes, i) = k]
           place == Place(routes, n)
<1>2. /\ place \in [1..n -> 1..n]
      /\ \A i, j \in 1..n : place[i] = place[j] => i = j
  BY ONLY RouteTable(routes, n), PlacesTaken
<1>3. \A i \in 1..n : Rank(routes, i) = place[i]
  BY DEF Place
<1> HIDE DEF place
<1>5. ASSUME NEW j \in 1..n PROVE place[j] \in 1..n /\ At[place[j]] = j
  <2>1. place[j] \in 1..n
    BY <1>2
  <2>2. At[place[j]] = CHOOSE i \in DOMAIN routes : Rank(routes, i) = place[j]
    BY <1>1, <2>1
  <2>3. \E i \in DOMAIN routes : Rank(routes, i) = place[j]
    BY <1>1, <1>3
  <2> HIDE DEF At
  <2>4. At[place[j]] \in DOMAIN routes /\ Rank(routes, At[place[j]]) = place[j]
    BY <2>2, <2>3, Zenon
  <2> QED BY <1>1, <1>2, <1>3, <2>1, <2>4
<1>4. Sorted(routes) = [k \in DOMAIN routes |-> routes[At[k]]]
  BY DEF Sorted
<1> HIDE DEF At
<1>6. DOMAIN Sorted(routes) = 1..n /\ \A j \in 1..n : Sorted(routes)[place[j]] = routes[j]
  BY <1>1, <1>4, <1>5
<1> QED BY <1>6 DEF place

-----------------------------------------------------------------------------
(* Looking up.                                                             *)

LEMMA LeastNumber ==
    ASSUME NEW T, T \subseteq Nat, T # {}
    PROVE  \E x \in T : \A y \in T : x <= y
<1>1. \A x \in Nat : \A y \in Nat : <<y, x>> \notin OpToRel(<, Nat) => x <= y
  BY DEF OpToRel
<1>2. \E x \in T : \A y \in T : <<y, x>> \notin OpToRel(<, Nat)
  BY NatLessThanWellFounded, WFMin
<1> QED BY <1>1, <1>2

\* A route of the sorted table is a route of the table, at its place.
LEMMA MatchingPlaces ==
    ASSUME NEW routes, NEW n, RouteTable(routes, n), NEW method, NEW path
    PROVE  Matching(Sorted(routes), method, path) =
           {Place(routes, n)[i] : i \in {j \in 1..n : matches(routes[j], method, path)}}
<1> DEFINE place == Place(routes, n)
           sorted == Sorted(routes)
<1>1. /\ DOMAIN sorted = 1..n
      /\ \A j \in 1..n : sorted[place[j]] = routes[j]
      /\ \A j \in 1..n : place[j] \in 1..n
      /\ \A k \in 1..n : \E j \in 1..n : place[j] = k
  <2>1. DOMAIN sorted = 1..n /\ \A j \in 1..n : sorted[place[j]] = routes[j]
    BY SortedAt, Zenon
  <2>2. /\ place \in [1..n -> 1..n]
        /\ \A k \in 1..n : \E j \in 1..n : place[j] = k
    BY PlacesTaken, Zenon
  <2> QED BY <2>1, <2>2
<1> HIDE DEF place, sorted
<1>2. Matching(sorted, method, path) = {k \in 1..n : matches(sorted[k], method, path)}
  BY <1>1 DEF Matching
<1>3. Matching(sorted, method, path) =
      {place[i] : i \in {j \in 1..n : matches(routes[j], method, path)}}
  BY <1>1, <1>2
<1> QED BY <1>3 DEF place, sorted

\* lookupCost takes the cost of a route that matches, and every other one that matches
\* is less specific, or as specific and later in the table (the sort and the loop that
\* stops at the first match).
THEOREM FirstMatch ==
    ASSUME NEW routes, NEW n, RouteTable(routes, n), NEW method, NEW path,
           Matching(Sorted(routes), method, path) # {}
    PROVE  \E i \in 1..n :
              /\ matches(routes[i], method, path)
              /\ lookupCost(Sorted(routes), method, path) = routes[i].cost
              /\ \A j \in 1..n : matches(routes[j], method, path) /\ j # i
                                   => Before(routes, i, j)
<1> DEFINE place == Place(routes, n)
           found == Matching(Sorted(routes), method, path)
           first == CHOOSE k \in found : \A m \in found : k <= m
<1>1. found = {place[i] : i \in {j \in 1..n : matches(routes[j], method, path)}}
  BY MatchingPlaces
<1>2. \A j \in 1..n : place[j] \in 1..n /\ Sorted(routes)[place[j]] = routes[j]
  <2>1. \A j \in 1..n : Sorted(routes)[place[j]] = routes[j]
    BY SortedAt, Zenon
  <2>2. place \in [1..n -> 1..n]
    BY PlacesTaken, Zenon
  <2> QED BY <2>1, <2>2
<1>3. lookupCost(Sorted(routes), method, path) = Sorted(routes)[first].cost
  BY DEF lookupCost
<1>4. \A i, j \in 1..n : i # j => Before(routes, i, j) \/ place[j] < place[i]
  <2>1. \A i, j \in 1..n : i # j => Before(routes, i, j) \/ Before(routes, j, i)
    BY DEF Before, RouteTable
  <2> QED BY <2>1, PlaceOrder
<1> HIDE DEF place
<1>5. found \subseteq Nat
  BY <1>1, <1>2
<1>6. \E k \in found : \A m \in found : k <= m
  BY <1>5, LeastNumber
<1> HIDE DEF found
<1>7. first \in found /\ \A m \in found : first <= m
  BY <1>6
<1> HIDE DEF first
<1>8. PICK i \in 1..n : matches(routes[i], method, path) /\ first = place[i]
  BY <1>1, <1>7
<1>9. ASSUME NEW j \in 1..n, matches(routes[j], method, path), j # i
      PROVE  Before(routes, i, j)
  <2>1. place[j] \in found
    BY <1>1, <1>9
  <2>2. place[i] <= place[j] /\ place[i] \in 1..n /\ place[j] \in 1..n
    BY <2>1, <1>2, <1>7, <1>8
  <2>3. ~(place[j] < place[i])
    BY <2>2
  <2> QED BY <2>3, <1>4, <1>9
<1>10. lookupCost(Sorted(routes), method, path) = routes[i].cost
  BY <1>2, <1>3, <1>8
<1> QED BY <1>8, <1>9, <1>10

-----------------------------------------------------------------------------
(* From the service's table to a cost.                                     *)

\* The path of a route is the path of its entry, made absolute.
PathOf(entry) == IF entry.path # <<>> /\ entry.path[1] = "trade-api" THEN entry.path
                 ELSE API \o entry.path

LEMMA PathType ==
    ASSUME NEW entry \in TableEntry
    PROVE  PathOf(entry) \in Seq(STRING \cup {"trade-api", "v2"})
<1>1. entry.path \in Seq(STRING)
  BY DEF TableEntry
<1>2. entry.path \in Seq(STRING \cup {"trade-api", "v2"})
  BY <1>1
<1>3. <<"trade-api", "v2">> \o entry.path \in Seq(STRING \cup {"trade-api", "v2"})
  BY <1>2
<1> QED BY <1>2, <1>3 DEF API, PathOf

LEMMA RouteShape ==
    ASSUME NEW entry \in TableEntry
    PROVE  /\ newCostRoute(entry).literals \in Nat
           /\ newCostRoute(entry).cost = entry.cost
<1> DEFINE segments == PathOf(entry)
           S == {i \in DOMAIN segments : ~isPathPlaceholder(segments[i])}
<1>1. segments \in Seq(STRING \cup {"trade-api", "v2"})
  BY PathType
<1> HIDE DEF segments
<1>2. DOMAIN segments = 1..Len(segments) /\ Len(segments) \in Nat
  BY <1>1
<1>3. IsFiniteSet(DOMAIN segments)
  BY <1>2, FS_Interval
<1>4. S \in SUBSET DOMAIN segments
  OBVIOUS
<1> HIDE DEF S
<1>5. Cardinality(S) \in Nat
  BY <1>3, <1>4, FS_Subset, FS_CardinalityType
<1>6. newCostRoute(entry).literals = Cardinality(S) /\ newCostRoute(entry).cost = entry.cost
  BY DEF newCostRoute, PathOf, segments, S
<1> QED BY <1>5, <1>6

LEMMA RoutesTable ==
    ASSUME NEW entries \in Seq(TableEntry)
    PROVE  RouteTable([i \in DOMAIN entries |-> newCostRoute(entries[i])], Len(entries))
<1>1. /\ Len(entries) \in Nat /\ DOMAIN entries = 1..Len(entries)
      /\ \A i \in DOMAIN entries : entries[i] \in TableEntry
  OBVIOUS
<1>2. \A i \in DOMAIN entries : newCostRoute(entries[i]).literals \in Nat
  BY <1>1, RouteShape
<1> QED BY <1>1, <1>2 DEF RouteTable

\* What lookupCost finds is the cost of an entry.
LEMMA LookupType ==
    ASSUME NEW entries \in Seq(TableEntry), NEW method, NEW path,
           Matching(Routes(entries), method, path) # {}
    PROVE  lookupCost(Routes(entries), method, path) \in Nat
<1> DEFINE routes == [i \in DOMAIN entries |-> newCostRoute(entries[i])]
<1>1. /\ DOMAIN entries = 1..Len(entries)
      /\ \A i \in DOMAIN entries : entries[i] \in TableEntry
  OBVIOUS
<1>2. \A i \in 1..Len(entries) : routes[i].cost \in Nat
  BY <1>1, RouteShape DEF TableEntry
<1>3. RouteTable(routes, Len(entries))
  BY RoutesTable
<1> HIDE DEF routes
<1>4. Routes(entries) = Sorted(routes)
  BY DEF Routes, routes
<1> QED BY <1>2, <1>3, <1>4, FirstMatch

\* The only entry that matches a request with the most literals decides its cost,
\* wherever it stands in the table.
THEOREM DecisiveEntry ==
    ASSUME NEW entries \in Seq(TableEntry), NEW method, NEW path, NEW i \in DOMAIN entries,
           matches(newCostRoute(entries[i]), method, path),
           \A j \in DOMAIN entries \ {i} :
              matches(newCostRoute(entries[j]), method, path)
                 => newCostRoute(entries[j]).literals < newCostRoute(entries[i]).literals
    PROVE  /\ Matching(Routes(entries), method, path) # {}
           /\ lookupCost(Routes(entries), method, path) = entries[i].cost
<1> DEFINE routes == [j \in DOMAIN entries |-> newCostRoute(entries[j])]
           n == Len(entries)
<1>1. DOMAIN entries = 1..n /\ entries[i] \in TableEntry
  OBVIOUS
<1>2. RouteTable(routes, n)
  BY RoutesTable
<1>3. /\ matches(routes[i], method, path) /\ routes[i].cost = entries[i].cost
      /\ \A j \in 1..n : matches(routes[j], method, path) /\ j # i
                            => routes[j].literals < routes[i].literals
  BY <1>1, RouteShape
<1> HIDE DEF routes, n
<1>4. Routes(entries) = Sorted(routes)
  BY DEF Routes, routes
<1>5. Matching(Sorted(routes), method, path) # {}
  <2>1. Matching(Sorted(routes), method, path) =
        {Place(routes, n)[k] : k \in {j \in 1..n : matches(routes[j], method, path)}}
    BY <1>2, MatchingPlaces
  <2>2. i \in {j \in 1..n : matches(routes[j], method, path)}
    BY <1>1, <1>3
  <2> QED BY <2>1, <2>2, Zenon
<1>6. PICK k \in 1..n :
         /\ matches(routes[k], method, path)
         /\ lookupCost(Sorted(routes), method, path) = routes[k].cost
         /\ \A j \in 1..n : matches(routes[j], method, path) /\ j # k => Before(routes, k, j)
  BY <1>2, <1>5, FirstMatch
<1>7. k = i
  BY <1>1, <1>2, <1>3, <1>6 DEF Before, RouteTable
<1> QED BY <1>3, <1>4, <1>5, <1>6, <1>7

\* A path matches the pattern that is listed for it.
LEMMA OwnPattern ==
    ASSUME NEW S, NEW pattern \in Seq(S), NEW actual,
           Len(pattern) = Len(actual),
           \A i \in DOMAIN pattern : pattern[i] = actual[i] \/ isPathPlaceholder(pattern[i])
    PROVE  segmentsMatch(pattern, actual)
<1> DEFINE wild == {i \in DOMAIN pattern : isTrailingWildcard(pattern[i])}
           fixed == {i \in DOMAIN pattern : \A w \in wild : i < w}
           n == Len(pattern)
<1>1. n \in Nat /\ DOMAIN pattern = 1..n
  OBVIOUS
<1>2. ASSUME NEW w \in wild PROVE Len(actual) > Cardinality(fixed)
  <2>1. IsFiniteSet(1..n) /\ Cardinality(1..n) = n
    <3>1. 1 \in Int /\ n \in Int /\ ~(1 > n + 1) /\ (IF 1 > n THEN 0 ELSE n - 1 + 1) = n
      BY <1>1
    <3> HIDE DEF n
    <3> QED BY <3>1, FS_Interval
  <2>2. fixed \in SUBSET (1..n) /\ w \in 1..n /\ w \notin fixed
    BY <1>1, <1>2
  <2> HIDE DEF fixed
  <2>3. IsFiniteSet(fixed) /\ Cardinality(fixed) <= n /\ Cardinality(fixed) # n
    BY <2>1, <2>2, FS_Subset
  <2>4. Cardinality(fixed) \in Nat
    BY <2>3, FS_CardinalityType
  <2> QED BY <1>1, <2>3, <2>4
<1> QED BY <1>2 DEF segmentsMatch

-----------------------------------------------------------------------------
(* The caller's own figures.                                               *)

Priced(S) == \A e \in S : e.cost \in Nat

LEMMA MethodCosts ==
    /\ \A name, path, query : Get(name, path, query).cost = 10
    /\ \A name, path : Post(name, path).cost = 10
    /\ \A name, path, query : Put(name, path, query).cost = 10
    /\ \A name, path, cost, query : Delete(name, path, cost, query).cost = cost
    /\ \A name, method, path, cost, query :
          Endpoint(name, method, path, cost, query).cost = cost
    /\ \A name, path : Batch(Post(name, path)).cost = 10
    /\ \A name, path, cost, query : Batch(Delete(name, path, cost, query)).cost = cost
BY DEF Get, Post, Put, Delete, Endpoint, Batch

LEMMA AllPriced == Priced(AllEndpoints)
<1>1. Priced(MarketEndpoints)
  BY MethodCosts DEF Priced, MarketEndpoints
<1>2. Priced(OrderEndpoints)
  BY MethodCosts DEF Priced, OrderEndpoints
<1>3. Priced(EventOrderEndpoints)
  BY MethodCosts DEF Priced, EventOrderEndpoints, costCancelOrder
<1>4. Priced(OrderGroupEndpoints)
  BY MethodCosts DEF Priced, OrderGroupEndpoints
<1>5. Priced(RFQEndpoints)
  BY MethodCosts DEF Priced, RFQEndpoints
<1>6. Priced(QuoteEndpoints)
  BY MethodCosts DEF Priced, QuoteEndpoints
<1>7. Priced(RFQQuoteEndpoints)
  BY MethodCosts DEF Priced, RFQQuoteEndpoints
<1>8. Priced(BlockTradeEndpoints)
  BY MethodCosts DEF Priced, BlockTradeEndpoints
<1>9. Priced(PortfolioEndpoints)
  BY MethodCosts DEF Priced, PortfolioEndpoints
<1>10. Priced(SummaryEndpoints)
  BY MethodCosts DEF Priced, SummaryEndpoints
<1>11. Priced(SubaccountEndpoints)
  BY MethodCosts DEF Priced, SubaccountEndpoints
<1>12. Priced(TransferEndpoints)
  BY MethodCosts DEF Priced, TransferEndpoints
<1>13. Priced(TargetBalanceEndpoints)
  BY MethodCosts DEF Priced, TargetBalanceEndpoints
<1>14. Priced(FCMEndpoints)
  BY MethodCosts DEF Priced, FCMEndpoints
<1>15. Priced(EventEndpoints)
  BY MethodCosts DEF Priced, EventEndpoints
<1>16. Priced(CollectionEndpoints)
  BY MethodCosts DEF Priced, CollectionEndpoints
<1>17. Priced(SeriesEndpoints)
  BY MethodCosts DEF Priced, SeriesEndpoints
<1>18. Priced(ExchangeEndpoints)
  BY MethodCosts DEF Priced, ExchangeEndpoints
<1>19. Priced(StructuredTargetEndpoints)
  BY MethodCosts DEF Priced, StructuredTargetEndpoints
<1>20. Priced(MilestoneEndpoints)
  BY MethodCosts DEF Priced, MilestoneEndpoints
<1>21. Priced(HistoricalEndpoints)
  BY MethodCosts DEF Priced, HistoricalEndpoints
<1>22. Priced(LiveDataEndpoints)
  BY MethodCosts DEF Priced, LiveDataEndpoints
<1>23. Priced(WeatherEndpoints)
  BY MethodCosts DEF Priced, WeatherEndpoints
<1>24. Priced(SearchEndpoints)
  BY MethodCosts DEF Priced, SearchEndpoints
<1>25. Priced(IncentiveEndpoints)
  BY MethodCosts DEF Priced, IncentiveEndpoints
<1>26. Priced(APIKeyEndpoints)
  BY MethodCosts DEF Priced, APIKeyEndpoints
<1>27. Priced(AccountEndpoints)
  BY MethodCosts DEF Priced, AccountEndpoints, GetAccountAPILimits, GetAccountEndpointCosts
<1> QED
  BY <1>1, <1>2, <1>3, <1>4, <1>5, <1>6, <1>7, <1>8, <1>9, <1>10, <1>11, <1>12, <1>13, <1>14,
     <1>15, <1>16, <1>17, <1>18, <1>19, <1>20, <1>21, <1>22, <1>23, <1>24, <1>25, <1>26, <1>27
  DEF Priced, AllEndpoints

\* What a request takes is a number of tokens of one lane, whatever the table.
LEMMA ResolvedCost ==
    ASSUME NEW endpoint, endpoint.cost \in Nat, NEW units \in Nat, NEW loaded \in BOOLEAN,
           NEW routes, NEW defaultCost \in Nat,
           loaded /\ Matching(routes, endpoint.method, endpoint.path) # {}
              => lookupCost(routes, endpoint.method, endpoint.path) \in Nat
    PROVE  resolveCosts(loaded, routes, defaultCost, endpoint, units)
              \in [{"read", "write"} -> Nat]
<1> DEFINE found == loaded /\ Matching(routes, endpoint.method, endpoint.path) # {}
           unit == IF found THEN lookupCost(routes, endpoint.method, endpoint.path)
                   ELSE IF loaded /\ defaultCost > 0 THEN defaultCost
                   ELSE endpoint.cost
           times == IF units < 1 THEN 1 ELSE units
<1>1. unit \in Nat /\ times \in Nat
  OBVIOUS
<1>2. resolveCosts(loaded, routes, defaultCost, endpoint, units)
         = InLane(endpoint.method, unit * times)
  BY DEF resolveCosts
<1> HIDE DEF unit, times
<1>3. unit * times \in Nat
  BY <1>1
<1>4. \A cost \in Nat : InLane(endpoint.method, cost) \in [{"read", "write"} -> Nat]
  BY DEF InLane
<1> QED BY <1>2, <1>3, <1>4
=============================================================================
