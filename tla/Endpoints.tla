----------------------------- MODULE Endpoints -----------------------------
(***************************************************************************)
(* The REST methods of the client: what each asks the service for, what it *)
(* says the request costs, and which of its parameters reach the query.    *)
(* Each of them is one call of do (HTTPClient); the payloads of requests   *)
(* and answers are left out.                                               *)
(*                                                                         *)
(* A path is the sequence of its segments.  A path parameter's value is    *)
(* written as its name after a colon: it equals no literal segment.        *)
(***************************************************************************)
EXTENDS Sequences, Integers

-----------------------------------------------------------------------------
(* Queries.  A query is known by its keys, sorted by the builder's method  *)
(* that adds them.  The value of a parameter is known by its sign.         *)

Query(strings, ints, bools, pointers) ==
    [String |-> strings, Int |-> ints, Bool |-> bools, IntPtr |-> pointers]
NoQuery == Query({}, {}, {}, {})

Arguments == {"unset", "negative", "zero", "positive"}

\* When each method of QueryBuilder adds its key.
StringAdded(v) == v # "unset"
IntPtrAdded(v) == v # "unset"
IntAdded(v) == v = "positive"
BoolAdded(v) == v = "positive"

\* The keys in the URL of a request all of whose parameters are given as v.
QuerySent(q, v) ==
    UNION {IF StringAdded(v) THEN q.String ELSE {}, IF IntPtrAdded(v) THEN q.IntPtr ELSE {},
           IF IntAdded(v) THEN q.Int ELSE {}, IF BoolAdded(v) THEN q.Bool ELSE {}}

-----------------------------------------------------------------------------
(* The ways to call do.  cost is the caller's figure for one unit, in the  *)
(* lane of the method; batch says that the units are counted by the caller.*)

Endpoint(name, method, path, cost, query) ==
    [name |-> name, method |-> method, path |-> path, cost |-> cost,
     query |-> query, batch |-> FALSE]
Batch(endpoint) == [endpoint EXCEPT !.batch = TRUE]

Get(name, path, query) == Endpoint(name, "GET", path, 10, query)
Post(name, path) == Endpoint(name, "POST", path, 10, NoQuery)
Delete(name, path, cost, query) == Endpoint(name, "DELETE", path, cost, query)
Put(name, path, query) == Endpoint(name, "PUT", path, 10, query)

API == <<"trade-api", "v2">>
pathAccount == API \o <<"account">>
pathAPIKeys == API \o <<"api_keys">>
pathCommunications == API \o <<"communications">>
pathEvents == API \o <<"events">>
pathExchange == API \o <<"exchange">>
pathFCM == API \o <<"fcm">>
pathHistorical == API \o <<"historical">>
pathIncentivePrograms == API \o <<"incentive_programs">>
pathLiveData == API \o <<"live_data">>
pathMarkets == API \o <<"markets">>
pathMilestones == API \o <<"milestones">>
pathMVECollections == API \o <<"multivariate_event_collections">>
pathPortfolio == API \o <<"portfolio">>
pathSearch == API \o <<"search">>
pathSeries == API \o <<"series">>
pathStructuredTargets == API \o <<"structured_targets">>
pathOrders == pathPortfolio \o <<"orders">>
pathEventOrders == pathPortfolio \o <<"events", "orders">>
pathOrderGroups == pathPortfolio \o <<"order_groups">>
pathSubaccounts == pathPortfolio \o <<"subaccounts">>
pathTargetBalanceAllocation == pathPortfolio \o <<"target_balance_allocation">>
pathIntraExchangeTransfer == pathPortfolio \o <<"intra_exchange_instance_transfer">>
pathIntraExchangeTransfers == pathPortfolio \o <<"intra_exchange_instance_transfers">>
pathBlockTradeProposals == pathCommunications \o <<"block-trade-proposals">>

-----------------------------------------------------------------------------
(* Markets.                                                                *)

GetTradesParams == Query({"ticker", "cursor"}, {"limit", "min_ts", "max_ts"}, {}, {})
GetMarketsParams ==
    Query({"cursor", "event_ticker", "series_ticker", "status", "tickers", "mve_filter"},
          {"limit", "min_created_ts", "max_created_ts", "min_updated_ts", "min_close_ts",
           "max_close_ts", "min_settled_ts", "max_settled_ts"}, {}, {})
GetMarketCandlesticksParams ==
    Query({}, {"start_ts", "end_ts", "period_interval"}, {"include_latest_before_start"}, {})
GetBatchMarketCandlesticksParams ==
    [GetMarketCandlesticksParams EXCEPT !.String = {"market_tickers"}]

MarketEndpoints == {
    Get("GetMarketOrderbook", pathMarkets \o <<":ticker", "orderbook">>,
        Query({}, {"depth"}, {}, {})),
    Get("GetMarketOrderbooks", pathMarkets \o <<"orderbooks">>, Query({"tickers"}, {}, {}, {})),
    Get("GetTrades", pathMarkets \o <<"trades">>, GetTradesParams),
    Get("GetMarket", pathMarkets \o <<":ticker">>, NoQuery),
    Get("GetMarkets", pathMarkets, GetMarketsParams),
    Get("GetMarketCandlesticks",
        pathSeries \o <<":series_ticker", "markets", ":ticker", "candlesticks">>,
        GetMarketCandlesticksParams),
    Get("GetBatchMarketCandlesticks", pathMarkets \o <<"candlesticks">>,
        GetBatchMarketCandlesticksParams)}

-----------------------------------------------------------------------------
(* Orders.                                                                 *)

GetOrdersParams ==
    Query({"ticker", "event_ticker", "status", "cursor"},
          {"limit", "min_ts", "max_ts", "subaccount"}, {}, {})
GetQueuePositionsParams == Query({"market_tickers", "event_ticker"}, {"subaccount"}, {}, {})

OrderEndpoints == {
    Get("GetOrder", pathOrders \o <<":order_id">>, NoQuery),
    Get("GetOrders", pathOrders, GetOrdersParams),
    Get("GetQueuePositions", pathOrders \o <<"queue_positions">>, GetQueuePositionsParams),
    Get("GetQueuePosition", pathOrders \o <<":order_id", "queue_position">>, NoQuery)}

costCancelOrder == 2
CancelOrderV2Params == Query({"market_ticker"}, {"subaccount"}, {}, {"exchange_index"})
CancelAllOrdersParams == Query({}, {}, {}, {"subaccount"})

EventOrderEndpoints == {
    Post("CreateOrderV2", pathEventOrders),
    Batch(Post("BatchCreateOrdersV2", pathEventOrders \o <<"batched">>)),
    Batch(Delete("BatchCancelOrdersV2", pathEventOrders \o <<"batched">>,
                 costCancelOrder, NoQuery)),
    Delete("CancelOrderV2", pathEventOrders \o <<":order_id">>,
           costCancelOrder, CancelOrderV2Params),
    Post("AmendOrderV2", pathEventOrders \o <<":order_id", "amend">>),
    Post("DecreaseOrderV2", pathEventOrders \o <<":order_id", "decrease">>),
    Delete("CancelAllOrders", pathEventOrders, costCancelOrder, CancelAllOrdersParams)}

GetOrderGroupParams == Query({"subaccount"}, {}, {}, {})
OrderGroupActionParams == Query({"subaccount"}, {"exchange_index"}, {}, {})
UpdateOrderGroupLimitParams == Query({}, {"exchange_index"}, {}, {})
pathOrderGroup == pathOrderGroups \o <<":order_group_id">>

OrderGroupEndpoints == {
    Post("CreateOrderGroup", pathOrderGroups \o <<"create">>),
    Get("GetOrderGroups", pathOrderGroups, GetOrderGroupParams),
    Get("GetOrderGroup", pathOrderGroup, GetOrderGroupParams),
    Delete("DeleteOrderGroup", pathOrderGroup, 10, OrderGroupActionParams),
    Put("ResetOrderGroup", pathOrderGroup \o <<"reset">>, OrderGroupActionParams),
    Put("TriggerOrderGroup", pathOrderGroup \o <<"trigger">>, OrderGroupActionParams),
    Put("UpdateOrderGroupLimit", pathOrderGroup \o <<"limit">>, UpdateOrderGroupLimitParams)}

-----------------------------------------------------------------------------
(* Requests for quotes, quotes and block trades.                           *)

pathRFQs == pathCommunications \o <<"rfqs">>
pathQuotes == pathCommunications \o <<"quotes">>
rfqQuotePath == pathRFQs \o <<":rfq_id", "quotes", ":quote_id">>
GetRFQsParams ==
    Query({"cursor", "event_ticker", "market_ticker", "subaccount", "status", "user_filter"},
          {"limit"}, {}, {})
GetQuotesParams ==
    Query({"cursor", "event_ticker", "market_ticker", "status", "user_filter",
           "rfq_user_filter", "rfq_id"}, {"limit"}, {}, {})

RFQEndpoints == {
    Get("GetCommunicationsID", pathCommunications \o <<"id">>, NoQuery),
    Post("CreateRFQ", pathRFQs),
    Get("GetRFQs", pathRFQs, GetRFQsParams),
    Get("GetRFQ", pathRFQs \o <<":rfq_id">>, NoQuery),
    Delete("DeleteRFQ", pathRFQs \o <<":rfq_id">>, 10, NoQuery)}

QuoteEndpoints == {
    Post("CreateQuote", pathQuotes),
    Get("GetQuotes", pathQuotes, GetQuotesParams),
    Get("GetQuote", pathQuotes \o <<":quote_id">>, NoQuery),
    Delete("DeleteQuote", pathQuotes \o <<":quote_id">>, 10, NoQuery),
    Put("AcceptQuote", pathQuotes \o <<":quote_id", "accept">>, NoQuery),
    Put("ConfirmQuote", pathQuotes \o <<":quote_id", "confirm">>, NoQuery)}

RFQQuoteEndpoints == {
    Endpoint("GetRFQQuote", "GET", rfqQuotePath, 2, NoQuery),
    Delete("DeleteRFQQuote", rfqQuotePath, 2, NoQuery),
    Put("AcceptRFQQuote", rfqQuotePath \o <<"accept">>, NoQuery),
    Put("ConfirmRFQQuote", rfqQuotePath \o <<"confirm">>, NoQuery)}

BlockTradeEndpoints == {
    Get("GetBlockTradeProposals", pathBlockTradeProposals,
        Query({"market_ticker", "status", "cursor"}, {"limit"}, {}, {})),
    Post("ProposeBlockTrade", pathBlockTradeProposals),
    Post("AcceptBlockTradeProposal", pathBlockTradeProposals \o <<":proposal_id", "accept">>)}

-----------------------------------------------------------------------------
(* The portfolio, its subaccounts and its transfers.                       *)

Page == Query({"cursor"}, {"limit"}, {}, {})
GetPositionsParams ==
    Query({"ticker", "event_ticker", "count_filter", "cursor"}, {"limit", "subaccount"}, {}, {})
GetFillsParams ==
    Query({"ticker", "order_id", "cursor"}, {"min_ts", "max_ts", "limit", "subaccount"}, {}, {})
GetSettlementsParams == [GetFillsParams EXCEPT !.String = {"ticker", "event_ticker", "cursor"}]

PortfolioEndpoints == {
    Get("GetBalance", pathPortfolio \o <<"balance">>, NoQuery),
    Get("GetPositions", pathPortfolio \o <<"positions">>, GetPositionsParams),
    Get("GetFills", pathPortfolio \o <<"fills">>, GetFillsParams),
    Get("GetSettlements", pathPortfolio \o <<"settlements">>, GetSettlementsParams),
    Get("GetDeposits", pathPortfolio \o <<"deposits">>, Page),
    Get("GetWithdrawals", pathPortfolio \o <<"withdrawals">>, Page)}

SummaryEndpoints == {
    Get("GetPortfolioRestingOrderTotalValue",
        pathPortfolio \o <<"summary", "total_resting_order_value">>, NoQuery)}

SubaccountEndpoints == {
    Post("CreateSubaccount", pathSubaccounts),
    Get("GetSubaccountBalances", pathSubaccounts \o <<"balances">>, NoQuery),
    Get("GetSubaccountNetting", pathSubaccounts \o <<"netting">>, NoQuery),
    Put("UpdateSubaccountNetting", pathSubaccounts \o <<"netting">>, NoQuery),
    Post("ApplySubaccountTransfer", pathSubaccounts \o <<"transfer">>),
    Get("GetSubaccountTransfers", pathSubaccounts \o <<"transfers">>, Page)}

TransferEndpoints == {
    Post("IntraExchangeInstanceTransfer", pathIntraExchangeTransfer),
    Get("GetIntraExchangeInstanceTransfers", pathIntraExchangeTransfers, Page),
    Get("GetIntraExchangeInstanceTransfer",
        pathIntraExchangeTransfers \o <<":transfer_id">>, NoQuery)}

TargetBalanceEndpoints == {
    Get("GetTargetBalanceAllocation", pathTargetBalanceAllocation, NoQuery),
    Post("SetTargetBalanceAllocation", pathTargetBalanceAllocation)}

GetFCMOrdersParams ==
    Query({"subtrader_id", "client_order_ids", "event_ticker", "ticker", "status", "cursor"},
          {"min_ts", "max_ts", "limit"}, {}, {})
GetFCMPositionsParams ==
    Query({"subtrader_id", "ticker", "event_ticker", "count_filter", "settlement_status",
           "cursor"}, {"limit"}, {}, {})

FCMEndpoints == {
    Get("GetFCMOrders", pathFCM \o <<"orders">>, GetFCMOrdersParams),
    Get("GetFCMPositions", pathFCM \o <<"positions">>, GetFCMPositionsParams)}

-----------------------------------------------------------------------------
(* Events, series and what hangs on them.                                  *)

GetEventsParams ==
    Query({"cursor", "status", "series_ticker"}, {"limit", "min_close_ts", "min_updated_ts"},
          {"with_nested_markets", "with_milestones"}, {})
GetMultivariateEventsParams ==
    Query({"cursor", "series_ticker", "collection_ticker"}, {"limit"},
          {"with_nested_markets"}, {})
GetEventCandlesticksParams == Query({}, {"start_ts", "end_ts", "period_interval"}, {}, {})
GetEventForecastPercentileHistoryParams ==
    [GetEventCandlesticksParams EXCEPT !.String = {"percentiles"}]
pathSeriesEvent == pathSeries \o <<":series_ticker", "events", ":event_ticker">>

EventEndpoints == {
    Get("GetEvent", pathEvents \o <<":event_ticker">>,
        Query({}, {}, {"with_nested_markets"}, {})),
    Get("GetEvents", pathEvents, GetEventsParams),
    Get("GetEventMetadata", pathEvents \o <<":event_ticker", "metadata">>, NoQuery),
    Get("GetMultivariateEvents", pathEvents \o <<"multivariate">>, GetMultivariateEventsParams),
    Get("GetEventCandlesticks", pathSeriesEvent \o <<"candlesticks">>,
        GetEventCandlesticksParams),
    Get("GetEventForecastPercentileHistory",
        pathSeriesEvent \o <<"forecast_percentile_history">>,
        GetEventForecastPercentileHistoryParams),
    Get("GetEventFeeChanges", pathEvents \o <<"fee_changes">>,
        Query({"event_ticker", "cursor"}, {"limit"}, {}, {}))}

CollectionEndpoints == {
    Get("GetMultivariateEventCollections", pathMVECollections, Page),
    Get("GetMultivariateEventCollection",
        pathMVECollections \o <<":collection_ticker">>, NoQuery),
    Post("CreateMarketInMultivariateEventCollection",
         pathMVECollections \o <<":collection_ticker">>)}

GetSeriesListParams ==
    Query({"category", "tags"}, {"min_updated_ts"},
          {"include_product_metadata", "include_volume"}, {})

SeriesEndpoints == {
    Get("GetSeries", pathSeries \o <<":series_ticker">>,
        Query({}, {}, {"include_volume"}, {})),
    Get("GetSeriesList", pathSeries, GetSeriesListParams)}

ExchangeEndpoints == {
    Get("GetExchangeStatus", pathExchange \o <<"status">>, NoQuery),
    Get("GetExchangeSchedule", pathExchange \o <<"schedule">>, NoQuery),
    Get("GetUserDataTimestamp", pathExchange \o <<"user_data_timestamp">>, NoQuery),
    Get("GetSeriesFeeChanges", pathSeries \o <<"fee_changes">>,
        Query({"series_ticker"}, {}, {"show_historical"}, {}))}

GetStructuredTargetsParams == Query({"cursor", "event_ticker"}, {"limit"}, {}, {})
StructuredTargetEndpoints == {
    Get("GetStructuredTargets", pathStructuredTargets, GetStructuredTargetsParams),
    Get("GetStructuredTarget", pathStructuredTargets \o <<":id">>, NoQuery)}

GetMilestonesParams == Query({"cursor", "event_ticker"}, {"limit"}, {}, {})
MilestoneEndpoints == {
    Get("GetMilestones", pathMilestones, GetMilestonesParams),
    Get("GetMilestone", pathMilestones \o <<":milestone_id">>, NoQuery)}

-----------------------------------------------------------------------------
(* History and live data.                                                  *)

GetHistoricalFillsParams == Query({"cursor", "ticker"}, {"limit"}, {}, {})
GetHistoricalMarketsParams == Page
GetHistoricalMarketCandlesticksParams == GetEventCandlesticksParams
GetHistoricalPositionsParams ==
    Query({"ticker", "event_ticker", "cursor"}, {"limit"}, {}, {"subaccount"})

HistoricalEndpoints == {
    Get("GetHistoricalCutoff", pathHistorical \o <<"cutoff">>, NoQuery),
    Get("GetHistoricalFills", pathHistorical \o <<"fills">>, GetHistoricalFillsParams),
    Get("GetHistoricalOrders", pathHistorical \o <<"orders">>, GetHistoricalFillsParams),
    Get("GetHistoricalTrades", pathHistorical \o <<"trades">>, GetHistoricalFillsParams),
    Get("GetHistoricalMarkets", pathHistorical \o <<"markets">>, GetHistoricalMarketsParams),
    Get("GetHistoricalMarket", pathHistorical \o <<"markets", ":ticker">>, NoQuery),
    Get("GetHistoricalMarketCandlesticks",
        pathHistorical \o <<"markets", ":ticker", "candlesticks">>,
        GetHistoricalMarketCandlesticksParams),
    Get("GetHistoricalPositions", pathHistorical \o <<"positions">>,
        GetHistoricalPositionsParams)}

GetLiveDataParams == Query({}, {}, {"include_player_stats"}, {})
GetWeatherIndexParams == Query({}, {"from", "to", "last_sec"}, {"detailed"}, {})
pathWeather == pathLiveData \o <<"weather", ":city">>

LiveDataEndpoints == {
    Get("GetLiveDataBatch", pathLiveData \o <<"batch">>, Query({"milestone_ids"}, {}, {}, {})),
    Get("GetLiveDataByMilestone", pathLiveData \o <<"milestone", ":milestone_id">>,
        GetLiveDataParams),
    Get("GetMilestoneGameStats",
        pathLiveData \o <<"milestone", ":milestone_id", "game_stats">>, NoQuery),
    Get("GetLiveData", pathLiveData \o <<":type", "milestone", ":milestone_id">>,
        GetLiveDataParams),
    Get("GetEventLiveData", pathLiveData \o <<"events", ":event_ticker">>,
        Query({"range"}, {}, {}, {}))}

WeatherEndpoints == {
    Get("GetWeatherIndex", pathWeather, GetWeatherIndexParams),
    Get("GetWeatherIndexCalibrations", pathWeather \o <<"calibrations">>, NoQuery)}

SearchEndpoints == {
    Get("GetTagsByCategories", pathSearch \o <<"tags_by_categories">>, NoQuery),
    Get("GetFiltersBySport", pathSearch \o <<"filters_by_sport">>, NoQuery)}

IncentiveEndpoints == {Get("GetIncentivePrograms", pathIncentivePrograms, NoQuery)}

-----------------------------------------------------------------------------
(* The account.                                                            *)

APIKeyEndpoints == {
    Get("GetAPIKeys", pathAPIKeys, NoQuery),
    Post("CreateAPIKey", pathAPIKeys),
    Post("GenerateAPIKey", pathAPIKeys \o <<"generate">>),
    Delete("DeleteAPIKey", pathAPIKeys \o <<":api_key">>, 10, NoQuery)}

GetAccountAPILimits == Get("GetAccountAPILimits", pathAccount \o <<"limits">>, NoQuery)
GetAccountEndpointCosts ==
    Get("GetAccountEndpointCosts", pathAccount \o <<"endpoint_costs">>, NoQuery)

AccountEndpoints == {
    GetAccountAPILimits, GetAccountEndpointCosts,
    Endpoint("UpgradeAPIUsageLevel", "POST",
             pathAccount \o <<"api_usage_level", "upgrade">>, 30, NoQuery),
    Get("GetAccountAPIUsageLevelVolumeProgress",
        pathAccount \o <<"api_usage_level", "volume_progress">>, NoQuery)}

AllEndpoints == UNION {
    MarketEndpoints, OrderEndpoints, EventOrderEndpoints, OrderGroupEndpoints,
    RFQEndpoints, QuoteEndpoints, RFQQuoteEndpoints, BlockTradeEndpoints,
    PortfolioEndpoints, SummaryEndpoints, SubaccountEndpoints, TransferEndpoints,
    TargetBalanceEndpoints, FCMEndpoints, EventEndpoints, CollectionEndpoints,
    SeriesEndpoints, ExchangeEndpoints, StructuredTargetEndpoints, MilestoneEndpoints,
    HistoricalEndpoints, LiveDataEndpoints, WeatherEndpoints, SearchEndpoints,
    IncentiveEndpoints, APIKeyEndpoints, AccountEndpoints}
=============================================================================
