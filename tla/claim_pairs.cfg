SPECIFICATION Spec
CONSTANTS
    N = 1
    MAX_U64 = 20
    U32_RANGE = 2147483647
    Configs <- DriftConfigs
    Amounts = {1}
    Minimums <- DriftMinimums
    Payloads = {}
    Funds <- DriftFunds
    DeployedFeeds <- TradeFeeds
    FeedPrices = {}
    FeedTimes = {}
    FeedDecimals = {}
    FeedResolutions = {}
    PRICE_FRESHNESS_WINDOW_SECS = 1
    MaxTime = 0
    MaxStray = 0
INVARIANT SharesArePairs
