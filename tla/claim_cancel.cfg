SPECIFICATION Spec
CONSTANTS
    N = 2
    MAX_U64 = 20
    U32_RANGE = 2147483647
    Configs <- LiveConfigs
    Amounts = {1}
    Minimums = {0, 6}
    Payloads = {}
    Funds <- LiveFunds
    DeployedFeeds <- TradeFeeds
    FeedPrices = {}
    FeedTimes = {}
    FeedDecimals = {}
    FeedResolutions = {}
    PRICE_FRESHNESS_WINDOW_SECS = 1
    MaxTime = 2
    MaxStray = 0
INVARIANT CancelPaysExactly
