SPECIFICATION Spec
CONSTANTS
    N = 2
    MAX_U64 = 20
    U32_RANGE = 2147483647
    Configs <- TradeConfigs
    Amounts = {1}
    Minimums = {0, 6}
    Payloads = {}
    Funds <- TradeFunds
    DeployedFeeds <- TradeFeeds
    FeedPrices = {}
    FeedTimes = {}
    FeedDecimals = {}
    FeedResolutions = {}
    PRICE_FRESHNESS_WINDOW_SECS = 1
    MaxTime = 0
    MaxStray = 0
INVARIANT SupplyCoversLiquidity
