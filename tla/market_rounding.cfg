SPECIFICATION Spec
CONSTANTS
    N = 1
    MAX_U64 = 20
    U32_RANGE = 2147483647
    Configs <- RoundingConfigs
    Amounts = {3, 10, 41}
    Minimums = {0, 6}
    Payloads = {}
    Funds <- RoundingFunds
    DeployedFeeds <- TradeFeeds
    FeedPrices = {}
    FeedTimes = {}
    FeedDecimals = {}
    FeedResolutions = {}
    PRICE_FRESHNESS_WINDOW_SECS = 1
    MaxTime = 0
    MaxStray = 0
PROPERTIES
    TradeRoundingBounded
    RoundTripBounded
