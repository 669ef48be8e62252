SPECIFICATION Spec
CONSTANTS
    N = 1
    MAX_U64 = 20
    U32_RANGE = 2147483647
    Configs <- SettleConfigs
    Amounts = {}
    Minimums = {0}
    Payloads <- SettlePayloads
    Funds <- SettleFunds
    DeployedFeeds <- SettleFeeds
    FeedPrices = {0, 26, 259}
    FeedTimes = {1, 3, 20}
    FeedDecimals = {1, 2, 3}
    FeedResolutions = {1, 2}
    PRICE_FRESHNESS_WINDOW_SECS = 1
    MaxTime = 4
    MaxStray = 0
PROPERTIES
    SettlementCorroborated
