SPECIFICATION FairSpec
CONSTANTS
    N = 2
    MAX_U64 = 20
    U32_RANGE = 2147483647
    Configs <- LiveConfigs
    Amounts = {1}
    Minimums = {0}
    Payloads <- LivePayloads
    Funds <- LiveFunds
    DeployedFeeds <- LiveFeeds
    FeedPrices = {30}
    FeedTimes = {1}
    FeedDecimals = {}
    FeedResolutions = {}
    PRICE_FRESHNESS_WINDOW_SECS = 1
    MaxTime = 3
    MaxStray = 1
PROPERTIES
    EventuallyFinal
    HoldersPaid
    ImplementsEscrow
