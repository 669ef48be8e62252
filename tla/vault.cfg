SPECIFICATION FairSpec
CONSTANTS
    N = 2
    vault = 2
    MaxDeposited = 2
    MAX_U64 = 20
    U32_RANGE = 2147483647
    MarketConfigs <- MCMarketConfigs
    PerpetualConfigs <- MCPerpetualConfigs
    Amounts = {1, 2}
    Minimums = {0}
    Payloads <- MCPayloads
    Funds <- MCFunds
    DeployedFeeds <- MCFeeds
    FeedPrices = {}
    FeedTimes = {}
    FeedDecimals = {}
    FeedResolutions = {}
    PRICE_FRESHNESS_WINDOW_SECS = 1
    MaxTime = 2
    MaxStray = 1
INVARIANTS
    TypeOK
    CollateralizedApart
PROPERTIES
    SeedRecovered
    ClaimsBecomeCapital
    VaultCollects
