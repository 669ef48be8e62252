SPECIFICATION FairSpec
CONSTANTS
    N = 2
    MAX_U64 = 20
    U32_RANGE = 2147483647
    Configs <- TradeConfigs
    Amounts = {1, 2, 5}
    Minimums <- TradeMinimums
    Payloads <- TradePayloads
    Funds <- TradeFunds
    DeployedFeeds <- TradeFeeds
    FeedPrices = {}
    FeedTimes = {}
    FeedDecimals = {}
    FeedResolutions = {}
    PRICE_FRESHNESS_WINDOW_SECS = 1
    MaxTime = 0
    MaxStray = 1
INVARIANTS
    TypeOK
    CollateralHeld
    ClaimsBacked
    RedeemerPayable
    PoolNeverEmpty
PROPERTIES
    WindDownFinal
    ImplementsEscrow
    HoldersPaid
