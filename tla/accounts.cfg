SPECIFICATION FairSpec
CONSTANTS
    k1 = k1
    k2 = k2
    elsewhere = elsewhere
    Keys = {k1, k2}
    NoKey = NoKey
    Address <- MCAddress
    Wasms = {wallet_code, other_code, library_code}
    Initializable = {wallet_code, other_code}
    NoWasm = NoWasm
    SmartWalletWasm = wallet_code
    deployed_address <- MCDeployedAddress
    Invocations <- MCInvocations
    payload <- MCPayload
    Logins <- MCLogins
    PAYLOAD_BYTES = 5
    MaxAssertions = 2
INVARIANTS
    TypeOK
    OnlyApproved
    WalletsAreTheirKeys
PROPERTIES
    EveryKeyGetsItsWallet
    ApprovalsAreCarriedOut
CHECK_DEADLOCK FALSE
