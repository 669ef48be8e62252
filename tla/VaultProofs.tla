---------------------------- MODULE VaultProofs ----------------------------
(***************************************************************************)
(* For every number of addresses, every set of arguments and amounts and   *)
(* every bound: a market and a perpetual that share a token, a clock and a *)
(* treasury with the vault lose no token, and the vault gets what it is    *)
(* owed; while no purchase can cost shares, both stay collateralized       *)
(* apart.  Every step of the three is a step of one of them that the       *)
(* others stand by, so what MarketProofs and PerpetualProofs show of each  *)
(* carries over.                                                           *)
(***************************************************************************)
EXTENDS VaultedMarkets, ShareLedgerProofs

\* The same instances as M and P, of the modules that hold the proofs.
MP == INSTANCE MarketProofs WITH
    Configs <- MarketConfigs,
    cfg <- m_cfg, pinned <- m_pinned, status <- m_status, final_price <- m_final_price,
    pool <- m_pool, total_supply <- m_total_supply, bal <- m_bal,
    held <- m_held, stray <- m_stray

PP == INSTANCE PerpetualProofs WITH
    Configs <- PerpetualConfigs, MaxStray <- 0,
    cfg <- p_cfg, pinned <- p_pinned, status <- p_status,
    last_price_cents <- p_last_price_cents, last_price_at <- p_last_price_at,
    pool <- p_pool, total_supply <- p_total_supply, bal <- p_bal,
    held <- p_held, stray <- p_stray

-----------------------------------------------------------------------------
\* M's definitions and MP's are the same text of the same modules: each of the
\* market that the vault's module speaks of is one that MarketProofs proves about.

\* What is defined by recursion is the same function.
LEMMA SameMarketTables ==
    ASSUME NEW n
    PROVE  M!isqrt(n) = MP!isqrt(n) /\ M!pow10(n) = MP!pow10(n)
BY DEF M!isqrt, MP!isqrt, M!NewtonStep, MP!NewtonStep, M!pow10, MP!pow10

\* Both convert and corroborate prices alike.
LEMMA SameMarketPrices ==
    /\ \A price, exponent : M!to_cents(price, exponent) = MP!to_cents(price, exponent)
    /\ \A f, leg, decimals, time, cents :
          M!verify_oracle_corroboration(f, leg, decimals, time, cents)
             <=> MP!verify_oracle_corroboration(f, leg, decimals, time, cents)
<1>1. ASSUME NEW price, NEW exponent
      PROVE  M!to_cents(price, exponent) = MP!to_cents(price, exponent)
    BY SameMarketTables DEF M!to_cents, MP!to_cents
<1>2. ASSUME NEW price, NEW decimals
      PROVE  M!reflector_price_to_cents(price, decimals)
               = MP!reflector_price_to_cents(price, decimals)
    BY SameMarketTables DEF M!reflector_price_to_cents, MP!reflector_price_to_cents
<1>3. ASSUME NEW reference, NEW cents
      PROVE  M!divergence_bps(reference, cents) = MP!divergence_bps(reference, cents)
    BY DEF M!divergence_bps, MP!divergence_bps, M!Magnitude, MP!Magnitude
<1> QED
    BY <1>1, <1>2, <1>3
    DEF M!verify_oracle_corroboration, MP!verify_oracle_corroboration, M!lastprice,
        MP!lastprice

\* Both charge and swap alike.
LEMMA SameMarketFees ==
    /\ \A amount, fee_bps : M!apply_fee(amount, fee_bps) = MP!apply_fee(amount, fee_bps)
    /\ \A c : M!CurrentFee(c) = MP!CurrentFee(c)
    /\ \A x, y, z : M!cpmm_out(x, y, z) = MP!cpmm_out(x, y, z)
    /\ \A x, y, z : M!cpmm_sell_out(x, y, z) = MP!cpmm_sell_out(x, y, z)
BY SameMarketTables
DEF M!apply_fee, MP!apply_fee, M!CurrentFee, MP!CurrentFee, M!effective_fee_bps,
    MP!effective_fee_bps, M!decayed, MP!decayed, M!cpmm_out, MP!cpmm_out, M!cpmm_sell_out, MP!cpmm_sell_out

\* A signer's call of one is that call of the other.
LEMMA SameMarketCallsBy ==
    ASSUME NEW user, M!CallsBy(user)
    PROVE  MP!CallsBy(user)
<1> USE DEF M!Addr, MP!Addr, M!Prediction, MP!Prediction, M!other, MP!other, M!Ledgers,
            MP!Ledgers, M!NoShares, MP!NoShares, M!credit, MP!credit, M!CanDebit,
            MP!CanDebit, M!debit, MP!debit, M!clear, MP!clear, M!exchange, MP!exchange,
            M!PayIn, MP!PayIn, M!PayOut, MP!PayOut, M!fixed, MP!fixed, M!contract,
            MP!contract, M!oracles, MP!oracles, M!vars, MP!vars, M!IsOpen, MP!IsOpen
<1>1. ASSUME NEW amount
      PROVE  /\ M!Split(user, amount) => MP!Split(user, amount)
             /\ M!Merge(user, amount) => MP!Merge(user, amount)
             /\ M!StrayTransfer(user, amount) => MP!StrayTransfer(user, amount)
    BY DEF M!Split, MP!Split, M!MintPairs, MP!MintPairs, M!Merge, MP!Merge, M!BurnPairs,
           MP!BurnPairs, M!StrayTransfer, MP!StrayTransfer, M!SendStray, MP!SendStray
<1>2. ASSUME NEW amount, NEW side, NEW minimum
      PROVE  /\ M!Buy(user, side, amount, minimum) => MP!Buy(user, side, amount, minimum)
             /\ M!Sell(user, side, amount, minimum) => MP!Sell(user, side, amount, minimum)
    BY SameMarketFees
    DEF M!Buy, MP!Buy, M!SwapIn, MP!SwapIn, M!Sell, MP!Sell, M!SwapOut, MP!SwapOut,
        M!DepthExceeded, MP!DepthExceeded, M!TradingOpen, MP!TradingOpen
<1>3. ASSUME NEW amount, NEW to, NEW side
      PROVE  M!Transfer(user, to, side, amount) => MP!Transfer(user, to, side, amount)
    BY DEF M!Transfer, MP!Transfer, M!MoveShares, MP!MoveShares
<1>4. M!Redeem(user) => MP!Redeem(user)
    BY DEF M!Redeem, MP!Redeem, M!PayClaim, MP!PayClaim, M!Payout, MP!Payout, M!Half,
           MP!Half, M!Final, MP!Final, M!Resolved, MP!Resolved, M!Winner, MP!Winner
<1> QED
    BY <1>1, <1>2, <1>3, <1>4 DEF M!CallsBy, MP!CallsBy

\* So are settle and cancel, which anybody may call,
LEMMA SameMarketOpenCalls ==
    ASSUME M!OpenCalls
    PROVE  MP!OpenCalls
<1> USE DEF M!IsOpen, MP!IsOpen, M!fixed, MP!fixed, M!oracles, MP!oracles,
            M!PoolToTreasury, MP!PoolToTreasury, M!Prediction, MP!Prediction, M!credit,
            MP!credit
<1>1. ASSUME NEW payload, M!Settle(payload)
      PROVE  MP!Settle(payload)
    BY <1>1, SameMarketPrices
    DEF M!Settle, MP!Settle, M!Outcome, MP!Outcome, M!UsableUpdate, MP!UsableUpdate,
        M!PayloadCents, MP!PayloadCents, M!Corroborated, MP!Corroborated
<1>2. M!Cancel => MP!Cancel
    BY DEF M!Cancel, MP!Cancel, M!GraceElapsed, MP!GraceElapsed
<1> QED
    BY <1>1, <1>2 DEF M!OpenCalls, MP!OpenCalls

\* initialize, and the steps of clock and feeds.
LEMMA SameMarketSteps ==
    /\ M!Init => MP!Init
    /\ \A c : M!Initialize(c) => MP!Initialize(c)
    /\ M!Tick => MP!Tick
    /\ \A leg : M!FeedUpdate(leg) => MP!FeedUpdate(leg)
BY DEF M!Init, MP!Init, M!ExchangeInit, MP!ExchangeInit, M!OraclesInit, MP!OraclesInit,
       M!NoShares, MP!NoShares, M!Prediction, MP!Prediction, M!Addr, MP!Addr, M!Initialize,
       MP!Initialize, M!UsableTerms, MP!UsableTerms, M!MAX_FEE_BPS, MP!MAX_FEE_BPS,
       M!UsableLegs, MP!UsableLegs, M!DecimalsAtInit, MP!DecimalsAtInit, M!Seed, MP!Seed,
       M!PayIn, MP!PayIn, M!oracles, MP!oracles, M!Tick, MP!Tick, M!CloseLedger,
       MP!CloseLedger, M!contract, MP!contract, M!exchange, MP!exchange, M!FeedUpdate,
       MP!FeedUpdate, M!Publish, MP!Publish, M!SetFeed, MP!SetFeed, M!set_price,
       MP!set_price, M!set_none, MP!set_none, M!set_decimals, MP!set_decimals,
       M!set_resolution, MP!set_resolution

\* What is proved of the invariants of one holds of the other's.
LEMMA SameMarketInvariants ==
    /\ MP!TypeOK => M!TypeOK
    /\ MP!CollateralHeld => M!CollateralHeld
    /\ MP!ClaimsBacked => M!ClaimsBacked
    /\ MP!RedeemerPayable => M!RedeemerPayable
BY DEF M!TypeOK, MP!TypeOK, M!UsableTerms, MP!UsableTerms, M!MAX_FEE_BPS, MP!MAX_FEE_BPS,
       M!Final, MP!Final, M!Resolved, MP!Resolved, M!ExchangeTypeOK,
       MP!ExchangeTypeOK, M!Prediction, MP!Prediction, M!Ledgers, MP!Ledgers, M!Addr,
       MP!Addr, M!OraclesTypeOK, MP!OraclesTypeOK, M!Legs, MP!Legs, M!Feed, MP!Feed,
       M!PriceData, MP!PriceData, M!CollateralHeld, MP!CollateralHeld, M!ClaimsBacked,
       MP!ClaimsBacked, M!NoShares, MP!NoShares, M!IsOpen, MP!IsOpen, M!SidesBalanced,
       MP!SidesBalanced, M!HalvesBacked, MP!HalvesBacked, M!Total, MP!Total, M!Winner,
       MP!Winner, M!RedeemerPayable, MP!RedeemerPayable, M!Payout, MP!Payout, M!Half,
       MP!Half


-----------------------------------------------------------------------------
\* P's definitions and PP's are the same text of the same modules: each of the
\* perpetual that the vault's module speaks of is one that PerpetualProofs proves about.

\* What is defined by recursion is the same function.
LEMMA SamePerpetualTables ==
    ASSUME NEW n
    PROVE  P!isqrt(n) = PP!isqrt(n) /\ P!pow10(n) = PP!pow10(n)
BY DEF P!isqrt, PP!isqrt, P!NewtonStep, PP!NewtonStep, P!pow10, PP!pow10

\* Both convert and corroborate prices alike.
LEMMA SamePerpetualPrices ==
    /\ \A price, exponent : P!to_cents(price, exponent) = PP!to_cents(price, exponent)
    /\ \A f, leg, decimals, time, cents :
          P!verify_oracle_corroboration(f, leg, decimals, time, cents)
             <=> PP!verify_oracle_corroboration(f, leg, decimals, time, cents)
<1>1. ASSUME NEW price, NEW exponent
      PROVE  P!to_cents(price, exponent) = PP!to_cents(price, exponent)
    BY SamePerpetualTables DEF P!to_cents, PP!to_cents
<1>2. ASSUME NEW price, NEW decimals
      PROVE  P!reflector_price_to_cents(price, decimals)
               = PP!reflector_price_to_cents(price, decimals)
    BY SamePerpetualTables DEF P!reflector_price_to_cents, PP!reflector_price_to_cents
<1>3. ASSUME NEW reference, NEW cents
      PROVE  P!divergence_bps(reference, cents) = PP!divergence_bps(reference, cents)
    BY DEF P!divergence_bps, PP!divergence_bps, P!Magnitude, PP!Magnitude
<1> QED
    BY <1>1, <1>2, <1>3
    DEF P!verify_oracle_corroboration, PP!verify_oracle_corroboration, P!lastprice,
        PP!lastprice

\* Both charge and swap alike.
LEMMA SamePerpetualFees ==
    /\ \A amount, fee_bps : P!apply_fee(amount, fee_bps) = PP!apply_fee(amount, fee_bps)
    /\ \A c : P!CurrentFee(c) = PP!CurrentFee(c)
    /\ \A x, y, z : P!cpmm_out(x, y, z) = PP!cpmm_out(x, y, z)
    /\ \A x, y, z : P!cpmm_sell_out(x, y, z) = PP!cpmm_sell_out(x, y, z)
BY SamePerpetualTables
DEF P!apply_fee, PP!apply_fee, P!CurrentFee, PP!CurrentFee, P!effective_fee_bps,
    PP!effective_fee_bps, P!decayed, PP!decayed, P!cpmm_out, PP!cpmm_out, P!cpmm_sell_out, PP!cpmm_sell_out

\* A signer's call of one is that call of the other.
LEMMA SamePerpetualCallsBy ==
    ASSUME NEW user, P!CallsBy(user)
    PROVE  PP!CallsBy(user)
<1> USE DEF P!Addr, PP!Addr, P!Prediction, PP!Prediction, P!other, PP!other, P!Ledgers,
            PP!Ledgers, P!NoShares, PP!NoShares, P!credit, PP!credit, P!CanDebit,
            PP!CanDebit, P!debit, PP!debit, P!clear, PP!clear, P!exchange, PP!exchange,
            P!PayIn, PP!PayIn, P!PayOut, PP!PayOut, P!fixed, PP!fixed, P!contract,
            PP!contract, P!oracles, PP!oracles, P!vars, PP!vars, P!IsOpen, PP!IsOpen,
            P!checkpoint, PP!checkpoint
<1>1. ASSUME NEW amount
      PROVE  /\ P!Split(user, amount) => PP!Split(user, amount)
             /\ P!Merge(user, amount) => PP!Merge(user, amount)
             /\ P!StrayTransfer(user, amount) => PP!StrayTransfer(user, amount)
    BY DEF P!Split, PP!Split, P!MintPairs, PP!MintPairs, P!Merge, PP!Merge, P!BurnPairs,
           PP!BurnPairs, P!StrayTransfer, PP!StrayTransfer, P!SendStray, PP!SendStray
<1>2. ASSUME NEW amount, NEW side, NEW minimum
      PROVE  /\ P!Buy(user, side, amount, minimum) => PP!Buy(user, side, amount, minimum)
             /\ P!Sell(user, side, amount, minimum) => PP!Sell(user, side, amount, minimum)
    BY SamePerpetualFees
    DEF P!Buy, PP!Buy, P!SwapIn, PP!SwapIn, P!Sell, PP!Sell, P!SwapOut, PP!SwapOut,
        P!DepthExceeded, PP!DepthExceeded
<1>3. ASSUME NEW amount, NEW to, NEW side
      PROVE  P!Transfer(user, to, side, amount) => PP!Transfer(user, to, side, amount)
    BY DEF P!Transfer, PP!Transfer, P!MoveShares, PP!MoveShares
<1>4. P!Redeem(user) => PP!Redeem(user)
    BY DEF P!Redeem, PP!Redeem, P!PayClaim, PP!PayClaim, P!Payout, PP!Payout, P!Half,
           PP!Half
<1>5. P!Terminate(user) => PP!Terminate(user)
    BY DEF P!Terminate, PP!Terminate, P!PoolToTreasury, PP!PoolToTreasury
<1> QED
    BY <1>1, <1>2, <1>3, <1>4, <1>5 DEF P!CallsBy, PP!CallsBy

\* So is record_price_checkpoint, which anybody may call,
LEMMA SamePerpetualOpenCalls ==
    ASSUME P!OpenCalls
    PROVE  PP!OpenCalls
<1>1. ASSUME NEW payload, P!RecordPriceCheckpoint(payload)
      PROVE  PP!RecordPriceCheckpoint(payload)
    BY <1>1, SamePerpetualPrices
    DEF P!RecordPriceCheckpoint, PP!RecordPriceCheckpoint, P!HasPriceOracle,
        PP!HasPriceOracle, P!TimelyUpdate, PP!TimelyUpdate, P!UsableUpdate,
        PP!UsableUpdate, P!PayloadCents, PP!PayloadCents, P!Corroborated, PP!Corroborated,
        P!fixed, PP!fixed, P!exchange, PP!exchange, P!oracles, PP!oracles
<1> QED
    BY <1>1 DEF P!OpenCalls, PP!OpenCalls

\* and initialize.
LEMMA SamePerpetualSteps ==
    /\ P!Init => PP!Init
    /\ \A c : P!Initialize(c) => PP!Initialize(c)
BY DEF P!Init, PP!Init, P!ExchangeInit, PP!ExchangeInit, P!OraclesInit, PP!OraclesInit,
       P!NoShares, PP!NoShares, P!Prediction, PP!Prediction, P!Addr, PP!Addr, P!Initialize,
       PP!Initialize, P!UsableTerms, PP!UsableTerms, P!MAX_FEE_BPS, PP!MAX_FEE_BPS,
       P!UsableLegs, PP!UsableLegs, P!HasPriceOracle, PP!HasPriceOracle, P!DecimalsAtInit,
       PP!DecimalsAtInit, P!Seed, PP!Seed, P!PayIn, PP!PayIn, P!oracles, PP!oracles

\* What is proved of the invariants of one holds of the other's.
LEMMA SamePerpetualInvariants ==
    /\ PP!TypeOK => P!TypeOK
    /\ PP!CollateralHeld => P!CollateralHeld
    /\ PP!ClaimsBacked => P!ClaimsBacked
    /\ PP!RedeemerPayable => P!RedeemerPayable
BY DEF P!TypeOK, PP!TypeOK, P!UsableTerms, PP!UsableTerms, P!MAX_FEE_BPS, PP!MAX_FEE_BPS,
       P!ExchangeTypeOK, PP!ExchangeTypeOK, P!Prediction,
       PP!Prediction, P!Ledgers, PP!Ledgers, P!Addr, PP!Addr, P!OraclesTypeOK,
       PP!OraclesTypeOK, P!Legs, PP!Legs, P!Feed, PP!Feed, P!PriceData, PP!PriceData,
       P!CollateralHeld, PP!CollateralHeld, P!ClaimsBacked, PP!ClaimsBacked, P!NoShares,
       PP!NoShares, P!IsOpen, PP!IsOpen, P!SidesBalanced, PP!SidesBalanced, P!HalvesBacked,
       PP!HalvesBacked, P!Total, PP!Total, P!RedeemerPayable, PP!RedeemerPayable, P!Payout,
       PP!Payout, P!Half, PP!Half

-----------------------------------------------------------------------------
\* What MarketProofs and PerpetualProofs show, for the constants of this module.

\* What the market assumes of its constants follows from VaultedConstants.
LEMMA MarketConstantsHold ==
    /\ N \in Nat \ {0} /\ vault \in MP!Addr
    /\ MarketConfigs \subseteq MP!Arguments
    /\ Funds \in [MP!Addr -> Nat]
    /\ \A p \in Payloads : MP!IsPayload(p)
    /\ DeployedFeeds \subseteq [MP!Legs -> MP!Feed]
BY VaultedConstants, VaultConstants, AddressCount
DEF MP!Addr, Addr, M!Addr, MP!Arguments, M!Arguments, MP!Legs, M!Legs, MP!OracleFeedConfig,
    M!OracleFeedConfig, MP!Feed, M!Feed, MP!PriceData, M!PriceData, MP!IsPayload, M!IsPayload

\* The steps of the market: calls of others, the vault's redemption, and what the
\* vault sends it.
MarketMoves ==
    \/ MP!StepOfOthers(vault)
    \/ MP!Redeem(vault)
    \/ \E amount \in Amounts : MP!StrayTransfer(vault, amount)

\* A step of the market keeps its invariant and the collateral; a market that ends
\* leaves the vault a claim on a reserve.
LEMMA MarketFacts ==
    ASSUME MP!IInv, MarketMoves
    PROVE  /\ MP!IInv' /\ now <= now'
           /\ Total(wallet') + m_held' = Total(wallet) + m_held
           /\ /\ m_status = "Open" /\ m_status' \in M!Final /\ m_cfg.treasury = vault
              /\ \A side \in Prediction : m_bal[side][vault] >= 0
              => \E side \in Prediction : M!Payout(m_status', m_bal', vault) >= m_pool[side]
<1>1. MP!Next \/ UNCHANGED MP!vars
    BY MarketConstantsHold
    DEF MarketMoves, MP!Next, MP!StepOfOthers, MP!CallsBy
<1>2. MP!IInv'
    BY <1>1, MarketConstantsHold, VaultedConstants, MP!StepInv DEF MP!StepFacts
<1>3. Total(wallet') + m_held' = Total(wallet) + m_held
    BY <1>1, MarketConstantsHold, VaultedConstants, MP!StepConserves
    DEF MP!Conserved, MP!Total, Total
<1>4. now <= now'
    BY <1>1, MarketConstantsHold, VaultedConstants, MP!ClockAdvances
<1>5. ASSUME m_status = "Open", m_status' \in M!Final, m_cfg.treasury = vault,
             \A side \in Prediction : m_bal[side][vault] >= 0
      PROVE  \E side \in Prediction : M!Payout(m_status', m_bal', vault) >= m_pool[side]
    <2>1. \E side \in MP!Prediction :
              MP!Payout(m_status', m_bal', m_cfg.treasury) >= m_pool[side]
        BY <1>1, <1>5, MarketConstantsHold, VaultedConstants, MP!TreasuryClaim
        DEF MP!IsOpen, MP!Final, MP!Resolved, M!Final, M!Resolved, MP!Prediction, Prediction
    <2> QED
        BY <1>5, <2>1
        DEF MP!Prediction, Prediction, MP!Payout, M!Payout, MP!Half, M!Half, MP!Winner, M!Winner
<1> QED
    BY <1>2, <1>3, <1>4, <1>5

\* It lowers the vault's shares only by paying for them into the vault's purse.
LEMMA MarketPays ==
    ASSUME MP!IInv, MarketMoves
    PROVE  \/ \A side \in Prediction : m_bal'[side][vault] >= m_bal[side][vault]
           \/ wallet'[vault] - wallet[vault] = M!Payout(m_status, m_bal, vault)
              /\ M!Payout(m_status, m_bal, vault) # 0
<1>1. CASE MP!StepOfOthers(vault)
    BY <1>1, MarketConstantsHold, VaultedConstants, MP!OthersTakeNothing
    DEF MP!KeepsShares, MP!Prediction, Prediction
<1>2. CASE MP!Redeem(vault)
    <2> DEFINE payout == MP!Payout(m_status, m_bal, vault)
    <2>1. payout \in Int
        BY MarketConstantsHold, VaultedConstants, MP!PayoutInt
    <2>2. wallet \in [Addr -> Nat]
        BY DEF MP!IInv, MP!Typed, MP!ExchangeTyped, MP!Addr, Addr
    <2>3. payout > 0 /\ wallet' = [wallet EXCEPT ![vault] = @ + payout]
        BY <1>2 DEF MP!Redeem, MP!PayClaim, MP!PayOut
    <2>4. payout = M!Payout(m_status, m_bal, vault)
        BY DEF MP!Payout, M!Payout, MP!Half, M!Half, MP!Winner, M!Winner
    <2> HIDE DEF payout
    <2>5. wallet'[vault] - wallet[vault] = payout /\ payout # 0
        BY <2>1, <2>2, <2>3, VaultConstants
    <2> QED  BY <2>4, <2>5
<1>3. ASSUME NEW amount \in Amounts, MP!StrayTransfer(vault, amount)
      PROVE  \A side \in Prediction : m_bal'[side][vault] >= m_bal[side][vault]
    <2>1. m_bal' = m_bal
        BY <1>3 DEF MP!StrayTransfer, MP!SendStray
    <2>2. \A side \in Prediction : m_bal[side][vault] \in Int
        BY MarketConstantsHold
        DEF MP!IInv, MP!Typed, MP!ExchangeTyped, MP!Signed, MP!Prediction, Prediction
    <2> QED  BY <2>1, <2>2
<1> QED
    BY <1>1, <1>2, <1>3 DEF MarketMoves

\* Nobody can make the vault owe shares.
LEMMA MarketSpares ==
    ASSUME MP!IInv, MarketMoves, \A side \in Prediction : m_bal[side][vault] >= 0
    PROVE  \A side \in Prediction : m_bal'[side][vault] \in Int /\ m_bal'[side][vault] >= 0
<1>1. \A side \in Prediction : m_bal[side][vault] \in Int /\ m_bal'[side][vault] \in Int
    BY MarketFacts, MarketConstantsHold
    DEF MP!IInv, MP!Typed, MP!ExchangeTyped, MP!Signed, MP!Prediction, Prediction
<1>2. CASE MP!StepOfOthers(vault)
    <2>1. \A side \in Prediction : m_bal'[side][vault] >= m_bal[side][vault]
        BY <1>2, MarketConstantsHold, VaultedConstants, MP!OthersTakeNothing
        DEF MP!KeepsShares, MP!Prediction, Prediction
    <2> QED  BY <1>1, <2>1
<1>3. CASE MP!Redeem(vault)
    <2>1. m_bal' = MP!clear(m_bal, vault) /\ m_bal \in MP!Signed
        BY <1>3 DEF MP!Redeem, MP!PayClaim, MP!IInv, MP!Typed, MP!ExchangeTyped
    <2>2. \A side \in Prediction : m_bal'[side][vault] = 0
        BY <2>1, MarketConstantsHold DEF MP!clear, MP!Signed, MP!Prediction, Prediction
    <2> QED  BY <2>2
<1>4. ASSUME NEW amount \in Amounts, MP!StrayTransfer(vault, amount)
      PROVE  m_bal' = m_bal
    BY <1>4 DEF MP!StrayTransfer, MP!SendStray
<1> QED
    BY <1>1, <1>2, <1>3, <1>4 DEF MarketMoves

\* The market stands by what the others do.
LEMMA MarketStands ==
    ASSUME MP!IInv, UNCHANGED market, wallet' \in [Addr -> Nat], MP!OraclesTypeOK'
    PROVE  MP!IInv'
<1>1. UNCHANGED MP!contract /\ UNCHANGED <<m_pool, m_total_supply, m_bal, m_held, m_stray>>
    BY DEF market, MP!contract
<1>2. wallet' \in [MP!Addr -> Nat]
    BY DEF MP!Addr, Addr
<1> QED
    BY <1>1, <1>2, MarketConstantsHold, VaultedConstants, MP!BystanderInv

\* What the perpetual assumes of its constants does too.
LEMMA PerpetualConstantsHold ==
    /\ N \in Nat \ {0} /\ vault \in PP!Addr
    /\ PerpetualConfigs \subseteq PP!Arguments
    /\ Funds \in [PP!Addr -> Nat]
    /\ \A p \in Payloads : PP!IsPayload(p)
    /\ DeployedFeeds \subseteq [PP!Legs -> PP!Feed]
BY VaultedConstants, VaultConstants, AddressCount
DEF PP!Addr, Addr, P!Addr, PP!Arguments, P!Arguments, PP!Legs, P!Legs, M!Legs,
    PP!OracleFeedConfig, P!OracleFeedConfig, PP!Feed, M!Feed, PP!PriceData, M!PriceData,
    PP!IsPayload, M!IsPayload

\* The perpetual, likewise; the model sends it nothing besides.
PerpetualMoves == PP!StepOfOthers(vault) \/ PP!Redeem(vault)

\* A step of the perpetual keeps its invariant and the collateral; a perpetual that
\* is wound down leaves the vault a claim on at least one reserve.
LEMMA PerpetualFacts ==
    ASSUME PP!IInv, PerpetualMoves
    PROVE  /\ PP!IInv' /\ now <= now'
           /\ Total(wallet') + p_held' = Total(wallet) + p_held
           /\ /\ p_status = "Open" /\ p_status' = "Terminated" /\ p_cfg.treasury = vault
              /\ \A side \in Prediction : p_bal[side][vault] >= 0
              => \E side \in Prediction :
                     P!Half(p_bal'["Yes"][vault], p_bal'["No"][vault]) >= p_pool[side]
<1>1. PP!Next \/ UNCHANGED PP!vars
    BY PerpetualConstantsHold
    DEF PerpetualMoves, PP!Next, PP!StepOfOthers, PP!CallsBy
<1>2. PP!IInv'
    BY <1>1, PerpetualConstantsHold, VaultedConstants, PP!StepInv
<1>3. Total(wallet') + p_held' = Total(wallet) + p_held
    BY <1>1, PerpetualConstantsHold, VaultedConstants, PP!StepConserves
    DEF PP!Conserved, PP!Total, Total
<1>4. now <= now'
    BY <1>1, PerpetualConstantsHold, VaultedConstants, PP!ClockAdvances
<1>5. ASSUME p_status = "Open", p_status' = "Terminated", p_cfg.treasury = vault,
             \A side \in Prediction : p_bal[side][vault] >= 0
      PROVE  \E side \in Prediction :
                 P!Half(p_bal'["Yes"][vault], p_bal'["No"][vault]) >= p_pool[side]
    <2>1. \E side \in PP!Prediction :
              PP!Half(p_bal'["Yes"][p_cfg.treasury], p_bal'["No"][p_cfg.treasury])
                >= p_pool[side]
        BY <1>1, <1>5, PerpetualConstantsHold, VaultedConstants, PP!TreasuryClaim
        DEF PP!IsOpen, PP!Prediction, Prediction
    <2> QED
        BY <1>5, <2>1
        DEF PP!Prediction, Prediction, PP!Half, P!Half
<1> QED
    BY <1>2, <1>3, <1>4, <1>5

\* It lowers the vault's shares only by paying for them into the vault's purse.
LEMMA PerpetualPays ==
    ASSUME PP!IInv, PerpetualMoves
    PROVE  \/ \A side \in Prediction : p_bal'[side][vault] >= p_bal[side][vault]
           \/ wallet'[vault] - wallet[vault] = P!Payout(vault) /\ P!Payout(vault) # 0
<1>1. CASE PP!StepOfOthers(vault)
    BY <1>1, PerpetualConstantsHold, VaultedConstants, PP!OthersTakeNothing
    DEF PP!KeepsShares, PP!Prediction, Prediction
<1>2. CASE PP!Redeem(vault)
    <2> DEFINE payout == PP!Payout(vault)
    <2>1. payout \in Int
        BY PerpetualConstantsHold, VaultedConstants, PP!PayoutInt
    <2>2. wallet \in [Addr -> Nat]
        BY DEF PP!IInv, PP!Typed, PP!ExchangeTyped, PP!Addr, Addr
    <2>3. payout > 0 /\ wallet' = [wallet EXCEPT ![vault] = @ + payout]
        BY <1>2 DEF PP!Redeem, PP!PayClaim, PP!PayOut
    <2>4. payout = P!Payout(vault)
        BY DEF PP!Payout, P!Payout, PP!Half, P!Half
    <2> HIDE DEF payout
    <2>5. wallet'[vault] - wallet[vault] = payout /\ payout # 0
        BY <2>1, <2>2, <2>3, VaultConstants
    <2> QED  BY <2>4, <2>5
<1> QED
    BY <1>1, <1>2 DEF PerpetualMoves

\* Nobody can make the vault owe shares.
LEMMA PerpetualSpares ==
    ASSUME PP!IInv, PerpetualMoves, \A side \in Prediction : p_bal[side][vault] >= 0
    PROVE  \A side \in Prediction : p_bal'[side][vault] \in Int /\ p_bal'[side][vault] >= 0
<1>1. \A side \in Prediction : p_bal[side][vault] \in Int /\ p_bal'[side][vault] \in Int
    BY PerpetualFacts, PerpetualConstantsHold
    DEF PP!IInv, PP!Typed, PP!ExchangeTyped, PP!Signed, PP!Prediction, Prediction
<1>2. CASE PP!StepOfOthers(vault)
    <2>1. \A side \in Prediction : p_bal'[side][vault] >= p_bal[side][vault]
        BY <1>2, PerpetualConstantsHold, VaultedConstants, PP!OthersTakeNothing
        DEF PP!KeepsShares, PP!Prediction, Prediction
    <2> QED  BY <1>1, <2>1
<1>3. CASE PP!Redeem(vault)
    <2>1. p_bal' = PP!clear(p_bal, vault) /\ p_bal \in PP!Signed
        BY <1>3 DEF PP!Redeem, PP!PayClaim, PP!IInv, PP!Typed, PP!ExchangeTyped
    <2>2. \A side \in Prediction : p_bal'[side][vault] = 0
        BY <2>1, PerpetualConstantsHold DEF PP!clear, PP!Signed, PP!Prediction, Prediction
    <2> QED  BY <2>2
<1> QED
    BY <1>2, <1>3 DEF PerpetualMoves

\* The perpetual stands by what the others do.
LEMMA PerpetualStands ==
    ASSUME PP!IInv, UNCHANGED perpetual, wallet' \in [Addr -> Nat], PP!OraclesTypeOK',
           now <= now'
    PROVE  PP!IInv'
<1>1. UNCHANGED PP!contract /\ UNCHANGED <<p_pool, p_total_supply, p_bal, p_held, p_stray>>
    BY DEF perpetual, PP!contract
<1>2. wallet' \in [PP!Addr -> Nat]
    BY DEF PP!Addr, Addr
<1> QED
    BY <1>1, <1>2, PerpetualConstantsHold, VaultedConstants, PP!BystanderInv

-----------------------------------------------------------------------------
\* Every step of the three is one of the market, one of the perpetual, or one
\* between purses.

PursesMove ==
    \/ UNCHANGED wallet
    \/ \E from \in Addr, to \in Addr, amount \in Amounts :
          /\ amount > 0
          /\ wallet[from] >= amount
          /\ wallet' = sent(from, to, amount)

OwnTypeOK ==
    /\ admin \in Addr \cup {NoAdmin}
    /\ total_deposited \in 0..MaxDeposited

MarketAlone == MarketMoves /\ UNCHANGED <<perpetual, own>>

PerpetualAlone == PerpetualMoves /\ UNCHANGED <<market, own>>

PursesAlone == PursesMove /\ OwnTypeOK' /\ UNCHANGED <<market, perpetual, oracles>>

\* What the contracts do when somebody else than the vault calls them.
LEMMA OthersCall ==
    /\ MarketCall => MarketAlone
    /\ Environment => MarketAlone
    /\ PerpetualCall => PerpetualAlone
<1>1. Signers \subseteq MP!Addr \ {vault} /\ Signers \subseteq PP!Addr \ {vault}
    BY DEF Signers, MP!Addr, PP!Addr, Addr
<1>2. MarketCall => MarketAlone
    BY <1>1, SameMarketCallsBy, SameMarketOpenCalls, SameMarketSteps
    DEF MarketCall, MarketAlone, MarketMoves, MP!StepOfOthers
<1>3. Environment => MarketAlone
    BY SameMarketSteps
    DEF Environment, MarketAlone, MarketMoves, MP!StepOfOthers, M!Legs, MP!Legs
<1>4. PerpetualCall => PerpetualAlone
    BY <1>1, SamePerpetualCallsBy, SamePerpetualOpenCalls, SamePerpetualSteps
    DEF PerpetualCall, PerpetualAlone, PerpetualMoves, PP!StepOfOthers
<1> QED
    BY <1>2, <1>3, <1>4

\* What the vault does to them.
LEMMA VaultCalls ==
    ASSUME NEW user \in Signers
    PROVE  /\ RedeemFromMarket(user) => MarketAlone \/ PerpetualAlone
           /\ \A amount \in Amounts : WithdrawToMarket(user, amount) => MarketAlone
<1>1. ASSUME M!Redeem(vault), UNCHANGED perpetual, UNCHANGED own
      PROVE  MarketAlone
    <2>1. MP!Redeem(vault)
        BY <1>1
        DEF M!Redeem, MP!Redeem, M!PayClaim, MP!PayClaim, M!Payout, MP!Payout, M!Half, MP!Half,
            M!Final, MP!Final, M!Resolved, MP!Resolved, M!Winner, MP!Winner, M!PayOut, MP!PayOut,
            M!clear, MP!clear, M!contract, MP!contract, M!oracles, MP!oracles
    <2> QED  BY <1>1, <2>1 DEF MarketAlone, MarketMoves
<1>2. ASSUME P!Redeem(vault), UNCHANGED market, UNCHANGED own
      PROVE  PerpetualAlone
    <2>1. PP!Redeem(vault)
        BY <1>2
        DEF P!Redeem, PP!Redeem, P!PayClaim, PP!PayClaim, P!Payout, PP!Payout, P!Half, PP!Half,
            P!PayOut, PP!PayOut, P!clear, PP!clear, P!contract, PP!contract, P!oracles, PP!oracles
    <2> QED  BY <1>2, <2>1 DEF PerpetualAlone, PerpetualMoves
<1>3. ASSUME NEW amount \in Amounts, WithdrawToMarket(user, amount)
      PROVE  MarketAlone
    <2>1. MP!StrayTransfer(vault, amount)
        BY <1>3
        DEF WithdrawToMarket, MP!StrayTransfer, M!SendStray, MP!SendStray, M!PayIn, MP!PayIn,
            MP!contract, MP!oracles, oracles
    <2> QED  BY <1>3, <2>1 DEF MarketAlone, MarketMoves, WithdrawToMarket
<1> QED
    BY <1>1, <1>2, <1>3 DEF RedeemFromMarket

\* No step moves both a market and a perpetual, whoever takes it.
LEMMA StepKinds ==
    ASSUME OwnTypeOK, [Next]_vars
    PROVE  MarketAlone \/ PerpetualAlone \/ PursesAlone
<1>1. Signers \subseteq Addr /\ vault \in Addr /\ NoAdmin \notin Addr
    BY VaultConstants, AddressCount DEF Signers, Addr, NoAdmin
<1>2. CASE VaultCall
    <2>1. ASSUME NEW user \in Signers, InitializeVault(user)
          PROVE  PursesAlone
        BY <1>1, <1>2, <2>1, VaultConstants
        DEF InitializeVault, VaultCall, PursesAlone, PursesMove, OwnTypeOK
    <2>2. ASSUME NEW user \in Signers, NEW amount \in Amounts, Deposit(user, amount)
          PROVE  PursesAlone
        <3>1. total_deposited' \in 0..MaxDeposited
            BY <2>2, VaultConstants, VaultedConstants DEF Deposit, OwnTypeOK
        <3> QED
            BY <1>1, <1>2, <2>2, <3>1
            DEF Deposit, VaultCall, PursesAlone, PursesMove, OwnTypeOK
    <2>3. ASSUME NEW user \in Signers, NEW amount \in Amounts, NEW to \in Addr,
                 Withdraw(user, to, amount)
          PROVE  PursesAlone
        BY <1>1, <1>2, <2>3 DEF Withdraw, VaultCall, PursesAlone, PursesMove, OwnTypeOK
    <2> QED
        BY <1>2, <2>1, <2>2, <2>3 DEF VaultCall
<1>3. ASSUME NEW user \in Signers, NEW amount \in Amounts, Gift(user, amount)
      PROVE  PursesAlone
    BY <1>1, <1>3 DEF Gift, PursesAlone, PursesMove, OwnTypeOK, own
<1>4. CASE UNCHANGED vars
    BY <1>4 DEF vars, PursesAlone, PursesMove, OwnTypeOK, own
<1> QED
    BY <1>2, <1>3, <1>4, OthersCall, VaultCalls DEF Next

-----------------------------------------------------------------------------

Tokens == Total(wallet) + m_held + p_held

\* The vault cannot sign a purchase, so the exception that MarketProofs makes for
\* others never concerns it.
VaultOwesNothing ==
    \A side \in Prediction :
        /\ m_bal[side][vault] \in Nat
        /\ p_bal[side][vault] \in Nat

\* The inductive invariant: those of the two contracts, no token lost, and no shares
\* owed by the vault.
IInv ==
    /\ MP!IInv /\ PP!IInv
    /\ OwnTypeOK
    /\ Tokens = Total(Funds)
    /\ VaultOwesNothing

\* What the leaves below use of the invariant.
LEMMA InvariantParts ==
    ASSUME IInv
    PROVE  /\ wallet \in [Addr -> Nat] /\ Total(wallet) \in Int
           /\ m_held \in Int /\ p_held \in Int
           /\ MP!OraclesTypeOK /\ PP!OraclesTypeOK
           /\ now \in Int
<1>1. /\ wallet \in [Addr -> Nat] /\ m_held \in Int /\ p_held \in Int
      /\ MP!OraclesTypeOK /\ PP!OraclesTypeOK
    BY DEF IInv, MP!IInv, MP!Typed, MP!ExchangeTyped, PP!IInv, PP!Typed, PP!ExchangeTyped,
           MP!Addr, PP!Addr, Addr
<1>2. now \in Int
    BY <1>1, VaultedConstants DEF MP!OraclesTypeOK
<1> QED
    BY <1>1, <1>2, TotalBoundsEach

\* Both contracts see the same clock and feeds.
LEMMA SharedOracles ==
    /\ MP!OraclesTypeOK <=> PP!OraclesTypeOK
    /\ MP!OraclesTypeOK' <=> PP!OraclesTypeOK'
BY DEF MP!OraclesTypeOK, PP!OraclesTypeOK, MP!Feed, PP!Feed, MP!Legs, PP!Legs, MP!PriceData,
       PP!PriceData

\* The invariant holds before anything is initialized.
LEMMA InitInv == Init => IInv
<1> SUFFICES ASSUME Init
             PROVE  IInv
    OBVIOUS
<1>1. MP!IInv
    BY MarketConstantsHold, VaultedConstants, SameMarketSteps, MP!InitInv DEF Init, MP!SInv
<1>2. PP!IInv
    BY PerpetualConstantsHold, VaultedConstants, SamePerpetualSteps, PP!InitInv DEF Init, PP!SInv
<1>3. OwnTypeOK
    BY VaultConstants DEF Init, VaultInit, OwnTypeOK
<1>4. Tokens = Total(Funds)
    <2>1. wallet = Funds /\ m_held = 0 /\ p_held = 0
        BY DEF Init, M!Init, M!ExchangeInit, P!Init, P!ExchangeInit
    <2>2. Total(Funds) \in Int
        BY VaultedConstants, TotalBoundsEach
    <2> QED  BY <2>1, <2>2 DEF Tokens
<1>5. VaultOwesNothing
    <2>1. m_bal = M!NoShares /\ p_bal = P!NoShares
        BY DEF Init, M!Init, M!ExchangeInit, P!Init, P!ExchangeInit
    <2> QED
        BY <2>1, VaultConstants
        DEF VaultOwesNothing, M!NoShares, P!NoShares, M!Prediction, P!Prediction, Prediction,
            M!Addr, P!Addr, Addr
<1> QED
    BY <1>1, <1>2, <1>3, <1>4, <1>5 DEF IInv

\* A step of the market.
LEMMA MarketAloneInv ==
    ASSUME IInv, MarketAlone
    PROVE  IInv'
<1>1. /\ MP!IInv' /\ now <= now'
      /\ Total(wallet') + m_held' = Total(wallet) + m_held
    BY MarketFacts DEF IInv, MarketAlone
<1>2. wallet' \in [Addr -> Nat] /\ PP!OraclesTypeOK' /\ m_held' \in Int
    <2>1. wallet' \in [Addr -> Nat] /\ MP!OraclesTypeOK' /\ m_held' \in Int
        BY <1>1 DEF MP!IInv, MP!Typed, MP!ExchangeTyped, MP!Addr, Addr
    <2> QED  BY <2>1, SharedOracles
<1>3. PP!IInv'
    BY <1>1, <1>2, PerpetualStands DEF IInv, MarketAlone
<1>4. OwnTypeOK'
    BY DEF IInv, MarketAlone, OwnTypeOK, own
<1>5. (Tokens = Total(Funds))'
    <2>1. p_held' = p_held /\ Total(wallet') \in Int
        BY <1>2, TotalBoundsEach DEF MarketAlone, perpetual
    <2> QED  BY <1>1, <1>2, <2>1, InvariantParts DEF IInv, Tokens
<1>6. VaultOwesNothing'
    <2>1. \A side \in Prediction : m_bal[side][vault] >= 0
        BY DEF IInv, VaultOwesNothing
    <2>2. \A side \in Prediction : m_bal'[side][vault] \in Nat
        BY <2>1, MarketSpares DEF IInv, MarketAlone
    <2>3. p_bal' = p_bal
        BY DEF MarketAlone, perpetual
    <2> QED  BY <2>2, <2>3 DEF IInv, VaultOwesNothing
<1> QED
    BY <1>1, <1>3, <1>4, <1>5, <1>6 DEF IInv

\* A step of the perpetual.
LEMMA PerpetualAloneInv ==
    ASSUME IInv, PerpetualAlone
    PROVE  IInv'
<1>1. /\ PP!IInv' /\ now <= now'
      /\ Total(wallet') + p_held' = Total(wallet) + p_held
    BY PerpetualFacts DEF IInv, PerpetualAlone
<1>2. wallet' \in [Addr -> Nat] /\ MP!OraclesTypeOK' /\ p_held' \in Int
    <2>1. wallet' \in [Addr -> Nat] /\ PP!OraclesTypeOK' /\ p_held' \in Int
        BY <1>1 DEF PP!IInv, PP!Typed, PP!ExchangeTyped, PP!Addr, Addr
    <2> QED  BY <2>1, SharedOracles
<1>3. MP!IInv'
    BY <1>2, MarketStands DEF IInv, PerpetualAlone
<1>4. OwnTypeOK'
    BY DEF IInv, PerpetualAlone, OwnTypeOK, own
<1>5. (Tokens = Total(Funds))'
    <2>1. m_held' = m_held /\ Total(wallet') \in Int
        BY <1>2, TotalBoundsEach DEF PerpetualAlone, market
    <2> QED  BY <1>1, <1>2, <2>1, InvariantParts DEF IInv, Tokens
<1>6. VaultOwesNothing'
    <2>1. \A side \in Prediction : p_bal[side][vault] >= 0
        BY DEF IInv, VaultOwesNothing
    <2>2. \A side \in Prediction : p_bal'[side][vault] \in Nat
        BY <2>1, PerpetualSpares DEF IInv, PerpetualAlone
    <2>3. m_bal' = m_bal
        BY DEF PerpetualAlone, market
    <2> QED  BY <2>2, <2>3 DEF IInv, VaultOwesNothing
<1> QED
    BY <1>1, <1>3, <1>4, <1>5, <1>6 DEF IInv

\* A payment from one purse to another, which may be the same, keeps the total.
LEMMA SentTotal ==
    ASSUME wallet \in [Addr -> Int],
           NEW from \in Addr, NEW to \in Addr, NEW amount \in Int
    PROVE  Total(sent(from, to, amount)) = Total(wallet)
<1> DEFINE x == wallet[from] - amount
           less == [wallet EXCEPT ![from] = x]
           y == less[to] + amount
<1>1. x \in Int /\ wallet[from] \in Int /\ Total(wallet) \in Int
    BY TotalInt
<1> HIDE DEF x
<1>2. less \in [Addr -> Int] /\ Total(less) = Total(wallet) - wallet[from] + x
    BY <1>1, TotalUpdate
<1>3. Total(less) = Total(wallet) - amount
    BY <1>1, <1>2 DEF x
<1> HIDE DEF less
<1>4. y \in Int /\ less[to] \in Int /\ Total(less) \in Int
    BY <1>2, TotalInt
<1> HIDE DEF y
<1>5. Total([less EXCEPT ![to] = y]) = Total(less) - less[to] + y
    BY <1>2, <1>4, TotalUpdate
<1>6. Total([less EXCEPT ![to] = y]) = Total(wallet)
    BY <1>1, <1>3, <1>4, <1>5 DEF y
<1> QED
    BY <1>6 DEF sent, x, y, less

\* A step between purses.
LEMMA PursesAloneInv ==
    ASSUME IInv, PursesAlone
    PROVE  IInv'
<1>1. wallet' \in [Addr -> Nat] /\ Total(wallet') = Total(wallet)
    <2>1. CASE UNCHANGED wallet
        BY <2>1, InvariantParts
    <2>2. ASSUME NEW from \in Addr, NEW to \in Addr, NEW amount \in Amounts,
                 amount > 0, wallet[from] >= amount, wallet' = sent(from, to, amount)
          PROVE  wallet' \in [Addr -> Nat] /\ Total(wallet') = Total(wallet)
        <3>1. amount \in Nat /\ wallet \in [Addr -> Nat]
            BY <2>2, VaultedConstants, InvariantParts
        <3>2. wallet' \in [Addr -> Nat]
            BY <2>2, <3>1 DEF sent
        <3>3. Total(wallet') = Total(wallet)
            <4>1. wallet \in [Addr -> Int] /\ amount \in Int
                BY <3>1
            <4>2. Total(sent(from, to, amount)) = Total(wallet)
                BY <4>1, SentTotal
            <4> QED  BY <2>2, <4>2
        <3> QED  BY <3>2, <3>3
    <2> QED
        BY <2>1, <2>2 DEF PursesAlone, PursesMove
<1>2. MP!OraclesTypeOK' /\ PP!OraclesTypeOK' /\ now <= now'
    BY InvariantParts DEF PursesAlone, oracles, MP!OraclesTypeOK, PP!OraclesTypeOK
<1>3. MP!IInv' /\ PP!IInv'
    BY <1>1, <1>2, MarketStands, PerpetualStands DEF IInv, PursesAlone
<1>4. (Tokens = Total(Funds))'
    BY <1>1 DEF IInv, Tokens, PursesAlone, market, perpetual
<1>5. VaultOwesNothing'
    BY DEF IInv, VaultOwesNothing, PursesAlone, market, perpetual
<1> QED
    BY <1>3, <1>4, <1>5 DEF IInv, PursesAlone

\* No step loses a token or the collateral of either contract.
LEMMA StepInv ==
    ASSUME IInv, [Next]_vars
    PROVE  IInv'
BY StepKinds, MarketAloneInv, PerpetualAloneInv, PursesAloneInv DEF IInv

-----------------------------------------------------------------------------

\* The reserves and the vault's shares are numbers.
LEMMA Shares ==
    ASSUME IInv
    PROVE  /\ \A side \in Prediction :
                 /\ m_pool[side] \in Nat /\ m_bal[side][vault] \in Nat
                 /\ p_pool[side] \in Nat /\ p_bal[side][vault] \in Nat
           /\ "Yes" \in Prediction /\ "No" \in Prediction
BY DEF IInv, VaultOwesNothing, MP!IInv, MP!Typed, MP!ExchangeTyped, MP!Prediction, PP!IInv,
       PP!Typed, PP!ExchangeTyped, PP!Prediction, Prediction

\* Ending a contract leaves its treasury at least the smaller reserve.
LEMMA SeedKept ==
    ASSUME IInv, [Next]_vars
    PROVE  SeedStep
<1>1. \A side \in Prediction :
          /\ Lesser(m_pool) <= m_pool[side] /\ Lesser(m_pool) \in Int
          /\ Lesser(p_pool) <= p_pool[side] /\ Lesser(p_pool) \in Int
    BY Shares DEF Lesser, Prediction
<1>2. ASSUME m_status = "Open", m_status' \in M!Final, m_cfg.treasury = vault
      PROVE  M!Payout(m_status', m_bal', vault) >= Lesser(m_pool)
    <2>1. MarketMoves
        BY <1>2, StepKinds
        DEF IInv, MarketAlone, PerpetualAlone, PursesAlone, market, M!Final, M!Resolved
    <2>2. PICK side \in Prediction : M!Payout(m_status', m_bal', vault) >= m_pool[side]
        BY <1>2, <2>1, MarketFacts DEF IInv, VaultOwesNothing
    <2>3. M!Payout(m_status', m_bal', vault) \in Int
        <3>1. \A s \in Prediction : m_bal'[s][vault] \in Nat
            BY StepInv DEF IInv, VaultOwesNothing
        <3> QED  BY <3>1 DEF M!Payout, M!Half, M!Winner, Prediction
    <2> QED  BY <1>1, <2>2, <2>3, Shares
<1>3. ASSUME p_status = "Open", p_status' = "Terminated", p_cfg.treasury = vault
      PROVE  P!Half(p_bal'["Yes"][vault], p_bal'["No"][vault]) >= Lesser(p_pool)
    <2>1. PerpetualMoves
        BY <1>3, StepKinds DEF IInv, MarketAlone, PerpetualAlone, PursesAlone, perpetual
    <2>2. PICK side \in Prediction :
              P!Half(p_bal'["Yes"][vault], p_bal'["No"][vault]) >= p_pool[side]
        BY <1>3, <2>1, PerpetualFacts DEF IInv, VaultOwesNothing
    <2>3. P!Half(p_bal'["Yes"][vault], p_bal'["No"][vault]) \in Int
        <3>1. \A s \in Prediction : p_bal'[s][vault] \in Nat
            BY StepInv DEF IInv, VaultOwesNothing
        <3> QED  BY <3>1 DEF P!Half, Prediction
    <2> QED  BY <1>1, <2>2, <2>3, Shares
<1> QED
    BY <1>2, <1>3 DEF SeedStep

\* The vault's shares fall by being paid only.
LEMMA ClaimsPaid ==
    ASSUME IInv, [Next]_vars
    PROVE  ClaimsStep
<1>1. ASSUME \E i \in 1..4 : VaultShares'[i] < VaultShares[i]
      PROVE  \E side \in Prediction : \/ m_bal'[side][vault] < m_bal[side][vault]
                                     \/ p_bal'[side][vault] < p_bal[side][vault]
    <2>1. PICK i \in 1..4 : VaultShares'[i] < VaultShares[i]
        BY <1>1
    <2>2. i = 1 \/ i = 2 \/ i = 3 \/ i = 4
        BY <2>1
    <2> QED
        BY <2>1, <2>2 DEF VaultShares, Prediction
<1>2. ASSUME NEW side \in Prediction
      PROVE  /\ m_bal[side][vault] \in Nat /\ m_bal'[side][vault] \in Nat
             /\ p_bal[side][vault] \in Nat /\ p_bal'[side][vault] \in Nat
    BY StepInv DEF IInv, VaultOwesNothing
<1>3. SUFFICES ASSUME NEW side \in Prediction,
                      \/ m_bal'[side][vault] < m_bal[side][vault]
                      \/ p_bal'[side][vault] < p_bal[side][vault]
               PROVE  wallet'[vault] - wallet[vault] \in
                          {M!Payout(m_status, m_bal, vault), P!Payout(vault)} \ {0}
    BY <1>1 DEF ClaimsStep
<1>4. CASE MarketAlone
    <2>1. p_bal' = p_bal
        BY <1>4 DEF MarketAlone, perpetual
    <2>2. m_bal'[side][vault] < m_bal[side][vault]
        BY <1>2, <1>3, <2>1
    <2> QED
        BY <1>2, <1>4, <2>2, MarketPays DEF IInv, MarketAlone
<1>5. CASE PerpetualAlone
    <2>1. m_bal' = m_bal
        BY <1>5 DEF PerpetualAlone, market
    <2>2. p_bal'[side][vault] < p_bal[side][vault]
        BY <1>2, <1>3, <2>1
    <2> QED
        BY <1>2, <1>5, <2>2, PerpetualPays DEF IInv, PerpetualAlone
<1>6. CASE PursesAlone
    <2>1. m_bal' = m_bal /\ p_bal' = p_bal
        BY <1>6 DEF PursesAlone, market, perpetual
    <2> QED
        BY <1>2, <1>3, <2>1
<1> QED
    BY <1>4, <1>5, <1>6, StepKinds DEF IInv

-----------------------------------------------------------------------------

\* The three together stay in IInv, for every value of the constants.
THEOREM Invariance == Spec => []IInv
<1>1. IInv /\ [Next]_vars => IInv'
    BY StepInv
<1> QED
    BY InitInv, <1>1, PTL DEF Spec

\* A vault gets back at least the smaller reserve of whatever it is treasury of.
THEOREM SeedAlwaysRecovered == Spec => SeedRecovered
<1>1. IInv /\ [Next]_vars => SeedStep
    BY SeedKept
<1> QED
    BY Invariance, <1>1, PTL DEF Spec, SeedRecovered

\* The vault's claims are never spent by others, only paid to it in full.
THEOREM ClaimsAlwaysPaid == Spec => ClaimsBecomeCapital
<1>1. IInv /\ [Next]_vars => ClaimsStep
    BY ClaimsPaid
<1> QED
    BY Invariance, <1>1, PTL DEF Spec, ClaimsBecomeCapital

-----------------------------------------------------------------------------
\* Where no purchase can cost shares, in either contract.
FeesCovered == MP!FeeCovered /\ PP!FeeCovered

SInv == IInv /\ MP!NoneOverdrawn /\ PP!NoneOverdrawn

\* Then neither contract overdraws a balance, in its own steps or in others'.
LEMMA StrongStep ==
    ASSUME SInv, FeesCovered, [Next]_vars
    PROVE  SInv'
<1>1. IInv'
    BY StepInv DEF SInv
<1>2. CASE MarketAlone
    <2>1. MP!Next \/ UNCHANGED MP!vars
        BY <1>2, MarketConstantsHold
        DEF MarketAlone, MarketMoves, MP!Next, MP!StepOfOthers, MP!CallsBy
    <2>2. MP!NoneOverdrawn'
        BY <2>1, MarketConstantsHold, VaultedConstants, MP!StrongStep
        DEF SInv, IInv, MP!SInv, FeesCovered
    <2>3. PP!NoneOverdrawn'
        BY <1>2 DEF SInv, PP!NoneOverdrawn, MarketAlone, perpetual
    <2> QED  BY <1>1, <2>2, <2>3 DEF SInv
<1>3. CASE PerpetualAlone
    <2>1. PP!Next \/ UNCHANGED PP!vars
        BY <1>3, PerpetualConstantsHold
        DEF PerpetualAlone, PerpetualMoves, PP!Next, PP!StepOfOthers, PP!CallsBy
    <2>2. PP!NoneOverdrawn'
        BY <2>1, PerpetualConstantsHold, VaultedConstants, PP!StrongStep
        DEF SInv, IInv, PP!SInv, FeesCovered
    <2>3. MP!NoneOverdrawn'
        BY <1>3 DEF SInv, MP!NoneOverdrawn, PerpetualAlone, market
    <2> QED  BY <1>1, <2>2, <2>3 DEF SInv
<1>4. CASE PursesAlone
    BY <1>1, <1>4 DEF SInv, MP!NoneOverdrawn, PP!NoneOverdrawn, PursesAlone, market, perpetual
<1> QED
    BY <1>2, <1>3, <1>4, StepKinds DEF SInv, IInv

\* Nor is one overdrawn at the start.
LEMMA StrongInit == Init => SInv
<1> SUFFICES ASSUME Init
             PROVE  SInv
    OBVIOUS
<1>1. MP!NoneOverdrawn
    BY MarketConstantsHold, VaultedConstants, SameMarketSteps, MP!InitInv DEF Init, MP!SInv
<1>2. PP!NoneOverdrawn
    BY PerpetualConstantsHold, VaultedConstants, SamePerpetualSteps, PP!InitInv
    DEF Init, PP!SInv
<1> QED
    BY <1>1, <1>2, InitInv DEF SInv

\* So none ever is.
LEMMA StrongInvariance == Spec /\ []FeesCovered => []SInv
BY StrongInit, StrongStep, PTL DEF Spec

\* Then all three stay in their types.
LEMMA StrongTypeOK == SInv => TypeOK
<1> SUFFICES ASSUME SInv
             PROVE  TypeOK
    OBVIOUS
<1>1. MP!TypeOK
    BY MarketConstantsHold, VaultedConstants, MP!StrongTypeOK DEF SInv, IInv, MP!SInv
<1>2. PP!TypeOK
    BY PerpetualConstantsHold, VaultedConstants, PP!StrongTypeOK DEF SInv, IInv, PP!SInv
<1> QED
    BY <1>1, <1>2, SameMarketInvariants, SamePerpetualInvariants
    DEF SInv, IInv, OwnTypeOK, TypeOK

\* And what either holds covers any one claim.
LEMMA StrongApart == SInv => CollateralizedApart
<1> SUFFICES ASSUME SInv
             PROVE  CollateralizedApart
    OBVIOUS
<1>1. MP!RedeemerPayable
    BY MarketConstantsHold, VaultedConstants, MP!Payable DEF SInv, IInv, MP!SInv
<1>2. PP!RedeemerPayable
    BY PerpetualConstantsHold, VaultedConstants, PP!Payable DEF SInv, IInv, PP!SInv
<1> QED
    BY <1>1, <1>2, SameMarketInvariants, SamePerpetualInvariants
    DEF SInv, IInv, MP!IInv, PP!IInv, CollateralizedApart, Tokens

\* No balance is overdrawn in any of the three, whatever each does to the others.
THEOREM TypeCorrect == Spec /\ []FeesCovered => []TypeOK
BY StrongInvariance, StrongTypeOK, PTL

\* Each contract can pay its own holders from what it holds itself, and no token
\* is made or lost between the three.
THEOREM CollateralizedAlways == Spec /\ []FeesCovered => []CollateralizedApart
BY StrongInvariance, StrongApart, PTL

\* Terms that cap the fee, or callers who ask for at least nothing, are enough.
THEOREM CheapTermsSuffice ==
    ASSUME \/ Minimums \subseteq Nat
           \/ /\ \A c \in MarketConfigs : MP!CheapTerms(c)
              /\ \A c \in PerpetualConfigs : PP!CheapTerms(c)
    PROVE  Spec => []FeesCovered /\ []TypeOK /\ []CollateralizedApart
<1>1. SInv => FeesCovered
    <2> SUFFICES ASSUME SInv
                 PROVE  FeesCovered
        OBVIOUS
    <2>1. MP!FeeCovered
        BY MarketConstantsHold, VaultedConstants, MP!CheapCovered DEF SInv, IInv, MP!SInv
    <2>2. PP!FeeCovered
        BY PerpetualConstantsHold, VaultedConstants, PP!CheapCovered DEF SInv, IInv, PP!SInv
    <2> QED  BY <2>1, <2>2 DEF FeesCovered
<1>2. SInv /\ [Next]_vars => SInv'
    BY <1>1, StrongStep
<1>3. Spec => []FeesCovered
    BY <1>1, <1>2, StrongInit, PTL DEF Spec
<1> QED
    BY <1>3, TypeCorrect, CollateralizedAlways, PTL
=============================================================================
