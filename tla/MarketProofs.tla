---------------------------- MODULE MarketProofs ----------------------------
(***************************************************************************)
(* For every number of addresses, every set of arguments and amounts and   *)
(* every bound: the market holds the collateral of every claim and keeps   *)
(* its reserves.  While no purchase can cost shares, it is also well typed *)
(* and can pay whoever redeems.                                            *)
(***************************************************************************)
EXTENDS Market, ExchangeProofs

\* TypeOK without the sign of balances and of the supply.
Typed ==
    /\ status \in {"Uninitialized", "Open"} \cup Final
    /\ status # "Uninitialized" =>
          /\ cfg \in Configs /\ UsableTerms(cfg)
          /\ pinned \in [DOMAIN cfg.legs -> Nat]
    /\ final_price \in Int
    /\ ExchangeTyped
    /\ OraclesTypeOK

\* The inductive invariant.  The reserves stay positive, and no trade divides by
\* zero, because the fee of any supply only takes.
IInv == Typed /\ CollateralHeld /\ ClaimsBacked /\ PoolNeverEmpty

\* What keeps a balance from falling below 0 is not part of the contract: buy takes
\* a negative min_shares_out, and beyond 100 % of fee it has an effect (SharesArePairs
\* in MarketClaims is the counterexample).
FeeCovered == IsOpen => NoLossAccepted(cfg)

\* The invariant as long as that holds.
SInv == IInv /\ NoneOverdrawn

\* The invariant as the lemmas about the exchange and its fee use it.
LEMMA InvariantParts ==
    ASSUME IInv
    PROVE  /\ Books
           /\ IsOpen => Pooled /\ FeeTerms(cfg)
           /\ status # "Uninitialized" => cfg \in Arguments
           /\ OraclesTypeOK
<1>1. Books /\ OraclesTypeOK
    BY DEF IInv, Typed, Books
<1>2. ASSUME status # "Uninitialized"
      PROVE  cfg \in Arguments /\ FeeTerms(cfg)
    <2>1. cfg \in Arguments /\ UsableTerms(cfg)
        BY <1>2, MarketConstants DEF IInv, Typed
    <2>2. cfg.base_fee_bps \in Nat /\ cfg.min_fee_bps \in Nat /\ cfg.initial_liquidity \in Int
        BY <2>1 DEF Arguments
    <2> QED  BY <2>1, <2>2 DEF FeeTerms, UsableTerms
<1>3. IsOpen => Pooled
    BY DEF IInv, ClaimsBacked, PoolNeverEmpty, Pooled, IsOpen
<1> QED
    BY <1>1, <1>2, <1>3 DEF IsOpen

\* With no balance overdrawn the supply is a natural number too: it is a reserve and
\* more, or what the holders own, or at least half of that.
LEMMA StrongTypeOK == SInv => TypeOK
<1> SUFFICES ASSUME SInv
             PROVE  TypeOK
    OBVIOUS
<1>1. /\ \A side \in Prediction : Total(bal[side]) \in Nat
      /\ "Yes" \in Prediction /\ "No" \in Prediction /\ Winner(status) \in Prediction
    BY OwnBalances DEF SInv, Winner, Prediction
<1>2. Books /\ total_supply \in Int
    BY InvariantParts, Balances DEF SInv, Books
<1>3. total_supply \in Nat
    <2>1. CASE status = "Uninitialized"
        BY <2>1 DEF SInv, IInv, ClaimsBacked
    <2>2. CASE IsOpen
        BY <2>2, <1>2, InvariantParts, PoolCovered DEF SInv, Books
    <2>3. CASE status \in Resolved
        BY <2>3, <1>1 DEF SInv, IInv, ClaimsBacked
    <2>4. CASE status = "Cancelled"
        <3>1. Total(bal["Yes"]) + Total(bal["No"]) <= 2 * total_supply
            BY <2>4 DEF SInv, IInv, ClaimsBacked, HalvesBacked
        <3> QED  BY <1>1, <1>2, <3>1
    <2> QED  BY <2>1, <2>2, <2>3, <2>4 DEF SInv, IInv, Typed, IsOpen, Final
<1> QED
    BY <1>3 DEF SInv, IInv, Typed, TypeOK, ExchangeTyped, ExchangeTypeOK, NoneOverdrawn

\* Conversely, while the market stays open the invariant follows from them.
LEMMA OpenInv ==
    ASSUME IInv, IsOpen, UNCHANGED contract, Books', Pooled', OraclesTypeOK'
    PROVE  IInv'
<1>1. UNCHANGED <<cfg, pinned, status, final_price>>
    BY DEF contract
<1> QED
    BY <1>1
    DEF IInv, Typed, ClaimsBacked, PoolNeverEmpty, Books, Pooled, IsOpen, Final, Resolved

\* The oracles of a step of the contract are well typed because they stay.
LEMMA OraclesStay ==
    ASSUME OraclesTypeOK, UNCHANGED oracles
    PROVE  OraclesTypeOK' /\ UNCHANGED <<now, feed>>
BY DEF OraclesTypeOK, oracles

\* The initial states satisfy the invariant.
LEMMA InitInv == Init => SInv
BY InitialBooks, OraclesInitial
DEF Init, SInv, IInv, Typed, Books, ClaimsBacked, PoolNeverEmpty, IsOpen, Final, Resolved

\* initialize opens the market with both reserves seeded.
LEMMA InitializeInv ==
    ASSUME IInv, NEW c \in Configs, Initialize(c)
    PROVE  IInv'
<1>1. /\ c.admin \in Addr
      /\ c.initial_liquidity \in Nat \ {0}
      /\ UsableTerms(c)
    BY MarketConstants DEF Initialize, UsableTerms, Arguments
<1>2. Books /\ total_supply = 0 /\ bal = NoShares
    BY InvariantParts DEF Initialize, IInv, ClaimsBacked
<1>3. Books' /\ Pooled'
    BY <1>1, <1>2, SeedStep DEF Initialize
<1>4. OraclesTypeOK'
    BY InvariantParts, OraclesStay DEF Initialize
<1>5. /\ status' = "Open" /\ cfg' = c /\ final_price' = 0
      /\ pinned' \in [DOMAIN cfg'.legs -> Nat]
    BY DecimalsPinned DEF Initialize
<1> QED
    BY <1>1, <1>3, <1>4, <1>5
    DEF IInv, Typed, ClaimsBacked, PoolNeverEmpty, Books, Pooled, IsOpen, Final, Resolved

\* A step of the exchange in an open market is covered by the lemma about it.
LEMMA OpenStep ==
    ASSUME IInv, IsOpen, UNCHANGED <<contract, oracles>>, Books', Pooled'
    PROVE  IInv' /\ UNCHANGED <<cfg, status, now>>
<1>1. UNCHANGED contract /\ UNCHANGED oracles
    OBVIOUS
<1>2. OraclesTypeOK' /\ UNCHANGED now
    BY <1>1, InvariantParts, OraclesStay
<1> QED
    BY <1>1, <1>2, OpenInv DEF contract

\* split.
LEMMA SplitInv ==
    ASSUME IInv, NEW user \in Addr, NEW amount \in Amounts, Split(user, amount)
    PROVE  /\ IInv' /\ IsOpen /\ UNCHANGED <<cfg, status, now, pool>>
           /\ amount \in Nat
           /\ \A side \in Prediction : Total(bal'[side]) = Total(bal[side]) + amount
<1>1. IsOpen /\ UNCHANGED <<contract, oracles>> /\ UNCHANGED pool
    BY DEF Split, MintPairs
<1>2. /\ Books' /\ Pooled' /\ amount \in Nat
      /\ \A side \in Prediction : Total(bal'[side]) = Total(bal[side]) + amount
    BY <1>1, InvariantParts, MintStep DEF Split
<1> QED
    BY <1>1, <1>2, OpenStep

\* merge.
LEMMA MergeInv ==
    ASSUME IInv, NEW user \in Addr, NEW amount \in Amounts, Merge(user, amount)
    PROVE  /\ IInv' /\ IsOpen /\ UNCHANGED <<cfg, status, now, pool>>
           /\ amount \in Nat
           /\ \A side \in Prediction : Total(bal'[side]) = Total(bal[side]) - amount
<1>1. IsOpen /\ UNCHANGED <<contract, oracles>> /\ UNCHANGED pool
    BY DEF Merge, BurnPairs
<1>2. /\ Books' /\ Pooled' /\ amount \in Nat
      /\ \A side \in Prediction : Total(bal'[side]) = Total(bal[side]) - amount
    BY <1>1, InvariantParts, BurnStep DEF Merge
<1> QED
    BY <1>1, <1>2, OpenStep

\* buy.
LEMMA BuyInv ==
    ASSUME IInv, NEW user \in Addr, NEW side \in Prediction, NEW amount \in Amounts,
           NEW minimum \in Minimums, Buy(user, side, amount, minimum)
    PROVE  IInv' /\ ProductKept /\ TradingOpen /\ UNCHANGED status
<1>1. IsOpen /\ TradingOpen /\ UNCHANGED <<contract, oracles>>
    BY DEF Buy, TradingOpen
<1>2. Books' /\ Pooled' /\ ProductKept
    BY <1>1, InvariantParts, SwapInStep DEF Buy
<1> QED
    BY <1>1, <1>2, OpenStep

\* sell.
LEMMA SellInv ==
    ASSUME IInv, NEW user \in Addr, NEW side \in Prediction, NEW shares_in \in Amounts,
           NEW minimum \in Minimums, Sell(user, side, shares_in, minimum)
    PROVE  IInv' /\ ProductKept /\ TradingOpen /\ UNCHANGED status
<1>1. IsOpen /\ TradingOpen /\ UNCHANGED <<contract, oracles>>
    BY DEF Sell, TradingOpen
<1>2. Books' /\ Pooled' /\ ProductKept
    BY <1>1, InvariantParts, SwapOutStep DEF Sell
<1> QED
    BY <1>1, <1>2, OpenStep

\* transfer, in every status.
LEMMA TransferInv ==
    ASSUME IInv, NEW from \in Addr, NEW to \in Addr, NEW side \in Prediction,
           NEW amount \in Amounts, Transfer(from, to, side, amount)
    PROVE  /\ IInv' /\ UNCHANGED <<cfg, status, final_price, pool, total_supply>>
           /\ \A s \in Prediction : Total(bal'[s]) = Total(bal[s])
<1>1. /\ status # "Uninitialized"
      /\ UNCHANGED <<cfg, pinned, status, final_price>>
      /\ UNCHANGED oracles
    BY DEF Transfer, contract
<1>2. /\ Books' /\ UNCHANGED <<pool, total_supply>>
      /\ \A s \in Prediction : Total(bal'[s]) = Total(bal[s])
    BY InvariantParts, MoveStep DEF Transfer
<1>3. OraclesTypeOK'
    BY <1>1, InvariantParts, OraclesStay
<1>4. Typed' /\ CollateralHeld'
    BY <1>1, <1>2, <1>3 DEF IInv, Typed, Books
<1>5. ClaimsBacked' /\ PoolNeverEmpty'
    <2>1. Winner(status) \in Prediction /\ "Yes" \in Prediction /\ "No" \in Prediction
        BY DEF Winner, Prediction
    <2> QED
        BY <1>1, <1>2, <2>1
        DEF IInv, ClaimsBacked, PoolNeverEmpty, IsOpen, SidesBalanced, HalvesBacked,
            ReservesPositive
<1> QED
    BY <1>1, <1>2, <1>4, <1>5 DEF IInv

\* settle and cancel: whatever the outcome, either side is all of total_supply.
LEMMA FinalizeInv ==
    ASSUME IInv, IsOpen, PoolToTreasury(cfg.treasury), UNCHANGED <<fixed, oracles>>,
           status' \in Final, final_price' \in Int
    PROVE  IInv' /\ HoldersOwnAll'
<1>1. cfg.treasury \in Addr
    BY InvariantParts DEF IsOpen, Arguments
<1>2. /\ Books' /\ HalvesBacked'
      /\ \A side \in Prediction : Total(bal'[side]) = total_supply'
    BY <1>1, InvariantParts, TreasuryStep
<1>3. UNCHANGED <<cfg, pinned>> /\ UNCHANGED oracles
    BY DEF fixed
<1>4. OraclesTypeOK'
    BY <1>3, InvariantParts, OraclesStay
<1>5. Typed' /\ CollateralHeld'
    BY <1>2, <1>3, <1>4 DEF IInv, Typed, Books, IsOpen
<1>6. ClaimsBacked' /\ PoolNeverEmpty'
    <2>1. Winner(status') \in Prediction
        BY DEF Winner, Prediction
    <2> QED
        BY <1>2, <2>1 DEF ClaimsBacked, PoolNeverEmpty, IsOpen, Final, Resolved
<1> QED
    BY <1>2, <1>5, <1>6 DEF IInv, HoldersOwnAll

\* settle sets a price that the conversion to cents produced.
LEMMA SettleInv ==
    ASSUME IInv, NEW payload \in Payloads, Settle(payload)
    PROVE  IInv' /\ HoldersOwnAll' /\ IsOpen /\ status' \in Final
<1>1. PayloadCents(payload, cfg.feed_id) \in Int
    BY OracleConstants, CentsInt DEF Settle, UsableUpdate, PayloadCents, IsPayload
<1>2. IsOpen /\ status' \in Final
    BY DEF Settle, Outcome, Final, Resolved
<1> QED
    BY <1>1, <1>2, FinalizeInv DEF Settle

\* cancel sets none.
LEMMA CancelInv ==
    ASSUME IInv, Cancel
    PROVE  IInv' /\ HoldersOwnAll' /\ IsOpen /\ status' \in Final
<1>1. final_price' \in Int /\ UNCHANGED <<fixed, oracles>>
    BY DEF Cancel, IInv, Typed
<1>2. IsOpen /\ status' \in Final
    BY DEF Cancel, Final
<1> QED
    BY <1>1, <1>2, FinalizeInv DEF Cancel

\* No single payout exceeds total_supply: a winning balance is part of the
\* winning total, and half of both balances is part of half of both totals.
LEMMA PayoutBound ==
    ASSUME SInv, status \in Final, NEW user \in Addr
    PROVE  Payout(status, bal, user) \in Nat /\ Payout(status, bal, user) <= total_supply
<1>1. /\ Books /\ ExchangeTyped /\ NoneOverdrawn /\ IInv
      /\ Winner(status) \in Prediction
    BY InvariantParts DEF Books, Winner, Prediction, SInv
<1>2. CASE status \in Resolved
    <2>1. Payout(status, bal, user) = bal[Winner(status)][user]
        BY <1>2 DEF Payout, Resolved
    <2>2. Total(bal[Winner(status)]) = total_supply
        BY <1>1, <1>2 DEF IInv, ClaimsBacked
    <2> QED  BY <1>1, <2>1, <2>2, OwnBalances
<1>3. CASE status = "Cancelled"
    <2>1. HalvesBacked
        BY <1>1, <1>3 DEF IInv, ClaimsBacked
    <2> QED  BY <1>1, <1>3, <2>1, HalfPayable DEF Payout
<1> QED
    BY <1>2, <1>3 DEF Final

\* Whatever the signs, a payout is an integer.
LEMMA PayoutInt ==
    ASSUME IInv, NEW user \in Addr
    PROVE  Payout(status, bal, user) \in Int
<1>1. \A side \in Prediction : bal[side][user] \in Int
    BY InvariantParts, Balances DEF Books
<1>2. Winner(status) \in Prediction /\ "Yes" \in Prediction /\ "No" \in Prediction
    BY DEF Winner, Prediction
<1> QED
    BY <1>1, <1>2 DEF Payout, Half

\* redeem lowers total_supply by what it pays, and the claims by at least that.
LEMMA RedeemInv ==
    ASSUME IInv, NEW user \in Addr, Redeem(user)
    PROVE  /\ IInv'
           /\ status \in Final /\ UNCHANGED <<status, final_price, pool>>
           /\ PayClaim(user, Payout(status, bal, user))
<1> DEFINE payout == Payout(status, bal, user)
<1>1. /\ status \in Final
      /\ PayClaim(user, payout)
      /\ UNCHANGED <<cfg, pinned, status, final_price>>
      /\ UNCHANGED oracles
    BY DEF Redeem, contract
<1>2. /\ Books'
      /\ total_supply' = total_supply - payout
      /\ \A side \in Prediction : Total(bal'[side]) = Total(bal[side]) - bal[side][user]
    BY <1>1, PayoutInt, PayStep, InvariantParts
<1>3. UNCHANGED pool /\ OraclesTypeOK'
    BY <1>1, InvariantParts, OraclesStay DEF PayClaim
<1>4. Typed' /\ CollateralHeld' /\ PoolNeverEmpty'
    BY <1>1, <1>2, <1>3
    DEF IInv, Typed, Books, PoolNeverEmpty, IsOpen, Final, Resolved
<1>5. ClaimsBacked'
    <2>1. CASE status \in Resolved
        <3>1. /\ payout = bal[Winner(status)][user] /\ Winner(status) \in Prediction
              /\ Total(bal[Winner(status)]) = total_supply
            BY <2>1 DEF Payout, Resolved, Winner, Prediction, IInv, ClaimsBacked
        <3>2. Total(bal'[Winner(status)]) = total_supply'
            BY <1>2, <3>1
        <3> QED  BY <1>1, <2>1, <3>2 DEF ClaimsBacked, IsOpen, Resolved
    <2>2. CASE status = "Cancelled"
        <3>1. HalvesBacked /\ PayClaim(user, Half(bal["Yes"][user], bal["No"][user]))
            BY <1>1, <2>2 DEF Payout, IInv, ClaimsBacked
        <3>2. HalvesBacked'
            BY <3>1, HalfPaid, InvariantParts
        <3> QED  BY <1>1, <2>2, <3>2 DEF ClaimsBacked, IsOpen, Resolved
    <2> QED  BY <1>1, <2>1, <2>2 DEF Final
<1> QED
    BY <1>1, <1>2, <1>3, <1>4, <1>5 DEF IInv

\* Ledgers close, collateral strays in, feeds publish.
EnvironmentStep ==
    \/ Tick
    \/ \E user \in Addr, amount \in Amounts : StrayTransfer(user, amount)
    \/ \E leg \in Legs : FeedUpdate(leg)

\* What such a step leaves behind.
BooksStay ==
    /\ Books' /\ UNCHANGED <<pool, total_supply, bal>>
    /\ UNCHANGED contract
    /\ OraclesTypeOK'

\* The contract's own variables do not change when it takes no step.
LEMMA EnvironmentStays ==
    ASSUME IInv, EnvironmentStep \/ UNCHANGED vars
    PROVE  BooksStay
<1>1. ASSUME UNCHANGED exchange, UNCHANGED contract, OraclesTypeOK'
      PROVE  BooksStay
    BY <1>1, InvariantParts, ExchangeStutter DEF BooksStay
<1>2. ASSUME Tick
      PROVE  BooksStay
    BY <1>1, <1>2, InvariantParts, CloseStep DEF Tick
<1>3. ASSUME NEW user \in Addr, NEW amount \in Amounts, StrayTransfer(user, amount)
      PROVE  BooksStay
    <2>1. UNCHANGED contract /\ UNCHANGED oracles /\ SendStray(user, amount)
        BY <1>3 DEF StrayTransfer
    <2>2. Books /\ OraclesTypeOK
        BY InvariantParts
    <2> QED
        BY <2>1, <2>2, StrayStep, OraclesStay DEF BooksStay
<1>4. ASSUME NEW leg \in Legs, FeedUpdate(leg)
      PROVE  BooksStay
    BY <1>1, <1>4, InvariantParts, PublishStep DEF FeedUpdate
<1>5. ASSUME UNCHANGED vars
      PROVE  BooksStay
    <2>1. UNCHANGED contract /\ UNCHANGED exchange /\ UNCHANGED oracles
        BY <1>5 DEF vars
    <2> QED
        BY <1>1, <2>1, InvariantParts, OraclesStay
<1> QED
    BY <1>2, <1>3, <1>4, <1>5 DEF EnvironmentStep

\* So such a step keeps the invariant.
LEMMA EnvironmentInv ==
    ASSUME IInv, EnvironmentStep \/ UNCHANGED vars
    PROVE  IInv' /\ UNCHANGED contract /\ UNCHANGED <<pool, total_supply, bal>>
<1>1. BooksStay
    BY EnvironmentStays
<1>2. UNCHANGED <<cfg, pinned, status, final_price>>
    BY <1>1 DEF BooksStay, contract
<1> QED
    BY <1>1, <1>2
    DEF IInv, Typed, Books, ClaimsBacked, PoolNeverEmpty, IsOpen, SidesBalanced,
        HalvesBacked, ReservesPositive, BooksStay

-----------------------------------------------------------------------------

\* The outcome is decided once: the step that decides it hands out all of either
\* side, and none changes it.
OutcomeKeptStep ==
    /\ (IsOpen /\ status' \in Final) => HoldersOwnAll'
    /\ status \in Final => UNCHANGED <<status, final_price>>

OutcomeKept == [][OutcomeKeptStep]_vars

\* What every step does.
StepFacts ==
    /\ IInv'
    /\ OutcomeKeptStep
    /\ ExposureFrozenStep
    /\ TradeRoundingBoundedStep

\* A step that leaves the status, the pool, the supply and the totals alone is
\* covered by all three two-state properties.
LEMMA QuietStep ==
    ASSUME IInv, UNCHANGED <<status, final_price, pool, total_supply>>,
           \A side \in Prediction : Total(bal'[side]) = Total(bal[side])
    PROVE  OutcomeKeptStep /\ ExposureFrozenStep /\ TradeRoundingBoundedStep
<1>1. \A side \in Prediction : Total(bal[side]) \in Int
    BY InvariantParts, Balances DEF Books
<1>2. total_supply \in Int
    BY InvariantParts, Balances DEF Books
<1> QED
    BY <1>1, <1>2
    DEF OutcomeKeptStep, ExposureFrozenStep, TradeRoundingBoundedStep, Prediction,
        IsOpen, Final, Resolved

\* Of the two-state properties one concerns the steps that change the status.
LEMMA StatusStep ==
    ASSUME status \notin Final, status' # status, IsOpen => HoldersOwnAll'
    PROVE  OutcomeKeptStep /\ ExposureFrozenStep /\ TradeRoundingBoundedStep
BY DEF OutcomeKeptStep, ExposureFrozenStep, TradeRoundingBoundedStep, IsOpen

\* split and merge change the totals of both sides by the same amount.
LEMMA PairStep ==
    ASSUME IInv, IsOpen, UNCHANGED <<status, pool>>, NEW n \in Int,
           \A side \in Prediction : Total(bal'[side]) = Total(bal[side]) + n
    PROVE  OutcomeKeptStep /\ ExposureFrozenStep /\ TradeRoundingBoundedStep
<1>1. \A side \in Prediction : Total(bal[side]) \in Int
    BY InvariantParts, Balances DEF Books
<1> QED
    BY <1>1
    DEF OutcomeKeptStep, ExposureFrozenStep, TradeRoundingBoundedStep, Prediction, IsOpen,
        Final, Resolved

\* A trade happens before the expiry only, where net exposure may change.
LEMMA TradeStep ==
    ASSUME IInv, TradingOpen, ProductKept, UNCHANGED status
    PROVE  OutcomeKeptStep /\ ExposureFrozenStep /\ TradeRoundingBoundedStep
<1>1. IsOpen /\ now < cfg.expiry
    BY DEF TradingOpen
<1>2. cfg.expiry \in Nat /\ now \in Nat
    BY <1>1, InvariantParts DEF IsOpen, Arguments, OraclesTypeOK
<1> QED
    BY <1>1, <1>2
    DEF OutcomeKeptStep, ExposureFrozenStep, TradeRoundingBoundedStep, IsOpen, Final, Resolved

\* Every step of the market keeps the inductive invariant and satisfies the
\* three two-state properties: one case per action.
LEMMA StepInv ==
    ASSUME IInv, [Next]_vars
    PROVE  StepFacts
<1>1. ASSUME NEW c \in Configs, Initialize(c)
      PROVE  StepFacts
    <2>1. status \notin Final /\ status' # status /\ ~ IsOpen
        BY <1>1 DEF Initialize, Final, Resolved, IsOpen
    <2> QED  BY <1>1, <2>1, InitializeInv, StatusStep DEF StepFacts
<1>2. ASSUME NEW user \in Addr, NEW amount \in Amounts, Split(user, amount)
      PROVE  StepFacts
    BY <1>2, SplitInv, PairStep DEF StepFacts
<1>3. ASSUME NEW user \in Addr, NEW amount \in Amounts, Merge(user, amount)
      PROVE  StepFacts
    <2>1. IInv' /\ IsOpen /\ UNCHANGED <<status, pool>> /\ amount \in Nat
        BY <1>3, MergeInv
    <2>2. \A side \in Prediction : Total(bal[side]) \in Int
        BY InvariantParts, Balances DEF Books
    <2>3. -amount \in Int
        BY <2>1
    <2>4. \A side \in Prediction : Total(bal'[side]) = Total(bal[side]) + (-amount)
        BY <1>3, <2>1, <2>2, MergeInv
    <2> QED  BY <2>1, <2>3, <2>4, PairStep DEF StepFacts
<1>4. ASSUME NEW user \in Addr, NEW side \in Prediction, NEW amount \in Amounts,
             NEW minimum \in Minimums, Buy(user, side, amount, minimum)
      PROVE  StepFacts
    BY <1>4, BuyInv, TradeStep DEF StepFacts
<1>5. ASSUME NEW user \in Addr, NEW side \in Prediction, NEW amount \in Amounts,
             NEW minimum \in Minimums, Sell(user, side, amount, minimum)
      PROVE  StepFacts
    BY <1>5, SellInv, TradeStep DEF StepFacts
<1>6. ASSUME NEW from \in Addr, NEW to \in Addr, NEW side \in Prediction,
             NEW amount \in Amounts, Transfer(from, to, side, amount)
      PROVE  StepFacts
    BY <1>6, TransferInv, QuietStep DEF StepFacts
<1>7. ASSUME NEW payload \in Payloads, Settle(payload)
      PROVE  StepFacts
    <2>1. status \notin Final /\ status' # status
        BY <1>7, SettleInv DEF IsOpen, Final, Resolved
    <2> QED  BY <1>7, <2>1, SettleInv, StatusStep DEF StepFacts
<1>8. ASSUME Cancel
      PROVE  StepFacts
    <2>1. status \notin Final /\ status' # status
        BY <1>8, CancelInv DEF IsOpen, Final, Resolved
    <2> QED  BY <1>8, <2>1, CancelInv, StatusStep DEF StepFacts
<1>9. ASSUME NEW user \in Addr, Redeem(user)
      PROVE  StepFacts
    <2>1. status \in Final /\ UNCHANGED <<status, final_price, pool>>
        BY <1>9, RedeemInv
    <2>2. OutcomeKeptStep /\ ExposureFrozenStep /\ TradeRoundingBoundedStep
        BY <2>1
        DEF OutcomeKeptStep, ExposureFrozenStep, TradeRoundingBoundedStep, IsOpen, Final, Resolved
    <2> QED  BY <1>9, <2>2, RedeemInv DEF StepFacts
<1>10. ASSUME EnvironmentStep \/ UNCHANGED vars
       PROVE  StepFacts
    <2>1. IInv' /\ UNCHANGED contract /\ UNCHANGED <<pool, total_supply, bal>>
        BY <1>10, EnvironmentInv
    <2>2. UNCHANGED <<status, final_price, pool, total_supply, bal>>
        BY <2>1 DEF contract
    <2> QED  BY <2>1, <2>2, QuietStep DEF StepFacts
<1> QED
    BY <1>1, <1>2, <1>3, <1>4, <1>5, <1>6, <1>7, <1>8, <1>9, <1>10
    DEF Next, CallsBy, OpenCalls, EnvironmentStep

\* Only settle resolves a market, at the price of an update that it found usable and
\* had corroborated.
LEMMA SettlementChecked ==
    ASSUME IInv, [Next]_vars
    PROVE  SettlementStep
<1>1. ASSUME NEW payload \in Payloads, Settle(payload)
      PROVE  /\ AllLegsAgree(cfg.legs, pinned, final_price')
             /\ UpdatePriced(cfg.feed_id, final_price', cfg.expiry)
    <2> DEFINE cents == PayloadCents(payload, cfg.feed_id)
    <2>1. cents \in Int
        BY <1>1, OracleConstants, CentsInt DEF Settle, UsableUpdate, PayloadCents, IsPayload
    <2>2. /\ IsOpen /\ Corroborated(cfg.legs, pinned, cents) /\ final_price' = cents
          /\ UsableUpdate(payload, cfg.feed_id, cfg.expiry)
        BY <1>1 DEF Settle
    <2>3. /\ DOMAIN cfg.legs \subseteq Legs
          /\ \A leg \in DOMAIN cfg.legs : cfg.legs[leg] \in OracleFeedConfig
          /\ cfg.expiry \in Int
        <3>1. cfg \in Arguments
            BY <2>2, InvariantParts DEF IsOpen
        <3> QED  BY <3>1 DEF Arguments, Legs
    <2>4. final_price' = PayloadCents(payload, cfg.feed_id)
        BY <2>2
    <2> HIDE DEF cents
    <2>5. AllLegsAgree(cfg.legs, pinned, final_price')
        BY <2>1, <2>2, <2>3, InvariantParts, CorroboratedAgrees
    <2> QED  BY <2>2, <2>3, <2>4, <2>5, UsablePriced
<1>2. ASSUME IsOpen, status' \in Resolved
      PROVE  \E payload \in Payloads : Settle(payload)
    <2>1. status' # status /\ status' # "Cancelled" /\ status # "Uninitialized"
        BY <1>2 DEF IsOpen, Resolved
    <2> QED
        BY <2>1
        DEF Next, CallsBy, OpenCalls, vars, contract, Initialize, Split, Merge, Buy, Sell,
            Transfer, StrayTransfer, Redeem, Cancel, Tick, FeedUpdate
<1> QED
    BY <1>1, <1>2 DEF SettlementStep

\* Only a purchase gets more shares than it pays for, and its rounding is capped.
LEMMA RoundTrips ==
    ASSUME IInv, [Next]_vars
    PROVE  RoundTripStep
<1>0. IInv' /\ Books /\ Books' /\ (IsOpen => Pooled /\ FeeTerms(cfg))
    BY StepInv, InvariantParts DEF StepFacts, Books, IInv, Typed
<1>1. ASSUME NEW user \in Addr, NEW side \in Prediction, NEW amount \in Amounts,
             NEW minimum \in Minimums, Buy(user, side, amount, minimum)
      PROVE  RoundTripStep
    BY <1>0, <1>1, SwapInCapped DEF Buy, TradingOpen, RoundTripStep
<1>2. ASSUME NEW user \in Addr, NEW side \in Prediction, NEW amount \in Amounts,
             NEW minimum \in Minimums, Sell(user, side, amount, minimum)
      PROVE  RoundTripStep
    <2>1. IsOpen /\ SwapOut(user, side, amount, minimum, CurrentFee(cfg))
        BY <1>2 DEF Sell, TradingOpen
    <2>2. \E out \in Nat : ReleasesTo(user, out)
        BY <1>0, <2>1, SwapOutReleases
    <2> QED  BY <1>0, <2>2, NoPurchase DEF RoundTripStep
<1>3. ASSUME NEW user \in Addr, NEW amount \in Amounts, Split(user, amount)
      PROVE  RoundTripStep
    BY <1>0, <1>3, NoPurchase DEF Split, RoundTripStep
<1>4. ASSUME NEW user \in Addr, NEW amount \in Amounts, Merge(user, amount)
      PROVE  RoundTripStep
    <2>1. ReleasesTo(user, amount) /\ amount \in Nat
        BY <1>4, BurnReleases DEF Merge, ReleasesTo
    <2> QED  BY <1>0, <2>1, NoPurchase DEF RoundTripStep
<1>5. ASSUME UNCHANGED wallet \/ UNCHANGED bal \/ ~ IsOpen
      PROVE  RoundTripStep
    BY <1>0, <1>5, NoPurchase DEF RoundTripStep
<1> QED
    BY <1>1, <1>2, <1>3, <1>4, <1>5
    DEF Next, CallsBy, OpenCalls, vars, exchange, IsOpen, Initialize, Redeem, Transfer, MoveShares,
        StrayTransfer, SendStray, Tick, FeedUpdate, Settle, Cancel, PoolToTreasury, Final, Resolved

-----------------------------------------------------------------------------
\* What follows where no purchase can cost shares.

\* No step overdraws a balance.
LEMMA StrongStep ==
    ASSUME SInv, FeeCovered, [Next]_vars
    PROVE  SInv'
<1>0. IInv /\ IInv' /\ Books /\ NoneOverdrawn
    BY StepInv, InvariantParts DEF SInv, StepFacts
<1>1. ASSUME NEW user \in Addr, NEW side \in Prediction, NEW amount \in Amounts,
             NEW minimum \in Minimums, Buy(user, side, amount, minimum)
      PROVE  NoneOverdrawn'
    <2>1. /\ Pooled /\ FeeTerms(cfg) /\ NoLossAccepted(cfg)
          /\ SwapIn(user, side, amount, minimum, CurrentFee(cfg))
        BY <1>0, <1>1, InvariantParts DEF Buy, TradingOpen, FeeCovered
    <2> QED  BY <1>0, <2>1, SwapInKeeps
<1>2. ASSUME NEW user \in Addr, NEW amount \in Amounts,
             \/ Split(user, amount)
             \/ Merge(user, amount)
             \/ \E side \in Prediction, minimum \in Minimums : Sell(user, side, amount, minimum)
             \/ \E to \in Addr, side \in Prediction : Transfer(user, to, side, amount)
      PROVE  NoneOverdrawn'
    <2>1. amount \in Int /\ "Yes" \in Prediction
        BY ExchangeConstants DEF Prediction
    <2>2. CASE Split(user, amount) \/ Merge(user, amount)
        BY <1>0, <2>1, <2>2, OnlySwapInOverdraws DEF Split, Merge
    <2>3. ASSUME NEW side \in Prediction, NEW minimum \in Minimums,
                 Sell(user, side, amount, minimum)
          PROVE  NoneOverdrawn'
        BY <1>0, <2>1, <2>3, OnlySwapInOverdraws DEF Sell
    <2>4. ASSUME NEW to \in Addr, NEW side \in Prediction, Transfer(user, to, side, amount)
          PROVE  NoneOverdrawn'
        BY <1>0, <2>1, <2>4, OnlySwapInOverdraws DEF Transfer
    <2> QED  BY <1>2, <2>2, <2>3, <2>4
<1>3. ASSUME NEW user \in Addr, Redeem(user)
      PROVE  NoneOverdrawn'
    <2>1. Payout(status, bal, user) \in Int /\ PayClaim(user, Payout(status, bal, user))
        BY <1>0, <1>3, PayoutInt DEF Redeem
    <2> QED  BY <1>0, <2>1, OnlySwapInOverdraws DEF Prediction
<1>4. ASSUME OpenCalls
      PROVE  NoneOverdrawn'
    <2>1. PoolToTreasury(cfg.treasury) /\ cfg.treasury \in Addr
        BY <1>0, <1>4, InvariantParts DEF OpenCalls, Settle, Cancel, IsOpen, Arguments
    <2> QED  BY <1>0, <2>1, OnlySwapInOverdraws DEF Prediction
<1>5. ASSUME UNCHANGED bal
      PROVE  NoneOverdrawn'
    BY <1>0, <1>5 DEF NoneOverdrawn
<1>6. NoneOverdrawn'
    BY <1>1, <1>2, <1>3, <1>4, <1>5
    DEF Next, CallsBy, vars, exchange, Initialize, Seed, StrayTransfer, SendStray, Tick,
        FeedUpdate
<1> QED
    BY <1>0, <1>6 DEF SInv

\* Once final, a market pays and moves claims, and makes none.
LEMMA FinalShrinks ==
    ASSUME SInv, [Next]_vars
    PROVE  FinalityStep
<1>0. IInv /\ Books /\ NoneOverdrawn /\ OutcomeKeptStep
    BY StepInv, InvariantParts DEF SInv, StepFacts
<1>1. ASSUME NEW user \in Addr, Redeem(user)
      PROVE  ClaimsShrink
    BY <1>0, <1>1, RedeemInv, PayoutInt, PayShrinks
<1>2. ASSUME UNCHANGED total_supply, \A side \in Prediction : Total(bal'[side]) = Total(bal[side])
      PROVE  ClaimsShrink
    <2>1. total_supply \in Int /\ \A side \in Prediction : Total(bal[side]) \in Int
        BY <1>0, Balances DEF Books
    <2> QED  BY <1>2, <2>1 DEF ClaimsShrink
<1>3. ASSUME NEW from \in Addr, NEW to \in Addr, NEW side \in Prediction,
             NEW amount \in Amounts, Transfer(from, to, side, amount)
      PROVE  ClaimsShrink
    BY <1>0, <1>2, <1>3, TransferInv
<1>4. ASSUME UNCHANGED <<total_supply, bal>>
      PROVE  ClaimsShrink
    BY <1>2, <1>4
<1>5. status \in Final => ClaimsShrink
    <2> SUFFICES ASSUME status \in Final
                 PROVE  ClaimsShrink
        OBVIOUS
    <2>1. ~ IsOpen /\ status # "Uninitialized"
        BY DEF IsOpen, Final, Resolved
    <2> QED
        BY <1>1, <1>3, <1>4, <2>1
        DEF Next, CallsBy, OpenCalls, vars, exchange, TradingOpen, Initialize, Split, Merge,
            Buy, Sell, Settle, Cancel, StrayTransfer, SendStray, Tick, FeedUpdate
<1> QED
    BY <1>0, <1>5 DEF FinalityStep, OutcomeKeptStep

\* What is locked covers any one claim.
LEMMA Payable == SInv => RedeemerPayable
<1> SUFFICES ASSUME SInv
             PROVE  RedeemerPayable
    OBVIOUS
<1>1. held - stray = total_supply
    BY InvariantParts, Balances DEF SInv, Books, CollateralHeld
<1> QED
    BY <1>1, PayoutBound DEF RedeemerPayable

-----------------------------------------------------------------------------

\* The market stays in IInv, for every value of the constants.
THEOREM Invariance == Spec => []IInv
<1>1. IInv /\ [Next]_vars => IInv'
    BY StepInv DEF StepFacts
<1>2. Init => IInv
    BY InitInv DEF SInv
<1> QED
    BY <1>1, <1>2, PTL DEF Spec

\* The contract always holds total_supply and what was sent to it besides.
THEOREM CollateralAlwaysHeld == Spec => []CollateralHeld
<1>1. IInv => CollateralHeld
    BY DEF IInv
<1> QED
    BY Invariance, <1>1, PTL

\* Claims on collateral are counted once, before and after the outcome.
THEOREM ClaimsAlwaysBacked == Spec => []ClaimsBacked
<1>1. IInv => ClaimsBacked
    BY DEF IInv
<1> QED
    BY Invariance, <1>1, PTL

\* No order of trades empties a reserve.
THEOREM PoolNeverEmpties == Spec => []PoolNeverEmpty
<1>1. IInv => PoolNeverEmpty
    BY DEF IInv
<1> QED
    BY Invariance, <1>1, PTL

\* An outcome is decided once, and every share of the pool goes to the treasury.
THEOREM OutcomeDecidedOnce == Spec => OutcomeKept
<1>1. IInv /\ [Next]_vars => OutcomeKeptStep
    BY StepInv DEF StepFacts
<1> QED
    BY Invariance, <1>1, PTL DEF Spec, OutcomeKept

\* After the expiry the open market's net exposure is frozen.
THEOREM NoTradeAfterExpiry == Spec => ExposureFrozen
<1>1. IInv /\ [Next]_vars => ExposureFrozenStep
    BY StepInv DEF StepFacts
<1> QED
    BY Invariance, <1>1, PTL DEF Spec, ExposureFrozen

\* Integer rounding never costs the pool more than a share a side per trade.
THEOREM RoundingBounded == Spec => TradeRoundingBounded
<1>1. IInv /\ [Next]_vars => TradeRoundingBoundedStep
    BY StepInv DEF StepFacts
<1> QED
    BY Invariance, <1>1, PTL DEF Spec, TradeRoundingBounded

\* What was just bought sells, in one sale, for at most two units more than it cost.
THEOREM RoundTripAlwaysBounded == Spec => RoundTripBounded
<1>1. IInv /\ [Next]_vars => RoundTripStep
    BY RoundTrips
<1> QED
    BY Invariance, <1>1, PTL DEF Spec, RoundTripBounded

\* A market resolves only at the price of a signed update from around its expiry
\* that every configured feed agrees with, fresh and at the pinned precision.
THEOREM SettlementIsCorroborated == Spec => SettlementCorroborated
<1>1. IInv /\ [Next]_vars => SettlementStep
    BY SettlementChecked
<1> QED
    BY Invariance, <1>1, PTL DEF Spec, SettlementCorroborated

-----------------------------------------------------------------------------
\* Where no purchase can cost shares, no balance is ever overdrawn.
LEMMA StrongInvariance == Spec /\ []FeeCovered => []SInv
BY InitInv, StrongStep, PTL DEF Spec

\* Then no share balance, reserve, supply or token balance is driven below zero by
\* any order of calls.
THEOREM TypeCorrect == Spec /\ []FeeCovered => []TypeOK
BY StrongInvariance, StrongTypeOK, PTL

\* Then whoever redeems next can be paid in full from the locked collateral.
THEOREM Solvency == Spec /\ []FeeCovered => []RedeemerPayable
BY StrongInvariance, Payable, PTL

\* Then claims and supply only shrink once the outcome is decided.
THEOREM OutcomeFinal == Spec /\ []FeeCovered => Finality
<1>1. SInv /\ [Next]_vars => FinalityStep
    BY FinalShrinks
<1> QED
    BY StrongInvariance, <1>1, PTL DEF Spec, Finality

-----------------------------------------------------------------------------
\* The market as an escrow: each step of the market is one of the escrow under
\* the mapping of Escrowed, or changes nothing of it.

Dues == [a \in Addr |-> Due(a)]

\* A step that leaves outcome, supply, shares and purses alone is none of the
\* escrow's.
LEMMA EscrowStutter ==
    ASSUME UNCHANGED <<status, total_supply, bal, wallet>>
    PROVE  UNCHANGED Escrowed!escrow
BY DEF Escrowed!escrow, Due, IsOpen, Resolved, Winner

\* Collateral is taken in before the outcome, when nothing is due.
LEMMA EscrowLock ==
    ASSUME NEW user \in Addr, NEW amount, LocksFrom(user, amount),
           status \in {"Uninitialized", "Open"}, status' = "Open"
    PROVE  Escrowed!Next
<1>1. Escrowed!Lock(user, amount)
    BY DEF LocksFrom, Escrowed!Lock, Due, IsOpen, Resolved
<1>2. amount \in 1..wallet[user]
    BY DEF LocksFrom
<1> QED
    BY <1>1, <1>2 DEF Escrowed!Next, Escrowed!Addr, Addr

\* So is what is handed back.
LEMMA EscrowRelease ==
    ASSUME TypeOK, TypeOK', NEW user \in Addr, NEW amount, ReleasesTo(user, amount),
           status = "Open", status' = "Open"
    PROVE  Escrowed!Next
<1>1. Escrowed!Release(user, amount)
    BY DEF ReleasesTo, Escrowed!Release, Due, IsOpen, Resolved
<1>2. amount \in 1..total_supply
    <2>1. total_supply \in Nat /\ total_supply' \in Nat
        BY DEF TypeOK, ExchangeTypeOK
    <2> QED  BY <2>1 DEF ReleasesTo
<1> QED
    BY <1>1, <1>2 DEF Escrowed!Next, Escrowed!Addr, Addr

\* Collateral sent to the contract outside its calls is lost.
LEMMA EscrowLose ==
    ASSUME IInv, NEW user \in Addr, NEW amount \in Amounts, StrayTransfer(user, amount)
    PROVE  Escrowed!Next
<1>1. /\ amount \in 1..wallet[user]
      /\ wallet' = [wallet EXCEPT ![user] = @ - amount]
      /\ UNCHANGED <<status, total_supply, bal>>
    BY ExchangeConstants
    DEF StrayTransfer, SendStray, PayIn, contract, IInv, Typed, ExchangeTyped
<1>2. Escrowed!Lose(user, amount)
    BY <1>1 DEF Escrowed!Lose, Due, IsOpen, Resolved, Winner
<1> QED
    BY <1>1, <1>2 DEF Escrowed!Next, Escrowed!Addr, Addr

\* The outcome assigns twice total_supply halves: all of the winning side, or
\* both sides at a half each.
LEMMA EscrowClose ==
    ASSUME SInv', IsOpen, status' \in Final, HoldersOwnAll',
           UNCHANGED <<total_supply, wallet>>
    PROVE  Escrowed!Next
<1>1. bal' \in Ledgers /\ Total(bal'["Yes"]) = total_supply /\ Total(bal'["No"]) = total_supply
    BY DEF SInv, NoneOverdrawn, HoldersOwnAll, Prediction
<1>2. total_supply \in Int
    BY DEF SInv, IInv, Typed, ExchangeTyped
<1>3. Dues' \in [Addr -> Nat] /\ Total(Dues') = 2 * total_supply
    <2>1. CASE status' \in Resolved
        <3>1. Winner(status') \in Prediction /\ Total(bal'[Winner(status')]) = total_supply
            BY <1>1 DEF Winner, Prediction
        <3>2. Dues' = [a \in Addr |-> 2 * bal'[Winner(status')][a]]
            BY <2>1 DEF Dues, Due
        <3> QED  BY <1>1, <3>1, <3>2, WinnersClaims
    <2>2. CASE status' = "Cancelled"
        <3>1. Dues' = [a \in Addr |-> bal'["Yes"][a] + bal'["No"][a]]
            BY <2>2 DEF Dues, Due, Resolved
        <3>2. Total(Dues') = total_supply + total_supply
            BY <1>1, <3>1, HalvesClaims
        <3> QED  BY <1>1, <1>2, <3>1, <3>2, HalvesClaims
    <2> QED  BY <2>1, <2>2 DEF Final
<1>4. Escrowed!Total(Dues') = Total(Dues')
    BY DEF Escrowed!Total, Total
<1>5. Escrowed!Close
    BY <1>3, <1>4 DEF Escrowed!Close, Escrowed!Addr, Addr, Dues, IsOpen, Final, Resolved
<1> QED
    BY <1>5 DEF Escrowed!Next

\* A transfer moves what the shares are worth; before the outcome, or of the
\* losing side, that is nothing.
LEMMA EscrowMove ==
    ASSUME SInv, SInv', NEW from \in Addr, NEW to \in Addr, NEW side \in Prediction,
           NEW amount \in Amounts, Transfer(from, to, side, amount)
    PROVE  Escrowed!Next \/ UNCHANGED Escrowed!escrow
<1> DEFINE f == bal[side]
           g == bal'[side]
<1>1. /\ UNCHANGED <<status, total_supply, wallet>>
      /\ bal \in Ledgers /\ bal[side][from] >= amount /\ amount \in Nat \ {0}
      /\ bal' = credit(debit(bal, side, from, amount), side, to, amount)
      /\ bal \in Signed
    BY ExchangeConstants, NotOverdrawn
    DEF Transfer, contract, MoveShares, CanDebit, SInv, NoneOverdrawn
<1>2. /\ g = [[f EXCEPT ![from] = @ - amount] EXCEPT ![to] = @ + amount]
      /\ \A s \in Prediction \ {side} : bal'[s] = bal[s]
    BY <1>1, MoveLedger
<1>3. f \in [Addr -> Nat] /\ f[from] >= amount
    BY <1>1, LedgerBalances
<1> HIDE DEF f, g
<1>4. CASE status \in Resolved /\ side = Winner(status)
    <2>1. Dues = [a \in Addr |-> 2 * f[a]] /\ Dues' = [a \in Addr |-> 2 * g[a]]
        BY <1>1, <1>4 DEF Dues, Due, f, g
    <2>2. Dues' = [[Dues EXCEPT ![from] = @ - 2 * amount] EXCEPT ![to] = @ + 2 * amount]
        BY <1>1, <1>2, <1>3, <2>1
    <2>3. 2 * amount \in 1..Dues[from]
        BY <1>1, <1>3, <2>1
    <2>4. Escrowed!Move(from, to, 2 * amount)
        BY <1>1, <2>2 DEF Escrowed!Move, Dues, IsOpen
    <2> QED  BY <2>3, <2>4 DEF Escrowed!Next, Escrowed!Addr, Addr, Dues
<1>5. CASE status = "Cancelled"
    <2> DEFINE h == bal[other(side)]
    <2>1. h \in [Addr -> Nat] /\ bal'[other(side)] = h
        BY <1>1, <1>2, LedgerBalances DEF other, Prediction
    <2>2. Dues = [a \in Addr |-> f[a] + h[a]] /\ Dues' = [a \in Addr |-> g[a] + h[a]]
        <3>1. \A a \in Addr : bal["Yes"][a] \in Nat /\ bal["No"][a] \in Nat
            BY <1>1, LedgerBalances DEF Prediction
        <3>2. \A a \in Addr : Due(a) = f[a] + h[a]
            BY <1>5, <3>1 DEF Due, Resolved, Prediction, other, f
        <3>3. bal' \in Ledgers
            BY DEF SInv, NoneOverdrawn
        <3>4. \A a \in Addr : bal'["Yes"][a] \in Nat /\ bal'["No"][a] \in Nat
            BY <3>3, LedgerBalances DEF Prediction
        <3>5. \A a \in Addr : Due(a)' = g[a] + h[a]
            BY <1>1, <1>5, <2>1, <3>4 DEF Due, Resolved, Prediction, other, g
        <3> QED  BY <3>2, <3>5 DEF Dues
    <2> HIDE DEF h
    <2>3. Dues' = [[Dues EXCEPT ![from] = @ - amount] EXCEPT ![to] = @ + amount]
        BY <1>1, <1>2, <1>3, <2>1, <2>2
    <2>4. amount \in 1..Dues[from]
        BY <1>1, <1>3, <2>1, <2>2
    <2>5. Escrowed!Move(from, to, amount)
        BY <1>1, <2>3 DEF Escrowed!Move, Dues, IsOpen
    <2> QED  BY <1>1, <2>4, <2>5 DEF Escrowed!Next, Escrowed!Addr, Addr, Dues
<1>6. CASE status \notin Final
    BY <1>1, <1>6 DEF Escrowed!escrow, Due, IsOpen, Final
<1>7. CASE status \in Resolved /\ side # Winner(status)
    <2>1. bal'[Winner(status)] = bal[Winner(status)]
        BY <1>2, <1>7 DEF Winner, Prediction
    <2> QED  BY <1>1, <1>7, <2>1 DEF Escrowed!escrow, Due, IsOpen
<1> QED
    BY <1>4, <1>5, <1>6, <1>7 DEF Final

\* A redemption pays what is due to one holder, rounded down, and clears it.
LEMMA EscrowPay ==
    ASSUME SInv, NEW user \in Addr, Redeem(user)
    PROVE  Escrowed!Next
<1> DEFINE payout == Payout(status, bal, user)
<1>1. /\ status \in Final /\ UNCHANGED status
      /\ payout > 0
      /\ wallet' = [wallet EXCEPT ![user] = @ + payout]
      /\ total_supply' = total_supply - payout
      /\ bal' = clear(bal, user)
    BY DEF Redeem, contract, PayClaim, PayOut
<1>2. bal \in Ledgers /\ \A a \in Addr, side \in Prediction : bal[side][a] \in Nat
    BY OwnBalances DEF SInv, NoneOverdrawn
<1>3. \A side \in Prediction : bal'[side] = [bal[side] EXCEPT ![user] = 0]
    BY <1>1, <1>2 DEF clear, Ledgers, Prediction
<1>4. CASE status \in Resolved
    <2> DEFINE f == bal[Winner(status)]
    <2>1. /\ Winner(status) \in Prediction
          /\ payout = f[user] /\ f[user] \in Nat /\ f \in [Addr -> Nat]
        BY <1>2, <1>4 DEF Payout, Resolved, Winner, Prediction, Ledgers
    <2>2. /\ Dues = [a \in Addr |-> 2 * f[a]]
          /\ Dues' = [a \in Addr |-> 2 * [f EXCEPT ![user] = 0][a]]
        BY <1>1, <1>3, <1>4, <2>1 DEF Dues, Due
    <2> HIDE DEF f, payout
    <2>3. Dues[user] \div 2 = payout /\ Dues' = [Dues EXCEPT ![user] = 0]
        BY <2>1, <2>2
    <2>4. Escrowed!Pay(user)
        BY <1>1, <2>3 DEF Escrowed!Pay, Dues, IsOpen, Final, Resolved
    <2> QED  BY <2>4 DEF Escrowed!Next, Escrowed!Addr, Addr
<1>5. CASE status = "Cancelled"
    <2> DEFINE f == bal["Yes"]
               g == bal["No"]
    <2>1. /\ payout = (f[user] + g[user]) \div 2
          /\ f \in [Addr -> Nat] /\ g \in [Addr -> Nat]
        BY <1>2, <1>5 DEF Payout, Half, Prediction, Ledgers
    <2>2. /\ Dues = [a \in Addr |-> f[a] + g[a]]
          /\ Dues' = [a \in Addr |-> [f EXCEPT ![user] = 0][a] + [g EXCEPT ![user] = 0][a]]
        BY <1>1, <1>3, <1>5 DEF Dues, Due, Resolved, Prediction
    <2> HIDE DEF f, g, payout
    <2>3. Dues[user] \div 2 = payout /\ Dues' = [Dues EXCEPT ![user] = 0]
        BY <2>1, <2>2
    <2>4. Escrowed!Pay(user)
        BY <1>1, <2>3 DEF Escrowed!Pay, Dues, IsOpen, Final, Resolved
    <2> QED  BY <2>4 DEF Escrowed!Next, Escrowed!Addr, Addr
<1> QED
    BY <1>1, <1>4, <1>5 DEF Final

\* Every step of the market is one of the escrow or none: one case per action.
LEMMA EscrowStep ==
    ASSUME SInv, SInv', TypeOK, TypeOK', [Next]_vars
    PROVE  Escrowed!Next \/ UNCHANGED Escrowed!escrow
<1>0. IInv /\ IInv' /\ Books /\ Books'
    BY InvariantParts DEF SInv, IInv, Typed, Books
<1>1. ASSUME NEW c \in Configs, Initialize(c)
      PROVE  Escrowed!Next
    <2>1. /\ c.admin \in Addr /\ c.initial_liquidity \in Nat \ {0}
          /\ total_supply = 0 /\ status = "Uninitialized" /\ status' = "Open"
        BY <1>0, <1>1, MarketConstants
        DEF Initialize, UsableTerms, Arguments, IInv, ClaimsBacked
    <2> QED  BY <1>0, <1>1, <2>1, SeedLocks, EscrowLock DEF Initialize
<1>2. ASSUME NEW user \in Addr, NEW amount \in Amounts, Split(user, amount)
      PROVE  Escrowed!Next
    BY <1>0, <1>2, MintLocks, EscrowLock DEF Split, contract, IsOpen
<1>3. ASSUME NEW user \in Addr, NEW amount \in Amounts, Merge(user, amount)
      PROVE  Escrowed!Next
    BY <1>0, <1>3, BurnReleases, EscrowRelease DEF Merge, contract, IsOpen
<1>4. ASSUME NEW user \in Addr, NEW side \in Prediction, NEW amount \in Amounts,
             NEW minimum \in Minimums, Buy(user, side, amount, minimum)
      PROVE  Escrowed!Next
    BY <1>0, <1>4, SwapInLocks, EscrowLock DEF Buy, TradingOpen, contract, IsOpen
<1>5. ASSUME NEW user \in Addr, NEW side \in Prediction, NEW amount \in Amounts,
             NEW minimum \in Minimums, Sell(user, side, amount, minimum)
      PROVE  Escrowed!Next
    <2>1. /\ IsOpen /\ UNCHANGED status
          /\ SwapOut(user, side, amount, minimum, CurrentFee(cfg))
        BY <1>5 DEF Sell, TradingOpen, contract
    <2>2. PICK out \in Nat : ReleasesTo(user, out)
        BY <1>0, <2>1, InvariantParts, SwapOutReleases
    <2> QED  BY <2>1, <2>2, EscrowRelease DEF IsOpen
<1>6. ASSUME NEW from \in Addr, NEW to \in Addr, NEW side \in Prediction,
             NEW amount \in Amounts, Transfer(from, to, side, amount)
      PROVE  Escrowed!Next \/ UNCHANGED Escrowed!escrow
    BY <1>6, EscrowMove
<1>7. ASSUME NEW payload \in Payloads, Settle(payload)
      PROVE  Escrowed!Next
    BY <1>0, <1>7, SettleInv, EscrowClose DEF Settle, PoolToTreasury
<1>8. ASSUME Cancel
      PROVE  Escrowed!Next
    BY <1>0, <1>8, CancelInv, EscrowClose DEF Cancel, PoolToTreasury
<1>9. ASSUME NEW user \in Addr, Redeem(user)
      PROVE  Escrowed!Next
    BY <1>9, EscrowPay
<1>10. ASSUME NEW user \in Addr, NEW amount \in Amounts, StrayTransfer(user, amount)
       PROVE  Escrowed!Next
    BY <1>0, <1>10, EscrowLose
<1>11. ASSUME Tick \/ (\E leg \in Legs : FeedUpdate(leg)) \/ UNCHANGED vars
       PROVE  UNCHANGED Escrowed!escrow
    <2>1. UNCHANGED <<status, total_supply, bal, wallet>>
        BY <1>11 DEF Tick, FeedUpdate, vars, contract, exchange
    <2> QED  BY <2>1, EscrowStutter
<1> QED
    BY <1>1, <1>2, <1>3, <1>4, <1>5, <1>6, <1>7, <1>8, <1>9, <1>10, <1>11
    DEF Next, CallsBy, OpenCalls

\* The market implements Escrow, for every value of the constants.
THEOREM MarketIsEscrow == Spec /\ []FeeCovered => ImplementsEscrow
<1>1. Init => Escrowed!Init
    BY DEF Init, ExchangeInit, Escrowed!Init, Due, Escrowed!Addr, Addr, Resolved
<1>2. SInv /\ SInv' /\ TypeOK /\ TypeOK' /\ [Next]_vars => [Escrowed!Next]_(Escrowed!escrow)
    BY EscrowStep
<1> QED
    BY <1>1, <1>2, StrongInvariance, TypeCorrect, PTL DEF Spec, ImplementsEscrow, Escrowed!Spec

-----------------------------------------------------------------------------
\* Terms that cap the fee, or callers who ask for at least nothing.
LEMMA CheapCovered ==
    ASSUME Minimums \subseteq Nat \/ \A c \in Configs : CheapTerms(c), SInv
    PROVE  FeeCovered
<1> SUFFICES ASSUME IsOpen
             PROVE  NoLossAccepted(cfg)
    BY DEF FeeCovered
<1>1. CASE Minimums \subseteq Nat
    BY <1>1 DEF NoLossAccepted
<1>2. CASE \A c \in Configs : CheapTerms(c)
    <2>1. ExchangeTyped /\ Pooled /\ NoneOverdrawn /\ FeeTerms(cfg) /\ cfg \in Configs
        BY InvariantParts DEF SInv, IInv, Typed, IsOpen
    <2> QED  BY <1>2, <2>1, CheapFee
<1> QED
    BY <1>1, <1>2

\* The condition needs no argument about the run when every caller asks for at least
\* nothing, or when the terms cap the fee at 100 % at any supply.
THEOREM CheapTermsSuffice ==
    ASSUME Minimums \subseteq Nat \/ \A c \in Configs : CheapTerms(c)
    PROVE  Spec => []FeeCovered /\ []TypeOK /\ []RedeemerPayable /\ Finality /\ ImplementsEscrow
<1>1. SInv => FeeCovered
    BY CheapCovered
<1>2. SInv /\ [Next]_vars => SInv'
    BY <1>1, StrongStep
<1>3. Spec => []FeeCovered
    BY <1>1, <1>2, InitInv, PTL DEF Spec
<1> QED
    BY <1>3, TypeCorrect, Solvency, OutcomeFinal, MarketIsEscrow, PTL

-----------------------------------------------------------------------------
\* The market among others that use the token, the clock and the feeds.

\* What others do to purses, clock and feeds does not concern the market.
LEMMA BystanderInv ==
    ASSUME IInv, UNCHANGED contract, UNCHANGED <<pool, total_supply, bal, held, stray>>,
           wallet' \in [Addr -> Nat], OraclesTypeOK'
    PROVE  IInv'
<1>1. UNCHANGED <<cfg, pinned, status, final_price>>
    BY DEF contract
<1> QED
    BY <1>1
    DEF IInv, Typed, ExchangeTyped, CollateralHeld, ClaimsBacked, PoolNeverEmpty, IsOpen,
        SidesBalanced, HalvesBacked, ReservesPositive

\* The clock never runs backwards.
LEMMA ClockAdvances ==
    ASSUME IInv, [Next]_vars
    PROVE  now <= now'
<1>1. /\ OraclesTypeOK /\ now \in Int
      /\ UNCHANGED now => now <= now'
    BY InvariantParts, OracleConstants, WidthConstants DEF OraclesTypeOK
<1>2. CASE Tick
    BY <1>1, <1>2, CloseStep DEF Tick
<1>3. ASSUME NEW leg \in Legs, FeedUpdate(leg)
      PROVE  now <= now'
    BY <1>1, <1>3, PublishStep DEF FeedUpdate
<1>4. CASE UNCHANGED now
    BY <1>1, <1>4
<1> QED
    BY <1>2, <1>3, <1>4
    DEF Next, CallsBy, OpenCalls, vars, oracles, Initialize, Split, Merge, Buy, Sell,
        Transfer, StrayTransfer, Redeem, Settle, Cancel

\* No step creates or destroys collateral.
LEMMA StepConserves ==
    ASSUME IInv, [Next]_vars
    PROVE  Conserved
<1>0. IInv' /\ Books /\ Books'
    BY StepInv, InvariantParts DEF StepFacts, Books, IInv, Typed
<1>1. ASSUME NEW c \in Configs, Initialize(c)
      PROVE  Conserved
    <2>1. c.admin \in Addr /\ c.initial_liquidity \in Nat \ {0} /\ total_supply = 0
        BY <1>1, MarketConstants
        DEF Initialize, UsableTerms, Arguments, IInv, ClaimsBacked
    <2>2. Seed(c.admin, c.initial_liquidity)
        BY <1>1 DEF Initialize
    <2> QED  BY <1>0, <2>1, <2>2, SeedLocks, LockConserves DEF Seed
<1>2. ASSUME NEW user \in Addr, NEW amount \in Amounts, Split(user, amount)
      PROVE  Conserved
    BY <1>0, <1>2, MintLocks, LockConserves DEF Split, MintPairs
<1>3. ASSUME NEW user \in Addr, NEW amount \in Amounts, Merge(user, amount)
      PROVE  Conserved
    BY <1>0, <1>3, BurnReleases, ReleaseConserves DEF Merge, BurnPairs
<1>4. ASSUME NEW user \in Addr, NEW side \in Prediction, NEW amount \in Amounts,
             NEW minimum \in Minimums, Buy(user, side, amount, minimum)
      PROVE  Conserved
    BY <1>0, <1>4, SwapInLocks, LockConserves DEF Buy, SwapIn
<1>5. ASSUME NEW user \in Addr, NEW side \in Prediction, NEW amount \in Amounts,
             NEW minimum \in Minimums, Sell(user, side, amount, minimum)
      PROVE  Conserved
    <2>1. IsOpen /\ SwapOut(user, side, amount, minimum, CurrentFee(cfg))
        BY <1>5 DEF Sell, TradingOpen
    <2>2. PICK out \in Nat : ReleasesTo(user, out)
        BY <1>0, <2>1, InvariantParts, SwapOutReleases
    <2>3. UNCHANGED stray
        BY <2>1 DEF SwapOut
    <2> QED  BY <1>0, <2>2, <2>3, ReleaseConserves
<1>6. ASSUME NEW user \in Addr, Redeem(user)
      PROVE  Conserved
    <2> DEFINE payout == Payout(status, bal, user)
    <2>1. payout \in Int /\ payout > 0 /\ PayClaim(user, payout)
        BY <1>6, PayoutInt DEF Redeem, PayClaim
    <2> HIDE DEF payout
    <2>2. ReleasesTo(user, payout) /\ UNCHANGED stray
        BY <2>1 DEF PayClaim, PayOut, ReleasesTo
    <2> QED  BY <1>0, <2>2, ReleaseConserves
<1>7. ASSUME NEW user \in Addr, NEW amount \in Amounts, StrayTransfer(user, amount)
      PROVE  Conserved
    BY <1>0, <1>7, StrayConserves DEF StrayTransfer
<1>8. ASSUME UNCHANGED <<wallet, held>>
      PROVE  Conserved
    BY <1>8 DEF Conserved
<1> QED
    BY <1>1, <1>2, <1>3, <1>4, <1>5, <1>6, <1>7, <1>8
    DEF Next, CallsBy, OpenCalls, vars, exchange, Transfer, MoveShares, Settle, Cancel,
        PoolToTreasury, Tick, FeedUpdate

\* The steps that are not a call in the name of a.
StepOfOthers(a) ==
    \/ \E c \in Configs : Initialize(c)
    \/ \E user \in Addr \ {a} : CallsBy(user)
    \/ OpenCalls
    \/ Tick
    \/ \E leg \in Legs : FeedUpdate(leg)
    \/ UNCHANGED vars

\* They take no share from a.
LEMMA OthersTakeNothing ==
    ASSUME IInv, NEW a \in Addr, StepOfOthers(a)
    PROVE  KeepsShares(a)
<1>0. /\ ExchangeTyped
      /\ UNCHANGED bal => KeepsShares(a)
    BY InvariantParts, Balances DEF Books, KeepsShares
<1>1. CASE OpenCalls
    <2>1. PoolToTreasury(cfg.treasury) /\ cfg.treasury \in Addr
        BY <1>1, InvariantParts DEF OpenCalls, Settle, Cancel, IsOpen, Arguments
    <2> QED  BY <1>0, <2>1, TreasuryGains
<1>2. CASE \/ \E c \in Configs : Initialize(c)
           \/ Tick
           \/ \E leg \in Legs : FeedUpdate(leg)
           \/ UNCHANGED vars
    BY <1>0, <1>2 DEF Initialize, Seed, Tick, FeedUpdate, vars, exchange
<1>3. ASSUME NEW user \in Addr \ {a}, CallsBy(user)
      PROVE  KeepsShares(a)
    <2>1. CASE Redeem(user)
        BY <1>0, <2>1, OthersKeepShares DEF Redeem, Prediction
    <2>2. ASSUME NEW amount \in Amounts, Split(user, amount) \/ Merge(user, amount)
          PROVE  KeepsShares(a)
        BY <1>0, <2>2, OthersKeepShares DEF Split, Merge, Prediction
    <2>3. ASSUME NEW amount \in Amounts, StrayTransfer(user, amount)
          PROVE  KeepsShares(a)
        BY <1>0, <2>3 DEF StrayTransfer, SendStray
    <2>4. ASSUME NEW amount \in Amounts, NEW side \in Prediction, NEW minimum \in Minimums,
                 Buy(user, side, amount, minimum) \/ Sell(user, side, amount, minimum)
          PROVE  KeepsShares(a)
        BY <1>0, <2>4, OthersKeepShares DEF Buy, Sell
    <2>5. ASSUME NEW amount \in Amounts, NEW side \in Prediction, NEW to \in Addr,
                 Transfer(user, to, side, amount)
          PROVE  KeepsShares(a)
        BY <1>0, <2>5, OthersKeepShares, ExchangeConstants DEF Transfer
    <2> QED
        BY <1>3, <2>1, <2>2, <2>3, <2>4, <2>5 DEF CallsBy
<1> QED
    BY <1>1, <1>2, <1>3 DEF StepOfOthers

\* Ending the market leaves a treasury that owes no shares with a claim on all of
\* one reserve, or on half of both.
LEMMA TreasuryClaim ==
    ASSUME IInv, [Next]_vars, IsOpen, status' \in Final,
           \A side \in Prediction : bal[side][cfg.treasury] >= 0
    PROVE  \E side \in Prediction : Payout(status', bal', cfg.treasury) >= pool[side]
<1> DEFINE t == cfg.treasury
<1>1. t \in Addr /\ ExchangeTyped /\ \A side \in Prediction : pool[side] \in Nat
    BY InvariantParts DEF IsOpen, Arguments, Books, ExchangeTyped
<1>2. PoolToTreasury(t)
    <2>1. status' # status /\ status' # "Open" /\ status # "Uninitialized"
        BY DEF IsOpen, Final, Resolved
    <2> QED
        BY <2>1
        DEF Next, CallsBy, OpenCalls, vars, contract, Initialize, Split, Merge, Buy, Sell,
            Transfer, StrayTransfer, Redeem, Settle, Cancel, Tick, FeedUpdate
<1> HIDE DEF t
<1>3. \A side \in Prediction : bal[side][t] \in Nat /\ bal'[side][t] = bal[side][t] + pool[side]
    <2>1. \A side \in Prediction : bal[side][t] \in Int /\ bal[side][t] >= 0
        BY <1>1, Balances DEF t
    <2> QED  BY <1>1, <1>2, <2>1, TreasuryGains
<1>4. CASE status' = "Cancelled"
    <2>1. Payout(status', bal', t) = (bal'["Yes"][t] + bal'["No"][t]) \div 2
        BY <1>4 DEF Payout, Half
    <2>2. /\ bal'["Yes"][t] \in Nat /\ bal'["Yes"][t] >= pool["Yes"] /\ pool["Yes"] \in Nat
          /\ bal'["No"][t] \in Nat /\ bal'["No"][t] >= pool["No"] /\ pool["No"] \in Nat
        BY <1>1, <1>3 DEF Prediction
    <2>3. \/ Payout(status', bal', t) >= pool["Yes"]
          \/ Payout(status', bal', t) >= pool["No"]
        BY <2>1, <2>2
    <2> QED  BY <2>3 DEF Prediction, t
<1>5. CASE status' \in Resolved
    <2>1. /\ Winner(status') \in Prediction
          /\ Payout(status', bal', t) = bal'[Winner(status')][t]
        BY <1>5 DEF Payout, Winner, Prediction, Resolved
    <2>2. Payout(status', bal', t) >= pool[Winner(status')]
        BY <1>1, <1>3, <2>1
    <2> QED  BY <2>1, <2>2 DEF t
<1> QED
    BY <1>4, <1>5 DEF Final
=============================================================================
