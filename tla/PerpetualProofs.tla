-------------------------- MODULE PerpetualProofs --------------------------
(***************************************************************************)
(* For every number of addresses, every set of arguments and amounts and   *)
(* every bound: what MarketProofs shows of the market, of the perpetual    *)
(* and its wind-down, and under the same condition for the same theorems.  *)
(***************************************************************************)
EXTENDS Perpetual, ExchangeProofs

\* TypeOK without the sign of balances and of the supply.
Typed ==
    /\ status \in {"Uninitialized", "Open", "Terminated"}
    /\ status # "Uninitialized" =>
          /\ cfg \in Configs /\ UsableTerms(cfg)
          /\ pinned \in [DOMAIN cfg.legs -> Nat]
    /\ last_price_cents \in Int
    /\ last_price_at \in 0..now
    /\ ExchangeTyped
    /\ OraclesTypeOK

\* The inductive invariant; the parts need each other as in MarketProofs.
IInv == Typed /\ CollateralHeld /\ ClaimsBacked /\ PoolNeverEmpty

\* The condition on purchases of MarketProofs, and the invariant as long as it holds.
FeeCovered == IsOpen => NoLossAccepted(cfg)

SInv == IInv /\ NoneOverdrawn

\* The invariant as the lemmas about the exchange and its fee use it.
LEMMA InvariantParts ==
    ASSUME IInv
    PROVE  /\ Books
           /\ IsOpen => Pooled /\ FeeTerms(cfg)
           /\ status = "Terminated" => HalvesBacked
           /\ status # "Uninitialized" => cfg \in Arguments
           /\ OraclesTypeOK /\ now \in Nat
<1>1. Books /\ OraclesTypeOK /\ now \in Nat
    BY DEF IInv, Typed, Books, OraclesTypeOK
<1>2. ASSUME status # "Uninitialized"
      PROVE  cfg \in Arguments /\ FeeTerms(cfg)
    <2>1. cfg \in Arguments /\ UsableTerms(cfg)
        BY <1>2, PerpetualConstants DEF IInv, Typed
    <2>2. cfg.base_fee_bps \in Nat /\ cfg.min_fee_bps \in Nat /\ cfg.initial_liquidity \in Int
        BY <2>1 DEF Arguments
    <2> QED  BY <2>1, <2>2 DEF FeeTerms, UsableTerms
<1>3. /\ IsOpen => Pooled
      /\ status = "Terminated" => HalvesBacked
    BY DEF IInv, ClaimsBacked, PoolNeverEmpty, Pooled, IsOpen
<1> QED
    BY <1>1, <1>2, <1>3 DEF IsOpen

\* With no balance overdrawn the supply is a natural number too.
LEMMA StrongTypeOK == SInv => TypeOK
<1> SUFFICES ASSUME SInv
             PROVE  TypeOK
    OBVIOUS
<1>1. /\ \A side \in Prediction : Total(bal[side]) \in Nat
      /\ "Yes" \in Prediction /\ "No" \in Prediction
    BY OwnBalances DEF SInv, Prediction
<1>2. Books /\ total_supply \in Int
    BY InvariantParts, Balances DEF SInv, Books
<1>3. total_supply \in Nat
    <2>1. CASE status = "Uninitialized"
        BY <2>1 DEF SInv, IInv, ClaimsBacked
    <2>2. CASE IsOpen
        BY <2>2, <1>2, InvariantParts, PoolCovered DEF SInv, Books
    <2>3. CASE status = "Terminated"
        <3>1. Total(bal["Yes"]) + Total(bal["No"]) <= 2 * total_supply
            BY <2>3 DEF SInv, IInv, ClaimsBacked, HalvesBacked
        <3> QED  BY <1>1, <1>2, <3>1
    <2> QED  BY <2>1, <2>2, <2>3 DEF SInv, IInv, Typed, IsOpen
<1> QED
    BY <1>3 DEF SInv, IInv, Typed, TypeOK, ExchangeTyped, ExchangeTypeOK, NoneOverdrawn

\* The oracles of a step of the contract are well typed because they stay.
LEMMA OraclesStay ==
    ASSUME OraclesTypeOK, UNCHANGED oracles
    PROVE  OraclesTypeOK' /\ UNCHANGED <<now, feed>>
BY DEF OraclesTypeOK, oracles

\* What a step of the exchange has to show once the contract's own variables
\* and the clock stay.
LEMMA SteadyInv ==
    ASSUME IInv, UNCHANGED contract, OraclesTypeOK', now <= now', Books',
           IsOpen => Pooled',
           status = "Uninitialized" => total_supply' = 0 /\ bal' = NoShares,
           status = "Terminated" => HalvesBacked'
    PROVE  IInv'
<1>1. UNCHANGED <<cfg, pinned, status, last_price_cents, last_price_at>>
    BY DEF contract
<1>2. now \in Nat /\ now' \in Nat
    BY InvariantParts DEF OraclesTypeOK
<1>3. Typed'
    BY <1>1, <1>2 DEF IInv, Typed, Books
<1>4. CollateralHeld'
    BY DEF Books
<1>5. ClaimsBacked' /\ PoolNeverEmpty'
    BY <1>1 DEF ClaimsBacked, PoolNeverEmpty, IsOpen, Pooled
<1> QED
    BY <1>3, <1>4, <1>5 DEF IInv

\* The initial states satisfy the invariant.
LEMMA InitInv == Init => SInv
BY InitialBooks, OraclesInitial
DEF Init, SInv, IInv, Typed, Books, ClaimsBacked, PoolNeverEmpty, IsOpen, OraclesInit

\* initialize opens the perpetual with both reserves seeded.
LEMMA InitializeInv ==
    ASSUME IInv, NEW c \in Configs, Initialize(c)
    PROVE  IInv' /\ ~ IsOpen /\ status # "Terminated"
<1>1. /\ c.admin \in Addr
      /\ c.initial_liquidity \in Nat \ {0}
      /\ UsableTerms(c)
    BY PerpetualConstants DEF Initialize, UsableTerms, Arguments
<1>2. Books /\ total_supply = 0 /\ bal = NoShares
    BY InvariantParts DEF Initialize, IInv, ClaimsBacked
<1>3. Books' /\ Pooled'
    BY <1>1, <1>2, SeedStep DEF Initialize
<1>4. OraclesTypeOK' /\ now' \in Nat
    BY InvariantParts, OraclesStay DEF Initialize
<1>5. /\ status' = "Open" /\ cfg' = c /\ last_price_cents' = 0 /\ last_price_at' = 0
      /\ pinned' \in [DOMAIN cfg'.legs -> Nat]
    BY DecimalsPinned DEF Initialize
<1>6. ~ IsOpen /\ status # "Terminated"
    BY DEF Initialize, IsOpen
<1> QED
    BY <1>1, <1>3, <1>4, <1>5, <1>6
    DEF IInv, Typed, ClaimsBacked, PoolNeverEmpty, Books, Pooled, IsOpen

\* A step of the exchange in an open perpetual.
LEMMA OpenStep ==
    ASSUME IInv, IsOpen, UNCHANGED <<contract, oracles>>, Books', Pooled'
    PROVE  IInv' /\ IsOpen /\ UNCHANGED status
<1>1. UNCHANGED contract /\ UNCHANGED oracles
    OBVIOUS
<1>2. OraclesTypeOK' /\ now <= now'
    BY <1>1, InvariantParts, OraclesStay
<1> QED
    BY <1>1, <1>2, SteadyInv DEF IsOpen, contract

\* split, merge, buy and sell.
LEMMA TradeInv ==
    ASSUME IInv, NEW user \in Addr, NEW amount \in Amounts,
           \/ Split(user, amount)
           \/ Merge(user, amount)
           \/ \E side \in Prediction, minimum \in Minimums :
                 \/ Buy(user, side, amount, minimum)
                 \/ Sell(user, side, amount, minimum)
    PROVE  IInv' /\ IsOpen /\ UNCHANGED status
<1>1. CASE Split(user, amount)
    BY <1>1, InvariantParts, MintStep, OpenStep DEF Split
<1>2. CASE Merge(user, amount)
    BY <1>2, InvariantParts, BurnStep, OpenStep DEF Merge
<1>3. ASSUME NEW side \in Prediction, NEW minimum \in Minimums,
             Buy(user, side, amount, minimum)
      PROVE  IInv' /\ IsOpen /\ UNCHANGED status
    BY <1>3, InvariantParts, SwapInStep, OpenStep DEF Buy
<1>4. ASSUME NEW side \in Prediction, NEW minimum \in Minimums,
             Sell(user, side, amount, minimum)
      PROVE  IInv' /\ IsOpen /\ UNCHANGED status
    BY <1>4, InvariantParts, SwapOutStep, OpenStep DEF Sell
<1> QED
    BY <1>1, <1>2, <1>3, <1>4

\* transfer, in every status.
LEMMA TransferInv ==
    ASSUME IInv, NEW from \in Addr, NEW to \in Addr, NEW side \in Prediction,
           NEW amount \in Amounts, Transfer(from, to, side, amount)
    PROVE  /\ IInv' /\ UNCHANGED <<status, total_supply>>
           /\ \A s \in Prediction : Total(bal'[s]) = Total(bal[s])
<1>1. status # "Uninitialized" /\ UNCHANGED contract /\ UNCHANGED oracles
    BY DEF Transfer
<1>2. /\ Books' /\ UNCHANGED <<pool, total_supply>>
      /\ \A s \in Prediction : Total(bal'[s]) = Total(bal[s])
    BY InvariantParts, MoveStep DEF Transfer
<1>3. OraclesTypeOK' /\ now <= now'
    BY <1>1, InvariantParts, OraclesStay
<1>4. IsOpen => Pooled'
    BY <1>2, InvariantParts DEF Pooled, SidesBalanced, ReservesPositive
<1>5. status = "Terminated" => HalvesBacked'
    <2>1. "Yes" \in Prediction /\ "No" \in Prediction
        BY DEF Prediction
    <2> QED
        BY <1>2, <2>1, InvariantParts DEF HalvesBacked
<1> QED
    BY <1>1, <1>2, <1>3, <1>4, <1>5, SteadyInv DEF contract

\* record_price_checkpoint touches no collateral and no share.
LEMMA CheckpointInv ==
    ASSUME IInv, NEW payload \in Payloads, RecordPriceCheckpoint(payload)
    PROVE  IInv' /\ UNCHANGED <<status, total_supply, bal>>
<1>1. PayloadCents(payload, cfg.feed_id) \in Int
    BY OracleConstants, CentsInt
    DEF RecordPriceCheckpoint, TimelyUpdate, UsableUpdate, PayloadCents, IsPayload
<1>2. /\ last_price_cents' \in Int /\ last_price_at' = now
      /\ UNCHANGED <<cfg, pinned, status>>
      /\ UNCHANGED exchange /\ UNCHANGED oracles
    BY <1>1 DEF RecordPriceCheckpoint, fixed
<1>3. Books' /\ UNCHANGED <<pool, total_supply, bal>>
    BY <1>2, InvariantParts, ExchangeStutter
<1>4. OraclesTypeOK' /\ UNCHANGED now
    BY <1>2, InvariantParts, OraclesStay
<1>5. last_price_at' \in 0..now'
    BY <1>2, <1>4, InvariantParts
<1>6. Typed' /\ CollateralHeld'
    BY <1>2, <1>3, <1>4, <1>5 DEF IInv, Typed, Books
<1>7. ClaimsBacked' /\ PoolNeverEmpty'
    BY <1>2, <1>3
    DEF IInv, ClaimsBacked, PoolNeverEmpty, IsOpen, SidesBalanced, HalvesBacked,
        ReservesPositive
<1> QED
    BY <1>2, <1>3, <1>6, <1>7 DEF IInv

\* terminate: the treasury's shares join the claims on total_supply.
LEMMA TerminateInv ==
    ASSUME IInv, NEW admin \in Addr, Terminate(admin)
    PROVE  IInv' /\ HoldersOwnAll' /\ status # "Terminated"
<1>1. IsOpen /\ cfg.treasury \in Addr
    BY InvariantParts DEF Terminate, IsOpen, Arguments
<1>2. Books' /\ HalvesBacked' /\ HoldersOwnAll'
    BY <1>1, InvariantParts, TreasuryStep DEF Terminate, HoldersOwnAll
<1>3. /\ UNCHANGED <<cfg, pinned, last_price_cents, last_price_at>>
      /\ UNCHANGED oracles
      /\ status' = "Terminated"
    BY DEF Terminate, fixed, checkpoint
<1>4. OraclesTypeOK' /\ UNCHANGED now
    BY <1>3, InvariantParts, OraclesStay
<1>5. Typed' /\ CollateralHeld'
    BY <1>1, <1>2, <1>3, <1>4 DEF IInv, Typed, Books, IsOpen
<1>6. ClaimsBacked' /\ PoolNeverEmpty'
    BY <1>2, <1>3 DEF ClaimsBacked, PoolNeverEmpty, IsOpen
<1> QED
    BY <1>1, <1>2, <1>5, <1>6 DEF IInv, IsOpen

\* Whatever the signs, a payout is an integer.
LEMMA PayoutInt ==
    ASSUME IInv, NEW user \in Addr
    PROVE  Payout(user) \in Int
<1>1. bal["Yes"][user] \in Int /\ bal["No"][user] \in Int
    BY InvariantParts, Balances DEF Books, Prediction
<1> QED
    BY <1>1 DEF Payout, Half

\* redeem pays half of what is cleared, rounded down.
LEMMA RedeemInv ==
    ASSUME IInv, NEW user \in Addr, Redeem(user)
    PROVE  /\ IInv' /\ status = "Terminated" /\ UNCHANGED status
           /\ PayClaim(user, Payout(user))
<1>1. /\ status = "Terminated" /\ UNCHANGED contract /\ UNCHANGED oracles
      /\ PayClaim(user, Half(bal["Yes"][user], bal["No"][user]))
    BY DEF Redeem, Payout
<1>2. Books' /\ HalvesBacked'
    BY <1>1, InvariantParts, HalfPaid
<1>3. OraclesTypeOK' /\ now <= now'
    BY <1>1, InvariantParts, OraclesStay
<1> QED
    BY <1>1, <1>2, <1>3, SteadyInv DEF contract, IsOpen, Payout

\* Ledgers close, collateral strays in, feeds publish, or nothing happens.
EnvironmentStep ==
    \/ Tick
    \/ \E user \in Addr, amount \in Amounts : StrayTransfer(user, amount)
    \/ \E leg \in Legs : FeedUpdate(leg)
    \/ UNCHANGED vars

\* What such a step leaves behind.
BooksStay ==
    /\ Books' /\ UNCHANGED <<pool, total_supply, bal>>
    /\ UNCHANGED contract
    /\ OraclesTypeOK' /\ now <= now'

\* The contract's own variables do not change when it takes no step.
LEMMA EnvironmentStays ==
    ASSUME IInv, EnvironmentStep
    PROVE  BooksStay
<1>1. ASSUME UNCHANGED exchange, UNCHANGED contract, OraclesTypeOK', now <= now'
      PROVE  BooksStay
    BY <1>1, InvariantParts, ExchangeStutter DEF BooksStay
<1>2. ASSUME Tick
      PROVE  BooksStay
    BY <1>1, <1>2, InvariantParts, CloseStep DEF Tick
<1>3. ASSUME NEW user \in Addr, NEW amount \in Amounts, StrayTransfer(user, amount)
      PROVE  BooksStay
    <2>1. UNCHANGED contract /\ UNCHANGED oracles /\ SendStray(user, amount)
        BY <1>3 DEF StrayTransfer
    <2>2. Books /\ OraclesTypeOK /\ now \in Nat
        BY InvariantParts
    <2> QED
        BY <2>1, <2>2, StrayStep, OraclesStay DEF BooksStay
<1>4. ASSUME NEW leg \in Legs, FeedUpdate(leg)
      PROVE  BooksStay
    BY <1>1, <1>4, InvariantParts, PublishStep DEF FeedUpdate
<1>5. ASSUME UNCHANGED vars
      PROVE  BooksStay
    <2>1. UNCHANGED contract /\ UNCHANGED exchange /\ UNCHANGED oracles
        BY <1>5 DEF vars
    <2> QED
        BY <1>1, <2>1, InvariantParts, OraclesStay
<1> QED
    BY <1>2, <1>3, <1>4, <1>5 DEF EnvironmentStep

\* So such a step keeps the invariant.
LEMMA EnvironmentInv ==
    ASSUME IInv, EnvironmentStep
    PROVE  IInv' /\ UNCHANGED <<status, total_supply, bal>>
<1>1. BooksStay
    BY EnvironmentStays
<1>2. IsOpen => Pooled'
    BY <1>1, InvariantParts DEF BooksStay, Pooled, SidesBalanced, ReservesPositive
<1>3. status = "Terminated" => HalvesBacked'
    BY <1>1, InvariantParts DEF BooksStay, HalvesBacked
<1>4. status = "Uninitialized" => total_supply' = 0 /\ bal' = NoShares
    BY <1>1 DEF BooksStay, IInv, ClaimsBacked
<1> QED
    BY <1>1, <1>2, <1>3, <1>4, SteadyInv DEF BooksStay, contract

-----------------------------------------------------------------------------

\* The wind-down happens once and hands out all of either side.
WoundDownStep ==
    /\ (IsOpen /\ status' = "Terminated") => HoldersOwnAll'
    /\ status = "Terminated" => UNCHANGED status

WoundDown == [][WoundDownStep]_vars

\* Every step keeps the inductive invariant and a wind-down: one case per action.
LEMMA StepInv ==
    ASSUME IInv, [Next]_vars
    PROVE  IInv' /\ WoundDownStep
<1>1. ASSUME NEW c \in Configs, Initialize(c)
      PROVE  IInv' /\ WoundDownStep
    BY <1>1, InitializeInv DEF WoundDownStep
<1>2. ASSUME NEW user \in Addr, NEW amount \in Amounts,
             \/ Split(user, amount)
             \/ Merge(user, amount)
             \/ \E side \in Prediction, minimum \in Minimums :
                   \/ Buy(user, side, amount, minimum)
                   \/ Sell(user, side, amount, minimum)
      PROVE  IInv' /\ WoundDownStep
    BY <1>2, TradeInv DEF WoundDownStep, IsOpen
<1>3. ASSUME NEW from \in Addr, NEW to \in Addr, NEW side \in Prediction,
             NEW amount \in Amounts, Transfer(from, to, side, amount)
      PROVE  IInv' /\ WoundDownStep
    BY <1>3, TransferInv DEF WoundDownStep, IsOpen
<1>4. ASSUME NEW payload \in Payloads, RecordPriceCheckpoint(payload)
      PROVE  IInv' /\ WoundDownStep
    BY <1>4, CheckpointInv DEF WoundDownStep, IsOpen
<1>5. ASSUME NEW admin \in Addr, Terminate(admin)
      PROVE  IInv' /\ WoundDownStep
    BY <1>5, TerminateInv DEF WoundDownStep
<1>6. ASSUME NEW user \in Addr, Redeem(user)
      PROVE  IInv' /\ WoundDownStep
    BY <1>6, RedeemInv DEF WoundDownStep, IsOpen
<1>7. ASSUME EnvironmentStep
      PROVE  IInv' /\ WoundDownStep
    BY <1>7, EnvironmentInv DEF WoundDownStep, IsOpen
<1> QED
    BY <1>1, <1>2, <1>3, <1>4, <1>5, <1>6, <1>7 DEF Next, CallsBy, OpenCalls, EnvironmentStep

\* There is no checkpoint to overwrite when the perpetual is initialized.
NoCheckpointYet ==
    status = "Uninitialized" => last_price_cents = 0 /\ last_price_at = 0

\* No step before initialize records one.
LEMMA NoCheckpointStep ==
    ASSUME NoCheckpointYet, [Next]_vars
    PROVE  NoCheckpointYet'
BY DEF NoCheckpointYet, Next, CallsBy, OpenCalls, vars, contract, fixed, checkpoint,
       Initialize, Split, Merge, Buy, Sell, Transfer, StrayTransfer, Redeem, Terminate,
       RecordPriceCheckpoint, Tick, FeedUpdate

\* Only record_price_checkpoint writes a checkpoint that differs: the time of the
\* call, and the price of an update that it found usable then and had corroborated.
LEMMA CheckpointChecked ==
    ASSUME IInv, NoCheckpointYet, [Next]_vars
    PROVE  CheckpointStep
<1>1. ASSUME NEW payload \in Payloads, RecordPriceCheckpoint(payload)
      PROVE  CheckpointStep
    <2> DEFINE cents == PayloadCents(payload, cfg.feed_id)
    <2>1. cents \in Int
        BY <1>1, OracleConstants, CentsInt
        DEF RecordPriceCheckpoint, TimelyUpdate, UsableUpdate, PayloadCents, IsPayload
    <2>2. /\ status # "Uninitialized" /\ Corroborated(cfg.legs, pinned, cents)
          /\ last_price_cents' = cents /\ last_price_at' = now
          /\ UsableUpdate(payload, cfg.feed_id, now)
        BY <1>1 DEF RecordPriceCheckpoint, TimelyUpdate
    <2>3. /\ DOMAIN cfg.legs \subseteq Legs
          /\ \A leg \in DOMAIN cfg.legs : cfg.legs[leg] \in OracleFeedConfig
        <3>1. cfg \in Arguments
            BY <2>2, InvariantParts
        <3> QED  BY <3>1 DEF Arguments
    <2>4. last_price_cents' = PayloadCents(payload, cfg.feed_id)
        BY <2>2
    <2> HIDE DEF cents
    <2>5. AllLegsAgree(cfg.legs, pinned, last_price_cents')
        BY <2>1, <2>2, <2>3, InvariantParts, CorroboratedAgrees
    <2>6. UpdatePriced(cfg.feed_id, last_price_cents', now)
        BY <2>2, <2>4, InvariantParts, UsablePriced
    <2> QED  BY <2>2, <2>5, <2>6 DEF CheckpointStep
<1>2. ASSUME NEW c \in Configs, Initialize(c)
      PROVE  UNCHANGED checkpoint
    BY <1>2 DEF Initialize, NoCheckpointYet, checkpoint
<1>3. ASSUME checkpoint' # checkpoint
      PROVE  \/ \E payload \in Payloads : RecordPriceCheckpoint(payload)
             \/ \E c \in Configs : Initialize(c)
    BY <1>3
    DEF Next, CallsBy, OpenCalls, vars, contract, checkpoint, Split, Merge, Buy, Sell,
        Transfer, StrayTransfer, Redeem, Terminate, Tick, FeedUpdate
<1> QED
    BY <1>1, <1>2, <1>3 DEF CheckpointStep

\* Only a purchase gets more shares than it pays for, and its rounding is capped.
LEMMA RoundTrips ==
    ASSUME IInv, [Next]_vars
    PROVE  RoundTripStep
<1>0. IInv' /\ Books /\ Books' /\ (IsOpen => Pooled /\ FeeTerms(cfg))
    BY StepInv, InvariantParts DEF Books, IInv, Typed
<1>1. ASSUME NEW user \in Addr, NEW side \in Prediction, NEW amount \in Amounts,
             NEW minimum \in Minimums, Buy(user, side, amount, minimum)
      PROVE  RoundTripStep
    BY <1>0, <1>1, SwapInCapped DEF Buy, RoundTripStep
<1>2. ASSUME NEW user \in Addr, NEW side \in Prediction, NEW amount \in Amounts,
             NEW minimum \in Minimums, Sell(user, side, amount, minimum)
      PROVE  RoundTripStep
    <2>1. IsOpen /\ SwapOut(user, side, amount, minimum, CurrentFee(cfg))
        BY <1>2 DEF Sell
    <2>2. \E out \in Nat : ReleasesTo(user, out)
        BY <1>0, <2>1, SwapOutReleases
    <2> QED  BY <1>0, <2>2, NoPurchase DEF RoundTripStep
<1>3. ASSUME NEW user \in Addr, NEW amount \in Amounts, Split(user, amount)
      PROVE  RoundTripStep
    BY <1>0, <1>3, NoPurchase DEF Split, RoundTripStep
<1>4. ASSUME NEW user \in Addr, NEW amount \in Amounts, Merge(user, amount)
      PROVE  RoundTripStep
    <2>1. ReleasesTo(user, amount) /\ amount \in Nat
        BY <1>4, BurnReleases DEF Merge, ReleasesTo
    <2> QED  BY <1>0, <2>1, NoPurchase DEF RoundTripStep
<1>5. ASSUME UNCHANGED wallet \/ UNCHANGED bal \/ ~ IsOpen
      PROVE  RoundTripStep
    BY <1>0, <1>5, NoPurchase DEF RoundTripStep
<1> QED
    BY <1>1, <1>2, <1>3, <1>4, <1>5
    DEF Next, CallsBy, OpenCalls, vars, exchange, IsOpen, Initialize, Redeem, Transfer, MoveShares,
        StrayTransfer, SendStray, Tick, FeedUpdate, Terminate,
        PoolToTreasury, RecordPriceCheckpoint

-----------------------------------------------------------------------------
\* What follows where no purchase can cost shares.

\* No step overdraws a balance.
LEMMA StrongStep ==
    ASSUME SInv, FeeCovered, [Next]_vars
    PROVE  SInv'
<1>0. IInv /\ IInv' /\ Books /\ NoneOverdrawn
    BY StepInv, InvariantParts DEF SInv
<1>1. ASSUME NEW user \in Addr, NEW side \in Prediction, NEW amount \in Amounts,
             NEW minimum \in Minimums, Buy(user, side, amount, minimum)
      PROVE  NoneOverdrawn'
    <2>1. /\ Pooled /\ FeeTerms(cfg) /\ NoLossAccepted(cfg)
          /\ SwapIn(user, side, amount, minimum, CurrentFee(cfg))
        BY <1>0, <1>1, InvariantParts DEF Buy, FeeCovered
    <2> QED  BY <1>0, <2>1, SwapInKeeps
<1>2. ASSUME NEW user \in Addr, NEW amount \in Amounts,
             \/ Split(user, amount)
             \/ Merge(user, amount)
             \/ \E side \in Prediction, minimum \in Minimums : Sell(user, side, amount, minimum)
             \/ \E to \in Addr, side \in Prediction : Transfer(user, to, side, amount)
      PROVE  NoneOverdrawn'
    <2>1. amount \in Int /\ "Yes" \in Prediction
        BY ExchangeConstants DEF Prediction
    <2>2. CASE Split(user, amount) \/ Merge(user, amount)
        BY <1>0, <2>1, <2>2, OnlySwapInOverdraws DEF Split, Merge
    <2>3. ASSUME NEW side \in Prediction, NEW minimum \in Minimums,
                 Sell(user, side, amount, minimum)
          PROVE  NoneOverdrawn'
        BY <1>0, <2>1, <2>3, OnlySwapInOverdraws DEF Sell
    <2>4. ASSUME NEW to \in Addr, NEW side \in Prediction, Transfer(user, to, side, amount)
          PROVE  NoneOverdrawn'
        BY <1>0, <2>1, <2>4, OnlySwapInOverdraws DEF Transfer
    <2> QED  BY <1>2, <2>2, <2>3, <2>4
<1>3. ASSUME NEW user \in Addr, Redeem(user)
      PROVE  NoneOverdrawn'
    <2>1. Payout(user) \in Int /\ PayClaim(user, Payout(user))
        BY <1>0, <1>3, PayoutInt DEF Redeem
    <2> QED  BY <1>0, <2>1, OnlySwapInOverdraws DEF Prediction
<1>4. ASSUME NEW admin \in Addr, Terminate(admin)
      PROVE  NoneOverdrawn'
    <2>1. PoolToTreasury(cfg.treasury) /\ cfg.treasury \in Addr
        BY <1>0, <1>4, InvariantParts DEF Terminate, Arguments
    <2> QED  BY <1>0, <2>1, OnlySwapInOverdraws DEF Prediction
<1>5. ASSUME UNCHANGED bal
      PROVE  NoneOverdrawn'
    BY <1>0, <1>5 DEF NoneOverdrawn
<1>6. NoneOverdrawn'
    BY <1>1, <1>2, <1>3, <1>4, <1>5
    DEF Next, CallsBy, OpenCalls, vars, exchange, Initialize, Seed, StrayTransfer, SendStray,
        RecordPriceCheckpoint, Tick, FeedUpdate
<1> QED
    BY <1>0, <1>6 DEF SInv

\* Once terminated, a perpetual pays and moves claims, and makes none.
LEMMA TerminatedShrinks ==
    ASSUME SInv, [Next]_vars
    PROVE  WindDownStep
<1>0. IInv /\ Books /\ NoneOverdrawn /\ WoundDownStep
    BY StepInv, InvariantParts DEF SInv
<1>1. ASSUME NEW user \in Addr, Redeem(user)
      PROVE  ClaimsShrink
    BY <1>0, <1>1, RedeemInv, PayoutInt, PayShrinks
<1>2. ASSUME UNCHANGED total_supply, \A side \in Prediction : Total(bal'[side]) = Total(bal[side])
      PROVE  ClaimsShrink
    <2>1. total_supply \in Int /\ \A side \in Prediction : Total(bal[side]) \in Int
        BY <1>0, Balances DEF Books
    <2> QED  BY <1>2, <2>1 DEF ClaimsShrink
<1>3. ASSUME NEW from \in Addr, NEW to \in Addr, NEW side \in Prediction,
             NEW amount \in Amounts, Transfer(from, to, side, amount)
      PROVE  ClaimsShrink
    BY <1>0, <1>2, <1>3, TransferInv
<1>4. ASSUME UNCHANGED <<total_supply, bal>>
      PROVE  ClaimsShrink
    BY <1>2, <1>4
<1>5. status = "Terminated" => ClaimsShrink
    <2> SUFFICES ASSUME status = "Terminated"
                 PROVE  ClaimsShrink
        OBVIOUS
    <2>1. ~ IsOpen /\ status # "Uninitialized"
        BY DEF IsOpen
    <2> QED
        BY <1>1, <1>3, <1>4, <2>1
        DEF Next, CallsBy, OpenCalls, vars, exchange, Initialize, Split, Merge, Buy, Sell,
            Terminate, RecordPriceCheckpoint, StrayTransfer, SendStray, Tick, FeedUpdate
<1> QED
    BY <1>0, <1>5 DEF WindDownStep, WoundDownStep

\* What is locked covers any one claim.
LEMMA Payable == SInv => RedeemerPayable
<1> SUFFICES ASSUME SInv
             PROVE  RedeemerPayable
    OBVIOUS
<1>1. held - stray = total_supply /\ ExchangeTyped /\ NoneOverdrawn
    BY InvariantParts, Balances DEF SInv, Books, CollateralHeld
<1>2. ASSUME status = "Terminated", NEW user \in Addr
      PROVE  Payout(user) <= total_supply
    BY <1>1, <1>2, InvariantParts, HalfPayable DEF SInv, Payout
<1> QED
    BY <1>1, <1>2 DEF RedeemerPayable

-----------------------------------------------------------------------------

\* The perpetual stays in IInv, for every value of the constants.
THEOREM Invariance == Spec => []IInv
<1>1. IInv /\ [Next]_vars => IInv'
    BY StepInv
<1>2. Init => IInv
    BY InitInv DEF SInv
<1> QED
    BY <1>1, <1>2, PTL DEF Spec

\* The contract always holds total_supply and what was sent to it besides.
THEOREM CollateralAlwaysHeld == Spec => []CollateralHeld
<1>1. IInv => CollateralHeld
    BY DEF IInv
<1> QED
    BY Invariance, <1>1, PTL

\* Claims on collateral are counted once, before and after the wind-down.
THEOREM ClaimsAlwaysBacked == Spec => []ClaimsBacked
<1>1. IInv => ClaimsBacked
    BY DEF IInv
<1> QED
    BY Invariance, <1>1, PTL

\* No order of trades empties a reserve.
THEOREM PoolNeverEmpties == Spec => []PoolNeverEmpty
<1>1. IInv => PoolNeverEmpty
    BY DEF IInv
<1> QED
    BY Invariance, <1>1, PTL

\* A wind-down hands out all of either side, and is never taken back.
THEOREM WoundDownOnce == Spec => WoundDown
<1>1. IInv /\ [Next]_vars => WoundDownStep
    BY StepInv
<1> QED
    BY Invariance, <1>1, PTL DEF Spec, WoundDown

\* What was just bought sells, in one sale, for at most two units more than it cost.
THEOREM RoundTripAlwaysBounded == Spec => RoundTripBounded
<1>1. IInv /\ [Next]_vars => RoundTripStep
    BY RoundTrips
<1> QED
    BY Invariance, <1>1, PTL DEF Spec, RoundTripBounded

\* A checkpoint is dated at its call, with the price of a signed update from around
\* that time that both feeds agree with then.
THEOREM CheckpointIsCorroborated == Spec => CheckpointCorroborated
<1>1. Init => NoCheckpointYet
    BY DEF Init, NoCheckpointYet
<1>2. NoCheckpointYet /\ [Next]_vars => NoCheckpointYet'
    BY NoCheckpointStep
<1>3. IInv /\ NoCheckpointYet /\ [Next]_vars => CheckpointStep
    BY CheckpointChecked
<1> QED
    BY Invariance, <1>1, <1>2, <1>3, PTL DEF Spec, CheckpointCorroborated

-----------------------------------------------------------------------------
\* Where no purchase can cost shares, no balance is ever overdrawn.
LEMMA StrongInvariance == Spec /\ []FeeCovered => []SInv
BY InitInv, StrongStep, PTL DEF Spec

\* Then no share balance, reserve, supply or token balance is driven below zero by
\* any order of calls, and no checkpoint is dated in the future.
THEOREM TypeCorrect == Spec /\ []FeeCovered => []TypeOK
BY StrongInvariance, StrongTypeOK, PTL

\* Then whoever redeems next can be paid half of every share in full.
THEOREM Solvency == Spec /\ []FeeCovered => []RedeemerPayable
BY StrongInvariance, Payable, PTL

\* Then a terminated perpetual never resumes, and its claims and supply only shrink.
THEOREM WindDownIsFinal == Spec /\ []FeeCovered => WindDownFinal
<1>1. SInv /\ [Next]_vars => WindDownStep
    BY TerminatedShrinks
<1> QED
    BY StrongInvariance, <1>1, PTL DEF Spec, WindDownFinal

-----------------------------------------------------------------------------
\* The perpetual as an escrow, as in MarketProofs; there is one way to close it.

Dues == [a \in Addr |-> Due(a)]

\* A step that leaves status, supply, shares and purses alone is none of the
\* escrow's.
LEMMA EscrowStutter ==
    ASSUME UNCHANGED <<status, total_supply, bal, wallet>>
    PROVE  UNCHANGED Escrowed!escrow
BY DEF Escrowed!escrow, Due, IsOpen

\* Collateral is taken in before the wind-down, when nothing is due.
LEMMA EscrowLock ==
    ASSUME NEW user \in Addr, NEW amount, LocksFrom(user, amount),
           status \in {"Uninitialized", "Open"}, status' = "Open"
    PROVE  Escrowed!Next
<1>1. Escrowed!Lock(user, amount)
    BY DEF LocksFrom, Escrowed!Lock, Due, IsOpen
<1>2. amount \in 1..wallet[user]
    BY DEF LocksFrom
<1> QED
    BY <1>1, <1>2 DEF Escrowed!Next, Escrowed!Addr, Addr

\* So is what is handed back.
LEMMA EscrowRelease ==
    ASSUME TypeOK, TypeOK', NEW user \in Addr, NEW amount, ReleasesTo(user, amount),
           status = "Open", status' = "Open"
    PROVE  Escrowed!Next
<1>1. Escrowed!Release(user, amount)
    BY DEF ReleasesTo, Escrowed!Release, Due, IsOpen
<1>2. amount \in 1..total_supply
    <2>1. total_supply \in Nat /\ total_supply' \in Nat
        BY DEF TypeOK, ExchangeTypeOK
    <2> QED  BY <2>1 DEF ReleasesTo
<1> QED
    BY <1>1, <1>2 DEF Escrowed!Next, Escrowed!Addr, Addr

\* Collateral sent to the contract outside its calls is lost.
LEMMA EscrowLose ==
    ASSUME IInv, NEW user \in Addr, NEW amount \in Amounts, StrayTransfer(user, amount)
    PROVE  Escrowed!Next
<1>1. /\ amount \in 1..wallet[user]
      /\ wallet' = [wallet EXCEPT ![user] = @ - amount]
      /\ UNCHANGED <<status, total_supply, bal>>
    BY ExchangeConstants
    DEF StrayTransfer, SendStray, PayIn, contract, IInv, Typed, ExchangeTyped
<1>2. Escrowed!Lose(user, amount)
    BY <1>1 DEF Escrowed!Lose, Due, IsOpen
<1> QED
    BY <1>1, <1>2 DEF Escrowed!Next, Escrowed!Addr, Addr

\* The wind-down assigns twice total_supply halves: both sides at a half each.
LEMMA EscrowClose ==
    ASSUME SInv', IsOpen, status' = "Terminated", HoldersOwnAll',
           UNCHANGED <<total_supply, wallet>>
    PROVE  Escrowed!Next
<1>1. bal' \in Ledgers /\ Total(bal'["Yes"]) = total_supply /\ Total(bal'["No"]) = total_supply
    BY DEF SInv, NoneOverdrawn, HoldersOwnAll, Prediction
<1>2. total_supply \in Int
    BY DEF SInv, IInv, Typed, ExchangeTyped
<1>3. Dues' \in [Addr -> Nat] /\ Total(Dues') = 2 * total_supply
    <2>1. Dues' = [a \in Addr |-> bal'["Yes"][a] + bal'["No"][a]]
        BY DEF Dues, Due
    <2>2. Total(Dues') = total_supply + total_supply
        BY <1>1, <2>1, HalvesClaims
    <2> QED  BY <1>1, <1>2, <2>1, <2>2, HalvesClaims
<1>4. Escrowed!Total(Dues') = Total(Dues')
    BY DEF Escrowed!Total, Total
<1>5. Escrowed!Close
    BY <1>3, <1>4 DEF Escrowed!Close, Escrowed!Addr, Addr, Dues, IsOpen
<1> QED
    BY <1>5 DEF Escrowed!Next

\* A transfer moves a half per share, and nothing before the wind-down.
LEMMA EscrowMove ==
    ASSUME SInv, SInv', NEW from \in Addr, NEW to \in Addr, NEW side \in Prediction,
           NEW amount \in Amounts, Transfer(from, to, side, amount)
    PROVE  Escrowed!Next \/ UNCHANGED Escrowed!escrow
<1> DEFINE f == bal[side]
           g == bal'[side]
           h == bal[other(side)]
<1>1. /\ UNCHANGED <<status, total_supply, wallet>>
      /\ bal \in Ledgers /\ bal[side][from] >= amount /\ amount \in Nat \ {0}
      /\ bal' = credit(debit(bal, side, from, amount), side, to, amount)
      /\ bal \in Signed
    BY ExchangeConstants, NotOverdrawn
    DEF Transfer, contract, MoveShares, CanDebit, SInv, NoneOverdrawn
<1>2. /\ g = [[f EXCEPT ![from] = @ - amount] EXCEPT ![to] = @ + amount]
      /\ \A s \in Prediction \ {side} : bal'[s] = bal[s]
    BY <1>1, MoveLedger
<1>3. f \in [Addr -> Nat] /\ f[from] >= amount
    BY <1>1, LedgerBalances
<1>4. h \in [Addr -> Nat] /\ bal'[other(side)] = h
    BY <1>1, <1>2, LedgerBalances DEF other, Prediction
<1> HIDE DEF f, g, h
<1>5. CASE status = "Terminated"
    <2>1. Dues = [a \in Addr |-> f[a] + h[a]] /\ Dues' = [a \in Addr |-> g[a] + h[a]]
        <3>1. \A a \in Addr : bal["Yes"][a] \in Nat /\ bal["No"][a] \in Nat
            BY <1>1, LedgerBalances DEF Prediction
        <3>2. \A a \in Addr : Due(a) = f[a] + h[a]
            BY <1>5, <3>1 DEF Due, Prediction, other, f, h
        <3>3. bal' \in Ledgers
            BY DEF SInv, NoneOverdrawn
        <3>4. \A a \in Addr : bal'["Yes"][a] \in Nat /\ bal'["No"][a] \in Nat
            BY <3>3, LedgerBalances DEF Prediction
        <3>5. \A a \in Addr : Due(a)' = g[a] + h[a]
            BY <1>1, <1>4, <1>5, <3>4 DEF Due, Prediction, other, g
        <3> QED  BY <3>2, <3>5 DEF Dues
    <2>2. Dues' = [[Dues EXCEPT ![from] = @ - amount] EXCEPT ![to] = @ + amount]
        BY <1>1, <1>2, <1>3, <1>4, <2>1
    <2>3. amount \in 1..Dues[from]
        BY <1>1, <1>3, <1>4, <2>1
    <2>4. Escrowed!Move(from, to, amount)
        BY <1>1, <2>2 DEF Escrowed!Move, Dues, IsOpen
    <2> QED  BY <1>1, <2>3, <2>4 DEF Escrowed!Next, Escrowed!Addr, Addr, Dues
<1>6. CASE status # "Terminated"
    BY <1>1, <1>6 DEF Escrowed!escrow, Due, IsOpen
<1> QED
    BY <1>5, <1>6

\* A redemption pays what is due to one holder, rounded down, and clears it.
LEMMA EscrowPay ==
    ASSUME SInv, NEW user \in Addr, Redeem(user)
    PROVE  Escrowed!Next
<1> DEFINE f == bal["Yes"]
           g == bal["No"]
           payout == Payout(user)
<1>1. /\ status = "Terminated" /\ UNCHANGED status
      /\ payout > 0
      /\ wallet' = [wallet EXCEPT ![user] = @ + payout]
      /\ total_supply' = total_supply - payout
      /\ bal' = clear(bal, user)
    BY DEF Redeem, contract, PayClaim, PayOut
<1>2. bal \in Ledgers
    BY DEF SInv, NoneOverdrawn
<1>3. /\ payout = (f[user] + g[user]) \div 2
      /\ f \in [Addr -> Nat] /\ g \in [Addr -> Nat]
    BY <1>2 DEF Payout, Half, Prediction, Ledgers
<1>4. /\ Dues = [a \in Addr |-> f[a] + g[a]]
      /\ Dues' = [a \in Addr |-> [f EXCEPT ![user] = 0][a] + [g EXCEPT ![user] = 0][a]]
    <2>1. /\ bal'["Yes"] = [f EXCEPT ![user] = 0]
          /\ bal'["No"] = [g EXCEPT ![user] = 0]
        BY <1>1, <1>2 DEF clear, Ledgers, Prediction
    <2> QED  BY <1>1, <2>1 DEF Dues, Due
<1> HIDE DEF f, g, payout
<1>5. Dues[user] \div 2 = payout /\ Dues' = [Dues EXCEPT ![user] = 0]
    BY <1>3, <1>4
<1>6. Escrowed!Pay(user)
    BY <1>1, <1>5 DEF Escrowed!Pay, Dues, IsOpen
<1> QED
    BY <1>6 DEF Escrowed!Next, Escrowed!Addr, Addr

\* Every step of the perpetual is one of the escrow or none: one case per action.
LEMMA EscrowStep ==
    ASSUME SInv, SInv', TypeOK, TypeOK', [Next]_vars
    PROVE  Escrowed!Next \/ UNCHANGED Escrowed!escrow
<1>0. IInv /\ IInv' /\ Books /\ Books'
    BY InvariantParts DEF SInv, IInv, Typed, Books
<1>1. ASSUME NEW c \in Configs, Initialize(c)
      PROVE  Escrowed!Next
    <2>1. /\ c.admin \in Addr /\ c.initial_liquidity \in Nat \ {0}
          /\ total_supply = 0 /\ status = "Uninitialized" /\ status' = "Open"
        BY <1>0, <1>1, PerpetualConstants
        DEF Initialize, UsableTerms, Arguments, IInv, ClaimsBacked
    <2> QED  BY <1>0, <1>1, <2>1, SeedLocks, EscrowLock DEF Initialize
<1>2. ASSUME NEW user \in Addr, NEW amount \in Amounts, Split(user, amount)
      PROVE  Escrowed!Next
    BY <1>0, <1>2, MintLocks, EscrowLock DEF Split, contract, IsOpen
<1>3. ASSUME NEW user \in Addr, NEW amount \in Amounts, Merge(user, amount)
      PROVE  Escrowed!Next
    BY <1>0, <1>3, BurnReleases, EscrowRelease DEF Merge, contract, IsOpen
<1>4. ASSUME NEW user \in Addr, NEW side \in Prediction, NEW amount \in Amounts,
             NEW minimum \in Minimums, Buy(user, side, amount, minimum)
      PROVE  Escrowed!Next
    BY <1>0, <1>4, SwapInLocks, EscrowLock DEF Buy, contract, IsOpen
<1>5. ASSUME NEW user \in Addr, NEW side \in Prediction, NEW amount \in Amounts,
             NEW minimum \in Minimums, Sell(user, side, amount, minimum)
      PROVE  Escrowed!Next
    <2>1. /\ IsOpen /\ UNCHANGED status
          /\ SwapOut(user, side, amount, minimum, CurrentFee(cfg))
        BY <1>5 DEF Sell, contract
    <2>2. PICK out \in Nat : ReleasesTo(user, out)
        BY <1>0, <2>1, InvariantParts, SwapOutReleases
    <2> QED  BY <2>1, <2>2, EscrowRelease DEF IsOpen
<1>6. ASSUME NEW from \in Addr, NEW to \in Addr, NEW side \in Prediction,
             NEW amount \in Amounts, Transfer(from, to, side, amount)
      PROVE  Escrowed!Next \/ UNCHANGED Escrowed!escrow
    BY <1>6, EscrowMove
<1>7. ASSUME NEW user \in Addr, Terminate(user)
      PROVE  Escrowed!Next
    BY <1>0, <1>7, TerminateInv, EscrowClose DEF Terminate, PoolToTreasury
<1>8. ASSUME NEW user \in Addr, Redeem(user)
      PROVE  Escrowed!Next
    BY <1>8, EscrowPay
<1>9. ASSUME NEW user \in Addr, NEW amount \in Amounts, StrayTransfer(user, amount)
      PROVE  Escrowed!Next
    BY <1>0, <1>9, EscrowLose
<1>10. ASSUME NEW payload \in Payloads, RecordPriceCheckpoint(payload)
       PROVE  UNCHANGED Escrowed!escrow
    <2>1. UNCHANGED <<status, total_supply, bal, wallet>>
        BY <1>10 DEF RecordPriceCheckpoint, exchange
    <2> QED  BY <2>1, EscrowStutter
<1>11. ASSUME Tick \/ (\E leg \in Legs : FeedUpdate(leg)) \/ UNCHANGED vars
       PROVE  UNCHANGED Escrowed!escrow
    <2>1. UNCHANGED <<status, total_supply, bal, wallet>>
        BY <1>11 DEF Tick, FeedUpdate, vars, contract, exchange
    <2> QED  BY <2>1, EscrowStutter
<1> QED
    BY <1>1, <1>2, <1>3, <1>4, <1>5, <1>6, <1>7, <1>8, <1>9, <1>10, <1>11
    DEF Next, CallsBy, OpenCalls

\* The perpetual implements Escrow, for every value of the constants.
THEOREM PerpetualIsEscrow == Spec /\ []FeeCovered => ImplementsEscrow
<1>1. Init => Escrowed!Init
    BY DEF Init, ExchangeInit, Escrowed!Init, Due, Escrowed!Addr, Addr
<1>2. SInv /\ SInv' /\ TypeOK /\ TypeOK' /\ [Next]_vars => [Escrowed!Next]_(Escrowed!escrow)
    BY EscrowStep
<1> QED
    BY <1>1, <1>2, StrongInvariance, TypeCorrect, PTL
    DEF Spec, ImplementsEscrow, Escrowed!Spec

-----------------------------------------------------------------------------
\* Terms that cap the fee, or callers who ask for at least nothing.
LEMMA CheapCovered ==
    ASSUME Minimums \subseteq Nat \/ \A c \in Configs : CheapTerms(c), SInv
    PROVE  FeeCovered
<1> SUFFICES ASSUME IsOpen
             PROVE  NoLossAccepted(cfg)
    BY DEF FeeCovered
<1>1. CASE Minimums \subseteq Nat
    BY <1>1 DEF NoLossAccepted
<1>2. CASE \A c \in Configs : CheapTerms(c)
    <2>1. ExchangeTyped /\ Pooled /\ NoneOverdrawn /\ FeeTerms(cfg) /\ cfg \in Configs
        BY InvariantParts DEF SInv, IInv, Typed, IsOpen
    <2> QED  BY <1>2, <2>1, CheapFee
<1> QED
    BY <1>1, <1>2

\* The condition needs no argument about the run when every caller asks for at least
\* nothing, or when the terms cap the fee at 100 % at any supply.
THEOREM CheapTermsSuffice ==
    ASSUME Minimums \subseteq Nat \/ \A c \in Configs : CheapTerms(c)
    PROVE  Spec => []FeeCovered /\ []TypeOK /\ []RedeemerPayable /\ WindDownFinal /\ ImplementsEscrow
<1>1. SInv => FeeCovered
    BY CheapCovered
<1>2. SInv /\ [Next]_vars => SInv'
    BY <1>1, StrongStep
<1>3. Spec => []FeeCovered
    BY <1>1, <1>2, InitInv, PTL DEF Spec
<1> QED
    BY <1>3, TypeCorrect, Solvency, WindDownIsFinal, PerpetualIsEscrow, PTL

-----------------------------------------------------------------------------
\* The perpetual among others that use the token, the clock and the feeds.

\* What others do to purses, clock and feeds does not concern the
\* perpetual.
LEMMA BystanderInv ==
    ASSUME IInv, UNCHANGED contract, UNCHANGED <<pool, total_supply, bal, held, stray>>,
           wallet' \in [Addr -> Nat], OraclesTypeOK', now <= now'
    PROVE  IInv'
<1>1. Books'
    BY InvariantParts DEF Books, ExchangeTyped, CollateralHeld
<1>2. IsOpen => Pooled'
    BY InvariantParts DEF Pooled, SidesBalanced, ReservesPositive
<1>3. status = "Terminated" => HalvesBacked'
    BY InvariantParts DEF HalvesBacked
<1>4. status = "Uninitialized" => total_supply' = 0 /\ bal' = NoShares
    BY DEF IInv, ClaimsBacked
<1> QED
    BY <1>1, <1>2, <1>3, <1>4, SteadyInv

\* The clock never runs backwards.
LEMMA ClockAdvances ==
    ASSUME IInv, [Next]_vars
    PROVE  now <= now'
<1>1. /\ OraclesTypeOK /\ now \in Int
      /\ UNCHANGED now => now <= now'
    BY InvariantParts, OracleConstants, WidthConstants DEF OraclesTypeOK
<1>2. CASE Tick
    BY <1>1, <1>2, CloseStep DEF Tick
<1>3. ASSUME NEW leg \in Legs, FeedUpdate(leg)
      PROVE  now <= now'
    BY <1>1, <1>3, PublishStep DEF FeedUpdate
<1>4. CASE UNCHANGED now
    BY <1>1, <1>4
<1> QED
    BY <1>2, <1>3, <1>4
    DEF Next, CallsBy, OpenCalls, vars, oracles, Initialize, Split, Merge, Buy, Sell,
        Transfer, StrayTransfer, Redeem, RecordPriceCheckpoint, Terminate

\* No step creates or destroys collateral.
LEMMA StepConserves ==
    ASSUME IInv, [Next]_vars
    PROVE  Conserved
<1>0. IInv' /\ Books /\ Books'
    BY StepInv, InvariantParts DEF Books, IInv, Typed
<1>1. ASSUME NEW c \in Configs, Initialize(c)
      PROVE  Conserved
    <2>1. c.admin \in Addr /\ c.initial_liquidity \in Nat \ {0} /\ total_supply = 0
        BY <1>1, PerpetualConstants
        DEF Initialize, UsableTerms, Arguments, IInv, ClaimsBacked
    <2>2. Seed(c.admin, c.initial_liquidity)
        BY <1>1 DEF Initialize
    <2> QED  BY <1>0, <2>1, <2>2, SeedLocks, LockConserves DEF Seed
<1>2. ASSUME NEW user \in Addr, NEW amount \in Amounts, Split(user, amount)
      PROVE  Conserved
    BY <1>0, <1>2, MintLocks, LockConserves DEF Split, MintPairs
<1>3. ASSUME NEW user \in Addr, NEW amount \in Amounts, Merge(user, amount)
      PROVE  Conserved
    BY <1>0, <1>3, BurnReleases, ReleaseConserves DEF Merge, BurnPairs
<1>4. ASSUME NEW user \in Addr, NEW side \in Prediction, NEW amount \in Amounts,
             NEW minimum \in Minimums, Buy(user, side, amount, minimum)
      PROVE  Conserved
    BY <1>0, <1>4, SwapInLocks, LockConserves DEF Buy, SwapIn
<1>5. ASSUME NEW user \in Addr, NEW side \in Prediction, NEW amount \in Amounts,
             NEW minimum \in Minimums, Sell(user, side, amount, minimum)
      PROVE  Conserved
    <2>1. IsOpen /\ SwapOut(user, side, amount, minimum, CurrentFee(cfg))
        BY <1>5 DEF Sell
    <2>2. PICK out \in Nat : ReleasesTo(user, out)
        BY <1>0, <2>1, InvariantParts, SwapOutReleases
    <2>3. UNCHANGED stray
        BY <2>1 DEF SwapOut
    <2> QED  BY <1>0, <2>2, <2>3, ReleaseConserves
<1>6. ASSUME NEW user \in Addr, Redeem(user)
      PROVE  Conserved
    <2> DEFINE payout == Payout(user)
    <2>1. payout \in Int /\ payout > 0 /\ PayClaim(user, payout)
        BY <1>6, PayoutInt DEF Redeem, PayClaim
    <2> HIDE DEF payout
    <2>2. ReleasesTo(user, payout) /\ UNCHANGED stray
        BY <2>1 DEF PayClaim, PayOut, ReleasesTo
    <2> QED  BY <1>0, <2>2, ReleaseConserves
<1>7. ASSUME NEW user \in Addr, NEW amount \in Amounts, StrayTransfer(user, amount)
      PROVE  Conserved
    BY <1>0, <1>7, StrayConserves DEF StrayTransfer
<1>8. ASSUME UNCHANGED <<wallet, held>>
      PROVE  Conserved
    BY <1>8 DEF Conserved
<1> QED
    BY <1>1, <1>2, <1>3, <1>4, <1>5, <1>6, <1>7, <1>8
    DEF Next, CallsBy, OpenCalls, vars, exchange, Transfer, MoveShares, RecordPriceCheckpoint,
        Terminate, PoolToTreasury, Tick, FeedUpdate

\* The steps that are not a call in the name of a.
StepOfOthers(a) ==
    \/ \E c \in Configs : Initialize(c)
    \/ \E user \in Addr \ {a} : CallsBy(user)
    \/ OpenCalls
    \/ Tick
    \/ \E leg \in Legs : FeedUpdate(leg)
    \/ UNCHANGED vars

\* They take no share from a.
LEMMA OthersTakeNothing ==
    ASSUME IInv, NEW a \in Addr, StepOfOthers(a)
    PROVE  KeepsShares(a)
<1>0. /\ ExchangeTyped
      /\ UNCHANGED bal => KeepsShares(a)
    BY InvariantParts, Balances DEF Books, KeepsShares
<1>1. CASE OpenCalls
    BY <1>0, <1>1 DEF OpenCalls, RecordPriceCheckpoint, exchange
<1>2. CASE \/ \E c \in Configs : Initialize(c)
           \/ Tick
           \/ \E leg \in Legs : FeedUpdate(leg)
           \/ UNCHANGED vars
    BY <1>0, <1>2 DEF Initialize, Seed, Tick, FeedUpdate, vars, exchange
<1>3. ASSUME NEW user \in Addr \ {a}, CallsBy(user)
      PROVE  KeepsShares(a)
    <2>1. CASE Redeem(user)
        BY <1>0, <2>1, OthersKeepShares DEF Redeem, Prediction
    <2>2. ASSUME NEW amount \in Amounts, Split(user, amount) \/ Merge(user, amount)
          PROVE  KeepsShares(a)
        BY <1>0, <2>2, OthersKeepShares DEF Split, Merge, Prediction
    <2>3. ASSUME NEW amount \in Amounts, StrayTransfer(user, amount)
          PROVE  KeepsShares(a)
        BY <1>0, <2>3 DEF StrayTransfer, SendStray
    <2>4. ASSUME NEW amount \in Amounts, NEW side \in Prediction, NEW minimum \in Minimums,
                 Buy(user, side, amount, minimum) \/ Sell(user, side, amount, minimum)
          PROVE  KeepsShares(a)
        BY <1>0, <2>4, OthersKeepShares DEF Buy, Sell
    <2>5. ASSUME NEW amount \in Amounts, NEW side \in Prediction, NEW to \in Addr,
                 Transfer(user, to, side, amount)
          PROVE  KeepsShares(a)
        BY <1>0, <2>5, OthersKeepShares, ExchangeConstants DEF Transfer
    <2>6. CASE Terminate(user)
        <3>1. PoolToTreasury(cfg.treasury) /\ cfg.treasury \in Addr
            BY <2>6, InvariantParts DEF Terminate, Arguments
        <3> QED  BY <1>0, <3>1, TreasuryGains
    <2> QED
        BY <1>3, <2>1, <2>2, <2>3, <2>4, <2>5, <2>6 DEF CallsBy
<1> QED
    BY <1>1, <1>2, <1>3 DEF StepOfOthers

\* Winding the perpetual down leaves a treasury that owes no shares with a claim on
\* half of both reserves, which is no less than the smaller of them.
LEMMA TreasuryClaim ==
    ASSUME IInv, [Next]_vars, IsOpen, status' = "Terminated",
           \A side \in Prediction : bal[side][cfg.treasury] >= 0
    PROVE  \E side \in Prediction :
               Half(bal'["Yes"][cfg.treasury], bal'["No"][cfg.treasury]) >= pool[side]
<1> DEFINE t == cfg.treasury
<1>1. t \in Addr /\ ExchangeTyped /\ \A side \in Prediction : pool[side] \in Nat
    BY InvariantParts DEF IsOpen, Arguments, Books, ExchangeTyped
<1>2. PoolToTreasury(t)
    BY DEF Next, CallsBy, OpenCalls, vars, contract, fixed, Initialize, Split, Merge, Buy, Sell,
        Transfer, StrayTransfer, Redeem, RecordPriceCheckpoint, Terminate, Tick, FeedUpdate,
        IsOpen
<1> HIDE DEF t
<1>3. \A side \in Prediction : bal[side][t] \in Nat /\ bal'[side][t] = bal[side][t] + pool[side]
    <2>1. \A side \in Prediction : bal[side][t] \in Int /\ bal[side][t] >= 0
        BY <1>1, Balances DEF t
    <2> QED  BY <1>1, <1>2, <2>1, TreasuryGains
<1>4. /\ bal'["Yes"][t] \in Nat /\ bal'["Yes"][t] >= pool["Yes"] /\ pool["Yes"] \in Nat
      /\ bal'["No"][t] \in Nat /\ bal'["No"][t] >= pool["No"] /\ pool["No"] \in Nat
    BY <1>1, <1>3 DEF Prediction
<1>5. \/ Half(bal'["Yes"][t], bal'["No"][t]) >= pool["Yes"]
      \/ Half(bal'["Yes"][t], bal'["No"][t]) >= pool["No"]
    BY <1>4 DEF Half
<1> QED
    BY <1>5 DEF Prediction, t
=============================================================================
