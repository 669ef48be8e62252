----------------------------- MODULE Perpetual -----------------------------
(***************************************************************************)
(* contracts/perpetual: the market without an expiry.  It trades until its *)
(* admin terminates it, after which every share is worth half; in any      *)
(* status anybody may have the current price recorded.                     *)
(***************************************************************************)
EXTENDS Exchange, Oracles

CONSTANT Configs    \* argument tuples initialize may be called with

\* The arguments of initialize.  Option<PriceOracleConfig> is the presence of
\* both keys in legs; feed_id means nothing without them.
Arguments ==
    [admin : Addr, treasury : Addr, base_fee_bps : Nat, min_fee_bps : Nat,
     initial_liquidity : Int, feed_id : Nat,
     legs : [{} -> OracleFeedConfig] \cup [Legs -> OracleFeedConfig]]

ASSUME PerpetualConstants == Configs \subseteq Arguments

VARIABLES
    cfg,            \* the fields of Perpetual and the oracle that initialize fixes
    pinned,         \* reflector_decimals_at_init and redstone_decimals_at_init
    status,
    last_price_cents, last_price_at

fixed == <<cfg, pinned>>            \* never written after initialize
checkpoint == <<last_price_cents, last_price_at>>
contract == <<cfg, pinned, status, last_price_cents, last_price_at>>
vars == <<contract, exchange, oracles>>

-----------------------------------------------------------------------------

IsOpen == status = "Open"

HasPriceOracle(c) == DOMAIN c.legs # {}

Init ==
    /\ cfg = <<>>
    /\ pinned = <<>>
    /\ status = "Uninitialized"
    /\ last_price_cents = 0
    /\ last_price_at = 0
    /\ ExchangeInit
    /\ OraclesInit

Initialize(c) ==
    /\ status = "Uninitialized"
    /\ UsableTerms(c)
    /\ HasPriceOracle(c) => c.feed_id # 0
    /\ UsableLegs(c.legs)
    /\ Seed(c.admin, c.initial_liquidity)
    /\ cfg' = c
    /\ pinned' = DecimalsAtInit(c.legs)
    /\ status' = "Open"
    /\ last_price_cents' = 0
    /\ last_price_at' = 0
    /\ UNCHANGED oracles

Split(user, amount) ==
    /\ IsOpen
    /\ MintPairs(user, amount)
    /\ UNCHANGED <<contract, oracles>>

Merge(user, amount) ==
    /\ IsOpen
    /\ BurnPairs(user, amount)
    /\ UNCHANGED <<contract, oracles>>

Buy(user, side, amount, min_shares_out) ==
    /\ IsOpen
    /\ SwapIn(user, side, amount, min_shares_out, CurrentFee(cfg))
    /\ UNCHANGED <<contract, oracles>>

Sell(user, side, shares_in, min_collateral_out) ==
    /\ IsOpen
    /\ SwapOut(user, side, shares_in, min_collateral_out, CurrentFee(cfg))
    /\ UNCHANGED <<contract, oracles>>

\* Allowed in every status.
Transfer(from, to, side, amount) ==
    /\ status # "Uninitialized"
    /\ MoveShares(from, to, side, amount)
    /\ UNCHANGED <<contract, oracles>>

\* Fault: the update is held against the last checkpoint instead of the clock.
TimelyForLastCheckpoint(payload) == UsableUpdate(payload, cfg.feed_id, last_price_at)

TimelyUpdate(payload) == UsableUpdate(payload, cfg.feed_id, now)

\* Allowed in every status, terminated included; writes the checkpoint only.
RecordPriceCheckpoint(payload) ==
    LET cents == PayloadCents(payload, cfg.feed_id)
    IN  /\ status # "Uninitialized"
        /\ HasPriceOracle(cfg)
        /\ TimelyUpdate(payload)
        /\ Corroborated(cfg.legs, pinned, cents)
        /\ last_price_cents' = cents
        /\ last_price_at' = now
        /\ UNCHANGED <<fixed, status, exchange, oracles>>

\* The caller names itself and must be the stored admin.
Terminate(admin) ==
    /\ status # "Uninitialized"
    /\ admin = cfg.admin
    /\ IsOpen
    /\ status' = "Terminated"
    /\ PoolToTreasury(cfg.treasury)
    /\ UNCHANGED <<fixed, checkpoint, oracles>>

Payout(user) == Half(bal["Yes"][user], bal["No"][user])

Redeem(user) ==
    /\ status = "Terminated"
    /\ PayClaim(user, Payout(user))
    /\ UNCHANGED <<contract, oracles>>

-----------------------------------------------------------------------------
\* The environment, as for the market.

Tick == CloseLedger /\ UNCHANGED <<contract, exchange>>

StrayTransfer(user, amount) == SendStray(user, amount) /\ UNCHANGED <<contract, oracles>>

FeedUpdate(leg) == Publish(leg) /\ UNCHANGED <<contract, exchange>>

\* What an address can do in its own name.
CallsBy(user) ==
    \/ \E amount \in Amounts :
          \/ Split(user, amount)
          \/ Merge(user, amount)
          \/ StrayTransfer(user, amount)
          \/ \E side \in Prediction, minimum \in Minimums :
                \/ Buy(user, side, amount, minimum)
                \/ Sell(user, side, amount, minimum)
          \/ \E to \in Addr, side \in Prediction : Transfer(user, to, side, amount)
    \/ Terminate(user)
    \/ Redeem(user)

\* What nobody's signature is needed for.
OpenCalls == \E payload \in Payloads : RecordPriceCheckpoint(payload)

Next ==
    \/ \E c \in Configs : Initialize(c)
    \/ \E user \in Addr : CallsBy(user)
    \/ OpenCalls
    \/ Tick
    \/ \E leg \in Legs : FeedUpdate(leg)

Spec == Init /\ [][Next]_vars

\* Fairness: a holder who can redeem does so.  Nothing is assumed of the admin:
\* a perpetual may never be terminated.
FairSpec == Spec /\ \A user \in Addr : WF_vars(Redeem(user))

-----------------------------------------------------------------------------

\* Every variable stays in its type; no order of calls overdraws a balance.
TypeOK ==
    /\ status \in {"Uninitialized", "Open", "Terminated"}
    /\ status # "Uninitialized" =>
          /\ cfg \in Configs /\ UsableTerms(cfg)
          /\ pinned \in [DOMAIN cfg.legs -> Nat]
    /\ last_price_cents \in Int
    /\ last_price_at \in 0..now
    /\ ExchangeTypeOK
    /\ OraclesTypeOK

\* Every share is a claim counted once, although there is no winning side ever:
\* pool and holders own total_supply of either side while open, and both sides
\* together at most twice total_supply after the wind-down.
ClaimsBacked ==
    /\ status = "Uninitialized" => total_supply = 0 /\ bal = NoShares
    /\ IsOpen => SidesBalanced
    /\ status = "Terminated" => HalvesBacked

\* After the wind-down whoever redeems next, after any redemptions and transfers
\* of others, can be paid out of the locked collateral.
RedeemerPayable ==
    status = "Terminated" => \A user \in Addr : Payout(user) <= held - stray

\* However long it trades, an open perpetual never runs out of a reserve.
PoolNeverEmpty == IsOpen => ReservesPositive

\* Selling back what was just bought, in one sale and before anybody else trades,
\* never pays more than two units above the price, whatever the reserves: the depth
\* check leaves the rounding of these two trades no more to give away.  (Several
\* smaller sales round several times, and each may give a unit more away.)
RoundTripStep == IsOpen => RoundTripCapped(cfg)

RoundTripBounded == [][RoundTripStep]_vars

\* A wind-down hands every share of the pool over, so that half of all shares is
\* all of the collateral, and it is final: trading and minting never resume.
WindDownStep ==
    /\ (IsOpen /\ status' = "Terminated") => HoldersOwnAll'
    /\ status = "Terminated" => UNCHANGED status /\ ClaimsShrink

WindDownFinal == [][WindDownStep]_vars

\* A checkpoint records, with the time of the call, the price of a signed update
\* from around that time which both feeds agree with at that time.
CheckpointStep ==
    checkpoint' # checkpoint =>
        /\ last_price_at' = now
        /\ AllLegsAgree(cfg.legs, pinned, last_price_cents')
        /\ UpdatePriced(cfg.feed_id, last_price_cents', now)

CheckpointCorroborated == [][CheckpointStep]_vars

\* The perpetual as an escrow: before the wind-down nothing is due, after it every
\* share is one half.
Due(a) == IF status = "Terminated" THEN bal["Yes"][a] + bal["No"][a] ELSE 0

Escrowed == INSTANCE Escrow WITH
    phase <- IF status = "Uninitialized" THEN "Empty"
             ELSE IF IsOpen THEN "Open" ELSE "Closed",
    locked <- total_supply,
    due <- [a \in Addr |-> Due(a)]

\* Whatever pool, fees, shares and checkpoints do, the perpetual is an escrow:
\* collateral comes in only before the wind-down, which assigns all of it; a claim
\* moves only from its owner and is paid once, at a half per share.
ImplementsEscrow == Escrowed!Spec

\* Nobody keeps a claim on a terminated perpetual forever: nothing the others
\* do, stray collateral, transfers and checkpoints included, blocks redemption.
HoldersPaid ==
    \A user \in Addr :
        (status = "Terminated" /\ Payout(user) > 0) ~> Payout(user) = 0
=============================================================================
