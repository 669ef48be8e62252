------------------------------- MODULE Market -------------------------------
(***************************************************************************)
(* contracts/market: one fully collateralised binary market, from its      *)
(* initialization to the last redemption.  Calls are transactions: one at  *)
(* a time, in any order, by any address.                                   *)
(***************************************************************************)
EXTENDS Exchange, Oracles

CONSTANT Configs    \* argument tuples initialize may be called with

\* The arguments of initialize.  Option<OracleFeedConfig> for redstone is the
\* presence of that key in legs.
Arguments ==
    [admin : Addr, treasury : Addr, strike_price : Int, expiry : Nat,
     grace_period : Nat, feed_id : Nat, base_fee_bps : Nat, min_fee_bps : Nat,
     initial_liquidity : Int,
     legs : [{"reflector"} -> OracleFeedConfig] \cup [Legs -> OracleFeedConfig]]

ASSUME MarketConstants == Configs \subseteq Arguments

VARIABLES
    cfg,            \* the fields of Market that initialize fixes
    pinned,         \* decimals_at_init of each configured leg
    status, final_price

fixed == <<cfg, pinned>>            \* never written after initialize
contract == <<cfg, pinned, status, final_price>>
vars == <<contract, exchange, oracles>>

-----------------------------------------------------------------------------

Resolved == {"ResolvedYes", "ResolvedNo"}
Final == Resolved \cup {"Cancelled"}

IsOpen == status = "Open"

\* Fault: trading outlives the expiry.
TradingNeverCloses == IsOpen

TradingOpen == IsOpen /\ now < cfg.expiry

Init ==
    /\ cfg = <<>>
    /\ pinned = <<>>
    /\ status = "Uninitialized"
    /\ final_price = 0
    /\ ExchangeInit
    /\ OraclesInit

Initialize(c) ==
    /\ status = "Uninitialized"
    /\ c.strike_price > 0
    /\ c.expiry > now
    /\ c.grace_period # 0
    /\ c.feed_id # 0
    /\ UsableTerms(c)
    /\ UsableLegs(c.legs)
    /\ Seed(c.admin, c.initial_liquidity)
    /\ cfg' = c
    /\ pinned' = DecimalsAtInit(c.legs)
    /\ status' = "Open"
    /\ final_price' = 0
    /\ UNCHANGED oracles

Split(user, amount) ==
    /\ IsOpen
    /\ MintPairs(user, amount)
    /\ UNCHANGED <<contract, oracles>>

Merge(user, amount) ==
    /\ IsOpen
    /\ BurnPairs(user, amount)
    /\ UNCHANGED <<contract, oracles>>

Buy(user, side, amount, min_shares_out) ==
    /\ TradingOpen
    /\ SwapIn(user, side, amount, min_shares_out, CurrentFee(cfg))
    /\ UNCHANGED <<contract, oracles>>

Sell(user, side, shares_in, min_collateral_out) ==
    /\ TradingOpen
    /\ SwapOut(user, side, shares_in, min_collateral_out, CurrentFee(cfg))
    /\ UNCHANGED <<contract, oracles>>

\* Allowed in every status.
Transfer(from, to, side, amount) ==
    /\ status # "Uninitialized"
    /\ MoveShares(from, to, side, amount)
    /\ UNCHANGED <<contract, oracles>>

-----------------------------------------------------------------------------

Outcome(cents) == IF cents >= cfg.strike_price THEN "ResolvedYes" ELSE "ResolvedNo"

Settle(payload) ==
    LET cents == PayloadCents(payload, cfg.feed_id)
    IN  /\ IsOpen
        /\ now >= cfg.expiry
        /\ UsableUpdate(payload, cfg.feed_id, cfg.expiry)
        /\ Corroborated(cfg.legs, pinned, cents)
        /\ final_price' = cents
        /\ status' = Outcome(cents)
        /\ PoolToTreasury(cfg.treasury)
        /\ UNCHANGED <<fixed, oracles>>

\* Fault: the backstop waits for a settlement that may never come.
GraceElapsedAndPriced == cfg.expiry + cfg.grace_period <= now /\ final_price > 0

GraceElapsed == cfg.expiry + cfg.grace_period <= now

\* Fault: a market that settle made final can still be cancelled.
CancelRegardless ==
    /\ status # "Uninitialized"
    /\ cfg.expiry + cfg.grace_period <= MAX_U64
    /\ GraceElapsed
    /\ status' = "Cancelled"
    /\ PoolToTreasury(cfg.treasury)
    /\ UNCHANGED <<fixed, final_price, oracles>>

Cancel ==
    /\ IsOpen
    /\ cfg.expiry + cfg.grace_period <= MAX_U64
    /\ GraceElapsed
    /\ status' = "Cancelled"
    /\ PoolToTreasury(cfg.treasury)
    /\ UNCHANGED <<fixed, final_price, oracles>>

Winner(s) == IF s = "ResolvedYes" THEN "Yes" ELSE "No"

\* What redeem pays user for the holdings h in the final status s.
Payout(s, h, user) ==
    IF s = "Cancelled" THEN Half(h["Yes"][user], h["No"][user])
                       ELSE h[Winner(s)][user]

Redeem(user) ==
    /\ status \in Final
    /\ PayClaim(user, Payout(status, bal, user))
    /\ UNCHANGED <<contract, oracles>>

-----------------------------------------------------------------------------
\* The environment: ledgers close, collateral is sent to the contract's
\* address, the feeds publish.

Tick == CloseLedger /\ UNCHANGED <<contract, exchange>>

StrayTransfer(user, amount) == SendStray(user, amount) /\ UNCHANGED <<contract, oracles>>

FeedUpdate(leg) == Publish(leg) /\ UNCHANGED <<contract, exchange>>

\* What an address can do in its own name.
CallsBy(user) ==
    \/ \E amount \in Amounts :
          \/ Split(user, amount)
          \/ Merge(user, amount)
          \/ StrayTransfer(user, amount)
          \/ \E side \in Prediction, minimum \in Minimums :
                \/ Buy(user, side, amount, minimum)
                \/ Sell(user, side, amount, minimum)
          \/ \E to \in Addr, side \in Prediction : Transfer(user, to, side, amount)
    \/ Redeem(user)

\* What nobody's signature is needed for.
OpenCalls ==
    \/ \E payload \in Payloads : Settle(payload)
    \/ Cancel

Next ==
    \/ \E c \in Configs : Initialize(c)
    \/ \E user \in Addr : CallsBy(user)
    \/ OpenCalls
    \/ Tick
    \/ \E leg \in Legs : FeedUpdate(leg)

Spec == Init /\ [][Next]_vars

(***************************************************************************)
(* Fairness: ledgers keep closing; cancel is permissionless, so somebody   *)
(* calls it once it stays possible; a holder who can redeem does so.       *)
(* Nothing is assumed of settle, of traders or of the feeds.               *)
(***************************************************************************)
Fairness ==
    /\ WF_vars(Tick)
    /\ WF_vars(Cancel)
    /\ \A user \in Addr : WF_vars(Redeem(user))

FairSpec == Spec /\ Fairness

-----------------------------------------------------------------------------

\* Every variable stays in its type; in particular no share balance, reserve,
\* supply or token balance is ever driven below zero by an order of calls.
TypeOK ==
    /\ status \in {"Uninitialized", "Open"} \cup Final
    /\ status # "Uninitialized" =>
          /\ cfg \in Configs /\ UsableTerms(cfg)
          /\ pinned \in [DOMAIN cfg.legs -> Nat]
    /\ final_price \in Int
    /\ ExchangeTypeOK
    /\ OraclesTypeOK

\* Every share is a claim on collateral, counted once: there is none before
\* initialize; while open the pool and the holders together own total_supply of
\* either side; after a resolution the winning side is exactly total_supply;
\* after a cancellation both sides together are at most twice total_supply.
ClaimsBacked ==
    /\ status = "Uninitialized" => total_supply = 0 /\ bal = NoShares
    /\ IsOpen => SidesBalanced
    /\ status \in Resolved => Total(bal[Winner(status)]) = total_supply
    /\ status = "Cancelled" => HalvesBacked

\* Whoever is still to redeem, in whatever order the others did and whatever
\* moved between them meanwhile, can be paid out of the locked collateral.
RedeemerPayable ==
    status \in Final => \A user \in Addr : Payout(status, bal, user) <= held - stray

\* No trade, however it rounds, leaves a reserve of an open market empty, so
\* get_price and the next swap never divide by zero.
PoolNeverEmpty == IsOpen => ReservesPositive

\* The step that makes a market final loses and invents no share: the holders,
\* treasury included, own all of either side.  From then on it stays as it was
\* decided: outcome and price never change, no call takes collateral in, and no
\* shares appear.
FinalityStep ==
    /\ (IsOpen /\ status' \in Final) => HoldersOwnAll'
    /\ status \in Final => UNCHANGED <<status, final_price>> /\ ClaimsShrink

Finality == [][FinalityStep]_vars

\* From the expiry on, when the outcome may be known, an open market issues
\* matched pairs only: nobody gains exposure to one side from the pool.
ExposureFrozenStep ==
    (IsOpen /\ now >= cfg.expiry /\ IsOpen') =>
        Total(bal["Yes"])' - Total(bal["No"])' = Total(bal["Yes"]) - Total(bal["No"])

ExposureFrozen == [][ExposureFrozenStep]_vars

\* A trade costs the liquidity provider less than one share of rounding on
\* each reserve: the product of the reserves with one share added to each
\* exceeds the product before the trade.
TradeRoundingBoundedStep == (IsOpen /\ IsOpen' /\ pool' # pool) => ProductKept

TradeRoundingBounded == [][TradeRoundingBoundedStep]_vars

\* Selling back what was just bought, in one sale and before anybody else trades,
\* never pays more than two units above the price, whatever the reserves: the depth
\* check leaves the rounding of these two trades no more to give away.  (Several
\* smaller sales round several times, and each may give a unit more away.)
RoundTripStep == IsOpen => RoundTripCapped(cfg)

RoundTripBounded == [][RoundTripStep]_vars

\* A market resolves to the price of a signed update from around its expiry, and
\* only while every configured feed has a fresh price, at the precision pinned when
\* the market opened, that agrees with it.
SettlementStep ==
    (IsOpen /\ status' \in Resolved) =>
        /\ AllLegsAgree(cfg.legs, pinned, final_price')
        /\ UpdatePriced(cfg.feed_id, final_price', cfg.expiry)

SettlementCorroborated == [][SettlementStep]_vars

\* The market as an escrow: a winning share is two halves, a share of a cancelled
\* market one, and before the outcome nothing is due.
Due(a) ==
    IF status \in Resolved THEN 2 * bal[Winner(status)][a]
    ELSE IF status = "Cancelled" THEN bal["Yes"][a] + bal["No"][a] ELSE 0

Escrowed == INSTANCE Escrow WITH
    phase <- IF status = "Uninitialized" THEN "Empty"
             ELSE IF IsOpen THEN "Open" ELSE "Closed",
    locked <- total_supply,
    due <- [a \in Addr |-> Due(a)]

\* Whatever pool, prices, fees and shares do, the market is an escrow: collateral
\* comes in only before the outcome, the outcome assigns all of it, a claim moves
\* only from its owner and is paid once, at face value or at a half.
ImplementsEscrow == Escrowed!Spec

\* Whatever the feeds and the traders do, an open market becomes final.
EventuallyFinal == IsOpen ~> status \in Final

\* A holder with a claim on a final market does not keep it forever: nothing
\* the others do, stray collateral and transfers included, blocks redemption.
HoldersPaid ==
    \A user \in Addr :
        (status \in Final /\ Payout(status, bal, user) > 0)
            ~> (status \in Final /\ Payout(status, bal, user) = 0)
=============================================================================
