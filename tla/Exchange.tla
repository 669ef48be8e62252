------------------------------ MODULE Exchange ------------------------------
(***************************************************************************)
(* What contracts/market and contracts/perpetual have in common, statement *)
(* for statement: matched pairs minted against locked collateral, a pool   *)
(* of both sides, two trades against it, a ledger of shares, the payment   *)
(* of claims.  The contracts add when each of these is allowed.            *)
(*                                                                         *)
(* A call that returns an error or traps is reverted by the host with      *)
(* everything it wrote, so an action is a call that succeeds and its guard *)
(* collects the early returns.                                             *)
(*                                                                         *)
(* The collateral token is an ordinary SEP-41 asset outside src/: wallet   *)
(* and held are its balances for the addresses and for the contract.       *)
(***************************************************************************)
EXTENDS ShareLedger, CtfMath

CONSTANTS
    Amounts,        \* amounts a caller may pass
    Minimums,       \* min_shares_out / min_collateral_out a caller may pass; the
                    \* code does not look at their sign
    Funds,          \* collateral each address starts with
    MaxStray        \* bound: collateral sent to the contract outside its calls

ASSUME ExchangeConstants ==
    /\ Amounts \subseteq Int
    /\ Minimums \subseteq Int
    /\ Funds \in [Addr -> Nat]
    /\ MaxStray \in Nat

VARIABLES
    pool,           \* pool_yes and pool_no
    total_supply,
    bal,            \* the share ledger
    wallet, held,   \* collateral of the addresses and of the contract
    stray           \* history: how much of held arrived outside the contract's calls

exchange == <<pool, total_supply, bal, wallet, held, stray>>

MAX_FEE_BPS == 1000

\* The checks of initialize that both contracts make.
UsableTerms(c) ==
    /\ c.base_fee_bps <= MAX_FEE_BPS
    /\ c.min_fee_bps <= c.base_fee_bps
    /\ c.initial_liquidity > 0

CurrentFee(c) == effective_fee_bps(c.base_fee_bps, c.min_fee_bps,
                                   c.initial_liquidity, total_supply)

\* Fault: only a trade for more than the whole reserve is refused.
OverdrawsReserve(amount_out, reserve_out) == amount_out > reserve_out

DepthExceeded(amount_out, reserve_out) == amount_out * 2 >= reserve_out

\* token.transfer into and out of the contract.
PayIn(user, amount) ==
    /\ wallet[user] >= amount
    /\ wallet' = [wallet EXCEPT ![user] = @ - amount]
    /\ held' = held + amount

PayOut(user, amount) ==
    /\ held >= amount
    /\ wallet' = [wallet EXCEPT ![user] = @ + amount]
    /\ held' = held - amount

ExchangeInit ==
    /\ pool = [side \in Prediction |-> 0]
    /\ total_supply = 0
    /\ bal = NoShares
    /\ wallet = Funds
    /\ held = 0
    /\ stray = 0

Seed(admin, initial_liquidity) ==
    /\ PayIn(admin, initial_liquidity)
    /\ pool' = [side \in Prediction |-> initial_liquidity]
    /\ total_supply' = initial_liquidity
    /\ UNCHANGED <<bal, stray>>

MintPairs(user, amount) ==
    /\ amount > 0
    /\ PayIn(user, amount)
    /\ bal' = credit(credit(bal, "Yes", user, amount), "No", user, amount)
    /\ total_supply' = total_supply + amount
    /\ UNCHANGED <<pool, stray>>

BurnPairs(user, amount) ==
    /\ amount > 0
    /\ CanDebit(bal, "Yes", user, amount)
    /\ CanDebit(bal, "No", user, amount)
    /\ PayOut(user, amount)
    /\ bal' = debit(debit(bal, "Yes", user, amount), "No", user, amount)
    /\ total_supply' = total_supply - amount
    /\ UNCHANGED <<pool, stray>>

(***************************************************************************)
(* buy: pairs are minted and the unwanted half goes to the pool, so the    *)
(* ledger gains amount + amount_out on one side; the debit of the unwanted *)
(* half fails for a balance below 0.  The fee is the one of total_supply   *)
(* before the mint; a supply of 0 traps.  Above 10000 bps effective_in is  *)
(* negative: a pool it does not leave positive divides by zero, or fails   *)
(* the depth check, and for any other amount_out is at most 0, which only  *)
(* min_shares_out can refuse.                                              *)
(***************************************************************************)
SwapIn(user, side, amount, min_shares_out, fee_bps) ==
    LET unwanted == other(side)
        effective_in == apply_fee(amount, fee_bps)
        amount_out == cpmm_out(pool[unwanted], pool[side], effective_in)
    IN  /\ amount > 0
        /\ total_supply # 0
        /\ pool[unwanted] + effective_in > 0
        /\ ~ DepthExceeded(amount_out, pool[side])
        /\ amount_out >= min_shares_out
        /\ PayIn(user, amount)
        /\ bal[unwanted][user] >= 0
        /\ bal' = credit(bal, side, user, amount + amount_out)
        /\ total_supply' = total_supply + amount
        /\ pool' = [pool EXCEPT ![unwanted] = @ + amount, ![side] = @ - amount_out]
        /\ UNCHANGED stray

\* sell: shares for collateral taken out of both reserves in one step.
SwapOut(user, side, shares_in, min_collateral_out, fee_bps) ==
    LET opposite == other(side)
        effective_in == apply_fee(shares_in, fee_bps)
        collateral_out == cpmm_sell_out(pool[side], pool[opposite], effective_in)
    IN  /\ shares_in > 0
        /\ CanDebit(bal, side, user, shares_in)
        /\ total_supply # 0
        /\ ~ DepthExceeded(collateral_out, pool[opposite])
        /\ collateral_out > 0
        /\ collateral_out >= min_collateral_out
        /\ PayOut(user, collateral_out)
        /\ bal' = debit(bal, side, user, shares_in)
        /\ total_supply' = total_supply - collateral_out
        /\ pool' = [pool EXCEPT ![side] = @ + shares_in - collateral_out,
                                ![opposite] = @ - collateral_out]
        /\ UNCHANGED stray

\* Fault: both balances are read before either is written.
MoveFromStale(from, to, side, amount) ==
    /\ amount > 0
    /\ CanDebit(bal, side, from, amount)
    /\ bal' = [bal EXCEPT ![side][from] = bal[side][from] - amount,
                          ![side][to] = bal[side][to] + amount]
    /\ UNCHANGED <<pool, total_supply, wallet, held, stray>>

\* transfer.  The credit reads the balance the debit left.
MoveShares(from, to, side, amount) ==
    /\ amount > 0
    /\ CanDebit(bal, side, from, amount)
    /\ bal' = credit(debit(bal, side, from, amount), side, to, amount)
    /\ UNCHANGED <<pool, total_supply, wallet, held, stray>>

\* Fault: the pool is emptied and the treasury gets one side of it only.
OneSideToTreasury(treasury) ==
    /\ bal' = credit(bal, "Yes", treasury, pool["Yes"])
    /\ pool' = [side \in Prediction |-> 0]
    /\ UNCHANGED <<total_supply, wallet, held, stray>>

\* What settle, cancel and terminate share: the pool's shares become the
\* treasury's.
PoolToTreasury(treasury) ==
    /\ bal' = credit(credit(bal, "Yes", treasury, pool["Yes"]),
                     "No", treasury, pool["No"])
    /\ pool' = [side \in Prediction |-> 0]
    /\ UNCHANGED <<total_supply, wallet, held, stray>>

\* Fault: every share of a market without a winner is paid in full.
BothInFull(shares_yes, shares_no) == shares_yes + shares_no

\* What the holdings of one address are worth when neither side won.
Half(shares_yes, shares_no) == (shares_yes + shares_no) \div 2

\* Fault: a redemption leaves total_supply as it was.
PayKeepingSupply(user, payout) ==
    /\ payout > 0
    /\ PayOut(user, payout)
    /\ bal' = clear(bal, user)
    /\ UNCHANGED <<pool, total_supply, stray>>

\* The part of redeem after the payout is known: both balances are cleared.
PayClaim(user, payout) ==
    /\ payout > 0
    /\ PayOut(user, payout)
    /\ bal' = clear(bal, user)
    /\ total_supply' = total_supply - payout
    /\ UNCHANGED <<pool, stray>>

\* Anybody may send collateral to the contract's address.
SendStray(user, amount) ==
    /\ amount > 0
    /\ stray + amount <= MaxStray
    /\ PayIn(user, amount)
    /\ stray' = stray + amount
    /\ UNCHANGED <<pool, total_supply, bal>>

-----------------------------------------------------------------------------

ExchangeTypeOK ==
    /\ pool \in [Prediction -> Nat]
    /\ total_supply \in Nat
    /\ bal \in Ledgers
    /\ wallet \in [Addr -> Nat]
    /\ held \in Nat
    /\ stray \in 0..MaxStray

\* The invariant of both crates' headers (market/src/lib.rs:28-31): the contract
\* holds total_supply, and beyond it only what was sent to it outside its calls.
CollateralHeld == held = total_supply + stray

\* While there is a pool, it and the holders own total_supply of either side.
SidesBalanced ==
    \A side \in Prediction : pool[side] + Total(bal[side]) = total_supply

\* Paying half of every share needs no more than total_supply.
HalvesBacked == Total(bal["Yes"]) + Total(bal["No"]) <= 2 * total_supply

\* Without a pool, the holders own all of either side.
HoldersOwnAll == \A side \in Prediction : Total(bal[side]) = total_supply

ReservesPositive == \A side \in Prediction : pool[side] > 0

\* A trade takes from the product of the reserves less than one more share on
\* each side makes up for.
ProductKept ==
    (pool'["Yes"] + 1) * (pool'["No"] + 1) > pool["Yes"] * pool["No"]

\* Whoever sells what was bought back at once and in one sale gets at most two
\* units more than was paid.  A purchase is a step in which somebody pays and gets
\* more shares of a side than collateral was paid.  At a supply of 0 no sale is
\* possible.
RoundTripCapped(c) ==
    \A user \in Addr, side \in Prediction :
        LET paid == wallet[user] - wallet'[user]
            got == bal'[side][user] - bal[side][user]
            fee_bps == effective_fee_bps(c.base_fee_bps, c.min_fee_bps,
                                         c.initial_liquidity, total_supply')
        IN  paid > 0 /\ got > paid /\ total_supply' # 0 =>
               cpmm_sell_out(pool'[side], pool'[other(side)], apply_fee(got, fee_bps))
                 <= paid + 2

\* Claims only shrink: no collateral is taken in and no shares appear.
ClaimsShrink ==
    /\ total_supply' <= total_supply
    /\ \A side \in Prediction : Total(bal[side])' <= Total(bal[side])
=============================================================================
