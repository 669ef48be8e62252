# Polaris contracts: specifications, model checking and proofs

This directory specifies the Soroban contracts of this repository in TLA+. TLC
checks the specifications on small instances; TLAPS proves their central safety
properties for every value of the constants. Paths like `market/src/lib.rs` are
relative to `contracts/`.

## 1. The system

| Component | State it keeps | Operations that change it |
|---|---|---|
| **market** (`market/src/lib.rs`): a fully collateralised binary market on "price at expiry >= strike" | one `Market` record (terms, status, `pool_yes`, `pool_no`, `total_supply`, `final_price`, oracle legs), an optional `RedstoneOracle`, a share balance per (side, address) | `initialize`, `split`, `merge`, `buy`, `sell`, `transfer`, `settle`, `cancel`, `redeem` |
| **perpetual** (`perpetual/src/lib.rs`): the same exchange without an expiry | one `Perpetual` record, an optional `PriceOracleConfig`, the same share balances | the same trades, `record_price_checkpoint`, `terminate`, `redeem` |
| **ctf-math** (`ctf-math/src/lib.rs`): the arithmetic both share | none | none (`cpmm_out`, `isqrt`, `cpmm_sell_out`, the fee curve, two conversions to cents, the corroboration of a price by a SEP-40 feed) |
| **mock-redstone**: a SEP-40 feed | last price (or none), decimals, resolution | four setters |
| **mock-lazer**: stands in for Pyth Lazer's verifier | none | none (returns the bytes it is given) |
| **vault** (`vault/src/lib.rs`): pooled capital | admin, collateral, `total_deposited`; token and share balances in its name | `initialize`, `deposit`, `withdraw`, `redeem_from_market` |
| **smart-wallet** (`smart-wallet/src/lib.rs`, `base64_url.rs`): an account that answers to one passkey | one public key | `init`, `__check_auth` (a decision, no write) |
| **smart-wallet-factory** (`smart-wallet-factory/src/lib.rs`) | the pinned wasm hash | `initialize`, `deploy` |
| external: collateral token, Reflector, RedStone, Pyth Lazer, the Soroban host | | |

**How they interact.** Market and perpetual call the collateral token
(`transfer`, in and out), at `initialize` the feeds' `decimals` and
`resolution`, and at `settle` / `record_price_checkpoint` the Lazer verifier and
each feed's `lastprice` and `decimals`. The vault calls the token and a market's
`redeem`; it may be the `treasury` that receives the pool's shares when a market
ends. The factory deploys a wallet and calls its `init` in the same transaction.
Users sign through wallets: the host asks the wallet's `__check_auth` whether a
signature stands for the payload of an invocation, and a market sees an address
whose `require_auth` succeeded. Nothing in the markets depends on what is behind
that address, so wallets and markets are modelled apart: `CallsBy(user)` is what
a signer may call, `Authorize` is how a wallet becomes one.

**What is hard about it.** There is no thread and no partial failure inside a
call: the host runs transactions one after the other, and a call that returns an
error or traps leaves nothing behind. The difficulty is in *sequences of legal
calls by different parties*: any interleaving of trades, share transfers, the
final call and redemptions must leave enough collateral for whoever redeems
last; two permissionless calls (`settle` and `cancel`) race once the grace
period has passed; feeds may change, fall silent or be rescaled between
`initialize` and `settle`; an update may be stale, early, unsigned or about
another feed; integer rounding accumulates over trades; the market must become
final even if no oracle ever answers; a vault is treasury of several contracts
at once and anybody may act between two of its calls; anybody may deploy a
wallet for anybody's key, and anybody may submit any assertion that was ever
made, to any wallet and for any invocation.

**What makes each component correct.**

* market: the contract holds `total_supply`; claims add up to it on each side;
  no reserve empties; no balance is overdrawn; the outcome is decided once, on a corroborated price;
  nobody gains net exposure after the expiry; whoever redeems next can be paid;
  the market always ends and every holder is paid.
* perpetual: the same before and after `terminate`, with every share worth half;
  a checkpoint is a corroborated, timely price and changes nothing else.
* ctf-math: `isqrt` is the integer square root; a sale never takes a whole
  reserve; rounding costs the pool less than a share a side per trade.
* vault: only the admin moves capital out; what it redeems is its own claim.
* wallet: one key, set once; an assertion authorises the one invocation it was
  made for. factory: only the pinned code, only with the given key, at the
  address `resolve` names.

The hazards behind these, each at the line where it bites, are listed in
`PROJECT.json`.

## 2. Modules

    Sep40Feed            one price feed (mock-redstone)
       |
    CtfMath              ctf-math            ShareLedger     balances per side and address
       |        \________________________________ |     \________________
    Oracles              clock, feeds, updates,   Exchange   pool, trades, |
       |                 corroboration              |        collateral,   |
       |                                            |        claims        |
       |____________________________________________|                   Escrow
          |                                  |                   (abstract, implemented
       Market                             Perpetual               by both exchanges)
          |        \__________    _________/  |
          |                   VaultedMarkets  |    Vault + a market + a perpetual
          |                        |          |
       MarketClaims, MCMarket   MCVault   MCPerpetual

    Base64Url -> SmartWallet -> WalletFactory -> Accounts -> MCAccounts

    proofs:  ShareLedgerProofs -> CtfMathProofs -> ExchangeProofs -> MarketProofs, PerpetualProofs
             ShareLedgerProofs -> EscrowProofs      (and Oracles)      |             |
                                                                    VaultProofs (of VaultedMarkets)
             WalletProofs (of Accounts)

| Module | What it is |
|---|---|
| `Sep40Feed`, `CtfMath`, `ShareLedger`, `Oracles`, `Exchange` | operators and actions the two exchanges share |
| `Market`, `Perpetual` | the two exchanges, each a specification of its own |
| `Escrow` | what both promise about collateral, in five actions: lock, release, close, move a claim, pay it (and lose what is sent to the contract unasked) |
| `Vault`, `VaultedMarkets` | the vault's own state and operations; the vault composed with one market and one perpetual (`INSTANCE Market`, `INSTANCE Perpetual` with one token, clock and set of feeds) |
| `Base64Url`, `SmartWallet`, `WalletFactory`, `Accounts` | the encoder; a wallet; the factory; all wallets with passkeys, deployers, submitters and the host |
| `MC...`, `MarketClaims` | instances for TLC; sentences of the repository that do not hold |
| `...Proofs` | theorems (section 6) |

`market` and `perpetual` repeat each other statement for statement in what they
do to pool, supply and balances. `Exchange` has each of these operations once
(`MintPairs`, `BurnPairs`, `SwapIn`, `SwapOut`, `MoveShares`, `PoolToTreasury`,
`PayClaim`), `Oracles` the verification they share (`UsableLegs`,
`UsableUpdate`, `Corroborated`). `Market` and `Perpetual` add the status, the
terms and when each operation is allowed; both are separate specifications with
their own variables, actions and properties.

### Correspondence with the code

| Specification | Code |
|---|---|
| an action | one successful call. Its guard collects the early returns, in any order, since none of them leaves a trace; a call that fails or traps is no step |
| `cfg` | the fields of `Market` / `Perpetual` that `initialize` writes and nothing else does |
| `cfg.legs`, `pinned` | the configured feeds; a missing `RedstoneOracle` / `PriceOracleConfig` is a missing key. `pinned` is `decimals_at_init` |
| `pool`, `total_supply`, `status`, `final_price`, `last_price_cents`, `last_price_at` | the fields of the same name (`pool_yes`, `pool_no`) |
| `bal` | `DataKey::Balance(side, address)`; a removed entry is 0. `credit`, `debit` and `clear` are applied in the code's order, so a transfer to oneself credits what the debit left |
| `wallet`, `held` | the token's balances of the addresses and of the contract. `stray` is a history variable: what reached `held` by a plain token transfer, which the contract cannot see |
| `feed`, `now` | the SEP-40 contracts' answers, quotes of any date included, and the ledger timestamp |
| `CurrentFee` | `effective_fee_bps` of the supply before the call: above 10000 bps an input counts as negative, and the conversion to `u32` keeps a remainder |
| a payload | what `verify_update` and parsing leave: accepted or not, and per feed id price, exponent and timestamp |

`buy` and `sell` are one action each: fee from the supply before the call,
swap, depth check, slippage check, token transfer, ledger, supply, both reserves.
`Settle` and `Cancel` include the transfer of the pool's shares to the treasury,
`Redeem` the clearing of both balances.

| Specification | Code |
|---|---|
| `Escrow` under the mapping at the end of `Market` and `Perpetual` | `locked` is `total_supply`; `due` is twice what an address would be paid, 0 while the outcome is open; `phase` is the status without its outcome |
| `vault`, `admin`, `total_deposited` | the vault's address, its keys "admin" and "deposit"; the vault's collateral is its entry of `wallet` |
| `Signers` | who passes `require_auth`: every address but the vault, which has no key. In `VaultedMarkets` it calls a market only through `RedeemFromMarket` |
| `RedeemFromMarket` | `redeem_from_market`: the admin names any contract that has a `redeem`, the market or the perpetual; the vault is the caller of that `redeem` |
| `WithdrawToMarket`, `Gift` | `withdraw` to the address of a market; a token transfer to the vault that is no deposit |
| `public_key`, `code`, `wasm_hash` | "pk" at every wallet, the contracts the host has, the factory's pinned hash |
| `Deploy`, `Initializable` | `deploy`: `deploy_v2` at the address of the key's salt and `init` of the child, one transaction: if either fails neither happens, as when the pinned code has no `init`. Any code with one is deployed; only the wallet's stores a key the model looks at |
| `CheckAuth` | `__check_auth` returning `Ok`. Its other outcomes change nothing |
| `encode` | the encoder, with `val`'s shifts and masks written as division and remainder. An `ALPHABET` character is its index |
| an assertion | what a passkey and a browser make of a challenge: the key under which the signature verifies, the challenge in the client data, whether the data fits `to_buffer` and parses. Rewriting the data leaves an assertion of no key (`Altered`) |
| `payload`, `NonceFresh`, `PutCode` | external: the host's hash of an invocation, its replay protection, its rule that an address gets code once |

Fault operators (marked `Fault:`, for instance `OverdrawsReserve`) are
plausible mistakes in the definition that follows them. No specification uses
them; substituted for that definition each makes a named property fail, which is
recorded under `mutants` in `PROJECT.json` and shows that the property can fail.

## 3. What the runs check

| Run | Question | Distinct states |
|---|---|---|
| `market_trading` | whole life of a market with two addresses, an oracle consistent with either outcome, stray collateral: `TypeOK`, `CollateralHeld`, `ClaimsBacked`, `RedeemerPayable`, `PoolNeverEmpty`, `Finality`, `ExposureFrozen` | 404,228 |
| `market_rounding` | a pool with fees at the ceiling and one without fees, every reachable pair of reserves, and an amount that only the depth check stops: `TradeRoundingBounded`, `RoundTripBounded` | 275,566 |
| `market_settlement` | feeds that publish quotes of any date, fall silent, change decimals and resolution; unsigned, stale, future, negative and foreign updates; every argument `initialize` must refuse: `SettlementCorroborated` | 979,116 |
| `market_liveness` | trades, splits, transfers and stray collateral of two addresses, a feed that changes its price or falls silent; under fairness: `EventuallyFinal`, `HoldersPaid`; and that a market implements `Escrow`: `ImplementsEscrow` | 302,292 |
| `perpetual_trading` | two addresses and a checkpoint around a wind-down at any time: the same invariants, `WindDownFinal`, `ImplementsEscrow`; under fairness: `HoldersPaid` | 278,364 |
| `perpetual_checkpoint` | feeds and updates of every kind, before and after `terminate`: `CheckpointCorroborated` | 452,112 |
| `vault` | a vault that may be treasury of a market and of a perpetual at once, with everybody else's calls in between: `TypeOK`, `CollateralizedApart`, `SeedRecovered`, `ClaimsBecomeCapital`; under fairness `VaultCollects` | 257,744 |
| `accounts` | two passkeys, their two wallets and one deployed elsewhere; all orders of deployments, initializations, assertions, logins and submissions: `TypeOK`, `OnlyApproved`, `WalletsAreTheirKeys`; under fairness `EveryKeyGetsItsWallet`, `ApprovalsAreCarriedOut` | 42,526 |
| `claim_pairs`, `claim_supply`, `claim_cancel`, `claim_agreement` | sentences of the repository that the code does not keep (section 5) | violated |

The runs of the exchanges and of the vault also check that the system never
stops: an address can always transfer to itself, a feed publish or a ledger
close. `accounts` may stop, when everything is deployed, every nonce is used and
no further assertion is made, and does not check it.

**Bounds.** `N` addresses (1 or 2), `Amounts`, `Minimums`, `Funds`, `MaxTime`,
`MaxStray`, `Configs`, `Payloads`, `DeployedFeeds`, `FeedPrices`,
`FeedTimes`, `FeedDecimals`, `FeedResolutions`, and `PRICE_FRESHNESS_WINDOW_SECS`
= 1 in place of 300. `U32_RANGE` is 2^31 - 1 in place of 2^32 (TLC's integers
have 32 bits): no fee of a run comes near it. Why they are enough:

* Two addresses are a holder and a rival who redeems first; one of them is the
  treasury (and in `perpetual_trading` the admin is the other). Amounts include
  0 and -1 for the guards, 1 and 2 for odd and even halves, 5 to exceed the
  depth check and to exhaust funds. A pool of three is one every trade can
  nearly drain, and the smallest in which a purchase of one passes the depth check.
* `Minimums` include -1 and 0 in the trading runs. Their fees stay far below
  100 %, so that a negative minimum accepts nothing that 0 would not:
  `claim_pairs` is the instance in which it does (section 5).
* The liveness instances have the pool of three as well, so that trades happen;
  their amounts are 1, and what they leave out of amounts and payloads the
  invariants' runs have. `market_liveness` has updates for both outcomes and a
  feed that may move away from both; `perpetual_trading` one checkpoint, at any
  point of the life.
* With fees of at most 10 % an amount below 10 pays none, hence `market_rounding`
  with 10 and a pool of 20. Its second market has no fees, so that no fee makes
  up for rounding, and a pool of 10, of which the amount 41 would leave one share.
* Expiry, grace and freshness of one or two seconds put every order of expiry,
  update, grace and staleness within four ticks. `MAX_U64` = 20 makes a sum
  overflow reachable (a configuration with `grace_period` = 20).
* Prices of 0, 26 (two decimals) and 259 (three) with 25-27 cents as reference
  are on both sides of a tolerance, of rounding and of the strike.
* In `vault` the second address is the vault; the other one deposits,
  administers, opens both contracts and trades, so every call of every contract
  has a caller. Only the market's pool, of three, is deep enough for a purchase;
  pairs of the perpetual, whose pool is one, are minted, burned, moved and
  redeemed. (A deeper pool of the perpetual is `perpetual_trading`; both deep
  together exceed what TLC explores in minutes: that is what `VaultProofs` is for.)
  `MaxDeposited` = 2 lets the vault own collateral of its own beside its claims;
  one unit may stray into the market, none into the perpetual. One update (below the strike) and `cancel` end the market; both
  outcomes of a market are covered by `market_trading`.
* In `accounts` two assertions (`MaxAssertions`) allow an assertion for one
  invocation beside one for another, or beside a login. The five invocations
  share a nonce, differ in the nonce or in the wallet, and their payloads differ
  in the first, a middle or the last byte. A payload has 5 bytes instead of 32:
  both leave two bytes after the last group of three, the tail of the encoder.

The theorems of section 6 are not subject to these bounds.

**Fairness.** `Market` assumes weak fairness of `Tick` (ledgers close), `Cancel`
(permissionless, and the treasury gains its shares by it) and each holder's
`Redeem`. `Perpetual` assumes each holder's `Redeem` only: `terminate` is the
admin's and may never come. Nothing is assumed of `settle`, of traders, of
feeds or of updates, so `EventuallyFinal` does not depend on an oracle.
`HoldersPaid` holds under weak fairness because a positive payout stays enabled
until it is paid or the holder gives the shares away; it would fail if anything
another party does could block it.
`VaultedMarkets` assumes that ledgers close, that somebody calls `cancel`, and
that the vault's admin keeps calling `redeem_from_market` for what is due (the
call stays enabled, so weak fairness is enough); nothing of trades, settlements
or other redemptions. `Accounts` assumes that anybody who wants a wallet for a
key deploys it and that somebody keeps submitting what an owner signed: both are
open to everybody and whoever does not succeed tries again. It assumes nothing
of the factory's admin, of passkeys or of browsers.

## 4. What the properties say

* `CollateralHeld`: `held = total_supply + stray`. The README's literal
  `balance(market) == total_supply` is its case without stray transfers, which
  nobody can prevent.
* `ClaimsBacked`: each share is a claim counted once, in every status.
* `RedeemerPayable`: whoever redeems next, in any order, is covered by the
  collateral *excluding* what strayed in.
* `PoolNeverEmpty`: the depth check looks at the reserve a trade takes from; the
  other reserve of a sale shrinks as well and must stay positive by arithmetic.
* `Finality`, `WindDownFinal`: the step that ends a market puts every share into
  a holder's hands; after it, outcome and price are fixed, and claims shrink.
* `ExposureFrozen`: from the expiry to the outcome, the difference between all
  YES and all NO holdings does not change: matched pairs only.
* `TradeRoundingBounded`: with one share added to each reserve, the product
  after a trade exceeds the product before it.
* `RoundTripBounded`: whatever a purchase brings, selling all of it back at once in
  one sale pays at most two units more than was paid. It is a bound for that one
  sale: split into many small sales, each rounds for itself and each may give one
  unit more away. A purchase rounds in the buyer's favour by
  less than a share, but that share is worth the more collateral the further the
  reserve was drawn down; only the depth check (a trade takes less than half of
  the reserve) bounds it. One unit is what the run meets; two occur with reserves
  of hundreds of shares that differ by a factor of ten.
* `SettlementCorroborated`, `CheckpointCorroborated`: stated in the feeds' own
  units (no conversion of a quote to cents, no bps quotient), so that they would
  notice an error in that conversion, as well as a skipped leg, a stale price or a
  rescaled feed. A tolerance of 10000 bps or more bounds nothing and is exempt. Both also ask for a signed update of that price, dated within the
  window around the expiry or, for a checkpoint, around the time of the call,
  which is the time a checkpoint must record.
* `EventuallyFinal`, `HoldersPaid`: progress.
* `ImplementsEscrow`: whatever pool, prices, fees and shares do, collateral comes
  in only before the outcome, the outcome assigns all of it at once, a claim
  moves only from its owner to one other address, undiminished, and is paid once.
* `CollateralizedApart`: with the vault as treasury of both, each exchange still
  covers its own holders from its own balance, and no token is made or lost
  between them.
* `SeedRecovered`: the treasury of an ended market can claim at least the smaller
  of the reserves, whatever the outcome; that is a statement about the hand-over
  of the pool *and* about what the winning side is worth.
* `ClaimsBecomeCapital`: the vault's shares never decrease except in a step that
  pays their full value into the vault's own purse. `VaultCollects`: they do get
  collected.
* `OnlyApproved`: an invocation carried out for a wallet is one that the owner of
  its key agreed to: not another one, not another nonce, not another wallet, not
  a login. It relates the key stored at the wallet, the history of what owners
  were asked, the encoder and the host's replay protection.
* `WalletsAreTheirKeys`: whoever comes first at the address of a passkey, by
  `deploy` or by calling `init` there. `EveryKeyGetsItsWallet`: nobody can keep
  a key from its wallet. `ApprovalsAreCarriedOut`: what an owner signed, with
  client data that fits, is carried out; a wrong buffer length or a padded
  encoding would keep every approval from being carried out and would violate
  none of the safety properties.

## 5. Where code and documentation disagree

* `claim_pairs`: "Because every share is minted as a matched YES+NO pair, the
  contract can never be short of collateral to pay winners"
  (`market/src/lib.rs:29-31`). `buy` compares its output with `min_shares_out`
  and looks at the sign of neither. In the run a market is opened with 40 shares a
  side at 1000 and 0 bps; trades of one unit, each rounding in the trader's
  favour, bring the reserves to (2, 2) while two pairs of the trader's own keep
  the fee below 100 %; merging them leaves a supply of 2 and a fee of 200 %. A
  purchase with 1 and a minimum of -2 then has the input 1 - 2 and the output -2:
  the buyer's balance is -1, the pool has (4, 3) and the supply is 3. After a
  settlement for that side the 4 shares are a claim of the treasury (if it is not
  the buyer itself, which the run with its one address does not tell apart) to
  more than the 3 units locked, and `redeem` pays all or nothing. The amounts scale: from a seed of 200 the same calls with 1000 pairs, then a
  purchase with 9 and a minimum of -1000 at reserves (10, 10), leave a balance of
  -81 and a pool of (100, 19) against a supply of 19. `perpetual/src/lib.rs:457`
  has the same statement. Section 6 says what holds regardless, and from which
  condition on the rest does.
* `claim_supply`: "`total_supply` >= this always, pre-resolution"
  (`market/src/lib.rs:194`; the fee's upper bound in `ctf-math/src/lib.rs:80-85`
  relies on it). Three trades refute it: a purchase with 1 brings two shares of a
  pool of three, and each of them sells for 1. `total_supply` is then below
  `initial_liquidity` and the fee above `base_fee_bps`. `TradeRoundingBounded`
  says how little that is per trade.
* `claim_cancel`: "guaranteed to equal `total_supply` exactly"
  (`market/src/lib.rs:751-754`). Halves round down per holder; two holders of an
  odd number of shares leave collateral no call releases.
* `claim_agreement`: `to_cents` cuts off, `reflector_price_to_cents` rounds. Two
  sources with the same price of few cents can be reported as divergent, and the
  market can then only be cancelled. `ctf-math/src/lib.rs:107-109` gives the
  skew as the reason for rounding.

Noticed and not made a run: `get_fee` divides by `total_supply`, which is 0
after the last redemption, and traps; `expiry + grace_period` is unchecked, and
above `u64::MAX` `cancel` traps for ever; a `max_staleness_secs` near `u64::MAX`
makes `settle` trap; `tolerance_bps` is not validated, and from 10000 on a quote
that rounds to 0 cents agrees with anything; the comments "Both sides then
redeem 1:1" (`market/src/lib.rs:25-26`, `697-698`) are out of date, both sides
redeem at a half. The factory's header says a second `deploy` of a key "fails on
the child's own `AlreadyInitialized` check" (`smart-wallet-factory/src/lib.rs:22-25`);
it fails earlier, when the host refuses to put code at an address twice, with the
same effect. `redeem_from_market` takes any contract with a `redeem`, so the
vault collects from a perpetual as well, which its comments do not mention.
`get_total_deposited` adds up deposits and is not lowered by withdrawals: it is
no balance.

## 6. What is proved

`MarketProofs` and `PerpetualProofs` prove, for every number of addresses, every
set of arguments, amounts, minimums (negative ones included), updates and feeds,
and every bound:

| Theorem | Market | Perpetual |
|---|---|---|
| `Invariance`: `[]IInv` | x | x |
| `CollateralAlwaysHeld`: `[]CollateralHeld` | x | x |
| `ClaimsAlwaysBacked`: `[]ClaimsBacked` | x | x |
| `PoolNeverEmpties`: `[]PoolNeverEmpty` | x | x |
| `OutcomeDecidedOnce` / `WoundDownOnce`: decided once, every share handed over, never changed | x | x |
| `NoTradeAfterExpiry`: `ExposureFrozen` | x | |
| `RoundingBounded`: `TradeRoundingBounded` | x | |
| `RoundTripAlwaysBounded`: `RoundTripBounded` | x | x |
| `SettlementIsCorroborated` / `CheckpointIsCorroborated`: `SettlementCorroborated` / `CheckpointCorroborated` | x | x |

These hold of the code as it is. The rest needs that no balance is negative, and
section 5 shows that the code can store one. What keeps it from doing so is
`FeeCovered`: while the contract is open, the fee is at most 100 %, or no caller
passes a negative minimum. For every behaviour in which that is so
(`Spec /\ []FeeCovered => ...`):

| Theorem | Market | Perpetual |
|---|---|---|
| `TypeCorrect`: `[]TypeOK` | x | x |
| `Solvency`: `[]RedeemerPayable` | x | x |
| `OutcomeFinal` / `WindDownIsFinal`: `Finality` / `WindDownFinal` | x | x |
| `MarketIsEscrow` / `PerpetualIsEscrow`: `ImplementsEscrow` | x | x |
| `CheapTermsSuffice`: all of these, without the condition, for terms with `(base - min) * initial_liquidity <= 10000 - min`, or if no minimum is negative | x | x |

The fee is at most 100 % whenever `(base - min) * initial_liquidity <= (10000 -
min) * total_supply`; as base is at most 1000, that is so while at least a tenth
of the seed is outstanding. `CheapTermsSuffice` covers the instances of all passing
runs. A real pool of millions of stroops does not have such terms: there the
condition is that the drift of section 5 does not go that far, or that `buy`
refuses a negative minimum.

`EscrowProofs` proves `ClaimsCovered`: in an escrow what is locked covers all
claims, at any time. `VaultProofs` proves of a market, a perpetual and a vault
that share a token, a clock and the feeds, for any of their constants (the last
three under the same condition on both contracts, or terms that imply it):

| Theorem | Says |
|---|---|
| `Invariance` | the invariants of both exchanges survive the other's and the vault's calls, no token is made or lost, and the vault itself never owes shares: it cannot sign a purchase |
| `SeedAlwaysRecovered` | `SeedRecovered` |
| `ClaimsAlwaysPaid` | `ClaimsBecomeCapital` |
| `TypeCorrect` | `[]TypeOK`: no balance of the three or of anybody is overdrawn |
| `CollateralizedAlways` | `[]CollateralizedApart` |
| `CheapTermsSuffice` | the terms that are enough for both |

`WalletProofs` proves, for any number of wallets, keys,
invocations and assertions and payloads of any length:

| Theorem | Says |
|---|---|
| `AccountTypes` | `[]TypeOK`; every character of a challenge is one of the 64 |
| `OnlyApprovedHolds` | `[]OnlyApproved` |
| `WalletsAreTheirKeysHolds` | `[]WalletsAreTheirKeys` |
| `EncodeInjective` | byte strings of one length with the same encoding are the same |

**The argument.** The inductive invariant is
`IInv == Typed /\ CollateralHeld /\ ClaimsBacked /\ PoolNeverEmpty`, where
`Typed` is `TypeOK` with integers in place of natural numbers for share balances and
supply. The four are kept together: that a sale leaves the reserve it feeds positive
needs the types and positive reserves before it, and that the fee only takes, at any
supply (the conversion to `u32` makes it a natural number); that the holdings match
the supply after an outcome needs `ClaimsBacked` before it. With `FeeCovered` each
purchase adds at least nothing to a balance, which makes
`SInv == IInv /\ NoneOverdrawn` inductive; that redemptions never exhaust the
collateral follows from it (`RedeemerPayable` needs every *other* balance to be at
least 0). The action properties follow from the invariants and one case per action
(`StepInv`, `StrongStep`).

The layers, bottom up:

* `ShareLedgerProofs`: the running sum `Total` of a side: what a credit, a debit
  and a clearing do to it, and that no balance exceeds it.
* `CtfMathProofs`: `IsqrtCorrect` (Newton's loop, as a recursive function, ends
  at the floor of the square root, for every number), `SellOutLeavesReserve`,
  `SaleRounding`, `SwapRounding`, `PurchaseSoldBack`, and that a fee only takes;
  that a power of ten is positive (`PowerOfTen`), how far a quote in cents is
  from the quote (`QuoteRounding`) and what a divergence within a tolerance says
  of the two prices (`DivergenceBounded`).
* `ExchangeProofs`: one lemma per operation of the exchange: it keeps the
  *books* (types and collateral) and, while there is a pool, the balance of both
  sides with positive reserves. Clock and feeds stay well typed, pinned decimals
  are naturals.

**A purchase sold back.** Let `x` be the reserve bought from, `y` the other one,
`rest` what the purchase leaves of `x` and `b` the other reserve after it. The
rounding of the purchase loses less than `b` of the product `x * y`, and `b`
counts without the fee less than `2 * y`, because `rest` is more than half of `x`.
The sale pays `z` with `4 * rest * b <= 4 * alpha * beta + 2 * (alpha + beta)`, where
`alpha` and `beta` are the reserves it leaves (`SaleCeiling`). A gain of three
would leave at most `x - 3` and `y - 3`, and the two inequalities contradict
each other. The fee on either leg only lowers `z`.

**Corroboration.** The contracts compare whole cents and a quotient in basis
points; the properties speak of prices in the feed's own unit. `Agreement`
connects them: the quote in cents is within half a cent of the quote, the
quotient rounds down by less than one basis point, and both are multiplied out,
for any number of decimals. `CorroboratedAgrees` adds freshness and the pinned
precision, and `SettlementChecked` / `CheckpointChecked` that no other call
writes an outcome or a checkpoint. `pow10` is a recursive function rather than
`10^n` so that this can be proved.

**The vault's composition.** `IInv` of `VaultProofs` is the two exchanges'
inductive invariants, the types of the vault's own state, that the vault's share
balances are natural numbers, and that the purses and
both contracts hold `Total(Funds)` together. Each step is one of the market, one of
the perpetual or one between purses (`StepKinds`). The exchange that moves keeps
its invariant by its own proof (`MarketFacts`, `PerpetualFacts`); the one that does
not is a bystander whose invariant mentions only purses and feeds of what the
others changed, and those stay well typed (`MarketStands`, `PerpetualStands`). What the
vault gets follows from two facts about each exchange in the last section of
`MarketProofs` and `PerpetualProofs`: an outcome puts the reserves into the
treasury's hands (`TreasuryClaim`), and no step but a holder's own call lowers its
shares (`OthersTakeNothing`). `VaultedMarkets` and the proofs instantiate
the same modules twice (`M` and `MP`, `P` and `PP`), once with and once
without their theorems; the lemmas `Same...` say that both mean the same.

**The refinement** maps every step of an exchange to one of `Escrow` or to none.
`ExchangeProofs` says of each operation what it does to supply and purses
(`SeedLocks`, `MintLocks`, `SwapInLocks`: a `Lock`; `BurnReleases`,
`SwapOutReleases`: a `Release`); `ShareLedgerProofs` what claims add up to when
the outcome is known (`WinnersClaims`, `HalvesClaims`), so that an outcome is a
`Close` exactly because `HoldersOwnAll` holds after it, and what a transfer does
to two entries of `due`, a transfer to oneself included (`MoveLedger`). A
transfer of shares of the losing side, a checkpoint and a redemption of a single
half-share pay nothing and are stutters or, for the last one, never happen:
`redeem` refuses a payout of zero.

**The wallets.** `WalletInv == TypeOK /\ WalletsAreTheirKeys /\ AssertionsMeant
/\ OnlyApproved`. `AssertionsMeant` is the strengthening: an assertion of a key
whose challenge is the encoding of an invocation's payload was made when that
invocation was approved. It is inductive because two payloads, or a payload and
a login, never share an encoding (`EncodeInjective`, from the value of each
sextet), and `OnlyApproved` is inductive because of it and because a stored key
is never overwritten.

**Assumptions.** The named `ASSUME`s, which TLC evaluates in every run:
addresses are `1..N`; amounts and minimums are integers (negative ones
included); no two keys share an address and no two invocations, nor an
invocation and a login, a payload (both are hashes).
`VaultedConstants` asks of the constants of the composition what `Market` and
`Perpetual` ask of theirs. Beyond these: the token moves exactly the amount or
fails, the host reverts failed calls, integers do not overflow `i128`.

**Only model-checked.** Liveness under fairness is outside what TLAPS proves:
`EventuallyFinal`, `HoldersPaid`, `VaultCollects`, `EveryKeyGetsItsWallet` and
`ApprovalsAreCarriedOut` stay with TLC. Every invariant and every action property
that a passing run checks is proved, under the condition above where it says so.
(`Perpetual`'s `RoundTripBounded` is proved and has no run of its own: its
definition and the trades it is about are the market's, in `Exchange`.) That TLC's small instances violate each property under a fault is
shown by the runs alone.

## 7. What is not modelled

* Cryptography: `sha256` is an injective function and ECDSA (with the low-S
  check the host makes) is which key a signature verifies under. Of the client
  data the model has the challenge and whether it fits and parses. The code
  checks neither its `type` or `origin` nor the relying party, flags and counter
  in the authenticator data, and the model has none of them.
* What the `init` of a pinned code that is not the wallet's stores
  (`WalletsAreTheirKeys` claims a key only for the wallet's code).
* Nonces, the order of authorization entries and the recursion of `require_auth`
  are the host's (`NonceFresh` is external).
* A vault and a market with different tokens: `initialize`'s comment demands the
  same one, the model assumes it, no code compares them.
* Authorisation inside the markets: `require_auth` restricts who may call; an
  action takes the caller as a parameter, so every call a signer could make is
  explored. `terminate` and the vault compare their caller with the stored
  admin, which is modelled.
* The steps inside a failing call: the host reverts it as a whole, so that what
  `initialize` has already stored when the token transfer fails, or a child that
  was deployed before its `init` failed, is never seen.
* Storage lifetime (`extend_ttl`) and archival, events, error codes, views
  (`get_fee`, `get_total_deposited`, `get_public_key` and the like).
* Overflow of `i128` in `cpmm_out`, `cpmm_sell_out` and `to_cents`; the `u64`
  sums of `settle` and `cancel` *are* modelled, with `MAX_U64`.
* The encoding of Lazer payloads and the microsecond part of its timestamps.
* The collateral token's allowances, trustlines and clawback, and the Lazer
  verifier's signers: both are external and present as their effect.

## 8. Plan

Done: the exchange, market and perpetual; vault and wallets with their
compositions; `Escrow` and the refinements; the theorems of section 6, which
cover every safety property. Next:

1. That the vault of `VaultedMarkets` implements an abstract account of capital
   that only its admin lowers.
2. A bound on how far a given number of trades can lower `total_supply` below
   `initial_liquidity` (section 5), from `TradeRoundingBounded`, and with it how
   many trades `FeeCovered` takes to fail.
3. `VaultCollects` and `HoldersPaid` reduced to a measure that every fair step
   lowers, so that only the temporal step is left to TLC.
