--------------------------- MODULE VaultedMarkets ---------------------------
(***************************************************************************)
(* The vault with two contracts it may be the treasury of, a market and a  *)
(* perpetual.  All three hold the same token and share the ledger's clock  *)
(* and the feeds; nothing else connects them but the vault's calls.  A     *)
(* step is one transaction of one of them.                                 *)
(***************************************************************************)
EXTENDS Vault

CONSTANTS
    MarketConfigs, PerpetualConfigs,
    Amounts, Minimums, Funds, MaxStray,
    Payloads, DeployedFeeds, FeedPrices, FeedTimes, FeedDecimals, FeedResolutions,
    PRICE_FRESHNESS_WINDOW_SECS, MaxTime, MAX_U64, U32_RANGE

VARIABLES
    m_cfg, m_pinned, m_status, m_final_price,
    m_pool, m_total_supply, m_bal, m_held, m_stray,
    p_cfg, p_pinned, p_status, p_last_price_cents, p_last_price_at,
    p_pool, p_total_supply, p_bal, p_held, p_stray,
    now, feed

market == <<m_cfg, m_pinned, m_status, m_final_price,
            m_pool, m_total_supply, m_bal, m_held, m_stray>>
perpetual == <<p_cfg, p_pinned, p_status, p_last_price_cents, p_last_price_at,
               p_pool, p_total_supply, p_bal, p_held, p_stray>>
oracles == <<now, feed>>
own == <<admin, total_deposited>>
vars == <<market, perpetual, oracles, own, wallet>>

M == INSTANCE Market WITH
    Configs <- MarketConfigs,
    cfg <- m_cfg, pinned <- m_pinned, status <- m_status, final_price <- m_final_price,
    pool <- m_pool, total_supply <- m_total_supply, bal <- m_bal,
    held <- m_held, stray <- m_stray

\* Bound: nothing strays into the perpetual.
P == INSTANCE Perpetual WITH
    Configs <- PerpetualConfigs, MaxStray <- 0,
    cfg <- p_cfg, pinned <- p_pinned, status <- p_status,
    last_price_cents <- p_last_price_cents, last_price_at <- p_last_price_at,
    pool <- p_pool, total_supply <- p_total_supply, bal <- p_bal,
    held <- p_held, stray <- p_stray

\* What the two contracts assume of their constants, of the shared ones.
ASSUME VaultedConstants ==
    /\ MarketConfigs \subseteq M!Arguments
    /\ PerpetualConfigs \subseteq P!Arguments
    /\ Amounts \subseteq Int
    /\ Minimums \subseteq Int
    /\ Funds \in [Addr -> Nat]
    /\ MaxStray \in Nat
    /\ MAX_U64 \in Nat \ {0}
    /\ U32_RANGE \in Nat \ {0}
    /\ \A p \in Payloads : M!IsPayload(p)
    /\ DeployedFeeds \subseteq [M!Legs -> M!Feed]
    /\ FeedPrices \subseteq Int
    /\ FeedTimes \subseteq Nat
    /\ FeedDecimals \subseteq Nat
    /\ FeedResolutions \subseteq Nat
    /\ PRICE_FRESHNESS_WINDOW_SECS \in Nat
    /\ MaxTime \in 0..MAX_U64

-----------------------------------------------------------------------------

Init == M!Init /\ P!Init /\ VaultInit

MarketCall ==
    /\ \/ \E c \in MarketConfigs : M!Initialize(c)
       \/ \E user \in Signers : M!CallsBy(user)
       \/ M!OpenCalls
    /\ UNCHANGED <<perpetual, own>>

PerpetualCall ==
    /\ \/ \E c \in PerpetualConfigs : P!Initialize(c)
       \/ \E user \in Signers : P!CallsBy(user)
       \/ P!OpenCalls
    /\ UNCHANGED <<market, own>>

VaultCall ==
    /\ \E user \in Signers :
          \/ InitializeVault(user)
          \/ \E amount \in Amounts :
                \/ Deposit(user, amount)
                \/ \E to \in Addr : Withdraw(user, to, amount)
    /\ UNCHANGED <<market, perpetual, oracles>>

\* withdraw with the address of the market as its recipient: not a seed of the
\* market, just collateral that reaches it outside its calls.
WithdrawToMarket(user, amount) ==
    /\ IsAdmin(user)
    /\ M!SendStray(vault, amount)
    /\ UNCHANGED <<m_cfg, m_pinned, m_status, m_final_price, perpetual, oracles, own>>

\* Fault: the caller's claim is collected instead of the vault's.
RedeemForCaller(user) ==
    /\ IsAdmin(user)
    /\ \/ M!Redeem(user) /\ UNCHANGED perpetual
       \/ P!Redeem(user) /\ UNCHANGED market
    /\ UNCHANGED own

\* redeem_from_market calls redeem, which both contracts have.
RedeemFromMarket(user) ==
    /\ IsAdmin(user)
    /\ \/ M!Redeem(vault) /\ UNCHANGED perpetual
       \/ P!Redeem(vault) /\ UNCHANGED market
    /\ UNCHANGED own

\* Ledgers close and feeds publish for all of them.
Environment ==
    /\ M!Tick \/ \E leg \in M!Legs : M!FeedUpdate(leg)
    /\ UNCHANGED <<perpetual, own>>

\* Anybody may send the token to the vault without depositing it.
Gift(user, amount) ==
    /\ amount > 0
    /\ wallet[user] >= amount
    /\ wallet' = sent(user, vault, amount)
    /\ UNCHANGED <<market, perpetual, oracles, own>>

Next ==
    \/ MarketCall
    \/ PerpetualCall
    \/ VaultCall
    \/ \E user \in Signers :
          \/ RedeemFromMarket(user)
          \/ \E amount \in Amounts : WithdrawToMarket(user, amount) \/ Gift(user, amount)
    \/ Environment

Spec == Init /\ [][Next]_vars

(***************************************************************************)
(* Fairness: ledgers close and somebody calls cancel, as for the market;   *)
(* the admin of the vault keeps collecting what a market owes it.          *)
(***************************************************************************)
Fairness ==
    /\ WF_vars(Environment)
    /\ WF_vars(M!Cancel /\ UNCHANGED <<perpetual, own>>)
    /\ \A user \in Signers : WF_vars(RedeemFromMarket(user))

FairSpec == Spec /\ Fairness

-----------------------------------------------------------------------------

\* Every variable stays in its type.
TypeOK ==
    /\ M!TypeOK /\ P!TypeOK
    /\ admin \in Addr \cup {NoAdmin}
    /\ total_deposited \in 0..MaxDeposited

\* Each contract is collateralized on its own, whatever happens in the other and
\* in the vault they share a treasury and a token with: its books balance, its
\* holders can be paid from what it holds itself, and no token appears or
\* vanishes between the three.
CollateralizedApart ==
    /\ M!CollateralHeld /\ M!ClaimsBacked /\ M!RedeemerPayable
    /\ P!CollateralHeld /\ P!ClaimsBacked /\ P!RedeemerPayable
    /\ Total(wallet) + m_held + p_held = Total(Funds)

Lesser(f) == IF f["Yes"] < f["No"] THEN f["Yes"] ELSE f["No"]

\* Whatever the outcome, ending a market leaves its treasury with a claim worth
\* at least the smaller of the reserves: a seed that nobody traded against comes
\* back at par.
SeedStep ==
    /\ (m_status = "Open" /\ m_status' \in M!Final /\ m_cfg.treasury = vault) =>
           M!Payout(m_status', m_bal', vault) >= Lesser(m_pool)
    /\ (p_status = "Open" /\ p_status' = "Terminated" /\ p_cfg.treasury = vault) =>
           P!Half(p_bal'["Yes"][vault], p_bal'["No"][vault]) >= Lesser(p_pool)

SeedRecovered == [][SeedStep]_vars

VaultShares == <<m_bal["Yes"][vault], m_bal["No"][vault],
                 p_bal["Yes"][vault], p_bal["No"][vault]>>

\* The vault's claims fall in one way only: they are paid, in full, into its own
\* purse.  Nobody else moves or spends them.
ClaimsStep ==
    (\E i \in 1..4 : VaultShares'[i] < VaultShares[i]) =>
        wallet'[vault] - wallet[vault] \in
            {M!Payout(m_status, m_bal, vault), P!Payout(vault)} \ {0}

ClaimsBecomeCapital == [][ClaimsStep]_vars

\* A vault with an admin who collects gets its claim on a final market or a
\* terminated perpetual paid, and a market it is the treasury of does become
\* final.
VaultCollects ==
    /\ (m_status = "Open" /\ admin # NoAdmin) ~>
          (m_status \in M!Final /\ M!Payout(m_status, m_bal, vault) = 0)
    /\ (p_status = "Terminated" /\ admin # NoAdmin) ~> P!Payout(vault) = 0
=============================================================================
