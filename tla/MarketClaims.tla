---------------------------- MODULE MarketClaims ----------------------------
(***************************************************************************)
(* What comments and tests of the repository say of the market and TLC     *)
(* finds the code not to do.  Each definition quotes its sentence.         *)
(***************************************************************************)
EXTENDS Market

\* market/src/lib.rs:194: "immutable reference scale for the fee curve;
\* total_supply >= this always, pre-resolution".  The fee stays at or below
\* base_fee_bps only because of it (ctf-math/src/lib.rs:80-85).
SupplyCoversLiquidity == IsOpen => total_supply >= cfg.initial_liquidity

\* market/src/lib.rs:29-31: "Because every share is minted as a matched YES+NO pair,
\* the contract can never be short of collateral to pay winners".  The shares of a
\* side that the pool and the holders have would be as many as pairs were minted.
SharesArePairs ==
    IsOpen =>
        \A side \in Prediction :
            LET owned == [a \in Addr |-> IF bal[side][a] > 0 THEN bal[side][a] ELSE 0]
            IN  pool[side] + Total(owned) = total_supply

\* market/src/lib.rs:751-753: "the only per-holder formula where summing every
\* payout is *guaranteed* to equal total_supply exactly".  Once nobody has
\* anything left to redeem, nothing would be left locked.
CancelPaysExactly ==
    (status = "Cancelled" /\ \A user \in Addr : Payout(status, bal, user) = 0)
        => total_supply = 0

\* The feed of this leg is up to date, at the pinned precision, and quotes the
\* very price of the update, to the last digit.
QuotesSamePrice(leg, update) ==
    \E latest \in lastprice(feed[leg]) :
        /\ latest.timestamp = now
        /\ feed[leg].decimals = pinned[leg]
        /\ update.exponent + pinned[leg] >= 0
        /\ latest.price = update.price * pow10(update.exponent + pinned[leg])

\* market/src/test.rs:694-696: "a real but small cross-path discrepancy ... must
\* not block a healthy settlement"; ctf-math/src/lib.rs:107-109: "a floor bias
\* would skew every divergence comparison in one direction".  At least sources
\* that do not differ at all would have to corroborate each other.
AgreementSettles ==
    \A payload \in Payloads :
        ( /\ IsOpen
          /\ now >= cfg.expiry
          /\ UsableUpdate(payload, cfg.feed_id, cfg.expiry)
          /\ \A leg \in DOMAIN cfg.legs :
                QuotesSamePrice(leg, payload.feeds[cfg.feed_id]) )
            => Corroborated(cfg.legs, pinned, PayloadCents(payload, cfg.feed_id))
=============================================================================
