------------------------------ MODULE Oracles ------------------------------
(***************************************************************************)
(* What market and perpetual read of the world outside: the ledger time,   *)
(* the SEP-40 feeds, and the Lazer updates anybody may submit.  Also the   *)
(* verification the two contracts share: the checks of a feed when it is   *)
(* configured, the checks of an update, the corroboration of its price.    *)
(***************************************************************************)
EXTENDS CtfMath

CONSTANTS
    Payloads,       \* signed or unsigned oracle updates anybody may submit
    DeployedFeeds,  \* the SEP-40 feeds as the contract finds them
    FeedPrices, FeedTimes, FeedDecimals, FeedResolutions,   \* what may be published
    PRICE_FRESHNESS_WINDOW_SECS,                    \* 300 in the code
    MaxTime         \* bound: the last ledger time explored

Legs == {"reflector", "redstone"}

Feed == [price : SUBSET PriceData, decimals : Nat, resolution : Nat]

\* OracleFeedConfig without the address and the asset it names.
OracleFeedConfig == [max_staleness_secs : Nat, tolerance_bps : Nat]

(***************************************************************************)
(* A Lazer update as verify_update and parsing leave it: whether the       *)
(* verifier accepts it, and for every feed id it mentions the first entry. *)
(* A missing price is a price of 0 (both are InvalidPayload); timestamp is *)
(* in seconds.                                                             *)
(***************************************************************************)
IsPayload(p) ==
    /\ p.signed \in BOOLEAN
    /\ \A id \in DOMAIN p.feeds :
          /\ p.feeds[id].price \in Int
          /\ p.feeds[id].exponent \in Int
          /\ p.feeds[id].timestamp \in Nat

ASSUME OracleConstants ==
    /\ \A p \in Payloads : IsPayload(p)
    /\ DeployedFeeds \subseteq [Legs -> Feed]
    /\ FeedPrices \subseteq Int
    /\ FeedTimes \subseteq Nat
    /\ FeedDecimals \subseteq Nat
    /\ FeedResolutions \subseteq Nat
    /\ PRICE_FRESHNESS_WINDOW_SECS \in Nat
    /\ MaxTime \in 0..MAX_U64

VARIABLES
    now,            \* ledger timestamp
    feed            \* the SEP-40 feeds

oracles == <<now, feed>>

OraclesInit ==
    /\ now = 0
    /\ feed \in DeployedFeeds

OraclesTypeOK ==
    /\ now \in 0..MaxTime
    /\ feed \in [Legs -> Feed]

\* What initialize requires of the feeds it is given.
UsableLegs(legs) ==
    \A leg \in DOMAIN legs :
        /\ legs[leg].max_staleness_secs >= feed[leg].resolution
        /\ feed[leg].decimals \in 2..30

DecimalsAtInit(legs) == [leg \in DOMAIN legs |-> feed[leg].decimals]

\* The early returns between the payload and the corroboration.  reference is
\* the expiry for settle, the ledger time for record_price_checkpoint.
UsableUpdate(payload, feed_id, reference) ==
    /\ payload.signed
    /\ feed_id \in DOMAIN payload.feeds
    /\ LET update == payload.feeds[feed_id]
       IN  /\ update.price > 0
           /\ update.timestamp + PRICE_FRESHNESS_WINDOW_SECS >= reference
           /\ reference + PRICE_FRESHNESS_WINDOW_SECS \in update.timestamp..MAX_U64

\* The reference price in cents of a usable update.
PayloadCents(payload, feed_id) ==
    to_cents(payload.feeds[feed_id].price, payload.feeds[feed_id].exponent)

\* Fault: one agreeing leg is enough.
AnyLegCorroborates(legs, pinned, cents) ==
    \E leg \in DOMAIN legs :
        verify_oracle_corroboration(feed[leg], legs[leg], pinned[leg], now, cents)

\* Unanimous: every configured leg, never a majority.
Corroborated(legs, pinned, cents) ==
    \A leg \in DOMAIN legs :
        verify_oracle_corroboration(feed[leg], legs[leg], pinned[leg], now, cents)

-----------------------------------------------------------------------------
\* The ledger closes; the feeds publish whatever they like, dated as they like.

CloseLedger ==
    /\ now < MaxTime
    /\ now' = now + 1
    /\ UNCHANGED feed

SetFeed(leg, f) ==
    /\ feed' = [feed EXCEPT ![leg] = f]
    /\ UNCHANGED now

Publish(leg) ==
    \/ \E price \in FeedPrices, timestamp \in FeedTimes :
          SetFeed(leg, set_price(feed[leg], price, timestamp))
    \/ SetFeed(leg, set_none(feed[leg]))
    \/ \E d \in FeedDecimals : SetFeed(leg, set_decimals(feed[leg], d))
    \/ \E r \in FeedResolutions : SetFeed(leg, set_resolution(feed[leg], r))

-----------------------------------------------------------------------------

\* What divergence_bps is meant to bound, in the feed's own units: a price of
\* P / 10^decimals dollars is within tolerance of cents, up to the rounding of
\* P to whole cents and of the quotient to whole bps.
AgreesWithin(cents, price, decimals, tolerance_bps) ==
    LET unit == pow10(decimals - 2)
    IN  10000 * (2 * Magnitude(cents * unit - price) - unit)
          < (tolerance_bps + 1) * (2 * Magnitude(price) + unit)

\* Somebody can show a signed update that prices feed_id at cents and is from around
\* the time of reference.
UpdatePriced(feed_id, cents, reference) ==
    \E payload \in Payloads :
        /\ payload.signed /\ feed_id \in DOMAIN payload.feeds
        /\ PayloadCents(payload, feed_id) = cents
        /\ Magnitude(payload.feeds[feed_id].timestamp - reference)
              <= PRICE_FRESHNESS_WINDOW_SECS

\* Every configured feed has a fresh price, at the precision pinned when the
\* contract was initialized, that agrees with cents (a tolerance of 10000 bps
\* or more is no bound: a quote of 0 cents passes).
AllLegsAgree(legs, pinned, cents) ==
    \A leg \in DOMAIN legs : \E latest \in feed[leg].price :
        /\ now - latest.timestamp <= legs[leg].max_staleness_secs
        /\ feed[leg].decimals = pinned[leg]
        /\ legs[leg].tolerance_bps < 10000 =>
              AgreesWithin(cents, latest.price, pinned[leg], legs[leg].tolerance_bps)
=============================================================================
