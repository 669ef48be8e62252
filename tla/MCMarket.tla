------------------------------ MODULE MCMarket ------------------------------
(***************************************************************************)
(* Instances of Market for TLC.  Address 1 deploys the market and is its   *)
(* treasury, every address trades.  The fees are at the ceiling, so that   *)
(* amounts from 10 up pay some; the freshness window is one second instead *)
(* of 300.                                                                 *)
(***************************************************************************)
EXTENDS MarketClaims

Leg(max_staleness_secs, tolerance_bps) ==
    [max_staleness_secs |-> max_staleness_secs, tolerance_bps |-> tolerance_bps]

OneLeg(leg) == [l \in {"reflector"} |-> leg]

BothLegs(leg) == [l \in Legs |-> leg]

Config(liquidity, strike, expiry, grace, legs) ==
    [admin |-> 1, treasury |-> 1, strike_price |-> strike, expiry |-> expiry,
     grace_period |-> grace, feed_id |-> 1, base_fee_bps |-> 1000,
     min_fee_bps |-> 500, initial_liquidity |-> liquidity, legs |-> legs]

\* An update that names feed 1 only.
Update(price, exponent, timestamp) ==
    [signed |-> TRUE,
     feeds |-> [id \in {1} |-> [price |-> price, exponent |-> exponent,
                                timestamp |-> timestamp]]]

Quoting(price, timestamp, decimals) ==
    [price |-> {[price |-> price, timestamp |-> timestamp]},
     decimals |-> decimals, resolution |-> 1]

Silent == [price |-> {}, decimals |-> 2, resolution |-> 1]

-----------------------------------------------------------------------------
\* Trading: a pool small enough to be drained, a whole life of the market, an
\* oracle that agrees with both outcomes.

TradeConfigs == {Config(3, 20, 1, 1, OneLeg(Leg(9, 600)))}

TradeAmounts == {-1, 0, 1, 2, 5}

TradeMinimums == {-1, 0}

TradeFunds == [a \in Addr |-> IF a = 1 THEN 4 ELSE 6]

TradePayloads == {Update(19, -2, 1), Update(20, -2, 1)}

TradeFeeds == {[leg \in Legs |-> IF leg = "reflector" THEN Quoting(20, 0, 2)
                                                     ELSE Silent]}

-----------------------------------------------------------------------------
\* Rounding: a deeper pool with amounts large enough that a trade pays a fee; a
\* pool without fees, which would hide what rounding pays; and an amount that
\* would take nearly all of a reserve if the depth check let it.

FeeConfig == Config(20, 20, 1, 1, OneLeg(Leg(9, 600)))

RoundingConfigs ==
    {FeeConfig,
     [FeeConfig EXCEPT !.initial_liquidity = 10, !.base_fee_bps = 0, !.min_fee_bps = 0]}

RoundingFunds == [a \in Addr |-> 60]

-----------------------------------------------------------------------------
(***************************************************************************)
(* Settlement: hardly any trading, but feeds that publish, fall silent and *)
(* change precision, payloads of every kind, and arguments that initialize *)
(* must refuse.  Cents 25 and 26 diverge by 384 bps.                       *)
(***************************************************************************)

Accepted == Config(1, 26, 2, 1, BothLegs(Leg(1, 100)))

SettleConfigs ==
    {Accepted,
     [Accepted EXCEPT !.legs = OneLeg(Leg(2, 400))],
     [Accepted EXCEPT !.strike_price = 0],
     [Accepted EXCEPT !.expiry = 0],
     [Accepted EXCEPT !.grace_period = 0],
     [Accepted EXCEPT !.feed_id = 0],
     [Accepted EXCEPT !.base_fee_bps = 1001],
     [Accepted EXCEPT !.min_fee_bps = 1000, !.base_fee_bps = 999],
     [Accepted EXCEPT !.initial_liquidity = 0],
     [Accepted EXCEPT !.legs = BothLegs(Leg(0, 100))],
     [Accepted EXCEPT !.grace_period = 20]}

SettleFunds == [a \in Addr |-> 2]

SettlePayloads ==
    {Update(26, -2, 2), Update(259, -3, 3), Update(25, -2, 1),
     Update(27, 0, 2), Update(26, -2, 0), Update(26, -2, 4), Update(-26, -2, 2),
     [Update(26, -2, 2) EXCEPT !.signed = FALSE],
     [Update(26, -2, 2) EXCEPT !.feeds = [id \in {7} |-> @[1]]]}

SettleFeeds == {[leg \in Legs |-> Silent],
                [leg \in Legs |-> Quoting(26, 0, 2)],
                [leg \in Legs |-> IF leg = "reflector" THEN Quoting(259, 0, 3)
                                                       ELSE FreshFeed]}

-----------------------------------------------------------------------------
(***************************************************************************)
(* Liveness: a market that may settle, or never hear from its feed again,  *)
(* with trades, splits, transfers and stray collateral going on beside it. *)
(* A pool of 3 is the smallest that a purchase of 1 leaves deep enough.    *)
(***************************************************************************)

LiveConfigs == {Config(3, 20, 1, 1, OneLeg(Leg(9, 600)))}

LiveFunds == [a \in Addr |-> IF a = 1 THEN 4 ELSE 2]

LivePayloads == {Update(19, -2, 1), Update(20, -2, 1)}

LiveFeeds == {[leg \in Legs |-> Quoting(20, 0, 2)]}

-----------------------------------------------------------------------------
\* Agreement: one feed, the tolerance of 150 bps that the tests and README use.

AgreeConfigs == {Config(1, 26, 2, 1, OneLeg(Leg(2, 150)))}

-----------------------------------------------------------------------------
\* Drift: one address trades one unit at a time, while a pair or two of its own keep
\* the supply up, until the reserves are a twentieth of the seed; and minimums that
\* refuse nothing.

DriftConfigs ==
    {[Config(40, 20, 1, 1, OneLeg(Leg(9, 600))) EXCEPT !.min_fee_bps = 0]}

DriftMinimums == {-2, 0}

DriftFunds == [a \in Addr |-> 44]
=============================================================================
