---------------------------- MODULE MCPerpetual ----------------------------
(***************************************************************************)
(* Instances of Perpetual for TLC.  Address 1 deploys it and is its admin, *)
(* address N its treasury; every address trades.  The freshness window is  *)
(* one second instead of 300.                                              *)
(***************************************************************************)
EXTENDS Perpetual

Leg(max_staleness_secs, tolerance_bps) ==
    [max_staleness_secs |-> max_staleness_secs, tolerance_bps |-> tolerance_bps]

BothLegs(leg) == [l \in Legs |-> leg]

Config(liquidity, legs) ==
    [admin |-> 1, treasury |-> N, base_fee_bps |-> 1000, min_fee_bps |-> 500,
     initial_liquidity |-> liquidity, feed_id |-> 1, legs |-> legs]

\* An update that names feed 1 only.
Update(price, exponent, timestamp) ==
    [signed |-> TRUE,
     feeds |-> [id \in {1} |-> [price |-> price, exponent |-> exponent,
                                timestamp |-> timestamp]]]

Quoting(price, timestamp, decimals) ==
    [price |-> {[price |-> price, timestamp |-> timestamp]},
     decimals |-> decimals, resolution |-> 1]

-----------------------------------------------------------------------------
\* Trading, checkpoints, transfers and redemptions around a wind-down that may come
\* at any time or never.  A pool of 3 is the smallest in which both a purchase and
\* a sale of 1 pass the depth check.

TradeConfigs == {Config(3, BothLegs(Leg(9, 600)))}

TradeFunds == [a \in Addr |-> IF a = 1 THEN 5 ELSE 4]

TradeMinimums == {-1, 0}

TradePayloads == {Update(19, -2, 0)}

TradeFeeds == {[leg \in Legs |-> Quoting(20, 0, 2)]}

-----------------------------------------------------------------------------
\* Checkpoints: feeds that publish, fall silent and change precision, updates
\* of every age, and arguments that initialize must refuse.

Accepted == Config(1, BothLegs(Leg(1, 400)))

CheckpointConfigs ==
    {Accepted,
     Config(1, <<>>),
     [Accepted EXCEPT !.feed_id = 0],
     [Accepted EXCEPT !.base_fee_bps = 1001],
     [Accepted EXCEPT !.min_fee_bps = 1000, !.base_fee_bps = 999],
     [Accepted EXCEPT !.initial_liquidity = 0],
     [Accepted EXCEPT !.legs = BothLegs(Leg(0, 400))]}

CheckpointFunds == [a \in Addr |-> 2]

CheckpointPayloads ==
    {Update(26, -2, 0), Update(25, -2, 2), Update(27, -2, 2), Update(259, -3, 4),
     Update(0, -2, 2), Update(26, 0, 1),
     [Update(26, -2, 2) EXCEPT !.signed = FALSE],
     [Update(26, -2, 2) EXCEPT !.feeds = [id \in {7} |-> @[1]]]}

CheckpointFeeds == {[leg \in Legs |-> Quoting(26, 0, 2)],
                    [leg \in Legs |-> IF leg = "reflector" THEN Quoting(259, 0, 3)
                                                           ELSE FreshFeed]}
=============================================================================
