------------------------------ MODULE MCVault ------------------------------
(***************************************************************************)
(* An instance of VaultedMarkets for TLC: the vault (address 2) and one    *)
(* other address, which deposits, administers the vault, opens a market    *)
(* and a perpetual with the vault as treasury, and trades.                 *)
(***************************************************************************)
EXTENDS VaultedMarkets

MCLegs == [leg \in {"reflector"} |-> [max_staleness_secs |-> 9, tolerance_bps |-> 600]]

MCMarketConfigs ==
    {[admin |-> 1, treasury |-> vault, strike_price |-> 20, expiry |-> 1,
      grace_period |-> 1, feed_id |-> 1, base_fee_bps |-> 1000, min_fee_bps |-> 500,
      initial_liquidity |-> 3, legs |-> MCLegs]}

MCPerpetualConfigs ==
    {[admin |-> 1, treasury |-> vault, base_fee_bps |-> 1000, min_fee_bps |-> 500,
      initial_liquidity |-> 1, feed_id |-> 1, legs |-> <<>>]}

MCFunds == [a \in Addr |-> IF a = vault THEN 0 ELSE 4]

\* A settlement below the strike.
MCPayloads ==
    {[signed |-> TRUE,
      feeds |-> [id \in {1} |-> [price |-> 19, exponent |-> -2, timestamp |-> 1]]]}

MCFeeds ==
    {[leg \in {"reflector", "redstone"} |->
        [price |-> {[price |-> 20, timestamp |-> 0]}, decimals |-> 2, resolution |-> 1]]}
=============================================================================
