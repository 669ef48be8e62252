----------------------------- MODULE Sep40Feed -----------------------------
(***************************************************************************)
(* One SEP-40 price feed, as contracts/mock-redstone stores it.  The real  *)
(* Reflector and RedStone contracts offer the same three reads             *)
(* (lastprice, decimals, resolution); the mock adds the setters through    *)
(* which anyone changes what the reads return.                             *)
(*                                                                         *)
(* A feed is a record.  Option<PriceData> is a set of at most one record,  *)
(* so that "there is a price and it is ..." is a single \E.  The asset     *)
(* argument of lastprice is left out: the mock ignores it, and every       *)
(* caller passes the one asset it was configured with.                     *)
(***************************************************************************)
EXTENDS Integers

DEFAULT_DECIMALS == 8
DEFAULT_RESOLUTION_SECS == 300

PriceData == [price : Int, timestamp : Nat]

\* A feed as deployed: no price yet, every getter at its default.
FreshFeed == [price |-> {}, decimals |-> DEFAULT_DECIMALS,
              resolution |-> DEFAULT_RESOLUTION_SECS]

set_price(feed, price, timestamp) ==
    [feed EXCEPT !.price = {[price |-> price, timestamp |-> timestamp]}]

set_none(feed) == [feed EXCEPT !.price = {}]

set_decimals(feed, decimals) == [feed EXCEPT !.decimals = decimals]

set_resolution(feed, resolution) == [feed EXCEPT !.resolution = resolution]

lastprice(feed) == feed.price
=============================================================================
