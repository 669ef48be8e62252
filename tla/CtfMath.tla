------------------------------ MODULE CtfMath ------------------------------
(***************************************************************************)
(* The pure arithmetic of contracts/ctf-math: the constant-product swap,   *)
(* the closed-form sale, the fee curve, the two conversions to cents and   *)
(* the corroboration of a reference price by one SEP-40 feed.              *)
(*                                                                         *)
(* Rust's i128 division truncates towards zero, \div rounds down.  They    *)
(* agree on the non-negative dividends and positive divisors met here;     *)
(* where a caller can leave that range, the definition or the action that  *)
(* uses it says what becomes of the call.  Integers are unbounded, but for *)
(* the one conversion to u32: with stroop amounts below 2^60 no            *)
(* intermediate product reaches 2^127.                                     *)
(***************************************************************************)
EXTENDS Integers, Sep40Feed

CONSTANTS
    MAX_U64,        \* u64::MAX; a u64 sum above it traps
    U32_RANGE       \* 2^32: `as u32' keeps the remainder

ASSUME WidthConstants ==
    /\ MAX_U64 \in Nat \ {0}
    /\ U32_RANGE \in Nat \ {0}

Magnitude(x) == IF x < 0 THEN -x ELSE x

\* What a swap of effective_in shares takes out of reserve_out.
cpmm_out(reserve_in, reserve_out, effective_in) ==
    reserve_out - (reserve_in * reserve_out) \div (reserve_in + effective_in)

(***************************************************************************)
(* Newton's iteration for the integer square root of n.  The loop of the   *)
(* code keeps y = (x + n / x) / 2 beside x; its first y, (n + 1) / 2, is   *)
(* that same expression at x = n.                                          *)
(***************************************************************************)
NewtonStep(n, x) == (x + n \div x) \div 2

isqrt(n) ==
    LET root[x \in 1..n] ==
            IF NewtonStep(n, x) < x THEN root[NewtonStep(n, x)] ELSE x
    IN  IF n < 2 THEN n ELSE root[n]

\* Fault: the swap is merged against itself instead of against what it leaves.
SwapThenMerge(reserve_in, reserve_out, effective_in) ==
    cpmm_out(reserve_in, reserve_out, effective_in)

\* Collateral paid for effective_in shares: the smaller root of
\* (reserve_in + effective_in - x) * (reserve_out - x) = reserve_in * reserve_out.
cpmm_sell_out(reserve_in, reserve_out, effective_in) ==
    LET s == reserve_in + effective_in + reserve_out
        p == effective_in * reserve_out
        disc == s * s - 4 * p
    IN  (s - isqrt(IF disc > 0 THEN disc ELSE 0)) \div 2

apply_fee(amount, fee_bps) == amount - (amount * fee_bps) \div 10000

\* What is left of the spread between the fees.  Defined for total_supply # 0; a
\* supply below 0 makes it negative, truncated towards 0.
decayed(spread, total_supply) ==
    IF total_supply > 0 THEN spread \div total_supply
                        ELSE -(spread \div (-total_supply))

effective_fee_bps(base_fee_bps, min_fee_bps, initial_liquidity, total_supply) ==
    (min_fee_bps
       + decayed((base_fee_bps - min_fee_bps) * initial_liquidity, total_supply))
      % U32_RANGE

\* 10i128.pow(n)
pow10(n) ==
    LET power[i \in 0..n] == IF i = 0 THEN 1 ELSE 10 * power[i - 1]
    IN  power[n]

\* A Lazer price, price * 10^exponent dollars, in whole cents, cut off.
to_cents(price, exponent) ==
    LET e == exponent + 2
    IN  IF e >= 0 THEN price * pow10(e) ELSE price \div pow10(-e)

\* A SEP-40 price, price / 10^decimals dollars, in whole cents, rounded to
\* the nearest (decimals >= 2 is checked by the caller).
reflector_price_to_cents(price, decimals) ==
    LET divisor == pow10(decimals - 2)
        half == divisor \div 2
    IN  IF price >= 0 THEN (price + half) \div divisor
                      ELSE -((half - price) \div divisor)

divergence_bps(reference_cents, cents) ==
    IF cents = 0 THEN 10000
    ELSE (Magnitude(reference_cents - cents) * 10000) \div Magnitude(cents)

(***************************************************************************)
(* verify_oracle_corroboration returns Ok.  leg is the configuration of    *)
(* the feed, expected_decimals what was pinned at initialize and now the   *)
(* ledger time.  Each early return of the code is the negation of one      *)
(* conjunct; the u64 sum traps above MAX_U64.                              *)
(***************************************************************************)
verify_oracle_corroboration(feed, leg, expected_decimals, now, reference_cents) ==
    \E latest \in lastprice(feed) :
        /\ latest.timestamp + leg.max_staleness_secs \in now..MAX_U64
        /\ feed.decimals \in 2..30
        /\ feed.decimals = expected_decimals
        /\ divergence_bps(reference_cents,
                          reflector_price_to_cents(latest.price, feed.decimals))
             <= leg.tolerance_bps
=============================================================================
