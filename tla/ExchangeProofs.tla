--------------------------- MODULE ExchangeProofs ---------------------------
(***************************************************************************)
(* What each step of the exchange and of the oracles preserves, whatever   *)
(* contract takes it: the books of both market contracts, and what their   *)
(* corroborated prices mean, follow from these lemmas.                     *)
(***************************************************************************)
EXTENDS Exchange, Oracles, CtfMathProofs

\* The types, of which the code keeps a balance and the supply from falling below 0
\* only while no purchase costs shares.
ExchangeTyped ==
    /\ pool \in [Prediction -> Nat]
    /\ total_supply \in Int
    /\ bal \in Signed
    /\ wallet \in [Addr -> Nat]
    /\ held \in Nat
    /\ stray \in 0..MaxStray

NoneOverdrawn == bal \in Ledgers

\* What holds in every status.
Books == ExchangeTyped /\ CollateralHeld

\* What holds besides while there is a pool.
Pooled == SidesBalanced /\ ReservesPositive

\* The part of a configuration that determines the fee, as initialize accepts it.
FeeTerms(c) ==
    /\ c.base_fee_bps \in Nat
    /\ c.min_fee_bps \in Nat
    /\ c.initial_liquidity \in Nat
    /\ UsableTerms(c)

\* A purchase cannot cost shares: nobody asks for less than none, or the fee is no
\* more than the amount it is taken from.
NoLossAccepted(c) == Minimums \subseteq Nat \/ CurrentFee(c) <= 10000

\* The typing facts about balances, in a form the leaves can use.
LEMMA Balances ==
    ASSUME ExchangeTyped
    PROVE  /\ bal \in Signed
           /\ \A side \in Prediction : Total(bal[side]) \in Int
           /\ \A side \in Prediction, a \in Addr : bal[side][a] \in Int
           /\ held \in Nat /\ stray \in Int /\ total_supply \in Int
BY SignedBalances, ExchangeConstants DEF ExchangeTyped

LEMMA OwnBalances ==
    ASSUME NoneOverdrawn
    PROVE  /\ bal \in Signed
           /\ \A side \in Prediction : Total(bal[side]) \in Nat
           /\ \A side \in Prediction, a \in Addr :
                 bal[side][a] \in Nat /\ bal[side][a] <= Total(bal[side])
BY LedgerBalances, NotOverdrawn DEF NoneOverdrawn

\* What an open contract knows of its reserves.
LEMMA OpenPool ==
    ASSUME ExchangeTyped, Pooled
    PROVE  \A side \in Prediction :
              /\ pool[side] \in Nat \ {0}
              /\ pool[side] + Total(bal[side]) = total_supply
BY Balances DEF ExchangeTyped, Pooled, SidesBalanced, ReservesPositive

\* Without overdrawn balances the supply is at least a reserve.
LEMMA PoolCovered ==
    ASSUME ExchangeTyped, Pooled, NoneOverdrawn
    PROVE  /\ \A side \in Prediction : pool[side] <= total_supply
           /\ total_supply \in Nat \ {0}
<1>1. \A side \in Prediction :
          /\ pool[side] \in Nat \ {0}
          /\ pool[side] + Total(bal[side]) = total_supply
          /\ Total(bal[side]) \in Nat
    BY OpenPool, OwnBalances
<1>2. total_supply \in Int /\ "Yes" \in Prediction
    BY Balances DEF Prediction
<1> QED
    BY <1>1, <1>2

\* Addresses start with Funds and nothing is locked.
LEMMA InitialBooks ==
    ASSUME ExchangeInit
    PROVE  Books /\ NoneOverdrawn /\ total_supply = 0 /\ bal = NoShares
<1>1. bal \in Ledgers
    BY DEF ExchangeInit, NoShares, Ledgers
<1>2. pool \in [Prediction -> Nat] /\ bal \in Signed
    BY <1>1, NotOverdrawn DEF ExchangeInit
<1> QED
    BY <1>1, <1>2, ExchangeConstants
    DEF ExchangeInit, Books, ExchangeTyped, CollateralHeld, NoneOverdrawn

\* initialize seeds both reserves with the collateral it takes.
LEMMA SeedStep ==
    ASSUME Books, total_supply = 0, bal = NoShares,
           NEW admin \in Addr, NEW liquidity \in Nat \ {0}, Seed(admin, liquidity)
    PROVE  Books' /\ Pooled'
<1>1. wallet' \in [Addr -> Nat] /\ held' = held + liquidity /\ held' \in Nat
    BY DEF Seed, PayIn, Books, ExchangeTyped
<1>2. total_supply' = liquidity /\ pool' = [side \in Prediction |-> liquidity]
        /\ UNCHANGED <<bal, stray>>
    BY DEF Seed
<1>3. pool' \in [Prediction -> Nat]
    BY <1>2
<1>4. \A side \in Prediction : Total(bal'[side]) = 0
    BY <1>2, TotalZero DEF NoShares
<1>5. held = stray /\ stray \in Int
    BY Balances DEF Books, CollateralHeld
<1> QED
    BY <1>1, <1>2, <1>3, <1>4, <1>5
    DEF Books, ExchangeTyped, CollateralHeld, Pooled, SidesBalanced, ReservesPositive

\* A split credits the matched pair it locks the collateral of.
LEMMA MintStep ==
    ASSUME Books, Pooled, NEW user \in Addr, NEW amount \in Amounts, MintPairs(user, amount)
    PROVE  /\ Books' /\ Pooled'
           /\ amount \in Nat
           /\ \A side \in Prediction : Total(bal'[side]) = Total(bal[side]) + amount
<1> DEFINE mid == credit(bal, "Yes", user, amount)
<1> USE DEF Books
<1>1. amount \in Nat \ {0} /\ "Yes" \in Prediction /\ "No" \in Prediction
    BY ExchangeConstants DEF MintPairs, Prediction
<1>2. mid \in Signed /\ Total(mid["Yes"]) = Total(bal["Yes"]) + amount
        /\ mid["No"] = bal["No"]
    BY <1>1, Balances, CreditLedger
<1>3. bal' \in Signed /\ Total(bal'["No"]) = Total(mid["No"]) + amount
        /\ bal'["Yes"] = mid["Yes"]
    <2> HIDE DEF mid
    <2>2. bal' = credit(mid, "No", user, amount)
        BY DEF MintPairs, mid
    <2> QED  BY <1>1, <1>2, <2>2, CreditLedger
<1> HIDE DEF mid
<1>4. \A side \in Prediction : Total(bal'[side]) = Total(bal[side]) + amount
    BY <1>2, <1>3 DEF Prediction
<1>5. wallet' \in [Addr -> Nat] /\ held' = held + amount
        /\ total_supply' = total_supply + amount /\ UNCHANGED <<pool, stray>>
    BY <1>1 DEF MintPairs, PayIn, ExchangeTyped
<1>6. ExchangeTyped'
    BY <1>1, <1>3, <1>5, Balances DEF ExchangeTyped
<1>7. CollateralHeld'
    BY <1>1, <1>5, Balances DEF CollateralHeld
<1>8. Pooled'
    BY <1>1, <1>4, <1>5, Balances, OpenPool DEF Pooled, SidesBalanced, ReservesPositive
<1> QED
    BY <1>1, <1>4, <1>6, <1>7, <1>8

\* A merge burns the matched pair it releases the collateral of.
LEMMA BurnStep ==
    ASSUME Books, Pooled, NEW user \in Addr, NEW amount \in Amounts, BurnPairs(user, amount)
    PROVE  /\ Books' /\ Pooled'
           /\ amount \in Nat
           /\ \A side \in Prediction : Total(bal'[side]) = Total(bal[side]) - amount
<1> DEFINE mid == debit(bal, "Yes", user, amount)
<1> USE DEF Books
<1>1. amount \in Nat \ {0} /\ "Yes" \in Prediction /\ "No" \in Prediction
    BY ExchangeConstants DEF BurnPairs, Prediction
<1>2. mid \in Signed /\ Total(mid["Yes"]) = Total(bal["Yes"]) - amount
        /\ mid["No"] = bal["No"]
    BY <1>1, Balances, DebitLedger
<1>3. bal' \in Signed /\ Total(bal'["No"]) = Total(mid["No"]) - amount
        /\ bal'["Yes"] = mid["Yes"]
    <2> HIDE DEF mid
    <2>2. bal' = debit(mid, "No", user, amount)
        BY DEF BurnPairs, mid
    <2> QED  BY <1>1, <1>2, <2>2, DebitLedger
<1> HIDE DEF mid
<1>5. \A side \in Prediction : Total(bal'[side]) = Total(bal[side]) - amount
    BY <1>2, <1>3 DEF Prediction
<1>6. wallet' \in [Addr -> Nat] /\ held' = held - amount /\ held' \in Nat
        /\ total_supply' = total_supply - amount /\ UNCHANGED <<pool, stray>>
    BY <1>1 DEF BurnPairs, PayOut, ExchangeTyped
<1>7. ExchangeTyped'
    BY <1>1, <1>3, <1>6, Balances DEF ExchangeTyped
<1>8. CollateralHeld'
    BY <1>1, <1>6, Balances DEF CollateralHeld
<1>9. Pooled'
    BY <1>1, <1>5, <1>6, Balances, OpenPool DEF Pooled, SidesBalanced, ReservesPositive
<1> QED
    BY <1>1, <1>5, <1>7, <1>8, <1>9

\* The effective amount of a trade never exceeds the amount.
LEMMA TradeAmount ==
    ASSUME Books, total_supply # 0, NEW c, FeeTerms(c), NEW amount \in Nat
    PROVE  /\ apply_fee(amount, CurrentFee(c)) \in Int
           /\ apply_fee(amount, CurrentFee(c)) <= amount
<1>1. total_supply \in Int \ {0}
    BY Balances DEF Books
<1> QED
    BY <1>1, FeeOnlyTakes DEF CurrentFee, FeeTerms

\* A purchase pays its bonus out of the reserve of the wanted side, and the
\* depth check leaves that reserve more than half of what it was.
LEMMA SwapInStep ==
    ASSUME Books, Pooled, NEW c, FeeTerms(c),
           NEW user \in Addr, NEW side \in Prediction, NEW amount \in Amounts,
           NEW min_shares_out \in Minimums,
           SwapIn(user, side, amount, min_shares_out, CurrentFee(c))
    PROVE  Books' /\ Pooled' /\ ProductKept
<1> DEFINE unwanted == other(side)
           eff == apply_fee(amount, CurrentFee(c))
           out == cpmm_out(pool[unwanted], pool[side], eff)
<1> USE DEF Books
<1>1. amount \in Nat \ {0}
    BY ExchangeConstants DEF SwapIn
<1>2. unwanted \in Prediction /\ unwanted # side /\ Prediction = {side, unwanted}
    BY DEF other, Prediction
<1>3. /\ pool[unwanted] + eff > 0
      /\ ~ DepthExceeded(out, pool[side])
      /\ total_supply # 0
      /\ PayIn(user, amount)
      /\ bal' = credit(bal, side, user, amount + out)
      /\ total_supply' = total_supply + amount
      /\ pool' = [pool EXCEPT ![unwanted] = @ + amount, ![side] = @ - out]
      /\ UNCHANGED stray
    BY DEF SwapIn
<1>4. eff \in Int /\ eff <= amount
    BY <1>1, <1>3, TradeAmount
<1>5. pool[side] \in Nat \ {0} /\ pool[unwanted] \in Nat \ {0}
    BY <1>2, OpenPool
<1> HIDE DEF eff, unwanted
<1>6. out \in Int
    BY <1>3, <1>4, <1>5, SwapRounding
<1>r. /\ out <= pool[side]
      /\ pool[unwanted] * pool[side] < (pool[unwanted] + eff) * (pool[side] - out + 1)
    BY <1>3, <1>4, <1>5, SwapRounding
<1> HIDE DEF out
<1>7. /\ bal' \in Signed
      /\ Total(bal'[side]) = Total(bal[side]) + (amount + out)
      /\ bal'[unwanted] = bal[unwanted]
    <2> DEFINE got == amount + out
    <2>1. got \in Int /\ bal \in Signed /\ bal' = credit(bal, side, user, got)
        BY <1>1, <1>3, <1>6, Balances
    <2> HIDE DEF got
    <2>2. /\ bal' \in Signed
          /\ Total(bal'[side]) = Total(bal[side]) + got
          /\ \A s \in Prediction \ {side} : bal'[s] = bal[s]
        BY <2>1, CreditLedger
    <2> QED  BY <1>2, <2>2 DEF got
<1>8. /\ pool' \in [Prediction -> Nat]
      /\ pool'[side] = pool[side] - out /\ pool'[side] > 0
      /\ pool'[unwanted] = pool[unwanted] + amount /\ pool'[unwanted] > 0
    <2>1. pool \in [Prediction -> Nat]
        BY DEF ExchangeTyped
    <2>2. pool'[side] = pool[side] - out /\ pool'[unwanted] = pool[unwanted] + amount
        BY <1>2, <1>3, <2>1
    <2>3. out * 2 < pool[side]
        BY <1>3, <1>5, <1>6 DEF DepthExceeded
    <2>4. pool[side] - out \in Nat \ {0} /\ pool[unwanted] + amount \in Nat \ {0}
        BY <1>1, <1>5, <1>6, <2>3
    <2>5. pool' \in [Prediction -> Nat]
        BY <1>2, <1>3, <2>1, <2>4
    <2> QED  BY <2>2, <2>4, <2>5
<1>9. wallet' \in [Addr -> Nat] /\ held' = held + amount
    BY <1>1, <1>3 DEF PayIn, ExchangeTyped
<1>10. ExchangeTyped'
    BY <1>1, <1>3, <1>7, <1>8, <1>9, Balances DEF ExchangeTyped
<1>11. CollateralHeld'
    BY <1>1, <1>3, <1>9, Balances DEF CollateralHeld
<1>12. Pooled'
    <2>1. pool'[side] + Total(bal'[side]) = total_supply'
        BY <1>1, <1>3, <1>6, <1>7, <1>8, Balances, OpenPool
    <2>2. pool'[unwanted] + Total(bal'[unwanted]) = total_supply'
        BY <1>1, <1>2, <1>3, <1>7, <1>8, Balances, OpenPool
    <2> QED  BY <1>2, <1>8, <2>1, <2>2 DEF Pooled, SidesBalanced, ReservesPositive
<1>13. ProductKept
    <2> DEFINE v == pool[side] - out + 1
               u == pool[unwanted] + eff
               w == pool'[unwanted] + 1
    <2>1. v \in Nat /\ u \in Int /\ w \in Int /\ u <= w
        BY <1>1, <1>4, <1>5, <1>6, <1>8, <1>r
    <2>2. u * v <= w * v
        <3> HIDE DEF u, v, w
        <3> QED  BY <2>1
    <2>3. pool[unwanted] * pool[side] < w * v
        <3>1. pool[unwanted] * pool[side] < u * v /\ pool[unwanted] * pool[side] \in Int
            BY <1>5, <1>r
        <3>2. u * v \in Int /\ w * v \in Int
            BY <2>1
        <3> HIDE DEF u, v, w
        <3> QED  BY <2>2, <3>1, <3>2
    <2>4. v = pool'[side] + 1
        BY <1>8
    <2>5. pool[unwanted] * pool[side] < (pool'[unwanted] + 1) * (pool'[side] + 1)
        BY <2>3, <2>4
    <2> QED  BY <1>2, <1>5, <1>8, <2>5 DEF ProductKept, Prediction
<1> QED
    BY <1>10, <1>11, <1>12, <1>13

\* A sale takes its payout from both reserves.  The depth check keeps the
\* opposite one; what keeps the other is that the payout is the smaller root.
LEMMA SwapOutStep ==
    ASSUME Books, Pooled, NEW c, FeeTerms(c),
           NEW user \in Addr, NEW side \in Prediction, NEW shares_in \in Amounts,
           NEW min_out \in Minimums,
           SwapOut(user, side, shares_in, min_out, CurrentFee(c))
    PROVE  Books' /\ Pooled' /\ ProductKept
<1> DEFINE opposite == other(side)
           eff == apply_fee(shares_in, CurrentFee(c))
           out == cpmm_sell_out(pool[side], pool[opposite], eff)
<1> USE DEF Books
<1>1. shares_in \in Nat \ {0}
    BY ExchangeConstants DEF SwapOut
<1>2. opposite \in Prediction /\ opposite # side /\ Prediction = {side, opposite}
    BY DEF other, Prediction
<1>3. /\ total_supply # 0
      /\ ~ DepthExceeded(out, pool[opposite])
      /\ out > 0
      /\ PayOut(user, out)
      /\ bal' = debit(bal, side, user, shares_in)
      /\ total_supply' = total_supply - out
      /\ pool' = [pool EXCEPT ![side] = @ + shares_in - out, ![opposite] = @ - out]
      /\ UNCHANGED stray
    BY DEF SwapOut
<1>4. eff \in Int /\ eff <= shares_in
    BY <1>1, <1>3, TradeAmount
<1>5. pool[side] \in Nat \ {0} /\ pool[opposite] \in Nat \ {0}
    BY <1>2, OpenPool
<1> HIDE DEF eff, opposite
<1>6. out \in Nat \ {0}
    <2>1. out \in Int
        BY <1>4, <1>5, SellOutRoot
    <2> HIDE DEF out
    <2> QED  BY <1>3, <2>1
<1>7. eff \in Nat \ {0}
    <2>1. eff <= 0 => out <= 0
        BY <1>4, <1>5, SellOutNeedsShares
    <2> HIDE DEF out
    <2> QED  BY <1>4, <1>6, <2>1
<1>8. out < pool[side] + eff
    BY <1>5, <1>7, SellOutLeavesReserve
<1>r. pool[side] * pool[opposite] < (pool[side] + eff - out + 1) * (pool[opposite] - out + 1)
    BY <1>4, <1>5, SaleRounding
<1> HIDE DEF out
<1>9. /\ bal' \in Signed
      /\ Total(bal'[side]) = Total(bal[side]) - shares_in
      /\ bal'[opposite] = bal[opposite]
    <2>1. bal \in Signed
        BY Balances
    <2>2. /\ bal' \in Signed
          /\ Total(bal'[side]) = Total(bal[side]) - shares_in
          /\ \A s \in Prediction \ {side} : bal'[s] = bal[s]
        BY <1>1, <1>3, <2>1, DebitLedger
    <2> QED  BY <1>2, <2>2
<1>10. /\ pool' \in [Prediction -> Nat]
       /\ pool'[side] = pool[side] + shares_in - out /\ pool'[side] > 0
       /\ pool'[opposite] = pool[opposite] - out /\ pool'[opposite] > 0
    <2>1. pool \in [Prediction -> Nat]
        BY DEF ExchangeTyped
    <2>2. pool'[side] = pool[side] + shares_in - out /\ pool'[opposite] = pool[opposite] - out
        BY <1>2, <1>3, <2>1
    <2>3. out * 2 < pool[opposite]
        BY <1>3, <1>5, <1>6 DEF DepthExceeded
    <2>4. pool[side] + shares_in - out \in Nat \ {0} /\ pool[opposite] - out \in Nat \ {0}
        BY <1>1, <1>4, <1>5, <1>6, <1>8, <2>3
    <2>5. pool' \in [Prediction -> Nat]
        BY <1>2, <1>3, <2>1, <2>4
    <2> QED  BY <2>2, <2>4, <2>5
<1>11. wallet' \in [Addr -> Nat] /\ held' = held - out /\ held' \in Nat
    BY <1>3, <1>6 DEF PayOut, ExchangeTyped
<1>12. total_supply' \in Int
    BY <1>3, <1>6, Balances
<1>13. ExchangeTyped'
    BY <1>3, <1>9, <1>10, <1>11, <1>12 DEF ExchangeTyped
<1>14. CollateralHeld'
    BY <1>3, <1>6, <1>11, Balances DEF CollateralHeld
<1>15. Pooled'
    <2>1. pool'[side] + Total(bal'[side]) = total_supply'
        BY <1>1, <1>3, <1>6, <1>9, <1>10, Balances, OpenPool
    <2>2. pool'[opposite] + Total(bal'[opposite]) = total_supply'
        BY <1>1, <1>2, <1>3, <1>6, <1>9, <1>10, Balances, OpenPool
    <2> QED  BY <1>2, <1>10, <2>1, <2>2 DEF Pooled, SidesBalanced, ReservesPositive
<1>16. ProductKept
    <2> DEFINE v == pool[opposite] - out + 1
               u == pool[side] + eff - out + 1
               w == pool'[side] + 1
    <2>1. v \in Int /\ v >= 0 /\ u \in Int /\ w \in Int /\ u <= w
        <3>1. out < pool[opposite]
            BY <1>5, <1>6, <1>10
        <3> QED  BY <1>1, <1>4, <1>5, <1>6, <1>10, <3>1
    <2>2. u * v <= w * v
        <3> HIDE DEF u, v, w
        <3> QED  BY <2>1
    <2>3. pool[side] * pool[opposite] < w * v
        <3>1. pool[side] * pool[opposite] < u * v /\ pool[side] * pool[opposite] \in Int
            BY <1>5, <1>r
        <3>2. u * v \in Int /\ w * v \in Int
            BY <2>1
        <3> HIDE DEF u, v, w
        <3> QED  BY <2>2, <3>1, <3>2
    <2>4. v = pool'[opposite] + 1
        BY <1>10
    <2>5. pool[side] * pool[opposite] < (pool'[side] + 1) * (pool'[opposite] + 1)
        BY <2>3, <2>4
    <2> QED  BY <1>2, <1>5, <1>10, <2>5 DEF ProductKept, Prediction
<1> QED
    BY <1>13, <1>14, <1>15, <1>16

\* A transfer moves shares of one side; every total stays.
LEMMA MoveStep ==
    ASSUME Books, NEW from \in Addr, NEW to \in Addr, NEW side \in Prediction,
           NEW amount \in Amounts, MoveShares(from, to, side, amount)
    PROVE  /\ Books'
           /\ UNCHANGED <<pool, total_supply>>
           /\ \A s \in Prediction : Total(bal'[s]) = Total(bal[s])
<1> DEFINE mid == debit(bal, side, from, amount)
<1> USE DEF Books
<1>1. amount \in Nat \ {0}
    BY ExchangeConstants DEF MoveShares
<1>2. /\ mid \in Signed
      /\ Total(mid[side]) = Total(bal[side]) - amount
      /\ \A s \in Prediction \ {side} : mid[s] = bal[s]
    <2>1. bal \in Signed
        BY Balances
    <2> QED  BY <1>1, <2>1, DebitLedger
<1>3. /\ bal' \in Signed
      /\ Total(bal'[side]) = Total(mid[side]) + amount
      /\ \A s \in Prediction \ {side} : bal'[s] = mid[s]
    <2> HIDE DEF mid
    <2>2. bal' = credit(mid, side, to, amount)
        BY DEF MoveShares, mid
    <2> QED  BY <1>1, <1>2, <2>2, CreditLedger
<1> HIDE DEF mid
<1>4. \A s \in Prediction : Total(bal'[s]) = Total(bal[s])
    BY <1>1, <1>2, <1>3, Balances
<1>5. UNCHANGED <<pool, total_supply, wallet, held, stray>>
    BY DEF MoveShares
<1> QED
    BY <1>3, <1>4, <1>5 DEF ExchangeTyped, CollateralHeld

\* Turning the reserves into shares of the treasury makes either side alone
\* amount to total_supply, and both together to twice that.
LEMMA TreasuryStep ==
    ASSUME Books, Pooled, NEW treasury \in Addr, PoolToTreasury(treasury)
    PROVE  /\ Books' /\ HalvesBacked'
           /\ \A side \in Prediction : Total(bal'[side]) = total_supply'
<1> DEFINE mid == credit(bal, "Yes", treasury, pool["Yes"])
<1> USE DEF Books
<1>1. "Yes" \in Prediction /\ "No" \in Prediction \ {"Yes"}
    BY DEF Prediction
<1>2. \A side \in Prediction : pool[side] \in Nat
    BY OpenPool
<1>3. mid \in Signed /\ Total(mid["Yes"]) = Total(bal["Yes"]) + pool["Yes"]
        /\ mid["No"] = bal["No"]
    <2>1. pool["Yes"] \in Int
        BY <1>1, <1>2
    <2>2. bal \in Signed
        BY Balances
    <2> QED  BY <1>1, <2>1, <2>2, CreditLedger
<1>4. bal' \in Signed /\ Total(bal'["No"]) = Total(mid["No"]) + pool["No"]
        /\ bal'["Yes"] = mid["Yes"]
    <2> HIDE DEF mid
    <2>2. bal' = credit(mid, "No", treasury, pool["No"])
        BY DEF PoolToTreasury, mid
    <2> QED  BY <1>1, <1>2, <1>3, <2>2, CreditLedger
<1> HIDE DEF mid
<1>5. \A side \in Prediction : Total(bal'[side]) = total_supply
    BY <1>2, <1>3, <1>4, Balances, OpenPool DEF Prediction
<1>6. pool' = [side \in Prediction |-> 0] /\ UNCHANGED <<total_supply, wallet, held, stray>>
    BY DEF PoolToTreasury
<1>7. pool' \in [Prediction -> Nat]
    BY <1>6
<1>8. ExchangeTyped' /\ CollateralHeld'
    BY <1>4, <1>6, <1>7 DEF ExchangeTyped, CollateralHeld
<1>9. HalvesBacked'
    BY <1>1, <1>5, <1>6, Balances DEF HalvesBacked
<1> QED
    BY <1>5, <1>6, <1>8, <1>9

\* Half of one address's shares is part of half of all shares.
LEMMA HalfPayable ==
    ASSUME ExchangeTyped, NoneOverdrawn, HalvesBacked, NEW user \in Addr
    PROVE  LET half == Half(bal["Yes"][user], bal["No"][user])
           IN  half \in Nat /\ half <= total_supply
<1> DEFINE by == bal["Yes"][user]
           bn == bal["No"][user]
<1>1. /\ by \in Nat /\ by <= Total(bal["Yes"]) /\ Total(bal["Yes"]) \in Nat
      /\ bn \in Nat /\ bn <= Total(bal["No"]) /\ Total(bal["No"]) \in Nat
      /\ total_supply \in Int
    BY Balances, OwnBalances DEF Prediction
<1>2. Half(by, bn) = (by + bn) \div 2
    BY DEF Half
<1> HIDE DEF by, bn
<1>3. by + bn <= 2 * total_supply
    BY <1>1 DEF HalvesBacked
<1>4. Half(by, bn) \in Nat /\ Half(by, bn) <= total_supply
    BY <1>1, <1>2, <1>3
<1> QED
    BY <1>4 DEF by, bn

\* A payout keeps the books, and removes the holdings of one address from both
\* totals.
LEMMA PayStep ==
    ASSUME Books, NEW user \in Addr, NEW payout \in Int, PayClaim(user, payout)
    PROVE  /\ Books'
           /\ total_supply' = total_supply - payout
           /\ \A side \in Prediction :
                 Total(bal'[side]) = Total(bal[side]) - bal[side][user]
<1> USE DEF Books
<1>1. /\ PayOut(user, payout) /\ payout > 0
      /\ total_supply' = total_supply - payout
      /\ bal' = clear(bal, user)
      /\ UNCHANGED <<pool, stray>>
    BY DEF PayClaim
<1>2. /\ bal' \in Signed
      /\ \A side \in Prediction : Total(bal'[side]) = Total(bal[side]) - bal[side][user]
    BY <1>1, Balances, ClearLedger DEF Prediction
<1>3. wallet' \in [Addr -> Nat] /\ held' = held - payout /\ held' \in Nat
    BY <1>1 DEF PayOut, ExchangeTyped
<1>4. ExchangeTyped'
    BY <1>1, <1>2, <1>3, Balances DEF ExchangeTyped
<1>5. CollateralHeld'
    BY <1>1, <1>3, Balances DEF CollateralHeld
<1> QED
    BY <1>1, <1>2, <1>4, <1>5

\* Where nobody is overdrawn, a payout makes every claim smaller.
LEMMA PayShrinks ==
    ASSUME Books, NoneOverdrawn, NEW user \in Addr, NEW payout \in Int,
           PayClaim(user, payout)
    PROVE  ClaimsShrink
<1>1. /\ total_supply' = total_supply - payout /\ payout > 0
      /\ \A side \in Prediction :
            Total(bal'[side]) = Total(bal[side]) - bal[side][user]
    BY PayStep DEF PayClaim
<1>2. /\ total_supply \in Int
      /\ \A side \in Prediction : Total(bal[side]) \in Nat /\ bal[side][user] \in Nat
    BY Balances, OwnBalances DEF Books
<1> QED
    BY <1>1, <1>2 DEF ClaimsShrink

\* Paying half keeps the remaining halves backed.
LEMMA HalfPaid ==
    ASSUME Books, HalvesBacked, NEW user \in Addr,
           PayClaim(user, Half(bal["Yes"][user], bal["No"][user]))
    PROVE  Books' /\ HalvesBacked'
<1> DEFINE by == bal["Yes"][user]
           bn == bal["No"][user]
           payout == Half(by, bn)
<1>1. /\ by \in Int /\ Total(bal["Yes"]) \in Int
      /\ bn \in Int /\ Total(bal["No"]) \in Int
      /\ total_supply \in Int /\ "Yes" \in Prediction /\ "No" \in Prediction
    BY Balances DEF Prediction, Books
<1>2. payout = (by + bn) \div 2
    BY DEF Half
<1>3. payout \in Int /\ 2 * payout <= by + bn
    <2> HIDE DEF by, bn, payout
    <2> QED  BY <1>1, <1>2
<1>4. /\ Books'
      /\ total_supply' = total_supply - payout
      /\ Total(bal'["Yes"]) = Total(bal["Yes"]) - by
      /\ Total(bal'["No"]) = Total(bal["No"]) - bn
    BY <1>1, <1>3, PayStep
<1> HIDE DEF by, bn, payout
<1>5. Total(bal'["Yes"]) + Total(bal'["No"]) <= 2 * total_supply'
    BY <1>1, <1>3, <1>4 DEF HalvesBacked
<1> QED
    BY <1>4, <1>5 DEF HalvesBacked

\* What strays in is counted on both sides of the balance.
LEMMA StrayStep ==
    ASSUME Books, NEW user \in Addr, NEW amount \in Amounts, SendStray(user, amount)
    PROVE  Books' /\ UNCHANGED <<pool, total_supply, bal>>
<1> USE DEF Books
<1>1. amount \in Nat \ {0} /\ UNCHANGED <<pool, total_supply, bal>>
    BY ExchangeConstants DEF SendStray
<1>2. /\ wallet' \in [Addr -> Nat]
      /\ held' = held + amount /\ held' \in Nat
      /\ stray' = stray + amount /\ stray' \in 0..MaxStray
    BY <1>1, ExchangeConstants DEF SendStray, PayIn, ExchangeTyped
<1> QED
    BY <1>1, <1>2, Balances DEF ExchangeTyped, CollateralHeld

\* Nothing about the exchange changes when its variables do not.
LEMMA ExchangeStutter ==
    ASSUME Books, UNCHANGED exchange
    PROVE  /\ Books'
           /\ UNCHANGED <<pool, total_supply, bal, held, stray>>
           /\ ClaimsShrink
<1>1. UNCHANGED <<pool, total_supply, bal, wallet, held, stray>>
    BY DEF exchange
<1> QED
    BY <1>1, Balances DEF Books, ExchangeTyped, CollateralHeld, ClaimsShrink

-----------------------------------------------------------------------------
\* What can overdraw a balance.

\* Every debit is checked, so nothing but a purchase could.
LEMMA OnlySwapInOverdraws ==
    ASSUME Books, NoneOverdrawn, NEW user \in Addr, NEW to \in Addr,
           NEW side \in Prediction, NEW amount \in Int, NEW minimum, NEW fee_bps,
           \/ MintPairs(user, amount)
           \/ BurnPairs(user, amount)
           \/ SwapOut(user, side, amount, minimum, fee_bps)
           \/ MoveShares(user, to, side, amount)
           \/ PayClaim(user, amount)
           \/ PoolToTreasury(user)
           \/ UNCHANGED bal
    PROVE  NoneOverdrawn'
<1>0. /\ bal \in Ledgers /\ "Yes" \in Prediction /\ "No" \in Prediction
      /\ "Yes" # "No"
    BY DEF NoneOverdrawn, Prediction
<1>1. \A s \in Prediction, a \in Addr : bal[s][a] \in Nat
    BY OwnBalances
<1>2. CASE MintPairs(user, amount)
    <2> DEFINE mid == credit(bal, "Yes", user, amount)
    <2>1. mid \in Ledgers /\ amount \in Nat /\ bal' = credit(mid, "No", user, amount)
        BY <1>0, <1>2 DEF MintPairs, credit, Ledgers
    <2> HIDE DEF mid
    <2> QED  BY <1>0, <2>1 DEF credit, Ledgers, NoneOverdrawn
<1>3. CASE BurnPairs(user, amount)
    <2> DEFINE mid == debit(bal, "Yes", user, amount)
    <2>1. /\ mid \in Ledgers /\ mid["No"][user] >= amount
          /\ bal' = debit(mid, "No", user, amount)
        BY <1>0, <1>3 DEF BurnPairs, CanDebit, debit, Ledgers
    <2> HIDE DEF mid
    <2> QED  BY <1>0, <2>1 DEF debit, Ledgers, NoneOverdrawn
<1>4. CASE SwapOut(user, side, amount, minimum, fee_bps)
    BY <1>0, <1>4 DEF SwapOut, CanDebit, debit, Ledgers, NoneOverdrawn
<1>5. CASE MoveShares(user, to, side, amount)
    <2> DEFINE mid == debit(bal, side, user, amount)
    <2>1. mid \in Ledgers /\ amount \in Nat /\ bal' = credit(mid, side, to, amount)
        BY <1>0, <1>5 DEF MoveShares, CanDebit, debit, Ledgers
    <2> HIDE DEF mid
    <2> QED  BY <2>1 DEF credit, Ledgers, NoneOverdrawn
<1>6. CASE PayClaim(user, amount)
    BY <1>0, <1>6 DEF PayClaim, clear, Ledgers, NoneOverdrawn
<1>7. CASE PoolToTreasury(user)
    <2> DEFINE mid == credit(bal, "Yes", user, pool["Yes"])
    <2>1. pool["Yes"] \in Nat /\ pool["No"] \in Nat
        BY <1>0 DEF Books, ExchangeTyped
    <2>2. mid \in Ledgers /\ bal' = credit(mid, "No", user, pool["No"])
        BY <1>0, <1>7, <2>1 DEF PoolToTreasury, credit, Ledgers
    <2> HIDE DEF mid
    <2> QED  BY <1>0, <2>1, <2>2 DEF credit, Ledgers, NoneOverdrawn
<1>8. CASE UNCHANGED bal
    BY <1>8 DEF NoneOverdrawn
<1> QED
    BY <1>2, <1>3, <1>4, <1>5, <1>6, <1>7, <1>8

\* And a purchase does not where it cannot cost shares.
LEMMA SwapInKeeps ==
    ASSUME Books, Pooled, NoneOverdrawn, NEW c, FeeTerms(c), NoLossAccepted(c),
           NEW user \in Addr, NEW side \in Prediction, NEW amount \in Amounts,
           NEW min_shares_out \in Minimums,
           SwapIn(user, side, amount, min_shares_out, CurrentFee(c))
    PROVE  NoneOverdrawn'
<1> DEFINE unwanted == other(side)
           eff == apply_fee(amount, CurrentFee(c))
           out == cpmm_out(pool[unwanted], pool[side], eff)
<1>1. amount \in Nat \ {0} /\ min_shares_out \in Int
    BY ExchangeConstants DEF SwapIn
<1>2. /\ pool[unwanted] + eff > 0
      /\ out >= min_shares_out
      /\ total_supply # 0
      /\ bal' = credit(bal, side, user, amount + out)
    BY DEF SwapIn
<1>3. pool[side] \in Nat \ {0} /\ pool[unwanted] \in Nat \ {0}
    BY OpenPool DEF Books, other, Prediction
<1>4. eff \in Int /\ out \in Int
    <2>1. eff \in Int
        BY <1>1, <1>2, TradeAmount
    <2> HIDE DEF eff, unwanted
    <2> QED  BY <1>2, <1>3, <2>1, SwapRounding
<1>5. CurrentFee(c) \in Nat
    <2> DEFINE spread == (c.base_fee_bps - c.min_fee_bps) * c.initial_liquidity
    <2>1. spread \in Int /\ total_supply \in Int \ {0} /\ c.min_fee_bps \in Int
        BY <1>2, Balances DEF FeeTerms, Books
    <2> HIDE DEF spread
    <2>2. c.min_fee_bps + decayed(spread, total_supply) \in Int
        BY <2>1, DecayedInt
    <2> QED  BY <2>2, Remainder DEF CurrentFee, effective_fee_bps, spread
<1>6. out >= 0
    <2>1. CASE Minimums \subseteq Nat
        <3>1. min_shares_out >= 0
            BY <2>1
        <3> HIDE DEF out
        <3> QED  BY <1>1, <1>2, <1>4, <3>1
    <2>2. CASE CurrentFee(c) <= 10000
        <3>1. eff \in Nat
            BY <1>1, <1>5, <2>2, FeeLeavesTrade
        <3> HIDE DEF eff, unwanted
        <3> QED  BY <1>3, <3>1, SwapNotNegative
    <2> QED  BY <2>1, <2>2 DEF NoLossAccepted
<1>7. amount + out \in Nat
    <2> HIDE DEF out
    <2> QED  BY <1>1, <1>4, <1>6
<1> HIDE DEF out
<1> QED
    BY <1>2, <1>7 DEF credit, Ledgers, NoneOverdrawn

\* Terms under which the fee is at most 100 % at every supply.
CheapTerms(c) ==
    (c.base_fee_bps - c.min_fee_bps) * c.initial_liquidity <= 10000 - c.min_fee_bps

LEMMA CheapFee ==
    ASSUME ExchangeTyped, Pooled, NoneOverdrawn, NEW c, FeeTerms(c), CheapTerms(c)
    PROVE  NoLossAccepted(c)
<1> DEFINE rest == 10000 - c.min_fee_bps
<1>1. total_supply \in Nat \ {0}
    BY PoolCovered
<1>2. rest \in Nat /\ c.min_fee_bps <= 10000 /\ c.min_fee_bps <= c.base_fee_bps
    BY DEF FeeTerms, UsableTerms, MAX_FEE_BPS
<1>3. (c.base_fee_bps - c.min_fee_bps) * c.initial_liquidity <= rest * total_supply
    <2> DEFINE spread == (c.base_fee_bps - c.min_fee_bps) * c.initial_liquidity
    <2>1. spread \in Int /\ spread <= rest
        BY DEF FeeTerms, CheapTerms
    <2> HIDE DEF spread, rest
    <2>2. rest * 1 <= rest * total_supply
        BY <1>1, <1>2
    <2>3. rest * total_supply \in Int
        BY <1>1, <1>2
    <2>4. spread <= rest * total_supply
        BY <1>2, <2>1, <2>2, <2>3
    <2> QED  BY <2>4 DEF spread
<1> QED
    BY <1>1, <1>2, <1>3, FeeCapped DEF FeeTerms, CurrentFee, NoLossAccepted

-----------------------------------------------------------------------------
\* What a call does to the collateral of one address and of the contract.

LocksFrom(user, amount) ==
    /\ amount \in 1..wallet[user]
    /\ wallet' = [wallet EXCEPT ![user] = @ - amount]
    /\ total_supply' = total_supply + amount

ReleasesTo(user, amount) ==
    /\ amount \in Nat \ {0}
    /\ wallet' = [wallet EXCEPT ![user] = @ + amount]
    /\ total_supply' = total_supply - amount

\* initialize locks its liquidity.
LEMMA SeedLocks ==
    ASSUME Books, total_supply = 0, NEW admin \in Addr, NEW liquidity \in Nat \ {0},
           Seed(admin, liquidity)
    PROVE  LocksFrom(admin, liquidity)
BY DEF Books, ExchangeTyped, Seed, PayIn, LocksFrom

\* split locks what it issues pairs for.
LEMMA MintLocks ==
    ASSUME Books, NEW user \in Addr, NEW amount \in Amounts, MintPairs(user, amount)
    PROVE  LocksFrom(user, amount)
BY ExchangeConstants DEF Books, ExchangeTyped, MintPairs, PayIn, LocksFrom

\* buy locks the whole amount, the fee included.
LEMMA SwapInLocks ==
    ASSUME Books, NEW user \in Addr, NEW side \in Prediction, NEW amount \in Amounts,
           NEW min_shares_out \in Minimums, NEW fee_bps,
           SwapIn(user, side, amount, min_shares_out, fee_bps)
    PROVE  LocksFrom(user, amount)
BY ExchangeConstants DEF Books, ExchangeTyped, SwapIn, PayIn, LocksFrom

\* merge releases what it burns pairs of.
LEMMA BurnReleases ==
    ASSUME NEW user \in Addr, NEW amount \in Amounts, BurnPairs(user, amount)
    PROVE  ReleasesTo(user, amount)
BY ExchangeConstants DEF BurnPairs, PayOut, ReleasesTo

\* What a sale pays is an integer because it is taken out of the balance held.
LEMMA SwapOutReleases ==
    ASSUME Books, Pooled, NEW c, FeeTerms(c),
           NEW user \in Addr, NEW side \in Prediction, NEW shares_in \in Amounts,
           NEW min_out \in Minimums,
           SwapOut(user, side, shares_in, min_out, CurrentFee(c))
    PROVE  \E out \in Nat : ReleasesTo(user, out)
<1> DEFINE opposite == other(side)
           eff == apply_fee(shares_in, CurrentFee(c))
           out == cpmm_sell_out(pool[side], pool[opposite], eff)
<1>1. /\ out > 0 /\ total_supply # 0
      /\ wallet' = [wallet EXCEPT ![user] = @ + out]
      /\ total_supply' = total_supply - out
    BY DEF SwapOut, PayOut
<1>2. out \in Int
    <2>1. shares_in \in Nat \ {0}
        BY ExchangeConstants DEF SwapOut
    <2>2. opposite \in Prediction
        BY DEF other, Prediction
    <2>3. eff \in Int /\ eff <= shares_in
        BY <1>1, <2>1, TradeAmount
    <2>4. pool[side] \in Nat \ {0} /\ pool[opposite] \in Nat \ {0}
        BY <2>2, OpenPool DEF Books
    <2> HIDE DEF eff, opposite
    <2> QED  BY <2>3, <2>4, SellOutRoot
<1> HIDE DEF out
<1>3. out \in Nat /\ ReleasesTo(user, out)
    BY <1>1, <1>2 DEF ReleasesTo
<1> QED
    BY <1>3

-----------------------------------------------------------------------------
\* What was bought sells for at most two units more than it cost.

\* Whatever else an address does, it pays nothing or gets no more than it pays.
LEMMA NoPurchase ==
    ASSUME Books, Books', NEW c,
           \/ \E user \in Addr, amount \in Amounts : MintPairs(user, amount)
           \/ \E user \in Addr, amount \in Nat : ReleasesTo(user, amount)
           \/ UNCHANGED wallet
           \/ UNCHANGED bal
    PROVE  RoundTripCapped(c)
<1>1. /\ \A a \in Addr : wallet[a] \in Nat
      /\ \A side \in Prediction, a \in Addr : bal[side][a] \in Int
      /\ wallet \in [Addr -> Nat] /\ bal \in Signed
    BY Balances DEF Books, ExchangeTyped
<1>2. ASSUME \A a \in Addr : wallet'[a] \in Nat /\ wallet'[a] >= wallet[a]
      PROVE  RoundTripCapped(c)
    BY <1>1, <1>2 DEF RoundTripCapped
<1>3. CASE UNCHANGED bal
    <2>1. \A a \in Addr : wallet'[a] \in Nat
        BY DEF Books, ExchangeTyped
    <2> QED  BY <1>1, <1>3, <2>1 DEF RoundTripCapped
<1>4. CASE UNCHANGED wallet
    BY <1>1, <1>2, <1>4
<1>5. ASSUME NEW user \in Addr, NEW amount \in Nat, ReleasesTo(user, amount)
      PROVE  RoundTripCapped(c)
    <2>1. wallet' = [wallet EXCEPT ![user] = @ + amount]
        BY <1>5 DEF ReleasesTo
    <2>2. \A a \in Addr : wallet'[a] = IF a = user THEN wallet[a] + amount ELSE wallet[a]
        BY <1>1, <2>1
    <2> QED  BY <1>1, <1>2, <2>2
<1>6. ASSUME NEW user \in Addr, NEW amount \in Amounts, MintPairs(user, amount)
      PROVE  RoundTripCapped(c)
    <2>1. amount \in Nat \ {0}
        BY <1>6, ExchangeConstants DEF MintPairs
    <2>2. \A a \in Addr : wallet'[a] = IF a = user THEN wallet[a] - amount ELSE wallet[a]
        BY <1>1, <1>6 DEF MintPairs, PayIn
    <2>3. \A side \in Prediction : bal'[side][user] = bal[side][user] + amount
        BY <1>1, <1>6, <2>1 DEF MintPairs, credit, Signed, Prediction
    <2> QED  BY <1>1, <2>1, <2>2, <2>3 DEF RoundTripCapped
<1> QED
    BY <1>3, <1>4, <1>5, <1>6

\* A purchase: the depth check caps what its rounding is worth.
LEMMA SwapInCapped ==
    ASSUME Books, Pooled, NEW c, FeeTerms(c),
           NEW user \in Addr, NEW side \in Prediction, NEW amount \in Amounts,
           NEW min_shares_out \in Minimums,
           SwapIn(user, side, amount, min_shares_out, CurrentFee(c))
    PROVE  RoundTripCapped(c)
<1> DEFINE unwanted == other(side)
           eff == apply_fee(amount, CurrentFee(c))
           out == cpmm_out(pool[unwanted], pool[side], eff)
           fee_after == effective_fee_bps(c.base_fee_bps, c.min_fee_bps,
                                          c.initial_liquidity, total_supply')
<1>1. amount \in Nat \ {0}
    BY ExchangeConstants DEF SwapIn
<1>2. unwanted \in Prediction /\ unwanted # side /\ Prediction = {side, unwanted}
    BY DEF other, Prediction
<1>3. /\ pool[unwanted] + eff > 0
      /\ ~ DepthExceeded(out, pool[side])
      /\ total_supply # 0
      /\ PayIn(user, amount)
      /\ bal' = credit(bal, side, user, amount + out)
      /\ total_supply' = total_supply + amount
      /\ pool' = [pool EXCEPT ![unwanted] = @ + amount, ![side] = @ - out]
    BY DEF SwapIn
<1>4. eff \in Int /\ eff <= amount
    BY <1>1, <1>3, TradeAmount
<1>5. /\ pool[side] \in Nat \ {0} /\ pool[unwanted] \in Nat \ {0}
      /\ total_supply \in Int
    BY <1>2, OpenPool, Balances DEF Books
<1> HIDE DEF eff, unwanted
<1>6. out \in Int
    BY <1>3, <1>4, <1>5, SwapRounding
<1>7. 2 * out < pool[side]
    <2> HIDE DEF out
    <2> QED  BY <1>3, <1>5, <1>6 DEF DepthExceeded
<1>8. ASSUME NEW back \in Int, back <= amount + out
      PROVE  cpmm_sell_out(pool[side] - out, pool[unwanted] + amount, back) <= amount + 2
    BY <1>1, <1>3, <1>4, <1>5, <1>7, <1>8, PurchaseSoldBack
<1> HIDE DEF out
<1>9. pool'[side] = pool[side] - out /\ pool'[unwanted] = pool[unwanted] + amount
    <2>1. pool \in [Prediction -> Nat]
        BY DEF Books, ExchangeTyped
    <2> QED  BY <1>2, <1>3, <2>1
<1>10. \A a \in Addr : wallet'[a] = IF a = user THEN wallet[a] - amount ELSE wallet[a]
    BY <1>3 DEF PayIn, Books, ExchangeTyped
<1>11. /\ bal'[side][user] = bal[side][user] + (amount + out)
       /\ bal'[unwanted][user] = bal[unwanted][user]
    BY <1>2, <1>3, Balances DEF credit, Signed, Books
<1>12. \A s \in Prediction, a \in Addr : bal[s][a] \in Int /\ wallet[a] \in Nat
    BY Balances DEF Books, ExchangeTyped
<1> SUFFICES ASSUME NEW a \in Addr, NEW s \in Prediction,
                    wallet[a] - wallet'[a] > 0,
                    bal'[s][a] - bal[s][a] > wallet[a] - wallet'[a],
                    total_supply' # 0
             PROVE  cpmm_sell_out(pool'[s], pool'[other(s)],
                                  apply_fee(bal'[s][a] - bal[s][a], fee_after))
                      <= wallet[a] - wallet'[a] + 2
    BY DEF RoundTripCapped
<1>13. a = user /\ wallet[a] - wallet'[a] = amount
    BY <1>1, <1>10, <1>12
<1>14. s = side
    <2>1. s = unwanted => bal'[s][a] - bal[s][a] = 0
        BY <1>11, <1>12, <1>13
    <2> QED  BY <1>1, <1>2, <1>13, <2>1
<1>15. bal'[s][a] - bal[s][a] = amount + out /\ amount + out \in Nat
    BY <1>1, <1>6, <1>11, <1>12, <1>13, <1>14
<1>16. apply_fee(amount + out, fee_after) \in Int /\ apply_fee(amount + out, fee_after) <= amount + out
    <2>1. total_supply' \in Int \ {0}
        BY <1>1, <1>3, <1>5
    <2> QED  BY <1>15, <2>1, FeeOnlyTakes DEF FeeTerms
<1>17. cpmm_sell_out(pool[side] - out, pool[unwanted] + amount,
                     apply_fee(amount + out, fee_after)) <= amount + 2
    <2> HIDE DEF fee_after
    <2> QED  BY <1>8, <1>16
<1> HIDE DEF fee_after
<1> QED
    BY <1>9, <1>13, <1>14, <1>15, <1>17 DEF unwanted

-----------------------------------------------------------------------------
\* Collateral moves between the purses and the contract, and nowhere else.

Conserved == Total(wallet') + held' = Total(wallet) + held

\* What a purse pays or receives, all purses together do.
LEMMA PurseTotals ==
    ASSUME Books, NEW user \in Addr, NEW amount \in Int
    PROVE  /\ wallet[user] \in Int /\ Total(wallet) \in Int
           /\ Total([wallet EXCEPT ![user] = @ - amount]) = Total(wallet) - amount
           /\ Total([wallet EXCEPT ![user] = @ + amount]) = Total(wallet) + amount
<1> DEFINE x == wallet[user] - amount
           y == wallet[user] + amount
<1>1. wallet \in [Addr -> Int]
    BY DEF Books, ExchangeTyped
<1>2. wallet[user] \in Int /\ Total(wallet) \in Int /\ x \in Int /\ y \in Int
    BY <1>1, TotalInt
<1> HIDE DEF x, y
<1>3. /\ Total([wallet EXCEPT ![user] = x]) = Total(wallet) - wallet[user] + x
      /\ Total([wallet EXCEPT ![user] = y]) = Total(wallet) - wallet[user] + y
    BY <1>1, <1>2, TotalUpdate
<1>4. /\ Total([wallet EXCEPT ![user] = x]) = Total(wallet) - amount
      /\ Total([wallet EXCEPT ![user] = y]) = Total(wallet) + amount
    BY <1>2, <1>3 DEF x, y
<1> QED
    BY <1>2, <1>4 DEF x, y

\* What is locked has left a purse for the contract's.
LEMMA LockConserves ==
    ASSUME Books, Books', NEW user \in Addr, NEW amount, LocksFrom(user, amount),
           UNCHANGED stray
    PROVE  Conserved
<1>1. amount \in Int
    BY DEF LocksFrom, Books, ExchangeTyped
<1>2. Total(wallet') = Total(wallet) - amount /\ Total(wallet) \in Int
    BY <1>1, PurseTotals DEF LocksFrom
<1>3. held' = held + amount
    BY <1>1, Balances DEF LocksFrom, Books, CollateralHeld
<1> QED
    BY <1>1, <1>2, <1>3, Balances DEF Conserved, Books

\* What is released has left the contract's purse for another.
LEMMA ReleaseConserves ==
    ASSUME Books, Books', NEW user \in Addr, NEW amount, ReleasesTo(user, amount),
           UNCHANGED stray
    PROVE  Conserved
<1>1. amount \in Int
    BY DEF ReleasesTo
<1>2. Total(wallet') = Total(wallet) + amount /\ Total(wallet) \in Int
    BY <1>1, PurseTotals DEF ReleasesTo
<1>3. held' = held - amount
    BY <1>1, Balances DEF ReleasesTo, Books, CollateralHeld
<1> QED
    BY <1>1, <1>2, <1>3, Balances DEF Conserved, Books

\* Collateral sent to the contract unasked reaches it.
LEMMA StrayConserves ==
    ASSUME Books, NEW user \in Addr, NEW amount \in Amounts, SendStray(user, amount)
    PROVE  Conserved
<1>1. amount \in Int
    BY ExchangeConstants
<1>2. Total(wallet') = Total(wallet) - amount /\ Total(wallet) \in Int
    BY <1>1, PurseTotals DEF SendStray, PayIn
<1>3. held' = held + amount
    BY DEF SendStray, PayIn
<1> QED
    BY <1>1, <1>2, <1>3, Balances DEF Conserved, Books

-----------------------------------------------------------------------------
\* Whose shares a step may take.

KeepsShares(a) == \A side \in Prediction : bal'[side][a] >= bal[side][a]

\* What an address does with the exchange costs nobody else a share.
LEMMA OthersKeepShares ==
    ASSUME ExchangeTyped, NEW a \in Addr, NEW user \in Addr, user # a,
           NEW amount, NEW side \in Prediction, NEW minimum, NEW fee_bps, NEW to \in Addr,
           \/ MintPairs(user, amount)
           \/ BurnPairs(user, amount)
           \/ SwapIn(user, side, amount, minimum, fee_bps)
           \/ SwapOut(user, side, amount, minimum, fee_bps)
           \/ MoveShares(user, to, side, amount) /\ amount \in Int
           \/ PayClaim(user, amount)
    PROVE  KeepsShares(a)
<1>1. /\ bal \in Signed /\ "Yes" \in Prediction /\ "No" \in Prediction
      /\ \A s \in Prediction : bal[s][a] \in Int
    BY Balances DEF Prediction
<1>2. \A s \in Prediction : \A v :
          /\ credit(bal, s, user, v)["Yes"][a] = bal["Yes"][a]
          /\ credit(bal, s, user, v)["No"][a] = bal["No"][a]
          /\ debit(bal, s, user, v)["Yes"][a] = bal["Yes"][a]
          /\ debit(bal, s, user, v)["No"][a] = bal["No"][a]
          /\ clear(bal, user)["Yes"][a] = bal["Yes"][a]
          /\ clear(bal, user)["No"][a] = bal["No"][a]
    <2> SUFFICES ASSUME NEW s \in Prediction, NEW v
                 PROVE  /\ credit(bal, s, user, v)["Yes"][a] = bal["Yes"][a]
                        /\ credit(bal, s, user, v)["No"][a] = bal["No"][a]
                        /\ debit(bal, s, user, v)["Yes"][a] = bal["Yes"][a]
                        /\ debit(bal, s, user, v)["No"][a] = bal["No"][a]
                        /\ clear(bal, user)["Yes"][a] = bal["Yes"][a]
                        /\ clear(bal, user)["No"][a] = bal["No"][a]
        OBVIOUS
    <2> QED  BY <1>1, OthersBalances
<1>3. CASE MintPairs(user, amount) \/ BurnPairs(user, amount)
    BY <1>1, <1>3 DEF MintPairs, BurnPairs, credit, debit, Signed, Prediction, KeepsShares
<1>4. CASE \/ SwapIn(user, side, amount, minimum, fee_bps)
           \/ SwapOut(user, side, amount, minimum, fee_bps)
           \/ PayClaim(user, amount)
    BY <1>1, <1>2, <1>4 DEF SwapIn, SwapOut, PayClaim, KeepsShares, Prediction
<1>5. CASE MoveShares(user, to, side, amount) /\ amount \in Int
    <2> DEFINE mid == debit(bal, side, user, amount)
    <2>1. mid \in Signed /\ amount \in Nat
        <3>1. amount \in Nat
            BY <1>5 DEF MoveShares
        <3> QED  BY <1>1, <3>1, DebitLedger
    <2>2. mid["Yes"][a] = bal["Yes"][a] /\ mid["No"][a] = bal["No"][a]
        BY <1>2
    <2>3. bal' = credit(mid, side, to, amount)
        BY <1>5 DEF MoveShares
    <2> HIDE DEF mid
    <2>4. \A s \in Prediction : credit(mid, side, to, amount)[s][a] >= mid[s][a]
        BY <2>1, CreditRaises
    <2> QED  BY <1>1, <2>2, <2>3, <2>4 DEF KeepsShares, Prediction
<1> QED
    BY <1>3, <1>4, <1>5

\* Ending an exchange adds each reserve to what its treasury holds, and takes
\* nothing from the others.
LEMMA TreasuryGains ==
    ASSUME ExchangeTyped, NEW treasury \in Addr, PoolToTreasury(treasury)
    PROVE  /\ \A side \in Prediction :
                 bal'[side][treasury] = bal[side][treasury] + pool[side]
           /\ \A a \in Addr : KeepsShares(a)
<1>1. /\ bal \in Signed /\ \A side \in Prediction : pool[side] \in Nat
      /\ bal' = credit(credit(bal, "Yes", treasury, pool["Yes"]),
                       "No", treasury, pool["No"])
    BY DEF ExchangeTyped, PoolToTreasury
<1>2. \A side \in Prediction, a \in Addr :
          bal'[side][a] = IF a = treasury THEN bal[side][a] + pool[side] ELSE bal[side][a]
    BY <1>1 DEF credit, Signed, Prediction
<1>3. \A side \in Prediction, a \in Addr : bal[side][a] \in Int
    BY <1>1 DEF Signed
<1> QED
    BY <1>1, <1>2, <1>3 DEF KeepsShares

-----------------------------------------------------------------------------
\* Clock, feeds and the corroboration of a price.

\* Time and feeds are well typed when the contract is deployed.
LEMMA OraclesInitial ==
    ASSUME OraclesInit
    PROVE  OraclesTypeOK
BY OracleConstants, WidthConstants DEF OraclesInit, OraclesTypeOK

\* A ledger closes: time advances, within its bound.
LEMMA CloseStep ==
    ASSUME OraclesTypeOK, CloseLedger
    PROVE  OraclesTypeOK' /\ now <= now'
BY OracleConstants, WidthConstants DEF OraclesTypeOK, CloseLedger

\* Whatever a feed publishes, it remains a feed and time stands still.
LEMMA PublishStep ==
    ASSUME OraclesTypeOK, NEW leg \in Legs, Publish(leg)
    PROVE  OraclesTypeOK' /\ now' = now
<1>1. /\ feed[leg] \in Feed
      /\ now \in Nat
      /\ feed \in [Legs -> Feed]
    BY OracleConstants, WidthConstants DEF OraclesTypeOK
<1>2. PICK f \in Feed : SetFeed(leg, f)
    <2>1. ASSUME NEW price \in FeedPrices, NEW at \in FeedTimes
          PROVE  set_price(feed[leg], price, at) \in Feed
        <3>1. [price |-> price, timestamp |-> at] \in PriceData
            BY OracleConstants DEF PriceData
        <3> QED  BY <1>1, <3>1 DEF set_price, Feed
    <2>2. set_none(feed[leg]) \in Feed
        BY <1>1 DEF set_none, Feed
    <2>3. \A d \in FeedDecimals : set_decimals(feed[leg], d) \in Feed
        BY <1>1, OracleConstants DEF set_decimals, Feed
    <2>4. \A r \in FeedResolutions : set_resolution(feed[leg], r) \in Feed
        BY <1>1, OracleConstants DEF set_resolution, Feed
    <2> QED  BY <2>1, <2>2, <2>3, <2>4 DEF Publish
<1>3. feed' \in [Legs -> Feed] /\ UNCHANGED now
    BY <1>1, <1>2 DEF SetFeed
<1> QED
    BY <1>3 DEF OraclesTypeOK

\* What initialize pins is a precision.
LEMMA DecimalsPinned ==
    ASSUME NEW legs, UsableLegs(legs)
    PROVE  DecimalsAtInit(legs) \in [DOMAIN legs -> Nat]
<1>1. \A leg \in DOMAIN legs : feed[leg].decimals \in Nat
    BY DEF UsableLegs
<1> QED
    BY <1>1 DEF DecimalsAtInit

\* An update that passes the early returns prices the feed at its time.
LEMMA UsablePriced ==
    ASSUME NEW payload \in Payloads, NEW feed_id, NEW reference \in Int,
           UsableUpdate(payload, feed_id, reference)
    PROVE  UpdatePriced(feed_id, PayloadCents(payload, feed_id), reference)
<1>1. payload.signed /\ feed_id \in DOMAIN payload.feeds
    BY DEF UsableUpdate
<1>2. payload.feeds[feed_id].timestamp \in Nat /\ PRICE_FRESHNESS_WINDOW_SECS \in Nat
    BY <1>1, OracleConstants DEF IsPayload
<1>3. Magnitude(payload.feeds[feed_id].timestamp - reference) <= PRICE_FRESHNESS_WINDOW_SECS
    <2> DEFINE at == payload.feeds[feed_id].timestamp
    <2>1. /\ at + PRICE_FRESHNESS_WINDOW_SECS >= reference
          /\ reference + PRICE_FRESHNESS_WINDOW_SECS >= at
        BY <1>2 DEF UsableUpdate
    <2> HIDE DEF at
    <2> QED  BY <1>2, <2>1 DEF Magnitude, at
<1> QED
    BY <1>1, <1>3 DEF UpdatePriced

\* A reference price and a quote that the code finds within tolerance are within
\* tolerance in the feed's own units: rounding the quote to cents and the
\* divergence to basis points hides no more than AgreesWithin allows for.
LEMMA Agreement ==
    ASSUME NEW cents \in Int, NEW price \in Int, NEW decimals \in Nat, decimals >= 2,
           NEW tolerance \in Nat, tolerance < 10000,
           divergence_bps(cents, reflector_price_to_cents(price, decimals)) <= tolerance
    PROVE  AgreesWithin(cents, price, decimals, tolerance)
<1> DEFINE u == pow10(decimals - 2)
           q == reflector_price_to_cents(price, decimals)
           D == Magnitude(cents - q)
           M == Magnitude(q)
           A == Magnitude(cents * u - price)
           B == Magnitude(price)
           k == tolerance + 1
<1>1. /\ u \in Nat \ {0} /\ q \in Int
      /\ 2 * Magnitude(q * u - price) <= u
    BY QuoteRounding
<1>2. 10000 * D < k * M
    BY <1>1, DivergenceBounded
<1> HIDE DEF u, q
<1>3. D \in Nat /\ M \in Nat /\ A \in Nat /\ B \in Nat /\ k \in Nat \ {0}
    BY <1>1 DEF Magnitude
<1>4. 2 * A - u <= 2 * (D * u)
    <2>1. D * u = Magnitude(cents * u - q * u)
        BY <1>1 DEF Magnitude
    <2>2. cents * u \in Int /\ q * u \in Int
        BY <1>1
    <2>3. 2 * A <= 2 * Magnitude(cents * u - q * u) + u
        BY <1>1, <2>2 DEF Magnitude
    <2>4. D * u \in Int
        BY <1>1, <1>3
    <2> HIDE DEF A, D
    <2> QED  BY <1>1, <1>3, <2>1, <2>3, <2>4
<1>5. 2 * (M * u) <= 2 * B + u
    <2>1. M * u = Magnitude(q * u)
        BY <1>1 DEF Magnitude
    <2>2. q * u \in Int
        BY <1>1
    <2>3. 2 * Magnitude(q * u) <= 2 * B + u
        BY <1>1, <2>2 DEF Magnitude
    <2> QED  BY <2>1, <2>3
<1> HIDE DEF D, M, A, B, k
<1>6. 10000 * (D * u) < k * (M * u)
    <2>1. (10000 * D) * u < (k * M) * u
        BY <1>1, <1>2, <1>3
    <2> QED  BY <1>1, <1>3, <2>1
<1>7. k * (2 * (M * u)) <= k * (2 * B + u)
    <2> DEFINE x == 2 * (M * u)
               y == 2 * B + u
    <2>1. x \in Int /\ y \in Int /\ x <= y
        BY <1>1, <1>3, <1>5
    <2> HIDE DEF x, y
    <2>2. k * x <= k * y
        BY <1>3, <2>1
    <2> QED  BY <2>2 DEF x, y
<1>8. 10000 * (2 * A - u) < k * (2 * B + u)
    <2> DEFINE d == D * u
               m == M * u
               y == k * (2 * B + u)
    <2>1. d \in Int /\ m \in Int /\ y \in Int
        BY <1>1, <1>3
    <2>2. k * (2 * m) = 2 * (k * m) /\ k * m \in Int
        BY <1>3, <2>1
    <2> HIDE DEF d, m, y
    <2>3. 10000 * (2 * A - u) <= 20000 * d
        BY <1>1, <1>3, <1>4, <2>1 DEF d
    <2>4. 20000 * d < 2 * (k * m)
        BY <1>6, <2>1, <2>2 DEF d, m
    <2>5. 2 * (k * m) <= y
        BY <1>7, <2>2 DEF m, y
    <2> QED  BY <1>1, <1>3, <2>1, <2>2, <2>3, <2>4, <2>5 DEF y
<1> QED
    BY <1>8 DEF AgreesWithin, A, B, k, u

\* A corroborated price is one that every configured leg agrees with, fresh and
\* at the pinned precision.
THEOREM CorroboratedAgrees ==
    ASSUME OraclesTypeOK, NEW legs, DOMAIN legs \subseteq Legs,
           \A leg \in DOMAIN legs : legs[leg] \in OracleFeedConfig,
           NEW pinned, NEW cents \in Int, Corroborated(legs, pinned, cents)
    PROVE  AllLegsAgree(legs, pinned, cents)
<1> SUFFICES ASSUME NEW leg \in DOMAIN legs
             PROVE  \E latest \in feed[leg].price :
                        /\ now - latest.timestamp <= legs[leg].max_staleness_secs
                        /\ feed[leg].decimals = pinned[leg]
                        /\ legs[leg].tolerance_bps < 10000 =>
                              AgreesWithin(cents, latest.price, pinned[leg],
                                           legs[leg].tolerance_bps)
    BY DEF AllLegsAgree
<1>1. /\ feed[leg] \in Feed /\ now \in Int
      /\ legs[leg].max_staleness_secs \in Nat /\ legs[leg].tolerance_bps \in Nat
    BY OracleConstants, WidthConstants DEF OraclesTypeOK, OracleFeedConfig
<1>2. PICK latest \in feed[leg].price :
          /\ latest.timestamp + legs[leg].max_staleness_secs \in now..MAX_U64
          /\ feed[leg].decimals \in 2..30
          /\ feed[leg].decimals = pinned[leg]
          /\ divergence_bps(cents, reflector_price_to_cents(latest.price, feed[leg].decimals))
               <= legs[leg].tolerance_bps
    BY DEF Corroborated, verify_oracle_corroboration, lastprice
<1>3. latest.price \in Int /\ latest.timestamp \in Nat
    BY <1>1, <1>2 DEF Feed, PriceData
<1>4. now - latest.timestamp <= legs[leg].max_staleness_secs
    BY <1>1, <1>2, <1>3, WidthConstants
<1>5. ASSUME legs[leg].tolerance_bps < 10000
      PROVE  AgreesWithin(cents, latest.price, feed[leg].decimals, legs[leg].tolerance_bps)
    <2>1. feed[leg].decimals \in Nat /\ feed[leg].decimals >= 2
        BY <1>2
    <2> QED  BY <1>1, <1>2, <1>3, <1>5, <2>1, Agreement
<1> QED
    BY <1>2, <1>4, <1>5
=============================================================================
