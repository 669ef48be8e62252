--------------------------- MODULE CtfMathProofs ---------------------------
(***************************************************************************)
(* What the arithmetic of ctf-math computes: that Newton's loop ends at    *)
(* the integer square root, and what that makes of the sale and the swap.  *)
(***************************************************************************)
EXTENDS CtfMath, ShareLedgerProofs

\* Division rounds down.
LEMMA Division ==
    ASSUME NEW a \in Int, NEW b \in Nat \ {0}
    PROVE  /\ a \div b \in Int
           /\ b * (a \div b) <= a
           /\ a < b * (a \div b) + b
OBVIOUS

\* g is the table of the powers of ten up to n.
IsPowerTable(g, n) ==
    g = [i \in 0..n |-> IF i = 0 THEN 1 ELSE 10 * g[i - 1]]

\* There is such a table for every length.
LEMMA PowerTableExists ==
    \A n \in Nat : \E g : IsPowerTable(g, n)
<1> DEFINE S == {n \in Nat : \E g : IsPowerTable(g, n)}
<1>1. 0 \in S
    <2>1. IsPowerTable([i \in 0..0 |-> 1], 0)
        BY DEF IsPowerTable
    <2> QED  BY <2>1
<1>2. ASSUME NEW n \in Nat, n \in S
      PROVE  n + 1 \in S
    <2>1. PICK g : IsPowerTable(g, n)
        BY <1>2
    <2> DEFINE h == [i \in 0..(n + 1) |-> IF i = n + 1 THEN 10 * g[n] ELSE g[i]]
    <2>2. \A i \in 0..(n + 1) : h[i] = IF i = 0 THEN 1 ELSE 10 * h[i - 1]
        BY <2>1 DEF IsPowerTable
    <2>3. IsPowerTable(h, n + 1)
        BY <2>2 DEF IsPowerTable
    <2> HIDE DEF h
    <2> QED  BY <2>3
<1> HIDE DEF S
<1>3. \A n \in Nat : n \in S
    BY <1>1, <1>2, NatSetInduction
<1> QED
    BY <1>3 DEF S

\* A power of ten is positive, so that nothing is ever divided by zero.
LEMMA PowerOfTen ==
    ASSUME NEW n \in Nat
    PROVE  pow10(n) \in Nat \ {0}
<1> DEFINE g == CHOOSE g : IsPowerTable(g, n)
           S == {m \in Nat : m <= n => g[m] \in Nat \ {0}}
<1>1. IsPowerTable(g, n)
    BY PowerTableExists
<1>2. pow10(n) = g[n]
    BY DEF pow10, IsPowerTable
<1> HIDE DEF g
<1>3. 0 \in S
    BY <1>1 DEF IsPowerTable
<1>4. ASSUME NEW m \in Nat, m \in S
      PROVE  m + 1 \in S
    <2>1. m + 1 <= n => g[m + 1] = 10 * g[m]
        BY <1>1 DEF IsPowerTable
    <2> QED  BY <1>4, <2>1
<1> HIDE DEF S
<1>5. \A m \in Nat : m \in S
    BY <1>3, <1>4, NatSetInduction
<1> QED
    BY <1>2, <1>5 DEF S

\* A conversion to cents yields an integer, whatever the exponent.
LEMMA CentsInt ==
    ASSUME NEW price \in Int, NEW exponent \in Int
    PROVE  to_cents(price, exponent) \in Int
<1>1. CASE exponent + 2 >= 0
    BY <1>1, PowerOfTen DEF to_cents
<1>2. CASE exponent + 2 < 0
    BY <1>2, PowerOfTen DEF to_cents
<1> QED
    BY <1>1, <1>2

\* Squaring is monotone on the naturals, and strictly so.
LEMMA SquareMonotone ==
    ASSUME NEW a \in Nat, NEW b \in Nat
    PROVE  /\ a <= b => a * a <= b * b
           /\ a * a < b * b => a < b
<1>1. ASSUME NEW c \in Nat, NEW d \in Nat, c <= d
      PROVE  c * c <= d * d
    <2>1. c * c <= c * d
        BY <1>1
    <2>2. c * d <= d * d
        BY <1>1
    <2> QED  BY <2>1, <2>2
<1> QED
    BY <1>1

\* A step of the loop stays in 1..n and never falls below the root: by the
\* inequality of the means, 4 x (d + 1) <= (x + d + 1)^2 with d = n / x.
LEMMA NewtonStepBounds ==
    ASSUME NEW n \in Nat, n >= 2, NEW x \in 1..n
    PROVE  /\ NewtonStep(n, x) \in Nat \ {0}
           /\ n < (NewtonStep(n, x) + 1) * (NewtonStep(n, x) + 1)
           /\ NewtonStep(n, x) >= x => x * x <= n
<1> DEFINE d == n \div x
           y == NewtonStep(n, x)
<1>1. d \in Int /\ x * d <= n /\ n < x * d + x
    BY Division
<1>2. y \in Int /\ 2 * y <= x + d /\ x + d < 2 * y + 2
    BY <1>1, Division DEF NewtonStep
<1> HIDE DEF d, y
<1>3. d >= 1
    <2>1. SUFFICES ASSUME d <= 0 PROVE FALSE
        BY <1>1
    <2>2. x * d <= 0
        BY <1>1, <2>1
    <2> QED  BY <1>1, <2>2
<1>4. y >= 1
    BY <1>1, <1>2, <1>3
<1>5. n < (y + 1) * (y + 1)
    <2>1. 4 * (x * (d + 1)) <= (x + (d + 1)) * (x + (d + 1))
        <3>1. (x - (d + 1)) * (x - (d + 1)) >= 0
            BY <1>1
        <3> QED  BY <1>1, <3>1
    <2>2. (x + (d + 1)) * (x + (d + 1)) <= (2 * (y + 1)) * (2 * (y + 1))
        BY <1>1, <1>2, <1>3, <1>4, SquareMonotone
    <2>3. n < x * (d + 1)
        BY <1>1
    <2>4. (2 * (y + 1)) * (2 * (y + 1)) = 4 * ((y + 1) * (y + 1))
        BY <1>2
    <2> DEFINE P == (y + 1) * (y + 1)
               Q == x * (d + 1)
    <2>5. P \in Int /\ Q \in Int
        BY <1>1, <1>2
    <2>6. 4 * Q <= 4 * P /\ n < Q
        BY <1>1, <1>2, <2>1, <2>2, <2>3, <2>4
    <2> HIDE DEF P, Q
    <2>7. n < P
        BY <2>5, <2>6
    <2> QED  BY <2>7 DEF P
<1>6. y >= x => x * x <= n
    <2> SUFFICES ASSUME y >= x PROVE x * x <= n
        OBVIOUS
    <2>1. x <= d
        BY <1>1, <1>2
    <2>2. x * x <= x * d
        BY <1>1, <2>1
    <2> QED  BY <1>1, <2>2
<1> QED
    BY <1>2, <1>4, <1>5, <1>6 DEF y

\* g is the table of where Newton's loop for n ends when it stands at x <= m.
IsRootTable(g, n, m) ==
    g = [x \in 1..m |-> IF NewtonStep(n, x) < x THEN g[NewtonStep(n, x)] ELSE x]

\* The loop is well defined: it only ever moves down.
LEMMA RootTableExists ==
    ASSUME NEW n \in Nat, n >= 2
    PROVE  \A m \in Nat : m <= n => \E g : IsRootTable(g, n, m)
<1> DEFINE S == {m \in Nat : m <= n => \E g : IsRootTable(g, n, m)}
<1>1. 0 \in S
    <2>1. IsRootTable([x \in 1..0 |-> x], n, 0)
        BY DEF IsRootTable
    <2> QED  BY <2>1
<1>2. ASSUME NEW m \in Nat, m \in S, m + 1 <= n
      PROVE  \E h : IsRootTable(h, n, m + 1)
    <2>1. PICK g : IsRootTable(g, n, m)
        BY <1>2
    <2> DEFINE top == IF NewtonStep(n, m + 1) < m + 1 THEN g[NewtonStep(n, m + 1)]
                                                      ELSE m + 1
               h == [x \in 1..(m + 1) |-> IF x = m + 1 THEN top ELSE g[x]]
    <2>2. ASSUME NEW x \in 1..(m + 1)
          PROVE  h[x] = IF NewtonStep(n, x) < x THEN h[NewtonStep(n, x)] ELSE x
        <3>1. NewtonStep(n, x) \in Nat \ {0}
            BY <1>2, NewtonStepBounds
        <3>2. x # m + 1 => x \in 1..m
            OBVIOUS
        <3>3. x # m + 1 =>
                g[x] = IF NewtonStep(n, x) < x THEN g[NewtonStep(n, x)] ELSE x
            BY <2>1, <3>2 DEF IsRootTable
        <3>4. NewtonStep(n, x) < x =>
                /\ NewtonStep(n, x) \in 1..(m + 1)
                /\ NewtonStep(n, x) # m + 1
            BY <3>1
        <3> QED  BY <3>3, <3>4
    <2>3. IsRootTable(h, n, m + 1)
        BY <2>2 DEF IsRootTable
    <2> HIDE DEF h
    <2> QED  BY <2>3
<1>3. ASSUME NEW m \in Nat, m \in S
      PROVE  m + 1 \in S
    BY <1>2, <1>3
<1> HIDE DEF S
<1>4. \A m \in Nat : m \in S
    BY <1>1, <1>3, NatSetInduction
<1> QED
    BY <1>4 DEF S

\* Wherever the loop starts at or above the root, it ends at the root.
LEMMA RootTableCorrect ==
    ASSUME NEW n \in Nat, n >= 2, NEW g, IsRootTable(g, n, n)
    PROVE  \A x \in 1..n : n < (x + 1) * (x + 1) =>
              g[x] \in Nat /\ g[x] * g[x] <= n /\ n < (g[x] + 1) * (g[x] + 1)
<1> DEFINE Correct(x) == n < (x + 1) * (x + 1) =>
                g[x] \in Nat /\ g[x] * g[x] <= n /\ n < (g[x] + 1) * (g[x] + 1)
           S == {m \in Nat : m <= n => \A x \in 1..m : Correct(x)}
<1>1. 0 \in S
    OBVIOUS
<1>2. ASSUME NEW m \in Nat, m \in S, m + 1 <= n
      PROVE  Correct(m + 1)
    <2> DEFINE x == m + 1
               y == NewtonStep(n, x)
    <2>1. x \in 1..n
        BY <1>2
    <2>2. y \in Nat \ {0} /\ n < (y + 1) * (y + 1) /\ (y >= x => x * x <= n)
        BY <2>1, NewtonStepBounds
    <2>3. g[x] = IF y < x THEN g[y] ELSE x
        BY <2>1 DEF IsRootTable
    <2>4. CASE y < x
        <3>1. y \in 1..m
            BY <2>2, <2>4
        <3>2. Correct(y)
            BY <1>2, <3>1
        <3> QED  BY <2>2, <2>3, <2>4, <3>2
    <2>5. CASE ~ (y < x)
        <3>1. g[x] = x /\ x * x <= n
            BY <2>2, <2>3, <2>5
        <3> QED  BY <3>1
    <2> QED  BY <2>4, <2>5
<1>3. ASSUME NEW m \in Nat, m \in S
      PROVE  m + 1 \in S
    <2>1. \A x \in 1..(m + 1) : x \in 1..m \/ x = m + 1
        OBVIOUS
    <2> HIDE DEF Correct
    <2> QED  BY <1>2, <1>3, <2>1
<1> HIDE DEF S
<1>4. \A m \in Nat : m \in S
    BY <1>1, <1>3, NatSetInduction
<1> QED
    BY <1>4 DEF S

\* isqrt is the integer square root (ctf-math/src/lib.rs:30-42: "Floor integer
\* square root via Newton's method").
THEOREM IsqrtCorrect ==
    ASSUME NEW n \in Nat
    PROVE  /\ isqrt(n) \in Nat
           /\ isqrt(n) * isqrt(n) <= n
           /\ n < (isqrt(n) + 1) * (isqrt(n) + 1)
<1>1. CASE n < 2
    <2>1. isqrt(n) = n /\ n \in {0, 1}
        BY <1>1 DEF isqrt
    <2> QED  BY <2>1
<1>2. CASE n >= 2
    <2> DEFINE g == CHOOSE g : IsRootTable(g, n, n)
    <2>1. IsRootTable(g, n, n)
        BY <1>2, RootTableExists
    <2>2. isqrt(n) = g[n]
        BY <1>2 DEF isqrt, IsRootTable
    <2>3. n < (n + 1) * (n + 1)
        OBVIOUS
    <2> HIDE DEF g
    <2> QED  BY <1>2, <2>1, <2>2, <2>3, RootTableCorrect
<1> QED
    BY <1>1, <1>2

-----------------------------------------------------------------------------

\* The discriminant of a sale from reserves rin and b: with a = rin + eff it
\* is the square of a - b plus four times the product of the reserves.
Disc(rin, b, eff) == (rin + eff - b) * (rin + eff - b) + 4 * (rin * b)

\* q is its integer root, and x half of a + b - q.
IsSale(q, x, rin, b, eff) ==
    /\ q * q <= Disc(rin, b, eff)
    /\ Disc(rin, b, eff) < (q + 1) * (q + 1)
    /\ rin + eff + b - q = 2 * x \/ rin + eff + b - q = 2 * x + 1

\* The payout of a sale is what the closed form says.
LEMMA SellOutRoot ==
    ASSUME NEW rin \in Nat \ {0}, NEW b \in Nat \ {0}, NEW eff \in Int
    PROVE  /\ Disc(rin, b, eff) \in Nat
           /\ cpmm_sell_out(rin, b, eff) \in Int
           /\ \E q \in Nat : IsSale(q, cpmm_sell_out(rin, b, eff), rin, b, eff)
<1> DEFINE a == rin + eff
           D == (a - b) * (a - b) + 4 * (rin * b)
           s == rin + eff + b
           q == isqrt(D)
           x == (s - q) \div 2
<1>1. a \in Int /\ s \in Int /\ rin * b \in Nat
    BY Division
<1>2. D \in Nat /\ D > 0
    <2>1. (a - b) * (a - b) >= 0 /\ rin * b > 0
        BY <1>1
    <2> QED  BY <1>1, <2>1
<1>3. s * s - 4 * (eff * b) = D
    OBVIOUS
<1>4. cpmm_sell_out(rin, b, eff) = x
    <2> HIDE DEF D
    <2> QED  BY <1>2, <1>3 DEF cpmm_sell_out
<1>5. q \in Nat /\ q * q <= D /\ D < (q + 1) * (q + 1)
    <2> HIDE DEF D
    <2> QED  BY <1>2, IsqrtCorrect
<1> HIDE DEF q, D
<1>6. x \in Int /\ (s - q = 2 * x \/ s - q = 2 * x + 1)
    BY <1>1, <1>5, Division
<1> HIDE DEF x
<1>7. a + b - q = 2 * x \/ a + b - q = 2 * x + 1
    BY <1>1, <1>5, <1>6
<1>8. IsSale(q, x, rin, b, eff)
    BY <1>5, <1>7 DEF D, Disc, IsSale
<1>9. Disc(rin, b, eff) \in Nat
    BY <1>2 DEF D, Disc
<1> QED
    BY <1>4, <1>5, <1>6, <1>8, <1>9

\* A sale of nothing, or of less, pays nothing.
LEMMA SellOutNeedsShares ==
    ASSUME NEW rin \in Nat \ {0}, NEW b \in Nat \ {0}, NEW eff \in Int, eff <= 0
    PROVE  cpmm_sell_out(rin, b, eff) <= 0
<1> DEFINE s == rin + eff + b
           D == (rin + eff - b) * (rin + eff - b) + 4 * (rin * b)
           x == cpmm_sell_out(rin, b, eff)
<1>0. PICK q \in Nat : IsSale(q, x, rin, b, eff)
    BY SellOutRoot
<1>1. /\ D < (q + 1) * (q + 1)
      /\ s - q = 2 * x \/ s - q = 2 * x + 1
    BY <1>0 DEF IsSale, Disc
<1>2. x \in Int
    BY SellOutRoot
<1>3. s * s <= D
    <2>1. eff * b <= 0
        BY Division
    <2>2. D = s * s - 4 * (eff * b)
        OBVIOUS
    <2>3. eff * b \in Int /\ s * s \in Int /\ D \in Int
        OBVIOUS
    <2> HIDE DEF s, D
    <2> QED  BY <2>1, <2>2, <2>3
<1>4. s * s \in Int /\ D \in Int /\ (q + 1) * (q + 1) \in Int /\ s \in Int
    OBVIOUS
<1> HIDE DEF s, D, x
<1>5. s <= q
    <2>1. CASE s < 0
        BY <1>4, <2>1
    <2>2. CASE s >= 0
        <3>1. s * s < (q + 1) * (q + 1)
            BY <1>1, <1>3, <1>4
        <3>2. s \in Nat /\ q + 1 \in Nat
            BY <1>4, <2>2
        <3>3. s < q + 1
            BY <3>1, <3>2, SquareMonotone
        <3> QED  BY <1>4, <3>3
    <2> QED  BY <1>4, <2>1, <2>2
<1>6. x <= 0
    BY <1>1, <1>2, <1>4, <1>5
<1> QED
    BY <1>6 DEF x

\* A sale never pays out the whole reserve it pays into: the payout x stays
\* below reserve_in + effective_in (ctf-math/src/lib.rs:57-58, "the
\* economically valid root is the smaller one").
THEOREM SellOutLeavesReserve ==
    ASSUME NEW rin \in Nat \ {0}, NEW b \in Nat \ {0}, NEW eff \in Nat \ {0}
    PROVE  cpmm_sell_out(rin, b, eff) < rin + eff
<1> DEFINE a == rin + eff
           k == rin * b
           D == (a - b) * (a - b) + 4 * k
           x == cpmm_sell_out(rin, b, eff)
<1>0. PICK q \in Nat : IsSale(q, x, rin, b, eff)
    BY SellOutRoot
<1>1. /\ D < (q + 1) * (q + 1)
      /\ a + b - q = 2 * x \/ a + b - q = 2 * x + 1
    BY <1>0 DEF IsSale, Disc
<1>2. x \in Int /\ a \in Nat /\ a >= 2
    BY SellOutRoot
<1>3. k \in Int /\ k >= b
    <2>1. 1 * b <= rin * b
        OBVIOUS
    <2> QED  BY <2>1
<1> HIDE DEF a, k, x
<1> SUFFICES ASSUME x >= a PROVE FALSE
    BY <1>2 DEF a, x
<1>4. q <= b - a
    BY <1>1, <1>2
<1>5. (q + 1) * (q + 1) <= (b - a + 1) * (b - a + 1)
    BY <1>2, <1>4, SquareMonotone
<1>6. (b - a + 1) * (b - a + 1) = (a - b) * (a - b) + 2 * (b - a) + 1
    BY <1>2
<1> DEFINE m == (a - b) * (a - b)
<1>7. m \in Int
    BY <1>2
<1>8. m + 4 * k < (q + 1) * (q + 1) /\ (q + 1) * (q + 1) <= m + 2 * (b - a) + 1
    BY <1>1, <1>5, <1>6
<1>9. (q + 1) * (q + 1) \in Int
    OBVIOUS
<1> HIDE DEF m
<1> QED
    BY <1>2, <1>3, <1>7, <1>8, <1>9

\* A sale takes less than one share of rounding per reserve: with one share
\* added to each, the reserves it leaves multiply to more than before.
THEOREM SaleRounding ==
    ASSUME NEW rin \in Nat \ {0}, NEW b \in Nat \ {0}, NEW eff \in Int
    PROVE  rin * b < (rin + eff - cpmm_sell_out(rin, b, eff) + 1)
                        * (b - cpmm_sell_out(rin, b, eff) + 1)
<1> DEFINE a == rin + eff
           k == rin * b
           x == cpmm_sell_out(rin, b, eff)
           t == a + b - 2 * x
<1>1. PICK q \in Nat : IsSale(q, x, rin, b, eff)
    BY SellOutRoot
<1>2. /\ (a - b) * (a - b) + 4 * k < (q + 1) * (q + 1)
      /\ t = q \/ t = q + 1
    <2>1. x \in Int
        BY SellOutRoot
    <2> QED  BY <1>1, <2>1 DEF IsSale, Disc
<1>3. a \in Int /\ k \in Int /\ x \in Int /\ t \in Nat
    <2>1. a \in Int /\ k \in Int
        OBVIOUS
    <2>2. x \in Int
        BY SellOutRoot
    <2> HIDE DEF t
    <2>3. t \in Nat
        BY <1>2
    <2> QED  BY <2>1, <2>2, <2>3
<1> HIDE DEF a, k, x
<1>4. (q + 1) * (q + 1) <= (t + 2) * (t + 2)
    <2>1. q + 1 \in Nat /\ t + 2 \in Nat /\ q + 1 <= t + 2
        BY <1>2, <1>3
    <2> HIDE DEF t
    <2> QED  BY <2>1, SquareMonotone
<1>5. 4 * ((a - x + 1) * (b - x + 1)) = (t + 2) * (t + 2) - (a - b) * (a - b)
    BY <1>3
<1> DEFINE M == (a - b) * (a - b)
           P == (a - x + 1) * (b - x + 1)
           V == (t + 2) * (t + 2)
           W == (q + 1) * (q + 1)
<1>6. M \in Int /\ P \in Int /\ V \in Int /\ W \in Int
    BY <1>3
<1>7. M + 4 * k < W /\ W <= V /\ 4 * P = V - M
    BY <1>2, <1>4, <1>5
<1>8. k < P
    <2> HIDE DEF M, P, V, W
    <2> QED  BY <1>3, <1>6, <1>7
<1> QED
    BY <1>3, <1>8 DEF a, k, x

\* The same of a swap: only the reserve it takes from is rounded.  It never
\* takes more than that reserve.
THEOREM SwapRounding ==
    ASSUME NEW rin \in Nat \ {0}, NEW b \in Nat \ {0}, NEW eff \in Int, rin + eff > 0
    PROVE  LET out == cpmm_out(rin, b, eff)
           IN  /\ out \in Int
               /\ out <= b
               /\ rin * b < (rin + eff) * (b - out + 1)
<1> DEFINE a == rin + eff
           k == rin * b
           rest == k \div a
<1>1. a \in Nat \ {0} /\ k \in Nat
    OBVIOUS
<1> HIDE DEF a, k
<1>2. rest \in Int /\ a * rest <= k /\ k < a * rest + a
    BY <1>1, Division
<1> HIDE DEF rest
<1>3. rest >= 0
    <2> SUFFICES ASSUME rest + 1 <= 0 PROVE FALSE
        BY <1>2
    <2>1. a * (rest + 1) <= 0
        BY <1>1, <1>2
    <2>2. a * (rest + 1) = a * rest + a
        BY <1>1, <1>2
    <2>3. a * rest \in Int
        BY <1>1, <1>2
    <2> QED  BY <1>1, <1>2, <2>1, <2>2, <2>3
<1>4. cpmm_out(rin, b, eff) = b - rest
    BY DEF cpmm_out, rest, a, k
<1>5. a * rest + a = a * (rest + 1)
    BY <1>1, <1>2
<1>6. k < a * (b - (b - rest) + 1)
    BY <1>1, <1>2, <1>5
<1> QED
    BY <1>2, <1>3, <1>4, <1>6 DEF a, k

\* The payout z of a sale is no more than what is exact: with a and b the reserves
\* before the payout, the product left falls short of the product before the sale
\* by at most half of the shares left.
LEMMA SaleCeiling ==
    ASSUME NEW rin \in Nat \ {0}, NEW b \in Nat \ {0}, NEW eff \in Int
    PROVE  LET z == cpmm_sell_out(rin, b, eff)
               alpha == rin + eff - z
               beta == b - z
           IN  /\ z \in Int /\ alpha \in Int /\ beta \in Int
               /\ alpha + beta >= 0
               /\ 4 * (rin * b) <= 4 * (alpha * beta) + 2 * (alpha + beta)
<1> DEFINE z == cpmm_sell_out(rin, b, eff)
           alpha == rin + eff - z
           beta == b - z
           t == alpha + beta
           k == rin * b
           M == (rin + eff - b) * (rin + eff - b)
<1>1. PICK q \in Nat : IsSale(q, z, rin, b, eff)
    BY SellOutRoot
<1>2. z \in Int /\ k \in Int
    BY SellOutRoot
<1>3. /\ M + 4 * k < (q + 1) * (q + 1)
      /\ rin + eff + b - q = 2 * z \/ rin + eff + b - q = 2 * z + 1
    BY <1>1 DEF IsSale, Disc
<1> HIDE DEF z, k
<1>4. alpha \in Int /\ beta \in Int /\ t \in Int /\ M \in Int
    BY <1>2
<1>5. t = q \/ t = q + 1
    BY <1>2, <1>3
<1>6. M = (alpha - beta) * (alpha - beta)
    BY <1>2
<1> HIDE DEF alpha, beta
<1>7. (q + 1) * (q + 1) <= (t + 1) * (t + 1)
    <2> HIDE DEF t
    <2>1. q + 1 \in Nat /\ t + 1 \in Nat /\ q + 1 <= t + 1
        BY <1>4, <1>5
    <2> QED  BY <2>1, SquareMonotone
<1>8. (t + 1) * (t + 1) - (alpha - beta) * (alpha - beta)
        = 4 * (alpha * beta) + 2 * (alpha + beta) + 1
    BY <1>4
<1> DEFINE T == (t + 1) * (t + 1)
           Q == (q + 1) * (q + 1)
           P == alpha * beta
<1>9. T \in Int /\ Q \in Int /\ P \in Int
    BY <1>4
<1>10. M + 4 * k < Q /\ Q <= T /\ T - M = 4 * P + 2 * t + 1
    BY <1>3, <1>6, <1>7, <1>8
<1>11. 4 * k <= 4 * P + 2 * t
    <2> HIDE DEF T, Q, P, M, t
    <2> QED  BY <1>2, <1>4, <1>9, <1>10
<1>12. alpha + beta >= 0
    BY <1>4, <1>5
<1> QED
    BY <1>2, <1>4, <1>11, <1>12 DEF z, alpha, beta, k

\* Whoever buys and sells all of it back at once, in one sale, gets at most two
\* units more than was paid, at whatever reserves and for whatever amount, because
\* no trade takes half of a reserve (market/src/lib.rs:500-506, the depth check).
\* The purchase may be one that costs shares: eff may be negative.
THEOREM PurchaseSoldBack ==
    ASSUME NEW x \in Nat \ {0}, NEW y \in Nat \ {0}, NEW amount \in Nat,
           NEW eff \in Int, eff <= amount, y + eff > 0,
           2 * cpmm_out(y, x, eff) < x,
           NEW back \in Int, back <= amount + cpmm_out(y, x, eff)
    PROVE  cpmm_sell_out(x - cpmm_out(y, x, eff), y + amount, back) <= amount + 2
<1> DEFINE out == cpmm_out(y, x, eff)
           rest == (y * x) \div (y + eff)
           a == y + eff
           b == y + amount
           k == y * x
<1>1. a \in Nat \ {0} /\ b \in Nat \ {0} /\ k \in Nat /\ a <= b
    OBVIOUS
<1>2. rest \in Int /\ a * rest <= k /\ k < a * rest + a
    <2> HIDE DEF a, k
    <2>1. k \div a \in Int /\ a * (k \div a) <= k /\ k < a * (k \div a) + a
        BY <1>1, Division
    <2> QED  BY <2>1 DEF a, k
<1>3. out = x - rest
    BY DEF cpmm_out
<1> HIDE DEF out, rest
<1>4. rest \in Nat \ {0} /\ 2 * rest > x
    BY <1>2, <1>3 DEF out
<1>5. a < 2 * y
    <2>1. SUFFICES ASSUME a >= 2 * y PROVE FALSE
        BY <1>1
    <2>2. a * rest >= (2 * y) * rest
        BY <1>1, <1>4, <2>1
    <2>3. (2 * y) * rest = y * (2 * rest) /\ y * (2 * rest) >= y * (x + 1)
        BY <1>4
    <2>4. y * (x + 1) = k + y
        OBVIOUS
    <2>5. a * rest \in Int /\ (2 * y) * rest \in Int
        BY <1>1, <1>4
    <2> HIDE DEF a, b, k
    <2> QED  BY <1>1, <1>2, <2>2, <2>3, <2>4, <2>5
<1>6. rest * b > k - 2 * y + 1
    <2>1. rest * b >= a * rest
        BY <1>1, <1>4
    <2>2. rest * b \in Int /\ a * rest \in Int
        BY <1>1, <1>4
    <2> HIDE DEF a, b, k
    <2> QED  BY <1>1, <1>2, <1>5, <2>1, <2>2
<1> DEFINE z == cpmm_sell_out(rest, b, back)
           alpha == rest + back - z
           beta == b - z
<1>7. /\ z \in Int /\ alpha \in Int /\ beta \in Int /\ alpha + beta >= 0
      /\ 4 * (rest * b) <= 4 * (alpha * beta) + 2 * (alpha + beta)
    BY <1>1, <1>4, SaleCeiling
<1>8. rest + back <= x + amount
    BY <1>2, <1>3 DEF out
<1>9. z = cpmm_sell_out(x - cpmm_out(y, x, eff), y + amount, back)
    <2>1. x - cpmm_out(y, x, eff) = rest
        BY <1>2, <1>3 DEF out
    <2> QED  BY <2>1
<1> HIDE DEF z, b
<1>10. SUFFICES ASSUME z >= amount + 3 PROVE FALSE
    BY <1>7, <1>9
<1>11. alpha <= x - 3 /\ beta <= y - 3
    BY <1>2, <1>7, <1>8, <1>10 DEF b
<1> HIDE DEF alpha, beta
<1>12. rest * b \in Nat \ {0}
    BY <1>1, <1>4
<1>13. alpha >= 0 /\ beta >= 0
    <2>1. ASSUME NEW u \in Int, NEW v \in Int, u + v >= 0, u < 0
          PROVE  4 * (u * v) + 2 * (u + v) <= 0
        <3>1. (u + 1) * v <= 0
            BY <2>1
        <3>2. u * v <= -v
            BY <2>1, <3>1
        <3>3. u * v \in Int
            BY <2>1
        <3> QED  BY <2>1, <3>2, <3>3
    <2>2. alpha * beta = beta * alpha /\ alpha * beta \in Int
        BY <1>7
    <2>3. alpha < 0 => 4 * (alpha * beta) + 2 * (alpha + beta) <= 0
        BY <1>7, <2>1
    <2>4. beta < 0 => 4 * (beta * alpha) + 2 * (beta + alpha) <= 0
        BY <1>7, <2>1
    <2> QED  BY <1>7, <1>12, <2>2, <2>3, <2>4
<1>14. alpha * beta <= k - 3 * x - 3 * y + 9
    <2>1. alpha * beta <= (x - 3) * beta
        BY <1>7, <1>11, <1>13
    <2>2. (x - 3) * beta <= (x - 3) * (y - 3)
        BY <1>7, <1>11, <1>13
    <2>3. (x - 3) * (y - 3) = k - 3 * x - 3 * y + 9
        OBVIOUS
    <2>4. alpha * beta \in Int /\ (x - 3) * beta \in Int
        BY <1>7
    <2> HIDE DEF k
    <2> QED  BY <1>1, <2>1, <2>2, <2>3, <2>4
<1>15. alpha * beta \in Int
    BY <1>7
<1> QED
    <2> DEFINE r == rest * b
               p == alpha * beta
    <2>1. /\ r \in Int /\ p \in Int
          /\ r > k - 2 * y + 1
          /\ 4 * r <= 4 * p + 2 * (alpha + beta)
          /\ p <= k - 3 * x - 3 * y + 9
        BY <1>6, <1>7, <1>12, <1>14, <1>15
    <2> HIDE DEF r, p, k
    <2> QED  BY <1>1, <1>7, <1>11, <1>13, <2>1

\* The remainder a conversion to u32 keeps is a natural number, and no more than
\* the one it is taken of.
LEMMA Remainder ==
    ASSUME NEW n \in Int
    PROVE  /\ n % U32_RANGE \in Nat
           /\ n \in Nat => n % U32_RANGE <= n
<1>1. U32_RANGE \in Nat \ {0}
    BY WidthConstants
<1>2. \A m \in Nat \ {0} : n % m \in Nat /\ (n \in Nat => n % m <= n)
    <2> SUFFICES ASSUME NEW m \in Nat \ {0}
                 PROVE  n % m \in Nat /\ (n \in Nat => n % m <= n)
        OBVIOUS
    <2>1. n % m \in Nat /\ n = m * (n \div m) + (n % m) /\ n \div m \in Int
        OBVIOUS
    <2>2. n \in Nat => n \div m >= 0
        OBVIOUS
    <2>3. n \in Nat => m * (n \div m) >= 0
        BY <2>1, <2>2
    <2>4. m * (n \div m) \in Int
        BY <2>1
    <2> QED  BY <2>1, <2>3, <2>4
<1> QED
    BY <1>1, <1>2

\* What is left of the spread is an integer for every supply but 0.
LEMMA DecayedInt ==
    ASSUME NEW spread \in Int, NEW supply \in Int \ {0}
    PROVE  decayed(spread, supply) \in Int
<1>1. CASE supply > 0
    BY <1>1, Division DEF decayed
<1>2. CASE supply < 0
    <2>1. -supply \in Nat \ {0}
        BY <1>2
    <2>2. spread \div (-supply) \in Int
        BY <2>1, Division
    <2> QED  BY <1>2, <2>2 DEF decayed
<1> QED
    BY <1>1, <1>2

\* The fee is never negative, so a trade never works with more shares than the
\* trader brings.
LEMMA FeeOnlyTakes ==
    ASSUME NEW base \in Nat, NEW min \in Nat, NEW liquidity \in Nat,
           NEW supply \in Int \ {0}, NEW amount \in Nat
    PROVE  LET eff == apply_fee(amount, effective_fee_bps(base, min, liquidity, supply))
           IN  eff \in Int /\ eff <= amount
<1> DEFINE raw == min + decayed((base - min) * liquidity, supply)
           fee == raw % U32_RANGE
           taken == (amount * fee) \div 10000
<1>1. (base - min) * liquidity \in Int
    OBVIOUS
<1>2. raw \in Int
    BY <1>1, DecayedInt
<1> HIDE DEF raw
<1>3. fee \in Nat
    BY <1>2, Remainder
<1> HIDE DEF fee
<1>4. amount * fee \in Nat
    BY <1>3
<1>5. taken \in Nat
    <2>1. \A c \in Nat : c \div 10000 \in Nat
        OBVIOUS
    <2> QED  BY <1>4, <2>1
<1>6. apply_fee(amount, effective_fee_bps(base, min, liquidity, supply)) = amount - taken
    BY DEF apply_fee, effective_fee_bps, raw, fee, taken
<1> HIDE DEF taken
<1> QED
    BY <1>5, <1>6

\* A fee of at most 100 % leaves a purchase worth no less than nothing.
LEMMA FeeLeavesTrade ==
    ASSUME NEW amount \in Nat, NEW fee \in Nat, fee <= 10000
    PROVE  apply_fee(amount, fee) \in Nat
<1> DEFINE m == amount * fee
<1>1. m \in Nat /\ m <= 10000 * amount
    <2>1. amount * fee <= amount * 10000
        OBVIOUS
    <2> QED  BY <2>1
<1> HIDE DEF m
<1>2. m \div 10000 \in Nat /\ m \div 10000 <= amount
    BY <1>1
<1> QED
    BY <1>2 DEF apply_fee, m

LEMMA SwapNotNegative ==
    ASSUME NEW rin \in Nat \ {0}, NEW b \in Nat \ {0}, NEW eff \in Nat
    PROVE  cpmm_out(rin, b, eff) >= 0
<1> DEFINE a == rin + eff
           k == rin * b
           rest == k \div a
<1>1. a \in Nat \ {0} /\ k \in Nat
    OBVIOUS
<1>2. k <= a * b
    OBVIOUS
<1>3. a * b \in Int /\ a * (b + 1) = a * b + a
    OBVIOUS
<1> HIDE DEF a, k
<1>4. rest \in Int /\ a * rest <= k
    BY <1>1, Division
<1> HIDE DEF rest
<1>5. rest <= b
    <2> SUFFICES ASSUME rest >= b + 1 PROVE FALSE
        BY <1>4
    <2>1. a * rest >= a * (b + 1)
        BY <1>1, <1>4
    <2>2. a * rest \in Int
        BY <1>1, <1>4
    <2> QED  BY <1>1, <1>2, <1>3, <1>4, <2>1, <2>2
<1> QED
    BY <1>4, <1>5 DEF cpmm_out, rest, a, k

\* The fee stays within 100 % while the supply is large enough for the spread.
LEMMA FeeCapped ==
    ASSUME NEW base \in Nat, NEW min \in Nat, min <= base, min <= 10000,
           NEW liquidity \in Nat, NEW supply \in Nat \ {0},
           (base - min) * liquidity <= (10000 - min) * supply
    PROVE  effective_fee_bps(base, min, liquidity, supply) <= 10000
<1> DEFINE spread == (base - min) * liquidity
           c == 10000 - min
           d == spread \div supply
<1>1. spread \in Nat /\ c \in Nat /\ spread <= c * supply
    <2>1. base - min \in Nat
        OBVIOUS
    <2> QED  BY <2>1
<1> HIDE DEF spread
<1>2. d \in Nat /\ supply * d <= spread
    <2>1. d \in Int /\ supply * d <= spread
        BY <1>1, Division
    <2>2. d >= 0
        BY <1>1
    <2> QED  BY <2>1, <2>2
<1> HIDE DEF c, d
<1>3. d <= c
    <2> SUFFICES ASSUME d >= c + 1 PROVE FALSE
        BY <1>1, <1>2
    <2>1. supply * d >= supply * (c + 1)
        BY <1>1, <1>2
    <2>2. supply * (c + 1) = c * supply + supply /\ supply * d \in Int /\ c * supply \in Int
        BY <1>1, <1>2
    <2> QED  BY <1>1, <1>2, <2>1, <2>2
<1>4. min + d \in Nat /\ min + d <= 10000
    BY <1>1, <1>2, <1>3 DEF c
<1>5. effective_fee_bps(base, min, liquidity, supply) = (min + d) % U32_RANGE
    BY DEF effective_fee_bps, decayed, spread, d
<1>6. (min + d) % U32_RANGE <= min + d /\ (min + d) % U32_RANGE \in Nat
    BY <1>4, Remainder
<1> QED
    BY <1>4, <1>5, <1>6

-----------------------------------------------------------------------------
\* The conversion of a quote and the comparison with it.

\* A quotient rounds to within half of the divisor.
LEMMA NearestQuotient ==
    ASSUME NEW p \in Nat, NEW u \in Nat \ {0}
    PROVE  LET q == (p + u \div 2) \div u
           IN  /\ q \in Nat
               /\ 2 * (q * u - p) <= u
               /\ 2 * (p - q * u) <= u
<1> DEFINE half == u \div 2
           q == (p + half) \div u
<1>1. half \in Nat /\ 2 * half <= u /\ u <= 2 * half + 1
    OBVIOUS
<1> HIDE DEF half
<1>2. q \in Int /\ u * q <= p + half /\ p + half < u * q + u
    BY <1>1, Division
<1>3. q \in Nat
    <2>1. p + half \in Nat
        BY <1>1
    <2> HIDE DEF q
    <2>2. q < 0 => u * q + u <= 0
        <3>1. q < 0 => u * (q + 1) <= 0
            BY <1>2
        <3> QED  BY <1>2, <3>1
    <2> QED  BY <1>2, <2>1, <2>2
<1> HIDE DEF q
<1>4. u * q = q * u /\ q * u \in Int
    BY <1>2
<1>5. 2 * (q * u - p) <= u /\ 2 * (p - q * u) <= u
    BY <1>1, <1>2, <1>4
<1> QED
    BY <1>3, <1>5 DEF q, half

\* A quote in cents is the quote, up to half a cent, on either side of zero.
LEMMA QuoteRounding ==
    ASSUME NEW price \in Int, NEW decimals \in Nat, decimals >= 2
    PROVE  LET unit == pow10(decimals - 2)
               quote == reflector_price_to_cents(price, decimals)
           IN  /\ unit \in Nat \ {0}
               /\ quote \in Int
               /\ 2 * Magnitude(quote * unit - price) <= unit
<1> DEFINE unit == pow10(decimals - 2)
           quote == reflector_price_to_cents(price, decimals)
<1>1. unit \in Nat \ {0}
    BY PowerOfTen
<1>2. quote = IF price >= 0 THEN (price + unit \div 2) \div unit
                            ELSE -((unit \div 2 - price) \div unit)
    BY DEF reflector_price_to_cents
<1> HIDE DEF unit, quote
<1>3. ASSUME price >= 0
      PROVE  quote \in Int /\ 2 * Magnitude(quote * unit - price) <= unit
    <2>1. price \in Nat /\ quote = (price + unit \div 2) \div unit
        BY <1>2, <1>3
    <2>2. /\ quote \in Nat
          /\ 2 * (quote * unit - price) <= unit
          /\ 2 * (price - quote * unit) <= unit
        BY <1>1, <2>1, NearestQuotient
    <2>3. quote * unit - price \in Int
        BY <1>1, <2>2
    <2>4. 2 * Magnitude(quote * unit - price) <= unit
        BY <1>1, <2>2, <2>3 DEF Magnitude
    <2> QED  BY <2>2, <2>4
<1>4. ASSUME price < 0
      PROVE  quote \in Int /\ 2 * Magnitude(quote * unit - price) <= unit
    <2> DEFINE p == -price
               q == (p + unit \div 2) \div unit
    <2>1. p \in Nat /\ p + unit \div 2 = unit \div 2 - price
        BY <1>1, <1>4
    <2>2. quote = -q
        BY <1>2, <1>4, <2>1
    <2>3. /\ q \in Nat
          /\ 2 * (q * unit - p) <= unit
          /\ 2 * (p - q * unit) <= unit
        BY <1>1, <2>1, NearestQuotient
    <2> HIDE DEF q
    <2>4. quote * unit - price = p - q * unit /\ q * unit \in Int
        BY <1>1, <2>2, <2>3
    <2>5. 2 * Magnitude(quote * unit - price) <= unit
        BY <1>1, <2>1, <2>3, <2>4 DEF Magnitude
    <2> QED  BY <2>2, <2>3, <2>5
<1>5. quote \in Int /\ 2 * Magnitude(quote * unit - price) <= unit
    BY <1>3, <1>4
<1> QED
    BY <1>1, <1>5 DEF unit, quote

\* With a tolerance below 10000 bps a quote of no cents agrees with nothing, and
\* the quotient that rounds down hides less than one basis point.
LEMMA DivergenceBounded ==
    ASSUME NEW reference \in Int, NEW cents \in Int, NEW tolerance \in Nat,
           tolerance < 10000, divergence_bps(reference, cents) <= tolerance
    PROVE  10000 * Magnitude(reference - cents) < (tolerance + 1) * Magnitude(cents)
<1> DEFINE d == Magnitude(reference - cents) * 10000
           m == Magnitude(cents)
<1>1. cents # 0
    BY DEF divergence_bps
<1>2. d \in Nat /\ m \in Nat \ {0} /\ d = 10000 * Magnitude(reference - cents)
    BY <1>1 DEF Magnitude
<1>3. d \div m <= tolerance
    BY <1>1 DEF divergence_bps
<1> HIDE DEF d, m
<1>4. d \div m \in Int /\ d < m * (d \div m) + m
    BY <1>2, Division
<1>5. m * (d \div m) <= m * tolerance
    BY <1>2, <1>3, <1>4
<1>6. d < m * tolerance + m
    BY <1>2, <1>4, <1>5
<1>7. d < (tolerance + 1) * m
    BY <1>2, <1>6
<1> QED
    BY <1>2, <1>7 DEF m
=============================================================================
