------------------------- MODULE ShareLedgerProofs -------------------------
(***************************************************************************)
(* What Total, the sum of a side of the ledger, does under the updates the *)
(* contracts make.  Induction over the naturals is stated for a set of     *)
(* naturals, so that it can be cited.                                      *)
(***************************************************************************)
EXTENDS ShareLedger, WellFoundedInduction, TLAPS

\* A set that holds 0 and the successor of each of its members holds every
\* natural number: otherwise the least one missing would be a successor.
LEMMA NatSetInduction ==
    ASSUME NEW S,
           0 \in S,
           \A n \in Nat : n \in S => n + 1 \in S
    PROVE  \A n \in Nat : n \in S
<1> SUFFICES ASSUME Nat \ S # {}
             PROVE  FALSE
    OBVIOUS
<1> DEFINE Below == {ss \in Nat \X Nat : ss[1] < ss[2]}
<1>1. IsWellFoundedOn(Below, Nat)
    BY NatLessThanWellFounded DEF OpToRel
<1>2. PICK m \in Nat \ S : \A k \in Nat \ S : ~ (<<k, m>> \in Below)
    <2> HIDE DEF Below
    <2> QED  BY <1>1, WFMin
<1>3. \A k \in Nat \ S : ~ (k < m)
    BY <1>2
<1>4. m # 0 /\ m - 1 \in Nat /\ m - 1 \in S
    BY <1>3
<1> QED
    BY <1>4

\* g is the table of the running sums of f up to n.
IsRunningSum(g, f, n) ==
    g = [i \in 0..n |-> IF i = 0 THEN 0 ELSE g[i - 1] + f[i]]

\* The recursive definition inside Total is met by some table, for every
\* length: extend the table of length n by one entry.
LEMMA RunningSumExists ==
    ASSUME NEW f
    PROVE  \A n \in Nat : \E g : IsRunningSum(g, f, n)
<1> DEFINE S == {n \in Nat : \E g : IsRunningSum(g, f, n)}
<1>1. 0 \in S
    <2>1. IsRunningSum([i \in 0..0 |-> 0], f, 0)
        BY DEF IsRunningSum
    <2> QED  BY <2>1
<1>2. ASSUME NEW n \in Nat, n \in S
      PROVE  n + 1 \in S
    <2>1. PICK g : IsRunningSum(g, f, n)
        BY <1>2
    <2> DEFINE h == [i \in 0..(n + 1) |-> IF i = n + 1 THEN g[n] + f[n + 1] ELSE g[i]]
    <2>2. \A i \in 0..(n + 1) : h[i] = IF i = 0 THEN 0 ELSE h[i - 1] + f[i]
        BY <2>1 DEF IsRunningSum
    <2>3. IsRunningSum(h, f, n + 1)
        BY <2>2 DEF IsRunningSum
    <2> HIDE DEF h
    <2> QED  BY <2>3
<1> HIDE DEF S
<1>3. \A n \in Nat : n \in S
    BY <1>1, <1>2, NatSetInduction
<1> QED
    BY <1>3 DEF S

\* What Total stands for: the last entry of the table of running sums.
LEMMA TotalUnfolds ==
    ASSUME NEW f
    PROVE  \E g : IsRunningSum(g, f, N) /\ Total(f) = g[N]
<1> DEFINE g == CHOOSE g : IsRunningSum(g, f, N)
<1>1. IsRunningSum(g, f, N)
    BY RunningSumExists, AddressCount
<1>2. Total(f) = g[N]
    BY DEF Total, IsRunningSum
<1> QED
    BY <1>1, <1>2

\* Running sums of integers are integers.
LEMMA RunningSumInt ==
    ASSUME NEW f \in [Addr -> Int], NEW g, IsRunningSum(g, f, N)
    PROVE  \A n \in 0..N : g[n] \in Int
<1> DEFINE S == {n \in Nat : n <= N => g[n] \in Int}
<1>1. 0 \in S
    BY AddressCount DEF IsRunningSum
<1>2. ASSUME NEW n \in Nat, n \in S
      PROVE  n + 1 \in S
    <2>1. n + 1 <= N => g[n + 1] = g[n] + f[n + 1]
        BY AddressCount DEF IsRunningSum
    <2> QED  BY <1>2, <2>1, AddressCount DEF Addr
<1> HIDE DEF S
<1>3. \A n \in Nat : n \in S
    BY <1>1, <1>2, NatSetInduction
<1> QED
    BY <1>3, AddressCount DEF S

\* The total of a side is an integer.
LEMMA TotalInt ==
    ASSUME NEW f \in [Addr -> Int]
    PROVE  Total(f) \in Int
BY TotalUnfolds, RunningSumInt, AddressCount

\* The total of a side nobody holds is 0.
LEMMA TotalZero ==
    Total([a \in Addr |-> 0]) = 0
<1> DEFINE f == [a \in Addr |-> 0]
<1>1. PICK g : IsRunningSum(g, f, N) /\ Total(f) = g[N]
    BY TotalUnfolds
<1> DEFINE S == {n \in Nat : n <= N => g[n] = 0}
<1>2. 0 \in S
    BY <1>1, AddressCount DEF IsRunningSum
<1>3. ASSUME NEW n \in Nat, n \in S
      PROVE  n + 1 \in S
    <2>1. n + 1 <= N => g[n + 1] = g[n] + f[n + 1]
        BY <1>1, AddressCount DEF IsRunningSum
    <2> QED  BY <1>3, <2>1, AddressCount DEF Addr
<1> HIDE DEF S
<1>4. \A n \in Nat : n \in S
    BY <1>2, <1>3, NatSetInduction
<1> QED
    BY <1>1, <1>4, AddressCount DEF S

\* Changing one entry changes the total by as much: running sums agree below
\* the entry and differ by v - f[a] from it on.
LEMMA TotalUpdate ==
    ASSUME NEW f \in [Addr -> Int], NEW a \in Addr, NEW v \in Int
    PROVE  Total([f EXCEPT ![a] = v]) = Total(f) - f[a] + v
<1> DEFINE e == [f EXCEPT ![a] = v]
<1>e. e \in [Addr -> Int] /\ e[a] = v /\ \A b \in Addr \ {a} : e[b] = f[b]
    OBVIOUS
<1>1. PICK g : IsRunningSum(g, f, N) /\ Total(f) = g[N]
    BY TotalUnfolds
<1>2. PICK h : IsRunningSum(h, e, N) /\ Total(e) = h[N]
    BY TotalUnfolds
<1>3. \A n \in 0..N : g[n] \in Int /\ h[n] \in Int
    BY <1>e, <1>1, <1>2, RunningSumInt
<1> HIDE DEF e
<1> DEFINE S == {n \in Nat : n <= N => h[n] = IF n < a THEN g[n] ELSE g[n] - f[a] + v}
<1>4. 0 \in S
    BY <1>1, <1>2, AddressCount DEF IsRunningSum, Addr
<1>5. ASSUME NEW n \in Nat, n \in S, n + 1 <= N
      PROVE  n + 1 \in S
    <2>1. n + 1 \in Addr /\ n \in 0..N /\ n + 1 \in 0..N
        BY <1>5, AddressCount DEF Addr
    <2>2. g[n + 1] = g[n] + f[n + 1] /\ h[n + 1] = h[n] + e[n + 1]
        BY <1>1, <1>2, <2>1 DEF IsRunningSum
    <2>3. h[n] = IF n < a THEN g[n] ELSE g[n] - f[a] + v
        BY <1>5, AddressCount
    <2>4. CASE n + 1 = a
        BY <1>e, <1>3, <2>1, <2>2, <2>3, <2>4
    <2>5. CASE n + 1 # a
        <3>1. e[n + 1] = f[n + 1] /\ f[n + 1] \in Int /\ f[a] \in Int
            BY <1>e, <2>1, <2>5
        <3> QED  BY <1>3, <2>1, <2>2, <2>3, <2>5, <3>1 DEF Addr
    <2> QED  BY <2>4, <2>5
<1>6. ASSUME NEW n \in Nat, n \in S
      PROVE  n + 1 \in S
    BY <1>5, <1>6, AddressCount
<1> HIDE DEF S
<1>7. \A n \in Nat : n \in S
    BY <1>4, <1>6, NatSetInduction
<1>8. h[N] = g[N] - f[a] + v
    BY <1>7, AddressCount DEF S, Addr
<1> QED
    BY <1>1, <1>2, <1>8 DEF e

\* With no negative balance, no holder has more than the total.
LEMMA TotalBoundsEach ==
    ASSUME NEW f \in [Addr -> Nat]
    PROVE  /\ Total(f) \in Nat
           /\ \A a \in Addr : f[a] <= Total(f)
<1>1. PICK g : IsRunningSum(g, f, N) /\ Total(f) = g[N]
    BY TotalUnfolds
<1>2. \A n \in 0..N : g[n] \in Int
    BY <1>1, RunningSumInt
<1> DEFINE S == {n \in Nat : n <= N => g[n] >= 0 /\ \A a \in 1..n : f[a] <= g[n]}
<1>3. 0 \in S
    BY <1>1, AddressCount DEF IsRunningSum
<1>4. ASSUME NEW n \in Nat, n \in S, n + 1 <= N
      PROVE  n + 1 \in S
    <2>1. n + 1 \in Addr /\ n \in 0..N /\ n + 1 \in 0..N
        BY <1>4, AddressCount DEF Addr
    <2>2. g[n + 1] = g[n] + f[n + 1]
        BY <1>1, <2>1 DEF IsRunningSum
    <2>3. g[n] >= 0 /\ \A a \in 1..n : f[a] <= g[n] /\ f[a] \in Nat
        BY <1>4, AddressCount DEF Addr
    <2>4. \A a \in 1..(n + 1) : a = n + 1 \/ a \in 1..n
        OBVIOUS
    <2> QED  BY <1>2, <2>1, <2>2, <2>3, <2>4
<1>5. ASSUME NEW n \in Nat, n \in S
      PROVE  n + 1 \in S
    BY <1>4, <1>5, AddressCount
<1> HIDE DEF S
<1>6. \A n \in Nat : n \in S
    BY <1>3, <1>5, NatSetInduction
<1> QED
    BY <1>1, <1>2, <1>6, AddressCount DEF S, Addr

\* Totals add up entry by entry.
LEMMA TotalSum ==
    ASSUME NEW f \in [Addr -> Int], NEW g \in [Addr -> Int]
    PROVE  Total([a \in Addr |-> f[a] + g[a]]) = Total(f) + Total(g)
<1> DEFINE e == [a \in Addr |-> f[a] + g[a]]
<1>1. PICK F : IsRunningSum(F, f, N) /\ Total(f) = F[N]
    BY TotalUnfolds
<1>2. PICK G : IsRunningSum(G, g, N) /\ Total(g) = G[N]
    BY TotalUnfolds
<1>3. PICK E : IsRunningSum(E, e, N) /\ Total(e) = E[N]
    BY TotalUnfolds
<1>4. \A n \in 0..N : F[n] \in Int /\ G[n] \in Int
    BY <1>1, <1>2, RunningSumInt
<1> DEFINE S == {n \in Nat : n <= N => E[n] = F[n] + G[n]}
<1>5. 0 \in S
    BY <1>1, <1>2, <1>3, AddressCount DEF IsRunningSum
<1>6. ASSUME NEW n \in Nat, n \in S
      PROVE  n + 1 \in S
    <2> SUFFICES ASSUME n + 1 <= N PROVE E[n + 1] = F[n + 1] + G[n + 1]
        OBVIOUS
    <2>1. n + 1 \in Addr /\ n \in 0..N /\ n + 1 \in 0..N
        BY AddressCount DEF Addr
    <2>2. F[n + 1] = F[n] + f[n + 1] /\ G[n + 1] = G[n] + g[n + 1]
        BY <1>1, <1>2, <2>1 DEF IsRunningSum
    <2>3. E[n + 1] = E[n] + (f[n + 1] + g[n + 1])
        <3>1. e[n + 1] = f[n + 1] + g[n + 1]
            BY <2>1
        <3> HIDE DEF e
        <3>2. E[n + 1] = E[n] + e[n + 1]
            BY <1>3, <2>1 DEF IsRunningSum
        <3> QED  BY <3>1, <3>2
    <2>4. f[n + 1] \in Int /\ g[n + 1] \in Int /\ E[n] = F[n] + G[n]
        BY <1>6, <2>1
    <2> QED  BY <1>4, <2>1, <2>2, <2>3, <2>4
<1> HIDE DEF S
<1>7. \A n \in Nat : n \in S
    BY <1>5, <1>6, NatSetInduction
<1> QED
    BY <1>1, <1>2, <1>3, <1>7, AddressCount DEF S

-----------------------------------------------------------------------------

\* A ledger that may hold balances below zero.
Signed == [Prediction -> [Addr -> Int]]

\* A balance of a ledger without overdrawn ones is at most its side's total.
LEMMA LedgerBalances ==
    ASSUME NEW L \in Ledgers, NEW side \in Prediction
    PROVE  /\ L[side] \in [Addr -> Nat]
           /\ L[side] \in [Addr -> Int]
           /\ Total(L[side]) \in Nat
           /\ \A a \in Addr : L[side][a] \in Nat /\ L[side][a] <= Total(L[side])
<1>1. L[side] \in [Addr -> Nat] /\ L[side] \in [Addr -> Int]
    BY DEF Ledgers
<1> QED
    BY <1>1, TotalBoundsEach

\* Without that, balances and totals are integers.
LEMMA SignedBalances ==
    ASSUME NEW L \in Signed, NEW side \in Prediction
    PROVE  /\ L[side] \in [Addr -> Int]
           /\ Total(L[side]) \in Int
           /\ \A a \in Addr : L[side][a] \in Int
<1>1. L[side] \in [Addr -> Int]
    BY DEF Signed
<1> QED
    BY <1>1, TotalInt

\* A ledger is one of those without overdrawn balances when it has none.
LEMMA NotOverdrawn ==
    ASSUME NEW L
    PROVE  L \in Ledgers <=> /\ L \in Signed
                             /\ \A side \in Prediction, a \in Addr : L[side][a] >= 0
<1>1. ASSUME L \in Signed, \A side \in Prediction, a \in Addr : L[side][a] >= 0
      PROVE  L \in Ledgers
    <2>1. \A side \in Prediction : L[side] \in [Addr -> Int]
        BY <1>1 DEF Signed
    <2>2. \A side \in Prediction : L[side] \in [Addr -> Nat]
        BY <1>1, <2>1
    <2>3. L = [side \in Prediction |-> L[side]]
        BY <1>1 DEF Signed
    <2> QED  BY <2>2, <2>3 DEF Ledgers
<1>2. ASSUME L \in Ledgers
      PROVE  L \in Signed /\ \A side \in Prediction, a \in Addr : L[side][a] >= 0
    <2>1. \A side \in Prediction : L[side] \in [Addr -> Int]
        BY <1>2 DEF Ledgers
    <2>2. L = [side \in Prediction |-> L[side]]
        BY <1>2 DEF Ledgers
    <2>3. L \in Signed
        BY <2>1, <2>2 DEF Signed
    <2> QED  BY <1>2, <2>3 DEF Ledgers
<1> QED
    BY <1>1, <1>2

\* What credit does, whatever the amount's sign.
LEMMA CreditLedger ==
    ASSUME NEW L \in Signed, NEW side \in Prediction, NEW a \in Addr, NEW v \in Int
    PROVE  /\ credit(L, side, a, v) \in Signed
           /\ Total(credit(L, side, a, v)[side]) = Total(L[side]) + v
           /\ \A s \in Prediction \ {side} : credit(L, side, a, v)[s] = L[s]
           /\ \A b \in Addr : credit(L, side, a, v)[side][b]
                                = IF b = a THEN L[side][b] + v ELSE L[side][b]
<1> DEFINE b == L[side][a]
           row == [L[side] EXCEPT ![a] = b + v]
<1>1. L[side] \in [Addr -> Int] /\ b \in Int /\ b + v \in Int
    BY SignedBalances
<1>2. credit(L, side, a, v) = [L EXCEPT ![side] = row]
    BY DEF credit, Signed
<1>3. row \in [Addr -> Int] /\ \A c \in Addr : row[c] = IF c = a THEN L[side][c] + v ELSE L[side][c]
    BY <1>1
<1>4. Total(row) = Total(L[side]) + v
    <2>1. Total(row) = Total(L[side]) - b + (b + v)
        BY <1>1, TotalUpdate
    <2> QED  BY <1>1, <2>1, TotalInt
<1> HIDE DEF row, b
<1>5. [L EXCEPT ![side] = row] \in Signed
    BY <1>3 DEF Signed
<1>6. [L EXCEPT ![side] = row][side] = row
    BY DEF Signed
<1>7. \A s \in Prediction \ {side} : [L EXCEPT ![side] = row][s] = L[s]
    BY DEF Signed
<1> QED
    BY <1>2, <1>3, <1>4, <1>5, <1>6, <1>7

\* debit is the credit of the negated amount.
LEMMA DebitLedger ==
    ASSUME NEW L \in Signed, NEW side \in Prediction, NEW a \in Addr, NEW v \in Int
    PROVE  /\ debit(L, side, a, v) \in Signed
           /\ Total(debit(L, side, a, v)[side]) = Total(L[side]) - v
           /\ \A s \in Prediction \ {side} : debit(L, side, a, v)[s] = L[s]
           /\ \A b \in Addr : debit(L, side, a, v)[side][b]
                                = IF b = a THEN L[side][b] - v ELSE L[side][b]
<1>1. Total(L[side]) \in Int /\ \A b \in Addr : L[side][b] \in Int
    BY SignedBalances
<1>2. debit(L, side, a, v) = credit(L, side, a, -v)
    BY <1>1 DEF debit, credit, Signed
<1>3. -v \in Int
    OBVIOUS
<1>4. /\ credit(L, side, a, -v) \in Signed
      /\ Total(credit(L, side, a, -v)[side]) = Total(L[side]) + (-v)
      /\ \A s \in Prediction \ {side} : credit(L, side, a, -v)[s] = L[s]
      /\ \A b \in Addr : credit(L, side, a, -v)[side][b]
                           = IF b = a THEN L[side][b] + (-v) ELSE L[side][b]
    BY <1>3, CreditLedger
<1> QED
    BY <1>1, <1>2, <1>4

\* clear takes a holder's shares of both sides out of circulation.
LEMMA ClearLedger ==
    ASSUME NEW L \in Signed, NEW a \in Addr
    PROVE  /\ clear(L, a) \in Signed
           /\ \A s \in Prediction : Total(clear(L, a)[s]) = Total(L[s]) - L[s][a]
           /\ \A s \in Prediction, b \in Addr :
                 clear(L, a)[s][b] = IF b = a THEN 0 ELSE L[s][b]
<1>1. clear(L, a) \in Signed
    BY DEF clear, Signed, Prediction
<1>2. ASSUME NEW s \in Prediction
      PROVE  /\ Total(clear(L, a)[s]) = Total(L[s]) - L[s][a]
             /\ \A b \in Addr : clear(L, a)[s][b] = IF b = a THEN 0 ELSE L[s][b]
    <2>1. clear(L, a)[s] = [L[s] EXCEPT ![a] = 0]
        BY DEF clear, Signed, Prediction
    <2>2. L[s] \in [Addr -> Int] /\ L[s][a] \in Int /\ Total(L[s]) \in Int
        BY SignedBalances
    <2>3. Total([L[s] EXCEPT ![a] = 0]) = Total(L[s]) - L[s][a] + 0
        BY <2>2, TotalUpdate
    <2> QED  BY <2>1, <2>2, <2>3
<1> QED
    BY <1>1, <1>2

\* The claims, in halves of a unit, when the shares of one side are whole units.
LEMMA WinnersClaims ==
    ASSUME NEW L \in Ledgers, NEW side \in Prediction
    PROVE  LET d == [a \in Addr |-> 2 * L[side][a]]
           IN  d \in [Addr -> Nat] /\ Total(d) = 2 * Total(L[side])
<1> DEFINE f == L[side]
<1>1. /\ f \in [Addr -> Int] /\ Total(f) \in Nat
      /\ \A a \in Addr : f[a] \in Nat
    BY LedgerBalances
<1> HIDE DEF f
<1>2. [a \in Addr |-> 2 * f[a]] = [a \in Addr |-> f[a] + f[a]]
    BY <1>1
<1>3. Total([a \in Addr |-> f[a] + f[a]]) = Total(f) + Total(f)
    BY <1>1, TotalSum
<1>4. [a \in Addr |-> 2 * f[a]] \in [Addr -> Nat]
    BY <1>1
<1>5. Total([a \in Addr |-> 2 * f[a]]) = 2 * Total(f)
    BY <1>1, <1>2, <1>3
<1> QED
    BY <1>4, <1>5 DEF f

\* The claims when every share is half a unit.
LEMMA HalvesClaims ==
    ASSUME NEW L \in Ledgers
    PROVE  LET d == [a \in Addr |-> L["Yes"][a] + L["No"][a]]
           IN  d \in [Addr -> Nat] /\ Total(d) = Total(L["Yes"]) + Total(L["No"])
<1> DEFINE f == L["Yes"]
           g == L["No"]
<1>0. "Yes" \in Prediction /\ "No" \in Prediction
    BY DEF Prediction
<1>1. /\ f \in [Addr -> Int] /\ g \in [Addr -> Int]
      /\ \A a \in Addr : f[a] \in Nat /\ g[a] \in Nat
    BY <1>0, LedgerBalances
<1> HIDE DEF f, g
<1>2. Total([a \in Addr |-> f[a] + g[a]]) = Total(f) + Total(g)
    BY <1>1, TotalSum
<1>3. [a \in Addr |-> f[a] + g[a]] \in [Addr -> Nat]
    BY <1>1
<1> QED
    BY <1>2, <1>3 DEF f, g

\* Shares moved from one address to another, which may be the same.
LEMMA MoveLedger ==
    ASSUME NEW L \in Signed, NEW side \in Prediction, NEW from \in Addr, NEW to \in Addr,
           NEW v \in Int
    PROVE  LET moved == credit(debit(L, side, from, v), side, to, v)
           IN  /\ moved[side] = [[L[side] EXCEPT ![from] = @ - v] EXCEPT ![to] = @ + v]
               /\ \A s \in Prediction \ {side} : moved[s] = L[s]
BY DEF credit, debit, Signed

\* What one address's balance is set to leaves those of another alone.
LEMMA OthersBalances ==
    ASSUME NEW L \in Signed, NEW side \in Prediction, NEW a \in Addr, NEW v,
           NEW b \in Addr, b # a
    PROVE  \A s \in Prediction :
              /\ credit(L, side, a, v)[s][b] = L[s][b]
              /\ debit(L, side, a, v)[s][b] = L[s][b]
              /\ clear(L, a)[s][b] = L[s][b]
BY DEF credit, debit, clear, Signed, Prediction

\* A credit lowers nobody's balance.
LEMMA CreditRaises ==
    ASSUME NEW L \in Signed, NEW side \in Prediction, NEW a \in Addr, NEW v \in Nat
    PROVE  \A s \in Prediction, b \in Addr : credit(L, side, a, v)[s][b] >= L[s][b]
<1>1. \A s \in Prediction, b \in Addr : L[s][b] \in Int
    BY SignedBalances
<1> QED
    BY <1>1 DEF credit, Signed
=============================================================================
