---------------------------- MODULE EscrowProofs ----------------------------
(***************************************************************************)
(* What Escrow promises, for every number of addresses and any funds: what *)
(* is locked covers every claim.  Whatever implements Escrow inherits it.  *)
(***************************************************************************)
EXTENDS Escrow, ShareLedgerProofs

\* Before it closes nothing is due; nobody is due less than nothing.
Accounted ==
    /\ phase \in {"Empty", "Open", "Closed"}
    /\ locked \in Nat
    /\ due \in [Addr -> Nat]
    /\ wallet \in [Addr -> Nat]
    /\ phase # "Closed" => due = [a \in Addr |-> 0]
    /\ Covered

\* Nothing is claimed before the outcome, so what is locked covers it.
LEMMA AccountedInit ==
    ASSUME Funds \in [Addr -> Nat], Init
    PROVE  Accounted
<1>1. Total(due) = 0
    BY TotalZero DEF Init
<1> QED
    BY <1>1 DEF Init, Accounted, Covered

\* Every step of an escrow keeps locked at least what all claims come to.
LEMMA AccountedStep ==
    ASSUME Accounted, [Next]_escrow
    PROVE  Accounted'
<1>0. /\ due \in [Addr -> Int] /\ Total(due) \in Nat
      /\ \A a \in Addr : due[a] \in Nat /\ wallet[a] \in Nat
    BY TotalBoundsEach DEF Accounted
<1>1. ASSUME NEW user \in Addr, NEW amount \in 1..wallet[user], Lock(user, amount)
      PROVE  Accounted'
    <2>1. amount \in Nat /\ locked' = locked + amount /\ phase' = "Open" /\ phase # "Closed"
          /\ due' = due /\ wallet' \in [Addr -> Nat]
        BY <1>0, <1>1 DEF Lock, Accounted
    <2> QED  BY <1>0, <2>1 DEF Accounted, Covered
<1>2. ASSUME NEW user \in Addr, NEW amount \in 1..locked, Release(user, amount)
      PROVE  Accounted'
    <2>1. /\ locked' = locked - amount /\ locked' \in Nat
          /\ phase = "Open" /\ UNCHANGED <<phase, due>> /\ wallet' \in [Addr -> Nat]
        BY <1>2 DEF Release, Accounted
    <2>2. Total(due) = 0
        BY <2>1, TotalZero DEF Accounted
    <2> QED  BY <2>1, <2>2 DEF Accounted, Covered
<1>3. ASSUME NEW user \in Addr, NEW amount \in 1..wallet[user], Lose(user, amount)
      PROVE  Accounted'
    BY <1>3 DEF Lose, Accounted, Covered
<1>4. ASSUME NEW from \in Addr, NEW to \in Addr, NEW halves \in 1..due[from],
             Move(from, to, halves)
      PROVE  Accounted'
    <2> DEFINE mid == [due EXCEPT ![from] = due[from] - halves]
    <2>1. /\ halves \in Nat \ {0} /\ due[from] >= halves /\ due[from] \in Nat
          /\ UNCHANGED <<phase, locked, wallet>>
        BY <1>0, <1>4 DEF Move
    <2>2. mid \in [Addr -> Nat] /\ mid \in [Addr -> Int]
        BY <2>1 DEF Accounted
    <2>3. Total(mid) = Total(due) - halves
        <3>1. due[from] - halves \in Int
            BY <2>1
        <3>2. Total(mid) = Total(due) - due[from] + (due[from] - halves)
            BY <1>0, <3>1, TotalUpdate
        <3> HIDE DEF mid
        <3> QED  BY <1>0, <2>1, <3>2
    <2>4. due' = [mid EXCEPT ![to] = mid[to] + halves]
        BY <1>4 DEF Move
    <2> HIDE DEF mid
    <2>5. mid[to] \in Nat /\ mid[to] + halves \in Nat
        BY <2>1, <2>2
    <2>6. Total(due') = Total(due)
        <3>1. Total(due') = Total(mid) - mid[to] + (mid[to] + halves)
            <4>1. mid[to] + halves \in Int /\ mid \in [Addr -> Int]
                BY <2>2, <2>5
            <4>2. Total([mid EXCEPT ![to] = mid[to] + halves]) = Total(mid) - mid[to] + (mid[to] + halves)
                BY <4>1, TotalUpdate
            <4> QED  BY <2>4, <4>2
        <3> QED  BY <1>0, <2>1, <2>3, <2>5, <3>1
    <2>7. phase = "Closed"
        <3> SUFFICES ASSUME phase # "Closed" PROVE FALSE
            OBVIOUS
        <3>1. due[from] = 0
            BY DEF Accounted
        <3> QED  BY <2>1, <3>1
    <2>8. due' \in [Addr -> Nat]
        BY <2>2, <2>4, <2>5
    <2> QED  BY <2>1, <2>6, <2>7, <2>8 DEF Accounted, Covered
<1>5. ASSUME NEW user \in Addr, Pay(user)
      PROVE  Accounted'
    <2>1. /\ due' = [due EXCEPT ![user] = 0]
          /\ locked' = locked - due[user] \div 2
          /\ phase = "Closed" /\ phase' = phase
          /\ wallet' = [wallet EXCEPT ![user] = wallet[user] + due[user] \div 2]
        BY <1>5 DEF Pay
    <2>2. Total(due') = Total(due) - due[user]
        <3>1. Total([due EXCEPT ![user] = 0]) = Total(due) - due[user] + 0
            <4>1. due \in [Addr -> Int] /\ 0 \in Int
                BY <1>0
            <4> QED  BY <4>1, TotalUpdate
        <3> QED  BY <1>0, <2>1, <3>1
    <2>3. /\ due[user] \in Nat /\ due[user] <= Total(due) /\ due' \in [Addr -> Nat]
          /\ wallet' \in [Addr -> Nat]
        BY <1>0, <2>1, TotalBoundsEach DEF Accounted
    <2>4. locked' \in Nat /\ Total(due') <= 2 * locked'
        BY <1>0, <2>1, <2>2, <2>3 DEF Accounted, Covered
    <2> QED  BY <2>1, <2>3, <2>4 DEF Accounted, Covered
<1>6. ASSUME Close
      PROVE  Accounted'
    BY <1>6 DEF Close, Accounted, Covered
<1>7. CASE UNCHANGED escrow
    BY <1>7 DEF escrow, Accounted, Covered
<1> QED
    BY <1>1, <1>2, <1>3, <1>4, <1>5, <1>6, <1>7 DEF Next
\* What is locked covers every claim, whoever is paid in whatever order.
THEOREM ClaimsCovered ==
    ASSUME Funds \in [Addr -> Nat]
    PROVE  Spec => []Covered
<1>1. Init => Accounted
    BY AccountedInit
<1>2. Accounted /\ [Next]_escrow => Accounted'
    BY AccountedStep
<1>3. Accounted => Covered
    BY DEF Accounted
<1> QED
    BY <1>1, <1>2, <1>3, PTL DEF Spec
=============================================================================
