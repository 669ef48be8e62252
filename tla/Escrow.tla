------------------------------- MODULE Escrow -------------------------------
(***************************************************************************)
(* What Market and Perpetual both promise about collateral, without a      *)
(* pool, shares, prices or fees.  Collateral is locked and released while  *)
(* the escrow is open.  Closing it decides, once, whose every locked unit  *)
(* is.  From then on a claim moves only from its owner, nothing is locked  *)
(* any more, and a claim is paid in full from what is locked.              *)
(*                                                                         *)
(* Claims are counted in halves of a unit: a share of a market without a   *)
(* winner is worth one half.  A payment rounds down to whole units.        *)
(***************************************************************************)
EXTENDS ShareLedger

CONSTANT Funds      \* collateral each address starts with

VARIABLES
    phase,
    locked,         \* collateral the escrow answers for
    due,            \* what each address may claim, in halves
    wallet

escrow == <<phase, locked, due, wallet>>

-----------------------------------------------------------------------------

Init ==
    /\ phase = "Empty"
    /\ locked = 0
    /\ due = [a \in Addr |-> 0]
    /\ wallet = Funds

Lock(user, amount) ==
    /\ phase # "Closed"
    /\ phase' = "Open"
    /\ locked' = locked + amount
    /\ wallet' = [wallet EXCEPT ![user] = @ - amount]
    /\ UNCHANGED due

Release(user, amount) ==
    /\ phase = "Open"
    /\ locked' = locked - amount
    /\ wallet' = [wallet EXCEPT ![user] = @ + amount]
    /\ UNCHANGED <<phase, due>>

Close ==
    /\ phase = "Open"
    /\ phase' = "Closed"
    /\ due' \in [Addr -> Nat]
    /\ Total(due') = 2 * locked
    /\ UNCHANGED <<locked, wallet>>

Move(from, to, halves) ==
    /\ due' = [[due EXCEPT ![from] = @ - halves] EXCEPT ![to] = @ + halves]
    /\ UNCHANGED <<phase, locked, wallet>>

Pay(user) ==
    /\ phase = "Closed"
    /\ due[user] \div 2 > 0
    /\ due' = [due EXCEPT ![user] = 0]
    /\ locked' = locked - due[user] \div 2
    /\ wallet' = [wallet EXCEPT ![user] = @ + due[user] \div 2]
    /\ UNCHANGED phase

\* Collateral somebody sends to the escrow's address is nobody's claim.
Lose(user, amount) ==
    /\ wallet' = [wallet EXCEPT ![user] = @ - amount]
    /\ UNCHANGED <<phase, locked, due>>

Next ==
    \/ \E user \in Addr :
          \/ \E amount \in 1..wallet[user] : Lock(user, amount) \/ Lose(user, amount)
          \/ \E amount \in 1..locked : Release(user, amount)
          \/ \E to \in Addr : \E halves \in 1..due[user] : Move(user, to, halves)
          \/ Pay(user)
    \/ Close

Spec == Init /\ [][Next]_escrow

-----------------------------------------------------------------------------

\* What is locked covers every claim, in whatever order claims are paid.
Covered == Total(due) <= 2 * locked
=============================================================================
