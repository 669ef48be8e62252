---------------------------- MODULE ShareLedger ----------------------------
(***************************************************************************)
(* The share ledger both market contracts keep in persistent storage under *)
(* DataKey::Balance(Prediction, Address): one balance per side and address.*)
(* The addresses are 1..N, so that the total of a side can be written as a *)
(* running sum.  set_balance removes a zero entry and balance_of reads a   *)
(* missing one as zero: both are the value 0 here.                         *)
(***************************************************************************)
EXTENDS Integers

CONSTANT N      \* how many addresses hold collateral or shares

ASSUME AddressCount == N \in Nat \ {0}

Addr == 1..N

Prediction == {"Yes", "No"}

other(side) == IF side = "Yes" THEN "No" ELSE "Yes"

Ledgers == [Prediction -> [Addr -> Nat]]

NoShares == [side \in Prediction |-> [a \in Addr |-> 0]]

credit(ledger, side, a, amount) == [ledger EXCEPT ![side][a] = @ + amount]

\* Fault: debit never looks at the balance.
DebitUnchecked(ledger, side, a, amount) == TRUE

\* debit fails with InsufficientBalance unless CanDebit holds.
CanDebit(ledger, side, a, amount) == ledger[side][a] >= amount

debit(ledger, side, a, amount) == [ledger EXCEPT ![side][a] = @ - amount]

\* Fault: redeem clears the balance on one side only.
ClearOneSide(ledger, a) == [ledger EXCEPT !["Yes"][a] = 0]

\* redeem's set_balance(.., 0) on both sides.
clear(ledger, a) == [ledger EXCEPT !["Yes"][a] = 0, !["No"][a] = 0]

\* The sum of f[1], ..., f[N].
Total(f) ==
    LET upto[i \in 0..N] == IF i = 0 THEN 0 ELSE upto[i - 1] + f[i]
    IN  upto[N]
=============================================================================
