------------------------------- MODULE Vault -------------------------------
(***************************************************************************)
(* contracts/vault: pooled capital that anybody adds to and one admin      *)
(* takes out.  The vault is an address like others: it owns collateral and,*)
(* as the treasury of markets, shares.  It cannot sign, so whatever is     *)
(* done in its name is done by one of its own entry points.                *)
(*                                                                         *)
(* Its collateral is the token of the markets, as initialize's comment     *)
(* demands.  wallet is that token's, external to the vault.                *)
(***************************************************************************)
EXTENDS ShareLedger

CONSTANTS
    vault,          \* the vault's own address
    MaxDeposited    \* bound: the deposits explored

NoAdmin == 0

ASSUME VaultConstants == vault \in Addr /\ MaxDeposited \in Nat

VARIABLES
    admin,              \* "admin", NoAdmin before initialize
    total_deposited,    \* "deposit"
    wallet

\* Fault: require_auth is missing, a call may name any address.
AnyAddress == Addr

\* The addresses that pass require_auth.
Signers == Addr \ {vault}

\* token.transfer between two purses, which may be the same.
sent(from, to, amount) ==
    [[wallet EXCEPT ![from] = @ - amount] EXCEPT ![to] = @ + amount]

VaultInit ==
    /\ admin = NoAdmin
    /\ total_deposited = 0

\* initialize.  The first call counts, whoever makes it.
InitializeVault(user) ==
    /\ admin = NoAdmin
    /\ admin' = user
    /\ total_deposited' = 0
    /\ UNCHANGED wallet

Deposit(from, amount) ==
    /\ amount > 0
    /\ admin # NoAdmin
    /\ wallet[from] >= amount
    /\ total_deposited + amount <= MaxDeposited
    /\ wallet' = sent(from, vault, amount)
    /\ total_deposited' = total_deposited + amount
    /\ UNCHANGED admin

\* require_admin.
IsAdmin(user) == admin # NoAdmin /\ user = admin

Withdraw(user, to, amount) ==
    /\ IsAdmin(user)
    /\ amount > 0
    /\ wallet[vault] >= amount
    /\ wallet' = sent(vault, to, amount)
    /\ UNCHANGED <<admin, total_deposited>>
=============================================================================
