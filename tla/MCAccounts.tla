----------------------------- MODULE MCAccounts -----------------------------
(***************************************************************************)
(* Instances of Accounts for TLC: two passkeys, their two addresses and    *)
(* one more.  A payload has five bytes instead of 32; as there, two bytes  *)
(* are left over after the last group of three.                            *)
(***************************************************************************)
EXTENDS Accounts, TLC

CONSTANTS k1, k2, elsewhere

MCAddress == {1, 2, elsewhere}

MCDeployedAddress == [pk \in Keys |-> IF pk = k1 THEN 1 ELSE 2]

Invocation(account, nonce, call) == [account |-> account, nonce |-> nonce, call |-> call]

\* Two calls for one nonce, another nonce, another wallet, and one not from the
\* factory.  Their hashes differ in the last byte only, in the first or in one
\* in the middle.
MCPayload ==
       Invocation(1, 1, "buy") :> <<7, 255, 16, 1, 0>>
    @@ Invocation(1, 1, "sell") :> <<7, 255, 16, 1, 1>>
    @@ Invocation(1, 2, "buy") :> <<7, 255, 16, 1, 64>>
    @@ Invocation(2, 1, "buy") :> <<8, 255, 16, 1, 0>>
    @@ Invocation(elsewhere, 1, "buy") :> <<7, 255, 17, 1, 0>>

MCInvocations == DOMAIN MCPayload

MCLogins == {<<7, 255, 16, 2, 0>>}
=============================================================================
