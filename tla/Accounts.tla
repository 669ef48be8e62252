------------------------------ MODULE Accounts ------------------------------
(***************************************************************************)
(* The factory, its wallets and wallets deployed without it, among the     *)
(* parties they meet: passkeys that sign, anybody who deploys, initializes *)
(* or submits what others signed, and the host, which computes the payload *)
(* of an invocation and uses up its nonce.                                 *)
(***************************************************************************)
EXTENDS WalletFactory, FiniteSets

CONSTANTS
    Invocations,    \* what an account may be asked to authorize
    PAYLOAD_BYTES,  \* length of a hash: 32 in the code
    payload,        \* the host's hash of an invocation
    Logins,         \* challenges a passkey signs that are not of an invocation
    MaxAssertions   \* bound: how many assertions are made

\* No two invocations share a hash, and none is a login challenge.
ASSUME AccountConstants ==
    /\ \A inv \in Invocations : inv.account \in Address
    /\ PAYLOAD_BYTES \in Nat
    /\ payload \in [Invocations -> [1..PAYLOAD_BYTES -> Byte]]
    /\ Logins \subseteq [1..PAYLOAD_BYTES -> Byte]
    /\ \A inv1, inv2 \in Invocations : payload[inv1] = payload[inv2] => inv1 = inv2
    /\ \A inv \in Invocations : payload[inv] \notin Logins
    /\ MaxAssertions \in Nat

VARIABLES
    assertions,     \* every assertion a passkey has made
    approved,       \* history: which key's owner agreed to which invocation
    authorized      \* invocations the host carried out

chain == <<wasm_hash, code, public_key>>
vars == <<chain, assertions, approved, authorized>>

-----------------------------------------------------------------------------

Init ==
    /\ wasm_hash = NoWasm
    /\ code = [address \in Address |-> NoWasm]
    /\ public_key = [address \in Address |-> NoKey]
    /\ assertions = {}
    /\ approved = {}
    /\ authorized = {}

InitializeFactory(wasm) ==
    /\ Pin(wasm)
    /\ UNCHANGED <<assertions, approved, authorized>>

DeployWallet(pk) ==
    /\ Deploy(pk)
    /\ UNCHANGED <<assertions, approved, authorized>>

\* Anybody may deploy any code at an address that is not the factory's to give.
DeployElsewhere(address, wasm) ==
    /\ address \notin {resolve(pk) : pk \in Keys}
    /\ PutCode(address, wasm)
    /\ UNCHANGED <<wasm_hash, public_key, assertions, approved, authorized>>

\* Anybody may call init of any wallet, with any key.
InitDirectly(address, pk) ==
    /\ code[address] = SmartWalletWasm
    /\ InitWallet(address, pk)
    /\ UNCHANGED <<wasm_hash, code, assertions, approved, authorized>>

\* The browser encodes what it is asked to have signed.
challenge == [bytes \in {payload[inv] : inv \in Invocations} \cup Logins |-> encode(bytes)]

\* The passkey signs a challenge; what the browser makes of the rest of the
\* client data is not up to the contract.
SignChallenge(pk, bytes) ==
    /\ Cardinality(assertions) < MaxAssertions
    /\ \E client_data \in {"fits", "garbled", "oversized"} :
          assertions' = assertions \cup
              {[key |-> pk, challenge |-> challenge[bytes], client_data |-> client_data]}
    /\ UNCHANGED <<chain, authorized>>

Approve(pk, inv) ==
    /\ SignChallenge(pk, payload[inv])
    /\ approved' = approved \cup {<<pk, inv>>}

Login(pk, bytes) ==
    /\ SignChallenge(pk, bytes)
    /\ UNCHANGED approved

\* What can be submitted: an assertion as it was made, or one whose client data
\* was rewritten to name another challenge.
Altered(a, inv) == [a EXCEPT !.key = NoKey, !.challenge = challenge[payload[inv]]]

\* The host's replay protection: a nonce of an account is used once.
NonceFresh(inv) ==
    \A done \in authorized : done.account = inv.account => done.nonce # inv.nonce

Authorize(inv, signature) ==
    /\ code[inv.account] = SmartWalletWasm
    /\ NonceFresh(inv)
    /\ CheckAuth(inv.account, payload[inv], signature)
    /\ authorized' = authorized \cup {inv}
    /\ UNCHANGED <<chain, assertions, approved>>

Submit(inv) ==
    \E a \in assertions \cup {Altered(a, inv) : a \in assertions} : Authorize(inv, a)

Next ==
    \/ \E wasm \in Wasms : InitializeFactory(wasm)
    \/ \E pk \in Keys :
          \/ DeployWallet(pk)
          \/ \E inv \in Invocations : Approve(pk, inv)
          \/ \E bytes \in Logins : Login(pk, bytes)
    \/ \E address \in Address :
          \/ \E wasm \in Wasms : DeployElsewhere(address, wasm)
          \/ \E pk \in Keys : InitDirectly(address, pk)
    \/ \E inv \in Invocations : Submit(inv)

Spec == Init /\ [][Next]_vars

(***************************************************************************)
(* Fairness: deployment is open to anybody, so somebody who wants a wallet *)
(* for a key deploys it; somebody keeps submitting what owners signed.     *)
(* Nothing is assumed of the factory's admin or of passkeys.               *)
(***************************************************************************)
Fairness ==
    /\ \A pk \in Keys : WF_vars(DeployWallet(pk))
    /\ \A inv \in Invocations : WF_vars(Submit(inv))

FairSpec == Spec /\ Fairness

-----------------------------------------------------------------------------

\* Every variable stays in its type.
TypeOK ==
    /\ wasm_hash \in Wasms \cup {NoWasm}
    /\ code \in [Address -> Wasms \cup {NoWasm}]
    /\ public_key \in [Address -> Keys \cup {NoKey}]
    /\ assertions \subseteq Assertions
    /\ approved \subseteq Keys \X Invocations
    /\ authorized \subseteq Invocations

\* Whoever submits what, in whatever order: what was carried out in the name of
\* a wallet is what the owner of its one key agreed to, that very invocation.
\* An assertion for another invocation, another wallet, a login, or with its
\* client data rewritten authorizes nothing.
OnlyApproved ==
    \A inv \in authorized : <<public_key[inv.account], inv>> \in approved

\* Whoever comes first to the address of a passkey, deploying for it or calling
\* init there, it has the pinned code and, if that is the wallet's, answers to that
\* passkey: there is no moment between deployment and init.
WalletsAreTheirKeys ==
    \A pk \in Keys : code[resolve(pk)] # NoWasm =>
        /\ code[resolve(pk)] = wasm_hash
        /\ wasm_hash = SmartWalletWasm => public_key[resolve(pk)] = pk

\* Once the wallet code is pinned, nothing anybody does keeps a passkey from
\* getting its wallet.
EveryKeyGetsItsWallet ==
    \A pk \in Keys : wasm_hash = SmartWalletWasm ~> public_key[resolve(pk)] = pk

\* An invocation that the owner of a wallet's key signed, with client data that
\* fits, is carried out, unless another of the same nonce was: no other use of
\* the wallet or of the key blocks it.
ApprovalsAreCarriedOut ==
    \A inv \in Invocations :
        (/\ public_key[inv.account] # NoKey
         /\ [key |-> public_key[inv.account], challenge |-> challenge[payload[inv]],
             client_data |-> "fits"] \in assertions)
            ~> ~ NonceFresh(inv)
=============================================================================
