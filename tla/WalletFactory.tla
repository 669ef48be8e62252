--------------------------- MODULE WalletFactory ---------------------------
(***************************************************************************)
(* contracts/smart-wallet-factory: deploys the pinned code for a passkey   *)
(* at an address computed from it, and initializes it in the same call.    *)
(***************************************************************************)
EXTENDS SmartWallet

CONSTANTS
    Wasms, NoWasm,      \* uploaded code, by hash
    SmartWalletWasm,    \* the code of SmartWallet
    Initializable,      \* the code that has an init for a public key
    deployed_address    \* the host's address for the salt sha256(public key)

\* The address is a hash of deployer and salt: no two keys share one.
ASSUME FactoryConstants ==
    /\ SmartWalletWasm \in Initializable
    /\ Initializable \subseteq Wasms /\ NoWasm \notin Wasms
    /\ deployed_address \in [Keys -> Address]
    /\ \A pk, other \in Keys : deployed_address[pk] = deployed_address[other] => pk = other

VARIABLES
    wasm_hash,      \* the factory's pinned code, NoWasm before initialize
    code            \* the contract at each address, NoWasm if there is none

\* Fault: the salt does not depend on the key.
OneSalt(pk) == deployed_address[CHOOSE k \in Keys : TRUE]

resolve(pk) == deployed_address[pk]

\* initialize.  It is authenticated as whoever calls it; the first call counts.
Pin(wasm) ==
    /\ wasm_hash = NoWasm
    /\ wasm_hash' = wasm
    /\ UNCHANGED <<code, public_key>>

\* The host puts code at an address once, and its storage is empty then.
PutCode(address, wasm) ==
    /\ code[address] = NoWasm
    /\ code' = [code EXCEPT ![address] = wasm]

\* Fault: init is left to a second transaction.
DeployWithoutInit(pk) ==
    /\ wasm_hash # NoWasm
    /\ PutCode(resolve(pk), wasm_hash)
    /\ UNCHANGED <<wasm_hash, public_key>>

\* deploy, by anybody for anybody's key: without the child's init succeeding
\* nothing of it happens.  What another code's init stores is not modelled.
Deploy(pk) ==
    /\ wasm_hash \in Initializable
    /\ PutCode(resolve(pk), wasm_hash)
    /\ IF wasm_hash = SmartWalletWasm THEN InitWallet(resolve(pk), pk)
                                      ELSE UNCHANGED public_key
    /\ UNCHANGED wasm_hash
=============================================================================
