---------------------------- MODULE SmartWallet ----------------------------
(***************************************************************************)
(* contracts/smart-wallet: an account that answers to one passkey.  There  *)
(* is an instance of the contract at every address that has its code; what *)
(* they store is one function.                                             *)
(*                                                                         *)
(* Hashing and ECDSA are abstract.  An assertion says under which key its  *)
(* low-S signature verifies (NoKey if under none), which challenge its     *)
(* client data names, and whether that data fits the buffer of 1024 bytes  *)
(* and parses.  The signature covers the client data: whoever alters       *)
(* either is left with an assertion for NoKey.                             *)
(***************************************************************************)
EXTENDS Base64Url

CONSTANTS
    Address,        \* the addresses at which a contract can be deployed
    Keys, NoKey     \* passkeys; NoKey for none

ASSUME KeyConstants == NoKey \notin Keys

VARIABLE public_key     \* "pk" in the instance storage at each address

Assertions ==
    [key : Keys \cup {NoKey}, challenge : Seq(0..63),
     client_data : {"fits", "garbled", "oversized"}]

\* init.  Whoever calls it first chooses the key.
InitWallet(account, pk) ==
    /\ public_key[account] = NoKey
    /\ public_key' = [public_key EXCEPT ![account] = pk]

\* Fault: any valid assertion of the key will do.
SignatureOnly(account, signature_payload, signature) ==
    /\ public_key[account] # NoKey
    /\ signature.key = public_key[account]
    /\ signature.client_data = "fits"

\* Fault: the buffer has room for a padding character that is never written.
PaddedBuffer(account, signature_payload, signature) ==
    /\ public_key[account] # NoKey
    /\ signature.key = public_key[account]
    /\ signature.client_data = "fits"
    /\ signature.challenge = Append(encode(signature_payload), 0)

\* __check_auth returns Ok.  It writes nothing.
CheckAuth(account, signature_payload, signature) ==
    /\ public_key[account] # NoKey
    /\ signature.key = public_key[account]
    /\ signature.client_data = "fits"
    /\ signature.challenge = encode(signature_payload)
=============================================================================
