---------------------------- MODULE WalletProofs ----------------------------
(***************************************************************************)
(* For every set of keys, addresses, invocations and code, and any number  *)
(* of assertions: two payloads never share a challenge, a wallet of the    *)
(* factory answers to the passkey of its address, and only what the owner  *)
(* of that key agreed to is carried out in its name.                       *)
(***************************************************************************)
EXTENDS Accounts, TLAPS

\* The three bytes of a group as one number.
Packed(b) == 65536 * b[0] + 256 * b[1] + b[2]

Triple == [0..2 -> Byte]

\* The four characters of a group, in terms of its three bytes.
LEMMA Sextets ==
    ASSUME NEW b \in Triple
    PROVE  /\ Sextet(Packed(b), 0) = b[0] \div 4
           /\ Sextet(Packed(b), 1) = 16 * (b[0] % 4) + b[1] \div 16
           /\ Sextet(Packed(b), 2) = 4 * (b[1] % 16) + b[2] \div 64
           /\ Sextet(Packed(b), 3) = b[2] % 64
<1> DEFINE b0 == b[0]
           b1 == b[1]
           b2 == b[2]
           val == 65536 * b0 + 256 * b1 + b2
           h0 == b0 \div 4
           l0 == b0 % 4
           h1 == b1 \div 16
           l1 == b1 % 16
           h2 == b2 \div 64
           l2 == b2 % 64
<1>1. b0 \in 0..255 /\ b1 \in 0..255 /\ b2 \in 0..255
    BY DEF Triple, Byte
<1> HIDE DEF b0, b1, b2
<1>2. /\ h0 \in 0..63 /\ l0 \in 0..3 /\ b0 = 4 * h0 + l0
      /\ h1 \in 0..15 /\ l1 \in 0..15 /\ b1 = 16 * h1 + l1
      /\ h2 \in 0..3 /\ l2 \in 0..63 /\ b2 = 64 * h2 + l2
    BY <1>1
<1> HIDE DEF h0, l0, h1, l1, h2, l2
<1>3. Sextet(val, 0) = h0
    <2>1. val \div 262144 = h0
        BY <1>2
    <2> QED  BY <2>1, <1>2 DEF Sextet
<1>4. Sextet(val, 1) = 16 * l0 + h1
    <2>1. val \div 4096 = 64 * h0 + (16 * l0 + h1)
        BY <1>2
    <2> QED  BY <2>1, <1>2 DEF Sextet
<1>5. Sextet(val, 2) = 4 * l1 + h2
    <2>1. val \div 64 = 64 * (16 * b0 + h1) + (4 * l1 + h2)
        BY <1>2
    <2> QED  BY <2>1, <1>2 DEF Sextet
<1>6. Sextet(val, 3) = l2
    BY <1>2 DEF Sextet
<1>7. Packed(b) = val
    BY DEF Packed, b0, b1, b2
<1> QED
    BY <1>3, <1>4, <1>5, <1>6, <1>7 DEF b0, b1, b2, h0, l0, h1, l1, h2, l2

\* A byte can be read off the character at its own place and the next one.
LEMMA ByteDetermined ==
    ASSUME NEW b \in Triple, NEW c \in Triple, NEW r \in 0..2,
           Sextet(Packed(b), r) = Sextet(Packed(c), r),
           Sextet(Packed(b), r + 1) = Sextet(Packed(c), r + 1)
    PROVE  b[r] = c[r]
<1> DEFINE b0 == b[0]
           b1 == b[1]
           b2 == b[2]
           c0 == c[0]
           c1 == c[1]
           c2 == c[2]
<1>1. /\ b0 \in 0..255 /\ b1 \in 0..255 /\ b2 \in 0..255
      /\ c0 \in 0..255 /\ c1 \in 0..255 /\ c2 \in 0..255
    BY DEF Triple, Byte
<1>2. /\ r = 0 => b0 \div 4 = c0 \div 4
      /\ r \in {0, 1} => 16 * (b0 % 4) + b1 \div 16 = 16 * (c0 % 4) + c1 \div 16
      /\ r \in {1, 2} => 4 * (b1 % 16) + b2 \div 64 = 4 * (c1 % 16) + c2 \div 64
      /\ r = 2 => b2 % 64 = c2 % 64
    BY Sextets
<1> HIDE DEF b0, b1, b2, c0, c1, c2
<1>3. r = 0 => b0 = c0
    BY <1>1, <1>2
<1>4. r = 1 => b1 = c1
    BY <1>1, <1>2
<1>5. r = 2 => b2 = c2
    BY <1>1, <1>2
<1> QED
    BY <1>3, <1>4, <1>5 DEF b0, b1, b2, c0, c1, c2

\* Every byte of the source has both of these characters in the encoding, a tail
\* of one or two bytes included.
LEMMA PlaceOfByte ==
    ASSUME NEW n \in Nat, NEW i \in 1..n
    PROVE  LET g == (i - 1) \div 3
               r == (i - 1) % 3
           IN  /\ g \in Nat /\ r \in 0..2 /\ i = 3 * g + r + 1
               /\ 4 * g + r + 1 \in 1..EncodedLen(n)
               /\ 4 * g + r + 2 \in 1..EncodedLen(n)
<1> DEFINE g == (i - 1) \div 3
           r == (i - 1) % 3
           q == n \div 3
           t == n % 3
<1>1. g \in Nat /\ r \in 0..2 /\ i = 3 * g + r + 1
    OBVIOUS
<1>2. q \in Nat /\ t \in 0..2 /\ n = 3 * q + t
    OBVIOUS
<1>3. EncodedLen(n) = 4 * q + (IF t = 0 THEN 0 ELSE t + 1)
    BY DEF EncodedLen
<1> HIDE DEF g, r, q, t
<1>4. CASE g < q
    BY <1>1, <1>2, <1>3, <1>4
<1>5. CASE g = q
    BY <1>1, <1>2, <1>3, <1>5
<1>6. g <= q
    BY <1>1, <1>2
<1> QED
    BY <1>1, <1>2, <1>3, <1>4, <1>5, <1>6 DEF g, r

\* Two byte strings of one length with the same encoding are the same: a
\* challenge names one payload (base64_url.rs).
THEOREM EncodeInjective ==
    ASSUME NEW n \in Nat, NEW s \in [1..n -> Byte], NEW t \in [1..n -> Byte],
           encode(s) = encode(t)
    PROVE  s = t
<1>1. s \in Seq(Byte) /\ t \in Seq(Byte) /\ Len(s) = n /\ Len(t) = n
    OBVIOUS
<1>2. SUFFICES ASSUME NEW i \in 1..n
               PROVE  s[i] = t[i]
    OBVIOUS
<1> DEFINE g == (i - 1) \div 3
           r == (i - 1) % 3
<1>3. /\ g \in Nat /\ r \in 0..2 /\ i = 3 * g + r + 1
      /\ 4 * g + r + 1 \in 1..EncodedLen(n)
      /\ 4 * g + r + 2 \in 1..EncodedLen(n)
    BY PlaceOfByte
<1> HIDE DEF g, r
<1>4. \A j \in Nat : ByteAt(s, j + 1) \in Byte /\ ByteAt(t, j + 1) \in Byte
    BY <1>1 DEF ByteAt, Byte
<1>5. \A di \in 1..EncodedLen(n) :
          Sextet(Group(s, (di - 1) \div 4), (di - 1) % 4)
            = Sextet(Group(t, (di - 1) \div 4), (di - 1) % 4)
    BY <1>1 DEF encode
<1>6. /\ (4 * g + r) \div 4 = g /\ (4 * g + r) % 4 = r
      /\ (4 * g + r + 1) \div 4 = g /\ (4 * g + r + 1) % 4 = r + 1
    BY <1>3
<1>7. /\ Sextet(Group(s, g), r) = Sextet(Group(t, g), r)
      /\ Sextet(Group(s, g), r + 1) = Sextet(Group(t, g), r + 1)
    <2>1. /\ 4 * g + r + 1 - 1 = 4 * g + r
          /\ 4 * g + r + 2 - 1 = 4 * g + r + 1
        BY <1>3
    <2> QED  BY <1>3, <1>5, <1>6, <2>1
<1>8. ByteAt(s, i) = ByteAt(t, i)
    <2> DEFINE b == [k \in 0..2 |-> ByteAt(s, 3 * g + k + 1)]
               c == [k \in 0..2 |-> ByteAt(t, 3 * g + k + 1)]
    <2>1. b \in Triple /\ c \in Triple
        <3>1. \A k \in 0..2 : 3 * g + k \in Nat
            BY <1>3
        <3> QED  BY <1>4, <3>1 DEF Triple
    <2>2. Group(s, g) = Packed(b) /\ Group(t, g) = Packed(c)
        <3>1. 3 * g + 0 + 1 = 3 * g + 1 /\ 3 * g + 1 + 1 = 3 * g + 2 /\ 3 * g + 2 + 1 = 3 * g + 3
            BY <1>3
        <3> QED  BY <3>1 DEF Group, Packed
    <2>3. b[r] = ByteAt(s, i) /\ c[r] = ByteAt(t, i)
        BY <1>3
    <2> HIDE DEF b, c
    <2>4. b[r] = c[r]
        BY <1>3, <1>7, <2>1, <2>2, ByteDetermined
    <2> QED  BY <2>3, <2>4
<1> QED
    BY <1>1, <1>8 DEF ByteAt

\* What encode writes are indices of ALPHABET.
LEMMA EncodeType ==
    ASSUME NEW n \in Nat, NEW s \in [1..n -> Byte]
    PROVE  encode(s) \in Seq(0..63)
<1>1. s \in Seq(Byte) /\ Len(s) = n
    OBVIOUS
<1>2. \A i \in Nat \ {0} : ByteAt(s, i) \in 0..255
    BY <1>1 DEF ByteAt, Byte
<1>3. \A g \in Nat : Group(s, g) \in Nat
    <2> TAKE g \in Nat
    <2> DEFINE b0 == ByteAt(s, 3 * g + 1)
               b1 == ByteAt(s, 3 * g + 2)
               b2 == ByteAt(s, 3 * g + 3)
    <2>1. b0 \in 0..255 /\ b1 \in 0..255 /\ b2 \in 0..255
        BY <1>2
    <2> HIDE DEF b0, b1, b2
    <2>2. 65536 * b0 + 256 * b1 + b2 \in Nat
        BY <2>1
    <2> QED  BY <2>2 DEF Group, b0, b1, b2
<1>4. \A v \in Nat, k \in Nat : Sextet(v, k) \in 0..63
    BY DEF Sextet
<1>5. EncodedLen(n) \in Nat
    BY DEF EncodedLen
<1>6. \A di \in 1..EncodedLen(n) : (di - 1) \div 4 \in Nat /\ (di - 1) % 4 \in Nat
    BY <1>5
<1>7. \A di \in 1..EncodedLen(n) :
          Sextet(Group(s, (di - 1) \div 4), (di - 1) % 4) \in 0..63
    BY <1>3, <1>4, <1>6
<1>8. encode(s) \in [1..EncodedLen(n) -> 0..63]
    BY <1>1, <1>7 DEF encode
<1> HIDE DEF encode
<1>9. \A e, L : L \in Nat /\ e \in [1..L -> 0..63] => e \in Seq(0..63)
    OBVIOUS
<1> QED
    BY <1>5, <1>8, <1>9

\* Every assertion a passkey made names an invocation its owner agreed to, or a
\* login.
AssertionsMeant ==
    \A a \in assertions :
        \/ \E inv \in Invocations :
              <<a.key, inv>> \in approved /\ a.challenge = encode(payload[inv])
        \/ \E bytes \in Logins : a.challenge = encode(bytes)

WalletInv == TypeOK /\ WalletsAreTheirKeys /\ AssertionsMeant /\ OnlyApproved

\* No challenge stands for two invocations, or for an invocation and a login.
LEMMA ChallengeMeans ==
    ASSUME NEW inv \in Invocations
    PROVE  /\ \A other \in Invocations :
                  encode(payload[other]) = encode(payload[inv]) => other = inv
           /\ \A bytes \in Logins : encode(bytes) # encode(payload[inv])
<1>1. payload \in [Invocations -> [1..PAYLOAD_BYTES -> Byte]] /\ PAYLOAD_BYTES \in Nat
    BY AccountConstants
<1>2. \A other \in Invocations :
          encode(payload[other]) = encode(payload[inv]) => payload[other] = payload[inv]
    BY <1>1, EncodeInjective
<1>3. \A bytes \in Logins : encode(bytes) = encode(payload[inv]) => bytes = payload[inv]
    BY <1>1, EncodeInjective, AccountConstants
<1> QED
    BY <1>2, <1>3, AccountConstants

\* SignChallenge adds one assertion, whose challenge is the encoding of what was signed.
LEMMA AssertAdds ==
    ASSUME TypeOK, NEW pk \in Keys, NEW bytes \in {payload[inv] : inv \in Invocations} \cup Logins,
           SignChallenge(pk, bytes)
    PROVE  \E a \in Assertions :
               /\ assertions' = assertions \cup {a}
               /\ a.key = pk /\ a.challenge = encode(bytes)
<1>1. PICK client_data \in {"fits", "garbled", "oversized"} :
          assertions' = assertions \cup
              {[key |-> pk, challenge |-> challenge[bytes], client_data |-> client_data]}
    BY DEF SignChallenge
<1>2. challenge[bytes] = encode(bytes)
    BY DEF challenge
<1>3. bytes \in [1..PAYLOAD_BYTES -> Byte] /\ PAYLOAD_BYTES \in Nat
    BY AccountConstants
<1>4. encode(bytes) \in Seq(0..63)
    BY <1>3, EncodeType
<1>5. [key |-> pk, challenge |-> encode(bytes), client_data |-> client_data] \in Assertions
    BY <1>4 DEF Assertions
<1> QED
    BY <1>1, <1>2, <1>5

\* Before anything is deployed nothing was carried out.
LEMMA WalletInit == Init => WalletInv
<1> SUFFICES ASSUME Init PROVE WalletInv
    OBVIOUS
<1>1. TypeOK
    BY DEF Init, TypeOK
<1>2. WalletsAreTheirKeys
    BY FactoryConstants DEF Init, WalletsAreTheirKeys, resolve
<1>3. AssertionsMeant /\ OnlyApproved
    BY DEF Init, AssertionsMeant, OnlyApproved
<1> QED
    BY <1>1, <1>2, <1>3 DEF WalletInv

\* Every deployment, initialization, assertion and submission keeps the invariant.
LEMMA WalletStep == WalletInv /\ [Next]_vars => WalletInv'
<1> SUFFICES ASSUME WalletInv, [Next]_vars PROVE WalletInv'
    OBVIOUS
<1> USE DEF WalletInv
<1>1. ASSUME NEW wasm \in Wasms, InitializeFactory(wasm)
      PROVE  WalletInv'
    <2>1. TypeOK'
        BY <1>1 DEF TypeOK, InitializeFactory, Pin
    <2>2. WalletsAreTheirKeys'
        <3> SUFFICES ASSUME NEW pk \in Keys, code[resolve(pk)] # NoWasm PROVE FALSE
            BY <1>1 DEF InitializeFactory, Pin, WalletsAreTheirKeys, resolve
        <3> QED  BY <1>1 DEF InitializeFactory, Pin, WalletsAreTheirKeys
    <2>3. AssertionsMeant' /\ OnlyApproved'
        BY <1>1 DEF InitializeFactory, Pin, AssertionsMeant, OnlyApproved
    <2> QED  BY <2>1, <2>2, <2>3
<1>2. ASSUME NEW pk \in Keys, DeployWallet(pk)
      PROVE  WalletInv'
    <2>1. /\ resolve(pk) \in Address /\ wasm_hash \in Wasms /\ UNCHANGED wasm_hash
          /\ code' = [code EXCEPT ![resolve(pk)] = wasm_hash]
          /\ UNCHANGED <<assertions, approved, authorized>>
        BY <1>2, FactoryConstants DEF DeployWallet, Deploy, PutCode, resolve, TypeOK
    <2>2. \/ /\ public_key[resolve(pk)] = NoKey
             /\ public_key' = [public_key EXCEPT ![resolve(pk)] = pk]
          \/ wasm_hash # SmartWalletWasm /\ UNCHANGED public_key
        BY <1>2 DEF DeployWallet, Deploy, InitWallet
    <2>3. TypeOK'
        BY <2>1, <2>2 DEF TypeOK
    <2>4. WalletsAreTheirKeys'
        <3> SUFFICES ASSUME NEW other \in Keys, code'[resolve(other)] # NoWasm
                     PROVE  /\ code'[resolve(other)] = wasm_hash
                            /\ wasm_hash = SmartWalletWasm => public_key'[resolve(other)] = other
            BY <2>1 DEF WalletsAreTheirKeys, resolve
        <3>1. CASE other = pk
            BY <2>1, <2>2, <3>1 DEF TypeOK
        <3>2. CASE other # pk
            <4>1. resolve(other) # resolve(pk) /\ resolve(other) \in Address
                BY <3>2, FactoryConstants DEF resolve
            <4> QED  BY <2>1, <2>2, <4>1 DEF TypeOK, WalletsAreTheirKeys
        <3> QED  BY <3>1, <3>2
    <2>5. AssertionsMeant'
        BY <2>1 DEF AssertionsMeant
    <2>6. OnlyApproved'
        <3>1. \A inv \in authorized : public_key[inv.account] # NoKey /\ inv.account \in Address
            <4>1. \A inv \in authorized : <<public_key[inv.account], inv>> \in Keys \X Invocations
                BY DEF OnlyApproved, TypeOK
            <4> QED  BY <4>1, KeyConstants, AccountConstants
        <3>2. \A inv \in authorized : public_key'[inv.account] = public_key[inv.account]
            BY <2>1, <2>2, <3>1 DEF TypeOK
        <3> QED  BY <2>1, <3>2 DEF OnlyApproved
    <2> QED  BY <2>3, <2>4, <2>5, <2>6
<1>3. ASSUME NEW pk \in Keys, NEW inv \in Invocations, Approve(pk, inv)
      PROVE  WalletInv'
    <2>1. PICK a \in Assertions :
              /\ assertions' = assertions \cup {a}
              /\ a.key = pk /\ a.challenge = encode(payload[inv])
        BY <1>3, AssertAdds DEF Approve
    <2>2. UNCHANGED <<wasm_hash, code, public_key, authorized>> /\ approved' = approved \cup {<<pk, inv>>}
        BY <1>3 DEF Approve, SignChallenge, chain
    <2>3. TypeOK'
        BY <2>1, <2>2 DEF TypeOK
    <2>4. WalletsAreTheirKeys'
        BY <2>2 DEF WalletsAreTheirKeys, resolve
    <2>5. AssertionsMeant'
        BY <2>1, <2>2 DEF AssertionsMeant
    <2>6. OnlyApproved'
        BY <2>2 DEF OnlyApproved
    <2> QED  BY <2>3, <2>4, <2>5, <2>6
<1>4. ASSUME NEW pk \in Keys, NEW bytes \in Logins, Login(pk, bytes)
      PROVE  WalletInv'
    <2>1. PICK a \in Assertions :
              assertions' = assertions \cup {a} /\ a.challenge = encode(bytes)
        BY <1>4, AssertAdds DEF Login
    <2>2. UNCHANGED <<wasm_hash, code, public_key, authorized, approved>>
        BY <1>4 DEF Login, SignChallenge, chain
    <2>3. TypeOK'
        BY <2>1, <2>2 DEF TypeOK
    <2>4. WalletsAreTheirKeys'
        BY <2>2 DEF WalletsAreTheirKeys, resolve
    <2>5. AssertionsMeant'
        BY <2>1, <2>2 DEF AssertionsMeant
    <2>6. OnlyApproved'
        BY <2>2 DEF OnlyApproved
    <2> QED  BY <2>3, <2>4, <2>5, <2>6
<1>5. ASSUME NEW address \in Address, NEW wasm \in Wasms, DeployElsewhere(address, wasm)
      PROVE  WalletInv'
    <2>1. TypeOK'
        BY <1>5 DEF TypeOK, DeployElsewhere, PutCode
    <2>2. WalletsAreTheirKeys'
        BY <1>5 DEF DeployElsewhere, PutCode, WalletsAreTheirKeys, resolve, TypeOK
    <2>3. AssertionsMeant' /\ OnlyApproved'
        BY <1>5 DEF DeployElsewhere, PutCode, AssertionsMeant, OnlyApproved
    <2> QED  BY <2>1, <2>2, <2>3
<1>6. ASSUME NEW address \in Address, NEW pk \in Keys, InitDirectly(address, pk)
      PROVE  WalletInv'
    <2>1. /\ code[address] = SmartWalletWasm /\ public_key[address] = NoKey
          /\ public_key' = [public_key EXCEPT ![address] = pk]
          /\ UNCHANGED <<wasm_hash, code, assertions, approved, authorized>>
        BY <1>6 DEF InitDirectly, InitWallet
    <2>2. TypeOK'
        BY <2>1 DEF TypeOK
    <2>3. WalletsAreTheirKeys'
        <3>1. \A other \in Keys : resolve(other) # address
            <4> SUFFICES ASSUME NEW other \in Keys, resolve(other) = address PROVE FALSE
                OBVIOUS
            <4>1. code[resolve(other)] # NoWasm
                BY <2>1, FactoryConstants
            <4> QED  BY <2>1, <4>1, KeyConstants DEF WalletsAreTheirKeys
        <3>2. \A other \in Keys : public_key'[resolve(other)] = public_key[resolve(other)]
            BY <2>1, <3>1, FactoryConstants DEF TypeOK, resolve
        <3> QED  BY <2>1, <3>2 DEF WalletsAreTheirKeys, resolve
    <2>4. AssertionsMeant'
        BY <2>1 DEF AssertionsMeant
    <2>5. OnlyApproved'
        BY <2>1, KeyConstants, AccountConstants DEF OnlyApproved, TypeOK
    <2> QED  BY <2>2, <2>3, <2>4, <2>5
<1>7. ASSUME NEW inv \in Invocations, Submit(inv)
      PROVE  WalletInv'
    <2>1. PICK a \in assertions \cup {Altered(b, inv) : b \in assertions} : Authorize(inv, a)
        BY <1>7 DEF Submit
    <2>2. /\ a.key = public_key[inv.account] /\ a.key # NoKey
          /\ a.challenge = encode(payload[inv])
          /\ authorized' = authorized \cup {inv}
          /\ UNCHANGED <<wasm_hash, code, public_key, assertions, approved>>
        BY <2>1 DEF Authorize, CheckAuth, chain
    <2>3. \A b \in assertions : Altered(b, inv).key = NoKey
        BY DEF Altered, TypeOK, Assertions
    <2>4. a \in assertions
        BY <2>1, <2>2, <2>3
    <2>5. <<public_key[inv.account], inv>> \in approved
        BY <2>2, <2>4, ChallengeMeans DEF AssertionsMeant
    <2>6. TypeOK'
        BY <2>2 DEF TypeOK
    <2>7. WalletsAreTheirKeys' /\ AssertionsMeant'
        BY <2>2 DEF WalletsAreTheirKeys, AssertionsMeant, resolve
    <2>8. OnlyApproved'
        BY <2>2, <2>5 DEF OnlyApproved
    <2> QED  BY <2>6, <2>7, <2>8
<1>8. CASE UNCHANGED vars
    BY <1>8 DEF vars, chain, TypeOK, WalletsAreTheirKeys, AssertionsMeant, OnlyApproved, resolve
<1> QED
    BY <1>1, <1>2, <1>3, <1>4, <1>5, <1>6, <1>7, <1>8 DEF Next

\* The invariant holds in every reachable state.
LEMMA WalletInvariant == Spec => []WalletInv
<1> QED
    BY WalletInit, WalletStep, PTL DEF Spec

\* Every variable of the factory, the wallets and their users stays in its type.
THEOREM AccountTypes == Spec => []TypeOK
<1>1. WalletInv => TypeOK
    BY DEF WalletInv
<1> QED
    BY <1>1, WalletInvariant, PTL

\* However many wallets, keys, nonces and assertions there are: __check_auth lets
\* through what the owner of the wallet's key agreed to and nothing else.
THEOREM OnlyApprovedHolds == Spec => []OnlyApproved
<1>1. WalletInv => OnlyApproved
    BY DEF WalletInv
<1> QED
    BY <1>1, WalletInvariant, PTL

\* In whatever order anybody deploys and initializes: a contract at the address of
\* a passkey runs the pinned code and answers to that passkey.
THEOREM WalletsAreTheirKeysHolds == Spec => []WalletsAreTheirKeys
<1>1. WalletInv => WalletsAreTheirKeys
    BY DEF WalletInv
<1> QED
    BY <1>1, WalletInvariant, PTL
=============================================================================
