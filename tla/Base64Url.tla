----------------------------- MODULE Base64Url -----------------------------
(***************************************************************************)
(* contracts/smart-wallet/src/base64_url.rs: unpadded base64url.  A        *)
(* character stands for its index in ALPHABET, whose 64 characters are     *)
(* distinct.  The loop of the code writes four characters for every three  *)
(* bytes and its tail two or three for one or two bytes; here each         *)
(* character is given by its place.                                        *)
(***************************************************************************)
EXTENDS Naturals, Sequences

Byte == 0..255

ByteAt(src, i) == IF i <= Len(src) THEN src[i] ELSE 0

\* val: three bytes from offset 3 * g, missing ones as 0.
Group(src, g) ==
    65536 * ByteAt(src, 3 * g + 1) + 256 * ByteAt(src, 3 * g + 2) + ByteAt(src, 3 * g + 3)

\* Fault: the mask is forgotten.
Unmasked(val, k) ==
    val \div (IF k = 0 THEN 262144 ELSE IF k = 1 THEN 4096 ELSE IF k = 2 THEN 64 ELSE 1)

\* What precedes sextet k of a group is shifted out by the mask, what follows
\* it by the shift (18, 12, 6 or 0 bits).
Sextet(val, k) ==
    (val \div (IF k = 0 THEN 262144 ELSE IF k = 1 THEN 4096 ELSE IF k = 2 THEN 64 ELSE 1)) % 64

\* 43 for the 32 bytes of a payload: the caller's buffer is filled exactly.
EncodedLen(n) == 4 * (n \div 3) + (IF n % 3 = 0 THEN 0 ELSE (n % 3) + 1)

encode(src) ==
    [di \in 1..EncodedLen(Len(src)) |-> Sextet(Group(src, (di - 1) \div 4), (di - 1) % 4)]
=============================================================================
