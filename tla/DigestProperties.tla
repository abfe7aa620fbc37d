-------------------------- MODULE DigestProperties --------------------------
(***************************************************************************)
(* What the digest of a message is a digest of (v2/src/domain/digest.rs):  *)
(* the bytes the standard prescribes, counted from the first block to the  *)
(* last.                                                                   *)
(***************************************************************************)
EXTENDS Digest

VARIABLE message

\* Bytes, so few that their number of bits fits in four of them.
IsMessage(text) == text \in Seq(0..255) /\ Len(text) < MessageBound

\* The n-th byte that is hashed.
Hashed(text, n) ==
  Sha256(text)[((n - 1) \div BlockBytes) + 1][((n - 1) % BlockBytes) + 1]

\* What four bytes tell, the highest first.
Number(a, b, c, d) == a * 16777216 + b * 65536 + c * 256 + d

\* FIPS 180-4, 5.1.1, which the Python half takes from its library: the message,
\* a one bit, the least number k of zero bits that leaves 64 in the last block,
\* and in those the length in bits, the highest byte first.  No byte is lost in
\* an incomplete block and no block is added.
PadsAsStandard ==
  LET l == 8 * Len(message)
      k == CHOOSE z \in 0..511 : (l + 1 + z) % 512 = 448
      end == (l + 1 + k) \div 8
  IN /\ Len(Sha256(message)) * 512 = l + 1 + k + 64
     /\ \A b \in 1..Len(Sha256(message)) : Len(Sha256(message)[b]) = 64
     /\ \A n \in 1..Len(message) : Hashed(message, n) = message[n]
     /\ Hashed(message, Len(message) + 1) = 128
     /\ \A n \in Len(message) + 2..end + 4 : Hashed(message, n) = 0
     /\ \A n \in end + 5..end + 8 : Hashed(message, n) \in 0..255
     /\ Number(Hashed(message, end + 5), Hashed(message, end + 6),
               Hashed(message, end + 7), Hashed(message, end + 8)) = l
=============================================================================
