------------------------------- MODULE Digest -------------------------------
(***************************************************************************)
(* Content identity (v2/src/domain/digest.rs): how a message is padded and *)
(* cut into the blocks SHA-256 runs over, when a JSON text is canonical,   *)
(* and what line endings count as.  The compression of a block is taken to *)
(* be free of collisions: a digest is the chain of blocks it was made of.  *)
(***************************************************************************)
EXTENDS Integers, Sequences, FiniteSets

\* The items of a sequence in some of its places, in their order.
Kept(items, places) ==
  LET list[n \in 0..Len(items)] ==
        IF n = 0 THEN <<>>
        ELSE IF n \in places THEN Append(list[n-1], items[n])
        ELSE list[n-1]
  IN list[Len(items)]

(***************************************************************************)
(* Messages are sequences of bytes.                                        *)
(***************************************************************************)
BlockBytes == 64
Mark == 128

Zeros(n) == [i \in 1..n |-> 0]

\* The bytes of a number, the highest first.
Bytes(n) == <<n \div 16777216, (n \div 65536) % 256, (n \div 256) % 256, n % 256>>

\* Mutant of BitLength: the length is counted in bytes.
ByteLength(message) == Zeros(4) \o Bytes(Len(message))

\* The number of bits, in eight bytes.  A message is shorter than 2^29 bytes
\* here, and the upper four are zero.
MessageBound == 536870912
BitLength(message) == Zeros(4) \o Bytes(8 * Len(message))

\* A zero is pushed until the length ends eight bytes before a block does.
ZeroFill(length) == (56 - length) % BlockBytes

Padded(message) ==
  message \o <<Mark>> \o Zeros(ZeroFill(Len(message) + 1)) \o BitLength(message)

\* chunks_exact: what does not fill a block is not looked at.
Blocks(bytes) ==
  [b \in 1..(Len(bytes) \div BlockBytes) |->
     SubSeq(bytes, (b - 1) * BlockBytes + 1, b * BlockBytes)]

\* sha256_hex, of bytes and of any value whose text is compared as a whole.
Sha256(message) == Blocks(Padded(message))
DigestOf(value) == <<"sha256", value>>

(***************************************************************************)
(* A flat JSON object as a text: its members in the order they are written,*)
(* and whether there is a space anywhere.  Keys are numbered in the order  *)
(* of their bytes.                                                         *)
(***************************************************************************)

\* serde_json::from_str into a map: of members with one key the last counts.
Parsed(text) ==
  [k \in {text.members[i][1] : i \in DOMAIN text.members} |->
     text.members[CHOOSE i \in DOMAIN text.members :
                    /\ text.members[i][1] = k
                    /\ \A j \in DOMAIN text.members : text.members[j][1] = k => j <= i][2]]

\* canonical_json_text of an object: a map that is kept sorted, and no space.
CanonicalText(object) ==
  LET places == 1..Cardinality(DOMAIN object)
      keys == CHOOSE sorted \in [places -> DOMAIN object] :
                \A i, j \in places : i < j => sorted[i] < sorted[j]
  IN [members |-> [i \in places |-> <<keys[i], object[keys[i]]>>], spaced |-> FALSE]

IsCanonical(text) == CanonicalText(Parsed(text)) = text

(***************************************************************************)
(* Source text.                                                            *)
(***************************************************************************)
CR == "\r"
LF == "\n"

\* str::replace, of one character and of a pair.
ReplaceCR(text) == [i \in DOMAIN text |-> IF text[i] = CR THEN LF ELSE text[i]]
ReplaceCRLF(text) ==
  Kept(text, {i \in DOMAIN text : ~(text[i] = CR /\ i < Len(text) /\ text[i + 1] = LF)})

\* Mutant of NormalizeNewlines: the two replacements the other way round.
NormalizeSingleFirst(text) == ReplaceCRLF(ReplaceCR(text))

NormalizeNewlines(text) == ReplaceCR(ReplaceCRLF(text))
=============================================================================
