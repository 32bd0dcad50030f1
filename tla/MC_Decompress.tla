------------------------------- MODULE MC_Decompress -------------------------------
(* The sizes of the source, but for the window of the exploder, which is   *)
(* 32 bytes for 4096; the Huffman coder sees ten of the bytes.             *)
EXTENDS Decompress

MC_FixedLL == [s \in 0..287 |-> IF s < 144 \/ s > 279 THEN 8 ELSE IF s < 256 THEN 9 ELSE 7]
MC_FixedD == [s \in 0..31 |-> 5]

MC_LowestSample == -32768

MC_Weights == [k \in DOMAIN WeightTables |-> [b \in Bytes |-> WeightTables[k][b]]]

--------------------------------------------------------------------------------
(* Short texts of three bytes, and six zeros, whose codes become so short  *)
(* that they end with a byte of the sector.  Type 0 starts with the tree   *)
(* of one of the bytes; in type 2, for texts, 33 and 40 have codes of more *)
(* than seven bits, and 0 is not in the tree.                              *)
Long == <<9, 9, 10, 32, 9, 10, 9, 0, 33, 40, 44, 33, 44>>
Texts(n) == UNION {[1..k -> {0, 32, 33}] : k \in 1..n} \cup {[i \in 1..6 |-> 0], Long}

(* Every character, sixteen in a sector; repetitions that repeat           *)
(* themselves, that cross the window, or that reach behind the start.      *)
Plain(c) == [length |-> c, dist |-> 0]
Repeat(n, d) == [length |-> n, dist |-> d]
Characters(k) == [i \in 1..16 |-> Plain(16 * k + i - 1)]
Commands ==
  { <<Plain(65), Repeat(31, 1), Plain(66), Repeat(2, 7), Repeat(9, 32), Repeat(30, 20), Plain(67)>>,
    <<Plain(1), Plain(2), Repeat(29, 2), Repeat(25, 31), Plain(4), Repeat(3, 25), Repeat(20, 32)>> }

(* Sounds that jump, rest and are cut off at the ends of the range.        *)
Sounds == [1..4 -> {-32768, 0, 900, 32767}]

MC_Sectors ==
  {HuffmanSector(text, 0) : text \in Texts(6)} \cup {HuffmanSector(text, 2) : text \in Texts(5)}
  \cup {HuffmanSector(text, k) : text \in Texts(2), k \in DOMAIN WeightTables \ {0, 2}}
  \cup {PklibSector(Characters(k), ctype) : k \in 0..15, ctype \in {CMP_BINARY, CMP_ASCII}}
  \cup {PklibSector(c, CMP_BINARY) : c \in Commands}
  \cup {AdpcmSector(s, channels, level) : s \in Sounds, channels \in {1, 2}, level \in {3, 5}}
  \cup {ZlibSector(bytes) : bytes \in {<<7>>, <<1, 2, 3, 255>>}}

MC_Lengths == {Len(s.data) : s \in MC_Sectors}
================================================================================
