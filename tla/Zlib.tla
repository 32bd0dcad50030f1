---------------------------------- MODULE Zlib ----------------------------------
(***************************************************************************)
(* ZopfliZlibCompress with the coder of deflate.c, and what mz_uncompress  *)
(* makes of its stream.  A parse is a greedy one or all literals: what the *)
(* search of lz77.c and the parses of squeeze.c find, see module Squeeze.  *)
(***************************************************************************)
EXTENDS Inflate, Deflate

CONSTANT WINDOW  \* ZOPFLI_WINDOW_SIZE: 32768

ASSUME ZlibAssumption == WINDOW \in Nat \ {0} /\ DistSymbol(WINDOW - 1) <= NUM_D - 3

(* Parses of the bytes start + 1 .. end: all literals, or a match wherever *)
(* at least three bytes are repeated from a distance before.               *)
Repeats(bytes, end, pos, dist) ==
  LET equal == {k \in 0..MinOf(MAX_MATCH, end - pos) :
                  \A i \in 1..k : bytes[pos + i] = bytes[pos + i - dist]}
  IN  Max(equal)

RECURSIVE Parse(_, _, _, _)
Parse(bytes, pos, end, dists) ==
  LET Long(d) == d <= pos /\ Repeats(bytes, end, pos, d) >= 3
      best == {d \in dists : Long(d)}
      d == CHOOSE e \in best :
             \A f \in best : Repeats(bytes, end, pos, e) >= Repeats(bytes, end, pos, f)
      c == IF pos = end \/ best = {} THEN Literal(bytes[pos + 1], pos)
           ELSE [litlen |-> Repeats(bytes, end, pos, d), dist |-> d, pos |-> pos]
  IN  IF pos = end THEN <<>> ELSE <<c>> \o Parse(bytes, pos + Size(c), end, dists)
EitherParse(bytes, start, end) ==
  {Parse(bytes, start, end, {}), Parse(bytes, start, end, 1..(WINDOW - 1))}

(* Compression method 8 with the default level.                            *)
ZlibHeader == AddBits(120, 8) \o AddBits(1, 8)

(* The checksum, highest byte first.                                       *)
WithAdler32(bits, bytes) ==
  LET sums == Adler32(bytes)
      Word(w) == AddBits(w \div 256, 8) \o AddBits(w % 256, 8)
  IN  Padded(bits) \o Word(sums[2]) \o Word(sums[1])

--------------------------------------------------------------------------------
(* What ZopfliZlibCompress writes for a sector, mz_uncompress reads: a     *)
(* later run gets the bytes that were packed.                              *)
RoundTrip ==
  stage = "end" => mz_uncompress(out, Len(data)) = [ok |-> TRUE, out |-> data]

(* mz_uncompress never takes a stream that was cut, or that does not fit   *)
(* the buffer, for a complete one: there is no other check of a file of    *)
(* the cache or of a sector that is too short.                             *)
TruncationDetected ==
  stage = "end" =>
    /\ \A n \in 0..(Len(out) \div 8 - 1) :
         ~mz_uncompress(SubSeq(out, 1, 8 * n), Len(data)).ok
    /\ data # <<>> => ~mz_uncompress(out, Len(data) - 1).ok

(* The sizes by which blocks are split and their form is chosen are those  *)
(* of the blocks written, as AddLZ77Block asserts for the last two forms.  *)
(* A stored block is charged no more than its padding off.                 *)
SizesMatch ==
  stage = "emit" =>
    LET r == AtPoint(points, block, 0, Len(lz77.commands))
    IN  \A btype \in 0..2 : r[1] # r[2] =>
          LET size == ZopfliCalculateBlockSize(lz77, r[1], r[2], btype)
              written == Len(AddLZ77Block(out, btype, FALSE, data, lz77, r[1], r[2])) - Len(out)
          IN  IF btype = 0 THEN AbsDiff(size, written) < ByteBits * (1 + Len(data))
              ELSE size = written
================================================================================
