--------------------------------- MODULE Inflate ---------------------------------
(***************************************************************************)
(* Reading of a zlib stream: mz_uncompress of miniz.c with the one call of *)
(* mz_inflate and of tinfl_decompress it makes, on an output buffer of     *)
(* capacity bytes that is not a ring.  The reader has its own tables of    *)
(* symbols and builds its own codes.  A reader is a position at in the     *)
(* bits, the bytes out it has written and a status:                        *)
(*   going, done, or the reason it stopped: failed (the stream is          *)
(*   wrong), starved (it ends too early), full (no room for a byte).       *)
(***************************************************************************)
EXTENDS Blocks

Going(at, out) == [at |-> at, out |-> out, status |-> "going"]
Stop(r, status) == [r EXCEPT !.status = status]

(* s_length_base and s_length_extra, s_dist_base and s_dist_extra, by the  *)
(* number of the symbol.                                                   *)
LengthExtra(k) == IF k < 8 \/ k = NumLen - 1 THEN 0 ELSE k \div 4 - 1
DistExtra(k) == IF k < 4 THEN 0 ELSE k \div 2 - 1
RECURSIVE LengthBase(_), DistBase(_)
LengthBase(k) == CASE k = 0 -> 3
                   [] k = NumLen - 1 -> MAX_MATCH
                   [] OTHER -> LengthBase(k - 1) + 2 ^ LengthExtra(k - 1)
DistBase(k) == IF k = 0 THEN 1 ELSE DistBase(k - 1) + 2 ^ DistExtra(k - 1)

(* A code as a function from lengths and codes to symbols; a set of        *)
(* lengths that leaves codes unused, or uses one twice, is refused unless  *)
(* at most one symbol has a length.                                        *)
Coded(sizes) == {i \in DOMAIN sizes : sizes[i] > 0}
Complete(sizes) ==
  \/ Cardinality(Coded(sizes)) <= 1
  \/ SumFunction([i \in Coded(sizes) |-> 2 ^ (MAXBITS - sizes[i])]) = 2 ^ MAXBITS
HuffTable(sizes) ==
  LET Before(i) == {j \in Coded(sizes) : \/ sizes[j] < sizes[i]
                                         \/ sizes[j] = sizes[i] /\ j < i}
      Code(i) == SumFunction([j \in Before(i) |-> 2 ^ (sizes[i] - sizes[j])])
      codes == [i \in Coded(sizes) |-> <<sizes[i], Code(i)>>]
  IN  [c \in {codes[i] : i \in Coded(sizes)} |-> CHOOSE i \in Coded(sizes) : codes[i] = c]

(* The next symbol of a code: <<symbol, position after it>>, <<>> if there *)
(* is none.  In the table of a code with one symbol or none, what is not a *)
(* code leads to symbol 0 of no length, if the longest code would fit.     *)
HuffDecode(bits, at, table) ==
  LET Prefix[n \in 0..MAXBITS] == IF n = 0 THEN 0 ELSE 2 * Prefix[n - 1] + bits[at + n - 1]
      fits == {n \in 1..MAXBITS : Has(bits, at, n) /\ <<n, Prefix[n]>> \in DOMAIN table}
      n == Min(fits)
  IN  IF fits # {} THEN <<table[n, Prefix[n]], at + n>>
      ELSE IF Cardinality(DOMAIN table) <= 1 /\ Has(bits, at, MAXBITS) THEN <<0, at>>
      ELSE <<>>

StoredBlock(r, bits, capacity) ==
  LET at == r.at + ((ByteBits - ((r.at - 1) % ByteBits)) % ByteBits)
      n == GetBits(bits, at, LenBits)
      from == at + 2 * LenBits
      Raw(k) == [i \in 1..k |-> GetBits(bits, from + (i - 1) * ByteBits, ByteBits)]
      room == capacity - Len(r.out)
  IN  CASE ~Has(bits, at, 2 * LenBits) -> Stop(r, "starved")
        [] n + GetBits(bits, at + LenBits, LenBits) # MaxStored -> Stop(r, "failed")
        [] ~Has(bits, from, Min({n, room}) * ByteBits) -> Stop(r, "starved")
        [] n > room -> Stop(r, "full")
        [] OTHER -> Going(from + n * ByteBits, r.out \o Raw(n))

(* The lengths of both codes, read with the code of code lengths: their    *)
(* sequence and the position, or <<>>.                                     *)
RECURSIVE LenCodes(_, _, _, _, _)
LenCodes(bits, at, table, n, lens) ==
  LET sym == HuffDecode(bits, at, table)
      extra == sym[1] - 15
      after == sym[2] + <<2, 3, 7>>[extra]
      count == GetBits(bits, sym[2], <<2, 3, 7>>[extra]) + <<3, 3, 11>>[extra]
      value == IF sym[1] = 16 THEN Last(lens) ELSE 0
  IN  CASE Len(lens) = n -> <<lens, at>>
        [] Len(lens) > n \/ (Len(lens) < n /\ sym = <<>>) -> <<>>
        [] OTHER ->
           IF sym[1] < 16 THEN LenCodes(bits, sym[2], table, n, Append(lens, sym[1]))
           ELSE IF ~Has(bits, sym[2], after - sym[2]) \/ (sym[1] = 16 /\ lens = <<>>) THEN <<>>
           ELSE LenCodes(bits, after, table, n, lens \o [i \in 1..count |-> value])

(* Bytes are written if there is room for them.  A match may reach into    *)
(* what it writes itself, and not behind the first byte.                   *)
Write(r, bytes, at, capacity) ==
  IF Len(r.out) + Len(bytes) > capacity THEN Stop(r, "full") ELSE Going(at, r.out \o bytes)
Copied(out, dist, length) ==
  [i \in 1..length |-> out[Len(out) - dist + 1 + ((i - 1) % dist)]]
Match(r, bits, length, dsym, capacity) ==
  LET extra == DistExtra(dsym[1])
      dist == DistBase(dsym[1]) + GetBits(bits, dsym[2], extra)
  IN  IF dsym = <<>> THEN Stop(r, "starved")
      ELSE IF ~Has(bits, dsym[2], extra) THEN Stop(r, "starved")
      ELSE IF dist > Len(r.out) THEN Stop(r, "failed")
      ELSE Write(r, Copied(r.out, dist, length), dsym[2] + extra, capacity)

(* The symbols of a block up to its end.                                   *)
Symbol(r, bits, sym, d, capacity) ==
  LET k == sym[1] - END - 1
      length == LengthBase(k) + GetBits(bits, sym[2], LengthExtra(k))
  IN  IF sym = <<>> THEN Stop(r, "starved")
      ELSE IF sym[1] < END THEN Write(r, <<sym[1]>>, sym[2], capacity)
      ELSE IF ~Has(bits, sym[2], LengthExtra(k)) THEN Stop(r, "starved")
      ELSE Match(r, bits, length, HuffDecode(bits, sym[2] + LengthExtra(k), d), capacity)
RECURSIVE Symbols(_, _, _, _, _)
Symbols(r, bits, ll, d, capacity) ==
  LET sym == HuffDecode(bits, r.at, ll)
  IN  IF r.status # "going" THEN r
      ELSE IF sym # <<>> /\ sym[1] = END THEN Going(sym[2], r.out)
      ELSE Symbols(Symbol(r, bits, sym, d, capacity), bits, ll, d, capacity)

CodedBlock(r, bits, ll, d, capacity) ==
  IF Complete(ll) /\ Complete(d)
  THEN Symbols(r, bits, HuffTable(ll), HuffTable(d), capacity)
  ELSE Stop(r, "failed")

(* A block with its own code of code lengths clcl, and with the lengths    *)
(* read with it.                                                           *)
SizedBlock(r, bits, lens, nll, nd, capacity) ==
  LET Sizes(from, n) == [i \in 0..(n - 1) |-> lens[1][from + i]]
  IN  IF lens = <<>> THEN Stop(r, "failed")
      ELSE CodedBlock(Going(lens[2], r.out), bits, Sizes(1, nll), Sizes(nll + 1, nd), capacity)
DynamicBlock(r, bits, capacity) ==
  LET nll == GetBits(bits, r.at, 5) + END + 1
      nd == GetBits(bits, r.at + 5, 5) + 1
      ncl == GetBits(bits, r.at + 10, 4) + 4
      Dezigzag(s) == CHOOSE i \in 1..19 : Order[i] = s
      clcl == [s \in 0..18 |-> IF Dezigzag(s) > ncl THEN 0
                               ELSE GetBits(bits, r.at + 14 + 3 * (Dezigzag(s) - 1), 3)]
      lens == LenCodes(bits, r.at + 14 + 3 * ncl, HuffTable(clcl), nll + nd, <<>>)
  IN  IF ~Has(bits, r.at, 14) THEN Stop(r, "starved")
      ELSE IF ~Has(bits, r.at, 14 + 3 * ncl) THEN Stop(r, "starved")
      ELSE IF ~Complete(clcl) THEN Stop(r, "failed")
      ELSE SizedBlock(r, bits, lens, nll, nd, capacity)

(* The blocks up to the one with the final bit.                            *)
Block(r, bits, type, capacity) ==
  CASE type = 0 -> StoredBlock(r, bits, capacity)
    [] type = 1 -> CodedBlock(r, bits, FixedLL, FixedD, capacity)
    [] type = 2 -> DynamicBlock(r, bits, capacity)
    [] OTHER -> Stop(r, "failed")
Finished(r, final) == IF r.status = "going" /\ final THEN Stop(r, "done") ELSE r
RECURSIVE Inflated(_, _, _)
Inflated(r, bits, capacity) ==
  IF r.status # "going" THEN r
  ELSE IF ~Has(bits, r.at, 3) THEN Stop(r, "starved")
  ELSE Inflated(Finished(Block(Going(r.at + 3, r.out), bits, GetBits(bits, r.at + 1, 2), capacity),
                         bits[r.at] = 1), bits, capacity)

(* The two sums of Adler-32.                                               *)
Adler32(bytes) ==
  FoldLeft(LAMBDA s, b : <<(s[1] + b) % 65521, (s[2] + s[1] + b) % 65521>>, <<1, 0>>, bytes)

(* The header of a zlib stream: compression method 8, no dictionary, and   *)
(* divisible by 31.                                                        *)
HeaderOK(cmf, flg) == (cmf * 256 + flg) % 31 = 0 /\ (flg \div 32) % 2 = 0 /\ cmf % 16 = 8

(* Whether the checksum after the last block is there and right.           *)
ChecksumUnread(r, bits) == TRUE  \* mutant: the checksum is not read
ChecksumOK(r, bits) ==
  LET at == r.at + ((ByteBits - ((r.at - 1) % ByteBits)) % ByteBits)
      Octet(k) == GetBits(bits, at + 8 * k, 8)
  IN  /\ Has(bits, at, 32)
      /\ Adler32(r.out) = <<Octet(2) * 256 + Octet(3), Octet(0) * 256 + Octet(1)>>

Checked(r, bits) == IF r.status = "done" /\ ~ChecksumOK(r, bits) THEN Stop(r, "failed") ELSE r
tinfl_decompress(bits, capacity) ==
  IF ~Has(bits, 1, 16) \/ ~HeaderOK(GetBits(bits, 1, 8), GetBits(bits, 9, 8))
  THEN Stop(Going(1, <<>>), "failed")
  ELSE Checked(Inflated(Going(17, <<>>), bits, capacity), bits)

(* With MZ_FINISH on the first call nothing may be missing: a stream that  *)
(* ends too early is as wrong as any other, and a buffer that is too small *)
(* ends it as well.                                                        *)
Result(r) == [out |-> r.out,
              status |-> CASE r.status = "done" -> "MZ_STREAM_END"
                           [] r.status = "full" -> "MZ_BUF_ERROR"
                           [] OTHER -> "MZ_DATA_ERROR"]
mz_inflate(bits, capacity) == Result(tinfl_decompress(bits, capacity))

(* Whether mz_uncompress reports success, and what it has written.         *)
Reported(r) == [ok |-> r.status = "MZ_STREAM_END", out |-> r.out]
mz_uncompress(bits, capacity) == Reported(mz_inflate(bits, capacity))
================================================================================
