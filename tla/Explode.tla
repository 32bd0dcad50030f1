---------------------------------- MODULE Explode ----------------------------------
(***************************************************************************)
(* Explosion of PKWARE's implode format (explode.c), one literal or one    *)
(* repetition at a time, and DecompressPKLIB's way of handing out what is  *)
(* written.  The input fits in_buff, so that it is read at once.           *)
(***************************************************************************)
EXTENDS ExplodeTables, Bits, FiniteSets, FiniteSetsExt, SequencesExt

CONSTANTS
  Half,        \* 0x1000: what is written at once, and kept for repetitions
  DictBits     \* dsize_bits: 4 to 6

ASSUME ExplodeAssumption == {Half, DictBits} \subseteq Nat \ {0}

CMP_BINARY == 0
CMP_ASCII == 1

Longest == Len(LenCode)
EndOfStream == 256 + LenBase[Longest] + 2 ^ ExLenBits[Longest] - 1   \* 0x305
Abort == EndOfStream + 1                                            \* 0x306

(* Eight bits are always loaded: n bits can be taken if eight more follow. *)
WasteBits(w, bits, n) ==
  [w EXCEPT !.at = @ + n, !.ok = w.ok /\ Has(bits, w.at + n, 8)]
Bitbuff(w, bits, n) == GetBits(bits, w.at, n)

(* The index that GenDecodeTabs enters for the next bits, 0 if none.       *)
DecodeTab(codes, lengths, byte) ==
  Max({0} \cup {i \in DOMAIN codes : byte % 2 ^ lengths[i] = codes[i]})

(* The length of a repetition: its code, and extra bits.  The last extra   *)
(* bits of the end of the stream need not be followed by anything.         *)
DecodeLength(w, bits) ==
  LET v == WasteBits(w, bits, 1)
      i == DecodeTab(LenCode, LenCodeBits, Bitbuff(v, bits, 8))
      x == WasteBits(v, bits, LenCodeBits[i])
      extra == Bitbuff(x, bits, ExLenBits[i])
      y == WasteBits(x, bits, ExLenBits[i])
      last == i = Longest /\ extra = 2 ^ ExLenBits[i] - 1
  IN  IF ~v.ok THEN [w |-> v, value |-> Abort]
      ELSE IF ~x.ok THEN [w |-> x, value |-> Abort]
      ELSE IF ExLenBits[i] = 0 THEN [w |-> x, value |-> 256 + LenBase[i]]
      ELSE [w |-> y, value |-> IF y.ok \/ last THEN 256 + LenBase[i] + extra ELSE Abort]

(* A character of at most eight bits is found by its whole code, a longer  *)
(* one by what follows its first 4, 6 or 8 bits: tables offs2C34, offs2D34, *)
(* offs2E34 and offs2EB4 of GenAscTabs.                                    *)
CharOf(chars, drop, byte) ==
  LET found == {c \in chars : byte % 2 ^ (ChBitsAsc[c] - drop) = ChCodeAsc[c] \div 2 ^ drop}
  IN  IF found = {} THEN 0 ELSE Min(found)

DecodeChar(w, bits) ==
  LET byte == Bitbuff(w, bits, 8)
      short == {c \in DOMAIN ChBitsAsc : ChBitsAsc[c] <= 8}
      long == DOMAIN ChBitsAsc \ short
      drop == CASE byte # 0 /\ \E c \in short : byte % 2 ^ ChBitsAsc[c] = ChCodeAsc[c] -> 0
                [] byte = 0 -> 8
                [] byte # 0 /\ byte % 64 = 0 -> 6
                [] OTHER -> 4
      chars == CASE drop = 0 -> short
                 [] drop = 8 -> {c \in long : ChCodeAsc[c] % 256 = 0}
                 [] drop = 6 -> {c \in long : ChCodeAsc[c] % 64 = 0 /\ ChCodeAsc[c] % 256 # 0}
                 [] OTHER -> {c \in long : ChCodeAsc[c] % 64 # 0}
      v == WasteBits(w, bits, drop)
      value == CharOf(chars, drop, Bitbuff(v, bits, 8))
      x == WasteBits(v, bits, ChBitsAsc[value] - drop)
  IN  IF ~v.ok THEN [w |-> v, value |-> Abort]
      ELSE [w |-> x, value |-> IF x.ok THEN value ELSE Abort]

DecodeLit(w, bits, ctype) ==
  LET v == WasteBits(w, bits, 1)
      x == WasteBits(v, bits, 8)
  IN  IF Bitbuff(w, bits, 1) = 1 THEN DecodeLength(w, bits)
      ELSE IF ~v.ok THEN [w |-> v, value |-> Abort]
      ELSE IF ctype = CMP_ASCII THEN DecodeChar(v, bits)
      ELSE [w |-> x, value |-> IF x.ok THEN Bitbuff(v, bits, 8) ELSE Abort]

(* 0 if the bits end.  A repetition of two bytes is nearer than others.    *)
LowBits(rep_length) == IF rep_length = 2 THEN 2 ELSE DictBits
DecodeDist(w, bits, rep_length) ==
  LET i == DecodeTab(DistCode, DistBits, Bitbuff(w, bits, 8))
      v == WasteBits(w, bits, DistBits[i])
      low == LowBits(rep_length)
      x == WasteBits(v, bits, low)
  IN  [w |-> x, dist |-> IF v.ok /\ x.ok
                         THEN (i - 1) * 2 ^ low + Bitbuff(v, bits, low) + 1 ELSE 0]

--------------------------------------------------------------------------------
(* Expand: the output buffer up to outputPos, of which the first half was  *)
(* written before; written is what write_buf took, at most capacity.       *)
StartExpand(ctype) ==
  [w |-> [at |-> 1, ok |-> TRUE], buff |-> [i \in 1..Half |-> 0], written |-> <<>>,
   ctype |-> ctype, over |-> FALSE]

write_buf(written, bytes, capacity) ==
  written \o SubSeq(bytes, 1, Min({Len(bytes), capacity - Len(written)}))

Repetition(buff, dist, length) ==
  [i \in 1..length |-> buff[Len(buff) - dist + 1 + ((i - 1) % dist)]]

(* Half of the buffer is written once the other half is full as well.      *)
FlushedHalf(e, capacity) ==  \* mutant: the bytes above both halves are dropped
  IF Len(e.buff) < 2 * Half THEN e
  ELSE [e EXCEPT !.written = write_buf(@, SubSeq(e.buff, Half + 1, 2 * Half), capacity),
                 !.buff = SubSeq(@, Half + 1, 2 * Half)]
Flushed(e, capacity) ==
  IF Len(e.buff) < 2 * Half THEN e
  ELSE [e EXCEPT !.written = write_buf(@, SubSeq(e.buff, Half + 1, 2 * Half), capacity),
                 !.buff = SubSeq(@, Half + 1, Len(@))]

(* One round of the loop of Expand, or its end.                            *)
Put(e, bytes, w, capacity) == Flushed([e EXCEPT !.buff = @ \o bytes, !.w = w], capacity)
End(e, capacity) ==
  LET rest == SubSeq(e.buff, Half + 1, Len(e.buff))
  IN  [e EXCEPT !.written = write_buf(@, rest, capacity), !.over = TRUE]
PutRepetition(e, d, rep_length, capacity) ==
  IF d.dist = 0 THEN End(e, capacity)
  ELSE Put(e, Repetition(e.buff, d.dist, rep_length), d.w, capacity)
Expand(e, lit, bits, capacity) ==
  LET rep_length == lit.value - 254
  IN  CASE lit.value < 256 -> Put(e, <<lit.value>>, lit.w, capacity)
        [] lit.value >= EndOfStream -> End(e, capacity)
        [] OTHER -> PutRepetition(e, DecodeDist(lit.w, bits, rep_length), rep_length, capacity)
ExpandOnce(e, bits, capacity) == Expand(e, DecodeLit(e.w, bits, e.ctype), bits, capacity)
================================================================================
