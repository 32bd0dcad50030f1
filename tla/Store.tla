--------------------------------- MODULE Store ---------------------------------
(***************************************************************************)
(* The stores of LZ77 commands of zopfli (the first part of lz77.c) with   *)
(* the symbols of util.c.  A store is a sequence of commands: a literal    *)
(* has dist 0.  Its indices start at 0 in the code; a range lstart, lend   *)
(* of the code is the commands lstart + 1 .. lend here.                    *)
(***************************************************************************)
EXTENDS Entropy, FiniteSets, SequencesExt

CONSTANTS
  ByteBits,   \* bits of a byte: 8
  MAX_MATCH,  \* ZOPFLI_MAX_MATCH: 258
  NUM_D,      \* ZOPFLI_NUM_D: 32
  ChunkLL,    \* commands per cumulative histogram: ZOPFLI_NUM_LL
  ChunkD,     \* the same for distances: ZOPFLI_NUM_D
  FixedLL,    \* lengths of the fixed codes of literals and lengths
  FixedD      \* and of distances

Byte == 0..(2 ^ ByteBits - 1)
END == 2 ^ ByteBits   \* the symbol that ends a block: 256

ASSUME StoreAssumption ==
  /\ {ByteBits, MAX_MATCH, NUM_D, ChunkLL, ChunkD} \subseteq Nat \ {0}
  /\ MAX_MATCH > 3 /\ {0, END - 1} \subseteq Byte

MinOf(a, b) == IF a < b THEN a ELSE b

(* Symbols of lengths and distances, with the number and the value of      *)
(* their extra bits.  The longest match has a symbol of its own.           *)
LengthExtraBits(l) == IF l < 11 \/ l = MAX_MATCH THEN 0 ELSE Log2(l - 3) - 2
LengthExtraBitsValue(l) == (l - 3) % 2 ^ LengthExtraBits(l)
ShortSymbol(l) == END + 1 + 4 * (IF l < 11 THEN 0 ELSE Log2(l - 3) - 2)
                    + (l - 3) \div 2 ^ (IF l < 11 THEN 0 ELSE Log2(l - 3) - 2)
LengthSymbol(l) == IF l = MAX_MATCH THEN ShortSymbol(MAX_MATCH - 1) + 1 ELSE ShortSymbol(l)

DistExtraBits(d) == IF d < 5 THEN 0 ELSE Log2(d - 1) - 1
DistExtraBitsOfDist(d) == d % 2 ^ DistExtraBits(d)  \* mutant: distances counted from 0
DistExtraBitsValue(d) == (d - 1) % 2 ^ DistExtraBits(d)
DistSymbol(d) == IF d < 5 THEN d - 1
                 ELSE 2 * Log2(d - 1) + (((d - 1) \div 2 ^ (Log2(d - 1) - 1)) % 2)

NumLen == LengthSymbol(MAX_MATCH) - END   \* symbols of lengths: 29
NUM_LL == END + 1 + NumLen + 2            \* ZOPFLI_NUM_LL: 288, the last two unused
LLSymbols == 0..(NUM_LL - 1)
DSymbols == 0..(NUM_D - 1)

LengthSymbolExtraBits(s) ==
  LET l == CHOOSE k \in 3..MAX_MATCH : LengthSymbol(k) = s IN LengthExtraBits(l)
DistSymbolHalf(s) == s \div 2  \* mutant: one bit too many
DistSymbolExtraBits(s) == IF s < 4 THEN 0 ELSE s \div 2 - 1

--------------------------------------------------------------------------------
(* Stores.  Each chunk of commands has a histogram of all commands up to   *)
(* its last one.                                                           *)
Literal(byte, pos) == [litlen |-> byte, dist |-> 0, pos |-> pos]
Size(c) == IF c.dist = 0 THEN 1 ELSE c.litlen
LLSymbol(c) == IF c.dist = 0 THEN c.litlen ELSE LengthSymbol(c.litlen)

EmptyStore == [commands |-> <<>>, ll |-> <<>>, d |-> <<>>]

ZopfliStoreLitLenDist(c, store) ==
  LET n == Len(store.commands)
      Opened(hists, chunk, symbols) ==
        CASE n % chunk # 0 -> hists
          [] n = 0 -> <<[s \in symbols |-> 0]>>
          [] OTHER -> Append(hists, Last(hists))
      ll == Opened(store.ll, ChunkLL, LLSymbols)
      d == Opened(store.d, ChunkD, DSymbols)
  IN  [commands |-> Append(store.commands, c),
       ll |-> [ll EXCEPT ![Len(ll)][LLSymbol(c)] = @ + 1],
       d |-> IF c.dist = 0 THEN d ELSE [d EXCEPT ![Len(d)][DistSymbol(c.dist)] = @ + 1]]

ZopfliAppendLZ77Store(store, target) ==
  LET Appended[n \in Nat] ==
        IF n = 0 THEN target ELSE ZopfliStoreLitLenDist(store.commands[n], Appended[n - 1])
  IN  Appended[Len(store.commands)]
Stored(commands) == ZopfliAppendLZ77Store([commands |-> commands], EmptyStore)

ZopfliLZ77GetByteRange(store, lstart, lend) ==
  IF lstart = lend THEN 0
  ELSE store.commands[lend].pos + Size(store.commands[lend]) - store.commands[lstart + 1].pos

(* The histograms of the commands up to index lpos (from 0): those of its  *)
(* chunk, less the later commands of the chunk.                            *)
HistogramAtEnd(store, lpos) ==  \* mutant: the rest of the chunk is not subtracted
  [ll |-> store.ll[lpos \div ChunkLL + 1], d |-> store.d[lpos \div ChunkD + 1]]
HistogramAt(store, lpos) ==
  LET After(chunk) == {i \in (lpos + 2)..(chunk * (lpos \div chunk) + chunk) :
                         i <= Len(store.commands)}
      ll == store.ll[lpos \div ChunkLL + 1]
      d == store.d[lpos \div ChunkD + 1]
  IN  [ll |-> [s \in LLSymbols |->
                 ll[s] - Cardinality({i \in After(ChunkLL) : LLSymbol(store.commands[i]) = s})],
       d |-> [s \in DSymbols |->
                d[s] - Cardinality({i \in After(ChunkD) :
                                      /\ store.commands[i].dist # 0
                                      /\ DistSymbol(store.commands[i].dist) = s})]]

Counted(store, lstart, lend) ==
  LET range == (lstart + 1)..lend
  IN  [ll |-> Tabulated([s \in LLSymbols |->
                Cardinality({i \in range : LLSymbol(store.commands[i]) = s})]),
       d |-> Tabulated([s \in DSymbols |->
               Cardinality({i \in range : /\ store.commands[i].dist # 0
                                          /\ DistSymbol(store.commands[i].dist) = s})])]

IsShort(lstart, lend) == lstart + 3 * ChunkLL > lend

ZopfliLZ77GetHistogram(store, lstart, lend) ==
  IF IsShort(lstart, lend) THEN Counted(store, lstart, lend)
  ELSE LET end == HistogramAt(store, lend - 1)
           start == HistogramAt(store, lstart - 1)
       IN  IF lstart = 0 THEN end
           ELSE [ll |-> Tabulated([s \in LLSymbols |-> end.ll[s] - start.ll[s]]),
                 d |-> Tabulated([s \in DSymbols |-> end.d[s] - start.d[s]])]
================================================================================
