--------------------------------- MODULE Blocks ---------------------------------
(***************************************************************************)
(* The coding of a range of the commands of a store as one deflate block   *)
(* (the first part of deflate.c).  The output is a sequence of bits.       *)
(***************************************************************************)
EXTENDS Store, CodeLengths, Bits

CONSTANTS
  MAXBITS,    \* the longest code: 15
  LenBits,    \* bits of the size of a stored block: 16
  SmallStore  \* a store of more commands is not tried with fixed codes: 1000

ASSUME BlocksAssumption ==
  /\ {MAXBITS, LenBits, SmallStore} \subseteq Nat \ {0}
  /\ MAXBITS <= 15 /\ (2 * LenBits) % ByteBits = 0

(* The bits of a Huffman code are written highest first.                   *)
AddHuffmanBits(code, n) == Reverse(AddBits(code, n))

(* At least two codes of distances, for decoders that need them.           *)
PatchDistanceCodesForBuggyDecoders(d_lengths) ==
  LET used == {i \in 0..(NUM_D - 3) : d_lengths[i] # 0}
  IN  CASE Cardinality(used) >= 2 -> d_lengths
        [] used = {} -> [d_lengths EXCEPT ![0] = 1, ![1] = 1]
        [] OTHER -> [d_lengths EXCEPT ![IF d_lengths[0] # 0 THEN 1 ELSE 0] = 1]

(* The codes of the code lengths, in the order they are written.           *)
Order == <<16, 17, 18, 0, 8, 7, 9, 6, 10, 5, 11, 4, 12, 3, 13, 2, 14, 1, 15>>

(* A run of count equal lengths, first as codes of runs of at least least  *)
(* and at most most, as long as the run allows, and what is left of it.    *)
RECURSIVE Runs(_, _, _, _), Rest(_, _, _)
Runs(count, least, most, code) ==
  IF count < least THEN <<>>
  ELSE <<[code |-> code, extra |-> MinOf(count, most) - least]>>
       \o Runs(count - MinOf(count, most), least, most, code)
Rest(count, least, most) ==
  IF count < least THEN count ELSE Rest(count - MinOf(count, most), least, most)

RunLengthCodes(symbol, count, use16, use17, use18) ==
  LET zeros == symbol = 0 /\ count >= 3
      n18 == IF zeros /\ use18 THEN Rest(count, 11, 138) ELSE count
      n17 == IF zeros /\ use17 THEN Rest(n18, 3, 10) ELSE n18
      repeat == use16 /\ n17 >= 4
      n16 == IF repeat THEN Rest(n17 - 1, 3, 6) ELSE n17
      Once(n) == [i \in 1..n |-> [code |-> symbol, extra |-> 0]]
  IN  (IF zeros /\ use18 THEN Runs(count, 11, 138, 18) ELSE <<>>)
      \o (IF zeros /\ use17 THEN Runs(n18, 3, 10, 17) ELSE <<>>)
      \o (IF repeat THEN Once(1) \o Runs(n17 - 1, 3, 6, 16) ELSE <<>>)
      \o Once(n16)

(* The run-length codes of a whole sequence of lengths, run by run.        *)
RECURSIVE RunLengthEncoded(_, _)
RunLengthEncoded(lengths, use) ==
  IF lengths = <<>> THEN <<>>
  ELSE LET differ == {i \in DOMAIN lengths : lengths[i] # lengths[1]}
           count == IF differ = {} THEN Len(lengths) ELSE Min(differ) - 1
       IN  RunLengthCodes(lengths[1], count, use[1], use[2], use[3])
           \o RunLengthEncoded(SubSeq(lengths, count + 1, Len(lengths)), use)

(* The last used place, or 0: the trimming of zeros.                       *)
Trim(used) == Max({0} \cup used)
RepeatBits(code) == CASE code = 16 -> 2 [] code = 17 -> 3 [] code = 18 -> 7 [] OTHER -> 0

(* The bits that describe the two codes and their number as the code       *)
(* counts it without writing them: rle is coded with the code clcl.        *)
CodedTree(hlit, hdist, rle, clcounts, clcl) ==
  LET clsymbols == ZopfliLengthsToSymbols(clcl, 7)
      hclen == Trim({k \in 1..15 : clcounts[Order[k + 4]] # 0})
      Code(r) == AddHuffmanBits(clsymbols[r.code], clcl[r.code])
                 \o AddBits(r.extra, RepeatBits(r.code))
  IN  [bits |-> AddBits(hlit, 5) \o AddBits(hdist, 5) \o AddBits(hclen, 4)
                \o FlattenSeq([i \in 1..(hclen + 4) |-> AddBits(clcl[Order[i]], 3)])
                \o FlattenSeq([i \in DOMAIN rle |-> Code(rle[i])]),
       size |-> 14 + 3 * (hclen + 4)
                + SumFunction([c \in 0..18 |-> clcounts[c] * (clcl[c] + RepeatBits(c))])]
CountedTree(hlit, hdist, rle, clcounts) ==
  CodedTree(hlit, hdist, rle, clcounts, ZopfliCalculateBitLengths(clcounts, 7))
EncodeRuns(hlit, hdist, rle) ==
  CountedTree(hlit, hdist, rle, [c \in 0..18 |-> Cardinality({i \in DOMAIN rle : rle[i].code = c})])
EncodeTree(ll_lengths, d_lengths, use) ==
  LET hlit == Trim({k \in 1..NumLen : ll_lengths[END + k] # 0})
      hdist == Trim({k \in 1..(NUM_D - 3) : d_lengths[k] # 0})
      lengths == [i \in 1..(END + 1 + hlit) |-> ll_lengths[i - 1]]
                 \o [i \in 1..(hdist + 1) |-> d_lengths[i - 1]]
  IN  EncodeRuns(hlit, hdist, RunLengthEncoded(lengths, use))

(* The eight ways of using 16, 17 and 18, the first smallest is taken.     *)
Ways == [i \in 1..8 |-> <<i % 2 = 0, ((i - 1) \div 2) % 2 = 1, i > 4>>]
Smallest(trees) == CHOOSE i \in 1..8 : /\ \A j \in 1..8 : trees[i].size <= trees[j].size
                                       /\ \A j \in 1..(i - 1) : trees[i].size < trees[j].size
FirstSmallest(trees) == trees[Smallest(trees)]
BestTree(ll_lengths, d_lengths) ==
  FirstSmallest(Tabulated([i \in 1..8 |-> EncodeTree(ll_lengths, d_lengths, Ways[i])]))
AddDynamicTree(ll_lengths, d_lengths) == BestTree(ll_lengths, d_lengths).bits
CalculateTreeSize(ll_lengths, d_lengths) == BestTree(ll_lengths, d_lengths).size

(* The bits of the commands of a range, without the end symbol.            *)
AddLZ77Data(store, lstart, lend, ll_lengths, d_lengths) ==
  LET ll == ZopfliLengthsToSymbols(ll_lengths, MAXBITS)
      d == ZopfliLengthsToSymbols(d_lengths, MAXBITS)
      Bits(c) ==
        AddHuffmanBits(ll[LLSymbol(c)], ll_lengths[LLSymbol(c)])
        \o IF c.dist = 0 THEN <<>>
           ELSE AddBits(LengthExtraBitsValue(c.litlen), LengthExtraBits(c.litlen))
                \o AddHuffmanBits(d[DistSymbol(c.dist)], d_lengths[DistSymbol(c.dist)])
                \o AddBits(DistExtraBitsValue(c.dist), DistExtraBits(c.dist))
  IN  FlattenSeq([i \in 1..(lend - lstart) |-> Bits(store.commands[lstart + i])])

(* The size of those bits and the end symbol, counted command by command   *)
(* or, for a long range, from its histograms.                              *)
SizeOfCommand(ll_lengths, d_lengths, c) ==
  ll_lengths[LLSymbol(c)]
  + IF c.dist = 0 THEN 0
    ELSE d_lengths[DistSymbol(c.dist)] + LengthSymbolExtraBits(LLSymbol(c))
         + DistSymbolExtraBits(DistSymbol(c.dist))
SizeOfHistogram(ll_lengths, d_lengths, h) ==
  SumFunction([s \in (0..(END + NumLen)) \ {END} |->
                 h.ll[s] * (ll_lengths[s] + IF s < END THEN 0 ELSE LengthSymbolExtraBits(s))])
  + SumFunction([s \in 0..(NUM_D - 3) |-> h.d[s] * (d_lengths[s] + DistSymbolExtraBits(s))])
CalculateBlockSymbolSize(ll_lengths, d_lengths, store, lstart, lend) ==
  ll_lengths[END] +
    IF IsShort(lstart, lend)
    THEN SumFunction([i \in (lstart + 1)..lend |->
                        SizeOfCommand(ll_lengths, d_lengths, store.commands[i])])
    ELSE SizeOfHistogram(ll_lengths, d_lengths, ZopfliLZ77GetHistogram(store, lstart, lend))

--------------------------------------------------------------------------------
(* OptimizeHuffmanForRle smooths a histogram: a stretch of at least four   *)
(* counts close to each other gets their mean.  Runs that are coded well   *)
(* already, and the zeros at the end, are left alone.                      *)
AbsDiff(x, y) == IF x > y THEN x - y ELSE y - x

GoodForRle(counts, length) ==
  LET Same(a, b) == \A k \in a..b : counts[k] = counts[a]
      least(i) == IF counts[i] = 0 THEN 5 ELSE 7
  IN  {i \in 0..(length - 1) :
         \E a \in 0..i : a + least(i) <= length /\ i < a + least(i)
                         /\ Same(a, a + least(i) - 1)}

(* What a stretch of stride counts of the given sum becomes.               *)
Collapsed(sum, stride) ==
  LET mean == (sum + stride \div 2) \div stride
  IN  IF sum = 0 THEN 0 ELSE IF mean < 1 THEN 1 ELSE mean

OptimizeHuffmanForRle(counts) ==
  LET n == Cardinality(DOMAIN counts)
      length == Trim({k \in 1..n : counts[k - 1] # 0})
      good == GoodForRle(counts, length)
      Limit(i) ==
        CASE i + 3 < length ->
               (counts[i] + counts[i + 1] + counts[i + 2] + counts[i + 3] + 2) \div 4
          [] i < length -> counts[i]
          [] OTHER -> 0
      Ends(s, i) == i = length \/ i \in good \/ AbsDiff(counts[i], s.limit) >= 4
      (* at index i: the counts so far, the stretch before i and its sum    *)
      Counting(s, i, ends) ==
        LET long == s.stride >= 4 \/ (s.stride >= 3 /\ s.sum = 0)
        IN  [counts |-> IF ends /\ long
                        THEN [k \in DOMAIN counts |->
                                IF k \in (i - s.stride)..(i - 1)
                                THEN Collapsed(s.sum, s.stride) ELSE s.counts[k]]
                        ELSE s.counts,
             stride |-> IF ends THEN 1 ELSE s.stride + 1,
             limit |-> IF ends THEN Limit(i) ELSE s.limit,
             sum |-> (IF ends THEN 0 ELSE s.sum) + (IF i = length THEN 0 ELSE counts[i])]
      At(s, i) == Counting(s, i, Ends(s, i))
      Pass[i \in 0..(n + 1)] ==
        IF i = 0 THEN [counts |-> counts, stride |-> 0, limit |-> counts[0], sum |-> 0]
        ELSE At(Pass[i - 1], i - 1)
  IN  IF length = 0 THEN counts ELSE Pass[length + 1].counts

SmoothedLengths(counts) == ZopfliCalculateBitLengths(OptimizeHuffmanForRle(counts), MAXBITS)
DynamicLengths(h) ==
  [ll |-> SmoothedLengths([h.ll EXCEPT ![END] = 1]),
   d |-> PatchDistanceCodesForBuggyDecoders(SmoothedLengths(h.d))]
GetDynamicLengths(store, lstart, lend) == DynamicLengths(ZopfliLZ77GetHistogram(store, lstart, lend))

GetFixedTree == [ll |-> FixedLL, d |-> FixedD]
Tree(store, lstart, lend, btype) ==
  IF btype = 1 THEN GetFixedTree ELSE GetDynamicLengths(store, lstart, lend)

MaxStored == 2 ^ LenBits - 1   \* the largest stored block: 65535

CodedSize(tree, btype, store, lstart, lend) ==
  3 + (IF btype = 2 THEN CalculateTreeSize(tree.ll, tree.d) ELSE 0)
  + CalculateBlockSymbolSize(tree.ll, tree.d, store, lstart, lend)
ZopfliCalculateBlockSize(store, lstart, lend, btype) ==
  LET length == ZopfliLZ77GetByteRange(store, lstart, lend)
      blocks == (length + MaxStored - 1) \div MaxStored
  IN  IF btype = 0 THEN blocks * (ByteBits + 2 * LenBits) + length * ByteBits
      ELSE CodedSize(Tree(store, lstart, lend, btype), btype, store, lstart, lend)

ZopfliCalculateBlockSizeAutoType(store, lstart, lend) ==
  LET btypes == IF Len(store.commands) > SmallStore THEN {0, 2} ELSE 0..2
  IN  Min({ZopfliCalculateBlockSize(store, lstart, lend, btype) : btype \in btypes})

--------------------------------------------------------------------------------
(* Writing a block after the bits of out.                                  *)
Padded(out) == out \o [i \in 1..((ByteBits - (Len(out) % ByteBits)) % ByteBits) |-> 0]
Flag(b) == IF b THEN 1 ELSE 0

RECURSIVE AddNonCompressedBlock(_, _, _, _, _)
AddNonCompressedBlock(out, final, data, pos, end) ==
  LET n == MinOf(MaxStored, end - pos)
      last == pos + n >= end
      block == Padded(out \o <<Flag(final /\ last), 0, 0>>)
               \o AddBits(n, LenBits) \o AddBits(MaxStored - n, LenBits)
               \o FlattenSeq([i \in 1..n |-> AddBits(data[pos + i], ByteBits)])
  IN  IF last THEN block ELSE AddNonCompressedBlock(block, final, data, pos + n, end)

AddCodedBlock(out, btype, final, store, lstart, lend, tree) ==
  LET ll == ZopfliLengthsToSymbols(tree.ll, MAXBITS)
  IN  out \o <<Flag(final), btype % 2, btype \div 2>>
      \o (IF btype = 2 THEN AddDynamicTree(tree.ll, tree.d) ELSE <<>>)
      \o AddLZ77Data(store, lstart, lend, tree.ll, tree.d)
      \o AddHuffmanBits(ll[END], tree.ll[END])
AddLZ77Block(out, btype, final, data, store, lstart, lend) ==
  LET pos == IF lstart = lend THEN 0 ELSE store.commands[lstart + 1].pos
      length == ZopfliLZ77GetByteRange(store, lstart, lend)
  IN  IF btype = 0 THEN AddNonCompressedBlock(out, final, data, pos, pos + length)
      ELSE AddCodedBlock(out, btype, final, store, lstart, lend, Tree(store, lstart, lend, btype))

(* The cheapest form, where form 1 may cost something else.                *)
CheapestForm(cost, fixedcost) ==
  CASE cost[0] < fixedcost /\ cost[0] < cost[2] -> 0
    [] ~(cost[0] < fixedcost /\ cost[0] < cost[2]) /\ fixedcost < cost[2] -> 1
    [] OTHER -> 2

(* fixedstore is what ZopfliLZ77OptimalFixed makes of the bytes of the     *)
(* range; it is used where trying it is worth its time.                    *)
AddBlockByCost(out, final, data, store, lstart, lend, fixedstore, cost) ==
  LET expensivefixed == Len(store.commands) < SmallStore \/ 10 * cost[1] <= 11 * cost[2]
      fsize == Len(fixedstore.commands)
      fixedcost == IF expensivefixed THEN ZopfliCalculateBlockSize(fixedstore, 0, fsize, 1) ELSE cost[1]
      btype == CheapestForm(cost, fixedcost)
      refixed == btype = 1 /\ expensivefixed
  IN  CASE lstart = lend -> out \o <<Flag(final)>> \o AddBits(1, 2) \o AddBits(0, FixedLL[END])
        [] lstart # lend /\ refixed -> AddLZ77Block(out, 1, final, data, fixedstore, 0, fsize)
        [] OTHER -> AddLZ77Block(out, btype, final, data, store, lstart, lend)
AddLZ77BlockAutoType(out, final, data, store, lstart, lend, fixedstore) ==
  AddBlockByCost(out, final, data, store, lstart, lend, fixedstore,
                 Tabulated([b \in 0..2 |-> ZopfliCalculateBlockSize(store, lstart, lend, b)]))
================================================================================
