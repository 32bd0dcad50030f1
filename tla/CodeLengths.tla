------------------------------ MODULE CodeLengths ------------------------------
(***************************************************************************)
(* Huffman codes of zopfli: the lengths from the boundary package-merge    *)
(* algorithm as a whole, and the canonical codes of tree.c.                *)
(***************************************************************************)
EXTENDS PackageMerge

(* The next call on the stack and those that it makes.                     *)
RECURSIVE Called(_, _)
Called(s, leaves) ==
  LET t == BoundaryPM(s, leaves)
  IN  IF s.full \/ Len(t.calls) < Len(s.calls) THEN t
      ELSE Called(Called(t, leaves), leaves)

(* The lists after all runs of BoundaryPM on the last one.                 *)
Merged(leaves, maxbits) ==
  LET numBoundaryPMRuns == 2 * Len(leaves) - 4
      Run[i \in 0..numBoundaryPMRuns] ==
        IF i = 0 THEN InitLists(leaves, maxbits)
        ELSE Called([Run[i - 1] EXCEPT !.calls = <<Call(maxbits, i = numBoundaryPMRuns)>>], leaves)
  IN  Run[numBoundaryPMRuns]

(* The lengths of a code for the histogram of at most maxbits bits, <<>>   *)
(* if the function reports an error or does not end.                       *)
LengthsOf(leaves, freq, maxbits) ==
  CASE 2 ^ maxbits < Len(leaves) -> <<>>
    [] Len(leaves) <= 1 -> [i \in DOMAIN freq |-> IF freq[i] > 0 THEN 1 ELSE 0]
    [] OTHER -> ExtractBitLengths(Merged(leaves, maxbits), maxbits, leaves, freq)
ZopfliLengthLimitedCodeLengths(freq, maxbits) == LengthsOf(Leaves(freq), freq, maxbits)

ZopfliCalculateBitLengths(freq, maxbits) == ZopfliLengthLimitedCodeLengths(freq, maxbits)

(* The canonical code: the codes of a length follow those of the shorter   *)
(* lengths, in the order of the symbols.                                   *)
ZopfliLengthsToSymbols(lengths, maxbits) ==
  LET Count(b) == Cardinality({i \in DOMAIN lengths : b > 0 /\ lengths[i] = b})
      next_code[b \in 0..maxbits] ==
        IF b = 0 THEN 0 ELSE 2 * (next_code[b - 1] + Count(b - 1))
      Earlier(i) == {j \in DOMAIN lengths : j < i /\ lengths[j] = lengths[i]}
  IN  Tabulated([i \in DOMAIN lengths |->
         IF lengths[i] = 0 THEN 0 ELSE next_code[lengths[i]] + Cardinality(Earlier(i))])
================================================================================
