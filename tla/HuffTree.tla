--------------------------------- MODULE HuffTree ---------------------------------
(***************************************************************************)
(* The adaptive Huffman coder and decoder of huff.cpp: the loops over the  *)
(* items of the tree, as a whole, and the bits of the codes.               *)
(***************************************************************************)
EXTENDS Bits, HuffWeights, HuffItems

FAILURE == 511   \* 0x1FF

(* The bytes of rest in turn.                                              *)
RECURSIVE Listed(_, _, _)
Listed(t, rest, weights) ==
  LET b == Min(rest)
  IN  IF rest = {} THEN t ELSE Listed(InsertByte(t, b, weights[b]), rest \ {b}, weights)

(* The loop that gives two neighbours at a time a parent, from lo upwards. *)
RECURSIVE Paired(_, _)
Paired(t, lo) ==
  LET hi == IF lo = 0 THEN 0 ELSE Prev(t, lo)
      linked == Pair(t, lo, hi)
  IN  IF hi = 0 THEN t ELSE Paired(linked, Prev(linked, hi))

BuildTree(type) ==
  LET weights == WeightTables[type]
      listed == InsertMarks(Listed(NoTree, {b \in Bytes : weights[b] # 0}, weights))
  IN  Paired(listed, Last(listed.list))

(* One more occurrence of item i and of all its ancestors.                 *)
RECURSIVE IncWeightsAndRebalance(_, _)
IncWeightsAndRebalance(t, i) ==
  LET counted == IncWeight(t, i)
  IN  IF i = 0 THEN t ELSE IncWeightsAndRebalance(counted, counted.items[i].parent)

InsertNewBranchAndRebalance(t, value) ==
  LET branched == InsertBranch(t, value)
  IN  IncWeightsAndRebalance(branched, branched.byvalue[value])

--------------------------------------------------------------------------------
(* The code of an item, from the root down: 1 for the higher child.        *)
RECURSIVE EncodeOneByte(_, _)
EncodeOneByte(t, i) ==
  LET p == t.items[i].parent
  IN  IF p = 0 THEN <<>>
      ELSE EncodeOneByte(t, p) \o <<IF t.items[p].lo # i THEN 1 ELSE 0>>

(* Compress: one byte, with the tree and the bits so far.                  *)
CompressByte(s, byte, type) ==
  LET new == s.tree.byvalue[byte] = 0
      inserted == IF new THEN InsertNewBranchAndRebalance(s.tree, byte) ELSE s.tree
  IN  [bits |-> s.bits \o IF new
                          THEN EncodeOneByte(s.tree, s.tree.byvalue[NEWBYTE]) \o AddBits(byte, 8)
                          ELSE EncodeOneByte(s.tree, s.tree.byvalue[byte]),
       tree |-> IF new \/ type = 0
                THEN IncWeightsAndRebalance(inserted, inserted.byvalue[byte]) ELSE inserted]

Compress(bytes, type) ==
  LET s == FoldLeft(LAMBDA u, b : CompressByte(u, b, type),
                    [bits |-> AddBits(type, 8), tree |-> BuildTree(type)], bytes)
  IN  s.bits \o EncodeOneByte(s.tree, s.tree.byvalue[ENDMARK])

--------------------------------------------------------------------------------
(* A decoder: its tree, the quick links, the position of the next bit and  *)
(* the number of bits that are loaded.  The memory behind the bits reads   *)
(* as zeros.                                                               *)
NoLink == [valid |-> 0, bits |-> 0, value |-> 0, item |-> 0]
NewDecoder(tree) ==
  [tree |-> tree, links |-> [k \in 0..127 |-> NoLink], at |-> 1, loaded |-> 0]

Peek(bits, at, n) == GetBits(bits \o [k \in 1..n |-> 0], at, n)

(* The decoder takes n bits, once at least need of them are loaded.        *)
Take(d, n, need) ==
  [d EXCEPT !.at = @ + n,
            !.loaded = IF @ - d.at + 1 < need THEN @ + 8 ELSE @]
Get8Bits(d, bits) == [value |-> Peek(bits, d.at, 8), d |-> Take(d, 8, 8)]

(* From item i down to a leaf: the leaf, its depth below i and the item    *)
(* seven levels down.                                                      *)
RECURSIVE StepDown(_, _, _, _)
StepDown(d, bits, w, depth) ==
  LET t == d.tree
      lo == t.items[w.item].lo
      next == IF Peek(bits, d.at, 1) = 1 THEN Prev(t, lo) ELSE lo
  IN  IF lo = 0 THEN [d |-> d, item |-> w.item, depth |-> depth, link |-> w.link]
      ELSE StepDown(Take(d, 1, 1), bits,
                    [item |-> next, link |-> IF depth = 6 THEN next ELSE w.link], depth + 1)

(* A link is kept with the MinValidValue of its time, which only grows: no *)
(* link is ever usable.                                                    *)
Usable(link, t) == link.valid > t.valid

(* The next value and the decoder after it; size is the length of the      *)
(* input in bits.                                                          *)
DecodeOneByte(d, bits, size) ==
  LET peeked == Take(d, 0, 7)
      index == Peek(bits, d.at, 7)
      link == d.links[index]
      jump == Usable(link, d.tree) /\ link.bits > 7
      w == StepDown(IF jump THEN Take(peeked, 7, 7) ELSE peeked, bits,
                    [item |-> IF jump THEN link.item ELSE d.tree.list[1], link |-> 0], 0)
      value == d.tree.items[w.item].value
      new == [valid |-> d.tree.valid, bits |-> w.depth, value |-> value, item |-> w.link]
      Same(k) == IF w.depth > 7 THEN k = index ELSE k % 2 ^ w.depth = index % 2 ^ w.depth
      links == IF link.valid >= d.tree.valid THEN d.links
               ELSE [k \in 0..127 |-> IF Same(k) THEN new ELSE d.links[k]]
  IN  IF d.loaded >= size /\ d.loaded - d.at + 1 < 7 THEN [value |-> FAILURE, d |-> d]
      ELSE IF Usable(link, d.tree) /\ link.bits <= 7
      THEN [value |-> link.value, d |-> Take(peeked, link.bits, link.bits)]
      ELSE [value |-> value, d |-> [w.d EXCEPT !.links = links]]
================================================================================
