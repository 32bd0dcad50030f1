--------------------------------- MODULE Deflate ---------------------------------
(***************************************************************************)
(* ZopfliZlibCompress: data is cut into master blocks (parts); a part is   *)
(* parsed greedily, the parse is split into blocks as long as a split      *)
(* saves bits, each block gets a better parse, the parses put together may *)
(* be split a second time, and every block is written in its cheapest      *)
(* form.  What the parses find, what a block costs and how it is written   *)
(* is open here, see modules Zlib and Squeeze.  One iteration of each loop *)
(* is one step.                                                            *)
(***************************************************************************)
EXTENDS Store

CONSTANTS
  Inputs,        \* the data to compress
  MaxBlocks,     \* values of blocksplittingmax, 0 is unlimited
  MASTER,        \* ZOPFLI_MASTER_BLOCK_SIZE: 20000000
  MinSplit,      \* fewer commands are not split: 10
  FewPositions,  \* fewer positions are all tried: 1024
  NUM,           \* positions tried at once otherwise: 9
  Parses(_, _, _),  \* commands that a parse of the bytes start + 1 .. end may give
  SizeOfBlock(_, _, _),  \* ZopfliCalculateBlockSizeAutoType of a range of a store
  AddBlock(_, _, _, _, _, _, _),  \* AddLZ77BlockAutoType
  Header,            \* the bits before the first block
  Checksummed(_, _)  \* the bits of all blocks, closed for the data

ASSUME DeflateAssumption ==
  /\ {MASTER, MinSplit, FewPositions, NUM} \subseteq Nat \ {0} /\ MaxBlocks \subseteq Nat
  /\ Inputs \subseteq Seq(Byte)
  /\ MinSplit > 2 /\ FewPositions > NUM /\ NUM > 1

(* The commands of a parse stand for bytes of the range, one after the     *)
(* other.                                                                  *)
ASSUME ParseAssumption ==
  \A bytes \in Inputs : \A start \in 0..Len(bytes) : \A end \in start..Len(bytes) :
    \A commands \in Parses(bytes, start, end) :
      /\ commands \in Seq([litlen : Nat, dist : Nat, pos : start..(end - 1)])
      /\ \A i \in 1..Len(commands) : \A j \in 1..(i - 1) : commands[j].pos < commands[i].pos

VARIABLES
  data,      \* in of ZopfliZlibCompress
  maxblocks, \* options->blocksplittingmax
  stage,     \* of ZopfliDeflatePart, or end
  from,      \* instart of the part
  lz77,      \* the store of the part: of ZopfliBlockSplit, then of ZopfliDeflatePart
  split,     \* the locals of ZopfliBlockSplitLZ77
  bytepoints,  \* splitpoints_uncompressed
  points,    \* splitpoints
  totalcost,
  block,     \* the block that is written next
  out

vars == <<data, maxblocks, stage, from, lz77, split, bytepoints, points, totalcost, block, out>>

--------------------------------------------------------------------------------
(* Block splitting.                                                        *)
EstimateCost(store, lstart, lend) == SizeOfBlock(store, lstart, lend)
SplitCost(store, lstart, lend, i) ==
  EstimateCost(store, lstart, i) + EstimateCost(store, i, lend)

(* The first of the indices from first to last at which f is smallest.     *)
Better(f, best, i) == IF f[i] < f[best] THEN i ELSE best
FirstBest(f, first, last) ==
  LET Best[i \in Nat] == IF i <= first THEN first ELSE Better(f, Best[i - 1], i)
  IN  Best[last]

(* The search between start and end for a small cost (a function of the    *)
(* place): of NUM positions the neighbourhood of the best, until that is   *)
(* no better than before.                                                  *)
Narrow(cost, s) ==
  LET p == [i \in 0..(NUM + 1) |-> CASE i = 0 -> s.start
                                     [] i = NUM + 1 -> s.end
                                     [] OTHER -> s.start + i * ((s.end - s.start) \div (NUM + 1))]
      v == Tabulated([i \in 1..NUM |-> cost[p[i]]])
      i == FirstBest(v, 1, NUM)
  IN  IF s.over \/ s.end - s.start <= NUM \/ (s.lastbest # <<>> /\ v[i] > s.lastbest[1])
      THEN [s EXCEPT !.over = TRUE]
      ELSE [start |-> p[i - 1], end |-> p[i + 1], pos |-> p[i], lastbest |-> <<v[i]>>, over |-> FALSE]
Narrowed(cost, start, end) ==
  LET Narrows[n \in Nat] ==
        IF n = 0 THEN [start |-> start, end |-> end, pos |-> start, lastbest |-> <<>>, over |-> FALSE]
        ELSE Narrow(cost, Narrows[n - 1])
  IN  Narrows[end - start]

(* The position found and its cost.                                        *)
FewTried(cost, best) == <<best, cost[best]>>
ManyTried(s) == <<s.pos, s.lastbest[1]>>
FindMinimum(cost, start, end) ==
  IF end - start < FewPositions THEN FewTried(cost, FirstBest(cost, start, end - 1))
  ELSE ManyTried(Narrowed(cost, start, end))

(* The first longest block that is not done, <<start, end>>, <<>> if all   *)
(* are done.  The last block ends one command early here.                  *)
FindLargestBlock(size, done, splitpoints) ==  \* mutant: done is not looked at
  LET n == Len(splitpoints)
      blocks == [i \in 0..n |-> <<IF i = 0 THEN 0 ELSE splitpoints[i],
                                  IF i = n THEN size - 1 ELSE splitpoints[i + 1]>>]
      open == {i \in 0..n : blocks[i][2] > blocks[i][1]}
      Longest(i) == \A j \in open : blocks[j][2] - blocks[j][1] <= blocks[i][2] - blocks[i][1]
  IN  IF open = {} THEN <<>> ELSE blocks[Min({i \in open : Longest(i)})]
FindLargestSplittableBlock(size, done, splitpoints) ==
  LET n == Len(splitpoints)
      blocks == [i \in 0..n |-> <<IF i = 0 THEN 0 ELSE splitpoints[i],
                                  IF i = n THEN size - 1 ELSE splitpoints[i + 1]>>]
      open == {i \in 0..n : blocks[i][1] \notin done /\ blocks[i][2] > blocks[i][1]}
      Longest(i) == \A j \in open : blocks[j][2] - blocks[j][1] <= blocks[i][2] - blocks[i][1]
  IN  IF open = {} THEN <<>> ELSE blocks[Min({i \in open : Longest(i)})]

StartSplit(store) ==
  [points |-> <<>>, done |-> {}, lstart |-> 0, lend |-> Len(store.commands),
   over |-> Len(store.commands) < MinSplit]

AddSorted(value, sorted) ==
  LET at == Min({i \in 1..(Len(sorted) + 1) : i = Len(sorted) + 1 \/ sorted[i] > value})
  IN  [i \in 1..(Len(sorted) + 1) |-> CASE i < at -> sorted[i]
                                        [] i = at -> value
                                        [] OTHER -> sorted[i - 1]]

(* A split where found[1] and its cost found[2] tell, or none.             *)
Tried(s, found, origcost) ==
  IF found[2] > origcost \/ found[1] \in {s.lstart + 1, s.lend}
  THEN [s EXCEPT !.done = @ \cup {s.lstart}]
  ELSE [s EXCEPT !.points = AddSorted(found[1], @)]
Continued(size, s) ==
  LET next == FindLargestSplittableBlock(size, s.done, s.points)
  IN  IF next = <<>> THEN [s EXCEPT !.over = TRUE]
      ELSE [s EXCEPT !.lstart = next[1], !.lend = next[2], !.over = next[2] - next[1] < MinSplit]

(* One iteration of the loop of ZopfliBlockSplitLZ77.                      *)
SplitOnce(store, s) ==
  LET cost == [i \in (s.lstart + 1)..s.lend |-> SplitCost(store, s.lstart, s.lend, i)]
  IN  IF maxblocks > 0 /\ Len(s.points) + 1 >= maxblocks THEN [s EXCEPT !.over = TRUE]
      ELSE Continued(Len(store.commands),
                     Tried(s, FindMinimum(cost, s.lstart + 1, s.lend),
                           EstimateCost(store, s.lstart, s.lend)))

--------------------------------------------------------------------------------
PartEnd == MinOf(from + MASTER, Len(data))
AtPoint(ps, i, first, last) ==
  <<IF i = 1 THEN first ELSE ps[i - 1], IF i = Len(ps) + 1 THEN last ELSE ps[i]>>

Init ==
  /\ data \in Inputs
  /\ maxblocks \in MaxBlocks
  /\ stage = "part" /\ from = 0
  /\ lz77 = EmptyStore /\ split = StartSplit(EmptyStore)
  /\ bytepoints = <<>> /\ points = <<>> /\ totalcost = 0 /\ block = 1
  /\ out = Header

(* ZopfliBlockSplit parses the part greedily.                              *)
StartPart ==
  /\ stage = "part"
  /\ \E commands \in Parses(data, from, PartEnd) : lz77' = Stored(commands)
  /\ split' = StartSplit(lz77')
  /\ stage' = "split"
  /\ UNCHANGED <<data, maxblocks, from, bytepoints, points, totalcost, block, out>>

SplitStep ==
  /\ stage \in {"split", "resplit"} /\ ~split.over
  /\ split' = SplitOnce(lz77, split)
  /\ UNCHANGED <<data, maxblocks, stage, from, lz77, bytepoints, points, totalcost, block, out>>

(* The split points become positions of bytes; the parse is dropped.       *)
ConvertPoints ==
  /\ stage = "split" /\ split.over
  /\ bytepoints' = [i \in DOMAIN split.points |-> lz77.commands[split.points[i] + 1].pos]
  /\ lz77' = EmptyStore /\ points' = <<>> /\ totalcost' = 0
  /\ stage' = "squeeze"
  /\ UNCHANGED <<data, maxblocks, from, split, block, out>>

(* ZopfliLZ77Optimal for the next block.  The points are those of the      *)
(* stores put together.                                                    *)
Squeeze ==
  LET i == Len(points) + 1
      range == AtPoint(bytepoints, i, from, PartEnd)
      last == i > Len(bytepoints)
  IN  /\ stage = "squeeze"
      /\ \E commands \in Parses(data, range[1], range[2]) :
           /\ totalcost' = totalcost + SizeOfBlock(Stored(commands), 0, Len(commands))
           /\ lz77' = ZopfliAppendLZ77Store(Stored(commands), lz77)
           /\ points' = IF last THEN points ELSE Append(points, Len(lz77'.commands))
           /\ stage' = CASE ~last -> "squeeze"
                         [] last /\ Len(points) > 1 -> "resplit"
                         [] OTHER -> "emit"
           /\ split' = IF stage' = "resplit" THEN StartSplit(lz77') ELSE split
      /\ UNCHANGED <<data, maxblocks, from, bytepoints, block, out>>

(* The second attempt counts if its blocks are smaller together.           *)
ChooseSplit ==
  LET ps == split.points
      size == Len(lz77.commands)
      Cost(i) == LET r == AtPoint(ps, i, 0, size) IN SizeOfBlock(lz77, r[1], r[2])
      totalcost2 == SumFunction([i \in 1..(Len(ps) + 1) |-> Cost(i)])
  IN  /\ stage = "resplit" /\ split.over
      /\ points' = IF totalcost2 < totalcost THEN ps ELSE points
      /\ stage' = "emit"
      /\ UNCHANGED <<data, maxblocks, from, lz77, split, bytepoints, totalcost, block, out>>

(* AddLZ77BlockAutoType for the next block; the last of the last part is   *)
(* final.  Its attempt with fixed codes parses the bytes of the block anew. *)
EmitBlock ==
  LET range == AtPoint(points, block, 0, Len(lz77.commands))
      last == block > Len(points)
      end == PartEnd = Len(data)
      first == IF lz77.commands = <<>> THEN 0 ELSE lz77.commands[range[1] + 1].pos
  IN  /\ stage = "emit"
      /\ \E fixed \in Parses(data, first, first + ZopfliLZ77GetByteRange(lz77, range[1], range[2])) :
           out' = AddBlock(out, last /\ end, data, lz77, range[1], range[2], Stored(fixed))
      /\ block' = IF last THEN 1 ELSE block + 1
      /\ from' = IF last THEN PartEnd ELSE from
      /\ stage' = CASE ~last -> "emit" [] last /\ ~end -> "part" [] OTHER -> "trailer"
      /\ UNCHANGED <<data, maxblocks, lz77, split, bytepoints, points, totalcost>>

(* The checksum.                                                           *)
Trailer ==
  /\ stage = "trailer"
  /\ out' = Checksummed(out, data)
  /\ stage' = "end"
  /\ UNCHANGED <<data, maxblocks, from, lz77, split, bytepoints, points, totalcost, block>>

Next == \/ StartPart \/ SplitStep \/ ConvertPoints \/ Squeeze \/ ChooseSplit
        \/ EmitBlock \/ Trailer

Spec == Init /\ [][Next]_vars

--------------------------------------------------------------------------------
(* The histogram of any range of the commands, from the cumulative ones of *)
(* the chunks, is what counting gives, also in a store put together from   *)
(* others.                                                                 *)
HistogramsMatch ==
  \A lend \in 1..Len(lz77.commands) : \A lstart \in 0..(lend - 1) :
    ZopfliLZ77GetHistogram(lz77, lstart, lend) = Counted(lz77, lstart, lend)

(* The assertions of ZopfliBlockSplitLZ77, that the blocks are at most     *)
(* maxblocks, none of them empty, and that splitting comes to an end: the  *)
(* block that is tried next has commands and was not given up before, so   *)
(* that every attempt adds a point or gives one block up.                  *)
SplitPointsSound ==
  LET ps == split.points
      size == Len(lz77.commands)
  IN  stage \in {"split", "resplit"} =>
        /\ \A i \in DOMAIN ps : 1 < ps[i] /\ ps[i] < size
                                /\ (i > 1 => ps[i - 1] < ps[i])
        /\ maxblocks > 0 => Len(ps) < maxblocks
        /\ ~split.over => split.lstart + 1 < split.lend /\ split.lstart \notin split.done
================================================================================
