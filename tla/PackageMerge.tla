------------------------------ MODULE PackageMerge ------------------------------
(***************************************************************************)
(* The boundary package-merge algorithm of katajainen.c with its pool of   *)
(* nodes and its garbage collection.  Histograms and bit lengths are       *)
(* functions on 0..n-1, as the arrays of the code.  The pool is a sequence *)
(* of nodes, a pointer to a node is its index, 0 is the null pointer.      *)
(***************************************************************************)
EXTENDS Entropy, FiniteSets, SequencesExt

(* The used symbols, lightest first.  qsort may order equal weights either *)
(* way, which exchanges the lengths of symbols that cost the same; the     *)
(* model takes the order of the symbols.                                   *)
BySymbol(freq, j, i) == j < i  \* mutant: the leaves are not sorted
Lighter(freq, j, i) == freq[j] < freq[i] \/ (freq[j] = freq[i] /\ j < i)
Leaves(freq) ==
  LET used == {i \in DOMAIN freq : freq[i] > 0}
      ranks == Tabulated([i \in used |-> Cardinality({j \in used : Lighter(freq, j, i)}) + 1])
      ranked == Tabulated(AntiFunction(ranks))
  IN  Tabulated([k \in 1..Cardinality(used) |->
                   [weight |-> freq[ranked[k]], symbol |-> ranked[k]]])

Node(weight, tail, count) ==
  [weight |-> weight, tail |-> tail, count |-> count, inuse |-> TRUE]

(* The state of the algorithm: the part of the pool that was ever used,    *)
(* its size, the next free position, whether a collection found every node *)
(* in use, when the code would search for ever, the lists, of two          *)
(* lookahead chains each, and the stack of the calls of BoundaryPM that    *)
(* are still to be made, the next one first.                               *)
PoolSize(maxbits) == 2 * maxbits * (maxbits + 1)

InitLists(leaves, maxbits) ==
  [pool |-> [i \in 1..2 |-> Node(leaves[i].weight, 0, i)],
   size |-> PoolSize(maxbits), next |-> 3, full |-> FALSE,
   lists |-> [i \in 1..maxbits |-> [first |-> 1, second |-> 2]],
   calls |-> <<>>]

(* The walk along the tails from node i, for as many nodes as there are    *)
(* lists: it has come to the end by then.                                  *)
Onward(pool, walk) ==
  IF walk.node = 0 THEN walk
  ELSE [node |-> pool[walk.node].tail, met |-> walk.met \cup {walk.node}]
Traversed(s, i) ==
  LET Walk[n \in Nat] ==
        IF n = 0 THEN [node |-> i, met |-> {}] ELSE Onward(s.pool, Walk[n - 1])
  IN  Walk[Len(s.lists)]
Chain(s, i) == Traversed(s, i).met

RootsOfSecond(lists) == {lists[i].second : i \in DOMAIN lists}  \* mutant: the first lookahead chain is not marked
Roots(lists) == UNION {{lists[i].first, lists[i].second} : i \in DOMAIN lists}
Live(s) == UNION {Chain(s, r) : r \in Roots(s.lists)}

(* GetFreeNode leaves the node it found at next - 1.                       *)
Free(pool, from) == {i \in from..Len(pool) : ~pool[i].inuse}
Swept(pool, live) == [i \in DOMAIN pool |-> [pool[i] EXCEPT !.inuse = i \in live]]
FirstOf(free, s) == IF free = {} THEN [s EXCEPT !.full = TRUE] ELSE [s EXCEPT !.next = Min(free) + 1]

Collected(pool, s) == FirstOf(Free(pool, 1), [s EXCEPT !.pool = pool])
GetFreeNode(s) ==
  LET ahead == Free(s.pool, s.next)
      unused == Len(s.pool) + 1
  IN  CASE ahead # {} -> FirstOf(ahead, s)
        [] ahead = {} /\ unused <= s.size ->
             [s EXCEPT !.pool = Append(@, Node(0, 0, 0)), !.next = unused + 1]
        [] OTHER -> Collected(Swept(s.pool, Live(s)), s)

(* The found node gets its contents and ends the lookahead chains of list  *)
(* index.                                                                  *)
Placed(s, index, node) ==
  IF s.full THEN s
  ELSE [s EXCEPT !.pool[s.next - 1] = node,
                 !.lists[index] = [first |-> @.second, second |-> s.next - 1]]

(* The next call of BoundaryPM, for list index (from 1): a leaf if it is   *)
(* lighter than the package of the two chains of the list below, or the    *)
(* package, after which the list below needs two new chains.               *)
Call(index, final) == [index |-> index, final |-> final]
BoundaryPM(s, leaves) ==
  LET index == Head(s.calls).index
      final == Head(s.calls).final
      called == [s EXCEPT !.calls = Tail(@)]
      old == s.pool[s.lists[index].second]
      below == s.lists[index - 1]
      sum == s.pool[below.first].weight + s.pool[below.second].weight
      leaf == Node(leaves[old.count + 1].weight, IF index = 1 THEN 0 ELSE old.tail, old.count + 1)
      package == Node(sum, below.second, old.count)
      again == [called EXCEPT !.calls = <<Call(index - 1, FALSE), Call(index - 1, FALSE)>> \o @]
  IN  CASE index = 1 /\ old.count >= Len(leaves) -> called
        [] index = 1 /\ old.count < Len(leaves) -> Placed(GetFreeNode(called), index, leaf)
        [] index > 1 /\ old.count < Len(leaves) /\ sum > leaves[old.count + 1].weight ->
             Placed(GetFreeNode(called), index, leaf)
        [] OTHER -> Placed(GetFreeNode(IF final THEN called ELSE again), index, package)

(* A symbol is one bit longer for every node of the last chain that counts *)
(* its leaf; <<>> if the pool is full.                                     *)
ExtractBitLengths(s, maxbits, leaves, freq) ==
  LET chain == Chain(s, s.lists[maxbits].second)
      Rank(i) == CHOOSE k \in DOMAIN leaves : leaves[k].symbol = i
      counts == {<<n, s.pool[n].count>> : n \in chain}
      Length(rank) == Cardinality({c \in counts : c[2] >= rank})
  IN  IF s.full THEN <<>>
      ELSE Tabulated([i \in DOMAIN freq |-> IF freq[i] = 0 THEN 0 ELSE Length(Rank(i))])
================================================================================
