-------------------------------- MODULE HuffItems --------------------------------
(***************************************************************************)
(* The adaptive Huffman tree of huff.cpp, and what one round of each of    *)
(* its loops does to it.  A tree is                                        *)
(*   items: the used part of ItemBuffer, an item is its index, 0 is NULL;  *)
(*   list: all items, the highest weight first;                            *)
(*   byvalue: ItemsByByte;                                                 *)
(*   valid: MinValidValue.                                                 *)
(* Of two siblings only the lower one, lo, is stored: the higher one is    *)
(* the item before it in the list, and stays there.                        *)
(***************************************************************************)
EXTENDS Integers, FiniteSets, FiniteSetsExt, SequencesExt

CONSTANTS
  Bytes          \* the bytes that there are, numbers up to 255

ASSUME BytesAssumption == Bytes \subseteq 0..255

ENDMARK == 256   \* 0x100
NEWBYTE == 257   \* 0x101: a byte that has no item follows
Values == Bytes \cup {ENDMARK, NEWBYTE}

NoTree == [items |-> <<>>, list |-> <<>>, byvalue |-> [v \in Values |-> 0], valid |-> 1]

Position(t, i) == CHOOSE p \in DOMAIN t.list : t.list[p] = i
Prev(t, i) == LET p == Position(t, i) IN IF p = 1 THEN 0 ELSE t.list[p - 1]

(* The position of the last item up to position p that is at least so      *)
(* heavy, 0 for the head of the list.                                      *)
FindHigherOrEqualItem(t, p, weight) ==
  Max({0} \cup {k \in 1..p : t.items[t.list[k]].weight >= weight})

(* A new item, the last of t.items, behind position p of the list.         *)
CreateNewItem(t, value, weight, p) ==
  [t EXCEPT !.items = Append(@, [value |-> value, weight |-> weight, parent |-> 0, lo |-> 0]),
            !.list = InsertAt(@, p + 1, Len(t.items) + 1)]
InsertLast(t, value, weight) == CreateNewItem(t, value, weight, Len(t.list))

(* FixupItemPosByWeight puts a new item that is not the heaviest behind    *)
(* those that are as heavy.                                                *)
InsertByWeight(t, value, weight) ==
  LET heaviest == t.list = <<>> \/ weight >= t.items[t.list[1]].weight
  IN  CreateNewItem(t, value, weight,
                    IF heaviest THEN 0 ELSE FindHigherOrEqualItem(t, Len(t.list), weight))

--------------------------------------------------------------------------------
(* BuildTree: a byte of the table; the marks at the end; a parent of lo    *)
(* and the item hi before it.                                              *)
InsertByte(t, b, weight) ==
  [InsertByWeight(t, b, weight) EXCEPT !.byvalue[b] = Len(t.items) + 1]

InsertMarks(t) ==
  LET n == Len(t.items)
  IN  [InsertLast(InsertLast(t, ENDMARK, 1), NEWBYTE, 1)
         EXCEPT !.byvalue[ENDMARK] = n + 1, !.byvalue[NEWBYTE] = n + 2]

Pair(t, lo, hi) ==
  LET new == Len(t.items) + 1
  IN  [InsertByWeight(t, 0, t.items[hi].weight + t.items[lo].weight)
         EXCEPT !.items[lo].parent = new, !.items[hi].parent = new, !.items[new].lo = lo]

--------------------------------------------------------------------------------
(* IncWeightsAndRebalance: an item that gets heavier than those before it  *)
(* changes places with the first of them, in the list and in the tree.     *)
Exchanged(t, i, c) ==
  LET pi == t.items[i].parent
      pc == t.items[c].parent
      lower == t.items[pc].lo = c
      moved == [t.items EXCEPT ![pi].lo = IF t.items[pi].lo = i THEN c ELSE t.items[pi].lo]
  IN  [t EXCEPT !.items = [moved EXCEPT ![pc].lo = IF lower THEN i ELSE moved[pc].lo,
                                        ![i].parent = pc, ![c].parent = pi],
                !.list = [t.list EXCEPT ![Position(t, i)] = c, ![Position(t, c)] = i],
                !.valid = t.valid + 1]

KeptInPlace(t, i) == t  \* mutant: a heavier item stays behind the lighter ones
MovedUp(t, i) ==
  LET c == t.list[FindHigherOrEqualItem(t, Position(t, i) - 1, t.items[i].weight) + 1]
  IN  IF c = i THEN t ELSE Exchanged(t, i, c)

IncWeight(t, i) == MovedUp([t EXCEPT !.items[i].weight = @ + 1], i)

(* InsertNewBranchAndRebalance: the last item becomes the parent of its    *)
(* own value and of the new one.                                           *)
InsertBranch(t, value) ==
  LET last == Last(t.list)
      hi == Len(t.items) + 1
      lo == hi + 1
  IN  [InsertLast(InsertLast(t, t.items[last].value, t.items[last].weight), value, 0)
         EXCEPT !.items = [@ EXCEPT ![hi].parent = last, ![lo].parent = last, ![last].lo = lo],
                !.byvalue = [@ EXCEPT ![t.items[last].value] = hi, ![value] = lo]]
================================================================================
