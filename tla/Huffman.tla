--------------------------------- MODULE Huffman ---------------------------------
(***************************************************************************)
(* The tree of huff.cpp while data is coded, as a program: every round of  *)
(* the loops of BuildTree and IncWeightsAndRebalance is a step.  Coder and *)
(* decoder do the same to their trees; type 0 counts every byte, the other *)
(* types only those that are new.                                          *)
(***************************************************************************)
EXTENDS HuffItems

CONSTANTS
  Weights,  \* WeightTables
  Lengths   \* lengths of the data

ASSUME HuffmanAssumption ==
  /\ \A type \in DOMAIN Weights : Weights[type] \in [Bytes -> Nat]
  /\ Lengths \subseteq Nat

VARIABLES
  type,   \* CompressionType
  left,   \* bytes that are still to come
  phase,  \* leaves, pairs or coding
  unlisted,   \* bytes of the table that have no item yet
  lo,     \* pChildLo of BuildTree
  tree,
  item,   \* pItem of IncWeightsAndRebalance, 0 outside of it
  todo    \* values it is called for next

huffmanVars == <<type, left, phase, unlisted, lo, tree, item, todo>>

HuffmanInit ==
  /\ type \in DOMAIN Weights /\ left \in Lengths
  /\ phase = "leaves" /\ unlisted = {b \in Bytes : Weights[type][b] # 0}
  /\ lo = 0 /\ tree = NoTree /\ item = 0 /\ todo = <<>>

Leaf ==
  /\ phase = "leaves" /\ unlisted # {}
  /\ LET b == Min(unlisted)
     IN  tree' = InsertByte(tree, b, Weights[type][b]) /\ unlisted' = unlisted \ {b}
  /\ UNCHANGED <<type, left, phase, lo, item, todo>>

Marks ==
  /\ phase = "leaves" /\ unlisted = {}
  /\ tree' = InsertMarks(tree) /\ lo' = Last(tree'.list) /\ phase' = "pairs"
  /\ UNCHANGED <<type, left, unlisted, item, todo>>

PairUp ==
  /\ phase = "pairs"
  /\ LET hi == Prev(tree, lo)
     IN  IF hi # 0
         THEN tree' = Pair(tree, lo, hi) /\ lo' = Prev(tree', hi) /\ UNCHANGED phase
         ELSE phase' = "coding" /\ UNCHANGED <<tree, lo>>
  /\ UNCHANGED <<type, left, unlisted, item, todo>>

Ready == phase = "coding" /\ item = 0 /\ todo = <<>>

NewValue(b) ==
  /\ Ready /\ left > 0 /\ tree.byvalue[b] = 0
  /\ tree' = InsertBranch(tree, b)
  /\ item' = tree'.byvalue[b] /\ todo' = <<b>> /\ left' = left - 1
  /\ UNCHANGED <<type, phase, unlisted, lo>>

KnownValue(b) ==
  /\ Ready /\ left > 0 /\ tree.byvalue[b] # 0
  /\ todo' = IF type = 0 THEN <<b>> ELSE <<>>
  /\ left' = left - 1
  /\ UNCHANGED <<type, phase, unlisted, lo, tree, item>>

CountNext ==
  /\ item = 0 /\ todo # <<>>
  /\ item' = tree.byvalue[Head(todo)] /\ todo' = Tail(todo)
  /\ UNCHANGED <<type, left, phase, unlisted, lo, tree>>

Climb ==
  /\ item # 0
  /\ tree' = IncWeight(tree, item) /\ item' = tree'.items[item].parent
  /\ UNCHANGED <<type, left, phase, unlisted, lo, todo>>

HuffmanNext ==
  Leaf \/ Marks \/ PairUp \/ (\E b \in Bytes : NewValue(b) \/ KnownValue(b)) \/ CountNext \/ Climb

HuffmanSpec == HuffmanInit /\ [][HuffmanNext]_huffmanVars

--------------------------------------------------------------------------------
(* What huff.cpp relies on without a check, whenever the tree is used: the *)
(* first item is the root; the list falls in weight; two siblings are      *)
(* neighbours in it behind their parent, so that the higher one can be     *)
(* found; a parent weighs as much as both; every value is at a leaf; the   *)
(* last item is a leaf, to branch at; the items do not outgrow ItemBuffer, *)
(* which has room for two less one of each value.                          *)
TreeSound ==
  phase = "coding" /\ item = 0 =>
    LET Weight(i) == tree.items[i].weight
    IN  /\ tree.items[tree.list[1]].parent = 0
        /\ \A p \in 2..Len(tree.list) : Weight(tree.list[p]) <= Weight(tree.list[p - 1])
        /\ \A i \in DOMAIN tree.items : tree.items[i].lo # 0 =>
             LET l == tree.items[i].lo
                 hi == Prev(tree, l)
             IN  /\ hi # 0 /\ tree.items[l].parent = i /\ tree.items[hi].parent = i
                 /\ Position(tree, i) < Position(tree, hi)
                 /\ Weight(i) = Weight(l) + Weight(hi)
        /\ \A b \in DOMAIN tree.byvalue : LET i == tree.byvalue[b] IN
             i # 0 => tree.items[i].lo = 0 /\ tree.items[i].value = b
        /\ tree.items[Last(tree.list)].lo = 0
        /\ Len(tree.items) <= 2 * (Cardinality(Bytes) + 2) - 1
================================================================================
