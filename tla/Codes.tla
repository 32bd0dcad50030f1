---------------------------------- MODULE Codes ----------------------------------
(***************************************************************************)
(* ZopfliLengthLimitedCodeLengths as a program: every call of BoundaryPM   *)
(* is a step, so that the lists, the pool of nodes and what the garbage    *)
(* collection leaves of it can be looked at in between.                    *)
(***************************************************************************)
EXTENDS PackageMerge

CONSTANTS
  Histograms,  \* the frequencies
  Limits       \* values of maxbits: 7 and 15

ASSUME CodesAssumption ==
  /\ \A h \in Histograms : /\ IsFiniteSet(DOMAIN h) /\ DOMAIN h \subseteq Nat
                           /\ h \in [DOMAIN h -> Nat]
  /\ Limits \subseteq Nat \ {0}

VARIABLES freq, maxbits, runs, pm

codesVars == <<freq, maxbits, runs, pm>>

leaves == Leaves(freq)
numBoundaryPMRuns == 2 * Len(leaves) - 4

(* The cases of less than two symbols, or of too many for maxbits bits,    *)
(* return before there are lists.                                          *)
CodesInit ==
  /\ freq \in Histograms /\ maxbits \in Limits
  /\ Len(leaves) \in 2..(2 ^ maxbits)
  /\ runs = 0
  /\ pm = InitLists(leaves, maxbits)

(* One iteration of the loop, up to the call.                              *)
Run ==
  /\ pm.calls = <<>> /\ runs < numBoundaryPMRuns
  /\ pm' = [pm EXCEPT !.calls = <<Call(maxbits, runs = numBoundaryPMRuns - 1)>>]
  /\ runs' = runs + 1
  /\ UNCHANGED <<freq, maxbits>>

(* A call; a full pool would keep it in GetFreeNode.                       *)
StepPM ==
  /\ pm.calls # <<>> /\ ~pm.full
  /\ pm' = BoundaryPM(pm, leaves)
  /\ UNCHANGED <<freq, maxbits, runs>>

CodesNext == Run \/ StepPM

CodesSpec == CodesInit /\ [][CodesNext]_codesVars

--------------------------------------------------------------------------------
(* The best that a code of n symbols can do, by the definition: lengths    *)
(* that satisfy Kraft's inequality, the heavier symbols the shorter ones.  *)
Kraft(lengths, limit) ==
  FoldLeft(LAMBDA sum, l : sum + 2 ^ (limit - l), 0, lengths) <= 2 ^ limit

Descending[n \in Nat] ==
  [most \in Nat |-> IF n = 0 THEN {<<>>}
                    ELSE UNION {{<<l>> \o c : c \in Descending[n - 1][l]} : l \in 1..most}]

UsedCounts == {Cardinality({i \in DOMAIN h : h[i] > 0}) : h \in Histograms}
LimitedCodes ==
  Tabulated([x \in UsedCounts \X Limits |-> {c \in Descending[x[1]][x[2]] : Kraft(c, x[2])}])

LeastCost ==
  LET used == SelectSeq([i \in 1..Cardinality(DOMAIN freq) |-> freq[i - 1]], LAMBDA f : f > 0)
      sorted == SortSeq(used, <)
      n == Len(sorted)
      Cost(c) == FoldLeft(LAMBDA sum, i : sum + sorted[i] * c[i], 0, [i \in 1..n |-> i])
  IN  Min({Cost(c) : c \in LimitedCodes[<<n, maxbits>>]})

(* Every histogram gets a prefix code of at most maxbits bits that leaves  *)
(* no code unused, which mz_uncompress would refuse, and no other code of  *)
(* at most maxbits bits makes the data shorter.                            *)
CodesOptimal ==
  (pm.calls = <<>> /\ runs = numBoundaryPMRuns) =>
    LET lengths == ExtractBitLengths(pm, maxbits, leaves, freq)
        used == {i \in DOMAIN freq : freq[i] > 0}
    IN  /\ \A i \in DOMAIN freq : lengths[i] \in IF i \in used THEN 1..maxbits ELSE {0}
        /\ SumFunction([i \in used |-> 2 ^ (maxbits - lengths[i])]) = 2 ^ maxbits
        /\ SumFunction([i \in used |-> freq[i] * lengths[i]]) = LeastCost

(* The nodes of both chains of a list are never collected nor used again   *)
(* while they are needed: the chains come to an end, all their nodes are   *)
(* marked, they count fewer leaves the lower their list is, and the second *)
(* chain is not the lighter one.  The pool never runs out of nodes, when   *)
(* GetFreeNode would not return.                                           *)
ChainsKept ==
  /\ ~pm.full
  /\ \A i \in DOMAIN pm.lists :
       LET l == pm.lists[i]
           nodes == Chain(pm, l.first) \cup Chain(pm, l.second)
       IN  /\ Traversed(pm, l.first).node = 0 /\ Traversed(pm, l.second).node = 0
           /\ pm.pool[l.first].weight <= pm.pool[l.second].weight
           /\ \A k \in nodes : pm.pool[k].inuse
           /\ \A k \in nodes : pm.pool[k].tail # 0 =>
                pm.pool[pm.pool[k].tail].count <= pm.pool[k].count
================================================================================
