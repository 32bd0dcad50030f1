------------------------------- MODULE Entropy -------------------------------
(***************************************************************************)
(* The entropy of tree.c, from which zopfli estimates the cost of symbols. *)
(* A histogram is a function on 0..n-1, as the arrays of the code.         *)
(***************************************************************************)
EXTENDS Naturals, Sequences, FiniteSetsExt, Functions, TLC

(* f itself: TLC evaluates a function that has been compared only once.    *)
Tabulated(f) == IF f = <<>> THEN <<>> ELSE f

(* The whole part of the binary logarithm.                                 *)
Log2(n) == IF n <= 1 THEN 0 ELSE CHOOSE k \in 1..n : 2 ^ k <= n /\ n < 2 ^ (k + 1)

(* The cost in bits of every symbol, an unused one costs as if used once.  *)
(* The code computes with doubles, the model with whole logarithms.        *)
ZopfliCalculateEntropy(count) ==
  LET sum == SumFunction(count)
      log2sum == Log2(IF sum = 0 THEN Cardinality(DOMAIN count) ELSE sum)
  IN  [i \in DOMAIN count |-> log2sum - Log2(count[i])]
==============================================================================
