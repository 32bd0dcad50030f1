--------------------------------- MODULE MC_Codes ---------------------------------
(* Histograms of 2 to 8 used symbols whose counts grow up to Fibonacci     *)
(* numbers, which a code without a limit would give long codes, from the   *)
(* heaviest to the lightest, between unused symbols.                       *)
EXTENDS Codes

RECURSIVE Falling(_, _)
Falling(n, weights) ==
  IF n = 0 THEN {<<>>}
  ELSE UNION {{<<w>> \o f : f \in Falling(n - 1, {v \in weights : v <= w})} : w \in weights}

MC_Histograms ==
  {[i \in 0..(Len(f) + 1) |-> IF i \in DOMAIN f THEN f[i] ELSE 0] :
     f \in UNION {Falling(n, {1, 2, 3, 5, 8}) : n \in {2, 5, 7, 8}}}
================================================================================
