-------------------------------- MODULE MC_Deflate --------------------------------
(* Bytes of four bits, lengths up to 13, stored blocks of at most 15 bytes. *)
EXTENDS Zlib

MC_FixedLL == [s \in 0..28 |-> IF s \in 16..18 THEN 4 ELSE 5]
MC_FixedD == [s \in 0..9 |-> IF s < 6 THEN 3 ELSE 4]

Repeated(s, n) == [i \in 1..(n * Len(s)) |-> s[((i - 1) % Len(s)) + 1]]
Mixed(n, m) == [i \in 1..n |-> (i * i * m + i) % 16]

(* Nothing, one byte, a run longer than a master block, runs of few bytes, *)
(* and runs between noise, where the second attempt to split may or may    *)
(* not be the better one.                                                  *)
MC_Inputs ==
  { <<>>, <<7>>, Repeated(<<0>>, 46), Repeated(<<1, 2, 3, 4, 5, 6>>, 2) \o Repeated(<<9>>, 7),
    Repeated(<<4, 4, 5>>, 3) \o Mixed(9, 7),
    Repeated(<<3>>, 7) \o Mixed(13, 5) \o Repeated(<<3>>, 7) \o Mixed(12, 7) }
================================================================================
