----------------------------------- MODULE Bits -----------------------------------
(***************************************************************************)
(* Numbers in a stream of bits, the lowest bit first, as every coder of    *)
(* this program writes and reads them.  The first bit is at 1.             *)
(***************************************************************************)
EXTENDS Naturals, Sequences

AddBits(value, n) == [i \in 1..n |-> (value \div 2 ^ (i - 1)) % 2]

Has(bits, at, n) == at + n - 1 <= Len(bits)
RECURSIVE GetBits(_, _, _)
GetBits(bits, at, n) == IF n = 0 THEN 0 ELSE bits[at] + 2 * GetBits(bits, at + 1, n - 1)
================================================================================
