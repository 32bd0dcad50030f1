----------------------------- MODULE MC_Repack -----------------------------
(***************************************************************************)
(* Repack with three files.  Two of them, 0 and 1, have the names "a/b"    *)
(* and "a\b", which ConvertSlashes makes equal; all names begin their      *)
(* probe at the last slot, so that every chain wraps around.  Name 2 is in *)
(* no archive.  Files 0 and 2 are encrypted, 0 may be unreadable, and 2 is *)
(* an ordinary file or the listfile in another spelling.                   *)
(***************************************************************************)
EXTENDS Repack

MCNames == 1 .. 3
MCKey == [n \in MCNames |-> n]
MCStart == [n \in MCNames |-> HtSize - 1]
MCNoKey == 0
MCNameOf == [p \in Elems |-> IF p = 2 THEN 3 ELSE 1]
MCNormalSize == [p \in Elems |-> 4 + p]
MCPackedSizes == [p \in Elems |-> IF p = 0 THEN {2, 3} ELSE {p + 1}]
MCEncrypted == {0, 2}
MCCorrupt == {0}
MCListfiles == {None, 2}
=============================================================================
