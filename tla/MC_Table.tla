------------------------------ MODULE MC_Table ------------------------------
(***************************************************************************)
(* Table on four slots: one name for every start slot and each of two      *)
(* hash pairs, and in addition a name that shares the hash pair of another *)
(* ("A\B" beside "a\b").                                                    *)
(***************************************************************************)
EXTENDS Table

MCNames == (0 .. 3) \X {"x", "y", "X"}
MCStart == [n \in MCNames |-> n[1]]
MCKey == [n \in MCNames |-> IF n[2] = "X" THEN <<n[1], "x">> ELSE n]
MCNoKey == <<>>
=============================================================================
