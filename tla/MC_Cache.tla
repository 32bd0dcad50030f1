------------------------------ MODULE MC_Cache ------------------------------
(***************************************************************************)
(* Two runs on one directory, each started twice with any of two options   *)
(* that give the packed data of an entry different sizes.                  *)
(***************************************************************************)
EXTENDS Cache

MCPackedSize == [e \in Entries |-> [o \in Options |-> IF o = "shift 3" THEN 2 ELSE 1]]
MCOptions == {"shift 3", "shift 15"}
=============================================================================
