----------------------------- MODULE MC_Sectors -----------------------------
(***************************************************************************)
(* Files of up to three sectors of four bytes, the last one of any length. *)
(***************************************************************************)
EXTENDS Sectors
=============================================================================
