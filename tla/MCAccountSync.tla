--------------------------- MODULE MCAccountSync ---------------------------
(* AccountSync for TLC. *)
EXTENDS AccountSync
=============================================================================
