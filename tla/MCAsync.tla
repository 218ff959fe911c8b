------------------------------- MODULE MCAsync ------------------------------
(* Instances of AsyncClient for TLC: the constants are given in the .cfg. *)
EXTENDS AsyncClient
=============================================================================
