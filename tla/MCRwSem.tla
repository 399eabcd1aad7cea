------------------------------ MODULE MCRwSem ------------------------------
(* A small instance of RwSem for TLC. *)
EXTENDS RwSem
=============================================================================
