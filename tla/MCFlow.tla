------------------------------- MODULE MCFlow -------------------------------
(***************************************************************************)
(* Flow on a small instance.                                               *)
(***************************************************************************)
EXTENDS Flow
=============================================================================
