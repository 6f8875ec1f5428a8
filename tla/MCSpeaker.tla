----------------------------- MODULE MCSpeaker -----------------------------
(***************************************************************************)
(* Speaker on a small instance.                                            *)
(***************************************************************************)
EXTENDS Speaker
=============================================================================
