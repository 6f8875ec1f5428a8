---------------------------- MODULE MCSoundbar -----------------------------
(***************************************************************************)
(* Soundbar on a small instance.                                           *)
(***************************************************************************)
EXTENDS Soundbar
=============================================================================
