-------------------------- MODULE MCHistoryWriter --------------------------
(***************************************************************************)
(* HistoryWriter on a small instance.                                      *)
(***************************************************************************)
EXTENDS HistoryWriter
=============================================================================
