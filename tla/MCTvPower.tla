----------------------------- MODULE MCTvPower -----------------------------
(***************************************************************************)
(* TvPower on a small instance.                                            *)
(***************************************************************************)
EXTENDS TvPower
=============================================================================
