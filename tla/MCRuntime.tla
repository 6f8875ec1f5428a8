----------------------------- MODULE MCRuntime -----------------------------
(***************************************************************************)
(* Two callers, so that one may run a flow while another asks for one.     *)
(* Two saves may wait, so that a later one may overtake.  The keymap lacks *)
(* bindings for listen, so that every branch on a missing mode is taken:   *)
(* a remembered mode that is gone, a request for one, a flow that works    *)
(* and cannot commit its mode.  Watch takes the branches of a present one. *)
(***************************************************************************)
EXTENDS Runtime

CONSTANTS c1, c2

MCCallers == {c1, c2}
MCAvailable == {"power_off", "watch"}
=============================================================================
