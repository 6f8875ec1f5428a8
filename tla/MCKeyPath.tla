----------------------------- MODULE MCKeyPath -----------------------------
(***************************************************************************)
(* KeyPath on three instances: a repeating and a held key with the device  *)
(* lost under them, and two that show what a tap and the end leave behind. *)
(***************************************************************************)
EXTENDS KeyPath

AllKeys == {"vol", "mode1", "ok"}
HoldKey == {"mode1"}
BleKey == {"ok"}
=============================================================================
