----------------------------- MODULE MCBleLink -----------------------------
(***************************************************************************)
(* BleLink with one kind of report: keyboard and consumer reports share    *)
(* the queues and differ in nothing else but their subscription.           *)
(***************************************************************************)
EXTENDS BleLink

OneReport == {"kb"}
=============================================================================
