--------------------------- MODULE MCAirplayWatch ---------------------------
(* AirplayWatch with a debounce of two ticks. *)
EXTENDS AirplayWatch
=============================================================================
