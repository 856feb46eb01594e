--------------------------- MODULE MCStrandDevice ---------------------------
(* An instance of StrandDevice for TLC: one socket more than the tasks need. *)
EXTENDS StrandDevice
=============================================================================
