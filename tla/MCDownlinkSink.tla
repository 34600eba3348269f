--------------------------- MODULE MCDownlinkSink ---------------------------
(* Model-checking entry point of DownlinkSink; the constants are in the cfgs. *)
EXTENDS DownlinkSink, TLC
=============================================================================
