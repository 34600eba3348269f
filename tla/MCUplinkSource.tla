--------------------------- MODULE MCUplinkSource ---------------------------
(* Model-checking entry point of UplinkSource; the constants are in the cfgs. *)
EXTENDS UplinkSource, TLC
=============================================================================
