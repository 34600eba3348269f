---------------------------- MODULE MCUplinkPath ----------------------------
(* Model-checking entry point of UplinkPath; the constants are in the cfgs. *)
EXTENDS UplinkPath
=============================================================================
