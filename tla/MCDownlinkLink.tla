--------------------------- MODULE MCDownlinkLink ---------------------------
(* Model-checking entry point of DownlinkLink; the constants are in the cfgs. *)
EXTENDS DownlinkLink
=============================================================================
