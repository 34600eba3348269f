----------------------------- MODULE MCStartup -----------------------------
(* Model-checking entry point of Startup; the constants are in the cfgs.   *)
EXTENDS Startup
=============================================================================
