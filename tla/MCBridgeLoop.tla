---------------------------- MODULE MCBridgeLoop ----------------------------
(* Model-checking entry point of BridgeLoop: the schedules.                *)
EXTENDS BridgeLoop

\* Every kind of slot, with a stretch of two slots without UL.
MCMixed == [s \in 0 .. 3 |-> CASE s = 0 -> {"ul", "dl"} [] s = 1 -> {"ul"}
                               [] s = 2 -> {"dl"} [] s = 3 -> {}]
=============================================================================
