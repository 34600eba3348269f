----------------------------- MODULE MCMbufPool -----------------------------
(* Model-checking entry point of MbufPool.  The buffers are alike.         *)
EXTENDS MbufPool, TLC

MCSymmetry == Permutations(Mbufs)
=============================================================================
