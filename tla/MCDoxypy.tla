------------------------------ MODULE MCDoxypy ------------------------------
\* Every file of a few lines.
EXTENDS Doxypy
=============================================================================
