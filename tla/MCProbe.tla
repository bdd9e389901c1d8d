------------------------------ MODULE MCProbe ------------------------------
EXTENDS Probe, TLC

CONSTANTS v1, v2

Symmetry == Permutations(Versions)
=============================================================================
