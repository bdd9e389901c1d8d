------------------------------ MODULE MCLinkDir ------------------------------
\* Two versions, over a volume in any state the manager may find.
EXTENDS LinkDir, TLC

Symmetry == Permutations(Targets)
=============================================================================
