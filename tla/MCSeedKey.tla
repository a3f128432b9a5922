------------------------------ MODULE MCSeedKey ------------------------------
EXTENDS SeedKey, TLC

CONSTANTS p1, p2, p3

Procs == {p1, p2, p3}
Symmetry == Permutations(Procs)
=============================================================================
