---------------------------- MODULE MCCloudToken ----------------------------
EXTENDS CloudToken, TLC

CONSTANTS p1, p2

OneProc == {p1}
Procs == {p1, p2}
Symmetry == Permutations(Procs)

\* One lifetime that leaves a token fresh for an instant, and in the clock's
\* range expiring and then expired.
StsLifetimes == {2}
OidcLifetimes == {2}
=============================================================================
