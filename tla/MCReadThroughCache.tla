------------------------- MODULE MCReadThroughCache -------------------------
EXTENDS ReadThroughCache, TLC

CONSTANTS p1, p2

Procs == {p1, p2}
Symmetry == Permutations(Procs)

\* Lifetimes of a content: one that leaves it valid for a while, and one
\* that stands for a content that does not parse, or is issued expired.
Lifetimes == {0, 3}

\* A token source fails with an error or a denial, the discovery document
\* with an error or a status that is not 200.
Errors == {"error", "denied", "status"}
=============================================================================
