-------------------------- MODULE MCTokenResponse ---------------------------
EXTENDS TokenResponse

CONSTANTS p1, p2

Procs == {p1, p2}
=============================================================================
