----------------------------- MODULE MCLogFiles -----------------------------
(* Small instances of LogFiles for TLC. *)
EXTENDS LogFiles, TLC
CONSTANTS p1, p2
Procs == {p1, p2}
Symmetry == Permutations(Procs)
=============================================================================
