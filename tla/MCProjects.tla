----------------------------- MODULE MCProjects -----------------------------
(* Instances of Projects for TLC.                                          *)
EXTENDS Projects, TLC

CONSTANTS p1, p2, n1, n2, small

\* Projects of one name compete for one namespace.
SameName == [p \in Projects |-> n1]

\* Request slots are interchangeable, and so are projects of one name.
Symmetry == Permutations(Procs) \cup Permutations(Projects)
=============================================================================
