--------------------------- MODULE MCProfileImport ---------------------------
(* Small instances of ProfileImport for TLC. *)
EXTENDS ProfileImport, TLC

CONSTANTS r1, r2, p1, p2

\* All files in one directory, or one in each.
OneRoot == [f \in Files |-> r1]
TwoRoots == [f \in Files |-> IF f = 1 THEN r1 ELSE r2]

\* The names of the stores do not matter.
PathSymmetry == Permutations(ProfilePaths)
=============================================================================
