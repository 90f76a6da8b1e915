--------------------------- MODULE MCSecondFactor ---------------------------
(* Small instances of SecondFactor for TLC. *)
EXTENDS SecondFactor, TLC

Symmetry == Permutations(Requests) \cup Permutations(Sessions) \cup Permutations(Enrolments)
=============================================================================
