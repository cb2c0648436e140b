---------------------------- MODULE MCGroupKeys ----------------------------
(* GroupKeys on small instances.  Processes and users are interchangeable,  *)
(* so safety runs quotient by their permutations; liveness runs do not.     *)
EXTENDS GroupKeys, TLC

Symmetry == Permutations(Procs) \cup Permutations(Users)
=============================================================================
