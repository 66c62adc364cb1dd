------------------------------- MODULE MCPool -------------------------------
(***************************************************************************)
(* Small instances of Pool for TLC.  Users, closers and objects are model  *)
(* values that the specification only compares, so that they are           *)
(* interchangeable in the runs that check no liveness.                     *)
(***************************************************************************)
EXTENDS Pool, TLC

Symmetry == Permutations(Users) \cup Permutations(Closers) \cup Permutations(Objects)

=============================================================================
