------------------------------ MODULE MCRunLease -------------------------------
(* Small instances of RunLease. *)
EXTENDS RunLease, TLC

LeaseSymmetry == Permutations(Calls) \cup Permutations(Activities)
================================================================================
