----------------------------- MODULE MCEventJournal -----------------------------
(* Small instances of EventJournal. *)
EXTENDS EventJournal, TLC

EmitterSymmetry == Permutations(Emitters)
================================================================================
