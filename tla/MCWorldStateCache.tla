--------------------------- MODULE MCWorldStateCache ---------------------------
(* Small instances of WorldStateCache. *)
EXTENDS WorldStateCache, TLC

EmitterSymmetry == Permutations(Emitters)
================================================================================
