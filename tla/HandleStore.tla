------------------------------ MODULE HandleStore ------------------------------
(***************************************************************************)
(* What the registry of context handles promises, without its cache: a     *)
(* handle is shown as it was registered last.  Only a registration whose   *)
(* caller got an error comes undone, to the record that was kept and to no *)
(* other, at a moment nobody chooses.  The HandleRegistry of WorldState    *)
(* implements it.                                                          *)
(***************************************************************************)

CONSTANTS Handles, Unknown

VARIABLES
  kept,    \* the record of each handle that survives the process, or Unknown
  shown,   \* the record that a lookup returns
  refused  \* the handles whose latest registration returned an error

vars == <<kept, shown, refused>>

Init ==
  /\ kept = [h \in Handles |-> Unknown]
  /\ shown = kept
  /\ refused = {}

(* Only h is shown differently, as a record. *)
Show(h) ==
  /\ shown'[h] # Unknown
  /\ shown' = [shown EXCEPT ![h] = shown'[h]]

Register(h) ==
  /\ Show(h)
  /\ kept' = [kept EXCEPT ![h] = shown'[h]]
  /\ refused' = refused \ {h}

(* The record is shown all the same. *)
Refuse(h) ==
  /\ Show(h)
  /\ refused' = refused \cup {h}
  /\ UNCHANGED kept

(* Some of the refused are shown as they are kept. *)
FallBack(H) ==
  /\ shown' = [h \in Handles |-> IF h \in H THEN kept[h] ELSE shown[h]]
  /\ UNCHANGED <<kept, refused>>

Next ==
  \/ \E h \in Handles : Register(h) \/ Refuse(h)
  \/ \E H \in SUBSET refused : FallBack(H)

Spec == Init /\ [][Next]_vars
================================================================================
