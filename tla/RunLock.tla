-------------------------------- MODULE RunLock --------------------------------
(***************************************************************************)
(* What the lease on a run promises, and all that SessionLifecycle uses of *)
(* it: one activity at a time holds the run, and it keeps the run for as   *)
(* long as one of its calls does.  RunLease implements it.                 *)
(***************************************************************************)

CONSTANTS Calls, Activities, None

VARIABLES
  holder,   \* the activity that holds the run, or None
  keepers   \* the calls that keep it

vars == <<holder, keepers>>

Init == holder = None /\ keepers = {}

(* A call takes a free run, or joins the calls of its own activity. *)
Take(c, a) ==
  /\ holder \in {None, a}
  /\ holder' = a
  /\ keepers' = keepers \cup {c}

(* A call gives the run back, for every call that shared it. *)
GiveBack(c) ==
  /\ c \in keepers
  /\ holder' = None
  /\ keepers' = {}

(* Calls are gone without giving the run back. *)
Lose(C) ==
  /\ keepers' = keepers \ C
  /\ UNCHANGED holder

(* Nobody keeps the run: it becomes free. *)
Lapse ==
  /\ keepers = {}
  /\ holder' = None
  /\ UNCHANGED keepers

Next ==
  \/ \E c \in Calls : GiveBack(c) \/ \E a \in Activities : Take(c, a)
  \/ \E C \in SUBSET Calls : Lose(C)
  \/ Lapse

Spec == Init /\ [][Next]_vars
================================================================================
