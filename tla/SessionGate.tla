------------------------------ MODULE SessionGate ------------------------------
(***************************************************************************)
(* What a session promises its host, without saying how: an open session   *)
(* runs runs; a draining one only lets runs stop running; a closed one     *)
(* runs nothing and stays closed.  The promise rests on the record of the  *)
(* session being read: a step whose lookup of it failed may admit one run  *)
(* to a session that is not open, or reopen it, and nothing else.          *)
(* SessionLifecycle implements it.                                         *)
(***************************************************************************)

EXTENDS Naturals

CONSTANTS Runs, Sessions, SessionOf

VARIABLES
  phase,      \* phase[s]: is session s open, draining or closed
  running,    \* the runs that are running
  unread      \* unread[s]: how many lookups of the record of s have failed

vars == <<phase, running, unread>>

RunningIn(s) == {r \in running : SessionOf[r] = s}

Init ==
  /\ phase = [s \in Sessions |-> "open"]
  /\ running = {}
  /\ unread = [s \in Sessions |-> 0]

Unread(s) == unread' = [unread EXCEPT ![s] = @ + 1]

(* A run starts, or resumes, only in an open session. *)
StartRun(r) ==
  /\ phase[SessionOf[r]] = "open"
  /\ running' = running \cup {r}
  /\ UNCHANGED <<phase, unread>>

(* A run completes, fails, is denied, is cancelled or is suspended. *)
EndRun(r) ==
  /\ running' = running \ {r}
  /\ UNCHANGED <<phase, unread>>

(* Admission stops; what runs may finish. *)
Drain(s) ==
  /\ phase[s] = "open"
  /\ phase' = [phase EXCEPT ![s] = "draining"]
  /\ UNCHANGED <<running, unread>>

(* The session closes once nothing runs in it. *)
Close(s) ==
  /\ RunningIn(s) = {}
  /\ phase' = [phase EXCEPT ![s] = "closed"]
  /\ UNCHANGED <<running, unread>>

(* A failed lookup that lets nothing through. *)
Miss(s) ==
  /\ Unread(s)
  /\ UNCHANGED <<phase, running>>

(* A failed lookup that admits a run, whatever the phase. *)
Trespass(r) ==
  /\ Unread(SessionOf[r])
  /\ running' = running \cup {r}
  /\ UNCHANGED phase

(* A failed lookup on whose account the session is opened or drained anew, *)
(* or, when nothing runs in it, closed anew.                               *)
Reopen(s) ==
  /\ Unread(s)
  /\ \E p \in {"open", "draining", "closed"} :
       /\ p = "closed" => RunningIn(s) = {}
       /\ phase' = [phase EXCEPT ![s] = p]
  /\ UNCHANGED running

Next ==
  \/ \E r \in Runs : StartRun(r) \/ EndRun(r)
  \/ \E r \in Runs : Trespass(r)
  \/ \E s \in Sessions : Drain(s) \/ Close(s) \/ Miss(s) \/ Reopen(s)

Spec == Init /\ [][Next]_vars
================================================================================
