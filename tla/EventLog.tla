------------------------------- MODULE EventLog -------------------------------
(***************************************************************************)
(* What the event journal promises of drafts without a sequence of their   *)
(* own: each run has a log, an event is added at its end, and nothing else *)
(* ever happens to it.                                                     *)
(***************************************************************************)
EXTENDS Sequences

CONSTANTS Runs, Kinds

VARIABLE log  \* log[r]: the kinds of run r's events, in sequence order

Init == log = [r \in Runs |-> <<>>]

AddEvent(r, k) == log' = [log EXCEPT ![r] = Append(@, k)]

Next == \E r \in Runs, k \in Kinds : AddEvent(r, k)

Spec == Init /\ [][Next]_log
================================================================================
