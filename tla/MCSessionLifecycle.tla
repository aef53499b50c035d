--------------------------- MODULE MCSessionLifecycle ---------------------------
(***************************************************************************)
(* Small instances of SessionLifecycle: which session a run belongs to and *)
(* which run an approval belongs to.                                       *)
(***************************************************************************)
EXTENDS SessionLifecycle, TLC

CallerSymmetry == Permutations(Callers)

OneSession == [r \in Runs |-> CHOOSE s \in Sessions : TRUE]

FirstRun == CHOOSE r \in Runs : TRUE
ApprovalsOfFirstRun == [a \in Approvals |-> FirstRun]
================================================================================
