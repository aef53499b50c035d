----------------------------- MODULE MCPermissions -----------------------------
(* Scopes and actions for the instances of Permissions. *)
EXTENDS Permissions

SessionOfRuns == [r \in Runs |-> IF r = "r3" THEN "s2" ELSE "s1"]

In(run, session, actor, mode) ==
  [run |-> run, session |-> session, task |-> None, actor |-> actor, mode |-> mode]

R1 == In("r1", "s1", "ann", "default")
R1Task == [R1 EXCEPT !.task = "t1"]
R1Ben == In("r1", "s1", "ben", "default")
R1Edits == In("r1", "s1", "ann", "acceptEdits")
R2 == In("r2", "s1", "ann", "default")
R3Yolo == In("r3", "s2", "ann", "yolo")
R3 == In("r3", "s2", "ann", "default")

(* WriteFile without a session takes the run's id for it. *)
R1Alone == In("r1", "r1", "ann", "default")

(* Reads without a run, and CheckPermission without a session. *)
NoRun == In(None, None, "ann", "default")
NoRunYolo == [NoRun EXCEPT !.mode = "yolo"]
R2NoSession == In("r2", None, "ann", "default")

Tool(id, target, capability) ==
  [id |-> id, kind |-> "tool.call", capability |-> capability,
   projected |-> capability, target |-> target, readOnly |-> FALSE,
   dangerous |-> FALSE]

(* Two calls of a tool that writes to the workspace, a tool whose first    *)
(* required grant is of another capability, a read and a dangerous command. *)
Edit1 == Tool("e1", "edit", "workspace.write")
Edit2 == Tool("e2", "edit", "workspace.write")
Deploy == [Tool("d1", "deploy", "tool.call") EXCEPT !.projected = "shell.exec"]
Read == [Tool("q1", "grep", "tool.call") EXCEPT !.readOnly = TRUE]
Wipe == [Tool("w1", "rm", "shell.exec") EXCEPT !.dangerous = TRUE,
                                               !.kind = "shell.exec"]

Check(scope, action) == [scope |-> scope, action |-> action]

SomeChecks ==
  {Check(R1, Edit1), Check(R1Task, Edit2), Check(R1, Wipe), Check(R1, Read),
   Check(R1Ben, Edit1), Check(R1Edits, Edit1), Check(R2, Edit1),
   Check(R3, Deploy), Check(R3Yolo, Deploy), Check(R1Alone, Edit1),
   Check(NoRunYolo, Read), Check(R2NoSession, Edit1)}

NoOverride == [f \in ScopeFields |-> None]
SomeOverrides ==
  {NoOverride, [NoOverride EXCEPT !["run"] = "r1", !["task"] = "t1"]}

SomeApprovals == {[scope |-> R1, name |-> "boundary"]}

(* The instance keeps to what the theorems suppose. *)
ASSUME CallersAssumption ==
  /\ IDNamesAction
  /\ ModelCapabilityReserved
  /\ ApprovalNamesRun
  /\ TargetNamesCapability
================================================================================
