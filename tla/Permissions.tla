------------------------------ MODULE Permissions ------------------------------
(***************************************************************************)
(* The permission center and its projection: CheckPermission in the three  *)
(* modes, the permission records and grants behind it, ResolvePermission,  *)
(* the approvals a model asks for, the gate of a closing session, and the  *)
(* snapshot that is folded from the permission events of a run.            *)
(*                                                                         *)
(* A call reads first and then makes its writes one by one; a write may be *)
(* refused, or the process may crash there, and the rest is lost.  A grant *)
(* is its id, the hash of all of its fields; RootRunID and OwnerID follow  *)
(* the run and the actor, a tool target follows capability and target, and *)
(* no grant the runtime makes expires.  The capability record written      *)
(* before a grant is read by nobody and left out.                          *)
(***************************************************************************)
EXTENDS Sequences, FiniteSets, Naturals

CONSTANTS
  Runs,            \* runs with a record
  SessionOf,       \* the session in the record of each run
  Checks,          \* what callers check: a scope and an action
  Tasks,           \* tasks, None among them
  Overrides,       \* scopes a host adds to a decision
  ModelApprovals,  \* the approvals a model may ask for: a scope and a name
  MaxRequests,     \* bound on permission records
  MaxGrants        \* bound on persisted grants

None == "none"
Any == "*"

Sessions == {SessionOf[r] : r \in Runs}

ScopeFields == {"run", "session", "task", "actor", "mode"}

Scopes == {c.scope : c \in Checks} \cup {m.scope : m \in ModelApprovals}

(* What a model asks approval for: storeModelApprovalContinuation. *)
ModelAction(name) ==
  [id |-> name, kind |-> "model.approval", capability |-> "model.approval",
   projected |-> "model.approval", target |-> name, readOnly |-> FALSE,
   dangerous |-> FALSE]

Actions == {c.action : c \in Checks} \cup {ModelAction(m.name) : m \in ModelApprovals}

(* The id under which WorldState looks for the grants of a tool. *)
WorldStateID == "worldstate"

ActionFields ==
  {"id", "kind", "capability", "projected", "target", "readOnly", "dangerous"}

(* normalizePermissionCheck fills in an id; "*" names no capability and no *)
(* target.                                                                 *)
ASSUME ActionsAssumption ==
  \A a \in Actions :
    /\ DOMAIN a = ActionFields
    /\ a.id \notin {None, WorldStateID}
    /\ Any \notin {a.capability, a.target}

ASSUME PermissionsAssumption ==
  /\ None \notin Runs
  /\ DOMAIN SessionOf = Runs
  /\ \A s \in Scopes \cup Overrides : DOMAIN s = ScopeFields /\ s.task \in Tasks
  /\ \A c \in Checks :
       c.scope.run \in Runs \/ (c.scope.run = None /\ c.action.readOnly)
  /\ \A m \in ModelApprovals : m.scope.run \in Runs /\ m.scope.session # None
  \* a scope names the session of its run, or one without a record
  /\ \A s \in Scopes : s.session \in Sessions => s.session = SessionOf[s.run]
  /\ MaxRequests \in Nat
  /\ MaxGrants \in Nat

VARIABLES
  requests,  \* the permission records, by id
  grants,    \* the persisted grants
  snapshot,  \* snapshot[r]: what the permission events of r fold to
  closed,    \* sessions that are stopping or stopped
  work,      \* the writes that the call in progress has still to make
  decided,   \* history: the decisions behind the persisted grants
  unsettled  \* history: requests whose last call did not make all its writes

vars == <<requests, grants, snapshot, closed, work, decided, unsettled>>

(***************************************************************************)
(* Decisions and grants                                                    *)
(***************************************************************************)
(* The decisions that allow, in the order findPermissionGrant tries them. *)
AllowDecisions ==
  <<"allow_once", "allow_for_run", "allow_for_session", "allow_all_for_run",
    "allow_all_for_session">>

SessionWide == {"allow_for_session", "allow_all_for_session"}
Everything == {"allow_all_for_run", "allow_all_for_session"}
Allows == {"allow_once", "allow_for_run"} \cup SessionWide \cup Everything
Decisions == Allows \cup {"deny"}

(* Variant: every grant but allow_once is good for the whole session. *)
GrantForgettingRun(scope, action, decision) ==
  [decision   |-> decision,
   capability |-> IF decision \in Everything THEN Any ELSE action.capability,
   target     |-> IF decision \in Everything THEN Any ELSE action.target,
   action     |-> IF decision = "allow_once" THEN action.id ELSE None,
   run        |-> IF decision = "allow_once" THEN scope.run ELSE None,
   task       |-> IF decision = "allow_once" THEN scope.task ELSE None,
   session    |-> scope.session,
   actor      |-> scope.actor]

GrantForDecision(scope, action, decision) ==
  [decision   |-> decision,
   capability |-> IF decision \in Everything THEN Any ELSE action.capability,
   target     |-> IF decision \in Everything THEN Any ELSE action.target,
   action     |-> IF decision = "allow_once" THEN action.id ELSE None,
   run        |-> IF decision \in SessionWide THEN None ELSE scope.run,
   task       |-> IF decision \in SessionWide THEN None ELSE scope.task,
   session    |-> scope.session,
   actor      |-> scope.actor]

PermissionID(scope, action) ==
  <<scope.run, scope.session, action.id, action.capability, action.target,
    scope.actor>>

(* What some of the properties ask of those who call: the permission ids   *)
(* of a run name one action each, *)
IDNamesAction ==
  \A c, d \in Checks :
    PermissionID(c.scope, c.action) = PermissionID(d.scope, d.action) =>
      c.action = d.action

(* no tool takes the capability of model approvals, *)
ModelCapabilityReserved ==
  \A c \in Checks : c.action.capability # "model.approval"

(* the models of two runs do not choose the same name for an approval, *)
ApprovalNamesRun ==
  \A m, n \in ModelApprovals : m.name = n.name => m.scope.run = n.scope.run

(* and what WorldState takes for the capability of a target, if any action *)
(* of the target has it, is the one that is checked.                       *)
TargetNamesCapability ==
  \A a, b \in Actions :
    a.target = b.target /\ a.capability = b.projected => a.capability = b.capability

(* The candidates of findPermissionGrant that are in the store, by their   *)
(* place in AllowDecisions.                                                *)
GrantsFound(scope, action) ==
  {i \in DOMAIN AllowDecisions :
     GrantForDecision(scope, action, AllowDecisions[i]) \in grants}

(* What decides a check, in the order of CheckPermission. *)
Ground(scope, action) ==
  IF ~action.readOnly /\ scope.session \in closed THEN "closed"
  ELSE IF GrantsFound(scope, action) # {} THEN "grant"
  ELSE IF scope.mode = "yolo" THEN "yolo"
  ELSE IF action.readOnly THEN "read_only"
  ELSE IF scope.mode = "acceptEdits" /\ action.capability = "workspace.write"
    THEN "accept_edits"
  ELSE IF action.dangerous THEN "dangerous"
  ELSE "ask"

Admits(ground) == ground \in {"grant", "yolo", "read_only", "accept_edits"}

(***************************************************************************)
(* The writes of a call                                                    *)
(***************************************************************************)
Request(scope, action) ==
  [scope |-> scope, action |-> action, granted |-> FALSE, resolved |-> FALSE]

PutRequest(id, record) == [write |-> "request", id |-> id, record |-> record]

(* With the decision that the grant is for, as the one who made it saw it. *)
PutGrant(id, scope, action, decision, seen) ==
  [write |-> "grant", id |-> id,
   grant |-> GrantForDecision(scope, action, decision),
   decision |-> [run |-> scope.run, session |-> scope.session,
                 task |-> scope.task, actor |-> scope.actor,
                 action |-> seen, decision |-> decision]]

Requested(id, run) == [write |-> "requested", id |-> id, run |-> run]

Granted(scope, action, decision) ==
  [write |-> "granted", id |-> PermissionID(scope, action), run |-> scope.run,
   grant |-> GrantForDecision(scope, action, decision)]

Denied(scope, action) ==
  [write |-> "denied", id |-> PermissionID(scope, action), run |-> scope.run]

(* persistPermissionGrant, and then the event. *)
Grant(id, scope, action, decision, seen) ==
  <<PutGrant(id, scope, action, decision, seen), Granted(scope, action, decision)>>

FirstFound(scope, action) ==
  AllowDecisions[CHOOSE i \in GrantsFound(scope, action) :
                   \A j \in GrantsFound(scope, action) : i <= j]

(* Variant: the event is emitted before the grant is persisted. *)
CheckWritesEventFirst(scope, action) ==
  LET id == PermissionID(scope, action)
      ground == Ground(scope, action)
  IN
  CASE ground = "closed" -> <<>>
    [] ground = "grant" -> <<Granted(scope, action, FirstFound(scope, action))>>
    [] ground = "yolo" -> <<Granted(scope, action, "allow_all_for_run"),
                            PutGrant(id, scope, action, "allow_all_for_run", action)>>
    [] ground = "read_only" -> <<Granted(scope, action, "allow_once")>>
    [] ground = "accept_edits" -> <<Granted(scope, action, "allow_for_run"),
                                    PutGrant(id, scope, action, "allow_for_run", action)>>
    [] ground = "dangerous" -> <<Denied(scope, action)>>
    [] ground = "ask" ->
         <<PutRequest(id, Request(scope, action)), Requested(id, scope.run)>>

CheckWrites(scope, action) ==
  LET id == PermissionID(scope, action)
      ground == Ground(scope, action)
  IN
  CASE ground = "closed" -> <<>>
    [] ground = "grant" -> <<Granted(scope, action, FirstFound(scope, action))>>
    [] ground = "yolo" -> Grant(id, scope, action, "allow_all_for_run", action)
    [] ground = "read_only" -> <<Granted(scope, action, "allow_once")>>
    [] ground = "accept_edits" -> Grant(id, scope, action, "allow_for_run", action)
    [] ground = "dangerous" -> <<Denied(scope, action)>>
    [] ground = "ask" ->
         <<PutRequest(id, Request(scope, action)), Requested(id, scope.run)>>

(* A read outside of a run: no journal, and no event. *)
WritesWithoutRun(scope, action) ==
  IF Ground(scope, action) = "yolo"
  THEN <<PutGrant(PermissionID(scope, action), scope, action, "allow_all_for_run", action)>>
  ELSE <<>>

(* mergePermissionScope: the fields that the override names replace those  *)
(* of the record.                                                          *)
MergeScope(base, override) ==
  [f \in ScopeFields |-> IF override[f] = None THEN base[f] ELSE override[f]]

(* ensureSessionCanAcceptRun, which every decision but a denial has to pass *)
Resolvable(scope, decision) ==
  decision = "deny" \/ (scope.session # None /\ scope.session \notin closed)

(* Variant: the capability is derived from the kind of the action again. *)
StoredActionByKind(record) ==
  [record.action EXCEPT !.capability = record.action.kind]

(* permissionCheckFromRecordScope: the action with the capability that its *)
(* tool gave it, which the grant in the record has kept.                   *)
StoredAction(record) == record.action

(* Variant: a denial is only recorded. *)
ResolveWritesQuietly(id, scope, decision) ==
  LET action == StoredAction(requests[id])
      allowed == decision # "deny"
      record == [requests[id] EXCEPT !.granted = allowed, !.resolved = TRUE]
  IN
  IF ~allowed THEN <<PutRequest(id, record)>>
  ELSE <<PutRequest(id, record),
         PutGrant(id, scope, action, decision, requests[id].action),
         Granted(scope, action, decision)>>

ResolveWrites(id, scope, decision) ==
  LET action == StoredAction(requests[id])
      allowed == decision # "deny"
      record == [requests[id] EXCEPT !.granted = allowed, !.resolved = TRUE]
  IN
  IF ~allowed THEN <<PutRequest(id, record), Denied(scope, action)>>
  ELSE <<PutRequest(id, record),
         PutGrant(id, scope, action, decision, requests[id].action),
         Granted(scope, action, decision)>>

(***************************************************************************)
(* Calls                                                                   *)
(***************************************************************************)
Idle == work = <<>>

(* The bounds on records and grants. *)
Room(writes) ==
  \A i \in DOMAIN writes :
    CASE writes[i].write = "request" ->
           Cardinality(DOMAIN requests \cup {writes[i].id}) <= MaxRequests
      [] writes[i].write = "grant" ->
           Cardinality(grants \cup {writes[i].grant}) <= MaxGrants
      [] OTHER -> TRUE

Call(writes) ==
  /\ Idle
  /\ Room(writes)
  /\ work' = writes
  /\ UNCHANGED <<requests, grants, snapshot, closed, decided, unsettled>>

CheckPermission(scope, action) ==
  Call(IF scope.run = None THEN WritesWithoutRun(scope, action)
       ELSE CheckWrites(scope, action))

(* The host repeats what the record says of run, session and actor if it   *)
(* names them in an override.                                              *)
RepeatsScope(stored, override) ==
  \A f \in {"run", "session", "actor"} : override[f] \in {None, stored[f]}

(* The override counts only if it names the run. *)
ResolvePermission(id, decision, override) ==
  LET stored == requests[id].scope
      scope == IF override.run = None THEN stored ELSE MergeScope(stored, override)
  IN
  /\ RepeatsScope(stored, override)
  /\ Resolvable(scope, decision)
  /\ Call(ResolveWrites(id, scope, decision))

(* storeModelApprovalContinuation, and the event of suspendRun. *)
RequestModelApproval(scope, name) ==
  Call(<<PutRequest(<<name>>, Request(scope, ModelAction(name))),
         Requested(<<name>>, scope.run)>>)

(* StopSession, as far as permissions go. *)
CloseSession(s) ==
  /\ Idle
  /\ closed' = closed \cup {s}
  /\ UNCHANGED <<requests, grants, snapshot, work, decided, unsettled>>

(***************************************************************************)
(* Writes                                                                  *)
(***************************************************************************)
NextWrite(kind) ==
  /\ work # <<>>
  /\ Head(work).write = kind
  /\ work' = Tail(work)
  /\ unsettled' = IF Tail(work) = <<>> THEN unsettled \ {Head(work).id} ELSE unsettled
  /\ UNCHANGED closed

(* A record of the same id is replaced. *)
PutPermission ==
  LET w == Head(work) IN
  /\ NextWrite("request")
  /\ requests' = [id \in DOMAIN requests \cup {w.id} |->
                    IF id = w.id THEN w.record ELSE requests[id]]
  /\ UNCHANGED <<grants, snapshot, decided>>

PersistGrant ==
  LET w == Head(work) IN
  /\ NextWrite("grant")
  /\ grants' = grants \cup {w.grant}
  /\ decided' = decided \cup {w.decision}
  /\ UNCHANGED <<requests, snapshot>>

EmitPermissionRequested ==
  LET w == Head(work) IN
  /\ NextWrite("requested")
  /\ snapshot' = [snapshot EXCEPT ![w.run].pending = @ \cup {w.id}]
  /\ UNCHANGED <<requests, grants, decided>>

EmitPermissionGranted ==
  LET w == Head(work) IN
  /\ NextWrite("granted")
  /\ snapshot' = [snapshot EXCEPT ![w.run].pending = @ \ {w.id},
                                  ![w.run].active = @ \cup {w.grant}]
  /\ UNCHANGED <<requests, grants, decided>>

EmitPermissionDenied ==
  LET w == Head(work) IN
  /\ NextWrite("denied")
  /\ snapshot' = [snapshot EXCEPT ![w.run].pending = @ \ {w.id}]
  /\ UNCHANGED <<requests, grants, decided>>

(* The store refuses the write, or the process crashes before it. *)
LoseWrites ==
  /\ work # <<>>
  /\ work' = <<>>
  /\ unsettled' = unsettled \cup ({Head(work).id} \cap DOMAIN requests)
  /\ UNCHANGED <<requests, grants, snapshot, closed, decided>>

Init ==
  /\ requests = <<>>
  /\ grants = {}
  /\ snapshot = [r \in Runs |-> [pending |-> {}, active |-> {}]]
  /\ closed = {}
  /\ work = <<>>
  /\ decided = {}
  /\ unsettled = {}

Next ==
  \/ \E c \in Checks : CheckPermission(c.scope, c.action)
  \/ \E id \in DOMAIN requests, d \in Decisions, o \in Overrides :
       ResolvePermission(id, d, o)
  \/ \E m \in ModelApprovals : RequestModelApproval(m.scope, m.name)
  \/ \E s \in Sessions : CloseSession(s)
  \/ PutPermission
  \/ PersistGrant
  \/ EmitPermissionRequested
  \/ EmitPermissionGranted
  \/ EmitPermissionDenied
  \/ LoseWrites

Spec == Init /\ [][Next]_vars

(***************************************************************************)
(* What the snapshot and WorldState show                                   *)
(***************************************************************************)
Blocked(r) == SessionOf[r] \in closed

ActiveGrants(r) == IF Blocked(r) THEN {} ELSE snapshot[r].active

(* Variant: the options stay as they were requested. *)
AvailableDecisionsOpen(r, scope) ==
  IF scope.session = None THEN Decisions \ SessionWide ELSE Decisions

(* The decisions offered for a pending approval of run r: the options of   *)
(* permissionDecisionOptions, reduced to deny in a closing session.        *)
AvailableDecisions(r, scope) ==
  IF Blocked(r) THEN {"deny"}
  ELSE IF scope.session = None THEN Decisions \ SessionWide
  ELSE Decisions

(* Variant: a closing session is not looked at. *)
CapabilityAuthorizedUngated(scope, action) ==
  \/ action.readOnly
  \/ scope.mode = "yolo"
  \/ GrantsFound(scope, [action EXCEPT !.id = WorldStateID,
                                       !.capability = action.projected]) # {}

(* capabilityAuthorizationForToolSpec: what WorldState says of a tool, when  *)
(* the scope of its events is this one and the store can be read.  Scopes   *)
(* of other events and reads that fail are in the module WorldState.       *)
CapabilityAuthorized(scope, action) ==
  \/ action.readOnly
  \/ /\ ~Blocked(scope.run)
     /\ \/ scope.mode = "yolo"
        \/ GrantsFound(scope, [action EXCEPT !.id = WorldStateID,
                                             !.capability = action.projected]) # {}

(***************************************************************************)
(* Properties                                                              *)
(***************************************************************************)
GrantType(g) ==
  /\ g.decision \in Allows
  /\ g.decision \in SessionWide => g.run = None /\ g.task = None
  /\ g.decision = "allow_once" <=> g.action # None
  /\ g.decision \in Everything <=> g.target = Any

(* Grants carry the fields of their decision and no others, a permission   *)
(* that is granted is resolved, and the projection only knows the runs.    *)
PermissionsTypeOK ==
  /\ DOMAIN snapshot = Runs
  /\ \A g \in grants : GrantType(g) /\ (g.capability = Any <=> g.target = Any)
  /\ \A r \in Runs : \A g \in snapshot[r].active : GrantType(g)
  /\ \A id \in DOMAIN requests :
       /\ requests[id].scope \in Scopes
       /\ requests[id].granted => requests[id].resolved
  /\ closed \subseteq Sessions

SameTarget(a, b) == a.capability = b.capability /\ a.target = b.target

(* What the handbook says a decision is good for. *)
Covers(d, scope, action) ==
  CASE d.decision = "allow_once" ->
         scope.run = d.run /\ action.id = d.action.id
           /\ SameTarget(action, d.action)
    [] d.decision = "allow_for_run" ->
         scope.run = d.run /\ SameTarget(action, d.action)
    [] d.decision = "allow_for_session" ->
         scope.session = d.session /\ SameTarget(action, d.action)
    [] d.decision = "allow_all_for_run" -> scope.run = d.run
    [] d.decision = "allow_all_for_session" -> scope.session = d.session

(* A grant admits an action only if a reviewer's decision, or the mode of  *)
(* a check before, was meant for it and for its actor: findPermissionGrant *)
(* rebuilds the ids of grants from the check and compares nothing else.    *)
AdmittedIsCovered ==
  \A c \in Checks :
    Ground(c.scope, c.action) = "grant" =>
      \E d \in decided :
        Covers(d, c.scope, c.action) /\ d.actor = c.scope.actor

(* A decision that has been persisted is honoured: in the session, task    *)
(* and for the actor of the request no action that it covers is asked      *)
(* about again.  ResolvePermission rebuilds the check from the record, and *)
(* the grant from the check.                                               *)
DecisionHonoured ==
  \A d \in decided : \A c \in Checks :
    /\ Covers(d, c.scope, c.action)
    /\ \A f \in {"session", "task", "actor"} : c.scope[f] = d[f]
    => Ground(c.scope, c.action) \in {"grant", "closed"}

(* For each request of CheckPermission whose calls made all their writes:  *)
(* the snapshot shows it as pending only while its record is open, and an  *)
(* open record is missing from the snapshot only if a grant admits its     *)
(* action by now.                                                          *)
SnapshotFollowsRecords ==
  Idle =>
    \A id \in DOMAIN requests \ (unsettled \cup {<<m.name>> : m \in ModelApprovals}) :
      LET pending == id \in snapshot[requests[id].scope.run].pending IN
      IF requests[id].resolved THEN ~pending
      ELSE pending \/ \E c \in Checks : PermissionID(c.scope, c.action) = id
                                          /\ GrantsFound(c.scope, c.action) # {}

(* Whatever failed before, each decision that the snapshot offers for a    *)
(* pending approval of a session is accepted by ResolvePermission: its     *)
(* record is there, and the gate of the session lets the decision pass.    *)
OfferedDecisionsAccepted ==
  \A r \in Runs : \A id \in snapshot[r].pending :
    /\ id \in DOMAIN requests
    /\ LET scope == requests[id].scope IN
       scope.session # None =>
         \A d \in AvailableDecisions(r, scope) : Resolvable(scope, d)

(* The snapshot lists no grant as active that would admit nothing: what is *)
(* not persisted is the single use of a read-only action.                  *)
ActiveGrantsHold ==
  \A r \in Runs : \A g \in ActiveGrants(r) \ grants :
    \E c \in Checks :
      c.action.readOnly /\ g = GrantForDecision(c.scope, c.action, "allow_once")

(* A tool that WorldState calls authorized in the scope of the check, of a  *)
(* run that is in its own session, is admitted by CheckPermission when it   *)
(* is called.                                                              *)
AuthorizedIsAdmitted ==
  \A c \in Checks :
    /\ c.scope.run # None
    /\ c.scope.session = SessionOf[c.scope.run]
    /\ CapabilityAuthorized(c.scope, c.action)
    => Admits(Ground(c.scope, c.action))
================================================================================
