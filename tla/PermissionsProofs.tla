--------------------------- MODULE PermissionsProofs ---------------------------
(***************************************************************************)
(* Grants and decisions belong together: each grant in the store, and each *)
(* grant a call is still to persist, is the one its decision makes of the  *)
(* action the reviewer saw.  From that follow both directions of the       *)
(* permission center, for any scopes, actions and number of records.       *)
(* The second half relates the records, the writes a call has still to     *)
(* make, and the snapshot, for what is shown to a reviewer.                *)
(***************************************************************************)
EXTENDS Permissions, TLAPS

(* The grant that a recorded decision stands for. *)
GrantOf(d) == GrantForDecision(d, d.action, d.decision)

(* What a call may still have to write, as far as grants go. *)
WriteOK(w) ==
  w.write = "grant" => w.decision.decision \in Allows /\ w.grant = GrantOf(w.decision)

(* A call makes at most three writes. *)
WorkInv ==
  \/ work = <<>>
  \/ \E a : work = <<a>> /\ WriteOK(a)
  \/ \E a, b : work = <<a, b>> /\ WriteOK(a) /\ WriteOK(b)
  \/ \E a, b, c : work = <<a, b, c>> /\ WriteOK(a) /\ WriteOK(b) /\ WriteOK(c)

GrantsInv == grants = {GrantOf(d) : d \in decided}

DecidedInv == \A d \in decided : d.decision \in Allows

PInv == WorkInv /\ GrantsInv /\ DecidedInv

(***************************************************************************)
(* The writes of a call                                                    *)
(***************************************************************************)
(* PutGrant writes the grant of its decision: of the scope only run,       *)
(* session, task and actor enter a grant.                                  *)
LEMMA PutGrantOK ==
  ASSUME NEW id, NEW scope, NEW action, NEW decision \in Allows
  PROVE  WriteOK(PutGrant(id, scope, action, decision, action))
BY DEF WriteOK, PutGrant, GrantOf, GrantForDecision

(* The other writes are of no grant. *)
LEMMA OtherWriteOK ==
  /\ \A id, record : WriteOK(PutRequest(id, record))
  /\ \A id, run : WriteOK(Requested(id, run))
  /\ \A scope, action, decision : WriteOK(Granted(scope, action, decision))
  /\ \A scope, action : WriteOK(Denied(scope, action))
BY DEF WriteOK, PutRequest, Requested, Granted, Denied

(* What CheckPermission sets out to write. *)
LEMMA CheckWritesOK ==
  ASSUME NEW scope, NEW action, work' = CheckWrites(scope, action)
  PROVE  WorkInv'
<1> DEFINE id == PermissionID(scope, action)
<1>1. "allow_all_for_run" \in Allows /\ "allow_for_run" \in Allows
  BY DEF Allows, Everything
<1>2. Ground(scope, action) \in {"closed", "grant", "yolo", "read_only",
                                 "accept_edits", "dangerous", "ask"}
  BY DEF Ground
<1>3. CASE Ground(scope, action) = "closed"
  <2>1. work' = <<>>
    BY <1>3 DEF CheckWrites
  <2> QED BY <2>1 DEF WorkInv
<1>4. CASE Ground(scope, action) = "grant"
  <2>1. work' = <<Granted(scope, action, FirstFound(scope, action))>>
    BY <1>4 DEF CheckWrites
  <2> QED BY <2>1, OtherWriteOK DEF WorkInv, WriteOK
<1>5. CASE Ground(scope, action) = "yolo"
  <2>1. work' = <<PutGrant(id, scope, action, "allow_all_for_run", action),
                  Granted(scope, action, "allow_all_for_run")>>
    BY <1>5 DEF CheckWrites, Grant
  <2> QED BY <1>1, <2>1, PutGrantOK, OtherWriteOK DEF WorkInv, WriteOK
<1>6. CASE Ground(scope, action) = "read_only"
  <2>1. work' = <<Granted(scope, action, "allow_once")>>
    BY <1>6 DEF CheckWrites
  <2> QED BY <2>1, OtherWriteOK DEF WorkInv, WriteOK
<1>7. CASE Ground(scope, action) = "accept_edits"
  <2>1. work' = <<PutGrant(id, scope, action, "allow_for_run", action),
                  Granted(scope, action, "allow_for_run")>>
    BY <1>7 DEF CheckWrites, Grant
  <2> QED BY <1>1, <2>1, PutGrantOK, OtherWriteOK DEF WorkInv, WriteOK
<1>8. CASE Ground(scope, action) = "dangerous"
  <2>1. work' = <<Denied(scope, action)>>
    BY <1>8 DEF CheckWrites
  <2> QED BY <2>1, OtherWriteOK DEF WorkInv, WriteOK
<1>9. CASE Ground(scope, action) = "ask"
  <2>1. work' = <<PutRequest(id, Request(scope, action)), Requested(id, scope.run)>>
    BY <1>9 DEF CheckWrites
  <2> QED BY <2>1, OtherWriteOK DEF WorkInv, WriteOK
<1> QED BY <1>2, <1>3, <1>4, <1>5, <1>6, <1>7, <1>8, <1>9

(* What ResolvePermission sets out to write: the grant is made of the      *)
(* action in the record, which is the one the reviewer saw.                *)
LEMMA ResolveWritesOK ==
  ASSUME NEW id, NEW scope, NEW decision \in Decisions,
         work' = ResolveWrites(id, scope, decision)
  PROVE  WorkInv'
<1> DEFINE action == requests[id].action
           record == [requests[id] EXCEPT !.granted = decision # "deny",
                                          !.resolved = TRUE]
<1>1. CASE decision = "deny"
  <2>1. work' = <<PutRequest(id, record), Denied(scope, action)>>
    BY <1>1 DEF ResolveWrites, StoredAction
  <2> QED BY <2>1, OtherWriteOK DEF WorkInv, WriteOK
<1>2. CASE decision # "deny"
  <2>1. decision \in Allows
    BY <1>2 DEF Decisions
  <2>2. work' = <<PutRequest(id, record),
                  PutGrant(id, scope, action, decision, action),
                  Granted(scope, action, decision)>>
    BY <1>2 DEF ResolveWrites, StoredAction, Grant
  <2> QED BY <2>1, <2>2, PutGrantOK, OtherWriteOK DEF WorkInv, WriteOK
<1> QED BY <1>1, <1>2

(* The first write of a call, and what is left after it. *)
LEMMA HeadTailOK ==
  ASSUME WorkInv, work # <<>>, work' = Tail(work)
  PROVE  WriteOK(Head(work)) /\ WorkInv'
<1>1. CASE \E a : work = <<a>> /\ WriteOK(a)
  <2>1. PICK a : work = <<a>> /\ WriteOK(a)
    BY <1>1
  <2>2. Head(work) = a /\ work' = <<>>
    BY <2>1
  <2> QED BY <2>1, <2>2 DEF WorkInv
<1>2. CASE \E a, b : work = <<a, b>> /\ WriteOK(a) /\ WriteOK(b)
  <2>1. PICK a, b : work = <<a, b>> /\ WriteOK(a) /\ WriteOK(b)
    BY <1>2
  <2>2. Head(work) = a /\ work' = <<b>>
    BY <2>1
  <2> QED BY <2>1, <2>2 DEF WorkInv, WriteOK
<1>3. CASE \E a, b, c : work = <<a, b, c>> /\ WriteOK(a) /\ WriteOK(b) /\ WriteOK(c)
  <2>1. PICK a, b, c : work = <<a, b, c>> /\ WriteOK(a) /\ WriteOK(b) /\ WriteOK(c)
    BY <1>3
  <2>2. Head(work) = a /\ work' = <<b, c>>
    BY <2>1
  <2> QED BY <2>1, <2>2 DEF WorkInv, WriteOK
<1> QED BY <1>1, <1>2, <1>3 DEF WorkInv

(***************************************************************************)
(* The invariant                                                           *)
(***************************************************************************)
LEMMA InitPInv == Init => PInv
BY DEF Init, PInv, WorkInv, GrantsInv, DecidedInv

LEMMA CheckPermissionPInv ==
  ASSUME PInv, NEW scope, NEW action, CheckPermission(scope, action)
  PROVE  PInv'
<1>1. UNCHANGED <<grants, decided>>
  BY DEF CheckPermission, Call
<1>2. CASE scope.run # None
  <2>1. work' = CheckWrites(scope, action)
    BY <1>2 DEF CheckPermission, Call
  <2> QED BY <1>1, <2>1, CheckWritesOK DEF PInv, GrantsInv, DecidedInv
<1>3. CASE scope.run = None
  <2>1. \/ work' = <<>>
        \/ work' = <<PutGrant(PermissionID(scope, action), scope, action,
                              "allow_all_for_run", action)>>
    BY <1>3 DEF CheckPermission, Call, WritesWithoutRun
  <2>2. "allow_all_for_run" \in Allows
    BY DEF Allows, Everything
  <2>3. WorkInv'
    BY <2>1, <2>2, PutGrantOK DEF WorkInv, WriteOK
  <2> QED BY <1>1, <2>3 DEF PInv, GrantsInv, DecidedInv
<1> QED BY <1>2, <1>3

LEMMA ResolvePermissionPInv ==
  ASSUME PInv, NEW id, NEW decision \in Decisions, NEW override,
         ResolvePermission(id, decision, override)
  PROVE  PInv'
<1> DEFINE stored == requests[id].scope
           scope == IF override.run = None THEN stored
                    ELSE MergeScope(stored, override)
<1>1. UNCHANGED <<grants, decided>> /\ work' = ResolveWrites(id, scope, decision)
  BY DEF ResolvePermission, Call
<1>2. WorkInv'
  BY <1>1, ResolveWritesOK
<1> QED BY <1>1, <1>2 DEF PInv, GrantsInv, DecidedInv

LEMMA RequestModelApprovalPInv ==
  ASSUME PInv, NEW scope, NEW name, RequestModelApproval(scope, name)
  PROVE  PInv'
<1>1. UNCHANGED <<grants, decided>>
  BY DEF RequestModelApproval, Call
<1>2. PICK action : work' = <<PutRequest(<<name>>, Request(scope, action)),
                              Requested(<<name>>, scope.run)>>
  BY DEF RequestModelApproval, Call
<1>3. WorkInv'
  BY <1>2, OtherWriteOK DEF WorkInv, WriteOK
<1> QED BY <1>1, <1>3 DEF PInv, GrantsInv, DecidedInv

LEMMA PersistGrantPInv ==
  ASSUME PInv, PersistGrant
  PROVE  PInv'
<1> DEFINE w == Head(work)
<1>1. /\ work # <<>> /\ w.write = "grant" /\ work' = Tail(work)
      /\ grants' = grants \cup {w.grant}
      /\ decided' = decided \cup {w.decision}
  BY DEF PersistGrant, NextWrite
<1>2. WriteOK(w) /\ WorkInv'
  BY <1>1, HeadTailOK DEF PInv
<1>3. w.decision.decision \in Allows /\ w.grant = GrantOf(w.decision)
  BY <1>1, <1>2 DEF WriteOK
<1>4. GrantsInv'
  BY <1>1, <1>3 DEF PInv, GrantsInv, GrantOf, GrantForDecision
<1>5. DecidedInv'
  BY <1>1, <1>3 DEF PInv, DecidedInv
<1> QED BY <1>2, <1>4, <1>5 DEF PInv

(* The other writes, and what is lost. *)
LEMMA OtherWritesPInv ==
  ASSUME PInv,
         \/ PutPermission
         \/ EmitPermissionRequested
         \/ EmitPermissionGranted
         \/ EmitPermissionDenied
         \/ LoseWrites
  PROVE  PInv'
<1>1. UNCHANGED <<grants, decided>>
  BY DEF PutPermission, EmitPermissionRequested, EmitPermissionGranted,
         EmitPermissionDenied, LoseWrites
<1>2. work # <<>> /\ (work' = Tail(work) \/ work' = <<>>)
  BY DEF PutPermission, EmitPermissionRequested, EmitPermissionGranted,
         EmitPermissionDenied, LoseWrites, NextWrite
<1>3. WorkInv'
  <2>1. CASE work' = Tail(work)
    BY <1>2, <2>1, HeadTailOK DEF PInv
  <2>2. CASE work' = <<>>
    BY <2>2 DEF WorkInv
  <2> QED BY <1>2, <2>1, <2>2
<1> QED BY <1>1, <1>3 DEF PInv, GrantsInv, DecidedInv

LEMMA NextPInv == PInv /\ [Next]_vars => PInv'
<1> SUFFICES ASSUME PInv, [Next]_vars PROVE PInv'
  OBVIOUS
<1>1. CASE \E c \in Checks : CheckPermission(c.scope, c.action)
  BY <1>1, CheckPermissionPInv
<1>2. CASE \E id \in DOMAIN requests, d \in Decisions, o \in Overrides :
             ResolvePermission(id, d, o)
  BY <1>2, ResolvePermissionPInv
<1>3. CASE \E m \in ModelApprovals : RequestModelApproval(m.scope, m.name)
  BY <1>3, RequestModelApprovalPInv
<1>4. CASE \E s \in Sessions : CloseSession(s)
  BY <1>4 DEF CloseSession, PInv, WorkInv, WriteOK, GrantsInv, DecidedInv
<1>5. CASE PersistGrant
  BY <1>5, PersistGrantPInv
<1>6. CASE \/ PutPermission
           \/ EmitPermissionRequested
           \/ EmitPermissionGranted
           \/ EmitPermissionDenied
           \/ LoseWrites
  BY <1>6, OtherWritesPInv
<1>7. CASE UNCHANGED vars
  BY <1>7 DEF vars, PInv, WorkInv, WriteOK, GrantsInv, DecidedInv
<1> QED BY <1>1, <1>2, <1>3, <1>4, <1>5, <1>6, <1>7 DEF Next

(* The grants in the store are those of the decisions that were recorded,  *)
(* through refused writes and crashes.                                     *)
THEOREM PermissionsInductive == Spec => []PInv
BY InitPInv, NextPInv, PTL DEF Spec

(***************************************************************************)
(* Both directions                                                         *)
(***************************************************************************)
(* The places in AllowDecisions are those of the allowing decisions. *)
LEMMA AllowDecisionsRange ==
  /\ DOMAIN AllowDecisions = 1 .. 5
  /\ \A i \in DOMAIN AllowDecisions : AllowDecisions[i] \in Allows
  /\ \A d \in Allows : \E i \in DOMAIN AllowDecisions : AllowDecisions[i] = d
BY DEF AllowDecisions, Allows, SessionWide, Everything

(* A check that finds a grant is covered by its decision. *)
LEMMA PInvCovers == PInv => AdmittedIsCovered
<1> SUFFICES ASSUME PInv, NEW c \in Checks, Ground(c.scope, c.action) = "grant"
             PROVE  \E d \in decided :
                      Covers(d, c.scope, c.action) /\ d.actor = c.scope.actor
  BY DEF AdmittedIsCovered
<1>1. PICK i \in DOMAIN AllowDecisions :
        GrantForDecision(c.scope, c.action, AllowDecisions[i]) \in grants
  BY DEF Ground, GrantsFound
<1>2. PICK d \in decided :
        GrantOf(d) = GrantForDecision(c.scope, c.action, AllowDecisions[i])
  BY <1>1 DEF PInv, GrantsInv
<1>3. /\ d.decision = AllowDecisions[i]
      /\ d.actor = c.scope.actor
      /\ d.session = c.scope.session
      /\ d.decision \notin SessionWide => d.run = c.scope.run
      /\ d.decision = "allow_once" => d.action.id = c.action.id
      /\ d.decision \notin Everything => SameTarget(c.action, d.action)
  BY <1>2 DEF GrantOf, GrantForDecision, SameTarget
<1>4. d.decision \in Allows
  BY DEF PInv, DecidedInv
<1>5. Covers(d, c.scope, c.action)
  BY <1>3, <1>4 DEF Covers, Allows, SessionWide, Everything
<1> QED BY <1>3, <1>5

(* A check that a decision covers finds the grant of the decision. *)
LEMMA PInvHonours == PInv => DecisionHonoured
<1> SUFFICES ASSUME PInv, NEW d \in decided, NEW c \in Checks,
                    Covers(d, c.scope, c.action),
                    \A f \in {"session", "task", "actor"} : c.scope[f] = d[f]
             PROVE  Ground(c.scope, c.action) \in {"grant", "closed"}
  BY DEF DecisionHonoured
<1>1. d.decision \in Allows
  BY DEF PInv, DecidedInv
<1>2. c.scope.session = d.session /\ c.scope.task = d.task /\ c.scope.actor = d.actor
  OBVIOUS
<1>3. GrantForDecision(c.scope, c.action, d.decision) = GrantOf(d)
  BY <1>1, <1>2 DEF Covers, SameTarget, GrantOf, GrantForDecision, Allows,
                    SessionWide, Everything
<1>4. GrantOf(d) \in grants
  BY DEF PInv, GrantsInv
<1>5. GrantsFound(c.scope, c.action) # {}
  BY <1>1, <1>3, <1>4, AllowDecisionsRange DEF GrantsFound
<1> QED BY <1>5 DEF Ground

(* No check is admitted by a grant that nobody decided on for its action   *)
(* and its actor: findPermissionGrant.                                     *)
THEOREM AdmittedCovered == Spec => []AdmittedIsCovered
BY PermissionsInductive, PInvCovers, PTL

(* What has been decided is not asked again: ResolvePermission and the     *)
(* ids of grants.                                                          *)
THEOREM DecisionsHonoured == Spec => []DecisionHonoured
BY PermissionsInductive, PInvHonours, PTL

(***************************************************************************)
(* Records, events and the snapshot                                        *)
(***************************************************************************)
(* A call writes its record, then its grant and then its event, and each   *)
(* write may be the last: which events are still to come depends on what   *)
(* is already in the store.                                                *)
ModelIDs == {<<m.name>> : m \in ModelApprovals}
CheckIDs == {PermissionID(c.scope, c.action) : c \in Checks}

RecordType ==
  [scope : Scopes, action : Actions, granted : BOOLEAN, resolved : BOOLEAN]

(* The record of a check that was asked about, or of a model's approval. *)
OfCheck(id, record) ==
  \E c \in Checks :
    /\ id = PermissionID(c.scope, c.action)
    /\ record.scope = c.scope /\ record.action = c.action
    /\ c.scope.run \in Runs
    /\ ~c.action.readOnly /\ ~c.action.dangerous

OfModel(id, record) ==
  \E m \in ModelApprovals :
    id = <<m.name>> /\ record.scope = m.scope /\ record.action = ModelAction(m.name)

RecordOK(id, record) ==
  /\ record \in RecordType
  /\ record.granted => record.resolved
  /\ OfCheck(id, record) \/ OfModel(id, record)

GrantWrite(w) ==
  /\ w.write = "grant"
  /\ w.decision.action \in Actions /\ w.decision.decision \in Allows
  /\ w.grant = GrantOf(w.decision)

(* The grant of a read, which nobody persists. *)
SingleUse(g) ==
  \E c \in Checks :
    c.action.readOnly /\ g = GrantForDecision(c.scope, c.action, "allow_once")

(* What is left of a call: the event, or a grant without one; *)
LastWrite(e) ==
  \/ /\ e.write = "requested" /\ e.id \in DOMAIN requests
     /\ ~requests[e.id].resolved /\ e.run = requests[e.id].scope.run
  \/ e.write = "granted" /\ e.run \in Runs /\ (e.grant \in grants \/ SingleUse(e.grant))
  \/ e.write = "denied" /\ e.run \in Runs
  \/ GrantWrite(e)

(* a record or a grant, and its event; *)
TwoWrites(a, e) ==
  \/ /\ a.write = "request" /\ RecordOK(a.id, a.record)
     /\ \/ /\ e.write = "requested" /\ e.id = a.id
           /\ ~a.record.resolved /\ e.run = a.record.scope.run
        \/ e.write = "denied" /\ e.run \in Runs
  \/ GrantWrite(a) /\ e.write = "granted" /\ e.grant = a.grant /\ e.run \in Runs

(* or a record, its grant and the event of the grant. *)
ThreeWrites(a, b, e) ==
  /\ a.write = "request" /\ RecordOK(a.id, a.record)
  /\ GrantWrite(b)
  /\ e.write = "granted" /\ e.grant = b.grant /\ e.run \in Runs

WritesInv ==
  \/ work = <<>>
  \/ \E e : work = <<e>> /\ LastWrite(e)
  \/ \E a, e : work = <<a, e>> /\ TwoWrites(a, e)
  \/ \E a, b, e : work = <<a, b, e>> /\ ThreeWrites(a, b, e)

RecordsInv == \A id \in DOMAIN requests : RecordOK(id, requests[id])

SnapshotShape ==
  snapshot = [r \in Runs |-> [pending |-> snapshot[r].pending,
                              active |-> snapshot[r].active]]

(* An active grant is in the store, or was for one read. *)
ActiveInv ==
  \A r \in Runs : \A g \in snapshot[r].active : g \in grants \/ SingleUse(g)

DecidedActions == \A d \in decided : d.action \in Actions

RInv ==
  /\ RecordsInv
  /\ WritesInv
  /\ SnapshotShape
  /\ ActiveInv
  /\ DecidedActions
  /\ closed \subseteq Sessions

(* The first grant that is found is one that is in the store. *)
LEMMA FirstFoundHeld ==
  ASSUME NEW scope, NEW action, GrantsFound(scope, action) # {}
  PROVE  GrantForDecision(scope, action, FirstFound(scope, action)) \in grants
<1> DEFINE S == GrantsFound(scope, action)
<1>1. S \subseteq 1 .. 5 /\ S # {}
  BY AllowDecisionsRange DEF GrantsFound
<1>2. \E i \in S : \A j \in S : i <= j
  <2> HIDE DEF S
  <2>1. 1 .. 5 = {1, 2, 3, 4, 5}
    OBVIOUS
  <2>2. CASE 1 \in S
    BY <1>1, <2>1, <2>2
  <2>3. CASE 1 \notin S /\ 2 \in S
    BY <1>1, <2>1, <2>3
  <2>4. CASE 1 \notin S /\ 2 \notin S /\ 3 \in S
    BY <1>1, <2>1, <2>4
  <2>5. CASE 1 \notin S /\ 2 \notin S /\ 3 \notin S /\ 4 \in S
    BY <1>1, <2>1, <2>5
  <2>6. CASE 1 \notin S /\ 2 \notin S /\ 3 \notin S /\ 4 \notin S
    <3>1. \A j \in S : j = 5
      BY <1>1, <2>1, <2>6
    <3>2. PICK i \in S : TRUE
      BY <1>1
    <3>3. \A j \in S : i <= j
      BY <3>1, <3>2
    <3> QED BY <3>2, <3>3
  <2> QED BY <2>2, <2>3, <2>4, <2>5, <2>6
<1>3. (CHOOSE i \in S : \A j \in S : i <= j) \in S
  BY <1>2
<1> QED BY <1>3 DEF FirstFound, GrantsFound

(* The writes that a call sets out to make. *)
LEMMA WritesMade ==
  ASSUME UNCHANGED <<requests, grants>>,
         \/ work' = <<>>
         \/ \E e : work' = <<e>> /\ LastWrite(e)
         \/ \E a, e : work' = <<a, e>> /\ TwoWrites(a, e)
         \/ \E a, b, e : work' = <<a, b, e>> /\ ThreeWrites(a, b, e)
  PROVE  WritesInv'
BY DEF WritesInv, LastWrite

LEMMA GrantWriteMade ==
  ASSUME NEW id, NEW scope, NEW action \in Actions, NEW decision \in Allows
  PROVE  GrantWrite(PutGrant(id, scope, action, decision, action))
BY DEF GrantWrite, PutGrant, GrantOf, GrantForDecision

LEMMA CheckWritesShape ==
  ASSUME NEW c \in Checks, c.scope.run # None, UNCHANGED <<requests, grants>>,
         work' = CheckWrites(c.scope, c.action)
  PROVE  WritesInv'
<1> DEFINE id == PermissionID(c.scope, c.action)
           ground == Ground(c.scope, c.action)
<1>0. /\ c.scope.run \in Runs /\ c.action \in Actions /\ c.scope \in Scopes
      /\ "allow_all_for_run" \in Allows /\ "allow_for_run" \in Allows
  BY PermissionsAssumption DEF Actions, Scopes, Allows, Everything
<1>1. ground \in {"closed", "grant", "yolo", "read_only", "accept_edits",
                  "dangerous", "ask"}
  BY DEF Ground
<1>2. CASE ground = "closed"
  <2>1. work' = <<>>
    BY <1>2 DEF CheckWrites
  <2> QED BY <2>1, WritesMade
<1>3. CASE ground = "grant"
  <2> DEFINE e == Granted(c.scope, c.action, FirstFound(c.scope, c.action))
  <2>1. work' = <<e>>
    BY <1>3 DEF CheckWrites
  <2>2. GrantsFound(c.scope, c.action) # {}
    BY <1>3 DEF Ground
  <2>3. e.write = "granted" /\ e.run \in Runs /\ e.grant \in grants
    BY <1>0, <2>2, FirstFoundHeld DEF Granted
  <2>4. LastWrite(e)
    BY <2>3 DEF LastWrite
  <2> QED BY <2>1, <2>4, WritesMade
<1>4. CASE ground = "yolo"
  <2> DEFINE a == PutGrant(id, c.scope, c.action, "allow_all_for_run", c.action)
             e == Granted(c.scope, c.action, "allow_all_for_run")
  <2>1. work' = <<a, e>>
    BY <1>4 DEF CheckWrites, Grant
  <2>2. GrantWrite(a)
    BY <1>0, GrantWriteMade
  <2>3. e.write = "granted" /\ e.grant = a.grant /\ e.run \in Runs
    BY <1>0 DEF Granted, PutGrant
  <2>4. TwoWrites(a, e)
    BY <2>2, <2>3 DEF TwoWrites
  <2> QED BY <2>1, <2>4, WritesMade
<1>5. CASE ground = "read_only"
  <2> DEFINE e == Granted(c.scope, c.action, "allow_once")
  <2>1. work' = <<e>>
    BY <1>5 DEF CheckWrites
  <2>2. c.action.readOnly
    BY <1>5 DEF Ground
  <2>3. e.write = "granted" /\ e.run \in Runs /\ SingleUse(e.grant)
    BY <1>0, <2>2 DEF Granted, SingleUse
  <2>4. LastWrite(e)
    BY <2>3 DEF LastWrite
  <2> QED BY <2>1, <2>4, WritesMade
<1>6. CASE ground = "accept_edits"
  <2> DEFINE a == PutGrant(id, c.scope, c.action, "allow_for_run", c.action)
             e == Granted(c.scope, c.action, "allow_for_run")
  <2>1. work' = <<a, e>>
    BY <1>6 DEF CheckWrites, Grant
  <2>2. GrantWrite(a)
    BY <1>0, GrantWriteMade
  <2>3. e.write = "granted" /\ e.grant = a.grant /\ e.run \in Runs
    BY <1>0 DEF Granted, PutGrant
  <2>4. TwoWrites(a, e)
    BY <2>2, <2>3 DEF TwoWrites
  <2> QED BY <2>1, <2>4, WritesMade
<1>7. CASE ground = "dangerous"
  <2> DEFINE e == Denied(c.scope, c.action)
  <2>1. work' = <<e>>
    BY <1>7 DEF CheckWrites
  <2>2. LastWrite(e)
    BY <1>0 DEF LastWrite, Denied
  <2> QED BY <2>1, <2>2, WritesMade
<1>8. CASE ground = "ask"
  <2> DEFINE a == PutRequest(id, Request(c.scope, c.action))
             e == Requested(id, c.scope.run)
  <2>1. work' = <<a, e>>
    BY <1>8 DEF CheckWrites
  <2>2. ~c.action.readOnly /\ ~c.action.dangerous
    BY <1>8 DEF Ground
  <2>3. RecordOK(a.id, a.record)
    BY <1>0, <2>2 DEF RecordOK, RecordType, OfCheck, PutRequest, Request
  <2>4. /\ a.write = "request" /\ e.write = "requested" /\ e.id = a.id
        /\ ~a.record.resolved /\ e.run = a.record.scope.run
    BY DEF PutRequest, Request, Requested
  <2>5. TwoWrites(a, e)
    BY <2>3, <2>4 DEF TwoWrites
  <2> QED BY <2>1, <2>5, WritesMade
<1> QED BY <1>1, <1>2, <1>3, <1>4, <1>5, <1>6, <1>7, <1>8

(* What an override may say of run, session and actor is what the record   *)
(* says, so that the decision is about the permission of the record.       *)
LEMMA ScopeRepeated ==
  ASSUME NEW stored \in Scopes, NEW override \in Overrides,
         RepeatsScope(stored, override),
         NEW scope, scope = IF override.run = None THEN stored
                            ELSE MergeScope(stored, override)
  PROVE  /\ scope.run = stored.run /\ scope.session = stored.session
         /\ scope.actor = stored.actor
<1>1. CASE override.run = None
  BY <1>1
<1>2. CASE override.run # None
  <2>1. /\ override["run"] \in {None, stored["run"]}
        /\ override["session"] \in {None, stored["session"]}
        /\ override["actor"] \in {None, stored["actor"]}
    BY DEF RepeatsScope
  <2>2. /\ scope["run"] = IF override["run"] = None THEN stored["run"] ELSE override["run"]
        /\ scope["session"] = IF override["session"] = None THEN stored["session"]
                              ELSE override["session"]
        /\ scope["actor"] = IF override["actor"] = None THEN stored["actor"]
                            ELSE override["actor"]
    BY <1>2 DEF MergeScope, ScopeFields
  <2> QED BY <2>1, <2>2
<1> QED BY <1>1, <1>2

(* A decision changes nothing in the record but what became of it. *)
LEMMA RecordDecided ==
  ASSUME NEW id \in DOMAIN requests, RecordsInv, NEW allowed \in BOOLEAN,
         NEW record, record = [requests[id] EXCEPT !.granted = allowed, !.resolved = TRUE]
  PROVE  /\ RecordOK(id, record) /\ record.resolved
         /\ record.scope = requests[id].scope /\ record.action = requests[id].action
<1>1. RecordOK(id, requests[id])
  BY DEF RecordsInv
<1>2. requests[id] \in [scope : Scopes, action : Actions, granted : BOOLEAN,
                        resolved : BOOLEAN]
  BY <1>1 DEF RecordOK, RecordType
<1>3. /\ record \in [scope : Scopes, action : Actions, granted : BOOLEAN,
                     resolved : BOOLEAN]
      /\ record.scope = requests[id].scope /\ record.action = requests[id].action
      /\ record.resolved = TRUE
  BY <1>2
<1> QED BY <1>1, <1>3 DEF RecordOK, RecordType, OfCheck, OfModel

(* The run of a record is one of the runs. *)
LEMMA RecordRun ==
  ASSUME NEW id, NEW record, RecordOK(id, record)
  PROVE  record.scope.run \in Runs /\ record.action \in Actions /\ record.scope \in Scopes
BY PermissionsAssumption DEF RecordOK, OfCheck, OfModel, RecordType

LEMMA ResolveShape ==
  ASSUME RInv, NEW id \in DOMAIN requests, NEW decision \in Decisions,
         NEW override \in Overrides, ResolvePermission(id, decision, override)
  PROVE  WritesInv'
<1> DEFINE stored == requests[id].scope
           scope == IF override.run = None THEN stored ELSE MergeScope(stored, override)
           action == requests[id].action
           record == [requests[id] EXCEPT !.granted = decision # "deny", !.resolved = TRUE]
           a == PutRequest(id, record)
<1>1. /\ RepeatsScope(stored, override) /\ work' = ResolveWrites(id, scope, decision)
      /\ UNCHANGED <<requests, grants>>
  BY DEF ResolvePermission, Call
<1>2. stored \in Scopes /\ stored.run \in Runs /\ action \in Actions
  BY RecordRun DEF RInv, RecordsInv
<1>3. scope.run \in Runs
  BY <1>1, <1>2, ScopeRepeated
<1>4. a.write = "request" /\ RecordOK(a.id, a.record)
  <2>1. RecordOK(id, record)
    BY RecordDecided DEF RInv
  <2> HIDE DEF record
  <2> QED BY <2>1 DEF PutRequest
<1>5. CASE decision = "deny"
  <2> DEFINE e == Denied(scope, action)
  <2>1. work' = <<a, e>>
    BY <1>1, <1>5 DEF ResolveWrites, StoredAction
  <2>2. e.write = "denied" /\ e.run \in Runs
    BY <1>3 DEF Denied
  <2> HIDE DEF a, e
  <2>3. TwoWrites(a, e)
    BY <1>4, <2>2 DEF TwoWrites
  <2> QED BY <1>1, <2>1, <2>3, WritesMade
<1>6. CASE decision # "deny"
  <2> DEFINE b == PutGrant(id, scope, action, decision, action)
             e == Granted(scope, action, decision)
  <2>1. work' = <<a, b, e>>
    BY <1>1, <1>6 DEF ResolveWrites, StoredAction
  <2>2. GrantWrite(b)
    BY <1>2, <1>6, GrantWriteMade DEF Decisions
  <2>3. e.write = "granted" /\ e.grant = b.grant /\ e.run \in Runs
    BY <1>3 DEF Granted, PutGrant
  <2> HIDE DEF a, b, e
  <2>4. ThreeWrites(a, b, e)
    BY <1>4, <2>2, <2>3 DEF ThreeWrites
  <2> QED BY <1>1, <2>1, <2>4, WritesMade
<1> QED BY <1>5, <1>6

LEMMA ModelApprovalShape ==
  ASSUME NEW m \in ModelApprovals, RequestModelApproval(m.scope, m.name)
  PROVE  WritesInv'
<1> DEFINE a == PutRequest(<<m.name>>, Request(m.scope, ModelAction(m.name)))
           e == Requested(<<m.name>>, m.scope.run)
<1>1. work' = <<a, e>> /\ UNCHANGED <<requests, grants>>
  BY DEF RequestModelApproval, Call
<1>2. m.scope \in Scopes /\ ModelAction(m.name) \in Actions
  BY DEF Scopes, Actions
<1>3. RecordOK(a.id, a.record)
  BY <1>2 DEF RecordOK, RecordType, OfModel, PutRequest, Request
<1>4. /\ a.write = "request" /\ e.write = "requested" /\ e.id = a.id
      /\ ~a.record.resolved /\ e.run = a.record.scope.run
  BY DEF PutRequest, Request, Requested
<1> HIDE DEF a, e
<1>5. TwoWrites(a, e)
  BY <1>3, <1>4 DEF TwoWrites
<1> QED BY <1>1, <1>5, WritesMade

LEMMA NoRunShape ==
  ASSUME NEW c \in Checks, UNCHANGED <<requests, grants>>,
         work' = WritesWithoutRun(c.scope, c.action)
  PROVE  WritesInv'
<1> DEFINE a == PutGrant(PermissionID(c.scope, c.action), c.scope, c.action,
                         "allow_all_for_run", c.action)
<1>1. work' = <<>> \/ work' = <<a>>
  BY DEF WritesWithoutRun
<1>2. c.action \in Actions /\ "allow_all_for_run" \in Allows
  BY DEF Actions, Allows, Everything
<1>3. GrantWrite(a)
  BY <1>2, GrantWriteMade
<1> HIDE DEF a
<1>4. LastWrite(a)
  BY <1>3 DEF LastWrite
<1> QED BY <1>1, <1>4, WritesMade

(***************************************************************************)
(* The writes                                                              *)
(***************************************************************************)
(* What is left after the first write of a call. *)
LEMMA WritesLeft ==
  ASSUME WritesInv, work # <<>>, work' = Tail(work)
  PROVE  \/ work' = <<>> /\ LastWrite(Head(work))
         \/ \E e : work' = <<e>> /\ TwoWrites(Head(work), e)
         \/ \E b, e : work' = <<b, e>> /\ ThreeWrites(Head(work), b, e)
<1>1. CASE \E e : work = <<e>> /\ LastWrite(e)
  <2>1. PICK e : work = <<e>> /\ LastWrite(e)
    BY <1>1
  <2>2. Head(work) = e /\ work' = <<>>
    BY <2>1
  <2> QED BY <2>1, <2>2
<1>2. CASE \E a, e : work = <<a, e>> /\ TwoWrites(a, e)
  <2>1. PICK a, e : work = <<a, e>> /\ TwoWrites(a, e)
    BY <1>2
  <2>2. Head(work) = a /\ work' = <<e>>
    BY <2>1
  <2> QED BY <2>1, <2>2
<1>3. CASE \E a, b, e : work = <<a, b, e>> /\ ThreeWrites(a, b, e)
  <2>1. PICK a, b, e : work = <<a, b, e>> /\ ThreeWrites(a, b, e)
    BY <1>3
  <2>2. Head(work) = a /\ work' = <<b, e>>
    BY <2>1
  <2> QED BY <2>1, <2>2
<1> QED BY <1>1, <1>2, <1>3 DEF WritesInv

LEMMA PutPermissionRInv ==
  ASSUME RInv, PutPermission
  PROVE  RInv'
<1> DEFINE w == Head(work)
<1>1. /\ work # <<>> /\ w.write = "request" /\ work' = Tail(work)
      /\ UNCHANGED <<grants, snapshot, decided, closed>>
      /\ requests' = [id \in DOMAIN requests \cup {w.id} |->
                        IF id = w.id THEN w.record ELSE requests[id]]
  BY DEF PutPermission, NextWrite
<1> HIDE DEF w
<1>2. \/ work' = <<>> /\ LastWrite(w)
      \/ \E e : work' = <<e>> /\ TwoWrites(w, e)
      \/ \E b, e : work' = <<b, e>> /\ ThreeWrites(w, b, e)
  BY <1>1, WritesLeft DEF RInv, w
<1>3. RecordOK(w.id, w.record)
  BY <1>1, <1>2 DEF LastWrite, GrantWrite, TwoWrites, ThreeWrites
<1>4. RecordsInv'
  <2> SUFFICES ASSUME NEW id \in DOMAIN requests' PROVE RecordOK(id, requests'[id])
    BY DEF RecordsInv, RecordOK, OfCheck, OfModel
  <2>1. CASE id = w.id
    BY <1>1, <1>3, <2>1
  <2>2. CASE id # w.id
    BY <1>1, <2>2 DEF RInv, RecordsInv
  <2> QED BY <2>1, <2>2
<1>5. WritesInv'
  <2>1. CASE work' = <<>>
    BY <2>1 DEF WritesInv
  <2>2. CASE \E e : work' = <<e>> /\ TwoWrites(w, e)
    <3>1. PICK e : work' = <<e>> /\ TwoWrites(w, e)
      BY <2>2
    <3>2. CASE /\ e.write = "requested" /\ e.id = w.id
               /\ ~w.record.resolved /\ e.run = w.record.scope.run
      <4>1. e.id \in DOMAIN requests' /\ requests'[e.id] = w.record
        BY <1>1, <3>2
      <4>2. LastWrite(e)'
        BY <3>2, <4>1 DEF LastWrite
      <4> QED BY <3>1, <4>2 DEF WritesInv
    <3>3. CASE e.write = "denied" /\ e.run \in Runs
      BY <3>1, <3>3 DEF WritesInv, LastWrite
    <3> QED BY <1>1, <3>1, <3>2, <3>3 DEF TwoWrites, GrantWrite
  <2>3. CASE \E b, e : work' = <<b, e>> /\ ThreeWrites(w, b, e)
    BY <2>3 DEF ThreeWrites, TwoWrites, WritesInv
  <2> QED BY <1>2, <2>1, <2>2, <2>3
<1> QED BY <1>1, <1>4, <1>5 DEF RInv, SnapshotShape, ActiveInv, DecidedActions

LEMMA PersistGrantRInv ==
  ASSUME RInv, PersistGrant
  PROVE  RInv'
<1> DEFINE w == Head(work)
<1>1. /\ work # <<>> /\ w.write = "grant" /\ work' = Tail(work)
      /\ UNCHANGED <<requests, snapshot, closed>>
      /\ grants' = grants \cup {w.grant} /\ decided' = decided \cup {w.decision}
  BY DEF PersistGrant, NextWrite
<1> HIDE DEF w
<1>2. \/ work' = <<>> /\ LastWrite(w)
      \/ \E e : work' = <<e>> /\ TwoWrites(w, e)
      \/ \E b, e : work' = <<b, e>> /\ ThreeWrites(w, b, e)
  BY <1>1, WritesLeft DEF RInv, w
<1>3. GrantWrite(w)
  BY <1>1, <1>2 DEF LastWrite, TwoWrites, ThreeWrites
<1>4. WritesInv'
  <2>1. CASE work' = <<>>
    BY <2>1 DEF WritesInv
  <2>2. CASE \E e : work' = <<e>> /\ TwoWrites(w, e)
    <3>1. PICK e : work' = <<e>> /\ TwoWrites(w, e)
      BY <2>2
    <3>2. e.write = "granted" /\ e.grant \in grants' /\ e.run \in Runs
      BY <1>1, <3>1 DEF TwoWrites
    <3> QED BY <3>1, <3>2 DEF WritesInv, LastWrite
  <2> QED BY <1>1, <1>2, <2>1, <2>2 DEF ThreeWrites
<1>5. RecordsInv' /\ SnapshotShape' /\ ActiveInv' /\ (closed \subseteq Sessions)'
  BY <1>1 DEF RInv, RecordsInv, SnapshotShape, ActiveInv
<1>6. DecidedActions'
  BY <1>1, <1>3 DEF RInv, DecidedActions, GrantWrite
<1> QED BY <1>4, <1>5, <1>6 DEF RInv

(* An event changes the fold of its own run. *)
LEMMA SnapshotStep ==
  ASSUME SnapshotShape, NEW r \in Runs, NEW P, NEW A,
         snapshot' = [snapshot EXCEPT ![r] = [pending |-> P, active |-> A]]
  PROVE  /\ SnapshotShape'
         /\ snapshot'[r].pending = P /\ snapshot'[r].active = A
         /\ \A q \in Runs \ {r} : snapshot'[q] = snapshot[q]
<1>1. DOMAIN snapshot = Runs
  BY DEF SnapshotShape
<1>2. snapshot' = [q \in Runs |-> IF q = r THEN [pending |-> P, active |-> A]
                                  ELSE snapshot[q]]
  BY <1>1
<1>3. /\ snapshot'[r] = [pending |-> P, active |-> A]
      /\ \A q \in Runs \ {r} : snapshot'[q] = snapshot[q]
  BY <1>2
<1>4. \A q \in Runs : snapshot'[q] = [pending |-> snapshot'[q].pending,
                                      active |-> snapshot'[q].active]
  BY <1>3 DEF SnapshotShape
<1>5. SnapshotShape'
  BY <1>2, <1>4 DEF SnapshotShape
<1> QED BY <1>3, <1>5

(* What the three events do to the snapshot. *)
LEMMA RequestedStep ==
  ASSUME RInv, EmitPermissionRequested
  PROVE  LET w == Head(work) IN
         /\ w.write = "requested" /\ work' = <<>> /\ LastWrite(w)
         /\ w.run \in Runs /\ SnapshotShape'
         /\ snapshot'[w.run].pending = snapshot[w.run].pending \cup {w.id}
         /\ snapshot'[w.run].active = snapshot[w.run].active
         /\ \A q \in Runs \ {w.run} : snapshot'[q] = snapshot[q]
         /\ UNCHANGED <<requests, grants, decided, closed>>
<1> DEFINE w == Head(work)
<1>1. /\ work # <<>> /\ w.write = "requested" /\ work' = Tail(work)
      /\ UNCHANGED <<requests, grants, decided, closed>>
      /\ snapshot' = [snapshot EXCEPT ![w.run].pending = @ \cup {w.id}]
  BY DEF EmitPermissionRequested, NextWrite
<1> HIDE DEF w
<1>2. work' = <<>> /\ LastWrite(w)
  BY <1>1, WritesLeft DEF RInv, w, TwoWrites, ThreeWrites, GrantWrite
<1>3. w.run \in Runs
  BY <1>1, <1>2, RecordRun DEF LastWrite, GrantWrite, RInv, RecordsInv
<1>4. snapshot[w.run] = [pending |-> snapshot[w.run].pending,
                         active |-> snapshot[w.run].active]
  BY <1>3 DEF RInv, SnapshotShape
<1>5. [snapshot[w.run] EXCEPT !.pending = @ \cup {w.id}]
        = [pending |-> snapshot[w.run].pending \cup {w.id},
           active |-> snapshot[w.run].active]
  BY <1>4
<1>6. snapshot' = [snapshot EXCEPT ![w.run] =
                     [pending |-> snapshot[w.run].pending \cup {w.id},
                      active |-> snapshot[w.run].active]]
  BY <1>1, <1>5
<1>7. /\ SnapshotShape'
      /\ snapshot'[w.run].pending = snapshot[w.run].pending \cup {w.id}
      /\ snapshot'[w.run].active = snapshot[w.run].active
      /\ \A q \in Runs \ {w.run} : snapshot'[q] = snapshot[q]
  BY <1>3, <1>6, SnapshotStep DEF RInv
<1> QED BY <1>1, <1>2, <1>3, <1>7 DEF w

LEMMA GrantedStep ==
  ASSUME RInv, EmitPermissionGranted
  PROVE  LET w == Head(work) IN
         /\ w.write = "granted" /\ work' = <<>> /\ LastWrite(w)
         /\ w.run \in Runs /\ SnapshotShape'
         /\ snapshot'[w.run].pending = snapshot[w.run].pending \ {w.id}
         /\ snapshot'[w.run].active = snapshot[w.run].active \cup {w.grant}
         /\ \A q \in Runs \ {w.run} : snapshot'[q] = snapshot[q]
         /\ UNCHANGED <<requests, grants, decided, closed>>
<1> DEFINE w == Head(work)
<1>1. /\ work # <<>> /\ w.write = "granted" /\ work' = Tail(work)
      /\ UNCHANGED <<requests, grants, decided, closed>>
      /\ snapshot' = [snapshot EXCEPT ![w.run].pending = @ \ {w.id},
                                      ![w.run].active = @ \cup {w.grant}]
  BY DEF EmitPermissionGranted, NextWrite
<1> HIDE DEF w
<1>2. work' = <<>> /\ LastWrite(w)
  BY <1>1, WritesLeft DEF RInv, w, TwoWrites, ThreeWrites, GrantWrite
<1>3. w.run \in Runs
  BY <1>1, <1>2 DEF LastWrite, GrantWrite
<1>4. DOMAIN snapshot = Runs
  BY DEF RInv, SnapshotShape
<1>5. snapshot[w.run] = [pending |-> snapshot[w.run].pending,
                         active |-> snapshot[w.run].active]
  BY <1>3 DEF RInv, SnapshotShape
<1> DEFINE P == snapshot[w.run].pending \ {w.id}
           A == snapshot[w.run].active \cup {w.grant}
           f == [snapshot EXCEPT ![w.run].pending = @ \ {w.id}]
<1>6. /\ DOMAIN f = Runs /\ f[w.run] = [pending |-> P, active |-> snapshot[w.run].active]
      /\ \A q \in Runs \ {w.run} : f[q] = snapshot[q]
  <2>1. [snapshot[w.run] EXCEPT !.pending = @ \ {w.id}]
          = [pending |-> P, active |-> snapshot[w.run].active]
    BY <1>5
  <2>2. f = [q \in Runs |-> IF q = w.run THEN [snapshot[w.run] EXCEPT !.pending = @ \ {w.id}]
                            ELSE snapshot[q]]
    BY <1>4
  <2> HIDE DEF f, P
  <2> QED BY <1>3, <2>1, <2>2
<1>7. snapshot' = [snapshot EXCEPT ![w.run] = [pending |-> P, active |-> A]]
  <2>1. snapshot' = [f EXCEPT ![w.run].active = @ \cup {w.grant}]
    BY <1>1
  <2> HIDE DEF f, P
  <2>2. [f[w.run] EXCEPT !.active = @ \cup {w.grant}] = [pending |-> P, active |-> A]
    BY <1>6
  <2> HIDE DEF A
  <2>3. snapshot' = [f EXCEPT ![w.run] = [pending |-> P, active |-> A]]
    BY <2>1, <2>2
  <2> QED BY <1>3, <1>4, <1>6, <2>3
<1>8. /\ SnapshotShape'
      /\ snapshot'[w.run].pending = P /\ snapshot'[w.run].active = A
      /\ \A q \in Runs \ {w.run} : snapshot'[q] = snapshot[q]
  <2> HIDE DEF P, A
  <2> QED BY <1>3, <1>7, SnapshotStep DEF RInv
<1> QED BY <1>1, <1>2, <1>3, <1>8 DEF w

LEMMA DeniedStep ==
  ASSUME RInv, EmitPermissionDenied
  PROVE  LET w == Head(work) IN
         /\ w.write = "denied" /\ work' = <<>> /\ LastWrite(w)
         /\ w.run \in Runs /\ SnapshotShape'
         /\ snapshot'[w.run].pending = snapshot[w.run].pending \ {w.id}
         /\ snapshot'[w.run].active = snapshot[w.run].active
         /\ \A q \in Runs \ {w.run} : snapshot'[q] = snapshot[q]
         /\ UNCHANGED <<requests, grants, decided, closed>>
<1> DEFINE w == Head(work)
<1>1. /\ work # <<>> /\ w.write = "denied" /\ work' = Tail(work)
      /\ UNCHANGED <<requests, grants, decided, closed>>
      /\ snapshot' = [snapshot EXCEPT ![w.run].pending = @ \ {w.id}]
  BY DEF EmitPermissionDenied, NextWrite
<1> HIDE DEF w
<1>2. work' = <<>> /\ LastWrite(w)
  BY <1>1, WritesLeft DEF RInv, w, TwoWrites, ThreeWrites, GrantWrite
<1>3. w.run \in Runs
  BY <1>1, <1>2 DEF LastWrite, GrantWrite
<1>4. snapshot[w.run] = [pending |-> snapshot[w.run].pending,
                         active |-> snapshot[w.run].active]
  BY <1>3 DEF RInv, SnapshotShape
<1>5. [snapshot[w.run] EXCEPT !.pending = @ \ {w.id}]
        = [pending |-> snapshot[w.run].pending \ {w.id},
           active |-> snapshot[w.run].active]
  BY <1>4
<1>6. snapshot' = [snapshot EXCEPT ![w.run] =
                     [pending |-> snapshot[w.run].pending \ {w.id},
                      active |-> snapshot[w.run].active]]
  BY <1>1, <1>5
<1>7. /\ SnapshotShape'
      /\ snapshot'[w.run].pending = snapshot[w.run].pending \ {w.id}
      /\ snapshot'[w.run].active = snapshot[w.run].active
      /\ \A q \in Runs \ {w.run} : snapshot'[q] = snapshot[q]
  BY <1>3, <1>6, SnapshotStep DEF RInv
<1> QED BY <1>1, <1>2, <1>3, <1>7 DEF w

LEMMA EventsRInv ==
  ASSUME RInv,
         EmitPermissionRequested \/ EmitPermissionGranted \/ EmitPermissionDenied
  PROVE  RInv'
<1> DEFINE w == Head(work)
<1>1. /\ work' = <<>> /\ LastWrite(w) /\ w.run \in Runs /\ SnapshotShape'
      /\ w.write \in {"requested", "denied", "granted"}
      /\ \/ snapshot'[w.run].active = snapshot[w.run].active
         \/ /\ w.write = "granted"
            /\ snapshot'[w.run].active = snapshot[w.run].active \cup {w.grant}
      /\ \A q \in Runs \ {w.run} : snapshot'[q] = snapshot[q]
      /\ UNCHANGED <<requests, grants, decided, closed>>
  BY RequestedStep, GrantedStep, DeniedStep
<1> HIDE DEF w
<1>2. ActiveInv'
  BY <1>1 DEF RInv, ActiveInv, LastWrite, GrantWrite
<1>3. WritesInv' /\ RecordsInv' /\ DecidedActions' /\ (closed \subseteq Sessions)'
  BY <1>1 DEF RInv, WritesInv, RecordsInv, DecidedActions
<1> QED BY <1>1, <1>2, <1>3 DEF RInv

LEMMA NextRInv == RInv /\ [Next]_vars => RInv'
<1> SUFFICES ASSUME RInv, [Next]_vars PROVE RInv'
  OBVIOUS
<1> DEFINE Calling == /\ UNCHANGED <<requests, grants, snapshot, closed, decided>>
                      /\ WritesInv'
<1>0. ASSUME Calling PROVE RInv'
  BY <1>0 DEF RInv, RecordsInv, SnapshotShape, ActiveInv, DecidedActions
<1>1. CASE \E c \in Checks : CheckPermission(c.scope, c.action)
  <2>1. PICK c \in Checks : CheckPermission(c.scope, c.action)
    BY <1>1
  <2>2. UNCHANGED <<requests, grants, snapshot, closed, decided>>
    BY <2>1 DEF CheckPermission, Call
  <2>3. WritesInv'
    BY <2>1, CheckWritesShape, NoRunShape DEF CheckPermission, Call
  <2> QED BY <1>0, <2>2, <2>3
<1>2. CASE \E id \in DOMAIN requests, d \in Decisions, o \in Overrides :
             ResolvePermission(id, d, o)
  <2>1. UNCHANGED <<requests, grants, snapshot, closed, decided>>
    BY <1>2 DEF ResolvePermission, Call
  <2> QED BY <1>0, <1>2, <2>1, ResolveShape
<1>3. CASE \E m \in ModelApprovals : RequestModelApproval(m.scope, m.name)
  <2>1. UNCHANGED <<requests, grants, snapshot, closed, decided>>
    BY <1>3 DEF RequestModelApproval, Call
  <2> QED BY <1>0, <1>3, <2>1, ModelApprovalShape
<1>4. CASE \E s \in Sessions : CloseSession(s)
  BY <1>4 DEF CloseSession, RInv, RecordsInv, WritesInv, LastWrite, SnapshotShape,
              ActiveInv, DecidedActions
<1>5. CASE PutPermission
  BY <1>5, PutPermissionRInv
<1>6. CASE PersistGrant
  BY <1>6, PersistGrantRInv
<1>7. CASE EmitPermissionRequested \/ EmitPermissionGranted \/ EmitPermissionDenied
  BY <1>7, EventsRInv
<1>8. CASE LoseWrites
  BY <1>0, <1>8 DEF LoseWrites, WritesInv
<1>9. CASE UNCHANGED vars
  BY <1>0, <1>9 DEF vars, RInv, WritesInv, LastWrite
<1> QED BY <1>1, <1>2, <1>3, <1>4, <1>5, <1>6, <1>7, <1>8, <1>9 DEF Next

LEMMA InitRInv == Init => RInv
BY DEF Init, RInv, RecordsInv, WritesInv, SnapshotShape, ActiveInv, DecidedActions

LEMMA RecordsInductive == Spec => []RInv
BY InitRInv, NextRInv, PTL DEF Spec

(***************************************************************************)
(* Types, active grants and offered decisions                              *)
(***************************************************************************)
LEMMA GrantTyped ==
  ASSUME NEW scope, NEW action \in Actions, NEW decision \in Allows, NEW g,
         g = GrantForDecision(scope, action, decision)
  PROVE  GrantType(g) /\ (g.capability = Any <=> g.target = Any)
BY ActionsAssumption DEF GrantForDecision, GrantType, Allows, SessionWide, Everything

LEMMA InvariantsTyped == PInv /\ RInv => PermissionsTypeOK
<1> SUFFICES ASSUME PInv, RInv PROVE PermissionsTypeOK
  OBVIOUS
<1>1. \A g \in grants : GrantType(g) /\ (g.capability = Any <=> g.target = Any)
  BY GrantTyped DEF PInv, GrantsInv, DecidedInv, RInv, DecidedActions, GrantOf
<1>2. \A g : SingleUse(g) => GrantType(g)
  BY GrantTyped DEF SingleUse, Actions, Allows
<1>3. \A r \in Runs : \A g \in snapshot[r].active : GrantType(g)
  BY <1>1, <1>2 DEF RInv, ActiveInv
<1>4. \A id \in DOMAIN requests :
        requests[id].scope \in Scopes /\ (requests[id].granted => requests[id].resolved)
  BY DEF RInv, RecordsInv, RecordOK, RecordType
<1>5. DOMAIN snapshot = Runs /\ closed \subseteq Sessions
  BY DEF RInv, SnapshotShape
<1> QED BY <1>1, <1>3, <1>4, <1>5 DEF PermissionsTypeOK

(* Grants carry the fields of their decision: permissionGrantForDecision,  *)
(* for whatever scopes and actions.                                        *)
THEOREM PermissionsTypeCorrect == Spec => []PermissionsTypeOK
BY PermissionsInductive, RecordsInductive, InvariantsTyped, PTL

(* No grant is shown as active before it is persisted, but for a read:     *)
(* emitPermissionGranted comes after persistPermissionGrant.               *)
THEOREM ActiveGrantsPersisted == Spec => []ActiveGrantsHold
<1>1. RInv => ActiveGrantsHold
  BY DEF RInv, ActiveInv, ActiveGrantsHold, ActiveGrants, SingleUse
<1> QED BY <1>1, RecordsInductive, PTL

(* A permission that the snapshot shows as pending has its record, which   *)
(* is of that run.                                                         *)
PendingInv ==
  \A r \in Runs : \A id \in snapshot[r].pending :
    id \in DOMAIN requests /\ requests[id].scope.run = r

(* An id of a check is none of a model approval. *)
LEMMA IDsDisjoint ==
  ASSUME NEW scope, NEW action, NEW name
  PROVE  PermissionID(scope, action) # <<name>>
<1>1. Len(PermissionID(scope, action)) = 6
  BY DEF PermissionID
<1>2. Len(<<name>>) = 1
  OBVIOUS
<1> QED BY <1>1, <1>2

(* A permission id has run and session, and what is asked for, in it. *)
LEMMA IDFields ==
  ASSUME NEW s, NEW a, NEW t, NEW b, PermissionID(s, a) = PermissionID(t, b)
  PROVE  /\ s.run = t.run /\ s.session = t.session /\ s.actor = t.actor
         /\ a.id = b.id /\ a.capability = b.capability /\ a.target = b.target
BY DEF PermissionID

(* A record is only replaced by one of the same run. *)
LEMMA RecordsOfRun ==
  ASSUME ApprovalNamesRun, NEW id, NEW old, NEW new, RecordOK(id, old), RecordOK(id, new)
  PROVE  old.scope.run = new.scope.run
<1>1. CASE OfCheck(id, old)
  <2>1. OfCheck(id, new)
    BY <1>1, IDsDisjoint DEF RecordOK, OfCheck, OfModel
  <2>2. PICK c \in Checks : id = PermissionID(c.scope, c.action) /\ old.scope = c.scope
    BY <1>1 DEF OfCheck
  <2>3. PICK d \in Checks : id = PermissionID(d.scope, d.action) /\ new.scope = d.scope
    BY <2>1 DEF OfCheck
  <2>4. c.scope.run = d.scope.run
    <3>1. PermissionID(c.scope, c.action) = PermissionID(d.scope, d.action)
      BY <2>2, <2>3
    <3> QED BY ONLY <3>1, IDFields
  <2> QED BY <2>2, <2>3, <2>4
<1>2. CASE OfModel(id, old)
  <2>1. OfModel(id, new)
    BY <1>2, IDsDisjoint DEF RecordOK, OfCheck, OfModel
  <2>2. PICK m \in ModelApprovals : id = <<m.name>> /\ old.scope = m.scope
    BY <1>2 DEF OfModel
  <2>3. PICK n \in ModelApprovals : id = <<n.name>> /\ new.scope = n.scope
    BY <2>1 DEF OfModel
  <2>4. m.name = n.name
    BY <2>2, <2>3
  <2> QED BY <2>2, <2>3, <2>4 DEF ApprovalNamesRun
<1> QED BY <1>1, <1>2 DEF RecordOK

LEMMA NextPendingInv ==
  ASSUME ApprovalNamesRun
  PROVE  RInv /\ PendingInv /\ [Next]_vars => PendingInv'
<1> SUFFICES ASSUME RInv, PendingInv, [Next]_vars PROVE PendingInv'
  OBVIOUS
<1> DEFINE w == Head(work)
<1>1. CASE UNCHANGED <<requests, snapshot>>
  BY <1>1 DEF PendingInv
<1>2. CASE PutPermission
  <2>1. /\ work # <<>> /\ w.write = "request" /\ work' = Tail(work)
        /\ snapshot' = snapshot
        /\ requests' = [id \in DOMAIN requests \cup {w.id} |->
                          IF id = w.id THEN w.record ELSE requests[id]]
    BY <1>2 DEF PutPermission, NextWrite
  <2> HIDE DEF w
  <2>2. RecordOK(w.id, w.record)
    BY <2>1, WritesLeft DEF RInv, w, LastWrite, GrantWrite, TwoWrites, ThreeWrites
  <2>3. \A id \in DOMAIN requests : requests'[id].scope.run = requests[id].scope.run
    <3> TAKE id \in DOMAIN requests
    <3>1. CASE id = w.id
      <4>1. RecordOK(id, requests[id]) /\ requests'[id] = w.record
        BY <2>1, <3>1 DEF RInv, RecordsInv
      <4> QED BY <2>2, <3>1, <4>1, RecordsOfRun
    <3>2. CASE id # w.id
      BY <2>1, <3>2
    <3> QED BY <3>1, <3>2
  <2> QED BY <2>1, <2>3 DEF PendingInv
<1>3. CASE EmitPermissionRequested
  <2>1. /\ w.write = "requested" /\ LastWrite(w) /\ requests' = requests
        /\ snapshot'[w.run].pending = snapshot[w.run].pending \cup {w.id}
        /\ \A q \in Runs \ {w.run} : snapshot'[q] = snapshot[q]
    BY <1>3, RequestedStep
  <2> HIDE DEF w
  <2>2. w.id \in DOMAIN requests /\ requests[w.id].scope.run = w.run
    BY <2>1 DEF LastWrite, GrantWrite
  <2> QED BY <2>1, <2>2 DEF PendingInv
<1>4. CASE EmitPermissionGranted \/ EmitPermissionDenied
  <2>1. /\ requests' = requests
        /\ snapshot'[w.run].pending = snapshot[w.run].pending \ {w.id}
        /\ \A q \in Runs \ {w.run} : snapshot'[q] = snapshot[q]
    BY <1>4, GrantedStep, DeniedStep
  <2> HIDE DEF w
  <2> QED BY <2>1 DEF PendingInv
<1>5. PutPermission \/ EmitPermissionRequested \/ EmitPermissionGranted
        \/ EmitPermissionDenied \/ UNCHANGED <<requests, snapshot>>
  BY DEF Next, vars, CheckPermission, ResolvePermission, RequestModelApproval, Call,
         CloseSession, PersistGrant, LoseWrites
<1> QED BY <1>1, <1>2, <1>3, <1>4, <1>5

LEMMA PendingOffered == RInv /\ PendingInv => OfferedDecisionsAccepted
<1> SUFFICES ASSUME RInv, PendingInv, NEW r \in Runs, NEW id \in snapshot[r].pending,
                    requests[id].scope.session # None,
                    NEW d \in AvailableDecisions(r, requests[id].scope)
             PROVE  Resolvable(requests[id].scope, d)
  BY DEF OfferedDecisionsAccepted, PendingInv
<1> DEFINE scope == requests[id].scope
<1>1. scope.run = r /\ scope \in Scopes
  BY RecordRun DEF PendingInv, RInv, RecordsInv
<1>2. CASE Blocked(r)
  BY <1>2 DEF AvailableDecisions, Resolvable
<1>3. CASE ~Blocked(r)
  <2>1. scope.session \in closed => scope.session = SessionOf[r]
    BY <1>1, PermissionsAssumption DEF RInv
  <2> QED BY <1>3, <2>1 DEF Blocked, Resolvable
<1> QED BY <1>2, <1>3

(* Whatever writes were refused or lost, the snapshot offers no decision   *)
(* that ResolvePermission would turn down, if the models of two runs do    *)
(* not name their approvals alike: PutPermission would replace the record  *)
(* of the one by that of the other.                                        *)
THEOREM OfferedAccepted ==
  ASSUME ApprovalNamesRun
  PROVE  Spec => []OfferedDecisionsAccepted
<1>1. Init => PendingInv
  BY DEF Init, PendingInv
<1>2. RInv /\ PendingInv /\ [Next]_vars => PendingInv'
  BY NextPendingInv
<1> QED BY <1>1, <1>2, PendingOffered, RecordsInductive, PTL DEF Spec

(***************************************************************************)
(* What WorldState calls authorized                                        *)
(***************************************************************************)
(* A grant that is found under the id and the capability of WorldState is  *)
(* found for the call as well.                                             *)
LEMMA ProjectedFound ==
  ASSUME PInv, RInv, TargetNamesCapability, NEW c \in Checks,
         GrantsFound(c.scope, [c.action EXCEPT !.id = WorldStateID,
                                               !.capability = c.action.projected]) # {}
  PROVE  GrantsFound(c.scope, c.action) # {}
<1> DEFINE shown == [c.action EXCEPT !.id = WorldStateID,
                                     !.capability = c.action.projected]
<1>0. c.action \in Actions
  BY DEF Actions
<1>1. /\ shown.id = WorldStateID /\ shown.capability = c.action.projected
      /\ shown.target = c.action.target
  BY <1>0, ActionsAssumption DEF ActionFields
<1> HIDE DEF shown
<1>2. PICK i \in DOMAIN AllowDecisions :
        GrantForDecision(c.scope, shown, AllowDecisions[i]) \in grants
  BY DEF GrantsFound, shown
<1>3. PICK d \in decided : GrantOf(d) = GrantForDecision(c.scope, shown, AllowDecisions[i])
  BY <1>2 DEF PInv, GrantsInv
<1>4. d.action \in Actions /\ d.decision \in Allows /\ d.decision = AllowDecisions[i]
  BY <1>3 DEF PInv, DecidedInv, RInv, DecidedActions, GrantOf, GrantForDecision
<1>5. d.decision # "allow_once"
  BY <1>1, <1>3, <1>4, ActionsAssumption DEF GrantOf, GrantForDecision
<1>6. d.decision \notin Everything => c.action.projected = c.action.capability
  <2> SUFFICES ASSUME d.decision \notin Everything
               PROVE  c.action.projected = c.action.capability
    OBVIOUS
  <2>1. d.action.capability = c.action.projected /\ d.action.target = c.action.target
    BY <1>1, <1>3, <1>4 DEF GrantOf, GrantForDecision
  <2> QED BY <1>0, <1>4, <2>1 DEF TargetNamesCapability
<1>7. GrantForDecision(c.scope, c.action, AllowDecisions[i])
        = GrantForDecision(c.scope, shown, AllowDecisions[i])
  BY <1>1, <1>4, <1>5, <1>6 DEF GrantForDecision
<1> QED BY <1>2, <1>7 DEF GrantsFound

LEMMA InvariantsAuthorize ==
  ASSUME TargetNamesCapability
  PROVE  PInv /\ RInv => AuthorizedIsAdmitted
<1> SUFFICES ASSUME PInv, RInv, NEW c \in Checks, c.scope.run # None,
                    c.scope.session = SessionOf[c.scope.run],
                    CapabilityAuthorized(c.scope, c.action)
             PROVE  Admits(Ground(c.scope, c.action))
  BY DEF AuthorizedIsAdmitted
<1>1. CASE c.action.readOnly
  BY <1>1 DEF Admits, Ground
<1>2. CASE ~c.action.readOnly
  <2>1. c.scope.session \notin closed
    BY <1>2 DEF CapabilityAuthorized, Blocked
  <2>2. c.scope.mode = "yolo" \/ GrantsFound(c.scope, c.action) # {}
    BY <1>2, ProjectedFound DEF CapabilityAuthorized
  <2> QED BY <2>1, <2>2 DEF Admits, Ground
<1> QED BY <1>1, <1>2

(* A tool that capabilityAuthorizationForToolSpec shows as authorized is   *)
(* admitted by CheckPermission, though the two look for its grants under   *)
(* other ids and capabilities: no decision is shown that is not honoured.  *)
THEOREM AuthorizedAdmitted ==
  ASSUME TargetNamesCapability
  PROVE  Spec => []AuthorizedIsAdmitted
BY PermissionsInductive, RecordsInductive, InvariantsAuthorize, PTL

(***************************************************************************)
(* The snapshot and the records                                            *)
(***************************************************************************)
(* A check of this id finds a grant. *)
Found(id) ==
  \E c \in Checks :
    PermissionID(c.scope, c.action) = id /\ GrantsFound(c.scope, c.action) # {}

(* A check of this id would find that grant. *)
FoundWith(id, g) ==
  \E c \in Checks :
    /\ PermissionID(c.scope, c.action) = id
    /\ \E i \in DOMAIN AllowDecisions :
         GrantForDecision(c.scope, c.action, AllowDecisions[i]) = g

Settled(id) ==
  LET pending == id \in snapshot[requests[id].scope.run].pending IN
  IF requests[id].resolved THEN ~pending ELSE pending \/ Found(id)

(* The snapshot follows each record but the one of the call in progress,   *)
(* and those whose last call did not make all of its writes.               *)
SettledInv ==
  \A id \in DOMAIN requests \ (unsettled \cup ModelIDs) :
    Settled(id) \/ (work # <<>> /\ id = Head(work).id)

(* The event of a decision about a model approval names the id of a check, *)
(* and no record has it.                                                   *)
Aside(a, e) == a.id \in ModelIDs /\ e.id \notin CheckIDs \cup ModelIDs

(* The events still to come leave the snapshot as the record says. *)
LastEvent(e) ==
  /\ e.write \in {"granted", "denied"} /\ e.id \in DOMAIN requests =>
       /\ e.run = requests[e.id].scope.run
       /\ requests[e.id].resolved \/ (e.write = "granted" /\ Found(e.id))
  /\ e.write = "grant" => e.id \notin DOMAIN requests

TwoEvents(a, e) ==
  /\ a.write = "grant" =>
       /\ e.id = a.id \/ Aside(a, e)
       /\ e.id \in DOMAIN requests =>
            /\ e.run = requests[e.id].scope.run
            /\ requests[e.id].resolved \/ FoundWith(e.id, a.grant)
  /\ a.write = "request" /\ e.write = "denied" =>
       /\ a.record.resolved /\ e.run = a.record.scope.run
       /\ e.id = a.id \/ Aside(a, e)

ThreeEvents(a, b, e) ==
  /\ a.record.resolved /\ e.run = a.record.scope.run
  /\ b.id = a.id
  /\ e.id = a.id \/ Aside(a, e)

EventsInv ==
  \/ work = <<>>
  \/ \E e : work = <<e>> /\ LastEvent(e)
  \/ \E a, e : work = <<a, e>> /\ TwoEvents(a, e)
  \/ \E a, b, e : work = <<a, b, e>> /\ ThreeEvents(a, b, e)

SInv == SettledInv /\ EventsInv

(* The ids of records are those of checks and of model approvals. *)
LEMMA RecordIDs == RInv => DOMAIN requests \subseteq CheckIDs \cup ModelIDs
BY DEF RInv, RecordsInv, RecordOK, OfCheck, OfModel, CheckIDs, ModelIDs

(* A record with the id of a check is of its action and run. *)
LEMMA RecordOfCheck ==
  ASSUME IDNamesAction, RInv, NEW c \in Checks,
         PermissionID(c.scope, c.action) \in DOMAIN requests
  PROVE  LET id == PermissionID(c.scope, c.action) IN
         /\ requests[id].scope.run = c.scope.run
         /\ requests[id].action = c.action
         /\ ~c.action.readOnly /\ ~c.action.dangerous
<1> DEFINE id == PermissionID(c.scope, c.action)
<1>1. OfCheck(id, requests[id])
  BY IDsDisjoint DEF RInv, RecordsInv, RecordOK, OfModel
<1>2. PICK d \in Checks : /\ id = PermissionID(d.scope, d.action)
                          /\ requests[id].scope = d.scope /\ requests[id].action = d.action
                          /\ ~d.action.readOnly /\ ~d.action.dangerous
  BY <1>1 DEF OfCheck
<1>3. d.action = c.action
  BY <1>2 DEF IDNamesAction
<1>4. d.scope.run = c.scope.run
  BY <1>2, IDFields
<1> QED BY <1>2, <1>3, <1>4

(* A grant that a check persists is one that it finds. *)
LEMMA CheckFinds ==
  ASSUME NEW c \in Checks, NEW decision \in Allows
  PROVE  FoundWith(PermissionID(c.scope, c.action),
                   GrantForDecision(c.scope, c.action, decision))
BY AllowDecisionsRange DEF FoundWith

LEMMA FoundByCheck ==
  ASSUME NEW id, NEW g \in grants, FoundWith(id, g)
  PROVE  Found(id)
BY DEF Found, FoundWith, GrantsFound

LEMMA EventsMade ==
  ASSUME UNCHANGED <<requests, grants>>,
         \/ work' = <<>>
         \/ \E e : work' = <<e>> /\ LastEvent(e)
         \/ \E a, e : work' = <<a, e>> /\ TwoEvents(a, e)
         \/ \E a, b, e : work' = <<a, b, e>> /\ ThreeEvents(a, b, e)
  PROVE  EventsInv'
<1>1. \A id : Found(id)' = Found(id)
  BY DEF Found, GrantsFound
<1>2. \A e : LastEvent(e)' = LastEvent(e)
  BY <1>1 DEF LastEvent
<1>3. \A a, e : TwoEvents(a, e)' = TwoEvents(a, e)
  BY DEF TwoEvents
<1> QED BY <1>2, <1>3 DEF EventsInv

(* The events of a check: its grant is found by the check itself, and no   *)
(* record is of an action that is not asked about.                         *)
LEMMA CheckEvents ==
  ASSUME IDNamesAction, RInv, NEW c \in Checks, c.scope.run # None,
         UNCHANGED <<requests, grants>>, work' = CheckWrites(c.scope, c.action)
  PROVE  EventsInv'
<1> DEFINE id == PermissionID(c.scope, c.action)
           ground == Ground(c.scope, c.action)
<1>0. "allow_all_for_run" \in Allows /\ "allow_for_run" \in Allows
  BY DEF Allows, Everything
<1>1. ground \in {"closed", "grant", "yolo", "read_only", "accept_edits",
                  "dangerous", "ask"}
  BY DEF Ground
<1>R. id \in DOMAIN requests =>
        /\ requests[id].scope.run = c.scope.run
        /\ ~c.action.readOnly /\ ~c.action.dangerous
  BY RecordOfCheck
<1>2. CASE ground = "closed"
  <2>1. work' = <<>>
    BY <1>2 DEF CheckWrites
  <2> QED BY <2>1, EventsMade
<1>3. CASE ground = "grant"
  <2> DEFINE e == Granted(c.scope, c.action, FirstFound(c.scope, c.action))
  <2>1. work' = <<e>>
    BY <1>3 DEF CheckWrites
  <2>2. GrantsFound(c.scope, c.action) # {}
    BY <1>3 DEF Ground
  <2>3. e.write = "granted" /\ e.run = c.scope.run /\ e.id = id /\ Found(e.id)
    BY <2>2 DEF Granted, Found
  <2> HIDE DEF e, id
  <2>4. LastEvent(e)
    BY <1>R, <2>3 DEF LastEvent
  <2> QED BY <2>1, <2>4, EventsMade
<1>4. CASE ground \in {"yolo", "accept_edits"}
  <2> DEFINE d == IF ground = "yolo" THEN "allow_all_for_run" ELSE "allow_for_run"
             a == PutGrant(id, c.scope, c.action, d, c.action)
             e == Granted(c.scope, c.action, d)
  <2>1. work' = <<a, e>>
    BY <1>4 DEF CheckWrites, Grant
  <2>2. d \in Allows
    BY <1>0
  <2> HIDE DEF d
  <2>3. a.write = "grant" /\ a.id = id /\ a.grant = GrantForDecision(c.scope, c.action, d)
    BY DEF PutGrant
  <2>4. e.write = "granted" /\ e.id = id /\ e.run = c.scope.run
    BY DEF Granted
  <2>5. FoundWith(id, a.grant)
    BY <2>2, <2>3, CheckFinds
  <2> HIDE DEF a, e, id
  <2>6. TwoEvents(a, e)
    BY <1>R, <2>3, <2>4, <2>5 DEF TwoEvents
  <2> QED BY <2>1, <2>6, EventsMade
<1>5. CASE ground = "read_only"
  <2> DEFINE e == Granted(c.scope, c.action, "allow_once")
  <2>1. work' = <<e>>
    BY <1>5 DEF CheckWrites
  <2>2. id \notin DOMAIN requests
    BY <1>5, <1>R DEF Ground
  <2>3. e.write = "granted" /\ e.id = id
    BY DEF Granted
  <2> HIDE DEF e, id
  <2>4. LastEvent(e)
    BY <2>2, <2>3 DEF LastEvent
  <2> QED BY <2>1, <2>4, EventsMade
<1>6. CASE ground = "dangerous"
  <2> DEFINE e == Denied(c.scope, c.action)
  <2>1. work' = <<e>>
    BY <1>6 DEF CheckWrites
  <2>2. id \notin DOMAIN requests
    BY <1>6, <1>R DEF Ground
  <2>3. e.write = "denied" /\ e.id = id
    BY DEF Denied
  <2> HIDE DEF e, id
  <2>4. LastEvent(e)
    BY <2>2, <2>3 DEF LastEvent
  <2> QED BY <2>1, <2>4, EventsMade
<1>7. CASE ground = "ask"
  <2> DEFINE a == PutRequest(id, Request(c.scope, c.action))
             e == Requested(id, c.scope.run)
  <2>1. work' = <<a, e>>
    BY <1>7 DEF CheckWrites
  <2>2. TwoEvents(a, e)
    BY DEF TwoEvents, PutRequest, Requested
  <2> QED BY <2>1, <2>2, EventsMade
<1> QED BY <1>1, <1>2, <1>3, <1>4, <1>5, <1>6, <1>7

(* A read without a run has no record. *)
LEMMA NoRunEvents ==
  ASSUME IDNamesAction, RInv, NEW c \in Checks, c.scope.run = None,
         UNCHANGED <<requests, grants>>, work' = WritesWithoutRun(c.scope, c.action)
  PROVE  EventsInv'
<1> DEFINE id == PermissionID(c.scope, c.action)
           a == PutGrant(id, c.scope, c.action, "allow_all_for_run", c.action)
<1>1. work' = <<>> \/ work' = <<a>>
  BY DEF WritesWithoutRun
<1>2. c.action.readOnly
  BY PermissionsAssumption
<1>3. id \notin DOMAIN requests
  BY <1>2, RecordOfCheck
<1>4. a.write = "grant" /\ a.id = id
  BY DEF PutGrant
<1> HIDE DEF a, id
<1>5. LastEvent(a)
  BY <1>3, <1>4 DEF LastEvent
<1> QED BY <1>1, <1>5, EventsMade

(* A decision names the permission that the record is of, if it is one of  *)
(* a check.                                                                *)
LEMMA DecidedID ==
  ASSUME ModelCapabilityReserved, NEW id, NEW record, RecordOK(id, record), NEW scope,
         scope.run = record.scope.run, scope.session = record.scope.session,
         scope.actor = record.scope.actor
  PROVE  LET named == PermissionID(scope, record.action) IN
         named = id \/ (id \in ModelIDs /\ named \notin CheckIDs \cup ModelIDs)
<1> DEFINE named == PermissionID(scope, record.action)
<1>1. CASE OfCheck(id, record)
  BY <1>1 DEF OfCheck, PermissionID
<1>2. CASE OfModel(id, record)
  <2>1. id \in ModelIDs /\ record.action.capability = "model.approval"
    BY <1>2 DEF OfModel, ModelIDs, ModelAction
  <2>2. named \notin ModelIDs
    BY IDsDisjoint DEF ModelIDs
  <2>3. named \notin CheckIDs
    <3> SUFFICES ASSUME NEW c \in Checks, named = PermissionID(c.scope, c.action)
                 PROVE  FALSE
      BY DEF CheckIDs
    <3>1. record.action.capability = c.action.capability
      BY IDFields
    <3> QED BY <2>1, <3>1 DEF ModelCapabilityReserved
  <2> QED BY <2>1, <2>2, <2>3
<1> QED BY <1>1, <1>2 DEF RecordOK

LEMMA ResolveEvents ==
  ASSUME ModelCapabilityReserved, RInv, NEW id \in DOMAIN requests,
         NEW decision \in Decisions, NEW override \in Overrides,
         ResolvePermission(id, decision, override)
  PROVE  EventsInv'
<1> DEFINE stored == requests[id].scope
           scope == IF override.run = None THEN stored ELSE MergeScope(stored, override)
           action == requests[id].action
           record == [requests[id] EXCEPT !.granted = decision # "deny", !.resolved = TRUE]
           a == PutRequest(id, record)
           named == PermissionID(scope, action)
<1>1. /\ RepeatsScope(stored, override) /\ work' = ResolveWrites(id, scope, decision)
      /\ UNCHANGED <<requests, grants>>
  BY DEF ResolvePermission, Call
<1>2. RecordOK(id, requests[id]) /\ stored \in Scopes
  BY RecordRun DEF RInv, RecordsInv
<1>3. scope.run = stored.run /\ scope.session = stored.session /\ scope.actor = stored.actor
  BY <1>1, <1>2, ScopeRepeated
<1>4. named = id \/ (id \in ModelIDs /\ named \notin CheckIDs \cup ModelIDs)
  <2> HIDE DEF scope
  <2> QED BY <1>2, <1>3, DecidedID
<1>5. /\ a.write = "request" /\ a.id = id
      /\ a.record.resolved /\ a.record.scope.run = scope.run
  <2>1. record.resolved /\ record.scope = stored
    BY RecordDecided DEF RInv
  <2> HIDE DEF record
  <2> QED BY <1>3, <2>1 DEF PutRequest
<1>6. CASE decision = "deny"
  <2> DEFINE e == Denied(scope, action)
  <2>1. work' = <<a, e>>
    BY <1>1, <1>6 DEF ResolveWrites, StoredAction
  <2>2. e.write = "denied" /\ e.run = scope.run /\ e.id = named
    BY DEF Denied
  <2> HIDE DEF a, e, scope, named
  <2>3. TwoEvents(a, e)
    BY <1>4, <1>5, <2>2 DEF TwoEvents, Aside
  <2> QED BY <1>1, <2>1, <2>3, EventsMade
<1>7. CASE decision # "deny"
  <2> DEFINE b == PutGrant(id, scope, action, decision, action)
             e == Granted(scope, action, decision)
  <2>1. work' = <<a, b, e>>
    BY <1>1, <1>7 DEF ResolveWrites, StoredAction
  <2>2. b.id = id /\ e.run = scope.run /\ e.id = named
    BY DEF PutGrant, Granted
  <2> HIDE DEF a, b, e, scope, named
  <2>3. ThreeEvents(a, b, e)
    BY <1>4, <1>5, <2>2 DEF ThreeEvents, Aside
  <2> QED BY <1>1, <2>1, <2>3, EventsMade
<1> QED BY <1>6, <1>7

LEMMA ModelApprovalEvents ==
  ASSUME NEW m \in ModelApprovals, RequestModelApproval(m.scope, m.name)
  PROVE  EventsInv'
<1> DEFINE a == PutRequest(<<m.name>>, Request(m.scope, ModelAction(m.name)))
           e == Requested(<<m.name>>, m.scope.run)
<1>1. work' = <<a, e>> /\ UNCHANGED <<requests, grants>>
  BY DEF RequestModelApproval, Call
<1>2. TwoEvents(a, e)
  BY DEF TwoEvents, PutRequest, Requested
<1> QED BY <1>1, <1>2, EventsMade

(* What is left after the first write, with its events. *)
LEMMA EventsLeft ==
  ASSUME WritesInv, EventsInv, work # <<>>, work' = Tail(work)
  PROVE  \/ work' = <<>> /\ LastWrite(Head(work)) /\ LastEvent(Head(work))
         \/ \E e : work' = <<e>> /\ TwoWrites(Head(work), e) /\ TwoEvents(Head(work), e)
         \/ \E b, e : /\ work' = <<b, e>>
                      /\ ThreeWrites(Head(work), b, e) /\ ThreeEvents(Head(work), b, e)
<1>1. \/ work' = <<>> /\ LastWrite(Head(work))
      \/ \E e : work' = <<e>> /\ TwoWrites(Head(work), e)
      \/ \E b, e : work' = <<b, e>> /\ ThreeWrites(Head(work), b, e)
  BY WritesLeft
<1>2. CASE \E e : work = <<e>> /\ LastEvent(e)
  <2>1. PICK e : work = <<e>> /\ LastEvent(e)
    BY <1>2
  <2>2. Head(work) = e /\ work' = <<>>
    BY <2>1
  <2> QED BY <1>1, <2>1, <2>2
<1>3. CASE \E a, e : work = <<a, e>> /\ TwoEvents(a, e)
  <2>1. PICK a, e : work = <<a, e>> /\ TwoEvents(a, e)
    BY <1>3
  <2>2. Head(work) = a /\ work' = <<e>>
    BY <2>1
  <2>3. work' # <<>> /\ \A b, e2 : work' # <<b, e2>>
    <3>1. work' = <<e>>
      BY <2>2
    <3>2. <<e>> # <<>> /\ \A b, e2 : <<e>> # <<b, e2>>
      <4>1. Len(<<e>>) = 1 /\ \A b, e2 : Len(<<b, e2>>) = 2
        BY ONLY TRUE
      <4>2. Len(<<>>) = 0
        BY ONLY TRUE
      <4> QED BY ONLY <4>1, <4>2
    <3> QED BY <3>1, <3>2
  <2>4. PICK e2 : work' = <<e2>> /\ TwoWrites(Head(work), e2)
    BY <1>1, <2>3
  <2>5. e2 = e
    BY <2>2, <2>4
  <2> QED BY <2>1, <2>2, <2>4, <2>5
<1>4. CASE \E a, b, e : work = <<a, b, e>> /\ ThreeEvents(a, b, e)
  <2>1. PICK a, b, e : work = <<a, b, e>> /\ ThreeEvents(a, b, e)
    BY <1>4
  <2>2. Head(work) = a /\ work' = <<b, e>>
    BY <2>1
  <2>3. PICK b2, e2 : work' = <<b2, e2>> /\ ThreeWrites(Head(work), b2, e2)
    BY <1>1, <2>2
  <2>4. b2 = b /\ e2 = e
    BY <2>2, <2>3
  <2> QED BY <2>1, <2>2, <2>3, <2>4
<1> QED BY <1>2, <1>3, <1>4 DEF EventsInv

(* A record that a write does not touch stays settled. *)
LEMMA StaysSettled ==
  ASSUME NEW id \in DOMAIN requests, Settled(id), requests'[id] = requests[id],
         grants \subseteq grants',
         (id \in snapshot'[requests[id].scope.run].pending)
           = (id \in snapshot[requests[id].scope.run].pending)
  PROVE  Settled(id)'
<1>1. Found(id) => Found(id)'
  BY DEF Found, GrantsFound
<1> QED BY <1>1 DEF Settled

LEMMA PutPermissionSInv ==
  ASSUME RInv, RInv', SInv, PutPermission
  PROVE  SInv'
<1> DEFINE w == Head(work)
<1>1. /\ work # <<>> /\ w.write = "request" /\ work' = Tail(work)
      /\ UNCHANGED <<grants, snapshot>>
      /\ requests' = [id \in DOMAIN requests \cup {w.id} |->
                        IF id = w.id THEN w.record ELSE requests[id]]
      /\ work' # <<>> => unsettled' = unsettled
  BY DEF PutPermission, NextWrite
<1>2. \/ work' = <<>> /\ LastWrite(w) /\ LastEvent(w)
      \/ \E e : work' = <<e>> /\ TwoWrites(w, e) /\ TwoEvents(w, e)
      \/ \E b, e : work' = <<b, e>> /\ ThreeWrites(w, b, e) /\ ThreeEvents(w, b, e)
  BY <1>1, EventsLeft DEF RInv, SInv
<1>3. \A id \in DOMAIN requests \ (unsettled \cup ModelIDs) : Settled(id) \/ id = w.id
  BY DEF SInv, SettledInv
<1> HIDE DEF w
<1>4. w.id \in DOMAIN requests' /\ requests'[w.id] = w.record
  BY <1>1
<1>5. DOMAIN requests' \subseteq CheckIDs \cup ModelIDs
  BY DEF RInv, RecordsInv, RecordOK, OfCheck, OfModel, CheckIDs, ModelIDs
<1>6. work' # <<>> /\ (w.id \in ModelIDs \/ Head(work').id = w.id)
  <2>1. CASE \E e : work' = <<e>> /\ TwoWrites(w, e) /\ TwoEvents(w, e)
    <3>1. PICK e : work' = <<e>> /\ TwoWrites(w, e) /\ TwoEvents(w, e)
      BY <2>1
    <3>2. e.id = w.id \/ w.id \in ModelIDs
      BY <1>1, <3>1 DEF TwoWrites, TwoEvents, Aside, GrantWrite
    <3> QED BY <3>1, <3>2
  <2>2. CASE \E b, e : /\ work' = <<b, e>>
                       /\ ThreeWrites(w, b, e) /\ ThreeEvents(w, b, e)
    <3>1. PICK b, e : work' = <<b, e>> /\ ThreeEvents(w, b, e)
      BY <2>2
    <3>2. b.id = w.id /\ Head(work') = b /\ work' # <<>>
      BY <3>1 DEF ThreeEvents
    <3> QED BY <3>2
  <2>3. ~LastWrite(w)
    BY <1>1 DEF LastWrite, GrantWrite
  <2> QED BY <1>2, <2>1, <2>2, <2>3
<1>7. SettledInv'
  <2> SUFFICES ASSUME NEW id \in DOMAIN requests', id \notin unsettled', id \notin ModelIDs
               PROVE  Settled(id)' \/ (work' # <<>> /\ id = Head(work').id)
    BY DEF SettledInv
  <2>1. CASE id = w.id
    BY <1>6, <2>1
  <2>2. CASE id # w.id
    <3>0. id \in DOMAIN requests /\ requests'[id] = requests[id]
      <4>1. requests' = [x \in DOMAIN requests \cup {w.id} |->
                           IF x = w.id THEN w.record ELSE requests[x]]
        BY <1>1
      <4>2. DOMAIN requests' = DOMAIN requests \cup {w.id}
        BY <4>1
      <4>3. id \in DOMAIN requests
        BY <2>2, <4>2
      <4> QED BY <2>2, <4>1, <4>3
    <3>1. id \in DOMAIN requests /\ requests'[id] = requests[id] /\ id \notin unsettled
      BY <1>1, <1>6, <3>0
    <3>2. Settled(id)
      BY <1>3, <2>2, <3>1
    <3> QED BY <1>1, <3>1, <3>2, StaysSettled
  <2> QED BY <2>1, <2>2
<1>8. EventsInv'
  <2>1. CASE \E e : work' = <<e>> /\ TwoWrites(w, e) /\ TwoEvents(w, e)
    <3>1. PICK e : work' = <<e>> /\ TwoWrites(w, e) /\ TwoEvents(w, e)
      BY <2>1
    <3>2. e.write = "requested" \/ e.write = "denied"
      BY <1>1, <3>1 DEF TwoWrites, GrantWrite
    <3>3. e.write = "denied" /\ e.id \in DOMAIN requests' =>
            requests'[e.id].resolved /\ e.run = requests'[e.id].scope.run
      BY <1>1, <1>4, <1>5, <3>1 DEF TwoEvents, Aside
    <3>4. LastEvent(e)'
      BY <3>2, <3>3 DEF LastEvent
    <3> QED BY <3>1, <3>4 DEF EventsInv
  <2>2. CASE \E b, e : /\ work' = <<b, e>>
                       /\ ThreeWrites(w, b, e) /\ ThreeEvents(w, b, e)
    <3>1. PICK b, e : work' = <<b, e>> /\ ThreeWrites(w, b, e) /\ ThreeEvents(w, b, e)
      BY <2>2
    <3>2. b.write = "grant" /\ b.id = w.id /\ (e.id = b.id \/ Aside(b, e))
      BY <3>1 DEF ThreeWrites, ThreeEvents, GrantWrite, Aside
    <3>3. e.id \in DOMAIN requests' =>
            requests'[e.id].resolved /\ e.run = requests'[e.id].scope.run
      BY <1>4, <1>5, <3>1, <3>2 DEF ThreeEvents, Aside
    <3>4. TwoEvents(b, e)'
      BY <3>2, <3>3 DEF TwoEvents
    <3> QED BY <3>1, <3>4 DEF EventsInv
  <2>3. ~LastWrite(w)
    BY <1>1 DEF LastWrite, GrantWrite
  <2> QED BY <1>2, <2>1, <2>2, <2>3
<1> QED BY <1>7, <1>8 DEF SInv

LEMMA PersistGrantSInv ==
  ASSUME RInv, SInv, PersistGrant
  PROVE  SInv'
<1> DEFINE w == Head(work)
<1>1. /\ work # <<>> /\ w.write = "grant" /\ work' = Tail(work)
      /\ UNCHANGED <<requests, snapshot>> /\ grants' = grants \cup {w.grant}
      /\ unsettled' = IF work' = <<>> THEN unsettled \ {w.id} ELSE unsettled
  BY DEF PersistGrant, NextWrite
<1>2. \/ work' = <<>> /\ LastWrite(w) /\ LastEvent(w)
      \/ \E e : work' = <<e>> /\ TwoWrites(w, e) /\ TwoEvents(w, e)
      \/ \E b, e : work' = <<b, e>> /\ ThreeWrites(w, b, e) /\ ThreeEvents(w, b, e)
  BY <1>1, EventsLeft DEF RInv, SInv
<1>3. \A id \in DOMAIN requests \ (unsettled \cup ModelIDs) : Settled(id) \/ id = w.id
  BY DEF SInv, SettledInv
<1> HIDE DEF w
<1>4. \A id \in DOMAIN requests : Settled(id) => Settled(id)'
  BY <1>1, StaysSettled
<1>5. CASE work' = <<>>
  <2>1. w.id \notin DOMAIN requests
    BY <1>1, <1>2, <1>5 DEF LastEvent
  <2>2. SettledInv'
    BY <1>1, <1>3, <1>4, <1>5, <2>1 DEF SettledInv
  <2> QED BY <1>5, <2>2 DEF SInv, EventsInv
<1>6. CASE \E e : work' = <<e>> /\ TwoWrites(w, e) /\ TwoEvents(w, e)
  <2>1. PICK e : work' = <<e>> /\ TwoWrites(w, e) /\ TwoEvents(w, e)
    BY <1>6
  <2>2. work' # <<>> /\ Head(work') = e
    BY <2>1
  <2>3. e.id = w.id \/ w.id \in ModelIDs
    BY <1>1, <2>1 DEF TwoEvents, Aside
  <2>4. SettledInv'
    BY <1>1, <1>3, <1>4, <2>2, <2>3 DEF SettledInv
  <2>5. FoundWith(e.id, w.grant) => Found(e.id)'
    BY <1>1 DEF FoundWith, Found, GrantsFound
  <2>6. e.write = "granted"
    BY <1>1, <2>1 DEF TwoWrites
  <2>7. LastEvent(e)'
    BY <1>1, <2>1, <2>5, <2>6 DEF LastEvent, TwoEvents
  <2>8. EventsInv'
    BY <2>1, <2>7 DEF EventsInv
  <2> QED BY <2>4, <2>8 DEF SInv
<1> QED BY <1>1, <1>2, <1>5, <1>6 DEF ThreeWrites

LEMMA EventsSInv ==
  ASSUME RInv, SInv,
         EmitPermissionRequested \/ EmitPermissionGranted \/ EmitPermissionDenied
  PROVE  SInv'
<1> DEFINE w == Head(work)
<1>1. /\ work # <<>> /\ work' = Tail(work) /\ work' = <<>> /\ w.run \in Runs
      /\ \/ /\ w.write = "requested"
            /\ snapshot'[w.run].pending = snapshot[w.run].pending \cup {w.id}
         \/ /\ w.write \in {"granted", "denied"}
            /\ snapshot'[w.run].pending = snapshot[w.run].pending \ {w.id}
      /\ \A q \in Runs \ {w.run} : snapshot'[q] = snapshot[q]
      /\ UNCHANGED <<requests, grants>>
      /\ unsettled' = unsettled \ {w.id}
  <2>1. work # <<>> /\ work' = Tail(work)
        /\ unsettled' = IF Tail(work) = <<>> THEN unsettled \ {w.id} ELSE unsettled
    BY DEF EmitPermissionRequested, EmitPermissionGranted, EmitPermissionDenied, NextWrite
  <2> QED BY <2>1, RequestedStep, GrantedStep, DeniedStep
<1>2. LastWrite(w) /\ LastEvent(w)
  BY <1>1, EventsLeft DEF RInv, SInv
<1>3. \A id \in DOMAIN requests \ (unsettled \cup ModelIDs) : Settled(id) \/ id = w.id
  BY DEF SInv, SettledInv
<1> HIDE DEF w
<1>4. \A id \in DOMAIN requests : id = w.id => Settled(id)'
  <2> SUFFICES ASSUME NEW id \in DOMAIN requests, id = w.id PROVE Settled(id)'
    OBVIOUS
  <2>1. w.run = requests[id].scope.run
    BY <1>1, <1>2 DEF LastWrite, LastEvent, GrantWrite
  <2>2. CASE w.write = "requested"
    <3>1. ~requests[id].resolved
      BY <1>2, <2>2 DEF LastWrite, GrantWrite
    <3>2. id \in snapshot'[w.run].pending
      BY <1>1, <2>2
    <3> QED BY <1>1, <2>1, <3>1, <3>2 DEF Settled
  <2>3. CASE w.write \in {"granted", "denied"}
    <3>1. requests[id].resolved \/ Found(id)
      BY <1>2, <2>3 DEF LastEvent
    <3>2. Found(id)' = Found(id)
      BY <1>1 DEF Found, GrantsFound
    <3>3. id \notin snapshot'[w.run].pending
      BY <1>1, <2>3
    <3> QED BY <1>1, <2>1, <3>1, <3>2, <3>3 DEF Settled
  <2> QED BY <1>1, <2>2, <2>3
<1>5. \A id \in DOMAIN requests : id # w.id /\ Settled(id) => Settled(id)'
  <2> SUFFICES ASSUME NEW id \in DOMAIN requests, id # w.id, Settled(id)
               PROVE  Settled(id)'
    OBVIOUS
  <2>1. requests[id].scope.run \in Runs
    BY RecordRun DEF RInv, RecordsInv
  <2>2. (id \in snapshot'[requests[id].scope.run].pending)
          = (id \in snapshot[requests[id].scope.run].pending)
    BY <1>1, <2>1
  <2> QED BY <1>1, <2>2, StaysSettled
<1>6. SettledInv'
  <2> SUFFICES ASSUME NEW id \in DOMAIN requests, id \notin unsettled', id \notin ModelIDs
               PROVE  Settled(id)'
    BY <1>1 DEF SettledInv
  <2>1. CASE id = w.id
    BY <1>4, <2>1
  <2>2. CASE id # w.id
    BY <1>1, <1>3, <1>5, <2>2
  <2> QED BY <2>1, <2>2
<1> QED BY <1>1, <1>6 DEF SInv, EventsInv

LEMMA LoseWritesSInv ==
  ASSUME SInv, LoseWrites
  PROVE  SInv'
<1>1. /\ work # <<>> /\ work' = <<>> /\ UNCHANGED <<requests, grants, snapshot>>
      /\ unsettled' = unsettled \cup ({Head(work).id} \cap DOMAIN requests)
  BY DEF LoseWrites
<1>2. \A id \in DOMAIN requests : Settled(id) => Settled(id)'
  BY <1>1, StaysSettled
<1>3. SettledInv'
  BY <1>1, <1>2 DEF SInv, SettledInv
<1> QED BY <1>1, <1>3 DEF SInv, EventsInv

LEMMA NextSInv ==
  ASSUME IDNamesAction, ModelCapabilityReserved
  PROVE  RInv /\ RInv' /\ SInv /\ [Next]_vars => SInv'
<1> SUFFICES ASSUME RInv, RInv', SInv, [Next]_vars PROVE SInv'
  OBVIOUS
<1>0. ASSUME Idle, UNCHANGED <<requests, grants, snapshot, unsettled>>, EventsInv'
      PROVE  SInv'
  <2>1. \A id \in DOMAIN requests : Settled(id) => Settled(id)'
    BY <1>0, StaysSettled
  <2>2. SettledInv'
    BY <1>0, <2>1 DEF SInv, SettledInv, Idle
  <2> QED BY <1>0, <2>2 DEF SInv
<1>1. CASE \E c \in Checks : CheckPermission(c.scope, c.action)
  <2>1. PICK c \in Checks : CheckPermission(c.scope, c.action)
    BY <1>1
  <2>2. Idle /\ UNCHANGED <<requests, grants, snapshot, unsettled>>
    BY <2>1 DEF CheckPermission, Call
  <2>3. EventsInv'
    BY <2>1, CheckEvents, NoRunEvents DEF CheckPermission, Call
  <2> QED BY <1>0, <2>2, <2>3
<1>2. CASE \E id \in DOMAIN requests, d \in Decisions, o \in Overrides :
             ResolvePermission(id, d, o)
  <2>1. Idle /\ UNCHANGED <<requests, grants, snapshot, unsettled>>
    BY <1>2 DEF ResolvePermission, Call
  <2>2. EventsInv'
    BY <1>2, ResolveEvents
  <2> QED BY <1>0, <2>1, <2>2
<1>3. CASE \E m \in ModelApprovals : RequestModelApproval(m.scope, m.name)
  <2>1. Idle /\ UNCHANGED <<requests, grants, snapshot, unsettled>>
    BY <1>3 DEF RequestModelApproval, Call
  <2>2. EventsInv'
    BY <1>3, ModelApprovalEvents
  <2> QED BY <1>0, <2>1, <2>2
<1>4. CASE \E s \in Sessions : CloseSession(s)
  <2>1. Idle /\ UNCHANGED <<requests, grants, snapshot, unsettled, work>>
    BY <1>4 DEF CloseSession
  <2>2. EventsInv'
    BY <2>1 DEF Idle, EventsInv
  <2> QED BY <1>0, <2>1, <2>2
<1>5. CASE PutPermission
  BY <1>5, PutPermissionSInv
<1>6. CASE PersistGrant
  BY <1>6, PersistGrantSInv
<1>7. CASE EmitPermissionRequested \/ EmitPermissionGranted \/ EmitPermissionDenied
  BY <1>7, EventsSInv
<1>8. CASE LoseWrites
  BY <1>8, LoseWritesSInv
<1>9. CASE UNCHANGED vars
  <2>1. \A id \in DOMAIN requests : Settled(id) => Settled(id)'
    BY <1>9, StaysSettled DEF vars
  <2>2. SettledInv'
    BY <1>9, <2>1 DEF vars, SInv, SettledInv
  <2>3. EventsInv'
    BY <1>9, EventsMade DEF vars, SInv, EventsInv
  <2> QED BY <2>2, <2>3 DEF SInv
<1> QED BY <1>1, <1>2, <1>3, <1>4, <1>5, <1>6, <1>7, <1>8, <1>9 DEF Next

(* Once the calls for a permission have made their writes, the snapshot    *)
(* shows it as pending exactly while its record is open, or a grant has    *)
(* made the question needless: through refused writes, crashes and any     *)
(* number of repetitions.  The ids of permissions have to name one action  *)
(* each: a call that uses the id of an open request for a dangerous        *)
(* command would have CheckPermission emit permission.denied over it.      *)
THEOREM SnapshotFollows ==
  ASSUME IDNamesAction, ModelCapabilityReserved
  PROVE  Spec => []SnapshotFollowsRecords
<1>1. Init => SInv
  BY DEF Init, SInv, SettledInv, EventsInv
<1>2. RInv /\ RInv' /\ SInv /\ [Next]_vars => SInv'
  BY NextSInv
<1>3. SInv => SnapshotFollowsRecords
  BY DEF SInv, SettledInv, Settled, Found, Idle, SnapshotFollowsRecords, ModelIDs
<1> QED BY <1>1, <1>2, <1>3, RecordsInductive, PTL DEF Spec
================================================================================
