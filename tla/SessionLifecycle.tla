--------------------------- MODULE SessionLifecycle ---------------------------
(***************************************************************************)
(* The run and session lifecycle of one Runtime: SubmitRun, the outcomes   *)
(* of the core loop, InterruptRun, StopSession (drain and cancel_active),  *)
(* ResumeRun from an approval or a checkpoint, the denial of an approval,  *)
(* the run lease, the completion of a drained session; and what a          *)
(* cancelled context or a crash leaves behind.                             *)
(*                                                                         *)
(* A caller is one facade call in progress.  The runtime's owner           *)
(* serialises its calls, except that a call inside a host callback (a      *)
(* model turn, a tool) does not keep other calls from being made: that is  *)
(* how a host stops a session whose run is in a model turn.  So at most    *)
(* one call is between two callbacks (OwnerFree guards every action that   *)
(* starts a call or returns from a callback), and each store write of it   *)
(* is a step, so that a fault can fall between any two.                    *)
(***************************************************************************)
EXTENDS Naturals

CONSTANTS
  Runs,         \* run identifiers; each is submitted at most once
  Sessions,
  SessionOf,    \* the session of each run
  Approvals,    \* approval identifiers a suspension may store
  ApprovalOf,   \* the run of each approval
  Callers,      \* how many facade calls may be in progress at once
  MaxCuts,      \* bound on cancelled contexts and crashes of the process
  MaxMisreads   \* bound on failed lookups of the record of a session

None == "none"

ASSUME LifecycleAssumption ==
  /\ SessionOf \in [Runs -> Sessions]
  /\ ApprovalOf \in [Approvals -> Runs]
  /\ None \notin Approvals
  /\ MaxCuts \in Nat
  /\ MaxMisreads \in Nat

VARIABLES
  status,        \* status[r]: the run record's status, or None before PutRun
  thread,        \* thread[s]: the session record's status, or None
  ended,         \* ended[s]: is session.ended in the journal
  requested,     \* the approvals that have a permission record
  checkpointed,  \* the runs with a checkpoint that carries loop state
  lease,         \* lease[r]: the activity with an unexpired lease on run r
  holders,       \* holders[r]: the calls that keep that lease alive
  call,          \* call[c]: the facade call c is in, and where it is
  cuts,          \* contexts cancelled, and crashes, so far
  misreads       \* misreads[s]: lookups of the record of s that failed

records == <<status, thread, ended, requested, checkpointed>>
leases == <<lease, holders>>
faults == <<cuts, misreads>>
vars == <<records, leases, call, faults>>

(***************************************************************************)
(* Statuses                                                                *)
(***************************************************************************)
Terminal == {"completed", "failed", "canceled", "denied"}
Active == {"running", "suspended"}
Resumable == {"suspended", "running", "failed"}
RunStatus == {None} \cup Terminal \cup Active
ThreadStatus == {None, "active", "stopping", "stopped"}

ActiveRuns(s) == {r \in Runs : SessionOf[r] = s /\ status[r] \in Active}

(* GetThread of the record of s answers t.  A store error is taken for a   *)
(* record that is not there: the gate opens, recordSessionRun creates the  *)
(* record anew, loadSessionAndRuns makes an active one up from the runs.   *)
LookUp(s, t) ==
  \/ t = thread[s] /\ UNCHANGED misreads
  \/ /\ t = None
     /\ thread[s] # None
     /\ misreads[s] < MaxMisreads
     /\ misreads' = [misreads EXCEPT ![s] = @ + 1]

(* A session read as stopping or stopped admits no run and no resume. *)
AcceptsRuns(t) == t \notin {"stopping", "stopped"}

(***************************************************************************)
(* Calls in progress                                                       *)
(***************************************************************************)
Activities == {"core-loop", "checkpoint"} \cup Approvals

(* Where a call may be while the host's own code runs. *)
Callback == {"packet", "turn"}

LoopSteps == {"recording", "acquiring", "packet", "turn", "suspending"}
PCs == LoopSteps \cup
       {"idle", "resuming", "denying", "draining", "ending", "releasing",
        "interrupting"}

NoCall == [op |-> None, pc |-> "idle", run |-> None, session |-> None,
           activity |-> None, todo |-> {}]

LoopCall(at, r, a) ==
  [op |-> "loop", pc |-> at, run |-> r, session |-> SessionOf[r],
   activity |-> a, todo |-> {}]

(* A call that is neither a loop nor a StopSession: InterruptRun, a denial. *)
RunCall(o, at, r) ==
  [op |-> o, pc |-> at, run |-> r, session |-> SessionOf[r],
   activity |-> None, todo |-> {}]

StopCall(o, at, s, rs) ==
  [op |-> o, pc |-> at, run |-> None, session |-> s, activity |-> None,
   todo |-> rs]

OwnerFree == \A c \in Callers : call[c].pc \in {"idle"} \cup Callback

Idle(c) == call[c].pc = "idle" /\ OwnerFree
At(c, pc) == call[c].pc = pc
GoTo(c, pc) == call' = [call EXCEPT ![c].pc = pc]
Return(c) == call' = [call EXCEPT ![c] = NoCall]

(* Where completeDrainedSessionIfIdle and emitSessionEnded return to. *)
Continue(c) ==
  CASE call[c].op = "loop"         -> GoTo(c, "releasing")
    [] call[c].op = "cancelActive" -> GoTo(c, "interrupting")
    [] OTHER                       -> Return(c)

PutStatus(r, st) == status' = [status EXCEPT ![r] = st]

Init ==
  /\ status = [r \in Runs |-> None]
  /\ thread = [s \in Sessions |-> None]
  /\ ended = [s \in Sessions |-> FALSE]
  /\ requested = {}
  /\ checkpointed = {}
  /\ lease = [r \in Runs |-> None]
  /\ holders = [r \in Runs |-> {}]
  /\ call = [c \in Callers |-> NoCall]
  /\ cuts = 0
  /\ misreads = [s \in Sessions |-> 0]


(***************************************************************************)
(* Submitting a run                                                        *)
(***************************************************************************)

(* initializeRun: the session gate, then the run record. *)
SubmitRun(c, r) ==
  /\ Idle(c)
  /\ status[r] = None
  /\ \E t \in ThreadStatus : LookUp(SessionOf[r], t) /\ AcceptsRuns(t)
  /\ PutStatus(r, "running")
  /\ call' = [call EXCEPT ![c] = LoopCall("recording", r, "core-loop")]
  /\ UNCHANGED <<thread, ended, requested, checkpointed, leases, cuts>>

(* recordSessionRun creates the session record or keeps its status; over a *)
(* record it cannot read it writes a new one.                              *)
RecordSessionRun(c) ==
  /\ At(c, "recording")
  /\ \E t \in ThreadStatus :
       /\ LookUp(call[c].session, t)
       /\ thread' = [thread EXCEPT ![call[c].session] =
                       IF t = None THEN "active" ELSE t]
  /\ GoTo(c, "acquiring")
  /\ UNCHANGED <<status, ended, requested, checkpointed, leases, cuts>>

(* Acquire shares the lease with a call of the same activity and refuses   *)
(* another activity; the refusal goes to failRun.                          *)
AcquireLease(c) ==
  LET r == call[c].run IN
  /\ At(c, "acquiring")
  /\ \/ /\ lease[r] \in {None, call[c].activity}
        /\ lease' = [lease EXCEPT ![r] = call[c].activity]
        /\ holders' = [holders EXCEPT ![r] = @ \cup {c}]
        /\ GoTo(c, "packet")
        /\ UNCHANGED status
     \/ /\ lease[r] \notin {None, call[c].activity}
        /\ PutStatus(r, "failed")
        /\ GoTo(c, "draining")
        /\ UNCHANGED leases
  /\ UNCHANGED <<thread, ended, requested, checkpointed, faults>>

(***************************************************************************)
(* The core loop, seen from the records                                    *)
(***************************************************************************)

(* The context packet is built and the first checkpoint written; from here *)
(* on the loop takes model and tool turns, which change no record here.    *)
EnterLoop(c) ==
  /\ OwnerFree
  /\ At(c, "packet")
  /\ checkpointed' = checkpointed \cup {call[c].run}
  /\ GoTo(c, "turn")
  /\ UNCHANGED <<status, thread, ended, requested, leases, faults>>

(* completeRun, failRun, denyRun: putRunStatus does not look at the status *)
(* it overwrites.                                                          *)
FinishRun(c, outcome) ==
  /\ OwnerFree
  /\ \/ At(c, "turn")
     \/ At(c, "packet") /\ outcome = "failed"
  /\ PutStatus(call[c].run, outcome)
  /\ GoTo(c, "draining")
  /\ UNCHANGED <<thread, ended, requested, checkpointed, leases, faults>>

(* The model or the permission gate asks for approval: the approval record *)
(* is stored with its continuation before the run is suspended.            *)
RequestApproval(c, a) ==
  /\ OwnerFree
  /\ At(c, "turn")
  /\ ApprovalOf[a] = call[c].run
  /\ requested' = requested \cup {a}
  /\ GoTo(c, "suspending")
  /\ UNCHANGED <<status, thread, ended, checkpointed, leases, faults>>

SuspendRun(c) ==
  /\ At(c, "suspending")
  /\ PutStatus(call[c].run, "suspended")
  /\ GoTo(c, "releasing")
  /\ UNCHANGED <<thread, ended, requested, checkpointed, leases, faults>>

(* Variant: the lease on the run is ended, whoever has it by now. *)
ReleaseLeaseOfRun(c) ==
  /\ At(c, "releasing")
  /\ lease' = [lease EXCEPT ![call[c].run] = None]
  /\ holders' = [holders EXCEPT ![call[c].run] = {}]
  /\ Return(c)
  /\ UNCHANGED <<records, faults>>

(* The deferred Release.  It ends the lease for every call that shares it; *)
(* when another call released it already there is nothing left to end.     *)
ReleaseLease(c) ==
  LET r == call[c].run IN
  /\ At(c, "releasing")
  /\ \/ /\ c \in holders[r]
        /\ lease' = [lease EXCEPT ![r] = None]
        /\ holders' = [holders EXCEPT ![r] = {}]
     \/ c \notin holders[r] /\ UNCHANGED leases
  /\ Return(c)
  /\ UNCHANGED <<records, faults>>

(***************************************************************************)
(* Completing a drained session: emitActivityCompleted of a terminal       *)
(* status, and InterruptRun, end here                                      *)
(***************************************************************************)

(* A record that cannot be read is not stopping: the drain is not ended. *)
CompleteDrainedSessionIfIdle(c) ==
  LET s == call[c].session IN
  /\ At(c, "draining")
  /\ \E t \in ThreadStatus :
       LET drained == t = "stopping" /\ ActiveRuns(s) = {} IN
       /\ LookUp(s, t)
       /\ \/ /\ drained
             /\ thread' = [thread EXCEPT ![s] = "stopped"]
             /\ GoTo(c, "ending")
          \/ ~drained /\ Continue(c) /\ UNCHANGED thread
  /\ UNCHANGED <<status, ended, requested, checkpointed, leases, cuts>>

EmitSessionEnded(c) ==
  /\ At(c, "ending")
  /\ ended' = [ended EXCEPT ![call[c].session] = TRUE]
  /\ Continue(c)
  /\ UNCHANGED <<status, thread, requested, checkpointed, leases, faults>>

(***************************************************************************)
(* Interrupting and stopping                                               *)
(***************************************************************************)

(* A terminal run keeps its status; the loop itself is not told. *)
Interrupted(r) ==
  IF status[r] \in Terminal THEN status[r] ELSE "canceled"

(* Variant: a terminal run returns before the drain is completed. *)
InterruptRunUnlessTerminal(c, r) ==
  /\ Idle(c)
  /\ status[r] \notin Terminal \cup {None}
  /\ PutStatus(r, "canceled")
  /\ call' = [call EXCEPT ![c] = RunCall("interrupt", "draining", r)]
  /\ UNCHANGED <<thread, ended, requested, checkpointed, leases, faults>>

InterruptRun(c, r) ==
  /\ Idle(c)
  /\ status[r] # None
  /\ PutStatus(r, Interrupted(r))
  /\ call' = [call EXCEPT ![c] = RunCall("interrupt", "draining", r)]
  /\ UNCHANGED <<thread, ended, requested, checkpointed, leases, faults>>

(* A session read as t is known by its record or by one of its runs. *)
CanStop(s, t) ==
  /\ t # "stopped"
  /\ t # None \/ \E r \in Runs : SessionOf[r] = s /\ status[r] # None

(* Variant: session.ended is emitted for a session that is only stopping. *)
StopSessionDrainEnds(c, s) ==
  /\ Idle(c)
  /\ \E t \in ThreadStatus : LookUp(s, t) /\ CanStop(s, t)
  /\ thread' = [thread EXCEPT ![s] =
                  IF ActiveRuns(s) # {} THEN "stopping" ELSE "stopped"]
  /\ call' = [call EXCEPT ![c] = StopCall("stop", "ending", s, {})]
  /\ UNCHANGED <<status, ended, requested, checkpointed, leases, cuts>>

StopSessionDrain(c, s) ==
  /\ Idle(c)
  /\ \E t \in ThreadStatus : LookUp(s, t) /\ CanStop(s, t)
  /\ \/ /\ ActiveRuns(s) # {}
        /\ thread' = [thread EXCEPT ![s] = "stopping"]
        /\ UNCHANGED call
     \/ /\ ActiveRuns(s) = {}
        /\ thread' = [thread EXCEPT ![s] = "stopped"]
        /\ call' = [call EXCEPT ![c] = StopCall("stop", "ending", s, {})]
  /\ UNCHANGED <<status, ended, requested, checkpointed, leases, cuts>>

(* cancel_active interrupts the runs that were active when it began, one   *)
(* InterruptRun at a time, and then writes the session record.             *)
StopSessionCancel(c, s) ==
  /\ Idle(c)
  /\ \E t \in ThreadStatus : LookUp(s, t) /\ CanStop(s, t)
  /\ call' = [call EXCEPT ![c] =
                StopCall("cancelActive", "interrupting", s, ActiveRuns(s))]
  /\ UNCHANGED <<records, leases, cuts>>

InterruptNext(c) ==
  /\ At(c, "interrupting")
  /\ \E r \in call[c].todo :
       /\ PutStatus(r, Interrupted(r))
       /\ call' = [call EXCEPT ![c].todo = @ \ {r}, ![c].pc = "draining"]
  /\ UNCHANGED <<thread, ended, requested, checkpointed, leases, faults>>

(* Variant: the session record is written before the runs are interrupted. *)
PutStoppedSessionEarly(c) ==
  /\ At(c, "interrupting")
  /\ thread' = [thread EXCEPT ![call[c].session] = "stopped"]
  /\ call' = [call EXCEPT ![c] =
                StopCall("stop", "ending", call[c].session, {})]
  /\ UNCHANGED <<status, ended, requested, checkpointed, leases, faults>>

PutStoppedSession(c) ==
  /\ At(c, "interrupting")
  /\ call[c].todo = {}
  /\ thread' = [thread EXCEPT ![call[c].session] = "stopped"]
  /\ call' = [call EXCEPT ![c] =
                StopCall("stop", "ending", call[c].session, {})]
  /\ UNCHANGED <<status, ended, requested, checkpointed, leases, faults>>

(***************************************************************************)
(* Approvals and resuming                                                  *)
(***************************************************************************)

(* ResolvePermission of an allowing decision: refused when the session is  *)
(* closed, and done before the run is looked at.                           *)
ApproveRun(c, a) ==
  /\ Idle(c)
  /\ a \in requested
  /\ \E t \in ThreadStatus :
       LookUp(SessionOf[ApprovalOf[a]], t) /\ AcceptsRuns(t)
  /\ call' = [call EXCEPT ![c] = LoopCall("resuming", ApprovalOf[a], a)]
  /\ UNCHANGED <<records, leases, cuts>>

ResumeCheckpoint(c, r) ==
  /\ Idle(c)
  /\ r \in checkpointed
  /\ call' = [call EXCEPT ![c] = LoopCall("resuming", r, "checkpoint")]
  /\ UNCHANGED <<records, leases, faults>>

(* Variant: the resume does not look at the session again. *)
ResumeLoopUngated(c) ==
  LET allowed == status[call[c].run] \in Resumable IN
  /\ At(c, "resuming")
  /\ \/ allowed /\ PutStatus(call[c].run, "running") /\ GoTo(c, "acquiring")
     \/ ~allowed /\ UNCHANGED status /\ Return(c)
  /\ UNCHANGED <<thread, ended, requested, checkpointed, leases, faults>>

(* Variant: the run is marked running before the session is looked at. *)
ResumeLoopMarksFirst(c) ==
  LET r == call[c].run IN
  /\ At(c, "resuming")
  /\ \/ status[r] \in Resumable /\ PutStatus(r, "running")
     \/ status[r] \notin Resumable /\ UNCHANGED status
  /\ \E t \in ThreadStatus :
       LET allowed == status[r] \in Resumable /\ AcceptsRuns(t) IN
       /\ LookUp(SessionOf[r], t)
       /\ \/ allowed /\ GoTo(c, "acquiring")
          \/ ~allowed /\ Return(c)
  /\ UNCHANGED <<thread, ended, requested, checkpointed, leases, cuts>>

(* resumeLoopContinuation up to putRunStatus, or its early returns. *)
ResumeLoop(c) ==
  LET r == call[c].run IN
  /\ At(c, "resuming")
  /\ \/ /\ status[r] \notin Resumable
        /\ Return(c)
        /\ UNCHANGED <<status, misreads>>
     \/ /\ status[r] \in Resumable
        /\ \E t \in ThreadStatus :
             /\ LookUp(SessionOf[r], t)
             /\ \/ /\ AcceptsRuns(t)
                   /\ PutStatus(r, "running")
                   /\ GoTo(c, "acquiring")
                \/ ~AcceptsRuns(t) /\ Return(c) /\ UNCHANGED status
  /\ UNCHANGED <<thread, ended, requested, checkpointed, leases, cuts>>

(* A denial is recorded, then denyRun ends the run, whatever its status. *)
DenyApproval(c, a) ==
  /\ Idle(c)
  /\ a \in requested
  /\ call' = [call EXCEPT ![c] = RunCall("deny", "denying", ApprovalOf[a])]
  /\ UNCHANGED <<records, leases, faults>>

(* Variant: the denial ends the run but not its activity. *)
DenyRunOnly(c) ==
  /\ At(c, "denying")
  /\ PutStatus(call[c].run, "denied")
  /\ Return(c)
  /\ UNCHANGED <<thread, ended, requested, checkpointed, leases, faults>>

DenyRun(c) ==
  /\ At(c, "denying")
  /\ PutStatus(call[c].run, "denied")
  /\ GoTo(c, "draining")
  /\ UNCHANGED <<thread, ended, requested, checkpointed, leases, faults>>

(***************************************************************************)
(* Faults                                                                  *)
(***************************************************************************)

(* The context of a call is cancelled.  Every later store access of the    *)
(* call fails with it, failRun's and Release's included, and the lease is  *)
(* no longer renewed: the call ends where it is.                           *)
CancelContext(c) ==
  /\ cuts < MaxCuts
  /\ call[c].pc # "idle"
  /\ cuts' = cuts + 1
  /\ Return(c)
  /\ holders' = [r \in Runs |-> holders[r] \ {c}]
  /\ UNCHANGED <<records, lease, misreads>>

(* The process dies and a new Runtime opens the same store. *)
Crash ==
  /\ cuts < MaxCuts
  /\ cuts' = cuts + 1
  /\ call' = [c \in Callers |-> NoCall]
  /\ holders' = [r \in Runs |-> {}]
  /\ UNCHANGED <<records, lease, misreads>>

(* Nobody renews the lease: its time to live passes. *)
ExpireLease(r) ==
  /\ lease[r] # None
  /\ holders[r] = {}
  /\ lease' = [lease EXCEPT ![r] = None]
  /\ UNCHANGED <<records, holders, call, faults>>


(***************************************************************************)
(* The specification                                                       *)
(***************************************************************************)
CallerStep(c) ==
  \/ RecordSessionRun(c) \/ AcquireLease(c)
  \/ SuspendRun(c) \/ ReleaseLease(c)
  \/ CompleteDrainedSessionIfIdle(c) \/ EmitSessionEnded(c)
  \/ InterruptNext(c) \/ PutStoppedSession(c)
  \/ ResumeLoop(c) \/ DenyRun(c)

CallbackReturn(c) ==
  \/ EnterLoop(c)
  \/ \E outcome \in {"completed", "failed", "denied"} : FinishRun(c, outcome)
  \/ \E a \in Approvals : RequestApproval(c, a)

HostCall(c) ==
  \/ \E r \in Runs : SubmitRun(c, r) \/ InterruptRun(c, r) \/ ResumeCheckpoint(c, r)
  \/ \E s \in Sessions : StopSessionDrain(c, s) \/ StopSessionCancel(c, s)
  \/ \E a \in Approvals : ApproveRun(c, a) \/ DenyApproval(c, a)

Next ==
  \/ \E c \in Callers : CallerStep(c) \/ CallbackReturn(c) \/ HostCall(c)
  \/ \E c \in Callers : CancelContext(c)
  \/ Crash
  \/ \E r \in Runs : ExpireLease(r)

Spec == Init /\ [][Next]_vars

NoFault == cuts = 0

(* What the host owes a draining session: its suspended runs, which can no *)
(* longer be approved, are denied in the end.                              *)
DenySuspended(a) ==
  /\ status[ApprovalOf[a]] = "suspended"
  /\ thread[SessionOf[ApprovalOf[a]]] = "stopping"
  /\ \E c \in Callers : DenyApproval(c, a)

(* What it can do about a drain that a fault or a failed lookup has        *)
(* stranded: interrupt the runs of the session, the terminal ones too.     *)
InterruptStranded(r) ==
  /\ ~NoFault \/ misreads[SessionOf[r]] > 0
  /\ thread[SessionOf[r]] = "stopping"
  /\ \E c \in Callers : InterruptRun(c, r)

(* The owner goes on with the call it is in (there is only one between two *)
(* callbacks).  A callback returns, and the loop takes a bounded number of *)
(* turns; its return waits for the owner, who may be in another call again *)
(* and again, hence strong fairness.                                       *)
Fairness ==
  /\ WF_vars(\E c \in Callers : CallerStep(c))
  /\ \A c \in Callers : SF_vars(CallbackReturn(c))
  /\ \A a \in Approvals : SF_vars(DenySuspended(a))
  /\ \A r \in Runs : SF_vars(InterruptStranded(r))

FairSpec == Spec /\ Fairness

(***************************************************************************)
(* Properties                                                              *)
(***************************************************************************)

Call == [op : {None, "loop", "interrupt", "deny", "cancelActive", "stop"},
         pc : PCs, run : Runs \cup {None}, session : Sessions \cup {None},
         activity : Activities \cup {None}, todo : SUBSET Runs]

(* The type of every record: run.go's and session.go's status constants.   *)
TypeOK ==
  /\ status \in [Runs -> RunStatus]
  /\ thread \in [Sessions -> ThreadStatus]
  /\ ended \in [Sessions -> BOOLEAN]
  /\ requested \subseteq Approvals
  /\ checkpointed \subseteq Runs
  /\ lease \in [Runs -> Activities \cup {None}]
  /\ holders \in [Runs -> SUBSET Callers]
  /\ call \in [Callers -> Call]
  /\ cuts \in 0 .. MaxCuts
  /\ misreads \in [Sessions -> 0 .. MaxMisreads]

(* A draining session is never stranded: while it is stopping, a run of it *)
(* is active, or a call is on its way to completeDrainedSessionIfIdle for  *)
(* it.  Every path that ends a run has to pass there, and has to be able   *)
(* to read the record of the session there.                                *)
DrainNeverStranded ==
  NoFault => \A s \in Sessions : thread[s] = "stopping" /\ misreads[s] = 0 =>
    \/ ActiveRuns(s) # {}
    \/ \E c \in Callers : At(c, "draining") /\ call[c].session = s

(* Nothing runs in a stopped session, however it came to stop, whatever    *)
(* calls were in progress and whatever calls were cut short: cancel_active *)
(* interrupts every run before it writes the record, a drain waits, and no *)
(* submission or resume slips in between a check and a write.  The gate    *)
(* fails open, so this holds of the sessions whose record could always be  *)
(* read; SessionGate says what one failed lookup can do.                   *)
StoppedSessionRunsNothing ==
  \A r \in Runs :
    thread[SessionOf[r]] = "stopped" /\ misreads[SessionOf[r]] = 0 =>
      status[r] # "running"

(* A run recorded as running is driven by a call: no path leaves the       *)
(* record at running without a loop behind it.                             *)
Driven(r) ==
  \E c \in Callers : call[c].run = r /\ call[c].pc \in LoopSteps

RunningRunIsDriven ==
  NoFault => \A r \in Runs : status[r] = "running" => Driven(r)

(* The calls that share a live lease on a run all work for the activity    *)
(* that holds it, so no two activities loop on a run under a lease.        *)
LeaseAdmitsOneActivity ==
  \A r \in Runs : \A c \in holders[r] :
    /\ call[c].run = r
    /\ call[c].activity = lease[r]
    /\ lease[r] # None

(* session.ended is in the journal only of a session that is stopped for   *)
(* good, as long as its record can be read (recordSessionRun writes an     *)
(* active record over one it cannot), and of every stopped session unless  *)
(* a call is about to write it.                                            *)
EndedMeansStopped ==
  \A s \in Sessions :
    /\ ended[s] /\ misreads[s] = 0 => thread[s] = "stopped"
    /\ NoFault /\ thread[s] = "stopped" =>
         ended[s] \/ \E c \in Callers : At(c, "ending") /\ call[c].session = s

(* Handbook section 9: cancel_active immediately cancels all active runs   *)
(* of the session, so a stopped session has none.                          *)
StoppedSessionHasNoActiveRun ==
  \A s \in Sessions : thread[s] = "stopped" => ActiveRuns(s) = {}

(* The detailed lifecycle keeps the promise of SessionGate, each failed    *)
(* lookup counted there at the step it lets through.                       *)
Gate == INSTANCE SessionGate WITH
  phase <- [s \in Sessions |->
             CASE thread[s] = "stopping" -> "draining"
               [] thread[s] = "stopped"  -> "closed"
               [] OTHER                  -> "open"],
  unread <- misreads,
  running <- {r \in Runs : status[r] = "running"}

ImplementsGate == Gate!Spec

(* The calls take the lease on each run, share it, give it back and lose   *)
(* it as RunLock allows, which RunLease is shown to implement; and it is   *)
(* the call that moves which takes or gives: the release of a call whose   *)
(* lease has ended takes it from nobody else.                              *)
Lock(r) == INSTANCE RunLock WITH
  Calls   <- Callers,
  holder  <- lease[r],
  keepers <- holders[r]

LeasesAreLocks ==
  /\ \A r \in Runs : Lock(r)!Init
  /\ [][\A r \in Runs :
          \/ UNCHANGED Lock(r)!vars
          \/ \E c \in Callers :
               /\ call'[c] # call[c]
               /\ Lock(r)!GiveBack(c) \/ \E a \in Activities : Lock(r)!Take(c, a)
          \/ \E C \in SUBSET Callers : Lock(r)!Lose(C)
          \/ Lock(r)!Lapse]_vars

(* A drain ends: StopSession(drain) marks the session stopped once its     *)
(* last active run is terminal, and InterruptRun completes what a          *)
(* cancelled context, a crash or a failed lookup has left behind; unless a *)
(* lookup that failed has reopened the session.                            *)
Reopened(s) == misreads[s] > 0 /\ thread[s] = "active"

DrainCompletes ==
  \A s \in Sessions :
    thread[s] = "stopping" ~> thread[s] = "stopped" \/ Reopened(s)

================================================================================
