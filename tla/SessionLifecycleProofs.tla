------------------------ MODULE SessionLifecycleProofs ------------------------
(***************************************************************************)
(* The safety of SessionLifecycle for any runs, sessions, approvals and    *)
(* number of calls: the inductive invariant IInv, the theorems that every  *)
(* safety property of the runs follows from it, and the refinement of      *)
(* SessionGate.                                                            *)
(***************************************************************************)
EXTENDS SessionLifecycle, TLAPS

(* What a call of each operation may hold, at each of its places. *)
CallShape(k) ==
  \/ k = NoCall
  \/ /\ k.op = "loop"
     /\ k.pc \in LoopSteps \cup {"resuming", "draining", "ending", "releasing"}
     /\ k.run \in Runs
     /\ k.session = SessionOf[k.run]
     /\ k.activity \in Activities
  \/ /\ k.op \in {"interrupt", "deny"}
     /\ k.pc \in {"denying", "draining", "ending"}
     /\ k.run \in Runs
     /\ k.session = SessionOf[k.run]
  \/ /\ k.op = "cancelActive"
     /\ k.pc \in {"interrupting", "draining", "ending"}
     /\ k.session \in Sessions
     /\ \A r \in k.todo : SessionOf[r] = k.session
  \/ /\ k.op = "stop"
     /\ k.pc = "ending"
     /\ k.session \in Sessions

CallsOK == \A c \in Callers : CallShape(call[c])

(* The owner is in one call at a time. *)
OneOwner ==
  \A c, d \in Callers :
    call[c].pc \notin {"idle"} \cup Callback
      /\ call[d].pc \notin {"idle"} \cup Callback => c = d

(* No run becomes active while cancel_active interrupts the active ones. *)
StopCovers ==
  \A c \in Callers : call[c].op = "cancelActive" =>
    \A r \in Runs : /\ SessionOf[r] = call[c].session
                    /\ status[r] \in Active
                    => r \in call[c].todo

(* emitSessionEnded runs after the session record says stopped. *)
EndingStopped ==
  \A c \in Callers : call[c].pc = "ending" => thread[call[c].session] = "stopped"

(* A lease is held by loops between Acquire and Release. *)
HoldersLoop ==
  \A r \in Runs : \A c \in holders[r] :
    /\ call[c].op = "loop"
    /\ call[c].run = r
    /\ call[c].activity = lease[r]
    /\ lease[r] # None
    /\ call[c].pc \in {"packet", "turn", "suspending", "draining", "ending",
                       "releasing"}

IInv ==
  /\ TypeOK
  /\ CallsOK
  /\ OneOwner
  /\ StopCovers
  /\ EndingStopped
  /\ HoldersLoop
  /\ DrainNeverStranded
  /\ StoppedSessionRunsNothing
  /\ RunningRunIsDriven
  /\ EndedMeansStopped

(***************************************************************************)
(* Calls: what GoTo, Return and a new call leave in the table of calls     *)
(***************************************************************************)
Free == {"idle"} \cup Callback

(* Only the call of c may have changed. *)
Kept(c) ==
  /\ call' \in [Callers -> Call]
  /\ \A d \in Callers : d # c => call'[d] = call[d]

(* The call of c has gone to another place. *)
Moved(c, pc) ==
  /\ Kept(c)
  /\ call'[c].pc = pc
  /\ call'[c].op = call[c].op
  /\ call'[c].run = call[c].run
  /\ call'[c].session = call[c].session
  /\ call'[c].activity = call[c].activity
  /\ call'[c].todo = call[c].todo

Returned(c) ==
  /\ Kept(c)
  /\ call'[c].pc = "idle"
  /\ call'[c] = NoCall

(* No other call is between two callbacks. *)
Alone(c) ==
  \A d \in Callers : d # c => /\ call[d].pc \in Free
                              /\ call[d].op \in {None, "loop"}

LEMMA GoToCall ==
  ASSUME call \in [Callers -> Call], NEW c \in Callers, NEW p \in PCs,
         GoTo(c, p)
  PROVE  Moved(c, p)
BY DEF GoTo, Call, Moved, Kept

LEMMA SetCall ==
  ASSUME call \in [Callers -> Call], NEW c \in Callers, NEW k \in Call,
         call' = [call EXCEPT ![c] = k]
  PROVE  Kept(c) /\ call'[c] = k
BY DEF Kept

LEMMA NoCallType == NoCall \in Call
BY DEF NoCall, Call, PCs, LoopSteps

LEMMA ReturnCall ==
  ASSUME call \in [Callers -> Call], NEW c \in Callers, Return(c)
  PROVE  Returned(c)
BY NoCallType DEF Return, Returned, Kept, NoCall

LEMMA ContinueCall ==
  ASSUME call \in [Callers -> Call], NEW c \in Callers, Continue(c)
  PROVE  \/ call[c].op = "loop" /\ Moved(c, "releasing")
         \/ call[c].op = "cancelActive" /\ Moved(c, "interrupting")
         \/ call[c].op \notin {"loop", "cancelActive"} /\ Returned(c)
<1>1. "releasing" \in PCs /\ "interrupting" \in PCs
  BY DEF PCs
<1>2. CASE call[c].op = "loop"
  BY <1>1, <1>2, GoToCall DEF Continue
<1>3. CASE call[c].op = "cancelActive"
  BY <1>1, <1>3, GoToCall DEF Continue
<1>4. CASE call[c].op \notin {"loop", "cancelActive"}
  BY <1>4, ReturnCall DEF Continue
<1> QED
  BY <1>2, <1>3, <1>4

(* While the owner is in call c, or starts it, every other call is in a    *)
(* callback of a loop or is idle.                                          *)
LEMMA OwnerIsAlone ==
  ASSUME CallsOK, OneOwner, NEW c \in Callers,
         call[c].pc \notin Free \/ OwnerFree
  PROVE  Alone(c)
<1> SUFFICES ASSUME NEW d \in Callers, d # c
             PROVE  call[d].pc \in Free /\ call[d].op \in {None, "loop"}
  BY DEF Alone
<1>1. call[d].pc \in Free
  BY DEF OneOwner, OwnerFree, Free
<1>2. CallShape(call[d])
  BY DEF CallsOK
<1> QED
  BY <1>1, <1>2 DEF CallShape, NoCall, Free, Callback

LEMMA OneOwnerKept ==
  ASSUME NEW c \in Callers, Kept(c), Alone(c)
  PROVE  OneOwner'
BY DEF OneOwner, Kept, Alone, Free

LEMMA CallsKept ==
  ASSUME CallsOK, NEW c \in Callers, Kept(c), CallShape(call'[c])
  PROVE  CallsOK'
BY DEF CallsOK, Kept

(* A lookup is counted when it fails, and answers with the record else.    *)
MisreadsGrow ==
  /\ misreads' \in [Sessions -> 0 .. MaxMisreads]
  /\ \A s \in Sessions : misreads'[s] = 0 => misreads[s] = 0

LEMMA LookUpAnswers ==
  ASSUME misreads \in [Sessions -> 0 .. MaxMisreads],
         NEW s \in Sessions, NEW t, LookUp(s, t)
  PROVE  /\ MisreadsGrow
         /\ misreads'[s] = 0 => t = thread[s]
         /\ t \in {thread[s], None}
<1>1. CASE t = thread[s] /\ UNCHANGED misreads
  BY <1>1 DEF MisreadsGrow
<1>2. CASE /\ t = None
           /\ misreads[s] < MaxMisreads
           /\ misreads' = [misreads EXCEPT ![s] = @ + 1]
  BY <1>2, LifecycleAssumption DEF MisreadsGrow
<1> QED
  BY <1>1, <1>2 DEF LookUp

LEMMA InitIInv == Init => IInv
<1> SUFFICES ASSUME Init PROVE IInv
  OBVIOUS
<1>1. TypeOK
  BY LifecycleAssumption, NoCallType
  DEF Init, TypeOK, Activities, RunStatus, ThreadStatus
<1>2. CallsOK /\ OneOwner /\ StopCovers /\ EndingStopped
  BY DEF Init, CallsOK, CallShape, OneOwner, StopCovers,
         EndingStopped, NoCall, Free, None
<1>3. HoldersLoop
  BY DEF Init, HoldersLoop
<1>4. DrainNeverStranded /\ StoppedSessionRunsNothing /\ EndedMeansStopped
  BY LifecycleAssumption
  DEF None, Init, DrainNeverStranded, StoppedSessionRunsNothing, EndedMeansStopped
<1>5. RunningRunIsDriven
  BY DEF Init, RunningRunIsDriven, None
<1> QED
  BY <1>1, <1>2, <1>3, <1>4, <1>5 DEF IInv

LEMMA RecordSessionRunStep ==
  ASSUME IInv, NEW c \in Callers, RecordSessionRun(c)
  PROVE  IInv'
<1>0. /\ TypeOK /\ CallsOK /\ OneOwner /\ call \in [Callers -> Call]
      /\ status \in [Runs -> RunStatus] /\ thread \in [Sessions -> ThreadStatus]
      /\ ended \in [Sessions -> BOOLEAN] /\ lease \in [Runs -> Activities \cup {None}]
      /\ holders \in [Runs -> SUBSET Callers] /\ misreads \in [Sessions -> 0 .. MaxMisreads]
  BY DEF IInv, TypeOK
<1>1. /\ call[c].pc = "recording"
      /\ call[c].op = "loop"
      /\ call[c].run \in Runs
      /\ call[c].session = SessionOf[call[c].run]
      /\ call[c].activity \in Activities
  BY <1>0 DEF CallsOK, CallShape, NoCall, RecordSessionRun, At
<1>2. Alone(c)
  BY <1>0, <1>1, OwnerIsAlone DEF Free, Callback
<1>3. Moved(c, "acquiring")
  BY <1>0, GoToCall DEF RecordSessionRun, PCs, LoopSteps
<1>4. Kept(c)
  BY <1>3 DEF Moved
<1>read. /\ MisreadsGrow
       /\ \/ thread' = [thread EXCEPT ![call[c].session] =
                          IF @ = None THEN "active" ELSE @]
          \/ /\ misreads'[call[c].session] # 0
             /\ thread' = [thread EXCEPT ![call[c].session] = "active"]
  BY <1>0, <1>1, LookUpAnswers, LifecycleAssumption DEF RecordSessionRun
<1>5. TypeOK'
  BY <1>read, <1>0, <1>1, <1>4, LifecycleAssumption DEF RecordSessionRun, leases,
     MisreadsGrow, Kept, TypeOK, ThreadStatus
<1>6. CallsOK'
  <2>1. CallShape(call'[c])
    BY <1>1, <1>3 DEF CallShape, LoopSteps, Moved
  <2> QED
    BY <1>0, <1>4, <2>1, CallsKept
<1>7. OneOwner'
  BY <1>2, <1>4, OneOwnerKept
<1>8. StopCovers'
  BY <1>1, <1>2, <1>3 DEF None, StopCovers, Alone, Kept, Moved
<1>9. EndingStopped'
  BY <1>2, <1>3 DEF EndingStopped, Alone, Kept, Moved, Free, Callback
<1>10. HoldersLoop'
  BY <1>0, <1>1, <1>4 DEF RecordSessionRun, leases, IInv, HoldersLoop, Kept
<1>11. DrainNeverStranded'
  BY <1>read, <1>4 DEF RecordSessionRun, MisreadsGrow, IInv, DrainNeverStranded, NoFault,
     ActiveRuns, At, Kept
<1>12. StoppedSessionRunsNothing'
  BY <1>read, LifecycleAssumption DEF RecordSessionRun, MisreadsGrow, IInv, StoppedSessionRunsNothing
<1>13. RunningRunIsDriven'
  BY <1>3 DEF RecordSessionRun, faults, IInv, RunningRunIsDriven, NoFault,
     Driven, LoopSteps, Kept, Moved
<1>14. EndedMeansStopped'
  BY <1>read, <1>4 DEF RecordSessionRun, MisreadsGrow, IInv, None, EndedMeansStopped,
     NoFault, At, Kept
<1> QED
  BY <1>5, <1>6, <1>7, <1>8, <1>9, <1>10, <1>11, <1>12, <1>13, <1>14 DEF IInv

LEMMA AcquireLeaseStep ==
  ASSUME IInv, NEW c \in Callers, AcquireLease(c)
  PROVE  IInv'
<1>0. /\ TypeOK /\ CallsOK /\ OneOwner /\ call \in [Callers -> Call]
      /\ status \in [Runs -> RunStatus] /\ thread \in [Sessions -> ThreadStatus]
      /\ ended \in [Sessions -> BOOLEAN] /\ lease \in [Runs -> Activities \cup {None}]
      /\ holders \in [Runs -> SUBSET Callers] /\ misreads \in [Sessions -> 0 .. MaxMisreads]
  BY DEF IInv, TypeOK
<1>1. /\ call[c].pc = "acquiring"
      /\ call[c].op = "loop"
      /\ call[c].run \in Runs
      /\ call[c].session = SessionOf[call[c].run]
      /\ call[c].activity \in Activities
  BY <1>0 DEF CallsOK, CallShape, NoCall, AcquireLease, At
<1>2. Alone(c)
  BY <1>0, <1>1, OwnerIsAlone DEF Free, Callback
<1>3. \/ /\ Moved(c, "packet")
         /\ status' = status
         /\ lease[call[c].run] \in {None, call[c].activity}
         /\ lease' = [lease EXCEPT ![call[c].run] = call[c].activity]
         /\ holders' = [holders EXCEPT ![call[c].run] = @ \cup {c}]
      \/ /\ Moved(c, "draining")
         /\ PutStatus(call[c].run, "failed")
         /\ UNCHANGED leases
  BY <1>0, GoToCall DEF AcquireLease, PCs, LoopSteps
<1>4. Kept(c)
  BY <1>3 DEF Moved
<1>5. TypeOK'
  BY <1>0, <1>1, <1>4 DEF AcquireLease, leases, faults, PutStatus, Kept,
     TypeOK, RunStatus, Terminal
<1>6. CallsOK'
  <2>1. CallShape(call'[c])
    BY <1>1, <1>3 DEF CallShape, LoopSteps, Moved
  <2> QED
    BY <1>0, <1>4, <2>1, CallsKept
<1>7. OneOwner'
  BY <1>2, <1>4, OneOwnerKept
<1>8. StopCovers'
  BY <1>1, <1>2, <1>3 DEF None, StopCovers, Alone, Kept, Moved
<1>9. EndingStopped'
  BY <1>2, <1>3 DEF EndingStopped, Alone, Kept, Moved, Free, Callback
<1>10. HoldersLoop'
  <2>1. HoldersLoop /\ None \notin Activities
    BY LifecycleAssumption DEF IInv, Activities, None
  <2>2. CASE UNCHANGED leases
    BY <1>0, <1>3, <2>1, <2>2
    DEF HoldersLoop, Alone, Kept, Moved, leases
  <2>3. CASE /\ Moved(c, "packet")
             /\ lease[call[c].run] \in {None, call[c].activity}
             /\ lease' = [lease EXCEPT ![call[c].run] = call[c].activity]
             /\ holders' = [holders EXCEPT ![call[c].run] = @ \cup {c}]
    <3> SUFFICES ASSUME NEW r \in Runs, NEW d \in holders'[r]
                 PROVE  /\ call'[d].op = "loop"
                        /\ call'[d].run = r
                        /\ call'[d].activity = lease'[r]
                        /\ lease'[r] # None
                        /\ call'[d].pc \in {"packet", "turn", "suspending",
                                            "draining", "ending", "releasing"}
      BY DEF HoldersLoop
    <3>1. CASE d = c
      <4>1. c \notin holders[r]
        BY <1>1, <2>1 DEF HoldersLoop
      <4>2. r = call[c].run
        BY <2>3, <3>1, <4>1
      <4> QED
        BY <1>0, <1>1, <2>1, <2>3, <3>1, <4>2 DEF Moved
    <3>2. CASE d # c
      <4>1. d \in holders[r] /\ d \in Callers
        BY <1>0, <2>3, <3>2
      <4>2. /\ call[d].op = "loop" /\ call[d].run = r
            /\ call[d].activity = lease[r] /\ lease[r] # None
            /\ call[d].pc \in {"packet", "turn", "suspending", "draining",
                               "ending", "releasing"}
        BY <2>1, <4>1 DEF HoldersLoop
      <4>3. lease'[r] = lease[r]
        BY <2>3, <4>2
      <4> QED
        BY <1>4, <3>2, <4>1, <4>2, <4>3 DEF Kept
    <3> QED
      BY <3>1, <3>2
  <2> QED
    BY <1>3, <2>2, <2>3
<1>11. DrainNeverStranded'
  BY <1>0, <1>1, <1>3 DEF AcquireLease, faults, PutStatus, IInv,
     DrainNeverStranded, NoFault, ActiveRuns, At, Kept, Moved
<1>12. StoppedSessionRunsNothing'
  BY <1>0 DEF AcquireLease, faults, PutStatus, IInv, StoppedSessionRunsNothing
<1>13. RunningRunIsDriven'
  BY <1>0, <1>3 DEF AcquireLease, faults, PutStatus, IInv, RunningRunIsDriven,
     NoFault, Driven, LoopSteps, Kept, Moved
<1>14. EndedMeansStopped'
  BY <1>4 DEF AcquireLease, faults, IInv, EndedMeansStopped, NoFault, At, Kept
<1> QED
  BY <1>5, <1>6, <1>7, <1>8, <1>9, <1>10, <1>11, <1>12, <1>13, <1>14 DEF IInv

LEMMA SuspendRunStep ==
  ASSUME IInv, NEW c \in Callers, SuspendRun(c)
  PROVE  IInv'
<1>0. /\ TypeOK /\ CallsOK /\ OneOwner /\ call \in [Callers -> Call]
      /\ status \in [Runs -> RunStatus] /\ thread \in [Sessions -> ThreadStatus]
      /\ ended \in [Sessions -> BOOLEAN] /\ lease \in [Runs -> Activities \cup {None}]
      /\ holders \in [Runs -> SUBSET Callers] /\ misreads \in [Sessions -> 0 .. MaxMisreads]
  BY DEF IInv, TypeOK
<1>1. /\ call[c].pc = "suspending"
      /\ call[c].op = "loop"
      /\ call[c].run \in Runs
      /\ call[c].session = SessionOf[call[c].run]
      /\ call[c].activity \in Activities
  BY <1>0 DEF CallsOK, CallShape, NoCall, SuspendRun, At
<1>2. Alone(c)
  BY <1>0, <1>1, OwnerIsAlone DEF Free, Callback
<1>3. Moved(c, "releasing")
  BY <1>0, GoToCall DEF SuspendRun, PCs
<1>4. Kept(c)
  BY <1>3 DEF Moved
<1>5. TypeOK'
  BY <1>0, <1>1, <1>4 DEF SuspendRun, leases, faults, PutStatus, Kept, TypeOK,
     RunStatus, Active
<1>6. CallsOK'
  <2>1. CallShape(call'[c])
    BY <1>1, <1>3 DEF CallShape, Moved
  <2> QED
    BY <1>0, <1>4, <2>1, CallsKept
<1>7. OneOwner'
  BY <1>2, <1>4, OneOwnerKept
<1>8. StopCovers'
  BY <1>1, <1>2, <1>3 DEF None, StopCovers, Alone, Kept, Moved
<1>9. EndingStopped'
  BY <1>2, <1>3 DEF EndingStopped, Alone, Kept, Moved, Free, Callback
<1>10. HoldersLoop'
  BY <1>0, <1>3 DEF SuspendRun, leases, IInv, HoldersLoop, Kept, Moved
<1>11. DrainNeverStranded'
  BY <1>4 DEF SuspendRun, faults, PutStatus, IInv, DrainNeverStranded,
     NoFault, ActiveRuns, Active, At, Kept
<1>12. StoppedSessionRunsNothing'
  BY DEF SuspendRun, faults, PutStatus, IInv, StoppedSessionRunsNothing
<1>13. RunningRunIsDriven'
  BY <1>0, <1>4 DEF SuspendRun, faults, PutStatus, IInv, RunningRunIsDriven,
     NoFault, Driven, Kept
<1>14. EndedMeansStopped'
  BY <1>4 DEF SuspendRun, faults, IInv, EndedMeansStopped, NoFault, At, Kept
<1> QED
  BY <1>5, <1>6, <1>7, <1>8, <1>9, <1>10, <1>11, <1>12, <1>13, <1>14 DEF IInv

LEMMA ReleaseLeaseStep ==
  ASSUME IInv, NEW c \in Callers, ReleaseLease(c)
  PROVE  IInv'
<1>0. /\ TypeOK /\ CallsOK /\ OneOwner /\ call \in [Callers -> Call]
      /\ status \in [Runs -> RunStatus] /\ thread \in [Sessions -> ThreadStatus]
      /\ ended \in [Sessions -> BOOLEAN] /\ lease \in [Runs -> Activities \cup {None}]
      /\ holders \in [Runs -> SUBSET Callers] /\ misreads \in [Sessions -> 0 .. MaxMisreads]
  BY DEF IInv, TypeOK
<1>1. /\ call[c].pc = "releasing"
      /\ call[c].op = "loop"
      /\ call[c].run \in Runs
      /\ call[c].session = SessionOf[call[c].run]
      /\ call[c].activity \in Activities
  BY <1>0 DEF CallsOK, CallShape, NoCall, ReleaseLease, At
<1>2. Alone(c)
  BY <1>0, <1>1, OwnerIsAlone DEF Free, Callback
<1>3. Returned(c)
  BY <1>0, ReturnCall DEF ReleaseLease
<1>4. Kept(c)
  BY <1>3 DEF Returned
<1>5. TypeOK'
  BY <1>0, <1>4 DEF ReleaseLease, records, leases, faults, Kept, TypeOK
<1>6. CallsOK'
  <2>1. CallShape(call'[c])
    BY <1>3 DEF CallShape, Returned
  <2> QED
    BY <1>0, <1>4, <2>1, CallsKept
<1>7. OneOwner'
  BY <1>2, <1>4, OneOwnerKept
<1>8. StopCovers'
  BY <1>2, <1>3 DEF None, StopCovers, Alone, Kept, Returned, NoCall
<1>9. EndingStopped'
  BY <1>2, <1>3 DEF EndingStopped, Alone, Kept, Returned, Free, Callback
<1>10. HoldersLoop'
  BY <1>0, <1>4 DEF ReleaseLease, leases, IInv, HoldersLoop, Kept
<1>11. DrainNeverStranded'
  BY <1>4 DEF ReleaseLease, records, faults, IInv, None, DrainNeverStranded,
     NoFault, ActiveRuns, At, Kept
<1>12. StoppedSessionRunsNothing'
  BY DEF ReleaseLease, faults, records, IInv, StoppedSessionRunsNothing
<1>13. RunningRunIsDriven'
  BY <1>1, <1>4 DEF ReleaseLease, records, faults, IInv, RunningRunIsDriven,
     NoFault, Driven, LoopSteps, Kept
<1>14. EndedMeansStopped'
  BY <1>4 DEF ReleaseLease, records, faults, IInv, EndedMeansStopped, NoFault,
     At, Kept
<1> QED
  BY <1>5, <1>6, <1>7, <1>8, <1>9, <1>10, <1>11, <1>12, <1>13, <1>14 DEF IInv

LEMMA DenyRunStep ==
  ASSUME IInv, NEW c \in Callers, DenyRun(c)
  PROVE  IInv'
<1>0. /\ TypeOK /\ CallsOK /\ OneOwner /\ call \in [Callers -> Call]
      /\ status \in [Runs -> RunStatus] /\ thread \in [Sessions -> ThreadStatus]
      /\ ended \in [Sessions -> BOOLEAN] /\ lease \in [Runs -> Activities \cup {None}]
      /\ holders \in [Runs -> SUBSET Callers] /\ misreads \in [Sessions -> 0 .. MaxMisreads]
  BY DEF IInv, TypeOK
<1>1. /\ call[c].pc = "denying"
      /\ call[c].op \in {"interrupt", "deny"}
      /\ call[c].run \in Runs
      /\ call[c].session = SessionOf[call[c].run]
  BY <1>0 DEF CallsOK, CallShape, NoCall, DenyRun, At, LoopSteps
<1>2. Alone(c)
  BY <1>0, <1>1, OwnerIsAlone DEF Free, Callback
<1>3. Moved(c, "draining")
  BY <1>0, GoToCall DEF DenyRun, PCs
<1>4. Kept(c)
  BY <1>3 DEF Moved
<1>5. TypeOK'
  BY <1>0, <1>1, <1>4 DEF DenyRun, leases, faults, PutStatus, Kept, TypeOK,
     RunStatus, Terminal
<1>6. CallsOK'
  <2>1. CallShape(call'[c])
    BY <1>1, <1>3 DEF CallShape, Moved
  <2> QED
    BY <1>0, <1>4, <2>1, CallsKept
<1>7. OneOwner'
  BY <1>2, <1>4, OneOwnerKept
<1>8. StopCovers'
  BY <1>1, <1>2, <1>3 DEF None, StopCovers, Alone, Kept, Moved
<1>9. EndingStopped'
  BY <1>2, <1>3 DEF EndingStopped, Alone, Kept, Moved, Free, Callback
<1>10. HoldersLoop'
  BY <1>0, <1>1, <1>4 DEF DenyRun, leases, IInv, HoldersLoop, Kept
<1>11. DrainNeverStranded'
  BY <1>1, <1>3 DEF DenyRun, faults, PutStatus, IInv, DrainNeverStranded,
     NoFault, ActiveRuns, At, Kept, Moved
<1>12. StoppedSessionRunsNothing'
  BY DEF DenyRun, faults, PutStatus, IInv, StoppedSessionRunsNothing
<1>13. RunningRunIsDriven'
  BY <1>0, <1>4 DEF DenyRun, faults, PutStatus, IInv, RunningRunIsDriven,
     NoFault, Driven, Kept
<1>14. EndedMeansStopped'
  BY <1>4 DEF DenyRun, faults, IInv, EndedMeansStopped, NoFault, At, Kept
<1> QED
  BY <1>5, <1>6, <1>7, <1>8, <1>9, <1>10, <1>11, <1>12, <1>13, <1>14 DEF IInv

LEMMA ResumeLoopStep ==
  ASSUME IInv, NEW c \in Callers, ResumeLoop(c)
  PROVE  IInv'
<1>0. /\ TypeOK /\ CallsOK /\ OneOwner /\ call \in [Callers -> Call]
      /\ status \in [Runs -> RunStatus] /\ thread \in [Sessions -> ThreadStatus]
      /\ ended \in [Sessions -> BOOLEAN] /\ lease \in [Runs -> Activities \cup {None}]
      /\ holders \in [Runs -> SUBSET Callers] /\ misreads \in [Sessions -> 0 .. MaxMisreads]
  BY DEF IInv, TypeOK
<1>1. /\ call[c].pc = "resuming"
      /\ call[c].op = "loop"
      /\ call[c].run \in Runs
      /\ call[c].session = SessionOf[call[c].run]
      /\ call[c].activity \in Activities
  BY <1>0 DEF CallsOK, CallShape, NoCall, ResumeLoop, At
<1>2. Alone(c)
  BY <1>0, <1>1, OwnerIsAlone DEF Free, Callback
<1>3. \/ /\ Moved(c, "acquiring")
         /\ PutStatus(call[c].run, "running")
      \/ Returned(c) /\ status' = status
  BY <1>0, GoToCall, ReturnCall DEF ResumeLoop, PCs, LoopSteps
<1>4. Kept(c)
  BY <1>3 DEF Moved, Returned
<1>read. MisreadsGrow
  BY <1>0, <1>1, LookUpAnswers, LifecycleAssumption DEF ResumeLoop, MisreadsGrow
<1>gate. \/ status' = status
         \/ /\ status' = [status EXCEPT ![call[c].run] = "running"]
            /\ misreads'[SessionOf[call[c].run]] = 0 =>
                 thread[SessionOf[call[c].run]] # "stopped"
  BY <1>0, <1>1, LookUpAnswers, LifecycleAssumption
  DEF ResumeLoop, AcceptsRuns, PutStatus
<1>same. thread' = thread
  BY DEF ResumeLoop
<1>5. TypeOK'
  BY <1>read, <1>0, <1>4 DEF ResumeLoop, leases, MisreadsGrow, PutStatus, Kept, TypeOK,
     RunStatus, Active
<1>6. CallsOK'
  <2>1. CallShape(call'[c])
    BY <1>1, <1>3 DEF CallShape, LoopSteps, Moved, Returned
  <2> QED
    BY <1>0, <1>4, <2>1, CallsKept
<1>7. OneOwner'
  BY <1>2, <1>4, OneOwnerKept
<1>8. StopCovers'
  BY <1>1, <1>2, <1>3 DEF None, StopCovers, Alone, Kept, Moved, Returned,
     NoCall
<1>9. EndingStopped'
  BY <1>2, <1>3 DEF EndingStopped, Alone, Kept, Moved, Returned, Free,
     Callback
<1>10. HoldersLoop'
  BY <1>0, <1>1, <1>4 DEF ResumeLoop, leases, IInv, HoldersLoop, Kept
<1>11. DrainNeverStranded'
  BY <1>read, <1>0, <1>4 DEF ResumeLoop, MisreadsGrow, PutStatus, IInv, DrainNeverStranded,
     NoFault, ActiveRuns, Active, At, Kept
<1>12. StoppedSessionRunsNothing'
  BY <1>0, <1>1, <1>read, <1>gate, <1>same, LifecycleAssumption
  DEF MisreadsGrow, IInv, StoppedSessionRunsNothing
<1>13. RunningRunIsDriven'
  BY <1>0, <1>1, <1>3, <1>4 DEF ResumeLoop, faults, PutStatus, IInv,
     RunningRunIsDriven, NoFault, Driven, LoopSteps, Kept, Moved
<1>14. EndedMeansStopped'
  BY <1>read, <1>4 DEF ResumeLoop, MisreadsGrow, IInv, EndedMeansStopped, NoFault, At, Kept
<1> QED
  BY <1>5, <1>6, <1>7, <1>8, <1>9, <1>10, <1>11, <1>12, <1>13, <1>14 DEF IInv

LEMMA CompleteDrainedSessionIfIdleStep ==
  ASSUME IInv, NEW c \in Callers, CompleteDrainedSessionIfIdle(c)
  PROVE  IInv'
<1>0. /\ TypeOK /\ CallsOK /\ OneOwner /\ call \in [Callers -> Call]
      /\ status \in [Runs -> RunStatus] /\ thread \in [Sessions -> ThreadStatus]
      /\ ended \in [Sessions -> BOOLEAN] /\ lease \in [Runs -> Activities \cup {None}]
      /\ holders \in [Runs -> SUBSET Callers] /\ misreads \in [Sessions -> 0 .. MaxMisreads]
  BY DEF IInv, TypeOK
<1>1. /\ call[c].pc = "draining"
      /\ call[c].op \in {"loop", "interrupt", "deny", "cancelActive"}
      /\ call[c].op = "loop" => /\ call[c].run \in Runs
                             /\ call[c].session = SessionOf[call[c].run]
                             /\ call[c].activity \in Activities
      /\ call[c].op \in {"interrupt", "deny"} =>
           call[c].run \in Runs /\ call[c].session = SessionOf[call[c].run]
      /\ call[c].op = "cancelActive" => \A r \in call[c].todo : SessionOf[r] = call[c].session
      /\ call[c].session \in Sessions
  BY <1>0, LifecycleAssumption DEF CallsOK, CallShape, NoCall,
     CompleteDrainedSessionIfIdle, At
<1>2. Alone(c)
  BY <1>0, <1>1, OwnerIsAlone DEF Free, Callback
<1>3. \/ /\ Moved(c, "ending")
         /\ thread[call[c].session] = "stopping"
         /\ ActiveRuns(call[c].session) = {}
         /\ thread' = [thread EXCEPT ![call[c].session] = "stopped"]
      \/ /\ \/ misreads'[call[c].session] # 0
            \/ ~(thread[call[c].session] = "stopping" /\ ActiveRuns(call[c].session) = {})
         /\ thread' = thread
         /\ \/ call[c].op = "loop" /\ Moved(c, "releasing")
            \/ call[c].op = "cancelActive" /\ Moved(c, "interrupting")
            \/ call[c].op \notin {"loop", "cancelActive"} /\ Returned(c)
  BY <1>0, <1>1, GoToCall, ContinueCall, LookUpAnswers
  DEF CompleteDrainedSessionIfIdle, PCs, None
<1>4. Kept(c)
  BY <1>3 DEF Moved, Returned
<1>read. MisreadsGrow
  BY <1>0, <1>1, LookUpAnswers DEF CompleteDrainedSessionIfIdle
<1>5. TypeOK'
  BY <1>read, <1>0, <1>4 DEF CompleteDrainedSessionIfIdle, leases, MisreadsGrow, Kept,
     TypeOK, ThreadStatus
<1>6. CallsOK'
  <2>1. CallShape(call'[c])
    BY <1>1, <1>3 DEF CallShape, Moved, Returned
  <2> QED
    BY <1>0, <1>4, <2>1, CallsKept
<1>7. OneOwner'
  BY <1>2, <1>4, OneOwnerKept
<1>8. StopCovers'
  BY <1>3 DEF CompleteDrainedSessionIfIdle, IInv, None, StopCovers, Kept,
     Moved, Returned, NoCall
<1>9. EndingStopped'
  BY <1>0, <1>1, <1>2, <1>3 DEF EndingStopped, Alone, Kept, Moved, Returned,
     Free, Callback
<1>10. HoldersLoop'
  BY <1>0, <1>3, <1>4 DEF CompleteDrainedSessionIfIdle, leases, IInv,
     HoldersLoop, Kept, Moved
<1>11. DrainNeverStranded'
  <2>1. status' = status /\ NoFault' = NoFault /\ DrainNeverStranded
    BY DEF CompleteDrainedSessionIfIdle, NoFault, IInv
  <2>2. ASSUME NEW s \in Sessions, NoFault', thread'[s] = "stopping",
               misreads'[s] = 0, ActiveRuns(s)' = {}
        PROVE  \E d \in Callers : At(d, "draining")' /\ call'[d].session = s
    <3>1. thread[s] = "stopping" /\ misreads[s] = 0 /\ ActiveRuns(s) = {}
      BY <1>0, <1>3, <1>read, <2>1, <2>2 DEF MisreadsGrow, ActiveRuns
    <3>2. PICK d \in Callers : At(d, "draining") /\ call[d].session = s
      BY <2>1, <2>2, <3>1 DEF DrainNeverStranded
    <3>3. s # call[c].session
      BY <1>0, <1>3, <2>2, <3>1
    <3> QED
      BY <1>4, <3>2, <3>3 DEF At, Kept
  <2> QED
    BY <2>2 DEF DrainNeverStranded, At
<1>12. StoppedSessionRunsNothing'
  BY <1>read, <1>0, LifecycleAssumption DEF CompleteDrainedSessionIfIdle, MisreadsGrow, IInv,
     StoppedSessionRunsNothing, ActiveRuns, Active
<1>13. RunningRunIsDriven'
  BY <1>1, <1>4 DEF CompleteDrainedSessionIfIdle, faults, IInv,
     RunningRunIsDriven, NoFault, Driven, LoopSteps, Kept
<1>14. EndedMeansStopped'
  BY <1>read, <1>0, <1>3, <1>4 DEF CompleteDrainedSessionIfIdle, MisreadsGrow, IInv,
     EndedMeansStopped, NoFault, At, Kept, Moved
<1> QED
  BY <1>5, <1>6, <1>7, <1>8, <1>9, <1>10, <1>11, <1>12, <1>13, <1>14 DEF IInv

LEMMA EmitSessionEndedStep ==
  ASSUME IInv, NEW c \in Callers, EmitSessionEnded(c)
  PROVE  IInv'
<1>0. /\ TypeOK /\ CallsOK /\ OneOwner /\ call \in [Callers -> Call]
      /\ status \in [Runs -> RunStatus] /\ thread \in [Sessions -> ThreadStatus]
      /\ ended \in [Sessions -> BOOLEAN] /\ lease \in [Runs -> Activities \cup {None}]
      /\ holders \in [Runs -> SUBSET Callers] /\ misreads \in [Sessions -> 0 .. MaxMisreads]
  BY DEF IInv, TypeOK
<1>1. /\ call[c].pc = "ending"
      /\ call[c].op \in {"loop", "interrupt", "deny", "cancelActive", "stop"}
      /\ call[c].op = "loop" => /\ call[c].run \in Runs
                             /\ call[c].session = SessionOf[call[c].run]
                             /\ call[c].activity \in Activities
      /\ call[c].op \in {"interrupt", "deny"} =>
           call[c].run \in Runs /\ call[c].session = SessionOf[call[c].run]
      /\ call[c].op = "cancelActive" => \A r \in call[c].todo : SessionOf[r] = call[c].session
      /\ call[c].session \in Sessions
  BY <1>0, LifecycleAssumption DEF CallsOK, CallShape, NoCall,
     EmitSessionEnded, At
<1>2. Alone(c)
  BY <1>0, <1>1, OwnerIsAlone DEF Free, Callback
<1>3. \/ call[c].op = "loop" /\ Moved(c, "releasing")
      \/ call[c].op = "cancelActive" /\ Moved(c, "interrupting")
      \/ call[c].op \notin {"loop", "cancelActive"} /\ Returned(c)
  BY <1>0, ContinueCall DEF EmitSessionEnded
<1>4. Kept(c)
  BY <1>3 DEF Moved, Returned
<1>5. TypeOK'
  BY <1>0, <1>1, <1>4 DEF EmitSessionEnded, leases, faults, Kept, TypeOK
<1>6. CallsOK'
  <2>1. CallShape(call'[c])
    BY <1>1, <1>3 DEF CallShape, Moved, Returned
  <2> QED
    BY <1>0, <1>4, <2>1, CallsKept
<1>7. OneOwner'
  BY <1>2, <1>4, OneOwnerKept
<1>8. StopCovers'
  BY <1>3 DEF EmitSessionEnded, IInv, None, StopCovers, Kept, Moved, Returned,
     NoCall
<1>9. EndingStopped'
  BY <1>2, <1>3 DEF EmitSessionEnded, EndingStopped, Alone, Kept, Moved,
     Returned, Free, Callback
<1>10. HoldersLoop'
  BY <1>0, <1>3, <1>4 DEF EmitSessionEnded, leases, IInv, HoldersLoop, Kept,
     Moved
<1>11. DrainNeverStranded'
  BY <1>4 DEF EmitSessionEnded, faults, IInv, DrainNeverStranded, NoFault,
     ActiveRuns, Active, At, Kept
<1>12. StoppedSessionRunsNothing'
  BY DEF EmitSessionEnded, faults, IInv, StoppedSessionRunsNothing
<1>13. RunningRunIsDriven'
  BY <1>1, <1>4 DEF EmitSessionEnded, faults, IInv, RunningRunIsDriven,
     NoFault, Driven, LoopSteps, Kept
<1>14. EndedMeansStopped'
  <2>1. thread[call[c].session] = "stopped" /\ EndedMeansStopped
    BY <1>1 DEF IInv, EndingStopped
  <2>2. /\ thread' = thread
        /\ ended' = [ended EXCEPT ![call[c].session] = TRUE]
        /\ NoFault' = NoFault
        /\ misreads' = misreads
    BY DEF EmitSessionEnded, NoFault, faults
  <2> SUFFICES ASSUME NEW s \in Sessions
               PROVE  /\ ended'[s] /\ misreads'[s] = 0 => thread'[s] = "stopped"
                      /\ NoFault' /\ thread'[s] = "stopped" =>
                           \/ ended'[s]
                           \/ \E d \in Callers : /\ call'[d].pc = "ending"
                                                 /\ call'[d].session = s
    BY DEF EndedMeansStopped, At
  <2>3. CASE s = call[c].session
    BY <1>0, <2>1, <2>2, <2>3
  <2>4. CASE s # call[c].session
    BY <1>4, <2>1, <2>2, <2>4 DEF EndedMeansStopped, At, Kept
  <2> QED
    BY <2>3, <2>4
<1> QED
  BY <1>5, <1>6, <1>7, <1>8, <1>9, <1>10, <1>11, <1>12, <1>13, <1>14 DEF IInv

LEMMA EnterLoopStep ==
  ASSUME IInv, NEW c \in Callers, EnterLoop(c)
  PROVE  IInv'
<1>0. /\ TypeOK /\ CallsOK /\ OneOwner /\ call \in [Callers -> Call]
      /\ status \in [Runs -> RunStatus] /\ thread \in [Sessions -> ThreadStatus]
      /\ ended \in [Sessions -> BOOLEAN] /\ lease \in [Runs -> Activities \cup {None}]
      /\ holders \in [Runs -> SUBSET Callers] /\ misreads \in [Sessions -> 0 .. MaxMisreads]
  BY DEF IInv, TypeOK
<1>1. /\ call[c].pc = "packet"
      /\ call[c].op = "loop"
      /\ call[c].run \in Runs
      /\ call[c].session = SessionOf[call[c].run]
      /\ call[c].activity \in Activities
  BY <1>0 DEF CallsOK, CallShape, NoCall, EnterLoop, At
<1>2. Alone(c)
  BY <1>0, OwnerIsAlone DEF EnterLoop
<1>3. Moved(c, "turn")
  BY <1>0, GoToCall DEF EnterLoop, PCs, LoopSteps
<1>4. Kept(c)
  BY <1>3 DEF Moved
<1>5. TypeOK'
  BY <1>0, <1>1, <1>4 DEF EnterLoop, leases, faults, Kept, TypeOK
<1>6. CallsOK'
  <2>1. CallShape(call'[c])
    BY <1>1, <1>3 DEF CallShape, LoopSteps, Moved
  <2> QED
    BY <1>0, <1>4, <2>1, CallsKept
<1>7. OneOwner'
  BY <1>2, <1>4, OneOwnerKept
<1>8. StopCovers'
  BY <1>1, <1>2, <1>3 DEF None, StopCovers, Alone, Kept, Moved
<1>9. EndingStopped'
  BY <1>2, <1>3 DEF EndingStopped, Alone, Kept, Moved, Free, Callback
<1>10. HoldersLoop'
  BY <1>0, <1>3 DEF EnterLoop, leases, IInv, HoldersLoop, Kept, Moved
<1>11. DrainNeverStranded'
  BY <1>4 DEF EnterLoop, faults, IInv, DrainNeverStranded, NoFault,
     ActiveRuns, At, Kept
<1>12. StoppedSessionRunsNothing'
  BY DEF EnterLoop, faults, IInv, StoppedSessionRunsNothing
<1>13. RunningRunIsDriven'
  BY <1>3 DEF EnterLoop, faults, IInv, RunningRunIsDriven, NoFault, Driven,
     LoopSteps, Kept, Moved
<1>14. EndedMeansStopped'
  BY <1>4 DEF EnterLoop, faults, IInv, EndedMeansStopped, NoFault, At, Kept
<1> QED
  BY <1>5, <1>6, <1>7, <1>8, <1>9, <1>10, <1>11, <1>12, <1>13, <1>14 DEF IInv

LEMMA FinishRunStep ==
  ASSUME IInv, NEW c \in Callers, NEW outcome \in {"completed", "failed", "denied"}, FinishRun(c, outcome)
  PROVE  IInv'
<1>0. /\ TypeOK /\ CallsOK /\ OneOwner /\ call \in [Callers -> Call]
      /\ status \in [Runs -> RunStatus] /\ thread \in [Sessions -> ThreadStatus]
      /\ ended \in [Sessions -> BOOLEAN] /\ lease \in [Runs -> Activities \cup {None}]
      /\ holders \in [Runs -> SUBSET Callers] /\ misreads \in [Sessions -> 0 .. MaxMisreads]
  BY DEF IInv, TypeOK
<1>1. /\ call[c].pc \in {"packet", "turn"}
      /\ call[c].op = "loop"
      /\ call[c].run \in Runs
      /\ call[c].session = SessionOf[call[c].run]
      /\ call[c].activity \in Activities
  BY <1>0 DEF CallsOK, CallShape, NoCall, FinishRun, At
<1>2. Alone(c)
  BY <1>0, OwnerIsAlone DEF FinishRun
<1>3. Moved(c, "draining")
  BY <1>0, GoToCall DEF FinishRun, PCs
<1>4. Kept(c)
  BY <1>3 DEF Moved
<1>5. TypeOK'
  BY <1>0, <1>1, <1>4 DEF FinishRun, leases, faults, PutStatus, Kept, TypeOK,
     RunStatus, Terminal
<1>6. CallsOK'
  <2>1. CallShape(call'[c])
    BY <1>1, <1>3 DEF CallShape, Moved
  <2> QED
    BY <1>0, <1>4, <2>1, CallsKept
<1>7. OneOwner'
  BY <1>2, <1>4, OneOwnerKept
<1>8. StopCovers'
  BY <1>1, <1>2, <1>3 DEF None, StopCovers, Alone, Kept, Moved
<1>9. EndingStopped'
  BY <1>2, <1>3 DEF EndingStopped, Alone, Kept, Moved, Free, Callback
<1>10. HoldersLoop'
  BY <1>0, <1>3 DEF FinishRun, leases, IInv, HoldersLoop, Kept, Moved
<1>11. DrainNeverStranded'
  BY <1>1, <1>3 DEF FinishRun, faults, PutStatus, IInv, DrainNeverStranded,
     NoFault, ActiveRuns, At, Kept, Moved
<1>12. StoppedSessionRunsNothing'
  BY DEF FinishRun, faults, PutStatus, IInv, StoppedSessionRunsNothing
<1>13. RunningRunIsDriven'
  BY <1>0, <1>4 DEF FinishRun, faults, PutStatus, IInv, RunningRunIsDriven,
     NoFault, Driven, Kept
<1>14. EndedMeansStopped'
  BY <1>4 DEF FinishRun, faults, IInv, EndedMeansStopped, NoFault, At, Kept
<1> QED
  BY <1>5, <1>6, <1>7, <1>8, <1>9, <1>10, <1>11, <1>12, <1>13, <1>14 DEF IInv

LEMMA RequestApprovalStep ==
  ASSUME IInv, NEW c \in Callers, NEW a \in Approvals, RequestApproval(c, a)
  PROVE  IInv'
<1>0. /\ TypeOK /\ CallsOK /\ OneOwner /\ call \in [Callers -> Call]
      /\ status \in [Runs -> RunStatus] /\ thread \in [Sessions -> ThreadStatus]
      /\ ended \in [Sessions -> BOOLEAN] /\ lease \in [Runs -> Activities \cup {None}]
      /\ holders \in [Runs -> SUBSET Callers] /\ misreads \in [Sessions -> 0 .. MaxMisreads]
  BY DEF IInv, TypeOK
<1>1. /\ call[c].pc = "turn"
      /\ call[c].op = "loop"
      /\ call[c].run \in Runs
      /\ call[c].session = SessionOf[call[c].run]
      /\ call[c].activity \in Activities
  BY <1>0 DEF CallsOK, CallShape, NoCall, RequestApproval, At
<1>2. Alone(c)
  BY <1>0, OwnerIsAlone DEF RequestApproval
<1>3. Moved(c, "suspending")
  BY <1>0, GoToCall DEF RequestApproval, PCs, LoopSteps
<1>4. Kept(c)
  BY <1>3 DEF Moved
<1>5. TypeOK'
  BY <1>0, <1>4 DEF RequestApproval, leases, faults, Kept, TypeOK
<1>6. CallsOK'
  <2>1. CallShape(call'[c])
    BY <1>1, <1>3 DEF CallShape, LoopSteps, Moved
  <2> QED
    BY <1>0, <1>4, <2>1, CallsKept
<1>7. OneOwner'
  BY <1>2, <1>4, OneOwnerKept
<1>8. StopCovers'
  BY <1>1, <1>2, <1>3 DEF None, StopCovers, Alone, Kept, Moved
<1>9. EndingStopped'
  BY <1>2, <1>3 DEF EndingStopped, Alone, Kept, Moved, Free, Callback
<1>10. HoldersLoop'
  BY <1>0, <1>3 DEF RequestApproval, leases, IInv, HoldersLoop, Kept, Moved
<1>11. DrainNeverStranded'
  BY <1>4 DEF RequestApproval, faults, IInv, DrainNeverStranded, NoFault,
     ActiveRuns, At, Kept
<1>12. StoppedSessionRunsNothing'
  BY DEF RequestApproval, faults, IInv, StoppedSessionRunsNothing
<1>13. RunningRunIsDriven'
  BY <1>3 DEF RequestApproval, faults, IInv, RunningRunIsDriven, NoFault,
     Driven, LoopSteps, Kept, Moved
<1>14. EndedMeansStopped'
  BY <1>4 DEF RequestApproval, faults, IInv, EndedMeansStopped, NoFault, At,
     Kept
<1> QED
  BY <1>5, <1>6, <1>7, <1>8, <1>9, <1>10, <1>11, <1>12, <1>13, <1>14 DEF IInv

LEMMA SubmitRunStep ==
  ASSUME IInv, NEW c \in Callers, NEW r \in Runs, SubmitRun(c, r)
  PROVE  IInv'
<1>0. /\ TypeOK /\ CallsOK /\ OneOwner /\ call \in [Callers -> Call]
      /\ status \in [Runs -> RunStatus] /\ thread \in [Sessions -> ThreadStatus]
      /\ ended \in [Sessions -> BOOLEAN] /\ lease \in [Runs -> Activities \cup {None}]
      /\ holders \in [Runs -> SUBSET Callers] /\ misreads \in [Sessions -> 0 .. MaxMisreads]
  BY DEF IInv, TypeOK
<1>1. /\ call[c].pc = "idle"
      /\ call[c] = NoCall
  BY <1>0 DEF CallsOK, CallShape, SubmitRun, Idle, LoopSteps
<1>2. Alone(c)
  BY <1>0, OwnerIsAlone DEF SubmitRun, Idle
<1>3. /\ Kept(c)
      /\ call'[c] = LoopCall("recording", r, "core-loop")
  BY <1>0, LifecycleAssumption DEF SubmitRun, PCs, LoopSteps, LoopCall, Call,
     Activities, Kept
<1>4. Kept(c)
  BY <1>3
<1>read. MisreadsGrow
  BY <1>0, LookUpAnswers, LifecycleAssumption DEF SubmitRun
<1>gate. misreads'[SessionOf[r]] = 0 => thread[SessionOf[r]] # "stopped"
  BY <1>0, LookUpAnswers, LifecycleAssumption DEF SubmitRun, AcceptsRuns
<1>same. thread' = thread /\ status' = [status EXCEPT ![r] = "running"]
  BY DEF SubmitRun, PutStatus
<1>5. TypeOK'
  BY <1>read, <1>0, <1>4 DEF SubmitRun, leases, MisreadsGrow, PutStatus, Kept, TypeOK,
     RunStatus, Active
<1>6. CallsOK'
  <2>1. CallShape(call'[c])
    BY <1>3 DEF Activities, CallShape, LoopSteps, LoopCall
  <2> QED
    BY <1>0, <1>4, <2>1, CallsKept
<1>7. OneOwner'
  BY <1>2, <1>4, OneOwnerKept
<1>8. StopCovers'
  BY <1>2, <1>3 DEF None, StopCovers, Alone, Kept, LoopCall
<1>9. EndingStopped'
  BY <1>2, <1>3 DEF EndingStopped, Alone, Kept, Free, Callback, LoopCall
<1>10. HoldersLoop'
  BY <1>1 DEF SubmitRun, leases, IInv, HoldersLoop
<1>11. DrainNeverStranded'
  BY <1>read, <1>1 DEF SubmitRun, MisreadsGrow, PutStatus, IInv, DrainNeverStranded, NoFault,
     ActiveRuns, Active, At
<1>12. StoppedSessionRunsNothing'
  BY <1>0, <1>read, <1>gate, <1>same, LifecycleAssumption
  DEF MisreadsGrow, IInv, StoppedSessionRunsNothing
<1>13. RunningRunIsDriven'
  BY <1>1, <1>3 DEF SubmitRun, faults, PutStatus, IInv, RunningRunIsDriven,
     NoFault, Driven, LoopSteps, LoopCall
<1>14. EndedMeansStopped'
  BY <1>read, <1>1 DEF SubmitRun, MisreadsGrow, IInv, EndedMeansStopped, NoFault, At
<1> QED
  BY <1>5, <1>6, <1>7, <1>8, <1>9, <1>10, <1>11, <1>12, <1>13, <1>14 DEF IInv

LEMMA InterruptRunStep ==
  ASSUME IInv, NEW c \in Callers, NEW r \in Runs, InterruptRun(c, r)
  PROVE  IInv'
<1>0. /\ TypeOK /\ CallsOK /\ OneOwner /\ call \in [Callers -> Call]
      /\ status \in [Runs -> RunStatus] /\ thread \in [Sessions -> ThreadStatus]
      /\ ended \in [Sessions -> BOOLEAN] /\ lease \in [Runs -> Activities \cup {None}]
      /\ holders \in [Runs -> SUBSET Callers] /\ misreads \in [Sessions -> 0 .. MaxMisreads]
  BY DEF IInv, TypeOK
<1>1. /\ call[c].pc = "idle"
      /\ call[c] = NoCall
  BY <1>0 DEF CallsOK, CallShape, InterruptRun, Idle, LoopSteps
<1>2. Alone(c)
  BY <1>0, OwnerIsAlone DEF InterruptRun, Idle
<1>3. /\ Kept(c)
      /\ call'[c] = RunCall("interrupt", "draining", r)
      /\ Interrupted(r) \in Terminal
  BY <1>0, LifecycleAssumption DEF InterruptRun, PCs, RunCall, Call, Kept,
     Interrupted, Terminal
<1>4. Kept(c)
  BY <1>3
<1>5. TypeOK'
  BY <1>0, <1>3 DEF InterruptRun, leases, faults, PutStatus, Kept, TypeOK,
     RunStatus
<1>6. CallsOK'
  <2>1. CallShape(call'[c])
    BY <1>3 DEF CallShape, RunCall
  <2> QED
    BY <1>0, <1>4, <2>1, CallsKept
<1>7. OneOwner'
  BY <1>2, <1>4, OneOwnerKept
<1>8. StopCovers'
  BY <1>2, <1>3 DEF None, StopCovers, Alone, Kept, RunCall
<1>9. EndingStopped'
  BY <1>2, <1>3 DEF EndingStopped, Alone, Kept, Free, Callback, RunCall
<1>10. HoldersLoop'
  BY <1>1 DEF InterruptRun, leases, IInv, HoldersLoop
<1>11. DrainNeverStranded'
  BY <1>1, <1>3 DEF InterruptRun, faults, PutStatus, IInv, DrainNeverStranded,
     NoFault, ActiveRuns, At, RunCall
<1>12. StoppedSessionRunsNothing'
  BY <1>3 DEF InterruptRun, faults, PutStatus, IInv, StoppedSessionRunsNothing,
     Terminal
<1>13. RunningRunIsDriven'
  BY <1>1, <1>3 DEF InterruptRun, faults, PutStatus, IInv, RunningRunIsDriven,
     NoFault, Driven, LoopSteps, Terminal
<1>14. EndedMeansStopped'
  BY <1>1 DEF InterruptRun, faults, IInv, EndedMeansStopped, NoFault, At
<1> QED
  BY <1>5, <1>6, <1>7, <1>8, <1>9, <1>10, <1>11, <1>12, <1>13, <1>14 DEF IInv

LEMMA ResumeCheckpointStep ==
  ASSUME IInv, NEW c \in Callers, NEW r \in Runs, ResumeCheckpoint(c, r)
  PROVE  IInv'
<1>0. /\ TypeOK /\ CallsOK /\ OneOwner /\ call \in [Callers -> Call]
      /\ status \in [Runs -> RunStatus] /\ thread \in [Sessions -> ThreadStatus]
      /\ ended \in [Sessions -> BOOLEAN] /\ lease \in [Runs -> Activities \cup {None}]
      /\ holders \in [Runs -> SUBSET Callers] /\ misreads \in [Sessions -> 0 .. MaxMisreads]
  BY DEF IInv, TypeOK
<1>1. /\ call[c].pc = "idle"
      /\ call[c] = NoCall
  BY <1>0 DEF CallsOK, CallShape, ResumeCheckpoint, Idle, LoopSteps
<1>2. Alone(c)
  BY <1>0, OwnerIsAlone DEF ResumeCheckpoint, Idle
<1>3. /\ Kept(c)
      /\ call'[c] = LoopCall("resuming", r, "checkpoint")
  BY <1>0, LifecycleAssumption DEF ResumeCheckpoint, PCs, LoopCall, Call,
     Activities, Kept
<1>4. Kept(c)
  BY <1>3
<1>5. TypeOK'
  BY <1>0, <1>4 DEF ResumeCheckpoint, records, leases, faults, Kept, TypeOK
<1>6. CallsOK'
  <2>1. CallShape(call'[c])
    BY <1>3 DEF Activities, CallShape, LoopCall
  <2> QED
    BY <1>0, <1>4, <2>1, CallsKept
<1>7. OneOwner'
  BY <1>2, <1>4, OneOwnerKept
<1>8. StopCovers'
  BY <1>2, <1>3 DEF None, StopCovers, Alone, Kept, LoopCall
<1>9. EndingStopped'
  BY <1>2, <1>3 DEF EndingStopped, Alone, Kept, Free, Callback, LoopCall
<1>10. HoldersLoop'
  BY <1>1 DEF ResumeCheckpoint, leases, IInv, HoldersLoop
<1>11. DrainNeverStranded'
  BY <1>1 DEF ResumeCheckpoint, records, faults, IInv, DrainNeverStranded,
     NoFault, ActiveRuns, At
<1>12. StoppedSessionRunsNothing'
  BY DEF ResumeCheckpoint, faults, records, IInv, StoppedSessionRunsNothing
<1>13. RunningRunIsDriven'
  BY <1>1 DEF ResumeCheckpoint, records, faults, IInv, RunningRunIsDriven,
     NoFault, Driven, LoopSteps
<1>14. EndedMeansStopped'
  BY <1>1 DEF ResumeCheckpoint, records, faults, IInv, EndedMeansStopped,
     NoFault, At
<1> QED
  BY <1>5, <1>6, <1>7, <1>8, <1>9, <1>10, <1>11, <1>12, <1>13, <1>14 DEF IInv

LEMMA StopSessionDrainStep ==
  ASSUME IInv, NEW c \in Callers, NEW s \in Sessions, StopSessionDrain(c, s)
  PROVE  IInv'
<1>0. /\ TypeOK /\ CallsOK /\ OneOwner /\ call \in [Callers -> Call]
      /\ status \in [Runs -> RunStatus] /\ thread \in [Sessions -> ThreadStatus]
      /\ ended \in [Sessions -> BOOLEAN] /\ lease \in [Runs -> Activities \cup {None}]
      /\ holders \in [Runs -> SUBSET Callers] /\ misreads \in [Sessions -> 0 .. MaxMisreads]
  BY DEF IInv, TypeOK
<1>1. /\ call[c].pc = "idle"
      /\ call[c] = NoCall
  BY <1>0 DEF CallsOK, CallShape, StopSessionDrain, Idle, LoopSteps
<1>2. Alone(c)
  BY <1>0, OwnerIsAlone DEF StopSessionDrain, Idle
<1>3. /\ Kept(c)
      /\ \/ call' = call /\ ActiveRuns(s) # {} /\ thread' = [thread EXCEPT ![s] = "stopping"]
         \/ /\ call'[c] = StopCall("stop", "ending", s, {})
            /\ ActiveRuns(s) = {}
            /\ thread' = [thread EXCEPT ![s] = "stopped"]
  BY <1>0, <1>1, LifecycleAssumption, SetCall DEF StopSessionDrain, PCs,
     LoopSteps, LoopCall, RunCall, StopCall, Call, Activities, ActiveRuns,
     Kept, Interrupted, Terminal
<1>4. Kept(c)
  BY <1>3
<1>read. MisreadsGrow /\ (misreads'[s] = 0 => thread[s] # "stopped")
  BY <1>0, LookUpAnswers DEF StopSessionDrain, CanStop
<1>5. TypeOK'
  BY <1>read, <1>0, <1>4 DEF StopSessionDrain, leases, MisreadsGrow, Kept, TypeOK,
     ThreadStatus
<1>6. CallsOK'
  <2>1. CASE call' = call
    BY <1>0, <2>1 DEF CallsOK
  <2>2. CASE call'[c] = StopCall("stop", "ending", s, {})
    <3>1. CallShape(call'[c])
      BY <2>2 DEF CallShape, StopCall
    <3> QED
      BY <1>0, <1>4, <3>1, CallsKept
  <2> QED
    BY <1>3, <2>1, <2>2
<1>7. OneOwner'
  BY <1>2, <1>4, OneOwnerKept
<1>8. StopCovers'
  BY <1>1, <1>2, <1>3 DEF None, StopCovers, Alone, Kept, NoCall, StopCall
<1>9. EndingStopped'
  BY <1>0, <1>1, <1>2, <1>3 DEF EndingStopped, Alone, Kept, Free, Callback,
     StopCall
<1>10. HoldersLoop'
  BY <1>0, <1>1 DEF StopSessionDrain, leases, IInv, HoldersLoop, Kept
<1>11. DrainNeverStranded'
  BY <1>read, <1>0, <1>1 DEF StopSessionDrain, MisreadsGrow, IInv, DrainNeverStranded,
     NoFault, ActiveRuns, At
<1>12. StoppedSessionRunsNothing'
  BY <1>read, <1>0, LifecycleAssumption DEF StopSessionDrain, MisreadsGrow, IInv,
     StoppedSessionRunsNothing, ActiveRuns, Active
<1>13. RunningRunIsDriven'
  BY <1>1, <1>4 DEF StopSessionDrain, faults, IInv, RunningRunIsDriven,
     NoFault, Driven, LoopSteps, Kept
<1>14. EndedMeansStopped'
  BY <1>read, <1>0, <1>1 DEF StopSessionDrain, MisreadsGrow, IInv, EndedMeansStopped,
     NoFault, At, StopCall, CanStop
<1> QED
  BY <1>5, <1>6, <1>7, <1>8, <1>9, <1>10, <1>11, <1>12, <1>13, <1>14 DEF IInv

LEMMA StopSessionCancelStep ==
  ASSUME IInv, NEW c \in Callers, NEW s \in Sessions, StopSessionCancel(c, s)
  PROVE  IInv'
<1>0. /\ TypeOK /\ CallsOK /\ OneOwner /\ call \in [Callers -> Call]
      /\ status \in [Runs -> RunStatus] /\ thread \in [Sessions -> ThreadStatus]
      /\ ended \in [Sessions -> BOOLEAN] /\ lease \in [Runs -> Activities \cup {None}]
      /\ holders \in [Runs -> SUBSET Callers] /\ misreads \in [Sessions -> 0 .. MaxMisreads]
  BY DEF IInv, TypeOK
<1>1. /\ call[c].pc = "idle"
      /\ call[c] = NoCall
  BY <1>0 DEF CallsOK, CallShape, StopSessionCancel, Idle, LoopSteps
<1>2. Alone(c)
  BY <1>0, OwnerIsAlone DEF StopSessionCancel, Idle
<1>3. /\ Kept(c)
      /\ call'[c] = StopCall("cancelActive", "interrupting", s, ActiveRuns(s))
  BY <1>0 DEF StopSessionCancel, PCs, StopCall, Call, ActiveRuns, Kept
<1>4. Kept(c)
  BY <1>3
<1>read. MisreadsGrow
  BY <1>0, LookUpAnswers DEF StopSessionCancel
<1>5. TypeOK'
  BY <1>read, <1>0, <1>4 DEF StopSessionCancel, records, leases, MisreadsGrow, Kept, TypeOK
<1>6. CallsOK'
  <2>1. CallShape(call'[c])
    BY <1>3 DEF ActiveRuns, CallShape, StopCall
  <2> QED
    BY <1>0, <1>4, <2>1, CallsKept
<1>7. OneOwner'
  BY <1>2, <1>4, OneOwnerKept
<1>8. StopCovers'
  BY <1>2, <1>3 DEF StopSessionCancel, records, None, StopCovers, ActiveRuns,
     Alone, StopCall
<1>9. EndingStopped'
  BY <1>2, <1>3 DEF EndingStopped, Alone, Kept, Free, Callback, StopCall
<1>10. HoldersLoop'
  BY <1>1 DEF StopSessionCancel, leases, IInv, HoldersLoop
<1>11. DrainNeverStranded'
  BY <1>read, <1>1 DEF StopSessionCancel, records, MisreadsGrow, IInv, DrainNeverStranded,
     NoFault, ActiveRuns, At
<1>12. StoppedSessionRunsNothing'
  BY <1>read, LifecycleAssumption DEF StopSessionCancel, MisreadsGrow, records, IInv, StoppedSessionRunsNothing
<1>13. RunningRunIsDriven'
  BY <1>1 DEF StopSessionCancel, records, faults, IInv, RunningRunIsDriven,
     NoFault, Driven, LoopSteps
<1>14. EndedMeansStopped'
  BY <1>read, <1>1 DEF StopSessionCancel, records, MisreadsGrow, IInv, EndedMeansStopped,
     NoFault, At
<1> QED
  BY <1>5, <1>6, <1>7, <1>8, <1>9, <1>10, <1>11, <1>12, <1>13, <1>14 DEF IInv

LEMMA ApproveRunStep ==
  ASSUME IInv, NEW c \in Callers, NEW a \in Approvals, ApproveRun(c, a)
  PROVE  IInv'
<1>0. /\ TypeOK /\ CallsOK /\ OneOwner /\ call \in [Callers -> Call]
      /\ status \in [Runs -> RunStatus] /\ thread \in [Sessions -> ThreadStatus]
      /\ ended \in [Sessions -> BOOLEAN] /\ lease \in [Runs -> Activities \cup {None}]
      /\ holders \in [Runs -> SUBSET Callers] /\ misreads \in [Sessions -> 0 .. MaxMisreads]
  BY DEF IInv, TypeOK
<1>1. /\ call[c].pc = "idle"
      /\ call[c] = NoCall
  BY <1>0 DEF CallsOK, CallShape, ApproveRun, Idle, LoopSteps
<1>2. Alone(c)
  BY <1>0, OwnerIsAlone DEF ApproveRun, Idle
<1>3. /\ Kept(c)
      /\ call'[c] = LoopCall("resuming", ApprovalOf[a], a)
  BY <1>0, LifecycleAssumption DEF ApproveRun, PCs, LoopCall, Call,
     Activities, Kept
<1>4. Kept(c)
  BY <1>3
<1>read. MisreadsGrow
  BY <1>0, LookUpAnswers, LifecycleAssumption DEF ApproveRun
<1>5. TypeOK'
  BY <1>read, <1>0, <1>4 DEF ApproveRun, records, leases, MisreadsGrow, Kept, TypeOK
<1>6. CallsOK'
  <2>1. CallShape(call'[c])
    BY <1>3, LifecycleAssumption DEF Activities, CallShape, LoopCall
  <2> QED
    BY <1>0, <1>4, <2>1, CallsKept
<1>7. OneOwner'
  BY <1>2, <1>4, OneOwnerKept
<1>8. StopCovers'
  BY <1>2, <1>3 DEF None, StopCovers, Alone, Kept, LoopCall
<1>9. EndingStopped'
  BY <1>2, <1>3 DEF EndingStopped, Alone, Kept, Free, Callback, LoopCall
<1>10. HoldersLoop'
  BY <1>1 DEF ApproveRun, leases, IInv, HoldersLoop
<1>11. DrainNeverStranded'
  BY <1>read, <1>1 DEF ApproveRun, records, MisreadsGrow, IInv, DrainNeverStranded, NoFault,
     ActiveRuns, At
<1>12. StoppedSessionRunsNothing'
  BY <1>read, LifecycleAssumption DEF ApproveRun, MisreadsGrow, records, IInv, StoppedSessionRunsNothing
<1>13. RunningRunIsDriven'
  BY <1>1 DEF ApproveRun, records, faults, IInv, RunningRunIsDriven, NoFault,
     Driven, LoopSteps
<1>14. EndedMeansStopped'
  BY <1>read, <1>1 DEF ApproveRun, records, MisreadsGrow, IInv, EndedMeansStopped, NoFault,
     At
<1> QED
  BY <1>5, <1>6, <1>7, <1>8, <1>9, <1>10, <1>11, <1>12, <1>13, <1>14 DEF IInv

LEMMA DenyApprovalStep ==
  ASSUME IInv, NEW c \in Callers, NEW a \in Approvals, DenyApproval(c, a)
  PROVE  IInv'
<1>0. /\ TypeOK /\ CallsOK /\ OneOwner /\ call \in [Callers -> Call]
      /\ status \in [Runs -> RunStatus] /\ thread \in [Sessions -> ThreadStatus]
      /\ ended \in [Sessions -> BOOLEAN] /\ lease \in [Runs -> Activities \cup {None}]
      /\ holders \in [Runs -> SUBSET Callers] /\ misreads \in [Sessions -> 0 .. MaxMisreads]
  BY DEF IInv, TypeOK
<1>1. /\ call[c].pc = "idle"
      /\ call[c] = NoCall
  BY <1>0 DEF CallsOK, CallShape, DenyApproval, Idle, LoopSteps
<1>2. Alone(c)
  BY <1>0, OwnerIsAlone DEF DenyApproval, Idle
<1>3. /\ Kept(c)
      /\ call'[c] = RunCall("deny", "denying", ApprovalOf[a])
  BY <1>0, LifecycleAssumption DEF DenyApproval, PCs, RunCall, Call, Kept
<1>4. Kept(c)
  BY <1>3
<1>5. TypeOK'
  BY <1>0, <1>4 DEF DenyApproval, records, leases, faults, Kept, TypeOK
<1>6. CallsOK'
  <2>1. CallShape(call'[c])
    BY <1>3, LifecycleAssumption DEF CallShape, RunCall
  <2> QED
    BY <1>0, <1>4, <2>1, CallsKept
<1>7. OneOwner'
  BY <1>2, <1>4, OneOwnerKept
<1>8. StopCovers'
  BY <1>2, <1>3 DEF None, StopCovers, Alone, Kept, RunCall
<1>9. EndingStopped'
  BY <1>2, <1>3 DEF EndingStopped, Alone, Kept, Free, Callback, RunCall
<1>10. HoldersLoop'
  BY <1>1 DEF DenyApproval, leases, IInv, HoldersLoop
<1>11. DrainNeverStranded'
  BY <1>1 DEF DenyApproval, records, faults, IInv, DrainNeverStranded,
     NoFault, ActiveRuns, At
<1>12. StoppedSessionRunsNothing'
  BY DEF DenyApproval, faults, records, IInv, StoppedSessionRunsNothing
<1>13. RunningRunIsDriven'
  BY <1>1 DEF DenyApproval, records, faults, IInv, RunningRunIsDriven,
     NoFault, Driven, LoopSteps
<1>14. EndedMeansStopped'
  BY <1>1 DEF DenyApproval, records, faults, IInv, EndedMeansStopped, NoFault,
     At
<1> QED
  BY <1>5, <1>6, <1>7, <1>8, <1>9, <1>10, <1>11, <1>12, <1>13, <1>14 DEF IInv

LEMMA PutStoppedSessionStep ==
  ASSUME IInv, NEW c \in Callers, PutStoppedSession(c)
  PROVE  IInv'
<1>0. /\ TypeOK /\ CallsOK /\ OneOwner /\ call \in [Callers -> Call]
      /\ status \in [Runs -> RunStatus] /\ thread \in [Sessions -> ThreadStatus]
      /\ ended \in [Sessions -> BOOLEAN] /\ lease \in [Runs -> Activities \cup {None}]
      /\ holders \in [Runs -> SUBSET Callers] /\ misreads \in [Sessions -> 0 .. MaxMisreads]
  BY DEF IInv, TypeOK
<1>1. /\ call[c].pc = "interrupting"
      /\ call[c].op = "cancelActive"
      /\ call[c].session \in Sessions
      /\ \A r \in call[c].todo : SessionOf[r] = call[c].session
  BY <1>0 DEF CallsOK, CallShape, NoCall, PutStoppedSession, At, LoopSteps
<1>2. Alone(c)
  BY <1>0, <1>1, OwnerIsAlone DEF Free, Callback
<1>3. /\ Kept(c)
      /\ call'[c] = StopCall("stop", "ending", call[c].session, {})
  BY <1>0, <1>1, SetCall DEF PutStoppedSession, PCs, LoopSteps, StopCall, Call
<1>4. Kept(c)
  BY <1>3
<1>5. TypeOK'
  BY <1>0, <1>1, <1>4 DEF PutStoppedSession, leases, faults, Kept, TypeOK,
     ThreadStatus
<1>6. CallsOK'
  <2>1. CallShape(call'[c])
    BY <1>1, <1>3 DEF CallShape, StopCall
  <2> QED
    BY <1>0, <1>4, <2>1, CallsKept
<1>7. OneOwner'
  BY <1>2, <1>4, OneOwnerKept
<1>8. StopCovers'
  BY <1>2, <1>3 DEF None, StopCovers, Alone, Kept, StopCall
<1>9. EndingStopped'
  BY <1>0, <1>1, <1>2 DEF PutStoppedSession, EndingStopped, Alone, Free,
     Callback, StopCall
<1>10. HoldersLoop'
  BY <1>1 DEF PutStoppedSession, leases, IInv, HoldersLoop
<1>11. DrainNeverStranded'
  BY DEF PutStoppedSession, faults, IInv, DrainNeverStranded, NoFault,
     ActiveRuns, At
<1>12. StoppedSessionRunsNothing'
  BY <1>1 DEF PutStoppedSession, faults, IInv, StoppedSessionRunsNothing, Active,
     StopCovers
<1>13. RunningRunIsDriven'
  BY <1>1 DEF PutStoppedSession, faults, IInv, RunningRunIsDriven, NoFault,
     Driven, LoopSteps
<1>14. EndedMeansStopped'
  BY <1>3 DEF PutStoppedSession, faults, IInv, EndedMeansStopped, NoFault, At,
     StopCall
<1> QED
  BY <1>5, <1>6, <1>7, <1>8, <1>9, <1>10, <1>11, <1>12, <1>13, <1>14 DEF IInv

LEMMA InterruptNextStep ==
  ASSUME IInv, NEW c \in Callers, InterruptNext(c)
  PROVE  IInv'
<1>0. /\ TypeOK /\ CallsOK /\ OneOwner /\ call \in [Callers -> Call]
      /\ status \in [Runs -> RunStatus] /\ thread \in [Sessions -> ThreadStatus]
      /\ ended \in [Sessions -> BOOLEAN] /\ lease \in [Runs -> Activities \cup {None}]
      /\ holders \in [Runs -> SUBSET Callers] /\ misreads \in [Sessions -> 0 .. MaxMisreads]
  BY DEF IInv, TypeOK
<1>1. /\ call[c].pc = "interrupting"
      /\ call[c].op = "cancelActive"
      /\ call[c].session \in Sessions
      /\ \A r \in call[c].todo : SessionOf[r] = call[c].session
  BY <1>0 DEF CallsOK, CallShape, NoCall, InterruptNext, At, LoopSteps
<1>2. Alone(c)
  BY <1>0, <1>1, OwnerIsAlone DEF Free, Callback
<1>3. /\ Kept(c)
      /\ call'[c].pc = "draining"
      /\ call'[c].op = call[c].op
      /\ call'[c].run = call[c].run
      /\ call'[c].session = call[c].session
      /\ \E r \in Runs :
           /\ r \in call[c].todo
           /\ Interrupted(r) \in Terminal
           /\ status' = [status EXCEPT ![r] = Interrupted(r)]
           /\ call'[c].todo = call[c].todo \ {r}
  BY <1>0, <1>1 DEF InterruptNext, Call
<1>4. Kept(c)
  BY <1>3
<1>5. TypeOK'
  BY <1>0, <1>3 DEF InterruptNext, leases, faults, Kept, TypeOK, RunStatus
<1>6. CallsOK'
  <2>1. CallShape(call'[c])
    BY <1>1, <1>3 DEF CallShape
  <2> QED
    BY <1>0, <1>4, <2>1, CallsKept
<1>7. OneOwner'
  BY <1>2, <1>4, OneOwnerKept
<1>8. StopCovers'
  BY <1>0, <1>3 DEF IInv, StopCovers, Kept, Active, Terminal
<1>9. EndingStopped'
  BY <1>2, <1>3 DEF EndingStopped, Alone, Kept, Free, Callback
<1>10. HoldersLoop'
  BY <1>0 DEF InterruptNext, leases, IInv, HoldersLoop
<1>11. DrainNeverStranded'
  BY <1>0, <1>1, <1>3 DEF InterruptNext, faults, IInv, DrainNeverStranded,
     NoFault, ActiveRuns, At
<1>12. StoppedSessionRunsNothing'
  BY <1>3 DEF InterruptNext, faults, IInv, StoppedSessionRunsNothing, Terminal
<1>13. RunningRunIsDriven'
  BY <1>0, <1>1, <1>3 DEF InterruptNext, faults, IInv, RunningRunIsDriven,
     NoFault, Driven, LoopSteps, Terminal
<1>14. EndedMeansStopped'
  BY <1>0 DEF InterruptNext, faults, IInv, EndedMeansStopped, NoFault, At
<1> QED
  BY <1>5, <1>6, <1>7, <1>8, <1>9, <1>10, <1>11, <1>12, <1>13, <1>14 DEF IInv

LEMMA CancelContextStep ==
  ASSUME IInv, NEW c \in Callers, CancelContext(c)
  PROVE  IInv'
<1>0. /\ TypeOK /\ CallsOK /\ OneOwner /\ call \in [Callers -> Call]
      /\ status \in [Runs -> RunStatus] /\ thread \in [Sessions -> ThreadStatus]
      /\ lease \in [Runs -> Activities \cup {None}]
      /\ holders \in [Runs -> SUBSET Callers]
      /\ cuts \in Nat /\ cuts' = cuts + 1 /\ misreads' = misreads
  BY LifecycleAssumption DEF IInv, TypeOK, CancelContext
<1>1. Returned(c) /\ Kept(c)
  BY <1>0, ReturnCall DEF CancelContext, Returned
<1>2. TypeOK'
  BY <1>0, <1>1, LifecycleAssumption DEF CancelContext, TypeOK, records, Kept
<1>3. CallsOK'
  BY <1>0, <1>1, CallsKept DEF Returned, CallShape
<1>4. OneOwner'
  BY <1>0, <1>1 DEF OneOwner, Returned, Kept
<1>5. StopCovers' /\ EndingStopped' /\ StoppedSessionRunsNothing'
  BY <1>1 DEF IInv, StopCovers, EndingStopped, StoppedSessionRunsNothing,
     CancelContext, records, Returned, Kept, NoCall, None
<1>6. HoldersLoop'
  BY <1>0, <1>1 DEF IInv, HoldersLoop, CancelContext, Kept
<1>7. ~NoFault'
  BY <1>0 DEF NoFault
<1>8. EndedMeansStopped'
  BY <1>7 DEF IInv, EndedMeansStopped, CancelContext, records
<1>9. DrainNeverStranded' /\ RunningRunIsDriven'
  BY <1>7 DEF DrainNeverStranded, RunningRunIsDriven
<1> QED
  BY <1>2, <1>3, <1>4, <1>5, <1>6, <1>8, <1>9 DEF IInv

LEMMA CrashStep ==
  ASSUME IInv, Crash
  PROVE  IInv'
<1>1. /\ cuts \in Nat /\ cuts' = cuts + 1 /\ misreads' = misreads
      /\ \A c \in Callers : call'[c] = NoCall
  BY LifecycleAssumption DEF IInv, TypeOK, Crash
<1>2. TypeOK'
  BY <1>1, NoCallType, LifecycleAssumption DEF IInv, TypeOK, Crash, records
<1>3. CallsOK' /\ OneOwner' /\ StopCovers' /\ EndingStopped'
  BY <1>1 DEF CallsOK, CallShape, OneOwner, StopCovers, EndingStopped, NoCall, None
<1>4. HoldersLoop'
  BY DEF HoldersLoop, Crash
<1>5. StoppedSessionRunsNothing'
  BY DEF IInv, StoppedSessionRunsNothing, Crash, records
<1>6. ~NoFault'
  BY <1>1 DEF NoFault
<1>7. EndedMeansStopped'
  BY <1>6 DEF IInv, EndedMeansStopped, Crash, records
<1>8. DrainNeverStranded' /\ RunningRunIsDriven'
  BY <1>6 DEF DrainNeverStranded, RunningRunIsDriven
<1> QED
  BY <1>2, <1>3, <1>4, <1>5, <1>7, <1>8 DEF IInv

LEMMA ExpireLeaseStep ==
  ASSUME IInv, NEW r \in Runs, ExpireLease(r)
  PROVE  IInv'
<1>1. TypeOK'
  BY DEF IInv, TypeOK, ExpireLease, records, faults
<1>2. HoldersLoop'
  BY DEF IInv, TypeOK, HoldersLoop, ExpireLease
<1>3. CallsOK' /\ OneOwner' /\ StopCovers' /\ EndingStopped'
  BY DEF IInv, CallsOK, OneOwner, StopCovers, EndingStopped, ExpireLease, records
<1>4. /\ DrainNeverStranded' /\ StoppedSessionRunsNothing'
      /\ RunningRunIsDriven' /\ EndedMeansStopped'
  BY DEF IInv, DrainNeverStranded, StoppedSessionRunsNothing, RunningRunIsDriven,
     EndedMeansStopped, NoFault, At, ActiveRuns, Driven, ExpireLease, records, faults
<1> QED
  BY <1>1, <1>2, <1>3, <1>4 DEF IInv

LEMMA StutterStep ==
  ASSUME IInv, UNCHANGED vars
  PROVE  IInv'
BY DEF IInv, TypeOK, CallsOK, OneOwner, StopCovers, EndingStopped, HoldersLoop,
   DrainNeverStranded, StoppedSessionRunsNothing, RunningRunIsDriven,
   EndedMeansStopped, NoFault, At, ActiveRuns, Driven, vars, records, leases, faults

LEMMA NextIInv == IInv /\ [Next]_vars => IInv'
<1> SUFFICES ASSUME IInv, [Next]_vars PROVE IInv'
  OBVIOUS
<1>1. ASSUME NEW c \in Callers, CallerStep(c) PROVE IInv'
  BY <1>1, RecordSessionRunStep, AcquireLeaseStep, SuspendRunStep, ReleaseLeaseStep,
     CompleteDrainedSessionIfIdleStep, EmitSessionEndedStep, InterruptNextStep,
     PutStoppedSessionStep, ResumeLoopStep, DenyRunStep DEF CallerStep
<1>2. ASSUME NEW c \in Callers, CallbackReturn(c) PROVE IInv'
  BY <1>2, EnterLoopStep, FinishRunStep, RequestApprovalStep DEF CallbackReturn
<1>3. ASSUME NEW c \in Callers, HostCall(c) PROVE IInv'
  BY <1>3, SubmitRunStep, InterruptRunStep, ResumeCheckpointStep,
     StopSessionDrainStep, StopSessionCancelStep, ApproveRunStep, DenyApprovalStep
  DEF HostCall
<1>4. CASE \E c \in Callers : CancelContext(c)
  BY <1>4, CancelContextStep
<1>5. CASE Crash
  BY <1>5, CrashStep
<1>6. CASE \E r \in Runs : ExpireLease(r)
  BY <1>6, ExpireLeaseStep
<1>7. CASE UNCHANGED vars
  BY <1>7, StutterStep
<1> QED
  BY <1>1, <1>2, <1>3, <1>4, <1>5, <1>6, <1>7 DEF Next

THEOREM Inductive == Spec => []IInv
<1>1. Init => IInv
  BY InitIInv
<1>2. IInv /\ [Next]_vars => IInv'
  BY NextIInv
<1> QED
  BY <1>1, <1>2, PTL DEF Spec

(* The records keep their types: no path writes a status outside the sets. *)
THEOREM TypeCorrect == Spec => []TypeOK
BY Inductive, PTL DEF IInv

(* A draining session without active runs always has a call about to       *)
(* complete it, as long as no context is cancelled, nothing crashes and    *)
(* the record of the session can be read.                                  *)
THEOREM DrainSafe == Spec => []DrainNeverStranded
BY Inductive, PTL DEF IInv

(* Whatever is cancelled or crashes, nothing runs in a stopped session     *)
(* whose record could be read each time it was looked up.                  *)
THEOREM StopSafe == Spec => []StoppedSessionRunsNothing
BY Inductive, PTL DEF IInv

(* Without a fault a run recorded as running has a loop behind it.         *)
THEOREM DriveSafe == Spec => []RunningRunIsDriven
BY Inductive, PTL DEF IInv

(* session.ended is only of sessions that stay stopped, as long as their   *)
(* records can be read, and of every one that stopped without a fault.     *)
THEOREM EndSafe == Spec => []EndedMeansStopped
BY Inductive, PTL DEF IInv

(* The calls that share a lease work for one activity.                     *)
THEOREM LeaseSafe == Spec => []LeaseAdmitsOneActivity
<1>1. IInv => LeaseAdmitsOneActivity
  BY DEF IInv, HoldersLoop, LeaseAdmitsOneActivity
<1> QED
  BY <1>1, Inductive, PTL

(***************************************************************************)
(* The refinement of SessionGate                                           *)
(***************************************************************************)
phaseBar ==
  [s \in Sessions |->
     CASE thread[s] = "stopping" -> "draining"
       [] thread[s] = "stopped"  -> "closed"
       [] OTHER                  -> "open"]

runningBar == {r \in Runs : status[r] = "running"}

LEMMA GateInit == Init => Gate!Init
BY LifecycleAssumption DEF Init, Gate!Init, None

(* What one write of a session record is to the gate. *)
LEMMA PhaseWrite ==
  ASSUME thread \in [Sessions -> ThreadStatus], NEW s \in Sessions, NEW v,
         thread' = [thread EXCEPT ![s] = v]
  PROVE  /\ v = "stopping" => phaseBar' = [phaseBar EXCEPT ![s] = "draining"]
         /\ v = "stopped" => phaseBar' = [phaseBar EXCEPT ![s] = "closed"]
         /\ v \notin {"stopping", "stopped"}
              => phaseBar' = [phaseBar EXCEPT ![s] = "open"]
BY DEF phaseBar

(* What one write of a run record is to the gate. *)
LEMMA RunningWrite ==
  ASSUME status \in [Runs -> RunStatus], NEW r \in Runs, NEW v,
         PutStatus(r, v)
  PROVE  /\ v = "running" => runningBar' = runningBar \cup {r}
         /\ v # "running" => runningBar' = runningBar \ {r}
BY DEF runningBar, PutStatus

(* What a lookup is to the gate: the record, or one more that failed. *)
Missed(s) == misreads' = [misreads EXCEPT ![s] = @ + 1]

LEMMA GateReads ==
  ASSUME NEW s, NEW t, LookUp(s, t)
  PROVE  \/ t = thread[s] /\ misreads' = misreads
         \/ Missed(s)
BY DEF LookUp, Missed

LEMMA GateStutter ==
  ASSUME UNCHANGED <<status, thread, misreads>>
  PROVE  UNCHANGED Gate!vars
BY DEF Gate!vars

(* A lookup that lets nothing through, whether it failed or not. *)
LEMMA GateMiss ==
  ASSUME NEW s \in Sessions, NEW t, LookUp(s, t), UNCHANGED <<status, thread>>
  PROVE  Gate!Next \/ UNCHANGED Gate!vars
<1>1. CASE misreads' = misreads
  BY <1>1, GateStutter
<1>2. CASE Missed(s)
  <2>1. Gate!Miss(s)
    BY <1>2 DEF Missed, Gate!Miss, Gate!Unread
  <2> QED
    BY <2>1 DEF Gate!Next
<1> QED
  BY <1>1, <1>2, GateReads

LEMMA GateEnd ==
  ASSUME TypeOK, NEW r \in Runs, NEW v, v # "running", PutStatus(r, v),
         UNCHANGED <<thread, misreads>>
  PROVE  Gate!Next
<1>1. status \in [Runs -> RunStatus]
  BY DEF TypeOK
<1>2. runningBar' = runningBar \ {r} /\ phaseBar' = phaseBar
  BY <1>1, RunningWrite DEF phaseBar
<1>3. Gate!EndRun(r)
  BY <1>2 DEF Gate!EndRun, phaseBar, runningBar
<1> QED
  BY <1>3 DEF Gate!Next

LEMMA GateStart ==
  ASSUME TypeOK, NEW r \in Runs, PutStatus(r, "running"), UNCHANGED thread,
         NEW t, LookUp(SessionOf[r], t), AcceptsRuns(t)
  PROVE  Gate!Next
<1>1. status \in [Runs -> RunStatus] /\ SessionOf[r] \in Sessions
  BY LifecycleAssumption DEF TypeOK
<1>2. runningBar' = runningBar \cup {r} /\ phaseBar' = phaseBar
  BY <1>1, RunningWrite DEF phaseBar
<1>3. CASE t = thread[SessionOf[r]] /\ misreads' = misreads
  <2>1. phaseBar[SessionOf[r]] = "open"
    BY <1>1, <1>3 DEF phaseBar, AcceptsRuns
  <2>2. Gate!StartRun(r)
    BY <1>2, <1>3, <2>1 DEF Gate!StartRun, phaseBar, runningBar
  <2> QED
    BY <2>2 DEF Gate!Next
<1>4. CASE Missed(SessionOf[r])
  <2>1. Gate!Trespass(r)
    BY <1>2, <1>4
    DEF Gate!Trespass, Gate!Unread, Missed, phaseBar, runningBar
  <2> QED
    BY <2>1 DEF Gate!Next
<1> QED
  BY <1>3, <1>4, GateReads

LEMMA GateClose ==
  ASSUME TypeOK, NEW s \in Sessions, thread' = [thread EXCEPT ![s] = "stopped"],
         \A r \in Runs : SessionOf[r] = s => status[r] # "running",
         UNCHANGED status, misreads' = misreads \/ Missed(s)
  PROVE  Gate!Next
<1>1. phaseBar' = [phaseBar EXCEPT ![s] = "closed"] /\ runningBar' = runningBar
  BY PhaseWrite DEF TypeOK, runningBar
<1>2. Gate!RunningIn(s) = {}
  BY DEF Gate!RunningIn
<1>3. CASE misreads' = misreads
  <2>1. Gate!Close(s)
    BY <1>1, <1>2, <1>3 DEF Gate!Close, phaseBar, runningBar
  <2> QED
    BY <2>1 DEF Gate!Next
<1>4. CASE Missed(s)
  <2>1. Gate!Reopen(s)
    BY <1>1, <1>2, <1>4
    DEF Gate!Reopen, Gate!Unread, Missed, phaseBar, runningBar
  <2> QED
    BY <2>1 DEF Gate!Next
<1> QED
  BY <1>3, <1>4

LEMMA GateDrain ==
  ASSUME TypeOK, NEW s \in Sessions, NEW t, LookUp(s, t), t # "stopped",
         thread' = [thread EXCEPT ![s] = "stopping"], UNCHANGED status
  PROVE  Gate!Next \/ UNCHANGED Gate!vars
<1>0. thread \in [Sessions -> ThreadStatus]
  BY DEF TypeOK
<1>1. phaseBar' = [phaseBar EXCEPT ![s] = "draining"] /\ runningBar' = runningBar
  BY <1>0, PhaseWrite DEF runningBar
<1>2. CASE misreads' = misreads /\ thread[s] = "stopping"
  <2>1. thread' = thread
    BY <1>0, <1>2
  <2> QED
    BY <1>2, <2>1, GateStutter
<1>3. CASE misreads' = misreads /\ t = thread[s] /\ thread[s] # "stopping"
  <2>1. phaseBar[s] = "open"
    BY <1>3 DEF phaseBar
  <2>2. Gate!Drain(s)
    BY <1>1, <1>3, <2>1 DEF Gate!Drain, phaseBar, runningBar
  <2> QED
    BY <2>2 DEF Gate!Next
<1>4. CASE Missed(s)
  <2>1. Gate!Reopen(s)
    BY <1>1, <1>4 DEF Gate!Reopen, Gate!Unread, Missed, phaseBar, runningBar
  <2> QED
    BY <2>1 DEF Gate!Next
<1> QED
  BY <1>2, <1>3, <1>4, GateReads

(* A record that did not exist, and now says active, is still open; one    *)
(* written over a record that could not be read reopens the session.       *)
LEMMA GateRecord ==
  ASSUME TypeOK, NEW s \in Sessions, UNCHANGED status, NEW t, LookUp(s, t),
         thread' = [thread EXCEPT ![s] = IF t = None THEN "active" ELSE t]
  PROVE  Gate!Next \/ UNCHANGED Gate!vars
<1>0. thread \in [Sessions -> ThreadStatus] /\ runningBar' = runningBar
  BY DEF TypeOK, runningBar
<1>1. CASE t = thread[s] /\ misreads' = misreads
  <2>1. phaseBar' = phaseBar
    BY <1>0, <1>1 DEF phaseBar, None
  <2> QED
    BY <1>0, <1>1, <2>1 DEF Gate!vars, phaseBar, runningBar
<1>2. CASE Missed(s) /\ t = thread[s]
  <2>1. thread' = [thread EXCEPT ![s] = "active"] \/ thread' = thread
    BY <1>0, <1>2
  <2>2. phaseBar' = [phaseBar EXCEPT ![s] = "open"] \/ phaseBar' = phaseBar
    BY <1>0, <2>1, PhaseWrite DEF phaseBar
  <2>3. Gate!Reopen(s) \/ Gate!Miss(s)
    BY <1>0, <1>2, <2>2
    DEF Gate!Reopen, Gate!Miss, Gate!Unread, Missed, phaseBar, runningBar
  <2> QED
    BY <2>3 DEF Gate!Next
<1>3. CASE Missed(s) /\ t = None
  <2>1. thread' = [thread EXCEPT ![s] = "active"]
    BY <1>3
  <2>2. phaseBar' = [phaseBar EXCEPT ![s] = "open"]
    BY <1>0, <2>1, PhaseWrite
  <2>3. Gate!Reopen(s)
    BY <1>0, <1>3, <2>2
    DEF Gate!Reopen, Gate!Unread, Missed, phaseBar, runningBar
  <2> QED
    BY <2>3 DEF Gate!Next
<1> QED
  BY <1>1, <1>2, <1>3, GateReads DEF LookUp

LEMMA GateStep ==
  ASSUME IInv, [Next]_vars
  PROVE  Gate!Next \/ UNCHANGED Gate!vars
<1>0. TypeOK
  BY DEF IInv
<1>1. ASSUME NEW c \in Callers, CallerStep(c)
      PROVE  Gate!Next \/ UNCHANGED Gate!vars
  <2>1. CallShape(call[c])
    BY DEF IInv, CallsOK
  <2>2. CASE RecordSessionRun(c)
    <3>1. call[c].session \in Sessions
      BY <2>1, <2>2, LifecycleAssumption
      DEF CallShape, NoCall, RecordSessionRun, At
    <3> QED
      BY <1>0, <2>2, <3>1, GateRecord DEF RecordSessionRun
  <2>3. CASE AcquireLease(c)
    <3>1. call[c].run \in Runs
      BY <2>1, <2>3 DEF CallShape, NoCall, AcquireLease, At
    <3> QED
      BY <1>0, <2>3, <3>1, GateEnd, GateStutter DEF AcquireLease, faults
  <2>4. CASE SuspendRun(c)
    <3>1. call[c].run \in Runs
      BY <2>1, <2>4 DEF CallShape, NoCall, SuspendRun, At
    <3> QED
      BY <1>0, <2>4, <3>1, GateEnd DEF SuspendRun, faults
  <2>5. CASE ReleaseLease(c) \/ EmitSessionEnded(c)
    BY <2>5, GateStutter DEF ReleaseLease, EmitSessionEnded, records, faults
  <2>6. CASE CompleteDrainedSessionIfIdle(c)
    <3>1. call[c].session \in Sessions
      BY <2>1, <2>6, LifecycleAssumption
      DEF CallShape, NoCall, CompleteDrainedSessionIfIdle, At
    <3>0. PICK t \in ThreadStatus : LookUp(call[c].session, t)
      BY <2>6 DEF CompleteDrainedSessionIfIdle
    <3>2. CASE /\ ActiveRuns(call[c].session) = {}
               /\ thread' = [thread EXCEPT ![call[c].session] = "stopped"]
      <4>1. \A r \in Runs : SessionOf[r] = call[c].session => status[r] # "running"
        BY <3>2 DEF ActiveRuns, Active
      <4> QED
        BY <1>0, <2>6, <3>0, <3>1, <3>2, <4>1, GateClose, GateReads
        DEF CompleteDrainedSessionIfIdle
    <3>3. CASE thread' = thread
      BY <2>6, <3>0, <3>1, <3>3, GateMiss DEF CompleteDrainedSessionIfIdle
    <3> QED
      BY <2>6, <3>2, <3>3 DEF CompleteDrainedSessionIfIdle
  <2>7. CASE InterruptNext(c)
    <3>1. PICK r \in call[c].todo : PutStatus(r, Interrupted(r))
      BY <2>7 DEF InterruptNext
    <3>2. r \in Runs
      BY <1>0 DEF TypeOK, Call
    <3>3. Interrupted(r) # "running"
      BY DEF Interrupted, Terminal
    <3> QED
      BY <1>0, <2>7, <3>1, <3>2, <3>3, GateEnd DEF InterruptNext, faults
  <2>8. CASE PutStoppedSession(c)
    <3>1. /\ call[c].session \in Sessions
          /\ call[c].op = "cancelActive"
      BY <2>1, <2>8 DEF CallShape, NoCall, PutStoppedSession, At, LoopSteps
    <3>2. \A r \in Runs : SessionOf[r] = call[c].session => status[r] # "running"
      BY <2>8, <3>1 DEF IInv, StopCovers, PutStoppedSession, Active
    <3> QED
      BY <1>0, <2>8, <3>1, <3>2, GateClose DEF PutStoppedSession, faults
  <2>9. CASE ResumeLoop(c)
    <3>1. call[c].run \in Runs
      BY <2>1, <2>9 DEF CallShape, NoCall, ResumeLoop, At
    <3>2. CASE UNCHANGED <<status, misreads>>
      BY <2>9, <3>2, GateStutter DEF ResumeLoop
    <3>3. ASSUME NEW t \in ThreadStatus, LookUp(SessionOf[call[c].run], t),
                 \/ AcceptsRuns(t) /\ PutStatus(call[c].run, "running")
                 \/ UNCHANGED status
          PROVE  Gate!Next \/ UNCHANGED Gate!vars
      BY <1>0, <2>9, <3>1, <3>3, GateStart, GateMiss, LifecycleAssumption
      DEF ResumeLoop
    <3> QED
      BY <2>9, <3>2, <3>3 DEF ResumeLoop
  <2>10. CASE DenyRun(c)
    <3>1. call[c].run \in Runs
      BY <2>1, <2>10 DEF CallShape, NoCall, DenyRun, At
    <3> QED
      BY <1>0, <2>10, <3>1, GateEnd DEF DenyRun, faults
  <2> QED
    BY <1>1, <2>2, <2>3, <2>4, <2>5, <2>6, <2>7, <2>8, <2>9, <2>10 DEF CallerStep
<1>2. ASSUME NEW c \in Callers, CallbackReturn(c)
      PROVE  Gate!Next \/ UNCHANGED Gate!vars
  <2>1. CASE EnterLoop(c)
    BY <2>1, GateStutter DEF EnterLoop, faults
  <2>2. ASSUME NEW outcome \in {"completed", "failed", "denied"}, FinishRun(c, outcome)
        PROVE  Gate!Next
    <3>1. call[c].run \in Runs
      BY <2>2 DEF IInv, CallsOK, CallShape, NoCall, FinishRun, At
    <3> QED
      BY <1>0, <2>2, <3>1, GateEnd DEF FinishRun, faults
  <2>3. ASSUME NEW a \in Approvals, RequestApproval(c, a)
        PROVE  UNCHANGED Gate!vars
    BY <2>3, GateStutter DEF RequestApproval, faults
  <2> QED
    BY <1>2, <2>1, <2>2, <2>3 DEF CallbackReturn
<1>3. ASSUME NEW c \in Callers, HostCall(c)
      PROVE  Gate!Next \/ UNCHANGED Gate!vars
  <2>1. ASSUME NEW r \in Runs, SubmitRun(c, r)
        PROVE  Gate!Next
    BY <1>0, <2>1, GateStart DEF SubmitRun
  <2>2. ASSUME NEW r \in Runs, InterruptRun(c, r)
        PROVE  Gate!Next
    <3>1. Interrupted(r) # "running"
      BY DEF Interrupted, Terminal
    <3> QED
      BY <1>0, <2>2, <3>1, GateEnd DEF InterruptRun, faults
  <2>3. ASSUME NEW s \in Sessions, StopSessionDrain(c, s)
        PROVE  Gate!Next \/ UNCHANGED Gate!vars
    <3>0. PICK t \in ThreadStatus : LookUp(s, t) /\ CanStop(s, t)
      BY <2>3 DEF StopSessionDrain
    <3>1. CASE thread' = [thread EXCEPT ![s] = "stopping"]
      BY <1>0, <2>3, <3>0, <3>1, GateDrain DEF StopSessionDrain, CanStop
    <3>2. CASE /\ ActiveRuns(s) = {}
               /\ thread' = [thread EXCEPT ![s] = "stopped"]
      <4>1. \A r \in Runs : SessionOf[r] = s => status[r] # "running"
        BY <3>2 DEF ActiveRuns, Active
      <4> QED
        BY <1>0, <2>3, <3>0, <3>2, <4>1, GateClose, GateReads DEF StopSessionDrain
    <3> QED
      BY <2>3, <3>1, <3>2 DEF StopSessionDrain
  <2>4. ASSUME \/ \E r \in Runs : ResumeCheckpoint(c, r)
               \/ \E a \in Approvals : DenyApproval(c, a)
        PROVE  UNCHANGED Gate!vars
    BY <2>4, GateStutter DEF ResumeCheckpoint, DenyApproval, records, faults
  <2>5. ASSUME NEW s \in Sessions, StopSessionCancel(c, s)
        PROVE  Gate!Next \/ UNCHANGED Gate!vars
    BY <2>5, GateMiss DEF StopSessionCancel, records
  <2>6. ASSUME NEW a \in Approvals, ApproveRun(c, a)
        PROVE  Gate!Next \/ UNCHANGED Gate!vars
    BY <2>6, GateMiss, LifecycleAssumption DEF ApproveRun, records
  <2> QED
    BY <1>3, <2>1, <2>2, <2>3, <2>4, <2>5, <2>6 DEF HostCall
<1>4. CASE \/ \E c \in Callers : CancelContext(c)
           \/ Crash
           \/ \E r \in Runs : ExpireLease(r)
           \/ UNCHANGED vars
  BY <1>4, GateStutter DEF CancelContext, Crash, ExpireLease, vars, records, faults
<1> QED
  BY <1>1, <1>2, <1>3, <1>4 DEF Next

(* Every behaviour of the lifecycle is a behaviour of the session gate:    *)
(* runs start in open sessions only, and a session closes when nothing     *)
(* runs in it; a step that breaks the rule is one whose lookup failed.     *)
THEOREM RefinesGate == Spec => ImplementsGate
<1>1. Init => Gate!Init
  BY GateInit
<1>2. IInv /\ [Next]_vars => [Gate!Next]_(Gate!vars)
  BY GateStep
<1> QED
  BY <1>1, <1>2, Inductive, PTL DEF Spec, ImplementsGate, Gate!Spec

(***************************************************************************)
(* The lease of each run is a RunLock                                      *)
(***************************************************************************)

(* What a step is to the lock of run r. *)
LockStep(r) ==
  \/ UNCHANGED Lock(r)!vars
  \/ \E c \in Callers :
       /\ call'[c] # call[c]
       /\ Lock(r)!GiveBack(c) \/ \E a \in Activities : Lock(r)!Take(c, a)
  \/ \E C \in SUBSET Callers : Lock(r)!Lose(C)
  \/ Lock(r)!Lapse

LEMMA LockSame ==
  ASSUME UNCHANGED leases, NEW r \in Runs
  PROVE  LockStep(r)
BY DEF leases, LockStep, Lock!vars

LEMMA AcquireLocks ==
  ASSUME IInv, NEW c \in Callers, AcquireLease(c), NEW r \in Runs
  PROVE  LockStep(r)
<1> DEFINE k == call[c]
<1>1. /\ lease \in [Runs -> Activities \cup {None}] /\ holders \in [Runs -> SUBSET Callers]
      /\ call \in [Callers -> Call]
  BY DEF IInv, TypeOK
<1>2. k.run \in Runs /\ k.activity \in Activities
  BY DEF IInv, CallsOK, CallShape, AcquireLease, At, NoCall
<1>3. CASE UNCHANGED leases
  BY <1>3, LockSame
<1>4. CASE /\ lease[k.run] \in {None, k.activity}
           /\ lease' = [lease EXCEPT ![k.run] = k.activity]
           /\ holders' = [holders EXCEPT ![k.run] = @ \cup {c}]
           /\ GoTo(c, "packet")
  <2>1. call'[c] # call[c]
    BY <1>1, <1>4 DEF GoTo, AcquireLease, At, Call
  <2>2. CASE r = k.run
    <3>1. Lock(r)!Take(c, k.activity)
      BY <1>1, <1>2, <1>4, <2>2 DEF Lock!Take
    <3> QED BY <1>2, <2>1, <3>1 DEF LockStep
  <2>3. CASE r # k.run
    BY <1>1, <1>4, <2>3 DEF LockStep, Lock!vars
  <2> QED BY <2>2, <2>3
<1> QED BY <1>3, <1>4 DEF AcquireLease

LEMMA ReleaseLocks ==
  ASSUME IInv, NEW c \in Callers, ReleaseLease(c), NEW r \in Runs
  PROVE  LockStep(r)
<1> DEFINE k == call[c]
<1>1. /\ lease \in [Runs -> Activities \cup {None}] /\ holders \in [Runs -> SUBSET Callers]
      /\ call \in [Callers -> Call]
  BY DEF IInv, TypeOK
<1>2. CASE UNCHANGED leases
  BY <1>2, LockSame
<1>3. CASE /\ c \in holders[k.run]
           /\ lease' = [lease EXCEPT ![k.run] = None]
           /\ holders' = [holders EXCEPT ![k.run] = {}]
  <2>1. call'[c] # call[c]
    BY <1>1 DEF ReleaseLease, Return, At, NoCall
  <2>2. CASE r = k.run
    <3>1. Lock(r)!GiveBack(c)
      BY <1>1, <1>3, <2>2 DEF Lock!GiveBack
    <3> QED BY <2>1, <3>1 DEF LockStep
  <2>3. CASE r # k.run
    BY <1>1, <1>3, <2>3 DEF LockStep, Lock!vars
  <2> QED BY <2>2, <2>3
<1> QED BY <1>2, <1>3 DEF ReleaseLease

LEMMA NextLocks ==
  ASSUME IInv, [Next]_vars, NEW r \in Runs
  PROVE  LockStep(r)
<1>1. ASSUME NEW c \in Callers, CallerStep(c) PROVE LockStep(r)
  <2>1. CASE AcquireLease(c)
    BY <2>1, AcquireLocks
  <2>2. CASE ReleaseLease(c)
    BY <2>2, ReleaseLocks
  <2>3. CASE \/ RecordSessionRun(c) \/ SuspendRun(c) \/ CompleteDrainedSessionIfIdle(c)
             \/ EmitSessionEnded(c) \/ InterruptNext(c) \/ PutStoppedSession(c)
             \/ ResumeLoop(c) \/ DenyRun(c)
    BY <2>3, LockSame DEF RecordSessionRun, SuspendRun, CompleteDrainedSessionIfIdle,
       EmitSessionEnded, InterruptNext, PutStoppedSession, ResumeLoop, DenyRun
  <2> QED BY <1>1, <2>1, <2>2, <2>3 DEF CallerStep
<1>2. ASSUME NEW c \in Callers, CallbackReturn(c) PROVE LockStep(r)
  BY <1>2, LockSame DEF CallbackReturn, EnterLoop, FinishRun, RequestApproval
<1>3. ASSUME NEW c \in Callers, HostCall(c) PROVE LockStep(r)
  BY <1>3, LockSame DEF HostCall, SubmitRun, InterruptRun, ResumeCheckpoint, StopSessionDrain,
     StopSessionCancel, ApproveRun, DenyApproval
<1>4. ASSUME NEW c \in Callers, CancelContext(c) PROVE LockStep(r)
  <2>1. Lock(r)!Lose({c})
    BY <1>4 DEF CancelContext, Lock!Lose
  <2> QED BY <2>1 DEF LockStep
<1>5. CASE Crash
  <2>1. holders[r] \subseteq Callers
    BY DEF IInv, TypeOK
  <2>2. Lock(r)!Lose(Callers)
    BY <1>5, <2>1 DEF Crash, Lock!Lose
  <2> QED BY <2>2 DEF LockStep
<1>6. ASSUME NEW x \in Runs, ExpireLease(x) PROVE LockStep(r)
  <2>1. lease \in [Runs -> Activities \cup {None}]
    BY DEF IInv, TypeOK
  <2>2. CASE x = r
    <3>1. Lock(r)!Lapse
      BY <1>6, <2>1, <2>2 DEF ExpireLease, Lock!Lapse
    <3> QED BY <3>1 DEF LockStep
  <2>3. CASE x # r
    BY <1>6, <2>1, <2>3 DEF ExpireLease, LockStep, Lock!vars
  <2> QED BY <2>2, <2>3
<1>7. CASE UNCHANGED vars
  BY <1>7, LockSame DEF vars
<1> QED BY <1>1, <1>2, <1>3, <1>4, <1>5, <1>6, <1>7 DEF Next

(* The calls use the lease on each run as RunLock allows, each for itself: *)
(* Acquire and Release of loop.go, a cancelled context, a crash and the    *)
(* lapse of a lease.                                                       *)
THEOREM LeaseIsLock == Spec => LeasesAreLocks
<1>1. Init => \A r \in Runs : Lock(r)!Init
  BY DEF Init, Lock!Init
<1>2. IInv /\ [Next]_vars => [\A r \in Runs : LockStep(r)]_vars
  BY NextLocks
<1> QED BY <1>1, <1>2, Inductive, PTL DEF Spec, LeasesAreLocks, LockStep

(* So each run's lease implements the lock that RunLease provides: what    *)
(* the lifecycle is proved of rests on nothing else about leases.          *)
THEOREM RefinesRunLock ==
  ASSUME NEW r \in Runs
  PROVE  Spec => Lock(r)!Spec
<1>1. Init => Lock(r)!Init
  BY DEF Init, Lock!Init
<1>2. IInv /\ [Next]_vars => [Lock(r)!Next]_(Lock(r)!vars)
  BY NextLocks DEF LockStep, Lock!Next
<1> QED BY <1>1, <1>2, Inductive, PTL DEF Spec, Lock!Spec
================================================================================
