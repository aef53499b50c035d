------------------------------- MODULE ToolLoop -------------------------------
(***************************************************************************)
(* The core loop of one run: model turns, rounds of tool calls behind the  *)
(* permission center, the iteration budget, the checkpoints written on the *)
(* way, the suspension for an approval, and the resume from an approval or *)
(* a checkpoint after a suspension, a failure or a crash.                  *)
(*                                                                         *)
(* Messages are reduced to the tool calls that still lack a tool message;  *)
(* events and the messages that steer a replan are left out.  All calls    *)
(* are of one tool that has side effects unless the call is "read".  The   *)
(* owner has one call in progress, and the session of the run stays open.  *)
(***************************************************************************)
EXTENDS Naturals, SequencesExt

CONSTANTS
  MaxToolIterations,  \* the budget of tool rounds
  Answers,            \* what a model turn may return: its calls, an approval
  ModelNamesCalls,    \* does the model give its calls and approvals ids
  ResumeNodes,        \* the kinds of checkpoint the host resumes from
  LatestOnly,         \* does the host only resume from the latest of them
  MaxResumes          \* bound on resumes

None == "none"
NoApproval == <<>>   \* ids are tuples; the empty one names no approval
RunWide == <<>>      \* the grant of allow_all_for_run has no action id

ASSUME ToolLoopAssumption ==
  /\ MaxToolIterations \in Nat \ {0}
  /\ \A answer \in Answers :
       answer.approval \in BOOLEAN /\ answer.calls \in Seq({"read", "write"})
  /\ ModelNamesCalls \in BOOLEAN
  /\ LatestOnly \in BOOLEAN
  /\ MaxResumes \in Nat

VARIABLES
  status,       \* the status of the run's record
  at,           \* where the loop is, or None
  loop,         \* the loopContinuation in memory
  answer,       \* the response of the last model turn, as calls
  todo,         \* the calls executeToolCallsWithPermission has still to make
  resumed,      \* are these the pending calls of a resume
  finalizing,   \* convergence asked for a final answer
  checkpoints,  \* the checkpoints the host may resume from
  approvals,    \* the permission records, by approval id
  grants,       \* the persisted grants
  turn,         \* model turns taken
  resumes,      \* resumes so far
  history       \* what happened to calls, see NoHistory

control == <<at, todo, resumed, finalizing>>
stored == <<checkpoints, approvals, grants>>
vars == <<status, loop, answer, control, stored, turn, resumes, history>>

(***************************************************************************)
(* The continuation                                                        *)
(***************************************************************************)
InitialLoop ==
  [iteration |-> 0, rounds |-> 0, pending |-> <<>>, unanswered |-> {},
   approval |-> NoApproval]

NoAnswer == [calls |-> <<>>, approval |-> FALSE]

(* History of the run: the calls that a reviewer allowed who saw that very *)
(* call, those executed, those checkpointed with their observation, those  *)
(* executed again after that, and those that a resume or a suspension left *)
(* out; and whether the run failed with tool_iteration_limit_exceeded.     *)
NoHistory ==
  [allowed |-> {}, executed |-> {}, repeated |-> {}, recorded |-> {},
   dropped |-> {}, limitHit |-> FALSE]

(* normalizeToolCall: a call without an id is named by its round and index. *)
Call(kind, round, i) ==
  [turn |-> turn, index |-> i, kind |-> kind,
   id |-> IF ModelNamesCalls THEN <<turn, i>> ELSE <<round, i>>]

(* fillApprovalScope: an approval without an id is named by its run. *)
ModelApproval == IF ModelNamesCalls THEN <<turn>> ELSE <<0>>

Resumable == {"running", "suspended", "failed"}

(* appendLoopCheckpoint, as far as the host will use the checkpoint. *)
Checkpoint(node, state) ==
  checkpoints' =
    IF node \notin ResumeNodes THEN checkpoints
    ELSE LET new == [node |-> node, loop |-> state] IN
         IF LatestOnly THEN {new} ELSE checkpoints \cup {new}

At(pc) == at = pc
GoTo(pc) == at' = pc /\ UNCHANGED <<todo, resumed, finalizing>>

(* The loop returns to its caller and forgets what it kept in memory. *)
LeaveLoop ==
  /\ at' = None
  /\ todo' = <<>>
  /\ resumed' = FALSE
  /\ finalizing' = FALSE
  /\ loop' = InitialLoop
  /\ answer' = NoAnswer

Finish(outcome) == status' = outcome /\ LeaveLoop

Init ==
  /\ status = None
  /\ at = None
  /\ loop = InitialLoop
  /\ answer = NoAnswer
  /\ todo = <<>>
  /\ resumed = FALSE
  /\ finalizing = FALSE
  /\ checkpoints = {}
  /\ approvals = <<>>
  /\ grants = {}
  /\ turn = 0
  /\ resumes = 0
  /\ history = NoHistory

(***************************************************************************)
(* Model turns                                                             *)
(***************************************************************************)
SubmitRun ==
  /\ status = None
  /\ status' = "running"
  /\ Checkpoint("context_packet", InitialLoop)
  /\ GoTo("request")
  /\ UNCHANGED <<loop, answer, approvals, grants, turn, resumes, history>>

RequestModelTurn ==
  /\ At("request")
  /\ Checkpoint("model_request", loop)
  /\ GoTo("turn")
  /\ UNCHANGED <<status, loop, answer, approvals, grants, turn, resumes, history>>

(* The final answer: its tool calls are discarded. *)
FinalAnswer ==
  /\ At("turn")
  /\ finalizing
  /\ Checkpoint("terminal", loop)
  /\ turn' = turn + 1
  /\ Finish("completed")
  /\ UNCHANGED <<approvals, grants, resumes, history>>

(* The response is recorded; the checkpoint, unlike the loop, has its      *)
(* calls pending and the next iteration.                                   *)
RecordResponse(response) ==
  LET calls == [i \in 1 .. Len(response.calls) |->
                  Call(response.calls[i], loop.rounds, i)]
      after == [loop EXCEPT !.unanswered = @ \cup ToSet(calls)]
  IN
  /\ At("turn")
  /\ ~finalizing
  /\ turn' = turn + 1
  /\ loop' = after
  /\ answer' = [calls |-> calls, approval |-> response.approval]
  /\ Checkpoint("model_response",
       IF calls = <<>> THEN after
       ELSE [after EXCEPT !.pending = calls, !.iteration = @ + 1])
  /\ GoTo("route")
  /\ UNCHANGED <<status, approvals, grants, resumes, history>>

Complete ==
  /\ At("route")
  /\ ~answer.approval
  /\ answer.calls = <<>>
  /\ Checkpoint("terminal", loop)
  /\ Finish("completed")
  /\ UNCHANGED <<approvals, grants, turn, resumes, history>>

(* storeModelApprovalContinuation, the checkpoint, suspendRun.  The calls  *)
(* of the same response are not part of the continuation.                  *)
SuspendForModel ==
  LET id == ModelApproval
      kept == [loop EXCEPT !.iteration = @ + 1, !.approval = NoApproval]
  IN
  /\ At("route")
  /\ answer.approval
  /\ approvals' = [k \in DOMAIN approvals \cup {id} |->
                     IF k = id
                     THEN [shows |-> {}, resumable |-> TRUE, loop |-> kept]
                     ELSE approvals[k]]
  /\ Checkpoint("approval_pending", [loop EXCEPT !.approval = id])
  /\ history' = [history EXCEPT !.dropped = @ \cup ToSet(answer.calls)]
  /\ Finish("suspended")
  /\ UNCHANGED <<grants, turn, resumes>>

ExceedLimit ==
  /\ At("route")
  /\ ~answer.approval
  /\ answer.calls # <<>>
  /\ loop.rounds >= MaxToolIterations
  /\ history' = [history EXCEPT !.limitHit = TRUE]
  /\ Finish("failed")
  /\ UNCHANGED <<stored, turn, resumes>>

(* Variant: one round more than the budget. *)
BeginRoundOver ==
  /\ At("route")
  /\ ~answer.approval
  /\ answer.calls # <<>>
  /\ loop.rounds <= MaxToolIterations
  /\ at' = "calls"
  /\ todo' = answer.calls
  /\ UNCHANGED <<status, loop, answer, resumed, finalizing, stored, turn,
                 resumes, history>>

BeginRound ==
  /\ At("route")
  /\ ~answer.approval
  /\ answer.calls # <<>>
  /\ loop.rounds < MaxToolIterations
  /\ at' = "calls"
  /\ todo' = answer.calls
  /\ UNCHANGED <<status, loop, answer, resumed, finalizing, stored, turn,
                 resumes, history>>

(***************************************************************************)
(* A round of tool calls: executeToolCallsWithPermission                   *)
(***************************************************************************)
BeginCall ==
  LET now == [loop EXCEPT !.pending = <<Head(todo)>>] IN
  /\ At("calls")
  /\ todo # <<>>
  /\ loop' = now
  /\ Checkpoint("tool_call", now)
  /\ GoTo("permission")
  /\ UNCHANGED <<status, answer, approvals, grants, turn, resumes, history>>

(* findPermissionGrant: by the id of the action, or for the whole run. *)
Granted(call) == call.id \in grants \/ RunWide \in grants

(* Variant: any grant of the run is taken for this call. *)
AllowCallByAnyGrant ==
  LET call == Head(todo) IN
  /\ At("permission")
  /\ call.kind = "read" \/ grants # {}
  /\ GoTo("execute")
  /\ UNCHANGED <<status, loop, answer, stored, turn, resumes, history>>

AllowCall ==
  LET call == Head(todo) IN
  /\ At("permission")
  /\ call.kind = "read" \/ Granted(call)
  /\ GoTo("execute")
  /\ UNCHANGED <<status, loop, answer, stored, turn, resumes, history>>

(* A permission center of the host denies the call. *)
DenyCall ==
  /\ At("permission")
  /\ Finish("denied")
  /\ UNCHANGED <<stored, turn, resumes, history>>

(* createPermissionRequest: a record without a continuation, over a record *)
(* with the same id.                                                       *)
RequestPermission ==
  LET call == Head(todo) IN
  /\ At("permission")
  /\ call.kind # "read"
  /\ ~Granted(call)
  /\ approvals' = [k \in DOMAIN approvals \cup {call.id} |->
                     IF k = call.id
                     THEN [shows |-> {call}, resumable |-> FALSE,
                           loop |-> InitialLoop]
                     ELSE approvals[k]]
  /\ GoTo("suspend")
  /\ UNCHANGED <<status, loop, answer, checkpoints, grants, turn, resumes, history>>

(* Variant: the continuation keeps only the call that needs approval. *)
SuspendForCallAlone ==
  LET id == Head(todo).id
      kept == [loop EXCEPT !.pending = <<Head(todo)>>,
                           !.iteration = @ + 1, !.approval = NoApproval]
  IN
  /\ At("suspend")
  /\ approvals' = [approvals EXCEPT ![id].resumable = TRUE, ![id].loop = kept]
  /\ Checkpoint("approval_pending", [kept EXCEPT !.approval = id])
  /\ Finish("suspended")
  /\ UNCHANGED <<grants, turn, resumes, history>>

(* Variant: the run is suspended without its continuation. *)
SuspendWithoutContinuation ==
  /\ At("suspend")
  /\ Finish("suspended")
  /\ UNCHANGED <<stored, turn, resumes, history>>

(* storePermissionApprovalContinuation, the checkpoint, suspendRun. *)
SuspendForCall ==
  LET id == Head(todo).id
      kept == [loop EXCEPT !.pending = todo,
                           !.iteration = @ + 1, !.approval = NoApproval]
  IN
  /\ At("suspend")
  /\ approvals' = [approvals EXCEPT ![id].resumable = TRUE, ![id].loop = kept]
  /\ Checkpoint("approval_pending", [kept EXCEPT !.approval = id])
  /\ Finish("suspended")
  /\ UNCHANGED <<grants, turn, resumes, history>>

(* The tool runs in the host; its effect is real whatever comes next. *)
ExecuteTool ==
  LET call == Head(todo) IN
  /\ At("execute")
  /\ history' = [history EXCEPT
                   !.executed = @ \cup {call},
                   !.repeated = IF call \in history.recorded THEN @ \cup {call} ELSE @]
  /\ GoTo("observe")
  /\ UNCHANGED <<status, loop, answer, stored, turn, resumes>>

(* Variant: the checkpoint still has the call pending. *)
ObserveToolStillPending ==
  LET call == Head(todo)
      after == [loop EXCEPT !.unanswered = @ \ {call}]
  IN
  /\ At("observe")
  /\ loop' = after
  /\ Checkpoint("tool_observation", after)
  /\ history' = [history EXCEPT !.recorded = @ \cup {call}]
  /\ at' = "calls"
  /\ todo' = Tail(todo)
  /\ UNCHANGED <<status, answer, resumed, finalizing, approvals, grants, turn, resumes>>

(* Variant: the next call is never reached. *)
ObserveToolAgain ==
  LET call == Head(todo)
      after == [loop EXCEPT !.unanswered = @ \ {call}, !.pending = <<>>]
  IN
  /\ At("observe")
  /\ loop' = after
  /\ Checkpoint("tool_observation", after)
  /\ history' = [history EXCEPT !.recorded = @ \cup {call}]
  /\ GoTo("calls")
  /\ UNCHANGED <<status, answer, approvals, grants, turn, resumes>>

(* The observation joins the messages, and is checkpointed. *)
ObserveTool ==
  LET call == Head(todo)
      after == [loop EXCEPT !.unanswered = @ \ {call}, !.pending = <<>>]
  IN
  /\ At("observe")
  /\ loop' = after
  /\ Checkpoint("tool_observation", after)
  /\ history' = [history EXCEPT !.recorded = @ \cup {call}]
  /\ at' = "calls"
  /\ todo' = Tail(todo)
  /\ UNCHANGED <<status, answer, resumed, finalizing, approvals, grants, turn, resumes>>

(* Variant: the pre-flush fires only past the budget. *)
EndRoundLate ==
  /\ At("calls")
  /\ todo = <<>>
  /\ ~resumed
  /\ loop' = [loop EXCEPT !.rounds = @ + 1, !.iteration = @ + 1]
  /\ finalizing' = (loop.iteration + 1 > MaxToolIterations)
  /\ at' = "request"
  /\ UNCHANGED <<status, answer, todo, resumed, stored, turn, resumes, history>>

(* The round counts; convergence decides whether the next turn is the      *)
(* last: observe(Iteration + 1) against the budget less one.               *)
EndRound ==
  /\ At("calls")
  /\ todo = <<>>
  /\ ~resumed
  /\ loop' = [loop EXCEPT !.rounds = @ + 1, !.iteration = @ + 1]
  /\ finalizing' = (loop.iteration + 1 >= MaxToolIterations - 1)
  /\ at' = "request"
  /\ UNCHANGED <<status, answer, todo, resumed, stored, turn, resumes, history>>

(* The pending calls of a resume are made before the loop: the round       *)
(* counts, and no convergence controller sees it.                          *)
EndResumedRound ==
  /\ At("calls")
  /\ todo = <<>>
  /\ resumed
  /\ loop' = [loop EXCEPT !.rounds = @ + 1]
  /\ resumed' = FALSE
  /\ at' = "request"
  /\ UNCHANGED <<status, answer, todo, finalizing, stored, turn, resumes, history>>

(* A failure of the model, a tool or the store, or a tool call that its    *)
(* schema refuses: failRun.                                                *)
FailRun ==
  /\ at # None
  /\ Finish("failed")
  /\ UNCHANGED <<stored, turn, resumes, history>>

(* The process dies; the store stays as it is. *)
Crash ==
  /\ at # None
  /\ LeaveLoop
  /\ UNCHANGED <<status, stored, turn, resumes, history>>

(***************************************************************************)
(* Resuming                                                                *)
(***************************************************************************)

(* The decision allows the action the record shows, or the whole run. *)
GrantFor(id, decision) ==
  IF decision = "allow_all_for_run" THEN RunWide ELSE id

Decide(id, decision) == grants' = grants \cup {GrantFor(id, decision)}

AllowedBy(id) == [history EXCEPT !.allowed = @ \cup approvals[id].shows]

(* resumeLoopContinuation: the pending calls first. *)
EnterLoop(state) ==
  /\ resumes < MaxResumes
  /\ resumes' = resumes + 1
  /\ status' = "running"
  /\ loop' = [state EXCEPT !.iteration = IF @ = 0 THEN 1 ELSE @]
  /\ todo' = state.pending
  /\ resumed' = (state.pending # <<>>)
  /\ at' = IF state.pending # <<>> THEN "calls" ELSE "request"

(* resumeApproval of an allowing decision: the grant is persisted before   *)
(* the run is looked at, and a run that cannot resume keeps it.            *)
ResumeApproval(id, decision) ==
  /\ at = None
  /\ id \in DOMAIN approvals
  /\ approvals[id].resumable
  /\ Decide(id, decision)
  /\ \/ status \in Resumable /\ EnterLoop([approvals[id].loop EXCEPT !.approval = id])
     \/ status \notin Resumable /\ UNCHANGED <<status, loop, at, todo, resumed, resumes>>
  /\ UNCHANGED <<answer, finalizing, checkpoints, approvals, turn>>

ApproveRun(id, decision) ==
  /\ ResumeApproval(id, decision)
  /\ history' = AllowedBy(id)

(* ResolvePermission records a decision without resuming. *)
ResolvePermission(id, decision) ==
  /\ at = None
  /\ Decide(id, decision)
  /\ history' = AllowedBy(id)
  /\ UNCHANGED <<status, loop, answer, control, checkpoints, approvals, turn, resumes>>

DenyRun(id) ==
  /\ at = None
  /\ id \in DOMAIN approvals
  /\ status' = "denied"
  /\ UNCHANGED <<loop, answer, control, stored, turn, resumes, history>>

(* The calls of the state's last response that are not pending in it. *)
LeftOut(state) == state.unanswered \ ToSet(state.pending)

ResumeCheckpoint(cp) ==
  /\ at = None
  /\ status \in Resumable
  /\ cp.loop.approval = NoApproval
  /\ EnterLoop(cp.loop)
  /\ history' = [history EXCEPT !.dropped = @ \cup LeftOut(cp.loop)]
  /\ UNCHANGED <<answer, finalizing, stored, turn>>

(* A checkpoint with an approval id resumes what that approval's record    *)
(* has, with a decision; the checkpoint's own state is not used.           *)
ResumeApprovalCheckpoint(cp, decision) ==
  LET id == cp.loop.approval IN
  /\ id # NoApproval
  /\ ResumeApproval(id, decision)
  /\ history' = AllowedBy(id)

(***************************************************************************)
(* The specification                                                       *)
(***************************************************************************)
LoopStep ==
  \/ RequestModelTurn \/ FinalAnswer
  \/ \E response \in Answers : RecordResponse(response)
  \/ Complete \/ SuspendForModel \/ ExceedLimit \/ BeginRound
  \/ BeginCall \/ AllowCall \/ DenyCall \/ RequestPermission \/ SuspendForCall
  \/ ExecuteTool \/ ObserveTool \/ EndRound \/ EndResumedRound
  \/ FailRun

Decisions == {"allow_once", "allow_all_for_run"}

HostStep ==
  \/ SubmitRun
  \/ \E id \in DOMAIN approvals :
       \/ \E decision \in Decisions :
            ApproveRun(id, decision) \/ ResolvePermission(id, decision)
       \/ DenyRun(id)
  \/ \E cp \in checkpoints :
       \/ ResumeCheckpoint(cp)
       \/ \E decision \in Decisions : ResumeApprovalCheckpoint(cp, decision)

Next == LoopStep \/ HostStep \/ Crash

Spec == Init /\ [][Next]_vars

(* Callbacks return, and the loop goes on. *)
FairSpec == Spec /\ WF_vars(LoopStep)

(***************************************************************************)
(* Properties                                                              *)
(***************************************************************************)
Id == Seq(Nat)
Calls == [turn : Nat, index : Nat, kind : {"read", "write"}, id : Id]

Continuation ==
  [iteration : Nat, rounds : Nat, pending : Seq(Calls),
   unanswered : SUBSET Calls, approval : Id]

Nodes == {"context_packet", "model_request", "model_response", "tool_call",
          "tool_observation", "approval_pending", "terminal"}

InRound == {"calls", "permission", "suspend", "execute", "observe"}

(* The types, and what the loop's control keeps in step: a call is at hand *)
(* in a step about one, and pending calls are resumed only in their round. *)
TypeOK ==
  /\ status \in {None, "running", "suspended", "completed", "failed", "denied"}
  /\ at \in {None, "request", "turn", "route"} \cup InRound
  /\ loop \in Continuation
  /\ answer \in [calls : Seq(Calls), approval : BOOLEAN]
  /\ todo \in Seq(Calls)
  /\ at \in InRound \ {"calls"} => todo # <<>>
  /\ resumed \in BOOLEAN /\ (resumed => at \in InRound)
  /\ finalizing \in BOOLEAN
  /\ checkpoints \subseteq [node : Nodes, loop : Continuation]
  /\ \A id \in DOMAIN approvals :
       approvals[id] \in [shows : SUBSET Calls, resumable : BOOLEAN,
                          loop : Continuation]
  /\ grants \subseteq Id
  /\ turn \in Nat
  /\ resumes \in 0 .. MaxResumes
  /\ history \in [allowed : SUBSET Calls, executed : SUBSET Calls,
                  repeated : SUBSET Calls, recorded : SUBSET Calls,
                  dropped : SUBSET Calls, limitHit : BOOLEAN]

(* A call with side effects is executed only if a reviewer has allowed     *)
(* that very call, or everything in the run: through suspensions, resumes  *)
(* of any approval or checkpoint, failures and crashes.                    *)
NothingRunsUnapproved ==
  \A call \in history.executed :
    call.kind = "read" \/ call \in history.allowed \/ RunWide \in grants

(* The rounds of a run stay within MaxToolIterations until it has been     *)
(* resumed twice; each later resume, from a checkpoint written when the    *)
(* limit was hit, makes one more round before the limit is looked at.  A   *)
(* budget of one has no turn to flush in, and is exceeded a resume sooner. *)
RoundsBounded ==
  loop.rounds <= MaxToolIterations + (IF resumes > 2 THEN resumes - 2 ELSE 0)

(* A run that is never resumed does not end with                            *)
(* tool_iteration_limit_exceeded: the pre-flush of convergence comes before *)
(* the limit whatever the model answers.                                   *)
FreshRunConverges == resumes = 0 => ~history.limitHit

(* When the model is asked for a turn, every call of its own is answered   *)
(* by a tool message.  The exceptions are the two places known to leave    *)
(* calls out: the calls of a response that also asks for approval, and     *)
(* those a mid-round checkpoint does not list as pending.                  *)
EveryCallAnswered ==
  At("turn") => loop.unanswered \subseteq history.dropped

(* A suspended run has a record with a continuation to go on from, and no  *)
(* continuation has lost a call of the round it was suspended in.          *)
SuspendedRunResumable ==
  /\ status = "suspended" => \E id \in DOMAIN approvals : approvals[id].resumable
  /\ \A id \in DOMAIN approvals :
       approvals[id].resumable => LeftOut(approvals[id].loop) \subseteq history.dropped

(* A host that resumes from the latest checkpoint does not have a call     *)
(* executed again whose observation that checkpoint, or an earlier one,    *)
(* has recorded, wherever the loop failed or crashed.                      *)
RecordedNotRepeated == history.repeated = {}

(* Every activation of the loop ends, whatever the model answers.          *)
LoopExits == At("request") ~> At(None)

(* What an activation can still do, in the order in which it counts: the   *)
(* rounds the budget has room for, the calls of the round at hand, and the *)
(* steps to the next call or turn.                                         *)
RoundsLeft ==
  LET spent == loop.rounds + (IF at \in InRound THEN 1 ELSE 0)
  IN  IF spent < MaxToolIterations THEN MaxToolIterations - spent ELSE 0

CallsLeft == IF at \in InRound THEN Len(todo) + 1 ELSE 0

StepsLeft ==
  CASE at = "calls" -> 3
    [] at \in {"request", "permission"} -> 2
    [] at \in {"turn", "execute", "suspend"} -> 1
    [] OTHER -> 0

WorkLeft == <<RoundsLeft, <<CallsLeft, StepsLeft>>>>

Below(w, v) ==
  \/ w[1] < v[1]
  \/ /\ w[1] = v[1]
     /\ w[2][1] < v[2][1] \/ (w[2][1] = v[2][1] /\ w[2][2] < v[2][2])

(* Every step that does not leave the loop uses some of that up, and no    *)
(* step of the host gives any back while the loop is running: neither the  *)
(* model nor the host can keep an activation going for ever.               *)
LoopDescends == [][at # None /\ at' # None => Below(WorkLeft', WorkLeft)]_vars

================================================================================
