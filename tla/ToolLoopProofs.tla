---------------------------- MODULE ToolLoopProofs ----------------------------
(***************************************************************************)
(* ToolLoop for every budget, any answers of the model and any number of   *)
(* suspensions, failures, crashes and resumes.                             *)
(***************************************************************************)
EXTENDS ToolLoop, SequenceTheorems, WellFoundedInduction, TLAPS

(***************************************************************************)
(* The invariants                                                          *)
(***************************************************************************)

(* The calls of a continuation. *)
CallsOf(state) == state.unanswered \cup ToSet(state.pending)

(* The call is somewhere in memory, in the store or in the history. *)
Known(c) ==
  \/ c \in ToSet(answer.calls) \cup ToSet(todo) \cup CallsOf(loop)
  \/ \E cp \in checkpoints : c \in CallsOf(cp.loop)
  \/ \E id \in DOMAIN approvals :
       c \in CallsOf(approvals[id].loop) \cup approvals[id].shows
  \/ c \in history.allowed \cup history.recorded

(* A call is known by its turn and index, and by its id where the model    *)
(* names its calls; calls to come are of later turns.                      *)
NamesInv ==
  /\ \A c : Known(c) => c.turn < turn
  /\ \A c, d : Known(c) /\ Known(d) /\ c.turn = d.turn /\ c.index = d.index => c = d
  /\ ModelNamesCalls => \A c : Known(c) => c.id = <<c.turn, c.index>>

(* The record of a tool call shows that call, the record of a model        *)
(* approval shows none.                                                    *)
ApprovalsInv ==
  /\ DOMAIN approvals \subseteq Id
  /\ ModelNamesCalls => \A id \in DOMAIN approvals :
       \/ approvals[id].shows = {} /\ \E n \in Nat : id = <<n>>
       \/ \E c : approvals[id].shows = {c} /\ c.id = id

(* Each grant is for the run, of a model approval, or of a call that its   *)
(* reviewer saw.                                                           *)
GrantsInv ==
  ModelNamesCalls => \A g \in grants :
    \/ g = RunWide
    \/ \E n \in Nat : g = <<n>>
    \/ \E c \in history.allowed : c.id = g

Approved(call) ==
  call.kind = "read" \/ call \in history.allowed \/ RunWide \in grants

ExecuteInv == ModelNamesCalls /\ At("execute") => Approved(Head(todo))

(* The loop only runs in a running run, leaves nothing in memory, and where *)
(* it takes up a call's suspension the record is there.                    *)
RunningInv ==
  /\ at # None => status = "running"
  /\ at = None => loop = InitialLoop /\ ~finalizing
  /\ At("suspend") => Head(todo).id \in DOMAIN approvals

(* What lacks a tool message is still to be made, or was left out.         *)
AnsweredInv ==
  /\ at \in {None, "request", "turn"} => loop.unanswered \subseteq history.dropped
  /\ At("route") => loop.unanswered \subseteq history.dropped \cup ToSet(answer.calls)
  /\ at \in InRound => loop.unanswered \subseteq history.dropped \cup ToSet(todo)

(* No call is pending between the rounds. *)
PendingInv ==
  /\ at \in {None, "request", "turn", "route"} => loop.pending = <<>>
  /\ At("calls") /\ todo = <<>> => loop.pending = <<>>

(* Before the first resume the rounds are the iterations, and the budget   *)
(* is not used up where a round may begin.                                 *)
FreshRunInv ==
  resumes = 0 =>
    /\ ~history.limitHit
    /\ at # None =>
         /\ loop.iteration = loop.rounds
         /\ ~resumed
         /\ ~finalizing => loop.rounds < MaxToolIterations
         /\ at \in {"route"} \cup InRound => ~finalizing

IInv ==
  /\ TypeOK
  /\ NamesInv
  /\ ApprovalsInv
  /\ GrantsInv
  /\ ExecuteInv
  /\ ModelNamesCalls => NothingRunsUnapproved
  /\ RunningInv
  /\ AnsweredInv
  /\ PendingInv
  /\ SuspendedRunResumable
  /\ FreshRunInv

(* The rounds of a state that has pending calls after n resumes, and those *)
(* of any state.  A resume counts the pending calls as one more round.     *)
PendingLimit(n) == MaxToolIterations + n - 2
Limit(n) == IF n = 0 THEN MaxToolIterations - 1
            ELSE IF n <= 2 THEN MaxToolIterations ELSE PendingLimit(n)

StateInLimits(state, n) ==
  /\ state.rounds <= Limit(n)
  /\ state.pending # <<>> => state.rounds <= PendingLimit(n)
  /\ n = 0 => state.iteration >= state.rounds

(* Where a round may begin, and in it, the rounds are within the limit of  *)
(* states with pending calls; after one resume the iterations are behind   *)
(* the rounds by at most the resumed round.                                *)
LoopRounds ==
  /\ loop.rounds <= Limit(resumes)
  /\ at \in {"route"} \cup InRound => ~finalizing
  /\ at \in {"request", "turn", "route"} =>
       /\ ~finalizing => loop.rounds <= PendingLimit(resumes)
       /\ resumes = 1 => loop.iteration >= loop.rounds - 1
  /\ at \in InRound =>
       /\ ~resumed => /\ loop.rounds <= PendingLimit(resumes)
                      /\ loop.rounds < MaxToolIterations
                      /\ resumes = 1 => loop.iteration >= loop.rounds - 1
       /\ resumed => /\ loop.rounds <= PendingLimit(resumes - 1)
                     /\ resumes = 1 => loop.iteration >= loop.rounds

RoundsInv ==
  /\ LoopRounds
  /\ \A cp \in checkpoints : StateInLimits(cp.loop, resumes)
  /\ \A id \in DOMAIN approvals : StateInLimits(approvals[id].loop, resumes)

(* The host resumes from the latest checkpoint, and there are no           *)
(* approvals, whose continuations can be resumed again.                    *)
ResumesLatest ==
  /\ LatestOnly
  /\ "tool_observation" \in ResumeNodes
  /\ \A response \in Answers :
       ~response.approval /\ \A i \in DOMAIN response.calls : response.calls[i] = "read"

Distinct(s) == \A i, j \in DOMAIN s : s[i] = s[j] => i = j

(* Calls that may still be made, each once, none of them recorded. *)
ToMake(s) == Distinct(s) /\ ToSet(s) \cap history.recorded = {}

Reads(s) == \A i \in DOMAIN s : s[i].kind = "read"

(* The checkpoint to resume from, and what is in memory. *)
StoreToMake ==
  \A cp \in checkpoints : ToMake(cp.loop.pending) /\ Reads(cp.loop.pending)

MemoryToMake ==
  /\ RecordedNotRepeated
  /\ DOMAIN approvals = {}
  /\ ToMake(todo) /\ Reads(todo)
  /\ At("route") => ToMake(answer.calls) /\ Reads(answer.calls) /\ ~answer.approval

(***************************************************************************)
(* Sequences of calls                                                      *)
(***************************************************************************)
LEMMA ToSetType ==
  ASSUME NEW S, NEW s \in Seq(S)
  PROVE  ToSet(s) \subseteq S
BY DEF ToSet

LEMMA ToSetEmpty == ToSet(<<>>) = {}
BY DEF ToSet

LEMMA ToSetSingle ==
  ASSUME NEW x
  PROVE  ToSet(<<x>>) = {x}
BY DEF ToSet

LEMMA HeadAndTail ==
  ASSUME NEW S, NEW s \in Seq(S), s # <<>>
  PROVE  /\ Head(s) \in S /\ Tail(s) \in Seq(S)
         /\ ToSet(s) = {Head(s)} \cup ToSet(Tail(s))
<1>1. /\ Head(s) \in S /\ Tail(s) \in Seq(S)
      /\ Len(s) \in Nat \ {0} /\ DOMAIN s = 1 .. Len(s) /\ Head(s) = s[1]
      /\ DOMAIN Tail(s) = 1 .. (Len(s) - 1)
      /\ \A i \in 1 .. (Len(s) - 1) : Tail(s)[i] = s[i + 1]
  BY HeadTailProperties, EmptySeq, LenProperties
<1>2. ASSUME NEW i \in DOMAIN s
      PROVE  s[i] = Head(s) \/ s[i] \in ToSet(Tail(s))
  <2>1. CASE i = 1
    BY <1>1, <2>1
  <2>2. CASE i # 1
    <3>1. i - 1 \in DOMAIN Tail(s) /\ Tail(s)[i - 1] = s[i]
      BY <1>1, <2>2
    <3> QED
      BY <3>1 DEF ToSet
  <2> QED
    BY <2>1, <2>2
<1>3. ASSUME NEW i \in DOMAIN Tail(s)
      PROVE  Tail(s)[i] \in ToSet(s)
  <2>1. i + 1 \in DOMAIN s /\ Tail(s)[i] = s[i + 1]
    BY <1>1
  <2> QED
    BY <2>1 DEF ToSet
<1>4. Head(s) \in ToSet(s)
  BY <1>1 DEF ToSet
<1>5. ToSet(s) \subseteq {Head(s)} \cup ToSet(Tail(s))
  BY <1>2 DEF ToSet
<1>6. ToSet(Tail(s)) \subseteq ToSet(s)
  BY <1>3 DEF ToSet
<1> QED
  BY <1>1, <1>4, <1>5, <1>6

(* Ids are sequences of numbers; those of calls, of model approvals and    *)
(* the empty ones differ in their length.                                  *)
LEMMA Ids ==
  /\ <<>> \in Id
  /\ \A n \in Nat : <<n>> \in Id /\ <<n>> # <<>>
  /\ \A m, n \in Nat : <<m, n>> \in Id /\ <<m, n>> # <<>>
  /\ \A m, n, k \in Nat : <<m, n>> # <<k>>
BY DEF Id

(* A checkpoint is added, or replaces the others, or neither. *)
LEMMA CheckpointAdds ==
  ASSUME NEW node, NEW state, Checkpoint(node, state)
  PROVE  checkpoints' \subseteq checkpoints \cup {[node |-> node, loop |-> state]}
BY DEF Checkpoint

LEMMA CheckpointTypes ==
  ASSUME TypeOK, NEW node \in Nodes, NEW state \in Continuation, Checkpoint(node, state)
  PROVE  checkpoints' \subseteq [node : Nodes, loop : Continuation]
BY CheckpointAdds DEF TypeOK

(***************************************************************************)
(* Types                                                                   *)
(***************************************************************************)
LEMMA CallType ==
  ASSUME NEW kind \in {"read", "write"}, NEW round \in Nat, NEW i \in Nat, turn \in Nat
  PROVE  Call(kind, round, i) \in Calls
<1>1. (IF ModelNamesCalls THEN <<turn, i>> ELSE <<round, i>>) \in Id
  BY Ids
<1> QED
  BY <1>1 DEF Call, Calls

(* The calls of a response, as RecordResponse names them. *)
NamedCalls(response) ==
  [i \in 1 .. Len(response.calls) |-> Call(response.calls[i], loop.rounds, i)]

LEMMA NamedCallsType ==
  ASSUME TypeOK, NEW response \in Answers
  PROVE  /\ NamedCalls(response) \in Seq(Calls)
         /\ Len(NamedCalls(response)) = Len(response.calls)
         /\ ToSet(NamedCalls(response)) =
              {Call(response.calls[i], loop.rounds, i) : i \in 1 .. Len(response.calls)}
<1>1. response.calls \in Seq({"read", "write"}) /\ Len(response.calls) \in Nat
  BY ToolLoopAssumption
<1>2. turn \in Nat /\ loop.rounds \in Nat
  BY DEF TypeOK, Continuation
<1>3. \A i \in 1 .. Len(response.calls) : Call(response.calls[i], loop.rounds, i) \in Calls
  BY <1>1, <1>2, CallType
<1>4. NamedCalls(response) \in [1 .. Len(response.calls) -> Calls]
  BY <1>3 DEF NamedCalls
<1>5. NamedCalls(response) \in Seq(Calls) /\ Len(NamedCalls(response)) = Len(response.calls)
  BY <1>1, <1>4
<1> QED
  BY <1>5 DEF ToSet, NamedCalls

(* A continuation one of whose fields is set to a value of its type. *)
LEMMA Edited ==
  ASSUME NEW state \in Continuation
  PROVE  /\ \A n \in Nat : [state EXCEPT !.iteration = n] \in Continuation
         /\ \A n \in Nat : [state EXCEPT !.rounds = n] \in Continuation
         /\ \A s \in Seq(Calls) : [state EXCEPT !.pending = s] \in Continuation
         /\ \A S \in SUBSET Calls : [state EXCEPT !.unanswered = S] \in Continuation
         /\ \A id \in Id : [state EXCEPT !.approval = id] \in Continuation
         /\ \A n \in Nat, id \in Id :
              [state EXCEPT !.iteration = n, !.approval = id] \in Continuation
         /\ \A s \in Seq(Calls), n \in Nat, id \in Id :
              [state EXCEPT !.pending = s, !.iteration = n, !.approval = id] \in Continuation
         /\ \A s \in Seq(Calls), n \in Nat :
              [state EXCEPT !.pending = s, !.iteration = n] \in Continuation
         /\ \A S \in SUBSET Calls, s \in Seq(Calls) :
              [state EXCEPT !.unanswered = S, !.pending = s] \in Continuation
         /\ \A m, n \in Nat :
              [state EXCEPT !.rounds = m, !.iteration = n] \in Continuation
         /\ state.iteration + 1 \in Nat /\ state.rounds + 1 \in Nat
         /\ state.unanswered \in SUBSET Calls /\ state.pending \in Seq(Calls)
         /\ state.approval \in Id
<1> DEFINE P == Seq(Calls)
<1> HIDE DEF P
<1>1. Continuation = [iteration : Nat, rounds : Nat, pending : P,
                      unanswered : SUBSET Calls, approval : Id]
  BY DEF Continuation, P
<1>2. /\ \A n \in Nat : [state EXCEPT !.iteration = n] \in Continuation
      /\ \A n \in Nat : [state EXCEPT !.rounds = n] \in Continuation
      /\ \A s \in P : [state EXCEPT !.pending = s] \in Continuation
      /\ \A S \in SUBSET Calls : [state EXCEPT !.unanswered = S] \in Continuation
      /\ \A id \in Id : [state EXCEPT !.approval = id] \in Continuation
  BY <1>1
<1>3. /\ state.iteration + 1 \in Nat /\ state.rounds + 1 \in Nat
      /\ state.unanswered \in SUBSET Calls /\ state.pending \in P
      /\ state.approval \in Id
  BY <1>1
<1>4. /\ \A n \in Nat, id \in Id :
           [state EXCEPT !.iteration = n, !.approval = id] \in Continuation
      /\ \A s \in P, n \in Nat, id \in Id :
           [state EXCEPT !.pending = s, !.iteration = n, !.approval = id] \in Continuation
      /\ \A s \in P, n \in Nat :
           [state EXCEPT !.pending = s, !.iteration = n] \in Continuation
      /\ \A S \in SUBSET Calls, s \in P :
           [state EXCEPT !.unanswered = S, !.pending = s] \in Continuation
      /\ \A m, n \in Nat :
           [state EXCEPT !.rounds = m, !.iteration = n] \in Continuation
  BY <1>1
<1> QED
  BY <1>2, <1>3, <1>4 DEF P

LEMMA CallSequences ==
  /\ <<>> \in Seq(Calls)
  /\ \A c \in Calls : <<c>> \in Seq(Calls)
OBVIOUS

LEMMA InitialLoopType == InitialLoop \in Continuation
BY Ids DEF InitialLoop, Continuation, NoApproval

LEMMA NoAnswerType == NoAnswer \in [calls : Seq(Calls), approval : BOOLEAN]
BY DEF NoAnswer

(* What a loop that ends leaves behind has its types. *)
LEMMA LeaveLoopTypes ==
  ASSUME TypeOK, LeaveLoop,
         status' \in {None, "running", "suspended", "completed", "failed", "denied"},
         checkpoints' \subseteq [node : Nodes, loop : Continuation],
         \A id \in DOMAIN approvals' :
           approvals'[id] \in [shows : SUBSET Calls, resumable : BOOLEAN,
                               loop : Continuation],
         grants' = grants, turn' \in Nat, resumes' = resumes,
         history' \in [allowed : SUBSET Calls, executed : SUBSET Calls,
                       repeated : SUBSET Calls, recorded : SUBSET Calls,
                       dropped : SUBSET Calls, limitHit : BOOLEAN]
  PROVE  TypeOK'
<1>1. /\ at' = None /\ todo' = <<>> /\ resumed' = FALSE /\ finalizing' = FALSE
      /\ loop' \in Continuation /\ answer' \in [calls : Seq(Calls), approval : BOOLEAN]
  BY InitialLoopType, NoAnswerType DEF LeaveLoop
<1>2. at' \notin InRound
  BY <1>1 DEF InRound, None
<1>3. todo' \in Seq(Calls) /\ at' \in {None}
  BY <1>1
<1> QED
  BY <1>1, <1>2, <1>3 DEF TypeOK

LEMMA InitTypes == Init => TypeOK
<1> SUFFICES ASSUME Init PROVE TypeOK
  OBVIOUS
<1>1. at \notin InRound
  BY DEF Init, InRound, None
<1>2. todo \in Seq(Calls) /\ grants \subseteq Id /\ DOMAIN approvals = {}
  BY DEF Init
<1>3. turn \in Nat /\ resumes \in 0 .. MaxResumes
  BY ToolLoopAssumption DEF Init
<1>4. loop \in Continuation /\ answer \in [calls : Seq(Calls), approval : BOOLEAN]
  BY InitialLoopType, NoAnswerType DEF Init
<1>5. history \in [allowed : SUBSET Calls, executed : SUBSET Calls,
                  repeated : SUBSET Calls, recorded : SUBSET Calls,
                  dropped : SUBSET Calls, limitHit : BOOLEAN]
  BY DEF Init, NoHistory
<1> QED
  BY <1>1, <1>2, <1>3, <1>4, <1>5 DEF Init, TypeOK

ApprovalRecord == [shows : SUBSET Calls, resumable : BOOLEAN, loop : Continuation]

LEMMA LeavingTypes ==
  ASSUME TypeOK, ApprovalsInv,
         FinalAnswer \/ Complete \/ ExceedLimit \/ DenyCall \/ FailRun \/ Crash
           \/ SuspendForModel \/ SuspendForCall
  PROVE  TypeOK'
<1>0. /\ loop \in Continuation /\ turn \in Nat
      /\ status \in {None, "running", "suspended", "completed", "failed", "denied"}
      /\ checkpoints \subseteq [node : Nodes, loop : Continuation]
      /\ \A id \in DOMAIN approvals : approvals[id] \in ApprovalRecord
  BY DEF TypeOK, ApprovalRecord
<1>n. "terminal" \in Nodes /\ "approval_pending" \in Nodes
  BY DEF Nodes
<1>1. CASE FinalAnswer \/ Complete
  <2>1. checkpoints' \subseteq [node : Nodes, loop : Continuation]
    BY <1>0, <1>1, <1>n, CheckpointTypes DEF FinalAnswer, Complete
  <2> QED
    BY <1>0, <1>1, <2>1, LeaveLoopTypes DEF FinalAnswer, Complete, Finish, TypeOK
<1>2. CASE ExceedLimit
  BY <1>0, <1>2, LeaveLoopTypes DEF ExceedLimit, Finish, stored, TypeOK
<1>3. CASE DenyCall \/ FailRun \/ Crash
  BY <1>0, <1>3, LeaveLoopTypes DEF DenyCall, FailRun, Crash, Finish, stored, TypeOK
<1>4. CASE SuspendForModel
  <2> DEFINE id == ModelApproval
             kept == [loop EXCEPT !.iteration = @ + 1, !.approval = NoApproval]
  <2>1. ModelApproval \in Id
    BY <1>0, Ids DEF ModelApproval
  <2>2. kept \in Continuation /\ [loop EXCEPT !.approval = id] \in Continuation
    BY <1>0, <2>1, Ids, Edited DEF NoApproval
  <2>3. [shows |-> {}, resumable |-> TRUE, loop |-> kept] \in ApprovalRecord
    BY <2>2 DEF ApprovalRecord
  <2>4. \A k \in DOMAIN approvals' : approvals'[k] \in ApprovalRecord
    BY <1>0, <1>4, <2>3 DEF SuspendForModel
  <2>5. checkpoints' \subseteq [node : Nodes, loop : Continuation]
    BY <1>4, <1>n, <2>2, CheckpointTypes DEF SuspendForModel
  <2>6. ToSet(answer.calls) \subseteq Calls
    BY ToSetType DEF TypeOK
  <2>7. history' \in [allowed : SUBSET Calls, executed : SUBSET Calls,
                     repeated : SUBSET Calls, recorded : SUBSET Calls,
                     dropped : SUBSET Calls, limitHit : BOOLEAN]
    BY <1>4, <2>6 DEF SuspendForModel, TypeOK
  <2> QED
    BY <1>0, <1>4, <2>4, <2>5, <2>7, LeaveLoopTypes
    DEF SuspendForModel, Finish, ApprovalRecord
<1>5. CASE SuspendForCall
  <2> DEFINE id == Head(todo).id
             kept == [loop EXCEPT !.pending = todo,
                                  !.iteration = @ + 1, !.approval = NoApproval]
  <2>1. todo \in Seq(Calls) /\ todo # <<>>
    BY <1>5 DEF SuspendForCall, At, TypeOK, InRound
  <2>2. id \in Id
    <3>1. Head(todo) \in Calls
      BY <2>1, HeadAndTail
    <3> QED
      BY <3>1 DEF Calls
  <2>3. kept \in Continuation
    BY <1>0, <2>1, Ids, Edited DEF NoApproval
  <2>4. [kept EXCEPT !.approval = id] \in Continuation
    <3> HIDE DEF kept
    <3> QED
      BY <2>2, <2>3, Edited
  <2>5. \A k \in DOMAIN approvals' : approvals'[k] \in ApprovalRecord
    <3>1. approvals' = [approvals EXCEPT ![id].resumable = TRUE, ![id].loop = kept]
      BY <1>5 DEF SuspendForCall
    <3> HIDE DEF id, kept
    <3> QED
      BY <1>0, <2>3, <3>1 DEF ApprovalRecord
  <2>6. checkpoints' \subseteq [node : Nodes, loop : Continuation]
    BY <1>5, <1>n, <2>4, CheckpointTypes DEF SuspendForCall
  <2> QED
    BY <1>0, <1>5, <2>5, <2>6, LeaveLoopTypes
    DEF SuspendForCall, Finish, ApprovalRecord, TypeOK
<1> QED
  BY <1>1, <1>2, <1>3, <1>4, <1>5

(* Between model turns. *)
LEMMA TurnTypes ==
  ASSUME TypeOK, RunningInv,
         SubmitRun \/ RequestModelTurn \/ BeginRound \/ EndRound \/ EndResumedRound
           \/ \E response \in Answers : RecordResponse(response)
  PROVE  TypeOK'
<1>0. loop \in Continuation /\ turn \in Nat
  BY DEF TypeOK
<1>n. "context_packet" \in Nodes /\ "model_request" \in Nodes /\ "model_response" \in Nodes
  BY DEF Nodes
<1>1. CASE SubmitRun \/ RequestModelTurn
  <2>1. checkpoints' \subseteq [node : Nodes, loop : Continuation]
    BY <1>0, <1>1, <1>n, InitialLoopType, CheckpointTypes DEF SubmitRun, RequestModelTurn
  <2>2. /\ at' \in {"request", "turn"} /\ status' \in {status, "running"}
        /\ UNCHANGED <<loop, answer, todo, resumed, finalizing, approvals, grants, turn,
                       resumes, history>>
    BY <1>1 DEF SubmitRun, RequestModelTurn, GoTo
  <2>3. ~resumed
    <3>1. at = None \/ at = "request"
      BY <1>1 DEF SubmitRun, RequestModelTurn, At, RunningInv, None
    <3> QED
      BY <3>1 DEF TypeOK, InRound, None
  <2>4. at' \notin InRound
    BY <2>2 DEF InRound
  <2> QED
    BY <2>1, <2>2, <2>3, <2>4 DEF TypeOK
<1>2. CASE BeginRound
  <2>1. /\ at' = "calls" /\ todo' = answer.calls
        /\ UNCHANGED <<status, loop, answer, resumed, finalizing, checkpoints, approvals,
                       grants, turn, resumes, history>>
    BY <1>2 DEF BeginRound, stored
  <2>2. at' \in InRound
    BY <2>1 DEF InRound
  <2> QED
    BY <2>1, <2>2 DEF TypeOK
<1>3. CASE EndRound \/ EndResumedRound
  <2>1. loop' \in Continuation
    <3>1. CASE EndRound
      BY <1>0, <3>1, Edited DEF EndRound
    <3>2. CASE EndResumedRound
      BY <1>0, <3>2, Edited DEF EndResumedRound
    <3> QED
      BY <1>3, <3>1, <3>2
  <2>2. /\ at' = "request"
        /\ UNCHANGED <<status, answer, todo, checkpoints, approvals, grants, turn,
                       resumes, history>>
    BY <1>3 DEF EndRound, EndResumedRound, stored
  <2>5. finalizing' \in BOOLEAN
    <3>1. CASE EndRound
      BY <3>1 DEF EndRound
    <3>2. CASE EndResumedRound
      BY <3>2 DEF EndResumedRound, TypeOK
    <3> QED
      BY <1>3, <3>1, <3>2
  <2>4. resumed' = FALSE
    BY <1>3 DEF EndRound, EndResumedRound, TypeOK
  <2>3. at' \notin InRound
    BY <2>2 DEF InRound
  <2> QED
    BY <2>1, <2>2, <2>3, <2>4, <2>5 DEF TypeOK
<1>4. ASSUME NEW response \in Answers, RecordResponse(response)
      PROVE  TypeOK'
  <2> DEFINE calls == NamedCalls(response)
             after == [loop EXCEPT !.unanswered = @ \cup ToSet(calls)]
  <2>1. calls \in Seq(Calls) /\ ToSet(calls) \subseteq Calls
    BY NamedCallsType, ToSetType
  <2> HIDE DEF calls
  <2>2. /\ after \in Continuation
        /\ [after EXCEPT !.pending = calls, !.iteration = @ + 1] \in Continuation
    <3>1. after \in Continuation
      BY <1>0, <2>1, Edited
    <3> HIDE DEF after
    <3> QED
      BY <2>1, <3>1, Edited
  <2>3. /\ turn' = turn + 1 /\ loop' = after
        /\ answer' = [calls |-> calls, approval |-> response.approval]
        /\ Checkpoint("model_response",
             IF calls = <<>> THEN after
             ELSE [after EXCEPT !.pending = calls, !.iteration = @ + 1])
        /\ GoTo("route")
        /\ UNCHANGED <<status, approvals, grants, resumes, history>>
    BY <1>4 DEF RecordResponse, calls, NamedCalls
  <2> HIDE DEF after
  <2>4. checkpoints' \subseteq [node : Nodes, loop : Continuation]
    BY <1>n, <2>2, <2>3, CheckpointTypes
  <2>5. answer' \in [calls : Seq(Calls), approval : BOOLEAN]
    BY <2>1, <2>3, ToolLoopAssumption
  <2>6. /\ at' = "route" /\ at' \notin InRound
        /\ UNCHANGED <<todo, resumed, finalizing>>
    BY <2>3 DEF GoTo, InRound
  <2>7. ~resumed
    BY <1>4 DEF RecordResponse, At, TypeOK, InRound
  <2> QED
    BY <1>0, <2>2, <2>3, <2>4, <2>5, <2>6, <2>7 DEF TypeOK
<1> QED
  BY <1>1, <1>2, <1>3, <1>4

(* In a round. *)
LEMMA RoundTypes ==
  ASSUME TypeOK, ApprovalsInv,
         BeginCall \/ AllowCall \/ RequestPermission \/ ExecuteTool \/ ObserveTool
  PROVE  TypeOK'
<1>0. /\ loop \in Continuation /\ todo \in Seq(Calls)
      /\ \A id \in DOMAIN approvals : approvals[id] \in ApprovalRecord
      /\ todo # <<>>
  BY DEF TypeOK, ApprovalRecord, InRound, At, BeginCall, AllowCall, RequestPermission,
     ExecuteTool, ObserveTool
<1>h. Head(todo) \in Calls /\ Tail(todo) \in Seq(Calls)
  BY <1>0, HeadAndTail
<1>n. "tool_call" \in Nodes /\ "tool_observation" \in Nodes
  BY DEF Nodes
<1>1. CASE BeginCall
  <2> DEFINE now == [loop EXCEPT !.pending = <<Head(todo)>>]
  <2>1. now \in Continuation
    BY <1>0, <1>h, CallSequences, Edited
  <2>2. /\ at' \in InRound
        /\ UNCHANGED <<status, answer, todo, resumed, finalizing, approvals, grants, turn,
                       resumes, history>>
        /\ loop' = now
    BY <1>1 DEF BeginCall, GoTo, InRound
  <2>3. checkpoints' \subseteq [node : Nodes, loop : Continuation]
    BY <1>1, <1>n, <2>1, CheckpointTypes DEF BeginCall
  <2> HIDE DEF now
  <2> QED
    BY <1>0, <2>1, <2>2, <2>3 DEF TypeOK, InRound
<1>2. CASE AllowCall
  <2>1. /\ at' \in InRound
        /\ UNCHANGED <<status, loop, answer, todo, resumed, finalizing, checkpoints,
                       approvals, grants, turn, resumes, history>>
    BY <1>2 DEF AllowCall, GoTo, InRound, stored
  <2> QED
    BY <1>0, <2>1 DEF TypeOK, InRound
<1>3. CASE RequestPermission
  <2> DEFINE call == Head(todo)
             new == [shows |-> {call}, resumable |-> FALSE, loop |-> InitialLoop]
  <2>1. new \in ApprovalRecord
    BY <1>h, InitialLoopType DEF ApprovalRecord
  <2>2. /\ at' \in InRound
        /\ UNCHANGED <<status, loop, answer, todo, resumed, finalizing, checkpoints,
                       grants, turn, resumes, history>>
        /\ approvals' = [k \in DOMAIN approvals \cup {call.id} |->
                           IF k = call.id THEN new ELSE approvals[k]]
    BY <1>3 DEF RequestPermission, GoTo, InRound
  <2> HIDE DEF new
  <2>3. \A id \in DOMAIN approvals' : approvals'[id] \in ApprovalRecord
    BY <1>0, <2>1, <2>2
  <2> QED
    BY <1>0, <2>2, <2>3 DEF TypeOK, InRound, ApprovalRecord
<1>4. CASE ExecuteTool
  <2>1. /\ at' \in InRound
        /\ UNCHANGED <<status, loop, answer, todo, resumed, finalizing, checkpoints,
                       approvals, grants, turn, resumes>>
    BY <1>4 DEF ExecuteTool, GoTo, InRound, stored
  <2>2. history' \in [allowed : SUBSET Calls, executed : SUBSET Calls,
                     repeated : SUBSET Calls, recorded : SUBSET Calls,
                     dropped : SUBSET Calls, limitHit : BOOLEAN]
    BY <1>4, <1>h DEF ExecuteTool, TypeOK
  <2> QED
    BY <1>0, <2>1, <2>2 DEF TypeOK, InRound
<1>5. CASE ObserveTool
  <2> DEFINE after == [loop EXCEPT !.unanswered = @ \ {Head(todo)}, !.pending = <<>>]
  <2>1. after \in Continuation
    BY <1>0, CallSequences, Edited
  <2>2. checkpoints' \subseteq [node : Nodes, loop : Continuation]
    BY <1>5, <1>n, <2>1, CheckpointTypes DEF ObserveTool
  <2>3. history' \in [allowed : SUBSET Calls, executed : SUBSET Calls,
                     repeated : SUBSET Calls, recorded : SUBSET Calls,
                     dropped : SUBSET Calls, limitHit : BOOLEAN]
    BY <1>5, <1>h DEF ObserveTool, TypeOK
  <2>4. /\ at' = "calls" /\ at' \in InRound /\ loop' = after /\ todo' = Tail(todo)
        /\ UNCHANGED <<status, answer, resumed, finalizing, approvals, grants, turn, resumes>>
    BY <1>5 DEF ObserveTool, InRound
  <2> HIDE DEF after
  <2> QED
    BY <1>h, <2>1, <2>2, <2>3, <2>4 DEF TypeOK
<1> QED
  BY <1>1, <1>2, <1>3, <1>4, <1>5

(* Resuming: the continuation is one of the store. *)
LEMMA EnterLoopTypes ==
  ASSUME TypeOK, NEW state \in Continuation, EnterLoop(state), at = None
  PROVE  /\ status' = "running" /\ loop' \in Continuation
         /\ todo' \in Seq(Calls) /\ at' \in {"calls", "request"}
         /\ resumed' \in BOOLEAN /\ (resumed' => at' \in InRound)
         /\ resumes' \in 0 .. MaxResumes
<1>1. [state EXCEPT !.iteration = IF @ = 0 THEN 1 ELSE @] \in Continuation
  <2>1. (IF state.iteration = 0 THEN 1 ELSE state.iteration) \in Nat
    BY DEF Continuation
  <2> QED
    BY <2>1, Edited
<1>2. state.pending \in Seq(Calls)
  BY Edited
<1>3. resumes' \in 0 .. MaxResumes
  BY ToolLoopAssumption DEF EnterLoop, TypeOK
<1>4. at' \in {"calls", "request"} /\ resumed' \in BOOLEAN /\ (resumed' => at' \in InRound)
  BY DEF EnterLoop, InRound
<1> QED
  BY <1>1, <1>2, <1>3, <1>4 DEF EnterLoop

History ==
  [allowed : SUBSET Calls, executed : SUBSET Calls, repeated : SUBSET Calls,
   recorded : SUBSET Calls, dropped : SUBSET Calls, limitHit : BOOLEAN]

LEMMA DecisionTypes ==
  ASSUME TypeOK, ApprovalsInv, NEW id \in DOMAIN approvals, NEW decision
  PROVE  GrantFor(id, decision) \in Id /\ AllowedBy(id) \in History
<1>1. GrantFor(id, decision) \in Id
  BY Ids DEF GrantFor, RunWide, ApprovalsInv
<1>2. approvals[id].shows \subseteq Calls
  BY DEF TypeOK
<1>3. AllowedBy(id) \in History
  BY <1>2 DEF AllowedBy, History, TypeOK
<1> QED
  BY <1>1, <1>3

LEMMA ResumeTypes ==
  ASSUME TypeOK, ApprovalsInv, NEW id, NEW decision,
         ResumeApproval(id, decision), history' = AllowedBy(id)
  PROVE  TypeOK'
<1>0. /\ at = None /\ id \in DOMAIN approvals
      /\ grants' = grants \cup {GrantFor(id, decision)}
      /\ UNCHANGED <<answer, finalizing, checkpoints, approvals, turn>>
  BY DEF ResumeApproval, Decide
<1>1. approvals[id].loop \in Continuation /\ id \in Id
  BY <1>0 DEF TypeOK, ApprovalsInv
<1>2. [approvals[id].loop EXCEPT !.approval = id] \in Continuation
  BY <1>1, Edited
<1>3. /\ status' \in {None, "running", "suspended", "completed", "failed", "denied"}
      /\ loop' \in Continuation /\ todo' \in Seq(Calls)
      /\ at' \in {None, "calls", "request"}
      /\ resumed' \in BOOLEAN /\ (resumed' => at' \in InRound)
      /\ resumes' \in 0 .. MaxResumes
  <2>1. CASE status \in Resumable /\ EnterLoop([approvals[id].loop EXCEPT !.approval = id])
    BY <1>0, <1>2, <2>1, EnterLoopTypes
  <2>2. CASE UNCHANGED <<status, loop, at, todo, resumed, resumes>>
    BY <1>0, <2>2 DEF TypeOK
  <2> QED
    BY <2>1, <2>2 DEF ResumeApproval
<1>4. at' \notin InRound \ {"calls"} /\ at' \in {None, "request", "turn", "route"} \cup InRound
  BY <1>3 DEF InRound, None
<1>5. grants' \subseteq Id /\ history' \in History
  BY <1>0, DecisionTypes DEF TypeOK
<1> QED
  BY <1>0, <1>3, <1>4, <1>5 DEF TypeOK, History

LEMMA HostTypes ==
  ASSUME TypeOK, ApprovalsInv, RunningInv, HostStep
  PROVE  TypeOK'
<1>1. CASE SubmitRun
  BY <1>1, TurnTypes
<1>2. ASSUME NEW id \in DOMAIN approvals, NEW decision \in Decisions, ApproveRun(id, decision)
      PROVE  TypeOK'
  BY <1>2, ResumeTypes DEF ApproveRun
<1>3. ASSUME NEW id \in DOMAIN approvals, NEW decision \in Decisions,
             ResolvePermission(id, decision)
      PROVE  TypeOK'
  <2>1. grants' \subseteq Id /\ history' \in History
    BY <1>3, DecisionTypes DEF ResolvePermission, Decide, TypeOK
  <2> QED
    BY <1>3, <2>1 DEF ResolvePermission, control, TypeOK, History
<1>4. ASSUME NEW id \in DOMAIN approvals, DenyRun(id)
      PROVE  TypeOK'
  BY <1>4 DEF DenyRun, control, stored, TypeOK
<1>5. ASSUME NEW cp \in checkpoints, ResumeCheckpoint(cp)
      PROVE  TypeOK'
  <2>1. cp.loop \in Continuation
    BY DEF TypeOK
  <2>2. /\ status' = "running" /\ loop' \in Continuation /\ todo' \in Seq(Calls)
        /\ at' \in {"calls", "request"}
        /\ resumed' \in BOOLEAN /\ (resumed' => at' \in InRound)
        /\ resumes' \in 0 .. MaxResumes
    BY <1>5, <2>1, EnterLoopTypes DEF ResumeCheckpoint
  <2>3. LeftOut(cp.loop) \subseteq Calls
    BY <2>1, Edited DEF LeftOut
  <2>4. history' \in History
    BY <1>5, <2>3 DEF ResumeCheckpoint, History, TypeOK
  <2>5. /\ at' \notin InRound \ {"calls"}
        /\ at' \in {None, "request", "turn", "route"} \cup InRound
    BY <2>2 DEF InRound
  <2>6. UNCHANGED <<answer, finalizing, checkpoints, approvals, grants, turn>>
    BY <1>5 DEF ResumeCheckpoint, stored
  <2> QED
    BY <2>2, <2>4, <2>5, <2>6 DEF TypeOK, History
<1>6. ASSUME NEW cp \in checkpoints, NEW decision \in Decisions,
             ResumeApprovalCheckpoint(cp, decision)
      PROVE  TypeOK'
  BY <1>6, ResumeTypes DEF ResumeApprovalCheckpoint
<1> QED
  BY <1>1, <1>2, <1>3, <1>4, <1>5, <1>6 DEF HostStep

LEMMA NextTypes ==
  ASSUME TypeOK, ApprovalsInv, RunningInv, [Next]_vars
  PROVE  TypeOK'
<1>1. CASE LoopStep
  BY <1>1, LeavingTypes, TurnTypes, RoundTypes DEF LoopStep
<1>2. CASE HostStep
  BY <1>2, HostTypes
<1>3. CASE Crash
  BY <1>3, LeavingTypes
<1>4. CASE UNCHANGED vars
  BY <1>4 DEF vars, control, stored, TypeOK
<1> QED
  BY <1>1, <1>2, <1>3, <1>4 DEF Next

(***************************************************************************)
(* Names and approvals                                                     *)
(***************************************************************************)

(* A call known after a step was known before, if memory, the checkpoints, *)
(* the records and the history only take over known calls.                 *)
LEMMA KnownBefore ==
  ASSUME NEW c, Known(c)',
         \A d \in ToSet(answer'.calls) \cup ToSet(todo') \cup CallsOf(loop') : Known(d),
         \A cp \in checkpoints' : cp \in checkpoints \/ \A d \in CallsOf(cp.loop) : Known(d),
         \A id \in DOMAIN approvals' :
           \/ id \in DOMAIN approvals /\ approvals'[id] = approvals[id]
           \/ \A d \in CallsOf(approvals'[id].loop) \cup approvals'[id].shows : Known(d),
         \A d \in history'.allowed \cup history'.recorded : Known(d)
  PROVE  Known(c)
<1> DEFINE Mem == ToSet(answer'.calls) \cup ToSet(todo') \cup CallsOf(loop')
<1>1. \/ c \in Mem
      \/ \E cp \in checkpoints' : c \in CallsOf(cp.loop)
      \/ \E id \in DOMAIN approvals' :
           c \in CallsOf(approvals'[id].loop) \cup approvals'[id].shows
      \/ c \in history'.allowed \cup history'.recorded
  BY DEF Known, CallsOf
<1>2. CASE c \in Mem
  BY <1>2
<1>3. CASE \E cp \in checkpoints' : c \in CallsOf(cp.loop)
  BY <1>3 DEF Known
<1>4. CASE \E id \in DOMAIN approvals' :
             c \in CallsOf(approvals'[id].loop) \cup approvals'[id].shows
  BY <1>4 DEF Known
<1>5. CASE c \in history'.allowed \cup history'.recorded
  BY <1>5
<1> QED
  BY <1>1, <1>2, <1>3, <1>4, <1>5

(* What a state is called, and its counters, do not change its calls. *)
LEMMA SameCalls ==
  ASSUME NEW state \in Continuation
  PROVE  /\ \A id \in Id : CallsOf([state EXCEPT !.approval = id]) = CallsOf(state)
         /\ \A n \in Nat : CallsOf([state EXCEPT !.iteration = n]) = CallsOf(state)
         /\ \A n \in Nat : CallsOf([state EXCEPT !.rounds = n]) = CallsOf(state)
         /\ \A m, n \in Nat :
              CallsOf([state EXCEPT !.rounds = m, !.iteration = n]) = CallsOf(state)
         /\ \A n \in Nat, id \in Id :
              CallsOf([state EXCEPT !.iteration = n, !.approval = id]) = CallsOf(state)
         /\ \A s \in Seq(Calls), n \in Nat, id \in Id :
              CallsOf([state EXCEPT !.pending = s, !.iteration = n, !.approval = id])
                = state.unanswered \cup ToSet(s)
         /\ \A s \in Seq(Calls) :
              CallsOf([state EXCEPT !.pending = s]) = state.unanswered \cup ToSet(s)
         /\ \A s \in Seq(Calls), n \in Nat :
              CallsOf([state EXCEPT !.pending = s, !.iteration = n])
                = state.unanswered \cup ToSet(s)
         /\ \A S \in SUBSET Calls, s \in Seq(Calls) :
              CallsOf([state EXCEPT !.unanswered = S, !.pending = s]) = S \cup ToSet(s)
         /\ \A S \in SUBSET Calls :
              CallsOf([state EXCEPT !.unanswered = S]) = S \cup ToSet(state.pending)
         /\ state.unanswered \subseteq CallsOf(state) /\ ToSet(state.pending) \subseteq CallsOf(state)
<1> DEFINE P == Seq(Calls)
<1> HIDE DEF P
<1>1. state \in [iteration : Nat, rounds : Nat, pending : P,
                 unanswered : SUBSET Calls, approval : Id]
  BY DEF Continuation, P
<1> QED
  BY <1>1 DEF CallsOf

(* A continuation that is kept for an approval, and those of a round. *)
LEMMA KeptCalls ==
  ASSUME NEW state \in Continuation, NEW s \in Seq(Calls), NEW id \in Id
  PROVE  /\ CallsOf([state EXCEPT !.iteration = @ + 1, !.approval = id]) = CallsOf(state)
         /\ CallsOf([state EXCEPT !.pending = s, !.iteration = @ + 1, !.approval = id])
              = state.unanswered \cup ToSet(s)
         /\ CallsOf([state EXCEPT !.pending = s, !.iteration = @ + 1])
              = state.unanswered \cup ToSet(s)
         /\ CallsOf([state EXCEPT !.rounds = @ + 1, !.iteration = @ + 1]) = CallsOf(state)
         /\ CallsOf([state EXCEPT !.pending = s]) = state.unanswered \cup ToSet(s)
<1> DEFINE P == Seq(Calls)
<1> HIDE DEF P
<1>1. state \in [iteration : Nat, rounds : Nat, pending : P,
                 unanswered : SUBSET Calls, approval : Id]
  BY DEF Continuation, P
<1> QED
  BY <1>1 DEF CallsOf

(* The continuation after the observation of a call. *)
LEMMA ObservedCalls ==
  ASSUME NEW state \in Continuation, NEW call
  PROVE  CallsOf([state EXCEPT !.unanswered = @ \ {call}, !.pending = <<>>])
           = state.unanswered \ {call}
<1> DEFINE P == Seq(Calls)
           none == <<>>
           after == [state EXCEPT !.unanswered = @ \ {call}, !.pending = none]
<1>1. ToSet(none) = {}
  BY ToSetEmpty
<1> HIDE DEF P, none
<1>2. state \in [iteration : Nat, rounds : Nat, pending : P,
                 unanswered : SUBSET Calls, approval : Id]
  BY DEF Continuation, P
<1>3. after.unanswered = state.unanswered \ {call} /\ after.pending = none
  BY <1>2
<1> HIDE DEF after
<1>4. CallsOf(after) = state.unanswered \ {call}
  BY <1>1, <1>3 DEF CallsOf
<1> QED
  BY <1>4 DEF after, none

LEMMA NoCalls == CallsOf(InitialLoop) = {} /\ ToSet(NoAnswer.calls) = {}
BY ToSetEmpty DEF CallsOf, InitialLoop, NoAnswer

LEMMA MemoryKnown ==
  ASSUME TypeOK
  PROVE  \A d \in ToSet(answer.calls) \cup ToSet(todo) \cup loop.unanswered
                 \cup ToSet(loop.pending) : Known(d)
BY DEF Known, CallsOf

LEMMA LeavingKeeps ==
  ASSUME TypeOK, NEW c, Known(c)',
         FinalAnswer \/ Complete \/ ExceedLimit \/ DenyCall \/ FailRun \/ Crash
           \/ SuspendForModel \/ SuspendForCall
  PROVE  Known(c)
<1>0. loop \in Continuation
  BY DEF TypeOK
<1>1. \A d \in ToSet(answer'.calls) \cup ToSet(todo') \cup CallsOf(loop') : Known(d)
  <2>1. answer' = NoAnswer /\ todo' = <<>> /\ loop' = InitialLoop
    BY DEF FinalAnswer, Complete, ExceedLimit, DenyCall, FailRun, Crash, SuspendForModel,
       SuspendForCall, Finish, LeaveLoop
  <2> QED
    BY <2>1, NoCalls, ToSetEmpty
<1>2. \A cp \in checkpoints' : cp \in checkpoints \/ \A d \in CallsOf(cp.loop) : Known(d)
  <2>1. CASE FinalAnswer \/ Complete
    <3>1. checkpoints' \subseteq checkpoints \cup {[node |-> "terminal", loop |-> loop]}
      BY <2>1, CheckpointAdds DEF FinalAnswer, Complete
    <3> QED
      BY <3>1 DEF Known
  <2>2. CASE SuspendForModel
    <3> DEFINE new == [loop EXCEPT !.approval = ModelApproval]
    <3>1. checkpoints' \subseteq checkpoints \cup {[node |-> "approval_pending", loop |-> new]}
      BY <2>2, CheckpointAdds DEF SuspendForModel
    <3>2. CallsOf(new) = CallsOf(loop)
      <4>1. ModelApproval \in Id
        BY Ids DEF ModelApproval, TypeOK
      <4> QED
        BY <1>0, <4>1, SameCalls
    <3> HIDE DEF new
    <3> QED
      BY <3>1, <3>2 DEF Known
  <2>3. CASE SuspendForCall
    <3> DEFINE kept == [loop EXCEPT !.pending = todo, !.iteration = @ + 1,
                                    !.approval = NoApproval]
               new == [kept EXCEPT !.approval = Head(todo).id]
    <3>1. checkpoints' \subseteq checkpoints \cup {[node |-> "approval_pending", loop |-> new]}
      BY <2>3, CheckpointAdds DEF SuspendForCall
    <3>2. kept \in Continuation
      BY <1>0, Edited, Ids DEF NoApproval, TypeOK
    <3>3. CallsOf(kept) = loop.unanswered \cup ToSet(todo)
      BY <1>0, KeptCalls, Ids DEF NoApproval, TypeOK
    <3> HIDE DEF kept
    <3>4. CallsOf(new) = CallsOf(kept)
      <4>1. todo # <<>>
        BY <2>3 DEF SuspendForCall, At, TypeOK, InRound
      <4>2. Head(todo) \in Calls
        BY <4>1, HeadAndTail DEF TypeOK
      <4>3. Head(todo).id \in Id
        BY <4>2 DEF Calls
      <4> QED
        BY <3>2, <4>3, SameCalls
    <3> HIDE DEF new
    <3> QED
      BY <3>1, <3>3, <3>4, MemoryKnown
  <2>4. CASE ExceedLimit \/ DenyCall \/ FailRun \/ Crash
    BY <2>4 DEF ExceedLimit, DenyCall, FailRun, Crash, stored
  <2> QED
    BY <2>1, <2>2, <2>3, <2>4
<1>3. \A id \in DOMAIN approvals' :
        \/ id \in DOMAIN approvals /\ approvals'[id] = approvals[id]
        \/ \A d \in CallsOf(approvals'[id].loop) \cup approvals'[id].shows : Known(d)
  <2>1. CASE SuspendForModel
    <3> DEFINE kept == [loop EXCEPT !.iteration = @ + 1, !.approval = NoApproval]
    <3>1. CallsOf(kept) = CallsOf(loop)
      BY <1>0, CallSequences, KeptCalls, Ids DEF NoApproval
    <3>2. approvals' = [k \in DOMAIN approvals \cup {ModelApproval} |->
                          IF k = ModelApproval
                          THEN [shows |-> {}, resumable |-> TRUE, loop |-> kept]
                          ELSE approvals[k]]
      BY <2>1 DEF SuspendForModel
    <3> HIDE DEF kept
    <3> QED
      BY <3>1, <3>2 DEF Known
  <2>2. CASE SuspendForCall
    <3> DEFINE id == Head(todo).id
               kept == [loop EXCEPT !.pending = todo, !.iteration = @ + 1,
                                    !.approval = NoApproval]
    <3>1. CallsOf(kept) = loop.unanswered \cup ToSet(todo)
      BY <1>0, KeptCalls, Ids DEF NoApproval, TypeOK
    <3>2. approvals' = [approvals EXCEPT ![id].resumable = TRUE, ![id].loop = kept]
      BY <2>2 DEF SuspendForCall
    <3> HIDE DEF kept, id
    <3>3. \A k \in DOMAIN approvals : approvals[k] \in ApprovalRecord
      BY DEF TypeOK, ApprovalRecord
    <3>4. /\ DOMAIN approvals' = DOMAIN approvals
          /\ \A k \in DOMAIN approvals : k # id => approvals'[k] = approvals[k]
          /\ id \in DOMAIN approvals =>
               approvals'[id].loop = kept /\ approvals'[id].shows = approvals[id].shows
      BY <3>2, <3>3 DEF ApprovalRecord
    <3>5. \A d \in CallsOf(kept) : Known(d)
      BY <3>1, MemoryKnown
    <3>6. \A k \in DOMAIN approvals : \A d \in approvals[k].shows : Known(d)
      BY DEF Known
    <3> QED
      BY <3>4, <3>5, <3>6
  <2>3. CASE FinalAnswer \/ Complete \/ ExceedLimit \/ DenyCall \/ FailRun \/ Crash
    BY <2>3 DEF FinalAnswer, Complete, ExceedLimit, DenyCall, FailRun, Crash, stored
  <2> QED
    BY <2>1, <2>2, <2>3
<1>4. \A d \in history'.allowed \cup history'.recorded : Known(d)
  <2>1. history'.allowed = history.allowed /\ history'.recorded = history.recorded
    BY DEF FinalAnswer, Complete, ExceedLimit, DenyCall, FailRun, Crash, SuspendForModel,
       SuspendForCall, TypeOK
  <2> QED
    BY <2>1 DEF Known
<1> QED
  BY <1>1, <1>2, <1>3, <1>4, KnownBefore

LEMMA TurnKeeps ==
  ASSUME TypeOK, NEW c, Known(c)',
         SubmitRun \/ RequestModelTurn \/ BeginRound \/ EndRound \/ EndResumedRound
  PROVE  Known(c)
<1>0. loop \in Continuation /\ loop.iteration + 1 \in Nat /\ loop.rounds + 1 \in Nat
  BY Edited DEF TypeOK
<1>1. CASE SubmitRun \/ RequestModelTurn
  <2> DEFINE state == IF SubmitRun THEN InitialLoop ELSE loop
  <2>1. \E node : checkpoints' \subseteq checkpoints \cup {[node |-> node, loop |-> state]}
    <3>1. CASE SubmitRun
      BY <3>1, CheckpointAdds DEF SubmitRun
    <3>2. CASE RequestModelTurn /\ ~SubmitRun
      BY <3>2, CheckpointAdds DEF RequestModelTurn
    <3> QED
      BY <1>1, <3>1, <3>2
  <2>2. \A d \in CallsOf(state) : Known(d)
    BY NoCalls, MemoryKnown DEF CallsOf
  <2> HIDE DEF state
  <2>3. \A cp \in checkpoints' : cp \in checkpoints \/ \A d \in CallsOf(cp.loop) : Known(d)
    BY <2>1, <2>2
  <2>4. UNCHANGED <<loop, answer, todo, approvals, history>>
    BY <1>1 DEF SubmitRun, RequestModelTurn, GoTo
  <2> QED
    BY <2>3, <2>4, KnownBefore, MemoryKnown DEF Known
<1>2. CASE BeginRound
  <2>1. todo' = answer.calls /\ UNCHANGED <<loop, answer, checkpoints, approvals, history>>
    BY <1>2 DEF BeginRound, stored
  <2> QED
    BY <2>1, KnownBefore, MemoryKnown DEF Known
<1>3. CASE EndRound \/ EndResumedRound
  <2>1. CallsOf(loop') = CallsOf(loop)
    <3>1. CASE EndRound
      BY <1>0, <3>1, CallSequences, Ids, KeptCalls DEF EndRound
    <3>2. CASE EndResumedRound
      BY <1>0, <3>2, SameCalls DEF EndResumedRound
    <3> QED
      BY <1>3, <3>1, <3>2
  <2>2. UNCHANGED <<answer, todo, checkpoints, approvals, history>>
    BY <1>3 DEF EndRound, EndResumedRound, stored
  <2> QED
    BY <2>1, <2>2, KnownBefore, MemoryKnown DEF Known
<1> QED
  BY <1>1, <1>2, <1>3

LEMMA RoundKeeps ==
  ASSUME TypeOK, NEW c, Known(c)',
         BeginCall \/ AllowCall \/ RequestPermission \/ ExecuteTool \/ ObserveTool
  PROVE  Known(c)
<1>0. loop \in Continuation /\ todo \in Seq(Calls) /\ todo # <<>>
  BY DEF TypeOK, InRound, At, BeginCall, AllowCall, RequestPermission, ExecuteTool, ObserveTool
<1>h. /\ Head(todo) \in Calls /\ Tail(todo) \in Seq(Calls)
      /\ ToSet(todo) = {Head(todo)} \cup ToSet(Tail(todo))
  BY <1>0, HeadAndTail
<1>1. CASE BeginCall
  <2> DEFINE now == [loop EXCEPT !.pending = <<Head(todo)>>]
  <2>1. CallsOf(now) = loop.unanswered \cup {Head(todo)}
    <3>1. <<Head(todo)>> \in Seq(Calls)
      BY <1>h, CallSequences
    <3>2. CallsOf(now) = loop.unanswered \cup ToSet(<<Head(todo)>>)
      BY <1>0, <3>1, Ids, KeptCalls
    <3> QED
      BY <3>2, ToSetSingle
  <2>2. loop' = now /\ UNCHANGED <<answer, todo, approvals, history>>
    BY <1>1 DEF BeginCall, GoTo
  <2>3. checkpoints' \subseteq checkpoints \cup {[node |-> "tool_call", loop |-> now]}
    BY <1>1, CheckpointAdds DEF BeginCall
  <2> HIDE DEF now
  <2>4. \A d \in CallsOf(now) : Known(d)
    BY <1>h, <2>1, MemoryKnown
  <2>5. \A cp \in checkpoints' : cp \in checkpoints \/ \A d \in CallsOf(cp.loop) : Known(d)
    BY <2>3, <2>4
  <2> QED
    BY <2>2, <2>4, <2>5, KnownBefore, MemoryKnown DEF Known
<1>2. CASE AllowCall
  <2>1. UNCHANGED <<loop, answer, todo, checkpoints, approvals, history>>
    BY <1>2 DEF AllowCall, GoTo, stored
  <2> QED
    BY <2>1 DEF Known, CallsOf
<1>3. CASE RequestPermission
  <2> DEFINE new == [shows |-> {Head(todo)}, resumable |-> FALSE, loop |-> InitialLoop]
             id == Head(todo).id
  <2>1. approvals' = [k \in DOMAIN approvals \cup {id} |-> IF k = id THEN new ELSE approvals[k]]
    BY <1>3 DEF RequestPermission
  <2>2. \A d \in CallsOf(new.loop) \cup new.shows : Known(d)
    BY <1>h, NoCalls, MemoryKnown
  <2>3. UNCHANGED <<loop, answer, todo, checkpoints, history>>
    BY <1>3 DEF RequestPermission, GoTo
  <2> HIDE DEF new, id
  <2>4. \A k \in DOMAIN approvals' :
          \/ k \in DOMAIN approvals /\ approvals'[k] = approvals[k]
          \/ \A d \in CallsOf(approvals'[k].loop) \cup approvals'[k].shows : Known(d)
    BY <2>1, <2>2
  <2> QED
    BY <2>3, <2>4, KnownBefore, MemoryKnown DEF Known
<1>4. CASE ExecuteTool
  <2>1. UNCHANGED <<loop, answer, todo, checkpoints, approvals>>
    BY <1>4 DEF ExecuteTool, GoTo, stored
  <2>2. history'.allowed = history.allowed /\ history'.recorded = history.recorded
    BY <1>4 DEF ExecuteTool, TypeOK
  <2> QED
    BY <2>1, <2>2, KnownBefore, MemoryKnown DEF Known
<1>5. CASE ObserveTool
  <2> DEFINE after == [loop EXCEPT !.unanswered = @ \ {Head(todo)}, !.pending = <<>>]
  <2>1. CallsOf(after) \subseteq loop.unanswered
    <3>1. CallsOf(after) = loop.unanswered \ {Head(todo)}
      BY <1>0, ObservedCalls
    <3> QED
      BY <3>1
  <2>2. loop' = after /\ todo' = Tail(todo) /\ UNCHANGED <<answer, approvals>>
    BY <1>5 DEF ObserveTool
  <2>3. checkpoints' \subseteq checkpoints \cup {[node |-> "tool_observation", loop |-> after]}
    BY <1>5, CheckpointAdds DEF ObserveTool
  <2>4. /\ history'.allowed = history.allowed
        /\ history'.recorded = history.recorded \cup {Head(todo)}
    BY <1>5 DEF ObserveTool, TypeOK
  <2> HIDE DEF after
  <2>5. \A d \in CallsOf(after) : Known(d)
    BY <2>1, MemoryKnown
  <2>6. \A cp \in checkpoints' : cp \in checkpoints \/ \A d \in CallsOf(cp.loop) : Known(d)
    BY <2>3, <2>5
  <2>7. \A d \in history'.allowed \cup history'.recorded : Known(d)
    BY <1>h, <2>4, MemoryKnown DEF Known
  <2>8. \A d \in ToSet(answer'.calls) \cup ToSet(todo') \cup CallsOf(loop') : Known(d)
    BY <1>h, <2>2, <2>5, MemoryKnown
  <2> QED
    BY <2>2, <2>6, <2>7, <2>8, KnownBefore
<1> QED
  BY <1>1, <1>2, <1>3, <1>4, <1>5

LEMMA HostKeeps ==
  ASSUME TypeOK, ApprovalsInv, NEW c, Known(c)', HostStep
  PROVE  Known(c)
<1>a. \A id \in DOMAIN approvals :
        /\ approvals[id].loop \in Continuation /\ id \in Id
        /\ \A d \in CallsOf(approvals[id].loop) \cup approvals[id].shows : Known(d)
        /\ \A d \in AllowedBy(id).allowed : Known(d)
        /\ AllowedBy(id).recorded = history.recorded
  BY DEF TypeOK, ApprovalsInv, AllowedBy, Known
<1>b. \A cp \in checkpoints :
        cp.loop \in Continuation /\ \A d \in CallsOf(cp.loop) : Known(d)
  BY DEF TypeOK, Known
<1>e. ASSUME NEW state \in Continuation, EnterLoop(state)
      PROVE  CallsOf(loop') \cup ToSet(todo') \subseteq CallsOf(state)
  <2>1. (IF state.iteration = 0 THEN 1 ELSE state.iteration) \in Nat
    BY DEF Continuation
  <2>2. loop' = [state EXCEPT !.iteration = IF @ = 0 THEN 1 ELSE @] /\ todo' = state.pending
    BY <1>e DEF EnterLoop
  <2> QED
    BY <2>1, <2>2, SameCalls
<1>r. ASSUME NEW id, NEW decision, ResumeApproval(id, decision), history' = AllowedBy(id)
      PROVE  Known(c)
  <2>1. id \in DOMAIN approvals /\ UNCHANGED <<answer, checkpoints, approvals>>
    BY <1>r DEF ResumeApproval
  <2>2. \A d \in ToSet(answer'.calls) \cup ToSet(todo') \cup CallsOf(loop') : Known(d)
    <3>1. CASE EnterLoop([approvals[id].loop EXCEPT !.approval = id])
      <4>1. [approvals[id].loop EXCEPT !.approval = id] \in Continuation
        BY <1>a, <2>1, Edited
      <4>2. CallsOf([approvals[id].loop EXCEPT !.approval = id]) = CallsOf(approvals[id].loop)
        BY <1>a, <2>1, SameCalls
      <4> QED
        BY <1>a, <1>e, <2>1, <3>1, <4>1, <4>2, MemoryKnown
    <3>2. CASE UNCHANGED <<status, loop, at, todo, resumed, resumes>>
      BY <2>1, <3>2, MemoryKnown DEF CallsOf
    <3> QED
      BY <1>r, <3>1, <3>2 DEF ResumeApproval
  <2>3. \A d \in history'.allowed \cup history'.recorded : Known(d)
    BY <1>a, <1>r, <2>1 DEF Known
  <2> QED
    BY <2>1, <2>2, <2>3, KnownBefore
<1>1. CASE SubmitRun
  BY <1>1, TurnKeeps
<1>2. ASSUME NEW id \in DOMAIN approvals, NEW decision \in Decisions, ApproveRun(id, decision)
      PROVE  Known(c)
  BY <1>2, <1>r DEF ApproveRun
<1>3. ASSUME NEW id \in DOMAIN approvals, NEW decision \in Decisions,
             ResolvePermission(id, decision)
      PROVE  Known(c)
  <2>1. UNCHANGED <<loop, answer, todo, checkpoints, approvals>> /\ history' = AllowedBy(id)
    BY <1>3 DEF ResolvePermission, control
  <2>2. \A d \in history'.allowed \cup history'.recorded : Known(d)
    BY <1>a, <2>1 DEF Known
  <2> QED
    BY <2>1, <2>2, KnownBefore, MemoryKnown DEF CallsOf
<1>4. ASSUME NEW id \in DOMAIN approvals, DenyRun(id)
      PROVE  Known(c)
  BY <1>4 DEF DenyRun, control, stored, Known, CallsOf
<1>5. ASSUME NEW cp \in checkpoints, ResumeCheckpoint(cp)
      PROVE  Known(c)
  <2>1. /\ EnterLoop(cp.loop) /\ UNCHANGED <<answer, checkpoints, approvals>>
        /\ history'.allowed = history.allowed /\ history'.recorded = history.recorded
    BY <1>5 DEF ResumeCheckpoint, stored, TypeOK
  <2>2. \A d \in ToSet(answer'.calls) \cup ToSet(todo') \cup CallsOf(loop') : Known(d)
    BY <1>b, <1>e, <2>1, MemoryKnown
  <2>3. \A d \in history'.allowed \cup history'.recorded : Known(d)
    BY <2>1 DEF Known
  <2> QED
    BY <2>1, <2>2, <2>3, KnownBefore
<1>6. ASSUME NEW cp \in checkpoints, NEW decision \in Decisions,
             ResumeApprovalCheckpoint(cp, decision)
      PROVE  Known(c)
  BY <1>6, <1>r DEF ResumeApprovalCheckpoint
<1> QED
  BY <1>1, <1>2, <1>3, <1>4, <1>5, <1>6 DEF HostStep

(* Only a response of the model brings new calls. *)
LEMMA ResponseKeeps ==
  ASSUME TypeOK, NEW response \in Answers, RecordResponse(response), NEW c, Known(c)'
  PROVE  Known(c) \/ c \in ToSet(NamedCalls(response))
<1> DEFINE calls == NamedCalls(response)
           after == [loop EXCEPT !.unanswered = @ \cup ToSet(calls)]
           new == IF calls = <<>> THEN after
                  ELSE [after EXCEPT !.pending = calls, !.iteration = @ + 1]
<1>0. loop \in Continuation
  BY DEF TypeOK
<1>1. calls \in Seq(Calls) /\ ToSet(calls) \subseteq Calls
  BY NamedCallsType, ToSetType
<1> HIDE DEF calls
<1>2. /\ after \in Continuation /\ after.unanswered = loop.unanswered \cup ToSet(calls)
      /\ CallsOf(after) = loop.unanswered \cup ToSet(calls) \cup ToSet(loop.pending)
  BY <1>0, <1>1, Edited, SameCalls DEF Continuation
<1>3. /\ loop' = after
      /\ answer' = [calls |-> calls, approval |-> response.approval]
      /\ Checkpoint("model_response", new)
      /\ UNCHANGED <<todo, approvals, history>>
  BY DEF RecordResponse, calls, NamedCalls, GoTo
<1> HIDE DEF after
<1>4. CallsOf(new) \subseteq CallsOf(after) \cup ToSet(calls)
  <2>1. CallsOf([after EXCEPT !.pending = calls, !.iteration = @ + 1])
          = after.unanswered \cup ToSet(calls)
    BY <1>1, <1>2, Ids, KeptCalls
  <2> QED
    BY <2>1 DEF CallsOf
<1> HIDE DEF new
<1>5. checkpoints' \subseteq checkpoints \cup {[node |-> "model_response", loop |-> new]}
  BY <1>3, CheckpointAdds
<1>6. \A d \in CallsOf(after) \cup CallsOf(new) : Known(d) \/ d \in ToSet(calls)
  BY <1>2, <1>4, MemoryKnown
<1>7. \/ c \in ToSet(calls) \cup ToSet(todo) \cup CallsOf(after)
      \/ \E cp \in checkpoints' : c \in CallsOf(cp.loop)
      \/ \E id \in DOMAIN approvals :
           c \in CallsOf(approvals[id].loop) \cup approvals[id].shows
      \/ c \in history.allowed \cup history.recorded
  BY <1>3 DEF Known, CallsOf
<1>8. CASE \E cp \in checkpoints' : c \in CallsOf(cp.loop)
  BY <1>5, <1>6, <1>8 DEF Known, calls
<1>9. CASE c \in ToSet(calls) \cup ToSet(todo) \cup CallsOf(after)
  BY <1>6, <1>9, MemoryKnown DEF calls
<1> QED
  BY <1>7, <1>8, <1>9 DEF Known

LEMMA KnownType ==
  ASSUME TypeOK, NEW c, Known(c)
  PROVE  c \in Calls
<1>1. ASSUME NEW state \in Continuation
      PROVE  CallsOf(state) \subseteq Calls
  BY Edited, ToSetType DEF CallsOf
<1>2. /\ ToSet(answer.calls) \subseteq Calls /\ ToSet(todo) \subseteq Calls
      /\ CallsOf(loop) \subseteq Calls
  BY <1>1, ToSetType DEF TypeOK
<1>3. \A cp \in checkpoints : CallsOf(cp.loop) \subseteq Calls
  BY <1>1 DEF TypeOK
<1>4. \A id \in DOMAIN approvals :
        CallsOf(approvals[id].loop) \subseteq Calls /\ approvals[id].shows \subseteq Calls
  BY <1>1 DEF TypeOK
<1>5. history.allowed \subseteq Calls /\ history.recorded \subseteq Calls
  BY DEF TypeOK
<1> QED
  BY <1>2, <1>3, <1>4, <1>5 DEF Known

(* What a step does not take back. *)
LEMMA Grows ==
  ASSUME TypeOK, [Next]_vars
  PROVE  /\ history.allowed \subseteq history'.allowed /\ grants \subseteq grants'
         /\ turn' \in {turn, turn + 1}
         /\ ExecuteTool \/ history'.executed = history.executed
<1>0. history \in History
  BY DEF TypeOK, History
<1>1. CASE LoopStep
  <2>1. CASE FinalAnswer \/ Complete \/ BeginRound \/ BeginCall \/ AllowCall \/ DenyCall
             \/ RequestPermission \/ SuspendForCall \/ EndRound \/ EndResumedRound
             \/ FailRun \/ RequestModelTurn
    BY <2>1 DEF FinalAnswer, Complete, BeginRound, BeginCall, AllowCall, DenyCall,
       RequestPermission, SuspendForCall, EndRound, EndResumedRound, FailRun,
       RequestModelTurn, stored
  <2>2. CASE SuspendForModel \/ ExceedLimit \/ ObserveTool
    BY <1>0, <2>2 DEF SuspendForModel, ExceedLimit, ObserveTool, stored, History
  <2>3. CASE ExecuteTool
    BY <1>0, <2>3 DEF ExecuteTool, stored, History
  <2>4. CASE \E response \in Answers : RecordResponse(response)
    BY <2>4 DEF RecordResponse
  <2> QED
    BY <1>1, <2>1, <2>2, <2>3, <2>4 DEF LoopStep
<1>2. CASE HostStep
  <2>1. ASSUME NEW id, history' = AllowedBy(id)
        PROVE  history.allowed \subseteq history'.allowed /\ history'.executed = history.executed
    BY <1>0, <2>1 DEF AllowedBy, History
  <2>2. CASE SubmitRun
    BY <2>2 DEF SubmitRun
  <2>3. ASSUME NEW id, NEW decision, ApproveRun(id, decision) \/ ResolvePermission(id, decision)
        PROVE  /\ history.allowed \subseteq history'.allowed /\ grants \subseteq grants'
               /\ turn' = turn /\ history'.executed = history.executed
    BY <2>1, <2>3 DEF ApproveRun, ResumeApproval, ResolvePermission, Decide
  <2>4. ASSUME NEW id, DenyRun(id)
        PROVE  UNCHANGED <<history, grants, turn>>
    BY <2>4 DEF DenyRun, stored
  <2>5. ASSUME NEW cp, ResumeCheckpoint(cp)
        PROVE  /\ history.allowed \subseteq history'.allowed /\ grants \subseteq grants'
               /\ turn' = turn /\ history'.executed = history.executed
    BY <1>0, <2>5 DEF ResumeCheckpoint, stored, History
  <2>6. ASSUME NEW cp, NEW decision, ResumeApprovalCheckpoint(cp, decision)
        PROVE  /\ history.allowed \subseteq history'.allowed /\ grants \subseteq grants'
               /\ turn' = turn /\ history'.executed = history.executed
    BY <2>1, <2>6 DEF ResumeApprovalCheckpoint, ResumeApproval, Decide
  <2> QED
    BY <1>2, <2>2, <2>3, <2>4, <2>5, <2>6 DEF HostStep
<1>3. CASE Crash
  BY <1>3 DEF Crash, stored
<1>4. CASE UNCHANGED vars
  BY <1>4 DEF vars, stored
<1> QED
  BY <1>1, <1>2, <1>3, <1>4 DEF Next

LEMMA NextKeeps ==
  ASSUME TypeOK, ApprovalsInv, [Next]_vars,
         ~\E response \in Answers : RecordResponse(response), NEW c, Known(c)'
  PROVE  Known(c)
<1>1. CASE LoopStep
  BY <1>1, LeavingKeeps, TurnKeeps, RoundKeeps DEF LoopStep
<1>2. CASE HostStep
  BY <1>2, HostKeeps
<1>3. CASE Crash
  BY <1>3, LeavingKeeps
<1>4. CASE UNCHANGED vars
  BY <1>4 DEF vars, control, stored, Known, CallsOf
<1> QED
  BY <1>1, <1>2, <1>3, <1>4 DEF Next

LEMMA NewCalls ==
  ASSUME TypeOK, NEW response \in Answers, NEW c \in ToSet(NamedCalls(response))
  PROVE  /\ c.turn = turn
         /\ \A d \in ToSet(NamedCalls(response)) : c.index = d.index => c = d
         /\ ModelNamesCalls => c.id = <<c.turn, c.index>>
<1>1. \A d \in ToSet(NamedCalls(response)) :
        \E i \in 1 .. Len(response.calls) : d = Call(response.calls[i], loop.rounds, i)
  BY NamedCallsType
<1>2. \A i \in 1 .. Len(response.calls) :
        LET d == Call(response.calls[i], loop.rounds, i) IN
          d.turn = turn /\ d.index = i /\ (ModelNamesCalls => d.id = <<turn, i>>)
  BY DEF Call
<1>3. PICK i \in 1 .. Len(response.calls) : c = Call(response.calls[i], loop.rounds, i)
  BY <1>1
<1>4. ASSUME NEW d \in ToSet(NamedCalls(response)), c.index = d.index
      PROVE  c = d
  <2>1. PICK j \in 1 .. Len(response.calls) : d = Call(response.calls[j], loop.rounds, j)
    BY <1>1
  <2>2. i = j
    BY <1>2, <1>3, <1>4, <2>1
  <2> QED
    BY <1>3, <2>1, <2>2
<1>5. c.turn = turn /\ c.index = i /\ (ModelNamesCalls => c.id = <<turn, i>>)
  BY <1>2, <1>3
<1> QED
  BY <1>4, <1>5

LEMMA NamesKept ==
  ASSUME TypeOK, ApprovalsInv, NamesInv, [Next]_vars
  PROVE  NamesInv'
<1>0. /\ turn \in Nat /\ turn' \in {turn, turn + 1}
      /\ \A c : Known(c) => c.turn \in Nat
  <2>1. \A c : Known(c) => c \in Calls
    BY KnownType
  <2>2. \A c \in Calls : c.turn \in Nat
    BY DEF Calls
  <2>3. turn' \in {turn, turn + 1}
    BY Grows
  <2> QED
    BY <2>1, <2>2, <2>3 DEF TypeOK
<1>1. CASE \E response \in Answers : RecordResponse(response)
  <2> PICK response \in Answers : RecordResponse(response)
    BY <1>1
  <2>1. \A c : Known(c)' => Known(c) \/ c \in ToSet(NamedCalls(response))
    BY ResponseKeeps
  <2>2. turn' = turn + 1
    BY DEF RecordResponse
  <2>3. \A c : Known(c)' => c.turn < turn'
    BY <1>0, <2>1, <2>2, NewCalls DEF NamesInv
  <2>4. ASSUME NEW c, NEW d, Known(c)', Known(d)', c.turn = d.turn, c.index = d.index
        PROVE  c = d
    <3>1. CASE Known(c) /\ Known(d)
      BY <2>4, <3>1 DEF NamesInv
    <3>2. CASE c \in ToSet(NamedCalls(response)) /\ d \in ToSet(NamedCalls(response))
      BY <2>4, <3>2, NewCalls
    <3>3. \A e, f : Known(e) /\ f \in ToSet(NamedCalls(response)) => e.turn # f.turn
      BY <1>0, NewCalls DEF NamesInv
    <3> QED
      BY <2>1, <2>4, <3>1, <3>2, <3>3
  <2>5. ModelNamesCalls => \A c : Known(c)' => c.id = <<c.turn, c.index>>
    BY <2>1, NewCalls DEF NamesInv
  <2> QED
    BY <1>0, <2>3, <2>4, <2>5 DEF NamesInv
<1>2. CASE ~\E response \in Answers : RecordResponse(response)
  <2>1. \A c : Known(c)' => Known(c)
    BY <1>2, NextKeeps
  <2>2. \A c : Known(c)' => c.turn < turn'
    BY <1>0, <2>1 DEF NamesInv
  <2> QED
    BY <1>0, <2>1, <2>2 DEF NamesInv
<1> QED
  BY <1>1, <1>2

LEMMA ApprovalsKept ==
  ASSUME TypeOK, ApprovalsInv, NamesInv, RunningInv, [Next]_vars
  PROVE  ApprovalsInv'
<1> DEFINE Shown(id, r) == \/ r.shows = {} /\ \E n \in Nat : id = <<n>>
                           \/ \E c : r.shows = {c} /\ c.id = id
<1>1. CASE SuspendForModel
  <2> DEFINE id == ModelApproval
             new == [shows |-> {}, resumable |-> TRUE,
                     loop |-> [loop EXCEPT !.iteration = @ + 1, !.approval = NoApproval]]
  <2>1. approvals' = [k \in DOMAIN approvals \cup {id} |-> IF k = id THEN new ELSE approvals[k]]
    BY <1>1 DEF SuspendForModel
  <2>2. id \in Id /\ (ModelNamesCalls => id = <<turn>>) /\ new.shows = {} /\ turn \in Nat
    BY Ids DEF ModelApproval, TypeOK
  <2> HIDE DEF id, new
  <2>3. ModelNamesCalls => Shown(id, new)
    BY <2>2
  <2>4. ModelNamesCalls => \A k \in DOMAIN approvals : Shown(k, approvals[k])
    BY DEF ApprovalsInv
  <2> HIDE DEF Shown
  <2>5. /\ DOMAIN approvals' \subseteq Id
        /\ ModelNamesCalls => \A k \in DOMAIN approvals' : Shown(k, approvals'[k])
    BY <2>1, <2>2, <2>3, <2>4 DEF ApprovalsInv
  <2> QED
    BY <2>5 DEF ApprovalsInv, Shown
<1>2. CASE RequestPermission
  <2> DEFINE call == Head(todo)
             id == call.id
             new == [shows |-> {call}, resumable |-> FALSE, loop |-> InitialLoop]
  <2>1. approvals' = [k \in DOMAIN approvals \cup {id} |-> IF k = id THEN new ELSE approvals[k]]
    BY <1>2 DEF RequestPermission
  <2>2. call \in Calls
    <3>1. todo # <<>>
      BY <1>2 DEF RequestPermission, At, TypeOK, InRound
    <3> QED
      BY <3>1, HeadAndTail DEF TypeOK
  <2>3. id \in Id /\ Shown(id, new)
    BY <2>2 DEF Calls
  <2>4. ModelNamesCalls => \A k \in DOMAIN approvals : Shown(k, approvals[k])
    BY DEF ApprovalsInv
  <2> HIDE DEF Shown, new, id
  <2>5. /\ DOMAIN approvals' \subseteq Id
        /\ ModelNamesCalls => \A k \in DOMAIN approvals' : Shown(k, approvals'[k])
    BY <2>1, <2>3, <2>4 DEF ApprovalsInv
  <2> QED
    BY <2>5 DEF ApprovalsInv, Shown
<1>3. CASE SuspendForCall
  <2> DEFINE id == Head(todo).id
             kept == [loop EXCEPT !.pending = todo, !.iteration = @ + 1,
                                  !.approval = NoApproval]
  <2>1. approvals' = [approvals EXCEPT ![id].resumable = TRUE, ![id].loop = kept]
    BY <1>3 DEF SuspendForCall
  <2> HIDE DEF kept, id
  <2>2. \A k \in DOMAIN approvals : approvals[k] \in ApprovalRecord
    BY DEF TypeOK, ApprovalRecord
  <2>3. /\ DOMAIN approvals' = DOMAIN approvals
        /\ \A k \in DOMAIN approvals : approvals'[k].shows = approvals[k].shows
    BY <2>1, <2>2 DEF ApprovalRecord
  <2> QED
    BY <2>3 DEF ApprovalsInv
<1>4. CASE UNCHANGED approvals
  BY <1>4 DEF ApprovalsInv
<1>5. SuspendForModel \/ RequestPermission \/ SuspendForCall \/ UNCHANGED approvals
  BY DEF Next, LoopStep, HostStep, RequestModelTurn, FinalAnswer, RecordResponse, Complete,
     ExceedLimit, BeginRound, BeginCall, AllowCall, DenyCall, ExecuteTool, ObserveTool,
     EndRound, EndResumedRound, FailRun, SubmitRun, ApproveRun, ResolvePermission, DenyRun,
     ResumeCheckpoint, ResumeApprovalCheckpoint, ResumeApproval, Crash, vars, stored
<1> QED
  BY <1>1, <1>2, <1>3, <1>4, <1>5

(* A decision grants what its record shows, and that counts as allowed. *)
LEMMA GrantsKept ==
  ASSUME TypeOK, ApprovalsInv, GrantsInv, [Next]_vars
  PROVE  GrantsInv'
<1> DEFINE Backed(g, allowed) == \/ g = RunWide
                                 \/ \E n \in Nat : g = <<n>>
                                 \/ \E c \in allowed : c.id = g
<1>0. history.allowed \subseteq history'.allowed
  BY Grows
<1>1. ModelNamesCalls => \A g \in grants : Backed(g, history'.allowed)
  BY <1>0 DEF GrantsInv
<1>2. ASSUME NEW id \in DOMAIN approvals, NEW decision, Decide(id, decision),
             history' = AllowedBy(id)
      PROVE  GrantsInv'
  <2>1. grants' = grants \cup {GrantFor(id, decision)}
    BY <1>2 DEF Decide
  <2>2. approvals[id].shows \subseteq history'.allowed
    BY <1>2 DEF AllowedBy, TypeOK
  <2>3. ModelNamesCalls => Backed(GrantFor(id, decision), history'.allowed)
    BY <2>2 DEF GrantFor, ApprovalsInv
  <2> HIDE DEF Backed
  <2>4. ModelNamesCalls => \A g \in grants' : Backed(g, history'.allowed)
    BY <1>1, <2>1, <2>3
  <2> QED
    BY <2>4 DEF GrantsInv, Backed
<1>3. \/ UNCHANGED grants
      \/ \E id \in DOMAIN approvals, decision \in Decisions :
           Decide(id, decision) /\ history' = AllowedBy(id)
  <2>1. CASE LoopStep
    BY <2>1 DEF LoopStep, RequestModelTurn, FinalAnswer, RecordResponse, Complete,
       ExceedLimit, BeginRound, BeginCall, AllowCall, DenyCall, ExecuteTool, ObserveTool,
       EndRound, EndResumedRound, FailRun, stored, SuspendForModel, RequestPermission,
       SuspendForCall
  <2>2. CASE HostStep
    BY <2>2 DEF HostStep, SubmitRun, ApproveRun, ResolvePermission, DenyRun,
     ResumeCheckpoint, ResumeApprovalCheckpoint, ResumeApproval, stored
  <2>3. CASE Crash \/ UNCHANGED vars
    BY <2>3 DEF Crash, vars, stored
  <2> QED
    BY <2>1, <2>2, <2>3 DEF Next
<1>4. CASE UNCHANGED grants
  BY <1>1, <1>4 DEF GrantsInv
<1> QED
  BY <1>2, <1>3, <1>4

(* With ids of the model's own, the grant of a call's id was given for     *)
(* that very call.                                                         *)
LEMMA GrantedApproved ==
  ASSUME TypeOK, NamesInv, GrantsInv, ModelNamesCalls, NEW call,
         Known(call), call.kind = "read" \/ Granted(call)
  PROVE  Approved(call)
<1>1. CASE call.id \in grants
  <2>0. call \in Calls /\ call.turn \in Nat /\ call.index \in Nat
    BY KnownType DEF Calls
  <2>1. call.id = <<call.turn, call.index>>
    BY DEF NamesInv
  <2>2. call.id # RunWide /\ \A n \in Nat : call.id # <<n>>
    BY <2>0, <2>1, Ids DEF RunWide
  <2>3. PICK c \in history.allowed : c.id = call.id
    BY <1>1, <2>2 DEF GrantsInv
  <2>4. Known(c) /\ c.id = <<c.turn, c.index>>
    BY <2>3 DEF Known, NamesInv
  <2>5. c.turn = call.turn /\ c.index = call.index
    BY <2>1, <2>3, <2>4
  <2>6. c = call
    BY <2>4, <2>5 DEF NamesInv
  <2> QED
    BY <2>3, <2>6 DEF Approved
<1> QED
  BY <1>1 DEF Approved, Granted

LEMMA ExecuteKept ==
  ASSUME TypeOK, NamesInv, GrantsInv, RunningInv, ExecuteInv, [Next]_vars
  PROVE  ExecuteInv'
<1>1. CASE AllowCall
  <2>1. Known(Head(todo))
    <3>1. todo # <<>> /\ todo \in Seq(Calls)
      BY <1>1 DEF AllowCall, At, TypeOK, InRound
    <3> QED
      BY <3>1, HeadAndTail, MemoryKnown
  <2>2. ModelNamesCalls => Approved(Head(todo))
    BY <1>1, <2>1, GrantedApproved DEF AllowCall
  <2>3. UNCHANGED <<todo, history, grants>>
    BY <1>1 DEF AllowCall, GoTo, stored
  <2> QED
    BY <2>2, <2>3 DEF ExecuteInv, Approved
<1>2. CASE UNCHANGED vars
  BY <1>2 DEF vars, control, stored, ExecuteInv, Approved, At
<1>3. CASE LoopStep /\ ~AllowCall
  <2>1. at' # "execute"
    BY <1>3 DEF LoopStep, RequestModelTurn, FinalAnswer, RecordResponse, Complete,
       ExceedLimit, BeginRound, BeginCall, DenyCall, ExecuteTool, ObserveTool,
       EndRound, EndResumedRound, FailRun, SuspendForModel, RequestPermission,
       SuspendForCall, GoTo, Finish, LeaveLoop, None
  <2> QED
    BY <2>1 DEF ExecuteInv, At
<1>4. CASE HostStep \/ Crash
  <2>1. at' # "execute"
    BY <1>4 DEF HostStep, SubmitRun, ApproveRun, ResolvePermission, DenyRun,
     ResumeCheckpoint, ResumeApprovalCheckpoint, ResumeApproval, EnterLoop, control, Crash,
     LeaveLoop, GoTo, None
  <2> QED
    BY <2>1 DEF ExecuteInv, At
<1> QED
  BY <1>1, <1>2, <1>3, <1>4 DEF Next

LEMMA ApprovalHolds ==
  ASSUME TypeOK, ExecuteInv, ModelNamesCalls => NothingRunsUnapproved, [Next]_vars
  PROVE  ModelNamesCalls => NothingRunsUnapproved'
<1>1. history.allowed \subseteq history'.allowed /\ grants \subseteq grants'
  BY Grows
<1>2. CASE ExecuteTool
  <2>1. history'.executed = history.executed \cup {Head(todo)} /\ At("execute")
    BY <1>2 DEF ExecuteTool, TypeOK
  <2> QED
    BY <1>1, <2>1 DEF NothingRunsUnapproved, ExecuteInv, Approved
<1>3. CASE history'.executed = history.executed
  BY <1>1, <1>3 DEF NothingRunsUnapproved
<1> QED
  BY <1>2, <1>3, Grows

(***************************************************************************)
(* What is still to be made                                                *)
(***************************************************************************)

(* The fields of the continuation, by step. *)
LEMMA LoopFields ==
  ASSUME TypeOK
  PROVE  /\ \A response \in Answers : RecordResponse(response) =>
              /\ loop'.iteration = loop.iteration /\ loop'.rounds = loop.rounds
              /\ loop'.pending = loop.pending
              /\ loop'.unanswered = loop.unanswered \cup ToSet(NamedCalls(response))
         /\ BeginCall =>
              /\ loop'.iteration = loop.iteration /\ loop'.rounds = loop.rounds
              /\ loop'.unanswered = loop.unanswered
         /\ ObserveTool =>
              /\ loop'.iteration = loop.iteration /\ loop'.rounds = loop.rounds
              /\ loop'.pending = <<>>
              /\ loop'.unanswered = loop.unanswered \ {Head(todo)}
         /\ EndRound =>
              /\ loop'.iteration = loop.iteration + 1 /\ loop'.rounds = loop.rounds + 1
              /\ loop'.pending = loop.pending /\ loop'.unanswered = loop.unanswered
         /\ EndResumedRound =>
              /\ loop'.iteration = loop.iteration /\ loop'.rounds = loop.rounds + 1
              /\ loop'.pending = loop.pending /\ loop'.unanswered = loop.unanswered
         /\ \A state \in Continuation : EnterLoop(state) =>
              /\ loop'.iteration = IF state.iteration = 0 THEN 1 ELSE state.iteration
              /\ loop'.rounds = state.rounds /\ loop'.pending = state.pending
              /\ loop'.unanswered = state.unanswered
<1> DEFINE P == Seq(Calls)
           Typed == [iteration : Nat, rounds : Nat, pending : P,
                     unanswered : SUBSET Calls, approval : Id]
<1> HIDE DEF P
<1>1. loop \in Typed /\ \A state \in Continuation : state \in Typed
  BY DEF Continuation, P, TypeOK
<1>2. ASSUME NEW response \in Answers, RecordResponse(response)
      PROVE  /\ loop'.iteration = loop.iteration /\ loop'.rounds = loop.rounds
             /\ loop'.pending = loop.pending
             /\ loop'.unanswered = loop.unanswered \cup ToSet(NamedCalls(response))
  <2>1. loop' = [loop EXCEPT !.unanswered = @ \cup ToSet(NamedCalls(response))]
    BY <1>2 DEF RecordResponse, NamedCalls
  <2> QED
    BY <1>1, <2>1
<1>3. BeginCall => /\ loop'.iteration = loop.iteration /\ loop'.rounds = loop.rounds
                   /\ loop'.unanswered = loop.unanswered
  BY <1>1 DEF BeginCall
<1>4. ObserveTool => /\ loop'.iteration = loop.iteration /\ loop'.rounds = loop.rounds
                     /\ loop'.pending = <<>>
                     /\ loop'.unanswered = loop.unanswered \ {Head(todo)}
  <2> DEFINE none == <<>>
  <2>1. ObserveTool => loop' = [loop EXCEPT !.unanswered = @ \ {Head(todo)}, !.pending = none]
    BY DEF ObserveTool
  <2> HIDE DEF none
  <2>2. ObserveTool => /\ loop'.iteration = loop.iteration /\ loop'.rounds = loop.rounds
                       /\ loop'.pending = none
                       /\ loop'.unanswered = loop.unanswered \ {Head(todo)}
    BY <1>1, <2>1
  <2> QED
    BY <2>2 DEF none
<1>5. EndRound => /\ loop'.iteration = loop.iteration + 1 /\ loop'.rounds = loop.rounds + 1
                  /\ loop'.pending = loop.pending /\ loop'.unanswered = loop.unanswered
  BY <1>1 DEF EndRound
<1>6. EndResumedRound => /\ loop'.iteration = loop.iteration /\ loop'.rounds = loop.rounds + 1
                         /\ loop'.pending = loop.pending /\ loop'.unanswered = loop.unanswered
  BY <1>1 DEF EndResumedRound
<1>7. ASSUME NEW state \in Continuation, EnterLoop(state)
      PROVE  /\ loop'.iteration = IF state.iteration = 0 THEN 1 ELSE state.iteration
             /\ loop'.rounds = state.rounds /\ loop'.pending = state.pending
             /\ loop'.unanswered = state.unanswered
  <2> DEFINE first == IF state.iteration = 0 THEN 1 ELSE state.iteration
  <2>1. loop' = [state EXCEPT !.iteration = first]
    BY <1>7 DEF EnterLoop
  <2> HIDE DEF first
  <2>2. /\ loop'.iteration = first
        /\ loop'.rounds = state.rounds /\ loop'.pending = state.pending
        /\ loop'.unanswered = state.unanswered
    BY <1>1, <2>1
  <2> QED
    BY <2>2 DEF first
<1> QED
  BY <1>2, <1>3, <1>4, <1>5, <1>6, <1>7

InitialFields ==
  /\ InitialLoop.iteration = 0 /\ InitialLoop.rounds = 0
  /\ InitialLoop.pending = <<>> /\ InitialLoop.unanswered = {}

LEMMA InitialLoopFields == InitialFields
BY DEF InitialFields, InitialLoop

Leaving ==
  \/ FinalAnswer \/ Complete \/ SuspendForModel \/ ExceedLimit \/ DenyCall \/ SuspendForCall
  \/ FailRun \/ Crash

(* The continuation a step of the host enters the loop with. *)
EntersFrom(state) ==
  /\ EnterLoop(state)
  /\ state \in Continuation
  /\ at = None
  /\ UNCHANGED <<answer, finalizing, checkpoints, approvals>>
  /\ LeftOut(state) \cup history.dropped \subseteq history'.dropped
  /\ \/ \E cp \in checkpoints : state = cp.loop
     \/ \E id \in DOMAIN approvals : state = [approvals[id].loop EXCEPT !.approval = id]

(* A decision that resumes nothing. *)
Decides ==
  /\ at = None
  /\ status' \in {status, "denied"}
  /\ UNCHANGED <<loop, answer, control, checkpoints, approvals, resumes>>
  /\ history'.dropped = history.dropped
  /\ history'.limitHit = history.limitHit

(* What the host does to the loop. *)
LEMMA HostSteps ==
  ASSUME TypeOK, ApprovalsInv, SuspendedRunResumable, HostStep
  PROVE  SubmitRun \/ Decides \/ \E state : EntersFrom(state)
<1>0. history \in History
  BY DEF TypeOK, History
<1>1. ASSUME NEW id, history' = AllowedBy(id)
      PROVE  history'.dropped = history.dropped /\ history'.limitHit = history.limitHit
  BY <1>0, <1>1 DEF AllowedBy, History
<1>2. ASSUME NEW id, NEW decision, ResumeApproval(id, decision), history' = AllowedBy(id)
      PROVE  Decides \/ \E state : EntersFrom(state)
  <2> DEFINE state == [approvals[id].loop EXCEPT !.approval = id]
  <2>1. /\ at = None /\ id \in DOMAIN approvals /\ approvals[id].resumable
        /\ UNCHANGED <<answer, finalizing, checkpoints, approvals>>
    BY <1>2 DEF ResumeApproval
  <2>2. CASE EnterLoop(state)
    <3>1. approvals[id].loop \in Continuation
      BY <2>1 DEF TypeOK
    <3>2. state.unanswered = approvals[id].loop.unanswered
          /\ state.pending = approvals[id].loop.pending
      <4> DEFINE P == Seq(Calls)
      <4> HIDE DEF P
      <4>1. approvals[id].loop \in [iteration : Nat, rounds : Nat, pending : P,
                                   unanswered : SUBSET Calls, approval : Id]
        BY <3>1 DEF Continuation, P
      <4> QED
        BY <4>1
    <3>3. LeftOut(state) \subseteq history'.dropped
      <4>1. LeftOut(approvals[id].loop) \subseteq history.dropped
        BY <2>1 DEF SuspendedRunResumable
      <4> HIDE DEF state
      <4> QED
        BY <1>1, <1>2, <3>2, <4>1 DEF LeftOut
    <3>4. state \in Continuation
      BY <2>1, <3>1, Edited DEF ApprovalsInv
    <3> QED
      BY <1>1, <1>2, <2>1, <2>2, <3>3, <3>4 DEF EntersFrom
  <2>3. CASE UNCHANGED <<status, loop, at, todo, resumed, resumes>>
    BY <1>1, <1>2, <2>1, <2>3 DEF Decides, control
  <2> QED
    BY <1>2, <2>2, <2>3 DEF ResumeApproval
<1>3. ASSUME NEW id, NEW decision, ResolvePermission(id, decision)
      PROVE  Decides
  BY <1>1, <1>3 DEF ResolvePermission, Decides
<1>4. ASSUME NEW id, DenyRun(id)
      PROVE  Decides
  BY <1>4 DEF DenyRun, Decides, stored
<1>5. ASSUME NEW cp \in checkpoints, ResumeCheckpoint(cp)
      PROVE  EntersFrom(cp.loop)
  <2>1. LeftOut(cp.loop) \subseteq history'.dropped
    BY <1>0, <1>5 DEF ResumeCheckpoint, History
  <2> QED
    BY <1>5, <2>1 DEF ResumeCheckpoint, EntersFrom, stored, TypeOK
<1> QED
  BY <1>2, <1>3, <1>4, <1>5 DEF HostStep, ApproveRun, ResumeApprovalCheckpoint

(* The steps of the loop that go on with a run. *)
Going ==
  \/ RequestModelTurn \/ BeginRound \/ BeginCall \/ AllowCall \/ RequestPermission
  \/ ExecuteTool \/ ObserveTool \/ EndRound \/ EndResumedRound
  \/ \E response \in Answers : RecordResponse(response)

LEMMA NextSteps ==
  ASSUME TypeOK, ApprovalsInv, SuspendedRunResumable, [Next]_vars
  PROVE  \/ Leaving \/ Going \/ SubmitRun \/ Decides \/ (\E state : EntersFrom(state))
         \/ UNCHANGED vars
BY HostSteps DEF Next, LoopStep, Leaving, Going

LEMMA LeavingEffect ==
  ASSUME TypeOK, RunningInv, Leaving
  PROVE  /\ at # None /\ at' = None /\ loop' = InitialLoop /\ todo' = <<>> /\ ~finalizing'
         /\ UNCHANGED resumes
         /\ history.dropped \subseteq history'.dropped
         /\ ~ExceedLimit => history'.limitHit = history.limitHit
         /\ status' = "suspended" => SuspendForModel \/ SuspendForCall
<1>0. history \in History /\ at # None
  BY DEF TypeOK, History, Leaving, FinalAnswer, Complete, SuspendForModel, ExceedLimit,
     DenyCall, SuspendForCall, FailRun, Crash, At, None
<1>1. /\ at' = None /\ loop' = InitialLoop /\ todo' = <<>> /\ ~finalizing'
      /\ UNCHANGED resumes
  BY DEF Leaving, FinalAnswer, Complete, SuspendForModel, ExceedLimit, DenyCall,
     SuspendForCall, FailRun, Crash, Finish, LeaveLoop
<1>2. history.dropped \subseteq history'.dropped
  BY <1>0 DEF Leaving, FinalAnswer, Complete, SuspendForModel, ExceedLimit, DenyCall,
     SuspendForCall, FailRun, Crash, History
<1>3. ~ExceedLimit => history'.limitHit = history.limitHit
  <2>2. CASE SuspendForModel /\ ~ExceedLimit
    BY <1>0, <2>2 DEF SuspendForModel, History
  <2>3. CASE ~SuspendForModel /\ ~ExceedLimit
    BY <2>3 DEF Leaving, FinalAnswer, Complete, DenyCall, SuspendForCall, FailRun, Crash
  <2> QED
    BY <2>2, <2>3
<1>4. ASSUME status' = "suspended"
      PROVE  SuspendForModel \/ SuspendForCall
  <2>1. CASE Crash
    BY <1>4, <2>1 DEF Crash, RunningInv
  <2> QED
    BY <1>4, <2>1 DEF Leaving, FinalAnswer, Complete, ExceedLimit, DenyCall, FailRun, Finish
<1> QED
  BY <1>0, <1>1, <1>2, <1>3, <1>4

LEMMA GoingEffect ==
  ASSUME TypeOK, Going
  PROVE  /\ at # None /\ at' # None /\ UNCHANGED <<status, resumes>>
         /\ history'.dropped = history.dropped /\ history'.limitHit = history.limitHit
<1>0. history \in History /\ at # None
  BY DEF TypeOK, History, Going, RequestModelTurn, BeginRound, BeginCall, AllowCall,
     RequestPermission, ExecuteTool, ObserveTool, EndRound, EndResumedRound, RecordResponse,
     At, None
<1>1. at' # None /\ UNCHANGED <<status, resumes>>
  BY DEF Going, RequestModelTurn, BeginRound, BeginCall, AllowCall, RequestPermission,
     ExecuteTool, ObserveTool, EndRound, EndResumedRound, RecordResponse, GoTo, None
<1>2. history'.dropped = history.dropped /\ history'.limitHit = history.limitHit
  BY <1>0 DEF Going, RequestModelTurn, BeginRound, BeginCall, AllowCall, RequestPermission,
     ExecuteTool, ObserveTool, EndRound, EndResumedRound, RecordResponse, History
<1> QED
  BY <1>0, <1>1, <1>2

LEMMA RunningKept ==
  ASSUME TypeOK, ApprovalsInv, SuspendedRunResumable, RunningInv, [Next]_vars
  PROVE  RunningInv'
<1>1. CASE Leaving
  BY <1>1, LeavingEffect DEF RunningInv, At, None
<1>2. CASE Going
  <2>1. at' # None /\ status' = "running"
    BY <1>2, GoingEffect DEF RunningInv
  <2>2. at' = "suspend" => RequestPermission
    BY <1>2 DEF Going, RequestModelTurn, BeginRound, BeginCall, AllowCall, ExecuteTool,
       ObserveTool, EndRound, EndResumedRound, RecordResponse, GoTo
  <2>3. RequestPermission => todo' = todo /\ Head(todo).id \in DOMAIN approvals'
    BY DEF RequestPermission, GoTo
  <2> QED
    BY <2>1, <2>2, <2>3 DEF RunningInv, At
<1>3. CASE SubmitRun
  BY <1>3 DEF SubmitRun, GoTo, RunningInv, At, None
<1>4. CASE Decides
  BY <1>4 DEF Decides, control, RunningInv, At, None
<1>5. ASSUME NEW state, EntersFrom(state)
      PROVE  RunningInv'
  BY <1>5 DEF EntersFrom, EnterLoop, RunningInv, At, None
<1>6. CASE UNCHANGED vars
  BY <1>6 DEF vars, control, stored, RunningInv, At
<1> QED
  BY <1>1, <1>2, <1>3, <1>4, <1>5, <1>6, NextSteps

LEMMA AnsweredKept ==
  ASSUME TypeOK, ApprovalsInv, SuspendedRunResumable, RunningInv, AnsweredInv, [Next]_vars
  PROVE  AnsweredInv'
<1>1. CASE Leaving
  <2>1. at' = None /\ loop'.unanswered = {}
    BY <1>1, LeavingEffect, InitialLoopFields DEF InitialFields
  <2> QED
    BY <2>1 DEF AnsweredInv, At, InRound, None
<1>2. CASE Going
  <2>0. history'.dropped = history.dropped
    BY <1>2, GoingEffect
  <2>1. CASE RequestModelTurn
    BY <2>0, <2>1 DEF RequestModelTurn, GoTo, AnsweredInv, At, InRound, None
  <2>2. CASE BeginRound
    BY <2>0, <2>2 DEF BeginRound, AnsweredInv, At, InRound, None
  <2>3. CASE BeginCall \/ AllowCall \/ RequestPermission \/ ExecuteTool
    <3>1. at \in InRound /\ at' \in InRound /\ todo' = todo
      BY <2>3 DEF BeginCall, AllowCall, RequestPermission, ExecuteTool, GoTo, At, InRound
    <3>2. loop'.unanswered = loop.unanswered
      BY <2>3, LoopFields DEF AllowCall, RequestPermission, ExecuteTool
    <3>3. at' \notin {None, "request", "turn", "route"}
      BY <3>1 DEF InRound, None
    <3> QED
      BY <2>0, <3>1, <3>2, <3>3 DEF AnsweredInv, At
  <2>4. CASE ObserveTool
    <3>1. at \in InRound /\ at' = "calls" /\ todo' = Tail(todo) /\ todo # <<>>
      BY <2>4 DEF ObserveTool, At, InRound, TypeOK
    <3>2. loop'.unanswered = loop.unanswered \ {Head(todo)}
      BY <2>4, LoopFields
    <3>3. ToSet(todo) = {Head(todo)} \cup ToSet(Tail(todo))
      BY <3>1, HeadAndTail DEF TypeOK
    <3> QED
      BY <2>0, <3>1, <3>2, <3>3 DEF AnsweredInv, At, InRound, None
  <2>5. CASE EndRound \/ EndResumedRound
    <3>1. at \in InRound /\ at' = "request" /\ todo = <<>>
      BY <2>5 DEF EndRound, EndResumedRound, At, InRound
    <3>2. loop'.unanswered = loop.unanswered
      BY <2>5, LoopFields
    <3> QED
      BY <2>0, <3>1, <3>2, ToSetEmpty DEF AnsweredInv, At, InRound, None
  <2>6. ASSUME NEW response \in Answers, RecordResponse(response)
        PROVE  AnsweredInv'
    <3>1. at = "turn" /\ at' = "route" /\ answer'.calls = NamedCalls(response)
      BY <2>6 DEF RecordResponse, GoTo, At, NamedCalls
    <3>2. loop'.unanswered = loop.unanswered \cup ToSet(NamedCalls(response))
      BY <2>6, LoopFields
    <3> QED
      BY <2>0, <3>1, <3>2 DEF AnsweredInv, At, InRound, None
  <2> QED
    BY <1>2, <2>1, <2>2, <2>3, <2>4, <2>5, <2>6 DEF Going
<1>3. CASE SubmitRun
  <2>1. at = None
    BY <1>3 DEF SubmitRun, RunningInv, None
  <2> QED
    BY <1>3, <2>1 DEF SubmitRun, GoTo, AnsweredInv, At, InRound, None
<1>4. CASE Decides
  BY <1>4 DEF Decides, control, AnsweredInv, At, InRound, None
<1>5. ASSUME NEW state, EntersFrom(state)
      PROVE  AnsweredInv'
  <2>1. /\ loop'.unanswered = state.unanswered /\ todo' = state.pending
        /\ state.unanswered \ ToSet(state.pending) \subseteq history'.dropped
        /\ at' = IF state.pending # <<>> THEN "calls" ELSE "request"
    BY <1>5, LoopFields DEF EntersFrom, EnterLoop, LeftOut
  <2> QED
    BY <2>1, ToSetEmpty DEF AnsweredInv, At, InRound, None
<1>6. CASE UNCHANGED vars
  BY <1>6 DEF vars, control, stored, AnsweredInv, At
<1> QED
  BY <1>1, <1>2, <1>3, <1>4, <1>5, <1>6, NextSteps

LEMMA PendingKept ==
  ASSUME TypeOK, ApprovalsInv, SuspendedRunResumable, RunningInv, PendingInv, [Next]_vars
  PROVE  PendingInv'
<1>1. CASE Leaving
  <2>1. loop'.pending = <<>>
    BY <1>1, LeavingEffect, InitialLoopFields DEF InitialFields
  <2> QED
    BY <2>1 DEF PendingInv
<1>2. CASE Going
  <2>1. CASE RequestModelTurn \/ BeginRound
    BY <2>1 DEF RequestModelTurn, BeginRound, GoTo, PendingInv, At, None
  <2>2. CASE BeginCall \/ AllowCall \/ RequestPermission \/ ExecuteTool
    <3>1. at' \in {"permission", "execute", "suspend", "observe"}
      BY <2>2 DEF BeginCall, AllowCall, RequestPermission, ExecuteTool, GoTo
    <3> QED
      BY <3>1 DEF PendingInv, At, None
  <2>3. CASE ObserveTool
    BY <2>3, LoopFields DEF PendingInv
  <2>4. CASE EndRound \/ EndResumedRound
    <3>1. loop'.pending = loop.pending /\ at = "calls" /\ todo = <<>>
      BY <2>4, LoopFields DEF EndRound, EndResumedRound, At
    <3> QED
      BY <3>1 DEF PendingInv, At
  <2>5. ASSUME NEW response \in Answers, RecordResponse(response)
        PROVE  PendingInv'
    <3>1. loop'.pending = loop.pending /\ at = "turn"
      BY <2>5, LoopFields DEF RecordResponse, At
    <3> QED
      BY <3>1 DEF PendingInv
  <2> QED
    BY <1>2, <2>1, <2>2, <2>3, <2>4, <2>5 DEF Going
<1>3. CASE SubmitRun
  <2>1. loop' = InitialLoop
    BY <1>3 DEF SubmitRun, RunningInv, None
  <2> QED
    BY <2>1, InitialLoopFields DEF PendingInv, InitialFields
<1>4. CASE Decides
  BY <1>4 DEF Decides, control, PendingInv, At, None
<1>5. ASSUME NEW state, EntersFrom(state)
      PROVE  PendingInv'
  <2>1. /\ loop'.pending = state.pending /\ todo' = state.pending
        /\ at' = IF state.pending # <<>> THEN "calls" ELSE "request"
    BY <1>5, LoopFields DEF EntersFrom, EnterLoop
  <2> QED
    BY <2>1 DEF PendingInv, At, None
<1>6. CASE UNCHANGED vars
  BY <1>6 DEF vars, control, stored, PendingInv, At
<1> QED
  BY <1>1, <1>2, <1>3, <1>4, <1>5, <1>6, NextSteps

(* A suspension leaves a record to go on from. *)
LEMMA SuspendedKept ==
  ASSUME TypeOK, ApprovalsInv, SuspendedRunResumable, RunningInv, AnsweredInv, [Next]_vars
  PROVE  SuspendedRunResumable'
<1> DEFINE Whole(r, dropped) == r.resumable => LeftOut(r.loop) \subseteq dropped
<1>0. /\ \A k \in DOMAIN approvals : Whole(approvals[k], history.dropped)
      /\ \A k \in DOMAIN approvals : approvals[k] \in ApprovalRecord
      /\ history \in History
  BY DEF SuspendedRunResumable, TypeOK, ApprovalRecord, History
<1>1. CASE SuspendForModel
  <2> DEFINE id == ModelApproval
             kept == [loop EXCEPT !.iteration = @ + 1, !.approval = NoApproval]
             new == [shows |-> {}, resumable |-> TRUE, loop |-> kept]
  <2>1. approvals' = [k \in DOMAIN approvals \cup {id} |-> IF k = id THEN new ELSE approvals[k]]
    BY <1>1 DEF SuspendForModel
  <2>2. CallsOf(kept) = CallsOf(loop) /\ kept.unanswered = loop.unanswered
    <3> DEFINE P == Seq(Calls)
    <3> HIDE DEF P
    <3>1. loop \in [iteration : Nat, rounds : Nat, pending : P,
                    unanswered : SUBSET Calls, approval : Id]
      BY DEF Continuation, P, TypeOK
    <3> QED
      BY <3>1 DEF CallsOf
  <2>3. LeftOut(kept) \subseteq history.dropped \cup ToSet(answer.calls)
    <3> HIDE DEF kept
    <3> QED
      BY <1>1, <2>2 DEF LeftOut, SuspendForModel, AnsweredInv
  <2>4. history'.dropped = history.dropped \cup ToSet(answer.calls)
    BY <1>0, <1>1 DEF SuspendForModel, History
  <2> HIDE DEF kept, id
  <2>5. Whole(new, history'.dropped) /\ new.resumable
    BY <2>3, <2>4
  <2>6. \A k \in DOMAIN approvals : Whole(approvals[k], history'.dropped)
    BY <1>0, <2>4
  <2> HIDE DEF new, Whole
  <2>7. /\ \A k \in DOMAIN approvals' : Whole(approvals'[k], history'.dropped)
        /\ id \in DOMAIN approvals' /\ approvals'[id].resumable
    BY <2>1, <2>5, <2>6
  <2> QED
    BY <2>7 DEF SuspendedRunResumable, Whole
<1>2. CASE SuspendForCall
  <2> DEFINE id == Head(todo).id
             kept == [loop EXCEPT !.pending = todo, !.iteration = @ + 1,
                                  !.approval = NoApproval]
  <2>1. /\ approvals' = [approvals EXCEPT ![id].resumable = TRUE, ![id].loop = kept]
        /\ UNCHANGED history
    BY <1>2 DEF SuspendForCall
  <2>2. kept.unanswered = loop.unanswered /\ kept.pending = todo
    <3> DEFINE P == Seq(Calls)
    <3> HIDE DEF P
    <3>1. loop \in [iteration : Nat, rounds : Nat, pending : P,
                    unanswered : SUBSET Calls, approval : Id]
      BY DEF Continuation, P, TypeOK
    <3> QED
      BY <3>1
  <2>3. id \in DOMAIN approvals /\ at \in InRound
    BY <1>2 DEF SuspendForCall, RunningInv, At, InRound
  <2> HIDE DEF kept
  <2>4. LeftOut(kept) \subseteq history.dropped
    BY <2>2, <2>3 DEF LeftOut, AnsweredInv
  <2> HIDE DEF id
  <2>5. /\ DOMAIN approvals' = DOMAIN approvals
        /\ \A k \in DOMAIN approvals : k # id => approvals'[k] = approvals[k]
        /\ approvals'[id].loop = kept /\ approvals'[id].resumable
    BY <1>0, <2>1, <2>3 DEF ApprovalRecord
  <2>6. \A k \in DOMAIN approvals' : Whole(approvals'[k], history.dropped)
    BY <1>0, <2>4, <2>5
  <2> QED
    BY <2>1, <2>3, <2>5, <2>6 DEF SuspendedRunResumable
<1>3. CASE RequestPermission
  <2> DEFINE id == Head(todo).id
             new == [shows |-> {Head(todo)}, resumable |-> FALSE, loop |-> InitialLoop]
  <2>1. /\ approvals' = [k \in DOMAIN approvals \cup {id} |->
                           IF k = id THEN new ELSE approvals[k]]
        /\ UNCHANGED <<status, history>> /\ at # None
    BY <1>3 DEF RequestPermission, At, None
  <2>2. status' # "suspended"
    BY <2>1 DEF RunningInv
  <2>3. Whole(new, history.dropped)
    OBVIOUS
  <2> HIDE DEF new, id, Whole
  <2>4. \A k \in DOMAIN approvals' : Whole(approvals'[k], history.dropped)
    BY <1>0, <2>1, <2>3
  <2> QED
    BY <2>1, <2>2, <2>4 DEF SuspendedRunResumable, Whole
<1>4. CASE UNCHANGED approvals /\ ~SuspendForModel /\ ~SuspendForCall
  <2>1. history.dropped \subseteq history'.dropped
    <3>1. CASE \E state : EntersFrom(state)
      BY <3>1 DEF EntersFrom
    <3>2. CASE Leaving
      BY <3>2, LeavingEffect
    <3>3. CASE Going
      BY <3>3, GoingEffect
    <3>4. CASE SubmitRun \/ Decides
      BY <3>4 DEF SubmitRun, Decides
    <3>5. CASE UNCHANGED vars
      BY <3>5 DEF vars
    <3> QED
      BY <3>1, <3>2, <3>3, <3>4, <3>5, NextSteps
  <2>2. status' = "suspended" => status = "suspended"
    <3>1. CASE Leaving
      BY <1>4, <3>1, LeavingEffect
    <3>2. CASE Going
      BY <3>2, GoingEffect
    <3>3. CASE SubmitRun \/ Decides \/ UNCHANGED vars
      BY <3>3 DEF SubmitRun, Decides, vars
    <3>4. CASE \E state : EntersFrom(state)
      BY <3>4 DEF EntersFrom, EnterLoop
    <3> QED
      BY <3>1, <3>2, <3>3, <3>4, NextSteps
  <2>3. \A k \in DOMAIN approvals : Whole(approvals[k], history'.dropped)
    BY <1>0, <2>1
  <2> QED
    BY <1>4, <2>2, <2>3 DEF SuspendedRunResumable
<1>5. SuspendForModel \/ RequestPermission \/ SuspendForCall \/ UNCHANGED approvals
  <2>1. CASE Leaving
    BY <2>1 DEF Leaving, FinalAnswer, Complete, ExceedLimit, DenyCall, FailRun, Crash, stored
  <2>2. CASE Going
    BY <2>2 DEF Going, RequestModelTurn, BeginRound, BeginCall, AllowCall, ExecuteTool,
       ObserveTool, EndRound, EndResumedRound, RecordResponse, stored
  <2> QED
    BY <2>1, <2>2, NextSteps DEF SubmitRun, Decides, EntersFrom, vars, stored
<1> QED
  BY <1>1, <1>2, <1>3, <1>4, <1>5

LEMMA FreshKept ==
  ASSUME TypeOK, ApprovalsInv, SuspendedRunResumable, RunningInv, FreshRunInv, [Next]_vars
  PROVE  FreshRunInv'
<1>0. /\ MaxToolIterations \in Nat \ {0} /\ resumes \in Nat
      /\ loop.rounds \in Nat /\ loop.iteration \in Nat
  BY ToolLoopAssumption DEF TypeOK, Continuation
<1>1. CASE Leaving
  <2>1. /\ at # None /\ at' = None /\ resumes' = resumes
        /\ ~ExceedLimit => history'.limitHit = history.limitHit
    BY <1>1, LeavingEffect
  <2>2. resumes = 0 => ~ExceedLimit
    BY <1>0 DEF ExceedLimit, FreshRunInv, At, None
  <2> QED
    BY <2>1, <2>2 DEF FreshRunInv
<1>2. CASE Going
  <2>0. /\ at # None /\ resumes' = resumes /\ history'.limitHit = history.limitHit
    BY <1>2, GoingEffect
  <2>1. CASE RequestModelTurn
    BY <2>0, <2>1 DEF RequestModelTurn, GoTo, FreshRunInv, At, InRound
  <2>2. CASE BeginRound
    BY <2>0, <2>2 DEF BeginRound, FreshRunInv, At, InRound
  <2>3. CASE BeginCall \/ AllowCall \/ RequestPermission \/ ExecuteTool \/ ObserveTool
    <3>1. at \in InRound /\ UNCHANGED <<resumed, finalizing>>
      BY <2>3 DEF BeginCall, AllowCall, RequestPermission, ExecuteTool, ObserveTool, GoTo,
         At, InRound
    <3>2. loop'.iteration = loop.iteration /\ loop'.rounds = loop.rounds
      BY <2>3, LoopFields DEF AllowCall, RequestPermission, ExecuteTool
    <3> QED
      BY <2>0, <3>1, <3>2 DEF FreshRunInv
  <2>4. CASE EndRound
    <3>1. at' = "request" /\ ~resumed'
      BY <2>4 DEF EndRound
    <3>4. loop.iteration + 1 >= MaxToolIterations - 1 => finalizing'
      BY <2>4, Zenon DEF EndRound
    <3>5. ~finalizing' => loop.iteration + 1 < MaxToolIterations - 1
      BY <1>0, <3>4
    <3>2. loop'.iteration = loop.iteration + 1 /\ loop'.rounds = loop.rounds + 1
      BY <2>4, LoopFields
    <3> QED
      BY <1>0, <2>0, <3>1, <3>2, <3>5 DEF FreshRunInv, InRound
  <2>5. CASE EndResumedRound
    BY <2>0, <2>5 DEF EndResumedRound, FreshRunInv
  <2>6. ASSUME NEW response \in Answers, RecordResponse(response)
        PROVE  FreshRunInv'
    <3>1. loop'.iteration = loop.iteration /\ loop'.rounds = loop.rounds
      BY <2>6, LoopFields
    <3>2. ~finalizing /\ UNCHANGED <<resumed, finalizing>>
      BY <2>6 DEF RecordResponse, GoTo
    <3> QED
      BY <2>0, <3>1, <3>2 DEF FreshRunInv
  <2> QED
    BY <1>2, <2>1, <2>2, <2>3, <2>4, <2>5, <2>6 DEF Going
<1>3. CASE SubmitRun
  <2>1. at = None
    BY <1>3 DEF SubmitRun, RunningInv, None
  <2>2. ~resumed /\ loop = InitialLoop /\ ~finalizing
    BY <2>1 DEF TypeOK, InRound, None, RunningInv
  <2>3. UNCHANGED <<loop, resumed, finalizing, resumes, history>> /\ at' = "request"
    BY <1>3 DEF SubmitRun, GoTo
  <2> QED
    BY <1>0, <2>2, <2>3, InitialLoopFields DEF FreshRunInv, InitialFields, InRound
<1>4. CASE Decides
  BY <1>4 DEF Decides, control, FreshRunInv, At, None
<1>5. ASSUME NEW state, EntersFrom(state)
      PROVE  FreshRunInv'
  BY <1>0, <1>5 DEF EntersFrom, EnterLoop, FreshRunInv
<1>6. CASE UNCHANGED vars
  BY <1>6 DEF vars, control, stored, FreshRunInv, At
<1> QED
  BY <1>1, <1>2, <1>3, <1>4, <1>5, <1>6, NextSteps

(***************************************************************************)
(* The invariant                                                           *)
(***************************************************************************)
LEMMA InvariantInitially == Init => IInv
<1> SUFFICES ASSUME Init PROVE IInv
  OBVIOUS
<1>1. TypeOK
  BY InitTypes
<1>2. \A c : ~Known(c)
  <2>1. /\ ToSet(answer.calls) = {} /\ ToSet(todo) = {} /\ CallsOf(loop) = {}
        /\ checkpoints = {} /\ DOMAIN approvals = {}
        /\ history.allowed = {} /\ history.recorded = {}
    BY NoCalls, ToSetEmpty DEF Init, NoHistory
  <2> QED
    BY <2>1 DEF Known
<1>3. NamesInv
  BY <1>2 DEF NamesInv
<1>4. ApprovalsInv /\ GrantsInv /\ SuspendedRunResumable
  BY DEF Init, ApprovalsInv, GrantsInv, SuspendedRunResumable, None
<1>5. ExecuteInv /\ RunningInv /\ NothingRunsUnapproved
  BY DEF Init, ExecuteInv, RunningInv, NothingRunsUnapproved, NoHistory, At, None
<1>6. AnsweredInv /\ PendingInv /\ FreshRunInv
  BY InitialLoopFields DEF Init, AnsweredInv, PendingInv, FreshRunInv, NoHistory, At, None,
     InRound, InitialFields
<1> QED
  BY <1>1, <1>3, <1>4, <1>5, <1>6 DEF IInv

LEMMA InvariantKept == IInv /\ [Next]_vars => IInv'
<1> SUFFICES ASSUME IInv, [Next]_vars PROVE IInv'
  OBVIOUS
<1>0. /\ TypeOK /\ NamesInv /\ ApprovalsInv /\ GrantsInv /\ ExecuteInv
      /\ ModelNamesCalls => NothingRunsUnapproved
      /\ RunningInv /\ AnsweredInv /\ PendingInv /\ SuspendedRunResumable /\ FreshRunInv
  BY DEF IInv
<1>1. TypeOK' /\ NamesInv' /\ ApprovalsInv' /\ GrantsInv' /\ ExecuteInv'
  BY <1>0, NextTypes, NamesKept, ApprovalsKept, GrantsKept, ExecuteKept
<1>2. ModelNamesCalls => NothingRunsUnapproved'
  BY <1>0, ApprovalHolds
<1>3. RunningInv' /\ AnsweredInv' /\ PendingInv' /\ SuspendedRunResumable' /\ FreshRunInv'
  BY <1>0, RunningKept, AnsweredKept, PendingKept, SuspendedKept, FreshKept
<1> QED
  BY <1>1, <1>2, <1>3 DEF IInv

LEMMA InvariantHolds == Spec => []IInv
BY InvariantInitially, InvariantKept, PTL DEF Spec

(* The types of the loop's state. *)
THEOREM TypeCorrect == Spec => []TypeOK
<1>1. IInv => TypeOK
  BY DEF IInv
<1> QED
  BY <1>1, InvariantHolds, PTL

(* A model that gives its calls ids of their own never has a call with     *)
(* side effects made that no reviewer has seen and allowed, or allowed     *)
(* with everything in the run: whatever is resumed, however often.         *)
THEOREM UnapprovedNeverRuns ==
  ASSUME ModelNamesCalls
  PROVE  Spec => []NothingRunsUnapproved
<1>1. IInv => NothingRunsUnapproved
  BY DEF IInv
<1> QED
  BY <1>1, InvariantHolds, PTL

(* The model is asked for a turn only when its calls are answered, but for *)
(* those that are known to be left out.                                    *)
THEOREM CallsAnswered == Spec => []EveryCallAnswered
<1>1. IInv => EveryCallAnswered
  BY DEF IInv, AnsweredInv, EveryCallAnswered, At
<1> QED
  BY <1>1, InvariantHolds, PTL

(* A suspended run has a record to go on from, and no continuation of a    *)
(* record has lost a call.                                                 *)
THEOREM SuspendedResumable == Spec => []SuspendedRunResumable
<1>1. IInv => SuspendedRunResumable
  BY DEF IInv
<1> QED
  BY <1>1, InvariantHolds, PTL

(* Before its first resume a run never hits the limit of tool rounds,      *)
(* whatever the budget and the answers of the model.                       *)
THEOREM FreshConverges == Spec => []FreshRunConverges
<1>1. IInv => FreshRunConverges
  BY DEF IInv, FreshRunInv, FreshRunConverges
<1> QED
  BY <1>1, InvariantHolds, PTL

(***************************************************************************)
(* Rounds                                                                  *)
(***************************************************************************)

(* The limits grow with the resumes, and stay within the bound. *)
LEMMA Limits ==
  ASSUME MaxToolIterations >= 2, NEW n \in Nat
  PROVE  /\ PendingLimit(n) \in Int /\ Limit(n) \in Int
         /\ 0 <= PendingLimit(n) /\ PendingLimit(n) <= Limit(n)
         /\ Limit(n) <= PendingLimit(n + 1) /\ Limit(n) <= Limit(n + 1)
         /\ PendingLimit(n + 1) = PendingLimit(n) + 1
         /\ PendingLimit(n) + 1 <= Limit(n + 1)
         /\ Limit(n) <= MaxToolIterations + (IF n > 2 THEN n - 2 ELSE 0)
BY ToolLoopAssumption DEF PendingLimit, Limit

LEMMA NumbersOf ==
  ASSUME NEW state \in Continuation
  PROVE  state.rounds \in Nat /\ state.iteration \in Nat
BY DEF Continuation

LEMMA LimitsGrow ==
  ASSUME MaxToolIterations >= 2, NEW n \in Nat, NEW state \in Continuation,
         StateInLimits(state, n)
  PROVE  StateInLimits(state, n + 1)
<1>1. state.rounds \in Nat /\ n + 1 # 0
  BY NumbersOf
<1>2. /\ Limit(n) \in Int /\ Limit(n + 1) \in Int /\ Limit(n) <= Limit(n + 1)
      /\ PendingLimit(n) \in Int /\ PendingLimit(n + 1) = PendingLimit(n) + 1
  BY Limits
<1>3. Limit(n + 1) \in Int
  BY Limits
<1> QED
  BY <1>1, <1>2, <1>3 DEF StateInLimits

(* What a checkpoint adds stays within the limits. *)
LEMMA CheckpointInLimits ==
  ASSUME NEW node, NEW state, Checkpoint(node, state), StateInLimits(state, resumes),
         \A cp \in checkpoints : StateInLimits(cp.loop, resumes)
  PROVE  \A cp \in checkpoints' : StateInLimits(cp.loop, resumes)
<1>1. checkpoints' \subseteq checkpoints \cup {[node |-> node, loop |-> state]}
  BY CheckpointAdds
<1> QED
  BY <1>1

(* The state in memory, as a checkpoint or a record keeps it. *)
LEMMA LoopInLimits ==
  ASSUME MaxToolIterations >= 2, TypeOK, RunningInv, PendingInv, FreshRunInv, RoundsInv,
         at # None
  PROVE  /\ StateInLimits(loop, resumes)
         /\ at \in {"turn", "route"} /\ ~finalizing => loop.rounds <= PendingLimit(resumes)
         /\ at \in InRound => loop.rounds <= PendingLimit(resumes)
         /\ resumes = 0 => loop.iteration = loop.rounds
<1>0. loop.rounds \in Nat /\ loop.iteration \in Nat /\ resumes \in Nat
  BY DEF TypeOK, Continuation
<1>1. at \in {"turn", "route"} /\ ~finalizing => loop.rounds <= PendingLimit(resumes)
  BY DEF RoundsInv, LoopRounds
<1>2. ASSUME at \in InRound
      PROVE  loop.rounds <= PendingLimit(resumes)
  <2>1. CASE ~resumed
    BY <1>2, <2>1 DEF RoundsInv, LoopRounds
  <2>2. CASE resumed
    <3>1. resumes # 0 /\ loop.rounds <= PendingLimit(resumes - 1)
      BY <1>2, <2>2 DEF RoundsInv, LoopRounds, FreshRunInv
    <3>2. resumes - 1 \in Nat
      BY <1>0, <3>1
    <3>3. PendingLimit(resumes) = PendingLimit(resumes - 1) + 1
      BY <1>0, ToolLoopAssumption DEF PendingLimit
    <3> QED
      BY <1>0, <3>1, <3>2, <3>3, Limits
  <2> QED
    BY <2>1, <2>2 DEF TypeOK
<1>3. resumes = 0 => loop.iteration = loop.rounds
  BY DEF FreshRunInv
<1>4. loop.pending # <<>> => loop.rounds <= PendingLimit(resumes)
  <2>1. loop.pending # <<>> => at \in InRound
    BY DEF PendingInv, TypeOK
  <2> QED
    BY <1>2, <2>1
<1> QED
  BY <1>0, <1>1, <1>2, <1>3, <1>4 DEF StateInLimits, RoundsInv, LoopRounds

(* The states that the steps keep, from the one in memory. *)
LEMMA KeptInLimits ==
  ASSUME MaxToolIterations >= 2, TypeOK, StateInLimits(loop, resumes),
         NEW s \in Seq(Calls), NEW id \in Id, NEW S \in SUBSET Calls
  PROVE  /\ StateInLimits([loop EXCEPT !.approval = id], resumes)
         /\ StateInLimits([loop EXCEPT !.unanswered = S], resumes)
         /\ StateInLimits([loop EXCEPT !.iteration = @ + 1, !.approval = id], resumes)
         /\ loop.rounds <= PendingLimit(resumes) =>
              /\ StateInLimits([loop EXCEPT !.pending = s], resumes)
              /\ StateInLimits([loop EXCEPT !.unanswered = S, !.pending = s], resumes)
              /\ StateInLimits([loop EXCEPT !.pending = s, !.iteration = @ + 1], resumes)
              /\ StateInLimits([loop EXCEPT !.pending = s, !.iteration = @ + 1,
                                            !.approval = id], resumes)
<1> DEFINE P == Seq(Calls)
<1> HIDE DEF P
<1>1. loop \in [iteration : Nat, rounds : Nat, pending : P,
                unanswered : SUBSET Calls, approval : Id]
  BY DEF Continuation, P, TypeOK
<1>2. resumes \in Nat
  BY DEF TypeOK
<1> QED
  BY <1>1, <1>2 DEF StateInLimits

LoopInv ==
  /\ TypeOK /\ ApprovalsInv /\ SuspendedRunResumable /\ RunningInv /\ PendingInv
  /\ FreshRunInv /\ RoundsInv

LEMMA CheckpointsLimited ==
  ASSUME MaxToolIterations >= 2, LoopInv, [Next]_vars
  PROVE  \A cp \in checkpoints' : StateInLimits(cp.loop, resumes')
<1>0. /\ TypeOK /\ ApprovalsInv /\ SuspendedRunResumable /\ RunningInv /\ PendingInv
      /\ FreshRunInv /\ RoundsInv
      /\ \A cp \in checkpoints : StateInLimits(cp.loop, resumes)
      /\ resumes \in Nat
  BY DEF LoopInv, RoundsInv, LoopRounds, TypeOK
<1>a. /\ \A cp \in checkpoints : cp.loop \in Continuation
      /\ loop \in Continuation /\ todo \in Seq(Calls)
  BY <1>0 DEF TypeOK
<1>b. /\ loop.iteration \in Nat /\ loop.rounds \in Nat
  BY <1>a DEF Continuation
<1>1. CASE UNCHANGED <<checkpoints, resumes>>
  BY <1>0, <1>1
<1>2. ASSUME NEW node, NEW state, Checkpoint(node, state), StateInLimits(state, resumes),
             UNCHANGED resumes
      PROVE  \A cp \in checkpoints' : StateInLimits(cp.loop, resumes')
  <2>1. \A cp \in checkpoints' : StateInLimits(cp.loop, resumes)
    BY <1>0, <1>2, CheckpointInLimits
  <2> QED
    BY <1>2, <2>1
<1>3. CASE SubmitRun
  <2>1. StateInLimits(InitialLoop, resumes)
    BY <1>0, Limits, InitialLoopFields DEF StateInLimits, InitialFields
  <2> QED
    BY <1>2, <1>3, <2>1 DEF SubmitRun
<1>4. CASE Leaving
  <2>1. at # None /\ UNCHANGED resumes
    BY <1>0, <1>4, LeavingEffect
  <2>2. StateInLimits(loop, resumes)
    BY <1>0, <2>1, LoopInLimits
  <2>3. CASE FinalAnswer \/ Complete
    BY <1>2, <2>1, <2>2, <2>3 DEF FinalAnswer, Complete
  <2>4. CASE SuspendForModel
    <3>1. ModelApproval \in Id
      BY <1>0, Ids DEF ModelApproval, TypeOK
    <3>2. StateInLimits([loop EXCEPT !.approval = ModelApproval], resumes)
      BY <1>0, <2>2, <3>1, CallSequences, KeptInLimits
    <3> QED
      BY <1>2, <2>1, <2>4, <3>2 DEF SuspendForModel
  <2>5. CASE SuspendForCall
    <3> DEFINE kept == [loop EXCEPT !.pending = todo, !.iteration = @ + 1,
                                    !.approval = NoApproval]
               id == Head(todo).id
    <3>1. at \in InRound
      BY <2>5 DEF SuspendForCall, At, InRound
    <3>2. loop.rounds <= PendingLimit(resumes)
      BY <1>0, <2>1, <3>1, LoopInLimits
    <3>3. StateInLimits(kept, resumes) /\ kept \in Continuation
      BY <1>0, <1>a, <2>2, <3>2, Ids, KeptInLimits, Edited DEF NoApproval
    <3> HIDE DEF kept
    <3>4. StateInLimits([kept EXCEPT !.approval = id], resumes)
      <4> DEFINE P == Seq(Calls)
      <4> HIDE DEF P
      <4>1. kept \in [iteration : Nat, rounds : Nat, pending : P,
                      unanswered : SUBSET Calls, approval : Id]
        BY <3>3 DEF Continuation, P
      <4> QED
        BY <3>3, <4>1 DEF StateInLimits
    <3>5. Checkpoint("approval_pending", [kept EXCEPT !.approval = id])
      BY <2>5 DEF SuspendForCall, kept
    <3> QED
      BY <1>2, <2>1, <3>4, <3>5
  <2>6. CASE ExceedLimit \/ DenyCall \/ FailRun \/ Crash
    <3>1. UNCHANGED checkpoints
      BY <2>6 DEF ExceedLimit, DenyCall, FailRun, Crash, stored
    <3> QED
      BY <1>1, <2>1, <3>1
  <2> QED
    BY <1>4, <2>3, <2>4, <2>5, <2>6 DEF Leaving
<1>5. CASE Going
  <2>1. at # None /\ UNCHANGED resumes
    BY <1>0, <1>5, GoingEffect
  <2>2. StateInLimits(loop, resumes)
    BY <1>0, <2>1, LoopInLimits
  <2>3. CASE RequestModelTurn
    BY <1>2, <2>1, <2>2, <2>3 DEF RequestModelTurn
  <2>4. CASE BeginCall
    <3>1. at \in InRound /\ todo # <<>>
      BY <2>4 DEF BeginCall, At, InRound
    <3>2. loop.rounds <= PendingLimit(resumes)
      BY <1>0, <2>1, <3>1, LoopInLimits
    <3>3. <<Head(todo)>> \in Seq(Calls)
      BY <1>a, <3>1, HeadAndTail, CallSequences
    <3>4. StateInLimits([loop EXCEPT !.pending = <<Head(todo)>>], resumes)
      BY <1>0, <2>2, <3>2, <3>3, Ids, KeptInLimits
    <3> QED
      BY <1>2, <2>1, <2>4, <3>4 DEF BeginCall
  <2>5. CASE ObserveTool
    <3> DEFINE none == <<>>
               S == loop.unanswered \ {Head(todo)}
               after == [loop EXCEPT !.unanswered = S, !.pending = none]
    <3>1. at \in InRound
      BY <2>5 DEF ObserveTool, At, InRound
    <3>2. loop.rounds <= PendingLimit(resumes)
      BY <1>0, <2>1, <3>1, LoopInLimits
    <3>3. none \in Seq(Calls) /\ S \in SUBSET Calls
      BY <1>a, CallSequences, Edited
    <3>4. Checkpoint("tool_observation", after)
      BY <2>5 DEF ObserveTool
    <3> HIDE DEF none, S
    <3>5. StateInLimits(after, resumes)
      BY <1>0, <2>2, <3>2, <3>3, Ids, KeptInLimits
    <3> QED
      BY <1>2, <2>1, <3>4, <3>5
  <2>6. ASSUME NEW response \in Answers, RecordResponse(response)
        PROVE  \A cp \in checkpoints' : StateInLimits(cp.loop, resumes')
    <3> DEFINE calls == NamedCalls(response)
               after == [loop EXCEPT !.unanswered = @ \cup ToSet(calls)]
               new == [after EXCEPT !.pending = calls, !.iteration = @ + 1]
    <3>1. at = "turn" /\ ~finalizing
      BY <2>6 DEF RecordResponse, At
    <3>2. loop.rounds <= PendingLimit(resumes)
      BY <1>0, <2>1, <3>1, LoopInLimits
    <3>3. calls \in Seq(Calls) /\ ToSet(calls) \subseteq Calls
      BY <1>0, NamedCallsType, ToSetType
    <3>4. Checkpoint("model_response", IF calls = <<>> THEN after ELSE new)
      BY <2>6 DEF RecordResponse, NamedCalls
    <3> HIDE DEF calls
    <3>5. StateInLimits(after, resumes) /\ StateInLimits(new, resumes)
      <4> DEFINE P == Seq(Calls)
                 U == ToSet(calls)
      <4>0. calls \in P /\ U \subseteq Calls
        BY <3>3
      <4> HIDE DEF P, U
      <4>1. loop \in [iteration : Nat, rounds : Nat, pending : P,
                      unanswered : SUBSET Calls, approval : Id]
        BY <1>a DEF Continuation, P
      <4>2. /\ [loop EXCEPT !.unanswered = @ \cup U] \in
                 [iteration : Nat, rounds : Nat, pending : P,
                  unanswered : SUBSET Calls, approval : Id]
            /\ StateInLimits([loop EXCEPT !.unanswered = @ \cup U], resumes)
            /\ [loop EXCEPT !.unanswered = @ \cup U].rounds = loop.rounds
            /\ [loop EXCEPT !.unanswered = @ \cup U].iteration = loop.iteration
        BY <2>2, <4>0, <4>1 DEF StateInLimits
      <4>3. after = [loop EXCEPT !.unanswered = @ \cup U]
        BY DEF U
      <4> HIDE DEF after
      <4>4. new.rounds = loop.rounds /\ new.iteration = loop.iteration + 1
        BY <4>2, <4>3
      <4> HIDE DEF new
      <4> QED
        BY <1>0, <1>b, <2>2, <3>2, <4>2, <4>3, <4>4 DEF StateInLimits
    <3> HIDE DEF after, new
    <3> QED
      BY <1>2, <2>1, <3>4, <3>5
  <2>7. CASE BeginRound \/ AllowCall \/ RequestPermission \/ ExecuteTool \/ EndRound
             \/ EndResumedRound
    <3>1. UNCHANGED checkpoints
      BY <2>7 DEF BeginRound, AllowCall, RequestPermission, ExecuteTool, EndRound,
         EndResumedRound, stored
    <3> QED
      BY <1>1, <2>1, <3>1
  <2> QED
    BY <1>5, <2>3, <2>4, <2>5, <2>6, <2>7 DEF Going
<1>6. CASE Decides \/ UNCHANGED vars
  BY <1>1, <1>6 DEF Decides, vars, stored
<1>7. CASE \E state : EntersFrom(state)
  <2>1. resumes' = resumes + 1 /\ UNCHANGED checkpoints
    BY <1>7 DEF EntersFrom, EnterLoop
  <2>2. \A cp \in checkpoints : StateInLimits(cp.loop, resumes + 1)
    BY <1>0, <1>a, LimitsGrow
  <2> QED
    BY <2>1, <2>2
<1> QED
  BY <1>0, <1>3, <1>4, <1>5, <1>6, <1>7, NextSteps

LEMMA ApprovalsLimited ==
  ASSUME MaxToolIterations >= 2, LoopInv, [Next]_vars
  PROVE  \A id \in DOMAIN approvals' : StateInLimits(approvals'[id].loop, resumes')
<1>0. /\ TypeOK /\ ApprovalsInv /\ SuspendedRunResumable /\ RunningInv /\ PendingInv
      /\ FreshRunInv /\ RoundsInv
      /\ \A id \in DOMAIN approvals : StateInLimits(approvals[id].loop, resumes)
      /\ resumes \in Nat
  BY DEF LoopInv, RoundsInv, LoopRounds, TypeOK
<1>a. /\ \A id \in DOMAIN approvals : approvals[id] \in ApprovalRecord
      /\ \A id \in DOMAIN approvals : approvals[id].loop \in Continuation
      /\ loop \in Continuation /\ todo \in Seq(Calls)
  BY <1>0 DEF TypeOK, ApprovalRecord
<1>1. CASE UNCHANGED <<approvals, resumes>>
  BY <1>0, <1>1
<1>2. CASE SuspendForModel
  <2> DEFINE id == ModelApproval
             kept == [loop EXCEPT !.iteration = @ + 1, !.approval = NoApproval]
             new == [shows |-> {}, resumable |-> TRUE, loop |-> kept]
  <2>1. /\ approvals' = [k \in DOMAIN approvals \cup {id} |->
                           IF k = id THEN new ELSE approvals[k]]
        /\ UNCHANGED resumes /\ at # None
    BY <1>2 DEF SuspendForModel, At, None
  <2>2. StateInLimits(kept, resumes)
    BY <1>0, <2>1, LoopInLimits, CallSequences, Ids, KeptInLimits DEF NoApproval
  <2> HIDE DEF kept, id
  <2>3. StateInLimits(new.loop, resumes)
    BY <2>2
  <2> HIDE DEF new
  <2> QED
    BY <1>0, <2>1, <2>3
<1>3. CASE RequestPermission
  <2> DEFINE id == Head(todo).id
             new == [shows |-> {Head(todo)}, resumable |-> FALSE, loop |-> InitialLoop]
  <2>1. /\ approvals' = [k \in DOMAIN approvals \cup {id} |->
                           IF k = id THEN new ELSE approvals[k]]
        /\ UNCHANGED resumes
    BY <1>3 DEF RequestPermission
  <2>2. StateInLimits(InitialLoop, resumes)
    BY <1>0, Limits, InitialLoopFields DEF StateInLimits, InitialFields
  <2>3. StateInLimits(new.loop, resumes)
    BY <2>2
  <2> HIDE DEF new, id
  <2> QED
    BY <1>0, <2>1, <2>3
<1>4. CASE SuspendForCall
  <2> DEFINE id == Head(todo).id
             kept == [loop EXCEPT !.pending = todo, !.iteration = @ + 1,
                                  !.approval = NoApproval]
  <2>1. /\ approvals' = [approvals EXCEPT ![id].resumable = TRUE, ![id].loop = kept]
        /\ UNCHANGED resumes /\ at # None /\ at \in InRound
    BY <1>4 DEF SuspendForCall, At, None, InRound
  <2>2. StateInLimits(loop, resumes) /\ loop.rounds <= PendingLimit(resumes)
    BY <1>0, <2>1, LoopInLimits
  <2>3. StateInLimits(kept, resumes)
    BY <1>0, <1>a, <2>2, Ids, KeptInLimits DEF NoApproval
  <2> HIDE DEF kept, id
  <2>4. /\ DOMAIN approvals' = DOMAIN approvals
        /\ \A k \in DOMAIN approvals : k # id => approvals'[k] = approvals[k]
        /\ id \in DOMAIN approvals => approvals'[id].loop = kept
    BY <1>a, <2>1 DEF ApprovalRecord
  <2> QED
    BY <1>0, <2>1, <2>3, <2>4
<1>5. CASE \E state : EntersFrom(state)
  <2>1. resumes' = resumes + 1 /\ UNCHANGED approvals
    BY <1>5 DEF EntersFrom, EnterLoop
  <2>2. \A id \in DOMAIN approvals : StateInLimits(approvals[id].loop, resumes + 1)
    BY <1>0, <1>a, LimitsGrow
  <2> QED
    BY <2>1, <2>2
<1>6. CASE Leaving /\ ~SuspendForModel /\ ~SuspendForCall
  <2>1. UNCHANGED <<approvals, resumes>>
    BY <1>6 DEF Leaving, FinalAnswer, Complete, ExceedLimit, DenyCall, FailRun, Crash, stored
  <2> QED
    BY <1>1, <2>1
<1>7. CASE Going /\ ~RequestPermission
  <2>1. UNCHANGED <<approvals, resumes>>
    BY <1>7 DEF Going, RequestModelTurn, BeginRound, BeginCall, AllowCall, ExecuteTool,
       ObserveTool, EndRound, EndResumedRound, RecordResponse, stored
  <2> QED
    BY <1>1, <2>1
<1>8. CASE SubmitRun \/ Decides \/ UNCHANGED vars
  BY <1>1, <1>8 DEF SubmitRun, Decides, vars, stored
<1> QED
  BY <1>0, <1>2, <1>3, <1>4, <1>5, <1>6, <1>7, <1>8, NextSteps

LEMMA LoopRoundsKept ==
  ASSUME MaxToolIterations >= 2, LoopInv, [Next]_vars
  PROVE  LoopRounds'
<1>0. /\ TypeOK /\ ApprovalsInv /\ SuspendedRunResumable /\ RunningInv /\ PendingInv
      /\ FreshRunInv /\ RoundsInv /\ LoopRounds
  BY DEF LoopInv, RoundsInv, LoopRounds
<1>a. /\ MaxToolIterations \in Nat /\ resumes \in Nat
      /\ loop.rounds \in Nat /\ loop.iteration \in Nat
  BY <1>0, ToolLoopAssumption DEF TypeOK, Continuation
<1>m. ASSUME NEW n \in Nat
      PROVE  /\ PendingLimit(n) = MaxToolIterations + n - 2
             /\ Limit(n) = IF n = 0 THEN MaxToolIterations - 1
                           ELSE IF n <= 2 THEN MaxToolIterations ELSE MaxToolIterations + n - 2
  BY DEF PendingLimit, Limit
<1>l. /\ PendingLimit(resumes) = MaxToolIterations + resumes - 2
      /\ Limit(resumes) = IF resumes = 0 THEN MaxToolIterations - 1
                          ELSE IF resumes <= 2 THEN MaxToolIterations
                          ELSE MaxToolIterations + resumes - 2
      /\ resumes # 0 => PendingLimit(resumes - 1) = MaxToolIterations + resumes - 3
  BY <1>a, <1>m DEF PendingLimit
<1>i. "request" \notin InRound /\ "turn" \notin InRound /\ "route" \notin InRound
      /\ None \notin InRound /\ None \notin {"request", "turn", "route"} /\ "calls" \in InRound
  BY DEF InRound, None
<1>1. CASE Leaving
  <2>1. at' = None /\ loop' = InitialLoop /\ ~finalizing' /\ UNCHANGED resumes
    BY <1>0, <1>1, LeavingEffect
  <2>2. loop'.rounds <= Limit(resumes')
    BY <1>a, <1>l, <2>1, InitialLoopFields DEF InitialFields
  <2> QED
    BY <1>i, <2>1, <2>2 DEF LoopRounds
<1>2. CASE Going
  <2>0. at # None /\ UNCHANGED resumes
    BY <1>0, <1>2, GoingEffect
  <2>1. CASE RequestModelTurn
    <3>1. at = "request" /\ at' = "turn" /\ UNCHANGED <<loop, finalizing>>
      BY <2>1 DEF RequestModelTurn, At, GoTo
    <3> QED
      BY <1>0, <1>i, <2>0, <3>1 DEF LoopRounds
  <2>2. CASE BeginRound
    <3>1. /\ at = "route" /\ at' = "calls" /\ UNCHANGED <<loop, finalizing, resumed>>
          /\ loop.rounds < MaxToolIterations
      BY <2>2 DEF BeginRound, At
    <3>2. ~resumed
      BY <1>0, <1>i, <3>1 DEF TypeOK
    <3> QED
      BY <1>0, <1>i, <2>0, <3>1, <3>2 DEF LoopRounds
  <2>3. CASE BeginCall \/ AllowCall \/ RequestPermission \/ ExecuteTool \/ ObserveTool
    <3>1. at \in InRound /\ at' \in InRound /\ UNCHANGED <<resumed, finalizing>>
      BY <2>3 DEF BeginCall, AllowCall, RequestPermission, ExecuteTool, ObserveTool, GoTo,
         At, InRound
    <3>2. loop'.iteration = loop.iteration /\ loop'.rounds = loop.rounds
      BY <1>0, <2>3, LoopFields DEF AllowCall, RequestPermission, ExecuteTool
    <3>3. at' \notin {"request", "turn", "route"}
      BY <1>i, <3>1
    <3> QED
      BY <1>0, <2>0, <3>1, <3>2, <3>3 DEF LoopRounds
  <2>4. CASE EndRound
    <3>1. at \in InRound /\ at' = "request" /\ ~resumed
      BY <1>i, <2>4 DEF EndRound, At
    <3>2. loop'.iteration = loop.iteration + 1 /\ loop'.rounds = loop.rounds + 1
      BY <1>0, <2>4, LoopFields
    <3>3. loop.iteration + 1 >= MaxToolIterations - 1 => finalizing'
      BY <2>4, Zenon DEF EndRound
    <3>4. ~finalizing' => loop.iteration + 1 < MaxToolIterations - 1
      BY <1>a, <3>3
    <3>5. /\ loop.rounds <= PendingLimit(resumes) /\ loop.rounds < MaxToolIterations
          /\ resumes = 1 => loop.iteration >= loop.rounds - 1
          /\ resumes = 0 => loop.iteration = loop.rounds
      BY <1>0, <2>0, <3>1, LoopInLimits DEF LoopRounds
    <3>6. loop.rounds + 1 <= Limit(resumes)
      BY <1>a, <1>l, <3>5
    <3>7. loop.iteration + 1 < MaxToolIterations - 1 => loop.rounds + 1 <= PendingLimit(resumes)
      BY <1>a, <1>l, <3>5
    <3>8. resumes = 1 => loop.iteration + 1 >= (loop.rounds + 1) - 1
      BY <1>a, <3>5
    <3> QED
      BY <1>i, <2>0, <3>1, <3>2, <3>4, <3>6, <3>7, <3>8 DEF LoopRounds
  <2>5. CASE EndResumedRound
    <3>1. at \in InRound /\ at' = "request" /\ resumed /\ UNCHANGED finalizing
      BY <1>i, <2>5 DEF EndResumedRound, At
    <3>2. loop'.iteration = loop.iteration /\ loop'.rounds = loop.rounds + 1
      BY <1>0, <2>5, LoopFields
    <3>3. /\ resumes # 0 /\ loop.rounds <= PendingLimit(resumes - 1)
          /\ resumes = 1 => loop.iteration >= loop.rounds
      BY <1>0, <2>0, <3>1 DEF LoopRounds, FreshRunInv
    <3>4. loop.rounds + 1 <= PendingLimit(resumes) /\ loop.rounds + 1 <= Limit(resumes)
      BY <1>a, <1>l, <3>3
    <3>5. resumes = 1 => loop.iteration >= (loop.rounds + 1) - 1
      BY <1>a, <3>3
    <3> QED
      BY <1>i, <2>0, <3>1, <3>2, <3>4, <3>5 DEF LoopRounds
  <2>6. ASSUME NEW response \in Answers, RecordResponse(response)
        PROVE  LoopRounds'
    <3>1. at = "turn" /\ at' = "route" /\ ~finalizing /\ UNCHANGED finalizing
      BY <2>6 DEF RecordResponse, At, GoTo
    <3>2. loop'.iteration = loop.iteration /\ loop'.rounds = loop.rounds
      BY <1>0, <2>6, LoopFields
    <3> QED
      BY <1>0, <1>i, <2>0, <3>1, <3>2 DEF LoopRounds
  <2> QED
    BY <1>2, <2>1, <2>2, <2>3, <2>4, <2>5, <2>6 DEF Going
<1>3. CASE SubmitRun
  <2>1. at = None
    BY <1>0, <1>3 DEF SubmitRun, RunningInv, None
  <2>2. loop = InitialLoop /\ ~finalizing
    BY <1>0, <2>1 DEF RunningInv
  <2>3. UNCHANGED <<loop, finalizing, resumes>> /\ at' = "request"
    BY <1>3 DEF SubmitRun, GoTo
  <2>4. loop.rounds = 0 /\ loop.iteration = 0
    BY <2>2, InitialLoopFields DEF InitialFields
  <2>5. 0 <= PendingLimit(resumes) /\ 0 <= Limit(resumes)
    BY <1>a, <1>l
  <2>6. 0 >= 0 - 1
    OBVIOUS
  <2> QED
    BY <1>i, <2>2, <2>3, <2>4, <2>5, <2>6 DEF LoopRounds
<1>4. CASE Decides
  <2>1. at = None /\ UNCHANGED <<loop, at, finalizing, resumes>>
    BY <1>4 DEF Decides, control
  <2> QED
    BY <1>0, <1>i, <2>1 DEF LoopRounds
<1>5. ASSUME NEW state, EntersFrom(state)
      PROVE  LoopRounds'
  <2>1. /\ state \in Continuation /\ EnterLoop(state) /\ at = None /\ UNCHANGED finalizing
        /\ resumes' = resumes + 1 /\ resumed' = (state.pending # <<>>)
        /\ at' = IF state.pending # <<>> THEN "calls" ELSE "request"
    BY <1>5 DEF EntersFrom, EnterLoop
  <2>2. /\ loop'.iteration = IF state.iteration = 0 THEN 1 ELSE state.iteration
        /\ loop'.rounds = state.rounds
    BY <1>0, <2>1, LoopFields
  <2>3. StateInLimits(state, resumes)
    <3>1. CASE \E cp \in checkpoints : state = cp.loop
      BY <1>0, <3>1 DEF RoundsInv, LoopRounds
    <3>2. ASSUME NEW id \in DOMAIN approvals, state = [approvals[id].loop EXCEPT !.approval = id]
          PROVE  StateInLimits(state, resumes)
      <4> DEFINE P == Seq(Calls)
      <4> HIDE DEF P
      <4>1. approvals[id].loop \in [iteration : Nat, rounds : Nat, pending : P,
                                   unanswered : SUBSET Calls, approval : Id]
        BY <1>0 DEF Continuation, P, TypeOK
      <4>2. /\ state.iteration = approvals[id].loop.iteration
            /\ state.rounds = approvals[id].loop.rounds
            /\ state.pending = approvals[id].loop.pending
        BY <3>2, <4>1
      <4> QED
        BY <1>0, <4>2 DEF RoundsInv, LoopRounds, StateInLimits
    <3> QED
      BY <1>5, <3>1, <3>2 DEF EntersFrom
  <2>4. state.rounds \in Nat /\ state.iteration \in Nat
    BY <2>1, NumbersOf
  <2>5. /\ state.rounds <= Limit(resumes)
        /\ state.pending # <<>> => state.rounds <= PendingLimit(resumes)
        /\ resumes = 0 => state.iteration >= state.rounds
    BY <2>3 DEF StateInLimits
  <2>6. /\ PendingLimit(resumes + 1) = MaxToolIterations + resumes - 1
        /\ Limit(resumes) <= PendingLimit(resumes + 1)
        /\ Limit(resumes) <= Limit(resumes + 1)
        /\ Limit(resumes) \in Int /\ PendingLimit(resumes) \in Int
        /\ Limit(resumes + 1) \in Int
    BY <1>a, <1>m, Limits
  <2>7. /\ state.rounds <= Limit(resumes + 1) /\ state.rounds <= PendingLimit(resumes + 1)
        /\ resumes + 1 = 1 => loop'.iteration >= state.rounds
        /\ resumes + 1 = 1 => loop'.iteration >= state.rounds - 1
        /\ (resumes + 1) - 1 = resumes
    BY <1>a, <2>2, <2>4, <2>5, <2>6
  <2>8. ~finalizing'
    BY <1>0, <2>1 DEF RunningInv
  <2>9. CASE state.pending # <<>>
    <3>1. at' = "calls" /\ resumed'
      BY <2>1, <2>9
    <3> QED
      BY <1>i, <2>1, <2>2, <2>5, <2>7, <2>8, <2>9, <3>1 DEF LoopRounds
  <2>10. CASE state.pending = <<>>
    <3>1. at' = "request"
      BY <2>1, <2>10
    <3> QED
      BY <1>i, <2>1, <2>2, <2>7, <2>8, <3>1 DEF LoopRounds
  <2> QED
    BY <2>9, <2>10
<1>6. CASE UNCHANGED vars
  BY <1>0, <1>6 DEF vars, control, LoopRounds
<1> QED
  BY <1>0, <1>1, <1>2, <1>3, <1>4, <1>5, <1>6, NextSteps

LEMMA RoundsHold ==
  ASSUME MaxToolIterations >= 2
  PROVE  Spec => [](IInv /\ RoundsInv)
<1>1. Init => RoundsInv
  <2> SUFFICES ASSUME Init PROVE RoundsInv
    OBVIOUS
  <2>1. /\ at = None /\ loop.rounds = 0 /\ resumes = 0 /\ checkpoints = {}
        /\ DOMAIN approvals = {}
    BY InitialLoopFields DEF Init, InitialFields
  <2>2. 0 <= Limit(resumes)
    BY <2>1, ToolLoopAssumption DEF Limit
  <2> QED
    BY <2>1, <2>2 DEF RoundsInv, LoopRounds, InRound, None
<1>2. IInv /\ RoundsInv /\ [Next]_vars => RoundsInv'
  <2> SUFFICES ASSUME IInv, RoundsInv, [Next]_vars PROVE RoundsInv'
    OBVIOUS
  <2>1. LoopInv
    BY DEF LoopInv, IInv
  <2> QED
    BY <2>1, LoopRoundsKept, CheckpointsLimited, ApprovalsLimited DEF RoundsInv, LoopRounds
<1> QED
  BY <1>1, <1>2, InvariantInitially, InvariantKept, PTL DEF Spec

(* The rounds of a run exceed the budget by at most one for each resume    *)
(* after the second.  With a budget of one a resume sooner is enough.      *)
THEOREM RoundsStayBounded ==
  ASSUME MaxToolIterations >= 2
  PROVE  Spec => []RoundsBounded
<1>1. IInv /\ RoundsInv => RoundsBounded
  <2> SUFFICES ASSUME IInv, RoundsInv PROVE RoundsBounded
    OBVIOUS
  <2>1. resumes \in Nat /\ loop.rounds \in Nat
    BY DEF IInv, TypeOK, Continuation
  <2>2. loop.rounds <= Limit(resumes)
    BY DEF RoundsInv, LoopRounds
  <2> QED
    BY <2>1, <2>2, ToolLoopAssumption DEF RoundsBounded, Limit, PendingLimit
<1> QED
  BY <1>1, RoundsHold, PTL

(***************************************************************************)
(* Recorded calls                                                          *)
(***************************************************************************)
LEMMA EmptyToMake == ToMake(<<>>) /\ Reads(<<>>)
BY ToSetEmpty DEF ToMake, Distinct, Reads

LEMMA OneToMake ==
  ASSUME NEW c, c \notin history.recorded, c.kind = "read"
  PROVE  ToMake(<<c>>) /\ Reads(<<c>>)
BY ToSetSingle DEF ToMake, Distinct, Reads

LEMMA RestToMake ==
  ASSUME NEW s \in Seq(Calls), s # <<>>, Distinct(s), Reads(s)
  PROVE  /\ Distinct(Tail(s)) /\ Reads(Tail(s)) /\ Head(s).kind = "read"
         /\ Head(s) \notin ToSet(Tail(s)) /\ ToSet(Tail(s)) \subseteq ToSet(s)
         /\ Head(s) \in ToSet(s)
<1>1. /\ Len(s) \in Nat \ {0} /\ DOMAIN s = 1 .. Len(s) /\ Head(s) = s[1]
      /\ DOMAIN Tail(s) = 1 .. (Len(s) - 1)
      /\ \A i \in 1 .. (Len(s) - 1) : Tail(s)[i] = s[i + 1]
  BY HeadTailProperties, EmptySeq, LenProperties
<1>2. Distinct(Tail(s))
  <2> SUFFICES ASSUME NEW i \in DOMAIN Tail(s), NEW j \in DOMAIN Tail(s), Tail(s)[i] = Tail(s)[j]
               PROVE  i = j
    BY DEF Distinct
  <2>1. i + 1 \in DOMAIN s /\ j + 1 \in DOMAIN s /\ s[i + 1] = s[j + 1]
    BY <1>1
  <2>2. i + 1 = j + 1
    BY <2>1 DEF Distinct
  <2> QED
    BY <1>1, <2>2
<1>3. Reads(Tail(s)) /\ Head(s).kind = "read"
  BY <1>1 DEF Reads
<1>4. ASSUME NEW i \in DOMAIN Tail(s)
      PROVE  Tail(s)[i] # Head(s)
  <2>1. i + 1 \in DOMAIN s /\ 1 \in DOMAIN s /\ i + 1 # 1
    BY <1>1
  <2>2. s[i + 1] # s[1]
    BY <2>1 DEF Distinct
  <2> QED
    BY <1>1, <2>2
<1>5. Head(s) \notin ToSet(Tail(s))
  BY <1>4 DEF ToSet
<1> QED
  BY <1>2, <1>3, <1>5, HeadAndTail

(* A checkpoint of calls that may be made. *)
LEMMA CheckpointToMake ==
  ASSUME StoreToMake, NEW node, NEW state, Checkpoint(node, state),
         ToMake(state.pending), Reads(state.pending), history'.recorded = history.recorded
  PROVE  StoreToMake'
<1>1. checkpoints' \subseteq checkpoints \cup {[node |-> node, loop |-> state]}
  BY CheckpointAdds
<1>2. \A cp \in checkpoints' : ToMake(cp.loop.pending) /\ Reads(cp.loop.pending)
  BY <1>1 DEF StoreToMake
<1> QED
  BY <1>2 DEF StoreToMake, ToMake

(* Nothing is suspended, and nothing is resumed but checkpoints. *)
LEMMA NoApprovals ==
  ASSUME TypeOK, RunningInv, MemoryToMake
  PROVE  /\ ~SuspendForModel /\ ~SuspendForCall /\ ~RequestPermission
         /\ HostStep => SubmitRun \/ \E cp \in checkpoints : ResumeCheckpoint(cp)
<1>1. ~SuspendForModel
  BY DEF MemoryToMake, SuspendForModel
<1>2. ~SuspendForCall
  BY DEF MemoryToMake, SuspendForCall, RunningInv
<1>3. ~RequestPermission
  <2>1. At("permission") => todo \in Seq(Calls) /\ todo # <<>>
    BY DEF TypeOK, InRound, At
  <2> QED
    BY <2>1, RestToMake DEF MemoryToMake, ToMake, RequestPermission
<1>4. HostStep => SubmitRun \/ \E cp \in checkpoints : ResumeCheckpoint(cp)
  BY DEF MemoryToMake, HostStep, ResumeApprovalCheckpoint, ResumeApproval
<1> QED
  BY <1>1, <1>2, <1>3, <1>4

(* The calls of a response are new, and read. *)
LEMMA ResponseToMake ==
  ASSUME ResumesLatest, IInv, NEW response \in Answers
  PROVE  /\ ToMake(NamedCalls(response)) /\ Reads(NamedCalls(response))
         /\ ~response.approval
<1> DEFINE calls == NamedCalls(response)
<1>0. /\ TypeOK /\ NamesInv /\ turn \in Nat
      /\ response.calls \in Seq({"read", "write"})
  BY ToolLoopAssumption DEF IInv, TypeOK
<1>1. /\ DOMAIN calls = 1 .. Len(response.calls) /\ DOMAIN response.calls = 1 .. Len(response.calls)
      /\ \A i \in DOMAIN calls :
           /\ calls[i].turn = turn /\ calls[i].index = i
           /\ calls[i].kind = response.calls[i]
  BY <1>0 DEF NamedCalls, Call
<1>2. Distinct(calls)
  BY <1>1 DEF Distinct
<1>3. Reads(calls) /\ ~response.approval
  BY <1>1 DEF Reads, ResumesLatest
<1>4. \A c \in history.recorded : c.turn < turn /\ c.turn \in Nat
  <2> SUFFICES ASSUME NEW c \in history.recorded PROVE c.turn < turn /\ c.turn \in Nat
    OBVIOUS
  <2>1. Known(c)
    BY DEF Known
  <2>2. c \in Calls
    BY <1>0, <2>1, KnownType
  <2> QED
    BY <1>0, <2>1, <2>2 DEF NamesInv, Calls
<1>5. \A c \in ToSet(calls) : c.turn = turn
  BY <1>0, NewCalls
<1>6. ToSet(calls) \cap history.recorded = {}
  BY <1>0, <1>4, <1>5
<1> QED
  BY <1>2, <1>3, <1>6 DEF ToMake

LEMMA RecordedKept ==
  ASSUME ResumesLatest, IInv, StoreToMake, MemoryToMake, [Next]_vars
  PROVE  StoreToMake' /\ MemoryToMake'
<1>0. /\ TypeOK /\ ApprovalsInv /\ SuspendedRunResumable /\ RunningInv /\ PendingInv
      /\ history \in History /\ todo \in Seq(Calls) /\ loop \in Continuation
  BY DEF IInv, TypeOK, History
<1>e. ToMake(<<>>) /\ Reads(<<>>)
  BY EmptyToMake
<1>s. ASSUME UNCHANGED <<checkpoints, history>>
      PROVE  StoreToMake'
  BY <1>s DEF StoreToMake, ToMake
<1>m. ASSUME UNCHANGED <<approvals, history>>, ToMake(todo'), Reads(todo'), at' # "route"
      PROVE  MemoryToMake'
  BY <1>m DEF MemoryToMake, ToMake, At, RecordedNotRepeated
<1>1. CASE Leaving
  <2>0. at' = None /\ todo' = <<>> /\ loop.pending \in {loop.pending, <<>>}
    BY <1>0, <1>1, LeavingEffect
  <2>1. CASE FinalAnswer \/ Complete
    <3>1. at \in {"turn", "route"} /\ UNCHANGED <<approvals, history>>
      BY <2>1 DEF FinalAnswer, Complete, At
    <3>2. loop.pending = <<>>
      BY <1>0, <3>1 DEF PendingInv
    <3>3. Checkpoint("terminal", loop)
      BY <2>1 DEF FinalAnswer, Complete
    <3>4. StoreToMake'
      BY <1>e, <3>1, <3>2, <3>3, CheckpointToMake
    <3> QED
      BY <1>e, <1>m, <2>0, <3>1, <3>4 DEF None
  <2>2. CASE ExceedLimit
    <3>1. UNCHANGED <<checkpoints, approvals>>
      BY <2>2 DEF ExceedLimit, stored
    <3>2. history'.recorded = history.recorded /\ history'.repeated = history.repeated
      BY <1>0, <2>2 DEF ExceedLimit, History
    <3>3. StoreToMake'
      BY <3>1, <3>2 DEF StoreToMake, ToMake
    <3> QED
      BY <1>e, <2>0, <3>1, <3>2, <3>3 DEF MemoryToMake, ToMake, At, RecordedNotRepeated, None
  <2>3. CASE DenyCall \/ FailRun \/ Crash
    <3>1. UNCHANGED <<checkpoints, approvals, history>>
      BY <2>3 DEF DenyCall, FailRun, Crash, stored
    <3> QED
      BY <1>e, <1>m, <1>s, <2>0, <3>1 DEF None
  <2> QED
    BY <1>0, <1>1, <2>1, <2>2, <2>3, NoApprovals DEF Leaving
<1>2. CASE Going
  <2>1. CASE RequestModelTurn
    <3>1. /\ at = "request" /\ at' = "turn" /\ UNCHANGED <<approvals, history, todo>>
          /\ Checkpoint("model_request", loop)
      BY <2>1 DEF RequestModelTurn, At, GoTo
    <3>2. loop.pending = <<>>
      BY <1>0, <3>1 DEF PendingInv
    <3>3. StoreToMake'
      BY <1>e, <3>1, <3>2, CheckpointToMake
    <3> QED
      BY <1>m, <3>1, <3>3 DEF MemoryToMake
  <2>2. CASE BeginRound
    <3>1. /\ at = "route" /\ at' = "calls" /\ todo' = answer.calls
          /\ UNCHANGED <<checkpoints, approvals, history>>
      BY <2>2 DEF BeginRound, At, stored
    <3> QED
      BY <1>m, <1>s, <3>1 DEF MemoryToMake, At
  <2>3. CASE BeginCall
    <3> DEFINE one == <<Head(todo)>>
               now == [loop EXCEPT !.pending = one]
    <3>1. /\ todo # <<>> /\ at' = "permission" /\ UNCHANGED <<approvals, history, todo>>
          /\ Checkpoint("tool_call", now)
      BY <2>3 DEF BeginCall, GoTo
    <3>2. ToMake(one) /\ Reads(one)
      BY <1>0, <3>1, RestToMake, OneToMake DEF MemoryToMake, ToMake
    <3> HIDE DEF one
    <3>3. now.pending = one
      <4> DEFINE P == Seq(Calls)
      <4> HIDE DEF P
      <4>1. loop \in [iteration : Nat, rounds : Nat, pending : P,
                      unanswered : SUBSET Calls, approval : Id]
        BY <1>0 DEF Continuation, P
      <4> QED
        BY <4>1
    <3> HIDE DEF now
    <3>4. StoreToMake'
      BY <3>1, <3>2, <3>3, CheckpointToMake
    <3> QED
      BY <1>m, <3>1, <3>4 DEF MemoryToMake
  <2>4. CASE AllowCall
    <3>1. at' = "execute" /\ UNCHANGED <<checkpoints, approvals, history, todo>>
      BY <2>4 DEF AllowCall, GoTo, stored
    <3> QED
      BY <1>m, <1>s, <3>1 DEF MemoryToMake
  <2>5. CASE ExecuteTool
    <3>1. /\ at = "execute" /\ at' = "observe" /\ UNCHANGED <<checkpoints, approvals, todo>>
      BY <2>5 DEF ExecuteTool, GoTo, stored, At
    <3>2. Head(todo) \notin history.recorded
      <4>1. todo # <<>>
        BY <1>0, <3>1 DEF TypeOK, InRound
      <4> QED
        BY <1>0, <4>1, RestToMake DEF MemoryToMake, ToMake
    <3>3. history'.recorded = history.recorded /\ history'.repeated = history.repeated
      BY <1>0, <2>5, <3>2 DEF ExecuteTool, History
    <3>4. StoreToMake'
      BY <3>1, <3>3 DEF StoreToMake, ToMake
    <3> QED
      BY <3>1, <3>3, <3>4 DEF MemoryToMake, ToMake, At, RecordedNotRepeated
  <2>6. CASE ObserveTool
    <3> DEFINE none == <<>>
               after == [loop EXCEPT !.unanswered = @ \ {Head(todo)}, !.pending = none]
    <3>1. /\ at = "observe" /\ at' = "calls" /\ todo' = Tail(todo) /\ UNCHANGED approvals
          /\ Checkpoint("tool_observation", after)
      BY <2>6 DEF ObserveTool, At
    <3>2. /\ history'.recorded = history.recorded \cup {Head(todo)}
          /\ history'.repeated = history.repeated
      BY <1>0, <2>6 DEF ObserveTool, History
    <3>3. checkpoints' = {[node |-> "tool_observation", loop |-> after]}
      BY <3>1 DEF Checkpoint, ResumesLatest
    <3>4. ToSet(none) = {} /\ Distinct(none) /\ Reads(none)
      BY <1>e, ToSetEmpty DEF ToMake
    <3> HIDE DEF none
    <3>5. after.pending = none
      <4> DEFINE P == Seq(Calls)
      <4> HIDE DEF P
      <4>1. loop \in [iteration : Nat, rounds : Nat, pending : P,
                      unanswered : SUBSET Calls, approval : Id]
        BY <1>0 DEF Continuation, P
      <4> QED
        BY <4>1
    <3> HIDE DEF after
    <3>6. StoreToMake'
      BY <3>3, <3>4, <3>5 DEF StoreToMake, ToMake
    <3>7. todo # <<>>
      BY <1>0, <3>1 DEF TypeOK, InRound
    <3>8. /\ Distinct(Tail(todo)) /\ Reads(Tail(todo))
          /\ ToSet(Tail(todo)) \cap (history.recorded \cup {Head(todo)}) = {}
      BY <1>0, <3>7, RestToMake DEF MemoryToMake, ToMake
    <3> QED
      BY <3>1, <3>2, <3>6, <3>8 DEF MemoryToMake, ToMake, At, RecordedNotRepeated
  <2>7. CASE EndRound \/ EndResumedRound
    <3>1. at' = "request" /\ UNCHANGED <<checkpoints, approvals, history, todo>>
      BY <2>7 DEF EndRound, EndResumedRound, stored
    <3> QED
      BY <1>m, <1>s, <3>1 DEF MemoryToMake
  <2>8. ASSUME NEW response \in Answers, RecordResponse(response)
        PROVE  StoreToMake' /\ MemoryToMake'
    <3> DEFINE calls == NamedCalls(response)
               after == [loop EXCEPT !.unanswered = @ \cup ToSet(calls)]
               new == [after EXCEPT !.pending = calls, !.iteration = @ + 1]
               state == IF calls = <<>> THEN after ELSE new
    <3>1. /\ at = "turn" /\ at' = "route" /\ UNCHANGED <<approvals, history, todo>>
          /\ answer' = [calls |-> calls, approval |-> response.approval]
          /\ Checkpoint("model_response", state)
      BY <2>8 DEF RecordResponse, At, GoTo, NamedCalls
    <3>2. ToMake(calls) /\ Reads(calls) /\ ~response.approval
      BY ResponseToMake
    <3>3. calls \in Seq(Calls)
      BY <1>0, NamedCallsType
    <3> HIDE DEF calls
    <3>4. state.pending \in {loop.pending, calls}
      <4> DEFINE P == Seq(Calls)
                 U == ToSet(calls)
      <4>0. calls \in P /\ U \subseteq Calls
        BY <3>3, ToSetType
      <4> HIDE DEF P, U
      <4>1. loop \in [iteration : Nat, rounds : Nat, pending : P,
                      unanswered : SUBSET Calls, approval : Id]
        BY <1>0 DEF Continuation, P
      <4>2. /\ [loop EXCEPT !.unanswered = @ \cup U] \in
                 [iteration : Nat, rounds : Nat, pending : P,
                  unanswered : SUBSET Calls, approval : Id]
            /\ [loop EXCEPT !.unanswered = @ \cup U].pending = loop.pending
        BY <4>0, <4>1
      <4>3. after = [loop EXCEPT !.unanswered = @ \cup U]
        BY DEF U
      <4> HIDE DEF after
      <4>4. new.pending = calls /\ after.pending = loop.pending
        BY <4>2, <4>3
      <4> HIDE DEF new
      <4> QED
        BY <4>4
    <3> HIDE DEF state
    <3>5. loop.pending = <<>>
      BY <1>0, <3>1 DEF PendingInv
    <3>6. StoreToMake'
      <4>1. ToMake(state.pending) /\ Reads(state.pending)
        BY <1>e, <3>2, <3>4, <3>5
      <4> QED
        BY <3>1, <4>1, CheckpointToMake
    <3>7. answer'.calls = calls /\ ~answer'.approval
      BY <3>1, <3>2
    <3> QED
      BY <3>1, <3>2, <3>6, <3>7 DEF MemoryToMake, ToMake, At, RecordedNotRepeated
  <2> QED
    BY <1>0, <1>2, <2>1, <2>2, <2>3, <2>4, <2>5, <2>6, <2>7, <2>8, NoApprovals DEF Going
<1>3. CASE SubmitRun
  <2>1. /\ Checkpoint("context_packet", InitialLoop) /\ at' = "request"
        /\ UNCHANGED <<approvals, history, todo>>
    BY <1>3 DEF SubmitRun, GoTo
  <2>2. StoreToMake'
    BY <1>e, <2>1, CheckpointToMake, InitialLoopFields DEF InitialFields
  <2> QED
    BY <1>m, <2>1, <2>2 DEF MemoryToMake
<1>4. ASSUME NEW cp \in checkpoints, ResumeCheckpoint(cp)
      PROVE  StoreToMake' /\ MemoryToMake'
  <2>1. /\ UNCHANGED <<checkpoints, approvals>> /\ todo' = cp.loop.pending /\ at' # "route"
    BY <1>4 DEF ResumeCheckpoint, EnterLoop, stored
  <2>2. history'.recorded = history.recorded /\ history'.repeated = history.repeated
    BY <1>0, <1>4 DEF ResumeCheckpoint, History
  <2>3. StoreToMake'
    BY <2>1, <2>2 DEF StoreToMake, ToMake
  <2> QED
    BY <2>1, <2>2, <2>3 DEF StoreToMake, MemoryToMake, ToMake, At, RecordedNotRepeated
<1>5. CASE UNCHANGED vars
  BY <1>5 DEF vars, control, stored, StoreToMake, MemoryToMake, ToMake, At, RecordedNotRepeated
<1> QED
  BY <1>0, <1>1, <1>2, <1>3, <1>4, <1>5, NoApprovals DEF Next, LoopStep, Leaving, Going

(* A host that resumes from the latest checkpoint, where observations are  *)
(* among them, has no recorded call executed again: whatever fails or      *)
(* crashes, and as long as no approvals are in the run.                    *)
THEOREM RecordedOnce ==
  ASSUME ResumesLatest
  PROVE  Spec => []RecordedNotRepeated
<1>1. Init => StoreToMake /\ MemoryToMake
  <2> SUFFICES ASSUME Init PROVE StoreToMake /\ MemoryToMake
    OBVIOUS
  <2>1. /\ checkpoints = {} /\ DOMAIN approvals = {} /\ todo = <<>> /\ at = None
        /\ history.repeated = {}
    BY DEF Init, NoHistory
  <2> QED
    BY <2>1, EmptyToMake DEF StoreToMake, MemoryToMake, RecordedNotRepeated, At, None
<1>2. IInv /\ StoreToMake /\ MemoryToMake /\ [Next]_vars => StoreToMake' /\ MemoryToMake'
  BY RecordedKept
<1>3. MemoryToMake => RecordedNotRepeated
  BY DEF MemoryToMake
<1> QED
  BY <1>1, <1>2, <1>3, InvariantInitially, InvariantKept, PTL DEF Spec
(***************************************************************************)
(* The end of an activation                                                *)
(***************************************************************************)
Less == OpToRel(<, Nat)
Work == Nat \X (Nat \X Nat)

(* There is no endless descent: the numbers are well-founded, and so are   *)
(* pairs of well-founded things.                                           *)
THEOREM WorkRunsOut == ~ \E f \in [Nat -> Work] : \A n \in Nat : Below(f[n + 1], f[n])
<1> DEFINE Inner == LexPairOrdering(Less, Less, Nat, Nat)
           Outer == LexPairOrdering(Less, Inner, Nat, Nat \X Nat)
<1>1. IsWellFoundedOn(Outer, Work)
  <2>1. IsWellFoundedOn(Less, Nat)
    BY NatLessThanWellFounded DEF Less
  <2>2. IsWellFoundedOn(Inner, Nat \X Nat)
    BY <2>1, WFLexPairOrdering
  <2> QED
    BY <2>1, <2>2, WFLexPairOrdering DEF Work
<1>2. ASSUME NEW w \in Work, NEW v \in Work, Below(w, v)
      PROVE  <<w, v>> \in Outer
  <2>1. \A m, n \in Nat : m < n => <<m, n>> \in Less
    BY DEF Less, OpToRel
  <2>2. w[1] \in Nat /\ v[1] \in Nat /\ w[2] \in Nat \X Nat /\ v[2] \in Nat \X Nat
    BY DEF Work
  <2>3. (w[2][1] < v[2][1] \/ (w[2][1] = v[2][1] /\ w[2][2] < v[2][2]))
           => <<w[2], v[2]>> \in Inner
    BY <2>1, <2>2 DEF LexPairOrdering
  <2> HIDE DEF Inner
  <2> QED
    BY <1>2, <2>1, <2>2, <2>3 DEF LexPairOrdering, Work, Below
<1> QED
  BY <1>1, <1>2 DEF IsWellFoundedOn

(* What is left is counted in numbers. *)
LEMMA WorkLeftType ==
  ASSUME TypeOK
  PROVE  /\ RoundsLeft \in Nat /\ CallsLeft \in Nat /\ StepsLeft \in Nat
         /\ WorkLeft \in Work
<1>1. loop.rounds \in Nat
  BY DEF TypeOK, Continuation
<1>2. RoundsLeft \in Nat
  BY <1>1, ToolLoopAssumption DEF RoundsLeft
<1>3. CallsLeft \in Nat
  BY LenProperties DEF TypeOK, CallsLeft
<1>4. StepsLeft \in Nat
  BY DEF StepsLeft
<1> QED
  BY <1>2, <1>3, <1>4 DEF WorkLeft, Work

(* A step of the loop that goes on has less to do. *)
LEMMA GoingDescends ==
  ASSUME TypeOK, TypeOK', Going
  PROVE  Below(WorkLeft', WorkLeft)
<1> USE DEF InRound
<1>0. /\ loop.rounds \in Nat /\ todo \in Seq(Calls) /\ MaxToolIterations \in Nat \ {0}
  BY ToolLoopAssumption DEF TypeOK, Continuation
<1>1. CASE RequestModelTurn \/ AllowCall \/ RequestPermission \/ ExecuteTool
  <2>1. UNCHANGED <<loop, todo>>
    BY <1>1 DEF RequestModelTurn, AllowCall, RequestPermission, ExecuteTool, GoTo
  <2>2. /\ at \in InRound <=> at' \in InRound
        /\ StepsLeft' < StepsLeft
    BY <1>1 DEF RequestModelTurn, AllowCall, RequestPermission, ExecuteTool, GoTo, At, StepsLeft
  <2>3. RoundsLeft' = RoundsLeft /\ CallsLeft' = CallsLeft
    BY <2>1, <2>2 DEF RoundsLeft, CallsLeft
  <2> QED
    BY <2>2, <2>3 DEF Below, WorkLeft
<1>2. ASSUME NEW response \in Answers, RecordResponse(response)
      PROVE  Below(WorkLeft', WorkLeft)
  <2>1. loop'.rounds = loop.rounds
    BY <1>2, LoopFields
  <2>2. at = "turn" /\ at' = "route"
    BY <1>2 DEF RecordResponse, GoTo, At
  <2>3. RoundsLeft' = RoundsLeft /\ CallsLeft' = CallsLeft
    BY <2>1, <2>2 DEF RoundsLeft, CallsLeft
  <2>4. StepsLeft' < StepsLeft
    BY <2>2 DEF StepsLeft
  <2> QED
    BY <2>3, <2>4 DEF Below, WorkLeft
<1>3. CASE BeginRound
  <2>1. /\ at = "route" /\ at' = "calls" /\ UNCHANGED loop
        /\ loop.rounds < MaxToolIterations
    BY <1>3 DEF BeginRound, At
  <2>2. RoundsLeft' < RoundsLeft
    BY <1>0, <2>1 DEF RoundsLeft
  <2> QED
    BY <2>2 DEF Below, WorkLeft
<1>4. CASE BeginCall
  <2>1. loop'.rounds = loop.rounds
    BY <1>4, LoopFields
  <2>2. at = "calls" /\ at' = "permission" /\ todo' = todo
    BY <1>4 DEF BeginCall, GoTo, At
  <2>3. RoundsLeft' = RoundsLeft /\ CallsLeft' = CallsLeft
    BY <2>1, <2>2 DEF RoundsLeft, CallsLeft
  <2>4. StepsLeft' < StepsLeft
    BY <2>2 DEF StepsLeft
  <2> QED
    BY <2>3, <2>4 DEF Below, WorkLeft
<1>5. CASE ObserveTool
  <2>1. loop'.rounds = loop.rounds
    BY <1>5, LoopFields
  <2>2. at = "observe" /\ at' = "calls" /\ todo' = Tail(todo)
    BY <1>5 DEF ObserveTool, At
  <2>3. todo # <<>>
    BY <2>2 DEF TypeOK
  <2>4. Len(todo') < Len(todo)
    BY <1>0, <2>2, <2>3, HeadTailProperties, EmptySeq, LenProperties
  <2>5. RoundsLeft' = RoundsLeft
    BY <2>1, <2>2 DEF RoundsLeft
  <2>6. CallsLeft' < CallsLeft
    <3>1. Len(todo) \in Nat /\ Len(todo') \in Nat
      BY LenProperties DEF TypeOK
    <3> QED
      BY <2>2, <2>4, <3>1 DEF CallsLeft
  <2> QED
    BY <2>5, <2>6 DEF Below, WorkLeft
<1>6. CASE EndRound \/ EndResumedRound
  <2>1. loop'.rounds = loop.rounds + 1
    BY <1>6, LoopFields
  <2>2. at = "calls" /\ at' = "request"
    BY <1>6 DEF EndRound, EndResumedRound, At
  <2>3. RoundsLeft' = RoundsLeft
    BY <1>0, <2>1, <2>2 DEF RoundsLeft
  <2>4. CallsLeft' < CallsLeft
    BY <1>0, <2>2, LenProperties DEF CallsLeft
  <2> QED
    BY <2>3, <2>4 DEF Below, WorkLeft
<1> QED
  BY <1>1, <1>2, <1>3, <1>4, <1>5, <1>6 DEF Going

(* Every step of an activation that does not end it has less left to do,   *)
(* whatever the model answers, the budget, and what the host resolves.     *)
THEOREM ActivationsDescend == Spec => LoopDescends
<1>1. ASSUME IInv, IInv', [Next]_vars, at # None, at' # None
      PROVE  Below(WorkLeft', WorkLeft) \/ UNCHANGED vars
  <2>1. TypeOK /\ TypeOK' /\ ApprovalsInv /\ SuspendedRunResumable /\ RunningInv
    BY <1>1 DEF IInv
  <2>2. ~Leaving
    BY <1>1, <2>1, LeavingEffect
  <2>3. ~SubmitRun
    BY <1>1, <2>1 DEF RunningInv, SubmitRun, None
  <2>4. ~Decides /\ ~\E state : EntersFrom(state)
    BY <1>1 DEF Decides, EntersFrom
  <2> QED
    BY <1>1, <2>1, <2>2, <2>3, <2>4, NextSteps, GoingDescends
<1>2. IInv /\ IInv' /\ [Next]_vars
        => [at # None /\ at' # None => Below(WorkLeft', WorkLeft)]_vars
  BY <1>1
<1> QED
  BY <1>2, InvariantHolds, PTL DEF Spec, LoopDescends

================================================================================
