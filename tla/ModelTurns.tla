------------------------------ MODULE ModelTurns -------------------------------
(***************************************************************************)
(* What the model is shown in each turn of one run, and where its calls    *)
(* go: the window on the messages, the convergence control that steers a   *)
(* stalling model, and the routing of calls by a registry that may grow    *)
(* while the run is on its way or suspended.                               *)
(*                                                                         *)
(* A call is its name; with what the tool returned it is the signature of  *)
(* an interaction.  The model gives its calls ids.  Failures of the store, *)
(* checkpoints and permissions are in ToolLoop, with the rounds beyond the *)
(* limit that a resume may make.                                           *)
(***************************************************************************)
EXTENDS ToolRegistry, SequencesExt

CONSTANTS
  MaxToolIterations,
  MaxMessages,        \* the window; 0 is none
  RepeatThreshold,    \* repeatedToolInteractionThreshold, 3 in the code
  IterationFloor,     \* softNoProgressIterationFloor, 12 in the code
  StreakThreshold,    \* noProgressFinalizationThreshold, 3 in the code
  HasInput,           \* does the command have an input text
  Results,            \* what a tool may return
  MaxCalls,           \* bound on the calls of a response
  MaxCallsInRun,      \* bound on the calls of all responses
  MaxResumes          \* bound on suspensions

ASSUME ModelTurnsAssumption ==
  /\ MaxToolIterations \in Nat \ {0}
  /\ MaxMessages \in Nat
  /\ {RepeatThreshold, IterationFloor, StreakThreshold, MaxCalls, MaxCallsInRun} \subseteq Nat \ {0}
  /\ HasInput \in BOOLEAN
  /\ MaxResumes \in Nat

VARIABLES
  at,          \* where the loop is
  messages,    \* state.Messages
  iteration,   \* state.Iteration
  rounds,      \* state.ToolRounds
  todo,        \* the calls of the response, or the pending ones, still to make
  results,     \* the signatures of the round so far
  resumed,     \* are these the pending calls of a resume
  approval,    \* state.ApprovalID: is the run waiting for one, or resumed by one
  controller,  \* the convergenceController
  finalizing,
  resumes,
  calls,       \* history: how many calls the model made
  history      \* see NoHistory

turnVars == <<at, messages, iteration, rounds, todo, results, resumed, approval,
              controller, finalizing, resumes, calls, history>>
vars == <<turnVars, registryVars>>

(***************************************************************************)
(* Messages                                                                *)
(***************************************************************************)
Message(role, about, ids) == [role |-> role, about |-> about, calls |-> ids]

Task == Message("user", "task", <<>>)
Steering(reason) == Message("user", reason, <<>>)
Granted == Message("user", "approval", <<>>)
(* The calls are numbered, over all responses. *)
CallsOf(names) == [i \in DOMAIN names |-> [name |-> names[i], id |-> calls + i]]
NextIds(count) == [i \in 1 .. count |-> calls + i]
Assistant(ids) == Message("assistant", "calls", ids)
Observation(call) == Message("tool", "observation", <<call.id>>)

InitialModelMessages == IF HasInput THEN <<Task>> ELSE <<>>

Larger(m, n) == IF m > n THEN m ELSE n

(* Variant: the window is only applied once it is exceeded by a round. *)
TrimLazily(m, max) ==
  LET first == SelectInSeq(m, LAMBDA x : x.role = "user")
      anchored == first > 0 /\ first <= Len(m) - max
      count == IF anchored THEN Larger(max - 1, 1) ELSE max
  IN IF max = 0 \/ Len(m) <= max + 2 THEN m
     ELSE (IF anchored THEN <<m[first]>> ELSE <<>>) \o SubSeq(m, Len(m) - count + 1, Len(m))

(* Variant: the message in the middle of the window is the one to go. *)
TrimMiddle(m, max) ==
  IF max = 0 \/ Len(m) <= max THEN m
  ELSE SubSeq(m, 1, Larger(max - 1, 1)) \o <<m[Len(m)]>>

(* trimMessagesToWindow: the first user message and the tail; a window of   *)
(* one message keeps two.                                                   *)
TrimMessagesToWindow(m, max) ==
  LET first == SelectInSeq(m, LAMBDA x : x.role = "user")
      anchored == first > 0 /\ first <= Len(m) - max
      count == IF anchored THEN Larger(max - 1, 1) ELSE max
  IN IF max = 0 \/ Len(m) <= max THEN m
     ELSE (IF anchored THEN <<m[first]>> ELSE <<>>) \o SubSeq(m, Len(m) - count + 1, Len(m))

(***************************************************************************)
(* The state                                                               *)
(***************************************************************************)
NewController == [seen |-> <<>>, streak |-> 0, replans |-> {}]
NoRoute == [checked |-> NoTool, tool |-> NoTool]

(* History: the conversation without the window, how much of it is older    *)
(* than this activation, the rounds the controller observed, the providers  *)
(* there were for the packet, the route of the latest call, and the calls   *)
(* that no continuation keeps.                                             *)
NoHistory ==
  [whole |-> <<>>, start |-> 0, observed |-> <<>>, known |-> 0, route |-> NoRoute,
   dropped |-> {}]

At(pc) == at = pc

Init ==
  /\ registry \in {<<p>> : p \in Providers}
  /\ packet = <<>>
  /\ at = "start"
  /\ messages = <<>>
  /\ iteration = 0
  /\ rounds = 0
  /\ todo = <<>>
  /\ results = <<>>
  /\ resumed = FALSE
  /\ approval = FALSE
  /\ controller = NewController
  /\ finalizing = FALSE
  /\ resumes = 0
  /\ calls = 0
  /\ history = NoHistory

(* The run ends: completed, or failed by the step that says so. *)
EndRun ==
  /\ at' = "ended"
  /\ messages' = <<>>
  /\ todo' = <<>>
  /\ results' = <<>>
  /\ controller' = NewController
  /\ history' = NoHistory
  /\ resumed' = FALSE
  /\ UNCHANGED <<iteration, rounds, approval, finalizing, resumes, calls>>

(***************************************************************************)
(* A run and its turns                                                     *)
(***************************************************************************)
Run ==
  /\ At("start")
  /\ BuildPacket
  /\ at' = "request"
  /\ messages' = InitialModelMessages
  /\ history' = [NoHistory EXCEPT !.whole = InitialModelMessages, !.known = Len(registry)]
  /\ UNCHANGED <<iteration, rounds, todo, results, resumed, approval, controller, finalizing,
                 resumes, calls>>

(* No packet: the names clash, and the run fails. *)
RunWithoutPacket ==
  /\ At("start")
  /\ Clashes(registry)
  /\ EndRun
  /\ UNCHANGED registryVars

(* The window is applied to the state itself. *)
RequestTurn ==
  /\ At("request")
  /\ messages' = TrimMessagesToWindow(messages, MaxMessages)
  /\ at' = "turn"
  /\ UNCHANGED <<iteration, rounds, todo, results, resumed, approval, controller, finalizing,
                 resumes, calls, history, registryVars>>

(* An answer without calls, any answer of a turn that was to be final, or   *)
(* calls beyond the limit, which fail the run.                             *)
Answer ==
  /\ At("turn")
  /\ EndRun
  /\ UNCHANGED registryVars

(* A response is appended with its calls. *)
Respond(count) ==
  /\ count <= MaxCallsInRun - calls
  /\ calls' = calls + count
  /\ messages' = Append(messages, Assistant(NextIds(count)))

(* Calls of tools, by names that were shown or made up. *)
CallTools ==
  /\ At("turn")
  /\ ~finalizing
  /\ rounds < MaxToolIterations
  /\ \E names \in BoundedSeq(Callable(registry) \cup DOMAIN packet, MaxCalls) \ {<<>>} :
       /\ Respond(Len(names))
       /\ todo' = CallsOf(names)
       /\ history' = [history EXCEPT !.whole = Append(@, Assistant(NextIds(Len(names))))]
  /\ results' = <<>>
  /\ at' = "calls"
  /\ UNCHANGED <<iteration, rounds, resumed, approval, controller, finalizing, resumes, registryVars>>

(* The response itself asks for an approval, before its limit is checked:   *)
(* its calls are shown to the model from then on, and never made.           *)
AskApproval ==
  /\ At("turn")
  /\ ~finalizing
  /\ resumes < MaxResumes
  /\ \/ \E count \in 0 .. MaxCalls :
          /\ Respond(count)
          /\ history' = [history EXCEPT !.whole = Append(@, Assistant(NextIds(count))),
                                         !.dropped = @ \cup Range(NextIds(count))]
     \/ UNCHANGED <<calls, messages, history>>   \* neither calls nor an output: no message
  /\ at' = "suspended"
  /\ approval' = TRUE
  /\ iteration' = iteration + 1
  /\ controller' = NewController
  /\ UNCHANGED <<rounds, todo, results, resumed, finalizing, resumes, registryVars>>

(***************************************************************************)
(* Calls                                                                   *)
(***************************************************************************)

(* The specification of the packet admits the call, and the registry of    *)
(* this moment routes it.                                                  *)
ExecuteCall ==
  LET call == Head(todo)
      tool == Route(call.name)
  IN
  /\ At("calls")
  /\ todo # <<>>
  /\ tool # NoTool
  /\ todo' = Tail(todo)
  /\ \E result \in Results : results' = Append(results, <<call.name, result>>)
  /\ messages' = Append(messages, Observation(call))
  /\ history' = [history EXCEPT !.whole = Append(@, Observation(call)),
                   !.route = [checked |-> CheckedTool(call.name), tool |-> tool]]
  /\ UNCHANGED <<at, iteration, rounds, resumed, approval, controller, finalizing, resumes, calls,
                 registryVars>>

(* The registry does not route it: the run fails. *)
ExecuteFails ==
  /\ At("calls")
  /\ todo # <<>>
  /\ Route(Head(todo).name) = NoTool
  /\ EndRun
  /\ UNCHANGED registryVars

(* An approval is needed; the continuation keeps the packet and the calls, *)
(* and the loop with its controller is gone.                               *)
Suspend ==
  /\ At("calls")
  /\ todo # <<>>
  /\ resumes < MaxResumes
  /\ at' = "suspended"
  /\ approval' = TRUE
  /\ iteration' = iteration + 1
  /\ results' = <<>>
  /\ controller' = NewController
  /\ UNCHANGED <<messages, rounds, todo, resumed, finalizing, resumes, calls, history, registryVars>>

PendingIds(cs) == {cs[i].id : i \in DOMAIN cs}

(* The host is stopped, or a step fails, and the latest checkpoint is       *)
(* resumed: that of the turn, of the response with all its calls, of the    *)
(* call that is next, or of the observation before it; the last two do not  *)
(* keep the other calls of the round.  Where the loop was resumed by an     *)
(* approval, its checkpoints lead back to the continuation of that.         *)
CutOff ==
  /\ ~approval
  /\ resumes < MaxResumes
  /\ \/ At("turn") /\ UNCHANGED <<todo, iteration>>
     \/ /\ At("calls") /\ results = <<>>
        /\ todo' = todo
        /\ iteration' = IF resumed THEN iteration ELSE iteration + 1
     \/ At("calls") /\ todo # <<>> /\ todo' = <<Head(todo)>> /\ UNCHANGED iteration
     \/ At("calls") /\ results # <<>> /\ todo' = <<>> /\ UNCHANGED iteration
  /\ at' = "suspended"
  /\ results' = <<>>
  /\ resumed' = FALSE
  /\ controller' = NewController
  /\ finalizing' = FALSE
  /\ history' = [history EXCEPT !.dropped = @ \cup (PendingIds(todo) \ PendingIds(todo'))]
  /\ UNCHANGED <<messages, rounds, approval, resumes, calls, registryVars>>

(* resumeLoopContinuation makes the pending calls before the loop; an       *)
(* approval without any is told to the model.                              *)
Resume ==
  /\ At("suspended")
  /\ resumed' = (todo # <<>>)
  /\ at' = IF todo # <<>> THEN "calls" ELSE "request"
  /\ LET told == IF approval /\ todo = <<>> THEN <<Granted>> ELSE <<>> IN
     /\ messages' = messages \o told
     /\ history' = [history EXCEPT !.whole = @ \o told,
                                   !.start = Len(history.whole), !.observed = <<>>]
  /\ iteration' = Larger(iteration, 1)
  /\ resumes' = resumes + 1
  /\ UNCHANGED <<rounds, todo, results, approval, controller, finalizing, calls, registryVars>>

(***************************************************************************)
(* Convergence                                                             *)
(***************************************************************************)
SeenBefore(sig) == IF sig \in DOMAIN controller.seen THEN controller.seen[sig] ELSE 0
Occurrences(sigs, sig) == Cardinality({i \in DOMAIN sigs : sigs[i] = sig})

(* observe: count the signatures, and the turns that added none. *)
Seen(sigs) ==
  [sig \in DOMAIN controller.seen \cup Range(sigs) |->
     SeenBefore(sig) + Occurrences(sigs, sig)]
Novel(sigs) == \E sig \in Range(sigs) : SeenBefore(sig) = 0

(* Variant: only a signature past the threshold is no progress. *)
StreakOfRepeats(sigs) ==
  IF \E sig \in Range(sigs) : Seen(sigs)[sig] < RepeatThreshold THEN 0
  ELSE controller.streak + 1

Streak(sigs) == IF Novel(sigs) THEN 0 ELSE controller.streak + 1

MaxRepeat(sigs) == Max({Seen(sigs)[sig] : sig \in Range(sigs)})

(* replanDecision: a reason is only given once. *)
Replan(reason) == IF reason \in controller.replans THEN "none" ELSE reason

Decision(sigs) ==
  IF iteration + 1 >= MaxToolIterations - 1 THEN "finalize"
  ELSE IF MaxRepeat(sigs) >= RepeatThreshold THEN Replan("repeated")
  ELSE IF iteration + 1 >= IterationFloor /\ Streak(sigs) >= StreakThreshold
    THEN Replan("no_new_observation")
  ELSE "none"

(* The round is over; what convergence says of it is the next user message. *)
EndRound ==
  LET decision == Decision(results) IN
  /\ At("calls")
  /\ todo = <<>>
  /\ ~resumed
  /\ controller' = [seen |-> Seen(results), streak |-> Streak(results),
                    replans |-> controller.replans \cup
                      ({decision} \cap {"repeated", "no_new_observation"})]
  /\ finalizing' = (decision = "finalize")
  /\ LET steering == IF decision = "none" THEN <<>> ELSE <<Steering(decision)>> IN
     /\ messages' = messages \o steering
     /\ history' = [history EXCEPT !.whole = @ \o steering,
                                   !.observed = Append(@, results)]
  /\ iteration' = iteration + 1
  /\ rounds' = rounds + 1
  /\ results' = <<>>
  /\ at' = "request"
  /\ UNCHANGED <<todo, resumed, approval, resumes, calls, registryVars>>

(* The controller does not see the round of a resume. *)
EndResumedRound ==
  /\ At("calls")
  /\ todo = <<>>
  /\ resumed
  /\ resumed' = FALSE
  /\ rounds' = rounds + 1
  /\ results' = <<>>
  /\ at' = "request"
  /\ UNCHANGED <<messages, iteration, todo, approval, controller, finalizing, resumes, calls,
                 history, registryVars>>

RegisterProvider ==
  /\ ~At("ended")
  /\ \E p \in Providers : Register(p)
  /\ UNCHANGED turnVars

Next ==
  \/ Run \/ RunWithoutPacket \/ RequestTurn
  \/ Answer \/ CallTools \/ AskApproval
  \/ ExecuteCall \/ ExecuteFails \/ Suspend \/ CutOff \/ Resume
  \/ EndRound \/ EndResumedRound
  \/ RegisterProvider

Spec == Init /\ [][Next]_vars

(***************************************************************************)
(* Properties                                                              *)
(***************************************************************************)

Abouts == {"task", "calls", "observation", "approval", "finalize", "repeated",
           "no_new_observation"}

(* The loop's state and the registry keep their types. *)
TurnsTypeOK ==
  /\ RegistryTypeOK
  /\ at \in {"start", "request", "turn", "calls", "suspended", "ended"}
  /\ messages \in Seq([role : {"user", "assistant", "tool"}, about : Abouts,
                       calls : Seq(Nat)])
  /\ iteration \in Nat
  /\ rounds \in 0 .. MaxToolIterations
  /\ controller.streak \in Nat
  /\ controller.replans \subseteq {"repeated", "no_new_observation"}
  /\ at = "calls" => todo # <<>> \/ results # <<>> \/ resumed
  /\ at \notin {"calls", "suspended"} => todo = <<>> /\ results = <<>> /\ ~resumed
  /\ finalizing \in BOOLEAN /\ approval \in BOOLEAN

(* The window is applied to what is left of earlier windows, in every turn  *)
(* and across suspensions; the model is shown what one window on the whole  *)
(* conversation would leave.                                                *)
WindowIsOfTheWhole ==
  At("turn") => messages = TrimMessagesToWindow(history.whole, MaxMessages)

(* However long the run is, the messages kept of it, in memory and in each  *)
(* continuation, are no more than the window, with at most one round made   *)
(* since the last turn, whatever suspensions came in between; the turn      *)
(* itself has the window, or two messages where that is one.                *)
MessagesBounded ==
  MaxMessages # 0 =>
    Len(messages) <= Larger(MaxMessages, 2) + (IF At("turn") THEN 0 ELSE MaxCalls + 2)

(* The task stays in front of the model, however long the run is and        *)
(* however small the window; and the window only cuts at its beginning: a   *)
(* call the model still sees has the observation it led to, unless it was   *)
(* dropped, with a response that asked for an approval or with a round that *)
(* was cut off; and an observation has its call unless the window cut       *)
(* through its round, next to the task.  A dropped call is never made.      *)
TaskAndRoundsKept ==
  At("turn") =>
    /\ HasInput => messages[1] = Task
    /\ \A i \in DOMAIN messages :
        /\ \A id \in Range(messages[i].calls) :
             messages[i].role = "assistant" =>
               (id \in history.dropped <=>
                  ~\E j \in DOMAIN messages :
                     j > i /\ messages[j] = Message("tool", "observation", <<id>>))
        /\ messages[i].role = "tool" =>
             \/ \E j \in 1 .. i - 1 : /\ messages[j].role = "assistant"
                                      /\ messages[i].calls[1] \in Range(messages[j].calls)
             \/ \A j \in 1 .. i - 1 : messages[j].role = "tool" \/ j = 1

(* What the controller was to notice, from the rounds it observed. *)
Steered(reason) ==
  {i \in history.start + 1 .. Len(history.whole) : history.whole[i] = Steering(reason)}
Observations(sig) ==
  UNION {{k} \X {i \in DOMAIN history.observed[k] : history.observed[k][i] = sig} :
           k \in DOMAIN history.observed}
TimesObserved(sig) == Cardinality(Observations(sig))
NovelRound(k) ==
  \E sig \in Range(history.observed[k]) :
    \A j \in 1 .. k - 1 : sig \notin Range(history.observed[j])
Repeating ==
  \E sig \in Range(Last(history.observed)) : TimesObserved(sig) >= RepeatThreshold
NoProgress ==
  LET n == Len(history.observed) IN
  /\ n >= StreakThreshold
  /\ \A k \in n - StreakThreshold + 1 .. n : ~NovelRound(k)

(* A model that repeats an interaction, or that has not made a new one for  *)
(* StreakThreshold rounds, has been told so before its next turn, and told  *)
(* once for each reason, or has been asked for its final answer.            *)
StallIsSteered ==
  /\ \A reason \in {"repeated", "no_new_observation"} : Cardinality(Steered(reason)) <= 1
  /\ At("turn") /\ history.observed # <<>> /\ ~finalizing =>
       /\ Repeating => Steered("repeated") # {}
       /\ NoProgress /\ ~Repeating /\ iteration >= IterationFloor =>
            Steered("no_new_observation") # {}

(* A call that was checked against a specification of the packet goes to    *)
(* the tool with that specification, whatever was registered since, or it   *)
(* fails; and a tool is only executed without one in the packet if the      *)
(* registry has grown since the packet was built.  Only a tool whose plain  *)
(* name reads as a joined one can stand for another, or be stood for.       *)
RoutedAsChecked ==
  LET route == history.route IN
  route.tool # NoTool /\ route.checked # route.tool =>
    /\ Len(registry) > history.known
    /\ \/ route.checked = NoTool
       \/ \E t \in {route.checked, route.tool} : LooksJoined(registry, t)
================================================================================
