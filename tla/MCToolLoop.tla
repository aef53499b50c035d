------------------------------- MODULE MCToolLoop -------------------------------
(* What the model may answer in the instances of ToolLoop. *)
EXTENDS ToolLoop

Calling(calls) == [calls |-> calls, approval |-> FALSE]
Asking(calls) == [calls |-> calls, approval |-> TRUE]

Text == Calling(<<>>)

(* A call, or three of which the second has side effects, and a request    *)
(* for approval beside a call that is then left out.                       *)
MixAnswers ==
  {Text, Calling(<<"read">>), Calling(<<"read", "write", "read">>),
   Asking(<<"read">>)}

(* One or two calls without side effects. *)
ReadAnswers == {Text, Calling(<<"read">>), Calling(<<"read", "read">>)}
================================================================================
