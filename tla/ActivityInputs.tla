--------------------------- MODULE ActivityInputs ---------------------------
(***************************************************************************)
(* The inputs of HTTP, gRPC and run activities: what the workflow          *)
(* evaluates before it schedules the activity, what it leaves for every    *)
(* attempt, and what an attempt hands on (pkg/utils/activity_inputs.go,    *)
(* pkg/zigflow/activities).                                                *)
(*                                                                         *)
(* Inputs are a function from places to expressions. A place is a path of  *)
(* keys, and a key a sequence of characters and words. An expression is    *)
(* one of Expressions together with the kind of result that it gives:      *)
(*   "plain"      a string,                                                *)
(*   "lookalike"  a string that reads as an expression itself,             *)
(*   "inexact"    an integer that JSON would round,                        *)
(*   "nothing"    null,                                                    *)
(*   "error"      no result.                                               *)
(***************************************************************************)
EXTENDS Expressions, Names

Gives == {"plain", "lookalike", "inexact", "nothing", "error"}
Input(expr, gives) == [is |-> "expression", expr |-> expr, gives |-> gives]

\* The result of an input in attempt n, 0 for the workflow. $data.activity
\* exists in an attempt only.
Result(input, n) ==
  [is |-> "value", expr |-> input.expr, gives |-> input.gives,
   attempt |-> IF ReadsActivity(input.expr) THEN n ELSE 0]

(***************************************************************************)
(* What the code does with a string: an expression is evaluated, and so is *)
(* the result of an earlier evaluation that looks like one.                *)
(***************************************************************************)
EvaluateString(item, n) ==
  CASE item.is = "expression" -> Result(item, n)
    [] item.is = "value" /\ item.gives = "lookalike" -> [item EXCEPT !.gives = "evaluated twice"]
    [] OTHER -> item

SurvivesJSON(item) == item.gives # "inexact"

\* What Temporal's encoding makes of an argument of the activity.
Transport(item) ==
  IF item.is = "value" /\ ~SurvivesJSON(item) THEN [item EXCEPT !.gives = "rounded"] ELSE item

\* The parts of the inputs of each kind that the workflow resolves and the
\* attempt evaluates. The empty prefix is the whole `with` of an HTTP task.
\* On Kubernetes the image is taken as it is, as are the service and the
\* protocol file of a gRPC task. Arguments in map form never reach a command.
Method == <<<<"method">>>>
Source == <<<<"source">>>>
Image == <<<<"image">>>>
Arguments == <<<<"arguments">>>>
Variables == <<<<"environment">>>>
ExecArgs == <<<<"exec">>, <<"args">>>>
ExecEnv == <<<<"exec">>, <<"env">>>>

Parts(kind) ==
  CASE kind = "http" -> {<<>>}
    [] kind = "grpc" -> {<<<<"args">>>>, Method}
    [] kind = "shell" -> {ExecArgs, ExecEnv}
    [] kind = "script" -> {ExecArgs, ExecEnv, Source}
    [] kind = "docker" -> {Image, Arguments, Variables}
    [] kind = "kubernetes" -> {Arguments, Variables}

Evaluated(kind, place) == \E part \in Parts(kind) : IsPrefix(part, place)
Environment(place) == IsPrefix(ExecEnv, place) \/ IsPrefix(Variables, place)
Argument(place) == \E part \in {ExecArgs, Arguments, Image} : IsPrefix(part, place)

\* A value that must be a string: the method of gRPC, the source of a script.
NeedsString(place) == place \in {Method, Source}
IsString(item) == item.gives \in {"plain", "lookalike", "evaluated twice"}

\* Environments turn null into the empty string, arguments into "<nil>".
NullAs(place) ==
  CASE Environment(place) -> "blank" [] ~Environment(place) /\ Argument(place) -> "nil as text" [] OTHER -> "nothing"
Formatted(place, item) ==
  IF item.is = "value" /\ item.gives = "nothing" THEN [item EXCEPT !.gives = NullAs(place)] ELSE item

(***************************************************************************)
(* In the workflow: evaluate all that neither needs the attempt nor is     *)
(* changed by the encoding, and note what is left.                         *)
(***************************************************************************)

\* Only gRPC activities never add $data.activity to their state.
DefersActivityState(kind) == kind # "grpc"

Postponed(kind, input) ==
  \/ DefersActivityState(kind) /\ ReferencesActivityState(input.expr)
  \/ ~SurvivesJSON(Result(input, 0))

\* What an activity is scheduled with.
Schedule(resolved, items, deferred, failed) ==
  [resolved |-> resolved, items |-> items, deferred |-> deferred, failed |-> failed]

ResolveActivityInputs(kind, inputs) ==
  LET left == {p \in DOMAIN inputs : Evaluated(kind, p) /\ Postponed(kind, inputs[p])}
      now == {p \in DOMAIN inputs : Evaluated(kind, p)} \ left
      items == [p \in DOMAIN inputs |->
                  IF p \in now THEN Formatted(p, Result(inputs[p], 0)) ELSE inputs[p]]
  IN Schedule(TRUE,
              [p \in DOMAIN items |-> Transport(items[p])],
              {Pointer(p) : p \in left},
              \E p \in now : items[p].gives = "error" \/ (NeedsString(p) /\ ~IsString(items[p])))

\* An activity that a worker of an earlier version scheduled.
Unresolved(inputs) == Schedule(FALSE, inputs, {}, FALSE)

(***************************************************************************)
(* In attempt n.                                                           *)
(***************************************************************************)
EvaluateDeferredActivityInput(place, item, schedule, n) ==
  IF schedule.resolved /\ Pointer(place) \in schedule.deferred THEN EvaluateString(item, n) ELSE item

EvaluateActivityInput(place, item, schedule, n) ==
  IF schedule.resolved THEN EvaluateDeferredActivityInput(place, item, schedule, n)
  ELSE EvaluateString(item, n)

\* The image and the arguments of a Docker container become arguments of the
\* docker command, which are evaluated once more under their new place.
RunExecCommand(place, item, schedule, n) ==
  EvaluateActivityInput(ExecArgs \o place, item, schedule, n)

\* What the attempt hands on for a place. Its metadata is added to the state
\* first, except by gRPC.
HandedOn(kind, schedule, place, n) ==
  LET item == schedule.items[place]
      at == IF DefersActivityState(kind) THEN n ELSE 0
  IN IF ~Evaluated(kind, place) THEN item
     ELSE IF kind = "docker" /\ Argument(place)
     THEN Formatted(place, RunExecCommand(place, EvaluateDeferredActivityInput(place, item, schedule, at),
                                          schedule, at))
     ELSE Formatted(place, EvaluateActivityInput(place, item, schedule, at))

AttemptFails(kind, schedule, n) ==
  \E p \in DOMAIN schedule.items :
    LET item == HandedOn(kind, schedule, p, n)
    IN item.is = "value" /\ (item.gives = "error" \/ (NeedsString(p) /\ ~IsString(item)))

\* What the document means an attempt to hand on.
Meant(kind, inputs, place, n) ==
  IF Evaluated(kind, place)
  THEN Formatted(place, Result(inputs[place], IF kind = "grpc" THEN 0 ELSE n))
  ELSE inputs[place]

MeantToFail(kind, inputs, n) ==
  \E p \in DOMAIN inputs :
    LET item == Meant(kind, inputs, p, n)
    IN item.is = "value" /\ (item.gives = "error" \/ (NeedsString(p) /\ ~IsString(item)))
=============================================================================
