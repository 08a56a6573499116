------------------------------- MODULE Names -------------------------------
(***************************************************************************)
(* How the keys of a document are made into the names of activities and    *)
(* the pointers to their inputs (pkg/zigflow/tasks/task_builder.go,        *)
(* pkg/utils/activity_inputs.go). A key is a sequence of characters.       *)
(***************************************************************************)
EXTENDS Sequences, SequencesExt

\* Mutant: segments are joined as they are.
UnescapedActivityNameSegment(segment) == segment
EscapeActivityNameSegment(segment) ==
  FlattenSeq([i \in DOMAIN segment |-> IF segment[i] \in {"\\", "."} THEN <<"\\", segment[i]>> ELSE <<segment[i]>>])
JoinActivityNameSegments(segments) ==
  FlattenSeq([i \in DOMAIN segments |->
                (IF i = 1 THEN <<>> ELSE <<".">>) \o EscapeActivityNameSegment(segments[i])])
PerTaskActivityName(type, path) == JoinActivityNameSegments(<<type>> \o path)

\* Mutant: keys are joined as they are.
RawPointerToken(token) == token
EscapePointerToken(token) ==
  FlattenSeq([i \in DOMAIN token |-> CASE token[i] = "~" -> <<"~", "0">>
                                       [] token[i] = "/" -> <<"~", "1">>
                                       [] OTHER -> <<token[i]>>])

\* The JSON Pointer of a place in the inputs.
Pointer(place) == FlattenSeq([i \in DOMAIN place |-> <<"/">> \o EscapePointerToken(place[i])])
=============================================================================
