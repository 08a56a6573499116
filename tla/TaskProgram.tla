---------------------------- MODULE TaskProgram ----------------------------
(***************************************************************************)
(* What a `do` list promises its author: the tasks run one at a time, from *)
(* the first to the last, each of them once, except where an `if`, an      *)
(* `exit`, an `end` or a named `then` says otherwise; $output is what the  *)
(* last task that has a payload returned, $context what the last export    *)
(* said. There is no Continue-As-New here, no replay and no resume point:  *)
(* TaskList is shown to implement this module.                             *)
(***************************************************************************)
EXTENDS Naturals

CONSTANTS N, Plans, IsRoot

VARIABLES
  plan,     \* the task list
  at,       \* the task that is next, or running
  st,       \* "ready" between tasks, "busy" in one, "closed"
  output,   \* the task whose payload is $output, 0 for none
  context,  \* the task whose export is $context, 0 for none
  result,   \* how the program closed
  started   \* how often each task was started

vars == <<plan, at, st, output, context, result, started>>

Init ==
  /\ plan \in Plans
  /\ at = 1
  /\ st = "ready"
  /\ output = 0
  /\ context = 0
  /\ result = "none"
  /\ started = [i \in 1 .. N |-> 0]

Ready == st = "ready" /\ at \in 1 .. N

Busy == st = "busy" /\ at \in 1 .. N

Close(r) == st' = "closed" /\ result' = r

Waive ==
  /\ Ready
  /\ plan[at].hasIf
  /\ at' = at + 1
  /\ UNCHANGED <<plan, st, output, context, result, started>>

Start ==
  /\ Ready
  /\ st' = "busy"
  /\ started' = [started EXCEPT ![at] = @ + 1]
  /\ UNCHANGED <<plan, at, output, context, result>>

\* The task is done: its payload becomes $output, unless it only routed.
Record ==
  /\ output' \in IF plan[at].kind = "route" /\ ~plan[at].shapes
                 THEN {output, at} ELSE {at}
  /\ context' \in IF plan[at].exports THEN {at}
                  ELSE IF plan[at].kind = "do" THEN {context, at} ELSE {context}

\* Where a task that does not end the list leads. A switch may have followed
\* its case instead of its `then`.
Successors(t) ==
  CASE t.then \in {"none", "continue"}                 -> {at + 1}
    [] t.then = "goto" /\ t.kind # "route"            -> {t.target}
    [] t.then = "goto" /\ t.kind = "route"            -> {at + 1, t.target}
    [] t.then \in {"exit", "end"} /\ t.kind # "route" -> {}
    [] t.then \in {"exit", "end"} /\ t.kind = "route" -> {at + 1}

Continue ==
  /\ Busy
  /\ Record
  /\ at' \in Successors(plan[at])
  /\ st' = "ready"
  /\ UNCHANGED <<plan, result, started>>

Stop ==
  /\ Busy
  /\ \/ plan[at].kind \in {"route", "block", "child"}
     \/ plan[at].then \in {"exit", "end"}
  /\ Record
  /\ \/ Close("completed")
     \/ ~IsRoot /\ Close("endSignalled")
  /\ UNCHANGED <<plan, at, started>>

\* An `end` in an inline do task goes straight to the parent, past the output
\* and export of the do task.
StopInside ==
  /\ Busy
  /\ plan[at].kind = "do" /\ ~IsRoot
  /\ output' \in {output, at}
  /\ context' \in {context, at}
  /\ Close("endSignalled")
  /\ UNCHANGED <<plan, at, started>>

Complete ==
  /\ st = "ready"
  /\ at = N + 1
  /\ Close("completed")
  /\ UNCHANGED <<plan, at, output, context, started>>

Abort ==
  /\ st # "closed"
  /\ Close("failed") \/ Close("canceled")
  /\ output' \in IF st = "busy" THEN {output, at} ELSE {output}
  /\ context' \in IF Busy /\ plan[at].kind = "do" THEN {context, at} ELSE {context}
  /\ UNCHANGED <<plan, at, started>>

Next == Waive \/ Start \/ Continue \/ Stop \/ StopInside \/ Complete \/ Abort

Spec == Init /\ [][Next]_vars
=============================================================================
