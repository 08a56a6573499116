------------------------------ MODULE TaskList ------------------------------
(***************************************************************************)
(* The sequential executor of a `do` list: DoTaskBuilder.workflowExecutor  *)
(* and everything it calls for one task (iterateTasks, runTaskAndHandleFlow,*)
(* dispatchFlowDirective, executeRedirect, runTask), over the whole chain  *)
(* of Temporal runs that Continue-As-New makes of one workflow.            *)
(*                                                                         *)
(* One loop iteration never yields to Temporal before the task function    *)
(* runs, so a visit of a task (continue-as-new check, skip check, redirect *)
(* check, `if`) is one step; the task then blocks, and its return together *)
(* with the output, export and flow handling that follows is another.      *)
(*                                                                         *)
(* A task is a record of what the loop can see of it. A task's position    *)
(* stands both for its name and for the "name-index" identifier that       *)
(* Continue-As-New stores. The payloads of state.Output and state.Context  *)
(* are abstracted to the position of the task that wrote them (0: none).   *)
(***************************************************************************)
EXTENDS Naturals

CONSTANTS
  N,        \* number of tasks in the built list
  Lists,    \* the task lists considered, each with its limit
  Opening,  \* lengths that a run's history may have when its code first runs
  Growth,   \* what one task may add to the history
  IsRoot    \* FALSE when the workflow has a parent (isRootWorkflow)

Pos == 1 .. N

\* A name that no task of the list has; one more than the position after the
\* last task, so that it is never mistaken for the end of the list.
Missing == N + 2

\* work:  an activity, wait, set or raise;    route:  a switch;
\* block: a for or try, whose body is inline; child:  a fork or run workflow;
\* do:    an inline do task;                  listen: a listener.
Kind == {"work", "route", "block", "child", "do", "listen"}
Flow == {"none", "continue", "exit", "end", "goto"}

Task == [kind : Kind, hasIf : BOOLEAN, then : Flow,
         target : Pos \cup {Missing}, shapes : BOOLEAN, exports : BOOLEAN]

\* `limit` is the history length beyond which Continue-As-New is due: the
\* document's canMaxHistoryLength, or where the server begins to suggest it. 0 is
\* for a workflow that gets to neither.
ASSUME TaskListAssumption ==
  /\ N \in Nat \ {0}
  /\ Lists \subseteq [tasks : [Pos -> Task], limit : Nat]
  /\ Opening \subseteq Nat
  /\ Growth \subseteq Nat
  /\ IsRoot \in BOOLEAN

\* Bound: the starts of one task are counted up to here.
Often == 2

VARIABLES
  plan,       \* the built list; never changes
  limit,      \* its limit; never changes
  pc,         \* where the executor is
  pos,        \* loop index; N + 1 when the loop is over
  next,       \* nextTargetName, 0 for nil
  canFrom,    \* state.CANStartFrom, 0 for nil
  length,     \* the length of this run's history
  cancelReq,  \* cancellation of this run has been requested
  output,     \* state.Output: the task that wrote it
  context,    \* state.Context: the task that wrote it
  result,     \* how the workflow closed
  started,    \* history: how often each task started, over all runs
  waived      \* history: tasks the program itself decided not to run

vars == <<plan, limit, pc, pos, next, canFrom, length, cancelReq, output,
          context, result, started, waived>>

Results ==
  {"none", "completed", "endSignalled", "failed", "canceled", "handedOver"}

TypeOK ==
  /\ plan \in [Pos -> Task]
  /\ limit \in Nat
  /\ pc \in {"begin", "iterate", "running", "redirect", "closed"}
  /\ pos \in 1 .. N + 1
  /\ next \in {0, Missing} \cup Pos
  /\ canFrom \in {0} \cup Pos
  /\ length \in Nat
  /\ cancelReq \in BOOLEAN
  /\ output \in {0} \cup Pos
  /\ context \in {0} \cup Pos
  /\ result \in Results
  /\ started \in [Pos -> 0 .. Often]
  /\ waived \subseteq Pos
  /\ pc \in {"running", "redirect"} => pos \in Pos

\* Two lengths beyond the limit are the same to the code.
Counted(h) == IF h > limit THEN limit + 1 ELSE h

Init ==
  /\ \E list \in Lists : plan = list.tasks /\ limit = list.limit
  /\ pc = "begin"
  /\ pos = 1
  /\ next = 0
  /\ canFrom = 0
  /\ \E h \in Opening : length = Counted(h)
  /\ cancelReq = FALSE
  /\ output = 0
  /\ context = 0
  /\ result = "none"
  /\ started = [i \in Pos |-> 0]
  /\ waived = {}

-----------------------------------------------------------------------------
(* Helpers *)

NeverSkipCAN(t) == t.kind \in {"listen", "do"}

Close(r) ==
  /\ pc' = "closed"
  /\ result' = r

\* The result of an `end` that reaches workflowExecutor.
EndResult == IF IsRoot THEN "completed" ELSE "endSignalled"

history == <<started, waived>>
data    == <<output, context>>

-----------------------------------------------------------------------------
(* Start of the workflow: only the first run has no state yet. *)

Begin ==
  /\ pc = "begin"
  /\ pc' = "iterate"
  /\ UNCHANGED <<plan, limit, pos, next, canFrom, length, cancelReq, data,
                 result, history>>

RejectInput ==
  /\ pc = "begin"
  /\ Close("failed")
  /\ UNCHANGED <<plan, limit, pos, next, canFrom, length, cancelReq, data,
                 history>>

-----------------------------------------------------------------------------
(* One visit of a task by the loop of iterateTasks. *)

AtTask == pc = "iterate" /\ pos \in Pos

\* shouldContinueAsNew. It is asked at every visit, the first one of a run and
\* those of tasks that are going to be skipped included.
ShouldContinueAsNew == limit # 0 /\ length > limit

\* A run begins: its history, and the loop, start over.
NewRun ==
  /\ \E h \in Opening : length' = Counted(h)
  /\ pos' = 1
  /\ next' = 0
  /\ cancelReq' = FALSE

\* Mutant: the next run resumes after the task that this one stopped at.
ContinueAsNewPastTask ==
  /\ AtTask
  /\ ShouldContinueAsNew
  /\ NewRun
  /\ canFrom' = IF pos < N THEN pos + 1 ELSE pos
  /\ UNCHANGED <<plan, limit, pc, data, result, history>>

\* The run closes; the next one starts the same list over with the state as
\* it is. nextTargetName is a local variable of the loop and does not survive,
\* and a cancellation request belongs to the run that it was sent to. The new
\* resume point replaces one that this run has not got to yet.
ContinueAsNew ==
  /\ AtTask
  /\ ShouldContinueAsNew
  /\ NewRun
  /\ canFrom' = pos
  /\ UNCHANGED <<plan, limit, pc, data, result, history>>

\* Mutant: resumes one task too early.
ShouldSkipTooFew ==
  /\ ~NeverSkipCAN(plan[pos])
  /\ canFrom \notin {0, pos, pos + 1}

\* Mutant: nothing is skipped.
ShouldSkipNothing == FALSE

\* shouldSkip: TRUE when the task was done by an earlier run.
ShouldSkip ==
  /\ ~NeverSkipCAN(plan[pos])
  /\ canFrom \notin {0, pos}

SkipDone ==
  /\ AtTask
  /\ ~ShouldContinueAsNew
  /\ ShouldSkip
  /\ pos' = pos + 1
  /\ UNCHANGED <<plan, limit, pc, next, canFrom, length, cancelReq, data,
                 result, history>>

\* Mutant: the resume point is not cleared when it is reached.
ReachedKeepingResumePoint ==
  /\ AtTask
  /\ ~ShouldContinueAsNew
  /\ ~ShouldSkip
  /\ canFrom' = canFrom

\* The visit goes on past shouldSkip, which clears the resume point when it is
\* this task.
Reached ==
  /\ AtTask
  /\ ~ShouldContinueAsNew
  /\ ~ShouldSkip
  /\ canFrom' = IF NeverSkipCAN(plan[pos]) THEN canFrom ELSE 0

PassOver ==
  /\ Reached
  /\ next \notin {0, pos}
  /\ pos' = pos + 1
  /\ UNCHANGED <<plan, limit, pc, next, length, cancelReq, data, result,
                 history>>

\* Mutant: the pending target is dropped at the first task that is visited.
SelectedIgnoringTarget ==
  /\ Reached
  /\ next' = 0

Selected ==
  /\ Reached
  /\ next \in {0, pos}
  /\ next' = 0

SkipIf ==
  /\ Selected
  /\ plan[pos].hasIf
  /\ pos' = pos + 1
  /\ waived' = waived \cup {pos}
  /\ UNCHANGED <<plan, limit, pc, length, cancelReq, data, result, started>>

\* The `if` expression, the task's input, its metadata or its activity options
\* are in error.
RejectTask ==
  /\ Selected
  /\ Close("failed")
  /\ UNCHANGED <<plan, limit, pos, length, cancelReq, data, history>>

StartTask ==
  /\ Selected
  /\ pc' = "running"
  /\ started' = [started EXCEPT ![pos] = IF @ < Often THEN @ + 1 ELSE @]
  /\ UNCHANGED <<plan, limit, pos, length, cancelReq, data, result, waived>>

EndOfList ==
  /\ pc = "iterate"
  /\ pos = N + 1
  /\ Close(IF next = 0 THEN "completed" ELSE "failed")
  /\ UNCHANGED <<plan, limit, pos, next, canFrom, length, cancelReq, data,
                 history>>

-----------------------------------------------------------------------------
(* The task function returns. While it was blocked the history grew. *)

HistoryGrows == \E g \in Growth : length' = Counted(length + g)

Closes(r) == Close(r) /\ UNCHANGED length

\* The `end` of a body comes out of a for or try as it is, that of a child
\* workflow as an error that the task decodes.
HandsOnEnd(t) == t.kind \in {"block", "child"}

\* Directives a task can emit itself. The list of an inline do task is not
\* nested: its executor returns an `end` as a completion or as an error.
Emits(t) ==
  CASE t.kind = "route" -> {"none", "continue", "exit", "end"}
    [] HandsOnEnd(t) -> {"none", "end"}
    [] OTHER -> {"none"}

\* A for or try task has already put its body's output in state.Output when it
\* signals end.
WritesOutputItself(t) == t.kind = "block"

\* The tasks of an inline do export to the context of the list that it is in.
ContextAfter(t) ==
  IF t.exports THEN {pos} ELSE IF t.kind = "do" THEN {context, pos} ELSE {context}

\* Mutant: $context is replaced whether or not the task exports.
RecordExportingAlways(controlOnly) ==
  /\ output' = IF controlOnly /\ ~plan[pos].shapes THEN output ELSE pos
  /\ context' = pos

\* processTaskOutput and processTaskExport. A task that emits a directive
\* leaves state.Output alone unless it has an output directive.
Record(controlOnly) ==
  /\ output' = IF controlOnly /\ ~plan[pos].shapes THEN output ELSE pos
  /\ context' \in ContextAfter(plan[pos])

\* The tasks that a jump to a later task leaves out.
JumpedOver(target) ==
  IF target \in Pos THEN {i \in Pos : pos < i /\ i < target} ELSE {}

\* dispatchFlowDirective for everything but a switch's named target.
Dispatch(d) ==
  \/ /\ d \in {"none", "continue"}
     /\ pc' = "iterate"
     /\ HistoryGrows
     /\ pos' = pos + 1
     /\ UNCHANGED <<next, result, waived>>
  \/ /\ d \in {"exit", "end"}
     /\ Closes(IF d = "end" THEN EndResult ELSE "completed")
     /\ waived' = waived \cup {i \in Pos : pos < i}
     /\ UNCHANGED <<pos, next>>
  \/ /\ d = "goto"
     /\ pc' = "iterate"
     /\ HistoryGrows
     /\ pos' = pos + 1
     /\ next' = plan[pos].target
     /\ waived' = waived \cup JumpedOver(plan[pos].target)
     /\ UNCHANGED result

\* A directive of the task itself takes precedence over its `then`.
EffectiveDirective(d) == IF d # "none" THEN d ELSE plan[pos].then

TaskReturns(d) ==
  /\ pc = "running"
  /\ d \in Emits(plan[pos])
  /\ Record(d # "none" /\ ~WritesOutputItself(plan[pos]))
  /\ Dispatch(EffectiveDirective(d))
  /\ UNCHANGED <<plan, limit, canFrom, cancelReq, started>>

\* What Temporal makes of the error of a task. An inline do task may return the
\* one by which its own executor signals `end` to the parent, or the one by
\* which it continues as new: the chain then goes on as the do task's workflow,
\* without the rest of this list.
Faults(t) ==
  {"failed"}
  \cup (IF t.kind = "do" /\ ~IsRoot THEN {"endSignalled"} ELSE {})
  \cup (IF t.kind = "do" /\ limit # 0 THEN {"handedOver"} ELSE {})

\* The output and export of the task are not processed; what the tasks of an
\* inline do have written stays.
TaskFaults ==
  /\ pc = "running"
  /\ \E r \in Faults(plan[pos]) : Closes(r)
  /\ output' \in IF plan[pos].kind = "do" THEN {output, pos} ELSE {output}
  /\ context' \in IF plan[pos].kind = "do" THEN {context, pos} ELSE {context}
  /\ UNCHANGED <<plan, limit, pos, next, canFrom, cancelReq, history>>

\* A child workflow can be cancelled on its own, anything else only with the
\* workflow.
TaskCancelled ==
  /\ pc = "running"
  /\ cancelReq \/ plan[pos].kind \in {"block", "child", "do"}
  /\ Closes("canceled")
  /\ UNCHANGED <<plan, limit, pos, next, canFrom, cancelReq, data, started,
                 waived>>

\* The output or export expression or its schema is in error.
OutputInError ==
  /\ pc \in {"running", "redirect"}
  /\ plan[pos].shapes \/ plan[pos].exports
  /\ output' \in {output, pos}
  /\ Closes("failed")
  /\ UNCHANGED <<plan, limit, pos, next, canFrom, cancelReq, context, history>>

-----------------------------------------------------------------------------
(* A switch that names a target runs it as a child workflow. *)

StartRedirect ==
  /\ pc = "running"
  /\ plan[pos].kind = "route"
  /\ pc' = "redirect"
  /\ HistoryGrows
  /\ UNCHANGED <<plan, limit, pos, next, canFrom, cancelReq, data, result,
                 history>>

\* The target's result, or the output it carried out of an `end`, goes through
\* the switch's output and export.
RedirectReturns(ended) ==
  /\ pc = "redirect"
  /\ Record(FALSE)
  /\ Dispatch(IF ended THEN "end" ELSE "none")
  /\ UNCHANGED <<plan, limit, canFrom, cancelReq, started>>

RedirectFails(r) ==
  /\ pc = "redirect"
  /\ Closes(r)
  /\ UNCHANGED <<plan, limit, pos, next, canFrom, cancelReq, data, history>>

-----------------------------------------------------------------------------
(* The environment *)

RequestCancel ==
  /\ pc # "closed"
  /\ ~cancelReq
  /\ cancelReq' = TRUE
  /\ UNCHANGED <<plan, limit, pc, pos, next, canFrom, length, data, result,
                 history>>

Terminated ==
  /\ pc = "closed"
  /\ UNCHANGED vars

Visit == ContinueAsNew \/ SkipDone \/ PassOver \/ SkipIf \/ RejectTask
         \/ StartTask \/ EndOfList

Finish == \/ \E d \in Flow : TaskReturns(d)
          \/ TaskFaults
          \/ TaskCancelled
          \/ OutputInError
          \/ StartRedirect
          \/ \E ended \in BOOLEAN : RedirectReturns(ended)
          \/ \E r \in {"failed", "canceled"} : RedirectFails(r)

Execute == Begin \/ RejectInput \/ Visit \/ Finish

Next == Execute \/ RequestCancel \/ Terminated

Spec == Init /\ [][Next]_vars

\* Temporal keeps scheduling workflow tasks, and every task ends: activities
\* and listeners have timeouts.
FairSpec == Spec /\ WF_vars(Execute)

-----------------------------------------------------------------------------
(* Properties *)

\* A run can rewind to its resume point before Continue-As-New is due again. A
\* canMaxHistoryLength of 2 or less, or less than what has been signalled to a
\* run before it starts, does not leave that room.
RoomToRewind == limit = 0 \/ \A h \in Opening : h <= limit

\* Continue-As-New is invisible: a task that ran in one run of the chain is
\* not run again by a later one ("Skipping complete continue-as-new task").
\* Listeners and inline do tasks are re-entered on purpose.
NoReexecution ==
  RoomToRewind => \A i \in Pos : ~NeverSkipCAN(plan[i]) => started[i] <= 1

\* Tasks start in declaration order, over the whole chain of runs: none starts
\* after one that is declared later has.
InOrder ==
  [][RoomToRewind =>
       \A i \in Pos :
         started'[i] # started[i] =>
           \A j \in Pos : i < j /\ ~NeverSkipCAN(plan[j]) => started[j] = 0]_vars

\* A workflow that reports completion has run every task, but for those that an
\* `if`, an `exit`, an `end` or a jump said not to run. This is what the resume
\* point of Continue-As-New can get wrong without any error, also where it is
\* overwritten by a run that has no room to rewind.
NothingDropped ==
  result = "completed" => \A i \in Pos : started[i] > 0 \/ i \in waived

\* A task that the flow jumped over, or that comes after an `exit` or `end`,
\* does not run.
WaivedStaysUnrun ==
  RoomToRewind => \A i \in waived : ~NeverSkipCAN(plan[i]) => started[i] = 0

\* A fork or run task whose branch or child ends the workflow carries the
\* child's output upward: it is the workflow's.
EndCarriesChildOutput ==
  pc = "closed" /\ result \in {"completed", "endSignalled"} /\ pos \in Pos
    /\ plan[pos].kind = "child" => output = pos

\* Every workflow closes, even if each of its tasks alone makes the history
\* longer than the limit: a run that skips what is done gets one task further.
Termination == RoomToRewind => <>(pc = "closed")

\* Continue-As-New is a stuttering step of the program: while a run still skips
\* what earlier runs did, the program is at the resume point, and while the
\* loop passes over tasks, it is at the target.
Program == INSTANCE TaskProgram WITH
  Plans <- {list.tasks : list \in Lists},
  at <- IF canFrom # 0 THEN canFrom ELSE IF next # 0 THEN next ELSE pos,
  st <- CASE pc \in {"begin", "iterate"} -> "ready"
          [] pc \in {"running", "redirect"} -> "busy"
          [] pc = "closed" -> "closed"

\* Each step of the executor is one of the program or leaves it where it is,
\* and it starts where the program does.
ImplementsProgram ==
  Program!Init /\ [][RoomToRewind => Program!Next]_(Program!vars)
=============================================================================
