------------------------------- MODULE Scopes -------------------------------
(***************************************************************************)
(* Task lists within task lists: the bodies of for, try and inline do run  *)
(* in the execution of the workflow they are in, each on a state that is   *)
(* the enclosing one (do) or a clone of it (for, try, catch). This is how  *)
(* results, errors, `exit`, `end` and cancellation get from a list to its  *)
(* owner, and which state each list sees.                                  *)
(*                                                                         *)
(* A program is a tree of tasks, numbered as they are written, so that an  *)
(* owner comes before what is in its lists. The values of $output and      *)
(* $context are abstracted to the task that wrote them (0: none), $data to *)
(* the keys that are in it. Conditions, jumps and Continue-As-New are in   *)
(* TaskList.                                                               *)
(***************************************************************************)
EXTENDS Naturals, FiniteSetsExt

CONSTANTS
  N,         \* number of tasks in a program
  MaxItems,  \* bound: items in the collection of a for task
  Programs   \* programs of a workflow without a parent, and of one with

Task  == 1 .. N
Lists == {<<0, "body">>} \cup (Task \X {"body", "catch"})
Root  == <<0, "body">>

Body(t)  == <<t, "body">>
Catch(t) == <<t, "catch">>

\* leaf: an activity, a timer, a listener or a child workflow; route: a switch,
\* or a child workflow that may end its parent.
Kind == {"leaf", "route", "do", "for", "try"}

\* nested is DoTaskOpts.Nested of the lists that the task owns.
Definition == [kind : Kind, list : Lists, then : {"none", "exit", "end"},
               shapes : BOOLEAN, exports : BOOLEAN, nested : BOOLEAN]

TasksOf(p, l) == {t \in Task : p[t].list = l}

NestedIn(p, l) == l # Root /\ p[l[1]].nested

\* What Build makes of a document: a do task that comes after another kind of
\* task is not part of the list, a list is not empty, and a do task is nested
\* in a nested list only.
Built(p) ==
  /\ TasksOf(p, Root) # {}
  /\ \A t \in Task :
       /\ p[t].list[1] < t
       /\ (TasksOf(p, Body(t)) # {}) <=> p[t].kind \in {"do", "for", "try"}
       /\ (TasksOf(p, Catch(t)) # {}) <=> p[t].kind = "try"
       /\ p[t].kind = "do" =>
            /\ \A u \in TasksOf(p, p[t].list) : u < t => p[u].kind = "do"
            /\ p[t].nested = NestedIn(p, p[t].list)
       /\ p[t].kind \in {"for", "try"} => p[t].nested

ASSUME ScopesAssumption ==
  /\ N \in Nat \ {0}
  /\ MaxItems \in Nat
  /\ Programs \in [BOOLEAN -> SUBSET {p \in [Task -> Definition] : Built(p)}]

\* A list's state, and the workingState of a for task.
Cells   == Lists \cup (Task \X {"working"})
Working(t) == <<t, "working">>
Facts   == {"result", "item", "error"} \X Task
State   == [output : 0 .. N, context : 0 .. N, data : SUBSET Facts]
Outcome == {"ok", "end", "endSignalled", "failed", "canceled"}

VARIABLES
  prog,       \* the program; never changes
  isRoot,     \* isRootWorkflow; never changes
  pc,         \* what the workflow does next
  at,         \* the task it does it to; the owner of the list that returns
  ret,        \* the list that returned last, how, and with which output
  ptr,        \* the cell that a list's state pointer refers to
  heap,       \* the states
  iteration,  \* iterations of a for task so far
  cancelReq,  \* cancellation of the workflow has been requested
  raised,     \* history: the task whose directive is ending the workflow, if
              \* any, and $output at that point
  fault,      \* history: the task whose failure is on its way up, or 0
  aborted,    \* history: a task was cancelled with the workflow
  entry       \* history: the state around a task when it was started

control == <<pc, at, ret>>
program == <<prog, isRoot>>
history == <<raised, fault, aborted, entry>>
vars == <<program, control, ptr, heap, iteration, cancelReq, history>>

NoState == [output |-> 0, context |-> 0, data |-> {}]
NotRaised == [task |-> 0, output |-> 0]

TypeOK ==
  /\ prog \in [Task -> Definition]
  /\ isRoot \in BOOLEAN
  /\ pc \in {"visit", "leaf", "iterate", "return", "closed"}
  /\ at \in 0 .. N
  /\ ret \in [list : Lists, outcome : Outcome, output : 0 .. N]
  /\ ptr \in [Lists -> Cells]
  /\ heap \in [Cells -> State]
  /\ iteration \in [Task -> Nat]
  /\ cancelReq \in BOOLEAN
  /\ raised \in [task : 0 .. N, output : 0 .. N]
  /\ fault \in 0 .. N
  /\ aborted \in BOOLEAN
  /\ entry \in [Task -> State]
  /\ pc \in {"visit", "leaf", "iterate"} => at \in Task
  /\ pc = "leaf" => prog[at].kind \in {"leaf", "route"}
  /\ pc = "iterate" => prog[at].kind = "for"
  /\ pc \in {"return", "closed"} => at = ret.list[1]

First(l) == Min(TasksOf(prog, l))

Init ==
  /\ isRoot \in BOOLEAN
  /\ prog \in Programs[isRoot]
  /\ pc = "visit"
  /\ at = First(Root)
  /\ ret = [list |-> Root, outcome |-> "ok", output |-> 0]
  /\ ptr = [l \in Lists |-> l]
  /\ heap = [c \in Cells |-> NoState]
  /\ iteration = [t \in Task |-> 0]
  /\ cancelReq = FALSE
  /\ raised = NotRaised
  /\ fault = 0
  /\ aborted = FALSE
  /\ entry = [t \in Task |-> NoState]

-----------------------------------------------------------------------------
(* The tree *)

ListOf(t) == prog[t].list

\* The tasks that t is in, from the outermost.
Around[t \in 0 .. N] ==
  IF t = 0 \/ ListOf(t)[1] = 0
  THEN {}
  ELSE {ListOf(t)[1]} \cup Around[ListOf(t)[1]]

Nested(l) == NestedIn(prog, l)

Later(t) == {u \in TasksOf(prog, ListOf(t)) : t < u}

\* The state that the list of t works on.
Here(t) == heap[ptr[ListOf(t)]]

-----------------------------------------------------------------------------
(* Helpers *)

\* workflowExecutor turns the `end` of a list that is not nested into the
\* completion of the workflow, or into an error that its parent decodes.
Executed(l, how) ==
  IF how = "end" /\ ~Nested(l)
  THEN IF isRoot THEN "ok" ELSE "endSignalled"
  ELSE how

Return(l, how, output) ==
  /\ pc' = "return"
  /\ at' = l[1]
  /\ ret' = [list |-> l, outcome |-> Executed(l, how), output |-> output]

\* A list whose state is already in its cell starts.
Enter(l) ==
  /\ pc' = "visit"
  /\ at' = First(l)
  /\ UNCHANGED ret

\* Task t fails itself: a deliberate end that was on its way is lost with it.
Fail(t, how) ==
  /\ Return(ListOf(t), how, 0)
  /\ fault' = t
  /\ raised' = NotRaised

\* processTaskOutput and processTaskExport on state s of the list of t.
Recorded(s, t, output, controlOnly) ==
  [s EXCEPT
     !.output = IF prog[t].shapes THEN t ELSE IF controlOnly THEN @ ELSE output,
     !.context = IF prog[t].exports THEN t ELSE @]

\* The directive is carried out in the list of t, whose output then is v.
Dispatch(t, directive, v) ==
  \/ directive = "end" /\ Return(ListOf(t), "end", v)
  \/ /\ directive = "exit" \/ (directive = "none" /\ Later(t) = {})
     /\ Return(ListOf(t), "ok", v)
  \/ /\ directive = "none" /\ Later(t) # {}
     /\ pc' = "visit"
     /\ at' = Min(Later(t))
     /\ UNCHANGED ret

\* runTaskAndHandleFlow once the task function has returned output and
\* directive d, and has left the state of its list as s.
Finish(t, output, d, s) ==
  LET after == Recorded(s, t, output, d # "none")
      directive == IF d # "none" THEN d ELSE prog[t].then
  IN
  \/ /\ heap' = [heap EXCEPT ![ptr[ListOf(t)]] = after]
     /\ Dispatch(t, directive, after.output)
     /\ raised' = IF directive = "end" /\ raised = NotRaised
                  THEN [task |-> t, output |-> after.output]
                  ELSE raised
     /\ UNCHANGED fault
  \/ \* the output or export expression is in error
     /\ prog[t].shapes \/ prog[t].exports
     /\ heap' = [heap EXCEPT ![ptr[ListOf(t)]] =
                   [s EXCEPT !.output = after.output]]
     /\ Fail(t, "failed")

-----------------------------------------------------------------------------
(* A task is started *)

Visit(kind) == pc = "visit" /\ prog[at].kind = kind

Remember == entry' = [entry EXCEPT ![at] = Here(at)]

VisitLeaf ==
  /\ Visit("leaf") \/ Visit("route")
  /\ pc' = "leaf"
  /\ UNCHANGED <<program, at, ret, ptr, heap, iteration, cancelReq, history>>

\* The task's `if`, input or metadata is in error, or the collection of a for
\* task cannot be iterated.
RejectTask ==
  /\ pc = "visit"
  /\ Fail(at, "failed")
  /\ UNCHANGED <<program, ptr, heap, iteration, cancelReq, aborted, entry>>

VisitDo ==
  /\ Visit("do")
  /\ ptr' = [ptr EXCEPT ![Body(at)] = ptr[ListOf(at)]]
  /\ Remember
  /\ Enter(Body(at))
  /\ UNCHANGED <<program, heap, iteration, cancelReq, raised, fault, aborted>>

\* Mutant: the body runs on the state of the enclosing list.
VisitTryInPlace ==
  /\ Visit("try")
  /\ ptr' = [ptr EXCEPT ![Body(at)] = ptr[ListOf(at)]]
  /\ Remember
  /\ Enter(Body(at))
  /\ UNCHANGED <<program, heap, iteration, cancelReq, raised, fault, aborted>>

VisitTry ==
  /\ Visit("try")
  /\ heap' = [heap EXCEPT ![Body(at)] = Here(at)]
  /\ Remember
  /\ Enter(Body(at))
  /\ UNCHANGED <<program, ptr, iteration, cancelReq, raised, fault, aborted>>

VisitFor ==
  /\ Visit("for")
  /\ heap' = [heap EXCEPT ![Working(at)] = [Here(at) EXCEPT !.output = 0]]
  /\ iteration' = [iteration EXCEPT ![at] = 0]
  /\ pc' = "iterate"
  /\ Remember
  /\ UNCHANGED <<program, at, ret, ptr, cancelReq, raised, fault, aborted>>

-----------------------------------------------------------------------------
(* A task without a list of its own *)

\* Calls and runs add their result to the data; a switch may emit a directive.
LeafReturns ==
  /\ pc = "leaf"
  /\ \/ /\ prog[at].kind = "leaf"
        /\ Finish(at, at, "none",
                  [Here(at) EXCEPT !.data = @ \cup {<<"result", at>>}])
     \/ /\ prog[at].kind = "route"
        /\ \E d \in {"none", "exit", "end"} : Finish(at, at, d, Here(at))
  /\ UNCHANGED <<program, ptr, iteration, cancelReq, aborted, entry>>

LeafFails ==
  /\ pc = "leaf"
  /\ Fail(at, "failed")
  /\ UNCHANGED <<program, ptr, heap, iteration, cancelReq, aborted, entry>>

\* A child workflow may also be cancelled on its own.
LeafCancelled ==
  /\ pc = "leaf"
  /\ prog[at].kind = "leaf"
  /\ Fail(at, "canceled")
  /\ aborted' = cancelReq
  /\ UNCHANGED <<program, ptr, heap, iteration, cancelReq, entry>>

-----------------------------------------------------------------------------
(* for *)

\* iterator: the body gets a clone of workingState with the item in it.
StartIteration ==
  /\ pc = "iterate"
  /\ iteration[at] < MaxItems
  /\ heap' = [heap EXCEPT ![Body(at)] =
                [heap[Working(at)] EXCEPT !.output = 0,
                                          !.data = @ \cup {<<"item", at>>}]]
  /\ Enter(Body(at))
  /\ UNCHANGED <<program, ptr, iteration, cancelReq, history>>

\* There are no more items, or `while` is false. The results become the output.
EndLoop ==
  /\ pc = "iterate"
  /\ Finish(at, at, "none", [Here(at) EXCEPT !.output = at])
  /\ UNCHANGED <<program, ptr, iteration, cancelReq, aborted, entry>>

\* The `while` expression is in error.
LoopFails ==
  /\ pc = "iterate"
  /\ Fail(at, "failed")
  /\ UNCHANGED <<program, ptr, heap, iteration, cancelReq, aborted, entry>>

-----------------------------------------------------------------------------
(* A list returns to its owner *)

Returned(l, how) == pc = "return" /\ ret.list = l /\ ret.outcome \in how

Failure == {"failed", "canceled", "endSignalled"}

\* The owner returns the error of its list, wrapped.
PassOn ==
  /\ pc' = "return"
  /\ at' = ListOf(at)[1]
  /\ ret' = [ret EXCEPT !.list = ListOf(at)]
  /\ UNCHANGED <<heap, raised, fault>>

DoReturns ==
  /\ at # 0
  /\ prog[at].kind = "do"
  /\ \/ Returned(Body(at), {"ok"}) /\ Finish(at, ret.output, "none", Here(at))
     \/ Returned(Body(at), {"end"}) /\ Finish(at, ret.output, "end", Here(at))
     \/ Returned(Body(at), Failure) /\ PassOn
  /\ UNCHANGED <<program, ptr, iteration, cancelReq, aborted, entry>>

\* Of the iteration's state only the context and the output are kept, and its
\* result becomes data for the next one.
IterationSucceeds ==
  /\ Returned(Body(at), {"ok"})
  /\ heap' = [heap EXCEPT ![Working(at)] =
                [output |-> ret.output,
                 context |-> heap[Body(at)].context,
                 data |-> @.data \cup {<<"result", at>>}]]
  /\ iteration' = [iteration EXCEPT ![at] = @ + 1]
  /\ pc' = "iterate"
  /\ UNCHANGED <<at, ret, raised, fault>>

\* Mutant: the output that an iteration ended with is not put into the state.
IterationEndsSilently ==
  /\ Returned(Body(at), {"end"})
  /\ Finish(at, ret.output, "end", Here(at))
  /\ UNCHANGED iteration

IterationEnds ==
  /\ Returned(Body(at), {"end"})
  /\ Finish(at, ret.output, "end", [Here(at) EXCEPT !.output = ret.output])
  /\ UNCHANGED iteration

ForReturns ==
  /\ at # 0
  /\ prog[at].kind = "for"
  /\ \/ IterationSucceeds
     \/ IterationEnds
     \/ Returned(Body(at), Failure) /\ PassOn /\ UNCHANGED iteration
  /\ UNCHANGED <<program, ptr, cancelReq, aborted, entry>>

\* propagateEnd
PropagateEnd ==
  Finish(at, ret.output, "end", [Here(at) EXCEPT !.output = ret.output])

\* The catch runs on a fresh clone of the enclosing state, with the error.
StartCatch ==
  /\ heap' = [heap EXCEPT ![Catch(at)] =
                [Here(at) EXCEPT !.data = @ \cup {<<"error", at>>}]]
  /\ Enter(Catch(at))
  /\ fault' = 0
  /\ UNCHANGED raised

\* Mutant: `end` is an error like any other.
TryReturnsCatchingEnd ==
  \/ Returned(Body(at), {"ok"}) /\ Finish(at, ret.output, "none", Here(at))
  \/ Returned(Body(at), Failure \cup {"end"}) /\ cancelReq /\ PassOn
  \/ Returned(Body(at), Failure \cup {"end"}) /\ ~cancelReq /\ StartCatch

\* Mutant: it is not asked whether the workflow was cancelled.
TryReturnsCatchingCancellation ==
  \/ Returned(Body(at), {"ok"}) /\ Finish(at, ret.output, "none", Here(at))
  \/ Returned(Body(at), {"end"}) /\ PropagateEnd
  \/ Returned(Body(at), Failure) /\ StartCatch

\* Mutant: what looks like a cancellation is one of the workflow.
TryReturnsByError ==
  \/ Returned(Body(at), {"ok"}) /\ Finish(at, ret.output, "none", Here(at))
  \/ Returned(Body(at), {"end"}) /\ PropagateEnd
  \/ Returned(Body(at), {"canceled"}) /\ PassOn
  \/ Returned(Body(at), Failure \ {"canceled"}) /\ StartCatch

\* A try body that returns an error of any kind when the workflow has been
\* cancelled returns no output with it, and the catch does not run.
TryBodyReturns ==
  \/ Returned(Body(at), {"ok"}) /\ Finish(at, ret.output, "none", Here(at))
  \/ Returned(Body(at), {"end"}) /\ ~cancelReq /\ PropagateEnd
  \/ Returned(Body(at), {"end"}) /\ cancelReq /\ Finish(at, 0, "end", Here(at))
  \/ Returned(Body(at), Failure) /\ ~cancelReq /\ StartCatch
  \/ Returned(Body(at), Failure) /\ cancelReq /\ PassOn

CatchReturns ==
  \/ Returned(Catch(at), {"ok"}) /\ Finish(at, ret.output, "none", Here(at))
  \/ Returned(Catch(at), {"end"}) /\ PropagateEnd
  \/ Returned(Catch(at), Failure) /\ PassOn

TryReturns ==
  /\ at # 0
  /\ prog[at].kind = "try"
  /\ TryBodyReturns \/ CatchReturns
  /\ UNCHANGED <<program, ptr, iteration, cancelReq, aborted, entry>>

RootReturns ==
  /\ pc = "return"
  /\ ret.list = Root
  /\ pc' = "closed"
  /\ UNCHANGED <<program, at, ret, ptr, heap, iteration, cancelReq, history>>

-----------------------------------------------------------------------------
(* The environment. The workflow's code runs without interruption from one *)
(* leaf to the next.                                                       *)

RequestCancel ==
  /\ pc = "leaf"
  /\ ~cancelReq
  /\ cancelReq' = TRUE
  /\ UNCHANGED <<program, control, ptr, heap, iteration, history>>

Terminated ==
  /\ pc = "closed"
  /\ UNCHANGED vars

Start == VisitLeaf \/ RejectTask \/ VisitDo \/ VisitTry \/ VisitFor

Leaf == LeafReturns \/ LeafFails \/ LeafCancelled

Loop == StartIteration \/ EndLoop \/ LoopFails

Owner == DoReturns \/ ForReturns \/ TryReturns \/ RootReturns

Code == Start \/ Leaf \/ Loop \/ Owner

Next == Code \/ RequestCancel \/ Terminated

Spec == Init /\ [][Next]_vars

-----------------------------------------------------------------------------
(* Properties *)

\* Once a directive has ended the workflow, however deep it is, no further task
\* is started: no later one, no further iteration, and no catch.
EndIsFinal == raised # NotRaised => pc \in {"return", "closed"}

\* The tasks around the one that ended the workflow whose `output` is applied
\* to what it ended with.
Shapers ==
  {a \in Around[raised.task] : prog[a].shapes /\ Nested(Body(a))}

\* The workflow ends with the output that the ending list had, or with what the
\* outermost enclosing task makes of it, and not as a failure.
EndKeepsOutput ==
  pc = "closed" /\ raised # NotRaised /\ ~cancelReq =>
    /\ ret.outcome \in {"ok", "endSignalled"}
    /\ ret.output = IF Shapers = {} THEN raised.output ELSE Min(Shapers)

\* Once a task has been cancelled with the workflow, no further task is started
\* and the workflow closes as cancelled, whatever lists it is in.
CancellationWins ==
  aborted =>
    /\ pc \in {"return", "closed"}
    /\ pc = "closed" => ret.outcome = "canceled"

Active(t) ==
  \/ t \in Around[at]
  \/ t = at /\ pc \in {"iterate", "return"}

\* What a for or try does inside does not leave it: until it has returned, the
\* $context and $data around it are those that it started with, and then only
\* its own export is added.
Isolated ==
  [][\A t \in Task :
       Active(t) /\ prog[t].kind \in {"for", "try"} =>
         LET s == heap'[ptr[ListOf(t)]] IN
         /\ s.data = entry[t].data
         /\ s.context \in {entry[t].context} \cup IF prog[t].exports THEN {t} ELSE {}]_vars

Starts(l) == pc' = "visit" /\ ListOf(at') = l /\ at' = First(l)

\* The try tasks that have task u in their body.
Handlers(u) ==
  {t \in Around[u] :
     prog[t].kind = "try" /\ \E v \in TasksOf(prog, Body(t)) :
                               v = u \/ v \in Around[u]}

\* A failure is caught by the innermost try that has it in its body, and only
\* one that is in none, or a cancelled workflow's, reaches the workflow.
NearestCatch ==
  [][/\ \A t \in Task :
          Returned(Body(t), Outcome) /\ Starts(Catch(t)) =>
            /\ fault # 0
            /\ t = Max(Handlers(fault))
     /\ pc' = "closed" /\ fault # 0 => cancelReq \/ Handlers(fault) = {}]_vars
=============================================================================
