# Formal models of Zigflow

Zigflow interprets Open Workflow Specification documents as Temporal workflows.
A document's `do` list becomes a Temporal workflow function that is a loop over
task functions; `zigflow run` is a process that registers these functions on
Temporal workers and keeps them running.

This directory holds TLA+ models of the parts whose control is hard to get
right, the TLC configurations that check them on small instances, and TLAPS
proofs about them. All paths below are relative to the root of the repository.

- [The system](#the-system): components, state, operations, interactions
- [The models](#the-models): which module models what, and how
- [What is checked](#what-is-checked): runs, bounds, fairness
- [What is proved](#what-is-proved)
- [What the code does not keep](#what-the-code-does-not-keep)
- [What is not modelled](#what-is-not-modelled)
- [Plan](#plan)

To check everything: `tlc -config MCTaskList_lists.cfg MCTaskList` (and so on for
each `.cfg`, whose name starts with its module's), `tlapm TaskListProofs.tla`,
`tlapm ForkProofs.tla`, `tlapm RunnerProofs.tla`, `tlapm ScopesProofs.tla`,
`tlapm ActivitiesProofs.tla`, `tlapm ListenProofs.tla`, `tlapm RolloutProofs.tla`,
`tlapm DocumentsProofs.tla`. The modules use nothing but the standard and community
modules.

## The system

| Component | State | Operations | Interacts with |
|---|---|---|---|
| `do` list executor (`pkg/zigflow/tasks/task_builder_do.go`) | `utils.State` (input, data, output, context, `CANStartFrom`), the loop's index and `nextTargetName` | one visit per task: Continue-As-New check, skip check, target check, `if`, start; then output, export, flow directive | every task builder, through `TemporalWorkflowFunc`; Temporal (Continue-As-New, cancellation) |
| `fork` (`task_builder_fork.go`, `pkg/utils/cancellable_futures.go`) | `forkState`: `replyErr`, `endSeen`, `endOutput`, `winningCtx`, `hasReplied`, `output` | start branches, handle a reply, await, cancel, drain | child workflows, whose IDs it makes up; the executor, through `flow.ErrEnd` |
| `listen` (`task_builder_listen.go`) | per event: accepted or not; a coroutine per signal, a handler per update and query; `$data` | register, receive, accept, abort, time out | signals, updates, queries; the enclosing `try` |
| `switch`, `for`, `try`, `run`, inline `do` | the state that they clone for their body | select, iterate, catch, start a child | the executor they sit in, and the one that they run |
| simple tasks (`set`, `wait`, `raise`, `call …`) | none | one activity, timer or evaluation | activities |
| loader, schema, validation, expressions (`pkg/zigflow/loader.go`, `pkg/utils`, `cmd/validate.go`, `pkg/mcp`) | none: a document in several stages | parse, check, normalise, post-load | `zigflow validate`, the MCP server and the runner each call the stages in an order of their own |
| build and registration (`workflow_builder.go`, `nested_do.go`, `task_builder*.go`) | `registered`: the names that one document has claimed, the activities of one worker | build the task functions, register nested lists and activities | the SDK's worker, which has a registry of its own |
| activities (`pkg/zigflow/activities`, `pkg/utils/activity_inputs.go`) | processes, containers, Kubernetes Jobs, directories | resolve inputs, start, wait, read, clean up | the workflow, which resolves what it can; Temporal's time-outs and retries; the Docker daemon and the cluster |
| metadata (`pkg/zigflow/metadata`) | `defaultRetryPolicy`, one for the process | activity options, heartbeats | every activity that is scheduled |
| runner (`cmd/run`) | running workers, file watches, changed files, the debounce timer | load, build, start; reload; stop | Temporal, the file system, signals |
| schedules (`pkg/zigflow/schedules.go`) | none of its own; schedules at the server | list, delete, create | the runner, at startup; other replicas |
| CloudEvents, telemetry (`pkg/cloudevents`, `pkg/telemetry`) | clients, a counter | emit, count, heartbeat | the executor, while it runs and is replayed |
| graph (`pkg/graph`) | nodes seen | draw a document | the rules by which the executor picks tasks |
| metrics, interceptors, codec, external storage | counters, converters | wrap | Temporal |

Behaviours that are hard to test, and what makes each component correct:

- *Executor.* Continue-As-New may happen before any task. The next run starts the
  list over and skips what is done, so it must be invisible: every task runs
  once, in order, none is lost, and `$output` and `$context` are what one single
  run would have made them. Jumps, `exit`, `end`, conditions and failures
  interact with that.
- *Lists within lists.* The bodies of `for`, `try` and inline `do` run in the same
  execution, on a state that is shared, or cloned once or twice. An error, `exit`,
  `end` or a cancellation has to be handed on by every level, and mean the right
  thing there; no data may leak out of a clone.
- *Fork.* Branches close at any time, several in one workflow task; the order in
  which their goroutines run is not the same when history is replayed. A failure
  must not be masked by a winner or an `end`, no branch may be left behind, and
  the fork must return even if the branches that are left never would.
- *Listen.* Messages come before, during and after the listener, in the same
  workflow task as its timer or the cancellation. The coroutines outlive the
  task. No signal that is waited for may be lost, and what is returned must be
  what was accepted.
- *Documents.* Every check has to reach every task, whatever it is nested in, and
  the three readers have to agree; a list that no other executes must be found by
  who needs it, and an activity by its own name.
- *Expressions.* A clock or a random number that slips past the check changes a
  workflow when it is replayed. The inputs of an activity are evaluated partly in the
  workflow and partly in each attempt, and each of them must be evaluated once.
- *Activities.* An attempt that Temporal has given up on goes on; a worker dies and
  leaves its container or Job behind; a retry meets what was left. The workflow must
  get the output of the right attempt, and nothing may go on for ever.
- *Schedules.* Several replicas delete and create the same schedules as they start,
  from a list that lags behind; each may crash. In the end the schedules must be
  those of the version that runs.
- *CloudEvents and telemetry.* Workflow code is executed again after a crash; no event
  may be lost because of it or because one client fails, no run counted when it is
  replayed.
- *Graph.* It repeats rules of the executor, and must not fall behind them.
- *Runner.* Files change while they are read; every step of a reload may fail. The
  process must neither be left without workers nor leak any, and must end up
  serving what is on disk.

`PROJECT.json` lists these hazards line by line, with the property that covers
each.

## The models

### TaskList and TaskProgram

`TaskList` is the loop of `workflowExecutor` and `iterateTasks`, over the whole
chain of runs that Continue-As-New makes of one workflow. No two iterations
yield to Temporal between the check for Continue-As-New and the start of the
task, so that stretch is one action per outcome:

| Action | Code |
|---|---|
| `ContinueAsNew` | `shouldContinueAsNew`, then `NewContinueAsNewError` with `CANStartFrom` set. It is asked at every visit, also of a task that is about to be skipped. The next run has the same state but a fresh loop and a history of its own. |
| `SkipDone` | `shouldSkip` |
| `PassOver` | `nextTargetName` is set, and not to this task |
| `SkipIf`, `RejectTask`, `StartTask` | the `if`, errors of the set-up, and the call of the task function |
| `TaskReturns`, `TaskFaults`, `TaskCancelled`, `OutputInError` | `runTaskAndHandleFlow`: output and export, then `dispatchFlowDirective` |
| `StartRedirect`, `RedirectReturns`, `RedirectFails` | `executeRedirect`, which runs the case's target as a child workflow |
| `EndOfList` | the end of the loop; an unreached target is an error |

A task is a record of what the loop can tell apart: its kind, whether it has an
`if`, its `then` directive, and whether it shapes its output and exports. The
values of `$output` and `$context` are abstracted to the task that wrote them.
`started` and `waived` are history variables: how often each task was started,
and which ones the program itself said not to run.

`length` is the length of the run's history as far as `shouldContinueAsNew` can see it
(`Counted`): it begins with one of `Opening` (what has been recorded before a run's code
first executes, signals to it included), grows by one of `Growth` while a task is
blocked, and Continue-As-New is due when it is beyond the list's `limit`. The list of an
inline `do` may come back with three things that are none of the list's own directives
(`Faults`): a failure, the error by which a `do` that is not nested signals `end` to the
parent of its workflow, or that by which it continues as new, with which the chain goes on
as the `do`'s workflow and without the rest of this list (`handedOver`).

`TaskProgram` is what a `do` list promises its author, without Continue-As-New,
resume points or a rewinding loop. `TaskList!ImplementsProgram` maps each run
that is rewinding to the resume point or to the target that it will get to.

### Scopes

`Scopes` is what `TaskList` leaves opaque: lists within lists, in one execution and
one run. A program is a tree of tasks, numbered as they are written; `Built` says
what `Build` makes of a document (an inline `do` only comes first in its list, and
is nested where its list is). The code is not interrupted between two leaves, so
`RequestCancel` happens at leaves only.

`ptr` and `heap` are the pointers to `utils.State` and what they point to: `VisitDo`
gives the body the pointer of the enclosing list, `VisitTry` and `StartCatch` a clone,
and a `for` has two (`VisitFor` makes `workingState`, `StartIteration` a clone of it).
Of a state, `$output` and `$context` are abstracted to the task that wrote them, and
`$data` to its keys.

| Action | Code |
|---|---|
| `VisitLeaf`, `RejectTask`, `VisitDo`, `VisitTry`, `VisitFor` | `iterateTasks` up to the call of the task function, and the beginning of that function |
| `LeafReturns`, `LeafFails`, `LeafCancelled` | a task without a list of its own |
| `StartIteration`, `EndLoop`, `LoopFails` | `iterate`, `iterator` and `checkWhile` |
| `DoReturns`, `ForReturns`, `TryReturns`, `RootReturns` | the owner of a list after the list's `workflowExecutor` has returned to it: `IterationSucceeds` and `IterationEnds` in `for`; `TryBodyReturns` and `CatchReturns` in `try` |

`Return` and `Executed` are the end of `workflowExecutor`, which turns `end` into a
completion or a signal to the parent unless the list is nested. `Finish` is the rest
of `runTaskAndHandleFlow`: output, export, directive. `raised`, `fault`, `aborted`
and `entry` are history: who ended the workflow and with which output, whose failure
is on its way up, whether a task was cancelled with the workflow, and the state
around each task when it started. Conditions, jumps and Continue-As-New stay in
`TaskList`, of whose kinds "block" and "do" this module is the inside.

### Fork and ForkPromise

`Fork` is one `exec`. `BranchCloses` is a child workflow closing, `WorkflowTask`
the server handing everything that has happened to the workflow. Within a
workflow task, the root (`ReportError`, `ReportEnd`, `ReportOutput`,
`AwaitCancelled`, `Drained`, `Yield`, in the order that `exec` has) alternates
with the goroutines of the branches (`Goroutine`: `handleBranchError` and
`recordReply`) as the SDK's dispatcher schedules them. Since the goroutines are
started by a range over a map, `Goroutine` picks any of those that are ready;
`Replay` handles the same batch in another order. `rivals`, `culprits` and `enders` are
history: which branches could have been the winner, the error, or the `end` in some
order, and so after a replay.

`ForkPromise` is what a fork promises the list that it is in, without coroutines,
workflow tasks or `forkState`: branches close, and the fork returns once, with a result
that they account for. `Fork!ImplementsPromise` shows it nothing but the flag, how the
branches closed, the cancellation, and, when `exec` has returned, what it returned and
which branches that is from.

### Listen

`Listen` is a workflow of `M` listeners in a row. From outside come `Signal`,
`Update`, `TimerFires` and `CancelWorkflow`, between workflow tasks; in one, the
update handlers run first (their effect is part of `Update`), then the root, then
the signal coroutines (`Receive`, `Handle`), until all are blocked. `waiting` and
`buffer` are the SDK's channel: receivers in the order in which they blocked, and
signals that nobody has received. They are external code, modelled from how
`listen` uses them. `Verdict` is the `AwaitWithTimeout` and the checks behind it.
A listener that returns leaves its coroutines where they are, as in the code. `log` and
`heard` are history: the messages that have come, and those of them that had by the end of
the last workflow task.

### Runner

`Runner` is the one goroutine of `zigflow run`. `launchWorkers` is the actions
from `Discover` to `StartedAll`, shared by startup (`attempt = 0`) and reload; a
file is read (`Load`) one at a time, so it may change in between. Each step has
its failure: `LoadFails`, `BuildFails`, `StartFails` with `UndoStart`, and
`BuildPanics` for the SDK's panic when one worker is given a name twice. `TakeEvent`,
`Debounce` and `TakeInterrupt` are the cases of the `select`; `StopOld`, `Swapped`
and `Refresh` the rest of `handleDebounce`. From outside come edits and an
interrupt. A file's content is a version number; `QueueOf` says which task queue a
version names. A watch is on an inode, as inotify has it: writing in place makes
an event, moving a file away makes one and loses the watch, and putting another
file in its place loses the watch without an event that `isWatchableEvent`
accepts. Events wait in the watcher's channel while a reload runs.

### Activities

`Activities` is one activity from `executeActivity` or `executeCommand` to its end:
the workflow and Temporal (`InputsFail`, `StartAttempt`, `AttemptTimesOut`, `Cancel`,
`Settle`), its attempts, and what they have started. An attempt's code is
sequential; between any two steps its context may end (`ContextEnds`), its
worker may crash (`Crash`), and Temporal may start the next attempt.

| Action | Code |
|---|---|
| `PrepareFails`, `LaunchRefused` | errors before anything is started, and `PrepareErrors`: which of them are worth a retry |
| `Launch`, `LaunchUnsure` | `docker run`, `exec`, the request; `deployKubernetesJob`, whose answer may be lost |
| `Observes`, `Interrupted` | `runExecCommand`, `runDockerCommand`; the answer of an HTTP or gRPC call, and `ClassifyHTTPStatus` |
| `JobCompletes`, `WaitFails`, `ClusterFails`, `ReadLogs` | `waitForKubernetesJobCompletion`, `getJobLogs`, `newestPodControlledBy` |
| `CleanUp`, `CleanUpFails` | the deferred `deleteJob` and `os.RemoveAll` |
| `TickerPanics` | a heartbeat of zero |
| `BoxEnds`, `ClusterDeletes`, `ClusterExpires` | external: the process, the daemon, the cluster |

`cut` is history: how an attempt was cut short, which excuses what it has left. The
options do not ask Temporal to wait for a cancellation, so that the task returns at
once and the attempt goes on. Facts that the model rests on: a context that has ended
kills the `docker` command and not the container; an error of the Job's creation is
not retried; `await: false` means nothing to a command or a container.

### Metadata

`Metadata` is what happens to a task's metadata before it runs, in several workflow
executions of one process: `SetActivityOptions`, which starts from the package's defaults.
It is there for one question, whether a task's options stay its own, and the answer is
that they do not.

### Expressions, Names, ActivityInputs, Documents

`Expressions` has the syntax trees that gojq parses, as far as either the determinism
check or the evaluation can tell them apart, and beside each other what the check says
of one (`Issues`, `ClassifyName`, translated from `walkQuery` and its helpers) and what
jq makes of it (`Compiles`, `ReadsClock`, `ReadsActivity`, external: the scopes of jq). A
tree is a function from the places of its terms, so that a walk over it is a quantifier,
and the scope that the walk carries is the union of what the terms around a place declare
(`DeclaredAt`). `Misleads` is where the two kinds of scope differ.

`Names` has the escapes: how a workflow's type and a task's path become the name of its
activity, and a place in the inputs its JSON pointer.

`ActivityInputs` is the inputs of HTTP, gRPC and run activities: `ResolveActivityInputs`
evaluates in the workflow what does not depend on the attempt, replaces it, and
remembers by JSON pointers what is left; `EvaluateDeferredActivityInput` does the rest
in an attempt. A result is abstracted to what could go wrong with it: it reads like an
expression, JSON rounds it, it is null, or it fails. `Meant` is the reference.

`Documents` is a document with its readers. Its lists of tasks are a function from their
places too (`IsTree`): <<>> is the document's own list, and `Append(l, <<i, k>>)` is list k
of task i of the list at l. Every walk of the code over a document says which lists of a
task it enters (`NormalisedLists`, `BuilderLists`, `CollectedLists`, `WalkedLists`, each from
the function that does it), and `Reached` is where it comes. `IsDocument` is what is assumed
of the documents: that they have the shape of one, and of those that conform to the schema
what it requires of names. `Check`, `Load`, `Inspect` and `BuildWorker`
are the stages of `zigflow validate`, of the MCP server's `validate_workflow` and of `zigflow
run`; the file may be edited in between (`Edit`). The stages themselves are operators:
`NormaliseWorkflowDocument`, `PostLoad`, `Invalid` (Validate), `CollectExpressions`,
`NestedDoWarnings`, and `Build`, which gives each list and activity its path, registers
them and claims the names. What is then served is a workflow of which one
expression or activity is looked at (`Choose`): it is evaluated again when it is
replayed (`Evaluate`, while the clock ticks), or attempted (`Attempt`).

### Graph

`Graph` is `zigflow graph`: the nodes and edges that `mermaid.go` makes of a document
that has been loaded. A node keeps the task that it stands for, so that the diagram
can be compared with the tasks that `Documents` says the worker executes.

### Rollout

`Rollout` is several processes of `zigflow run` against one server. `Start`,
`GetScheduleInfo`, `DeleteOldSchedules` and `CreateSchedule` are the start of a replica, one
document after the other, and any call can fail because another replica was faster;
whoever runs the replicas starts them again and deploys newer versions. `Index` is the
server's list of schedules catching up. When a schedule fires, a workflow runs: the
replica that gets a workflow task executes the code from its beginning, if it does not
have it in its cache, and sends every event (`Emit`) to each client that is enabled;
`runs` and `reported` are what telemetry counts and what the last heartbeat said.

## What is checked

Runs that pass:

| Run | Instance | Properties |
|---|---|---|
| `lists` | every list of 3 tasks out of 7 shapes, no jumps, listeners or inline `do` tasks, that continues as new, with room to rewind and without; and every list of 3 tasks of any kind, with every jump, that does not; in a list that is not the root's | `NoReexecution`, `NothingDropped`, `WaivedStaysUnrun`, `Termination`, `ImplementsProgram` |
| `nest` | 6 trees of `for`, `try` and `do`, 6 tasks in up to three lists deep, with every pair of `exit`, `end`, `output` and `export` at any tasks; up to 2 iterations; with a parent and without | `EndIsFinal`, `EndKeepsOutput`, `CancellationWins`, `Isolated`, `NearestCatch` |
| `fork` | 3 branches, competing and not | `ClosedUnlessEnded`, `OutputIsSound`, `NoFailureMasked`, `Returns`, `ImplementsPromise` |
| `listen` | 2 listeners, 3 events, signals, updates and queries, `all` and `any`; 2 messages | `OutcomeFollowsMessages`, `NoSignalSleptThrough`, `DataIsAccepted`, `CancellationWins`, `Termination` |
| `reload` | 2 files, on two queues or on one; 3 edits, 1 interrupt, with and without `--watch` | `TypeOK`, `NeverUnserved`, `NoStrays`, `UpToDate`, `EditsSettle` |
| `activities` | an activity of each kind, with each lifetime and name of a container; 2 attempts, 1 fault | `OutputIsOwn`, `NothingLeft`, `NameIsFreed`, `SettlesDown` |
| `documents` | some 750 documents: every form of expression in every kind of place, every flaw in every kind of list, `do` tasks and switches in every order, every kind of result in every part of an input; three readers, one edit, two evaluations | `VerdictIsMeant`, `InputsAreMeant`, `NoListIsLost`, `DispatchIsOwn`, `DiagramIsTopology`, `ReplaySafe` |
| `rollout` | 2 replicas; 7 plans of up to three versions and two clients; 1 crash, 1 event that cannot be sent | `ServedIsScheduled`, `Settles`, `Accounted` |

*Bounds.* Three tasks are the fewest with a task before, at and after the point
where the chain stops, and a jump that passes over one. The lengths of histories are
scaled down: a task adds 0, 1 or 2 to one that begins with 3 or 4, so that with a limit
of 4 two tasks fit into a run, or none does and each run gets one task further, and with a
limit of 3 a run may be due to continue as new at its first visit, while it is still
rewinding, any number of times in a row. Nothing bounds the number of runs: a length
beyond the limit is as good as any other, and starts of one task are counted up to
`Often`, which is enough to see that there are two. Two iterations are the fewest with
something carried over from one to the next, and three lists the fewest with an owner
that is neither the innermost nor the outermost (a `try` between a failure and another
`try`, a loop between an `end` and the root). Three branches allow a winner, a
loser in the same workflow task and a branch that is still open. Two listeners
are the fewest with one left behind, and two messages the fewest for an event
that is rejected and then accepted, or for both events of an `all`. Three edits
allow one while an attempt reads, one while the next reads because of it, and a
move out and back. Two attempts are the fewest of which one can meet what the other has
left, and one fault, next to time-outs and contexts that end at any time, lets either of
them be the one that is cut short. Two evaluations are the fewest that can differ, and
the clock ticks once in between (`MaxAttempts`, `MaxClock` of `Documents`). The
documents are small, because each check is one walk: what matters is that every pair of
a kind of list and a kind of task comes up. Two replicas are the fewest that can race,
and three versions the fewest with one that cannot be served between two that can.
`MaxMessages` and `MaxEdits` bound the environment only.

TLC finds some 910,000 distinct states for `listen`, 760,000 for `nest`, 390,000 for
`activities`, 230,000 for `lists`, 72,000 for `documents` and 63,000 for `rollout`.

The lists of `lists` that continue as new have no listener, inline `do` or jump, and all
but `NothingDropped` are said of those with room to rewind (`RoomToRewind`), because the
code does not keep these properties there; `nest` for the same reason has no `end` in an
inline `do` at the beginning of a workflow without a parent, and the listeners of `listen`
share no event: see below.

*Fairness.* `TaskList!FairSpec`: a workflow task is scheduled as long as there is
something to do, and every task returns, which activity and listen timeouts see
to. `Fork!FairSpec`: a branch may run for ever, and only closes for certain once
it has been asked to cancel; what has happened reaches the workflow, and a
workflow task runs to its end. `Listen!FairSpec`: timers fire, and workflow tasks
are scheduled and run to their end; nothing is assumed about messages.
`Runner!FairSpec`: the goroutine runs, and calls to Temporal and the file system
return; nothing is assumed about edits or interrupts. It may idle in its select
when it has nothing to do (`Idle`). `Activities!FairSpec`: Temporal starts attempts and
times them out, an attempt's code goes on, its context ends at the latest at its deadline,
and the cluster deletes what it is asked to; what an attempt has started may run for
ever. `Rollout!Spec`: replicas that are down are started again and those of an older
version stopped, which is what a Kubernetes deployment does; their code goes on, and
the list of schedules catches up. Nothing is assumed about faults or deployments.
`Documents` needs none.

## What is proved

For every value of the constants, under the assumptions named in each module
(`TaskListAssumption`, `ForkAssumption`, `RunnerAssumption`, `ScopesAssumption`,
`ActivitiesAssumption`, `ListenAssumption`, `RolloutAssumption`, `BuiltinsAssumption`,
`DocumentsAssumption`), which only say what the constants are: that the allow-list of
`Expressions` has no builtin that reads the clock, for instance. What a theorem assumes
beyond that is a hypothesis in its statement, and named below.

`TaskListProofs`, for any set of lists of any length, with any limits, and for histories that
begin with and grow by anything:

- `TypeCorrect`.
- `RunsOnce` (`NoReexecution`), `DropsNothing` (`NothingDropped`) and
  `StartsInOrder` (`InOrder`, which no run checks) under `Transparent`: a list that may
  continue as new has no listener or inline `do`. Without it they are false. The first and
  the last are also about runs with room to rewind only (`RoomToRewind`, in the property);
  `DropsNothing` is not: a resume point that moves back makes the code run tasks again, but
  lose none.

`NothingDropped` is not inductive: whether a task was dropped depends on where the
list resumes. The invariant `IInv` adds `Skippable` (what `Transparent` gives for
each task), `ControlOK` (a resume point or a pending target is never behind the
loop and only there between tasks; with room to rewind, Continue-As-New is not due before
the resume point), `StartedBeforeFront` (with room to rewind, whatever has been started
lies before the front, which is the resume point or the index) and
`AccountedBeforeFront` (whatever lies before it was started or waived, unless the target of
a jump has been missed and the list is bound to fail). `Once` follows from
`StartedBeforeFront`: a task is started at the front, where none has been.

Two more, under `Straight` (a list that may continue as new has no listener, inline `do` or
jump) and `Shaping` (every child workflow has an `output`), without which the code
does not keep them, and again where there is room to rewind:

- `ImplementsTaskProgram` (`ImplementsProgram`, so far as it is safety, and
  `TaskProgram` has no fairness): each step of the executor is one of the program, or
  leaves it where it is. Needs both.
- `WaivesForGood` (`WaivedStaysUnrun`), under `Straight`.

`JInv` adds `JumpsStay` (where a list may continue as new nothing is pending), `WaivedAhead` (what was
left out is behind the loop or about to be passed over) and `Routing` (a redirect is a
switch's). The step lemmas follow the executor: `VisitImplements` for the loop, where a
step back to the beginning of the list is a stutter because the resume point stands for
the position, `FinishImplements` for what a task returns.

`ScopesProofs`, for any programs, that is trees of any size and depth, and any number
of iterations:

- `TypeCorrect`: the list that runs is one of the program, and a list that returns
  finds its owner in the place where that waits for it.
- `CancellationGetsOut` (`CancellationWins`).

These two need no induction on the tree: `CancellationOnItsWay` says of the list that
returns just now how it returned, and every owner hands that on.

Its second half needs to know where in the tree a list is:

- `NearestTryCatches` (`NearestCatch`) and `BodiesAreIsolated` (`Isolated`).
- `EndGetsOut` (`EndIsFinal`) and `EndKeepsItsOutput` (`EndKeepsOutput`) under
  `EndsOutsideDo`: in a workflow without a parent, the `do` tasks that lead its list hold
  no `end`. Without it they are false (`end_in_do`).

`Around`, the tasks around a task, is a recursive function on the numbers of tasks. That
its recursion has a solution (`AroundExists`), and that what holds of a task if it holds
of its owner holds of all (`TreeInduction`), is shown by a least counterexample: a task
comes after its owner. Each step then only has to look at one list and its owner:

- `FaultInv`: the list that a failure is leaving is around the failed task, and no `try`
  that could have caught it is left behind.
- `IsolationInv`: a list's pointer leads to itself or to a list further out (`PointersUp`),
  and the state around each `for` and `try` that runs is the one that it started with
  (`KeptAround`). What a body writes through its pointer is therefore never around it.
- `EndingInv`: the list that an `end` is leaving returns it, with the output that the
  outermost shaping task so far has made (`EndOnItsWay` and `MadeOutput`), and
  nothing else does (`EndIsRaised`, `EndSignalledAtRoot`). It takes `OutputKept`, that a
  list which returns has its output in its own state, and `PointersUp`.

`ForkProofs`, for any set of branches:

- `TypeCorrect`.
- `LeavesNothingRunning` (`ClosedUnlessEnded`), `ReturnsSoundOutput`
  (`OutputIsSound`) and `MasksNoFailure` (`NoFailureMasked`).

`IInv` adds `Stages` (which exits go with which stage, and that a fork which has
returned for another reason than `end` has seen every branch), `Turns` (a batch is
only left to do while coroutines run), `Handled` (every branch that is seen and not
to do has had its effect on `forkState`, whatever the order), and `Alternatives`
and `Contributions` (a replay can only change the winner to a rival that completed,
and the output with it).

- `ImplementsForkPromise` (`ImplementsPromise`): each step of the coroutines is one of
  `ForkPromise`, or leaves it where it is. `Drained` is where a failure, a winner and a
  cancellation become the result, `ReportEnd` and `ReportOutput` where the others do. It
  takes one invariant more, `Blames`: whoever a replay may put in the place of
  `replyErr` has closed as it did, and what is going to be returned has its reason.

`RunnerProofs`, for any files, any task queues and any number of edits:

- `TypeCorrect`, which says among other things that in the select of the watch loop
  the debounce timer runs exactly when there is a change to act on.
- `StaysServed` (`NeverUnserved`), `LeavesNoStrays` (`NoStrays`) and `MissesNoEdit`
  (`UpToDate`).

`IInv` adds `Timer` (the timer is stopped outside the select), `Phases` (what has
been loaded by when), `Generations` (the workers of an attempt are not those of an
earlier one), `Crew` (which workers run at each point of an attempt, next to those
the process answers for), `Noticed` and `UpToDateSoFar`. The last two are the
argument for `UpToDate`: at any point, a file whose content is not what the
attempt noticed, or has read, or what is served, has an event in the channel, or is
in `changedFiles` while the loop is in its select and will act on it.

`ActivitiesProofs`, for any set of tasks, any number of attempts and any number of
faults:

- `TypeCorrect`.
- `GetsOwnOutput` (`OutputIsOwn`), `LeavesNothing` (`NothingLeft`) and `FindsNameFree`
  (`NameIsFreed`).

`IInv` adds `ReadsOwn` and `OnePod` (what an attempt reports is what it has read from
the pod that its own Job owns, and a Job has one), `Boxes` and `Leftovers` (where the box
of each kind of task can be, and who has still to remove it), `Superseded` (Temporal
goes on to an attempt only when the one before is gone or was cut short, so that a name
that is taken is one of those), and `Excuses` (which kinds can be cut short how).

`ListenProofs`, for any number of listeners to any events, queries and events in common
included, and any number of messages:

- `TypeCorrect`, which says among other things that a signal is only buffered when no
  coroutine waits for it.
- `SleepsThroughNoSignal` (`NoSignalSleptThrough`), `KeepsAcceptedData` (`DataIsAccepted`) and
  `CancellationCloses` (`CancellationWins`).
- `FollowsMessages` (`OutcomeFollowsMessages`) under `Apart`: no two listeners have a signal
  or an update in common. Without it they take messages from each other.

`IInv` adds `Started` (who has a coroutine or a handler), `Queued` (the receivers that
wait in a channel are the coroutines that are blocked in it, each of them once: a
listener that returned leaves its own there, ahead of a later listener's), `Ended` (a
coroutine ends with its signal accepted or in error, and no accepted signal leaves one),
`LastIsAccepted` (the signal that completes a listener is the last that it stores) and
`Quiet` (a workflow task runs until every coroutine is blocked). `FollowsMessages` takes
`HInv`, which follows each message from the `log` to what becomes of it: nothing is
accepted, buffered or in a coroutine's hands that has not come (`Backed`), every acceptable
message has been accepted or is on its way through the channel (`Delivered`), and what was
`heard` has been accepted once the timer can fire (`Settled`), since a workflow task only ends
when all coroutines are blocked.

`RolloutProofs`, for any replicas and any plan, with any number of versions, crashes and
failures:

- `LeavesItsSchedules` (`ServedIsScheduled`) under `DistinctIDs` and `RemovalsAreSeen`.

Both hypotheses are about what is deployed, and the code gives neither. `DistinctIDs`:
the documents of one version have IDs of their own (the default ID is made of the
workflow type alone). `RemovalsAreSeen`: if the list of schedules lags behind, no version
takes a schedule away that an earlier one asked for, since a start deletes only what it
is shown.

The argument is `LastHandles`. `Handled(p, i)` says that a replica of the deployed version
will not touch the schedule of the `i`-th document again; once that is so of every
replica, the schedule is as the document asks. Whoever is the last to get there has
created it itself, or has found nothing to delete for a document that asks for none:
then there is nothing, because the list is up to date (`IndexInv`) or because
nobody has ever asked for it (`Origins`). Whoever comes later and would change it is not
done with it. A replica of an older version keeps the premise false, whatever it does.

`DocumentsProofs`, for any documents, of any size and nesting and with any expressions,
and for keys of any length over any set of characters:

- `ActivityNamesAreDistinct`: what the comment on `joinActivityNameSegments` says, that
  distinct task paths always produce distinct activity names; a name determines the
  workflow type too.
- `PointersAreDistinct`, the same of the JSON Pointers by which an activity's inputs are
  left for its attempts.
- `VerdictsAreMeant` (`VerdictIsMeant`), `ListsAreNotLost` (`NoListIsLost`) and
  `ActivityInputsAreMeant` (`InputsAreMeant`).
- `ReplaysAreSafe` (`ReplaySafe`) under `NoneMisleads`, and `DispatchesAreOwn`
  (`DispatchIsOwn`) under `KeysAreUnique`.

The code gives neither hypothesis, and without it the property does not hold.
`NoneMisleads`: the check resolves names by their text alone, so that a definition of `now`
with an argument, or one that comes later, hides the builtin from the check and not from
jq. `KeysAreUnique`: of two tasks with one key in one list only the first registers its
activity, and the other is dispatched to it. TLC evaluates both, and `IsDocument`, on the
documents of the run.

The first two theorems follow from `CodedIsReadBack`: if no character's code starts
another's (`ReadsBack`), and none is empty or starts with the separator, a text can only
have been written in one way up to its first separator. Concatenation is a recursive
function in the community modules; that it takes one element after the other (`FlattenCons`)
is shown by a least counterexample, like everything about lengths here. For
`DispatchesAreOwn`, the paths of two tasks also have to differ (`PathIsOwn`): at the first
step where two places part (`StepIsSame`), either the keys differ, or one enters the body of
a `try` and the other its catch, or one ends.

The others rest on an invariant of the readers, `ReadInv`: what a reader holds is what the
loader makes of one of the documents, of the checked one if the file was left alone, and
what is served is the build of that. `LoadedIs` says what loading makes of a document: the
same lists at the same places, each task normalised and post-loaded once, because all walks
enter the same lists (`WalksReachAll`). On top of it,

- `VerdictInv`: a reader that has passed a check knows it of the document that it holds,
  and one that has rejected an unedited document blames what is wrong with it. Its core is
  that the build's preparation of what was loaded finds just what the check found
  (`PreparedIf`, `SimilarFails`, `LoadedFails`: loading changes no task in a way that a hook or
  a check can see), and that all stages together find just what `Sound` asks for
  (`CheckedIsSound`, `SoundIsAccepted`, `ErrorIsMeant`).
- `ReplayInv`: the expression at the site was prepared, so that it compiles and, outside a
  side effect, is deterministic; then it does not read the clock (`CheckIsSound`), and
  inside one the history has its value.
- `AttemptInv`: what an activity is scheduled with is one of the two things that a worker
  makes of its inputs, and the output is what an attempt hands on of it. `PointersAreDistinct`
  makes the noted pointers those of the inputs that were left.

Only model-checked: `DiagramIsTopology` of `Graph`, whose rendering and reachability are
recursive; `DefaultsHold` of `Metadata` and `EndCarriesChildOutput` of `TaskList`, which the code
does not keep; and all liveness
(`Termination`, `Returns`, `EditsSettle`, `SettlesDown`, `Settles`, `Accounted`), which the
prover does not do.

## What the code does not keep

Each of these runs finds a counterexample to what a comment or a page of the
documentation says; `PROJECT.json` quotes it.

| Run | What happens |
|---|---|
| `can_listen_drops` | Continue-As-New at a listener or an inline `do`: `shouldSkip` returns before it looks at the resume point, which is never cleared, and every later task is skipped. The workflow completes. |
| `end_in_do` | `end` in a `do` task at the beginning of a workflow: it only ends that `do` task, and the workflow goes on. |
| `end_drops_output` | `end` in a child workflow or a fork's branch: the output that comes back with it is dropped unless the task that started it has an `output`, and the workflow closes with that of the task before. |
| `options_leak` | The retry policy that one task asks for is that of every activity which any workflow of the process schedules from then on: `SetActivityOptions` changes the defaults through a pointer (`metadata/activity_options.go:137`). |

Others that the models contain, and the passing runs step around as said:

- Continue-As-New right after a named `then`: the target is a local variable of the loop
  and lost, and the tasks in between run (`task_builder_do.go:435`). Lists with a jump have
  no limit in `lists`.
- A run whose history is over its limit before the loop gets to the resume point: with a
  `canMaxHistoryLength` of 1 or 2 the workflow continues as new for ever without ever
  starting a task, since a run begins with 3 events; with a little more, and signals that
  were sent to a run before it began, the resume point moves back, and tasks that are
  done run again (`task_builder_do.go:444`, `RoomToRewind`).
- An inline `do` at the beginning of a list continues as new itself when the server suggests
  it, as its own workflow: the chain goes on with that, and the rest of the list is never run
  (`Faults`, "handedOver"). `end` in one, in a workflow with a parent, is reported as a
  failure of the `do` task, whose output and export are not processed
  (`task_builder_do.go:372`, `task_builder_do.go:893`).
- Two branches that close before one workflow task: a replay may pick another winner, or
  the output of another `end` (`task_builder_fork.go:235`, `Replay`).
- A listener that timed out takes the signal that the next listener waits for.
- A reload of two documents of one task queue, each with an inner list of the same name,
  panics and ends the process (`BuildPanics`).
- A listener or inline `do` that comes before the resume point is entered again by
  every run of the chain (`NoReexecution` leaves them out, as the code means to).
- A `try` body that ends the workflow after a cancellation was requested returns no
  output with its `end` (`task_builder_try.go:260`); `EndKeepsOutput` of `Scopes`
  leaves cancelled workflows out.
- A child workflow that was cancelled on its own is caught like any failure, as
  `CancellationWins` of `Scopes` allows: it is about the workflow's cancellation.
- An interrupt that comes while an event is handled or during a reload is lost
  (`cmd/run/watch.go:172`).
- A switch that matches no case clears `$output`, because only a task that emits
  a directive counts as one without a payload.
- A failure of a task's output or export returns before the task is reported as
  faulted.
- A fork that ends the workflow returns with other branches still running
  (`ClosedUnlessEnded` says "unless").
- A branch that fails while the workflow is being cancelled replaces the
  cancellation in `replyErr`.
- A query next to signals makes the whole listen task return at once
  (`Blocks`), with nothing received.
- The coroutines of an `any` that was satisfied go on storing payloads that
  nobody accepts (`DataIsAccepted` is about `all`).
- A listener whose last signal and timer come in the same workflow task, the
  signal after a rejected one, can time out although the signal is in its channel.
- A reload does not see a file that is created, or put in the place of another
  by a rename, until some watched file changes (`missable` in `Runner`).
- When the watcher cannot be set up, the client is closed with workers running.

- A container whose `docker` command was killed by the end of a context goes on, and
  keeps its name (`cut` is "killed"); so does one with a lifetime of `never` or `eventually`.
- A heartbeat of zero ends the worker's process (`TickerPanics`), in every attempt.
  `SettlesDown` is about what is left once attempts and crashes have stopped.
- A task's activity options stay in the context for the rest of its list
  (`task_builder_do.go:500`).
- The check of expressions does not walk the keys of patterns, does not look at the
  number of arguments when a definition shadows a builtin, and takes a definition to hold
  in those before it, where jq still finds the builtin
  (`pkg/utils/expression_determinism.go:372`); a few pure functions, `toarray` for one, are
  rejected because they are not listed. `MCDocuments` has none of the first three (`NoneMisleads`).
- Results that JSON cannot carry are evaluated twice, in the workflow and in the attempt,
  although `activity_inputs.go:38` says that an expression is evaluated once.
- Do tasks of one name in several lists are found by the build only. Two tasks of one key in
  one list are found by nothing, although `docs/docs/dsl/tasks/do.md:123` says "Duplicate task
  names cause a validation error": the second is dispatched to the activity of the first
  (`activity_registration.go:43`). `MCDocuments` has no such list (`KeysAreUnique`).
- The diagram draws a `do` task of a nested list, or of one of several workflows, that is
  behind another task as if it were executed (`mermaid.go:338`); a switch whose target is
  an inlined `do`, or that sits in a `for`, `try` or `fork`, gets an edge to a node that
  nobody declares (`mermaid.go:389`); a branch that is a single task is drawn
  empty (`mermaid.go:436`); the keys `a.b` and `a_b` get one node (`mermaid.go:75`); `end`
  in the body of a `for` has an edge to nothing (`mermaid.go:471`). `DiagramIsTopology` says
  which documents it is about.
- A start deletes the schedule before it finds that the new one has no workflow name or
  asks for `after` (`schedules.go:41`), and before the workers are built. A schedule whose ID
  was changed stays under its old one. The default ID is the same for one workflow type on
  two task queues (`metadata/schedules.go:45`). A reload does not touch schedules
  (`cmd/run/workers.go:225`). A replica of an older version that starts late may bring a schedule
  back; `ServedIsScheduled` is about replicas that all serve what is deployed.
- `EventsUndeliveredTotal` is increased for every event, delivered or not (`events.go:82`),
  although `docs/docs/deployment/observability.md:82` says "Events that failed to
  deliver". A file of CloudEvents that is not valid is reported as an error that wraps nothing.
- A loop count of 2^63 passes the check for the range of integers, because the largest of
  them is one more as a float64 (`task_builder_for.go:335`).
- `Telemetry.Shutdown` looks whether its channel is closed and then closes it without a lock
  (`telemetry.go:106`); there is one caller today.

## What is not modelled

Inside the modelled parts: the values of expressions and payloads; logging and metrics. A
branch's or child's inside is one opaque step of the list that holds it, and so is a
block's in `TaskList`; `Scopes` in turn has no conditions, jumps or Continue-As-New. Search
attributes, which nothing reads, and the `workflow.Await` for handlers before a
Continue-As-New. A query handler's answer. Of a document, what the JSON schema and the SDK's struct rules
say is one bit, and the contents of a request, a Job's specification or an event are
left out, as are the shapes and labels of a diagram. Two things that the server decides:
a child that is started without being awaited by a workflow that closes in the same
workflow task (`task_builder_run.go:280`), and a cancellation that arrives with a
Continue-As-New (`task_builder_do.go:419`).

No module covers codec and external storage (they select a data converter), metrics and
interceptors (nothing reads them), the flags, the injection of a diagram into a page, and
the tools of the MCP server that return embedded files.

## Plan

Done: the executor of lists (TaskList, TaskProgram, Scopes), Fork with ForkPromise, Runner,
Listen, Activities and Rollout, with proofs of every safety property that the runs check;
Documents with Expressions, Names and ActivityInputs, with the same; Graph and Metadata, which
are model-checked.

Next, in this order:

1. Several documents of one worker in Documents, to give `BuildPanics` its cause.
2. Loop counts with the width of their values, and search attributes with their types.
3. Listeners that share an event: whose a message is, in a property that the code keeps.

Out of the prover's reach, and so only model-checked: liveness, and what the recursive
operators of Graph compute.
