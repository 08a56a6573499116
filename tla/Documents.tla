----------------------------- MODULE Documents -----------------------------
(***************************************************************************)
(* A workflow document and its three readers: `zigflow validate`, the      *)
(* validate_workflow tool of the MCP server, and `zigflow run`, which      *)
(* builds a worker from it and serves it (pkg/zigflow/loader.go,           *)
(* workflow_builder.go, nested_do.go, expression_determinism.go, the       *)
(* builders of pkg/zigflow/tasks, cmd/validate.go, cmd/run/workflows.go,   *)
(* pkg/mcp/validate_workflow.go). The file may change between the reads of *)
(* one reader.                                                             *)
(***************************************************************************)
EXTENDS ActivityInputs, Integers

CONSTANTS
  Char,       \* what keys are made of
  Files,      \* documents that the file may hold at first
  Edits,      \* documents that someone may write into it meanwhile
  Readers     \* a subset of "validate", "mcp" and "run"

VARIABLES
  file,       \* the document in the file
  reader,     \* who reads it
  validate,   \* the --validate flag of `zigflow run`
  stage,      \* what the reader does next
  bytes,      \* what it has read for its check
  held,       \* the document that it has loaded, normalised and post-loaded
  verdict,    \* "none" so far, "valid", "built" or what is wrong
  warned,     \* the places of the tasks that it warns of
  worker,     \* what is registered with the Temporal worker
  site,       \* an expression or an activity of the running workflow
  clock,      \* the host's clock
  history,    \* what a side effect has recorded
  value,      \* the last value of the expression at the site
  schedule,   \* what the activity at the site is scheduled with
  attempt,    \* how often the site was executed
  output      \* what the last attempt of the activity has handed on

reading == <<file, reader, validate, stage, bytes, held, verdict, warned, worker>>
serving == <<site, clock, history, value, schedule, attempt, output>>
vars == <<reading, serving>>

MaxAttempts == 2
MaxClock == 1
Nothing == [is |-> "nothing"]

(***************************************************************************)
(* Tasks. Keys are sequences of characters. The lists of tasks of a        *)
(* document are a function from their places: <<>> is that of the          *)
(* document's own list, and Append(l, <<i, k>>) that of list k of task i   *)
(* of the list at l; that task itself is at Append(l, <<i, 0>>). A         *)
(* container has one list, a try task two, its body and its catch, and the *)
(* list of a fork holds its branches.                                      *)
(***************************************************************************)
ActivityKinds == {"http", "grpc", "shell", "script", "docker", "kubernetes"}
ContainerKinds == {"do", "for", "try", "fork"}

Task(key, kind) ==
  [key |-> key, kind |-> kind,
   base |-> {},      \* expressions of `if`, input, output, export, metadata
   body |-> {},      \* expressions of the rest
   inputs |-> <<>>,  \* inputs of an activity
   then |-> {},      \* targets of the cases of a switch
   callee |-> <<>>,  \* fields that name the workflow of a run task
   await |-> "unset",
   flaw |-> "none"]

ListsOf(t) ==
  CASE t.kind = "try" -> {1, 2}
    [] t.kind \in ContainerKinds \ {"try"} -> {1}
    [] OTHER -> {}

\* The task that step m of a place goes through, and the task at a place, or
\* whose list it is.
Through(do, p, m) == do[SubSeq(p, 1, m - 1)][p[m][1]]
TaskAt(do, p) == Through(do, p, Len(p))
IsBranches(do, l) == l # <<>> /\ TaskAt(do, l).kind = "fork"

\* The lists that a walk comes to that enters some of the lists of a task.
Reached(do, Entered(_)) ==
  {l \in DOMAIN do : \A m \in DOMAIN l : l[m][2] \in Entered(Through(do, l, m))}
IsTree(do) ==
  /\ <<>> \in DOMAIN do
  /\ \A l \in DOMAIN do :
       /\ l \in Seq((Nat \ {0}) \X {1, 2}) /\ do[l] \in Seq(Range(do[l]))
       /\ \A i \in DOMAIN do[l] : \A k \in ListsOf(do[l][i]) : Append(l, <<i, k>>) \in DOMAIN do
       /\ \A m \in DOMAIN l :
            /\ SubSeq(l, 1, m - 1) \in DOMAIN do /\ l[m][1] \in DOMAIN do[SubSeq(l, 1, m - 1)]
            /\ l[m][2] \in ListsOf(Through(do, l, m))

Places(do, lists) == UNION {{Append(l, <<i, 0>>) : i \in DOMAIN do[l]} : l \in lists}
TasksIn(do, lists) == UNION {Range(do[l]) : l \in lists}
AllTasks(do) == TasksIn(do, DOMAIN do)

\* The document with every task changed that the walk comes to.
Changed(do, Entered(_), Change(_)) ==
  [l \in DOMAIN do |-> IF l \in Reached(do, Entered) THEN [i \in DOMAIN do[l] |-> Change(do[l][i])] ELSE do[l]]

IsInput(input) == input = Input(input.expr, input.gives) /\ input.gives \in Gives
IsTask(t) ==
  /\ t = [key |-> t.key, kind |-> t.kind, base |-> t.base, body |-> t.body, inputs |-> t.inputs,
          then |-> t.then, callee |-> t.callee, await |-> t.await, flaw |-> t.flaw]
  /\ t.key \in Seq(Char)
  /\ t.await \in {"unset", "yes", "no"} /\ t.flaw \in {"none", "call", "validate", "struct"}
  /\ \A p \in DOMAIN t.inputs : t.kind \in ActivityKinds /\ p \in Seq(Seq(Char)) /\ IsInput(t.inputs[p])

\* The schema wants a workflow type, and that of every workflow that a task
\* runs, and no other name of them.
IsDocument(doc) ==
  /\ doc = [yaml |-> doc.yaml, conforms |-> doc.conforms, dsl |-> doc.dsl, names |-> doc.names,
            exprs |-> doc.exprs, scheduleInput |-> doc.scheduleInput, do |-> doc.do]
  /\ {doc.yaml, doc.conforms, doc.dsl} \subseteq BOOLEAN
  /\ \A n \in DOMAIN doc.names : doc.names[n] \in Seq(Char)
  /\ IsTree(doc.do) /\ \A t \in AllTasks(doc.do) : IsTask(t)
  /\ doc.conforms =>
       /\ DOMAIN doc.names = {"workflowType"} /\ doc.names["workflowType"] # <<>>
       /\ \A t \in AllTasks(doc.do) : t.kind = "workflow" => DOMAIN t.callee = {"type"}

ASSUME DocumentsAssumption == \A doc \in Files \cup Edits : IsDocument(doc)

\* What the documentation asks of the keys of a list; nothing checks it.
KeysAreUnique ==
  \A doc \in Files \cup Edits : \A l \in DOMAIN doc.do : IsInjective([i \in DOMAIN doc.do[l] |-> doc.do[l][i].key])

BodyExpressions(t) == t.body \cup {t.inputs[p].expr : p \in DOMAIN t.inputs}

(***************************************************************************)
(* Normalisation, on the raw document.                                     *)
(***************************************************************************)
RenameKey(m, old, new) ==
  IF old \notin DOMAIN m THEN m
  ELSE [k \in (DOMAIN m \cup {new}) \ {old} |-> IF k \in DOMAIN m THEN m[k] ELSE m[old]]

\* A wait with an expression, or with `until`, is not the SDK's.
Claims(t) == t.kind = "wait" /\ t.body # {}
NormaliseTask(t) ==
  [t EXCEPT !.kind = IF Claims(t) THEN "waitExt" ELSE @, !.callee = RenameKey(@, "type", "name")]

NormalisedLists(t) ==
  CASE t.kind \in {"do", "for"} -> {1} [] t.kind = "fork" -> {1} [] t.kind = "try" -> {1, 2} [] OTHER -> {}
NormaliseWorkflowDocument(doc) ==
  [doc EXCEPT !.names = RenameKey(@, "workflowType", "name"),
              !.do = Changed(@, NormalisedLists, NormaliseTask)]

WorkflowType(doc) == IF "name" \in DOMAIN doc.names THEN doc.names["name"] ELSE <<>>

\* The SDK's model of a wait has numbers only.
UnmarshalFails(do) == \E t \in AllTasks(do) : t.kind = "wait" /\ t.body # {}

(***************************************************************************)
(* The builders' hooks. Those of a container call those of its tasks.      *)
(***************************************************************************)
\* Mutant: the body of a catch is forgotten.
BuilderListsWithoutCatch(t) == IF t.kind \in ContainerKinds THEN {1} ELSE {}
BuilderLists(t) ==
  CASE t.kind \in {"do", "for"} -> {1} [] t.kind = "fork" -> {1} [] t.kind = "try" -> {1, 2} [] OTHER -> {}

\* No builder exists for the task, or a body of a try task is missing.
BuilderFails(do, p) ==
  \/ TaskAt(do, p).flaw = "call"
  \/ TaskAt(do, p).kind = "try" /\ \E k \in {1, 2} : do[Append(Front(p), <<Last(p)[1], k>>)] = <<>>
PostLoadFails(do) == \E p \in Places(do, Reached(do, BuilderLists)) : BuilderFails(do, p)

PostLoadTask(t) == [t EXCEPT !.await = IF t.kind = "script" /\ @ = "unset" THEN "yes" ELSE @]
PostLoad(do) == Changed(do, BuilderLists, PostLoadTask)

\* Two defaults of a switch, the ports of a container, the language of a
\* script, an activity without a name, and a script that is not awaited.
ValidateFails(t) == t.flaw = "validate" \/ (t.kind = "script" /\ t.await # "yes")
Invalid(do) == \E t \in TasksIn(do, Reached(do, BuilderLists)) : ValidateFails(t)

(***************************************************************************)
(* The expressions of a document, and whether each may read the clock.     *)
(***************************************************************************)
Ref(exprs, allows) == {[expr |-> e, allows |-> allows] : e \in exprs}

CollectTaskItem(t) == Ref(t.base, FALSE) \cup Ref(BodyExpressions(t), t.kind = "set")
CollectedLists(t) ==
  CASE t.kind \in {"do", "fork", "for"} -> {1} [] t.kind = "try" -> {1, 2} [] OTHER -> {}

\* The other keys of the metadata are not evaluated.
CollectExpressions(doc) ==
  Ref(doc.exprs, FALSE) \cup Ref(doc.scheduleInput, TRUE)
    \cup UNION {CollectTaskItem(t) : t \in TasksIn(doc.do, Reached(doc.do, CollectedLists))}

\* What does not compile comes first.
ValidateWorkflowDeterminism(doc) ==
  LET refs == CollectExpressions(doc)
  IN IF \E r \in refs : ~Compiles(r.expr) THEN "invalid expression"
     ELSE IF \E r \in refs : ~r.allows /\ ~IsDeterministic(r.expr) THEN "not deterministic"
     ELSE "none"

(***************************************************************************)
(* The loader.                                                             *)
(***************************************************************************)
Prepare(doc) ==
  IF PostLoadFails(doc.do) THEN "post-load"
  ELSE IF Invalid(PostLoad(doc.do)) THEN "task"
  ELSE ValidateWorkflowDeterminism(doc)

LoadFromBytes(doc) ==
  LET wf == NormaliseWorkflowDocument(doc)
      error == IF ~doc.yaml THEN "yaml"
               ELSE IF UnmarshalFails(wf.do) THEN "model"
               ELSE IF Prepare(wf) # "none" THEN Prepare(wf)
               ELSE IF ~doc.dsl THEN "dsl" ELSE "none"
  IN [error |-> error, workflow |-> [wf EXCEPT !.do = PostLoad(@)]]

ValidateBytes(doc) ==
  IF ~doc.yaml THEN "yaml" ELSE IF ~doc.conforms THEN "schema" ELSE LoadFromBytes(doc).error

\* How the MCP server names what ValidateBytes has found.
ValidateBytesStage(error) ==
  CASE error = "schema" -> "schema"
    [] error \in {"invalid expression", "not deterministic"} -> "expression"
    [] OTHER -> "parse"

\* The validator of the SDK: its own rules, and a name for every workflow
\* that a task runs.
StructFails(do) ==
  \E t \in AllTasks(do) : t.flaw = "struct" \/ (t.kind = "workflow" /\ "name" \notin DOMAIN t.callee)

(***************************************************************************)
(* The warnings: `do` tasks next to executable ones that no switch names.  *)
(* The branches of a fork are no such list.                                *)
(***************************************************************************)
HasNoDo(list) == \E t \in Range(list) : t.kind # "do"

WalkedLists(t) ==
  CASE t.kind \in {"do", "for", "fork"} -> {1} [] t.kind = "try" -> {1, 2} [] OTHER -> {}
Candidates(do) ==
  {p \in Places(do, Reached(do, WalkedLists)) :
     TaskAt(do, p).kind = "do" /\ HasNoDo(do[Front(p)]) /\ ~IsBranches(do, Front(p))}
Targets(do) == UNION {t.then : t \in TasksIn(do, Reached(do, WalkedLists))}

NestedDoWarnings(doc) == {p \in Candidates(doc.do) : TaskAt(doc.do, p).key \notin Targets(doc.do)}

(***************************************************************************)
(* The build.                                                              *)
(***************************************************************************)

\* The path of the task at a place, which names its activity. A branch of one
\* task is a leaf under the fork, although it is wrapped in a list.
Segments(t, k) ==
  CASE t.kind = "try" /\ k = 1 -> <<t.key, <<"try">>>>
    [] t.kind = "try" /\ k = 2 -> <<t.key, <<"catch">>>>
    [] OTHER -> <<t.key>>
Path(do, p) == FlattenSeq([m \in DOMAIN p |-> Segments(Through(do, p, m), p[m][2])])

GenerateChildWorkflowName(fork, branch) == <<"workflow_fork_">> \o fork \o <<"_">> \o branch

SwitchTargets(list) == UNION {t.then : t \in {t \in Range(list) : t.kind = "switch"}}

\* A do task after the first task of another kind is not executed.
Added(list, i) == list[i].kind # "do" \/ \A j \in 1..(i - 1) : list[j].kind = "do"
MultipleWorkflows(list, document) == document /\ ~HasNoDo(list)

\* Mutant: the target of a switch that also runs inline is not registered.
ChildRegistersUnlessInline(list, i, document) == ~Added(list, i) \/ MultipleWorkflows(list, document)

\* Whether a do task of the list, which may be the document's, runs as a
\* workflow of its own.
ChildRegisters(list, i, document) ==
  ~Added(list, i) \/ MultipleWorkflows(list, document) \/ list[i].key \in SwitchTargets(list)
Registers(list, opts) == ~opts.disabled /\ (HasNoDo(list) \/ opts.register)

Scope(name, register) == [name |-> name, disabled |-> FALSE, register |-> register]
Inline == [name |-> <<>>, disabled |-> TRUE, register |-> FALSE]

\* What the builder of a do list is told. A branch of a fork is a workflow of
\* its own, whatever its kind.
BuildBranch(do, l) == Scope(GenerateChildWorkflowName(TaskAt(do, Front(l)).key, TaskAt(do, l).key), TRUE)
SetChildOpts(do, l) ==
  Scope(TaskAt(do, l).key, ChildRegisters(do[Front(l)], Last(l)[1], Front(l) = <<>>))
Opts(do, l, type) ==
  IF l = <<>> THEN Scope(type, FALSE)
  ELSE IF TaskAt(do, l).kind # "do" THEN Inline
  ELSE IF IsBranches(do, Front(l)) THEN BuildBranch(do, l)
  ELSE SetChildOpts(do, l)

\* A branch that is not a do task is wrapped in a list at the place of the
\* branch.
DoLists(do) == {l \in Reached(do, BuilderLists) : ~IsBranches(do, l)}
Wrapped(do) ==
  {p \in Places(do, Reached(do, BuilderLists)) : IsBranches(do, Front(p)) /\ TaskAt(do, p).kind # "do"}

\* A build gives the workflows that are registered, the activities, and the do
\* tasks that no list executes.
Built(claims, activities, left) == [claims |-> claims, activities |-> activities, left |-> left]
NothingBuilt == Built({}, {}, {})

Workflows(do, type) ==
  {[name |-> Opts(do, l, type).name, place |-> l] : l \in {l \in DoLists(do) : Registers(do[l], Opts(do, l, type))}}
    \cup {[name |-> BuildBranch(do, p).name, place |-> p] : p \in Wrapped(do)}
Activities(do, type) ==
  {[name |-> PerTaskActivityName(type, Path(do, p)), function |-> TaskAt(do, p).kind, place |-> p] :
     p \in {p \in Places(do, Reached(do, BuilderLists)) : TaskAt(do, p).kind \in ActivityKinds}}
Left(do) == {p \in Places(do, DoLists(do)) : ~Added(do[Front(p)], Last(p)[1])}
Build(do, type) == Built(Workflows(do, type), Activities(do, type), Left(do))

ClaimFails(claims) == \E c, d \in claims : c # d /\ c.name = d.name

\* Only the first registration of a name counts. Tasks are built in the order
\* of the document.
Before(p, q) ==
  \E m \in DOMAIN p \cap DOMAIN q :
    /\ \A n \in 1..(m - 1) : p[n] = q[n]
    /\ p[m][1] < q[m][1] \/ (p[m][1] = q[m][1] /\ p[m][2] < q[m][2])
RegisterActivityOnce(activities) ==
  [n \in {a.name : a \in activities} |->
     (CHOOSE a \in activities :
        a.name = n /\ \A b \in activities : b.name = n => b = a \/ Before(a.place, b.place)).function]

NewWorkflow(doc) ==
  LET built == Build(doc.do, WorkflowType(doc))
  IN IF Prepare(doc) # "none" THEN [error |-> Prepare(doc), built |-> NothingBuilt]
     ELSE [error |-> IF ClaimFails(built.claims) THEN "clash" ELSE "none", built |-> built]

(***************************************************************************)
(* The readers.                                                            *)
(***************************************************************************)
Init ==
  /\ file \in Files
  /\ reader \in Readers
  /\ validate \in (IF reader = "run" THEN BOOLEAN ELSE {TRUE})
  /\ stage = "check"
  /\ verdict = "none"
  /\ warned = {}
  /\ worker = NothingBuilt
  /\ bytes = Nothing /\ held = Nothing
  /\ site = Nothing /\ value = Nothing /\ history = Nothing /\ schedule = Nothing /\ output = Nothing
  /\ clock = 0 /\ attempt = 0

Reject(error) == verdict' = error /\ stage' = "done"

\* Schema, structure and expressions, unless `zigflow run` is told not to.
Check ==
  /\ stage = "check"
  /\ bytes' = file
  /\ IF validate /\ ValidateBytes(file) # "none" THEN Reject(ValidateBytes(file))
     ELSE stage' = "load" /\ UNCHANGED verdict
  /\ UNCHANGED <<file, reader, validate, held, warned, worker, serving>>

\* The file is read again, but for the MCP server, which was given its text.
Load ==
  /\ stage = "load"
  /\ LET loaded == LoadFromBytes(IF reader = "mcp" THEN bytes ELSE file)
         error == IF loaded.error = "none" /\ reader = "run" /\ WorkflowType(loaded.workflow) = <<>>
                  THEN "no workflow type" ELSE loaded.error
     IN IF error # "none" THEN Reject(error) /\ UNCHANGED held
        ELSE held' = loaded.workflow /\ stage' = "inspect" /\ UNCHANGED verdict
  /\ UNCHANGED <<file, reader, validate, bytes, warned, worker, serving>>

Inspect ==
  /\ stage = "inspect"
  /\ IF validate /\ StructFails(held.do) THEN Reject("struct") /\ UNCHANGED warned
     ELSE IF reader = "run" THEN stage' = "build" /\ UNCHANGED <<verdict, warned>>
     ELSE stage' = "done" /\ verdict' = "valid" /\ warned' = NestedDoWarnings(held)
  /\ UNCHANGED <<file, reader, validate, bytes, held, worker, serving>>

BuildWorker ==
  /\ stage = "build"
  /\ LET new == NewWorkflow(held)
     IN IF new.error # "none" THEN Reject(new.error) /\ UNCHANGED worker
        ELSE worker' = new.built /\ verdict' = "built" /\ stage' = "serve"
  /\ UNCHANGED <<file, reader, validate, bytes, held, warned, serving>>

\* Someone saves another document between the two reads.
Edit ==
  /\ stage = "load" /\ file = bytes
  /\ file' \in Edits \ {file}
  /\ UNCHANGED <<reader, validate, stage, bytes, held, verdict, warned, worker, serving>>

(***************************************************************************)
(* The running workflow, which may be replayed at any time: it then        *)
(* evaluates everything again, but for what a side effect has recorded.    *)
(***************************************************************************)
\* No task has an expression that misleads the check.
NoneMisleads ==
  \A doc \in Files \cup Edits : \A t \in AllTasks(doc.do) : \A e \in t.base \cup BodyExpressions(t) : ~Misleads(e)

\* The expressions that the workflow evaluates, those of activities included
\* that are not left for the attempts. It neither looks at the conditions of a
\* catch, nor at the document's own input and schedule.
ResolveAtOnce(t) ==
  {t.inputs[p].expr : p \in {p \in DOMAIN t.inputs : ~Postponed(t.kind, t.inputs[p])}}
EvaluatedIn(t) == t.base \cup (IF t.kind = "try" THEN {} ELSE t.body \cup ResolveAtOnce(t))

Choose ==
  /\ stage = "serve" /\ site = Nothing
  /\ \E t \in AllTasks(held.do) :
       \/ \E e \in EvaluatedIn(t) : site' = [is |-> "expression", task |-> t, expr |-> e] /\ UNCHANGED schedule
       \/ /\ t.kind \in ActivityKinds
          /\ site' = [is |-> "activity", task |-> t]
          /\ schedule' \in {ResolveActivityInputs(t.kind, t.inputs), Unresolved(t.inputs)}
  /\ UNCHANGED <<reading, clock, history, value, attempt, output>>

InSideEffect == site.task.kind = "set" /\ site.expr \in site.task.body

Now(expr) ==
  IF ~Compiles(expr) THEN <<"fails">> ELSE IF ReadsClock(expr) THEN <<"clock", clock>> ELSE <<"same">>

\* The first execution of the site, and then replays of it.
Evaluate ==
  /\ stage = "serve" /\ site.is = "expression" /\ attempt < MaxAttempts
  /\ value' = [is |-> "value",
               of |-> IF InSideEffect /\ history # Nothing THEN history.of ELSE Now(site.expr)]
  /\ history' = IF InSideEffect THEN value' ELSE history
  /\ attempt' = attempt + 1
  /\ UNCHANGED <<reading, site, clock, schedule, output>>

Tick ==
  /\ stage = "serve" /\ site.is = "expression" /\ clock < MaxClock
  /\ clock' = clock + 1
  /\ UNCHANGED <<reading, site, history, value, schedule, attempt, output>>

Attempt ==
  /\ stage = "serve" /\ site.is = "activity" /\ attempt < MaxAttempts
  /\ ~schedule.failed
  /\ attempt' = attempt + 1
  /\ output' = IF AttemptFails(site.task.kind, schedule, attempt + 1) THEN Nothing
               ELSE [is |-> "output",
                     of |-> [p \in DOMAIN site.task.inputs |-> HandedOn(site.task.kind, schedule, p, attempt + 1)]]
  /\ UNCHANGED <<reading, site, clock, history, value, schedule>>

Next == Check \/ Load \/ Inspect \/ BuildWorker \/ Edit \/ Choose \/ Evaluate \/ Tick \/ Attempt
Spec == Init /\ [][Next]_vars

-----------------------------------------------------------------------------
(***************************************************************************)
(* Properties.                                                             *)
(***************************************************************************)

\* What the documentation asks of a document, whoever reads it and wherever
\* in it a task is.
SoundExpressions(doc) ==
  /\ \A e \in doc.exprs : Compiles(e) /\ IsDeterministic(e)
  /\ \A e \in doc.scheduleInput : Compiles(e)
  /\ \A t \in AllTasks(doc.do) :
       /\ \A e \in t.base : Compiles(e) /\ IsDeterministic(e)
       /\ \A e \in BodyExpressions(t) : Compiles(e) /\ (t.kind = "set" \/ IsDeterministic(e))

Sound(doc) ==
  /\ doc.yaml /\ doc.conforms /\ doc.dsl
  /\ SoundExpressions(doc)
  /\ \A t \in AllTasks(doc.do) : t.flaw = "none" /\ (t.kind = "script" => t.await # "no")
  /\ \A l \in DOMAIN doc.do : (l # <<>> /\ TaskAt(doc.do, l).kind = "try") => doc.do[l] # <<>>

\* `zigflow validate` and the MCP server accept a document if and only if it
\* is sound, and `zigflow run` then builds it unless two of its task lists
\* take one name; the stage that the server reports is the one at fault.
\* Whatever a list is nested in, normalisation, the hooks of
\* the builders and the collection of expressions reach its tasks
\* (loader.go:225, task_builder_try.go:70, expression_determinism.go:276).
VerdictIsMeant ==
  (file = bytes /\ validate) =>
    /\ verdict = "valid" => Sound(file)
    /\ verdict = "built" => Sound(file)
    /\ verdict \notin {"none", "valid", "built", "clash"} => ~Sound(file)
    /\ ValidateBytesStage(verdict) = "schema" => ~file.conforms
    /\ ValidateBytesStage(verdict) = "expression" => ~SoundExpressions(file)

\* An expression gives the same value whenever the workflow is replayed, and
\* none fails to compile as late as that, even if the file was changed after
\* its check or is not checked at all (workflow_builder.go:86, do.go:475).
ReplaySafe ==
  [][value' # value => value = Nothing /\ value'.of # <<"fails">>]_vars

\* Every attempt of an activity hands on what its inputs mean in that attempt,
\* evaluated once, exact and in their own place, and it fails only if that is
\* what they mean (activity_inputs.go:50).
InputsAreMeant ==
  site.is = "activity" =>
    LET t == site.task
    IN /\ schedule.failed => MeantToFail(t.kind, t.inputs, 0)
       /\ (attempt > 0 /\ output = Nothing) => MeantToFail(t.kind, t.inputs, attempt)
       /\ output # Nothing =>
            \A p \in DOMAIN t.inputs : output.of[p] = Meant(t.kind, t.inputs, p, attempt)

\* A switch finds the do task of its own list that it names registered under
\* that name, and a do task that no list executes is registered, and either a
\* switch names it or `zigflow validate` warns of it
\* (task_builder_do.go:133, nested_do.go:42).
NoListIsLost ==
  LET do == held.do
      registered(p) == [name |-> TaskAt(do, p).key, place |-> Append(Front(p), <<Last(p)[1], 1>>)] \in worker.claims
  IN /\ stage = "serve" =>
          /\ \A p \in Places(do, {l \in DOMAIN do : ~IsBranches(do, l)}) :
               (TaskAt(do, p).kind = "do" /\ TaskAt(do, p).key \in SwitchTargets(do[Front(p)])) => registered(p)
          /\ \A p \in worker.left : registered(p)
     /\ verdict = "valid" =>
          \A p \in NewWorkflow(held).built.left : p \in warned \/ TaskAt(do, p).key \in Targets(do)

\* Every activity task of a worker is dispatched to the function of its own
\* kind, also if its key is used elsewhere or has the characters that separate
\* the parts of a name (task_builder.go:103, activity_registration.go:37).
DispatchIsOwn ==
  stage = "serve" =>
    LET function == RegisterActivityOnce(worker.activities)
    IN \A p \in Places(held.do, DOMAIN held.do) :
         TaskAt(held.do, p).kind \in ActivityKinds =>
           function[PerTaskActivityName(WorkflowType(held), Path(held.do, p))] = TaskAt(held.do, p).kind
=============================================================================
