------------------------------ MODULE Rollout ------------------------------
(***************************************************************************)
(* Replicas of `zigflow run` that start, crash and are replaced by a newer *)
(* version, against one Temporal server: the schedules that every start    *)
(* deletes and creates (pkg/zigflow/schedules.go, pkg/zigflow/metadata/    *)
(* schedules.go, cmd/run/command.go), and a workflow that a schedule       *)
(* starts, with the CloudEvents that it emits (pkg/cloudevents) and the    *)
(* runs that telemetry counts (pkg/telemetry).                             *)
(*                                                                         *)
(* The Temporal server and whoever starts the replicas are external.       *)
(***************************************************************************)
EXTENDS Integers, FiniteSets, Sequences, SequencesExt

CONSTANTS
  Replicas,
  \* What is deployed, and what may go wrong. Each plan is a record of
  \*   versions  a sequence of versions, each a sequence of documents,
  \*   clients   the clients of CloudEvents,
  \*   stale     whether List may lag behind,
  \*   fires     whether a schedule fires, once,
  \*   crashes, failures   how many replicas crash and sends fail.
  Plans

\* schedule is "none", "cron", "every" or "after"; named tells whether the
\* metadata name the workflow to start; readable whether its metadata have
\* the right types and an input that can be evaluated.
Definition == [id : STRING, schedule : {"none", "cron", "every", "after"},
               named : BOOLEAN, readable : BOOLEAN, builds : BOOLEAN]

\* A replica is not started without a document.
ASSUME RolloutAssumption ==
  /\ Replicas # {}
  /\ \A deployment \in Plans :
       /\ deployment.versions \in Seq(Seq(Definition) \ {<<>>}) \ {<<>>}
       /\ deployment.stale \in BOOLEAN

VARIABLES
  plan,
  deployed,   \* the version that replicas start with
  schedules,  \* at the server: from the ID of a schedule to what made it
  visible,    \* the IDs that List shows
  pc,         \* what a replica does next
  version,    \* what it was started with
  at,         \* the document whose schedule it updates
  listed,     \* the IDs that it was given by List
  workflow,   \* "none" yet, "open" or "closed"
  done,       \* workflow tasks that the server has recorded
  holder,     \* the replica that executes one, or "none"
  todo,       \* the events that it has yet to send, each to one client
  cached,     \* the replicas that have the workflow in their cache
  sent,       \* history: what was delivered
  failed,     \* history: what was logged as undelivered
  runs,       \* what a replica has counted as workflow runs
  reported,   \* what its last heartbeat said
  past,       \* the runs that replicas which are gone have counted
  faults      \* how many crashes and failures there were

starting == <<pc, version, at, listed>>
server == <<schedules, visible>>
emission == <<workflow, done, holder, todo, cached, sent, failed>>
telemetry == <<runs, reported, past>>
vars == <<plan, deployed, server, starting, emission, telemetry, faults>>

Nobody == "none"

(***************************************************************************)
(* Documents and clients.                                                  *)
(***************************************************************************)
Document(id, schedule) ==
  [id |-> id, schedule |-> schedule, named |-> TRUE, readable |-> TRUE, builds |-> TRUE]

Documents(v) == Range(plan.versions[v])
Scheduled(d) == d.schedule # "none"

\* The spec that the server is given; `after` has none.
SpecFails(d) == d.schedule = "after"

\* A disabled client is not made; the others have a protocol, and options
\* that it understands.
Client(name, disabled) == [name |-> name, disabled |-> disabled, loads |-> TRUE]
LoadFails(client) == ~client.disabled /\ ~client.loads

Init ==
  /\ plan \in Plans
  /\ deployed = 1
  /\ schedules = <<>> /\ visible = {}
  /\ pc = [p \in Replicas |-> "down"]
  /\ version = [p \in Replicas |-> 1]
  /\ at = [p \in Replicas |-> 1]
  /\ listed = [p \in Replicas |-> {}]
  /\ workflow = "none" /\ done = 0 /\ holder = Nobody /\ todo = <<>> /\ cached = {}
  /\ sent = {} /\ failed = {}
  /\ runs = [p \in Replicas |-> 0] /\ reported = [p \in Replicas |-> 0] /\ past = 0
  /\ faults = [crashes |-> 0, failures |-> 0]

(***************************************************************************)
(* A start. Files and clients are loaded before anything is changed.       *)
(***************************************************************************)
Current(p) == plan.versions[version[p]][at[p]]

Start(p) ==
  /\ pc[p] = "down"
  /\ ~\E c \in Range(plan.clients) : LoadFails(c)
  /\ version' = [version EXCEPT ![p] = deployed]
  /\ pc' = [pc EXCEPT ![p] = "list"]
  /\ at' = [at EXCEPT ![p] = 1]
  /\ UNCHANGED <<plan, deployed, server, listed, emission, telemetry, faults>>

\* What remains of a replica that is gone.
Gone(p) ==
  /\ cached' = cached \ {p}
  /\ past' = past + runs[p]
  /\ runs' = [runs EXCEPT ![p] = 0]
  /\ reported' = [reported EXCEPT ![p] = 0]
  /\ IF holder = p THEN holder' = Nobody /\ todo' = <<>> ELSE UNCHANGED <<holder, todo>>
  /\ UNCHANGED <<workflow, done, sent, failed>>

Fail(p) ==
  /\ pc' = [pc EXCEPT ![p] = "down"]
  /\ UNCHANGED <<version, at, emission, telemetry>>

\* On to the next document, or to the workers once the last one is done.
Updated(p) ==
  /\ IF at[p] < Len(plan.versions[version[p]])
     THEN pc' = [pc EXCEPT ![p] = "list"] /\ at' = [at EXCEPT ![p] = @ + 1]
     ELSE pc' = [pc EXCEPT ![p] = "build"] /\ UNCHANGED at
  /\ UNCHANGED <<version, emission, telemetry>>

GetScheduleInfo(p) ==
  /\ pc[p] = "list"
  /\ IF Current(p).readable
     THEN /\ pc' = [pc EXCEPT ![p] = "delete"]
          /\ listed' = [listed EXCEPT ![p] = visible]
          /\ UNCHANGED <<version, at, emission, telemetry>>
     ELSE Fail(p) /\ UNCHANGED listed
  /\ UNCHANGED <<plan, deployed, server, faults>>

\* The index that List reads follows the schedules, at once or later.
Indexed(ids) == visible' = IF plan.stale THEN visible ELSE ids

Unschedule(ids) ==
  /\ schedules' = [i \in DOMAIN schedules \ ids |-> schedules[i]]
  /\ Indexed(DOMAIN schedules')

\* What is left to do when the old schedule is gone.
AfterDelete(p) ==
  LET d == Current(p)
  IN IF ~Scheduled(d) THEN Updated(p)
     ELSE IF ~d.named \/ SpecFails(d) THEN Fail(p)
     ELSE pc' = [pc EXCEPT ![p] = "create"] /\ UNCHANGED <<version, at, emission, telemetry>>

\* Mutant: whatever is listed is old.
ListedSchedules(p) == listed[p]
OldSchedules(p) == listed[p] \cap {Current(p).id}

\* The schedule of this ID is deleted if it was listed, which fails if it is
\* gone by now.
DeleteOldSchedules(p) ==
  /\ pc[p] = "delete"
  /\ IF OldSchedules(p) = {} THEN AfterDelete(p) /\ UNCHANGED server
     ELSE IF ~(OldSchedules(p) \subseteq DOMAIN schedules) THEN Fail(p) /\ UNCHANGED server
     ELSE Unschedule(OldSchedules(p)) /\ AfterDelete(p)
  /\ UNCHANGED <<plan, deployed, listed, faults>>

\* Mutant: a schedule of that ID is good enough.
CreateFailsNever(p) == FALSE
CreateFails(p) == Current(p).id \in DOMAIN schedules

Create(p) ==
  /\ pc[p] = "create"
  /\ IF CreateFails(p) THEN Fail(p) /\ UNCHANGED server
     ELSE /\ schedules' = [i \in DOMAIN schedules \cup {Current(p).id} |->
                             IF i \in DOMAIN schedules THEN schedules[i] ELSE Current(p)]
          /\ Indexed(DOMAIN schedules')
          /\ Updated(p)
  /\ UNCHANGED <<plan, deployed, listed, faults>>

\* The workers are built and started when the schedules are there.
StartWorkers(p) ==
  /\ pc[p] = "build"
  /\ IF \A d \in Documents(version[p]) : d.builds
     THEN pc' = [pc EXCEPT ![p] = "serve"] /\ UNCHANGED <<version, at, emission, telemetry>>
     ELSE Fail(p)
  /\ UNCHANGED <<plan, deployed, server, listed, faults>>

(***************************************************************************)
(* Who starts, stops and replaces replicas, and the server's index.        *)
(***************************************************************************)
Index ==
  /\ visible # DOMAIN schedules
  /\ visible' = DOMAIN schedules
  /\ UNCHANGED <<plan, deployed, schedules, starting, emission, telemetry, faults>>

Deploy ==
  /\ deployed < Len(plan.versions)
  /\ deployed' = deployed + 1
  /\ UNCHANGED <<plan, server, starting, emission, telemetry, faults>>

\* A replica that serves is asked to stop: its workers stop, then telemetry.
Stop(p) ==
  /\ pc[p] = "serve" /\ version[p] < deployed
  /\ holder # p
  /\ pc' = [pc EXCEPT ![p] = "down"]
  /\ Gone(p)
  /\ UNCHANGED <<plan, deployed, server, version, at, listed, faults>>

Crash(p) ==
  /\ pc[p] # "down" /\ faults.crashes < plan.crashes
  /\ faults' = [faults EXCEPT !.crashes = @ + 1]
  /\ pc' = [pc EXCEPT ![p] = "down"]
  /\ Gone(p)
  /\ UNCHANGED <<plan, deployed, server, version, at, listed>>

(***************************************************************************)
(* A workflow of two workflow tasks, with an activity between them, and    *)
(* its events. The second task is executed by a replica that has the       *)
(* workflow in its cache, or from the start.                               *)
(***************************************************************************)
Tasks == <<<<"workflow.started", "task.started">>, <<"task.completed", "workflow.completed">>>>
Events == Range(FlattenSeq(Tasks))

\* Mutant: a disabled client ends the loop over the clients.
AddresseesBeforeDisabled ==
  LET enabled == SelectSeq(plan.clients, LAMBDA c : ~c.disabled)
  IN IF plan.clients # <<>> /\ Head(plan.clients).disabled THEN <<>> ELSE enabled

\* An event goes to every client that is not disabled, in their order.
Addressees == SelectSeq(plan.clients, LAMBDA c : ~c.disabled)
Emit(event) == [i \in DOMAIN Addressees |-> <<Addressees[i].name, event>>]
EmitAll(events) == FlattenSeq([i \in DOMAIN events |-> Emit(events[i])])

IsReplaying == done > 0

Trigger ==
  /\ plan.fires /\ workflow = "none" /\ DOMAIN schedules # {}
  /\ workflow' = "open"
  /\ UNCHANGED <<plan, deployed, server, starting, done, holder, todo, cached, sent, failed, telemetry, faults>>

\* A run is counted when its code runs for the first time.
IncrementRun(p) == runs' = [runs EXCEPT ![p] = IF IsReplaying THEN @ ELSE @ + 1]

ExecuteTask(p) ==
  /\ pc[p] = "serve" /\ workflow = "open" /\ holder = Nobody
  /\ holder' = p
  /\ todo' = EmitAll(IF p \in cached THEN Tasks[done + 1] ELSE FlattenSeq(SubSeq(Tasks, 1, done + 1)))
  /\ IncrementRun(p)
  /\ UNCHANGED <<plan, deployed, server, starting, workflow, done, cached, sent, failed, reported, past, faults>>

\* A send that fails is logged and counted, and the code goes on.
Send(p) ==
  /\ holder = p /\ todo # <<>>
  /\ todo' = Tail(todo)
  /\ \/ sent' = sent \cup {Head(todo)} /\ UNCHANGED <<failed, faults>>
     \/ /\ faults.failures < plan.failures
        /\ faults' = [faults EXCEPT !.failures = @ + 1]
        /\ failed' = failed \cup {Head(todo)}
        /\ UNCHANGED sent
  /\ UNCHANGED <<plan, deployed, server, starting, workflow, done, holder, cached, telemetry>>

CompleteTask(p) ==
  /\ holder = p /\ todo = <<>>
  /\ done' = done + 1
  /\ workflow' = IF done' = Len(Tasks) THEN "closed" ELSE workflow
  /\ holder' = Nobody
  /\ cached' = {p}
  /\ UNCHANGED <<plan, deployed, server, starting, todo, sent, failed, telemetry, faults>>

Evict(p) ==
  /\ p \in cached /\ holder # p
  /\ cached' = cached \ {p}
  /\ UNCHANGED <<plan, deployed, server, starting, workflow, done, holder, todo, sent, failed, telemetry, faults>>

\* The first run starts the heartbeat, which reports a count that has changed.
Heartbeat(p) ==
  /\ pc[p] = "serve" /\ runs[p] # reported[p]
  /\ reported' = [reported EXCEPT ![p] = runs[p]]
  /\ UNCHANGED <<plan, deployed, server, starting, emission, runs, past, faults>>

Startup(p) == GetScheduleInfo(p) \/ DeleteOldSchedules(p) \/ Create(p) \/ StartWorkers(p)
Work(p) == ExecuteTask(p) \/ Send(p) \/ CompleteTask(p)

Next ==
  \/ Index \/ Deploy \/ Trigger
  \/ \E p \in Replicas :
       \/ Start(p) \/ Startup(p) \/ Stop(p) \/ Crash(p)
       \/ Work(p) \/ Evict(p) \/ Heartbeat(p)

\* Replicas run, are started again when they are down and replaced when they
\* are old, and the index catches up.
Spec ==
  /\ Init /\ [][Next]_vars
  /\ WF_vars(Index)
  /\ \A p \in Replicas :
       WF_vars(Start(p)) /\ WF_vars(Startup(p)) /\ WF_vars(Stop(p))
       /\ WF_vars(Work(p)) /\ WF_vars(Heartbeat(p))

-----------------------------------------------------------------------------
(***************************************************************************)
(* Properties.                                                             *)
(***************************************************************************)
AsDeployed ==
  \A d \in Documents(deployed) :
    IF Scheduled(d) THEN d.id \in DOMAIN schedules /\ schedules[d.id] = d ELSE d.id \notin DOMAIN schedules

\* Whenever every replica serves the deployed version, its documents have the
\* schedules that they ask for and no other version's, whatever the replicas
\* did to each other's schedules while they started, and however old the list
\* was that they deleted from (schedules.go:41, schedules.go:69).
ServedIsScheduled ==
  (\A p \in Replicas : pc[p] = "serve" /\ version[p] = deployed) => AsDeployed

\* Starts that fail because of one another, crash or delete the schedule of
\* another replica come to an end: a version that can be served is, and with
\* its schedules (command.go:135, schedules.go:119).
Servable(v) ==
  /\ ~\E c \in Range(plan.clients) : LoadFails(c)
  /\ \A d \in Documents(v) : d.readable /\ d.builds /\ (Scheduled(d) => d.named /\ ~SpecFails(d))
Settles == <>[](Servable(deployed) => AsDeployed /\ \A p \in Replicas : pc[p] = "serve")

\* A workflow that a schedule has started completes although events cannot be sent
\* and replicas crash. By then every enabled client was sent every event, or
\* its failure was logged; and the run was counted once, but for runs whose
\* first workflow task was lost with its replica, and every replica has
\* reported what it counted (events.go:74, task_builder_do.go:323).
Counted == past + FoldFunction(+, 0, runs)
Accounted ==
  (workflow = "open") ~>
    /\ workflow = "closed"
    /\ \A c \in Range(plan.clients) : \A e \in Events : ~c.disabled => <<c.name, e>> \in sent \cup failed
    /\ Counted \in 1..(1 + faults.crashes)
    /\ reported = runs
=============================================================================
