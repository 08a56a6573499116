----------------------------- MODULE Activities -----------------------------
(***************************************************************************)
(* One task that is an activity: a call, or the run of a command, a script *)
(* or a container. The workflow schedules it once; Temporal starts up to   *)
(* MaxAttempts attempts of it, on any worker. An attempt that Temporal has *)
(* given up on goes on until its context ends, so several can be under way.*)
(*                                                                         *)
(* What an attempt starts outside the worker is its box: a request, a      *)
(* process, a Docker container or a Kubernetes Job. The Docker daemon and  *)
(* the cluster keep theirs whatever happens to the worker.                 *)
(*                                                                         *)
(* Temporal, the Docker daemon and the cluster are not part of this        *)
(* repository; they are modelled as the code uses them.                    *)
(***************************************************************************)
EXTENDS Naturals, Sequences

CONSTANTS
  MaxAttempts,  \* RetryPolicy.MaximumAttempts
  Plans,        \* the tasks
  MaxFaults     \* bound: crashes of a worker, and failures of the cluster

Attempts == 1 .. MaxAttempts

Kinds == {"http", "grpc", "shell", "script", "docker", "kubernetes"}

\* `keeps`: container.lifetime keeps the container after it has ended (never, or
\* eventually; for a Job, eventually means two seconds or more). `named`: the document
\* names the container. `zero`: the heartbeat is a duration of 0, which is also
\* what a duration that is not given in units is taken for.
Task == [kind : Kinds, keeps : BOOLEAN, named : BOOLEAN, zero : BOOLEAN]

ASSUME ActivitiesAssumption ==
  /\ MaxAttempts \in Nat \ {0}
  /\ Plans \subseteq Task
  /\ MaxFaults \in Nat

VARIABLES
  task,      \* the task
  answer,    \* what the workflow has got from the activity
  output,    \* whose output that is: the attempt, and the one whose pod was read
  server,    \* the activity at Temporal
  cur,       \* the attempt that Temporal has started last
  pc,        \* where each attempt is
  expired,   \* attempts whose context has ended
  report,    \* what each attempt will return
  box,       \* what each attempt has started
  code,      \* how that ended: exit code, Job condition, HTTP status
  pods,      \* pods that the cluster has had, the oldest first, by the attempt whose Job they are of
  read,      \* the pod that an attempt has read the logs of
  files,     \* attempts whose temporary directory exists
  conflicts, \* attempts that were refused the name of their container
  cut,       \* how an attempt was cut short, or its cleaning up
  faults     \* number of faults

vars == <<task, answer, output, server, cur, pc, expired, report, box, code, pods,
          read, files, conflicts, cut, faults>>

outside == <<box, code, pods>>
given   == <<task, answer, output, server, cur>>

Statuses == {200, 302, 404, 408, 429, 500, 501}

\* What is left of an exit code, the condition of a Job, the answer of a gRPC server.
None      == 0
Succeeded == 1
Failed    == 2

Cuts == {"no", "crashed", "killed", "abandoned", "unsure", "undeleted"}

TypeOK ==
  /\ task \in Plans
  /\ answer \in {"none", "completed", "failed", "canceled"}
  /\ output \in [attempt : {0} \cup Attempts, of : {0} \cup Attempts]
  /\ server \in {"scheduled", "started", "closed"}
  /\ cur \in {0} \cup Attempts
  /\ pc \in [Attempts -> {"none", "preparing", "executing", "reading", "cleaning",
                          "reporting", "gone"}]
  /\ expired \subseteq Attempts
  /\ report \in [Attempts -> {"none", "ok", "retry", "final"}]
  /\ box \in [Attempts -> {"none", "running", "exited", "deleting", "removed"}]
  /\ code \in [Attempts -> {None, Succeeded, Failed} \cup Statuses]
  /\ pods \in Seq(Attempts)
  /\ read \in [Attempts -> {0} \cup Attempts]
  /\ files \subseteq Attempts
  /\ conflicts \subseteq Attempts
  /\ cut \in [Attempts -> Cuts]
  /\ faults \in 0 .. MaxFaults
  /\ \A a \in Attempts : pc[a] = "none" <=> a > cur
  /\ server = "closed" <=> answer # "none"

Init ==
  /\ task \in Plans
  /\ answer = "none"
  /\ output = [attempt |-> 0, of |-> 0]
  /\ server = "scheduled"
  /\ cur = 0
  /\ pc = [a \in Attempts |-> "none"]
  /\ expired = {}
  /\ report = [a \in Attempts |-> "none"]
  /\ box = [a \in Attempts |-> "none"]
  /\ code = [a \in Attempts |-> None]
  /\ pods = <<>>
  /\ read = [a \in Attempts |-> 0]
  /\ files = {}
  /\ conflicts = {}
  /\ cut = [a \in Attempts |-> "no"]
  /\ faults = 0

-----------------------------------------------------------------------------
(* The workflow and Temporal *)

\* The inputs cannot be resolved: nothing is scheduled (activityArgs).
InputsFail ==
  /\ server = "scheduled" /\ cur = 0
  /\ answer' = "failed"
  /\ server' = "closed"
  /\ UNCHANGED <<task, output, cur, pc, expired, report, outside, read, files, conflicts,
                 cut, faults>>

StartAttempt ==
  /\ server = "scheduled" /\ cur < MaxAttempts
  /\ server' = "started"
  /\ cur' = cur + 1
  /\ pc' = [pc EXCEPT ![cur'] = "preparing"]
  /\ files' = IF task.kind = "script" THEN files \cup {cur'} ELSE files
  /\ UNCHANGED <<task, answer, output, expired, report, outside, read, conflicts, cut, faults>>

\* Temporal closes the activity, or will start another attempt.
Settle(outcome) ==
  IF outcome = "retry" /\ cur < MaxAttempts
    THEN server' = "scheduled" /\ UNCHANGED <<answer, output>>
    ELSE /\ server' = "closed"
         /\ answer' = IF outcome = "ok" THEN "completed" ELSE "failed"
         /\ output' = IF outcome = "ok" THEN [attempt |-> cur, of |-> read[cur]] ELSE output

\* The start-to-close or the heartbeat timeout. The attempt does not notice.
AttemptTimesOut ==
  /\ server = "started"
  /\ Settle("retry")
  /\ cut' = [cut EXCEPT ![cur] = IF @ = "no" THEN "abandoned" ELSE @]
  /\ UNCHANGED <<task, cur, pc, expired, report, outside, read, files, conflicts, faults>>

\* The workflow is cancelled. The options do not ask it to wait for the activity
\* (executeActivity, executeCommand): the task returns the cancellation at once.
Cancel ==
  /\ answer = "none"
  /\ answer' = "canceled"
  /\ server' = "closed"
  /\ UNCHANGED <<task, output, cur, pc, expired, report, outside, read, files, conflicts,
                 cut, faults>>

-----------------------------------------------------------------------------
(* An attempt *)

Live(a) == pc[a] \notin {"none", "gone"}

\* Its deadline has come, its worker is stopped, or a heartbeat has been answered
\* with the news that Temporal does not wait for it any more.
ContextEnds(a) ==
  /\ Live(a) /\ a \notin expired
  /\ expired' = expired \cup {a}
  /\ UNCHANGED <<given, pc, report, outside, read, files, conflicts, cut, faults>>

\* What can go wrong before anything is started, and whether it is worth a retry.
\* kubernetes: volumes, the client, the creation of the Job / arguments and
\* environment. docker: no docker, environment / volumes, image, arguments. script:
\* directory, language, source. shell: arguments. http: with. grpc: inputs and
\* proto file / connection.
PrepareErrors(kind) ==
  CASE kind \in {"kubernetes", "docker", "grpc"} -> {"retry", "final"}
    [] OTHER -> {"retry"}

\* Where an attempt goes that has something to clean up behind it.
Deferred(kind) == IF kind \in {"kubernetes", "script"} THEN "cleaning" ELSE "reporting"

Returns(a, outcome, next) ==
  /\ report' = [report EXCEPT ![a] = outcome]
  /\ pc' = [pc EXCEPT ![a] = next]

PrepareFails(a) ==
  /\ pc[a] = "preparing"
  /\ \E e \in PrepareErrors(task.kind) :
       Returns(a, e, IF task.kind = "script" THEN "cleaning" ELSE "reporting")
  /\ UNCHANGED <<given, expired, outside, read, files, conflicts, cut, faults>>

\* docker run --name: the daemon refuses a name that a container has. A document
\* that gives no name gets a new one for each attempt.
NameTaken(a) ==
  task.kind = "docker" /\ task.named /\ \E b \in Attempts : box[b] \in {"running", "exited"}

\* CommandContext and the clients refuse to start with a context that has ended;
\* for a Job, that is an error of its creation, after which there is no retry.
Launch(a) ==
  /\ pc[a] = "preparing" /\ a \notin expired /\ ~NameTaken(a)
  /\ box' = [box EXCEPT ![a] = "running"]
  /\ pods' = IF task.kind = "kubernetes" THEN Append(pods, a) ELSE pods
  /\ pc' = [pc EXCEPT ![a] = "executing"]
  /\ UNCHANGED <<given, expired, report, code, read, files, conflicts, cut, faults>>

LaunchRefused(a) ==
  /\ pc[a] = "preparing"
  /\ a \in expired \/ NameTaken(a)
  /\ conflicts' = IF a \in expired THEN conflicts ELSE conflicts \cup {a}
  /\ Returns(a, IF task.kind = "kubernetes" THEN "final" ELSE "retry",
             IF task.kind = "script" THEN "cleaning" ELSE "reporting")
  /\ UNCHANGED <<given, expired, outside, read, files, cut, faults>>

\* The Job is created, and the answer lost: the attempt knows of no Job.
LaunchUnsure(a) ==
  /\ pc[a] = "preparing" /\ task.kind = "kubernetes"
  /\ faults < MaxFaults /\ faults' = faults + 1
  /\ box' = [box EXCEPT ![a] = "running"]
  /\ pods' = Append(pods, a)
  /\ cut' = [cut EXCEPT ![a] = "unsure"]
  /\ Returns(a, "final", "reporting")
  /\ UNCHANGED <<given, expired, code, read, files, conflicts>>

\* retryableHTTPStatusCodes, nonRetryableHTTPStatusCodes and the ranges.
ClassifyHTTPStatus(status) ==
  CASE status \in {408, 429} -> "retry"
    [] status = 501 -> "final"
    [] status \in 300 .. 499 -> "final"
    [] status \in 500 .. 599 -> "retry"
    [] OTHER -> "ok"

Outcome(c) ==
  CASE c \in Statuses -> ClassifyHTTPStatus(c)
    [] c = Succeeded -> "ok"
    [] OTHER -> "retry"

\* The command has exited, or the call has been answered.
Observes(a) ==
  /\ pc[a] = "executing" /\ task.kind # "kubernetes" /\ code[a] # None
  /\ Returns(a, Outcome(code[a]), Deferred(task.kind))
  /\ read' = [read EXCEPT ![a] = a]
  /\ UNCHANGED <<given, expired, outside, files, conflicts, cut, faults>>

\* Mutant: the command is started without the context, and goes on.
InterruptedAlone(a) ==
  /\ pc[a] = "executing" /\ task.kind # "kubernetes" /\ a \in expired
  /\ Returns(a, "retry", Deferred(task.kind))
  /\ UNCHANGED <<given, expired, outside, read, files, conflicts, cut, faults>>

\* The context ends first: the request is dropped, the process is killed. The
\* process of a container is the docker command, which leaves the container alone.
Interrupted(a) ==
  /\ pc[a] = "executing" /\ task.kind # "kubernetes" /\ a \in expired
  /\ Returns(a, "retry", Deferred(task.kind))
  /\ IF task.kind = "docker"
       THEN cut' = [cut EXCEPT ![a] = "killed"] /\ UNCHANGED box
       ELSE box' = [box EXCEPT ![a] = "removed"] /\ UNCHANGED cut
  /\ UNCHANGED <<given, expired, code, pods, read, files, conflicts, faults>>

\* The poll sees that the Job is complete.
JobCompletes(a) ==
  /\ pc[a] = "executing" /\ task.kind = "kubernetes" /\ code[a] = Succeeded
  /\ pc' = [pc EXCEPT ![a] = "reading"]
  /\ UNCHANGED <<given, expired, report, outside, read, files, conflicts, cut, faults>>

\* Mutant: the poll does not look at the context.
WaitFailsOnlyWithJob(a) ==
  /\ pc[a] = "executing" /\ task.kind = "kubernetes" /\ code[a] = Failed
  /\ Returns(a, "retry", "cleaning")
  /\ UNCHANGED <<given, expired, outside, read, files, conflicts, cut, faults>>

\* The Job has failed, or the context ends while the poll waits.
WaitFails(a) ==
  /\ pc[a] = "executing" /\ task.kind = "kubernetes"
  /\ code[a] = Failed \/ a \in expired
  /\ Returns(a, "retry", "cleaning")
  /\ UNCHANGED <<given, expired, outside, read, files, conflicts, cut, faults>>

\* A call of the cluster fails while the attempt polls or reads.
ClusterFails(a) ==
  /\ pc[a] \in {"executing", "reading"} /\ task.kind = "kubernetes"
  /\ faults < MaxFaults /\ faults' = faults + 1
  /\ Returns(a, "retry", "cleaning")
  /\ UNCHANGED <<given, expired, outside, read, files, conflicts, cut>>

\* The pods of a Job are deleted with it.
Existing == {i \in DOMAIN pods : box[pods[i]] # "removed"}

Newest(is) == IF is = {} THEN 0 ELSE pods[CHOOSE i \in is : \A j \in is : j <= i]

\* Mutant: the labels are trusted.
NewestPodLabelled(a) == Newest(Existing)

\* The newest of the pods whose controller is the Job of the attempt; the labels
\* that the list is filtered by are the same for all attempts.
NewestPodControlledBy(a) == Newest({i \in Existing : pods[i] = a})

ReadLogs(a) ==
  /\ pc[a] = "reading"
  /\ LET pod == NewestPodControlledBy(a)
     IN  /\ Returns(a, IF pod = 0 \/ a \in expired THEN "retry" ELSE "ok", "cleaning")
         /\ read' = [read EXCEPT ![a] = pod]
  /\ UNCHANGED <<given, expired, outside, files, conflicts, cut, faults>>

\* Mutant: the Job is deleted with the context of the attempt.
DeleteJobUnlessExpired(a) ==
  box' = IF task.keeps \/ a \in expired THEN box ELSE [box EXCEPT ![a] = "deleting"]

\* The deferred deleteJob, whose context cannot be cancelled.
DeleteJob(a) ==
  box' = IF task.keeps THEN box ELSE [box EXCEPT ![a] = "deleting"]

\* What is deferred: the Job, the directory of the script.
CleanUp(a) ==
  /\ pc[a] = "cleaning"
  /\ pc' = [pc EXCEPT ![a] = "reporting"]
  /\ IF task.kind = "kubernetes" THEN DeleteJob(a) ELSE UNCHANGED box
  /\ files' = files \ {a}
  /\ UNCHANGED <<given, expired, report, code, pods, read, conflicts, cut, faults>>

\* The Job is not deleted: this is only logged.
CleanUpFails(a) ==
  /\ pc[a] = "cleaning" /\ task.kind = "kubernetes" /\ ~task.keeps
  /\ faults < MaxFaults /\ faults' = faults + 1
  /\ pc' = [pc EXCEPT ![a] = "reporting"]
  /\ cut' = [cut EXCEPT ![a] = "undeleted"]
  /\ UNCHANGED <<given, expired, report, outside, read, files, conflicts>>

\* Temporal has no use for what an attempt returns that it does not wait for.
Reports(a) ==
  /\ pc[a] = "reporting"
  /\ pc' = [pc EXCEPT ![a] = "gone"]
  /\ IF server = "started" /\ cur = a
       THEN Settle(report[a])
       ELSE UNCHANGED <<answer, output, server>>
  /\ UNCHANGED <<task, cur, expired, report, outside, read, files, conflicts, cut, faults>>

\* A worker's process ends, with a and some other attempts. A process that it has
\* started may go on without it.
Dies(a) ==
  /\ \E others \in SUBSET {b \in Attempts : Live(b)} :
       LET dead == others \cup {a}
       IN  /\ pc' = [b \in Attempts |-> IF b \in dead THEN "gone" ELSE pc[b]]
           /\ cut' = [b \in Attempts |-> IF b \in dead THEN "crashed" ELSE cut[b]]
  /\ UNCHANGED <<given, expired, report, outside, read, files, conflicts>>

Crash(a) == Live(a) /\ faults < MaxFaults /\ faults' = faults + 1 /\ Dies(a)

\* ExecuteEvery makes a ticker of the heartbeat, in a goroutine: one of 0 panics.
TickerPanics(a) ==
  /\ task.zero
  /\ pc[a] \in {"preparing", "executing"} \/ (Live(a) /\ box[a] # "none")
  /\ Dies(a)
  /\ UNCHANGED faults

-----------------------------------------------------------------------------
(* What the attempts have started *)

Codes == IF task.kind = "http" THEN Statuses ELSE {Succeeded, Failed}

\* Mutant: only a document that mentions a lifetime gets --rm.
AfterExitWithoutRm(a) == IF task.kind \in {"docker", "kubernetes"} THEN "exited" ELSE "removed"

\* With --rm the daemon removes the container before the docker command returns.
AfterExit(a) ==
  CASE task.kind = "kubernetes" -> "exited"
    [] task.kind = "docker" -> IF task.keeps THEN "exited" ELSE "removed"
    [] OTHER -> "removed"

BoxEnds(a) ==
  /\ box[a] = "running"
  /\ \E c \in Codes : code' = [code EXCEPT ![a] = c]
  /\ box' = [box EXCEPT ![a] = AfterExit(a)]
  /\ UNCHANGED <<given, pc, expired, report, pods, read, files, conflicts, cut, faults>>

\* The cluster deletes a Job and its pods, as it has been asked to.
Removed(a) ==
  /\ box' = [box EXCEPT ![a] = "removed"]
  /\ UNCHANGED <<given, pc, expired, report, code, pods, read, files, conflicts, cut, faults>>

ClusterDeletes(a) == box[a] = "deleting" /\ Removed(a)

\* ... or after TTLSecondsAfterFinished.
ClusterExpires(a) == task.kind = "kubernetes" /\ task.keeps /\ box[a] = "exited" /\ Removed(a)

Attempt(a) ==
  \/ PrepareFails(a) \/ Launch(a) \/ LaunchRefused(a)
  \/ Observes(a) \/ Interrupted(a)
  \/ JobCompletes(a) \/ WaitFails(a) \/ ReadLogs(a)
  \/ CleanUp(a) \/ Reports(a)

Next ==
  \/ InputsFail \/ StartAttempt \/ AttemptTimesOut \/ Cancel
  \/ \E a \in Attempts :
       \/ ContextEnds(a) \/ Attempt(a)
       \/ LaunchUnsure(a) \/ ClusterFails(a) \/ CleanUpFails(a) \/ Crash(a) \/ TickerPanics(a)
       \/ BoxEnds(a) \/ ClusterDeletes(a) \/ ClusterExpires(a)

Spec == Init /\ [][Next]_vars

-----------------------------------------------------------------------------
(* Properties *)

\* What the workflow gets from a container on Kubernetes is what the pod of that
\* very attempt has written, although the pods of all attempts, of those that are
\* still under way and of Jobs that are kept, carry the same labels.
OutputIsOwn == output.of = output.attempt

\* An attempt that has come to its end has left nothing behind that it should have
\* removed: no Job but one that the document keeps, or whose creation or deletion
\* went wrong; no container but one whose docker command was killed; no process; and
\* no directory of a script.
NothingLeft ==
  \A a \in Attempts :
    pc[a] = "gone" /\ cut[a] \in {"no", "abandoned"} =>
      /\ box[a] \in {"none", "deleting", "removed"} \/ task.keeps
      /\ a \notin files

\* An attempt is refused the name of its container only if an earlier one was cut
\* short, or the document keeps its containers: after an attempt that has merely
\* failed, the name is free.
NameIsFreed ==
  conflicts # {} =>
    \/ task.keeps
    \/ \E b \in Attempts : b < cur /\ cut[b] \in {"crashed", "killed", "abandoned"}

\* In the end the workflow has an answer and nothing runs any more that an attempt
\* has started, whatever the workflow is cancelled for and however long it would
\* run, unless the document keeps it or the attempt was cut short.
SettlesDown ==
  <>[](/\ answer # "none"
       /\ \A a \in Attempts :
            box[a] = "running" => task.keeps \/ cut[a] \notin {"no", "abandoned"})

\* Temporal starts attempts and times them out; an attempt runs, and its context
\* ends at the latest at its deadline; the cluster deletes what it is asked to.
\* Nothing is assumed of what the attempts have started: it may run for ever.
FairSpec ==
  /\ Spec
  /\ WF_vars(StartAttempt) /\ WF_vars(AttemptTimesOut)
  /\ \A a \in Attempts :
       /\ WF_vars(ContextEnds(a))
       /\ WF_vars(Attempt(a))
       /\ WF_vars(ClusterDeletes(a))
=============================================================================
