-------------------------------- MODULE Fork --------------------------------
(***************************************************************************)
(* One `fork` task: ForkTaskBuilder.exec from the moment its branches are  *)
(* started as child workflows until it returns.                            *)
(*                                                                         *)
(* A workflow task brings a batch of branch results, and at most one       *)
(* cancellation of the workflow, to a set of coroutines that share the     *)
(* forkState: the root, which waits in workflow.Await, and one goroutine   *)
(* per branch. The SDK runs the root first and then the goroutines that a  *)
(* result has made ready, round after round until all of them are blocked. *)
(* The goroutines were started by a range over a Go map, so they run in    *)
(* any order, and in another one when the history is replayed.             *)
(***************************************************************************)
CONSTANTS
  Branches,   \* the branches of the fork
  NoBranch    \* nil

ASSUME ForkAssumption ==
  /\ Branches # {}
  /\ NoBranch \notin Branches

VARIABLES
  compete,    \* the `compete` flag of the task; never changes
  pc,         \* where exec is: in its Await, waiting for branches, or returned
  exit,       \* what exec is going to return
  status,     \* how each child workflow closed, if it has
  asked,      \* branches that have been asked to cancel
  cancelled,  \* the workflow's context is cancelled
  turn,       \* who runs: the server ("idle"), the root, the goroutines
  seen,       \* branches whose future is ready
  batch,      \* branches whose future this workflow task made ready
  todo,       \* those of them whose goroutine has not run yet
  replyErr,   \* fs.replyErr: the branch whose error it is
  endBy,      \* fs.endSeen and fs.endOutput: the branch they are from
  winner,     \* fs.winningCtx
  replied,    \* fs.hasReplied
  output,     \* fs.output: the branches whose data is in it
  rivals,     \* history: who else could have been the winner
  culprits,   \* history: whose error replyErr could have been
  enders      \* history: whose end could have been the first

vars == <<compete, pc, exit, status, asked, cancelled, turn, seen, batch, todo,
          replyErr, endBy, winner, replied, output, rivals, culprits, enders>>

fs == <<replyErr, endBy, winner, replied, output, rivals, culprits, enders>>

Outcomes == {"completed", "ended", "failed", "canceled"}

Maybe == Branches \cup {NoBranch}

TypeOK ==
  /\ compete \in BOOLEAN
  /\ pc \in {"await", "drain", "returned"}
  /\ exit \in {"none", "output", "end", "error", "canceled"}
  /\ status \in [Branches -> Outcomes \cup {"open"}]
  /\ asked \subseteq Branches
  /\ cancelled \in BOOLEAN
  /\ turn \in {"idle", "root", "goroutines"}
  /\ seen \subseteq Branches
  /\ batch \subseteq seen
  /\ todo \subseteq batch
  /\ replyErr \in Maybe /\ endBy \in Maybe /\ winner \in Maybe
  /\ replied \subseteq seen
  /\ output \subseteq replied
  /\ rivals \subseteq Branches /\ culprits \subseteq Branches
  /\ enders \subseteq Branches

Closed(b) == status[b] # "open"

Init ==
  /\ compete \in BOOLEAN
  /\ pc = "await"
  /\ exit = "none"
  /\ status = [b \in Branches |-> "open"]
  /\ asked = {}
  /\ cancelled = FALSE
  /\ turn = "idle"
  /\ seen = {} /\ batch = {} /\ todo = {}
  /\ replyErr = NoBranch /\ endBy = NoBranch /\ winner = NoBranch
  /\ replied = {} /\ output = {} /\ rivals = {} /\ culprits = {}
  /\ enders = {}

-----------------------------------------------------------------------------
(* The branches and the server *)

\* A branch can also fail to start, be cancelled or terminated on its own, or
\* return something that is not an object, which the fork reads as a failure.
BranchCloses(b, how) ==
  /\ ~Closed(b)
  /\ status' = [status EXCEPT ![b] = how]
  /\ UNCHANGED <<compete, pc, exit, asked, cancelled, turn, seen, batch, todo,
                 fs>>

\* A workflow task starts with everything that has happened since the last one.
\* The branch contexts are children of the workflow's context.
WorkflowTask(cancel) ==
  /\ turn = "idle"
  /\ pc # "returned"
  /\ cancel => ~cancelled
  /\ batch' = {b \in Branches : Closed(b) /\ b \notin seen}
  /\ cancel \/ batch' # {}
  /\ todo' = batch'
  /\ seen' = seen \cup batch'
  /\ cancelled' = (cancelled \/ cancel)
  /\ asked' = IF cancel THEN Branches ELSE asked
  /\ turn' = "root"
  /\ UNCHANGED <<compete, pc, exit, status, fs>>

\* The history is replayed, in a worker that has not cached the workflow, while
\* exec waits or a later task does: every batch is handled again, in the order
\* of this map range.
Replay ==
  /\ turn = "idle" \/ pc = "returned"
  /\ IF rivals = {} THEN UNCHANGED winner ELSE winner' \in rivals
  /\ IF culprits = {} THEN UNCHANGED replyErr ELSE replyErr' \in culprits
  /\ IF enders = {} THEN UNCHANGED endBy ELSE endBy' \in enders
  /\ output' = IF compete /\ winner # NoBranch THEN {winner'} ELSE output
  /\ UNCHANGED <<compete, pc, exit, status, asked, cancelled, turn, seen,
                 batch, todo, replied, rivals, culprits, enders>>

-----------------------------------------------------------------------------
(* The goroutine of one branch *)

\* Mutant: a genuine failure is only logged.
HandleBranchErrorSwallowing(b) ==
  \/ /\ status[b] = "canceled"
     /\ replyErr' = IF replyErr = NoBranch THEN b ELSE replyErr
     /\ culprits' = IF replyErr = NoBranch
                    THEN {c \in batch : status[c] = "canceled"} ELSE culprits
     /\ UNCHANGED <<endBy, enders>>
  \/ /\ status[b] = "ended"
     /\ endBy' = IF endBy = NoBranch THEN b ELSE endBy
     /\ enders' = IF endBy = NoBranch
                  THEN {c \in batch : status[c] = "ended"} ELSE enders
     /\ UNCHANGED <<replyErr, culprits>>
  \/ /\ status[b] \in {"failed", "completed"}
     /\ UNCHANGED <<replyErr, culprits, endBy, enders>>

\* Mutant: the first error is kept, whether a failure or a cancellation.
HandleBranchErrorFirstKept(b) ==
  \/ /\ status[b] \in {"canceled", "failed"}
     /\ replyErr' = IF replyErr = NoBranch THEN b ELSE replyErr
     /\ culprits' = IF replyErr = NoBranch
                    THEN {c \in batch : status[c] \in {"canceled", "failed"}}
                    ELSE culprits
     /\ UNCHANGED <<endBy, enders>>
  \/ /\ status[b] = "ended"
     /\ endBy' = IF endBy = NoBranch THEN b ELSE endBy
     /\ enders' = IF endBy = NoBranch
                  THEN {c \in batch : status[c] = "ended"} ELSE enders
     /\ UNCHANGED <<replyErr, culprits>>
  \/ /\ status[b] = "completed"
     /\ UNCHANGED <<replyErr, culprits, endBy, enders>>

\* A cancellation is kept only if there is no error yet, and so is the first
\* `end`; a failure replaces whatever error there is.
HandleBranchError(b) ==
  \/ /\ status[b] = "canceled"
     /\ replyErr' = IF replyErr = NoBranch THEN b ELSE replyErr
     /\ culprits' = IF replyErr = NoBranch
                    THEN {c \in batch : status[c] = "canceled"} ELSE culprits
     /\ UNCHANGED <<endBy, enders>>
  \/ /\ status[b] = "ended"
     /\ endBy' = IF endBy = NoBranch THEN b ELSE endBy
     /\ enders' = IF endBy = NoBranch
                  THEN {c \in batch : status[c] = "ended"} ELSE enders
     /\ UNCHANGED <<replyErr, culprits>>
  \/ /\ status[b] = "failed"
     /\ replyErr' = b
     /\ culprits' = {c \in batch : status[c] = "failed"}
     /\ UNCHANGED <<endBy, enders>>
  \/ /\ status[b] = "completed"
     /\ UNCHANGED <<replyErr, culprits, endBy, enders>>

\* The branches of this batch that get as far as recordReply.
Replying == {b \in batch : status[b] \in {"completed", "failed"}}

\* Mutant: every reply of a competing fork is copied into the output.
RecordReplyOfLosers(b) ==
  /\ replied' = replied \cup {b}
  /\ winner' = IF compete /\ winner = NoBranch THEN b ELSE winner
  /\ rivals' = IF compete /\ winner = NoBranch THEN Replying ELSE rivals
  /\ output' = output \cup {b}

\* The first reply of a competing fork wins; otherwise every branch
\* contributes. The winner is set even when the reply is a failure.
RecordReply(b) ==
  /\ replied' = replied \cup {b}
  /\ winner' = IF compete /\ winner = NoBranch THEN b ELSE winner
  /\ rivals' = IF compete /\ winner = NoBranch THEN Replying ELSE rivals
  /\ output' = IF ~compete \/ winner = NoBranch THEN output \cup {b} ELSE output

Goroutine(b) ==
  /\ turn = "goroutines"
  /\ b \in todo
  /\ HandleBranchError(b)
  /\ IF b \in Replying THEN RecordReply(b)
     ELSE UNCHANGED <<winner, replied, output, rivals>>
  /\ todo' = todo \ {b}
  /\ turn' = IF todo' = {} THEN "root" ELSE turn
  /\ UNCHANGED <<compete, pc, exit, status, asked, cancelled, seen, batch>>

-----------------------------------------------------------------------------
(* The root coroutine *)

\* awaitCondition
Decided ==
  \/ replyErr # NoBranch
  \/ endBy # NoBranch
  \/ IF compete THEN winner # NoBranch ELSE replied = Branches

\* Mutant: the branches are awaited, but not cancelled.
ForgetToCancel ==
  /\ pc' = "drain"
  /\ UNCHANGED asked

\* cancelBranchesAndAwait: every branch is cancelled, and the root waits.
CancelBranches ==
  /\ asked' = Branches
  /\ pc' = "drain"

Root ==
  /\ turn = "root"
  /\ UNCHANGED <<compete, status, cancelled, seen, batch, todo, fs>>

ReportError ==
  /\ Root
  /\ pc = "await" /\ replyErr # NoBranch
  /\ exit' = "error"
  /\ CancelBranches
  /\ UNCHANGED turn

\* The other branches are left alone.
ReportEnd ==
  /\ Root
  /\ pc = "await" /\ replyErr = NoBranch /\ endBy # NoBranch
  /\ exit' = "end"
  /\ pc' = "returned"
  /\ UNCHANGED <<asked, turn>>

ReportOutput ==
  /\ Root
  /\ pc = "await" /\ Decided /\ replyErr = NoBranch /\ endBy = NoBranch
  /\ exit' = "output"
  /\ IF compete THEN CancelBranches ELSE pc' = "returned" /\ UNCHANGED asked
  /\ UNCHANGED turn

\* Mutant: the workflow does not wait for its branches when it is cancelled.
AwaitCancelledReturning ==
  /\ Root
  /\ pc = "await" /\ ~Decided /\ cancelled
  /\ exit' = "canceled"
  /\ pc' = "returned"
  /\ UNCHANGED <<asked, turn>>

\* Await looks at its condition first, then at its context.
AwaitCancelled ==
  /\ Root
  /\ pc = "await" /\ ~Decided /\ cancelled
  /\ exit' = "canceled"
  /\ pc' = "drain"
  /\ UNCHANGED <<asked, turn>>

\* awaitBranchesCancelled is over.
Drained ==
  /\ Root
  /\ pc = "drain" /\ seen = Branches
  /\ pc' = "returned"
  /\ UNCHANGED <<exit, asked, turn>>

Yield ==
  /\ Root
  /\ IF pc = "await" THEN ~Decided /\ ~cancelled ELSE pc = "drain" /\ seen # Branches
  /\ turn' = IF todo = {} THEN "idle" ELSE "goroutines"
  /\ UNCHANGED <<pc, exit, asked>>

-----------------------------------------------------------------------------

Coroutines == \/ \E b \in Branches : Goroutine(b)
              \/ ReportError \/ ReportEnd \/ ReportOutput
              \/ AwaitCancelled \/ Drained \/ Yield

Next ==
  \/ \E b \in Branches, how \in Outcomes : BranchCloses(b, how)
  \/ \E cancel \in BOOLEAN : WorkflowTask(cancel)
  \/ Replay
  \/ Coroutines

Spec == Init /\ [][Next]_vars

\* A branch may run for ever, until it is cancelled: then it closes. What has
\* happened is brought to the workflow, and a workflow task runs to its end.
FairSpec ==
  /\ Spec
  /\ \A b \in Branches :
       WF_vars(b \in asked /\ \E how \in Outcomes : BranchCloses(b, how))
  /\ WF_vars(WorkflowTask(FALSE))
  /\ WF_vars(Coroutines)

-----------------------------------------------------------------------------
(* Properties *)

\* A fork that fails, is cancelled or returns an output leaves no branch
\* running: a later fork of the same workflow reuses the workflow IDs of its
\* branches ("child workflow execution already started").
ClosedUnlessEnded ==
  pc = "returned" /\ exit # "end" => \A b \in Branches : Closed(b)

\* The output of a fork is that of its winner, and of nobody else, or of all
\* its branches; and the branches that it is from have completed, whatever the
\* others did while they were being cancelled.
OutputIsSound ==
  pc = "returned" /\ exit = "output" =>
    /\ \A b \in output : status[b] = "completed"
    /\ IF compete THEN output = {winner} ELSE output = Branches

\* A fork that returns an output or an `end` has not been told of a branch that
\* failed or was cancelled: neither masks a failure of the same workflow task.
NoFailureMasked ==
  [][pc = "await" /\ exit' \in {"output", "end"}
       => \A b \in seen : status[b] \in {"completed", "ended"}]_vars

\* What decides a fork, or cancels the workflow, makes it return, even if the
\* branches that are left would have run for ever.
Decisive ==
  \/ cancelled
  \/ \E b \in Branches : status[b] \in {"ended", "failed", "canceled"}
  \/ compete /\ \E b \in Branches : status[b] = "completed"
  \/ \A b \in Branches : Closed(b)

Returns == Decisive ~> pc = "returned"

\* The fork keeps what ForkPromise says, over any coroutines, workflow tasks and
\* replays: it returns once, with a result that its branches account for, and
\* a replay changes at most whose it is (task_builder_fork.go:235).
Promise == INSTANCE ForkPromise WITH
  result <- IF pc # "returned" THEN [how |-> "none", by |-> {}]
            ELSE [how |-> exit,
                  by |-> CASE exit = "output" -> output
                           [] exit = "error" -> {replyErr}
                           [] exit = "end" -> {endBy}
                           [] exit = "canceled" -> {}]

ImplementsPromise == Promise!Spec
=============================================================================
