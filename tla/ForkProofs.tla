----------------------------- MODULE ForkProofs -----------------------------
(***************************************************************************)
(* Proofs about Fork, for any set of branches, competing or not.           *)
(***************************************************************************)
EXTENDS Fork, TLAPS

Succeeds(b) == status[b] = "completed"

Fails(b) == status[b] \in {"failed", "canceled"}

Replies(b) == status[b] \in {"completed", "failed"}

\* Where exec is, and what that says about its result.
Stages ==
  /\ pc = "await" <=> exit = "none"
  /\ exit = "end" => pc = "returned"
  /\ exit = "output" /\ ~compete => pc = "returned"
  /\ pc = "returned" => turn = "root"
  /\ pc = "returned" /\ exit # "end" => seen = Branches

\* A workflow task ends with every result handled; the next one finds the root
\* undecided.
Turns ==
  /\ turn = "idle" => todo = {}
  /\ pc = "await" /\ (turn = "idle" \/ (turn = "root" /\ todo # {})) => ~Decided

\* What is known of a branch whose result has been handled.
Handled ==
  /\ \A b \in seen : Closed(b)
  /\ \A b \in seen \ todo : Fails(b) => replyErr # NoBranch
  /\ \A b \in seen \ todo : Replies(b) => b \in replied
  /\ \A b \in replied : b \notin todo /\ Replies(b)

\* What a replay can replace.
Alternatives ==
  /\ replyErr = NoBranch => culprits = {}
  /\ endBy = NoBranch => enders = {}
  /\ winner = NoBranch => rivals = {}
  /\ winner # NoBranch => compete /\ winner \in rivals
  /\ rivals \subseteq replied \cup todo
  /\ turn # "goroutines" => rivals \subseteq replied
  /\ \A b \in rivals : Replies(b)

\* What is in the output, from the first reply on.
Contributions ==
  /\ output = IF ~compete THEN replied
              ELSE IF winner = NoBranch THEN {} ELSE {winner}
  /\ compete /\ replied # {} => winner # NoBranch
  /\ exit = "output" => \A b \in output \cup rivals : Succeeds(b)
  /\ exit = "output" => IF compete THEN winner # NoBranch ELSE output = Branches

IInv == TypeOK /\ Stages /\ Turns /\ Handled /\ Alternatives /\ Contributions

USE ForkAssumption

LEMMA InitIInv == Init => IInv
  BY DEF Init, IInv, TypeOK, Stages, Turns, Handled, Alternatives,
         Contributions, Outcomes, Maybe, Decided

\* A branch that has been seen has closed, so this is another one.
LEMMA BranchClosesIInv ==
  ASSUME IInv, NEW b \in Branches, NEW how \in Outcomes, BranchCloses(b, how)
  PROVE  IInv'
<1>1. /\ ~Closed(b)
      /\ status' = [status EXCEPT ![b] = how]
      /\ UNCHANGED <<compete, pc, exit, asked, cancelled, turn, seen, batch,
                     todo, replyErr, endBy, winner, replied, output, rivals,
                     culprits, enders>>
  BY DEF BranchCloses, fs
<1>2. TypeOK'
  BY <1>1 DEF IInv, TypeOK, Outcomes, Maybe
<1>3. how # "open"
  BY DEF Outcomes
<1>4. \A c \in seen : status'[c] = status[c]
  BY <1>1 DEF IInv, TypeOK, Handled
<1>5. todo \subseteq seen /\ replied \subseteq seen
      /\ output \subseteq seen /\ rivals \subseteq seen
  BY DEF IInv, TypeOK, Alternatives
<1>6. Stages' /\ Turns'
  BY <1>1 DEF IInv, Stages, Turns, Decided
<1>7. Handled'
  BY <1>1, <1>3, <1>4, <1>5 DEF IInv, Handled, Closed, Fails, Replies
<1>8. Alternatives'
  BY <1>1, <1>4, <1>5 DEF IInv, Alternatives, Replies
<1>9. Contributions'
  BY <1>1, <1>4, <1>5 DEF IInv, Contributions, Succeeds
<1> QED
  BY <1>2, <1>6, <1>7, <1>8, <1>9 DEF IInv

LEMMA WorkflowTaskIInv ==
  ASSUME IInv, NEW cancel \in BOOLEAN, WorkflowTask(cancel)
  PROVE  IInv'
<1>1. /\ turn = "idle" /\ pc # "returned" /\ turn' = "root"
      /\ batch' = {b \in Branches : Closed(b) /\ b \notin seen}
      /\ todo' = batch' /\ seen' = seen \cup batch'
      /\ cancelled' = (cancelled \/ cancel)
      /\ asked' = IF cancel THEN Branches ELSE asked
      /\ UNCHANGED <<compete, pc, exit, status, replyErr, endBy, winner,
                     replied, output, rivals, culprits, enders>>
  BY DEF WorkflowTask, fs
<1>2. todo = {}
  BY <1>1 DEF IInv, Turns
<1>3. TypeOK'
  <2>1. cancelled' \in BOOLEAN
    BY <1>1 DEF IInv, TypeOK
  <2> QED
    BY <1>1, <2>1 DEF IInv, TypeOK, Maybe
<1>4. Stages' /\ Turns'
  BY <1>1 DEF IInv, Stages, Turns, Decided
<1>5. Handled'
  BY <1>1, <1>2 DEF IInv, TypeOK, Handled, Closed, Fails, Replies
<1>6. Alternatives' /\ Contributions'
  BY <1>1, <1>2 DEF IInv, Alternatives, Contributions, Replies, Succeeds
<1> QED
  BY <1>3, <1>4, <1>5, <1>6 DEF IInv

LEMMA ReplayIInv == ASSUME IInv, Replay PROVE IInv'
<1>1. /\ turn = "idle" \/ pc = "returned"
      /\ IF rivals = {} THEN UNCHANGED winner ELSE winner' \in rivals
      /\ IF culprits = {} THEN UNCHANGED replyErr ELSE replyErr' \in culprits
      /\ IF enders = {} THEN UNCHANGED endBy ELSE endBy' \in enders
      /\ output' = IF compete /\ winner # NoBranch THEN {winner'} ELSE output
      /\ UNCHANGED <<compete, pc, exit, status, asked, cancelled, turn, seen,
                     batch, todo, replied, rivals, culprits, enders>>
  BY DEF Replay
<1>2. rivals \subseteq replied
  BY <1>1 DEF IInv, Alternatives, Stages
<1>3. replied \subseteq Branches /\ culprits \subseteq Branches /\ enders \subseteq Branches
  BY DEF IInv, TypeOK
<1>4. /\ winner' = NoBranch <=> winner = NoBranch
      /\ replyErr' = NoBranch <=> replyErr = NoBranch
      /\ endBy' = NoBranch <=> endBy = NoBranch
  BY <1>1, <1>2, <1>3 DEF IInv, Alternatives
<1>5. winner' # NoBranch => winner' \in rivals
  BY <1>1, <1>4 DEF IInv, Alternatives
<1>6. output' = IF ~compete THEN replied
                ELSE IF winner' = NoBranch THEN {} ELSE {winner'}
  BY <1>1, <1>4 DEF IInv, Contributions
<1>7. TypeOK'
  <2>1. /\ replyErr' \in Maybe /\ endBy' \in Maybe /\ winner' \in Maybe
        /\ output' \subseteq replied
    BY <1>1, <1>2, <1>3, <1>5, <1>6 DEF IInv, TypeOK, Maybe
  <2> QED
    BY <1>1, <2>1 DEF IInv, TypeOK
<1>8. Stages' /\ Turns'
  BY <1>1, <1>4 DEF IInv, Stages, Turns, Decided
<1>9. Handled' /\ Alternatives'
  BY <1>1, <1>4, <1>5 DEF IInv, Handled, Alternatives, Closed, Fails, Replies
<1>10. Contributions'
  BY <1>1, <1>4, <1>5, <1>6 DEF IInv, Contributions, Succeeds
<1> QED
  BY <1>7, <1>8, <1>9, <1>10 DEF IInv

LEMMA GoroutineIInv ==
  ASSUME IInv, NEW b \in Branches, Goroutine(b)
  PROVE  IInv'
<1>1. /\ turn = "goroutines" /\ b \in todo /\ todo' = todo \ {b}
      /\ turn' = IF todo' = {} THEN "root" ELSE turn
      /\ UNCHANGED <<compete, pc, exit, status, asked, cancelled, seen, batch>>
  BY DEF Goroutine
<1>2. todo \subseteq batch /\ batch \subseteq seen /\ seen \subseteq Branches
      /\ b \notin replied /\ pc # "returned"
  BY <1>1 DEF IInv, TypeOK, Handled, Stages
<1>3. /\ replyErr' \in Maybe /\ endBy' \in Maybe
      /\ culprits' \subseteq Branches /\ enders' \subseteq Branches
      /\ endBy' = NoBranch => enders' = {}
      /\ replyErr # NoBranch => replyErr' # NoBranch
      /\ Fails(b) => replyErr' # NoBranch
      /\ replyErr' = NoBranch => culprits' = {}
  <2>1. HandleBranchError(b)
    BY DEF Goroutine
  <2>2. replyErr \in Maybe /\ endBy \in Maybe
        /\ culprits \subseteq Branches /\ enders \subseteq Branches
        /\ (replyErr = NoBranch => culprits = {}) /\ (endBy = NoBranch => enders = {})
    BY DEF IInv, TypeOK, Alternatives
  <2>3. CASE status[b] = "canceled"
    BY <1>2, <2>1, <2>2, <2>3 DEF HandleBranchError, Maybe, Fails
  <2>4. CASE status[b] = "ended"
    BY <1>2, <2>1, <2>2, <2>4 DEF HandleBranchError, Maybe, Fails
  <2>5. CASE status[b] = "failed"
    BY <1>2, <2>1, <2>2, <2>5 DEF HandleBranchError, Maybe, Fails
  <2>6. CASE status[b] = "completed"
    BY <1>2, <2>1, <2>2, <2>6 DEF HandleBranchError, Maybe, Fails
  <2> QED
    BY <2>1, <2>3, <2>4, <2>5, <2>6 DEF HandleBranchError
<1>4. CASE b \in Replying
  <2>1. /\ replied' = replied \cup {b}
        /\ winner' = IF compete /\ winner = NoBranch THEN b ELSE winner
        /\ rivals' = IF compete /\ winner = NoBranch THEN Replying ELSE rivals
        /\ output' = IF ~compete \/ winner = NoBranch THEN output \cup {b}
                     ELSE output
    BY <1>4 DEF Goroutine, RecordReply
  <2>2. Replies(b) /\ Replying \subseteq replied' \cup todo'
        /\ \A c \in Replying : Replies(c)
    BY <1>1, <1>2, <1>4, <2>1 DEF IInv, Handled, Replying, Replies
  <2>3. /\ winner' \in Maybe
        /\ compete => winner' # NoBranch
        /\ ~compete => winner = NoBranch /\ winner' = NoBranch /\ rivals = {}
    BY <2>1 DEF IInv, TypeOK, Maybe, Alternatives
  <2>4. output' = IF ~compete THEN replied' ELSE {winner'}
    BY <2>1, <2>3 DEF IInv, Contributions
  <2>5. Replying \subseteq Branches /\ b \in seen
    BY <1>1, <1>2 DEF Replying
  <2>6. TypeOK'
    <3>1. replied' \subseteq seen /\ output' \subseteq replied'
          /\ rivals' \subseteq Branches
      BY <2>1, <2>5 DEF IInv, TypeOK
    <3>2. turn' \in {"idle", "root", "goroutines"}
      BY <1>1
    <3> QED
      BY <1>1, <1>2, <1>3, <2>3, <3>1, <3>2 DEF IInv, TypeOK
  <2>7. Stages' /\ Turns'
    BY <1>1, <1>2 DEF IInv, Stages, Turns
  <2>8. Handled'
    BY <1>1, <1>2, <1>3, <2>1, <2>2 DEF IInv, Handled, Closed, Fails, Replies
  <2>9. Alternatives'
    <3>1. CASE compete /\ winner = NoBranch
      <4>1. winner' = b /\ rivals' = Replying /\ b \in Replying
        BY <1>4, <2>1, <3>1
      <4> QED
        BY <1>1, <1>2, <1>3, <2>2, <3>1, <4>1 DEF Alternatives, Replies
    <3>2. CASE ~(compete /\ winner = NoBranch)
      <4>1. winner' = winner /\ rivals' = rivals
        BY <2>1, <3>2
      <4> QED
        BY <1>1, <1>3, <2>1, <4>1 DEF IInv, Alternatives, Replies
    <3> QED
      BY <3>1, <3>2
  <2>10. Contributions'
    <3>1. exit = "output" => winner # NoBranch /\ compete
      BY <1>2 DEF IInv, Stages, Contributions
    <3>2. exit = "output" => output' = output /\ rivals' = rivals
      BY <2>1, <3>1
    <3> QED
      BY <1>1, <2>1, <2>3, <2>4, <3>1, <3>2 DEF IInv, Contributions, Succeeds
  <2> QED
    BY <2>6, <2>7, <2>8, <2>9, <2>10 DEF IInv
<1>5. CASE b \notin Replying
  <2>1. UNCHANGED <<winner, replied, output, rivals>>
    BY <1>5 DEF Goroutine
  <2>2. ~Replies(b) /\ b \notin rivals
    BY <1>1, <1>2, <1>5 DEF IInv, Alternatives, Replying, Replies
  <2>3. TypeOK'
    <3>1. turn' \in {"idle", "root", "goroutines"}
      BY <1>1
    <3> QED
      BY <1>1, <1>2, <1>3, <2>1, <3>1 DEF IInv, TypeOK
  <2>4. Stages' /\ Turns'
    BY <1>1, <1>2 DEF IInv, Stages, Turns
  <2>5. Handled'
    BY <1>1, <1>2, <1>3, <2>1, <2>2 DEF IInv, Handled, Closed, Fails, Replies
  <2>6. Alternatives'
    BY <1>1, <1>3, <2>1, <2>2 DEF IInv, Alternatives, Replies
  <2>7. Contributions'
    BY <1>1, <2>1 DEF IInv, Contributions, Succeeds
  <2> QED
    BY <2>3, <2>4, <2>5, <2>6, <2>7 DEF IInv
<1> QED
  BY <1>4, <1>5

\* At the root, nothing is left of a decided workflow task.
LEMMA ReportingRoot ==
  ASSUME IInv, Root, pc = "await", Decided
  PROVE  /\ todo = {} /\ rivals \subseteq replied /\ exit = "none"
         /\ replyErr = NoBranch => \A b \in seen : ~Fails(b)
  BY DEF Root, IInv, Turns, Alternatives, Stages, Handled

LEMMA RootIInv ==
  ASSUME IInv, ReportError \/ ReportEnd \/ ReportOutput \/ AwaitCancelled
               \/ Drained \/ Yield
  PROVE  IInv'
<1>0. /\ turn = "root"
      /\ UNCHANGED <<compete, status, cancelled, seen, batch, todo, replyErr,
                     endBy, winner, replied, output, rivals, culprits, enders>>
  BY DEF ReportError, ReportEnd, ReportOutput, AwaitCancelled, Drained, Yield,
         Root, fs
<1>1. Handled'
  BY <1>0 DEF IInv, Handled, Closed, Fails, Replies
<1>2. Alternatives'
  <2>1. rivals \subseteq replied
    BY <1>0 DEF IInv, Alternatives
  <2> QED
    BY <1>0, <2>1 DEF IInv, Alternatives, Replies
<1>3. pc' \in {"await", "drain", "returned"} /\ asked' \subseteq Branches
      /\ turn' \in {"idle", "root", "goroutines"}
      /\ exit' \in {"none", "output", "end", "error", "canceled"}
  BY <1>0 DEF IInv, TypeOK, ReportError, ReportEnd, ReportOutput, AwaitCancelled,
              Drained, Yield, CancelBranches
<1>4. TypeOK'
  BY <1>0, <1>3 DEF IInv, TypeOK
<1>5. Turns'
  BY <1>0 DEF IInv, Turns, Stages, ReportError, ReportEnd, ReportOutput,
              AwaitCancelled, Drained, Yield, CancelBranches, Decided
<1>6. CASE ReportError \/ AwaitCancelled
  <2>1. Stages'
    BY <1>0, <1>6 DEF IInv, Stages, ReportError, AwaitCancelled, CancelBranches
  <2>2. Contributions'
    BY <1>0, <1>6 DEF IInv, Contributions, ReportError, AwaitCancelled, Succeeds
  <2> QED
    BY <1>1, <1>2, <1>4, <1>5, <2>1, <2>2 DEF IInv
<1>7. CASE ReportEnd
  <2>1. Stages'
    BY <1>0, <1>7 DEF IInv, Stages, ReportEnd
  <2>2. Contributions'
    BY <1>0, <1>7 DEF IInv, Contributions, ReportEnd, Succeeds
  <2> QED
    BY <1>1, <1>2, <1>4, <1>5, <2>1, <2>2 DEF IInv
<1>8. CASE ReportOutput
  <2>1. /\ pc = "await" /\ Decided /\ replyErr = NoBranch /\ endBy = NoBranch
        /\ exit' = "output" /\ turn' = turn /\ Root
        /\ IF compete THEN pc' = "drain" ELSE pc' = "returned"
    BY <1>8 DEF ReportOutput, CancelBranches
  <2>2. rivals \subseteq replied /\ \A b \in seen : ~Fails(b)
    BY <2>1, ReportingRoot
  <2>3. IF compete THEN winner # NoBranch ELSE replied = Branches
    BY <2>1 DEF Decided
  <2>4. output \subseteq replied /\ replied \subseteq seen
    BY DEF IInv, TypeOK
  <2>5. \A b \in replied : Succeeds(b)
    BY <2>2, <2>4 DEF IInv, Handled, Replies, Fails, Succeeds
  <2>6. Stages'
    <3>1. ~compete => seen = Branches
      BY <2>3, <2>4 DEF IInv, TypeOK
    <3> QED
      BY <1>0, <2>1, <3>1 DEF IInv, Stages
  <2>7. Contributions'
    BY <1>0, <2>1, <2>2, <2>3, <2>4, <2>5 DEF IInv, Contributions, Succeeds
  <2> QED
    BY <1>1, <1>2, <1>4, <1>5, <2>6, <2>7 DEF IInv
<1>9. CASE Drained \/ Yield
  <2>1. Stages'
    BY <1>0, <1>9 DEF IInv, Stages, Drained, Yield
  <2>2. Contributions'
    BY <1>0, <1>9 DEF IInv, Contributions, Drained, Yield, Succeeds
  <2> QED
    BY <1>1, <1>2, <1>4, <1>5, <2>1, <2>2 DEF IInv
<1> QED
  BY <1>6, <1>7, <1>8, <1>9

LEMMA NextIInv == IInv /\ [Next]_vars => IInv'
<1> SUFFICES ASSUME IInv, [Next]_vars PROVE IInv'
  OBVIOUS
<1>1. CASE UNCHANGED vars
  BY <1>1 DEF vars, IInv, TypeOK, Stages, Turns, Handled, Alternatives,
     Contributions, Decided, Closed, Fails, Replies, Succeeds
<1>2. CASE Next
  BY <1>2, BranchClosesIInv, WorkflowTaskIInv, ReplayIInv, GoroutineIInv, RootIInv
     DEF Next, Coroutines
<1> QED
  BY <1>1, <1>2

LEMMA InvariantIInv == Spec => []IInv
  BY InitIInv, NextIInv, PTL DEF Spec

\* The state of a fork stays in its type, for any number of branches.
THEOREM TypeCorrect == Spec => []TypeOK
<1>1. IInv => TypeOK
  BY DEF IInv
<1> QED
  BY <1>1, InvariantIInv, PTL

\* Unless a branch ended the workflow, a fork that returns leaves no branch
\* running, so that a later fork can reuse their workflow IDs.
THEOREM LeavesNothingRunning == Spec => []ClosedUnlessEnded
<1>1. IInv => ClosedUnlessEnded
  BY DEF IInv, Stages, Handled, ClosedUnlessEnded
<1> QED
  BY <1>1, InvariantIInv, PTL

\* The output is one winner's or everybody's, of branches that completed,
\* however the history is replayed.
THEOREM ReturnsSoundOutput == Spec => []OutputIsSound
<1>1. IInv => OutputIsSound
  BY DEF IInv, Contributions, Succeeds, OutputIsSound
<1> QED
  BY <1>1, InvariantIInv, PTL

\* Neither an output nor an `end` masks a failure or a cancellation that the
\* fork had been told of.
THEOREM MasksNoFailure == Spec => NoFailureMasked
<1> DEFINE Unmasked == pc = "await" /\ exit' \in {"output", "end"}
                         => \A b \in seen : status[b] \in {"completed", "ended"}
<1>1. IInv /\ [Next]_vars => [Unmasked]_vars
  <2> SUFFICES ASSUME IInv, Next, pc = "await", exit' \in {"output", "end"}
               PROVE  \A b \in seen : status[b] \in {"completed", "ended"}
    OBVIOUS
  <2>1. exit = "none"
    BY DEF IInv, Stages
  <2>2. ReportEnd \/ ReportOutput
    BY <2>1 DEF Next, BranchCloses, WorkflowTask, Replay, Coroutines, Goroutine,
                ReportError, AwaitCancelled, Drained, Yield
  <2>3. Root /\ Decided /\ replyErr = NoBranch
    BY <2>2 DEF ReportEnd, ReportOutput, Decided
  <2>4. \A b \in seen : ~Fails(b) /\ Closed(b)
    BY <2>3, ReportingRoot DEF IInv, Handled
  <2>5. \A b \in seen : status[b] \in Outcomes
    BY <2>4 DEF IInv, TypeOK, Closed
  <2> QED
    BY <2>4, <2>5 DEF Fails, Outcomes
<1> QED
  BY <1>1, InvariantIInv, PTL DEF Spec, NoFailureMasked

-----------------------------------------------------------------------------
(* Fork implements ForkPromise. *)

\* Who can be blamed for the result: a replay picks another culprit that closed
\* as this one did, and what is to be returned has its reason.
Blames ==
  /\ replyErr # NoBranch => replyErr \in culprits
  /\ \A c \in culprits : c \in seen /\ Fails(c) /\ status[c] = status[replyErr]
  /\ endBy # NoBranch => endBy \in enders
  /\ \A c \in enders : c \in seen /\ status[c] = "ended"
  /\ exit = "error" => replyErr # NoBranch
  /\ exit = "end" => endBy # NoBranch
  /\ exit = "canceled" => cancelled

LEMMA InitBlames == Init => Blames
  BY DEF Init, Blames

LEMMA GoroutineBlames ==
  ASSUME IInv, Blames, NEW b \in Branches, Goroutine(b)
  PROVE  Blames'
<1>1. /\ b \in todo /\ HandleBranchError(b)
      /\ UNCHANGED <<exit, status, cancelled, seen, batch>>
  BY DEF Goroutine
<1>2. todo \subseteq batch /\ batch \subseteq seen /\ seen \subseteq Branches
  BY DEF IInv, TypeOK
<1>3. culprits \subseteq seen /\ NoBranch \notin seen
  BY <1>2 DEF Blames
<1>4. CASE status[b] = "canceled"
  <2>1. CASE replyErr = NoBranch
    <3>1. replyErr' = b /\ culprits' = {c \in batch : status[c] = "canceled"}
          /\ endBy' = endBy /\ enders' = enders
      BY <1>1, <1>4, <2>1 DEF HandleBranchError
    <3> QED
      BY <1>1, <1>2, <1>4, <3>1 DEF Blames, Fails
  <2>2. CASE replyErr # NoBranch
    <3>1. replyErr' = replyErr /\ culprits' = culprits /\ endBy' = endBy
          /\ enders' = enders
      BY <1>1, <1>4, <2>2 DEF HandleBranchError
    <3> QED
      BY <1>1, <3>1 DEF Blames, Fails
  <2> QED
    BY <2>1, <2>2
<1>5. CASE status[b] = "ended"
  <2>1. CASE endBy = NoBranch
    <3>1. endBy' = b /\ enders' = {c \in batch : status[c] = "ended"}
          /\ replyErr' = replyErr /\ culprits' = culprits
      BY <1>1, <1>5, <2>1 DEF HandleBranchError
    <3> QED
      BY <1>1, <1>2, <1>5, <2>1, <3>1 DEF Blames, Fails
  <2>2. CASE endBy # NoBranch
    <3>1. endBy' = endBy /\ enders' = enders /\ replyErr' = replyErr /\ culprits' = culprits
      BY <1>1, <1>5, <2>2 DEF HandleBranchError
    <3> QED
      BY <1>1, <3>1 DEF Blames, Fails
  <2> QED
    BY <2>1, <2>2
<1>6. CASE status[b] = "failed"
  <2>1. replyErr' = b /\ culprits' = {c \in batch : status[c] = "failed"}
        /\ endBy' = endBy /\ enders' = enders
    BY <1>1, <1>6 DEF HandleBranchError
  <2> QED
    BY <1>1, <1>2, <1>6, <2>1 DEF Blames, Fails
<1>7. CASE status[b] = "completed"
  <2>1. UNCHANGED <<replyErr, culprits, endBy, enders>>
    BY <1>1, <1>7 DEF HandleBranchError
  <2> QED
    BY <1>1, <2>1 DEF Blames, Fails
<1> QED
  BY <1>1, <1>4, <1>5, <1>6, <1>7 DEF HandleBranchError

LEMMA NextBlames == IInv /\ Blames /\ [Next]_vars => Blames'
<1> SUFFICES ASSUME IInv, Blames, [Next]_vars PROVE Blames'
  OBVIOUS
<1>1. CASE UNCHANGED vars
  BY <1>1 DEF vars, Blames, Fails
<1>2. ASSUME NEW b \in Branches, NEW how \in Outcomes, BranchCloses(b, how)
      PROVE  Blames'
  <2>1. /\ ~Closed(b) /\ status' = [status EXCEPT ![b] = how]
        /\ UNCHANGED <<exit, cancelled, seen, replyErr, endBy, culprits, enders>>
    BY <1>2 DEF BranchCloses, fs
  <2>2. \A c \in seen : status'[c] = status[c]
    BY <2>1 DEF IInv, TypeOK, Handled
  <2>3. culprits # {} => replyErr \in culprits
    BY DEF IInv, Alternatives, Blames
  <2> QED
    BY <2>1, <2>2, <2>3 DEF Blames, Fails
<1>3. ASSUME NEW cancel \in BOOLEAN, WorkflowTask(cancel) PROVE Blames'
  <2>1. /\ seen \subseteq seen' /\ cancelled' = (cancelled \/ cancel)
        /\ UNCHANGED <<exit, status, replyErr, endBy, culprits, enders>>
    BY <1>3 DEF WorkflowTask, fs
  <2>2. exit = "canceled" => cancelled'
    BY <2>1 DEF Blames
  <2> QED
    BY <2>1, <2>2 DEF Blames, Fails
<1>4. CASE Replay
  <2>1. /\ IF culprits = {} THEN UNCHANGED replyErr ELSE replyErr' \in culprits
        /\ IF enders = {} THEN UNCHANGED endBy ELSE endBy' \in enders
        /\ UNCHANGED <<exit, status, cancelled, seen, culprits, enders>>
    BY <1>4 DEF Replay
  <2>2. culprits \subseteq Branches /\ enders \subseteq Branches
    BY DEF IInv, TypeOK
  <2>3. status[replyErr'] = status[replyErr]
    BY <2>1 DEF Blames
  <2> QED
    BY <2>1, <2>2, <2>3 DEF Blames, Fails
<1>5. CASE ReportError \/ ReportEnd \/ ReportOutput \/ AwaitCancelled
           \/ Drained \/ Yield
  <2>1. UNCHANGED <<status, cancelled, seen, replyErr, endBy, culprits, enders>>
    BY <1>5 DEF ReportError, ReportEnd, ReportOutput, AwaitCancelled, Drained,
                Yield, Root, fs
  <2>2. /\ exit' = "error" => replyErr # NoBranch
        /\ exit' = "end" => endBy # NoBranch
        /\ exit' = "canceled" => cancelled
    BY <1>5 DEF ReportError, ReportEnd, ReportOutput, AwaitCancelled, Drained,
                Yield, Blames
  <2> QED
    BY <2>1, <2>2 DEF Blames, Fails
<1> QED
  BY <1>1, <1>2, <1>3, <1>4, <1>5, GoroutineBlames DEF Next, Coroutines

\* What the fork shows to ForkPromise.
Shown == IF pc # "returned" THEN [how |-> "none", by |-> {}]
         ELSE [how |-> exit,
               by |-> CASE exit = "output" -> output
                        [] exit = "error" -> {replyErr}
                        [] exit = "end" -> {endBy}
                        [] exit = "canceled" -> {}]

LEMMA SameShown ==
  ASSUME pc' = pc, pc # "returned"
  PROVE  Shown' = Shown
  BY DEF Shown

LEMMA InitPromise == Init => Promise!Init
  BY DEF Init, Promise!Init, Promise!Pending

LEMMA BranchClosesPromise ==
  ASSUME NEW b \in Branches, NEW how \in Outcomes, BranchCloses(b, how)
  PROVE  Promise!Next
<1>1. /\ status[b] = "open" /\ status' = [status EXCEPT ![b] = how]
      /\ UNCHANGED <<compete, pc, exit, cancelled, replyErr, endBy, output>>
  BY DEF BranchCloses, Closed, fs
<1>2. Shown' = Shown
  BY <1>1 DEF Shown
<1>3. Promise!Close(b, how)
  BY <1>1, <1>2 DEF Promise!Close, Shown
<1> QED
  BY <1>3 DEF Promise!Next, Promise!Outcomes, Outcomes

LEMMA WorkflowTaskPromise ==
  ASSUME IInv, NEW cancel \in BOOLEAN, WorkflowTask(cancel)
  PROVE  [Promise!Next]_(Promise!vars)
<1>1. /\ pc # "returned" /\ pc' = pc /\ UNCHANGED <<compete, status>>
      /\ cancelled' = (cancelled \/ cancel)
  BY DEF WorkflowTask
<1>2. Shown' = Shown /\ Shown = [how |-> "none", by |-> {}]
  BY <1>1, SameShown DEF Shown
<1>3. CASE cancel
  <2>1. Promise!Cancel
    BY <1>1, <1>2, <1>3 DEF Promise!Cancel, Promise!Pending, Shown
  <2> QED
    BY <2>1 DEF Promise!Next
<1>4. CASE ~cancel
  <2>1. cancelled' = cancelled
    BY <1>1, <1>4 DEF IInv, TypeOK
  <2> QED
    BY <1>1, <1>2, <2>1 DEF Promise!vars, Shown
<1> QED
  BY <1>3, <1>4

LEMMA ReplayPromise ==
  ASSUME IInv, Blames, Replay
  PROVE  [Promise!Next]_(Promise!vars)
<1>1. /\ IF rivals = {} THEN UNCHANGED winner ELSE winner' \in rivals
      /\ IF culprits = {} THEN UNCHANGED replyErr ELSE replyErr' \in culprits
      /\ output' = IF compete /\ winner # NoBranch THEN {winner'} ELSE output
      /\ IF enders = {} THEN UNCHANGED endBy ELSE endBy' \in enders
      /\ UNCHANGED <<compete, pc, exit, status, cancelled>>
  BY DEF Replay
<1>2. CASE pc # "returned"
  BY <1>1, <1>2 DEF Promise!vars
<1>3. CASE pc = "returned" /\ exit = "error"
  <2>1. /\ replyErr' \in culprits /\ replyErr' \in Branches
        /\ status[replyErr'] = status[replyErr]
    BY <1>1, <1>3 DEF IInv, TypeOK, Blames
  <2>2. /\ Shown = [how |-> "error", by |-> {replyErr}]
        /\ Shown' = [how |-> "error", by |-> {replyErr'}]
    BY <1>1, <1>3 DEF Shown
  <2>3. Shown' = [Shown EXCEPT !.by = {replyErr'}]
        /\ \E c \in Shown.by : status[replyErr'] = status[c]
    BY <2>1, <2>2
  <2>4. Promise!Replay(replyErr')
    BY <1>1, <2>2, <2>3 DEF Promise!Replay, Shown
  <2> QED
    BY <2>1, <2>4 DEF Promise!Next
<1>4. CASE pc = "returned" /\ exit = "output" /\ compete
  <2>1. winner # NoBranch /\ winner \in rivals /\ output = {winner}
    BY <1>4 DEF IInv, Alternatives, Contributions
  <2>2. winner' \in rivals /\ rivals \subseteq Branches /\ output' = {winner'}
    BY <1>1, <1>4, <2>1 DEF IInv, TypeOK
  <2>3. status[winner'] = status[winner]
    BY <1>4, <2>1, <2>2 DEF IInv, Contributions, Succeeds
  <2>4. /\ Shown = [how |-> "output", by |-> {winner}]
        /\ Shown' = [how |-> "output", by |-> {winner'}]
    BY <1>1, <1>4, <2>1, <2>2 DEF Shown
  <2>5. Shown' = [Shown EXCEPT !.by = {winner'}]
        /\ \E c \in Shown.by : status[winner'] = status[c]
    BY <2>3, <2>4
  <2>6. Promise!Replay(winner')
    BY <1>1, <1>4, <2>4, <2>5 DEF Promise!Replay, Shown
  <2> QED
    BY <2>2, <2>6 DEF Promise!Next
<1>5. CASE pc = "returned" /\ exit = "output" /\ ~compete
  <2>1. output' = output
    BY <1>1, <1>5
  <2> QED
    BY <1>1, <1>5, <2>1 DEF Promise!vars
<1>6. CASE pc = "returned" /\ exit = "end"
  <2>1. endBy # NoBranch /\ endBy \in enders /\ status[endBy] = "ended"
    BY <1>6 DEF Blames
  <2>2. endBy' \in enders /\ enders \subseteq Branches /\ status[endBy'] = "ended"
    BY <1>1, <2>1 DEF IInv, TypeOK, Blames
  <2>3. /\ Shown = [how |-> "end", by |-> {endBy}]
        /\ Shown' = [how |-> "end", by |-> {endBy'}]
    BY <1>1, <1>6 DEF Shown
  <2>4. Shown' = [Shown EXCEPT !.by = {endBy'}]
        /\ \E c \in Shown.by : status[endBy'] = status[c]
    BY <2>1, <2>2, <2>3
  <2>5. Promise!Replay(endBy')
    BY <1>1, <2>3, <2>4 DEF Promise!Replay, Shown
  <2> QED
    BY <2>2, <2>5 DEF Promise!Next
<1>7. CASE pc = "returned" /\ exit = "canceled"
  BY <1>1, <1>7 DEF Promise!vars
<1> QED
  BY <1>2, <1>3, <1>4, <1>5, <1>6, <1>7 DEF IInv, TypeOK, Stages

LEMMA GoroutinePromise ==
  ASSUME IInv, NEW b \in Branches, Goroutine(b)
  PROVE  UNCHANGED Promise!vars
<1>1. turn = "goroutines" /\ UNCHANGED <<compete, pc, status, cancelled>>
  BY DEF Goroutine
<1>2. pc # "returned"
  BY <1>1 DEF IInv, Stages
<1> QED
  BY <1>1, <1>2 DEF Promise!vars

LEMMA ReportEndPromise ==
  ASSUME IInv, Blames, ReportEnd
  PROVE  Promise!Next
<1>1. /\ pc = "await" /\ pc' = "returned" /\ exit' = "end" /\ endBy # NoBranch
      /\ UNCHANGED <<compete, status, cancelled, endBy>>
  BY DEF ReportEnd, Root, fs
<1>2. endBy \in Branches /\ status[endBy] = "ended"
  BY <1>1 DEF IInv, TypeOK, Blames
<1>3. /\ Shown = [how |-> "none", by |-> {}]
      /\ Shown' = [how |-> "end", by |-> {endBy}]
  BY <1>1 DEF Shown
<1>4. Promise!ReturnEnd(endBy)
  BY <1>1, <1>2, <1>3
     DEF Promise!ReturnEnd, Promise!Return, Promise!Pending, Shown
<1> QED
  BY <1>2, <1>4 DEF Promise!Next

\* A fork that does not compete returns from its Await.
LEMMA ReportOutputPromise ==
  ASSUME IInv, ReportOutput
  PROVE  [Promise!Next]_(Promise!vars)
<1>1. /\ pc = "await" /\ exit' = "output" /\ Decided
      /\ replyErr = NoBranch /\ endBy = NoBranch /\ Root
      /\ UNCHANGED <<compete, status, cancelled, output>>
  BY DEF ReportOutput, Root, fs
<1>2. CASE compete
  <2>1. pc' = "drain"
    BY <1>2 DEF ReportOutput, CancelBranches
  <2> QED
    BY <1>1, <2>1 DEF Promise!vars
<1>3. CASE ~compete
  <2>1. pc' = "returned" /\ replied = Branches
    BY <1>1, <1>3 DEF ReportOutput, Decided
  <2>2. output = Branches
    BY <1>3, <2>1 DEF IInv, Contributions
  <2>3. \A b \in seen : ~Fails(b)
    BY <1>1, ReportingRoot
  <2>4. \A b \in Branches : status[b] = "completed"
    BY <2>1, <2>3 DEF IInv, TypeOK, Handled, Replies, Fails
  <2>5. /\ Shown = [how |-> "none", by |-> {}]
        /\ Shown' = [how |-> "output", by |-> Branches]
    BY <1>1, <2>1, <2>2 DEF Shown
  <2>6. Promise!ReturnAll
    BY <1>1, <1>3, <2>4, <2>5
       DEF Promise!ReturnAll, Promise!Return, Promise!Pending, Shown
  <2> QED
    BY <2>6 DEF Promise!Next
<1> QED
  BY <1>2, <1>3

\* What was decided in the Await is returned when every branch has closed.
LEMMA DrainedPromise ==
  ASSUME IInv, Blames, Drained
  PROVE  Promise!Next
<1>1. /\ pc = "drain" /\ pc' = "returned" /\ seen = Branches
      /\ UNCHANGED <<compete, exit, status, cancelled, replyErr, endBy, output>>
  BY DEF Drained, Root, fs
<1>2. Shown = [how |-> "none", by |-> {}]
  BY <1>1 DEF Shown
<1>3. Promise!AllClosed
  BY <1>1 DEF IInv, Handled, Closed, Promise!AllClosed
<1>4. CASE exit = "error"
  <2>1. replyErr \in Branches /\ status[replyErr] \in {"failed", "canceled"}
    BY <1>4 DEF IInv, TypeOK, Blames, Fails
  <2>2. Shown' = [how |-> "error", by |-> {replyErr}]
    BY <1>1, <1>4 DEF Shown
  <2>3. Promise!ReturnError(replyErr)
    BY <1>1, <1>2, <1>3, <2>1, <2>2
       DEF Promise!ReturnError, Promise!Return, Promise!Pending, Shown
  <2> QED
    BY <2>1, <2>3 DEF Promise!Next
<1>5. CASE exit = "output"
  <2>1. compete
    BY <1>1, <1>5 DEF IInv, Stages
  <2>2. winner \in Branches /\ output = {winner} /\ status[winner] = "completed"
    BY <1>5, <2>1 DEF IInv, TypeOK, Maybe, Contributions, Succeeds
  <2>3. Shown' = [how |-> "output", by |-> {winner}]
    BY <1>1, <1>5, <2>2 DEF Shown
  <2>4. Promise!ReturnWinner(winner)
    BY <1>1, <1>2, <1>3, <2>1, <2>2, <2>3
       DEF Promise!ReturnWinner, Promise!Return, Promise!Pending, Shown
  <2> QED
    BY <2>2, <2>4 DEF Promise!Next
<1>6. CASE exit = "canceled"
  <2>1. cancelled
    BY <1>6 DEF Blames
  <2>2. Shown' = [how |-> "canceled", by |-> {}]
    BY <1>1, <1>6 DEF Shown
  <2>3. Promise!ReturnCancelled
    BY <1>1, <1>2, <1>3, <2>1, <2>2
       DEF Promise!ReturnCancelled, Promise!Return, Promise!Pending, Shown
  <2> QED
    BY <2>3 DEF Promise!Next
<1> QED
  BY <1>1, <1>4, <1>5, <1>6 DEF IInv, TypeOK, Stages

LEMMA NextPromise ==
  IInv /\ Blames /\ [Next]_vars => [Promise!Next]_(Promise!vars)
<1> SUFFICES ASSUME IInv, Blames, [Next]_vars
             PROVE  [Promise!Next]_(Promise!vars)
  OBVIOUS
<1>1. CASE UNCHANGED vars
  BY <1>1 DEF vars, Promise!vars
<1>2. CASE ReportError \/ AwaitCancelled \/ Yield
  <2>1. /\ pc # "returned" /\ pc' # "returned"
        /\ UNCHANGED <<compete, status, cancelled>>
    BY <1>2 DEF ReportError, AwaitCancelled, Yield, CancelBranches, Root
  <2> QED
    BY <2>1 DEF Promise!vars
<1>3. CASE Drained
  BY <1>3, DrainedPromise
<1>4. CASE ReportEnd
  BY <1>4, ReportEndPromise
<1>5. CASE ReportOutput
  BY <1>5, ReportOutputPromise
<1>6. CASE \E b \in Branches : Goroutine(b)
  BY <1>6, GoroutinePromise
<1>7. CASE Replay
  BY <1>7, ReplayPromise
<1>8. CASE \E b \in Branches, how \in Outcomes : BranchCloses(b, how)
  BY <1>8, BranchClosesPromise
<1>9. CASE \E cancel \in BOOLEAN : WorkflowTask(cancel)
  BY <1>9, WorkflowTaskPromise
<1> QED
  BY <1>1, <1>2, <1>3, <1>4, <1>5, <1>6, <1>7, <1>8, <1>9 DEF Next, Coroutines

\* For any branches, the fork returns once, with a result that its branches
\* account for, and a replay changes at most which of those that closed alike
\* it is from: the coroutines and the shared forkState implement ForkPromise.
THEOREM ImplementsForkPromise == Spec => ImplementsPromise
<1>1. Spec => [](IInv /\ Blames)
  <2>1. IInv /\ Blames /\ [Next]_vars => (IInv /\ Blames)'
    BY NextIInv, NextBlames
  <2> QED
    BY <2>1, InitIInv, InitBlames, PTL DEF Spec
<1> QED
  BY <1>1, InitPromise, NextPromise, PTL DEF Spec, ImplementsPromise, Promise!Spec
=============================================================================
