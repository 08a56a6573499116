---------------------------- MODULE ForkPromise ----------------------------
(***************************************************************************)
(* What a `fork` promises the list that it is in: its branches run, each   *)
(* closes once and by itself, and the fork returns once, when all of them  *)
(* have closed or one has ended the workflow, with a result that they      *)
(* account for. There are no coroutines, no workflow tasks and no shared   *)
(* state here: Fork is shown to implement this module.                     *)
(***************************************************************************)
CONSTANTS Branches

VARIABLES
  compete,    \* the `compete` flag of the task
  status,     \* how each branch closed, "open" if it has not
  cancelled,  \* the workflow has been cancelled
  result      \* what the fork returned, and the branches that it is from

vars == <<compete, status, cancelled, result>>

Pending == [how |-> "none", by |-> {}]

Init ==
  /\ compete \in BOOLEAN
  /\ status = [b \in Branches |-> "open"]
  /\ cancelled = FALSE
  /\ result = Pending

Close(b, how) ==
  /\ status[b] = "open"
  /\ status' = [status EXCEPT ![b] = how]
  /\ UNCHANGED <<compete, cancelled, result>>

Cancel ==
  /\ result = Pending
  /\ cancelled' = TRUE
  /\ UNCHANGED <<compete, status, result>>

AllClosed == \A b \in Branches : status[b] # "open"

Return(how, by) ==
  /\ result = Pending
  /\ result' = [how |-> how, by |-> by]
  /\ UNCHANGED <<compete, status, cancelled>>

\* A branch that ends the workflow leaves the others as they are.
ReturnEnd(b) == status[b] = "ended" /\ Return("end", {b})

ReturnError(b) ==
  AllClosed /\ status[b] \in {"failed", "canceled"} /\ Return("error", {b})

ReturnWinner(b) ==
  AllClosed /\ compete /\ status[b] = "completed" /\ Return("output", {b})

ReturnAll ==
  /\ ~compete
  /\ \A b \in Branches : status[b] = "completed"
  /\ Return("output", Branches)

ReturnCancelled == AllClosed /\ cancelled /\ Return("canceled", {})

\* When the workflow is replayed, another branch that closed in the same way
\* may be the first. It never turns one kind of result into another, a failure
\* into a cancellation or the output of all into that of one.
Replay(b) ==
  /\ result.how \in {"error", "end"} \/ (result.how = "output" /\ compete)
  /\ \E c \in result.by : status[b] = status[c]
  /\ result' = [result EXCEPT !.by = {b}]
  /\ UNCHANGED <<compete, status, cancelled>>

Outcomes == {"completed", "ended", "failed", "canceled"}

Next ==
  \/ Cancel \/ ReturnAll \/ ReturnCancelled
  \/ \E b \in Branches :
       \/ \E how \in Outcomes : Close(b, how)
       \/ ReturnEnd(b) \/ ReturnError(b) \/ ReturnWinner(b) \/ Replay(b)

Spec == Init /\ [][Next]_vars
=============================================================================
