----------------------------- MODULE MCMetadata -----------------------------
(***************************************************************************)
(* Two executions on one worker: one whose first task sets a retry policy  *)
(* and a heartbeat timeout, and one that mentions no options at all.       *)
(***************************************************************************)
EXTENDS Metadata

MCExecutions == {"careful", "plain"}

Nothing == [f \in Fields |-> Unset]
Patient == [Nothing EXCEPT !["maximumAttempts"] = "high", !["heartbeatTimeout"] = "low"]

MCDocument == [e \in MCExecutions |-> Nothing]
MCTasks ==
  [e \in MCExecutions |->
     IF e = "careful" THEN <<Patient, Nothing>> ELSE <<Nothing, Nothing, Nothing>>]
=============================================================================
