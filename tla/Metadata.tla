------------------------------ MODULE Metadata ------------------------------
(***************************************************************************)
(* What a worker does with the metadata of a task before it runs it: it    *)
(* puts the options of the task's activity into the context                *)
(* (SetActivityOptions). Executions of all workflows share one process,    *)
(* and in it one default retry policy, which the options refer to by a     *)
(* pointer. Search attributes are left out: nothing reads them here.       *)
(***************************************************************************)
EXTENDS Naturals, Sequences

CONSTANTS
  Executions, \* workflow executions of the worker
  Document,   \* activityOptions in the metadata of each one's document: a Settings
  Tasks       \* activityOptions of the tasks of each execution: a sequence of Settings

RetryFields == {"initialInterval", "maximumAttempts"}

\* What the next task finds in the context, and what each task starts from anew.
CarriedFields == {"heartbeatTimeout", "priority"}
ResetFields   == {"startToCloseTimeout"}
Fields        == RetryFields \cup CarriedFields \cup ResetFields

\* Values are symbolic; a field that nobody mentions is Unset.
Unset    == "unset"
Values   == {"default", "low", "high"}
Settings == [Fields -> Values \cup {Unset}]

VARIABLES
  policy,    \* defaultRetryPolicy, as the process has it now
  context,   \* the options in the context of each execution
  pos,       \* the task that each execution is at
  pc,        \* what it does with it
  scheduled  \* the options that the activities of an execution were scheduled with

vars == <<policy, context, pos, pc, scheduled>>

Defaults == [f \in Fields |-> "default"]

Init ==
  /\ policy = [f \in RetryFields |-> "default"]
  /\ context = [e \in Executions |-> Defaults]
  /\ pos = [e \in Executions |-> 1]
  /\ pc = [e \in Executions |-> "reset"]
  /\ scheduled = [e \in Executions |-> <<>>]

TaskOf(e) == Tasks[e][pos[e]]

At(e, where) == pos[e] \in DOMAIN Tasks[e] /\ pc[e] = where

Goto(e, where) == pc' = [pc EXCEPT ![e] = where]

-----------------------------------------------------------------------------
(* SetActivityOptions *)

Override(options, settings, fields) ==
  [f \in DOMAIN options |->
     IF f \in fields /\ settings[f] # Unset THEN settings[f] ELSE options[f]]

\* ActivityOptions.ToTemporal and RetryPolicy.ToTemporal: the second writes to the
\* policy that it is given, which is the default one.
ToTemporal(e, settings) ==
  /\ context' = [context EXCEPT ![e] = Override(@, settings, CarriedFields \cup ResetFields)]
  /\ policy' = Override(policy, settings, RetryFields)

\* The summary, the retry policy and startToCloseTimeout are set; everything else
\* is what the context of the list already holds.
SetDefaults(e) ==
  /\ At(e, "reset")
  /\ context' = [context EXCEPT ![e] = Override(@, Defaults, ResetFields)]
  /\ Goto(e, "document")
  /\ UNCHANGED <<policy, pos, scheduled>>

OverrideByDocument(e) ==
  /\ At(e, "document")
  /\ ToTemporal(e, Document[e])
  /\ Goto(e, "task")
  /\ UNCHANGED <<pos, scheduled>>

OverrideByTask(e) ==
  /\ At(e, "task")
  /\ ToTemporal(e, TaskOf(e))
  /\ Goto(e, "schedule")
  /\ UNCHANGED <<pos, scheduled>>

\* WithActivityOptions copies the policy. The context replaces that of the list,
\* so that the next task finds it.
Schedule(e) ==
  /\ At(e, "schedule")
  /\ LET options == Override(context[e], policy, RetryFields)
     IN  /\ context' = [context EXCEPT ![e] = options]
         /\ scheduled' = [scheduled EXCEPT ![e] = Append(@, options)]
  /\ pos' = [pos EXCEPT ![e] = @ + 1]
  /\ Goto(e, "reset")
  /\ UNCHANGED policy

Next ==
  \E e \in Executions :
    \/ SetDefaults(e) \/ OverrideByDocument(e) \/ OverrideByTask(e)
    \/ Schedule(e)

Spec == Init /\ [][Next]_vars

-----------------------------------------------------------------------------
(* Properties *)

\* "If nothing is provided, the default options will be used": a field that neither
\* the document nor the task mentions has its default when the activity is scheduled.
DefaultsHold ==
  \A e \in Executions : \A i \in DOMAIN scheduled[e] : \A f \in Fields :
    Document[e][f] = Unset /\ Tasks[e][i][f] = Unset
      => scheduled[e][i][f] = "default"
=============================================================================
