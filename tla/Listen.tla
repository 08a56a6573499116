------------------------------- MODULE Listen -------------------------------
(***************************************************************************)
(* A workflow whose tasks are listeners, one after the other: the function *)
(* that ListenTaskBuilder.Build returns, its signal coroutines and update  *)
(* handlers, and the Temporal channels between them and the outside.       *)
(*                                                                         *)
(* Signals, updates, the timer and a cancellation reach the workflow       *)
(* between workflow tasks. In a workflow task the handlers of updates run  *)
(* first, then the root, which is in AwaitWithTimeout, then the coroutines *)
(* that have a signal to handle, and so on until all of them are blocked.  *)
(* A signal coroutine blocks in Receive, which does not watch its context: *)
(* the coroutine of a listener that has returned is still there.           *)
(*                                                                         *)
(* An event is known by its ID, the name of the signal or update. `good`,  *)
(* `bad` and `broken` are payloads for which `acceptIf` is true, false, and*)
(* in error.                                                               *)
(***************************************************************************)
EXTENDS Naturals, Sequences

CONSTANTS
  M,           \* number of listeners
  Names,       \* event IDs
  Plans,       \* what the listeners listen to
  MaxMessages  \* bound: messages from outside

Tasks == 1 .. M

Payloads == {"good", "bad", "broken"}

\* acceptIf has the events that have an acceptIf expression; a listener is
\* caught when it is in a try task with a catch.
Listener == [all : BOOLEAN,
             type : [Names -> {"none", "signal", "update", "query"}],
             acceptIf : SUBSET Names,
             caught : BOOLEAN]

ASSUME ListenAssumption ==
  /\ M \in Nat \ {0}
  /\ Plans \subseteq [Tasks -> Listener]
  /\ MaxMessages \in Nat

VARIABLES
  plan,       \* the listeners
  cur,        \* the listener that the root is in
  pc,         \* "listening" or how the workflow closed
  turn,       \* "idle" between workflow tasks, or who runs in one
  news,       \* something has happened since the last workflow task
  buffer,     \* signals that nobody has received yet, per name
  waiting,    \* listeners whose coroutine is blocked in Receive, per name
  co,         \* signal coroutine of a listener and name, or the payload it got
  handler,    \* the listener whose update handler is registered, 0 for none
  accepted,   \* areAllComplete and areAnyComplete, per listener
  data,       \* $data.<task>: the last signal payload
  updateData, \* $data.<event ID>: the last update payload
  aborted,    \* listeners whose context a coroutine has cancelled
  timer,      \* the timer of the current listener has fired
  cancelled,  \* the workflow's context is cancelled
  outcome,    \* how each listener returned
  sent,       \* number of messages sent
  log,        \* history: the messages that have come
  heard       \* history: those that had when the last workflow task ended

vars == <<plan, cur, pc, turn, news, buffer, waiting, co, handler, accepted,
          data, updateData, aborted, timer, cancelled, outcome, sent, log, heard>>

\* What a message can change, and what the root can.
mail    == <<buffer, waiting, sent, log, heard>>
effects == <<accepted, data, updateData, aborted>>
control == <<plan, cur, pc, handler, outcome>>

CoStates == {"none", "receive", "blocked", "gone"}

TypeOK ==
  /\ plan \in [Tasks -> Listener]
  /\ cur \in Tasks
  /\ pc \in {"listening", "completed", "failed", "canceled"}
  /\ turn \in {"idle", "root", "coroutines"}
  /\ news \in BOOLEAN
  /\ buffer \in [Names -> Seq(Payloads)]
  /\ waiting \in [Names -> Seq(Tasks)]
  /\ co \in [Tasks -> [Names -> CoStates \cup Payloads]]
  /\ handler \in [Names -> {0} \cup Tasks]
  /\ accepted \in [Tasks -> SUBSET Names]
  /\ data \in [Tasks -> {"none"} \cup Payloads]
  /\ updateData \in [Names -> {"none"} \cup Payloads]
  /\ aborted \subseteq Tasks
  /\ timer \in BOOLEAN
  /\ cancelled \in BOOLEAN
  /\ outcome \in [Tasks -> {"none", "received", "timeout", "aborted", "canceled"}]
  /\ sent \in 0 .. MaxMessages
  /\ log \subseteq {"signal", "update"} \X Names \X Payloads
  /\ heard \subseteq log
  /\ \A n \in Names : waiting[n] # <<>> => buffer[n] = <<>>

Of(t, type) == {n \in Names : plan[t].type[n] = type}

\* A coroutine for each signal, a handler for each update.
Spawn(t, cs, p) ==
  [cs EXCEPT ![t] = [n \in Names |->
                       IF p[t].type[n] = "signal" THEN "receive" ELSE "none"]]

Register(t, hs, p) ==
  [n \in Names |-> IF p[t].type[n] = "update" THEN t ELSE hs[n]]

Init ==
  /\ plan \in Plans
  /\ cur = 1
  /\ pc = "listening"
  /\ turn = "root"
  /\ news = FALSE
  /\ buffer = [n \in Names |-> <<>>]
  /\ waiting = [n \in Names |-> <<>>]
  /\ co = Spawn(1, [t \in Tasks |-> [n \in Names |-> "none"]], plan)
  /\ handler = Register(1, [n \in Names |-> 0], plan)
  /\ accepted = [t \in Tasks |-> {}]
  /\ data = [t \in Tasks |-> "none"]
  /\ updateData = [n \in Names |-> "none"]
  /\ aborted = {}
  /\ timer = FALSE
  /\ cancelled = FALSE
  /\ outcome = [t \in Tasks |-> "none"]
  /\ sent = 0
  /\ log = {}
  /\ heard = {}

-----------------------------------------------------------------------------
(* From outside, between workflow tasks *)

Outside == pc = "listening" /\ turn = "idle" /\ news' = TRUE

\* acceptIf
Accepts(t, n, payload) == n \in plan[t].acceptIf => payload = "good"
InError(t, n, payload) == n \in plan[t].acceptIf /\ payload = "broken"

Message(type, n, payload) ==
  /\ sent < MaxMessages
  /\ sent' = sent + 1
  /\ log' = log \cup {<<type, n, payload>>}
  /\ UNCHANGED heard

\* A signal goes to the coroutine that has been blocked for the longest, or
\* into the buffer of its channel.
Signal(n, payload) ==
  /\ Outside
  /\ Message("signal", n, payload)
  /\ IF waiting[n] = <<>>
     THEN /\ buffer' = [buffer EXCEPT ![n] = Append(@, payload)]
          /\ UNCHANGED <<waiting, co>>
     ELSE /\ co' = [co EXCEPT ![Head(waiting[n])][n] = payload]
          /\ waiting' = [waiting EXCEPT ![n] = Tail(@)]
          /\ UNCHANGED buffer
  /\ UNCHANGED <<control, turn, effects, timer, cancelled>>

\* The handler replies with the error when acceptIf is in error.
Update(n, payload) ==
  /\ Outside
  /\ Message("update", n, payload)
  /\ handler[n] # 0
  /\ updateData' = [updateData EXCEPT ![n] = payload]
  /\ accepted' = IF Accepts(handler[n], n, payload)
                 THEN [accepted EXCEPT ![handler[n]] = @ \cup {n}] ELSE accepted
  /\ UNCHANGED <<control, turn, buffer, waiting, co, data, aborted, timer,
                 cancelled>>

TimerFires ==
  /\ Outside
  /\ ~timer
  /\ timer' = TRUE
  /\ UNCHANGED <<control, turn, mail, co, effects, cancelled>>

CancelWorkflow ==
  /\ Outside
  /\ ~cancelled
  /\ cancelled' = TRUE
  /\ UNCHANGED <<control, turn, mail, co, effects, timer>>

WorkflowTask ==
  /\ pc = "listening"
  /\ turn = "idle"
  /\ news
  /\ turn' = "root"
  /\ news' = FALSE
  /\ UNCHANGED <<control, mail, co, effects, timer, cancelled>>

-----------------------------------------------------------------------------
(* A signal coroutine *)

Runnable == {c \in Tasks \X Names : co[c[1]][c[2]] \in {"receive"} \cup Payloads}

Receive(t, n) ==
  /\ co[t][n] = "receive"
  /\ IF buffer[n] = <<>>
     THEN /\ co' = [co EXCEPT ![t][n] = "blocked"]
          /\ waiting' = [waiting EXCEPT ![n] = Append(@, t)]
          /\ UNCHANGED buffer
     ELSE /\ co' = [co EXCEPT ![t][n] = Head(buffer[n])]
          /\ buffer' = [buffer EXCEPT ![n] = Tail(@)]
          /\ UNCHANGED waiting
  /\ UNCHANGED <<accepted, data, aborted>>

\* Mutant: a coroutine receives only one signal.
HandleOnce(t, n) ==
  /\ co[t][n] \in Payloads
  /\ data' = [data EXCEPT ![t] = co[t][n]]
  /\ accepted' = IF Accepts(t, n, co[t][n])
                 THEN [accepted EXCEPT ![t] = @ \cup {n}] ELSE accepted
  /\ aborted' = IF InError(t, n, co[t][n]) THEN aborted \cup {t} ELSE aborted
  /\ co' = [co EXCEPT ![t][n] = "gone"]
  /\ UNCHANGED <<buffer, waiting>>

\* Mutant: a coroutine goes on receiving after it has accepted a signal.
HandleForEver(t, n) ==
  /\ co[t][n] \in Payloads
  /\ data' = [data EXCEPT ![t] = co[t][n]]
  /\ accepted' = IF Accepts(t, n, co[t][n])
                 THEN [accepted EXCEPT ![t] = @ \cup {n}] ELSE accepted
  /\ aborted' = IF InError(t, n, co[t][n]) THEN aborted \cup {t} ELSE aborted
  /\ co' = [co EXCEPT ![t][n] =
              IF InError(t, n, @) THEN "gone" ELSE "receive"]
  /\ UNCHANGED <<buffer, waiting>>

\* The payload is stored whether or not it is accepted. An error cancels the
\* listener's context.
Handle(t, n) ==
  /\ co[t][n] \in Payloads
  /\ data' = [data EXCEPT ![t] = co[t][n]]
  /\ accepted' = IF Accepts(t, n, co[t][n])
                 THEN [accepted EXCEPT ![t] = @ \cup {n}] ELSE accepted
  /\ aborted' = IF InError(t, n, co[t][n]) THEN aborted \cup {t} ELSE aborted
  /\ co' = [co EXCEPT ![t][n] =
              IF Accepts(t, n, @) \/ InError(t, n, @) THEN "gone" ELSE "receive"]
  /\ UNCHANGED <<buffer, waiting>>

Coroutine(t, n) ==
  /\ pc = "listening"
  /\ turn = "coroutines"
  /\ Receive(t, n) \/ Handle(t, n)
  /\ UNCHANGED <<control, turn, news, updateData, timer, cancelled, sent, log, heard>>

AllBlocked ==
  /\ pc = "listening"
  /\ turn = "coroutines"
  /\ Runnable = {}
  /\ turn' = "root"
  /\ UNCHANGED <<control, news, mail, co, effects, timer, cancelled>>

-----------------------------------------------------------------------------
(* The root, in the current listener *)

\* Mutant: one of the events will do.
CompleteWithAny(t) == accepted[t] # {}

Complete(t) ==
  IF plan[t].all THEN Of(t, "signal") \cup Of(t, "update") \subseteq accepted[t]
  ELSE accepted[t] # {}

\* A query makes the whole task non-blocking.
Blocks(t) == Of(t, "query") = {}

\* Mutant: the timer is not looked at.
VerdictWithoutTimer ==
  CASE ~Blocks(cur)     -> "received"
    [] Blocks(cur) /\ cancelled -> "canceled"
    [] Blocks(cur) /\ ~cancelled /\ cur \in aborted -> "aborted"
    [] Blocks(cur) /\ ~cancelled /\ cur \notin aborted ->
         IF Complete(cur) THEN "received" ELSE "none"

\* Mutant: a cancellation of the workflow is taken for an abort.
VerdictForgettingWorkflow ==
  CASE ~Blocks(cur)     -> "received"
    [] Blocks(cur) /\ (cancelled \/ cur \in aborted) -> "aborted"
    [] Blocks(cur) /\ ~cancelled /\ cur \notin aborted ->
         IF Complete(cur) THEN "received" ELSE IF timer THEN "timeout" ELSE "none"

\* How the listener returns now, "none" if it does not. The condition, which a
\* cancelled context satisfies, is looked at before the timer; after that, the
\* workflow's context before the listener's.
Verdict ==
  CASE ~Blocks(cur)     -> "received"
    [] Blocks(cur) /\ cancelled -> "canceled"
    [] Blocks(cur) /\ ~cancelled /\ cur \in aborted -> "aborted"
    [] Blocks(cur) /\ ~cancelled /\ cur \notin aborted ->
         IF Complete(cur) THEN "received" ELSE IF timer THEN "timeout" ELSE "none"

AtRoot ==
  /\ pc = "listening"
  /\ turn = "root"
  /\ UNCHANGED <<plan, news, buffer, waiting, sent, log, effects, cancelled>>

\* The workflow goes on after the listener.
GoesOn == Verdict = "received" \/ (plan[cur].caught /\ Verdict \in {"timeout", "aborted"})

\* On to the next listener, which the root runs into at once.
Proceed ==
  /\ AtRoot
  /\ GoesOn
  /\ cur < M
  /\ outcome' = [outcome EXCEPT ![cur] = Verdict]
  /\ cur' = cur + 1
  /\ co' = Spawn(cur + 1, co, plan)
  /\ handler' = Register(cur + 1, handler, plan)
  /\ timer' = FALSE
  /\ UNCHANGED <<pc, turn, heard>>

Finish ==
  /\ AtRoot
  /\ \/ Verdict = "canceled" /\ pc' = "canceled"
     \/ Verdict \in {"timeout", "aborted"} /\ ~plan[cur].caught /\ pc' = "failed"
     \/ GoesOn /\ cur = M /\ pc' = "completed"
  /\ outcome' = [outcome EXCEPT ![cur] = Verdict]
  /\ UNCHANGED <<cur, turn, co, handler, timer, heard>>

Yield ==
  /\ AtRoot
  /\ Verdict = "none"
  /\ turn' = IF Runnable = {} THEN "idle" ELSE "coroutines"
  /\ heard' = IF Runnable = {} THEN log ELSE heard
  /\ UNCHANGED <<cur, pc, co, handler, timer, outcome>>

Terminated ==
  /\ pc # "listening"
  /\ UNCHANGED vars

Code == \/ WorkflowTask
        \/ \E t \in Tasks, n \in Names : Coroutine(t, n)
        \/ AllBlocked
        \/ Proceed \/ Finish \/ Yield

Next ==
  \/ \E n \in Names, payload \in Payloads : Signal(n, payload) \/ Update(n, payload)
  \/ TimerFires
  \/ CancelWorkflow
  \/ Code
  \/ Terminated

Spec == Init /\ [][Next]_vars

\* Timers fire, and workflow tasks are scheduled and run to their end.
FairSpec == Spec /\ WF_vars(TimerFires) /\ WF_vars(Code)

-----------------------------------------------------------------------------
(* Properties *)

\* The events of a listener that an acceptable message has come for.
Come(t, messages) ==
  {n \in Names : \E payload \in Payloads :
     <<plan[t].type[n], n, payload>> \in messages /\ Accepts(t, n, payload)}

\* They are all that it waits for: each of its events, or one when it is an `any`.
Enough(t, messages) ==
  IF plan[t].all
  THEN Of(t, "signal") \cup Of(t, "update") \subseteq Come(t, messages)
  ELSE Come(t, messages) # {}

\* How a listener returns is decided by the messages: it has only received what
\* it waits for when they have come, before it or while it listened, in any
\* order and after any that it rejected; and it only times out when they had not
\* by the end of the workflow task before. (One that comes in the same workflow
\* task as the timer is too late. Listeners to the same event take messages from
\* each other.)
OutcomeFollowsMessages ==
  [][\A t \in Tasks : outcome'[t] # outcome[t] /\ Blocks(t) =>
       /\ outcome'[t] = "received" => Enough(t, log)
       /\ outcome'[t] = "timeout" => ~Enough(t, heard)]_vars

\* Between workflow tasks the current listener is waiting for every signal that
\* it has not accepted, with nothing left in the buffer: no signal is slept
\* through, whether it came before the listener or after one it rejected.
NoSignalSleptThrough ==
  pc = "listening" /\ turn = "idle" /\ ~news /\ cur \notin aborted =>
    \A n \in Of(cur, "signal") :
      n \in accepted[cur] \/ (co[cur][n] = "blocked" /\ buffer[n] = <<>>)

\* $data.<task> holds a payload that the listener has accepted, once it has
\* received all that it waits for, whatever else arrives then or later. (The
\* coroutines of an `any` that has been satisfied go on storing payloads.)
DataIsAccepted ==
  \A t \in Tasks :
    outcome[t] = "received" /\ Blocks(t) /\ plan[t].all
      /\ Of(t, "signal") # {} /\ Of(t, "update") = {} =>
      \E n \in Of(t, "signal") : data[t] # "none" /\ Accepts(t, n, data[t])

\* A workflow that has been told of its cancellation closes as cancelled, even
\* when a listener is satisfied, timed out or aborted by the same workflow task;
\* unless it closes in a listener that waits for nothing.
CancellationWins ==
  [][pc = "listening" /\ pc' # pc /\ cancelled /\ Blocks(cur) => pc' = "canceled"]_vars

\* Every listener returns, at the latest when it times out.
Termination == <>(pc # "listening")
=============================================================================
