---------------------------- MODULE ListenProofs ----------------------------
(***************************************************************************)
(* Proofs about Listen, for any number of listeners to any events, queries *)
(* included, and any number of messages.                                   *)
(***************************************************************************)
EXTENDS Listen, TLAPS

\* Listeners that the root has not come to have no coroutine and no handler.
Started ==
  /\ \A t \in Tasks, n \in Names :
       co[t][n] # "none" <=> t <= cur /\ plan[t].type[n] = "signal"
  /\ \A n \in Names :
       handler[n] # 0 => handler[n] <= cur /\ plan[handler[n]].type[n] = "update"
  /\ \A t \in Tasks : outcome[t] # "none" => t <= cur
  /\ \A t \in Tasks : t > cur => accepted[t] = {}

\* The receivers of a channel are the coroutines that are blocked in it, once each.
Queued ==
  /\ \A n \in Names : \A i \in DOMAIN waiting[n] : co[waiting[n][i]][n] = "blocked"
  /\ \A n \in Names : \A i, j \in DOMAIN waiting[n] : waiting[n][i] = waiting[n][j] => i = j
  /\ \A t \in Tasks, n \in Names :
       co[t][n] = "blocked" => \E i \in DOMAIN waiting[n] : waiting[n][i] = t

\* A coroutine is gone when its signal has been accepted, or in error.
Ended ==
  \A t \in Tasks, n \in Names :
    /\ co[t][n] = "gone" => n \in accepted[t] \/ t \in aborted
    /\ co[t][n] # "none" /\ n \in accepted[t] => co[t][n] = "gone"

\* The last signal of those that a listener waits for is the one it was waiting for.
LastIsAccepted ==
  \A t \in Tasks :
    (\A n \in Names : plan[t].type[n] = "signal" => n \in accepted[t]) =>
      \/ \A n \in Names : plan[t].type[n] # "signal"
      \/ \E n \in Names : plan[t].type[n] = "update"
      \/ \E n \in Names : /\ plan[t].type[n] = "signal"
                          /\ data[t] # "none" /\ Accepts(t, n, data[t])

\* ReceivedIsComplete, event by event.
ReceivedAll ==
  \A t \in Tasks :
    outcome[t] = "received" /\ (\A n \in Names : plan[t].type[n] # "query") =>
      /\ plan[t].all => \A n \in Names :
                          plan[t].type[n] \in {"signal", "update"} => n \in accepted[t]
      /\ ~plan[t].all => accepted[t] # {}

\* A workflow task runs until every coroutine is blocked.
Quiet == turn = "idle" /\ ~news => Runnable = {}

IInv ==
  /\ TypeOK /\ Started /\ Queued /\ Ended /\ LastIsAccepted /\ Quiet /\ ReceivedAll

USE ListenAssumption

LEMMA TailOfSeq ==
  ASSUME NEW S, NEW s \in Seq(S), s # <<>>
  PROVE  /\ Tail(s) \in Seq(S)
         /\ DOMAIN Tail(s) = 1 .. Len(s) - 1
         /\ \A i \in DOMAIN Tail(s) : Tail(s)[i] = s[i + 1] /\ i + 1 \in DOMAIN s
         /\ Head(s) = s[1] /\ 1 \in DOMAIN s
         /\ DOMAIN s = 1 .. Len(s) /\ Len(s) \in Nat
  OBVIOUS

LEMMA AppendToSeq ==
  ASSUME NEW S, NEW s \in Seq(S), NEW e \in S
  PROVE  /\ Append(s, e) \in Seq(S)
         /\ DOMAIN Append(s, e) = 1 .. Len(s) + 1
         /\ \A i \in DOMAIN s : Append(s, e)[i] = s[i]
         /\ Append(s, e)[Len(s) + 1] = e
         /\ DOMAIN s = 1 .. Len(s) /\ Len(s) \in Nat
  OBVIOUS

LEMMA InitIInv == Init => IInv
<1> SUFFICES ASSUME Init PROVE IInv
  OBVIOUS
<1>1. /\ plan \in [Tasks -> Listener] /\ 1 \in Tasks /\ cur = 1
      /\ outcome = [t \in Tasks |-> "none"] /\ accepted = [t \in Tasks |-> {}]
  BY DEF Init, Tasks
<1>2. \A n \in Names :
        /\ co[1][n] = IF plan[1].type[n] = "signal" THEN "receive" ELSE "none"
        /\ \A t \in Tasks : t # 1 => co[t][n] = "none"
        /\ handler[n] = IF plan[1].type[n] = "update" THEN 1 ELSE 0
        /\ waiting[n] = <<>>
  BY <1>1 DEF Init, Spawn, Register
<1>3. TypeOK
  <2>1. co \in [Tasks -> [Names -> CoStates \cup Payloads]]
    BY <1>1 DEF Init, Spawn, CoStates
  <2>2. handler \in [Names -> {0} \cup Tasks]
    BY <1>1 DEF Init, Register
  <2>3. /\ buffer \in [Names -> Seq(Payloads)] /\ waiting \in [Names -> Seq(Tasks)]
        /\ data \in [Tasks -> {"none"} \cup Payloads]
        /\ updateData \in [Names -> {"none"} \cup Payloads]
        /\ accepted \in [Tasks -> SUBSET Names]
        /\ outcome \in [Tasks -> {"none", "received", "timeout", "aborted", "canceled"}]
    BY DEF Init
  <2>4. /\ pc = "listening" /\ turn = "root" /\ aborted = {} /\ sent \in 0 .. MaxMessages
        /\ news = FALSE /\ timer = FALSE /\ cancelled = FALSE /\ log = {} /\ heard = {}
    BY DEF Init
  <2> QED
    BY <1>1, <1>2, <2>1, <2>2, <2>3, <2>4 DEF TypeOK
<1>4. Started
  BY <1>1, <1>2 DEF Started, Tasks
<1>5. Queued /\ Ended
  BY <1>1, <1>2 DEF Queued, Ended
<1>6. LastIsAccepted /\ ReceivedAll /\ Quiet
  BY <1>1 DEF Init, LastIsAccepted, ReceivedAll, Quiet
<1> QED
  BY <1>3, <1>4, <1>5, <1>6 DEF IInv

\* A listener only returns as received when it is complete, or waits for nothing.
LEMMA VerdictIsMeant ==
  /\ Verdict \in {"received", "timeout", "aborted", "canceled", "none"}
  /\ Verdict = "received" => ~Blocks(cur) \/ Complete(cur)
  BY DEF Verdict

LEMMA CompleteByEvent ==
  ASSUME IInv, ~Blocks(cur) \/ Complete(cur), \A n \in Names : plan[cur].type[n] # "query"
  PROVE  /\ plan[cur].all => \A n \in Names :
                               plan[cur].type[n] \in {"signal", "update"} => n \in accepted[cur]
         /\ ~plan[cur].all => accepted[cur] # {}
  BY DEF Blocks, Complete, Of

LEMMA SignalIInv ==
  ASSUME IInv, NEW n \in Names, NEW p \in Payloads, Signal(n, p)
  PROVE  IInv'
<1>1. /\ turn' = "idle" /\ news' = TRUE
      /\ UNCHANGED <<control, effects, timer, cancelled>>
      /\ pc = "listening" /\ sent' \in 0 .. MaxMessages
      /\ log' \subseteq {"signal", "update"} \X Names \X Payloads /\ heard' \subseteq log'
  BY DEF IInv, TypeOK, Signal, Outside, Message
<1>2. LastIsAccepted' /\ ReceivedAll' /\ Quiet'
  <2>1. LastIsAccepted'
    BY <1>1 DEF IInv, LastIsAccepted, Accepts, control, effects
  <2>2. ReceivedAll'
    BY <1>1 DEF IInv, ReceivedAll, control, effects
  <2> QED
    BY <2>1, <2>2, <1>1 DEF Quiet
<1>3. CASE waiting[n] = <<>>
  <2>1. /\ buffer' = [buffer EXCEPT ![n] = Append(@, p)]
        /\ UNCHANGED <<waiting, co>>
    BY <1>3 DEF Signal
  <2>2. TypeOK'
    BY <1>1, <1>3, <2>1, AppendToSeq DEF IInv, TypeOK, control, effects
  <2>3. Started' /\ Queued' /\ Ended'
    BY <1>1, <2>1 DEF IInv, Started, Queued, Ended, control, effects
  <2> QED
    BY <1>2, <2>2, <2>3 DEF IInv
<1>4. CASE waiting[n] # <<>>
  <2> DEFINE h == waiting[n][1]
  <2>1. /\ h = Head(waiting[n])
        /\ co' = [co EXCEPT ![h][n] = p]
        /\ waiting' = [waiting EXCEPT ![n] = Tail(waiting[n])]
        /\ buffer' = buffer
    BY <1>4 DEF IInv, TypeOK, Signal
  <2>2. /\ h \in Tasks /\ co[h][n] = "blocked"
        /\ waiting[n] \in Seq(Tasks) /\ Tail(waiting[n]) \in Seq(Tasks)
    BY <1>4, TailOfSeq DEF IInv, TypeOK, Queued
  <2>3. \A t \in Tasks, m \in Names :
          co'[t][m] = IF t = h /\ m = n THEN p ELSE co[t][m]
    BY <2>1, <2>2 DEF IInv, TypeOK
  <2>4. /\ waiting'[n] = Tail(waiting[n])
        /\ \A m \in Names : m # n => waiting'[m] = waiting[m]
    BY <2>1 DEF IInv, TypeOK
  <2>5. TypeOK'
    <3>1. co' \in [Tasks -> [Names -> CoStates \cup Payloads]]
      BY <2>1, <2>2 DEF IInv, TypeOK
    <3>2. waiting' \in [Names -> Seq(Tasks)]
      BY <2>1, <2>2 DEF IInv, TypeOK
    <3>3. \A m \in Names : waiting'[m] # <<>> => buffer'[m] = <<>>
      BY <1>4, <2>1, <2>4 DEF IInv, TypeOK
    <3> QED
      BY <1>1, <2>1, <3>1, <3>2, <3>3 DEF IInv, TypeOK, control, effects
  <2>6. Started'
    BY <1>1, <2>2, <2>3 DEF IInv, Started, control, effects, Payloads
  <2>7. Ended'
    BY <1>1, <2>2, <2>3 DEF IInv, Ended, control, effects, Payloads
  <2>8. Queued'
    <3>1. /\ DOMAIN waiting'[n] = 1 .. Len(waiting[n]) - 1
          /\ \A i \in DOMAIN waiting'[n] :
               waiting'[n][i] = waiting[n][i + 1] /\ i + 1 \in DOMAIN waiting[n] /\ i + 1 # 1
          /\ DOMAIN waiting[n] = 1 .. Len(waiting[n]) /\ Len(waiting[n]) \in Nat
          /\ 1 \in DOMAIN waiting[n]
      BY <1>4, <2>2, <2>4, TailOfSeq
    <3>2. \A m \in Names : \A i \in DOMAIN waiting'[m] : co'[waiting'[m][i]][m] = "blocked"
      <4> SUFFICES ASSUME NEW m \in Names, NEW i \in DOMAIN waiting'[m]
                   PROVE  co'[waiting'[m][i]][m] = "blocked"
        OBVIOUS
      <4>1. CASE m # n
        <5>1. waiting[m] \in Seq(Tasks) /\ i \in DOMAIN waiting[m] /\ waiting'[m][i] = waiting[m][i]
          BY <4>1, <2>4 DEF IInv, TypeOK
        <5>2. waiting[m][i] \in Tasks
          BY <5>1
        <5> QED
          BY <4>1, <5>1, <5>2, <2>3 DEF IInv, Queued
      <4>2. CASE m = n
        <5>1. /\ waiting'[n][i] = waiting[n][i + 1]
              /\ i + 1 \in DOMAIN waiting[n] /\ i + 1 # 1
          BY <4>2, <3>1
        <5>2. waiting[n][i + 1] # h /\ co[waiting[n][i + 1]][n] = "blocked"
          BY <5>1, <3>1 DEF IInv, Queued
        <5>3. waiting[n][i + 1] \in Tasks
          BY <5>1, <2>2
        <5> QED
          BY <4>2, <5>1, <5>2, <5>3, <2>3
      <4> QED
        BY <4>1, <4>2
    <3>3. \A m \in Names : \A i, j \in DOMAIN waiting'[m] :
            waiting'[m][i] = waiting'[m][j] => i = j
      <4> SUFFICES ASSUME NEW m \in Names, NEW i \in DOMAIN waiting'[m],
                          NEW j \in DOMAIN waiting'[m], waiting'[m][i] = waiting'[m][j]
                   PROVE  i = j
        OBVIOUS
      <4>1. CASE m # n
        BY <4>1, <2>4 DEF IInv, Queued
      <4>2. CASE m = n
        <5>1. i + 1 = j + 1
          BY <4>2, <3>1 DEF IInv, Queued
        <5> QED
          BY <5>1, <3>1, <4>2
      <4> QED
        BY <4>1, <4>2
    <3>4. ASSUME NEW t \in Tasks, NEW m \in Names, co'[t][m] = "blocked"
          PROVE  \E i \in DOMAIN waiting'[m] : waiting'[m][i] = t
      <4>1. co[t][m] = "blocked" /\ (m = n => t # h)
        BY <3>4, <2>3 DEF Payloads
      <4>2. PICK i \in DOMAIN waiting[m] : waiting[m][i] = t
        BY <4>1 DEF IInv, Queued
      <4>3. CASE m # n
        BY <4>2, <4>3, <2>4
      <4>4. CASE m = n
        <5>1. i # 1 /\ i \in 1 .. Len(waiting[n])
          BY <4>1, <4>2, <4>4, <3>1
        <5>2. i - 1 \in DOMAIN waiting'[n] /\ (i - 1) + 1 = i
          BY <5>1, <3>1
        <5>3. waiting'[n][i - 1] = waiting[n][i]
          BY <5>2, <3>1
        <5> QED
          BY <5>2, <5>3, <4>2, <4>4
      <4> QED
        BY <4>3, <4>4
    <3> QED
      BY <3>2, <3>3, <3>4 DEF Queued
  <2> QED
    BY <1>2, <2>5, <2>6, <2>7, <2>8 DEF IInv
<1> QED
  BY <1>3, <1>4

LEMMA UpdateIInv ==
  ASSUME IInv, NEW n \in Names, NEW p \in Payloads, Update(n, p)
  PROVE  IInv'
<1> DEFINE h == handler[n]
<1>1. /\ turn' = "idle" /\ news' = TRUE /\ sent' \in 0 .. MaxMessages
      /\ log' \subseteq {"signal", "update"} \X Names \X Payloads /\ heard' \subseteq log'
      /\ UNCHANGED <<control, buffer, waiting, co, data, aborted, timer, cancelled>>
      /\ updateData' = [updateData EXCEPT ![n] = p]
      /\ pc = "listening"
  BY DEF IInv, TypeOK, Update, Outside, Message
<1>2. h \in Tasks /\ h <= cur /\ plan[h].type[n] = "update"
  BY DEF IInv, TypeOK, Started, Update
<1>3. /\ \A t \in Tasks : /\ accepted[t] \subseteq accepted'[t]
                          /\ t # h => accepted'[t] = accepted[t]
      /\ accepted'[h] \subseteq accepted[h] \cup {n}
      /\ accepted' \in [Tasks -> SUBSET Names]
  <2>1. CASE Accepts(h, n, p)
    <3>1. accepted' = [accepted EXCEPT ![h] = accepted[h] \cup {n}]
      BY <2>1 DEF Update
    <3> QED
      BY <3>1, <1>2 DEF IInv, TypeOK
  <2>2. CASE ~Accepts(h, n, p)
    BY <2>2 DEF Update, IInv, TypeOK
  <2> QED
    BY <2>1, <2>2
<1>4. TypeOK'
  BY <1>1, <1>3 DEF IInv, TypeOK, control
<1>5. Started' /\ Queued' /\ Quiet'
  <2>1. Queued' /\ Quiet'
    BY <1>1 DEF IInv, Queued, Quiet
  <2>2. \A t \in Tasks : t > cur => t # h
    BY <1>2 DEF IInv, TypeOK, Tasks
  <2>3. Started'
    BY <1>1, <1>3, <2>2 DEF IInv, Started, control
  <2> QED
    BY <2>1, <2>3
<1>6. \A t \in Tasks : co'[t][n] # "none" => t # h
  BY <1>1, <1>2 DEF IInv, Started
<1>7. Ended'
  BY <1>1, <1>3, <1>6 DEF IInv, Ended
<1>8. LastIsAccepted'
  <2>1. \A t \in Tasks : t # h => accepted'[t] = accepted[t]
    BY <1>3
  <2> QED
    BY <1>1, <1>2, <2>1 DEF IInv, LastIsAccepted, Accepts, control
<1>9. ReceivedAll'
  <2>1. \A t \in Tasks : accepted[t] # {} => accepted'[t] # {}
    BY <1>3
  <2> QED
    BY <1>1, <1>3, <2>1 DEF IInv, ReceivedAll, control
<1> QED
  BY <1>4, <1>5, <1>7, <1>8, <1>9 DEF IInv

LEMMA TimerFiresIInv ==
  ASSUME IInv, TimerFires
  PROVE  IInv'
<1>1. TypeOK'
  BY DEF IInv, TypeOK, TimerFires, Outside, control, mail, effects
<1>2. Started'
  BY <1>1 DEF IInv, TypeOK, Started, TimerFires, Outside, control, mail, effects
<1>3. Queued'
  BY <1>1 DEF IInv, TypeOK, Started, Queued, TimerFires, Outside, control, mail, effects
<1>4. Ended'
  BY <1>1 DEF IInv, TypeOK, Started, Ended, TimerFires, Outside, control, mail, effects
<1>5. LastIsAccepted'
  BY DEF IInv, LastIsAccepted, Accepts, TimerFires, Outside, control, effects
<1>6. Quiet'
  BY <1>1 DEF IInv, TypeOK, Quiet, Runnable, TimerFires, Outside, control, mail, effects
<1>7. ReceivedAll'
  BY <1>1 DEF IInv, TypeOK, Started, ReceivedAll, TimerFires, Outside, control, mail, effects
<1> QED
  BY <1>1, <1>2, <1>3, <1>4, <1>5, <1>6, <1>7 DEF IInv

LEMMA CancelWorkflowIInv ==
  ASSUME IInv, CancelWorkflow
  PROVE  IInv'
<1>1. TypeOK'
  BY DEF IInv, TypeOK, CancelWorkflow, Outside, control, mail, effects
<1>2. Started'
  BY <1>1 DEF IInv, TypeOK, Started, CancelWorkflow, Outside, control, mail, effects
<1>3. Queued'
  BY <1>1 DEF IInv, TypeOK, Started, Queued, CancelWorkflow, Outside, control, mail, effects
<1>4. Ended'
  BY <1>1 DEF IInv, TypeOK, Started, Ended, CancelWorkflow, Outside, control, mail, effects
<1>5. LastIsAccepted'
  BY DEF IInv, LastIsAccepted, Accepts, CancelWorkflow, Outside, control, effects
<1>6. Quiet'
  BY <1>1 DEF IInv, TypeOK, Quiet, Runnable, CancelWorkflow, Outside, control, mail, effects
<1>7. ReceivedAll'
  BY <1>1 DEF IInv, TypeOK, Started, ReceivedAll, CancelWorkflow, Outside, control, mail, effects
<1> QED
  BY <1>1, <1>2, <1>3, <1>4, <1>5, <1>6, <1>7 DEF IInv

LEMMA WorkflowTaskIInv ==
  ASSUME IInv, WorkflowTask
  PROVE  IInv'
<1>1. TypeOK'
  BY DEF IInv, TypeOK, WorkflowTask, control, mail, effects
<1>2. Started'
  BY <1>1 DEF IInv, TypeOK, Started, WorkflowTask, control, mail, effects
<1>3. Queued'
  BY <1>1 DEF IInv, TypeOK, Started, Queued, WorkflowTask, control, mail, effects
<1>4. Ended'
  BY <1>1 DEF IInv, TypeOK, Started, Ended, WorkflowTask, control, mail, effects
<1>5. LastIsAccepted'
  BY DEF IInv, LastIsAccepted, Accepts, WorkflowTask, control, effects
<1>6. Quiet'
  BY <1>1 DEF IInv, TypeOK, Quiet, Runnable, WorkflowTask, control, mail, effects
<1>7. ReceivedAll'
  BY <1>1 DEF IInv, TypeOK, Started, ReceivedAll, WorkflowTask, control, mail, effects
<1> QED
  BY <1>1, <1>2, <1>3, <1>4, <1>5, <1>6, <1>7 DEF IInv

LEMMA AllBlockedIInv ==
  ASSUME IInv, AllBlocked
  PROVE  IInv'
<1>1. TypeOK'
  BY DEF IInv, TypeOK, AllBlocked, control, mail, effects
<1>2. Started'
  BY <1>1 DEF IInv, TypeOK, Started, AllBlocked, control, mail, effects
<1>3. Queued'
  BY <1>1 DEF IInv, TypeOK, Started, Queued, AllBlocked, control, mail, effects
<1>4. Ended'
  BY <1>1 DEF IInv, TypeOK, Started, Ended, AllBlocked, control, mail, effects
<1>5. LastIsAccepted'
  BY DEF IInv, LastIsAccepted, Accepts, AllBlocked, control, effects
<1>6. Quiet'
  BY <1>1 DEF IInv, TypeOK, Quiet, Runnable, AllBlocked, control, mail, effects
<1>7. ReceivedAll'
  BY <1>1 DEF IInv, TypeOK, Started, ReceivedAll, AllBlocked, control, mail, effects
<1> QED
  BY <1>1, <1>2, <1>3, <1>4, <1>5, <1>6, <1>7 DEF IInv

LEMMA ReceiveIInv ==
  ASSUME IInv, NEW t \in Tasks, NEW n \in Names, Coroutine(t, n), Receive(t, n)
  PROVE  IInv'
<1>1. /\ co[t][n] = "receive" /\ turn' = turn /\ turn = "coroutines"
      /\ UNCHANGED <<control, effects, news, timer, cancelled, sent, log, heard>>
  BY DEF Coroutine, Receive, effects
<1>2. LastIsAccepted' /\ ReceivedAll' /\ Quiet'
  <2>1. LastIsAccepted'
    BY <1>1 DEF IInv, LastIsAccepted, Accepts, control, effects
  <2>2. ReceivedAll'
    BY <1>1 DEF IInv, ReceivedAll, control, effects
  <2> QED
    BY <2>1, <2>2, <1>1 DEF Quiet
<1>3. CASE buffer[n] = <<>>
  <2>1. /\ co' = [co EXCEPT ![t][n] = "blocked"]
        /\ waiting' = [waiting EXCEPT ![n] = Append(waiting[n], t)]
        /\ buffer' = buffer
    BY <1>3 DEF Receive
  <2>2. \A s \in Tasks, m \in Names :
          co'[s][m] = IF s = t /\ m = n THEN "blocked" ELSE co[s][m]
    BY <2>1 DEF IInv, TypeOK
  <2>3. /\ waiting'[n] = Append(waiting[n], t)
        /\ \A m \in Names : m # n => waiting'[m] = waiting[m]
        /\ waiting[n] \in Seq(Tasks) /\ waiting'[n] \in Seq(Tasks)
    BY <2>1, AppendToSeq DEF IInv, TypeOK
  <2>4. TypeOK'
    <3>1. co' \in [Tasks -> [Names -> CoStates \cup Payloads]]
      BY <2>1 DEF IInv, TypeOK, CoStates
    <3>2. waiting' \in [Names -> Seq(Tasks)]
      BY <2>1, <2>3 DEF IInv, TypeOK
    <3>3. \A m \in Names : waiting'[m] # <<>> => buffer'[m] = <<>>
      BY <1>3, <2>1, <2>3 DEF IInv, TypeOK
    <3> QED
      BY <1>1, <2>1, <3>1, <3>2, <3>3 DEF IInv, TypeOK, control, effects
  <2>5. Started' /\ Ended'
    BY <1>1, <2>2 DEF IInv, Started, Ended, control, effects
  <2>6. Queued'
    <3>1. /\ DOMAIN waiting'[n] = 1 .. Len(waiting[n]) + 1
          /\ \A i \in DOMAIN waiting[n] : waiting'[n][i] = waiting[n][i]
          /\ waiting'[n][Len(waiting[n]) + 1] = t
          /\ DOMAIN waiting[n] = 1 .. Len(waiting[n]) /\ Len(waiting[n]) \in Nat
      BY <2>3, AppendToSeq
    <3>2. \A i \in DOMAIN waiting[n] : waiting[n][i] # t /\ waiting[n][i] \in Tasks
      BY <1>1, <2>3 DEF IInv, Queued
    <3>3. \A m \in Names : \A i \in DOMAIN waiting'[m] : co'[waiting'[m][i]][m] = "blocked"
      <4> SUFFICES ASSUME NEW m \in Names, NEW i \in DOMAIN waiting'[m]
                   PROVE  co'[waiting'[m][i]][m] = "blocked"
        OBVIOUS
      <4>1. CASE m # n
        <5>1. waiting[m] \in Seq(Tasks) /\ i \in DOMAIN waiting[m] /\ waiting'[m][i] = waiting[m][i]
          BY <4>1, <2>3 DEF IInv, TypeOK
        <5>2. waiting[m][i] \in Tasks
          BY <5>1
        <5> QED
          BY <4>1, <5>1, <5>2, <2>2 DEF IInv, Queued
      <4>2. CASE m = n /\ i \in DOMAIN waiting[n]
        BY <4>2, <3>1, <3>2, <2>2 DEF IInv, Queued
      <4>3. CASE m = n /\ i = Len(waiting[n]) + 1
        BY <4>3, <3>1, <2>2
      <4> QED
        BY <4>1, <4>2, <4>3, <3>1
    <3>4. \A m \in Names : \A i, j \in DOMAIN waiting'[m] :
            waiting'[m][i] = waiting'[m][j] => i = j
      <4> SUFFICES ASSUME NEW m \in Names, NEW i \in DOMAIN waiting'[m],
                          NEW j \in DOMAIN waiting'[m], waiting'[m][i] = waiting'[m][j]
                   PROVE  i = j
        OBVIOUS
      <4>1. CASE m # n
        BY <4>1, <2>3 DEF IInv, Queued
      <4>2. CASE m = n /\ i \in DOMAIN waiting[n] /\ j \in DOMAIN waiting[n]
        BY <4>2, <3>1 DEF IInv, Queued
      <4>3. CASE m = n /\ ~(i \in DOMAIN waiting[n] /\ j \in DOMAIN waiting[n])
        BY <4>3, <3>1, <3>2
      <4> QED
        BY <4>1, <4>2, <4>3
    <3>5. ASSUME NEW s \in Tasks, NEW m \in Names, co'[s][m] = "blocked"
          PROVE  \E i \in DOMAIN waiting'[m] : waiting'[m][i] = s
      <4>1. CASE s = t /\ m = n
        BY <4>1, <3>1
      <4>2. CASE ~(s = t /\ m = n)
        <5>1. co[s][m] = "blocked"
          BY <3>5, <4>2, <2>2
        <5>2. PICK i \in DOMAIN waiting[m] : waiting[m][i] = s
          BY <5>1 DEF IInv, Queued
        <5>3. CASE m = n
          BY <5>2, <5>3, <3>1
        <5>4. CASE m # n
          BY <5>2, <5>4, <2>3
        <5> QED
          BY <5>3, <5>4
      <4> QED
        BY <4>1, <4>2
    <3> QED
      BY <3>3, <3>4, <3>5 DEF Queued
  <2> QED
    BY <1>2, <2>4, <2>5, <2>6 DEF IInv
<1>4. CASE buffer[n] # <<>>
  <2>1. /\ buffer[n] \in Seq(Payloads)
        /\ Head(buffer[n]) \in Payloads /\ Tail(buffer[n]) \in Seq(Payloads)
    BY <1>4, TailOfSeq DEF IInv, TypeOK
  <2>2. /\ co' = [co EXCEPT ![t][n] = Head(buffer[n])]
        /\ buffer' = [buffer EXCEPT ![n] = Tail(buffer[n])]
        /\ waiting' = waiting
    BY <1>4 DEF Receive
  <2>3. \A s \in Tasks, m \in Names :
          co'[s][m] = IF s = t /\ m = n THEN Head(buffer[n]) ELSE co[s][m]
    BY <2>2 DEF IInv, TypeOK
  <2>4. TypeOK'
    <3>1. co' \in [Tasks -> [Names -> CoStates \cup Payloads]]
      BY <2>1, <2>2 DEF IInv, TypeOK
    <3>2. buffer' \in [Names -> Seq(Payloads)]
      BY <2>1, <2>2 DEF IInv, TypeOK
    <3>3. \A m \in Names : waiting'[m] # <<>> => buffer'[m] = <<>>
      BY <1>4, <2>2 DEF IInv, TypeOK
    <3> QED
      BY <1>1, <2>2, <3>1, <3>2, <3>3 DEF IInv, TypeOK, control, effects
  <2>5. Started' /\ Ended'
    BY <1>1, <2>1, <2>3 DEF IInv, Started, Ended, control, effects, Payloads
  <2>6. Queued'
    BY <1>1, <2>1, <2>2, <2>3 DEF IInv, TypeOK, Queued, Payloads
  <2> QED
    BY <1>2, <2>4, <2>5, <2>6 DEF IInv
<1> QED
  BY <1>3, <1>4

LEMMA HandleIInv ==
  ASSUME IInv, NEW t \in Tasks, NEW n \in Names, Coroutine(t, n), Handle(t, n)
  PROVE  IInv'
<1> DEFINE p == co[t][n]
           next == IF Accepts(t, n, p) \/ InError(t, n, p) THEN "gone" ELSE "receive"
<1>1. /\ p \in Payloads
      /\ turn' = turn /\ turn = "coroutines"
      /\ UNCHANGED <<control, buffer, waiting, updateData, news, timer, cancelled, sent, log, heard>>
      /\ data' = [data EXCEPT ![t] = p]
      /\ co' = [co EXCEPT ![t][n] = next]
      /\ aborted' = IF InError(t, n, p) THEN aborted \cup {t} ELSE aborted
      /\ accepted' = IF Accepts(t, n, p) THEN [accepted EXCEPT ![t] = accepted[t] \cup {n}]
                                         ELSE accepted
  BY DEF Coroutine, Handle
<1>2. \A s \in Tasks, m \in Names :
        co'[s][m] = IF s = t /\ m = n THEN next ELSE co[s][m]
  BY <1>1 DEF IInv, TypeOK
<1>3. \A s \in Tasks : data'[s] = IF s = t THEN p ELSE data[s]
  BY <1>1 DEF IInv, TypeOK
<1>4. \A s \in Tasks :
        accepted'[s] = IF s = t /\ Accepts(t, n, p) THEN accepted[s] \cup {n} ELSE accepted[s]
  BY <1>1 DEF IInv, TypeOK
<1>5. plan[t].type[n] = "signal" /\ t <= cur /\ n \notin accepted[t]
  BY <1>1 DEF IInv, Started, Ended, Payloads
<1>6. TypeOK'
  <2>1. co' \in [Tasks -> [Names -> CoStates \cup Payloads]]
    BY <1>1 DEF IInv, TypeOK, CoStates
  <2>2. accepted' \in [Tasks -> SUBSET Names] /\ aborted' \subseteq Tasks
    BY <1>1 DEF IInv, TypeOK
  <2> QED
    BY <1>1, <2>1, <2>2 DEF IInv, TypeOK, control
<1>7. Started'
  BY <1>1, <1>2, <1>4, <1>5 DEF IInv, TypeOK, Started, control, Tasks, Payloads
<1>8. Queued'
  BY <1>1, <1>2 DEF IInv, TypeOK, Queued, Payloads
<1>9. Ended'
  <2>1. next # "none" /\ (next = "gone" => n \in accepted'[t] \/ t \in aborted')
    BY <1>1, <1>4
  <2>2. n \in accepted'[t] => next = "gone"
    BY <1>4, <1>5
  <2>3. aborted \subseteq aborted' /\ \A s \in Tasks : accepted[s] \subseteq accepted'[s]
    BY <1>1, <1>4
  <2>4. \A s \in Tasks, m \in Names :
          ~(s = t /\ m = n) => (m \in accepted'[s] <=> m \in accepted[s])
    BY <1>4
  <2> HIDE DEF next
  <2> QED
    BY <1>2, <2>1, <2>2, <2>3, <2>4 DEF IInv, Ended
<1>10. Quiet'
  BY <1>1 DEF Quiet
<1>11. LastIsAccepted'
  <2> SUFFICES ASSUME NEW s \in Tasks,
                      \A m \in Names : plan'[s].type[m] = "signal" => m \in accepted'[s]
               PROVE  \/ \A m \in Names : plan'[s].type[m] # "signal"
                      \/ \E m \in Names : plan'[s].type[m] = "update"
                      \/ \E m \in Names : /\ plan'[s].type[m] = "signal"
                                          /\ data'[s] # "none" /\ Accepts(s, m, data[s])'
    BY DEF LastIsAccepted
  <2>1. plan' = plan
    BY <1>1 DEF control
  <2>2. CASE s = t
    <3>1. n \in accepted'[t]
      BY <2>1, <2>2, <1>5
    <3>2. Accepts(t, n, p)
      BY <3>1, <1>4, <1>5
    <3>3. Accepts(s, n, data[s])' /\ data'[s] # "none"
      BY <3>2, <2>1, <2>2, <1>1, <1>3 DEF Accepts, Payloads
    <3> QED
      BY <3>3, <2>1, <2>2, <1>5
  <2>3. CASE s # t
    <3>1. data'[s] = data[s] /\ accepted'[s] = accepted[s]
      BY <2>3, <1>3, <1>4
    <3> QED
      BY <3>1, <2>1 DEF IInv, LastIsAccepted, Accepts
  <2> QED
    BY <2>2, <2>3
<1>12. ReceivedAll'
  <2>1. \A s \in Tasks : accepted[s] \subseteq accepted'[s]
    BY <1>4
  <2>2. plan' = plan /\ outcome' = outcome
    BY <1>1 DEF control
  <2> QED
    BY <2>1, <2>2 DEF IInv, ReceivedAll
<1> QED
  BY <1>6, <1>7, <1>8, <1>9, <1>10, <1>11, <1>12 DEF IInv

LEMMA ProceedIInv ==
  ASSUME IInv, Proceed
  PROVE  IInv'
<1>1. /\ turn' = turn /\ turn = "root" /\ timer' = FALSE
      /\ UNCHANGED <<plan, pc, news, buffer, waiting, sent, log, heard, effects, cancelled>>
      /\ cur \in Tasks /\ cur' = cur + 1 /\ cur + 1 \in Tasks
      /\ outcome' = [outcome EXCEPT ![cur] = Verdict]
  BY DEF IInv, TypeOK, Proceed, AtRoot, Tasks
<1>2. /\ \A n \in Names : co'[cur + 1][n] = IF plan[cur + 1].type[n] = "signal"
                                            THEN "receive" ELSE "none"
      /\ \A t \in Tasks : t # cur + 1 => co'[t] = co[t]
      /\ co' \in [Tasks -> [Names -> CoStates \cup Payloads]]
  BY <1>1 DEF IInv, TypeOK, Proceed, Spawn, CoStates
<1>3. /\ \A n \in Names : handler'[n] = IF plan[cur + 1].type[n] = "update"
                                        THEN cur + 1 ELSE handler[n]
      /\ handler' \in [Names -> {0} \cup Tasks]
  BY <1>1 DEF IInv, TypeOK, Proceed, Register
<1>4. TypeOK'
  <2>1. outcome' \in [Tasks -> {"none", "received", "timeout", "aborted", "canceled"}]
    BY <1>1, VerdictIsMeant DEF IInv, TypeOK
  <2> QED
    BY <1>1, <1>2, <1>3, <2>1 DEF IInv, TypeOK, effects
<1>5. \A n \in Names : co[cur + 1][n] = "none" /\ n \notin accepted[cur + 1]
  BY <1>1 DEF IInv, Started, Tasks
<1>6. Started'
  <2>1. ASSUME NEW t \in Tasks, NEW n \in Names
        PROVE  co'[t][n] # "none" <=> t <= cur + 1 /\ plan[t].type[n] = "signal"
    <3>1. CASE t = cur + 1
      BY <3>1, <1>2 DEF Tasks
    <3>2. CASE t # cur + 1
      BY <3>2, <1>1, <1>2 DEF IInv, Started, Tasks
    <3> QED
      BY <3>1, <3>2
  <2>2. \A n \in Names :
          handler'[n] # 0 => handler'[n] <= cur + 1 /\ plan[handler'[n]].type[n] = "update"
    <3> SUFFICES ASSUME NEW n \in Names, handler'[n] # 0
                 PROVE  handler'[n] <= cur + 1 /\ plan[handler'[n]].type[n] = "update"
      OBVIOUS
    <3>1. CASE plan[cur + 1].type[n] = "update"
      BY <3>1, <1>1, <1>3 DEF Tasks
    <3>2. CASE plan[cur + 1].type[n] # "update"
      <4>1. handler'[n] = handler[n] /\ handler[n] \in Tasks
        BY <3>2, <1>3 DEF IInv, TypeOK
      <4> QED
        BY <4>1, <1>1 DEF IInv, Started, Tasks
    <3> QED
      BY <3>1, <3>2
  <2>3. \A t \in Tasks : outcome'[t] # "none" => t <= cur + 1
    BY <1>1 DEF IInv, TypeOK, Started, Tasks
  <2>4. \A t \in Tasks : t > cur + 1 => accepted'[t] = {}
    BY <1>1 DEF IInv, Started, effects, Tasks
  <2> QED
    BY <1>1, <2>1, <2>2, <2>3, <2>4 DEF Started
<1>7. Queued'
  <2>1. \A n \in Names : waiting'[n] = waiting[n]
    BY <1>1
  <2>2. \A t \in Tasks, n \in Names : co[t][n] = "blocked" <=> co'[t][n] = "blocked"
    BY <1>2, <1>5
  <2>3. \A n \in Names : \A i \in DOMAIN waiting[n] : waiting[n][i] \in Tasks
    BY DEF IInv, TypeOK
  <2> QED
    BY <2>1, <2>2, <2>3 DEF IInv, Queued
<1>8. Ended'
  BY <1>1, <1>2, <1>5 DEF IInv, Ended, effects
<1>9. LastIsAccepted' /\ Quiet'
  BY <1>1 DEF IInv, LastIsAccepted, Accepts, Quiet, effects
<1>10. ReceivedAll'
  BY <1>1, VerdictIsMeant, CompleteByEvent DEF IInv, TypeOK, ReceivedAll, effects
<1> QED
  BY <1>4, <1>6, <1>7, <1>8, <1>9, <1>10 DEF IInv

LEMMA FinishIInv ==
  ASSUME IInv, Finish
  PROVE  IInv'
<1>1. TypeOK'
  BY DEF IInv, TypeOK, Finish, AtRoot, Verdict, GoesOn, Tasks, effects
<1>2. Started'
  BY <1>1 DEF IInv, TypeOK, Started, Finish, AtRoot, Verdict, GoesOn, Tasks, effects
<1>3. Queued'
  BY <1>1 DEF IInv, TypeOK, Started, Queued, Finish, AtRoot, Verdict, GoesOn, Tasks, effects
<1>4. Ended'
  BY <1>1 DEF IInv, TypeOK, Started, Ended, Finish, AtRoot, Verdict, GoesOn, Tasks, effects
<1>5. LastIsAccepted'
  BY DEF IInv, LastIsAccepted, Accepts, Finish, AtRoot, effects
<1>6. Quiet'
  BY <1>1 DEF IInv, TypeOK, Quiet, Runnable, Finish, AtRoot, Verdict, GoesOn, Tasks, effects
<1>7. ReceivedAll'
  <2>1. /\ UNCHANGED <<plan, accepted>> /\ cur \in Tasks
        /\ outcome' = [outcome EXCEPT ![cur] = Verdict]
    BY DEF IInv, TypeOK, Finish, AtRoot, effects
  <2> QED
    BY <2>1, VerdictIsMeant, CompleteByEvent DEF IInv, TypeOK, ReceivedAll
<1> QED
  BY <1>1, <1>2, <1>3, <1>4, <1>5, <1>6, <1>7 DEF IInv

LEMMA YieldIInv ==
  ASSUME IInv, Yield
  PROVE  IInv'
<1>1. TypeOK'
  BY DEF IInv, TypeOK, Yield, AtRoot, Verdict, GoesOn, Tasks, effects
<1>2. Started'
  BY <1>1 DEF IInv, TypeOK, Started, Yield, AtRoot, Verdict, GoesOn, Tasks, effects
<1>3. Queued'
  BY <1>1 DEF IInv, TypeOK, Started, Queued, Yield, AtRoot, Verdict, GoesOn, Tasks, effects
<1>4. Ended'
  BY <1>1 DEF IInv, TypeOK, Started, Ended, Yield, AtRoot, Verdict, GoesOn, Tasks, effects
<1>5. LastIsAccepted'
  BY DEF IInv, LastIsAccepted, Accepts, Yield, AtRoot, effects
<1>6. Quiet'
  BY <1>1 DEF IInv, TypeOK, Quiet, Runnable, Yield, AtRoot, Verdict, GoesOn, Tasks, effects
<1>7. ReceivedAll'
  BY <1>1 DEF IInv, TypeOK, Started, ReceivedAll, Yield, AtRoot, Verdict, GoesOn, Tasks, effects
<1> QED
  BY <1>1, <1>2, <1>3, <1>4, <1>5, <1>6, <1>7 DEF IInv

LEMMA NextIInv == IInv /\ [Next]_vars => IInv'
<1> SUFFICES ASSUME IInv, [Next]_vars PROVE IInv'
  OBVIOUS
<1>1. CASE UNCHANGED vars
  <2>1. TypeOK' /\ Started' /\ Queued' /\ Ended'
    BY <1>1 DEF vars, IInv, TypeOK, Started, Queued, Ended
  <2>2. LastIsAccepted' /\ Quiet' /\ ReceivedAll'
    BY <1>1 DEF vars, IInv, LastIsAccepted, Accepts, Quiet, Runnable, ReceivedAll
  <2> QED
    BY <2>1, <2>2 DEF IInv
<1>2. ASSUME NEW n \in Names, NEW p \in Payloads, Signal(n, p) \/ Update(n, p)
      PROVE  IInv'
  BY <1>2, SignalIInv, UpdateIInv
<1>3. CASE TimerFires \/ CancelWorkflow \/ WorkflowTask \/ AllBlocked
  BY <1>3, TimerFiresIInv, CancelWorkflowIInv, WorkflowTaskIInv, AllBlockedIInv
<1>4. ASSUME NEW t \in Tasks, NEW n \in Names, Coroutine(t, n)
      PROVE  IInv'
  BY <1>4, ReceiveIInv, HandleIInv DEF Coroutine
<1>5. CASE Proceed \/ Finish \/ Yield
  BY <1>5, ProceedIInv, FinishIInv, YieldIInv
<1> QED
  BY <1>1, <1>2, <1>3, <1>4, <1>5 DEF Next, Code, Terminated

LEMMA InvariantIInv == Spec => []IInv
  BY InitIInv, NextIInv, PTL DEF Spec

\* The state of the listeners, their coroutines and channels stays in its type; among
\* other things, a signal is only left in a buffer when no coroutine waits for it.
THEOREM TypeCorrect == Spec => []TypeOK
<1>1. IInv => TypeOK
  BY DEF IInv
<1> QED
  BY <1>1, InvariantIInv, PTL

\* Between workflow tasks no signal that the current listener has not accepted waits
\* for its coroutine, whatever other listeners share the channel (configureSignal).
THEOREM SleepsThroughNoSignal == Spec => []NoSignalSleptThrough
<1>1. IInv => NoSignalSleptThrough
  <2> SUFFICES ASSUME IInv, turn = "idle", ~news, cur \notin aborted,
                      NEW n \in Of(cur, "signal"), n \notin accepted[cur]
               PROVE  co[cur][n] = "blocked" /\ buffer[n] = <<>>
    BY DEF NoSignalSleptThrough
  <2>1. n \in Names /\ cur \in Tasks /\ plan[cur].type[n] = "signal"
    BY DEF IInv, TypeOK, Of
  <2>2. co[cur][n] \in CoStates \cup Payloads /\ co[cur][n] # "none"
    BY <2>1 DEF IInv, TypeOK, Started, Tasks
  <2>3. co[cur][n] # "gone"
    BY <2>1 DEF IInv, Ended
  <2>4. <<cur, n>> \notin Runnable
    BY DEF IInv, Quiet
  <2>5. co[cur][n] \notin {"receive"} \cup Payloads
    BY <2>1, <2>4 DEF Runnable
  <2>6. co[cur][n] = "blocked"
    BY <2>2, <2>3, <2>5 DEF CoStates
  <2>7. waiting[n] # <<>>
    BY <2>1, <2>6 DEF IInv, Queued
  <2> QED
    BY <2>1, <2>6, <2>7 DEF IInv, TypeOK
<1> QED
  BY <1>1, InvariantIInv, PTL

\* What a listener that waited for signals leaves in $data is one that it accepted
\* (configureSignal, getAcceptIf).
THEOREM KeepsAcceptedData == Spec => []DataIsAccepted
<1>1. IInv => DataIsAccepted
  <2> SUFFICES ASSUME IInv, NEW t \in Tasks, outcome[t] = "received", Blocks(t), plan[t].all,
                      Of(t, "signal") # {}, Of(t, "update") = {}
               PROVE  \E n \in Of(t, "signal") : data[t] # "none" /\ Accepts(t, n, data[t])
    BY DEF DataIsAccepted
  <2>1. \A n \in Names : plan[t].type[n] # "query"
    BY DEF Blocks, Of
  <2>2. \A n \in Names : plan[t].type[n] = "signal" => n \in accepted[t]
    BY <2>1 DEF IInv, ReceivedAll
  <2>3. /\ \E n \in Names : plan[t].type[n] = "signal"
        /\ \A n \in Names : plan[t].type[n] # "update"
    BY DEF Of
  <2>4. PICK n \in Names : /\ plan[t].type[n] = "signal"
                           /\ data[t] # "none" /\ Accepts(t, n, data[t])
    BY <2>2, <2>3 DEF IInv, LastIsAccepted
  <2> QED
    BY <2>4 DEF Of
<1> QED
  BY <1>1, InvariantIInv, PTL

\* Whatever else happens in the same workflow task, a workflow that waits when it is
\* cancelled closes as cancelled (await).
THEOREM CancellationCloses == Spec => CancellationWins
<1>1. [Next]_vars => [pc = "listening" /\ pc' # pc /\ cancelled /\ Blocks(cur)
                        => pc' = "canceled"]_vars
  <2> SUFFICES ASSUME Next, pc = "listening", pc' # pc, cancelled, Blocks(cur)
               PROVE  pc' = "canceled"
    OBVIOUS
  <2>1. Finish
    <3>1. ASSUME NEW n \in Names, NEW p \in Payloads PROVE ~Signal(n, p) /\ ~Update(n, p)
      BY DEF Signal, Update, control
    <3>2. ~TimerFires /\ ~CancelWorkflow /\ ~WorkflowTask /\ ~AllBlocked
      BY DEF TimerFires, CancelWorkflow, WorkflowTask, AllBlocked, control
    <3>3. ASSUME NEW t \in Tasks, NEW n \in Names PROVE ~Coroutine(t, n)
      BY DEF Coroutine, control
    <3>4. ~Proceed /\ ~Yield /\ ~Terminated
      BY DEF Proceed, Yield, Terminated
    <3> QED
      BY <3>1, <3>2, <3>3, <3>4 DEF Next, Code
  <2>2. Verdict = "canceled"
    BY DEF Verdict
  <2> QED
    BY <2>1, <2>2 DEF Finish, GoesOn
<1> QED
  BY <1>1, PTL DEF Spec, CancellationWins

(***************************************************************************)
(* How a listener returns, and what has come.                              *)
(***************************************************************************)

\* No two listeners of a list wait for the same event.
Apart ==
  \A p \in Plans : \A s, t \in Tasks, n \in Names :
    p[s].type[n] \in {"signal", "update"} /\ p[t].type[n] = p[s].type[n] => s = t

Private ==
  \A s, t \in Tasks, n \in Names :
    plan[s].type[n] \in {"signal", "update"} /\ plan[t].type[n] = plan[s].type[n] => s = t

InBuffer(n, payload) == \E i \in DOMAIN buffer[n] : buffer[n][i] = payload

\* What a listener has accepted, and what is on its way to one, has come.
Backed ==
  /\ \A t \in Tasks, n \in Names :
       n \in accepted[t] =>
         \E payload \in Payloads :
           <<plan[t].type[n], n, payload>> \in log /\ Accepts(t, n, payload)
  /\ \A t \in Tasks, n \in Names :
       co[t][n] \in Payloads => <<"signal", n, co[t][n]>> \in log
  /\ \A n \in Names, payload \in Payloads :
       InBuffer(n, payload) => <<"signal", n, payload>> \in log

\* A message that has come and is acceptable is not lost.
Delivered ==
  \A t \in Tasks, n \in Names, payload \in Payloads :
    <<plan[t].type[n], n, payload>> \in log /\ Accepts(t, n, payload) =>
      \/ n \in accepted[t]
      \/ t \in aborted
      \/ plan[t].type[n] = "signal" /\ (co[t][n] = payload \/ InBuffer(n, payload))

Met ==
  \A n \in Names, payload \in Payloads :
    <<plan[cur].type[n], n, payload>> \in heard /\ Accepts(cur, n, payload) =>
      n \in accepted[cur] \/ cur \in aborted

\* The timer fires between workflow tasks, when all that has come is handled.
Settled == timer \/ turn = "idle" => Met

HInv == Private /\ Backed /\ Delivered /\ Settled

LEMMA InitHInv == ASSUME Apart PROVE Init => HInv
<1> SUFFICES ASSUME Init PROVE HInv
  OBVIOUS
<1>1. Private
  BY DEF Init, Apart, Private
<1>2. /\ log = {} /\ heard = {} /\ accepted = [t \in Tasks |-> {}]
      /\ \A n \in Names : DOMAIN buffer[n] = {}
  BY DEF Init
<1>3. \A t \in Tasks, n \in Names : co[t][n] \in {"none", "receive"}
  BY DEF Init, Spawn, Tasks
<1>4. Backed
  BY <1>2, <1>3 DEF Backed, InBuffer, Payloads
<1>5. Delivered /\ Settled
  BY <1>2 DEF Delivered, Settled, Met
<1> QED
  BY <1>1, <1>4, <1>5 DEF HInv

\* What a listener waits for, it does not give back.
LEMMA SettledStays ==
  ASSUME Settled, UNCHANGED <<plan, cur, heard>>, timer' \/ turn' = "idle" => timer \/ turn = "idle",
         \A t \in Tasks : accepted[t] \subseteq accepted'[t], aborted \subseteq aborted', cur \in Tasks
  PROVE  Settled'
  BY DEF Settled, Met, Accepts

LEMMA QuietStepHInv ==
  ASSUME HInv, cur \in Tasks, UNCHANGED <<plan, cur, accepted, aborted, co, buffer, log, heard>>,
         timer' \/ turn' = "idle" => timer \/ turn = "idle"
  PROVE  HInv'
<1>1. Private' /\ Settled'
  BY SettledStays DEF HInv, Private
<1>2. \A n, payload : InBuffer(n, payload)' <=> InBuffer(n, payload)
  BY DEF InBuffer
<1>3. \A t, n, payload : Accepts(t, n, payload)' <=> Accepts(t, n, payload)
  BY DEF Accepts
<1>4. Backed'
  BY <1>2, <1>3 DEF HInv, Backed
<1>5. Delivered'
  BY <1>2, <1>3 DEF HInv, Delivered
<1> QED
  BY <1>1, <1>4, <1>5 DEF HInv

LEMMA SignalHInv ==
  ASSUME IInv, HInv, NEW n \in Names, NEW q \in Payloads, Signal(n, q)
  PROVE  HInv'
<1>1. /\ turn = "idle" /\ turn' = turn
      /\ UNCHANGED <<plan, cur, accepted, aborted, timer, heard>>
      /\ log' = log \cup {<<"signal", n, q>>}
      /\ cur \in Tasks
  BY DEF Signal, Outside, Message, control, effects, IInv, TypeOK
<1>2. Private' /\ Settled'
  BY <1>1, SettledStays DEF HInv, Private
<1>3. \A t, m, p : Accepts(t, m, p)' <=> Accepts(t, m, p)
  BY <1>1 DEF Accepts
<1>4. CASE waiting[n] = <<>>
  <2>1. /\ co' = co /\ buffer[n] \in Seq(Payloads)
        /\ buffer'[n] = Append(buffer[n], q)
        /\ \A m \in Names : m # n => buffer'[m] = buffer[m]
    BY <1>4 DEF Signal, IInv, TypeOK
  <2>2. \A m \in Names, p \in Payloads :
          InBuffer(m, p)' <=> InBuffer(m, p) \/ (m = n /\ p = q)
    <3> SUFFICES ASSUME NEW m \in Names, NEW p \in Payloads
                 PROVE  InBuffer(m, p)' <=> InBuffer(m, p) \/ (m = n /\ p = q)
      OBVIOUS
    <3>1. CASE m # n
      BY <2>1, <3>1 DEF InBuffer
    <3>2. CASE m = n
      <4>1. /\ DOMAIN buffer'[n] = 1 .. Len(buffer[n]) + 1
            /\ \A i \in DOMAIN buffer[n] : buffer'[n][i] = buffer[n][i]
            /\ buffer'[n][Len(buffer[n]) + 1] = q
            /\ DOMAIN buffer[n] = 1 .. Len(buffer[n]) /\ Len(buffer[n]) \in Nat
        BY <2>1, AppendToSeq
      <4> QED
        BY <3>2, <4>1 DEF InBuffer
    <3> QED
      BY <3>1, <3>2
  <2>3. Backed'
    BY <1>1, <1>3, <2>1, <2>2 DEF HInv, Backed
  <2>4. Delivered'
    <3> SUFFICES ASSUME NEW t \in Tasks, NEW m \in Names, NEW p \in Payloads,
                        <<plan[t].type[m], m, p>> \in log', Accepts(t, m, p)
                 PROVE  \/ m \in accepted[t]
                        \/ t \in aborted
                        \/ plan[t].type[m] = "signal" /\ (co[t][m] = p \/ InBuffer(m, p)')
      BY <1>1, <1>3, <2>1 DEF Delivered
    <3>1. CASE <<plan[t].type[m], m, p>> \in log
      BY <3>1, <2>2 DEF HInv, Delivered
    <3>2. CASE <<plan[t].type[m], m, p>> = <<"signal", n, q>>
      BY <3>2, <2>2
    <3> QED
      BY <1>1, <3>1, <3>2
  <2> QED
    BY <1>2, <2>3, <2>4 DEF HInv
<1>5. CASE waiting[n] # <<>>
  <2> DEFINE h == waiting[n][1]
  <2>1. /\ h = Head(waiting[n])
        /\ co' = [co EXCEPT ![h][n] = q]
        /\ buffer' = buffer
    BY <1>5 DEF IInv, TypeOK, Signal
  <2>2. h \in Tasks /\ co[h][n] = "blocked"
    BY <1>5, TailOfSeq DEF IInv, TypeOK, Queued
  <2>3. plan[h].type[n] = "signal"
    BY <2>2 DEF IInv, Started
  <2>4. \A t \in Tasks, m \in Names :
          co'[t][m] = IF t = h /\ m = n THEN q ELSE co[t][m]
    BY <2>1, <2>2 DEF IInv, TypeOK
  <2>5. \A m, p : InBuffer(m, p)' <=> InBuffer(m, p)
    BY <2>1 DEF InBuffer
  <2> HIDE DEF h
  <2>6. Backed'
    BY <1>1, <1>3, <2>4, <2>5 DEF HInv, Backed
  <2>7. Delivered'
    <3> SUFFICES ASSUME NEW t \in Tasks, NEW m \in Names, NEW p \in Payloads,
                        <<plan[t].type[m], m, p>> \in log', Accepts(t, m, p)
                 PROVE  \/ m \in accepted[t]
                        \/ t \in aborted
                        \/ plan[t].type[m] = "signal" /\ (co'[t][m] = p \/ InBuffer(m, p))
      BY <1>1, <1>3, <2>5 DEF Delivered
    <3>1. CASE <<plan[t].type[m], m, p>> \in log
      <4>1. co[t][m] = p => ~(t = h /\ m = n)
        BY <2>2 DEF Payloads
      <4> QED
        BY <3>1, <4>1, <2>4 DEF HInv, Delivered
    <3>2. CASE <<plan[t].type[m], m, p>> = <<"signal", n, q>>
      <4>1. t = h /\ m = n /\ p = q
        BY <3>2, <2>2, <2>3 DEF HInv, Private
      <4> QED
        BY <2>3, <2>4, <4>1
    <3> QED
      BY <1>1, <3>1, <3>2
  <2> QED
    BY <1>2, <2>6, <2>7 DEF HInv
<1> QED
  BY <1>4, <1>5

LEMMA UpdateHInv ==
  ASSUME IInv, HInv, NEW n \in Names, NEW q \in Payloads, Update(n, q)
  PROVE  HInv'
<1> DEFINE h == handler[n]
<1>1. /\ turn = "idle" /\ turn' = turn
      /\ UNCHANGED <<plan, cur, buffer, co, aborted, timer, heard>>
      /\ log' = log \cup {<<"update", n, q>>}
      /\ cur \in Tasks
  BY DEF Update, Outside, Message, control, IInv, TypeOK
<1>2. h \in Tasks /\ plan[h].type[n] = "update"
  BY DEF IInv, TypeOK, Started, Update
<1>3. \A t \in Tasks :
        accepted'[t] = IF t = h /\ Accepts(h, n, q) THEN accepted[t] \cup {n} ELSE accepted[t]
  <2>1. accepted' = IF Accepts(h, n, q) THEN [accepted EXCEPT ![h] = accepted[h] \cup {n}]
                                        ELSE accepted
    BY DEF Update
  <2> QED
    BY <1>2, <2>1 DEF IInv, TypeOK
<1> HIDE DEF h
<1>4. Private' /\ Settled'
  <2>1. \A t \in Tasks : accepted[t] \subseteq accepted'[t]
    BY <1>3
  <2> QED
    BY <1>1, <2>1, SettledStays DEF HInv, Private
<1>5. /\ \A t, m, p : Accepts(t, m, p)' <=> Accepts(t, m, p)
      /\ \A m, p : InBuffer(m, p)' <=> InBuffer(m, p)
  BY <1>1 DEF Accepts, InBuffer
<1>6. Backed'
  <2>1. ASSUME NEW t \in Tasks, NEW m \in Names, m \in accepted'[t]
        PROVE  \E p \in Payloads : <<plan[t].type[m], m, p>> \in log' /\ Accepts(t, m, p)
    <3>1. CASE m \in accepted[t]
      BY <1>1, <3>1 DEF HInv, Backed
    <3>2. CASE m \notin accepted[t]
      <4>1. t = h /\ m = n /\ Accepts(h, n, q)
        BY <1>3, <2>1, <3>2
      <4> QED
        BY <1>1, <1>2, <4>1
    <3> QED
      BY <3>1, <3>2
  <2> QED
    BY <1>1, <1>5, <2>1 DEF HInv, Backed
<1>7. Delivered'
  <2> SUFFICES ASSUME NEW t \in Tasks, NEW m \in Names, NEW p \in Payloads,
                      <<plan[t].type[m], m, p>> \in log', Accepts(t, m, p)
               PROVE  \/ m \in accepted'[t]
                      \/ t \in aborted
                      \/ plan[t].type[m] = "signal" /\ (co[t][m] = p \/ InBuffer(m, p))
    BY <1>1, <1>5 DEF Delivered
  <2>1. CASE <<plan[t].type[m], m, p>> \in log
    BY <1>3, <2>1 DEF HInv, Delivered
  <2>2. CASE <<plan[t].type[m], m, p>> = <<"update", n, q>>
    <3>1. t = h /\ m = n /\ p = q
      BY <2>2, <1>2 DEF HInv, Private
    <3> QED
      BY <1>3, <3>1
  <2> QED
    BY <1>1, <2>1, <2>2
<1> QED
  BY <1>4, <1>6, <1>7 DEF HInv

LEMMA ReceiveHInv ==
  ASSUME IInv, HInv, NEW t \in Tasks, NEW n \in Names, Coroutine(t, n), Receive(t, n)
  PROVE  HInv'
<1>1. /\ co[t][n] = "receive" /\ turn' = turn
      /\ UNCHANGED <<plan, cur, accepted, aborted, timer, log, heard>>
      /\ cur \in Tasks
  BY DEF Coroutine, Receive, control, IInv, TypeOK
<1>2. plan[t].type[n] = "signal"
  BY <1>1 DEF IInv, Started
<1>3. Private' /\ Settled'
  BY <1>1, SettledStays DEF HInv, Private
<1>4. \A s, m, p : Accepts(s, m, p)' <=> Accepts(s, m, p)
  BY <1>1 DEF Accepts
<1>5. CASE buffer[n] = <<>>
  <2>1. /\ buffer' = buffer
        /\ co' = [co EXCEPT ![t][n] = "blocked"]
    BY <1>5 DEF Receive
  <2>2. \A s \in Tasks, m \in Names :
          co'[s][m] = IF s = t /\ m = n THEN "blocked" ELSE co[s][m]
    BY <2>1 DEF IInv, TypeOK
  <2>3. \A m, p : InBuffer(m, p)' <=> InBuffer(m, p)
    BY <2>1 DEF InBuffer
  <2>4. \A s \in Tasks, m \in Names, p \in Payloads : co'[s][m] = p <=> co[s][m] = p
    BY <1>1, <2>2 DEF Payloads
  <2>5. Backed'
    <3>1. \A s \in Tasks, m \in Names : co'[s][m] \in Payloads => co'[s][m] = co[s][m]
      BY <2>2 DEF Payloads
    <3> QED
      BY <1>1, <1>4, <2>3, <3>1 DEF HInv, Backed
  <2>6. Delivered'
    BY <1>1, <1>4, <2>3, <2>4 DEF HInv, Delivered
  <2> QED
    BY <1>3, <2>5, <2>6 DEF HInv
<1>6. CASE buffer[n] # <<>>
  <2> DEFINE q == Head(buffer[n])
  <2>1. /\ co' = [co EXCEPT ![t][n] = q]
        /\ buffer' = [buffer EXCEPT ![n] = Tail(buffer[n])]
        /\ buffer[n] \in Seq(Payloads)
    BY <1>6 DEF Receive, IInv, TypeOK
  <2>2. /\ DOMAIN Tail(buffer[n]) = 1 .. Len(buffer[n]) - 1
        /\ \A i \in DOMAIN Tail(buffer[n]) :
             Tail(buffer[n])[i] = buffer[n][i + 1] /\ i + 1 \in DOMAIN buffer[n]
        /\ q = buffer[n][1] /\ 1 \in DOMAIN buffer[n]
        /\ DOMAIN buffer[n] = 1 .. Len(buffer[n]) /\ Len(buffer[n]) \in Nat
    BY <1>6, <2>1, TailOfSeq
  <2>3. \A s \in Tasks, m \in Names :
          co'[s][m] = IF s = t /\ m = n THEN q ELSE co[s][m]
    BY <2>1 DEF IInv, TypeOK
  <2>4. /\ buffer'[n] = Tail(buffer[n])
        /\ \A m \in Names : m # n => buffer'[m] = buffer[m]
    BY <2>1 DEF IInv, TypeOK
  <2>5. q \in Payloads /\ InBuffer(n, q)
    BY <2>1, <2>2 DEF InBuffer
  <2> HIDE DEF q
  <2>6. \A m \in Names, p \in Payloads : InBuffer(m, p)' => InBuffer(m, p)
    <3> SUFFICES ASSUME NEW m \in Names, NEW p \in Payloads, InBuffer(m, p)'
                 PROVE  InBuffer(m, p)
      OBVIOUS
    <3>1. PICK i \in DOMAIN buffer'[m] : buffer'[m][i] = p
      BY DEF InBuffer
    <3>2. CASE m = n
      BY <3>1, <3>2, <2>2, <2>4 DEF InBuffer
    <3>3. CASE m # n
      BY <3>1, <3>3, <2>4 DEF InBuffer
    <3> QED
      BY <3>2, <3>3
  <2>7. ASSUME NEW m \in Names, NEW p \in Payloads, InBuffer(m, p)
        PROVE  InBuffer(m, p)' \/ (m = n /\ p = q)
    <3>1. PICK i \in DOMAIN buffer[m] : buffer[m][i] = p
      BY <2>7 DEF InBuffer
    <3>2. CASE m = n /\ i = 1
      BY <3>1, <3>2, <2>2
    <3>3. CASE m = n /\ i # 1
      <4>1. i - 1 \in DOMAIN Tail(buffer[n]) /\ (i - 1) + 1 = i
        BY <3>1, <3>3, <2>2
      <4>2. Tail(buffer[n])[i - 1] = p
        BY <3>1, <3>3, <4>1, <2>2
      <4> QED
        BY <3>3, <4>1, <4>2, <2>4 DEF InBuffer
    <3>4. CASE m # n
      BY <3>1, <3>4, <2>4 DEF InBuffer
    <3> QED
      BY <3>2, <3>3, <3>4
  <2>8. Backed'
    <3>1. <<"signal", n, q>> \in log
      BY <2>5 DEF HInv, Backed
    <3>2. ASSUME NEW s \in Tasks, NEW m \in Names, co'[s][m] \in Payloads
          PROVE  <<"signal", m, co'[s][m]>> \in log
      BY <3>1, <3>2, <2>3 DEF HInv, Backed
    <3> QED
      BY <1>1, <1>4, <2>6, <3>2 DEF HInv, Backed
  <2>9. Delivered'
    <3> SUFFICES ASSUME NEW s \in Tasks, NEW m \in Names, NEW p \in Payloads,
                        <<plan[s].type[m], m, p>> \in log, Accepts(s, m, p),
                        m \notin accepted[s], s \notin aborted
                 PROVE  plan[s].type[m] = "signal" /\ (co'[s][m] = p \/ InBuffer(m, p)')
      BY <1>1, <1>4 DEF Delivered
    <3>1. plan[s].type[m] = "signal" /\ (co[s][m] = p \/ InBuffer(m, p))
      BY DEF HInv, Delivered
    <3>2. CASE co[s][m] = p
      <4>1. ~(s = t /\ m = n)
        BY <3>2, <1>1 DEF Payloads
      <4> QED
        BY <3>1, <3>2, <4>1, <2>3
    <3>3. CASE InBuffer(m, p)' \/ (m = n /\ p = q)
      <4>1. m = n => s = t
        BY <1>2, <3>1 DEF HInv, Private
      <4> QED
        BY <3>1, <3>3, <4>1, <2>3
    <3> QED
      BY <3>1, <3>2, <3>3, <2>7
  <2> QED
    BY <1>3, <2>8, <2>9 DEF HInv
<1> QED
  BY <1>5, <1>6

LEMMA HandleHInv ==
  ASSUME IInv, HInv, NEW t \in Tasks, NEW n \in Names, Coroutine(t, n), Handle(t, n)
  PROVE  HInv'
<1> DEFINE q == co[t][n]
           next == IF Accepts(t, n, q) \/ InError(t, n, q) THEN "gone" ELSE "receive"
<1>1. /\ q \in Payloads /\ turn' = turn
      /\ UNCHANGED <<plan, cur, buffer, timer, log, heard>>
      /\ co' = [co EXCEPT ![t][n] = next]
      /\ aborted' = IF InError(t, n, q) THEN aborted \cup {t} ELSE aborted
      /\ accepted' = IF Accepts(t, n, q) THEN [accepted EXCEPT ![t] = accepted[t] \cup {n}]
                                         ELSE accepted
      /\ cur \in Tasks
  BY DEF Coroutine, Handle, control, IInv, TypeOK
<1>2. \A s \in Tasks, m \in Names :
        co'[s][m] = IF s = t /\ m = n THEN next ELSE co[s][m]
  BY <1>1 DEF IInv, TypeOK
<1>3. \A s \in Tasks :
        accepted'[s] = IF s = t /\ Accepts(t, n, q) THEN accepted[s] \cup {n} ELSE accepted[s]
  BY <1>1 DEF IInv, TypeOK
<1>4. plan[t].type[n] = "signal" /\ <<"signal", n, q>> \in log
  BY <1>1 DEF IInv, Started, HInv, Backed, Payloads
<1>5. next \notin Payloads
  BY DEF Payloads
<1> HIDE DEF q, next
<1>6. aborted \subseteq aborted' /\ \A s \in Tasks : accepted[s] \subseteq accepted'[s]
  BY <1>1, <1>3
<1>7. Private' /\ Settled'
  BY <1>1, <1>6, SettledStays DEF HInv, Private
<1>8. /\ \A s, m, p : Accepts(s, m, p)' <=> Accepts(s, m, p)
      /\ \A m, p : InBuffer(m, p)' <=> InBuffer(m, p)
  BY <1>1 DEF Accepts, InBuffer
<1>9. Backed'
  <2>1. ASSUME NEW s \in Tasks, NEW m \in Names, m \in accepted'[s]
        PROVE  \E p \in Payloads : <<plan[s].type[m], m, p>> \in log /\ Accepts(s, m, p)
    <3>1. CASE m \in accepted[s]
      BY <3>1 DEF HInv, Backed
    <3>2. CASE m \notin accepted[s]
      <4>1. s = t /\ m = n /\ Accepts(t, n, q)
        BY <1>3, <2>1, <3>2
      <4> QED
        BY <1>1, <1>4, <4>1
    <3> QED
      BY <3>1, <3>2
  <2>2. ASSUME NEW s \in Tasks, NEW m \in Names, co'[s][m] \in Payloads
        PROVE  <<"signal", m, co'[s][m]>> \in log
    BY <2>2, <1>2, <1>5 DEF HInv, Backed
  <2> QED
    BY <1>1, <1>8, <2>1, <2>2 DEF HInv, Backed
<1>10. Delivered'
  <2> SUFFICES ASSUME NEW s \in Tasks, NEW m \in Names, NEW p \in Payloads,
                      <<plan[s].type[m], m, p>> \in log, Accepts(s, m, p),
                      m \notin accepted'[s], s \notin aborted'
               PROVE  plan[s].type[m] = "signal" /\ (co'[s][m] = p \/ InBuffer(m, p))
    BY <1>1, <1>8 DEF Delivered
  <2>1. m \notin accepted[s] /\ s \notin aborted
    BY <1>6
  <2>2. plan[s].type[m] = "signal" /\ (co[s][m] = p \/ InBuffer(m, p))
    BY <2>1 DEF HInv, Delivered
  <2>3. CASE co[s][m] = p
    <3>1. ~(s = t /\ m = n)
      BY <2>3, <1>3 DEF q
    <3> QED
      BY <2>2, <2>3, <3>1, <1>2
  <2> QED
    BY <2>2, <2>3
<1> QED
  BY <1>7, <1>9, <1>10 DEF HInv

LEMMA ProceedHInv ==
  ASSUME IInv, HInv, Proceed
  PROVE  HInv'
<1>1. /\ turn' = "root" /\ timer' = FALSE /\ cur \in Tasks /\ cur + 1 \in Tasks
      /\ UNCHANGED <<plan, accepted, aborted, buffer, log, heard>>
  BY DEF IInv, TypeOK, Proceed, AtRoot, effects, Tasks
<1>2. /\ \A n \in Names : co'[cur + 1][n] \in {"none", "receive"}
      /\ \A t \in Tasks : t # cur + 1 => co'[t] = co[t]
  BY <1>1 DEF IInv, TypeOK, Proceed, Spawn
<1>3. \A n \in Names : co[cur + 1][n] = "none"
  BY <1>1 DEF IInv, Started, Tasks
<1>4. \A t \in Tasks, n \in Names, p \in Payloads : co'[t][n] = p <=> co[t][n] = p
  BY <1>1, <1>2, <1>3 DEF Payloads
<1>5. /\ \A t, m, p : Accepts(t, m, p)' <=> Accepts(t, m, p)
      /\ \A m, p : InBuffer(m, p)' <=> InBuffer(m, p)
  BY <1>1 DEF Accepts, InBuffer
<1>6. Private' /\ Settled'
  BY <1>1 DEF HInv, Private, Settled
<1>7. Backed'
  <2>1. \A t \in Tasks, n \in Names : co'[t][n] \in Payloads => <<"signal", n, co'[t][n]>> \in log
    BY <1>4 DEF HInv, Backed
  <2> QED
    BY <1>1, <1>5, <2>1 DEF HInv, Backed
<1>8. Delivered'
  BY <1>1, <1>4, <1>5 DEF HInv, Delivered
<1> QED
  BY <1>6, <1>7, <1>8 DEF HInv

\* When every coroutine is blocked, nothing that has come is left to be handled.
LEMMA AllMet ==
  ASSUME IInv, HInv, Runnable = {}, NEW n \in Names, NEW p \in Payloads,
         <<plan[cur].type[n], n, p>> \in log, Accepts(cur, n, p)
  PROVE  n \in accepted[cur] \/ cur \in aborted
<1>1. cur \in Tasks
  BY DEF IInv, TypeOK
<1> SUFFICES ASSUME n \notin accepted[cur], cur \notin aborted PROVE FALSE
  OBVIOUS
<1>2. plan[cur].type[n] = "signal" /\ (co[cur][n] = p \/ InBuffer(n, p))
  BY <1>1 DEF HInv, Delivered
<1>3. co[cur][n] \in CoStates \cup Payloads /\ co[cur][n] # "none" /\ co[cur][n] # "gone"
  BY <1>1, <1>2 DEF IInv, TypeOK, Started, Ended, Tasks
<1>4. co[cur][n] \notin {"receive"} \cup Payloads
  <2>1. <<cur, n>> \notin Runnable
    OBVIOUS
  <2> QED
    BY <1>1, <2>1 DEF Runnable
<1>5. co[cur][n] = "blocked" /\ InBuffer(n, p)
  BY <1>2, <1>3, <1>4 DEF CoStates
<1>6. waiting[n] # <<>> /\ buffer[n] # <<>>
  BY <1>1, <1>5 DEF IInv, Queued, InBuffer
<1> QED
  BY <1>6 DEF IInv, TypeOK

LEMMA YieldHInv ==
  ASSUME IInv, HInv, Yield
  PROVE  HInv'
<1>1. /\ turn = "root" /\ cur \in Tasks
      /\ turn' = IF Runnable = {} THEN "idle" ELSE "coroutines"
      /\ heard' = IF Runnable = {} THEN log ELSE heard
      /\ UNCHANGED <<plan, cur, accepted, aborted, co, buffer, timer, log>>
  BY DEF IInv, TypeOK, Yield, AtRoot, effects
<1>2. /\ \A t, m, p : Accepts(t, m, p)' <=> Accepts(t, m, p)
      /\ \A m, p : InBuffer(m, p)' <=> InBuffer(m, p)
  BY <1>1 DEF Accepts, InBuffer
<1>3. Private' /\ Backed'
  BY <1>1, <1>2 DEF HInv, Private, Backed
<1>4. Delivered'
  BY <1>1, <1>2 DEF HInv, Delivered
<1>5. Settled'
  <2>1. CASE Runnable = {}
    <3>1. heard' = log
      BY <1>1, <2>1
    <3>2. Met'
      BY <1>1, <1>2, <2>1, <3>1, AllMet DEF Met
    <3> QED
      BY <3>2 DEF Settled
  <2>2. CASE Runnable # {}
    BY <1>1, <1>2, <2>2 DEF HInv, Settled, Met
  <2> QED
    BY <2>1, <2>2
<1> QED
  BY <1>3, <1>4, <1>5 DEF HInv

LEMMA NextHInv == IInv /\ HInv /\ [Next]_vars => HInv'
<1> SUFFICES ASSUME IInv, HInv, [Next]_vars PROVE HInv'
  OBVIOUS
<1>0. cur \in Tasks
  BY DEF IInv, TypeOK
<1>1. CASE \/ UNCHANGED vars \/ TimerFires \/ CancelWorkflow \/ WorkflowTask
           \/ AllBlocked \/ Finish
  <2>1. UNCHANGED <<plan, cur, accepted, aborted, co, buffer, log, heard>>
    BY <1>1 DEF vars, TimerFires, CancelWorkflow, WorkflowTask, AllBlocked, Finish, AtRoot,
                control, mail, effects
  <2>2. timer' \/ turn' = "idle" => timer \/ turn = "idle"
    BY <1>1 DEF vars, TimerFires, CancelWorkflow, WorkflowTask, AllBlocked, Finish, AtRoot,
                Outside, control
  <2> QED
    BY <1>0, <2>1, <2>2, QuietStepHInv
<1>2. ASSUME NEW n \in Names, NEW p \in Payloads, Signal(n, p) \/ Update(n, p)
      PROVE  HInv'
  BY <1>2, SignalHInv, UpdateHInv
<1>3. ASSUME NEW t \in Tasks, NEW n \in Names, Coroutine(t, n)
      PROVE  HInv'
  BY <1>3, ReceiveHInv, HandleHInv DEF Coroutine
<1>4. CASE Proceed \/ Yield
  BY <1>4, ProceedHInv, YieldHInv
<1> QED
  BY <1>1, <1>2, <1>3, <1>4 DEF Next, Code, Terminated

LEMMA InvariantHInv == ASSUME Apart PROVE Spec => [](IInv /\ HInv)
<1>1. IInv /\ HInv /\ [Next]_vars => (IInv /\ HInv)'
  BY NextIInv, NextHInv
<1> QED
  BY <1>1, InitIInv, InitHInv, PTL DEF Spec

\* What a listener has accepted is what has come for it, once that is handled.
LEMMA AcceptedHasCome ==
  ASSUME IInv, HInv
  PROVE  accepted[cur] \subseteq Come(cur, log)
  BY DEF IInv, TypeOK, HInv, Backed, Come

LEMMA HeardIsAccepted ==
  ASSUME IInv, HInv, timer, cur \notin aborted
  PROVE  Come(cur, heard) \subseteq accepted[cur]
  BY DEF HInv, Settled, Met, Come

\* Provided that no two listeners of a list wait for the same event, a listener only
\* reports success when acceptable messages for its events have come, and only times out
\* when, as the workflow task before ended, they had not (configureSignal, await): none of
\* them is lost before the listener, behind one that it rejects, or in a coroutine.
THEOREM FollowsMessages == ASSUME Apart PROVE Spec => OutcomeFollowsMessages
<1> DEFINE Follows ==
      \A t \in Tasks : outcome'[t] # outcome[t] /\ Blocks(t) =>
        /\ outcome'[t] = "received" => Enough(t, log)
        /\ outcome'[t] = "timeout" => ~Enough(t, heard)
<1>1. IInv /\ HInv /\ [Next]_vars => [Follows]_vars
  <2> SUFFICES ASSUME IInv, HInv, Next, NEW t \in Tasks, outcome'[t] # outcome[t], Blocks(t)
               PROVE  /\ outcome'[t] = "received" => Enough(t, log)
                      /\ outcome'[t] = "timeout" => ~Enough(t, heard)
    OBVIOUS
  <2>1. Proceed \/ Finish
    <3>1. ASSUME NEW n \in Names, NEW p \in Payloads PROVE ~Signal(n, p) /\ ~Update(n, p)
      BY DEF Signal, Update, control
    <3>2. ~TimerFires /\ ~CancelWorkflow /\ ~WorkflowTask /\ ~AllBlocked
      BY DEF TimerFires, CancelWorkflow, WorkflowTask, AllBlocked, control
    <3>3. ASSUME NEW s \in Tasks, NEW n \in Names PROVE ~Coroutine(s, n)
      BY DEF Coroutine, control
    <3>4. ~Yield /\ ~Terminated
      BY DEF Yield, Terminated, vars
    <3> QED
      BY <3>1, <3>2, <3>3, <3>4 DEF Next, Code
  <2>2. t = cur /\ outcome'[t] = Verdict
    <3>1. outcome' = [outcome EXCEPT ![cur] = Verdict]
      BY <2>1 DEF Proceed, Finish
    <3> QED
      BY <3>1 DEF IInv, TypeOK
  <2>3. ASSUME Verdict = "received" PROVE Enough(cur, log)
    <3>1. Complete(cur)
      BY <2>2, <2>3 DEF Verdict
    <3> QED
      BY <3>1, AcceptedHasCome DEF Complete, Enough
  <2>4. ASSUME Verdict = "timeout" PROVE ~Enough(cur, heard)
    <3>1. ~Complete(cur) /\ timer /\ cur \notin aborted
      BY <2>2, <2>4 DEF Verdict
    <3> QED
      BY <3>1, HeardIsAccepted DEF Complete, Enough
  <2> QED
    BY <2>2, <2>3, <2>4
<1> QED
  BY <1>1, InvariantHInv, PTL DEF Spec, OutcomeFollowsMessages
=============================================================================
