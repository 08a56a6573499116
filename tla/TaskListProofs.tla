--------------------------- MODULE TaskListProofs ---------------------------
(***************************************************************************)
(* Proofs about TaskList, for every list length, every set of lists and    *)
(* limits, and every growth of the history.                                *)
(***************************************************************************)
EXTENDS TaskList, TLAPS

(***************************************************************************)
(* Type correctness.                                                       *)
(***************************************************************************)

LEMMA CountedType == ASSUME limit \in Nat, NEW h \in Nat PROVE Counted(h) \in Nat
  BY DEF Counted

LEMMA InitTypeOK == Init => TypeOK
<1> SUFFICES ASSUME Init PROVE TypeOK
  OBVIOUS
<1> USE TaskListAssumption DEF Init, Results
<1>1. /\ plan \in [Pos -> Task]
      /\ limit \in Nat
      /\ started \in [Pos -> 0 .. Often]
      /\ waived \subseteq Pos
  BY DEF Often
<1>2. pos \in 1 .. N + 1
  OBVIOUS
<1>3. next \in {0, Missing} \cup Pos
  OBVIOUS
<1>4. length \in Nat /\ cancelReq \in BOOLEAN
  <2>1. PICK h \in Opening : length = Counted(h)
    OBVIOUS
  <2> QED
    BY <1>1, <2>1, CountedType
<1>5. /\ canFrom \in {0} \cup Pos
      /\ output \in {0} \cup Pos /\ context \in {0} \cup Pos
  OBVIOUS
<1>6. /\ pc \in {"begin", "iterate", "running", "redirect", "closed"}
      /\ pc \in {"running", "redirect"} => pos \in Pos
      /\ result \in Results
  OBVIOUS
<1> QED
  BY <1>1, <1>2, <1>3, <1>4, <1>5, <1>6 DEF TypeOK

LEMMA GrowsType == ASSUME TypeOK, HistoryGrows PROVE length' \in Nat
<1>1. PICK g \in Growth : length' = Counted(length + g)
  BY DEF HistoryGrows
<1>2. length + g \in Nat /\ limit \in Nat
  BY TaskListAssumption DEF TypeOK
<1> QED
  BY <1>1, <1>2, CountedType

LEMMA NewRunType == ASSUME TypeOK, NewRun PROVE length' \in Nat
<1>1. PICK h \in Opening : length' = Counted(h)
  BY DEF NewRun
<1>2. h \in Nat /\ limit \in Nat
  BY TaskListAssumption DEF TypeOK
<1> QED
  BY <1>1, <1>2, CountedType

\* What a directive does to the control state.
LEMMA DispatchType ==
  ASSUME TypeOK, pos \in Pos, NEW d, Dispatch(d)
  PROVE  /\ pc' \in {"iterate", "closed"}
         /\ pos' \in 1 .. N + 1
         /\ next' \in {0, Missing} \cup Pos
         /\ result' \in Results
         /\ waived' \subseteq Pos
         /\ length' \in Nat
<1>1. pos \in 1 .. N /\ pos + 1 \in 1 .. N + 1
  BY TaskListAssumption DEF Pos
<1>2. plan[pos] \in Task
  BY DEF TypeOK
<1>3. plan[pos].target \in {0, Missing} \cup Pos
  BY <1>2 DEF Task
<1>4. JumpedOver(plan[pos].target) \subseteq Pos
  BY DEF JumpedOver
<1>5. length' \in Nat
  BY GrowsType DEF Dispatch, Closes, TypeOK
<1>6. waived' \subseteq Pos
  BY <1>4 DEF Dispatch, TypeOK
<1>7. pc' \in {"iterate", "closed"} /\ result' \in Results
  BY DEF Dispatch, Closes, Close, EndResult, Results, TypeOK
<1>8. pos' \in 1 .. N + 1 /\ next' \in {0, Missing} \cup Pos
  BY <1>1, <1>3 DEF Dispatch, TypeOK
<1> QED
  BY <1>5, <1>6, <1>7, <1>8

LEMMA RecordType ==
  ASSUME TypeOK, pos \in Pos, NEW b, Record(b)
  PROVE  output' \in {0} \cup Pos /\ context' \in {0} \cup Pos
  BY DEF Record, ContextAfter, TypeOK

LEMMA NextTypeOK == TypeOK /\ [Next]_vars => TypeOK'
<1> SUFFICES ASSUME TypeOK, [Next]_vars PROVE TypeOK'
  OBVIOUS
<1>0. /\ 0 \in {0} \cup Pos
      /\ 1 \in 1 .. N + 1
      /\ \A i \in Pos : i \in 1 .. N + 1 /\ i + 1 \in 1 .. N + 1
  BY TaskListAssumption DEF Pos
<1>1. CASE Begin
  BY <1>1 DEF Begin, TypeOK, history, data
<1>2. CASE RejectInput
  BY <1>2 DEF RejectInput, Close, TypeOK, Results, history, data
<1>3. CASE Visit
  <2>1. CASE ContinueAsNew
    <3> USE <2>1 DEF ContinueAsNew, AtTask
    <3>1. length' \in Nat /\ cancelReq' = FALSE
      BY NewRunType DEF NewRun
    <3>2. pos' \in 1 .. N + 1 /\ next' = 0 /\ canFrom' \in Pos
      BY <1>0 DEF NewRun
    <3>3. UNCHANGED <<plan, limit, pc, output, context, result, started, waived>>
      BY DEF history, data
    <3> QED
      BY <3>1, <3>2, <3>3 DEF TypeOK
  <2>2. CASE SkipDone
    BY <2>2, <1>0 DEF SkipDone, AtTask, TypeOK, history, data
  <2>3. CASE PassOver
    BY <2>3, <1>0 DEF PassOver, Reached, AtTask, TypeOK, history, data
  <2>4. CASE SkipIf
    BY <2>4, <1>0 DEF SkipIf, Selected, Reached, AtTask, TypeOK, data
  <2>5. CASE RejectTask
    BY <2>5 DEF RejectTask, Selected, Reached, AtTask, Close, TypeOK, Results,
                history, data
  <2>6. CASE StartTask
    <3>1. started' \in [Pos -> 0 .. Often]
      <4>1. started \in [Pos -> 0 .. Often]
        BY DEF TypeOK
      <4>2. \A n \in 0 .. Often : (IF n < Often THEN n + 1 ELSE n) \in 0 .. Often
        BY DEF Often
      <4> QED
        BY <2>6, <4>1, <4>2 DEF StartTask
    <3> QED
      BY <2>6, <3>1 DEF StartTask, Selected, Reached, AtTask, TypeOK, data
  <2>7. CASE EndOfList
    BY <2>7 DEF EndOfList, Close, TypeOK, Results, history, data
  <2> QED
    BY <1>3, <2>1, <2>2, <2>3, <2>4, <2>5, <2>6, <2>7 DEF Visit
<1>4. CASE Finish
  <2>0. pc \in {"running", "redirect"} /\ pos \in Pos
    BY <1>4 DEF Finish, TaskReturns, TaskFaults, TaskCancelled, OutputInError,
                StartRedirect, RedirectReturns, RedirectFails, TypeOK
  <2>1. ASSUME NEW d \in Flow, TaskReturns(d) PROVE TypeOK'
    <3>1. Dispatch(EffectiveDirective(d))
      BY <2>1 DEF TaskReturns
    <3>2. Record(d # "none" /\ ~WritesOutputItself(plan[pos]))
      BY <2>1 DEF TaskReturns
    <3>3. output' \in {0} \cup Pos /\ context' \in {0} \cup Pos
      BY <2>0, <3>2, RecordType
    <3>4. UNCHANGED <<plan, limit, canFrom, cancelReq, started>>
      BY <2>1 DEF TaskReturns
    <3> QED
      BY <2>0, <3>1, <3>3, <3>4, DispatchType DEF TypeOK
  <2>2. CASE TaskFaults
    BY <2>2, <2>0 DEF TaskFaults, Faults, Closes, Close, TypeOK, Results, history
  <2>3. CASE TaskCancelled
    BY <2>3, <1>0 DEF TaskCancelled, Closes, Close, TypeOK, Results, data
  <2>4. CASE OutputInError
    BY <2>4, <2>0 DEF OutputInError, Closes, Close, TypeOK, Results, history
  <2>5. CASE StartRedirect
    BY <2>5, <2>0, GrowsType DEF StartRedirect, TypeOK, history, data
  <2>6. ASSUME NEW ended \in BOOLEAN, RedirectReturns(ended) PROVE TypeOK'
    <3>1. Dispatch(IF ended THEN "end" ELSE "none")
      BY <2>6 DEF RedirectReturns
    <3>2. Record(FALSE)
      BY <2>6 DEF RedirectReturns
    <3>3. output' \in {0} \cup Pos /\ context' \in {0} \cup Pos
      BY <2>0, <3>2, RecordType
    <3>4. UNCHANGED <<plan, limit, canFrom, cancelReq, started>>
      BY <2>6 DEF RedirectReturns
    <3> QED
      BY <2>0, <3>1, <3>3, <3>4, DispatchType DEF TypeOK
  <2>7. ASSUME NEW r \in {"failed", "canceled"}, RedirectFails(r) PROVE TypeOK'
    BY <2>7 DEF RedirectFails, Closes, Close, TypeOK, Results, history, data
  <2> QED
    BY <1>4, <2>1, <2>2, <2>3, <2>4, <2>5, <2>6, <2>7 DEF Finish
<1>5. CASE RequestCancel
  BY <1>5 DEF RequestCancel, TypeOK, history, data
<1>6. CASE UNCHANGED vars
  BY <1>6 DEF vars, TypeOK
<1> QED
  BY <1>1, <1>2, <1>3, <1>4, <1>5, <1>6 DEF Next, Execute, Terminated

\* The state of the executor and of its history stays in its type, for every
\* list, every outcome of every task and every chain of runs.
THEOREM TypeCorrect == Spec => []TypeOK
  BY InitTypeOK, NextTypeOK, PTL DEF Spec

(***************************************************************************)
(* Each task once, in order, none dropped. Neither invariant is inductive: *)
(* that a task has not run yet follows from where the executor is in the   *)
(* list, and in a run that is still skipping what earlier runs did, from   *)
(* the resume point.                                                       *)
(***************************************************************************)

\* No list that may continue as new has a task that is re-entered on purpose.
Transparent ==
  \A list \in Lists :
    list.limit = 0 \/ \A i \in Pos : ~NeverSkipCAN(list.tasks[i])

Skippable == limit = 0 \/ \A i \in Pos : ~NeverSkipCAN(plan[i])

Executing == pc \in {"running", "redirect"}

\* The first task that no run has started, if there is room to rewind.
Front == IF canFrom # 0 THEN canFrom ELSE IF Executing THEN pos + 1 ELSE pos

\* The loop is passing over tasks on its way to a target that it will reach.
Ahead == next \in Pos /\ pos <= next

Accounted(i) == started[i] > 0 \/ i \in waived

ControlOK ==
  /\ canFrom # 0 => /\ limit # 0 /\ (RoomToRewind => ~ShouldContinueAsNew)
                    /\ pc = "iterate" /\ pos <= canFrom /\ next = 0
  /\ Executing => next = 0
  /\ pc # "closed" => result = "none"

StartedBeforeFront ==
  RoomToRewind /\ pc # "closed" => \A i \in Pos : started[i] > 0 => i < Front

\* A jump that cannot be reached leaves tasks out; it fails the workflow at the
\* end of the list, and the run cannot continue as new before that.
AccountedBeforeFront ==
  pc # "closed" =>
    /\ ShouldContinueAsNew \/ next = 0 \/ Ahead =>
         \A i \in Pos : i < Front => Accounted(i)
    /\ Ahead => \A i \in Pos : pos <= i /\ i < next => i \in waived

Once == RoomToRewind => \A i \in Pos : started[i] <= 1

IInv ==
  /\ TypeOK
  /\ Skippable
  /\ ControlOK
  /\ StartedBeforeFront
  /\ AccountedBeforeFront
  /\ Once
  /\ NothingDropped

LEMMA InitIInv == ASSUME Transparent PROVE Init => IInv
<1> SUFFICES ASSUME Init PROVE IInv
  OBVIOUS
<1>1. TypeOK
  BY InitTypeOK
<1>2. Skippable
  BY TaskListAssumption DEF Init, Transparent, Skippable
<1>3. /\ pc = "begin" /\ pos = 1 /\ canFrom = 0 /\ next = 0
      /\ result = "none" /\ \A i \in Pos : started[i] = 0
  BY DEF Init
<1>4. \A i \in Pos : i \in Nat /\ ~(i < 1)
  BY TaskListAssumption DEF Pos
<1>5. ControlOK
  BY <1>3 DEF ControlOK, Executing
<1>6. StartedBeforeFront /\ Once
  BY <1>3 DEF StartedBeforeFront, Once
<1>7. AccountedBeforeFront
  BY <1>3, <1>4 DEF AccountedBeforeFront, Front, Executing, Ahead, Pos
<1>8. NothingDropped
  BY <1>3 DEF NothingDropped
<1> QED
  BY <1>1, <1>2, <1>5, <1>6, <1>7, <1>8 DEF IInv

\* The part of the invariant about a closed workflow.
LEMMA CloseIInv ==
  ASSUME IInv, TypeOK', UNCHANGED <<plan, limit, started>>, pc' = "closed",
         canFrom' = 0,
         result' = "completed" => \A i \in Pos : Accounted(i)'
  PROVE  IInv'
<1>1. ControlOK' /\ StartedBeforeFront' /\ AccountedBeforeFront'
  BY DEF ControlOK, StartedBeforeFront, AccountedBeforeFront, Executing
<1>2. Skippable' /\ Once'
  BY DEF IInv, Skippable, Once, RoomToRewind
<1>3. NothingDropped'
  BY DEF NothingDropped, Accounted
<1> QED
  BY <1>1, <1>2, <1>3 DEF IInv

\* Where a task has run and its directive is obeyed.
LEMMA DispatchIInv ==
  ASSUME IInv, TypeOK', Executing, UNCHANGED <<plan, limit, canFrom, started>>,
         NEW d, Dispatch(d)
  PROVE  IInv'
<1>1. /\ canFrom = 0 /\ next = 0 /\ pos \in Pos /\ pc # "closed"
      /\ result = "none" /\ Front = pos + 1
  BY DEF IInv, ControlOK, Executing, TypeOK, Front
<1>2. /\ \A i \in Pos : i \in Nat
      /\ pos \in Nat
  BY <1>1, TaskListAssumption DEF Pos
<1>3. /\ RoomToRewind => \A i \in Pos : started[i] > 0 => i < pos + 1
      /\ \A i \in Pos : i < pos + 1 => Accounted(i)
  BY <1>1 DEF IInv, StartedBeforeFront, AccountedBeforeFront
<1>4. waived \subseteq waived'
  BY DEF Dispatch
<1>5. \A i \in Pos : i < pos + 1 => Accounted(i)'
  BY <1>3, <1>4 DEF Accounted
<1>6. CASE d \in {"exit", "end"}
  <2>1. pc' = "closed" /\ waived' = waived \cup {i \in Pos : pos < i}
    BY <1>6 DEF Dispatch, Closes, Close
  <2>2. \A i \in Pos : Accounted(i)'
    BY <1>2, <1>5, <2>1 DEF Accounted
  <2> QED
    BY <1>1, <2>1, <2>2, CloseIInv
<1>7. CASE d \in {"none", "continue", "goto"}
  <2>1. pc' = "iterate" /\ pos' = pos + 1 /\ result' = "none" /\ canFrom' = 0
    BY <1>1, <1>7 DEF Dispatch
  <2>2. Front' = pos + 1
    BY <2>1 DEF Front, Executing
  <2>3. ControlOK'
    BY <2>1 DEF ControlOK, Executing
  <2>4. StartedBeforeFront'
    BY <1>3, <2>2 DEF StartedBeforeFront, RoomToRewind
  <2>5. Ahead' => \A i \in Pos : pos + 1 <= i /\ i < next' => i \in waived'
    <3>1. CASE d = "goto"
      <4>1. /\ next' = plan[pos].target
            /\ waived' = waived \cup JumpedOver(plan[pos].target)
        BY <3>1 DEF Dispatch
      <4>2. SUFFICES ASSUME next' \in Pos, NEW i \in Pos, pos + 1 <= i, i < next'
                     PROVE  i \in JumpedOver(plan[pos].target)
        BY <4>1 DEF Ahead
      <4> QED
        BY <1>2, <4>1, <4>2 DEF JumpedOver
    <3>2. CASE d # "goto"
      <4>1. next' = 0
        BY <1>1, <1>7, <3>2 DEF Dispatch
      <4> QED
        BY <4>1 DEF Ahead, Pos
    <3> QED
      BY <3>1, <3>2
  <2>6. AccountedBeforeFront'
    BY <1>5, <2>1, <2>2, <2>5 DEF AccountedBeforeFront, Pos
  <2>7. NothingDropped'
    BY <2>1 DEF NothingDropped
  <2>8. Skippable' /\ Once'
    BY DEF IInv, Skippable, Once, RoomToRewind
  <2> QED
    BY <2>3, <2>4, <2>6, <2>7, <2>8 DEF IInv
<1> QED
  BY <1>6, <1>7 DEF Dispatch

\* The task function returns, in any way.
LEMMA FinishIInv == ASSUME IInv, TypeOK', Finish PROVE IInv'
<1>1. Executing /\ canFrom = 0 /\ result = "none" /\ next = 0
  BY DEF Finish, TaskReturns, TaskFaults, TaskCancelled, OutputInError,
         StartRedirect, RedirectReturns, RedirectFails, Executing, IInv,
         ControlOK
<1>2. ASSUME NEW d \in Flow, TaskReturns(d) PROVE IInv'
  BY <1>1, <1>2, DispatchIInv DEF TaskReturns
<1>3. ASSUME NEW ended \in BOOLEAN, RedirectReturns(ended) PROVE IInv'
  BY <1>1, <1>3, DispatchIInv DEF RedirectReturns
<1>4. CASE TaskFaults \/ TaskCancelled \/ OutputInError
           \/ \E r \in {"failed", "canceled"} : RedirectFails(r)
  <2>1. /\ pc' = "closed" /\ result' # "completed" /\ canFrom' = 0
        /\ UNCHANGED <<plan, limit, started>>
    BY <1>1, <1>4 DEF TaskFaults, Faults, TaskCancelled, OutputInError, RedirectFails,
                      Closes, Close, history
  <2> QED
    BY <2>1, CloseIInv
<1>5. CASE StartRedirect
  <2>1. /\ pc = "running" /\ pc' = "redirect"
        /\ UNCHANGED <<plan, limit, pos, next, canFrom, result, started, waived>>
    BY <1>5 DEF StartRedirect, history
  <2>2. Front' = Front /\ (Ahead' <=> Ahead)
        /\ \A i \in Pos : Accounted(i)' <=> Accounted(i)
    BY <2>1 DEF Front, Ahead, Accounted, Executing
  <2>3. ControlOK' /\ Skippable' /\ Once' /\ NothingDropped'
    BY <1>1, <2>1 DEF IInv, ControlOK, Skippable, Once, NothingDropped, Executing,
                      RoomToRewind
  <2>4. StartedBeforeFront'
    BY <2>1, <2>2 DEF IInv, StartedBeforeFront, RoomToRewind
  <2>5. AccountedBeforeFront'
    BY <1>1, <2>1, <2>2 DEF IInv, AccountedBeforeFront
  <2> QED
    BY <2>3, <2>4, <2>5 DEF IInv
<1> QED
  BY <1>2, <1>3, <1>4, <1>5 DEF Finish

\* With a resume point only for tasks that are skipped, the loop never gets
\* past it.
LEMMA ReachedFront ==
  ASSUME IInv, Reached
  PROVE  /\ canFrom \in {0, pos} /\ canFrom' = 0
         /\ Front = pos /\ pos \in Pos /\ pc = "iterate" /\ result = "none"
<1>1. pc = "iterate" /\ pos \in Pos /\ result = "none"
  BY DEF Reached, AtTask, IInv, ControlOK
<1>2. CASE canFrom = 0
  BY <1>1, <1>2 DEF Reached, Front, Executing
<1>3. CASE canFrom # 0 /\ ~NeverSkipCAN(plan[pos])
  BY <1>1, <1>3 DEF Reached, ShouldSkip, Front
<1>4. CASE canFrom # 0 /\ NeverSkipCAN(plan[pos])
  BY <1>1, <1>4 DEF IInv, ControlOK, Skippable
<1> QED
  BY <1>1, <1>2, <1>3, <1>4

\* A run that has room to rewind does not begin with Continue-As-New due.
LEMMA FreshRun ==
  ASSUME TypeOK, limit' = limit, NewRun, RoomToRewind
  PROVE  ~ShouldContinueAsNew'
<1>1. PICK h \in Opening : length' = Counted(h)
  BY DEF NewRun
<1>2. h \in Nat /\ limit \in Nat /\ (limit = 0 \/ h <= limit)
  BY TaskListAssumption DEF TypeOK, RoomToRewind
<1> QED
  BY <1>1, <1>2 DEF Counted, ShouldContinueAsNew

\* One visit of a task by the loop.
LEMMA VisitIInv == ASSUME IInv, TypeOK', Visit PROVE IInv'
<1> USE DEF IInv
<1>0. /\ \A i \in Pos : i \in Nat /\ i # 0
      /\ pos \in Nat /\ pc = "iterate" /\ ~Executing /\ result = "none"
  BY TaskListAssumption DEF Pos, TypeOK, ControlOK, Executing, Visit,
     ContinueAsNew, SkipDone, PassOver, SkipIf, RejectTask, StartTask, EndOfList,
     Selected, Reached, AtTask
<1>1. CASE ContinueAsNew
  <2>1. /\ pos \in Pos /\ ShouldContinueAsNew /\ pc' = pc /\ pos' = 1 /\ next' = 0
        /\ canFrom' = pos
        /\ UNCHANGED <<plan, limit, result, started, waived>>
    BY <1>1 DEF ContinueAsNew, NewRun, AtTask, history
  <2>2. limit # 0 /\ (RoomToRewind' => RoomToRewind /\ ~ShouldContinueAsNew')
    BY <1>1, <2>1, FreshRun DEF ShouldContinueAsNew, ContinueAsNew, RoomToRewind
  <2>3. /\ pos <= Front /\ Front' = pos
        /\ RoomToRewind => Front = pos
    BY <1>0, <2>1 DEF Front, ControlOK, TypeOK
  <2>4. ControlOK' /\ Skippable' /\ Once' /\ NothingDropped'
    BY <1>0, <2>1, <2>2 DEF ControlOK, Skippable, Once, NothingDropped,
                            Executing, Pos
  <2>5. StartedBeforeFront'
    BY <1>0, <2>1, <2>2, <2>3 DEF StartedBeforeFront
  <2>6. \A i \in Pos : i < pos => i < Front
    BY <1>0, <2>1, <2>3 DEF Front, TypeOK
  <2>7. AccountedBeforeFront'
    BY <1>0, <2>1, <2>3, <2>6 DEF AccountedBeforeFront, Ahead, Accounted
  <2> QED
    BY <2>4, <2>5, <2>7
<1>2. CASE SkipDone
  <2>1. /\ pos \in Pos /\ canFrom # 0 /\ canFrom # pos /\ pos' = pos + 1
        /\ UNCHANGED <<plan, limit, pc, next, canFrom, length, result, started,
                       waived>>
    BY <1>2 DEF SkipDone, AtTask, ShouldSkip, history
  <2>2. canFrom \in Pos /\ pos <= canFrom /\ next = 0
    BY <1>0, <2>1 DEF ControlOK, TypeOK
  <2>3. Front = canFrom /\ Front' = canFrom
    BY <2>1 DEF Front
  <2>4. ControlOK' /\ Skippable' /\ Once' /\ NothingDropped'
    BY <1>0, <2>1, <2>2 DEF ControlOK, Skippable, Once, NothingDropped, Executing,
                            RoomToRewind, ShouldContinueAsNew
  <2>5. StartedBeforeFront' /\ AccountedBeforeFront'
    BY <1>0, <2>1, <2>2, <2>3 DEF StartedBeforeFront, AccountedBeforeFront,
                                  Ahead, Accounted, RoomToRewind
  <2> QED
    BY <2>4, <2>5
<1>3. CASE PassOver
  <2>1. /\ next # 0 /\ next # pos /\ pos' = pos + 1
        /\ ~ShouldContinueAsNew /\ ~ShouldContinueAsNew'
        /\ Reached
        /\ UNCHANGED <<plan, limit, pc, next, result, started, waived>>
    BY <1>3 DEF PassOver, Reached, history, ShouldContinueAsNew
  <2>2. Front = pos /\ Front' = pos + 1 /\ canFrom' = 0
    BY <1>0, <2>1, ReachedFront DEF Front, Executing
  <2>3. ControlOK' /\ Skippable' /\ Once' /\ NothingDropped'
    BY <1>0, <2>1, <2>2 DEF ControlOK, Skippable, Once, NothingDropped, Executing,
                            RoomToRewind
  <2>4. StartedBeforeFront'
    BY <1>0, <2>1, <2>2 DEF StartedBeforeFront, RoomToRewind
  <2>5. Ahead' => Ahead /\ pos < next
    BY <1>0, <2>1 DEF Ahead
  <2>6. pos \in Pos
    BY <2>1, ReachedFront
  <2>7. AccountedBeforeFront'
    BY <1>0, <2>1, <2>2, <2>5, <2>6 DEF AccountedBeforeFront, Ahead, Accounted
  <2> QED
    BY <2>3, <2>4, <2>7
<1>4. CASE Selected /\ (SkipIf \/ RejectTask \/ StartTask)
  <2>1. /\ Front = pos /\ canFrom' = 0 /\ next' = 0 /\ next \in {0, pos}
        /\ pos \in Pos
    BY <1>4, ReachedFront DEF Selected
  <2>2. /\ RoomToRewind => \A i \in Pos : started[i] > 0 => i < pos
        /\ \A i \in Pos : i < pos => Accounted(i)
    BY <1>0, <2>1 DEF StartedBeforeFront, AccountedBeforeFront, Ahead
  <2>3. CASE SkipIf
    <3>1. /\ pos' = pos + 1 /\ waived' = waived \cup {pos}
          /\ UNCHANGED <<plan, limit, pc, result, started>>
      BY <2>3 DEF SkipIf
    <3>2. Front' = pos + 1
      BY <1>0, <2>1, <3>1 DEF Front, Executing
    <3>3. ControlOK' /\ Skippable' /\ Once' /\ NothingDropped'
      BY <1>0, <2>1, <3>1 DEF ControlOK, Skippable, Once, NothingDropped,
                              Executing, RoomToRewind
    <3>4. StartedBeforeFront' /\ AccountedBeforeFront'
      BY <1>0, <2>1, <2>2, <3>1, <3>2 DEF StartedBeforeFront,
         AccountedBeforeFront, Ahead, Accounted, RoomToRewind
    <3> QED
      BY <3>3, <3>4
  <2>4. CASE RejectTask
    <3>1. /\ pc' = "closed" /\ result' = "failed"
          /\ UNCHANGED <<plan, limit, started>>
      BY <2>4 DEF RejectTask, Close, history
    <3> QED
      BY <2>1, <3>1, CloseIInv
  <2>5. CASE StartTask
    <3>1. /\ pc' = "running"
          /\ started' = [started EXCEPT ![pos] = IF @ < Often THEN @ + 1 ELSE @]
          /\ UNCHANGED <<plan, limit, pos, result, waived>>
      BY <2>5 DEF StartTask
    <3>2. /\ started \in [Pos -> 0 .. Often]
          /\ RoomToRewind => started[pos] = 0
      BY <1>0, <2>1, <2>2 DEF TypeOK, Often
    <3>3. /\ \A i \in Pos : i # pos => started'[i] = started[i]
          /\ started'[pos] > 0 /\ (RoomToRewind => started'[pos] = 1)
      BY <2>1, <3>1, <3>2 DEF Often
    <3>4. Front' = pos + 1 /\ ~Ahead' /\ Executing'
      BY <1>0, <2>1, <3>1 DEF Front, Executing, Ahead
    <3>5. ControlOK' /\ Skippable' /\ Once' /\ NothingDropped'
      BY <1>0, <2>1, <3>1, <3>3 DEF ControlOK, Skippable, Once, NothingDropped,
                                    Executing, RoomToRewind
    <3>6. StartedBeforeFront'
      BY <1>0, <2>1, <2>2, <3>1, <3>3, <3>4 DEF StartedBeforeFront, RoomToRewind
    <3>7. AccountedBeforeFront'
      BY <1>0, <2>1, <2>2, <3>1, <3>3, <3>4 DEF AccountedBeforeFront, Accounted
    <3> QED
      BY <3>5, <3>6, <3>7
  <2> QED
    BY <1>4, <2>3, <2>4, <2>5
<1>5. CASE EndOfList
  <2>1. /\ pos = N + 1 /\ pc' = "closed" /\ canFrom' = canFrom
        /\ result' = IF next = 0 THEN "completed" ELSE "failed"
        /\ UNCHANGED <<plan, limit, started, waived>>
    BY <1>5 DEF EndOfList, Close, history
  <2>2. canFrom = 0 /\ Front = N + 1
    BY <1>0, <2>1, TaskListAssumption DEF ControlOK, TypeOK, Front, Pos
  <2>3. next = 0 => \A i \in Pos : Accounted(i)
    BY <1>0, <2>2, TaskListAssumption DEF AccountedBeforeFront, Pos
  <2>4. result' = "completed" => \A i \in Pos : Accounted(i)'
    BY <2>1, <2>3 DEF Accounted
  <2> QED
    BY <2>1, <2>2, <2>4, CloseIInv
<1> QED
  BY <1>1, <1>2, <1>3, <1>4, <1>5 DEF Visit, SkipIf, RejectTask, StartTask

LEMMA NextIInv == IInv /\ [Next]_vars => IInv'
<1> SUFFICES ASSUME IInv, [Next]_vars PROVE IInv'
  OBVIOUS
<1>1. TypeOK'
  BY NextTypeOK DEF IInv
<1>2. CASE Begin
  <2>1. /\ pc = "begin" /\ pc' = "iterate"
        /\ UNCHANGED <<plan, limit, pos, next, canFrom, length, result, started,
                       waived>>
    BY <1>2 DEF Begin, history
  <2>2. Front' = Front /\ canFrom = 0 /\ (Ahead' <=> Ahead)
    BY <2>1 DEF Front, Executing, IInv, ControlOK, Ahead
  <2>3. ControlOK' /\ Skippable' /\ Once' /\ NothingDropped'
    BY <2>1, <2>2 DEF IInv, ControlOK, Skippable, Once, NothingDropped, Executing,
                      RoomToRewind
  <2>4. StartedBeforeFront' /\ AccountedBeforeFront'
    BY <2>1, <2>2 DEF IInv, StartedBeforeFront, AccountedBeforeFront, Accounted,
                      RoomToRewind, ShouldContinueAsNew
  <2> QED
    BY <1>1, <2>3, <2>4 DEF IInv
<1>3. CASE RejectInput
  <2>1. /\ pc = "begin" /\ pc' = "closed" /\ result' = "failed"
        /\ UNCHANGED <<plan, limit, canFrom, started>>
    BY <1>3 DEF RejectInput, Close, history
  <2>2. canFrom' = 0
    BY <2>1 DEF IInv, ControlOK
  <2> QED
    BY <1>1, <2>1, <2>2, CloseIInv
<1>4. CASE Visit
  BY <1>1, <1>4, VisitIInv
<1>5. CASE Finish
  BY <1>1, <1>5, FinishIInv
<1>6. CASE RequestCancel \/ UNCHANGED vars
  <2>1. UNCHANGED <<plan, limit, pc, pos, next, canFrom, length, result, started,
                    waived>>
    BY <1>6 DEF RequestCancel, vars, history
  <2>2. Front' = Front /\ (Ahead' <=> Ahead)
    BY <2>1 DEF Front, Executing, Ahead
  <2>3. ControlOK' /\ Skippable' /\ Once' /\ NothingDropped'
    BY <2>1 DEF IInv, ControlOK, Skippable, Once, NothingDropped, Executing,
                RoomToRewind, ShouldContinueAsNew
  <2>4. StartedBeforeFront' /\ AccountedBeforeFront'
    BY <2>1, <2>2 DEF IInv, StartedBeforeFront, AccountedBeforeFront, Accounted,
                      RoomToRewind, ShouldContinueAsNew
  <2> QED
    BY <1>1, <2>3, <2>4 DEF IInv
<1> QED
  BY <1>2, <1>3, <1>4, <1>5, <1>6 DEF Next, Execute, Terminated

LEMMA InvariantIInv == ASSUME Transparent PROVE Spec => []IInv
  BY InitIInv, NextIInv, PTL DEF Spec

\* Over the whole chain of Continue-As-New runs no task runs twice, if the runs
\* have room to rewind, and provided that no list that may continue as new has
\* a listener or an inline do.
THEOREM RunsOnce == ASSUME Transparent PROVE Spec => []NoReexecution
<1>1. IInv => NoReexecution
  BY DEF IInv, Once, NoReexecution
<1> QED
  BY <1>1, InvariantIInv, PTL

\* A workflow that completes has run every task that the program did not say
\* to leave out, provided that no list that may continue as new has a listener
\* or an inline do: also one that has no room to rewind, whose resume point
\* moves back.
THEOREM DropsNothing == ASSUME Transparent PROVE Spec => []NothingDropped
<1>1. IInv => NothingDropped
  BY DEF IInv
<1> QED
  BY <1>1, InvariantIInv, PTL

\* Tasks start in declaration order over the whole chain of runs, if the runs
\* have room to rewind and under the same condition.
THEOREM StartsInOrder == ASSUME Transparent PROVE Spec => InOrder
<1> DEFINE Ordered ==
      \A i \in Pos :
        started'[i] # started[i] =>
          \A j \in Pos : i < j /\ ~NeverSkipCAN(plan[j]) => started[j] = 0
<1>1. IInv /\ [Next]_vars => [RoomToRewind => Ordered]_vars
  <2> SUFFICES ASSUME IInv, Next, RoomToRewind PROVE Ordered
    OBVIOUS
  <2>1. CASE StartTask
    <3>1. Front = pos /\ pos \in Pos /\ pc # "closed"
      BY <2>1, ReachedFront DEF StartTask, Selected
    <3>2. \A j \in Pos : pos < j => started[j] = 0
      <4>1. \A j \in Pos : j \in Nat /\ started[j] \in Nat
        BY TaskListAssumption DEF Pos, IInv, TypeOK, Often
      <4> QED
        BY <3>1, <4>1 DEF IInv, StartedBeforeFront
    <3>3. \A i \in Pos : started'[i] # started[i] => i = pos
      BY <2>1 DEF StartTask, IInv, TypeOK
    <3> QED
      BY <3>2, <3>3
  <2>2. CASE ~StartTask
    <3>1. UNCHANGED started
      BY <2>2 DEF Next, Execute, Begin, RejectInput, Visit, ContinueAsNew,
         SkipDone, PassOver, SkipIf, RejectTask, EndOfList, Finish, TaskReturns,
         TaskFaults, TaskCancelled, OutputInError, StartRedirect,
         RedirectReturns, RedirectFails, RequestCancel, Terminated, vars, history
    <3> QED
      BY <3>1
  <2> QED
    BY <2>1, <2>2
<1> QED
  BY <1>1, InvariantIInv, PTL DEF Spec, InOrder

(***************************************************************************)
(* TaskList implements TaskProgram. A pending jump does not survive a      *)
(* Continue-As-New, so that a list that may continue as new does so        *)
(* without jumps only.                                                     *)
(***************************************************************************)

Straight ==
  \A list \in Lists :
    list.limit = 0
    \/ \A i \in Pos : ~NeverSkipCAN(list.tasks[i]) /\ list.tasks[i].then # "goto"

\* Every child workflow has an `output`: the executor does not keep the output of
\* one that ends the workflow.
Shaping ==
  \A list \in Lists : \A i \in Pos :
    list.tasks[i].kind = "child" => list.tasks[i].shapes

Shaped == \A i \in Pos : plan[i].kind = "child" => plan[i].shapes

\* A redirect is that of a switch.
Routing == pc = "redirect" => plan[pos].kind = "route"

JumpsStay == limit = 0 \/ (next = 0 /\ \A i \in Pos : plan[i].then # "goto")

\* A task that is waived and not behind the loop is one that it is passing over.
WaivedAhead ==
  RoomToRewind /\ pc # "closed" =>
    \A i \in waived : i < Front \/ (Ahead /\ i < next)

JInv == IInv /\ JumpsStay /\ WaivedAhead /\ WaivedStaysUnrun

LEMMA StraightTransparent == Straight => Transparent
  BY DEF Straight, Transparent

LEMMA PlanStays == [Next]_vars => plan' = plan /\ limit' = limit
  BY DEF Next, Execute, Begin, RejectInput, Visit, ContinueAsNew, SkipDone, PassOver, SkipIf,
     RejectTask, StartTask, EndOfList, Finish, TaskReturns, TaskFaults, TaskCancelled,
     OutputInError, StartRedirect, RedirectReturns, RedirectFails, RequestCancel, Terminated,
     vars

LEMMA InitJInv == ASSUME Straight PROVE Init => JInv
<1> SUFFICES ASSUME Init PROVE JInv
  OBVIOUS
<1>1. IInv
  BY StraightTransparent, InitIInv
<1>2. JumpsStay
  BY TaskListAssumption DEF Init, Straight, JumpsStay
<1>3. WaivedAhead /\ WaivedStaysUnrun
  BY DEF Init, WaivedAhead, WaivedStaysUnrun
<1> QED
  BY <1>1, <1>2, <1>3 DEF JInv

\* A task has run and its directive is obeyed.
LEMMA DispatchJInv ==
  ASSUME JInv, Executing, UNCHANGED <<plan, limit, canFrom, started>>, NEW d, Dispatch(d),
         d = "goto" => plan[pos].then = "goto"
  PROVE  JumpsStay' /\ WaivedAhead' /\ WaivedStaysUnrun'
<1>1. /\ canFrom = 0 /\ next = 0 /\ pos \in Pos /\ pc # "closed" /\ Front = pos + 1
      /\ \A i \in Pos : i \in Nat /\ i # 0
      /\ waived \subseteq Pos /\ started \in [Pos -> 0 .. Often]
  BY TaskListAssumption DEF JInv, IInv, ControlOK, Executing, TypeOK, Front, Pos
<1>2. RoomToRewind => /\ \A i \in Pos : pos < i => started[i] = 0
                      /\ \A i \in waived : i < pos + 1
  <2>1. RoomToRewind => \A i \in Pos : ~(i < pos + 1) => started[i] = 0
    BY <1>1 DEF JInv, IInv, StartedBeforeFront, Often
  <2>2. ~Ahead
    BY <1>1 DEF Ahead
  <2> QED
    BY <1>1, <2>1, <2>2 DEF JInv, WaivedAhead
<1>0. RoomToRewind' => RoomToRewind
  BY DEF RoomToRewind
<1>3. \A i \in waived' : i \in waived \/ (i \in Pos /\ pos < i)
  BY DEF Dispatch, JumpedOver
<1>4. WaivedStaysUnrun'
  BY <1>0, <1>2, <1>3 DEF JInv, WaivedStaysUnrun
<1>5. CASE d \in {"exit", "end"}
  BY <1>0, <1>4, <1>5 DEF Dispatch, Closes, Close, JInv, JumpsStay, WaivedAhead
<1>6. CASE d \in {"none", "continue"}
  <2>1. /\ pos' = pos + 1 /\ next' = 0 /\ pc' = "iterate" /\ waived' = waived /\ canFrom' = 0
    BY <1>1, <1>6 DEF Dispatch
  <2>2. Front' = pos + 1
    BY <2>1 DEF Front, Executing
  <2> QED
    BY <1>0, <1>2, <1>4, <2>1, <2>2 DEF JInv, JumpsStay, WaivedAhead
<1>7. CASE d = "goto"
  <2>1. /\ pos' = pos + 1 /\ next' = plan[pos].target /\ pc' = "iterate" /\ canFrom' = 0
        /\ waived' = waived \cup JumpedOver(plan[pos].target)
    BY <1>1, <1>7 DEF Dispatch
  <2>2. limit = 0
    BY <1>1, <1>7 DEF JInv, JumpsStay
  <2>3. Front' = pos + 1
    BY <2>1 DEF Front, Executing
  <2>4. ASSUME NEW i \in JumpedOver(plan[pos].target) PROVE Ahead' /\ i < next'
    <3>1. plan[pos].target \in Pos /\ i \in Pos /\ pos < i /\ i < plan[pos].target
      BY DEF JumpedOver
    <3> QED
      BY <1>1, <2>1, <3>1 DEF Ahead
  <2> QED
    BY <1>0, <1>2, <1>4, <2>1, <2>2, <2>3, <2>4 DEF JumpsStay, WaivedAhead
<1> QED
  BY <1>5, <1>6, <1>7 DEF Dispatch

LEMMA VisitJInv == ASSUME JInv, Visit PROVE JumpsStay' /\ WaivedAhead' /\ WaivedStaysUnrun'
<1> USE DEF JInv
<1>0. /\ \A i \in Pos : i \in Nat /\ i # 0
      /\ pos \in Nat /\ pc = "iterate" /\ waived \subseteq Pos /\ plan' = plan
      /\ limit' = limit /\ (RoomToRewind' => RoomToRewind)
  BY TaskListAssumption DEF Pos, IInv, TypeOK, Visit, ContinueAsNew, SkipDone, PassOver, SkipIf,
     RejectTask, StartTask, EndOfList, Selected, Reached, AtTask, RoomToRewind
<1>1. CASE ContinueAsNew
  <2>1. /\ pos \in Pos /\ ShouldContinueAsNew /\ pc' = pc /\ pos' = 1 /\ next' = 0
        /\ canFrom' = pos /\ UNCHANGED <<started, waived>>
    BY <1>1 DEF ContinueAsNew, NewRun, AtTask, history
  <2>2. limit # 0
    BY <2>1 DEF ShouldContinueAsNew
  <2>3. next = 0 /\ Front' = pos /\ (RoomToRewind => Front = pos)
    BY <1>0, <2>1, <2>2 DEF JumpsStay, IInv, ControlOK, Front, Executing
  <2> QED
    BY <1>0, <2>1, <2>3 DEF JumpsStay, WaivedAhead, WaivedStaysUnrun, Ahead
<1>2. CASE SkipDone
  <2>1. /\ canFrom # 0 /\ UNCHANGED <<pc, next, canFrom, started, waived>>
    BY <1>2 DEF SkipDone, ShouldSkip, history
  <2>2. next = 0 /\ Front' = Front
    BY <2>1 DEF IInv, ControlOK, Front
  <2> QED
    BY <1>0, <2>1, <2>2 DEF JumpsStay, WaivedAhead, WaivedStaysUnrun, Ahead
<1>3. CASE PassOver
  <2>1. /\ next # pos /\ next # 0 /\ pos' = pos + 1 /\ Reached
        /\ UNCHANGED <<pc, next, started, waived>>
    BY <1>3 DEF PassOver, history
  <2>2. Front = pos /\ Front' = pos + 1 /\ canFrom' = 0 /\ pos \in Pos
    BY <1>0, <2>1, ReachedFront DEF Front, Executing, IInv
  <2>3. RoomToRewind => \A i \in waived : i < pos + 1 \/ (Ahead' /\ i < next)
    <3> HAVE RoomToRewind
    <3>1. ASSUME NEW i \in waived, ~(i < pos) PROVE Ahead /\ i < next
      BY <1>0, <2>2, <3>1 DEF WaivedAhead
    <3>2. Ahead => pos < next
      BY <1>0, <2>1 DEF Ahead
    <3>3. Ahead => Ahead'
      BY <1>0, <2>1, <3>2 DEF Ahead
    <3> QED
      BY <1>0, <3>1, <3>3
  <2> QED
    BY <1>0, <2>1, <2>2, <2>3 DEF JumpsStay, WaivedAhead, WaivedStaysUnrun
<1>4. CASE Selected /\ (SkipIf \/ RejectTask \/ StartTask)
  <2>1. /\ Front = pos /\ canFrom' = 0 /\ next' = 0 /\ next \in {0, pos} /\ pos \in Pos
    BY <1>4, ReachedFront DEF Selected
  <2>2. JumpsStay'
    BY <1>0, <2>1 DEF JumpsStay
  <2>3. RoomToRewind => \A i \in waived : i < pos
    BY <1>0, <2>1 DEF WaivedAhead
  <2>4. CASE SkipIf
    <3>1. /\ pos' = pos + 1 /\ waived' = waived \cup {pos} /\ pc' = pc /\ started' = started
      BY <2>4 DEF SkipIf
    <3>2. Front' = pos + 1
      BY <1>0, <2>1, <3>1 DEF Front, Executing
    <3>3. RoomToRewind => started[pos] = 0
      BY <1>0, <2>1 DEF IInv, StartedBeforeFront, TypeOK, Often
    <3> QED
      BY <1>0, <2>1, <2>2, <2>3, <3>1, <3>2, <3>3 DEF WaivedAhead, WaivedStaysUnrun
  <2>5. CASE RejectTask
    BY <1>0, <2>2, <2>5 DEF RejectTask, Close, history, WaivedAhead, WaivedStaysUnrun
  <2>6. CASE StartTask
    <3>1. /\ pc' = "running" /\ started' = [started EXCEPT ![pos] = IF @ < Often THEN @ + 1 ELSE @]
          /\ UNCHANGED <<pos, waived>>
      BY <2>6 DEF StartTask
    <3>2. Front' = pos + 1
      BY <2>1, <3>1 DEF Front, Executing
    <3>3. RoomToRewind => \A i \in waived : i \in Pos /\ i # pos /\ i < pos + 1
      BY <1>0, <2>3
    <3>4. \A i \in Pos : i # pos => started'[i] = started[i]
      BY <3>1 DEF IInv, TypeOK
    <3> QED
      BY <1>0, <2>2, <3>1, <3>2, <3>3, <3>4 DEF WaivedAhead, WaivedStaysUnrun
  <2> QED
    BY <1>4, <2>4, <2>5, <2>6
<1>5. CASE EndOfList
  BY <1>0, <1>5 DEF EndOfList, Close, history, JumpsStay, WaivedAhead, WaivedStaysUnrun
<1> QED
  BY <1>1, <1>2, <1>3, <1>4, <1>5 DEF Visit, SkipIf, RejectTask, StartTask

LEMMA FinishJInv == ASSUME JInv, Finish PROVE JumpsStay' /\ WaivedAhead' /\ WaivedStaysUnrun'
<1>1. Executing /\ next = 0
  BY DEF Finish, TaskReturns, TaskFaults, TaskCancelled, OutputInError, StartRedirect,
         RedirectReturns, RedirectFails, Executing, JInv, IInv, ControlOK
<1>2. ASSUME NEW d \in Flow, TaskReturns(d) PROVE JumpsStay' /\ WaivedAhead' /\ WaivedStaysUnrun'
  <2>1. EffectiveDirective(d) = "goto" => plan[pos].then = "goto"
    BY <1>2 DEF TaskReturns, Emits, HandsOnEnd, EffectiveDirective
  <2> QED
    BY <1>1, <1>2, <2>1, DispatchJInv DEF TaskReturns
<1>3. ASSUME NEW ended \in BOOLEAN, RedirectReturns(ended)
      PROVE  JumpsStay' /\ WaivedAhead' /\ WaivedStaysUnrun'
  BY <1>1, <1>3, DispatchJInv DEF RedirectReturns
<1>4. CASE TaskFaults \/ TaskCancelled \/ OutputInError
           \/ \E r \in {"failed", "canceled"} : RedirectFails(r)
  <2>1. pc' = "closed" /\ UNCHANGED <<plan, limit, next, started, waived>>
    BY <1>4 DEF TaskFaults, TaskCancelled, OutputInError, RedirectFails, Closes, Close, history
  <2> QED
    BY <2>1 DEF JInv, JumpsStay, WaivedAhead, WaivedStaysUnrun, RoomToRewind
<1>5. CASE StartRedirect
  <2>1. /\ pc = "running" /\ pc' = "redirect"
        /\ UNCHANGED <<plan, limit, pos, next, canFrom, started, waived>>
    BY <1>5 DEF StartRedirect, history
  <2>2. Front' = Front /\ (Ahead' <=> Ahead)
    BY <2>1 DEF Front, Ahead, Executing
  <2> QED
    BY <2>1, <2>2 DEF JInv, JumpsStay, WaivedAhead, WaivedStaysUnrun, RoomToRewind
<1> QED
  BY <1>2, <1>3, <1>4, <1>5 DEF Finish

LEMMA NextJInv == JInv /\ [Next]_vars => JInv'
<1> SUFFICES ASSUME JInv, [Next]_vars PROVE JInv'
  OBVIOUS
<1>1. IInv'
  BY NextIInv DEF JInv
<1>2. CASE Visit
  BY <1>1, <1>2, VisitJInv DEF JInv
<1>3. CASE Finish
  BY <1>1, <1>3, FinishJInv DEF JInv
<1>4. CASE RejectInput
  BY <1>1, <1>4 DEF RejectInput, Close, history, JInv, JumpsStay, WaivedAhead, WaivedStaysUnrun,
                    RoomToRewind
<1>5. CASE Begin \/ RequestCancel \/ UNCHANGED vars
  <2>1. /\ UNCHANGED <<plan, limit, pos, next, canFrom, started, waived>>
        /\ pc' = "closed" <=> pc = "closed"
        /\ Executing' <=> Executing
    BY <1>5 DEF Begin, RequestCancel, vars, history, Executing
  <2>2. Front' = Front /\ (Ahead' <=> Ahead)
    BY <2>1 DEF Front, Ahead
  <2> QED
    BY <1>1, <2>1, <2>2 DEF JInv, JumpsStay, WaivedAhead, WaivedStaysUnrun, RoomToRewind
<1> QED
  BY <1>2, <1>3, <1>4, <1>5 DEF Next, Execute, Terminated

LEMMA InvariantJInv == ASSUME Straight PROVE Spec => []JInv
  BY InitJInv, NextJInv, PTL DEF Spec

\* What a jump, an `exit` or an `end` leaves out is not run later, if the runs have room
\* to rewind, and if no list that may continue as new jumps, listens or has an inline do.
THEOREM WaivesForGood == ASSUME Straight PROVE Spec => []WaivedStaysUnrun
<1>1. JInv => WaivedStaysUnrun
  BY DEF JInv
<1> QED
  BY <1>1, InvariantJInv, PTL

\* Where the program is in a state of the executor, between tasks and in one.
LEMMA ProgramAt ==
  ASSUME IInv
  PROVE  /\ Executing => canFrom = 0 /\ next = 0 /\ pos \in Pos
         /\ canFrom # 0 => pc = "iterate" /\ next = 0 /\ (RoomToRewind => ~ShouldContinueAsNew)
         /\ \A i \in Pos : i \in 1 .. N /\ i # 0
         /\ Pos = 1 .. N
         /\ plan \in [Pos -> Task]
  BY TaskListAssumption DEF IInv, ControlOK, Executing, TypeOK, Pos

\* The visits of the loop that the program does not see, and those that it does.
LEMMA VisitImplements ==
  ASSUME JInv, RoomToRewind, Visit
  PROVE  [Program!Next]_(Program!vars)
<1>0. /\ pc = "iterate" /\ plan' = plan /\ IInv
  BY DEF JInv, Visit, ContinueAsNew, SkipDone, PassOver, SkipIf, RejectTask, StartTask,
     EndOfList, Selected, Reached, AtTask
<1>1. CASE ContinueAsNew
  <2>1. /\ pos \in Pos /\ ShouldContinueAsNew /\ pc' = pc /\ pos' = 1 /\ next' = 0
        /\ canFrom' = pos /\ UNCHANGED <<plan, started, output, context, result>>
    BY <1>1 DEF ContinueAsNew, NewRun, AtTask, history, data
  <2>2. limit # 0
    BY <2>1 DEF ShouldContinueAsNew
  <2>3. next = 0 /\ canFrom = 0 /\ pos # 0
    BY <1>0, <2>1, <2>2, ProgramAt DEF JInv, JumpsStay
  <2> QED
    BY <1>0, <2>1, <2>3 DEF Program!vars
<1>2. CASE SkipDone
  BY <1>0, <1>2 DEF SkipDone, AtTask, ShouldSkip, history, data, Program!vars
<1>3. CASE PassOver
  <2>1. canFrom = 0 /\ canFrom' = 0
    BY <1>0, <1>3, ProgramAt, ReachedFront DEF PassOver
  <2> QED
    BY <1>0, <1>3, <2>1 DEF PassOver, Reached, AtTask, history, data, Program!vars
<1>4. CASE Selected /\ (SkipIf \/ RejectTask \/ StartTask)
  <2>1. /\ canFrom \in {0, pos} /\ canFrom' = 0 /\ next' = 0 /\ next \in {0, pos}
        /\ pos \in 1 .. N
    BY <1>0, <1>4, ReachedFront, ProgramAt DEF Selected
  <2>2. CASE SkipIf
    <3>1. /\ plan[pos].hasIf /\ pos' = pos + 1 /\ pc' = "iterate"
          /\ UNCHANGED <<plan, output, context, result, started>>
      BY <1>0, <2>2 DEF SkipIf, data
    <3>2. Program!Waive
      BY <1>0, <2>1, <3>1 DEF Program!Waive, Program!Ready
    <3> QED
      BY <3>2 DEF Program!Next
  <2>3. CASE RejectTask
    <3>1. /\ pc' = "closed" /\ result' = "failed"
          /\ UNCHANGED <<plan, pos, output, context, started>>
      BY <2>3 DEF RejectTask, Close, history, data
    <3>2. Program!Abort
      BY <1>0, <2>1, <3>1 DEF Program!Abort, Program!Close
    <3> QED
      BY <3>2 DEF Program!Next
  <2>4. CASE StartTask
    <3>1. /\ pc' = "running"
          /\ started' = [started EXCEPT ![pos] = IF @ < Often THEN @ + 1 ELSE @]
          /\ UNCHANGED <<plan, pos, output, context, result>>
      BY <2>4 DEF StartTask, data
    <3>2. started[pos] = 0
      BY <1>0, <1>4, <2>1, ProgramAt, ReachedFront DEF Selected, IInv, StartedBeforeFront, TypeOK,
         Often
    <3>3. started' = [started EXCEPT ![pos] = @ + 1]
      BY <3>1, <3>2 DEF Often
    <3>4. Program!Start
      BY <1>0, <2>1, <3>1, <3>3 DEF Program!Start, Program!Ready
    <3> QED
      BY <3>4 DEF Program!Next
  <2> QED
    BY <1>4, <2>2, <2>3, <2>4
<1>5. CASE EndOfList
  <2>1. /\ pos = N + 1 /\ pc' = "closed"
        /\ result' = IF next = 0 THEN "completed" ELSE "failed"
        /\ UNCHANGED <<plan, pos, next, canFrom, output, context, started>>
    BY <1>5 DEF EndOfList, Close, history, data
  <2>2. canFrom = 0
    BY <1>0, <2>1, TaskListAssumption DEF IInv, ControlOK, TypeOK, Pos
  <2>3. CASE next = 0
    <3>1. Program!Complete
      BY <1>0, <2>1, <2>2, <2>3 DEF Program!Complete, Program!Close
    <3> QED
      BY <3>1 DEF Program!Next
  <2>4. CASE next # 0
    <3>1. Program!Abort
      BY <1>0, <2>1, <2>2, <2>4 DEF Program!Abort, Program!Close
    <3> QED
      BY <3>1 DEF Program!Next
  <2> QED
    BY <2>3, <2>4
<1> QED
  BY <1>1, <1>2, <1>3, <1>4, <1>5 DEF Visit, SkipIf, RejectTask, StartTask

\* A task has returned with directive e, its own or that of its `then`.
LEMMA DispatchImplements ==
  ASSUME JInv, Executing, UNCHANGED <<plan, canFrom, started>>,
         NEW e, Dispatch(e), Program!Record,
         e \in {"exit", "end"} => \/ plan[pos].kind \in {"route", "block", "child"}
                                  \/ plan[pos].then \in {"exit", "end"},
         e \in {"none", "continue"} => \/ plan[pos].kind = "route"
                                       \/ plan[pos].then \in {"none", "continue"},
         e = "goto" => plan[pos].then = "goto"
  PROVE  Program!Next
<1>1. /\ canFrom = 0 /\ next = 0 /\ pos \in 1 .. N /\ pc \in {"running", "redirect"}
      /\ plan[pos] \in Task
  BY ProgramAt DEF JInv, Executing
<1>2. CASE e \in {"exit", "end"}
  <2>1. /\ pc' = "closed" /\ result' = (IF e = "end" THEN EndResult ELSE "completed")
        /\ UNCHANGED <<pos, next>>
    BY <1>2 DEF Dispatch, Closes, Close
  <2>2. result' = "completed" \/ (~IsRoot /\ result' = "endSignalled")
    BY <2>1 DEF EndResult
  <2>3. Program!Stop
    BY <1>1, <1>2, <2>1, <2>2 DEF Program!Stop, Program!Busy, Program!Close
  <2> QED
    BY <2>3 DEF Program!Next
<1>3. CASE e \in {"none", "continue", "goto"}
  <2>1. /\ pc' = "iterate" /\ pos' = pos + 1 /\ result' = result
        /\ next' = IF e = "goto" THEN plan[pos].target ELSE 0
    BY <1>1, <1>3 DEF Dispatch
  <2>2. plan[pos].target # 0 /\ plan[pos].then \in Flow
    BY <1>1, ProgramAt, TaskListAssumption DEF JInv, Task, Missing
  <2>3. (IF next' # 0 THEN next' ELSE pos') = IF e = "goto" THEN plan[pos].target ELSE pos + 1
    BY <2>1, <2>2
  <2>4. (IF e = "goto" THEN plan[pos].target ELSE pos + 1)
          \in CASE plan[pos].then \in {"none", "continue"} -> {pos + 1}
                [] plan[pos].then = "goto" /\ plan[pos].kind # "route" -> {plan[pos].target}
                [] plan[pos].then = "goto" /\ plan[pos].kind = "route" ->
                     {pos + 1, plan[pos].target}
                [] plan[pos].then \in {"exit", "end"} /\ plan[pos].kind # "route" -> {}
                [] plan[pos].then \in {"exit", "end"} /\ plan[pos].kind = "route" -> {pos + 1}
    BY <1>3, <2>2 DEF Flow
  <2>5. Program!Continue
    BY <1>1, <2>1, <2>3, <2>4 DEF Program!Continue, Program!Busy, Program!Successors
  <2> QED
    BY <2>5 DEF Program!Next
<1> QED
  BY <1>2, <1>3 DEF Dispatch

LEMMA FinishImplements ==
  ASSUME JInv, Shaped, Routing, Finish
  PROVE  [Program!Next]_(Program!vars)
<1>1. /\ Executing /\ canFrom = 0 /\ next = 0 /\ pos \in 1 .. N
      /\ pc \in {"running", "redirect"} /\ plan[pos] \in Task /\ pos # 0 /\ plan' = plan
  BY ProgramAt DEF JInv, Executing, Finish, TaskReturns, TaskFaults, TaskCancelled,
     OutputInError, StartRedirect, RedirectReturns, RedirectFails, IInv, TypeOK
<1>2. ASSUME NEW d \in Flow, TaskReturns(d) PROVE Program!Next
  <2>1. Program!Record
    <3>1. plan[pos].kind \in Kind
      BY <1>1 DEF Task
    <3>2. d # "none" /\ ~WritesOutputItself(plan[pos]) /\ ~plan[pos].shapes
            => plan[pos].kind = "route"
      BY <1>1, <1>2, <3>1 DEF TaskReturns, Emits, HandsOnEnd, WritesOutputItself, Shaped, Kind, Pos
    <3> QED
      BY <1>1, <1>2, <3>2 DEF TaskReturns, Record, ContextAfter, Program!Record
  <2>2. d \in {"none", "continue", "exit", "end"}
    BY <1>2 DEF TaskReturns, Emits, HandsOnEnd
  <2>3. /\ d \in {"exit", "end", "continue"} => plan[pos].kind \in {"route", "block", "child"}
        /\ d = "continue" => plan[pos].kind = "route"
    BY <1>1, <1>2 DEF TaskReturns, Emits, HandsOnEnd, Task, Kind
  <2> QED
    BY <1>1, <1>2, <2>1, <2>2, <2>3, DispatchImplements DEF TaskReturns, EffectiveDirective
<1>3. ASSUME NEW ended \in BOOLEAN, RedirectReturns(ended) PROVE Program!Next
  <2>1. plan[pos].kind = "route"
    BY <1>3 DEF RedirectReturns, Routing
  <2> QED
    BY <1>1, <1>3, <2>1, DispatchImplements DEF RedirectReturns, Record, ContextAfter,
       Program!Record
<1>4. CASE TaskFaults
  <2>1. /\ pc' = "closed" /\ UNCHANGED <<plan, pos, next, canFrom, started>>
        /\ result' \in Faults(plan[pos])
        /\ output' \in (IF plan[pos].kind = "do" THEN {output, pos} ELSE {output})
        /\ context' \in (IF plan[pos].kind = "do" THEN {context, pos} ELSE {context})
    BY <1>1, <1>4 DEF TaskFaults, Closes, Close, history
  <2>2. result' = "failed" \/ (result' = "endSignalled" /\ plan[pos].kind = "do" /\ ~IsRoot)
    BY <1>1, <2>1 DEF Faults, JInv, IInv, Skippable, NeverSkipCAN, Pos
  <2>3. CASE result' = "failed"
    <3>1. Program!Abort
      BY <1>1, <2>1, <2>3 DEF Program!Abort, Program!Busy, Program!Close
    <3> QED
      BY <3>1 DEF Program!Next
  <2>4. CASE result' = "endSignalled" /\ plan[pos].kind = "do" /\ ~IsRoot
    <3>1. Program!StopInside
      BY <1>1, <2>1, <2>4 DEF Program!StopInside, Program!Busy, Program!Close
    <3> QED
      BY <3>1 DEF Program!Next
  <2> QED
    BY <2>2, <2>3, <2>4
<1>6. CASE TaskCancelled \/ OutputInError \/ \E r \in {"failed", "canceled"} : RedirectFails(r)
  <2>1. /\ pc' = "closed" /\ result' \in {"failed", "canceled"} /\ output' \in {output, pos}
        /\ UNCHANGED <<plan, pos, next, canFrom, context, started>>
    BY <1>6 DEF TaskCancelled, OutputInError, RedirectFails, Closes, Close, history, data
  <2>2. Program!Abort
    BY <1>1, <2>1 DEF Program!Abort, Program!Busy, Program!Close
  <2> QED
    BY <2>2 DEF Program!Next
<1>5. CASE StartRedirect
  BY <1>1, <1>5 DEF StartRedirect, history, data, Program!vars
<1> QED
  BY <1>2, <1>3, <1>4, <1>5, <1>6 DEF Finish

LEMMA NextImplements ==
  ASSUME JInv, RoomToRewind, Shaped, Routing, [Next]_vars
  PROVE  [Program!Next]_(Program!vars)
<1>1. CASE Visit
  BY <1>1, VisitImplements
<1>2. CASE Finish
  BY <1>2, FinishImplements
<1>3. CASE RejectInput
  <2>1. /\ pc = "begin" /\ pc' = "closed" /\ result' = "failed"
        /\ UNCHANGED <<plan, pos, next, canFrom, output, context, started>>
    BY <1>3 DEF RejectInput, Close, history, data
  <2>2. Program!Abort
    BY <2>1 DEF Program!Abort, Program!Close
  <2> QED
    BY <2>2 DEF Program!Next
<1>4. CASE Begin \/ RequestCancel \/ UNCHANGED vars
  BY <1>4 DEF Begin, RequestCancel, vars, history, data, Program!vars
<1> QED
  BY <1>1, <1>2, <1>3, <1>4 DEF Next, Execute, Terminated

LEMMA InitImplements == Init => Program!Init
<1> SUFFICES ASSUME Init PROVE Program!Init
  OBVIOUS
<1>1. plan \in {list.tasks : list \in Lists}
  BY DEF Init
<1> QED
  BY <1>1, TaskListAssumption DEF Init, Program!Init, Pos

LEMMA InitPlan == ASSUME Shaping PROVE Init => Shaped /\ Routing
  BY DEF Init, Shaping, Shaped, Routing

LEMMA NextPlan == Shaped /\ Routing /\ [Next]_vars => Shaped' /\ Routing'
<1> SUFFICES ASSUME Shaped, Routing, [Next]_vars PROVE Shaped' /\ Routing'
  OBVIOUS
<1>1. plan' = plan
  BY PlanStays
<1>2. Shaped'
  BY <1>1 DEF Shaped
<1>3. Routing'
  <2>1. pc' = "redirect" => \/ pc = "redirect" /\ pos' = pos
                            \/ StartRedirect
    BY DEF Next, Execute, Begin, RejectInput, Visit, ContinueAsNew, SkipDone, PassOver, SkipIf,
       RejectTask, StartTask, EndOfList, Finish, TaskReturns, TaskFaults, TaskCancelled,
       OutputInError, StartRedirect, RedirectReturns, RedirectFails, RequestCancel, Terminated,
       vars, Close, Closes, Dispatch, Selected, Reached, AtTask
  <2> QED
    BY <1>1, <2>1 DEF Routing, StartRedirect
<1> QED
  BY <1>2, <1>3

LEMMA InvariantPlan == ASSUME Shaping PROVE Spec => [](Shaped /\ Routing)
  BY InitPlan, NextPlan, PTL DEF Spec

\* Whatever Continue-As-New does, a list is executed as TaskProgram says if its runs have
\* room to rewind, provided that its child workflows have an `output`, and that no list
\* that may continue as new jumps, listens or has an inline do.
THEOREM ImplementsTaskProgram ==
  ASSUME Straight, Shaping PROVE Spec => ImplementsProgram
<1>1. Init => Program!Init
  BY InitImplements
<1>2. JInv /\ Shaped /\ Routing /\ [Next]_vars => [RoomToRewind => Program!Next]_(Program!vars)
  BY NextImplements
<1> QED
  BY <1>1, <1>2, InvariantJInv, InvariantPlan, PTL DEF Spec, ImplementsProgram
=============================================================================
