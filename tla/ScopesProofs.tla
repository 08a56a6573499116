---------------------------- MODULE ScopesProofs ----------------------------
(***************************************************************************)
(* Proofs about Scopes, for every set of programs: its types, and that a   *)
(* cancellation gets out of every list, however deep, without another task *)
(* being started on the way. The second half needs to know where in the    *)
(* tree a list is: what it leaves alone, which try catches its failures,   *)
(* and what becomes of the output that it ends the workflow with.          *)
(***************************************************************************)
EXTENDS Scopes, TLAPS, WellFoundedInduction, FiniteSetTheorems

\* What is known of the program that is running.
WellBuilt ==
  /\ isRoot \in BOOLEAN
  /\ prog \in Programs[isRoot]

BaseInv == TypeOK /\ WellBuilt

\* Only a list that is not nested returns what its parent takes for an `end`.
EndSignalledAtRoot ==
  pc \in {"return", "closed"} /\ ret.outcome = "endSignalled" =>
    ~Nested(ret.list)

\* While a cancellation is on its way, so does each list.
CancellationOnItsWay ==
  aborted =>
    /\ cancelReq
    /\ pc \in {"return", "closed"}
    /\ ret.outcome = "canceled"

\* The part of TypeOK about control.
ControlOK ==
  /\ pc \in {"visit", "leaf", "iterate", "return", "closed"}
  /\ at \in 0 .. N
  /\ ret \in [list : Lists, outcome : Outcome, output : 0 .. N]
  /\ pc \in {"visit", "leaf", "iterate"} => at \in Task
  /\ pc = "leaf" => prog[at].kind \in {"leaf", "route"}
  /\ pc = "iterate" => prog[at].kind = "for"
  /\ pc \in {"return", "closed"} => at = ret.list[1]

-----------------------------------------------------------------------------
(* Lemmas about the tree *)

\* A set of tasks that is not empty has a least one: of the sets of smaller
\* ones, one has no strict subset among them.
LEMMA MinIsMember ==
  ASSUME ScopesAssumption, NEW S \in SUBSET Task, S # {}
  PROVE  Min(S) \in S /\ \A x \in S : Min(S) =< x
<1> DEFINE Below(x) == {y \in S : y < x}
           T == {Below(x) : x \in S}
<1>1. IsFiniteSet(Task)
  BY FS_Interval DEF ScopesAssumption, Task
<1>2. IsWellFoundedOn(StrictSubsetOrdering(Task), SUBSET Task)
  <2>1. FiniteSubsetsOf(Task) = SUBSET Task
    BY <1>1, FS_FiniteSubsetsOfFinite
  <2>2. IsWellFoundedOn(StrictSubsetOrdering(Task), FiniteSubsetsOf(Task))
    BY FS_StrictSubsetOrderingWellFounded
  <2> QED BY <2>1, <2>2
<1>a. \A x \in S : Below(x) \in SUBSET Task
  OBVIOUS
<1>b. \A x, y : y \in Below(x) <=> y \in S /\ y < x
  OBVIOUS
<1>3. T \subseteq SUBSET Task /\ T # {}
  <2> HIDE DEF Below
  <2> QED BY <1>a
<1>4. PICK B \in T : \A C \in T : ~ (<<C, B>> \in StrictSubsetOrdering(Task))
  <2> HIDE DEF T
  <2> QED BY <1>2, <1>3, WFMin
<1>5. PICK x \in S : B = Below(x)
  BY <1>4
<1>6. S \subseteq Int
  BY DEF ScopesAssumption, Task
<1>7. \A y \in S : x =< y
  <2> SUFFICES ASSUME NEW y \in S, y < x
               PROVE  FALSE
    BY <1>6
  <2>1. Below(y) \subseteq Below(x) /\ y \in Below(x) /\ y \notin Below(y)
    <3>1. \A z \in S : z < y => z < x
      BY <1>6
    <3>2. ~ (y < y)
      BY <1>6
    <3> HIDE DEF Below
    <3> QED BY <3>1, <3>2, <1>b
  <2>2. Below(y) \in T /\ Below(y) \in SUBSET Task /\ Below(x) \in SUBSET Task
    <3> HIDE DEF Below
    <3> QED BY <1>a
  <2>3. <<Below(y), Below(x)>> \in StrictSubsetOrdering(Task)
    <3> HIDE DEF Below
    <3> QED BY <2>1, <2>2 DEF StrictSubsetOrdering
  <2> QED BY <2>2, <2>3, <1>4, <1>5
<1> QED
  BY <1>7 DEF Min

LEMMA ListsOK ==
  ASSUME NEW t \in Task
  PROVE  Body(t) \in Lists /\ Catch(t) \in Lists /\ Body(t)[1] = t
         /\ Catch(t)[1] = t /\ Body(t) # Root /\ Catch(t) # Root
         /\ Body(t) # Catch(t) /\ Working(t) \in Cells /\ Root \in Lists
BY DEF Task, Lists, Body, Catch, Root, Working, Cells

LEMMA OwnerOK ==
  ASSUME ScopesAssumption, NEW l \in Lists
  PROVE  l[1] \in 0 .. N
BY DEF ScopesAssumption, Lists, Task

LEMMA ProgramOK ==
  ASSUME ScopesAssumption, WellBuilt
  PROVE  Built(prog) /\ prog \in [Task -> Definition]
BY DEF ScopesAssumption, WellBuilt

LEMMA DefinitionOK ==
  ASSUME ScopesAssumption, WellBuilt, NEW t \in Task
  PROVE  /\ prog[t].kind \in Kind
         /\ ListOf(t) \in Lists
         /\ prog[t].then \in {"none", "exit", "end"}
         /\ prog[t].nested \in BOOLEAN
BY ProgramOK DEF Definition, ListOf

\* Every list that a task owns has a first task.
LEMMA FirstOK ==
  ASSUME ScopesAssumption, WellBuilt
  PROVE  /\ First(Root) \in Task
         /\ \A t \in Task :
              /\ prog[t].kind \in {"do", "for", "try"} => First(Body(t)) \in Task
              /\ prog[t].kind = "try" => First(Catch(t)) \in Task
<1>1. ASSUME NEW l, TasksOf(prog, l) # {}
      PROVE  First(l) \in Task
  <2>1. TasksOf(prog, l) \in SUBSET Task
    BY DEF TasksOf
  <2> QED BY <1>1, <2>1, MinIsMember DEF First
<1> QED
  BY <1>1, ProgramOK DEF Built

LEMMA LaterOK ==
  ASSUME ScopesAssumption, NEW t \in Task, Later(t) # {}
  PROVE  Min(Later(t)) \in Task
<1>1. Later(t) \in SUBSET Task
  BY DEF Later, TasksOf
<1> QED
  BY <1>1, MinIsMember

\* A do task is nested as its list is, and a for or try task always.
LEMMA NestedOK ==
  ASSUME ScopesAssumption, WellBuilt, NEW t \in Task
  PROVE  /\ Nested(Body(t)) <=> prog[t].nested
         /\ Nested(Catch(t)) <=> prog[t].nested
         /\ prog[t].kind = "do" => (prog[t].nested <=> Nested(ListOf(t)))
         /\ prog[t].kind \in {"for", "try"} => prog[t].nested
<1>1. Built(prog)
  BY ProgramOK
<1>2. prog[t].kind = "do" => prog[t].nested = NestedIn(prog, prog[t].list)
  BY <1>1 DEF Built
<1>3. prog[t].kind \in {"for", "try"} => prog[t].nested
  BY <1>1 DEF Built
<1> QED
  BY <1>2, <1>3, ListsOK DEF Nested, NestedIn, ListOf

-----------------------------------------------------------------------------
(* Lemmas about the helpers *)

LEMMA ReturnOK ==
  ASSUME ScopesAssumption, BaseInv,
         NEW l \in Lists, NEW how \in Outcome, NEW output \in 0 .. N,
         Return(l, how, output)
  PROVE  ControlOK' /\ pc' = "return" /\ ret'.list = l
         /\ ret'.outcome = Executed(l, how)
<1>1. Executed(l, how) \in Outcome
  BY DEF Executed, Outcome
<1> QED
  BY <1>1, OwnerOK DEF Return, ControlOK

LEMMA EnterOK ==
  ASSUME ScopesAssumption, BaseInv, NEW l, First(l) \in Task, Enter(l)
  PROVE  ControlOK' /\ pc' = "visit"
BY DEF Enter, ControlOK, BaseInv, TypeOK, Task

LEMMA FailOK ==
  ASSUME ScopesAssumption, BaseInv, NEW t \in Task, NEW how \in {"failed", "canceled"},
         Fail(t, how)
  PROVE  /\ ControlOK' /\ pc' = "return" /\ ret'.outcome = how
         /\ raised' = NotRaised
         /\ raised' \in [task : 0 .. N, output : 0 .. N]
         /\ fault' \in 0 .. N
<1>1. 0 \in 0 .. N /\ t \in 0 .. N /\ how \in Outcome
  BY DEF ScopesAssumption, Outcome, Task
<1>2. ListOf(t) \in Lists
  BY DefinitionOK DEF BaseInv
<1>3. Return(ListOf(t), how, 0)
  BY DEF Fail
<1>4. ControlOK' /\ pc' = "return" /\ ret'.outcome = Executed(ListOf(t), how)
  BY <1>1, <1>2, <1>3, ReturnOK
<1>5. Executed(ListOf(t), how) = how
  BY DEF Executed
<1> QED
  BY <1>1, <1>4, <1>5 DEF Fail, NotRaised

LEMMA DispatchOK ==
  ASSUME ScopesAssumption, BaseInv, NEW t \in Task,
         NEW d \in {"none", "exit", "end"}, NEW v \in 0 .. N, Dispatch(t, d, v)
  PROVE  /\ ControlOK' /\ pc' \in {"visit", "return"}
         /\ d = "end" => /\ pc' = "return" /\ ret'.list = ListOf(t)
                         /\ ret'.outcome = Executed(ListOf(t), "end")
         /\ pc' = "return" /\ d # "end" => ret'.outcome = "ok"
<1>1. ListOf(t) \in Lists
  BY DefinitionOK DEF BaseInv
<1>2. CASE d = "end"
  <2>1. Return(ListOf(t), "end", v)
    BY <1>2 DEF Dispatch
  <2> QED BY <1>1, <1>2, <2>1, ReturnOK DEF Outcome
<1>3. CASE d # "end" /\ (d = "exit" \/ Later(t) = {})
  <2>1. Return(ListOf(t), "ok", v)
    BY <1>3 DEF Dispatch
  <2>2. Executed(ListOf(t), "ok") = "ok"
    BY DEF Executed
  <2> QED BY <1>1, <1>3, <2>1, <2>2, ReturnOK DEF Outcome
<1>4. CASE d = "none" /\ Later(t) # {}
  <2>1. pc' = "visit" /\ at' = Min(Later(t)) /\ UNCHANGED ret
    BY <1>4 DEF Dispatch
  <2>2. at' \in Task
    BY <1>4, <2>1, LaterOK
  <2> QED BY <1>4, <2>1, <2>2 DEF ControlOK, BaseInv, TypeOK, Task
<1> QED
  BY <1>2, <1>3, <1>4

LEMMA StateOK ==
  ASSUME ScopesAssumption, BaseInv, NEW t \in Task
  PROVE  Here(t) \in State /\ ptr[ListOf(t)] \in Cells
BY DefinitionOK DEF BaseInv, TypeOK, Here

LEMMA RecordedOK ==
  ASSUME ScopesAssumption, NEW t \in Task, NEW output \in 0 .. N,
         NEW s \in State, NEW controlOnly \in BOOLEAN
  PROVE  Recorded(s, t, output, controlOnly) \in State
<1>1. t \in 0 .. N
  BY DEF ScopesAssumption, Task
<1> QED
  BY <1>1 DEF Recorded, State

\* How a task that returned d can go on: its expressions fail, it ends its
\* list, or neither.
LEMMA FinishOK ==
  ASSUME ScopesAssumption, BaseInv, NEW t \in Task, NEW output \in 0 .. N,
         NEW d \in {"none", "exit", "end"}, NEW s \in State,
         Finish(t, output, d, s)
  PROVE  /\ ControlOK'
         /\ heap' \in [Cells -> State]
         /\ raised' \in [task : 0 .. N, output : 0 .. N]
         /\ fault' \in 0 .. N
         /\ \/ raised' = NotRaised /\ pc' = "return" /\ ret'.outcome = "failed"
            \/ /\ pc' = "return" /\ ret'.list = ListOf(t)
               /\ ret'.outcome = Executed(ListOf(t), "end")
            \/ /\ d # "end" /\ raised' = raised
               /\ pc' = "visit" \/ (pc' = "return" /\ ret'.outcome = "ok")
<1> DEFINE after == Recorded(s, t, output, d # "none")
           directive == IF d # "none" THEN d ELSE prog[t].then
<1>1. after \in State /\ directive \in {"none", "exit", "end"}
  BY RecordedOK, DefinitionOK DEF BaseInv
<1>2. after.output \in 0 .. N /\ t \in 0 .. N
  BY <1>1 DEF State, ScopesAssumption, Task
<1>3. heap \in [Cells -> State] /\ ptr[ListOf(t)] \in Cells
  BY StateOK DEF BaseInv, TypeOK
<1>4. raised \in [task : 0 .. N, output : 0 .. N] /\ fault \in 0 .. N
  BY DEF BaseInv, TypeOK
<1>5. CASE /\ heap' = [heap EXCEPT ![ptr[ListOf(t)]] = after]
           /\ Dispatch(t, directive, after.output)
           /\ raised' = IF directive = "end" /\ raised = NotRaised
                        THEN [task |-> t, output |-> after.output]
                        ELSE raised
           /\ UNCHANGED fault
  <2> HIDE DEF after, directive
  <2>1. heap' \in [Cells -> State]
    BY <1>1, <1>3, <1>5
  <2>2. raised' \in [task : 0 .. N, output : 0 .. N] /\ fault' \in 0 .. N
    BY <1>2, <1>4, <1>5
  <2>3. /\ ControlOK' /\ pc' \in {"visit", "return"}
        /\ directive = "end" => /\ pc' = "return" /\ ret'.list = ListOf(t)
                                /\ ret'.outcome = Executed(ListOf(t), "end")
        /\ pc' = "return" /\ directive # "end" => ret'.outcome = "ok"
    BY <1>1, <1>2, <1>5, DispatchOK
  <2>4. d = "end" => directive = "end"
    BY DEF directive
  <2> QED BY <1>5, <2>1, <2>2, <2>3, <2>4
<1>6. CASE /\ heap' = [heap EXCEPT ![ptr[ListOf(t)]] =
                          [s EXCEPT !.output = after.output]]
           /\ Fail(t, "failed")
  <2> HIDE DEF after, directive
  <2>1. [s EXCEPT !.output = after.output] \in State
    BY <1>2 DEF State
  <2>2. heap' \in [Cells -> State]
    BY <1>3, <1>6, <2>1
  <2> QED BY <1>6, <2>2, FailOK
<1> QED
  BY <1>5, <1>6 DEF Finish

-----------------------------------------------------------------------------
(* Type correctness *)

\* The part of TypeOK about data.
DataOK ==
  /\ ptr \in [Lists -> Cells]
  /\ heap \in [Cells -> State]
  /\ iteration \in [Task -> Nat]
  /\ cancelReq \in BOOLEAN
  /\ raised \in [task : 0 .. N, output : 0 .. N]
  /\ fault \in 0 .. N
  /\ aborted \in BOOLEAN
  /\ entry \in [Task -> State]

LEMMA Parts ==
  ASSUME BaseInv
  PROVE  ControlOK /\ DataOK
BY DEF BaseInv, TypeOK, ControlOK, DataOK

LEMMA PartsSuffice ==
  ASSUME BaseInv, UNCHANGED program, ControlOK', DataOK'
  PROVE  BaseInv'
BY DEF BaseInv, WellBuilt, program, TypeOK, ControlOK, DataOK

\* What StateOK says of the clones that a body starts on.
LEMMA CloneOK ==
  ASSUME NEW s \in State, NEW f \in SUBSET Facts
  PROVE  [s EXCEPT !.data = @ \cup f] \in State
BY DEF State

LEMMA FactsOK ==
  ASSUME NEW t \in Task
  PROVE  {<<"result", t>>} \in SUBSET Facts /\ {<<"item", t>>} \in SUBSET Facts
         /\ {<<"error", t>>} \in SUBSET Facts
BY DEF Facts

LEMMA CellsOK ==
  ASSUME NEW t \in Task
  PROVE  Body(t) \in Cells /\ Catch(t) \in Cells /\ Working(t) \in Cells
BY ListsOK DEF Cells

LEMMA InitBase ==
  ASSUME ScopesAssumption, Init
  PROVE  BaseInv
<1>1. WellBuilt
  BY DEF Init, WellBuilt
<1>2. prog \in [Task -> Definition]
  BY <1>1, ProgramOK
<1>3. 0 \in 0 .. N /\ 0 \in Nat
  BY DEF ScopesAssumption
<1>4. NoState \in State
  BY <1>3 DEF NoState, State
<1>5. at \in Task /\ Task \subseteq 0 .. N
  BY <1>1, FirstOK DEF Init, Task
<1>6. ControlOK
  BY <1>3, <1>5, ListsOK DEF Init, ControlOK, Outcome, Lists, Root
<1>7. DataOK
  BY <1>3, <1>4 DEF Init, DataOK, Cells, NotRaised
<1> QED
  BY <1>1, <1>2, <1>6, <1>7 DEF BaseInv, TypeOK, ControlOK, DataOK, WellBuilt

LEMMA StartBase ==
  ASSUME ScopesAssumption, BaseInv, Start
  PROVE  BaseInv'
<1>1. WellBuilt /\ ControlOK /\ DataOK
  BY Parts DEF BaseInv
<1>2. UNCHANGED program /\ prog' = prog
  BY DEF Start, VisitLeaf, RejectTask, VisitDo, VisitTry, VisitFor, program
<1>3. CASE VisitLeaf
  <2>1. ControlOK'
    BY <1>1, <1>3 DEF VisitLeaf, Visit, ControlOK, program
  <2>2. DataOK'
    BY <1>1, <1>3 DEF VisitLeaf, DataOK, history
  <2> QED BY <1>2, <2>1, <2>2, PartsSuffice
<1>4. CASE RejectTask
  <2>1. at \in Task
    BY <1>1, <1>4 DEF RejectTask, ControlOK
  <2>2. ControlOK' /\ raised' \in [task : 0 .. N, output : 0 .. N] /\ fault' \in 0 .. N
    BY <1>4, <2>1, FailOK DEF RejectTask
  <2>3. DataOK'
    BY <1>1, <1>4, <2>2 DEF RejectTask, DataOK
  <2> QED BY <1>2, <2>2, <2>3, PartsSuffice
<1>5. ASSUME Visit("do") \/ Visit("try") \/ Visit("for"), Remember
      PROVE  at \in Task /\ Here(at) \in State /\ ptr[ListOf(at)] \in Cells
             /\ entry' \in [Task -> State]
  <2>1. at \in Task
    BY <1>1, <1>5 DEF Visit, ControlOK
  <2> QED BY <1>1, <1>5, <2>1, StateOK DEF Remember, DataOK
<1>6. CASE VisitDo
  <2>1. Visit("do") /\ Remember /\ Enter(Body(at))
    BY <1>6 DEF VisitDo
  <2>2. ControlOK'
    BY <1>1, <1>5, <2>1, FirstOK, EnterOK DEF Visit
  <2>3. ptr' \in [Lists -> Cells]
    BY <1>1, <1>5, <1>6, <2>1 DEF VisitDo, DataOK
  <2>4. DataOK'
    BY <1>1, <1>5, <1>6, <2>1, <2>3 DEF VisitDo, DataOK
  <2> QED BY <1>2, <2>2, <2>4, PartsSuffice
<1>7. CASE VisitTry
  <2>1. Visit("try") /\ Remember /\ Enter(Body(at))
    BY <1>7 DEF VisitTry
  <2>2. ControlOK'
    BY <1>1, <1>5, <2>1, FirstOK, EnterOK DEF Visit
  <2>3. heap' \in [Cells -> State]
    BY <1>1, <1>5, <1>7, <2>1 DEF VisitTry, DataOK
  <2>4. DataOK'
    BY <1>1, <1>5, <1>7, <2>1, <2>3 DEF VisitTry, DataOK
  <2> QED BY <1>2, <2>2, <2>4, PartsSuffice
<1>8. CASE VisitFor
  <2>1. Visit("for") /\ Remember
    BY <1>8 DEF VisitFor
  <2>2. ControlOK'
    BY <1>1, <1>2, <1>5, <1>8, <2>1 DEF VisitFor, Visit, ControlOK
  <2>3. [Here(at) EXCEPT !.output = 0] \in State
    BY <1>5, <2>1 DEF State, ScopesAssumption
  <2>4. heap' \in [Cells -> State]
    BY <1>1, <1>8, <2>3 DEF VisitFor, DataOK
  <2>5. iteration' \in [Task -> Nat]
    BY <1>1, <1>8 DEF VisitFor, DataOK
  <2>6. DataOK'
    BY <1>1, <1>5, <1>8, <2>1, <2>4, <2>5 DEF VisitFor, DataOK
  <2> QED BY <1>2, <2>2, <2>6, PartsSuffice
<1> QED
  BY <1>3, <1>4, <1>6, <1>7, <1>8 DEF Start

LEMMA LeafBase ==
  ASSUME ScopesAssumption, BaseInv, Leaf
  PROVE  BaseInv'
<1>1. ControlOK /\ DataOK /\ at \in Task
  BY Parts DEF Leaf, LeafReturns, LeafFails, LeafCancelled, ControlOK
<1>2. UNCHANGED program
  BY DEF Leaf, LeafReturns, LeafFails, LeafCancelled
<1>3. Here(at) \in State /\ at \in 0 .. N
  BY <1>1, StateOK DEF Task, ScopesAssumption
<1>4. CASE LeafReturns
  <2>1. [Here(at) EXCEPT !.data = @ \cup {<<"result", at>>}] \in State
    BY <1>1, <1>3, CloneOK, FactsOK
  <2>2. /\ ControlOK' /\ heap' \in [Cells -> State]
        /\ raised' \in [task : 0 .. N, output : 0 .. N] /\ fault' \in 0 .. N
    <3>1. CASE Finish(at, at, "none",
                      [Here(at) EXCEPT !.data = @ \cup {<<"result", at>>}])
      BY <1>1, <1>3, <2>1, <3>1, FinishOK
    <3>2. ASSUME NEW d \in {"none", "exit", "end"}, Finish(at, at, d, Here(at))
          PROVE  /\ ControlOK' /\ heap' \in [Cells -> State]
                 /\ raised' \in [task : 0 .. N, output : 0 .. N] /\ fault' \in 0 .. N
      BY <1>1, <1>3, <3>2, FinishOK
    <3> QED BY <1>4, <3>1, <3>2 DEF LeafReturns
  <2>3. DataOK'
    BY <1>1, <1>4, <2>2 DEF LeafReturns, DataOK
  <2> QED BY <1>2, <2>2, <2>3, PartsSuffice
<1>5. CASE LeafFails
  <2>1. /\ ControlOK'
        /\ raised' \in [task : 0 .. N, output : 0 .. N] /\ fault' \in 0 .. N
    BY <1>1, <1>5, FailOK DEF LeafFails
  <2>2. DataOK'
    BY <1>1, <1>5, <2>1 DEF LeafFails, DataOK
  <2> QED BY <1>2, <2>1, <2>2, PartsSuffice
<1>6. CASE LeafCancelled
  <2>1. /\ ControlOK'
        /\ raised' \in [task : 0 .. N, output : 0 .. N] /\ fault' \in 0 .. N
    BY <1>1, <1>6, FailOK DEF LeafCancelled
  <2>2. DataOK'
    BY <1>1, <1>6, <2>1 DEF LeafCancelled, DataOK
  <2> QED BY <1>2, <2>1, <2>2, PartsSuffice
<1> QED
  BY <1>4, <1>5, <1>6 DEF Leaf

LEMMA LoopBase ==
  ASSUME ScopesAssumption, BaseInv, Loop
  PROVE  BaseInv'
<1>1. ControlOK /\ DataOK /\ at \in Task /\ prog[at].kind = "for"
  BY Parts DEF Loop, StartIteration, EndLoop, LoopFails, ControlOK
<1>2. UNCHANGED program
  BY DEF Loop, StartIteration, EndLoop, LoopFails
<1>3. Here(at) \in State /\ at \in 0 .. N /\ 0 \in 0 .. N
  BY <1>1, StateOK DEF Task, ScopesAssumption
<1>4. CASE StartIteration
  <2>1. ControlOK'
    BY <1>1, <1>4, FirstOK, EnterOK DEF StartIteration, BaseInv
  <2>2. heap[Working(at)] \in State /\ {<<"item", at>>} \in SUBSET Facts
    BY <1>1, CellsOK, FactsOK DEF DataOK
  <2>3. [heap[Working(at)] EXCEPT !.output = 0,
                                  !.data = @ \cup {<<"item", at>>}] \in State
    BY <1>3, <2>2 DEF State
  <2>4. heap' \in [Cells -> State]
    BY <1>1, <1>4, <2>3 DEF StartIteration, DataOK
  <2>5. DataOK'
    BY <1>1, <1>4, <2>4 DEF StartIteration, DataOK, history
  <2> QED BY <1>2, <2>1, <2>5, PartsSuffice
<1>5. CASE EndLoop
  <2>1. [Here(at) EXCEPT !.output = at] \in State
    BY <1>3 DEF State
  <2>2. /\ ControlOK' /\ heap' \in [Cells -> State]
        /\ raised' \in [task : 0 .. N, output : 0 .. N] /\ fault' \in 0 .. N
    BY <1>1, <1>3, <1>5, <2>1, FinishOK DEF EndLoop
  <2>3. DataOK'
    BY <1>1, <1>5, <2>2 DEF EndLoop, DataOK
  <2> QED BY <1>2, <2>2, <2>3, PartsSuffice
<1>6. CASE LoopFails
  <2>1. /\ ControlOK'
        /\ raised' \in [task : 0 .. N, output : 0 .. N] /\ fault' \in 0 .. N
    BY <1>1, <1>6, FailOK DEF LoopFails
  <2>2. DataOK'
    BY <1>1, <1>6, <2>1 DEF LoopFails, DataOK
  <2> QED BY <1>2, <2>1, <2>2, PartsSuffice
<1> QED
  BY <1>4, <1>5, <1>6 DEF Loop

\* What an owner finds when one of its lists has returned.
LEMMA OwnerStart ==
  ASSUME ScopesAssumption, BaseInv, at # 0
  PROVE  /\ at \in Task /\ at \in 0 .. N /\ 0 \in 0 .. N
         /\ Here(at) \in State
         /\ ret.output \in 0 .. N
         /\ [Here(at) EXCEPT !.output = ret.output] \in State
<1>1. at \in Task /\ at \in 0 .. N /\ 0 \in 0 .. N /\ ret.output \in 0 .. N
  BY Parts DEF ControlOK, Task, ScopesAssumption
<1>2. Here(at) \in State
  BY <1>1, StateOK
<1> QED
  BY <1>1, <1>2 DEF State

LEMMA PassOnOK ==
  ASSUME ScopesAssumption, BaseInv, at # 0, PassOn
  PROVE  /\ ControlOK'
         /\ pc' = "return" /\ ret'.list = ListOf(at)
         /\ ret'.outcome = ret.outcome
         /\ UNCHANGED <<heap, raised, fault>>
<1>1. ListOf(at) \in Lists /\ ListOf(at)[1] \in 0 .. N
  BY OwnerStart, DefinitionOK, OwnerOK DEF BaseInv
<1> QED
  BY <1>1, Parts DEF PassOn, ControlOK

LEMMA StartCatchOK ==
  ASSUME ScopesAssumption, BaseInv, at # 0, prog[at].kind = "try", StartCatch
  PROVE  /\ ControlOK' /\ pc' = "visit"
         /\ heap' \in [Cells -> State]
         /\ raised' = raised /\ fault' \in 0 .. N
<1>1. [Here(at) EXCEPT !.data = @ \cup {<<"error", at>>}] \in State
  BY OwnerStart, CloneOK, FactsOK
<1>2. heap' \in [Cells -> State]
  BY <1>1, Parts DEF StartCatch, DataOK
<1>3. ControlOK' /\ pc' = "visit"
  BY OwnerStart, FirstOK, EnterOK DEF StartCatch, BaseInv
<1> QED
  BY <1>2, <1>3, OwnerStart DEF StartCatch

LEMMA OwnerBase ==
  ASSUME ScopesAssumption, BaseInv, Owner
  PROVE  BaseInv'
<1>1. ControlOK /\ DataOK
  BY Parts
<1>2. UNCHANGED program
  BY DEF Owner, DoReturns, ForReturns, TryReturns, RootReturns
<1> DEFINE Good == /\ ControlOK' /\ heap' \in [Cells -> State]
                   /\ raised' \in [task : 0 .. N, output : 0 .. N]
                   /\ fault' \in 0 .. N
<1>3. ASSUME at # 0, NEW output \in 0 .. N, NEW d \in {"none", "exit", "end"},
             NEW s \in {Here(at), [Here(at) EXCEPT !.output = ret.output]},
             Finish(at, output, d, s)
      PROVE  Good
  <2>1. at \in Task /\ s \in State
    BY <1>3, OwnerStart
  <2> QED BY <1>3, <2>1, FinishOK
<1>4. ASSUME at # 0, PassOn
      PROVE  Good
  BY <1>1, <1>4, PassOnOK DEF DataOK
<1>5. ASSUME at # 0, prog[at].kind = "try", StartCatch
      PROVE  Good
  BY <1>1, <1>5, StartCatchOK DEF DataOK
<1>6. CASE DoReturns
  <2>1. at # 0 /\ ret.output \in 0 .. N
    BY <1>6, OwnerStart DEF DoReturns
  <2>2. Good
    <3> HIDE DEF Good
    <3> QED BY <1>3, <1>4, <1>6, <2>1 DEF DoReturns
  <2>3. DataOK'
    BY <1>1, <1>6, <2>2 DEF DoReturns, DataOK
  <2> QED BY <1>2, <2>2, <2>3, PartsSuffice
<1>7. CASE ForReturns
  <2>1. at # 0 /\ at \in Task /\ ret.output \in 0 .. N /\ prog[at].kind = "for"
    BY <1>7, OwnerStart DEF ForReturns
  <2>2. Good /\ iteration' \in [Task -> Nat]
    <3>1. CASE IterationSucceeds
      <4>1. {<<"result", at>>} \in SUBSET Facts /\ Body(at) \in Cells
            /\ Working(at) \in Cells
        BY <2>1, FactsOK, CellsOK
      <4>2. heap[Working(at)] \in State /\ heap[Body(at)] \in State
        BY <1>1, <4>1 DEF DataOK
      <4>3. [output |-> ret.output,
             context |-> heap[Body(at)].context,
             data |-> heap[Working(at)].data \cup {<<"result", at>>}] \in State
        BY <2>1, <4>1, <4>2 DEF State
      <4>4. heap' \in [Cells -> State]
        BY <1>1, <3>1, <4>3 DEF IterationSucceeds, DataOK
      <4>5. iteration' \in [Task -> Nat]
        <5>1. iteration \in [Task -> Nat] /\ iteration[at] + 1 \in Nat
          BY <1>1, <2>1 DEF DataOK
        <5> QED BY <3>1, <5>1 DEF IterationSucceeds
      <4>6. ControlOK'
        BY <1>1, <1>2, <2>1, <3>1 DEF IterationSucceeds, ControlOK, program
      <4> QED BY <1>1, <3>1, <4>4, <4>5, <4>6 DEF IterationSucceeds, DataOK
    <3>2. CASE IterationEnds
      <4>1. Good
        BY <1>3, <2>1, <3>2 DEF IterationEnds
      <4> QED BY <1>1, <3>2, <4>1 DEF IterationEnds, DataOK
    <3>3. CASE PassOn /\ UNCHANGED iteration
      <4>1. Good
        BY <1>4, <2>1, <3>3
      <4> QED BY <1>1, <3>3, <4>1 DEF DataOK
    <3> QED BY <1>7, <3>1, <3>2, <3>3 DEF ForReturns
  <2>3. DataOK'
    BY <1>1, <1>7, <2>2 DEF ForReturns, DataOK
  <2> QED BY <1>2, <2>2, <2>3, PartsSuffice
<1>8. CASE TryReturns
  <2>1. at # 0 /\ ret.output \in 0 .. N /\ 0 \in 0 .. N /\ prog[at].kind = "try"
    BY <1>8, OwnerStart DEF TryReturns
  <2>2. Good
    <3>1. TryBodyReturns \/ CatchReturns
      BY <1>8 DEF TryReturns
    <3> HIDE DEF Good
    <3> QED BY <1>3, <1>4, <1>5, <2>1, <3>1
            DEF TryBodyReturns, CatchReturns, PropagateEnd
  <2>3. DataOK'
    BY <1>1, <1>8, <2>2 DEF TryReturns, DataOK
  <2> QED BY <1>2, <2>2, <2>3, PartsSuffice
<1>9. CASE RootReturns
  <2>1. ControlOK'
    BY <1>1, <1>9 DEF RootReturns, ControlOK
  <2>2. DataOK'
    BY <1>1, <1>9 DEF RootReturns, DataOK, history
  <2> QED BY <1>2, <2>1, <2>2, PartsSuffice
<1> QED
  BY <1>6, <1>7, <1>8, <1>9 DEF Owner

LEMMA NextBase ==
  ASSUME ScopesAssumption, BaseInv, [Next]_vars
  PROVE  BaseInv'
<1>1. CASE Code
  BY <1>1, StartBase, LeafBase, LoopBase, OwnerBase DEF Code
<1>2. CASE RequestCancel
  <2>1. UNCHANGED program
    BY <1>2 DEF RequestCancel
  <2>2. ControlOK' /\ DataOK'
    BY <1>2, <2>1, Parts
    DEF RequestCancel, control, history, program, ControlOK, DataOK
  <2> QED BY <2>1, <2>2, PartsSuffice
<1>3. CASE Terminated \/ UNCHANGED vars
  BY <1>3, Parts, PartsSuffice
  DEF Terminated, vars, program, control, history, ControlOK, DataOK
<1> QED
  BY <1>1, <1>2, <1>3 DEF Next

\* Every state that a workflow reaches has the right types: the lists that run
\* are those of the program, and a list that returns finds its owner.
THEOREM TypeCorrect == Spec => []TypeOK
<1>1. Init => BaseInv
  BY ScopesAssumption, InitBase
<1>2. BaseInv /\ [Next]_vars => BaseInv'
  BY ScopesAssumption, NextBase
<1>3. BaseInv => TypeOK
  BY DEF BaseInv
<1> QED
  BY <1>1, <1>2, <1>3, PTL DEF Spec

-----------------------------------------------------------------------------
(* Cancellation *)

LEMMA NextCancellation ==
  ASSUME ScopesAssumption, BaseInv, CancellationOnItsWay, [Next]_vars
  PROVE  CancellationOnItsWay'
<1>1. CASE LeafCancelled
  <2>1. at \in Task
    BY <1>1, Parts DEF LeafCancelled, ControlOK
  <2>2. pc' = "return" /\ ret'.outcome = "canceled"
    BY <1>1, <2>1, FailOK DEF LeafCancelled
  <2> QED BY <1>1, <2>2 DEF LeafCancelled, CancellationOnItsWay
<1>2. CASE ~ aborted /\ UNCHANGED aborted
  BY <1>2 DEF CancellationOnItsWay
<1>3. CASE /\ aborted
           /\ DoReturns \/ ForReturns \/ TryReturns
  <2>1. cancelReq /\ pc = "return" /\ ret.outcome = "canceled" /\ at # 0
        /\ UNCHANGED cancelReq
    BY <1>3 DEF DoReturns, ForReturns, TryReturns, CancellationOnItsWay, Returned,
                IterationSucceeds, IterationEnds, TryBodyReturns, CatchReturns
  <2>2. PassOn
    BY <1>3, <2>1 DEF DoReturns, ForReturns, TryReturns, Returned,
                      IterationSucceeds, IterationEnds, TryBodyReturns, CatchReturns
  <2> QED BY <2>1, <2>2, PassOnOK DEF CancellationOnItsWay
<1>4. CASE RootReturns \/ RequestCancel \/ Terminated \/ UNCHANGED vars
  BY <1>4 DEF RootReturns, RequestCancel, Terminated, vars, program, control,
              history, CancellationOnItsWay
<1>5. ~ aborted \/ ~ (Start \/ Leaf \/ Loop)
  BY DEF CancellationOnItsWay, Start, VisitLeaf, RejectTask, VisitDo, VisitTry,
         VisitFor, Visit, Leaf, LeafReturns, LeafFails, LeafCancelled, Loop,
         StartIteration, EndLoop, LoopFails
<1>6. Code => LeafCancelled \/ UNCHANGED aborted
  BY DEF Code, Start, VisitLeaf, RejectTask, VisitDo, VisitTry, VisitFor, Leaf,
         LeafReturns, LeafFails, Loop, StartIteration, EndLoop, LoopFails,
         Owner, DoReturns, ForReturns, TryReturns, RootReturns, history
<1> QED
  BY <1>1, <1>2, <1>3, <1>4, <1>5, <1>6 DEF Next, Code, Owner

\* A cancellation gets out of every list, through every try, and no task is
\* started on the way.
THEOREM CancellationGetsOut == Spec => []CancellationWins
<1>1. Init => BaseInv /\ CancellationOnItsWay
  BY ScopesAssumption, InitBase DEF Init, CancellationOnItsWay
<1>2. BaseInv /\ CancellationOnItsWay /\ [Next]_vars
        => BaseInv' /\ CancellationOnItsWay'
  BY ScopesAssumption, NextBase, NextCancellation
<1>3. CancellationOnItsWay => CancellationWins
  BY DEF CancellationOnItsWay, CancellationWins
<1> QED
  BY <1>1, <1>2, <1>3, PTL DEF Spec

-----------------------------------------------------------------------------
(* The tasks around a task *)

\* What Around[t] is, given its value f for the tasks before t.
AroundGiven(f, t) ==
  IF t = 0 \/ ListOf(t)[1] = 0
  THEN {}
  ELSE {ListOf(t)[1]} \cup f[ListOf(t)[1]]

\* A task comes after its owner.
LEMMA OwnerBefore ==
  ASSUME ScopesAssumption, WellBuilt, NEW t \in Task
  PROVE  ListOf(t)[1] \in 0 .. N /\ ListOf(t)[1] < t
<1>1. Built(prog)
  BY ProgramOK
<1>2. ListOf(t)[1] < t
  BY <1>1 DEF Built, ListOf
<1> QED
  BY <1>2, DefinitionOK, OwnerOK

\* The recursive definition of Around has a solution on the first tasks,
\* however many: otherwise there is a least number for which it has none.
LEMMA AroundExists ==
  ASSUME ScopesAssumption, WellBuilt, NEW n \in 0 .. N
  PROVE  \E f : f = [t \in 0 .. n |-> AroundGiven(f, t)]
<1> DEFINE Solved(k) == \E f : f = [t \in 0 .. k |-> AroundGiven(f, t)]
           Bad == {k \in Task : ~ Solved(k)}
<1>1. Solved(0)
  <2> DEFINE f == [t \in 0 .. 0 |-> {}]
  <2>1. f = [t \in 0 .. 0 |-> AroundGiven(f, t)]
    BY DEF AroundGiven
  <2> QED BY <2>1
<1>2. ASSUME NEW k \in Task, Solved(k - 1)
      PROVE  Solved(k)
  <2>1. PICK f : f = [t \in 0 .. k - 1 |-> AroundGiven(f, t)]
    BY <1>2
  <2> DEFINE g == [t \in 0 .. k |-> AroundGiven(f, t)]
  <2>2. \A t \in 0 .. k : t # 0 => ListOf(t)[1] \in 0 .. k - 1
    BY OwnerBefore DEF Task, ScopesAssumption
  <2>3. \A t \in 0 .. k - 1 : f[t] = AroundGiven(f, t)
    BY <2>1
  <2>4. \A t \in 0 .. k - 1 : g[t] = f[t]
    BY <2>3 DEF Task, ScopesAssumption
  <2>5. \A t \in 0 .. k : AroundGiven(g, t) = AroundGiven(f, t)
    <3> HIDE DEF g
    <3> QED BY <2>2, <2>4 DEF AroundGiven
  <2>6. g = [t \in 0 .. k |-> AroundGiven(g, t)]
    <3>1. g = [t \in 0 .. k |-> AroundGiven(f, t)]
      OBVIOUS
    <3> HIDE DEF g
    <3> QED BY <2>5, <3>1
  <2> QED BY <2>6
<1>3. Bad = {}
  <2> SUFFICES ASSUME Bad # {}
               PROVE  FALSE
    OBVIOUS
  <2> HIDE DEF Solved
  <2>1. Min(Bad) \in Bad /\ \A k \in Bad : Min(Bad) =< k
    BY MinIsMember
  <2>2. Min(Bad) - 1 \in 0 .. N /\ Min(Bad) - 1 \notin Bad /\ Min(Bad) \in Task
    BY <2>1 DEF Task, ScopesAssumption
  <2>3. Solved(Min(Bad) - 1)
    BY <1>1, <2>2 DEF Task, ScopesAssumption
  <2> QED BY <1>2, <2>1, <2>2, <2>3
<1>4. Solved(n)
  <2> HIDE DEF Solved
  <2> QED BY <1>1, <1>3 DEF Task, ScopesAssumption
<1> QED
  BY <1>4

LEMMA AroundIs ==
  ASSUME ScopesAssumption, WellBuilt
  PROVE  /\ Around[0] = {}
         /\ \A t \in Task :
              Around[t] = IF ListOf(t)[1] = 0 THEN {}
                          ELSE {ListOf(t)[1]} \cup Around[ListOf(t)[1]]
<1>1. 0 \in 0 .. N /\ N \in 0 .. N /\ Task \subseteq 0 .. N /\ 0 \notin Task
  BY DEF ScopesAssumption, Task
<1>2. \E f : f = [t \in 0 .. N |-> AroundGiven(f, t)]
  BY <1>1, AroundExists
<1>3. Around = [t \in 0 .. N |-> AroundGiven(Around, t)]
  BY <1>2 DEF Around, AroundGiven
<1>4. \A t \in 0 .. N : Around[t] = AroundGiven(Around, t)
  BY <1>3
<1> QED
  BY <1>1, <1>4 DEF AroundGiven

\* Induction along the tree, over a set of tasks.
LEMMA TreeInduction ==
  ASSUME ScopesAssumption, WellBuilt, NEW S \in SUBSET Task,
         \A t \in Task : ListOf(t)[1] = 0 \/ ListOf(t)[1] \in S => t \in S
  PROVE  S = Task
<1> DEFINE Rest == Task \ S
<1>1. SUFFICES ASSUME Rest # {}
               PROVE  FALSE
  OBVIOUS
<1>2. Min(Rest) \in Rest /\ \A t \in Rest : Min(Rest) =< t
  BY <1>1, MinIsMember
<1>3. ListOf(Min(Rest))[1] \in 0 .. N /\ ListOf(Min(Rest))[1] < Min(Rest)
  BY <1>2, OwnerBefore
<1>4. ListOf(Min(Rest))[1] \notin Rest
  <2> DEFINE o == ListOf(Min(Rest))[1]
             m == Min(Rest)
  <2>1. m \in Nat /\ o \in Nat /\ o < m /\ \A t \in Rest : m =< t
    BY <1>2, <1>3 DEF ScopesAssumption, Task
  <2> HIDE DEF o, m, Rest
  <2>2. o \notin Rest
    BY <2>1
  <2> QED BY <2>2 DEF o
<1> HIDE DEF Rest
<1>5. Min(Rest) \notin S /\ Min(Rest) \in Task
  BY <1>2 DEF Rest
<1>6. ListOf(Min(Rest))[1] = 0 \/ ListOf(Min(Rest))[1] \in S
  BY <1>3, <1>4 DEF Rest, ScopesAssumption, Task
<1> QED
  BY <1>5, <1>6

LEMMA AroundOwner ==
  ASSUME ScopesAssumption, WellBuilt, NEW t \in Task, Around[t] # {}
  PROVE  /\ ListOf(t)[1] # 0 /\ ListOf(t)[1] \in Task
         /\ Around[t] = {ListOf(t)[1]} \cup Around[ListOf(t)[1]]
<1>1. ListOf(t)[1] # 0 /\ Around[t] = {ListOf(t)[1]} \cup Around[ListOf(t)[1]]
  BY AroundIs
<1>2. ListOf(t)[1] \in 0 .. N
  BY OwnerBefore
<1> QED
  BY <1>1, <1>2 DEF Task, ScopesAssumption

\* The tasks around a task come before it and are around one another.
LEMMA AroundOK ==
  ASSUME ScopesAssumption, WellBuilt, NEW t \in Task
  PROVE  /\ Around[t] \in SUBSET Task
         /\ \A a \in Around[t] : a < t /\ Around[a] \subseteq Around[t]
         /\ \A a, b \in Around[t] : a < b => a \in Around[b]
<1> DEFINE Good(u) == /\ Around[u] \in SUBSET Task
                      /\ \A a \in Around[u] : a < u /\ Around[a] \subseteq Around[u]
                      /\ \A a, b \in Around[u] : a < b => a \in Around[b]
           S == {u \in Task : Good(u)}
<1>1. ASSUME NEW u \in Task, ListOf(u)[1] = 0 \/ ListOf(u)[1] \in S
      PROVE  Good(u)
  <2> DEFINE o == ListOf(u)[1]
  <2>1. CASE o = 0
    BY <2>1, AroundIs
  <2>2. CASE o \in S
    <3>1. o \in Task /\ o # 0 /\ o < u /\ Good(o)
      BY <2>2, OwnerBefore DEF Task
    <3>2. Around[u] = {o} \cup Around[o]
      BY <3>1, AroundIs
    <3>3. Around[u] \in SUBSET Task
      BY <3>1, <3>2
    <3> HIDE DEF o
    <3>4. \A a \in Around[u] : a < u /\ Around[a] \subseteq Around[u]
      BY <3>1, <3>2, <3>3 DEF Task, ScopesAssumption
    <3>5. \A a, b \in Around[u] : a < b => a \in Around[b]
      BY <3>1, <3>2, <3>3 DEF Task, ScopesAssumption
    <3> QED BY <3>3, <3>4, <3>5
  <2> QED BY <1>1, <2>1, <2>2
<1>2. S = Task
  <2> HIDE DEF Good
  <2>1. S \in SUBSET Task
    OBVIOUS
  <2>2. \A u \in Task : ListOf(u)[1] = 0 \/ ListOf(u)[1] \in S => u \in S
    BY <1>1
  <2> HIDE DEF S
  <2> QED BY <2>1, <2>2, TreeInduction
<1> QED
  BY <1>2

LEMMA AroundKept ==
  ASSUME UNCHANGED prog
  PROVE  Around' = Around /\ \A t : ListOf(t)' = ListOf(t)
BY DEF Around, ListOf

-----------------------------------------------------------------------------
(* The way from a task to the root *)

\* List l has task u in it, however deep.
OnPath(u, l) == \E v \in {u} \cup Around[u] : ListOf(v) = l

\* A list that has u in it is the root, or its owner is around u, in a list
\* that has u in it.
LEMMA PathUp ==
  ASSUME ScopesAssumption, WellBuilt, NEW u \in Task, NEW l \in Lists,
         OnPath(u, l), l[1] # 0
  PROVE  l[1] \in Around[u] /\ l[1] \in Task /\ OnPath(u, ListOf(l[1]))
<1>1. PICK v \in {u} \cup Around[u] : ListOf(v) = l
  BY DEF OnPath
<1>2. v \in Task /\ Around[v] \subseteq Around[u]
  BY AroundOK
<1>3. l[1] \in Around[v]
  BY <1>1, <1>2, AroundIs
<1> QED
  BY <1>2, <1>3, AroundOK DEF OnPath

LEMMA PathStart ==
  ASSUME NEW u
  PROVE  OnPath(u, ListOf(u))
BY DEF OnPath

\* No two lists of one task have u in them.
LEMMA PathUnique ==
  ASSUME ScopesAssumption, WellBuilt, NEW u \in Task, NEW l, NEW m,
         OnPath(u, l), OnPath(u, m), l[1] = m[1]
  PROVE  l = m
<1>1. PICK v \in {u} \cup Around[u] : ListOf(v) = l
  BY DEF OnPath
<1>2. PICK w \in {u} \cup Around[u] : ListOf(w) = m
  BY DEF OnPath
<1>3. v \in Task /\ w \in Task
  BY AroundOK
<1>4. ASSUME NEW x \in Task, NEW y \in Task, x \in Around[y]
      PROVE  ListOf(x)[1] # ListOf(y)[1]
  <2>1. ListOf(y)[1] # 0 /\ ListOf(y)[1] \in Task
        /\ (x = ListOf(y)[1] \/ x \in Around[ListOf(y)[1]])
    BY <1>4, AroundOwner
  <2>2. x =< ListOf(y)[1] /\ ListOf(x)[1] < x /\ ListOf(x)[1] \in 0 .. N
    BY <1>4, <2>1, AroundOK, OwnerBefore DEF Task, ScopesAssumption
  <2> QED BY <2>1, <2>2 DEF Task, ScopesAssumption
<1>5. v = w \/ v \in Around[w] \/ w \in Around[v]
  BY <1>3, AroundOK DEF Task, ScopesAssumption
<1> QED
  BY <1>1, <1>2, <1>3, <1>4, <1>5

\* From a task on the way to its owner there is nothing in between.
LEMMA PathGap ==
  ASSUME ScopesAssumption, WellBuilt, NEW u \in Task, NEW t \in Around[u],
         NEW a \in Around[u]
  PROVE  ListOf(t)[1] < a <=> t = a \/ t < a
<1>1. t \in Task /\ a \in Task /\ ListOf(t)[1] < t /\ ListOf(t)[1] \in 0 .. N
  BY AroundOK, OwnerBefore
<1>2. ASSUME a < t
      PROVE  a =< ListOf(t)[1]
  <2>1. a \in Around[t]
    BY <1>2, AroundOK
  <2>2. ListOf(t)[1] # 0 /\ ListOf(t)[1] \in Task
        /\ (a = ListOf(t)[1] \/ a \in Around[ListOf(t)[1]])
    BY <1>1, <2>1, AroundOwner
  <2> QED BY <1>1, <2>2, AroundOK DEF Task, ScopesAssumption
<1> QED
  BY <1>1, <1>2 DEF Task, ScopesAssumption

-----------------------------------------------------------------------------
(* What a step does to the control and to the state of its list *)

\* The tasks of list l are not none, and its first one is in it.
LEMMA FirstInList ==
  ASSUME ScopesAssumption, WellBuilt
  PROVE  \A t \in Task :
           /\ prog[t].kind \in {"do", "for", "try"} => ListOf(First(Body(t))) = Body(t)
           /\ prog[t].kind = "try" => ListOf(First(Catch(t))) = Catch(t)
<1>1. ASSUME NEW l, TasksOf(prog, l) # {}
      PROVE  ListOf(First(l)) = l
  <2>1. TasksOf(prog, l) \in SUBSET Task
    BY DEF TasksOf
  <2>2. First(l) \in TasksOf(prog, l)
    BY <1>1, <2>1, MinIsMember DEF First
  <2> QED BY <2>2 DEF TasksOf, ListOf
<1> QED
  BY <1>1, ProgramOK DEF Built

EndsList(t, v) ==
  /\ Return(ListOf(t), "end", v)
  /\ raised' = IF raised = NotRaised THEN [task |-> t, output |-> v] ELSE raised
  /\ UNCHANGED fault

GoesOn(t, v) ==
  /\ \/ Return(ListOf(t), "ok", v)
     \/ pc' = "visit" /\ at' \in Task /\ ListOf(at') = ListOf(t) /\ UNCHANGED ret
  /\ UNCHANGED <<raised, fault>>

MayExport(t) == IF prog[t].exports THEN {t} ELSE {}

\* Task t, which returned d, leaves state c to its list.
LeavesState(t, output, d, s, c) ==
  /\ c \in State
  /\ heap' = [heap EXCEPT ![ptr[ListOf(t)]] = c]
  /\ c.data = s.data
  /\ c.context \in {s.context} \cup MayExport(t)
  /\ c.output = IF prog[t].shapes THEN t ELSE IF d # "none" THEN s.output ELSE output

\* Whether the directive that t returned or has in its definition is `end`.
Directs(t, d) == d = "end" \/ (d = "none" /\ prog[t].then = "end")

LEMMA DispatchIs ==
  ASSUME ScopesAssumption, BaseInv, NEW t \in Task,
         NEW e \in {"none", "exit", "end"}, NEW v, Dispatch(t, e, v)
  PROVE  \/ e = "end" /\ Return(ListOf(t), "end", v)
         \/ e # "end" /\ Return(ListOf(t), "ok", v)
         \/ e # "end" /\ pc' = "visit" /\ at' \in Task /\ ListOf(at') = ListOf(t)
              /\ UNCHANGED ret
<1>1. CASE e = "none" /\ Later(t) # {} /\ at' = Min(Later(t))
  <2>1. Later(t) \in SUBSET Task
    BY DEF Later, TasksOf
  <2>2. at' \in Later(t)
    BY <1>1, <2>1, MinIsMember
  <2> QED BY <1>1, <2>2 DEF Dispatch, Later, TasksOf, ListOf
<1> QED
  BY <1>1 DEF Dispatch

LEMMA FinishIs ==
  ASSUME ScopesAssumption, BaseInv, NEW t \in Task, NEW output \in 0 .. N,
         NEW d \in {"none", "exit", "end"}, NEW s \in State,
         Finish(t, output, d, s)
  PROVE  \E c : /\ LeavesState(t, output, d, s, c)
                /\ \/ Fail(t, "failed")
                   \/ Directs(t, d) /\ EndsList(t, c.output)
                   \/ d # "end" /\ GoesOn(t, c.output)
<1> DEFINE after == Recorded(s, t, output, d # "none")
           e == IF d # "none" THEN d ELSE prog[t].then
           part == [s EXCEPT !.output = after.output]
<1>1. /\ after \in State /\ e \in {"none", "exit", "end"}
      /\ e = "end" <=> Directs(t, d)
  BY RecordedOK, DefinitionOK DEF BaseInv, Directs
<1>2. /\ after.data = s.data
      /\ after.context \in {s.context} \cup MayExport(t)
      /\ after.output = IF prog[t].shapes THEN t ELSE IF d # "none" THEN s.output ELSE output
  BY DEF Recorded, State, MayExport
<1>3. CASE /\ heap' = [heap EXCEPT ![ptr[ListOf(t)]] = after]
           /\ Dispatch(t, e, after.output)
           /\ raised' = IF e = "end" /\ raised = NotRaised
                        THEN [task |-> t, output |-> after.output]
                        ELSE raised
           /\ UNCHANGED fault
  <2> HIDE DEF after
  <2>1. LeavesState(t, output, d, s, after)
    BY <1>1, <1>2, <1>3 DEF LeavesState
  <2>2. \/ Directs(t, d) /\ EndsList(t, after.output)
        \/ d # "end" /\ GoesOn(t, after.output)
    <3> HIDE DEF e
    <3>1. d = "end" => e = "end"
      BY DEF e
    <3> QED BY <1>1, <1>3, <3>1, DispatchIs DEF EndsList, GoesOn
  <2> QED BY <2>1, <2>2
<1>4. CASE heap' = [heap EXCEPT ![ptr[ListOf(t)]] = part] /\ Fail(t, "failed")
  <2> HIDE DEF after
  <2>1. after.output \in 0 .. N
    BY <1>1 DEF State
  <2>2. /\ part \in State /\ part.data = s.data /\ part.context = s.context
        /\ part.output = after.output
    BY <2>1 DEF State
  <2> HIDE DEF part
  <2>3. LeavesState(t, output, d, s, part)
    BY <1>2, <1>4, <2>2 DEF LeavesState
  <2> QED BY <1>4, <2>3
<1> QED
  BY <1>3, <1>4 DEF Finish

-----------------------------------------------------------------------------
(* Failures *)

\* The try task h has u in its body.
Handles(h, u) == h \in Around[u] /\ prog[h].kind = "try" /\ OnPath(u, Body(h))

LEMMA HandlersAre ==
  ASSUME ScopesAssumption, WellBuilt, NEW u \in Task
  PROVE  \A h : h \in Handlers(u) <=> Handles(h, u)
<1> TAKE h
<1>1. {u} \cup Around[u] \subseteq Task
  BY AroundOK
<1>2. \A v : v \in TasksOf(prog, Body(h)) <=> v \in Task /\ ListOf(v) = Body(h)
  BY DEF TasksOf, ListOf
<1> QED
  BY <1>1, <1>2 DEF Handlers, Handles, OnPath

\* A failure of u has got to list l, past no try that had u in its body unless
\* the workflow is being cancelled.
Passes(u, l) ==
  /\ OnPath(u, l)
  /\ \A h \in Task : Handles(h, u) => cancelReq \/ h =< l[1]

\* A failure is on its way exactly while lists fail, and then it is the last
\* task that failed.
FaultOnItsWay ==
  /\ fault # 0 <=> pc \in {"return", "closed"} /\ ret.outcome \in {"failed", "canceled"}
  /\ fault # 0 => Passes(fault, ret.list)

FaultInv == FaultOnItsWay /\ EndSignalledAtRoot

LEMMA PassesPrimed ==
  ASSUME UNCHANGED prog, fault' # 0,
         OnPath(fault', ret'.list),
         \A h \in Task : Handles(h, fault') => cancelReq' \/ h =< ret'.list[1]
  PROVE  Passes(fault, ret.list)'
<1>1. Around' = Around /\ \A t : ListOf(t)' = ListOf(t)
  BY AroundKept
<1> QED
  BY <1>1 DEF Passes, OnPath, Handles, Body

\* Where a task fails, its failure has passed nothing.
LEMMA FailFault ==
  ASSUME ScopesAssumption, BaseInv, UNCHANGED prog, NEW t \in Task,
         NEW how \in {"failed", "canceled"}, Fail(t, how)
  PROVE  FaultInv'
<1>1. /\ pc' = "return" /\ ret'.outcome = how /\ ret'.list = ListOf(t)
      /\ fault' = t /\ fault' # 0
  <2>1. pc' = "return" /\ ret'.outcome = how
    BY FailOK
  <2>2. ret'.list = ListOf(t) /\ fault' = t
    BY DEF Fail, Return
  <2> QED BY <2>1, <2>2 DEF Task, ScopesAssumption
<1>2. \A h \in Task : Handles(h, t) => h =< ListOf(t)[1]
  <2> SUFFICES ASSUME NEW h \in Task, Handles(h, t)
               PROVE  h =< ListOf(t)[1]
    OBVIOUS
  <2>1. ListOf(t)[1] \in Task /\ Around[t] = {ListOf(t)[1]} \cup Around[ListOf(t)[1]]
    BY AroundOwner DEF Handles, BaseInv
  <2> QED BY <2>1, AroundOK DEF Handles, BaseInv, Task, ScopesAssumption
<1>3. Passes(fault, ret.list)'
  BY <1>1, <1>2, PathStart, PassesPrimed
<1> QED
  BY <1>1, <1>3 DEF FaultInv, FaultOnItsWay, EndSignalledAtRoot

\* A list that returns for another reason, or goes on.
LEMMA NoFault ==
  ASSUME fault' = 0,
         pc' \in {"visit", "leaf", "iterate"}
           \/ (/\ pc' = "return" /\ ret'.outcome \notin {"failed", "canceled"}
               /\ ret'.outcome = "endSignalled" => ~ Nested(ret.list)')
  PROVE  FaultInv'
BY DEF FaultInv, FaultOnItsWay, EndSignalledAtRoot

LEMMA FinishFault ==
  ASSUME ScopesAssumption, BaseInv, UNCHANGED prog, fault = 0, NEW t \in Task,
         NEW output \in 0 .. N, NEW d \in {"none", "exit", "end"}, NEW s \in State,
         Finish(t, output, d, s)
  PROVE  FaultInv'
<1>1. CASE Fail(t, "failed")
  BY <1>1, FailFault
<1>2. CASE \E v : EndsList(t, v)
  <2>1. /\ pc' = "return" /\ fault' = 0 /\ ret'.outcome = Executed(ListOf(t), "end")
        /\ ret'.list = ListOf(t)
    BY <1>2 DEF EndsList, Return
  <2>2. ret'.outcome = "endSignalled" => ~ Nested(ListOf(t))
    BY <2>1 DEF Executed
  <2>3. ret'.outcome \notin {"failed", "canceled"}
    BY <2>1 DEF Executed
  <2> QED BY <2>1, <2>2, <2>3, NoFault DEF Nested
<1>3. CASE \E v : GoesOn(t, v)
  BY <1>3, NoFault DEF GoesOn, Return, Executed
<1> QED
  BY <1>1, <1>2, <1>3, FinishIs

\* The owner of a list that fails passes it on: from a catch, or because the
\* workflow is being cancelled, or because the owner is not a try.
LEMMA PassOnFault ==
  ASSUME ScopesAssumption, BaseInv, FaultInv, UNCHANGED <<prog, cancelReq>>,
         pc = "return", at # 0, ret.outcome \in Failure, PassOn,
         ret.outcome = "endSignalled" => prog[at].kind = "do",
         ret.list = Body(at) /\ prog[at].kind = "try" => cancelReq
  PROVE  FaultInv'
<1>1. /\ pc' = "return" /\ ret'.list = ListOf(at)
      /\ ret'.outcome = ret.outcome /\ fault' = fault
  BY PassOnOK
<1>2. at \in Task /\ at = ret.list[1] /\ ret.list \in Lists /\ fault \in 0 .. N
  BY OwnerStart, Parts DEF ControlOK, DataOK
<1>3. ret.list = Body(at) \/ ret.list = Catch(at)
  BY <1>2 DEF Lists, Root, Body, Catch, Task, ScopesAssumption
<1>4. EndSignalledAtRoot'
  <2>1. ret.outcome = "endSignalled" => ~ Nested(ListOf(at))
    BY <1>2, <1>3, NestedOK DEF FaultInv, EndSignalledAtRoot, BaseInv
  <2> QED BY <1>1, <2>1 DEF EndSignalledAtRoot, Nested
<1>5. fault # 0 => Passes(fault, ret.list)'
  <2> SUFFICES ASSUME fault # 0
               PROVE  Passes(fault, ret.list)'
    OBVIOUS
  <2>1. fault \in Task /\ Passes(fault, ret.list)
    BY <1>2 DEF FaultInv, FaultOnItsWay, Task, ScopesAssumption
  <2>2. at \in Around[fault] /\ OnPath(fault, ListOf(at))
    BY <1>2, <2>1, PathUp DEF Passes, BaseInv
  <2>3. \A h \in Task : Handles(h, fault) => cancelReq \/ h =< ListOf(at)[1]
    <3> SUFFICES ASSUME NEW h \in Task, Handles(h, fault), ~ cancelReq
                 PROVE  h =< ListOf(at)[1]
      OBVIOUS
    <3>1. h =< at
      BY <1>2, <2>1 DEF Passes
    <3>2. h # at
      <4> SUFFICES ASSUME h = at
                   PROVE  FALSE
        OBVIOUS
      <4>1. ret.list = Body(at)
        BY <1>2, <2>1, ListsOK, PathUnique DEF Passes, Handles, BaseInv
      <4> QED BY <4>1 DEF Handles
    <3>3. h \in Around[fault] /\ ListOf(at)[1] \in 0 .. N
      BY <1>2, OwnerBefore DEF Handles, BaseInv
    <3> QED BY <1>2, <2>1, <2>2, <3>1, <3>2, <3>3, PathGap
            DEF BaseInv, Task, ScopesAssumption
  <2> QED BY <1>1, <2>1, <2>2, <2>3, PassesPrimed
<1> QED
  BY <1>1, <1>4, <1>5 DEF FaultInv, FaultOnItsWay

\* What one of the owners does when its list has returned: it finishes, passes
\* a failure on, starts over or starts its catch.
LEMMA OwnerIs ==
  ASSUME ScopesAssumption, BaseInv, DoReturns \/ ForReturns \/ TryReturns
  PROVE  /\ pc = "return" /\ at \in Task /\ UNCHANGED <<program, cancelReq>>
         /\ ret.list = Body(at) \/ (ret.list = Catch(at) /\ prog[at].kind = "try")
         /\ \/ \E d \in {"none", "end"}, output \in 0 .. N,
                  s \in {Here(at), [Here(at) EXCEPT !.output = ret.output]} :
                 /\ Finish(at, output, d, s)
                 /\ ret.outcome = IF d = "end" THEN "end" ELSE "ok"
                 /\ output = ret.output \/ cancelReq
                 /\ \/ prog[at].kind = "do"
                    \/ d = "end" => s.output = ret.output \/ cancelReq
            \/ /\ PassOn /\ ret.outcome \in Failure
               /\ ret.list = Body(at) /\ prog[at].kind = "try" => cancelReq
            \/ IterationSucceeds /\ prog[at].kind = "for"
            \/ /\ StartCatch /\ ret.outcome \in Failure /\ ~ cancelReq
               /\ prog[at].kind = "try" /\ ret.list = Body(at)
<1>1. at # 0
  BY DEF DoReturns, ForReturns, TryReturns
<1>2. /\ at \in Task /\ ret.output \in 0 .. N /\ 0 \in 0 .. N /\ Here(at) \in State
      /\ [Here(at) EXCEPT !.output = ret.output].output = ret.output
  BY <1>1, OwnerStart DEF State
<1>3. pc = "return" /\ UNCHANGED <<program, cancelReq>>
  BY DEF DoReturns, ForReturns, TryReturns, Returned, IterationSucceeds,
         IterationEnds, TryBodyReturns, CatchReturns
<1>4. CASE DoReturns
  BY <1>1, <1>2, <1>3, <1>4 DEF DoReturns, Returned
<1>5. CASE ForReturns
  BY <1>1, <1>2, <1>3, <1>5
  DEF ForReturns, Returned, IterationSucceeds, IterationEnds
<1>6. CASE TryReturns
  <2>1. CASE TryBodyReturns
    BY <1>1, <1>2, <1>3, <1>6, <2>1
    DEF TryReturns, TryBodyReturns, Returned, PropagateEnd, Failure
  <2>2. CASE CatchReturns
    <3>1. Catch(at) # Body(at)
      BY <1>2, ListsOK
    <3> QED BY <1>1, <1>2, <1>3, <1>6, <2>2, <3>1
            DEF TryReturns, CatchReturns, Returned, PropagateEnd
  <2> QED BY <1>6, <2>1, <2>2 DEF TryReturns
<1> QED
  BY <1>4, <1>5, <1>6

\* What the other steps do.
LEMMA OtherSteps ==
  ASSUME ScopesAssumption, BaseInv, Start \/ Leaf \/ Loop
  PROVE  /\ pc \in {"visit", "leaf", "iterate"} /\ at \in Task /\ UNCHANGED <<program, cancelReq>>
         /\ \/ /\ VisitLeaf \/ VisitDo \/ VisitTry \/ VisitFor \/ StartIteration
               /\ UNCHANGED <<raised, fault>> /\ pc' \in {"visit", "leaf", "iterate"}
            \/ /\ \E how \in {"failed", "canceled"} : Fail(at, how)
               /\ UNCHANGED <<ptr, heap, entry>>
            \/ /\ UNCHANGED <<ptr, entry>>
               /\ pc \in {"leaf", "iterate"}
               /\ \E d \in {"none", "exit", "end"}, s \in State :
                    /\ Finish(at, at, d, s)
                    /\ d = "none" \/ prog[at].kind = "route"
                    /\ pc = "iterate" => s = [Here(at) EXCEPT !.output = at]
<1>1. /\ pc \in {"visit", "leaf", "iterate"} /\ UNCHANGED <<program, cancelReq>>
  BY DEF Start, VisitLeaf, RejectTask, VisitDo, VisitTry, VisitFor, Visit, Leaf,
         LeafReturns, LeafFails, LeafCancelled, Loop, StartIteration, EndLoop,
         LoopFails, program, history
<1>2. at \in Task /\ Here(at) \in State /\ at \in 0 .. N
  BY <1>1, Parts, StateOK DEF ControlOK, Task, ScopesAssumption
<1>3. CASE VisitLeaf \/ VisitDo \/ VisitTry \/ VisitFor \/ StartIteration
  BY <1>1, <1>2, <1>3
  DEF VisitLeaf, VisitDo, VisitTry, VisitFor, StartIteration, Enter, history
<1>4. CASE RejectTask \/ LeafFails \/ LeafCancelled \/ LoopFails
  BY <1>1, <1>2, <1>4 DEF RejectTask, LeafFails, LeafCancelled, LoopFails
<1>5. CASE LeafReturns
  <2>1. UNCHANGED <<ptr, entry>> /\ pc = "leaf"
    BY <1>5 DEF LeafReturns
  <2>2. [Here(at) EXCEPT !.data = @ \cup {<<"result", at>>}] \in State
    BY <1>2, CloneOK, FactsOK
  <2> QED BY <1>1, <1>2, <1>5, <2>1, <2>2 DEF LeafReturns
<1>6. CASE EndLoop
  <2>1. UNCHANGED <<ptr, entry>> /\ pc = "iterate"
    BY <1>6 DEF EndLoop
  <2>2. [Here(at) EXCEPT !.output = at] \in State
    BY <1>2 DEF State
  <2> QED BY <1>1, <1>2, <1>6, <2>1, <2>2 DEF EndLoop
<1> QED
  BY <1>3, <1>4, <1>5, <1>6 DEF Start, Leaf, Loop

LEMMA OwnerFault ==
  ASSUME ScopesAssumption, BaseInv, FaultInv, DoReturns \/ ForReturns \/ TryReturns
  PROVE  FaultInv'
<1>1. /\ pc = "return" /\ at \in Task /\ at # 0 /\ prog' = prog
      /\ ret.list = Body(at) \/ (ret.list = Catch(at) /\ prog[at].kind = "try")
      /\ UNCHANGED <<prog, cancelReq>>
  BY OwnerIs DEF program, Task, ScopesAssumption
<1>2. ASSUME NEW d \in {"none", "end"}, NEW output \in 0 .. N,
             NEW s \in {Here(at), [Here(at) EXCEPT !.output = ret.output]},
             Finish(at, output, d, s), ret.outcome = IF d = "end" THEN "end" ELSE "ok"
      PROVE  FaultInv'
  <2>1. fault = 0
    BY <1>1, <1>2 DEF FaultInv, FaultOnItsWay
  <2>2. s \in State
    BY <1>1, <1>2, OwnerStart
  <2> QED BY <1>1, <1>2, <2>1, <2>2, FinishFault
<1>3. CASE /\ PassOn /\ ret.outcome \in Failure
           /\ ret.list = Body(at) /\ prog[at].kind = "try" => cancelReq
  <2>1. prog[at].kind \in {"do", "for", "try"}
    BY DEF DoReturns, ForReturns, TryReturns
  <2>2. ret.outcome = "endSignalled" => prog[at].kind = "do"
    BY <1>1, <2>1, NestedOK DEF FaultInv, EndSignalledAtRoot, BaseInv
  <2> QED BY <1>1, <1>3, <2>2, PassOnFault
<1>4. CASE IterationSucceeds
  <2>1. fault = 0
    BY <1>1, <1>4 DEF FaultInv, FaultOnItsWay, IterationSucceeds, Returned
  <2> QED BY <1>4, <2>1, NoFault DEF IterationSucceeds
<1>5. CASE StartCatch
  BY <1>5, NoFault DEF StartCatch, Enter
<1> QED
  BY <1>2, <1>3, <1>4, <1>5, OwnerIs

LEMMA NextFault ==
  ASSUME ScopesAssumption, BaseInv, FaultInv, [Next]_vars
  PROVE  FaultInv'
<1>1. CASE Start \/ Leaf \/ Loop
  <2>1. pc \in {"visit", "leaf", "iterate"} /\ at \in Task /\ UNCHANGED prog
    BY <1>1, OtherSteps DEF program
  <2>2. fault = 0
    BY <2>1 DEF FaultInv, FaultOnItsWay
  <2>3. at \in 0 .. N
    BY <2>1 DEF Task, ScopesAssumption
  <2>4. CASE UNCHANGED fault /\ pc' \in {"visit", "leaf", "iterate"}
    BY <2>2, <2>4, NoFault
  <2>5. CASE \E how \in {"failed", "canceled"} : Fail(at, how)
    BY <2>1, <2>5, FailFault
  <2>6. CASE \E d \in {"none", "exit", "end"}, s \in State : Finish(at, at, d, s)
    BY <2>1, <2>2, <2>3, <2>6, FinishFault
  <2> QED BY <1>1, <2>4, <2>5, <2>6, OtherSteps
<1>2. CASE DoReturns \/ ForReturns \/ TryReturns
  BY <1>2, OwnerFault
<1>3. CASE RequestCancel
  BY <1>3 DEF RequestCancel, history, control, FaultInv, FaultOnItsWay,
              EndSignalledAtRoot
<1>4. CASE RootReturns \/ Terminated \/ UNCHANGED vars
  <2>1. /\ UNCHANGED <<prog, cancelReq, ret, fault>>
        /\ pc' \in {"return", "closed"} <=> pc \in {"return", "closed"}
    BY <1>4 DEF RootReturns, Terminated, vars, program, control, history
  <2>2. fault # 0 => Passes(fault, ret.list)'
    BY <2>1, PassesPrimed DEF FaultInv, FaultOnItsWay, Passes
  <2> QED BY <2>1, <2>2
          DEF FaultInv, FaultOnItsWay, EndSignalledAtRoot, Nested
<1> QED
  BY <1>1, <1>2, <1>3, <1>4 DEF Next, Code, Owner

\* The step of NearestCatch.
CaughtNearest ==
  /\ \A t \in Task :
       Returned(Body(t), Outcome) /\ Starts(Catch(t)) =>
         /\ fault # 0
         /\ t = Max(Handlers(fault))
  /\ pc' = "closed" /\ fault # 0 => cancelReq \/ Handlers(fault) = {}

LEMMA FinishesElsewhere ==
  ASSUME ScopesAssumption, BaseInv, NEW t \in Task, NEW output \in 0 .. N,
         NEW d \in {"none", "exit", "end"}, NEW s \in State,
         Finish(t, output, d, s)
  PROVE  ~ Starts(Catch(t)) /\ ~ Starts(Body(t)) /\ pc' \in {"visit", "return"}
<1>1. ListOf(t)[1] < t /\ ListOf(t)[1] \in 0 .. N /\ t \in Nat
  BY OwnerBefore DEF BaseInv, Task, ScopesAssumption
<1>2. ListOf(t) # Catch(t) /\ ListOf(t) # Body(t)
  BY <1>1, ListsOK
<1>3. CASE pc' = "visit" /\ ListOf(at') = ListOf(t)
  BY <1>2, <1>3 DEF Starts
<1>4. CASE pc' = "return"
  BY <1>4 DEF Starts
<1> QED
  BY <1>3, <1>4, FinishIs DEF EndsList, GoesOn, Fail, Return

LEMMA NextCaught ==
  ASSUME ScopesAssumption, BaseInv, FaultInv, [Next]_vars
  PROVE  [CaughtNearest]_vars
<1> SUFFICES ASSUME Next, ~ UNCHANGED vars
             PROVE  CaughtNearest
  OBVIOUS
<1>1. ASSUME NEW t \in Task, Returned(Body(t), Outcome), Starts(Catch(t))
      PROVE  fault # 0 /\ t = Max(Handlers(fault))
  <2>1. pc = "return" /\ ret.list = Body(t) /\ at = t /\ pc' = "visit" /\ at # 0
    BY <1>1, Parts, ListsOK DEF Returned, Starts, ControlOK, Task, ScopesAssumption
  <2>2. DoReturns \/ ForReturns \/ TryReturns
    <3>1. ~ (Start \/ Leaf \/ Loop)
      BY <2>1, OtherSteps
    <3>2. ~ RootReturns /\ ~ RequestCancel /\ ~ Terminated
      BY <2>1 DEF RootReturns, RequestCancel, Terminated
    <3> QED BY <3>1, <3>2 DEF Next, Code, Owner
  <2>3. StartCatch /\ ret.outcome \in Failure /\ ~ cancelReq /\ prog[t].kind = "try"
    <3>1. ASSUME NEW d \in {"none", "end"}, NEW output \in 0 .. N,
                 NEW s \in {Here(at), [Here(at) EXCEPT !.output = ret.output]},
                 Finish(at, output, d, s)
          PROVE  FALSE
      <4>1. s \in State
        BY <2>1, OwnerStart
      <4> QED BY <1>1, <2>1, <3>1, <4>1, FinishesElsewhere
    <3>2. ~ PassOn /\ ~ IterationSucceeds
      BY <2>1 DEF PassOn, IterationSucceeds
    <3> QED BY <2>1, <2>2, <3>1, <3>2, OwnerIs
  <2>4. ret.outcome # "endSignalled"
    BY <2>1, <2>3, NestedOK DEF FaultInv, EndSignalledAtRoot, BaseInv
  <2>5. fault # 0 /\ fault \in Task /\ Passes(fault, Body(t))
    BY <2>1, <2>3, <2>4, Parts
    DEF FaultInv, FaultOnItsWay, Failure, DataOK, Task, ScopesAssumption
  <2>6. Handles(t, fault)
    BY <2>3, <2>5, ListsOK, PathUp DEF Passes, Handles, BaseInv, Task, ScopesAssumption
  <2>7. \A h \in Handlers(fault) : h \in Task /\ h =< t
    BY <2>3, <2>5, HandlersAre, AroundOK, ListsOK DEF BaseInv, Passes, Handles
  <2>8. t \in Handlers(fault)
    BY <2>5, <2>6, HandlersAre DEF BaseInv
  <2>9. t = Max(Handlers(fault))
    <3> DEFINE H == Handlers(fault)
    <3>1. t \in H /\ \A h \in H : h \in Nat /\ h =< t
      BY <2>7, <2>8 DEF Task, ScopesAssumption
    <3> HIDE DEF H
    <3>2. \A m \in H : (\A h \in H : m >= h) => m = t
      BY <3>1
    <3>3. \A h \in H : t >= h
      BY <3>1
    <3>4. t = Max(H)
      BY <3>1, <3>2, <3>3 DEF Max
    <3> QED BY <3>4 DEF H
  <2> QED BY <2>5, <2>9
<1>2. ASSUME pc' = "closed", fault # 0, ~ cancelReq
      PROVE  Handlers(fault) = {}
  <2>1. fault \in Task /\ Passes(fault, ret.list)
    BY <1>2, Parts DEF FaultInv, FaultOnItsWay, DataOK, Task, ScopesAssumption
  <2>2. ret.list[1] = 0
    <3>1. ~ (Start \/ Leaf \/ Loop)
      BY <1>2, OtherSteps DEF FaultInv, FaultOnItsWay
    <3>2. ~ (DoReturns \/ ForReturns \/ TryReturns)
      <4> SUFFICES ASSUME DoReturns \/ ForReturns \/ TryReturns
                   PROVE  FALSE
        OBVIOUS
      <4>1. at # 0 /\ at \in Task /\ UNCHANGED prog
        BY OwnerIs DEF program, Task, ScopesAssumption
      <4>2. ASSUME NEW d \in {"none", "end"}, NEW output \in 0 .. N,
                   NEW s \in {Here(at), [Here(at) EXCEPT !.output = ret.output]},
                   Finish(at, output, d, s)
            PROVE  FALSE
        <5>1. s \in State
          BY <4>1, <4>2, OwnerStart
        <5> QED BY <1>2, <4>1, <4>2, <5>1, FinishesElsewhere
      <4>3. ~ PassOn /\ ~ IterationSucceeds /\ ~ StartCatch
        BY <1>2 DEF PassOn, IterationSucceeds, StartCatch, Enter
      <4> QED BY <4>2, <4>3, OwnerIs
    <3>3. ~ RequestCancel
      BY <1>2 DEF RequestCancel, control
    <3>4. RootReturns
      BY <3>1, <3>2, <3>3 DEF Next, Code, Owner, Terminated
    <3> QED BY <3>4 DEF RootReturns, Root
  <2>3. \A h : ~ Handles(h, fault)
    BY <1>2, <2>1, <2>2, AroundOK DEF Passes, Handles, BaseInv, Task, ScopesAssumption
  <2> QED BY <2>1, <2>3, HandlersAre DEF BaseInv
<1> QED
  BY <1>1, <1>2 DEF CaughtNearest

\* Whatever tasks a failure passes through, the innermost try that has the
\* failed task in its body catches it, and it is the end of the workflow only
\* if there is no such try or the workflow is being cancelled.
THEOREM NearestTryCatches == Spec => NearestCatch
<1>1. Init => BaseInv /\ FaultInv
  BY ScopesAssumption, InitBase
  DEF Init, FaultInv, FaultOnItsWay, EndSignalledAtRoot
<1>2. BaseInv /\ FaultInv /\ [Next]_vars => BaseInv' /\ FaultInv'
  BY ScopesAssumption, NextBase, NextFault
<1>3. BaseInv /\ FaultInv /\ [Next]_vars => [CaughtNearest]_vars
  BY ScopesAssumption, NextCaught
<1>4. Spec => [][CaughtNearest]_vars
  BY <1>1, <1>2, <1>3, PTL DEF Spec
<1> QED
  BY <1>4 DEF NearestCatch, CaughtNearest

-----------------------------------------------------------------------------
(* States *)

\* A list that works on a state of its own.
Own(l) == l = Root \/ prog[l[1]].kind # "do"

\* Where the pointers of the lists lead: up, past do tasks only.
PointersUp ==
  /\ \A l \in Lists : ptr[l][1] \in 0 .. N /\ ptr[l][1] =< l[1]
  /\ \A l \in Lists : Own(l) => ptr[l] = l
  /\ \A t \in Task :
       Active(t) /\ prog[t].kind = "do" => ptr[Body(t)] = ptr[ListOf(t)]

\* The state around a for or try that runs is the one that it started with.
KeptAround ==
  \A t \in Task :
    Active(t) /\ prog[t].kind \in {"for", "try"} =>
      /\ heap[ptr[ListOf(t)]].data = entry[t].data
      /\ heap[ptr[ListOf(t)]].context = entry[t].context

IsolationInv == PointersUp /\ KeptAround

\* The list that a task is in.
LEMMA ListKinds ==
  ASSUME ScopesAssumption, WellBuilt, NEW t \in Task, ListOf(t)[1] # 0
  PROVE  \/ /\ ListOf(t) = Body(ListOf(t)[1])
            /\ prog[ListOf(t)[1]].kind \in {"do", "for", "try"}
         \/ /\ ListOf(t) = Catch(ListOf(t)[1])
            /\ prog[ListOf(t)[1]].kind = "try"
<1> DEFINE o == ListOf(t)[1]
<1>1. ListOf(t) \in Lists /\ o \in Task
  BY DefinitionOK, OwnerBefore DEF Task, ScopesAssumption
<1>2. ListOf(t) = Body(o) \/ ListOf(t) = Catch(o)
  BY <1>1 DEF Lists, Root, Body, Catch
<1>3. t \in TasksOf(prog, ListOf(t))
  BY DEF TasksOf, ListOf
<1> HIDE DEF o
<1>4. /\ TasksOf(prog, Body(o)) # {} => prog[o].kind \in {"do", "for", "try"}
      /\ TasksOf(prog, Catch(o)) # {} => prog[o].kind = "try"
  BY <1>1, ProgramOK DEF Built
<1> QED
  BY <1>2, <1>3, <1>4 DEF o

\* What becomes active when the control moves.
LEMMA ActiveUp ==
  ASSUME ScopesAssumption, BaseInv, UNCHANGED prog, at \in Task,
         pc' = "return", at' = ListOf(at)[1]
  PROVE  \A t \in Task : Active(t)' => t \in Around[at]
<1>1. Around' = Around
  BY AroundKept
<1>2. Around[0] = {} /\ 0 \notin Task
  BY AroundIs DEF BaseInv, Task
<1>3. ListOf(at)[1] # 0 => Around[at] = {ListOf(at)[1]} \cup Around[ListOf(at)[1]]
  BY AroundIs DEF BaseInv
<1> QED
  BY <1>1, <1>2, <1>3 DEF Active

LEMMA ActiveAcross ==
  ASSUME ScopesAssumption, BaseInv, UNCHANGED prog, at \in Task,
         pc' = "visit", at' \in Task, ListOf(at') = ListOf(at)
  PROVE  \A t \in Task : Active(t)' => t \in Around[at]
<1>1. Around' = Around
  BY AroundKept
<1>2. Around[at'] = Around[at]
  BY AroundIs DEF BaseInv
<1> QED
  BY <1>1, <1>2 DEF Active

LEMMA ActiveDown ==
  ASSUME ScopesAssumption, BaseInv, UNCHANGED prog, at \in Task,
         pc' = "visit", at' \in Task, ListOf(at') \in {Body(at), Catch(at)}
  PROVE  \A t \in Task : Active(t)' => t \in Around[at] \/ t = at
<1>1. Around' = Around
  BY AroundKept
<1>2. ListOf(at')[1] = at /\ at # 0
  BY ListsOK DEF Task, ScopesAssumption
<1>3. Around[at'] = {at} \cup Around[at]
  BY <1>2, AroundIs DEF BaseInv
<1> QED
  BY <1>1, <1>3 DEF Active

LEMMA FinishActive ==
  ASSUME ScopesAssumption, BaseInv, UNCHANGED prog, at \in Task,
         NEW output \in 0 .. N, NEW d \in {"none", "exit", "end"}, NEW s \in State,
         Finish(at, output, d, s)
  PROVE  \A t \in Task : Active(t)' => t \in Around[at]
<1>1. CASE pc' = "return" /\ at' = ListOf(at)[1]
  BY <1>1, ActiveUp
<1>2. CASE pc' = "visit" /\ at' \in Task /\ ListOf(at') = ListOf(at)
  BY <1>2, ActiveAcross
<1> QED
  BY <1>1, <1>2, FinishIs DEF EndsList, GoesOn, Fail, Return

\* A list that is entered.
LEMMA EnterActive ==
  ASSUME ScopesAssumption, BaseInv, UNCHANGED prog, at \in Task,
         NEW l \in {Body(at), Catch(at)}, Enter(l),
         prog[at].kind \in {"do", "for", "try"},
         l = Catch(at) => prog[at].kind = "try"
  PROVE  /\ pc' = "visit" /\ at' \in Task /\ ListOf(at') = l
         /\ \A t \in Task : Active(t)' => t \in Around[at] \/ t = at
<1>1. pc' = "visit" /\ at' \in Task /\ ListOf(at') = l
  BY FirstOK, FirstInList DEF Enter, BaseInv
<1> QED
  BY <1>1, ActiveDown

\* Below a for or try task, no list works on a state from above it.
LEMMA StateBelow ==
  ASSUME ScopesAssumption, BaseInv, PointersUp, at \in Task,
         NEW t \in Around[at], prog[t].kind \in {"for", "try"}
  PROVE  t =< ptr[ListOf(at)][1]
<1> DEFINE Good(a) == t \in Around[a] => t =< ptr[ListOf(a)][1]
           S == {a \in Task : a \in {at} \cup Around[at] => Good(a)}
<1>1. ASSUME NEW a \in Task, ListOf(a)[1] = 0 \/ ListOf(a)[1] \in S,
             a \in {at} \cup Around[at], t \in Around[a]
      PROVE  t =< ptr[ListOf(a)][1]
  <2> DEFINE o == ListOf(a)[1]
  <2>1. o # 0 /\ o \in Task /\ Around[a] = {o} \cup Around[o] /\ o \in S
    BY <1>1, AroundOwner DEF BaseInv
  <2>2. o \in Around[at]
    BY <1>1, <2>1, AroundOK DEF BaseInv
  <2>3. Good(o)
    BY <2>1, <2>2
  <2>4. ListOf(a) \in Lists /\ ListOf(o) \in Lists
    BY <2>1, DefinitionOK DEF BaseInv
  <2>5. CASE prog[o].kind = "do"
    <3>1. ListOf(a) = Body(o) /\ Active(o)
      BY <2>1, <2>2, <2>5, ListKinds DEF Active, BaseInv
    <3>2. ptr[ListOf(a)] = ptr[ListOf(o)]
      BY <2>1, <2>5, <3>1 DEF PointersUp
    <3>3. t \in Around[o]
      BY <1>1, <2>1, <2>5
    <3> QED BY <2>3, <3>2, <3>3
  <2>6. CASE prog[o].kind # "do"
    <3>1. ptr[ListOf(a)] = ListOf(a)
      BY <2>4, <2>6 DEF PointersUp, Own
    <3>2. t = o \/ t < o
      BY <1>1, <2>1, AroundOK DEF BaseInv
    <3>3. t \in Nat /\ o \in Nat
      BY <2>1, AroundOK DEF BaseInv, Task, ScopesAssumption
    <3>4. t =< o
      BY <3>2, <3>3
    <3> QED BY <3>1, <3>4
  <2> QED BY <2>5, <2>6
<1>2. S = Task
  <2>1. S \in SUBSET Task
    OBVIOUS
  <2>2. \A a \in Task : ListOf(a)[1] = 0 \/ ListOf(a)[1] \in S => a \in S
    BY <1>1
  <2> HIDE DEF S
  <2> QED BY <2>1, <2>2, TreeInduction DEF BaseInv
<1> QED
  BY <1>2

\* What is written below a for or try task is not the state around it.
LEMMA WritesBelow ==
  ASSUME ScopesAssumption, BaseInv, PointersUp, at \in Task, NEW t \in Task,
         Active(t), prog[t].kind \in {"for", "try"}, NEW c,
         c \in {Body(at), Catch(at), Working(at)} \/ (c = ptr[ListOf(at)] /\ t # at)
  PROVE  c # ptr[ListOf(t)]
<1>1. ListOf(t) \in Lists /\ ListOf(t)[1] < t /\ ListOf(t)[1] \in 0 .. N
  BY DefinitionOK, OwnerBefore DEF BaseInv
<1>2. ptr[ListOf(t)][1] < t /\ ptr[ListOf(t)][1] \in 0 .. N
  BY <1>1 DEF PointersUp, Task, ScopesAssumption
<1>3. t =< at
  BY AroundOK DEF Active, BaseInv, Task, ScopesAssumption
<1>4. CASE c \in {Body(at), Catch(at), Working(at)}
  <2>1. Body(at)[1] = at /\ Catch(at)[1] = at /\ Working(at)[1] = at
    BY DEF Body, Catch, Working
  <2>2. c[1] = at
    BY <1>4, <2>1
  <2> QED BY <1>2, <1>3, <2>2 DEF Task, ScopesAssumption
<1>5. CASE c = ptr[ListOf(at)] /\ t # at
  <2>1. t =< ptr[ListOf(at)][1]
    BY <1>5, StateBelow DEF Active
  <2> QED BY <1>2, <1>5, <2>1 DEF Task, ScopesAssumption
<1> QED
  BY <1>4, <1>5

Visits == VisitDo \/ VisitTry \/ VisitFor

\* A task becomes active when it is visited.
LEMMA StepActive ==
  ASSUME ScopesAssumption, BaseInv, Next
  PROVE  \A t \in Task : Active(t)' => Active(t) \/ (t = at /\ Visits)
<1>1. UNCHANGED prog
  BY DEF Next, Code, Start, VisitLeaf, RejectTask, VisitDo, VisitTry, VisitFor, Leaf,
         LeafReturns, LeafFails, LeafCancelled, Loop, StartIteration, EndLoop,
         LoopFails, Owner, DoReturns, ForReturns, TryReturns, RootReturns,
         RequestCancel, Terminated, program, vars
<1>2. CASE Start \/ Leaf \/ Loop
  <2>1. pc \in {"visit", "leaf", "iterate"} /\ at \in Task /\ at \in 0 .. N
    BY <1>2, OtherSteps DEF Task, ScopesAssumption
  <2>2. CASE VisitLeaf
    <3>1. Around' = Around
      BY <1>1, AroundKept
    <3> QED BY <2>2, <3>1 DEF VisitLeaf, Active
  <2>3. CASE VisitFor
    <3>1. Around' = Around
      BY <1>1, AroundKept
    <3> QED BY <2>3, <3>1 DEF VisitFor, Active, Visits
  <2>4. CASE VisitDo \/ VisitTry
    <3>1. prog[at].kind \in {"do", "try"} /\ Enter(Body(at))
      BY <2>4 DEF VisitDo, VisitTry, Visit
    <3> QED BY <1>1, <2>1, <2>4, <3>1, ListsOK, EnterActive DEF Active, Visits
  <2>5. CASE StartIteration
    <3>1. prog[at].kind = "for" /\ Enter(Body(at)) /\ pc = "iterate"
      BY <2>5, Parts DEF StartIteration, ControlOK
    <3> QED BY <1>1, <2>1, <3>1, ListsOK, EnterActive DEF Active
  <2>6. CASE \E how \in {"failed", "canceled"} : Fail(at, how)
    BY <1>1, <2>1, <2>6, ActiveUp DEF Fail, Return, Active
  <2>7. CASE \E d \in {"none", "exit", "end"}, s \in State : Finish(at, at, d, s)
    BY <1>1, <2>1, <2>7, FinishActive DEF Active
  <2> QED BY <1>2, <2>2, <2>3, <2>4, <2>5, <2>6, <2>7, OtherSteps
<1>3. CASE DoReturns \/ ForReturns \/ TryReturns
  <2>1. pc = "return" /\ at \in Task /\ at # 0
    BY <1>3, OwnerIs DEF Task, ScopesAssumption
  <2>2. ASSUME NEW d \in {"none", "end"}, NEW output \in 0 .. N,
               NEW s \in {Here(at), [Here(at) EXCEPT !.output = ret.output]},
               Finish(at, output, d, s)
        PROVE  \A t \in Task : Active(t)' => Active(t)
    <3>1. s \in State
      BY <2>1, <2>2, OwnerStart
    <3> QED BY <1>1, <2>1, <2>2, <3>1, FinishActive DEF Active
  <2>3. CASE PassOn
    BY <1>1, <2>1, <2>3, ActiveUp DEF PassOn, Active
  <2>4. CASE IterationSucceeds
    <3>1. Around' = Around
      BY <1>1, AroundKept
    <3> QED BY <2>1, <2>4, <3>1 DEF IterationSucceeds, Active
  <2>5. CASE StartCatch /\ prog[at].kind = "try"
    BY <1>1, <2>1, <2>5, EnterActive DEF StartCatch, Active
  <2> QED BY <1>3, <2>2, <2>3, <2>4, <2>5, OwnerIs
<1>4. CASE RootReturns \/ RequestCancel \/ Terminated
  <2>1. Around' = Around
    BY <1>1, AroundKept
  <2> QED BY <1>4, <2>1
          DEF RootReturns, RequestCancel, Terminated, vars, control, Active
<1> QED
  BY <1>2, <1>3, <1>4 DEF Next, Code, Owner

\* Only a do task that is visited changes a pointer.
LEMMA NextPointers ==
  ASSUME ScopesAssumption, BaseInv, PointersUp, [Next]_vars
  PROVE  PointersUp'
<1>1. CASE VisitDo
  <2>1. at \in Task /\ pc = "visit" /\ prog[at].kind = "do" /\ UNCHANGED prog
        /\ ptr' = [ptr EXCEPT ![Body(at)] = ptr[ListOf(at)]]
        /\ ptr \in [Lists -> Cells]
    BY <1>1, Parts DEF VisitDo, Visit, ControlOK, DataOK, program
  <2>2. /\ ListOf(at) \in Lists /\ ListOf(at)[1] < at /\ ListOf(at)[1] \in 0 .. N
        /\ Body(at) \in Lists /\ Body(at)[1] = at /\ at \in Nat
    BY <2>1, DefinitionOK, OwnerBefore, ListsOK DEF BaseInv, Task, ScopesAssumption
  <2>3. \A l \in Lists : ptr'[l] = IF l = Body(at) THEN ptr[ListOf(at)] ELSE ptr[l]
    BY <2>1
  <2>4. ptr'[ListOf(at)] = ptr[ListOf(at)]
    BY <2>2, <2>3
  <2>5. \A l \in Lists : ptr'[l][1] \in 0 .. N /\ ptr'[l][1] =< l[1]
    BY <2>2, <2>3 DEF PointersUp
  <2>6. \A l \in Lists : Own(l) => ptr'[l] = l
    <3>1. ~ Own(Body(at))
      BY <2>1, <2>2, ListsOK DEF Own
    <3> QED BY <2>3, <3>1 DEF PointersUp
  <2>7. ASSUME NEW t \in Task, Active(t)', prog[t].kind = "do"
        PROVE  ptr'[Body(t)] = ptr'[ListOf(t)]
    <3>1. CASE t = at
      BY <2>2, <2>3, <2>4, <3>1
    <3>2. CASE t # at
      <4>1. Active(t) /\ t \in Around[at] /\ t < at
        BY <1>1, <2>1, <2>7, <3>2, StepActive, AroundOK
        DEF Active, BaseInv, Next, Code, Start
      <4>2. /\ Body(t) # Body(at) /\ ListOf(t) # Body(at)
            /\ Body(t) \in Lists /\ ListOf(t) \in Lists
        BY <2>2, <3>2, <4>1, ListsOK, DefinitionOK, OwnerBefore
        DEF BaseInv, Task, ScopesAssumption
      <4> QED BY <2>3, <2>7, <4>1, <4>2 DEF PointersUp
    <3> QED BY <3>1, <3>2
  <2> QED BY <2>1, <2>5, <2>6, <2>7 DEF PointersUp, Own, Body, ListOf
<1>2. CASE Next /\ ~ VisitDo
  <2>1. UNCHANGED <<prog, ptr>>
    BY <1>2 DEF Next, Code, Start, VisitLeaf, RejectTask, VisitTry, VisitFor, Leaf,
         LeafReturns, LeafFails, LeafCancelled, Loop, StartIteration, EndLoop,
         LoopFails, Owner, DoReturns, ForReturns, TryReturns, RootReturns,
         RequestCancel, Terminated, program, vars
  <2>2. \A t \in Task : Active(t)' /\ prog[t].kind = "do" => Active(t)
    <3>1. ASSUME Visits
          PROVE  prog[at].kind # "do"
      BY <1>2, <3>1 DEF Visits, VisitTry, VisitFor, Visit
    <3> QED BY <1>2, <3>1, StepActive
  <2> QED BY <2>1, <2>2 DEF PointersUp, Own, Body, ListOf
<1>3. CASE UNCHANGED vars
  <2>1. UNCHANGED <<prog, ptr, pc, at>>
    BY <1>3 DEF vars, program, control
  <2>2. Around' = Around
    BY <2>1, AroundKept
  <2> QED BY <2>1, <2>2 DEF PointersUp, Own, Body, ListOf, Active
<1> QED
  BY <1>1, <1>2, <1>3

\* What for or try task t leaves of the state around it as it returns.
LeavesAround(t) ==
  /\ heap'[ptr[ListOf(t)]].data = heap[ptr[ListOf(t)]].data
  /\ heap'[ptr[ListOf(t)]].context \in {heap[ptr[ListOf(t)]].context} \cup MayExport(t)

\* A step leaves the state around a for or try that is active as it is, unless
\* it is the one in which that task returns.
LEMMA StepWrites ==
  ASSUME ScopesAssumption, BaseInv, PointersUp, Next,
         NEW t \in Task, Active(t), prog[t].kind \in {"for", "try"}
  PROVE  \/ heap'[ptr[ListOf(t)]] = heap[ptr[ListOf(t)]]
         \/ LeavesAround(t) /\ ~ Active(t)'
<1> DEFINE around == ptr[ListOf(t)]
           Same == heap'[around] = heap[around]
<1>1. at # 0 => at \in Task
  BY Parts DEF ControlOK, Task, ScopesAssumption
<1>2. at \in Task
  <2>1. Around[0] = {} /\ 0 \notin Task
    BY AroundIs DEF BaseInv, Task
  <2> QED BY <1>1, <2>1, Parts DEF Active, ControlOK, Task, ScopesAssumption
<1>3. heap \in [Cells -> State] /\ around \in Cells
  BY Parts, DefinitionOK DEF DataOK, BaseInv
<1>4. \A c, v : /\ heap' = [heap EXCEPT ![c] = v]
                /\ c \in {Body(at), Catch(at), Working(at)} \/ (c = ptr[ListOf(at)] /\ t # at)
                => Same
  <2> SUFFICES ASSUME NEW c, NEW v, heap' = [heap EXCEPT ![c] = v],
                      c \in {Body(at), Catch(at), Working(at)}
                        \/ (c = ptr[ListOf(at)] /\ t # at)
               PROVE  Same
    OBVIOUS
  <2>1. c # around
    BY <1>2, WritesBelow
  <2> QED BY <1>3, <2>1
<1>5. CASE Start \/ Leaf \/ Loop
  <2>1. at \in 0 .. N /\ (pc \in {"visit", "leaf"} => t # at) /\ pc # "return"
        /\ UNCHANGED prog
    <3>1. pc \in {"visit", "leaf", "iterate"} /\ UNCHANGED prog
      BY <1>5, OtherSteps DEF program
    <3>2. t \in Around[at] => t # at
      BY <1>2, AroundOK DEF BaseInv, Task, ScopesAssumption
    <3> QED BY <1>2, <3>1, <3>2 DEF Active, Task, ScopesAssumption
  <2>2. CASE VisitLeaf \/ VisitDo \/ \E how : Fail(at, how) /\ UNCHANGED heap
    BY <2>2 DEF VisitLeaf, VisitDo
  <2>3. CASE VisitTry \/ VisitFor \/ StartIteration
    <3>1. \E c \in {Body(at), Working(at)} : \E v : heap' = [heap EXCEPT ![c] = v]
      BY <2>3 DEF VisitTry, VisitFor, StartIteration
    <3> QED BY <1>4, <3>1
  <2>4. ASSUME NEW d \in {"none", "exit", "end"}, NEW s \in State,
               Finish(at, at, d, s), pc \in {"leaf", "iterate"},
               pc = "iterate" => s = [Here(at) EXCEPT !.output = at]
        PROVE  Same \/ (LeavesAround(t) /\ ~ Active(t)')
    <3>1. PICK c : LeavesState(at, at, d, s, c)
      BY <1>2, <2>1, <2>4, FinishIs
    <3>2. heap' = [heap EXCEPT ![ptr[ListOf(at)]] = c]
      BY <3>1 DEF LeavesState
    <3>3. CASE t # at
      BY <1>4, <3>2, <3>3
    <3>4. CASE t = at
      <4>1. Here(t) \in State /\ s.data = Here(t).data /\ s.context = Here(t).context
        BY <2>1, <2>4, <3>4, StateOK DEF State
      <4>2. heap'[around] = c
        BY <1>3, <3>2, <3>4
      <4>3. LeavesAround(t)
        BY <3>1, <3>4, <4>1, <4>2 DEF LeavesState, LeavesAround, Here
      <4>4. t \notin Around[t]
        BY AroundOK DEF BaseInv, Task, ScopesAssumption
      <4>5. ~ Active(t)'
        BY <1>2, <2>1, <2>4, <3>4, <4>4, FinishActive
      <4> QED BY <4>3, <4>5
    <3> QED BY <3>3, <3>4
  <2> QED BY <1>5, <2>2, <2>3, <2>4, OtherSteps
<1>6. CASE DoReturns \/ ForReturns \/ TryReturns
  <2>1. UNCHANGED prog /\ at # 0
    BY <1>6, OwnerIs DEF program, Task, ScopesAssumption
  <2>2. ASSUME NEW d \in {"none", "end"}, NEW output \in 0 .. N,
               NEW s \in {Here(at), [Here(at) EXCEPT !.output = ret.output]},
               Finish(at, output, d, s)
        PROVE  Same \/ (LeavesAround(t) /\ ~ Active(t)')
    <3>1. s \in State
      BY <2>1, <2>2, OwnerStart
    <3>2. PICK c : LeavesState(at, output, d, s, c)
      BY <1>2, <2>2, <3>1, FinishIs
    <3>3. heap' = [heap EXCEPT ![ptr[ListOf(at)]] = c]
      BY <3>2 DEF LeavesState
    <3>4. CASE t # at
      BY <1>4, <3>3, <3>4
    <3>5. CASE t = at
      <4>1. s.data = Here(t).data /\ s.context = Here(t).context
        BY <2>2, <3>5, StateOK DEF State
      <4>2. heap'[around] = c
        BY <1>3, <3>3, <3>5
      <4>3. LeavesAround(t)
        BY <3>2, <3>5, <4>1, <4>2 DEF LeavesState, LeavesAround, Here
      <4>4. t \notin Around[t]
        BY AroundOK DEF BaseInv, Task, ScopesAssumption
      <4>5. ~ Active(t)'
        BY <1>2, <2>1, <2>2, <3>1, <3>5, <4>4, FinishActive
      <4> QED BY <4>3, <4>5
    <3> QED BY <3>4, <3>5
  <2>3. CASE PassOn
    BY <2>3 DEF PassOn
  <2>4. CASE IterationSucceeds \/ StartCatch
    <3>1. \E c \in {Catch(at), Working(at)} : \E v : heap' = [heap EXCEPT ![c] = v]
      BY <2>4 DEF IterationSucceeds, StartCatch
    <3> QED BY <1>4, <3>1
  <2> QED BY <1>6, <2>2, <2>3, <2>4, OwnerIs
<1>7. CASE RootReturns \/ RequestCancel \/ Terminated
  BY <1>7 DEF RootReturns, RequestCancel, Terminated, vars
<1> QED
  BY <1>5, <1>6, <1>7 DEF Next, Code, Owner

\* What is remembered of the state around a task is what it is visited with.
LEMMA StepRemembers ==
  ASSUME ScopesAssumption, BaseInv, Next
  PROVE  \/ entry' = entry
         \/ Visits /\ at \in Task /\ entry' = [entry EXCEPT ![at] = Here(at)]
<1>1. CASE Visits
  BY <1>1, Parts DEF Visits, VisitDo, VisitTry, VisitFor, Visit, Remember, ControlOK
<1>2. CASE ~ Visits
  BY <1>2
  DEF Visits, Next, Code, Start, VisitLeaf, RejectTask, Leaf,
         LeafReturns, LeafFails, LeafCancelled, Loop, StartIteration, EndLoop,
         LoopFails, Owner, DoReturns, ForReturns, TryReturns, RootReturns,
         RequestCancel, Terminated, program, vars, history
<1> QED
  BY <1>1, <1>2

LEMMA NextKept ==
  ASSUME ScopesAssumption, BaseInv, IsolationInv, Next
  PROVE  KeptAround'
<1>1. PointersUp /\ KeptAround /\ PointersUp' /\ entry \in [Task -> State]
      /\ heap \in [Cells -> State]
  BY NextPointers, Parts DEF IsolationInv, DataOK
<1>2. UNCHANGED prog
  BY DEF Next, Code, Start, VisitLeaf, RejectTask, VisitDo, VisitTry, VisitFor, Leaf,
         LeafReturns, LeafFails, LeafCancelled, Loop, StartIteration, EndLoop,
         LoopFails, Owner, DoReturns, ForReturns, TryReturns, RootReturns,
         RequestCancel, Terminated, program, vars
<1>3. ASSUME NEW t \in Task, Active(t)', prog[t].kind \in {"for", "try"}
      PROVE  /\ ptr'[ListOf(t)] = ptr[ListOf(t)]
             /\ heap'[ptr[ListOf(t)]].data = entry'[t].data
             /\ heap'[ptr[ListOf(t)]].context = entry'[t].context
  <2>1. ListOf(t) \in Lists /\ ListOf(t)[1] < t /\ ListOf(t)[1] \in 0 .. N /\ t \in Nat
    BY DefinitionOK, OwnerBefore DEF BaseInv, Task, ScopesAssumption
  <2>2. at \in Task => t =< at \/ ~ Active(t)
    BY AroundOK DEF Active, BaseInv, Task, ScopesAssumption
  <2>3. ptr'[ListOf(t)] = ptr[ListOf(t)]
    <3>1. CASE VisitDo
      <4>1. at \in Task /\ prog[at].kind = "do" /\ ptr \in [Lists -> Cells]
            /\ ptr' = [ptr EXCEPT ![Body(at)] = ptr[ListOf(at)]]
        BY <3>1, Parts DEF VisitDo, Visit, ControlOK, DataOK
      <4>2. Active(t)
        BY <1>3, <4>1, StepActive
      <4>3. ListOf(t) # Body(at)
        BY <2>1, <2>2, <4>1, <4>2, ListsOK DEF Task, ScopesAssumption
      <4> QED BY <2>1, <4>1, <4>3
    <3>2. CASE ~ VisitDo
      BY <3>2 DEF Next, Code, Start, VisitLeaf, RejectTask, VisitTry, VisitFor, Leaf,
         LeafReturns, LeafFails, LeafCancelled, Loop, StartIteration, EndLoop,
         LoopFails, Owner, DoReturns, ForReturns, TryReturns, RootReturns,
         RequestCancel, Terminated, program, vars
    <3> QED BY <3>1, <3>2
  <2>4. CASE Active(t) /\ ~ (t = at /\ Visits)
    <3>1. heap'[ptr[ListOf(t)]] = heap[ptr[ListOf(t)]]
      BY <1>1, <1>3, <2>4, StepWrites
    <3>2. entry'[t] = entry[t]
      BY <1>1, <2>4, StepRemembers
    <3> QED BY <1>1, <1>3, <2>3, <2>4, <3>1, <3>2 DEF KeptAround
  <2>5. CASE t = at /\ Visits
    <3>1. VisitTry \/ VisitFor
      BY <1>3, <2>5 DEF Visits, VisitDo, Visit
    <3>2. entry'[t] = heap[ptr[ListOf(t)]]
      BY <1>1, <2>5, <3>1 DEF VisitTry, VisitFor, Remember, Here
    <3>3. ptr[ListOf(t)] \notin {Body(at), Working(at)} /\ ptr[ListOf(t)] \in Cells
      <4>1. ptr[ListOf(t)][1] < at
        BY <1>1, <2>1, <2>5 DEF PointersUp
      <4>2. Body(at)[1] = at /\ Working(at)[1] = at /\ at \in Nat
        BY <2>1, <2>5 DEF Body, Working
      <4> QED BY <4>1, <4>2, StateOK
    <3>4. heap'[ptr[ListOf(t)]] = heap[ptr[ListOf(t)]]
      BY <1>1, <3>1, <3>3 DEF VisitTry, VisitFor
    <3> QED BY <2>3, <3>2, <3>4
  <2> QED BY <1>3, <2>4, <2>5, StepActive
<1> QED
  BY <1>2, <1>3 DEF KeptAround, ListOf

\* The step of Isolated.
LeftAlone ==
  \A t \in Task :
    Active(t) /\ prog[t].kind \in {"for", "try"} =>
      LET s == heap'[ptr[ListOf(t)]] IN
      /\ s.data = entry[t].data
      /\ s.context \in {entry[t].context} \cup IF prog[t].exports THEN {t} ELSE {}

LEMMA NextIsolation ==
  ASSUME ScopesAssumption, BaseInv, IsolationInv, [Next]_vars
  PROVE  IsolationInv' /\ [LeftAlone]_vars
<1>1. CASE Next
  <2>1. LeftAlone
    BY <1>1, StepWrites DEF LeftAlone, LeavesAround, MayExport, IsolationInv, KeptAround
  <2> QED BY <1>1, <2>1, NextPointers, NextKept DEF IsolationInv
<1>2. CASE UNCHANGED vars
  <2>1. UNCHANGED <<prog, ptr, pc, at, heap, entry>>
    BY <1>2 DEF vars, program, control, history
  <2>2. Around' = Around
    BY <2>1, AroundKept
  <2>3. KeptAround'
    BY <2>1, <2>2 DEF IsolationInv, KeptAround, ListOf, Active
  <2> QED BY <1>2, <2>3, NextPointers DEF IsolationInv
<1> QED
  BY <1>1, <1>2

LEMMA InitIsolation ==
  ASSUME ScopesAssumption, Init
  PROVE  IsolationInv
<1>1. BaseInv /\ at \in Task /\ ListOf(at) = Root /\ pc = "visit"
  <2>1. BaseInv
    BY InitBase
  <2>2. TasksOf(prog, Root) # {} /\ TasksOf(prog, Root) \in SUBSET Task
    BY <2>1, ProgramOK DEF Built, BaseInv, TasksOf
  <2>3. at \in TasksOf(prog, Root)
    BY <2>2, MinIsMember DEF Init, First
  <2> QED BY <2>1, <2>3 DEF Init, TasksOf, ListOf
<1>2. \A t \in Task : ~ Active(t)
  <2>1. ListOf(at)[1] = 0
    BY <1>1 DEF Root
  <2>2. Around[at] = {}
    BY <1>1, <2>1, AroundIs DEF BaseInv
  <2> QED BY <1>1, <2>2 DEF Active
<1>3. \A l \in Lists : ptr[l] = l /\ l[1] \in 0 .. N
  BY OwnerOK DEF Init
<1> QED
  BY <1>2, <1>3 DEF IsolationInv, PointersUp, KeptAround, ScopesAssumption

\* However lists and their clones of the state are nested, what runs inside a
\* for or a try changes nothing of the $context and $data around it, and the
\* task itself, when it returns, at most exports.
THEOREM BodiesAreIsolated == Spec => Isolated
<1>1. Init => BaseInv /\ IsolationInv
  BY ScopesAssumption, InitBase, InitIsolation
<1>2. BaseInv /\ IsolationInv /\ [Next]_vars
        => BaseInv' /\ IsolationInv' /\ [LeftAlone]_vars
  BY ScopesAssumption, NextBase, NextIsolation
<1>3. Spec => [][LeftAlone]_vars
  BY <1>1, <1>2, PTL DEF Spec
<1> QED
  BY <1>3 DEF Isolated, LeftAlone

-----------------------------------------------------------------------------
(* The end of the workflow *)

MayEnd(t) == prog[t].then = "end" \/ prog[t].kind = "route"

\* In a workflow without a parent, `end` does not get out of the do tasks that
\* lead the root's list, and so the program has none there. See the run
\* end_in_do.
EndsOutsideDo ==
  isRoot =>
    \A u \in Task : \A t \in Around[u] :
      prog[t].kind = "do" /\ ~ prog[t].nested => ~ MayEnd(u)

\* Task a is around u, and what ends a is made into the output of a.
Shapes(a, u) == a \in Around[u] /\ prog[a].shapes /\ prog[a].nested

\* What becomes of output w, that u ended with, on the way to a list of b: the
\* outermost task so far has made v of it.
MadeOutput(v, u, w, b) ==
  \/ v = w /\ \A a \in Task : Shapes(a, u) => a =< b
  \/ Shapes(v, u) /\ b < v /\ \A a \in Task : Shapes(a, u) /\ b < a => v =< a

\* While an `end` is on its way, each list on the way returns it.
EndOnItsWay ==
  raised # NotRaised =>
    /\ pc \in {"return", "closed"}
    /\ raised.task \in Task /\ MayEnd(raised.task)
    /\ OnPath(raised.task, ret.list)
    /\ \/ ret.outcome \in {"end", "endSignalled"}
       \/ ret.list = Root /\ ret.outcome = "ok"
    /\ ~ cancelReq => MadeOutput(ret.output, raised.task, raised.output, ret.list[1])

\* Nothing else is an `end`, and it is one that a nested list returns.
EndIsRaised ==
  pc \in {"return", "closed"} =>
    /\ ret.outcome \in {"end", "endSignalled"} => raised # NotRaised
    /\ ret.outcome = "end" => Nested(ret.list)

ClosesAtRoot == pc = "closed" => ret.list = Root

\* A list that has not failed returns the output in its state.
OutputKept ==
  pc = "return" /\ ret.outcome \in {"ok", "end"} =>
    ret.output = heap[ptr[ret.list]].output

EndInv == EndOnItsWay /\ EndIsRaised /\ EndSignalledAtRoot /\ ClosesAtRoot

LEMMA EndPrimed ==
  ASSUME UNCHANGED program, pc' \in {"return", "closed"},
         raised'.task \in Task, MayEnd(raised'.task),
         OnPath(raised'.task, ret'.list),
         \/ ret'.outcome \in {"end", "endSignalled"}
         \/ ret'.list = Root /\ ret'.outcome = "ok",
         ~ cancelReq' =>
           MadeOutput(ret'.output, raised'.task, raised'.output, ret'.list[1])
  PROVE  EndOnItsWay'
<1>1. UNCHANGED prog
  BY DEF program
<1>2. Around' = Around /\ \A t : ListOf(t)' = ListOf(t)
  BY <1>1, AroundKept
<1> QED
  BY <1>1, <1>2 DEF EndOnItsWay, MayEnd, OnPath, MadeOutput, Shapes

\* What a list that has the ending task in it returns.
LEMMA EndExecuted ==
  ASSUME ScopesAssumption, BaseInv, EndsOutsideDo, NEW u \in Task, MayEnd(u),
         NEW l \in Lists, OnPath(u, l)
  PROVE  /\ \/ Executed(l, "end") \in {"end", "endSignalled"}
            \/ l = Root /\ Executed(l, "end") = "ok"
         /\ Executed(l, "end") = "end" => Nested(l)
         /\ Executed(l, "end") = "endSignalled" => ~ Nested(l)
<1>1. ASSUME isRoot, ~ Nested(l), l # Root
      PROVE  FALSE
  <2>1. PICK v \in {u} \cup Around[u] : ListOf(v) = l
    BY DEF OnPath
  <2>2. v \in Task
    BY AroundOK DEF BaseInv
  <2>3. l[1] # 0
    BY <1>1 DEF Lists, Root, Task
  <2>4. l[1] \in Around[u] /\ l[1] \in Task
    BY <2>3, PathUp DEF BaseInv
  <2>5. ~ prog[l[1]].nested /\ prog[l[1]].kind = "do"
    <3>1. l = Body(l[1]) \/ l = Catch(l[1])
      BY <2>1, <2>2, <2>3, ListKinds DEF BaseInv
    <3>2. ~ prog[l[1]].nested
      BY <1>1, <2>4, <3>1, NestedOK DEF BaseInv
    <3> QED BY <2>1, <2>2, <2>3, <2>4, <3>2, ListKinds, NestedOK DEF BaseInv
  <2> QED BY <1>1, <2>4, <2>5 DEF EndsOutsideDo
<1> QED
  BY <1>1 DEF Executed, BaseInv, TypeOK

\* One task further up.
LEMMA MadeUp ==
  ASSUME ScopesAssumption, BaseInv, NEW u \in Task, NEW t \in Around[u],
         NEW v, NEW w, MadeOutput(v, u, w, t)
  PROVE  MadeOutput(IF Shapes(t, u) THEN t ELSE v, u, w, ListOf(t)[1])
<1> DEFINE o == ListOf(t)[1]
<1>1. \A a \in Around[u] : o < a <=> t = a \/ t < a
  BY PathGap DEF BaseInv
<1>2. \A a : Shapes(a, u) => a \in Around[u] /\ a \in Nat
  BY AroundOK DEF Shapes, BaseInv, Task, ScopesAssumption
<1>3. t \in Task /\ t \in Nat /\ o \in Nat /\ o < t
  BY AroundOK, OwnerBefore DEF BaseInv, Task, ScopesAssumption
<1>4. CASE Shapes(t, u)
  <2>1. \A a \in Task : Shapes(a, u) /\ o < a => t =< a
    BY <1>1, <1>2, <1>3
  <2> HIDE DEF o
  <2> QED BY <1>3, <1>4, <2>1 DEF MadeOutput, o
<1>5. CASE ~ Shapes(t, u)
  <2>1. \A a \in Task : Shapes(a, u) => (o < a <=> t < a) /\ (a =< o <=> a =< t)
    <3> HIDE DEF o
    <3> QED BY <1>1, <1>2, <1>3, <1>5
  <2>2. \A a : Shapes(a, u) => a \in Task
    BY AroundOK DEF Shapes, BaseInv
  <2> HIDE DEF o
  <2>3. MadeOutput(v, u, w, o)
    BY <2>1, <2>2 DEF MadeOutput
  <2> QED BY <1>5, <2>3 DEF o
<1> QED
  BY <1>4, <1>5

\* A step after which no `end` is on its way.
LEMMA NoEnd ==
  ASSUME raised' = NotRaised,
         \/ pc' \in {"visit", "leaf", "iterate"}
         \/ pc' = "return" /\ ret'.outcome \notin {"end", "endSignalled"}
  PROVE  EndInv'
BY DEF EndInv, EndOnItsWay, EndIsRaised, EndSignalledAtRoot, ClosesAtRoot, NotRaised

\* Where the ending task's list, or an owner's above it, returns.
LEMMA EndsUp ==
  ASSUME ScopesAssumption, BaseInv, EndsOutsideDo, UNCHANGED program,
         NEW t \in Task, NEW v, EndsList(t, v),
         raised'.task \in Task, raised' # NotRaised, MayEnd(raised'.task),
         OnPath(raised'.task, ListOf(t)),
         ~ cancelReq' => MadeOutput(v, raised'.task, raised'.output, ListOf(t)[1])
  PROVE  EndInv'
<1>1. /\ pc' = "return" /\ ret'.list = ListOf(t) /\ ret'.output = v
      /\ ret'.outcome = Executed(ListOf(t), "end")
  BY DEF EndsList, Return
<1>2. ListOf(t) \in Lists
  BY DefinitionOK DEF BaseInv
<1>3. /\ \/ ret'.outcome \in {"end", "endSignalled"}
         \/ ret'.list = Root /\ ret'.outcome = "ok"
      /\ ret'.outcome = "end" => Nested(ListOf(t))
      /\ ret'.outcome = "endSignalled" => ~ Nested(ListOf(t))
  BY <1>1, <1>2, EndExecuted
<1>4. EndOnItsWay'
  BY <1>1, <1>3, EndPrimed
<1>5. Nested(ListOf(t)) <=> Nested(ret.list)'
  BY <1>1 DEF Nested, program
<1> QED
  BY <1>1, <1>3, <1>4, <1>5
  DEF EndInv, EndIsRaised, EndSignalledAtRoot, ClosesAtRoot

\* A task finishes when nothing is on its way, perhaps with an `end`.
LEMMA FinishRaises ==
  ASSUME ScopesAssumption, BaseInv, EndsOutsideDo, UNCHANGED program,
         raised = NotRaised, NEW t \in Task, NEW output \in 0 .. N,
         NEW d \in {"none", "exit", "end"}, NEW s \in State,
         Directs(t, d) => MayEnd(t),
         Finish(t, output, d, s)
  PROVE  EndInv'
<1>1. PICK c : \/ Fail(t, "failed")
               \/ Directs(t, d) /\ EndsList(t, c.output)
               \/ d # "end" /\ GoesOn(t, c.output)
  BY FinishIs
<1>2. CASE Fail(t, "failed")
  BY <1>2, FailOK, NoEnd
<1>3. CASE Directs(t, d) /\ EndsList(t, c.output)
  <2>1. raised' = [task |-> t, output |-> c.output] /\ raised' # NotRaised
    BY <1>3 DEF EndsList, NotRaised, Task, ScopesAssumption
  <2>2. MadeOutput(c.output, t, c.output, ListOf(t)[1])
    <3> SUFFICES ASSUME NEW a \in Task, Shapes(a, t)
                 PROVE  a =< ListOf(t)[1]
      BY DEF MadeOutput
    <3>1. ListOf(t)[1] \in Task /\ Around[t] = {ListOf(t)[1]} \cup Around[ListOf(t)[1]]
      BY AroundOwner DEF Shapes, BaseInv
    <3> QED BY <3>1, AroundOK DEF Shapes, BaseInv, Task, ScopesAssumption
  <2> QED BY <1>3, <2>1, <2>2, PathStart, EndsUp
<1>4. CASE d # "end" /\ GoesOn(t, c.output)
  BY <1>4, NoEnd DEF GoesOn, Return, Executed
<1> QED
  BY <1>1, <1>2, <1>3, <1>4

\* An owner passes an `end` on.
LEMMA FinishEnds ==
  ASSUME ScopesAssumption, BaseInv, EndInv, EndsOutsideDo, UNCHANGED <<program, cancelReq>>,
         pc = "return", at # 0, ret.outcome = "end",
         NEW output \in 0 .. N, NEW s \in State,
         ~ cancelReq => s.output = ret.output,
         Finish(at, output, "end", s)
  PROVE  EndInv'
<1> DEFINE u == raised.task
           w == raised.output
<1>1. /\ at \in Task /\ at = ret.list[1] /\ ret.list \in Lists
      /\ ret.list = Body(at) \/ ret.list = Catch(at)
  <2>1. at \in Task /\ at = ret.list[1] /\ ret.list \in Lists
    BY OwnerStart, Parts DEF ControlOK
  <2> QED BY <2>1 DEF Lists, Root, Body, Catch, Task, ScopesAssumption
<1>2. /\ raised # NotRaised /\ u \in Task /\ MayEnd(u) /\ OnPath(u, ret.list)
      /\ Nested(ret.list)
      /\ ~ cancelReq => MadeOutput(ret.output, u, w, at)
  BY <1>1 DEF EndInv, EndOnItsWay, EndIsRaised
<1>3. at \in Around[u] /\ OnPath(u, ListOf(at)) /\ prog[at].nested
  BY <1>1, <1>2, PathUp, NestedOK DEF BaseInv
<1>4. PICK c : /\ LeavesState(at, output, "end", s, c)
               /\ Fail(at, "failed") \/ EndsList(at, c.output)
  BY <1>1, FinishIs
<1>5. CASE Fail(at, "failed")
  BY <1>1, <1>5, FailOK, NoEnd
<1>6. CASE EndsList(at, c.output)
  <2>1. raised' = raised
    BY <1>2, <1>6 DEF EndsList
  <2>2. c.output = IF Shapes(at, u) THEN at ELSE s.output
    BY <1>3, <1>4 DEF LeavesState, Shapes
  <2>3. ~ cancelReq => MadeOutput(c.output, u, w, ListOf(at)[1])
    BY <1>2, <1>3, <2>2, MadeUp
  <2> QED BY <1>1, <1>2, <1>3, <1>6, <2>1, <2>3, EndsUp
<1> QED
  BY <1>4, <1>5, <1>6

\* What the parent takes for an `end` is passed on as it is.
LEMMA PassOnEnd ==
  ASSUME ScopesAssumption, BaseInv, EndInv, UNCHANGED <<program, cancelReq>>,
         pc = "return", at # 0, ret.outcome \in Failure, PassOn,
         prog[at].kind \in {"do", "for", "try"}
  PROVE  EndInv'
<1>1. /\ pc' = "return" /\ ret' = [ret EXCEPT !.list = ListOf(at)] /\ raised' = raised
  BY DEF PassOn
<1>2. /\ at \in Task /\ at = ret.list[1] /\ ret.list \in Lists
      /\ ret.list = Body(at) \/ ret.list = Catch(at)
      /\ ret \in [list : Lists, outcome : Outcome, output : 0 .. N]
  <2>1. at \in Task /\ at = ret.list[1] /\ ret.list \in Lists
        /\ ret \in [list : Lists, outcome : Outcome, output : 0 .. N]
    BY OwnerStart, Parts DEF ControlOK
  <2> QED BY <2>1 DEF Lists, Root, Body, Catch, Task, ScopesAssumption
<1>3. /\ ret'.list = ListOf(at) /\ ret'.outcome = ret.outcome
      /\ ret'.output = ret.output
  BY <1>1, <1>2
<1>4. CASE ret.outcome = "endSignalled"
  <2> DEFINE u == raised.task
             w == raised.output
  <2>1. /\ raised # NotRaised /\ u \in Task /\ MayEnd(u) /\ OnPath(u, ret.list)
        /\ ~ Nested(ret.list)
        /\ ~ cancelReq => MadeOutput(ret.output, u, w, at)
    BY <1>2, <1>4 DEF EndInv, EndOnItsWay, EndIsRaised, EndSignalledAtRoot
  <2>2. at \in Around[u] /\ OnPath(u, ListOf(at))
    BY <1>2, <2>1, PathUp DEF BaseInv
  <2>3. ~ prog[at].nested /\ ~ Nested(ListOf(at))
    BY <1>2, <2>1, NestedOK DEF BaseInv
  <2>4. ~ cancelReq => MadeOutput(ret.output, u, w, ListOf(at)[1])
    BY <2>1, <2>2, <2>3, MadeUp DEF Shapes
  <2>5. EndOnItsWay'
    BY <1>1, <1>3, <1>4, <2>1, <2>2, <2>4, EndPrimed
  <2>6. ~ Nested(ret.list)'
    BY <1>3, <2>3 DEF Nested, program
  <2> QED BY <1>1, <1>3, <1>4, <2>1, <2>5, <2>6
          DEF EndInv, EndIsRaised, EndSignalledAtRoot, ClosesAtRoot
<1>5. CASE ret.outcome \in {"failed", "canceled"}
  <2>1. raised = NotRaised
    BY <1>2, <1>5 DEF EndInv, EndOnItsWay
  <2> QED BY <1>1, <1>3, <1>5, <2>1, NoEnd
<1> QED
  BY <1>4, <1>5 DEF Failure

LEMMA OwnerEnd ==
  ASSUME ScopesAssumption, BaseInv, EndInv, PointersUp, OutputKept, EndsOutsideDo,
         DoReturns \/ ForReturns \/ TryReturns
  PROVE  EndInv'
<1>1. /\ pc = "return" /\ at \in Task /\ at # 0 /\ UNCHANGED <<program, cancelReq>>
      /\ ret.list = Body(at) \/ (ret.list = Catch(at) /\ prog[at].kind = "try")
      /\ ret.list # Root
  BY OwnerIs, ListsOK DEF Task, ScopesAssumption
<1>2. ret.outcome \notin {"end", "endSignalled"} => raised = NotRaised
  BY <1>1 DEF EndInv, EndOnItsWay
<1>3. prog[at].kind \in {"do", "for", "try"}
  BY DEF DoReturns, ForReturns, TryReturns
<1>4. ASSUME NEW d \in {"none", "end"}, NEW output \in 0 .. N,
             NEW s \in {Here(at), [Here(at) EXCEPT !.output = ret.output]},
             Finish(at, output, d, s),
             ret.outcome = IF d = "end" THEN "end" ELSE "ok",
             \/ prog[at].kind = "do"
             \/ d = "end" => s.output = ret.output \/ cancelReq
      PROVE  EndInv'
  <2>1. s \in State
    BY <1>1, <1>4, OwnerStart
  <2>2. CASE d = "none"
    BY <1>1, <1>2, <1>4, <2>1, <2>2, FinishRaises DEF Directs, MayEnd
  <2>3. CASE d = "end"
    <3>1. CASE prog[at].kind = "do"
      <4>1. ret.list = Body(at) /\ Active(at)
        BY <1>1, <3>1 DEF Active
      <4>2. ptr[ret.list] = ptr[ListOf(at)]
        BY <1>1, <3>1, <4>1 DEF PointersUp
      <4>3. ret.output = Here(at).output
        BY <1>1, <1>4, <2>3, <4>2 DEF OutputKept, Here
      <4>4. s.output = ret.output
        BY <1>1, <1>4, <4>3, StateOK DEF State
      <4> QED BY <1>1, <1>4, <2>1, <2>3, <4>4, FinishEnds
    <3>2. CASE prog[at].kind # "do"
      BY <1>1, <1>4, <2>1, <2>3, <3>2, FinishEnds
    <3> QED BY <3>1, <3>2
  <2> QED BY <2>2, <2>3
<1>5. CASE PassOn /\ ret.outcome \in Failure
  BY <1>1, <1>3, <1>5, PassOnEnd
<1>6. CASE IterationSucceeds
  BY <1>2, <1>6, NoEnd DEF IterationSucceeds, Returned
<1>7. CASE StartCatch /\ ret.outcome \in Failure /\ prog[at].kind = "try"
  <2>1. ret.outcome # "endSignalled"
    BY <1>1, <1>7, NestedOK DEF EndInv, EndSignalledAtRoot, BaseInv
  <2> QED BY <1>2, <1>7, <2>1, NoEnd DEF StartCatch, Enter, Failure
<1> QED
  BY <1>4, <1>5, <1>6, <1>7, OwnerIs

LEMMA NextEnd ==
  ASSUME ScopesAssumption, BaseInv, EndInv, PointersUp, OutputKept, EndsOutsideDo,
         [Next]_vars
  PROVE  EndInv'
<1>1. CASE Start \/ Leaf \/ Loop
  <2>1. /\ pc \in {"visit", "leaf", "iterate"} /\ at \in Task
        /\ UNCHANGED program /\ at \in 0 .. N
    BY <1>1, OtherSteps DEF Task, ScopesAssumption
  <2>2. raised = NotRaised
    BY <2>1 DEF EndInv, EndOnItsWay
  <2>3. CASE UNCHANGED raised /\ pc' \in {"visit", "leaf", "iterate"}
    BY <2>2, <2>3, NoEnd
  <2>4. CASE \E how \in {"failed", "canceled"} : Fail(at, how)
    BY <2>1, <2>4, FailOK, NoEnd
  <2>5. ASSUME NEW d \in {"none", "exit", "end"}, NEW s \in State,
               Finish(at, at, d, s), d = "none" \/ prog[at].kind = "route"
        PROVE  EndInv'
    <3>1. Directs(at, d) => MayEnd(at)
      BY <2>5 DEF Directs, MayEnd
    <3> QED BY <2>1, <2>2, <2>5, <3>1, FinishRaises
  <2> QED BY <1>1, <2>3, <2>4, <2>5, OtherSteps
<1>2. CASE DoReturns \/ ForReturns \/ TryReturns
  BY <1>2, OwnerEnd
<1>3. CASE RequestCancel
  BY <1>3 DEF RequestCancel, control, history, EndInv, EndOnItsWay, EndIsRaised,
              EndSignalledAtRoot, ClosesAtRoot
<1>4. CASE RootReturns \/ Terminated \/ UNCHANGED vars
  <2>1. /\ UNCHANGED <<program, cancelReq, ret, raised>>
        /\ pc' \in {"return", "closed"} <=> pc \in {"return", "closed"}
        /\ pc' = "closed" => pc = "closed" \/ ret.list = Root
    BY <1>4 DEF RootReturns, Terminated, vars, control, history
  <2>2. raised # NotRaised => EndOnItsWay'
    BY <2>1, EndPrimed DEF EndInv, EndOnItsWay
  <2>3. raised = NotRaised => EndOnItsWay'
    BY <2>1 DEF EndOnItsWay, NotRaised
  <2> QED BY <2>1, <2>2, <2>3
          DEF EndInv, EndIsRaised, EndSignalledAtRoot, ClosesAtRoot, Nested, program,
              NotRaised
<1> QED
  BY <1>1, <1>2, <1>3, <1>4 DEF Next, Code, Owner

\* What a task returns with is in the state of its list.
LEMMA FinishOutput ==
  ASSUME ScopesAssumption, BaseInv, UNCHANGED ptr,
         NEW t \in Task, NEW output \in 0 .. N,
         NEW d \in {"none", "exit", "end"}, NEW s \in State,
         Finish(t, output, d, s)
  PROVE  OutputKept'
<1>1. PICK c : /\ LeavesState(t, output, d, s, c)
               /\ \/ Fail(t, "failed")
                  \/ Directs(t, d) /\ EndsList(t, c.output)
                  \/ d # "end" /\ GoesOn(t, c.output)
  BY FinishIs
<1>2. ListOf(t) \in Lists /\ ptr[ListOf(t)] \in Cells
  BY DefinitionOK, Parts DEF BaseInv, DataOK
<1>3. heap'[ptr'[ListOf(t)]] = c
  BY <1>1, <1>2, Parts DEF LeavesState, BaseInv, DataOK
<1>4. CASE Fail(t, "failed")
  BY <1>4, FailOK DEF OutputKept
<1>5. CASE pc' = "return" /\ ret'.list = ListOf(t) /\ ret'.output = c.output
  BY <1>3, <1>5 DEF OutputKept
<1>6. CASE pc' = "visit"
  BY <1>6 DEF OutputKept
<1> QED
  BY <1>1, <1>4, <1>5, <1>6 DEF EndsList, GoesOn, Return

LEMMA NextOutputKept ==
  ASSUME ScopesAssumption, BaseInv, OutputKept, [Next]_vars
  PROVE  OutputKept'
<1>1. CASE Start \/ Leaf \/ Loop
  <2>1. at \in Task /\ at \in 0 .. N
    BY <1>1, OtherSteps DEF Task, ScopesAssumption
  <2>2. CASE pc' \in {"visit", "leaf", "iterate"}
    BY <2>2 DEF OutputKept
  <2>3. CASE \E how \in {"failed", "canceled"} : Fail(at, how)
    BY <2>1, <2>3, FailOK DEF OutputKept
  <2>4. ASSUME NEW d \in {"none", "exit", "end"}, NEW s \in State,
               Finish(at, at, d, s), UNCHANGED ptr
        PROVE  OutputKept'
    BY <2>1, <2>4, FinishOutput
  <2> QED BY <1>1, <2>2, <2>3, <2>4, OtherSteps
<1>2. CASE DoReturns \/ ForReturns \/ TryReturns
  <2>1. at \in Task /\ at # 0 /\ UNCHANGED ptr
    BY <1>2, OwnerIs DEF DoReturns, ForReturns, TryReturns, Task, ScopesAssumption
  <2>2. ASSUME NEW d \in {"none", "end"}, NEW output \in 0 .. N,
               NEW s \in {Here(at), [Here(at) EXCEPT !.output = ret.output]},
               Finish(at, output, d, s)
        PROVE  OutputKept'
    <3>1. s \in State
      BY <2>1, <2>2, OwnerStart
    <3> QED BY <2>1, <2>2, <3>1, FinishOutput
  <2>3. CASE PassOn /\ ret.outcome \in Failure
    <3>1. ret'.outcome \in Failure
      BY <2>3, Parts DEF PassOn, BaseInv, ControlOK
    <3> QED BY <3>1 DEF OutputKept, Failure
  <2>4. CASE IterationSucceeds \/ StartCatch
    BY <2>4 DEF IterationSucceeds, StartCatch, Enter, OutputKept
  <2> QED BY <1>2, <2>2, <2>3, <2>4, OwnerIs
<1>3. CASE RootReturns
  BY <1>3 DEF RootReturns, OutputKept
<1>4. CASE RequestCancel
  BY <1>4 DEF RequestCancel, control, OutputKept
<1>5. CASE Terminated \/ UNCHANGED vars
  BY <1>5 DEF Terminated, vars, control, OutputKept
<1> QED
  BY <1>1, <1>2, <1>3, <1>4, <1>5 DEF Next, Code, Owner

\* The program never changes.
LEMMA NextEndsOutsideDo ==
  ASSUME EndsOutsideDo, [Next]_vars
  PROVE  EndsOutsideDo'
<1>1. UNCHANGED <<prog, isRoot>>
  BY DEF Next, Code, Start, VisitLeaf, RejectTask, VisitDo, VisitTry, VisitFor, Leaf,
         LeafReturns, LeafFails, LeafCancelled, Loop, StartIteration, EndLoop,
         LoopFails, Owner, DoReturns, ForReturns, TryReturns, RootReturns,
         RequestCancel, Terminated, program, vars
<1>2. Around' = Around
  BY <1>1, AroundKept
<1> QED
  BY <1>1, <1>2 DEF EndsOutsideDo, MayEnd

\* The inductive invariant of what follows.
EndingInv ==
  BaseInv /\ IsolationInv /\ OutputKept /\ EndsOutsideDo /\ EndInv

LEMMA InitEnding ==
  ASSUME ScopesAssumption, Init, EndsOutsideDo
  PROVE  EndingInv
<1>1. BaseInv /\ IsolationInv
  BY InitBase, InitIsolation
<1>2. OutputKept /\ EndInv
  BY DEF Init, OutputKept, EndInv, EndOnItsWay, EndIsRaised, EndSignalledAtRoot,
         ClosesAtRoot
<1> QED
  BY <1>1, <1>2 DEF EndingInv

LEMMA NextEnding ==
  ASSUME ScopesAssumption, EndingInv, [Next]_vars
  PROVE  EndingInv'
<1>1. BaseInv' /\ IsolationInv'
  BY NextBase, NextIsolation DEF EndingInv
<1>2. OutputKept' /\ EndsOutsideDo'
  BY NextOutputKept, NextEndsOutsideDo DEF EndingInv
<1>3. EndInv'
  BY NextEnd DEF EndingInv, IsolationInv
<1> QED
  BY <1>1, <1>2, <1>3 DEF EndingInv

\* At the root, what has become of the output is what its outermost shaper
\* makes of it.
LEMMA OutermostShapes ==
  ASSUME ScopesAssumption, EndingInv, raised # NotRaised, NEW v,
         MadeOutput(v, raised.task, raised.output, 0)
  PROVE  v = IF Shapers = {} THEN raised.output ELSE Min(Shapers)
<1> DEFINE u == raised.task
<1>1. u \in Task
  BY DEF EndingInv, EndInv, EndOnItsWay
<1>2. \A a : a \in Around[u] => a \in Task
  BY <1>1, AroundOK DEF EndingInv, BaseInv
<1>3. \A a : a \in Shapers <=> Shapes(a, u)
  BY <1>2, NestedOK DEF Shapers, Shapes, EndingInv, BaseInv
<1>4. Shapers \in SUBSET Task
  BY <1>2 DEF Shapers
<1>5. \A a \in Task : a \in Nat /\ 0 < a
  BY DEF Task, ScopesAssumption
<1>6. CASE v = raised.output /\ \A a \in Task : Shapes(a, u) => a =< 0
  BY <1>3, <1>4, <1>5, <1>6
<1>7. CASE Shapes(v, u) /\ \A a \in Task : Shapes(a, u) /\ 0 < a => v =< a
  <2>1. v \in Shapers /\ Shapers # {} /\ \A a \in Shapers : v =< a
    BY <1>3, <1>4, <1>5, <1>7
  <2>2. Min(Shapers) \in Shapers /\ \A a \in Shapers : Min(Shapers) =< a
    BY <1>4, <2>1, MinIsMember
  <2> QED BY <1>4, <1>5, <2>1, <2>2
<1> QED
  BY <1>6, <1>7 DEF MadeOutput

\* Once a directive has ended the workflow, every list it is in returns at once:
\* no task after it, no iteration and no catch starts, and in a workflow without
\* a parent it is the workflow that ends. It is assumed of such a workflow that
\* the do tasks that lead its list do not have the directive in them.
THEOREM EndGetsOut == Spec /\ EndsOutsideDo => []EndIsFinal
<1>1. Init /\ EndsOutsideDo => EndingInv
  BY ScopesAssumption, InitEnding
<1>2. EndingInv /\ [Next]_vars => EndingInv'
  BY ScopesAssumption, NextEnding
<1>3. EndingInv => EndIsFinal
  BY DEF EndingInv, EndInv, EndOnItsWay, EndIsFinal
<1> QED
  BY <1>1, <1>2, <1>3, PTL DEF Spec

\* However deep the directive that ends a workflow is, the workflow returns as
\* completed, or with the error its parent takes for an `end`, and its output is
\* the ending list's or the one that the outermost task around it shapes, unless
\* the workflow is cancelled as well. The assumption is that of EndGetsOut.
THEOREM EndKeepsItsOutput == Spec /\ EndsOutsideDo => []EndKeepsOutput
<1>1. Init /\ EndsOutsideDo => EndingInv
  BY ScopesAssumption, InitEnding
<1>2. EndingInv /\ [Next]_vars => EndingInv'
  BY ScopesAssumption, NextEnding
<1>3. EndingInv => EndKeepsOutput
  <2> SUFFICES ASSUME EndingInv, pc = "closed", raised # NotRaised, ~ cancelReq
               PROVE  /\ ret.outcome \in {"ok", "endSignalled"}
                      /\ ret.output = IF Shapers = {} THEN raised.output
                                                      ELSE Min(Shapers)
    BY DEF EndKeepsOutput
  <2>1. /\ ret.list = Root /\ ret.list[1] = 0
        /\ ret.outcome \in {"end", "endSignalled", "ok"}
        /\ ret.outcome # "end"
    BY DEF EndingInv, EndInv, EndOnItsWay, EndIsRaised, ClosesAtRoot, Nested,
           NestedIn, Root
  <2>2. MadeOutput(ret.output, raised.task, raised.output, 0)
    BY <2>1 DEF EndingInv, EndInv, EndOnItsWay
  <2> QED BY <2>1, <2>2, ScopesAssumption, OutermostShapes
<1> QED
  BY <1>1, <1>2, <1>3, PTL DEF Spec
=============================================================================
