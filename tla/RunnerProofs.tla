---------------------------- MODULE RunnerProofs ----------------------------
(***************************************************************************)
(* Proofs about Runner, for any files, task queues and number of edits.    *)
(***************************************************************************)
EXTENDS Runner, TLAPS

\* Once the debounce timer has fired, it is stopped until the next event.
Timer ==
  /\ pc \in Launching \cup {"setup", "swap", "refresh"} => ~armed
  /\ pc \in Launching \cup {"setup"} /\ attempt = 0 => changed = {}

\* What has happened by the time that the goroutine is at a place.
Phases ==
  /\ pc = "setup" => attempt = 0
  /\ pc \in {"swap", "refresh"} => attempt > 0
  /\ pc \in {"build", "start", "swap"} => \E f \in Files : loaded[f] # Absent

\* Each attempt has workers of its own.
Generations ==
  /\ \A w \in running \cup current : w[1] <= attempt
  /\ pc \in Launching \cup {"swap"} /\ attempt > 0 =>
       \A w \in current : w[1] < attempt

\* What runs, at each point, and what the process answers for.
Crew ==
  /\ pc \in {"discover", "read", "build", "setup"} => running = current
  /\ pc \in {"discover", "read", "build", "start"} /\ attempt = 0 => current = {}
  /\ pc \in {"setup", "select", "wait", "refresh"} => current # {}
  /\ pc \in Launching \cup {"swap"} /\ attempt > 0 => current # {}
  /\ pc \in {"start", "undo"} /\ attempt > 0 => current \subseteq running
  /\ pc \in {"start", "undo", "swap"} => running \subseteq current \cup Started
  /\ pc = "swap" => Wanted \subseteq running
  /\ pc = "stop" => running \subseteq current

\* A change that the last attempt did not begin with is in the channel, or it
\* is in changedFiles and the loop has yet to act on it.
Pending(f) == f \in events \/ (pc = "select" /\ f \in changed)

Noticed ==
  pc \notin {"discover", "stop", "closed"} =>
    \A f \in Files \ missable : noticed[f] = disk[f] \/ Pending(f)

\* What an attempt has read is still there, unless an event says otherwise.
UpToDateSoFar ==
  /\ pc = "read" =>
       \A f \in Files \ missable : f \in todo \/ loaded[f] = disk[f] \/ Pending(f)
  /\ pc \in {"build", "start", "swap"} =>
       \A f \in Files \ missable : loaded[f] = disk[f] \/ Pending(f)
  /\ pc \in {"setup", "refresh", "select"} /\ ~failed =>
       \A f \in Files \ missable : serving[f] = disk[f] \/ Pending(f)

\* The inductive invariant.
IInv ==
  /\ TypeOK /\ Timer /\ Phases /\ Generations /\ Crew /\ NoStrays
  /\ Noticed /\ UpToDateSoFar

USE RunnerAssumption DEF Launching, options, outside, loop, launch, fleet

LEMMA InitIInv == Init => IInv
<1> SUFFICES ASSUME Init PROVE IInv
  OBVIOUS
<1>1. 0 \in Versions /\ Nothing \in Contents /\ disk \in Contents
  BY DEF Init, Versions, Contents, Nothing
<1>2. TypeOK
  BY <1>1 DEF Init, TypeOK
<1>3. Timer /\ Phases /\ Generations
  BY DEF Init, Timer, Phases, Generations
<1>4. Crew /\ NoStrays
  BY DEF Init, Crew, NoStrays
<1>5. Noticed /\ UpToDateSoFar
  BY DEF Init, Noticed, UpToDateSoFar
<1> QED
  BY <1>2, <1>3, <1>4, <1>5 DEF IInv

LEMMA EditIInv ==
  ASSUME IInv, NEW f \in Files, Edit(f)
  PROVE  IInv'
<1>1. TypeOK'
  <2>1. edits + 1 \in Versions /\ edits' = edits + 1
    BY DEF IInv, TypeOK, Edit, Versions
  <2>2. disk' \in Contents
    <3>1. \E v \in Versions \cup {Absent} : disk' = [disk EXCEPT ![f] = v]
      BY <2>1 DEF Edit, WriteInPlace, MoveAway, Replace
    <3> QED
      BY <3>1 DEF IInv, TypeOK, Contents
  <2>3. /\ events' \subseteq Files /\ watch' \subseteq Files
        /\ missable' \subseteq Files
    BY DEF IInv, TypeOK, Edit, WriteInPlace, MoveAway, Replace
  <2> QED
    BY <2>1, <2>2, <2>3 DEF IInv, TypeOK, Edit
<1>2. Timer' /\ Phases'
  BY DEF IInv, Edit, WriteInPlace, MoveAway, Replace, Timer, Phases
<1>3. Generations' /\ Crew' /\ NoStrays'
  BY DEF IInv, Edit, WriteInPlace, MoveAway, Replace, Generations, Crew,
         NoStrays, Started, Wanted
<1>4. Noticed' /\ UpToDateSoFar'
  BY DEF IInv, Edit, WriteInPlace, MoveAway, Replace, TypeOK, Noticed,
         UpToDateSoFar, Pending, Contents
<1> QED
  BY <1>1, <1>2, <1>3, <1>4 DEF IInv

LEMMA DiscoverIInv ==
  ASSUME IInv, Discover
  PROVE  IInv'
<1>1. TypeOK'
  <2>1. Nothing \in Contents
    BY DEF Nothing, Contents
  <2>2. Discovered \subseteq Files
    BY DEF Discovered, IInv, TypeOK
  <2> QED
    BY <2>1, <2>2 DEF IInv, TypeOK, Discover, Notice
<1>2. Timer' /\ Phases'
  BY DEF IInv, Discover, Timer, Phases
<1>3. Generations' /\ Crew' /\ NoStrays'
  BY DEF IInv, Discover, Generations, Crew, NoStrays
<1>4. Noticed' /\ UpToDateSoFar'
  <2>1. \A f \in Files : f \in Discovered \/ Nothing[f] = disk[f]
    BY DEF Discovered, Nothing
  <2> QED
    BY <2>1 DEF Discover, Notice, Noticed, UpToDateSoFar
<1> QED
  BY <1>1, <1>2, <1>3, <1>4 DEF IInv

LEMMA DiscoverNothingIInv ==
  ASSUME IInv, DiscoverNothing
  PROVE  IInv'
<1>1. TypeOK'
  BY DEF IInv, DiscoverNothing, Notice, GiveUp, TypeOK
<1>2. Timer' /\ Phases'
  BY DEF IInv, DiscoverNothing, GiveUp, TypeOK, Timer, Phases
<1>3. Generations' /\ Crew' /\ NoStrays'
  BY DEF IInv, DiscoverNothing, GiveUp, TypeOK, Generations, Crew, NoStrays
<1>4. Noticed' /\ UpToDateSoFar'
  BY DEF IInv, DiscoverNothing, Notice, GiveUp, Noticed, UpToDateSoFar
<1> QED
  BY <1>1, <1>2, <1>3, <1>4 DEF IInv

LEMMA LoadIInv ==
  ASSUME IInv, NEW f \in Files, Load(f)
  PROVE  IInv'
<1>1. TypeOK'
  BY DEF IInv, Load, TypeOK, Contents
<1>2. Timer' /\ Phases'
  BY DEF IInv, Load, TypeOK, Timer, Phases, Contents
<1>3. Generations' /\ Crew' /\ NoStrays'
  BY DEF IInv, Load, Generations, Crew, NoStrays
<1>4. Noticed' /\ UpToDateSoFar'
  BY DEF IInv, Load, TypeOK, Noticed, UpToDateSoFar, Pending, Contents
<1> QED
  BY <1>1, <1>2, <1>3, <1>4 DEF IInv

LEMMA LoadFailsIInv ==
  ASSUME IInv, LoadFails
  PROVE  IInv'
<1>1. TypeOK'
  BY DEF IInv, LoadFails, GiveUp, TypeOK
<1>2. Timer' /\ Phases'
  BY DEF IInv, LoadFails, GiveUp, TypeOK, Timer, Phases
<1>3. Generations' /\ Crew' /\ NoStrays'
  BY DEF IInv, LoadFails, GiveUp, TypeOK, Generations, Crew, NoStrays
<1>4. Noticed' /\ UpToDateSoFar'
  BY DEF IInv, LoadFails, GiveUp, Noticed, UpToDateSoFar, Pending
<1> QED
  BY <1>1, <1>2, <1>3, <1>4 DEF IInv

LEMMA BuildIInv ==
  ASSUME IInv, Build
  PROVE  IInv'
<1>1. TypeOK'
  BY DEF IInv, Build, TypeOK
<1>2. Timer' /\ Phases'
  BY DEF IInv, Build, Timer, Phases
<1>3. Generations' /\ Crew' /\ NoStrays'
  BY DEF IInv, Build, Generations, Crew, NoStrays
<1>4. Noticed' /\ UpToDateSoFar'
  BY DEF IInv, Build, Noticed, UpToDateSoFar, Pending
<1> QED
  BY <1>1, <1>2, <1>3, <1>4 DEF IInv

LEMMA BuildFailsIInv ==
  ASSUME IInv, BuildFails
  PROVE  IInv'
<1>1. TypeOK'
  BY DEF IInv, BuildFails, GiveUp, TypeOK
<1>2. Timer' /\ Phases'
  BY DEF IInv, BuildFails, GiveUp, TypeOK, Timer, Phases
<1>3. Generations' /\ Crew' /\ NoStrays'
  BY DEF IInv, BuildFails, GiveUp, TypeOK, Generations, Crew, NoStrays
<1>4. Noticed' /\ UpToDateSoFar'
  BY DEF IInv, BuildFails, GiveUp, Noticed, UpToDateSoFar, Pending
<1> QED
  BY <1>1, <1>2, <1>3, <1>4 DEF IInv

LEMMA BuildPanicsIInv ==
  ASSUME IInv, BuildPanics
  PROVE  IInv'
<1>1. TypeOK'
  BY DEF IInv, BuildPanics, TypeOK
<1>2. Timer' /\ Phases'
  BY DEF IInv, BuildPanics, Timer, Phases
<1>3. Generations' /\ Crew' /\ NoStrays'
  BY DEF IInv, BuildPanics, Generations, Crew, NoStrays
<1>4. Noticed' /\ UpToDateSoFar'
  BY DEF IInv, BuildPanics, Noticed, UpToDateSoFar
<1> QED
  BY <1>1, <1>2, <1>3, <1>4 DEF IInv

\* A worker that an attempt wants is one of its own.
LEMMA WantedType ==
  ASSUME TypeOK
  PROVE  /\ Wanted \subseteq Workers
         /\ \A w \in Wanted : w[1] = attempt
  BY DEF TypeOK, Wanted, Workers, Contents, Versions

LEMMA StartWorkerIInv ==
  ASSUME IInv, NEW w \in Wanted, StartWorker(w)
  PROVE  IInv'
<1>1. TypeOK'
  <2>1. w \in Workers
    BY WantedType DEF IInv
  <2> QED
    BY <2>1 DEF IInv, TypeOK, StartWorker
<1>2. Timer' /\ Phases'
  BY DEF IInv, StartWorker, Timer, Phases
<1>3. Generations' /\ Crew' /\ NoStrays'
  BY DEF IInv, StartWorker, TypeOK, Generations, Crew, NoStrays, Started, Wanted
<1>4. Noticed' /\ UpToDateSoFar'
  BY DEF IInv, StartWorker, Noticed, UpToDateSoFar, Pending
<1> QED
  BY <1>1, <1>2, <1>3, <1>4 DEF IInv

LEMMA StartFailsIInv ==
  ASSUME IInv, StartFails
  PROVE  IInv'
<1>1. TypeOK'
  BY DEF IInv, StartFails, TypeOK
<1>2. Timer' /\ Phases'
  BY DEF IInv, StartFails, Timer, Phases
<1>3. Generations' /\ Crew' /\ NoStrays'
  BY DEF IInv, StartFails, Generations, Crew, NoStrays, Started
<1>4. Noticed' /\ UpToDateSoFar'
  BY DEF IInv, StartFails, Noticed, UpToDateSoFar, Pending
<1> QED
  BY <1>1, <1>2, <1>3, <1>4 DEF IInv

LEMMA UndoStartIInv ==
  ASSUME IInv, NEW w \in Started, UndoStart(w)
  PROVE  IInv'
<1>1. TypeOK'
  BY DEF IInv, UndoStart, TypeOK
<1>2. Timer' /\ Phases'
  BY DEF IInv, UndoStart, Timer, Phases
<1>3. Generations' /\ Crew' /\ NoStrays'
  BY DEF IInv, UndoStart, TypeOK, Generations, Crew, NoStrays, Started
<1>4. Noticed' /\ UpToDateSoFar'
  BY DEF IInv, UndoStart, Noticed, UpToDateSoFar, Pending
<1> QED
  BY <1>1, <1>2, <1>3, <1>4 DEF IInv

LEMMA UndoneIInv ==
  ASSUME IInv, Undone
  PROVE  IInv'
<1>1. TypeOK'
  BY DEF IInv, Undone, GiveUp, TypeOK
<1>2. Timer' /\ Phases'
  BY DEF IInv, Undone, GiveUp, TypeOK, Timer, Phases
<1>3. Generations' /\ Crew' /\ NoStrays'
  <2>1. running \subseteq current /\ \A w \in running : w[1] # attempt
    BY DEF IInv, Undone, Crew, Started
  <2>2. ASSUME attempt = 0 PROVE running = {}
    <3>1. \A w \in running : w[1] \in Nat /\ w[1] <= 0
      BY <2>2 DEF IInv, TypeOK, Workers, Generations
    <3> QED
      BY <2>1, <2>2, <3>1
  <2>3. CASE attempt = 0
    BY <2>2, <2>3 DEF Undone, GiveUp, IInv, Generations, Crew, NoStrays
  <2>4. CASE attempt # 0
    <3>0. attempt > 0
      BY <2>4 DEF IInv, TypeOK
    <3>1. running = current /\ current # {} /\ attempt > 0
      BY <2>1, <3>0 DEF IInv, Undone, Crew
    <3> QED
      BY <2>4, <3>1 DEF Undone, GiveUp, IInv, Generations, Crew, NoStrays
  <2> QED
    BY <2>3, <2>4
<1>4. Noticed' /\ UpToDateSoFar'
  BY DEF IInv, Undone, GiveUp, Noticed, UpToDateSoFar, Pending
<1> QED
  BY <1>1, <1>2, <1>3, <1>4 DEF IInv

LEMMA StartedAllIInv ==
  ASSUME IInv, StartedAll
  PROVE  IInv'
<1>1. TypeOK'
  BY DEF IInv, StartedAll, TypeOK, Started
<1>2. Timer' /\ Phases'
  BY DEF IInv, StartedAll, TypeOK, Timer, Phases
<1>3. Generations' /\ Crew' /\ NoStrays'
  BY DEF IInv, StartedAll, Generations, Crew, NoStrays, Started, Wanted
<1>4. Noticed' /\ UpToDateSoFar'
  BY DEF IInv, StartedAll, Noticed, UpToDateSoFar, Pending
<1> QED
  BY <1>1, <1>2, <1>3, <1>4 DEF IInv

LEMMA SetupIInv ==
  ASSUME IInv, Setup
  PROVE  IInv'
<1>1. TypeOK'
  <2>1. Discovered \subseteq Files
    BY DEF Discovered, IInv, TypeOK
  <2>2. ~armed /\ changed = {}
    BY DEF Setup, IInv, Timer, Phases
  <2> QED
    BY <2>1, <2>2 DEF IInv, TypeOK, Setup
<1>2. Timer' /\ Phases'
  BY DEF IInv, Setup, Timer, Phases
<1>3. Generations' /\ Crew' /\ NoStrays'
  BY DEF IInv, Setup, Generations, Crew, NoStrays
<1>4. Noticed' /\ UpToDateSoFar'
  BY DEF IInv, Setup, Noticed, UpToDateSoFar, Pending
<1> QED
  BY <1>1, <1>2, <1>3, <1>4 DEF IInv

LEMMA SetupFailsIInv ==
  ASSUME IInv, SetupFails
  PROVE  IInv'
<1>1. TypeOK'
  BY DEF IInv, SetupFails, TypeOK
<1>2. Timer' /\ Phases'
  BY DEF IInv, SetupFails, Timer, Phases
<1>3. Generations' /\ Crew' /\ NoStrays'
  BY DEF IInv, SetupFails, Phases, Generations, Crew, NoStrays
<1>4. Noticed' /\ UpToDateSoFar'
  BY DEF IInv, SetupFails, Noticed, UpToDateSoFar, Pending
<1> QED
  BY <1>1, <1>2, <1>3, <1>4 DEF IInv

LEMMA TakeEventIInv ==
  ASSUME IInv, NEW f \in Files, TakeEvent(f)
  PROVE  IInv'
<1>1. TypeOK'
  BY DEF IInv, TakeEvent, TypeOK
<1>2. Timer' /\ Phases'
  BY DEF IInv, TakeEvent, Timer, Phases
<1>3. Generations' /\ Crew' /\ NoStrays'
  BY DEF IInv, TakeEvent, Generations, Crew, NoStrays
<1>4. Noticed' /\ UpToDateSoFar'
  BY DEF IInv, TakeEvent, Noticed, UpToDateSoFar, Pending
<1> QED
  BY <1>1, <1>2, <1>3, <1>4 DEF IInv

LEMMA DebounceIInv ==
  ASSUME IInv, Debounce
  PROVE  IInv'
<1>1. TypeOK'
  <2>1. /\ attempt' \in Nat /\ armed' = FALSE /\ signal' = FALSE
        /\ pc' = "discover"
    BY DEF IInv, Debounce, TypeOK
  <2>2. UNCHANGED <<options, outside, watch, events, changed, launch, fleet,
                    failed, exit>>
    BY DEF Debounce
  <2> QED
    BY <2>1, <2>2 DEF IInv, TypeOK
<1>2. Timer' /\ Phases'
  BY DEF IInv, Debounce, TypeOK, Timer, Phases
<1>3. Generations' /\ Crew' /\ NoStrays'
  <2>1. \A w \in running \cup current : w[1] < attempt + 1
    BY DEF IInv, TypeOK, Workers, Generations
  <2> QED
    BY <2>1 DEF IInv, Debounce, TypeOK, Workers, Generations, Crew, NoStrays
<1>4. Noticed' /\ UpToDateSoFar'
  BY DEF IInv, Debounce, Noticed, UpToDateSoFar
<1> QED
  BY <1>1, <1>2, <1>3, <1>4 DEF IInv

LEMMA TakeInterruptIInv ==
  ASSUME IInv, TakeInterrupt
  PROVE  IInv'
<1>1. TypeOK'
  BY DEF IInv, TakeInterrupt, TypeOK
<1>2. Timer' /\ Phases'
  BY DEF IInv, TakeInterrupt, Timer, Phases
<1>3. Generations' /\ Crew' /\ NoStrays'
  BY DEF IInv, TakeInterrupt, Generations, Crew, NoStrays
<1>4. Noticed' /\ UpToDateSoFar'
  BY DEF IInv, TakeInterrupt, Noticed, UpToDateSoFar
<1> QED
  BY <1>1, <1>2, <1>3, <1>4 DEF IInv

LEMMA StopOldIInv ==
  ASSUME IInv, NEW w \in current, StopOld(w)
  PROVE  IInv'
<1>1. TypeOK'
  BY DEF IInv, StopOld, TypeOK
<1>2. Timer' /\ Phases'
  BY DEF IInv, StopOld, Timer, Phases
<1>3. Generations' /\ Crew' /\ NoStrays'
  BY DEF IInv, StopOld, TypeOK, Phases, Generations, Crew, NoStrays, Started,
         Wanted
<1>4. Noticed' /\ UpToDateSoFar'
  BY DEF IInv, StopOld, Noticed, UpToDateSoFar, Pending
<1> QED
  BY <1>1, <1>2, <1>3, <1>4 DEF IInv

LEMMA SwappedIInv ==
  ASSUME IInv, Swapped
  PROVE  IInv'
<1>1. TypeOK'
  BY DEF IInv, Swapped, TypeOK, Started
<1>2. Timer' /\ Phases'
  BY DEF IInv, Swapped, Timer, Phases
<1>3. Generations' /\ Crew' /\ NoStrays'
  <2>1. running = Started
    BY DEF IInv, Swapped, Crew, Started
  <2>2. Started # {}
    <3>1. PICK f \in Files : loaded[f] # Absent
      BY DEF IInv, Swapped, Phases
    <3>2. <<attempt, QueueOf[f][loaded[f]]>> \in running
      BY <3>1 DEF IInv, Swapped, Crew, Wanted
    <3> QED
      BY <2>1, <3>2
  <2> QED
    BY <2>1, <2>2 DEF IInv, Swapped, Generations, Crew, NoStrays
<1>4. Noticed' /\ UpToDateSoFar'
  BY DEF IInv, Swapped, Noticed, UpToDateSoFar, Pending
<1> QED
  BY <1>1, <1>2, <1>3, <1>4 DEF IInv

LEMMA RefreshIInv ==
  ASSUME IInv, Refresh
  PROVE  IInv'
<1>1. TypeOK'
  BY DEF IInv, Refresh, RefreshWatcher, Discovered, TypeOK, Timer
<1>2. Timer' /\ Phases'
  BY DEF IInv, Refresh, Timer, Phases
<1>3. Generations' /\ Crew' /\ NoStrays'
  BY DEF IInv, Refresh, Generations, Crew, NoStrays
<1>4. Noticed' /\ UpToDateSoFar'
  BY DEF IInv, Refresh, Noticed, UpToDateSoFar, Pending
<1> QED
  BY <1>1, <1>2, <1>3, <1>4 DEF IInv

LEMMA StopWorkerIInv ==
  ASSUME IInv, NEW w \in current, StopWorker(w)
  PROVE  IInv'
<1>1. TypeOK'
  BY DEF IInv, StopWorker, TypeOK
<1>2. Timer' /\ Phases'
  BY DEF IInv, StopWorker, Timer, Phases
<1>3. Generations' /\ Crew' /\ NoStrays'
  BY DEF IInv, StopWorker, Generations, Crew, NoStrays
<1>4. Noticed' /\ UpToDateSoFar'
  BY DEF IInv, StopWorker, Noticed, UpToDateSoFar
<1> QED
  BY <1>1, <1>2, <1>3, <1>4 DEF IInv

LEMMA CloseIInv ==
  ASSUME IInv, Close
  PROVE  IInv'
<1>1. TypeOK'
  BY DEF IInv, Close, TypeOK
<1>2. Timer' /\ Phases'
  BY DEF IInv, Close, Timer, Phases
<1>3. Generations' /\ Crew' /\ NoStrays'
  BY DEF IInv, Close, Generations, Crew, NoStrays
<1>4. Noticed' /\ UpToDateSoFar'
  BY DEF IInv, Close, Noticed, UpToDateSoFar
<1> QED
  BY <1>1, <1>2, <1>3, <1>4 DEF IInv

LEMMA InterruptIInv ==
  ASSUME IInv, Interrupt
  PROVE  IInv'
<1>1. TypeOK'
  <2>1. signal' \in BOOLEAN
    <3>1. signal' = signal \/ signal' = (pc \in {"select", "wait"})
      BY DEF Interrupt
    <3>2. CASE signal' = signal
      BY <3>2 DEF IInv, TypeOK
    <3>3. CASE signal' = (pc \in {"select", "wait"})
      <4>1. CASE pc \in {"select", "wait"}
        BY <3>3, <4>1
      <4>2. CASE pc \notin {"select", "wait"}
        BY <3>3, <4>2
      <4> QED
        BY <4>1, <4>2
    <3> QED
      BY <3>1, <3>2, <3>3
  <2> QED
    BY <2>1 DEF IInv, TypeOK, Interrupt
<1>2. Timer' /\ Phases'
  BY DEF IInv, Interrupt, Timer, Phases
<1>3. Generations' /\ Crew' /\ NoStrays'
  BY DEF IInv, Interrupt, Generations, Crew, NoStrays, Started, Wanted
<1>4. Noticed' /\ UpToDateSoFar'
  BY DEF IInv, Interrupt, Noticed, UpToDateSoFar, Pending
<1> QED
  BY <1>1, <1>2, <1>3, <1>4 DEF IInv

LEMMA NextIInv == IInv /\ [Next]_vars => IInv'
<1> SUFFICES ASSUME IInv, [Next]_vars PROVE IInv'
  OBVIOUS
<1>1. CASE UNCHANGED vars
  BY <1>1 DEF vars, IInv, TypeOK, Timer, Phases, Generations, Crew, NoStrays,
              Noticed, UpToDateSoFar, Pending, Started, Wanted
<1>2. CASE Idle
  BY <1>1, <1>2 DEF Idle
<1>3. CASE Goroutine
  BY <1>3, DiscoverIInv, DiscoverNothingIInv, LoadIInv, LoadFailsIInv,
     BuildIInv, BuildFailsIInv, BuildPanicsIInv, StartWorkerIInv,
     StartFailsIInv, UndoStartIInv, UndoneIInv, StartedAllIInv, SetupIInv,
     SetupFailsIInv, TakeEventIInv, DebounceIInv, TakeInterruptIInv,
     StopOldIInv, SwappedIInv, RefreshIInv, StopWorkerIInv, CloseIInv
     DEF Goroutine
<1> QED
  BY <1>1, <1>2, <1>3, EditIInv, InterruptIInv DEF Next

LEMMA InvariantIInv == Spec => []IInv
  BY InitIInv, NextIInv, PTL DEF Spec

\* The state of the process stays in its type, for any files and any number of
\* edits; and in the select of the watch loop the debounce timer runs exactly
\* when there is a change to act on.
THEOREM TypeCorrect == Spec => []TypeOK
<1>1. IInv => TypeOK
  BY DEF IInv
<1> QED
  BY <1>1, InvariantIInv, PTL

\* Whatever fails in a reload, and whatever is edited while it runs, one whole
\* generation of workers polls its task queues.
THEOREM StaysServed == Spec => []NeverUnserved
<1>1. IInv => NeverUnserved
  BY DEF IInv, Crew, NoStrays, InLoop, NeverUnserved
<1> QED
  BY <1>1, InvariantIInv, PTL

\* No worker of an attempt that failed, or of a generation that was replaced,
\* runs on, and none does when the client is closed.
THEOREM LeavesNoStrays == Spec => []NoStrays
<1>1. IInv => NoStrays
  BY DEF IInv
<1> QED
  BY <1>1, InvariantIInv, PTL

\* When the watch loop has nothing left to do, its workers serve what was last
\* written to the watched files, unless the last reload failed.
THEOREM MissesNoEdit == Spec => []UpToDate
<1>1. IInv => UpToDate
  BY DEF IInv, Noticed, UpToDateSoFar, Pending, Settled, UpToDate
<1> QED
  BY <1>1, InvariantIInv, PTL
=============================================================================
