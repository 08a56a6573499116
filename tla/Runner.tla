------------------------------- MODULE Runner -------------------------------
(***************************************************************************)
(* The process that `zigflow run` is: runRunCmd from its first look at the *)
(* workflow files until the Temporal client is closed, with the reload of  *)
(* its workers that --watch asks for.                                      *)
(*                                                                         *)
(* Everything here happens in one goroutine. What it races with is outside:*)
(* whoever edits the files, and whoever interrupts the process. Content is *)
(* abstracted to a version number, one per edit; whether it is valid shows *)
(* only in that reading or building may fail. There is one Temporal worker *)
(* for each task queue of an attempt to launch, the first of which is the  *)
(* one at startup.                                                         *)
(***************************************************************************)
EXTENDS Naturals

CONSTANTS
  Files,     \* paths
  Listings,  \* the sets of paths that --file may give
  Queues,    \* task queues
  QueueOf,   \* document.taskQueue of each version of each file
  Absent,    \* a path with no file, or a file that was not read
  MaxEdits   \* bound: changes of a file

ASSUME RunnerAssumption ==
  /\ Listings \subseteq SUBSET Files
  /\ QueueOf \in [Files -> [0 .. MaxEdits -> Queues]]
  /\ Absent \notin Nat
  /\ MaxEdits \in Nat

VARIABLES
  watchMode,   \* --watch; never changes
  listed,      \* --file; never changes. --dir and --glob find every file
  disk,        \* the version of each file
  edits,       \* number of changes so far
  watch,       \* files whose inode is watched
  events,      \* files with a watchable event in watcher.Events
  changed,     \* changedFiles
  armed,       \* the debounce timer is running, or has fired
  pc,          \* where the goroutine is
  attempt,     \* how often workers were launched before; 0 at startup
  todo,        \* files that this attempt has yet to read
  loaded,      \* the versions that this attempt has read
  running,     \* workers that poll Temporal: <<attempt, queue>>
  current,     \* the workers that the process answers for
  serving,     \* the versions that these were built from
  failed,      \* the last reload failed
  signal,      \* an interrupt is in the channel that the select waits on
  exit,        \* why the process is about to end
  noticed,     \* history: what was on disk when the last attempt began
  missable,    \* history: files changed other than by writing a watched file,
               \* since the last attempt that began when they were watched
  interrupted  \* history: an interrupt was sent to a process that handles it

options == <<watchMode, listed>>

vars == <<options, disk, edits, watch, events, changed, armed, pc, attempt,
          todo, loaded, running, current, serving, failed, signal, exit,
          noticed, missable, interrupted>>

\* What only changes from outside; what a reload works on.
outside == <<disk, edits, missable, interrupted>>
loop    == <<watch, events, changed, armed>>
launch  == <<todo, loaded, noticed>>
fleet   == <<running, current, serving>>

Versions == 0 .. MaxEdits

Contents == [Files -> Versions \cup {Absent}]

Workers == Nat \X Queues

Launching == {"discover", "read", "build", "start", "undo"}

TypeOK ==
  /\ watchMode \in BOOLEAN
  /\ listed \subseteq Files
  /\ disk \in Contents
  /\ edits \in Versions
  /\ watch \subseteq Files
  /\ events \subseteq Files
  /\ changed \subseteq Files
  /\ armed \in BOOLEAN
  /\ pc \in Launching \cup {"setup", "select", "wait", "swap", "refresh", "stop",
                            "closed"}
  /\ attempt \in Nat
  /\ todo \subseteq Files
  /\ loaded \in Contents
  /\ running \subseteq Workers
  /\ current \subseteq Workers
  /\ serving \in Contents
  /\ failed \in BOOLEAN
  /\ signal \in BOOLEAN
  /\ exit \in {"none", "failed", "unwatched", "interrupted", "panicked", "killed"}
  /\ noticed \in Contents
  /\ missable \subseteq Files
  /\ interrupted \in BOOLEAN
  /\ pc = "select" => (armed <=> changed # {})

Nothing == [f \in Files |-> Absent]

Init ==
  /\ watchMode \in BOOLEAN
  /\ listed \in Listings
  /\ disk \in [Files -> {0, Absent}]
  /\ edits = 0
  /\ watch = {} /\ events = {} /\ changed = {} /\ armed = FALSE
  /\ pc = "discover"
  /\ attempt = 0
  /\ todo = {} /\ loaded = Nothing
  /\ running = {} /\ current = {} /\ serving = Nothing
  /\ failed = FALSE
  /\ signal = FALSE
  /\ exit = "none"
  /\ noticed = Nothing
  /\ missable = {f \in Files : disk[f] = Absent}
  /\ interrupted = FALSE

-----------------------------------------------------------------------------
(* The files are edited. A watch is on an inode: it does not see a file that *)
(* is created, and is lost with the inode.                                   *)

\* isWatchableEvent: Write.
WriteInPlace(f) ==
  /\ disk[f] # Absent
  /\ disk' = [disk EXCEPT ![f] = edits + 1]
  /\ events' = IF f \in watch THEN events \cup {f} ELSE events
  /\ missable' = IF f \in watch THEN missable ELSE missable \cup {f}
  /\ UNCHANGED watch

\* isWatchableEvent: Rename. An editor moves the file out of the way.
MoveAway(f) ==
  /\ disk[f] # Absent
  /\ disk' = [disk EXCEPT ![f] = Absent]
  /\ events' = IF f \in watch THEN events \cup {f} ELSE events
  /\ watch' = watch \ {f}
  /\ missable' = missable \cup {f}

\* The file is created, or one is renamed to its path: there is no event that
\* isWatchableEvent accepts.
Replace(f) ==
  /\ disk' = [disk EXCEPT ![f] = edits + 1]
  /\ watch' = watch \ {f}
  /\ missable' = missable \cup {f}
  /\ UNCHANGED events

Edit(f) ==
  /\ edits < MaxEdits
  /\ pc # "closed"
  /\ edits' = edits + 1
  /\ WriteInPlace(f) \/ MoveAway(f) \/ Replace(f)
  /\ UNCHANGED <<options, changed, armed, pc, attempt, launch, fleet, failed,
                 signal, exit, interrupted>>

-----------------------------------------------------------------------------
(* launchWorkers, at startup and for a reload: prepareRegistrations, then    *)
(* buildWorkersByTaskQueue, then startAllWorkers.                            *)

\* discoverWorkflowFiles
Discovered == listed \cup {f \in Files : disk[f] # Absent}

\* buildWorkersByTaskQueue: one worker for each task queue of a document.
Wanted ==
  {<<attempt, QueueOf[f][loaded[f]]>> : f \in {g \in Files : loaded[g] # Absent}}

\* Two documents are registered on the same worker.
ShareWorker(f, g) ==
  /\ f # g
  /\ loaded[f] # Absent /\ loaded[g] # Absent
  /\ QueueOf[f][loaded[f]] = QueueOf[g][loaded[g]]

Started == {w \in running : w[1] = attempt}

\* An attempt that fails ends the process at startup; a reload goes on without.
GiveUp ==
  IF attempt = 0
  THEN pc' = "closed" /\ exit' = "failed" /\ UNCHANGED failed
  ELSE pc' = "refresh" /\ failed' = TRUE /\ UNCHANGED exit

Notice ==
  /\ noticed' = disk
  /\ missable' = missable \ watch

Discover ==
  /\ pc = "discover"
  /\ Discovered # {}
  /\ pc' = "read"
  /\ todo' = Discovered
  /\ loaded' = Nothing
  /\ Notice
  /\ UNCHANGED <<options, disk, edits, interrupted, loop, attempt, fleet,
                 failed, signal, exit>>

DiscoverNothing ==
  /\ pc = "discover"
  /\ Discovered = {}
  /\ Notice
  /\ GiveUp
  /\ UNCHANGED <<options, disk, edits, interrupted, loop, attempt, todo,
                 loaded, fleet, signal>>

\* loadWorkflows, for one file.
Load(f) ==
  /\ pc = "read"
  /\ f \in todo
  /\ disk[f] # Absent
  /\ loaded' = [loaded EXCEPT ![f] = disk[f]]
  /\ todo' = todo \ {f}
  /\ pc' = IF todo' = {} THEN "build" ELSE "read"
  /\ UNCHANGED <<options, outside, loop, attempt, noticed, fleet, failed,
                 signal, exit>>

\* A file is not there any more, or it is not valid.
LoadFails ==
  /\ pc = "read"
  /\ GiveUp
  /\ UNCHANGED <<options, outside, loop, attempt, launch, fleet, signal>>

\* At startup this includes the Temporal client, the schedules and the health
\* check.
Build ==
  /\ pc = "build"
  /\ pc' = "start"
  /\ UNCHANGED <<options, outside, loop, attempt, launch, fleet, failed,
                 signal, exit>>

\* Two documents want the same name on one task queue, or NewWorkflow fails.
BuildFails ==
  /\ pc = "build"
  /\ GiveUp
  /\ UNCHANGED <<options, outside, loop, attempt, launch, fleet, signal>>

\* The SDK panics when two documents register an inner task list of the same
\* name on one worker. runRunCmd recovers, after its deferred calls, and exits.
BuildPanics ==
  /\ pc = "build"
  /\ \E f, g \in Files : ShareWorker(f, g)
  /\ pc' = "stop"
  /\ exit' = "panicked"
  /\ UNCHANGED <<options, outside, loop, attempt, launch, fleet, failed,
                 signal>>

StartWorker(w) ==
  /\ pc = "start"
  /\ w \notin running
  /\ running' = running \cup {w}
  /\ UNCHANGED <<options, outside, loop, pc, attempt, launch, current,
                 serving, failed, signal, exit>>

\* Mutant: the workers that did start are left alone.
StartFailsLeavingOthers ==
  /\ pc = "start"
  /\ ~(Wanted \subseteq running)
  /\ GiveUp
  /\ UNCHANGED <<options, outside, loop, attempt, launch, fleet, signal>>

StartFails ==
  /\ pc = "start"
  /\ ~(Wanted \subseteq running)
  /\ pc' = "undo"
  /\ UNCHANGED <<options, outside, loop, attempt, launch, fleet, failed,
                 signal, exit>>

UndoStart(w) ==
  /\ pc = "undo"
  /\ running' = running \ {w}
  /\ UNCHANGED <<options, outside, loop, pc, attempt, launch, current,
                 serving, failed, signal, exit>>

Undone ==
  /\ pc = "undo"
  /\ Started = {}
  /\ GiveUp
  /\ UNCHANGED <<options, outside, loop, attempt, launch, fleet, signal>>

StartedAll ==
  /\ pc = "start"
  /\ Wanted \subseteq running
  /\ IF attempt = 0
     THEN /\ pc' = IF watchMode THEN "setup" ELSE "wait"
          /\ current' = Started
          /\ serving' = loaded
     ELSE pc' = "swap" /\ UNCHANGED <<current, serving>>
  /\ UNCHANGED <<options, outside, loop, attempt, launch, running, failed,
                 signal, exit>>

-----------------------------------------------------------------------------
(* From startup into runWatchMode *)

\* Nothing has been stopped by then, and stopping the workers has not yet been
\* deferred, unless it was the files that could not be found.
SetupFails ==
  /\ pc = "setup"
  /\ IF Discovered = {} THEN pc' = "undo" /\ UNCHANGED exit
     ELSE pc' = "closed" /\ exit' = "unwatched"
  /\ UNCHANGED <<options, outside, loop, attempt, launch, fleet, failed,
                 signal>>

Setup ==
  /\ pc = "setup"
  /\ Discovered # {}
  /\ \A f \in Discovered : disk[f] # Absent
  /\ watch' = Discovered
  /\ pc' = "select"
  /\ UNCHANGED <<options, outside, events, changed, armed, attempt, launch,
                 fleet, failed, signal, exit>>

-----------------------------------------------------------------------------
(* The select of runWatchMode. Every turn of the loop asks for a new          *)
(* interrupt channel, so what is in the old one is never looked at.           *)

\* Mutant: an event that comes while the timer runs stops it, and it is not
\* started again.
TakeEventStoppingTimer(f) ==
  /\ pc = "select"
  /\ f \in events
  /\ events' = events \ {f}
  /\ changed' = changed \cup {f}
  /\ armed' = (changed = {})
  /\ signal' = FALSE
  /\ UNCHANGED <<options, outside, watch, pc, attempt, launch, fleet, failed,
                 exit>>

TakeEvent(f) ==
  /\ pc = "select"
  /\ f \in events
  /\ events' = events \ {f}
  /\ changed' = changed \cup {f}
  /\ armed' = TRUE
  /\ signal' = FALSE
  /\ UNCHANGED <<options, outside, watch, pc, attempt, launch, fleet, failed,
                 exit>>

\* Mutant: the timer is reset whenever it fires.
DebounceStayingArmed ==
  /\ pc = "select"
  /\ armed
  /\ pc' = "discover"
  /\ attempt' = attempt + 1
  /\ signal' = FALSE
  /\ UNCHANGED <<options, outside, loop, launch, fleet, failed, exit>>

\* Mutant: the old workers are stopped before new ones are launched.
DebounceStoppingFirst ==
  /\ pc = "select"
  /\ armed
  /\ armed' = FALSE
  /\ pc' = "discover"
  /\ attempt' = attempt + 1
  /\ running' = running \ current
  /\ signal' = FALSE
  /\ UNCHANGED <<options, outside, watch, events, changed, launch, current,
                 serving, failed, exit>>

Debounce ==
  /\ pc = "select"
  /\ armed
  /\ armed' = FALSE
  /\ pc' = "discover"
  /\ attempt' = attempt + 1
  /\ signal' = FALSE
  /\ UNCHANGED <<options, outside, watch, events, changed, launch, fleet,
                 failed, exit>>

\* runWatchMode, or waitForShutdown
TakeInterrupt ==
  /\ pc \in {"select", "wait"}
  /\ signal
  /\ pc' = "stop"
  /\ exit' = "interrupted"
  /\ UNCHANGED <<options, outside, loop, attempt, launch, fleet, failed,
                 signal>>

-----------------------------------------------------------------------------
(* The rest of handleDebounce *)

\* stopWorkerList, one worker.
StopOld(w) ==
  /\ pc = "swap"
  /\ w \in running
  /\ running' = running \ {w}
  /\ UNCHANGED <<options, outside, loop, pc, attempt, launch, current,
                 serving, failed, signal, exit>>

Swapped ==
  /\ pc = "swap"
  /\ current \cap running = {}
  /\ current' = Started
  /\ serving' = loaded
  /\ failed' = FALSE
  /\ pc' = "refresh"
  /\ UNCHANGED <<options, outside, loop, attempt, launch, running, signal,
                 exit>>

\* refreshWatcher: all files are added; if that fails, nothing is removed.
RefreshWatcher ==
  \/ /\ Discovered # {}
     /\ \A f \in Discovered : disk[f] # Absent
     /\ watch' = Discovered
  \/ \E added \in SUBSET {f \in Discovered : disk[f] # Absent} :
       watch' = watch \cup added

\* Mutant: the events that came in the meantime are thrown away.
RefreshDroppingEvents ==
  /\ pc = "refresh"
  /\ RefreshWatcher
  /\ changed' = {}
  /\ events' = {}
  /\ pc' = "select"
  /\ UNCHANGED <<options, outside, armed, attempt, launch, fleet, failed,
                 signal, exit>>

Refresh ==
  /\ pc = "refresh"
  /\ RefreshWatcher
  /\ changed' = {}
  /\ pc' = "select"
  /\ UNCHANGED <<options, outside, events, armed, attempt, launch, fleet,
                 failed, signal, exit>>

-----------------------------------------------------------------------------
(* Shutdown *)

\* Whatever the process answers for is stopped, then the client is closed.
StopWorker(w) ==
  /\ pc = "stop"
  /\ w \in running
  /\ running' = running \ {w}
  /\ UNCHANGED <<options, outside, loop, pc, attempt, launch, current,
                 serving, failed, signal, exit>>

Close ==
  /\ pc = "stop"
  /\ current \cap running = {}
  /\ pc' = "closed"
  /\ UNCHANGED <<options, outside, loop, attempt, launch, fleet, failed,
                 signal, exit>>

\* Until the first turn of the loop, an interrupt kills the process. After that
\* it is given to the channels there are: one is only read in the select.
Interrupt ==
  /\ pc \notin {"stop", "closed"}
  /\ ~interrupted
  /\ IF attempt = 0 /\ pc \in Launching \cup {"setup"}
     THEN /\ pc' = "closed"
          /\ exit' = "killed"
          /\ running' = {}
          /\ UNCHANGED <<signal, interrupted>>
     ELSE /\ signal' = (pc \in {"select", "wait"})
          /\ interrupted' = TRUE
          /\ UNCHANGED <<pc, exit, running>>
  /\ UNCHANGED <<options, disk, edits, missable, loop, attempt, launch,
                 current, serving, failed>>

\* There may be nothing to do for ever.
Idle ==
  /\ pc \in {"select", "wait", "closed"}
  /\ UNCHANGED vars

Goroutine ==
  \/ Discover \/ DiscoverNothing
  \/ \E f \in Files : Load(f)
  \/ LoadFails
  \/ Build \/ BuildFails \/ BuildPanics
  \/ \E w \in Wanted : StartWorker(w)
  \/ \E w \in Started : UndoStart(w)
  \/ StartFails \/ Undone \/ StartedAll
  \/ Setup \/ SetupFails
  \/ \E f \in Files : TakeEvent(f)
  \/ Debounce \/ TakeInterrupt
  \/ \E w \in current : StopOld(w) \/ StopWorker(w)
  \/ Swapped \/ Refresh \/ Close

Next == (\E f \in Files : Edit(f)) \/ Interrupt \/ Goroutine \/ Idle

Spec == Init /\ [][Next]_vars

\* The goroutine runs; calls to Temporal and to the file system return.
FairSpec == Spec /\ WF_vars(Goroutine)

-----------------------------------------------------------------------------
(* Properties *)

\* The process is past startup, and has not been told to stop.
InLoop == attempt > 0 /\ pc \in Launching \cup {"swap", "refresh", "select"}

\* While workers are reloaded, one generation polls all of its task queues: the
\* old one until all of the new one has started ("so the system is never left
\* with zero workers").
NeverUnserved ==
  InLoop => /\ current # {}
            /\ current \subseteq running \/ (pc = "swap" /\ Wanted \subseteq running)

\* No worker is left over from an attempt that failed, or from the generation
\* before: between reloads exactly the current workers run, and none when the
\* client is closed, unless it was the watcher that could not be set up.
NoStrays ==
  /\ pc \in {"select", "wait", "refresh"} => running = current
  /\ pc = "closed" /\ exit # "unwatched" => running = {}

\* When nothing is left to do, the last attempt to load has seen every edit that
\* was written to a watched file, also those made while an earlier attempt was
\* reading; and the workers serve just these versions, unless it failed.
Settled == pc = "select" /\ events = {} /\ changed = {}

UpToDate ==
  Settled => \A f \in Files \ missable :
               /\ noticed[f] = disk[f]
               /\ failed \/ serving[f] = disk[f]

\* Events are not left lying: the loop comes to rest, or ends.
EditsSettle == events # {} ~> (Settled \/ pc = "closed")

=============================================================================
