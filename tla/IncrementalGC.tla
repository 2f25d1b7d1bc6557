---------------------------- MODULE IncrementalGC ----------------------------
(***************************************************************************)
(* GCRuntime's incremental collector (gc/GC.cpp): the state machine of     *)
(* incrementalSlice() on the main thread and its handshake with the sweep, *)
(* free and decommit tasks, the slices they ask for, resets, minor         *)
(* collections and off-thread parsing.                                     *)
(*                                                                         *)
(* One critical section of the helper thread lock is one action.  A call   *)
(* that blocks (join, or startOrRunIfIdle on a task that is finishing) is  *)
(* an action that is not enabled yet; what a GCParallelTask does itself is *)
(* module GCParallelTask.  When the main thread runs a task's body, the    *)
(* task is idle and nobody else touches what it works on, so that body is  *)
(* one step.  Of the heap, a zone's collection state and its arenas left   *)
(* to finalize are kept; which zones are dead, how much a slice gets done  *)
(* and which zones are collected are free choices.                         *)
(***************************************************************************)
EXTENDS Naturals, Sequences, SequencesExt, FiniteSets

CONSTANTS Zones,  \* the zones of the runtime
          Atoms   \* the atoms zone

ASSUME ZonesAssumption == Atoms \in Zones /\ IsFiniteSet(Zones)

VARIABLES
    canUseExtraThreads,   \* CanUseExtraThreads(): fixed for the process
    gc,         \* incrementalState and the flags that go with it
    main,       \* where the main thread is, where it goes after a call, and the
                \* gcCycle() it is in: its budget, and what collect() does next
    zone,       \* Zone::gcState_; "Freed" after Zone::destroy()
    toSweep,    \* zones with arenasToSweep() for the background
    toCompact,  \* zonesToMaybeCompact
    task,       \* GCParallelTask::state_; "Working": running, and past the
                \* first critical section of run()
    held,       \* the ZoneList the sweep task has taken
    backgroundSweepZones, \* the ZoneList it has still to take
    free,       \* what is queued for the free task: TRUE for not empty
    requestSlice,         \* requestSliceAfterBackgroundTask
    majorGCTriggerReason,
    storing,    \* the reason a thread in requestMajorGC() is about to store
    parse,      \* hasHelperThreadZones() and fullGCForAtomsRequested_
    dropped     \* history: gcIfRequested() has dropped the only request that
                \* stood for a slice a waiting collection needs

heapVars == <<zone, toSweep, toCompact>>
taskVars == <<task, held, backgroundSweepZones>>
askVars  == <<requestSlice, majorGCTriggerReason, storing>>
rest     == <<canUseExtraThreads, parse, dropped>>
vars     == <<heapVars, taskVars, askVars, rest, gc, main, free>>

Tasks   == {"sweep", "free", "decommit"}
States  == {"NotActive", "Mark", "Sweep", "Finalize", "Compact", "Decommit",
            "Finish"}
Reasons == {"NO_REASON", "BG_TASK_FINISHED", "DELAYED_ATOMS_GC",
            "ALLOC_TRIGGER"}
ZoneStates == {"NoGC", "Mark", "MarkGray", "Sweep", "Finished", "Freed"}
TaskStates == {"Idle", "Dispatched", "Running", "Working", "Finishing", "Finished"}
Places  == {"out", "request", "nursery", "transfer", "free", "begin", "slice",
            "purge", "queue", "startSweep", "nextGroup", "join", "joined",
            "decommit", "finish", "end"}

Out == [at |-> "out", then |-> "out", unlimited |-> FALSE, reset |-> FALSE,
        repeat |-> FALSE, fromMark |-> FALSE]

GCs   == [state : States, isCompacting : BOOLEAN, startedCompacting : BOOLEAN,
          lastMarkSlice : BOOLEAN, abortSweep : BOOLEAN, onBackground : BOOLEAN]
Mains == [at : Places, then : Places, unlimited : BOOLEAN, reset : BOOLEAN,
          repeat : BOOLEAN, fromMark : BOOLEAN]
Lists == Seq(Zones)
Frees == [lifo : BOOLEAN, lifoAfterMinorGC : BOOLEAN, buffers : BOOLEAN]

TypeOK ==
    /\ canUseExtraThreads \in BOOLEAN /\ dropped \in BOOLEAN
    /\ gc \in GCs /\ main \in Mains /\ free \in Frees
    /\ zone \in [Zones -> ZoneStates]
    /\ toSweep \subseteq Zones /\ toCompact \subseteq Zones
    /\ task \in [Tasks -> TaskStates]
    /\ held \in Lists /\ backgroundSweepZones \in Lists
    /\ requestSlice \in BOOLEAN /\ majorGCTriggerReason \in Reasons
    /\ storing \in [Tasks \cup {"main"} -> Reasons]
    /\ parse \in [active : BOOLEAN, atomsGC : BOOLEAN]

Init ==
    /\ canUseExtraThreads \in BOOLEAN /\ dropped = FALSE
    /\ gc = [state |-> "NotActive", isCompacting |-> FALSE,
             startedCompacting |-> FALSE, lastMarkSlice |-> FALSE,
             abortSweep |-> FALSE, onBackground |-> FALSE]
    /\ main = Out
    /\ zone = [z \in Zones |-> "NoGC"] /\ toSweep = {} /\ toCompact = {}
    /\ task = [t \in Tasks |-> "Idle"] /\ held = <<>> /\ backgroundSweepZones = <<>>
    /\ free = [lifo |-> FALSE, lifoAfterMinorGC |-> FALSE, buffers |-> FALSE]
    /\ requestSlice = FALSE /\ majorGCTriggerReason = "NO_REASON"
    /\ storing = [t \in Tasks \cup {"main"} |-> "NO_REASON"]
    /\ parse = [active |-> FALSE, atomsGC |-> FALSE]

InProgress == gc.state # "NotActive"

\* The states that wait for a background task, and the task they wait for.
Waits     == gc.state \in {"Finalize", "Decommit"}
TaskOf(s) == IF s = "Finalize" THEN "sweep" ELSE "decommit"

At(place)   == main.at = place
Goto(place) == main' = [main EXCEPT !.at = place]
Return      == main' = [main EXCEPT !.at = main.then, !.then = "out"]

ZonesIn(s)     == {z \in Zones : zone[z] = s}
SetZones(S, s) == zone' = [z \in Zones |-> IF z \in S THEN s ELSE zone[z]]

\* A sweep or decommit task in requestMajorGC() holds the helper thread lock.
LockFree == \A t \in Tasks : storing[t] = "NO_REASON"

WasStarted(t) == task[t] \in {"Dispatched", "Running", "Working"}

SetTask(t, s) == task' = [task EXCEPT ![t] = s]

-----------------------------------------------------------------------------
\* The helper threads.

TaskBegin(t) ==
    /\ LockFree
    /\ task[t] = "Dispatched"
    /\ SetTask(t, "Running")
    /\ UNCHANGED <<heapVars, held, backgroundSweepZones, askVars, rest, gc, main,
                   free>>

FinishWithoutRequest(t) == \* mutant: the flag is cleared and nothing asked for
    requestSlice' = FALSE /\ SetTask(t, "Finishing")
    /\ UNCHANGED <<majorGCTriggerReason, storing>>

\* setFinishing() with maybeRequestGCAfterBackgroundTask() in the same
\* critical section; the load of majorGCTriggerReason and the store to it are
\* two steps, since the main thread touches it without the lock.
FinishAndMaybeRequest(t) ==
    /\ requestSlice' = FALSE
    /\ IF requestSlice /\ majorGCTriggerReason = "NO_REASON"
       THEN /\ storing' = [storing EXCEPT ![t] = "BG_TASK_FINISHED"]
            /\ UNCHANGED task
       ELSE SetTask(t, "Finishing") /\ UNCHANGED storing
    /\ UNCHANGED majorGCTriggerReason

StoreRequest(t) ==
    /\ storing[t] # "NO_REASON"
    /\ majorGCTriggerReason' = storing[t]
    /\ storing' = [storing EXCEPT ![t] = "NO_REASON"]
    /\ SetTask(t, "Finishing")
    /\ UNCHANGED <<heapVars, held, backgroundSweepZones, requestSlice, rest, gc,
                   main, free>>

\* sweepBackgroundThings(): the zone at the front of the list.
SweepZone ==
    /\ held # <<>>
    /\ held' = Tail(held)
    /\ toSweep' = toSweep \ {Head(held)}
    /\ UNCHANGED <<zone, toCompact, task, backgroundSweepZones, askVars, rest, gc,
                   main, free>>

\* A round of sweepFromBackgroundThread(): the zones queued so far are taken.
SweepTaskRound ==
    /\ LockFree
    /\ \/ task["sweep"] = "Running"
       \/ task["sweep"] = "Working" /\ held = <<>> /\ backgroundSweepZones # <<>>
    /\ held' = backgroundSweepZones /\ backgroundSweepZones' = <<>>
    /\ SetTask("sweep", "Working")
    /\ UNCHANGED <<heapVars, askVars, rest, gc, main, free>>

SweepTaskLastRound ==
    /\ LockFree
    /\ task["sweep"] = "Working" /\ held = <<>> /\ backgroundSweepZones = <<>>
    /\ FinishAndMaybeRequest("sweep")
    /\ UNCHANGED <<heapVars, held, backgroundSweepZones, rest, gc, main, free>>

\* freeFromBackgroundThread(): a round, and the last look.
FreeTaskRun ==
    /\ LockFree
    /\ IF task["free"] = "Running" \/ free.lifo \/ free.buffers
       THEN /\ task["free"] \in {"Running", "Working"}
            /\ free' = [free EXCEPT !.lifo = FALSE, !.buffers = FALSE]
            /\ SetTask("free", "Working")
       ELSE /\ task["free"] = "Working"
            /\ SetTask("free", "Finishing") /\ UNCHANGED free
    /\ UNCHANGED <<heapVars, held, backgroundSweepZones, askVars, rest, gc, main>>

DecommitTaskRun ==
    /\ LockFree
    /\ task["decommit"] = "Running"
    /\ FinishAndMaybeRequest("decommit")
    /\ UNCHANGED <<heapVars, held, backgroundSweepZones, rest, gc, main, free>>

\* runFromHelperThread() after run() has returned.
TaskEnd(t) ==
    /\ LockFree
    /\ task[t] = "Finishing"
    /\ SetTask(t, "Finished")
    /\ UNCHANGED <<heapVars, held, backgroundSweepZones, askVars, rest, gc, main,
                   free>>

Helper(t) ==
    \/ TaskBegin(t) \/ StoreRequest(t) \/ TaskEnd(t)
    \/ t = "sweep" /\ (SweepTaskRound \/ SweepZone \/ SweepTaskLastRound)
    \/ t = "free" /\ FreeTaskRun
    \/ t = "decommit" /\ DecommitTaskRun

-----------------------------------------------------------------------------
\* What the main thread does to a task.

bodyVars == <<toSweep, backgroundSweepZones, free, requestSlice,
              majorGCTriggerReason>>

\* run() called on the main thread, the task being idle.
RunFromMainThread(t) ==
    /\ toSweep' = IF t = "sweep" THEN toSweep \ ToSet(backgroundSweepZones)
                                 ELSE toSweep
    /\ backgroundSweepZones' = IF t = "sweep" THEN <<>> ELSE backgroundSweepZones
    /\ free' = IF t = "free" THEN [free EXCEPT !.lifo = FALSE, !.buffers = FALSE]
                             ELSE free
    /\ requestSlice' = (requestSlice /\ t = "free")
    /\ majorGCTriggerReason' =
           IF requestSlice /\ t # "free" /\ majorGCTriggerReason = "NO_REASON"
           THEN "BG_TASK_FINISHED" ELSE majorGCTriggerReason

\* GCParallelTask::join() at the moment it returns.
Join(t) ==
    /\ LockFree
    /\ task[t] \in {"Idle", "Finished", "Dispatched"}
    /\ SetTask(t, "Idle")
    /\ IF task[t] = "Dispatched" THEN RunFromMainThread(t) ELSE UNCHANGED bodyVars

\* GCParallelTask::startOrRunIfIdle() at the moment it returns.
StartOrRunIfIdle(t) ==
    /\ LockFree
    /\ task[t] # "Finishing"
    /\ IF WasStarted(t) THEN UNCHANGED <<task, bodyVars>>
       ELSE IF canUseExtraThreads
            THEN SetTask(t, "Dispatched") /\ UNCHANGED bodyVars
            ELSE SetTask(t, "Idle") /\ RunFromMainThread(t)

-----------------------------------------------------------------------------
\* Minor collections: what the nursery leaves for the free task.

\* Nursery::collect(): an empty nursery queues nothing, and does not wait.
QueueBuffersForFreeAfterMinorGC ==
    /\ At("nursery")
    /\ \/ Goto("transfer") /\ UNCHANGED <<task, bodyVars>>
       \/ free.buffers /\ Join("free") /\ UNCHANGED main
       \/ /\ ~free.buffers /\ LockFree
          /\ free' = [free EXCEPT !.buffers = TRUE]
          /\ Goto("transfer")
          /\ UNCHANGED <<task, toSweep, backgroundSweepZones, requestSlice,
                         majorGCTriggerReason>>
    /\ UNCHANGED <<zone, toCompact, held, storing, rest, gc>>

\* startBackgroundFreeAfterMinorGC(), its first critical section.
TransferLifoBlocks ==
    /\ At("transfer") /\ LockFree
    /\ free' = [free EXCEPT !.lifo = free.lifo \/ free.lifoAfterMinorGC,
                            !.lifoAfterMinorGC = FALSE]
    /\ IF free'.lifo \/ free.buffers THEN Goto("free") ELSE Return
    /\ UNCHANGED <<heapVars, taskVars, askVars, rest, gc>>

StartBackgroundFree ==
    /\ At("free")
    /\ StartOrRunIfIdle("free")
    /\ Return
    /\ UNCHANGED <<zone, toCompact, held, storing, rest, gc>>

MinorGC ==
    /\ At("out")
    /\ main' = [Out EXCEPT !.at = "nursery"]
    /\ UNCHANGED <<heapVars, taskVars, askVars, rest, gc, free>>

-----------------------------------------------------------------------------
\* collect() and gcCycle().

\* resetIncrementalGC(): what is dropped of a collection in progress.
ResetIncrementalGC ==
    /\ \/ /\ gc.state = "Mark" /\ LockFree
          /\ SetZones(ZonesIn("Mark"), "NoGC")
          /\ free' = [free EXCEPT !.lifo = FALSE]
          /\ gc' = [gc EXCEPT !.state = "Finish", !.lastMarkSlice = FALSE]
          /\ UNCHANGED toCompact
       \/ /\ gc.state \in {"Sweep", "Finalize"}
          /\ gc' = [gc EXCEPT !.isCompacting = FALSE,
                              !.abortSweep = @ \/ gc.state = "Sweep"]
          /\ UNCHANGED <<zone, free, toCompact>>
       \/ /\ gc.state = "Compact"
          /\ gc' = [gc EXCEPT !.startedCompacting = TRUE]
          /\ toCompact' = {}
          /\ UNCHANGED <<zone, free>>
       \/ gc.state = "Decommit" /\ UNCHANGED <<gc, zone, free, toCompact>>
    /\ UNCHANGED toSweep

\* shouldCollectNurseryForSlice(), in the state a reset has left.
MayEvict(unlimited) ==
    CASE gc'.state \in {"NotActive", "Sweep", "Compact"}        -> {TRUE}
      [] gc'.state \in {"Mark", "Finalize", "Decommit"}         ->
           IF unlimited \/ gc'.lastMarkSlice THEN {TRUE} ELSE BOOLEAN
      [] gc'.state = "Finish"                                   -> {FALSE}

\* budgetIncrementalGC(): a slice is reset for many reasons, and has then no limit.
BudgetIncrementalGC(unlimited, reset) ==
    /\ reset => unlimited /\ InProgress
    /\ IF reset THEN ResetIncrementalGC ELSE UNCHANGED <<heapVars, gc, free>>

\* The head of gcCycle(): the budget, a reset, and whether to evict the nursery.
GcCycle(unlimited, reset, repeat) ==
    /\ BudgetIncrementalGC(unlimited, reset)
    /\ \E evict \in MayEvict(unlimited) :
         main' = [at |-> IF evict THEN "nursery" ELSE "begin",
                  then |-> "begin", unlimited |-> unlimited, reset |-> reset,
                  repeat |-> repeat, fromMark |-> gc'.state = "Mark"]
    /\ UNCHANGED <<taskVars, askVars, rest>>

\* gc(), startGC() or gcSlice() called by the embedding.
Collect ==
    /\ At("out")
    /\ \E unlimited, reset \in BOOLEAN : GcCycle(unlimited, reset, TRUE)

AbortGC == At("out") /\ InProgress /\ GcCycle(TRUE, TRUE, FALSE)

\* finishGC(): an unlimited slice, without compacting unless the collection
\* was started for lack of memory (then it is Collect; in Compact, AbortGC).
FinishGCNoCompact ==
    /\ At("out") /\ InProgress /\ gc.state # "Compact"
    /\ gc' = [gc EXCEPT !.isCompacting = FALSE]
    /\ Goto("finish")
    /\ UNCHANGED <<heapVars, taskVars, askVars, rest, free>>

FinishGC == At("finish") /\ \E reset \in BOOLEAN : GcCycle(TRUE, reset, TRUE)

\* gcIfRequested(), called by the polls of running script.
GcIfRequested ==
    /\ At("out") /\ majorGCTriggerReason # "NO_REASON"
    /\ ~(majorGCTriggerReason = "DELAYED_ATOMS_GC" /\ parse.active)
    /\ \E unlimited, reset \in BOOLEAN : GcCycle(unlimited, reset, TRUE)

SkipDelayedAtomsGC ==
    /\ At("out") /\ majorGCTriggerReason = "DELAYED_ATOMS_GC" /\ parse.active
    /\ majorGCTriggerReason' = "NO_REASON"
    /\ dropped' = (Waits /\ ~requestSlice /\ LockFree)
    /\ UNCHANGED <<heapVars, taskVars, requestSlice, storing, canUseExtraThreads,
                   parse, gc, main, free>>

\* gcCycle() from the clearing of majorGCTriggerReason on.
BeginSlice ==
    /\ At("begin")
    /\ majorGCTriggerReason' = "NO_REASON"
    /\ dropped' = FALSE
    /\ main' = [main EXCEPT !.at = "slice", !.then = "out"]
    /\ UNCHANGED <<heapVars, taskVars, requestSlice, storing, canUseExtraThreads,
                   parse, gc, free>>

\* The end of a gcCycle(): collect() returns, or runs another one at once after
\* a reset, for revived compartments, or for roots dropped during shutdown.
EndCycle ==
    /\ At("end")
    /\ \/ /\ InProgress \/ ~main.reset \/ ~main.repeat
          /\ main' = Out
          /\ UNCHANGED <<heapVars, taskVars, askVars, rest, gc, free>>
       \/ /\ ~InProgress /\ main.repeat
          /\ \E unlimited \in BOOLEAN : GcCycle(unlimited, FALSE, TRUE)

-----------------------------------------------------------------------------
\* incrementalSlice().

Slice(s)    == At("slice") /\ gc.state = s
SetState(s) == gc' = [gc EXCEPT !.state = s]

BeginMarkPhaseStuck == \* mutant: MarkRoots is not left when there is no zone
    /\ Slice("NotActive")
    /\ SetState("MarkRoots") /\ Goto("end")
    /\ UNCHANGED <<heapVars, taskVars, askVars, rest, free>>

\* beginMarkPhase() up to startBackgroundFreeAfterMinorGC().
BeginMarkPhase ==
    /\ Slice("NotActive")
    /\ \/ Goto("end") /\ UNCHANGED <<zone, gc, free>> \* no zone to collect
       \/ \E S \in (SUBSET ZonesIn("NoGC")) \ {{}}, compact, jit \in BOOLEAN,
             background \in {FALSE, canUseExtraThreads} :
            /\ Atoms \in S => ~parse.active
            /\ SetZones(S, "Mark")
            /\ gc' = [gc EXCEPT !.isCompacting = compact,
                                !.onBackground = background]
            /\ free' = [free EXCEPT !.lifoAfterMinorGC = @ \/ jit]
            /\ main' = [main EXCEPT !.at = "transfer", !.then = "purge"]
    /\ UNCHANGED <<toSweep, toCompact, taskVars, askVars, rest>>

\* purgeRuntime(), root marking, and the budget if gray roots were not buffered.
PurgeRuntime ==
    /\ At("purge") /\ LockFree
    /\ \E unused, failed \in BOOLEAN :
         /\ free' = [free EXCEPT !.lifo = @ \/ unused]
         /\ main' = [main EXCEPT !.at = "slice", !.unlimited = @ \/ failed]
    /\ SetState("Mark")
    /\ UNCHANGED <<heapVars, taskVars, askVars, rest>>

\* The zones of the next sweep group.  Every zone may point into the atoms
\* zone, so that one is in the last group; a non-incremental slice merges all.
SweepGroups ==
    IF main.unlimited THEN {ZonesIn("Mark")}
    ELSE {G \in SUBSET ZonesIn("Mark") :
            G # {} /\ (Atoms \in G => G = ZonesIn("Mark"))}

\* The zones of the next group are marked gray; this may take several slices.
MarkGrayReferencesInCurrentGroup ==
    \E G \in SweepGroups : SetZones(G, "MarkGray")

MarkSlice ==
    /\ Slice("Mark")
    /\ \/ ~main.unlimited /\ Goto("end") \* over budget
          /\ UNCHANGED <<zone, gc>>
       \/ /\ ~main.unlimited /\ ~gc.lastMarkSlice /\ main.fromMark
          /\ gc' = [gc EXCEPT !.lastMarkSlice = TRUE]
          /\ Goto("end")
          /\ UNCHANGED zone
       \/ /\ main.unlimited \/ gc.lastMarkSlice \/ ~main.fromMark
          /\ gc' = [gc EXCEPT !.state = "Sweep", !.lastMarkSlice = FALSE]
          /\ MarkGrayReferencesInCurrentGroup
          /\ main' = [main EXCEPT !.fromMark = FALSE]
    /\ UNCHANGED <<toSweep, toCompact, taskVars, askVars, rest, free>>

\* beginSweepingSweepGroup(), and the type blocks the group leaves to free.
BeginSweepingSweepGroup ==
    /\ Slice("Sweep") /\ LockFree
    /\ LET G == ZonesIn("MarkGray")
       IN  G # {} /\ SetZones(G, "Sweep") /\ toSweep' = toSweep \cup G
    /\ \E types \in BOOLEAN : free' = [free EXCEPT !.lifo = @ \/ types]
    /\ UNCHANGED <<toCompact, taskVars, askVars, rest, gc, main>>

\* performSweepActions(): over budget, while the group is marked or while it is
\* swept, or on to endSweepingSweepGroup().
SweepSlice ==
    /\ Slice("Sweep")
    /\ \/ ~main.unlimited /\ Goto("end")
       \/ /\ ZonesIn("MarkGray") = {}
          /\ main' = [main EXCEPT !.at = "free", !.then = "queue"]
    /\ UNCHANGED <<heapVars, taskVars, askVars, rest, gc, free>>

ZoneListsAnyOrder(G) == SetToSeqs(G) \* mutant: the atoms zone comes in its turn

\* The lists endSweepingSweepGroup() may make of a group: the atoms zone last.
ZoneLists(G) == IF Atoms \in G
                THEN {Append(s, Atoms) : s \in SetToSeqs(G \ {Atoms})}
                ELSE SetToSeqs(G)

QueueZonesUnlessActive == \* mutant: a finishing task counts as started
    /\ At("queue") /\ LockFree
    /\ SetZones(ZonesIn("Sweep"), "Finished")
    /\ \E s \in ZoneLists(ZonesIn("Sweep")) :
         backgroundSweepZones' = backgroundSweepZones \o s
    /\ IF WasStarted("sweep") \/ task["sweep"] = "Finishing" THEN UNCHANGED task
       ELSE SetTask("sweep", "Dispatched")
    /\ Goto("nextGroup")
    /\ UNCHANGED <<toSweep, toCompact, held, askVars, rest, gc, free>>

\* queueZonesAndStartBackgroundSweep().
QueueZones ==
    /\ At("queue") /\ LockFree
    /\ SetZones(ZonesIn("Sweep"), "Finished")
    /\ \E s \in ZoneLists(ZonesIn("Sweep")) :
         backgroundSweepZones' = backgroundSweepZones \o s
    /\ IF gc.onBackground /\ task["sweep"] # "Finishing"
       THEN /\ IF WasStarted("sweep") THEN UNCHANGED task
                                      ELSE SetTask("sweep", "Dispatched")
            /\ Goto("nextGroup")
       ELSE Goto("startSweep") /\ UNCHANGED task
    /\ UNCHANGED <<toSweep, toCompact, held, askVars, rest, gc, free>>

\* The rest of it, when it had to wait for the last run or runs the task here.
StartSweep ==
    /\ At("startSweep") /\ LockFree
    /\ task["sweep"] \in {"Idle", "Finished"}
    /\ IF gc.onBackground
       THEN SetTask("sweep", "Dispatched") /\ UNCHANGED bodyVars
       ELSE SetTask("sweep", "Idle") /\ RunFromMainThread("sweep")
    /\ Goto("nextGroup")
    /\ UNCHANGED <<zone, toCompact, held, storing, rest, gc>>

GetNextGroupKeepingZones == \* mutant: the groups left over are not aborted
    /\ At("nextGroup")
    /\ IF ZonesIn("Mark") = {} \/ gc.abortSweep
       THEN /\ gc' = [gc EXCEPT !.state = "Finalize"]
            /\ UNCHANGED zone
       ELSE MarkGrayReferencesInCurrentGroup /\ UNCHANGED gc
    /\ Goto("slice")
    /\ UNCHANGED <<toSweep, toCompact, taskVars, askVars, rest, free>>

\* getNextSweepGroup(), and endSweepPhase() after the last one.
GetNextSweepGroup ==
    /\ At("nextGroup")
    /\ IF ZonesIn("Mark") = {} \/ gc.abortSweep
       THEN /\ SetZones(ZonesIn("Mark"), "NoGC")
            /\ gc' = [gc EXCEPT !.state = "Finalize", !.abortSweep = FALSE]
       ELSE MarkGrayReferencesInCurrentGroup /\ UNCHANGED gc
    /\ Goto("slice")
    /\ UNCHANGED <<toSweep, toCompact, taskVars, askVars, rest, free>>

YieldWhileActive == \* mutant: a finishing task is waited for like a started one
    /\ At("slice") /\ Waits
    /\ ~main.unlimited /\ LockFree
    /\ WasStarted(TaskOf(gc.state)) \/ task[TaskOf(gc.state)] = "Finishing"
    /\ requestSlice' = TRUE
    /\ Goto("end")
    /\ UNCHANGED <<heapVars, taskVars, majorGCTriggerReason, storing, rest, gc,
                   free>>

YieldForTask ==
    /\ At("slice") /\ Waits
    /\ ~main.unlimited /\ LockFree
    /\ WasStarted(TaskOf(gc.state))
    /\ requestSlice' = TRUE
    /\ Goto("end")
    /\ UNCHANGED <<heapVars, taskVars, majorGCTriggerReason, storing, rest, gc,
                   free>>

GoOnToJoin ==
    /\ At("slice") /\ Waits
    /\ main.unlimited \/ (LockFree /\ ~WasStarted(TaskOf(gc.state)))
    /\ Goto("join")
    /\ UNCHANGED <<heapVars, taskVars, askVars, rest, gc, free>>

JoinSkipped == \* mutant: the task is not waited for
    /\ At("join")
    /\ Goto("joined")
    /\ UNCHANGED <<heapVars, taskVars, askVars, rest, gc, free>>

JoinTask ==
    /\ At("join")
    /\ Join(TaskOf(gc.state))
    /\ Goto("joined")
    /\ UNCHANGED <<zone, toCompact, held, storing, rest, gc>>

CancelRequestedGC ==
    majorGCTriggerReason' = IF majorGCTriggerReason = "BG_TASK_FINISHED"
                            THEN "NO_REASON" ELSE majorGCTriggerReason

\* The rest of the Finalize state: sweepZones() destroys the dead zones.
FinalizeZones ==
    /\ At("joined") /\ gc.state = "Finalize"
    /\ CancelRequestedGC
    /\ \E dead \in SUBSET (ZonesIn("Finished") \ {Atoms}) : SetZones(dead, "Freed")
    /\ SetState("Compact")
    /\ Goto(IF gc.isCompacting /\ ~main.unlimited THEN "end" ELSE "slice")
    /\ UNCHANGED <<toSweep, toCompact, taskVars, requestSlice, storing, rest, free>>

\* The Compact state up to startDecommit(): one zone at least, the rest later.
CompactSlice ==
    /\ Slice("Compact")
    /\ LET todo == IF gc.startedCompacting THEN toCompact ELSE ZonesIn("Finished")
       IN  \/ /\ gc' = [gc EXCEPT !.startedCompacting = @ /\ ~gc.isCompacting]
              /\ toCompact' = IF gc.isCompacting THEN {} ELSE toCompact
              /\ Goto("decommit")
           \/ /\ gc.isCompacting /\ ~main.unlimited
              /\ \E z \in todo : toCompact' = todo \ {z} /\ todo # {z}
              /\ gc' = [gc EXCEPT !.startedCompacting = TRUE]
              /\ Goto("end")
    /\ UNCHANGED <<zone, toSweep, taskVars, askVars, rest, free>>

StartDecommit ==
    /\ At("decommit")
    /\ \/ UNCHANGED <<task, bodyVars>> \* nothing to decommit
       \/ /\ gc.onBackground /\ LockFree
          /\ SetTask("decommit", "Dispatched") /\ UNCHANGED bodyVars
       \/ /\ ~gc.onBackground /\ LockFree
          /\ RunFromMainThread("decommit") /\ UNCHANGED task
    /\ SetState("Decommit")
    /\ Goto("slice")
    /\ UNCHANGED <<zone, toCompact, held, storing, rest>>

DecommitDone ==
    /\ At("joined") /\ gc.state = "Decommit"
    /\ CancelRequestedGC
    /\ SetState("Finish")
    /\ Goto("slice")
    /\ UNCHANGED <<heapVars, taskVars, requestSlice, storing, rest, free>>

\* finishCollection(); isCompacting and sweepOnBackgroundThread, which nothing
\* reads before the next collection sets them, are forgotten.
FinishCollection ==
    /\ Slice("Finish")
    /\ SetZones(ZonesIn("Finished"), "NoGC")
    /\ gc' = [gc EXCEPT !.state = "NotActive", !.isCompacting = FALSE,
                        !.onBackground = FALSE]
    /\ Goto("end")
    /\ UNCHANGED <<toSweep, toCompact, taskVars, askVars, rest, free>>

-----------------------------------------------------------------------------
\* The mutator.

\* requestMajorGC() on the main thread: the load, then the store.
Request(r) ==
    IF majorGCTriggerReason = "NO_REASON"
    THEN Goto("request") /\ storing' = [storing EXCEPT !["main"] = r]
    ELSE UNCHANGED <<main, storing>>

StoreTrigger ==
    /\ At("request")
    /\ majorGCTriggerReason' = storing["main"]
    /\ storing' = [storing EXCEPT !["main"] = "NO_REASON"]
    /\ Goto("out")
    /\ UNCHANGED <<heapVars, taskVars, requestSlice, rest, gc, free>>

\* A zone's heap passes its threshold; the atoms zone's may while a parse
\* allocates in it.
AllocTrigger ==
    /\ At("out")
    /\ Request("ALLOC_TRIGGER")
    /\ UNCHANGED <<heapVars, taskVars, requestSlice, majorGCTriggerReason, rest,
                   gc, free>>

AtomsTrigger ==
    /\ At("out") /\ parse.active
    /\ parse' = [parse EXCEPT !.atomsGC = TRUE]
    /\ UNCHANGED <<heapVars, taskVars, askVars, canUseExtraThreads, dropped, gc,
                   main, free>>

StartParse ==
    /\ At("out") /\ ~parse.active
    /\ zone[Atoms] = "NoGC"
    /\ parse' = [parse EXCEPT !.active = TRUE]
    /\ UNCHANGED <<heapVars, taskVars, askVars, canUseExtraThreads, dropped, gc,
                   main, free>>

\* clearUsedByHelperThread().
EndParse ==
    /\ At("out") /\ parse.active
    /\ parse' = [active |-> FALSE, atomsGC |-> FALSE]
    /\ IF parse.atomsGC THEN Request("DELAYED_ATOMS_GC")
                        ELSE UNCHANGED <<main, storing>>
    /\ UNCHANGED <<heapVars, taskVars, requestSlice, majorGCTriggerReason,
                   canUseExtraThreads, dropped, gc, free>>

\* waitBackgroundSweepEnd(), waitBackgroundFreeEnd() and the joins of
\* onOutOfMallocMemory(), between slices.
WaitForTask(t) ==
    /\ At("out")
    /\ task[t] # "Idle"
    /\ Join(t)
    /\ UNCHANGED <<zone, toCompact, held, storing, rest, gc, main>>

NewZone(z) ==
    /\ At("out") /\ zone[z] = "Freed"
    /\ zone' = [zone EXCEPT ![z] = "NoGC"]
    /\ UNCHANGED <<toSweep, toCompact, taskVars, askVars, rest, gc, main, free>>

-----------------------------------------------------------------------------
\* Steps the main thread takes once a collection or a request has begun.
Collector ==
    \/ QueueBuffersForFreeAfterMinorGC \/ TransferLifoBlocks \/ StartBackgroundFree
    \/ FinishGC \/ BeginSlice \/ EndCycle
    \/ BeginMarkPhase \/ PurgeRuntime \/ MarkSlice \/ BeginSweepingSweepGroup
    \/ SweepSlice \/ QueueZones \/ StartSweep \/ GetNextSweepGroup
    \/ YieldForTask \/ GoOnToJoin \/ JoinTask \/ FinalizeZones
    \/ CompactSlice \/ StartDecommit \/ DecommitDone \/ FinishCollection
    \/ StoreTrigger

Mutator ==
    \/ MinorGC \/ Collect \/ AbortGC \/ FinishGCNoCompact
    \/ GcIfRequested \/ SkipDelayedAtomsGC
    \/ AllocTrigger \/ AtomsTrigger \/ StartParse \/ EndParse
    \/ \E t \in Tasks : WaitForTask(t)
    \/ \E z \in Zones : NewZone(z)

Next == Collector \/ Mutator \/ \E t \in Tasks : Helper(t)

Spec == Init /\ [][Next]_vars

\* Helper threads run what is dispatched, the main thread goes on with what it
\* has begun, and running script polls for interrupts again and again.
Fairness == /\ \A t \in Tasks : WF_vars(Helper(t))
            /\ WF_vars(Collector)
            /\ SF_vars(GcIfRequested \/ SkipDelayedAtomsGC)

FairSpec == Spec /\ Fairness

-----------------------------------------------------------------------------
\* Properties.

\* What is handed to the background is dealt with.  While zones are queued the
\* sweep task has still to look at the list, or the main thread is about to
\* start it (the "must check there is no more work" of
\* sweepFromBackgroundThread()).  Nursery buffers are never forgotten between
\* two minor collections (the assertion of queueBuffersForFreeAfterMinorGC()),
\* and a collection that is over leaves no LIFO blocks nobody is going to free.
BackgroundWorkIsComing ==
    /\ backgroundSweepZones # <<>> =>
         \/ WasStarted("sweep") /\ storing["sweep"] = "NO_REASON"
         \/ At("startSweep")
    /\ free.buffers => \/ WasStarted("free")
                       \/ main.at \in {"transfer", "free"} /\ main.then # "queue"
    /\ free.lifo /\ At("out") /\ ~InProgress => WasStarted("free")

\* A collection that has yielded in Finalize or Decommit gets its next slice:
\* a set requestSliceAfterBackgroundTask is going to be seen by the task the
\* collection waits for (so it is clear wherever the code asserts it is), and
\* when it is not set the slice has been requested, unless gcIfRequested() has
\* dropped a request for an atoms collection that stood for it.
SliceIsComing ==
    /\ requestSlice => /\ Waits
                       /\ WasStarted(TaskOf(gc.state))
                       /\ storing[TaskOf(gc.state)] = "NO_REASON"
    /\ At("out") /\ Waits =>
         requestSlice \/ majorGCTriggerReason # "NO_REASON" \/ ~LockFree \/ dropped

\* assertBackgroundSweepingFinished() and decommitTask.isIdle() wherever the
\* code asserts them: outside Sweep and Finalize no zone has anything left to
\* sweep, outside Decommit the decommit task is idle, and until then a zone the
\* sweep task has or will get is neither destroyed nor out of the collection.
BackgroundIsQuiet ==
    /\ gc.state \notin {"Sweep", "Finalize"} =>
         held = <<>> /\ backgroundSweepZones = <<>> /\ toSweep = {}
    /\ gc.state # "Decommit" => task["decommit"] = "Idle"
    /\ ToSet(held \o backgroundSweepZones) \subseteq toSweep \cap ZonesIn("Finished")

\* The atoms zone is finalized in the background after every other zone, which
\* may have pointers into it (sweepBackgroundThings()).
AtomsSweptLast ==
    [][(Atoms \in toSweep /\ Atoms \notin toSweep') => (toSweep' = {})]_vars

\* A slice that begins with a reset ends with the collection over (the
\* assertion at the end of gcCycle()), no zone stays behind in a state of the
\* collection, and compaction leaves nothing behind either.
ResetEndsCollection ==
    /\ At("end") /\ main.reset => ~InProgress
    /\ At("end") /\ ~InProgress => \A z \in Zones : zone[z] \in {"NoGC", "Freed"}
    /\ gc.state # "Compact" => ~gc.startedCompacting /\ toCompact = {}
    /\ At("out") /\ gc.state = "Compact" => gc.isCompacting
    /\ gc.abortSweep => gc.state = "Sweep" /\ main.unlimited

\* A collection waiting for its background task goes on, unless the request
\* for its slice was dropped.
WaitEnds == Waits ~> ~Waits \/ dropped

=============================================================================
