--------------------------- MODULE GCParallelTask ---------------------------
(***************************************************************************)
(* js::GCParallelTask (gc/GCParallelTask.{h,cpp}): a unit of GC work that  *)
(* the main thread of a runtime hands to the helper threads and takes back *)
(* with join().  All of state_ and the worklist are only touched with the  *)
(* helper thread lock held, so one critical section is one action; a       *)
(* section that drops the lock (to run the task, or to sleep on a          *)
(* condition variable) is split where it drops it.                         *)
(*                                                                         *)
(* What run() computes is left to the modules that use tasks; here a run   *)
(* begins, may call setFinishing(), and ends.                              *)
(***************************************************************************)
EXTENDS Naturals, Sequences, FiniteSets, SequencesExt

CONSTANTS Tasks,    \* the GCParallelTask objects of one runtime
          Threads,  \* the helper threads
          Main,     \* the runtime's main thread
          NoTask    \* a helper thread's empty currentTask

ASSUME TasksAssumption ==
    /\ NoTask \notin Tasks
    /\ Main \notin Threads
    /\ Threads # {}

VARIABLES
    canUseExtraThreads, \* CanUseExtraThreads(): fixed for the process
    state,       \* GCParallelTask::state_
    cancel,      \* GCParallelTask::cancel_
    worklist,    \* GlobalHelperThreadState::gcParallelWorklist_
    currentTask, \* HelperThread::currentTask
    main,        \* the call the main thread is in, and where it is in it
    asleep,      \* threads blocked on a condition variable: the helpers on
                 \* PRODUCER, the main thread on CONSUMER
    owed         \* history: runs asked for and not yet completed

vars == <<canUseExtraThreads, state, cancel, worklist, currentTask, main,
          asleep, owed>>

States == {"Idle", "Dispatched", "Running", "Finishing", "Finished"}
Calls  == {"none", "join", "cancelAndWait", "startOrRunIfIdle", "run"}
Places == {"out", "lock", "wait", "body"}

Free == [call |-> "none", at |-> "out", task |-> NoTask]

TypeOK ==
    /\ canUseExtraThreads \in BOOLEAN
    /\ state \in [Tasks -> States]
    /\ cancel \in [Tasks -> BOOLEAN]
    /\ worklist \in Seq(Tasks)
    /\ currentTask \in [Threads -> Tasks \cup {NoTask}]
    /\ main \in [call : Calls, at : Places, task : Tasks \cup {NoTask}]
    /\ asleep \subseteq Threads \cup {Main}
    /\ owed \in [Tasks -> Nat]

Init ==
    /\ canUseExtraThreads \in BOOLEAN
    /\ state = [t \in Tasks |-> "Idle"]
    /\ cancel = [t \in Tasks |-> FALSE]
    /\ worklist = <<>>
    /\ currentTask = [h \in Threads |-> NoTask]
    /\ main = Free
    /\ asleep = {}
    /\ owed = [t \in Tasks |-> 0]

-----------------------------------------------------------------------------
\* Condition variables: notify_one wakes an arbitrary sleeper, if any.

NoNotifyOneProducer == UNCHANGED asleep \* mutant: the notification is missing

NotifyOneProducer ==
    \/ asleep \cap Threads = {} /\ UNCHANGED asleep
    \/ \E h \in asleep \cap Threads : asleep' = asleep \ {h}

NoNotifyAllConsumer == UNCHANGED asleep \* mutant

NotifyAllConsumer == asleep' = asleep \ {Main}

\* The pieces the entry points share, each inside a critical section.

SetState(t, s) == state' = [state EXCEPT ![t] = s]

StartWithLockHeld(t) ==
    /\ worklist' = Append(worklist, t)
    /\ SetState(t, "Dispatched")
    /\ owed' = [owed EXCEPT ![t] = @ + 1]
    /\ NotifyOneProducer

RunFromMainThread(c, t) == main' = [call |-> c, at |-> "body", task |-> t]

CancelWithoutRemove(t) == \* mutant: the task stays on the worklist
    UNCHANGED worklist /\ SetState(t, "Idle")

CancelDispatchedTask(t) ==
    /\ \E i \in 1..Len(worklist) : worklist[i] = t /\ worklist' = RemoveAt(worklist, i)
    /\ SetState(t, "Idle")

WaitFor(c, t) ==
    /\ main' = [call |-> c, at |-> "wait", task |-> t]
    /\ asleep' = asleep \cup {Main}

\* The end of joinRunningOrFinishedTask.
Joined(t) ==
    /\ SetState(t, "Idle")
    /\ cancel' = [cancel EXCEPT ![t] = FALSE]

JoinDropsDispatched(c, t) == \* mutant: a dispatched task is cancelled, not run
    \/ /\ state[t] = "Idle" /\ main' = Free
       /\ UNCHANGED <<state, cancel, worklist, asleep>>
    \/ /\ state[t] = "Dispatched" /\ CancelDispatchedTask(t) /\ main' = Free
       /\ UNCHANGED <<cancel, asleep>>
    \/ /\ state[t] \in {"Running", "Finishing"} /\ WaitFor(c, t)
       /\ UNCHANGED <<state, cancel, worklist>>
    \/ /\ state[t] = "Finished" /\ Joined(t) /\ main' = Free
       /\ UNCHANGED <<worklist, asleep>>

JoinFinishing(c, t) == \* mutant: a finishing task is taken for a finished one
    \/ /\ state[t] = "Idle" /\ main' = Free
       /\ UNCHANGED <<state, cancel, worklist, asleep>>
    \/ /\ state[t] = "Dispatched" /\ CancelDispatchedTask(t) /\ RunFromMainThread(c, t)
       /\ UNCHANGED <<cancel, asleep>>
    \/ /\ state[t] = "Running" /\ WaitFor(c, t)
       /\ UNCHANGED <<state, cancel, worklist>>
    \/ /\ state[t] \in {"Finishing", "Finished"} /\ Joined(t) /\ main' = Free
       /\ UNCHANGED <<worklist, asleep>>

JoinWithLockHeld(c, t) ==
    \/ /\ state[t] = "Idle"
       /\ main' = Free
       /\ UNCHANGED <<state, cancel, worklist, asleep>>
    \/ /\ state[t] = "Dispatched"
       /\ CancelDispatchedTask(t)
       /\ RunFromMainThread(c, t)
       /\ UNCHANGED <<cancel, asleep>>
    \/ /\ state[t] \in {"Running", "Finishing"}
       /\ WaitFor(c, t)
       /\ UNCHANGED <<state, cancel, worklist>>
    \/ /\ state[t] = "Finished"
       /\ Joined(t)
       /\ main' = Free
       /\ UNCHANGED <<worklist, asleep>>

WasStarted(t) == state[t] \in {"Dispatched", "Running"}

-----------------------------------------------------------------------------
\* Entry points, called by the main thread when it is in no other call.

\* start(): the callers have checked that helper threads exist and that the
\* task is idle.
Start(t) ==
    /\ main = Free
    /\ canUseExtraThreads
    /\ state[t] = "Idle"
    /\ StartWithLockHeld(t)
    /\ UNCHANGED <<canUseExtraThreads, cancel, currentTask, main>>

\* startOrRunIfIdle(): returns at once if the task was started; otherwise it
\* joins the previous invocation, sleeping if that one is still finishing,
\* and starts the task again, or runs it here when there are no threads.
StartOrRunIfIdle(t) ==
    /\ main = Free
    /\ ~WasStarted(t)
    /\ \/ /\ state[t] = "Finishing"
          /\ WaitFor("startOrRunIfIdle", t)
          /\ UNCHANGED <<state, cancel, worklist, owed>>
       \/ /\ state[t] = "Finished"
          /\ cancel' = [cancel EXCEPT ![t] = FALSE]
          /\ StartWithLockHeld(t)
          /\ UNCHANGED main
       \/ /\ state[t] = "Idle" /\ canUseExtraThreads
          /\ StartWithLockHeld(t)
          /\ UNCHANGED <<cancel, main>>
       \/ /\ state[t] = "Idle" /\ ~canUseExtraThreads
          /\ RunFromMainThread("startOrRunIfIdle", t)
          /\ owed' = [owed EXCEPT ![t] = @ + 1]
          /\ UNCHANGED <<state, cancel, worklist, asleep>>
    /\ UNCHANGED <<canUseExtraThreads, currentTask>>

\* join(): with an idle task there is nothing to do.
Join(t) ==
    /\ main = Free
    /\ state[t] # "Idle"
    /\ JoinWithLockHeld("join", t)
    /\ UNCHANGED <<canUseExtraThreads, currentTask, owed>>

\* cancelAndWait() stores cancel_ without the lock and then calls join().
CancelAndWait(t) ==
    /\ main = Free
    /\ cancel' = [cancel EXCEPT ![t] = TRUE]
    /\ main' = [call |-> "cancelAndWait", at |-> "lock", task |-> t]
    /\ UNCHANGED <<canUseExtraThreads, state, worklist, currentTask, asleep, owed>>

CancelAndWaitJoin ==
    /\ main.at = "lock"
    /\ JoinWithLockHeld("cancelAndWait", main.task)
    /\ UNCHANGED <<canUseExtraThreads, currentTask, owed>>

\* GC code that does not use the helper threads for a task runs it directly.
RunDirectly(t) ==
    /\ main = Free
    /\ state[t] = "Idle"
    /\ RunFromMainThread("run", t)
    /\ owed' = [owed EXCEPT ![t] = @ + 1]
    /\ UNCHANGED <<canUseExtraThreads, state, cancel, worklist, currentTask, asleep>>

\* runTask() on the main thread returns.
MainRunEnd ==
    /\ main.at = "body"
    /\ owed' = [owed EXCEPT ![main.task] = @ - 1]
    /\ main' = Free
    /\ UNCHANGED <<canUseExtraThreads, state, cancel, worklist, currentTask, asleep>>

\* The loop of joinRunningOrFinishedTask, after a wake-up.
JoinWake ==
    /\ main.at = "wait"
    /\ Main \notin asleep
    /\ LET t == main.task IN
       \/ /\ state[t] # "Finished"
          /\ asleep' = asleep \cup {Main}
          /\ UNCHANGED <<state, cancel, worklist, main, owed>>
       \/ /\ state[t] = "Finished"
          /\ main' = Free
          /\ IF main.call = "startOrRunIfIdle"
             THEN /\ cancel' = [cancel EXCEPT ![t] = FALSE]
                  /\ StartWithLockHeld(t)
             ELSE /\ Joined(t)
                  /\ UNCHANGED <<worklist, asleep, owed>>
    /\ UNCHANGED <<canUseExtraThreads, currentTask>>

-----------------------------------------------------------------------------
\* Helper threads.

\* threadLoop() finds no GC task and sleeps.
ThreadLoopWait(h) ==
    /\ canUseExtraThreads
    /\ h \notin asleep
    /\ currentTask[h] = NoTask
    /\ worklist = <<>>
    /\ asleep' = asleep \cup {h}
    /\ UNCHANGED <<canUseExtraThreads, state, cancel, worklist, currentTask, main, owed>>

\* mutant: the task is read from the list, not popped
HandleWithoutPop(h) ==
    /\ canUseExtraThreads
    /\ h \notin asleep
    /\ currentTask[h] = NoTask
    /\ worklist # <<>>
    /\ currentTask' = [currentTask EXCEPT ![h] = Head(worklist)]
    /\ SetState(Head(worklist), "Running")
    /\ UNCHANGED <<canUseExtraThreads, cancel, worklist, main, asleep, owed>>

\* handleGCParallelWorkload() up to the unlock in runFromHelperThread().
HandleGCParallelWorkload(h) ==
    /\ canUseExtraThreads
    /\ h \notin asleep
    /\ currentTask[h] = NoTask
    /\ worklist # <<>>
    /\ currentTask' = [currentTask EXCEPT ![h] = Head(worklist)]
    /\ worklist' = Tail(worklist)
    /\ SetState(Head(worklist), "Running")
    /\ UNCHANGED <<canUseExtraThreads, cancel, main, asleep, owed>>

\* run() announces that it is about to return.
SetFinishing(h) ==
    /\ currentTask[h] # NoTask
    /\ state[currentTask[h]] = "Running"
    /\ SetState(currentTask[h], "Finishing")
    /\ UNCHANGED <<canUseExtraThreads, cancel, worklist, currentTask, main, asleep, owed>>

\* run() has returned: the rest of runFromHelperThread() and of the handler.
RunFromHelperThreadEnd(h) ==
    /\ currentTask[h] # NoTask
    /\ SetState(currentTask[h], "Finished")
    /\ owed' = [owed EXCEPT ![currentTask[h]] = @ - 1]
    /\ currentTask' = [currentTask EXCEPT ![h] = NoTask]
    /\ NotifyAllConsumer
    /\ UNCHANGED <<canUseExtraThreads, cancel, worklist, main>>

\* A condition variable may wake a sleeper without a notification.
SpuriousWakeup ==
    /\ \E r \in asleep : asleep' = asleep \ {r}
    /\ UNCHANGED <<canUseExtraThreads, state, cancel, worklist, currentTask, main, owed>>

-----------------------------------------------------------------------------
Next ==
    \/ \E t \in Tasks : \/ Start(t) \/ StartOrRunIfIdle(t) \/ Join(t)
                        \/ CancelAndWait(t) \/ RunDirectly(t)
    \/ CancelAndWaitJoin \/ MainRunEnd \/ JoinWake
    \/ \E h \in Threads : \/ ThreadLoopWait(h) \/ HandleGCParallelWorkload(h)
                          \/ SetFinishing(h) \/ RunFromHelperThreadEnd(h)
    \/ SpuriousWakeup

(***************************************************************************)
(* Every thread the OS schedules keeps running and every run() returns;    *)
(* the main thread need not call anything, but finishes the calls it is in.*)
(***************************************************************************)
Fairness ==
    /\ WF_vars(CancelAndWaitJoin) /\ WF_vars(MainRunEnd) /\ WF_vars(JoinWake)
    /\ \A h \in Threads : /\ WF_vars(HandleGCParallelWorkload(h))
                          /\ WF_vars(RunFromHelperThreadEnd(h))

Spec == Init /\ [][Next]_vars /\ Fairness

-----------------------------------------------------------------------------
\* Safety.

RunsOnMain(t) == main.at = "body" /\ main.task = t
RunsOnHelper(t) == \E h \in Threads : currentTask[h] = t

(***************************************************************************)
(* No task is ever run by two threads at once: not by two helpers, and not *)
(* by a helper while the main thread, having taken a dispatched task back  *)
(* in joinWithLockHeld(), runs it itself.                                  *)
(***************************************************************************)
OneRunner ==
    /\ \A h1, h2 \in Threads :
         currentTask[h1] = currentTask[h2] /\ currentTask[h1] # NoTask => h1 = h2
    /\ \A t \in Tasks : ~(RunsOnMain(t) /\ RunsOnHelper(t))

(***************************************************************************)
(* A task is on the worklist, once, exactly while it is dispatched: a      *)
(* helper never pops a task that join() has already taken back.            *)
(***************************************************************************)
WorklistIsDispatched ==
    /\ IsInjective(worklist)
    /\ \A t \in Tasks : state[t] = "Dispatched" <=> Contains(worklist, t)

(***************************************************************************)
(* Every requested run happens exactly once: one is outstanding while the  *)
(* task is dispatched or being run, by a helper or by the main thread, and *)
(* none when the task has finished or join() has returned.                 *)
(***************************************************************************)
EachStartRunsOnce ==
    \A t \in Tasks :
        owed[t] = IF \/ state[t] \in {"Dispatched", "Running", "Finishing"}
                     \/ RunsOnMain(t)
                  THEN 1 ELSE 0

(***************************************************************************)
(* The assertions of setDispatched(), setRunning(), setFinishing(),        *)
(* setFinished() and setIdle(): from which state each may be entered.      *)
(***************************************************************************)
LegalFrom(s) ==
    CASE s = "Idle" -> {"Dispatched", "Finished"}
      [] s = "Dispatched" -> {"Idle", "Finished"} \* Finished: joined first
      [] s = "Running" -> {"Dispatched"}
      [] s = "Finishing" -> {"Running"}
      [] s = "Finished" -> {"Running", "Finishing"}
LegalTransitions ==
    [][\A t \in Tasks : state'[t] # state[t] => state[t] \in LegalFrom(state'[t])]_vars

(***************************************************************************)
(* The inductive invariant behind the above: where the main thread can be  *)
(* in a call, and that a task's state says whether a helper is running it. *)
(***************************************************************************)
MainPlace ==
    /\ main.at = "out" => main = Free
    /\ main.at # "out" => main.task \in Tasks
    /\ main.at = "body" => state[main.task] = "Idle"
    /\ main.at = "wait" => state[main.task] \in {"Running", "Finishing", "Finished"}
HelpersRun ==
    \A t \in Tasks : state[t] \in {"Running", "Finishing"} <=> RunsOnHelper(t)
IndInv == /\ TypeOK /\ MainPlace /\ HelpersRun
          /\ WorklistIsDispatched /\ OneRunner /\ EachStartRunsOnce

-----------------------------------------------------------------------------
\* Liveness.

(***************************************************************************)
(* Every call of the main thread returns: a join() that sleeps on CONSUMER *)
(* is always woken by the end of the run it waits for.                     *)
(***************************************************************************)
CallsReturn == main # Free ~> main = Free

-----------------------------------------------------------------------------
\* Refinement.

AsyncPhase(t) ==
    IF RunsOnMain(t) THEN "inline"
    ELSE CASE state[t] = "Idle" -> "idle"
           [] state[t] = "Dispatched" -> "pending"
           [] state[t] \in {"Running", "Finishing"} -> "running"
           [] OTHER -> "done"

Async == INSTANCE AsyncTask WITH phase <- [t \in Tasks |-> AsyncPhase(t)]

(***************************************************************************)
(* The task protocol implements asynchronous calls: every start is run     *)
(* once, off thread or by the main thread in join(), and the main thread   *)
(* neither starts nor collects a task while it is running one itself.      *)
(***************************************************************************)
SimulatesAsyncTask == Async!SafeSpec

(***************************************************************************)
(* And every dispatched task is eventually run, and every run ends.        *)
(***************************************************************************)
ImplementsAsyncTask == Async!Spec

=============================================================================
