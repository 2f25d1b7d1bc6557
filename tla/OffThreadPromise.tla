-------------------------- MODULE OffThreadPromise --------------------------
(***************************************************************************)
(* Promises resolved by off-thread work, with the engine's internal event  *)
(* loop: OffThreadPromiseTask and OffThreadPromiseRuntimeState             *)
(* (vm/OffThreadPromiseRuntimeState.{h,cpp}), and InternalJobQueue::runJobs*)
(* (vm/JSContext.cpp), whose first step drains that loop.                  *)
(*                                                                         *)
(* The JS thread runs scripts, resolves promises, runs jobs and finally    *)
(* shuts the runtime down; each task's work is done by a thread of its own.*)
(* One critical section of mutex_ is one action.                           *)
(***************************************************************************)
EXTENDS Naturals, Sequences, FiniteSets, SequencesExt

CONSTANTS Tasks,    \* the OffThreadPromiseTask objects ever made
          NoTask,
          MaxJobs,  \* bound on the promise jobs queued at one time
          ImportGettersRunJobs
          \* whether the getters that AsyncInstantiate() runs between init()
          \* and dispatchResolveAndDestroy() of its task may call script
          \* functions such as the shell's drainJobQueue()

ASSUME OffThreadPromiseAssumption ==
    /\ IsFiniteSet(Tasks)
    /\ NoTask \notin Tasks
    /\ MaxJobs \in Nat
    /\ ImportGettersRunJobs \in BOOLEAN

VARIABLES
    extraThreads, \* CanUseExtraThreads(): fixed for the process
    initialized,  \* dispatchToEventLoopCallback_ is set
    live,         \* live_
    numCanceled,  \* numCanceled_
    queue,        \* internalDispatchQueue_
    closed,       \* internalDispatchQueueClosed_
    jobs,         \* length of InternalJobQueue::queue
    draining,     \* InternalJobQueue::draining_
    interrupted,  \* InternalJobQueue::interrupted_
    owner,        \* who may touch each task
    at,           \* where the JS thread is
    stack,        \* the script activations it is in, innermost last
    popped,       \* internalDrain()'s d
    swapped,      \* shutdown()'s dispatchQueue
    asleep,       \* the JS thread is blocked on a condition variable
    deletions,    \* history: how often each task was deleted
    resolutions   \* history: how often resolve() was called

promiseVars == <<extraThreads, initialized, live, numCanceled, queue, closed>>
jobVars == <<jobs, draining, interrupted>>
vars == <<promiseVars, jobVars, owner, at, stack, popped, swapped, asleep,
          deletions, resolutions>>

(***************************************************************************)
(* A task belongs to the JS thread while it is being created, to a worker  *)
(* while the work is done, and then, in dispatchResolveAndDestroy(), to the*)
(* event loop if the callback accepts it.  If the callback has rejected it *)
(* the worker still has to count it.                                       *)
(***************************************************************************)
Owners == {"none", "main", "worker", "loop", "rejected", "counted", "deleted"}

(***************************************************************************)
(* The script activations on the JS thread's stack: the creation of a task,*)
(* whose import getters are script; resolve() of a task called from        *)
(* internalDrain(), or from StartOffThreadPromiseHelperTask() when there   *)
(* are no helper threads; and a promise job.                               *)
(***************************************************************************)
Frames == [kind : {"create", "resolve", "resolveHere"}, task : Tasks]
          \cup [kind : {"job"}, task : {NoTask}]

Places == {"uninit", "script", "drain", "drainWait", "popped", "jobs",
           "shutRun", "shutWait", "done"}

TypeOK ==
    /\ extraThreads \in BOOLEAN
    /\ initialized \in BOOLEAN
    /\ live \subseteq Tasks
    /\ numCanceled \in Nat
    /\ queue \in Seq(Tasks)
    /\ closed \in BOOLEAN
    /\ jobs \in 0..MaxJobs
    /\ draining \in BOOLEAN
    /\ interrupted \in BOOLEAN
    /\ owner \in [Tasks -> Owners]
    /\ at \in Places
    /\ stack \in Seq(Frames)
    /\ popped \in Tasks \cup {NoTask}
    /\ swapped \in Seq(Tasks)
    /\ asleep \in BOOLEAN
    /\ deletions \in [Tasks -> Nat]
    /\ resolutions \in [Tasks -> Nat]

Init ==
    /\ extraThreads \in BOOLEAN
    /\ initialized = FALSE /\ live = {} /\ numCanceled = 0
    /\ queue = <<>> /\ closed = FALSE
    /\ jobs = 0 /\ draining = FALSE /\ interrupted = FALSE
    /\ owner = [t \in Tasks |-> "none"]
    /\ at = "uninit" /\ stack = <<>> /\ popped = NoTask /\ swapped = <<>>
    /\ asleep = FALSE
    /\ deletions = [t \in Tasks |-> 0]
    /\ resolutions = [t \in Tasks |-> 0]

-----------------------------------------------------------------------------
Push(kind, t) == stack' = Append(stack, [kind |-> kind, task |-> t])
Pop == stack' = Front(stack)
InFrame(kind) == at = "script" /\ stack # <<>> /\ Last(stack).kind = kind
TopTask == Last(stack).task

\* Script can call anything, except that the getters run during a creation
\* are restricted by ImportGettersRunJobs.
InScript == /\ at = "script"
            /\ InFrame("create") => ImportGettersRunJobs

Own(t, o) == owner' = [owner EXCEPT ![t] = o]

\* js_delete of a set of tasks.
Delete(S) ==
    /\ owner' = [t \in Tasks |-> IF t \in S THEN "deleted" ELSE owner[t]]
    /\ deletions' = [t \in Tasks |-> deletions[t] + IF t \in S THEN 1 ELSE 0]

\* initInternalDispatchQueue(), from js::UseInternalJobQueues().
InitInternalDispatchQueue ==
    /\ at = "uninit"
    /\ initialized' = TRUE
    /\ at' = "script"
    /\ UNCHANGED <<extraThreads, live, numCanceled, queue, closed, jobVars, owner, stack, popped,
                   swapped, asleep, deletions, resolutions>>

-----------------------------------------------------------------------------
\* Creating a task on the JS thread.

\* OffThreadPromiseTask::init(); on failure the caller deletes the task,
\* which was never registered.
InitTask(t) ==
    /\ InScript
    /\ owner[t] = "none"
    /\ \/ /\ live' = live \cup {t}
          /\ Own(t, "main")
          /\ Push("create", t)
          /\ UNCHANGED deletions
       \/ Delete({t}) /\ UNCHANGED <<live, stack>>
    /\ UNCHANGED <<extraThreads, initialized, numCanceled, queue, closed, jobVars, at, popped, swapped,
                   asleep, resolutions>>

\* StartOffThreadPromiseHelperTask() queues the task for a helper thread.
HandOff ==
    /\ InFrame("create")
    /\ extraThreads
    /\ Own(TopTask, "worker")
    /\ Pop
    /\ UNCHANGED <<promiseVars, jobVars, at, popped, swapped, asleep, deletions,
                   resolutions>>

\* mutant: internalDispatchQueueAppended_ is not notified
EnqueueSilently(t) ==
    /\ ~closed
    /\ queue' = Append(queue, t)
    /\ Own(t, "loop")
    /\ UNCHANGED asleep

\* internalDispatchToEventLoop() of an open queue.
Enqueue(t) ==
    /\ ~closed
    /\ queue' = Append(queue, t)
    /\ Own(t, "loop")
    /\ asleep' = (asleep /\ at # "drainWait")

\* AsyncInstantiate() dispatches its task itself.
DispatchHere ==
    /\ InFrame("create")
    /\ Enqueue(TopTask)
    /\ Pop
    /\ UNCHANGED <<extraThreads, initialized, live, numCanceled, closed, jobVars, at, popped, swapped,
                   deletions, resolutions>>

\* The creation fails: the destructor unregisters the task.
DropUnstarted ==
    /\ InFrame("create")
    /\ live' = live \ {TopTask}
    /\ Delete({TopTask})
    /\ Pop
    /\ UNCHANGED <<extraThreads, initialized, numCanceled, queue, closed, jobVars, at, popped, swapped,
                   asleep, resolutions>>

\* executeAndResolveAndDestroy(): run() is called at once.
ExecuteHere ==
    /\ InFrame("create")
    /\ ~extraThreads
    /\ live' = live \ {TopTask}
    /\ stack' = [stack EXCEPT ![Len(stack)].kind = "resolveHere"]
    /\ resolutions' = [resolutions EXCEPT ![TopTask] = @ + 1]
    /\ UNCHANGED <<extraThreads, initialized, numCanceled, queue, closed, jobVars, owner, at, popped,
                   swapped, asleep, deletions>>

-----------------------------------------------------------------------------
\* InternalJobQueue and internalDrain(), on the JS thread.

EnqueuePromiseJob ==
    /\ InScript
    /\ jobs < MaxJobs
    /\ jobs' = jobs + 1
    /\ UNCHANGED <<promiseVars, draining, interrupted, owner, at, stack, popped, swapped,
                   asleep, deletions, resolutions>>

Interrupt ==
    /\ InScript
    /\ interrupted' = TRUE
    /\ UNCHANGED <<promiseVars, jobs, draining, owner, at, stack, popped, swapped,
                   asleep, deletions, resolutions>>

\* runJobs() returns at once when draining_ or interrupted_.
RunJobs ==
    /\ InScript
    /\ ~draining /\ ~interrupted
    /\ at' = "drain"
    /\ UNCHANGED <<promiseVars, jobVars, owner, stack, popped, swapped, asleep,
                   deletions, resolutions>>

\* internalDrain() returns to runJobs(), which goes on to the jobs.
DrainReturn ==
    /\ at = "drain"
    /\ live = {}
    /\ at' = "jobs"
    /\ draining' = TRUE
    /\ UNCHANGED <<promiseVars, jobs, interrupted, owner, stack, popped, swapped, asleep,
                   deletions, resolutions>>

DrainWait ==
    /\ \/ at = "drain" /\ live # {}
       \/ at = "drainWait" /\ ~asleep
    /\ queue = <<>>
    /\ at' = "drainWait"
    /\ asleep' = TRUE
    /\ UNCHANGED <<promiseVars, jobVars, owner, stack, popped, swapped, deletions,
                   resolutions>>

DrainPop ==
    /\ \/ at = "drain" /\ live # {}
       \/ at = "drainWait" /\ ~asleep
    /\ queue # <<>>
    /\ popped' = Head(queue)
    /\ queue' = Tail(queue)
    /\ at' = "popped"
    /\ UNCHANGED <<extraThreads, initialized, live, numCanceled, closed, jobVars, owner, stack, swapped,
                   asleep, deletions, resolutions>>

\* mutant: the task is unregistered only by its destructor
RunRegistered ==
    /\ at = "popped"
    /\ resolutions' = [resolutions EXCEPT ![popped] = @ + 1]
    /\ Push("resolve", popped)
    /\ popped' = NoTask
    /\ at' = "script"
    /\ UNCHANGED <<promiseVars, jobVars, owner, swapped, asleep, deletions>>

\* OffThreadPromiseTask::run(NotShuttingDown), up to the script that resolve()
\* may run.
Run ==
    /\ at = "popped"
    /\ live' = live \ {popped}
    /\ resolutions' = [resolutions EXCEPT ![popped] = @ + 1]
    /\ Push("resolve", popped)
    /\ popped' = NoTask
    /\ at' = "script"
    /\ UNCHANGED <<extraThreads, initialized, numCanceled, queue, closed, jobVars, owner, swapped,
                   asleep, deletions>>

\* resolve() returns and run() deletes the task.
RunEnd ==
    /\ \/ InFrame("resolve") /\ at' = "drain"
       \/ InFrame("resolveHere") /\ UNCHANGED at
    /\ Delete({TopTask})
    /\ Pop
    /\ UNCHANGED <<promiseVars, jobVars, popped, swapped, asleep, resolutions>>

RunJobUnchecked == \* mutant: the job queue is not checked for emptiness
    /\ at = "jobs" /\ ~interrupted
    /\ jobs' = jobs - 1
    /\ Push("job", NoTask)
    /\ at' = "script"
    /\ UNCHANGED <<promiseVars, draining, interrupted, owner, popped, swapped, asleep,
                   deletions, resolutions>>

RunJob ==
    /\ at = "jobs"
    /\ jobs > 0 /\ ~interrupted
    /\ jobs' = jobs - 1
    /\ Push("job", NoTask)
    /\ at' = "script"
    /\ UNCHANGED <<promiseVars, draining, interrupted, owner, popped, swapped, asleep,
                   deletions, resolutions>>

RunJobEnd ==
    /\ InFrame("job")
    /\ at' = "jobs"
    /\ Pop
    /\ UNCHANGED <<promiseVars, jobVars, owner, popped, swapped, asleep, deletions,
                   resolutions>>

\* The end of the job loop: runJobs() returns when it was interrupted or when
\* internalHasPending() finds no live task; otherwise it drains again.
JobsEnd ==
    /\ at = "jobs"
    /\ jobs = 0 \/ interrupted
    /\ draining' = FALSE
    /\ interrupted' = FALSE
    /\ at' = IF interrupted \/ live = {} THEN "script" ELSE "drain"
    /\ UNCHANGED <<promiseVars, jobs, owner, stack, popped, swapped, asleep, deletions,
                   resolutions>>

-----------------------------------------------------------------------------
\* shutdown(), called when no script is active.

ShutdownCloseCopies == \* mutant: the queue is copied and not swapped
    /\ at = "script" /\ stack = <<>>
    /\ swapped' = queue
    /\ closed' = TRUE
    /\ at' = "shutRun"
    /\ UNCHANGED <<extraThreads, initialized, live, numCanceled, queue, jobVars, owner,
                   stack, popped, asleep, deletions, resolutions>>

ShutdownClose ==
    /\ at = "script" /\ stack = <<>>
    /\ swapped' = queue
    /\ queue' = <<>>
    /\ closed' = TRUE
    /\ at' = "shutRun"
    /\ UNCHANGED <<extraThreads, initialized, live, numCanceled, jobVars, owner, stack, popped, asleep,
                   deletions, resolutions>>

\* run(ShuttingDown) of an accepted task does not call resolve().
ShutdownRun ==
    /\ at = "shutRun"
    /\ swapped # <<>>
    /\ live' = live \ {Head(swapped)}
    /\ Delete({Head(swapped)})
    /\ swapped' = Tail(swapped)
    /\ UNCHANGED <<extraThreads, initialized, numCanceled, queue, closed, jobVars, at, stack, popped,
                   asleep, resolutions>>

AtShutdownLoop == \/ at = "shutRun" /\ swapped = <<>>
                  \/ at = "shutWait" /\ ~asleep

ShutdownWait ==
    /\ AtShutdownLoop
    /\ Cardinality(live) # numCanceled
    /\ at' = "shutWait"
    /\ asleep' = TRUE
    /\ UNCHANGED <<promiseVars, jobVars, owner, stack, popped, swapped, deletions,
                   resolutions>>

ShutdownDeleteUncounted == \* mutant: does not wait for the rejected to be counted
    /\ AtShutdownLoop
    /\ Delete(live)
    /\ live' = {}
    /\ numCanceled' = 0
    /\ initialized' = FALSE
    /\ at' = "done"
    /\ UNCHANGED <<extraThreads, queue, closed, jobVars, stack, popped, swapped, asleep,
                   resolutions>>

ShutdownDelete ==
    /\ AtShutdownLoop
    /\ Cardinality(live) = numCanceled
    /\ Delete(live)
    /\ live' = {}
    /\ numCanceled' = 0
    /\ initialized' = FALSE
    /\ at' = "done"
    /\ UNCHANGED <<extraThreads, queue, closed, jobVars, stack, popped, swapped, asleep,
                   resolutions>>

-----------------------------------------------------------------------------
\* Workers, in dispatchResolveAndDestroy().

Dispatch(t) ==
    /\ owner[t] = "worker"
    /\ \/ Enqueue(t)
       \/ closed /\ Own(t, "rejected") /\ UNCHANGED <<queue, asleep>>
    /\ UNCHANGED <<extraThreads, initialized, live, numCanceled, closed, jobVars, at, stack, popped,
                   swapped, deletions, resolutions>>

CountSilently(t) == \* mutant: allCanceled_ is not notified
    /\ owner[t] = "rejected"
    /\ Own(t, "counted")
    /\ numCanceled' = numCanceled + 1
    /\ UNCHANGED <<extraThreads, initialized, live, queue, closed, jobVars, at, stack,
                   popped, swapped, asleep, deletions, resolutions>>

CountCanceled(t) ==
    /\ owner[t] = "rejected"
    /\ Own(t, "counted")
    /\ numCanceled' = numCanceled + 1
    /\ asleep' = (asleep /\ ~(at = "shutWait" /\ numCanceled + 1 = Cardinality(live)))
    /\ UNCHANGED <<extraThreads, initialized, live, queue, closed, jobVars, at, stack, popped, swapped,
                   deletions, resolutions>>

SpuriousWakeup ==
    /\ asleep
    /\ asleep' = FALSE
    /\ UNCHANGED <<promiseVars, jobVars, owner, at, stack, popped, swapped, deletions,
                   resolutions>>

Terminated == at = "done" /\ UNCHANGED vars

-----------------------------------------------------------------------------
Main == \/ InitInternalDispatchQueue
        \/ HandOff \/ DispatchHere \/ DropUnstarted \/ ExecuteHere
        \/ EnqueuePromiseJob \/ Interrupt \/ RunJobs
        \/ DrainReturn \/ DrainWait \/ DrainPop \/ Run \/ RunEnd
        \/ RunJob \/ RunJobEnd \/ JobsEnd
        \/ ShutdownClose \/ ShutdownRun \/ ShutdownWait \/ ShutdownDelete

Next == \/ Main
        \/ \E t \in Tasks : InitTask(t) \/ Dispatch(t) \/ CountCanceled(t)
        \/ SpuriousWakeup
        \/ Terminated

(***************************************************************************)
(* Workers finish, script returns, and the JS thread completes what it is  *)
(* in; it need not start anything.                                         *)
(***************************************************************************)
Fairness ==
    /\ \A t \in Tasks : WF_vars(Dispatch(t)) /\ WF_vars(CountCanceled(t))
    /\ WF_vars(DrainWait) /\ WF_vars(DrainPop) /\ WF_vars(ShutdownRun)
    /\ WF_vars(ShutdownWait) /\ WF_vars(ShutdownDelete)

Spec == Init /\ [][Next]_vars /\ Fairness

-----------------------------------------------------------------------------
\* Safety.

(***************************************************************************)
(* A task is deleted only when its owner is done with it: before it was    *)
(* handed to a worker, after the event loop accepted it, or after it was   *)
(* rejected and counted; never while a worker may still write into it or   *)
(* has yet to touch the runtime's state for it (shutdown(), run()).        *)
(***************************************************************************)
DeletesOnlyFinished ==
    [][\A t \in Tasks : owner'[t] = "deleted" /\ owner[t] # "deleted"
            => owner[t] \in {"none", "main", "loop", "counted"}]_vars

(***************************************************************************)
(* No task is deleted or resolved twice, by the event loop, by a reentrant *)
(* drain or by shutdown(): whatever the event loop holds is live and in its*)
(* queue once, and the tasks counted as cancelled are among the live ones, *)
(* so that their number meets live_.count() only from below (the assertions*)
(* of internalDrain(), internalHasPending() and shutdown()).  After        *)
(* shutdown() every task ever made is gone, the event loop is empty, and no*)
(* worker is inside dispatchResolveAndDestroy().                           *)
(***************************************************************************)
DeletedOnce ==
    /\ \A t \in Tasks : deletions[t] <= 1 /\ resolutions[t] <= 1
    /\ IsInjective(queue \o swapped)
    /\ ToSet(queue \o swapped) \subseteq live
    /\ numCanceled <= Cardinality(live)
    /\ at = "done" => /\ queue = <<>>
                      /\ \A t \in Tasks : owner[t] \in {"none", "deleted"}

(***************************************************************************)
(* "If none are in the queue, block until one of them finishes and enqueues*)
(* a dispatchable" (internalDrain()): when the JS thread is blocked, what  *)
(* it waits for has not happened yet, and some live task is in the hands of*)
(* another thread which will bring it about; in shutdown() too.            *)
(***************************************************************************)
DrainCanBeWoken ==
    /\ at = "drainWait" /\ queue = <<>> => \E t \in live : owner[t] = "worker"
    /\ at = "shutWait" => \A t \in live : owner[t] \in {"worker", "rejected", "counted"}
    /\ asleep => \/ at = "drainWait" /\ queue = <<>>
                 \/ at = "shutWait" /\ Cardinality(live) # numCanceled

-----------------------------------------------------------------------------
\* Liveness.

(***************************************************************************)
(* shutdown() returns: every outstanding task is dispatched, rejected and  *)
(* counted, and the last of them wakes the JS thread.                      *)
(***************************************************************************)
ShutdownReturns == at = "shutRun" ~> at = "done"

(***************************************************************************)
(* A drain that blocks is woken by the next task to finish.                *)
(***************************************************************************)
DrainWakes == at = "drainWait" ~> at = "popped"

=============================================================================
