---------------------------- MODULE HelperThreads ----------------------------
(***************************************************************************)
(* The helper-thread scheduler (vm/HelperThreads.{h,cpp}): a fixed pool of *)
(* threads that take tasks of nine kinds, in order of priority and subject *)
(* to limits, from worklists filled by the main thread and by each other.  *)
(* Three kinds are "masters": a thread that runs one blocks until other    *)
(* threads have run the wasm compilation batches it launches               *)
(* (wasm/WasmGenerator.cpp).  The main thread may at any time wait for all *)
(* threads, cancel the work of one kind and wait, or shut the pool down.   *)
(*                                                                         *)
(* The helper lock protects all of this; a thread holds it from the end of *)
(* one task to the start of the next, so that is one action.               *)
(***************************************************************************)
EXTENDS Naturals, Sequences, FiniteSets, SequencesExt

CONSTANTS Threads,       \* the pool
          Backlog,       \* tier-2 generators waiting beyond which tier 2 is
                         \* oversubscribed; 20 in the code
          MaxBatches,    \* bound: batches launched by one master
          MaxGenerators, \* bound: tier-2 generators created
          Budget,        \* bound: tasks of each kind submitted by the main thread
          None

\* The kinds of task, from the highest priority to the lowest (taskSpecs).
Priority == <<"gc", "ion", "wasm1", "promise", "parse", "compress", "ionFree",
              "wasm2", "generator">>
Kinds == ToSet(Priority)
Masters == {"promise", "parse", "generator"}
Compiles == {"wasm1", "wasm2"}
Submitted == Kinds \ (Compiles \cup {"generator"})

\* GetCPUCount() is at least 2 wherever wasm compiles in parallel, and then
\* threadCount = cpuCount.
ThreadCount == Cardinality(Threads)
CpuCount == ThreadCount

ASSUME HelperThreadsAssumption ==
    /\ IsFiniteSet(Threads) /\ ThreadCount >= 2
    /\ Backlog \in Nat /\ MaxBatches \in Nat /\ MaxGenerators \in Nat
    /\ Budget \in [Submitted -> Nat]
    /\ None \notin Threads \cup Kinds

VARIABLES
    work,        \* the worklist of each kind; a compile task is given by the
                 \* thread whose master waits for it
    waitingOnGC, \* parseWaitingOnGC_ (its length)
    uncompressed, \* compressionPendingList_ (its length)
    collecting,  \* activeGCInAtomsZone()
    at,          \* where each thread is
    task,        \* HelperThread::currentTask (its kind)
    owner,       \* for a thread in a compile task, the thread waiting for it
    batches,     \* for a thread in a master, the batches it has yet to launch
    failed,      \* for a thread in a master: a batch failed, or it gave up
    cancelled,   \* the threads whose tier-2 generator has been cancelled
    terminate,   \* the threads told to terminate
    main,        \* what the main thread is doing
    mainAsleep,  \* it sleeps on CONSUMER
    genFinished, \* wasmTier2GeneratorsFinished_ differs from oldFinishedCount
    left,        \* bound: tasks the main thread may still submit
    created      \* bound: generators created

lists == <<work, waitingOnGC, uncompressed>>
masters == <<batches, failed, cancelled>>
mainVars == <<main, mainAsleep, genFinished>>
bounds == <<left, created>>
vars == <<lists, collecting, at, task, owner, masters, terminate, mainVars, bounds>>

Places == {"asleep", "awake", "run", "relock", "dead"}
Waits == {"generator", "generatorFinish", "all", "compressStart", "ion", "parse", "compress", "join"}

TypeOK ==
    /\ work \in [Kinds -> Seq(Threads \cup {None})]
    /\ waitingOnGC \in Nat /\ uncompressed \in Nat
    /\ collecting \in BOOLEAN
    /\ at \in [Threads -> Places]
    /\ task \in [Threads -> Kinds \cup {None}]
    /\ owner \in [Threads -> Threads \cup {None}]
    /\ batches \in [Threads -> Nat]
    /\ failed \in [Threads -> BOOLEAN]
    /\ cancelled \subseteq Threads /\ terminate \subseteq Threads
    /\ main \in Waits \cup {"run", "finished"}
    /\ mainAsleep \in BOOLEAN /\ genFinished \in BOOLEAN
    /\ left \in [Submitted -> Nat] /\ created \in Nat

Init ==
    /\ work = [k \in Kinds |-> <<>>]
    /\ waitingOnGC = 0 /\ uncompressed = 0
    /\ collecting = FALSE
    /\ at = [t \in Threads |-> "awake"]
    /\ task = [t \in Threads |-> None]
    /\ owner = [t \in Threads |-> None]
    /\ batches = [t \in Threads |-> 0]
    /\ failed = [t \in Threads |-> FALSE]
    /\ cancelled = {} /\ terminate = {}
    /\ main = "run" /\ mainAsleep = FALSE /\ genFinished = FALSE
    /\ left = Budget /\ created = 0

-----------------------------------------------------------------------------
\* Which task may start.  The current tasks are a parameter, because a thread
\* looks for its next task when it has reset its own.

\* Variant: a master may take the last idle thread.
CheckIgnoringMasters(cur, kinds, maxThreads, isMaster) ==
    \/ maxThreads >= ThreadCount
    \/ Cardinality({t \in Threads : cur[t] \in kinds}) < maxThreads

CheckTaskThreadLimit(cur, kinds, maxThreads, isMaster) ==
    LET idle == Cardinality({t \in Threads : cur[t] = None})
    IN \/ ~isMaster /\ maxThreads >= ThreadCount
       \/ /\ Cardinality({t \in Threads : cur[t] \in kinds}) < maxThreads
          /\ idle > 0
          /\ isMaster => idle # 1

Oversubscribed == Len(work["generator"]) > Backlog

PhysCoresAvailable == (CpuCount + 2) \div 3

\* canStartWasmCompile() of either tier.
CanStartWasmCompile(cur, k) ==
    LET threads == IF k = "wasm2"
                   THEN IF Oversubscribed THEN CpuCount ELSE PhysCoresAvailable
                   ELSE IF Oversubscribed THEN 0 ELSE CpuCount
    IN threads > 0 /\ CheckTaskThreadLimit(cur, Compiles, threads, FALSE)

CanStart(cur, k) ==
    /\ work[k] # <<>>
    /\ CASE k \in {"gc", "ion"} -> CheckTaskThreadLimit(cur, {k}, ThreadCount, FALSE)
         [] k \in Compiles -> CanStartWasmCompile(cur, k)
         [] k \in {"promise", "parse"} -> CheckTaskThreadLimit(cur, {k}, CpuCount, TRUE)
         [] k = "compress" -> CheckTaskThreadLimit(cur, {k}, 1, FALSE)
         [] k = "ionFree" -> TRUE
         [] k = "generator" -> CheckTaskThreadLimit(cur, {k}, 1, TRUE)

\* findHighestPriorityTask()
HighestPriority(cur, k) ==
    \E i \in DOMAIN Priority :
        /\ k = Priority[i] /\ CanStart(cur, k)
        /\ \A j \in 1..(i - 1) : ~CanStart(cur, Priority[j])

-----------------------------------------------------------------------------
\* The condition variables.

Asleep == {t \in Threads : at[t] = "asleep"}

\* Variant: nobody is told of a new task.
NoNotifyProducer == UNCHANGED at

NotifyOneProducer ==
    \/ Asleep = {} /\ UNCHANGED at
    \/ \E t \in Asleep : at' = [at EXCEPT ![t] = "awake"]

NotifyAllProducer == at' = [t \in Threads |-> IF at[t] = "asleep" THEN "awake" ELSE at[t]]

\* Variant: the main thread is not told.
NoNotifyConsumer(t) == UNCHANGED mainAsleep

\* A thread that resets its current task tells the main thread.
NotifyConsumer(t) == mainAsleep' = (mainAsleep /\ task[t] = None)

\* The list a master's batches are on, wasmWorklist(lock, mode()).
Worklist(t) == IF task[t] = "generator" THEN "wasm2" ELSE "wasm1"

\* Fifo::eraseIf(): the batches of other masters, in their order.  (SelectSeq in
\* closed form.)
EraseIf(s, t) ==
    LET keep == {i \in 1..Len(s) : s[i] # t}
        rank(i) == Cardinality({h \in keep : h <= i})
    IN  [j \in 1..Cardinality(keep) |-> s[CHOOSE i \in keep : rank(i) = j]]

\* Threads whose batches are pending or being compiled.
Outstanding(t) ==
    \/ \E k \in Compiles : t \in ToSet(work[k])
    \/ \E u \in Threads : at[u] = "run" /\ owner[u] = t

-----------------------------------------------------------------------------
\* The life of a helper thread.

(***************************************************************************)
(* A thread that has been woken, or has finished its task and taken the    *)
(* lock again: it resets its current task, tells the main thread, and takes*)
(* the next task or sleeps.  Freeing Ion data is no current task.          *)
(***************************************************************************)
Loop(t) ==
    /\ at[t] \in {"awake", "relock"}
    /\ LET idle == [task EXCEPT ![t] = None] IN
       \/ /\ t \in terminate
          /\ at' = [at EXCEPT ![t] = "dead"]
          /\ task' = idle
          /\ UNCHANGED <<work, owner, masters>>
       \/ /\ t \notin terminate
          /\ ~\E k \in Kinds : CanStart(idle, k)
          /\ at' = [at EXCEPT ![t] = "asleep"]
          /\ task' = idle
          /\ UNCHANGED <<work, owner, masters>>
       \/ \E k \in Kinds, n \in 0..MaxBatches :
          /\ t \notin terminate
          /\ HighestPriority(idle, k)
          /\ n > 0 => k \in Masters
          /\ at' = [at EXCEPT ![t] = "run"]
          /\ task' = [idle EXCEPT ![t] = IF k = "ionFree" THEN None ELSE k]
          /\ owner' = [owner EXCEPT ![t] = Head(work[k])]
          /\ work' = [work EXCEPT ![k] = Tail(@)]
          /\ batches' = [batches EXCEPT ![t] = n]
          /\ failed' = [failed EXCEPT ![t] = FALSE]
          /\ cancelled' = cancelled \ {t}
    /\ NotifyConsumer(t)
    /\ genFinished' = (genFinished \/ task[t] = "generator")
    /\ UNCHANGED <<waitingOnGC, uncompressed, collecting, terminate, main, bounds>>

\* The task of t is done and t is about to take the helper lock.
RunTaskEnd(t) == at' = [at EXCEPT ![t] = "relock"]

\* A task that depends on no other thread.
SimpleTaskEnd(t) ==
    /\ at[t] = "run" /\ task[t] \notin Masters \cup Compiles
    /\ RunTaskEnd(t)
    /\ UNCHANGED <<lists, collecting, task, owner, masters, terminate, mainVars, bounds>>

\* ExecuteCompileTaskFromHelperThread(): the master is told before the helper
\* lock is taken.
CompileTaskEnd(t, ok) ==
    /\ at[t] = "run" /\ task[t] \in Compiles
    /\ RunTaskEnd(t)
    /\ failed' = [failed EXCEPT ![owner[t]] = @ \/ ~ok]
    /\ owner' = [owner EXCEPT ![t] = None]
    /\ UNCHANGED <<lists, collecting, task, batches, cancelled, terminate, mainVars, bounds>>

\* Variant: a batch is launched although none is left.
LaunchUnchecked(t) ==
    /\ at[t] = "run" /\ task[t] \in Masters
    /\ ~failed[t] /\ t \notin cancelled
    /\ work' = [work EXCEPT !["wasm1"] = Append(@, t)]
    /\ batches' = [batches EXCEPT ![t] = @ - 1]
    /\ NotifyOneProducer
    /\ UNCHANGED <<waitingOnGC, uncompressed, collecting, task, owner, failed, cancelled,
                   terminate, mainVars, bounds>>

\* ModuleGenerator::launchBatchCompile()
LaunchBatch(t) ==
    /\ at[t] = "run" /\ task[t] \in Masters
    /\ batches[t] > 0 /\ ~failed[t] /\ t \notin cancelled
    /\ work' = [work EXCEPT ![Worklist(t)] = Append(@, t)]
    /\ batches' = [batches EXCEPT ![t] = @ - 1]
    /\ NotifyOneProducer
    /\ UNCHANGED <<waitingOnGC, uncompressed, collecting, task, owner, failed, cancelled,
                   terminate, mainVars, bounds>>

\* A compilation gives up, because of an error in the module, a failed batch
\* or a cancellation: ~ModuleGenerator() takes back the pending batches.
GiveUp(t) ==
    /\ at[t] = "run" /\ task[t] \in Masters
    /\ batches[t] > 0 \/ (failed[t] /\ t \in ToSet(work[Worklist(t)]))
    /\ batches' = [batches EXCEPT ![t] = 0]
    /\ failed' = [failed EXCEPT ![t] = TRUE]
    /\ work' = [work EXCEPT ![Worklist(t)] = EraseIf(@, t)]
    /\ UNCHANGED <<waitingOnGC, uncompressed, collecting, at, task, owner, cancelled, terminate,
                   mainVars, bounds>>

\* The last thing a promise task does that has compiled a module in tier 1.
StartOffThreadWasmTier2Generator(t) ==
    /\ work' = [work EXCEPT !["generator"] = Append(@, None)]
    /\ created' = created + 1
    /\ \/ Asleep = {} /\ RunTaskEnd(t)
       \/ \E u \in Asleep : at' = [at EXCEPT ![t] = "relock", ![u] = "awake"]

\* The task of a master ends: all its batches are done.
MasterEnd(t, tier2) ==
    /\ at[t] = "run" /\ task[t] \in Masters
    /\ batches[t] = 0 /\ ~Outstanding(t)
    /\ \/ /\ ~tier2
          /\ RunTaskEnd(t)
          /\ UNCHANGED <<work, created>>
       \/ /\ tier2 /\ task[t] = "promise" /\ ~failed[t] /\ created < MaxGenerators
          /\ StartOffThreadWasmTier2Generator(t)
    /\ UNCHANGED <<waitingOnGC, uncompressed, collecting, task, owner, masters, terminate,
                   mainVars, left>>

\* PRODUCER and CONSUMER may wake spuriously.
SpuriousWakeup ==
    /\ \/ /\ \E t \in Asleep : at' = [at EXCEPT ![t] = "awake"]
          /\ UNCHANGED mainAsleep
       \/ mainAsleep /\ mainAsleep' = FALSE /\ UNCHANGED at
    /\ UNCHANGED <<lists, collecting, task, owner, masters, terminate, main, genFinished, bounds>>

-----------------------------------------------------------------------------
\* The main thread submits work.

Free == main = "run"

Running(k) == \E t \in Threads : task[t] = k

ParsesDone == work["parse"] = <<>> /\ ~Running("parse")

OffThreadParsingMustWaitForGC(k) == k = "parse" /\ collecting

Submit(k) ==
    /\ Free /\ left[k] > 0
    /\ left' = [left EXCEPT ![k] = @ - 1]
    /\ \/ /\ OffThreadParsingMustWaitForGC(k)
          /\ waitingOnGC' = waitingOnGC + 1
          /\ UNCHANGED <<work, uncompressed, at>>
       \/ /\ k = "compress"
          /\ uncompressed' = uncompressed + 1
          /\ UNCHANGED <<work, waitingOnGC, at>>
       \/ /\ ~OffThreadParsingMustWaitForGC(k) /\ k # "compress"
          /\ work' = [work EXCEPT ![k] = Append(@, None)]
          /\ NotifyOneProducer
          /\ UNCHANGED <<waitingOnGC, uncompressed>>
    /\ UNCHANGED <<collecting, task, owner, masters, terminate, mainVars, created>>

\* A collection of the atoms zone begins, which ShouldCollectZone() allows only
\* when no parse is queued or running (canCollectAtoms()).
StartGC ==
    /\ Free /\ ~collecting /\ ParsesDone
    /\ collecting' = TRUE
    /\ UNCHANGED <<lists, at, task, owner, masters, terminate, mainVars, bounds>>

\* EnqueuePendingParseTasksAfterGC()
EndGC ==
    /\ Free /\ collecting
    /\ collecting' = FALSE
    /\ work' = [work EXCEPT !["parse"] = @ \o [i \in 1..waitingOnGC |-> None]]
    /\ waitingOnGC' = 0
    /\ IF waitingOnGC > 0 THEN NotifyAllProducer ELSE UNCHANGED at
    /\ UNCHANGED <<uncompressed, task, owner, masters, terminate, mainVars, bounds>>

\* startHandlingCompressionTasks()
ScheduleCompressions ==
    /\ work' = [work EXCEPT !["compress"] = @ \o [i \in 1..uncompressed |-> None]]
    /\ uncompressed' = 0
    /\ IF work'["compress"] # <<>> /\ CheckTaskThreadLimit(task, {"compress"}, 1, FALSE)
       THEN NotifyOneProducer ELSE UNCHANGED at

StartHandlingCompressionTasks ==
    /\ Free /\ uncompressed > 0
    /\ ScheduleCompressions
    /\ UNCHANGED <<waitingOnGC, collecting, task, owner, masters, terminate, mainVars, bounds>>

-----------------------------------------------------------------------------
\* The main thread waits for helper threads.

\* Go on to the next place once the condition holds, sleep until then.
Await(place, condition, next) ==
    /\ main' = IF condition THEN next ELSE place
    /\ mainAsleep' = ~condition

AwaitAll == Await("all", \A t \in Threads : task[t] = None, "run")

\* Variant: the main thread waits for a generator that may not be running.
CancelUnchecked(place) ==
    /\ work' = [work EXCEPT !["generator"] = <<>>]
    /\ genFinished' = FALSE
    /\ cancelled' = {t \in Threads : task[t] = "generator"}
    /\ main' = place /\ mainAsleep' = TRUE

\* CancelOffThreadWasmTier2GeneratorLocked(), and what its caller does next.
CancelGenerators(place) ==
    /\ work' = [work EXCEPT !["generator"] = <<>>]
    /\ genFinished' = FALSE
    /\ IF Running("generator")
       THEN /\ cancelled' = {t \in Threads : task[t] = "generator"}
            /\ main' = place /\ mainAsleep' = TRUE
       ELSE /\ UNCHANGED cancelled
            /\ IF place = "generator" THEN AwaitAll ELSE main' = "join" /\ mainAsleep' = FALSE

WaitForAllThreads ==
    /\ Free
    /\ CancelGenerators("generator")
    /\ UNCHANGED <<waitingOnGC, uncompressed, collecting, at, task, owner, batches, failed,
                   terminate, bounds>>

\* MainWakes looks whether all compressions have started.
RunPendingSourceCompressions ==
    /\ Free
    /\ ScheduleCompressions
    /\ main' = "compressStart" /\ mainAsleep' = (work'["compress"] # <<>>)
    /\ UNCHANGED <<waitingOnGC, collecting, task, owner, masters, terminate, genFinished, bounds>>

CancelOffThreadIonCompile ==
    /\ Free
    /\ work' = [work EXCEPT !["ion"] = <<>>]
    /\ Await("ion", ~Running("ion"), "run")
    /\ UNCHANGED <<waitingOnGC, uncompressed, collecting, at, task, owner, masters, terminate,
                   genFinished, bounds>>

\* Parses are not cancelled: the main thread waits until they are done.
CancelOffThreadParses ==
    /\ Free /\ ~collecting
    /\ Await("parse", ParsesDone, "run")
    /\ UNCHANGED <<lists, collecting, at, task, owner, masters, terminate, genFinished, bounds>>

CancelOffThreadCompressions ==
    /\ Free
    /\ work' = [work EXCEPT !["compress"] = <<>>]
    /\ uncompressed' = 0
    /\ Await("compress", ~Running("compress"), "run")
    /\ UNCHANGED <<waitingOnGC, collecting, at, task, owner, masters, terminate, genFinished, bounds>>

\* GlobalHelperThreadState::finish(), when the runtimes are gone.
Finish ==
    /\ Free /\ ~collecting /\ waitingOnGC = 0 /\ uncompressed = 0
    /\ \A k \in Submitted \ {"ionFree"} : work[k] = <<>>
    /\ \A t \in Threads : at[t] = "run" => task[t] \notin Submitted
    /\ CancelGenerators("generatorFinish")
    /\ UNCHANGED <<waitingOnGC, uncompressed, collecting, at, task, owner, batches, failed,
                   terminate, bounds>>

\* The main thread wakes and looks at its condition again.
MainWakes ==
    /\ ~mainAsleep
    /\ \/ /\ \/ main = "generator" /\ genFinished /\ AwaitAll
             \/ main = "generator" /\ ~genFinished /\ Await("generator", FALSE, "all")
             \/ main = "generatorFinish" /\ Await("generatorFinish", genFinished, "join")
             \/ main = "all" /\ AwaitAll
             \/ main = "compressStart" /\ work["compress"] # <<>> /\ Await("compressStart", FALSE, "all")
             \/ main = "ion" /\ Await("ion", ~Running("ion"), "run")
             \/ main = "parse" /\ Await("parse", ParsesDone, "run")
             \/ main = "compress" /\ Await("compress", ~Running("compress"), "run")
          /\ UNCHANGED <<work, cancelled, genFinished>>
       \/ main = "compressStart" /\ work["compress"] = <<>> /\ CancelGenerators("generator")
    /\ UNCHANGED <<waitingOnGC, uncompressed, collecting, at, task, owner, batches, failed,
                   terminate, bounds>>

\* HelperThread::destroy() of one thread after the other, and the rest of
\* finish().
DestroyThread(t) ==
    /\ main = "join" /\ t \notin terminate
    /\ \A u \in terminate : at[u] = "dead"
    /\ terminate' = terminate \cup {t}
    /\ NotifyAllProducer
    /\ UNCHANGED <<lists, collecting, task, owner, masters, mainVars, bounds>>

\* Variant: the list of Ion data to free is not emptied.
FinishEndLeaks ==
    /\ main = "join" /\ \A t \in Threads : at[t] = "dead"
    /\ main' = "finished"
    /\ UNCHANGED <<lists, collecting, at, task, owner, masters, terminate, mainAsleep,
                   genFinished, bounds>>

FinishEnd ==
    /\ main = "join" /\ \A t \in Threads : at[t] = "dead"
    /\ main' = "finished"
    /\ work' = [work EXCEPT !["ionFree"] = <<>>]
    /\ UNCHANGED <<waitingOnGC, uncompressed, collecting, at, task, owner, masters, terminate,
                   mainAsleep, genFinished, bounds>>

-----------------------------------------------------------------------------
HelperStep(t) ==
    \/ Loop(t) \/ SimpleTaskEnd(t)
    \/ \E ok \in BOOLEAN : CompileTaskEnd(t, ok)
    \/ LaunchBatch(t) \/ GiveUp(t)
    \/ \E tier2 \in BOOLEAN : MasterEnd(t, tier2)

Next ==
    \/ \E t \in Threads : HelperStep(t) \/ DestroyThread(t)
    \/ \E k \in Submitted : Submit(k)
    \/ StartGC \/ EndGC \/ StartHandlingCompressionTasks
    \/ WaitForAllThreads \/ RunPendingSourceCompressions
    \/ CancelOffThreadIonCompile \/ CancelOffThreadParses \/ CancelOffThreadCompressions
    \/ Finish \/ MainWakes \/ FinishEnd
    \/ SpuriousWakeup

\* Threads that are not asleep run, and tasks end.
Fairness ==
    /\ \A t \in Threads : WF_vars(HelperStep(t)) /\ WF_vars(DestroyThread(t))
    /\ WF_vars(MainWakes) /\ WF_vars(FinishEnd)

Spec == Init /\ [][Next]_vars /\ Fairness

-----------------------------------------------------------------------------
\* Safety.

(***************************************************************************)
(* "it must not take the last available thread; there must always be at    *)
(* least one worker thread able to do the actual work": some thread runs no*)
(* master.                                                                 *)
(***************************************************************************)
OneThreadForWork == \E t \in Threads : task[t] \notin Masters

(***************************************************************************)
(* CancelOffThreadWasmTier2GeneratorLocked() assumes that at most one      *)
(* generator runs, and that cancelling stops one which is still running.   *)
(***************************************************************************)
OneGenerator ==
    /\ Cardinality({t \in Threads : task[t] = "generator"}) <= 1
    /\ main \in {"generator", "generatorFinish"} => genFinished \/ Running("generator")

\* Every helper is asleep, or in a master that waits for batches nobody runs.
Stuck(t) ==
    /\ at[t] = "run" /\ task[t] \in Masters /\ batches[t] = 0 /\ ~failed[t]
    /\ Outstanding(t)
Quiet == \A t \in Threads : at[t] = "asleep" \/ Stuck(t)

(***************************************************************************)
(* No wake-up of the helpers is lost: when none of them is going to look   *)
(* for a task, there is none that could be started.  This is so as long as *)
(* tier 2 is not oversubscribed: cancelling the generators of an           *)
(* oversubscribed tier 2 lifts the limit on tier-1 batches and wakes nobody*)
(***************************************************************************)
WorkIsTaken == Quiet => \A k \in Kinds : ~CanStart(task, k)

(***************************************************************************)
(* "(Or the system may deadlock.)": it never happens that all helpers sleep*)
(* or wait for each other while a master waits for its batches.  A pool in *)
(* which tier 2 has been oversubscribed, so that tier 1 might not run, may *)
(* break this.                                                             *)
(***************************************************************************)
MastersAreServed == Quiet => \A t \in Threads : at[t] = "asleep"

(***************************************************************************)
(* When finish() has joined the helpers no task is left behind on a        *)
(* worklist or in a thread.                                                *)
(***************************************************************************)
NothingLeftBehind ==
    main = "finished" => /\ \A k \in Kinds : work[k] = <<>>
                         /\ \A t \in Threads : task[t] = None

-----------------------------------------------------------------------------
\* Liveness.

(***************************************************************************)
(* Every wait of the main thread for helpers ends: waitForAllThreads(), the*)
(* cancellations, RunPendingSourceCompressions() and finish().             *)
(***************************************************************************)
WaitsEnd == []<>(main \in {"run", "finished"})

=============================================================================
