# SpiderMonkey 78: a TLA+ model of its concurrent core

The repository is the stand-alone distribution of SpiderMonkey 78, Mozilla's
JavaScript and WebAssembly engine. Most of an engine is sequential and is tested
well by running programs. This project models the parts where that is not
so: the protocols by which threads hand work to each other, wait, cancel, share
memory and shut down. Each module is translated from the C++ code; `PROJECT.json` maps every
definition to the lines it stands for.

All paths below are relative to `src/js/src/`.

## 1. The system

### Components and what makes them correct

| Component | State | Operations | Hard behaviour | Correct means |
|---|---|---|---|---|
| **GC parallel tasks** `gc/GCParallelTask.{h,cpp}` | `state_` of each task, the GC worklist, `cancel_` | start, join, cancelAndWait, run on main thread; helper takes, runs, finishes | the main thread takes a dispatched task back while a helper may be popping it; sleeping on two condition variables; a task marked finishing while still running | each start is one run, by one thread; joins return |
| **Helper-thread scheduler** `vm/HelperThreads.{h,cpp}` | nine worklists, each thread's `currentTask`, termination flags | submit, find the highest-priority startable task, cancel by kind, wait for all, finish | masters occupy threads while they wait for batches run by other threads; limits change without a notification; cancellation waits for what it cancelled | no startable work while everybody sleeps; the pool never rests with a master in it; waits end |
| **Wasm module generation** `wasm/WasmGenerator.cpp` | batches outstanding, failure flag | launch a batch, await the rest, give up | a failed or cancelled compilation takes back batches that helpers may have | no batch outlives its generator |
| **Off-thread promise tasks** `vm/OffThreadPromiseRuntimeState.{h,cpp}` | `live_`, `numCanceled_`, the internal dispatch queue | init, dispatch, resolve, drain, shut down | workers dispatch during shutdown; script run by a resolution drains again | each task resolved at most once, deleted exactly once, never under its worker; nobody blocks for ever |
| **Internal job queue** `vm/JSContext.cpp` | the job queue, `draining_`, `interrupted_` | enqueue, run jobs, interrupt | reentrancy through jobs and through task resolution | as above |
| **Futexes** `builtin/AtomicsObject.{h,cpp}` | waiter list per shared buffer, `FutexThread::state_` | wait, notify, interrupt | notification, timeout, interrupt and spurious wake-up race; the handler of an interrupt runs script inside a wait | every counted wake-up ends exactly one wait, in order, at its location; no store-then-notify is missed |
| **Interrupt requests** `vm/Runtime.cpp` | interrupt bits | request, poll, handle | a request finds the target neither polling nor yet asleep | an urgent request reaches a sleeper |
| **Incremental collector** `gc/GC.cpp`, `gc/ParallelWork.h`, `gc/Allocator.cpp` | `incrementalState`, zone lists, slice request flag, `majorGCTriggerReason` | slice, reset, finish, minor collection; background sweep, free, decommit, allocation | the main thread queues zones while the sweep task is ending; the slice a task must request; a reset in any phase | nothing queued is forgotten; a collection never stalls; nothing of it is left when it is over |
| **Marking, barriers, weak maps** `gc/Marking.cpp`, `gc/Barrier.cpp`, `gc/WeakMap.cpp` | mark bits, mark stack, ephemeron table | mark, write, read | mutation between slices | whatever was reachable at the start, or is now, is marked |
| **Generational collection** `gc/Nursery.cpp`, `gc/StoreBuffer.cpp` | nursery, store buffer | allocate, barrier, minor GC | edges created behind the collector | the store buffer knows all edges into the nursery |
| **Finalization registries** `gc/FinalizationRegistry.cpp` | records, queue | register, unregister, sweep, clean up | clean-up callbacks unregister | a callback per dead target, none for a removed one |
| **Promises and async functions** `builtin/Promise.cpp`, `vm/AsyncIteration.cpp` | promise states, reactions, generator request queues | settle, then, await, resume | reentrancy, order of jobs | settled once; requests answered in order |
| **Modules** `builtin/Module.js`, `builtin/ModuleObject.cpp` | status, DFS indices | link, evaluate | cycles and errors midway | each module evaluated once; no status left midway |
| **Wasm streaming** `wasm/WasmJS.cpp`, `wasm/WasmCompile.cpp` | `streamState_`, bytes received, end reached, failure flag | consume, end, fail; decode, await; resolve | three threads hand one task over; failure at any point | destroyed once, after its last use, however the stream ends |
| **Wasm tiering** `wasm/WasmModule.cpp`, `wasm/WasmCode.cpp`, `wasm/WasmInstance.cpp` | `hasTier2_`, lazy stubs and jump tables of two tiers | compile and commit tier 2; make an entry stub | JS threads make stubs while the tiers are exchanged | no call finds a missing stub or stays in the old tier |
| **Shared buffers** `vm/SharedArrayObject.cpp`, `vm/StructuredClone.cpp`, `wasm/WasmJS.cpp` | reference count, length, committed pages | create, clone, read, drop, grow | the last drop races an add; 32-bit wrap; growth under use | mapped exactly while used; no length past what is committed |
| **Ion life cycle** `jit/Ion.cpp` | per-script Ion state, finished and lazy-link lists | finish, attach, invalidate | GC or discard of what is being compiled | no code attached for a dead script |

The frontend, the interpreter and object model, the JIT code generators, the
regular-expression compiler, the debugger, the embedding API and shell, the
support libraries and everything vendored or generated (ICU, NSPR, Rust crates,
data, build system, test suites) are listed as not modelled in `PROJECT.json`,
each with the reason: their correctness is a relation between programs and their
meaning, or they hold no state of their own.

### How the components interact

    JS thread ──start/join──▶ GCParallelTask ──worklist──▶ helper threads
        │                                                     ▲   │
        ├──submit/cancel/wait──▶ HelperThreads ──worklists────┘   │
        │                              ▲  └ wasm batches ◀── masters
        │                              │                          │
        ├──init──▶ OffThreadPromiseTask ◀──dispatchResolveAndDestroy
        │                 │ queue
        ├──runJobs──▶ internalDrain ──resolve──▶ script ──▶ runJobs ...
        │
        ├──slices──▶ GCRuntime ──zones, blocks, buffers──▶ sweep, free, decommit tasks
        │               ▲───────── "collect again" ──────────────┘
        ├──consumeStream──▶ CompileStreamTask ◀──chunks── stream thread
        │                        └──helper──▶ module ──▶ tier-2 generator task
        ├──postMessage──▶ clone ──▶ SharedArrayRawBuffer ◀── other runtimes
        │
        └──Atomics.wait/notify──▶ waiter list ◀── other agents, interrupts

Everything the helper threads share is under one helper lock, the promise state
under one mutex per runtime, the waiter lists under one futex lock per process.
So a critical section is one action in the models, split exactly where the code
drops the lock: to sleep, to run a task, to call script, to report an error. Where
the code uses atomics instead (`majorGCTriggerReason`, `hasTier2_`, `refcount_`), each
access is a step of its own.

## 2. Modules and their correspondence to the code

| Module | Models | Remarks |
|---|---|---|
| `AsyncTask` | the promise a GC parallel task makes to the collector | abstract specification |
| `GCParallelTask` | `gc/GCParallelTask.{h,cpp}`, the GC branch of the helper loop | implements `AsyncTask` |
| `GCParallelTask_proofs` | | theorems |
| `ListTheorems` | what the operations of `mozilla::LinkedList`, `Vector` and `Fifo` do to a list without duplicates | lemmas the proof modules share |
| `HelperThreads` | `vm/HelperThreads.{h,cpp}`, the thread use of `wasm/WasmGenerator.cpp` | |
| `HelperThreads_proofs` | | theorems |
| `OffThreadPromise` | `vm/OffThreadPromiseRuntimeState.{h,cpp}`, `InternalJobQueue` of `vm/JSContext.cpp`, the creation paths of `wasm/WasmJS.cpp` | |
| `OffThreadPromise_proofs` | | theorems |
| `Futex` | wait, notify and `FutexThread` of `builtin/AtomicsObject.{h,cpp}`, interrupt requests of `vm/Runtime.cpp` | |
| `Futex_proofs` | | theorems |
| `IncrementalGC` | the slices of `gc/GC.cpp` and the background tasks they feed | uses the states of `GCParallelTask` as its tasks' interface |
| `IncrementalGC_proofs` | | theorems |
| `WasmStream` | `CompileStreamTask` of `wasm/WasmJS.cpp`, `CompileStreaming()` of `wasm/WasmCompile.cpp` | |
| `WasmTiering` | `Module::finishTier2()`, `LazyStubTier`, `JumpTables`, `EnsureEntryStubs()` | |
| `WasmModule` | the two together, from the response to the optimized code | composition |
| `WasmModule_proofs` | | theorems |
| `SharedBuffer` | `SharedArrayRawBuffer`, its objects, structured clones and wasm memories | |
| `SharedBuffer_proofs` | | theorems |
| `MC...` | | symmetry sets and workloads for TLC |

Definitions marked "Variant" or "mutant" are deliberately
wrong versions of the definition that follows. They take part in no run; replacing
the right definition by one of them must make TLC report the property it is
listed with in `PROJECT.json`, which shows that the property depends on the code.

**GCParallelTask.** `state`, `worklist`, `cancel` and `currentTask` are the code's
fields; `main` says in which call, and where in it, the main thread is; `asleep`
is the set of threads on a condition variable; `owed` is a history variable, the runs
requested and not completed. Each entry point is an action, with its second half,
after a wait or an inline run, as an action of its own. What `run()` computes is left
out: it begins, may call `setFinishing()`, and ends. Start-up without helper
threads (`canUseExtraThreads` false) is one of the initial states.

**HelperThreads.** `work` holds the worklists; a wasm batch is represented by the
thread whose master waits for it, any other task by a placeholder, because the scheduler
looks at nothing else. `at` and `task` are a thread's position and `currentTask`:
they differ between the end of a task and the moment the thread has the lock again,
a window the limits are sensitive to. `Loop` is the whole critical section from
one task's end to the next one's start. `main` is the main thread's wait, if any.
The GC's own tasks appear as one kind; their protocol is in GCParallelTask.
The start of an atoms collection, possible only while no parse is queued or running, and
its end, which moves the parse tasks that waited for it to the worklist, are one action each;
`finish()` may begin when the runtimes are gone, which is how it is called.
`EraseIf` is `Fifo::eraseIf()`, written in closed form because the prover knows nothing
of `SelectSeq`; the runs evaluate an assumption (`EraseIfAssumption`) that says the two
agree on every sequence of up to four entries.

**OffThreadPromise.** `live`, `numCanceled`, `queue`, `closed`, `jobs`, `draining`,
`interrupted` are the code's. `owner` says who may touch a task: the JS
thread, a worker, the event loop, or a worker whose dispatch was rejected and who has
yet to count itself. The JS thread has a stack of script activations, since
a resolution, a job or an import getter is script that may create tasks, run jobs or
drain again. `deletions` and `resolutions` are history variables.

**Futex.** `waiters` is the circular list from its head, `state` is `state_`, `calls`
are the activations of `wait()` on an agent's stack with what each waits for.
`Resume` is the loop body after a wake-up: the switch on `state_`, in which only
the case `Waiting` looks at the deadline. `requestInterrupt()` is two actions, because it sets the bit
before it takes the futex lock. `arrived`, `credit`, `wokenAt`, `unsaid` are history
variables. Agents that may not wait only notify. A wait's timeout is `none`,
`coming` or `passed`; `NotifyIsExact`, `NoLostNotify` and `Fifo` leave out the agents
whose handlers wait (`HandlersWait`), whose nested waits share one `state_`; the code's slices of at most `maxSlice` are sleeps that end
before the deadline, indistinguishable from spurious wake-ups.

**IncrementalGC.** `gc` holds `incrementalState` and the flags that go with it, `zone`
each zone's `gcState_`, `task` the `state_` of the three background tasks,
`toSweep` the zones still to be swept in the background, `backgroundSweepZones` and `held`
the code's lists of them (queued, and taken by a run of the sweep task: the code sweeps a list from
its front, and `endSweepingSweepGroup()` puts the atoms zone last in its list), `free` what is queued for the free task. `main` is a program counter
through `collect()`, `gcCycle()` and `incrementalSlice()`, stopping wherever the
code takes the helper lock or may wait. How much a slice does, which zones are
collected and which are dead are free choices, so any budget is covered. `requestSlice`
and `majorGCTriggerReason` are the code's; a load and a store of the latter are two
steps (`storing` holds what is about to be stored), because the main thread and the
tasks do them without a common lock. `AllocTrigger` may fire whenever the code could
pass `checkHeapThreshold()`, which is more often than it does. A slice may yield while a sweep group is marked gray
(`MarkGray` stands for `MarkBlackAndGray`), while it is swept, and where the code waits for a task. A minor
collection of an empty nursery queues nothing for the free task. A `collect()` repeats
with any budget. `dropped` is set when
`gcIfRequested()` drops a request that was all that stood for the slice a collection waits for.

**WasmStream.** `stream` and `helper` say where in a callback, and in `execute()`, the
two threads are; `received` and `codeBytesEnd` are the stream thread's count of bytes
and the one it publishes. The code section has `CodeSize` pieces, a chunk is a number
of pieces that may run past the section's end, and decoding may fail at any
piece. `outcome` collects what `resolve()` will look at: the module, an error of the stream and
whether it is `StreamOOMCode`. `promise` stands for the task's life after its dispatch, which is module
OffThreadPromise: `resolve()` leaves the promise resolved, rejected or, if it fails,
unsettled, and the task is deleted in each case.

**WasmTiering.** `exports` counts the entries of each tier's `LazyStubTier`, `jitEntry`
and `tierEntry` are the two jump tables, `holder` is who holds which tier's lock.
`call` is a JS thread's progress through `EnsureEntryStubs()`, `generator` that of the
tier-2 task through `finishTier2()`; every access of `hasTier2_` and every lock is a step.

**WasmModule** starts the second with what the first ends with: the thread that
finishes the module starts the tier-2 task, and a JS thread may call an export once the
promise is resolved.

**SharedBuffer.** `obj` has an entry per `SharedArrayBufferObject` whose raw buffer is
set, `clone` one per structured clone in flight, `memory` the buffer of each runtime's
wasm memory. `op` is what a runtime is in the middle of: `addReference()` is its load and
its compare-exchange, for a writer, a reader or a buffer getter; growing is the commit
and the new length under `growLock_`. `account` is the zone's `sharedMemoryUseCounts`
entry. The history variable `overflowed` marks the one path that is known to miscount
(below).

## 3. Model checking

Fairness is weak, with one exception. It says that a thread that can run eventually runs,
a task, a resolution by the event loop, a stream callback, a slice or an interrupt
handler that has begun ends, time passes, and a timed sleep ends after its time. The
exception is `gcIfRequested()`: script polls for interrupts again and again, between
whatever else the main thread does, so a request that is there again and again is
seen (strong fairness).
It never says that the main thread calls anything else, nor that a mutex or
condition variable is handed out fairly, nor that spurious wake-ups occur; that is what an operating
system's scheduler gives the code.

| Run | Instance | States | Shows |
|---|---|---|---|
| `gctask` | 3 tasks, 2 helpers | 25 000 | One runner per task, each start runs once, legal transitions, refinement of `AsyncTask` with its liveness, calls return. |
| `promise` | 3 tasks, 2 jobs | 24 000 | Tasks are deleted once and only when finished, a blocked drain can be woken and is, shutdown returns. |
| `futex_safety` | 2 agents, 2 words, 2 values, both interruptible | 392 000 | `notify()` counts exactly the waits it ends, FIFO per location, no missed notify. |
| `futex_live` | 2 agents, 1 word | 16 000 | Notified waits return; timed waits return once interrupts cease. |
| `futex_nested` | 2 agents, 2 words, handlers that wait | 171 000 | The waiter list is exactly the waits in progress. |
| `helpers` | 3 threads, 3 masters, 2 generators | 358 000 | A thread is left for work, one generator at a time, startable work is taken, the pool does not rest with a master in it (within these bounds), shutdown leaves nothing. |
| `helpers_live` | 2 threads, one task of each kind | 145 000 | All waits of the main thread end. |
| `gc` | the atoms zone and another, with and without helpers | 487 000 | What is handed to the background is worked on, a waiting collection has its slice coming and goes on (unless its request was dropped, see the observations), the background is quiet where the code relies on it, a reset leaves nothing, the atoms zone is swept last. |
| `wasm` | 2 pieces of code, 2 JS threads, 2 exports | 102 000 | The stream task is destroyed once and after its last use, the task of a stream that is closed is destroyed and its helper free unless the stream was cut inside the code section, stubs and jump tables agree through tier-up. |
| `shared` | 2 runtimes, 3 objects, 2 clones, a counter up to 3, 2 pages | 562 000 | The counter is the number of references, the memory is mapped exactly while there is one, lengths stay within committed memory and each zone is charged for its objects. |
| `helpers_backlog_deadlock` | 2 threads, 2 masters | – | Violation, see below. |
| `stream_truncated` | 1 piece, 1 JS thread | – | Violation, see below. |

Why these bounds. Three GC tasks on two helpers make tasks compete for helpers while
one is being taken back. Three promise tasks let one be with its worker, one in the
queue and one counted, and permit two nested drains. Two agents on two words give
every pair of racing operations a location in common and one apart; nested
waits are explored to depth two, the one wait in the handler of another that the code means
to refuse. Three threads are the fewest with which two masters and a free
thread exist at once. The backlog
threshold is 20 in the code and a constant here; with the workload of `helpers` it is
exceeded when two generators wait, at a time when at most one other master is left,
and the run with more masters left is `helpers_backlog_deadlock`. `helpers` and `helpers_live` do not check for
deadlock because after `finish()` the pool is really over; `WorkIsTaken`,
`MastersAreServed` and `WaitsEnd` say what must not stop before.

Two zones are enough for the collector because the code tells the atoms zone from all
others and otherwise treats a set of zones: they make two sweep groups, so that one is
queued while the sweep task has the other. Two pieces of code give a helper that is
behind, level with and ahead of the stream, and a chunk that spans environment, code and
tail; two JS threads and two exports, a thread in each tier with the same
and with another function. The `shared` counter is full at three: two holders and a race for the third
place, or three holders and a refused fourth; three objects are one per runtime and
one that replaces it. `MaxRefcount` stands for 2^32 - 1 and
the increment is taken modulo `MaxRefcount + 1` as in the code.

### What the violations show

* **Tier-2 backlog** (`helpers_backlog_deadlock`). When the backlog is
  over its threshold, tier-1 batches get no threads and a generator may not take
  the last idle one: promise tasks on all other threads wait for ever. That is the only
  way: `MastersAreServed` is proved for a pool that is never oversubscribed.
* **A stream cut inside the code section** (`stream_truncated`). `streamEnd()` closes
  the stream and announces its end, but the helper waits for code bytes, on another
  condition variable and for another predicate: the task is never dispatched, so its promise
  stays pending, and the helper thread is lost. `ClosedStreamIsDestroyed` in run `wasm` says that
  the task of every other stream that is closed is destroyed. It does not say that the
  promise is settled (next section).

### Observations

These follow from the models too and have no run of their own: either no comment,
assertion or test of the repository speaks about them, or the consequence is small.

* `cancelAndWait()` of an idle or merely dispatched GC task leaves `cancel_` set, and
  the next run of the task begins cancelled. For the background allocation task,
  cancelled at the start of every slice, that means a run that allocates nothing.
* `AsyncInstantiate()` registers its task before it reads the imports; an import getter that
  drains the job queue waits for a task only its caller can dispatch
  (`ImportGettersRunJobs = TRUE` breaks `DrainCanBeWoken`).
* An urgent interrupt request that falls between the last poll and the futex lock, or
  into the handler of an earlier request, leaves the agent asleep with its interrupt bit set.
* A wait made by an interrupt handler is refused only after it has been linked, and
  the lock is dropped to report that; a notify for its location then ends the outer wait.
* `draining_` is set only after the first `internalDrain()` (`vm/JSContext.cpp:766`), so
  a nested `runJobs()` reached from a resolution is not ignored, as the comment there
  says it is; and the assertion at the head of `FutexThread::wait()`
  (`builtin/AtomicsObject.cpp:837`) does not allow for an interrupt handler that waits
  after a second request or a notify has changed `state_`.
* `gcIfRequested()` drops a `DELAYED_ATOMS_GC` request when helper-thread zones
  are back. If a background task wanted its slice meanwhile, the request it did not make, because a
  reason was set, is dropped too; the collection then waits for the next trigger
  (`dropped` in IncrementalGC, which `SliceIsComing` and `WaitEnds` except).
* A stream that ends with `StreamOOMCode` leaves its promise pending for ever:
  `RejectWithStreamErrorNumber()` (`wasm/WasmJS.cpp:3538`) only reports out-of-memory and returns false,
  and `OffThreadPromiseTask::run()` (`vm/OffThreadPromiseRuntimeState.cpp:97`) clears the exception and
  deletes the task. The comment there, "this should only happen due to OOM or interruption", misses one end
  that has nothing to do with memory: a code section larger than
  `MaxCodeSectionBytes` is given the same code (`wasm/WasmJS.cpp:3659`), so that compiling such a
  module from a stream neither succeeds nor fails. (`promise = "unsettled"` in WasmStream.)
* `CancelOffThreadWasmTier2GeneratorLocked()` empties the generators' list
  (`vm/HelperThreads.cpp:166`), which may lift the limit on tier-1 batches, and notifies
  nobody: in the deadlock above the batches become startable and the sleeping helper is
  not told, so `WorkIsTaken` fails too. It is proved, like `MastersAreServed`, for a pool
  in which tier 2 is not oversubscribed, and it holds in run `helpers`, where the backlog
  is exceeded with too few masters left for anything to be stuck.
* Two JS threads that share a module's code may both find no stub in the first tier, both
  proceed to the second, and make a second entry there: the assertion at
  `wasm/WasmInstance.cpp:1905` considers the background compilation only
  (`\A t \in Tiers, f \in Funcs : exports[t][f] <= 1` is violated).
* `bufferGetterImpl()` attaches the buffer to its new object and then adds the
  reference (`wasm/WasmJS.cpp:2034`), while `shell/js.cpp:7028` says that "the protocol
  for creating a SAB requires the refcount to be incremented prior to the SAB
  creation". If the counter is full the object's finalizer drops a reference that was
  never added; `ReferencesCounted` holds until then (`overflowed`).

## 4. Proofs

The theorems hold for every value of the constants that satisfies the named assumptions.

Every safety property of the runs is the subject of one, invariants and action properties
alike. Each inductive invariant named below was first checked by TLC on the instances of
section 3.

**ListTheorems** says for each way the code changes a list (`insertBack`, `popFirst`,
`remove` from anywhere) what the new list contains and that it still has no entry twice,
and that a set of naturals has a least element. It has no constants.

**GCParallelTask_proofs** (from `TasksAssumption`: the main thread is no helper,
`NoTask` is no task, there is a helper). `IndInv` adds to the properties two facts that no property
states and without which none is inductive: `MainPlace`, where in a call the main
thread can be for each state of the task it is in, and `HelpersRun`, a task is
`Running` or `Finishing` exactly when some helper has it as its current task. From
`IndInv` follow

* `TypeCorrect`, `OneRunnerAlways`, `WorklistAlways`, `EachStartRunsOnceAlways`;
* `LegalTransitionsAlways`: the assertions of the five state setters;
* `Refinement`: every step is a step of `AsyncTask` or leaves the phases alone.

**HelperThreads_proofs** (from `HelperThreadsAssumption`: a finite pool of at least
two threads). Two lemmas say what `checkTaskThreadLimit()` guarantees at the moment a task
starts, from the cardinalities it compares: a master leaves another thread idle, and a
generator starts only if none runs. Only `Loop` changes what threads run, so both survive
every step (`IndInv`). Given that, `LiveInv` is inductive: a batch on a list or in a thread belongs
to a master that is running (`ListsHold`, `ThreadsHold`), because a master does not end
before its batches; and what `finish()` has seen to be done stays done (`FinishHolds`).
The notifications are one argument: a step that notifies leaves a thread awake, or there was none
asleep, and then the thread that runs no master is not at rest.

* `OneThreadForWorkAlways`: masters never occupy all threads;
* `OneGeneratorAlways`: at most one generator runs, and whoever waits for a cancelled
  one has one that is running or has ended;
* `TypeCorrect`, `NothingLeftBehindAlways`: the wasm batches, which `finish()` does not look
  for, are gone because no master is left;
* `WorkIsTakenAlways` and `MastersAreServedAlways`, both from `[]~Oversubscribed`: without that they are
  false (section 3).

**OffThreadPromise_proofs** (from `OffThreadPromiseAssumption`: finitely many tasks). Who may touch
a task decides everything: what the event loop holds, in its queue or swapped out of it, it
owns (`LoopHolds`); the activation that creates or resolves a task is the only one for it
(`FramesHold`); and a worker's task is live (`OwnersHold`). `CountHolds` says that
`numCanceled_` is the number of live tasks whose dispatch was rejected and counted, `PlaceHolds` where
shutdown can be, `SleepHolds` what a sleeping drain has seen, `HistoryHolds` what has been
resolved and deleted.

* `TypeCorrect`, `NoDoubleDelete`; `OnlyFinishedDeleted`, an action property;
* `BlockedDrainIsWoken`, for import getters that run no jobs (`CreateOnTop`); with getters
  that do, `DrainCanBeWoken` is false (see the observations).

**Futex_proofs** (from `FutexAssumption`; any number of agents, words and nested waits). `ListHolds`:
an entry is on the waiter list exactly if its wait is on its agent's stack,
whichever of the paths out of `wait()` it takes. `NestingHolds`: a wait has another one
inside only in a handler. For agents whose handlers do not wait, `StateHolds` ties `state_` to
the place in `wait()`, `CreditHolds` the wake-ups counted to the agents woken, and
`ValueHolds` a stale value to a notification that is still to come.

* `TypeCorrect`, `ListMatchesCallsAlways`, `NotifyIsExactAlways`, `NoLostNotifyAlways`;
* `WakesInOrder`, the action property `Fifo`.

**IncrementalGC_proofs** (from `ZonesAssumption`: finitely many zones, of which the atoms zone is one). Of the
parts of `IndInv`, `PlaceHolds` says in which states of the collection the main thread can be at each place of
a slice; `ZonesHold`, `SweepHolds` and `AtomsHold` where each zone is between being queued
for the sweep task and being finished, with no zone twice on a list, the atoms zone
last on its list (`ZoneList`) and nothing queued behind it; `FreeHolds` and `TasksHold` what each task still has
to do; `SliceHolds` who is going to request the slice a yielded collection waits for,
which is where the unlocked accesses to `majorGCTriggerReason` enter; `CompactHolds` what compacting
leaves when it is aborted.

* `TypeCorrect`, `BackgroundWorkComes`, `SliceComes`, `QuietWhereAsserted`, `ResetEnds`;
* `AtomsGoLast`, the action property `AtomsSweptLast`.

**WasmModule_proofs** (from `TieringAssumption`: the generator is no JS thread and `Nobody`
is neither; and a code section of at least one piece). `StubsFollowTier` is about entries and jump tables, and is not
inductive: it needs `Locks`, who holds which tier's lock at each place of a call or of
`finishTier2()`; `TierProgress`, which tier can be the best one at each place; and `Entries`,
that between the creation of the second tier's stubs and its commitment they already cover the
first tier's. `DestroyedWhenDone` needs to know what each place of the stream thread means
for `streamState_` and for the helper (`CallbacksHold`), that a stream fails or
reaches its end and never both (`EndHolds`), how far the helper may be (`BytesHold`), and
what outcome and promise go with that (`OutcomeHolds`, `PromiseHolds`).

* `StubsFollowTierAlways`, for any number of JS threads and exports;
* `DestroyedWhenDoneAlways`, for a code section and chunks of any size;
* `TypeCorrect`, of the composition.

**SharedBuffer_proofs** (from `SharedBufferAssumption`: finite sets of runtimes,
objects and clones, a counter and a memory that hold at least one). `Operations` says what an
operation in progress relies on: a writer on its object and on its clone, which is
its alone, a reader on a clone that was sent, a getter on the buffer of its
memory. None of these goes away before the operation ends, so the counter is positive
whenever someone adds to it, and memory once unmapped is never counted again. Each step then
adds an element to one of three disjoint kinds of owners, removes one, or moves one,
and the counter follows by the library's theorems on cardinality; it does not wrap because a
compare-exchange succeeds only on a value that was not the largest. The lengths (`LengthInv`)
do not depend on the counter: they only grow while anything uses the memory, because a new buffer
is made when no object is left and hence nobody is growing one or about to make an object
of the length it has read (`GrowHolds`); the zones' accounts follow their objects one by one.

* `ReferencesCountedAlways`, for any number of runtimes, objects and clones and any width
  of the counter;
* `LengthsCommittedAlways`.

Only model-checked are the liveness properties (`CallsReturn`, `ShutdownReturns`,
`DrainWakes`, `WokenReturns`, `TimedWaitReturns`, `WaitsEnd`, `WaitEnds`,
`ClosedStreamIsDestroyed` and the fairness part of `ImplementsAsyncTask`), because the
prover handles neither fairness nor ENABLED, and that `EraseIf` is `SelectSeq`, which takes induction over
sequences.

## 5. Not modelled

Of the collector: arenas, chunks and mark bits, `sweepMarkTask` and the allocation task
(as tasks they are GCParallelTask), `ParallelWork.h`, GC suppression, the interrupt bit that makes
a thread look at `majorGCTriggerReason` (it may look at any time), zeal modes, GC callbacks
that collect from within a `gcCycle()` (`gc/GC.cpp:7034`), and `finish()` at
shut-down; the nursery is taken to be enabled (`gc/GC.cpp:7102` returns early when it is not). Of the
helper threads: machines with one CPU, for which `ThreadCountForCPUCount()` makes a special case. Of tiering: eager stubs, debug tiers,
serialization, and the uses of lazy stubs outside calls. Of shared buffers:
`Atomics` on their contents (single instructions), and buffers a failed creation gives up
before an object exists. Of the engine: the parts that section 1 lists last, whose correctness
is no matter of a few interacting states; they are the bulk of its lines.

## 6. Plan

1. **Refinement**: the abstract specifications below, each with the step simulation from
   the invariants already proved.
2. **Parallel work** (`gc/ParallelWork.h`): each item processed once, none left
   unless the budget is exhausted.
3. **Promises and async generators**, **module linking**, **finalization
   registries**: sequential algorithms with reentrancy, against reference definitions
   on small graphs and queues.
4. **Ion life cycle**, then **marking with barriers** on small heaps.

Abstract specifications worth stating: a one-shot call for
promise tasks (created, worked on, resolved or dropped), an atomic wait for
futexes, a counted owner for shared buffers.
