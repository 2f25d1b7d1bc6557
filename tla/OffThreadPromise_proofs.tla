------------------------ MODULE OffThreadPromise_proofs ------------------------
(***************************************************************************)
(* Proofs about OffThreadPromise, for any number of tasks and jobs.        *)
(***************************************************************************)
EXTENDS OffThreadPromise, FiniteSetTheorems, ListTheorems, TLAPS

-----------------------------------------------------------------------------
\* The inductive invariant.

ShutdownPlaces == {"shutRun", "shutWait", "done"}

\* Whatever the event loop holds it owns, is live and is held once.
LoopHolds ==
    /\ IsInjective(queue) /\ IsInjective(swapped)
    /\ \A t \in Tasks : Contains(queue, t) => t \in live /\ owner[t] = "loop"
    /\ \A t \in Tasks : Contains(swapped, t) => t \in live /\ owner[t] = "loop"
    /\ \A t \in Tasks : popped = t => t \in live /\ owner[t] = "loop" /\ ~Contains(queue, t)

\* What each activation on the stack says of its task.
FrameHolds(f) ==
    /\ f.kind = "create" => f.task \in live /\ owner[f.task] = "main"
    /\ f.kind = "resolveHere" => f.task \notin live /\ owner[f.task] = "main"
    /\ f.kind = "resolve" => f.task \notin live /\ owner[f.task] = "loop"

FramesHold ==
    /\ \A i \in 1..Len(stack) : FrameHolds(stack[i])
    /\ \A i, j \in 1..Len(stack) :
          stack[i].kind # "job" /\ stack[i].task = stack[j].task => i = j

OnStack(t) == \E i \in 1..Len(stack) : stack[i].task = t

\* Every task is where its owner says.
OwnersHold ==
    /\ \A t \in live : owner[t] \notin {"none", "deleted"}
    /\ \A t \in Tasks : owner[t] \in {"worker", "rejected", "counted"} => t \in live
    /\ \A t \in Tasks : owner[t] \in {"rejected", "counted"} => closed
    /\ \A t \in Tasks : owner[t] = "main" => OnStack(t)
    /\ \A t \in Tasks : owner[t] = "loop" =>
          Contains(queue, t) \/ Contains(swapped, t) \/ popped = t \/ OnStack(t)

\* Where the JS thread is.
PlaceHolds ==
    /\ closed <=> at \in ShutdownPlaces
    /\ at \in ShutdownPlaces => stack = <<>>
    /\ closed => queue = <<>>
    /\ at # "shutRun" => swapped = <<>>
    /\ popped # NoTask <=> at = "popped"
    /\ at = "done" => live = {}
    /\ at = "drainWait" => live # {}

Counted == {t \in Tasks : owner[t] = "counted"}
CountHolds == numCanceled = Cardinality(Counted)

SleepHolds ==
    asleep => \/ at = "drainWait" /\ queue = <<>>
              \/ at = "shutWait" /\ Cardinality(live) # numCanceled

HistoryHolds ==
    /\ \A t \in Tasks : deletions[t] = IF owner[t] = "deleted" THEN 1 ELSE 0
    /\ \A t \in Tasks : resolutions[t] <= 1
    /\ \A t \in Tasks : t \in live \/ owner[t] = "none" => resolutions[t] = 0

\* Getters that cannot run jobs leave a creation the innermost activation.
CreateOnTop ==
    ~ImportGettersRunJobs =>
        \A i \in 1..Len(stack) :
            stack[i].kind = "create" => i = Len(stack) /\ at = "script"

IndInv == /\ TypeOK /\ LoopHolds /\ FramesHold /\ OwnersHold /\ PlaceHolds
          /\ CountHolds /\ SleepHolds /\ HistoryHolds /\ CreateOnTop


-----------------------------------------------------------------------------
\* What the steps do to the stack.

(* A new activation leaves the others alone. *)
LEMMA PushFrame ==
    ASSUME NEW s \in Seq(Frames), NEW f \in Frames
    PROVE  /\ Append(s, f) \in Seq(Frames)
           /\ Len(Append(s, f)) = Len(s) + 1
           /\ \A i \in 1..Len(s) : Append(s, f)[i] = s[i]
           /\ Append(s, f)[Len(s) + 1] = f
OBVIOUS

(* The innermost activation returns. *)
LEMMA PopFrame ==
    ASSUME NEW s \in Seq(Frames), s # <<>>
    PROVE  /\ Front(s) \in Seq(Frames)
           /\ Len(s) \in Nat \ {0}
           /\ Len(Front(s)) = Len(s) - 1
           /\ \A i \in 1..(Len(s) - 1) : Front(s)[i] = s[i]
           /\ Last(s) \in Frames
<1>1. Len(s) \in Nat \ {0} /\ Last(s) \in Frames
  BY DEF Last
<1>2. /\ SubSeq(s, 1, Len(s) - 1) \in Seq(Frames)
      /\ Len(SubSeq(s, 1, Len(s) - 1)) = Len(s) - 1
      /\ \A i \in 1..(Len(s) - 1) : SubSeq(s, 1, Len(s) - 1)[i] = s[i]
  <2>1. ASSUME NEW n \in 1..Len(s)
        PROVE  /\ SubSeq(s, 1, n - 1) \in Seq(Frames) /\ Len(SubSeq(s, 1, n - 1)) = n - 1
               /\ \A i \in 1..(n - 1) : SubSeq(s, 1, n - 1)[i] = s[i]
    OBVIOUS
  <2>2. Len(s) \in 1..Len(s)
    BY <1>1
  <2> QED BY <2>1, <2>2, Zenon
<1> QED BY <1>1, <1>2 DEF Front

(* An activation other than a job has a task. *)
LEMMA FrameTask ==
    /\ \A f \in Frames : f.kind # "job" => f.task \in Tasks
    /\ \A f \in Frames : f.kind = "job" => f.task = NoTask
    /\ \A t \in Tasks, k \in {"create", "resolve", "resolveHere"} :
          [kind |-> k, task |-> t] \in Frames
    /\ [kind |-> "job", task |-> NoTask] \in Frames
BY DEF Frames

-----------------------------------------------------------------------------
\* The invariant holds initially and is preserved by every step.

(* The invariant holds when the JS thread starts. *)
LEMMA InitIndInv == Init => IndInv
<1> SUFFICES ASSUME Init PROVE IndInv
  OBVIOUS
<1> USE DEF Init
<1>1. TypeOK
  <2>1. stack \in Seq(Frames) /\ queue \in Seq(Tasks) /\ swapped \in Seq(Tasks)
    OBVIOUS
  <2>2. /\ owner \in [Tasks -> Owners] /\ deletions \in [Tasks -> Nat]
        /\ resolutions \in [Tasks -> Nat]
    BY DEF Owners
  <2>3. jobs \in 0..MaxJobs
    BY OffThreadPromiseAssumption
  <2> QED BY <2>1, <2>2, <2>3 DEF TypeOK, Places
<1>2. LoopHolds
  BY OffThreadPromiseAssumption, ListEmpty DEF LoopHolds
<1>3. FramesHold /\ OwnersHold /\ CreateOnTop
  BY DEF FramesHold, OwnersHold, CreateOnTop
<1>4. PlaceHolds /\ SleepHolds
  BY DEF PlaceHolds, SleepHolds, ShutdownPlaces
<1>5. CountHolds
  <2>1. Counted = {}
    BY DEF Counted
  <2> QED BY <2>1, FS_EmptySet DEF CountHolds
<1>6. HistoryHolds
  BY DEF HistoryHolds
<1> QED BY <1>1, <1>2, <1>3, <1>4, <1>5, <1>6 DEF IndInv

(* The steps that only move the JS thread, put it to sleep or wake it, or
   touch the job queue. *)
LEMMA QuietStep ==
    ASSUME IndInv,
           \/ InitInternalDispatchQueue \/ EnqueuePromiseJob \/ Interrupt \/ RunJobs
           \/ DrainReturn \/ DrainWait \/ JobsEnd \/ ShutdownWait \/ SpuriousWakeup
           \/ UNCHANGED vars
    PROVE  IndInv'
<1> USE DEF IndInv, promiseVars, jobVars
<1>1. UNCHANGED <<live, numCanceled, queue, closed, owner, stack, popped, swapped,
                  deletions, resolutions>>
  BY DEF InitInternalDispatchQueue, EnqueuePromiseJob, Interrupt, RunJobs, DrainReturn,
         DrainWait, JobsEnd, ShutdownWait, SpuriousWakeup, vars
<1>2. TypeOK'
  <2>1. jobs' \in 0..MaxJobs
    BY OffThreadPromiseAssumption DEF TypeOK, InitInternalDispatchQueue, EnqueuePromiseJob,
       Interrupt, RunJobs, DrainReturn, DrainWait, JobsEnd, ShutdownWait, SpuriousWakeup,
       vars
  <2>2. /\ extraThreads' \in BOOLEAN /\ initialized' \in BOOLEAN /\ draining' \in BOOLEAN
        /\ interrupted' \in BOOLEAN /\ asleep' \in BOOLEAN /\ at' \in Places
    BY DEF TypeOK, Places, InitInternalDispatchQueue, EnqueuePromiseJob, Interrupt, RunJobs,
       DrainReturn, DrainWait, JobsEnd, ShutdownWait, SpuriousWakeup, vars
  <2> QED BY <1>1, <2>1, <2>2 DEF TypeOK
<1>3. LoopHolds' /\ FramesHold' /\ OwnersHold' /\ HistoryHolds'
  BY <1>1 DEF LoopHolds, FramesHold, FrameHolds, OwnersHold, OnStack, HistoryHolds
<1>4. CountHolds'
  BY <1>1 DEF CountHolds, Counted
<1>5. PlaceHolds'
  BY <1>1 DEF PlaceHolds, ShutdownPlaces, InitInternalDispatchQueue, EnqueuePromiseJob,
     Interrupt, RunJobs, DrainReturn, DrainWait, JobsEnd, ShutdownWait, AtShutdownLoop,
     InScript, SpuriousWakeup, vars
<1>6. SleepHolds'
  BY <1>1 DEF SleepHolds, PlaceHolds, ShutdownPlaces, InitInternalDispatchQueue,
     EnqueuePromiseJob, Interrupt, RunJobs, DrainReturn, DrainWait, JobsEnd, ShutdownWait,
     AtShutdownLoop, InScript, SpuriousWakeup, vars
<1>7. CreateOnTop'
  BY <1>1 DEF CreateOnTop, InScript, InFrame, Last, TypeOK, InitInternalDispatchQueue,
     EnqueuePromiseJob, Interrupt, RunJobs, DrainReturn, DrainWait, JobsEnd, ShutdownWait,
     AtShutdownLoop, SpuriousWakeup, vars
<1> QED BY <1>2, <1>3, <1>4, <1>5, <1>6, <1>7


-----------------------------------------------------------------------------
\* Steps that change one task x and leave the others where they are.

Only(x) ==
    /\ \A t \in Tasks \ {x} : (t \in live' <=> t \in live) /\ owner'[t] = owner[t]
    /\ \A t \in Tasks \ {x} : deletions'[t] = deletions[t] /\ resolutions'[t] = resolutions[t]

(* The innermost activation, of a task, returns. *)
LEMMA PopStack ==
    ASSUME IndInv, stack # <<>>, Last(stack).kind # "job", Pop, Only(TopTask)
    PROVE  /\ TopTask \in Tasks /\ FrameHolds(Last(stack))
           /\ stack' \in Seq(Frames) /\ FramesHold'
           /\ \A t \in Tasks : OnStack(t)' <=> OnStack(t) /\ t # TopTask
           /\ OnStack(TopTask)
           /\ CreateOnTop'
<1> USE DEF Pop, TopTask, IndInv
<1> DEFINE n == Len(stack)
<1>1. /\ stack \in Seq(Frames) /\ stack' \in Seq(Frames)
      /\ n \in Nat \ {0} /\ n \in 1..n /\ Len(stack') = n - 1
      /\ \A i \in 1..(n - 1) : stack'[i] = stack[i]
      /\ stack[n] \in Frames
      /\ Last(stack) = stack[n]
  BY PopFrame DEF TypeOK, Last
<1> HIDE DEF n
<1>2. TopTask \in Tasks
  BY <1>1, FrameTask
<1>3. FrameHolds(Last(stack))
  BY <1>1 DEF FramesHold, n
<1>4. \A i \in 1..(n - 1) : stack[i] \in Frames /\ stack[i].task # stack[n].task
  BY <1>1 DEF FramesHold, n
<1>5. FramesHold'
  <2>1. ASSUME NEW i \in 1..(n - 1) PROVE FrameHolds(stack[i])'
    <3>1. FrameHolds(stack[i])
      BY <1>1 DEF FramesHold, n
    <3>2. stack'[i] = stack[i] /\ stack[i] \in Frames
      BY <1>1, <1>4
    <3>3. stack[i].kind # "job" => stack[i].task \in Tasks \ {TopTask}
      BY <1>1, <1>4, FrameTask
    <3> QED BY <3>1, <3>2, <3>3 DEF FrameHolds, Only
  <2>2. \A i, j \in 1..(n - 1) :
            stack'[i].kind # "job" /\ stack'[i].task = stack'[j].task => i = j
    BY <1>1 DEF FramesHold, n
  <2> QED BY <1>1, <2>1, <2>2 DEF FramesHold
<1>6. \A t \in Tasks : OnStack(t)' <=> OnStack(t) /\ t # TopTask
  BY <1>1, <1>4 DEF OnStack, n
<1>7. OnStack(TopTask)
  BY <1>1 DEF OnStack, n
<1>8. CreateOnTop'
  BY <1>1 DEF CreateOnTop, n
<1> QED BY <1>1, <1>2, <1>3, <1>5, <1>6, <1>7, <1>8

(* An activation begins for a task that had none. *)
LEMMA PushStack ==
    ASSUME IndInv, NEW x \in Tasks, NEW k \in {"create", "resolve", "resolveHere"},
           ~OnStack(x), Push(k, x), Only(x), FrameHolds([kind |-> k, task |-> x])'
    PROVE  /\ stack' \in Seq(Frames) /\ stack' # <<>> /\ FramesHold'
           /\ \A t \in Tasks : OnStack(t)' <=> OnStack(t) \/ t = x
<1> USE DEF Push, IndInv
<1> DEFINE n == Len(stack)
           f == [kind |-> k, task |-> x]
<1>1. /\ stack \in Seq(Frames) /\ stack' \in Seq(Frames)
      /\ n \in Nat /\ Len(stack') = n + 1
      /\ \A i \in 1..n : stack'[i] = stack[i]
      /\ stack'[n + 1] = f /\ f \in Frames
  <2>1. f \in Frames
    BY FrameTask, Zenon
  <2> HIDE DEF f
  <2>2. stack \in Seq(Frames) /\ stack' = Append(stack, f)
    BY DEF TypeOK, f
  <2> QED BY <2>1, <2>2, PushFrame
<1>2. f.kind = k /\ f.task = x
  OBVIOUS
<1> HIDE DEF n, f
<1>3. \A i \in 1..n : stack[i] \in Frames /\ stack[i].task # x
  BY <1>1 DEF OnStack, n
<1>4. FramesHold'
  <2>1. ASSUME NEW i \in 1..n PROVE FrameHolds(stack[i])'
    <3>1. FrameHolds(stack[i])
      BY <1>1 DEF FramesHold, n
    <3>2. stack'[i] = stack[i] /\ stack[i] \in Frames
      BY <1>1, <1>3
    <3>3. stack[i].kind # "job" => stack[i].task \in Tasks \ {x}
      BY <1>3, FrameTask
    <3> QED BY <3>1, <3>2, <3>3 DEF FrameHolds, Only
  <2>2. ASSUME NEW i, i = n + 1 PROVE FrameHolds(stack[i])'
    BY <1>1, <1>2, <2>2 DEF FrameHolds
  <2>3. \A i, j \in 1..(n + 1) :
            stack'[i].kind # "job" /\ stack'[i].task = stack'[j].task => i = j
    BY <1>1, <1>2, <1>3 DEF FramesHold, n
  <2> QED BY <1>1, <2>1, <2>2, <2>3 DEF FramesHold
<1>5. \A t \in Tasks : OnStack(t)' <=> OnStack(t) \/ t = x
  BY <1>1, <1>2 DEF OnStack, n
<1> QED BY <1>1, <1>4, <1>5

(* A task without an activation changes. *)
LEMMA KeepStack ==
    ASSUME IndInv, NEW x \in Tasks, ~OnStack(x), UNCHANGED stack, Only(x)
    PROVE  FramesHold' /\ \A t \in Tasks : OnStack(t)' <=> OnStack(t)
<1> USE DEF IndInv
<1>1. ASSUME NEW i \in 1..Len(stack) PROVE FrameHolds(stack[i])'
  <2>1. FrameHolds(stack[i]) /\ stack[i] \in Frames
    BY DEF FramesHold, TypeOK
  <2>2. stack[i].kind # "job" => stack[i].task \in Tasks \ {x}
    BY <2>1, FrameTask DEF OnStack
  <2> QED BY <2>1, <2>2 DEF FrameHolds, Only
<1>2. \A t \in Tasks : OnStack(t)' <=> OnStack(t)
  BY DEF OnStack
<1> QED BY <1>1, <1>2 DEF FramesHold

(* Tasks that are on the stack are no one else's. *)
LEMMA OnStackOwner ==
    ASSUME IndInv, NEW x \in Tasks, OnStack(x)
    PROVE  /\ owner[x] \in {"main", "loop"}
           /\ x \in live => owner[x] = "main"
           /\ ~Contains(queue, x) /\ ~Contains(swapped, x) /\ popped # x
<1>1. PICK i \in 1..Len(stack) : stack[i].task = x
  BY DEF OnStack
<1>2. stack[i] \in Frames /\ FrameHolds(stack[i])
  BY <1>1 DEF IndInv, TypeOK, FramesHold
<1>3. stack[i].kind # "job"
  BY <1>1, <1>2, FrameTask, OffThreadPromiseAssumption
<1>4. stack[i].kind \in {"create", "resolve", "resolveHere"}
  BY <1>2, <1>3 DEF Frames
<1>5. owner[x] \in {"main", "loop"} /\ (x \in live => owner[x] = "main")
  BY <1>1, <1>2, <1>4 DEF FrameHolds
<1> QED BY <1>2, <1>4, <1>5, <1>1 DEF IndInv, LoopHolds, FrameHolds

(* The number of counted tasks does not change unless one is counted. *)
LEMMA SameCount ==
    ASSUME CountHolds, UNCHANGED numCanceled,
           \A t \in Tasks : owner'[t] = "counted" <=> owner[t] = "counted"
    PROVE  CountHolds'
<1>1. Counted' = Counted
  BY DEF Counted
<1> QED BY <1>1 DEF CountHolds


(* A task gets a new owner. *)
LEMMA OwnOne ==
    ASSUME TypeOK, NEW x \in Tasks, NEW o \in Owners, Own(x, o)
    PROVE  /\ owner' \in [Tasks -> Owners]
           /\ owner'[x] = o
           /\ \A t \in Tasks \ {x} : owner'[t] = owner[t]
BY DEF TypeOK, Own

(* A task is deleted. *)
LEMMA DeleteOne ==
    ASSUME TypeOK, NEW x \in Tasks, Delete({x})
    PROVE  /\ owner' \in [Tasks -> Owners] /\ deletions' \in [Tasks -> Nat]
           /\ owner'[x] = "deleted" /\ deletions'[x] = deletions[x] + 1
           /\ \A t \in Tasks \ {x} : owner'[t] = owner[t]
           /\ \A t \in Tasks \ {x} : deletions'[t] = deletions[t]
BY DEF TypeOK, Delete, Owners

(* OffThreadPromiseTask::init(). *)
LEMMA InitTaskStep ==
    ASSUME IndInv, NEW x \in Tasks, InitTask(x)
    PROVE  IndInv'
<1> USE DEF IndInv
<1>1. /\ owner[x] = "none" /\ InScript
      /\ UNCHANGED <<extraThreads, initialized, numCanceled, queue, closed, jobs, draining,
                     interrupted, at, popped, swapped, asleep, resolutions>>
  BY DEF InitTask, jobVars
<1>2. ~OnStack(x) /\ x \notin live
  BY <1>1, OnStackOwner DEF OwnersHold
<1>3. CASE live' = live \cup {x} /\ Own(x, "main") /\ Push("create", x) /\ UNCHANGED deletions
  <2>1. /\ owner' \in [Tasks -> Owners]
        /\ owner'[x] = "main"
        /\ \A t \in Tasks \ {x} : owner'[t] = owner[t]
    BY <1>3, OwnOne DEF Owners
  <2>2. Only(x)
    BY <1>1, <1>3, <2>1 DEF Only
  <2>3. FrameHolds([kind |-> "create", task |-> x])'
    BY <1>3, <2>1 DEF FrameHolds
  <2>4. /\ stack' \in Seq(Frames) /\ stack' # <<>> /\ FramesHold'
        /\ \A t \in Tasks : OnStack(t)' <=> OnStack(t) \/ t = x
    BY <1>2, <1>3, <2>2, <2>3, PushStack
  <2>5. TypeOK'
    BY <1>1, <1>3, <2>1, <2>4 DEF TypeOK
  <2>6. LoopHolds'
    BY <1>1, <1>2, <1>3, <2>1 DEF LoopHolds
  <2>7. OwnersHold'
    BY <1>1, <1>2, <1>3, <2>1, <2>4 DEF OwnersHold, TypeOK
  <2>8. PlaceHolds' /\ SleepHolds'
    BY <1>1, <1>3 DEF PlaceHolds, SleepHolds, InScript, ShutdownPlaces
  <2>9. CountHolds'
    BY <1>1, <2>1, SameCount
  <2>10. HistoryHolds'
    BY <1>1, <1>3, <2>1 DEF HistoryHolds
  <2>11. CreateOnTop'
    <3>1. ~ImportGettersRunJobs => \A i \in 1..Len(stack) : stack[i].kind # "create"
      BY <1>1 DEF CreateOnTop, InScript, InFrame, Last, TypeOK
    <3>2. /\ Len(stack) \in Nat /\ Len(stack') = Len(stack) + 1
          /\ \A i \in 1..Len(stack) : stack'[i] = stack[i]
      BY <1>3, PushFrame, FrameTask DEF Push, TypeOK
    <3> QED BY <1>1, <3>1, <3>2 DEF CreateOnTop, InScript
  <2> QED BY <2>4, <2>5, <2>6, <2>7, <2>8, <2>9, <2>10, <2>11
<1>4. CASE Delete({x}) /\ UNCHANGED <<live, stack>>
  <2>1. /\ owner' \in [Tasks -> Owners] /\ deletions' \in [Tasks -> Nat]
        /\ owner'[x] = "deleted" /\ deletions'[x] = deletions[x] + 1
        /\ \A t \in Tasks \ {x} : owner'[t] = owner[t]
        /\ \A t \in Tasks \ {x} : deletions'[t] = deletions[t]
    BY <1>4, DeleteOne
  <2>2. Only(x)
    BY <1>1, <1>4, <2>1 DEF Only
  <2>3. FramesHold' /\ \A t \in Tasks : OnStack(t)' <=> OnStack(t)
    BY <1>2, <1>4, <2>2, KeepStack
  <2>4. TypeOK'
    BY <1>1, <1>4, <2>1 DEF TypeOK
  <2>5. LoopHolds'
    BY <1>1, <1>2, <1>4, <2>1 DEF LoopHolds
  <2>6. OwnersHold'
    BY <1>1, <1>2, <1>4, <2>1, <2>3 DEF OwnersHold, TypeOK
  <2>7. PlaceHolds' /\ SleepHolds' /\ CreateOnTop'
    BY <1>1, <1>4 DEF PlaceHolds, SleepHolds, CreateOnTop
  <2>8. CountHolds'
    BY <1>1, <2>1, SameCount
  <2>9. HistoryHolds'
    BY <1>1, <1>2, <1>4, <2>1 DEF HistoryHolds
  <2> QED BY <2>3, <2>4, <2>5, <2>6, <2>7, <2>8, <2>9
<1> QED BY <1>3, <1>4 DEF InitTask

(* A creation ends: what the innermost activation says of its task. *)
LEMMA TopOfStack ==
    ASSUME IndInv, NEW k \in {"create", "resolve", "resolveHere"}, InFrame(k)
    PROVE  /\ stack # <<>> /\ Last(stack).kind # "job"
           /\ at = "script" /\ ~closed /\ popped = NoTask /\ swapped = <<>>
           /\ TopTask \in Tasks /\ OnStack(TopTask)
           /\ k = "create" => TopTask \in live /\ owner[TopTask] = "main"
           /\ k = "resolveHere" => TopTask \notin live /\ owner[TopTask] = "main"
           /\ k = "resolve" => TopTask \notin live /\ owner[TopTask] = "loop"
<1> USE DEF IndInv
<1>1. stack # <<>> /\ Last(stack).kind = k /\ at = "script"
  BY DEF InFrame
<1>2. /\ Last(stack) \in Frames /\ Last(stack) = stack[Len(stack)]
      /\ Len(stack) \in 1..Len(stack)
  BY <1>1, PopFrame DEF TypeOK, Last
<1>3. TopTask \in Tasks /\ OnStack(TopTask)
  BY <1>1, <1>2, FrameTask DEF TopTask, OnStack
<1>4. FrameHolds(Last(stack))
  BY <1>2 DEF FramesHold
<1> QED BY <1>1, <1>3, <1>4 DEF PlaceHolds, ShutdownPlaces, FrameHolds, TopTask

(* StartOffThreadPromiseHelperTask() with helper threads. *)
LEMMA HandOffStep ==
    ASSUME IndInv, HandOff
    PROVE  IndInv'
<1> USE DEF IndInv
<1> DEFINE x == TopTask
<1>1. /\ InFrame("create") /\ Own(x, "worker") /\ Pop
      /\ UNCHANGED <<extraThreads, initialized, live, numCanceled, queue, closed, jobs,
                     draining, interrupted, at, popped, swapped, asleep, deletions,
                     resolutions>>
  BY DEF HandOff, promiseVars, jobVars
<1>2. /\ stack # <<>> /\ Last(stack).kind # "job" /\ at = "script" /\ x \in Tasks
      /\ x \in live /\ owner[x] = "main" /\ OnStack(x)
  BY <1>1, TopOfStack
<1>3. /\ owner' \in [Tasks -> Owners] /\ owner'[x] = "worker"
      /\ \A t \in Tasks \ {x} : owner'[t] = owner[t]
  BY <1>1, <1>2, OwnOne DEF Owners
<1>4. Only(x)
  BY <1>1, <1>3 DEF Only
<1>5. /\ stack' \in Seq(Frames) /\ FramesHold' /\ CreateOnTop'
      /\ \A t \in Tasks : OnStack(t)' <=> OnStack(t) /\ t # x
  BY <1>1, <1>2, <1>4, PopStack
<1> HIDE DEF x
<1>6. ~Contains(queue, x) /\ ~Contains(swapped, x) /\ popped # x
  BY <1>2, OnStackOwner
<1>7. TypeOK'
  BY <1>1, <1>3, <1>5 DEF TypeOK
<1>8. LoopHolds'
  BY <1>1, <1>2, <1>3, <1>6 DEF LoopHolds
<1>9. OwnersHold'
  BY <1>1, <1>2, <1>3, <1>5 DEF OwnersHold, TypeOK
<1>10. PlaceHolds' /\ SleepHolds'
  BY <1>1, <1>2 DEF PlaceHolds, SleepHolds, ShutdownPlaces
<1>11. CountHolds'
  BY <1>1, <1>2, <1>3, SameCount
<1>12. HistoryHolds'
  BY <1>1, <1>2, <1>3 DEF HistoryHolds
<1> QED BY <1>5, <1>7, <1>8, <1>9, <1>10, <1>11, <1>12


(* internalDispatchToEventLoop() of an open queue. *)
LEMMA EnqueueOne ==
    ASSUME IndInv, NEW x \in Tasks, ~Contains(queue, x), Enqueue(x)
    PROVE  /\ ~closed /\ queue' \in Seq(Tasks) /\ IsInjective(queue')
           /\ \A t \in Tasks : Contains(queue', t) <=> Contains(queue, t) \/ t = x
           /\ owner' \in [Tasks -> Owners] /\ owner'[x] = "loop"
           /\ \A t \in Tasks \ {x} : owner'[t] = owner[t]
           /\ asleep' \in BOOLEAN
           /\ asleep' => asleep /\ at # "drainWait"
<1>1. ~closed /\ queue' = Append(queue, x) /\ Own(x, "loop")
  BY DEF Enqueue
<1>2. /\ owner' \in [Tasks -> Owners] /\ owner'[x] = "loop"
      /\ \A t \in Tasks \ {x} : owner'[t] = owner[t]
  BY <1>1, OwnOne DEF Owners, IndInv
<1>3. queue \in Seq(Tasks) /\ IsInjective(queue)
  BY DEF IndInv, TypeOK, LoopHolds
<1>4. asleep' \in BOOLEAN /\ (asleep' => asleep /\ at # "drainWait")
  BY DEF Enqueue
<1> QED BY <1>1, <1>2, <1>3, <1>4, ListAppend

(* AsyncInstantiate() dispatches its task itself. *)
LEMMA DispatchHereStep ==
    ASSUME IndInv, DispatchHere
    PROVE  IndInv'
<1> USE DEF IndInv
<1> DEFINE x == TopTask
<1>1. /\ InFrame("create") /\ Enqueue(x) /\ Pop
      /\ UNCHANGED <<extraThreads, initialized, live, numCanceled, closed, jobs, draining,
                     interrupted, at, popped, swapped, deletions, resolutions>>
  BY DEF DispatchHere, jobVars
<1>2. /\ stack # <<>> /\ Last(stack).kind # "job" /\ at = "script" /\ x \in Tasks
      /\ x \in live /\ owner[x] = "main" /\ OnStack(x)
  BY <1>1, TopOfStack
<1>3. ~Contains(queue, x) /\ ~Contains(swapped, x) /\ popped # x
  BY <1>2, OnStackOwner
<1>4. /\ ~closed /\ queue' \in Seq(Tasks) /\ IsInjective(queue')
      /\ \A t \in Tasks : Contains(queue', t) <=> Contains(queue, t) \/ t = x
      /\ owner' \in [Tasks -> Owners] /\ owner'[x] = "loop"
      /\ \A t \in Tasks \ {x} : owner'[t] = owner[t]
      /\ asleep' \in BOOLEAN
      /\ asleep' => asleep /\ at # "drainWait"
  BY <1>1, <1>2, <1>3, EnqueueOne
<1>5. Only(x)
  BY <1>1, <1>4 DEF Only
<1>6. /\ stack' \in Seq(Frames) /\ FramesHold' /\ CreateOnTop'
      /\ \A t \in Tasks : OnStack(t)' <=> OnStack(t) /\ t # x
  BY <1>1, <1>2, <1>5, PopStack
<1> HIDE DEF x
<1>7. TypeOK'
  BY <1>1, <1>4, <1>6 DEF TypeOK
<1>8. LoopHolds'
  BY <1>1, <1>2, <1>3, <1>4 DEF LoopHolds
<1>9. OwnersHold'
  BY <1>1, <1>2, <1>4, <1>6 DEF OwnersHold, TypeOK
<1>10. PlaceHolds' /\ SleepHolds'
  BY <1>1, <1>2, <1>4 DEF PlaceHolds, SleepHolds, ShutdownPlaces
<1>11. CountHolds'
  BY <1>1, <1>2, <1>4, SameCount
<1>12. HistoryHolds'
  BY <1>1, <1>2, <1>4 DEF HistoryHolds
<1> QED BY <1>6, <1>7, <1>8, <1>9, <1>10, <1>11, <1>12

(* The creation of a task fails, or resolve() of a task returns: the task of
   the innermost activation is deleted with it. *)
LEMMA DeleteTop ==
    ASSUME IndInv, NEW k \in {"create", "resolve", "resolveHere"}, InFrame(k),
           live' = live \ {TopTask}, Delete({TopTask}), Pop,
           at' \in {"script", "drain"},
           UNCHANGED <<extraThreads, initialized, numCanceled, queue, closed, jobVars,
                       popped, swapped, asleep, resolutions>>
    PROVE  IndInv'
<1> USE DEF IndInv, jobVars
<1> DEFINE x == TopTask
<1>1. /\ stack # <<>> /\ Last(stack).kind # "job" /\ at = "script" /\ x \in Tasks
      /\ OnStack(x) /\ owner[x] \in {"main", "loop"} /\ ~closed
  BY TopOfStack
<1>2. ~Contains(queue, x) /\ ~Contains(swapped, x) /\ popped # x
  BY <1>1, OnStackOwner
<1>3. /\ owner' \in [Tasks -> Owners] /\ deletions' \in [Tasks -> Nat]
      /\ owner'[x] = "deleted" /\ deletions'[x] = deletions[x] + 1
      /\ \A t \in Tasks \ {x} : owner'[t] = owner[t]
      /\ \A t \in Tasks \ {x} : deletions'[t] = deletions[t]
  BY <1>1, DeleteOne
<1>4. Only(x)
  BY <1>3 DEF Only
<1>5. /\ stack' \in Seq(Frames) /\ FramesHold' /\ CreateOnTop'
      /\ \A t \in Tasks : OnStack(t)' <=> OnStack(t) /\ t # x
  BY <1>1, <1>4, PopStack
<1>6. live' = live \ {x}
  OBVIOUS
<1> HIDE DEF x
<1>7. TypeOK'
  BY <1>3, <1>5, <1>6 DEF TypeOK, Places
<1>8. LoopHolds'
  BY <1>2, <1>3, <1>6 DEF LoopHolds
<1>9. OwnersHold'
  BY <1>1, <1>3, <1>5, <1>6 DEF OwnersHold, TypeOK
<1>10. PlaceHolds' /\ SleepHolds'
  BY <1>1 DEF PlaceHolds, SleepHolds, ShutdownPlaces
<1>11. CountHolds'
  BY <1>1, <1>3, SameCount
<1>12. HistoryHolds'
  BY <1>1, <1>3, <1>6 DEF HistoryHolds
<1> QED BY <1>5, <1>7, <1>8, <1>9, <1>10, <1>11, <1>12

(* The task of a failed creation is unregistered and deleted. *)
LEMMA DropUnstartedStep ==
    ASSUME IndInv, DropUnstarted
    PROVE  IndInv'
<1>1. at = "script"
  BY DEF DropUnstarted, InFrame
<1> QED BY <1>1, DeleteTop DEF DropUnstarted

(* run() deletes the task that resolve() has returned for. *)
LEMMA RunEndStep ==
    ASSUME IndInv, RunEnd
    PROVE  IndInv'
<1>1. PICK k \in {"resolve", "resolveHere"} : InFrame(k)
  BY DEF RunEnd
<1>2. live' = live \ {TopTask}
  BY <1>1, TopOfStack DEF RunEnd, promiseVars
<1>3. at' \in {"script", "drain"}
  BY DEF RunEnd, InFrame
<1> QED BY <1>1, <1>2, <1>3, DeleteTop DEF RunEnd, promiseVars


(* executeAndResolveAndDestroy(): the creation becomes the resolution. *)
LEMMA ExecuteHereStep ==
    ASSUME IndInv, ExecuteHere
    PROVE  IndInv'
<1> USE DEF IndInv
<1> DEFINE x == TopTask
           n == Len(stack)
<1>1. /\ InFrame("create") /\ live' = live \ {x}
      /\ stack' = [stack EXCEPT ![n].kind = "resolveHere"]
      /\ resolutions' = [resolutions EXCEPT ![x] = @ + 1]
      /\ UNCHANGED <<extraThreads, initialized, numCanceled, queue, closed, jobs, draining,
                     interrupted, owner, at, popped, swapped, asleep, deletions>>
  BY DEF ExecuteHere, jobVars
<1>2. /\ stack # <<>> /\ at = "script" /\ x \in Tasks
      /\ x \in live /\ owner[x] = "main" /\ OnStack(x)
  BY <1>1, TopOfStack
<1>3. ~Contains(queue, x) /\ ~Contains(swapped, x) /\ popped # x
  BY <1>2, OnStackOwner
<1>4. /\ resolutions' \in [Tasks -> Nat] /\ resolutions'[x] = resolutions[x] + 1
      /\ \A t \in Tasks \ {x} : resolutions'[t] = resolutions[t]
  BY <1>1, <1>2 DEF TypeOK
<1>5. /\ n \in Nat \ {0} /\ n \in 1..n /\ stack[n] \in Frames /\ stack[n].task = x
      /\ stack[n].kind = "create"
  BY <1>1, <1>2, PopFrame DEF TypeOK, Last, TopTask, InFrame
<1>6. /\ stack' \in Seq(Frames) /\ Len(stack') = n
      /\ \A i \in 1..n : stack'[i].task = stack[i].task
      /\ stack'[n].kind = "resolveHere"
      /\ \A i \in 1..(n - 1) : stack'[i] = stack[i]
  <2> DEFINE f == [stack[n] EXCEPT !.kind = "resolveHere"]
  <2>1. f = [kind |-> "resolveHere", task |-> x]
    BY <1>2, <1>5, OffThreadPromiseAssumption DEF Frames
  <2>2. f \in Frames
    BY <1>2, <2>1, FrameTask
  <2>3. stack' = [stack EXCEPT ![n] = f]
    BY <1>1
  <2>4. f.kind = "resolveHere" /\ f.task = x
    BY <2>1
  <2> HIDE DEF f
  <2>5. /\ stack' \in Seq(Frames) /\ Len(stack') = n /\ stack'[n] = f
        /\ \A i \in 1..n : i # n => stack'[i] = stack[i]
    BY <1>5, <2>2, <2>3 DEF TypeOK
  <2> QED BY <1>5, <2>4, <2>5
<1> HIDE DEF x, n
<1>7. FramesHold'
  <2>1. \A i \in 1..n, j \in 1..n : stack[i].kind # "job" /\ stack[i].task = stack[j].task => i = j
    BY DEF FramesHold, n
  <2>2. \A i \in 1..(n - 1) : stack[i].task # x
    BY <1>5, <2>1
  <2>3. ASSUME NEW i \in 1..(n - 1) PROVE FrameHolds(stack[i])'
    <3>1. FrameHolds(stack[i])
      BY <1>5 DEF FramesHold, n
    <3> QED BY <1>1, <1>5, <1>6, <2>2, <3>1 DEF FrameHolds
  <2>4. ASSUME NEW i, i = n PROVE FrameHolds(stack[i])'
    BY <1>1, <1>2, <1>5, <1>6, <2>4 DEF FrameHolds
  <2>5. \A i, j \in 1..n :
            stack'[i].kind # "job" /\ stack'[i].task = stack'[j].task => i = j
    BY <1>5, <1>6, <2>1, <2>2
  <2> QED BY <1>5, <1>6, <2>3, <2>4, <2>5 DEF FramesHold
<1>8. \A t \in Tasks : OnStack(t)' <=> OnStack(t)
  BY <1>6 DEF OnStack, n
<1>9. TypeOK'
  BY <1>1, <1>4, <1>6 DEF TypeOK
<1>10. LoopHolds'
  BY <1>1, <1>3 DEF LoopHolds
<1>11. OwnersHold'
  BY <1>1, <1>2, <1>8 DEF OwnersHold
<1>12. PlaceHolds' /\ SleepHolds'
  BY <1>1, <1>2 DEF PlaceHolds, SleepHolds, ShutdownPlaces
<1>13. CountHolds'
  BY <1>1, SameCount
<1>14. HistoryHolds'
  BY <1>1, <1>2, <1>4 DEF HistoryHolds
<1>15. CreateOnTop'
  BY <1>1, <1>5, <1>6 DEF CreateOnTop, n
<1> QED BY <1>7, <1>9, <1>10, <1>11, <1>12, <1>13, <1>14, <1>15

(* internalDrain() takes the first task of the queue. *)
LEMMA DrainPopStep ==
    ASSUME IndInv, DrainPop
    PROVE  IndInv'
<1> USE DEF IndInv
<1>1. /\ at \in {"drain", "drainWait"} /\ at' = "popped" /\ queue # <<>>
      /\ popped' = Head(queue) /\ queue' = Tail(queue) /\ (at = "drainWait" => ~asleep)
      /\ UNCHANGED <<extraThreads, initialized, live, numCanceled, closed, jobs, draining,
                     interrupted, owner, stack, swapped, asleep, deletions, resolutions>>
  BY DEF DrainPop, jobVars
<1>2. /\ popped' \in Tasks /\ queue' \in Seq(Tasks) /\ IsInjective(queue')
      /\ Contains(queue, popped')
      /\ \A t \in Tasks : Contains(queue', t) <=> Contains(queue, t) /\ t # popped'
  BY <1>1, ListTail DEF TypeOK, LoopHolds
<1>3. TypeOK'
  BY <1>1, <1>2 DEF TypeOK, Places
<1>4. LoopHolds'
  BY <1>1, <1>2 DEF LoopHolds
<1>5. FramesHold'
  BY <1>1 DEF FramesHold, FrameHolds
<1>6. OwnersHold'
  <2>1. \A t \in Tasks : OnStack(t)' <=> OnStack(t)
    BY <1>1 DEF OnStack
  <2>2. \A t \in Tasks : popped # t
    BY <1>1, OffThreadPromiseAssumption DEF PlaceHolds
  <2> QED BY <1>1, <1>2, <2>1, <2>2 DEF OwnersHold
<1>7. PlaceHolds' /\ SleepHolds'
  BY <1>1, <1>2, OffThreadPromiseAssumption DEF PlaceHolds, SleepHolds, ShutdownPlaces
<1>8. CountHolds' /\ HistoryHolds'
  BY <1>1, SameCount DEF HistoryHolds
<1>9. CreateOnTop'
  BY <1>1 DEF CreateOnTop
<1> QED BY <1>3, <1>4, <1>5, <1>6, <1>7, <1>8, <1>9

(* run() unregisters the task and calls its resolve(). *)
LEMMA RunStep ==
    ASSUME IndInv, Run
    PROVE  IndInv'
<1> USE DEF IndInv
<1>0. PICK x \in Tasks : x = popped
  BY DEF Run, TypeOK, PlaceHolds
<1>1. /\ at = "popped" /\ at' = "script" /\ live' = live \ {x} /\ popped' = NoTask
      /\ resolutions' = [resolutions EXCEPT ![x] = @ + 1] /\ Push("resolve", x)
      /\ UNCHANGED <<extraThreads, initialized, numCanceled, queue, closed, jobs, draining,
                     interrupted, owner, swapped, asleep, deletions>>
  BY <1>0 DEF Run, jobVars
<1>2. /\ x \in live /\ owner[x] = "loop" /\ ~Contains(queue, x)
      /\ ~closed /\ swapped = <<>>
  BY <1>0, <1>1 DEF LoopHolds, PlaceHolds, ShutdownPlaces
<1>3. ~OnStack(x)
  BY <1>2, OnStackOwner
<1>4. /\ resolutions' \in [Tasks -> Nat] /\ resolutions'[x] = resolutions[x] + 1
      /\ \A t \in Tasks \ {x} : resolutions'[t] = resolutions[t]
  BY <1>1, <1>2 DEF TypeOK
<1>5. Only(x)
  BY <1>1, <1>4 DEF Only
<1>6. FrameHolds([kind |-> "resolve", task |-> x])'
  BY <1>1, <1>2 DEF FrameHolds
<1>7. /\ stack' \in Seq(Frames) /\ stack' # <<>> /\ FramesHold'
      /\ \A t \in Tasks : OnStack(t)' <=> OnStack(t) \/ t = x
  BY <1>1, <1>3, <1>5, <1>6, PushStack
<1>8. /\ Len(stack) \in Nat /\ Len(stack') = Len(stack) + 1
      /\ \A i \in 1..Len(stack) : stack'[i] = stack[i]
      /\ stack'[Len(stack) + 1].kind = "resolve"
  BY <1>1, <1>2, PushFrame, FrameTask DEF Push, TypeOK
<1>9. TypeOK'
  BY <1>1, <1>4, <1>7 DEF TypeOK, Places
<1>10. LoopHolds'
  BY <1>1, <1>2, ListEmpty, OffThreadPromiseAssumption DEF LoopHolds
<1>11. OwnersHold'
  BY <1>0, <1>1, <1>2, <1>7 DEF OwnersHold
<1>12. PlaceHolds' /\ SleepHolds'
  BY <1>1, <1>2 DEF PlaceHolds, SleepHolds, ShutdownPlaces
<1>13. CountHolds'
  BY <1>1, SameCount
<1>14. HistoryHolds'
  BY <1>1, <1>2, <1>4 DEF HistoryHolds
<1>15. CreateOnTop'
  BY <1>1, <1>8 DEF CreateOnTop
<1> QED BY <1>7, <1>9, <1>10, <1>11, <1>12, <1>13, <1>14, <1>15


(* A promise job begins. *)
LEMMA RunJobStep ==
    ASSUME IndInv, RunJob
    PROVE  IndInv'
<1> USE DEF IndInv
<1> DEFINE n == Len(stack)
<1>1. /\ at = "jobs" /\ at' = "script" /\ jobs > 0 /\ jobs' = jobs - 1
      /\ stack' = Append(stack, [kind |-> "job", task |-> NoTask])
      /\ UNCHANGED <<extraThreads, initialized, live, numCanceled, queue, closed, draining,
                     interrupted, owner, popped, swapped, asleep, deletions, resolutions>>
  BY DEF RunJob, Push, promiseVars
<1>2. /\ stack \in Seq(Frames) /\ stack' \in Seq(Frames)
      /\ n \in Nat /\ Len(stack') = n + 1 /\ \A i \in 1..n : stack'[i] = stack[i]
      /\ stack'[n + 1].kind = "job" /\ stack'[n + 1].task = NoTask
  BY <1>1, PushFrame, FrameTask DEF TypeOK
<1> HIDE DEF n
<1>3. \A i \in 1..n : stack[i] \in Frames
  BY <1>2 DEF n
<1>4. FramesHold'
  <2>1. ASSUME NEW i \in 1..(n + 1) PROVE FrameHolds(stack[i])'
    <3>1. CASE i \in 1..n
      BY <1>1, <1>2, <3>1 DEF FramesHold, FrameHolds, n
    <3>2. CASE i = n + 1
      BY <1>2, <3>2 DEF FrameHolds
    <3> QED BY <1>2, <3>1, <3>2
  <2>2. \A i \in 1..n : stack'[i].kind # "job" => stack'[i].task # NoTask
    BY <1>2, <1>3, FrameTask, OffThreadPromiseAssumption
  <2>3. \A i, j \in 1..(n + 1) :
            stack'[i].kind # "job" /\ stack'[i].task = stack'[j].task => i = j
    BY <1>2, <2>2 DEF FramesHold, n
  <2> QED BY <1>2, <2>1, <2>3 DEF FramesHold
<1>5. \A t \in Tasks : OnStack(t)' <=> OnStack(t)
  BY <1>2, OffThreadPromiseAssumption DEF OnStack, n
<1>6. TypeOK'
  <2>1. jobs' \in 0..MaxJobs
    BY <1>1, OffThreadPromiseAssumption DEF TypeOK
  <2> QED BY <1>1, <1>2, <2>1 DEF TypeOK, Places
<1>7. LoopHolds' /\ OwnersHold'
  BY <1>1, <1>5 DEF LoopHolds, OwnersHold
<1>8. PlaceHolds' /\ SleepHolds'
  BY <1>1 DEF PlaceHolds, SleepHolds, ShutdownPlaces
<1>9. CountHolds' /\ HistoryHolds'
  BY <1>1, SameCount DEF HistoryHolds
<1>10. CreateOnTop'
  BY <1>1, <1>2 DEF CreateOnTop, n
<1> QED BY <1>4, <1>6, <1>7, <1>8, <1>9, <1>10

(* A promise job returns. *)
LEMMA RunJobEndStep ==
    ASSUME IndInv, RunJobEnd
    PROVE  IndInv'
<1> USE DEF IndInv
<1> DEFINE n == Len(stack)
<1>1. /\ at = "script" /\ at' = "jobs" /\ stack # <<>> /\ Last(stack).kind = "job"
      /\ stack' = Front(stack)
      /\ UNCHANGED <<extraThreads, initialized, live, numCanceled, queue, closed, jobs,
                     draining, interrupted, owner, popped, swapped, asleep, deletions,
                     resolutions>>
  BY DEF RunJobEnd, InFrame, Pop, promiseVars, jobVars
<1>2. /\ stack \in Seq(Frames) /\ stack' \in Seq(Frames)
      /\ n \in Nat \ {0} /\ Len(stack') = n - 1 /\ \A i \in 1..(n - 1) : stack'[i] = stack[i]
      /\ stack[n] \in Frames /\ stack[n].kind = "job"
  BY <1>1, PopFrame DEF TypeOK, Last
<1> HIDE DEF n
<1>3. stack[n].task = NoTask
  BY <1>2, FrameTask
<1>4. FramesHold'
  <2>1. ASSUME NEW i \in 1..(n - 1) PROVE FrameHolds(stack[i])'
    BY <1>1, <1>2 DEF FramesHold, FrameHolds, n
  <2>2. \A i, j \in 1..(n - 1) :
            stack'[i].kind # "job" /\ stack'[i].task = stack'[j].task => i = j
    BY <1>2 DEF FramesHold, n
  <2> QED BY <1>2, <2>1, <2>2 DEF FramesHold
<1>5. \A t \in Tasks : OnStack(t)' <=> OnStack(t)
  BY <1>2, <1>3, OffThreadPromiseAssumption DEF OnStack, n
<1>6. TypeOK'
  BY <1>1, <1>2 DEF TypeOK, Places
<1>7. LoopHolds' /\ OwnersHold'
  BY <1>1, <1>5 DEF LoopHolds, OwnersHold
<1>8. PlaceHolds' /\ SleepHolds'
  BY <1>1 DEF PlaceHolds, SleepHolds, ShutdownPlaces
<1>9. CountHolds' /\ HistoryHolds'
  BY <1>1, SameCount DEF HistoryHolds
<1>10. CreateOnTop'
  BY <1>1, <1>2 DEF CreateOnTop, n
<1> QED BY <1>4, <1>6, <1>7, <1>8, <1>9, <1>10

(* shutdown() swaps the queue out and closes it. *)
LEMMA ShutdownCloseStep ==
    ASSUME IndInv, ShutdownClose
    PROVE  IndInv'
<1> USE DEF IndInv
<1>1. /\ at = "script" /\ stack = <<>> /\ swapped' = queue /\ queue' = <<>>
      /\ closed' = TRUE /\ at' = "shutRun"
      /\ UNCHANGED <<extraThreads, initialized, live, numCanceled, jobs, draining,
                     interrupted, owner, stack, popped, asleep, deletions, resolutions>>
  BY DEF ShutdownClose, jobVars
<1>2. swapped = <<>> /\ popped = NoTask /\ ~asleep
  BY <1>1 DEF PlaceHolds, SleepHolds
<1>3. TypeOK'
  BY <1>1 DEF TypeOK, Places
<1>4. LoopHolds'
  BY <1>1, ListEmpty DEF LoopHolds
<1>5. FramesHold' /\ CreateOnTop'
  BY <1>1 DEF FramesHold, CreateOnTop
<1>6. OwnersHold'
  BY <1>1, <1>2, ListEmpty DEF OwnersHold, OnStack
<1>7. PlaceHolds' /\ SleepHolds'
  BY <1>1, <1>2 DEF PlaceHolds, SleepHolds, ShutdownPlaces
<1>8. CountHolds' /\ HistoryHolds'
  BY <1>1, SameCount DEF HistoryHolds
<1> QED BY <1>3, <1>4, <1>5, <1>6, <1>7, <1>8

(* shutdown() runs, which here only deletes, an accepted task. *)
LEMMA ShutdownRunStep ==
    ASSUME IndInv, ShutdownRun
    PROVE  IndInv'
<1> USE DEF IndInv
<1>1. PICK x \in Tasks : x = Head(swapped)
  BY ListTail DEF ShutdownRun, TypeOK, LoopHolds
<1>2. /\ at = "shutRun" /\ live' = live \ {x} /\ Delete({x}) /\ swapped' = Tail(swapped)
      /\ swapped # <<>>
      /\ UNCHANGED <<extraThreads, initialized, numCanceled, queue, closed, jobs, draining,
                     interrupted, at, stack, popped, asleep, resolutions>>
  BY <1>1 DEF ShutdownRun, jobVars
<1>3. /\ swapped' \in Seq(Tasks) /\ IsInjective(swapped') /\ Contains(swapped, x)
      /\ \A t \in Tasks : Contains(swapped', t) <=> Contains(swapped, t) /\ t # x
  BY <1>1, <1>2, ListTail DEF TypeOK, LoopHolds
<1>4. /\ closed /\ queue = <<>> /\ stack = <<>> /\ popped = NoTask
      /\ x \in live /\ owner[x] = "loop" /\ ~asleep
  BY <1>2, <1>3 DEF PlaceHolds, LoopHolds, SleepHolds, ShutdownPlaces
<1>5. /\ owner' \in [Tasks -> Owners] /\ deletions' \in [Tasks -> Nat]
      /\ owner'[x] = "deleted" /\ deletions'[x] = deletions[x] + 1
      /\ \A t \in Tasks \ {x} : owner'[t] = owner[t]
      /\ \A t \in Tasks \ {x} : deletions'[t] = deletions[t]
  BY <1>2, DeleteOne
<1>6. TypeOK'
  BY <1>2, <1>3, <1>5 DEF TypeOK
<1>7. LoopHolds'
  BY <1>2, <1>3, <1>4, <1>5, ListEmpty, OffThreadPromiseAssumption DEF LoopHolds
<1>8. FramesHold' /\ CreateOnTop'
  BY <1>2, <1>4 DEF FramesHold, CreateOnTop
<1>9. OwnersHold'
  <2>1. \A t \in Tasks : OnStack(t)' <=> OnStack(t)
    BY <1>2 DEF OnStack
  <2> QED BY <1>2, <1>3, <1>4, <1>5, <2>1 DEF OwnersHold, TypeOK
<1>10. PlaceHolds' /\ SleepHolds'
  BY <1>2, <1>4 DEF PlaceHolds, SleepHolds, ShutdownPlaces
<1>11. CountHolds'
  BY <1>2, <1>4, <1>5, SameCount
<1>12. HistoryHolds'
  BY <1>2, <1>4, <1>5 DEF HistoryHolds
<1> QED BY <1>6, <1>7, <1>8, <1>9, <1>10, <1>11, <1>12


(* dispatchResolveAndDestroy() on a worker: accepted, or rejected. *)
LEMMA DispatchStep ==
    ASSUME IndInv, NEW x \in Tasks, Dispatch(x)
    PROVE  IndInv'
<1> USE DEF IndInv
<1>1. /\ owner[x] = "worker"
      /\ UNCHANGED <<extraThreads, initialized, live, numCanceled, closed, jobs, draining,
                     interrupted, at, stack, popped, swapped, deletions, resolutions>>
  BY DEF Dispatch, jobVars
<1>2. /\ ~OnStack(x) /\ x \in live /\ ~Contains(queue, x) /\ ~Contains(swapped, x)
      /\ popped # x
  BY <1>1, OnStackOwner DEF OwnersHold, LoopHolds
<1>3. CASE Enqueue(x)
  <2>1. /\ ~closed /\ queue' \in Seq(Tasks) /\ IsInjective(queue')
        /\ \A t \in Tasks : Contains(queue', t) <=> Contains(queue, t) \/ t = x
        /\ owner' \in [Tasks -> Owners] /\ owner'[x] = "loop"
        /\ \A t \in Tasks \ {x} : owner'[t] = owner[t]
        /\ asleep' \in BOOLEAN
        /\ asleep' => asleep /\ at # "drainWait"
    BY <1>2, <1>3, EnqueueOne
  <2>2. Only(x)
    BY <1>1, <2>1 DEF Only
  <2>3. FramesHold' /\ \A t \in Tasks : OnStack(t)' <=> OnStack(t)
    BY <1>1, <1>2, <2>2, KeepStack
  <2>4. TypeOK'
    BY <1>1, <2>1 DEF TypeOK
  <2>5. LoopHolds'
    BY <1>1, <1>2, <2>1 DEF LoopHolds
  <2>6. OwnersHold'
    BY <1>1, <1>2, <2>1, <2>3 DEF OwnersHold, TypeOK
  <2>7. PlaceHolds' /\ SleepHolds' /\ CreateOnTop'
    BY <1>1, <2>1 DEF PlaceHolds, SleepHolds, CreateOnTop, ShutdownPlaces
  <2>8. CountHolds'
    BY <1>1, <2>1, SameCount
  <2>9. HistoryHolds'
    BY <1>1, <1>2, <2>1 DEF HistoryHolds
  <2> QED BY <2>3, <2>4, <2>5, <2>6, <2>7, <2>8, <2>9
<1>4. CASE closed /\ Own(x, "rejected") /\ UNCHANGED <<queue, asleep>>
  <2>1. /\ owner' \in [Tasks -> Owners] /\ owner'[x] = "rejected"
        /\ \A t \in Tasks \ {x} : owner'[t] = owner[t]
    BY <1>4, OwnOne DEF Owners
  <2>2. Only(x)
    BY <1>1, <2>1 DEF Only
  <2>3. FramesHold' /\ \A t \in Tasks : OnStack(t)' <=> OnStack(t)
    BY <1>1, <1>2, <2>2, KeepStack
  <2>4. TypeOK'
    BY <1>1, <1>4, <2>1 DEF TypeOK
  <2>5. LoopHolds'
    BY <1>1, <1>2, <1>4, <2>1 DEF LoopHolds
  <2>6. OwnersHold'
    BY <1>1, <1>2, <1>4, <2>1, <2>3 DEF OwnersHold, TypeOK
  <2>7. PlaceHolds' /\ SleepHolds' /\ CreateOnTop'
    BY <1>1, <1>4 DEF PlaceHolds, SleepHolds, CreateOnTop
  <2>8. CountHolds'
    BY <1>1, <2>1, SameCount
  <2>9. HistoryHolds'
    BY <1>1, <1>2, <2>1 DEF HistoryHolds
  <2> QED BY <2>3, <2>4, <2>5, <2>6, <2>7, <2>8, <2>9
<1> QED BY <1>3, <1>4 DEF Dispatch

(* The counted tasks are live, so numCanceled_ meets live_.count() from below,
   and only when every live task is counted. *)
LEMMA CountedAreLive ==
    ASSUME IndInv
    PROVE  /\ IsFiniteSet(live) /\ IsFiniteSet(Counted) /\ Counted \subseteq live
           /\ Cardinality(Counted) \in Nat /\ Cardinality(live) \in Nat
           /\ numCanceled = Cardinality(Counted)
           /\ numCanceled <= Cardinality(live)
           /\ numCanceled = Cardinality(live) => live = Counted
<1>1. live \subseteq Tasks /\ IsFiniteSet(Tasks)
  BY OffThreadPromiseAssumption DEF IndInv, TypeOK
<1>2. Counted \subseteq live
  BY DEF IndInv, OwnersHold, Counted
<1>3. IsFiniteSet(live)
  BY <1>1, FS_Subset
<1>4. IsFiniteSet(Counted) /\ Cardinality(Counted) <= Cardinality(live)
      /\ (Cardinality(Counted) = Cardinality(live) => Counted = live)
  BY <1>2, <1>3, FS_Subset
<1>5. Cardinality(Counted) \in Nat /\ Cardinality(live) \in Nat
  BY <1>3, <1>4, FS_CardinalityType
<1> QED BY <1>2, <1>3, <1>4, <1>5 DEF IndInv, CountHolds

(* The worker counts the rejected task, and wakes shutdown() with the last. *)
LEMMA CountCanceledStep ==
    ASSUME IndInv, NEW x \in Tasks, CountCanceled(x)
    PROVE  IndInv'
<1> USE DEF IndInv
<1>1. /\ owner[x] = "rejected" /\ Own(x, "counted") /\ numCanceled' = numCanceled + 1
      /\ UNCHANGED <<extraThreads, initialized, live, queue, closed, jobs, draining,
                     interrupted, at, stack, popped, swapped, deletions, resolutions>>
  BY DEF CountCanceled, jobVars
<1>2. /\ ~OnStack(x) /\ x \in live /\ ~Contains(queue, x) /\ ~Contains(swapped, x)
      /\ popped # x /\ closed
  BY <1>1, OnStackOwner DEF OwnersHold, LoopHolds
<1>3. /\ asleep' \in BOOLEAN
      /\ asleep' => asleep /\ ~(at = "shutWait" /\ numCanceled' = Cardinality(live))
  BY <1>1 DEF CountCanceled
<1>4. /\ owner' \in [Tasks -> Owners] /\ owner'[x] = "counted"
      /\ \A t \in Tasks \ {x} : owner'[t] = owner[t]
  BY <1>1, OwnOne DEF Owners
<1>5. Only(x)
  BY <1>1, <1>4 DEF Only
<1>6. FramesHold' /\ \A t \in Tasks : OnStack(t)' <=> OnStack(t)
  BY <1>1, <1>2, <1>5, KeepStack
<1>7. TypeOK'
  BY <1>1, <1>3, <1>4 DEF TypeOK
<1>8. LoopHolds'
  BY <1>1, <1>2, <1>4 DEF LoopHolds
<1>9. OwnersHold'
  BY <1>1, <1>2, <1>4, <1>6 DEF OwnersHold, TypeOK
<1>10. PlaceHolds' /\ CreateOnTop'
  BY <1>1 DEF PlaceHolds, CreateOnTop
<1>11. SleepHolds'
  BY <1>1, <1>3 DEF SleepHolds
<1>12. CountHolds'
  <2>1. Counted' = Counted \cup {x} /\ x \notin Counted
    BY <1>1, <1>4 DEF Counted
  <2>2. IsFiniteSet(Counted)
    BY CountedAreLive
  <2>3. Cardinality(Counted \cup {x}) = Cardinality(Counted) + 1
    BY <2>1, <2>2, FS_AddElement
  <2> QED BY <1>1, <2>1, <2>3 DEF CountHolds
<1>13. HistoryHolds'
  BY <1>1, <1>4 DEF HistoryHolds
<1> QED BY <1>6, <1>7, <1>8, <1>9, <1>10, <1>11, <1>12, <1>13

(* shutdown() deletes what is left, all of it rejected and counted. *)
LEMMA ShutdownDeleteStep ==
    ASSUME IndInv, ShutdownDelete
    PROVE  /\ IndInv'
           /\ \A t \in live : owner[t] = "counted"
           /\ \A t \in Tasks : owner'[t] \in {"none", "deleted"}
<1> USE DEF IndInv
<1>1. /\ AtShutdownLoop /\ Cardinality(live) = numCanceled /\ Delete(live) /\ live' = {}
      /\ numCanceled' = 0 /\ initialized' = FALSE /\ at' = "done"
      /\ UNCHANGED <<extraThreads, queue, closed, jobs, draining, interrupted, stack,
                     popped, swapped, asleep, resolutions>>
  BY DEF ShutdownDelete, jobVars
<1>2. /\ at \in {"shutRun", "shutWait"} /\ ~asleep /\ swapped = <<>> /\ queue = <<>>
      /\ stack = <<>> /\ popped = NoTask /\ closed
  BY <1>1 DEF AtShutdownLoop, PlaceHolds, SleepHolds, ShutdownPlaces
<1>3. live = Counted
  BY <1>1, CountedAreLive
<1>4. /\ owner' \in [Tasks -> Owners] /\ deletions' \in [Tasks -> Nat]
      /\ \A t \in live : owner'[t] = "deleted" /\ deletions'[t] = deletions[t] + 1
      /\ \A t \in Tasks \ live : owner'[t] = owner[t] /\ deletions'[t] = deletions[t]
  BY <1>1 DEF Delete, TypeOK, Owners
<1>5. \A t \in Tasks : owner[t] \in {"none", "deleted", "counted"}
  <2>1. \A t \in Tasks : ~OnStack(t) /\ ~Contains(queue, t) /\ ~Contains(swapped, t)
                         /\ popped # t
    BY <1>2, ListEmpty, OffThreadPromiseAssumption DEF OnStack
  <2>2. \A t \in Tasks : owner[t] \in {"worker", "rejected"} => t \in live
    BY DEF OwnersHold
  <2> QED BY <1>3, <2>1, <2>2 DEF OwnersHold, Counted, TypeOK, Owners
<1>6. \A t \in Tasks : owner'[t] \in {"none", "deleted"}
  BY <1>3, <1>4, <1>5 DEF Counted
<1>7. TypeOK'
  BY <1>1, <1>4 DEF TypeOK, Places
<1>8. LoopHolds'
  BY <1>1, <1>2, ListEmpty, OffThreadPromiseAssumption DEF LoopHolds
<1>9. FramesHold' /\ CreateOnTop'
  BY <1>1, <1>2 DEF FramesHold, CreateOnTop
<1>10. OwnersHold'
  BY <1>1, <1>6 DEF OwnersHold
<1>11. PlaceHolds' /\ SleepHolds'
  BY <1>1, <1>2 DEF PlaceHolds, SleepHolds, ShutdownPlaces
<1>12. CountHolds'
  <2>1. Counted' = {}
    BY <1>6 DEF Counted
  <2> QED BY <1>1, <2>1, FS_EmptySet DEF CountHolds
<1>13. HistoryHolds'
  <2>1. \A t \in live : owner[t] = "counted"
    BY <1>3 DEF Counted
  <2> QED BY <1>1, <1>4, <2>1 DEF HistoryHolds
<1>14. \A t \in live : owner[t] = "counted"
  BY <1>3 DEF Counted
<1> QED BY <1>6, <1>7, <1>8, <1>9, <1>10, <1>11, <1>12, <1>13, <1>14

(* Every step preserves the invariant. *)
LEMMA StepIndInv == IndInv /\ [Next]_vars => IndInv'
<1> SUFFICES ASSUME IndInv, [Next]_vars PROVE IndInv'
  OBVIOUS
<1>1. ASSUME NEW t \in Tasks, InitTask(t) \/ Dispatch(t) \/ CountCanceled(t) PROVE IndInv'
  BY <1>1, InitTaskStep, DispatchStep, CountCanceledStep
<1>2. CASE Main
  BY <1>2, QuietStep, HandOffStep, DispatchHereStep, DropUnstartedStep, ExecuteHereStep,
     DrainPopStep, RunStep, RunEndStep, RunJobStep, RunJobEndStep, ShutdownCloseStep,
     ShutdownRunStep, ShutdownDeleteStep DEF Main
<1>3. CASE SpuriousWakeup \/ Terminated \/ UNCHANGED vars
  BY <1>3, QuietStep DEF Terminated
<1> QED BY <1>1, <1>2, <1>3 DEF Next

(* The invariant holds throughout. *)
THEOREM IndInvHolds == Spec => []IndInv
BY InitIndInv, StepIndInv, PTL DEF Spec

-----------------------------------------------------------------------------
\* The properties.

(* Every variable keeps its type: in particular the queue and the stack only
   ever hold tasks. *)
THEOREM TypeCorrect == Spec => []TypeOK
<1>1. IndInv => TypeOK
  BY DEF IndInv
<1> QED BY <1>1, IndInvHolds, PTL

(* No task is deleted or resolved twice, whatever the event loop holds is live
   and in its queue once, and after shutdown() every task is gone. *)
THEOREM NoDoubleDelete == Spec => []DeletedOnce
<1>1. ASSUME IndInv PROVE DeletedOnce
  <2> USE <1>1 DEF IndInv
  <2>1. \A t \in Tasks : deletions[t] <= 1 /\ resolutions[t] <= 1
    BY DEF HistoryHolds
  <2>2. queue \in Seq(Tasks) /\ swapped \in Seq(Tasks) /\ (queue = <<>> \/ swapped = <<>>)
    BY DEF TypeOK, PlaceHolds, ShutdownPlaces
  <2>3. queue \o swapped \in {queue, swapped}
    BY <2>2, ConcatEmptySeq
  <2>4. IsInjective(queue \o swapped)
    BY <2>3 DEF LoopHolds
  <2>5. ASSUME NEW s \in Seq(Tasks), \A t \in Tasks : Contains(s, t) => t \in live
        PROVE  ToSet(s) \subseteq live
    BY <2>5 DEF ToSet, Contains
  <2>6. ToSet(queue \o swapped) \subseteq live
    BY <2>2, <2>3, <2>5 DEF LoopHolds
  <2>7. numCanceled <= Cardinality(live)
    BY CountedAreLive
  <2>8. at = "done" => /\ queue = <<>>
                       /\ \A t \in Tasks : owner[t] \in {"none", "deleted"}
    <3> SUFFICES ASSUME at = "done" PROVE queue = <<>>
                       /\ \A t \in Tasks : owner[t] \in {"none", "deleted"}
      OBVIOUS
    <3>1. /\ queue = <<>> /\ swapped = <<>> /\ stack = <<>> /\ popped = NoTask /\ live = {}
      BY DEF PlaceHolds, ShutdownPlaces
    <3>2. \A t \in Tasks : ~OnStack(t) /\ ~Contains(queue, t) /\ ~Contains(swapped, t)
                           /\ popped # t
      BY <3>1, ListEmpty, OffThreadPromiseAssumption DEF OnStack
    <3> QED BY <3>1, <3>2 DEF OwnersHold, TypeOK, Owners
  <2> QED BY <2>1, <2>4, <2>6, <2>7, <2>8 DEF DeletedOnce
<1> QED BY <1>1, IndInvHolds, PTL

(* A task is deleted only when no worker has it or is about to count it. *)
THEOREM OnlyFinishedDeleted == Spec => DeletesOnlyFinished
<1> DEFINE Finished == \A t \in Tasks : owner'[t] = "deleted" /\ owner[t] # "deleted"
                          => owner[t] \in {"none", "main", "loop", "counted"}
<1>1. ASSUME IndInv, [Next]_vars PROVE [Finished]_vars
  <2> SUFFICES ASSUME NEW u \in Tasks, owner'[u] = "deleted", owner[u] # "deleted"
               PROVE  owner[u] \in {"none", "main", "loop", "counted"}
    OBVIOUS
  <2> USE <1>1
  <2>0. TypeOK
    BY DEF IndInv
  <2>1. ASSUME NEW t \in Tasks, InitTask(t) PROVE owner[u] = "none"
    BY <2>0, <2>1, OwnOne, DeleteOne DEF InitTask, Owners
  <2>2. ASSUME NEW t \in Tasks, Dispatch(t) PROVE FALSE
    BY <2>0, <2>2, OwnOne DEF Dispatch, Enqueue, Owners
  <2>3. ASSUME NEW t \in Tasks, CountCanceled(t) PROVE FALSE
    BY <2>0, <2>3, OwnOne DEF CountCanceled, Owners
  <2>4. CASE HandOff \/ DispatchHere
    <3>1. TopTask \in Tasks
      BY <2>4, TopOfStack DEF HandOff, DispatchHere
    <3> QED BY <2>0, <2>4, <3>1, OwnOne DEF HandOff, DispatchHere, Enqueue, Owners
  <2>5. CASE DropUnstarted \/ RunEnd
    <3>1. TopTask \in Tasks /\ owner[TopTask] \in {"main", "loop"}
      BY <2>5, TopOfStack DEF DropUnstarted, RunEnd
    <3>2. u = TopTask
      BY <2>0, <2>5, <3>1, DeleteOne DEF DropUnstarted, RunEnd
    <3> QED BY <3>1, <3>2
  <2>6. CASE ShutdownRun
    <3>1. Head(swapped) \in Tasks /\ owner[Head(swapped)] = "loop"
      BY <2>6, ListTail DEF ShutdownRun, IndInv, TypeOK, LoopHolds
    <3>2. u = Head(swapped)
      BY <2>0, <2>6, <3>1, DeleteOne DEF ShutdownRun
    <3> QED BY <3>1, <3>2
  <2>7. CASE ShutdownDelete
    <3>1. u \in live
      BY <2>0, <2>7 DEF ShutdownDelete, Delete, TypeOK
    <3> QED BY <2>7, <3>1, ShutdownDeleteStep
  <2>8. CASE UNCHANGED owner
    BY <2>8
  <2>9. CASE Main
    BY <2>9, <2>4, <2>5, <2>6, <2>7, <2>8 DEF Main, InitInternalDispatchQueue, ExecuteHere,
       EnqueuePromiseJob, Interrupt, RunJobs, DrainReturn, DrainWait, DrainPop, Run, RunJob,
       RunJobEnd, JobsEnd, ShutdownClose, ShutdownWait
  <2> QED BY <2>1, <2>2, <2>3, <2>8, <2>9 DEF Next, SpuriousWakeup, Terminated, vars
<1> QED BY <1>1, IndInvHolds, PTL DEF Spec, DeletesOnlyFinished

(* If import getters cannot run jobs, a JS thread blocked in internalDrain()
   or shutdown() waits for something that has not happened and that a worker
   will bring about. *)
THEOREM BlockedDrainIsWoken ==
    ASSUME ~ImportGettersRunJobs
    PROVE  Spec => []DrainCanBeWoken
<1>1. ASSUME IndInv PROVE DrainCanBeWoken
  <2> USE <1>1 DEF IndInv
  <2>1. ASSUME at = "drainWait", queue = <<>>
        PROVE  \E t \in live : owner[t] = "worker"
    <3>1. live # {} /\ ~closed /\ swapped = <<>> /\ popped = NoTask
      BY <2>1 DEF PlaceHolds, ShutdownPlaces
    <3>2. PICK t \in live : t \in Tasks
      BY <3>1 DEF TypeOK
    <3>3. ~Contains(queue, t) /\ ~Contains(swapped, t) /\ popped # t
      BY <2>1, <3>1, <3>2, ListEmpty, OffThreadPromiseAssumption
    <3>4. ~OnStack(t)
      <4> SUFFICES ASSUME OnStack(t) PROVE FALSE
        OBVIOUS
      <4>1. PICK i \in 1..Len(stack) : stack[i].task = t
        BY DEF OnStack
      <4>2. stack[i] \in Frames /\ FrameHolds(stack[i])
        BY <4>1 DEF TypeOK, FramesHold
      <4>3. stack[i].kind = "create"
        BY <3>2, <4>1, <4>2, OffThreadPromiseAssumption DEF Frames, FrameHolds
      <4> QED BY <2>1, <4>3 DEF CreateOnTop
    <3> QED BY <3>1, <3>2, <3>3, <3>4 DEF OwnersHold, TypeOK, Owners
  <2>2. ASSUME at = "shutWait", NEW t \in live
        PROVE  owner[t] \in {"worker", "rejected", "counted"}
    <3>1. closed /\ queue = <<>> /\ swapped = <<>> /\ popped = NoTask /\ stack = <<>>
      BY <2>2 DEF PlaceHolds, ShutdownPlaces
    <3>2. t \in Tasks
      BY DEF TypeOK
    <3>3. ~Contains(queue, t) /\ ~Contains(swapped, t) /\ popped # t /\ ~OnStack(t)
      BY <3>1, <3>2, ListEmpty, OffThreadPromiseAssumption DEF OnStack
    <3> QED BY <3>2, <3>3 DEF OwnersHold, TypeOK, Owners
  <2> QED BY <2>1, <2>2 DEF DrainCanBeWoken, SleepHolds
<1> QED BY <1>1, IndInvHolds, PTL

=============================================================================
