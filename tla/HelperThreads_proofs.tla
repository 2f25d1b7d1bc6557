------------------------ MODULE HelperThreads_proofs ------------------------
(***************************************************************************)
(* Proofs about HelperThreads, for any number of helper threads, any       *)
(* backlog threshold and any workload: the limits of checkTaskThreadLimit()*)
(* do what the comments on it and on its callers promise; finish() leaves  *)
(* nothing behind; and, as long as tier 2 is not oversubscribed, no wake-up*)
(* is lost and no master waits for batches that nobody compiles.           *)
(*                                                                         *)
(* Two invariants are inductive: IndInv, on the tasks the threads run, and,*)
(* given it, LiveInv, on what the worklists and the threads hold and on    *)
(* what finish() has seen to be done.                                      *)
(***************************************************************************)
EXTENDS HelperThreads, ListTheorems, FiniteSetTheorems, TLAPS

\* What a generator's canceller relies on, without counting threads.
GeneratorIsAlone ==
    \A t, u \in Threads : task[t] = "generator" /\ task[u] = "generator" => t = u

CancelledOneRuns ==
    main \in {"generator", "generatorFinish"} => genFinished \/ Running("generator")

IndInv ==
    /\ task \in [Threads -> Kinds \cup {None}]
    /\ OneThreadForWork
    /\ GeneratorIsAlone
    /\ CancelledOneRuns

-----------------------------------------------------------------------------
(* taskSpecs lists all nine kinds of task. *)
LEMMA AllKinds ==
    Kinds = {"gc", "ion", "wasm1", "promise", "parse", "compress", "ionFree",
             "wasm2", "generator"}
<1> DEFINE p == Priority
<1>1. DOMAIN p = 1..9
  BY DEF Priority
<1>2. /\ p[1] = "gc" /\ p[2] = "ion" /\ p[3] = "wasm1" /\ p[4] = "promise"
      /\ p[5] = "parse" /\ p[6] = "compress" /\ p[7] = "ionFree"
      /\ p[8] = "wasm2" /\ p[9] = "generator"
  BY DEF Priority
<1>3. Kinds = {p[i] : i \in 1..9}
  BY <1>1, Zenon DEF Kinds, ToSet
<1> HIDE DEF p
<1> QED BY <1>2, <1>3

(* A thread that is not running a task is running no master. *)
LEMMA NoneIsNoMaster == None \notin Masters /\ None # "generator"
BY AllKinds, HelperThreadsAssumption DEF Masters

(* checkTaskThreadLimit() lets a master start only if, besides the thread that
   is to run it, another thread is idle. *)
LEMMA MasterLeavesAThread ==
    ASSUME NEW cur \in [Threads -> Kinds \cup {None}], NEW t \in Threads, cur[t] = None,
           NEW k \in Masters, CanStart(cur, k)
    PROVE  \E u \in Threads \ {t} : cur[u] = None
<1> DEFINE idle == {u \in Threads : cur[u] = None}
<1>1. Cardinality(idle) # 1
  <2>1. CASE k \in {"promise", "parse"}
    BY <2>1 DEF CanStart, CheckTaskThreadLimit, Compiles, Masters
  <2>2. CASE k = "generator"
    BY <2>2 DEF CanStart, CheckTaskThreadLimit, Compiles, Masters
  <2> QED BY <2>1, <2>2 DEF Masters
<1>2. idle # {t}
  BY <1>1, FS_Singleton
<1> QED BY <1>2

(* Of the tier-2 generators at most one is started. *)
LEMMA GeneratorStartsAlone ==
    ASSUME NEW cur \in [Threads -> Kinds \cup {None}], CanStart(cur, "generator")
    PROVE  \A u \in Threads : cur[u] # "generator"
<1> DEFINE S == {u \in Threads : cur[u] \in {"generator"}}
<1>1. Cardinality(S) < 1
  BY DEF CanStart, CheckTaskThreadLimit, Compiles
<1>2. IsFiniteSet(S)
  BY FS_Subset, HelperThreadsAssumption
<1>3. S = {}
  BY <1>1, <1>2, FS_CardinalityType, FS_EmptySet
<1> QED BY <1>3

-----------------------------------------------------------------------------
(* At the start all threads are idle. *)
LEMMA InitIndInv == Init => IndInv
<1> SUFFICES ASSUME Init PROVE IndInv
  OBVIOUS
<1>1. PICK t \in Threads : TRUE
  BY HelperThreadsAssumption, FS_EmptySet DEF ThreadCount
<1> QED BY <1>1, NoneIsNoMaster
        DEF Init, IndInv, OneThreadForWork, GeneratorIsAlone, CancelledOneRuns

(* A thread ends its task and takes the next one, sleeps or terminates: the
   only step that changes what a thread is running. *)
LEMMA LoopStep ==
    ASSUME IndInv, NEW t \in Threads, Loop(t)
    PROVE  IndInv'
<1> DEFINE idle == [task EXCEPT ![t] = None]
<1>1. /\ idle \in [Threads -> Kinds \cup {None}]
      /\ idle[t] = None
      /\ \A u \in Threads \ {t} : idle[u] = task[u]
  BY DEF IndInv
<1>2. /\ genFinished' = (genFinished \/ task[t] = "generator")
      /\ main' = main
  BY DEF Loop
<1>3. CancelledOneRuns'
  <2> SUFFICES ASSUME main \in {"generator", "generatorFinish"}, ~genFinished'
               PROVE  Running("generator")'
    BY <1>2 DEF CancelledOneRuns
  <2>1. PICK u \in Threads : task[u] = "generator"
    BY <1>2 DEF IndInv, CancelledOneRuns, Running
  <2>2. u # t
    BY <1>2, <2>1
  <2>3. task'[u] = task[u]
    BY <1>1, <2>2 DEF Loop, IndInv
  <2> QED BY <2>1, <2>3 DEF Running
<1>4. CASE task' = idle
  <2>1. OneThreadForWork'
    BY <1>1, <1>4, NoneIsNoMaster DEF OneThreadForWork
  <2>2. GeneratorIsAlone'
    BY <1>1, <1>4, NoneIsNoMaster DEF IndInv, GeneratorIsAlone
  <2> QED BY <1>1, <1>3, <1>4, <2>1, <2>2 DEF IndInv
<1>5. ASSUME NEW k \in Kinds, HighestPriority(idle, k),
             task' = [idle EXCEPT ![t] = IF k = "ionFree" THEN None ELSE k]
      PROVE  IndInv'
  <2>1. CanStart(idle, k)
    BY <1>5 DEF HighestPriority
  <2>2. /\ task' \in [Threads -> Kinds \cup {None}]
        /\ task'[t] = IF k = "ionFree" THEN None ELSE k
        /\ \A u \in Threads \ {t} : task'[u] = idle[u]
    BY <1>1, <1>5
  <2> HIDE DEF idle
  <2>3. OneThreadForWork'
    <3>1. CASE k \in Masters
      <4>1. PICK u \in Threads \ {t} : idle[u] = None
        BY <1>1, <2>1, <3>1, MasterLeavesAThread
      <4> QED BY <2>2, <4>1, NoneIsNoMaster DEF OneThreadForWork
    <3>2. CASE k \notin Masters
      BY <2>2, <3>2, NoneIsNoMaster DEF OneThreadForWork
    <3> QED BY <3>1, <3>2
  <2>4. GeneratorIsAlone'
    <3>1. CASE k = "generator"
      BY <1>1, <2>1, <2>2, <3>1, GeneratorStartsAlone DEF GeneratorIsAlone
    <3>2. CASE k # "generator"
      BY <1>1, <2>2, <3>2, NoneIsNoMaster DEF IndInv, GeneratorIsAlone
    <3> QED BY <3>1, <3>2
  <2> QED BY <1>3, <2>2, <2>3, <2>4 DEF IndInv
<1> QED
  <2> HIDE DEF idle
  <2>1. \/ task' = idle
        \/ \E k \in Kinds : /\ HighestPriority(idle, k)
                            /\ task' = [idle EXCEPT ![t] = IF k = "ionFree" THEN None ELSE k]
    BY DEF Loop, idle
  <2> QED BY <1>4, <1>5, <2>1

(* The main thread cancels the generators and waits only if one is running. *)
LEMMA CancelGeneratorsStep ==
    ASSUME NEW place, CancelGenerators(place), UNCHANGED task
    PROVE  CancelledOneRuns'
<1>1. CASE Running("generator")
  BY <1>1 DEF CancelledOneRuns, Running
<1>2. CASE ~Running("generator")
  BY <1>2 DEF CancelGenerators, AwaitAll, Await, CancelledOneRuns
<1> QED BY <1>1, <1>2

(* Steps that change neither the tasks of the threads nor what the main thread
   waits for. *)
LEMMA OtherStep ==
    ASSUME IndInv, UNCHANGED <<task, main, genFinished>>
    PROVE  IndInv'
BY DEF IndInv, OneThreadForWork, GeneratorIsAlone, CancelledOneRuns, Running

(* Steps of the main thread. *)
LEMMA MainStep ==
    ASSUME IndInv, UNCHANGED task, CancelledOneRuns'
    PROVE  IndInv'
BY DEF IndInv, OneThreadForWork, GeneratorIsAlone

(* Only Loop() changes what the threads run. *)
LEMMA NextIndInv == IndInv /\ [Next]_vars => IndInv'
<1> SUFFICES ASSUME IndInv, [Next]_vars PROVE IndInv'
  OBVIOUS
<1>1. ASSUME NEW t \in Threads, HelperStep(t) PROVE IndInv'
  <2>1. CASE Loop(t)
    BY <2>1, LoopStep
  <2>2. CASE SimpleTaskEnd(t)
    BY <2>2, OtherStep DEF SimpleTaskEnd, mainVars
  <2>3. ASSUME NEW ok \in BOOLEAN, CompileTaskEnd(t, ok) PROVE IndInv'
    BY <2>3, OtherStep DEF CompileTaskEnd, mainVars
  <2>4. CASE LaunchBatch(t)
    BY <2>4, OtherStep DEF LaunchBatch, mainVars
  <2>5. CASE GiveUp(t)
    BY <2>5, OtherStep DEF GiveUp, mainVars
  <2>6. ASSUME NEW tier2 \in BOOLEAN, MasterEnd(t, tier2) PROVE IndInv'
    BY <2>6, OtherStep DEF MasterEnd, mainVars
  <2> QED BY <1>1, <2>1, <2>2, <2>3, <2>4, <2>5, <2>6 DEF HelperStep
<1>2. ASSUME NEW t \in Threads, DestroyThread(t) PROVE IndInv'
  BY <1>2, OtherStep DEF DestroyThread, mainVars
<1>3. ASSUME NEW k \in Submitted, Submit(k) PROVE IndInv'
  BY <1>3, OtherStep DEF Submit, mainVars
<1>4. CASE StartGC \/ EndGC \/ StartHandlingCompressionTasks
  BY <1>4, OtherStep DEF StartGC, EndGC, StartHandlingCompressionTasks, mainVars
<1>5. CASE WaitForAllThreads
  BY <1>5, CancelGeneratorsStep, MainStep DEF WaitForAllThreads
<1>6. CASE RunPendingSourceCompressions
  BY <1>6, MainStep DEF RunPendingSourceCompressions, CancelledOneRuns
<1>7. CASE CancelOffThreadIonCompile \/ CancelOffThreadParses \/ CancelOffThreadCompressions
  BY <1>7, MainStep
     DEF CancelOffThreadIonCompile, CancelOffThreadParses, CancelOffThreadCompressions, Await,
         CancelledOneRuns
<1>8. CASE Finish
  BY <1>8, CancelGeneratorsStep, MainStep DEF Finish
<1>9. CASE MainWakes
  <2>1. UNCHANGED task
    BY <1>9 DEF MainWakes
  <2>2. CASE main = "compressStart" /\ work["compress"] = <<>> /\ CancelGenerators("generator")
    BY <2>1, <2>2, CancelGeneratorsStep, MainStep
  <2>3. CASE ~(main = "compressStart" /\ work["compress"] = <<>> /\ CancelGenerators("generator"))
    <3>1. genFinished' = genFinished /\ (main' = main \/ main' \in {"run", "all", "join"})
      BY <1>9, <2>3 DEF MainWakes, AwaitAll, Await
    <3>2. CancelledOneRuns'
      BY <2>1, <3>1 DEF IndInv, CancelledOneRuns, Running
    <3> QED BY <2>1, <3>2, MainStep
  <2> QED BY <2>2, <2>3
<1>10. CASE FinishEnd
  BY <1>10, MainStep DEF FinishEnd, CancelledOneRuns
<1>11. CASE SpuriousWakeup
  BY <1>11, OtherStep DEF SpuriousWakeup
<1>12. CASE UNCHANGED vars
  BY <1>12, OtherStep DEF vars, mainVars
<1> QED BY <1>1, <1>2, <1>3, <1>4, <1>5, <1>6, <1>7, <1>8, <1>9, <1>10, <1>11, <1>12 DEF Next

(* The limits hold in every state. *)
THEOREM Invariance == Spec => []IndInv
<1>1. Init => IndInv
  BY InitIndInv
<1>2. IndInv /\ [Next]_vars => IndInv'
  BY NextIndInv
<1> QED BY <1>1, <1>2, PTL DEF Spec

-----------------------------------------------------------------------------
(* Whatever the size of the pool, the threads are never all occupied by masters
   (promise tasks, parse tasks and tier-2 generators), so one is left for the
   batches these wait for. *)
THEOREM OneThreadForWorkAlways == Spec => []OneThreadForWork
<1>1. IndInv => OneThreadForWork
  BY DEF IndInv
<1> QED BY <1>1, Invariance, PTL

(* CancelOffThreadWasmTier2GeneratorLocked() is right to stop at the first
   running generator, and while the main thread waits for its end a generator is
   running or has ended since. *)
THEOREM OneGeneratorAlways == Spec => []OneGenerator
<1>1. IndInv => OneGenerator
  <2> SUFFICES ASSUME IndInv
               PROVE  Cardinality({t \in Threads : task[t] = "generator"}) <= 1
    BY DEF IndInv, CancelledOneRuns, OneGenerator
  <2> DEFINE S == {t \in Threads : task[t] = "generator"}
  <2>1. CASE S = {}
    BY <2>1, FS_EmptySet
  <2>2. ASSUME NEW t \in S PROVE Cardinality(S) = 1
    <3>1. S = {t}
      BY DEF IndInv, GeneratorIsAlone
    <3> QED BY <3>1, FS_Singleton
  <2> QED BY <2>1, <2>2
<1> QED BY <1>1, Invariance, PTL

-----------------------------------------------------------------------------
\* What is on the lists and in the threads, and that none of it is left behind.

\* Masters that may wait for batches.
Served == {t \in Threads : at[t] = "run" /\ task[t] \in Masters}

\* What a list may hold: a batch is given by the master that waits for it.
Entry(k) == IF k \in Compiles THEN Served ELSE {None}

ListsHold == \A k \in Kinds : work[k] \in Seq(Entry(k))

\* A thread that compiles a batch does so for a master that waits; one that
\* waits for a task itself has none.
ThreadsHold ==
    /\ \A t \in Threads : owner[t] # None =>
         owner[t] \in Served /\ at[t] = "run" /\ task[t] \in Compiles
    /\ \A t \in Threads : at[t] = "run" /\ task[t] \in Compiles => owner[t] # None
    /\ \A t \in Threads : at[t] \in {"asleep", "awake", "dead"} => task[t] = None

Finishing == main \in {"generatorFinish", "join", "finished"}

\* What finish() has seen to be done stays done.
FinishHolds ==
    /\ Finishing =>
         /\ ~collecting /\ waitingOnGC = 0 /\ uncompressed = 0
         /\ \A k \in (Submitted \ {"ionFree"}) \cup {"generator"} : work[k] = <<>>
         /\ \A t \in Threads : at[t] = "run" => task[t] \notin Submitted
    /\ Finishing /\ (main = "generatorFinish" => genFinished) => ~Running("generator")
    /\ main = "finished" => /\ \A t \in Threads : at[t] = "dead"
                            /\ work["ionFree"] = <<>>

\* TypeOK in two parts: the Boolean variables, and the others.
Flags ==
    /\ collecting \in BOOLEAN /\ failed \in [Threads -> BOOLEAN]
    /\ mainAsleep \in BOOLEAN /\ genFinished \in BOOLEAN

Values ==
    /\ work \in [Kinds -> Seq(Threads \cup {None})]
    /\ waitingOnGC \in Nat /\ uncompressed \in Nat
    /\ at \in [Threads -> Places]
    /\ task \in [Threads -> Kinds \cup {None}]
    /\ owner \in [Threads -> Threads \cup {None}]
    /\ batches \in [Threads -> Nat]
    /\ cancelled \subseteq Threads /\ terminate \subseteq Threads
    /\ main \in Waits \cup {"run", "finished"}
    /\ left \in [Submitted -> Nat] /\ created \in Nat

LiveInv == Values /\ ListsHold /\ ThreadsHold /\ FinishHolds


(* eraseIf() keeps entries of the list only, and none of the master's. *)
LEMMA EraseIfSelects ==
    ASSUME NEW S, NEW s \in Seq(S), NEW t
    PROVE  /\ EraseIf(s, t) \in Seq(S)
           /\ \A j \in 1..Len(EraseIf(s, t)) :
                \E i \in 1..Len(s) : s[i] # t /\ EraseIf(s, t)[j] = s[i]
<1> DEFINE keep == {i \in 1..Len(s) : s[i] # t}
           upto(i) == {h \in keep : h <= i}
           rank(i) == Cardinality(upto(i))
           n == Cardinality(keep)
           index(j) == CHOOSE i \in keep : rank(i) = j
<1>1. Len(s) \in Nat /\ \A i \in 1..Len(s) : s[i] \in S
  OBVIOUS
<1>2. IsFiniteSet(keep)
  <2>1. 1 \in Int /\ Len(s) \in Int
    BY <1>1
  <2>2. IsFiniteSet(1..Len(s))
    BY <2>1, FS_Interval
  <2>3. keep \subseteq 1..Len(s)
    OBVIOUS
  <2> QED BY <2>2, <2>3, FS_Subset
<1>3. n \in Nat /\ \A i : IsFiniteSet(upto(i)) /\ rank(i) \in Nat
  BY <1>2, FS_Subset, FS_CardinalityType
<1> HIDE DEF keep, upto, rank, n
<1>4. ASSUME NEW j \in 1..n
      PROVE  \E i \in keep : rank(i) = j
  <2> DEFINE T == {i \in 1..Len(s) : rank(i) >= j}
  <2>1. T # {}
    <3>1. upto(Len(s)) = keep
      BY <1>1 DEF upto, keep
    <3>2. rank(Len(s)) = n
      BY <3>1 DEF rank, n
    <3>3. Len(s) \in 1..Len(s)
      <4>1. CASE Len(s) = 0
        <5>1. keep = {}
          BY <4>1 DEF keep
        <5>2. n = 0
          BY <5>1, FS_EmptySet DEF n
        <5> QED BY <5>2
      <4> QED BY <1>1, <4>1
    <3> QED BY <1>3, <3>2, <3>3
  <2>2. T \in SUBSET Nat
    BY <1>1
  <2>3. PICK i \in T : \A h \in T : i <= h
    BY <2>1, <2>2, LeastElement
  <2>4. i \in Nat /\ i \in 1..Len(s) /\ rank(i) >= j
    BY <1>1
  <2>5. rank(i - 1) < j
    <3>1. CASE i = 1
      <4>1. upto(i - 1) = {}
        BY <1>1, <3>1 DEF upto, keep
      <4>2. rank(i - 1) = 0
        BY <4>1, FS_EmptySet DEF rank
      <4> QED BY <4>2
    <3>2. CASE i # 1
      <4>1. i - 1 \in 1..Len(s) /\ ~(i <= i - 1)
        BY <1>1, <2>4, <3>2
      <4>2. ~(rank(i - 1) >= j)
        BY <2>3, <4>1
      <4> QED BY <1>3, <4>2
    <3> QED BY <3>1, <3>2
  <2>6. i \in keep
    <3> SUFFICES ASSUME i \notin keep PROVE FALSE
      OBVIOUS
    <3>1. upto(i) = upto(i - 1)
      BY <1>1, <2>4 DEF upto, keep
    <3>2. rank(i) = rank(i - 1)
      BY <3>1 DEF rank
    <3> QED BY <1>3, <2>4, <2>5, <3>2
  <2>7. rank(i) = rank(i - 1) + 1
    <3>1. upto(i) = upto(i - 1) \cup {i} /\ i \notin upto(i - 1)
      BY <1>1, <2>4, <2>6 DEF upto, keep
    <3> QED BY <1>3, <3>1, FS_AddElement DEF rank
  <2>8. rank(i) = j
    BY <1>3, <2>4, <2>5, <2>7
  <2> QED BY <2>6, <2>8
<1>5. \A j \in 1..n : index(j) \in keep
  BY <1>4
<1>6. EraseIf(s, t) = [j \in 1..n |-> s[index(j)]]
  BY DEF EraseIf, index, n, rank, upto, keep
<1> HIDE DEF index
<1>7. \A j \in 1..n : index(j) \in 1..Len(s) /\ s[index(j)] # t
  BY <1>5 DEF keep
<1>8. /\ [j \in 1..n |-> s[index(j)]] \in Seq(S)
      /\ Len([j \in 1..n |-> s[index(j)]]) = n
  BY <1>1, <1>3, <1>7
<1> QED BY <1>6, <1>7, <1>8

(* The kinds of task by role. *)
LEMMA Roles ==
    /\ Compiles \subseteq Kinds /\ Masters \subseteq Kinds
    /\ Submitted = {"gc", "ion", "promise", "parse", "compress", "ionFree"}
    /\ None \notin Kinds /\ None \notin Threads
BY AllKinds, HelperThreadsAssumption DEF Compiles, Masters, Submitted

(* What the worklist operations do to what a list may hold. *)
LEMMA ListOperations ==
    ASSUME NEW S, NEW s \in Seq(S)
    PROVE  /\ \A T : S \subseteq T => s \in Seq(T)
           /\ \A x \in S : Append(s, x) \in Seq(S)
           /\ s # <<>> => Head(s) \in S /\ Tail(s) \in Seq(S)
           /\ <<>> \in Seq(S)
           /\ \A n \in Nat, x \in S : s \o [i \in 1..n |-> x] \in Seq(S)
<1>1. \A T : S \subseteq T => s \in Seq(T)
  OBVIOUS
<1>2. \A x \in S : Append(s, x) \in Seq(S)
  OBVIOUS
<1>3. s # <<>> => Head(s) \in S /\ Tail(s) \in Seq(S)
  OBVIOUS
<1>4. <<>> \in Seq(S)
  OBVIOUS
<1>5. ASSUME NEW n \in Nat, NEW x \in S
      PROVE  s \o [i \in 1..n |-> x] \in Seq(S)
  <2>1. [i \in 1..n |-> x] \in Seq(S)
    OBVIOUS
  <2> QED BY <2>1
<1> QED BY <1>1, <1>2, <1>3, <1>4, <1>5

-----------------------------------------------------------------------------
\* Notifications, and the steps that change no thread otherwise.

Woken ==
    /\ at' \in [Threads -> Places]
    /\ \A t \in Threads : at'[t] # at[t] => at[t] = "asleep" /\ at'[t] = "awake"

(* A notification wakes sleepers, and changes nothing else. *)
LEMMA NotifyEffect ==
    ASSUME at \in [Threads -> Places],
           NotifyOneProducer \/ NotifyAllProducer \/ UNCHANGED at
    PROVE  Woken
<1>p. "awake" \in Places
  BY DEF Places
<1>1. CASE UNCHANGED at
  BY <1>1 DEF Woken
<1>2. CASE NotifyAllProducer
  BY <1>2, <1>p DEF NotifyAllProducer, Woken
<1>3. ASSUME NEW t \in Asleep, at' = [at EXCEPT ![t] = "awake"] PROVE Woken
  BY <1>3, <1>p DEF Asleep, Woken
<1> QED BY <1>1, <1>2, <1>3 DEF NotifyOneProducer

(* A worklist that is changed as it may be is still right. *)
LEMMA ListsKept ==
    ASSUME LiveInv, Served \subseteq Served',
           \A k \in Kinds : work'[k] \in Seq(Entry(k))
    PROVE  ListsHold'
<1> SUFFICES ASSUME NEW k \in Kinds PROVE work'[k] \in Seq(Entry(k)')
  BY DEF ListsHold
<1>1. Entry(k) \subseteq Entry(k)'
  BY DEF Entry
<1> QED BY <1>1, ListOperations

(* A change of one worklist. *)
LEMMA OneListChanged ==
    ASSUME LiveInv, NEW k \in Kinds, NEW s, s \in Seq(Entry(k)),
           work' = [work EXCEPT ![k] = s]
    PROVE  /\ work' \in [Kinds -> Seq(Threads \cup {None})]
           /\ \A j \in Kinds : work'[j] \in Seq(Entry(j))
           /\ work'[k] = s /\ \A j \in Kinds \ {k} : work'[j] = work[j]
<1>1. Entry(k) \subseteq Threads \cup {None}
  BY DEF Entry, Served
<1>2. s \in Seq(Threads \cup {None})
  BY <1>1, ListOperations
<1>3. work \in [Kinds -> Seq(Threads \cup {None})] /\ \A j \in Kinds : work[j] \in Seq(Entry(j))
  BY DEF LiveInv, Values, ListsHold
<1> QED BY <1>2, <1>3

(* Steps that only wake threads keep what is known of them. *)
LEMMA WokenKeeps ==
    ASSUME LiveInv, Woken, UNCHANGED <<task, owner>>,
           \A k \in Kinds : work'[k] \in Seq(Entry(k))
    PROVE  Served' = Served /\ ListsHold' /\ ThreadsHold'
<1>1. Served' = Served
  BY DEF Woken, Served
<1>2. ListsHold'
  BY <1>1, ListsKept
<1>3. ThreadsHold'
  BY <1>1 DEF Woken, LiveInv, ThreadsHold
<1> QED BY <1>1, <1>2, <1>3

(* While the main thread is not shutting the pool down there is nothing to show *)
(* of shut-down.                                                                *)
LEMMA NotFinishing == ~Finishing' => FinishHolds'
BY DEF FinishHolds, Finishing

(* Waiting for a condition. *)
LEMMA AwaitEffect ==
    ASSUME NEW place, NEW condition, NEW next, Await(place, condition, next)
    PROVE  /\ main' \in {place, next}
           /\ condition \/ main' = place
BY DEF Await

-----------------------------------------------------------------------------
\* The helper threads' steps.

(* A master launches a batch. *)
LEMMA LaunchBatchKept ==
    ASSUME LiveInv, NEW t \in Threads, LaunchBatch(t)
    PROVE  LiveInv'
<1>1. /\ t \in Served /\ batches[t] > 0
      /\ work' = [work EXCEPT ![Worklist(t)] = Append(work[Worklist(t)], t)]
      /\ batches' = [batches EXCEPT ![t] = batches[t] - 1]
      /\ UNCHANGED <<waitingOnGC, uncompressed, collecting, task, owner, cancelled, terminate,
                     main, genFinished, left, created>>
  BY DEF LaunchBatch, Served, mainVars, bounds
<1>2. Worklist(t) \in Kinds /\ Worklist(t) \in Compiles
  BY Roles DEF Worklist, Compiles
<1>3. Append(work[Worklist(t)], t) \in Seq(Entry(Worklist(t)))
  BY <1>1, <1>2, ListOperations DEF LiveInv, ListsHold, Entry
<1>4. /\ work' \in [Kinds -> Seq(Threads \cup {None})]
      /\ \A j \in Kinds : work'[j] \in Seq(Entry(j))
      /\ \A j \in Kinds \ Compiles : work'[j] = work[j]
  BY <1>1, <1>2, <1>3, OneListChanged
<1>5. Woken
  BY NotifyEffect DEF LaunchBatch, LiveInv, Values
<1>6. ListsHold' /\ ThreadsHold'
  BY <1>1, <1>4, <1>5, WokenKeeps
<1>7. batches' \in [Threads -> Nat]
  BY <1>1 DEF LiveInv, Values
<1>8. Values'
  BY <1>1, <1>4, <1>5, <1>7 DEF LiveInv, Values, Woken
<1>9. FinishHolds'
  <2>1. \A j \in Submitted \cup {"generator"} : work'[j] = work[j]
    BY <1>4, AllKinds, Roles DEF Compiles
  <2> QED BY <1>1, <1>5, <2>1, Roles DEF LiveInv, FinishHolds, Finishing, Running, Woken
<1> QED BY <1>6, <1>8, <1>9 DEF LiveInv

(* A master takes back its pending batches. *)
LEMMA GiveUpKept ==
    ASSUME LiveInv, NEW t \in Threads, GiveUp(t)
    PROVE  LiveInv'
<1>1. /\ t \in Served
      /\ work' = [work EXCEPT ![Worklist(t)] = EraseIf(work[Worklist(t)], t)]
      /\ batches' = [batches EXCEPT ![t] = 0]
      /\ UNCHANGED <<waitingOnGC, uncompressed, collecting, at, task, owner, cancelled,
                     terminate, main, genFinished, left, created>>
  BY DEF GiveUp, Served, mainVars, bounds
<1>2. Worklist(t) \in Kinds /\ Worklist(t) \in Compiles
  BY Roles DEF Worklist, Compiles
<1>3. EraseIf(work[Worklist(t)], t) \in Seq(Entry(Worklist(t)))
  BY <1>2, EraseIfSelects DEF LiveInv, ListsHold
<1>4. /\ work' \in [Kinds -> Seq(Threads \cup {None})]
      /\ \A j \in Kinds : work'[j] \in Seq(Entry(j))
      /\ \A j \in Kinds \ Compiles : work'[j] = work[j]
  BY <1>1, <1>2, <1>3, OneListChanged
<1>5. Woken
  BY <1>1 DEF LiveInv, Values, Woken
<1>6. ListsHold' /\ ThreadsHold'
  BY <1>1, <1>4, <1>5, WokenKeeps
<1>7. batches' \in [Threads -> Nat]
  BY <1>1 DEF LiveInv, Values
<1>8. Values'
  BY <1>1, <1>4, <1>7 DEF LiveInv, Values
<1>9. FinishHolds'
  <2>1. \A j \in Submitted \cup {"generator"} : work'[j] = work[j]
    BY <1>4, AllKinds, Roles DEF Compiles
  <2> QED BY <1>1, <2>1, Roles DEF LiveInv, FinishHolds, Finishing, Running
<1> QED BY <1>6, <1>8, <1>9 DEF LiveInv

(* A thread is through with a task nobody waits for, or with a batch. *)
LEMMA TaskEndKept ==
    ASSUME LiveInv, NEW t \in Threads,
           SimpleTaskEnd(t) \/ \E ok \in BOOLEAN : CompileTaskEnd(t, ok)
    PROVE  LiveInv'
<1>1. /\ at[t] = "run" /\ task[t] \notin Masters
      /\ at' = [at EXCEPT ![t] = "relock"]
      /\ UNCHANGED <<work, waitingOnGC, uncompressed, collecting, task, batches, cancelled,
                     terminate, main, genFinished, left, created>>
  BY DEF SimpleTaskEnd, CompileTaskEnd, RunTaskEnd, lists, masters, mainVars, bounds,
         Masters, Compiles
<1>2. /\ owner' \in [Threads -> Threads \cup {None}] /\ owner'[t] = None
      /\ \A u \in Threads \ {t} : owner'[u] = owner[u]
  BY DEF SimpleTaskEnd, CompileTaskEnd, LiveInv, Values, ThreadsHold
<1>3. at' \in [Threads -> Places] /\ at'[t] = "relock"
      /\ \A u \in Threads \ {t} : at'[u] = at[u]
  BY <1>1 DEF LiveInv, Values, Places
<1>4. Served' = Served
  BY <1>1, <1>3 DEF Served
<1>5. ListsHold'
  BY <1>1, <1>4, ListsKept DEF LiveInv, ListsHold
<1>6. ThreadsHold'
  BY <1>1, <1>2, <1>3, <1>4 DEF LiveInv, ThreadsHold
<1>7. Values'
  BY <1>1, <1>2, <1>3 DEF LiveInv, Values
<1>8. FinishHolds'
  BY <1>1, <1>3 DEF LiveInv, FinishHolds, Finishing, Running
<1> QED BY <1>5, <1>6, <1>7, <1>8 DEF LiveInv

(* A master ends: no batch of its is left, so no list and no thread names it. *)
LEMMA MasterEndKept ==
    ASSUME LiveInv, NEW t \in Threads, NEW tier2 \in BOOLEAN, MasterEnd(t, tier2)
    PROVE  LiveInv'
<1>1. /\ at[t] = "run" /\ task[t] \in Masters /\ ~Outstanding(t)
      /\ UNCHANGED <<waitingOnGC, uncompressed, collecting, task, owner, batches, cancelled,
                     terminate, main, genFinished, left>>
  BY DEF MasterEnd, masters, mainVars
<1>2. /\ at' \in [Threads -> Places] /\ at'[t] = "relock"
      /\ \A u \in Threads \ {t} : at'[u] # at[u] => at[u] = "asleep" /\ at'[u] = "awake"
  BY <1>1 DEF MasterEnd, StartOffThreadWasmTier2Generator, RunTaskEnd, Asleep, LiveInv,
     Values, Places
<1>3. \/ UNCHANGED <<work, created>>
      \/ /\ work' = [work EXCEPT !["generator"] = Append(work["generator"], None)]
         /\ created' = created + 1 /\ task[t] = "promise"
  BY DEF MasterEnd, StartOffThreadWasmTier2Generator
<1>4. Served' = Served \ {t}
  BY <1>1, <1>2 DEF Served
<1>5. "generator" \in Kinds /\ "generator" \notin Compiles
  BY AllKinds DEF Compiles
<1>6. /\ work' \in [Kinds -> Seq(Threads \cup {None})]
      /\ \A j \in Kinds : work'[j] \in Seq(Entry(j))
      /\ \A j \in Kinds \ {"generator"} : work'[j] = work[j]
  <2>1. CASE UNCHANGED work
    BY <2>1 DEF LiveInv, Values, ListsHold
  <2>2. CASE work' = [work EXCEPT !["generator"] = Append(work["generator"], None)]
    <3>1. Append(work["generator"], None) \in Seq(Entry("generator"))
      BY <1>5, ListOperations DEF LiveInv, ListsHold, Entry
    <3> QED BY <1>5, <2>2, <3>1, OneListChanged
  <2> QED BY <1>3, <2>1, <2>2
<1>7. ListsHold'
  <2> SUFFICES ASSUME NEW k \in Kinds PROVE work'[k] \in Seq(Entry(k)')
    BY DEF ListsHold
  <2>1. CASE k \notin Compiles
    BY <1>6, <2>1 DEF Entry
  <2>2. CASE k \in Compiles
    <3>1. work'[k] = work[k] /\ work[k] \in Seq(Served)
      BY <1>5, <1>6, <2>2 DEF Entry
    <3>2. \A i \in 1..Len(work[k]) : work[k][i] # t
      BY <1>1, <2>2, <3>1 DEF Outstanding, ToSet
    <3>3. work[k] \in Seq(Served')
      BY <1>4, <3>1, <3>2
    <3> QED BY <2>2, <3>1, <3>3 DEF Entry
  <2> QED BY <2>1, <2>2
<1>8. ThreadsHold'
  <2>1. \A u \in Threads : owner[u] # t
    BY <1>1, Roles DEF Outstanding, LiveInv, ThreadsHold
  <2> QED BY <1>1, <1>2, <1>4, <2>1, Roles DEF LiveInv, ThreadsHold, Masters, Compiles
<1>9. Values'
  BY <1>1, <1>2, <1>3, <1>6 DEF LiveInv, Values
<1>10. FinishHolds'
  <2>1. Finishing => UNCHANGED work
    <3>1. "promise" \in Submitted
      BY Roles
    <3> QED BY <1>1, <1>3, <3>1 DEF LiveInv, FinishHolds
  <2>2. \A u \in Threads : at'[u] = "run" => at[u] = "run"
    BY <1>2
  <2>3. \A u \in Threads : at[u] = "dead" => at'[u] = "dead"
    BY <1>1, <1>2
  <2> QED BY <1>1, <2>1, <2>2, <2>3 DEF LiveInv, FinishHolds, Finishing, Running
<1> QED BY <1>7, <1>8, <1>9, <1>10 DEF LiveInv


(* A thread takes its next task, sleeps or terminates. *)
LEMMA LoopKept ==
    ASSUME LiveInv, IndInv, NEW t \in Threads, Loop(t)
    PROVE  LiveInv'
<1> DEFINE idle == [task EXCEPT ![t] = None]
<1>1. /\ at[t] \in {"awake", "relock"} /\ t \notin Served /\ owner[t] = None
      /\ UNCHANGED <<waitingOnGC, uncompressed, collecting, terminate, main, left, created>>
      /\ genFinished' = (genFinished \/ task[t] = "generator")
  BY DEF Loop, Served, LiveInv, ThreadsHold, bounds
<1>2. /\ idle \in [Threads -> Kinds \cup {None}] /\ idle[t] = None
      /\ \A u \in Threads \ {t} : idle[u] = task[u]
  BY DEF IndInv
<1>3. ASSUME NEW p \in {"dead", "asleep"}, at' = [at EXCEPT ![t] = p], task' = idle,
             UNCHANGED <<work, owner, batches, cancelled>>
      PROVE  LiveInv'
  <2>1. at' \in [Threads -> Places] /\ at'[t] = p /\ \A u \in Threads \ {t} : at'[u] = at[u]
    BY <1>3 DEF LiveInv, Values, Places
  <2>2. task'[t] = None /\ \A u \in Threads \ {t} : task'[u] = task[u]
    BY <1>2, <1>3
  <2> HIDE DEF idle
  <2>3. Served' = Served
    BY <1>1, <2>1, <2>2 DEF Served
  <2>4. ListsHold'
    BY <1>3, <2>3, ListsKept DEF LiveInv, ListsHold
  <2>5. ThreadsHold'
    BY <1>1, <1>3, <2>1, <2>2, <2>3 DEF LiveInv, ThreadsHold
  <2>6. Values'
    BY <1>1, <1>2, <1>3, <2>1 DEF LiveInv, Values
  <2>7. \A u \in Threads :
          task'[u] = "generator" => task[u] = "generator" /\ task[t] # "generator"
    BY <2>2, NoneIsNoMaster DEF IndInv, GeneratorIsAlone
  <2>8. FinishHolds'
    <3>1. Running("generator")' => Running("generator") /\ task[t] # "generator"
      BY <2>7 DEF Running
    <3>2. \A u \in Threads : at[u] = "dead" => at'[u] = "dead"
      BY <1>1, <2>1
    <3>3. \A u \in Threads : at'[u] = "run" => at[u] = "run" /\ task'[u] = task[u]
      BY <2>1, <2>2
    <3> QED BY <1>1, <1>3, <3>1, <3>2, <3>3 DEF LiveInv, FinishHolds, Finishing
  <2> QED BY <2>4, <2>5, <2>6, <2>8 DEF LiveInv
<1>4. ASSUME NEW k \in Kinds, NEW n \in 0..MaxBatches, HighestPriority(idle, k),
             at' = [at EXCEPT ![t] = "run"],
             task' = [idle EXCEPT ![t] = IF k = "ionFree" THEN None ELSE k],
             owner' = [owner EXCEPT ![t] = Head(work[k])],
             work' = [work EXCEPT ![k] = Tail(work[k])],
             batches' = [batches EXCEPT ![t] = n],
             cancelled' = cancelled \ {t}
      PROVE  LiveInv'
  <2>1. at' \in [Threads -> Places] /\ at'[t] = "run" /\ \A u \in Threads \ {t} : at'[u] = at[u]
    BY <1>4 DEF LiveInv, Values, Places
  <2>2. /\ task' \in [Threads -> Kinds \cup {None}]
        /\ task'[t] = IF k = "ionFree" THEN None ELSE k
        /\ \A u \in Threads \ {t} : task'[u] = task[u]
    BY <1>2, <1>4
  <2>3. work[k] # <<>>
    BY <1>4 DEF HighestPriority, CanStart
  <2> HIDE DEF idle
  <2>4. Served \subseteq Served'
    BY <1>1, <2>1, <2>2 DEF Served
  <2>5. Head(work[k]) \in Entry(k) /\ Tail(work[k]) \in Seq(Entry(k))
    BY <2>3, ListOperations DEF LiveInv, ListsHold
  <2>6. /\ work' \in [Kinds -> Seq(Threads \cup {None})]
        /\ \A j \in Kinds : work'[j] \in Seq(Entry(j))
        /\ \A j \in Kinds \ {k} : work'[j] = work[j]
    BY <1>4, <2>5, OneListChanged
  <2>7. ListsHold'
    BY <2>4, <2>6, ListsKept
  <2>8. /\ owner' \in [Threads -> Threads \cup {None}] /\ owner'[t] = Head(work[k])
        /\ \A u \in Threads \ {t} : owner'[u] = owner[u]
    BY <1>4, <2>5 DEF Entry, Served, LiveInv, Values
  <2>9. owner'[t] # None => owner'[t] \in Served /\ task'[t] \in Compiles
    BY <2>2, <2>5, <2>8 DEF Entry, Compiles
  <2>10. task'[t] \in Compiles => owner'[t] # None
    BY <2>2, <2>5, <2>8, Roles DEF Entry, Served
  <2>11. ThreadsHold'
    BY <2>1, <2>2, <2>4, <2>8, <2>9, <2>10 DEF LiveInv, ThreadsHold
  <2>12. batches' \in [Threads -> Nat]
    BY <1>4, HelperThreadsAssumption DEF LiveInv, Values
  <2>13. Values'
    BY <1>1, <1>4, <2>1, <2>2, <2>6, <2>8, <2>12 DEF LiveInv, Values
  <2>14. FinishHolds'
    <3> SUFFICES ASSUME Finishing PROVE FinishHolds'
      BY <1>1, NotFinishing DEF Finishing
    <3>1. k \in Compiles \cup {"ionFree"}
      BY <2>3, AllKinds, Roles DEF LiveInv, FinishHolds, Compiles
    <3>2. \A j \in (Submitted \ {"ionFree"}) \cup {"generator"} : work'[j] = work[j]
      BY <2>6, <3>1, AllKinds, Roles DEF Compiles
    <3>3. \A u \in Threads :
            task'[u] = "generator" => task[u] = "generator" /\ task[t] # "generator"
      BY <2>2, <3>1, NoneIsNoMaster DEF IndInv, GeneratorIsAlone, Compiles
    <3>4. Running("generator")' => Running("generator") /\ task[t] # "generator"
      BY <3>3 DEF Running
    <3>5. task'[t] \notin Submitted
      BY <2>2, <3>1, Roles DEF Compiles, Submitted
    <3>6. main # "finished"
      BY <1>1 DEF LiveInv, FinishHolds
    <3> QED BY <1>1, <2>1, <2>2, <3>2, <3>4, <3>5, <3>6 DEF LiveInv, FinishHolds, Finishing
  <2> QED BY <2>7, <2>11, <2>13, <2>14 DEF LiveInv
<1> QED
  <2>1. \/ \E p \in {"dead", "asleep"} :
             /\ at' = [at EXCEPT ![t] = p] /\ task' = idle
             /\ UNCHANGED <<work, owner, batches, cancelled>>
        \/ \E k \in Kinds, n \in 0..MaxBatches :
             /\ HighestPriority(idle, k)
             /\ at' = [at EXCEPT ![t] = "run"]
             /\ task' = [idle EXCEPT ![t] = IF k = "ionFree" THEN None ELSE k]
             /\ owner' = [owner EXCEPT ![t] = Head(work[k])]
             /\ work' = [work EXCEPT ![k] = Tail(work[k])]
             /\ batches' = [batches EXCEPT ![t] = n]
             /\ cancelled' = cancelled \ {t}
    BY DEF Loop, masters
  <2> HIDE DEF idle
  <2> QED BY <1>3, <1>4, <2>1

-----------------------------------------------------------------------------
\* The main thread's steps.

(* Steps of the main thread that change one list and wake threads. *)
LEMMA MainKept ==
    ASSUME LiveInv, Woken, UNCHANGED <<task, owner, batches>>,
           NEW k \in Kinds, NEW s, s \in Seq(Entry(k)), work' = [work EXCEPT ![k] = s],
           waitingOnGC' \in Nat, uncompressed' \in Nat,
           cancelled' \subseteq Threads, terminate' \subseteq Threads,
           main' \in Waits \cup {"run", "finished"}, left' \in [Submitted -> Nat], created' = created
    PROVE  Values' /\ ListsHold' /\ ThreadsHold'
           /\ work'[k] = s /\ \A j \in Kinds \ {k} : work'[j] = work[j]
<1>1. /\ work' \in [Kinds -> Seq(Threads \cup {None})]
      /\ \A j \in Kinds : work'[j] \in Seq(Entry(j))
      /\ work'[k] = s /\ \A j \in Kinds \ {k} : work'[j] = work[j]
  BY OneListChanged
<1>2. ListsHold' /\ ThreadsHold'
  BY <1>1, WokenKeeps
<1>3. Values'
  BY <1>1 DEF LiveInv, Values, Woken
<1> QED BY <1>1, <1>2, <1>3

(* Steps that leave the lists alone. *)
LEMMA SameListsKept ==
    ASSUME LiveInv, Woken, UNCHANGED <<work, task, owner, batches>>,
           waitingOnGC' \in Nat, uncompressed' \in Nat,
           cancelled' \subseteq Threads, terminate' \subseteq Threads,
           main' \in Waits \cup {"run", "finished"}, left' \in [Submitted -> Nat], created' = created
    PROVE  Values' /\ ListsHold' /\ ThreadsHold'
<1>1. \A j \in Kinds : work'[j] \in Seq(Entry(j))
  BY DEF LiveInv, ListsHold
<1>2. ListsHold' /\ ThreadsHold'
  BY <1>1, WokenKeeps
<1>3. Values'
  BY DEF LiveInv, Values, Woken
<1> QED BY <1>2, <1>3

(* The main thread submits a task. *)
LEMMA SubmitKept ==
    ASSUME LiveInv, NEW k \in Submitted, Submit(k)
    PROVE  LiveInv'
<1>1. /\ main = "run" /\ left[k] > 0 /\ left' = [left EXCEPT ![k] = left[k] - 1]
      /\ UNCHANGED <<task, owner, batches, cancelled, terminate, main, created>>
  BY DEF Submit, Free, masters, mainVars
<1>2. left' \in [Submitted -> Nat]
  BY <1>1 DEF LiveInv, Values
<1>3. FinishHolds'
  BY <1>1, NotFinishing DEF Finishing
<1>4. Woken
  BY NotifyEffect DEF Submit, LiveInv, Values
<1>5. waitingOnGC' \in Nat /\ uncompressed' \in Nat
  BY DEF Submit, LiveInv, Values
<1>6. CASE UNCHANGED work
  BY <1>1, <1>2, <1>3, <1>4, <1>5, <1>6, SameListsKept DEF LiveInv, Values
<1>7. CASE work' = [work EXCEPT ![k] = Append(work[k], None)]
  <2>1. k \in Kinds /\ k \notin Compiles
    BY DEF Submitted
  <2>2. Append(work[k], None) \in Seq(Entry(k))
    BY <2>1, ListOperations DEF LiveInv, ListsHold, Entry
  <2>3. Values' /\ ListsHold' /\ ThreadsHold'
    BY <1>1, <1>2, <1>4, <1>5, <1>7, <2>1, <2>2, MainKept DEF LiveInv, Values
  <2> QED BY <1>3, <2>3 DEF LiveInv
<1> QED BY <1>6, <1>7 DEF Submit

(* A collection begins, and ends. *)
LEMMA GCKept ==
    ASSUME LiveInv, StartGC \/ EndGC
    PROVE  LiveInv'
<1>1. /\ main = "run"
      /\ UNCHANGED <<task, owner, batches, cancelled, terminate, main, left, created>>
  BY DEF StartGC, EndGC, Free, lists, masters, mainVars, bounds
<1>2. FinishHolds'
  BY <1>1, NotFinishing DEF Finishing
<1>3. Woken
  BY NotifyEffect DEF StartGC, EndGC, LiveInv, Values
<1>4. waitingOnGC' \in Nat /\ uncompressed' \in Nat
  BY DEF StartGC, EndGC, lists, LiveInv, Values
<1>5. CASE UNCHANGED work
  BY <1>1, <1>2, <1>3, <1>4, <1>5, SameListsKept DEF LiveInv, Values
<1>6. CASE work' = [work EXCEPT !["parse"] = work["parse"] \o [i \in 1..waitingOnGC |-> None]]
  <2>1. "parse" \in Kinds /\ "parse" \notin Compiles
    BY AllKinds DEF Compiles
  <2>2. work["parse"] \o [i \in 1..waitingOnGC |-> None] \in Seq(Entry("parse"))
    BY <2>1, ListOperations DEF LiveInv, Values, ListsHold, Entry
  <2>3. Values' /\ ListsHold' /\ ThreadsHold'
    BY <1>1, <1>3, <1>4, <1>6, <2>1, <2>2, MainKept DEF LiveInv, Values
  <2> QED BY <1>2, <2>3 DEF LiveInv
<1> QED BY <1>5, <1>6 DEF StartGC, EndGC, lists

(* The main thread starts compressions, or waits until they have started. *)
LEMMA CompressionsKept ==
    ASSUME LiveInv, StartHandlingCompressionTasks \/ RunPendingSourceCompressions
    PROVE  LiveInv'
<1>1. /\ main' \in {"run", "compressStart"} /\ ScheduleCompressions
      /\ UNCHANGED <<waitingOnGC, task, owner, batches, cancelled, terminate, left, created>>
  BY DEF StartHandlingCompressionTasks, RunPendingSourceCompressions, Free, masters, mainVars,
         bounds
<1>2. FinishHolds'
  BY <1>1, NotFinishing DEF Finishing
<1>3. Woken
  BY <1>1, NotifyEffect DEF ScheduleCompressions, LiveInv, Values
<1>4. /\ uncompressed' \in Nat
      /\ work' = [work EXCEPT !["compress"] = work["compress"] \o [i \in 1..uncompressed |-> None]]
  BY <1>1 DEF ScheduleCompressions
<1>5. "compress" \in Kinds /\ "compress" \notin Compiles
  BY AllKinds DEF Compiles
<1>6. work["compress"] \o [i \in 1..uncompressed |-> None] \in Seq(Entry("compress"))
  BY <1>5, ListOperations DEF LiveInv, Values, ListsHold, Entry
<1>7. main' \in Waits \cup {"run", "finished"}
  BY <1>1 DEF Waits
<1>8. Values' /\ ListsHold' /\ ThreadsHold'
  BY <1>1, <1>3, <1>4, <1>5, <1>6, <1>7, MainKept DEF LiveInv, Values
<1> QED BY <1>2, <1>8 DEF LiveInv

(* The main thread cancels work of one kind and waits. *)
LEMMA CancelKept ==
    ASSUME LiveInv,
           CancelOffThreadIonCompile \/ CancelOffThreadParses \/ CancelOffThreadCompressions
    PROVE  LiveInv'
<1>1. /\ main' \in {"run", "ion", "parse", "compress"} /\ UNCHANGED at /\ uncompressed' \in Nat
      /\ UNCHANGED <<waitingOnGC, task, owner, batches, cancelled, terminate, left, created>>
      /\ UNCHANGED work \/ \E k \in {"ion", "compress"} : work' = [work EXCEPT ![k] = <<>>]
  BY DEF CancelOffThreadIonCompile, CancelOffThreadParses, CancelOffThreadCompressions, Await,
         lists, masters, bounds, LiveInv, Values
<1>2. FinishHolds'
  BY <1>1, NotFinishing DEF Finishing
<1>3. Woken
  BY <1>1, NotifyEffect DEF LiveInv, Values
<1>4. main' \in Waits \cup {"run", "finished"}
  BY <1>1 DEF Waits
<1>5. CASE UNCHANGED work
  BY <1>1, <1>2, <1>3, <1>4, <1>5, SameListsKept DEF LiveInv, Values
<1>6. ASSUME NEW k \in {"ion", "compress"}, work' = [work EXCEPT ![k] = <<>>]
      PROVE  LiveInv'
  <2>1. k \in Kinds /\ <<>> \in Seq(Entry(k))
    BY AllKinds
  <2>2. Values' /\ ListsHold' /\ ThreadsHold'
    BY <1>1, <1>3, <1>4, <1>6, <2>1, MainKept DEF LiveInv, Values
  <2> QED BY <1>2, <2>2 DEF LiveInv
<1> QED BY <1>1, <1>5, <1>6

(* Cancelling the generators. *)
LEMMA CancelGeneratorsKept ==
    ASSUME LiveInv, NEW place \in {"generator", "generatorFinish"}, CancelGenerators(place),
           UNCHANGED <<waitingOnGC, uncompressed, at, task, owner, batches, terminate, left, created>>
    PROVE  /\ Values' /\ ListsHold' /\ ThreadsHold'
           /\ work'["generator"] = <<>> /\ \A j \in Kinds \ {"generator"} : work'[j] = work[j]
           /\ place = "generator" => main' \in {"generator", "all", "run"}
           /\ place = "generatorFinish" =>
                \/ main' = "generatorFinish" /\ genFinished' = FALSE
                \/ main' = "join" /\ ~Running("generator")
<1>1. /\ place = "generator" => main' \in {"generator", "all", "run"}
      /\ place = "generatorFinish" =>
           \/ main' = "generatorFinish" /\ genFinished' = FALSE
           \/ main' = "join" /\ ~Running("generator")
  BY DEF CancelGenerators, AwaitAll, Await
<1>2. main' \in Waits \cup {"run", "finished"}
  BY <1>1 DEF Waits
<1>3. Woken
  BY NotifyEffect DEF LiveInv, Values
<1>4. "generator" \in Kinds /\ <<>> \in Seq(Entry("generator"))
  BY AllKinds
<1>5. work' = [work EXCEPT !["generator"] = <<>>] /\ cancelled' \subseteq Threads
  BY DEF CancelGenerators, LiveInv, Values
<1>6. /\ Values' /\ ListsHold' /\ ThreadsHold'
      /\ work'["generator"] = <<>> /\ \A j \in Kinds \ {"generator"} : work'[j] = work[j]
  BY <1>2, <1>3, <1>4, <1>5, MainKept DEF LiveInv, Values
<1> QED BY <1>1, <1>6

(* waitForAllThreads() and finish() cancel them. *)
LEMMA WaitKept ==
    ASSUME LiveInv, WaitForAllThreads \/ Finish
    PROVE  LiveInv'
<1>1. UNCHANGED <<waitingOnGC, uncompressed, collecting, at, task, owner, batches, terminate,
                  left, created>>
  BY DEF WaitForAllThreads, Finish, bounds
<1>2. CASE WaitForAllThreads
  <2>1. Values' /\ ListsHold' /\ ThreadsHold' /\ main' \in {"generator", "all", "run"}
    BY <1>1, <1>2, CancelGeneratorsKept DEF WaitForAllThreads
  <2>2. FinishHolds'
    BY <2>1, NotFinishing DEF Finishing
  <2> QED BY <2>1, <2>2 DEF LiveInv
<1>3. CASE Finish
  <2>1. /\ Values' /\ ListsHold' /\ ThreadsHold'
        /\ work'["generator"] = <<>> /\ \A j \in Kinds \ {"generator"} : work'[j] = work[j]
        /\ \/ main' = "generatorFinish" /\ genFinished' = FALSE
           \/ main' = "join" /\ ~Running("generator")
    BY <1>1, <1>3, CancelGeneratorsKept DEF Finish
  <2>2. \A k \in (Submitted \ {"ionFree"}) \cup {"generator"} : work'[k] = <<>>
    <3>1. \A k \in Submitted \ {"ionFree"} : work[k] = <<>> /\ k \in Kinds \ {"generator"}
      BY <1>3 DEF Finish, Submitted
    <3> QED BY <2>1, <3>1
  <2>3. FinishHolds'
    BY <1>1, <1>3, <2>1, <2>2 DEF Finish, FinishHolds, Finishing, Running
  <2> QED BY <2>1, <2>3 DEF LiveInv
<1> QED BY <1>2, <1>3

(* The main thread wakes. *)
LEMMA MainWakesKept ==
    ASSUME LiveInv, MainWakes
    PROVE  LiveInv'
<1>1. UNCHANGED <<waitingOnGC, uncompressed, collecting, at, task, owner, batches, terminate,
                  left, created>>
  BY DEF MainWakes, bounds
<1>2. CASE CancelGenerators("generator")
  <2>1. Values' /\ ListsHold' /\ ThreadsHold' /\ main' \in {"generator", "all", "run"}
    BY <1>1, <1>2, CancelGeneratorsKept
  <2>2. FinishHolds'
    BY <2>1, NotFinishing DEF Finishing
  <2> QED BY <2>1, <2>2 DEF LiveInv
<1>3. CASE ~CancelGenerators("generator")
  <2>1. UNCHANGED <<work, cancelled, genFinished>>
    BY <1>3 DEF MainWakes
  <2>2. \/ main' \in {"run", "generator", "all", "compressStart", "ion", "parse", "compress"}
        \/ main = "generatorFinish" /\ main' = "generatorFinish"
        \/ main = "generatorFinish" /\ genFinished /\ main' = "join"
    BY <1>3 DEF MainWakes, AwaitAll, Await
  <2>3. main' \in Waits \cup {"run", "finished"}
    BY <2>2 DEF Waits
  <2>4. Woken
    BY <1>1, NotifyEffect DEF LiveInv, Values
  <2>5. Values' /\ ListsHold' /\ ThreadsHold'
    BY <1>1, <2>1, <2>3, <2>4, SameListsKept DEF LiveInv, Values
  <2>6. FinishHolds'
    BY <1>1, <2>1, <2>2 DEF LiveInv, FinishHolds, Finishing, Running
  <2> QED BY <2>5, <2>6 DEF LiveInv
<1> QED BY <1>2, <1>3

(* finish() ends. *)
LEMMA FinishEndKept ==
    ASSUME LiveInv, FinishEnd
    PROVE  LiveInv'
<1>1. /\ main = "join" /\ main' = "finished" /\ \A t \in Threads : at[t] = "dead"
      /\ work' = [work EXCEPT !["ionFree"] = <<>>]
      /\ UNCHANGED <<waitingOnGC, uncompressed, collecting, at, task, owner, batches, cancelled,
                     terminate, left, created>>
  BY DEF FinishEnd, masters, bounds
<1>2. "ionFree" \in Kinds /\ <<>> \in Seq(Entry("ionFree"))
  BY AllKinds
<1>3. Woken
  BY <1>1, NotifyEffect DEF LiveInv, Values
<1>4. /\ Values' /\ ListsHold' /\ ThreadsHold'
      /\ work'["ionFree"] = <<>> /\ \A j \in Kinds \ {"ionFree"} : work'[j] = work[j]
  BY <1>1, <1>2, <1>3, MainKept DEF LiveInv, Values
<1>5. FinishHolds'
  <2>1. \A j \in (Submitted \ {"ionFree"}) \cup {"generator"} : j \in Kinds \ {"ionFree"}
    BY AllKinds, Roles
  <2>2. \A j \in (Submitted \ {"ionFree"}) \cup {"generator"} : work'[j] = work[j]
    BY <1>4, <2>1
  <2> QED BY <1>1, <1>4, <2>2 DEF LiveInv, FinishHolds, Finishing, Running
<1> QED BY <1>4, <1>5 DEF LiveInv

(* HelperThread::destroy() tells a thread to terminate. *)
LEMMA DestroyThreadKept ==
    ASSUME LiveInv, NEW t \in Threads, DestroyThread(t)
    PROVE  LiveInv'
<1>1. /\ main = "join" /\ main' = "join" /\ terminate' \subseteq Threads /\ NotifyAllProducer
      /\ UNCHANGED <<work, waitingOnGC, uncompressed, collecting, task, owner, batches, cancelled,
                     left, created>>
  BY DEF DestroyThread, lists, masters, mainVars, bounds, LiveInv, Values
<1>2. Woken
  BY <1>1, NotifyEffect DEF LiveInv, Values
<1>3. main' \in Waits \cup {"run", "finished"}
  BY <1>1 DEF Waits
<1>4. Values' /\ ListsHold' /\ ThreadsHold'
  BY <1>1, <1>2, <1>3, SameListsKept DEF LiveInv, Values
<1>5. FinishHolds'
  BY <1>1, <1>2 DEF LiveInv, FinishHolds, Finishing, Running, Woken
<1> QED BY <1>4, <1>5 DEF LiveInv

(* Threads wake spuriously, or nothing happens. *)
LEMMA IdleKept ==
    ASSUME LiveInv, SpuriousWakeup \/ UNCHANGED vars
    PROVE  LiveInv'
<1>1. UNCHANGED <<work, waitingOnGC, uncompressed, collecting, task, owner, batches, cancelled,
                  terminate, main, genFinished, left, created>>
  BY DEF SpuriousWakeup, vars, lists, masters, mainVars, bounds
<1>2. Woken
  BY NotifyEffect DEF SpuriousWakeup, NotifyOneProducer, vars, LiveInv, Values
<1>3. Values' /\ ListsHold' /\ ThreadsHold'
  BY <1>1, <1>2, SameListsKept DEF LiveInv, Values
<1>4. FinishHolds'
  BY <1>1, <1>2 DEF LiveInv, FinishHolds, Finishing, Running, Woken
<1> QED BY <1>3, <1>4 DEF LiveInv

(* At the start the lists are empty and all threads are up. *)
LEMMA InitLiveInv == Init => LiveInv
<1> SUFFICES ASSUME Init PROVE LiveInv
  OBVIOUS
<1>1. \A S : <<>> \in Seq(S)
  OBVIOUS
<1>2. Values
  BY <1>1, HelperThreadsAssumption DEF Init, Values, Places
<1>3. ListsHold
  BY <1>1 DEF Init, ListsHold
<1>4. ThreadsHold
  BY Roles DEF Init, ThreadsHold
<1>5. FinishHolds
  BY DEF Init, FinishHolds, Finishing
<1> QED BY <1>2, <1>3, <1>4, <1>5 DEF LiveInv

(* Every step keeps the invariant. *)
LEMMA NextLiveInv == LiveInv /\ IndInv /\ [Next]_vars => LiveInv'
<1> SUFFICES ASSUME LiveInv, IndInv, [Next]_vars PROVE LiveInv'
  OBVIOUS
<1>1. ASSUME NEW t \in Threads, HelperStep(t) PROVE LiveInv'
  BY <1>1, LoopKept, TaskEndKept, LaunchBatchKept, GiveUpKept, MasterEndKept DEF HelperStep
<1>2. ASSUME NEW t \in Threads, DestroyThread(t) PROVE LiveInv'
  BY <1>2, DestroyThreadKept
<1>3. ASSUME NEW k \in Submitted, Submit(k) PROVE LiveInv'
  BY <1>3, SubmitKept
<1>4. CASE StartGC \/ EndGC
  BY <1>4, GCKept
<1>5. CASE StartHandlingCompressionTasks \/ RunPendingSourceCompressions
  BY <1>5, CompressionsKept
<1>6. CASE CancelOffThreadIonCompile \/ CancelOffThreadParses \/ CancelOffThreadCompressions
  BY <1>6, CancelKept
<1>7. CASE WaitForAllThreads \/ Finish
  BY <1>7, WaitKept
<1>8. CASE MainWakes
  BY <1>8, MainWakesKept
<1>9. CASE FinishEnd
  BY <1>9, FinishEndKept
<1>10. CASE SpuriousWakeup \/ UNCHANGED vars
  BY <1>10, IdleKept
<1> QED BY <1>1, <1>2, <1>3, <1>4, <1>5, <1>6, <1>7, <1>8, <1>9, <1>10 DEF Next

(* What the lists and the threads hold, in every state. *)
THEOREM LiveInvariance == Spec => []LiveInv
<1>1. Init => LiveInv
  BY InitLiveInv
<1>2. LiveInv /\ IndInv /\ [Next]_vars => LiveInv'
  BY NextLiveInv
<1> QED BY <1>1, <1>2, Invariance, PTL DEF Spec

-----------------------------------------------------------------------------
(* The flags stay Booleans. *)
LEMMA FlagsKept == Flags /\ [Next]_vars => Flags'
<1> SUFFICES ASSUME Flags, [Next]_vars PROVE Flags'
  OBVIOUS
<1> USE DEF Next, HelperStep, vars, Loop, SimpleTaskEnd, CompileTaskEnd, LaunchBatch, GiveUp,
            MasterEnd, DestroyThread, Submit, StartGC, EndGC, StartHandlingCompressionTasks,
            WaitForAllThreads, RunPendingSourceCompressions, CancelOffThreadIonCompile,
            CancelOffThreadParses, CancelOffThreadCompressions, Finish, MainWakes, FinishEnd,
            SpuriousWakeup, Flags
<1>1. \A t, b : b \in BOOLEAN => [failed EXCEPT ![t] = b] \in [Threads -> BOOLEAN]
  BY Zenon
<1>2. collecting' \in BOOLEAN
  OBVIOUS
<1>3. mainAsleep' \in BOOLEAN
  BY DEF NotifyConsumer, mainVars, Await, AwaitAll, CancelGenerators
<1>4. genFinished' \in BOOLEAN
  BY DEF mainVars, CancelGenerators
<1>5. failed' \in [Threads -> BOOLEAN]
  <2>1. UNCHANGED failed \/ \E t, b : b \in BOOLEAN /\ failed' = [failed EXCEPT ![t] = b]
    BY DEF masters
  <2> QED BY <1>1, <2>1
<1> QED BY <1>2, <1>3, <1>4, <1>5

(* So they are Booleans in every state. *)
THEOREM FlagsInvariance == Spec => []Flags
<1>1. Init => Flags
  BY DEF Init, Flags
<1>2. Flags /\ [Next]_vars => Flags'
  BY FlagsKept
<1> QED BY <1>1, <1>2, PTL DEF Spec

(* Every list, thread and counter of the pool holds what it may. *)
THEOREM TypeCorrect == Spec => []TypeOK
<1>1. LiveInv /\ Flags => TypeOK
  BY DEF LiveInv, Values, Flags, TypeOK
<1> QED BY <1>1, FlagsInvariance, LiveInvariance, PTL

-----------------------------------------------------------------------------
(* When finish() returns no task is on a worklist or in a thread, although the
   wasm batches are on lists finish() neither waits for nor empties. *)
THEOREM NothingLeftBehindAlways == Spec => []NothingLeftBehind
<1>1. LiveInv => NothingLeftBehind
  <2> SUFFICES ASSUME LiveInv, main = "finished" PROVE NothingLeftBehind
    BY DEF NothingLeftBehind
  <2>1. \A t \in Threads : at[t] = "dead" /\ task[t] = None
    BY DEF LiveInv, FinishHolds, ThreadsHold
  <2>2. Served = {}
    BY <2>1 DEF Served
  <2>3. \A k \in Compiles : work[k] = <<>>
    <3> SUFFICES ASSUME NEW k \in Compiles PROVE work[k] = <<>>
      OBVIOUS
    <3>1. work[k] \in Seq({})
      BY <2>2, Roles DEF LiveInv, ListsHold, Entry
    <3> QED BY <3>1
  <2>4. \A k \in Kinds : work[k] = <<>>
    BY <2>3, AllKinds, Roles DEF LiveInv, FinishHolds, Finishing, Compiles
  <2> QED BY <2>1, <2>4 DEF NothingLeftBehind
<1> QED BY <1>1, LiveInvariance, PTL

-----------------------------------------------------------------------------
\* Wake-ups.

(* A step that wakes a thread, or finds none to wake, leaves one that is not
   asleep and not waiting for batches: some thread runs no master. *)
LEMMA SomebodyIsUp ==
    ASSUME LiveInv, OneThreadForWork, UNCHANGED task, NotifyOneProducer \/ NotifyAllProducer
    PROVE  ~Quiet'
<1> SUFFICES ASSUME Quiet' PROVE FALSE
  OBVIOUS
<1>1. PICK u \in Threads : task[u] \notin Masters
  BY DEF OneThreadForWork
<1>2. at'[u] = "asleep"
  BY <1>1 DEF Quiet, Stuck
<1>3. at \in [Threads -> Places]
  BY DEF LiveInv, Values
<1>4. ~NotifyAllProducer
  BY <1>2 DEF NotifyAllProducer
<1>5. u \in Asleep
  BY <1>2, <1>3, <1>4 DEF NotifyOneProducer, Asleep
<1>6. PICK t \in Asleep : at' = [at EXCEPT ![t] = "awake"]
  BY <1>4, <1>5 DEF NotifyOneProducer
<1>7. t \in Threads /\ at'[t] = "awake"
  BY <1>3, <1>6 DEF Asleep
<1> QED BY <1>7 DEF Quiet, Stuck

(* A step that makes no task startable takes nothing away from the sleepers. *)
LEMMA NothingNew ==
    ASSUME WorkIsTaken, UNCHANGED <<at, task, owner, batches, failed>>,
           \A k \in Compiles : work'[k] = work[k],
           \A k \in Kinds : CanStart(task, k)' => CanStart(task, k)
    PROVE  WorkIsTaken'
<1>1. \A t \in Threads : Stuck(t)' => Stuck(t)
  BY DEF Stuck, Outstanding
<1>2. Quiet' => Quiet
  BY <1>1 DEF Quiet
<1> QED BY <1>2 DEF WorkIsTaken

(* Emptying a list other than a compile list makes no task startable, unless it
   lifts the limit on tier-1 batches. *)
LEMMA EmptyingOneList ==
    ASSUME LiveInv, WorkIsTaken, ~Oversubscribed, ~Oversubscribed',
           UNCHANGED <<at, task, owner, batches, failed>>,
           NEW k \in Kinds \ Compiles, work' = [work EXCEPT ![k] = <<>>]
    PROVE  WorkIsTaken'
<1>1. work'[k] = <<>> /\ \A j \in Kinds \ {k} : work'[j] = work[j]
  BY DEF LiveInv, Values
<1>2. \A j \in Kinds : CanStart(task, j)' => CanStart(task, j)
  BY <1>1 DEF CanStart, CanStartWasmCompile, CheckTaskThreadLimit
<1> QED BY <1>1, <1>2, Roles, NothingNew

(* Steps that change nothing a helper thread looks at. *)
LEMMA NothingChanged ==
    ASSUME WorkIsTaken, UNCHANGED <<work, at, task, owner, batches, failed>>
    PROVE  WorkIsTaken'
<1>1. \A j \in Kinds : CanStart(task, j)' => CanStart(task, j)
  BY DEF CanStart, CanStartWasmCompile, CheckTaskThreadLimit, Oversubscribed
<1> QED BY <1>1, NothingNew

(* A thread that is neither asleep nor in a master keeps the pool busy. *)
LEMMA SomebodyElse ==
    ASSUME NEW t \in Threads, at'[t] # "asleep",
           at'[t] # "run" \/ failed'[t] \/ ~Outstanding(t)'
    PROVE  WorkIsTaken'
BY DEF WorkIsTaken, Quiet, Stuck

(* A thread that goes to sleep has looked for a task and found none. *)
LEMMA LoopTakes ==
    ASSUME LiveInv, NEW t \in Threads, Loop(t)
    PROVE  WorkIsTaken'
<1> DEFINE idle == [task EXCEPT ![t] = None]
<1>0. t \in Threads /\ at \in [Threads -> Places] /\ task \in [Threads -> Kinds \cup {None}]
      /\ owner \in [Threads -> Threads \cup {None}]
  BY DEF LiveInv, Values
<1>1. CASE at' = [at EXCEPT ![t] = "dead"]
  BY <1>0, <1>1, SomebodyElse
<1>2. CASE ~(\E k \in Kinds : CanStart(idle, k)) /\ task' = idle /\ UNCHANGED work
  <2>1. \A k \in Kinds : CanStart(task, k)' => CanStart(idle, k)
    <3> HIDE DEF idle
    <3> QED BY <1>2 DEF CanStart, CanStartWasmCompile, CheckTaskThreadLimit, Oversubscribed
  <2> QED BY <1>2, <2>1 DEF WorkIsTaken
<1>3. ASSUME NEW k \in Kinds, HighestPriority(idle, k), at' = [at EXCEPT ![t] = "run"],
             owner' = [owner EXCEPT ![t] = Head(work[k])],
             work' = [work EXCEPT ![k] = Tail(work[k])]
      PROVE  WorkIsTaken'
  <2>1. at'[t] = "run"
    BY <1>0, <1>3
  <2>2. t \notin Served
    BY DEF Loop, Served
  <2>3. work[k] # <<>>
    BY <1>3 DEF HighestPriority, CanStart
  <2>4. Head(work[k]) \in Entry(k) /\ Tail(work[k]) \in Seq(Entry(k))
    BY <2>3, ListOperations DEF LiveInv, ListsHold
  <2>5. \A j \in Kinds : work'[j] \in Seq(Entry(j))
    BY <1>3, <2>4, OneListChanged
  <2>6. \A j \in Compiles : t \notin ToSet(work'[j])
    BY <2>2, <2>5, Roles DEF Entry, ToSet
  <2>7. \A u \in Threads : owner'[u] # t
    BY <1>0, <1>3, <2>2, <2>4, Roles DEF Entry, LiveInv, ThreadsHold
  <2>8. ~Outstanding(t)'
    BY <2>6, <2>7 DEF Outstanding
  <2> QED BY <2>1, <2>8, SomebodyElse
<1> QED
  <2>1. \/ at' = [at EXCEPT ![t] = "dead"]
        \/ ~(\E k \in Kinds : CanStart(idle, k)) /\ task' = idle /\ UNCHANGED work
        \/ \E k \in Kinds : /\ HighestPriority(idle, k) /\ at' = [at EXCEPT ![t] = "run"]
                            /\ owner' = [owner EXCEPT ![t] = Head(work[k])]
                            /\ work' = [work EXCEPT ![k] = Tail(work[k])]
    BY DEF Loop
  <2> HIDE DEF idle
  <2> QED BY <1>1, <1>2, <1>3, <2>1

(* The other steps of a helper thread. *)
LEMMA HelperTakes ==
    ASSUME LiveInv, IndInv, Flags, NEW t \in Threads, HelperStep(t)
    PROVE  WorkIsTaken'
<1>1. CASE Loop(t)
  BY <1>1, LoopTakes
<1>2. CASE SimpleTaskEnd(t) \/ (\E ok \in BOOLEAN : CompileTaskEnd(t, ok))
           \/ \E tier2 \in BOOLEAN : MasterEnd(t, tier2)
  <2>1. at'[t] = "relock"
    BY <1>2 DEF SimpleTaskEnd, CompileTaskEnd, MasterEnd, StartOffThreadWasmTier2Generator,
       RunTaskEnd, Asleep, LiveInv, Values
  <2> QED BY <2>1, SomebodyElse
<1>3. CASE LaunchBatch(t)
  BY <1>3, SomebodyIsUp DEF LaunchBatch, IndInv, WorkIsTaken
<1>4. CASE GiveUp(t)
  <2>1. at'[t] = "run" /\ failed' = [failed EXCEPT ![t] = TRUE]
    BY <1>4 DEF GiveUp
  <2>2. failed'[t] = TRUE
    BY <2>1, Zenon DEF Flags
  <2>3. ~Stuck(t)'
    BY <2>2 DEF Stuck
  <2> QED BY <2>1, <2>3 DEF WorkIsTaken, Quiet
<1> QED BY <1>1, <1>2, <1>3, <1>4 DEF HelperStep

(* The compressions that are scheduled. *)
LEMMA CompressionsTake ==
    ASSUME LiveInv, IndInv, WorkIsTaken, ScheduleCompressions,
           UNCHANGED <<task, owner, batches, failed>>
    PROVE  WorkIsTaken'
<1>1. CASE NotifyOneProducer
  BY <1>1, SomebodyIsUp DEF IndInv, WorkIsTaken
<1>2. CASE /\ UNCHANGED at
           /\ ~(work'["compress"] # <<>> /\ CheckTaskThreadLimit(task, {"compress"}, 1, FALSE))
  <2>1. \A j \in Kinds \ {"compress"} : work'[j] = work[j]
    BY DEF ScheduleCompressions, LiveInv, Values
  <2>2. /\ "compress" \in Kinds /\ "generator" \in Kinds \ {"compress"}
        /\ Compiles \subseteq Kinds \ {"compress"}
    BY AllKinds DEF Compiles
  <2>3. ~CanStart(task, "compress")'
    BY <1>2 DEF CanStart, Compiles, CheckTaskThreadLimit
  <2>4. \A j \in Kinds \ {"compress"} : CanStart(task, j)' => CanStart(task, j)
    BY <2>1, <2>2 DEF CanStart, CanStartWasmCompile, CheckTaskThreadLimit, Oversubscribed
  <2> QED BY <1>2, <2>1, <2>2, <2>3, <2>4, NothingNew
<1> QED BY <1>1, <1>2 DEF ScheduleCompressions

(* The steps of the main thread. *)
LEMMA MainTakes ==
    ASSUME LiveInv, IndInv, WorkIsTaken, ~Oversubscribed, ~Oversubscribed',
           [Next]_vars, ~\E t \in Threads : HelperStep(t)
    PROVE  WorkIsTaken'
<1>1. ASSUME NEW t \in Threads, DestroyThread(t) PROVE WorkIsTaken'
  BY <1>1, SomebodyIsUp DEF DestroyThread, IndInv, WorkIsTaken
<1>2. ASSUME NEW k \in Submitted, Submit(k) PROVE WorkIsTaken'
  <2>1. UNCHANGED <<task, owner, batches, failed>>
    BY <1>2 DEF Submit, masters
  <2>2. CASE NotifyOneProducer
    BY <2>1, <2>2, SomebodyIsUp DEF IndInv, WorkIsTaken
  <2>3. CASE UNCHANGED <<work, at>>
    BY <2>1, <2>3, NothingChanged
  <2> QED BY <1>2, <2>2, <2>3 DEF Submit
<1>3. CASE StartGC
  BY <1>3, NothingChanged DEF StartGC, lists, masters
<1>4. CASE EndGC
  <2>1. UNCHANGED <<task, owner, batches, failed>>
    BY <1>4 DEF EndGC, masters
  <2>2. CASE NotifyAllProducer
    BY <2>1, <2>2, SomebodyIsUp DEF IndInv, WorkIsTaken
  <2>3. CASE waitingOnGC = 0 /\ UNCHANGED at
    <3>1. "parse" \in Kinds /\ work["parse"] \in Seq(Threads \cup {None})
          /\ work \in [Kinds -> Seq(Threads \cup {None})]
      BY AllKinds DEF LiveInv, Values
    <3>2. work["parse"] \o [i \in 1..0 |-> None] = work["parse"]
      BY <3>1
    <3>3. UNCHANGED work
      BY <1>4, <2>3, <3>1, <3>2 DEF EndGC
    <3> QED BY <2>1, <2>3, <3>3, NothingChanged
  <2> QED BY <1>4, <2>2, <2>3 DEF EndGC, LiveInv, Values
<1>5. CASE StartHandlingCompressionTasks \/ RunPendingSourceCompressions
  BY <1>5, CompressionsTake
     DEF StartHandlingCompressionTasks, RunPendingSourceCompressions, masters
<1>6. CASE CancelOffThreadIonCompile \/ CancelOffThreadCompressions \/ FinishEnd
  <2>1. UNCHANGED <<at, task, owner, batches, failed>>
    BY <1>6 DEF CancelOffThreadIonCompile, CancelOffThreadCompressions, FinishEnd, masters
  <2>2. PICK k \in {"ion", "compress", "ionFree"} : work' = [work EXCEPT ![k] = <<>>]
    BY <1>6 DEF CancelOffThreadIonCompile, CancelOffThreadCompressions, FinishEnd
  <2>3. k \in Kinds \ Compiles
    BY AllKinds DEF Compiles
  <2> QED BY <2>1, <2>2, <2>3, EmptyingOneList
<1>7. CASE CancelOffThreadParses
  BY <1>7, NothingChanged DEF CancelOffThreadParses, lists, masters
<1>8. CASE WaitForAllThreads \/ Finish \/ MainWakes
  <2>1. UNCHANGED <<at, task, owner, batches, failed>>
    BY <1>8 DEF WaitForAllThreads, Finish, MainWakes
  <2>2. UNCHANGED work \/ work' = [work EXCEPT !["generator"] = <<>>]
    BY <1>8 DEF WaitForAllThreads, Finish, MainWakes, CancelGenerators
  <2>3. "generator" \in Kinds \ Compiles
    BY AllKinds DEF Compiles
  <2> QED BY <2>1, <2>2, <2>3, NothingChanged, EmptyingOneList
<1>9. CASE SpuriousWakeup
  <2>1. UNCHANGED <<work, task, owner, batches, failed>>
    BY <1>9 DEF SpuriousWakeup, lists, masters
  <2>2. CASE UNCHANGED at
    BY <2>1, <2>2, NothingChanged
  <2>3. CASE \E t \in Asleep : at' = [at EXCEPT ![t] = "awake"]
    BY <2>1, <2>3, SomebodyIsUp DEF NotifyOneProducer, IndInv, WorkIsTaken
  <2> QED BY <1>9, <2>2, <2>3 DEF SpuriousWakeup
<1>10. CASE UNCHANGED vars
  BY <1>10, NothingChanged DEF vars, lists, masters
<1> QED BY <1>1, <1>2, <1>3, <1>4, <1>5, <1>6, <1>7, <1>8, <1>9, <1>10 DEF Next

(* As long as tier 2 is not oversubscribed no wake-up is lost: when every helper
   is asleep, or waits for batches that nobody compiles, no task could be
   started. *)
THEOREM WorkIsTakenAlways == Spec /\ []~Oversubscribed => []WorkIsTaken
<1>1. Init => WorkIsTaken
  <2> SUFFICES ASSUME Init PROVE ~Quiet
    BY DEF WorkIsTaken
  <2>1. PICK t \in Threads : TRUE
    BY HelperThreadsAssumption, FS_EmptySet DEF ThreadCount
  <2> QED BY <2>1 DEF Init, Quiet, Stuck
<1>2. LiveInv /\ IndInv /\ Flags /\ ~Oversubscribed /\ ~Oversubscribed' /\ WorkIsTaken
        /\ [Next]_vars => WorkIsTaken'
  BY HelperTakes, MainTakes
<1> QED BY <1>1, <1>2, Invariance, LiveInvariance, FlagsInvariance, PTL DEF Spec

(* A master that waits for its batches is served as long as tier 2 is not
   oversubscribed: the pool never comes to a halt with a master in it. *)
THEOREM MastersAreServedAlways == Spec /\ []~Oversubscribed => []MastersAreServed
<1>1. LiveInv /\ IndInv /\ WorkIsTaken /\ ~Oversubscribed => MastersAreServed
  <2> SUFFICES ASSUME LiveInv, IndInv, WorkIsTaken, ~Oversubscribed, Quiet,
                      NEW t \in Threads, at[t] # "asleep"
               PROVE  FALSE
    BY DEF MastersAreServed
  <2>1. Stuck(t)
    BY DEF Quiet
  <2>2. \A u \in Threads : at[u] # "asleep" => at[u] = "run" /\ task[u] \in Masters
    BY DEF Quiet, Stuck
  <2>3. \A u \in Threads : task[u] \notin Compiles
    BY <2>2, Roles DEF LiveInv, ThreadsHold, Masters, Compiles
  <2>4. \A u \in Threads : ~(at[u] = "run" /\ owner[u] = t)
    BY <2>3, Roles DEF LiveInv, ThreadsHold
  <2>5. PICK k \in Compiles : t \in ToSet(work[k])
    BY <2>1, <2>4 DEF Stuck, Outstanding
  <2>6. k \in Kinds /\ work[k] # <<>>
    BY <2>5, Roles DEF ToSet
  <2>7. \E u \in Threads : task[u] = None
    BY <2>2 DEF IndInv, OneThreadForWork, LiveInv, ThreadsHold
  <2>8. ThreadCount \in Nat /\ ThreadCount >= 2
    BY HelperThreadsAssumption, FS_CardinalityType DEF ThreadCount
  <2>9. CheckTaskThreadLimit(task, Compiles, ThreadCount, FALSE)
    BY <2>8 DEF CheckTaskThreadLimit
  <2>10. CheckTaskThreadLimit(task, Compiles, PhysCoresAvailable, FALSE)
    <3> DEFINE busy == {u \in Threads : task[u] \in Compiles}
               idle == {u \in Threads : task[u] = None}
    <3>1. Cardinality(busy) = 0
      BY <2>3, FS_EmptySet
    <3>2. IsFiniteSet(idle) /\ idle # {}
      BY <2>7, HelperThreadsAssumption, FS_Subset
    <3>3. Cardinality(idle) \in Nat /\ Cardinality(idle) # 0
      BY <3>2, FS_CardinalityType, FS_EmptySet
    <3>4. PhysCoresAvailable > 0
      BY <2>8 DEF PhysCoresAvailable, CpuCount
    <3>5. /\ Cardinality(busy) < PhysCoresAvailable
          /\ Cardinality(idle) > 0
      BY <3>1, <3>3, <3>4
    <3> QED BY <3>5 DEF CheckTaskThreadLimit
  <2>11. PhysCoresAvailable > 0
    BY <2>8 DEF PhysCoresAvailable, CpuCount
  <2>12. CanStartWasmCompile(task, k)
    <3>1. CASE k = "wasm1"
      <4>1. ThreadCount > 0
        BY <2>8
      <4> QED BY <2>9, <3>1, <4>1 DEF CanStartWasmCompile, CpuCount
    <3>2. CASE k = "wasm2"
      BY <2>10, <2>11, <3>2 DEF CanStartWasmCompile
    <3> QED BY <3>1, <3>2 DEF Compiles
  <2>13. CanStart(task, k)
    BY <2>6, <2>12 DEF CanStart, Compiles
  <2> QED BY <2>6, <2>13 DEF WorkIsTaken
<1> QED BY <1>1, Invariance, LiveInvariance, WorkIsTakenAlways, PTL
=============================================================================
