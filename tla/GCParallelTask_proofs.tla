------------------------ MODULE GCParallelTask_proofs ------------------------
(***************************************************************************)
(* Proofs about GCParallelTask, for any number of tasks and helpers.       *)
(***************************************************************************)
EXTENDS GCParallelTask, ListTheorems, TLAPS

-----------------------------------------------------------------------------
\* The inductive invariant.

LEMMA InitIndInv == Init => IndInv
<1> SUFFICES ASSUME Init PROVE IndInv
  OBVIOUS
<1> USE DEF Init, Free
<1>1. TypeOK
  BY DEF TypeOK, States, Calls, Places
<1>2. MainPlace /\ HelpersRun /\ OneRunner
  BY TasksAssumption DEF MainPlace, HelpersRun, OneRunner, RunsOnHelper, RunsOnMain
<1>3. WorklistIsDispatched
  BY DEF WorklistIsDispatched, IsInjective, Contains
<1>4. EachStartRunsOnce
  BY DEF EachStartRunsOnce, RunsOnMain
<1> QED BY <1>1, <1>2, <1>3, <1>4 DEF IndInv

(* startWithLockHeld() of a task that no thread is running, as the last step
   of a call of the main thread. *)
LEMMA StartStep ==
    ASSUME IndInv, NEW t \in Tasks, main.at # "body",
           state[t] \in {"Idle", "Finished"},
           StartWithLockHeld(t), cancel' \in [Tasks -> BOOLEAN],
           main' = Free, UNCHANGED <<canUseExtraThreads, currentTask>>
    PROVE  IndInv'
<1> USE DEF StartWithLockHeld, SetState, Free
<1>1. ~Contains(worklist, t)
  BY DEF IndInv, WorklistIsDispatched
<1>2. /\ worklist' \in Seq(Tasks)
      /\ IsInjective(worklist')
      /\ \A u \in Tasks : Contains(worklist', u) <=> Contains(worklist, u) \/ u = t
  BY <1>1, ListAppend DEF IndInv, TypeOK, WorklistIsDispatched
<1>3. /\ state' \in [Tasks -> States]
      /\ \A u \in Tasks : state'[u] = IF u = t THEN "Dispatched" ELSE state[u]
  BY DEF IndInv, TypeOK, States
<1>4. /\ owed' \in [Tasks -> Nat]
      /\ \A u \in Tasks : owed'[u] = IF u = t THEN owed[u] + 1 ELSE owed[u]
  BY DEF IndInv, TypeOK
<1>5. asleep' \subseteq Threads \cup {Main}
  BY DEF NotifyOneProducer, IndInv, TypeOK
<1>6. TypeOK'
  BY <1>2, <1>3, <1>4, <1>5 DEF IndInv, TypeOK, Calls, Places
<1>7. MainPlace'
  BY DEF MainPlace
<1>8. HelpersRun'
  BY <1>3 DEF IndInv, HelpersRun, RunsOnHelper
<1>9. WorklistIsDispatched'
  BY <1>2, <1>3 DEF IndInv, WorklistIsDispatched
<1>10. OneRunner'
  BY DEF IndInv, OneRunner, RunsOnHelper, RunsOnMain
<1>11. EachStartRunsOnce'
  <2>1. owed[t] = 0
    BY DEF IndInv, EachStartRunsOnce, RunsOnMain
  <2>2. \A u \in Tasks : ~RunsOnMain(u)'
    BY DEF RunsOnMain
  <2>3. \A u \in Tasks : ~RunsOnMain(u)
    BY DEF RunsOnMain
  <2> QED BY <1>3, <1>4, <2>1, <2>2, <2>3 DEF IndInv, EachStartRunsOnce
<1> QED BY <1>6, <1>7, <1>8, <1>9, <1>10, <1>11 DEF IndInv

(* The main thread takes a task that no helper has to run it itself. *)
LEMMA RunHereStep ==
    ASSUME IndInv, NEW t \in Tasks, NEW c \in Calls, main.at # "body",
           state[t] = "Idle", RunFromMainThread(c, t),
           owed' = [owed EXCEPT ![t] = @ + 1],
           UNCHANGED <<canUseExtraThreads, state, cancel, worklist, currentTask, asleep>>
    PROVE  IndInv'
<1>1. main' = [call |-> c, at |-> "body", task |-> t]
  BY DEF RunFromMainThread
<1>2. /\ owed' \in [Tasks -> Nat]
      /\ \A u \in Tasks : owed'[u] = IF u = t THEN owed[u] + 1 ELSE owed[u]
  BY DEF IndInv, TypeOK
<1>3. TypeOK'
  BY <1>1, <1>2 DEF IndInv, TypeOK, Places
<1>4. MainPlace' /\ HelpersRun' /\ WorklistIsDispatched'
  BY <1>1 DEF IndInv, MainPlace, HelpersRun, RunsOnHelper, WorklistIsDispatched
<1>5. OneRunner'
  BY <1>1 DEF IndInv, HelpersRun, OneRunner, RunsOnHelper, RunsOnMain
<1>6. EachStartRunsOnce'
  <2>1. \A u \in Tasks : ~RunsOnMain(u) /\ (RunsOnMain(u)' <=> u = t)
    BY <1>1 DEF RunsOnMain
  <2>2. owed[t] = 0
    BY <2>1 DEF IndInv, EachStartRunsOnce
  <2> QED BY <1>2, <2>1, <2>2 DEF IndInv, EachStartRunsOnce
<1> QED BY <1>3, <1>4, <1>5, <1>6 DEF IndInv

(* The main thread goes to sleep, or goes back to sleep, on a task that a
   helper is running. *)
LEMMA WaitStep ==
    ASSUME IndInv, NEW t \in Tasks, NEW c \in Calls, main.at # "body",
           state[t] \in {"Running", "Finishing"}, WaitFor(c, t),
           UNCHANGED <<canUseExtraThreads, state, cancel, worklist, currentTask, owed>>
    PROVE  IndInv'
<1>1. main' = [call |-> c, at |-> "wait", task |-> t] /\ asleep' = asleep \cup {Main}
  BY DEF WaitFor
<1>2. TypeOK'
  BY <1>1 DEF IndInv, TypeOK, Places
<1>3. MainPlace' /\ HelpersRun' /\ WorklistIsDispatched' /\ OneRunner'
  BY <1>1 DEF IndInv, MainPlace, HelpersRun, RunsOnHelper, WorklistIsDispatched,
              OneRunner, RunsOnMain
<1>4. EachStartRunsOnce'
  <2>1. \A u \in Tasks : ~RunsOnMain(u) /\ ~RunsOnMain(u)'
    BY <1>1 DEF RunsOnMain
  <2> QED BY <2>1 DEF IndInv, EachStartRunsOnce
<1> QED BY <1>2, <1>3, <1>4 DEF IndInv

(* The end of joinRunningOrFinishedTask(). *)
LEMMA JoinedStep ==
    ASSUME IndInv, NEW t \in Tasks, main.at # "body",
           state[t] = "Finished", Joined(t), main' = Free,
           UNCHANGED <<canUseExtraThreads, worklist, currentTask, asleep, owed>>
    PROVE  IndInv'
<1>1. /\ state' \in [Tasks -> States]
      /\ \A u \in Tasks : state'[u] = IF u = t THEN "Idle" ELSE state[u]
      /\ cancel' \in [Tasks -> BOOLEAN]
  BY DEF Joined, SetState, IndInv, TypeOK, States
<1>2. TypeOK' /\ MainPlace'
  BY <1>1 DEF IndInv, TypeOK, MainPlace, Free, Calls, Places
<1>3. HelpersRun' /\ WorklistIsDispatched'
  BY <1>1 DEF IndInv, HelpersRun, RunsOnHelper, WorklistIsDispatched
<1>4. OneRunner'
  BY <1>1 DEF IndInv, OneRunner, RunsOnHelper, RunsOnMain, Free
<1>5. EachStartRunsOnce'
  <2>1. \A u \in Tasks : ~RunsOnMain(u) /\ ~RunsOnMain(u)'
    BY DEF RunsOnMain, Free
  <2> QED BY <1>1, <2>1 DEF IndInv, EachStartRunsOnce
<1> QED BY <1>2, <1>3, <1>4, <1>5 DEF IndInv

(* join() takes a dispatched task off the worklist and runs it here. *)
LEMMA TakeBackStep ==
    ASSUME IndInv, NEW t \in Tasks, NEW c \in Calls, main.at # "body",
           state[t] = "Dispatched", CancelDispatchedTask(t), RunFromMainThread(c, t),
           UNCHANGED <<canUseExtraThreads, cancel, currentTask, asleep, owed>>
    PROVE  IndInv'
<1>1. main' = [call |-> c, at |-> "body", task |-> t]
  BY DEF RunFromMainThread
<1>2. PICK i \in 1..Len(worklist) :
           worklist[i] = t /\ worklist' = RemoveAt(worklist, i)
  BY DEF CancelDispatchedTask
<1>3. /\ worklist' \in Seq(Tasks)
      /\ IsInjective(worklist')
      /\ \A u \in Tasks : Contains(worklist', u) <=> Contains(worklist, u) /\ u # t
  BY <1>2, ListRemoveAt DEF IndInv, TypeOK, WorklistIsDispatched
<1>4. /\ state' \in [Tasks -> States]
      /\ \A u \in Tasks : state'[u] = IF u = t THEN "Idle" ELSE state[u]
  BY DEF CancelDispatchedTask, SetState, IndInv, TypeOK, States
<1>5. TypeOK'
  BY <1>1, <1>3, <1>4 DEF IndInv, TypeOK, Places
<1>6. MainPlace' /\ HelpersRun'
  BY <1>1, <1>4 DEF IndInv, MainPlace, HelpersRun, RunsOnHelper
<1>7. WorklistIsDispatched'
  BY <1>3, <1>4 DEF IndInv, WorklistIsDispatched
<1>8. OneRunner'
  BY <1>1 DEF IndInv, HelpersRun, OneRunner, RunsOnHelper, RunsOnMain
<1>9. EachStartRunsOnce'
  <2>1. \A u \in Tasks : ~RunsOnMain(u) /\ (RunsOnMain(u)' <=> u = t)
    BY <1>1 DEF RunsOnMain
  <2> QED BY <1>4, <2>1 DEF IndInv, EachStartRunsOnce
<1> QED BY <1>5, <1>6, <1>7, <1>8, <1>9 DEF IndInv

LEMMA JoinStep ==
    ASSUME IndInv, NEW t \in Tasks, NEW c \in Calls, main.at # "body",
           JoinWithLockHeld(c, t), UNCHANGED <<canUseExtraThreads, currentTask, owed>>
    PROVE  IndInv'
<1>1. CASE state[t] = "Idle"
  <2>1. main' = Free /\ UNCHANGED <<state, cancel, worklist, asleep>>
    BY <1>1 DEF JoinWithLockHeld
  <2>2. TypeOK' /\ MainPlace' /\ HelpersRun' /\ WorklistIsDispatched' /\ OneRunner'
    BY <2>1 DEF IndInv, TypeOK, MainPlace, HelpersRun, RunsOnHelper,
                WorklistIsDispatched, OneRunner, RunsOnMain, Free, Calls, Places
  <2>3. EachStartRunsOnce'
    <3>1. \A u \in Tasks : ~RunsOnMain(u) /\ ~RunsOnMain(u)'
      BY <2>1 DEF RunsOnMain, Free
    <3> QED BY <2>1, <3>1 DEF IndInv, EachStartRunsOnce
  <2> QED BY <2>2, <2>3 DEF IndInv
<1>2. CASE state[t] = "Dispatched"
  BY <1>2, TakeBackStep DEF JoinWithLockHeld
<1>3. CASE state[t] \in {"Running", "Finishing"}
  BY <1>3, WaitStep DEF JoinWithLockHeld
<1>4. CASE state[t] = "Finished"
  BY <1>4, JoinedStep DEF JoinWithLockHeld
<1> QED BY <1>1, <1>2, <1>3, <1>4 DEF IndInv, TypeOK, States

LEMMA NextIndInv == IndInv /\ [Next]_vars => IndInv'
<1> SUFFICES ASSUME IndInv, [Next]_vars PROVE IndInv'
  OBVIOUS
<1>1. ASSUME NEW t \in Tasks, Start(t) PROVE IndInv'
  <2>1. cancel' \in [Tasks -> BOOLEAN]
    BY <1>1 DEF Start, IndInv, TypeOK
  <2> QED BY <1>1, <2>1, StartStep DEF Start, Free
<1>2. ASSUME NEW t \in Tasks, StartOrRunIfIdle(t) PROVE IndInv'
  <2> USE <1>2 DEF StartOrRunIfIdle
  <2>1. main = Free /\ main.at # "body" /\ "startOrRunIfIdle" \in Calls
    BY DEF Free, Calls
  <2>2. CASE state[t] = "Finishing"
    BY <2>1, <2>2, WaitStep
  <2>3. CASE state[t] = "Finished"
    <3>1. cancel' \in [Tasks -> BOOLEAN]
      BY <2>3 DEF IndInv, TypeOK
    <3> QED BY <2>1, <2>3, <3>1, StartStep
  <2>4. CASE state[t] = "Idle" /\ canUseExtraThreads
    <3>1. cancel' \in [Tasks -> BOOLEAN]
      BY <2>4 DEF IndInv, TypeOK
    <3> QED BY <2>1, <2>4, <3>1, StartStep
  <2>5. CASE state[t] = "Idle" /\ ~canUseExtraThreads
    BY <2>1, <2>5, RunHereStep
  <2> QED BY <2>2, <2>3, <2>4, <2>5
<1>3. ASSUME NEW t \in Tasks, Join(t) PROVE IndInv'
  BY <1>3, JoinStep DEF Join, Free, Calls
<1>4. ASSUME NEW t \in Tasks, CancelAndWait(t) PROVE IndInv'
  <2>1. TypeOK' /\ MainPlace' /\ HelpersRun' /\ WorklistIsDispatched' /\ OneRunner'
    BY <1>4 DEF CancelAndWait, IndInv, TypeOK, MainPlace, HelpersRun, RunsOnHelper,
                WorklistIsDispatched, OneRunner, RunsOnMain, Calls, Places
  <2>2. EachStartRunsOnce'
    <3>1. \A u \in Tasks : ~RunsOnMain(u) /\ ~RunsOnMain(u)'
      BY <1>4 DEF CancelAndWait, RunsOnMain, Free
    <3> QED BY <1>4, <3>1 DEF CancelAndWait, IndInv, EachStartRunsOnce
  <2> QED BY <2>1, <2>2 DEF IndInv
<1>5. ASSUME NEW t \in Tasks, RunDirectly(t) PROVE IndInv'
  BY <1>5, RunHereStep DEF RunDirectly, Free, Calls
<1>6. CASE CancelAndWaitJoin
  <2>1. main.task \in Tasks /\ main.at # "body" /\ "cancelAndWait" \in Calls
    BY <1>6 DEF CancelAndWaitJoin, IndInv, MainPlace, Calls
  <2> QED BY <1>6, <2>1, JoinStep DEF CancelAndWaitJoin
<1>7. CASE MainRunEnd
  <2> DEFINE t == main.task
  <2>1. /\ t \in Tasks /\ state[t] = "Idle" /\ main' = Free
        /\ UNCHANGED <<canUseExtraThreads, state, cancel, worklist, currentTask, asleep>>
    BY <1>7 DEF MainRunEnd, IndInv, MainPlace
  <2>2. \A u \in Tasks : (RunsOnMain(u) <=> u = t) /\ ~RunsOnMain(u)'
    BY <1>7, <2>1 DEF MainRunEnd, RunsOnMain, Free
  <2>3. owed[t] = 1
    BY <2>1, <2>2 DEF IndInv, EachStartRunsOnce
  <2>4. /\ owed' \in [Tasks -> Nat]
        /\ \A u \in Tasks : owed'[u] = IF u = t THEN 0 ELSE owed[u]
    BY <1>7, <2>1, <2>3 DEF MainRunEnd, IndInv, TypeOK
  <2>5. TypeOK' /\ MainPlace' /\ HelpersRun' /\ WorklistIsDispatched' /\ OneRunner'
    BY <2>1, <2>4 DEF IndInv, TypeOK, MainPlace, HelpersRun, RunsOnHelper,
              WorklistIsDispatched, OneRunner, RunsOnMain, Free, Calls, Places
  <2>6. EachStartRunsOnce'
    BY <2>1, <2>2, <2>4 DEF IndInv, EachStartRunsOnce
  <2> QED BY <2>5, <2>6 DEF IndInv
<1>8. CASE JoinWake
  <2> DEFINE t == main.task
  <2>1. /\ t \in Tasks /\ main.at = "wait" /\ main.call \in Calls
        /\ state[t] \in {"Running", "Finishing", "Finished"}
        /\ UNCHANGED <<canUseExtraThreads, currentTask>>
    BY <1>8 DEF JoinWake, IndInv, MainPlace, TypeOK
  <2>2. CASE state[t] # "Finished"
    <3>1. main = [call |-> main.call, at |-> "wait", task |-> t]
      BY <2>1 DEF IndInv, TypeOK
    <3>2. WaitFor(main.call, t)
      BY <1>8, <2>2, <3>1 DEF JoinWake, WaitFor
    <3> QED BY <1>8, <2>1, <2>2, <3>2, WaitStep DEF JoinWake
  <2>3. CASE state[t] = "Finished" /\ main.call = "startOrRunIfIdle"
    <3>1. cancel' \in [Tasks -> BOOLEAN] /\ StartWithLockHeld(t) /\ main' = Free
      BY <1>8, <2>1, <2>3 DEF JoinWake, IndInv, TypeOK
    <3> QED BY <2>1, <2>3, <3>1, StartStep
  <2>4. CASE state[t] = "Finished" /\ main.call # "startOrRunIfIdle"
    BY <1>8, <2>1, <2>4, JoinedStep DEF JoinWake
  <2> QED BY <2>2, <2>3, <2>4
<1>9. ASSUME NEW h \in Threads, ThreadLoopWait(h) PROVE IndInv'
  <2>1. TypeOK' /\ MainPlace' /\ HelpersRun' /\ WorklistIsDispatched' /\ OneRunner'
    BY <1>9 DEF ThreadLoopWait, IndInv, TypeOK, MainPlace, HelpersRun, RunsOnHelper,
                WorklistIsDispatched, OneRunner, RunsOnMain
  <2>2. EachStartRunsOnce'
    BY <1>9 DEF ThreadLoopWait, IndInv, EachStartRunsOnce, RunsOnMain
  <2> QED BY <2>1, <2>2 DEF IndInv
<1>10. ASSUME NEW h \in Threads, HandleGCParallelWorkload(h) PROVE IndInv'
  <2> DEFINE t == Head(worklist)
  <2>1. /\ currentTask' = [currentTask EXCEPT ![h] = t]
        /\ worklist # <<>> /\ worklist' = Tail(worklist)
        /\ state' = [state EXCEPT ![t] = "Running"]
        /\ currentTask[h] = NoTask
        /\ UNCHANGED <<canUseExtraThreads, cancel, main, asleep, owed>>
    BY <1>10 DEF HandleGCParallelWorkload, SetState
  <2>2. /\ t \in Tasks /\ worklist' \in Seq(Tasks) /\ IsInjective(worklist')
        /\ Contains(worklist, t)
        /\ \A u \in Tasks : Contains(worklist', u) <=> Contains(worklist, u) /\ u # t
    BY <2>1, ListTail DEF IndInv, TypeOK, WorklistIsDispatched
  <2>3. state[t] = "Dispatched"
    BY <2>2 DEF IndInv, WorklistIsDispatched
  <2> HIDE DEF t
  <2>4. /\ state' \in [Tasks -> States]
        /\ \A u \in Tasks : state'[u] = IF u = t THEN "Running" ELSE state[u]
        /\ currentTask' \in [Threads -> Tasks \cup {NoTask}]
        /\ \A g \in Threads : currentTask'[g] = IF g = h THEN t ELSE currentTask[g]
    BY <2>1, <2>2 DEF IndInv, TypeOK, States
  <2>5. TypeOK' /\ MainPlace'
    BY <2>1, <2>2, <2>3, <2>4 DEF IndInv, TypeOK, MainPlace
  <2>6. \A u \in Tasks : RunsOnHelper(u)' <=> RunsOnHelper(u) \/ u = t
    BY <2>1, <2>4, TasksAssumption DEF RunsOnHelper
  <2>7. HelpersRun'
    BY <2>4, <2>6 DEF IndInv, HelpersRun
  <2>8. WorklistIsDispatched'
    BY <2>2, <2>4 DEF IndInv, WorklistIsDispatched
  <2>9. ~RunsOnHelper(t) /\ ~RunsOnMain(t)
    BY <2>2, <2>3 DEF IndInv, HelpersRun, MainPlace, RunsOnMain
  <2>10. OneRunner'
    <3>1. \A g \in Threads : currentTask[g] # t
      BY <2>9 DEF RunsOnHelper
    <3>2. \A g1, g2 \in Threads :
             currentTask'[g1] = currentTask'[g2] /\ currentTask'[g1] # NoTask => g1 = g2
      BY <2>4, <3>1 DEF IndInv, OneRunner
    <3>3. \A u \in Tasks : RunsOnMain(u)' <=> RunsOnMain(u)
      BY <2>1 DEF RunsOnMain
    <3> QED BY <2>6, <2>9, <3>2, <3>3 DEF IndInv, OneRunner
  <2>11. EachStartRunsOnce'
    BY <2>1, <2>3, <2>4 DEF IndInv, EachStartRunsOnce, RunsOnMain
  <2> QED BY <2>5, <2>7, <2>8, <2>10, <2>11 DEF IndInv
<1>11. ASSUME NEW h \in Threads, SetFinishing(h) PROVE IndInv'
  <2> DEFINE t == currentTask[h]
  <2>1. /\ t \in Tasks /\ state[t] = "Running"
        /\ state' = [state EXCEPT ![t] = "Finishing"]
        /\ UNCHANGED <<canUseExtraThreads, cancel, worklist, currentTask, main, asleep, owed>>
    BY <1>11 DEF SetFinishing, SetState, IndInv, TypeOK
  <2> HIDE DEF t
  <2>2. /\ state' \in [Tasks -> States]
        /\ \A u \in Tasks : state'[u] = IF u = t THEN "Finishing" ELSE state[u]
    BY <2>1 DEF IndInv, TypeOK, States
  <2>3. TypeOK' /\ MainPlace' /\ HelpersRun' /\ WorklistIsDispatched' /\ OneRunner'
    BY <2>1, <2>2 DEF IndInv, TypeOK, MainPlace, HelpersRun, RunsOnHelper,
              WorklistIsDispatched, OneRunner, RunsOnMain
  <2>4. EachStartRunsOnce'
    BY <2>1, <2>2 DEF IndInv, EachStartRunsOnce, RunsOnMain
  <2> QED BY <2>3, <2>4 DEF IndInv
<1>12. ASSUME NEW h \in Threads, RunFromHelperThreadEnd(h) PROVE IndInv'
  <2> DEFINE t == currentTask[h]
  <2>1. /\ t \in Tasks /\ t # NoTask
        /\ state' = [state EXCEPT ![t] = "Finished"]
        /\ owed' = [owed EXCEPT ![t] = @ - 1]
        /\ currentTask' = [currentTask EXCEPT ![h] = NoTask]
        /\ asleep' = asleep \ {Main}
        /\ UNCHANGED <<canUseExtraThreads, cancel, worklist, main>>
    BY <1>12 DEF RunFromHelperThreadEnd, SetState, NotifyAllConsumer, IndInv, TypeOK
  <2>2. RunsOnHelper(t) /\ state[t] \in {"Running", "Finishing"} /\ owed[t] = 1
    BY <2>1 DEF RunsOnHelper, IndInv, HelpersRun, EachStartRunsOnce
  <2>3. /\ state' \in [Tasks -> States]
        /\ \A u \in Tasks : state'[u] = IF u = t THEN "Finished" ELSE state[u]
        /\ owed' \in [Tasks -> Nat]
        /\ \A u \in Tasks : owed'[u] = IF u = t THEN 0 ELSE owed[u]
        /\ currentTask' \in [Threads -> Tasks \cup {NoTask}]
        /\ \A g \in Threads : currentTask'[g] = IF g = h THEN NoTask ELSE currentTask[g]
    BY <2>1, <2>2 DEF IndInv, TypeOK, States
  <2>4. \A g \in Threads : currentTask[g] = t => g = h
    BY <2>1 DEF IndInv, OneRunner
  <2> HIDE DEF t
  <2>5. TypeOK' /\ MainPlace' /\ WorklistIsDispatched'
    BY <2>1, <2>2, <2>3 DEF IndInv, TypeOK, MainPlace, WorklistIsDispatched
  <2>6. \A u \in Tasks : RunsOnHelper(u)' <=> RunsOnHelper(u) /\ u # t
    BY <2>1, <2>3, <2>4, TasksAssumption DEF RunsOnHelper, t
  <2>7. HelpersRun' /\ OneRunner'
    BY <2>1, <2>3, <2>6 DEF IndInv, HelpersRun, OneRunner, RunsOnMain
  <2>8. EachStartRunsOnce'
    BY <2>1, <2>2, <2>3 DEF IndInv, EachStartRunsOnce, RunsOnMain, MainPlace
  <2> QED BY <2>5, <2>7, <2>8 DEF IndInv
<1>13. CASE SpuriousWakeup
  <2>1. TypeOK' /\ MainPlace' /\ HelpersRun' /\ WorklistIsDispatched' /\ OneRunner'
    BY <1>13 DEF SpuriousWakeup, IndInv, TypeOK, MainPlace, HelpersRun, RunsOnHelper,
                 WorklistIsDispatched, OneRunner, RunsOnMain
  <2>2. EachStartRunsOnce'
    BY <1>13 DEF SpuriousWakeup, IndInv, EachStartRunsOnce, RunsOnMain
  <2> QED BY <2>1, <2>2 DEF IndInv
<1>14. CASE UNCHANGED vars
  <2>1. TypeOK' /\ MainPlace' /\ HelpersRun' /\ WorklistIsDispatched' /\ OneRunner'
    BY <1>14 DEF vars, IndInv, TypeOK, MainPlace, HelpersRun, RunsOnHelper,
                 WorklistIsDispatched, OneRunner, RunsOnMain
  <2>2. EachStartRunsOnce'
    BY <1>14 DEF vars, IndInv, EachStartRunsOnce, RunsOnMain
  <2> QED BY <2>1, <2>2 DEF IndInv
<1> QED BY <1>1, <1>2, <1>3, <1>4, <1>5, <1>6, <1>7, <1>8, <1>9, <1>10, <1>11,
           <1>12, <1>13, <1>14 DEF Next

LEMMA InductiveInvariant == Spec => []IndInv
BY InitIndInv, NextIndInv, PTL DEF Spec

(* Every variable of the protocol keeps its type; in particular no run is
   ever completed that was not asked for (owed stays a natural number). *)
THEOREM TypeCorrect == Spec => []TypeOK
BY InductiveInvariant, PTL DEF IndInv

(* No two threads ever run the same task at the same time. *)
THEOREM OneRunnerAlways == Spec => []OneRunner
BY InductiveInvariant, PTL DEF IndInv

(* The worklist holds each dispatched task once and nothing else. *)
THEOREM WorklistAlways == Spec => []WorklistIsDispatched
BY InductiveInvariant, PTL DEF IndInv

(* Every start() is matched by exactly one run before join() returns. *)
THEOREM EachStartRunsOnceAlways == Spec => []EachStartRunsOnce
BY InductiveInvariant, PTL DEF IndInv

-----------------------------------------------------------------------------
\* The assertions of the state setters.

(* A task changes state only along the transitions the setters assert. *)
THEOREM LegalTransitionsAlways == Spec => LegalTransitions
<1> DEFINE Legal == \A t \in Tasks : state'[t] # state[t] => state[t] \in LegalFrom(state'[t])
<1>1. ASSUME IndInv, [Next]_vars PROVE [Legal]_vars
  <2> SUFFICES ASSUME Next PROVE Legal
    BY <1>1
  <2> USE <1>1 DEF IndInv, TypeOK, LegalFrom, States
  <2>1. ASSUME NEW t \in Tasks, Start(t) PROVE Legal
    BY <2>1 DEF Start, StartWithLockHeld, SetState
  <2>2. ASSUME NEW t \in Tasks, StartOrRunIfIdle(t) PROVE Legal
    BY <2>2 DEF StartOrRunIfIdle, StartWithLockHeld, SetState
  <2>3. ASSUME NEW t \in Tasks, NEW c, JoinWithLockHeld(c, t) PROVE Legal
    BY <2>3 DEF JoinWithLockHeld, CancelDispatchedTask, Joined, SetState
  <2>4. ASSUME NEW t \in Tasks, CancelAndWait(t) \/ RunDirectly(t) PROVE Legal
    BY <2>4 DEF CancelAndWait, RunDirectly
  <2>5. CASE CancelAndWaitJoin
    BY <2>5, <2>3 DEF CancelAndWaitJoin, MainPlace
  <2>6. CASE MainRunEnd \/ SpuriousWakeup
    BY <2>6 DEF MainRunEnd, SpuriousWakeup
  <2>7. CASE JoinWake
    BY <2>7 DEF JoinWake, StartWithLockHeld, Joined, SetState, MainPlace
  <2>8. ASSUME NEW h \in Threads, HandleGCParallelWorkload(h) PROVE Legal
    <3>1. Head(worklist) \in Tasks /\ Contains(worklist, Head(worklist))
      BY <2>8, ListTail DEF HandleGCParallelWorkload, WorklistIsDispatched
    <3>2. state[Head(worklist)] = "Dispatched"
      BY <3>1 DEF WorklistIsDispatched
    <3> QED BY <2>8, <3>1, <3>2 DEF HandleGCParallelWorkload, SetState
  <2>9. ASSUME NEW h \in Threads, ThreadLoopWait(h) \/ SetFinishing(h) PROVE Legal
    BY <2>9 DEF ThreadLoopWait, SetFinishing, SetState
  <2>10. ASSUME NEW h \in Threads, RunFromHelperThreadEnd(h) PROVE Legal
    <3>1. currentTask[h] \in Tasks /\ RunsOnHelper(currentTask[h])
      BY <2>10 DEF RunFromHelperThreadEnd, RunsOnHelper
    <3>2. state[currentTask[h]] \in {"Running", "Finishing"}
      BY <3>1 DEF HelpersRun
    <3> QED BY <2>10, <3>1, <3>2 DEF RunFromHelperThreadEnd, SetState
  <2> QED BY <2>1, <2>2, <2>3, <2>4, <2>5, <2>6, <2>7, <2>8, <2>9, <2>10 DEF Next, Join
<1> QED BY <1>1, InductiveInvariant, PTL DEF Spec, LegalTransitions

-----------------------------------------------------------------------------
\* Refinement of AsyncTask.

LEMMA InitRefines == Init => Async!Init
BY DEF Init, Async!Init, AsyncPhase, RunsOnMain, Free

(* Every step is one step of AsyncTask or leaves every phase alone. *)
LEMMA NextRefines ==
    ASSUME IndInv, [Next]_vars
    PROVE  [Async!Next]_[t \in Tasks |-> AsyncPhase(t)]
<1> DEFINE phase == [t \in Tasks |-> AsyncPhase(t)]
           Stutter == phase' = phase
           Goal == Async!Next \/ Stutter
<1> SUFFICES Goal
  OBVIOUS
<1> USE DEF IndInv
<1>free. main.at # "body" => Async!CallerFree
  BY DEF Async!CallerFree, AsyncPhase, RunsOnMain, TypeOK, States
<1>out. main = Free => main.at # "body"
  BY DEF Free
<1>start. ASSUME NEW t \in Tasks, main.at # "body", state[t] \in {"Idle", "Finished"},
                 StartWithLockHeld(t), main' = Free
          PROVE  Goal
  <2>1. AsyncPhase(t) \in {"idle", "done"} /\ AsyncPhase(t)' = "pending"
    BY <1>start DEF AsyncPhase, RunsOnMain, StartWithLockHeld, SetState, TypeOK, Free
  <2>2. \A u \in Tasks \ {t} : AsyncPhase(u)' = AsyncPhase(u)
    BY <1>start DEF AsyncPhase, RunsOnMain, StartWithLockHeld, SetState, TypeOK, Free
  <2>3. Async!Request(t) \/ Async!Again(t)
    BY <1>free, <1>start, <2>1, <2>2 DEF Async!Move, Async!Request, Async!Again
  <2> QED BY <2>3 DEF Async!Next
<1>here. ASSUME NEW t \in Tasks, NEW c, main.at # "body", state[t] = "Idle",
                RunFromMainThread(c, t), UNCHANGED state
         PROVE  Goal
  <2>1. AsyncPhase(t) = "idle" /\ AsyncPhase(t)' = "inline"
    BY <1>here DEF AsyncPhase, RunsOnMain, RunFromMainThread
  <2>2. \A u \in Tasks \ {t} : AsyncPhase(u)' = AsyncPhase(u)
    BY <1>here DEF AsyncPhase, RunsOnMain, RunFromMainThread
  <2>3. Async!RunInline(t)
    BY <1>free, <1>here, <2>1, <2>2 DEF Async!Move, Async!RunInline
  <2> QED BY <2>3 DEF Async!Next
<1>joined. ASSUME NEW t \in Tasks, main.at # "body", state[t] = "Finished",
                  Joined(t), main' = Free
           PROVE  Goal
  <2>1. AsyncPhase(t) = "done" /\ AsyncPhase(t)' = "idle"
    BY <1>joined DEF AsyncPhase, RunsOnMain, Joined, SetState, TypeOK, Free
  <2>2. \A u \in Tasks \ {t} : AsyncPhase(u)' = AsyncPhase(u)
    BY <1>joined DEF AsyncPhase, RunsOnMain, Joined, SetState, TypeOK, Free
  <2>3. Async!Collect(t)
    BY <1>free, <1>joined, <2>1, <2>2 DEF Async!Move, Async!Collect
  <2> QED BY <2>3 DEF Async!Next
<1>quiet. ASSUME main.at # "body", main'.at # "body", UNCHANGED state
          PROVE  Goal
  <2>1. \A u \in Tasks : AsyncPhase(u)' = AsyncPhase(u)
    BY <1>quiet DEF AsyncPhase, RunsOnMain
  <2> QED BY <2>1
<1>join. ASSUME NEW t \in Tasks, NEW c, main.at # "body", JoinWithLockHeld(c, t)
         PROVE  Goal
  <2>1. CASE state[t] = "Idle"
    BY <1>join, <2>1, <1>quiet DEF JoinWithLockHeld, Free
  <2>2. CASE state[t] = "Dispatched"
    <3>1. /\ state' = [state EXCEPT ![t] = "Idle"]
          /\ main' = [call |-> c, at |-> "body", task |-> t]
      BY <1>join, <2>2 DEF JoinWithLockHeld, CancelDispatchedTask, SetState, RunFromMainThread
    <3>2. AsyncPhase(t) = "pending" /\ AsyncPhase(t)' = "inline"
      BY <1>join, <2>2, <3>1 DEF AsyncPhase, RunsOnMain
    <3>3. \A u \in Tasks \ {t} : AsyncPhase(u)' = AsyncPhase(u)
      BY <1>join, <3>1 DEF AsyncPhase, RunsOnMain, TypeOK
    <3>4. Async!TakeBack(t)
      BY <1>free, <1>join, <3>2, <3>3 DEF Async!Move, Async!TakeBack
    <3> QED BY <3>4 DEF Async!Next
  <2>3. CASE state[t] \in {"Running", "Finishing"}
    BY <1>join, <2>3, <1>quiet DEF JoinWithLockHeld, WaitFor
  <2>4. CASE state[t] = "Finished"
    BY <1>join, <2>4, <1>joined DEF JoinWithLockHeld
  <2> QED BY <2>1, <2>2, <2>3, <2>4 DEF TypeOK, States
<1>1. ASSUME NEW t \in Tasks, Start(t) PROVE Goal
  BY <1>1, <1>out, <1>start DEF Start
<1>2. ASSUME NEW t \in Tasks, StartOrRunIfIdle(t) PROVE Goal
  <2>1. CASE state[t] = "Finishing"
    BY <1>2, <2>1, <1>out, <1>quiet DEF StartOrRunIfIdle, WaitFor
  <2>2. CASE state[t] = "Finished" \/ (state[t] = "Idle" /\ canUseExtraThreads)
    BY <1>2, <2>2, <1>out, <1>start DEF StartOrRunIfIdle
  <2>3. CASE state[t] = "Idle" /\ ~canUseExtraThreads
    BY <1>2, <2>3, <1>out, <1>here DEF StartOrRunIfIdle
  <2> QED BY <1>2, <2>1, <2>2, <2>3 DEF StartOrRunIfIdle
<1>3. ASSUME NEW t \in Tasks, Join(t) PROVE Goal
  BY <1>3, <1>out, <1>join DEF Join
<1>4. ASSUME NEW t \in Tasks, CancelAndWait(t) PROVE Goal
  BY <1>4, <1>out, <1>quiet DEF CancelAndWait
<1>5. ASSUME NEW t \in Tasks, RunDirectly(t) PROVE Goal
  BY <1>5, <1>out, <1>here DEF RunDirectly
<1>6. CASE CancelAndWaitJoin
  BY <1>6, <1>join DEF CancelAndWaitJoin, MainPlace
<1>7. CASE MainRunEnd
  <2>1. PICK t \in Tasks : t = main.task
    BY <1>7 DEF MainRunEnd, MainPlace
  <2>2. AsyncPhase(t) = "inline" /\ AsyncPhase(t)' = "idle"
    BY <1>7, <2>1 DEF MainRunEnd, MainPlace, AsyncPhase, RunsOnMain, Free
  <2>3. \A u \in Tasks \ {t} : AsyncPhase(u)' = AsyncPhase(u)
    BY <1>7, <2>1 DEF MainRunEnd, AsyncPhase, RunsOnMain, Free
  <2>4. Async!Return(t)
    BY <2>2, <2>3 DEF Async!Move, Async!Return
  <2> QED BY <2>4 DEF Async!Next
<1>8. CASE JoinWake
  <2> DEFINE t == main.task
  <2>1. t \in Tasks /\ main.at = "wait"
    BY <1>8 DEF JoinWake, MainPlace
  <2>2. CASE state[t] # "Finished"
    BY <1>8, <2>1, <2>2, <1>quiet DEF JoinWake
  <2>3. CASE state[t] = "Finished" /\ main.call = "startOrRunIfIdle"
    BY <1>8, <2>1, <2>3, <1>start DEF JoinWake
  <2>4. CASE state[t] = "Finished" /\ main.call # "startOrRunIfIdle"
    BY <1>8, <2>1, <2>4, <1>joined DEF JoinWake
  <2> QED BY <2>2, <2>3, <2>4
<1>9. CASE (\E h \in Threads : ThreadLoopWait(h)) \/ SpuriousWakeup \/ UNCHANGED vars
  <2>1. \A u \in Tasks : AsyncPhase(u)' = AsyncPhase(u)
    BY <1>9 DEF ThreadLoopWait, SpuriousWakeup, vars, AsyncPhase, RunsOnMain
  <2> QED BY <2>1
<1>10. ASSUME NEW h \in Threads, HandleGCParallelWorkload(h) PROVE Goal
  <2>1. PICK t \in Tasks : t = Head(worklist) /\ Contains(worklist, t)
    BY <1>10, ListTail DEF HandleGCParallelWorkload, TypeOK, WorklistIsDispatched
  <2>2. state[t] = "Dispatched"
    BY <2>1 DEF WorklistIsDispatched
  <2>3. state' = [state EXCEPT ![t] = "Running"] /\ UNCHANGED main
    BY <1>10, <2>1 DEF HandleGCParallelWorkload, SetState
  <2>4. AsyncPhase(t) = "pending" /\ AsyncPhase(t)' = "running"
    BY <2>2, <2>3 DEF AsyncPhase, RunsOnMain, MainPlace, TypeOK
  <2>5. \A u \in Tasks \ {t} : AsyncPhase(u)' = AsyncPhase(u)
    BY <2>3 DEF AsyncPhase, RunsOnMain, TypeOK
  <2>6. Async!Begin(t)
    BY <2>4, <2>5 DEF Async!Move, Async!Begin
  <2> QED BY <2>6 DEF Async!Next
<1>11. ASSUME NEW h \in Threads, SetFinishing(h) PROVE Goal
  <2>1. \A u \in Tasks : AsyncPhase(u)' = AsyncPhase(u)
    BY <1>11 DEF SetFinishing, SetState, AsyncPhase, RunsOnMain, TypeOK
  <2> QED BY <2>1
<1>12. ASSUME NEW h \in Threads, RunFromHelperThreadEnd(h) PROVE Goal
  <2>1. PICK t \in Tasks : t = currentTask[h]
    BY <1>12 DEF RunFromHelperThreadEnd, TypeOK
  <2>2. state' = [state EXCEPT ![t] = "Finished"] /\ UNCHANGED main
    BY <1>12, <2>1 DEF RunFromHelperThreadEnd, SetState
  <2>3. state[t] \in {"Running", "Finishing"}
    BY <2>1 DEF HelpersRun, RunsOnHelper
  <2>4. AsyncPhase(t) = "running" /\ AsyncPhase(t)' = "done"
    BY <2>2, <2>3 DEF AsyncPhase, RunsOnMain, MainPlace, TypeOK
  <2>5. \A u \in Tasks \ {t} : AsyncPhase(u)' = AsyncPhase(u)
    BY <2>2 DEF AsyncPhase, RunsOnMain, TypeOK
  <2>6. Async!End(t)
    BY <2>4, <2>5 DEF Async!Move, Async!End
  <2> QED BY <2>6 DEF Async!Next
<1> QED BY <1>1, <1>2, <1>3, <1>4, <1>5, <1>6, <1>7, <1>8, <1>9, <1>10, <1>11,
           <1>12 DEF Next

(* The detailed protocol implements the safety part of AsyncTask. *)
THEOREM Refinement == Spec => SimulatesAsyncTask
<1>1. Init => Async!Init
  BY InitRefines
<1>2. IndInv /\ [Next]_vars => [Async!Next]_[t \in Tasks |-> AsyncPhase(t)]
  BY NextRefines
<1> QED BY <1>1, <1>2, InductiveInvariant, PTL DEF Spec, SimulatesAsyncTask, Async!SafeSpec

=============================================================================
