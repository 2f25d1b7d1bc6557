-------------------------------- MODULE Futex --------------------------------
(***************************************************************************)
(* Atomics.wait and Atomics.notify (builtin/AtomicsObject.{h,cpp}): agents *)
(* that sleep on the words of one SharedArrayRawBuffer, with timeouts,     *)
(* spurious wake-ups, and urgent interrupts (JSContext::requestInterrupt,  *)
(* vm/Runtime.cpp) whose handler runs script while the wait is suspended.  *)
(*                                                                         *)
(* The futex lock protects everything here, so a critical section is one   *)
(* action, split where the lock is dropped: to sleep, to run the interrupt *)
(* handler, and to report an error.                                        *)
(***************************************************************************)
EXTENDS Integers, Sequences, FiniteSets, SequencesExt

CONSTANTS Agents,       \* JSContexts, one per thread
          Offsets,      \* byte offsets waited on
          Values,       \* values of the shared words
          Interruptible,  \* agents that other threads request interrupts of
          MaxDepth,     \* bound on nested waits of one agent
          HandlersWait  \* agents whose interrupt handlers call Atomics.wait

ASSUME FutexAssumption ==
    MaxDepth \in Nat \ {0} /\ HandlersWait \subseteq Agents /\ Interruptible \subseteq Agents

VARIABLES
    value,     \* the shared words
    waiters,   \* SharedArrayRawBuffer::waiters_, from the head of the list
    state,     \* FutexThread::state_
    calls,     \* the activations of wait() on each agent's stack
    urgent,    \* interruptBits_ has CallbackUrgent
    requests,  \* requestInterrupt() calls that have set the bit and not yet
               \* taken the futex lock
    arrived,   \* history: the suspended waits in the order they began
    credit,    \* history: wake-ups counted by notify() and not yet returned
    wokenAt,   \* history: the location notified, for an agent in state Woken
    unsaid     \* history: locations stored to and not notified since

hist == <<arrived, credit, wokenAt, unsaid>>
vars == <<value, waiters, state, calls, urgent, requests, hist>>

States == {"Idle", "Waiting", "WaitingNotifiedForInterrupt", "WaitingInterrupted",
           "Woken"}

(***************************************************************************)
(* Where an activation of wait() is: asleep on cond_; awake, about to take *)
(* the lock again; about to call handleInterrupt(); in the handler; or     *)
(* reporting that waiting is not allowed.                                  *)
(***************************************************************************)
Places == {"asleep", "awake", "interrupted", "handler", "error"}

Waiter == [cx : Agents, off : Offsets, depth : 1..MaxDepth]
\* A wait without a timeout, with one to come, and with one that has passed.
Limits == {"none", "coming", "passed"}
Call == [off : Offsets, val : Values, limit : Limits, at : Places]

TypeOK ==
    /\ value \in [Offsets -> Values]
    /\ waiters \in Seq(Waiter)
    /\ state \in [Agents -> States]
    /\ calls \in [Agents -> Seq(Call)]
    /\ \A c \in Agents : Len(calls[c]) <= MaxDepth
    /\ urgent \in [Agents -> BOOLEAN]
    /\ requests \subseteq Agents
    /\ arrived \in Seq(Waiter)
    /\ credit \in [Agents -> Nat]
    /\ wokenAt \in [Agents -> Offsets \cup {"none"}]
    /\ unsaid \subseteq Offsets

Init ==
    /\ value \in [Offsets -> Values]
    /\ waiters = <<>>
    /\ state = [c \in Agents |-> "Idle"]
    /\ calls = [c \in Agents |-> <<>>]
    /\ urgent = [c \in Agents |-> FALSE]
    /\ requests = {}
    /\ arrived = <<>>
    /\ credit = [c \in Agents |-> 0]
    /\ wokenAt = [c \in Agents |-> "none"]
    /\ unsaid = {}

-----------------------------------------------------------------------------
InWait(c) == calls[c] # <<>>
Top(c) == Last(calls[c])
At(c) == IF InWait(c) THEN Top(c).at ELSE "script"
RunsScript(c) == At(c) \in {"script", "handler"}

IsWaiting(c) ==
    state[c] \in {"Waiting", "WaitingInterrupted", "WaitingNotifiedForInterrupt"}

\* The innermost wait of c as an element of the waiter list.
WaiterOf(c) == [cx |-> c, off |-> Top(c).off, depth |-> Len(calls[c])]

SetState(c, s) == state' = [state EXCEPT ![c] = s]
GoTo(c, p) == calls' = [calls EXCEPT ![c][Len(calls[c])].at = p]

\* cond_->notify_all(): only the agent itself sleeps on its cond_.
WakeAll(S) == calls' = [c \in Agents |->
    IF c \in S /\ At(c) = "asleep"
    THEN [calls[c] EXCEPT ![Len(calls[c])].at = "awake"] ELSE calls[c]]

\* AtomicsWait() unlinks the waiter when wait() returns.
Unlink(c) == /\ waiters' = RemoveFirst(waiters, WaiterOf(c))
             /\ arrived' = RemoveFirst(arrived, WaiterOf(c))

\* wait() returns; its scope exit sets state_ to Idle.  notified tells whether
\* the wake-up that notify() counted is answered by this return.
Return(c, notified) ==
    /\ SetState(c, "Idle")
    /\ calls' = [calls EXCEPT ![c] = Front(@)]
    /\ Unlink(c)
    /\ credit' = [credit EXCEPT ![c] = IF notified THEN @ - 1 ELSE @]
    /\ wokenAt' = [wokenAt EXCEPT ![c] = "none"]
    /\ UNCHANGED unsaid

SleepAgain(c) == SetState(c, "Waiting") /\ GoTo(c, "asleep") /\ UNCHANGED <<waiters, hist>>

-----------------------------------------------------------------------------
\* What script does to shared memory.
Store(c, o, v) ==
    /\ RunsScript(c)
    /\ value[o] # v
    /\ value' = [value EXCEPT ![o] = v]
    /\ unsaid' = unsaid \cup {o}
    /\ UNCHANGED <<waiters, state, calls, urgent, requests, arrived, credit, wokenAt>>

\* Variant: the value is compared before the lock is taken, and may be stale.
WaitUnchecked(c, o, v, limit) ==
    /\ At(c) = "script" \/ (At(c) = "handler" /\ c \in HandlersWait)
    /\ Len(calls[c]) < MaxDepth
    /\ LET w == [cx |-> c, off |-> o, depth |-> Len(calls[c]) + 1]
           call == [off |-> o, val |-> v, limit |-> limit, at |-> "asleep"]
       IN /\ waiters' = Append(waiters, w)
          /\ arrived' = Append(arrived, w)
          /\ calls' = [calls EXCEPT ![c] = Append(@, call)]
          /\ SetState(c, "Waiting")
    /\ UNCHANGED <<value, urgent, requests, credit, wokenAt, unsaid>>

\* Variant: a new waiter is linked in at the head of the list.
WaitAtHead(c, o, v, limit) ==
    /\ At(c) = "script"
    /\ value[o] = v
    /\ LET w == [cx |-> c, off |-> o, depth |-> 1]
           call == [off |-> o, val |-> v, limit |-> limit, at |-> "asleep"]
       IN /\ waiters' = <<w>> \o waiters
          /\ arrived' = Append(arrived, w)
          /\ calls' = [calls EXCEPT ![c] = Append(@, call)]
          /\ SetState(c, "Waiting")
    /\ UNCHANGED <<value, urgent, requests, credit, wokenAt, unsaid>>

(***************************************************************************)
(* AtomicsWait() and FutexThread::wait() up to the first unlock.  With the *)
(* value unequal the call returns and changes nothing.  A nested call that *)
(* finds its agent in an interrupt handler only reports an error.          *)
(***************************************************************************)
Wait(c, o, v, limit) ==
    /\ At(c) = "script" \/ (At(c) = "handler" /\ c \in HandlersWait)
    /\ Len(calls[c]) < MaxDepth
    /\ value[o] = v
    /\ LET w == [cx |-> c, off |-> o, depth |-> Len(calls[c]) + 1]
           refuse == state[c] = "WaitingInterrupted"
           call == [off |-> o, val |-> v, limit |-> limit,
                    at |-> IF refuse THEN "error" ELSE "asleep"]
       IN /\ waiters' = Append(waiters, w)
          /\ arrived' = Append(arrived, w)
          /\ calls' = [calls EXCEPT ![c] = Append(@, call)]
          /\ state' = IF refuse THEN state ELSE [state EXCEPT ![c] = "Waiting"]
    /\ UNCHANGED <<value, urgent, requests, credit, wokenAt, unsaid>>

\* Variant: the error return leaves the waiter on the list.
WaitRefusedLinked(c) ==
    /\ At(c) = "error"
    /\ calls' = [calls EXCEPT ![c] = Front(@)]
    /\ UNCHANGED <<value, waiters, state, urgent, requests, hist>>

\* The error has been reported: wait() returns before its scope exit is set up.
WaitRefused(c) ==
    /\ At(c) = "error"
    /\ calls' = [calls EXCEPT ![c] = Front(@)]
    /\ Unlink(c)
    /\ UNCHANGED <<value, state, urgent, requests, credit, wokenAt, unsaid>>

\* The time given by the caller, finalEnd, passes.
Deadline(c) ==
    /\ InWait(c)
    /\ Top(c).limit = "coming"
    /\ calls' = [calls EXCEPT ![c][Len(calls[c])].limit = "passed"]
    /\ UNCHANGED <<value, waiters, state, urgent, requests, hist>>

\* wait_until() reaches the end of its slice, or the condition variable wakes
\* spuriously.
CondWakes(c) ==
    /\ At(c) = "asleep"
    /\ GoTo(c, "awake")
    /\ UNCHANGED <<value, waiters, state, urgent, requests, hist>>

\* Variant: the deadline is looked at before state_.
ResumeDeadlineFirst(c) ==
    /\ At(c) = "awake"
    /\ \/ Top(c).limit = "passed" /\ Return(c, FALSE)
       \/ /\ Top(c).limit # "passed"
          /\ \/ state[c] = "Waiting" /\ SleepAgain(c)
             \/ state[c] = "Woken" /\ Return(c, TRUE)
    /\ UNCHANGED <<value, urgent, requests>>

\* Variant: the wait is taken up again although its time has passed.
ResumeNoDeadline(c) ==
    /\ At(c) = "awake"
    /\ \/ state[c] = "Waiting" /\ SleepAgain(c)
       \/ state[c] = "Woken" /\ Return(c, TRUE)
       \/ /\ state[c] = "WaitingNotifiedForInterrupt"
          /\ SetState(c, "WaitingInterrupted")
          /\ GoTo(c, "interrupted")
          /\ UNCHANGED <<waiters, hist>>
    /\ UNCHANGED <<value, urgent, requests>>

\* The switch on state_ after the condition wait.
Resume(c) ==
    /\ At(c) = "awake"
    /\ \/ /\ state[c] = "Waiting"
          /\ \/ Top(c).limit = "passed" /\ Return(c, FALSE)
             \/ Top(c).limit # "passed" /\ SleepAgain(c)
       \/ /\ state[c] = "Woken"
          /\ Return(c, TRUE)
       \/ /\ state[c] = "WaitingNotifiedForInterrupt"
          /\ SetState(c, "WaitingInterrupted")
          /\ GoTo(c, "interrupted")
          /\ UNCHANGED <<waiters, hist>>
    /\ UNCHANGED <<value, urgent, requests>>

\* handleInterrupt() clears the bits and calls the callbacks, which may run
\* script.
HandleInterrupt(c) ==
    /\ At(c) = "interrupted"
    /\ urgent[c]
    /\ urgent' = [urgent EXCEPT ![c] = FALSE]
    /\ GoTo(c, "handler")
    /\ UNCHANGED <<value, waiters, state, requests, hist>>

\* Variant: a handler that succeeds ends the wait.
HandlerEndReturns(c, ok) ==
    /\ At(c) = "handler" \/ (At(c) = "interrupted" /\ ~urgent[c] /\ ok)
    /\ Return(c, ok)
    /\ UNCHANGED <<value, urgent, requests>>

\* The lock is taken again after handleInterrupt(), which has nothing to do
\* when the bit was already cleared by an earlier poll.
HandlerEnd(c, ok) ==
    /\ At(c) = "handler" \/ (At(c) = "interrupted" /\ ~urgent[c] /\ ok)
    /\ \/ ~ok /\ Return(c, state[c] = "Woken")
       \/ ok /\ state[c] = "Woken" /\ Return(c, TRUE)
       \/ ok /\ state[c] # "Woken" /\ SleepAgain(c)
    /\ UNCHANGED <<value, urgent, requests>>

-----------------------------------------------------------------------------
(***************************************************************************)
(* atomics_notify_impl(): walks the list from its head, skipping waits on  *)
(* other offsets and agents that are no longer waiting, until count agents *)
(* have been notified; a negative count stands for all of them.            *)
(***************************************************************************)
Eligible(o) ==
    {i \in 1..Len(waiters) :
        /\ waiters[i].off = o
        /\ IsWaiting(waiters[i].cx)
        /\ \A j \in 1..(i - 1) : ~(waiters[j].off = o /\ waiters[j].cx = waiters[i].cx)}

Notified(o, count) ==
    {waiters[i].cx : i \in {k \in Eligible(o) :
        count > 0 => Cardinality({j \in Eligible(o) : j < k}) < count}}

\* The history of counted wake-ups saturates here, above what it may reach.
MaxCredit == 2

\* Variant: state_ is changed and cond_ is not signalled.
NotifySilently(c, o, count) ==
    /\ RunsScript(c)
    /\ LET S == Notified(o, count) IN
       /\ state' = [a \in Agents |-> IF a \in S THEN "Woken" ELSE state[a]]
       /\ credit' = [a \in Agents |-> IF a \in S THEN credit[a] + 1 ELSE credit[a]]
       /\ wokenAt' = [a \in Agents |-> IF a \in S THEN o ELSE wokenAt[a]]
    /\ unsaid' = IF count < 0 THEN unsaid \ {o} ELSE unsaid
    /\ UNCHANGED <<value, waiters, calls, urgent, requests, arrived>>

\* FutexThread::notify(NotifyExplicit) of each: it signals cond_ only in
\* state Waiting, since otherwise that has been done or nobody sleeps.
Notify(c, o, count) ==
    /\ RunsScript(c)
    /\ LET S == Notified(o, count) IN
       /\ state' = [a \in Agents |-> IF a \in S THEN "Woken" ELSE state[a]]
       /\ WakeAll({a \in S : state[a] = "Waiting"})
       /\ credit' = [a \in Agents |-> IF a \in S THEN Min({credit[a] + 1, MaxCredit}) ELSE credit[a]]
       /\ wokenAt' = [a \in Agents |-> IF a \in S THEN o ELSE wokenAt[a]]
    /\ unsaid' = IF count < 0 THEN unsaid \ {o} ELSE unsaid
    /\ UNCHANGED <<value, waiters, urgent, requests, arrived>>

\* requestInterrupt(CallbackUrgent) on another thread, first part.
RequestInterrupt(c) ==
    /\ c \in Interruptible \ requests
    /\ urgent' = [urgent EXCEPT ![c] = TRUE]
    /\ requests' = requests \cup {c}
    /\ UNCHANGED <<value, waiters, state, calls, hist>>

\* Second part, under the futex lock: notify(NotifyForJSInterrupt) if isWaiting().
NotifyForJSInterrupt(c) ==
    /\ c \in requests
    /\ requests' = requests \ {c}
    /\ \/ /\ state[c] \in {"Waiting", "WaitingInterrupted"}
          /\ SetState(c, "WaitingNotifiedForInterrupt")
          /\ WakeAll({c})
       \/ /\ state[c] \notin {"Waiting", "WaitingInterrupted"}
          /\ UNCHANGED <<state, calls>>
    /\ UNCHANGED <<value, waiters, urgent, hist>>

\* Running script polls the interrupt bits.
CheckForInterrupt(c) ==
    /\ RunsScript(c)
    /\ urgent[c]
    /\ urgent' = [urgent EXCEPT ![c] = FALSE]
    /\ UNCHANGED <<value, waiters, state, calls, requests, hist>>

-----------------------------------------------------------------------------
Next ==
    \E c \in Agents :
        \/ \E o \in Offsets, v \in Values :
              \/ Store(c, o, v)
              \/ \E limit \in {"none", "coming"} : Wait(c, o, v, limit)
        \/ \E o \in Offsets, count \in {1, -1} : Notify(c, o, count)
        \/ WaitRefused(c) \/ Deadline(c) \/ CondWakes(c) \/ Resume(c)
        \/ HandleInterrupt(c) \/ \E ok \in BOOLEAN : HandlerEnd(c, ok)
        \/ RequestInterrupt(c) \/ NotifyForJSInterrupt(c) \/ CheckForInterrupt(c)

(***************************************************************************)
(* Threads that can run do, interrupt handlers return, time passes, and a  *)
(* wait_until() whose time has passed returns.  A thread is in one place at*)
(* a time, so one condition per agent is enough for what it does itself.   *)
(***************************************************************************)
Proceeds(c) ==
    \/ Resume(c) \/ HandleInterrupt(c) \/ WaitRefused(c)
    \/ \E ok \in BOOLEAN : HandlerEnd(c, ok)
    \/ CondWakes(c) /\ Top(c).limit = "passed"

Fairness ==
    \A c \in Agents : /\ WF_vars(Proceeds(c))
                      /\ WF_vars(NotifyForJSInterrupt(c))
                      /\ WF_vars(Deadline(c))

Spec == Init /\ [][Next]_vars /\ Fairness

-----------------------------------------------------------------------------
\* Safety.

(***************************************************************************)
(* The waiter list of the buffer holds exactly one entry for every wait in *)
(* progress, and an agent with no wait in progress is Idle, so that        *)
(* atomics_notify_impl() neither misses a waiter nor follows a link into a *)
(* stack frame that is gone.                                               *)
(***************************************************************************)
ListMatchesCalls ==
    /\ \A c \in Agents : ~InWait(c) => state[c] = "Idle"
    /\ IsInjective(waiters)
    /\ ToSet(waiters) = UNION {{[cx |-> c, off |-> calls[c][d].off, depth |-> d] :
                                    d \in 1..Len(calls[c])} : c \in Agents}

(***************************************************************************)
(* The count that atomics_notify_impl() returns is exact: every wait that  *)
(* it counted ends by that, once, even if its timeout passed or an         *)
(* interrupt arrived in between; no wait returns OK that no notify()       *)
(* counted; and the wait that ends is on the location that was notified    *)
(* ("wait() will not wake up spuriously").  An interrupt handler that waits*)
(* itself breaks this for its own agent, and only for that one.            *)
(***************************************************************************)
NotifyIsExact ==
    \A c \in Agents \ HandlersWait :
        /\ credit[c] = IF state[c] = "Woken" THEN 1 ELSE 0
        /\ state[c] = "Woken" /\ At(c) \in {"awake", "handler"}
             => Top(c).off = wokenAt[c]

(***************************************************************************)
(* No lost wake-up: an agent that still waits for a word to change which   *)
(* has changed, has not missed the Atomics.notify() that follows the store;*)
(* whatever moved an agent asleep on cond_ out of state Waiting has        *)
(* signalled cond_; and the switch of FutexThread::wait() never meets a    *)
(* state_ it does not know ("Bad FutexState in wait()").                   *)
(***************************************************************************)
NoLostNotify ==
    \A c \in Agents \ HandlersWait :
        /\ IsWaiting(c) /\ value[Top(c).off] # Top(c).val => Top(c).off \in unsaid
        /\ At(c) = "asleep" => state[c] = "Waiting"
        /\ At(c) = "awake" => state[c] \in {"Waiting", "Woken", "WaitingNotifiedForInterrupt"}

(***************************************************************************)
(* notify() wakes the agents waiting on a location in the order in which   *)
(* they began to wait, interrupted waits included.  An agent whose handlers*)
(* wait may be woken by its inner wait, on another location.               *)
(***************************************************************************)
Fifo ==
    [][\A i, j \in 1..Len(arrived) :
        /\ arrived[j].cx \notin HandlersWait
        /\ i < j /\ arrived[i].off = arrived[j].off
        /\ IsWaiting(arrived[i].cx)
        /\ IsWaiting(arrived[j].cx) /\ state'[arrived[j].cx] = "Woken"
        => state'[arrived[i].cx] = "Woken"]_vars

-----------------------------------------------------------------------------
\* Liveness.

(***************************************************************************)
(* A wait that notify() counted returns, even if the notification came     *)
(* while its agent was being interrupted or was in the interrupt handler,  *)
(* unless the handler itself goes to sleep.                                *)
(***************************************************************************)
WokenReturns == \A c \in Agents \ HandlersWait : state[c] = "Woken" ~> state[c] = "Idle"

(***************************************************************************)
(* A wait with a timeout returns, through any number of slices, spurious   *)
(* wake-ups and interrupts, once no more interrupts are requested, unless  *)
(* an interrupt handler itself goes to sleep.                              *)
(***************************************************************************)
TimedWaitReturns ==
    \A c \in Agents \ HandlersWait :
        <>[](c \notin requests) =>
            (InWait(c) /\ Top(c).limit # "none" ~> ~InWait(c))

=============================================================================
