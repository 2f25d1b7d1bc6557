----------------------------- MODULE Futex_proofs -----------------------------
(***************************************************************************)
(* Proofs about Futex, for any number of agents, locations and nested      *)
(* waits.                                                                  *)
(***************************************************************************)
EXTENDS Futex, FiniteSetTheorems, ListTheorems, TLAPS

-----------------------------------------------------------------------------
\* The inductive invariant.

\* The wait that an entry of the list stands for is in progress.
Linked(w) == /\ w.depth \in 1..Len(calls[w.cx])
             /\ calls[w.cx][w.depth].off = w.off

ListHolds ==
    /\ arrived = waiters
    /\ IsInjective(waiters)
    /\ \A w \in Waiter : Contains(waiters, w) <=> Linked(w)

\* Only an interrupt handler has a wait inside a wait, and a refused wait is
\* inside one.
NestingHolds ==
    /\ \A c \in Agents : \A d \in 1..Len(calls[c]) :
          d < Len(calls[c]) => calls[c][d].at = "handler"
    /\ \A c \in Agents : At(c) = "error" => Len(calls[c]) > 1
    /\ \A c \in Agents \ HandlersWait : Len(calls[c]) <= 1
    /\ \A c \in Agents : ~InWait(c) => state[c] = "Idle"

\* state_ of an agent whose handlers do not wait says where its wait is.
StateHolds(c) ==
    /\ At(c) = "asleep" => state[c] = "Waiting"
    /\ At(c) = "awake" => state[c] \in {"Waiting", "Woken", "WaitingNotifiedForInterrupt"}
    /\ At(c) \in {"interrupted", "handler"} =>
          state[c] \in {"WaitingInterrupted", "WaitingNotifiedForInterrupt", "Woken"}

CreditHolds ==
    /\ \A c \in Agents : state[c] = "Woken" => credit[c] >= 1
    /\ \A c \in Agents \ HandlersWait :
          /\ state[c] = "Woken" => credit[c] = 1 /\ Top(c).off = wokenAt[c]
          /\ state[c] # "Woken" => credit[c] = 0

ValueHolds ==
    \A c \in Agents \ HandlersWait :
        IsWaiting(c) /\ value[Top(c).off] # Top(c).val => Top(c).off \in unsaid

IndInv == /\ TypeOK /\ ListHolds /\ NestingHolds
          /\ \A c \in Agents \ HandlersWait : StateHolds(c)
          /\ CreditHolds /\ ValueHolds


-----------------------------------------------------------------------------
\* The activations of wait().

(* The innermost wait of an agent, and its entry in the list. *)
LEMMA Innermost ==
    ASSUME TypeOK, NEW c \in Agents
    PROVE  /\ calls[c] \in Seq(Call) /\ Len(calls[c]) \in Nat /\ Len(calls[c]) <= MaxDepth
           /\ InWait(c) <=> Len(calls[c]) > 0
           /\ InWait(c) => /\ Len(calls[c]) \in 1..Len(calls[c])
                           /\ Top(c) = calls[c][Len(calls[c])] /\ Top(c) \in Call
                           /\ At(c) = Top(c).at /\ At(c) \in Places
                           /\ Top(c).off \in Offsets /\ WaiterOf(c) \in Waiter
           /\ ~InWait(c) => At(c) = "script"
<1>1. calls[c] \in Seq(Call) /\ Len(calls[c]) \in Nat /\ Len(calls[c]) <= MaxDepth
  BY DEF TypeOK
<1>2. InWait(c) <=> Len(calls[c]) > 0
  BY <1>1 DEF InWait
<1>3. ASSUME InWait(c)
      PROVE  /\ Len(calls[c]) \in 1..Len(calls[c])
             /\ Top(c) = calls[c][Len(calls[c])] /\ Top(c) \in Call
             /\ At(c) = Top(c).at /\ At(c) \in Places
             /\ Top(c).off \in Offsets /\ WaiterOf(c) \in Waiter
  <2>1. Len(calls[c]) \in 1..Len(calls[c]) /\ Len(calls[c]) \in 1..MaxDepth
    BY <1>1, <1>2, <1>3, FutexAssumption
  <2>2. Top(c) = calls[c][Len(calls[c])] /\ Top(c) \in Call
    BY <1>1, <2>1 DEF Top, Last
  <2>3. Top(c).at \in Places /\ Top(c).off \in Offsets
    BY <2>2 DEF Call
  <2> QED BY <1>3, <2>1, <2>2, <2>3 DEF At, WaiterOf, Waiter
<1> QED BY <1>1, <1>2, <1>3 DEF At

\* No wait begins or ends, and only where an innermost one is, or its time,
\* changes.
Kept ==
    /\ calls' \in [Agents -> Seq(Call)]
    /\ \A c \in Agents : Len(calls'[c]) = Len(calls[c])
    /\ \A c \in Agents : \A d \in 1..Len(calls[c]) :
          /\ calls'[c][d].off = calls[c][d].off
          /\ calls'[c][d].val = calls[c][d].val
          /\ d < Len(calls[c]) => calls'[c][d].at = calls[c][d].at

(* Such a step keeps the list and the nesting. *)
LEMMA KeptFacts ==
    ASSUME TypeOK, ListHolds, NestingHolds, Kept, UNCHANGED <<waiters, arrived>>,
           \A c \in Agents : At(c)' = "error" => At(c) = "error",
           \A c \in Agents : ~InWait(c) => state'[c] = "Idle"
    PROVE  /\ ListHolds' /\ NestingHolds'
           /\ \A c \in Agents : InWait(c)' <=> InWait(c)
           /\ \A c \in Agents : InWait(c) => /\ (Top(c).off)' = Top(c).off
                                             /\ (Top(c).val)' = Top(c).val
           /\ \A c \in Agents : Len(calls'[c]) <= MaxDepth
<1>1. \A c \in Agents : /\ calls'[c] \in Seq(Call) /\ Len(calls'[c]) = Len(calls[c])
                        /\ Len(calls[c]) \in Nat /\ Len(calls[c]) <= MaxDepth
  BY DEF Kept, TypeOK
<1>2. \A c \in Agents : InWait(c)' <=> InWait(c)
  BY <1>1 DEF InWait, TypeOK
<1>3. \A c \in Agents : InWait(c) => /\ (Top(c).off)' = Top(c).off
                                     /\ (Top(c).val)' = Top(c).val
  BY <1>1, Innermost DEF Top, Last, Kept
<1>4. ListHolds'
  <2>1. ASSUME NEW w \in Waiter PROVE Linked(w)' <=> Linked(w)
    <3>1. w.cx \in Agents
      BY DEF Waiter
    <3> QED BY <1>1, <3>1 DEF Kept, Linked
  <2> QED BY <2>1 DEF ListHolds
<1>5. NestingHolds'
  <2>1. \A c \in Agents : \A d \in 1..Len(calls'[c]) :
            d < Len(calls'[c]) => calls'[c][d].at = "handler"
    BY <1>1 DEF Kept, NestingHolds
  <2>2. \A c \in Agents : At(c)' = "error" => Len(calls'[c]) > 1
    BY <1>1 DEF NestingHolds
  <2>3. \A c \in Agents \ HandlersWait : Len(calls'[c]) <= 1
    BY <1>1 DEF NestingHolds
  <2> QED BY <1>2, <2>1, <2>2, <2>3 DEF NestingHolds
<1> QED BY <1>1, <1>2, <1>3, <1>4, <1>5

(* The JS thread moves within its innermost wait. *)
LEMMA GoToFacts ==
    ASSUME TypeOK, NEW c \in Agents, InWait(c), NEW p \in Places, GoTo(c, p)
    PROVE  /\ Kept /\ At(c)' = p
           /\ \A b \in Agents \ {c} : At(b)' = At(b)
<1> DEFINE n == Len(calls[c])
           f == [Top(c) EXCEPT !.at = p]
           cc == [calls[c] EXCEPT ![n] = f]
<1>1. Top(c) = calls[c][n] /\ Top(c) \in Call
  BY Innermost
<1>2. f \in Call /\ f.off = Top(c).off /\ f.val = Top(c).val /\ f.at = p
  BY <1>1 DEF Call
<1>3. calls' = [calls EXCEPT ![c] = cc]
  BY <1>1 DEF GoTo
<1>9. cc = [calls[c] EXCEPT ![Len(calls[c])] = f]
  OBVIOUS
<1> HIDE DEF f, cc
<1>4. /\ cc \in Seq(Call) /\ Len(cc) = n /\ cc[n] = f
      /\ \A d \in 1..n : /\ cc[d].off = calls[c][d].off
                         /\ cc[d].val = calls[c][d].val
                         /\ d < n => cc[d].at = calls[c][d].at
  <2>1. calls[c] \in Seq(Call) /\ n \in 1..n /\ calls[c][n] = Top(c) /\ n \in Nat
    BY <1>1, Innermost
  <2> HIDE DEF n
  <2>2. cc = [calls[c] EXCEPT ![n] = f] /\ Len(calls[c]) = n
    BY <1>9 DEF n
  <2> QED BY <1>2, <2>1, <2>2
<1>5. /\ calls' \in [Agents -> Seq(Call)] /\ calls'[c] = cc
      /\ \A b \in Agents \ {c} : calls'[b] = calls[b]
  BY <1>3, <1>4 DEF TypeOK
<1>6. Kept
  BY <1>4, <1>5 DEF Kept
<1>7. At(c)' = p
  <2>1. n \in Nat /\ n > 0
    BY Innermost
  <2>2. calls'[c] # <<>>
    BY <1>4, <1>5, <2>1
  <2> QED BY <1>2, <1>4, <1>5, <2>2 DEF At, InWait, Top, Last
<1>8. \A b \in Agents \ {c} : At(b)' = At(b)
  BY <1>5 DEF At, InWait, Top, Last
<1> QED BY <1>6, <1>7, <1>8

(* Signalling cond_ of some agents wakes those that sleep, and no other. *)
LEMMA WakeAllFacts ==
    ASSUME TypeOK, NEW S \in SUBSET Agents, WakeAll(S)
    PROVE  /\ Kept
           /\ \A b \in Agents : b \in S /\ At(b) = "asleep" => At(b)' = "awake"
           /\ \A b \in Agents : ~(b \in S /\ At(b) = "asleep") => At(b)' = At(b)
<1> DEFINE f(b) == [Top(b) EXCEPT !.at = "awake"]
           cc(b) == [calls[b] EXCEPT ![Len(calls[b])] = f(b)]
<1>1. ASSUME NEW b \in Agents, b \in S, At(b) = "asleep"
      PROVE  /\ calls'[b] \in Seq(Call) /\ Len(calls'[b]) = Len(calls[b])
             /\ \A d \in 1..Len(calls[b]) :
                   /\ calls'[b][d].off = calls[b][d].off
                   /\ calls'[b][d].val = calls[b][d].val
                   /\ d < Len(calls[b]) => calls'[b][d].at = calls[b][d].at
             /\ At(b)' = "awake"
  <2>1. InWait(b)
    BY <1>1 DEF At
  <2>2. Top(b) = calls[b][Len(calls[b])] /\ Top(b) \in Call
    BY <2>1, Innermost
  <2>3. /\ f(b) \in Call /\ f(b).off = Top(b).off /\ f(b).val = Top(b).val
        /\ f(b).at = "awake"
    BY <2>2 DEF Call, Places
  <2>4. calls'[b] = cc(b)
    BY <1>1, <2>2 DEF WakeAll
  <2>8. cc(b) = [calls[b] EXCEPT ![Len(calls[b])] = f(b)]
    OBVIOUS
  <2> HIDE DEF f, cc
  <2>5. /\ cc(b) \in Seq(Call) /\ Len(cc(b)) = Len(calls[b]) /\ cc(b)[Len(calls[b])] = f(b)
        /\ \A d \in 1..Len(calls[b]) :
              /\ cc(b)[d].off = calls[b][d].off
              /\ cc(b)[d].val = calls[b][d].val
              /\ d < Len(calls[b]) => cc(b)[d].at = calls[b][d].at
    <3>1. calls[b] \in Seq(Call) /\ Len(calls[b]) \in 1..Len(calls[b]) /\ Len(calls[b]) \in Nat
      BY <2>1, Innermost
    <3> QED BY <2>2, <2>3, <2>8, <3>1
  <2>6. calls'[b] # <<>>
    <3>1. Len(calls[b]) \in Nat /\ Len(calls[b]) > 0
      BY <2>1, Innermost
    <3> QED BY <2>4, <2>5, <3>1
  <2>7. At(b)' = "awake"
    BY <2>3, <2>4, <2>5, <2>6 DEF At, InWait, Top, Last
  <2> QED BY <2>4, <2>5, <2>7
<1>2. ASSUME NEW b \in Agents, ~(b \in S /\ At(b) = "asleep")
      PROVE  calls'[b] = calls[b] /\ At(b)' = At(b)
  <2>1. calls'[b] = calls[b]
    BY <1>2 DEF WakeAll
  <2> QED BY <2>1 DEF At, InWait, Top, Last
<1>3. \A b \in Agents : calls'[b] \in Seq(Call)
  BY <1>1, <1>2 DEF TypeOK
<1>4. calls' \in [Agents -> Seq(Call)]
  BY <1>3 DEF WakeAll
<1>5. Kept
  BY <1>1, <1>2, <1>4 DEF Kept
<1> QED BY <1>1, <1>2, <1>5


-----------------------------------------------------------------------------
\* The invariant holds initially and is preserved by every step.

(* The invariant holds before any agent waits. *)
LEMMA InitIndInv == Init => IndInv
<1> SUFFICES ASSUME Init PROVE IndInv
  OBVIOUS
<1> USE DEF Init
<1>1. TypeOK
  <2>1. \A c \in Agents : calls[c] = <<>> /\ Len(calls[c]) = 0
    OBVIOUS
  <2>2. calls \in [Agents -> Seq(Call)] /\ waiters \in Seq(Waiter) /\ arrived \in Seq(Waiter)
    OBVIOUS
  <2> QED BY <2>1, <2>2, FutexAssumption DEF TypeOK, States
<1>2. ListHolds
  BY ListEmpty DEF ListHolds, Linked, Waiter
<1>3. NestingHolds
  BY DEF NestingHolds, At, InWait
<1>4. \A c \in Agents \ HandlersWait : StateHolds(c)
  BY DEF StateHolds, At, InWait
<1>5. CreditHolds /\ ValueHolds
  BY DEF CreditHolds, ValueHolds, IsWaiting
<1> QED BY <1>1, <1>2, <1>3, <1>4, <1>5 DEF IndInv

(* state_ of an agent changes. *)
LEMMA SetStateFacts ==
    ASSUME TypeOK, NEW c \in Agents, NEW s \in States, SetState(c, s)
    PROVE  /\ state' \in [Agents -> States] /\ state'[c] = s
           /\ \A b \in Agents \ {c} : state'[b] = state[b]
BY DEF TypeOK, SetState

(* A step within the waits that are in progress, which wakes none of them. *)
LEMMA MoveStep ==
    ASSUME IndInv, Kept, UNCHANGED <<value, waiters, hist>>,
           state' \in [Agents -> States], urgent' \in [Agents -> BOOLEAN],
           requests' \subseteq Agents,
           \A c \in Agents : At(c)' = "error" => At(c) = "error",
           \A c \in Agents : ~InWait(c) => state'[c] = "Idle",
           \A c \in Agents : state'[c] = "Woken" => state[c] = "Woken",
           \A c \in Agents \ HandlersWait : state[c] = "Woken" => state'[c] = "Woken",
           \A c \in Agents \ HandlersWait : IsWaiting(c)' => IsWaiting(c),
           \A c \in Agents \ HandlersWait : StateHolds(c)'
    PROVE  IndInv'
<1> USE DEF IndInv, hist
<1>1. /\ ListHolds' /\ NestingHolds'
      /\ \A c \in Agents : InWait(c)' <=> InWait(c)
      /\ \A c \in Agents : InWait(c) => /\ (Top(c).off)' = Top(c).off
                                        /\ (Top(c).val)' = Top(c).val
      /\ \A c \in Agents : Len(calls'[c]) <= MaxDepth
  BY KeptFacts
<1>2. TypeOK'
  BY <1>1 DEF TypeOK, Kept
<1>3. \A c \in Agents : state[c] # "Idle" => InWait(c)
  BY DEF NestingHolds
<1>4. CreditHolds'
  BY <1>1, <1>3 DEF CreditHolds
<1>5. ValueHolds'
  <2>1. \A c \in Agents \ HandlersWait : IsWaiting(c) => InWait(c)
    BY <1>3 DEF IsWaiting
  <2> QED BY <1>1, <2>1 DEF ValueHolds
<1> QED BY <1>1, <1>2, <1>4, <1>5

(* Nothing moves. *)
LEMMA SameCalls ==
    ASSUME TypeOK, UNCHANGED calls
    PROVE  /\ Kept
           /\ \A c \in Agents : At(c)' = At(c)
           /\ \A c \in Agents : InWait(c)' <=> InWait(c)
BY DEF Kept, TypeOK, At, InWait, Top, Last

(* An interrupt is requested, or the bit is cleared by a poll. *)
LEMMA BitStep ==
    ASSUME IndInv, NEW c \in Agents, RequestInterrupt(c) \/ CheckForInterrupt(c)
    PROVE  IndInv'
<1>1. /\ UNCHANGED <<value, waiters, state, calls, hist>>
      /\ urgent' \in [Agents -> BOOLEAN] /\ requests' \subseteq Agents
  BY DEF RequestInterrupt, CheckForInterrupt, IndInv, TypeOK
<1>2. Kept /\ \A b \in Agents : At(b)' = At(b)
  BY <1>1, SameCalls DEF IndInv
<1>3. /\ \A b \in Agents \ HandlersWait : StateHolds(b)'
      /\ \A b \in Agents : IsWaiting(b)' => IsWaiting(b)
      /\ \A b \in Agents : ~InWait(b) => state'[b] = "Idle"
      /\ state' \in [Agents -> States]
  BY <1>1, <1>2 DEF StateHolds, IsWaiting, IndInv, NestingHolds, TypeOK
<1> QED BY <1>1, <1>2, <1>3, MoveStep

(* The condition variable wakes, by itself or at the end of a slice. *)
LEMMA CondWakesStep ==
    ASSUME IndInv, NEW c \in Agents, CondWakes(c)
    PROVE  IndInv'
<1>1. /\ UNCHANGED <<value, waiters, state, urgent, requests, hist>>
      /\ At(c) = "asleep" /\ GoTo(c, "awake")
  BY DEF CondWakes
<1>2. InWait(c)
  BY <1>1 DEF At
<1>3. Kept /\ At(c)' = "awake" /\ \A b \in Agents \ {c} : At(b)' = At(b)
  BY <1>1, <1>2, GoToFacts DEF IndInv, Places
<1>4. /\ \A b \in Agents \ HandlersWait : StateHolds(b)'
      /\ \A b \in Agents : IsWaiting(b)' => IsWaiting(b)
      /\ \A b \in Agents : ~InWait(b) => state'[b] = "Idle"
      /\ \A b \in Agents : At(b)' = "error" => At(b) = "error"
      /\ state' \in [Agents -> States] /\ urgent' \in [Agents -> BOOLEAN]
      /\ requests' \subseteq Agents
  BY <1>1, <1>3 DEF StateHolds, IsWaiting, IndInv, NestingHolds, TypeOK
<1> QED BY <1>1, <1>3, <1>4, MoveStep

(* handleInterrupt() takes the bits and calls the handlers. *)
LEMMA HandleInterruptStep ==
    ASSUME IndInv, NEW c \in Agents, HandleInterrupt(c)
    PROVE  IndInv'
<1>1. /\ UNCHANGED <<value, waiters, state, requests, hist>>
      /\ At(c) = "interrupted" /\ GoTo(c, "handler")
      /\ urgent' \in [Agents -> BOOLEAN]
  BY DEF HandleInterrupt, IndInv, TypeOK
<1>2. InWait(c)
  BY <1>1 DEF At
<1>3. Kept /\ At(c)' = "handler" /\ \A b \in Agents \ {c} : At(b)' = At(b)
  BY <1>1, <1>2, GoToFacts DEF IndInv, Places
<1>4. /\ \A b \in Agents \ HandlersWait : StateHolds(b)'
      /\ \A b \in Agents : IsWaiting(b)' => IsWaiting(b)
      /\ \A b \in Agents : ~InWait(b) => state'[b] = "Idle"
      /\ \A b \in Agents : At(b)' = "error" => At(b) = "error"
      /\ state' \in [Agents -> States] /\ requests' \subseteq Agents
  BY <1>1, <1>3 DEF StateHolds, IsWaiting, IndInv, NestingHolds, TypeOK
<1> QED BY <1>1, <1>3, <1>4, MoveStep

(* Time passes. *)
LEMMA DeadlineStep ==
    ASSUME IndInv, NEW c \in Agents, Deadline(c)
    PROVE  IndInv'
<1> DEFINE n == Len(calls[c])
           f == [Top(c) EXCEPT !.limit = "passed"]
           cc == [calls[c] EXCEPT ![n] = f]
<1>1. /\ UNCHANGED <<value, waiters, state, urgent, requests, hist>>
      /\ InWait(c)
  BY DEF Deadline
<1>2. /\ Top(c) = calls[c][n] /\ Top(c) \in Call /\ calls[c] \in Seq(Call)
      /\ n \in 1..n /\ n \in Nat /\ At(c) = Top(c).at
  BY <1>1, Innermost DEF IndInv
<1>3. f \in Call /\ f.off = Top(c).off /\ f.val = Top(c).val /\ f.at = Top(c).at
  BY <1>2 DEF Call, Limits
<1>4. calls' = [calls EXCEPT ![c] = cc]
  BY <1>2 DEF Deadline
<1>5. cc = [calls[c] EXCEPT ![n] = f] /\ Len(calls[c]) = n
  OBVIOUS
<1> HIDE DEF f, cc, n
<1>6. /\ cc \in Seq(Call) /\ Len(cc) = n /\ cc[n] = f /\ cc # <<>>
      /\ \A d \in 1..n : /\ cc[d].off = calls[c][d].off
                         /\ cc[d].val = calls[c][d].val
                         /\ d < n => cc[d].at = calls[c][d].at
  BY <1>2, <1>3, <1>5
<1>7. /\ calls' \in [Agents -> Seq(Call)] /\ calls'[c] = cc
      /\ \A b \in Agents \ {c} : calls'[b] = calls[b]
  BY <1>4, <1>6 DEF TypeOK, IndInv
<1>8. Kept
  <2>1. ASSUME NEW b \in Agents
        PROVE  Len(calls'[b]) = Len(calls[b])
    BY <1>5, <1>6, <1>7
  <2>2. ASSUME NEW b \in Agents, NEW d \in 1..Len(calls[b])
        PROVE  /\ calls'[b][d].off = calls[b][d].off
               /\ calls'[b][d].val = calls[b][d].val
               /\ d < Len(calls[b]) => calls'[b][d].at = calls[b][d].at
    <3>1. CASE b = c
      BY <1>5, <1>6, <1>7, <3>1
    <3>2. CASE b # c
      <4>1. calls'[b] = calls[b]
        BY <1>7, <3>2
      <4> QED BY <4>1
    <3> QED BY <3>1, <3>2
  <2>3. calls' \in [Agents -> Seq(Call)]
    BY <1>7
  <2> QED BY <2>1, <2>2, <2>3, ZenonT(40) DEF Kept
<1>9. \A b \in Agents : At(b)' = At(b)
  <2>1. At(c)' = At(c)
    BY <1>2, <1>3, <1>6, <1>7 DEF At, InWait, Top, Last
  <2>2. \A b \in Agents \ {c} : At(b)' = At(b)
    BY <1>7 DEF At, InWait, Top, Last
  <2> QED BY <2>1, <2>2
<1>10. /\ \A b \in Agents \ HandlersWait : StateHolds(b)'
       /\ \A b \in Agents : IsWaiting(b)' => IsWaiting(b)
       /\ \A b \in Agents : ~InWait(b) => state'[b] = "Idle"
       /\ state' \in [Agents -> States] /\ urgent' \in [Agents -> BOOLEAN]
       /\ requests' \subseteq Agents
  BY <1>1, <1>9 DEF StateHolds, IsWaiting, IndInv, NestingHolds, TypeOK
<1> QED BY <1>1, <1>8, <1>9, <1>10, MoveStep

(* The wait is taken up again, in its loop. *)
LEMMA SleepAgainStep ==
    ASSUME IndInv, NEW c \in Agents, SleepAgain(c), InWait(c),
           At(c) \in {"awake", "interrupted", "handler"}, state[c] # "Woken",
           UNCHANGED <<value, urgent, requests>>
    PROVE  IndInv'
<1>1. SetState(c, "Waiting") /\ GoTo(c, "asleep") /\ UNCHANGED <<waiters, hist>>
  BY DEF SleepAgain
<1>2. Kept /\ At(c)' = "asleep" /\ \A b \in Agents \ {c} : At(b)' = At(b)
  BY <1>1, GoToFacts DEF IndInv, Places
<1>3. /\ state' \in [Agents -> States] /\ state'[c] = "Waiting"
      /\ \A b \in Agents \ {c} : state'[b] = state[b]
  BY <1>1, SetStateFacts DEF IndInv, States
<1>4. c \notin HandlersWait => IsWaiting(c)
  BY DEF IndInv, StateHolds, IsWaiting
<1>5. /\ \A b \in Agents \ HandlersWait : StateHolds(b)'
      /\ \A b \in Agents \ HandlersWait : IsWaiting(b)' => IsWaiting(b)
  BY <1>2, <1>3, <1>4 DEF StateHolds, IsWaiting, IndInv
<1>6. /\ \A b \in Agents : ~InWait(b) => state'[b] = "Idle"
      /\ \A b \in Agents : At(b)' = "error" => At(b) = "error"
      /\ \A b \in Agents : state'[b] = "Woken" <=> state[b] = "Woken"
  BY <1>2, <1>3 DEF IndInv, NestingHolds
<1>7. urgent' \in [Agents -> BOOLEAN] /\ requests' \subseteq Agents
  BY DEF IndInv, TypeOK
<1> QED BY <1>1, <1>2, <1>3, <1>5, <1>6, <1>7, MoveStep

(* The wait is left for an interrupt. *)
LEMMA InterruptedStep ==
    ASSUME IndInv, NEW c \in Agents, At(c) = "awake",
           state[c] = "WaitingNotifiedForInterrupt",
           SetState(c, "WaitingInterrupted"), GoTo(c, "interrupted"),
           UNCHANGED <<value, waiters, hist, urgent, requests>>
    PROVE  IndInv'
<1>1. InWait(c)
  BY DEF At
<1>2. Kept /\ At(c)' = "interrupted" /\ \A b \in Agents \ {c} : At(b)' = At(b)
  BY <1>1, GoToFacts DEF IndInv, Places
<1>3. /\ state' \in [Agents -> States] /\ state'[c] = "WaitingInterrupted"
      /\ \A b \in Agents \ {c} : state'[b] = state[b]
  BY SetStateFacts DEF IndInv, States
<1>4. /\ \A b \in Agents \ HandlersWait : StateHolds(b)'
      /\ \A b \in Agents \ HandlersWait : IsWaiting(b)' => IsWaiting(b)
  BY <1>1, <1>2, <1>3 DEF StateHolds, IsWaiting, IndInv
<1>5. /\ \A b \in Agents : ~InWait(b) => state'[b] = "Idle"
      /\ \A b \in Agents : At(b)' = "error" => At(b) = "error"
      /\ \A b \in Agents : state'[b] = "Woken" <=> state[b] = "Woken"
  BY <1>1, <1>2, <1>3 DEF IndInv, NestingHolds
<1>6. urgent' \in [Agents -> BOOLEAN] /\ requests' \subseteq Agents
  BY DEF IndInv, TypeOK
<1> QED BY <1>2, <1>3, <1>4, <1>5, <1>6, MoveStep

(* notify(NotifyForJSInterrupt). *)
LEMMA NotifyForJSInterruptStep ==
    ASSUME IndInv, NEW c \in Agents, NotifyForJSInterrupt(c)
    PROVE  IndInv'
<1>1. /\ UNCHANGED <<value, waiters, urgent, hist>> /\ requests' \subseteq Agents
      /\ urgent' \in [Agents -> BOOLEAN]
  BY DEF NotifyForJSInterrupt, IndInv, TypeOK
<1>2. CASE /\ state[c] \in {"Waiting", "WaitingInterrupted"}
           /\ SetState(c, "WaitingNotifiedForInterrupt")
           /\ WakeAll({c})
  <2>1. /\ Kept
        /\ \A b \in Agents : b \in {c} /\ At(b) = "asleep" => At(b)' = "awake"
        /\ \A b \in Agents : ~(b \in {c} /\ At(b) = "asleep") => At(b)' = At(b)
    <3>1. {c} \in SUBSET Agents
      OBVIOUS
    <3> QED BY <1>2, <3>1, WakeAllFacts DEF IndInv
  <2>2. /\ state' \in [Agents -> States] /\ state'[c] = "WaitingNotifiedForInterrupt"
        /\ \A b \in Agents \ {c} : state'[b] = state[b]
    BY <1>2, SetStateFacts DEF IndInv, States
  <2>3. /\ \A b \in Agents \ HandlersWait : StateHolds(b)'
        /\ \A b \in Agents \ HandlersWait : IsWaiting(b)' => IsWaiting(b)
        /\ \A b \in Agents : ~InWait(b) => state'[b] = "Idle"
        /\ \A b \in Agents : At(b)' = "error" => At(b) = "error"
        /\ \A b \in Agents : state'[b] = "Woken" <=> state[b] = "Woken"
    BY <1>2, <2>1, <2>2 DEF StateHolds, IsWaiting, IndInv, NestingHolds
  <2> QED BY <1>1, <2>1, <2>2, <2>3, MoveStep
<1>3. CASE UNCHANGED <<state, calls>>
  <2>1. Kept /\ \A b \in Agents : At(b)' = At(b)
    BY <1>3, SameCalls DEF IndInv
  <2>2. /\ \A b \in Agents \ HandlersWait : StateHolds(b)'
        /\ \A b \in Agents : IsWaiting(b)' => IsWaiting(b)
        /\ \A b \in Agents : ~InWait(b) => state'[b] = "Idle"
        /\ state' \in [Agents -> States]
    BY <1>3, <2>1 DEF StateHolds, IsWaiting, IndInv, NestingHolds, TypeOK
  <2> QED BY <1>1, <1>3, <2>1, <2>2, MoveStep
<1> QED BY <1>2, <1>3 DEF NotifyForJSInterrupt


(* A store leaves the waits alone, and marks the location. *)
LEMMA StoreStep ==
    ASSUME IndInv, NEW c \in Agents, NEW o \in Offsets, NEW v \in Values, Store(c, o, v)
    PROVE  IndInv'
<1> USE DEF IndInv
<1>1. /\ value' = [value EXCEPT ![o] = v] /\ unsaid' = unsaid \cup {o}
      /\ UNCHANGED <<waiters, state, calls, urgent, requests, arrived, credit, wokenAt>>
  BY DEF Store
<1>2. TypeOK'
  BY <1>1 DEF TypeOK
<1>3. ListHolds' /\ NestingHolds' /\ CreditHolds'
  BY <1>1 DEF ListHolds, Linked, NestingHolds, At, InWait, Top, Last, CreditHolds
<1>4. \A b \in Agents \ HandlersWait : StateHolds(b)'
  BY <1>1 DEF StateHolds, At, InWait, Top, Last
<1>5. ValueHolds'
  <2>1. \A p \in Offsets \ {o} : value'[p] = value[p]
    BY <1>1 DEF TypeOK
  <2>2. ASSUME NEW b \in Agents \ HandlersWait, IsWaiting(b) PROVE Top(b).off \in Offsets
    <3>1. InWait(b)
      BY <2>2 DEF NestingHolds, IsWaiting
    <3> QED BY <3>1, Innermost
  <2> QED BY <1>1, <2>1, <2>2 DEF ValueHolds, IsWaiting, Top
<1> QED BY <1>2, <1>3, <1>4, <1>5

(* Two entries of the list that agree in every field are one. *)
LEMMA WaiterEqual ==
    ASSUME NEW v \in Waiter, NEW w \in Waiter,
           v.cx = w.cx, v.off = w.off, v.depth = w.depth
    PROVE  v = w
BY DEF Waiter

(* An agent whose handlers do not wait has at most one entry in the list, that
   of its wait. *)
LEMMA OneEntry ==
    ASSUME IndInv, NEW a \in Agents \ HandlersWait
    PROVE  /\ \A i \in 1..Len(waiters) :
                 waiters[i].cx = a => InWait(a) /\ waiters[i].off = Top(a).off
           /\ \A i, j \in 1..Len(waiters) :
                 waiters[i].cx = a /\ waiters[j].cx = a => i = j
           /\ InWait(a) => \E i \in 1..Len(waiters) :
                               waiters[i].cx = a /\ waiters[i].off = Top(a).off
<1> USE DEF IndInv
<1>1. Len(calls[a]) \in Nat /\ Len(calls[a]) <= 1 /\ (InWait(a) <=> Len(calls[a]) > 0)
  BY Innermost DEF NestingHolds
<1>2. ASSUME NEW i \in 1..Len(waiters), waiters[i].cx = a
      PROVE  /\ waiters[i] \in Waiter /\ waiters[i].depth = 1 /\ InWait(a)
             /\ waiters[i].off = Top(a).off
  <2>1. waiters[i] \in Waiter /\ Contains(waiters, waiters[i])
    BY DEF TypeOK, Contains
  <2>2. Linked(waiters[i])
    BY <2>1 DEF ListHolds
  <2>3. waiters[i].depth \in 1..Len(calls[a]) /\ calls[a][waiters[i].depth].off = waiters[i].off
    BY <1>2, <2>2 DEF Linked
  <2>4. waiters[i].depth = 1 /\ Len(calls[a]) = 1
    <3>1. \A n \in Nat : \A k \in 1..n : n <= 1 => k = 1 /\ n = 1
      OBVIOUS
    <3> QED BY <1>1, <2>3, <3>1, Zenon
  <2> QED BY <1>1, <2>1, <2>3, <2>4, Innermost
<1>3. \A i, j \in 1..Len(waiters) : waiters[i].cx = a /\ waiters[j].cx = a => i = j
  <2>1. ASSUME NEW i \in 1..Len(waiters), NEW j \in 1..Len(waiters),
               waiters[i].cx = a, waiters[j].cx = a
        PROVE  i = j
    <3>1. waiters[i] = waiters[j]
      BY <1>2, <2>1, WaiterEqual
    <3> QED BY <3>1 DEF ListHolds, IsInjective, TypeOK
  <2> QED BY <2>1
<1>4. ASSUME InWait(a)
      PROVE  \E i \in 1..Len(waiters) : waiters[i].cx = a /\ waiters[i].off = Top(a).off
  <2>1. /\ WaiterOf(a) \in Waiter /\ WaiterOf(a).cx = a /\ WaiterOf(a).off = Top(a).off
        /\ WaiterOf(a).depth = Len(calls[a])
    BY <1>4, Innermost DEF WaiterOf
  <2>2. Linked(WaiterOf(a))
    BY <1>4, <2>1, Innermost DEF Linked
  <2> QED BY <2>1, <2>2 DEF ListHolds, Contains
<1> QED BY <1>2, <1>3, <1>4

(* Whom atomics_notify_impl() notifies. *)
LEMMA NotifiedFacts ==
    ASSUME IndInv, NEW o \in Offsets, NEW count \in {1, -1}
    PROVE  /\ Notified(o, count) \subseteq Agents
           /\ \A a \in Notified(o, count) : IsWaiting(a)
           /\ \A a \in Notified(o, count) \ HandlersWait : Top(a).off = o
           /\ count < 0 => \A a \in Agents \ HandlersWait :
                 IsWaiting(a) /\ Top(a).off = o => a \in Notified(o, count)
<1>1. \A i \in 1..Len(waiters) : waiters[i].cx \in Agents
  <2>1. \A i \in 1..Len(waiters) : waiters[i] \in Waiter
    BY DEF IndInv, TypeOK
  <2> QED BY <2>1 DEF Waiter
<1>2. ASSUME NEW a \in Notified(o, count)
      PROVE  a \in Agents /\ IsWaiting(a) /\ (a \notin HandlersWait => Top(a).off = o)
  <2>1. PICK i \in Eligible(o) : a = waiters[i].cx
    BY <1>2 DEF Notified
  <2>2. i \in 1..Len(waiters) /\ waiters[i].off = o /\ IsWaiting(waiters[i].cx)
    BY <2>1 DEF Eligible
  <2> QED BY <1>1, <2>1, <2>2, OneEntry
<1>3. ASSUME count < 0, NEW a \in Agents \ HandlersWait, IsWaiting(a), Top(a).off = o
      PROVE  a \in Notified(o, count)
  <2>1. InWait(a)
    BY <1>3 DEF IndInv, NestingHolds, IsWaiting
  <2>2. PICK i \in 1..Len(waiters) : waiters[i].cx = a /\ waiters[i].off = o
    BY <1>3, <2>1, OneEntry
  <2>3. \A j \in 1..(i - 1) : ~(waiters[j].off = o /\ waiters[j].cx = waiters[i].cx)
    <3>1. \A j \in 1..(i - 1) : j \in 1..Len(waiters) /\ j # i
      BY <2>2 DEF IndInv, TypeOK
    <3> QED BY <2>2, <3>1, OneEntry
  <2>4. i \in Eligible(o)
    BY <1>3, <2>2, <2>3 DEF Eligible
  <2>5. ~(count > 0)
    BY <1>3
  <2> QED BY <2>2, <2>4, <2>5 DEF Notified
<1> QED BY <1>2, <1>3

(* The saturating count of the history. *)
LEMMA Saturates ==
    ASSUME NEW n \in Nat
    PROVE  /\ Min({n + 1, MaxCredit}) \in Nat
           /\ Min({n + 1, MaxCredit}) >= 1
           /\ n = 0 => Min({n + 1, MaxCredit}) = 1
<1>1. MaxCredit = 2
  BY DEF MaxCredit
<1>2. \E x \in {n + 1, 2} : \A y \in {n + 1, 2} : x <= y
  <2>1. CASE n + 1 <= 2
    BY <2>1
  <2>2. CASE ~(n + 1 <= 2)
    BY <2>2
  <2> QED BY <2>1, <2>2
<1>3. /\ Min({n + 1, 2}) \in {n + 1, 2}
      /\ \A y \in {n + 1, 2} : Min({n + 1, 2}) <= y
  BY <1>2 DEF Min
<1> QED BY <1>1, <1>3

(* Atomics.notify. *)
LEMMA NotifyStep ==
    ASSUME IndInv, NEW c \in Agents, NEW o \in Offsets, NEW count \in {1, -1},
           Notify(c, o, count)
    PROVE  IndInv'
<1> USE DEF IndInv
<1> DEFINE S == Notified(o, count)
           W == {a \in S : state[a] = "Waiting"}
<1>1. /\ state' = [a \in Agents |-> IF a \in S THEN "Woken" ELSE state[a]]
      /\ WakeAll(W)
      /\ credit' = [a \in Agents |-> IF a \in S THEN Min({credit[a] + 1, MaxCredit})
                                                ELSE credit[a]]
      /\ wokenAt' = [a \in Agents |-> IF a \in S THEN o ELSE wokenAt[a]]
      /\ unsaid' = IF count < 0 THEN unsaid \ {o} ELSE unsaid
      /\ UNCHANGED <<value, waiters, urgent, requests, arrived>>
  BY DEF Notify
<1>2. /\ S \subseteq Agents /\ W \subseteq Agents
      /\ \A a \in S : IsWaiting(a)
      /\ \A a \in S \ HandlersWait : Top(a).off = o
      /\ count < 0 => \A a \in Agents \ HandlersWait :
            IsWaiting(a) /\ Top(a).off = o => a \in S
  BY NotifiedFacts
<1>3. \A a \in S : state[a] = "Waiting" => a \in W
  OBVIOUS
<1>4. W \subseteq S
  OBVIOUS
<1> HIDE DEF S, W
<1>5. /\ state' \in [Agents -> States]
      /\ \A a \in S : state'[a] = "Woken"
      /\ \A a \in Agents \ S : state'[a] = state[a]
  BY <1>1, <1>2 DEF TypeOK, States
<1>6. /\ Kept
      /\ \A a \in Agents : a \in W /\ At(a) = "asleep" => At(a)' = "awake"
      /\ \A a \in Agents : ~(a \in W /\ At(a) = "asleep") => At(a)' = At(a)
  BY <1>1, <1>2, WakeAllFacts
<1>7. \A a \in Agents : state[a] # "Idle" => InWait(a)
  BY DEF NestingHolds
<1>8. \A a \in S : InWait(a)
  BY <1>2, <1>7 DEF IsWaiting
<1>9. /\ ListHolds' /\ NestingHolds'
      /\ \A a \in Agents : InWait(a)' <=> InWait(a)
      /\ \A a \in Agents : InWait(a) => /\ (Top(a).off)' = Top(a).off
                                        /\ (Top(a).val)' = Top(a).val
      /\ \A a \in Agents : Len(calls'[a]) <= MaxDepth
  <2>1. \A a \in Agents : At(a)' = "error" => At(a) = "error"
    BY <1>6
  <2>2. \A a \in Agents : ~InWait(a) => state'[a] = "Idle"
    BY <1>5, <1>8 DEF NestingHolds
  <2> QED BY <1>1, <1>6, <2>1, <2>2, KeptFacts
<1>10. /\ credit' \in [Agents -> Nat]
       /\ \A a \in S : credit'[a] >= 1 /\ (credit[a] = 0 => credit'[a] = 1)
       /\ \A a \in Agents \ S : credit'[a] = credit[a]
  <2>1. \A a \in Agents : credit[a] \in Nat
    BY DEF TypeOK
  <2>2. \A a \in Agents : /\ Min({credit[a] + 1, MaxCredit}) \in Nat
                          /\ Min({credit[a] + 1, MaxCredit}) >= 1
                          /\ credit[a] = 0 => Min({credit[a] + 1, MaxCredit}) = 1
    BY <2>1, Saturates
  <2> QED BY <1>1, <1>2, <2>1, <2>2
<1>11. /\ wokenAt' \in [Agents -> Offsets \cup {"none"}]
       /\ \A a \in S : wokenAt'[a] = o
       /\ \A a \in Agents \ S : wokenAt'[a] = wokenAt[a]
  BY <1>1, <1>2 DEF TypeOK
<1>12. TypeOK'
  BY <1>1, <1>5, <1>6, <1>9, <1>10, <1>11 DEF TypeOK, Kept
<1>13. ASSUME NEW a \in Agents \ HandlersWait PROVE StateHolds(a)'
  <2>1. CASE a \in S
    <3>1. At(a) = "asleep" => a \in W
      BY <1>3, <2>1 DEF StateHolds
    <3>2. At(a)' # "asleep"
      BY <1>6, <3>1
    <3> QED BY <1>5, <2>1, <3>2 DEF StateHolds
  <2>2. CASE a \notin S
    BY <1>4, <1>5, <1>6, <2>2 DEF StateHolds
  <2> QED BY <2>1, <2>2
<1>14. CreditHolds'
  <2>1. \A a \in S \ HandlersWait : credit[a] = 0
    BY <1>2 DEF CreditHolds, IsWaiting
  <2>2. \A a \in Agents : state'[a] = "Woken" => credit'[a] >= 1
    BY <1>5, <1>10 DEF CreditHolds
  <2>3. \A a \in S \ HandlersWait : (Top(a).off)' = o
    BY <1>2, <1>8, <1>9
  <2>4. \A a \in Agents \ HandlersWait :
            state'[a] = "Woken" => credit'[a] = 1 /\ (Top(a).off)' = wokenAt'[a]
    BY <1>5, <1>7, <1>9, <1>10, <1>11, <2>1, <2>3 DEF CreditHolds
  <2>5. \A a \in Agents \ HandlersWait : state'[a] # "Woken" => credit'[a] = 0
    BY <1>5, <1>10 DEF CreditHolds
  <2> QED BY <2>2, <2>4, <2>5 DEF CreditHolds
<1>15. ValueHolds'
  <2>1. ASSUME NEW a \in Agents \ HandlersWait, IsWaiting(a)',
               value'[(Top(a).off)'] # (Top(a).val)'
        PROVE  (Top(a).off)' \in unsaid'
    <3>1. a \notin S /\ IsWaiting(a)
      BY <1>5, <2>1 DEF IsWaiting
    <3>2. InWait(a)
      BY <1>7, <3>1 DEF IsWaiting
    <3>3. Top(a).off \in unsaid
      BY <1>1, <1>9, <2>1, <3>1, <3>2 DEF ValueHolds
    <3>4. count < 0 => Top(a).off # o
      BY <1>2, <3>1
    <3> QED BY <1>1, <1>9, <3>2, <3>3, <3>4
  <2> QED BY <2>1 DEF ValueHolds
<1> QED BY <1>9, <1>12, <1>13, <1>14, <1>15


(* Atomics.wait, up to the first unlock. *)
LEMMA WaitStep ==
    ASSUME IndInv, NEW c \in Agents, NEW o \in Offsets, NEW v \in Values,
           NEW limit \in {"none", "coming"}, Wait(c, o, v, limit)
    PROVE  IndInv'
<1> USE DEF IndInv
<1> DEFINE n == Len(calls[c])
           w == [cx |-> c, off |-> o, depth |-> n + 1]
           refuse == state[c] = "WaitingInterrupted"
           call == [off |-> o, val |-> v, limit |-> limit,
                    at |-> IF refuse THEN "error" ELSE "asleep"]
<1>1. /\ At(c) = "script" \/ (At(c) = "handler" /\ c \in HandlersWait)
      /\ n < MaxDepth /\ value[o] = v
      /\ waiters' = Append(waiters, w) /\ arrived' = Append(arrived, w)
      /\ calls' = [calls EXCEPT ![c] = Append(calls[c], call)]
      /\ state' = IF refuse THEN state ELSE [state EXCEPT ![c] = "Waiting"]
      /\ UNCHANGED <<value, urgent, requests, credit, wokenAt, unsaid>>
  BY DEF Wait
<1>2. calls[c] \in Seq(Call) /\ n \in Nat
  BY Innermost
<1>3. w \in Waiter /\ w.cx = c /\ w.off = o /\ w.depth = n + 1
  BY <1>1, <1>2, FutexAssumption DEF Waiter
<1>4. /\ call \in Call /\ call.off = o /\ call.val = v
      /\ call.at = IF refuse THEN "error" ELSE "asleep"
  BY DEF Call, Limits, Places
<1>5. InWait(c) => At(c) = "handler" /\ n > 0
  BY <1>1, Innermost DEF Places
<1>6. ~InWait(c) => n = 0 /\ state[c] = "Idle"
  BY <1>2, Innermost DEF NestingHolds
<1>7. c \notin HandlersWait => n = 0 /\ state[c] = "Idle"
  BY <1>1, <1>5, <1>6
<1>8. /\ state' \in [Agents -> States]
      /\ refuse => state' = state
      /\ ~refuse => state'[c] = "Waiting"
      /\ \A b \in Agents \ {c} : state'[b] = state[b]
  BY <1>1 DEF TypeOK, States
<1> HIDE DEF call, w
<1>9. /\ calls' \in [Agents -> Seq(Call)]
      /\ calls'[c] = Append(calls[c], call)
      /\ \A b \in Agents \ {c} : calls'[b] = calls[b]
  BY <1>1, <1>2, <1>4 DEF TypeOK
<1>10. /\ Len(calls'[c]) = n + 1
       /\ \A d \in 1..n : calls'[c][d] = calls[c][d]
       /\ calls'[c][n + 1] = call
  BY <1>2, <1>4, <1>9
<1> HIDE DEF n
<1>11. \A b \in Agents \ {c} : /\ At(b)' = At(b) /\ (InWait(b)' <=> InWait(b))
                               /\ Top(b)' = Top(b)
  BY <1>9 DEF At, InWait, Top, Last
<1>12. InWait(c)' /\ Top(c)' = call /\ At(c)' = call.at
  <2>1. calls'[c] # <<>>
    BY <1>2, <1>9, <1>10
  <2>2. Top(c)' = call
    BY <1>10 DEF Top, Last
  <2> QED BY <2>1, <2>2 DEF InWait, At
<1>13. ListHolds'
  <2>1. ~Linked(w)
    BY <1>2, <1>3 DEF Linked, n
  <2>2. waiters \in Seq(Waiter) /\ IsInjective(waiters) /\ ~Contains(waiters, w)
    BY <1>3, <2>1 DEF ListHolds, TypeOK
  <2>3. /\ IsInjective(waiters')
        /\ \A x \in Waiter : Contains(waiters', x) <=> Contains(waiters, x) \/ x = w
    BY <1>1, <1>3, <2>2, ListAppend
  <2>4. ASSUME NEW x \in Waiter PROVE Linked(x)' <=> Linked(x) \/ x = w
    <3>0. x.cx \in Agents /\ x.depth \in Nat /\ x.depth >= 1
      BY FutexAssumption DEF Waiter
    <3>1. CASE x.cx # c
      <4>1. calls'[x.cx] = calls[x.cx]
        BY <1>9, <3>0, <3>1
      <4> QED BY <1>3, <3>1, <4>1 DEF Linked
    <3>2. CASE x.cx = c /\ x.depth # n + 1
      <4>1. x.depth \in 1..(n + 1) <=> x.depth \in 1..n
        BY <1>2, <3>0, <3>2
      <4> QED BY <1>3, <1>10, <3>2, <4>1 DEF Linked, n
    <3>3. CASE x.cx = c /\ x.depth = n + 1
      <4>1. ~Linked(x)
        BY <1>2, <3>3 DEF Linked, n
      <4>2. x.off = o => x = w
        BY <1>3, <3>3, WaiterEqual
      <4>3. Linked(x)' <=> x.off = o
        BY <1>2, <1>4, <1>10, <3>3 DEF Linked
      <4> QED BY <1>3, <4>1, <4>2, <4>3
    <3> QED BY <3>1, <3>2, <3>3
  <2> QED BY <1>1, <2>3, <2>4 DEF ListHolds
<1>14. NestingHolds'
  <2>1. ASSUME NEW b \in Agents, NEW d \in 1..Len(calls'[b]), d < Len(calls'[b])
        PROVE  calls'[b][d].at = "handler"
    <3>1. CASE b # c
      BY <1>9, <2>1, <3>1 DEF NestingHolds
    <3>2. CASE b = c /\ d < n
      BY <1>2, <1>10, <3>2 DEF NestingHolds, n
    <3>3. CASE b = c /\ d = n
      <4>1. InWait(c) /\ n \in 1..n
        BY <1>2, <1>6, <3>3
      <4> QED BY <1>5, <1>10, <3>3, <4>1, Innermost DEF n
    <3> QED BY <1>2, <1>10, <2>1, <3>1, <3>2, <3>3
  <2>2. ASSUME NEW b \in Agents, At(b)' = "error" PROVE Len(calls'[b]) > 1
    <3>1. CASE b # c
      BY <1>9, <1>11, <2>2, <3>1 DEF NestingHolds
    <3>2. CASE b = c
      <4>1. refuse
        BY <1>4, <1>12, <2>2, <3>2
      <4>2. n > 0
        BY <1>5, <1>6, <4>1
      <4> QED BY <1>2, <1>10, <3>2, <4>2
    <3> QED BY <3>1, <3>2
  <2>3. ASSUME NEW b \in Agents \ HandlersWait PROVE Len(calls'[b]) <= 1
    BY <1>7, <1>9, <1>10 DEF NestingHolds
  <2>4. ASSUME NEW b \in Agents, ~InWait(b)' PROVE state'[b] = "Idle"
    BY <1>8, <1>11, <1>12, <2>4 DEF NestingHolds
  <2> QED BY <2>1, <2>2, <2>3, <2>4 DEF NestingHolds
<1>15. TypeOK'
  <2>1. waiters' \in Seq(Waiter) /\ arrived' \in Seq(Waiter)
    BY <1>1, <1>3 DEF TypeOK
  <2>2. \A b \in Agents : Len(calls'[b]) <= MaxDepth
    BY <1>1, <1>2, <1>9, <1>10, FutexAssumption DEF TypeOK
  <2> QED BY <1>1, <1>8, <1>9, <2>1, <2>2 DEF TypeOK
<1>16. c \notin HandlersWait => ~refuse /\ state'[c] = "Waiting" /\ At(c)' = "asleep"
  BY <1>4, <1>7, <1>8, <1>12
<1>17. ASSUME NEW b \in Agents \ HandlersWait PROVE StateHolds(b)'
  BY <1>8, <1>11, <1>16 DEF StateHolds
<1>18. CreditHolds'
  <2>1. \A b \in Agents : state'[b] = "Woken" => state[b] = "Woken"
    BY <1>8
  <2>2. c \notin HandlersWait => state'[c] # "Woken" /\ state[c] # "Woken"
    BY <1>7, <1>16
  <2>3. \A b \in Agents \ HandlersWait :
            state'[b] = "Woken" => credit'[b] = 1 /\ (Top(b).off)' = wokenAt'[b]
    BY <1>1, <1>8, <1>11, <2>2 DEF CreditHolds
  <2>4. \A b \in Agents \ HandlersWait : state'[b] # "Woken" => credit'[b] = 0
    BY <1>1, <1>8, <2>2 DEF CreditHolds
  <2> QED BY <1>1, <2>1, <2>3, <2>4 DEF CreditHolds
<1>19. ValueHolds'
  BY <1>1, <1>4, <1>8, <1>11, <1>12 DEF ValueHolds, IsWaiting
<1> QED BY <1>13, <1>14, <1>15, <1>17, <1>18, <1>19

(* The innermost wait of an agent ends and unlinks its entry. *)
LEMMA UnlinkFacts ==
    ASSUME IndInv, NEW c \in Agents, InWait(c), Unlink(c),
           calls' = [calls EXCEPT ![c] = Front(@)]
    PROVE  /\ calls' \in [Agents -> Seq(Call)]
           /\ Len(calls'[c]) = Len(calls[c]) - 1 /\ Len(calls[c]) \in Nat
           /\ \A d \in 1..(Len(calls[c]) - 1) : calls'[c][d] = calls[c][d]
           /\ \A b \in Agents \ {c} : calls'[b] = calls[b]
           /\ \A b \in Agents \ {c} : At(b)' = At(b) /\ (InWait(b)' <=> InWait(b))
           /\ \A b \in Agents \ {c} : Top(b)' = Top(b)
           /\ Len(calls[c]) > 1 => InWait(c)' /\ At(c)' = "handler"
           /\ Len(calls[c]) = 1 => ~InWait(c)' /\ At(c)' = "script"
           /\ ListHolds' /\ waiters' \in Seq(Waiter) /\ arrived' \in Seq(Waiter)
           /\ \A b \in Agents : Len(calls'[b]) <= MaxDepth
           /\ \A b \in Agents : \A d \in 1..Len(calls'[b]) :
                 d < Len(calls'[b]) => calls'[b][d].at = "handler"
           /\ \A b \in Agents \ HandlersWait : Len(calls'[b]) <= 1
<1> USE DEF IndInv
<1> DEFINE n == Len(calls[c])
<1>1. /\ calls[c] \in Seq(Call) /\ n \in Nat /\ n > 0 /\ n \in 1..n
      /\ Top(c) = calls[c][n] /\ WaiterOf(c) \in Waiter
  BY Innermost
<1>2. /\ SubSeq(calls[c], 1, n - 1) \in Seq(Call)
      /\ Len(SubSeq(calls[c], 1, n - 1)) = n - 1
      /\ \A d \in 1..(n - 1) : SubSeq(calls[c], 1, n - 1)[d] = calls[c][d]
  <2>1. ASSUME NEW s \in Seq(Call), NEW m \in 1..Len(s)
        PROVE  /\ SubSeq(s, 1, m - 1) \in Seq(Call) /\ Len(SubSeq(s, 1, m - 1)) = m - 1
               /\ \A i \in 1..(m - 1) : SubSeq(s, 1, m - 1)[i] = s[i]
    OBVIOUS
  <2> QED BY <1>1, <2>1, Zenon
<1>3. /\ calls' \in [Agents -> Seq(Call)] /\ calls'[c] = SubSeq(calls[c], 1, n - 1)
      /\ \A b \in Agents \ {c} : calls'[b] = calls[b]
  BY <1>2 DEF TypeOK, Front
<1>4. /\ Len(calls'[c]) = n - 1 /\ calls'[c] \in Seq(Call)
      /\ \A d \in 1..(n - 1) : calls'[c][d] = calls[c][d]
  BY <1>2, <1>3
<1> HIDE DEF n
<1>5. \A b \in Agents \ {c} : /\ At(b)' = At(b) /\ (InWait(b)' <=> InWait(b))
                              /\ Top(b)' = Top(b)
  BY <1>3 DEF At, InWait, Top, Last
<1>6. n > 1 => InWait(c)' /\ At(c)' = "handler"
  <2> SUFFICES ASSUME n > 1 PROVE InWait(c)' /\ At(c)' = "handler"
    OBVIOUS
  <2>1. calls'[c] # <<>>
    BY <1>1, <1>4
  <2>2. /\ n - 1 \in 1..n /\ n - 1 \in 1..(n - 1) /\ n - 1 < n
    BY <1>1
  <2>3. calls[c][n - 1].at = "handler"
    BY <2>2 DEF NestingHolds, n
  <2>4. calls'[c][n - 1].at = "handler"
    BY <1>4, <2>2, <2>3
  <2> QED BY <1>4, <2>1, <2>4 DEF InWait, At, Top, Last
<1>7. n = 1 => ~InWait(c)' /\ At(c)' = "script"
  <2>1. n = 1 => calls'[c] = <<>>
    BY <1>4
  <2> QED BY <2>1 DEF InWait, At
<1>8. /\ ListHolds' /\ waiters' \in Seq(Waiter) /\ arrived' \in Seq(Waiter)
  <2> DEFINE w == WaiterOf(c)
  <2>1. w \in Waiter /\ w.cx = c /\ w.off = Top(c).off /\ w.depth = n
    BY <1>1 DEF WaiterOf, n
  <2>2. waiters' = RemoveFirst(waiters, w) /\ arrived' = RemoveFirst(arrived, w)
    BY DEF Unlink
  <2> HIDE DEF w
  <2>3. Linked(w)
    BY <1>1, <2>1 DEF Linked, n
  <2>4. waiters \in Seq(Waiter) /\ IsInjective(waiters) /\ Contains(waiters, w)
        /\ arrived = waiters
    BY <2>1, <2>3 DEF ListHolds, TypeOK
  <2>5. /\ waiters' \in Seq(Waiter) /\ IsInjective(waiters')
        /\ \A x \in Waiter : Contains(waiters', x) <=> Contains(waiters, x) /\ x # w
    BY <2>1, <2>2, <2>4, ListRemoveFirst
  <2>6. ASSUME NEW x \in Waiter PROVE Linked(x)' <=> Linked(x) /\ x # w
    <3>0. x.cx \in Agents /\ x.depth \in Nat /\ x.depth >= 1
      BY FutexAssumption DEF Waiter
    <3>1. CASE x.cx # c
      <4>1. calls'[x.cx] = calls[x.cx]
        BY <1>3, <3>0, <3>1
      <4> QED BY <2>1, <3>1, <4>1 DEF Linked
    <3>2. CASE x.cx = c /\ x.depth # n
      <4>1. x.depth \in 1..(n - 1) <=> x.depth \in 1..n
        BY <1>1, <3>0, <3>2
      <4> QED BY <1>4, <2>1, <3>2, <4>1 DEF Linked, n
    <3>3. CASE x.cx = c /\ x.depth = n
      <4>1. ~Linked(x)'
        BY <1>1, <1>4, <3>3 DEF Linked
      <4>2. Linked(x) => x = w
        BY <1>1, <2>1, <3>3, WaiterEqual DEF Linked
      <4> QED BY <4>1, <4>2
    <3> QED BY <3>1, <3>2, <3>3
  <2> QED BY <2>2, <2>4, <2>5, <2>6 DEF ListHolds
<1>9. \A b \in Agents : Len(calls'[b]) <= MaxDepth
  BY <1>1, <1>3, <1>4, FutexAssumption DEF TypeOK, n
<1>10. ASSUME NEW b \in Agents, NEW d \in 1..Len(calls'[b]), d < Len(calls'[b])
       PROVE  calls'[b][d].at = "handler"
  <2>1. CASE b # c
    BY <1>3, <1>10, <2>1 DEF NestingHolds
  <2>2. CASE b = c
    <3>1. d \in 1..(n - 1) /\ d \in 1..n /\ d < n
      BY <1>1, <1>4, <1>10, <2>2
    <3> QED BY <1>4, <2>2, <3>1 DEF NestingHolds, n
  <2> QED BY <2>1, <2>2
<1>11. \A b \in Agents \ HandlersWait : Len(calls'[b]) <= 1
  BY <1>1, <1>3, <1>4 DEF NestingHolds, n
<1> QED BY <1>1, <1>3, <1>4, <1>5, <1>6, <1>7, <1>8, <1>9, <1>10, <1>11 DEF n


(* wait() returns, and answers the wake-up that was counted for it. *)
LEMMA ReturnStep ==
    ASSUME IndInv, NEW c \in Agents, InWait(c), At(c) # "error",
           NEW notified \in BOOLEAN, Return(c, notified),
           notified <=> state[c] = "Woken", UNCHANGED <<value, urgent, requests>>
    PROVE  IndInv'
<1> USE DEF IndInv
<1>1. /\ SetState(c, "Idle") /\ calls' = [calls EXCEPT ![c] = Front(@)] /\ Unlink(c)
      /\ credit' = [credit EXCEPT ![c] = IF notified THEN @ - 1 ELSE @]
      /\ wokenAt' = [wokenAt EXCEPT ![c] = "none"]
      /\ UNCHANGED unsaid
  BY DEF Return
<1>2. /\ state' \in [Agents -> States] /\ state'[c] = "Idle"
      /\ \A b \in Agents \ {c} : state'[b] = state[b]
  BY <1>1, SetStateFacts DEF States
<1>3. /\ calls' \in [Agents -> Seq(Call)]
      /\ \A b \in Agents \ {c} : At(b)' = At(b) /\ (InWait(b)' <=> InWait(b))
      /\ \A b \in Agents \ {c} : Top(b)' = Top(b)
      /\ \A b \in Agents \ {c} : calls'[b] = calls[b]
      /\ Len(calls[c]) \in Nat
      /\ Len(calls[c]) > 1 => InWait(c)' /\ At(c)' = "handler"
      /\ Len(calls[c]) = 1 => ~InWait(c)' /\ At(c)' = "script"
      /\ ListHolds' /\ waiters' \in Seq(Waiter) /\ arrived' \in Seq(Waiter)
      /\ \A b \in Agents : Len(calls'[b]) <= MaxDepth
      /\ \A b \in Agents : \A d \in 1..Len(calls'[b]) :
            d < Len(calls'[b]) => calls'[b][d].at = "handler"
      /\ \A b \in Agents \ HandlersWait : Len(calls'[b]) <= 1
  BY <1>1, UnlinkFacts
<1>4. Len(calls[c]) > 0 /\ (c \notin HandlersWait => Len(calls[c]) = 1)
  <2>1. Len(calls[c]) \in Nat /\ Len(calls[c]) > 0
    BY Innermost
  <2>2. c \notin HandlersWait => Len(calls[c]) <= 1
    BY DEF NestingHolds
  <2>3. \A n \in Nat : n > 0 /\ n <= 1 => n = 1
    OBVIOUS
  <2> QED BY <2>1, <2>2, <2>3, Zenon
<1>5. At(c)' # "error" /\ (c \notin HandlersWait => ~InWait(c)' /\ At(c)' = "script")
  <2>1. \A n \in Nat : n > 0 => n > 1 \/ n = 1
    OBVIOUS
  <2>2. Len(calls[c]) > 1 \/ Len(calls[c]) = 1
    BY <1>3, <1>4, <2>1, Zenon
  <2>3. At(c)' \in {"handler", "script"}
    BY <1>3, <2>2, Zenon
  <2> QED BY <1>3, <1>4, <2>3
<1>6. /\ credit' \in [Agents -> Nat]
      /\ c \notin HandlersWait => credit'[c] = 0
      /\ \A b \in Agents \ {c} : credit'[b] = credit[b]
  <2>1. credit \in [Agents -> Nat] /\ (notified => credit[c] >= 1)
    BY DEF TypeOK, CreditHolds
  <2>2. c \notin HandlersWait => (notified => credit[c] = 1) /\ (~notified => credit[c] = 0)
    BY DEF CreditHolds
  <2>3. CASE notified
    BY <1>1, <2>1, <2>2, <2>3
  <2>4. CASE ~notified
    BY <1>1, <2>1, <2>2, <2>4
  <2> QED BY <2>3, <2>4
<1>7. /\ wokenAt' \in [Agents -> Offsets \cup {"none"}]
      /\ \A b \in Agents \ {c} : wokenAt'[b] = wokenAt[b]
  BY <1>1 DEF TypeOK
<1>8. TypeOK'
  BY <1>1, <1>2, <1>3, <1>6, <1>7 DEF TypeOK
<1>9. NestingHolds'
  <2>1. ASSUME NEW b \in Agents, At(b)' = "error" PROVE Len(calls'[b]) > 1
    BY <1>3, <1>5, <2>1 DEF NestingHolds
  <2>2. ASSUME NEW b \in Agents, ~InWait(b)' PROVE state'[b] = "Idle"
    BY <1>2, <1>3, <2>2 DEF NestingHolds
  <2> QED BY <1>3, <2>1, <2>2 DEF NestingHolds
<1>10. \A b \in Agents \ HandlersWait : StateHolds(b)'
  BY <1>2, <1>3, <1>5 DEF StateHolds
<1>11. CreditHolds'
  <2>1. \A b \in Agents : state'[b] = "Woken" => credit'[b] >= 1
    BY <1>2, <1>6 DEF CreditHolds
  <2>2. \A b \in Agents \ HandlersWait :
            state'[b] = "Woken" => credit'[b] = 1 /\ (Top(b).off)' = wokenAt'[b]
    <3> SUFFICES ASSUME NEW b \in Agents \ HandlersWait, state'[b] = "Woken"
                 PROVE  credit'[b] = 1 /\ (Top(b).off)' = wokenAt'[b]
      OBVIOUS
    <3>1. b # c /\ state[b] = "Woken"
      BY <1>2
    <3>2. credit[b] = 1 /\ Top(b).off = wokenAt[b]
      BY <3>1 DEF CreditHolds
    <3>3. Top(b)' = Top(b) /\ credit'[b] = credit[b] /\ wokenAt'[b] = wokenAt[b]
      BY <1>3, <1>6, <1>7, <3>1
    <3> QED BY <3>2, <3>3
  <2>3. \A b \in Agents \ HandlersWait : state'[b] # "Woken" => credit'[b] = 0
    BY <1>2, <1>6 DEF CreditHolds
  <2> QED BY <2>1, <2>2, <2>3 DEF CreditHolds
<1>12. ValueHolds'
  BY <1>1, <1>2, <1>3 DEF ValueHolds, IsWaiting
<1> QED BY <1>3, <1>8, <1>9, <1>10, <1>11, <1>12

(* A refused wait returns, into the handler that called it. *)
LEMMA WaitRefusedStep ==
    ASSUME IndInv, NEW c \in Agents, WaitRefused(c)
    PROVE  IndInv'
<1> USE DEF IndInv
<1>1. /\ At(c) = "error" /\ calls' = [calls EXCEPT ![c] = Front(@)] /\ Unlink(c)
      /\ UNCHANGED <<value, state, urgent, requests, credit, wokenAt, unsaid>>
  BY DEF WaitRefused
<1>2. InWait(c) /\ Len(calls[c]) > 1 /\ c \in HandlersWait
  BY <1>1, Innermost DEF At, NestingHolds
<1>3. /\ calls' \in [Agents -> Seq(Call)]
      /\ \A b \in Agents \ {c} : At(b)' = At(b) /\ (InWait(b)' <=> InWait(b))
      /\ \A b \in Agents \ {c} : Top(b)' = Top(b)
      /\ \A b \in Agents \ {c} : calls'[b] = calls[b]
      /\ InWait(c)' /\ At(c)' = "handler"
      /\ ListHolds' /\ waiters' \in Seq(Waiter) /\ arrived' \in Seq(Waiter)
      /\ \A b \in Agents : Len(calls'[b]) <= MaxDepth
      /\ \A b \in Agents : \A d \in 1..Len(calls'[b]) :
            d < Len(calls'[b]) => calls'[b][d].at = "handler"
      /\ \A b \in Agents \ HandlersWait : Len(calls'[b]) <= 1
  BY <1>1, <1>2, UnlinkFacts
<1>4. TypeOK'
  BY <1>1, <1>3 DEF TypeOK
<1>5. NestingHolds'
  <2>1. ASSUME NEW b \in Agents, At(b)' = "error" PROVE Len(calls'[b]) > 1
    BY <1>3, <2>1 DEF NestingHolds
  <2>2. ASSUME NEW b \in Agents, ~InWait(b)' PROVE state'[b] = "Idle"
    BY <1>1, <1>3, <2>2 DEF NestingHolds
  <2> QED BY <1>3, <2>1, <2>2 DEF NestingHolds
<1>6. \A b \in Agents \ HandlersWait : StateHolds(b)'
  BY <1>1, <1>2, <1>3 DEF StateHolds
<1>7. CreditHolds' /\ ValueHolds'
  BY <1>1, <1>2, <1>3 DEF CreditHolds, ValueHolds, IsWaiting
<1> QED BY <1>3, <1>4, <1>5, <1>6, <1>7

(* The switch on state_ after the condition wait. *)
LEMMA ResumeStep ==
    ASSUME IndInv, NEW c \in Agents, Resume(c)
    PROVE  IndInv'
<1>1. /\ At(c) = "awake" /\ UNCHANGED <<value, urgent, requests>>
  BY DEF Resume
<1>2. InWait(c)
  BY <1>1 DEF At
<1>3. CASE state[c] = "Waiting" /\ Return(c, FALSE)
  BY <1>1, <1>2, <1>3, ReturnStep
<1>4. CASE state[c] = "Waiting" /\ SleepAgain(c)
  BY <1>1, <1>2, <1>4, SleepAgainStep
<1>5. CASE state[c] = "Woken" /\ Return(c, TRUE)
  BY <1>1, <1>2, <1>5, ReturnStep
<1>6. CASE /\ state[c] = "WaitingNotifiedForInterrupt" /\ SetState(c, "WaitingInterrupted")
           /\ GoTo(c, "interrupted") /\ UNCHANGED <<waiters, hist>>
  BY <1>1, <1>6, InterruptedStep
<1> QED BY <1>3, <1>4, <1>5, <1>6 DEF Resume

(* The interrupt has been handled. *)
LEMMA HandlerEndStep ==
    ASSUME IndInv, NEW c \in Agents, NEW ok \in BOOLEAN, HandlerEnd(c, ok)
    PROVE  IndInv'
<1>1. /\ At(c) \in {"handler", "interrupted"} /\ UNCHANGED <<value, urgent, requests>>
  BY DEF HandlerEnd
<1>2. InWait(c)
  BY <1>1 DEF At
<1>3. CASE Return(c, state[c] = "Woken")
  <2>1. (state[c] = "Woken") \in BOOLEAN
    OBVIOUS
  <2> QED BY <1>1, <1>2, <1>3, <2>1, ReturnStep
<1>4. CASE state[c] = "Woken" /\ Return(c, TRUE)
  BY <1>1, <1>2, <1>4, ReturnStep
<1>5. CASE state[c] # "Woken" /\ SleepAgain(c)
  BY <1>1, <1>2, <1>5, SleepAgainStep
<1> QED BY <1>3, <1>4, <1>5 DEF HandlerEnd

(* Every step preserves the invariant. *)
LEMMA NextIndInv == IndInv /\ [Next]_vars => IndInv'
<1> SUFFICES ASSUME IndInv, [Next]_vars PROVE IndInv'
  OBVIOUS
<1>1. CASE UNCHANGED vars
  <2>1. /\ UNCHANGED <<value, waiters, state, calls, hist, urgent, requests>>
    BY <1>1 DEF vars
  <2>2. Kept /\ \A b \in Agents : At(b)' = At(b)
    BY <2>1, SameCalls DEF IndInv
  <2>3. /\ \A b \in Agents \ HandlersWait : StateHolds(b)'
        /\ \A b \in Agents : IsWaiting(b)' => IsWaiting(b)
        /\ \A b \in Agents : ~InWait(b) => state'[b] = "Idle"
        /\ state' \in [Agents -> States] /\ urgent' \in [Agents -> BOOLEAN]
        /\ requests' \subseteq Agents
    BY <2>1, <2>2 DEF StateHolds, IsWaiting, IndInv, NestingHolds, TypeOK
  <2> QED BY <2>1, <2>2, <2>3, MoveStep
<1>2. CASE Next
  <2>1. PICK c \in Agents :
           \/ \E o \in Offsets, v \in Values :
                 \/ Store(c, o, v)
                 \/ \E limit \in {"none", "coming"} : Wait(c, o, v, limit)
           \/ \E o \in Offsets, count \in {1, -1} : Notify(c, o, count)
           \/ WaitRefused(c) \/ Deadline(c) \/ CondWakes(c) \/ Resume(c)
           \/ HandleInterrupt(c) \/ \E ok \in BOOLEAN : HandlerEnd(c, ok)
           \/ RequestInterrupt(c) \/ NotifyForJSInterrupt(c) \/ CheckForInterrupt(c)
    BY <1>2 DEF Next
  <2>2. CASE \E o \in Offsets, v \in Values :
                 \/ Store(c, o, v)
                 \/ \E limit \in {"none", "coming"} : Wait(c, o, v, limit)
    BY <2>2, StoreStep, WaitStep
  <2>3. CASE \E o \in Offsets, count \in {1, -1} : Notify(c, o, count)
    BY <2>3, NotifyStep
  <2>4. CASE WaitRefused(c) \/ Deadline(c) \/ CondWakes(c) \/ Resume(c) \/ HandleInterrupt(c)
    BY <2>4, WaitRefusedStep, DeadlineStep, CondWakesStep, ResumeStep, HandleInterruptStep
  <2>5. CASE \E ok \in BOOLEAN : HandlerEnd(c, ok)
    BY <2>5, HandlerEndStep
  <2>6. CASE RequestInterrupt(c) \/ NotifyForJSInterrupt(c) \/ CheckForInterrupt(c)
    BY <2>6, BitStep, NotifyForJSInterruptStep
  <2> QED BY <2>1, <2>2, <2>3, <2>4, <2>5, <2>6
<1> QED BY <1>1, <1>2

(* The invariant holds throughout. *)
THEOREM Invariance == Spec => []IndInv
BY InitIndInv, NextIndInv, PTL DEF Spec

-----------------------------------------------------------------------------
\* The properties.

(* Every variable keeps its type; no agent nests more waits than it may. *)
THEOREM TypeCorrect == Spec => []TypeOK
<1>1. IndInv => TypeOK
  BY DEF IndInv
<1> QED BY <1>1, Invariance, PTL

(* The waiter list holds one entry for every wait in progress, nested waits in
   interrupt handlers included, and none for a wait that has ended. *)
THEOREM ListMatchesCallsAlways == Spec => []ListMatchesCalls
<1>1. ASSUME IndInv PROVE ListMatchesCalls
  <2> USE <1>1 DEF IndInv
  <2> DEFINE E(c, d) == [cx |-> c, off |-> calls[c][d].off, depth |-> d]
  <2>1. ASSUME NEW w, w \in ToSet(waiters)
        PROVE  \E c \in Agents : \E d \in 1..Len(calls[c]) : w = E(c, d)
    <3>1. w \in Waiter /\ Contains(waiters, w)
      BY <2>1 DEF ToSet, Contains, TypeOK
    <3>2. w.cx \in Agents /\ w.depth \in 1..Len(calls[w.cx])
          /\ calls[w.cx][w.depth].off = w.off
      BY <3>1 DEF ListHolds, Linked, Waiter
    <3>3. w = E(w.cx, w.depth)
      BY <3>1, <3>2 DEF Waiter
    <3> QED BY <3>2, <3>3
  <2>2. ASSUME NEW c \in Agents, NEW d \in 1..Len(calls[c])
        PROVE  E(c, d) \in ToSet(waiters)
    <3>1. calls[c] \in Seq(Call) /\ Len(calls[c]) \in Nat /\ Len(calls[c]) <= MaxDepth
      BY Innermost
    <3>2. calls[c][d].off \in Offsets /\ d \in 1..MaxDepth
      <4>1. calls[c][d] \in Call
        BY <3>1
      <4>2. \A n, m \in Nat : n <= m => \A k \in 1..n : k \in 1..m
        OBVIOUS
      <4>3. MaxDepth \in Nat
        BY FutexAssumption
      <4>4. d \in 1..MaxDepth
        BY <3>1, <4>2, <4>3, Zenon
      <4> QED BY <4>1, <4>4 DEF Call
    <3>3. /\ E(c, d) \in Waiter /\ E(c, d).cx = c /\ E(c, d).depth = d
          /\ E(c, d).off = calls[c][d].off
      BY <3>2 DEF Waiter
    <3> HIDE DEF E
    <3>4. Linked(E(c, d))
      BY <3>3 DEF Linked
    <3> QED BY <3>3, <3>4 DEF ListHolds, Contains, ToSet, TypeOK
  <2>3. ToSet(waiters) = UNION {{E(c, d) : d \in 1..Len(calls[c])} : c \in Agents}
    <3> HIDE DEF E
    <3> QED BY <2>1, <2>2
  <2> QED BY <2>3 DEF ListMatchesCalls, ListHolds, NestingHolds
<1> QED BY <1>1, Invariance, PTL

(* Every wake-up that notify() counts is answered by one return of the wait on
   the notified location, and no wait returns OK without one. *)
THEOREM NotifyIsExactAlways == Spec => []NotifyIsExact
<1>1. IndInv => NotifyIsExact
  BY DEF IndInv, NotifyIsExact, CreditHolds
<1> QED BY <1>1, Invariance, PTL

(* An agent that waits for a change that has happened has not missed its
   notification, and an agent asleep has not missed a signal. *)
THEOREM NoLostNotifyAlways == Spec => []NoLostNotify
<1>1. IndInv => NoLostNotify
  BY DEF IndInv, NoLostNotify, ValueHolds, StateHolds
<1> QED BY <1>1, Invariance, PTL


(* state_ becomes Woken by an Atomics.notify and by nothing else. *)
LEMMA OnlyNotifyWakes ==
    ASSUME IndInv, Next, NEW a \in Agents, state'[a] = "Woken", state[a] # "Woken"
    PROVE  \E c \in Agents, o \in Offsets, count \in {1, -1} : Notify(c, o, count)
<1> SUFFICES ASSUME ~\E c \in Agents, o \in Offsets, count \in {1, -1} : Notify(c, o, count)
             PROVE  FALSE
  OBVIOUS
<1>1. PICK c \in Agents :
         \/ \E o \in Offsets, v \in Values :
               \/ Store(c, o, v)
               \/ \E limit \in {"none", "coming"} : Wait(c, o, v, limit)
         \/ WaitRefused(c) \/ Deadline(c) \/ CondWakes(c) \/ Resume(c)
         \/ HandleInterrupt(c) \/ \E ok \in BOOLEAN : HandlerEnd(c, ok)
         \/ RequestInterrupt(c) \/ NotifyForJSInterrupt(c) \/ CheckForInterrupt(c)
  BY DEF Next
<1>2. ASSUME NEW s \in States \ {"Woken"}, SetState(c, s) PROVE FALSE
  BY <1>2, SetStateFacts DEF IndInv
<1>3. ASSUME UNCHANGED state PROVE FALSE
  BY <1>3
<1>4. CASE \E o \in Offsets, v \in Values :
               \/ Store(c, o, v)
               \/ \E limit \in {"none", "coming"} : Wait(c, o, v, limit)
  BY <1>2, <1>3, <1>4 DEF Store, Wait, SetState, States
<1>5. CASE WaitRefused(c) \/ Deadline(c) \/ CondWakes(c) \/ HandleInterrupt(c)
           \/ RequestInterrupt(c) \/ CheckForInterrupt(c)
  BY <1>3, <1>5 DEF WaitRefused, Deadline, CondWakes, HandleInterrupt, RequestInterrupt,
     CheckForInterrupt
<1>6. CASE Resume(c)
  BY <1>2, <1>6 DEF Resume, Return, SleepAgain, States
<1>7. CASE \E ok \in BOOLEAN : HandlerEnd(c, ok)
  BY <1>2, <1>7 DEF HandlerEnd, Return, SleepAgain, States
<1>8. CASE NotifyForJSInterrupt(c)
  BY <1>2, <1>3, <1>8 DEF NotifyForJSInterrupt, States
<1> QED BY <1>1, <1>4, <1>5, <1>6, <1>7, <1>8

(* The walk of atomics_notify_impl() reaches earlier entries first: if it has
   notified the agent of entry j it has notified that of any earlier entry on
   the same location that was still waiting. *)
LEMMA EarlierIsNotified ==
    ASSUME IndInv, NEW o \in Offsets, NEW count \in {1, -1},
           NEW i \in 1..Len(waiters), NEW j \in Eligible(o), i < j,
           waiters[i].off = o, IsWaiting(waiters[i].cx),
           count > 0 => Cardinality({k \in Eligible(o) : k < j}) < count
    PROVE  waiters[i].cx \in Notified(o, count)
<1> DEFINE T == {k \in 1..Len(waiters) : waiters[k].off = o /\ waiters[k].cx = waiters[i].cx}
<1>1. Len(waiters) \in Nat
  BY DEF IndInv, TypeOK
<1>2. \E m \in T : \A k \in T : m <= k
  <2>1. T \in SUBSET Nat /\ T # {}
    BY <1>1
  <2> HIDE DEF T
  <2> QED BY <2>1, LeastElement
<1>3. PICK m \in T : \A k \in T : m <= k
  BY <1>2
<1>4. /\ m \in 1..Len(waiters) /\ m <= i /\ waiters[m].off = o
      /\ waiters[m].cx = waiters[i].cx
  BY <1>3
<1>5. m \in Eligible(o)
  <2>1. \A k \in 1..(m - 1) : k \in 1..Len(waiters) /\ ~(m <= k)
    BY <1>1, <1>4
  <2>2. \A k \in 1..(m - 1) : k \notin T
    BY <1>3, <2>1
  <2>3. \A k \in 1..(m - 1) : ~(waiters[k].off = o /\ waiters[k].cx = waiters[m].cx)
    BY <1>4, <2>1, <2>2
  <2> QED BY <1>4, <2>3 DEF Eligible
<1>6. count > 0 => Cardinality({k \in Eligible(o) : k < m}) < count
  <2>1. j \in 1..Len(waiters) /\ Eligible(o) \subseteq 1..Len(waiters)
    BY DEF Eligible
  <2>2. {k \in Eligible(o) : k < m} \subseteq {k \in Eligible(o) : k < j}
    BY <1>1, <1>4, <2>1
  <2>3. IsFiniteSet(1..Len(waiters))
    BY <1>1, FS_Interval
  <2>4. {k \in Eligible(o) : k < j} \subseteq 1..Len(waiters)
    BY <2>1
  <2>5. IsFiniteSet({k \in Eligible(o) : k < j})
    BY <2>3, <2>4, FS_Subset
  <2>6. /\ IsFiniteSet({k \in Eligible(o) : k < m})
        /\ Cardinality({k \in Eligible(o) : k < m}) <= Cardinality({k \in Eligible(o) : k < j})
    BY <2>2, <2>5, FS_Subset
  <2>7. /\ Cardinality({k \in Eligible(o) : k < m}) \in Nat
        /\ Cardinality({k \in Eligible(o) : k < j}) \in Nat
    BY <2>5, <2>6, FS_CardinalityType
  <2>8. \A x, y \in Nat : x <= y /\ y < count => x < count
    OBVIOUS
  <2> QED BY <2>6, <2>7, <2>8, Zenon
<1> QED BY <1>4, <1>5, <1>6 DEF Notified

(* Agents waiting on a location are woken in the order in which they began. *)
THEOREM WakesInOrder == Spec => Fifo
<1> DEFINE InOrder ==
      \A i, j \in 1..Len(arrived) :
        /\ arrived[j].cx \notin HandlersWait
        /\ i < j /\ arrived[i].off = arrived[j].off
        /\ IsWaiting(arrived[i].cx)
        /\ IsWaiting(arrived[j].cx) /\ state'[arrived[j].cx] = "Woken"
        => state'[arrived[i].cx] = "Woken"
<1>1. ASSUME IndInv, [Next]_vars PROVE [InOrder]_vars
  <2> SUFFICES ASSUME Next,
                      NEW i \in 1..Len(arrived), NEW j \in 1..Len(arrived),
                      arrived[j].cx \notin HandlersWait,
                      i < j, arrived[i].off = arrived[j].off,
                      IsWaiting(arrived[i].cx), IsWaiting(arrived[j].cx),
                      state'[arrived[j].cx] = "Woken"
               PROVE  state'[arrived[i].cx] = "Woken"
    BY <1>1 DEF vars
  <2> USE <1>1
  <2>1. arrived = waiters /\ \A k \in 1..Len(waiters) : waiters[k] \in Waiter
    BY DEF IndInv, ListHolds, TypeOK
  <2> DEFINE a == waiters[j].cx
             b == waiters[i].cx
  <2>2. a \in Agents \ HandlersWait /\ b \in Agents /\ waiters[j].off \in Offsets
    BY <2>1 DEF Waiter
  <2>3. PICK c \in Agents, o \in Offsets, count \in {1, -1} : Notify(c, o, count)
    <3>1. state[a] # "Woken" /\ state'[a] = "Woken"
      BY <2>1 DEF IsWaiting
    <3> HIDE DEF a
    <3> QED BY <2>2, <3>1, OnlyNotifyWakes
  <2>4. state' = [x \in Agents |-> IF x \in Notified(o, count) THEN "Woken" ELSE state[x]]
    BY <2>3 DEF Notify
  <2>5. a \in Notified(o, count)
    BY <2>1, <2>2, <2>4 DEF IsWaiting
  <2>6. PICK k \in Eligible(o) :
           /\ a = waiters[k].cx
           /\ count > 0 => Cardinality({x \in Eligible(o) : x < k}) < count
    BY <2>5 DEF Notified
  <2>7. k \in 1..Len(waiters) /\ waiters[k].off = o
    BY <2>6 DEF Eligible
  <2>8. k = j
    BY <2>1, <2>2, <2>6, <2>7, OneEntry
  <2>9. b \in Notified(o, count)
    BY <2>1, <2>3, <2>6, <2>7, <2>8, EarlierIsNotified
  <2> QED BY <2>1, <2>2, <2>4, <2>9
<1> QED BY <1>1, Invariance, PTL DEF Spec, Fifo

=============================================================================
