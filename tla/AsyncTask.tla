----------------------------- MODULE AsyncTask ------------------------------
(***************************************************************************)
(* What a GCParallelTask promises the GC: a family of calls that one       *)
(* caller requests and later collects.  A requested call runs exactly      *)
(* once, off thread or, if nobody has begun it, on the caller's thread     *)
(* when the caller comes to collect it; the caller does nothing else while *)
(* it runs a call itself.                                                  *)
(***************************************************************************)
CONSTANT Tasks

VARIABLE phase

Phases == {"idle", "pending", "running", "done", "inline"}

Init == phase = [t \in Tasks |-> "idle"]

Move(t, from, to) ==
    /\ phase[t] = from
    /\ phase' = [phase EXCEPT ![t] = to]

CallerFree == \A u \in Tasks : phase[u] # "inline"

Request(t)   == CallerFree /\ Move(t, "idle", "pending")
RunInline(t) == CallerFree /\ Move(t, "idle", "inline")
TakeBack(t)  == CallerFree /\ Move(t, "pending", "inline")
Return(t)    == Move(t, "inline", "idle")
Begin(t)     == Move(t, "pending", "running")
End(t)       == Move(t, "running", "done")
Collect(t)   == CallerFree /\ Move(t, "done", "idle")
Again(t)     == CallerFree /\ Move(t, "done", "pending")

Next == \E t \in Tasks : \/ Request(t) \/ RunInline(t) \/ TakeBack(t) \/ Return(t)
                         \/ Begin(t) \/ End(t) \/ Collect(t) \/ Again(t)

SafeSpec == Init /\ [][Next]_phase

Spec == /\ SafeSpec
        /\ \A t \in Tasks : /\ WF_phase(Begin(t) \/ TakeBack(t))
                            /\ WF_phase(End(t)) /\ WF_phase(Return(t))

=============================================================================
