----------------------------- MODULE WasmTiering -----------------------------
(***************************************************************************)
(* Tiered wasm code (wasm/WasmModule.cpp, WasmCode.cpp, WasmInstance.cpp): *)
(* a module is compiled by the baseline compiler first, and a helper thread*)
(* compiles it again with the optimizing one and makes the second tier     *)
(* live (Module::finishTier2()) while JS threads call its exports.  The    *)
(* entry stub of an export is made when the export is first called, in the *)
(* best tier of that moment (EnsureEntryStubs()).                          *)
(*                                                                         *)
(* hasTier2_ is an atomic flag and each tier's lazy stubs have a lock; one *)
(* step of the code between two accesses of shared state is one action.    *)
(***************************************************************************)
EXTENDS Naturals

CONSTANTS Callers,  \* JS threads with instances of the module
          Funcs,    \* its exported functions, all without eager stubs
          Generator,  \* the helper thread that runs the tier-2 generator task
          Nobody    \* the holder of a free lock

ASSUME TieringAssumption ==
    Generator \notin Callers /\ Nobody \notin Callers \cup {Generator}

VARIABLES
    hasTier2,   \* Code::hasTier2_
    exports,    \* LazyStubTier::exports_ of each tier: entries per function
    holder,     \* who holds the lock of each tier's lazy stubs
    jitEntry,   \* JumpTables::jit_: the tier of a function's stub
    tierEntry,  \* JumpTables::tiering_: the tier a baseline prologue jumps to
    hasJitEntry, \* JSFunctions of the exports that were given a jit entry
    call,       \* each JS thread's EnsureEntryStubs(): place, function, tier
    generator,  \* where the tier-2 generator task is
    listener,   \* Module::tier2Listener_
    active      \* Module::testingTier2Active_

tierVars == <<hasTier2, exports, holder, jitEntry, tierEntry, hasJitEntry, call,
              generator, listener, active>>
genVars  == <<tierEntry, generator, listener, active>>

Tiers      == {"Baseline", "Optimized"}
CallPlaces == {"out", "tier", "locked", "again", "both"}
GenPlaces  == {"none", "queued", "compiled", "tier1", "commit", "entries",
               "jump", "over"}
\* "none": jit_ has no stub for the function yet.
Stub == Tiers \cup {"none"}

TierTypeOK ==
    /\ hasTier2 \in BOOLEAN
    /\ exports \in [Tiers -> [Funcs -> Nat]]
    /\ holder \in [Tiers -> Callers \cup {Generator, Nobody}]
    /\ jitEntry \in [Funcs -> Stub]
    /\ tierEntry \in [Funcs -> Tiers]
    /\ hasJitEntry \subseteq Callers \X Funcs
    /\ call \in [Callers -> [at : CallPlaces, func : Funcs, tier : Tiers]]
    /\ generator \in GenPlaces
    /\ listener \in BOOLEAN /\ active \in BOOLEAN

TierInit ==
    /\ hasTier2 = FALSE
    /\ exports = [t \in Tiers |-> [f \in Funcs |-> 0]]
    /\ holder = [t \in Tiers |-> Nobody]
    /\ jitEntry = [f \in Funcs |-> "none"]
    /\ tierEntry = [f \in Funcs |-> "Baseline"]
    /\ hasJitEntry = {}
    /\ \E f \in Funcs :
         call = [c \in Callers |-> [at |-> "out", func |-> f, tier |-> "Baseline"]]
    /\ generator = "none" /\ listener = FALSE /\ active = FALSE

BestTier == IF hasTier2 THEN "Optimized" ELSE "Baseline"

HasStub(t, f) == exports[t][f] > 0

Release(who) == [t \in Tiers |-> IF holder[t] = who THEN Nobody ELSE holder[t]]

-----------------------------------------------------------------------------
\* A JS thread in EnsureEntryStubs() and GetInterpEntry().

CallGoto(c, place) == call' = [call EXCEPT ![c].at = place]
Holds(c, t)        == holder' = [holder EXCEPT ![t] = c]

\* The first look at bestTier().
CallExport(c, f) ==
    /\ call[c].at = "out"
    /\ call' = [call EXCEPT ![c] = [at |-> "tier", func |-> f, tier |-> BestTier]]
    /\ UNCHANGED <<hasTier2, exports, holder, jitEntry, hasJitEntry, genVars>>

\* The lock of that tier's stubs, and what is found under it.
LockStubs(c) ==
    /\ call[c].at = "tier"
    /\ holder[call[c].tier] = Nobody
    /\ Holds(c, call[c].tier)
    /\ CallGoto(c, "locked")
    /\ UNCHANGED <<hasTier2, exports, jitEntry, hasJitEntry, genVars>>

\* The call is over: the locks are released and, if there is an entry, the
\* JSFunction gets the address of its jit entry.
Return(c, found) ==
    /\ CallGoto(c, "out")
    /\ holder' = Release(c)
    /\ hasJitEntry' = IF found THEN hasJitEntry \cup {<<c, call[c].func>>}
                               ELSE hasJitEntry

\* createOne(): createMany() of one stub, then setJitEntry().
CreateOne(t, f) ==
    /\ exports' = [exports EXCEPT ![t][f] = @ + 1]
    /\ jitEntry' = [jitEntry EXCEPT ![f] = t]

LookupWithoutSecondLook(c) == \* mutant: bestTier() is not read again
    /\ call[c].at = "locked"
    /\ IF HasStub(call[c].tier, call[c].func)
       THEN Return(c, TRUE) /\ UNCHANGED <<exports, jitEntry>>
       ELSE Return(c, TRUE) /\ CreateOne(call[c].tier, call[c].func)
    /\ UNCHANGED <<hasTier2, genVars>>

\* There is a stub; or the best tier is still the same, and one is made here if
\* memory allows; or it has changed.
LookupInterpEntry(c) ==
    /\ call[c].at = "locked"
    /\ LET t == call[c].tier
           f == call[c].func
       IN  \/ HasStub(t, f) /\ Return(c, TRUE) /\ UNCHANGED <<exports, jitEntry>>
           \/ ~HasStub(t, f) /\ BestTier = t /\ Return(c, TRUE) /\ CreateOne(t, f)
           \/ ~HasStub(t, f) /\ BestTier = t /\ Return(c, FALSE)
              /\ UNCHANGED <<exports, jitEntry>>
           \/ ~HasStub(t, f) /\ BestTier # t /\ CallGoto(c, "again")
              /\ UNCHANGED <<holder, hasJitEntry, exports, jitEntry>>
    /\ UNCHANGED <<hasTier2, genVars>>

\* The second tier's lock, taken on top of the first tier's.
LockStubs2(c) ==
    /\ call[c].at = "again"
    /\ holder["Optimized"] = Nobody
    /\ Holds(c, "Optimized")
    /\ CallGoto(c, "both")
    /\ UNCHANGED <<hasTier2, exports, jitEntry, hasJitEntry, genVars>>

CreateInTier2(c) ==
    /\ call[c].at = "both"
    /\ \/ Return(c, TRUE) /\ CreateOne("Optimized", call[c].func)
       \/ Return(c, FALSE) /\ UNCHANGED <<exports, jitEntry>>
    /\ UNCHANGED <<hasTier2, genVars>>

-----------------------------------------------------------------------------
\* The tier-2 generator task.

genLeaves == <<hasJitEntry, call>>
GenGoto(place) == generator' = place

\* startTier2() by whoever compiles the first tier, with a listener or without;
\* there may be no memory for the task or to queue it.
StartTier2 ==
    /\ generator = "none"
    /\ \/ /\ GenGoto("queued")
          /\ listener' \in BOOLEAN
          /\ active' = TRUE
       \/ GenGoto("over") /\ UNCHANGED <<listener, active>>
    /\ UNCHANGED <<hasTier2, exports, holder, jitEntry, tierEntry, genLeaves>>

\* runTask(), up to setTier2(); or the task is cancelled, on the worklist or in
\* the middle, or fails, and its destructor clears the module's fields.
CompileTier2 ==
    /\ generator = "queued"
    /\ GenGoto("compiled")
    /\ UNCHANGED <<hasTier2, exports, holder, jitEntry, tierEntry, listener, active,
                   genLeaves>>

DestroyTask ==
    /\ generator \in {"queued", "compiled"}
    /\ GenGoto("over")
    /\ listener' = FALSE /\ active' = FALSE
    /\ UNCHANGED <<hasTier2, exports, holder, jitEntry, tierEntry, genLeaves>>

FinishTier2LockTier1 ==
    /\ generator = "compiled"
    /\ holder["Baseline"] = Nobody
    /\ Holds(Generator, "Baseline")
    /\ GenGoto("tier1")
    /\ UNCHANGED <<hasTier2, exports, jitEntry, tierEntry, listener, active, genLeaves>>

\* The second lock, the exports that have a stub in the first tier, and
\* createTier2() of them all; failing, finishTier2() returns and both locks go.
CreateTier2 ==
    /\ generator = "tier1"
    /\ holder["Optimized"] = Nobody
    /\ \/ /\ Holds(Generator, "Optimized")
          /\ exports' = [exports EXCEPT !["Optimized"] =
               [f \in Funcs |-> IF HasStub("Baseline", f) THEN 1 ELSE 0]]
          /\ GenGoto("commit")
          /\ UNCHANGED <<listener, active>>
       \/ /\ holder' = Release(Generator)
          /\ GenGoto("over")
          /\ listener' = FALSE /\ active' = FALSE
          /\ UNCHANGED exports
    /\ UNCHANGED <<hasTier2, jitEntry, tierEntry, genLeaves>>

CommitTier2 ==
    /\ generator = "commit"
    /\ hasTier2' = TRUE
    /\ GenGoto("entries")
    /\ UNCHANGED <<exports, holder, jitEntry, tierEntry, listener, active, genLeaves>>

\* setJitEntries(), still under both locks.
SetJitEntries ==
    /\ generator = "entries"
    /\ jitEntry' = [f \in Funcs |-> IF HasStub("Optimized", f) THEN "Optimized"
                                    ELSE jitEntry[f]]
    /\ holder' = Release(Generator)
    /\ GenGoto("jump")
    /\ UNCHANGED <<hasTier2, exports, tierEntry, listener, active, genLeaves>>

\* The jump vector, one racy write after the other.
SetTieringEntry(f) ==
    /\ generator = "jump"
    /\ tierEntry[f] = "Baseline"
    /\ tierEntry' = [tierEntry EXCEPT ![f] = "Optimized"]
    /\ UNCHANGED <<hasTier2, exports, holder, jitEntry, generator, listener, active,
                   genLeaves>>

\* serialize() for the listener; then the task is done and destroyed.
Tier2Done ==
    /\ generator = "jump"
    /\ \A f \in Funcs : tierEntry[f] = "Optimized"
    /\ listener' = FALSE /\ active' = FALSE
    /\ GenGoto("over")
    /\ UNCHANGED <<hasTier2, exports, holder, jitEntry, tierEntry, genLeaves>>

-----------------------------------------------------------------------------
InCall(c) == LockStubs(c) \/ LookupInterpEntry(c) \/ LockStubs2(c) \/ CreateInTier2(c)

GeneratorStep ==
    \/ CompileTier2 \/ FinishTier2LockTier1 \/ CreateTier2 \/ CommitTier2
    \/ SetJitEntries \/ Tier2Done \/ \E f \in Funcs : SetTieringEntry(f)

TierNext ==
    \/ \E c \in Callers : InCall(c) \/ \E f \in Funcs : CallExport(c, f)
    \/ StartTier2 \/ GeneratorStep \/ DestroyTask

TierSpec == TierInit /\ [][TierNext]_tierVars

-----------------------------------------------------------------------------
\* Properties.

\* Whatever EnsureEntryStubs() and finishTier2() do at the same time, once tier
\* 2 is live every export with a stub in the first tier has one in the second
\* ("otherwise, tiering would break the assumption that any extant exported
\* wasm function has had a lazy entry stub already compiled for it"), no jit
\* entry is left at the first tier's stub, no JSFunction has been given a jit
\* entry that is not there, and nothing leads into tier 2 before it is live.
StubsFollowTier ==
    /\ hasTier2 => \A f \in Funcs : HasStub("Baseline", f) => HasStub("Optimized", f)
    /\ hasTier2 /\ generator # "entries" =>
         \A f \in Funcs : jitEntry[f] # "Baseline"
    /\ \A c \in Callers, f \in Funcs : <<c, f>> \in hasJitEntry => jitEntry[f] # "none"
    /\ ~hasTier2 => \A f \in Funcs : jitEntry[f] # "Optimized" /\ tierEntry[f] = "Baseline"

=============================================================================
