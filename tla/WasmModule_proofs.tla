--------------------------- MODULE WasmModule_proofs ---------------------------
(***************************************************************************)
(* StubsFollowTier, DestroyedWhenDone and the types, for any number of JS  *)
(* threads and functions and any code section.                             *)
(*                                                                         *)
(* StubsFollowTier rests on who holds the locks of the two tiers' stubs    *)
(* (Locks): a thread that has looked under a lock holds it until it has    *)
(* acted, and the generator holds both from its look at the first tier's   *)
(* stubs until the jit entries are set.  TierProgress says which tiers can *)
(* be the best one meanwhile, and Entries what the stubs and the jump      *)
(* table have in common; between createTier2() and commitTier2() the stubs *)
(* already agree.                                                          *)
(*                                                                         *)
(* DestroyedWhenDone rests on who may still use the task: the place of the *)
(* stream thread determines streamState_ and whether there is a helper     *)
(* thread (CallbacksHold), one that has started waits for Closed, and the  *)
(* stream either fails or reaches its end, never both (EndHolds).          *)
(***************************************************************************)
EXTENDS WasmModule, TLAPS

Locks ==
    /\ \A c \in Callers :
         /\ call[c].at = "locked" => holder[call[c].tier] = c
         /\ call[c].at \in {"again", "both"} => holder["Baseline"] = c
         /\ call[c].at = "both" => holder["Optimized"] = c
    /\ generator \in {"tier1", "commit", "entries"} => holder["Baseline"] = Generator
    /\ generator \in {"commit", "entries"} => holder["Optimized"] = Generator

TierProgress ==
    /\ \A c \in Callers : /\ call[c].at \in {"again", "both"} => hasTier2
                          /\ call[c].tier = "Optimized" => hasTier2
    /\ generator \in {"entries", "jump"} => hasTier2
    /\ generator \in {"none", "queued", "compiled", "tier1", "commit"} => ~hasTier2

Entries ==
    /\ \A f \in Funcs : jitEntry[f] = "Baseline" => HasStub("Baseline", f)
    /\ \A t \in Tiers, f \in Funcs : HasStub(t, f) => jitEntry[f] # "none"
    /\ generator = "commit" =>
         \A f \in Funcs : HasStub("Baseline", f) => HasStub("Optimized", f)

\* The types that matter; Boolean flags are formulas here.
Types ==
    /\ exports \in [Tiers -> [Funcs -> Nat]]
    /\ holder \in [Tiers -> Callers \cup {Generator, Nobody}]
    /\ jitEntry \in [Funcs -> Stub]
    /\ tierEntry \in [Funcs -> Tiers]
    /\ call \in [Callers -> [at : CallPlaces, func : Funcs, tier : Tiers]]
    /\ generator \in GenPlaces

TierInv == Types /\ Locks /\ TierProgress /\ Entries /\ StubsFollowTier

\* The first states of the module's code have no stub and one tier.
LEMMA TierInitInv == TierInit => TierInv
<1> SUFFICES ASSUME TierInit PROVE TierInv
  OBVIOUS
<1>1. Types
  BY DEF TierInit, Types, Tiers, CallPlaces, GenPlaces, Stub
<1>2. Locks /\ TierProgress
  BY DEF TierInit, Locks, TierProgress, Tiers
<1>3. Entries /\ StubsFollowTier
  BY DEF TierInit, Entries, StubsFollowTier, HasStub, Tiers
<1> QED
  BY <1>1, <1>2, <1>3 DEF TierInv

\* The steps of a JS thread in EnsureEntryStubs().
LEMMA CallKeepsInv ==
    ASSUME TierInv, NEW c \in Callers,
           InCall(c) \/ \E f \in Funcs : CallExport(c, f)
    PROVE  TierInv'
<1> USE TieringAssumption DEF TierInv, Types, Locks, TierProgress, Entries,
        StubsFollowTier, HasStub, Tiers, Stub, CallPlaces, GenPlaces, BestTier, genVars
<1>1. ASSUME NEW f \in Funcs, CallExport(c, f) PROVE TierInv'
  BY <1>1 DEF CallExport
<1>2. CASE LockStubs(c)
  BY <1>2 DEF LockStubs, Holds, CallGoto
<1>3. CASE LookupInterpEntry(c)
  <2>1. CASE UNCHANGED <<exports, jitEntry>>
    BY <1>3, <2>1 DEF LookupInterpEntry, Return, CreateOne, Release, CallGoto
  <2>2. ASSUME ~HasStub(call[c].tier, call[c].func), BestTier = call[c].tier,
               Return(c, TRUE), CreateOne(call[c].tier, call[c].func)
        PROVE  TierInv'
    <3>1. UNCHANGED <<hasTier2, genVars>> /\ call[c].at = "locked"
      BY <1>3 DEF LookupInterpEntry
    <3>2. Types' /\ Locks' /\ TierProgress'
      BY <2>2, <3>1 DEF Return, CreateOne, Release, CallGoto
    <3>3. Entries'
      BY <2>2, <3>1 DEF Return, CreateOne, Release, CallGoto
    <3>4. StubsFollowTier'
      BY <2>2, <3>1 DEF Return, CreateOne, Release, CallGoto
    <3> QED BY <3>2, <3>3, <3>4
  <2> QED BY <1>3, <2>1, <2>2 DEF LookupInterpEntry
<1>4. CASE LockStubs2(c)
  BY <1>4 DEF LockStubs2, Holds, CallGoto
<1>5. CASE CreateInTier2(c)
  <2>1. ASSUME Return(c, FALSE), UNCHANGED <<exports, jitEntry>> PROVE TierInv'
    <3>1. UNCHANGED <<hasTier2, genVars>> /\ call[c].at = "both"
      BY <1>5 DEF CreateInTier2
    <3>2. UNCHANGED hasJitEntry
      BY <2>1 DEF Return
    <3> QED BY <2>1, <3>1, <3>2 DEF Return, Release, CallGoto
  <2>2. ASSUME Return(c, TRUE), CreateOne("Optimized", call[c].func) PROVE TierInv'
    <3>1. UNCHANGED <<hasTier2, genVars>> /\ call[c].at = "both"
      BY <1>5 DEF CreateInTier2
    <3>2. Types' /\ Locks' /\ TierProgress'
      BY <2>2, <3>1 DEF Return, CreateOne, Release, CallGoto
    <3>3. Entries'
      BY <2>2, <3>1 DEF Return, CreateOne, Release, CallGoto
    <3>4. StubsFollowTier'
      BY <2>2, <3>1 DEF Return, CreateOne, Release, CallGoto
    <3> QED BY <3>2, <3>3, <3>4
  <2> QED BY <1>5, <2>1, <2>2 DEF CreateInTier2
<1> QED
  BY <1>1, <1>2, <1>3, <1>4, <1>5 DEF InCall

\* The steps of the tier-2 generator task, its start and its end.
LEMMA GeneratorKeepsInv ==
    ASSUME TierInv, StartTier2 \/ GeneratorStep \/ DestroyTask
    PROVE  TierInv'
<1> USE TieringAssumption DEF TierInv, Types, Locks, TierProgress, Entries,
        StubsFollowTier, HasStub, Tiers, Stub, CallPlaces, GenPlaces, GenGoto, genLeaves
<1>1. CASE StartTier2
  BY <1>1 DEF StartTier2
<1>2. CASE CompileTier2
  BY <1>2 DEF CompileTier2
<1>3. CASE DestroyTask
  BY <1>3 DEF DestroyTask
<1>4. CASE FinishTier2LockTier1
  BY <1>4 DEF FinishTier2LockTier1, Holds
<1>5. CASE CreateTier2
  BY <1>5 DEF CreateTier2, Holds, Release
<1>6. CASE CommitTier2
  BY <1>6 DEF CommitTier2
<1>7. CASE SetJitEntries
  BY <1>7 DEF SetJitEntries, Release
<1>8. ASSUME NEW f \in Funcs, SetTieringEntry(f) PROVE TierInv'
  BY <1>8 DEF SetTieringEntry
<1>9. CASE Tier2Done
  BY <1>9 DEF Tier2Done
<1> QED
  BY <1>1, <1>2, <1>3, <1>4, <1>5, <1>6, <1>7, <1>8, <1>9 DEF GeneratorStep

\* Of a step that leaves the module's code alone nothing is to be shown.
LEMMA StutterKeepsInv == TierInv /\ UNCHANGED tierVars => TierInv'
BY DEF tierVars, TierInv, Types, Locks, TierProgress, Entries, StubsFollowTier, HasStub

\* Who holds which lock, and what the stubs have in common, always.
THEOREM TierInvariance == Spec => []TierInv
<1>1. Init => TierInv
  BY TierInitInv DEF Init
<1>2. TierInv /\ [Next]_vars => TierInv'
  <2> SUFFICES ASSUME TierInv, [Next]_vars PROVE TierInv'
    OBVIOUS
  <2>1. CASE UNCHANGED tierVars
    BY <2>1, StutterKeepsInv
  <2>2. CASE CompileModule
    BY <2>1, <2>2, GeneratorKeepsInv DEF CompileModule
  <2>3. CASE GeneratorStep \/ DestroyTask
    BY <2>3, GeneratorKeepsInv
  <2>4. ASSUME NEW c \in Callers, InCall(c) \/ \E f \in Funcs : Call(c, f)
        PROVE  TierInv'
    BY <2>4, CallKeepsInv DEF Call
  <2> QED
    BY <2>1, <2>2, <2>3, <2>4 DEF Next, vars, Terminated
<1> QED
  BY <1>1, <1>2, PTL DEF Spec

\* While a module is streamed, compiled, called by any number of JS threads and
\* tiered up, the stubs of the two tiers and the jump tables stay consistent.
THEOREM StubsFollowTierAlways == Spec => []StubsFollowTier
<1>1. TierInv => StubsFollowTier
  BY DEF TierInv
<1> QED
  BY <1>1, TierInvariance, PTL

-----------------------------------------------------------------------------
\* The stream.

\* Where the stream thread is says in which state the stream is, and whether the
\* helper thread was started.
CallbacksHold ==
    /\ stream.at \in {"none", "start", "started"} => streamState = "Env"
    /\ stream.at \in {"code", "copied"} => streamState = "Code"
    /\ stream.at = "tail" => streamState = "Tail"
    /\ stream.at \in {"failBytes", "failEnd", "close"} => streamState \in {"Code", "Tail"}
    /\ stream.at \in {"dispatch", "gone"} <=> streamState = "Closed"
    /\ helper.at = "none" => \/ stream.at \in {"none", "start", "dispatch", "gone"}
                             \/ stream.at = "ready" /\ streamState = "Env"
    /\ helper.at # "none" => \/ stream.at \notin {"none", "start", "dispatch", "ready"}
                             \/ stream.at = "ready" /\ streamState # "Env"

\* The end of the stream is its success or its failure, and the last callback.
EndHolds ==
    /\ reached => stream.at \in {"close", "gone"} /\ ~streamFailed
    /\ streamFailed => stream.at \in {"failBytes", "failEnd", "close", "gone"}
    /\ helper.at = "none" => ~reached /\ ~streamFailed

\* The bytes decoded have arrived.
BytesHold ==
    /\ received = codeBytesEnd /\ helper.decoded <= received
    /\ helper.at \in {"end", "tail"} => helper.decoded = CodeSize
    /\ helper.at = "tail" => reached
    /\ helper.at \in {"dispatch", "gone"} => streamState = "Closed"

\* Who has set what of module_, streamError_ and compileError_.
OutcomeHolds ==
    /\ helper.at = "none" /\ streamState # "Closed" => outcome = {}
    /\ helper.at \in {"queued", "env", "code", "end", "tail"} =>
         outcome \subseteq {"streamError", "streamOOM"}
    /\ helper.at # "none" /\ outcome \cap {"streamError", "streamOOM"} # {} => streamFailed
    /\ helper.at # "none" /\ streamFailed => "module" \notin outcome
    /\ "module" \in outcome => outcome = {"module"}
    /\ "module" \in outcome /\ helper.at # "none" => reached /\ received = CodeSize

\* The task is pending while somebody will use it.
PromiseHolds ==
    /\ dispatches = IF promise \in {"pending", "dropped"} THEN 0 ELSE 1
    /\ stream.at \notin {"none", "gone"} => promise = "pending"
    /\ helper.at \notin {"none", "gone"} => promise = "pending"
    /\ promise \in {"dispatched", "resolved", "rejected", "unsettled"} => stream.at = "gone"
    /\ promise = "dropped" => stream.at = "none"

StreamInv == /\ StreamTypeOK /\ CallbacksHold /\ EndHolds /\ BytesHold /\ OutcomeHolds
             /\ PromiseHolds

-----------------------------------------------------------------------------
(* The task is handed to the stream, or dropped. *)
LEMMA ConsumeStreamKept ==
    ASSUME StreamInv, ConsumeStream
    PROVE  StreamInv'
<1> USE CodeSizeAssumption DEF StreamInv, StreamTypeOK, CallbacksHold, EndHolds,
        BytesHold, OutcomeHolds, PromiseHolds, sharedData, StreamStates, Conditions,
        ConsumeStream, StreamGoto
<1>1. StreamTypeOK' BY DEF StreamPlaces, HelperPlaces
<1>2. CallbacksHold' OBVIOUS
<1>3. EndHolds' OBVIOUS
<1>4. BytesHold' OBVIOUS
<1>5. OutcomeHolds' OBVIOUS
<1>6. PromiseHolds' OBVIOUS
<1> QED BY <1>1, <1>2, <1>3, <1>4, <1>5, <1>6

(* resolve() is called on what the dispatcher left behind. *)
LEMMA ResolveKept ==
    ASSUME StreamInv, Resolve
    PROVE  StreamInv'
<1> USE CodeSizeAssumption DEF StreamInv, StreamTypeOK, CallbacksHold, EndHolds,
        BytesHold, OutcomeHolds, PromiseHolds, sharedData, StreamStates, Conditions,
        Resolve, RejectWithStreamErrorNumber, RejectWithPendingException
<1>1. StreamTypeOK' BY DEF StreamPlaces, HelperPlaces
<1>2. CallbacksHold' OBVIOUS
<1>3. EndHolds' OBVIOUS
<1>4. BytesHold' OBVIOUS
<1>5. OutcomeHolds' OBVIOUS
<1>6. PromiseHolds' OBVIOUS
<1> QED BY <1>1, <1>2, <1>3, <1>4, <1>5, <1>6

(* The helper thread gets the task, or the stream is rejected before. *)
LEMMA StartOffThreadKept ==
    ASSUME StreamInv, StartOffThread
    PROVE  StreamInv'
<1> USE CodeSizeAssumption DEF StreamInv, StreamTypeOK, CallbacksHold, EndHolds,
        BytesHold, OutcomeHolds, PromiseHolds, sharedData, StreamStates, Conditions,
        StartOffThread, StreamGoto, HelperGoto, RejectBeforeHelperThreadStarted,
        SetClosedBeforeHelperThreadStarted
<1>1. StreamTypeOK' BY DEF StreamPlaces, HelperPlaces
<1>2. CallbacksHold' OBVIOUS
<1>3. EndHolds' OBVIOUS
<1>4. BytesHold' OBVIOUS
<1>5. OutcomeHolds' OBVIOUS
<1>6. PromiseHolds' OBVIOUS
<1> QED BY <1>1, <1>2, <1>3, <1>4, <1>5, <1>6

(* streamState_ becomes Code on the thread that started the helper. *)
LEMMA EnterCodeKept ==
    ASSUME StreamInv, EnterCode
    PROVE  StreamInv'
<1> USE CodeSizeAssumption DEF StreamInv, StreamTypeOK, CallbacksHold, EndHolds,
        BytesHold, OutcomeHolds, PromiseHolds, sharedData, StreamStates, Conditions,
        EnterCode, StreamGoto, StreamReturns
<1>1. StreamTypeOK' BY DEF StreamPlaces, HelperPlaces
<1>2. CallbacksHold' OBVIOUS
<1>3. EndHolds' OBVIOUS
<1>4. BytesHold' OBVIOUS
<1>5. OutcomeHolds' OBVIOUS
<1>6. PromiseHolds' OBVIOUS
<1> QED BY <1>1, <1>2, <1>3, <1>4, <1>5, <1>6

(* The bytes of a chunk are published. *)
LEMMA ConsumeCodeKept ==
    ASSUME StreamInv, ConsumeCode
    PROVE  StreamInv'
<1> USE CodeSizeAssumption DEF StreamInv, StreamTypeOK, CallbacksHold, EndHolds,
        BytesHold, OutcomeHolds, PromiseHolds, sharedData, StreamStates, Conditions,
        ConsumeCode, NotifyHelper
<1>1. StreamTypeOK' BY DEF StreamPlaces, HelperPlaces
<1>2. CallbacksHold' OBVIOUS
<1>3. EndHolds' OBVIOUS
<1>4. BytesHold' OBVIOUS
<1>5. OutcomeHolds' OBVIOUS
<1>6. PromiseHolds' OBVIOUS
<1> QED BY <1>1, <1>2, <1>3, <1>4, <1>5, <1>6

(* streamState_ becomes Tail only when the code section is complete. *)
LEMMA EnterTailKept ==
    ASSUME StreamInv, EnterTail
    PROVE  StreamInv'
<1> USE CodeSizeAssumption DEF StreamInv, StreamTypeOK, CallbacksHold, EndHolds,
        BytesHold, OutcomeHolds, PromiseHolds, sharedData, StreamStates, Conditions,
        EnterTail, StreamGoto, StreamReturns
<1>1. StreamTypeOK' BY DEF StreamPlaces, HelperPlaces
<1>2. CallbacksHold' OBVIOUS
<1>3. EndHolds' OBVIOUS
<1>4. BytesHold' OBVIOUS
<1>5. OutcomeHolds' OBVIOUS
<1>6. PromiseHolds' OBVIOUS
<1> QED BY <1>1, <1>2, <1>3, <1>4, <1>5, <1>6

(* The rest of a chunk is kept, or the stream fails. *)
LEMMA ConsumeTailKept ==
    ASSUME StreamInv, ConsumeTail
    PROVE  StreamInv'
<1> USE DEF StreamInv, sharedData, StreamStates, Conditions
<1>t. StreamTypeOK'
  <2>1. CASE StreamReturns /\ UNCHANGED <<outcome, streamFailed>>
    BY <2>1, CodeSizeAssumption DEF StreamTypeOK, StreamPlaces, ConsumeTail, StreamReturns
  <2>2. CASE RejectAfterHelperThreadStarted("streamOOM")
    <3>1. streamFailed' = TRUE BY <2>2 DEF RejectAfterHelperThreadStarted
    <3> QED BY <2>2, <3>1 DEF StreamTypeOK, StreamPlaces, ConsumeTail, StreamGoto,
                              RejectAfterHelperThreadStarted
  <2> QED BY <2>1, <2>2 DEF ConsumeTail
<1>1. CallbacksHold'
  BY CodeSizeAssumption DEF StreamTypeOK, CallbacksHold, EndHolds, BytesHold,
     OutcomeHolds, PromiseHolds, ConsumeTail, StreamGoto, StreamReturns,
     RejectAfterHelperThreadStarted
<1>2. EndHolds'
  BY CodeSizeAssumption DEF StreamTypeOK, CallbacksHold, EndHolds, BytesHold,
     OutcomeHolds, PromiseHolds, ConsumeTail, StreamGoto, StreamReturns,
     RejectAfterHelperThreadStarted
<1>3. BytesHold'
  BY CodeSizeAssumption DEF StreamTypeOK, CallbacksHold, EndHolds, BytesHold,
     OutcomeHolds, PromiseHolds, ConsumeTail, StreamGoto, StreamReturns,
     RejectAfterHelperThreadStarted
<1>4. OutcomeHolds'
  BY CodeSizeAssumption DEF StreamTypeOK, CallbacksHold, EndHolds, BytesHold,
     OutcomeHolds, PromiseHolds, ConsumeTail, StreamGoto, StreamReturns,
     RejectAfterHelperThreadStarted
<1>5. PromiseHolds'
  BY CodeSizeAssumption DEF StreamTypeOK, CallbacksHold, EndHolds, BytesHold,
     OutcomeHolds, PromiseHolds, ConsumeTail, StreamGoto, StreamReturns,
     RejectAfterHelperThreadStarted
<1> QED BY <1>t, <1>1, <1>2, <1>3, <1>4, <1>5

(* A failed stream wakes the helper that waits for bytes. *)
LEMMA NotifyCodeBytesKept ==
    ASSUME StreamInv, NotifyCodeBytes
    PROVE  StreamInv'
<1> USE CodeSizeAssumption DEF StreamInv, StreamTypeOK, CallbacksHold, EndHolds,
        BytesHold, OutcomeHolds, PromiseHolds, sharedData, StreamStates, Conditions,
        NotifyCodeBytes, NotifyHelper, StreamGoto
<1>1. StreamTypeOK' BY DEF StreamPlaces, HelperPlaces
<1>2. CallbacksHold' OBVIOUS
<1>3. EndHolds' OBVIOUS
<1>4. BytesHold' OBVIOUS
<1>5. OutcomeHolds' OBVIOUS
<1>6. PromiseHolds' OBVIOUS
<1> QED BY <1>1, <1>2, <1>3, <1>4, <1>5, <1>6

(* A failed stream wakes the helper that waits for the end. *)
LEMMA NotifyStreamEndKept ==
    ASSUME StreamInv, NotifyStreamEnd
    PROVE  StreamInv'
<1> USE CodeSizeAssumption DEF StreamInv, StreamTypeOK, CallbacksHold, EndHolds,
        BytesHold, OutcomeHolds, PromiseHolds, sharedData, StreamStates, Conditions,
        NotifyStreamEnd, NotifyHelper, StreamGoto
<1>1. StreamTypeOK' BY DEF StreamPlaces, HelperPlaces
<1>2. CallbacksHold' OBVIOUS
<1>3. EndHolds' OBVIOUS
<1>4. BytesHold' OBVIOUS
<1>5. OutcomeHolds' OBVIOUS
<1>6. PromiseHolds' OBVIOUS
<1> QED BY <1>1, <1>2, <1>3, <1>4, <1>5, <1>6

(* The stream thread's last access to the task. *)
LEMMA SetClosedAfterHelperThreadStartedKept ==
    ASSUME StreamInv, SetClosedAfterHelperThreadStarted
    PROVE  StreamInv'
<1> USE CodeSizeAssumption DEF StreamInv, StreamTypeOK, CallbacksHold, EndHolds,
        BytesHold, OutcomeHolds, PromiseHolds, sharedData, StreamStates, Conditions,
        SetClosedAfterHelperThreadStarted, NotifyHelper, StreamGoto
<1>1. StreamTypeOK' BY DEF StreamPlaces, HelperPlaces
<1>2. CallbacksHold' OBVIOUS
<1>3. EndHolds' OBVIOUS
<1>4. BytesHold' OBVIOUS
<1>5. OutcomeHolds' OBVIOUS
<1>6. PromiseHolds' OBVIOUS
<1> QED BY <1>1, <1>2, <1>3, <1>4, <1>5, <1>6

(* The stream thread dispatches: there is no helper. *)
LEMMA DispatchBeforeHelperThreadStartedKept ==
    ASSUME StreamInv, DispatchBeforeHelperThreadStarted
    PROVE  StreamInv'
<1> USE CodeSizeAssumption DEF StreamInv, StreamTypeOK, CallbacksHold, EndHolds,
        BytesHold, OutcomeHolds, PromiseHolds, sharedData, StreamStates, Conditions,
        DispatchBeforeHelperThreadStarted, Dispatched, StreamGoto
<1>1. StreamTypeOK' BY DEF StreamPlaces, HelperPlaces
<1>2. CallbacksHold' OBVIOUS
<1>3. EndHolds' OBVIOUS
<1>4. BytesHold' OBVIOUS
<1>5. OutcomeHolds' OBVIOUS
<1>6. PromiseHolds' OBVIOUS
<1> QED BY <1>1, <1>2, <1>3, <1>4, <1>5, <1>6

(* A chunk before the code section. *)
LEMMA ConsumeEnvKept ==
    ASSUME StreamInv, ConsumeEnv
    PROVE  StreamInv'
<1> USE CodeSizeAssumption DEF StreamInv, StreamTypeOK, CallbacksHold, EndHolds,
        BytesHold, OutcomeHolds, PromiseHolds, sharedData, StreamStates, Conditions,
        ConsumeEnv, StreamGoto, RejectBeforeHelperThreadStarted,
        SetClosedBeforeHelperThreadStarted
<1>1. StreamTypeOK' BY DEF StreamPlaces, HelperPlaces
<1>2. CallbacksHold' OBVIOUS
<1>3. EndHolds' OBVIOUS
<1>4. BytesHold' OBVIOUS
<1>5. OutcomeHolds' OBVIOUS
<1>6. PromiseHolds' OBVIOUS
<1> QED BY <1>1, <1>2, <1>3, <1>4, <1>5, <1>6

(* A chunk in or after it. *)
LEMMA ConsumeChunkKept ==
    ASSUME StreamInv, ConsumeChunk
    PROVE  StreamInv'
<1> USE CodeSizeAssumption DEF StreamInv, StreamTypeOK, CallbacksHold, EndHolds,
        BytesHold, OutcomeHolds, PromiseHolds, sharedData, StreamStates, Conditions,
        ConsumeChunk
<1>1. StreamTypeOK' BY DEF StreamPlaces, HelperPlaces
<1>2. CallbacksHold' OBVIOUS
<1>3. EndHolds' OBVIOUS
<1>4. BytesHold' OBVIOUS
<1>5. OutcomeHolds' OBVIOUS
<1>6. PromiseHolds' OBVIOUS
<1> QED BY <1>1, <1>2, <1>3, <1>4, <1>5, <1>6

(* streamError() in either half of the stream's life. *)
LEMMA StreamErrorKept ==
    ASSUME StreamInv, StreamError
    PROVE  StreamInv'
<1> USE CodeSizeAssumption DEF StreamInv, StreamTypeOK, CallbacksHold, EndHolds,
        BytesHold, OutcomeHolds, PromiseHolds, sharedData, StreamStates, Conditions,
        StreamError, StreamGoto, RejectBeforeHelperThreadStarted,
        SetClosedBeforeHelperThreadStarted, RejectAfterHelperThreadStarted
<1>1. StreamTypeOK' BY DEF StreamPlaces, HelperPlaces
<1>2. CallbacksHold' OBVIOUS
<1>3. EndHolds' OBVIOUS
<1>4. BytesHold' OBVIOUS
<1>5. OutcomeHolds' OBVIOUS
<1>6. PromiseHolds' OBVIOUS
<1> QED BY <1>1, <1>2, <1>3, <1>4, <1>5, <1>6

(* streamEnd() is the last callback of a stream that has not failed. *)
LEMMA StreamEndKept ==
    ASSUME StreamInv, StreamEnd
    PROVE  StreamInv'
<1> USE CodeSizeAssumption DEF StreamInv, StreamTypeOK, CallbacksHold, EndHolds,
        BytesHold, OutcomeHolds, PromiseHolds, sharedData, StreamStates, Conditions,
        StreamEnd, NotifyHelper, StreamGoto
<1>1. StreamTypeOK' BY DEF StreamPlaces, HelperPlaces
<1>2. CallbacksHold' OBVIOUS
<1>3. EndHolds' OBVIOUS
<1>4. BytesHold' OBVIOUS
<1>5. OutcomeHolds' OBVIOUS
<1>6. PromiseHolds' OBVIOUS
<1> QED BY <1>1, <1>2, <1>3, <1>4, <1>5, <1>6

(* A helper thread takes the task. *)
LEMMA RunTaskKept ==
    ASSUME StreamInv, RunTask
    PROVE  StreamInv'
<1> USE CodeSizeAssumption DEF StreamInv, StreamTypeOK, CallbacksHold, EndHolds,
        BytesHold, OutcomeHolds, PromiseHolds, sharedData, StreamStates, Conditions,
        RunTask, HelperGoto, helperLeaves
<1>1. StreamTypeOK' BY DEF StreamPlaces, HelperPlaces
<1>2. CallbacksHold' OBVIOUS
<1>3. EndHolds' OBVIOUS
<1>4. BytesHold' OBVIOUS
<1>5. OutcomeHolds' OBVIOUS
<1>6. PromiseHolds' OBVIOUS
<1> QED BY <1>1, <1>2, <1>3, <1>4, <1>5, <1>6

(* It decodes what precedes the code section. *)
LEMMA DecodeEnvKept ==
    ASSUME StreamInv, DecodeEnv
    PROVE  StreamInv'
<1> USE CodeSizeAssumption DEF StreamInv, StreamTypeOK, CallbacksHold, EndHolds,
        BytesHold, OutcomeHolds, PromiseHolds, sharedData, StreamStates, Conditions,
        DecodeEnv, HelperGoto, GiveUp, helperLeaves
<1>1. StreamTypeOK' BY DEF StreamPlaces, HelperPlaces
<1>2. CallbacksHold' OBVIOUS
<1>3. EndHolds' OBVIOUS
<1>4. BytesHold' OBVIOUS
<1>5. OutcomeHolds' OBVIOUS
<1>6. PromiseHolds' OBVIOUS
<1> QED BY <1>1, <1>2, <1>3, <1>4, <1>5, <1>6

(* It decodes a piece that has arrived, waits for one, or gives up. *)
LEMMA DecodeCodeKept ==
    ASSUME StreamInv, DecodeCode
    PROVE  StreamInv'
<1> USE DEF StreamInv, sharedData, StreamStates, Conditions
<1>0. /\ helper' \in [at : HelperPlaces, decoded : 0..CodeSize, asleep : Conditions]
      /\ \/ helper'.decoded = helper.decoded /\ helper'.at \in {"code", "close"}
         \/ /\ helper.decoded < codeBytesEnd /\ helper'.decoded = helper.decoded + 1
            /\ helper'.at = IF helper.decoded + 1 = CodeSize THEN "end" ELSE "code"
  <2>1. CASE \/ \E error \in BOOLEAN : GiveUp(error)
             \/ Sleep("bytes")
    BY <2>1 DEF StreamTypeOK, HelperPlaces, GiveUp, Sleep, HelperGoto, DecodeCode, Awake
  <2>2. CASE /\ codeBytesEnd > helper.decoded
             /\ helper' = [helper EXCEPT !.decoded = @ + 1,
                     !.at = IF helper.decoded + 1 = CodeSize THEN "end" ELSE "code"]
    <3>1. helper.decoded + 1 \in 0..CodeSize
      BY <2>2, CodeSizeAssumption DEF StreamTypeOK
    <3> QED BY <2>2, <3>1 DEF StreamTypeOK, HelperPlaces
  <2> QED BY <2>1, <2>2 DEF DecodeCode
<1>t. StreamTypeOK'
  BY <1>0 DEF StreamTypeOK, DecodeCode, GiveUp, helperLeaves
<1>1. CallbacksHold'
  BY CodeSizeAssumption DEF StreamTypeOK, CallbacksHold, EndHolds, BytesHold,
     OutcomeHolds, PromiseHolds, DecodeCode, Awake, Sleep, HelperGoto, GiveUp,
     helperLeaves
<1>2. EndHolds'
  BY CodeSizeAssumption DEF StreamTypeOK, CallbacksHold, EndHolds, BytesHold,
     OutcomeHolds, PromiseHolds, DecodeCode, Awake, Sleep, HelperGoto, GiveUp,
     helperLeaves
<1>3. BytesHold'
  BY <1>0, CodeSizeAssumption DEF StreamTypeOK, CallbacksHold, EndHolds, BytesHold,
     OutcomeHolds, PromiseHolds, DecodeCode, Awake, Sleep, HelperGoto, GiveUp,
     helperLeaves
<1>4. OutcomeHolds'
  BY CodeSizeAssumption DEF StreamTypeOK, CallbacksHold, EndHolds, BytesHold,
     OutcomeHolds, PromiseHolds, DecodeCode, Awake, Sleep, HelperGoto, GiveUp,
     helperLeaves
<1>5. PromiseHolds'
  BY CodeSizeAssumption DEF StreamTypeOK, CallbacksHold, EndHolds, BytesHold,
     OutcomeHolds, PromiseHolds, DecodeCode, Awake, Sleep, HelperGoto, GiveUp,
     helperLeaves
<1> QED BY <1>t, <1>1, <1>2, <1>3, <1>4, <1>5

(* It waits for the end of the stream, or gives up. *)
LEMMA AwaitStreamEndKept ==
    ASSUME StreamInv, AwaitStreamEnd
    PROVE  StreamInv'
<1> USE CodeSizeAssumption DEF StreamInv, StreamTypeOK, CallbacksHold, EndHolds,
        BytesHold, OutcomeHolds, PromiseHolds, sharedData, StreamStates, Conditions,
        AwaitStreamEnd, Awake, Sleep, HelperGoto, GiveUp, helperLeaves
<1>1. StreamTypeOK' BY DEF StreamPlaces, HelperPlaces
<1>2. CallbacksHold' OBVIOUS
<1>3. EndHolds' OBVIOUS
<1>4. BytesHold' OBVIOUS
<1>5. OutcomeHolds' OBVIOUS
<1>6. PromiseHolds' OBVIOUS
<1> QED BY <1>1, <1>2, <1>3, <1>4, <1>5, <1>6

(* It waits until the stream thread is through. *)
LEMMA AwaitClosedKept ==
    ASSUME StreamInv, AwaitClosed
    PROVE  StreamInv'
<1> USE CodeSizeAssumption DEF StreamInv, StreamTypeOK, CallbacksHold, EndHolds,
        BytesHold, OutcomeHolds, PromiseHolds, sharedData, StreamStates, Conditions,
        AwaitClosed, Awake, Sleep, HelperGoto, helperLeaves
<1>1. StreamTypeOK' BY DEF StreamPlaces, HelperPlaces
<1>2. CallbacksHold' OBVIOUS
<1>3. EndHolds' OBVIOUS
<1>4. BytesHold' OBVIOUS
<1>5. OutcomeHolds' OBVIOUS
<1>6. PromiseHolds' OBVIOUS
<1> QED BY <1>1, <1>2, <1>3, <1>4, <1>5, <1>6

(* The helper thread dispatches: the stream thread is through. *)
LEMMA DispatchResolveAndDestroyKept ==
    ASSUME StreamInv, DispatchResolveAndDestroy
    PROVE  StreamInv'
<1> USE CodeSizeAssumption DEF StreamInv, StreamTypeOK, CallbacksHold, EndHolds,
        BytesHold, OutcomeHolds, PromiseHolds, sharedData, StreamStates, Conditions,
        DispatchResolveAndDestroy, Dispatched, HelperGoto
<1>1. StreamTypeOK' BY DEF StreamPlaces, HelperPlaces
<1>2. CallbacksHold' OBVIOUS
<1>3. EndHolds' OBVIOUS
<1>4. BytesHold' OBVIOUS
<1>5. OutcomeHolds' OBVIOUS
<1>6. PromiseHolds' OBVIOUS
<1> QED BY <1>1, <1>2, <1>3, <1>4, <1>5, <1>6

(* A wake-up changes nothing else. *)
LEMMA SpuriousHelperWakeupKept ==
    ASSUME StreamInv, SpuriousHelperWakeup
    PROVE  StreamInv'
<1> USE CodeSizeAssumption DEF StreamInv, StreamTypeOK, CallbacksHold, EndHolds,
        BytesHold, OutcomeHolds, PromiseHolds, sharedData, StreamStates, Conditions,
        SpuriousHelperWakeup, helperLeaves
<1>1. StreamTypeOK' BY DEF StreamPlaces, HelperPlaces
<1>2. CallbacksHold' OBVIOUS
<1>3. EndHolds' OBVIOUS
<1>4. BytesHold' OBVIOUS
<1>5. OutcomeHolds' OBVIOUS
<1>6. PromiseHolds' OBVIOUS
<1> QED BY <1>1, <1>2, <1>3, <1>4, <1>5, <1>6

(* streamEnd() with no code section compiles in place. *)
LEMMA StreamEndInEnvKept ==
    ASSUME StreamInv, NEW module \in BOOLEAN, StreamEndInEnv(module)
    PROVE  StreamInv'
<1> USE CodeSizeAssumption DEF StreamInv, StreamTypeOK, CallbacksHold, EndHolds,
        BytesHold, OutcomeHolds, PromiseHolds, sharedData, StreamStates, Conditions,
        StreamEndInEnv, StreamGoto, SetClosedBeforeHelperThreadStarted
<1>1. StreamTypeOK' BY DEF StreamPlaces, HelperPlaces
<1>2. CallbacksHold' OBVIOUS
<1>3. EndHolds' OBVIOUS
<1>4. BytesHold' OBVIOUS
<1>5. OutcomeHolds' OBVIOUS
<1>6. PromiseHolds' OBVIOUS
<1> QED BY <1>1, <1>2, <1>3, <1>4, <1>5, <1>6

(* The module is made of a stream that ended well, or is not. *)
LEMMA FinishModuleKept ==
    ASSUME StreamInv, NEW module \in BOOLEAN, FinishModule(module)
    PROVE  StreamInv'
<1> USE CodeSizeAssumption DEF StreamInv, StreamTypeOK, CallbacksHold, EndHolds,
        BytesHold, OutcomeHolds, PromiseHolds, sharedData, StreamStates, Conditions,
        FinishModule, HelperGoto, GiveUp, helperLeaves
<1>1. StreamTypeOK' BY DEF StreamPlaces, HelperPlaces
<1>2. CallbacksHold' OBVIOUS
<1>3. EndHolds' OBVIOUS
<1>4. BytesHold' OBVIOUS
<1>5. OutcomeHolds' OBVIOUS
<1>6. PromiseHolds' OBVIOUS
<1> QED BY <1>1, <1>2, <1>3, <1>4, <1>5, <1>6
(* No step of the stream thread, the helper thread and the JS thread breaks it. *)
LEMMA StreamKept == StreamInv /\ (StreamStep \/ MakesModule) => StreamInv'
<1> SUFFICES ASSUME StreamInv, StreamStep \/ MakesModule PROVE StreamInv'
  OBVIOUS
<1>1. TRUE \in BOOLEAN /\ FALSE \in BOOLEAN
  OBVIOUS
<1>2. CASE InCallback \/ Callback
  BY <1>2, StartOffThreadKept, EnterCodeKept, ConsumeCodeKept, EnterTailKept,
     ConsumeTailKept, NotifyCodeBytesKept, NotifyStreamEndKept,
     SetClosedAfterHelperThreadStartedKept, DispatchBeforeHelperThreadStartedKept,
     ConsumeEnvKept, ConsumeChunkKept, StreamErrorKept, StreamEndKept
     DEF InCallback, Callback
<1>3. CASE HelperStep \/ SpuriousHelperWakeup
  BY <1>3, RunTaskKept, DecodeEnvKept, DecodeCodeKept, AwaitStreamEndKept,
     AwaitClosedKept, DispatchResolveAndDestroyKept, SpuriousHelperWakeupKept
     DEF HelperStep
<1>4. CASE ConsumeStream \/ Resolve
  BY <1>4, ConsumeStreamKept, ResolveKept
<1>5. ASSUME NEW module \in BOOLEAN, StreamEndInEnv(module) \/ FinishModule(module)
      PROVE  StreamInv'
  BY <1>5, StreamEndInEnvKept, FinishModuleKept
<1> QED BY <1>1, <1>2, <1>3, <1>4, <1>5 DEF StreamStep, MakesModule

(* Nor do steps elsewhere. *)
LEMMA StreamStutters == StreamInv /\ UNCHANGED streamVars => StreamInv'
BY DEF StreamInv, StreamTypeOK, CallbacksHold, EndHolds, BytesHold, OutcomeHolds,
       PromiseHolds, streamVars

(* It holds before the task is handed to a stream. *)
LEMMA StreamInitInv == StreamInit => StreamInv
<1> SUFFICES ASSUME StreamInit PROVE StreamInv
  OBVIOUS
<1> USE CodeSizeAssumption DEF StreamInit
<1>1. StreamTypeOK
  <2>1. reached \in BOOLEAN /\ streamFailed \in BOOLEAN
    OBVIOUS
  <2>2. stream \in [at : StreamPlaces, chunk : 0..(CodeSize + 1)]
    BY DEF StreamPlaces
  <2>3. helper \in [at : HelperPlaces, decoded : 0..CodeSize, asleep : Conditions]
    BY DEF HelperPlaces, Conditions
  <2> QED BY <2>1, <2>2, <2>3 DEF StreamTypeOK, StreamStates
<1>2. CallbacksHold /\ EndHolds
  BY DEF CallbacksHold, EndHolds
<1>3. BytesHold /\ OutcomeHolds /\ PromiseHolds
  BY DEF BytesHold, OutcomeHolds, PromiseHolds
<1> QED BY <1>1, <1>2, <1>3 DEF StreamInv

(* What every thread relies on of the stream, always. *)
THEOREM StreamInvariance == Spec => []StreamInv
<1>1. Init => StreamInv
  BY StreamInitInv DEF Init
<1>2. StreamInv /\ [Next]_vars => StreamInv'
  BY StreamKept, StreamStutters DEF Next, CompileModule, Call, Terminated, vars
<1> QED BY <1>1, <1>2, PTL DEF Spec

(* CompileStreamTask is dispatched once, and destroyed only when neither the   *)
(* stream thread nor the helper thread will touch it again, whatever the sizes *)
(* of the chunks and of the code section; a module is resolved only if nothing *)
(* failed and the compiler had seen all of the stream.                         *)
THEOREM DestroyedWhenDoneAlways == Spec => []DestroyedWhenDone
<1>1. StreamInv => DestroyedWhenDone
  <2> SUFFICES ASSUME StreamInv PROVE DestroyedWhenDone
    OBVIOUS
  <2> USE DEF StreamInv
  <2>1. dispatches <= 1
    BY DEF PromiseHolds
  <2>2. promise = "dispatched" \/ TaskDeleted =>
          stream.at \in {"none", "gone"} /\ helper.at \in {"none", "gone"}
    BY DEF PromiseHolds, TaskDeleted
  <2>3. promise = "dispatched" =>
          /\ streamState = "Closed"
          /\ "module" \in outcome =>
               /\ outcome = {"module"} /\ ~streamFailed
               /\ helper.at # "none" => reached /\ received = CodeSize
    BY DEF PromiseHolds, OutcomeHolds, EndHolds, CallbacksHold
  <2> QED BY <2>1, <2>2, <2>3 DEF DestroyedWhenDone
<1> QED BY <1>1, StreamInvariance, PTL

-----------------------------------------------------------------------------
\* Types.

\* The fields of the module and of the functions that TierInv leaves out.
Fields ==
    /\ hasTier2 \in BOOLEAN /\ listener \in BOOLEAN /\ active \in BOOLEAN
    /\ hasJitEntry \subseteq Callers \X Funcs

(* The steps of tiering keep them. *)
LEMMA FieldsKept ==
    ASSUME TierInv, Fields,
           \/ UNCHANGED tierVars \/ StartTier2 \/ GeneratorStep \/ DestroyTask
           \/ \E c \in Callers : InCall(c) \/ \E f \in Funcs : CallExport(c, f)
    PROVE  Fields'
<1>1. CASE StartTier2 \/ DestroyTask
  BY <1>1 DEF StartTier2, DestroyTask, genLeaves, Fields
<1>2. CASE GeneratorStep
  BY <1>2 DEF GeneratorStep, CompileTier2, FinishTier2LockTier1, CreateTier2, CommitTier2,
     SetJitEntries, Tier2Done, SetTieringEntry, genLeaves, Fields
<1>3. ASSUME NEW c \in Callers, InCall(c) \/ \E f \in Funcs : CallExport(c, f)
      PROVE  Fields'
  <2>1. UNCHANGED <<hasTier2, listener, active>>
    BY <1>3 DEF InCall, LockStubs, LookupInterpEntry, LockStubs2, CreateInTier2, CallExport,
       genVars
  <2>2. hasJitEntry' = hasJitEntry \/ hasJitEntry' = hasJitEntry \cup {<<c, call[c].func>>}
    BY <1>3 DEF InCall, LockStubs, LookupInterpEntry, LockStubs2, CreateInTier2, CallExport,
       Return
  <2>3. call[c].func \in Funcs
    BY DEF TierInv, Types
  <2> QED BY <2>1, <2>2, <2>3 DEF Fields
<1>4. CASE UNCHANGED tierVars
  BY <1>4 DEF tierVars, Fields
<1> QED BY <1>1, <1>2, <1>3, <1>4

(* The variables of the stream and of the code keep their types. *)
THEOREM TypeCorrect == Spec => []TypeOK
<1>1. Init => TierInv /\ Fields
  BY TierInitInv DEF Init, TierInit, Fields
<1>2. TierInv /\ Fields /\ [Next]_vars => Fields'
  BY FieldsKept DEF Next, CompileModule, Call, Terminated, vars
<1>3. StreamInv /\ TierInv /\ Fields => TypeOK
  BY DEF StreamInv, TierInv, Types, Fields, TypeOK, TierTypeOK
<1> QED BY <1>1, <1>2, <1>3, TierInvariance, StreamInvariance, PTL DEF Spec

=============================================================================
