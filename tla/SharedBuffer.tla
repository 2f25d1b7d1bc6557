----------------------------- MODULE SharedBuffer -----------------------------
(***************************************************************************)
(* One SharedArrayRawBuffer (vm/SharedArrayObject.cpp): memory that the    *)
(* runtimes of a process share.  It is reference counted: every            *)
(* SharedArrayBufferObject and every structured clone in flight            *)
(* (vm/StructuredClone.cpp) owns one reference, and the last one to go     *)
(* unmaps the memory.  Shared wasm memories (wasm/WasmJS.cpp) grow it in   *)
(* place while other runtimes use it.                                      *)
(*                                                                         *)
(* A runtime is one thread.  addReference() is a load and a                *)
(* compare-exchange, a step each; --refcount_ is one step.  The counter    *)
(* has MaxRefcount where the code has 2^32 - 1, and lengths are in pages.  *)
(* A failure that changes nothing is no step.                              *)
(***************************************************************************)
EXTENDS Naturals, FiniteSets

CONSTANTS
    Runtimes,
    Objs,         \* SharedArrayBufferObjects that can exist at a time
    Clones,       \* structured clone buffers that can exist at a time
    MaxRefcount,  \* the largest value of refcount_
    MaxPages,     \* maxSize_
    None

ASSUME SharedBufferAssumption ==
    /\ MaxRefcount \in Nat \ {0} /\ MaxPages \in Nat \ {0}
    /\ IsFiniteSet(Runtimes) /\ IsFiniteSet(Objs) /\ IsFiniteSet(Clones)
    /\ None \notin Runtimes \cup Objs \cup Clones

VARIABLES
    mapped,     \* whether the memory is mapped
    refcount,   \* refcount_
    length,     \* length_
    committed,  \* pages that may be accessed
    growLock,   \* growLock_: who holds it
    obj,        \* each object whose RAWBUF_SLOT is set: its runtime, its
                \* LENGTH_SLOT, and whether script was given it
    memory,     \* BUFFER_SLOT of each runtime's WasmMemoryObject
    clone,      \* each clone: its state, refsHeld_ and the length written
    account,    \* the zone's sharedMemoryUseCounts entry: count and size
    op,         \* what each runtime is doing
    overflowed  \* history: bufferGetterImpl() met a full counter

vars == <<mapped, refcount, length, committed, growLock, obj, memory, clone,
          account, op, overflowed>>
growVars == <<length, committed, growLock>>

Pages   == 1..MaxPages
NoObj   == [owner |-> None, length |-> 1, shown |-> FALSE]
NoClone == [state |-> "free", refs |-> 0, length |-> 1]
Idle    == [at |-> "idle", why |-> "none", old |-> 0, obj |-> None, clone |-> None,
            len |-> 1]

Init ==
    /\ mapped = FALSE /\ refcount = 0 /\ length = 1 /\ committed = 1
    /\ growLock = None
    /\ obj = [o \in Objs |-> NoObj]
    /\ memory = [r \in Runtimes |-> None]
    /\ clone = [c \in Clones |-> NoClone]
    /\ account = [r \in Runtimes |-> [count |-> 0, pages |-> 0]]
    /\ op = [r \in Runtimes |-> Idle]
    /\ overflowed = FALSE

\* dropReference(): the decrement, and the unmapping if it was the last.
DropReference ==
    /\ refcount > 0
    /\ refcount' = refcount - 1
    /\ mapped' = (refcount > 1)

\* The object part of SharedArrayBufferObject::New() and of
\* createFromNewRawBuffer(): acceptRawBuffer() with addSharedMemory().
AcceptRawBuffer(r, o, len, shown) ==
    /\ obj[o].owner = None
    /\ obj' = [obj EXCEPT ![o] = [owner |-> r, length |-> len, shown |-> shown]]
    /\ account' = [account EXCEPT ![r] =
         [count |-> @.count + 1, pages |-> IF len > @.pages THEN len ELSE @.pages]]

Goto(r, place) == op' = [op EXCEPT ![r].at = place]
Done(r)        == op' = [op EXCEPT ![r] = Idle]

-----------------------------------------------------------------------------
\* Creation, as SharedArrayBuffer or as the buffer of a wasm memory, the making
\* of which may fail after its buffer was made.  A failure before that drops the
\* only reference.
New(r, o) ==
    /\ ~mapped
    /\ \A p \in Objs : obj[p].owner = None
    /\ \A c \in Clones : clone[c].state = "free"
    /\ op[r].at = "idle"
    /\ refcount' = 1 /\ mapped' = TRUE
    /\ \E n \in Pages, use \in {"plain", "wasm", "failed"} :
         /\ length' = n /\ committed' = n
         /\ AcceptRawBuffer(r, o, n, use # "failed")
         /\ memory' = IF use = "wasm" THEN [memory EXCEPT ![r] = o] ELSE memory
    /\ UNCHANGED <<growLock, clone, op, overflowed>>

\* The memory object of a runtime becomes garbage.
DropMemory(r) ==
    /\ op[r].at = "idle" /\ memory[r] # None
    /\ memory' = [memory EXCEPT ![r] = None]
    /\ UNCHANGED <<mapped, refcount, growVars, obj, clone, account, op, overflowed>>

\* A collection may also happen where the runtime allocates.
MayCollect(r) == \/ op[r].at \in {"idle", "new"}
                 \/ op[r].at = "have" /\ op[r].why = "read"

Finalize(r, o) ==
    /\ MayCollect(r)
    /\ obj[o].owner = r /\ memory[r] # o
    /\ DropReference
    /\ obj' = [obj EXCEPT ![o] = NoObj]
    /\ account' = [account EXCEPT ![r] =
         [count |-> @.count - 1, pages |-> IF @.count = 1 THEN 0 ELSE @.pages]]
    /\ UNCHANGED <<growVars, memory, clone, op, overflowed>>

-----------------------------------------------------------------------------
\* addReference(), for a clone that is written ("write"), one that is read
\* ("read") and for the buffer getter of a memory ("getter").

\* What the caller does if the counter is full.  A clone that cannot be written
\* is cleared; the getter has set RAWBUF_SLOT of its new object already.
AddReferenceFails(r) ==
    /\ clone' = IF op[r].why = "write" THEN [clone EXCEPT ![op[r].clone] = NoClone]
                ELSE clone
    /\ overflowed' = (overflowed \/ op[r].why = "getter")
    /\ Done(r)

AddReferenceLoad(r) ==
    /\ op[r].at = "load"
    /\ IF (refcount + 1) % (MaxRefcount + 1) = 0
       THEN AddReferenceFails(r)
       ELSE /\ op' = [op EXCEPT ![r].at = "exchange", ![r].old = refcount]
            /\ UNCHANGED <<clone, overflowed>>
    /\ UNCHANGED <<mapped, refcount, growVars, obj, memory, account>>

\* What it does once it has the reference: a clone holds it; a getter is over.
HaveReference(r) ==
    /\ clone' = IF op[r].why = "write" THEN [clone EXCEPT ![op[r].clone].refs = 1]
                ELSE clone
    /\ IF op[r].why = "getter"
       THEN /\ memory' = [memory EXCEPT ![r] = op[r].obj]
            /\ obj' = [obj EXCEPT ![op[r].obj].shown = TRUE]
            /\ Done(r)
       ELSE Goto(r, "have") /\ UNCHANGED <<memory, obj>>

IncrementUnchecked(r) == \* mutant: a load and a store
    /\ op[r].at = "exchange"
    /\ refcount' = op[r].old + 1
    /\ HaveReference(r)
    /\ UNCHANGED <<mapped, growVars, account, overflowed>>

AddReferenceExchange(r) ==
    /\ op[r].at = "exchange"
    /\ IF refcount = op[r].old
       THEN refcount' = op[r].old + 1 /\ HaveReference(r)
       ELSE Goto(r, "load") /\ UNCHANGED <<refcount, clone, memory, obj>>
    /\ UNCHANGED <<mapped, growVars, account, overflowed>>

-----------------------------------------------------------------------------
\* Structured clones.

\* writeSharedArrayBuffer() up to acquire().
WriteSharedArrayBuffer(r, o, c) ==
    /\ op[r].at = "idle" /\ refcount > 0
    /\ obj[o].owner = r /\ obj[o].shown
    /\ clone[c].state = "free"
    /\ clone' = [clone EXCEPT ![c].state = "writing"]
    /\ op' = [op EXCEPT ![r] = [Idle EXCEPT !.at = "load", !.why = "write", !.obj = o,
                                            !.clone = c]]
    /\ UNCHANGED <<mapped, refcount, growVars, obj, memory, account, overflowed>>

\* The object's length, "not the length read from the rawbuf", is written; or
\* something fails and the clone is cleared.
FinishWrite(r) ==
    /\ op[r].at = "have" /\ op[r].why = "write"
    /\ \/ /\ clone' = [clone EXCEPT ![op[r].clone].state = "sent",
                         ![op[r].clone].length = obj[op[r].obj].length]
          /\ UNCHANGED <<mapped, refcount>>
       \/ clone' = [clone EXCEPT ![op[r].clone] = NoClone] /\ DropReference
    /\ Done(r)
    /\ UNCHANGED <<growVars, obj, memory, account, overflowed>>

\* readSharedArrayBuffer(); a clone may be read more than once.
ReadSharedArrayBuffer(r, c) ==
    /\ op[r].at = "idle" /\ clone[c].state = "sent" /\ refcount > 0
    /\ op' = [op EXCEPT ![r] = [Idle EXCEPT !.at = "load", !.why = "read", !.clone = c]]
    /\ UNCHANGED <<mapped, refcount, growVars, obj, memory, clone, account, overflowed>>

\* The new object takes the reference over (and may become the buffer of a new
\* memory, or be lost to a later failure); or there is none.
FinishRead(r) ==
    /\ op[r].at = "have" /\ op[r].why = "read"
    /\ \/ \E o \in Objs, use \in {"plain", "wasm", "failed"} :
            /\ AcceptRawBuffer(r, o, clone[op[r].clone].length, use # "failed")
            /\ memory' = IF use = "wasm" THEN [memory EXCEPT ![r] = o] ELSE memory
            /\ UNCHANGED <<mapped, refcount>>
       \/ DropReference /\ UNCHANGED <<obj, account, memory>>
    /\ Done(r)
    /\ UNCHANGED <<growVars, clone, overflowed>>

\* JSAutoStructuredCloneBuffer::clear(): the message was received or is lost.
Clear(c) ==
    /\ clone[c].state = "sent"
    /\ \A r \in Runtimes : op[r].clone # c
    /\ DropReference
    /\ clone' = [clone EXCEPT ![c] = NoClone]
    /\ UNCHANGED <<growVars, obj, memory, account, op, overflowed>>

-----------------------------------------------------------------------------
\* Shared wasm memories.

\* bufferGetterImpl(): a new object if the memory has grown.
BufferGetter(r) ==
    /\ op[r].at = "idle" /\ mapped /\ memory[r] # None
    /\ length > obj[memory[r]].length
    /\ op' = [op EXCEPT ![r] = [Idle EXCEPT !.at = "new", !.why = "getter",
                                            !.len = length]]
    /\ UNCHANGED <<mapped, refcount, growVars, obj, memory, clone, account, overflowed>>

GetterNew(r) ==
    /\ op[r].at = "new"
    /\ \/ /\ refcount > 0
          /\ \E o \in Objs :
               /\ AcceptRawBuffer(r, o, op[r].len, FALSE)
               /\ op' = [op EXCEPT ![r].at = "load", ![r].obj = o]
       \/ Done(r) /\ UNCHANGED <<obj, account>>
    /\ UNCHANGED <<mapped, refcount, growVars, memory, clone, overflowed>>

GrowUncommitted(r) == \* mutant: length_ is set before the memory is committed
    /\ op[r].at = "idle" /\ mapped /\ memory[r] # None
    /\ growLock = None
    /\ \E n \in Pages :
         /\ n > length
         /\ length' = n
         /\ op' = [op EXCEPT ![r] = [Idle EXCEPT !.at = "grow", !.len = n]]
    /\ growLock' = r
    /\ UNCHANGED <<mapped, refcount, committed, obj, memory, clone, account, overflowed>>

\* growShared() and wasmGrowToSizeInPlace(), under the lock, up to
\* CommitBufferMemory(); and the new length.
GrowShared(r) ==
    /\ op[r].at = "idle" /\ mapped /\ memory[r] # None
    /\ growLock = None
    /\ \E n \in Pages :
         /\ n > length
         /\ committed' = n
         /\ op' = [op EXCEPT ![r] = [Idle EXCEPT !.at = "grow", !.len = n]]
    /\ growLock' = r
    /\ UNCHANGED <<mapped, refcount, length, obj, memory, clone, account, overflowed>>

SetLength(r) ==
    /\ op[r].at = "grow"
    /\ length' = op[r].len
    /\ growLock' = None
    /\ Done(r)
    /\ UNCHANGED <<mapped, refcount, committed, obj, memory, clone, account, overflowed>>

-----------------------------------------------------------------------------
Step(r) ==
    \/ \E o \in Objs : \/ New(r, o) \/ Finalize(r, o)
                       \/ \E c \in Clones : WriteSharedArrayBuffer(r, o, c)
    \/ \E c \in Clones : ReadSharedArrayBuffer(r, c)
    \/ AddReferenceLoad(r) \/ AddReferenceExchange(r) \/ FinishWrite(r) \/ FinishRead(r)
    \/ BufferGetter(r) \/ GetterNew(r) \/ GrowShared(r) \/ SetLength(r) \/ DropMemory(r)

\* MOZ_RELEASE_ASSERT(refcount_ > 0) of whoever still has the buffer.
Crash == overflowed /\ refcount = 0 /\ UNCHANGED vars

Next == (\E r \in Runtimes : Step(r)) \/ (\E c \in Clones : Clear(c)) \/ Crash

Spec == Init /\ [][Next]_vars

-----------------------------------------------------------------------------
\* Properties.

Attached == {o \in Objs : obj[o].owner # None}
\* A getter that has not yet added the reference of its new object.
Adding(r) == op[r].why = "getter" /\ op[r].at \in {"load", "exchange"}
Early     == {o \in Objs : \E r \in Runtimes : Adding(r) /\ op[r].obj = o}
Owning    == Attached \ Early
Holding   == {c \in Clones : clone[c].refs = 1}
InHand    == {r \in Runtimes : op[r].at = "have" /\ op[r].why = "read"}

\* However the runtimes interleave, fail and lose messages, the counter is the
\* number of references owned by objects, clones and readers, and the memory is
\* mapped exactly while there is one: none is lost, none is dropped twice, and
\* the counter never wraps.  (A getter that meets a full counter breaks this.)
ReferencesCounted ==
    ~overflowed =>
        /\ refcount = Cardinality(Owning) + Cardinality(Holding) + Cardinality(InHand)
        /\ mapped <=> refcount > 0
        /\ Attached # {} => mapped
        /\ refcount <= MaxRefcount

\* No length that script can see, in an object, in a clone or in a memory that
\* another runtime is growing, reaches past the committed memory, and a zone is
\* charged for its objects as long as it has one, for the longest at least.
LengthsAreCommitted ==
    /\ length <= committed
    /\ \A o \in Attached : obj[o].length <= length
    /\ \A c \in Holding : clone[c].length <= length
    /\ \A r \in Runtimes :
         LET mine == {o \in Attached : obj[o].owner = r}
         IN  /\ account[r].count = Cardinality(mine)
             /\ mine = {} => account[r].pages = 0
             /\ \A o \in mine : obj[o].length <= account[r].pages

=============================================================================
