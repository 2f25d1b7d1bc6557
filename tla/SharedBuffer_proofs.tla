-------------------------- MODULE SharedBuffer_proofs --------------------------
(***************************************************************************)
(* ReferencesCounted and LengthsAreCommitted for any number of runtimes,   *)
(* objects and clones and any width of the counter.                        *)
(*                                                                         *)
(* That the count is exact is inductive once it is known who relies on     *)
(* what: a getter on the buffer of its memory, a writer on its object, a   *)
(* reader on its clone (Operations), none of which goes away meanwhile;    *)
(* and the objects early getters attached are theirs alone (by owner), as  *)
(* are the clones that writers fill.  Each step then adds or removes one   *)
(* element of Owning, Holding or InHand, or moves one.                     *)
(*                                                                         *)
(* Lengths only grow while anything uses the memory: a new buffer is made  *)
(* when there is no object left, hence no memory, hence nobody that grows  *)
(* it or is about to make an object of the length it read (GrowHolds).     *)
(***************************************************************************)
EXTENDS SharedBuffer, FiniteSetTheorems, TLAPS

ObjRec   == [owner : Runtimes \cup {None}, length : Nat, shown : BOOLEAN]
CloneRec == [state : {"free", "writing", "sent"}, refs : {0, 1}, length : Nat]
Places   == {"idle", "new", "load", "exchange", "have", "grow"}
OpRec    == [at : Places, why : {"none", "write", "read", "getter"}, old : Nat,
             obj : Objs \cup {None}, clone : Clones \cup {None}, len : Nat]

Types ==
    /\ refcount \in Nat /\ length \in Nat
    /\ obj \in [Objs -> ObjRec]
    /\ memory \in [Runtimes -> Objs \cup {None}]
    /\ clone \in [Clones -> CloneRec]
    /\ op \in [Runtimes -> OpRec]

\* A clone holds what its state says, and a memory has a buffer of its runtime.
Slots ==
    /\ \A c \in Clones : clone[c].state = "free" => clone[c].refs = 0
    /\ \A c \in Clones : clone[c].state = "sent" => clone[c].refs = 1
    /\ \A r \in Runtimes : memory[r] # None =>
         obj[memory[r]].owner = r /\ obj[memory[r]].shown

\* What each operation in progress has and relies on.
Operations ==
    \A r \in Runtimes :
        /\ op[r].at \in {"new", "load", "exchange", "have"} => op[r].why # "none"
        /\ op[r].at = "idle" => op[r].why = "none"
        /\ op[r].at = "have" => op[r].why # "getter"
        /\ op[r].clone # None => op[r].why \in {"write", "read"}
        /\ op[r].why = "getter" => memory[r] # None
        /\ Adding(r) => /\ op[r].obj \in Objs
                        /\ obj[op[r].obj].owner = r /\ ~obj[op[r].obj].shown
        /\ op[r].why = "write" =>
             /\ op[r].obj \in Objs /\ op[r].clone \in Clones
             /\ obj[op[r].obj].owner = r /\ obj[op[r].obj].shown
             /\ op[r].at \in {"load", "exchange", "have"}
             /\ clone[op[r].clone].state = "writing"
             /\ clone[op[r].clone].refs = IF op[r].at = "have" THEN 1 ELSE 0
             /\ \A q \in Runtimes : op[q].clone = op[r].clone => q = r
        /\ op[r].why = "read" =>
             /\ op[r].clone \in Clones /\ clone[op[r].clone].state = "sent"
             /\ op[r].at \in {"load", "exchange", "have"}
        /\ op[r].at = "exchange" /\ ~overflowed => op[r].old < MaxRefcount

Count == Cardinality(Owning) + Cardinality(Holding) + Cardinality(InHand)

Counted == ~overflowed => /\ refcount = Count
                          /\ mapped <=> refcount > 0
                          /\ refcount <= MaxRefcount

SharedInv == Types /\ Slots /\ Operations /\ Counted

Structure == Types /\ Slots /\ Operations

-----------------------------------------------------------------------------
(* The records the steps write have their types. *)
LEMMA Records ==
    /\ NoObj \in ObjRec /\ NoClone \in CloneRec /\ Idle \in OpRec
    /\ \A r \in Runtimes, n \in Nat : \A b \in BOOLEAN :
         [owner |-> r, length |-> n, shown |-> b] \in ObjRec
    /\ \A x \in ObjRec : [x EXCEPT !.shown = TRUE] \in ObjRec /\ x.length \in Nat
    /\ \A x \in CloneRec : x.length \in Nat
    /\ \A x \in OpRec : x.old \in Nat /\ x.len \in Nat
    /\ \A x \in CloneRec : /\ [x EXCEPT !.state = "writing"] \in CloneRec
                           /\ [x EXCEPT !.refs = 1] \in CloneRec
    /\ \A x \in CloneRec, n \in Nat :
         [x EXCEPT !.state = "sent", !.length = n] \in CloneRec
    /\ \A x \in OpRec : /\ [x EXCEPT !.at = "load"] \in OpRec
                        /\ [x EXCEPT !.at = "have"] \in OpRec
    /\ \A x \in OpRec, n \in Nat : [x EXCEPT !.at = "exchange", !.old = n] \in OpRec
    /\ \A x \in OpRec, o \in Objs : [x EXCEPT !.at = "load", !.obj = o] \in OpRec
    /\ \A o \in Objs, c \in Clones :
         [Idle EXCEPT !.at = "load", !.why = "write", !.obj = o, !.clone = c] \in OpRec
    /\ \A c \in Clones :
         [Idle EXCEPT !.at = "load", !.why = "read", !.clone = c] \in OpRec
    /\ \A n \in Nat : /\ [Idle EXCEPT !.at = "new", !.why = "getter", !.len = n] \in OpRec
                      /\ [Idle EXCEPT !.at = "grow", !.len = n] \in OpRec
<1> USE DEF ObjRec, CloneRec, OpRec, Places, NoObj, NoClone, Idle
<1>1. NoObj \in ObjRec /\ NoClone \in CloneRec /\ Idle \in OpRec
  OBVIOUS
<1>2. ASSUME NEW x \in OpRec
      PROVE /\ [x EXCEPT !.at = "load"] \in OpRec
            /\ [x EXCEPT !.at = "have"] \in OpRec
  OBVIOUS
<1>3. ASSUME NEW x \in OpRec, NEW n \in Nat
      PROVE [x EXCEPT !.at = "exchange", !.old = n] \in OpRec
  OBVIOUS
<1>4. ASSUME NEW x \in OpRec, NEW o \in Objs
      PROVE [x EXCEPT !.at = "load", !.obj = o] \in OpRec
  OBVIOUS
<1>5. ASSUME NEW o \in Objs, NEW c \in Clones
      PROVE [Idle EXCEPT !.at = "load", !.why = "write", !.obj = o, !.clone = c] \in OpRec
  OBVIOUS
<1>6. ASSUME NEW c \in Clones
      PROVE [Idle EXCEPT !.at = "load", !.why = "read", !.clone = c] \in OpRec
  OBVIOUS
<1>7. ASSUME NEW n \in Nat
      PROVE /\ [Idle EXCEPT !.at = "new", !.why = "getter", !.len = n] \in OpRec
            /\ [Idle EXCEPT !.at = "grow", !.len = n] \in OpRec
  OBVIOUS
<1>8. ASSUME NEW x \in CloneRec
      PROVE /\ [x EXCEPT !.state = "writing"] \in CloneRec
            /\ [x EXCEPT !.refs = 1] \in CloneRec
  OBVIOUS
<1>9. ASSUME NEW x \in CloneRec, NEW n \in Nat
      PROVE [x EXCEPT !.state = "sent", !.length = n] \in CloneRec
  OBVIOUS
<1>10. \A r \in Runtimes, n \in Nat : \A b \in BOOLEAN :
         [owner |-> r, length |-> n, shown |-> b] \in ObjRec
  OBVIOUS
<1>11. \A x \in ObjRec : [x EXCEPT !.shown = TRUE] \in ObjRec /\ x.length \in Nat
  OBVIOUS
<1>12. \A x \in CloneRec : x.length \in Nat
  OBVIOUS
<1>13. \A x \in OpRec : x.old \in Nat /\ x.len \in Nat
  OBVIOUS
<1> QED BY <1>1, <1>2, <1>3, <1>4, <1>5, <1>6, <1>7, <1>8, <1>9, <1>10, <1>11, <1>12,
       <1>13

-----------------------------------------------------------------------------
(* dropReference() takes one from a positive counter. *)
LEMMA DropEffect ==
    ASSUME Types, DropReference
    PROVE  refcount > 0 /\ refcount' \in Nat /\ refcount' = refcount - 1
BY DEF Types, DropReference

(* acceptRawBuffer() changes one object, which was free. *)
LEMMA AcceptEffect ==
    ASSUME Types, NEW r \in Runtimes, NEW o \in Objs, NEW n \in Nat, NEW b \in BOOLEAN,
           AcceptRawBuffer(r, o, n, b)
    PROVE  /\ obj[o].owner = None
           /\ obj' \in [Objs -> ObjRec]
           /\ obj'[o].owner = r /\ obj'[o].shown = b
           /\ \A p \in Objs \ {o} : obj'[p] = obj[p]
<1> DEFINE x == [owner |-> r, length |-> n, shown |-> b]
<1>1. x \in ObjRec /\ x.owner = r /\ x.shown = b
  BY Records
<1>2. obj[o].owner = None /\ obj' = [obj EXCEPT ![o] = x]
  BY DEF AcceptRawBuffer
<1> HIDE DEF x
<1> QED BY <1>1, <1>2 DEF Types

(* Every step keeps the types. *)
LEMMA TypesKept == Structure /\ [Next]_vars => Types'
<1> SUFFICES ASSUME Structure, [Next]_vars PROVE Types'
  OBVIOUS
<1> USE DEF growVars
<1>t. Types BY DEF Structure
<1>p. Pages \subseteq Nat /\ Pages # {} BY SharedBufferAssumption DEF Pages
<1>1. ASSUME NEW r \in Runtimes, NEW o \in Objs, New(r, o) PROVE Types'
  <2>1. PICK n \in Pages, use \in {"plain", "wasm", "failed"} :
          /\ length' = n
          /\ AcceptRawBuffer(r, o, n, use # "failed")
          /\ memory' = IF use = "wasm" THEN [memory EXCEPT ![r] = o] ELSE memory
    BY <1>1 DEF New
  <2>2. obj' \in [Objs -> ObjRec]
    <3>1. n \in Nat /\ (use # "failed") \in BOOLEAN BY <1>p
    <3> QED BY <1>t, <2>1, <3>1, AcceptEffect
  <2>3. refcount' = 1 /\ clone' = clone /\ op' = op
    BY <1>1 DEF New
  <2> QED BY <1>t, <1>p, <2>1, <2>2, <2>3 DEF Types
<1>2. ASSUME NEW r \in Runtimes, NEW o \in Objs, Finalize(r, o) PROVE Types'
  <2>1. refcount' \in Nat BY <1>t, <1>2, DropEffect DEF Finalize
  <2>2. /\ obj' = [obj EXCEPT ![o] = NoObj]
        /\ UNCHANGED <<length, memory, clone, op>>
    BY <1>2 DEF Finalize
  <2> QED BY <1>t, <2>1, <2>2, Records DEF Types
<1>3. ASSUME NEW r \in Runtimes, NEW o \in Objs, NEW c \in Clones,
             WriteSharedArrayBuffer(r, o, c)
      PROVE Types'
  BY <1>t, <1>3, Records DEF Types, WriteSharedArrayBuffer
<1>4. ASSUME NEW r \in Runtimes, NEW c \in Clones, ReadSharedArrayBuffer(r, c)
      PROVE Types'
  BY <1>t, <1>4, Records DEF Types, ReadSharedArrayBuffer
<1>5. ASSUME NEW r \in Runtimes, AddReferenceLoad(r) PROVE Types'
  <2>1. UNCHANGED <<refcount, length, obj, memory>>
    BY <1>5 DEF AddReferenceLoad
  <2>2. clone' = clone \/ clone' = [clone EXCEPT ![op[r].clone] = NoClone]
    BY <1>5 DEF AddReferenceLoad, AddReferenceFails
  <2>3. clone' \in [Clones -> CloneRec]
    BY <1>t, <2>2, Records DEF Types
  <2>4. \/ op' = [op EXCEPT ![r] = Idle]
        \/ op' = [op EXCEPT ![r].at = "exchange", ![r].old = refcount]
    BY <1>5 DEF AddReferenceLoad, AddReferenceFails, Done
  <2>5. op' \in [Runtimes -> OpRec]
    <3>1. CASE op' = [op EXCEPT ![r] = Idle]
      BY <1>t, <3>1, Records DEF Types
    <3>2. CASE op' = [op EXCEPT ![r].at = "exchange", ![r].old = refcount]
      BY <1>t, <3>2, Records DEF Types
    <3> QED BY <2>4, <3>1, <3>2
  <2> QED BY <1>t, <2>1, <2>3, <2>5 DEF Types
<1>6. ASSUME NEW r \in Runtimes, AddReferenceExchange(r) PROVE Types'
  <2>1. UNCHANGED length /\ (refcount' = refcount \/ refcount' = op[r].old + 1)
    BY <1>6 DEF AddReferenceExchange
  <2>2. clone' = clone \/ clone' = [clone EXCEPT ![op[r].clone].refs = 1]
    BY <1>6 DEF AddReferenceExchange, HaveReference
  <2>3. \/ op' = [op EXCEPT ![r] = Idle] \/ op' = [op EXCEPT ![r].at = "have"]
        \/ op' = [op EXCEPT ![r].at = "load"]
    BY <1>6 DEF AddReferenceExchange, HaveReference, Done, Goto
  <2>4. obj' = obj \/ obj' = [obj EXCEPT ![op[r].obj].shown = TRUE]
    BY <1>6 DEF AddReferenceExchange, HaveReference
  <2>5. memory' = memory \/ memory' = [memory EXCEPT ![r] = op[r].obj]
    BY <1>6 DEF AddReferenceExchange, HaveReference
  <2>6. op[r].obj \in Objs \cup {None} /\ op[r].old \in Nat
    BY <1>t DEF Types, OpRec
  <2>7. refcount' \in Nat /\ memory' \in [Runtimes -> Objs \cup {None}]
    BY <1>t, <2>1, <2>5, <2>6 DEF Types
  <2>8. clone' \in [Clones -> CloneRec]
    BY <1>t, <2>2 DEF Types, CloneRec
  <2>9. op' \in [Runtimes -> OpRec]
    BY <1>t, <2>3 DEF Types, OpRec, Places, Idle
  <2>10. obj' \in [Objs -> ObjRec]
    BY <1>t, <2>4, ZenonT(40) DEF Types, ObjRec
  <2> QED BY <1>t, <2>1, <2>7, <2>8, <2>9, <2>10 DEF Types
<1>7. ASSUME NEW r \in Runtimes, FinishWrite(r) PROVE Types'
  <2>1. UNCHANGED <<length, obj, memory>> /\ op' = [op EXCEPT ![r] = Idle]
    BY <1>7 DEF FinishWrite, Done
  <2>2. refcount' \in Nat
    BY <1>t, <1>7, DropEffect DEF Types, FinishWrite
  <2>3. clone' \in [Clones -> CloneRec]
    <3>1. CASE clone' = [clone EXCEPT ![op[r].clone] = NoClone]
      BY <1>t, <3>1, Records DEF Types
    <3>2. CASE clone' = [clone EXCEPT ![op[r].clone].state = "sent",
                         ![op[r].clone].length = obj[op[r].obj].length]
      <4>1. op[r].obj \in Objs /\ op[r].clone \in Clones
        BY <1>7 DEF FinishWrite, Structure, Operations
      <4>2. obj[op[r].obj].length \in Nat BY <1>t, <4>1, Records DEF Types
      <4> QED BY <1>t, <3>2, <4>1, <4>2, Records DEF Types
    <3> QED BY <1>7, <3>1, <3>2 DEF FinishWrite
  <2> QED BY <1>t, <2>1, <2>2, <2>3, Records DEF Types
<1>8. ASSUME NEW r \in Runtimes, FinishRead(r) PROVE Types'
  <2>1. UNCHANGED <<length, clone>> /\ op' = [op EXCEPT ![r] = Idle]
    BY <1>8 DEF FinishRead, Done
  <2>2. refcount' \in Nat
    BY <1>t, <1>8, DropEffect DEF Types, FinishRead
  <2>3. obj' \in [Objs -> ObjRec] /\ memory' \in [Runtimes -> Objs \cup {None}]
    <3>1. CASE UNCHANGED <<obj, memory>>
      BY <1>t, <3>1 DEF Types
    <3>2. ASSUME NEW o \in Objs, NEW use \in {"plain", "wasm", "failed"},
                 AcceptRawBuffer(r, o, clone[op[r].clone].length, use # "failed"),
                 memory' = IF use = "wasm" THEN [memory EXCEPT ![r] = o] ELSE memory
          PROVE  obj' \in [Objs -> ObjRec] /\ memory' \in [Runtimes -> Objs \cup {None}]
      <4>1. op[r].clone \in Clones
        BY <1>8 DEF FinishRead, Structure, Operations
      <4>2. clone[op[r].clone].length \in Nat /\ (use # "failed") \in BOOLEAN
        BY <1>t, <4>1, Records DEF Types
      <4>3. obj' \in [Objs -> ObjRec] BY <1>t, <3>2, <4>2, AcceptEffect
      <4> QED BY <1>t, <3>2, <4>3 DEF Types
    <3> QED BY <1>8, <3>1, <3>2 DEF FinishRead
  <2> QED BY <1>t, <2>1, <2>2, <2>3, Records DEF Types
<1>9. ASSUME NEW r \in Runtimes, BufferGetter(r) PROVE Types'
  BY <1>t, <1>9, Records DEF Types, BufferGetter
<1>10. ASSUME NEW r \in Runtimes, GetterNew(r) PROVE Types'
  <2>1. UNCHANGED <<refcount, length, memory, clone>>
    BY <1>10 DEF GetterNew
  <2>2. obj' \in [Objs -> ObjRec] /\ op' \in [Runtimes -> OpRec]
    <3>1. CASE UNCHANGED obj /\ op' = [op EXCEPT ![r] = Idle]
      BY <1>t, <3>1, Records DEF Types
    <3>2. ASSUME NEW o \in Objs, AcceptRawBuffer(r, o, op[r].len, FALSE),
                 op' = [op EXCEPT ![r].at = "load", ![r].obj = o]
          PROVE  obj' \in [Objs -> ObjRec] /\ op' \in [Runtimes -> OpRec]
      <4>1. op[r].len \in Nat BY <1>t, Records DEF Types
      <4>2. obj' \in [Objs -> ObjRec] BY <1>t, <3>2, <4>1, AcceptEffect
      <4> QED BY <1>t, <3>2, <4>2, Records DEF Types
    <3> QED BY <1>10, <3>1, <3>2 DEF GetterNew, Done
  <2> QED BY <1>t, <2>1, <2>2 DEF Types
<1>11. ASSUME NEW r \in Runtimes, GrowShared(r) PROVE Types'
  BY <1>t, <1>p, <1>11, Records DEF Types, GrowShared
<1>12. ASSUME NEW r \in Runtimes, SetLength(r) PROVE Types'
  BY <1>t, <1>12, Records DEF Types, SetLength, Done
<1>13. ASSUME NEW r \in Runtimes, DropMemory(r) PROVE Types'
  BY <1>t, <1>13 DEF Types, DropMemory
<1>14. ASSUME NEW c \in Clones, Clear(c) PROVE Types'
  <2>1. refcount' \in Nat BY <1>t, <1>14, DropEffect DEF Clear
  <2>2. /\ clone' = [clone EXCEPT ![c] = NoClone]
        /\ UNCHANGED <<length, obj, memory, op>>
    BY <1>14 DEF Clear
  <2> QED BY <1>t, <2>1, <2>2, Records DEF Types
<1>15. ASSUME UNCHANGED vars PROVE Types'
  BY <1>t, <1>15 DEF Types, vars
<1> QED BY <1>1, <1>2, <1>3, <1>4, <1>5, <1>6, <1>7, <1>8, <1>9, <1>10, <1>11, <1>12,
           <1>13, <1>14, <1>15 DEF Next, Step, Crash

(* The outcomes of addReference()'s load: refused, for a writer or for others, *)
(* or on to the exchange.                                                      *)
LEMMA LoadCases ==
    ASSUME NEW r \in Runtimes, AddReferenceLoad(r)
    PROVE  /\ op[r].at = "load" /\ UNCHANGED <<mapped, refcount, obj, memory>>
           /\ \/ /\ op[r].why = "write" /\ op' = [op EXCEPT ![r] = Idle]
                 /\ clone' = [clone EXCEPT ![op[r].clone] = NoClone]
                 /\ ~overflowed' => ~overflowed
              \/ /\ op[r].why # "write" /\ op' = [op EXCEPT ![r] = Idle]
                 /\ clone' = clone
                 /\ ~overflowed' => ~overflowed /\ op[r].why # "getter"
              \/ /\ (refcount + 1) % (MaxRefcount + 1) # 0
                 /\ op' = [op EXCEPT ![r].at = "exchange", ![r].old = refcount]
                 /\ UNCHANGED <<clone, overflowed>>
<1>1. CASE (refcount + 1) % (MaxRefcount + 1) = 0
  <2>1. CASE op[r].why = "write"
    <3>1. ~overflowed' => ~overflowed
      BY <1>1, <2>1 DEF AddReferenceLoad, AddReferenceFails
    <3> QED BY <1>1, <2>1, <3>1 DEF AddReferenceLoad, AddReferenceFails, Done
  <2>2. CASE op[r].why # "write"
    BY <1>1, <2>2 DEF AddReferenceLoad, AddReferenceFails, Done
  <2> QED BY <2>1, <2>2
<1>2. CASE (refcount + 1) % (MaxRefcount + 1) # 0
  BY <1>2 DEF AddReferenceLoad
<1> QED BY <1>1, <1>2

(* The outcomes of its compare-exchange: done, by the caller's purpose, or retry. *)
LEMMA ExchangeCases ==
    ASSUME NEW r \in Runtimes, AddReferenceExchange(r)
    PROVE  /\ op[r].at = "exchange" /\ UNCHANGED <<mapped, overflowed>>
           /\ \/ /\ op[r].why = "getter" /\ op' = [op EXCEPT ![r] = Idle]
                 /\ refcount = op[r].old /\ refcount' = op[r].old + 1
                 /\ memory' = [memory EXCEPT ![r] = op[r].obj]
                 /\ obj' = [obj EXCEPT ![op[r].obj].shown = TRUE]
                 /\ clone' = clone
              \/ /\ op[r].why = "write" /\ op' = [op EXCEPT ![r].at = "have"]
                 /\ refcount = op[r].old /\ refcount' = op[r].old + 1
                 /\ clone' = [clone EXCEPT ![op[r].clone].refs = 1]
                 /\ UNCHANGED <<memory, obj>>
              \/ /\ op[r].why \notin {"write", "getter"}
                 /\ refcount = op[r].old /\ refcount' = op[r].old + 1
                 /\ op' = [op EXCEPT ![r].at = "have"]
                 /\ UNCHANGED <<memory, obj, clone>>
              \/ /\ op' = [op EXCEPT ![r].at = "load"]
                 /\ UNCHANGED <<refcount, clone, memory, obj>>
BY DEF AddReferenceExchange, HaveReference, Done, Goto

(* The counter is refused exactly one increment before it would wrap. *)
LEMMA FullCounter == \A m \in Nat : (m + 1) % (m + 1) = 0
OBVIOUS


(* Every step keeps what clones hold and memories have. *)
LEMMA SlotsKept == SharedInv /\ [Next]_vars => Slots'
<1> SUFFICES ASSUME SharedInv, [Next]_vars PROVE Slots'
  OBVIOUS
<1> USE DEF growVars
<1>t. Types /\ Types' /\ Slots /\ Operations BY TypesKept DEF SharedInv, Structure
<1>1. ASSUME NEW r \in Runtimes, NEW o \in Objs, New(r, o) PROVE Slots'
  <2>1. PICK use \in {"plain", "wasm", "failed"} :
          /\ obj'[o].owner = r /\ obj'[o].shown = (use # "failed")
          /\ memory' = IF use = "wasm" THEN [memory EXCEPT ![r] = o] ELSE memory
    BY <1>t, <1>1 DEF New, AcceptRawBuffer, Types
  <2>2. clone' = clone /\ \A q \in Runtimes : memory[q] = None
    BY <1>t, <1>1, SharedBufferAssumption DEF New, Slots, Types
  <2>3. \A q \in Runtimes : memory'[q] # None => q = r /\ use = "wasm" /\ memory'[q] = o
    BY <1>t, <2>1, <2>2 DEF Types
  <2> QED BY <1>t, <2>1, <2>2, <2>3 DEF Slots
<1>2. ASSUME NEW r \in Runtimes, NEW o \in Objs, Finalize(r, o) PROVE Slots'
  BY <1>t, <1>2 DEF Types, Slots, Finalize
<1>3. ASSUME NEW r \in Runtimes, NEW o \in Objs, NEW c \in Clones,
             WriteSharedArrayBuffer(r, o, c)
      PROVE Slots'
  BY <1>t, <1>3 DEF Types, Slots, WriteSharedArrayBuffer
<1>4. ASSUME NEW r \in Runtimes, NEW c \in Clones, ReadSharedArrayBuffer(r, c)
      PROVE Slots'
  BY <1>t, <1>4 DEF Types, Slots, ReadSharedArrayBuffer
<1>5. ASSUME NEW r \in Runtimes, AddReferenceLoad(r) PROVE Slots'
  <2>1. /\ UNCHANGED <<obj, memory>>
        /\ clone' = clone \/ clone' = [clone EXCEPT ![op[r].clone] = NoClone]
    BY <1>5, LoadCases
  <2> QED BY <1>t, <2>1 DEF Types, CloneRec, Slots, NoClone
<1>6. ASSUME NEW r \in Runtimes, AddReferenceExchange(r) PROVE Slots'
  <2>1. CASE UNCHANGED <<obj, memory, clone>>
    BY <1>t, <2>1 DEF Slots
  <2>2. CASE /\ op[r].why = "write" /\ UNCHANGED <<obj, memory>>
             /\ clone' = [clone EXCEPT ![op[r].clone].refs = 1]
    BY <1>t, <2>2 DEF Types, CloneRec, Slots, Operations
  <2>3. CASE /\ op[r].why = "getter" /\ UNCHANGED clone
             /\ memory' = [memory EXCEPT ![r] = op[r].obj]
             /\ obj' = [obj EXCEPT ![op[r].obj].shown = TRUE]
    <3>1. op[r].obj \in Objs /\ obj[op[r].obj].owner = r
      BY <1>t, <1>6, <2>3, ExchangeCases DEF Operations, Adding
    <3> QED BY <1>t, <2>3, <3>1 DEF Types, ObjRec, Slots
  <2> QED BY <1>6, <2>1, <2>2, <2>3, ExchangeCases
<1>7. ASSUME NEW r \in Runtimes, FinishWrite(r) PROVE Slots'
  <2>1. /\ UNCHANGED <<obj, memory>>
        /\ \/ clone' = [clone EXCEPT ![op[r].clone].state = "sent",
                         ![op[r].clone].length = obj[op[r].obj].length]
           \/ clone' = [clone EXCEPT ![op[r].clone] = NoClone]
    BY <1>7 DEF FinishWrite
  <2>2. op[r].clone \in Clones /\ clone[op[r].clone].refs = 1
    BY <1>t, <1>7 DEF FinishWrite, Operations
  <2>3. CASE clone' = [clone EXCEPT ![op[r].clone] = NoClone]
    BY <1>t, <2>1, <2>3 DEF Types, CloneRec, Slots, NoClone
  <2>4. CASE clone' = [clone EXCEPT ![op[r].clone].state = "sent",
                         ![op[r].clone].length = obj[op[r].obj].length]
    <3>1. /\ clone'[op[r].clone].refs = 1 /\ clone'[op[r].clone].state = "sent"
          /\ \A c \in Clones \ {op[r].clone} : clone'[c] = clone[c]
      BY <1>t, <2>2, <2>4 DEF Types, CloneRec
    <3> QED BY <1>t, <2>1, <3>1 DEF Slots
  <2> QED BY <2>1, <2>3, <2>4
<1>8. ASSUME NEW r \in Runtimes, FinishRead(r) PROVE Slots'
  BY <1>t, <1>8, SharedBufferAssumption
     DEF Types, ObjRec, Slots, FinishRead, AcceptRawBuffer
<1>9. ASSUME NEW r \in Runtimes, BufferGetter(r) PROVE Slots'
  BY <1>t, <1>9 DEF Types, Slots, BufferGetter
<1>10. ASSUME NEW r \in Runtimes, GetterNew(r) PROVE Slots'
  BY <1>t, <1>10, SharedBufferAssumption DEF Types, Slots, GetterNew, AcceptRawBuffer
<1>11. ASSUME NEW r \in Runtimes, GrowShared(r) PROVE Slots'
  BY <1>t, <1>11 DEF Types, Slots, GrowShared
<1>12. ASSUME NEW r \in Runtimes, SetLength(r) PROVE Slots'
  BY <1>t, <1>12 DEF Types, Slots, SetLength
<1>13. ASSUME NEW r \in Runtimes, DropMemory(r) PROVE Slots'
  BY <1>t, <1>13 DEF Types, Slots, DropMemory
<1>14. ASSUME NEW c \in Clones, Clear(c) PROVE Slots'
  BY <1>t, <1>14 DEF Types, Slots, Clear, NoClone
<1>15. ASSUME UNCHANGED vars PROVE Slots'
  BY <1>t, <1>15 DEF Slots, Operations, Adding, vars
<1> QED BY <1>1, <1>2, <1>3, <1>4, <1>5, <1>6, <1>7, <1>8, <1>9, <1>10, <1>11, <1>12,
           <1>13, <1>14, <1>15 DEF Next, Step, Crash

(* A runtime that is idle again, and the others, keep what they rely on. *)
LEMMA BecomesIdle ==
    ASSUME Types, Operations, NEW r \in Runtimes,
           op' = [op EXCEPT ![r] = Idle],
           ~overflowed' => ~overflowed,
           \A p \in Objs : obj[p].owner # None =>
              obj'[p].owner = obj[p].owner /\ obj'[p].shown = obj[p].shown,
           \A q \in Runtimes : memory[q] # None => memory'[q] # None,
           \A q \in Runtimes \ {r} : op[q].clone # None =>
              clone'[op[q].clone] = clone[op[q].clone]
    PROVE  Operations'
<1>1. op'[r] = Idle /\ \A q \in Runtimes \ {r} : op'[q] = op[q]
  BY DEF Types
<1>2. /\ Idle.at = "idle" /\ Idle.why = "none" /\ Idle.clone = None
  BY DEF Idle
<1>3. None \notin Runtimes \cup Clones
  BY SharedBufferAssumption
<1> QED BY <1>1, <1>2, <1>3 DEF Operations, Adding

(* Every step keeps what the operations in progress rely on. *)
LEMMA OperationsKept == SharedInv /\ [Next]_vars => Operations'
<1> SUFFICES ASSUME SharedInv, [Next]_vars PROVE Operations'
  OBVIOUS
<1> USE DEF growVars
<1>t. Types /\ Types' /\ Slots /\ Operations BY TypesKept DEF SharedInv, Structure
<1>1. ASSUME NEW r \in Runtimes, NEW o \in Objs, New(r, o) PROVE Operations'
  BY <1>t, <1>1, SharedBufferAssumption DEF Types, Operations, Adding, New
<1>2. ASSUME NEW r \in Runtimes, NEW o \in Objs, Finalize(r, o) PROVE Operations'
  BY <1>t, <1>2 DEF Types, Operations, Adding, Finalize, MayCollect
<1>3. ASSUME NEW r \in Runtimes, NEW o \in Objs, NEW c \in Clones,
             WriteSharedArrayBuffer(r, o, c)
      PROVE Operations'
  BY <1>t, <1>3, SharedBufferAssumption
     DEF Types, Slots, Operations, Adding, WriteSharedArrayBuffer
<1>4. ASSUME NEW r \in Runtimes, NEW c \in Clones, ReadSharedArrayBuffer(r, c)
      PROVE Operations'
  BY <1>t, <1>4 DEF Types, Operations, Adding, ReadSharedArrayBuffer
<1>5. ASSUME NEW r \in Runtimes, AddReferenceLoad(r) PROVE Operations'
  <2>1. CASE /\ op[r].why = "write" /\ op' = [op EXCEPT ![r] = Idle]
             /\ clone' = [clone EXCEPT ![op[r].clone] = NoClone]
             /\ UNCHANGED <<obj, memory>>
             /\ ~overflowed' => ~overflowed
    <3>1. \A q \in Runtimes \ {r} : op[q].clone # op[r].clone /\ op[r].clone \in Clones
      BY <1>t, <2>1 DEF Operations
    <3>2. \A q \in Runtimes \ {r} : op[q].clone # None =>
            clone'[op[q].clone] = clone[op[q].clone]
      BY <1>t, <2>1, <3>1 DEF Types, OpRec
    <3> QED BY <1>t, <2>1, <3>2, BecomesIdle
  <2>2. CASE /\ op' = [op EXCEPT ![r] = Idle] /\ UNCHANGED <<obj, memory, clone>>
             /\ ~overflowed' => ~overflowed
    BY <1>t, <2>2, BecomesIdle
  <2>3. CASE /\ (refcount + 1) % (MaxRefcount + 1) # 0
             /\ op' = [op EXCEPT ![r].at = "exchange", ![r].old = refcount]
             /\ UNCHANGED <<obj, memory, clone, overflowed>>
    <3>1. ~overflowed => refcount < MaxRefcount
      BY <1>t, <2>3, FullCounter, SharedBufferAssumption DEF SharedInv, Counted, Types
    <3>2. /\ op'[r].at = "exchange" /\ op'[r].old = refcount
          /\ op'[r].why = op[r].why /\ op'[r].obj = op[r].obj /\ op'[r].clone = op[r].clone
          /\ \A q \in Runtimes \ {r} : op'[q] = op[q]
      BY <1>t, <2>3 DEF Types, OpRec
    <3>3. op[r].at = "load" BY <1>5, LoadCases
    <3>4. UNCHANGED <<obj, memory, clone>> /\ (~overflowed' => ~overflowed)
      BY <2>3
    <3> QED BY <1>t, <3>1, <3>2, <3>3, <3>4 DEF Operations, Adding
  <2> QED BY <1>5, <2>1, <2>2, <2>3, LoadCases
<1>6. ASSUME NEW r \in Runtimes, AddReferenceExchange(r) PROVE Operations'
  <2>0. op[r].at = "exchange" /\ UNCHANGED overflowed
    BY <1>6, ExchangeCases
  <2>1. CASE op' = [op EXCEPT ![r].at = "load"] /\ UNCHANGED <<obj, memory, clone>>
    BY <1>t, <2>0, <2>1 DEF Types, OpRec, Operations, Adding
  <2>2. CASE /\ op[r].why \notin {"write", "getter"} /\ op' = [op EXCEPT ![r].at = "have"]
             /\ UNCHANGED <<memory, obj, clone>>
    BY <1>t, <2>0, <2>2 DEF Types, OpRec, Operations, Adding
  <2>3. CASE /\ op[r].why = "write" /\ op' = [op EXCEPT ![r].at = "have"]
             /\ clone' = [clone EXCEPT ![op[r].clone].refs = 1]
             /\ UNCHANGED <<memory, obj>>
    BY <1>t, <2>0, <2>3 DEF Types, OpRec, CloneRec, Operations, Adding
  <2>4. CASE /\ op[r].why = "getter" /\ op' = [op EXCEPT ![r] = Idle]
             /\ memory' = [memory EXCEPT ![r] = op[r].obj]
             /\ obj' = [obj EXCEPT ![op[r].obj].shown = TRUE] /\ UNCHANGED clone
    BY <1>t, <2>0, <2>4 DEF Types, OpRec, ObjRec, Operations, Adding, Idle
  <2> QED BY <1>6, <2>1, <2>2, <2>3, <2>4, ExchangeCases
<1>7. ASSUME NEW r \in Runtimes, FinishWrite(r) PROVE Operations'
  BY <1>t, <1>7, SharedBufferAssumption
     DEF Types, Operations, Adding, FinishWrite, Done, Idle
<1>8. ASSUME NEW r \in Runtimes, FinishRead(r) PROVE Operations'
  <2>1. op' = [op EXCEPT ![r] = Idle] /\ UNCHANGED <<clone, overflowed>>
    BY <1>8 DEF FinishRead, Done
  <2>2. CASE UNCHANGED <<obj, memory>>
    BY <1>t, <2>1, <2>2, BecomesIdle
  <2>3. ASSUME NEW o \in Objs, NEW use \in {"plain", "wasm", "failed"},
               AcceptRawBuffer(r, o, clone[op[r].clone].length, use # "failed"),
               memory' = IF use = "wasm" THEN [memory EXCEPT ![r] = o] ELSE memory
        PROVE  Operations'
    <3>1. \A p \in Objs : obj[p].owner # None => obj'[p] = obj[p]
      BY <1>t, <2>3 DEF AcceptRawBuffer, Types
    <3>2. \A q \in Runtimes : memory[q] # None => memory'[q] # None
      BY <1>t, <2>3, SharedBufferAssumption DEF Types
    <3> QED BY <1>t, <2>1, <3>1, <3>2, BecomesIdle
  <2> QED BY <1>8, <2>2, <2>3 DEF FinishRead
<1>9. ASSUME NEW r \in Runtimes, BufferGetter(r) PROVE Operations'
  BY <1>t, <1>9 DEF Types, Operations, Adding, BufferGetter, Idle
<1>10. ASSUME NEW r \in Runtimes, GetterNew(r) PROVE Operations'
  <2>0. UNCHANGED <<memory, clone, overflowed>> /\ op[r].at = "new"
    BY <1>10 DEF GetterNew
  <2>1. CASE UNCHANGED obj /\ op' = [op EXCEPT ![r] = Idle]
    BY <1>t, <2>0, <2>1 DEF Types, OpRec, Operations, Adding, Idle
  <2>2. ASSUME NEW o \in Objs, AcceptRawBuffer(r, o, op[r].len, FALSE),
               op' = [op EXCEPT ![r].at = "load", ![r].obj = o]
        PROVE  Operations'
    <3>1. /\ \A p \in Objs : obj[p].owner # None => obj'[p] = obj[p]
          /\ obj'[o].owner = r /\ ~obj'[o].shown
      BY <1>t, <2>2 DEF AcceptRawBuffer, Types
    <3>2. /\ op'[r].at = "load" /\ op'[r].obj = o
          /\ op'[r].why = op[r].why /\ op'[r].clone = op[r].clone
          /\ \A q \in Runtimes \ {r} : op'[q] = op[q]
      BY <1>t, <2>2 DEF Types, OpRec
    <3>3. op[r].why = "getter"
      BY <1>t, <2>0 DEF Operations, Types, OpRec
    <3>4. UNCHANGED <<memory, clone, overflowed>> /\ None \notin Runtimes
      BY <2>0, SharedBufferAssumption
    <3> HIDE <2>2
    <3> QED BY <1>t, <2>0, <3>1, <3>2, <3>3, <3>4 DEF Operations, Adding
  <2> QED BY <1>10, <2>1, <2>2 DEF GetterNew, Done
<1>11. ASSUME NEW r \in Runtimes, GrowShared(r) PROVE Operations'
  BY <1>t, <1>11 DEF Types, Operations, Adding, GrowShared, Idle
<1>12. ASSUME NEW r \in Runtimes, SetLength(r) PROVE Operations'
  BY <1>t, <1>12 DEF Types, Operations, Adding, SetLength, Done, Idle
<1>13. ASSUME NEW r \in Runtimes, DropMemory(r) PROVE Operations'
  BY <1>t, <1>13 DEF Types, Operations, Adding, DropMemory
<1>14. ASSUME NEW c \in Clones, Clear(c) PROVE Operations'
  BY <1>t, <1>14 DEF Types, Operations, Adding, Clear
<1>15. ASSUME UNCHANGED vars PROVE Operations'
  BY <1>t, <1>15 DEF Slots, Operations, Adding, vars
<1> QED BY <1>1, <1>2, <1>3, <1>4, <1>5, <1>6, <1>7, <1>8, <1>9, <1>10, <1>11, <1>12,
           <1>13, <1>14, <1>15 DEF Next, Step, Crash

-----------------------------------------------------------------------------
(* The references are finitely many. *)
LEMMA Finite ==
    /\ IsFiniteSet(Owning) /\ IsFiniteSet(Holding) /\ IsFiniteSet(InHand)
    /\ IsFiniteSet(Owning') /\ IsFiniteSet(Holding') /\ IsFiniteSet(InHand')
<1>1. IsFiniteSet(Objs) /\ IsFiniteSet(Clones) /\ IsFiniteSet(Runtimes)
  BY SharedBufferAssumption
<1>2. Owning \subseteq Objs /\ Holding \subseteq Clones /\ InHand \subseteq Runtimes
  BY DEF Owning, Attached, Holding, InHand
<1>3. Owning' \subseteq Objs /\ Holding' \subseteq Clones /\ InHand' \subseteq Runtimes
  BY DEF Owning, Attached, Holding, InHand
<1> QED BY <1>1, <1>2, <1>3, FS_Subset

(* So they can be counted. *)
LEMMA CountIsNat == Count \in Nat /\ Count' \in Nat
BY Finite, FS_CardinalityType DEF Count

(* The counter stays right if neither it nor the references change ... *)
LEMMA Unmoved ==
    ASSUME Counted, ~overflowed' => ~overflowed, UNCHANGED <<mapped, refcount>>,
           Owning' = Owning, Holding' = Holding, InHand' = InHand
    PROVE  Counted'
<1>1. Count' = Count
  BY DEF Count
<1> QED BY <1>1 DEF Counted

(* ... if both gain one, while there was one and the counter was not full ... *)
LEMMA Gained ==
    ASSUME Types, Counted, UNCHANGED <<mapped, overflowed>>, refcount' = refcount + 1,
           ~overflowed => refcount > 0 /\ refcount < MaxRefcount /\ Count' = Count + 1
    PROVE  Counted'
<1>1. ASSUME ~overflowed
      PROVE  /\ refcount' = Count' /\ refcount' > 0 /\ refcount > 0
             /\ refcount' <= MaxRefcount
  BY <1>1, CountIsNat, SharedBufferAssumption DEF Counted, Types
<1> QED BY <1>1 DEF Counted

(* ... and if both lose one by dropReference(). *)
LEMMA Lost ==
    ASSUME Types, Counted, DropReference, UNCHANGED overflowed,
           ~overflowed => Count' = Count - 1
    PROVE  Counted'
<1>0. mapped' <=> refcount > 1
  BY DEF DropReference
<1>1. ASSUME ~overflowed
      PROVE  /\ refcount' = Count' /\ refcount' <= MaxRefcount
             /\ refcount' > 0 <=> refcount > 1
  BY <1>1, CountIsNat, DropEffect, SharedBufferAssumption DEF Counted, Types
<1> QED BY <1>0, <1>1 DEF Counted

(* Who adds a reference relies on one that is there. *)
LEMMA OneIsThere ==
    ASSUME Types, Slots, Operations, Counted, ~overflowed
    PROVE  /\ \A r \in Runtimes : op[r].at \in {"load", "exchange"} => refcount > 0
           /\ Attached # {} => refcount > 0
<1>1. ASSUME NEW o \in Objs, obj[o].owner # None, obj[o].shown PROVE o \in Owning
  BY <1>1 DEF Owning, Attached, Early, Operations
<1>2. Owning # {} \/ Holding # {} => Count > 0
  <2>1. Owning # {} => Cardinality(Owning) > 0
    BY Finite, FS_EmptySet, FS_CardinalityType
  <2>2. Holding # {} => Cardinality(Holding) > 0
    BY Finite, FS_EmptySet, FS_CardinalityType
  <2> QED BY <2>1, <2>2, Finite, FS_CardinalityType DEF Count
<1>3. ASSUME NEW r \in Runtimes, memory[r] # None PROVE Owning # {}
  <2>1. memory[r] \in Objs /\ obj[memory[r]].owner # None /\ obj[memory[r]].shown
    BY <1>3, SharedBufferAssumption DEF Types, Slots
  <2> QED BY <1>1, <2>1
<1>4. ASSUME NEW r \in Runtimes, op[r].at \in {"load", "exchange"}
      PROVE  Owning # {} \/ Holding # {}
  <2>1. op[r].why \in {"write", "read", "getter"}
    BY <1>4 DEF Types, OpRec, Operations
  <2>2. CASE op[r].why = "getter"
    BY <1>3, <2>2 DEF Operations
  <2>3. CASE op[r].why = "write"
    BY <1>1, <2>3, SharedBufferAssumption DEF Operations
  <2>4. CASE op[r].why = "read"
    BY <2>4 DEF Operations, Slots, Holding
  <2> QED BY <2>1, <2>2, <2>3, <2>4
<1>5. Attached # {} => Owning # {}
  BY <1>3 DEF Owning, Early, Operations, Adding
<1> QED BY <1>2, <1>4, <1>5 DEF Counted

(* An element more in one of the three sets is a reference more. *)
LEMMA OneMore ==
    ASSUME NEW x,
           \/ /\ x \notin Owning /\ Owning' = Owning \cup {x}
              /\ UNCHANGED <<Holding, InHand>>
           \/ /\ x \notin Holding /\ Holding' = Holding \cup {x}
              /\ UNCHANGED <<Owning, InHand>>
           \/ /\ x \notin InHand /\ InHand' = InHand \cup {x}
              /\ UNCHANGED <<Owning, Holding>>
    PROVE  Count' = Count + 1
<1>1. /\ Cardinality(Owning) \in Nat /\ Cardinality(Holding) \in Nat
      /\ Cardinality(InHand) \in Nat
  BY Finite, FS_CardinalityType
<1>2. \A S : IsFiniteSet(S) /\ x \notin S => Cardinality(S \cup {x}) = Cardinality(S) + 1
  BY FS_AddElement
<1> QED BY <1>1, <1>2, Finite DEF Count

(* An element less in one of them is a reference less. *)
LEMMA OneLess ==
    ASSUME NEW x,
           \/ /\ x \in Owning /\ Owning' = Owning \ {x}
              /\ UNCHANGED <<Holding, InHand>>
           \/ /\ x \in Holding /\ Holding' = Holding \ {x}
              /\ UNCHANGED <<Owning, InHand>>
           \/ /\ x \in InHand /\ InHand' = InHand \ {x}
              /\ UNCHANGED <<Owning, Holding>>
    PROVE  Count' = Count - 1
<1>1. /\ Cardinality(Owning) \in Nat /\ Cardinality(Holding) \in Nat
      /\ Cardinality(InHand) \in Nat
  BY Finite, FS_CardinalityType
<1>2. \A S : IsFiniteSet(S) /\ x \in S => Cardinality(S \ {x}) = Cardinality(S) - 1
  BY FS_RemoveElement
<1> QED BY <1>1, <1>2, Finite DEF Count

(* The owning objects depend on owners and on the getters at work only. *)
LEMMA SameOwning ==
    ASSUME \A o \in Objs : obj'[o].owner = obj[o].owner,
           \A q \in Runtimes : Adding(q)' <=> Adding(q),
           \A q \in Runtimes : Adding(q) => op'[q].obj = op[q].obj
    PROVE  Owning' = Owning
BY DEF Owning, Attached, Early

(* A step of a runtime that is no reader with a reference leaves InHand alone. *)
LEMMA SameInHand ==
    ASSUME NEW r \in Runtimes, \A q \in Runtimes \ {r} : op'[q] = op[q],
           ~(op[r].at = "have" /\ op[r].why = "read"),
           ~(op'[r].at = "have" /\ op'[r].why = "read")
    PROVE  InHand' = InHand
BY DEF InHand

(* Every step keeps the counter right. *)
LEMMA CountedKept == SharedInv /\ [Next]_vars => Counted'
<1> SUFFICES ASSUME SharedInv, [Next]_vars PROVE Counted'
  OBVIOUS
<1> USE DEF growVars
<1>t. Types /\ Slots /\ Operations /\ Counted
  BY DEF SharedInv
<1>n. None \notin Runtimes \cup Objs \cup Clones
  BY SharedBufferAssumption
<1>1. ASSUME NEW r \in Runtimes, NEW o \in Objs, New(r, o) PROVE Counted'
  <2>1. \A q \in Runtimes : memory[q] = None
    BY <1>t, <1>1, <1>n DEF New, Slots, Types
  <2>2. \A q \in Runtimes : op[q].why = "none"
    BY <1>t, <1>1, <2>1 DEF New, Operations, Types, OpRec
  <2>3. op' = op /\ clone' = clone /\ refcount' = 1 /\ mapped' = TRUE
    BY <1>1 DEF New
  <2>4. obj'[o].owner = r /\ \A p \in Objs \ {o} : obj'[p].owner = None
    BY <1>t, <1>1 DEF New, AcceptRawBuffer, Types
  <2>5. Owning' = {o}
    BY <1>n, <2>2, <2>3, <2>4 DEF Owning, Attached, Early, Adding
  <2>6. Holding' = {} /\ InHand' = {}
    BY <1>t, <1>1, <2>2, <2>3 DEF New, Slots, Holding, InHand
  <2>7. Count' = 1
    BY <2>5, <2>6, FS_EmptySet, FS_Singleton DEF Count
  <2> QED BY <2>3, <2>7, SharedBufferAssumption DEF Counted
<1>2. ASSUME NEW r \in Runtimes, NEW o \in Objs, Finalize(r, o) PROVE Counted'
  <2>1. /\ DropReference /\ UNCHANGED <<clone, op, overflowed>>
        /\ obj' = [obj EXCEPT ![o] = NoObj] /\ obj[o].owner = r
    BY <1>2 DEF Finalize
  <2>2. \A q \in Runtimes : Adding(q) => op[q].obj # o
    BY <1>t, <1>2 DEF Finalize, MayCollect, Adding, Operations
  <2>3. obj'[o].owner = None /\ \A p \in Objs \ {o} : obj'[p].owner = obj[p].owner
    BY <1>t, <2>1 DEF Types, NoObj
  <2>4. o \in Owning /\ Owning' = Owning \ {o}
    BY <1>n, <2>1, <2>2, <2>3 DEF Owning, Attached, Early, Adding
  <2>5. Holding' = Holding /\ InHand' = InHand
    BY <2>1 DEF Holding, InHand
  <2> QED BY <1>t, <2>1, <2>4, <2>5, OneLess, Lost
<1>3. ASSUME NEW r \in Runtimes, NEW o \in Objs, NEW c \in Clones,
             WriteSharedArrayBuffer(r, o, c)
      PROVE Counted'
  <2>1. /\ op'[r].at = "load" /\ op'[r].why = "write" /\ op[r].at = "idle"
        /\ \A q \in Runtimes \ {r} : op'[q] = op[q]
    BY <1>t, <1>3 DEF WriteSharedArrayBuffer, Types, Idle
  <2>2. Owning' = Owning
    BY <1>3, <2>1, SameOwning DEF WriteSharedArrayBuffer, Adding
  <2>3. Holding' = Holding
    BY <1>t, <1>3 DEF WriteSharedArrayBuffer, Types, CloneRec, Holding
  <2>4. InHand' = InHand
    BY <2>1, SameInHand
  <2> QED BY <1>t, <1>3, <2>2, <2>3, <2>4, Unmoved DEF WriteSharedArrayBuffer
<1>4. ASSUME NEW r \in Runtimes, NEW c \in Clones, ReadSharedArrayBuffer(r, c)
      PROVE Counted'
  <2>1. /\ op'[r].at = "load" /\ op'[r].why = "read" /\ op[r].at = "idle"
        /\ \A q \in Runtimes \ {r} : op'[q] = op[q]
    BY <1>t, <1>4 DEF ReadSharedArrayBuffer, Types, Idle
  <2>2. Owning' = Owning
    BY <1>4, <2>1, SameOwning DEF ReadSharedArrayBuffer, Adding
  <2>3. InHand' = InHand
    BY <2>1, SameInHand
  <2> QED BY <1>t, <1>4, <2>2, <2>3, Unmoved DEF ReadSharedArrayBuffer, Holding
<1>5. ASSUME NEW r \in Runtimes, AddReferenceLoad(r) PROVE Counted'
  <2>0. op[r].at = "load" /\ UNCHANGED <<mapped, refcount, obj, memory>>
    BY <1>5, LoadCases
  <2>1. SUFFICES ASSUME ~overflowed' PROVE Counted'
    BY DEF Counted
  <2>2. CASE op' = [op EXCEPT ![r] = Idle] /\ op[r].why # "getter"
    <3>1. op'[r] = Idle /\ \A q \in Runtimes \ {r} : op'[q] = op[q]
      BY <1>t, <2>2 DEF Types
    <3>2. Idle.at = "idle" BY DEF Idle
    <3>3. Owning' = Owning
      BY <2>0, <2>2, <3>1, <3>2, SameOwning DEF Adding
    <3>4. InHand' = InHand
      BY <2>0, <3>1, <3>2, SameInHand
    <3>5. Holding' = Holding
      <4>1. CASE clone' = clone
        BY <4>1 DEF Holding
      <4>2. CASE clone' = [clone EXCEPT ![op[r].clone] = NoClone] /\ op[r].why = "write"
        <5>1. clone[op[r].clone].refs = 0 /\ op[r].clone \in Clones
          BY <1>t, <2>0, <4>2 DEF Operations
        <5> QED BY <1>t, <4>2, <5>1 DEF Types, CloneRec, NoClone, Holding
      <4> QED BY <1>5, <4>1, <4>2, LoadCases
    <3>6. ~overflowed' => ~overflowed
      BY <1>5, LoadCases
    <3> QED BY <1>t, <2>0, <3>3, <3>4, <3>5, <3>6, Unmoved
  <2>3. CASE /\ op' = [op EXCEPT ![r].at = "exchange", ![r].old = refcount]
             /\ UNCHANGED <<clone, overflowed>>
    <3>1. /\ op'[r].at = "exchange" /\ op'[r].why = op[r].why /\ op'[r].obj = op[r].obj
          /\ \A q \in Runtimes \ {r} : op'[q] = op[q]
      BY <1>t, <2>3 DEF Types, OpRec
    <3>2. Owning' = Owning
      BY <2>0, <3>1, SameOwning DEF Adding
    <3>3. InHand' = InHand
      BY <2>0, <3>1, SameInHand
    <3>4. Holding' = Holding
      BY <2>3 DEF Holding
    <3> QED BY <1>t, <2>0, <2>3, <3>2, <3>3, <3>4, Unmoved
  <2> QED BY <1>5, <2>1, <2>2, <2>3, LoadCases
<1>6. ASSUME NEW r \in Runtimes, AddReferenceExchange(r) PROVE Counted'
  <2>0. op[r].at = "exchange" /\ UNCHANGED <<mapped, overflowed>>
    BY <1>6, ExchangeCases
  <2>1. CASE /\ op' = [op EXCEPT ![r].at = "load"]
             /\ UNCHANGED <<refcount, clone, memory, obj>>
    <3>1. /\ op'[r].at = "load" /\ op'[r].why = op[r].why /\ op'[r].obj = op[r].obj
          /\ \A q \in Runtimes \ {r} : op'[q] = op[q]
      BY <1>t, <2>1 DEF Types, OpRec
    <3>2. Owning' = Owning
      BY <2>0, <2>1, <3>1, SameOwning DEF Adding
    <3>3. InHand' = InHand
      BY <2>0, <3>1, SameInHand
    <3>4. Holding' = Holding
      BY <2>1 DEF Holding
    <3> QED BY <1>t, <2>0, <2>1, <3>2, <3>3, <3>4, Unmoved
  <2>2. ASSUME refcount = op[r].old, refcount' = op[r].old + 1, Count' = Count + 1
        PROVE  Counted'
    <3>1. ~overflowed => refcount > 0 /\ refcount < MaxRefcount
      BY <1>t, <2>0, <2>2, OneIsThere DEF Operations
    <3> QED BY <1>t, <2>0, <2>2, <3>1, Gained
  <2>3. CASE /\ op[r].why = "getter" /\ op' = [op EXCEPT ![r] = Idle]
             /\ refcount = op[r].old /\ refcount' = op[r].old + 1
             /\ obj' = [obj EXCEPT ![op[r].obj].shown = TRUE] /\ clone' = clone
    <3>1. op'[r] = Idle /\ \A q \in Runtimes \ {r} : op'[q] = op[q]
      BY <1>t, <2>3 DEF Types
    <3>2. Idle.at = "idle" BY DEF Idle
    <3>3. /\ Adding(r) /\ op[r].obj \in Objs /\ obj[op[r].obj].owner = r
          /\ \A q \in Runtimes \ {r} : Adding(q) => op[q].obj # op[r].obj
      BY <1>t, <2>0, <2>3 DEF Operations, Adding
    <3>4. \A p \in Objs : obj'[p].owner = obj[p].owner
      BY <1>t, <2>3 DEF Types, ObjRec
    <3>5. op[r].obj \notin Owning /\ Owning' = Owning \cup {op[r].obj}
      BY <1>n, <3>1, <3>2, <3>3, <3>4 DEF Owning, Attached, Early, Adding
    <3>6. InHand' = InHand
      BY <2>0, <3>1, <3>2, SameInHand
    <3>7. Holding' = Holding
      BY <2>3 DEF Holding
    <3> QED BY <2>2, <2>3, <3>5, <3>6, <3>7, OneMore
  <2>4. ASSUME op[r].why # "getter", op' = [op EXCEPT ![r].at = "have"], obj' = obj
        PROVE  /\ Owning' = Owning /\ op'[r].at = "have" /\ op'[r].why = op[r].why
               /\ \A q \in Runtimes \ {r} : op'[q] = op[q]
    <3>1. /\ op'[r].at = "have" /\ op'[r].why = op[r].why
          /\ \A q \in Runtimes \ {r} : op'[q] = op[q]
      BY <1>t, <2>4 DEF Types, OpRec
    <3> QED BY <2>4, <3>1, SameOwning DEF Adding
  <2>5. CASE /\ op[r].why = "write" /\ op' = [op EXCEPT ![r].at = "have"]
             /\ refcount = op[r].old /\ refcount' = op[r].old + 1
             /\ clone' = [clone EXCEPT ![op[r].clone].refs = 1] /\ obj' = obj
    <3>1. op[r].clone \in Clones /\ clone[op[r].clone].refs = 0
      BY <1>t, <2>0, <2>5 DEF Operations
    <3>2. /\ op[r].clone \notin Holding
          /\ Holding' = Holding \cup {op[r].clone}
      BY <1>t, <2>5, <3>1 DEF Types, CloneRec, Holding
    <3>3. InHand' = InHand
      BY <2>0, <2>4, <2>5, SameInHand
    <3> QED BY <2>2, <2>4, <2>5, <3>2, <3>3, OneMore
  <2>6. CASE /\ op[r].why \notin {"write", "getter"} /\ op' = [op EXCEPT ![r].at = "have"]
             /\ refcount = op[r].old /\ refcount' = op[r].old + 1
             /\ UNCHANGED <<obj, clone>>
    <3>1. op[r].why = "read"
      BY <1>t, <2>0, <2>6 DEF Types, OpRec, Operations
    <3>2. r \notin InHand /\ InHand' = InHand \cup {r}
      BY <2>0, <2>4, <2>6, <3>1 DEF InHand
    <3>3. Holding' = Holding
      BY <2>6 DEF Holding
    <3> QED BY <2>2, <2>4, <2>6, <3>2, <3>3, OneMore
  <2> QED BY <1>6, <2>1, <2>3, <2>5, <2>6, ExchangeCases
<1>7. ASSUME NEW r \in Runtimes, FinishWrite(r) PROVE Counted'
  <2>1. /\ op[r].at = "have" /\ op[r].why = "write"
        /\ op' = [op EXCEPT ![r] = Idle] /\ UNCHANGED <<obj, overflowed>>
    BY <1>7 DEF FinishWrite, Done
  <2>2. op'[r] = Idle /\ \A q \in Runtimes \ {r} : op'[q] = op[q]
    BY <1>t, <2>1 DEF Types
  <2>3. Idle.at = "idle" BY DEF Idle
  <2>4. Owning' = Owning
    BY <2>1, <2>2, <2>3, SameOwning DEF Adding
  <2>5. InHand' = InHand
    BY <2>1, <2>2, <2>3, SameInHand
  <2>6. op[r].clone \in Clones /\ clone[op[r].clone].refs = 1
    BY <1>t, <2>1 DEF Operations
  <2>7. CASE clone' = [clone EXCEPT ![op[r].clone] = NoClone] /\ DropReference
    <3>1. op[r].clone \in Holding /\ Holding' = Holding \ {op[r].clone}
      BY <1>t, <2>6, <2>7 DEF Types, CloneRec, NoClone, Holding
    <3> QED BY <1>t, <2>1, <2>4, <2>5, <2>7, <3>1, OneLess, Lost
  <2>8. CASE /\ clone' = [clone EXCEPT ![op[r].clone].state = "sent",
                           ![op[r].clone].length = obj[op[r].obj].length]
             /\ UNCHANGED <<mapped, refcount>>
    <3>1. \A c \in Clones : clone'[c].refs = clone[c].refs
      BY <1>t, <2>6, <2>8 DEF Types, CloneRec
    <3>2. Holding' = Holding
      BY <3>1 DEF Holding
    <3> QED BY <1>t, <2>1, <2>4, <2>5, <2>8, <3>2, Unmoved
  <2> QED BY <1>7, <2>7, <2>8 DEF FinishWrite
<1>8. ASSUME NEW r \in Runtimes, FinishRead(r) PROVE Counted'
  <2>1. /\ op[r].at = "have" /\ op[r].why = "read"
        /\ op' = [op EXCEPT ![r] = Idle] /\ UNCHANGED <<clone, overflowed>>
    BY <1>8 DEF FinishRead, Done
  <2>2. op'[r] = Idle /\ \A q \in Runtimes \ {r} : op'[q] = op[q]
    BY <1>t, <2>1 DEF Types
  <2>3. Idle.at = "idle" BY DEF Idle
  <2>4. r \in InHand /\ InHand' = InHand \ {r} /\ Holding' = Holding
    BY <2>1, <2>2, <2>3 DEF InHand, Holding
  <2>5. CASE DropReference /\ UNCHANGED obj
    <3>1. Owning' = Owning
      BY <2>1, <2>2, <2>3, <2>5, SameOwning DEF Adding
    <3> QED BY <1>t, <2>1, <2>4, <2>5, <3>1, OneLess, Lost
  <2>6. ASSUME NEW o \in Objs, NEW n, NEW b, AcceptRawBuffer(r, o, n, b),
               UNCHANGED <<mapped, refcount>>
        PROVE  Counted'
    <3>1. /\ obj[o].owner = None /\ obj'[o].owner = r
          /\ \A p \in Objs \ {o} : obj'[p].owner = obj[p].owner
      BY <1>t, <2>6 DEF AcceptRawBuffer, Types
    <3>2. \A q \in Runtimes : /\ Adding(q)' <=> Adding(q)
                              /\ Adding(q) => op'[q].obj = op[q].obj
      BY <2>1, <2>2, <2>3 DEF Adding
    <3>3. \A q \in Runtimes : Adding(q) => op[q].obj # o
      BY <1>t, <1>n, <3>1 DEF Operations
    <3>4. o \notin Owning /\ Owning' = Owning \cup {o}
      BY <1>n, <3>1, <3>2, <3>3 DEF Owning, Attached, Early
    <3>5. /\ Cardinality(Owning') = Cardinality(Owning) + 1
          /\ Cardinality(InHand') = Cardinality(InHand) - 1
      BY <2>4, <3>4, Finite, FS_AddElement, FS_RemoveElement
    <3>6. Count' = Count
      BY <2>4, <3>5, Finite, FS_CardinalityType DEF Count
    <3> QED BY <1>t, <2>1, <2>6, <3>6 DEF Counted
  <2> QED BY <1>8, <2>5, <2>6 DEF FinishRead
<1>9. ASSUME NEW r \in Runtimes, BufferGetter(r) PROVE Counted'
  <2>1. /\ op'[r].at = "new" /\ op[r].at = "idle"
        /\ \A q \in Runtimes \ {r} : op'[q] = op[q]
    BY <1>t, <1>9 DEF BufferGetter, Types, Idle
  <2>2. Owning' = Owning
    BY <1>9, <2>1, SameOwning DEF BufferGetter, Adding
  <2>3. InHand' = InHand
    BY <2>1, SameInHand
  <2> QED BY <1>t, <1>9, <2>2, <2>3, Unmoved DEF BufferGetter, Holding
<1>10. ASSUME NEW r \in Runtimes, GetterNew(r) PROVE Counted'
  <2>1. op[r].at = "new" /\ UNCHANGED <<mapped, refcount, clone, overflowed>>
    BY <1>10 DEF GetterNew
  <2>2. Holding' = Holding
    BY <2>1 DEF Holding
  <2>3. CASE op' = [op EXCEPT ![r] = Idle] /\ UNCHANGED obj
    <3>1. op'[r] = Idle /\ \A q \in Runtimes \ {r} : op'[q] = op[q]
      BY <1>t, <2>3 DEF Types
    <3>2. Idle.at = "idle" BY DEF Idle
    <3>3. Owning' = Owning
      BY <2>1, <2>3, <3>1, <3>2, SameOwning DEF Adding
    <3>4. InHand' = InHand
      BY <2>1, <3>1, <3>2, SameInHand
    <3> QED BY <1>t, <2>1, <2>2, <3>3, <3>4, Unmoved
  <2>4. ASSUME NEW o \in Objs, AcceptRawBuffer(r, o, op[r].len, FALSE),
               op' = [op EXCEPT ![r].at = "load", ![r].obj = o]
        PROVE  Counted'
    <3>1. /\ op'[r].at = "load" /\ op'[r].why = op[r].why /\ op'[r].obj = o
          /\ \A q \in Runtimes \ {r} : op'[q] = op[q]
      BY <1>t, <2>4 DEF Types, OpRec
    <3>2. op[r].why = "getter"
      BY <1>t, <2>1 DEF Operations, Types, OpRec
    <3>3. /\ obj[o].owner = None
          /\ \A p \in Objs \ {o} : obj'[p].owner = obj[p].owner
      BY <1>t, <2>4 DEF AcceptRawBuffer, Types
    <3>4. \A q \in Runtimes : Adding(q) => op[q].obj # o
      BY <1>t, <1>n, <3>3 DEF Operations
    <3>5. Early' = Early \cup {o}
      BY <2>1, <3>1, <3>2 DEF Early, Adding
    <3>6. Owning' = Owning
      BY <3>3, <3>5 DEF Owning, Attached
    <3>7. InHand' = InHand
      BY <2>1, <3>1, SameInHand
    <3> QED BY <1>t, <2>1, <2>2, <3>6, <3>7, Unmoved
  <2> QED BY <1>10, <2>3, <2>4 DEF GetterNew, Done
<1>11. ASSUME NEW r \in Runtimes, GrowShared(r) PROVE Counted'
  <2>1. /\ op'[r].at = "grow" /\ op[r].at = "idle"
        /\ \A q \in Runtimes \ {r} : op'[q] = op[q]
    BY <1>t, <1>11 DEF GrowShared, Types, Idle
  <2>2. Owning' = Owning
    BY <1>11, <2>1, SameOwning DEF GrowShared, Adding
  <2>3. InHand' = InHand
    BY <2>1, SameInHand
  <2> QED BY <1>t, <1>11, <2>2, <2>3, Unmoved DEF GrowShared, Holding
<1>12. ASSUME NEW r \in Runtimes, SetLength(r) PROVE Counted'
  <2>1. /\ op'[r].at = "idle" /\ op[r].at = "grow"
        /\ \A q \in Runtimes \ {r} : op'[q] = op[q]
    BY <1>t, <1>12 DEF SetLength, Done, Types, Idle
  <2>2. Owning' = Owning
    BY <1>12, <2>1, SameOwning DEF SetLength, Adding
  <2>3. InHand' = InHand
    BY <2>1, SameInHand
  <2> QED BY <1>t, <1>12, <2>2, <2>3, Unmoved DEF SetLength, Holding
<1>13. ASSUME NEW r \in Runtimes, DropMemory(r) PROVE Counted'
  <2>1. UNCHANGED <<mapped, refcount, obj, clone, op, overflowed>>
    BY <1>13 DEF DropMemory
  <2> QED BY <1>t, <2>1, Unmoved
          DEF Owning, Attached, Early, Adding, Holding, InHand
<1>14. ASSUME NEW c \in Clones, Clear(c) PROVE Counted'
  <2>1. /\ DropReference /\ UNCHANGED <<obj, op, overflowed>>
        /\ clone' = [clone EXCEPT ![c] = NoClone] /\ clone[c].refs = 1
    BY <1>t, <1>14 DEF Clear, Slots
  <2>2. c \in Holding /\ Holding' = Holding \ {c}
    BY <1>t, <2>1 DEF Types, CloneRec, NoClone, Holding
  <2>3. Owning' = Owning /\ InHand' = InHand
    BY <2>1 DEF Owning, Attached, Early, Adding, InHand
  <2> QED BY <1>t, <2>1, <2>2, <2>3, OneLess, Lost
<1>15. ASSUME UNCHANGED vars PROVE Counted'
  <2>1. UNCHANGED <<mapped, refcount, obj, clone, op, overflowed>>
    BY <1>15 DEF vars
  <2> QED BY <1>t, <2>1, Unmoved
          DEF Owning, Attached, Early, Adding, Holding, InHand
<1> QED BY <1>1, <1>2, <1>3, <1>4, <1>5, <1>6, <1>7, <1>8, <1>9, <1>10, <1>11, <1>12,
           <1>13, <1>14, <1>15 DEF Next, Step, Crash

-----------------------------------------------------------------------------
(* It all holds before the buffer is made. *)
LEMMA SharedInit == Init => SharedInv
<1> SUFFICES ASSUME Init PROVE SharedInv
  OBVIOUS
<1>1. Types
  BY Records DEF Init, Types
<1>2. \A r \in Runtimes : op[r].at = "idle" /\ op[r].why = "none" /\ op[r].clone = None
  BY DEF Init, Idle
<1>3. Slots
  BY DEF Init, Slots, NoClone
<1>4. Operations
  BY <1>2 DEF Operations, Adding
<1>5. Owning = {} /\ Holding = {} /\ InHand = {}
  BY <1>2 DEF Init, NoObj, NoClone, Owning, Attached, Holding, InHand
<1>6. Counted
  BY <1>5, FS_EmptySet, SharedBufferAssumption DEF Init, Counted, Count
<1> QED BY <1>1, <1>3, <1>4, <1>6 DEF SharedInv

(* However many runtimes share the buffer, and however they interleave, fail *)
(* and lose messages: addReference() and dropReference() count exactly the   *)
(* references of objects, clones and readers, the counter never wraps, and   *)
(* the memory is mapped exactly while one is left, unless bufferGetterImpl() *)
(* met a full counter.                                                       *)
THEOREM ReferencesCountedAlways == Spec => []ReferencesCounted
<1>1. SharedInv /\ [Next]_vars => SharedInv'
  BY TypesKept, SlotsKept, OperationsKept, CountedKept DEF SharedInv, Structure
<1>2. SharedInv => ReferencesCounted
  BY OneIsThere DEF SharedInv, Counted, Count, ReferencesCounted
<1> QED BY <1>1, <1>2, SharedInit, PTL DEF Spec

-----------------------------------------------------------------------------
\* Lengths.

AccountRec == [count : Nat, pages : Nat]

\* Whoever grows the memory has growLock_ and has committed what it is about to
\* announce; nobody knows a length that was not announced.
GrowHolds ==
    /\ committed \in Nat /\ length >= 1 /\ length <= committed
    /\ \A r \in Runtimes : op[r].at = "grow" =>
          /\ growLock = r /\ memory[r] # None
          /\ op[r].len > length /\ op[r].len <= committed
    /\ \A r \in Runtimes : op[r].at = "new" => op[r].len <= length

\* Every length is one that was announced.
LengthsHold ==
    /\ \A o \in Objs : obj[o].owner # None => obj[o].length <= length
    /\ \A c \in Clones : clone[c].length <= length
    /\ \A c \in Clones : clone[c].state = "free" => clone[c].length = 1

Mine(r) == {o \in Objs : obj[o].owner = r}

\* A zone's entry of sharedMemoryUseCounts is right for the objects it has.
AccountHolds ==
    /\ account \in [Runtimes -> AccountRec]
    /\ \A r \in Runtimes : account[r].count = Cardinality(Mine(r))
    /\ \A r \in Runtimes : Mine(r) = {} => account[r].pages = 0
    /\ \A o \in Objs : obj[o].owner # None => obj[o].length <= account[obj[o].owner].pages

LengthInv == GrowHolds /\ LengthsHold /\ AccountHolds

(* Every step keeps what growing relies on. *)
LEMMA GrowKept == SharedInv /\ LengthInv /\ [Next]_vars => GrowHolds'
<1> SUFFICES ASSUME SharedInv, LengthInv, [Next]_vars PROVE GrowHolds'
  OBVIOUS
<1> USE DEF growVars
<1>t. Types /\ Types' /\ Slots /\ Operations /\ GrowHolds /\ LengthsHold /\ AccountHolds
  BY TypesKept DEF SharedInv, Structure, LengthInv
<1>p. Pages \subseteq Nat \ {0} BY SharedBufferAssumption DEF Pages
<1>n. None \notin Runtimes /\ None \notin Objs BY SharedBufferAssumption
<1>i. Idle.at = "idle" BY DEF Idle
<1>1. ASSUME NEW r \in Runtimes, NEW o \in Objs, New(r, o) PROVE GrowHolds'
  <2>1. /\ length' \in Pages /\ committed' = length' /\ op' = op
        /\ \A q \in Objs : obj[q].owner = None
    BY <1>1 DEF New
  <2>2. \A q \in Runtimes : memory[q] = None
    BY <1>t, <1>n, <2>1 DEF Types, Slots
  <2>3. \A q \in Runtimes : op[q].at \notin {"new", "grow"}
    BY <1>t, <2>2 DEF Types, OpRec, Operations, GrowHolds
  <2>4. length' \in Nat /\ committed' \in Nat /\ length' >= 1 /\ length' <= committed'
    BY <1>p, <2>1
  <2> QED BY <2>1, <2>3, <2>4 DEF GrowHolds
<1>2. ASSUME NEW r \in Runtimes, NEW o \in Objs, Finalize(r, o) PROVE GrowHolds'
  BY <1>t, <1>2, <1>i DEF Types, GrowHolds, Slots, Operations, Finalize, MayCollect
<1>3. ASSUME NEW r \in Runtimes, NEW o \in Objs, NEW c \in Clones,
             WriteSharedArrayBuffer(r, o, c)
      PROVE  GrowHolds'
  <2>1. \A q \in Runtimes : /\ op'[q].at = "grow" => op'[q] = op[q]
                            /\ op'[q].at = "new" => op'[q] = op[q]
    BY <1>t, <1>3, <1>i DEF Types, OpRec, Places, Idle, WriteSharedArrayBuffer, Done
  <2> QED BY <1>t, <1>3, <2>1 DEF GrowHolds, WriteSharedArrayBuffer, Types
<1>4. ASSUME NEW r \in Runtimes, NEW c \in Clones,
             ReadSharedArrayBuffer(r, c)
      PROVE  GrowHolds'
  <2>1. \A q \in Runtimes : /\ op'[q].at = "grow" => op'[q] = op[q]
                            /\ op'[q].at = "new" => op'[q] = op[q]
    BY <1>t, <1>4, <1>i DEF Types, OpRec, Places, Idle, ReadSharedArrayBuffer, Done
  <2> QED BY <1>t, <1>4, <2>1 DEF GrowHolds, ReadSharedArrayBuffer, Types
<1>5. ASSUME NEW r \in Runtimes, AddReferenceLoad(r) PROVE GrowHolds'
  <2>1. /\ UNCHANGED <<length, committed, growLock, memory>>
        /\ \/ op' = [op EXCEPT ![r] = Idle]
           \/ op' = [op EXCEPT ![r].at = "exchange", ![r].old = refcount]
    BY <1>5, LoadCases DEF AddReferenceLoad
  <2>2. \A q \in Runtimes \ {r} : op'[q] = op[q]
    BY <1>t, <2>1 DEF Types
  <2>3. op'[r].at \in {"idle", "exchange"}
    BY <1>t, <2>1, <1>i DEF Types, OpRec
  <2> QED BY <1>t, <2>1, <2>2, <2>3 DEF GrowHolds
<1>6. ASSUME NEW r \in Runtimes, AddReferenceExchange(r) PROVE GrowHolds'
  <2>1. /\ UNCHANGED <<length, committed, growLock>>
        /\ op[r].at = "exchange"
        /\ memory' = memory \/ memory' = [memory EXCEPT ![r] = op[r].obj]
        /\ \/ op' = [op EXCEPT ![r] = Idle] \/ op' = [op EXCEPT ![r].at = "have"]
           \/ op' = [op EXCEPT ![r].at = "load"]
    BY <1>6, ExchangeCases DEF AddReferenceExchange
  <2>2. \A q \in Runtimes \ {r} : op'[q] = op[q] /\ memory'[q] = memory[q]
    BY <1>t, <2>1 DEF Types
  <2>3. op'[r].at \in {"idle", "load", "have"}
    BY <1>t, <2>1, <1>i DEF Types, OpRec
  <2> QED BY <1>t, <2>1, <2>2, <2>3 DEF GrowHolds
<1>7. ASSUME NEW r \in Runtimes, FinishWrite(r) PROVE GrowHolds'
  <2>1. \A q \in Runtimes : /\ op'[q].at = "grow" => op'[q] = op[q]
                            /\ op'[q].at = "new" => op'[q] = op[q]
    BY <1>t, <1>7, <1>i DEF Types, OpRec, Places, Idle, FinishWrite, Done
  <2> QED BY <1>t, <1>7, <2>1 DEF GrowHolds, FinishWrite, Types
<1>8. ASSUME NEW r \in Runtimes, FinishRead(r) PROVE GrowHolds'
  <2>1. /\ UNCHANGED <<length, committed, growLock>> /\ op' = [op EXCEPT ![r] = Idle]
        /\ \A q \in Runtimes \ {r} : memory'[q] = memory[q]
    BY <1>t, <1>8 DEF FinishRead, Done, Types
  <2>2. op'[r].at = "idle" /\ \A q \in Runtimes \ {r} : op'[q] = op[q]
    BY <1>t, <2>1, <1>i DEF Types
  <2> QED BY <1>t, <2>1, <2>2 DEF GrowHolds
<1>9. ASSUME NEW r \in Runtimes, BufferGetter(r) PROVE GrowHolds'
  <2>1. /\ UNCHANGED <<length, committed, growLock, memory>>
        /\ op' = [op EXCEPT ![r] = [Idle EXCEPT !.at = "new", !.why = "getter",
                                               !.len = length]]
    BY <1>9 DEF BufferGetter
  <2>2. /\ op'[r].at = "new" /\ op'[r].len = length
        /\ \A q \in Runtimes \ {r} : op'[q] = op[q]
    BY <1>t, <2>1 DEF Types, Idle
  <2> QED BY <1>t, <2>1, <2>2 DEF GrowHolds, Types
<1>10. ASSUME NEW r \in Runtimes, GetterNew(r) PROVE GrowHolds'
  <2>1. /\ UNCHANGED <<length, committed, growLock, memory>>
        /\ \A q \in Runtimes \ {r} : op'[q] = op[q]
    BY <1>t, <1>10 DEF GetterNew, Done, Types
  <2>2. op'[r].at \in {"idle", "load"}
    BY <1>t, <1>10, <1>i, ZenonT(40) DEF GetterNew, Done, Types, OpRec
  <2> QED BY <1>t, <2>1, <2>2 DEF GrowHolds
<1>11. ASSUME NEW r \in Runtimes, GrowShared(r) PROVE GrowHolds'
  <2>1. PICK n \in Pages :
          /\ n > length /\ committed' = n
          /\ op' = [op EXCEPT ![r] = [Idle EXCEPT !.at = "grow", !.len = n]]
    BY <1>11, Zenon DEF GrowShared
  <2>2. /\ op'[r].at = "grow" /\ op'[r].len = n
        /\ \A q \in Runtimes \ {r} : op'[q] = op[q]
    BY <1>t, <2>1 DEF Types, Idle
  <2>3. /\ growLock' = r /\ UNCHANGED <<length, memory>> /\ memory[r] # None
        /\ growLock = None
    BY <1>11 DEF GrowShared
  <2>4. \A q \in Runtimes : op[q].at # "grow"
    BY <1>t, <1>n, <2>3 DEF GrowHolds
  <2> QED BY <1>t, <1>p, <2>1, <2>2, <2>3, <2>4 DEF GrowHolds, Types
<1>12. ASSUME NEW r \in Runtimes, SetLength(r) PROVE GrowHolds'
  <2>1. /\ op[r].at = "grow" /\ length' = op[r].len /\ op' = [op EXCEPT ![r] = Idle]
        /\ UNCHANGED committed
    BY <1>12 DEF SetLength, Done
  <2>2. op'[r].at = "idle" /\ \A q \in Runtimes \ {r} : op'[q] = op[q]
    BY <1>t, <2>1, <1>i DEF Types
  <2>3. \A q \in Runtimes \ {r} : op[q].at # "grow"
    BY <1>t, <2>1 DEF GrowHolds
  <2>5. length \in Nat /\ \A q \in Runtimes : op[q].len \in Nat
    BY <1>t, Records DEF Types
  <2>4. length < length' /\ length' <= committed
    BY <1>t, <2>1, <2>5 DEF GrowHolds
  <2> QED BY <1>t, <2>1, <2>2, <2>3, <2>4, <2>5 DEF GrowHolds, Types
<1>13. ASSUME NEW r \in Runtimes, DropMemory(r) PROVE GrowHolds'
  BY <1>t, <1>13, <1>i DEF Types, GrowHolds, Slots, Operations, DropMemory, MayCollect
<1>14. ASSUME NEW c \in Clones, Clear(c) PROVE GrowHolds'
  BY <1>t, <1>14, <1>i DEF Types, GrowHolds, Slots, Operations, Clear, MayCollect
<1>15. ASSUME UNCHANGED vars PROVE GrowHolds'
  BY <1>t, <1>15 DEF GrowHolds, vars
<1> QED BY <1>1, <1>2, <1>3, <1>4, <1>5, <1>6, <1>7, <1>8, <1>9, <1>10, <1>11, <1>12,
           <1>13, <1>14, <1>15 DEF Next, Step, Crash

(* No step makes a length that reaches past the memory. *)
LEMMA LengthsKept == SharedInv /\ LengthInv /\ [Next]_vars => LengthsHold'
<1> SUFFICES ASSUME SharedInv, LengthInv, [Next]_vars PROVE LengthsHold'
  OBVIOUS
<1> USE DEF growVars
<1>t. Types /\ Types' /\ Slots /\ Operations /\ GrowHolds /\ LengthsHold /\ AccountHolds
  BY TypesKept DEF SharedInv, Structure, LengthInv
<1>p. Pages \subseteq Nat \ {0} BY SharedBufferAssumption DEF Pages
<1>n. None \notin Runtimes /\ None \notin Objs BY SharedBufferAssumption
<1>1. ASSUME NEW r \in Runtimes, NEW o \in Objs, New(r, o) PROVE LengthsHold'
  <2>1. PICK n \in Pages, use \in {"plain", "wasm", "failed"} :
          length' = n /\ AcceptRawBuffer(r, o, n, use # "failed")
    BY <1>1 DEF New
  <2>2. obj'[o].length = n /\ \A p \in Objs \ {o} : obj'[p] = obj[p]
    BY <1>t, <2>1 DEF AcceptRawBuffer, Types
  <2>3. /\ \A p \in Objs : obj[p].owner = None
        /\ clone' = clone /\ \A c \in Clones : clone[c].state = "free"
    BY <1>1 DEF New
  <2>4. length' \in Nat /\ length' >= 1
    BY <1>p, <2>1
  <2> QED BY <1>t, <2>1, <2>2, <2>3, <2>4 DEF LengthsHold
<1>2. ASSUME NEW r \in Runtimes, NEW o \in Objs, Finalize(r, o) PROVE LengthsHold'
  <2>1. obj' = [obj EXCEPT ![o] = NoObj] /\ UNCHANGED <<length, clone>>
    BY <1>2 DEF Finalize
  <2>2. NoObj.owner = None
    BY DEF NoObj
  <2> QED BY <1>t, <2>1, <2>2 DEF Types, LengthsHold
<1>3. ASSUME NEW r \in Runtimes, NEW o \in Objs, NEW c \in Clones,
             WriteSharedArrayBuffer(r, o, c)
      PROVE  LengthsHold'
  <2>1. UNCHANGED <<length, obj>> /\ clone' = [clone EXCEPT ![c].state = "writing"]
    BY <1>3 DEF WriteSharedArrayBuffer
  <2>2. /\ \A d \in Clones : clone'[d].length = clone[d].length
        /\ \A d \in Clones : clone'[d].state = "free" => clone[d].state = "free"
    BY <1>t, <2>1 DEF Types, CloneRec
  <2> QED BY <1>t, <2>1, <2>2 DEF LengthsHold
<1>4. ASSUME NEW r \in Runtimes, NEW c \in Clones,
             ReadSharedArrayBuffer(r, c)
      PROVE  LengthsHold'
  BY <1>t, <1>4 DEF Types, LengthsHold, ReadSharedArrayBuffer
<1>5. ASSUME NEW r \in Runtimes, AddReferenceLoad(r) PROVE LengthsHold'
  <2>1. /\ UNCHANGED <<length, obj>>
        /\ clone' = clone \/ clone' = [clone EXCEPT ![op[r].clone] = NoClone]
    BY <1>5, LoadCases DEF AddReferenceLoad
  <2>2. \A d \in Clones : clone'[d] = clone[d] \/ clone'[d] = NoClone
    BY <1>t, <2>1 DEF Types
  <2>3. NoClone.length = 1
    BY DEF NoClone
  <2> QED BY <1>t, <2>1, <2>2, <2>3 DEF LengthsHold, GrowHolds
<1>6. ASSUME NEW r \in Runtimes, AddReferenceExchange(r) PROVE LengthsHold'
  <2>1. /\ UNCHANGED length
        /\ obj' = obj \/ obj' = [obj EXCEPT ![op[r].obj].shown = TRUE]
        /\ clone' = clone \/ clone' = [clone EXCEPT ![op[r].clone].refs = 1]
    BY <1>6, ExchangeCases DEF AddReferenceExchange
  <2>2. \A d \in Clones : /\ clone'[d].length = clone[d].length
                          /\ clone'[d].state = clone[d].state
    BY <1>t, <2>1 DEF Types, CloneRec
  <2>3. \A p \in Objs : obj'[p].owner = obj[p].owner /\ obj'[p].length = obj[p].length
    BY <1>t, <2>1 DEF Types, ObjRec
  <2> QED BY <1>t, <2>1, <2>2, <2>3 DEF LengthsHold
<1>7. ASSUME NEW r \in Runtimes, FinishWrite(r) PROVE LengthsHold'
  <2>1. /\ UNCHANGED <<length, obj>>
        /\ \/ clone' = [clone EXCEPT ![op[r].clone].state = "sent",
                         ![op[r].clone].length = obj[op[r].obj].length]
           \/ clone' = [clone EXCEPT ![op[r].clone] = NoClone]
    BY <1>7 DEF FinishWrite
  <2>2. op[r].obj \in Objs /\ op[r].clone \in Clones /\ obj[op[r].obj].owner = r
    BY <1>t, <1>7 DEF FinishWrite, Operations
  <2>3. obj[op[r].obj].length <= length
    BY <1>t, <1>n, <2>2 DEF LengthsHold
  <2>4. CASE clone' = [clone EXCEPT ![op[r].clone] = NoClone]
    <3>1. \A d \in Clones : clone'[d] = clone[d] \/ clone'[d] = NoClone
      BY <1>t, <2>4 DEF Types
    <3>2. NoClone.length = 1
      BY DEF NoClone
    <3> QED BY <1>t, <2>1, <3>1, <3>2 DEF LengthsHold, GrowHolds
  <2>5. CASE clone' = [clone EXCEPT ![op[r].clone].state = "sent",
                        ![op[r].clone].length = obj[op[r].obj].length]
    <3>1. \A d \in Clones \ {op[r].clone} : clone'[d] = clone[d]
      BY <1>t, <2>5 DEF Types
    <3>2. /\ clone'[op[r].clone].length = obj[op[r].obj].length
          /\ clone'[op[r].clone].state = "sent"
      BY <1>t, <2>2, <2>5 DEF Types, CloneRec
    <3> QED BY <1>t, <2>1, <2>2, <2>3, <3>1, <3>2 DEF LengthsHold
  <2> QED BY <2>1, <2>4, <2>5
<1>8. ASSUME NEW r \in Runtimes, FinishRead(r) PROVE LengthsHold'
  <2>1. op[r].clone \in Clones /\ UNCHANGED <<length, clone>>
    BY <1>t, <1>8 DEF FinishRead, Operations
  <2>2. CASE UNCHANGED obj
    BY <1>t, <2>1, <2>2 DEF LengthsHold
  <2>3. ASSUME NEW o \in Objs, NEW b, AcceptRawBuffer(r, o, clone[op[r].clone].length, b)
        PROVE  LengthsHold'
    <3>1. /\ obj'[o].length = clone[op[r].clone].length
          /\ \A p \in Objs \ {o} : obj'[p] = obj[p]
      BY <1>t, <2>3 DEF AcceptRawBuffer, Types
    <3> QED BY <1>t, <2>1, <3>1 DEF LengthsHold
  <2> QED BY <1>8, <2>2, <2>3 DEF FinishRead
<1>9. ASSUME NEW r \in Runtimes, BufferGetter(r) PROVE LengthsHold'
  BY <1>t, <1>9 DEF Types, LengthsHold, BufferGetter
<1>10. ASSUME NEW r \in Runtimes, GetterNew(r) PROVE LengthsHold'
  <2>1. op[r].at = "new" /\ UNCHANGED <<length, clone>>
    BY <1>10 DEF GetterNew
  <2>2. CASE UNCHANGED obj
    BY <1>t, <2>1, <2>2 DEF LengthsHold
  <2>3. ASSUME NEW o \in Objs, AcceptRawBuffer(r, o, op[r].len, FALSE)
        PROVE  LengthsHold'
    <3>1. obj'[o].length = op[r].len /\ \A p \in Objs \ {o} : obj'[p] = obj[p]
      BY <1>t, <2>3 DEF AcceptRawBuffer, Types
    <3> QED BY <1>t, <2>1, <3>1 DEF LengthsHold, GrowHolds
  <2> QED BY <1>10, <2>2, <2>3 DEF GetterNew
<1>11. ASSUME NEW r \in Runtimes, GrowShared(r) PROVE LengthsHold'
  BY <1>t, <1>11 DEF Types, LengthsHold, GrowShared
<1>12. ASSUME NEW r \in Runtimes, SetLength(r) PROVE LengthsHold'
  <2>1. op[r].at = "grow" /\ length' = op[r].len /\ UNCHANGED <<obj, clone>>
    BY <1>12 DEF SetLength
  <2>2. length \in Nat /\ length' \in Nat /\ length < length'
    BY <1>t, <2>1, Records DEF GrowHolds, Types
  <2>3. /\ \A p \in Objs : obj[p].length \in Nat
        /\ \A d \in Clones : clone[d].length \in Nat
    BY <1>t, Records DEF Types
  <2> QED BY <1>t, <2>1, <2>2, <2>3 DEF LengthsHold
<1>13. ASSUME NEW r \in Runtimes, DropMemory(r) PROVE LengthsHold'
  BY <1>t, <1>13 DEF Types, LengthsHold, DropMemory
<1>14. ASSUME NEW c \in Clones, Clear(c) PROVE LengthsHold'
  <2>1. UNCHANGED <<length, obj>> /\ clone' = [clone EXCEPT ![c] = NoClone]
    BY <1>14 DEF Clear
  <2>2. \A d \in Clones : clone'[d] = clone[d] \/ clone'[d] = NoClone
    BY <1>t, <2>1 DEF Types
  <2>3. NoClone.length = 1
    BY DEF NoClone
  <2> QED BY <1>t, <2>1, <2>2, <2>3 DEF LengthsHold, GrowHolds
<1>15. ASSUME UNCHANGED vars PROVE LengthsHold'
  BY <1>t, <1>15 DEF LengthsHold, vars
<1> QED BY <1>1, <1>2, <1>3, <1>4, <1>5, <1>6, <1>7, <1>8, <1>9, <1>10, <1>11, <1>12,
           <1>13, <1>14, <1>15 DEF Next, Step, Crash

(* What a zone is charged depends on its objects' owners and lengths only. *)
LEMMA SameAccount ==
    ASSUME AccountHolds, UNCHANGED account,
           \A p \in Objs : obj'[p].owner = obj[p].owner /\ obj'[p].length = obj[p].length
    PROVE  AccountHolds'
<1>1. \A r : Mine(r)' = Mine(r)
  BY DEF Mine
<1> QED BY <1>1 DEF AccountHolds

(* addSharedMemory() charges the zone for one more object, and for its length. *)
LEMMA AccountAdded ==
    ASSUME Types, AccountHolds, NEW r \in Runtimes, NEW o \in Objs, NEW n \in Nat,
           NEW b, AcceptRawBuffer(r, o, n, b)
    PROVE  AccountHolds'
<1> DEFINE x == [count |-> account[r].count + 1,
                 pages |-> IF n > account[r].pages THEN n ELSE account[r].pages]
<1>1. /\ obj[o].owner = None /\ obj'[o].owner = r /\ obj'[o].length = n
      /\ \A p \in Objs \ {o} : obj'[p] = obj[p]
  BY DEF AcceptRawBuffer, Types
<1>2. account' = [account EXCEPT ![r] = x]
  BY DEF AcceptRawBuffer
<1>3. /\ account \in [Runtimes -> AccountRec] /\ account[r] \in AccountRec
      /\ account[r].count \in Nat /\ account[r].pages \in Nat
  BY DEF AccountHolds, AccountRec
<1>4. /\ x \in AccountRec /\ x.count = account[r].count + 1
      /\ x.pages >= n /\ x.pages >= account[r].pages
  BY <1>3 DEF AccountRec
<1> HIDE DEF x
<1>5. account'[r] = x /\ \A q \in Runtimes \ {r} : account'[q] = account[q]
  BY <1>2, <1>3
<1>6. account' \in [Runtimes -> AccountRec]
  BY <1>2, <1>3, <1>4
<1>n. None \notin Runtimes
  BY SharedBufferAssumption
<1>7. /\ o \notin Mine(r) /\ Mine(r)' = Mine(r) \cup {o}
      /\ \A q \in Runtimes \ {r} : Mine(q)' = Mine(q)
  BY <1>1, <1>n DEF Mine
<1>8. IsFiniteSet(Mine(r)) /\ Cardinality(Mine(r)') = Cardinality(Mine(r)) + 1
  <2>1. IsFiniteSet(Mine(r))
    BY SharedBufferAssumption, FS_Subset DEF Mine
  <2> QED BY <1>7, <2>1, FS_AddElement
<1>9. \A q \in Runtimes : account'[q].count = Cardinality(Mine(q)')
  BY <1>4, <1>5, <1>7, <1>8 DEF AccountHolds
<1>10. \A q \in Runtimes : Mine(q)' = {} => account'[q].pages = 0
  BY <1>5, <1>7 DEF AccountHolds
<1>11. ASSUME NEW p \in Objs, obj'[p].owner # None
       PROVE  obj'[p].length <= account'[obj'[p].owner].pages
  <2>1. CASE p = o
    BY <1>1, <1>4, <1>5, <2>1
  <2>2. CASE p # o
    <3>1. /\ obj'[p] = obj[p] /\ obj[p].owner \in Runtimes /\ obj[p].length \in Nat
          /\ obj[p].length <= account[obj[p].owner].pages
      BY <1>1, <1>11, <2>2 DEF AccountHolds, Types, ObjRec
    <3>2. CASE obj[p].owner = r
      <4>1. x.pages \in Nat
        BY <1>4 DEF AccountRec
      <4> QED BY <1>3, <1>4, <1>5, <3>1, <3>2, <4>1
    <3>3. CASE obj[p].owner # r
      BY <1>5, <3>1, <3>3
    <3> QED BY <3>2, <3>3
  <2> QED BY <2>1, <2>2
<1> QED BY <1>6, <1>9, <1>10, <1>11 DEF AccountHolds

(* removeSharedMemory() takes one object off, and the charge with the last. *)
LEMMA AccountRemoved ==
    ASSUME Types, AccountHolds, NEW r \in Runtimes, NEW o \in Objs, Finalize(r, o)
    PROVE  AccountHolds'
<1> DEFINE x == [count |-> account[r].count - 1,
                 pages |-> IF account[r].count = 1 THEN 0 ELSE account[r].pages]
<1>1. obj[o].owner = r /\ obj' = [obj EXCEPT ![o] = NoObj]
  BY DEF Finalize
<1>2. account' = [account EXCEPT ![r] = x]
  BY DEF Finalize
<1>3. /\ account \in [Runtimes -> AccountRec] /\ account[r] \in AccountRec
      /\ account[r].count \in Nat /\ account[r].pages \in Nat
      /\ account[r].count = Cardinality(Mine(r))
  BY DEF AccountHolds, AccountRec
<1>n. None \notin Runtimes
  BY SharedBufferAssumption
<1>4. NoObj.owner = None /\ obj'[o] = NoObj /\ \A p \in Objs \ {o} : obj'[p] = obj[p]
  BY <1>1 DEF NoObj, Types
<1>5. /\ o \in Mine(r) /\ Mine(r)' = Mine(r) \ {o}
      /\ \A q \in Runtimes \ {r} : Mine(q)' = Mine(q)
  BY <1>1, <1>4, <1>n DEF Mine
<1>6. IsFiniteSet(Mine(r)) /\ IsFiniteSet(Mine(r)')
  BY <1>5, SharedBufferAssumption, FS_Subset DEF Mine
<1>7. /\ Cardinality(Mine(r)') = Cardinality(Mine(r)) - 1
      /\ Cardinality(Mine(r)') \in Nat
  BY <1>5, <1>6, FS_RemoveElement, FS_CardinalityType
<1>8. Cardinality(Mine(r)') = 0 <=> Mine(r)' = {}
  BY <1>6, FS_EmptySet
<1>9. /\ x \in AccountRec /\ x.count = Cardinality(Mine(r)')
      /\ x.pages = IF Mine(r)' = {} THEN 0 ELSE account[r].pages
  BY <1>3, <1>7, <1>8 DEF AccountRec
<1> HIDE DEF x
<1>10. account'[r] = x /\ \A q \in Runtimes \ {r} : account'[q] = account[q]
  BY <1>2, <1>3
<1>11. account' \in [Runtimes -> AccountRec]
  BY <1>2, <1>3, <1>9
<1>12. /\ \A q \in Runtimes : account'[q].count = Cardinality(Mine(q)')
       /\ \A q \in Runtimes : Mine(q)' = {} => account'[q].pages = 0
  BY <1>5, <1>9, <1>10 DEF AccountHolds
<1>13. ASSUME NEW p \in Objs, obj'[p].owner # None
       PROVE  obj'[p].length <= account'[obj'[p].owner].pages
  <2>1. /\ p # o /\ obj'[p] = obj[p] /\ obj[p].owner \in Runtimes
        /\ obj[p].length <= account[obj[p].owner].pages
    BY <1>4, <1>13 DEF AccountHolds, Types, ObjRec
  <2>2. CASE obj[p].owner = r
    <3>1. p \in Mine(r)'
      BY <2>1, <2>2 DEF Mine
    <3> QED BY <1>9, <1>10, <2>1, <2>2, <3>1
  <2>3. CASE obj[p].owner # r
    BY <1>10, <2>1, <2>3
  <2> QED BY <2>2, <2>3
<1> QED BY <1>11, <1>12, <1>13 DEF AccountHolds

(* Every step keeps the charges of the zones right. *)
LEMMA AccountKept == SharedInv /\ LengthInv /\ [Next]_vars => AccountHolds'
<1> SUFFICES ASSUME SharedInv, LengthInv, [Next]_vars PROVE AccountHolds'
  OBVIOUS
<1> USE DEF growVars
<1>t. Types /\ Types' /\ Slots /\ Operations /\ GrowHolds /\ LengthsHold /\ AccountHolds
  BY TypesKept DEF SharedInv, Structure, LengthInv
<1>p. Pages \subseteq Nat \ {0} BY SharedBufferAssumption DEF Pages
<1>n. None \notin Runtimes /\ None \notin Objs BY SharedBufferAssumption
<1>1. ASSUME NEW r \in Runtimes, NEW o \in Objs, New(r, o) PROVE AccountHolds'
  <2>1. PICK n \in Pages, use \in {"plain", "wasm", "failed"} :
          AcceptRawBuffer(r, o, n, use # "failed")
    BY <1>1 DEF New
  <2> QED BY <1>t, <1>p, <2>1, AccountAdded
<1>2. ASSUME NEW r \in Runtimes, NEW o \in Objs, Finalize(r, o) PROVE AccountHolds'
  BY <1>t, <1>2, AccountRemoved
<1>3. ASSUME NEW r \in Runtimes, NEW o \in Objs, NEW c \in Clones,
             WriteSharedArrayBuffer(r, o, c)
      PROVE  AccountHolds'
  BY <1>t, <1>3, SameAccount DEF WriteSharedArrayBuffer
<1>4. ASSUME NEW r \in Runtimes, NEW c \in Clones,
             ReadSharedArrayBuffer(r, c)
      PROVE  AccountHolds'
  BY <1>t, <1>4, SameAccount DEF ReadSharedArrayBuffer
<1>5. ASSUME NEW r \in Runtimes, AddReferenceLoad(r) PROVE AccountHolds'
  <2>1. UNCHANGED <<account, obj>>
    BY <1>5 DEF AddReferenceLoad
  <2> QED BY <1>t, <2>1, SameAccount
<1>6. ASSUME NEW r \in Runtimes, AddReferenceExchange(r) PROVE AccountHolds'
  <2>1. /\ UNCHANGED account
        /\ obj' = obj \/ obj' = [obj EXCEPT ![op[r].obj].shown = TRUE]
    BY <1>6, ExchangeCases DEF AddReferenceExchange
  <2>2. \A p \in Objs : obj'[p].owner = obj[p].owner /\ obj'[p].length = obj[p].length
    BY <1>t, <2>1 DEF Types, ObjRec
  <2> QED BY <1>t, <2>1, <2>2, SameAccount
<1>7. ASSUME NEW r \in Runtimes, FinishWrite(r) PROVE AccountHolds'
  BY <1>t, <1>7, SameAccount DEF FinishWrite
<1>8. ASSUME NEW r \in Runtimes, FinishRead(r) PROVE AccountHolds'
  <2>1. op[r].clone \in Clones
    BY <1>t, <1>8 DEF FinishRead, Operations
  <2>2. clone[op[r].clone].length \in Nat
    BY <1>t, <2>1, Records DEF Types
  <2>3. CASE UNCHANGED <<account, obj>>
    BY <1>t, <2>3, SameAccount
  <2>4. ASSUME NEW o \in Objs, NEW b, AcceptRawBuffer(r, o, clone[op[r].clone].length, b)
        PROVE  AccountHolds'
    BY <1>t, <2>2, <2>4, AccountAdded
  <2> QED BY <1>8, <2>3, <2>4 DEF FinishRead
<1>9. ASSUME NEW r \in Runtimes, BufferGetter(r) PROVE AccountHolds'
  BY <1>t, <1>9, SameAccount DEF BufferGetter
<1>10. ASSUME NEW r \in Runtimes, GetterNew(r) PROVE AccountHolds'
  <2>1. op[r].len \in Nat
    BY <1>t, Records DEF Types
  <2>2. CASE UNCHANGED <<account, obj>>
    BY <1>t, <2>2, SameAccount
  <2>3. ASSUME NEW o \in Objs, AcceptRawBuffer(r, o, op[r].len, FALSE)
        PROVE  AccountHolds'
    BY <1>t, <2>1, <2>3, AccountAdded
  <2> QED BY <1>10, <2>2, <2>3 DEF GetterNew
<1>11. ASSUME NEW r \in Runtimes, GrowShared(r) PROVE AccountHolds'
  BY <1>t, <1>11, SameAccount DEF GrowShared
<1>12. ASSUME NEW r \in Runtimes, SetLength(r) PROVE AccountHolds'
  BY <1>t, <1>12, SameAccount DEF SetLength
<1>13. ASSUME NEW r \in Runtimes, DropMemory(r) PROVE AccountHolds'
  BY <1>t, <1>13, SameAccount DEF DropMemory
<1>14. ASSUME NEW c \in Clones, Clear(c) PROVE AccountHolds'
  BY <1>t, <1>14, SameAccount DEF Clear
<1>15. ASSUME UNCHANGED vars PROVE AccountHolds'
  BY <1>t, <1>15, SameAccount DEF vars
<1> QED BY <1>1, <1>2, <1>3, <1>4, <1>5, <1>6, <1>7, <1>8, <1>9, <1>10, <1>11, <1>12,
           <1>13, <1>14, <1>15 DEF Next, Step, Crash

(* Lengths and charges are right before the buffer is made. *)
LEMMA LengthInit == Init => LengthInv
<1> SUFFICES ASSUME Init PROVE LengthInv
  OBVIOUS
<1>n. None \notin Runtimes
  BY SharedBufferAssumption
<1>1. GrowHolds
  BY DEF Init, Idle, GrowHolds
<1>2. LengthsHold
  BY DEF Init, NoObj, NoClone, LengthsHold
<1>3. \A r \in Runtimes : Mine(r) = {}
  BY <1>n DEF Init, NoObj, Mine
<1>4. account \in [Runtimes -> AccountRec]
      /\ \A r \in Runtimes : account[r].count = 0 /\ account[r].pages = 0
  BY DEF Init, AccountRec
<1>5. \A o \in Objs : obj[o].owner = None
  BY DEF Init, NoObj
<1>6. AccountHolds
  BY <1>3, <1>4, <1>5, FS_EmptySet DEF AccountHolds
<1> QED BY <1>1, <1>2, <1>6 DEF LengthInv

(* However runtimes grow the memory, clone and collect: wasmGrowToSizeInPlace() *)
(* commits before it announces, no object, clone or memory has a length past    *)
(* what is committed, and every zone is charged for its objects, as             *)
(* addSharedMemory() and removeSharedMemory() count them, and for the longest.  *)
THEOREM LengthsCommittedAlways == Spec => []LengthsAreCommitted
<1>1. SharedInv /\ LengthInv /\ [Next]_vars => SharedInv' /\ LengthInv'
  BY TypesKept, SlotsKept, OperationsKept, CountedKept, GrowKept, LengthsKept, AccountKept
     DEF SharedInv, Structure, LengthInv
<1>2. SharedInv /\ LengthInv => LengthsAreCommitted
  <2> SUFFICES ASSUME SharedInv, LengthInv PROVE LengthsAreCommitted
    OBVIOUS
  <2>n. None \notin Runtimes
    BY SharedBufferAssumption
  <2>1. \A r \in Runtimes : {o \in Attached : obj[o].owner = r} = Mine(r)
    BY <2>n DEF Attached, Mine
  <2>2. \A r \in Runtimes : /\ account[r].count = Cardinality(Mine(r))
                            /\ Mine(r) = {} => account[r].pages = 0
    BY DEF LengthInv, AccountHolds
  <2>3. \A r \in Runtimes : \A o \in Mine(r) : obj[o].length <= account[r].pages
    BY <2>n DEF LengthInv, AccountHolds, Mine
  <2>4. \A o \in Attached : obj[o].length <= length
    BY DEF LengthInv, LengthsHold, Attached
  <2>5. length <= committed /\ \A c \in Holding : clone[c].length <= length
    BY DEF LengthInv, GrowHolds, LengthsHold, Holding
  <2> QED BY <2>1, <2>2, <2>3, <2>4, <2>5 DEF LengthsAreCommitted
<1> QED BY <1>1, <1>2, SharedInit, LengthInit, PTL DEF Spec

=============================================================================
