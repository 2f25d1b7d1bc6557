------------------------ MODULE IncrementalGC_proofs -------------------------
(***************************************************************************)
(* Proofs about IncrementalGC, for any set of zones.                       *)
(***************************************************************************)
EXTENDS IncrementalGC, ListTheorems, FiniteSetTheorems, TLAPS

-----------------------------------------------------------------------------
\* The inductive invariant.

\* The states a collection is in at each place of a slice, and what the main
\* thread knows outside of one.
Between  == main.at \in {"nursery", "transfer", "free"}
Starting == At("purge") \/ (Between /\ main.then = "purge")

PlaceHolds ==
    /\ main.at \in {"queue", "startSweep", "nextGroup"} => gc.state = "Sweep"
    /\ main.at \in {"join", "joined"} => Waits
    /\ At("decommit") => gc.state = "Compact"
    /\ Starting => gc.state = "NotActive"
    /\ Between => main.then \in {"out", "begin", "purge", "queue"}
    /\ Between /\ main.then = "queue" => At("free") /\ gc.state = "Sweep"
    /\ At("nursery") => main.then # "purge"
    /\ main.at \in {"out", "request", "finish"} => ~main.unlimited /\ ~main.reset
    /\ Between /\ main.then = "out" => ~main.unlimited /\ ~main.reset
    /\ main.reset => main.unlimited
    /\ At("end") /\ main.unlimited => ~InProgress

\* A zone is in a state of the collection only while the collection is in one
\* that gets it out again.
ZonesHold ==
    \A z \in Zones :
        /\ zone[z] = "Mark" => gc.state \in {"Mark", "Sweep"} \/ Starting
        /\ zone[z] = "MarkGray" =>
              /\ gc.state = "Sweep"
              /\ main.at \notin {"queue", "startSweep", "nextGroup"}
              /\ ~(Between /\ main.then = "queue")
        /\ zone[z] = "Sweep" => /\ gc.state = "Sweep"
                                /\ main.at \notin {"startSweep", "nextGroup"}
        /\ zone[z] = "Finished" =>
              gc.state \in {"Sweep", "Finalize", "Compact", "Decommit", "Finish"}

\* What there is to sweep is being swept on the main thread, queued, or with
\* the sweep task, and then the task is at work.
SweepHolds ==
    /\ \A z \in Zones : z \in toSweep <=> \/ zone[z] = "Sweep"
                                          \/ z \in ToSet(held)
                                          \/ z \in ToSet(backgroundSweepZones)
    /\ \A z \in ToSet(held) :
          zone[z] = "Finished" /\ z \notin ToSet(backgroundSweepZones)
    /\ \A z \in ToSet(backgroundSweepZones) : zone[z] = "Finished"
    /\ held # <<>> => task["sweep"] = "Working" /\ storing["sweep"] = "NO_REASON"
    /\ backgroundSweepZones # <<>> =>
          \/ WasStarted("sweep") /\ storing["sweep"] = "NO_REASON"
          \/ At("startSweep")
    /\ gc.state \notin {"Sweep", "Finalize"} =>
          held = <<>> /\ backgroundSweepZones = <<>>

\* A list has no zone twice, and the atoms zone only at its end.
ZoneList(s) ==
    /\ IsInjective(s)
    /\ \A i \in 1..Len(s) : s[i] = Atoms => i = Len(s)

\* The group of the atoms zone is the last one, and goes through together.
AtomsHold ==
    /\ zone[Atoms] = "MarkGray" \/ Atoms \in toSweep => \A z \in Zones : zone[z] # "Mark"
    /\ Atoms \in toSweep => \A z \in Zones : zone[z] # "MarkGray"
    /\ Atoms \in ToSet(held) \cup ToSet(backgroundSweepZones) =>
          \A z \in Zones : zone[z] # "Sweep"
    /\ Atoms \in ToSet(held) => backgroundSweepZones = <<>>
    /\ ZoneList(held) /\ ZoneList(backgroundSweepZones)

\* Whatever is queued for the free task, it is going to see.
FreeHolds ==
    /\ free.buffers => \/ WasStarted("free")
                       \/ main.at \in {"transfer", "free"} /\ main.then # "queue"
    /\ free.lifo => \/ WasStarted("free")
                    \/ At("free")
                    \/ gc.state = "Mark"
                    \/ /\ gc.state = "Sweep"
                       /\ main.at \notin {"queue", "startSweep", "nextGroup"}
    /\ storing["free"] = "NO_REASON"

\* The task that a state waits for.
TasksHold ==
    /\ gc.state # "Decommit" => task["decommit"] = "Idle"
    /\ storing["sweep"] # "NO_REASON" => task["sweep"] # "Idle"
    /\ storing["decommit"] # "NO_REASON" => task["decommit"] # "Idle"
    /\ At("joined") => task[TaskOf(gc.state)] = "Idle"

\* Outside its slices a waiting collection has the next one coming.
SliceHolds ==
    /\ requestSlice => /\ Waits
                       /\ WasStarted(TaskOf(gc.state))
                       /\ storing[TaskOf(gc.state)] = "NO_REASON"
    /\ Waits /\ main.at \notin {"slice", "join", "joined"} =>
          requestSlice \/ majorGCTriggerReason # "NO_REASON" \/ ~LockFree \/ dropped
    /\ At("request") => storing["main"] # "NO_REASON"

\* Only a compacting collection yields in Compact, and it leaves nothing.
CompactHolds ==
    /\ gc.startedCompacting \/ toCompact # {} =>
          gc.state = "Compact" /\ gc.isCompacting /\ ~At("decommit")
    /\ gc.state = "Compact" /\ main.at \notin {"slice", "decommit"} => gc.isCompacting
    /\ gc.abortSweep => gc.state = "Sweep" /\ main.unlimited

IndInv == /\ TypeOK /\ PlaceHolds /\ ZonesHold /\ SweepHolds /\ AtomsHold
          /\ FreeHolds /\ TasksHold /\ SliceHolds /\ CompactHolds

USE DEF At, Waits, TaskOf, WasStarted, InProgress, LockFree, Between, Starting,
        Tasks, heapVars, taskVars, askVars, rest

-----------------------------------------------------------------------------
\* What an update of a record leaves alone.

(* The free task takes what is queued. *)
LEMMA FreeTakes ==
    ASSUME free \in Frees
    PROVE  /\ [free EXCEPT !.lifo = FALSE, !.buffers = FALSE] \in Frees
           /\ ~[free EXCEPT !.lifo = FALSE, !.buffers = FALSE].lifo
           /\ ~[free EXCEPT !.lifo = FALSE, !.buffers = FALSE].buffers
BY DEF Frees

(* Some zones change their state. *)
LEMMA ZonesChange ==
    ASSUME TypeOK, NEW S \in SUBSET Zones, NEW s \in ZoneStates, SetZones(S, s)
    PROVE  /\ zone' \in [Zones -> ZoneStates]
           /\ \A z \in S : zone'[z] = s
           /\ \A z \in Zones \ S : zone'[z] = zone[z]
BY DEF TypeOK, SetZones, ZoneStates

(* The next sweep group: the group of the atoms zone is the last. *)
LEMMA GroupMarked ==
    ASSUME TypeOK, MarkGrayReferencesInCurrentGroup
    PROVE  /\ \E G \in SUBSET Zones :
                 /\ \A z \in G : zone[z] = "Mark" /\ zone'[z] = "MarkGray"
                 /\ \A z \in Zones \ G : zone'[z] = zone[z]
                 /\ Atoms \in G => \A z \in Zones : zone[z] = "Mark" => z \in G
           /\ zone' \in [Zones -> ZoneStates]
<1>1. PICK G \in SweepGroups : SetZones(G, "MarkGray")
  BY DEF MarkGrayReferencesInCurrentGroup
<1>2. /\ G \in SUBSET Zones /\ \A z \in G : zone[z] = "Mark"
      /\ Atoms \in G => \A z \in Zones : zone[z] = "Mark" => z \in G
  BY DEF SweepGroups, ZonesIn
<1>3. /\ zone' \in [Zones -> ZoneStates] /\ \A z \in G : zone'[z] = "MarkGray"
      /\ \A z \in Zones \ G : zone'[z] = zone[z]
  BY <1>1, <1>2, ZonesChange DEF ZoneStates
<1> QED BY <1>1, <1>2, <1>3

-----------------------------------------------------------------------------
\* The lists of zones.

(* An empty list. *)
LEMMA EmptyList == /\ ToSet(<<>>) = {} /\ ZoneList(<<>>) /\ <<>> \in Lists
                   /\ \A s \in Lists : ToSet(s) \subseteq Zones
BY DEF ToSet, ZoneList, IsInjective, Lists

(* The lists and the atoms zone have zones for their elements. *)
LEMMA ListBasics ==
    ASSUME TypeOK
    PROVE  /\ ToSet(<<>>) = {} /\ ZoneList(<<>>) /\ <<>> \in Lists /\ Atoms \in Zones
           /\ ToSet(held) \subseteq Zones /\ ToSet(backgroundSweepZones) \subseteq Zones
BY EmptyList, ZonesAssumption DEF TypeOK

(* A list without zones is empty. *)
LEMMA NoZones == ASSUME NEW s \in Lists, ToSet(s) = {} PROVE s = <<>>
<1>1. s \in Seq(Zones) /\ Len(s) \in Nat
  BY DEF Lists
<1>2. \A i \in 1..Len(s) : s[i] \in ToSet(s)
  BY <1>1 DEF ToSet
<1>3. Len(s) = 0
  BY <1>1, <1>2
<1> QED BY <1>1, <1>3, EmptySeq

(* removeFront(). *)
LEMMA FrontRemoved ==
    ASSUME NEW s \in Lists, ZoneList(s), s # <<>>
    PROVE  /\ Head(s) \in Zones /\ Tail(s) \in Lists /\ ZoneList(Tail(s))
           /\ Head(s) \in ToSet(s) /\ ToSet(Tail(s)) = ToSet(s) \ {Head(s)}
           /\ Head(s) = Atoms => Tail(s) = <<>>
<1>0. s \in Seq(Zones)
  BY DEF Lists
<1> DEFINE l == Tail(s)
           x == Head(s)
<1>1. /\ x \in Zones /\ l \in Seq(Zones) /\ IsInjective(l) /\ Contains(s, x)
      /\ \A y \in Zones : Contains(l, y) <=> Contains(s, y) /\ y # x
  BY <1>0, ListTail DEF ZoneList
<1>2. x = s[1] /\ Len(s) \in Nat /\ Len(s) # 0 /\ Len(l) = Len(s) - 1
  BY <1>0
<1>3. \A i \in 1..Len(l) : l[i] = s[i + 1]
  BY <1>0
<1> HIDE DEF l, x
<1>4. \A y \in Zones : y \in ToSet(s) <=> Contains(s, y)
  BY <1>0 DEF ToSet, Contains
<1>5. \A y \in Zones : y \in ToSet(l) <=> Contains(l, y)
  BY <1>1 DEF ToSet, Contains
<1>6. ToSet(s) \subseteq Zones /\ ToSet(l) \subseteq Zones
  BY <1>1, EmptyList DEF Lists
<1>7. \A i \in 1..Len(s) : s[i] = Atoms => i = Len(s)
  BY DEF ZoneList
<1>8. ASSUME NEW i \in 1..Len(l), l[i] = Atoms PROVE i = Len(l)
  <2>1. i + 1 \in 1..Len(s) /\ s[i + 1] = Atoms
    BY <1>2, <1>3, <1>8
  <2>2. i + 1 = Len(s)
    BY <1>7, <2>1
  <2> QED BY <1>2, <2>2
<1>9. ASSUME x = Atoms PROVE l = <<>>
  <2>1. 1 \in 1..Len(s)
    BY <1>2
  <2>2. Len(s) = 1
    BY <1>2, <1>7, <1>9, <2>1
  <2>3. Len(l) = 0
    BY <1>2, <2>2
  <2> QED BY <1>1, <2>3, EmptySeq
<1>10. ZoneList(l)
  BY <1>1, <1>8 DEF ZoneList
<1>11. ToSet(l) = ToSet(s) \ {x} /\ x \in ToSet(s)
  BY <1>1, <1>4, <1>5, <1>6
<1> QED BY <1>1, <1>9, <1>10, <1>11 DEF l, x, Lists

(* What is in two lists one after the other. *)
LEMMA BothLists ==
    ASSUME NEW s \in Lists, NEW l \in Lists
    PROVE  /\ s \o l \in Lists /\ ToSet(s \o l) = ToSet(s) \cup ToSet(l)
           /\ Len(s \o l) = Len(s) + Len(l) /\ Len(s) \in Nat /\ Len(l) \in Nat
           /\ \A i \in 1..Len(s \o l) :
                 \/ i \in 1..Len(s) /\ (s \o l)[i] = s[i]
                 \/ /\ i - Len(s) \in 1..Len(l) /\ i > Len(s)
                    /\ (s \o l)[i] = l[i - Len(s)]
<1> DEFINE c == s \o l
<1>0. s \in Seq(Zones) /\ l \in Seq(Zones)
  BY DEF Lists
<1>1. /\ c \in Seq(Zones) /\ Len(c) = Len(s) + Len(l)
      /\ \A i \in 1..(Len(s) + Len(l)) :
            c[i] = IF i <= Len(s) THEN s[i] ELSE l[i - Len(s)]
  BY <1>0, ConcatProperties, ZenonT(40)
<1>2. Len(s) \in Nat /\ Len(l) \in Nat
  BY <1>0
<1> HIDE DEF c
<1>3. ASSUME NEW q \in Seq(Zones), NEW y
      PROVE  y \in ToSet(q) <=> \E i \in 1..Len(q) : q[i] = y
  BY <1>3 DEF ToSet
<1>4. ASSUME NEW i \in 1..Len(c)
      PROVE  \/ i \in 1..Len(s) /\ c[i] = s[i]
             \/ i - Len(s) \in 1..Len(l) /\ i > Len(s) /\ c[i] = l[i - Len(s)]
  BY <1>1, <1>2
<1>5. ASSUME NEW y, y \in ToSet(c) PROVE y \in ToSet(s) \cup ToSet(l)
  <2>1. PICK i \in 1..Len(c) : c[i] = y
    BY <1>1, <1>3, <1>5
  <2>2. CASE i \in 1..Len(s) /\ c[i] = s[i]
    BY <1>0, <1>3, <2>1, <2>2
  <2>3. CASE i - Len(s) \in 1..Len(l) /\ c[i] = l[i - Len(s)]
    BY <1>0, <1>3, <2>1, <2>3
  <2> QED BY <1>4, <2>2, <2>3
<1>6. ASSUME NEW i \in 1..Len(s) PROVE s[i] \in ToSet(c)
  <2>1. i \in 1..Len(c) /\ c[i] = s[i]
    BY <1>1, <1>2
  <2> QED BY <1>1, <1>3, <2>1
<1>7. ASSUME NEW i \in 1..Len(l) PROVE l[i] \in ToSet(c)
  <2>1. /\ i + Len(s) \in 1..(Len(s) + Len(l)) /\ ~(i + Len(s) <= Len(s))
        /\ (i + Len(s)) - Len(s) = i
    BY <1>2
  <2>2. i + Len(s) \in 1..Len(c) /\ c[i + Len(s)] = l[i]
    BY <1>1, <2>1
  <2> QED BY <1>1, <1>3, <2>2
<1>8. ASSUME NEW y, y \in ToSet(s) \/ y \in ToSet(l) PROVE y \in ToSet(c)
  BY <1>0, <1>3, <1>6, <1>7, <1>8
<1>9. ToSet(c) = ToSet(s) \cup ToSet(l)
  BY <1>5, <1>8
<1> QED BY <1>1, <1>2, <1>4, <1>9 DEF c, Lists

(* transferFrom(): another list follows, the atoms zone not being in the first one. *)
LEMMA ListsJoined ==
    ASSUME NEW s \in Lists, NEW l \in Lists, ZoneList(s), ZoneList(l),
           ToSet(s) \cap ToSet(l) = {}, Atoms \notin ToSet(s) \/ l = <<>>
    PROVE  /\ s \o l \in Lists /\ ZoneList(s \o l)
           /\ ToSet(s \o l) = ToSet(s) \cup ToSet(l)
<1> DEFINE c == s \o l
<1>1. /\ c \in Lists /\ ToSet(c) = ToSet(s) \cup ToSet(l)
      /\ Len(c) = Len(s) + Len(l) /\ Len(s) \in Nat /\ Len(l) \in Nat
      /\ \A i \in 1..Len(c) :
            \/ i \in 1..Len(s) /\ c[i] = s[i]
            \/ i - Len(s) \in 1..Len(l) /\ i > Len(s) /\ c[i] = l[i - Len(s)]
  BY BothLists, Zenon
<1> HIDE DEF c
<1>2. /\ \A a \in 1..Len(s) : s[a] \in ToSet(s)
      /\ \A a \in 1..Len(l) : l[a] \in ToSet(l)
  BY DEF ToSet, Lists
<1>3. DOMAIN s = 1..Len(s) /\ DOMAIN l = 1..Len(l) /\ DOMAIN c = 1..Len(c)
  BY <1>1 DEF Lists
<1>4. /\ \A a, b \in 1..Len(s) : s[a] = s[b] => a = b
      /\ \A a, b \in 1..Len(l) : l[a] = l[b] => a = b
  BY <1>3, Zenon DEF ZoneList, IsInjective
<1>0. /\ \A a \in 1..Len(s) : s[a] = Atoms => a = Len(s)
      /\ \A a \in 1..Len(l) : l[a] = Atoms => a = Len(l)
  BY Zenon DEF ZoneList
<1>5. ASSUME NEW i \in 1..Len(c), NEW j \in 1..Len(c), c[i] = c[j] PROVE i = j
  <2>1. CASE i \in 1..Len(s) /\ c[i] = s[i] /\ j \in 1..Len(s) /\ c[j] = s[j]
    BY <1>4, <1>5, <2>1
  <2>2. CASE /\ i - Len(s) \in 1..Len(l) /\ c[i] = l[i - Len(s)]
             /\ j - Len(s) \in 1..Len(l) /\ c[j] = l[j - Len(s)]
    <3>1. i - Len(s) = j - Len(s)
      BY <1>4, <1>5, <2>2
    <3> QED BY <1>1, <3>1
  <2>3. CASE c[i] \in ToSet(s) /\ c[j] \in ToSet(l)
    BY <1>5, <2>3
  <2>4. CASE c[i] \in ToSet(l) /\ c[j] \in ToSet(s)
    BY <1>5, <2>4
  <2> QED BY <1>1, <1>2, <2>1, <2>2, <2>3, <2>4
<1>6. ASSUME NEW i \in 1..Len(c), c[i] = Atoms PROVE i = Len(c)
  <2>1. CASE l = <<>>
    <3>1. Len(l) = 0
      BY <2>1
    <3>2. i \in 1..Len(s) /\ s[i] = Atoms
      BY <1>1, <1>6, <3>1
    <3> QED BY <1>0, <1>1, <3>1, <3>2
  <2>2. CASE Atoms \notin ToSet(s)
    <3>1. i - Len(s) \in 1..Len(l) /\ l[i - Len(s)] = Atoms
      BY <1>1, <1>2, <1>6, <2>2
    <3>2. i - Len(s) = Len(l)
      BY <1>0, <3>1
    <3> QED BY <1>1, <3>2
  <2> QED BY <2>1, <2>2
<1>7. ZoneList(c)
  BY <1>3, <1>5, <1>6, Zenon DEF ZoneList, IsInjective
<1> QED BY <1>1, <1>7 DEF c

(* The zones of a set one after the other. *)
LEMMA ListOfSet ==
    ASSUME NEW G \in SUBSET Zones, NEW s \in SetToSeqs(G)
    PROVE  s \in Seq(Zones) /\ IsInjective(s) /\ ToSet(s) = G
<1>1. IsFiniteSet(G)
  BY ZonesAssumption, FS_Subset
<1> DEFINE n == Cardinality(G)
<1>2. n \in Nat
  BY <1>1, FS_CardinalityType
<1>3. s \in [1..n -> G] /\ \A i, j \in 1..n : i # j => s[i] # s[j]
  BY DEF SetToSeqs
<1> HIDE DEF n
<1>4. s \in Seq(Zones) /\ DOMAIN s = 1..n
  BY <1>2, <1>3
<1>5. IsInjective(s)
  BY <1>3, <1>4 DEF IsInjective
<1>6. s \in Injection(1..n, G)
  BY <1>3, <1>5 DEF Injection
<1>7. Cardinality(1..n) = n
  BY <1>2, FS_Interval
<1>8. s \in Surjection(1..n, G)
  BY <1>1, <1>6, <1>7, FS_Injection, Zenon DEF n
<1>9. ToSet(s) = G
  BY <1>3, <1>4, <1>8 DEF ToSet, Surjection
<1> QED BY <1>4, <1>5, <1>9

(* endSweepingSweepGroup() makes a list of its group with the atoms zone at the end. *)
LEMMA ListOfGroup ==
    ASSUME NEW G \in SUBSET Zones, NEW s \in ZoneLists(G)
    PROVE  s \in Lists /\ ZoneList(s) /\ ToSet(s) = G
<1>1. CASE Atoms \notin G
  <2>1. s \in Seq(Zones) /\ IsInjective(s) /\ ToSet(s) = G
    BY <1>1, ListOfSet DEF ZoneLists
  <2>2. \A i \in 1..Len(s) : s[i] # Atoms
    BY <1>1, <2>1 DEF ToSet
  <2> QED BY <2>1, <2>2 DEF ZoneList, Lists
<1>2. CASE Atoms \in G
  <2>1. PICK q \in SetToSeqs(G \ {Atoms}) : s = Append(q, Atoms)
    BY <1>2 DEF ZoneLists
  <2>2. q \in Seq(Zones) /\ IsInjective(q) /\ ToSet(q) = G \ {Atoms}
    BY ListOfSet
  <2>3. /\ s \in Seq(Zones) /\ Len(s) = Len(q) + 1 /\ s[Len(q) + 1] = Atoms
        /\ \A i \in 1..Len(q) : s[i] = q[i]
    BY <2>1, <2>2, ZonesAssumption
  <2>4. /\ DOMAIN q = 1..Len(q) /\ DOMAIN s = 1..Len(s) /\ Len(q) \in Nat
    BY <2>2, <2>3
  <2>5. \A y : y \in ToSet(q) <=> \E i \in 1..Len(q) : q[i] = y
    BY <2>4 DEF ToSet
  <2>6. \A y : y \in ToSet(s) <=> \E i \in 1..Len(s) : s[i] = y
    BY <2>4 DEF ToSet
  <2>7. \A i \in 1..Len(q) : q[i] # Atoms
    BY <2>2, <2>5
  <2>8. \A i \in 1..Len(s) : i \in 1..Len(q) \/ i = Len(s)
    BY <2>3, <2>4
  <2>9. \A i, j \in 1..Len(s) : s[i] = s[j] => i = j
    BY <2>2, <2>3, <2>4, <2>7, <2>8 DEF IsInjective
  <2>10. /\ \A i \in 1..Len(q) : i \in 1..Len(s)
         /\ Len(s) \in 1..Len(s)
    BY <2>3, <2>4
  <2>11. \A y : y \in ToSet(s) <=> y \in ToSet(q) \/ y = Atoms
    BY <2>3, <2>5, <2>6, <2>8, <2>10
  <2>12. ToSet(s) = G
    BY <1>2, <2>2, <2>11
  <2> QED BY <2>3, <2>4, <2>7, <2>8, <2>9, <2>12 DEF ZoneList, IsInjective, Lists
<1> QED BY <1>1, <1>2

\* What resetIncrementalGC() drops of a collection.
Dropped(reset) ==
    /\ reset
    /\ \/ /\ gc.state = "Mark" /\ gc'.state = "Finish" /\ ~free'.lifo
          /\ gc'.abortSweep = gc.abortSweep /\ toCompact' = toCompact
          /\ gc'.startedCompacting = gc.startedCompacting
          /\ zone' \in [Zones -> ZoneStates]
          /\ \A z \in Zones : zone[z] = "Mark" => zone'[z] = "NoGC"
          /\ \A z \in Zones : zone[z] # "Mark" => zone'[z] = zone[z]
       \/ /\ gc.state \in {"Sweep", "Finalize"} /\ gc'.state = gc.state
          /\ gc'.startedCompacting = gc.startedCompacting
          /\ gc'.abortSweep => gc.abortSweep \/ gc.state = "Sweep"
          /\ UNCHANGED <<zone, free, toCompact>>
       \/ /\ gc.state = "Compact" /\ gc'.state = "Compact" /\ toCompact' = {}
          /\ gc'.isCompacting = gc.isCompacting /\ gc'.abortSweep = gc.abortSweep
          /\ UNCHANGED <<zone, free>>
       \/ UNCHANGED <<zone, toCompact, gc, free>>

(* A reset in each state of a collection. *)
LEMMA ResetDrops ==
    ASSUME TypeOK, ResetIncrementalGC
    PROVE  /\ gc' \in GCs /\ free' \in Frees /\ free'.buffers = free.buffers
           /\ UNCHANGED toSweep
           /\ Dropped(TRUE)
<1>1. gc \in GCs /\ free \in Frees /\ "Finish" \in States
  BY DEF TypeOK, States
<1>2. CASE /\ gc.state = "Mark" /\ SetZones(ZonesIn("Mark"), "NoGC")
           /\ free' = [free EXCEPT !.lifo = FALSE]
           /\ gc' = [gc EXCEPT !.state = "Finish", !.lastMarkSlice = FALSE]
           /\ UNCHANGED toCompact
  <2>1. /\ gc' \in GCs /\ gc'.state = "Finish" /\ gc'.abortSweep = gc.abortSweep
        /\ gc'.startedCompacting = gc.startedCompacting
    BY <1>1, <1>2 DEF GCs
  <2>2. free' \in Frees /\ free'.buffers = free.buffers /\ ~free'.lifo
    BY <1>1, <1>2 DEF Frees
  <2>3. /\ zone' \in [Zones -> ZoneStates]
        /\ \A z \in Zones : zone[z] = "Mark" => zone'[z] = "NoGC"
        /\ \A z \in Zones : zone[z] # "Mark" => zone'[z] = zone[z]
    BY <1>2, ZonesChange DEF ZonesIn, ZoneStates
  <2> QED BY <1>2, <2>1, <2>2, <2>3 DEF ResetIncrementalGC, Dropped
<1>3. CASE /\ gc.state \in {"Sweep", "Finalize"}
           /\ gc' = [gc EXCEPT !.isCompacting = FALSE,
                               !.abortSweep = gc.abortSweep \/ gc.state = "Sweep"]
           /\ UNCHANGED <<zone, free, toCompact>>
  <2>1. /\ gc' \in GCs /\ gc'.state = gc.state
        /\ gc'.startedCompacting = gc.startedCompacting
        /\ gc'.abortSweep => gc.abortSweep \/ gc.state = "Sweep"
    BY <1>1, <1>3 DEF GCs
  <2> QED BY <1>1, <1>3, <2>1 DEF ResetIncrementalGC, Dropped
<1>4. CASE /\ gc.state = "Compact" /\ gc' = [gc EXCEPT !.startedCompacting = TRUE]
           /\ toCompact' = {} /\ UNCHANGED <<zone, free>>
  <2>1. /\ gc' \in GCs /\ gc'.state = "Compact"
        /\ gc'.isCompacting = gc.isCompacting /\ gc'.abortSweep = gc.abortSweep
    BY <1>1, <1>4 DEF GCs
  <2> QED BY <1>1, <1>4, <2>1 DEF ResetIncrementalGC, Dropped
<1>5. CASE UNCHANGED <<gc, zone, free, toCompact>>
  BY <1>1, <1>5 DEF ResetIncrementalGC, Dropped
<1> QED BY <1>2, <1>3, <1>4, <1>5 DEF ResetIncrementalGC

\* collect() returns.
ReturnToScript ==
    /\ At("end") /\ main' = Out
    /\ UNCHANGED <<heapVars, taskVars, askVars, rest, gc, free>>

-----------------------------------------------------------------------------
\* One lemma for each step.

(* A helper thread takes a dispatched task. *)
LEMMA TaskBeginKeeps == ASSUME IndInv, NEW t \in Tasks, TaskBegin(t) PROVE IndInv'
<1> USE DEF IndInv, TypeOK, GCs, Mains, Frees, Places, Reasons, States, TaskStates,
            ZoneStates
<1>1. TypeOK'
  BY DEF TaskBegin, SetTask
<1>2. PlaceHolds' /\ ZonesHold' /\ AtomsHold' /\ CompactHolds'
  BY DEF TaskBegin, PlaceHolds, ZonesHold, AtomsHold, CompactHolds
<1>3. SweepHolds'
  BY DEF TaskBegin, SetTask, SweepHolds
<1>4. FreeHolds'
  BY DEF TaskBegin, SetTask, FreeHolds
<1>5. TasksHold'
  BY DEF TaskBegin, SetTask, TasksHold
<1>6. SliceHolds'
  BY DEF TaskBegin, SetTask, SliceHolds
<1> QED BY <1>1, <1>2, <1>3, <1>4, <1>5, <1>6

(* A task stores its request for a slice and is finishing. *)
LEMMA StoreRequestKeeps == ASSUME IndInv, NEW t \in Tasks, StoreRequest(t) PROVE IndInv'
<1> USE DEF IndInv, TypeOK, GCs, Mains, Frees, Places, Reasons, States, TaskStates,
            ZoneStates
<1>1. TypeOK'
  BY DEF StoreRequest, SetTask
<1>2. PlaceHolds' /\ ZonesHold' /\ AtomsHold' /\ CompactHolds'
  BY DEF StoreRequest, PlaceHolds, ZonesHold, AtomsHold, CompactHolds
<1>3. SweepHolds'
  BY DEF StoreRequest, SetTask, SweepHolds
<1>4. FreeHolds'
  BY DEF StoreRequest, SetTask, FreeHolds
<1>5. TasksHold'
  BY DEF StoreRequest, SetTask, TasksHold
<1>6. SliceHolds'
  BY DEF StoreRequest, SetTask, SliceHolds
<1> QED BY <1>1, <1>2, <1>3, <1>4, <1>5, <1>6

(* A task is finished. *)
LEMMA TaskEndKeeps == ASSUME IndInv, NEW t \in Tasks, TaskEnd(t) PROVE IndInv'
<1> USE DEF IndInv, TypeOK, GCs, Mains, Frees, Places, Reasons, States, TaskStates,
            ZoneStates
<1>1. TypeOK'
  BY DEF TaskEnd, SetTask
<1>2. PlaceHolds' /\ ZonesHold' /\ AtomsHold' /\ CompactHolds'
  BY DEF TaskEnd, PlaceHolds, ZonesHold, AtomsHold, CompactHolds
<1>3. SweepHolds'
  BY DEF TaskEnd, SetTask, SweepHolds
<1>4. FreeHolds'
  BY DEF TaskEnd, SetTask, FreeHolds
<1>5. TasksHold'
  BY DEF TaskEnd, SetTask, TasksHold
<1>6. SliceHolds'
  BY DEF TaskEnd, SetTask, SliceHolds
<1> QED BY <1>1, <1>2, <1>3, <1>4, <1>5, <1>6

(* The sweep task takes the zones queued so far. *)
LEMMA SweepTaskRoundKeeps == ASSUME IndInv, SweepTaskRound PROVE IndInv'
<1> USE DEF IndInv, TypeOK, GCs, Mains, Frees, Places, Reasons, States, TaskStates,
            ZoneStates
<1>0. ToSet(<<>>) = {} /\ ZoneList(<<>>) /\ <<>> \in Lists
  BY EmptyList
<1>1. TypeOK'
  BY <1>0 DEF SweepTaskRound, SetTask
<1>2. PlaceHolds' /\ ZonesHold' /\ CompactHolds'
  BY DEF SweepTaskRound, PlaceHolds, ZonesHold, CompactHolds
<1>3. SweepHolds'
  BY <1>0 DEF SweepTaskRound, SetTask, SweepHolds
<1>4. AtomsHold'
  BY <1>0 DEF SweepTaskRound, SetTask, AtomsHold
<1>5. FreeHolds'
  BY DEF SweepTaskRound, SetTask, FreeHolds
<1>6. TasksHold'
  BY DEF SweepTaskRound, SetTask, TasksHold
<1>7. SliceHolds'
  BY DEF SweepTaskRound, SetTask, SliceHolds
<1> QED BY <1>1, <1>2, <1>3, <1>4, <1>5, <1>6, <1>7

(* The sweep task finds no more zones. *)
LEMMA SweepTaskLastRoundKeeps == ASSUME IndInv, SweepTaskLastRound PROVE IndInv'
<1> USE DEF IndInv, TypeOK, GCs, Mains, Frees, Places, Reasons, States, TaskStates,
            ZoneStates
<1>1. TypeOK'
  <2>1. task' \in [Tasks -> TaskStates]
    BY DEF SweepTaskLastRound, FinishAndMaybeRequest, SetTask
  <2> HIDE DEF GCs, Mains, Frees
  <2> QED BY <2>1 DEF SweepTaskLastRound, FinishAndMaybeRequest, SetTask
<1>2. PlaceHolds' /\ ZonesHold' /\ AtomsHold' /\ CompactHolds'
  BY DEF SweepTaskLastRound, PlaceHolds, ZonesHold, AtomsHold, CompactHolds
<1>3. SweepHolds'
  BY DEF SweepTaskLastRound, FinishAndMaybeRequest, SetTask, SweepHolds
<1>4. FreeHolds'
  BY DEF SweepTaskLastRound, FinishAndMaybeRequest, SetTask, FreeHolds
<1>5. TasksHold'
  BY DEF SweepTaskLastRound, FinishAndMaybeRequest, SetTask, TasksHold
<1>6. SliceHolds'
  BY DEF SweepTaskLastRound, FinishAndMaybeRequest, SetTask, SliceHolds
<1> QED BY <1>1, <1>2, <1>3, <1>4, <1>5, <1>6

(* The sweep task finalizes a zone. *)
LEMMA SweepZoneKeeps == ASSUME IndInv, SweepZone PROVE IndInv'
<1> USE DEF IndInv, TypeOK, GCs, Mains, Frees, Places, Reasons, States, TaskStates,
            ZoneStates
<1> DEFINE z == Head(held)
<1>0. /\ z \in Zones /\ held' \in Lists /\ ZoneList(held') /\ held # <<>>
      /\ z \in ToSet(held) /\ ToSet(held') = ToSet(held) \ {z}
      /\ toSweep' = toSweep \ {z}
      /\ UNCHANGED <<zone, toCompact, task, backgroundSweepZones, askVars, rest, gc,
                     main, free>>
  <2>1. held \in Lists /\ ZoneList(held)
    BY DEF AtomsHold
  <2> HIDE DEF IndInv, TypeOK
  <2> QED BY <2>1, FrontRemoved DEF SweepZone
<1> HIDE DEF z
<1>1. TypeOK'
  BY <1>0
<1>2. PlaceHolds' /\ ZonesHold' /\ CompactHolds'
  BY <1>0 DEF PlaceHolds, ZonesHold, CompactHolds
<1>3. FreeHolds' /\ TasksHold' /\ SliceHolds'
  BY <1>0 DEF FreeHolds, TasksHold, SliceHolds
<1>4. SweepHolds'
  BY <1>0 DEF SweepHolds
<1>5. AtomsHold'
  BY <1>0 DEF AtomsHold
<1> QED BY <1>1, <1>2, <1>3, <1>4, <1>5

(* The free task takes what is queued, or finds nothing more. *)
LEMMA FreeTaskRunKeeps == ASSUME IndInv, FreeTaskRun PROVE IndInv'
<1> USE DEF IndInv, TypeOK, GCs, Mains, Frees, Places, Reasons, States, TaskStates,
            ZoneStates
<1>1. TypeOK'
  <2>1. free' \in Frees
    BY FreeTakes DEF FreeTaskRun
  <2>2. task' \in [Tasks -> TaskStates]
    BY DEF FreeTaskRun, SetTask
  <2> HIDE DEF GCs, Mains, Frees
  <2> QED BY <2>1, <2>2 DEF FreeTaskRun, SetTask
<1>2. PlaceHolds' /\ ZonesHold' /\ AtomsHold' /\ CompactHolds'
  BY DEF FreeTaskRun, PlaceHolds, ZonesHold, AtomsHold, CompactHolds
<1>3. SweepHolds'
  BY DEF FreeTaskRun, SetTask, SweepHolds
<1>4. FreeHolds'
  BY DEF FreeTaskRun, SetTask, FreeHolds
<1>5. TasksHold'
  BY DEF FreeTaskRun, SetTask, TasksHold
<1>6. SliceHolds'
  BY DEF FreeTaskRun, SetTask, SliceHolds
<1> QED BY <1>1, <1>2, <1>3, <1>4, <1>5, <1>6

(* The decommit task is done. *)
LEMMA DecommitTaskRunKeeps == ASSUME IndInv, DecommitTaskRun PROVE IndInv'
<1> USE DEF IndInv, TypeOK, GCs, Mains, Frees, Places, Reasons, States, TaskStates,
            ZoneStates
<1>1. TypeOK'
  <2>1. task' \in [Tasks -> TaskStates]
    BY DEF DecommitTaskRun, FinishAndMaybeRequest, SetTask
  <2> HIDE DEF GCs, Mains, Frees
  <2> QED BY <2>1 DEF DecommitTaskRun, FinishAndMaybeRequest, SetTask
<1>2. PlaceHolds' /\ ZonesHold' /\ AtomsHold' /\ CompactHolds'
  BY DEF DecommitTaskRun, PlaceHolds, ZonesHold, AtomsHold, CompactHolds
<1>3. SweepHolds'
  BY DEF DecommitTaskRun, FinishAndMaybeRequest, SetTask, SweepHolds
<1>4. FreeHolds'
  BY DEF DecommitTaskRun, FinishAndMaybeRequest, SetTask, FreeHolds
<1>5. TasksHold'
  BY DEF DecommitTaskRun, FinishAndMaybeRequest, SetTask, TasksHold
<1>6. SliceHolds'
  BY DEF DecommitTaskRun, FinishAndMaybeRequest, SetTask, SliceHolds
<1> QED BY <1>1, <1>2, <1>3, <1>4, <1>5, <1>6

(* A minor collection queues its buffers, when those of the last one are gone. *)
LEMMA QueueBuffersForFreeAfterMinorGCKeeps ==
    ASSUME IndInv, QueueBuffersForFreeAfterMinorGC
    PROVE  IndInv'
<1> USE DEF IndInv, TypeOK, GCs, Mains, Frees, Places, Reasons, States, TaskStates,
            ZoneStates
<1>0. /\ main' \in Mains /\ main'.unlimited = main.unlimited /\ main'.reset = main.reset
      /\ main'.then = main.then /\ At("nursery")
      /\ task' \in [Tasks -> TaskStates]
      /\ task'["sweep"] = task["sweep"] /\ task'["decommit"] = task["decommit"]
      /\ \/ /\ main'.at = "nursery" /\ task'["free"] = "Idle"
            /\ free' = free \/ (~free'.lifo /\ ~free'.buffers)
            /\ (free' = free => ~WasStarted("free"))
         \/ main'.at = "transfer" /\ task' = task /\ (free'.lifo <=> free.lifo)
      /\ free' \in Frees
      /\ UNCHANGED <<heapVars, held, backgroundSweepZones, askVars, rest, gc>>
  <2>1. CASE free.buffers /\ Join("free") /\ UNCHANGED main
    <3>1. /\ main' = main /\ Join("free")
          /\ UNCHANGED <<zone, toCompact, held, storing, rest, gc>>
          /\ At("nursery")
      BY <2>1 DEF QueueBuffersForFreeAfterMinorGC
    <3>2. /\ task' \in [Tasks -> TaskStates]
          /\ task'["sweep"] = task["sweep"] /\ task'["decommit"] = task["decommit"]
          /\ task'["free"] = "Idle"
          /\ UNCHANGED <<toSweep, backgroundSweepZones, askVars>>
      BY <3>1 DEF Join, SetTask, RunFromMainThread, bodyVars
    <3>3. task["free"] = "Dispatched" => free' \in Frees /\ ~free'.lifo /\ ~free'.buffers
      <4>1. free \in Frees
        OBVIOUS
      <4> HIDE DEF Frees
      <4> QED BY <3>1, <4>1, FreeTakes DEF Join, RunFromMainThread
    <3>4. task["free"] # "Dispatched" => free' = free /\ ~WasStarted("free")
      BY <3>1 DEF Join, bodyVars
    <3> HIDE DEF Frees, Mains
    <3> QED BY <2>1, <3>1, <3>2, <3>3, <3>4
  <2>2. CASE /\ ~free.buffers /\ free' = [free EXCEPT !.buffers = TRUE] /\ Goto("transfer")
             /\ UNCHANGED <<task, toSweep, backgroundSweepZones, requestSlice,
                            majorGCTriggerReason>>
    <3>1. /\ free' \in Frees /\ (free'.lifo <=> free.lifo)
      BY <2>2
    <3>2. /\ main' \in Mains /\ main'.unlimited = main.unlimited /\ main'.reset = main.reset
          /\ main'.then = main.then /\ main'.at = "transfer" /\ At("nursery")
      BY <2>2 DEF QueueBuffersForFreeAfterMinorGC, Goto
    <3> QED BY <2>2, <3>1, <3>2 DEF QueueBuffersForFreeAfterMinorGC
  <2>3. CASE Goto("transfer") /\ UNCHANGED <<task, bodyVars>>
    <3>1. /\ main' \in Mains /\ main'.unlimited = main.unlimited /\ main'.reset = main.reset
          /\ main'.then = main.then /\ main'.at = "transfer" /\ At("nursery")
      BY <2>3 DEF QueueBuffersForFreeAfterMinorGC, Goto
    <3> QED BY <2>3, <3>1 DEF QueueBuffersForFreeAfterMinorGC, bodyVars
  <2> QED BY <2>1, <2>2, <2>3 DEF QueueBuffersForFreeAfterMinorGC
<1>1. TypeOK'
  BY <1>0
<1>2. PlaceHolds'
  BY <1>0 DEF PlaceHolds
<1>3. ZonesHold'
  BY <1>0 DEF ZonesHold
<1>4. SweepHolds'
  BY <1>0 DEF SweepHolds
<1>5. AtomsHold'
  BY <1>0 DEF AtomsHold
<1>6. FreeHolds'
  BY <1>0 DEF FreeHolds, PlaceHolds
<1>7. TasksHold'
  BY <1>0 DEF TasksHold
<1>8. SliceHolds'
  BY <1>0 DEF SliceHolds
<1>9. CompactHolds'
  BY <1>0 DEF CompactHolds
<1> QED BY <1>1, <1>2, <1>3, <1>4, <1>5, <1>6, <1>7, <1>8, <1>9

(* The blocks that waited for the minor collection are queued. *)
LEMMA TransferLifoBlocksKeeps == ASSUME IndInv, TransferLifoBlocks PROVE IndInv'
<1> USE DEF IndInv, TypeOK, GCs, Mains, Frees, Places, Reasons, States, TaskStates,
            ZoneStates
<1>0. /\ main' \in Mains /\ main'.unlimited = main.unlimited /\ main'.reset = main.reset
      /\ free' \in Frees /\ (free'.buffers <=> free.buffers)
      /\ \/ main'.at = "free" /\ main'.then = main.then
         \/ main'.at = main.then /\ main'.then = "out" /\ ~free'.lifo /\ ~free.buffers
      /\ UNCHANGED <<heapVars, taskVars, askVars, rest, gc>> /\ At("transfer")
  <2>1. /\ free' \in Frees /\ (free'.buffers <=> free.buffers)
    BY DEF TransferLifoBlocks
  <2>2. CASE free'.lifo \/ free.buffers
    BY <2>1, <2>2 DEF TransferLifoBlocks, Goto
  <2>3. CASE ~(free'.lifo \/ free.buffers)
    <3>1. main.then \in Places /\ "out" \in Places /\ main \in Mains
      OBVIOUS
    <3> HIDE DEF Mains, Places, Frees
    <3>2. main' = [main EXCEPT !.at = main.then, !.then = "out"]
      BY <2>3 DEF TransferLifoBlocks, Return
    <3>3. /\ main' \in Mains /\ main'.unlimited = main.unlimited /\ main'.reset = main.reset
          /\ main'.at = main.then /\ main'.then = "out"
      BY <3>1, <3>2 DEF Mains
    <3> QED BY <2>1, <2>3, <3>3 DEF TransferLifoBlocks
  <2> QED BY <2>2, <2>3
<1>1. TypeOK'
  BY <1>0
<1>2. AtomsHold'
  BY <1>0 DEF AtomsHold
<1>3. PlaceHolds'
  BY <1>0 DEF PlaceHolds
<1>4. ZonesHold'
  BY <1>0 DEF ZonesHold, PlaceHolds
<1>5. SweepHolds'
  BY <1>0 DEF SweepHolds
<1>6. FreeHolds'
  BY <1>0 DEF FreeHolds
<1>7. TasksHold'
  BY <1>0 DEF TasksHold, PlaceHolds
<1>8. SliceHolds'
  BY <1>0 DEF SliceHolds, PlaceHolds
<1>9. CompactHolds'
  BY <1>0 DEF CompactHolds, PlaceHolds
<1> QED BY <1>1, <1>2, <1>3, <1>4, <1>5, <1>6, <1>7, <1>8, <1>9

(* The free task is started, or run. *)
LEMMA StartBackgroundFreeKeeps == ASSUME IndInv, StartBackgroundFree PROVE IndInv'
<1> USE DEF IndInv, TypeOK, GCs, Mains, Frees, Places, Reasons, States, TaskStates,
            ZoneStates
<1>0. /\ main' \in Mains /\ main'.unlimited = main.unlimited /\ main'.reset = main.reset
      /\ main'.at = main.then /\ main'.then = "out" /\ At("free")
      /\ free' \in Frees /\ (task'["free"] = "Idle" => ~free'.lifo /\ ~free'.buffers)
      /\ (WasStarted("free") => free' = free)
      /\ task' \in [Tasks -> TaskStates]
      /\ (WasStarted("free"))' \/ task'["free"] = "Idle"
      /\ task'["sweep"] = task["sweep"] /\ task'["decommit"] = task["decommit"]
      /\ UNCHANGED <<heapVars, held, backgroundSweepZones, askVars, rest, gc>>
  <2>1. main.then \in Places /\ "out" \in Places /\ main \in Mains /\ free \in Frees
    OBVIOUS
  <2>2. UNCHANGED <<heapVars, held, backgroundSweepZones, askVars, rest, gc>> /\ At("free")
    BY DEF StartBackgroundFree, StartOrRunIfIdle, RunFromMainThread, bodyVars
  <2>3. /\ task' \in [Tasks -> TaskStates]
        /\ (WasStarted("free"))' \/ task'["free"] = "Idle"
        /\ task'["sweep"] = task["sweep"] /\ task'["decommit"] = task["decommit"]
    BY DEF StartBackgroundFree, StartOrRunIfIdle, SetTask
  <2> HIDE DEF Mains, Places, Frees
  <2>4. /\ free' \in Frees /\ (task'["free"] = "Idle" => ~free'.lifo /\ ~free'.buffers)
        /\ (WasStarted("free") => free' = free)
    <3>1. free' \in Frees
      BY <2>1, FreeTakes, ZenonT(40)
         DEF StartBackgroundFree, StartOrRunIfIdle, RunFromMainThread, bodyVars
    <3>2. task'["free"] = "Idle" => ~free'.lifo /\ ~free'.buffers
      <4>1. CASE WasStarted("free") \/ canUseExtraThreads
        BY <4>1 DEF StartBackgroundFree, StartOrRunIfIdle, SetTask, TypeOK
      <4>2. CASE ~(WasStarted("free") \/ canUseExtraThreads)
        <5>1. RunFromMainThread("free")
          BY <4>2 DEF StartBackgroundFree, StartOrRunIfIdle
        <5> QED BY <2>1, <5>1, FreeTakes DEF RunFromMainThread
      <4> QED BY <4>1, <4>2
    <3>3. WasStarted("free") => free' = free
      BY DEF StartBackgroundFree, StartOrRunIfIdle, bodyVars
    <3> QED BY <3>1, <3>2, <3>3
  <2>5. main' = [main EXCEPT !.at = main.then, !.then = "out"]
    BY DEF StartBackgroundFree, Return
  <2>6. /\ main' \in Mains /\ main'.unlimited = main.unlimited /\ main'.reset = main.reset
        /\ main'.at = main.then /\ main'.then = "out"
    BY <2>1, <2>5 DEF Mains
  <2> QED BY <2>2, <2>3, <2>4, <2>6
<1>1. TypeOK'
  BY <1>0
<1>2. PlaceHolds'
  BY <1>0 DEF PlaceHolds
<1>3. ZonesHold'
  BY <1>0 DEF ZonesHold, PlaceHolds
<1>4. SweepHolds'
  BY <1>0 DEF SweepHolds
<1>5. AtomsHold'
  BY <1>0 DEF AtomsHold
<1>6. FreeHolds'
  BY <1>0 DEF FreeHolds
<1>7. TasksHold'
  BY <1>0 DEF TasksHold, PlaceHolds
<1>8. SliceHolds'
  BY <1>0 DEF SliceHolds, PlaceHolds
<1>9. CompactHolds'
  BY <1>0 DEF CompactHolds, PlaceHolds
<1> QED BY <1>1, <1>2, <1>3, <1>4, <1>5, <1>6, <1>7, <1>8, <1>9

(* A minor collection begins. *)
LEMMA MinorGCKeeps == ASSUME IndInv, MinorGC PROVE IndInv'
<1> USE DEF IndInv, TypeOK, GCs, Mains, Frees, Places, Reasons, States, TaskStates,
            ZoneStates
<1>1. TypeOK'
  <2>1. main' \in Mains
    BY DEF MinorGC, Out
  <2> HIDE DEF GCs, Mains, Frees
  <2> QED BY <2>1 DEF MinorGC, Out
<1>2. AtomsHold'
  BY DEF MinorGC, AtomsHold
<1>3. PlaceHolds'
  BY DEF MinorGC, Out, PlaceHolds
<1>4. ZonesHold'
  BY DEF MinorGC, Out, ZonesHold
<1>5. SweepHolds'
  BY DEF MinorGC, Out, SweepHolds
<1>6. FreeHolds'
  BY DEF MinorGC, Out, FreeHolds
<1>7. TasksHold'
  BY DEF MinorGC, Out, TasksHold
<1>8. SliceHolds'
  BY DEF MinorGC, Out, SliceHolds
<1>9. CompactHolds'
  BY DEF MinorGC, Out, CompactHolds, PlaceHolds
<1> QED BY <1>1, <1>2, <1>3, <1>4, <1>5, <1>6, <1>7, <1>8, <1>9

(* finishGC() gives up compaction. *)
LEMMA FinishGCNoCompactKeeps == ASSUME IndInv, FinishGCNoCompact PROVE IndInv'
<1> USE DEF IndInv, TypeOK, GCs, Mains, Frees, Places, Reasons, States, TaskStates,
            ZoneStates
<1>1. TypeOK'
  <2>1. gc' \in GCs
    BY DEF FinishGCNoCompact, Goto
  <2>2. main' \in Mains
    BY DEF FinishGCNoCompact, Goto
  <2> HIDE DEF GCs, Mains, Frees
  <2> QED BY <2>1, <2>2 DEF FinishGCNoCompact, Goto
<1>2. AtomsHold'
  BY DEF FinishGCNoCompact, AtomsHold
<1>3. PlaceHolds'
  BY DEF FinishGCNoCompact, Goto, PlaceHolds
<1>4. ZonesHold'
  BY DEF FinishGCNoCompact, Goto, ZonesHold
<1>5. SweepHolds'
  BY DEF FinishGCNoCompact, Goto, SweepHolds
<1>6. FreeHolds'
  BY DEF FinishGCNoCompact, Goto, FreeHolds
<1>7. TasksHold'
  BY DEF FinishGCNoCompact, Goto, TasksHold
<1>8. SliceHolds'
  BY DEF FinishGCNoCompact, Goto, SliceHolds
<1>9. CompactHolds'
  BY DEF FinishGCNoCompact, Goto, CompactHolds
<1> QED BY <1>1, <1>2, <1>3, <1>4, <1>5, <1>6, <1>7, <1>8, <1>9

(* gcIfRequested() drops a request for an atoms collection. *)
LEMMA SkipDelayedAtomsGCKeeps == ASSUME IndInv, SkipDelayedAtomsGC PROVE IndInv'
<1> USE DEF IndInv, TypeOK, GCs, Mains, Frees, Places, Reasons, States, TaskStates,
            ZoneStates
<1>1. TypeOK'
  BY DEF SkipDelayedAtomsGC
<1>2. /\ PlaceHolds' /\ ZonesHold' /\ SweepHolds' /\ AtomsHold' /\ FreeHolds'
      /\ TasksHold' /\ CompactHolds'
  BY DEF SkipDelayedAtomsGC, PlaceHolds, ZonesHold, SweepHolds, AtomsHold, FreeHolds,
         TasksHold, CompactHolds
<1>3. SliceHolds'
  BY DEF SkipDelayedAtomsGC, SliceHolds
<1> QED BY <1>1, <1>2, <1>3

(* gcCycle() clears the request that it answers. *)
LEMMA BeginSliceKeeps == ASSUME IndInv, BeginSlice PROVE IndInv'
<1> USE DEF IndInv, TypeOK, GCs, Mains, Frees, Places, Reasons, States, TaskStates,
            ZoneStates
<1>1. TypeOK'
  <2>1. main' \in Mains
    BY DEF BeginSlice
  <2> HIDE DEF GCs, Mains, Frees
  <2> QED BY <2>1 DEF BeginSlice
<1>2. AtomsHold'
  BY DEF BeginSlice, AtomsHold
<1>3. PlaceHolds'
  BY DEF BeginSlice, PlaceHolds
<1>4. ZonesHold'
  BY DEF BeginSlice, ZonesHold
<1>5. SweepHolds'
  BY DEF BeginSlice, SweepHolds
<1>6. FreeHolds'
  BY DEF BeginSlice, FreeHolds
<1>7. TasksHold'
  BY DEF BeginSlice, TasksHold
<1>8. SliceHolds'
  BY DEF BeginSlice, SliceHolds
<1>9. CompactHolds'
  BY DEF BeginSlice, CompactHolds
<1> QED BY <1>1, <1>2, <1>3, <1>4, <1>5, <1>6, <1>7, <1>8, <1>9

(* A collection chooses its zones, or has none. *)
LEMMA BeginMarkPhaseKeeps == ASSUME IndInv, BeginMarkPhase PROVE IndInv'
<1> USE DEF IndInv, TypeOK, GCs, Mains, Frees, Places, Reasons, States, TaskStates,
            ZoneStates
<1>0. /\ main' \in Mains /\ main'.unlimited = main.unlimited /\ main'.reset = main.reset
      /\ gc' \in GCs /\ gc'.state = "NotActive" /\ gc'.abortSweep = gc.abortSweep
      /\ gc'.startedCompacting = gc.startedCompacting
      /\ zone' \in [Zones -> ZoneStates]
      /\ free' \in Frees /\ free'.lifo = free.lifo /\ free'.buffers = free.buffers
      /\ \/ main'.at = "end" /\ zone' = zone
         \/ /\ main'.at = "transfer" /\ main'.then = "purge"
            /\ \A z \in Zones : \/ zone'[z] = zone[z]
                                \/ zone[z] = "NoGC" /\ zone'[z] = "Mark"
      /\ UNCHANGED <<toSweep, toCompact, taskVars, askVars, rest>>
      /\ At("slice") /\ gc.state = "NotActive"
  <2>1. /\ UNCHANGED <<toSweep, toCompact, taskVars, askVars, rest>>
        /\ At("slice") /\ gc.state = "NotActive"
    BY DEF BeginMarkPhase, Slice
  <2>2. CASE Goto("end") /\ UNCHANGED <<zone, gc, free>>
    BY <2>1, <2>2 DEF Goto, ZoneStates
  <2>3. CASE ~(Goto("end") /\ UNCHANGED <<zone, gc, free>>)
    <3>1. PICK S \in (SUBSET ZonesIn("NoGC")) \ {{}}, compact \in BOOLEAN, jit \in BOOLEAN,
               background \in {FALSE, canUseExtraThreads} :
            /\ SetZones(S, "Mark")
            /\ gc' = [gc EXCEPT !.isCompacting = compact, !.onBackground = background]
            /\ free' = [free EXCEPT !.lifoAfterMinorGC = @ \/ jit]
            /\ main' = [main EXCEPT !.at = "transfer", !.then = "purge"]
      <4> HIDE DEF IndInv, TypeOK, GCs, Mains, Frees
      <4> QED BY <2>3 DEF BeginMarkPhase
    <3>2. background \in BOOLEAN
      OBVIOUS
    <3>3. /\ gc' \in GCs /\ gc'.state = "NotActive" /\ gc'.abortSweep = gc.abortSweep
          /\ gc'.startedCompacting = gc.startedCompacting
      BY <2>1, <3>1, <3>2
    <3>4. /\ main' \in Mains /\ main'.unlimited = main.unlimited /\ main'.reset = main.reset
          /\ main'.at = "transfer" /\ main'.then = "purge"
      BY <3>1
    <3>5. free' \in Frees /\ free'.lifo = free.lifo /\ free'.buffers = free.buffers
      BY <3>1
    <3>6. /\ zone' \in [Zones -> ZoneStates]
          /\ \A z \in Zones : \/ zone'[z] = zone[z]
                              \/ zone[z] = "NoGC" /\ zone'[z] = "Mark"
      <4>1. S \in SUBSET Zones /\ \A z \in S : zone[z] = "NoGC"
        BY DEF ZonesIn
      <4> QED BY <3>1, <4>1, ZonesChange DEF ZoneStates
    <3> HIDE DEF GCs, Mains, Frees
    <3> QED BY <2>1, <3>3, <3>4, <3>5, <3>6
  <2> QED BY <2>2, <2>3
<1>1. TypeOK'
  BY <1>0
<1>2. PlaceHolds'
  BY <1>0 DEF PlaceHolds, ZoneStates
<1>3. ZonesHold'
  BY <1>0 DEF ZonesHold, ZoneStates, PlaceHolds
<1>4. SweepHolds'
  BY <1>0 DEF SweepHolds, ZoneStates, PlaceHolds, ZonesHold
<1>5. AtomsHold'
  BY <1>0, ListBasics DEF AtomsHold, ZoneStates, PlaceHolds, ZonesHold, SweepHolds
<1>6. FreeHolds'
  BY <1>0 DEF FreeHolds, ZoneStates, PlaceHolds
<1>7. TasksHold'
  BY <1>0 DEF TasksHold, ZoneStates, PlaceHolds
<1>8. SliceHolds'
  BY <1>0 DEF SliceHolds, ZoneStates, PlaceHolds
<1>9. CompactHolds'
  BY <1>0 DEF CompactHolds, ZoneStates, PlaceHolds
<1> QED BY <1>1, <1>2, <1>3, <1>4, <1>5, <1>6, <1>7, <1>8, <1>9

(* Marking begins. *)
LEMMA PurgeRuntimeKeeps == ASSUME IndInv, PurgeRuntime PROVE IndInv'
<1> USE DEF IndInv, TypeOK, GCs, Mains, Frees, Places, Reasons, States, TaskStates,
            ZoneStates
<1>1. TypeOK'
  <2>1. gc' \in GCs
    BY ZenonT(40) DEF PurgeRuntime, SetState
  <2>2. main' \in Mains
    BY ZenonT(40) DEF PurgeRuntime
  <2>3. free' \in Frees
    BY DEF PurgeRuntime, SetState
  <2> HIDE DEF GCs, Mains, Frees
  <2> QED BY <2>1, <2>2, <2>3 DEF PurgeRuntime, SetState
<1>2. AtomsHold'
  BY DEF PurgeRuntime, AtomsHold
<1>3. PlaceHolds'
  BY DEF PurgeRuntime, SetState, PlaceHolds
<1>4. ZonesHold'
  BY DEF PurgeRuntime, SetState, ZonesHold, PlaceHolds
<1>5. SweepHolds'
  BY DEF PurgeRuntime, SetState, SweepHolds, PlaceHolds
<1>6. FreeHolds'
  BY DEF PurgeRuntime, SetState, FreeHolds
<1>7. TasksHold'
  BY DEF PurgeRuntime, SetState, TasksHold, PlaceHolds
<1>8. SliceHolds'
  BY DEF PurgeRuntime, SetState, SliceHolds, PlaceHolds
<1>9. CompactHolds'
  BY DEF PurgeRuntime, SetState, CompactHolds, PlaceHolds
<1> QED BY <1>1, <1>2, <1>3, <1>4, <1>5, <1>6, <1>7, <1>8, <1>9

(* A mark slice yields, or the first sweep group begins. *)
LEMMA MarkSliceKeeps == ASSUME IndInv, MarkSlice PROVE IndInv'
<1> USE DEF IndInv, TypeOK, GCs, Mains, Frees, Places, Reasons, States, TaskStates,
            ZoneStates
<1>0. /\ main' \in Mains /\ main'.then = main.then
      /\ main'.unlimited = main.unlimited /\ main'.reset = main.reset
      /\ gc' \in GCs /\ gc'.isCompacting = gc.isCompacting
      /\ gc'.startedCompacting = gc.startedCompacting /\ gc'.abortSweep = gc.abortSweep
      /\ \/ /\ main'.at = "end" /\ ~main.unlimited /\ gc'.state = "Mark"
            /\ UNCHANGED zone
         \/ /\ main'.at = "slice" /\ gc'.state = "Sweep"
            /\ MarkGrayReferencesInCurrentGroup
      /\ UNCHANGED <<toSweep, toCompact, taskVars, askVars, rest, free>>
      /\ At("slice") /\ gc.state = "Mark"
  <2>1. /\ UNCHANGED <<toSweep, toCompact, taskVars, askVars, rest, free>>
        /\ At("slice") /\ gc.state = "Mark"
    BY DEF MarkSlice, Slice
  <2>2. CASE ~main.unlimited /\ Goto("end") /\ UNCHANGED <<zone, gc>>
    BY <2>1, <2>2 DEF Goto
  <2>3. CASE /\ ~main.unlimited /\ gc' = [gc EXCEPT !.lastMarkSlice = TRUE] /\ Goto("end")
             /\ UNCHANGED zone
    BY <2>1, <2>3 DEF Goto
  <2>4. CASE /\ gc' = [gc EXCEPT !.state = "Sweep", !.lastMarkSlice = FALSE]
             /\ MarkGrayReferencesInCurrentGroup
             /\ main' = [main EXCEPT !.fromMark = FALSE]
    <3>1. /\ gc' \in GCs /\ gc'.isCompacting = gc.isCompacting /\ gc'.state = "Sweep"
          /\ gc'.startedCompacting = gc.startedCompacting /\ gc'.abortSweep = gc.abortSweep
      <4>1. gc \in GCs /\ "Sweep" \in States
        OBVIOUS
      <4> HIDE DEF States
      <4> QED BY <2>4, <4>1
    <3>2. /\ main' \in Mains /\ main'.then = main.then /\ main'.at = "slice"
          /\ main'.unlimited = main.unlimited /\ main'.reset = main.reset
      BY <2>1, <2>4
    <3> HIDE DEF GCs, Mains
    <3> QED BY <2>1, <2>4, <3>1, <3>2
  <2> QED BY <2>2, <2>3, <2>4 DEF MarkSlice
<1>1. TypeOK'
  <2>1. gc' \in GCs
    BY <1>0
  <2>2. main' \in Mains
    BY <1>0
  <2>3. free' \in Frees
    BY <1>0
  <2> HIDE DEF GCs, Mains, Frees
  <2> QED BY <1>0, <2>1, <2>2, <2>3, GroupMarked DEF ZoneStates
<1>2. PlaceHolds'
  BY <1>0, GroupMarked DEF PlaceHolds, ZoneStates
<1>3. ZonesHold'
  BY <1>0, GroupMarked DEF ZonesHold, ZoneStates, PlaceHolds
<1>4. SweepHolds'
  BY <1>0, GroupMarked DEF SweepHolds, ZoneStates, PlaceHolds, ZonesHold
<1>5. AtomsHold'
  <2>1. /\ ToSet(held) = {} /\ ToSet(backgroundSweepZones) = {} /\ Atoms \in Zones
        /\ \A z \in Zones : zone[z] # "Sweep" /\ zone[z] # "MarkGray"
    BY <1>0, ListBasics DEF SweepHolds, ZonesHold
  <2>2. Atoms \notin toSweep
    BY <2>1 DEF SweepHolds
  <2>3. /\ zone'[Atoms] = "MarkGray" => \A z \in Zones : zone'[z] # "Mark"
        /\ \A z \in Zones : zone'[z] # "Sweep"
    BY <1>0, <2>1, GroupMarked
  <2> QED BY <1>0, <2>1, <2>2, <2>3 DEF AtomsHold
<1>6. FreeHolds'
  BY <1>0, GroupMarked DEF FreeHolds, ZoneStates, PlaceHolds
<1>7. TasksHold'
  BY <1>0, GroupMarked DEF TasksHold, ZoneStates, PlaceHolds
<1>8. SliceHolds'
  BY <1>0, GroupMarked DEF SliceHolds, ZoneStates, PlaceHolds
<1>9. CompactHolds'
  BY <1>0, GroupMarked DEF CompactHolds, ZoneStates, PlaceHolds
<1> QED BY <1>1, <1>2, <1>3, <1>4, <1>5, <1>6, <1>7, <1>8, <1>9

(* A group that has been marked begins to be swept. *)
LEMMA BeginSweepingSweepGroupKeeps == ASSUME IndInv, BeginSweepingSweepGroup PROVE IndInv'
<1> USE DEF IndInv, TypeOK, GCs, Mains, Frees, Places, Reasons, States, TaskStates,
            ZoneStates
<1>0. /\ zone' \in [Zones -> ZoneStates] /\ toSweep' \subseteq Zones
      /\ \A z \in Zones : zone[z] = "MarkGray" => zone'[z] = "Sweep" /\ z \in toSweep'
      /\ \A z \in Zones : zone[z] # "MarkGray" =>
            zone'[z] = zone[z] /\ (z \in toSweep' <=> z \in toSweep)
      /\ \E z \in Zones : zone[z] = "MarkGray"
      /\ free' \in Frees /\ (free'.buffers <=> free.buffers)
      /\ UNCHANGED <<toCompact, taskVars, askVars, rest, gc, main>>
      /\ At("slice") /\ gc.state = "Sweep"
  <2>1. /\ ZonesIn("MarkGray") # {} /\ SetZones(ZonesIn("MarkGray"), "Sweep")
        /\ toSweep' = toSweep \cup ZonesIn("MarkGray")
        /\ UNCHANGED <<toCompact, taskVars, askVars, rest, gc, main>>
        /\ At("slice") /\ gc.state = "Sweep"
    BY DEF BeginSweepingSweepGroup, Slice
  <2>2. free' \in Frees /\ (free'.buffers <=> free.buffers)
    BY DEF BeginSweepingSweepGroup
  <2>3. /\ zone' \in [Zones -> ZoneStates]
        /\ \A z \in Zones : zone[z] = "MarkGray" => zone'[z] = "Sweep"
        /\ \A z \in Zones : zone[z] # "MarkGray" => zone'[z] = zone[z]
    BY <2>1, ZonesChange DEF ZonesIn
  <2> HIDE DEF Frees, Mains, GCs
  <2> QED BY <2>1, <2>2, <2>3 DEF ZonesIn
<1>1. TypeOK'
  BY <1>0
<1>2. PlaceHolds' /\ CompactHolds'
  BY <1>0 DEF PlaceHolds, CompactHolds
<1>3. ZonesHold'
  BY <1>0 DEF ZonesHold
<1>4. SweepHolds'
  BY <1>0, ListBasics DEF SweepHolds
<1>5. AtomsHold'
  BY <1>0, ListBasics DEF AtomsHold, SweepHolds
<1>6. FreeHolds'
  BY <1>0 DEF FreeHolds
<1>7. TasksHold' /\ SliceHolds'
  BY <1>0 DEF TasksHold, SliceHolds
<1> QED BY <1>1, <1>2, <1>3, <1>4, <1>5, <1>6, <1>7

(* A sweep slice yields, or ends its group. *)
LEMMA SweepSliceKeeps == ASSUME IndInv, SweepSlice PROVE IndInv'
<1> USE DEF IndInv, TypeOK, GCs, Mains, Frees, Places, Reasons, States, TaskStates,
            ZoneStates
<1>0. /\ main' \in Mains /\ main'.unlimited = main.unlimited /\ main'.reset = main.reset
      /\ \/ main'.at = "end" /\ ~main.unlimited
         \/ /\ main'.at = "free" /\ main'.then = "queue"
            /\ \A z \in Zones : zone[z] # "MarkGray"
      /\ UNCHANGED <<heapVars, taskVars, askVars, rest, gc, free>>
      /\ At("slice") /\ gc.state = "Sweep"
  <2>1. UNCHANGED <<heapVars, taskVars, askVars, rest, gc, free>>
        /\ At("slice") /\ gc.state = "Sweep"
    BY DEF SweepSlice, Slice
  <2>2. CASE ~main.unlimited /\ Goto("end")
    BY <2>1, <2>2 DEF Goto
  <2>3. CASE /\ ZonesIn("MarkGray") = {}
             /\ main' = [main EXCEPT !.at = "free", !.then = "queue"]
    <3>1. "free" \in Places /\ "queue" \in Places /\ main \in Mains
      OBVIOUS
    <3> HIDE DEF Places
    <3>2. /\ main' \in Mains /\ main'.unlimited = main.unlimited
          /\ main'.reset = main.reset /\ main'.at = "free" /\ main'.then = "queue"
      BY <2>3, <3>1
    <3>3. \A z \in Zones : zone[z] # "MarkGray"
      BY <2>3 DEF ZonesIn
    <3> QED BY <2>1, <3>2, <3>3
  <2> QED BY <2>2, <2>3 DEF SweepSlice
<1>1. TypeOK'
  BY <1>0
<1>2. AtomsHold'
  BY <1>0 DEF AtomsHold
<1>3. PlaceHolds'
  BY <1>0 DEF PlaceHolds
<1>4. ZonesHold'
  BY <1>0 DEF ZonesHold
<1>5. SweepHolds'
  BY <1>0 DEF SweepHolds
<1>6. FreeHolds'
  BY <1>0 DEF FreeHolds
<1>7. TasksHold'
  BY <1>0 DEF TasksHold
<1>8. SliceHolds'
  BY <1>0 DEF SliceHolds
<1>9. CompactHolds'
  BY <1>0 DEF CompactHolds
<1> QED BY <1>1, <1>2, <1>3, <1>4, <1>5, <1>6, <1>7, <1>8, <1>9

(* The zones of a group go to the sweep task, unless it is finishing. *)
LEMMA QueueZonesKeeps == ASSUME IndInv, QueueZones PROVE IndInv'
<1> USE DEF IndInv, TypeOK, GCs, Mains, Frees, Places, Reasons, States, TaskStates,
            ZoneStates
<1>0. /\ backgroundSweepZones' \in Lists /\ ZoneList(backgroundSweepZones')
      /\ ToSet(backgroundSweepZones') =
            ToSet(backgroundSweepZones) \cup ZonesIn("Sweep")
      /\ backgroundSweepZones' = <<>> => backgroundSweepZones = <<>>
  <2> DEFINE b == backgroundSweepZones
  <2>1. PICK s \in ZoneLists(ZonesIn("Sweep")) : b' = b \o s
    BY DEF QueueZones
  <2>2. ZonesIn("Sweep") \in SUBSET Zones
    BY DEF ZonesIn
  <2>3. s \in Lists /\ ZoneList(s) /\ ToSet(s) = ZonesIn("Sweep")
    BY <2>2, ListOfGroup
  <2>4. b \in Lists /\ ZoneList(b)
    BY DEF AtomsHold
  <2>5. ToSet(b) \cap ToSet(s) = {}
    BY <2>3 DEF SweepHolds, ZonesIn
  <2>6. Atoms \notin ToSet(b) \/ s = <<>>
    <3>1. ASSUME Atoms \in ToSet(b) PROVE ToSet(s) = {}
      BY <2>3, <3>1 DEF AtomsHold, ZonesIn
    <3>2. ToSet(s) = {} => s = <<>>
      BY <2>3, NoZones
    <3> QED BY <3>1, <3>2
  <2>7. /\ b \o s \in Lists /\ ZoneList(b \o s)
        /\ ToSet(b \o s) = ToSet(b) \cup ToSet(s)
    BY <2>3, <2>4, <2>5, <2>6, ListsJoined
  <2>8. b \o s = <<>> => b = <<>>
    BY <2>4, <2>7, EmptyList, NoZones
  <2> QED BY <2>1, <2>3, <2>7, <2>8
<1>a. \A z \in Zones : z \in ZonesIn("Sweep") <=> zone[z] = "Sweep"
  BY DEF ZonesIn
<1>b. /\ zone' \in [Zones -> ZoneStates]
      /\ \A z \in Zones : zone[z] = "Sweep" => zone'[z] = "Finished"
      /\ \A z \in Zones : zone[z] # "Sweep" => zone'[z] = zone[z]
  BY ZonesChange DEF QueueZones, ZonesIn
<1>c. /\ \/ /\ gc.onBackground /\ task["sweep"] # "Finishing" /\ main'.at = "nextGroup"
            /\ \/ WasStarted("sweep") /\ task' = task
               \/ ~WasStarted("sweep") /\ task'["sweep"] = "Dispatched"
         \/ main'.at = "startSweep" /\ task' = task
      /\ task'["free"] = task["free"] /\ task'["decommit"] = task["decommit"]
      /\ task' \in [Tasks -> TaskStates]
      /\ main' \in Mains /\ main'.then = main.then
      /\ main'.unlimited = main.unlimited /\ main'.reset = main.reset
      /\ At("queue") /\ LockFree
      /\ UNCHANGED <<toSweep, toCompact, held, askVars, rest, gc, free>>
  BY DEF QueueZones, Goto, SetTask
<1>1. TypeOK'
  BY <1>0, <1>b, <1>c
<1>2. PlaceHolds'
  BY <1>c DEF PlaceHolds
<1>3. ZonesHold'
  BY <1>b, <1>c DEF ZonesHold, PlaceHolds
<1>4. SweepHolds'
  <2>1. /\ \A z \in Zones : zone'[z] # "Sweep"
        /\ \A z \in ToSet(held) : zone'[z] = "Finished" /\ z \notin ZonesIn("Sweep")
        /\ \A z \in ToSet(backgroundSweepZones) : zone'[z] = "Finished"
        /\ \A z \in ZonesIn("Sweep") : zone'[z] = "Finished"
    BY <1>a, <1>b, ListBasics DEF SweepHolds, ZonesIn
  <2>2. \A z \in Zones : z \in toSweep' <=> \/ zone'[z] = "Sweep"
                                            \/ z \in ToSet(held')
                                            \/ z \in ToSet(backgroundSweepZones')
    BY <1>0, <1>a, <1>c, <2>1 DEF SweepHolds
  <2>3. \/ WasStarted("sweep")' /\ storing'["sweep"] = "NO_REASON"
        \/ main'.at = "startSweep"
    BY <1>c
  <2>4. held' # <<>> => task'["sweep"] = "Working" /\ storing'["sweep"] = "NO_REASON"
    BY <1>c DEF SweepHolds
  <2> QED BY <1>0, <1>c, <2>1, <2>2, <2>3, <2>4 DEF SweepHolds, PlaceHolds
<1>5. AtomsHold'
  <2>1. Atoms \in ToSet(held) => ToSet(backgroundSweepZones') = {}
    BY <1>0, <1>a, ListBasics DEF AtomsHold, ZonesIn
  <2>2. Atoms \in ToSet(held) => backgroundSweepZones' = <<>>
    BY <1>0, <2>1, NoZones
  <2>3. /\ \A z \in Zones : zone'[z] # "Sweep"
        /\ \A z \in Zones : zone[z] # "Mark" => zone'[z] # "Mark"
        /\ \A z \in Zones : zone[z] # "MarkGray" => zone'[z] # "MarkGray"
        /\ zone'[Atoms] = "MarkGray" => zone[Atoms] = "MarkGray"
    BY <1>b, ListBasics
  <2> QED BY <1>0, <1>c, <2>2, <2>3 DEF AtomsHold
<1>6. FreeHolds'
  BY <1>c DEF FreeHolds
<1>7. TasksHold'
  BY <1>c DEF TasksHold
<1>8. SliceHolds'
  BY <1>c DEF SliceHolds, PlaceHolds
<1>9. CompactHolds'
  BY <1>c DEF CompactHolds
<1> QED BY <1>1, <1>2, <1>3, <1>4, <1>5, <1>6, <1>7, <1>8, <1>9

(* The sweep task is started, or run, for the zones queued. *)
LEMMA StartSweepKeeps == ASSUME IndInv, StartSweep PROVE IndInv'
<1> USE DEF IndInv, TypeOK, GCs, Mains, Frees, Places, Reasons, States, TaskStates,
            ZoneStates
<1>1. TypeOK'
  BY ListBasics DEF StartSweep, Goto, RunFromMainThread, SetTask, bodyVars
<1>2. PlaceHolds'
  BY DEF StartSweep, Goto, RunFromMainThread, SetTask, bodyVars, PlaceHolds
<1>3. ZonesHold'
  BY DEF StartSweep, Goto, RunFromMainThread, SetTask, bodyVars, ZonesHold
<1>4. SweepHolds'
  BY ListBasics DEF StartSweep, Goto, RunFromMainThread, SetTask, bodyVars, SweepHolds
<1>5. AtomsHold'
  BY ListBasics DEF StartSweep, Goto, RunFromMainThread, SetTask, bodyVars, AtomsHold
<1>6. FreeHolds'
  BY DEF StartSweep, Goto, RunFromMainThread, SetTask, bodyVars, FreeHolds
<1>7. TasksHold'
  BY DEF StartSweep, Goto, RunFromMainThread, SetTask, bodyVars, TasksHold
<1>8. SliceHolds'
  BY DEF StartSweep, Goto, RunFromMainThread, SetTask, bodyVars, SliceHolds
<1>9. CompactHolds'
  BY DEF StartSweep, Goto, RunFromMainThread, SetTask, bodyVars, CompactHolds
<1> QED BY <1>1, <1>2, <1>3, <1>4, <1>5, <1>6, <1>7, <1>8, <1>9

(* The next group begins, or sweeping is over or given up. *)
LEMMA GetNextSweepGroupKeeps == ASSUME IndInv, GetNextSweepGroup PROVE IndInv'
<1> USE DEF IndInv, TypeOK, GCs, Mains, Frees, Places, Reasons, States, TaskStates,
            ZoneStates
<1>0. /\ main' \in Mains /\ main'.then = main.then /\ main'.at = "slice"
      /\ main'.unlimited = main.unlimited /\ main'.reset = main.reset
      /\ gc' \in GCs /\ gc'.isCompacting = gc.isCompacting
      /\ gc'.startedCompacting = gc.startedCompacting
      /\ \/ /\ gc'.state = "Finalize" /\ ~gc'.abortSweep
            /\ zone' \in [Zones -> ZoneStates]
            /\ \A z \in Zones : zone[z] = "Mark" => zone'[z] = "NoGC"
            /\ \A z \in Zones : zone[z] # "Mark" => zone'[z] = zone[z]
         \/ gc' = gc /\ MarkGrayReferencesInCurrentGroup
      /\ UNCHANGED <<toSweep, toCompact, taskVars, askVars, rest, free>> /\ At("nextGroup")
  <2>1. /\ main' \in Mains /\ main'.then = main.then /\ main'.at = "slice"
        /\ main'.unlimited = main.unlimited /\ main'.reset = main.reset
        /\ UNCHANGED <<toSweep, toCompact, taskVars, askVars, rest, free>> /\ At("nextGroup")
    BY DEF GetNextSweepGroup, Goto
  <2>2. CASE ~(ZonesIn("Mark") = {} \/ gc.abortSweep)
    BY <2>1, <2>2 DEF GetNextSweepGroup
  <2>3. CASE ZonesIn("Mark") = {} \/ gc.abortSweep
    <3>1. /\ gc' \in GCs /\ gc'.isCompacting = gc.isCompacting /\ gc'.state = "Finalize"
          /\ gc'.startedCompacting = gc.startedCompacting /\ ~gc'.abortSweep
      <4>1. gc \in GCs /\ "Finalize" \in States
        OBVIOUS
      <4> HIDE DEF States
      <4>2. gc' = [gc EXCEPT !.state = "Finalize", !.abortSweep = FALSE]
        BY <2>3 DEF GetNextSweepGroup
      <4> QED BY <4>1, <4>2
    <3>2. SetZones(ZonesIn("Mark"), "NoGC")
      BY <2>3 DEF GetNextSweepGroup
    <3>3. /\ zone' \in [Zones -> ZoneStates]
          /\ \A z \in Zones : zone[z] = "Mark" => zone'[z] = "NoGC"
          /\ \A z \in Zones : zone[z] # "Mark" => zone'[z] = zone[z]
      BY <3>2, ZonesChange DEF ZonesIn, ZoneStates
    <3> HIDE DEF GCs, Mains
    <3> QED BY <2>1, <3>1, <3>2, <3>3
  <2> QED BY <2>2, <2>3
<1>1. TypeOK'
  <2>1. gc' \in GCs
    BY <1>0
  <2>2. main' \in Mains
    BY <1>0
  <2>3. free' \in Frees
    BY <1>0
  <2> HIDE DEF GCs, Mains, Frees
  <2> QED BY <1>0, <2>1, <2>2, <2>3, GroupMarked DEF ZoneStates
<1>2. PlaceHolds'
  BY <1>0, GroupMarked DEF PlaceHolds, ZoneStates
<1>3. ZonesHold'
  BY <1>0, GroupMarked DEF ZonesHold, ZoneStates, PlaceHolds
<1>4. SweepHolds'
  <2>1. /\ \A z \in Zones : zone'[z] = "Sweep" <=> zone[z] = "Sweep"
        /\ \A z \in Zones : zone[z] = "Finished" => zone'[z] = "Finished"
    BY <1>0, GroupMarked
  <2>2. /\ \A z \in ToSet(held) : zone'[z] = "Finished"
        /\ \A z \in ToSet(backgroundSweepZones) : zone'[z] = "Finished"
    BY <2>1, ListBasics DEF SweepHolds
  <2>3. main'.at # "startSweep" /\ ~At("startSweep") /\ gc'.state \in {"Sweep", "Finalize"}
    BY <1>0 DEF PlaceHolds
  <2> QED BY <1>0, <2>1, <2>2, <2>3 DEF SweepHolds
<1>5. AtomsHold'
  <2>1. /\ \A z \in Zones : zone[z] # "MarkGray" /\ zone[z] # "Sweep"
        /\ Atoms \in Zones
    BY <1>0, ListBasics DEF ZonesHold
  <2>2. /\ \A z \in Zones : zone'[z] # "Sweep"
        /\ \A z \in Zones : zone'[z] \in {"Mark", "MarkGray"} => zone[z] = "Mark"
        /\ zone'[Atoms] = "MarkGray" => \A z \in Zones : zone'[z] # "Mark"
    BY <1>0, <2>1, GroupMarked
  <2> QED BY <1>0, <2>1, <2>2 DEF AtomsHold
<1>6. FreeHolds'
  BY <1>0, GroupMarked DEF FreeHolds, ZoneStates, PlaceHolds, CompactHolds
<1>7. TasksHold'
  BY <1>0, GroupMarked DEF TasksHold, ZoneStates, PlaceHolds
<1>8. SliceHolds'
  BY <1>0, GroupMarked DEF SliceHolds, ZoneStates, PlaceHolds
<1>9. CompactHolds'
  BY <1>0, GroupMarked DEF CompactHolds, ZoneStates, PlaceHolds
<1> QED BY <1>1, <1>2, <1>3, <1>4, <1>5, <1>6, <1>7, <1>8, <1>9

(* The collection yields to a task and asks to be called by it. *)
LEMMA YieldForTaskKeeps == ASSUME IndInv, YieldForTask PROVE IndInv'
<1> USE DEF IndInv, TypeOK, GCs, Mains, Frees, Places, Reasons, States, TaskStates,
            ZoneStates
<1>1. TypeOK'
  BY DEF YieldForTask, Goto
<1>2. AtomsHold'
  BY DEF YieldForTask, AtomsHold
<1>3. PlaceHolds'
  BY DEF YieldForTask, Goto, PlaceHolds
<1>4. ZonesHold'
  BY DEF YieldForTask, Goto, ZonesHold
<1>5. SweepHolds'
  BY DEF YieldForTask, Goto, SweepHolds
<1>6. FreeHolds'
  BY DEF YieldForTask, Goto, FreeHolds
<1>7. TasksHold'
  BY DEF YieldForTask, Goto, TasksHold
<1>8. SliceHolds'
  BY DEF YieldForTask, Goto, SliceHolds
<1>9. CompactHolds'
  BY DEF YieldForTask, Goto, CompactHolds
<1> QED BY <1>1, <1>2, <1>3, <1>4, <1>5, <1>6, <1>7, <1>8, <1>9

(* The task is past its work, or the slice may wait for it. *)
LEMMA GoOnToJoinKeeps == ASSUME IndInv, GoOnToJoin PROVE IndInv'
<1> USE DEF IndInv, TypeOK, GCs, Mains, Frees, Places, Reasons, States, TaskStates,
            ZoneStates
<1>1. TypeOK'
  BY DEF GoOnToJoin, Goto
<1>2. AtomsHold'
  BY DEF GoOnToJoin, AtomsHold
<1>3. PlaceHolds'
  BY DEF GoOnToJoin, Goto, PlaceHolds
<1>4. ZonesHold'
  BY DEF GoOnToJoin, Goto, ZonesHold
<1>5. SweepHolds'
  BY DEF GoOnToJoin, Goto, SweepHolds
<1>6. FreeHolds'
  BY DEF GoOnToJoin, Goto, FreeHolds
<1>7. TasksHold'
  BY DEF GoOnToJoin, Goto, TasksHold
<1>8. SliceHolds'
  BY DEF GoOnToJoin, Goto, SliceHolds
<1>9. CompactHolds'
  BY DEF GoOnToJoin, Goto, CompactHolds
<1> QED BY <1>1, <1>2, <1>3, <1>4, <1>5, <1>6, <1>7, <1>8, <1>9

(* The main thread has waited for the task. *)
LEMMA JoinTaskKeeps == ASSUME IndInv, JoinTask PROVE IndInv'
<1> USE DEF IndInv, TypeOK, GCs, Mains, Frees, Places, Reasons, States, TaskStates,
            ZoneStates
<1>1. TypeOK'
  <2>1. main' \in Mains
    BY DEF JoinTask, Join, RunFromMainThread, SetTask, Goto, bodyVars
  <2>2. free' \in Frees
    BY DEF JoinTask, Join, RunFromMainThread, SetTask, Goto, bodyVars
  <2>3. task' \in [Tasks -> TaskStates]
    BY DEF JoinTask, Join, RunFromMainThread, SetTask, Goto, bodyVars
  <2> HIDE DEF GCs, Mains, Frees
  <2>4. /\ backgroundSweepZones' \in Lists /\ toSweep' \subseteq Zones
        /\ requestSlice' \in BOOLEAN /\ majorGCTriggerReason' \in Reasons
    BY ListBasics DEF JoinTask, Join, RunFromMainThread, bodyVars
  <2> QED BY <2>1, <2>2, <2>3, <2>4 DEF JoinTask
<1>2. PlaceHolds'
  BY DEF JoinTask, Join, RunFromMainThread, SetTask, Goto, bodyVars, PlaceHolds
<1>3. ZonesHold'
  BY DEF JoinTask, Join, RunFromMainThread, SetTask, Goto, bodyVars, ZonesHold
<1>4. SweepHolds'
  BY ListBasics DEF JoinTask, Join, RunFromMainThread, SetTask, Goto, bodyVars, SweepHolds
<1>5. AtomsHold'
  BY ListBasics DEF JoinTask, Join, RunFromMainThread, SetTask, Goto, bodyVars, AtomsHold
<1>6. FreeHolds'
  BY DEF JoinTask, Join, RunFromMainThread, SetTask, Goto, bodyVars, FreeHolds
<1>7. TasksHold'
  BY DEF JoinTask, Join, RunFromMainThread, SetTask, Goto, bodyVars, TasksHold
<1>8. SliceHolds'
  BY DEF JoinTask, Join, RunFromMainThread, SetTask, Goto, bodyVars, SliceHolds
<1>9. CompactHolds'
  BY DEF JoinTask, Join, RunFromMainThread, SetTask, Goto, bodyVars, CompactHolds
<1> QED BY <1>1, <1>2, <1>3, <1>4, <1>5, <1>6, <1>7, <1>8, <1>9

(* The dead zones are destroyed. *)
LEMMA FinalizeZonesKeeps == ASSUME IndInv, FinalizeZones PROVE IndInv'
<1> USE DEF IndInv, TypeOK, GCs, Mains, Frees, Places, Reasons, States, TaskStates,
            ZoneStates
<1>1. TypeOK'
  BY DEF FinalizeZones, CancelRequestedGC, SetZones, ZonesIn, SetState, Goto
<1>2. PlaceHolds'
  BY DEF FinalizeZones, CancelRequestedGC, SetZones, ZonesIn, SetState, Goto, PlaceHolds
<1>3. ZonesHold'
  BY DEF FinalizeZones, CancelRequestedGC, SetZones, ZonesIn, SetState, Goto, ZonesHold
<1>4. SweepHolds'
  BY DEF FinalizeZones, CancelRequestedGC, SetZones, ZonesIn, SetState, Goto, SweepHolds,
         PlaceHolds, TasksHold
<1>5. AtomsHold'
  BY ListBasics
     DEF FinalizeZones, CancelRequestedGC, SetZones, ZonesIn, SetState, Goto, AtomsHold
<1>6. FreeHolds'
  BY DEF FinalizeZones, CancelRequestedGC, SetZones, ZonesIn, SetState, Goto, FreeHolds
<1>7. TasksHold'
  BY DEF FinalizeZones, CancelRequestedGC, SetZones, ZonesIn, SetState, Goto, TasksHold
<1>8. SliceHolds'
  BY DEF FinalizeZones, CancelRequestedGC, SetZones, ZonesIn, SetState, Goto, SliceHolds,
         PlaceHolds, TasksHold
<1>9. CompactHolds'
  BY DEF FinalizeZones, CancelRequestedGC, SetZones, ZonesIn, SetState, Goto, CompactHolds
<1> QED BY <1>1, <1>2, <1>3, <1>4, <1>5, <1>6, <1>7, <1>8, <1>9

(* Compaction yields between two zones, or is over. *)
LEMMA CompactSliceKeeps == ASSUME IndInv, CompactSlice PROVE IndInv'
<1> USE DEF IndInv, TypeOK, GCs, Mains, Frees, Places, Reasons, States, TaskStates,
            ZoneStates
<1>1. TypeOK'
  <2>1. gc' \in GCs
    <3>1. gc \in GCs
      OBVIOUS
    <3>2. \/ gc' = [gc EXCEPT !.startedCompacting = @ /\ ~gc.isCompacting]
          \/ gc' = [gc EXCEPT !.startedCompacting = TRUE]
      BY DEF CompactSlice
    <3>3. \A b \in BOOLEAN : [gc EXCEPT !.startedCompacting = b] \in GCs
      BY <3>1, ZenonT(40)
    <3>4. (gc.startedCompacting /\ ~gc.isCompacting) \in BOOLEAN
      BY Zenon
    <3> HIDE DEF GCs
    <3> QED BY <3>2, <3>3, <3>4, ZenonT(40)
  <2>2. main' \in Mains
    BY DEF CompactSlice, Slice, Goto, ZonesIn
  <2> HIDE DEF GCs, Mains, Frees
  <2> QED BY <2>1, <2>2 DEF CompactSlice, Slice, Goto, ZonesIn
<1>2. AtomsHold'
  BY DEF CompactSlice, AtomsHold
<1>3. PlaceHolds'
  BY DEF CompactSlice, Slice, Goto, ZonesIn, PlaceHolds
<1>4. ZonesHold'
  BY DEF CompactSlice, Slice, Goto, ZonesIn, ZonesHold
<1>5. SweepHolds'
  BY DEF CompactSlice, Slice, Goto, ZonesIn, SweepHolds
<1>6. FreeHolds'
  BY DEF CompactSlice, Slice, Goto, ZonesIn, FreeHolds
<1>7. TasksHold'
  BY DEF CompactSlice, Slice, Goto, ZonesIn, TasksHold
<1>8. SliceHolds'
  BY DEF CompactSlice, Slice, Goto, ZonesIn, SliceHolds
<1>9. CompactHolds'
  BY DEF CompactSlice, Slice, Goto, ZonesIn, CompactHolds
<1> QED BY <1>1, <1>2, <1>3, <1>4, <1>5, <1>6, <1>7, <1>8, <1>9

(* The decommit task is started, or run, or has nothing to do. *)
LEMMA StartDecommitKeeps == ASSUME IndInv, StartDecommit PROVE IndInv'
<1> USE DEF IndInv, TypeOK, GCs, Mains, Frees, Places, Reasons, States, TaskStates,
            ZoneStates
<1>1. TypeOK'
  BY DEF StartDecommit, RunFromMainThread, SetTask, SetState, Goto, bodyVars
<1>2. PlaceHolds'
  BY DEF StartDecommit, RunFromMainThread, SetTask, SetState, Goto, bodyVars, PlaceHolds
<1>3. ZonesHold'
  BY DEF StartDecommit, RunFromMainThread, SetTask, SetState, Goto, bodyVars, ZonesHold,
         PlaceHolds
<1>4. SweepHolds'
  BY DEF StartDecommit, RunFromMainThread, SetTask, SetState, Goto, bodyVars, SweepHolds,
         PlaceHolds
<1>5. AtomsHold'
  BY DEF StartDecommit, RunFromMainThread, SetTask, SetState, Goto, bodyVars, AtomsHold
<1>6. FreeHolds'
  BY DEF StartDecommit, RunFromMainThread, SetTask, SetState, Goto, bodyVars, FreeHolds,
         PlaceHolds
<1>7. TasksHold'
  BY DEF StartDecommit, RunFromMainThread, SetTask, SetState, Goto, bodyVars, TasksHold
<1>8. SliceHolds'
  BY DEF StartDecommit, RunFromMainThread, SetTask, SetState, Goto, bodyVars, SliceHolds,
         PlaceHolds
<1>9. CompactHolds'
  BY DEF StartDecommit, RunFromMainThread, SetTask, SetState, Goto, bodyVars,
         CompactHolds, PlaceHolds
<1> QED BY <1>1, <1>2, <1>3, <1>4, <1>5, <1>6, <1>7, <1>8, <1>9

(* Decommitting is over. *)
LEMMA DecommitDoneKeeps == ASSUME IndInv, DecommitDone PROVE IndInv'
<1> USE DEF IndInv, TypeOK, GCs, Mains, Frees, Places, Reasons, States, TaskStates,
            ZoneStates
<1>1. TypeOK'
  BY DEF DecommitDone, CancelRequestedGC, SetState, Goto
<1>2. AtomsHold'
  BY DEF DecommitDone, AtomsHold
<1>3. PlaceHolds'
  BY DEF DecommitDone, CancelRequestedGC, SetState, Goto, PlaceHolds
<1>4. ZonesHold'
  BY DEF DecommitDone, CancelRequestedGC, SetState, Goto, ZonesHold
<1>5. SweepHolds'
  BY DEF DecommitDone, CancelRequestedGC, SetState, Goto, SweepHolds
<1>6. FreeHolds'
  BY DEF DecommitDone, CancelRequestedGC, SetState, Goto, FreeHolds
<1>7. TasksHold'
  BY DEF DecommitDone, CancelRequestedGC, SetState, Goto, TasksHold
<1>8. SliceHolds'
  BY DEF DecommitDone, CancelRequestedGC, SetState, Goto, SliceHolds, TasksHold
<1>9. CompactHolds'
  BY DEF DecommitDone, CancelRequestedGC, SetState, Goto, CompactHolds
<1> QED BY <1>1, <1>2, <1>3, <1>4, <1>5, <1>6, <1>7, <1>8, <1>9

(* The collection is over. *)
LEMMA FinishCollectionKeeps == ASSUME IndInv, FinishCollection PROVE IndInv'
<1> USE DEF IndInv, TypeOK, GCs, Mains, Frees, Places, Reasons, States, TaskStates,
            ZoneStates
<1>1. TypeOK'
  <2>1. gc' \in GCs
    BY DEF FinishCollection, Slice, Goto, SetZones, ZonesIn
  <2>2. main' \in Mains
    BY DEF FinishCollection, Slice, Goto, SetZones, ZonesIn
  <2> HIDE DEF GCs, Mains, Frees
  <2> QED BY <2>1, <2>2 DEF FinishCollection, Slice, Goto, SetZones, ZonesIn
<1>2. PlaceHolds'
  BY DEF FinishCollection, Slice, Goto, SetZones, ZonesIn, PlaceHolds
<1>3. ZonesHold'
  BY DEF FinishCollection, Slice, Goto, SetZones, ZonesIn, ZonesHold
<1>4. SweepHolds'
  BY DEF FinishCollection, Slice, Goto, SetZones, ZonesIn, SweepHolds
<1>5. AtomsHold'
  BY ListBasics DEF FinishCollection, Slice, Goto, SetZones, ZonesIn, AtomsHold
<1>6. FreeHolds'
  BY DEF FinishCollection, Slice, Goto, SetZones, ZonesIn, FreeHolds
<1>7. TasksHold'
  BY DEF FinishCollection, Slice, Goto, SetZones, ZonesIn, TasksHold
<1>8. SliceHolds'
  BY DEF FinishCollection, Slice, Goto, SetZones, ZonesIn, SliceHolds
<1>9. CompactHolds'
  BY DEF FinishCollection, Slice, Goto, SetZones, ZonesIn, CompactHolds
<1> QED BY <1>1, <1>2, <1>3, <1>4, <1>5, <1>6, <1>7, <1>8, <1>9

(* The main thread stores a request for a collection. *)
LEMMA StoreTriggerKeeps == ASSUME IndInv, StoreTrigger PROVE IndInv'
<1> USE DEF IndInv, TypeOK, GCs, Mains, Frees, Places, Reasons, States, TaskStates,
            ZoneStates
<1>1. TypeOK'
  BY DEF StoreTrigger, Goto
<1>2. AtomsHold'
  BY DEF StoreTrigger, AtomsHold
<1>3. PlaceHolds'
  BY DEF StoreTrigger, Goto, PlaceHolds
<1>4. ZonesHold'
  BY DEF StoreTrigger, Goto, ZonesHold
<1>5. SweepHolds'
  BY DEF StoreTrigger, Goto, SweepHolds
<1>6. FreeHolds'
  BY DEF StoreTrigger, Goto, FreeHolds
<1>7. TasksHold'
  BY DEF StoreTrigger, Goto, TasksHold
<1>8. SliceHolds'
  BY DEF StoreTrigger, Goto, SliceHolds
<1>9. CompactHolds'
  BY DEF StoreTrigger, Goto, CompactHolds
<1> QED BY <1>1, <1>2, <1>3, <1>4, <1>5, <1>6, <1>7, <1>8, <1>9

(* A heap has passed its threshold. *)
LEMMA AllocTriggerKeeps == ASSUME IndInv, AllocTrigger PROVE IndInv'
<1> USE DEF IndInv, TypeOK, GCs, Mains, Frees, Places, Reasons, States, TaskStates,
            ZoneStates
<1>1. TypeOK'
  BY DEF AllocTrigger, Request, Goto
<1>2. AtomsHold'
  BY DEF AllocTrigger, AtomsHold
<1>3. PlaceHolds'
  BY DEF AllocTrigger, Request, Goto, PlaceHolds
<1>4. ZonesHold'
  BY DEF AllocTrigger, Request, Goto, ZonesHold
<1>5. SweepHolds'
  BY DEF AllocTrigger, Request, Goto, SweepHolds
<1>6. FreeHolds'
  BY DEF AllocTrigger, Request, Goto, FreeHolds
<1>7. TasksHold'
  BY DEF AllocTrigger, Request, Goto, TasksHold
<1>8. SliceHolds'
  BY DEF AllocTrigger, Request, Goto, SliceHolds
<1>9. CompactHolds'
  BY DEF AllocTrigger, Request, Goto, CompactHolds
<1> QED BY <1>1, <1>2, <1>3, <1>4, <1>5, <1>6, <1>7, <1>8, <1>9

(* The atoms zone has, while a parse uses it. *)
LEMMA AtomsTriggerKeeps == ASSUME IndInv, AtomsTrigger PROVE IndInv'
<1> USE DEF IndInv, TypeOK, GCs, Mains, Frees, Places, Reasons, States, TaskStates,
            ZoneStates
<1>1. TypeOK'
  <2>1. parse' \in [active : BOOLEAN, atomsGC : BOOLEAN]
    BY DEF AtomsTrigger
  <2> HIDE DEF GCs, Mains, Frees
  <2> QED BY <2>1 DEF AtomsTrigger
<1>2. /\ PlaceHolds' /\ ZonesHold' /\ SweepHolds' /\ AtomsHold' /\ FreeHolds'
      /\ TasksHold' /\ SliceHolds' /\ CompactHolds'
  BY DEF AtomsTrigger, PlaceHolds, ZonesHold, SweepHolds, AtomsHold, FreeHolds, TasksHold,
         SliceHolds, CompactHolds
<1> QED BY <1>1, <1>2

(* An off-thread parse begins. *)
LEMMA StartParseKeeps == ASSUME IndInv, StartParse PROVE IndInv'
<1> USE DEF IndInv, TypeOK, GCs, Mains, Frees, Places, Reasons, States, TaskStates,
            ZoneStates
<1>1. TypeOK'
  <2>1. parse' \in [active : BOOLEAN, atomsGC : BOOLEAN]
    BY DEF StartParse
  <2> HIDE DEF GCs, Mains, Frees
  <2> QED BY <2>1 DEF StartParse
<1>2. /\ PlaceHolds' /\ ZonesHold' /\ SweepHolds' /\ AtomsHold' /\ FreeHolds'
      /\ TasksHold' /\ SliceHolds' /\ CompactHolds'
  BY DEF StartParse, PlaceHolds, ZonesHold, SweepHolds, AtomsHold, FreeHolds, TasksHold,
         SliceHolds, CompactHolds
<1> QED BY <1>1, <1>2

(* An off-thread parse ends, and an atoms collection it held up is requested. *)
LEMMA EndParseKeeps == ASSUME IndInv, EndParse PROVE IndInv'
<1> USE DEF IndInv, TypeOK, GCs, Mains, Frees, Places, Reasons, States, TaskStates,
            ZoneStates
<1>1. TypeOK'
  BY DEF EndParse, Request, Goto
<1>2. AtomsHold'
  BY DEF EndParse, AtomsHold
<1>3. PlaceHolds'
  BY DEF EndParse, Request, Goto, PlaceHolds
<1>4. ZonesHold'
  BY DEF EndParse, Request, Goto, ZonesHold
<1>5. SweepHolds'
  BY DEF EndParse, Request, Goto, SweepHolds
<1>6. FreeHolds'
  BY DEF EndParse, Request, Goto, FreeHolds
<1>7. TasksHold'
  BY DEF EndParse, Request, Goto, TasksHold
<1>8. SliceHolds'
  BY DEF EndParse, Request, Goto, SliceHolds
<1>9. CompactHolds'
  BY DEF EndParse, Request, Goto, CompactHolds
<1> QED BY <1>1, <1>2, <1>3, <1>4, <1>5, <1>6, <1>7, <1>8, <1>9

(* The main thread waits for a task between slices. *)
LEMMA WaitForTaskKeeps == ASSUME IndInv, NEW t \in Tasks, WaitForTask(t) PROVE IndInv'
<1> USE DEF IndInv, TypeOK, GCs, Mains, Frees, Places, Reasons, States, TaskStates,
            ZoneStates
<1>1. TypeOK'
  <2>1. free' \in Frees
    BY FreeTakes, ZenonT(40) DEF WaitForTask, Join, RunFromMainThread, bodyVars
  <2>2. task' \in [Tasks -> TaskStates]
    BY DEF WaitForTask, Join, RunFromMainThread, SetTask, bodyVars
  <2> HIDE DEF GCs, Mains, Frees
  <2>3. /\ backgroundSweepZones' \in Lists /\ toSweep' \subseteq Zones
        /\ requestSlice' \in BOOLEAN /\ majorGCTriggerReason' \in Reasons
    BY ListBasics DEF WaitForTask, Join, RunFromMainThread, bodyVars
  <2> QED BY <2>1, <2>2, <2>3 DEF WaitForTask
<1>2. PlaceHolds' /\ ZonesHold' /\ CompactHolds'
  BY DEF WaitForTask, PlaceHolds, ZonesHold, CompactHolds
<1>3. SweepHolds'
  BY ListBasics DEF WaitForTask, Join, RunFromMainThread, SetTask, bodyVars, SweepHolds
<1>4. AtomsHold'
  BY ListBasics DEF WaitForTask, Join, RunFromMainThread, SetTask, bodyVars, AtomsHold
<1>5. FreeHolds'
  <2>1. /\ task[t] \in {"Idle", "Finished", "Dispatched"}
        /\ task'["free"] = IF t = "free" THEN "Idle" ELSE task["free"]
        /\ (task[t] # "Dispatched" \/ t # "free" => free' = free)
        /\ UNCHANGED <<gc, main, storing>> /\ At("out")
    BY DEF WaitForTask, Join, RunFromMainThread, SetTask, bodyVars
  <2>2. task[t] = "Dispatched" /\ t = "free" => ~free'.lifo /\ ~free'.buffers
    <3>1. task[t] = "Dispatched" /\ t = "free"
            => free' = [free EXCEPT !.lifo = FALSE, !.buffers = FALSE]
      BY DEF WaitForTask, Join, RunFromMainThread
    <3> QED BY <3>1, FreeTakes
  <2> QED BY <2>1, <2>2 DEF FreeHolds
<1>6. TasksHold'
  BY DEF WaitForTask, Join, RunFromMainThread, SetTask, bodyVars, TasksHold
<1>7. SliceHolds'
  BY DEF WaitForTask, Join, RunFromMainThread, SetTask, bodyVars, SliceHolds
<1> QED BY <1>1, <1>2, <1>3, <1>4, <1>5, <1>6, <1>7

(* A zone is created. *)
LEMMA NewZoneKeeps == ASSUME IndInv, NEW z \in Zones, NewZone(z) PROVE IndInv'
<1> USE DEF IndInv, TypeOK, GCs, Mains, Frees, Places, Reasons, States, TaskStates,
            ZoneStates
<1>1. TypeOK'
  BY DEF NewZone
<1>2. PlaceHolds' /\ FreeHolds' /\ TasksHold' /\ SliceHolds' /\ CompactHolds'
  BY DEF NewZone, PlaceHolds, FreeHolds, TasksHold, SliceHolds, CompactHolds
<1>3. ZonesHold'
  BY DEF NewZone, ZonesHold
<1>4. SweepHolds'
  BY DEF NewZone, SweepHolds
<1>5. AtomsHold'
  BY DEF NewZone, AtomsHold
<1> QED BY <1>1, <1>2, <1>3, <1>4, <1>5

(* The head of gcCycle(), called from outside of a collection, from finishGC(), or
   for another cycle at once. *)
LEMMA GcCycleKeeps ==
    ASSUME IndInv, NEW unlimited \in BOOLEAN, NEW reset \in BOOLEAN,
           NEW repeat \in BOOLEAN, main.at \in {"out", "finish", "end"},
           GcCycle(unlimited, reset, repeat)
    PROVE  IndInv'
<1> USE DEF IndInv, TypeOK, GCs, Mains, Frees, Places, Reasons, States, TaskStates,
            ZoneStates
<1>0. /\ main' \in Mains /\ main'.at \in {"nursery", "begin"} /\ main'.then = "begin"
      /\ main'.unlimited = unlimited /\ main'.reset = reset /\ (reset => unlimited)
      /\ gc' \in GCs /\ free' \in Frees /\ free'.buffers = free.buffers
      /\ \/ UNCHANGED <<zone, toCompact, gc, free>>
         \/ Dropped(reset)
      /\ UNCHANGED <<toSweep, taskVars, askVars, rest>>
      /\ main.at \in {"out", "finish", "end"}
  <2>1. /\ main' \in Mains /\ main'.at \in {"nursery", "begin"} /\ main'.then = "begin"
        /\ main'.unlimited = unlimited /\ main'.reset = reset
    BY DEF GcCycle, BudgetIncrementalGC
  <2>2. (reset => unlimited) /\ UNCHANGED <<taskVars, askVars, rest>>
    BY DEF GcCycle, BudgetIncrementalGC
  <2>3. /\ gc' \in GCs /\ free' \in Frees /\ free'.buffers = free.buffers
        /\ UNCHANGED toSweep
        /\ \/ UNCHANGED <<zone, toCompact, gc, free>>
           \/ Dropped(reset)
    <3>1. CASE ~reset
      BY <3>1 DEF GcCycle, BudgetIncrementalGC
    <3>2. CASE reset
      <4>1. ResetIncrementalGC
        BY <3>2 DEF GcCycle, BudgetIncrementalGC
      <4> HIDE DEF IndInv, TypeOK, GCs, Frees
      <4> QED BY <3>2, <4>1, ResetDrops DEF IndInv
    <3> QED BY <3>1, <3>2
  <2> QED BY <2>1, <2>2, <2>3
<1>1. TypeOK'
  <2>1. gc' \in GCs
    BY <1>0
  <2>2. main' \in Mains
    BY <1>0
  <2>3. free' \in Frees
    BY <1>0
  <2> HIDE DEF GCs, Mains, Frees
  <2> QED BY <1>0, <2>1, <2>2, <2>3 DEF ZoneStates, Dropped
<1>2. PlaceHolds'
  BY <1>0 DEF PlaceHolds, ZoneStates, Dropped
<1>3. ZonesHold'
  BY <1>0 DEF ZonesHold, ZoneStates, Dropped, PlaceHolds
<1>4. SweepHolds'
  BY <1>0 DEF SweepHolds, ZoneStates, Dropped, PlaceHolds, ZonesHold
<1>5. AtomsHold'
  BY <1>0 DEF AtomsHold, ZoneStates, Dropped, PlaceHolds, ZonesHold, SweepHolds
<1>6. FreeHolds'
  BY <1>0 DEF FreeHolds, ZoneStates, Dropped, PlaceHolds
<1>7. TasksHold'
  BY <1>0 DEF TasksHold, ZoneStates, Dropped, PlaceHolds
<1>8. SliceHolds'
  BY <1>0 DEF SliceHolds, ZoneStates, Dropped, PlaceHolds
<1>9. CompactHolds'
  BY <1>0 DEF CompactHolds, ZoneStates, Dropped, PlaceHolds
<1> QED BY <1>1, <1>2, <1>3, <1>4, <1>5, <1>6, <1>7, <1>8, <1>9

(* collect() returns. *)
LEMMA ReturnToScriptKeeps == ASSUME IndInv, ReturnToScript PROVE IndInv'
<1> USE DEF IndInv, TypeOK, GCs, Mains, Frees, Places, Reasons, States, TaskStates,
            ZoneStates
<1>1. TypeOK'
  BY DEF ReturnToScript, Out
<1>2. AtomsHold'
  BY DEF ReturnToScript, AtomsHold
<1>3. PlaceHolds'
  BY DEF ReturnToScript, Out, PlaceHolds
<1>4. ZonesHold'
  BY DEF ReturnToScript, Out, ZonesHold
<1>5. SweepHolds'
  BY DEF ReturnToScript, Out, SweepHolds
<1>6. FreeHolds'
  BY DEF ReturnToScript, Out, FreeHolds
<1>7. TasksHold'
  BY DEF ReturnToScript, Out, TasksHold
<1>8. SliceHolds'
  BY DEF ReturnToScript, Out, SliceHolds
<1>9. CompactHolds'
  BY DEF ReturnToScript, Out, CompactHolds, PlaceHolds
<1> QED BY <1>1, <1>2, <1>3, <1>4, <1>5, <1>6, <1>7, <1>8, <1>9

-----------------------------------------------------------------------------
\* The invariant holds in every state.

(* The invariant holds before the first collection. *)
LEMMA InitIndInv == Init => IndInv
<1> SUFFICES ASSUME Init PROVE IndInv
  OBVIOUS
<1> USE DEF Init, Out
<1>1. TypeOK
  BY EmptyList
     DEF TypeOK, GCs, Mains, Frees, Places, Reasons, States, TaskStates, ZoneStates
<1>2. PlaceHolds /\ FreeHolds /\ TasksHold /\ SliceHolds /\ CompactHolds
  BY DEF PlaceHolds, FreeHolds, TasksHold, SliceHolds, CompactHolds
<1>3. ZonesHold /\ SweepHolds /\ AtomsHold
  BY EmptyList, ZonesAssumption DEF ZonesHold, SweepHolds, AtomsHold
<1> QED BY <1>1, <1>2, <1>3 DEF IndInv

(* Every step of the main thread within a collection keeps the invariant. *)
LEMMA CollectorKeeps == ASSUME IndInv, Collector PROVE IndInv'
<1>1. CASE FinishGC
  BY <1>1, GcCycleKeeps DEF FinishGC
<1>2. CASE EndCycle
  <2>1. At("end")
    BY <1>2 DEF EndCycle
  <2>2. CASE \E unlimited \in BOOLEAN : GcCycle(unlimited, FALSE, TRUE)
    BY <2>1, <2>2, GcCycleKeeps
  <2>3. CASE main' = Out /\ UNCHANGED <<heapVars, taskVars, askVars, rest, gc, free>>
    BY <2>1, <2>3, ReturnToScriptKeeps DEF ReturnToScript
  <2> QED BY <1>2, <2>2, <2>3 DEF EndCycle
<1>3. CASE \/ QueueBuffersForFreeAfterMinorGC \/ TransferLifoBlocks
           \/ StartBackgroundFree \/ BeginSlice \/ BeginMarkPhase \/ PurgeRuntime
           \/ MarkSlice \/ BeginSweepingSweepGroup \/ SweepSlice
  BY <1>3, QueueBuffersForFreeAfterMinorGCKeeps, TransferLifoBlocksKeeps,
     StartBackgroundFreeKeeps, BeginSliceKeeps, BeginMarkPhaseKeeps, PurgeRuntimeKeeps,
     MarkSliceKeeps, BeginSweepingSweepGroupKeeps, SweepSliceKeeps
<1>4. CASE \/ QueueZones \/ StartSweep \/ GetNextSweepGroup \/ YieldForTask
           \/ GoOnToJoin \/ JoinTask \/ FinalizeZones
  BY <1>4, QueueZonesKeeps, StartSweepKeeps, GetNextSweepGroupKeeps, YieldForTaskKeeps,
     GoOnToJoinKeeps, JoinTaskKeeps, FinalizeZonesKeeps
<1>5. CASE \/ CompactSlice \/ StartDecommit \/ DecommitDone \/ FinishCollection
           \/ StoreTrigger
  BY <1>5, CompactSliceKeeps, StartDecommitKeeps, DecommitDoneKeeps,
     FinishCollectionKeeps, StoreTriggerKeeps
<1> QED BY <1>1, <1>2, <1>3, <1>4, <1>5 DEF Collector

(* Every step of the mutator keeps the invariant. *)
LEMMA MutatorKeeps == ASSUME IndInv, Mutator PROVE IndInv'
<1>1. CASE Collect \/ AbortGC \/ GcIfRequested
  BY <1>1, GcCycleKeeps DEF Collect, AbortGC, GcIfRequested
<1>2. CASE \/ MinorGC \/ FinishGCNoCompact \/ SkipDelayedAtomsGC \/ AllocTrigger
           \/ AtomsTrigger \/ StartParse \/ EndParse
  BY <1>2, MinorGCKeeps, FinishGCNoCompactKeeps, SkipDelayedAtomsGCKeeps,
     AllocTriggerKeeps, AtomsTriggerKeeps, StartParseKeeps, EndParseKeeps
<1>3. CASE (\E t \in Tasks : WaitForTask(t)) \/ (\E z \in Zones : NewZone(z))
  BY <1>3, WaitForTaskKeeps, NewZoneKeeps
<1> QED BY <1>1, <1>2, <1>3 DEF Mutator

(* Every step of a helper thread keeps the invariant. *)
LEMMA HelperKeeps == ASSUME IndInv, NEW t \in Tasks, Helper(t) PROVE IndInv'
BY TaskBeginKeeps, StoreRequestKeeps, TaskEndKeeps, SweepTaskRoundKeeps,
   SweepTaskLastRoundKeeps, SweepZoneKeeps, FreeTaskRunKeeps, DecommitTaskRunKeeps
   DEF Helper

(* Every step keeps the invariant. *)
LEMMA NextIndInv == IndInv /\ [Next]_vars => IndInv'
<1> SUFFICES ASSUME IndInv, [Next]_vars PROVE IndInv'
  OBVIOUS
<1>1. CASE Next
  BY <1>1, CollectorKeeps, MutatorKeeps, HelperKeeps DEF Next
<1>2. CASE UNCHANGED vars
  BY <1>2 DEF vars, IndInv, TypeOK, PlaceHolds, ZonesHold, SweepHolds, AtomsHold,
              FreeHolds, TasksHold, SliceHolds, CompactHolds
<1> QED BY <1>1, <1>2

(* The inductive invariant holds in every reachable state. *)
THEOREM Invariance == Spec => []IndInv
BY InitIndInv, NextIndInv, PTL DEF Spec

-----------------------------------------------------------------------------
\* The properties.

(* The collector's state and that of its tasks keep their types. *)
THEOREM TypeCorrect == Spec => []TypeOK
<1>1. IndInv => TypeOK
  BY DEF IndInv
<1> QED BY <1>1, Invariance, PTL

(* Zones queued for the sweep task, and blocks and buffers queued for the free  *)
(* task, are never forgotten, however the main thread and the tasks interleave. *)
THEOREM BackgroundWorkComes == Spec => []BackgroundWorkIsComing
<1>1. ASSUME IndInv PROVE BackgroundWorkIsComing
  BY <1>1 DEF IndInv, SweepHolds, FreeHolds, BackgroundWorkIsComing
<1> QED BY <1>1, Invariance, PTL

(* A collection that has yielded to a background task has its next slice      *)
(* coming, unless gcIfRequested() has dropped a request that stood for it.    *)
THEOREM SliceComes == Spec => []SliceIsComing
<1>1. ASSUME IndInv PROVE SliceIsComing
  BY <1>1 DEF IndInv, SliceHolds, SliceIsComing
<1> QED BY <1>1, Invariance, PTL

(* The assertions that background sweeping is over and that the decommit task *)
(* is idle hold where the code makes them, and no zone with the sweep task is *)
(* destroyed.                                                                 *)
THEOREM QuietWhereAsserted == Spec => []BackgroundIsQuiet
<1>1. ASSUME IndInv PROVE BackgroundIsQuiet
  <2> USE <1>1 DEF IndInv
  <2>1. ASSUME gc.state \notin {"Sweep", "Finalize"} PROVE toSweep = {}
    <3>1. ToSet(held) = {} /\ ToSet(backgroundSweepZones) = {}
      BY <2>1, EmptyList DEF SweepHolds
    <3>2. \A z \in Zones : zone[z] # "Sweep"
      BY <2>1 DEF ZonesHold
    <3> QED BY <3>1, <3>2 DEF SweepHolds, TypeOK
  <2>2. ToSet(held \o backgroundSweepZones) \subseteq toSweep \cap ZonesIn("Finished")
    <3>1. held \in Lists /\ backgroundSweepZones \in Lists
      BY DEF TypeOK
    <3>2. ToSet(held \o backgroundSweepZones) \subseteq
             ToSet(held) \cup ToSet(backgroundSweepZones)
      BY <3>1, BothLists
    <3> QED BY <3>1, <3>2, EmptyList DEF SweepHolds, ZonesIn
  <2> QED BY <2>1, <2>2 DEF SweepHolds, TasksHold, BackgroundIsQuiet
<1> QED BY <1>1, Invariance, PTL

(* A slice that begins with a reset ends the collection, and a collection that *)
(* is over leaves no zone and nothing to compact behind.                       *)
THEOREM ResetEnds == Spec => []ResetEndsCollection
<1>1. ASSUME IndInv PROVE ResetEndsCollection
  <2> USE <1>1 DEF IndInv
  <2>1. At("end") /\ main.reset => ~InProgress
    BY DEF PlaceHolds
  <2>2. ASSUME At("end"), ~InProgress, NEW z \in Zones
        PROVE  zone[z] \in {"NoGC", "Freed"}
    <3>1. zone[z] \in ZoneStates
      BY DEF TypeOK
    <3> QED BY <2>2, <3>1 DEF ZonesHold, ZoneStates
  <2> QED BY <2>1, <2>2 DEF CompactHolds, ResetEndsCollection
<1> QED BY <1>1, Invariance, PTL

-----------------------------------------------------------------------------
\* The order of background finalization.

\* A step that takes zones off toSweep is one zone's finalization by the sweep
\* task, or the body of the idle task run by the main thread.
SweepStep ==
    \/ toSweep \subseteq toSweep'
    \/ SweepZone
    \/ toSweep' = toSweep \ ToSet(backgroundSweepZones) /\ task["sweep"] # "Working"

(* The main thread runs the body of a task that no helper is in. *)
LEMMA JoinSweeps ==
    ASSUME NEW t \in Tasks, Join(t)
    PROVE  SweepStep
BY DEF Join, RunFromMainThread, bodyVars, SweepStep

(* Only these steps finalize a zone. *)
LEMMA NextSweeps == ASSUME IndInv, Next PROVE SweepStep
<1>1. CASE Collector
  <2>1. CASE QueueBuffersForFreeAfterMinorGC
    BY <2>1, JoinSweeps DEF QueueBuffersForFreeAfterMinorGC, bodyVars, SweepStep
  <2>2. CASE TransferLifoBlocks \/ BeginSlice \/ BeginMarkPhase \/ PurgeRuntime
    BY <2>2 DEF TransferLifoBlocks, BeginSlice, BeginMarkPhase, PurgeRuntime, SweepStep
  <2>3. CASE StartBackgroundFree
    BY <2>3 DEF StartBackgroundFree, StartOrRunIfIdle, RunFromMainThread, bodyVars,
                SweepStep
  <2>4. CASE FinishGC \/ EndCycle
    BY <2>4 DEF FinishGC, EndCycle, GcCycle, BudgetIncrementalGC,
                 ResetIncrementalGC, SweepStep
  <2>5. CASE MarkSlice
    BY <2>5 DEF MarkSlice, SweepStep
  <2>6. CASE GetNextSweepGroup \/ BeginSweepingSweepGroup
    BY <2>6 DEF GetNextSweepGroup, BeginSweepingSweepGroup, SweepStep
  <2>7. CASE SweepSlice \/ QueueZones \/ YieldForTask \/ GoOnToJoin \/ FinalizeZones
    BY <2>7 DEF SweepSlice, QueueZones, YieldForTask, GoOnToJoin, FinalizeZones, SweepStep
  <2>8. CASE StartSweep
    BY <2>8 DEF StartSweep, RunFromMainThread, bodyVars, SweepStep
  <2>9. CASE JoinTask
    <3>1. Join(TaskOf(gc.state)) /\ TaskOf(gc.state) \in Tasks
      BY <2>9 DEF JoinTask
    <3> QED BY <3>1, JoinSweeps
  <2>10. CASE StartDecommit
    BY <2>10 DEF StartDecommit, RunFromMainThread, bodyVars, SweepStep
  <2>11. CASE CompactSlice \/ DecommitDone \/ FinishCollection \/ StoreTrigger
    BY <2>11 DEF CompactSlice, DecommitDone, FinishCollection, StoreTrigger, SweepStep
  <2> QED BY <1>1, <2>1, <2>2, <2>3, <2>4, <2>5, <2>6, <2>7, <2>8, <2>9, <2>10, <2>11
          DEF Collector
<1>2. CASE Mutator
  <2>1. CASE Collect \/ AbortGC \/ GcIfRequested
    BY <2>1 DEF Collect, AbortGC, GcIfRequested, GcCycle, BudgetIncrementalGC,
                 ResetIncrementalGC, SweepStep
  <2>2. CASE \/ MinorGC \/ FinishGCNoCompact \/ SkipDelayedAtomsGC \/ AllocTrigger
             \/ AtomsTrigger \/ StartParse \/ EndParse
    BY <2>2 DEF MinorGC, FinishGCNoCompact, SkipDelayedAtomsGC, AllocTrigger,
                AtomsTrigger, StartParse, EndParse, SweepStep
  <2>3. CASE \E t \in Tasks : WaitForTask(t)
    BY <2>3, JoinSweeps DEF WaitForTask
  <2>4. CASE \E z \in Zones : NewZone(z)
    BY <2>4 DEF NewZone, SweepStep
  <2> QED BY <1>2, <2>1, <2>2, <2>3, <2>4 DEF Mutator
<1>3. ASSUME NEW t \in Tasks, Helper(t) PROVE SweepStep
  <2>1. CASE SweepZone
    BY <2>1 DEF SweepStep
  <2>2. CASE \/ TaskBegin(t) \/ StoreRequest(t) \/ TaskEnd(t) \/ SweepTaskRound
             \/ SweepTaskLastRound \/ FreeTaskRun \/ DecommitTaskRun
    BY <2>2 DEF TaskBegin, StoreRequest, TaskEnd, SweepTaskRound, SweepTaskLastRound,
                FreeTaskRun, DecommitTaskRun, SweepStep
  <2> QED BY <1>3, <2>1, <2>2 DEF Helper
<1> QED BY <1>1, <1>2, <1>3 DEF Next

(* No step finalizes the atoms zone while another zone is still to be. *)
THEOREM AtomsGoLast == Spec => AtomsSweptLast
<1> DEFINE AtomsLast == (Atoms \in toSweep /\ Atoms \notin toSweep') => (toSweep' = {})
<1>1. ASSUME IndInv, [Next]_vars PROVE [AtomsLast]_vars
  <2> SUFFICES ASSUME Next, Atoms \in toSweep, Atoms \notin toSweep'
               PROVE  toSweep' = {}
    BY <1>1
  <2> USE <1>1 DEF IndInv
  <2>1. SweepStep
    BY NextSweeps
  <2>2. toSweep \subseteq Zones
    BY DEF TypeOK
  <2>3. ASSUME SweepZone PROVE toSweep' = {}
    <3>1. held \in Lists /\ ZoneList(held) /\ held # <<>>
      BY <2>3 DEF TypeOK, AtomsHold, SweepZone
    <3>2. toSweep' = toSweep \ {Head(held)} /\ Head(held) = Atoms
      BY <2>3 DEF SweepZone
    <3>3. ToSet(held) = {Atoms}
      BY <3>1, <3>2, FrontRemoved, EmptyList
    <3>4. ToSet(backgroundSweepZones) = {} /\ \A y \in Zones : zone[y] # "Sweep"
      BY <3>3, EmptyList DEF AtomsHold
    <3> QED BY <2>2, <3>2, <3>3, <3>4 DEF SweepHolds
  <2>4. ASSUME toSweep' = toSweep \ ToSet(backgroundSweepZones), task["sweep"] # "Working"
        PROVE  toSweep' = {}
    <3>1. ToSet(held) = {} /\ Atoms \in ToSet(backgroundSweepZones)
      BY <2>4, EmptyList DEF SweepHolds
    <3>2. \A y \in Zones : zone[y] # "Sweep"
      BY <3>1 DEF AtomsHold
    <3> QED BY <2>2, <2>4, <3>1, <3>2 DEF SweepHolds
  <2> QED BY <2>1, <2>3, <2>4 DEF SweepStep
<1> QED BY <1>1, Invariance, PTL DEF Spec, AtomsSweptLast

=============================================================================
