---------------------------- MODULE ListTheorems ----------------------------
(***************************************************************************)
(* What the code's lists (mozilla::LinkedList, Vector and Fifo, each a     *)
(* sequence in the models) do to what they contain.  No list of the engine *)
(* holds an entry twice; every operation keeps it so.                      *)
(***************************************************************************)
EXTENDS Naturals, Sequences, SequencesExt, SequenceTheorems, WellFoundedInduction, TLAPS

(* An empty list contains nothing. *)
LEMMA ListEmpty ==
    ASSUME NEW S
    PROVE  /\ <<>> \in Seq(S) /\ IsInjective(<<>>)
           /\ \A x : ~Contains(<<>>, x)
BY DEF IsInjective, Contains

(* insertBack(), append() and pushBack() add their entry and no other. *)
LEMMA ListAppend ==
    ASSUME NEW S, NEW s \in Seq(S), NEW x \in S, IsInjective(s), ~Contains(s, x)
    PROVE  /\ Append(s, x) \in Seq(S) /\ Append(s, x) # <<>>
           /\ IsInjective(Append(s, x))
           /\ \A y \in S : Contains(Append(s, x), y) <=> Contains(s, y) \/ y = x
BY DEF IsInjective, Contains

(* popFirst() and popCopyFront() take the first entry and no other. *)
LEMMA ListTail ==
    ASSUME NEW S, NEW s \in Seq(S), IsInjective(s), s # <<>>
    PROVE  /\ Head(s) \in S /\ Tail(s) \in Seq(S)
           /\ IsInjective(Tail(s))
           /\ Contains(s, Head(s))
           /\ \A y \in S : Contains(Tail(s), y) <=> Contains(s, y) /\ y # Head(s)
BY DEF IsInjective, Contains

(* LinkedList::remove() takes an entry out from anywhere in the list. *)
LEMMA ListRemoveAt ==
    ASSUME NEW S, NEW s \in Seq(S), IsInjective(s), NEW i \in 1..Len(s)
    PROVE  /\ RemoveAt(s, i) \in Seq(S)
           /\ IsInjective(RemoveAt(s, i))
           /\ \A y \in S : Contains(RemoveAt(s, i), y) <=> Contains(s, y) /\ y # s[i]
<1> DEFINE r == RemoveAt(s, i)
<1>1. /\ r \in Seq(S)
      /\ Len(r) = Len(s) - 1
      /\ \A j \in 1..Len(r) : r[j] = IF j < i THEN s[j] ELSE s[j + 1]
  <2> DEFINE front == SubSeq(s, 1, i - 1)
             back  == SubSeq(s, i + 1, Len(s))
  <2>1. /\ front \in Seq(S) /\ Len(front) = i - 1
        /\ \A j \in 1..(i - 1) : front[j] = s[j]
    OBVIOUS
  <2>2. /\ back \in Seq(S) /\ Len(back) = Len(s) - i
        /\ \A j \in 1..(Len(s) - i) : back[j] = s[i + j]
    OBVIOUS
  <2> HIDE DEF front, back
  <2>3. /\ front \o back \in Seq(S)
        /\ Len(front \o back) = Len(front) + Len(back)
        /\ \A j \in 1..(Len(front) + Len(back)) : (front \o back)[j] =
                IF j <= Len(front) THEN front[j] ELSE back[j - Len(front)]
    BY <2>1, <2>2, ConcatProperties, Zenon
  <2>4. Len(front) + Len(back) = Len(s) - 1
    BY <2>1, <2>2
  <2>5. r = front \o back
    BY DEF RemoveAt, front, back
  <2>6. ASSUME NEW j \in 1..(Len(s) - 1)
        PROVE  (front \o back)[j] = IF j < i THEN s[j] ELSE s[j + 1]
    <3>1. CASE j < i
      BY <2>1, <2>3, <2>4, <3>1
    <3>2. CASE ~(j < i)
      <4>1. /\ j - (i - 1) \in 1..(Len(s) - i)
            /\ i + (j - (i - 1)) = j + 1
        BY <3>2
      <4>2. back[j - (i - 1)] = s[j + 1]
        BY <2>2, <4>1
      <4> QED BY <2>1, <2>3, <2>4, <3>2, <4>2
    <3> QED BY <3>1, <3>2
  <2> QED BY <2>3, <2>4, <2>5, <2>6
<1> HIDE DEF r
<1>2. IsInjective(r)
  <2> DEFINE at(j) == IF j < i THEN j ELSE j + 1
  <2>1. \A j \in 1..Len(r) : at(j) \in 1..Len(s) /\ r[j] = s[at(j)]
    BY <1>1
  <2>2. \A a, b \in 1..Len(r) : at(a) = at(b) => a = b
    BY <1>1
  <2>3. \A a, b \in 1..Len(s) : s[a] = s[b] => a = b
    BY DEF IsInjective
  <2> HIDE DEF at
  <2>4. \A a, b \in 1..Len(r) : r[a] = r[b] => a = b
    BY <2>1, <2>2, <2>3
  <2> QED BY <1>1, <2>4 DEF IsInjective
<1>3. ASSUME NEW y \in S, Contains(r, y)
      PROVE  Contains(s, y) /\ y # s[i]
  BY <1>1, <1>3 DEF Contains, IsInjective
<1>4. ASSUME NEW y \in S, Contains(s, y), y # s[i]
      PROVE  Contains(r, y)
  <2>1. PICK k \in 1..Len(s) : s[k] = y
    BY <1>4 DEF Contains
  <2>2. CASE k < i
    BY <1>1, <2>1, <2>2 DEF Contains
  <2>3. CASE k > i
    <3>1. k - 1 \in 1..Len(r) /\ r[k - 1] = s[k]
      BY <1>1, <2>3
    <3> QED BY <2>1, <3>1 DEF Contains
  <2> QED BY <1>4, <2>1, <2>2, <2>3
<1> QED BY <1>1, <1>2, <1>3, <1>4 DEF r

(* An entry that unlinks itself is the only one that goes. *)
LEMMA ListRemoveFirst ==
    ASSUME NEW S, NEW s \in Seq(S), IsInjective(s), NEW x \in S, Contains(s, x)
    PROVE  /\ RemoveFirst(s, x) \in Seq(S)
           /\ IsInjective(RemoveFirst(s, x))
           /\ \A y \in S : Contains(RemoveFirst(s, x), y) <=> Contains(s, y) /\ y # x
<1>1. PICK i \in 1..Len(s) : s[i] = x
  BY DEF Contains
<1>2. {j \in 1..Len(s) : s[j] = x} = {i}
  BY <1>1 DEF IsInjective
<1>3. Min({i}) = i
  BY DEF Min
<1>4. SelectInSeq(s, LAMBDA v : v = x) = i
  BY <1>2, <1>3 DEF SelectInSeq
<1>5. RemoveFirst(s, x) = RemoveAt(s, i)
  BY <1>1, <1>4 DEF RemoveFirst
<1> QED BY <1>1, <1>5, ListRemoveAt

(* A walk along a list meets a first entry of any kind that it meets at all. *)
LEMMA LeastElement ==
    ASSUME NEW T \in SUBSET Nat, T # {}
    PROVE  \E x \in T : \A y \in T : x <= y
<1> DEFINE R == OpToRel(<, Nat)
<1>1. IsWellFoundedOn(R, Nat)
  BY NatLessThanWellFounded
<1>2. \A x, y \in Nat : x < y => <<x, y>> \in R
  BY DEF OpToRel
<1> HIDE DEF R
<1>3. \E x \in T : \A y \in T : ~(<<y, x>> \in R)
  BY <1>1, WFMin, Zenon
<1>4. PICK x \in T : \A y \in T : ~(<<y, x>> \in R)
  BY <1>3
<1>5. \A y \in T : ~(y < x)
  BY <1>2, <1>4
<1>6. \A y \in T : x <= y
  BY <1>5
<1> QED BY <1>6

=============================================================================
