---------------------- MODULE SimpleNogoodContainer_proofs ----------------------
(***************************************************************************)
(* Proofs about SimpleNogoodContainer.  Every operation keeps the hash     *)
(* index exact (IndexOK) and loses no nogood that it does not remove; for  *)
(* defragment this is an invariant of its loop (LoopOK), which is proved   *)
(* for any number of rounds.                                               *)
(* The second part is about LearnedNogoods, which keeps such a set: what   *)
(* it learns reaches the solver and the checkers.  Its loops are folds,    *)
(* about which a few facts are proved first.                               *)
(***************************************************************************)
EXTENDS SimpleNogoodContainer, LearnedNogoods, FiniteSetTheorems, WellFoundedInduction, TLAPS

-------------------------------------------------------------------------------
(***************************************************************************)
(* Numbers and sequences.                                                  *)
(***************************************************************************)

\* A nonempty set of natural numbers has a least element.
LEMMA LeastElement == ASSUME NEW S \in SUBSET Nat, S # {}
                      PROVE  Min(S) \in S /\ \A n \in S : Min(S) <= n
<1>1. PICK a \in S : \A b \in S : ~(<<b, a>> \in OpToRel(<, Nat))
  BY NatLessThanWellFounded, WFMin, Zenon
<1>2. ASSUME NEW b \in S PROVE a <= b
  <2>1. ~(b < a)
    BY <1>1 DEF OpToRel
  <2> QED
    BY <2>1
<1> QED
  BY <1>2 DEF Min

\* A nonempty set of natural numbers with a bound has a greatest element.
LEMMA GreatestElement == ASSUME NEW S \in SUBSET Nat, S # {}, NEW b \in Nat, \A n \in S : n <= b
                         PROVE  Max(S) \in S /\ \A n \in S : n <= Max(S)
<1> DEFINE T == {b - n : n \in S}
<1>1. T \in SUBSET Nat /\ T # {}
  <2>1. \A n \in S : n \in Nat /\ n <= b /\ b - n \in Nat
    OBVIOUS
  <2> QED
    BY <2>1
<1>2. Min(T) \in T /\ \A n \in T : Min(T) <= n
  BY <1>1, LeastElement
<1>3. PICK m \in S : Min(T) = b - m
  BY <1>2
<1>4. ASSUME NEW n \in S PROVE n <= m
  <2>1. b - n \in T
    OBVIOUS
  <2>2. b - m <= b - n
    BY <1>2, <1>3, <2>1
  <2> QED
    BY <2>2
<1> QED
  BY <1>4 DEF Max

\* Front drops the last element.
LEMMA FrontShortens == ASSUME NEW T, NEW q \in Seq(T), Len(q) > 0
                       PROVE  /\ Front(q) \in Seq(T)
                              /\ Len(Front(q)) = Len(q) - 1
                              /\ \A i \in 1..(Len(q) - 1) : Front(q)[i] = q[i]
<1>1. Len(q) \in Nat /\ \A i \in 1..Len(q) : q[i] \in T
  OBVIOUS
<1>2. Front(q) = [i \in 1..(Len(q) - 1) |-> q[i]]
  BY <1>1 DEF Front
<1>3. Len(q) - 1 \in Nat /\ \A i \in 1..(Len(q) - 1) : q[i] \in T
  BY <1>1
<1> QED
  BY <1>2, <1>3

\* Truncating a sequence.
LEMMA Truncated == ASSUME NEW T, NEW q \in Seq(T), NEW n \in 0..Len(q)
                   PROVE  /\ SubSeq(q, 1, n) \in Seq(T)
                          /\ Len(SubSeq(q, 1, n)) = n
                          /\ \A i \in 1..n : SubSeq(q, 1, n)[i] = q[i]
<1>1. Len(q) \in Nat /\ n \in Nat /\ \A i \in 1..Len(q) : q[i] \in T
  OBVIOUS
<1>2. SubSeq(q, 1, n) = [i \in 1..n |-> q[i]]
  BY <1>1
<1>3. \A i \in 1..n : q[i] \in T
  BY <1>1
<1> QED
  BY <1>1, <1>2, <1>3

-------------------------------------------------------------------------------
(***************************************************************************)
(* The invariant of a set of nogoods.                                      *)
(***************************************************************************)

NogoodSets == [nogoods : Seq(Nogoods), addCount : Seq(Nat), freeIndices : SUBSET Nat,
               nogoodsWithHash : [Hashes -> SUBSET Nat]]

\* what IndexPointsToUsedSlots says of the container
IndexOK(s) ==
  \A h \in Hashes : \A i \in s.nogoodsWithHash[h] :
    /\ i \in Slots(s) \ s.freeIndices
    /\ HashOf[s.nogoods[i]] = h

SetOK(s) == s \in NogoodSets /\ Len(s.addCount) >= Len(s.nogoods) /\ IndexOK(s)

ContainerOK(s) == SetOK(s) /\ s.freeIndices \subseteq Slots(s)

\* whatever is present in s is present in t
Keeps(s, t) == \A ng \in Nogoods : IsPresent(s, ng) => IsPresent(t, ng)

\* the nogoods in the slots, whether these are free or in use
Held(s) == {s.nogoods[i] : i \in Slots(s)}

\* A slot of the index is a slot in use, with a nogood.
LEMMA PresentSlots == ASSUME NEW s, SetOK(s), NEW ng \in Nogoods, NEW i \in SlotsOf(s, ng)
                      PROVE  /\ i \in Slots(s) \ s.freeIndices
                             /\ i \in s.nogoodsWithHash[HashOf[ng]]
                             /\ s.nogoods[i] = ng
BY DEF SetOK, IndexOK, SlotsOf, Hashes

LEMMA EmptyOK == ASSUME NEW t, NEW c \in Seq(Nat),
                        t = [nogoods |-> <<>>, addCount |-> c, freeIndices |-> {},
                             nogoodsWithHash |-> [h \in Hashes |-> {}]]
                 PROVE  ContainerOK(t) /\ \A ng \in Nogoods : ~IsPresent(t, ng)
<1>1. /\ t.nogoods = <<>> /\ t.addCount = c /\ t.freeIndices = {}
      /\ t.nogoodsWithHash = [h \in Hashes |-> {}]
  OBVIOUS
<1>2. [h \in Hashes |-> {}] \in [Hashes -> SUBSET Nat]
  OBVIOUS
<1>3. t \in NogoodSets
  <2>1. <<>> \in Seq(Nogoods) /\ {} \in SUBSET Nat
    OBVIOUS
  <2> QED
    BY <1>1, <1>2, <2>1 DEF NogoodSets
<1>4. \A ng \in Nogoods : ~IsPresent(t, ng)
  BY <1>1 DEF IsPresent, SlotsOf, Hashes
<1>5. IndexOK(t)
  BY <1>1 DEF IndexOK
<1>6. Len(t.addCount) >= Len(t.nogoods)
  BY <1>1
<1> QED
  BY <1>1, <1>3, <1>4, <1>5, <1>6 DEF ContainerOK, SetOK

\* Adding keeps the index exact and every nogood, and the nogood is there.
LEMMA AddKeeps == ASSUME NEW s, ContainerOK(s), NEW ng \in Nogoods, NEW t, t = AddNogood(s, ng)
                  PROVE  ContainerOK(t) /\ Keeps(s, t) /\ IsPresent(t, ng)
<1>1. /\ s.nogoods \in Seq(Nogoods) /\ s.addCount \in Seq(Nat) /\ s.freeIndices \in SUBSET Nat
      /\ s.nogoodsWithHash \in [Hashes -> SUBSET Nat]
      /\ Len(s.addCount) >= Len(s.nogoods) /\ IndexOK(s) /\ s.freeIndices \subseteq Slots(s)
      /\ Slots(s) = 1..Len(s.nogoods) /\ Len(s.nogoods) \in Nat /\ Len(s.addCount) \in Nat
      /\ s = [nogoods |-> s.nogoods, addCount |-> s.addCount, freeIndices |-> s.freeIndices,
              nogoodsWithHash |-> s.nogoodsWithHash]
  BY DEF ContainerOK, SetOK, NogoodSets, Slots
<1>2. HashOf[ng] \in Hashes
  BY DEF Hashes
<1>3. CASE IsPresent(s, ng)
  <2>1. PICK i \in SlotsOf(s, ng) : t = [s EXCEPT !.addCount[i] = @ + 1]
    BY <1>3 DEF AddNogood, IsPresent
  <2>2. i \in 1..Len(s.nogoods)
    BY <2>1, <1>1, PresentSlots DEF ContainerOK
  <2>3. /\ t.nogoods = s.nogoods /\ t.freeIndices = s.freeIndices
        /\ t.nogoodsWithHash = s.nogoodsWithHash
        /\ t.addCount = [s.addCount EXCEPT ![i] = @ + 1]
        /\ t = [nogoods |-> t.nogoods, addCount |-> t.addCount, freeIndices |-> t.freeIndices,
                nogoodsWithHash |-> t.nogoodsWithHash]
    BY <2>1, <1>1
  <2>4. t.addCount \in Seq(Nat) /\ Len(t.addCount) = Len(s.addCount)
    BY <2>2, <2>3, <1>1
  <2>5. t \in NogoodSets
    BY <2>3, <2>4, <1>1 DEF NogoodSets
  <2>6. IndexOK(t) /\ Slots(t) = Slots(s) /\ \A m : SlotsOf(t, m) = SlotsOf(s, m)
    BY <2>3, <1>1 DEF IndexOK, Slots, SlotsOf
  <2> QED
    BY <2>3, <2>4, <2>5, <2>6, <1>1, <1>3 DEF ContainerOK, SetOK, Keeps, IsPresent
<1>4. ASSUME NEW i \in (Slots(s) \cup {Len(s.nogoods) + 1}) \ {0},
             t.nogoods \in Seq(Nogoods), t.addCount \in Seq(Nat),
             Len(t.addCount) >= Len(t.nogoods),
             Slots(s) \subseteq Slots(t), i \in Slots(t), t.nogoods[i] = ng,
             \A j \in Slots(s) \ {i} : t.nogoods[j] = s.nogoods[j],
             i \in Slots(s) => i \in s.freeIndices,
             t.freeIndices = s.freeIndices \ {i},
             t.nogoodsWithHash = [s.nogoodsWithHash EXCEPT ![HashOf[ng]] = @ \cup {i}],
             t = [nogoods |-> t.nogoods, addCount |-> t.addCount, freeIndices |-> t.freeIndices,
                  nogoodsWithHash |-> t.nogoodsWithHash]
      PROVE  ContainerOK(t) /\ Keeps(s, t) /\ IsPresent(t, ng)
  <2>1. i \in Nat
    BY <1>1
  <2>2. t.nogoodsWithHash \in [Hashes -> SUBSET Nat]
    BY <1>1, <1>2, <1>4, <2>1
  <2>3. t \in NogoodSets
    BY <1>1, <1>4, <2>2 DEF NogoodSets
  <2>4. \A h \in Hashes : \A j \in s.nogoodsWithHash[h] : j # i /\ j \in t.nogoodsWithHash[h]
    BY <1>1, <1>2, <1>4 DEF IndexOK
  <2>5. i \in t.nogoodsWithHash[HashOf[ng]]
    BY <1>1, <1>2, <1>4
  <2>6. ASSUME NEW h \in Hashes, NEW j \in t.nogoodsWithHash[h]
        PROVE  j \in Slots(t) \ t.freeIndices /\ HashOf[t.nogoods[j]] = h
    <3>1. CASE j \in s.nogoodsWithHash[h]
      <4>1. j # i /\ j \in Slots(s) \ s.freeIndices /\ HashOf[s.nogoods[j]] = h
        BY <3>1, <2>4, <1>1 DEF IndexOK
      <4>2. t.nogoods[j] = s.nogoods[j] /\ j \in Slots(t) /\ j \notin t.freeIndices
        BY <4>1, <1>4
      <4> QED
        BY <4>1, <4>2
    <3>2. CASE j \notin s.nogoodsWithHash[h]
      <4>1. h = HashOf[ng] /\ j = i
        BY <3>2, <2>6, <1>1, <1>2, <1>4
      <4> QED
        BY <4>1, <1>4
    <3> QED
      BY <3>1, <3>2
  <2>7. Keeps(s, t)
    <3> SUFFICES ASSUME NEW m \in Nogoods, IsPresent(s, m) PROVE IsPresent(t, m)
      BY DEF Keeps
    <3>1. PICK j \in SlotsOf(s, m) : TRUE
      BY DEF IsPresent
    <3>2. j \in Slots(s) /\ j \in s.nogoodsWithHash[HashOf[m]] /\ s.nogoods[j] = m
      BY <3>1, PresentSlots DEF ContainerOK
    <3>3. j # i /\ j \in t.nogoodsWithHash[HashOf[m]]
      BY <3>2, <2>4 DEF Hashes
    <3> QED
      BY <3>2, <3>3, <1>4 DEF IsPresent, SlotsOf
  <2>8. IsPresent(t, ng)
    BY <2>5, <1>4 DEF IsPresent, SlotsOf
  <2>9. IndexOK(t)
    BY <2>6 DEF IndexOK
  <2> QED
    BY <2>3, <2>7, <2>8, <2>9, <1>1, <1>4 DEF ContainerOK, SetOK
<1>5. CASE ~IsPresent(s, ng) /\ s.freeIndices = {}
  <2> DEFINE i == Len(s.nogoods) + 1
  <2>1. /\ t.nogoods = Append(s.nogoods, ng) /\ t.addCount = Append(s.addCount, 1)
        /\ t.freeIndices = {}
        /\ t.nogoodsWithHash = [s.nogoodsWithHash EXCEPT ![HashOf[ng]] = @ \cup {i}]
        /\ t = [nogoods |-> t.nogoods, addCount |-> t.addCount, freeIndices |-> t.freeIndices,
                nogoodsWithHash |-> t.nogoodsWithHash]
    BY <1>5, <1>1 DEF AddNogood
  <2>2. /\ t.nogoods \in Seq(Nogoods) /\ Len(t.nogoods) = i /\ t.nogoods[i] = ng
        /\ \A j \in 1..Len(s.nogoods) : t.nogoods[j] = s.nogoods[j]
    BY <2>1, <1>1
  <2>3. t.addCount \in Seq(Nat) /\ Len(t.addCount) >= Len(t.nogoods)
    BY <2>1, <1>1
  <2>4. /\ i \in (Slots(s) \cup {Len(s.nogoods) + 1}) \ {0}
        /\ Slots(s) \subseteq Slots(t) /\ i \in Slots(t) /\ i \notin Slots(s)
    BY <2>2, <1>1 DEF Slots
  <2> HIDE DEF i
  <2> QED
    BY <2>1, <2>2, <2>3, <2>4, <1>1, <1>4, <1>5
<1>6. CASE ~IsPresent(s, ng) /\ s.freeIndices # {}
  <2> DEFINE i == Min(s.freeIndices)
  <2>1. i \in s.freeIndices
    BY <1>1, <1>6, LeastElement
  <2>2. /\ t.nogoods = [s.nogoods EXCEPT ![i] = ng] /\ t.addCount = [s.addCount EXCEPT ![i] = 1]
        /\ t.freeIndices = s.freeIndices \ {i}
        /\ t.nogoodsWithHash = [s.nogoodsWithHash EXCEPT ![HashOf[ng]] = @ \cup {i}]
        /\ t = [nogoods |-> t.nogoods, addCount |-> t.addCount, freeIndices |-> t.freeIndices,
                nogoodsWithHash |-> t.nogoodsWithHash]
    BY <1>6, <1>1 DEF AddNogood
  <2> HIDE DEF i
  <2>3. i \in 1..Len(s.nogoods)
    BY <2>1, <1>1
  <2>4. /\ t.nogoods \in Seq(Nogoods) /\ Len(t.nogoods) = Len(s.nogoods) /\ t.nogoods[i] = ng
        /\ \A j \in 1..Len(s.nogoods) : j # i => t.nogoods[j] = s.nogoods[j]
    BY <2>2, <2>3, <1>1
  <2>5. t.addCount \in Seq(Nat) /\ Len(t.addCount) >= Len(t.nogoods)
    BY <2>2, <2>3, <2>4, <1>1
  <2>6. i \in (Slots(s) \cup {Len(s.nogoods) + 1}) \ {0} /\ Slots(t) = Slots(s)
    BY <2>3, <2>4, <1>1 DEF Slots
  <2>7. \A j \in Slots(s) \ {i} : t.nogoods[j] = s.nogoods[j]
    BY <2>4, <1>1
  <2> QED
    BY <2>1, <2>2, <2>3, <2>4, <2>5, <2>6, <2>7, <1>1, <1>4
<1> QED
  BY <1>3, <1>5, <1>6

\* Removing slots keeps the index exact, and every nogood with another slot.
LEMMA RemoveKeeps == ASSUME NEW s, ContainerOK(s), NEW S \in SUBSET Slots(s),
                            NEW t, t = RemoveIndices(s, S)
                     PROVE  /\ ContainerOK(t)
                            /\ \A ng \in Nogoods : SlotsOf(t, ng) = SlotsOf(s, ng) \ S
<1>1. /\ s.nogoods \in Seq(Nogoods) /\ s.addCount \in Seq(Nat) /\ s.freeIndices \in SUBSET Nat
      /\ s.nogoodsWithHash \in [Hashes -> SUBSET Nat]
      /\ Len(s.addCount) >= Len(s.nogoods) /\ IndexOK(s) /\ s.freeIndices \subseteq Slots(s)
      /\ Slots(s) = 1..Len(s.nogoods) /\ Len(s.nogoods) \in Nat /\ Len(s.addCount) \in Nat
      /\ s = [nogoods |-> s.nogoods, addCount |-> s.addCount, freeIndices |-> s.freeIndices,
              nogoodsWithHash |-> s.nogoodsWithHash]
  BY DEF ContainerOK, SetOK, NogoodSets, Slots
<1>2. /\ t.nogoods = s.nogoods
      /\ t.addCount = [i \in DOMAIN s.addCount |-> IF i \in S THEN 0 ELSE s.addCount[i]]
      /\ t.freeIndices = s.freeIndices \cup S
      /\ t.nogoodsWithHash =
           [h \in DOMAIN s.nogoodsWithHash |->
             {i \in s.nogoodsWithHash[h] : ~(i \in S /\ HashOf[s.nogoods[i]] = h)}]
      /\ t = [nogoods |-> t.nogoods, addCount |-> t.addCount, freeIndices |-> t.freeIndices,
              nogoodsWithHash |-> t.nogoodsWithHash]
  BY <1>1 DEF RemoveIndices
<1>3. t.addCount \in Seq(Nat) /\ Len(t.addCount) = Len(s.addCount)
  <2>1. DOMAIN s.addCount = 1..Len(s.addCount) /\ \A i \in 1..Len(s.addCount) : s.addCount[i] \in Nat
    BY <1>1
  <2>2. t.addCount = [i \in 1..Len(s.addCount) |-> IF i \in S THEN 0 ELSE s.addCount[i]]
    BY <1>2, <2>1
  <2>3. \A i \in 1..Len(s.addCount) : (IF i \in S THEN 0 ELSE s.addCount[i]) \in Nat
    BY <2>1
  <2> QED
    BY <1>1, <2>2, <2>3
<1>4. \A h \in Hashes : t.nogoodsWithHash[h] = s.nogoodsWithHash[h] \ S
  <2>1. \A h \in Hashes : \A i \in s.nogoodsWithHash[h] : HashOf[s.nogoods[i]] = h
    BY <1>1 DEF IndexOK
  <2> QED
    BY <1>1, <1>2, <2>1
<1>5. t.nogoodsWithHash \in [Hashes -> SUBSET Nat]
  BY <1>1, <1>2
<1>6. t \in NogoodSets
  <2>1. t.freeIndices \in SUBSET Nat /\ t.nogoods \in Seq(Nogoods)
    BY <1>1, <1>2
  <2> QED
    BY <1>2, <1>3, <1>5, <2>1 DEF NogoodSets
<1>7. IndexOK(t) /\ Slots(t) = Slots(s)
  BY <1>1, <1>2, <1>4 DEF IndexOK, Slots
<1>8. \A ng \in Nogoods : SlotsOf(t, ng) = SlotsOf(s, ng) \ S
  BY <1>2, <1>4 DEF SlotsOf, Hashes
<1> QED
  BY <1>1, <1>2, <1>3, <1>6, <1>7, <1>8 DEF ContainerOK, SetOK

-------------------------------------------------------------------------------
(***************************************************************************)
(* Defragmenting.                                                          *)
(***************************************************************************)

\* the invariant of defragment's loop
LoopOK(l) ==
  /\ l \in [set : NogoodSets, free : Nat \ {0}, used : Nat]
  /\ SetOK(l.set)
  /\ Len(l.set.nogoods) = l.used

\* Dropping free slots from the end drops no slot of the index.
LEMMA DropKeeps == ASSUME NEW l, LoopOK(l), l.used > 0, NEW t, t = DropFreeTail(l)
                   PROVE  /\ LoopOK(t) /\ Keeps(l.set, t.set) /\ Held(t.set) \subseteq Held(l.set)
                          /\ t.used > 0 /\ (t.used = 1 \/ t.used \notin t.set.freeIndices)
<1> DEFINE s == l.set
           S == {i \in 1..l.used : i = 1 \/ i \notin l.set.freeIndices}
           u == Max(S)
<1>1. /\ s.nogoods \in Seq(Nogoods) /\ s.addCount \in Seq(Nat) /\ s.freeIndices \in SUBSET Nat
      /\ s.nogoodsWithHash \in [Hashes -> SUBSET Nat]
      /\ Len(s.addCount) >= Len(s.nogoods) /\ IndexOK(s) /\ Len(s.nogoods) = l.used
      /\ Slots(s) = 1..l.used /\ l.used \in Nat /\ l.free \in Nat \ {0} /\ Len(s.addCount) \in Nat
      /\ l = [set |-> s, free |-> l.free, used |-> l.used]
      /\ s = [nogoods |-> s.nogoods, addCount |-> s.addCount, freeIndices |-> s.freeIndices,
              nogoodsWithHash |-> s.nogoodsWithHash]
  BY DEF LoopOK, SetOK, NogoodSets, Slots
<1>2. u \in S /\ \A i \in S : i <= u
  <2>1. S \in SUBSET Nat /\ 1 \in S /\ \A i \in S : i <= l.used
    BY <1>1
  <2> HIDE DEF S
  <2> QED
    BY <2>1, <1>1, GreatestElement
<1>3. u \in 1..l.used /\ (u = 1 \/ u \notin s.freeIndices)
  BY <1>2
<1>4. \A i \in 1..l.used : i \notin s.freeIndices => i \in 1..u
  BY <1>1, <1>2
<1>5. /\ t = [set |-> t.set, free |-> l.free, used |-> u]
      /\ t.free = l.free /\ t.used = u
      /\ t.set.nogoods = SubSeq(s.nogoods, 1, u)
      /\ t.set.addCount = s.addCount /\ t.set.freeIndices = s.freeIndices
      /\ t.set.nogoodsWithHash = s.nogoodsWithHash
      /\ t.set = [nogoods |-> t.set.nogoods, addCount |-> t.set.addCount,
                  freeIndices |-> t.set.freeIndices, nogoodsWithHash |-> t.set.nogoodsWithHash]
  BY <1>1 DEF DropFreeTail
<1> HIDE DEF u, S
<1>6. /\ t.set.nogoods \in Seq(Nogoods) /\ Len(t.set.nogoods) = u
      /\ \A i \in 1..u : t.set.nogoods[i] = s.nogoods[i]
  <2>1. u \in 0..Len(s.nogoods)
    BY <1>1, <1>3
  <2>2. s.nogoods \in Seq(Nogoods) /\ t.set.nogoods = SubSeq(s.nogoods, 1, u)
    BY <1>1, <1>5
  <2> HIDE DEF s
  <2> QED
    BY <2>1, <2>2, Truncated
<1>7. t.set \in NogoodSets
  BY <1>1, <1>5, <1>6 DEF NogoodSets
<1>8. Slots(t.set) = 1..u
  BY <1>6 DEF Slots
<1>9. \A h \in Hashes : \A i \in s.nogoodsWithHash[h] :
        i \in 1..u /\ i \notin s.freeIndices /\ t.set.nogoods[i] = s.nogoods[i]
  <2> TAKE h \in Hashes
  <2> TAKE i \in s.nogoodsWithHash[h]
  <2>1. i \in 1..l.used /\ i \notin s.freeIndices
    BY <1>1 DEF IndexOK
  <2>2. i \in 1..u
    BY <2>1, <1>4
  <2> QED
    BY <2>1, <2>2, <1>6
<1>10. IndexOK(t.set)
  <2> SUFFICES ASSUME NEW h \in Hashes, NEW i \in t.set.nogoodsWithHash[h]
               PROVE  i \in Slots(t.set) \ t.set.freeIndices /\ HashOf[t.set.nogoods[i]] = h
    BY DEF IndexOK
  <2>1. HashOf[s.nogoods[i]] = h
    BY <1>1, <1>5 DEF IndexOK
  <2> QED
    BY <2>1, <1>5, <1>8, <1>9
<1>11. Keeps(s, t.set)
  <2> SUFFICES ASSUME NEW m \in Nogoods, IsPresent(s, m) PROVE IsPresent(t.set, m)
    BY DEF Keeps
  <2>1. PICK i \in SlotsOf(s, m) : TRUE
    BY DEF IsPresent
  <2>2. i \in s.nogoodsWithHash[HashOf[m]] /\ s.nogoods[i] = m /\ HashOf[m] \in Hashes
    BY <2>1 DEF SlotsOf, Hashes
  <2> QED
    BY <2>2, <1>5, <1>9 DEF IsPresent, SlotsOf
<1>12. Len(t.set.addCount) >= Len(t.set.nogoods)
  BY <1>1, <1>3, <1>5, <1>6
<1>13. t \in [set : NogoodSets, free : Nat \ {0}, used : Nat]
  BY <1>1, <1>3, <1>5, <1>7
<1>14. t.used > 0 /\ (t.used = 1 \/ t.used \notin t.set.freeIndices)
  BY <1>3, <1>5
<1>15. Held(t.set) \subseteq Held(s)
  <2> SUFFICES ASSUME NEW i \in 1..u PROVE t.set.nogoods[i] \in Held(s)
    BY <1>8 DEF Held
  <2>1. i \in Slots(s) /\ t.set.nogoods[i] = s.nogoods[i]
    BY <1>1, <1>3, <1>6
  <2> QED
    BY <2>1 DEF Held
<1> QED
  BY <1>5, <1>6, <1>7, <1>10, <1>11, <1>12, <1>13, <1>14, <1>15 DEF LoopOK, SetOK

\* The next free slot, or the end.
LEMMA NextFreeKeeps == ASSUME NEW l, LoopOK(l), l.used > 0, NEW t, t = NextFree(l)
                       PROVE  /\ LoopOK(t) /\ t.set = l.set /\ t.used = l.used
                              /\ (t.free >= t.used \/ t.free \in t.set.freeIndices)
<1> DEFINE S == {i \in l.free..(l.free + l.used) : i >= l.used \/ i \in l.set.freeIndices}
<1>1. /\ l.used \in Nat /\ l.free \in Nat /\ l.free > 0 /\ Len(l.set.nogoods) = l.used
      /\ l = [set |-> l.set, free |-> l.free, used |-> l.used]
  BY DEF LoopOK
<1>2. t = [set |-> l.set, free |-> Min(S), used |-> l.used]
  BY <1>1 DEF NextFree
<1>3. Min(S) \in S
  <2>1. S \in SUBSET Nat /\ l.free + l.used \in S
    BY <1>1
  <2> HIDE DEF S
  <2> QED
    BY <2>1, LeastElement
<1>4. Min(S) \in Nat \ {0} /\ (Min(S) >= l.used \/ Min(S) \in l.set.freeIndices)
  <2>1. PICK m : m = Min(S)
    OBVIOUS
  <2>2. m \in S
    BY <2>1, <1>3
  <2>3. m \in Nat \ {0} /\ (m >= l.used \/ m \in l.set.freeIndices)
    BY <2>2, <1>1
  <2> QED
    BY <2>1, <2>3
<1> HIDE DEF S
<1> QED
  BY <1>1, <1>2, <1>4 DEF LoopOK

\* Moving the last nogood into a free slot takes its entry in the index along.
LEMMA MoveKeeps == ASSUME NEW l, LoopOK(l), l.used = 1 \/ l.used \notin l.set.freeIndices,
                          l.free >= l.used \/ l.free \in l.set.freeIndices,
                          NEW t, t = MoveUsedToFree(l)
                   PROVE  LoopOK(t) /\ Keeps(l.set, t.set) /\ Held(t.set) \subseteq Held(l.set)
<1>1. CASE l.free >= l.used
  <2>1. t = l
    BY <1>1 DEF MoveUsedToFree
  <2> QED
    BY <2>1 DEF Keeps
<1>2. CASE ~(l.free >= l.used)
  <2> DEFINE s == l.set
             f == l.free
             u == l.used
             ng == s.nogoods[u]
  <2>1. /\ s.nogoods \in Seq(Nogoods) /\ s.addCount \in Seq(Nat) /\ s.freeIndices \in SUBSET Nat
        /\ s.nogoodsWithHash \in [Hashes -> SUBSET Nat]
        /\ Len(s.addCount) >= Len(s.nogoods) /\ IndexOK(s) /\ Len(s.nogoods) = u
        /\ Slots(s) = 1..u /\ u \in Nat /\ f \in Nat /\ f > 0 /\ Len(s.addCount) \in Nat
        /\ s = [nogoods |-> s.nogoods, addCount |-> s.addCount, freeIndices |-> s.freeIndices,
                nogoodsWithHash |-> s.nogoodsWithHash]
    BY DEF LoopOK, SetOK, NogoodSets, Slots
  <2>2. f < u /\ f \in 1..u /\ u \in 1..u /\ f # u /\ f \in s.freeIndices /\ u \notin s.freeIndices
    BY <2>1, <1>2
  <2>3. ng \in Nogoods /\ HashOf[ng] \in Hashes
    BY <2>1, <2>2 DEF Hashes
  <2>4. /\ t = [set |-> t.set, free |-> f + 1, used |-> u - 1]
        /\ t.free = f + 1 /\ t.used = u - 1
        /\ t.set.nogoods = Front([s.nogoods EXCEPT ![f] = ng])
        /\ t.set.addCount = Front([s.addCount EXCEPT ![f] = s.addCount[u]])
        /\ t.set.nogoodsWithHash = [s.nogoodsWithHash EXCEPT ![HashOf[ng]] = (@ \ {u}) \cup {f}]
        /\ t.set.freeIndices = s.freeIndices \ {f}
        /\ t.set = [nogoods |-> t.set.nogoods, addCount |-> t.set.addCount,
                    freeIndices |-> t.set.freeIndices, nogoodsWithHash |-> t.set.nogoodsWithHash]
    BY <1>2, <2>1 DEF MoveUsedToFree
  <2>5. t.used = u - 1 /\ t.free = f + 1 /\ t.used \in Nat /\ t.free \in Nat \ {0} /\ f \in 1..(u - 1)
    <3>1. t.used = u - 1 /\ t.free = f + 1
      BY <2>4
    <3>2. u - 1 \in Nat /\ f + 1 \in Nat \ {0} /\ f \in 1..(u - 1)
      BY <2>1, <2>2
    <3> QED
      BY <3>1, <3>2
  <2> HIDE DEF s, f, u
  <2>6. /\ t.set.nogoods \in Seq(Nogoods) /\ Len(t.set.nogoods) = u - 1 /\ t.set.nogoods[f] = ng
        /\ \A i \in 1..(u - 1) : i # f => t.set.nogoods[i] = s.nogoods[i]
    <3> DEFINE q == [s.nogoods EXCEPT ![f] = ng]
    <3>1. /\ q \in Seq(Nogoods) /\ Len(q) = u /\ Len(q) > 0 /\ q[f] = ng
          /\ \A i \in 1..u : i # f => q[i] = s.nogoods[i]
      BY <2>1, <2>2, <2>3
    <3> HIDE DEF q
    <3>2. Front(q) \in Seq(Nogoods) /\ Len(Front(q)) = u - 1 /\ \A i \in 1..(u - 1) : Front(q)[i] = q[i]
      BY <3>1, FrontShortens
    <3>3. \A i \in 1..(u - 1) : i \in 1..u
      BY <2>1
    <3>4. t.set.nogoods = Front(q)
      BY <2>4 DEF q
    <3> QED
      BY <2>5, <3>1, <3>2, <3>3, <3>4
  <2>7. t.set.addCount \in Seq(Nat) /\ Len(t.set.addCount) = Len(s.addCount) - 1
    <3> DEFINE q == [s.addCount EXCEPT ![f] = s.addCount[u]]
    <3>1. q \in Seq(Nat) /\ Len(q) = Len(s.addCount) /\ Len(q) > 0
      <4>1. u \in 1..Len(s.addCount)
        BY <2>1, <2>2
      <4>2. s.addCount[u] \in Nat
        BY <2>1, <4>1
      <4> QED
        BY <2>1, <2>2, <4>1, <4>2
    <3> HIDE DEF q
    <3>2. Front(q) \in Seq(Nat) /\ Len(Front(q)) = Len(q) - 1
      BY <3>1, FrontShortens
    <3>3. t.set.addCount = Front(q)
      BY <2>4 DEF q
    <3> QED
      BY <3>1, <3>2, <3>3
  <2>8. t.set \in NogoodSets
    <3>1. t.set.nogoodsWithHash \in [Hashes -> SUBSET Nat]
      BY <2>1, <2>3, <2>4
    <3>2. t.set.freeIndices \in SUBSET Nat
      BY <2>1, <2>4
    <3> QED
      BY <2>4, <2>6, <2>7, <3>1, <3>2 DEF NogoodSets
  <2>9. Slots(t.set) = 1..(u - 1)
    BY <2>6 DEF Slots
  <2>10. \A h \in Hashes : \A i \in s.nogoodsWithHash[h] :
           i \in 1..u /\ i \notin s.freeIndices /\ i # f /\ HashOf[s.nogoods[i]] = h
    BY <2>1, <2>2 DEF IndexOK
  <2>11. ASSUME NEW h \in Hashes, NEW i \in s.nogoodsWithHash[h], i # u
         PROVE  /\ i \in t.set.nogoodsWithHash[h] /\ i \in Slots(t.set) \ t.set.freeIndices
                /\ t.set.nogoods[i] = s.nogoods[i]
    <3>1. i \in 1..u /\ i \notin s.freeIndices /\ i # f
      BY <2>10
    <3>2. i \in 1..(u - 1)
      BY <2>1, <2>11, <3>1
    <3>3. i \in t.set.nogoodsWithHash[h]
      BY <2>1, <2>3, <2>4, <2>11
    <3> QED
      BY <2>4, <2>6, <2>9, <3>1, <3>2, <3>3
  <2>12. f \in t.set.nogoodsWithHash[HashOf[ng]] /\ f \in Slots(t.set) \ t.set.freeIndices
    BY <2>1, <2>3, <2>4, <2>5, <2>9
  <2>13. IndexOK(t.set)
    <3> SUFFICES ASSUME NEW h \in Hashes, NEW i \in t.set.nogoodsWithHash[h]
                 PROVE  i \in Slots(t.set) \ t.set.freeIndices /\ HashOf[t.set.nogoods[i]] = h
      BY DEF IndexOK
    <3>1. CASE h = HashOf[ng] /\ i = f
      BY <3>1, <2>6, <2>12
    <3>2. CASE ~(h = HashOf[ng] /\ i = f)
      <4>1. i \in s.nogoodsWithHash[h]
        BY <3>2, <2>1, <2>3, <2>4
      <4>2. i # u
        <5>1. SUFFICES ASSUME i = u PROVE FALSE
          OBVIOUS
        <5>2. h = HashOf[ng]
          BY <4>1, <5>1, <2>10
        <5> QED
          BY <3>2, <5>1, <5>2, <2>1, <2>3, <2>4
      <4>3. HashOf[s.nogoods[i]] = h
        BY <4>1, <2>10
      <4> QED
        BY <4>1, <4>2, <4>3, <2>11
    <3> QED
      BY <3>1, <3>2
  <2>14. Keeps(s, t.set)
    <3> SUFFICES ASSUME NEW m \in Nogoods, IsPresent(s, m) PROVE IsPresent(t.set, m)
      BY DEF Keeps
    <3>1. PICK i \in SlotsOf(s, m) : TRUE
      BY DEF IsPresent
    <3>2. i \in s.nogoodsWithHash[HashOf[m]] /\ s.nogoods[i] = m /\ HashOf[m] \in Hashes
      BY <3>1 DEF SlotsOf, Hashes
    <3>3. CASE i = u
      <4>1. m = ng
        BY <3>2, <3>3
      <4> QED
        BY <4>1, <2>6, <2>12 DEF IsPresent, SlotsOf
    <3>4. CASE i # u
      BY <3>2, <3>4, <2>11 DEF IsPresent, SlotsOf
    <3> QED
      BY <3>3, <3>4
  <2>15. Len(t.set.addCount) >= Len(t.set.nogoods)
    BY <2>1, <2>6, <2>7
  <2>16. t \in [set : NogoodSets, free : Nat \ {0}, used : Nat]
    BY <2>4, <2>5, <2>8
  <2>17. LoopOK(t)
    BY <2>5, <2>6, <2>8, <2>13, <2>15, <2>16 DEF LoopOK, SetOK
  <2>18. Held(t.set) \subseteq Held(s)
    <3> SUFFICES ASSUME NEW i \in 1..(u - 1) PROVE t.set.nogoods[i] \in Held(s)
      BY <2>9 DEF Held
    <3>1. i \in Slots(s) /\ u \in Slots(s)
      BY <2>1, <2>2
    <3>2. t.set.nogoods[i] = s.nogoods[i] \/ t.set.nogoods[i] = s.nogoods[u]
      BY <2>6
    <3> QED
      BY <3>1, <3>2 DEF Held
  <2> QED
    BY <2>14, <2>17, <2>18 DEF s
<1> QED
  BY <1>1, <1>2

\* A round of the loop.
LEMMA RoundKeeps == ASSUME NEW l, LoopOK(l), NEW t, t = DefragmentStep(l)
                    PROVE  LoopOK(t) /\ Keeps(l.set, t.set) /\ Held(t.set) \subseteq Held(l.set)
<1>1. CASE ~(l.free < l.used)
  <2>1. t = l
    BY <1>1 DEF DefragmentStep
  <2> QED
    BY <2>1 DEF Keeps
<1>2. CASE l.free < l.used
  <2>1. PICK a : a = DropFreeTail(l)
    OBVIOUS
  <2>2. PICK b : b = NextFree(a)
    OBVIOUS
  <2>3. l.used > 0
    BY <1>2 DEF LoopOK
  <2>4. /\ LoopOK(a) /\ Keeps(l.set, a.set) /\ Held(a.set) \subseteq Held(l.set)
        /\ a.used > 0 /\ (a.used = 1 \/ a.used \notin a.set.freeIndices)
    BY <2>1, <2>3, DropKeeps
  <2>5. LoopOK(b) /\ b.set = a.set /\ b.used = a.used /\ (b.free >= b.used \/ b.free \in b.set.freeIndices)
    BY <2>2, <2>4, NextFreeKeeps
  <2>6. t = MoveUsedToFree(b)
    BY <1>2, <2>1, <2>2 DEF DefragmentStep
  <2>7. b.used = 1 \/ b.used \notin b.set.freeIndices
    BY <2>4, <2>5
  <2>8. LoopOK(t) /\ Keeps(b.set, t.set) /\ Held(t.set) \subseteq Held(b.set)
    BY <2>5, <2>6, <2>7, MoveKeeps
  <2> QED
    BY <2>4, <2>5, <2>8 DEF Keeps
<1> QED
  BY <1>1, <1>2
\* The rounds of the loop, as a function of their number.
RoundsOf(s, n, g) ==
  g = [k \in 0..n |-> IF k = 0 THEN [set |-> s, free |-> 1, used |-> Len(s.nogoods)]
                      ELSE DefragmentStep(g[k - 1])]

\* The recursive definition of the loop has a solution.
LEMMA RoundsExist == ASSUME NEW s PROVE \A n \in Nat : \E g : RoundsOf(s, n, g)
<1> DEFINE start == [set |-> s, free |-> 1, used |-> Len(s.nogoods)]
           S == {n \in Nat : ~\E g : RoundsOf(s, n, g)}
<1> SUFFICES S = {}
  OBVIOUS
<1> SUFFICES ASSUME S # {} PROVE FALSE
  OBVIOUS
<1>1. PICK n \in S : \A k \in S : ~(<<k, n>> \in OpToRel(<, Nat))
  BY NatLessThanWellFounded, WFMin, Zenon
<1>2. n \in Nat /\ \A k \in S : ~(k < n)
  BY <1>1 DEF OpToRel
<1>3. CASE n = 0
  <2> DEFINE g == [k \in 0..n |-> start]
  <2>1. g = [k \in 0..n |-> IF k = 0 THEN start ELSE DefragmentStep(g[k - 1])]
    <3>1. \A k \in 0..n : k = 0
      BY <1>3
    <3> QED
      BY <3>1
  <2>2. RoundsOf(s, n, g)
    BY <2>1 DEF RoundsOf
  <2> QED
    BY <2>2
<1>4. CASE n # 0
  <2>1. n - 1 \in Nat /\ n - 1 < n
    BY <1>2, <1>4
  <2>2. PICK h : RoundsOf(s, n - 1, h)
    BY <1>2, <2>1
  <2> DEFINE g == [k \in 0..n |-> IF k = n THEN DefragmentStep(h[n - 1]) ELSE h[k]]
             round(k) == IF k = 0 THEN start ELSE DefragmentStep(g[k - 1])
  <2>3. \A k \in 0..(n - 1) : h[k] = IF k = 0 THEN start ELSE DefragmentStep(h[k - 1])
    BY <2>2 DEF RoundsOf
  <2>4. ASSUME NEW k \in 0..n PROVE g[k] = round(k)
    <3>1. CASE k = n
      <4>1. n - 1 \in 0..n /\ n - 1 # n
        BY <1>2, <1>4
      <4>2. g[n - 1] = h[n - 1]
        BY <4>1
      <4> QED
        BY <1>4, <3>1, <4>2
    <3>2. CASE k # n /\ k = 0
      <4>1. 0 \in 0..(n - 1)
        BY <2>1
      <4> QED
        BY <2>3, <3>2, <4>1
    <3>3. CASE k # n /\ k # 0
      <4>1. k \in 0..(n - 1) /\ k - 1 \in 0..n /\ k - 1 # n
        BY <1>2, <3>3
      <4>2. g[k - 1] = h[k - 1] /\ g[k] = h[k]
        BY <3>3, <4>1
      <4> QED
        BY <2>3, <3>3, <4>1, <4>2
    <3> QED
      BY <3>1, <3>2, <3>3
  <2>5. g = [k \in 0..n |-> round(k)]
    <3>1. g = [k \in 0..n |-> g[k]]
      OBVIOUS
    <3> HIDE DEF g
    <3> QED
      BY <2>4, <3>1
  <2>6. RoundsOf(s, n, g)
    BY <2>5 DEF RoundsOf
  <2> QED
    BY <2>6
<1> QED
  BY <1>3, <1>4

\* The invariant holds after every number of rounds, and nothing is lost.
LEMMA LoopKeeps == ASSUME NEW s, ContainerOK(s)
                   PROVE  \A k \in 0..Len(s.nogoods) :
                            /\ LoopOK(DefragmentLoop(s)[k]) /\ Keeps(s, DefragmentLoop(s)[k].set)
                            /\ Held(DefragmentLoop(s)[k].set) \subseteq Held(s)
<1> DEFINE n == Len(s.nogoods)
           g == DefragmentLoop(s)
           Kept(l) == LoopOK(l) /\ Keeps(s, l.set) /\ Held(l.set) \subseteq Held(s)
           S == {k \in 0..n : ~Kept(g[k])}
<1>1. s \in NogoodSets /\ SetOK(s) /\ n \in Nat
  BY DEF ContainerOK, SetOK, NogoodSets
<1>2. RoundsOf(s, n, g)
  <2>1. g = CHOOSE h : RoundsOf(s, n, h)
    BY DEF DefragmentLoop, RoundsOf
  <2>2. \E h : RoundsOf(s, n, h)
    BY <1>1, RoundsExist
  <2> HIDE DEF g, n
  <2> QED
    BY <2>1, <2>2
<1>3. /\ g[0] = [set |-> s, free |-> 1, used |-> n]
      /\ \A k \in 1..n : g[k] = DefragmentStep(g[k - 1])
  <2> HIDE DEF g
  <2>1. \A k \in 0..n : g[k] = IF k = 0 THEN [set |-> s, free |-> 1, used |-> n]
                                 ELSE DefragmentStep(g[k - 1])
    BY <1>2 DEF RoundsOf
  <2>2. 0 \in 0..n /\ \A k \in 1..n : k \in 0..n /\ k # 0
    BY <1>1
  <2> QED
    BY <2>1, <2>2
<1> HIDE DEF g, n
<1> SUFFICES S = {}
  BY DEF n, g
<1> SUFFICES ASSUME S # {} PROVE FALSE
  OBVIOUS
<1>4. PICK k \in S : \A j \in S : ~(<<j, k>> \in OpToRel(<, Nat))
  <2>1. S \in SUBSET Nat
    BY <1>1
  <2> HIDE DEF S
  <2> QED
    BY <2>1, NatLessThanWellFounded, WFMin, Zenon
<1>5. k \in 0..n /\ \A j \in S : ~(j < k)
  <2>1. \A j \in S : j \in Nat
    BY <1>1
  <2>2. k \in Nat
    BY <2>1, <1>4
  <2> QED
    BY <2>1, <2>2, <1>4 DEF OpToRel
<1>6. ~Kept(g[k])
  BY <1>4
<1>7. CASE k = 0
  <2>1. g[k] = [set |-> s, free |-> 1, used |-> n]
    BY <1>3, <1>7
  <2>2. LoopOK(g[k])
    BY <1>1, <2>1 DEF LoopOK, n
  <2>3. Keeps(s, g[k].set) /\ Held(g[k].set) \subseteq Held(s)
    BY <2>1 DEF Keeps
  <2> QED
    BY <1>6, <2>2, <2>3
<1>8. CASE k # 0
  <2>1. k \in 1..n /\ k - 1 \in 0..n /\ k - 1 < k
    BY <1>1, <1>5, <1>8
  <2>2. Kept(g[k - 1])
    BY <1>5, <2>1
  <2>3. PICK l, t : l = g[k - 1] /\ t = g[k]
    OBVIOUS
  <2>4. t = DefragmentStep(l)
    BY <1>3, <2>1, <2>3
  <2>5. LoopOK(t) /\ Keeps(l.set, t.set) /\ Held(t.set) \subseteq Held(l.set)
    BY <2>2, <2>3, <2>4, RoundKeeps
  <2> QED
    BY <1>6, <2>2, <2>3, <2>5 DEF Keeps
<1> QED
  BY <1>7, <1>8

\* Defragmenting keeps the index exact, loses no nogood and leaves no slot free.
LEMMA DefragmentKeeps == ASSUME NEW s, ContainerOK(s), NEW t, t = Defragment(s)
                         PROVE  /\ ContainerOK(t) /\ Keeps(s, t)
                                /\ t.freeIndices = {} /\ Held(t) \subseteq Held(s)
<1>1. CASE s.freeIndices = {}
  BY <1>1 DEF Defragment, Keeps
<1>2. CASE s.freeIndices # {}
  <2>1. PICK l : l = DefragmentLoop(s)[Len(s.nogoods)]
    OBVIOUS
  <2>2. Len(s.nogoods) \in 0..Len(s.nogoods)
    BY DEF ContainerOK, SetOK, NogoodSets
  <2>3. LoopOK(l) /\ Keeps(s, l.set) /\ Held(l.set) \subseteq Held(s)
    BY <2>1, <2>2, LoopKeeps
  <2>4. t = [l.set EXCEPT !.freeIndices = {}]
    BY <1>2, <2>1 DEF Defragment
  <2>5. PICK u : u = l.set
    OBVIOUS
  <2>6. u \in NogoodSets /\ Len(u.addCount) >= Len(u.nogoods) /\ IndexOK(u)
    BY <2>3, <2>5 DEF LoopOK, SetOK
  <2>7. /\ t.nogoods = u.nogoods /\ t.addCount = u.addCount /\ t.freeIndices = {}
        /\ t.nogoodsWithHash = u.nogoodsWithHash /\ t \in NogoodSets
    BY <2>4, <2>5, <2>6 DEF NogoodSets
  <2>8. IndexOK(t) /\ Held(t) = Held(u) /\ \A ng : SlotsOf(t, ng) = SlotsOf(u, ng)
    BY <2>6, <2>7 DEF IndexOK, Held, Slots, SlotsOf
  <2> QED
    BY <2>3, <2>5, <2>6, <2>7, <2>8 DEF ContainerOK, SetOK, Keeps, IsPresent
<1> QED
  BY <1>1, <1>2

-------------------------------------------------------------------------------
(***************************************************************************)
(* The container.                                                          *)
(***************************************************************************)

\* the inductive invariant
ContainerInv == ContainerOK(ngg) /\ added \in [Nogoods -> Nat] /\ NothingIsLost

LEMMA ContainerInit == Init => ContainerInv
<1> SUFFICES ASSUME Init PROVE ContainerInv
  OBVIOUS
<1>1. ContainerOK(ngg)
  <2>1. <<>> \in Seq(Nat)
    OBVIOUS
  <2>2. ngg = [nogoods |-> <<>>, addCount |-> <<>>, freeIndices |-> {},
               nogoodsWithHash |-> [h \in Hashes |-> {}]]
    BY DEF Init, EmptyNogoodSet
  <2> QED
    BY <2>1, <2>2, EmptyOK
<1>2. added \in [Nogoods -> Nat] /\ NothingIsLost
  BY DEF Init, NothingIsLost
<1> QED
  BY <1>1, <1>2 DEF ContainerInv

LEMMA ContainerStep == ContainerInv /\ [Next]_vars => ContainerInv'
<1> SUFFICES ASSUME ContainerInv, [Next]_vars PROVE ContainerInv'
  OBVIOUS
<1> USE DEF ContainerInv
<1>1. ASSUME NEW ng \in Nogoods, CallAdd(ng) PROVE ContainerInv'
  <2>1. ngg' = AddNogood(ngg, ng) /\ added' = [added EXCEPT ![ng] = @ + 1]
    BY <1>1 DEF CallAdd
  <2>2. ContainerOK(ngg') /\ Keeps(ngg, ngg') /\ IsPresent(ngg', ng)
    BY <2>1, AddKeeps
  <2>3. added' \in [Nogoods -> Nat] /\ \A m \in Nogoods : m # ng => added'[m] = added[m]
    BY <2>1
  <2> QED
    BY <2>2, <2>3 DEF NothingIsLost, Keeps
<1>2. ASSUME NEW ng \in Nogoods, CallRemove(ng) PROVE ContainerInv'
  <2>1. ngg' = RemoveNogood(ngg, ng) /\ added' = [added EXCEPT ![ng] = 0]
    BY <1>2 DEF CallRemove
  <2>2. added' \in [Nogoods -> Nat] /\ added'[ng] = 0 /\ \A m \in Nogoods : m # ng => added'[m] = added[m]
    BY <2>1
  <2>3. CASE ~IsPresent(ngg, ng)
    <3>1. ngg' = ngg
      BY <2>1, <2>3 DEF RemoveNogood
    <3> QED
      BY <2>2, <3>1 DEF NothingIsLost
  <2>4. CASE IsPresent(ngg, ng)
    <3>1. PICK i \in SlotsOf(ngg, ng) : ngg' = RemoveIndices(ngg, {i})
      BY <2>1, <2>4 DEF RemoveNogood, RemoveIndex, IsPresent
    <3>2. i \in Slots(ngg) /\ ngg.nogoods[i] = ng
      BY PresentSlots DEF ContainerOK
    <3>3. /\ ContainerOK(ngg')
          /\ \A m \in Nogoods : SlotsOf(ngg', m) = SlotsOf(ngg, m) \ {i}
      BY <3>1, <3>2, RemoveKeeps
    <3>4. \A m \in Nogoods : m # ng => i \notin SlotsOf(ngg, m)
      BY <3>2 DEF SlotsOf
    <3>5. \A m \in Nogoods : m # ng /\ IsPresent(ngg, m) => IsPresent(ngg', m)
      BY <3>3, <3>4 DEF IsPresent
    <3>6. NothingIsLost'
      BY <2>2, <3>5 DEF NothingIsLost
    <3> QED
      BY <2>2, <3>3, <3>6
  <2> QED
    BY <2>3, <2>4
<1>3. CASE ForgetRare
  <2>1. PICK s : s = Forget(ngg)
    OBVIOUS
  <2>2. ngg' = Defragment(s) /\ added' = [ng \in Nogoods |-> IF IsPresent(s, ng) THEN added[ng] ELSE 0]
    BY <1>3, <2>1 DEF ForgetRare, ForgetLeastFrequentlyAdded
  <2>3. \E S \in SUBSET Slots(ngg) : s = RemoveIndices(ngg, S)
    BY <2>1 DEF Forget
  <2>4. ContainerOK(s)
    BY <2>3, RemoveKeeps
  <2>5. ContainerOK(ngg') /\ Keeps(s, ngg')
    BY <2>2, <2>4, DefragmentKeeps
  <2>6. added' \in [Nogoods -> Nat] /\ \A m \in Nogoods : added'[m] > 0 => IsPresent(s, m)
    BY <2>2
  <2> QED
    BY <2>5, <2>6 DEF NothingIsLost, Keeps
<1>4. CASE ClearAll
  <2>1. /\ ngg' = [nogoods |-> <<>>, addCount |-> ngg.addCount, freeIndices |-> {},
                   nogoodsWithHash |-> [h \in Hashes |-> {}]]
        /\ added' = [ng \in Nogoods |-> 0]
    BY <1>4 DEF ClearAll, Clear, EmptyNogoodSet
  <2>2. ngg.addCount \in Seq(Nat)
    BY DEF ContainerOK, SetOK, NogoodSets
  <2>3. ContainerOK(ngg')
    BY <2>1, <2>2, EmptyOK
  <2> QED
    BY <2>1, <2>3 DEF NothingIsLost
<1>5. CASE UNCHANGED vars
  BY <1>5 DEF vars, NothingIsLost
<1> QED
  BY <1>1, <1>2, <1>3, <1>4, <1>5 DEF Next

LEMMA ContainerAlways == Spec => []ContainerInv
BY ContainerInit, ContainerStep, PTL DEF Spec

\* Every state of a container has the declared type.
THEOREM TypeCorrect == Spec => []TypeOK
<1>1. ContainerInv => TypeOK
  BY DEF ContainerInv, ContainerOK, SetOK, NogoodSets, TypeOK
<1> QED
  BY <1>1, ContainerAlways, PTL

\* The hash index points only to slots in use with a nogood of that hash, after
\* any sequence of calls: what defragment asserts.
THEOREM IndexIsExact == Spec => []IndexPointsToUsedSlots
<1>1. ContainerInv => IndexPointsToUsedSlots
  BY DEF ContainerInv, ContainerOK, SetOK, IndexOK, IndexPointsToUsedSlots
<1> QED
  BY <1>1, ContainerAlways, PTL

\* A nogood that was added and not removed or forgotten since is found.
THEOREM NothingIsEverLost == Spec => []NothingIsLost
<1>1. ContainerInv => NothingIsLost
  BY DEF ContainerInv
<1> QED
  BY <1>1, ContainerAlways, PTL
-------------------------------------------------------------------------------
(***************************************************************************)
(* Additions and removals keep the slots exact.                            *)
(***************************************************************************)

Used(s)  == Slots(s) \ s.freeIndices
Known(a) == {ng \in Nogoods : a[ng] > 0}

\* SlotsAreExact, of any set and any history
Exact(s, a) ==
  /\ Len(s.addCount) = Len(s.nogoods)
  /\ \A ng \in Nogoods : \A i \in SlotsOf(s, ng) : s.addCount[i] = a[ng]
  /\ \A i \in Used(s) : i \in SlotsOf(s, s.nogoods[i])
  /\ GetNogoodCount(s) = Cardinality(Known(a))

\* The number of nogoods is the number of slots in use.
LEMMA CountOfUsed == ASSUME NEW s, ContainerOK(s)
                     PROVE  IsFiniteSet(Used(s)) /\ Cardinality(Used(s)) = GetNogoodCount(s)
<1>1. Len(s.nogoods) \in Nat /\ s.freeIndices \subseteq Slots(s) /\ Slots(s) = 1..Len(s.nogoods)
  BY DEF ContainerOK, SetOK, NogoodSets, Slots
<1>2. IsFiniteSet(Slots(s)) /\ Cardinality(Slots(s)) = Len(s.nogoods)
  <2>1. 0 \in Int /\ 1 \in Int /\ Len(s.nogoods) \in Int
    BY <1>1
  <2>2. /\ IsFiniteSet(1..Len(s.nogoods))
        /\ Cardinality(1..Len(s.nogoods)) = IF 1 > Len(s.nogoods) THEN 0 ELSE Len(s.nogoods) - 1 + 1
    BY <2>1, FS_Interval
  <2> QED
    BY <1>1, <2>2
<1>3. Slots(s) \cap s.freeIndices = s.freeIndices
  BY <1>1
<1>4. /\ IsFiniteSet(Slots(s) \ s.freeIndices)
      /\ Cardinality(Slots(s) \ s.freeIndices) =
           Cardinality(Slots(s)) - Cardinality(Slots(s) \cap s.freeIndices)
  BY <1>2, FS_Difference
<1> QED
  BY <1>2, <1>3, <1>4 DEF Used, GetNogoodCount

\* In an exact set every slot in use holds a known nogood, and no two of them
\* the same one.
LEMMA ExactSlots == ASSUME NEW s, ContainerOK(s), NEW a \in [Nogoods -> Nat], Exact(s, a),
                           \A ng \in Nogoods : a[ng] > 0 => IsPresent(s, ng)
                    PROVE  /\ IsFiniteSet(Known(a))
                           /\ \A i \in Used(s) : s.nogoods[i] \in Known(a)
                           /\ \A i, j \in Used(s) : s.nogoods[i] = s.nogoods[j] => i = j
<1> DEFINE U == Used(s)
           B == {s.nogoods[i] : i \in U}
           n == Cardinality(U)
<1>1. IsFiniteSet(U) /\ n \in Nat /\ n = Cardinality(Known(a))
  <2>1. IsFiniteSet(U) /\ n = GetNogoodCount(s)
    BY CountOfUsed
  <2> QED
    BY <2>1, FS_CardinalityType DEF Exact
<1>2. ASSUME NEW V \in SUBSET U, B = {s.nogoods[i] : i \in V}
      PROVE  IsFiniteSet(B) /\ Cardinality(B) <= Cardinality(V)
  <2> DEFINE f == [i \in V |-> s.nogoods[i]]
  <2>1. f \in Surjection(V, B)
    BY <1>2 DEF Surjection
  <2>2. IsFiniteSet(V)
    BY <1>1, FS_Subset
  <2> HIDE DEF f, B
  <2> QED
    BY <2>1, <2>2, FS_Surjection
<1>3. IsFiniteSet(B) /\ Cardinality(B) <= n
  BY <1>2
<1>4. Known(a) \subseteq B
  <2> SUFFICES ASSUME NEW ng \in Known(a) PROVE ng \in B
    OBVIOUS
  <2>1. ng \in Nogoods /\ IsPresent(s, ng)
    BY DEF Known
  <2>2. PICK i \in SlotsOf(s, ng) : TRUE
    BY <2>1 DEF IsPresent
  <2>3. i \in U /\ s.nogoods[i] = ng
    BY <2>1, <2>2, PresentSlots DEF ContainerOK, Used
  <2> QED
    BY <2>3
<1>5. IsFiniteSet(Known(a)) /\ Known(a) = B /\ Cardinality(B) = n
  <2> HIDE DEF B, U, n
  <2>1. IsFiniteSet(Known(a)) /\ Cardinality(Known(a)) <= Cardinality(B)
    BY <1>3, <1>4, FS_Subset
  <2>2. Cardinality(B) \in Nat
    BY <1>3, FS_CardinalityType
  <2>3. Cardinality(B) = n
    BY <1>1, <1>3, <2>1, <2>2
  <2> QED
    BY <1>1, <1>3, <1>4, <2>1, <2>3, FS_Subset
<1>6. ASSUME NEW i \in U, NEW j \in U, s.nogoods[i] = s.nogoods[j], i # j PROVE FALSE
  <2>1. B = {s.nogoods[k] : k \in U \ {i}}
    <3>1. j \in U \ {i}
      BY <1>6
    <3> HIDE DEF U
    <3> QED
      BY <1>6, <3>1
  <2>2. Cardinality(U \ {i}) = n - 1
    BY <1>1, FS_RemoveElement
  <2>3. Cardinality(B) <= Cardinality(U \ {i})
    BY <1>2, <2>1
  <2> QED
    BY <1>1, <1>5, <2>2, <2>3
<1> QED
  BY <1>5, <1>6

\* The first three parts of Exact are kept by adding and by removing, and the
\* slots in use and the known nogoods change together.
LEMMA AddStaysExact == ASSUME NEW s, ContainerOK(s), NEW a \in [Nogoods -> Nat], Exact(s, a),
                              \A m \in Nogoods : a[m] > 0 => IsPresent(s, m),
                              NEW ng \in Nogoods, NEW t, t = AddNogood(s, ng),
                              NEW b, b = [a EXCEPT ![ng] = @ + 1]
                       PROVE  Exact(t, b)
<1>1. /\ s.nogoods \in Seq(Nogoods) /\ s.addCount \in Seq(Nat) /\ s.freeIndices \in SUBSET Nat
      /\ s.nogoodsWithHash \in [Hashes -> SUBSET Nat]
      /\ IndexOK(s) /\ s.freeIndices \subseteq Slots(s)
      /\ Slots(s) = 1..Len(s.nogoods) /\ Len(s.nogoods) \in Nat
      /\ Len(s.addCount) = Len(s.nogoods)
      /\ s = [nogoods |-> s.nogoods, addCount |-> s.addCount, freeIndices |-> s.freeIndices,
              nogoodsWithHash |-> s.nogoodsWithHash]
  BY DEF ContainerOK, SetOK, NogoodSets, Slots, Exact
<1>2. /\ IsFiniteSet(Known(a))
      /\ \A i \in Used(s) : s.nogoods[i] \in Known(a)
      /\ \A i, j \in Used(s) : s.nogoods[i] = s.nogoods[j] => i = j
  BY ExactSlots
<1>3. /\ \A m \in Nogoods : \A i \in SlotsOf(s, m) :
           i \in Used(s) /\ s.nogoods[i] = m /\ s.addCount[i] = a[m]
      /\ \A i \in Used(s) : i \in SlotsOf(s, s.nogoods[i])
  BY PresentSlots DEF Exact, ContainerOK, Used
<1>4. /\ b \in [Nogoods -> Nat] /\ b[ng] = a[ng] + 1 /\ b[ng] > 0
      /\ \A m \in Nogoods : m # ng => b[m] = a[m]
  <2>1. a[ng] \in Nat
    OBVIOUS
  <2>2. a[ng] + 1 \in Nat /\ a[ng] + 1 > 0
    BY <2>1
  <2> QED
    BY <2>2
<1>5. Known(b) = Known(a) \cup {ng}
  BY <1>4 DEF Known
<1>6. HashOf[ng] \in Hashes
  BY DEF Hashes
<1>7. ContainerOK(t)
  BY AddKeeps
<1>8. IsFiniteSet(Used(s)) /\ Cardinality(Used(s)) = Cardinality(Known(a))
  BY CountOfUsed DEF Exact
<1>9. CASE IsPresent(s, ng)
  <2>1. PICK i \in SlotsOf(s, ng) : t = [s EXCEPT !.addCount[i] = @ + 1]
    BY <1>9 DEF AddNogood, IsPresent
  <2>2. i \in Used(s) /\ i \in 1..Len(s.nogoods) /\ s.nogoods[i] = ng /\ s.addCount[i] = a[ng]
    BY <2>1, <1>1, <1>3 DEF Used
  <2>3. /\ t.nogoods = s.nogoods /\ t.freeIndices = s.freeIndices
        /\ t.nogoodsWithHash = s.nogoodsWithHash
        /\ t.addCount = [s.addCount EXCEPT ![i] = @ + 1]
    BY <2>1, <1>1
  <2>4. /\ Len(t.addCount) = Len(t.nogoods) /\ t.addCount[i] = a[ng] + 1
        /\ \A j \in 1..Len(s.nogoods) : j # i => t.addCount[j] = s.addCount[j]
    BY <2>2, <2>3, <1>1
  <2>5. Used(t) = Used(s) /\ GetNogoodCount(t) = GetNogoodCount(s) /\ \A m : SlotsOf(t, m) = SlotsOf(s, m)
    BY <2>3 DEF Used, Slots, SlotsOf, GetNogoodCount
  <2>6. Known(b) = Known(a)
    <3>1. ng \in Known(a)
      BY <2>2, <1>2
    <3> QED
      BY <3>1, <1>5
  <2>7. ASSUME NEW m \in Nogoods, NEW j \in SlotsOf(t, m) PROVE t.addCount[j] = b[m]
    <3>1. j \in Used(s) /\ j \in 1..Len(s.nogoods) /\ s.nogoods[j] = m /\ s.addCount[j] = a[m]
      BY <2>5, <1>1, <1>3 DEF Used
    <3>2. CASE j = i
      BY <3>1, <3>2, <2>2, <2>4, <1>4
    <3>3. CASE j # i
      <4>1. m # ng
        BY <3>1, <3>3, <2>2, <1>2
      <4> QED
        BY <4>1, <3>1, <3>3, <2>4, <1>4
    <3> QED
      BY <3>2, <3>3
  <2> QED
    BY <2>3, <2>4, <2>5, <2>6, <2>7 DEF Exact
<1>10. ASSUME ~IsPresent(s, ng), NEW i \in Nat, i \notin Used(s),
              Len(t.addCount) = Len(t.nogoods),
              t.nogoods[i] = ng, t.addCount[i] = 1,
              \A j \in Used(s) : t.nogoods[j] = s.nogoods[j] /\ t.addCount[j] = s.addCount[j],
              Used(t) = Used(s) \cup {i},
              t.nogoodsWithHash = [s.nogoodsWithHash EXCEPT ![HashOf[ng]] = @ \cup {i}]
       PROVE  Exact(t, b)
  <2>1. a[ng] = 0 /\ ng \notin Known(a)
    <3>1. a[ng] \in Nat /\ ~(a[ng] > 0)
      BY <1>10
    <3> QED
      BY <3>1 DEF Known
  <2>2. Cardinality(Used(t)) = Cardinality(Known(b))
    <3>1. Cardinality(Used(s) \cup {i}) = Cardinality(Used(s)) + 1
      BY <1>8, <1>10, FS_AddElement
    <3>2. Cardinality(Known(a) \cup {ng}) = Cardinality(Known(a)) + 1
      BY <1>2, <2>1, FS_AddElement
    <3> QED
      BY <1>5, <1>8, <1>10, <3>1, <3>2
  <2>3. GetNogoodCount(t) = Cardinality(Known(b))
    BY <1>7, <2>2, CountOfUsed
  <2>4. \A h \in Hashes : s.nogoodsWithHash[h] \subseteq t.nogoodsWithHash[h]
    BY <1>1, <1>6, <1>10
  <2>5. ASSUME NEW m \in Nogoods, NEW j \in SlotsOf(t, m) PROVE t.addCount[j] = b[m]
    <3>1. j \in Used(t) /\ t.nogoods[j] = m
      BY <1>7, PresentSlots DEF ContainerOK, Used
    <3>2. CASE j = i
      BY <3>1, <3>2, <2>1, <1>4, <1>10
    <3>3. CASE j # i
      <4>1. j \in Used(s) /\ s.nogoods[j] = m
        BY <3>1, <3>3, <1>10
      <4>2. j \in SlotsOf(s, m) /\ m \in Known(a)
        BY <4>1, <1>2, <1>3
      <4>3. s.addCount[j] = a[m] /\ m # ng
        BY <4>2, <1>3, <2>1
      <4> QED
        BY <4>1, <4>3, <1>4, <1>10
    <3> QED
      BY <3>2, <3>3
  <2>6. ASSUME NEW j \in Used(t) PROVE j \in SlotsOf(t, t.nogoods[j])
    <3>1. CASE j = i
      BY <3>1, <1>1, <1>6, <1>10 DEF SlotsOf
    <3>2. CASE j # i
      <4>1. j \in Used(s) /\ t.nogoods[j] = s.nogoods[j]
        BY <3>2, <1>10
      <4>2. j \in s.nogoodsWithHash[HashOf[s.nogoods[j]]] /\ s.nogoods[j] \in Nogoods
        BY <4>1, <1>2, <1>3 DEF SlotsOf, Known
      <4> QED
        BY <4>1, <4>2, <2>4 DEF SlotsOf, Hashes
    <3> QED
      BY <3>1, <3>2
  <2> QED
    BY <1>10, <2>3, <2>5, <2>6 DEF Exact
<1>11. CASE ~IsPresent(s, ng) /\ s.freeIndices = {}
  <2> DEFINE i == Len(s.nogoods) + 1
  <2>1. /\ t.nogoods = Append(s.nogoods, ng) /\ t.addCount = Append(s.addCount, 1)
        /\ t.freeIndices = {}
        /\ t.nogoodsWithHash = [s.nogoodsWithHash EXCEPT ![HashOf[ng]] = @ \cup {i}]
    BY <1>11, <1>1 DEF AddNogood
  <2>2. /\ Len(t.nogoods) = i /\ t.nogoods[i] = ng /\ Len(t.addCount) = i /\ t.addCount[i] = 1
        /\ \A j \in 1..Len(s.nogoods) :
             t.nogoods[j] = s.nogoods[j] /\ t.addCount[j] = s.addCount[j]
    BY <2>1, <1>1
  <2>3. i \in Nat /\ 1..i = 1..Len(s.nogoods) \cup {i} /\ i \notin 1..Len(s.nogoods)
    <3>1. \A n \in Nat : 1..(n + 1) = 1..n \cup {n + 1} /\ n + 1 \notin 1..n /\ n + 1 \in Nat
      <4> TAKE n \in Nat
      <4>1. \A j : j \in 1..(n + 1) <=> j \in 1..n \/ j = n + 1
        OBVIOUS
      <4>2. 1..(n + 1) = 1..n \cup {n + 1}
        BY <4>1
      <4>3. n + 1 \notin 1..n /\ n + 1 \in Nat
        OBVIOUS
      <4> QED
        BY <4>2, <4>3
    <3> QED
      BY <1>1, <3>1
  <2>4. Used(s) = 1..Len(s.nogoods) /\ Used(t) = 1..i
    BY <1>1, <1>11, <2>1, <2>2 DEF Used, Slots
  <2> HIDE DEF i
  <2> QED
    BY <1>10, <1>11, <2>1, <2>2, <2>3, <2>4
<1>12. CASE ~IsPresent(s, ng) /\ s.freeIndices # {}
  <2> DEFINE i == Min(s.freeIndices)
  <2>1. i \in s.freeIndices
    BY <1>1, <1>12, LeastElement
  <2>2. /\ t.nogoods = [s.nogoods EXCEPT ![i] = ng] /\ t.addCount = [s.addCount EXCEPT ![i] = 1]
        /\ t.freeIndices = s.freeIndices \ {i}
        /\ t.nogoodsWithHash = [s.nogoodsWithHash EXCEPT ![HashOf[ng]] = @ \cup {i}]
    BY <1>12, <1>1 DEF AddNogood
  <2> HIDE DEF i
  <2>3. i \in 1..Len(s.nogoods) /\ i \in Nat
    BY <2>1, <1>1
  <2>4. /\ Len(t.nogoods) = Len(s.nogoods) /\ t.nogoods[i] = ng
        /\ Len(t.addCount) = Len(s.nogoods) /\ t.addCount[i] = 1
        /\ \A j \in 1..Len(s.nogoods) :
             j # i => t.nogoods[j] = s.nogoods[j] /\ t.addCount[j] = s.addCount[j]
    BY <2>2, <2>3, <1>1
  <2>5. i \notin Used(s) /\ Used(t) = Used(s) \cup {i}
    BY <2>1, <2>2, <2>3, <2>4, <1>1 DEF Used, Slots
  <2>6. \A j \in Used(s) : t.nogoods[j] = s.nogoods[j] /\ t.addCount[j] = s.addCount[j]
    BY <2>4, <2>5, <1>1 DEF Used
  <2> QED
    BY <1>10, <1>12, <2>2, <2>3, <2>4, <2>5, <2>6
<1> QED
  BY <1>9, <1>11, <1>12

LEMMA RemoveStaysExact == ASSUME NEW s, ContainerOK(s), NEW a \in [Nogoods -> Nat], Exact(s, a),
                                 \A m \in Nogoods : a[m] > 0 => IsPresent(s, m),
                                 NEW ng \in Nogoods, NEW t, t = RemoveNogood(s, ng),
                                 NEW b, b = [a EXCEPT ![ng] = 0]
                          PROVE  Exact(t, b)
<1>1. /\ s.nogoods \in Seq(Nogoods) /\ s.addCount \in Seq(Nat) /\ s.freeIndices \in SUBSET Nat
      /\ Slots(s) = 1..Len(s.nogoods) /\ Len(s.nogoods) \in Nat
      /\ Len(s.addCount) = Len(s.nogoods)
      /\ s = [nogoods |-> s.nogoods, addCount |-> s.addCount, freeIndices |-> s.freeIndices,
              nogoodsWithHash |-> s.nogoodsWithHash]
  BY DEF ContainerOK, SetOK, NogoodSets, Slots, Exact
<1>2. /\ IsFiniteSet(Known(a))
      /\ \A i \in Used(s) : s.nogoods[i] \in Known(a)
      /\ \A i, j \in Used(s) : s.nogoods[i] = s.nogoods[j] => i = j
  BY ExactSlots
<1>3. /\ \A m \in Nogoods : \A i \in SlotsOf(s, m) :
           i \in Used(s) /\ s.nogoods[i] = m /\ s.addCount[i] = a[m]
      /\ \A i \in Used(s) : i \in SlotsOf(s, s.nogoods[i])
  BY PresentSlots DEF Exact, ContainerOK, Used
<1>4. b \in [Nogoods -> Nat] /\ b[ng] = 0 /\ \A m \in Nogoods : m # ng => b[m] = a[m]
  OBVIOUS
<1>5. Known(b) = Known(a) \ {ng}
  BY <1>4 DEF Known
<1>6. CASE ~IsPresent(s, ng)
  <2>1. a[ng] = 0
    <3>1. a[ng] \in Nat /\ ~(a[ng] > 0)
      BY <1>6
    <3> QED
      BY <3>1
  <2>2. t = s /\ b = a
    BY <1>4, <1>6, <2>1 DEF RemoveNogood
  <2> QED
    BY <2>2
<1>7. CASE IsPresent(s, ng)
  <2>1. PICK i \in SlotsOf(s, ng) : t = RemoveIndices(s, {i})
    BY <1>7 DEF RemoveNogood, RemoveIndex, IsPresent
  <2>2. i \in Used(s) /\ s.nogoods[i] = ng /\ i \in Slots(s)
    BY <1>3 DEF Used
  <2>3. ContainerOK(t) /\ \A m \in Nogoods : SlotsOf(t, m) = SlotsOf(s, m) \ {i}
    BY <2>1, <2>2, RemoveKeeps
  <2>4. /\ t.nogoods = s.nogoods /\ t.freeIndices = s.freeIndices \cup {i}
        /\ t.addCount = [j \in DOMAIN s.addCount |-> IF j \in {i} THEN 0 ELSE s.addCount[j]]
    BY <1>1, <2>1 DEF RemoveIndices
  <2>5. /\ DOMAIN s.addCount = 1..Len(s.nogoods)
        /\ \A j \in 1..Len(s.nogoods) : s.addCount[j] \in Nat
    BY <1>1
  <2>6. Len(t.addCount) = Len(t.nogoods) /\ \A j \in Slots(s) \ {i} : t.addCount[j] = s.addCount[j]
    <3>1. t.addCount = [j \in 1..Len(s.nogoods) |-> IF j = i THEN 0 ELSE s.addCount[j]]
      BY <2>4, <2>5
    <3>2. \A j \in 1..Len(s.nogoods) : (IF j = i THEN 0 ELSE s.addCount[j]) \in Nat
      BY <2>5
    <3> QED
      BY <1>1, <2>4, <3>1, <3>2
  <2>7. Used(t) = Used(s) \ {i}
    BY <2>4 DEF Used, Slots
  <2>8. Cardinality(Used(t)) = Cardinality(Known(b))
    <3>1. IsFiniteSet(Used(s)) /\ Cardinality(Used(s)) = Cardinality(Known(a))
      BY CountOfUsed DEF Exact
    <3>2. ng \in Known(a)
      BY <1>2, <2>2
    <3>3. Cardinality(Used(s) \ {i}) = Cardinality(Used(s)) - 1
      BY <2>2, <3>1, FS_RemoveElement
    <3>4. Cardinality(Known(a) \ {ng}) = Cardinality(Known(a)) - 1
      BY <1>2, <3>2, FS_RemoveElement
    <3> QED
      BY <1>5, <2>7, <3>1, <3>3, <3>4
  <2>9. GetNogoodCount(t) = Cardinality(Known(b))
    BY <2>3, <2>8, CountOfUsed
  <2>10. ASSUME NEW m \in Nogoods, NEW j \in SlotsOf(t, m) PROVE t.addCount[j] = b[m]
    <3>1. j \in SlotsOf(s, m) /\ j # i
      BY <2>3
    <3>2. j \in Used(s) /\ s.nogoods[j] = m /\ s.addCount[j] = a[m]
      BY <1>3, <3>1
    <3>3. m # ng
      BY <1>2, <2>2, <3>1, <3>2
    <3>4. j \in Slots(s) \ {i}
      BY <3>1, <3>2 DEF Used
    <3> QED
      BY <1>4, <2>6, <3>2, <3>3, <3>4
  <2>11. ASSUME NEW j \in Used(t) PROVE j \in SlotsOf(t, t.nogoods[j])
    <3>1. j \in Used(s) /\ j # i /\ t.nogoods[j] = s.nogoods[j]
      BY <2>4, <2>7
    <3>2. s.nogoods[j] \in Nogoods /\ j \in SlotsOf(s, s.nogoods[j])
      BY <1>2, <1>3, <3>1 DEF Known
    <3> QED
      BY <2>3, <3>1, <3>2
  <2> QED
    BY <2>6, <2>9, <2>10, <2>11 DEF Exact
<1> QED
  BY <1>6, <1>7

\* While the counts belong to the slots, additions and removals keep the slots
\* exact: one slot for each present nogood, with its true count.
THEOREM CallsStayExact == Spec => SlotsStayExact
<1>1. SlotsAreExact = Exact(ngg, added) /\ SlotsAreExact' = Exact(ngg, added)'
  BY DEF SlotsAreExact, Exact, Used, Known
<1>2. ASSUME ContainerInv, [Next]_vars
      PROVE  [(SlotsAreExact /\ \E ng \in Nogoods : CallAdd(ng) \/ CallRemove(ng))
                => SlotsAreExact']_vars
  <2> SUFFICES ASSUME SlotsAreExact, NEW ng \in Nogoods, CallAdd(ng) \/ CallRemove(ng)
               PROVE  Exact(ngg', added')
    BY <1>1 DEF Exact, Used, Known, SlotsAreExact
  <2>1. /\ ContainerOK(ngg) /\ added \in [Nogoods -> Nat] /\ Exact(ngg, added)
        /\ \A m \in Nogoods : added[m] > 0 => IsPresent(ngg, m)
    BY <1>1, <1>2 DEF ContainerInv, NothingIsLost
  <2>2. CASE CallAdd(ng)
    <3>1. ngg' = AddNogood(ngg, ng) /\ added' = [added EXCEPT ![ng] = @ + 1]
      BY <2>2 DEF CallAdd
    <3> QED
      BY <2>1, <3>1, AddStaysExact
  <2>3. CASE CallRemove(ng)
    <3>1. ngg' = RemoveNogood(ngg, ng) /\ added' = [added EXCEPT ![ng] = 0]
      BY <2>3 DEF CallRemove
    <3> QED
      BY <2>1, <3>1, RemoveStaysExact
  <2> QED
    BY <2>2, <2>3
<1> QED
  BY <1>2, ContainerAlways, PTL DEF Spec, SlotsStayExact

-------------------------------------------------------------------------------
(***************************************************************************)
(* Folds.  The recursive function of a fold has a solution, and each       *)
(* solution stays in every set that the base is in and the steps do not    *)
(* leave.                                                                  *)
(***************************************************************************)

Pick(X) == CHOOSE x \in X : TRUE

\* One element less, and a smaller cardinality.
LEMMA PickLess == ASSUME NEW S, IsFiniteSet(S), NEW X \in SUBSET S, X # {}
                  PROVE  /\ Pick(X) \in X /\ X \ {Pick(X)} \in SUBSET S
                         /\ Cardinality(X) \in Nat /\ Cardinality(X \ {Pick(X)}) \in Nat
                         /\ Cardinality(X \ {Pick(X)}) < Cardinality(X)
<1>1. Pick(X) \in X
  BY DEF Pick
<1>2. IsFiniteSet(X) /\ Cardinality(X) \in Nat
  BY FS_Subset, FS_CardinalityType
<1>3. IsFiniteSet(X \ {Pick(X)}) /\ Cardinality(X \ {Pick(X)}) = Cardinality(X) - 1
  BY <1>1, <1>2, FS_RemoveElement
<1>4. Cardinality(X \ {Pick(X)}) \in Nat
  BY <1>3, FS_CardinalityType
<1> QED
  BY <1>1, <1>2, <1>3, <1>4

LEMMA FoldStays == ASSUME NEW S, IsFiniteSet(S), NEW T, NEW g, g[{}] \in T,
                          \A X \in SUBSET S : X # {} /\ g[X \ {Pick(X)}] \in T => g[X] \in T
                   PROVE  g[S] \in T
<1> DEFINE Bad  == {X \in SUBSET S : g[X] \notin T}
           Size == {Cardinality(X) : X \in Bad}
<1> SUFFICES ASSUME Bad # {} PROVE FALSE
  OBVIOUS
<1>1. Size \in SUBSET Nat /\ Size # {}
  <2>1. \A X \in SUBSET S : Cardinality(X) \in Nat
    BY FS_Subset, FS_CardinalityType
  <2> QED
    BY <2>1
<1>2. Min(Size) \in Size /\ \A n \in Size : Min(Size) <= n
  <2> HIDE DEF Size
  <2> QED
    BY <1>1, LeastElement
<1>3. PICK X \in Bad : \A Y \in Bad : Cardinality(X) <= Cardinality(Y)
  <2>1. PICK X \in Bad : Min(Size) = Cardinality(X)
    BY <1>2
  <2>2. \A Y \in Bad : Cardinality(Y) \in Size
    OBVIOUS
  <2> HIDE DEF Bad, Size
  <2> QED
    BY <1>2, <2>1, <2>2
<1>4. X \in SUBSET S /\ X # {} /\ g[X] \notin T
  BY <1>3
<1>5. /\ X \ {Pick(X)} \in SUBSET S /\ Cardinality(X) \in Nat /\ Cardinality(X \ {Pick(X)}) \in Nat
      /\ Cardinality(X \ {Pick(X)}) < Cardinality(X)
  BY <1>4, PickLess
<1>6. X \ {Pick(X)} \in Bad
  BY <1>4, <1>5
<1> QED
  BY <1>3, <1>5, <1>6

\* the equation of a fold, for the subsets with at most n elements
UpTo(S, n) == {X \in SUBSET S : Cardinality(X) <= n}
FoldOf(S, n, base, step, g) ==
  g = [X \in UpTo(S, n) |-> IF X = {} THEN base ELSE step[<<Pick(X), g[X \ {Pick(X)}]>>]]

LEMMA FoldExists == ASSUME NEW S, IsFiniteSet(S), NEW base, NEW step
                    PROVE  \A n \in Nat : \E g : FoldOf(S, n, base, step, g)
<1> DEFINE Bad == {n \in Nat : ~\E g : FoldOf(S, n, base, step, g)}
<1> SUFFICES ASSUME Bad # {} PROVE FALSE
  OBVIOUS
<1>1. Bad \in SUBSET Nat
  OBVIOUS
<1>2. Min(Bad) \in Bad /\ \A n \in Bad : Min(Bad) <= n
  <2> HIDE DEF Bad
  <2> QED
    BY <1>1, LeastElement
<1>3. PICK n \in Nat : /\ ~\E g : FoldOf(S, n, base, step, g)
                       /\ n # 0 => \E g : FoldOf(S, n - 1, base, step, g)
  <2>1. \A m \in Bad : m \in Nat
    BY <1>1
  <2>2. Min(Bad) # 0 => Min(Bad) - 1 \in Nat /\ ~(Min(Bad) <= Min(Bad) - 1)
    BY <1>2, <2>1
  <2>3. Min(Bad) # 0 => Min(Bad) - 1 \notin Bad
    BY <1>2, <2>2
  <2> QED
    BY <1>2, <2>2, <2>3
<1>4. {} \in UpTo(S, n)
  BY FS_EmptySet DEF UpTo
<1>5. CASE n = 0
  <2>1. \A X \in UpTo(S, 0) : X = {}
    <3> SUFFICES ASSUME NEW X \in UpTo(S, 0), X # {} PROVE FALSE
      OBVIOUS
    <3>1. Cardinality(X) <= 0 /\ Cardinality(X) \in Nat /\ Cardinality(X \ {Pick(X)}) \in Nat
          /\ Cardinality(X \ {Pick(X)}) < Cardinality(X)
      BY PickLess DEF UpTo
    <3> QED
      BY <3>1
  <2>2. FoldOf(S, 0, base, step, [X \in UpTo(S, 0) |-> base])
    BY <2>1 DEF FoldOf
  <2> QED
    BY <1>3, <1>5, <2>2
<1>6. CASE n # 0
  <2>1. PICK h : FoldOf(S, n - 1, base, step, h)
    BY <1>3, <1>6
  <2> DEFINE value(X) == IF X = {} THEN base ELSE step[<<Pick(X), h[X \ {Pick(X)}]>>]
             g == [X \in UpTo(S, n) |-> value(X)]
  <2>2. \A X \in UpTo(S, n - 1) : h[X] = value(X)
    BY <2>1 DEF FoldOf
  <2>3. \A X \in UpTo(S, n) : X # {} => X \ {Pick(X)} \in UpTo(S, n - 1) /\ X \ {Pick(X)} \in UpTo(S, n)
    <3> SUFFICES ASSUME NEW X \in UpTo(S, n), X # {}
                 PROVE  X \ {Pick(X)} \in UpTo(S, n - 1) /\ X \ {Pick(X)} \in UpTo(S, n)
      OBVIOUS
    <3>1. X \in SUBSET S /\ Cardinality(X) <= n
      BY DEF UpTo
    <3>2. /\ X \ {Pick(X)} \in SUBSET S /\ Cardinality(X) \in Nat /\ Cardinality(X \ {Pick(X)}) \in Nat
          /\ Cardinality(X \ {Pick(X)}) < Cardinality(X)
      BY <3>1, PickLess
    <3>3. Cardinality(X \ {Pick(X)}) <= n - 1 /\ Cardinality(X \ {Pick(X)}) <= n
      BY <3>1, <3>2
    <3> QED
      BY <3>2, <3>3 DEF UpTo
  <2>4. \A X \in UpTo(S, n) : g[X] = value(X)
    OBVIOUS
  <2>5. \A X \in UpTo(S, n) : X # {} => g[X \ {Pick(X)}] = h[X \ {Pick(X)}]
    <3> HIDE DEF value, g
    <3> QED
      BY <2>2, <2>3, <2>4
  <2>6. \A X \in UpTo(S, n) : value(X) = IF X = {} THEN base ELSE step[<<Pick(X), g[X \ {Pick(X)}]>>]
    <3> HIDE DEF g
    <3> QED
      BY <2>5
  <2>7. FoldOf(S, n, base, step, g)
    <3> DEFINE again(X) == IF X = {} THEN base ELSE step[<<Pick(X), g[X \ {Pick(X)}]>>]
    <3>1. \A X \in UpTo(S, n) : value(X) = again(X)
      BY <2>6
    <3> HIDE DEF value, again
    <3>2. g = [X \in UpTo(S, n) |-> again(X)]
      BY <3>1
    <3> QED
      BY <3>2 DEF FoldOf, again
  <2> QED
    BY <1>3, <2>7
<1> QED
  BY <1>5, <1>6

Folds(S, base, step, g) ==
  g = [X \in SUBSET S |-> IF X = {} THEN base ELSE step[<<Pick(X), g[X \ {Pick(X)}]>>]]

\* A fold of steps that do not leave a set has a solution with values in this set.
LEMMA FoldWithin == ASSUME NEW S, IsFiniteSet(S), NEW T, NEW base \in T, NEW step \in [S \X T -> T]
                    PROVE  \E g \in [SUBSET S -> T] : Folds(S, base, step, g)
<1>1. PICK n \in Nat : n = Cardinality(S)
  BY FS_CardinalityType
<1>2. UpTo(S, n) = SUBSET S
  BY <1>1, FS_Subset DEF UpTo
<1>3. PICK g : FoldOf(S, n, base, step, g)
  BY FoldExists
<1>4. /\ DOMAIN g = SUBSET S /\ g[{}] = base
      /\ \A X \in SUBSET S : X # {} => g[X] = step[<<Pick(X), g[X \ {Pick(X)}]>>]
  BY <1>2, <1>3 DEF FoldOf
<1>5. ASSUME NEW X \in SUBSET S PROVE g[X] \in T
  <2>1. IsFiniteSet(X)
    BY FS_Subset
  <2>2. \A Y \in SUBSET X : Y # {} /\ g[Y \ {Pick(Y)}] \in T => g[Y] \in T
    <3> SUFFICES ASSUME NEW Y \in SUBSET X, Y # {}, g[Y \ {Pick(Y)}] \in T PROVE g[Y] \in T
      OBVIOUS
    <3>1. Pick(Y) \in S
      BY DEF Pick
    <3>2. g[Y] = step[<<Pick(Y), g[Y \ {Pick(Y)}]>>]
      BY <1>4
    <3> QED
      BY <3>1, <3>2
  <2> QED
    BY <1>4, <2>1, <2>2, FoldStays
<1>6. g \in [SUBSET S -> T]
  <2>1. g = [X \in SUBSET S |-> g[X]]
    BY <1>2, <1>3 DEF FoldOf
  <2> QED
    BY <2>1, <1>5
<1> QED
  BY <1>2, <1>3, <1>6 DEF FoldOf, Folds

-------------------------------------------------------------------------------
(***************************************************************************)
(* LearnedNogoods, which keeps its nogoods in a set of the same kind.      *)
(***************************************************************************)

\* A set without free slots; its nogoods lie in the slots up to its count.
Compact(s) == ContainerOK(s) /\ s.freeIndices = {}

LEMMA CompactCount == ASSUME NEW s, Compact(s)
                      PROVE  /\ GetNogoodCount(s) = Len(s.nogoods) /\ Len(s.nogoods) \in Nat
                             /\ s.nogoods \in Seq(Nogoods) /\ s \in NogoodSets
BY FS_EmptySet DEF Compact, ContainerOK, SetOK, NogoodSets, GetNogoodCount

\* t is s with more nogoods behind those of s.
Grown(s, t) ==
  /\ Compact(t)
  /\ Len(s.nogoods) <= Len(t.nogoods)
  /\ \A i \in Slots(s) : t.nogoods[i] = s.nogoods[i]

LEMMA GrownTwice == ASSUME NEW s, NEW t, NEW u, Compact(s), Grown(s, t), Grown(t, u)
                    PROVE  Grown(s, u)
<1>1. Len(s.nogoods) \in Nat /\ Len(t.nogoods) \in Nat /\ Len(u.nogoods) \in Nat
  BY CompactCount DEF Grown
<1>2. Slots(s) \subseteq Slots(t)
  BY <1>1 DEF Slots, Grown
<1> QED
  BY <1>1, <1>2 DEF Grown

LEMMA AddGrows == ASSUME NEW s, Compact(s), NEW ng \in Nogoods, NEW t, t = AddNogood(s, ng)
                  PROVE  Grown(s, t) /\ ng \in Held(t)
<1>1. s.nogoods \in Seq(Nogoods) /\ Len(s.nogoods) \in Nat /\ Slots(s) = 1..Len(s.nogoods)
      /\ s.freeIndices = {}
      /\ s = [nogoods |-> s.nogoods, addCount |-> s.addCount, freeIndices |-> s.freeIndices,
              nogoodsWithHash |-> s.nogoodsWithHash]
  BY DEF Compact, ContainerOK, SetOK, NogoodSets, Slots
<1>2. ContainerOK(t) /\ IsPresent(t, ng)
  BY AddKeeps DEF Compact
<1>3. t.freeIndices = {} /\ (t.nogoods = s.nogoods \/ t.nogoods = Append(s.nogoods, ng))
  <2>1. CASE IsPresent(s, ng)
    BY <1>1, <2>1 DEF AddNogood
  <2>2. CASE ~IsPresent(s, ng)
    BY <1>1, <2>2 DEF AddNogood
  <2> QED
    BY <2>1, <2>2
<1>4. Len(s.nogoods) <= Len(t.nogoods) /\ \A i \in 1..Len(s.nogoods) : t.nogoods[i] = s.nogoods[i]
  BY <1>1, <1>3
<1>5. ng \in Held(t)
  <2>1. PICK i \in SlotsOf(t, ng) : TRUE
    BY <1>2 DEF IsPresent
  <2>2. i \in Slots(t) /\ t.nogoods[i] = ng
    BY <1>2, <2>1, PresentSlots DEF ContainerOK
  <2> QED
    BY <2>2 DEF Held
<1> QED
  BY <1>1, <1>2, <1>3, <1>4, <1>5 DEF Grown, Compact

\* The sets of nogoods that s has grown into.
Growths(s) == {t \in NogoodSets : Grown(s, t)}

LEMMA GrowsFromItself == ASSUME NEW s, Compact(s) PROVE s \in Growths(s)
<1>1. Len(s.nogoods) \in Nat /\ s \in NogoodSets
  BY CompactCount
<1> QED
  BY <1>1 DEF Growths, Grown

LEMMA GrowsOn == ASSUME NEW s, Compact(s), NEW t \in Growths(s), NEW u, Grown(t, u)
                 PROVE  u \in Growths(s)
<1>1. Grown(s, u)
  BY GrownTwice DEF Growths
<1>2. u \in NogoodSets
  BY CompactCount DEF Grown
<1> QED
  BY <1>1, <1>2 DEF Growths

LEMMA AddAllGrows == ASSUME NEW s, Compact(s), NEW S \in SUBSET Nogoods, IsFiniteSet(S)
                     PROVE  Grown(s, AddAll(s, S))
<1> DEFINE T == Growths(s)
           FoldEq(g) == g = [X \in SUBSET S |-> IF X = {} THEN s ELSE AddNogood(g[X \ {Pick(X)}], Pick(X))]
           iter == CHOOSE g : FoldEq(g)
<1>1. AddAll(s, S) = iter[S]
  BY DEF AddAll, FoldSet, MapThenFoldSet, Pick
<1>2. \A t \in T : \A ng \in Nogoods : AddNogood(t, ng) \in T
  <2> SUFFICES ASSUME NEW t \in T, NEW ng \in Nogoods PROVE AddNogood(t, ng) \in T
    OBVIOUS
  <2>1. PICK u : u = AddNogood(t, ng)
    OBVIOUS
  <2>2. Compact(t)
    BY DEF Growths, Grown
  <2>3. Grown(t, u)
    BY <2>1, <2>2, AddGrows
  <2> QED
    BY <2>1, <2>3, GrowsOn
<1>3. s \in T
  BY GrowsFromItself
<1> HIDE DEF T
<1>4. \E g : FoldEq(g)
  <2> DEFINE step == [p \in S \X T |-> AddNogood(p[2], p[1])]
  <2>1. step \in [S \X T -> T]
    BY <1>2
  <2> HIDE DEF step
  <2>2. PICK g \in [SUBSET S -> T] : Folds(S, s, step, g)
    BY <1>3, <2>1, FoldWithin
  <2> USE DEF step
  <2>3. \A X \in SUBSET S : X # {} => Pick(X) \in S /\ g[X \ {Pick(X)}] \in T
    BY DEF Pick
  <2>4. \A X \in SUBSET S : X # {} =>
          step[<<Pick(X), g[X \ {Pick(X)}]>>] = AddNogood(g[X \ {Pick(X)}], Pick(X))
    BY <2>3
  <2> HIDE DEF step
  <2>5. FoldEq(g)
    BY <2>2, <2>4 DEF Folds
  <2> QED
    BY <2>5
<1>5. FoldEq(iter)
  BY <1>4
<1> HIDE DEF iter
<1>6. iter[{}] \in T
  BY <1>3, <1>5
<1>7. \A X \in SUBSET S : X # {} /\ iter[X \ {Pick(X)}] \in T => iter[X] \in T
  <2> SUFFICES ASSUME NEW X \in SUBSET S, X # {}, iter[X \ {Pick(X)}] \in T PROVE iter[X] \in T
    OBVIOUS
  <2>1. iter[X] = AddNogood(iter[X \ {Pick(X)}], Pick(X))
    BY <1>5
  <2>2. Pick(X) \in Nogoods
    BY DEF Pick
  <2> QED
    BY <1>2, <2>1, <2>2
<1> HIDE DEF FoldEq
<1>8. iter[S] \in T
  BY <1>6, <1>7, FoldStays
<1> QED
  BY <1>1, <1>8 DEF T, Growths

\* What a loop over some positions of a compact set reads.
LEMMA BetweenReads == ASSUME NEW s, Compact(s), NEW from \in Nat
                      PROVE  LET q == Between(s, from, Len(s.nogoods))
                             IN  /\ DOMAIN q = 1..(Len(s.nogoods) - from)
                                 /\ \A i \in DOMAIN q : i + from \in Slots(s) /\ q[i] = s.nogoods[i + from]
<1> DEFINE q == Between(s, from, Len(s.nogoods))
<1>1. Len(s.nogoods) \in Nat /\ s.nogoods \in Seq(Nogoods)
  BY CompactCount
<1>2. q = [i \in 1..(Len(s.nogoods) - from) |-> s.nogoods[i + from]]
  <2>1. q = SubSeq(s.nogoods, from + 1, Len(s.nogoods))
    BY DEF Between
  <2>2. PICK n \in Nat : n = Len(s.nogoods)
    BY <1>1
  <2>3. SubSeq(s.nogoods, from + 1, n) = [i \in 1..(n - from) |-> s.nogoods[i + from]]
    BY <1>1, <2>2
  <2> QED
    BY <2>1, <2>2, <2>3
<1> HIDE DEF q
<1>3. \A i \in 1..(Len(s.nogoods) - from) : i + from \in Slots(s)
  BY <1>1 DEF Slots
<1> QED
  BY <1>2, <1>3 DEF q

LEMMA ReadSlots == ASSUME NEW s, Compact(s), NEW from \in Nat
                   PROVE  Range(Between(s, from, Len(s.nogoods)))
                            = {s.nogoods[i] : i \in (from + 1)..Len(s.nogoods)}
<1>1. Len(s.nogoods) \in Nat
  BY CompactCount
<1>2. PICK q : q = Between(s, from, Len(s.nogoods))
  OBVIOUS
<1>3. DOMAIN q = 1..(Len(s.nogoods) - from) /\ \A i \in DOMAIN q : q[i] = s.nogoods[i + from]
  BY <1>2, BetweenReads
<1>4. \A i \in (from + 1)..Len(s.nogoods) : i - from \in DOMAIN q /\ (i - from) + from = i
  BY <1>1, <1>3
<1>5. \A i \in DOMAIN q : i + from \in (from + 1)..Len(s.nogoods)
  BY <1>1, <1>3
<1>6. {q[i] : i \in DOMAIN q} = {s.nogoods[i] : i \in (from + 1)..Len(s.nogoods)}
  <2>1. \A i \in (from + 1)..Len(s.nogoods) : q[i - from] = s.nogoods[i] /\ i - from \in DOMAIN q
    BY <1>3, <1>4
  <2>2. \A i \in DOMAIN q : q[i] \in {s.nogoods[j] : j \in (from + 1)..Len(s.nogoods)}
    BY <1>3, <1>5
  <2>3. \A i \in (from + 1)..Len(s.nogoods) : s.nogoods[i] \in {q[j] : j \in DOMAIN q}
    BY <2>1
  <2> QED
    BY <2>2, <2>3
<1> QED
  BY <1>2, <1>6 DEF Range

LEMMA GeneralizeGrows == ASSUME NEW s, Compact(s), transferredIndex \in Nat
                         PROVE  Grown(s, GeneralizeNogoods(s))
<1>1. CASE ~generalize
  <2>1. GeneralizeNogoods(s) = s
    BY <1>1 DEF GeneralizeNogoods
  <2> QED
    BY <2>1, GrowsFromItself DEF Growths
<1>2. CASE generalize
  <2> DEFINE q == Between(s, transferredIndex, Len(s.nogoods))
             S == DOMAIN q
             T == Growths(s)
             next(t, i) == AddAll(t, General[q[i]])
             FoldEq(g) == g = [X \in SUBSET S |-> IF X = {} THEN s ELSE next(g[X \ {Pick(X)}], Pick(X))]
             iter == CHOOSE g : FoldEq(g)
  <2>1. GeneralizeNogoods(s) = iter[S]
    <3>1. GetNogoodCount(s) = Len(s.nogoods)
      BY CompactCount
    <3> QED
      BY <1>2, <3>1 DEF GeneralizeNogoods, FoldSeq, FoldFunction,
         FoldFunctionOnSet, MapThenFoldSet, Pick
  <2>2. IsFiniteSet(S) /\ \A i \in S : q[i] \in Nogoods
    <3>1. Len(s.nogoods) \in Nat /\ s.nogoods \in Seq(Nogoods)
      BY CompactCount
    <3>2. S = 1..(Len(s.nogoods) - transferredIndex)
          /\ \A i \in S : i + transferredIndex \in Slots(s) /\ q[i] = s.nogoods[i + transferredIndex]
      BY BetweenReads
    <3> HIDE DEF q
    <3>3. \A i \in S : q[i] \in Nogoods
      BY <3>1, <3>2 DEF Slots
    <3>4. Len(s.nogoods) - transferredIndex \in Int
      BY <3>1
    <3> QED
      BY <3>2, <3>3, <3>4, FS_Interval
  <2> HIDE DEF q
  <2>3. \A t \in T : \A i \in S : next(t, i) \in T
    <3> SUFFICES ASSUME NEW t \in T, NEW i \in S PROVE next(t, i) \in T
      OBVIOUS
    <3>1. General[q[i]] \in SUBSET Nogoods /\ IsFiniteSet(General[q[i]])
      BY <2>2, NongroundAssumption, GeneralAssumption, FinitenessAssumption
    <3>2. Compact(t)
      BY DEF Growths, Grown
    <3>3. PICK u : u = next(t, i)
      OBVIOUS
    <3>4. Grown(t, u)
      BY <3>1, <3>2, <3>3, AddAllGrows
    <3> QED
      BY <3>3, <3>4, GrowsOn
  <2>4. s \in T
    BY GrowsFromItself
  <2> HIDE DEF T, S, next
  <2>5. \E g : FoldEq(g)
    <3> DEFINE step == [p \in S \X T |-> next(p[2], p[1])]
    <3>1. step \in [S \X T -> T]
      BY <2>3
    <3> HIDE DEF step
    <3>2. PICK g \in [SUBSET S -> T] : Folds(S, s, step, g)
      BY <2>2, <2>4, <3>1, FoldWithin
    <3> USE DEF step
    <3>3. \A X \in SUBSET S : X # {} => Pick(X) \in S /\ g[X \ {Pick(X)}] \in T
      BY DEF Pick
    <3>4. \A X \in SUBSET S : X # {} =>
            step[<<Pick(X), g[X \ {Pick(X)}]>>] = next(g[X \ {Pick(X)}], Pick(X))
      BY <3>3
    <3> HIDE DEF step
    <3>5. FoldEq(g)
      BY <3>2, <3>4 DEF Folds
    <3> QED
      BY <3>5
  <2>6. FoldEq(iter)
    BY <2>5
  <2> HIDE DEF iter
  <2>7. iter[{}] \in T
    BY <2>4, <2>6
  <2>8. \A X \in SUBSET S : X # {} /\ iter[X \ {Pick(X)}] \in T => iter[X] \in T
    <3> SUFFICES ASSUME NEW X \in SUBSET S, X # {}, iter[X \ {Pick(X)}] \in T PROVE iter[X] \in T
      OBVIOUS
    <3>1. iter[X] = next(iter[X \ {Pick(X)}], Pick(X)) /\ Pick(X) \in S
      BY <2>6 DEF Pick
    <3> QED
      BY <2>3, <3>1
  <2> HIDE DEF FoldEq
  <2>9. iter[S] \in T
    BY <2>2, <2>7, <2>8, FoldStays
  <2> QED
    BY <2>1, <2>9 DEF T, Growths
<1> QED
  BY <1>1, <1>2

LEMMA InstantiateGrows == ASSUME NEW s, Compact(s), instantiatedIndex \in Nat
                          PROVE  Grown(s, InstantiateNogoods(s))
<1> DEFINE S == GrounderReads(s)
           T == Growths(s)
           next(t, ng) == AddAll(t, Instances[ng])
           FoldEq(g) == g = [X \in SUBSET S |-> IF X = {} THEN s ELSE next(g[X \ {Pick(X)}], Pick(X))]
           iter == CHOOSE g : FoldEq(g)
<1>1. InstantiateNogoods(s) = iter[S]
  BY DEF InstantiateNogoods, FoldSet, MapThenFoldSet, Pick
<1>2. IsFiniteSet(S) /\ S \subseteq Nonground
  <2>1. Len(s.nogoods) \in Nat /\ GetNogoodCount(s) = Len(s.nogoods)
    BY CompactCount
  <2>2. PICK from \in Nat : from = GrounderStart(s)
    BY DEF GrounderStart
  <2>3. S = {s.nogoods[i] : i \in (from + 1)..Len(s.nogoods)} \cap Nonground
    BY <2>1, <2>2, ReadSlots DEF GrounderReads
  <2>4. IsFiniteSet((from + 1)..Len(s.nogoods))
    <3>1. from + 1 \in Int /\ Len(s.nogoods) \in Int
      BY <2>1
    <3> QED
      BY <3>1, FS_Interval
  <2> DEFINE I == (from + 1)..Len(s.nogoods)
             R == {s.nogoods[i] : i \in I}
             f == [i \in I |-> s.nogoods[i]]
  <2>5. f \in Surjection(I, R)
    BY DEF Surjection
  <2> HIDE DEF I, R, f
  <2>6. IsFiniteSet(R)
    BY <2>4, <2>5, FS_Surjection DEF I
  <2>7. S \in SUBSET R /\ S \subseteq Nonground
    BY <2>3 DEF R, I
  <2> QED
    BY <2>6, <2>7, FS_Subset
<1> HIDE DEF S
<1>3. \A t \in T : \A ng \in S : next(t, ng) \in T
  <2> SUFFICES ASSUME NEW t \in T, NEW ng \in S PROVE next(t, ng) \in T
    OBVIOUS
  <2>1. Instances[ng] \in SUBSET Nogoods /\ IsFiniteSet(Instances[ng])
    BY <1>2, InstancesAssumption, FinitenessAssumption
  <2>2. Compact(t)
    BY DEF Growths, Grown
  <2>3. PICK u : u = next(t, ng)
    OBVIOUS
  <2>4. Grown(t, u)
    BY <2>1, <2>2, <2>3, AddAllGrows
  <2> QED
    BY <2>3, <2>4, GrowsOn
<1>4. s \in T
  BY GrowsFromItself
<1> HIDE DEF T, next
<1>5. \E g : FoldEq(g)
  <2> DEFINE step == [p \in S \X T |-> next(p[2], p[1])]
  <2>1. step \in [S \X T -> T]
    BY <1>3
  <2> HIDE DEF step
  <2>2. PICK g \in [SUBSET S -> T] : Folds(S, s, step, g)
    BY <1>2, <1>4, <2>1, FoldWithin
  <2> USE DEF step
  <2>3. \A X \in SUBSET S : X # {} => Pick(X) \in S /\ g[X \ {Pick(X)}] \in T
    BY DEF Pick
  <2>4. \A X \in SUBSET S : X # {} =>
          step[<<Pick(X), g[X \ {Pick(X)}]>>] = next(g[X \ {Pick(X)}], Pick(X))
    BY <2>3
  <2> HIDE DEF step
  <2>5. FoldEq(g)
    BY <2>2, <2>4 DEF Folds
  <2> QED
    BY <2>5
<1>6. FoldEq(iter)
  BY <1>5
<1> HIDE DEF iter
<1>7. iter[{}] \in T
  BY <1>4, <1>6
<1>8. \A X \in SUBSET S : X # {} /\ iter[X \ {Pick(X)}] \in T => iter[X] \in T
  <2> SUFFICES ASSUME NEW X \in SUBSET S, X # {}, iter[X \ {Pick(X)}] \in T PROVE iter[X] \in T
    OBVIOUS
  <2>1. iter[X] = next(iter[X \ {Pick(X)}], Pick(X)) /\ Pick(X) \in S
    BY <1>6 DEF Pick
  <2> QED
    BY <1>3, <2>1
<1> HIDE DEF FoldEq
<1>9. iter[S] \in T
  BY <1>2, <1>7, <1>8, FoldStays
<1> QED
  BY <1>1, <1>9 DEF T, Growths

\* What forgetting leaves was there before.
LEMMA ForgetHolds == ASSUME NEW s, ContainerOK(s), NEW t, t = ForgetLeastFrequentlyAdded(s)
                     PROVE  Compact(t) /\ Held(t) \subseteq Held(s)
<1>1. PICK S \in SUBSET Slots(s) : Forget(s) = RemoveIndices(s, S)
  BY DEF Forget
<1>2. PICK u : u = Forget(s)
  OBVIOUS
<1>3. ContainerOK(u) /\ u.nogoods = s.nogoods
  <2>1. ContainerOK(u)
    BY <1>1, <1>2, RemoveKeeps
  <2>2. u.nogoods = s.nogoods
    BY <1>1, <1>2 DEF RemoveIndices, ContainerOK, SetOK, NogoodSets
  <2> QED
    BY <2>1, <2>2
<1>4. t = Defragment(u)
  BY <1>2 DEF ForgetLeastFrequentlyAdded
<1>5. ContainerOK(t) /\ t.freeIndices = {} /\ Held(t) \subseteq Held(u)
  BY <1>3, <1>4, DefragmentKeeps
<1> QED
  BY <1>3, <1>5 DEF Compact, Held, Slots

\* The slots below transferredIndex hold no ground nogood that the solver lacks, and what
\* was learned is in the solver or still held.  The kind of the checker follows from the
\* options.  With an assumption-based one each update clears, so that nothing is transferred
\* that the checker, if it existed from the start, has not read.
TransferInv ==
  /\ Compact(learnedEANogoods)
  /\ transferredIndex \in 0..Len(learnedEANogoods.nogoods) /\ instantiatedIndex \in Nat
  /\ \A i \in 1..transferredIndex :
       learnedEANogoods.nogoods[i] \in Ground => learnedEANogoods.nogoods[i] \in solver
  /\ learned \cap Ground \subseteq solver \cup Held(learnedEANogoods)
  /\ checker \in CheckerKinds /\ (~lazy => prepared)
  /\ checker = "assumption" => /\ transferredIndex = 0
                               /\ learned \subseteq Held(learnedEANogoods)
                               /\ ~lazy => solver \subseteq ufsChecker

\* An update hands every ground nogood to the solver that the container then holds.
LEMMA AllTransferred ==
  ASSUME TransferInv, NEW grounded, Grown(learnedEANogoods, grounded)
  PROVE  /\ Held(grounded) \cap Ground \subseteq solver \cup Transferred(grounded)
         /\ Held(learnedEANogoods) \subseteq Held(grounded)
         /\ GroundNogoods(grounded) = Held(grounded) \cap Ground
         /\ Transferred(grounded) \subseteq Held(grounded) \cap Ground
         /\ transferredIndex = 0 => Transferred(grounded) = Held(grounded) \cap Ground
<1> DEFINE s == learnedEANogoods
<1>1. /\ Compact(s) /\ Compact(grounded) /\ Len(s.nogoods) \in Nat /\ Len(grounded.nogoods) \in Nat
      /\ Len(s.nogoods) <= Len(grounded.nogoods) /\ transferredIndex \in 0..Len(s.nogoods)
      /\ Slots(s) = 1..Len(s.nogoods) /\ Slots(grounded) = 1..Len(grounded.nogoods)
      /\ \A i \in Slots(s) : grounded.nogoods[i] = s.nogoods[i]
  BY CompactCount DEF TransferInv, Grown, Slots
<1>2. GetNogoodCount(grounded) = Len(grounded.nogoods)
  BY <1>1, CompactCount
<1>3. Transferred(grounded)
        = {grounded.nogoods[i] : i \in (transferredIndex + 1)..Len(grounded.nogoods)} \cap Ground
  <2>1. transferredIndex \in Nat
    BY <1>1
  <2> QED
    BY <1>1, <1>2, <2>1, ReadSlots DEF Transferred
<1>4. GroundNogoods(grounded) = Held(grounded) \cap Ground
  <2>1. Range(Between(grounded, 0, Len(grounded.nogoods)))
          = {grounded.nogoods[i] : i \in (0 + 1)..Len(grounded.nogoods)}
    BY <1>1, ReadSlots
  <2> QED
    BY <1>1, <1>2, <2>1 DEF GroundNogoods, Held
<1>5. Held(s) \subseteq Held(grounded)
  BY <1>1 DEF Held
<1>6. Held(grounded) \cap Ground \subseteq solver \cup Transferred(grounded)
  <2> SUFFICES ASSUME NEW i \in Slots(grounded), grounded.nogoods[i] \in Ground
               PROVE  grounded.nogoods[i] \in solver \cup Transferred(grounded)
    BY DEF Held
  <2>1. CASE i <= transferredIndex
    <3>1. i \in 1..transferredIndex /\ i \in Slots(s)
      BY <1>1, <2>1
    <3> QED
      BY <1>1, <3>1 DEF TransferInv
  <2>2. CASE ~(i <= transferredIndex)
    <3>1. i \in (transferredIndex + 1)..Len(grounded.nogoods)
      BY <1>1, <2>2
    <3> QED
      BY <1>3, <3>1
  <2> QED
    BY <2>1, <2>2
<1>7. Transferred(grounded) \subseteq Held(grounded) \cap Ground
  <2>1. (transferredIndex + 1)..Len(grounded.nogoods) \subseteq Slots(grounded)
    BY <1>1
  <2> QED
    BY <1>3, <2>1 DEF Held
<1>8. ASSUME transferredIndex = 0
      PROVE  Transferred(grounded) = Held(grounded) \cap Ground
  BY <1>1, <1>3, <1>8 DEF Held
<1> QED
  BY <1>4, <1>5, <1>6, <1>7, <1>8

LEMMA TransferInit == LearningInit => TransferInv
<1> SUFFICES ASSUME LearningInit PROVE TransferInv
  OBVIOUS
<1>1. learnedEANogoods = [nogoods |-> <<>>, addCount |-> <<>>, freeIndices |-> {},
                          nogoodsWithHash |-> [h \in Hashes |-> {}]]
  BY DEF LearningInit, EmptyNogoodSet
<1>2. Compact(learnedEANogoods)
  <2>1. <<>> \in Seq(Nat)
    OBVIOUS
  <2> QED
    BY <1>1, <2>1, EmptyOK DEF Compact
<1>3. Len(learnedEANogoods.nogoods) = 0
  BY <1>1
<1>4. checker \in CheckerKinds /\ (~lazy => prepared)
  BY DEF LearningInit
<1> QED
  BY <1>2, <1>3, <1>4 DEF LearningInit, TransferInv

\* The container that an update leaves behind generalizing and grounding.
LEMMA GroundedGrows ==
  ASSUME TransferInv
  PROVE  LET generalized == GeneralizeNogoods(learnedEANogoods)
         IN  Grown(learnedEANogoods, generalized)
             /\ Grown(learnedEANogoods, InstantiateNogoods(generalized))
<1>1. PICK generalized : generalized = GeneralizeNogoods(learnedEANogoods)
  OBVIOUS
<1>2. PICK grounded : grounded = InstantiateNogoods(generalized)
  OBVIOUS
<1>3. Compact(learnedEANogoods) /\ transferredIndex \in Nat /\ instantiatedIndex \in Nat
  BY CompactCount DEF TransferInv
<1>4. Grown(learnedEANogoods, generalized)
  BY <1>1, <1>3, GeneralizeGrows
<1>5. Grown(generalized, grounded)
  BY <1>2, <1>3, <1>4, InstantiateGrows DEF Grown
<1>6. Grown(learnedEANogoods, grounded)
  BY <1>3, <1>4, <1>5, GrownTwice
<1> QED
  BY <1>1, <1>2, <1>4, <1>6

\* What an update does.
LEMMA ClearDoes ==
  ASSUME TransferInv, UpdateAndClear
  PROVE  /\ TransferInv' /\ learned \cap Ground \subseteq solver' /\ Held(learnedEANogoods)' = {}
         /\ checker # "encoding"
         /\ checker = "assumption" =>
              /\ prepared => learned \cap Ground \subseteq ufsChecker'
              /\ ~lazy => solver' \subseteq ufsChecker'
<1>1. PICK grounded : grounded = InstantiateNogoods(GeneralizeNogoods(learnedEANogoods))
  OBVIOUS
<1>2. Grown(learnedEANogoods, grounded) /\ Compact(grounded)
  BY <1>1, GroundedGrows DEF Grown
<1>3. /\ assumptionBased \/ ~eCycles
      /\ UNCHANGED <<options, prepared>>
      /\ solver' = solver \cup Transferred(grounded)
      /\ LearnFromMainSearch(grounded)
      /\ learnedEANogoods' = Clear(grounded)
      /\ instantiatedIndex' = 0 /\ learned' = {}
      /\ transferredIndex' = GetNogoodCount(learnedEANogoods')
  BY <1>1 DEF UpdateAndClear
<1>4. Compact(learnedEANogoods') /\ Len(learnedEANogoods'.nogoods) = 0
  <2>1. learnedEANogoods' = [nogoods |-> <<>>, addCount |-> grounded.addCount, freeIndices |-> {},
                             nogoodsWithHash |-> [h \in Hashes |-> {}]]
    BY <1>3 DEF Clear, EmptyNogoodSet
  <2>2. grounded.addCount \in Seq(Nat)
    BY <1>2 DEF Compact, ContainerOK, SetOK, NogoodSets
  <2>3. ContainerOK(learnedEANogoods')
    BY <2>1, <2>2, EmptyOK
  <2> QED
    BY <2>1, <2>3 DEF Compact
<1>5. transferredIndex' = 0
  BY <1>3, <1>4, CompactCount
<1>6. Held(learnedEANogoods)' = {}
  BY <1>4 DEF Held, Slots
<1>7. learned \cap Ground \subseteq solver'
  BY <1>2, <1>3, AllTransferred DEF TransferInv
<1>8. checker # "encoding" /\ checker' \in CheckerKinds' /\ (~lazy' => prepared')
  BY <1>3 DEF TransferInv, CheckerKinds, options
<1>9. ASSUME checker = "assumption"
      PROVE  /\ prepared => learned \cap Ground \subseteq ufsChecker'
             /\ ~lazy => solver' \subseteq ufsChecker'
  <2>1. learned \subseteq Held(grounded) /\ (~lazy => solver \subseteq ufsChecker /\ prepared)
    BY <1>2, <1>9, AllTransferred DEF TransferInv
  <2>2. prepared => ufsChecker' = ufsChecker \cup (Held(grounded) \cap Ground)
    BY <1>2, <1>3, <1>9, AllTransferred DEF LearnFromMainSearch
  <2> QED
    BY <1>2, <1>3, <2>1, <2>2, AllTransferred
<1>10. checker' = checker /\ lazy' = lazy
  BY <1>3 DEF options
<1> QED
  BY <1>3, <1>4, <1>5, <1>6, <1>7, <1>8, <1>9, <1>10 DEF TransferInv, Compact

LEMMA ForgetDoes ==
  ASSUME TransferInv, UpdateAndForget
  PROVE  TransferInv' /\ (learned \cup Held(learnedEANogoods')) \cap Ground \subseteq solver'
<1>1. PICK generalized : generalized = GeneralizeNogoods(learnedEANogoods)
  OBVIOUS
<1>2. PICK grounded : grounded = InstantiateNogoods(generalized)
  OBVIOUS
<1>3. Grown(learnedEANogoods, generalized) /\ Grown(learnedEANogoods, grounded) /\ Compact(grounded)
      /\ Compact(generalized)
  BY <1>1, <1>2, GroundedGrows DEF Grown
<1>4. /\ ~assumptionBased /\ UNCHANGED <<options, checkerVars>>
      /\ solver' = solver \cup Transferred(grounded)
      /\ learnedEANogoods' = ForgetLeastFrequentlyAdded(grounded)
      /\ instantiatedIndex' = GetNogoodCount(generalized) /\ learned' = learned
      /\ transferredIndex' = GetNogoodCount(learnedEANogoods')
  BY <1>1, <1>2 DEF UpdateAndForget
<1>5. Compact(learnedEANogoods') /\ Held(learnedEANogoods') \subseteq Held(grounded)
  <2>1. PICK t : t = learnedEANogoods'
    OBVIOUS
  <2>2. Compact(t) /\ Held(t) \subseteq Held(grounded)
    BY <1>3, <1>4, <2>1, ForgetHolds DEF Compact
  <2> QED
    BY <2>1, <2>2
<1>6. /\ Held(grounded) \cap Ground \subseteq solver'
      /\ learned \cap Ground \subseteq solver'
  BY <1>3, <1>4, AllTransferred DEF TransferInv
<1>7. transferredIndex' = Len(learnedEANogoods'.nogoods) /\ Len(learnedEANogoods'.nogoods) \in Nat
      /\ instantiatedIndex' \in Nat
  BY <1>3, <1>4, <1>5, CompactCount
<1>8. \A i \in 1..Len(learnedEANogoods'.nogoods) :
        learnedEANogoods'.nogoods[i] \in Ground => learnedEANogoods'.nogoods[i] \in solver'
  BY <1>5, <1>6 DEF Held, Slots
<1>9. Compact(learnedEANogoods)'
  BY <1>5 DEF Compact
<1>10. checker # "assumption" /\ checker' = checker /\ checker' \in CheckerKinds' /\ (~lazy' => prepared')
  BY <1>4 DEF TransferInv, CheckerKinds, options, checkerVars
<1>11. TransferInv'
  BY <1>4, <1>6, <1>7, <1>8, <1>9, <1>10 DEF TransferInv
<1> QED
  BY <1>5, <1>6, <1>11

LEMMA TransferStep ==
  ASSUME TransferInv, [LearningNext]_learningVars
  PROVE  TransferInv'
<1>1. ASSUME NEW ng \in Nogoods, Learn(ng) PROVE TransferInv'
  <2>1. /\ learnedEANogoods' = AddNogood(learnedEANogoods, ng) /\ learned' = learned \cup {ng}
        /\ transferredIndex' = transferredIndex /\ instantiatedIndex' = instantiatedIndex
        /\ solver' = solver /\ ufsChecker' = ufsChecker /\ prepared' = prepared
        /\ UNCHANGED <<assumptionBased, eCycles, lazy, checker>>
    BY <1>1 DEF Learn, options, checkerVars
  <2>2. Compact(learnedEANogoods) /\ transferredIndex \in 0..Len(learnedEANogoods.nogoods)
    BY DEF TransferInv
  <2>3. PICK t : t = learnedEANogoods'
    OBVIOUS
  <2>4. Grown(learnedEANogoods, t) /\ ng \in Held(t) /\ Compact(t)
    BY <2>1, <2>2, <2>3, AddGrows DEF Grown
  <2>5. Len(t.nogoods) \in Nat /\ Len(learnedEANogoods.nogoods) \in Nat
    BY <2>2, <2>4, CompactCount
  <2>6. Held(learnedEANogoods) \subseteq Held(t)
    BY <2>4, AllTransferred
  <2>7. transferredIndex \in 0..Len(t.nogoods)
        /\ \A i \in 1..transferredIndex : t.nogoods[i] = learnedEANogoods.nogoods[i]
    BY <2>2, <2>4, <2>5 DEF Grown, Slots
  <2>8. Compact(learnedEANogoods)' /\ Held(learnedEANogoods)' = Held(t)
    BY <2>3, <2>4 DEF Compact, Held, Slots
  <2> QED
    BY <2>1, <2>3, <2>4, <2>6, <2>7, <2>8 DEF TransferInv, CheckerKinds
<1>2. CASE UpdateAndClear
  BY <1>2, ClearDoes
<1>3. CASE UpdateAndForget
  BY <1>3, ForgetDoes
<1>4. CASE GetUnfoundedSet
  <2>1. /\ UNCHANGED <<learnedEANogoods, transferredIndex, instantiatedIndex, solver, learned>>
        /\ UNCHANGED <<assumptionBased, eCycles, lazy, checker>>
        /\ prepared'
        /\ checker = "assumption" => ufsChecker \subseteq ufsChecker'
    BY <1>4 DEF GetUnfoundedSet, options
  <2>2. Compact(learnedEANogoods)' /\ Held(learnedEANogoods)' = Held(learnedEANogoods)
    BY <2>1 DEF TransferInv, Compact, Held, Slots
  <2> QED
    BY <2>1, <2>2 DEF TransferInv, CheckerKinds
<1>5. CASE UNCHANGED learningVars
  BY <1>5 DEF learningVars, options, checkerVars, CheckerKinds, TransferInv, Compact, Held, Slots
<1> QED
  BY <1>1, <1>2, <1>3, <1>4, <1>5 DEF LearningNext

\* After an update the solver has every ground nogood that was learned since the last
\* clear, forgotten or not, and every one that the container holds.
THEOREM NogoodsReachSolver == LearningSpec => LearnedReachesSolver
<1>1. TransferInv /\ [LearningNext]_learningVars => TransferInv'
  BY TransferStep
<1>2. ASSUME TransferInv, [LearningNext]_learningVars
      PROVE  [Updates => (learned \cup Range(learnedEANogoods'.nogoods)) \cap Ground
                                     \subseteq solver']_learningVars
  <2>1. ASSUME Updates
        PROVE  (learned \cup Held(learnedEANogoods')) \cap Ground \subseteq solver'
               /\ Compact(learnedEANogoods')
    <3>1. CASE UpdateAndClear
      <4>1. TransferInv' /\ learned \cap Ground \subseteq solver' /\ Held(learnedEANogoods)' = {}
        BY <1>2, <3>1, ClearDoes
      <4> QED
        BY <4>1 DEF TransferInv, Compact, Held, Slots
    <3>2. CASE UpdateAndForget
      <4>1. TransferInv' /\ (learned \cup Held(learnedEANogoods')) \cap Ground \subseteq solver'
        BY <1>2, <3>2, ForgetDoes
      <4> QED
        BY <4>1 DEF TransferInv, Compact
    <3> QED
      BY <2>1, <3>1, <3>2 DEF Updates
  <2>2. ASSUME Compact(learnedEANogoods') PROVE Range(learnedEANogoods'.nogoods) = Held(learnedEANogoods')
    <3>1. learnedEANogoods'.nogoods \in Seq(Nogoods)
      BY <2>2, CompactCount
    <3>2. DOMAIN learnedEANogoods'.nogoods = Slots(learnedEANogoods')
      BY <3>1 DEF Slots
    <3> QED
      BY <3>2 DEF Range, Held
  <2> QED
    BY <2>1, <2>2
<1> QED
  BY <1>1, <1>2, TransferInit, PTL DEF LearningSpec, LearnedReachesSolver

\* The container is never cleared under a checker that reads it whenever it searches, and
\* an assumption-based checker has every ground nogood that was learned since the last time,
\* and all that the solver has, before it is cleared.
THEOREM NogoodsReachCheckers == LearningSpec => ClearedReachesCheckers
<1>1. TransferInv /\ [LearningNext]_learningVars => TransferInv'
  BY TransferStep
<1>2. ASSUME TransferInv, [LearningNext]_learningVars
      PROVE  [UpdateAndClear =>
                /\ checker # "encoding"
                /\ checker = "assumption" =>
                     /\ prepared => learned \cap Ground \subseteq ufsChecker'
                     /\ ~lazy => solver' \subseteq ufsChecker']_learningVars
  BY <1>2, ClearDoes
<1> QED
  BY <1>1, <1>2, TransferInit, PTL DEF LearningSpec, ClearedReachesCheckers
====
