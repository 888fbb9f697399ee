------------------------------- MODULE NogoodSet -------------------------------
(***************************************************************************)
(* NogoodSet: the container behind every list of learned nogoods.  It      *)
(* keeps the nogoods in the slots of a vector, counts how often each was   *)
(* added, remembers the slots that removals have freed, and finds a nogood *)
(* through its hash.  A set is a record of these four; slots count from 1. *)
(***************************************************************************)
EXTENDS Naturals, SequencesExt

CONSTANTS Nogoods,        \* the nogoods
          HashOf,         \* hash value of each nogood
          ForgetFactor    \* 20: 5% of the maximum add count

ASSUME HashAssumption   == DOMAIN HashOf = Nogoods
ASSUME FactorAssumption == ForgetFactor \in Nat \ {0}

Hashes == {HashOf[ng] : ng \in Nogoods}

EmptyNogoodSet == [nogoods |-> <<>>, addCount |-> <<>>, freeIndices |-> {},
                   nogoodsWithHash |-> [h \in Hashes |-> {}]]

Slots(s) == 1..Len(s.nogoods)

\* the slots in which the hash index finds a nogood
SlotsOf(s, ng) == {i \in s.nogoodsWithHash[HashOf[ng]] : s.nogoods[i] = ng}

IsPresent(s, ng) == SlotsOf(s, ng) # {}

GetNogoodCount(s) == Len(s.nogoods) - Cardinality(s.freeIndices)

\* Fault: a nogood that is put into a freed slot keeps the slot in the list.
AddNogoodKeepsFree(s, ng) ==
  IF IsPresent(s, ng)
  THEN [s EXCEPT !.addCount[CHOOSE i \in SlotsOf(s, ng) : TRUE] = @ + 1]
  ELSE IF s.freeIndices = {}
  THEN [s EXCEPT !.nogoods = Append(@, ng), !.addCount = Append(@, 1),
                 !.nogoodsWithHash[HashOf[ng]] = @ \cup {Len(s.nogoods) + 1}]
  ELSE LET i == Min(s.freeIndices)
       IN [s EXCEPT !.nogoods[i] = ng, !.addCount[i] = 1,
                    !.nogoodsWithHash[HashOf[ng]] = @ \cup {i}]

AddNogood(s, ng) ==
  IF IsPresent(s, ng)
  THEN [s EXCEPT !.addCount[CHOOSE i \in SlotsOf(s, ng) : TRUE] = @ + 1]
  ELSE IF s.freeIndices = {}
  THEN [s EXCEPT !.nogoods = Append(@, ng), !.addCount = Append(@, 1),
                 !.nogoodsWithHash[HashOf[ng]] = @ \cup {Len(s.nogoods) + 1}]
  ELSE LET i == Min(s.freeIndices)
       IN [s EXCEPT !.nogoods[i] = ng, !.addCount[i] = 1,
                    !.freeIndices = @ \ {i},
                    !.nogoodsWithHash[HashOf[ng]] = @ \cup {i}]

\* Fault: the hash index keeps the slots.
RemoveIndicesKeepsHash(s, indices) ==
  [s EXCEPT !.addCount = [i \in DOMAIN @ |-> IF i \in indices THEN 0 ELSE @[i]],
            !.freeIndices = @ \cup indices]

\* the removals of several slots, each of which touches only its own slot
RemoveIndices(s, indices) ==
  [s EXCEPT !.addCount = [i \in DOMAIN @ |-> IF i \in indices THEN 0 ELSE @[i]],
            !.freeIndices = @ \cup indices,
            !.nogoodsWithHash =
              [h \in DOMAIN @ |-> {i \in @[h] : ~(i \in indices /\ HashOf[s.nogoods[i]] = h)}]]

RemoveIndex(s, i) == RemoveIndices(s, {i})

RemoveNogood(s, ng) ==
  IF IsPresent(s, ng) THEN RemoveIndex(s, CHOOSE i \in SlotsOf(s, ng) : TRUE) ELSE s

-------------------------------------------------------------------------------
(***************************************************************************)
(* defragment: moves the last used slot into the first free one until the  *)
(* two meet.  A state of its loop is [set, free, used].                    *)
(***************************************************************************)

\* drop free slots from the end; the counts of the dropped slots stay behind
DropFreeTail(l) ==
  LET u == Max({i \in 1..l.used : i = 1 \/ i \notin l.set.freeIndices})
  IN [l EXCEPT !.set.nogoods = SubSeq(@, 1, u), !.used = u]

NextFree(l) ==
  LET last == Len(l.set.nogoods)
  IN [l EXCEPT !.free =
        Min({i \in l.free..(l.free + last) : i >= last \/ i \in l.set.freeIndices})]

\* Fault: the hash index is not told where the nogood is now.
MoveUsedToFreeUnindexed(l) ==
  IF l.free >= l.used THEN l
  ELSE LET ng == l.set.nogoods[l.used]
       IN [set  |-> [l.set EXCEPT
                       !.nogoods  = Front([@ EXCEPT ![l.free] = ng]),
                       !.addCount = Front([@ EXCEPT ![l.free] = l.set.addCount[l.used]]),
                       !.nogoodsWithHash[HashOf[ng]] = @ \ {l.used},
                       !.freeIndices = @ \ {l.free}],
           free |-> l.free + 1,
           used |-> l.used - 1]

MoveUsedToFree(l) ==
  IF l.free >= l.used THEN l
  ELSE LET ng == l.set.nogoods[l.used]
       IN [set  |-> [l.set EXCEPT
                       !.nogoods  = Front([@ EXCEPT ![l.free] = ng]),
                       !.addCount = Front([@ EXCEPT ![l.free] = l.set.addCount[l.used]]),
                       !.nogoodsWithHash[HashOf[ng]] = (@ \ {l.used}) \cup {l.free},
                       !.freeIndices = @ \ {l.free}],
           free |-> l.free + 1,
           used |-> l.used - 1]

\* one round of the loop
DefragmentStep(l) ==
  IF l.free < l.used THEN MoveUsedToFree(NextFree(DropFreeTail(l))) ELSE l

\* the state of the loop after each number of rounds
DefragmentLoop(s) ==
  LET loop[k \in 0..Len(s.nogoods)] ==
        IF k = 0 THEN [set |-> s, free |-> 1, used |-> Len(s.nogoods)]
                 ELSE DefragmentStep(loop[k - 1])
  IN loop

Defragment(s) ==
  IF s.freeIndices = {} THEN s
  ELSE [DefragmentLoop(s)[Len(s.nogoods)].set EXCEPT !.freeIndices = {}]

\* forgetLeastFrequentlyAdded of the set, which removes, and of its container,
\* which defragments afterwards
Forget(s) ==
  LET maximum == Max({0} \cup {s.addCount[i] : i \in Slots(s)})
      rare    == {i \in Slots(s) : s.addCount[i] * ForgetFactor < maximum}
  IN RemoveIndices(s, rare)

ForgetLeastFrequentlyAdded(s) == Defragment(Forget(s))

\* SimpleNogoodContainer::clear assigns an empty set; operator= leaves the
\* target's addCount as it was
Clear(s) == [EmptyNogoodSet EXCEPT !.addCount = s.addCount]
===============================================================================
