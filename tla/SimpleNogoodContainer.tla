------------------------- MODULE SimpleNogoodContainer -------------------------
(***************************************************************************)
(* SimpleNogoodContainer: a NogoodSet behind a mutex, with the operations  *)
(* its users call in any order.  added is what the set is supposed to      *)
(* know: how often each nogood was added since it was last absent.         *)
(***************************************************************************)
EXTENDS NogoodSet

CONSTANTS MaxAdded,      \* bound on the add count of a nogood
          MaxCounts,     \* bound on the length of addCount
          Operations     \* the operations that are called in a run

VARIABLES ngg,           \* the set
          added          \* history: additions of each nogood

vars == <<ngg, added>>

OperationNames == {"addNogood", "removeNogood", "forgetLeastFrequentlyAdded", "clear"}

ASSUME OperationsAssumption == Operations \subseteq OperationNames
ASSUME BoundsAssumption     == MaxAdded \in Nat /\ MaxCounts \in Nat

\* no slot without a count, no free slot outside of the vector
TypeOK ==
  /\ ngg.nogoods \in Seq(Nogoods) /\ ngg.addCount \in Seq(Nat)
  /\ Len(ngg.addCount) >= Len(ngg.nogoods)
  /\ ngg.freeIndices \subseteq Slots(ngg)
  /\ ngg.nogoodsWithHash \in [Hashes -> SUBSET Nat]
  /\ added \in [Nogoods -> Nat]

Init == ngg = EmptyNogoodSet /\ added = [ng \in Nogoods |-> 0]

CallAdd(ng) ==
  /\ "addNogood" \in Operations
  /\ \A i \in SlotsOf(ngg, ng) : ngg.addCount[i] < MaxAdded
  /\ IsPresent(ngg, ng) \/ Len(ngg.addCount) < MaxCounts
  /\ ngg' = AddNogood(ngg, ng)
  /\ added' = [added EXCEPT ![ng] = @ + 1]

CallRemove(ng) ==
  /\ "removeNogood" \in Operations
  /\ ngg' = RemoveNogood(ngg, ng)
  /\ added' = [added EXCEPT ![ng] = 0]

\* the nogoods with too small a count are forgotten, and count from nought
\* again; defragmenting must keep the others
ForgetRare ==
  /\ "forgetLeastFrequentlyAdded" \in Operations
  /\ ngg' = ForgetLeastFrequentlyAdded(ngg)
  /\ added' = [ng \in Nogoods |-> IF IsPresent(Forget(ngg), ng) THEN added[ng] ELSE 0]

ClearAll ==
  /\ "clear" \in Operations
  /\ ngg' = Clear(ngg)
  /\ added' = [ng \in Nogoods |-> 0]

Next == (\E ng \in Nogoods : CallAdd(ng) \/ CallRemove(ng)) \/ ForgetRare \/ ClearAll

Spec == Init /\ [][Next]_vars

-------------------------------------------------------------------------------
\* The hash index points only to slots that exist, are not free, and hold a
\* nogood of that hash: what defragment asserts ("there must not be pointers
\* to non-existing nogoods") and every addNogood and removeNogood relies on.
IndexPointsToUsedSlots ==
  \A h \in Hashes : \A i \in ngg.nogoodsWithHash[h] :
    /\ i \in Slots(ngg) \ ngg.freeIndices
    /\ HashOf[ngg.nogoods[i]] = h

\* A nogood that was added and not removed since is found through the index,
\* whatever slots were freed, reused, moved or dropped in between, and also
\* when the counts no longer belong to the slots.
NothingIsLost == \A ng \in Nogoods : added[ng] > 0 => IsPresent(ngg, ng)

\* While the counts belong to the slots, additions and removals keep the slots
\* exact: each present nogood has one slot with its true count, every slot in
\* use belongs to a present nogood, and the number of nogoods is right.  Only
\* forgetting and clearing leave counts behind.
SlotsAreExact ==
  /\ Len(ngg.addCount) = Len(ngg.nogoods)
  /\ \A ng \in Nogoods : \A i \in SlotsOf(ngg, ng) : ngg.addCount[i] = added[ng]
  /\ \A i \in Slots(ngg) \ ngg.freeIndices : i \in SlotsOf(ngg, ngg.nogoods[i])
  /\ GetNogoodCount(ngg) = Cardinality({ng \in Nogoods : added[ng] > 0})
SlotsStayExact ==
  [][(SlotsAreExact /\ \E ng \in Nogoods : CallAdd(ng) \/ CallRemove(ng)) => SlotsAreExact']_vars

\* defragment "reorders the nogoods such that there are no free indices in the
\* range 0-(getNogoodCount()-1)": after it, a loop over that range meets only
\* nogoods that were not forgotten.
NoFreeIndexBelowCount ==
  ngg.freeIndices = {} =>
    \A i \in 1..GetNogoodCount(ngg) : added[ngg.nogoods[i]] > 0

\* Only nogoods "with an add count of less than 5% of the maximum add count"
\* are forgotten.
ForgetsOnlyRare ==
  [][ForgetRare => \A ng \in Nogoods :
       added[ng] > 0 /\ added'[ng] = 0
         => \E other \in Nogoods : added[ng] * ForgetFactor < added[other]]_vars
===============================================================================
