----------------------------- MODULE LearnedNogoods -----------------------------
(***************************************************************************)
(* What GenuineGuessAndCheckModelGenerator does with the nogoods that      *)
(* external evaluations teach it.  They arrive in one container,           *)
(* learnedEANogoods; updateEANogoods generalizes the new ones, lets the    *)
(* ImmediateNogoodGrounder instantiate the nonground ones, hands the       *)
(* ground ones to the solver, and then either lets the unfounded-set       *)
(* checkers read the container and clears it, or forgets rare nogoods.     *)
(* It clears if the checkers are assumption-based or the program has no    *)
(* e-cycles.                                                               *)
(*                                                                         *)
(* Each component of the program has its own checker, of a kind that       *)
(* follows from the options and from its e-cycles, and the checkers do not *)
(* interact: the module follows one of them.                               *)
(*                                                                         *)
(* Generator, grounder and solver read the container through positions     *)
(* that each of them remembers from one update to the next.  Nothing runs  *)
(* between two statements of updateEANogoods, so an update is one action.  *)
(***************************************************************************)
EXTENDS NogoodSet

CONSTANTS Nonground,        \* the nogoods with variables
          General,          \* what generalizeNogood learns from a nogood
          Instances,        \* what the grounder makes of a nonground nogood
          MaxLearned,       \* bound on how often a nogood is learned
          MaxLearnedCounts  \* bound on the length of addCount

ASSUME NongroundAssumption == Nonground \subseteq Nogoods
ASSUME GeneralAssumption   == General \in [Nogoods -> SUBSET Nonground]
ASSUME InstancesAssumption == Instances \in [Nonground -> SUBSET Nogoods]
ASSUME FinitenessAssumption ==
  /\ \A ng \in Nogoods : IsFiniteSet(General[ng])
  /\ \A ng \in Nonground : IsFiniteSet(Instances[ng])

VARIABLES learnedEANogoods,
          transferredIndex,        \* learnedEANogoodsTransferredIndex
          instantiatedIndex,       \* instantiatedNongroundNogoodsIndex
          assumptionBased,         \* option UFSCheckAssumptionBased
          eCycles,                 \* hasECycles(), or not FLPDecisionCriterionE
          lazy,                    \* option LazyUFSCheckerInitialization
          generalize,              \* option ExternalLearningGeneralize
          checker,                 \* the kind of the component's checker
          prepared,                \* the checker has been instantiated
          solver,                  \* ground nogoods the solver has
          ufsChecker,              \* ground nogoods the checker has
          instantiated,            \* history: nogoods the grounder has seen
          learned                  \* history: nogoods learned since the
                                   \* container was last cleared

options     == <<assumptionBased, eCycles, lazy, generalize, checker>>
checkerVars == <<prepared, ufsChecker>>
learningVars == <<learnedEANogoods, transferredIndex, instantiatedIndex, options,
                  checkerVars, solver, instantiated, learned>>

Ground == Nogoods \ Nonground

\* Which checker instantiateUnfoundedSetChecker makes for a component.  Without
\* e-cycles in it the checker is encoding-based and ignores external atoms.
CheckerKinds == {"ordinary"}
                  \cup IF eCycles THEN {IF assumptionBased THEN "assumption" ELSE "encoding"}
                                  ELSE {}

LearningTypeOK ==
  /\ learnedEANogoods.nogoods \in Seq(Nogoods)
  /\ transferredIndex \in 0..Len(learnedEANogoods.nogoods)
  /\ instantiatedIndex \in Nat
  /\ assumptionBased \in BOOLEAN /\ eCycles \in BOOLEAN
  /\ lazy \in BOOLEAN /\ generalize \in BOOLEAN
  /\ checker \in CheckerKinds /\ prepared \in BOOLEAN
  /\ solver \subseteq Ground /\ ufsChecker \subseteq Ground
  /\ instantiated \subseteq Nonground /\ learned \subseteq Nogoods

LearningInit ==
  /\ learnedEANogoods = EmptyNogoodSet
  /\ transferredIndex = 0 /\ instantiatedIndex = 0
  /\ assumptionBased \in BOOLEAN /\ eCycles \in BOOLEAN
  /\ lazy \in BOOLEAN /\ generalize \in BOOLEAN
  /\ checker \in CheckerKinds /\ prepared = ~lazy
  /\ solver = {} /\ ufsChecker = {}
  /\ instantiated = {} /\ learned = {}

\* the nogoods that a loop from index `from' to index `to' - 1 reads
Between(s, from, to) == SubSeq(s.nogoods, from + 1, to)

AddAll(s, nogoods) == FoldSet(LAMBDA ng, t : AddNogood(t, ng), s, nogoods)

\* the bounds: adding and updating stop at them
WithinBounds(s) ==
  /\ Len(s.addCount) <= MaxLearnedCounts
  /\ \A i \in DOMAIN s.addCount : s.addCount[i] <= MaxLearned

\* an external evaluation adds a nogood to the container
Learn(ng) ==
  /\ WithinBounds(AddNogood(learnedEANogoods, ng))
  /\ learnedEANogoods' = AddNogood(learnedEANogoods, ng)
  /\ learned' = learned \cup {ng}
  /\ UNCHANGED <<transferredIndex, instantiatedIndex, options, checkerVars,
                 solver, instantiated>>

-------------------------------------------------------------------------------
(***************************************************************************)
(* The statements of updateEANogoods, as functions of the container.       *)
(***************************************************************************)
GeneralizeNogoods(s) ==
  IF generalize
  THEN FoldSeq(LAMBDA ng, t : AddAll(t, General[ng]), s,
               Between(s, transferredIndex, GetNogoodCount(s)))
  ELSE s

\* where ImmediateNogoodGrounder::update starts
GrounderStart(s) ==
  IF instantiatedIndex >= GetNogoodCount(s) THEN 0 ELSE instantiatedIndex

\* the nonground nogoods that it instantiates
GrounderReads(s) ==
  Range(Between(s, GrounderStart(s), GetNogoodCount(s))) \cap Nonground

InstantiateNogoods(s) ==
  FoldSet(LAMBDA ng, t : AddAll(t, Instances[ng]), s, GrounderReads(s))

\* Fault: the loop runs only over the nogoods in front of the grounder's.
TransferredBeforeGrounding(s) ==
  Range(Between(s, transferredIndex, GetNogoodCount(learnedEANogoods))) \cap Ground

Transferred(s) ==
  Range(Between(s, transferredIndex, GetNogoodCount(s))) \cap Ground

\* the ground nogoods of the container, read from the start
GroundNogoods(s) == Range(Between(s, 0, GetNogoodCount(s))) \cap Ground

\* learnNogoodsFromMainSearch(true), called for the checkers that exist; it is empty
\* for encoding-based ones
LearnFromMainSearch(s) ==
  ufsChecker' = IF prepared /\ checker = "assumption" THEN ufsChecker \cup GroundNogoods(s)
                                                      ELSE ufsChecker

\* Fault: the checkers read the container after it was cleared.
UpdateClearsFirst ==
  LET grounded == InstantiateNogoods(GeneralizeNogoods(learnedEANogoods))
  IN /\ assumptionBased \/ ~eCycles
     /\ WithinBounds(grounded)
     /\ solver' = solver \cup Transferred(grounded)
     /\ learnedEANogoods' = Clear(grounded)
     /\ LearnFromMainSearch(learnedEANogoods')
     /\ instantiated' = {}
     /\ instantiatedIndex' = 0
     /\ transferredIndex' = GetNogoodCount(learnedEANogoods')
     /\ learned' = {}
     /\ UNCHANGED <<options, prepared>>

\* updateEANogoods with assumption-based checkers or without e-cycles
UpdateAndClear ==
  LET grounded == InstantiateNogoods(GeneralizeNogoods(learnedEANogoods))
  IN /\ assumptionBased \/ ~eCycles
     /\ WithinBounds(grounded)
     /\ solver' = solver \cup Transferred(grounded)
     /\ LearnFromMainSearch(grounded)
     /\ learnedEANogoods' = Clear(grounded)
     /\ instantiated' = {}
     /\ instantiatedIndex' = 0
     /\ transferredIndex' = GetNogoodCount(learnedEANogoods')
     /\ learned' = {}
     /\ UNCHANGED <<options, prepared>>

\* updateEANogoods otherwise
UpdateAndForget ==
  LET generalized == GeneralizeNogoods(learnedEANogoods)
      grounded    == InstantiateNogoods(generalized)
  IN /\ ~assumptionBased /\ eCycles
     /\ WithinBounds(grounded)
     /\ solver' = solver \cup Transferred(grounded)
     /\ instantiated' = instantiated \cup GrounderReads(generalized)
     /\ instantiatedIndex' = GetNogoodCount(generalized)
     /\ learnedEANogoods' = ForgetLeastFrequentlyAdded(grounded)
     /\ transferredIndex' = GetNogoodCount(learnedEANogoods')
     /\ UNCHANGED <<options, checkerVars, learned>>

\* The component's turn in getUnfoundedSet: the checker is instantiated if it was not,
\* and reads the container before it searches.  An encoding-based one sets up its
\* problem for this search only.
GetUnfoundedSet ==
  /\ prepared' = TRUE
  /\ ufsChecker' = CASE checker = "assumption" -> ufsChecker \cup GroundNogoods(learnedEANogoods)
                     [] checker = "encoding"   -> GroundNogoods(learnedEANogoods)
                     [] checker = "ordinary"   -> {}
  /\ UNCHANGED <<learnedEANogoods, transferredIndex, instantiatedIndex, options,
                 solver, instantiated, learned>>

LearningNext == \/ \E ng \in Nogoods : Learn(ng)
                \/ UpdateAndClear \/ UpdateAndForget \/ GetUnfoundedSet

LearningSpec == LearningInit /\ [][LearningNext]_learningVars

-------------------------------------------------------------------------------
Updates == UpdateAndClear \/ UpdateAndForget

\* Every ground nogood that was learned or instantiated is in the solver after
\* the next update, whatever was forgotten, moved or cleared in front of the
\* position at which the transfer resumes.
LearnedReachesSolver ==
  [][Updates => (learned \cup Range(learnedEANogoods'.nogoods)) \cap Ground
                  \subseteq solver']_learningVars

\* Clearing the container takes no nogood from a checker that makes use of them: one
\* that reads the container whenever it searches never has it cleared, and one that
\* keeps what it has read, if it exists by then, has read every ground nogood that the
\* container held.  One that existed from the start then has all that the solver has,
\* instances included.
ClearedReachesCheckers ==
  [][UpdateAndClear =>
       /\ checker # "encoding"
       /\ checker = "assumption" =>
            /\ prepared => learned \cap Ground \subseteq ufsChecker'
            /\ ~lazy => solver' \subseteq ufsChecker']_learningVars

\* The grounder goes "through all nonground nogoods which have not been
\* instantiated so far".  Forgetting moves and drops nogoods in front of the
\* position it remembers, and it skips the ones that arrive there.
InstantiatesAll ==
  [][UpdateAndForget =>
       \A ng \in Nonground :
         IsPresent(learnedEANogoods, ng) => ng \in instantiated']_learningVars
===============================================================================
