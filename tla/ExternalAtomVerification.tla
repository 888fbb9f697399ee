------------------------ MODULE ExternalAtomVerification ------------------------
(***************************************************************************)
(* How GenuineGuessAndCheckModelGenerator verifies external atoms, driven  *)
(* by the propagator of ClaspSolver: an external atom is evaluated when    *)
(* an atom it watches is assigned and its heuristic agrees; the verdict is *)
(* kept while its input and its replacement atoms stay as they are, and    *)
(* decides on the compatibility of a candidate.                            *)
(*                                                                         *)
(* The mask of an external atom are its input atoms and replacement atoms, *)
(* as far as the registry knows them.  Not all of them need occur in the   *)
(* ground program: those that do not are never assigned, and false.        *)
(* The plugin that evaluates an external atom is external, a function of   *)
(* the true atoms of the mask.  Unfounded set checks, support sets and the *)
(* option NoPropagator are left out.                                       *)
(***************************************************************************)
EXTENDS ClaspSolver

CONSTANTS RegisteredAtoms,   \* reg->ogatoms, by address; Atoms is the program mask
          ExternalAtoms,     \* innerEatoms, numbered
          Mask,              \* getEAMask
          Correct,           \* the sets of true atoms of the mask that verify
          AlwaysEvaluated    \* those with the heuristic always or eacomplete

ASSUME MaskAssumption ==
  /\ Atoms \subseteq RegisteredAtoms
  /\ RegisteredAtoms \subseteq Nat
  /\ ExternalAtoms \subseteq Nat
  /\ Mask \in [ExternalAtoms -> SUBSET RegisteredAtoms]
  /\ AlwaysEvaluated \subseteq ExternalAtoms

VARIABLES
  eaEvaluated, eaVerified,   \* sets of external atoms
  verifyWatchList,           \* the external atoms that watch an atom
  toVerify,                  \* the changed and assigned atoms that verifyExternalAtoms
                             \* has not yet come to
  compatible                 \* the result of finalCompatibilityCheck

hexVars == <<eaEvaluated, eaVerified, verifyWatchList, toVerify, compatible>>
allVars == <<claspVars, hexVars>>

First(S) == CHOOSE a \in S : \A b \in S : a <= b

\* what the plugin says about a set of true atoms
Verifies(e, true) == Mask[e] \cap true \in Correct[e]

\* the atoms of the mask that clasp assigns
MaskInProgram(e) == Mask[e] \cap Atoms

\* setHeuristics: each external atom watches the first atom of its mask, of the program
\* or not.
VerificationInit ==
  /\ Init
  /\ eaEvaluated = {}
  /\ eaVerified = {}
  /\ verifyWatchList = [a \in RegisteredAtoms |->
       {e \in ExternalAtoms : Mask[e] # {} /\ a = First(Mask[e])}]
  /\ toVerify = {}
  /\ compatible = "unknown"

\* Fault: atoms that are not assigned any more do not count as changed.
ToUnverifyIfAssigned(changed) == {e \in eaEvaluated : Mask[e] \cap changed \cap currentAssigned # {}}

\* Fault: only a positive verdict is given up.
ToUnverifyIfVerified(changed) == {e \in eaVerified : Mask[e] \cap changed # {}}

ToUnverify(changed) == {e \in eaEvaluated : Mask[e] \cap changed # {}}

\* propagate begins with unverifyExternalAtoms: an atom that changed is the new watch.
UnverifyExternalAtoms ==
  LET unverify == ToUnverify(currentChanged)
  IN  /\ eaEvaluated' = eaEvaluated \ unverify
      /\ eaVerified' = eaVerified \ unverify
      /\ verifyWatchList' = [a \in RegisteredAtoms |->
           verifyWatchList[a] \cup {e \in unverify : a = First(Mask[e] \cap currentChanged)}]
      /\ toVerify' = currentChanged \cap currentAssigned
      /\ UNCHANGED compatible

StartPropagate == (CallHexPropagators \/ IsModel) /\ UnverifyExternalAtoms

\* Fault: no new watch.
RewatchNever(left, watchList) == watchList

\* External atoms that were not evaluated watch an atom of the mask that is not assigned,
\* of the program or not (getWatchedLiteral).
Rewatch(left, watchList) ==
  [a \in RegisteredAtoms |-> watchList[a] \cup
     {e \in left : Mask[e] \ currentAssigned # {} /\ a = First(Mask[e] \ currentAssigned)}]

\* verifyExternalAtoms: the external atoms that watch the next atom are evaluated if the
\* heuristic agrees, and the verdict is kept if the program's part of the mask was
\* assigned.
VerifyExternalAtoms ==
  /\ Calling
  /\ toVerify # {}
  /\ LET atom == First(toVerify)
         watching == verifyWatchList[atom] \ eaEvaluated
     IN  /\ \E evaluate \in SUBSET watching :
              /\ watching \cap AlwaysEvaluated \subseteq evaluate
              /\ LET complete == {e \in evaluate : MaskInProgram(e) \subseteq currentAssigned}
                 IN  /\ eaEvaluated' = eaEvaluated \cup complete
                     /\ eaVerified' = eaVerified \cup {e \in complete : Verifies(e, currentIntr)}
                     /\ verifyWatchList' = [Rewatch(watching \ complete, verifyWatchList) EXCEPT ![atom] = {}]
         /\ toVerify' = toVerify \ {atom}
  /\ UNCHANGED <<claspVars, compatible>>

EndPropagate ==
  /\ toVerify = {}
  /\ HexPropagatorsReturn
  /\ UNCHANGED hexVars

\* finalCompatibilityCheck: what was not evaluated is verified now, on the candidate
\* that clasp returned, up to the first external atom that is not verified, or, with the
\* option AlwaysEvaluateAllExternalAtoms, for all.
FinalCompatibilityCheck ==
  /\ pc = "model"
  /\ compatible = "unknown"
  /\ LET verified(e) == IF e \in eaEvaluated THEN e \in eaVerified ELSE Verifies(e, TrueAtoms(value))
         upToFailure == {e \in ExternalAtoms : \A f \in ExternalAtoms : f < e => verified(f)}
     IN  /\ \E reached \in {upToFailure, ExternalAtoms} :
              /\ eaEvaluated' = eaEvaluated \cup reached
              /\ eaVerified' = eaVerified \cup {e \in reached : verified(e)}
         /\ compatible' = IF \A e \in ExternalAtoms : verified(e) THEN "yes" ELSE "no"
  /\ UNCHANGED <<claspVars, verifyWatchList, toVerify>>

\* A model is left only when it has been checked.
SearchStep ==
  /\ Search
  /\ pc = "model" => compatible # "unknown"
  /\ compatible' = "unknown"
  /\ UNCHANGED <<eaEvaluated, eaVerified, verifyWatchList, toVerify>>

Terminating == pc = "exhausted" /\ UNCHANGED allVars

VerificationNext ==
  \/ SearchStep
  \/ StartPropagate
  \/ VerifyExternalAtoms
  \/ EndPropagate
  \/ FinalCompatibilityCheck
  \/ Terminating

VerificationSpec == VerificationInit /\ [][VerificationNext]_allVars

-----------------------------------------------------------------------------
\* A verdict that is kept is that of the current assignment, unless a change of the mask
\* waits for the next call: no undone, deferred or repeated assignment leaves a stale one.
VerdictsCurrent ==
  \A e \in eaEvaluated :
    Mask[e] \cap currentChanged = {} =>
      /\ MaskInProgram(e) \subseteq currentAssigned
      /\ e \in eaVerified <=> Verifies(e, currentIntr)

\* A candidate is compatible exactly if the plugin verifies every external atom on it,
\* whenever and however the verdicts were reached.
CompatibilityRight ==
  compatible # "unknown" =>
    (compatible = "yes" <=> \A e \in ExternalAtoms : Verifies(e, TrueAtoms(value)))

InputComplete(e) == MaskInProgram(e) # {} /\ MaskInProgram(e) \subseteq currentAssigned

\* The atoms of the mask outside the program have higher addresses than those within.
OutsideLast(e) == \A a \in Mask[e] \ Atoms, b \in MaskInProgram(e) : b < a

\* No watch gets lost: after each call an external atom with a complete mask has been
\* evaluated, if its heuristic agrees to that and no atom outside the program comes
\* before one of the program in its mask.
EvaluatedOnceComplete ==
  pc = "propagated" /\ currentChanged = {} =>
    \A e \in AlwaysEvaluated : OutsideLast(e) /\ InputComplete(e) => e \in eaEvaluated

\* What the help text says of the heuristic eacomplete, without that condition: "Evaluate
\* whenever all atoms relevant for the external atom are assigned".
EvaluatedWhateverIsRegistered ==
  pc = "propagated" /\ currentChanged = {} =>
    \A e \in AlwaysEvaluated : InputComplete(e) => e \in eaEvaluated
===============================================================================
