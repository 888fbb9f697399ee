--------------------------- MODULE ModelEnumeration ---------------------------
(***************************************************************************)
(* What every enumerator of models in dlvhex promises its caller: each     *)
(* request ends with one model that was never given before, or with the    *)
(* null model, and after the null model there is never a model again.      *)
(*                                                                         *)
(* ModelGeneratorBase::generateNextModel states it for the generator of    *)
(* one evaluation unit ("generate and return next model, return null after *)
(* last model"), ModelBuilder::getNextIModel for the whole program.        *)
(***************************************************************************)
EXTENDS Naturals, Sequences

VARIABLES given,      \* the models returned so far, in order
          asked,      \* a request is being served
          exhausted   \* the null model has been returned

enumVars == <<given, asked, exhausted>>

Init == given = <<>> /\ asked = FALSE /\ exhausted = FALSE

Ask == /\ ~asked
       /\ asked' = TRUE
       /\ UNCHANGED <<given, exhausted>>

\* one more model, which the caller has not seen yet
Answer == /\ asked /\ ~exhausted
          /\ Len(given') = Len(given) + 1
          /\ SubSeq(given', 1, Len(given)) = given
          /\ \A i \in 1..Len(given) : given'[i] # given'[Len(given')]
          /\ asked' = FALSE
          /\ UNCHANGED exhausted

\* the null model
NoMore == /\ asked
          /\ asked' = FALSE
          /\ exhausted' = TRUE
          /\ UNCHANGED given

Next == Ask \/ Answer \/ NoMore

Safety == Init /\ [][Next]_enumVars

\* the caller is never kept waiting for ever
EveryRequestAnswered == asked ~> ~asked

Spec == Safety /\ EveryRequestAnswered
===============================================================================
