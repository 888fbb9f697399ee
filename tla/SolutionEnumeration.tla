-------------------------- MODULE SolutionEnumeration --------------------------
(***************************************************************************)
(* What a solver promises to the one who asks it for models: each request  *)
(* is answered by a solution that was not returned before, or, when no     *)
(* required one is left, by the end.  Constraints that arrive late make    *)
(* some solutions optional; only a restart changes the problem.            *)
(***************************************************************************)
VARIABLES solutions,  \* all solutions of the current problem
          required,   \* those that the end must not come before
          found,      \* those that were returned
          asked,      \* a request is being answered
          finished    \* the end was returned

vars == <<solutions, required, found, asked, finished>>

Init ==
  /\ required \subseteq solutions
  /\ found = {} /\ ~asked /\ ~finished

Ask ==
  /\ ~asked /\ ~finished
  /\ asked'
  /\ UNCHANGED <<solutions, required, found, finished>>

ConstraintArrives ==
  /\ required' \subseteq required
  /\ UNCHANGED <<solutions, found, asked, finished>>

AnswerSolution ==
  /\ asked
  /\ ~asked'
  /\ \E s \in solutions \ found : found' = found \cup {s}
  /\ UNCHANGED <<solutions, required, finished>>

AnswerEnd ==
  /\ required \subseteq found
  /\ ~finished
  /\ ~asked' /\ finished'
  /\ UNCHANGED <<solutions, required, found>>

Restart ==
  /\ ~asked
  /\ found' = {} /\ ~asked' /\ ~finished'

Next == Ask \/ ConstraintArrives \/ AnswerSolution \/ AnswerEnd \/ Restart

Spec == Init /\ [][Next]_vars
===============================================================================
