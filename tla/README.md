# A TLA+ verification of dlvhex

dlvhex evaluates HEX programs, answer-set programs with external atoms. The
program is split into *evaluation units*; a *model builder* walks the graph of
units and enumerates, on demand, the answer sets of the whole program by
combining the models of the units. The models of one unit come from a *model
generator*, which drives either an external solver process (DLV, through a
pipe and a thread of its own), clingo as a library, or a genuine solver inside
dlvhex (CDNL or clasp, with unfounded-set checking and learned nogoods).

This directory holds TLA+ modules translated from the code, TLC
configurations that check them on small instances, and proofs checked by
TLAPS. Paths such as `OnlineModelBuilder.h` stand for files under
`src/include/dlvhex2/` (headers) and `src/src/` (sources).

Contents: 1 the system, 2 the modules, 3 the runs, 4 bounds, fairness and
abstractions, 5 the proofs, 6 where code and documentation disagree, 7 what is
not modelled and the plan.

To check everything: `tlc -config X.cfg M` for each row of section 3, and
`tlapm M_proofs.tla` for each module of section 5.

## 1. The system

### Components that are modelled

| component | state | operations | interacts with |
|---|---|---|---|
| `OnlineModelBuilder.h` | per unit: current input model, current output model, reference count, running generator; the model graph | `getNextIModel`, `getNextOModel`, `ensureModelIncrement`, `advanceOModelForIModel`, `createNextModel`, `createIModelFromPredecessorOModels`; mutually recursive | `ModelGraph`, the units' model generators; called by `EvaluateState::evaluate` |
| `ModelGraph.h` | models with location, type, dependencies, per-unit successor sets | `addModel`, `getSuccessorIntersection` | both model builders |
| `AsynchronousModelGenerator.cpp` | queue of models, two flags, one mutex, two condition variables | thread body, `generateNextModel`, destructor | wraps any model generator |
| `ConcurrentMessageQueueOwning.h` | bounded ring of message pointers, two counters, one mutex, one condition variable | `send`, `receive`, timed and non-blocking variants, `flush` | results objects |
| `ASPSolver_dlv.cpp`, `ASPSolverManager.cpp`, `ProcessBuf.cpp`, `DLVProcess.cpp` | results object, solver thread, child process and its exit status, `shouldTerminate` | thread body, `getNextAnswerSet`, `enqueueEnd`, `enqueueException`, `close`, destructor | the message queue; used by `PlainModelGenerator` |
| `ASPSolver_libclingo.cpp` | the same results object; a thread in which clasp calls back | `printModel`, end and failure of the search, destructor | the message queue, clasp |
| `Nogood.cpp` | nogoods, free slots, hash index, counters of additions | `addNogood`, `removeNogood`, `defragment`, `forgetLeastFrequentlyAdded`, `clear` | CDNL solver, learning |
| `GenuineGuessAndCheckModelGenerator.cpp` (`updateEANogoods`), `NogoodGrounder.cpp`, `UnfoundedSetChecker.cpp` (`learnNogoodsFromMainSearch`) | container of learned nogoods, three remembered positions | learn, generalise, ground, transfer, clear or forget | external sources, solver, unfounded-set checkers |
| `CDNLSolver.cpp` | assignment, decision levels, causes, watches, unit and contradictory nogoods | propagation, decision, conflict analysis, backtracking, `getNextModel`, `restartWithAssumptions`, `addNogood` | `NogoodSet`, propagators |
| `InternalGroundASPSolver.cpp` | source rule per atom, set of unfounded atoms, on top of the CDNL solver's state | completion and singular loop nogoods, pointers updated with each `setFact` and `clearFact`, `getUnfoundedSet`, `getLoopNogood`, `getNextModel` | `CDNLSolver` (base class), propagators |
| `ClaspSolver.cpp` (the propagator) | copy of clasp's assignment, changed atoms, atoms per decision level, undo watches | `propagate`, `undoLevel`, `propagateFixpoint`, `isModel` | clasp, the propagators of dlvhex |
| `GenuineGuessAndCheckModelGenerator.cpp` (verification) | per external atom: evaluated, verified; watches per atom | `propagate` with `unverifyExternalAtoms` and `verifyExternalAtoms`, `finalCompatibilityCheck` | the solver back end, plugins |

### What is hard about them, and what makes them correct

* **Threads.** Two places hand models from one thread to another through a
  bounded buffer (`AsynchronousModelGenerator`, and the dlv results object over
  the message queue). Correct means: every model once and in order, the null
  model only at the end, every call answered, a destructor that returns
  wherever the other thread is. The second one adds failures: the child
  process may fail before, during or after its output, and the failure is
  reported by an exception that travels through the same queue and drops what
  is in it.
* **One condition variable for two sides.** The message queue notifies one
  waiting thread, of whichever side. No wakeup may be lost, and the two
  counters on which each notification depends must be exact through timeouts,
  spurious wakeups and the unlocked notification of `flush`.
* **Shared partial results.** Units share predecessors. A predecessor's output
  model may only be advanced by its sole user, and two paths that lead to one
  unit must never be combined from different models of it. Reference counts
  that are taken and given up at different depths of a mutual recursion have
  to get this right, and the enumeration must neither miss nor repeat a
  combination.
* **Positions into moving containers.** Forgetting moves nogoods to free slots
  while a hash index refers to them by number; learning, grounding and transfer
  remember positions in the same container from one call to the next.
* **Incremental search.** Watches, causes and decision levels of the CDNL
  solver are maintained through assignments, out-of-order implied literals,
  backtracking that clears facts one by one, flipped decision literals without
  a cause, nogoods that arrive at any time and restarts that keep what was
  learned. All models must be found, each once, and what is learned must
  follow from the problem. The ASP solver keeps source pointers in the same
  way: they must never form a cycle, or an atom that only supports itself
  passes for founded.
* **Copies and verdicts.** The propagator mirrors clasp's assignment through
  watches of literals and levels and is called only now and then; external
  atoms keep a verdict for as long as nothing they depend on changed. The copy
  must be exact when it is used, no verdict may be stale when it decides on a
  candidate, and an external atom must not lose the one atom it watches, which is
  picked from all atoms of the registry although only those of the program are
  ever assigned.

`PROJECT.json` lists each such place with its line under "hazards".

### Components that are not modelled, or only in part

| component | what it does | status |
|---|---|---|
| `InternalGroundDASPSolver.cpp` | the ASP solver with the unfounded-set checkers called on complete assignments | the checks are logic over programs |
| `GenuineGuessAndCheckModelGenerator.cpp`, the rest | unfounded-set checks during search, support sets, incremental grounding | not modelled |
| `ClaspSolver.cpp`, the rest | translation of programs and nogoods to clasp, steps of the enumeration | follows clasp's interface; external |
| `OfflineModelBuilder.h`, `CAUAlgorithms.h` | recursive join over common ancestor units | planned, against the same abstract enumeration |
| `EvalGraphBuilder.cpp`, `ComponentGraph.cpp` | construction of the graph of units, collapsing of components | planned; the evaluation graph is a parameter of `OnlineModelBuilder` instead |
| `State.cpp` | pipeline of states; cost optimisation and model limit in `EvaluateState` | the request loop is modelled, the rest planned |
| `PluginInterface.cpp` | cache of external answers and nogoods behind a mutex | planned |
| `PredicateMask.cpp`, `Registry.cpp`, tables, `ID.h` | masks over tables that other threads extend; append-only tables; kinds in bit fields | planned |
| `UnfoundedSetChecker.cpp`, heuristics | encodings of unfounded-set checks; an incremental set of atoms to skip | the skip set is planned, the encodings are logic over programs |
| `MLPSolver.cpp` | instantiation of program modules by value calls | planned last |
| other model generators, `SATSolver.cpp`, `GenuineSolver.cpp` | fixpoints and reduct checks; choice of back end | no protocol of their own |
| grounders, safety checkers, dependency graph, annotated ground program | computation over programs, sequential | instances small enough for TLC would not tell anything a unit test does not |
| parsers, printers, plugins, options, benchmarking, logging | input, output, rewriting, diagnostics | no state that interacts |

## 2. The modules

```
ModelEnumeration  (abstract)          SolutionEnumeration  (abstract)
   ^ implements                           ^ implements
   |-- AsynchronousModelGenerator         |-- CDNLSolver <- MCCDNLSolver
   |-- OnlineModelBuilder                 |-- InternalGroundASPSolver
   |     extends ModelGraph                     extends CDNLSolver
   |     <- MCOnlineModelBuilder                <- MCInternalGroundASPSolver
   |-- ConcurrentQueueResults
         instantiates                 ClaspSolver
         ConcurrentMessageQueueOwning   ^ implements (proved)
         <- LibclingoResults            |-- ExternalAtomVerification
                                              extends ClaspSolver
NogoodSet                                     <- MCExternalAtomVerification
   |-- SimpleNogoodContainer
   |     <- MCSimpleNogoodContainer
   |-- LearnedNogoods                 SuccessorIntersection
         <- MCLearnedNogoods            (a detail of ModelGraph)
```

Definitions whose comment starts with "Fault:" are plausible mistakes in the
definition that follows them. They are not part of any specification; the
properties are known to notice them.

**ModelEnumeration** is what every enumerator of models promises: each request
ends with a model that was not given before or with the null model, and after
the null model there is no model. **SolutionEnumeration** is the stronger
promise of a solver, whose set of solutions is known: each request ends with a
solution not yet found, or with the end if none is left; a restart begins anew
with another problem.

**AsynchronousModelGenerator** has the generator thread, the caller and the
destructor. A critical section is one action and ends at `wait`; `asleep` holds
who waits on which condition. The thread is `GenerateNext`, `Deliver` and
`RetryDeliver` (the two entries to the wait for space), `FinishThread`. The
caller is `CallGenerateNextModel`, `WaitForModel`, `TakeModel`, `ReturnModel`;
the last two are apart because the notification is sent after the lock is
released. The destructor is `RequestTermination`, `AwaitEom`, `RetryAwaitEom`,
`Join`. Either wait may wake spuriously. The wrapped generator is external: it
has some number of models.

**ModelGraph, OnlineModelBuilder.** A model is an index into a sequence of
records (location, type, dependencies, interpretation). The recursion is a
stack of frames, one action per straight-line piece of code between two calls;
`ret` is what the last call returned. `Increment`, `Backtrack`, `ShareOModel`,
`FetchOModel`, `GotOModel`, `CreateIModel` are `getNextIModel` with
`ensureModelIncrement`; `FirstIModel`, `FailWithoutInput`, `NextOModel`,
`GenerateOModel`, `ExhaustGenerator`, `AllOModelsUsed`, `NextInput` are
`getNextOModel` with the functions it alone calls. A unit's generator gives, for
each input, any number of models up to `MaxOut`; models are distinguished by
their index, so that an input model "contains" the output models it was joined
from, directly or below. Iterators over successors are represented by the model
they point to.

**SuccessorIntersection** is the merge walk of
`ModelGraph::getSuccessorIntersection` over any number of ordered successor
sets; `OnlineModelBuilder` uses its result, the first common successor
(`CommonSuccessors`).

**ConcurrentMessageQueueOwning** has all six operations and `flush` for any
sets of producers and consumers. `waiting` is who is on the condition variable;
`NotifyOne` wakes any of them. A timeout moves a thread out of `waiting`, and
it resumes when it has the mutex again. `flush` is two actions, since its
notification follows the unlock.

**ConcurrentQueueResults** instantiates the queue with capacity one, the solver
thread as producer and the evaluation as consumer, and adds the child process
(a script of lines and an exit code), `ProcessBuf::close` as probe, signal and
wait, the thread's loop with its exception handler, and the destructor. The
process ends with its exit code (`Exit`), or from a signal at any time, whether
`close` sent it or not (`Die`). `close` reads the exit code with `WEXITSTATUS`
alone, which is 0 for a process that a signal killed.
**LibclingoResults** extends it with the other solver, chosen once: the thread's
steps up to the queue are its own (`FindModel`, `TestBeforeEnqueue`,
`ClaspFails`, `SearchEnds`, `AfterSolve`), the queue, the caller and most of the
destructor are the same actions. A model that is found after the destructor has
begun is dropped before it is enqueued, which dlv's thread never does.

**NogoodSet** has `NogoodSet`'s operations as functions of a record, including
`defragment` as the two-index loop of the code. **SimpleNogoodContainer** calls
them in any order. **LearnedNogoods** uses them for the life of the nogoods that
external evaluations teach: `Learn`; `updateEANogoods` in its two variants,
`UpdateAndClear` (with assumption-based checkers, or without e-cycles while
`FLPDecisionCriterionE` is set) and `UpdateAndForget` (otherwise); and
`GetUnfoundedSet`, a search of the checker. The checkers of the components do not
interact, so that one is followed. It is of one of three kinds: assumption-based
(reads the container with each update that clears and before each search, and
keeps what it read), encoding-based (reads it before each search only), and
"ordinary", for a component without e-cycles (ignores external atoms). It
exists from the start, or from its first search if it is initialised lazily.

**CDNLSolver** has one action per branch of `getNextModel`: `Propagate`, the
three kinds of conflict, `StartAnalysis`, `ResolveImplied`, `Backjump`,
`BacktrackFact` (facts are cleared one at a time, in the order of the code),
`FinishBacktracking`, `PropagatorsLearn`, `Guess`, `ReturnModel`; and the
callers' operations `GetNextModel`, `LeaveModel`, `AddNogood`,
`RestartWithAssumptions`. `SetFact`, `ClearFact` and `AddNogoods` maintain the
watching structures as the code does.

**InternalGroundASPSolver** extends it, as its class does. A problem now has a
program; `ProgramInstance` gives the nogoods of the completion, of the shifted
program and of the singular loops, with the body atoms the code creates. The
actions of the base class are composed with `SourcesFollow`, which is what
this class's `setFact` and `clearFact` do with the source pointers. The
unfounded-set check is `StartUnfoundedSet`, `ExtendUnfoundedSet`,
`UseAsNewSource`, `LearnLoopNogood`. Where `getNextModel` of this class differs
from that of the base class, it has actions of its own: `FlipDecision` does not
load nogoods, and `LearnFromPropagators` goes on even if the assignment is
complete.

**ClaspSolver** is the propagator that sits between clasp and dlvhex. clasp is
external: it decides, implies, undoes level by level and restarts as it likes.
`Propagate` and `UndoLevel` are the two notifications,
`CallHexPropagators`, `SkipHexPropagators` and `IsModel` the places where
dlvhex's propagators are called or not, `HexPropagatorsReturn` their end.
**ExternalAtomVerification** composes it with the verification of external
atoms: a call begins with `UnverifyExternalAtoms`, goes on with
`VerifyExternalAtoms` for one changed atom after the other, and ends with
`EndPropagate`; `FinalCompatibilityCheck` decides on a candidate, with the option
`AlwaysEvaluateAllExternalAtoms` or without. The masks of external atoms range
over `RegisteredAtoms`, the ground atoms of the registry, of which only `Atoms`
occur in the ground program and are assigned by clasp. As in the code, watches
are picked from the whole mask, and an input is complete when the program's part of
the mask (`MaskInProgram`) is assigned.

## 3. The runs

| run | module, cfg | what it shows |
|---|---|---|
| `async_generator` | `AsynchronousModelGenerator` | every interleaving of thread, caller and destructor: in order exactly once, null only after the last model, no sleep of both sides, every call returns, the wrapper implements `ModelEnumeration` |
| `async_destructor` | same, `AsyncDestructor.cfg` | *violation*: the destructor can wait for ever (section 6) |
| `online_model_builder` | `MCOnlineModelBuilder`, `OnlineModelBuilder.cfg` | no assertion of the code fails, generators start once per input, reference counts are exact at every call depth, shared models do not change under an input model, joins are consistent, the enumeration is complete and implements `ModelEnumeration` |
| `successor_intersection` | `SuccessorIntersection` | the walk ends and returns the first common successor, or none if there is none |
| `message_queue` | `ConcurrentMessageQueueOwning` | counters exact, no lost wakeup between one producer and one consumer |
| `queue_results` | `LibclingoResults`, `ConcurrentQueueResults.cfg` | for dlv and libclingo: answer sets in order and, up to where the output ended, complete; failures that the exit code or the output shows are reported; every request answered, the destructor returns, `ModelEnumeration` implemented |
| `nogood_container` | `MCSimpleNogoodContainer`, `SimpleNogoodContainer.cfg` | the hash index points to used slots only, nothing added is lost, exact slots stay exact under additions and removals |
| `learned_nogoods` | `MCLearnedNogoods`, `LearnedNogoods.cfg` | each learned ground nogood reaches the solver with the next update; clearing the container takes none from a checker that makes use of it |
| `cdnl_solver` | `MCCDNLSolver`, `CDNLSolver.cfg` | watches exact in every state, causes justify their literals, learned nogoods are implied, the solutions are enumerated once each (`SolutionEnumeration`) also after restarts and with late nogoods, and every call of `getNextModel` ends |
| `asp_solver` | `MCInternalGroundASPSolver`, `InternalGroundASPSolver.cfg` | no learned nogood excludes an answer set, source pointers are well-founded in every state, the answers are the answer sets, once each, and every call ends |
| `asp_source_pointers` | same, `ASPSourcePointers.cfg` | *violation*: an atom that lost its source rule counts as a fact (section 6) |
| `external_atoms` | `MCExternalAtomVerification`, `ExternalAtomVerification.cfg` | the copy of the assignment is exact, no verdict is stale, a candidate is compatible exactly if all external atoms verify, no watch is lost if the mask lists the atoms of the program first |

`PROJECT.json` gives, for each property, a mutated definition that breaks it.

## 4. Bounds, fairness and abstractions

### Bounds

* *Asynchronous generator*: a cache of two and up to four models. The cache
  fills, empties and is refilled, and the end can come in every one of these
  situations. The proofs remove both bounds.
* *Online model builder*: five units, the final one included. It takes four
  units below the final one to have two units that share a predecessor and a
  third that joins them, with another predecessor besides; the runs take every
  way in which the units can depend on each other such that the fourth joins
  the second and the third, and every join order. Generators give zero to two
  models for each input of the first two units (two alternatives, or none, in
  a shared ancestor are what consistency is about) and zero or one above.
  Redundancy elimination is on and constant space is off, as
  `OnlineModelBuilder` is configured by default. The proofs remove the bounds
  on the graph and on the generators, and leave both options open.
* *Successor intersection*: three predecessors, all sets of up to four
  successors: with three sets the walk has to start over after it moved an
  earlier iterator. The proofs remove both bounds.
* *Message queue*: one producer and one consumer, a queue of two, as in the
  results objects, whose queue holds one. The proofs remove the bound on the
  capacity, and for the counters the bound on the threads.
* *Results object*: every output of up to three lines of four kinds, both exit
  codes, and death by a signal at any time. Two answer sets fill the queue and block the thread; a third
  line can be the end, an error, or an empty line behind them. For libclingo up
  to three models, or a failure behind up to two. The proofs remove the bound.
* *Nogood container*: three nogoods of which two collide, add counts up to
  three, five counters. A forgotten nogood counts less than a half of the
  maximum instead of 5 %, which keeps the counts small; `ForgetFactor` is a
  constant of the module. The proofs remove all of these bounds.
* *Learned nogoods*: two ground and two nonground nogoods related by
  generalisation and grounding (one that is learned and one that arises), add
  counts up to three and five counters; all options and kinds of checkers. The
  proofs remove these bounds.
* *CDNL solver*: *every* set of nogoods that mentions both of two atoms (249
  problems), each restarted once at any point between two calls, with every
  consistent set of assumptions that leaves an atom open; twelve problems over
  three atoms, each two-literal nogood beside one of three literals, with a fact
  and a two-literal nogood that come late, alone or together, in any call or
  between calls; fifteen over four atoms, which need backjumps over levels, an
  exhausted level below a conflict, and a proof that there is no model. The
  proofs remove these bounds for all but the end of calls.
* *ASP solver*: fourteen programs over four atoms, with up to six more for
  rule bodies. All have a loop of two atoms; its support comes from a
  disjunction, an even loop, a fact or a disjunctive head with a loop atom, and a
  further rule makes the loop larger, supports it conditionally, or
  constrains it. One has nogoods that come late. Two atoms are the least that
  can be unfounded together, the larger loops test that a set grows, and four
  let it lose one support while it has another. For the learned nogoods the
  proofs remove the bounds.
* *External atoms*: four atoms over three variables, two of them the two
  literals of one variable, so that one notification sets one atom and clears
  another. Two external atoms whose masks overlap and hold both of these atoms;
  one is evaluated whenever its watch is assigned, the other as its heuristic
  likes. The mask of the first ends with an atom outside the program, that of the
  second has one in front of an atom of the program. Three variables give three levels, so that changes of several
  levels pile up between two calls. The proofs remove all of these bounds.

### Fairness

Safety properties need none. The liveness properties assume weak fairness of
what the operating system schedules and of nothing else:

* `AsynchronousModelGenerator`: each of the two threads, while it can take a
  step, eventually takes one. Both hold the one mutex only for a bounded time,
  so that weak fairness is enough. No caller has to ask or to destroy, and no
  waiter is woken except by a notification.
* `ConcurrentQueueResults`: the same for the thread and the evaluation, and the
  child process goes on computing: a solver that never writes another line does
  block its caller. Nothing obliges the evaluation to call again.
  `LibclingoResults` assumes the same of clasp, which runs in the thread itself
  and sees the termination flag only with its next model.
* `OnlineModelBuilder`, `SuccessorIntersection`: one thread that keeps running.
  `EvaluateState::evaluate` asks until it gets the null model, so that asking is
  part of the same thread.
* `CDNLSolver`: a call of `getNextModel` that can continue does. The callers'
  operations are not fair. `InternalGroundASPSolver` assumes the same.

### Abstractions worth knowing

* CDNL: the activity heuristic is an arbitrary unassigned literal, and the
  order among unit nogoods, contradictory nogoods and implied literals is left
  open, so that the properties hold for every heuristic and every order of the
  hash sets. (In the ASP solver unit nogoods are taken in one fixed order, to
  keep its runs small; guesses, conflicts and resolutions stay open.) Nogoods are sets of literals: `IndexPointsToUsedSlots` and
  `NothingIsLost` justify that an index stands for one nogood. The facts of
  backtracking are cleared in the order of the code, since watches depend on
  it. Propagators may add any subset of the late nogoods in any round.
* Restarts with assumptions that assign every atom are left out: the solver
  would then count as complete before it propagated. Its caller, the
  unfounded-set checker, leaves open the atoms it asks about: it assumes the
  shadow of the interpretation and excludes atoms from the unfounded set.
* Results object: answer sets are their line numbers. `shouldTerminate` is a
  plain `bool`; its writer takes the mutex right after the write and its reader
  calls library code between two reads, so one step per access yields every
  outcome that the build can produce. A line that the death of the process cuts off
  is one that cannot be parsed.
* Learned nogoods: a lazily initialised checker never sees what was cleared before
  its first search, and `ClearedReachesCheckers` does not ask for it. The explicit
  FLP check (`--flpcheck=explicit`) reads the container too and is not modelled,
  nor are the monolithic checkers that incremental grounding resets.
* Online model builder: a unit's generator is any function from inputs to a
  number of models. Printing and statistics are left out.
* ASP solver: programs are head-cycle free, as the class requires for its
  answers to be answer sets; `Set` iterates in the order of the addresses, so
  that `Min` picks the first atom or rule. `restartWithAssumptions` has no
  caller for this class, and the flag of the first model is left out: it is set
  exactly if nothing was returned yet.
* External atoms: all variables of clasp are frozen, so that none is
  eliminated. The nogoods that propagators learn are left open; they show as
  implied literals and conflicts, which clasp may produce at any time. The
  candidate is clasp's assignment: clasp goes on only when it is asked again.
  `ClaspDeferNPropagations` has no effect beyond 0, for the counter that is
  compared with it is never increased; time alone defers, which
  `SkipHexPropagators` allows at any fixpoint. Atoms outside the ground program
  are false for good. The registry may grow during the search; new atoms have
  higher addresses and are outside the program, and `RegisteredAtoms` may hold them
  from the start. Unfounded-set checks, support sets and `NoPropagator` are left
  out.
* `TypeOK` documents the shape of the state in the modules that have it; the
  proofs show it where they need it.

## 5. The proofs

TLAPS proves the following for all values of the constants that satisfy the
modules' assumptions.

`AsynchronousModelGenerator_proofs` assumes `MaxModels \in Nat \ {0}` and
`MaxGenerated \in Nat`.

| theorem | says |
|---|---|
| `TypeCorrect`, `CacheIsBounded` | types; the cache never exceeds its capacity, in spite of spurious wakeups |
| `DeliveryIsInOrderExactlyOnce` | nothing is lost, repeated or reordered |
| `NullIsTheEnd` | the null model is returned only after the last model |
| `NoLostWakeup` | thread and caller never sleep together, except in the destructor |
| `WrapperEnumerates` | the safety part of `ModelEnumeration` is implemented |

`IInv` is the inductive invariant. "Delivered is 1, 2, 3, ..." is not inductive,
and its concatenation is hard on the prover, so `PartsInOrder` says it of
the received models, the one in flight and the queue, and `PartsCounted` ties
their number to the progress of the thread. `SleepersWait` says why each sleeper
sleeps, where `consumer = "notifySpace"` stands for the window between unlock
and notification. `FlagsFollow` and `EndIsEnd` tie `eom`, `terminationRequest` and the
null model to where the threads are. `Preserved` has a step per action. The
refinement maps `ReturnModel` to an answer or to the end, `CallGenerateNextModel`
to a request, and all other actions to stuttering.

`SuccessorIntersection_proofs` assumes at least two predecessors, as the code does
when it walks, and any number of models.

| theorem | says |
|---|---|
| `WalkTypeCorrect` | every iterator points to an element of its set |
| `PassesNoCommon` | no iterator passes a common successor |
| `ReturnsFirstIntersected` | the result is the first common successor; none only if there is none |

`WalkInv` adds to the three facts that there is no result during the search.
`CommonReachable` and `OvertakenBelowCommon` are the two arguments: a common
successor stays reachable from every iterator, and what one iterator overtakes
is below every common successor.

`ConcurrentMessageQueueOwning_proofs` assumes finite disjoint sets of threads and
a capacity of at least one.

| theorem | says |
|---|---|
| `QueueTypeCorrect` | the queue never exceeds its capacity |
| `CountersAreExact` | `enq` and `deq` count exactly the threads inside their waits, for any number of threads |
| `NobodySleepsOn` | with one producer and one consumer (a hypothesis of the theorem), no wakeup is lost |

`QInv` is `TypeOK`, exact counters, and `WaitersCall`: who sleeps or timed out is
in a call that can. Lemmas `SenderEnters`, `ReceiverEnters` and `CallerLeaves`
state how one thread changes the two cardinalities. `NobodySleepsOn` rests on
the counters: a sleeper is counted, so a notification is sent, and as the other
side is the only other thread, it is the one woken. With two consumers this step
fails, and so does the property (section 6).

`ConcurrentQueueResults_proofs` assumes only that the output has some bound; it
covers both solvers (`ResultsInit`, `ResultsNext`).

| theorem | says |
|---|---|
| `ReceivedInOrder` | answer sets are received in order, without gaps or repetitions |
| `NullIsComplete` | the null answer set comes after every answer set in front of the end of the output, wherever an exit or a signal has put that end |
| `FailureNeverLooksRegular` | neither a process that exited with an error nor a line that was not understood ends like a regular output |
| `ResultsEnumerate` | the safety part of `ModelEnumeration` is implemented |

"In order" alone is not inductive: what the caller will receive is somewhere
between the thread and the queue. `Order` follows a line on its way (`Pending`:
held by the thread, waiting in `send`, in the queue) and says that every line
with an answer set is received or pending unless something was `Dropped`, which
only happens in an exception or in the destructor, after which no answer set is
received. `Places` says where the threads can be in the queue's calls and
which element is in flight, `EndFacts` what the thread knew when it sent the end
marker. Nothing is assumed of when the process dies. A process that a signal killed is
outside `FailureNeverLooksRegular`, since the code does report it as a regular end
(`DeathIsReported`, section 6); what remains true of it is `NullIsComplete`. The queue's operations enter by three lemmas (`SendStores`,
`ResumeSendStores`, `ReceiveTakes`); who is asleep plays no part in safety.

`ExternalAtomVerification_proofs`, which begins with the proofs about `ClaspSolver`, assumes that
`hexToClasp` gives each atom a literal, that masks are sets of registered atoms,
of which the atoms of the program are some, and that atoms are numbers; the sets
may be infinite.

| theorem | says |
|---|---|
| `CopyIsExact` | the copy equals clasp's assignment whenever clasp's queue is empty |
| `VerificationImplementsPropagator` | the composed specification implements `ClaspSolver` |
| `CopyExactWhileVerifying` | so the copy stays exact in the composition |
| `NoStaleVerdict` | no kept verdict is stale once the changes have been seen |
| `CompatibilityIsRight` | a candidate is compatible exactly if all external atoms verify |
| `WatchIsNeverLost` | an external atom that is always evaluated has its verdict after the call that completes its input, if no atom outside the program comes before one of the program in its mask (`OutsideLast`) |

`CopyInv` says what the copy may lack: exactly the queue. `PairsOK` is the part
that makes it inductive: the recorded pairs of atom and level are those of the
assigned variables that left the queue, and every level above 0 with such a
pair has an undo watch, although only some notifications add one.
`VerificationInv` adds `VerdictInv`: a verdict is right for the copy unless a
changed atom is in the mask, and while the propagators run, all that has
changed and was evaluated has been unverified; and `WatchInv`: an external atom whose
heuristic always agrees, and whose mask lists the atoms of the program first,
watches an atom of the program's part of its mask that is not assigned or that the
next call, or the rest of this one, comes to (`Watching`), as long as it is not
evaluated. That the first of a set of atoms is one of the program if the set has one
is `FirstInProgram`; without the condition the statement is false
(`EvaluatedWhateverIsRegistered`, section 6). The other theorems hold for all masks. `FirstIn` takes the first
element of a set of numbers from the well-foundedness of `<`.

`CDNLSolver_proofs` assumes that nogoods are sets of integers, and that the atoms of
a problem are 1, 2, ..., n, for any n; there may be any number of problems and
nogoods.

| theorem | says |
|---|---|
| `WatchesHold` | unit and contradictory nogoods are found exactly by the watched literals |
| `CausesHold` | causes justify the implied literals |
| `LearnedHold` | learned nogoods exclude nothing |
| `SearchEnumerates` | `SolutionEnumeration` is implemented: no solution is missed and none returned twice (hypothesis: the facts of each problem leave an atom open, `FactsLeaveOpen`) |
| `LearnedLoopsHold` | no nogood that the ASP solver learns, loop nogoods included, excludes an answer set (hypothesis: each problem comes from a ground program, `ProblemsArePrograms`) |

`CDNLInv` is the inductive invariant. `WatchesExact` alone is not inductive:
`clearFact` takes a nogood that watches a single literal for a unit one, without
looking, so `WatchOK` says also what inactive nogoods watch, nothing or several
literals, never one. `SetFactOK`, `ClearFactOK` and `AddNogoodsOK` show that each of the
three operations keeps this, whichever literal is set or cleared in whichever
order; the searches for literals to watch are handled by `FirstOfEnough`. Of the
search itself the invariant keeps what makes these operations legal: a flipped
literal is unassigned by the time it is set (`FlippedOK`), each level has its decision literal, so
that a guess finds room (`DecisionsOK`, `RoomForGuess`), and nothing above the
current level is assigned except while facts are cleared (`LevelsOK`). Causes
survive backtracking since a cause has no literal of a higher level (`CausesOK`,
`ClearedCauses`). `ImpliedOK` adds to `LearnedAreImplied` the nogood under
analysis: an assignment that contains it after a resolution would contain it
before, or the cause. Minima, maxima and first literals come from the
well-foundedness of `<` (`LeastElement`, `GreatestElement`, `FirstLiteral`).

The second part of the module is about `InternalGroundASPSolver`. Every action of
this class is, for the search, a step of the base class, the assignment of its
facts, or a step in which nogoods are only added, so that `CDNLInv` holds here too (`ASPSearchStep`).
That an answer set respects the given nogoods (`GivenKeepAnswerSets`) is the soundness
of the completion, of the shifted program and of the singular loops: a body atom is
true exactly if its body is (`BodiesTrue`), and a minimal model of the reduct has
for each of its atoms a rule that has no other true head atom and does not need the atom. For the loop
nogoods (`LoopNogoodKeepsAnswerSets`): if an unfounded set were true in an answer set while each of
its external rules is satisfied independently of it, the answer set without it would be a smaller
model of the reduct. Of the source pointers the proof needs only that facts keep their mark and
are never unfounded (`SourcesOK`): a loop nogood is right for *any* set of
nonfacts, whatever led to it, so that the flaw of section 6, which lets unfounded
sets go unnoticed, makes the solver return too much but never learn too much.
`KeepOK` carries this through conflict analysis, as `ImpliedOK` does above. The
theorem needs no hypothesis that programs are head-cycle free.

The third part is about the enumeration. Its invariant `EnumerationInv` adds to
`CDNLInv` what the levels mean. Levels up to `exhaustedDL` hold a flipped literal:
one side of their decision is done. Neither half of the promise is inductive, since
a flipped literal has no cause that would justify it.

* *Nothing is missed* (`MissedOK`): a required solution that was not returned and
  contains the decision literals up to some level contains also the flipped
  literals up to this level, hence, by the causes and the learned nogoods, all
  facts of it (`FactsFollow`). So a conflict on an exhausted level shows that there is
  no such solution, and one at level 0 that none is left at all.
* *Nothing is repeated* (`FoundOK`): a returned model contains the decision
  literals up to some exhausted level and the negation of a fact of that level, or
  of the literal about to be flipped. A backjump stops above the exhausted levels
  and a flip exhausts the level below, so this stays, and the next model differs
  (`ModelIsNew`).
* *Only solutions* (`Sound`), as long as no nogood comes late: above the exhausted
  levels the facts are in the order of their levels, and each nogood was open or
  falsified below each of these levels. A guess or a flip that completes the
  assignment without another round of propagation therefore violates nothing.
  With a late nogood this fails (`AddedNogoodsSatisfied`, section 6), and the
  theorem says only that no assignment is returned twice.

Each kind of step is described once (`PropagateDoes`, `GuessDoes`, `FlipDoes`,
`BackjumpDoes` and others, all together in `Effects`), and the parts of the invariant
are proved from these descriptions. The hypothesis is needed, since
`getNextModel` takes a complete assignment at level 0 for the end
(`CDNLSolver.cpp:755-760`): facts that assign all atoms, or a problem without
atoms, would have no model. For the same reason the model restarts
only with assumptions that leave an atom open.

`SimpleNogoodContainer_proofs` assumes what the module does: every nogood has a hash, and `ForgetFactor`
is positive. There may be any number of nogoods, with any collisions of hashes,
and any bounds on the counters. Of `LearnedNogoods`, to which the second part
belongs, it assumes that finitely many nogoods are generalized or instantiated
from each (`FinitenessAssumption`), as the code computes them one by one.

| theorem | says |
|---|---|
| `TypeCorrect` | types |
| `IndexIsExact` | the hash index points to used slots only, each with a nogood of that hash |
| `NothingIsEverLost` | what was added and neither removed nor forgotten is found |
| `CallsStayExact` | exact slots stay exact under additions and removals |
| `NogoodsReachSolver` | `LearnedReachesSolver`: each update hands all to the solver, whatever was forgotten, moved or cleared |
| `NogoodsReachCheckers` | `ClearedReachesCheckers`: clearing takes no nogood from a checker that makes use of it, for every kind of checker and either condition for clearing |

`ContainerInv` says that of the container between two calls, `LoopOK` that of the
set between two rounds of `defragment`: the last slot may then be free, even the
only one left, and free indices may lie beyond the end, but the index is exact
and every nogood is present. `DropKeeps` and `MoveKeeps` are the two halves of a
round: free slots at the end are in no entry of the index, and a moved slot takes
its entry with it. `LoopKeeps` is the induction over the rounds, by a least
counterexample; since the loop is a recursive function, that this function exists
is proved in the same way (`RoundsExist`). `CallsStayExact` counts: the number
of nogoods is the number of used slots (`CountOfUsed`), and the map from used slots
to known nogoods is a bijection as long as each nogood has one slot.

`TransferInv` says why a remembered position is enough: outside an update no
slot is free (`DefragmentKeeps`), new nogoods come behind the old ones (`Grown`), the
slots up to `transferredIndex` hold no ground nogood that the solver lacks, and
whatever was learned since the last clear is in the solver or still held. After
forgetting, the position is set to the end again, and what defragmenting moves
below it was held before (`ForgetHolds`). Whether updates clear follows from the
options alone, so that the position is always 0 if they do. What was learned since
the last clear and is ground is then still held, so an assumption-based checker that
exists reads all of it; and encoding-based checkers exist only where updates forget
instead. One that existed from the start has, before each update, all that the
solver has. The loops of an update are folds
of the community modules, recursive functions on the subsets of a finite set:
that such a function exists (`FoldExists`) and stays in a set that its steps do not leave
(`FoldStays`) is proved by a least counterexample.

`OnlineModelBuilder_proofs` assumes an evaluation graph as `EvalGraphBuilder`
makes it (`EvalGraphsAssumption`: each unit depends on earlier ones, each at most
once, and the final unit on all others in order), of any number of units, with
any bounds on the generators; both options may be on or off unless the theorem
says otherwise.

| theorem | says |
|---|---|
| `BuilderTypeCorrect` | types |
| `RefcountsAreExact` | reference counts are exact at every call depth |
| `InputsStayCurrent` | no model is advanced under an input model that was joined from it |
| `JoinsAreConsistent` | no input model contains two alternative models of one unit |
| `GeneratorsAreStartedOnce` | a generator is started once for an input model |
| `AssertionsAlwaysHold` | with constant space off, no assertion fails |
| `AlwaysAsserted` | with constant space on, all assertions but the one about freed models hold |
| `EnumerationIsComplete` | with redundancy elimination, no combination is missed |
| `BuilderEnumerates` | the safety part of `ModelEnumeration` is implemented |

`BuilderInv` is the inductive invariant. The properties are far from inductive:
what a unit may do depends on who calls it from where, for the two functions
are mutually recursive over a graph of any depth. What makes the proof possible
is that the final unit depends on *all* units, in the order of their creation.
While it looks for its next input model, the units up to a `Level` have an
output model and the final unit holds a reference to each; the units above have
neither output model nor reference (`UnitsOK`). A unit that is called is the one
just above or at the level, so that its own predecessors are all in use by the
final unit: it shares them, or gives up its reference to them, but never advances
one. Hence at most four calls are active (`StackOK`), however deep the graph, and
the fourth only gives up a reference.

`RefsOK` counts references as pairs of a unit and a position, `Held(v)` being the
number of predecessors to which `v` holds one; a reference that a pending call
is about to give up still counts, which is where it differs from the property.
`CurrentAtoms` says that all the models whose atoms are in a current output model are
current themselves: whatever is joined from current models is then consistent,
along whatever paths atoms reach a unit. The last two theorems rest on the
order of the walk. Models are numbered in the order of their creation and a
unit's output models for an input model are used in that order, so that the
combinations of the final unit appear in lexicographic order. A combination has
`Passed` once it comes before the current models, or equals them and the walk is
`Leaving` them; `PassedOffered` says that what has passed was offered to the next
unit, `AnswersOK` that every answer has passed. So the next answer is new, and after
the null model, when `Level` is 0, everything has passed. That a *consistent*
combination is one in which each model was computed from the others
(`ConsistentCombination`) ties this to the definition of `EnumerationComplete`,
whose recursive function is unfolded by `CombinationsUnfold`.

Two hypotheses are needed. With constant space, a freed model can be joined
again (`FreedModelsAreRecomputed`, section 6), which is what the assertion in
`createIModelFromPredecessorOModels` excludes; all else holds in this
configuration too. Without redundancy elimination, an input model is created anew
each time its combination comes up, so `EnumerationComplete` is stated with it.

Only model-checked are: all liveness (`CallReturns`, `RequestAnswered`,
`DestructorReturns`, `WalkEnds`, and `EveryRequestAnswered` as a part of
`ImplementsEnumeration` of the modules that implement `ModelEnumeration`), as
fairness and `ENABLED` are beyond the prover; and of the ASP solver
`ImplementsAnswerSets` and `SourcesWellFounded`, which hold for the programs of
its run but not for all programs (section 6).

## 6. Where code and documentation disagree

Two runs show a disagreement:

* **`async_destructor`**. The destructor of `AsynchronousModelGenerator` says
  "terminate the model generator thread", sets `terminationRequest` and waits
  for `eom`. A thread that already waits for queue space looks only at the queue
  when it wakes up, and nobody notifies it. The destructor never returns.
* **`asp_source_pointers`**. When a head atom of a disjunctive rule becomes
  true, `InternalGroundASPSolver.cpp:437` reads `sourceRule[...]` of the other
  head atoms. For an atom without a source rule this creates the entry
  `ID_FAIL`, the "pseudo source rule ID_FAIL to mark that this is a fact and
  founded by itself" (`:307`). From then on the atom never becomes unfounded,
  although "a fact becomes unfounded if it has no source pointer and if it is
  non-singular" (`:528`). For `1 v 4. 1 :- 2. 2 :- 1. 3 v 4.` the solver then
  returns sets that are no answer sets; `DisjunctiveLoop` in
  `MCInternalGroundASPSolver` is this program.

  The pointers have a second weakness, found when a proof of `SourcesWellFounded` failed. `getUnfoundedSet`
  accepts a rule as new source if its positive body has no unfounded atom *of
  the component of the atom it looks at* (`:650`), but the rule becomes the source of
  *all* unfounded atoms in its head (`useAsNewSourceForHeadAtom`, `:585-626`), and these
  may lie in other components. For `1 v 4 :- 3. 3 :- 4. 1 :- 2. 2 :- 1.`, where {1,2}
  and {3,4} are components and no two head atoms share one, the first rule
  is taken for 1, since 3 is of another component, and becomes the source of 4 too,
  whose support goes through 3 back to 4. With this program in place of those of
  `MCInternalGroundASPSolver`, TLC violates `SourcesWellFounded` and
  `ImplementsAnswerSets`: the solver returns {3,4}, which supports only itself, although the
  only answer set is empty. The programs of the run `asp_solver` have no such rule.

Ten more statements of comments and documentation were found not to hold while
the modules were written. Each is a definition in its module, with the comment's
words, and TLC violates it with the constants named here (and the values of the
module's cfg otherwise):

| definition | constants | what happens |
|---|---|---|
| `FreedModelsAreRecomputed` (`OnlineModelBuilder`) | `NumUnits = 3`, two independent units of two models below the final one, `ConstantSpace = TRUE` | `--help` says that freed models may be "computed multiple times" (`dlvhex.cpp:275`); a model freed at `OnlineModelBuilder.h:866` stays a successor of its input and is joined again from a null interpretation |
| `WakesAProducer` (`ConcurrentMessageQueueOwning`) | two consumers, `Capacity = 1` | `notifyProducer` promises to "notify one producing thread" (line 78); on the shared condition variable the other consumer can take the notification, and the producer sleeps on beside free space |
| `KillsOnlyIfAsked` (`ConcurrentQueueResults`) | `MaxLines = 1` | `close(kill)`: "if kill is true, kill if not already ended" (`ProcessBuf.h:82`); the POSIX branch always sends SIGTERM, also to a process that is about to end by itself, and the exit code of one that it kills reads as 0. All that follows an empty line is ignored anyway; what an own signal does is the next row |
| `DeathIsReported` (`ConcurrentQueueResults`, checked in `LibclingoResults`) | `MaxLines = 2` | of `closeAndCheck`: "closes process and throws on errors" (`ASPSolver_dlv.cpp:235`). `ProcessBuf::close` returns `WEXITSTATUS` of the wait status without asking `WIFEXITED` (`ProcessBuf.cpp:389-390`). If dlv dies from a signal of its own in the middle of its output (a segmentation fault, or the kernel kills it when memory runs out), the thread finds the end of the pipe and the exit code 0, and the caller gets the regular end with answer sets missing |
| `NoFreeIndexBelowCount` (`SimpleNogoodContainer`) | `ForgetFactor = 20`, `MaxAdded = 21`, `MaxCounts = 4`, adding and forgetting | `defragment`: "no free indices in the range 0-(getNogoodCount()-1)" (`Nogood.h:95`); if its two indices meet at a free slot, the slot stays and counts as used |
| `ForgetsOnlyRare` (`SimpleNogoodContainer`) | the same, and clearing | only nogoods with "less than 5% of the maximum add count" are deleted (`Nogood.cpp:450`); `operator=` (line 330) does not copy `addCount`, so that after `clear` new nogoods are judged by old counts |
| `InstantiatesAll` (`LearnedNogoods`) | those of `LearnedNogoods.cfg` | `update` goes "through all nonground nogoods which have not been instantiated so far" (`NogoodGrounder.cpp:61`); its position is reset when the container is cleared, not when it shrinks by forgetting |
| `EvaluatedWhateverIsRegistered` (`ExternalAtomVerification`) | `AlwaysEvaluated = {1, 2}` | eacomplete: "Evaluate whenever all atoms relevant for the external atom are assigned" (`dlvhex.cpp:202`), and the test for complete input looks at the part of the mask in the program (`GenuineGuessAndCheckModelGenerator.cpp:1158-1160`). But the watch is the first atom of the whole mask (`:389-393`), or the first that is not assigned (`getWatchedLiteral`, `:965-984`), and one outside the program is never assigned: the external atom is not looked at when the rest of its input gets assigned |
| `FoundImpliedLit` (`CDNLSolver`) | four atoms, nogoods {1,2,-3}, {1,2,-4}, {-1,2}, {-1,3}, {-1,4}, late nogood {1,-2} | `assert(foundImpliedLit)` (`CDNLSolver.cpp:155`) expects literals without a cause only on level 0; a flipped decision literal has none either and shares its level with a decision literal |
| `AddedNogoodsSatisfied` (`CDNLSolver`) | three atoms, nogoods {1,2}, {1,2,3}, late nogoods {-1,-2}, {3} | `anotherIterationEvenIfComplete` is "needed to check if newly added nogood (e.g. by external learners) are satisfied" (`CDNLSolver.cpp:766`), but the loop at line 767 does not test it, and leaving a model by a flip (`:755`) can complete the assignment at once: a model is returned that a loaded nogood excludes |

`InternalGroundASPSolver::getNextModel` does test its flag, but has the second
of these ways too: a flip at line 916 that completes the assignment skips the
loop, so that with external learners a nogood that was loaded on other levels can
be missed. Without them no run finds a wrong answer (`ImplementsAnswerSets`).

Read but not checked: `doesRuleExternallySupportLiteral` (`:696`) looks for a
literal in a rule body by its whole identifier, and `createLiteral` drops the
property bits of auxiliary atoms, so that a rule could seem to support an
auxiliary atom from outside a loop it belongs to. The model has no auxiliary
atoms.

Not a disagreement, but worth knowing: a heuristic that declines to evaluate an
external atom when its input is complete makes the atom lose its watch, and only
the final check evaluates it then (unless a change gives it a new watch);
`EvaluatedOnceComplete` is therefore stated for the heuristics always and
eacomplete, which agree whenever the input is complete.

None of these breaks a property of section 3 within its bounds: a skipped
instance or a wrongly forgotten nogood costs propagation and not soundness, the
queue is only used with one thread on either side, and `--constspace` is off. An
external atom that lost its watch is evaluated by the final check, so that no
answer is wrong (`CompatibilityRight` holds for all masks). Two properties are stated so
that they leave such cases out: `FailureIsReported` is about exit codes and lines,
not about death by a signal, and
`EvaluatedOnceComplete` about masks in which the atoms of the program come first
(`OutsideLast`).

## 7. What is not modelled, and the plan

Done are, in the order of the plan: the two abstract enumerations; the
asynchronous generator and the message queue, with proofs; the model builder
with the model graph, and the intersection walk, with proofs; the results
objects with proofs; the nogood containers and the transfer of learned nogoods,
with proofs; the CDNL solver and the ASP solver, with proofs; the propagator of
clasp and the verification of external atoms, with proofs.

Not modelled, though a model would make sense, in order of interest:

1. **`OfflineModelBuilder` with `CAUAlgorithms`**, against `ModelEnumeration`; and
   the **construction of the evaluation graph**, which would give
   `EvalGraphsAssumption` as a result.
2. **`EvaluateState`** with cost and limit (`State.cpp:997`), the **plugin cache**
   (`PluginInterface.cpp:254-320`), **`PredicateMask`** (`:122`) and the tables
   with their locks, the **skip set** of the unfounded-set heuristics.
3. **The rest of the guess-and-check generator** and `InternalGroundDASPSolver`:
   when unfounded-set checks run during search and what they may skip. The
   checks themselves are encodings of programs.
4. **`MLPSolver`**.

A proof that could follow: `SourcesWellFounded` for programs without disjunction,
the only ones for which section 6 leaves it standing; it needs that the components
of a graph are ordered.

Left out for good: parsers, printers, grounders, safety checkers, plugins and
options, for the reasons in section 1; and memory reclamation of message
objects, which the queue owns only as pointers.
