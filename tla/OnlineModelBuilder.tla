-------------------------- MODULE OnlineModelBuilder --------------------------
(***************************************************************************)
(* OnlineModelBuilder: depth-first, on-demand enumeration of the models of *)
(* a program that was split into a graph of evaluation units.              *)
(*                                                                         *)
(* getNextIModel(u) advances the combination of output models of u's       *)
(* predecessors like an odometer and joins it to an input model of u;      *)
(* getNextOModel(u) advances along the output models of the current input  *)
(* model.  They call each other down to the roots of the graph, and units  *)
(* share predecessors: orefcount counts who is using the current output    *)
(* model of a unit, and only a sole user may advance it.                   *)
(*                                                                         *)
(* The recursion is modelled with an explicit call stack, so the module    *)
(* has one action per straight-line piece of the code and no recursive     *)
(* operator.  ensureModelIncrement is part of its only caller's frame,     *)
(* advanceOModelForIModel and createNextModel are inlined (they do not     *)
(* call back).  What the model generator of a unit computes is left open:  *)
(* for every input it gives some number of models up to MaxOut[u].         *)
(***************************************************************************)
EXTENDS ModelGraph, FiniteSets

CONSTANTS NumUnits,               \* evaluation units, the final one included
          EvalGraphs,             \* predecessors of each unit, in join order
          MaxOut,                 \* bound on the models of each unit's generator
          RedundancyElimination,  \* configuration flags
          ConstantSpace

Units  == 1..NumUnits
ufinal == NumUnits

ASSUME NumUnitsAssumption == NumUnits \in Nat \ {0}
ASSUME MaxOutAssumption   == MaxOut \in [Units -> Nat]
ASSUME FlagsAssumption    ==
  RedundancyElimination \in BOOLEAN /\ ConstantSpace \in BOOLEAN
\* units depend on units that were created earlier, each at most once,
\* and the final unit depends on all of them in order
ASSUME EvalGraphsAssumption ==
  \A preds \in EvalGraphs :
    /\ preds \in [Units -> Seq(Units)]
    /\ \A u \in Units : \A i, j \in 1..Len(preds[u]) :
         preds[u][i] < u /\ (preds[u][i] = preds[u][j] => i = j)
    /\ Len(preds[ufinal]) = NumUnits - 1
    /\ \A i \in 1..(NumUnits - 1) : preds[ufinal][i] = i

VARIABLES preds,      \* the evaluation graph
          graph,      \* the model graph
          mbp,        \* model building properties of each unit
          stack,      \* active calls, the innermost first
          ret,        \* what the last call returned
          asked,      \* the evaluation is waiting for getNextIModel(ufinal)
          answers,    \* the models it got so far
          exhausted   \* it got the null model

vars == <<preds, graph, mbp, stack, ret, asked, answers, exhausted>>

\* currentisuccessor is represented by the output model it points to
ModelBuildingProperties ==
  [currentmg : BOOLEAN, orefcount : Nat, imodel : Nat, currentisuccessor : Nat]

Frames ==
  [fn : {"getNextIModel", "getNextOModel"}, unit : Units,
   pc : {"dummy", "increment", "fill", "result", "entry", "loop"},
   cursor : Nat, hadIModel : BOOLEAN]

ModelRecords ==
  [location : Units, type : {"in", "out"}, deps : Seq(Nat),
   interpretation : SUBSET Nat, isNull : BOOLEAN,
   childModelsGenerated : BOOLEAN]

TypeOK ==
  /\ preds \in EvalGraphs
  /\ graph \in Seq(ModelRecords)
  /\ mbp \in [Units -> ModelBuildingProperties]
  /\ stack \in Seq(Frames)
  /\ ret \in Nat
  /\ asked \in BOOLEAN /\ exhausted \in BOOLEAN
  /\ answers \in Seq(Nat)

Init ==
  /\ preds \in EvalGraphs
  /\ graph = <<>>
  /\ mbp = [u \in Units |-> [currentmg |-> FALSE, orefcount |-> 0,
                             imodel |-> NoModel, currentisuccessor |-> NoModel]]
  /\ stack = <<>>
  /\ ret = NoModel
  /\ asked = FALSE /\ answers = <<>> /\ exhausted = FALSE

-------------------------------------------------------------------------------
(***************************************************************************)
(* Calls and returns.                                                      *)
(***************************************************************************)

IsActive(fn, pc) == stack # <<>> /\ stack[1].fn = fn /\ stack[1].pc = pc

Frame == stack[1]
U     == Frame.unit

HasOModel(u) == mbp[u].currentisuccessor # NoModel

\* the unit a getNextIModel call is working on
CursorUnit == preds[U][Frame.cursor]

\* entry of getNextIModel: which phase comes first
IModelFrame(u) ==
  LET had == mbp[u].imodel # NoModel
  IN  [fn |-> "getNextIModel", unit |-> u, hadIModel |-> had,
       pc |-> IF preds[u] = <<>> THEN "dummy"
              ELSE IF had THEN "increment" ELSE "fill",
       cursor |-> IF had THEN Len(preds[u]) ELSE 1]

OModelFrame(u) ==
  [fn |-> "getNextOModel", unit |-> u, hadIModel |-> FALSE,
   pc |-> "entry", cursor |-> 0]

\* the active call continues as caller once the callee has returned
Call(callee, caller) == stack' = <<callee, caller>> \o Tail(stack)
Continue(frame)      == stack' = <<frame>> \o Tail(stack)
Return(m)            == stack' = Tail(stack) /\ ret' = m

\* setIModel: unsetting the input model stops its generator
WithIModel(u, m) ==
  [mbp EXCEPT ![u].imodel = m,
              ![u].currentmg = @ /\ ~(m = NoModel /\ mbp[u].imodel # m)]

-------------------------------------------------------------------------------
(***************************************************************************)
(* getNextIModel.                                                          *)
(***************************************************************************)

FreeOldIModel(g) ==
  IF ConstantSpace /\ Frame.hadIModel THEN Freed(g, mbp[U].imodel) ELSE g

\* Fault: the dummy is not given up when it was already used.
DummyIModelForEver ==
  /\ IsActive("getNextIModel", "dummy")
  /\ LET dummies == ModelsAt(graph, U, "in")
         m       == IF dummies = {} THEN Len(graph) + 1 ELSE Oldest(dummies)
     IN  /\ graph' = IF dummies = {}
                     THEN Append(graph, Model(U, "in", <<>>, {}, TRUE)) ELSE graph
         /\ mbp' = WithIModel(U, m)
         /\ Return(m)
  /\ UNCHANGED <<preds, asked, answers, exhausted>>

\* a unit without input has one dummy input model
DummyIModel ==
  /\ IsActive("getNextIModel", "dummy")
  /\ LET dummies == ModelsAt(graph, U, "in")
         m       == IF Frame.hadIModel THEN NoModel
                    ELSE IF dummies = {} THEN Len(graph) + 1
                    ELSE Oldest(dummies)
     IN  /\ graph' = IF ~Frame.hadIModel /\ dummies = {}
                     THEN Append(graph, Model(U, "in", <<>>, {}, TRUE))
                     ELSE FreeOldIModel(graph)
         /\ mbp' = WithIModel(U, m)
         /\ Return(m)
  /\ UNCHANGED <<preds, asked, answers, exhausted>>

\* ensureModelIncrement: advance the output model at the cursor
Increment ==
  /\ IsActive("getNextIModel", "increment")
  /\ Call(OModelFrame(CursorUnit), [Frame EXCEPT !.pc = "result"])
  /\ UNCHANGED <<preds, graph, mbp, ret, asked, answers, exhausted>>

\* Fault: the reference is not counted.
ShareOModelUncounted ==
  /\ IsActive("getNextIModel", "fill")
  /\ Frame.cursor <= Len(preds[U]) /\ HasOModel(CursorUnit)
  /\ Continue([Frame EXCEPT !.cursor = @ + 1])
  /\ UNCHANGED <<preds, graph, mbp, ret, asked, answers, exhausted>>

\* phase 2: a predecessor that has an output model is shared
ShareOModel ==
  /\ IsActive("getNextIModel", "fill")
  /\ Frame.cursor <= Len(preds[U]) /\ HasOModel(CursorUnit)
  /\ mbp' = [mbp EXCEPT ![CursorUnit].orefcount = @ + 1]
  /\ Continue([Frame EXCEPT !.cursor = @ + 1])
  /\ UNCHANGED <<preds, graph, ret, asked, answers, exhausted>>

FetchOModel ==
  /\ IsActive("getNextIModel", "fill")
  /\ Frame.cursor <= Len(preds[U]) /\ ~HasOModel(CursorUnit)
  /\ Call(OModelFrame(CursorUnit), [Frame EXCEPT !.pc = "result"])
  /\ UNCHANGED <<preds, graph, mbp, ret, asked, answers, exhausted>>

\* there is an output model at the cursor: on to the next predecessor
GotOModel ==
  /\ IsActive("getNextIModel", "result") /\ ret # NoModel
  /\ Continue([Frame EXCEPT !.pc = "fill", !.cursor = @ + 1])
  /\ UNCHANGED <<preds, graph, mbp, ret, asked, answers, exhausted>>

\* there is none: advance the predecessor before
Backtrack ==
  /\ IsActive("getNextIModel", "result") /\ ret = NoModel
  /\ Frame.cursor > 1
  /\ Continue([Frame EXCEPT !.pc = "increment", !.cursor = @ - 1])
  /\ UNCHANGED <<preds, graph, mbp, ret, asked, answers, exhausted>>

\* Fault: no input model although the predecessor before could be advanced.
NoIModelTooEarly ==
  /\ IsActive("getNextIModel", "result") /\ ret = NoModel
  /\ mbp' = WithIModel(U, NoModel)
  /\ Return(NoModel)
  /\ UNCHANGED <<preds, graph, asked, answers, exhausted>>

NoIModel ==
  /\ IsActive("getNextIModel", "result") /\ ret = NoModel
  /\ Frame.cursor = 1
  /\ mbp' = WithIModel(U, NoModel)
  /\ Return(NoModel)
  /\ UNCHANGED <<preds, graph, asked, answers, exhausted>>

CurrentOModels(u) ==
  [i \in 1..Len(preds[u]) |-> mbp[preds[u][i]].currentisuccessor]

\* createIModelFromPredecessorOModels
CreateIModel ==
  /\ IsActive("getNextIModel", "fill")
  /\ Frame.cursor > Len(preds[U])
  /\ LET deps     == CurrentOModels(U)
         existing == CommonSuccessors(graph, U, deps)
         reuse    == RedundancyElimination /\ existing # {}
         m        == IF reuse THEN Oldest(existing) ELSE Len(graph) + 1
         isNull   == \E i \in DOMAIN deps : graph[deps[i]].isNull
         joined   == Model(U, "in", deps, Join(graph, deps), isNull)
     IN  /\ graph' = FreeOldIModel(IF reuse THEN graph ELSE Append(graph, joined))
         /\ mbp' = WithIModel(U, m)
         /\ Return(m)
  /\ UNCHANGED <<preds, asked, answers, exhausted>>

GetNextIModel ==
  \/ DummyIModel \/ Increment \/ ShareOModel \/ FetchOModel
  \/ GotOModel \/ Backtrack \/ NoIModel \/ CreateIModel

-------------------------------------------------------------------------------
(***************************************************************************)
(* getNextOModel, with advanceOModelForIModel and createNextModel.         *)
(***************************************************************************)

\* Fault: the reference is not given up.
GiveUpReferenceKept ==
  /\ IsActive("getNextOModel", "entry")
  /\ mbp[U].orefcount > 1
  /\ Return(NoModel)
  /\ UNCHANGED <<preds, graph, mbp, asked, answers, exhausted>>

\* somebody else is using the output model: only give up our reference
GiveUpReference ==
  /\ IsActive("getNextOModel", "entry")
  /\ mbp[U].orefcount > 1
  /\ mbp' = [mbp EXCEPT ![U].orefcount = @ - 1]
  /\ Return(NoModel)
  /\ UNCHANGED <<preds, graph, asked, answers, exhausted>>

FirstIModel ==
  /\ IsActive("getNextOModel", "entry")
  /\ mbp[U].orefcount <= 1 /\ mbp[U].imodel = NoModel
  /\ Call(IModelFrame(U), [Frame EXCEPT !.pc = "loop"])
  /\ UNCHANGED <<preds, graph, mbp, ret, asked, answers, exhausted>>

FailWithoutInput ==
  /\ IsActive("getNextOModel", "loop")
  /\ mbp[U].imodel = NoModel
  /\ Return(NoModel)
  /\ UNCHANGED <<preds, graph, mbp, asked, answers, exhausted>>

\* Fault: the output model is advanced although it is shared.
IsAdvancingShared ==
  /\ \/ IsActive("getNextOModel", "loop")
     \/ IsActive("getNextOModel", "entry")
  /\ mbp[U].imodel # NoModel

\* the loop body of getNextOModel is about to run with an input model
IsAdvancing ==
  /\ \/ IsActive("getNextOModel", "loop")
     \/ IsActive("getNextOModel", "entry") /\ mbp[U].orefcount <= 1
  /\ mbp[U].imodel # NoModel

\* Fault: an input model that is used again starts with its newest output model.
NextOModelFromNewest ==
  LET all == Successors(graph, mbp[U].imodel)
  IN  IF HasOModel(U) THEN NextSuccessor(graph, mbp[U].imodel, mbp[U].currentisuccessor)
      ELSE IF all = {} THEN NoModel ELSE CHOOSE m \in all : \A n \in all : n <= m

NextOModel == NextSuccessor(graph, mbp[U].imodel, mbp[U].currentisuccessor)

FreeOldOModel(g) ==
  IF ConstantSpace /\ HasOModel(U) THEN Freed(g, mbp[U].currentisuccessor) ELSE g

\* advance on the model graph
AdvanceOnGraph ==
  /\ IsAdvancing /\ NextOModel # NoModel
  /\ graph' = FreeOldOModel(graph)
  /\ mbp' = [mbp EXCEPT ![U].currentisuccessor = NextOModel,
                        ![U].orefcount = IF HasOModel(U) THEN @ ELSE @ + 1]
  /\ Return(NextOModel)
  /\ UNCHANGED <<preds, asked, answers, exhausted>>

\* the generator, started if it was not running, gives one more model
GenerateOModel ==
  /\ IsAdvancing /\ NextOModel = NoModel
  /\ ~graph[mbp[U].imodel].childModelsGenerated
  /\ Cardinality(Successors(graph, mbp[U].imodel)) < MaxOut[U]
  /\ LET imodel == mbp[U].imodel
         m      == Len(graph) + 1
         atoms  == graph[imodel].interpretation \cup {m}
     IN  /\ graph' = Append(FreeOldOModel(graph),
                            Model(U, "out", <<imodel>>, atoms, FALSE))
         /\ mbp' = [mbp EXCEPT ![U].currentmg = TRUE, ![U].orefcount = 1,
                               ![U].currentisuccessor = m]
         /\ Return(m)
  /\ UNCHANGED <<preds, asked, answers, exhausted>>

\* there is no further output model: get the next input model
NextInput(generatorDone) ==
  /\ graph' = LET g == FreeOldOModel(graph)
              IN  IF generatorDone
                  THEN [g EXCEPT ![mbp[U].imodel].childModelsGenerated = TRUE]
                  ELSE g
  /\ mbp' = [mbp EXCEPT ![U].currentisuccessor = NoModel,
                        ![U].orefcount = IF HasOModel(U) THEN 0 ELSE @,
                        ![U].currentmg = @ /\ ~generatorDone]
  /\ Call(IModelFrame(U), [Frame EXCEPT !.pc = "loop"])
  /\ UNCHANGED <<preds, ret, asked, answers, exhausted>>

\* Fault: the input model is not marked as finished.
ExhaustGeneratorUnmarked ==
  /\ IsAdvancing /\ NextOModel = NoModel
  /\ ~graph[mbp[U].imodel].childModelsGenerated
  /\ mbp' = [mbp EXCEPT ![U].currentisuccessor = NoModel,
                        ![U].orefcount = IF HasOModel(U) THEN 0 ELSE @,
                        ![U].currentmg = FALSE]
  /\ Call(IModelFrame(U), [Frame EXCEPT !.pc = "loop"])
  /\ UNCHANGED <<preds, graph, ret, asked, answers, exhausted>>

ExhaustGenerator ==
  /\ IsAdvancing /\ NextOModel = NoModel
  /\ ~graph[mbp[U].imodel].childModelsGenerated
  /\ NextInput(TRUE)

AllOModelsUsed ==
  /\ IsAdvancing /\ NextOModel = NoModel
  /\ graph[mbp[U].imodel].childModelsGenerated
  /\ NextInput(FALSE)

GetNextOModel ==
  \/ GiveUpReference \/ FirstIModel \/ FailWithoutInput
  \/ AdvanceOnGraph \/ GenerateOModel \/ ExhaustGenerator \/ AllOModelsUsed

-------------------------------------------------------------------------------
(***************************************************************************)
(* EvaluateState::evaluate, the caller.                                    *)
(***************************************************************************)

RequestModel ==
  /\ stack = <<>> /\ ~asked /\ ~exhausted
  /\ stack' = <<IModelFrame(ufinal)>>
  /\ asked' = TRUE
  /\ UNCHANGED <<preds, graph, mbp, ret, answers, exhausted>>

ReceiveModel ==
  /\ stack = <<>> /\ asked
  /\ asked' = FALSE
  /\ IF ret = NoModel
     THEN exhausted' = TRUE /\ UNCHANGED answers
     ELSE answers' = Append(answers, ret) /\ UNCHANGED exhausted
  /\ UNCHANGED <<preds, graph, mbp, stack, ret>>

Terminated == exhausted /\ UNCHANGED vars

Next == \/ GetNextIModel \/ GetNextOModel
        \/ RequestModel \/ ReceiveModel \/ Terminated

SafetySpec == Init /\ [][Next]_vars

\* a single thread that keeps running
Spec == SafetySpec /\ WF_vars(Next)

-------------------------------------------------------------------------------
(***************************************************************************)
(* Properties.                                                             *)
(***************************************************************************)

(***************************************************************************)
(* The assertions of the code, each at the place where it is evaluated.    *)
(***************************************************************************)

\* setIModel: the input model is not replaced under a running generator
AssertSetIModel ==
  \/ IsActive("getNextIModel", "dummy") /\ ~Frame.hadIModel
  \/ IsActive("getNextIModel", "fill") /\ Frame.cursor > Len(preds[U])
  => ~mbp[U].currentmg

\* ensureModelIncrement, on entry and after each call of getNextOModel
AssertCursorHasOModel ==
  /\ IsActive("getNextIModel", "increment") =>
       HasOModel(CursorUnit) /\ mbp[CursorUnit].orefcount >= 1
  /\ IsActive("getNextIModel", "result") /\ ret # NoModel =>
       HasOModel(CursorUnit) /\ mbp[CursorUnit].orefcount = 1

\* getOModel and createIModelFromPredecessorOModels: all predecessors have an
\* output model, and its interpretation is not null
AssertInputsAvailable ==
  IsActive("getNextIModel", "fill") /\ Frame.cursor > Len(preds[U]) =>
    \A i \in 1..Len(preds[U]) :
      /\ HasOModel(preds[U][i])
      /\ ~graph[mbp[preds[U][i]].currentisuccessor].isNull

\* getSuccessorIntersection: it asserts that one predecessor model has one
\* successor, and "first intersected element" is the only one in any case
AssertOneSuccessor ==
  IsActive("getNextIModel", "fill") /\ Frame.cursor > Len(preds[U])
  /\ RedundancyElimination =>
    Cardinality(CommonSuccessors(graph, U, CurrentOModels(U))) <= 1

\* getNextOModel, advanceOModelForIModel and createNextModel
AssertReferences ==
  /\ IsAdvancing => mbp[U].orefcount = IF HasOModel(U) THEN 1 ELSE 0
  /\ IsActive("getNextOModel", "loop") => ~HasOModel(U) /\ mbp[U].orefcount = 0
  /\ IsActive("getNextOModel", "entry") /\ mbp[U].imodel = NoModel =>
       mbp[U].orefcount = 0

(***************************************************************************)
(* No assertion of the model builder can fail, in whatever order units     *)
(* share, advance and give up the models of their predecessors.            *)
(***************************************************************************)
AssertionsHold ==
  /\ AssertSetIModel /\ AssertCursorHasOModel /\ AssertInputsAvailable
  /\ AssertOneSuccessor /\ AssertReferences

(***************************************************************************)
(* The reference counts are exact.  A unit v holds one reference to every  *)
(* predecessor while it has an input model, and while getNextIModel(v)     *)
(* runs to those before its cursor, to the one at the cursor if it is      *)
(* about to advance it or has just got it.  Units at which getNextOModel   *)
(* is running are in between two values.                                   *)
(***************************************************************************)
IModelFrames(v) == {k \in 1..Len(stack) :
                      stack[k].fn = "getNextIModel" /\ stack[k].unit = v}

Holds(v, i) ==
  IF IModelFrames(v) = {} THEN mbp[v].imodel # NoModel
  ELSE \E k \in IModelFrames(v) :
         \/ i < stack[k].cursor
         \/ i = stack[k].cursor /\ stack[k].pc = "increment"
         \/ i = stack[k].cursor /\ stack[k].pc = "result" /\ k = 1 /\ ret # NoModel

\* pairs of a unit and a position among its predecessors
Holders(u) == {h \in Units \X (1..NumUnits) :
                 h[2] <= Len(preds[h[1]]) /\ preds[h[1]][h[2]] = u /\ Holds(h[1], h[2])}

RefcountsExact ==
  \A u \in Units :
    (\A k \in 1..Len(stack) : stack[k].fn = "getNextOModel" => stack[k].unit # u)
      => mbp[u].orefcount = Cardinality(Holders(u))

(***************************************************************************)
(* An output model is advanced under nobody's feet: the models that a      *)
(* unit's current input model was joined from stay the current output      *)
(* models of its predecessors for as long as the unit is not itself        *)
(* looking for its next input model.                                       *)
(***************************************************************************)
InputStaysCurrent ==
  \A u \in Units :
    mbp[u].imodel # NoModel /\ IModelFrames(u) = {}
      => graph[mbp[u].imodel].deps = CurrentOModels(u)

(***************************************************************************)
(* Joins are consistent: no input model contains two alternative models of *)
(* one ancestor unit, along whatever paths their atoms reached the unit.   *)
(***************************************************************************)
JoinsConsistent ==
  \A m \in DOMAIN graph : Consistent(graph, graph[m].interpretation)

(***************************************************************************)
(* A model generator is started once for an input model: without a running *)
(* generator, an input model that is not finished has no output models,    *)
(* so that none is computed a second time.                                 *)
(***************************************************************************)
GeneratorsStartOnce ==
  \A n \in DOMAIN graph : graph[n].type = "out" =>
    LET m == graph[n].deps[1]
        u == graph[n].location
    IN  \/ graph[m].childModelsGenerated
        \/ mbp[u].imodel = m /\ mbp[u].currentmg

(***************************************************************************)
(* The combinations of output models of the first k units (in the order of *)
(* the final join) in which no unit has two different models.              *)
(***************************************************************************)
Combinations[k \in 0..NumUnits] ==
  IF k = 0 THEN {<<>>}
  ELSE {c \in {Append(d, m) : d \in Combinations[k - 1],
                              m \in ModelsAt(graph, k, "out")} :
          Consistent(graph, Join(graph, c))}

(***************************************************************************)
(* The enumeration is complete.  Once the null model was returned, every   *)
(* consistent choice of models for the units before k was offered to unit  *)
(* k, whose generator ran until it had no more models, and every choice    *)
(* for all units was returned.                                             *)
(***************************************************************************)
EnumerationComplete ==
  exhausted /\ RedundancyElimination =>
    \A k \in Units : \A c \in Combinations[k - 1] :
      \E m \in ModelsAt(graph, k, "in") :
        /\ graph[m].deps = [i \in 1..Len(preds[k]) |-> c[preds[k][i]]]
        /\ IF k = ufinal THEN m \in Range(answers)
                         ELSE graph[m].childModelsGenerated

(***************************************************************************)
(* Every answer is new, and nothing follows the null model.                *)
(***************************************************************************)
Enumeration ==
  INSTANCE ModelEnumeration WITH given <- answers

ImplementsEnumeration == Enumeration!Spec

(***************************************************************************)
(* --help on --constspace: partial models are freed immediately after      *)
(* using them, which "may cause some models to be computed multiple        *)
(* times": a freed model is never used again, so that no model is joined   *)
(* from a null interpretation.                                             *)
(***************************************************************************)
FreedModelsAreRecomputed == AssertInputsAvailable
===============================================================================
