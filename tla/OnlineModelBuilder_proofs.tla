----------------------- MODULE OnlineModelBuilder_proofs -----------------------
(***************************************************************************)
(* Proofs about OnlineModelBuilder, for every number of units, every       *)
(* evaluation graph and every bound on the generators.                     *)
(*                                                                         *)
(* The final unit depends on all units in the order of their creation.     *)
(* While it looks for its next input model it holds a reference to all     *)
(* units up to a level, and the units above the level have no models.      *)
(* Hence the recursion is shallow: a unit that is advanced finds the       *)
(* output models of all its predecessors in use by the final unit, so that *)
(* it shares them, or gives them up, but never advances one itself.        *)
(***************************************************************************)
EXTENDS OnlineModelBuilder, SequenceTheorems, FiniteSetTheorems, WellFoundedInduction, TLAPS

IModel(u) == mbp[u].imodel
OModel(u) == mbp[u].currentisuccessor

-------------------------------------------------------------------------------
(***************************************************************************)
(* The inductive invariant: the model graph.                               *)
(***************************************************************************)

\* an input model joins one earlier output model of every predecessor
InModelOK(pr, g, n) ==
  LET deps == g[n].deps
      u    == g[n].location
  IN  /\ Len(deps) = Len(pr[u])
      /\ \A i \in 1..Len(deps) :
           deps[i] \in 1..(n - 1) /\ g[deps[i]].type = "out" /\ g[deps[i]].location = pr[u][i]
      /\ g[n].interpretation = Join(g, deps)

\* an output model adds its atoms to an earlier input model of its unit
OutModelOK(g, n) ==
  LET input == g[n].deps[1]
  IN  /\ Len(g[n].deps) = 1
      /\ input \in 1..(n - 1) /\ g[input].type = "in" /\ g[input].location = g[n].location
      /\ g[n].interpretation = g[input].interpretation \cup {n}

\* atoms come from units that were created earlier
AtomsOK(g, n) ==
  \A a \in g[n].interpretation :
    /\ a \in 1..n /\ g[a].type = "out"
    /\ g[a].location < g[n].location \/ a = n

GraphOK(pr, g) ==
  \A n \in DOMAIN g :
    /\ IF g[n].type = "in" THEN InModelOK(pr, g, n) ELSE OutModelOK(g, n)
    /\ AtomsOK(g, n)

\* with redundancy elimination a unit has one input model for each combination
InputsUnique(g) ==
  \A m, n \in DOMAIN g :
    /\ g[m].type = "in" /\ g[n].type = "in"
    /\ g[m].location = g[n].location /\ g[m].deps = g[n].deps
    => m = n

\* no interpretation of an output model is freed
NoneFreed(g) == \A n \in DOMAIN g : g[n].type = "out" => ~g[n].isNull

ModelsOK ==
  /\ GraphOK(preds, graph)
  /\ RedundancyElimination => InputsUnique(graph)
  /\ ~ConstantSpace => NoneFreed(graph)

-------------------------------------------------------------------------------
(***************************************************************************)
(* The inductive invariant: the calls.                                     *)
(***************************************************************************)

IModelCall(f) ==
  /\ f.fn = "getNextIModel"
  /\ \/ /\ f.pc = "dummy" /\ preds[f.unit] = <<>>
        /\ f.hadIModel <=> IModel(f.unit) # NoModel
     \/ /\ f.pc = "fill" /\ preds[f.unit] # <<>>
        /\ f.cursor \in 1..(Len(preds[f.unit]) + 1)
     \/ /\ f.pc \in {"increment", "result"}
        /\ f.cursor \in 1..Len(preds[f.unit])

\* a call of getNextOModel for the predecessor at the cursor of its caller
OModelCall(f, caller) ==
  /\ f.fn = "getNextOModel" /\ f.pc \in {"entry", "loop"}
  /\ caller.pc = "result"
  /\ f.unit = preds[caller.unit][caller.cursor]

FinalCall(f) == IModelCall(f) /\ f.unit = ufinal

\* a call of getNextIModel from getNextOModel for the same unit
NestedCall(f, caller) == IModelCall(f) /\ f.unit = caller.unit /\ caller.pc = "loop"

\* The recursion is at most four calls deep, and the fourth only gives up a
\* reference.
StackOK ==
  \/ Len(stack) = 0
  \/ Len(stack) = 1 /\ FinalCall(stack[1])
  \/ Len(stack) = 2 /\ FinalCall(stack[2]) /\ OModelCall(stack[1], stack[2])
  \/ /\ Len(stack) = 3 /\ FinalCall(stack[3]) /\ OModelCall(stack[2], stack[3])
     /\ NestedCall(stack[1], stack[2])
     /\ stack[1].pc = "result" => ret = NoModel
     /\ stack[1].pc = "fill" => IModel(stack[1].unit) = NoModel
  \/ /\ Len(stack) = 4 /\ FinalCall(stack[4]) /\ OModelCall(stack[3], stack[4])
     /\ NestedCall(stack[2], stack[3])
     /\ OModelCall(stack[1], stack[2]) /\ stack[1].pc = "entry"

\* the unit whose getNextOModel the final unit has called
Advanced == stack[Len(stack)].cursor

\* the units with a call of getNextIModel
Joining == {u \in Units : \/ Len(stack) >= 1 /\ u = ufinal
                          \/ Len(stack) >= 3 /\ u = Advanced}

\* the unit that may have an input model without an output model
Running == {u \in Units : /\ u = Advanced
                          /\ Len(stack) >= 3 \/ (Len(stack) = 2 /\ stack[1].pc = "loop")}

-------------------------------------------------------------------------------
(***************************************************************************)
(* The inductive invariant: the units.                                     *)
(***************************************************************************)

\* the units up to the level have an output model that the final unit uses
Level ==
  IF Len(stack) = 0 THEN IF IModel(ufinal) # NoModel THEN NumUnits - 1 ELSE 0
  ELSE IF Len(stack) = 1
  THEN IF stack[1].pc = "dummy" THEN 0
       ELSE IF stack[1].pc = "increment" \/ (stack[1].pc = "result" /\ ret # NoModel)
       THEN stack[1].cursor ELSE stack[1].cursor - 1
  ELSE IF Len(stack) = 2 /\ stack[1].pc = "entry" /\ OModel(Advanced) # NoModel
  THEN Advanced ELSE Advanced - 1

UnitOK(u) ==
  /\ IModel(u) # NoModel =>
       /\ IModel(u) \in DOMAIN graph
       /\ graph[IModel(u)].type = "in" /\ graph[IModel(u)].location = u
  /\ OModel(u) # NoModel =>
       /\ IModel(u) # NoModel
       /\ OModel(u) \in DOMAIN graph
       /\ graph[OModel(u)].type = "out" /\ graph[OModel(u)].location = u
       /\ graph[OModel(u)].deps[1] = IModel(u)
  /\ mbp[u].currentmg => IModel(u) # NoModel /\ ~graph[IModel(u)].childModelsGenerated

\* no output model, and nothing that could give one
Idle(u) == OModel(u) = NoModel /\ mbp[u].orefcount = 0 /\ ~mbp[u].currentmg

UnitsOK ==
  /\ \A u \in Units : UnitOK(u)
  /\ \A u \in Units : u <= Level => OModel(u) # NoModel
  /\ \A u \in Units : u > Level => Idle(u)
  /\ \A u \in Units : u > Level /\ u # ufinal /\ IModel(u) # NoModel => u \in Running

\* the input model was joined from the current models of the predecessors
Fed(u) == IModel(u) # NoModel => graph[IModel(u)].deps = CurrentOModels(u)

InputsCurrent == \A u \in Units : u \in Joining \/ Fed(u)

\* the output models in a current one are current
CurrentAtoms ==
  \A u \in Units : OModel(u) # NoModel =>
    \A a \in graph[OModel(u)].interpretation : OModel(graph[a].location) = a

(***************************************************************************)
(* The inductive invariant: the references.  A unit holds references to    *)
(* its first Held predecessors; a reference that a call of getNextOModel   *)
(* is about to give up or to use for the next model is still counted.      *)
(***************************************************************************)
NestedHeld ==
  IF Len(stack) = 4 THEN stack[2].cursor
  ELSE IF stack[1].pc = "dummy" THEN 0
  ELSE IF stack[1].pc = "increment" THEN stack[1].cursor ELSE stack[1].cursor - 1

Held(v) ==
  IF v = ufinal THEN Level
  ELSE IF v \in Joining THEN NestedHeld
  ELSE IF IModel(v) # NoModel THEN Len(preds[v]) ELSE 0

HoldersIn(pr, held, u) ==
  {x \in Units \X Units : x[2] <= Len(pr[x[1]]) /\ pr[x[1]][x[2]] = u /\ x[2] <= held[x[1]]}

HeldBy == [v \in Units |-> Held(v)]

RefsOK ==
  \A u \in Units : mbp[u].orefcount = Cardinality(HoldersIn(preds, HeldBy, u))

-------------------------------------------------------------------------------
(***************************************************************************)
(* The inductive invariant: the enumeration is a depth-first walk through  *)
(* the combinations of output models, in lexicographic order.              *)
(***************************************************************************)

Outputs == [u \in Units |-> OModel(u)]

\* the walk is about to leave the current combination
Leaving ==
  IF Len(stack) = 0 THEN IF asked THEN ret = NoModel ELSE exhausted \/ IModel(ufinal) # NoModel
  ELSE IF Len(stack) = 2
  THEN IF stack[1].pc = "entry" THEN OModel(Advanced) # NoModel ELSE IModel(Advanced) = NoModel
  ELSE \/ Len(stack) = 4
       \/ stack[1].pc = "dummy" /\ stack[1].hadIModel
       \/ stack[1].pc = "increment"
       \/ stack[1].pc = "result" /\ ret = NoModel

\* c comes before the first l of the current models, or, when they are left,
\* begins with them
PassedAt(outputs, l, leaving, c) ==
  \/ \E j \in 1..l : /\ j <= Len(c) /\ c[j] < outputs[j]
                     /\ \A i \in 1..(j - 1) : c[i] = outputs[i]
  \/ leaving /\ l <= Len(c) /\ \A i \in 1..l : c[i] = outputs[i]

Passed(c) == PassedAt(Outputs, Level, Leaving, c)

\* what the unit after those of c reads from c
Projection(pr, c, k) == [i \in 1..Len(pr[k]) |-> c[pr[k][i]]]

\* output models of the first units, each one computed from those before it
Combination(pr, g, c) ==
  /\ c \in Seq(Nat) /\ Len(c) < NumUnits
  /\ \A i \in 1..Len(c) :
       /\ c[i] \in DOMAIN g /\ g[c[i]].type = "out" /\ g[c[i]].location = i
       /\ g[g[c[i]].deps[1]].deps = Projection(pr, c, i)

\* the combination was offered to the next unit, which is finished with it
Offered(pr, g, given, c) ==
  LET k == Len(c) + 1
  IN  \E m \in DOMAIN g :
        /\ g[m].type = "in" /\ g[m].location = k /\ g[m].deps = Projection(pr, c, k)
        /\ IF k = ufinal THEN \E i \in 1..Len(given) : given[i] = m
                         ELSE g[m].childModelsGenerated

PassedOffered ==
  RedundancyElimination =>
    \A c : Combination(preds, graph, c) /\ Passed(c) => Offered(preds, graph, answers, c)

AnswersOK ==
  \A i \in 1..Len(answers) :
    LET m == answers[i]
    IN  /\ m \in DOMAIN graph /\ graph[m].type = "in" /\ graph[m].location = ufinal
        /\ Passed(graph[m].deps)

\* the caller waits while a call is active, and asks for nothing after the end
CallerOK ==
  /\ stack # <<>> => asked
  /\ stack = <<>> /\ asked => ret = IModel(ufinal)
  /\ exhausted => stack = <<>> /\ ~asked /\ IModel(ufinal) = NoModel

BuilderInv ==
  /\ TypeOK /\ ModelsOK /\ StackOK /\ UnitsOK /\ InputsCurrent /\ CurrentAtoms /\ RefsOK
  /\ GeneratorsStartOnce /\ JoinsConsistent /\ PassedOffered /\ AnswersOK
  /\ CallerOK

-------------------------------------------------------------------------------
(***************************************************************************)
(* Evaluation graphs, sequences and least elements.                        *)
(***************************************************************************)

EvalGraphOK(pr) ==
  /\ pr \in [Units -> Seq(Units)]
  /\ \A u \in Units : \A i \in 1..Len(pr[u]) : pr[u][i] \in Units /\ pr[u][i] < u
  /\ \A u \in Units : \A i, j \in 1..Len(pr[u]) : pr[u][i] = pr[u][j] => i = j
  /\ Len(pr[ufinal]) = NumUnits - 1
  /\ \A i \in 1..(NumUnits - 1) : pr[ufinal][i] = i

LEMMA PredecessorsBelow == ASSUME NEW pr \in EvalGraphs PROVE EvalGraphOK(pr)
<1>1. pr \in [Units -> Seq(Units)]
  BY EvalGraphsAssumption
<1>2. \A u \in Units : \A i \in 1..Len(pr[u]) : pr[u][i] \in Units
  BY <1>1
<1>3. \A u \in Units : \A i, j \in 1..Len(pr[u]) : pr[u][i] < u /\ (pr[u][i] = pr[u][j] => i = j)
  BY EvalGraphsAssumption
<1>4. Len(pr[ufinal]) = NumUnits - 1 /\ \A i \in 1..(NumUnits - 1) : pr[ufinal][i] = i
  BY EvalGraphsAssumption
<1> QED
  BY <1>1, <1>2, <1>3, <1>4 DEF EvalGraphOK

LEMMA UnitsAreNumbers == /\ NumUnits \in Nat /\ NumUnits >= 1 /\ ufinal = NumUnits /\ ufinal \in Units
                         /\ Units \subseteq Nat /\ \A u : u \in Units <=> u \in Nat /\ 1 <= u /\ u <= NumUnits
  BY NumUnitsAssumption DEF Units, ufinal

\* The call stack after a call, a step of the active call, and a return.
LEMMA PushCall ==
  ASSUME NEW S, NEW s \in Seq(S), s # <<>>, NEW f \in S, NEW caller \in S,
         NEW t, t = <<f, caller>> \o Tail(s)
  PROVE  /\ t \in Seq(S) /\ Len(t) = Len(s) + 1
         /\ t[1] = f /\ t[2] = caller
         /\ \A i \in 3..Len(t) : t[i] = s[i - 1]
<1>1. Tail(s) \in Seq(S) /\ Len(Tail(s)) = Len(s) - 1 /\ \A i \in 1..(Len(s) - 1) : Tail(s)[i] = s[i + 1]
  BY HeadTailProperties
<1>2. <<f, caller>> \in Seq(S) /\ Len(<<f, caller>>) = 2
  OBVIOUS
<1>3. /\ t \in Seq(S) /\ Len(t) = 2 + Len(Tail(s))
      /\ \A i \in 1..Len(t) : t[i] = IF i <= 2 THEN <<f, caller>>[i] ELSE Tail(s)[i - 2]
  BY <1>1, <1>2, ConcatProperties
<1>4. Len(s) \in Nat /\ Len(s) >= 1
  BY EmptySeq
<1> QED
  BY <1>1, <1>3, <1>4

LEMMA ReplaceCall ==
  ASSUME NEW S, NEW s \in Seq(S), s # <<>>, NEW f \in S, NEW t, t = <<f>> \o Tail(s)
  PROVE  /\ t \in Seq(S) /\ Len(t) = Len(s) /\ t[1] = f
         /\ \A i \in 2..Len(t) : t[i] = s[i]
<1>1. Tail(s) \in Seq(S) /\ Len(Tail(s)) = Len(s) - 1 /\ \A i \in 1..(Len(s) - 1) : Tail(s)[i] = s[i + 1]
  BY HeadTailProperties
<1>2. <<f>> \in Seq(S) /\ Len(<<f>>) = 1
  OBVIOUS
<1>3. /\ t \in Seq(S) /\ Len(t) = 1 + Len(Tail(s))
      /\ \A i \in 1..Len(t) : t[i] = IF i <= 1 THEN <<f>>[i] ELSE Tail(s)[i - 1]
  BY <1>1, <1>2, ConcatProperties
<1>4. Len(s) \in Nat /\ Len(s) >= 1
  BY EmptySeq
<1> QED
  BY <1>1, <1>3, <1>4

LEMMA PopCall ==
  ASSUME NEW S, NEW s \in Seq(S), s # <<>>
  PROVE  /\ Tail(s) \in Seq(S) /\ Len(Tail(s)) = Len(s) - 1
         /\ \A i \in 1..(Len(s) - 1) : Tail(s)[i] = s[i + 1]
  BY HeadTailProperties

\* The oldest of some models is one of them, and none of them is older.
LEMMA OldestIsLeast == ASSUME NEW S \in SUBSET (Nat \ {0}), S # {}
                       PROVE  Oldest(S) \in S /\ \A n \in S : Oldest(S) <= n
<1>1. PICK a \in S : \A b \in S : ~(<<b, a>> \in OpToRel(<, Nat))
  BY NatLessThanWellFounded, WFMin, Zenon
<1>2. ASSUME NEW b \in S PROVE a <= b
  <2>1. ~(b < a)
    BY <1>1 DEF OpToRel
  <2> QED
    BY <2>1
<1> QED
  BY <1>2 DEF Oldest

LEMMA NoOldest == Oldest({}) = NoModel
  BY DEF Oldest

-------------------------------------------------------------------------------
(***************************************************************************)
(* How the model graph changes.                                            *)
(***************************************************************************)

\* q holds the models of g, and perhaps more
Kept(g, q) ==
  /\ q \in Seq(ModelRecords) /\ Len(g) <= Len(q)
  /\ \A n \in 1..Len(g) :
       /\ q[n].location = g[n].location /\ q[n].type = g[n].type
       /\ q[n].deps = g[n].deps /\ q[n].interpretation = g[n].interpretation
       /\ g[n].childModelsGenerated => q[n].childModelsGenerated

\* q has one more model than g
Added(g, m, q) ==
  /\ Kept(g, q) /\ Len(q) = Len(g) + 1
  /\ q[Len(q)].location = m.location /\ q[Len(q)].type = m.type
  /\ q[Len(q)].deps = m.deps /\ q[Len(q)].interpretation = m.interpretation
  /\ q[Len(q)].childModelsGenerated = m.childModelsGenerated
  /\ \A n \in 1..Len(g) : q[n].childModelsGenerated = g[n].childModelsGenerated

\* q differs from g in what was freed
Similar(g, q) ==
  /\ Kept(g, q) /\ Len(q) = Len(g)
  /\ \A n \in 1..Len(g) : q[n].childModelsGenerated = g[n].childModelsGenerated

LEMMA FreedRecord ==
  ASSUME NEW r \in ModelRecords, NEW q, q = [r EXCEPT !.isNull = TRUE]
  PROVE  /\ q \in ModelRecords
         /\ q.location = r.location /\ q.type = r.type /\ q.deps = r.deps
         /\ q.interpretation = r.interpretation
         /\ q.childModelsGenerated = r.childModelsGenerated
  BY DEF ModelRecords

LEMMA FreedSimilar ==
  ASSUME NEW g \in Seq(ModelRecords), NEW m, NEW q, q = Freed(g, m)
  PROVE  Similar(g, q)
<1>1. CASE m \in 1..Len(g)
  <2> DEFINE r == [g[m] EXCEPT !.isNull = TRUE]
  <2>1. q = [g EXCEPT ![m] = r]
    BY DEF Freed
  <2>2. g[m] \in ModelRecords
    BY <1>1
  <2>3. /\ r \in ModelRecords
        /\ r.location = g[m].location /\ r.type = g[m].type /\ r.deps = g[m].deps
        /\ r.interpretation = g[m].interpretation
        /\ r.childModelsGenerated = g[m].childModelsGenerated
    BY <2>2, FreedRecord
  <2> HIDE DEF r
  <2>4. /\ q \in Seq(ModelRecords) /\ Len(q) = Len(g)
        /\ \A n \in 1..Len(g) : q[n] = IF n = m THEN r ELSE g[n]
    BY <1>1, <2>1, <2>3, ExceptSeq
  <2> QED
    BY <2>3, <2>4 DEF Similar, Kept
<1>2. CASE m \notin 1..Len(g)
  <2>1. q = g
    BY <1>2 DEF Freed
  <2> QED
    BY <2>1 DEF Similar, Kept
<1> QED
  BY <1>1, <1>2

LEMMA SimilarSelf == ASSUME NEW g \in Seq(ModelRecords) PROVE Similar(g, g)
  BY DEF Similar, Kept

LEMMA AppendAdded ==
  ASSUME NEW g \in Seq(ModelRecords), NEW m \in ModelRecords
  PROVE  Added(g, m, Append(g, m))
<1>1. /\ Append(g, m) \in Seq(ModelRecords) /\ Len(Append(g, m)) = Len(g) + 1
      /\ \A i \in 1..Len(g) : Append(g, m)[i] = g[i]
      /\ Append(g, m)[Len(g) + 1] = m
  BY AppendProperties
<1> QED
  BY <1>1 DEF Added, Kept

\* A graph stays well-formed when the models that are added are.
LEMMA KeptGraphOK ==
  ASSUME NEW pr, EvalGraphOK(pr), NEW g \in Seq(ModelRecords), GraphOK(pr, g), NEW q, Kept(g, q),
         \A n \in (Len(g) + 1)..Len(q) :
           /\ IF q[n].type = "in" THEN InModelOK(pr, q, n) ELSE OutModelOK(q, n)
           /\ AtomsOK(q, n)
  PROVE  GraphOK(pr, q)
<1> SUFFICES ASSUME NEW n \in 1..Len(g)
             PROVE  /\ IF q[n].type = "in" THEN InModelOK(pr, q, n) ELSE OutModelOK(q, n)
                    /\ AtomsOK(q, n)
  BY DEF GraphOK, Kept
<1>1. \A k \in 1..n : /\ q[k].location = g[k].location /\ q[k].type = g[k].type
                      /\ q[k].deps = g[k].deps /\ q[k].interpretation = g[k].interpretation
  BY DEF Kept
<1>2. AtomsOK(g, n) /\ (IF g[n].type = "in" THEN InModelOK(pr, g, n) ELSE OutModelOK(g, n))
  BY DEF GraphOK
<1>3. AtomsOK(q, n)
  BY <1>1, <1>2 DEF AtomsOK
<1>4. CASE g[n].type = "in"
  <2>1. \A i \in 1..Len(g[n].deps) : g[n].deps[i] \in 1..n
    BY <1>2, <1>4 DEF InModelOK
  <2>5. DOMAIN g[n].deps = 1..Len(g[n].deps)
    <3>1. g[n] \in ModelRecords
      OBVIOUS
    <3> QED
      BY <3>1 DEF ModelRecords
  <2>2. Join(q, g[n].deps) = Join(g, g[n].deps)
    <3>1. \A d \in Range(g[n].deps) : q[d].interpretation = g[d].interpretation
      BY <1>1, <2>1, <2>5 DEF Range
    <3> QED
      BY <3>1, Zenon DEF Join
  <2>3. InModelOK(pr, g, n)
    BY <1>2, <1>4
  <2>4. InModelOK(pr, q, n)
    <3>1. /\ q[n].deps = g[n].deps /\ q[n].location = g[n].location
          /\ q[n].interpretation = g[n].interpretation
      BY <1>1
    <3>2. /\ Len(g[n].deps) = Len(pr[g[n].location])
          /\ \A i \in 1..Len(g[n].deps) :
               /\ g[n].deps[i] \in 1..(n - 1) /\ g[g[n].deps[i]].type = "out"
               /\ g[g[n].deps[i]].location = pr[g[n].location][i]
          /\ g[n].interpretation = Join(g, g[n].deps)
      BY <2>3 DEF InModelOK
    <3>3. \A i \in 1..Len(g[n].deps) :
            /\ q[g[n].deps[i]].type = g[g[n].deps[i]].type
            /\ q[g[n].deps[i]].location = g[g[n].deps[i]].location
      BY <1>1, <2>1
    <3>4. q[n].interpretation = Join(q, q[n].deps)
      BY <2>2, <3>1, <3>2
    <3>5. /\ Len(q[n].deps) = Len(pr[q[n].location])
          /\ \A i \in 1..Len(q[n].deps) :
               /\ q[n].deps[i] \in 1..(n - 1) /\ q[q[n].deps[i]].type = "out"
               /\ q[q[n].deps[i]].location = pr[q[n].location][i]
      BY <3>1, <3>2, <3>3, SMTT(20)
    <3> QED
      BY <3>4, <3>5 DEF InModelOK
  <2> QED
    BY <1>1, <1>3, <1>4, <2>4
<1>5. CASE g[n].type # "in"
  BY <1>1, <1>2, <1>3, <1>5 DEF OutModelOK
<1> QED
  BY <1>4, <1>5

LEMMA SimilarThenAdded ==
  ASSUME NEW g, NEW q, Similar(g, q), NEW m, NEW r, Added(q, m, r)
  PROVE  Added(g, m, r)
  BY DEF Similar, Added, Kept

LEMMA AddedThenSimilar ==
  ASSUME NEW g \in Seq(ModelRecords), NEW q, NEW m, Added(g, m, q), NEW r, Similar(q, r)
  PROVE  Added(g, m, r)
  BY DEF Similar, Added, Kept

LEMMA GraphType ==
  ASSUME NEW g \in Seq(ModelRecords), NEW n \in DOMAIN g
  PROVE  /\ n \in Nat \ {0} /\ n \in 1..Len(g) /\ n <= Len(g)
         /\ g[n].location \in Units /\ g[n].type \in {"in", "out"}
         /\ g[n].deps \in Seq(Nat) /\ DOMAIN g[n].deps = 1..Len(g[n].deps)
         /\ g[n].interpretation \in SUBSET Nat
         /\ g[n].childModelsGenerated \in BOOLEAN
<1>1. g[n] \in ModelRecords /\ n \in 1..Len(g)
  OBVIOUS
<1> QED
  BY <1>1 DEF ModelRecords

\* A finished input model is marked.
Finished(g, m) == [g EXCEPT ![m].childModelsGenerated = TRUE]

LEMMA MarkFinished ==
  ASSUME NEW g \in Seq(ModelRecords), NEW m \in 1..Len(g),
         NEW q, q = Finished(g, m)
  PROVE  /\ Kept(g, q) /\ Len(q) = Len(g)
         /\ \A n \in 1..Len(g) : /\ q[n].childModelsGenerated <=> n = m \/ g[n].childModelsGenerated
                                 /\ q[n].isNull = g[n].isNull
<1> DEFINE r == [g[m] EXCEPT !.childModelsGenerated = TRUE]
<1>1. g[m] \in ModelRecords
  OBVIOUS
<1>2. /\ r \in ModelRecords /\ r.childModelsGenerated = TRUE /\ r.isNull = g[m].isNull
      /\ r.location = g[m].location /\ r.type = g[m].type /\ r.deps = g[m].deps
      /\ r.interpretation = g[m].interpretation
  BY <1>1 DEF ModelRecords
<1>3. q = [g EXCEPT ![m] = r]
  BY DEF Finished
<1> HIDE DEF r
<1>4. /\ q \in Seq(ModelRecords) /\ Len(q) = Len(g)
      /\ \A n \in 1..Len(g) : q[n] = IF n = m THEN r ELSE g[n]
  <2>1. r \in ModelRecords
    BY <1>2
  <2> QED
    BY <1>3, <2>1, ExceptSeq
<1>5. \A n \in 1..Len(g) : g[n].childModelsGenerated \in BOOLEAN
  BY GraphType
<1> QED
  BY <1>2, <1>4, <1>5 DEF Kept

\* What joins output models of the predecessors is a well-formed input model.
LEMMA NewIModel ==
  ASSUME NEW pr, EvalGraphOK(pr), NEW g \in Seq(ModelRecords), GraphOK(pr, g), NEW u \in Units,
         NEW deps \in Seq(Nat), Len(deps) = Len(pr[u]),
         \A i \in 1..Len(deps) : /\ deps[i] \in 1..Len(g) /\ g[deps[i]].type = "out"
                                 /\ g[deps[i]].location = pr[u][i],
         NEW isNull \in BOOLEAN, NEW m, m = Model(u, "in", deps, Join(g, deps), isNull)
  PROVE  /\ m \in ModelRecords
         /\ \A q : Added(g, m, q) => GraphOK(pr, q)
<1>1. m \in ModelRecords
  <2>1. Join(g, deps) \in SUBSET Nat
    <3>1. ASSUME NEW d \in Range(deps) PROVE g[d].interpretation \subseteq Nat
      <4>1. d \in 1..Len(g)
        BY DEF Range
      <4>2. g[d] \in ModelRecords
        BY <4>1
      <4> QED
        BY <4>2 DEF ModelRecords
    <3> QED
      BY <3>1 DEF Join
  <2> QED
    BY <2>1 DEF Model, ModelRecords
<1>2. /\ m.location = u /\ m.type = "in" /\ m.deps = deps
      /\ m.interpretation = Join(g, deps)
  BY DEF Model
<1> SUFFICES ASSUME NEW q, Added(g, m, q)
             PROVE  GraphOK(pr, q)
  BY <1>1
<1>3. Kept(g, q) /\ Len(q) = Len(g) + 1 /\ Len(g) \in Nat
  BY DEF Added
<1> DEFINE n == Len(g) + 1
<1>4. /\ q[n].location = u /\ q[n].type = "in" /\ q[n].deps = deps
      /\ q[n].interpretation = Join(g, deps)
  BY <1>2, <1>3 DEF Added
<1>5. \A k \in 1..Len(g) : /\ q[k].location = g[k].location /\ q[k].type = g[k].type
                           /\ q[k].interpretation = g[k].interpretation
  BY <1>3 DEF Kept
<1>6. Join(q, deps) = Join(g, deps)
  <2>1. \A d \in Range(deps) : q[d].interpretation = g[d].interpretation
    BY <1>5 DEF Range
  <2> QED
    BY <2>1, Zenon DEF Join
<1>7. InModelOK(pr, q, n)
  <2>1. \A i \in 1..Len(deps) : /\ deps[i] \in 1..(n - 1) /\ q[deps[i]].type = "out"
                                /\ q[deps[i]].location = pr[u][i]
    <3>1. ASSUME NEW i \in 1..Len(deps)
          PROVE  /\ deps[i] \in 1..Len(g) /\ q[deps[i]].type = "out"
                 /\ q[deps[i]].location = pr[u][i]
      <4>1. PICK d \in 1..Len(g) : d = deps[i] /\ g[d].type = "out" /\ g[d].location = pr[u][i]
        OBVIOUS
      <4> QED
        BY <1>5, <4>1
    <3>2. n - 1 = Len(g)
      BY <1>3
    <3> QED
      BY <3>1, <3>2
  <2> QED
    BY <1>4, <1>6, <2>1 DEF InModelOK
<1>8. AtomsOK(q, n)
  <2> SUFFICES ASSUME NEW a \in Join(g, deps)
               PROVE  a \in 1..Len(g) /\ q[a].type = "out" /\ q[a].location < u
    BY <1>3, <1>4 DEF AtomsOK
  <2>1. PICK i \in 1..Len(deps) : a \in g[deps[i]].interpretation
    BY DEF Join, Range
  <2>2. AtomsOK(g, deps[i]) /\ deps[i] \in 1..Len(g)
    <3>1. deps[i] \in 1..Len(g) /\ DOMAIN g = 1..Len(g)
      OBVIOUS
    <3> QED
      BY <3>1 DEF GraphOK
  <2>3. /\ a \in 1..deps[i] /\ g[a].type = "out"
        /\ g[a].location < g[deps[i]].location \/ a = deps[i]
    BY <2>1, <2>2 DEF AtomsOK
  <2>4. g[deps[i]].location < u
    BY DEF EvalGraphOK
  <2>5. a \in 1..Len(g)
    BY <2>2, <2>3, <1>3
  <2>6. g[a].location \in Nat /\ g[deps[i]].location \in Nat /\ u \in Nat
    BY <2>2, <2>5, GraphType, UnitsAreNumbers, SMTT(20)
  <2> QED
    BY <1>5, <2>3, <2>4, <2>5, <2>6, SMTT(20)
<1> QED
  BY <1>3, <1>4, <1>7, <1>8, KeptGraphOK

LEMMA NoDependencies == ASSUME NEW g PROVE Join(g, <<>>) = {}
  BY DEF Join, Range

\* What adds its atoms to an input model is a well-formed output model.
LEMMA NewOModel ==
  ASSUME NEW pr, EvalGraphOK(pr), NEW g \in Seq(ModelRecords), GraphOK(pr, g), NEW u \in Units,
         NEW input \in 1..Len(g), g[input].type = "in", g[input].location = u,
         NEW m, m = Model(u, "out", <<input>>, g[input].interpretation \cup {Len(g) + 1}, FALSE)
  PROVE  /\ m \in ModelRecords
         /\ \A q : Added(g, m, q) => GraphOK(pr, q)
<1>1. m \in ModelRecords
  <2>1. g[input].interpretation \in SUBSET Nat /\ Len(g) \in Nat
    BY GraphType
  <2> QED
    BY <2>1 DEF Model, ModelRecords
<1> SUFFICES ASSUME NEW q, Added(g, m, q)
             PROVE  GraphOK(pr, q)
  BY <1>1
<1>2. Kept(g, q) /\ Len(q) = Len(g) + 1 /\ Len(g) \in Nat
  BY DEF Added
<1> DEFINE n == Len(g) + 1
<1>3. /\ q[n].location = u /\ q[n].type = "out" /\ q[n].deps = <<input>>
      /\ q[n].interpretation = g[input].interpretation \cup {n}
  BY <1>2 DEF Added, Model
<1>4. \A k \in 1..Len(g) : /\ q[k].location = g[k].location /\ q[k].type = g[k].type
                           /\ q[k].interpretation = g[k].interpretation
  BY <1>2 DEF Kept
<1>5. OutModelOK(q, n)
  BY <1>2, <1>3, <1>4 DEF OutModelOK
<1>6. AtomsOK(q, n)
  <2> SUFFICES ASSUME NEW a \in g[input].interpretation
               PROVE  a \in 1..Len(g) /\ q[a].type = "out" /\ q[a].location < u
    BY <1>2, <1>3 DEF AtomsOK
  <2>1. AtomsOK(g, input) /\ InModelOK(pr, g, input)
    BY DEF GraphOK
  <2>2. /\ a \in 1..input /\ g[a].type = "out"
        /\ g[a].location < u \/ a = input
    BY <2>1 DEF AtomsOK
  <2> QED
    BY <1>2, <1>4, <2>2
<1> QED
  BY <1>2, <1>3, <1>5, <1>6, KeptGraphOK

LEMMA SimilarGraphOK ==
  ASSUME NEW pr, EvalGraphOK(pr), NEW g \in Seq(ModelRecords), GraphOK(pr, g),
         NEW q, Kept(g, q), Len(q) = Len(g)
  PROVE  GraphOK(pr, q)
<1>1. (Len(g) + 1)..Len(q) = {}
  OBVIOUS
<1> QED
  BY <1>1, KeptGraphOK

LEMMA KeptInputsUnique ==
  ASSUME NEW g \in Seq(ModelRecords), InputsUnique(g), NEW q, Kept(g, q),
         \A n \in (Len(g) + 1)..Len(q) :
           q[n].type = "in" => /\ n = Len(q)
                               /\ \A m \in 1..Len(g) :
                                    ~(/\ q[m].type = "in" /\ q[m].location = q[n].location
                                      /\ q[m].deps = q[n].deps)
  PROVE  InputsUnique(q)
<1> SUFFICES ASSUME NEW m \in 1..Len(q), NEW n \in 1..Len(q),
                    q[m].type = "in", q[n].type = "in",
                    q[m].location = q[n].location, q[m].deps = q[n].deps
             PROVE  m = n
  BY DEF InputsUnique, Kept
<1>1. CASE m \in 1..Len(g) /\ n \in 1..Len(g)
  BY <1>1 DEF InputsUnique, Kept
<1>2. Len(g) \in Nat /\ Len(q) \in Nat
  BY DEF Kept
<1> QED
  BY <1>1, <1>2

-------------------------------------------------------------------------------
(***************************************************************************)
(* Counting the holders of references.                                     *)
(***************************************************************************)

LEMMA CountTo == ASSUME NEW n \in Nat PROVE IsFiniteSet(1..n) /\ Cardinality(1..n) = n
<1>1. IsFiniteSet(1..n) /\ Cardinality(1..n) = IF 1 > n THEN 0 ELSE n - 1 + 1
  BY FS_Interval
<1> QED
  BY <1>1

\* No unit has more predecessors than there are units.
LEMMA FewPredecessors ==
  ASSUME NEW pr, EvalGraphOK(pr), NEW u \in Units
  PROVE  Len(pr[u]) \in Nat /\ Len(pr[u]) <= NumUnits
<1>1. pr[u] \in Seq(Units)
  BY DEF EvalGraphOK
<1>2. /\ Len(pr[u]) \in Nat /\ NumUnits \in Nat
      /\ pr[u] \in [1..Len(pr[u]) -> 1..NumUnits]
  BY <1>1, NumUnitsAssumption DEF Units
<1>3. ASSUME Len(pr[u]) > NumUnits PROVE FALSE
  <2>1. /\ IsFiniteSet(1..Len(pr[u])) /\ Cardinality(1..Len(pr[u])) = Len(pr[u])
        /\ IsFiniteSet(1..NumUnits) /\ Cardinality(1..NumUnits) = NumUnits
    BY <1>2, CountTo
  <2>2. \E i, j \in 1..Len(pr[u]) : i # j /\ pr[u][i] = pr[u][j]
    <3> DEFINE S == 1..Len(pr[u])
               T == 1..NumUnits
               f == pr[u]
    <3>1. f \in [S -> T] /\ IsFiniteSet(S) /\ IsFiniteSet(T) /\ Cardinality(T) < Cardinality(S)
      BY <1>2, <1>3, <2>1
    <3> HIDE DEF S, T, f
    <3>2. \E i, j \in S : i # j /\ f[i] = f[j]
      BY <3>1, FS_PigeonHole
    <3> QED
      BY <3>2 DEF S, f
  <2> QED
    BY <2>2 DEF EvalGraphOK
<1> QED
  BY <1>2, <1>3

LEMMA HoldersFinite ==
  ASSUME NEW pr, NEW held, NEW u
  PROVE  IsFiniteSet(HoldersIn(pr, held, u)) /\ Cardinality(HoldersIn(pr, held, u)) \in Nat
<1>1. IsFiniteSet(Units)
  BY FS_Interval, NumUnitsAssumption DEF Units
<1>2. IsFiniteSet(Units \X Units)
  BY <1>1, FS_Product
<1>3. HoldersIn(pr, held, u) \in SUBSET (Units \X Units)
  BY DEF HoldersIn
<1> QED
  BY <1>2, <1>3, FS_Subset, FS_CardinalityType

\* A unit that holds a reference to one more predecessor is one more holder of it.
LEMMA HoldMore ==
  ASSUME NEW pr, EvalGraphOK(pr), NEW held \in [Units -> Nat], NEW more \in [Units -> Nat],
         NEW v \in Units, more[v] = held[v] + 1, more[v] <= Len(pr[v]),
         \A w \in Units : w # v => more[w] = held[w],
         NEW u
  PROVE  Cardinality(HoldersIn(pr, more, u))
           = IF pr[v][more[v]] = u THEN Cardinality(HoldersIn(pr, held, u)) + 1
                                   ELSE Cardinality(HoldersIn(pr, held, u))
<1> DEFINE H == HoldersIn(pr, held, u)
           x == <<v, more[v]>>
<1>1. IsFiniteSet(H) /\ Cardinality(H) \in Nat
  BY HoldersFinite
<1>2. x \in Units \X Units /\ x \notin H
  <2>1. Len(pr[v]) <= NumUnits
    BY FewPredecessors
  <2>2. held[v] \in Nat /\ more[v] \in Units
    BY <2>1, UnitsAreNumbers, FewPredecessors
  <2> QED
    BY <2>2 DEF HoldersIn
<1>3. ASSUME NEW y \in Units \X Units
      PROVE  y[2] <= more[y[1]] <=> y[2] <= held[y[1]] \/ y = x
  <2>1. y[1] \in Units /\ y[2] \in Nat /\ y = <<y[1], y[2]>>
    BY UnitsAreNumbers
  <2>2. CASE y[1] = v
    <3>1. y[2] <= held[v] + 1 <=> y[2] <= held[v] \/ y[2] = held[v] + 1
      BY <2>1
    <3> QED
      BY <2>1, <2>2, <3>1
  <2>3. CASE y[1] # v
    BY <2>1, <2>3
  <2> QED
    BY <2>2, <2>3
<1>4. CASE pr[v][more[v]] = u
  <2>1. HoldersIn(pr, more, u) = H \cup {x}
    <3>1. ASSUME NEW y \in Units \X Units
          PROVE  y \in HoldersIn(pr, more, u) <=> y \in H \/ y = x
      BY <1>2, <1>3, <1>4, <3>1 DEF HoldersIn
    <3> QED
      BY <1>2, <3>1 DEF HoldersIn
  <2> HIDE DEF H, x
  <2>2. Cardinality(H \cup {x}) = Cardinality(H) + 1
    BY <1>1, <1>2, FS_AddElement
  <2> QED
    BY <1>4, <2>1, <2>2 DEF H
<1>5. CASE pr[v][more[v]] # u
  <2>1. HoldersIn(pr, more, u) = H
    <3>1. ASSUME NEW y \in Units \X Units
          PROVE  y \in HoldersIn(pr, more, u) <=> y \in H
      BY <1>2, <1>3, <1>5, <3>1 DEF HoldersIn
    <3> QED
      BY <3>1 DEF HoldersIn
  <2> QED
    BY <1>5, <2>1
<1> QED
  BY <1>4, <1>5

\* Without a holder the count is zero; with two it is at least two.
LEMMA CountHolders ==
  ASSUME NEW pr, EvalGraphOK(pr), NEW held, NEW u
  PROVE  /\ (\A v \in Units : \A i \in Units : i <= Len(pr[v]) /\ pr[v][i] = u => ~(i <= held[v]))
            => Cardinality(HoldersIn(pr, held, u)) = 0
         /\ \A v \in Units : \A i \in 1..Len(pr[v]) : pr[v][i] = u /\ i <= held[v]
              => Cardinality(HoldersIn(pr, held, u)) >= 1
         /\ \A v, w \in Units : \A i \in 1..Len(pr[v]), j \in 1..Len(pr[w]) :
              v # w /\ pr[v][i] = u /\ i <= held[v] /\ pr[w][j] = u /\ j <= held[w]
              => Cardinality(HoldersIn(pr, held, u)) >= 2
<1> DEFINE H == HoldersIn(pr, held, u)
<1>1. IsFiniteSet(H) /\ Cardinality(H) \in Nat
  BY HoldersFinite
<1>2. Cardinality(H) = 0 <=> H = {}
  BY <1>1, FS_EmptySet
<1>3. ASSUME NEW v \in Units, NEW i \in 1..Len(pr[v]), pr[v][i] = u, i <= held[v]
      PROVE  <<v, i>> \in H
  <2>1. i \in Units
    BY FewPredecessors, UnitsAreNumbers
  <2> QED
    BY <1>3, <2>1 DEF HoldersIn
<1>4. ASSUME \A v \in Units : \A i \in Units : i <= Len(pr[v]) /\ pr[v][i] = u => ~(i <= held[v])
      PROVE  H = {}
  BY <1>4 DEF HoldersIn
<1>5. ASSUME NEW x \in H, NEW y \in H, x # y
      PROVE  Cardinality(H) >= 2
  <2>1. IsFiniteSet(H \ {x}) /\ Cardinality(H \ {x}) = Cardinality(H) - 1
    BY <1>1, FS_RemoveElement
  <2>2. H \ {x} # {}
    BY <1>5
  <2>3. Cardinality(H \ {x}) # 0 /\ Cardinality(H \ {x}) \in Nat
    BY <2>1, <2>2, FS_EmptySet, FS_CardinalityType
  <2> QED
    BY <1>1, <2>1, <2>3
<1>6. ASSUME NEW v \in Units, NEW i \in 1..Len(pr[v]), pr[v][i] = u, i <= held[v]
      PROVE  Cardinality(H) >= 1
  <2>1. <<v, i>> \in H
    BY <1>3, <1>6
  <2> HIDE DEF H
  <2> QED
    BY <1>1, <1>2, <2>1
<1>7. ASSUME NEW v \in Units, NEW w \in Units, NEW i \in 1..Len(pr[v]), NEW j \in 1..Len(pr[w]), v # w,
             pr[v][i] = u, i <= held[v], pr[w][j] = u, j <= held[w]
      PROVE  Cardinality(H) >= 2
  <2>1. <<v, i>> \in H /\ <<w, j>> \in H /\ <<v, i>> # <<w, j>>
    BY <1>3, <1>7
  <2> QED
    BY <1>5, <2>1
<1> QED
  BY <1>2, <1>4, <1>6, <1>7

-------------------------------------------------------------------------------
(***************************************************************************)
(* Steps that only change the calls.                                       *)
(***************************************************************************)

LEMMA IModelFrameType ==
  ASSUME preds \in [Units -> Seq(Units)], mbp \in [Units -> ModelBuildingProperties], NEW u \in Units
  PROVE  /\ IModelFrame(u) \in Frames
         /\ IModelFrame(u).fn = "getNextIModel" /\ IModelFrame(u).unit = u
         /\ IModelFrame(u).hadIModel <=> IModel(u) # NoModel
         /\ IModelFrame(u).pc = IF preds[u] = <<>> THEN "dummy"
                                ELSE IF IModel(u) # NoModel THEN "increment" ELSE "fill"
         /\ IModelFrame(u).cursor = IF IModel(u) # NoModel THEN Len(preds[u]) ELSE 1
<1>1. Len(preds[u]) \in Nat
  BY LenProperties
<1> QED
  BY <1>1 DEF IModelFrame, Frames, IModel

LEMMA OModelFrameType ==
  ASSUME NEW u \in Units
  PROVE  /\ OModelFrame(u) \in Frames
         /\ OModelFrame(u).fn = "getNextOModel" /\ OModelFrame(u).unit = u
         /\ OModelFrame(u).pc = "entry"
  BY DEF OModelFrame, Frames

\* a frame with another program counter or cursor
Moved(f, pc, cursor, q) ==
  /\ q \in Frames /\ q.fn = f.fn /\ q.unit = f.unit /\ q.hadIModel = f.hadIModel
  /\ q.pc = pc /\ q.cursor = cursor

LEMMA FrameUpdates ==
  ASSUME NEW f \in Frames
  PROVE  /\ Moved(f, "result", f.cursor, [f EXCEPT !.pc = "result"])
         /\ Moved(f, "loop", f.cursor, [f EXCEPT !.pc = "loop"])
         /\ Moved(f, f.pc, f.cursor + 1, [f EXCEPT !.cursor = @ + 1])
         /\ Moved(f, "fill", f.cursor + 1, [f EXCEPT !.pc = "fill", !.cursor = @ + 1])
         /\ f.cursor >= 1 =>
              Moved(f, "increment", f.cursor - 1, [f EXCEPT !.pc = "increment", !.cursor = @ - 1])
<1>1. f.cursor \in Nat /\ f.cursor + 1 \in Nat /\ (f.cursor >= 1 => f.cursor - 1 \in Nat)
  BY DEF Frames
<1>2. Moved(f, "result", f.cursor, [f EXCEPT !.pc = "result"])
  BY DEF Moved, Frames
<1>3. Moved(f, "loop", f.cursor, [f EXCEPT !.pc = "loop"])
  BY DEF Moved, Frames
<1>4. Moved(f, f.pc, f.cursor + 1, [f EXCEPT !.cursor = @ + 1])
  BY <1>1 DEF Moved, Frames
<1>5. Moved(f, "fill", f.cursor + 1, [f EXCEPT !.pc = "fill", !.cursor = @ + 1])
  BY <1>1 DEF Moved, Frames
<1>6. f.cursor >= 1 =>
        Moved(f, "increment", f.cursor - 1, [f EXCEPT !.pc = "increment", !.cursor = @ - 1])
  BY <1>1 DEF Moved, Frames
<1> QED
  BY <1>2, <1>3, <1>4, <1>5, <1>6

\* What holds of every reachable call stack.
LEMMA TopFrame ==
  ASSUME TypeOK, stack # <<>>
  PROVE  /\ Frame \in Frames /\ Frame = stack[1] /\ U \in Units
         /\ Frame.cursor \in Nat /\ Len(stack) \in Nat /\ Len(stack) >= 1
         /\ preds \in [Units -> Seq(Units)] /\ EvalGraphOK(preds)
         /\ \A k \in 1..Len(stack) : stack[k] \in Frames /\ stack[k].unit \in Units
<1>1. stack \in Seq(Frames) /\ Len(stack) \in Nat /\ Len(stack) >= 1
  BY DEF TypeOK
<1>2. \A k \in 1..Len(stack) : stack[k] \in Frames
  BY <1>1
<1>3. EvalGraphOK(preds)
  BY PredecessorsBelow DEF TypeOK
<1> QED
  BY <1>1, <1>2, <1>3 DEF Frame, U, Frames, EvalGraphOK

\* A step that keeps the models and the place in the enumeration.
LEMMA QuietStep ==
  ASSUME BuilderInv, UNCHANGED <<preds, graph, mbp, answers>>,
         TypeOK', StackOK', Level' = Level, Leaving' <=> Leaving, HeldBy' = HeldBy,
         \A u \in Units : u \in Running /\ IModel(u) # NoModel => u \in Running',
         \A u \in Units : u \in Joining => u \in Joining',
         CallerOK'
  PROVE  BuilderInv'
<1> USE DEF IModel, OModel
<1>1. ModelsOK' /\ CurrentAtoms' /\ GeneratorsStartOnce' /\ JoinsConsistent'
  BY DEF BuilderInv, ModelsOK, CurrentAtoms, GeneratorsStartOnce, JoinsConsistent
<1>2. UnitsOK'
  <2>1. \A u \in Units : UnitOK(u)' /\ (Idle(u)' <=> Idle(u))
    BY DEF BuilderInv, UnitsOK, UnitOK, Idle
  <2> QED
    BY <2>1 DEF BuilderInv, UnitsOK
<1>3. InputsCurrent'
  BY DEF BuilderInv, InputsCurrent, Fed, CurrentOModels
<1>4. RefsOK'
  BY DEF BuilderInv, RefsOK
<1>5. \A c : Passed(c)' <=> Passed(c)
  <2>1. Outputs' = Outputs
    BY DEF Outputs
  <2> QED
    BY <2>1 DEF Passed, PassedAt
<1>6. PassedOffered'
  BY <1>5 DEF BuilderInv, PassedOffered
<1>7. AnswersOK'
  BY <1>5 DEF BuilderInv, AnswersOK
<1> QED
  BY <1>1, <1>2, <1>3, <1>4, <1>6, <1>7 DEF BuilderInv

\* What the references of the units depend on.
LEMMA SameHeld ==
  ASSUME UNCHANGED <<preds, mbp>>, Level' = Level,
         \A v \in Units \ {ufinal} : v \in Joining' => NestedHeld' = Held(v),
         \A v \in Units \ {ufinal} : v \in Joining /\ v \notin Joining' =>
           NestedHeld = IF IModel(v) # NoModel THEN Len(preds[v]) ELSE 0
  PROVE  HeldBy' = HeldBy
<1>1. ASSUME NEW v \in Units PROVE Held(v)' = Held(v)
  BY DEF Held, IModel
<1> QED
  BY <1>1 DEF HeldBy

LEMMA CallOModel ==
  ASSUME TypeOK, stack # <<>>, NEW u \in Units,
         Call(OModelFrame(u), [Frame EXCEPT !.pc = "result"])
  PROVE  /\ stack' \in Seq(Frames) /\ Len(stack') = Len(stack) + 1
         /\ stack'[1].fn = "getNextOModel" /\ stack'[1].unit = u /\ stack'[1].pc = "entry"
         /\ Moved(Frame, "result", Frame.cursor, stack'[2])
         /\ \A i \in 3..Len(stack') : stack'[i] = stack[i - 1]
<1> DEFINE f == OModelFrame(u)
           caller == [Frame EXCEPT !.pc = "result"]
<1>1. f \in Frames /\ f.fn = "getNextOModel" /\ f.unit = u /\ f.pc = "entry"
  BY OModelFrameType
<1>2. caller \in Frames /\ Moved(Frame, "result", Frame.cursor, caller)
  BY TopFrame, FrameUpdates DEF Moved
<1>3. stack' = <<f, caller>> \o Tail(stack) /\ stack \in Seq(Frames)
  BY DEF Call, TypeOK
<1> HIDE DEF f, caller
<1>4. /\ stack' \in Seq(Frames) /\ Len(stack') = Len(stack) + 1
      /\ stack'[1] = f /\ stack'[2] = caller
      /\ \A i \in 3..Len(stack') : stack'[i] = stack[i - 1]
  BY <1>1, <1>2, <1>3, PushCall
<1> QED
  BY <1>1, <1>2, <1>4

LEMMA CallIModel ==
  ASSUME TypeOK, stack # <<>>, NEW u \in Units,
         Call(IModelFrame(u), [Frame EXCEPT !.pc = "loop"])
  PROVE  /\ stack' \in Seq(Frames) /\ Len(stack') = Len(stack) + 1
         /\ stack'[1] = IModelFrame(u)
         /\ Moved(Frame, "loop", Frame.cursor, stack'[2])
         /\ \A i \in 3..Len(stack') : stack'[i] = stack[i - 1]
<1> DEFINE f == IModelFrame(u)
           caller == [Frame EXCEPT !.pc = "loop"]
<1>1. f \in Frames
  BY IModelFrameType, TopFrame DEF TypeOK
<1>2. caller \in Frames /\ Moved(Frame, "loop", Frame.cursor, caller)
  BY TopFrame, FrameUpdates DEF Moved
<1>3. stack' = <<f, caller>> \o Tail(stack) /\ stack \in Seq(Frames)
  BY DEF Call, TypeOK
<1> HIDE DEF f, caller
<1>4. /\ stack' \in Seq(Frames) /\ Len(stack') = Len(stack) + 1
      /\ stack'[1] = f /\ stack'[2] = caller
      /\ \A i \in 3..Len(stack') : stack'[i] = stack[i - 1]
  BY <1>1, <1>2, <1>3, PushCall
<1> QED
  BY <1>2, <1>4 DEF f

LEMMA ContinueCall ==
  ASSUME TypeOK, stack # <<>>, NEW f \in Frames, Continue(f)
  PROVE  /\ stack' \in Seq(Frames) /\ Len(stack') = Len(stack) /\ stack'[1] = f
         /\ \A i \in 2..Len(stack') : stack'[i] = stack[i]
<1>1. stack' = <<f>> \o Tail(stack) /\ stack \in Seq(Frames)
  BY DEF Continue, TypeOK
<1> QED
  BY <1>1, ReplaceCall

LEMMA ReturnFromCall ==
  ASSUME TypeOK, stack # <<>>, NEW m, Return(m)
  PROVE  /\ stack' \in Seq(Frames) /\ Len(stack') = Len(stack) - 1
         /\ \A i \in 1..(Len(stack) - 1) : stack'[i] = stack[i + 1]
         /\ ret' = m
<1>1. stack' = Tail(stack) /\ stack \in Seq(Frames) /\ ret' = m
  BY DEF Return, TypeOK
<1> QED
  BY <1>1, PopCall

LEMMA IncrementInvariant == ASSUME BuilderInv, Increment PROVE BuilderInv'
<1> DEFINE f == Frame
<1>1. /\ TypeOK /\ StackOK /\ UnitsOK /\ CallerOK
      /\ stack # <<>> /\ f.fn = "getNextIModel" /\ f.pc = "increment" /\ f = stack[1]
  BY DEF BuilderInv, Increment, IsActive, Frame
<1>2. /\ f \in Frames /\ U \in Units /\ U = f.unit /\ f.cursor \in Nat
      /\ preds \in [Units -> Seq(Units)] /\ EvalGraphOK(preds)
  BY <1>1, TopFrame DEF U
<1>3. f.cursor \in 1..Len(preds[U]) /\ (Len(stack) = 1 \/ Len(stack) = 3)
  BY <1>1, <1>2 DEF StackOK, FinalCall, NestedCall, IModelCall, OModelCall
<1>4. CursorUnit \in Units /\ CursorUnit = preds[U][f.cursor] /\ CursorUnit < U
  BY <1>2, <1>3 DEF CursorUnit, EvalGraphOK, Frame
<1>5. /\ preds' = preds /\ graph' = graph /\ mbp' = mbp /\ ret' = ret
      /\ asked' = asked /\ answers' = answers /\ exhausted' = exhausted
  BY DEF Increment
<1>6. /\ stack' \in Seq(Frames) /\ Len(stack') = Len(stack) + 1
      /\ \A i \in 3..Len(stack') : stack'[i] = stack[i - 1]
  BY <1>1, <1>4, CallOModel DEF Increment
<1>7. Moved(f, "result", f.cursor, stack'[2])
  BY <1>1, <1>4, CallOModel DEF Increment
<1>8. stack'[1].fn = "getNextOModel" /\ stack'[1].pc = "entry" /\ stack'[1].unit = CursorUnit
  BY <1>1, <1>4, CallOModel DEF Increment
<1>9. TypeOK'
  BY <1>1, <1>5, <1>6 DEF TypeOK
<1> HIDE DEF f
<1>10. CASE Len(stack) = 1
  <2>1. U = ufinal /\ CursorUnit = f.cursor /\ f.cursor \in 1..(NumUnits - 1)
    BY <1>1, <1>2, <1>3, <1>4, <1>10 DEF StackOK, FinalCall, EvalGraphOK
  <2>2. Len(stack') = 2
    BY <1>6, <1>10
  <2>3. StackOK'
    <3>1. FinalCall(stack[2])'
      BY <1>1, <1>2, <1>3, <1>5, <1>7, <2>1, <2>2 DEF FinalCall, IModelCall, Moved
    <3>2. OModelCall(stack[1], stack[2])'
      BY <1>2, <1>4, <1>5, <1>7, <1>8, <2>2 DEF OModelCall, Moved
    <3> QED
      BY <2>2, <3>1, <3>2 DEF StackOK
  <2>4. Level = f.cursor /\ OModel(f.cursor) # NoModel
    <3>1. Level = f.cursor
      BY <1>1, <1>10 DEF Level
    <3> QED
      BY <1>1, <2>1, <3>1, UnitsAreNumbers DEF UnitsOK
  <2>5. Advanced' = f.cursor
    BY <1>7, <2>2 DEF Advanced, Moved
  <2>6. Level' = Level
    BY <1>5, <1>8, <2>2, <2>4, <2>5 DEF Level, OModel
  <2>7. Leaving /\ Leaving'
    BY <1>1, <1>5, <1>8, <1>10, <2>2, <2>4, <2>5 DEF Leaving, OModel
  <2>8. \A u \in Units : /\ u \in Joining <=> u = ufinal
                         /\ u \in Joining' <=> u = ufinal
                         /\ u \notin Running
    BY <1>10, <2>2 DEF Joining, Running
  <2>9. HeldBy' = HeldBy
    BY <1>5, <2>6, <2>8, SameHeld
  <2>10. CallerOK'
    BY <1>1, <1>5, <2>2 DEF CallerOK
  <2> QED
    BY <1>1, <1>5, <1>9, <2>2, <2>3, <2>6, <2>7, <2>8, <2>9, <2>10, QuietStep
<1>11. CASE Len(stack) = 3
  <2>1. /\ FinalCall(stack[3]) /\ OModelCall(stack[2], stack[3]) /\ NestedCall(f, stack[2])
        /\ Advanced = stack[3].cursor /\ Len(stack') = 4
        /\ stack'[3] = stack[2] /\ stack'[4] = stack[3]
    BY <1>1, <1>6, <1>11 DEF StackOK, Advanced
  <2>2. StackOK'
    <3>1. FinalCall(stack[4])'
      BY <1>5, <2>1 DEF FinalCall, IModelCall, IModel
    <3>2. OModelCall(stack[3], stack[4])'
      BY <1>5, <2>1 DEF OModelCall
    <3>3. NestedCall(stack[2], stack[3])'
      BY <1>1, <1>2, <1>3, <1>5, <1>7, <2>1 DEF NestedCall, IModelCall, Moved
    <3>4. OModelCall(stack[1], stack[2])'
      BY <1>2, <1>4, <1>5, <1>7, <1>8 DEF OModelCall, Moved
    <3> QED
      BY <1>8, <2>1, <3>1, <3>2, <3>3, <3>4 DEF StackOK
  <2>3. Advanced' = Advanced
    BY <2>1 DEF Advanced
  <2>4. Level' = Level
    BY <1>11, <2>1, <2>3 DEF Level
  <2>5. Leaving /\ Leaving'
    BY <1>1, <1>11, <2>1 DEF Leaving
  <2>6. \A u \in Units : /\ u \in Joining <=> u \in Joining'
                         /\ u \in Running <=> u \in Running'
    BY <1>11, <2>1, <2>3 DEF Joining, Running
  <2>7. NestedHeld' = f.cursor /\ NestedHeld = f.cursor
    BY <1>1, <1>7, <1>11, <2>1 DEF NestedHeld, Moved
  <2>8. HeldBy' = HeldBy
    BY <1>5, <2>4, <2>6, <2>7, SameHeld DEF Held
  <2>9. CallerOK'
    <3>1. Len(stack') = 4
      BY <1>8, <2>1
    <3>2. stack' # <<>>
      BY <3>1
    <3>3. stack # <<>> /\ CallerOK
      BY <1>1 DEF BuilderInv
    <3>4. asked' /\ ~exhausted'
      BY <1>5, <3>3 DEF CallerOK
    <3> QED
      BY <3>2, <3>4 DEF CallerOK
  <2> QED
    BY <1>5, <1>9, <2>1, <2>2, <2>4, <2>5, <2>6, <2>8, <2>9, QuietStep
<1> QED
  BY <1>3, <1>10, <1>11

\* getNextIModel runs for the final unit, or for the unit that is being advanced.
LEMMA IModelActive ==
  ASSUME BuilderInv, stack # <<>>, Frame.fn = "getNextIModel"
  PROVE  /\ stack \in Seq(Frames) /\ Frame = stack[1] /\ Frame \in Frames /\ IModelCall(Frame)
         /\ U = Frame.unit /\ U \in Units /\ Frame.cursor \in Nat
         /\ preds \in [Units -> Seq(Units)] /\ EvalGraphOK(preds)
         /\ \/ /\ Len(stack) = 1 /\ FinalCall(Frame) /\ U = ufinal
               /\ \A u \in Units : (u \in Joining <=> u = ufinal) /\ u \notin Running
            \/ /\ Len(stack) = 3 /\ FinalCall(stack[3]) /\ stack[3].pc = "result"
               /\ OModelCall(stack[2], stack[3]) /\ NestedCall(Frame, stack[2])
               /\ U = Advanced /\ Advanced = stack[3].cursor /\ U < ufinal /\ Level = U - 1
               /\ \A u \in Units : /\ u \in Joining <=> u = ufinal \/ u = U
                                   /\ u \in Running <=> u = U
<1>1. /\ TypeOK /\ StackOK
  BY DEF BuilderInv
<1>2. /\ stack \in Seq(Frames) /\ Frame = stack[1] /\ Frame \in Frames
      /\ U = Frame.unit /\ U \in Units /\ Frame.cursor \in Nat
      /\ preds \in [Units -> Seq(Units)] /\ EvalGraphOK(preds)
      /\ \A k \in 1..Len(stack) : stack[k] \in Frames /\ stack[k].unit \in Units
  BY <1>1, TopFrame DEF TypeOK, U
<1>3. Len(stack) = 1 \/ Len(stack) = 3
  BY <1>1, <1>2 DEF StackOK, OModelCall
<1>4. CASE Len(stack) = 1
  <2>1. FinalCall(Frame) /\ U = ufinal /\ IModelCall(Frame)
    BY <1>1, <1>2, <1>4 DEF StackOK, FinalCall
  <2>2. \A u \in Units : (u \in Joining <=> u = ufinal) /\ u \notin Running
    BY <1>4 DEF Joining, Running
  <2> QED
    BY <1>2, <1>4, <2>1, <2>2
<1>5. CASE Len(stack) = 3
  <2>1. /\ FinalCall(stack[3]) /\ OModelCall(stack[2], stack[3]) /\ NestedCall(Frame, stack[2])
        /\ Advanced = stack[3].cursor
    BY <1>1, <1>2, <1>5 DEF StackOK, Advanced
  <2>2. stack[3].pc = "result" /\ IModelCall(Frame)
    BY <2>1 DEF OModelCall, NestedCall
  <2>3. stack[3].unit = ufinal /\ stack[3].cursor \in 1..(NumUnits - 1)
    BY <1>2, <2>1, <2>2 DEF FinalCall, IModelCall, EvalGraphOK
  <2>4. U = Advanced
    BY <1>2, <2>1, <2>3 DEF OModelCall, NestedCall, EvalGraphOK
  <2>5. U < ufinal /\ Level = U - 1
    BY <1>5, <2>1, <2>3, <2>4, UnitsAreNumbers DEF Level
  <2>6. \A u \in Units : /\ u \in Joining <=> u = ufinal \/ u = U
                         /\ u \in Running <=> u = U
    BY <1>5, <2>4 DEF Joining, Running
  <2> QED
    BY <1>2, <1>5, <2>1, <2>2, <2>4, <2>5, <2>6
<1> QED
  BY <1>3, <1>4, <1>5

\* The predecessors of a unit that is advanced have output models.
LEMMA NestedSeesOModels ==
  ASSUME BuilderInv, stack # <<>>, Frame.fn = "getNextIModel", Len(stack) = 3,
         NEW i \in 1..Len(preds[U])
  PROVE  OModel(preds[U][i]) # NoModel
<1>1. U \in Units /\ EvalGraphOK(preds) /\ Level = U - 1
  BY IModelActive
<1>2. preds[U][i] \in Units /\ preds[U][i] < U
  BY <1>1 DEF EvalGraphOK
<1> QED
  BY <1>1, <1>2, UnitsAreNumbers DEF BuilderInv, UnitsOK

LEMMA FetchOModelInvariant == ASSUME BuilderInv, FetchOModel PROVE BuilderInv'
<1> DEFINE f == Frame
<1>1. /\ TypeOK /\ StackOK /\ UnitsOK /\ CallerOK
      /\ stack # <<>> /\ f.fn = "getNextIModel" /\ f.pc = "fill"
      /\ f.cursor <= Len(preds[U]) /\ OModel(CursorUnit) = NoModel
  BY DEF BuilderInv, FetchOModel, IsActive, Frame, HasOModel, OModel
<1>2. /\ stack \in Seq(Frames) /\ f = stack[1] /\ f \in Frames /\ IModelCall(f)
      /\ U = f.unit /\ U \in Units /\ f.cursor \in Nat /\ EvalGraphOK(preds)
      /\ preds \in [Units -> Seq(Units)]
  BY <1>1, IModelActive
<1>3. f.cursor \in 1..Len(preds[U])
  BY <1>1, <1>2 DEF IModelCall
<1>4. Len(stack) = 1 /\ U = ufinal /\ FinalCall(f)
      /\ \A u \in Units : (u \in Joining <=> u = ufinal) /\ u \notin Running
  <2>1. Len(stack) # 3
    BY <1>1, <1>3, NestedSeesOModels DEF CursorUnit
  <2> QED
    BY <1>1, <2>1, IModelActive
<1>5. CursorUnit = f.cursor /\ f.cursor \in 1..(NumUnits - 1) /\ CursorUnit \in Units
  BY <1>2, <1>3, <1>4, UnitsAreNumbers DEF CursorUnit, EvalGraphOK, Frame
<1>6. /\ preds' = preds /\ graph' = graph /\ mbp' = mbp /\ ret' = ret
      /\ asked' = asked /\ answers' = answers /\ exhausted' = exhausted
  BY DEF FetchOModel
<1>7. stack' \in Seq(Frames) /\ Len(stack') = 2
  <2>1. stack' \in Seq(Frames) /\ Len(stack') = Len(stack) + 1
    BY <1>1, <1>5, CallOModel DEF FetchOModel
  <2> QED
    BY <1>4, <2>1
<1>8. Moved(f, "result", f.cursor, stack'[2])
  BY <1>1, <1>5, CallOModel DEF FetchOModel
<1>9. stack'[1].fn = "getNextOModel" /\ stack'[1].pc = "entry" /\ stack'[1].unit = CursorUnit
  BY <1>1, <1>5, CallOModel DEF FetchOModel
<1>10. TypeOK'
  BY <1>1, <1>6, <1>7 DEF TypeOK
<1> HIDE DEF f
<1>11. StackOK'
  <2>1. FinalCall(stack[2])'
    BY <1>1, <1>2, <1>3, <1>4, <1>6, <1>8 DEF FinalCall, IModelCall, Moved
  <2>2. OModelCall(stack[1], stack[2])'
    BY <1>2, <1>4, <1>5, <1>6, <1>8, <1>9, ZenonT(20) DEF OModelCall, Moved, EvalGraphOK
  <2> QED
    BY <1>7, <2>1, <2>2 DEF StackOK
<1>12. Advanced' = f.cursor
  BY <1>7, <1>8 DEF Advanced, Moved
<1>13. Level' = Level
  <2>1. Level = f.cursor - 1
    BY <1>1, <1>2, <1>4 DEF Level
  <2> QED
    BY <1>1, <1>5, <1>6, <1>7, <1>9, <1>12, <2>1 DEF Level, OModel
<1>14. ~Leaving /\ ~Leaving'
  BY <1>1, <1>2, <1>4, <1>5, <1>6, <1>7, <1>9, <1>12 DEF Leaving, OModel
<1>15. \A u \in Units : u \in Joining' <=> u = ufinal
  BY <1>7 DEF Joining
<1>16. HeldBy' = HeldBy
  BY <1>4, <1>6, <1>13, <1>15, SameHeld
<1>17. CallerOK'
  <2>1. stack' # <<>>
    BY <1>7
  <2> QED
    BY <1>1, <1>6, <2>1 DEF CallerOK
<1> QED
  BY <1>4, <1>6, <1>7, <1>10, <1>11, <1>13, <1>14, <1>15, <1>16, <1>17, QuietStep

\* There is an output model at the cursor of the final unit.
LEMMA GotOModelInvariant == ASSUME BuilderInv, GotOModel PROVE BuilderInv'
<1> DEFINE f == Frame
           g == [f EXCEPT !.pc = "fill", !.cursor = @ + 1]
<1>1. /\ TypeOK /\ StackOK /\ CallerOK
      /\ stack # <<>> /\ f.fn = "getNextIModel" /\ f.pc = "result" /\ ret # NoModel
  BY DEF BuilderInv, GotOModel, IsActive, Frame
<1>2. /\ stack \in Seq(Frames) /\ f = stack[1] /\ f \in Frames /\ IModelCall(f)
      /\ U = f.unit /\ U \in Units /\ f.cursor \in Nat
      /\ preds \in [Units -> Seq(Units)]
  BY <1>1, IModelActive
<1>3. f.cursor \in 1..Len(preds[U]) /\ Len(preds[U]) \in Nat
  BY <1>1, <1>2 DEF IModelCall
<1>4. Len(stack) = 1 /\ FinalCall(f)
      /\ \A u \in Units : (u \in Joining <=> u = ufinal) /\ u \notin Running
  <2>1. ASSUME Len(stack) = 3 PROVE FALSE
    <3>1. stack[1].pc = "result" => ret = NoModel
      BY <1>1, <2>1 DEF StackOK
    <3>2. stack[1].pc = "result"
      BY <1>1, <1>2
    <3> QED
      BY <1>1, <3>1, <3>2
  <2> QED
    BY <1>1, <2>1, IModelActive
<1>5. /\ preds' = preds /\ graph' = graph /\ mbp' = mbp /\ ret' = ret
      /\ asked' = asked /\ answers' = answers /\ exhausted' = exhausted
  BY DEF GotOModel
<1>6. g \in Frames /\ Moved(f, "fill", f.cursor + 1, g)
  BY <1>2, FrameUpdates, ZenonT(20) DEF Moved
<1>7. stack' \in Seq(Frames) /\ Len(stack') = 1 /\ Moved(f, "fill", f.cursor + 1, stack'[1])
  <2>1. Continue(g)
    BY DEF GotOModel
  <2> HIDE DEF g
  <2> QED
    BY <1>1, <1>4, <1>6, <2>1, ContinueCall
<1> HIDE DEF f, g
<1>8. TypeOK'
  BY <1>1, <1>5, <1>7 DEF TypeOK
<1>9. StackOK'
  <2>1. preds[U] # <<>>
    BY <1>3
  <2>2. FinalCall(stack[1])'
    BY <1>2, <1>3, <1>4, <1>5, <1>7, <2>1 DEF FinalCall, IModelCall, Moved
  <2> QED
    BY <1>7, <2>2 DEF StackOK
<1>10. Level' = Level
  BY <1>1, <1>2, <1>4, <1>7 DEF Level, Moved
<1>11. ~Leaving /\ ~Leaving'
  BY <1>1, <1>2, <1>4, <1>7 DEF Leaving, Moved
<1>12. \A u \in Units : u \in Joining' <=> u = ufinal
  BY <1>7 DEF Joining
<1>13. HeldBy' = HeldBy
  BY <1>4, <1>5, <1>10, <1>12, SameHeld
<1>14. CallerOK'
  <2>1. stack' # <<>>
    BY <1>7
  <2> QED
    BY <1>1, <1>5, <2>1 DEF CallerOK
<1> QED
  BY <1>4, <1>5, <1>8, <1>9, <1>10, <1>11, <1>12, <1>13, <1>14, QuietStep

\* There is none, and the predecessor before the cursor is to be advanced.
LEMMA BacktrackInvariant == ASSUME BuilderInv, Backtrack PROVE BuilderInv'
<1> DEFINE f == Frame
           g == [f EXCEPT !.pc = "increment", !.cursor = @ - 1]
<1>1. /\ TypeOK /\ StackOK /\ CallerOK
      /\ stack # <<>> /\ f.fn = "getNextIModel" /\ f.pc = "result" /\ ret = NoModel /\ f.cursor > 1
  BY DEF BuilderInv, Backtrack, IsActive, Frame
<1>2. /\ stack \in Seq(Frames) /\ f = stack[1] /\ f \in Frames /\ IModelCall(f)
      /\ U = f.unit /\ U \in Units /\ f.cursor \in Nat
      /\ preds \in [Units -> Seq(Units)]
  BY <1>1, IModelActive
<1>3. f.cursor \in 2..Len(preds[U]) /\ Len(preds[U]) \in Nat
  BY <1>1, <1>2 DEF IModelCall
<1>4. /\ preds' = preds /\ graph' = graph /\ mbp' = mbp /\ ret' = ret
      /\ asked' = asked /\ answers' = answers /\ exhausted' = exhausted
  BY DEF Backtrack
<1>5. g \in Frames /\ Moved(f, "increment", f.cursor - 1, g)
  <2>1. f.cursor >= 1
    BY <1>3
  <2> QED
    BY <1>2, <2>1, FrameUpdates DEF Moved
<1>6. /\ stack' \in Seq(Frames) /\ Len(stack') = Len(stack)
      /\ \A i \in 2..Len(stack') : stack'[i] = stack[i]
      /\ Moved(f, "increment", f.cursor - 1, stack'[1])
  <2>1. Continue(g)
    BY DEF Backtrack
  <2> HIDE DEF g
  <2> QED
    BY <1>1, <1>5, <2>1, ContinueCall
<1>12. \/ /\ Len(stack) = 1 /\ FinalCall(f)
         /\ \A u \in Units : (u \in Joining <=> u = ufinal) /\ u \notin Running
      \/ /\ Len(stack) = 3 /\ FinalCall(stack[3]) /\ OModelCall(stack[2], stack[3])
         /\ NestedCall(f, stack[2]) /\ Advanced = stack[3].cursor
  BY <1>1, IModelActive
<1> HIDE DEF f, g
<1>7. TypeOK'
  BY <1>1, <1>4, <1>6 DEF TypeOK
<1>8. IModelCall(stack[1])'
  <2>1. /\ stack'[1].fn = "getNextIModel" /\ stack'[1].pc = "increment" /\ stack'[1].unit = U
        /\ stack'[1].cursor = f.cursor - 1
    BY <1>1, <1>2, <1>6 DEF Moved
  <2>2. f.cursor - 1 \in 1..Len(preds[U])
    <3>1. f.cursor \in Nat /\ 2 <= f.cursor /\ f.cursor <= Len(preds[U])
      BY <1>3
    <3> QED
      BY <1>3, <3>1
  <2>3. stack'[1].cursor \in 1..Len(preds'[stack'[1].unit])
    BY <1>4, <2>1, <2>2
  <2> QED
    BY <2>1, <2>3, Zenon DEF IModelCall
<1>9. CallerOK'
  <2>1. stack' # <<>>
    BY <1>1, <1>2, <1>6
  <2> QED
    BY <1>1, <1>4, <2>1 DEF CallerOK
<1>10. CASE Len(stack) = 1
  <2>1. FinalCall(f) /\ \A u \in Units : (u \in Joining <=> u = ufinal) /\ u \notin Running
    BY <1>10, <1>12
  <2>2. StackOK'
    BY <1>6, <1>8, <1>10, <2>1 DEF StackOK, FinalCall, Moved
  <2>3. Level' = Level
    BY <1>1, <1>2, <1>6, <1>10 DEF Level, Moved
  <2>4. Leaving /\ Leaving'
    BY <1>1, <1>2, <1>6, <1>10 DEF Leaving, Moved
  <2>5. \A u \in Units : u \in Joining' <=> u = ufinal
    BY <1>6, <1>10 DEF Joining
  <2>6. HeldBy' = HeldBy
    BY <1>4, <2>1, <2>3, <2>5, SameHeld
  <2> QED
    BY <1>4, <1>7, <1>9, <2>1, <2>2, <2>3, <2>4, <2>5, <2>6, QuietStep
<1>11. CASE Len(stack) = 3
  <2>1. /\ FinalCall(stack[3]) /\ OModelCall(stack[2], stack[3]) /\ NestedCall(f, stack[2])
        /\ Advanced = stack[3].cursor
        /\ stack'[2] = stack[2] /\ stack'[3] = stack[3]
    BY <1>6, <1>11, <1>12
  <2>2. StackOK'
    <3>1. FinalCall(stack[3])'
      BY <1>4, <2>1 DEF FinalCall, IModelCall, IModel
    <3>2. OModelCall(stack[2], stack[3])'
      BY <1>4, <2>1 DEF OModelCall
    <3>3. NestedCall(stack[1], stack[2])'
      BY <1>6, <1>8, <2>1 DEF NestedCall, Moved
    <3> QED
      BY <1>6, <1>11, <3>1, <3>2, <3>3 DEF StackOK, Moved
  <2>3. Advanced' = Advanced
    BY <1>6, <1>11, <2>1 DEF Advanced
  <2>4. Level' = Level
    BY <1>6, <1>11, <2>3 DEF Level
  <2>5. Leaving /\ Leaving'
    BY <1>1, <1>2, <1>6, <1>11 DEF Leaving, Moved
  <2>6. \A u \in Units : /\ u \in Joining <=> u \in Joining'
                         /\ u \in Running <=> u \in Running'
    BY <1>6, <1>11, <2>3 DEF Joining, Running
  <2>7. NestedHeld' = NestedHeld
    BY <1>1, <1>2, <1>6, <1>11 DEF NestedHeld, Moved
  <2>8. HeldBy' = HeldBy
    BY <1>4, <2>4, <2>6, <2>7, SameHeld DEF Held
  <2> QED
    BY <1>4, <1>7, <1>9, <2>2, <2>4, <2>5, <2>6, <2>8, QuietStep
<1> QED
  BY <1>10, <1>11, <1>12

-------------------------------------------------------------------------------
(***************************************************************************)
(* Calls of getNextOModel, and references.                                 *)
(***************************************************************************)

\* getNextOModel runs for the unit that the final unit advances, or for a
\* predecessor of that unit.
LEMMA OModelActive ==
  ASSUME BuilderInv, stack # <<>>, Frame.fn = "getNextOModel"
  PROVE  /\ stack \in Seq(Frames) /\ Frame = stack[1] /\ Frame \in Frames
         /\ U = Frame.unit /\ U \in Units /\ Frame.pc \in {"entry", "loop"}
         /\ preds \in [Units -> Seq(Units)] /\ EvalGraphOK(preds)
         /\ \/ /\ Len(stack) = 2 /\ FinalCall(stack[2]) /\ stack[2].pc = "result"
               /\ OModelCall(Frame, stack[2])
               /\ U = Advanced /\ Advanced = stack[2].cursor /\ U < ufinal
               /\ Level = IF Frame.pc = "entry" /\ OModel(U) # NoModel THEN U ELSE U - 1
               /\ \A u \in Units : /\ u \in Joining <=> u = ufinal
                                   /\ u \in Running <=> u = U /\ Frame.pc = "loop"
            \/ /\ Len(stack) = 4 /\ FinalCall(stack[4]) /\ OModelCall(stack[3], stack[4])
               /\ NestedCall(stack[2], stack[3]) /\ OModelCall(Frame, stack[2])
               /\ Frame.pc = "entry" /\ stack[2].pc = "result"
               /\ Advanced = stack[4].cursor /\ Advanced \in Units /\ Advanced < ufinal
               /\ stack[2].unit = Advanced /\ stack[2].cursor \in 1..Len(preds[Advanced])
               /\ U = preds[Advanced][stack[2].cursor] /\ U < Advanced
               /\ Level = Advanced - 1
               /\ \A u \in Units : /\ u \in Joining <=> u = ufinal \/ u = Advanced
                                   /\ u \in Running <=> u = Advanced
<1>1. /\ TypeOK /\ StackOK
  BY DEF BuilderInv
<1>2. /\ stack \in Seq(Frames) /\ Frame = stack[1] /\ Frame \in Frames
      /\ U = Frame.unit /\ U \in Units
      /\ preds \in [Units -> Seq(Units)] /\ EvalGraphOK(preds)
      /\ \A k \in 1..Len(stack) : stack[k] \in Frames /\ stack[k].unit \in Units
  BY <1>1, TopFrame DEF TypeOK, U
<1>3. Len(stack) = 2 \/ Len(stack) = 4
  BY <1>1, <1>2 DEF StackOK, FinalCall, NestedCall, IModelCall
<1>4. CASE Len(stack) = 2
  <2>1. FinalCall(stack[2]) /\ OModelCall(Frame, stack[2]) /\ Advanced = stack[2].cursor
    BY <1>1, <1>2, <1>4 DEF StackOK, Advanced
  <2>2. stack[2].pc = "result" /\ Frame.pc \in {"entry", "loop"}
    BY <2>1 DEF OModelCall
  <2>3. stack[2].unit = ufinal /\ stack[2].cursor \in 1..(NumUnits - 1)
    BY <1>2, <2>1, <2>2 DEF FinalCall, IModelCall, EvalGraphOK
  <2>4. U = Advanced /\ U < ufinal
    BY <1>2, <2>1, <2>3, UnitsAreNumbers DEF OModelCall, EvalGraphOK
  <2>5. Level = IF Frame.pc = "entry" /\ OModel(U) # NoModel THEN U ELSE U - 1
    BY <1>2, <1>4, <2>4 DEF Level
  <2>6. \A u \in Units : /\ u \in Joining <=> u = ufinal
                         /\ u \in Running <=> u = U /\ Frame.pc = "loop"
    BY <1>2, <1>4, <2>4 DEF Joining, Running
  <2> QED
    BY <1>2, <1>4, <2>1, <2>2, <2>4, <2>5, <2>6
<1>5. CASE Len(stack) = 4
  <2>1. /\ FinalCall(stack[4]) /\ OModelCall(stack[3], stack[4])
        /\ NestedCall(stack[2], stack[3]) /\ OModelCall(Frame, stack[2])
        /\ Frame.pc = "entry" /\ Advanced = stack[4].cursor
    BY <1>1, <1>2, <1>5 DEF StackOK, Advanced
  <2>2. stack[4].pc = "result" /\ stack[2].pc = "result"
    BY <2>1 DEF OModelCall
  <2>3. stack[4].unit = ufinal /\ stack[4].cursor \in 1..(NumUnits - 1)
    BY <1>2, <2>1, <2>2 DEF FinalCall, IModelCall, EvalGraphOK
  <2>4. Advanced \in Units /\ Advanced < ufinal /\ stack[2].unit = Advanced
    BY <1>2, <2>1, <2>3, UnitsAreNumbers DEF OModelCall, NestedCall, EvalGraphOK
  <2>5. stack[2].cursor \in 1..Len(preds[Advanced]) /\ U = preds[Advanced][stack[2].cursor]
    BY <1>2, <2>1, <2>2, <2>4 DEF OModelCall, NestedCall, IModelCall
  <2>6. U < Advanced
    BY <1>2, <2>4, <2>5 DEF EvalGraphOK
  <2>7. Level = Advanced - 1
    BY <1>5 DEF Level
  <2>8. \A u \in Units : /\ u \in Joining <=> u = ufinal \/ u = Advanced
                         /\ u \in Running <=> u = Advanced
    BY <1>5 DEF Joining, Running
  <2> QED
    BY <1>2, <1>5, <2>1, <2>2, <2>4, <2>5, <2>6, <2>7, <2>8
<1> QED
  BY <1>3, <1>4, <1>5

\* The predecessors of a unit that is advanced are in use by the final unit too.
LEMMA DeepShared ==
  ASSUME BuilderInv, stack # <<>>, Frame.fn = "getNextOModel", Len(stack) = 4
  PROVE  mbp[U].orefcount >= 2
<1> DEFINE A == Advanced
           i == stack[2].cursor
<1>1. /\ A \in Units /\ A < ufinal /\ i \in 1..Len(preds[A]) /\ U = preds[A][i] /\ U < A
      /\ U \in Units /\ Level = A - 1 /\ EvalGraphOK(preds) /\ A \in Joining
  BY OModelActive
<1>2. HeldBy[ufinal] = A - 1 /\ HeldBy[A] = i
  BY <1>1, UnitsAreNumbers DEF HeldBy, Held, NestedHeld
<1>3. U \in 1..Len(preds[ufinal]) /\ preds[ufinal][U] = U /\ U <= A - 1
  <2>1. U \in 1..(NumUnits - 1) /\ U <= A - 1
    BY <1>1, UnitsAreNumbers
  <2> HIDE DEF A
  <2> QED
    BY <1>1, <2>1 DEF EvalGraphOK
<1>4. Cardinality(HoldersIn(preds, HeldBy, U)) >= 2
  <2>1. A # ufinal /\ ufinal \in Units /\ i <= HeldBy[A] /\ U <= HeldBy[ufinal]
    BY <1>1, <1>2, <1>3, UnitsAreNumbers
  <2> HIDE DEF A, i
  <2> QED
    BY <1>1, <1>3, <2>1, CountHolders
<1> QED
  BY <1>1, <1>4 DEF BuilderInv, RefsOK

LEMMA OneHolder ==
  ASSUME NEW pr, NEW held, NEW u, NEW x \in Units \X Units,
         \A y \in Units \X Units : y \in HoldersIn(pr, held, u) <=> y = x
  PROVE  Cardinality(HoldersIn(pr, held, u)) = 1
<1>1. HoldersIn(pr, held, u) = {x}
  BY DEF HoldersIn
<1> QED
  BY <1>1, FS_Singleton

\* An output model that the final unit advances is used by nobody else.
LEMMA AdvancedAlone ==
  ASSUME BuilderInv, stack # <<>>, Frame.fn = "getNextOModel", Len(stack) = 2
  PROVE  mbp[U].orefcount = IF Level = U THEN 1 ELSE 0
<1>1. /\ U \in Units /\ U < ufinal /\ (Level = U \/ Level = U - 1) /\ EvalGraphOK(preds)
      /\ \A u \in Units : /\ u \in Joining <=> u = ufinal
                          /\ u \in Running <=> u = U /\ Frame.pc = "loop"
      /\ Level = U => Frame.pc = "entry"
  BY OModelActive, UnitsAreNumbers
<1>2. CASE Level = U
  <2>1. \A v \in Units : v # ufinal /\ v > U => HeldBy[v] = 0
    BY <1>1, <1>2 DEF BuilderInv, UnitsOK, HeldBy, Held
  <2>2. HeldBy[ufinal] = U /\ U \in 1..Len(preds[ufinal]) /\ preds[ufinal][U] = U
    BY <1>1, <1>2, UnitsAreNumbers DEF HeldBy, Held, EvalGraphOK
  <2>3. ASSUME NEW y \in Units \X Units
        PROVE  y \in HoldersIn(preds, HeldBy, U) <=> y = <<ufinal, U>>
    <3>1. CASE y[1] = ufinal
      <4>1. y[2] \in 1..(NumUnits - 1) => preds[ufinal][y[2]] = y[2]
        BY <1>1 DEF EvalGraphOK
      <4>2. Len(preds[ufinal]) = NumUnits - 1
        BY <1>1 DEF EvalGraphOK
      <4> QED
        BY <2>2, <3>1, <4>1, <4>2, UnitsAreNumbers DEF HoldersIn
    <3>2. CASE y[1] # ufinal
      <4>1. y[2] <= Len(preds[y[1]]) /\ preds[y[1]][y[2]] = U => U < y[1]
        <5>1. y[1] \in Units /\ y[2] \in Units /\ Len(preds[y[1]]) \in Nat
          BY <1>1, FewPredecessors
        <5>2. \A i \in 1..Len(preds[y[1]]) : preds[y[1]][i] < y[1]
          BY <1>1, <5>1 DEF EvalGraphOK
        <5>3. y[2] >= 1 /\ y[2] \in Nat
          BY <5>1, UnitsAreNumbers
        <5> QED
          BY <5>1, <5>2, <5>3
      <4> QED
        BY <2>1, <3>2, <4>1, UnitsAreNumbers DEF HoldersIn
    <3> QED
      BY <3>1, <3>2
  <2>4. Cardinality(HoldersIn(preds, HeldBy, U)) = 1
    <3> DEFINE x == <<ufinal, U>>
    <3>1. x \in Units \X Units
      BY <1>1, UnitsAreNumbers
    <3>2. \A y \in Units \X Units : y \in HoldersIn(preds, HeldBy, U) <=> y = x
      BY <2>3
    <3> HIDE DEF x
    <3> QED
      BY <3>1, <3>2, OneHolder
  <2> QED
    BY <1>1, <1>2, <2>4 DEF BuilderInv, RefsOK
<1>3. CASE Level = U - 1
  BY <1>1, <1>3, UnitsAreNumbers DEF BuilderInv, UnitsOK, Idle
<1> QED
  BY <1>1, <1>2, <1>3

\* A step that changes references and calls.
LEMMA ReferenceStep ==
  ASSUME BuilderInv, UNCHANGED <<preds, graph, answers>>,
         \A u \in Units : /\ IModel(u)' = IModel(u) /\ OModel(u)' = OModel(u)
                          /\ mbp'[u].currentmg = mbp[u].currentmg
                          /\ u > Level => mbp'[u].orefcount = mbp[u].orefcount,
         TypeOK', StackOK', Level' = Level, Leaving' <=> Leaving, RefsOK',
         \A u \in Units : u \in Running /\ IModel(u) # NoModel => u \in Running',
         \A u \in Units : u \in Joining => u \in Joining',
         CallerOK'
  PROVE  BuilderInv'
<1>1. ModelsOK' /\ JoinsConsistent'
  BY DEF BuilderInv, ModelsOK, JoinsConsistent
<1>2. TypeOK /\ graph \in Seq(ModelRecords) /\ EvalGraphOK(preds)
  BY PredecessorsBelow DEF BuilderInv, TypeOK
<1>3. CurrentAtoms'
  <2>1. \A u \in Units : OModel(u) # NoModel =>
          \A a \in graph[OModel(u)].interpretation : graph[a].location \in Units
    <3> SUFFICES ASSUME NEW u \in Units, OModel(u) # NoModel,
                        NEW a \in graph[OModel(u)].interpretation
                 PROVE  graph[a].location \in Units
      OBVIOUS
    <3>1. OModel(u) \in DOMAIN graph
      BY DEF BuilderInv, UnitsOK, UnitOK
    <3>2. AtomsOK(graph, OModel(u))
      BY <3>1 DEF BuilderInv, ModelsOK, GraphOK
    <3>3. a \in DOMAIN graph
      BY <1>2, <3>1, <3>2 DEF AtomsOK
    <3> QED
      BY <1>2, <3>3, GraphType
  <2> QED
    BY <2>1 DEF BuilderInv, CurrentAtoms
<1>4. GeneratorsStartOnce'
  <2>1. \A n \in DOMAIN graph : graph[n].location \in Units
    BY <1>2, GraphType
  <2> QED
    BY <2>1 DEF BuilderInv, GeneratorsStartOnce, IModel
<1>5. UnitsOK'
  <2>1. \A u \in Units : UnitOK(u)'
    BY DEF BuilderInv, UnitsOK, UnitOK
  <2>2. \A u \in Units : u > Level => Idle(u)'
    BY DEF BuilderInv, UnitsOK, Idle
  <2> QED
    BY <2>1, <2>2 DEF BuilderInv, UnitsOK
<1>6. InputsCurrent'
  <2>1. \A u \in Units : CurrentOModels(u)' = CurrentOModels(u)
    BY <1>2 DEF CurrentOModels, OModel, EvalGraphOK
  <2> QED
    BY <2>1 DEF BuilderInv, InputsCurrent, Fed
<1>7. \A c : Passed(c)' <=> Passed(c)
  <2>1. Outputs' = Outputs
    BY DEF Outputs
  <2> QED
    BY <2>1 DEF Passed
<1>8. PassedOffered'
  BY <1>7 DEF BuilderInv, PassedOffered
<1>9. AnswersOK'
  BY <1>7 DEF BuilderInv, AnswersOK
<1> QED
  BY <1>1, <1>3, <1>4, <1>5, <1>6, <1>8, <1>9 DEF BuilderInv

LEMMA CountChanges ==
  ASSUME mbp \in [Units -> ModelBuildingProperties], NEW p \in Units, NEW n \in Nat,
         NEW q, q = [mbp EXCEPT ![p].orefcount = n]
  PROVE  /\ q \in [Units -> ModelBuildingProperties]
         /\ \A u \in Units : /\ q[u].imodel = mbp[u].imodel
                             /\ q[u].currentisuccessor = mbp[u].currentisuccessor
                             /\ q[u].currentmg = mbp[u].currentmg
                             /\ q[u].orefcount = IF u = p THEN n ELSE mbp[u].orefcount
  BY DEF ModelBuildingProperties

\* What the units hold is a number for every unit.
LEMMA HeldType ==
  ASSUME BuilderInv
  PROVE  /\ HeldBy \in [Units -> Nat] /\ Level \in Nat /\ Level < NumUnits
         /\ NumUnits > 1 /\ Len(stack) >= 2 => Advanced \in 1..(NumUnits - 1)
<1>1. /\ TypeOK /\ StackOK /\ EvalGraphOK(preds)
      /\ \A k \in 1..Len(stack) : stack[k].unit \in Units /\ stack[k].cursor \in Nat
      /\ Len(stack) \in Nat
  <2>1. TypeOK /\ StackOK
    BY DEF BuilderInv
  <2>2. EvalGraphOK(preds)
    BY <2>1, PredecessorsBelow DEF TypeOK
  <2>3. \A k \in 1..Len(stack) : stack[k] \in Frames
    BY <2>1 DEF TypeOK
  <2>4. Len(stack) \in Nat
    BY <2>1 DEF TypeOK
  <2> QED
    BY <2>1, <2>2, <2>3, <2>4 DEF Frames
<1>2. Len(preds[ufinal]) = NumUnits - 1 /\ NumUnits \in Nat /\ NumUnits >= 1
  BY <1>1, UnitsAreNumbers DEF EvalGraphOK
<1>3. Len(stack) >= 2 => Advanced \in 1..(NumUnits - 1)
  <2>1. Len(stack) >= 2 => FinalCall(stack[Len(stack)]) /\ stack[Len(stack)].pc = "result"
    BY <1>1 DEF StackOK, OModelCall
  <2> QED
    BY <1>2, <2>1 DEF FinalCall, IModelCall, Advanced
<1>4. Level \in Nat /\ Level < NumUnits
  <2>1. CASE Len(stack) = 0
    BY <1>2, <2>1 DEF Level
  <2>2. CASE Len(stack) = 1
    <3>1. FinalCall(stack[1])
      BY <1>1, <2>2 DEF StackOK
    <3> QED
      BY <1>2, <2>2, <3>1 DEF Level, FinalCall, IModelCall
  <2>3. CASE Len(stack) >= 2
    <3>1. Level = Advanced \/ Level = Advanced - 1
      BY <1>1, <2>3 DEF Level
    <3> QED
      BY <1>2, <1>3, <2>3, <3>1
  <2>4. Len(stack) = 0 \/ Len(stack) = 1 \/ Len(stack) >= 2
    <3>1. Len(stack) \in Nat
      BY <1>1
    <3> QED
      BY <3>1
  <2> QED
    BY <2>1, <2>2, <2>3, <2>4
<1>5. ASSUME NEW v \in Units PROVE Held(v) \in Nat
  <2>1. Len(preds[v]) \in Nat
    BY <1>1, FewPredecessors
  <2>2. v \in Joining /\ v # ufinal => NestedHeld \in Nat
    <3> SUFFICES ASSUME v \in Joining, v # ufinal PROVE NestedHeld \in Nat
      OBVIOUS
    <3>1. Len(stack) >= 3
      BY DEF Joining
    <3>2. CASE Len(stack) = 3
      BY <1>1, <3>2 DEF StackOK, NestedCall, IModelCall, NestedHeld
    <3>3. CASE Len(stack) = 4
      BY <1>1, <3>3 DEF NestedHeld
    <3> QED
      BY <1>1, <3>1, <3>2, <3>3 DEF StackOK
  <2> QED
    BY <1>4, <2>1, <2>2 DEF Held
<1> QED
  BY <1>3, <1>4, <1>5 DEF HeldBy

LEMMA ShareOModelInvariant == ASSUME BuilderInv, ShareOModel PROVE BuilderInv'
<1> DEFINE f == Frame
           g == [f EXCEPT !.cursor = @ + 1]
           p == CursorUnit
<1>1. /\ TypeOK /\ StackOK /\ UnitsOK /\ CallerOK /\ RefsOK
      /\ stack # <<>> /\ f.fn = "getNextIModel" /\ f.pc = "fill"
      /\ f.cursor <= Len(preds[U]) /\ OModel(p) # NoModel
  BY DEF BuilderInv, ShareOModel, IsActive, Frame, HasOModel, OModel
<1>2. /\ stack \in Seq(Frames) /\ f = stack[1] /\ f \in Frames /\ IModelCall(f)
      /\ U = f.unit /\ U \in Units /\ f.cursor \in Nat /\ EvalGraphOK(preds)
      /\ preds \in [Units -> Seq(Units)]
  BY <1>1, IModelActive
<1>3. /\ f.cursor \in 1..Len(preds[U]) /\ p = preds[U][f.cursor] /\ p \in Units /\ p < U
      /\ mbp \in [Units -> ModelBuildingProperties]
  BY <1>1, <1>2, SMTT(20) DEF IModelCall, CursorUnit, EvalGraphOK, Frame, TypeOK
<1>4. /\ Len(stack) = 3 /\ FinalCall(stack[3]) /\ OModelCall(stack[2], stack[3])
      /\ NestedCall(f, stack[2]) /\ U = Advanced /\ Advanced = stack[3].cursor
      /\ U < ufinal /\ Level = U - 1
      /\ \A u \in Units : /\ u \in Joining <=> u = ufinal \/ u = U
                          /\ u \in Running <=> u = U
  <2>1. ASSUME Len(stack) = 1 PROVE FALSE
    <3>1. U = ufinal
      BY <1>1, <2>1, IModelActive
    <3>2. p = f.cursor
      BY <1>2, <1>3, <3>1 DEF EvalGraphOK
    <3>3. Level = f.cursor - 1
      BY <1>1, <1>2, <2>1 DEF Level
    <3> QED
      BY <1>1, <1>3, <3>2, <3>3, UnitsAreNumbers DEF UnitsOK, Idle
  <2> QED
    BY <1>1, <2>1, IModelActive
<1>5. /\ preds' = preds /\ graph' = graph /\ ret' = ret
      /\ asked' = asked /\ answers' = answers /\ exhausted' = exhausted
  BY DEF ShareOModel
<1>6. /\ mbp' \in [Units -> ModelBuildingProperties]
      /\ \A u \in Units : /\ IModel(u)' = IModel(u) /\ OModel(u)' = OModel(u)
                          /\ mbp'[u].currentmg = mbp[u].currentmg
                          /\ mbp'[u].orefcount = IF u = p THEN mbp[u].orefcount + 1
                                                 ELSE mbp[u].orefcount
  <2>1. mbp[p].orefcount + 1 \in Nat
    BY <1>3 DEF ModelBuildingProperties
  <2>2. mbp' = [mbp EXCEPT ![p].orefcount = mbp[p].orefcount + 1]
    BY DEF ShareOModel
  <2> HIDE DEF p
  <2>3. /\ mbp' \in [Units -> ModelBuildingProperties]
        /\ \A u \in Units : /\ mbp'[u].imodel = mbp[u].imodel
                            /\ mbp'[u].currentisuccessor = mbp[u].currentisuccessor
                            /\ mbp'[u].currentmg = mbp[u].currentmg
                            /\ mbp'[u].orefcount = IF u = p THEN mbp[p].orefcount + 1
                                                   ELSE mbp[u].orefcount
    BY <1>3, <2>1, <2>2, CountChanges
  <2> QED
    BY <2>3 DEF IModel, OModel
<1>7. g \in Frames /\ Moved(f, "fill", f.cursor + 1, g)
  BY <1>1, <1>2, FrameUpdates DEF Moved
<1>8. /\ stack' \in Seq(Frames) /\ Len(stack') = 3 /\ Moved(f, "fill", f.cursor + 1, stack'[1])
      /\ stack'[2] = stack[2] /\ stack'[3] = stack[3]
  <2>1. Continue(g)
    BY DEF ShareOModel
  <2> HIDE DEF g
  <2> QED
    BY <1>1, <1>4, <1>7, <2>1, ContinueCall
<1> HIDE DEF f, g, p
<1>9. TypeOK'
  BY <1>1, <1>5, <1>6, <1>8 DEF TypeOK
<1>10. StackOK'
  <2>1. FinalCall(stack[3])' /\ OModelCall(stack[2], stack[3])'
    <3>1. stack[3].unit \in Units
      BY <1>4, UnitsAreNumbers DEF FinalCall
    <3> QED
      BY <1>4, <1>5, <1>6, <1>8, <3>1 DEF FinalCall, IModelCall, OModelCall
  <2>2. NestedCall(stack[1], stack[2])'
    BY <1>2, <1>3, <1>4, <1>5, <1>8, SMTT(20) DEF NestedCall, IModelCall, Moved
  <2>3. stack'[1].pc = "fill" /\ mbp'[stack'[1].unit].imodel = NoModel
    <3>1. mbp[U].imodel = NoModel
      BY <1>1, <1>2, <1>4 DEF StackOK, IModel
    <3>2. mbp'[U].imodel = NoModel
      BY <1>2, <1>6, <3>1 DEF IModel
    <3> QED
      BY <1>2, <1>8, <3>2 DEF Moved
  <2>4. (stack[1].pc = "result" => ret = NoModel)' /\ (stack[1].pc = "fill" => IModel(stack[1].unit) = NoModel)'
    BY <2>3 DEF IModel
  <2> QED
    BY <1>8, <2>1, <2>2, <2>4 DEF StackOK
<1>11. Advanced' = Advanced
  BY <1>4, <1>8 DEF Advanced
<1>12. Level' = Level
  BY <1>4, <1>8, <1>11 DEF Level
<1>13. ~Leaving /\ ~Leaving'
  BY <1>1, <1>2, <1>4, <1>8 DEF Leaving, Moved
<1>14. \A u \in Units : /\ u \in Joining <=> u \in Joining'
                        /\ u \in Running <=> u \in Running'
  BY <1>4, <1>8, <1>11 DEF Joining, Running
<1>15. NestedHeld = f.cursor - 1 /\ NestedHeld' = f.cursor
  BY <1>1, <1>2, <1>4, <1>8 DEF NestedHeld, Moved
<1>16. RefsOK'
  <2> DEFINE held == HeldBy
             more == HeldBy'
  <2>1. held \in [Units -> Nat] /\ more = [v \in Units |-> Held(v)']
    BY HeldType DEF HeldBy
  <2>2. \A w \in Units : w # U => more[w] = held[w]
    BY <1>4, <1>5, <1>6, <1>12, <1>14 DEF HeldBy, Held
  <2>3. held[U] = f.cursor - 1 /\ more[U] = f.cursor
    BY <1>2, <1>4, <1>14, <1>15, UnitsAreNumbers DEF HeldBy, Held
  <2>4. more \in [Units -> Nat]
    BY <1>2, <2>1, <2>2, <2>3
  <2>5. more[U] = held[U] + 1 /\ more[U] <= Len(preds[U]) /\ preds[U][more[U]] = p
    BY <1>2, <1>3, <2>3
  <2> HIDE DEF held, more
  <2>6. ASSUME NEW u
        PROVE  Cardinality(HoldersIn(preds, more, u))
                 = IF preds[U][more[U]] = u THEN Cardinality(HoldersIn(preds, held, u)) + 1
                   ELSE Cardinality(HoldersIn(preds, held, u))
    <3>1. more[U] = held[U] + 1 /\ more[U] <= Len(preds[U])
      BY <2>5
    <3>2. U \in Units /\ EvalGraphOK(preds) /\ held \in [Units -> Nat]
      BY <1>2, <2>1
    <3> QED
      BY <2>2, <2>4, <3>1, <3>2, HoldMore
  <2>7. \A u \in Units : mbp[u].orefcount = Cardinality(HoldersIn(preds, held, u))
    BY <1>1 DEF RefsOK, held
  <2>8. \A u \in Units : mbp'[u].orefcount = Cardinality(HoldersIn(preds, more, u))
    BY <1>6, <2>5, <2>6, <2>7
  <2> QED
    BY <1>5, <2>8 DEF RefsOK, more
<1>17. \A u \in Units : u > Level => mbp'[u].orefcount = mbp[u].orefcount
  <2>1. ~(p > Level)
    BY <1>2, <1>3, <1>4, UnitsAreNumbers, SMTT(20)
  <2> QED
    BY <1>6, <2>1
<1>18. CallerOK'
  <2>1. Len(stack') = 3
    BY <1>8
  <2>2. stack' # <<>>
    BY <2>1
  <2> QED
    BY <1>1, <1>5, <2>2 DEF CallerOK
<1> QED
  BY <1>5, <1>6, <1>9, <1>10, <1>12, <1>13, <1>14, <1>16, <1>17, <1>18, ReferenceStep

LEMMA GiveUpReferenceInvariant == ASSUME BuilderInv, GiveUpReference PROVE BuilderInv'
<1> DEFINE A == Advanced
           k == stack[2].cursor
<1>1. /\ TypeOK /\ CallerOK /\ RefsOK
      /\ stack # <<>> /\ Frame.fn = "getNextOModel" /\ mbp[U].orefcount > 1
  BY DEF BuilderInv, GiveUpReference, IsActive, Frame
<1>2. Len(stack) = 4
  <2>1. ASSUME Len(stack) = 2 PROVE FALSE
    BY <1>1, <2>1, AdvancedAlone
  <2> QED
    BY <1>1, <2>1, OModelActive
<1>3. /\ stack \in Seq(Frames) /\ EvalGraphOK(preds)
      /\ FinalCall(stack[4]) /\ OModelCall(stack[3], stack[4]) /\ NestedCall(stack[2], stack[3])
      /\ stack[2].pc = "result" /\ A = stack[4].cursor /\ A \in Units /\ A < ufinal
      /\ stack[2].unit = A /\ k \in 1..Len(preds[A]) /\ U = preds[A][k] /\ U < A
      /\ U \in Units /\ Level = A - 1
      /\ \A u \in Units : /\ u \in Joining <=> u = ufinal \/ u = A
                          /\ u \in Running <=> u = A
  BY <1>1, <1>2, OModelActive
<1>4. /\ preds' = preds /\ graph' = graph /\ asked' = asked /\ answers' = answers
      /\ exhausted' = exhausted
  BY DEF GiveUpReference
<1>5. /\ mbp' \in [Units -> ModelBuildingProperties]
      /\ \A u \in Units : /\ IModel(u)' = IModel(u) /\ OModel(u)' = OModel(u)
                          /\ mbp'[u].currentmg = mbp[u].currentmg
                          /\ mbp'[u].orefcount = IF u = U THEN mbp[U].orefcount - 1
                                                 ELSE mbp[u].orefcount
  <2>1. mbp[U].orefcount - 1 \in Nat /\ mbp \in [Units -> ModelBuildingProperties]
    <3>1. U \in Units /\ mbp \in [Units -> ModelBuildingProperties]
      BY <1>1, <1>3 DEF TypeOK
    <3>2. mbp[U].orefcount \in Nat
      BY <3>1 DEF ModelBuildingProperties
    <3> QED
      BY <1>1, <3>1, <3>2
  <2>2. mbp' = [mbp EXCEPT ![U].orefcount = mbp[U].orefcount - 1]
    BY DEF GiveUpReference
  <2>3. /\ mbp' \in [Units -> ModelBuildingProperties]
        /\ \A u \in Units : /\ mbp'[u].imodel = mbp[u].imodel
                            /\ mbp'[u].currentisuccessor = mbp[u].currentisuccessor
                            /\ mbp'[u].currentmg = mbp[u].currentmg
                            /\ mbp'[u].orefcount = IF u = U THEN mbp[U].orefcount - 1
                                                   ELSE mbp[u].orefcount
    <3> DEFINE n == mbp[U].orefcount - 1
    <3>1. n \in Nat /\ mbp' = [mbp EXCEPT ![U].orefcount = n] /\ U \in Units
      BY <1>3, <2>1, <2>2
    <3> HIDE DEF n
    <3>2. /\ mbp' \in [Units -> ModelBuildingProperties]
          /\ \A u \in Units : /\ mbp'[u].imodel = mbp[u].imodel
                              /\ mbp'[u].currentisuccessor = mbp[u].currentisuccessor
                              /\ mbp'[u].currentmg = mbp[u].currentmg
                              /\ mbp'[u].orefcount = IF u = U THEN n ELSE mbp[u].orefcount
      BY <2>1, <3>1, CountChanges
    <3> QED
      BY <3>2 DEF n
  <2> QED
    BY <2>3 DEF IModel, OModel
<1>6. /\ stack' \in Seq(Frames) /\ Len(stack') = 3 /\ ret' = NoModel
      /\ stack'[1] = stack[2] /\ stack'[2] = stack[3] /\ stack'[3] = stack[4]
  <2>1. Return(NoModel)
    BY DEF GiveUpReference
  <2> QED
    BY <1>1, <1>2, <2>1, ReturnFromCall
<1>7. TypeOK'
  BY <1>1, <1>4, <1>5, <1>6 DEF TypeOK, NoModel
<1> HIDE DEF A, k
<1>8. StackOK'
  <2>1. FinalCall(stack[3])' /\ OModelCall(stack[2], stack[3])'
    <3>1. stack[4].unit \in Units
      BY <1>3, UnitsAreNumbers DEF FinalCall
    <3> QED
      BY <1>3, <1>4, <1>5, <1>6, <3>1 DEF FinalCall, IModelCall, OModelCall
  <2>2. NestedCall(stack[1], stack[2])'
    BY <1>3, <1>4, <1>6 DEF NestedCall, IModelCall
  <2>3. (stack[1].pc = "result" => ret = NoModel)' /\ (stack[1].pc = "fill" => IModel(stack[1].unit) = NoModel)'
    BY <1>3, <1>6
  <2> QED
    BY <1>6, <2>1, <2>2, <2>3 DEF StackOK
<1>9. Advanced' = A
  BY <1>3, <1>6 DEF Advanced
<1>10. Level' = Level
  BY <1>3, <1>6, <1>9 DEF Level
<1>11. Leaving /\ Leaving'
  BY <1>2, <1>3, <1>6 DEF Leaving
<1>12. \A u \in Units : /\ u \in Joining <=> u \in Joining'
                        /\ u \in Running <=> u \in Running'
  BY <1>3, <1>6, <1>9 DEF Joining, Running
<1>13. NestedHeld = k /\ NestedHeld' = k - 1
  BY <1>2, <1>3, <1>6 DEF NestedHeld, k
<1>14. RefsOK'
  <2> DEFINE held == HeldBy'
             more == HeldBy
  <2>1. more \in [Units -> Nat] /\ held = [v \in Units |-> Held(v)']
    BY HeldType DEF HeldBy
  <2>2. \A w \in Units : w # A => more[w] = held[w]
    BY <1>3, <1>4, <1>5, <1>10, <1>12 DEF HeldBy, Held
  <2>3. held[A] = k - 1 /\ more[A] = k
    BY <1>3, <1>12, <1>13, UnitsAreNumbers DEF HeldBy, Held
  <2>4. held \in [Units -> Nat]
    BY <1>3, <2>1, <2>2, <2>3
  <2>5. more[A] = held[A] + 1 /\ more[A] <= Len(preds[A]) /\ preds[A][more[A]] = U
    BY <1>3, <2>3
  <2> HIDE DEF held, more
  <2>6. ASSUME NEW u
        PROVE  Cardinality(HoldersIn(preds, more, u))
                 = IF preds[A][more[A]] = u THEN Cardinality(HoldersIn(preds, held, u)) + 1
                   ELSE Cardinality(HoldersIn(preds, held, u))
    <3>1. more[A] = held[A] + 1 /\ more[A] <= Len(preds[A])
      BY <2>5
    <3>2. A \in Units /\ EvalGraphOK(preds) /\ more \in [Units -> Nat]
      BY <1>3, <2>1
    <3> QED
      BY <2>2, <2>4, <3>1, <3>2, HoldMore
  <2>7. \A u \in Units : mbp[u].orefcount = Cardinality(HoldersIn(preds, more, u))
    BY <1>1 DEF RefsOK, more
  <2>8. \A u : Cardinality(HoldersIn(preds, held, u)) \in Nat
    BY HoldersFinite
  <2>9. \A u \in Units : mbp'[u].orefcount = Cardinality(HoldersIn(preds, held, u))
    BY <1>5, <2>5, <2>6, <2>7, <2>8
  <2> QED
    BY <1>4, <2>9 DEF RefsOK, held
<1>15. \A u \in Units : u > Level => mbp'[u].orefcount = mbp[u].orefcount
  <2>1. U \in Nat /\ A \in Nat /\ U < A /\ Level = A - 1
    BY <1>3, UnitsAreNumbers
  <2>2. ~(U > Level)
    BY <2>1
  <2> QED
    BY <1>5, <2>2
<1>16. CallerOK'
  <2>1. Len(stack') = 3
    BY <1>6
  <2>2. stack' # <<>>
    BY <2>1
  <2> QED
    BY <1>1, <1>4, <2>2 DEF CallerOK
<1> QED
  BY <1>4, <1>5, <1>7, <1>8, <1>10, <1>11, <1>12, <1>14, <1>15, <1>16, ReferenceStep

\* A unit without an input model asks for one.
LEMMA FirstIModelInvariant == ASSUME BuilderInv, FirstIModel PROVE BuilderInv'
<1> DEFINE f == IModelFrame(U)
<1>1. /\ TypeOK /\ CallerOK /\ UnitsOK
      /\ stack # <<>> /\ Frame.fn = "getNextOModel" /\ Frame.pc = "entry"
      /\ ~(mbp[U].orefcount >= 2) /\ IModel(U) = NoModel
  <2>1. U \in Units /\ mbp \in [Units -> ModelBuildingProperties]
    BY TopFrame DEF BuilderInv, FirstIModel, IsActive, TypeOK
  <2>2. mbp[U].orefcount \in Nat
    BY <2>1 DEF ModelBuildingProperties
  <2> QED
    BY <2>2 DEF BuilderInv, FirstIModel, IsActive, Frame, IModel
<1>2. /\ Len(stack) = 2 /\ stack \in Seq(Frames) /\ Frame = stack[1] /\ Frame \in Frames
      /\ U = Frame.unit /\ U \in Units /\ EvalGraphOK(preds) /\ preds \in [Units -> Seq(Units)]
      /\ FinalCall(stack[2]) /\ stack[2].pc = "result" /\ OModelCall(Frame, stack[2])
      /\ U = Advanced /\ Advanced = stack[2].cursor /\ U < ufinal
      /\ Level = IF Frame.pc = "entry" /\ OModel(U) # NoModel THEN U ELSE U - 1
      /\ \A u \in Units : /\ u \in Joining <=> u = ufinal
                          /\ u \in Running <=> u = U /\ Frame.pc = "loop"
  BY <1>1, OModelActive, DeepShared
<1>3. OModel(U) = NoModel /\ Level = U - 1
  BY <1>1, <1>2 DEF UnitsOK, UnitOK
<1>4. /\ preds' = preds /\ graph' = graph /\ mbp' = mbp /\ ret' = ret
      /\ asked' = asked /\ answers' = answers /\ exhausted' = exhausted
  BY DEF FirstIModel
<1>5. /\ stack' \in Seq(Frames) /\ Len(stack') = 3 /\ stack'[1] = f
      /\ Moved(Frame, "loop", Frame.cursor, stack'[2]) /\ stack'[3] = stack[2]
  <2>1. Call(IModelFrame(U), [Frame EXCEPT !.pc = "loop"])
    BY DEF FirstIModel
  <2>2. /\ stack' \in Seq(Frames) /\ Len(stack') = Len(stack) + 1
        /\ stack'[1] = IModelFrame(U)
        /\ Moved(Frame, "loop", Frame.cursor, stack'[2])
        /\ \A i \in 3..Len(stack') : stack'[i] = stack[i - 1]
    BY <1>1, <1>2, <2>1, CallIModel
  <2> HIDE DEF f
  <2>3. Len(stack') = 3 /\ stack'[3] = stack[2]
    BY <1>2, <2>2
  <2> QED
    BY <2>2, <2>3 DEF f
<1>6. /\ f \in Frames /\ f.fn = "getNextIModel" /\ f.unit = U
      /\ f.hadIModel = FALSE /\ f.cursor = 1
      /\ f.pc = IF preds[U] = <<>> THEN "dummy" ELSE "fill"
  <2>1. /\ f \in Frames /\ f.fn = "getNextIModel" /\ f.unit = U
        /\ f.hadIModel <=> IModel(U) # NoModel
        /\ f.cursor = IF IModel(U) # NoModel THEN Len(preds[U]) ELSE 1
        /\ f.pc = IF preds[U] = <<>> THEN "dummy"
                  ELSE IF IModel(U) # NoModel THEN "increment" ELSE "fill"
    BY <1>1, <1>2, IModelFrameType DEF TypeOK
  <2>2. f.hadIModel \in BOOLEAN
    BY <2>1 DEF Frames
  <2> QED
    BY <1>1, <2>1, <2>2
<1> HIDE DEF f
<1>7. TypeOK'
  BY <1>1, <1>4, <1>5 DEF TypeOK
<1>8. StackOK'
  <2>1. FinalCall(stack[3])'
    BY <1>2, <1>4, <1>5 DEF FinalCall, IModelCall, IModel
  <2>2. OModelCall(stack[2], stack[3])'
    BY <1>2, <1>4, <1>5 DEF OModelCall, Moved
  <2>3. NestedCall(stack[1], stack[2])'
    <3>1. 1 \in 1..(Len(preds[U]) + 1)
      BY <1>2
    <3> QED
      BY <1>1, <1>2, <1>4, <1>5, <1>6, <3>1 DEF NestedCall, IModelCall, Moved, IModel
  <2>4. (stack[1].pc = "result" => ret = NoModel)' /\ (stack[1].pc = "fill" => IModel(stack[1].unit) = NoModel)'
    BY <1>1, <1>4, <1>5, <1>6 DEF IModel
  <2> QED
    BY <1>5, <2>1, <2>2, <2>3, <2>4 DEF StackOK
<1>9. Advanced' = U
  BY <1>2, <1>5 DEF Advanced
<1>10. Level' = Level
  BY <1>3, <1>5, <1>9 DEF Level
<1>11. ~Leaving /\ ~Leaving'
  BY <1>1, <1>2, <1>3, <1>5, <1>6 DEF Leaving
<1>12. \A u \in Units : /\ u \in Joining' <=> u = ufinal \/ u = U
                        /\ u \in Running' <=> u = U
  BY <1>5, <1>9 DEF Joining, Running
<1>13. NestedHeld' = 0 /\ Held(U) = 0
  <2>1. NestedHeld' = 0
    BY <1>5, <1>6 DEF NestedHeld
  <2> QED
    BY <1>1, <1>2, <2>1, UnitsAreNumbers DEF Held
<1>14. HeldBy' = HeldBy
  BY <1>2, <1>4, <1>10, <1>12, <1>13, SameHeld
<1>15. CallerOK'
  <2>1. Len(stack') = 3
    BY <1>5
  <2>2. stack' # <<>>
    BY <2>1
  <2> QED
    BY <1>1, <1>4, <2>2 DEF CallerOK
<1> QED
  BY <1>2, <1>4, <1>7, <1>8, <1>10, <1>11, <1>12, <1>14, <1>15, QuietStep

LEMMA FailWithoutInputInvariant == ASSUME BuilderInv, FailWithoutInput PROVE BuilderInv'
<1>1. /\ TypeOK /\ CallerOK /\ UnitsOK
      /\ stack # <<>> /\ Frame.fn = "getNextOModel" /\ Frame.pc = "loop" /\ IModel(U) = NoModel
  BY DEF BuilderInv, FailWithoutInput, IsActive, Frame, IModel
<1>2. /\ Len(stack) = 2 /\ stack \in Seq(Frames) /\ Frame = stack[1]
      /\ U \in Units /\ EvalGraphOK(preds) /\ preds \in [Units -> Seq(Units)]
      /\ FinalCall(stack[2]) /\ stack[2].pc = "result"
      /\ U = Advanced /\ Advanced = stack[2].cursor /\ U < ufinal
      /\ Level = IF Frame.pc = "entry" /\ OModel(U) # NoModel THEN U ELSE U - 1
      /\ \A u \in Units : /\ u \in Joining <=> u = ufinal
                          /\ u \in Running <=> u = U /\ Frame.pc = "loop"
  BY <1>1, OModelActive
<1>3. /\ preds' = preds /\ graph' = graph /\ mbp' = mbp
      /\ asked' = asked /\ answers' = answers /\ exhausted' = exhausted
  BY DEF FailWithoutInput
<1>4. stack' \in Seq(Frames) /\ Len(stack') = 1 /\ stack'[1] = stack[2] /\ ret' = NoModel
  <2>1. Return(NoModel)
    BY DEF FailWithoutInput
  <2> QED
    BY <1>1, <1>2, <2>1, ReturnFromCall
<1>5. TypeOK'
  BY <1>1, <1>3, <1>4 DEF TypeOK, NoModel
<1>6. StackOK'
  <2>1. FinalCall(stack[1])'
    BY <1>2, <1>3, <1>4 DEF FinalCall, IModelCall, IModel
  <2> QED
    BY <1>4, <2>1 DEF StackOK
<1>7. Level' = Level
  BY <1>1, <1>2, <1>4 DEF Level
<1>8. Leaving /\ Leaving'
  BY <1>1, <1>2, <1>4 DEF Leaving
<1>9. \A u \in Units : u \in Joining' <=> u = ufinal
  BY <1>4 DEF Joining
<1>10. HeldBy' = HeldBy
  BY <1>2, <1>3, <1>7, <1>9, SameHeld
<1>11. \A u \in Units : ~(u \in Running /\ IModel(u) # NoModel)
  BY <1>1, <1>2
<1>12. CallerOK'
  <2>1. Len(stack') = 1
    BY <1>4
  <2>2. stack' # <<>>
    BY <2>1
  <2> QED
    BY <1>1, <1>3, <2>2 DEF CallerOK
<1> QED
  BY <1>2, <1>3, <1>5, <1>6, <1>7, <1>8, <1>9, <1>10, <1>11, <1>12, QuietStep

LEMMA RequestModelInvariant == ASSUME BuilderInv, RequestModel PROVE BuilderInv'
<1> DEFINE f == IModelFrame(ufinal)
<1>1. TypeOK /\ CallerOK /\ stack = <<>> /\ ~asked /\ ~exhausted
  BY DEF BuilderInv, RequestModel
<1>2. /\ preds' = preds /\ graph' = graph /\ mbp' = mbp /\ ret' = ret
      /\ asked' = TRUE /\ answers' = answers /\ exhausted' = exhausted
  BY DEF RequestModel
<1>3. /\ ufinal \in Units /\ EvalGraphOK(preds) /\ preds \in [Units -> Seq(Units)]
      /\ mbp \in [Units -> ModelBuildingProperties]
  BY <1>1, UnitsAreNumbers, PredecessorsBelow DEF TypeOK, EvalGraphOK
<1>4. Len(preds[ufinal]) = NumUnits - 1 /\ NumUnits \in Nat /\ NumUnits >= 1
  BY <1>3, UnitsAreNumbers DEF EvalGraphOK
<1>5. /\ f \in Frames /\ f.fn = "getNextIModel" /\ f.unit = ufinal
      /\ f.hadIModel <=> IModel(ufinal) # NoModel
      /\ f.pc = IF preds[ufinal] = <<>> THEN "dummy"
                ELSE IF IModel(ufinal) # NoModel THEN "increment" ELSE "fill"
      /\ f.cursor = IF IModel(ufinal) # NoModel THEN Len(preds[ufinal]) ELSE 1
  BY <1>3, IModelFrameType
<1>6. stack' = <<f>>
  BY DEF RequestModel
<1> HIDE DEF f
<1>7. stack' \in Seq(Frames) /\ Len(stack') = 1 /\ stack'[1] = f
  BY <1>5, <1>6
<1>8. TypeOK'
  BY <1>1, <1>2, <1>7 DEF TypeOK
<1>9. preds[ufinal] # <<>> => Len(preds[ufinal]) \in Nat /\ Len(preds[ufinal]) >= 1
  BY <1>3, EmptySeq
<1>10. StackOK'
  <2>1. FinalCall(stack[1])'
    BY <1>2, <1>5, <1>7, <1>9 DEF FinalCall, IModelCall, IModel
  <2> QED
    BY <1>7, <2>1 DEF StackOK
<1>11. Level' = Level
  <2>1. Len(stack) = 0
    BY <1>1
  <2>2. preds[ufinal] = <<>> => NumUnits = 1
    BY <1>4
  <2> QED
    BY <1>4, <1>5, <1>7, <2>1, <2>2 DEF Level
<1>12. Leaving' <=> Leaving
  <2>1. Len(stack) = 0
    BY <1>1
  <2> QED
    BY <1>1, <1>5, <1>7, <2>1 DEF Leaving
<1>13. \A u \in Units : /\ u \in Joining' <=> u = ufinal
                        /\ u \notin Joining /\ u \notin Running
  <2>1. Len(stack) = 0
    BY <1>1
  <2> QED
    BY <1>7, <2>1 DEF Joining, Running
<1>14. HeldBy' = HeldBy
  BY <1>2, <1>11, <1>13, SameHeld
<1>15. CallerOK'
  <2>1. stack' # <<>>
    BY <1>7
  <2> QED
    BY <1>1, <1>2, <2>1 DEF CallerOK
<1> QED
  BY <1>2, <1>8, <1>10, <1>11, <1>12, <1>13, <1>14, <1>15, QuietStep

-------------------------------------------------------------------------------
(***************************************************************************)
(* Combinations, and what was offered, when the graph grows.               *)
(***************************************************************************)

LEMMA KeptOffered ==
  ASSUME NEW pr, NEW g \in Seq(ModelRecords), NEW q, Kept(g, q),
         NEW given \in Seq(Nat), NEW more \in Seq(Nat),
         \A i \in 1..Len(given) : i \in 1..Len(more) /\ more[i] = given[i],
         NEW c, Offered(pr, g, given, c)
  PROVE  Offered(pr, q, more, c)
<1> DEFINE k == Len(c) + 1
<1>1. PICK m \in DOMAIN g :
        /\ g[m].type = "in" /\ g[m].location = k /\ g[m].deps = Projection(pr, c, k)
        /\ IF k = ufinal THEN \E i \in 1..Len(given) : given[i] = m
                         ELSE g[m].childModelsGenerated
  BY DEF Offered
<1> HIDE DEF k
<1>2. /\ m \in 1..Len(q) /\ DOMAIN q = 1..Len(q)
      /\ q[m].type = g[m].type /\ q[m].location = g[m].location /\ q[m].deps = g[m].deps
      /\ g[m].childModelsGenerated => q[m].childModelsGenerated
  <2>1. m \in 1..Len(g) /\ q \in Seq(ModelRecords) /\ Len(g) \in Nat /\ Len(q) \in Nat /\ Len(g) <= Len(q)
    BY DEF Kept
  <2> QED
    BY <2>1 DEF Kept
<1>3. IF k = ufinal THEN \E i \in 1..Len(more) : more[i] = m ELSE q[m].childModelsGenerated
  <2>1. CASE k = ufinal
    BY <1>1, <2>1
  <2>2. CASE k # ufinal
    BY <1>1, <1>2, <2>2
  <2> QED
    BY <2>1, <2>2
<1>4. /\ m \in DOMAIN q /\ q[m].type = "in" /\ q[m].location = Len(c) + 1
      /\ q[m].deps = Projection(pr, c, Len(c) + 1)
  BY <1>1, <1>2 DEF k
<1> QED
  BY <1>3, <1>4 DEF Offered, k

\* A combination of models of the smaller graph was one before.
LEMMA KeptCombination ==
  ASSUME NEW pr, NEW g \in Seq(ModelRecords), GraphOK(pr, g), NEW q, Kept(g, q),
         NEW c, Combination(pr, q, c), \A i \in 1..Len(c) : c[i] \in 1..Len(g)
  PROVE  Combination(pr, g, c)
<1> SUFFICES ASSUME NEW i \in 1..Len(c)
             PROVE  /\ c[i] \in DOMAIN g /\ g[c[i]].type = "out" /\ g[c[i]].location = i
                    /\ g[g[c[i]].deps[1]].deps = Projection(pr, c, i)
  BY DEF Combination
<1>1. /\ c[i] \in 1..Len(g) /\ q[c[i]].type = "out" /\ q[c[i]].location = i
      /\ q[q[c[i]].deps[1]].deps = Projection(pr, c, i)
  BY DEF Combination
<1>2. g[c[i]].type = "out" /\ g[c[i]].location = i /\ g[c[i]].deps = q[c[i]].deps
  BY <1>1 DEF Kept
<1>3. g[c[i]].deps[1] \in 1..Len(g)
  BY <1>1, <1>2 DEF GraphOK, OutModelOK
<1>4. g[g[c[i]].deps[1]].deps = q[g[c[i]].deps[1]].deps
  BY <1>3 DEF Kept
<1> QED
  BY <1>1, <1>2, <1>4

\* A step that adds at most input models and keeps the place in the enumeration.
LEMMA WalkKept ==
  ASSUME BuilderInv, preds' = preds, answers' = answers, Kept(graph, graph'),
         \A n \in (Len(graph) + 1)..Len(graph') : graph'[n].type = "in",
         \A c : Passed(c)' <=> Passed(c)
  PROVE  PassedOffered' /\ AnswersOK'
<1>1. graph \in Seq(ModelRecords) /\ answers \in Seq(Nat) /\ GraphOK(preds, graph)
  BY DEF BuilderInv, TypeOK, ModelsOK
<1>2. PassedOffered'
  <2> SUFFICES ASSUME RedundancyElimination, NEW c, Combination(preds, graph', c), Passed(c)
               PROVE  Offered(preds, graph', answers, c)
    BY DEF PassedOffered
  <2>1. ASSUME NEW i \in 1..Len(c) PROVE c[i] \in 1..Len(graph)
    <3>1. graph'[c[i]].type = "out" /\ c[i] \in DOMAIN graph'
      BY DEF Combination
    <3>2. DOMAIN graph' = 1..Len(graph') /\ Len(graph') \in Nat /\ Len(graph) \in Nat
      BY <1>1 DEF Kept
    <3> QED
      BY <3>1, <3>2
  <2>2. Combination(preds, graph, c)
    BY <1>1, <2>1, KeptCombination
  <2>3. Offered(preds, graph, answers, c)
    BY <2>2 DEF BuilderInv, PassedOffered
  <2> QED
    BY <1>1, <2>3, KeptOffered
<1>3. AnswersOK'
  BY DEF BuilderInv, AnswersOK, Kept
<1> QED
  BY <1>2, <1>3

\* What is known of the atoms of current models.
LEMMA CurrentAtomsKnown ==
  ASSUME BuilderInv, NEW u \in Units, OModel(u) # NoModel,
         NEW a \in graph[OModel(u)].interpretation
  PROVE  /\ OModel(u) \in DOMAIN graph /\ a \in DOMAIN graph /\ a \in Nat
         /\ graph[a].location \in Units /\ graph[a].location <= u
         /\ OModel(graph[a].location) = a
<1>1. graph \in Seq(ModelRecords)
  BY DEF BuilderInv, TypeOK
<1>2. OModel(u) \in DOMAIN graph /\ graph[OModel(u)].location = u
  BY DEF BuilderInv, UnitsOK, UnitOK
<1>3. AtomsOK(graph, OModel(u))
  BY <1>2 DEF BuilderInv, ModelsOK, GraphOK
<1>4. a \in DOMAIN graph /\ (graph[a].location < u \/ a = OModel(u))
  BY <1>1, <1>2, <1>3 DEF AtomsOK
<1>5. graph[a].location \in Units
  BY <1>1, <1>4, GraphType
<1> QED
  BY <1>1, <1>2, <1>4, <1>5, UnitsAreNumbers DEF BuilderInv, CurrentAtoms

LEMMA SetIModel ==
  ASSUME mbp \in [Units -> ModelBuildingProperties], NEW u \in Units, NEW m \in Nat,
         ~mbp[u].currentmg, NEW q, q = WithIModel(u, m)
  PROVE  /\ q \in [Units -> ModelBuildingProperties]
         /\ \A v \in Units : /\ q[v].imodel = IF v = u THEN m ELSE mbp[v].imodel
                             /\ q[v].currentisuccessor = mbp[v].currentisuccessor
                             /\ q[v].currentmg = mbp[v].currentmg
                             /\ q[v].orefcount = mbp[v].orefcount
  BY DEF WithIModel, ModelBuildingProperties

-------------------------------------------------------------------------------
(***************************************************************************)
(* Steps that return an input model.                                       *)
(***************************************************************************)

\* the unit of the active call of getNextIModel has no output model
LEMMA JoiningIsIdle ==
  ASSUME BuilderInv, stack # <<>>, Frame.fn = "getNextIModel"
  PROVE  U \in Units /\ U > Level /\ Idle(U)
<1>1. U \in Units /\ (U = ufinal \/ Level = U - 1)
  BY IModelActive
<1>2. U > Level
  BY <1>1, HeldType, UnitsAreNumbers
<1> QED
  BY <1>1, <1>2 DEF BuilderInv, UnitsOK

LEMMA IModelStep ==
  ASSUME BuilderInv, stack # <<>>, Frame.fn = "getNextIModel", NEW m \in Nat,
         Return(m), mbp' = WithIModel(U, m),
         preds' = preds, asked' = asked, answers' = answers, exhausted' = exhausted,
         Kept(graph, graph'),
         \A n \in 1..Len(graph) : graph'[n].childModelsGenerated = graph[n].childModelsGenerated,
         \A n \in (Len(graph) + 1)..Len(graph') : graph'[n].type = "in",
         ModelsOK', JoinsConsistent',
         m # NoModel => /\ m \in DOMAIN graph' /\ graph'[m].type = "in" /\ graph'[m].location = U
                        /\ graph'[m].deps = CurrentOModels(U),
         Leaving <=> m = NoModel,
         Len(stack) = 1 => Level = IF m # NoModel THEN NumUnits - 1 ELSE 0,
         Len(stack) = 3 => NestedHeld = IF m # NoModel THEN Len(preds[U]) ELSE 0
  PROVE  BuilderInv'
<1>1. /\ TypeOK /\ StackOK /\ UnitsOK /\ CallerOK /\ GeneratorsStartOnce /\ InputsCurrent /\ RefsOK
      /\ graph \in Seq(ModelRecords) /\ mbp \in [Units -> ModelBuildingProperties]
  BY DEF BuilderInv, TypeOK
<1>2. U \in Units /\ U > Level /\ Idle(U)
  BY JoiningIsIdle
<1>3. /\ mbp' \in [Units -> ModelBuildingProperties]
      /\ \A v \in Units : /\ mbp'[v].imodel = IF v = U THEN m ELSE mbp[v].imodel
                          /\ mbp'[v].currentisuccessor = mbp[v].currentisuccessor
                          /\ mbp'[v].currentmg = mbp[v].currentmg
                          /\ mbp'[v].orefcount = mbp[v].orefcount
  BY <1>1, <1>2, SetIModel DEF Idle
<1>4. /\ \A v \in Units : /\ IModel(v)' = IF v = U THEN m ELSE IModel(v)
                          /\ OModel(v)' = OModel(v)
  BY <1>3 DEF IModel, OModel
<1>5. /\ stack \in Seq(Frames) /\ EvalGraphOK(preds) /\ preds \in [Units -> Seq(Units)]
      /\ \/ /\ Len(stack) = 1 /\ U = ufinal
            /\ \A u \in Units : (u \in Joining <=> u = ufinal) /\ u \notin Running
         \/ /\ Len(stack) = 3 /\ FinalCall(stack[3]) /\ stack[3].pc = "result"
            /\ OModelCall(stack[2], stack[3]) /\ NestedCall(Frame, stack[2])
            /\ U = Advanced /\ Advanced = stack[3].cursor /\ U < ufinal /\ Level = U - 1
            /\ \A u \in Units : /\ u \in Joining <=> u = ufinal \/ u = U
                                /\ u \in Running <=> u = U
  BY IModelActive
<1>6. /\ stack' \in Seq(Frames) /\ Len(stack') = Len(stack) - 1 /\ ret' = m
      /\ \A i \in 1..(Len(stack) - 1) : stack'[i] = stack[i + 1]
  BY ReturnFromCall, <1>1
<1>7. TypeOK'
  BY <1>1, <1>3, <1>6 DEF TypeOK, Kept
<1>8. graph' \in Seq(ModelRecords) /\ Len(graph) \in Nat
      /\ \A n \in DOMAIN graph : /\ n \in DOMAIN graph'
                                 /\ graph'[n].location = graph[n].location
                                 /\ graph'[n].type = graph[n].type
                                 /\ graph'[n].deps = graph[n].deps
                                 /\ graph'[n].interpretation = graph[n].interpretation
                                 /\ graph'[n].childModelsGenerated = graph[n].childModelsGenerated
  BY <1>1 DEF Kept
<1>9. /\ Level' = Level /\ (Leaving' <=> Leaving) /\ StackOK' /\ CallerOK'
      /\ \A u \in Units : /\ u \in Joining' <=> u \in Joining /\ u # U
                          /\ u \in Running' <=> u \in Running
  <2>1. CASE Len(stack) = 1
    <3>1. Len(stack') = 0 /\ stack' = <<>>
      BY <1>6, <2>1
    <3>2. stack # <<>> => asked
      BY <1>1 DEF CallerOK
    <3>3. mbp'[ufinal].imodel = m /\ U = ufinal
      BY <1>3, <1>5, <2>1, UnitsAreNumbers
    <3>4. StackOK'
      BY <3>1 DEF StackOK
    <3>5. Level' = Level
      BY <2>1, <3>1, <3>3 DEF Level, IModel
    <3>6. Leaving' <=> Leaving
      BY <1>6, <3>1, <3>2 DEF Leaving
    <3>7. CallerOK'
      BY <1>1, <1>6, <3>1, <3>2, <3>3 DEF CallerOK, IModel
    <3>8. \A u \in Units : u \notin Joining' /\ u \notin Running'
      BY <3>1 DEF Joining, Running
    <3> QED
      BY <1>5, <2>1, <3>3, <3>4, <3>5, <3>6, <3>7, <3>8
  <2>2. CASE Len(stack) = 3
    <3>1. Len(stack') = 2 /\ stack'[1] = stack[2] /\ stack'[2] = stack[3]
      BY <1>6, <2>2
    <3>2. stack[2].pc = "loop" /\ stack[2].fn = "getNextOModel"
      BY <1>5, <2>2 DEF NestedCall, OModelCall
    <3>3. mbp'[U].imodel = m /\ Advanced' = U
      BY <1>2, <1>3, <1>5, <2>2, <3>1 DEF Advanced
    <3>4. StackOK'
      <4>1. FinalCall(stack[2])'
        BY <1>5, <2>2, <3>1 DEF FinalCall, IModelCall
      <4>2. OModelCall(stack[1], stack[2])'
        BY <1>5, <2>2, <3>1 DEF OModelCall
      <4> QED
        BY <3>1, <4>1, <4>2 DEF StackOK
    <3>5. Level' = Level
      BY <1>5, <2>2, <3>1, <3>2, <3>3 DEF Level
    <3>6. Leaving' <=> Leaving
      BY <3>1, <3>2, <3>3 DEF Leaving, IModel
    <3>7. CallerOK'
      <4>1. stack' # <<>>
        BY <3>1
      <4> QED
        BY <1>1, <4>1 DEF CallerOK
    <3>8. \A u \in Units : (u \in Joining' <=> u = ufinal) /\ (u \in Running' <=> u = U)
      BY <3>1, <3>2, <3>3 DEF Joining, Running
    <3> QED
      BY <1>5, <2>2, <3>4, <3>5, <3>6, <3>7, <3>8, UnitsAreNumbers
  <2> QED
    BY <1>5, <2>1, <2>2
<1>10. CurrentAtoms'
  <2> SUFFICES ASSUME NEW u \in Units, mbp'[u].currentisuccessor # NoModel,
                      NEW a \in graph'[mbp'[u].currentisuccessor].interpretation
               PROVE  mbp'[graph'[a].location].currentisuccessor = a
    BY DEF CurrentAtoms, OModel
  <2>1. mbp'[u].currentisuccessor = OModel(u) /\ OModel(u) # NoModel
    BY <1>3 DEF OModel
  <2>2. OModel(u) \in DOMAIN graph
    BY <1>1, <2>1 DEF UnitsOK, UnitOK
  <2>3. a \in graph[OModel(u)].interpretation
    BY <1>8, <2>1, <2>2
  <2>4. a \in DOMAIN graph /\ graph[a].location \in Units /\ OModel(graph[a].location) = a
    BY <2>1, <2>3, CurrentAtomsKnown
  <2>5. mbp'[graph[a].location].currentisuccessor = mbp[graph[a].location].currentisuccessor
    BY <1>3, <2>4
  <2>6. graph'[a].location = graph[a].location
    BY <1>8, <2>4
  <2> QED
    BY <2>4, <2>5, <2>6 DEF OModel
<1>11. GeneratorsStartOnce'
  <2> SUFFICES ASSUME NEW n \in DOMAIN graph', graph'[n].type = "out"
               PROVE  \/ graph'[graph'[n].deps[1]].childModelsGenerated
                      \/ /\ mbp'[graph'[n].location].imodel = graph'[n].deps[1]
                         /\ mbp'[graph'[n].location].currentmg
    BY DEF GeneratorsStartOnce
  <2>1. n \in DOMAIN graph
    BY <1>8
  <2>2. graph[n].location \in Units
    BY <1>1, <2>1, GraphType
  <2>3. graph[n].deps[1] \in DOMAIN graph
    BY <1>1, <1>8, <2>1 DEF BuilderInv, ModelsOK, GraphOK, OutModelOK
  <2>4. \/ graph[graph[n].deps[1]].childModelsGenerated
        \/ mbp[graph[n].location].imodel = graph[n].deps[1] /\ mbp[graph[n].location].currentmg
    BY <1>1, <1>8, <2>1 DEF GeneratorsStartOnce
  <2> QED
    BY <1>2, <1>3, <1>8, <2>1, <2>2, <2>3, <2>4 DEF Idle
<1>12. UnitsOK'
  <2>1. ASSUME NEW u \in Units PROVE UnitOK(u)'
    <3>1. CASE u = U
      BY <1>2, <1>3, <1>4, <3>1 DEF UnitOK, Idle, OModel
    <3>2. CASE u # U
      <4>1. UnitOK(u)
        BY <1>1 DEF UnitsOK
      <4> QED
        BY <1>3, <1>4, <1>8, <3>2, <4>1 DEF UnitOK
    <3> QED
      BY <3>1, <3>2
  <2>2. \A u \in Units : Idle(u)' <=> Idle(u)
    BY <1>3, <1>4 DEF Idle
  <2>3. \A u \in Units : u > Level /\ u # ufinal /\ IModel(u)' # NoModel => u \in Running'
    <3>1. \A u \in Units : u > Level /\ u # ufinal /\ IModel(u) # NoModel => u \in Running
      BY <1>1 DEF UnitsOK
    <3>2. U = ufinal \/ U \in Running
      BY <1>2, <1>5
    <3> QED
      BY <1>4, <1>9, <3>1, <3>2
  <2> QED
    BY <1>1, <1>4, <1>9, <2>1, <2>2, <2>3 DEF UnitsOK
<1>13. InputsCurrent'
  <2> SUFFICES ASSUME NEW u \in Units, u \notin Joining'
               PROVE  Fed(u)'
    BY DEF InputsCurrent
  <2>1. CurrentOModels(u)' = CurrentOModels(u)
    BY <1>3, <1>5 DEF CurrentOModels, EvalGraphOK
  <2>2. CASE u = U
    BY <1>4, <2>1, <2>2 DEF Fed
  <2>3. CASE u # U
    <3>1. Fed(u) /\ IModel(u)' = IModel(u)
      BY <1>1, <1>4, <1>9, <2>3 DEF InputsCurrent
    <3>2. IModel(u) # NoModel => IModel(u) \in DOMAIN graph
      BY <1>1 DEF UnitsOK, UnitOK
    <3> QED
      BY <1>8, <2>1, <3>1, <3>2 DEF Fed
  <2> QED
    BY <2>2, <2>3
<1>14. RefsOK'
  <2>1. ASSUME NEW v \in Units PROVE Held(v)' = Held(v)
    <3>1. CASE v = ufinal
      BY <1>9, <3>1 DEF Held
    <3>2. CASE v # ufinal /\ v = U
      BY <1>4, <1>5, <1>9, <3>2 DEF Held
    <3>3. CASE v # ufinal /\ v # U
      BY <1>4, <1>5, <1>9, <3>3 DEF Held
    <3> QED
      BY <3>1, <3>2, <3>3
  <2>2. HeldBy' = HeldBy
    BY <2>1 DEF HeldBy
  <2> QED
    BY <1>1, <1>3, <2>2 DEF RefsOK
<1>15. PassedOffered' /\ AnswersOK'
  <2>1. Outputs' = Outputs
    BY <1>4 DEF Outputs
  <2>2. \A c : Passed(c)' <=> Passed(c)
    BY <1>9, <2>1 DEF Passed, PassedAt
  <2> QED
    BY <2>2, WalkKept
<1> QED
  BY <1>7, <1>9, <1>10, <1>11, <1>12, <1>13, <1>14, <1>15 DEF BuilderInv

\* The atoms of a model stay consistent when others are added.
LEMMA KeptConsistent ==
  ASSUME BuilderInv, Kept(graph, graph'),
         \A n \in (Len(graph) + 1)..Len(graph') : Consistent(graph', graph'[n].interpretation)
  PROVE  JoinsConsistent'
<1> SUFFICES ASSUME NEW n \in 1..Len(graph), n \in DOMAIN graph',
                    NEW a \in graph'[n].interpretation, NEW b \in graph'[n].interpretation,
                    graph'[a].location = graph'[b].location
             PROVE  a = b
  <2>1. DOMAIN graph' = 1..Len(graph') /\ Len(graph) \in Nat /\ Len(graph') \in Nat
    BY DEF BuilderInv, TypeOK, Kept
  <2> QED
    BY <2>1 DEF JoinsConsistent, Consistent
<1>1. graph \in Seq(ModelRecords) /\ n \in DOMAIN graph
  BY DEF BuilderInv, TypeOK
<1>2. a \in graph[n].interpretation /\ b \in graph[n].interpretation
  BY DEF Kept
<1>3. AtomsOK(graph, n)
  BY <1>1 DEF BuilderInv, ModelsOK, GraphOK
<1>4. a \in 1..Len(graph) /\ b \in 1..Len(graph)
  BY <1>1, <1>2, <1>3 DEF AtomsOK
<1>5. graph'[a].location = graph[a].location /\ graph'[b].location = graph[b].location
  BY <1>4 DEF Kept
<1> QED
  BY <1>1, <1>2, <1>5 DEF BuilderInv, JoinsConsistent, Consistent

LEMMA SimilarModelsOK ==
  ASSUME BuilderInv, preds' = preds, Similar(graph, graph'), ~ConstantSpace => graph' = graph
  PROVE  ModelsOK' /\ JoinsConsistent'
<1>1. /\ graph \in Seq(ModelRecords) /\ EvalGraphOK(preds) /\ ModelsOK /\ JoinsConsistent
  BY PredecessorsBelow DEF BuilderInv, TypeOK
<1>2. Kept(graph, graph') /\ Len(graph') = Len(graph) /\ (Len(graph) + 1)..Len(graph') = {}
  BY <1>1 DEF Similar
<1>3. GraphOK(preds, graph')
  BY <1>1, <1>2, SimilarGraphOK DEF ModelsOK
<1>4. RedundancyElimination => InputsUnique(graph')
  BY <1>1, <1>2, KeptInputsUnique DEF ModelsOK
<1>5. ~ConstantSpace => NoneFreed(graph')
  BY <1>1 DEF ModelsOK
<1>6. JoinsConsistent'
  BY <1>2, KeptConsistent
<1> QED
  BY <1>3, <1>4, <1>5, <1>6 DEF ModelsOK

LEMMA AddedModelsOK ==
  ASSUME BuilderInv, preds' = preds, NEW r \in ModelRecords, Added(graph, r, graph'),
         GraphOK(preds, graph'),
         RedundancyElimination /\ r.type = "in" =>
           \A m \in 1..Len(graph) : ~(/\ graph[m].type = "in" /\ graph[m].location = r.location
                                      /\ graph[m].deps = r.deps),
         ~ConstantSpace => graph' = Append(graph, r) /\ (r.type = "out" => ~r.isNull),
         Consistent(graph', r.interpretation)
  PROVE  ModelsOK' /\ JoinsConsistent'
<1>1. /\ graph \in Seq(ModelRecords) /\ Len(graph) \in Nat /\ ModelsOK
  BY DEF BuilderInv, TypeOK
<1>2. /\ Kept(graph, graph') /\ Len(graph') = Len(graph) + 1
      /\ \A n \in (Len(graph) + 1)..Len(graph') :
           /\ n = Len(graph')
           /\ graph'[n].location = r.location /\ graph'[n].type = r.type
           /\ graph'[n].deps = r.deps /\ graph'[n].interpretation = r.interpretation
  BY <1>1 DEF Added
<1>3. RedundancyElimination => InputsUnique(graph')
  <2> SUFFICES ASSUME RedundancyElimination PROVE InputsUnique(graph')
    OBVIOUS
  <2>1. InputsUnique(graph)
    BY <1>1 DEF ModelsOK
  <2>2. \A m \in 1..Len(graph) : /\ graph'[m].type = graph[m].type
                                 /\ graph'[m].location = graph[m].location
                                 /\ graph'[m].deps = graph[m].deps
    BY <1>2 DEF Kept
  <2>3. \A n \in (Len(graph) + 1)..Len(graph') :
          graph'[n].type = "in" =>
            /\ n = Len(graph')
            /\ \A m \in 1..Len(graph) :
                 ~(/\ graph'[m].type = "in" /\ graph'[m].location = graph'[n].location
                   /\ graph'[m].deps = graph'[n].deps)
    BY <1>2, <2>2
  <2> QED
    BY <1>1, <1>2, <2>1, <2>3, KeptInputsUnique
<1>4. ~ConstantSpace => NoneFreed(graph')
  <2> SUFFICES ASSUME ~ConstantSpace PROVE NoneFreed(graph')
    OBVIOUS
  <2>1. /\ \A i \in 1..Len(graph) : graph'[i] = graph[i]
        /\ graph'[Len(graph) + 1] = r
        /\ DOMAIN graph' = 1..(Len(graph) + 1)
    BY <1>1, <1>2, AppendProperties DEF Kept
  <2>2. NoneFreed(graph)
    BY <1>1 DEF ModelsOK
  <2> QED
    BY <1>1, <2>1, <2>2 DEF NoneFreed
<1>5. JoinsConsistent'
  BY <1>2, KeptConsistent
<1> QED
  BY <1>3, <1>4, <1>5 DEF ModelsOK

LEMMA NoIModelInvariant == ASSUME BuilderInv, NoIModel PROVE BuilderInv'
<1>1. /\ TypeOK /\ stack # <<>> /\ Frame.fn = "getNextIModel" /\ Frame.pc = "result"
      /\ ret = NoModel /\ Frame.cursor = 1 /\ graph \in Seq(ModelRecords) /\ Len(graph) \in Nat
  BY DEF BuilderInv, NoIModel, IsActive, Frame, TypeOK
<1>2. /\ Return(NoModel) /\ mbp' = WithIModel(U, NoModel) /\ preds' = preds /\ graph' = graph
      /\ asked' = asked /\ answers' = answers /\ exhausted' = exhausted /\ NoModel \in Nat
  BY DEF NoIModel, NoModel
<1>3. Frame = stack[1] /\ (Len(stack) = 1 \/ Len(stack) = 3)
  BY <1>1, IModelActive
<1>4. Similar(graph, graph')
  BY <1>1, <1>2, SimilarSelf
<1>5. ModelsOK' /\ JoinsConsistent'
  BY <1>2, <1>4, SimilarModelsOK
<1>6. /\ Kept(graph, graph')
      /\ \A n \in 1..Len(graph) : graph'[n].childModelsGenerated = graph[n].childModelsGenerated
      /\ \A n \in (Len(graph) + 1)..Len(graph') : graph'[n].type = "in"
  BY <1>1, <1>4 DEF Similar
<1>7. Leaving
  <2>1. stack[1].pc = "result" /\ ret = NoModel
    BY <1>1, <1>3
  <2>2. Len(stack) # 0 /\ Len(stack) # 2
    BY <1>3
  <2> QED
    BY <2>1, <2>2 DEF Leaving
<1>8. Len(stack) = 1 => Level = 0
  BY <1>1, <1>3 DEF Level
<1>9. Len(stack) = 3 => NestedHeld = 0
  BY <1>1, <1>3 DEF NestedHeld
<1> QED
  BY <1>1, <1>2, <1>5, <1>6, <1>7, <1>8, <1>9, IModelStep

\* What is freed is the input model before, and only with constant space.
LEMMA FreeOldIModelSimilar ==
  ASSUME NEW g \in Seq(ModelRecords)
  PROVE  Similar(g, FreeOldIModel(g)) /\ (~ConstantSpace => FreeOldIModel(g) = g)
<1> DEFINE q == Freed(g, mbp[U].imodel)
<1>1. Similar(g, q)
  BY FreedSimilar
<1> QED
  BY <1>1, SimilarSelf, FlagsAssumption DEF FreeOldIModel

\* A unit without predecessors.
LEMMA DummyIModelInvariant == ASSUME BuilderInv, DummyIModel PROVE BuilderInv'
<1> DEFINE had == Frame.hadIModel
           dummies == ModelsAt(graph, U, "in")
           m == IF had THEN NoModel ELSE IF dummies = {} THEN Len(graph) + 1 ELSE Oldest(dummies)
           r == Model(U, "in", <<>>, {}, TRUE)
<1>1. /\ TypeOK /\ stack # <<>> /\ Frame.fn = "getNextIModel" /\ Frame.pc = "dummy"
      /\ graph \in Seq(ModelRecords) /\ Len(graph) \in Nat /\ EvalGraphOK(preds)
      /\ GraphOK(preds, graph)
  BY PredecessorsBelow DEF BuilderInv, DummyIModel, IsActive, Frame, TypeOK, ModelsOK
<1>2. /\ Return(m) /\ mbp' = WithIModel(U, m) /\ preds' = preds
      /\ graph' = (IF ~had /\ dummies = {} THEN Append(graph, r) ELSE FreeOldIModel(graph))
      /\ asked' = asked /\ answers' = answers /\ exhausted' = exhausted
  BY DEF DummyIModel
<1>3. /\ Frame = stack[1] /\ Frame \in Frames /\ U \in Units /\ U = Frame.unit
      /\ (Len(stack) = 1 \/ Len(stack) = 3)
      /\ preds[U] = <<>> /\ (Len(stack) = 1 => U = ufinal) /\ had \in BOOLEAN
      /\ Len(stack) \in Nat
  <2>1. /\ Frame = stack[1] /\ Frame \in Frames /\ U \in Units /\ U = Frame.unit
        /\ (Len(stack) = 1 \/ Len(stack) = 3) /\ IModelCall(Frame)
    BY <1>1, IModelActive
  <2>2. Len(stack) = 1 => U = ufinal
    BY <1>1, IModelActive
  <2>3. Len(stack) \in Nat
    BY <1>1, TopFrame
  <2> QED
    BY <1>1, <2>1, <2>2, <2>3 DEF IModelCall, Frames
<1>4. CurrentOModels(U) = <<>> /\ Len(preds[U]) = 0
  BY <1>3 DEF CurrentOModels
<1>5. /\ dummies \subseteq Nat \ {0} /\ dummies \subseteq DOMAIN graph
      /\ \A d \in dummies : graph[d].type = "in" /\ graph[d].location = U /\ graph[d].deps = <<>>
  <2>1. ASSUME NEW d \in dummies
        PROVE  d \in Nat \ {0} /\ d \in DOMAIN graph /\ graph[d].type = "in" /\ graph[d].location = U
    BY <1>1, GraphType DEF ModelsAt
  <2>2. ASSUME NEW d \in dummies PROVE graph[d].deps = <<>>
    <3>1. Len(graph[d].deps) = Len(preds[U])
      BY <1>1, <2>1 DEF GraphOK, InModelOK
    <3>2. graph[d].deps \in Seq(Nat)
      BY <1>1, <2>1, GraphType
    <3> QED
      BY <1>4, <3>1, <3>2, EmptySeq
  <2> QED
    BY <2>1, <2>2
<1>6. ~had /\ dummies # {} => m \in dummies
  BY <1>5, OldestIsLeast
<1>7. m \in Nat /\ (m = NoModel <=> had)
  BY <1>1, <1>3, <1>5, <1>6 DEF NoModel
<1>8. /\ ModelsOK' /\ JoinsConsistent' /\ Kept(graph, graph')
      /\ \A n \in 1..Len(graph) : graph'[n].childModelsGenerated = graph[n].childModelsGenerated
      /\ \A n \in (Len(graph) + 1)..Len(graph') : graph'[n].type = "in"
      /\ m # NoModel => /\ m \in DOMAIN graph' /\ graph'[m].type = "in" /\ graph'[m].location = U
                        /\ graph'[m].deps = CurrentOModels(U)
  <2>1. CASE ~had /\ dummies = {}
    <3>1. graph' = Append(graph, r) /\ m = Len(graph) + 1
      BY <1>2, <2>1
    <3>2. /\ r.location = U /\ r.type = "in" /\ r.deps = <<>> /\ r.interpretation = {}
      BY DEF Model
    <3>3. r \in ModelRecords /\ \A q : Added(graph, r, q) => GraphOK(preds, q)
      <4> DEFINE deps == <<>>
                 null == TRUE
      <4>1. deps \in Seq(Nat) /\ Len(deps) = Len(preds[U]) /\ Len(deps) = 0 /\ null \in BOOLEAN
        BY <1>4
      <4>3. r = Model(U, "in", deps, Join(graph, deps), null)
        <5>1. Join(graph, <<>>) = {}
          BY NoDependencies
        <5> QED
          BY <5>1
      <4> HIDE DEF deps, r, null
      <4>2. \A i \in 1..Len(deps) : /\ deps[i] \in 1..Len(graph) /\ graph[deps[i]].type = "out"
                                    /\ graph[deps[i]].location = preds[U][i]
        BY <4>1
      <4>4. /\ EvalGraphOK(preds) /\ graph \in Seq(ModelRecords) /\ GraphOK(preds, graph)
            /\ U \in Units /\ deps \in Seq(Nat) /\ Len(deps) = Len(preds[U]) /\ null \in BOOLEAN
        BY <1>1, <1>3, <4>1
      <4> HIDE DEF m, dummies, had
      <4> QED
        BY <4>2, <4>3, <4>4, NewIModel
    <3> HIDE DEF r, m
    <3>4. Added(graph, r, graph')
      BY <1>1, <3>1, <3>3, AppendAdded
    <3>5. GraphOK(preds, graph')
      BY <3>3, <3>4
    <3>6. \A n \in 1..Len(graph) : ~(/\ graph[n].type = "in" /\ graph[n].location = r.location
                                     /\ graph[n].deps = r.deps)
      BY <1>1, <2>1, <3>2 DEF ModelsAt
    <3>7. Consistent(graph', r.interpretation)
      BY <3>2 DEF Consistent
    <3>8. ~(r.type = "out")
      BY <3>2
    <3>9. ModelsOK' /\ JoinsConsistent'
      BY <1>2, <3>1, <3>3, <3>4, <3>5, <3>6, <3>7, <3>8, AddedModelsOK
    <3>10. /\ Kept(graph, graph') /\ Len(graph') = Len(graph) + 1 /\ DOMAIN graph' = 1..Len(graph')
           /\ graph'[Len(graph')].type = "in" /\ graph'[Len(graph')].location = U
           /\ graph'[Len(graph')].deps = <<>>
           /\ \A n \in 1..Len(graph) : graph'[n].childModelsGenerated = graph[n].childModelsGenerated
      BY <3>2, <3>4 DEF Added, Kept
    <3> QED
      BY <1>1, <1>4, <3>1, <3>9, <3>10
  <2>2. CASE ~(~had /\ dummies = {})
    <3>1. graph' = FreeOldIModel(graph)
      BY <1>2, <2>2
    <3>2. Similar(graph, graph') /\ (~ConstantSpace => graph' = graph)
      BY <1>1, <3>1, FreeOldIModelSimilar
    <3>3. ModelsOK' /\ JoinsConsistent'
      BY <1>2, <3>2, SimilarModelsOK
    <3>4. /\ Kept(graph, graph') /\ Len(graph') = Len(graph)
          /\ \A n \in 1..Len(graph) : graph'[n].childModelsGenerated = graph[n].childModelsGenerated
          /\ \A n \in DOMAIN graph : /\ n \in DOMAIN graph' /\ graph'[n].type = graph[n].type
                                     /\ graph'[n].location = graph[n].location
                                     /\ graph'[n].deps = graph[n].deps
      BY <1>1, <3>2 DEF Similar, Kept
    <3>5. m # NoModel => m \in dummies
      BY <1>6, <1>7, <2>2
    <3> HIDE DEF m
    <3> QED
      BY <1>1, <1>4, <1>5, <3>3, <3>4, <3>5
  <2> QED
    BY <2>1, <2>2
<1> HIDE DEF m
<1>9. Leaving <=> m = NoModel
  <2>1. stack[1].pc = "dummy" /\ (stack[1].hadIModel <=> m = NoModel)
    BY <1>1, <1>3, <1>7
  <2>2. Len(stack) # 0 /\ Len(stack) # 2 /\ Len(stack) # 4
    <3>1. Len(stack) = 1 \/ Len(stack) = 3
      BY <1>3
    <3> QED
      BY <3>1, SMTT(20)
  <2> QED
    BY <2>1, <2>2 DEF Leaving
<1>10. Len(stack) = 1 => Level = 0 /\ NumUnits = 1
  <2>1. Len(preds[ufinal]) = NumUnits - 1 /\ NumUnits \in Nat
    BY <1>1, NumUnitsAssumption DEF EvalGraphOK
  <2> QED
    BY <1>1, <1>3, <1>4, <2>1 DEF Level
<1>11. Len(stack) = 3 => NestedHeld = 0
  BY <1>1, <1>3 DEF NestedHeld
<1>12. /\ Len(stack) = 1 => Level = IF m # NoModel THEN NumUnits - 1 ELSE 0
       /\ Len(stack) = 3 => NestedHeld = IF m # NoModel THEN Len(preds[U]) ELSE 0
  BY <1>4, <1>10, <1>11
<1> QED
  BY <1>1, <1>2, <1>7, <1>8, <1>9, <1>12, IModelStep

\* When all predecessors have output models, they are joined.
LEMMA JoinedModels ==
  ASSUME BuilderInv, stack # <<>>, Frame.fn = "getNextIModel", Frame.pc = "fill",
         Frame.cursor > Len(preds[U])
  PROVE  /\ U \in Units /\ preds[U] # <<>> /\ Len(preds[U]) \in Nat /\ Len(preds[U]) >= 1
         /\ CurrentOModels(U) \in Seq(Nat) /\ Len(CurrentOModels(U)) = Len(preds[U])
         /\ \A i \in 1..Len(preds[U]) :
              /\ preds[U][i] \in Units /\ OModel(preds[U][i]) # NoModel
              /\ CurrentOModels(U)[i] = OModel(preds[U][i])
              /\ CurrentOModels(U)[i] \in 1..Len(graph)
              /\ graph[CurrentOModels(U)[i]].type = "out"
              /\ graph[CurrentOModels(U)[i]].location = preds[U][i]
         /\ Frame.cursor = Len(preds[U]) + 1
<1>1. /\ TypeOK /\ UnitsOK /\ graph \in Seq(ModelRecords) /\ mbp \in [Units -> ModelBuildingProperties]
  BY DEF BuilderInv, TypeOK
<1>2. /\ Frame = stack[1] /\ IModelCall(Frame) /\ U = Frame.unit /\ U \in Units /\ EvalGraphOK(preds)
      /\ preds \in [Units -> Seq(Units)] /\ Frame.cursor \in Nat
      /\ ((Len(stack) = 1 /\ U = ufinal) \/ Len(stack) = 3)
  BY IModelActive
<1>3. preds[U] # <<>> /\ Frame.cursor \in 1..(Len(preds[U]) + 1)
  BY <1>2 DEF IModelCall
<1>4. Len(preds[U]) \in Nat /\ Len(preds[U]) >= 1 /\ Frame.cursor = Len(preds[U]) + 1
  BY <1>2, <1>3, EmptySeq
<1>5. ASSUME NEW i \in 1..Len(preds[U])
      PROVE  preds[U][i] \in Units /\ OModel(preds[U][i]) # NoModel
  <2>1. preds[U][i] \in Units
    BY <1>2
  <2>2. CASE Len(stack) = 3
    BY <2>1, <2>2, NestedSeesOModels
  <2>3. CASE Len(stack) = 1 /\ U = ufinal
    <3>1. Level = Frame.cursor - 1
      BY <1>2, <2>3 DEF Level
    <3>2. preds[U][i] = i
      BY <1>2, <2>3 DEF EvalGraphOK
    <3>3. i <= Level
      BY <1>4, <3>1
    <3> QED
      BY <1>1, <2>1, <3>2, <3>3 DEF UnitsOK
  <2> QED
    BY <1>2, <2>2, <2>3
<1>6. ASSUME NEW i \in 1..Len(preds[U])
      PROVE  /\ OModel(preds[U][i]) \in 1..Len(graph)
             /\ graph[OModel(preds[U][i])].type = "out"
             /\ graph[OModel(preds[U][i])].location = preds[U][i]
             /\ OModel(preds[U][i]) \in Nat
  BY <1>1, <1>5 DEF UnitsOK, UnitOK
<1>7. CurrentOModels(U) = [i \in 1..Len(preds[U]) |-> OModel(preds[U][i])]
  BY DEF CurrentOModels, OModel
<1>8. /\ CurrentOModels(U) \in Seq(Nat) /\ Len(CurrentOModels(U)) = Len(preds[U])
      /\ \A i \in 1..Len(preds[U]) : CurrentOModels(U)[i] = OModel(preds[U][i])
  BY <1>4, <1>6, <1>7
<1>9. ASSUME NEW i \in 1..Len(preds[U])
      PROVE  /\ preds[U][i] \in Units /\ OModel(preds[U][i]) # NoModel
             /\ CurrentOModels(U)[i] = OModel(preds[U][i])
             /\ CurrentOModels(U)[i] \in 1..Len(graph)
             /\ graph[CurrentOModels(U)[i]].type = "out"
             /\ graph[CurrentOModels(U)[i]].location = preds[U][i]
  <2>1. CurrentOModels(U)[i] = OModel(preds[U][i])
    BY <1>8
  <2> QED
    BY <1>5, <1>6, <2>1
<1> QED
  BY <1>2, <1>3, <1>4, <1>8, <1>9

\* A model at the unit that all of them contributed to is their input model.
LEMMA ReusedIModel ==
  ASSUME BuilderInv, stack # <<>>, Frame.fn = "getNextIModel", Frame.pc = "fill",
         Frame.cursor > Len(preds[U]), NEW s
  PROVE  s \in CommonSuccessors(graph, U, CurrentOModels(U)) <=>
           /\ s \in DOMAIN graph /\ graph[s].type = "in" /\ graph[s].location = U
           /\ graph[s].deps = CurrentOModels(U)
<1> DEFINE deps == CurrentOModels(U)
<1>1. /\ TypeOK /\ UnitsOK /\ graph \in Seq(ModelRecords) /\ GraphOK(preds, graph) /\ EvalGraphOK(preds)
  BY PredecessorsBelow DEF BuilderInv, TypeOK, ModelsOK
<1>2. /\ U \in Units /\ Len(preds[U]) \in Nat /\ Len(preds[U]) >= 1
      /\ deps \in Seq(Nat) /\ Len(deps) = Len(preds[U])
      /\ \A i \in 1..Len(preds[U]) : graph[deps[i]].type = "out" /\ graph[deps[i]].location = preds[U][i]
  BY JoinedModels
<1> HIDE DEF deps
<1>3. ASSUME s \in DOMAIN graph, graph[s].location = U, Range(deps) \subseteq Range(graph[s].deps)
      PROVE  graph[s].type = "in" /\ graph[s].deps = deps
  <2>1. /\ graph[s].type \in {"in", "out"} /\ graph[s].deps \in Seq(Nat)
        /\ DOMAIN graph[s].deps = 1..Len(graph[s].deps) /\ Len(graph[s].deps) \in Nat
        /\ DOMAIN deps = 1..Len(deps)
    BY <1>1, <1>2, <1>3, GraphType
  <2>2. ASSUME NEW i \in 1..Len(deps)
        PROVE  \E j \in 1..Len(graph[s].deps) : graph[s].deps[j] = deps[i]
    <3>1. deps[i] \in Range(deps)
      BY <2>1 DEF Range
    <3>2. deps[i] \in Range(graph[s].deps)
      BY <1>3, <3>1
    <3> QED
      BY <2>1, <3>2 DEF Range
  <2>3. graph[s].type = "in"
    <3>1. ASSUME graph[s].type = "out" PROVE FALSE
      <4>1. Len(graph[s].deps) = 1 /\ graph[graph[s].deps[1]].type = "in"
        BY <1>1, <1>3, <3>1 DEF GraphOK, OutModelOK
      <4>2. PICK j \in 1..Len(graph[s].deps) : graph[s].deps[j] = deps[1]
        BY <1>2, <2>2
      <4>3. graph[s].deps[1] = deps[1]
        BY <4>1, <4>2
      <4> QED
        BY <1>2, <4>1, <4>3
    <3> QED
      BY <2>1, <3>1
  <2>4. /\ Len(graph[s].deps) = Len(preds[U])
        /\ \A j \in 1..Len(preds[U]) : graph[graph[s].deps[j]].location = preds[U][j]
    BY <1>1, <1>3, <2>3 DEF GraphOK, InModelOK
  <2>5. ASSUME NEW i \in 1..Len(deps) PROVE graph[s].deps[i] = deps[i]
    <3>1. PICK j \in 1..Len(graph[s].deps) : graph[s].deps[j] = deps[i]
      BY <2>2
    <3>2. j \in 1..Len(preds[U]) /\ i \in 1..Len(preds[U])
      BY <1>2, <2>4
    <3>3. preds[U][j] = preds[U][i]
      BY <1>2, <2>4, <3>1, <3>2
    <3>4. j = i
      BY <1>1, <1>2, <3>2, <3>3 DEF EvalGraphOK
    <3> QED
      BY <3>1, <3>4
  <2>6. graph[s].deps = deps
    <3> DEFINE t == graph[s].deps
    <3>1. t \in Seq(Nat) /\ deps \in Seq(Nat) /\ Len(t) = Len(deps)
          /\ \A i \in 1..Len(t) : t[i] = deps[i]
      BY <1>2, <2>1, <2>4, <2>5
    <3> HIDE DEF t
    <3>2. t = deps
      BY <3>1, SeqEqual
    <3> QED
      BY <3>2 DEF t
  <2> QED
    BY <2>3, <2>6
<1> QED
  BY <1>3 DEF CommonSuccessors, deps

LEMMA CreateIModelInvariant == ASSUME BuilderInv, CreateIModel PROVE BuilderInv'
<1> DEFINE deps == CurrentOModels(U)
           existing == CommonSuccessors(graph, U, deps)
           reuse == RedundancyElimination /\ existing # {}
           m == IF reuse THEN Oldest(existing) ELSE Len(graph) + 1
           isNull == \E i \in DOMAIN deps : graph[deps[i]].isNull
           r == Model(U, "in", deps, Join(graph, deps), isNull)
           g == IF reuse THEN graph ELSE Append(graph, r)
<1>1. /\ TypeOK /\ stack # <<>> /\ Frame.fn = "getNextIModel" /\ Frame.pc = "fill"
      /\ Frame.cursor > Len(preds[U])
      /\ graph \in Seq(ModelRecords) /\ Len(graph) \in Nat /\ EvalGraphOK(preds)
      /\ GraphOK(preds, graph)
  BY PredecessorsBelow DEF BuilderInv, CreateIModel, IsActive, Frame, TypeOK, ModelsOK
<1>2. /\ Return(m) /\ mbp' = WithIModel(U, m) /\ preds' = preds /\ graph' = FreeOldIModel(g)
      /\ asked' = asked /\ answers' = answers /\ exhausted' = exhausted
  BY DEF CreateIModel
<1>3. /\ U \in Units /\ Len(preds[U]) \in Nat /\ Len(preds[U]) >= 1
      /\ deps \in Seq(Nat) /\ Len(deps) = Len(preds[U])
      /\ \A i \in 1..Len(preds[U]) :
           /\ preds[U][i] \in Units /\ OModel(preds[U][i]) # NoModel
           /\ deps[i] = OModel(preds[U][i]) /\ deps[i] \in 1..Len(graph)
           /\ graph[deps[i]].type = "out" /\ graph[deps[i]].location = preds[U][i]
      /\ Frame.cursor = Len(preds[U]) + 1
  BY <1>1, JoinedModels
<1>4. \A s : s \in existing <=> /\ s \in DOMAIN graph /\ graph[s].type = "in"
                                /\ graph[s].location = U /\ graph[s].deps = deps
  BY <1>1, ReusedIModel
<1>5. reuse => m \in existing /\ m \in DOMAIN graph
  <2>1. existing \in SUBSET (Nat \ {0})
    BY <1>1, <1>4, GraphType
  <2> QED
    BY <1>4, <2>1, OldestIsLeast
<1> HIDE DEF deps, existing
<1>6. /\ r.location = U /\ r.type = "in" /\ r.deps = deps /\ r.interpretation = Join(graph, deps)
  BY DEF Model
<1>7. r \in ModelRecords /\ \A q : Added(graph, r, q) => GraphOK(preds, q)
  <2>1. isNull \in BOOLEAN
    OBVIOUS
  <2>2. r = Model(U, "in", deps, Join(graph, deps), isNull)
    OBVIOUS
  <2>3. /\ EvalGraphOK(preds) /\ graph \in Seq(ModelRecords) /\ GraphOK(preds, graph)
        /\ U \in Units /\ deps \in Seq(Nat) /\ Len(deps) = Len(preds[U])
    BY <1>1, <1>3
  <2>4. \A i \in 1..Len(deps) : /\ deps[i] \in 1..Len(graph) /\ graph[deps[i]].type = "out"
                                /\ graph[deps[i]].location = preds[U][i]
    BY <1>3
  <2> HIDE DEF isNull, r
  <2> QED
    BY <2>1, <2>2, <2>3, <2>4, NewIModel
<1> HIDE DEF isNull, r
<1>8. /\ ModelsOK' /\ JoinsConsistent' /\ Kept(graph, graph')
      /\ \A n \in 1..Len(graph) : graph'[n].childModelsGenerated = graph[n].childModelsGenerated
      /\ \A n \in (Len(graph) + 1)..Len(graph') : graph'[n].type = "in"
      /\ m # NoModel => /\ m \in DOMAIN graph' /\ graph'[m].type = "in" /\ graph'[m].location = U
                        /\ graph'[m].deps = deps
  <2>1. CASE reuse
    <3>1. graph' = FreeOldIModel(graph)
      BY <1>2, <2>1
    <3>2. Similar(graph, graph') /\ (~ConstantSpace => graph' = graph)
      BY <1>1, <3>1, FreeOldIModelSimilar
    <3>3. ModelsOK' /\ JoinsConsistent'
      BY <1>2, <3>2, SimilarModelsOK
    <3>4. /\ Kept(graph, graph') /\ Len(graph') = Len(graph)
          /\ \A n \in 1..Len(graph) : graph'[n].childModelsGenerated = graph[n].childModelsGenerated
          /\ \A n \in DOMAIN graph : /\ n \in DOMAIN graph' /\ graph'[n].type = graph[n].type
                                     /\ graph'[n].location = graph[n].location
                                     /\ graph'[n].deps = graph[n].deps
      BY <1>1, <3>2 DEF Similar, Kept
    <3>5. m \in DOMAIN graph /\ graph[m].type = "in" /\ graph[m].location = U /\ graph[m].deps = deps
      BY <1>4, <1>5, <2>1
    <3> HIDE DEF m, g, reuse
    <3> QED
      BY <1>1, <3>3, <3>4, <3>5
  <2>2. CASE ~reuse
    <3>1. m = Len(graph) + 1 /\ graph' = FreeOldIModel(Append(graph, r))
      BY <1>2, <2>2
    <3>2. RedundancyElimination => existing = {}
      BY <2>2
    <3> HIDE DEF m, g, reuse
    <3>3. /\ Added(graph, r, Append(graph, r)) /\ Append(graph, r) \in Seq(ModelRecords)
      BY <1>1, <1>7, AppendAdded, AppendProperties
    <3>4. Similar(Append(graph, r), graph') /\ (~ConstantSpace => graph' = Append(graph, r))
      BY <3>1, <3>3, FreeOldIModelSimilar
    <3>5. Added(graph, r, graph')
      BY <1>1, <3>3, <3>4, AddedThenSimilar
    <3>6. GraphOK(preds, graph')
      BY <1>7, <3>5
    <3>7. RedundancyElimination =>
            \A n \in 1..Len(graph) : ~(/\ graph[n].type = "in" /\ graph[n].location = r.location
                                       /\ graph[n].deps = r.deps)
      BY <1>1, <1>4, <1>6, <3>2
    <3>8. Consistent(graph', r.interpretation)
      <4>1. ASSUME NEW a \in r.interpretation
            PROVE  a \in DOMAIN graph /\ OModel(graph[a].location) = a
        <5>1. PICK i \in 1..Len(preds[U]) : a \in graph[deps[i]].interpretation
          BY <1>3, <1>6, SMTT(20) DEF Join, Range
        <5> QED
          BY <1>3, <5>1, CurrentAtomsKnown
      <4>2. \A a \in DOMAIN graph : graph'[a].location = graph[a].location
        BY <1>1, <3>5 DEF Added, Kept
      <4> QED
        BY <4>1, <4>2 DEF Consistent
    <3>9. ~(r.type = "out")
      BY <1>6
    <3>10. ModelsOK' /\ JoinsConsistent'
      BY <1>2, <1>7, <3>4, <3>5, <3>6, <3>7, <3>8, <3>9, AddedModelsOK
    <3>11. /\ Kept(graph, graph') /\ Len(graph') = Len(graph) + 1 /\ DOMAIN graph' = 1..Len(graph')
           /\ graph'[Len(graph')].type = "in" /\ graph'[Len(graph')].location = U
           /\ graph'[Len(graph')].deps = deps
           /\ \A n \in 1..Len(graph) : graph'[n].childModelsGenerated = graph[n].childModelsGenerated
      BY <1>6, <3>5 DEF Added, Kept
    <3> QED
      BY <1>1, <3>1, <3>10, <3>11
  <2> QED
    BY <2>1, <2>2
<1>9. m \in Nat /\ m # NoModel
  <2>1. CASE reuse
    BY <1>1, <1>5, <2>1, GraphType DEF NoModel
  <2>2. CASE ~reuse
    BY <1>1, <2>2 DEF NoModel
  <2> QED
    BY <2>1, <2>2
<1> HIDE DEF m, g, reuse
<1>10. /\ Frame = stack[1] /\ (Len(stack) = 1 \/ Len(stack) = 3) /\ (Len(stack) = 1 => U = ufinal)
  BY <1>1, IModelActive
<1>11. ~Leaving
  <2>1. stack[1].pc = "fill"
    BY <1>1, <1>10
  <2>2. Len(stack) # 0 /\ Len(stack) # 2 /\ Len(stack) # 4
    <3>1. Len(stack) = 1 \/ Len(stack) = 3
      BY <1>10
    <3> QED
      BY <3>1, SMTT(20)
  <2> QED
    BY <2>1, <2>2 DEF Leaving
<1>12. Len(stack) = 1 => Level = NumUnits - 1
  <2>1. Len(preds[ufinal]) = NumUnits - 1 /\ NumUnits \in Nat
    BY <1>1, NumUnitsAssumption DEF EvalGraphOK
  <2> QED
    BY <1>1, <1>3, <1>10, <2>1 DEF Level
<1>13. Len(stack) = 3 => NestedHeld = Len(preds[U])
  BY <1>1, <1>3, <1>10 DEF NestedHeld
<1>14. /\ Len(stack) = 1 => Level = IF m # NoModel THEN NumUnits - 1 ELSE 0
       /\ Len(stack) = 3 => NestedHeld = IF m # NoModel THEN Len(preds[U]) ELSE 0
       /\ Leaving <=> m = NoModel
  BY <1>9, <1>11, <1>12, <1>13
<1>15. m # NoModel => /\ m \in DOMAIN graph' /\ graph'[m].type = "in" /\ graph'[m].location = U
                      /\ graph'[m].deps = CurrentOModels(U)
  BY <1>8 DEF deps
<1> QED
  BY <1>1, <1>2, <1>8, <1>9, <1>14, <1>15, IModelStep

-------------------------------------------------------------------------------
(***************************************************************************)
(* Steps that return an output model, or find that there is none.          *)
(***************************************************************************)

\* The loop body of getNextOModel only runs for the unit that the final unit
\* advances, which nobody else uses.
LEMMA AdvancingActive ==
  ASSUME BuilderInv, IsAdvancing
  PROVE  /\ stack # <<>> /\ stack \in Seq(Frames) /\ Len(stack) = 2 /\ Frame = stack[1]
         /\ U \in Units /\ U \in Nat /\ U >= 1 /\ U < ufinal /\ U = Frame.unit
         /\ preds \in [Units -> Seq(Units)] /\ EvalGraphOK(preds)
         /\ FinalCall(stack[2]) /\ stack[2].pc = "result" /\ OModelCall(Frame, stack[2])
         /\ U = Advanced /\ Advanced = stack[2].cursor
         /\ IModel(U) \in DOMAIN graph /\ IModel(U) # NoModel
         /\ graph[IModel(U)].type = "in" /\ graph[IModel(U)].location = U
         /\ graph[IModel(U)].deps = CurrentOModels(U)
         /\ Level = IF OModel(U) # NoModel THEN U ELSE U - 1
         /\ Leaving <=> OModel(U) # NoModel
         /\ mbp[U].orefcount = IF OModel(U) # NoModel THEN 1 ELSE 0
         /\ \A u \in Units : /\ u \in Joining <=> u = ufinal
                             /\ u \in Running => u = U
                             /\ u < U => OModel(u) # NoModel
                             /\ u > U => Idle(u)
                             /\ u > U /\ u # ufinal => IModel(u) = NoModel
<1>1. /\ stack # <<>> /\ Frame.fn = "getNextOModel" /\ IModel(U) # NoModel
      /\ TypeOK /\ UnitsOK /\ InputsCurrent
      /\ Frame.pc = "loop" \/ (Frame.pc = "entry" /\ mbp[U].orefcount <= 1)
  BY DEF BuilderInv, IsAdvancing, IsActive, Frame, IModel
<1>2. Len(stack) = 2
  <2>1. ASSUME Len(stack) = 4 PROVE FALSE
    <3>1. Frame.pc = "entry"
      BY <1>1, <2>1, OModelActive
    <3>2. U \in Units /\ mbp \in [Units -> ModelBuildingProperties]
      BY <1>1, TopFrame DEF TypeOK
    <3>3. mbp[U].orefcount \in Nat
      BY <3>2 DEF ModelBuildingProperties
    <3> QED
      BY <1>1, <2>1, <3>1, <3>3, DeepShared
  <2> QED
    BY <1>1, <2>1, OModelActive
<1>3. /\ stack \in Seq(Frames) /\ Frame = stack[1] /\ U = Frame.unit /\ U \in Units
      /\ Frame.pc \in {"entry", "loop"}
      /\ preds \in [Units -> Seq(Units)] /\ EvalGraphOK(preds)
      /\ FinalCall(stack[2]) /\ stack[2].pc = "result" /\ OModelCall(Frame, stack[2])
      /\ U = Advanced /\ Advanced = stack[2].cursor /\ U < ufinal
      /\ Level = IF Frame.pc = "entry" /\ OModel(U) # NoModel THEN U ELSE U - 1
      /\ \A u \in Units : /\ u \in Joining <=> u = ufinal
                          /\ u \in Running <=> u = U /\ Frame.pc = "loop"
  BY <1>1, <1>2, OModelActive
<1>4. U \in Nat /\ U >= 1 /\ ufinal \in Nat /\ U # ufinal
  BY <1>3, UnitsAreNumbers
<1>5. Frame.pc = "entry" <=> OModel(U) # NoModel
  <2>1. OModel(U) = NoModel \/ Frame.pc = "loop" => Level = U - 1
    BY <1>3
  <2>2. Level = U - 1 => U \in Running /\ OModel(U) = NoModel
    BY <1>1, <1>3, <1>4 DEF UnitsOK, Idle
  <2> QED
    BY <1>3, <2>1, <2>2
<1>6. Level = IF OModel(U) # NoModel THEN U ELSE U - 1
  BY <1>3, <1>5
<1>7. Leaving <=> OModel(U) # NoModel
  BY <1>1, <1>2, <1>3, <1>5 DEF Leaving
<1>8. mbp[U].orefcount = IF OModel(U) # NoModel THEN 1 ELSE 0
  BY <1>1, <1>2, <1>4, <1>6, AdvancedAlone
<1>9. /\ IModel(U) \in DOMAIN graph /\ graph[IModel(U)].type = "in"
      /\ graph[IModel(U)].location = U /\ graph[IModel(U)].deps = CurrentOModels(U)
  BY <1>1, <1>3, <1>4 DEF UnitsOK, UnitOK, InputsCurrent, Fed
<1>10. \A u \in Units : /\ u < U => OModel(u) # NoModel
                        /\ u > U => Idle(u)
                        /\ u > U /\ u # ufinal => IModel(u) = NoModel
  <2>1. \A u \in Units : u \in Nat /\ (u < U => u <= Level) /\ (u > U => u > Level)
    BY <1>4, <1>6, UnitsAreNumbers
  <2> QED
    BY <1>1, <1>3, <1>4, <2>1 DEF UnitsOK
<1> QED
  BY <1>1, <1>2, <1>3, <1>4, <1>6, <1>7, <1>8, <1>9, <1>10

\* What an input model contributed to are the output models that were computed
\* from it.
LEMMA OutputsOfInput ==
  ASSUME NEW pr, NEW g \in Seq(ModelRecords), GraphOK(pr, g),
         NEW m \in DOMAIN g, g[m].type = "in", NEW n
  PROVE  n \in Successors(g, m) <=> n \in DOMAIN g /\ g[n].type = "out" /\ g[n].deps[1] = m
<1> SUFFICES ASSUME n \in DOMAIN g
             PROVE  m \in Range(g[n].deps) <=> g[n].type = "out" /\ g[n].deps[1] = m
  BY DEF Successors
<1>1. g[n].type \in {"in", "out"} /\ DOMAIN g[n].deps = 1..Len(g[n].deps)
  BY GraphType
<1>2. CASE g[n].type = "in"
  <2>1. \A i \in 1..Len(g[n].deps) : g[g[n].deps[i]].type = "out"
    BY <1>2 DEF GraphOK, InModelOK
  <2> QED
    BY <1>1, <1>2, <2>1 DEF Range
<1>3. CASE g[n].type = "out"
  <2>1. Len(g[n].deps) = 1
    BY <1>3 DEF GraphOK, OutModelOK
  <2> QED
    BY <1>1, <1>3, <2>1 DEF Range
<1> QED
  BY <1>1, <1>2, <1>3

\* The next output model is the oldest one after the current one.
LEMMA NextIsOldest ==
  ASSUME BuilderInv, IsAdvancing
  PROVE  /\ NextOModel \in Nat
         /\ NextOModel # NoModel =>
              /\ NextOModel \in DOMAIN graph /\ NextOModel > OModel(U)
              /\ graph[NextOModel].type = "out" /\ graph[NextOModel].deps[1] = IModel(U)
              /\ graph[NextOModel].location = U
         /\ \A n \in DOMAIN graph :
              n > OModel(U) /\ graph[n].type = "out" /\ graph[n].deps[1] = IModel(U)
              => NextOModel # NoModel /\ NextOModel <= n
<1> DEFINE S == {n \in Successors(graph, IModel(U)) : n > OModel(U)}
<1>1. /\ graph \in Seq(ModelRecords) /\ GraphOK(preds, graph)
      /\ IModel(U) \in DOMAIN graph /\ graph[IModel(U)].type = "in" /\ graph[IModel(U)].location = U
  BY AdvancingActive DEF BuilderInv, TypeOK, ModelsOK
<1>2. \A n : n \in S <=> /\ n \in DOMAIN graph /\ n > OModel(U)
                         /\ graph[n].type = "out" /\ graph[n].deps[1] = IModel(U)
  BY <1>1, OutputsOfInput
<1>3. NextOModel = Oldest(S)
  BY DEF NextOModel, NextSuccessor, IModel, OModel
<1>4. \A n \in S : n \in Nat \ {0}
  BY <1>1, <1>2, GraphType
<1> HIDE DEF S
<1>5. S # {} => Oldest(S) \in S /\ \A n \in S : Oldest(S) <= n
  BY <1>4, OldestIsLeast
<1>6. S = {} => Oldest(S) = NoModel
  BY NoOldest
<1>7. \A n \in DOMAIN graph : graph[n].type = "out" => graph[n].location = graph[graph[n].deps[1]].location
  BY <1>1 DEF GraphOK, OutModelOK
<1> QED
  BY <1>1, <1>2, <1>3, <1>4, <1>5, <1>6, <1>7 DEF NoModel

\* The step returns m as the next output model of the unit.
GivesOModel(m) ==
  /\ Return(m)
  /\ preds' = preds /\ asked' = asked /\ answers' = answers /\ exhausted' = exhausted
  /\ Kept(graph, graph')
  /\ \A n \in 1..Len(graph) : graph'[n].childModelsGenerated = graph[n].childModelsGenerated
  /\ \A n \in (Len(graph) + 1)..Len(graph') : n = m
  /\ m \in DOMAIN graph' /\ m > OModel(U)
  /\ graph'[m].type = "out" /\ graph'[m].location = U /\ graph'[m].deps[1] = IModel(U)
  /\ m \notin DOMAIN graph => ~graph[IModel(U)].childModelsGenerated
  /\ \A n \in DOMAIN graph :
       n > OModel(U) /\ graph[n].type = "out" /\ graph[n].deps[1] = IModel(U) => m <= n
  /\ mbp' \in [Units -> ModelBuildingProperties]
  /\ \A u \in Units : /\ mbp'[u].imodel = mbp[u].imodel
                      /\ mbp'[u].currentisuccessor = IF u = U THEN m ELSE OModel(u)
                      /\ mbp'[u].orefcount = IF u = U THEN 1 ELSE mbp[u].orefcount
                      /\ u # U => mbp'[u].currentmg = mbp[u].currentmg
  /\ mbp'[U].currentmg => ~graph[IModel(U)].childModelsGenerated

\* The first models of a combination are one.
Prefix(c, n) == [i \in 1..n |-> c[i]]

LEMMA PrefixCombination ==
  ASSUME NEW pr, EvalGraphOK(pr), NEW g, NEW c, Combination(pr, g, c),
         NEW n \in Nat, n <= Len(c), NEW d, d = Prefix(c, n)
  PROVE  /\ Combination(pr, g, d) /\ Len(d) = n
         /\ \A i \in 1..n : d[i] = c[i]
         /\ \A k \in Units : k <= n + 1 => Projection(pr, d, k) = Projection(pr, c, k)
<1>1. c \in Seq(Nat) /\ Len(c) \in Nat /\ Len(c) < NumUnits /\ NumUnits \in Nat
  BY UnitsAreNumbers DEF Combination
<1>2. d \in Seq(Nat) /\ Len(d) = n /\ \A i \in 1..n : d[i] = c[i]
  BY <1>1 DEF Prefix
<1>3. ASSUME NEW k \in Units, k <= n + 1 PROVE Projection(pr, d, k) = Projection(pr, c, k)
  <2>1. \A i \in 1..Len(pr[k]) : pr[k][i] \in Units /\ pr[k][i] < k
    BY DEF EvalGraphOK
  <2>2. \A i \in 1..Len(pr[k]) : pr[k][i] \in 1..n
    BY <1>3, <2>1, UnitsAreNumbers
  <2>3. \A i \in 1..Len(pr[k]) : d[pr[k][i]] = c[pr[k][i]]
    BY <1>2, <2>2
  <2> QED
    BY <2>3 DEF Projection
<1>4. \A i \in 1..n : i \in Units /\ i <= n + 1 /\ i \in 1..Len(c)
  BY <1>1, UnitsAreNumbers
<1>5. Combination(pr, g, d)
  <2>1. ASSUME NEW i \in 1..n
        PROVE  /\ d[i] \in DOMAIN g /\ g[d[i]].type = "out" /\ g[d[i]].location = i
               /\ g[g[d[i]].deps[1]].deps = Projection(pr, d, i)
    <3>1. i \in Units /\ i <= n + 1 /\ i \in 1..Len(c) /\ d[i] = c[i]
      BY <1>2, <1>4
    <3>2. /\ c[i] \in DOMAIN g /\ g[c[i]].type = "out" /\ g[c[i]].location = i
          /\ g[g[c[i]].deps[1]].deps = Projection(pr, c, i)
      BY <3>1 DEF Combination
    <3>3. Projection(pr, d, i) = Projection(pr, c, i)
      BY <1>3, <3>1
    <3> QED
      BY <3>1, <3>2, <3>3
  <2>2. n < NumUnits
    BY <1>1
  <2> QED
    BY <1>2, <2>1, <2>2 DEF Combination
<1> QED
  BY <1>2, <1>3, <1>5

\* The model of the unit in a combination that begins with the current models was
\* computed from the current input model.
LEMMA ChildOfCurrent ==
  ASSUME BuilderInv, IsAdvancing, RedundancyElimination,
         NEW g, Kept(graph, g), InputsUnique(g), GraphOK(preds, g),
         NEW c, Combination(preds, g, c), U <= Len(c),
         \A i \in 1..(U - 1) : c[i] = OModel(i)
  PROVE  g[c[U]].deps[1] = IModel(U) /\ graph[IModel(U)].deps = Projection(preds, c, U)
<1>1. /\ U \in Units /\ U \in Nat /\ U >= 1 /\ EvalGraphOK(preds)
      /\ IModel(U) \in DOMAIN graph /\ graph[IModel(U)].type = "in"
      /\ graph[IModel(U)].location = U /\ graph[IModel(U)].deps = CurrentOModels(U)
      /\ graph \in Seq(ModelRecords)
  BY AdvancingActive DEF BuilderInv, TypeOK
<1>2. Projection(preds, c, U) = CurrentOModels(U)
  <2>1. \A i \in 1..Len(preds[U]) : preds[U][i] \in Units /\ preds[U][i] < U
    BY <1>1 DEF EvalGraphOK
  <2>2. \A i \in 1..Len(preds[U]) : preds[U][i] \in 1..(U - 1)
    BY <1>1, <2>1, UnitsAreNumbers
  <2>3. \A i \in 1..Len(preds[U]) : c[preds[U][i]] = mbp[preds[U][i]].currentisuccessor
    BY <2>2 DEF OModel
  <2> QED
    BY <2>3 DEF Projection, CurrentOModels
<1>3. /\ c[U] \in DOMAIN g /\ g[c[U]].type = "out" /\ g[c[U]].location = U
      /\ g[g[c[U]].deps[1]].deps = Projection(preds, c, U)
  <2>1. c \in Seq(Nat) /\ Len(c) \in Nat
    BY DEF Combination
  <2>2. U \in 1..Len(c)
    BY <1>1, <2>1
  <2> QED
    BY <2>2 DEF Combination
<1>4. /\ g[c[U]].deps[1] \in DOMAIN g /\ g[g[c[U]].deps[1]].type = "in"
      /\ g[g[c[U]].deps[1]].location = U
  <2>1. OutModelOK(g, c[U]) /\ g \in Seq(ModelRecords) /\ c[U] \in 1..Len(g) /\ DOMAIN g = 1..Len(g)
    BY <1>3 DEF GraphOK, Kept
  <2> QED
    BY <1>3, <2>1 DEF OutModelOK
<1>5. /\ IModel(U) \in DOMAIN g /\ g[IModel(U)].type = "in" /\ g[IModel(U)].location = U
      /\ g[IModel(U)].deps = CurrentOModels(U)
  BY <1>1 DEF Kept
<1> QED
  BY <1>1, <1>2, <1>3, <1>4, <1>5 DEF InputsUnique

\* The place in the enumeration after the step.
LEMMA GivenPlace ==
  ASSUME BuilderInv, IsAdvancing, NEW m, GivesOModel(m)
  PROVE  /\ stack' \in Seq(Frames) /\ Len(stack') = 1 /\ stack'[1] = stack[2] /\ ret' = m
         /\ m \in Nat /\ m # NoModel /\ Level' = U /\ ~Leaving'
         /\ Outputs' = [u \in Units |-> IF u = U THEN m ELSE OModel(u)]
         /\ \A u \in Units : /\ u \in Joining' <=> u = ufinal
                             /\ u \notin Running'
<1>1. /\ TypeOK /\ stack # <<>> /\ Len(stack) = 2 /\ stack[2].pc = "result"
      /\ U = Advanced /\ Advanced = stack[2].cursor
  BY AdvancingActive DEF BuilderInv
<1>2. stack' \in Seq(Frames) /\ Len(stack') = 1 /\ stack'[1] = stack[2] /\ ret' = m
  <2>1. Return(m)
    BY DEF GivesOModel
  <2> QED
    BY <1>1, <2>1, ReturnFromCall
<1>3. m \in Nat /\ m # NoModel
  <2>1. m \in DOMAIN graph' /\ graph' \in Seq(ModelRecords)
    BY DEF GivesOModel, Kept
  <2> QED
    BY <2>1, GraphType DEF NoModel
<1>4. Level' = U
  BY <1>1, <1>2, <1>3 DEF Level
<1>5. ~Leaving'
  BY <1>1, <1>2, <1>3 DEF Leaving
<1>6. Outputs' = [u \in Units |-> IF u = U THEN m ELSE OModel(u)]
  BY DEF GivesOModel, Outputs, OModel
<1>7. \A u \in Units : (u \in Joining' <=> u = ufinal) /\ u \notin Running'
  BY <1>2 DEF Joining, Running
<1> QED
  BY <1>2, <1>3, <1>4, <1>5, <1>6, <1>7

\* A combination that is passed after the step was passed before.
LEMMA GivenPassed ==
  ASSUME BuilderInv, IsAdvancing, RedundancyElimination, NEW m, GivesOModel(m), ModelsOK',
         NEW c, Combination(preds, graph', c), Passed(c)'
  PROVE  Combination(preds, graph, c) /\ Passed(c)
<1> DEFINE out == Outputs
           out1 == [u \in Units |-> IF u = U THEN m ELSE OModel(u)]
<1>1. /\ U \in Units /\ U \in Nat /\ U >= 1 /\ U < ufinal /\ EvalGraphOK(preds)
      /\ Level = IF OModel(U) # NoModel THEN U ELSE U - 1
      /\ Leaving <=> OModel(U) # NoModel
      /\ graph \in Seq(ModelRecords) /\ GraphOK(preds, graph)
      /\ IModel(U) \in DOMAIN graph /\ graph[IModel(U)].type = "in"
      /\ graph[IModel(U)].location = U
      /\ RedundancyElimination => InputsUnique(graph)
  BY AdvancingActive DEF BuilderInv, TypeOK, ModelsOK
<1>2. /\ Kept(graph, graph') /\ \A n \in (Len(graph) + 1)..Len(graph') : n = m
      /\ graph'[m].location = U
      /\ m \notin DOMAIN graph => ~graph[IModel(U)].childModelsGenerated
      /\ \A n \in DOMAIN graph :
           n > OModel(U) /\ graph[n].type = "out" /\ graph[n].deps[1] = IModel(U) => m <= n
      /\ m \in DOMAIN graph' /\ graph' \in Seq(ModelRecords) /\ preds' = preds
  BY DEF GivesOModel, Kept
<1>3. InputsUnique(graph') /\ GraphOK(preds, graph')
  BY <1>2 DEF ModelsOK
<1>4. c \in Seq(Nat) /\ Len(c) \in Nat /\ Len(c) < NumUnits /\ m \in Nat
  BY GivenPlace DEF Combination
<1>5. PICK j \in 1..U : /\ j <= Len(c) /\ c[j] < out1[j]
                        /\ \A i \in 1..(j - 1) : c[i] = out1[i]
  <2>1. PassedAt(out1, U, FALSE, c)
    BY GivenPlace DEF Passed, PassedAt
  <2> QED
    BY <2>1 DEF PassedAt
<1>6. \A i \in Units : out[i] = OModel(i) /\ (i # U => out1[i] = OModel(i)) /\ out1[U] = m
  BY <1>1 DEF Outputs
<1>7. \A i \in 1..Len(c) : /\ c[i] \in DOMAIN graph' /\ graph'[c[i]].location = i
                           /\ c[i] \in 1..Len(graph) \/ c[i] = m
                           /\ c[i] = m => i = U
  <2>1. \A i \in 1..Len(c) : c[i] \in DOMAIN graph' /\ graph'[c[i]].location = i
    BY DEF Combination
  <2>2. DOMAIN graph' = 1..Len(graph') /\ Len(graph) \in Nat /\ Len(graph') \in Nat
    BY <1>1, <1>2
  <2>3. \A i \in 1..Len(c) : c[i] \in 1..Len(graph) \/ c[i] \in (Len(graph) + 1)..Len(graph')
    BY <2>1, <2>2
  <2> QED
    BY <1>2, <2>1, <2>3
<1>8. \A i \in 1..U : i \in Units
  BY <1>1, UnitsAreNumbers
<1> HIDE DEF out, out1
<1>9. CASE j < U
  <2>1. j <= Level /\ \A i \in 1..j : out[i] = out1[i]
    BY <1>1, <1>6, <1>8, <1>9
  <2>2. \A i \in 1..Len(c) : c[i] \in 1..Len(graph)
    <3> SUFFICES ASSUME NEW i \in 1..Len(c), c[i] \notin 1..Len(graph) PROVE FALSE
      OBVIOUS
    <3>1. c[i] = m /\ i = U /\ m \notin DOMAIN graph /\ U <= Len(c)
      BY <1>1, <1>7
    <3> DEFINE d == Prefix(c, U - 1)
    <3>2. U - 1 \in Nat /\ U - 1 <= Len(c)
      BY <1>1, <3>1
    <3>3. /\ Combination(preds, graph', d) /\ Len(d) = U - 1
          /\ \A k \in 1..(U - 1) : d[k] = c[k]
          /\ \A k \in Units : k <= U => Projection(preds, d, k) = Projection(preds, c, k)
      <4> DEFINE n == U - 1
      <4>1. n \in Nat /\ n <= Len(c) /\ d = Prefix(c, n) /\ n + 1 = U
        BY <1>1, <3>2
      <4> HIDE DEF n, d
      <4>2. /\ Combination(preds, graph', d) /\ Len(d) = n
            /\ \A k \in 1..n : d[k] = c[k]
            /\ \A k \in Units : k <= n + 1 => Projection(preds, d, k) = Projection(preds, c, k)
        <5>1. EvalGraphOK(preds) /\ n \in Nat /\ n <= Len(c) /\ d = Prefix(c, n)
          BY <1>1, <4>1
        <5> QED
          BY <5>1, PrefixCombination
      <4> QED
        BY <4>1, <4>2 DEF n
    <3> HIDE DEF d
    <3>4. \A k \in 1..Len(d) : d[k] \in 1..Len(graph)
      BY <1>1, <1>7, <3>1, <3>3
    <3>5. Combination(preds, graph, d)
      BY <1>1, <1>2, <3>3, <3>4, KeptCombination
    <3>6. Passed(d)
      <4>1. j \in 1..Level /\ j <= Len(d) /\ d[j] < out[j] /\ \A k \in 1..(j - 1) : d[k] = out[k]
        BY <1>1, <1>5, <1>9, <2>1, <3>3
      <4> QED
        BY <4>1 DEF Passed, PassedAt, out
    <3>7. Offered(preds, graph, answers, d)
      BY <3>5, <3>6 DEF BuilderInv, PassedOffered
    <3>8. PICK p \in DOMAIN graph : /\ graph[p].type = "in" /\ graph[p].location = U
                                    /\ graph[p].deps = Projection(preds, d, U)
                                    /\ graph[p].childModelsGenerated
      <4>1. Len(d) + 1 = U /\ U # ufinal
        BY <1>1, <3>3, UnitsAreNumbers
      <4> QED
        BY <3>7, <4>1 DEF Offered
    <3>9. graph[IModel(U)].deps = Projection(preds, d, U)
      <4>1. graph'[m].deps[1] = IModel(U)
        BY DEF GivesOModel
      <4>2. graph'[graph'[c[U]].deps[1]].deps = Projection(preds, c, U)
        BY <3>1 DEF Combination
      <4>3. graph'[IModel(U)].deps = Projection(preds, c, U)
        BY <3>1, <4>1, <4>2
      <4>4. graph'[IModel(U)].deps = graph[IModel(U)].deps
        BY <1>1, <1>2 DEF Kept
      <4>5. Projection(preds, d, U) = Projection(preds, c, U)
        BY <1>1, <3>3
      <4> QED
        BY <4>3, <4>4, <4>5
    <3>10. p = IModel(U)
      BY <1>1, <3>8, <3>9 DEF InputsUnique
    <3> QED
      BY <1>2, <3>1, <3>8, <3>10
  <2>3. Combination(preds, graph, c)
    BY <1>1, <1>2, <2>2, KeptCombination
  <2>4. j \in 1..Level /\ j <= Len(c) /\ c[j] < out[j] /\ \A k \in 1..(j - 1) : c[k] = out[k]
    BY <1>1, <1>5, <2>1
  <2> QED
    BY <2>3, <2>4 DEF Passed, PassedAt, out
<1>10. CASE j = U
  <2>1. c[U] < m /\ U <= Len(c) /\ U \in 1..Len(c) /\ c[U] \in Nat
        /\ \A i \in 1..(U - 1) : c[i] = OModel(i)
    BY <1>1, <1>4, <1>5, <1>6, <1>8, <1>10
  <2>2. \A i \in 1..Len(c) : c[i] \in 1..Len(graph)
    BY <1>4, <1>7, <2>1
  <2>3. Combination(preds, graph, c)
    BY <1>1, <1>2, <2>2, KeptCombination
  <2>4. graph[c[U]].deps[1] = IModel(U)
    <3>1. Kept(graph, graph)
      BY <1>1, SimilarSelf DEF Similar
    <3> QED
      BY <1>1, <2>1, <2>3, <3>1, ChildOfCurrent
  <2>5. c[U] \in DOMAIN graph /\ graph[c[U]].type = "out" /\ c[U] # NoModel
    BY <2>1, <2>2, <2>3 DEF Combination, NoModel
  <2>6. OModel(U) \in Nat
    BY <1>1 DEF BuilderInv, TypeOK, OModel, ModelBuildingProperties
  <2>7. c[U] <= OModel(U)
    <3>1. c[U] > OModel(U) => m <= c[U]
      BY <1>2, <2>4, <2>5
    <3>2. c[U] < m /\ c[U] \in Nat /\ m \in Nat
      BY <1>4, <2>1
    <3> QED
      BY <2>6, <3>1, <3>2
  <2>8. Level = U /\ Leaving
    BY <1>1, <2>1, <2>5, <2>6, <2>7 DEF NoModel
  <2>9. \A i \in 1..(U - 1) : c[i] = out[i]
    BY <1>6, <1>8, <2>1
  <2>10. CASE c[U] < OModel(U)
    BY <1>1, <1>6, <2>1, <2>3, <2>8, <2>9, <2>10 DEF Passed, PassedAt, out
  <2>11. CASE c[U] = OModel(U)
    <3>1. \A i \in 1..U : c[i] = out[i]
      BY <1>1, <1>6, <2>9, <2>11
    <3> QED
      BY <2>1, <2>3, <2>8, <3>1 DEF Passed, PassedAt, out
  <2> QED
    BY <2>1, <2>6, <2>7, <2>10, <2>11
<1>11. j < U \/ j = U
  BY <1>1, <1>5
<1> QED
  BY <1>9, <1>10, <1>11

\* What was passed before is passed after the step.
LEMMA StillPassed ==
  ASSUME BuilderInv, IsAdvancing, NEW m, GivesOModel(m), NEW c \in Seq(Nat), Passed(c)
  PROVE  Passed(c)'
<1> DEFINE out == Outputs
           out1 == [u \in Units |-> IF u = U THEN m ELSE OModel(u)]
<1>1. /\ U \in Units /\ U \in Nat /\ U >= 1
      /\ Level = IF OModel(U) # NoModel THEN U ELSE U - 1
      /\ Leaving <=> OModel(U) # NoModel
  BY AdvancingActive
<1>2. m \in Nat /\ m > OModel(U) /\ OModel(U) \in Nat
  <2>1. OModel(U) \in Nat
    BY <1>1 DEF BuilderInv, TypeOK, OModel, ModelBuildingProperties
  <2> QED
    BY <2>1, GivenPlace DEF GivesOModel
<1>3. \A i \in 1..U : out[i] = OModel(i) /\ (i # U => out1[i] = OModel(i)) /\ out1[U] = m
  <2>1. \A i \in 1..U : i \in Units
    BY <1>1, UnitsAreNumbers
  <2> QED
    BY <1>1, <2>1 DEF Outputs
<1>4. PassedAt(out1, U, FALSE, c) => Passed(c)'
  <2>1. Outputs' = out1 /\ Level' = U
    BY GivenPlace
  <2> HIDE DEF out1
  <2> QED
    BY <2>1 DEF Passed, PassedAt
<1>5. PassedAt(out, Level, Leaving, c)
  BY DEF Passed
<1> HIDE DEF out, out1
<1>6. CASE \E j \in 1..Level : /\ j <= Len(c) /\ c[j] < out[j]
                               /\ \A i \in 1..(j - 1) : c[i] = out[i]
  <2>1. PICK j \in 1..Level : /\ j <= Len(c) /\ c[j] < out[j]
                              /\ \A i \in 1..(j - 1) : c[i] = out[i]
    BY <1>6
  <2>2. j \in 1..U
    BY <1>1, <2>1
  <2>3. \A i \in 1..(j - 1) : c[i] = out1[i]
    BY <1>1, <1>3, <2>1, <2>2
  <2>4. c[j] < out1[j]
    <3>1. CASE j # U
      BY <1>3, <2>1, <2>2, <3>1
    <3>2. CASE j = U
      <4>1. c[U] \in Nat /\ c[U] < OModel(U)
        BY <1>1, <1>3, <2>1, <2>2, <3>2
      <4> QED
        BY <1>2, <1>3, <2>2, <3>2, <4>1
    <3> QED
      BY <3>1, <3>2
  <2> QED
    BY <1>4, <2>1, <2>2, <2>3, <2>4 DEF PassedAt
<1>7. CASE Leaving /\ Level <= Len(c) /\ \A i \in 1..Level : c[i] = out[i]
  <2>1. Level = U
    BY <1>1, <1>7
  <2>2. U <= Len(c) /\ c[U] < out1[U] /\ \A i \in 1..(U - 1) : c[i] = out1[i]
    BY <1>1, <1>2, <1>3, <1>7, <2>1, SMTT(20)
  <2>3. U \in 1..U
    BY <1>1
  <2> QED
    BY <1>4, <2>2, <2>3 DEF PassedAt
<1> QED
  BY <1>5, <1>6, <1>7 DEF PassedAt

LEMMA GivenWalk ==
  ASSUME BuilderInv, IsAdvancing, NEW m, GivesOModel(m), ModelsOK'
  PROVE  PassedOffered' /\ AnswersOK'
<1>1. /\ graph \in Seq(ModelRecords) /\ answers \in Seq(Nat) /\ preds' = preds /\ answers' = answers
      /\ Kept(graph, graph') /\ Len(graph) \in Nat
  BY DEF BuilderInv, TypeOK, GivesOModel
<1>2. PassedOffered'
  <2> SUFFICES ASSUME RedundancyElimination, NEW c, Combination(preds, graph', c), Passed(c)'
               PROVE  Offered(preds, graph', answers, c)
    BY <1>1 DEF PassedOffered
  <2>1. Combination(preds, graph, c) /\ Passed(c)
    BY GivenPassed
  <2>2. Offered(preds, graph, answers, c)
    BY <2>1 DEF BuilderInv, PassedOffered
  <2> QED
    BY <1>1, <2>2, KeptOffered
<1>3. AnswersOK'
  <2> SUFFICES ASSUME NEW i \in 1..Len(answers)
               PROVE  /\ answers[i] \in DOMAIN graph' /\ graph'[answers[i]].type = "in"
                      /\ graph'[answers[i]].location = ufinal
                      /\ PassedAt(Outputs', Level', Leaving', graph'[answers[i]].deps)
    BY <1>1 DEF AnswersOK, Passed
  <2>1. /\ answers[i] \in DOMAIN graph /\ graph[answers[i]].type = "in"
        /\ graph[answers[i]].location = ufinal /\ Passed(graph[answers[i]].deps)
    BY DEF BuilderInv, AnswersOK
  <2>2. PICK c \in Seq(Nat) : c = graph[answers[i]].deps
    BY <1>1, <2>1, GraphType
  <2>3. PassedAt(Outputs', Level', Leaving', c)
    <3>1. Passed(c)'
      BY <2>1, <2>2, StillPassed
    <3> QED
      BY <3>1 DEF Passed
  <2>4. /\ answers[i] \in DOMAIN graph' /\ graph'[answers[i]].type = "in"
        /\ graph'[answers[i]].location = ufinal /\ graph'[answers[i]].deps = graph[answers[i]].deps
    <3>1. answers[i] \in 1..Len(graph) /\ DOMAIN graph' = 1..Len(graph')
          /\ Len(graph) <= Len(graph') /\ Len(graph') \in Nat
      BY <1>1, <2>1 DEF Kept
    <3>2. /\ graph'[answers[i]].type = graph[answers[i]].type
          /\ graph'[answers[i]].location = graph[answers[i]].location
          /\ graph'[answers[i]].deps = graph[answers[i]].deps
      BY <1>1, <3>1 DEF Kept
    <3> QED
      BY <1>1, <2>1, <3>1, <3>2
  <2> QED
    BY <2>2, <2>3, <2>4
<1> QED
  BY <1>2, <1>3

\* The atoms of the model that the step returns are current.
LEMMA GivenAtoms ==
  ASSUME BuilderInv, IsAdvancing, NEW m, GivesOModel(m), GraphOK(preds, graph')
  PROVE  /\ CurrentAtoms'
         /\ \A a \in graph'[m].interpretation : mbp'[graph'[a].location].currentisuccessor = a
<1>1. /\ U \in Units /\ U \in Nat /\ EvalGraphOK(preds)
      /\ IModel(U) \in DOMAIN graph /\ graph[IModel(U)].type = "in"
      /\ graph[IModel(U)].location = U /\ graph[IModel(U)].deps = CurrentOModels(U)
      /\ \A u \in Units : /\ u < U => OModel(u) # NoModel
                          /\ u > U => Idle(u)
      /\ graph \in Seq(ModelRecords) /\ GraphOK(preds, graph)
  BY AdvancingActive DEF BuilderInv, TypeOK, ModelsOK
<1>2. /\ Kept(graph, graph') /\ graph' \in Seq(ModelRecords)
      /\ m \in DOMAIN graph' /\ graph'[m].type = "out" /\ graph'[m].location = U
      /\ graph'[m].deps[1] = IModel(U)
      /\ \A u \in Units : mbp'[u].currentisuccessor = IF u = U THEN m ELSE OModel(u)
  BY DEF GivesOModel, Kept
<1>3. \A n \in DOMAIN graph : /\ n \in DOMAIN graph' /\ graph'[n].location = graph[n].location
                              /\ graph'[n].deps = graph[n].deps
                              /\ graph'[n].interpretation = graph[n].interpretation
  <2>1. DOMAIN graph = 1..Len(graph) /\ DOMAIN graph' = 1..Len(graph') /\ Len(graph) \in Nat
        /\ Len(graph') \in Nat
    BY <1>1, <1>2
  <2> QED
    BY <1>2, <2>1 DEF Kept
<1>4. ASSUME NEW u \in Units, u < U, NEW a \in graph[OModel(u)].interpretation
      PROVE  /\ a \in DOMAIN graph /\ graph'[a].location = graph[a].location
             /\ mbp'[graph'[a].location].currentisuccessor = a
  <2>1. OModel(u) # NoModel
    BY <1>1, <1>4
  <2>2. /\ a \in DOMAIN graph /\ graph[a].location \in Units /\ graph[a].location <= u
        /\ OModel(graph[a].location) = a
    BY <1>4, <2>1, CurrentAtomsKnown
  <2>3. graph[a].location # U
    BY <1>1, <1>4, <2>2, UnitsAreNumbers
  <2> QED
    BY <1>2, <1>3, <2>2, <2>3
<1>5. ASSUME NEW a \in graph'[m].interpretation
      PROVE  mbp'[graph'[a].location].currentisuccessor = a
  <2>1. graph'[m].interpretation = graph[IModel(U)].interpretation \cup {m}
    <3>1. OutModelOK(graph', m)
      BY <1>2 DEF GraphOK
    <3> QED
      BY <1>1, <1>2, <1>3, <3>1 DEF OutModelOK
  <2>2. CASE a = m
    BY <1>1, <1>2, <2>2
  <2>3. CASE a \in graph[IModel(U)].interpretation
    <3>1. graph[IModel(U)].interpretation = Join(graph, CurrentOModels(U))
      BY <1>1 DEF GraphOK, InModelOK
    <3>2. PICK i \in 1..Len(preds[U]) : a \in graph[OModel(preds[U][i])].interpretation
      <4>1. PICK k \in Range(CurrentOModels(U)) : a \in graph[k].interpretation
        BY <2>3, <3>1 DEF Join
      <4>2. PICK i \in 1..Len(preds[U]) : k = OModel(preds[U][i])
        BY <4>1 DEF Range, CurrentOModels, OModel
      <4> QED
        BY <4>1, <4>2
    <3>3. preds[U][i] \in Units /\ preds[U][i] < U
      BY <1>1 DEF EvalGraphOK
    <3> QED
      BY <1>4, <3>2, <3>3
  <2> QED
    BY <2>1, <2>2, <2>3
<1>6. CurrentAtoms'
  <2> SUFFICES ASSUME NEW u \in Units, mbp'[u].currentisuccessor # NoModel,
                      NEW a \in graph'[mbp'[u].currentisuccessor].interpretation
               PROVE  mbp'[graph'[a].location].currentisuccessor = a
    BY DEF CurrentAtoms, OModel
  <2>1. CASE u = U
    BY <1>2, <1>5, <2>1
  <2>2. CASE u < U
    <3>1. mbp'[u].currentisuccessor = OModel(u) /\ OModel(u) \in DOMAIN graph
      BY <1>1, <1>2, <2>2 DEF BuilderInv, UnitsOK, UnitOK
    <3>2. a \in graph[OModel(u)].interpretation
      BY <1>3, <3>1
    <3> QED
      BY <1>4, <2>2, <3>2
  <2>3. CASE u > U
    BY <1>1, <1>2, <2>3 DEF Idle, OModel
  <2> QED
    BY <1>1, <2>1, <2>2, <2>3, UnitsAreNumbers
<1> QED
  BY <1>5, <1>6

\* The atoms of the model that the step returns are consistent.
LEMMA GivenConsistent ==
  ASSUME BuilderInv, IsAdvancing, NEW m, GivesOModel(m), GraphOK(preds, graph')
  PROVE  Consistent(graph', graph'[m].interpretation)
  BY GivenAtoms DEF Consistent

\* The units after the step.
LEMMA GivenUnits ==
  ASSUME BuilderInv, IsAdvancing, NEW m, GivesOModel(m)
  PROVE  UnitsOK' /\ InputsCurrent' /\ RefsOK'
<1>1. /\ U \in Units /\ U \in Nat /\ U >= 1 /\ U < ufinal /\ EvalGraphOK(preds)
      /\ IModel(U) # NoModel /\ graph \in Seq(ModelRecords)
      /\ mbp \in [Units -> ModelBuildingProperties]
      /\ UnitsOK /\ RefsOK /\ InputsCurrent
      /\ Level = IF OModel(U) # NoModel THEN U ELSE U - 1
      /\ mbp[U].orefcount = IF OModel(U) # NoModel THEN 1 ELSE 0
      /\ \A u \in Units : /\ u \in Joining <=> u = ufinal
                          /\ u < U => OModel(u) # NoModel
                          /\ u > U => Idle(u)
                          /\ u > U /\ u # ufinal => IModel(u) = NoModel
  BY AdvancingActive DEF BuilderInv, TypeOK
<1>2. /\ m \in Nat /\ m # NoModel /\ Level' = U
      /\ \A u \in Units : (u \in Joining' <=> u = ufinal) /\ u \notin Running'
  BY GivenPlace
<1>3. /\ preds' = preds /\ Kept(graph, graph')
      /\ \A n \in 1..Len(graph) : graph'[n].childModelsGenerated = graph[n].childModelsGenerated
      /\ m \in DOMAIN graph' /\ graph'[m].type = "out" /\ graph'[m].location = U
      /\ graph'[m].deps[1] = IModel(U)
      /\ \A u \in Units : /\ mbp'[u].imodel = mbp[u].imodel
                          /\ mbp'[u].currentisuccessor = IF u = U THEN m ELSE OModel(u)
                          /\ mbp'[u].orefcount = IF u = U THEN 1 ELSE mbp[u].orefcount
                          /\ u # U => mbp'[u].currentmg = mbp[u].currentmg
      /\ mbp'[U].currentmg => ~graph[IModel(U)].childModelsGenerated
  BY DEF GivesOModel
<1>4. \A n \in DOMAIN graph : /\ n \in DOMAIN graph'
                              /\ graph'[n].location = graph[n].location
                              /\ graph'[n].type = graph[n].type
                              /\ graph'[n].deps = graph[n].deps
                              /\ graph'[n].childModelsGenerated = graph[n].childModelsGenerated
  <2>1. DOMAIN graph = 1..Len(graph) /\ Len(graph) \in Nat /\ DOMAIN graph' = 1..Len(graph')
        /\ Len(graph') \in Nat
    BY <1>1, <1>3 DEF Kept
  <2> QED
    BY <1>3, <2>1 DEF Kept
<1>5. \A u \in Units : /\ IModel(u)' = IModel(u)
                       /\ OModel(u)' = IF u = U THEN m ELSE OModel(u)
  BY <1>3 DEF IModel, OModel
<1>6. UnitsOK'
  <2>1. ASSUME NEW u \in Units PROVE UnitOK(u)'
    <3>1. UnitOK(u)
      BY <1>1 DEF UnitsOK
    <3>2. CASE u = U
      <4>1. IModel(U) \in DOMAIN graph /\ graph[IModel(U)].type = "in" /\ graph[IModel(U)].location = U
        BY <1>1, <3>1, <3>2 DEF UnitOK
      <4>2. /\ IModel(U) \in DOMAIN graph' /\ graph'[IModel(U)].type = "in"
            /\ graph'[IModel(U)].location = U
            /\ graph'[IModel(U)].childModelsGenerated = graph[IModel(U)].childModelsGenerated
        BY <1>4, <4>1
      <4> QED
        BY <1>1, <1>3, <1>5, <3>2, <4>2 DEF UnitOK
    <3>3. CASE u # U
      BY <1>3, <1>4, <1>5, <3>1, <3>3 DEF UnitOK
    <3> QED
      BY <3>2, <3>3
  <2>2. \A u \in Units : u <= U => OModel(u)' # NoModel
    BY <1>1, <1>2, <1>5, UnitsAreNumbers
  <2>3. ASSUME NEW u \in Units, u > U PROVE Idle(u)'
    <3>1. u # U /\ Idle(u)
      BY <1>1, <2>3, UnitsAreNumbers
    <3>2. OModel(u)' = OModel(u)
      BY <1>5, <3>1
    <3> QED
      BY <1>3, <3>1, <3>2 DEF Idle
  <2>4. \A u \in Units : u > U /\ u # ufinal => IModel(u)' = NoModel
    BY <1>1, <1>5
  <2> QED
    BY <1>2, <2>1, <2>2, <2>3, <2>4 DEF UnitsOK
<1>7. InputsCurrent'
  <2> SUFFICES ASSUME NEW u \in Units, u # ufinal, IModel(u) # NoModel
               PROVE  graph'[mbp'[u].imodel].deps = CurrentOModels(u)'
    BY <1>2, <1>5 DEF InputsCurrent, Fed, IModel
  <2>1. u <= U
    BY <1>1, UnitsAreNumbers
  <2>2. CurrentOModels(u)' = CurrentOModels(u)
    <3>1. \A i \in 1..Len(preds[u]) : preds[u][i] \in Units /\ preds[u][i] < u
      BY <1>1 DEF EvalGraphOK
    <3>2. \A i \in 1..Len(preds[u]) : preds[u][i] \in Units /\ preds[u][i] # U
      BY <1>1, <2>1, <3>1, UnitsAreNumbers
    <3> QED
      BY <1>3, <3>2 DEF CurrentOModels, OModel
  <2>3. graph[IModel(u)].deps = CurrentOModels(u) /\ IModel(u) \in DOMAIN graph
    BY <1>1 DEF InputsCurrent, Fed, UnitsOK, UnitOK
  <2> QED
    BY <1>3, <1>4, <2>2, <2>3 DEF IModel
<1>8. RefsOK'
  <2> DEFINE held == HeldBy
             more == HeldBy'
  <2>1. held \in [Units -> Nat] /\ held = [v \in Units |-> Held(v)]
        /\ more = [v \in Units |-> Held(v)']
    BY HeldType DEF HeldBy
  <2>2. \A w \in Units : w # ufinal => more[w] = held[w]
    BY <1>1, <1>2, <1>3, <1>5, <2>1 DEF Held
  <2>3. held[ufinal] = Level /\ more[ufinal] = U
    BY <1>2, <2>1, UnitsAreNumbers DEF Held
  <2>4. more \in [Units -> Nat]
    BY <1>1, <2>1, <2>2, <2>3
  <2>5. ufinal \in Units /\ U <= Len(preds[ufinal]) /\ preds[ufinal][U] = U
    <3>1. Len(preds[ufinal]) = NumUnits - 1 /\ \A i \in 1..(NumUnits - 1) : preds[ufinal][i] = i
      BY <1>1 DEF EvalGraphOK
    <3>2. U \in 1..(NumUnits - 1)
      BY <1>1, UnitsAreNumbers
    <3> QED
      BY <3>1, <3>2, UnitsAreNumbers
  <2>6. \A u \in Units : mbp[u].orefcount = Cardinality(HoldersIn(preds, held, u))
    BY <1>1 DEF RefsOK
  <2> HIDE DEF held, more
  <2>7. \A u \in Units : mbp'[u].orefcount = Cardinality(HoldersIn(preds, more, u))
    <3>1. CASE OModel(U) # NoModel
      <4>1. Level = U /\ mbp[U].orefcount = 1
        BY <1>1, <3>1
      <4>2. more = held
        BY <2>1, <2>2, <2>3, <2>4, <4>1
      <4> QED
        BY <1>3, <2>6, <4>1, <4>2
    <3>2. CASE OModel(U) = NoModel
      <4>1. more[ufinal] = held[ufinal] + 1 /\ more[ufinal] <= Len(preds[ufinal])
            /\ preds[ufinal][more[ufinal]] = U /\ mbp[U].orefcount = 0
        BY <1>1, <2>3, <2>5, <3>2
      <4>2. ASSUME NEW u
            PROVE  Cardinality(HoldersIn(preds, more, u))
                     = IF preds[ufinal][more[ufinal]] = u
                       THEN Cardinality(HoldersIn(preds, held, u)) + 1
                       ELSE Cardinality(HoldersIn(preds, held, u))
        <5>1. more[ufinal] = held[ufinal] + 1 /\ more[ufinal] <= Len(preds[ufinal])
          BY <4>1
        <5>2. ufinal \in Units /\ EvalGraphOK(preds) /\ held \in [Units -> Nat]
          BY <1>1, <2>1, <2>5
        <5> QED
          BY <2>2, <2>4, <5>1, <5>2, HoldMore
      <4> QED
        BY <1>1, <1>3, <2>6, <4>1, <4>2
    <3> QED
      BY <3>1, <3>2
  <2> QED
    BY <1>3, <2>7 DEF RefsOK, more
<1> QED
  BY <1>6, <1>7, <1>8

\* A step of getNextOModel that returns a model.
LEMMA OModelStep ==
  ASSUME BuilderInv, IsAdvancing, NEW m, GivesOModel(m),
         ModelsOK', JoinsConsistent', GeneratorsStartOnce'
  PROVE  BuilderInv'
<1>1. /\ TypeOK /\ CallerOK /\ stack # <<>> /\ FinalCall(stack[2]) /\ stack[2].pc = "result"
  BY AdvancingActive DEF BuilderInv
<1>2. /\ stack' \in Seq(Frames) /\ Len(stack') = 1 /\ stack'[1] = stack[2] /\ ret' = m /\ m \in Nat
  BY GivenPlace
<1>3. /\ preds' = preds /\ asked' = asked /\ answers' = answers /\ exhausted' = exhausted
      /\ mbp' \in [Units -> ModelBuildingProperties] /\ graph' \in Seq(ModelRecords)
  BY DEF GivesOModel, Kept
<1>4. TypeOK'
  BY <1>1, <1>2, <1>3 DEF TypeOK
<1>5. StackOK'
  <2>1. FinalCall(stack[1])'
    BY <1>1, <1>2, <1>3 DEF FinalCall, IModelCall
  <2> QED
    BY <1>2, <2>1 DEF StackOK
<1>6. CallerOK'
  <2>1. Len(stack') = 1
    BY <1>2
  <2>2. stack' # <<>>
    BY <2>1
  <2> QED
    BY <1>1, <1>3, <2>2 DEF CallerOK
<1>7. GraphOK(preds, graph')
  BY <1>3 DEF ModelsOK
<1>8. CurrentAtoms'
  BY <1>7, GivenAtoms
<1>9. UnitsOK' /\ InputsCurrent' /\ RefsOK'
  BY GivenUnits
<1>10. PassedOffered' /\ AnswersOK'
  BY GivenWalk
<1> QED
  BY <1>4, <1>5, <1>6, <1>8, <1>9, <1>10 DEF BuilderInv

\* What is freed is the output model before, and only with constant space.
LEMMA FreeOldOModelSimilar ==
  ASSUME NEW g \in Seq(ModelRecords)
  PROVE  Similar(g, FreeOldOModel(g)) /\ (~ConstantSpace => FreeOldOModel(g) = g)
<1>1. CASE ConstantSpace /\ HasOModel(U)
  BY <1>1, FreedSimilar DEF FreeOldOModel
<1>2. CASE ~(ConstantSpace /\ HasOModel(U))
  BY <1>2, SimilarSelf DEF FreeOldOModel
<1> QED
  BY <1>1, <1>2

\* the properties of a unit after a step of getNextOModel
AfterOModel(u, m, n, b) ==
  [mbp EXCEPT ![u] = [mbp[u] EXCEPT !.currentisuccessor = m, !.orefcount = n, !.currentmg = b]]

LEMMA SetOModel ==
  ASSUME mbp \in [Units -> ModelBuildingProperties], NEW u \in Units, NEW m \in Nat, NEW n \in Nat,
         NEW b \in BOOLEAN, NEW q, q = AfterOModel(u, m, n, b)
  PROVE  /\ q \in [Units -> ModelBuildingProperties]
         /\ \A v \in Units : /\ q[v].imodel = mbp[v].imodel
                             /\ q[v].currentisuccessor = IF v = u THEN m ELSE mbp[v].currentisuccessor
                             /\ q[v].orefcount = IF v = u THEN n ELSE mbp[v].orefcount
                             /\ q[v].currentmg = IF v = u THEN b ELSE mbp[v].currentmg
<1> DEFINE r == [mbp[u] EXCEPT !.currentisuccessor = m, !.orefcount = n, !.currentmg = b]
<1>1. mbp[u] \in ModelBuildingProperties /\ q = [mbp EXCEPT ![u] = r]
  BY DEF AfterOModel
<1>2. /\ r \in ModelBuildingProperties /\ r.imodel = mbp[u].imodel
      /\ r.currentisuccessor = m /\ r.orefcount = n /\ r.currentmg = b
  BY <1>1 DEF ModelBuildingProperties
<1> HIDE DEF r
<1>3. \A v \in Units : q[v] = IF v = u THEN r ELSE mbp[v]
  BY <1>1
<1>4. q \in [Units -> ModelBuildingProperties]
  BY <1>1, <1>2
<1> QED
  BY <1>2, <1>3, <1>4

LEMMA AdvanceOnGraphInvariant == ASSUME BuilderInv, AdvanceOnGraph PROVE BuilderInv'
<1> DEFINE m == NextOModel
<1>1. /\ IsAdvancing /\ m # NoModel /\ graph' = FreeOldOModel(graph) /\ Return(m)
      /\ preds' = preds /\ asked' = asked /\ answers' = answers /\ exhausted' = exhausted
  BY DEF AdvanceOnGraph
<1>2. /\ U \in Units /\ graph \in Seq(ModelRecords) /\ Len(graph) \in Nat
      /\ mbp \in [Units -> ModelBuildingProperties] /\ GeneratorsStartOnce /\ UnitsOK
      /\ mbp[U].orefcount = IF OModel(U) # NoModel THEN 1 ELSE 0
  BY <1>1, AdvancingActive DEF BuilderInv, TypeOK
<1>3. /\ m \in Nat /\ m \in DOMAIN graph /\ m > OModel(U)
      /\ graph[m].type = "out" /\ graph[m].deps[1] = IModel(U) /\ graph[m].location = U
      /\ \A n \in DOMAIN graph :
           n > OModel(U) /\ graph[n].type = "out" /\ graph[n].deps[1] = IModel(U) => m <= n
  BY <1>1, NextIsOldest
<1>4. Similar(graph, graph') /\ (~ConstantSpace => graph' = graph)
  BY <1>1, <1>2, FreeOldOModelSimilar
<1>5. ModelsOK' /\ JoinsConsistent'
  BY <1>1, <1>4, SimilarModelsOK
<1>6. /\ mbp' \in [Units -> ModelBuildingProperties]
      /\ \A v \in Units : /\ mbp'[v].imodel = mbp[v].imodel
                          /\ mbp'[v].currentisuccessor = IF v = U THEN m ELSE mbp[v].currentisuccessor
                          /\ mbp'[v].orefcount = IF v = U THEN 1 ELSE mbp[v].orefcount
                          /\ mbp'[v].currentmg = mbp[v].currentmg
  <2>1. (IF HasOModel(U) THEN mbp[U].orefcount ELSE mbp[U].orefcount + 1) = 1
    BY <1>2 DEF HasOModel, OModel
  <2>2. mbp' = [mbp EXCEPT ![U].currentisuccessor = m,
                           ![U].orefcount = IF HasOModel(U) THEN @ ELSE @ + 1]
    BY DEF AdvanceOnGraph
  <2>3. mbp[U] \in ModelBuildingProperties
    BY <1>2
  <2> DEFINE r == [mbp[U] EXCEPT !.currentisuccessor = m, !.orefcount = 1,
                                 !.currentmg = mbp[U].currentmg]
  <2>4. mbp' = [mbp EXCEPT ![U] = r]
    <3>1. r = [mbp[U] EXCEPT !.currentisuccessor = m,
                             !.orefcount = IF HasOModel(U) THEN @ ELSE @ + 1]
      BY <2>1, <2>3 DEF ModelBuildingProperties
    <3> QED
      BY <1>2, <2>2, <3>1
  <2> DEFINE b == mbp[U].currentmg
             o == 1
             u == U
  <2>5. mbp' = AfterOModel(u, m, o, b)
    BY <2>4 DEF AfterOModel
  <2>6. b \in BOOLEAN /\ u \in Units
    BY <1>2, <2>3 DEF ModelBuildingProperties
  <2>7. o \in Nat /\ m \in Nat
    BY <1>3
  <2> HIDE DEF m, b, o, u
  <2>8. /\ mbp' \in [Units -> ModelBuildingProperties]
        /\ \A v \in Units : /\ mbp'[v].imodel = mbp[v].imodel
                            /\ mbp'[v].currentisuccessor = IF v = u THEN m ELSE mbp[v].currentisuccessor
                            /\ mbp'[v].orefcount = IF v = u THEN o ELSE mbp[v].orefcount
                            /\ mbp'[v].currentmg = IF v = u THEN b ELSE mbp[v].currentmg
    BY <1>2, <2>5, <2>6, <2>7, SetOModel, SMTT(20)
  <2> QED
    BY <2>8 DEF b, o, u
<1> HIDE DEF m
<1>7. \A n \in DOMAIN graph : /\ n \in DOMAIN graph' /\ n \in 1..Len(graph)
                              /\ graph'[n].type = graph[n].type
                              /\ graph'[n].location = graph[n].location
                              /\ graph'[n].deps = graph[n].deps
                              /\ graph'[n].childModelsGenerated = graph[n].childModelsGenerated
  BY <1>2, <1>4 DEF Similar, Kept
<1>8. /\ Kept(graph, graph') /\ (Len(graph) + 1)..Len(graph') = {} /\ DOMAIN graph' = DOMAIN graph
  BY <1>2, <1>4 DEF Similar, Kept
<1>9. GeneratorsStartOnce'
  <2> SUFFICES ASSUME NEW n \in DOMAIN graph, graph[n].type = "out"
               PROVE  \/ graph'[graph[n].deps[1]].childModelsGenerated
                      \/ /\ mbp'[graph[n].location].imodel = graph[n].deps[1]
                         /\ mbp'[graph[n].location].currentmg
    BY <1>7, <1>8 DEF GeneratorsStartOnce
  <2>1. graph[n].location \in Units
    BY <1>2, GraphType
  <2>2. graph[n].deps[1] \in DOMAIN graph
    <3>1. OutModelOK(graph, n) /\ n \in 1..Len(graph)
      BY <1>2 DEF BuilderInv, ModelsOK, GraphOK
    <3> QED
      BY <1>2, <3>1 DEF OutModelOK
  <2> QED
    BY <1>2, <1>6, <1>7, <2>1, <2>2 DEF GeneratorsStartOnce
<1>10. mbp'[U].currentmg => ~graph[IModel(U)].childModelsGenerated
  BY <1>2, <1>6 DEF UnitsOK, UnitOK
<1>11. GivesOModel(m)
  <2>1. /\ m \in DOMAIN graph' /\ graph'[m].type = "out" /\ graph'[m].location = U
        /\ graph'[m].deps[1] = IModel(U)
    BY <1>3, <1>7
  <2>2. \A n \in 1..Len(graph) : graph'[n].childModelsGenerated = graph[n].childModelsGenerated
    BY <1>4 DEF Similar
  <2>3. \A n \in (Len(graph) + 1)..Len(graph') : n = m
    BY <1>8
  <2>4. \A u \in Units : /\ mbp'[u].imodel = mbp[u].imodel
                         /\ mbp'[u].currentisuccessor = IF u = U THEN m ELSE OModel(u)
                         /\ mbp'[u].orefcount = IF u = U THEN 1 ELSE mbp[u].orefcount
                         /\ u # U => mbp'[u].currentmg = mbp[u].currentmg
    BY <1>6 DEF OModel
  <2> QED
    BY <1>1, <1>3, <1>6, <1>8, <1>10, <2>1, <2>2, <2>3, <2>4 DEF GivesOModel
<1> QED
  BY <1>1, <1>5, <1>9, <1>11, OModelStep

LEMMA GenerateOModelInvariant == ASSUME BuilderInv, GenerateOModel PROVE BuilderInv'
<1> DEFINE m == Len(graph) + 1
           input == IModel(U)
           r == Model(U, "out", <<input>>, graph[input].interpretation \cup {m}, FALSE)
           g == FreeOldOModel(graph)
<1>1. /\ IsAdvancing /\ NextOModel = NoModel /\ ~graph[input].childModelsGenerated
      /\ graph' = Append(g, r) /\ Return(m)
      /\ preds' = preds /\ asked' = asked /\ answers' = answers /\ exhausted' = exhausted
  BY DEF GenerateOModel, IModel
<1>2. /\ U \in Units /\ graph \in Seq(ModelRecords) /\ Len(graph) \in Nat
      /\ mbp \in [Units -> ModelBuildingProperties] /\ GeneratorsStartOnce /\ UnitsOK
      /\ EvalGraphOK(preds) /\ GraphOK(preds, graph)
      /\ input \in 1..Len(graph) /\ input # NoModel
      /\ graph[input].type = "in" /\ graph[input].location = U
  BY <1>1, AdvancingActive DEF BuilderInv, TypeOK, ModelsOK
<1>3. r \in ModelRecords /\ \A q : Added(graph, r, q) => GraphOK(preds, q)
  <2>1. r = Model(U, "out", <<input>>, graph[input].interpretation \cup {Len(graph) + 1}, FALSE)
    OBVIOUS
  <2> HIDE DEF r, input
  <2> QED
    BY <1>2, <2>1, NewOModel
<1>4. /\ r.location = U /\ r.type = "out" /\ r.deps = <<input>> /\ ~r.isNull
      /\ r.interpretation = graph[input].interpretation \cup {m} /\ ~r.childModelsGenerated
  BY DEF Model
<1> HIDE DEF r
<1>5. Similar(graph, g) /\ (~ConstantSpace => g = graph)
  BY <1>2, FreeOldOModelSimilar
<1> HIDE DEF g
<1>6. Added(graph, r, graph')
  <2>1. g \in Seq(ModelRecords)
    BY <1>5 DEF Similar, Kept
  <2>2. Added(g, r, graph')
    BY <1>1, <1>3, <2>1, AppendAdded
  <2> QED
    BY <1>5, <2>2, SimilarThenAdded
<1>7. /\ Kept(graph, graph') /\ Len(graph') = m /\ DOMAIN graph' = 1..m
      /\ graph'[m].location = U /\ graph'[m].type = "out" /\ graph'[m].deps = <<input>>
      /\ graph'[m].interpretation = r.interpretation
      /\ \A n \in 1..Len(graph) : graph'[n].childModelsGenerated = graph[n].childModelsGenerated
  BY <1>2, <1>4, <1>6 DEF Added, Kept
<1>8. OModel(U) \in Nat /\ OModel(U) < m
  <2>1. OModel(U) # NoModel => OModel(U) \in 1..Len(graph)
    BY <1>2 DEF UnitsOK, UnitOK
  <2> QED
    BY <1>2, <2>1 DEF NoModel
<1>9. /\ mbp' \in [Units -> ModelBuildingProperties]
      /\ \A v \in Units : /\ mbp'[v].imodel = mbp[v].imodel
                          /\ mbp'[v].currentisuccessor = IF v = U THEN m ELSE mbp[v].currentisuccessor
                          /\ mbp'[v].orefcount = IF v = U THEN 1 ELSE mbp[v].orefcount
                          /\ mbp'[v].currentmg = IF v = U THEN TRUE ELSE mbp[v].currentmg
  <2> DEFINE u == U
             o == 1
             b == TRUE
  <2>1. mbp' = [mbp EXCEPT ![U].currentmg = TRUE, ![U].orefcount = 1, ![U].currentisuccessor = m]
    BY DEF GenerateOModel
  <2>2. mbp[U] \in ModelBuildingProperties
    BY <1>2
  <2>3. mbp' = AfterOModel(u, m, o, b)
    BY <1>2, <2>1, <2>2 DEF AfterOModel, ModelBuildingProperties
  <2>4. /\ u \in Units /\ m \in Nat /\ o \in Nat /\ b \in BOOLEAN
        /\ mbp \in [Units -> ModelBuildingProperties]
    BY <1>2
  <2> HIDE DEF u, o, b, m, input
  <2>5. /\ mbp' \in [Units -> ModelBuildingProperties]
        /\ \A v \in Units : /\ mbp'[v].imodel = mbp[v].imodel
                            /\ mbp'[v].currentisuccessor = IF v = u THEN m ELSE mbp[v].currentisuccessor
                            /\ mbp'[v].orefcount = IF v = u THEN o ELSE mbp[v].orefcount
                            /\ mbp'[v].currentmg = IF v = u THEN b ELSE mbp[v].currentmg
    BY <2>3, <2>4, SetOModel
  <2> QED
    BY <2>5 DEF u, o, b
<1>10. GivesOModel(m)
  <2>1. m \in DOMAIN graph' /\ m \notin DOMAIN graph /\ graph'[m].deps[1] = IModel(U)
    BY <1>2, <1>7
  <2>2. \A n \in (Len(graph) + 1)..Len(graph') : n = m
    BY <1>2, <1>7
  <2>3. \A n \in DOMAIN graph :
          n > OModel(U) /\ graph[n].type = "out" /\ graph[n].deps[1] = IModel(U) => m <= n
    BY <1>1, NextIsOldest
  <2>4. \A u \in Units : /\ mbp'[u].imodel = mbp[u].imodel
                         /\ mbp'[u].currentisuccessor = IF u = U THEN m ELSE OModel(u)
                         /\ mbp'[u].orefcount = IF u = U THEN 1 ELSE mbp[u].orefcount
                         /\ u # U => mbp'[u].currentmg = mbp[u].currentmg
    BY <1>9 DEF OModel
  <2> HIDE DEF m
  <2> QED
    BY <1>1, <1>7, <1>8, <1>9, <2>1, <2>2, <2>3, <2>4 DEF GivesOModel
<1>11. ModelsOK' /\ JoinsConsistent'
  <2>1. GraphOK(preds, graph')
    BY <1>3, <1>6
  <2>2. Consistent(graph', r.interpretation)
    <3> HIDE DEF m
    <3>1. Consistent(graph', graph'[m].interpretation)
      BY <1>1, <1>10, <2>1, GivenConsistent
    <3> QED
      BY <1>7, <3>1
  <2>3. ~ConstantSpace => graph' = Append(graph, r) /\ (r.type = "out" => ~r.isNull)
    BY <1>1, <1>4, <1>5
  <2>4. ~(r.type = "in")
    BY <1>4
  <2> QED
    BY <1>1, <1>3, <1>6, <2>1, <2>2, <2>3, <2>4, AddedModelsOK
<1>12. GeneratorsStartOnce'
  <2> SUFFICES ASSUME NEW n \in DOMAIN graph', graph'[n].type = "out"
               PROVE  \/ graph'[graph'[n].deps[1]].childModelsGenerated
                      \/ /\ mbp'[graph'[n].location].imodel = graph'[n].deps[1]
                         /\ mbp'[graph'[n].location].currentmg
    BY DEF GeneratorsStartOnce
  <2>1. CASE n = m
    <3>1. mbp'[U].currentmg /\ mbp'[U].imodel = input
      BY <1>2, <1>9 DEF IModel
    <3>2. graph'[n].location = U /\ graph'[n].deps[1] = input
      BY <1>7, <2>1
    <3> QED
      BY <3>1, <3>2
  <2>2. CASE n \in 1..Len(graph)
    <3>1. /\ graph'[n].type = graph[n].type /\ graph'[n].location = graph[n].location
          /\ graph'[n].deps = graph[n].deps
      BY <1>7, <2>2 DEF Kept
    <3>2. graph[n].location \in Units
      BY <1>2, <2>2, GraphType
    <3>3. graph[n].deps[1] \in 1..Len(graph)
      <4>1. OutModelOK(graph, n)
        BY <1>2, <2>2, <3>1 DEF GraphOK
      <4> QED
        BY <1>2, <2>2, <4>1 DEF OutModelOK
    <3>4. \/ graph[graph[n].deps[1]].childModelsGenerated
          \/ /\ mbp[graph[n].location].imodel = graph[n].deps[1]
             /\ mbp[graph[n].location].currentmg
      BY <1>2, <2>2, <3>1 DEF GeneratorsStartOnce
    <3> QED
      BY <1>7, <1>9, <3>1, <3>2, <3>3, <3>4, ZenonT(20)
  <2> QED
    BY <1>2, <1>7, <2>1, <2>2
<1> HIDE DEF m
<1> QED
  BY <1>1, <1>10, <1>11, <1>12, OModelStep

-------------------------------------------------------------------------------
(***************************************************************************)
(* Steps of getNextOModel that look for the next input model.              *)
(***************************************************************************)

\* The step gives up the current output model of the unit, which is finished with
\* its input model, and calls getNextIModel.
TakesNextInput ==
  /\ preds' = preds /\ ret' = ret /\ asked' = asked /\ answers' = answers /\ exhausted' = exhausted
  /\ Call(IModelFrame(U), [Frame EXCEPT !.pc = "loop"])
  /\ Kept(graph, graph') /\ Len(graph') = Len(graph)
  /\ \A n \in 1..Len(graph) :
       graph'[n].childModelsGenerated <=> n = IModel(U) \/ graph[n].childModelsGenerated
  /\ ModelsOK' /\ JoinsConsistent'
  /\ mbp' \in [Units -> ModelBuildingProperties]
  /\ \A u \in Units : /\ mbp'[u].imodel = mbp[u].imodel
                      /\ mbp'[u].currentisuccessor = IF u = U THEN NoModel ELSE OModel(u)
                      /\ mbp'[u].orefcount = IF u = U THEN 0 ELSE mbp[u].orefcount
                      /\ u # U => mbp'[u].currentmg = mbp[u].currentmg
  /\ ~mbp'[U].currentmg
  /\ \A n \in DOMAIN graph : graph[n].type = "out" /\ graph[n].deps[1] = IModel(U) => n <= OModel(U)

LEMMA NextInputTaken ==
  ASSUME BuilderInv, IsAdvancing, NextOModel = NoModel, NEW done \in BOOLEAN, NextInput(done),
         ~done => graph[IModel(U)].childModelsGenerated
  PROVE  TakesNextInput
<1> DEFINE g == FreeOldOModel(graph)
           input == IModel(U)
<1>1. /\ U \in Units /\ graph \in Seq(ModelRecords) /\ Len(graph) \in Nat
      /\ mbp \in [Units -> ModelBuildingProperties] /\ UnitsOK
      /\ EvalGraphOK(preds) /\ ModelsOK /\ input \in 1..Len(graph)
      /\ mbp[U].orefcount = IF OModel(U) # NoModel THEN 1 ELSE 0
  BY AdvancingActive DEF BuilderInv, TypeOK
<1>2. /\ preds' = preds /\ ret' = ret /\ asked' = asked /\ answers' = answers
      /\ exhausted' = exhausted /\ Call(IModelFrame(U), [Frame EXCEPT !.pc = "loop"])
      /\ graph' = IF done THEN Finished(g, input) ELSE g
  BY DEF NextInput, Finished, IModel
<1>3. Similar(graph, g) /\ (~ConstantSpace => g = graph)
  BY <1>1, FreeOldOModelSimilar
<1> HIDE DEF g, input
<1>4. /\ Kept(graph, graph') /\ Len(graph') = Len(graph)
      /\ \A n \in 1..Len(graph) :
           graph'[n].childModelsGenerated <=> n = input \/ graph[n].childModelsGenerated
      /\ ~ConstantSpace => \A n \in 1..Len(graph) : graph'[n].isNull = graph[n].isNull
  <2>1. CASE done
    <3>1. graph' = Finished(g, input) /\ g \in Seq(ModelRecords) /\ input \in 1..Len(g)
      BY <1>1, <1>2, <1>3, <2>1 DEF Similar, Kept
    <3>2. /\ Kept(g, graph') /\ Len(graph') = Len(g)
          /\ \A n \in 1..Len(g) : /\ graph'[n].childModelsGenerated
                                       <=> n = input \/ g[n].childModelsGenerated
                                  /\ graph'[n].isNull = g[n].isNull
      BY <3>1, MarkFinished
    <3> QED
      BY <1>1, <1>3, <3>2 DEF Similar, Kept
  <2>2. CASE ~done
    <3>1. graph' = g /\ graph[input].childModelsGenerated
      BY <1>2, <2>2 DEF input
    <3> QED
      BY <1>1, <1>3, <3>1 DEF Similar
  <2> QED
    BY <2>1, <2>2
<1>5. ModelsOK' /\ JoinsConsistent'
  <2>1. (Len(graph) + 1)..Len(graph') = {}
    BY <1>1, <1>4
  <2>2. GraphOK(preds, graph')
    BY <1>1, <1>4, SimilarGraphOK DEF ModelsOK
  <2>3. RedundancyElimination => InputsUnique(graph')
    BY <1>1, <1>4, <2>1, KeptInputsUnique DEF ModelsOK
  <2>4. ~ConstantSpace => NoneFreed(graph')
    BY <1>1, <1>4 DEF ModelsOK, NoneFreed, Kept
  <2>5. JoinsConsistent'
    BY <1>4, <2>1, KeptConsistent
  <2> QED
    BY <1>2, <2>2, <2>3, <2>4, <2>5 DEF ModelsOK
<1>6. /\ mbp' \in [Units -> ModelBuildingProperties] /\ ~mbp'[U].currentmg
      /\ \A v \in Units : /\ mbp'[v].imodel = mbp[v].imodel
                          /\ mbp'[v].currentisuccessor = IF v = U THEN NoModel
                                                         ELSE mbp[v].currentisuccessor
                          /\ mbp'[v].orefcount = IF v = U THEN 0 ELSE mbp[v].orefcount
                          /\ v # U => mbp'[v].currentmg = mbp[v].currentmg
  <2>1. mbp[U] \in ModelBuildingProperties
    BY <1>1
  <2> DEFINE b == mbp[U].currentmg /\ ~done
             o == 0
             m == NoModel
             u == U
  <2>2. ~b
    <3>1. UnitOK(U)
      BY <1>1 DEF UnitsOK
    <3>2. mbp[U].currentmg => ~graph[IModel(U)].childModelsGenerated
      BY <3>1 DEF UnitOK
    <3> QED
      BY <3>2
  <2>3. (IF HasOModel(U) THEN 0 ELSE mbp[U].orefcount) = 0
    BY <1>1 DEF HasOModel, OModel
  <2>4. mbp' = [mbp EXCEPT ![U].currentisuccessor = NoModel,
                           ![U].orefcount = IF HasOModel(U) THEN 0 ELSE @,
                           ![U].currentmg = @ /\ ~done]
    BY DEF NextInput
  <2>5. mbp' = AfterOModel(u, m, o, b)
    <3>1. [mbp[U] EXCEPT !.currentisuccessor = NoModel,
                         !.orefcount = IF HasOModel(U) THEN 0 ELSE @,
                         !.currentmg = @ /\ ~done]
           = [mbp[u] EXCEPT !.currentisuccessor = m, !.orefcount = o, !.currentmg = b]
      BY <2>1, <2>3 DEF ModelBuildingProperties
    <3> QED
      BY <1>1, <2>4, <3>1 DEF AfterOModel
  <2>6. /\ u \in Units /\ m \in Nat /\ o \in Nat /\ b \in BOOLEAN
        /\ mbp \in [Units -> ModelBuildingProperties]
    BY <1>1 DEF NoModel
  <2> HIDE DEF u, o, b, m
  <2>7. /\ mbp' \in [Units -> ModelBuildingProperties]
        /\ \A v \in Units : /\ mbp'[v].imodel = mbp[v].imodel
                            /\ mbp'[v].currentisuccessor = IF v = u THEN m ELSE mbp[v].currentisuccessor
                            /\ mbp'[v].orefcount = IF v = u THEN o ELSE mbp[v].orefcount
                            /\ mbp'[v].currentmg = IF v = u THEN b ELSE mbp[v].currentmg
    BY <2>5, <2>6, SetOModel
  <2>8. mbp'[u].currentmg = b
    BY <2>6, <2>7
  <2>9. ~mbp'[u].currentmg
    BY <2>2, <2>8
  <2> QED
    BY <2>7, <2>9 DEF u, o, m
<1>7. \A n \in DOMAIN graph :
        graph[n].type = "out" /\ graph[n].deps[1] = input => n <= OModel(U)
  <2>1. \A n \in DOMAIN graph :
          ~(n > OModel(U) /\ graph[n].type = "out" /\ graph[n].deps[1] = input)
    BY NextIsOldest DEF input
  <2>2. OModel(U) \in Nat
    BY <1>1 DEF OModel, ModelBuildingProperties
  <2>3. \A n \in DOMAIN graph : n \in Nat
    BY <1>1
  <2> QED
    BY <2>1, <2>2, <2>3
<1> QED
  BY <1>2, <1>4, <1>5, <1>6, <1>7 DEF TakesNextInput, OModel, input

LEMMA TakenPlace ==
  ASSUME BuilderInv, IsAdvancing, TakesNextInput
  PROVE  /\ stack' \in Seq(Frames) /\ Len(stack') = 3
         /\ stack'[1] = IModelFrame(U) /\ Moved(Frame, "loop", Frame.cursor, stack'[2])
         /\ stack'[3] = stack[2]
         /\ Advanced' = U /\ Level' = U - 1 /\ Leaving' /\ NestedHeld' = Len(preds[U])
         /\ Outputs' = [u \in Units |-> IF u = U THEN NoModel ELSE OModel(u)]
         /\ StackOK'
         /\ \A u \in Units : /\ u \in Joining' <=> u = ufinal \/ u = U
                             /\ u \in Running' <=> u = U
<1>1. /\ TypeOK /\ stack # <<>> /\ Len(stack) = 2 /\ stack[2].pc = "result"
      /\ U = Advanced /\ Advanced = stack[2].cursor /\ U \in Units /\ U = Frame.unit
      /\ FinalCall(stack[2]) /\ OModelCall(Frame, stack[2]) /\ IModel(U) # NoModel
      /\ preds \in [Units -> Seq(Units)] /\ EvalGraphOK(preds)
      /\ mbp \in [Units -> ModelBuildingProperties]
  BY AdvancingActive DEF BuilderInv, TypeOK
<1>2. /\ preds' = preds /\ ret' = ret
      /\ \A u \in Units : /\ mbp'[u].imodel = mbp[u].imodel
                          /\ mbp'[u].currentisuccessor = IF u = U THEN NoModel ELSE OModel(u)
      /\ Call(IModelFrame(U), [Frame EXCEPT !.pc = "loop"])
  BY DEF TakesNextInput
<1>3. /\ stack' \in Seq(Frames) /\ Len(stack') = 3 /\ stack'[1] = IModelFrame(U)
      /\ Moved(Frame, "loop", Frame.cursor, stack'[2]) /\ stack'[3] = stack[2]
  <2>1. /\ stack' \in Seq(Frames) /\ Len(stack') = Len(stack) + 1 /\ stack'[1] = IModelFrame(U)
        /\ Moved(Frame, "loop", Frame.cursor, stack'[2])
        /\ \A i \in 3..Len(stack') : stack'[i] = stack[i - 1]
    BY <1>1, <1>2, CallIModel
  <2> QED
    BY <1>1, <2>1
<1>4. /\ stack'[1].fn = "getNextIModel" /\ stack'[1].unit = U /\ stack'[1].hadIModel
      /\ stack'[1].pc = IF preds[U] = <<>> THEN "dummy" ELSE "increment"
      /\ stack'[1].cursor = Len(preds[U])
  BY <1>1, <1>3, IModelFrameType
<1>5. Advanced' = U
  BY <1>1, <1>3 DEF Advanced
<1>6. Level' = U - 1
  BY <1>3, <1>5 DEF Level
<1>7. Leaving'
  BY <1>3, <1>4 DEF Leaving
<1>8. NestedHeld' = Len(preds[U])
  BY <1>3, <1>4, EmptySeq DEF NestedHeld
<1>9. Outputs' = [u \in Units |-> IF u = U THEN NoModel ELSE OModel(u)]
  BY <1>2 DEF Outputs, OModel
<1>10. \A u \in Units : /\ u \in Joining' <=> u = ufinal \/ u = U
                        /\ u \in Running' <=> u = U
  BY <1>3, <1>5 DEF Joining, Running
<1>11. StackOK'
  <2>1. FinalCall(stack[3])'
    BY <1>1, <1>2, <1>3 DEF FinalCall, IModelCall
  <2>2. OModelCall(stack[2], stack[3])'
    BY <1>1, <1>2, <1>3 DEF OModelCall, Moved
  <2>3. NestedCall(stack[1], stack[2])'
    <3>1. Len(preds[U]) \in Nat /\ (preds[U] # <<>> => Len(preds[U]) \in 1..Len(preds[U]))
      BY <1>1, EmptySeq
    <3>2. mbp'[U].imodel # NoModel
      BY <1>1, <1>2 DEF IModel
    <3>3. IModelCall(stack[1])'
      BY <1>2, <1>4, <3>1, <3>2 DEF IModelCall, IModel
    <3> QED
      BY <1>1, <1>3, <1>4, <3>3 DEF NestedCall, Moved
  <2>4. stack'[1].pc # "result" /\ stack'[1].pc # "fill"
    BY <1>4
  <2> QED
    BY <1>3, <2>1, <2>2, <2>3, <2>4 DEF StackOK
<1> QED
  BY <1>3, <1>5, <1>6, <1>7, <1>8, <1>9, <1>10, <1>11

\* The units after the step.
LEMMA TakenUnits ==
  ASSUME BuilderInv, IsAdvancing, TakesNextInput
  PROVE  UnitsOK' /\ InputsCurrent' /\ CurrentAtoms' /\ RefsOK' /\ GeneratorsStartOnce'
<1>1. /\ U \in Units /\ U \in Nat /\ U >= 1 /\ U < ufinal /\ EvalGraphOK(preds)
      /\ IModel(U) # NoModel /\ graph \in Seq(ModelRecords) /\ Len(graph) \in Nat
      /\ IModel(U) \in DOMAIN graph
      /\ mbp \in [Units -> ModelBuildingProperties]
      /\ UnitsOK /\ RefsOK /\ InputsCurrent /\ GeneratorsStartOnce /\ GraphOK(preds, graph)
      /\ Level = IF OModel(U) # NoModel THEN U ELSE U - 1
      /\ mbp[U].orefcount = IF OModel(U) # NoModel THEN 1 ELSE 0
      /\ \A u \in Units : /\ u \in Joining <=> u = ufinal
                          /\ u < U => OModel(u) # NoModel
                          /\ u > U => Idle(u)
                          /\ u > U /\ u # ufinal => IModel(u) = NoModel
  BY AdvancingActive DEF BuilderInv, TypeOK, ModelsOK
<1>2. /\ Level' = U - 1 /\ NestedHeld' = Len(preds[U])
      /\ \A u \in Units : /\ u \in Joining' <=> u = ufinal \/ u = U
                          /\ u \in Running' <=> u = U
  BY TakenPlace
<1>3. /\ preds' = preds /\ Kept(graph, graph') /\ Len(graph') = Len(graph)
      /\ \A n \in 1..Len(graph) :
           graph'[n].childModelsGenerated <=> n = IModel(U) \/ graph[n].childModelsGenerated
      /\ \A u \in Units : /\ mbp'[u].imodel = mbp[u].imodel
                          /\ mbp'[u].currentisuccessor = IF u = U THEN NoModel ELSE OModel(u)
                          /\ mbp'[u].orefcount = IF u = U THEN 0 ELSE mbp[u].orefcount
                          /\ u # U => mbp'[u].currentmg = mbp[u].currentmg
      /\ ~mbp'[U].currentmg
  BY DEF TakesNextInput
<1>4. /\ DOMAIN graph' = DOMAIN graph
      /\ \A n \in DOMAIN graph : /\ n \in 1..Len(graph) /\ n \in DOMAIN graph'
                                 /\ graph'[n].location = graph[n].location
                                 /\ graph'[n].type = graph[n].type
                                 /\ graph'[n].deps = graph[n].deps
                                 /\ graph'[n].interpretation = graph[n].interpretation
                                 /\ graph'[n].childModelsGenerated
                                      <=> n = IModel(U) \/ graph[n].childModelsGenerated
  BY <1>1, <1>3 DEF Kept
<1>5. \A u \in Units : /\ IModel(u)' = IModel(u)
                       /\ OModel(u)' = IF u = U THEN NoModel ELSE OModel(u)
  BY <1>3 DEF IModel, OModel
<1>6. UnitsOK'
  <2>1. ASSUME NEW u \in Units PROVE UnitOK(u)'
    <3>1. UnitOK(u)
      BY <1>1 DEF UnitsOK
    <3>2. CASE u = U
      <4>1. IModel(U) \in DOMAIN graph' /\ graph'[IModel(U)].type = "in"
            /\ graph'[IModel(U)].location = U
        BY <1>1, <1>4, <3>1, <3>2 DEF UnitOK
      <4> QED
        BY <1>1, <1>3, <1>5, <3>2, <4>1 DEF UnitOK
    <3>3. CASE u # U
      <4>1. /\ IModel(u)' = IModel(u) /\ OModel(u)' = OModel(u)
            /\ mbp'[u].currentmg = mbp[u].currentmg
        BY <1>3, <1>5, <3>3
      <4>2. IModel(u) # NoModel =>
              /\ IModel(u) \in DOMAIN graph' /\ graph'[IModel(u)].type = "in"
              /\ graph'[IModel(u)].location = u
        BY <1>4, <3>1 DEF UnitOK
      <4>3. OModel(u) # NoModel =>
              /\ IModel(u) # NoModel /\ OModel(u) \in DOMAIN graph' /\ graph'[OModel(u)].type = "out"
              /\ graph'[OModel(u)].location = u /\ graph'[OModel(u)].deps[1] = IModel(u)
        BY <1>4, <3>1 DEF UnitOK
      <4>4. mbp[u].currentmg =>
              IModel(u) # NoModel /\ ~graph'[IModel(u)].childModelsGenerated
        <5> SUFFICES ASSUME mbp[u].currentmg
                     PROVE  IModel(u) # NoModel /\ ~graph'[IModel(u)].childModelsGenerated
          OBVIOUS
        <5>1. /\ IModel(u) # NoModel /\ IModel(u) \in DOMAIN graph /\ graph[IModel(u)].location = u
              /\ ~graph[IModel(u)].childModelsGenerated
          BY <3>1 DEF UnitOK
        <5>2. IModel(u) # IModel(U)
          <6>1. UnitOK(U)
            BY <1>1 DEF UnitsOK
          <6>2. graph[IModel(U)].location = U
            BY <1>1, <6>1 DEF UnitOK
          <6> QED
            BY <3>3, <5>1, <6>2
        <5> QED
          BY <1>4, <5>1, <5>2
      <4> QED
        BY <4>1, <4>2, <4>3, <4>4 DEF UnitOK
    <3> QED
      BY <3>2, <3>3
  <2>2. \A u \in Units : u <= U - 1 => OModel(u)' # NoModel
    BY <1>1, <1>5, UnitsAreNumbers
  <2>3. ASSUME NEW u \in Units, u > U - 1 PROVE Idle(u)'
    <3>1. CASE u = U
      BY <1>3, <1>5, <3>1 DEF Idle
    <3>2. CASE u # U
      <4>1. Idle(u) /\ OModel(u)' = OModel(u)
        BY <1>1, <1>5, <2>3, <3>2, UnitsAreNumbers
      <4> QED
        BY <1>3, <3>2, <4>1 DEF Idle
    <3> QED
      BY <3>1, <3>2
  <2>4. \A u \in Units : u > U - 1 /\ u # ufinal /\ IModel(u)' # NoModel => u = U
    BY <1>1, <1>5, UnitsAreNumbers
  <2> QED
    BY <1>2, <2>1, <2>2, <2>3, <2>4 DEF UnitsOK
<1>7. InputsCurrent'
  <2> SUFFICES ASSUME NEW u \in Units, u # ufinal, u # U, IModel(u) # NoModel
               PROVE  graph'[mbp'[u].imodel].deps = CurrentOModels(u)'
    BY <1>2, <1>5 DEF InputsCurrent, Fed, IModel
  <2>1. u < U
    BY <1>1, UnitsAreNumbers
  <2>2. CurrentOModels(u)' = CurrentOModels(u)
    <3>1. \A i \in 1..Len(preds[u]) : preds[u][i] \in Units /\ preds[u][i] < u
      BY <1>1 DEF EvalGraphOK
    <3>2. \A i \in 1..Len(preds[u]) : preds[u][i] \in Units /\ preds[u][i] # U
      BY <1>1, <2>1, <3>1, UnitsAreNumbers
    <3> QED
      BY <1>3, <3>2 DEF CurrentOModels, OModel
  <2>3. graph[IModel(u)].deps = CurrentOModels(u) /\ IModel(u) \in DOMAIN graph
    BY <1>1 DEF InputsCurrent, Fed, UnitsOK, UnitOK
  <2> QED
    BY <1>3, <1>4, <2>2, <2>3 DEF IModel
<1>8. CurrentAtoms'
  <2> SUFFICES ASSUME NEW u \in Units, mbp'[u].currentisuccessor # NoModel,
                      NEW a \in graph'[mbp'[u].currentisuccessor].interpretation
               PROVE  mbp'[graph'[a].location].currentisuccessor = a
    BY DEF CurrentAtoms, OModel
  <2>1. u # U /\ mbp'[u].currentisuccessor = OModel(u) /\ OModel(u) # NoModel
    BY <1>3
  <2>2. u < U
    BY <1>1, <2>1, UnitsAreNumbers DEF Idle
  <2>3. OModel(u) \in DOMAIN graph
    BY <1>1, <2>1 DEF UnitsOK, UnitOK
  <2>4. a \in graph[OModel(u)].interpretation
    BY <1>4, <2>1, <2>3
  <2>5. /\ a \in DOMAIN graph /\ graph[a].location \in Units /\ graph[a].location <= u
        /\ OModel(graph[a].location) = a
    BY <2>1, <2>4, CurrentAtomsKnown
  <2>6. graph[a].location # U
    BY <1>1, <2>2, <2>5, UnitsAreNumbers
  <2> QED
    BY <1>3, <1>4, <2>5, <2>6
<1>9. RefsOK'
  <2> DEFINE held == HeldBy'
             more == HeldBy
  <2>1. more \in [Units -> Nat] /\ more = [v \in Units |-> Held(v)]
        /\ held = [v \in Units |-> Held(v)']
    BY HeldType DEF HeldBy
  <2>2. \A w \in Units : w # ufinal => more[w] = held[w]
    <3> SUFFICES ASSUME NEW w \in Units, w # ufinal PROVE Held(w)' = Held(w)
      BY <2>1
    <3>1. CASE w = U
      BY <1>1, <1>2, <3>1 DEF Held
    <3>2. CASE w # U
      BY <1>1, <1>2, <1>3, <1>5, <3>2 DEF Held
    <3> QED
      BY <3>1, <3>2
  <2>3. more[ufinal] = Level /\ held[ufinal] = U - 1
    BY <1>2, <2>1, UnitsAreNumbers DEF Held
  <2>4. held \in [Units -> Nat]
    BY <1>1, <2>1, <2>2, <2>3
  <2>5. ufinal \in Units /\ U <= Len(preds[ufinal]) /\ preds[ufinal][U] = U
    <3>1. Len(preds[ufinal]) = NumUnits - 1 /\ \A i \in 1..(NumUnits - 1) : preds[ufinal][i] = i
      BY <1>1 DEF EvalGraphOK
    <3>2. U \in 1..(NumUnits - 1)
      BY <1>1, UnitsAreNumbers
    <3> QED
      BY <3>1, <3>2, UnitsAreNumbers
  <2>6. \A u \in Units : mbp[u].orefcount = Cardinality(HoldersIn(preds, more, u))
    BY <1>1 DEF RefsOK
  <2> HIDE DEF held, more
  <2>7. \A u \in Units : mbp'[u].orefcount = Cardinality(HoldersIn(preds, held, u))
    <3>1. CASE OModel(U) = NoModel
      <4>1. Level = U - 1 /\ mbp[U].orefcount = 0
        BY <1>1, <3>1
      <4>2. more = held
        BY <2>1, <2>2, <2>3, <2>4, <4>1
      <4> QED
        BY <1>3, <2>6, <4>1, <4>2
    <3>2. CASE OModel(U) # NoModel
      <4>1. more[ufinal] = held[ufinal] + 1 /\ more[ufinal] <= Len(preds[ufinal])
            /\ preds[ufinal][more[ufinal]] = U /\ mbp[U].orefcount = 1
        BY <1>1, <2>3, <2>5, <3>2
      <4>2. ASSUME NEW u
            PROVE  Cardinality(HoldersIn(preds, more, u))
                     = IF preds[ufinal][more[ufinal]] = u
                       THEN Cardinality(HoldersIn(preds, held, u)) + 1
                       ELSE Cardinality(HoldersIn(preds, held, u))
        <5>1. more[ufinal] = held[ufinal] + 1 /\ more[ufinal] <= Len(preds[ufinal])
          BY <4>1
        <5>2. ufinal \in Units /\ EvalGraphOK(preds) /\ more \in [Units -> Nat]
          BY <1>1, <2>1, <2>5
        <5> QED
          BY <2>2, <2>4, <5>1, <5>2, HoldMore
      <4>3. \A u \in Units : Cardinality(HoldersIn(preds, held, u)) \in Nat
        BY HoldersFinite
      <4>4. Cardinality(HoldersIn(preds, held, U)) = 0
        BY <1>1, <2>6, <4>1, <4>2, <4>3
      <4>5. \A u \in Units : u # U =>
              Cardinality(HoldersIn(preds, more, u)) = Cardinality(HoldersIn(preds, held, u))
        BY <4>1, <4>2
      <4> QED
        BY <1>3, <2>6, <4>4, <4>5
    <3> QED
      BY <3>1, <3>2
  <2> QED
    BY <1>3, <2>7 DEF RefsOK, held
<1>10. GeneratorsStartOnce'
  <2> SUFFICES ASSUME NEW n \in DOMAIN graph, graph[n].type = "out"
               PROVE  \/ graph'[graph[n].deps[1]].childModelsGenerated
                      \/ /\ mbp'[graph[n].location].imodel = graph[n].deps[1]
                         /\ mbp'[graph[n].location].currentmg
    BY <1>4 DEF GeneratorsStartOnce
  <2>1. graph[n].location \in Units
    BY <1>1, GraphType
  <2>2. graph[n].deps[1] \in DOMAIN graph
    <3>1. OutModelOK(graph, n) /\ n \in 1..Len(graph)
      BY <1>1 DEF GraphOK
    <3> QED
      BY <1>1, <3>1 DEF OutModelOK
  <2>3. \/ graph[graph[n].deps[1]].childModelsGenerated
        \/ /\ mbp[graph[n].location].imodel = graph[n].deps[1]
           /\ mbp[graph[n].location].currentmg
    BY <1>1 DEF GeneratorsStartOnce
  <2>4. CASE graph[n].location = U
    BY <1>4, <2>2, <2>3, <2>4 DEF IModel
  <2>5. CASE graph[n].location # U
    BY <1>3, <1>4, <2>1, <2>2, <2>3, <2>5
  <2> QED
    BY <2>4, <2>5
<1> QED
  BY <1>6, <1>7, <1>8, <1>9, <1>10

\* A combination that is passed after the step was passed before, or it is the
\* current one, with which the unit is finished.
LEMMA TakenOffered ==
  ASSUME BuilderInv, IsAdvancing, RedundancyElimination, TakesNextInput,
         NEW c, Combination(preds, graph', c), Passed(c)'
  PROVE  Offered(preds, graph', answers, c)
<1> DEFINE out == Outputs
           out1 == [u \in Units |-> IF u = U THEN NoModel ELSE OModel(u)]
<1>1. /\ U \in Units /\ U \in Nat /\ U >= 1 /\ U < ufinal /\ EvalGraphOK(preds)
      /\ Level = IF OModel(U) # NoModel THEN U ELSE U - 1
      /\ Leaving <=> OModel(U) # NoModel
      /\ graph \in Seq(ModelRecords) /\ Len(graph) \in Nat /\ GraphOK(preds, graph)
      /\ IModel(U) \in DOMAIN graph /\ graph[IModel(U)].type = "in"
      /\ graph[IModel(U)].location = U /\ graph[IModel(U)].deps = CurrentOModels(U)
      /\ InputsUnique(graph) /\ answers \in Seq(Nat)
  BY AdvancingActive DEF BuilderInv, TypeOK, ModelsOK
<1>2. /\ Kept(graph, graph') /\ Len(graph') = Len(graph)
      /\ \A n \in 1..Len(graph) :
           graph'[n].childModelsGenerated <=> n = IModel(U) \/ graph[n].childModelsGenerated
      /\ \A n \in DOMAIN graph :
           graph[n].type = "out" /\ graph[n].deps[1] = IModel(U) => n <= OModel(U)
  BY DEF TakesNextInput
<1>3. c \in Seq(Nat) /\ Len(c) \in Nat /\ Len(c) < NumUnits
  BY DEF Combination
<1>4. Combination(preds, graph, c)
  <2>1. \A i \in 1..Len(c) : c[i] \in 1..Len(graph)
    BY <1>2 DEF Combination, Kept
  <2> QED
    BY <1>1, <1>2, <2>1, KeptCombination
<1>5. Passed(c) => Offered(preds, graph', answers, c)
  <2> SUFFICES ASSUME Passed(c) PROVE Offered(preds, graph', answers, c)
    OBVIOUS
  <2>1. Offered(preds, graph, answers, c)
    BY <1>4 DEF BuilderInv, PassedOffered
  <2> QED
    BY <1>1, <1>2, <2>1, KeptOffered
<1>6. PassedAt(out1, U - 1, TRUE, c)
  <2>1. Outputs' = out1 /\ Level' = U - 1 /\ Leaving'
    BY TakenPlace
  <2> HIDE DEF out1
  <2> QED
    BY <2>1 DEF Passed, PassedAt
<1>7. \A i \in 1..(U - 1) : i \in Units /\ out1[i] = OModel(i) /\ out[i] = OModel(i)
  <2>1. \A i \in 1..(U - 1) : i \in Units /\ i # U
    <3>1. U \in Nat /\ U >= 1 /\ U <= NumUnits /\ NumUnits \in Nat
      BY <1>1, UnitsAreNumbers
    <3>2. \A i \in 1..(U - 1) : i \in Nat /\ 1 <= i /\ i <= NumUnits /\ i # U
      BY <3>1
    <3> QED
      BY <3>2, UnitsAreNumbers
  <2> QED
    BY <2>1 DEF Outputs
<1>8. out[U] = OModel(U)
  BY <1>1 DEF Outputs
<1> HIDE DEF out, out1
<1>9. CASE \E j \in 1..(U - 1) : /\ j <= Len(c) /\ c[j] < out1[j]
                                 /\ \A i \in 1..(j - 1) : c[i] = out1[i]
  <2>1. PICK j \in 1..(U - 1) : /\ j <= Len(c) /\ c[j] < out1[j]
                                /\ \A i \in 1..(j - 1) : c[i] = out1[i]
    BY <1>9
  <2>2. j \in 1..Level /\ \A i \in 1..(j - 1) : i \in 1..(U - 1)
    BY <1>1, <2>1
  <2>3. c[j] < out[j] /\ \A i \in 1..(j - 1) : c[i] = out[i]
    BY <1>7, <2>1, <2>2
  <2>4. Passed(c)
    BY <2>1, <2>2, <2>3 DEF Passed, PassedAt, out
  <2> QED
    BY <1>5, <2>4
<1>10. CASE U - 1 <= Len(c) /\ \A i \in 1..(U - 1) : c[i] = out1[i]
  <2>1. U - 1 <= Len(c) /\ \A i \in 1..(U - 1) : c[i] = OModel(i)
    BY <1>7, <1>10
  <2>2. CASE Len(c) = U - 1
    <3>1. Projection(preds, c, U) = CurrentOModels(U)
      <4>1. \A i \in 1..Len(preds[U]) : preds[U][i] \in Units /\ preds[U][i] < U
        BY <1>1 DEF EvalGraphOK
      <4>2. \A i \in 1..Len(preds[U]) : preds[U][i] \in 1..(U - 1)
        BY <1>1, <4>1, UnitsAreNumbers
      <4>3. \A i \in 1..Len(preds[U]) : c[preds[U][i]] = mbp[preds[U][i]].currentisuccessor
        BY <2>1, <4>2 DEF OModel
      <4> QED
        BY <4>3 DEF Projection, CurrentOModels
    <3>2. /\ IModel(U) \in DOMAIN graph' /\ graph'[IModel(U)].type = "in"
          /\ graph'[IModel(U)].location = U /\ graph'[IModel(U)].deps = CurrentOModels(U)
          /\ graph'[IModel(U)].childModelsGenerated
      <4>1. IModel(U) \in 1..Len(graph) /\ DOMAIN graph' = 1..Len(graph)
        BY <1>1, <1>2 DEF Kept
      <4> QED
        BY <1>1, <1>2, <4>1 DEF Kept
    <3>3. Len(c) + 1 = U /\ U # ufinal
      BY <1>1, <2>2, UnitsAreNumbers
    <3> QED
      BY <3>1, <3>2, <3>3 DEF Offered
  <2>3. CASE Len(c) # U - 1
    <3>1. U <= Len(c) /\ U \in 1..Len(c) /\ c[U] \in Nat
      BY <1>1, <1>3, <2>1, <2>3
    <3>2. graph[c[U]].deps[1] = IModel(U)
      <4>1. Kept(graph, graph)
        BY <1>1, SimilarSelf DEF Similar
      <4> QED
        BY <1>1, <1>4, <2>1, <3>1, <4>1, ChildOfCurrent
    <3>3. c[U] \in DOMAIN graph /\ graph[c[U]].type = "out" /\ c[U] # NoModel
      <4>1. c[U] \in DOMAIN graph /\ graph[c[U]].type = "out"
        BY <1>4, <3>1 DEF Combination
      <4> QED
        BY <1>1, <4>1, GraphType DEF NoModel
    <3>4. OModel(U) \in Nat /\ c[U] <= OModel(U)
      BY <1>1, <1>2, <3>2, <3>3 DEF BuilderInv, TypeOK, OModel, ModelBuildingProperties
    <3>5. Level = U /\ Leaving
      BY <1>1, <3>1, <3>3, <3>4 DEF NoModel
    <3>6. \A i \in 1..(U - 1) : c[i] = out[i]
      BY <1>7, <2>1
    <3>7. Passed(c)
      <4>1. CASE c[U] < OModel(U)
        <5>1. U \in 1..Level /\ U <= Len(c) /\ c[U] < out[U]
          BY <1>1, <1>8, <3>1, <3>5, <4>1
        <5> QED
          BY <3>6, <5>1 DEF Passed, PassedAt, out
      <4>2. CASE c[U] = OModel(U)
        <5>1. Level <= Len(c) /\ \A i \in 1..Level : c[i] = out[i]
          BY <1>1, <1>8, <3>1, <3>5, <3>6, <4>2
        <5> QED
          BY <3>5, <5>1 DEF Passed, PassedAt, out
      <4> QED
        BY <3>1, <3>4, <4>1, <4>2
    <3> QED
      BY <1>5, <3>7
  <2> QED
    BY <2>2, <2>3
<1> QED
  BY <1>6, <1>9, <1>10 DEF PassedAt

\* What was passed before is passed after the step.
LEMMA StaysPassed ==
  ASSUME BuilderInv, IsAdvancing, TakesNextInput, NEW c \in Seq(Nat), Passed(c)
  PROVE  Passed(c)'
<1> DEFINE out == Outputs
           out1 == [u \in Units |-> IF u = U THEN NoModel ELSE OModel(u)]
<1>1. /\ U \in Units /\ U \in Nat /\ U >= 1 /\ Len(c) \in Nat
      /\ Level = IF OModel(U) # NoModel THEN U ELSE U - 1
      /\ Leaving <=> OModel(U) # NoModel
  BY AdvancingActive
<1>2. \A i \in 1..(U - 1) : out[i] = out1[i]
  <2>1. \A i \in 1..(U - 1) : i \in Units /\ i # U
    <3>1. U \in Nat /\ U >= 1 /\ U <= NumUnits /\ NumUnits \in Nat
      BY <1>1, UnitsAreNumbers
    <3>2. \A i \in 1..(U - 1) : i \in Nat /\ 1 <= i /\ i <= NumUnits /\ i # U
      BY <3>1
    <3> QED
      BY <3>2, UnitsAreNumbers
  <2> QED
    BY <2>1 DEF Outputs
<1>3. PassedAt(out1, U - 1, TRUE, c) => Passed(c)'
  <2>1. Outputs' = out1 /\ Level' = U - 1 /\ Leaving'
    BY TakenPlace
  <2> HIDE DEF out1
  <2> QED
    BY <2>1 DEF Passed, PassedAt
<1>4. PassedAt(out, Level, Leaving, c)
  BY DEF Passed
<1> HIDE DEF out, out1
<1>5. CASE \E j \in 1..Level : /\ j <= Len(c) /\ c[j] < out[j]
                               /\ \A i \in 1..(j - 1) : c[i] = out[i]
  <2>1. PICK j \in 1..Level : /\ j <= Len(c) /\ c[j] < out[j]
                              /\ \A i \in 1..(j - 1) : c[i] = out[i]
    BY <1>5
  <2>2. CASE j < U
    <3>1. j \in 1..(U - 1) /\ \A i \in 1..(j - 1) : i \in 1..(U - 1)
      BY <1>1, <2>1, <2>2
    <3>2. c[j] < out1[j] /\ \A i \in 1..(j - 1) : c[i] = out1[i]
      BY <1>2, <2>1, <3>1
    <3> QED
      BY <1>3, <2>1, <3>1, <3>2 DEF PassedAt
  <2>3. CASE j = U
    <3>1. U - 1 <= Len(c) /\ \A i \in 1..(U - 1) : c[i] = out1[i]
      BY <1>1, <1>2, <2>1, <2>3
    <3> QED
      BY <1>3, <3>1 DEF PassedAt
  <2> QED
    BY <1>1, <2>1, <2>2, <2>3
<1>6. CASE Leaving /\ Level <= Len(c) /\ \A i \in 1..Level : c[i] = out[i]
  <2>1. Level = U
    BY <1>1, <1>6
  <2>2. U - 1 <= Len(c) /\ \A i \in 1..(U - 1) : c[i] = out1[i]
    BY <1>1, <1>2, <1>6, <2>1
  <2> QED
    BY <1>3, <2>2 DEF PassedAt
<1> QED
  BY <1>4, <1>5, <1>6 DEF PassedAt

LEMMA TakenWalk ==
  ASSUME BuilderInv, IsAdvancing, TakesNextInput
  PROVE  PassedOffered' /\ AnswersOK'
<1>1. /\ graph \in Seq(ModelRecords) /\ answers \in Seq(Nat) /\ preds' = preds /\ answers' = answers
      /\ Kept(graph, graph') /\ Len(graph) \in Nat
  BY DEF BuilderInv, TypeOK, TakesNextInput
<1>2. PassedOffered'
  <2> SUFFICES ASSUME RedundancyElimination, NEW c, Combination(preds, graph', c), Passed(c)'
               PROVE  Offered(preds, graph', answers, c)
    BY <1>1 DEF PassedOffered
  <2> QED
    BY TakenOffered
<1>3. AnswersOK'
  <2> SUFFICES ASSUME NEW i \in 1..Len(answers)
               PROVE  /\ answers[i] \in DOMAIN graph' /\ graph'[answers[i]].type = "in"
                      /\ graph'[answers[i]].location = ufinal
                      /\ PassedAt(Outputs', Level', Leaving', graph'[answers[i]].deps)
    BY <1>1 DEF AnswersOK, Passed
  <2>1. /\ answers[i] \in DOMAIN graph /\ graph[answers[i]].type = "in"
        /\ graph[answers[i]].location = ufinal /\ Passed(graph[answers[i]].deps)
    BY DEF BuilderInv, AnswersOK
  <2>2. PICK c \in Seq(Nat) : c = graph[answers[i]].deps
    BY <1>1, <2>1, GraphType
  <2>3. PassedAt(Outputs', Level', Leaving', c)
    <3>1. Passed(c)'
      BY <2>1, <2>2, StaysPassed
    <3> QED
      BY <3>1 DEF Passed
  <2>4. /\ answers[i] \in DOMAIN graph' /\ graph'[answers[i]].type = "in"
        /\ graph'[answers[i]].location = ufinal /\ graph'[answers[i]].deps = graph[answers[i]].deps
    <3>1. answers[i] \in 1..Len(graph) /\ DOMAIN graph' = 1..Len(graph')
          /\ Len(graph) <= Len(graph') /\ Len(graph') \in Nat
      BY <1>1, <2>1 DEF Kept
    <3>2. /\ graph'[answers[i]].type = graph[answers[i]].type
          /\ graph'[answers[i]].location = graph[answers[i]].location
          /\ graph'[answers[i]].deps = graph[answers[i]].deps
      BY <1>1, <3>1 DEF Kept
    <3> QED
      BY <1>1, <2>1, <3>1, <3>2
  <2> QED
    BY <2>2, <2>3, <2>4
<1> QED
  BY <1>2, <1>3

LEMMA NextInputStep ==
  ASSUME BuilderInv, IsAdvancing, TakesNextInput PROVE BuilderInv'
<1>1. /\ TypeOK /\ CallerOK /\ stack # <<>>
  BY AdvancingActive DEF BuilderInv
<1>2. stack' \in Seq(Frames) /\ Len(stack') = 3 /\ StackOK'
  BY TakenPlace
<1>3. /\ preds' = preds /\ ret' = ret /\ asked' = asked /\ answers' = answers
      /\ exhausted' = exhausted /\ ModelsOK' /\ JoinsConsistent'
      /\ mbp' \in [Units -> ModelBuildingProperties] /\ graph' \in Seq(ModelRecords)
  BY DEF TakesNextInput, Kept
<1>4. TypeOK'
  BY <1>1, <1>2, <1>3 DEF TypeOK
<1>5. CallerOK'
  <2>1. Len(stack') = 3
    BY <1>2
  <2>2. stack' # <<>>
    BY <2>1
  <2> QED
    BY <1>1, <1>3, <2>2 DEF CallerOK
<1>6. UnitsOK' /\ InputsCurrent' /\ CurrentAtoms' /\ RefsOK' /\ GeneratorsStartOnce'
  BY TakenUnits
<1>7. PassedOffered' /\ AnswersOK'
  BY TakenWalk
<1> QED
  BY <1>2, <1>3, <1>4, <1>5, <1>6, <1>7 DEF BuilderInv

LEMMA ExhaustGeneratorInvariant == ASSUME BuilderInv, ExhaustGenerator PROVE BuilderInv'
<1>1. IsAdvancing /\ NextOModel = NoModel /\ NextInput(TRUE)
  BY DEF ExhaustGenerator
<1>2. PICK done \in BOOLEAN : done = TRUE
  OBVIOUS
<1>3. NextInput(done)
  BY <1>1, <1>2
<1>4. TakesNextInput
  BY <1>1, <1>2, <1>3, NextInputTaken
<1> QED
  BY <1>1, <1>4, NextInputStep

LEMMA AllOModelsUsedInvariant == ASSUME BuilderInv, AllOModelsUsed PROVE BuilderInv'
<1>1. /\ IsAdvancing /\ NextOModel = NoModel /\ NextInput(FALSE)
      /\ graph[IModel(U)].childModelsGenerated
  BY DEF AllOModelsUsed, IModel
<1>2. PICK done \in BOOLEAN : done = FALSE
  OBVIOUS
<1>3. NextInput(done)
  BY <1>1, <1>2
<1>4. TakesNextInput
  BY <1>1, <1>2, <1>3, NextInputTaken
<1> QED
  BY <1>1, <1>4, NextInputStep

-------------------------------------------------------------------------------
(***************************************************************************)
(* The caller.                                                             *)
(***************************************************************************)

LEMMA ReceiveModelInvariant == ASSUME BuilderInv, ReceiveModel PROVE BuilderInv'
<1>1. /\ TypeOK /\ CallerOK /\ stack = <<>> /\ asked /\ ret = IModel(ufinal) /\ ~exhausted
      /\ Len(stack) = 0 /\ graph \in Seq(ModelRecords) /\ answers \in Seq(Nat) /\ EvalGraphOK(preds)
      /\ ret \in Nat /\ UnitsOK /\ InputsCurrent
  BY PredecessorsBelow DEF BuilderInv, TypeOK, CallerOK, ReceiveModel
<1>2. /\ preds' = preds /\ graph' = graph /\ mbp' = mbp /\ stack' = stack /\ ret' = ret
      /\ asked' = FALSE
  BY DEF ReceiveModel
<1>3. /\ StackOK' /\ Level' = Level /\ HeldBy' = HeldBy
      /\ \A u \in Units : (u \in Running' <=> u \in Running) /\ (u \in Joining' <=> u \in Joining)
  <2>1. /\ Level' = Level
        /\ \A u \in Units : (u \in Running' <=> u \in Running) /\ (u \in Joining' <=> u \in Joining)
    BY <1>1, <1>2 DEF Level, Running, Joining, Advanced, IModel, OModel
  <2>2. HeldBy' = HeldBy
    BY <1>2, <2>1 DEF HeldBy, Held, NestedHeld, IModel
  <2>3. StackOK'
    BY <1>1, <1>2 DEF StackOK
  <2> QED
    BY <2>1, <2>2, <2>3
<1>4. CASE ret = NoModel
  <2>1. exhausted' = TRUE /\ answers' = answers
    BY <1>4 DEF ReceiveModel
  <2>2. Leaving' <=> Leaving
    BY <1>1, <1>2, <1>4, <2>1 DEF Leaving
  <2>3. CallerOK'
    BY <1>1, <1>2, <1>4, <2>1 DEF CallerOK, IModel
  <2>4. TypeOK'
    BY <1>1, <1>2, <2>1 DEF TypeOK
  <2> QED
    BY <1>2, <1>3, <2>1, <2>2, <2>3, <2>4, QuietStep
<1>5. CASE ret # NoModel
  <2>1. exhausted' = exhausted /\ answers' = Append(answers, ret)
    BY <1>5 DEF ReceiveModel
  <2>2. ~Leaving /\ Leaving' /\ Level = NumUnits - 1 /\ Outputs' = Outputs
    BY <1>1, <1>2, <1>5 DEF Leaving, Level, IModel, Outputs, OModel
  <2>3. CallerOK'
    BY <1>1, <1>2, <2>1 DEF CallerOK
  <2>4. /\ answers' \in Seq(Nat) /\ Len(answers') = Len(answers) + 1 /\ Len(answers) \in Nat
        /\ \A i \in 1..Len(answers) : i \in 1..Len(answers') /\ answers'[i] = answers[i]
        /\ answers'[Len(answers')] = ret
    BY <1>1, <2>1, AppendProperties
  <2>5. TypeOK'
    BY <1>1, <1>2, <2>1, <2>4 DEF TypeOK
  <2>6. /\ ModelsOK' /\ JoinsConsistent' /\ GeneratorsStartOnce' /\ CurrentAtoms' /\ RefsOK'
        /\ UnitsOK' /\ InputsCurrent'
    <3>1. ModelsOK' /\ JoinsConsistent' /\ GeneratorsStartOnce' /\ CurrentAtoms'
      BY <1>2 DEF BuilderInv, ModelsOK, JoinsConsistent, GeneratorsStartOnce, CurrentAtoms, OModel
    <3>2. RefsOK'
      BY <1>2, <1>3 DEF BuilderInv, RefsOK
    <3>3. UnitsOK'
      BY <1>1, <1>2, <1>3 DEF UnitsOK, UnitOK, Idle, IModel, OModel
    <3>4. InputsCurrent'
      BY <1>1, <1>2, <1>3, SMTT(20) DEF InputsCurrent, Fed, IModel, CurrentOModels
    <3> QED
      BY <3>1, <3>2, <3>3, <3>4
  <2>7. /\ ret \in DOMAIN graph /\ graph[ret].type = "in" /\ graph[ret].location = ufinal
        /\ graph[ret].deps = CurrentOModels(ufinal)
    <3>1. ufinal \in Units /\ ufinal \notin Joining
      BY <1>1, UnitsAreNumbers DEF Joining
    <3> QED
      BY <1>1, <1>5, <3>1 DEF UnitsOK, UnitOK, InputsCurrent, Fed
  <2>8. /\ Len(preds[ufinal]) = NumUnits - 1 /\ \A i \in 1..(NumUnits - 1) : preds[ufinal][i] = i
        /\ NumUnits - 1 \in Nat /\ \A i \in 1..(NumUnits - 1) : i \in Units
    <3>1. \A i \in 1..(NumUnits - 1) : i \in Nat /\ 1 <= i /\ i <= NumUnits
      BY UnitsAreNumbers
    <3>2. \A i \in 1..(NumUnits - 1) : i \in Units
      BY <3>1, UnitsAreNumbers
    <3>3. NumUnits - 1 \in Nat
      BY UnitsAreNumbers
    <3> QED
      BY <1>1, <3>2, <3>3 DEF EvalGraphOK
  <2>9. ASSUME NEW c, Passed(c) PROVE Passed(c)'
    <3>1. Outputs' = Outputs /\ Level' = Level /\ ~Leaving
      BY <1>3, <2>2
    <3> QED
      BY <2>9, <3>1 DEF Passed, PassedAt
  <2>10. PassedOffered'
    <3> SUFFICES ASSUME RedundancyElimination, NEW c, Combination(preds, graph, c), Passed(c)'
                 PROVE  Offered(preds, graph, answers', c)
      BY <1>2 DEF PassedOffered
    <3>1. CASE Passed(c)
      <4>1. Offered(preds, graph, answers, c)
        BY <3>1 DEF BuilderInv, PassedOffered
      <4>2. Kept(graph, graph)
        BY <1>1, SimilarSelf DEF Similar
      <4> QED
        BY <1>1, <2>4, <4>1, <4>2, KeptOffered
    <3>2. CASE ~Passed(c)
      <4>1. NumUnits - 1 <= Len(c) /\ \A i \in 1..(NumUnits - 1) : c[i] = Outputs[i]
        <5>1. Outputs' = Outputs /\ Level' = NumUnits - 1 /\ Level = NumUnits - 1
          BY <1>3, <2>2
        <5> QED
          BY <3>2, <5>1 DEF Passed, PassedAt
      <4>2. Len(c) + 1 = ufinal
        BY <2>8, <4>1, UnitsAreNumbers DEF Combination
      <4>3. Projection(preds, c, ufinal) = CurrentOModels(ufinal)
        <5>1. \A i \in 1..Len(preds[ufinal]) :
                c[preds[ufinal][i]] = mbp[preds[ufinal][i]].currentisuccessor
          BY <2>8, <4>1 DEF Outputs, OModel
        <5> QED
          BY <5>1 DEF Projection, CurrentOModels
      <4>4. \E i \in 1..Len(answers') : answers'[i] = ret
        BY <2>4
      <4> QED
        BY <2>7, <4>2, <4>3, <4>4 DEF Offered
    <3> QED
      BY <3>1, <3>2
  <2>11. AnswersOK'
    <3> SUFFICES ASSUME NEW i \in 1..Len(answers')
                 PROVE  /\ answers'[i] \in DOMAIN graph /\ graph[answers'[i]].type = "in"
                        /\ graph[answers'[i]].location = ufinal
                        /\ PassedAt(Outputs', Level', Leaving', graph[answers'[i]].deps)
      BY <1>2 DEF AnswersOK, Passed
    <3>1. CASE i \in 1..Len(answers)
      <4>1. /\ answers[i] \in DOMAIN graph /\ graph[answers[i]].type = "in"
            /\ graph[answers[i]].location = ufinal /\ Passed(graph[answers[i]].deps)
        BY <3>1 DEF BuilderInv, AnswersOK
      <4>2. PICK c : c = graph[answers[i]].deps
        OBVIOUS
      <4>3. Passed(c)'
        BY <2>9, <4>1, <4>2
      <4>4. PassedAt(Outputs', Level', Leaving', c)
        BY <4>3 DEF Passed
      <4> QED
        BY <2>4, <3>1, <4>1, <4>2, <4>4
    <3>2. CASE i = Len(answers')
      <4> DEFINE c == CurrentOModels(ufinal)
      <4>1. Len(c) = NumUnits - 1 /\ \A j \in 1..(NumUnits - 1) : c[j] = Outputs[j]
        BY <2>8 DEF CurrentOModels, Outputs, OModel
      <4> HIDE DEF c
      <4>2. PassedAt(Outputs, NumUnits - 1, TRUE, c)
        BY <2>8, <4>1 DEF PassedAt
      <4>3. Outputs' = Outputs /\ Level' = NumUnits - 1 /\ Leaving'
        BY <1>3, <2>2
      <4>4. PassedAt(Outputs', Level', Leaving', c)
        BY <4>2, <4>3 DEF PassedAt
      <4> QED
        BY <2>4, <2>7, <3>2, <4>4 DEF c
    <3> QED
      BY <2>4, <3>1, <3>2
  <2> QED
    BY <1>3, <2>3, <2>5, <2>6, <2>10, <2>11 DEF BuilderInv
<1> QED
  BY <1>4, <1>5

LEMMA InitInvariant == ASSUME Init PROVE BuilderInv
<1>1. /\ preds \in EvalGraphs /\ graph = <<>> /\ stack = <<>> /\ ret = NoModel /\ ~asked
      /\ answers = <<>> /\ ~exhausted /\ asked = FALSE /\ exhausted = FALSE
      /\ mbp = [u \in Units |-> [currentmg |-> FALSE, orefcount |-> 0,
                                 imodel |-> NoModel, currentisuccessor |-> NoModel]]
      /\ Len(stack) = 0 /\ Len(answers) = 0 /\ DOMAIN graph = {}
  BY DEF Init
<1>2. EvalGraphOK(preds)
  BY <1>1, PredecessorsBelow
<1>3. /\ \A u \in Units : /\ mbp[u].imodel = NoModel /\ mbp[u].currentisuccessor = NoModel
                          /\ mbp[u].orefcount = 0 /\ mbp[u].currentmg = FALSE
      /\ mbp \in [Units -> ModelBuildingProperties]
  BY <1>1 DEF ModelBuildingProperties, NoModel
<1>4. \A u \in Units : IModel(u) = NoModel /\ OModel(u) = NoModel /\ Idle(u) /\ u \notin Joining
  BY <1>1, <1>3 DEF IModel, OModel, Idle, Joining
<1>5. Level = 0 /\ ~Leaving
  BY <1>1, <1>4, UnitsAreNumbers DEF Level, Leaving
<1>6. TypeOK
  <2>1. graph \in Seq(ModelRecords) /\ stack \in Seq(Frames) /\ answers \in Seq(Nat)
    BY <1>1
  <2> QED
    BY <1>1, <1>3, <2>1 DEF TypeOK, NoModel
<1>7. ModelsOK /\ GeneratorsStartOnce /\ JoinsConsistent
  BY <1>1 DEF ModelsOK, GraphOK, InputsUnique, NoneFreed, GeneratorsStartOnce, JoinsConsistent
<1>8. StackOK /\ CallerOK
  BY <1>1 DEF StackOK, CallerOK
<1>9. UnitsOK
  <2>1. \A u \in Units : UnitOK(u)
    BY <1>3, <1>4 DEF UnitOK
  <2>2. \A u \in Units : ~(u <= 0)
    BY UnitsAreNumbers
  <2> QED
    BY <1>4, <1>5, <2>1, <2>2 DEF UnitsOK
<1>10. InputsCurrent /\ CurrentAtoms
  BY <1>4 DEF InputsCurrent, Fed, CurrentAtoms
<1>11. RefsOK
  <2> SUFFICES ASSUME NEW u \in Units PROVE Cardinality(HoldersIn(preds, HeldBy, u)) = 0
    BY <1>3 DEF RefsOK
  <2> DEFINE held == HeldBy
  <2>1. \A v \in Units : held[v] = 0
    BY <1>4, <1>5 DEF HeldBy, Held
  <2>2. \A v \in Units : \A i \in Units : i <= Len(preds[v]) /\ preds[v][i] = u => ~(i <= held[v])
    BY <2>1, UnitsAreNumbers
  <2> HIDE DEF held
  <2>3. Cardinality(HoldersIn(preds, held, u)) = 0
    BY <1>2, <2>2, CountHolders
  <2> QED
    BY <2>3 DEF held
<1>12. PassedOffered /\ AnswersOK
  <2>1. \A c : ~Passed(c)
    BY <1>5 DEF Passed, PassedAt
  <2> QED
    BY <1>1, <2>1 DEF PassedOffered, AnswersOK
<1> QED
  BY <1>6, <1>7, <1>8, <1>9, <1>10, <1>11, <1>12 DEF BuilderInv

LEMMA StutterInvariant == ASSUME BuilderInv, UNCHANGED vars PROVE BuilderInv'
<1>1. /\ preds' = preds /\ graph' = graph /\ mbp' = mbp /\ stack' = stack /\ ret' = ret
      /\ asked' = asked /\ answers' = answers /\ exhausted' = exhausted
  BY DEF vars
<1>2. TypeOK' /\ StackOK' /\ CallerOK'
  BY <1>1 DEF BuilderInv, TypeOK, StackOK, FinalCall, IModelCall, OModelCall, NestedCall,
              IModel, CallerOK
<1>3. Level' = Level /\ (Leaving' <=> Leaving)
  BY <1>1 DEF Level, Leaving, Advanced, IModel, OModel
<1>4. \A u \in Units : (u \in Running' <=> u \in Running) /\ (u \in Joining' <=> u \in Joining)
  BY <1>1 DEF Running, Joining, Advanced
<1>5. HeldBy' = HeldBy
  BY <1>1, <1>3, <1>4 DEF HeldBy, Held, NestedHeld, IModel
<1> QED
  BY <1>1, <1>2, <1>3, <1>4, <1>5, QuietStep

\* BuilderInv is inductive.
LEMMA NextInvariant == ASSUME BuilderInv, [Next]_vars PROVE BuilderInv'
<1>1. CASE GetNextIModel
  BY <1>1, DummyIModelInvariant, IncrementInvariant, ShareOModelInvariant, FetchOModelInvariant,
     GotOModelInvariant, BacktrackInvariant, NoIModelInvariant, CreateIModelInvariant
     DEF GetNextIModel
<1>2. CASE GetNextOModel
  BY <1>2, GiveUpReferenceInvariant, FirstIModelInvariant, FailWithoutInputInvariant,
     AdvanceOnGraphInvariant, GenerateOModelInvariant, ExhaustGeneratorInvariant,
     AllOModelsUsedInvariant
     DEF GetNextOModel
<1>3. CASE RequestModel
  BY <1>3, RequestModelInvariant
<1>4. CASE ReceiveModel
  BY <1>4, ReceiveModelInvariant
<1>5. CASE UNCHANGED vars
  BY <1>5, StutterInvariant
<1> QED
  BY <1>1, <1>2, <1>3, <1>4, <1>5 DEF Next, Terminated

-------------------------------------------------------------------------------
(***************************************************************************)
(* What follows from the invariant.                                        *)
(***************************************************************************)

LEMMA BuilderInvariant == SafetySpec => []BuilderInv
<1>1. Init => BuilderInv
  BY InitInvariant
<1>2. BuilderInv /\ [Next]_vars => BuilderInv'
  BY NextInvariant
<1> QED
  BY <1>1, <1>2, PTL DEF SafetySpec

\* Every state of the model builder is well-typed.
THEOREM BuilderTypeCorrect == SafetySpec => []TypeOK
<1>1. BuilderInv => TypeOK
  BY DEF BuilderInv
<1> QED
  BY <1>1, BuilderInvariant, PTL

(***************************************************************************)
(* createNextModel starts a generator only for an input model that has no  *)
(* output models, whoever gave up the input model before.                  *)
(***************************************************************************)
THEOREM GeneratorsAreStartedOnce == SafetySpec => []GeneratorsStartOnce
<1>1. BuilderInv => GeneratorsStartOnce
  BY DEF BuilderInv
<1> QED
  BY <1>1, BuilderInvariant, PTL

(***************************************************************************)
(* createIModelFromPredecessorOModels never joins two different models of  *)
(* one unit that reached the joining unit along different paths.           *)
(***************************************************************************)
THEOREM JoinsAreConsistent == SafetySpec => []JoinsConsistent
<1>1. BuilderInv => JoinsConsistent
  BY DEF BuilderInv
<1> QED
  BY <1>1, BuilderInvariant, PTL

\* The active calls, by their number.
LEMMA CallDepth ==
  ASSUME BuilderInv
  PROVE  /\ Len(stack) \in Nat /\ Len(stack) \in {0, 1, 2, 3, 4}
         /\ \A k \in 1..Len(stack) :
              stack[k] \in Frames /\ stack[k].cursor \in Nat /\ stack[k].unit \in Units
         /\ Len(stack) # 0 => /\ stack # <<>> /\ Frame = stack[1]
                              /\ FinalCall(stack[Len(stack)])
                              /\ stack[Len(stack)].fn = "getNextIModel"
                              /\ stack[Len(stack)].unit = ufinal
         /\ Len(stack) = 2 => stack[1].fn = "getNextOModel" /\ OModelCall(stack[1], stack[2])
         /\ Len(stack) = 3 => /\ stack[1].fn = "getNextIModel" /\ stack[2].fn = "getNextOModel"
                              /\ OModelCall(stack[2], stack[3]) /\ NestedCall(stack[1], stack[2])
                              /\ stack[1].pc = "result" => ret = NoModel
         /\ Len(stack) = 4 => /\ stack[1].fn = "getNextOModel" /\ stack[2].fn = "getNextIModel"
                              /\ stack[3].fn = "getNextOModel" /\ stack[4].pc = "result"
<1>1. StackOK /\ stack \in Seq(Frames) /\ Len(stack) \in Nat
  BY DEF BuilderInv, TypeOK
<1>2. \A k \in 1..Len(stack) :
        stack[k] \in Frames /\ stack[k].cursor \in Nat /\ stack[k].unit \in Units
  <2> SUFFICES ASSUME NEW k \in 1..Len(stack)
               PROVE  stack[k] \in Frames /\ stack[k].cursor \in Nat /\ stack[k].unit \in Units
    OBVIOUS
  <2>1. stack[k] \in Frames
    BY <1>1
  <2> QED
    BY <2>1 DEF Frames
<1>3. Len(stack) \in {0, 1, 2, 3, 4}
  BY <1>1 DEF StackOK
<1>4. Len(stack) = 1 => FinalCall(stack[1])
  BY <1>1 DEF StackOK
<1>5. Len(stack) = 2 => FinalCall(stack[2]) /\ OModelCall(stack[1], stack[2])
  BY <1>1 DEF StackOK
<1>6. Len(stack) = 3 => /\ FinalCall(stack[3]) /\ OModelCall(stack[2], stack[3])
                        /\ NestedCall(stack[1], stack[2])
                        /\ stack[1].pc = "result" => ret = NoModel
  BY <1>1 DEF StackOK
<1>7. Len(stack) = 4 => /\ FinalCall(stack[4]) /\ OModelCall(stack[3], stack[4])
                        /\ NestedCall(stack[2], stack[3]) /\ OModelCall(stack[1], stack[2])
  BY <1>1 DEF StackOK
<1>8. \A f : FinalCall(f) => f.fn = "getNextIModel" /\ f.unit = ufinal
  BY DEF FinalCall, IModelCall
<1>10. Len(stack) # 0 => /\ stack # <<>> /\ Frame = stack[1]
                         /\ FinalCall(stack[Len(stack)])
                         /\ stack[Len(stack)].fn = "getNextIModel"
                         /\ stack[Len(stack)].unit = ufinal
  <2>1. Len(stack) # 0 => FinalCall(stack[Len(stack)])
    BY <1>3, <1>4, <1>5, <1>6, <1>7
  <2>2. Len(stack) # 0 => stack # <<>>
    OBVIOUS
  <2> QED
    BY <1>8, <2>1, <2>2 DEF Frame
<1>11. Len(stack) = 2 => stack[1].fn = "getNextOModel" /\ OModelCall(stack[1], stack[2])
  BY <1>5 DEF OModelCall
<1>12. Len(stack) = 3 => /\ stack[1].fn = "getNextIModel" /\ stack[2].fn = "getNextOModel"
                         /\ OModelCall(stack[2], stack[3]) /\ NestedCall(stack[1], stack[2])
                         /\ stack[1].pc = "result" => ret = NoModel
  <2> SUFFICES ASSUME Len(stack) = 3
               PROVE  stack[1].fn = "getNextIModel" /\ stack[2].fn = "getNextOModel"
    BY <1>6
  <2>1. stack[2].fn = "getNextOModel"
    BY <1>6 DEF OModelCall
  <2>2. IModelCall(stack[1])
    BY <1>6 DEF NestedCall
  <2> QED
    BY <2>1, <2>2 DEF IModelCall
<1>13. Len(stack) = 4 => /\ stack[1].fn = "getNextOModel" /\ stack[2].fn = "getNextIModel"
                         /\ stack[3].fn = "getNextOModel" /\ stack[4].pc = "result"
  <2> SUFFICES ASSUME Len(stack) = 4
               PROVE  /\ stack[1].fn = "getNextOModel" /\ stack[2].fn = "getNextIModel"
                      /\ stack[3].fn = "getNextOModel" /\ stack[4].pc = "result"
    OBVIOUS
  <2>1. stack[1].fn = "getNextOModel" /\ stack[3].fn = "getNextOModel" /\ stack[4].pc = "result"
    BY <1>7 DEF OModelCall
  <2>2. IModelCall(stack[2])
    BY <1>7 DEF NestedCall
  <2> QED
    BY <2>1, <2>2 DEF IModelCall
<1> QED
  BY <1>1, <1>2, <1>3, <1>10, <1>11, <1>12, <1>13

\* A unit that is looking for an input model has an active call.
LEMMA JoiningHasFrame ==
  ASSUME BuilderInv, NEW u \in Units
  PROVE  u \in Joining <=> IModelFrames(u) # {}
<1>1. /\ StackOK /\ stack \in Seq(Frames) /\ EvalGraphOK(preds) /\ ufinal \in Units
  BY PredecessorsBelow, UnitsAreNumbers DEF BuilderInv, TypeOK
<1>2. CASE Len(stack) = 0
  BY <1>2 DEF Joining, IModelFrames
<1>3. CASE Len(stack) = 1
  <2>1. FinalCall(stack[1])
    BY <1>1, <1>3 DEF StackOK
  <2> QED
    BY <1>3, <2>1 DEF Joining, IModelFrames, FinalCall, IModelCall
<1>4. CASE Len(stack) = 2
  <2>1. FinalCall(stack[2]) /\ stack[1].fn = "getNextOModel"
    BY <1>1, <1>4 DEF StackOK, OModelCall
  <2> QED
    BY <1>4, <2>1 DEF Joining, IModelFrames, FinalCall, IModelCall
<1>5. CASE Len(stack) = 3
  <2>1. /\ stack # <<>> /\ stack[1].fn = "getNextIModel" /\ Frame = stack[1]
        /\ stack[2].fn = "getNextOModel" /\ FinalCall(stack[3])
    BY <1>5, CallDepth
  <2>2. U = stack[1].unit /\ \A v \in Units : v \in Joining <=> v = ufinal \/ v = U
    BY <1>5, <2>1, IModelActive
  <2> QED
    BY <1>5, <2>1, <2>2 DEF IModelFrames, FinalCall, IModelCall
<1>6. CASE Len(stack) = 4
  <2>1. /\ stack # <<>> /\ stack[1].fn = "getNextOModel" /\ Frame = stack[1]
        /\ stack[2].fn = "getNextIModel" /\ stack[3].fn = "getNextOModel" /\ FinalCall(stack[4])
    BY <1>6, CallDepth
  <2>2. /\ stack[2].unit = Advanced
        /\ \A v \in Units : v \in Joining <=> v = ufinal \/ v = Advanced
    BY <1>6, <2>1, OModelActive
  <2> QED
    BY <1>6, <2>1, <2>2 DEF IModelFrames, FinalCall, IModelCall
<1> QED
  BY <1>1, <1>2, <1>3, <1>4, <1>5, <1>6 DEF StackOK

(***************************************************************************)
(* The models that an input model was joined from stay the current output  *)
(* models of the predecessors: a shared model is never advanced.           *)
(***************************************************************************)
THEOREM InputsStayCurrent == SafetySpec => []InputStaysCurrent
<1>1. BuilderInv => InputStaysCurrent
  <2> SUFFICES ASSUME BuilderInv, NEW u \in Units, mbp[u].imodel # NoModel, IModelFrames(u) = {}
               PROVE  graph[mbp[u].imodel].deps = CurrentOModels(u)
    BY DEF InputStaysCurrent
  <2>1. u \notin Joining
    BY JoiningHasFrame
  <2>2. Fed(u)
    BY <2>1 DEF BuilderInv, InputsCurrent
  <2> QED
    BY <2>2 DEF Fed, IModel
<1> QED
  BY <1>1, BuilderInvariant, PTL

\* The references a unit holds are those that the reference counts count, where
\* getNextOModel is not running.
LEMMA HoldsHeld ==
  ASSUME BuilderInv, NEW u \in Units,
         \A k \in 1..Len(stack) : stack[k].fn = "getNextOModel" => stack[k].unit # u,
         NEW v \in Units, NEW i \in Units, i <= Len(preds[v]), preds[v][i] = u
  PROVE  Holds(v, i) <=> i <= Held(v)
<1>1. /\ StackOK /\ stack \in Seq(Frames) /\ EvalGraphOK(preds) /\ ufinal \in Units
      /\ i \in Nat /\ i >= 1 /\ Len(preds[v]) \in Nat /\ NumUnits \in Nat
  <2>1. StackOK /\ stack \in Seq(Frames) /\ EvalGraphOK(preds)
    BY PredecessorsBelow DEF BuilderInv, TypeOK
  <2>2. ufinal \in Units /\ i \in Nat /\ i >= 1 /\ NumUnits \in Nat
    BY UnitsAreNumbers
  <2>3. preds[v] \in Seq(Units)
    BY <2>1 DEF EvalGraphOK
  <2> QED
    BY <2>1, <2>2, <2>3
<1>2. v = ufinal => i = u /\ i <= NumUnits - 1 /\ Len(preds[v]) = NumUnits - 1
  BY <1>1 DEF EvalGraphOK
<1>3. CASE v \notin Joining
  <2>1. Holds(v, i) <=> IModel(v) # NoModel
    BY <1>3, JoiningHasFrame DEF Holds, IModel
  <2>2. CASE v # ufinal
    BY <1>1, <1>3, <2>1, <2>2 DEF Held
  <2>3. CASE v = ufinal
    <3>1. Len(stack) = 0
      BY <1>1, <1>3, <2>3 DEF StackOK, Joining
    <3>2. Held(v) = IF IModel(ufinal) # NoModel THEN NumUnits - 1 ELSE 0
      BY <2>3, <3>1 DEF Held, Level
    <3> QED
      BY <1>1, <1>2, <2>1, <2>3, <3>2
  <2> QED
    BY <2>2, <2>3
<1>4. CASE v = ufinal /\ Len(stack) = 1
  <2>1. /\ FinalCall(stack[1]) /\ stack[1] \in Frames /\ stack[1].cursor \in Nat
        /\ IModelFrames(v) = {1}
    <3>1. /\ FinalCall(stack[1]) /\ stack[1] \in Frames /\ stack[1].cursor \in Nat
          /\ stack[1].fn = "getNextIModel" /\ stack[1].unit = ufinal
      BY <1>4, CallDepth
    <3> QED
      BY <1>4, <3>1 DEF IModelFrames
  <2>2. stack[1].pc \in {"fill", "increment", "result"}
    <3>1. preds[ufinal] # <<>>
      BY <1>1, <1>4, EmptySeq
    <3> QED
      BY <2>1, <3>1 DEF FinalCall, IModelCall
  <2>3. Held(v) = IF stack[1].pc = "increment" \/ (stack[1].pc = "result" /\ ret # NoModel)
                  THEN stack[1].cursor ELSE stack[1].cursor - 1
    BY <1>4, <2>2 DEF Held, Level
  <2>4. Holds(v, i) <=> \/ i < stack[1].cursor
                        \/ i = stack[1].cursor /\ stack[1].pc = "increment"
                        \/ i = stack[1].cursor /\ stack[1].pc = "result" /\ ret # NoModel
    BY <2>1 DEF Holds
  <2> QED
    BY <1>1, <2>1, <2>2, <2>3, <2>4
<1>5. CASE v = ufinal /\ Len(stack) = 2
  <2>1. /\ stack # <<>> /\ stack[1].fn = "getNextOModel" /\ Frame = stack[1] /\ FinalCall(stack[2])
        /\ stack[2] \in Frames /\ stack[2].cursor \in Nat /\ 1 \in 1..Len(stack)
    BY <1>5, CallDepth
  <2>2. /\ stack[2].pc = "result" /\ U = stack[1].unit /\ U = stack[2].cursor
        /\ Level = U \/ Level = U - 1
    BY <1>5, <2>1, OModelActive
  <2>3. IModelFrames(v) = {2}
    BY <1>5, <2>1 DEF IModelFrames, FinalCall, IModelCall
  <2>4. Holds(v, i) <=> i < stack[2].cursor
    BY <2>2, <2>3 DEF Holds
  <2>5. i # U
    BY <1>2, <1>5, <2>1, <2>2
  <2> QED
    BY <1>1, <1>5, <2>1, <2>2, <2>4, <2>5 DEF Held
<1>6. CASE Len(stack) = 3 /\ (v = ufinal \/ v = Advanced)
  <2>1. /\ stack # <<>> /\ stack[1].fn = "getNextIModel" /\ Frame = stack[1]
        /\ stack[1] \in Frames /\ stack[3] \in Frames
        /\ stack[1].cursor \in Nat /\ stack[3].cursor \in Nat
        /\ stack[2].fn = "getNextOModel" /\ FinalCall(stack[3])
        /\ stack[3].fn = "getNextIModel" /\ stack[3].unit = ufinal
        /\ stack[1].pc = "result" => ret = NoModel
    BY <1>6, CallDepth
  <2>2. /\ U = stack[1].unit /\ U = Advanced /\ U = stack[3].cursor /\ stack[3].pc = "result"
        /\ U < ufinal /\ Level = U - 1 /\ U \in Units /\ IModelCall(stack[1])
    BY <1>6, <2>1, IModelActive
  <2>3. CASE v = ufinal
    <3>1. IModelFrames(v) = {3}
      <4>1. stack[1].unit # v
        BY <2>2, <2>3, UnitsAreNumbers
      <4> QED
        BY <1>6, <2>1, <2>3, <4>1 DEF IModelFrames
    <3>2. Holds(v, i) <=> i < stack[3].cursor
      BY <2>2, <3>1 DEF Holds
    <3> QED
      BY <1>1, <2>1, <2>2, <2>3, <3>2 DEF Held
  <2>4. CASE v = U
    <3>1. IModelFrames(v) = {1} /\ v # ufinal
      <4>1. stack[1].unit = v /\ v # ufinal
        BY <2>2, <2>4, UnitsAreNumbers
      <4> QED
        BY <1>6, <2>1, <4>1 DEF IModelFrames
    <3>2. Holds(v, i) <=> \/ i < stack[1].cursor
                          \/ i = stack[1].cursor /\ stack[1].pc = "increment"
      BY <2>1, <3>1 DEF Holds
    <3>3. v \in Joining
      BY <3>1, JoiningHasFrame
    <3>4. Held(v) = NestedHeld
      BY <3>1, <3>3 DEF Held
    <3>5. stack[1].pc \in {"fill", "increment", "result"}
      <4>1. preds[U] # <<>>
        BY <1>1, <2>4, EmptySeq
      <4> QED
        BY <2>2, <4>1 DEF IModelCall
    <3>6. NestedHeld = IF stack[1].pc = "increment" THEN stack[1].cursor ELSE stack[1].cursor - 1
      BY <1>6, <3>5 DEF NestedHeld
    <3> QED
      BY <1>1, <2>1, <3>2, <3>4, <3>5, <3>6
  <2> QED
    BY <1>6, <2>2, <2>3, <2>4
<1>7. CASE Len(stack) = 4 /\ (v = ufinal \/ v = Advanced)
  <2>1. /\ stack # <<>> /\ stack[1].fn = "getNextOModel" /\ Frame = stack[1]
        /\ stack[2] \in Frames /\ stack[4] \in Frames
        /\ stack[2].cursor \in Nat /\ stack[4].cursor \in Nat
        /\ stack[2].fn = "getNextIModel" /\ stack[3].fn = "getNextOModel" /\ FinalCall(stack[4])
        /\ stack[4].fn = "getNextIModel" /\ stack[4].unit = ufinal
        /\ stack[4].pc = "result" /\ 1 \in 1..Len(stack)
    BY <1>7, CallDepth
  <2>2. /\ U = stack[1].unit /\ stack[2].unit = Advanced /\ Advanced = stack[4].cursor
        /\ Advanced < ufinal /\ Advanced \in Units /\ Level = Advanced - 1
        /\ stack[2].pc = "result" /\ U = preds[Advanced][stack[2].cursor]
    BY <1>7, <2>1, OModelActive
  <2>3. CASE v = ufinal
    <3>1. IModelFrames(v) = {4}
      <4>1. stack[2].unit # v
        BY <2>2, <2>3, UnitsAreNumbers
      <4> QED
        BY <1>7, <2>1, <2>3, <4>1 DEF IModelFrames
    <3>2. Holds(v, i) <=> i < stack[4].cursor
      BY <2>1, <3>1 DEF Holds
    <3> QED
      BY <1>1, <2>1, <2>2, <2>3, <3>2 DEF Held
  <2>4. CASE v = Advanced
    <3>1. IModelFrames(v) = {2} /\ v # ufinal
      <4>1. stack[2].unit = v /\ v # ufinal
        BY <2>2, <2>4, UnitsAreNumbers
      <4> QED
        BY <1>7, <2>1, <4>1 DEF IModelFrames
    <3>2. Holds(v, i) <=> i < stack[2].cursor
      BY <2>2, <3>1 DEF Holds
    <3>3. v \in Joining
      BY <3>1, JoiningHasFrame
    <3>4. Held(v) = stack[2].cursor
      BY <1>7, <3>1, <3>3 DEF Held, NestedHeld
    <3>5. i # stack[2].cursor
      BY <1>7, <2>1, <2>2, <2>4
    <3> QED
      BY <1>1, <2>1, <3>2, <3>4, <3>5
  <2> QED
    BY <1>7, <2>3, <2>4
<1> QED
  BY <1>1, <1>3, <1>4, <1>5, <1>6, <1>7 DEF StackOK, Joining

(***************************************************************************)
(* orefcount of a unit is the number of references that its successors     *)
(* hold, whoever shares, advances and gives up its models.                 *)
(***************************************************************************)
THEOREM RefcountsAreExact == SafetySpec => []RefcountsExact
<1>1. BuilderInv => RefcountsExact
  <2> SUFFICES ASSUME BuilderInv, NEW u \in Units,
                      \A k \in 1..Len(stack) : stack[k].fn = "getNextOModel" => stack[k].unit # u
               PROVE  mbp[u].orefcount = Cardinality(Holders(u))
    BY DEF RefcountsExact
  <2>1. ASSUME NEW v \in Units, NEW i \in Units, i <= Len(preds[v]), preds[v][i] = u
        PROVE  Holds(v, i) <=> i <= HeldBy[v]
    <3>1. Holds(v, i) <=> i <= Held(v)
      BY <2>1, HoldsHeld
    <3> QED
      BY <3>1 DEF HeldBy
  <2>2. Units = 1..NumUnits
    BY DEF Units
  <2>3. \A h \in Units \X Units : h \in Holders(u) <=> h \in HoldersIn(preds, HeldBy, u)
    <3> SUFFICES ASSUME NEW h \in Units \X Units
                 PROVE  h \in Holders(u) <=> h \in HoldersIn(preds, HeldBy, u)
      OBVIOUS
    <3>1. h[1] \in Units /\ h[2] \in Units
      OBVIOUS
    <3> DEFINE held == HeldBy
    <3>2. h[2] <= Len(preds[h[1]]) /\ preds[h[1]][h[2]] = u => (Holds(h[1], h[2]) <=> h[2] <= held[h[1]])
      BY <2>1, <3>1
    <3> HIDE DEF held
    <3>3. h \in Holders(u) <=> h \in HoldersIn(preds, held, u)
      BY <2>2, <3>2 DEF Holders, HoldersIn
    <3> QED
      BY <3>3 DEF held
  <2>4. Holders(u) \subseteq Units \X Units /\ HoldersIn(preds, HeldBy, u) \subseteq Units \X Units
    BY <2>2 DEF Holders, HoldersIn
  <2>5. Holders(u) = HoldersIn(preds, HeldBy, u)
    BY <2>3, <2>4
  <2> QED
    BY <2>5 DEF BuilderInv, RefsOK
<1> QED
  BY <1>1, BuilderInvariant, PTL

-------------------------------------------------------------------------------
(***************************************************************************)
(* The assertions.                                                         *)
(***************************************************************************)

LEMMA NoInputUnderGenerator == BuilderInv => AssertSetIModel
<1> SUFFICES ASSUME BuilderInv, stack # <<>>, Frame.fn = "getNextIModel" PROVE ~mbp[U].currentmg
  BY DEF AssertSetIModel, IsActive, Frame
<1> QED
  BY JoiningIsIdle DEF Idle

LEMMA CursorHasOModel == BuilderInv => AssertCursorHasOModel
<1> SUFFICES ASSUME BuilderInv PROVE AssertCursorHasOModel
  OBVIOUS
<1> DEFINE f == Frame
           p == CursorUnit
           held == HeldBy
<1>1. ASSUME stack # <<>>, f.fn = "getNextIModel", f.pc \in {"increment", "result"}
      PROVE  /\ f = stack[1] /\ U \in Units /\ f.cursor \in 1..Len(preds[U]) /\ f.cursor \in Units
             /\ p = preds[U][f.cursor] /\ p \in Units /\ p < U /\ EvalGraphOK(preds)
             /\ (Len(stack) = 1 /\ U = ufinal) \/ Len(stack) = 3
             /\ U = ufinal => p = f.cursor
             /\ Len(stack) = 3 => U < ufinal /\ U \in Joining
             /\ mbp[p].orefcount = Cardinality(HoldersIn(preds, held, p))
             /\ \A u \in Units : u \in Running => Len(stack) = 3
             /\ \A u \in Units : u \in Joining => u = ufinal \/ Len(stack) = 3
  <2>1. /\ f = stack[1] /\ IModelCall(f) /\ U = f.unit /\ U \in Units /\ EvalGraphOK(preds)
        /\ (Len(stack) = 1 /\ U = ufinal) \/ Len(stack) = 3
        /\ Len(stack) = 3 => U < ufinal /\ U \in Joining
        /\ \A u \in Units : u \in Running => Len(stack) = 3
        /\ \A u \in Units : u \in Joining => u = ufinal \/ Len(stack) = 3
    <3>1. f = stack[1] /\ IModelCall(f) /\ U = f.unit /\ U \in Units /\ EvalGraphOK(preds)
      BY <1>1, IModelActive
    <3>2. \/ /\ Len(stack) = 1 /\ U = ufinal
             /\ \A u \in Units : (u \in Joining <=> u = ufinal) /\ u \notin Running
          \/ Len(stack) = 3 /\ U < ufinal /\ \A u \in Units : u \in Joining <=> u = ufinal \/ u = U
      BY <1>1, IModelActive
    <3>3. CASE /\ Len(stack) = 1 /\ U = ufinal
               /\ \A u \in Units : (u \in Joining <=> u = ufinal) /\ u \notin Running
      BY <3>1, <3>3
    <3>4. CASE Len(stack) = 3 /\ U < ufinal /\ \A u \in Units : u \in Joining <=> u = ufinal \/ u = U
      BY <3>1, <3>4
    <3> QED
      BY <3>2, <3>3, <3>4
  <2>2. f.cursor \in 1..Len(preds[U]) /\ p = preds[U][f.cursor]
    BY <1>1, <2>1 DEF IModelCall, CursorUnit
  <2>3. p \in Units /\ p < U
    BY <2>1, <2>2 DEF EvalGraphOK
  <2>4. f.cursor \in Units
    <3>1. Len(preds[U]) \in Nat /\ Len(preds[U]) <= NumUnits
      BY <2>1, FewPredecessors
    <3>2. f.cursor \in Nat /\ 1 <= f.cursor /\ f.cursor <= NumUnits
      BY <2>2, <3>1, UnitsAreNumbers
    <3> QED
      BY <3>2, UnitsAreNumbers
  <2>5. U = ufinal => p = f.cursor
    BY <2>1, <2>2 DEF EvalGraphOK
  <2>6. mbp[p].orefcount = Cardinality(HoldersIn(preds, held, p))
    BY <2>3 DEF BuilderInv, RefsOK
  <2> QED
    BY <2>1, <2>2, <2>3, <2>4, <2>5, <2>6
<1>2. ASSUME stack # <<>>, f.fn = "getNextIModel", f.pc = "increment"
      PROVE  OModel(p) # NoModel /\ mbp[p].orefcount >= 1
  <2>1. OModel(p) # NoModel
    <3>1. CASE Len(stack) = 1
      <4>1. Level = f.cursor /\ p = f.cursor
        BY <1>1, <1>2, <3>1 DEF Level
      <4>2. p \in Units /\ p <= Level
        BY <1>1, <1>2, <4>1, UnitsAreNumbers
      <4> QED
        BY <4>2 DEF BuilderInv, UnitsOK
    <3>2. CASE Len(stack) = 3
      BY <1>1, <1>2, <3>2, NestedSeesOModels
    <3> QED
      BY <1>1, <1>2, <3>1, <3>2
  <2>2. f.cursor <= held[U]
    <3>1. CASE Len(stack) = 1
      <4>1. Level = f.cursor /\ U = ufinal /\ U \in Units /\ f.cursor \in Nat
        BY <1>1, <1>2, <3>1 DEF Level
      <4> QED
        BY <4>1 DEF HeldBy, Held
    <3>2. CASE Len(stack) = 3
      <4>1. NestedHeld = f.cursor /\ U # ufinal /\ U \in Joining /\ U \in Units /\ f.cursor \in Nat
        BY <1>1, <1>2, <3>2, UnitsAreNumbers DEF NestedHeld
      <4> QED
        BY <4>1 DEF HeldBy, Held
    <3> QED
      BY <1>1, <1>2, <3>1, <3>2
  <2> HIDE DEF held
  <2>3. f.cursor \in 1..Len(preds[U]) /\ p = preds[U][f.cursor] /\ EvalGraphOK(preds) /\ U \in Units
    BY <1>1, <1>2
  <2>4. Cardinality(HoldersIn(preds, held, p)) >= 1
    BY <2>2, <2>3, CountHolders
  <2> QED
    BY <1>1, <1>2, <2>1, <2>4
<1>3. ASSUME stack # <<>>, f.fn = "getNextIModel", f.pc = "result", ret # NoModel
      PROVE  OModel(p) # NoModel /\ mbp[p].orefcount = 1
  <2>1. Len(stack) = 1
    BY <1>1, <1>3, CallDepth
  <2>2. Level = f.cursor /\ p = f.cursor /\ U = ufinal /\ U \in Units /\ p \in Units /\ p \in Nat
    BY <1>1, <1>3, <2>1, UnitsAreNumbers DEF Level
  <2>3. OModel(p) # NoModel
    BY <2>2 DEF BuilderInv, UnitsOK
  <2>4. held[ufinal] = p
    BY <2>2 DEF HeldBy, Held
  <2>5. \A v \in Units : v # ufinal /\ v > p => held[v] = 0
    <3> SUFFICES ASSUME NEW v \in Units, v # ufinal, v > p PROVE Held(v) = 0
      BY DEF HeldBy
    <3>1. v \notin Joining /\ v \notin Running
      BY <1>1, <1>3, <2>1
    <3>2. IModel(v) = NoModel
      BY <2>2, <3>1 DEF BuilderInv, UnitsOK
    <3> QED
      BY <3>1, <3>2 DEF Held
  <2> DEFINE x == <<ufinal, p>>
  <2> HIDE DEF held
  <2>6. \A y \in Units \X Units : y \in HoldersIn(preds, held, p) <=> y = x
    <3> SUFFICES ASSUME NEW v \in Units, NEW i \in Units
                 PROVE  <<v, i>> \in HoldersIn(preds, held, p) <=> v = ufinal /\ i = p
      OBVIOUS
    <3>1. <<v, i>> \in HoldersIn(preds, held, p)
            <=> i <= Len(preds[v]) /\ preds[v][i] = p /\ i <= held[v]
      BY DEF HoldersIn
    <3>2. EvalGraphOK(preds) /\ i \in Nat /\ i >= 1 /\ NumUnits \in Nat
      BY <1>1, <1>3, UnitsAreNumbers
    <3>3. CASE v = ufinal
      <4>1. Len(preds[ufinal]) = NumUnits - 1 /\ \A k \in 1..(NumUnits - 1) : preds[ufinal][k] = k
        BY <3>2 DEF EvalGraphOK
      <4>2. p \in 1..(NumUnits - 1)
        BY <1>1, <1>3, <2>2, <4>1
      <4> QED
        BY <2>2, <2>4, <3>1, <3>2, <3>3, <4>1, <4>2
    <3>4. CASE v # ufinal
      <4>1. i <= Len(preds[v]) /\ preds[v][i] = p => v > p
        <5>1. \A k \in 1..Len(preds[v]) : preds[v][k] < v
          BY <3>2 DEF EvalGraphOK
        <5>2. Len(preds[v]) \in Nat /\ v \in Nat
          BY <3>2, FewPredecessors, UnitsAreNumbers
        <5> QED
          BY <2>2, <3>2, <5>1, <5>2
      <4> QED
        BY <2>5, <3>1, <3>2, <3>4, <4>1
    <3> QED
      BY <3>3, <3>4
  <2>7. x \in Units \X Units
    BY <2>2
  <2> HIDE DEF x
  <2>8. Cardinality(HoldersIn(preds, held, p)) = 1
    BY <2>6, <2>7, OneHolder
  <2> QED
    BY <1>1, <1>3, <2>3, <2>8
<1> QED
  BY <1>2, <1>3 DEF AssertCursorHasOModel, IsActive, HasOModel, OModel, Frame

LEMMA InputsAvailable == ASSUME ~ConstantSpace PROVE BuilderInv => AssertInputsAvailable
<1> SUFFICES ASSUME BuilderInv, stack # <<>>, Frame.fn = "getNextIModel", Frame.pc = "fill",
                    Frame.cursor > Len(preds[U]), NEW i \in 1..Len(preds[U])
             PROVE  /\ HasOModel(preds[U][i])
                    /\ ~graph[mbp[preds[U][i]].currentisuccessor].isNull
  BY DEF AssertInputsAvailable, IsActive, Frame
<1>1. /\ OModel(preds[U][i]) # NoModel /\ CurrentOModels(U)[i] = OModel(preds[U][i])
      /\ CurrentOModels(U)[i] \in 1..Len(graph) /\ graph[CurrentOModels(U)[i]].type = "out"
  BY JoinedModels
<1>2. NoneFreed(graph) /\ DOMAIN graph = 1..Len(graph)
  BY DEF BuilderInv, TypeOK, ModelsOK
<1> QED
  BY <1>1, <1>2 DEF NoneFreed, HasOModel, OModel

LEMMA OneSuccessor == BuilderInv => AssertOneSuccessor
<1> SUFFICES ASSUME BuilderInv, stack # <<>>, Frame.fn = "getNextIModel", Frame.pc = "fill",
                    Frame.cursor > Len(preds[U]), RedundancyElimination
             PROVE  Cardinality(CommonSuccessors(graph, U, CurrentOModels(U))) <= 1
  BY DEF AssertOneSuccessor, IsActive, Frame
<1> DEFINE S == CommonSuccessors(graph, U, CurrentOModels(U))
<1>1. \A s : s \in S <=> /\ s \in DOMAIN graph /\ graph[s].type = "in" /\ graph[s].location = U
                         /\ graph[s].deps = CurrentOModels(U)
  BY ReusedIModel
<1>2. InputsUnique(graph)
  BY DEF BuilderInv, ModelsOK
<1> HIDE DEF S
<1>3. \A s, t \in S : s = t
  BY <1>1, <1>2 DEF InputsUnique
<1>4. S = {} \/ \E s : S = {s}
  BY <1>3
<1>5. Cardinality(S) <= 1
  <2>1. CASE S = {}
    BY <2>1, FS_EmptySet
  <2>2. CASE \E s : S = {s}
    <3>1. PICK s : S = {s}
      BY <2>2
    <3>2. Cardinality(S) = 1
      BY <3>1, FS_Singleton
    <3> QED
      BY <3>2
  <2> QED
    BY <1>4, <2>1, <2>2
<1> QED
  BY <1>5 DEF S

LEMMA References == BuilderInv => AssertReferences
<1> SUFFICES ASSUME BuilderInv PROVE AssertReferences
  OBVIOUS
<1>1. IsAdvancing => mbp[U].orefcount = IF HasOModel(U) THEN 1 ELSE 0
  BY AdvancingActive DEF HasOModel, OModel
<1>2. ASSUME stack # <<>>, Frame.fn = "getNextOModel",
             Frame.pc = "loop" \/ (Frame.pc = "entry" /\ IModel(U) = NoModel)
      PROVE  OModel(U) = NoModel /\ mbp[U].orefcount = 0
  <2>1. U \in Units /\ UnitOK(U) /\ EvalGraphOK(preds)
    BY <1>2, OModelActive DEF BuilderInv, UnitsOK
  <2>2. CASE Len(stack) = 2
    <3>1. Level = U - 1
      BY <1>2, <2>1, <2>2, OModelActive DEF UnitOK
    <3>2. U > Level
      BY <2>1, <3>1, UnitsAreNumbers
    <3> QED
      BY <2>1, <3>2 DEF BuilderInv, UnitsOK, Idle
  <2>3. CASE Len(stack) = 4
    <3>1. /\ U < Advanced /\ Advanced \in Units /\ Level = Advanced - 1 /\ Frame.pc = "entry"
      BY <1>2, <2>3, OModelActive
    <3>2. U <= Level
      BY <2>1, <3>1, UnitsAreNumbers
    <3>3. OModel(U) # NoModel
      BY <2>1, <3>2 DEF BuilderInv, UnitsOK
    <3> QED
      BY <1>2, <2>1, <3>1, <3>3 DEF UnitOK
  <2> QED
    BY <1>2, <2>2, <2>3, OModelActive
<1> QED
  BY <1>1, <1>2 DEF AssertReferences, IsActive, HasOModel, OModel, IModel, Frame

(***************************************************************************)
(* The assertions of setIModel, ensureModelIncrement, getNextOModel,       *)
(* advanceOModelForIModel, createNextModel and getSuccessorIntersection    *)
(* hold in every configuration.                                            *)
(***************************************************************************)
THEOREM AlwaysAsserted ==
  SafetySpec => [](AssertSetIModel /\ AssertCursorHasOModel /\ AssertOneSuccessor /\ AssertReferences)
<1>1. BuilderInv => AssertSetIModel /\ AssertCursorHasOModel /\ AssertOneSuccessor /\ AssertReferences
  BY NoInputUnderGenerator, CursorHasOModel, OneSuccessor, References
<1> QED
  BY <1>1, BuilderInvariant, PTL

(***************************************************************************)
(* No assertion of the model builder fails when models are not freed.      *)
(* With constant space, createIModelFromPredecessorOModels can find a      *)
(* freed model: the other assertions hold all the same (AlwaysAsserted).   *)
(***************************************************************************)
THEOREM AssertionsAlwaysHold ==
  ASSUME ~ConstantSpace PROVE SafetySpec => []AssertionsHold
<1>1. BuilderInv => AssertionsHold
  BY NoInputUnderGenerator, CursorHasOModel, InputsAvailable, OneSuccessor, References
     DEF AssertionsHold
<1> QED
  BY <1>1, BuilderInvariant, PTL

-------------------------------------------------------------------------------
(***************************************************************************)
(* The enumeration.                                                        *)
(***************************************************************************)

\* A model is among its own atoms, and the atoms of those that its input model was
\* joined from are among them.
OModelAtoms(pr, g, o, deps) ==
  /\ o \in g[o].interpretation
  /\ deps \in Seq(Nat) /\ Len(deps) = Len(pr[g[o].location])
  /\ \A j \in 1..Len(deps) : /\ deps[j] \in DOMAIN g
                             /\ g[deps[j]].location = pr[g[o].location][j]
                             /\ deps[j] \in g[o].interpretation

LEMMA AtomsOfOModel ==
  ASSUME NEW pr, EvalGraphOK(pr), NEW g \in Seq(ModelRecords), GraphOK(pr, g),
         NEW o \in DOMAIN g, g[o].type = "out"
  PROVE  OModelAtoms(pr, g, o, g[g[o].deps[1]].deps)
<1> DEFINE deps == g[g[o].deps[1]].deps
<1> DEFINE input == g[o].deps[1]
           u == g[o].location
<1>1. /\ input \in 1..(o - 1) /\ g[input].type = "in" /\ g[input].location = u
      /\ g[o].interpretation = g[input].interpretation \cup {o}
  BY DEF GraphOK, OutModelOK
<1>2. input \in DOMAIN g
  BY <1>1, GraphType
<1>3. InModelOK(pr, g, input)
  BY <1>1, <1>2 DEF GraphOK
<1>4. g[input].deps \in Seq(Nat) /\ DOMAIN g[input].deps = 1..Len(g[input].deps)
  BY <1>2, GraphType
<1>5. deps = g[input].deps
  OBVIOUS
<1> HIDE DEF input, u, deps
<1>6. /\ Len(deps) = Len(pr[u]) /\ g[input].interpretation = Join(g, deps)
      /\ \A j \in 1..Len(deps) : /\ deps[j] \in 1..(input - 1) /\ g[deps[j]].type = "out"
                                 /\ g[deps[j]].location = pr[u][j]
  BY <1>1, <1>3, <1>5 DEF InModelOK
<1>7. ASSUME NEW j \in 1..Len(deps)
      PROVE  deps[j] \in DOMAIN g /\ deps[j] \in g[o].interpretation
  <2>1. deps[j] \in DOMAIN g
    <3>1. DOMAIN g = 1..Len(g) /\ Len(g) \in Nat
      OBVIOUS
    <3>2. deps[j] \in 1..(input - 1) /\ input \in 1..Len(g)
      BY <1>2, <1>6, <3>1
    <3>3. deps[j] \in 1..Len(g)
      BY <3>1, <3>2
    <3> QED
      BY <3>1, <3>3
  <2>2. deps[j] \in g[deps[j]].interpretation
    <3>1. g[deps[j]].type # "in"
      BY <1>6
    <3>2. OutModelOK(g, deps[j])
      BY <2>1, <3>1 DEF GraphOK
    <3> QED
      BY <3>2 DEF OutModelOK
  <2>3. deps[j] \in Range(deps)
    BY <1>4, <1>5 DEF Range
  <2>4. deps[j] \in Join(g, deps)
    BY <2>2, <2>3 DEF Join
  <2> QED
    BY <1>1, <1>6, <2>1, <2>4
<1> QED
  <2>1. OModelAtoms(pr, g, o, deps)
    BY <1>1, <1>4, <1>5, <1>6, <1>7 DEF u, OModelAtoms
  <2> QED
    BY <2>1 DEF deps

\* Models of the first units whose atoms are consistent were each computed from the
\* others.
LEMMA ConsistentCombination ==
  ASSUME NEW pr, EvalGraphOK(pr), NEW g \in Seq(ModelRecords), GraphOK(pr, g),
         NEW c \in Seq(Nat), Len(c) < NumUnits,
         \A i \in 1..Len(c) : c[i] \in DOMAIN g /\ g[c[i]].type = "out" /\ g[c[i]].location = i,
         Consistent(g, Join(g, c))
  PROVE  Combination(pr, g, c)
<1> SUFFICES ASSUME NEW i \in 1..Len(c)
             PROVE  g[g[c[i]].deps[1]].deps = Projection(pr, c, i)
  BY DEF Combination
<1>1. PICK deps : deps = g[g[c[i]].deps[1]].deps
  OBVIOUS
<1>2. /\ c[i] \in g[c[i]].interpretation
      /\ deps \in Seq(Nat) /\ Len(deps) = Len(pr[i])
      /\ \A j \in 1..Len(deps) : /\ g[deps[j]].location = pr[i][j]
                                 /\ deps[j] \in g[c[i]].interpretation
  <2>1. PICK o : o = c[i]
    OBVIOUS
  <2>2. /\ EvalGraphOK(pr) /\ g \in Seq(ModelRecords) /\ GraphOK(pr, g)
        /\ o \in DOMAIN g /\ g[o].type = "out" /\ g[o].location = i
        /\ deps = g[g[o].deps[1]].deps
    BY <1>1, <2>1
  <2>3. OModelAtoms(pr, g, o, g[g[o].deps[1]].deps)
    BY <2>2, AtomsOfOModel
  <2> QED
    BY <2>1, <2>2, <2>3 DEF OModelAtoms
<1>3. ASSUME NEW k \in 1..Len(c), NEW a \in g[c[k]].interpretation PROVE a \in Join(g, c)
  <2>1. c[k] \in Range(c)
    BY DEF Range
  <2> QED
    BY <2>1 DEF Join
<1>4. ASSUME NEW j \in 1..Len(pr[i]) PROVE deps[j] = c[pr[i][j]]
  <2>1. i \in Units /\ i \in Nat /\ Len(c) \in Nat
    <3>1. Len(c) \in Nat
      OBVIOUS
    <3>2. i \in Nat /\ 1 <= i /\ i <= Len(c)
      BY <3>1
    <3>3. NumUnits \in Nat /\ Len(c) < NumUnits
      BY UnitsAreNumbers
    <3>4. i <= NumUnits
      BY <3>1, <3>2, <3>3
    <3> QED
      BY <3>1, <3>2, <3>4, UnitsAreNumbers
  <2>2. pr[i][j] \in Units /\ pr[i][j] < i
    BY <2>1 DEF EvalGraphOK
  <2>3. PICK p \in 1..Len(c) : p = pr[i][j]
    BY <2>1, <2>2, UnitsAreNumbers, SMTT(20)
  <2>4. c[p] \in g[c[p]].interpretation /\ g[c[p]].location = p
    <3>1. c[p] \in DOMAIN g /\ g[c[p]].type = "out" /\ g[c[p]].location = p
      OBVIOUS
    <3>2. OModelAtoms(pr, g, c[p], g[g[c[p]].deps[1]].deps)
      BY <3>1, AtomsOfOModel
    <3> QED
      BY <3>1, <3>2 DEF OModelAtoms
  <2>5. deps[j] \in Join(g, c) /\ c[p] \in Join(g, c)
    BY <1>2, <1>3, <2>4
  <2>6. g[deps[j]].location = g[c[p]].location
    BY <1>2, <2>3, <2>4
  <2> QED
    BY <2>3, <2>5, <2>6 DEF Consistent
<1>5. deps = Projection(pr, c, i)
  BY <1>2, <1>4, SMTT(20) DEF Projection
<1> QED
  BY <1>1, <1>5

\* The combinations of one unit more.
Extended(g, combinations, k) ==
  {c \in {Append(d, m) : d \in combinations, m \in ModelsAt(g, k, "out")} : Consistent(g, Join(g, c))}

UpTo(g, n, f) ==
  f = [k \in 0..n |-> IF k = 0 THEN {<<>>} ELSE Extended(g, f[k - 1], k)]

LEMMA CombinationsExist == ASSUME NEW g PROVE \A n \in Nat : \E f : UpTo(g, n, f)
<1> DEFINE S == {n \in Nat : ~\E f : UpTo(g, n, f)}
<1> SUFFICES S = {}
  OBVIOUS
<1> SUFFICES ASSUME S # {} PROVE FALSE
  OBVIOUS
<1>1. PICK n \in S : \A k \in S : ~(<<k, n>> \in OpToRel(<, Nat))
  BY NatLessThanWellFounded, WFMin, Zenon
<1>2. n \in Nat /\ \A k \in S : ~(k < n)
  BY <1>1 DEF OpToRel
<1>3. CASE n = 0
  <2> DEFINE f == [k \in 0..n |-> {<<>>}]
  <2>1. f = [k \in 0..n |-> IF k = 0 THEN {<<>>} ELSE Extended(g, f[k - 1], k)]
    <3>1. \A k \in 0..n : k = 0
      BY <1>3
    <3> QED
      BY <3>1
  <2>2. UpTo(g, n, f)
    BY <2>1 DEF UpTo
  <2> QED
    BY <2>2
<1>4. CASE n # 0
  <2>1. n - 1 \in Nat /\ n - 1 < n
    BY <1>2, <1>4
  <2>2. PICK h : UpTo(g, n - 1, h)
    BY <1>2, <2>1
  <2> DEFINE f == [k \in 0..n |-> IF k = n THEN Extended(g, h[n - 1], n) ELSE h[k]]
             step(k) == IF k = 0 THEN {<<>>} ELSE Extended(g, f[k - 1], k)
  <2>3. \A k \in 0..(n - 1) : h[k] = IF k = 0 THEN {<<>>} ELSE Extended(g, h[k - 1], k)
    BY <2>2 DEF UpTo
  <2>4. ASSUME NEW k \in 0..n PROVE f[k] = step(k)
    <3>1. CASE k = n
      <4>1. n - 1 \in 0..n /\ n - 1 # n
        BY <1>2, <1>4
      <4>2. f[n - 1] = h[n - 1]
        BY <4>1
      <4> QED
        BY <1>4, <3>1, <4>2
    <3>2. CASE k # n /\ k = 0
      <4>1. 0 \in 0..(n - 1)
        BY <2>1
      <4> QED
        BY <2>3, <3>2, <4>1
    <3>3. CASE k # n /\ k # 0
      <4>1. k \in 0..(n - 1) /\ k - 1 \in 0..n /\ k - 1 # n
        BY <1>2, <3>3
      <4>2. f[k - 1] = h[k - 1] /\ f[k] = h[k]
        BY <3>3, <4>1
      <4> QED
        BY <2>3, <3>3, <4>1, <4>2
    <3> QED
      BY <3>1, <3>2, <3>3
  <2>5. f = [k \in 0..n |-> step(k)]
    <3>1. f = [k \in 0..n |-> f[k]]
      OBVIOUS
    <3> HIDE DEF f
    <3> QED
      BY <2>4, <3>1
  <2>6. UpTo(g, n, f)
    BY <2>5 DEF UpTo
  <2> QED
    BY <2>6
<1> QED
  BY <1>3, <1>4

LEMMA CombinationsUnfold ==
  \A k \in 0..NumUnits :
    Combinations[k] = IF k = 0 THEN {<<>>} ELSE Extended(graph, Combinations[k - 1], k)
<1>1. Combinations = CHOOSE f : UpTo(graph, NumUnits, f)
  BY DEF Combinations, UpTo, Extended
<1>2. \E f : UpTo(graph, NumUnits, f)
  BY UnitsAreNumbers, CombinationsExist
<1>3. UpTo(graph, NumUnits, Combinations)
  BY <1>1, <1>2
<1> QED
  BY <1>3 DEF UpTo

\* a choice of output models of the first k units whose atoms are consistent
Choice(g, k, c) ==
  /\ c \in Seq(Nat) /\ Len(c) = k
  /\ \A i \in 1..Len(c) : c[i] \in DOMAIN g /\ g[c[i]].type = "out" /\ g[c[i]].location = i
  /\ Consistent(g, Join(g, c))

LEMMA CombinationsAreChoices ==
  ASSUME graph \in Seq(ModelRecords)
  PROVE  \A k \in 0..NumUnits : \A c \in Combinations[k] : Choice(graph, k, c)
<1> DEFINE S == {k \in Nat : k <= NumUnits /\ \E c \in Combinations[k] : ~Choice(graph, k, c)}
<1>0. NumUnits \in Nat
  BY UnitsAreNumbers
<1> SUFFICES ASSUME S # {} PROVE FALSE
  BY <1>0
<1>1. PICK k \in S : \A n \in S : ~(<<n, k>> \in OpToRel(<, Nat))
  BY NatLessThanWellFounded, WFMin, Zenon
<1>2. k \in Nat /\ k <= NumUnits /\ k \in 0..NumUnits /\ \A n \in S : ~(n < k)
  <2>1. k \in Nat /\ k <= NumUnits
    OBVIOUS
  <2>2. \A n \in S : ~(n < k)
    <3>1. \A n \in S : n \in Nat
      OBVIOUS
    <3> HIDE DEF S
    <3> QED
      BY <1>1, <2>1, <3>1 DEF OpToRel
  <2> QED
    BY <1>0, <2>1, <2>2
<1>3. PICK c \in Combinations[k] : ~Choice(graph, k, c)
  BY <1>1
<1>4. CASE k = 0
  <2>1. Combinations[k] = {<<>>}
    BY <1>2, <1>4, CombinationsUnfold
  <2>2. c = <<>> /\ c \in Seq(Nat) /\ Len(c) = 0
    BY <1>3, <2>1
  <2>3. Consistent(graph, Join(graph, c))
    BY <2>2, NoDependencies DEF Consistent
  <2> QED
    BY <1>3, <1>4, <2>2, <2>3 DEF Choice
<1>5. CASE k # 0
  <2>1. k - 1 \in Nat /\ k - 1 < k /\ k - 1 <= NumUnits
    BY <1>0, <1>2, <1>5
  <2>2. Combinations[k] = Extended(graph, Combinations[k - 1], k)
    BY <1>2, <1>5, CombinationsUnfold
  <2>3. /\ c \in {Append(d, m) : d \in Combinations[k - 1], m \in ModelsAt(graph, k, "out")}
        /\ Consistent(graph, Join(graph, c))
    BY <1>3, <2>2 DEF Extended
  <2>4. PICK d \in Combinations[k - 1], m \in ModelsAt(graph, k, "out") : c = Append(d, m)
    BY <2>3
  <2>5. Choice(graph, k - 1, d)
    BY <1>2, <2>1
  <2>6. m \in DOMAIN graph /\ graph[m].type = "out" /\ graph[m].location = k /\ m \in Nat
    BY DEF ModelsAt
  <2>7. d \in Seq(Nat) /\ Len(d) = k - 1
    BY <2>5 DEF Choice
  <2>8. /\ c \in Seq(Nat) /\ Len(c) = k
        /\ \A i \in 1..(k - 1) : c[i] = d[i]
        /\ c[k] = m
    BY <1>2, <2>1, <2>4, <2>6, <2>7, AppendProperties
  <2>9. ASSUME NEW i \in 1..Len(c)
        PROVE  c[i] \in DOMAIN graph /\ graph[c[i]].type = "out" /\ graph[c[i]].location = i
    <3>1. CASE i = k
      BY <2>6, <2>8, <3>1
    <3>2. CASE i # k
      <4>1. i \in 1..(k - 1) /\ i \in 1..Len(d)
        BY <1>2, <2>7, <2>8, <3>2
      <4>2. c[i] = d[i]
        BY <2>8, <4>1
      <4>3. d[i] \in DOMAIN graph /\ graph[d[i]].type = "out" /\ graph[d[i]].location = i
        BY <2>5, <4>1 DEF Choice
      <4> QED
        BY <4>2, <4>3
    <3> QED
      BY <3>1, <3>2
  <2>10. Choice(graph, k, c)
    BY <2>3, <2>8, <2>9 DEF Choice
  <2> QED
    BY <1>3, <2>10
<1> QED
  BY <1>4, <1>5

\* After the null model, every combination was offered.
LEMMA AllOffered ==
  ASSUME BuilderInv, exhausted, RedundancyElimination, NEW c, Combination(preds, graph, c)
  PROVE  Offered(preds, graph, answers, c)
<1>1. stack = <<>> /\ ~asked /\ IModel(ufinal) = NoModel
  BY DEF BuilderInv, CallerOK
<1>2. Level = 0
  BY <1>1 DEF Level
<1>3. Leaving
  BY <1>1 DEF Leaving
<1>4. Len(c) \in Nat
  BY DEF Combination
<1>5. Passed(c)
  BY <1>2, <1>3, <1>4 DEF Passed, PassedAt
<1> QED
  BY <1>5 DEF BuilderInv, PassedOffered

(***************************************************************************)
(* After the null model, every consistent choice of output models was      *)
(* offered to the next unit, whose generator ran to its end, and every     *)
(* choice for all units was returned to the caller.                        *)
(***************************************************************************)
THEOREM EnumerationIsComplete == SafetySpec => []EnumerationComplete
<1>1. BuilderInv => EnumerationComplete
  <2> SUFFICES ASSUME BuilderInv, exhausted, RedundancyElimination,
                      NEW k \in Units, NEW c \in Combinations[k - 1]
               PROVE  \E m \in ModelsAt(graph, k, "in") :
                        /\ graph[m].deps = [i \in 1..Len(preds[k]) |-> c[preds[k][i]]]
                        /\ IF k = ufinal THEN m \in Range(answers)
                                         ELSE graph[m].childModelsGenerated
    BY DEF EnumerationComplete
  <2>1. /\ k \in Nat /\ 1 <= k /\ k <= NumUnits /\ NumUnits \in Nat
        /\ k - 1 \in 0..NumUnits /\ k - 1 < NumUnits
    BY UnitsAreNumbers
  <2>2. preds \in EvalGraphs /\ graph \in Seq(ModelRecords) /\ GraphOK(preds, graph) /\ answers \in Seq(Nat)
    BY DEF BuilderInv, TypeOK, ModelsOK
  <2>3. EvalGraphOK(preds)
    BY <2>2, PredecessorsBelow
  <2>4. Choice(graph, k - 1, c)
    BY <2>1, <2>2, CombinationsAreChoices
  <2>5. /\ c \in Seq(Nat) /\ Len(c) = k - 1 /\ Len(c) < NumUnits
        /\ \A i \in 1..Len(c) : c[i] \in DOMAIN graph /\ graph[c[i]].type = "out" /\ graph[c[i]].location = i
        /\ Consistent(graph, Join(graph, c))
    BY <2>1, <2>4 DEF Choice
  <2>6. Combination(preds, graph, c)
    BY <2>2, <2>3, <2>5, ConsistentCombination
  <2>7. Offered(preds, graph, answers, c)
    BY <2>6, AllOffered
  <2>8. Len(c) + 1 = k
    BY <2>1, <2>5
  <2>9. PICK m \in DOMAIN graph :
          /\ graph[m].type = "in" /\ graph[m].location = k /\ graph[m].deps = Projection(preds, c, k)
          /\ IF k = ufinal THEN \E i \in 1..Len(answers) : answers[i] = m
                           ELSE graph[m].childModelsGenerated
    BY <2>7, <2>8 DEF Offered
  <2>10. m \in ModelsAt(graph, k, "in")
    BY <2>9 DEF ModelsAt
  <2>11. graph[m].deps = [i \in 1..Len(preds[k]) |-> c[preds[k][i]]]
    BY <2>9 DEF Projection
  <2>12. CASE k = ufinal
    <3>1. PICK i \in 1..Len(answers) : answers[i] = m
      BY <2>9, <2>12
    <3>2. m \in Range(answers)
      BY <2>2, <3>1 DEF Range
    <3> QED
      BY <2>10, <2>11, <2>12, <3>2
  <2>13. CASE k # ufinal
    BY <2>9, <2>10, <2>11, <2>13
  <2> QED
    BY <2>12, <2>13
<1> QED
  BY <1>1, BuilderInvariant, PTL

\* A model that is given to the caller was not given before.
LEMMA AnswerIsNew ==
  ASSUME BuilderInv, ReceiveModel, ret # NoModel, NEW i \in 1..Len(answers)
  PROVE  answers[i] # ret
<1> SUFFICES ASSUME answers[i] = ret PROVE FALSE
  OBVIOUS
<1>1. /\ stack = <<>> /\ asked /\ ret = IModel(ufinal) /\ IModel(ufinal) # NoModel
      /\ Len(stack) = 0 /\ EvalGraphOK(preds) /\ mbp \in [Units -> ModelBuildingProperties]
  BY PredecessorsBelow DEF BuilderInv, TypeOK, CallerOK, ReceiveModel
<1>2. ~Leaving /\ Level = NumUnits - 1
  BY <1>1 DEF Leaving, Level
<1>3. graph[ret].deps = CurrentOModels(ufinal)
  <2>1. ufinal \in Units /\ ufinal \notin Joining
    BY <1>1, UnitsAreNumbers DEF Joining
  <2> QED
    BY <1>1, <2>1 DEF BuilderInv, InputsCurrent, Fed
<1>4. PassedAt(Outputs, Level, Leaving, graph[ret].deps)
  BY DEF BuilderInv, AnswersOK, Passed
<1>5. PICK j \in 1..(NumUnits - 1) : graph[ret].deps[j] < Outputs[j]
  BY <1>2, <1>4 DEF PassedAt
<1>6. graph[ret].deps[j] = OModel(j)
  <2>1. Len(preds[ufinal]) = NumUnits - 1 /\ preds[ufinal][j] = j
    BY <1>1 DEF EvalGraphOK
  <2> QED
    BY <1>3, <2>1 DEF CurrentOModels, OModel
<1>7. j \in Units /\ OModel(j) \in Nat
  <2>1. j \in Nat /\ 1 <= j /\ j <= NumUnits
    BY UnitsAreNumbers
  <2>2. j \in Units
    BY <2>1, UnitsAreNumbers
  <2> QED
    BY <1>1, <2>2 DEF ModelBuildingProperties, OModel
<1>8. Outputs[j] = OModel(j)
  BY <1>7 DEF Outputs
<1> QED
  BY <1>5, <1>6, <1>7, <1>8

(***************************************************************************)
(* The model builder is an enumerator of models: it never gives a model    *)
(* twice, and nothing after the null model, in every configuration.        *)
(***************************************************************************)
THEOREM BuilderEnumerates == SafetySpec => Enumeration!Safety
<1>1. Init => Enumeration!Init
  BY DEF Init, Enumeration!Init
<1>2. BuilderInv /\ [Next]_vars => [Enumeration!Next]_(Enumeration!enumVars)
  <2> SUFFICES ASSUME BuilderInv, [Next]_vars
               PROVE  [Enumeration!Next]_(Enumeration!enumVars)
    OBVIOUS
  <2> USE DEF Enumeration!Next, Enumeration!enumVars
  <2>1. CASE RequestModel
    BY <2>1 DEF RequestModel, Enumeration!Ask
  <2>2. CASE ReceiveModel /\ ret = NoModel
    BY <2>2 DEF ReceiveModel, Enumeration!NoMore
  <2>3. CASE ReceiveModel /\ ret # NoModel
    <3>1. /\ asked /\ asked' = FALSE /\ answers' = Append(answers, ret) /\ exhausted' = exhausted
      BY <2>3 DEF ReceiveModel
    <3>2. ~exhausted /\ answers \in Seq(Nat) /\ ret \in Nat
      BY <3>1 DEF BuilderInv, CallerOK, TypeOK
    <3>3. /\ Len(answers') = Len(answers) + 1
          /\ \A i \in 1..Len(answers) : answers'[i] = answers[i]
          /\ answers'[Len(answers')] = ret
      BY <3>1, <3>2
    <3>4. SubSeq(answers', 1, Len(answers)) = answers
      BY <3>1, <3>2
    <3>5. \A i \in 1..Len(answers) : answers'[i] # answers'[Len(answers')]
      BY <2>3, <3>3, AnswerIsNew
    <3>6. Enumeration!Answer
      BY <3>1, <3>2, <3>3, <3>4, <3>5 DEF Enumeration!Answer
    <3> QED
      BY <3>6
  <2>4. CASE UNCHANGED <<asked, answers, exhausted>>
    BY <2>4
  <2>5. CASE GetNextIModel
    BY <2>4, <2>5 DEF GetNextIModel, DummyIModel, Increment, ShareOModel, FetchOModel, GotOModel,
       Backtrack, NoIModel, CreateIModel
  <2>6. CASE GetNextOModel
    BY <2>4, <2>6 DEF GetNextOModel, GiveUpReference, FirstIModel, FailWithoutInput,
       AdvanceOnGraph, GenerateOModel, ExhaustGenerator, AllOModelsUsed, NextInput
  <2>7. CASE UNCHANGED vars
    BY <2>4, <2>7 DEF vars
  <2> QED
    BY <2>1, <2>2, <2>3, <2>5, <2>6, <2>7 DEF Next, Terminated
<1> QED
  BY <1>1, <1>2, BuilderInvariant, PTL DEF SafetySpec, Enumeration!Safety
===============================================================================
