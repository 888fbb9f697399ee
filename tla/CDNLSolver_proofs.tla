--------------------------- MODULE CDNLSolver_proofs ---------------------------
(***************************************************************************)
(* Proofs about CDNLSolver, for every set of problems: the watched         *)
(* literals, the unit and the contradictory nogoods stay exact, causes     *)
(* justify the implied literals, and learned nogoods exclude nothing.      *)
(* The second part is about InternalGroundASPSolver, which is this solver  *)
(* with the nogoods of a program and with loop nogoods: its learned        *)
(* nogoods exclude no answer set.                                          *)
(* The third part is about the enumeration: between the requests no        *)
(* solution is missed and none is returned twice.                          *)
(***************************************************************************)
EXTENDS InternalGroundASPSolver, FiniteSetTheorems, WellFoundedInduction, TLAPS

-----------------------------------------------------------------------------
(* Numbers and small sets.                                                 *)

\* A nonempty set of natural numbers has a least element.
LEMMA LeastElement == ASSUME NEW S \in SUBSET Nat, S # {}
                      PROVE  Min(S) \in S /\ \A n \in S : Min(S) <= n
<1>1. PICK a \in S : \A b \in S : ~(<<b, a>> \in OpToRel(<, Nat))
  BY NatLessThanWellFounded, WFMin, Zenon
<1>2. ASSUME NEW b \in S PROVE a <= b
  <2>1. ~(b < a)
    BY <1>1 DEF OpToRel
  <2> QED
    BY <2>1
<1> QED
  BY <1>2 DEF Min

\* A nonempty set of natural numbers with a bound has a greatest element.
LEMMA GreatestElement == ASSUME NEW S \in SUBSET Nat, S # {}, NEW b \in Nat, \A n \in S : n <= b
                         PROVE  Max(S) \in S /\ \A n \in S : n <= Max(S)
<1> DEFINE T == {b - n : n \in S}
<1>1. T \in SUBSET Nat /\ T # {}
  <2>1. \A n \in S : n \in Nat /\ n <= b /\ b - n \in Nat
    OBVIOUS
  <2> QED
    BY <2>1
<1>2. Min(T) \in T /\ \A n \in T : Min(T) <= n
  BY <1>1, LeastElement
<1>3. PICK m \in S : Min(T) = b - m
  BY <1>2
<1>4. ASSUME NEW n \in S PROVE n <= m
  <2>1. b - m <= b - n
    BY <1>2, <1>3
  <2> QED
    BY <2>1
<1> QED
  BY <1>4 DEF Max

\* A set has no, exactly one, or several elements.
One(S)  == \E l \in S : S = {l}
Many(S) == \E l, m \in S : l # m

LEMMA CardinalityCases ==
  ASSUME NEW S, IsFiniteSet(S)
  PROVE  /\ Cardinality(S) \in Nat
         /\ Cardinality(S) = 0 <=> S = {}
         /\ Cardinality(S) = 1 <=> One(S)
         /\ Cardinality(S) >= 2 <=> Many(S)
<1>1. /\ Cardinality(S) \in Nat
      /\ Cardinality(S) = 0 <=> S = {}
      /\ Cardinality(S) = 1 <=> One(S)
  BY FS_CardinalityType, FS_EmptySet, FS_Singleton DEF One
<1>2. Many(S) <=> S # {} /\ ~One(S)
  BY DEF One, Many
<1> QED
  BY <1>1, <1>2

-----------------------------------------------------------------------------
(* The order in which a nogood is searched for literals to watch.          *)

LEMMA FirstLiteral ==
  ASSUME NEW S \in SUBSET (Int \ {0}), S # {}
  PROVE  \E f \in S : \A m \in S : ~Precedes(m, f)
<1>1. CASE \E l \in S : l > 0
  <2> DEFINE P == {l \in S : l > 0}
  <2>1. \A l \in S : l > 0 => l \in Nat
    OBVIOUS
  <2>2. P \in SUBSET Nat /\ P # {}
    BY <1>1, <2>1
  <2>3. PICK f \in P : \A l \in P : f <= l
    BY <2>2, LeastElement
  <2>4. ASSUME NEW m \in S PROVE ~Precedes(m, f)
    <3>1. m > 0 => f <= m
      BY <2>3
    <3>2. f > 0 /\ f \in Int /\ m \in Int
      OBVIOUS
    <3> QED
      BY <3>1, <3>2 DEF Precedes
  <2> QED
    BY <2>4
<1>2. CASE \A l \in S : l < 0
  <2> DEFINE N == {-l : l \in S}
  <2>1. N \in SUBSET Nat /\ N # {}
    <3>1. \A l \in S : l < 0 /\ -l \in Nat
      BY <1>2
    <3> QED
      BY <3>1
  <2>2. Min(N) \in N /\ \A l \in N : Min(N) <= l
    BY <2>1, LeastElement
  <2>3. PICK f \in S : Min(N) = -f
    BY <2>2
  <2>4. ASSUME NEW m \in S PROVE m <= f
    <3>1. -f <= -m
      BY <2>2, <2>3
    <3> QED
      BY <3>1
  <2> QED
    BY <1>2, <2>4 DEF Precedes
<1> QED
  BY <1>1, <1>2

\* Watching as many literals as the search finds, up to two, is enough.
Enough(W, F) == W \subseteq F /\ (One(F) => W = F) /\ (Many(F) => Many(W))

LEMMA EnoughCounts ==
  ASSUME NEW W, NEW F, Enough(W, F)
  PROVE  (W = {} <=> F = {}) /\ (One(W) <=> One(F)) /\ (Many(W) <=> Many(F))
BY DEF Enough, One, Many

LEMMA FirstOfEnough ==
  ASSUME NEW F \in SUBSET (Int \ {0}), IsFiniteSet(F), NEW W \in SUBSET F
  PROVE  Enough(W \cup FirstOf(F \ W, 2 - Cardinality(W)), F)
<1> DEFINE G == F \ W
<1> DEFINE before(S, l) == {m \in S : Precedes(m, l)}
<1>1. IsFiniteSet(W) /\ IsFiniteSet(G)
  BY FS_Subset, FS_Difference
<1>2. /\ Cardinality(W) \in Nat
      /\ Cardinality(W) = 0 <=> W = {}
      /\ Cardinality(W) = 1 <=> One(W)
      /\ Cardinality(W) >= 2 <=> Many(W)
  BY <1>1, CardinalityCases
<1>3. FirstOf(G, 2 - Cardinality(W)) \subseteq G
  BY DEF FirstOf
<1>4. CASE Many(W)
  BY <1>3, <1>4 DEF Enough, One, Many
<1>5. ASSUME G # {}, ~Many(W) PROVE \E f \in FirstOf(G, 2 - Cardinality(W)) : before(G, f) = {}
  <2>1. PICK f \in G : \A m \in G : ~Precedes(m, f)
    BY <1>5, FirstLiteral
  <2>2. before(G, f) = {}
    BY <2>1
  <2>3. Cardinality(before(G, f)) = 0
    BY <2>2, FS_EmptySet
  <2> HIDE DEF before, G
  <2>4. 0 < 2 - Cardinality(W)
    BY <1>2, <1>5
  <2> QED
    BY <2>1, <2>2, <2>3, <2>4 DEF FirstOf, before
<1>6. CASE One(W)
  <2>1. CASE G = {}
    BY <2>1, <1>3, <1>6 DEF Enough, One, Many
  <2>2. CASE G # {}
    <3>1. ~Many(W)
      BY <1>6 DEF One, Many
    <3>2. PICK f \in FirstOf(G, 2 - Cardinality(W)) : TRUE
      BY <3>1, <2>2, <1>5
    <3>3. f \in G
      BY <1>3, <3>2
    <3>4. W \cup FirstOf(G, 2 - Cardinality(W)) \subseteq F
      BY <1>3
    <3>5. PICK w \in W : W = {w}
      BY <1>6 DEF One
    <3>6. f \in F /\ w \in F /\ f # w
      BY <3>3, <3>5
    <3> DEFINE R == W \cup FirstOf(G, 2 - Cardinality(W))
    <3>7. R \subseteq F /\ f \in R /\ w \in R
      BY <3>2, <3>4, <3>5
    <3>8. Enough(R, F)
      <4> HIDE DEF R
      <4> QED
        BY <3>6, <3>7 DEF Enough, One, Many
    <3> QED
      BY <3>8
  <2> QED
    BY <2>1, <2>2
<1>7. CASE W = {}
  <2>1. G = F /\ 2 - Cardinality(W) = 2 /\ ~Many(W)
    BY <1>2, <1>7 DEF Many
  <2>2. CASE F = {}
    BY <2>2, <1>3, <1>7 DEF Enough, One, Many
  <2>3. CASE F # {}
    <3>1. PICK f \in FirstOf(F, 2) : before(F, f) = {}
      BY <1>5, <2>1, <2>3
    <3>2. CASE F = {f}
      BY <3>1, <3>2, <2>1, <1>3, <1>7 DEF Enough, One, Many
    <3>3. CASE F # {f}
      <4>1. f \in F
        BY <1>3, <2>1
      <4>2. PICK g \in F \ {f} : \A m \in F \ {f} : ~Precedes(m, g)
        BY <3>3, <4>1, FirstLiteral
      <4>3. before(F, g) \subseteq {f}
        BY <4>2
      <4> HIDE DEF before
      <4>4. IsFiniteSet({f}) /\ Cardinality({f}) = 1 /\ before(F, g) \in SUBSET {f}
        BY <4>3, FS_Singleton
      <4>5. IsFiniteSet(before(F, g)) /\ Cardinality(before(F, g)) <= 1
        BY <4>4, FS_Subset
      <4>6. Cardinality(before(F, g)) < 2
        BY <4>5, FS_CardinalityType
      <4> USE DEF before
      <4>7. g \in FirstOf(F, 2)
        BY <4>2, <4>6 DEF FirstOf
      <4> HIDE DEF G
      <4> QED
        BY <4>1, <4>2, <4>7, <3>1, <2>1, <1>3, <1>7 DEF Enough, One, Many
    <3> QED
      BY <3>2, <3>3
  <2> QED
    BY <2>2, <2>3
<1> QED
  BY <1>4, <1>6, <1>7 DEF One, Many

-----------------------------------------------------------------------------
(* The invariant of the propagation record.                                *)

LiteralsOf(atoms) == {l \in Int : Address(l) \in atoms}
AtomsOK(atoms) == \E n \in Nat : atoms = 1 .. n

RecordOK(p) ==
  p = [assignment |-> p.assignment, decisionlevel |-> p.decisionlevel, cause |-> p.cause,
       watched |-> p.watched, unitNogoods |-> p.unitNogoods,
       contradictoryNogoods |-> p.contradictoryNogoods]

\* Each atom is assigned at most once.
AssignmentOK(p, atoms) ==
  /\ p.assignment \in Seq(LiteralsOf(atoms))
  /\ \A i, j \in DOMAIN p.assignment : Address(p.assignment[i]) = Address(p.assignment[j]) => i = j
  /\ p.decisionlevel \in [atoms -> Nat]
  /\ p.cause \in [atoms -> SUBSET LiteralsOf(atoms)]

\* A nogood that is inactive watches nothing or several literals: one that watches a
\* single literal is unit, which is what clearFact concludes from it.
WatchOK(p, ng) ==
  /\ ~Inactive(p, ng) => /\ Enough(p.watched[ng], Free(p, ng))
                         /\ ng \in p.unitNogoods <=> One(Free(p, ng))
                         /\ ng \in p.contradictoryNogoods <=> Free(p, ng) = {}
  /\ Inactive(p, ng) => /\ p.watched[ng] = {} \/ Many(p.watched[ng])
                        /\ ng \notin p.unitNogoods
                        /\ ng \notin p.contradictoryNogoods

\* The nogoods in the set open have just been taken from the unit ones.
WatchesOK(p, atoms, open) ==
  /\ p.watched = [ng \in Nogoods(p) |-> p.watched[ng]]
  /\ p.unitNogoods \subseteq Nogoods(p) /\ p.contradictoryNogoods \subseteq Nogoods(p)
  /\ \A ng \in Nogoods(p) : ng \subseteq LiteralsOf(atoms) /\ p.watched[ng] \subseteq Free(p, ng)
  /\ \A ng \in Nogoods(p) \ open : WatchOK(p, ng)

LEMMA LiteralsType ==
  ASSUME NEW atoms, AtomsOK(atoms)
  PROVE  /\ LiteralsOf(atoms) \subseteq Int \ {0}
         /\ IsFiniteSet(LiteralsOf(atoms))
         /\ \A l \in LiteralsOf(atoms) : /\ Negation(l) \in LiteralsOf(atoms)
                                         /\ Negation(l) # l /\ Negation(Negation(l)) = l
                                         /\ Address(Negation(l)) = Address(l)
                                         /\ Address(l) \in atoms
         /\ \A l, m \in LiteralsOf(atoms) : Address(l) = Address(m) <=> l = m \/ l = Negation(m)
<1>1. PICK n \in Nat : atoms = 1 .. n
  BY DEF AtomsOK
<1>2. \A l \in LiteralsOf(atoms) : l \in Int \ {0} /\ l \in -n .. n
  BY <1>1 DEF LiteralsOf, Address
<1>3. IsFiniteSet(-n .. n) /\ LiteralsOf(atoms) \in SUBSET (-n .. n)
  BY <1>2, FS_Interval
<1>4. IsFiniteSet(LiteralsOf(atoms))
  BY <1>3, FS_Subset
<1>5. \A l \in LiteralsOf(atoms) : /\ Negation(l) \in LiteralsOf(atoms)
                                   /\ Negation(l) # l /\ Negation(Negation(l)) = l
                                   /\ Address(Negation(l)) = Address(l)
                                   /\ Address(l) \in atoms
  BY <1>2 DEF LiteralsOf, Address, Negation
<1>6. \A l, m \in LiteralsOf(atoms) : Address(l) = Address(m) <=> l = m \/ l = Negation(m)
  BY <1>2 DEF LiteralsOf, Address, Negation
<1> QED
  BY <1>2, <1>4, <1>5, <1>6

\* A nogood has finitely many free literals.
LEMMA FreeType ==
  ASSUME NEW atoms, AtomsOK(atoms), NEW p, NEW ng, ng \subseteq LiteralsOf(atoms)
  PROVE  Free(p, ng) \in SUBSET (Int \ {0}) /\ IsFiniteSet(Free(p, ng)) /\ Free(p, ng) \subseteq ng
<1>1. Free(p, ng) \subseteq ng
  BY DEF Free
<1>2. Free(p, ng) \in SUBSET LiteralsOf(atoms)
  BY <1>1
<1> QED
  BY <1>1, <1>2, LiteralsType, FS_Subset

-----------------------------------------------------------------------------
(* setFact.                                                                *)

\* What is assigned after a literal was appended.
LEMMA AppendRange ==
  ASSUME NEW S, NEW s \in Seq(S), NEW e
  PROVE  Range(Append(s, e)) = Range(s) \cup {e}
<1>1. /\ DOMAIN Append(s, e) = 1 .. Len(s) + 1 /\ DOMAIN s = 1 .. Len(s) /\ Len(s) \in Nat
      /\ \A i \in 1 .. Len(s) : Append(s, e)[i] = s[i]
      /\ Append(s, e)[Len(s) + 1] = e
  OBVIOUS
<1> QED
  BY <1>1 DEF Range

\* The effect of setFact on the assignment, ...
Assigned(p, lit, dl, c, q) ==
  /\ q.assignment = Append(p.assignment, lit)
  /\ q.decisionlevel = [p.decisionlevel EXCEPT ![Address(lit)] = dl]
  /\ q.cause = [p.cause EXCEPT ![Address(lit)] = c]
  /\ Nogoods(q) = Nogoods(p)

LEMMA SetFactFields ==
  ASSUME NEW p, RecordOK(p), NEW lit, NEW dl, NEW c, NEW q, q = SetFact(p, lit, dl, c)
  PROVE  RecordOK(q) /\ Assigned(p, lit, dl, c, q)
BY DEF RecordOK, SetFact, Assign, Nogoods, Assigned

\* ... and on the watches of one nogood.
Rewatched(p, lit, ng, q) ==
  LET W == p.watched[ng]
      R == (W \ {lit}) \cup FirstOf(Free(p, ng) \ W, 2 - Cardinality(W \ {lit}))
      inactive == Negation(lit) \in W \/ (lit \in W /\ (Inactive(p, ng) \/ Negation(lit) \in ng))
  IN  /\ inactive => /\ q.watched[ng] = {}
                     /\ ng \notin q.unitNogoods /\ ng \notin q.contradictoryNogoods
      /\ ~inactive /\ lit \notin W => /\ q.watched[ng] = W
                                      /\ ng \in q.unitNogoods <=> ng \in p.unitNogoods
                                      /\ ng \in q.contradictoryNogoods <=> ng \in p.contradictoryNogoods
      /\ ~inactive /\ lit \in W =>
           /\ q.watched[ng] = R
           /\ ng \in q.unitNogoods <=> (ng \in p.unitNogoods \/ Cardinality(R) = 1) /\ Cardinality(R) # 0
           /\ ng \in q.contradictoryNogoods <=> ng \in p.contradictoryNogoods \/ Cardinality(R) = 0

LEMMA SetFactWatches ==
  ASSUME NEW p, RecordOK(p), NEW lit, NEW dl, NEW c, NEW q, q = SetFact(p, lit, dl, c),
         NEW ng \in Nogoods(p)
  PROVE  Rewatched(p, lit, ng, q)
<1> DEFINE W == p.watched[ng]
           R == (W \ {lit}) \cup FirstOf(Free(p, ng) \ W, 2 - Cardinality(W \ {lit}))
           inactive == Negation(lit) \in W \/ (lit \in W /\ (Inactive(p, ng) \/ Negation(lit) \in ng))
<1> DEFINE watching(n) == lit \in p.watched[n]
           dead(n) == \/ Negation(lit) \in p.watched[n]
                      \/ watching(n) /\ (Inactive(p, n) \/ Negation(lit) \in n)
           rest(n) == p.watched[n] \ {lit}
           watch(n) == rest(n) \cup FirstOf(Free(p, n) \ p.watched[n], 2 - Cardinality(rest(n)))
           moved == {n \in Nogoods(p) : watching(n) /\ ~dead(n)}
           dropped == {n \in Nogoods(p) : dead(n)}
           with(k) == {n \in moved : Cardinality(watch(n)) = k}
<1>1. /\ q.watched = [n \in Nogoods(p) |-> IF dead(n) THEN {} ELSE IF watching(n) THEN watch(n) ELSE p.watched[n]]
      /\ q.unitNogoods = (p.unitNogoods \cup with(1)) \ (with(0) \cup dropped)
      /\ q.contradictoryNogoods = (p.contradictoryNogoods \cup with(0)) \ dropped
  BY DEF RecordOK, SetFact, Assign
<1>2. inactive <=> dead(ng)
  OBVIOUS
<1>3. watch(ng) = R /\ (watching(ng) <=> lit \in W)
  OBVIOUS
<1>4. /\ ng \in moved <=> watching(ng) /\ ~dead(ng)
      /\ ng \in dropped <=> dead(ng)
      /\ \A k : ng \in with(k) <=> ng \in moved /\ Cardinality(watch(ng)) = k
  OBVIOUS
<1>5. q.watched[ng] = IF dead(ng) THEN {} ELSE IF watching(ng) THEN watch(ng) ELSE p.watched[ng]
  BY <1>1
<1> HIDE DEF watching, dead, watch, moved, dropped, with, W, R, inactive
<1>6. /\ inactive => /\ q.watched[ng] = {}
                     /\ ng \notin q.unitNogoods /\ ng \notin q.contradictoryNogoods
      /\ ~inactive /\ lit \notin W => /\ q.watched[ng] = p.watched[ng]
                                      /\ ng \in q.unitNogoods <=> ng \in p.unitNogoods
                                      /\ ng \in q.contradictoryNogoods <=> ng \in p.contradictoryNogoods
      /\ ~inactive /\ lit \in W =>
           /\ q.watched[ng] = R
           /\ ng \in q.unitNogoods <=> (ng \in p.unitNogoods \/ Cardinality(R) = 1) /\ Cardinality(R) # 0
           /\ ng \in q.contradictoryNogoods <=> ng \in p.contradictoryNogoods \/ Cardinality(R) = 0
  BY <1>1, <1>2, <1>3, <1>4, <1>5
<1> QED
  BY <1>6 DEF Rewatched, W, R, inactive

LEMMA SetFactSets ==
  ASSUME NEW p, RecordOK(p), NEW lit, NEW dl, NEW c, NEW q, q = SetFact(p, lit, dl, c),
         p.unitNogoods \subseteq Nogoods(p), p.contradictoryNogoods \subseteq Nogoods(p)
  PROVE  /\ q.watched = [ng \in Nogoods(q) |-> q.watched[ng]]
         /\ q.unitNogoods \subseteq Nogoods(q) /\ q.contradictoryNogoods \subseteq Nogoods(q)
BY DEF RecordOK, SetFact, Assign, Nogoods

\* What is free and inactive after a literal became true.
LEMMA AfterAssign ==
  ASSUME NEW atoms, AtomsOK(atoms), NEW p, NEW q, NEW lit \in LiteralsOf(atoms),
         Range(q.assignment) = Range(p.assignment) \cup {lit}, Unassigned(p, lit),
         NEW ng, ng \subseteq LiteralsOf(atoms)
  PROVE  /\ Free(q, ng) = Free(p, ng) \ {lit, Negation(lit)}
         /\ Inactive(q, ng) <=> Inactive(p, ng) \/ Negation(lit) \in ng
         /\ lit \in ng => lit \in Free(p, ng)
         /\ Negation(lit) \in ng => Negation(lit) \in Free(p, ng)
BY LiteralsType DEF Free, Inactive, Unassigned, Satisfied, Falsified

LEMMA SetFactWatchOK ==
  ASSUME NEW atoms, AtomsOK(atoms), NEW p, RecordOK(p), NEW lit \in LiteralsOf(atoms), Unassigned(p, lit),
         NEW dl, NEW c, NEW q, q = SetFact(p, lit, dl, c),
         Range(q.assignment) = Range(p.assignment) \cup {lit},
         NEW ng \in Nogoods(p), ng \subseteq LiteralsOf(atoms), p.watched[ng] \subseteq Free(p, ng),
         Negation(lit) \in p.watched[ng] \/ WatchOK(p, ng)
  PROVE  q.watched[ng] \subseteq Free(q, ng) /\ WatchOK(q, ng)
<1> DEFINE W == p.watched[ng]
           F == Free(p, ng)
           R == (W \ {lit}) \cup FirstOf(Free(p, ng) \ W, 2 - Cardinality(W \ {lit}))
           inactive == Negation(lit) \in W \/ (lit \in W /\ (Inactive(p, ng) \/ Negation(lit) \in ng))
<1>1. /\ inactive => /\ q.watched[ng] = {}
                     /\ ng \notin q.unitNogoods /\ ng \notin q.contradictoryNogoods
      /\ ~inactive /\ lit \notin W => /\ q.watched[ng] = W
                                      /\ ng \in q.unitNogoods <=> ng \in p.unitNogoods
                                      /\ ng \in q.contradictoryNogoods <=> ng \in p.contradictoryNogoods
      /\ ~inactive /\ lit \in W =>
           /\ q.watched[ng] = R
           /\ ng \in q.unitNogoods <=> (ng \in p.unitNogoods \/ Cardinality(R) = 1) /\ Cardinality(R) # 0
           /\ ng \in q.contradictoryNogoods <=> ng \in p.contradictoryNogoods \/ Cardinality(R) = 0
  <2>1. Rewatched(p, lit, ng, q)
    BY SetFactWatches
  <2> QED
    BY <2>1 DEF Rewatched
<1>2. /\ Free(q, ng) = F \ {lit, Negation(lit)}
      /\ Inactive(q, ng) <=> Inactive(p, ng) \/ Negation(lit) \in ng
      /\ lit \in ng => lit \in F
      /\ Negation(lit) \in ng => Negation(lit) \in F
  BY AfterAssign
<1>3. F \in SUBSET (Int \ {0}) /\ IsFiniteSet(F) /\ F \subseteq ng
  BY FreeType
<1>4. CASE inactive
  <2>1. Inactive(q, ng)
    BY <1>2, <1>3, <1>4
  <2> QED
    BY <2>1, <1>1, <1>4 DEF WatchOK
<1>5. CASE ~inactive /\ lit \notin W
  <2>1. WatchOK(p, ng) /\ W \subseteq F \ {lit, Negation(lit)}
    BY <1>5
  <2>2. CASE Inactive(p, ng)
    BY <2>1, <2>2, <1>1, <1>2, <1>5 DEF WatchOK
  <2>3. CASE ~Inactive(p, ng) /\ lit \notin ng /\ Negation(lit) \notin ng
    <3>1. Free(q, ng) = F /\ ~Inactive(q, ng)
      BY <2>3, <1>2, <1>3
    <3> QED
      BY <3>1, <2>1, <2>3, <1>1, <1>5 DEF WatchOK
  <2>4. CASE ~Inactive(p, ng) /\ (lit \in ng \/ Negation(lit) \in ng)
    <3>1. Many(F) /\ Many(W)
      BY <2>1, <2>4, <1>2 DEF WatchOK, Enough, One, Many
    <3>2. Many(Free(q, ng)) /\ W \subseteq Free(q, ng)
      BY <3>1, <2>1, <1>2 DEF Many
    <3>3. ng \notin p.unitNogoods /\ ng \notin p.contradictoryNogoods
      BY <3>1, <2>1, <2>4 DEF WatchOK, One, Many
    <3> QED
      BY <3>1, <3>2, <3>3, <1>1, <1>5 DEF WatchOK, Enough, One, Many
  <2> QED
    BY <2>2, <2>3, <2>4
<1>6. CASE ~inactive /\ lit \in W
  <2> DEFINE G == F \ {lit}
             V == W \ {lit}
  <2>1. /\ WatchOK(p, ng) /\ ~Inactive(p, ng) /\ ~Inactive(q, ng)
        /\ Free(q, ng) = G /\ lit \in F
    BY <1>2, <1>3, <1>6
  <2>2. G \in SUBSET (Int \ {0}) /\ IsFiniteSet(G) /\ V \in SUBSET G /\ G \ V = F \ W
    BY <1>3, <1>6, FS_RemoveElement
  <2>3. Enough(V \cup FirstOf(G \ V, 2 - Cardinality(V)), G)
    <3> HIDE DEF G, V
    <3> QED
      BY <2>2, FirstOfEnough
  <2>4. Enough(R, G)
    BY <2>2, <2>3
  <2>5. IsFiniteSet(R)
    BY <2>2, <2>4, FS_Subset DEF Enough
  <2>6. (Cardinality(R) = 0 <=> G = {}) /\ (Cardinality(R) = 1 <=> One(G))
    <3> HIDE DEF G, R
    <3> QED
      BY <2>4, <2>5, EnoughCounts, CardinalityCases
  <2>7. ng \in p.unitNogoods => G = {}
    BY <2>1 DEF WatchOK, One
  <2>8. ng \notin p.contradictoryNogoods
    BY <2>1 DEF WatchOK
  <2>9. G = {} => ~One(G)
    BY DEF One
  <2>10. R \subseteq G
    BY <2>4 DEF Enough
  <2> HIDE DEF G, R, F
  <2> QED
    BY <2>1, <2>4, <2>6, <2>7, <2>8, <2>9, <2>10, <1>1, <1>6 DEF WatchOK
<1> QED
  BY <1>4, <1>5, <1>6

\* setFact keeps the record right, whichever literal is set on whichever level.
LEMMA SetFactOK ==
  ASSUME NEW atoms, AtomsOK(atoms), NEW p, RecordOK(p), AssignmentOK(p, atoms),
         NEW open, WatchesOK(p, atoms, open),
         NEW lit \in LiteralsOf(atoms), Unassigned(p, lit),
         \A ng \in open : Negation(lit) \in p.watched[ng],
         NEW dl \in Nat, NEW c \in SUBSET LiteralsOf(atoms), NEW q, q = SetFact(p, lit, dl, c)
  PROVE  /\ RecordOK(q) /\ AssignmentOK(q, atoms) /\ WatchesOK(q, atoms, {})
         /\ Range(q.assignment) = Range(p.assignment) \cup {lit}
         /\ Nogoods(q) = Nogoods(p)
<1>1. /\ RecordOK(q)
      /\ q.assignment = Append(p.assignment, lit)
      /\ q.decisionlevel = [p.decisionlevel EXCEPT ![Address(lit)] = dl]
      /\ q.cause = [p.cause EXCEPT ![Address(lit)] = c]
      /\ Nogoods(q) = Nogoods(p)
  <2>1. RecordOK(q) /\ Assigned(p, lit, dl, c, q)
    BY SetFactFields
  <2> QED
    BY <2>1 DEF Assigned
<1>2. Range(q.assignment) = Range(p.assignment) \cup {lit}
  BY <1>1, AppendRange DEF AssignmentOK
<1>3. AssignmentOK(q, atoms)
  <2>1. p.assignment \in Seq(LiteralsOf(atoms)) /\ DOMAIN p.assignment = 1 .. Len(p.assignment) /\ Len(p.assignment) \in Nat
    BY DEF AssignmentOK
  <2>2. /\ q.assignment \in Seq(LiteralsOf(atoms))
        /\ DOMAIN q.assignment = 1 .. Len(p.assignment) + 1
        /\ \A i \in DOMAIN p.assignment : q.assignment[i] = p.assignment[i]
        /\ q.assignment[Len(p.assignment) + 1] = lit
    BY <2>1, <1>1
  <2>3. \A i \in DOMAIN p.assignment : Address(p.assignment[i]) # Address(lit)
    <3>1. \A i \in DOMAIN p.assignment : p.assignment[i] \in Range(p.assignment) /\ p.assignment[i] \in LiteralsOf(atoms)
      BY <2>1 DEF Range
    <3> QED
      BY <3>1, LiteralsType DEF Unassigned, Satisfied, Falsified
  <2>4. ASSUME NEW i \in DOMAIN q.assignment, NEW j \in DOMAIN q.assignment,
               Address(q.assignment[i]) = Address(q.assignment[j])
        PROVE  i = j
    <3>1. CASE i \in DOMAIN p.assignment /\ j \in DOMAIN p.assignment
      BY <3>1, <2>2, <2>4 DEF AssignmentOK
    <3>2. CASE i = Len(p.assignment) + 1 \/ j = Len(p.assignment) + 1
      BY <3>2, <2>1, <2>2, <2>3, <2>4
    <3> QED
      BY <3>1, <3>2, <2>1, <2>2
  <2>5. Address(lit) \in atoms
    BY LiteralsType
  <2>6. q.decisionlevel \in [atoms -> Nat] /\ q.cause \in [atoms -> SUBSET LiteralsOf(atoms)]
    BY <1>1, <2>5 DEF AssignmentOK
  <2> QED
    BY <2>2, <2>4, <2>6 DEF AssignmentOK
<1>4. /\ q.watched = [ng \in Nogoods(q) |-> q.watched[ng]]
      /\ q.unitNogoods \subseteq Nogoods(q) /\ q.contradictoryNogoods \subseteq Nogoods(q)
  BY SetFactSets DEF WatchesOK
<1>5. ASSUME NEW ng \in Nogoods(p)
      PROVE  q.watched[ng] \subseteq Free(q, ng) /\ WatchOK(q, ng)
  <2>1. ng \subseteq LiteralsOf(atoms) /\ p.watched[ng] \subseteq Free(p, ng)
    BY DEF WatchesOK
  <2>2. Negation(lit) \in p.watched[ng] \/ WatchOK(p, ng)
    BY DEF WatchesOK
  <2> QED
    BY <2>1, <2>2, <1>2, SetFactWatchOK
<1> QED
  BY <1>1, <1>2, <1>3, <1>4, <1>5 DEF WatchesOK

-----------------------------------------------------------------------------
(* addNogoodAndUpdateWatchingStructures.                                   *)

\* The nogoods whose atoms are known are added, and nothing else changes.
Accepted(added, atoms) == {ng \in added : \A lit \in ng : Address(lit) \in atoms}

Extended(p, new, q) ==
  /\ q.assignment = p.assignment /\ q.decisionlevel = p.decisionlevel /\ q.cause = p.cause
  /\ Nogoods(q) = Nogoods(p) \cup new

LEMMA AddNogoodsFields ==
  ASSUME NEW p, RecordOK(p), NEW added, NEW q, q = AddNogoods(p, added)
  PROVE  /\ RecordOK(q) /\ Extended(p, Accepted(added, Atoms), q)
         /\ q.watched = [ng \in Nogoods(q) |-> q.watched[ng]]
BY DEF RecordOK, AddNogoods, Nogoods, Extended, Accepted

WatchAdded(p, new, ng, q) ==
  LET old == IF ng \in Nogoods(p) THEN p.watched[ng] ELSE {}
      active == ng \in new /\ ~Inactive(p, ng)
      F == Free(p, ng)
  IN  /\ q.watched[ng] = old \cup (IF active THEN FirstOf(F, 2) ELSE {})
      /\ ng \in q.unitNogoods <=> ng \in p.unitNogoods \/ (active /\ Cardinality(F) = 1)
      /\ ng \in q.contradictoryNogoods <=> ng \in p.contradictoryNogoods \/ (active /\ Cardinality(F) = 0)

LEMMA AddNogoodsWatches ==
  ASSUME NEW p, RecordOK(p), NEW added, NEW q, q = AddNogoods(p, added), NEW ng \in Nogoods(q)
  PROVE  WatchAdded(p, Accepted(added, Atoms), ng, q)
<1> DEFINE new == {n \in added : \A lit \in n : Address(lit) \in Atoms}
           active == {n \in new : ~Inactive(p, n)}
           with(k) == {n \in active : Cardinality(Free(p, n)) = k}
           old(n) == IF n \in Nogoods(p) THEN p.watched[n] ELSE {}
           watch(n) == IF n \in active THEN FirstOf(Free(p, n), 2) ELSE {}
<1>1. /\ q.watched = [n \in Nogoods(p) \cup new |-> old(n) \cup (IF n \in new THEN watch(n) ELSE {})]
      /\ q.unitNogoods = p.unitNogoods \cup with(1)
      /\ q.contradictoryNogoods = p.contradictoryNogoods \cup with(0)
  BY DEF RecordOK, AddNogoods
<1>2. new = Accepted(added, Atoms) /\ ng \in Nogoods(p) \cup new
  BY <1>1 DEF Accepted, Nogoods
<1>3. q.watched[ng] = old(ng) \cup (IF ng \in new THEN watch(ng) ELSE {})
  BY <1>1, <1>2
<1>4. \A k : ng \in with(k) <=> ng \in new /\ ~Inactive(p, ng) /\ Cardinality(Free(p, ng)) = k
  OBVIOUS
<1>5. (IF ng \in new THEN watch(ng) ELSE {}) = (IF ng \in new /\ ~Inactive(p, ng) THEN FirstOf(Free(p, ng), 2) ELSE {})
  OBVIOUS
<1> HIDE DEF with, watch, active, new
<1> QED
  BY <1>1, <1>2, <1>3, <1>4, <1>5 DEF WatchAdded

\* Nogoods can be added at any time; one that is added again may watch more literals.
LEMMA AddNogoodsOK ==
  ASSUME AtomsOK(Atoms), NEW p, RecordOK(p), AssignmentOK(p, Atoms), WatchesOK(p, Atoms, {}),
         NEW added \in SUBSET SUBSET Int, NEW q, q = AddNogoods(p, added)
  PROVE  /\ RecordOK(q) /\ AssignmentOK(q, Atoms) /\ WatchesOK(q, Atoms, {})
         /\ Extended(p, Accepted(added, Atoms), q)
<1> DEFINE new == Accepted(added, Atoms)
<1>1. /\ RecordOK(q) /\ Extended(p, new, q)
      /\ q.watched = [ng \in Nogoods(q) |-> q.watched[ng]]
  BY AddNogoodsFields
<1>2. AssignmentOK(q, Atoms)
  BY <1>1 DEF Extended, AssignmentOK
<1>3. \A ng \in new : ng \subseteq LiteralsOf(Atoms)
  BY DEF Accepted, LiteralsOf
<1>4. ASSUME NEW ng \in Nogoods(q)
      PROVE  /\ ng \subseteq LiteralsOf(Atoms) /\ q.watched[ng] \subseteq Free(q, ng) /\ WatchOK(q, ng)
             /\ ng \in q.unitNogoods => ng \in Nogoods(q)
  <2> DEFINE F == Free(p, ng)
             old == IF ng \in Nogoods(p) THEN p.watched[ng] ELSE {}
             active == ng \in new /\ ~Inactive(p, ng)
  <2>1. /\ q.watched[ng] = old \cup (IF active THEN FirstOf(F, 2) ELSE {})
        /\ ng \in q.unitNogoods <=> ng \in p.unitNogoods \/ (active /\ Cardinality(F) = 1)
        /\ ng \in q.contradictoryNogoods <=> ng \in p.contradictoryNogoods \/ (active /\ Cardinality(F) = 0)
    <3>1. WatchAdded(p, new, ng, q)
      BY AddNogoodsWatches
    <3> QED
      BY <3>1 DEF WatchAdded
  <2>2. ng \subseteq LiteralsOf(Atoms) /\ (ng \in Nogoods(p) \/ ng \in new)
    BY <1>1, <1>3 DEF WatchesOK, Extended
  <2>3. F \in SUBSET (Int \ {0}) /\ IsFiniteSet(F) /\ F \subseteq ng
    BY <2>2, FreeType
  <2>4. Free(q, ng) = F /\ (Inactive(q, ng) <=> Inactive(p, ng))
    BY <1>1 DEF Free, Inactive, Unassigned, Satisfied, Falsified, Extended
  <2>5. Enough(FirstOf(F, 2), F)
    <3> HIDE DEF F
    <3>1. Enough({} \cup FirstOf(F \ {}, 2 - Cardinality({})), F)
      BY <2>3, FirstOfEnough
    <3>2. F \ {} = F /\ 2 - Cardinality({}) = 2 /\ {} \cup FirstOf(F, 2) = FirstOf(F, 2)
      BY FS_EmptySet
    <3> QED
      BY <3>1, <3>2
  <2>6. (Cardinality(F) = 0 <=> F = {}) /\ (Cardinality(F) = 1 <=> One(F))
    <3> HIDE DEF F
    <3> QED
      BY <2>3, CardinalityCases
  <2>7. ng \in Nogoods(p) => old \subseteq F /\ WatchOK(p, ng)
    BY DEF WatchesOK
  <2>8. ng \notin Nogoods(p) => ng \notin p.unitNogoods /\ ng \notin p.contradictoryNogoods /\ old = {}
    BY DEF WatchesOK
  <2>9. CASE active
    <3>1. q.watched[ng] = old \cup FirstOf(F, 2) /\ old \subseteq F
      BY <2>1, <2>7, <2>8, <2>9
    <3>2. Enough(q.watched[ng], F)
      BY <3>1, <2>5 DEF Enough, One, Many
    <3>3. /\ ng \in q.unitNogoods <=> One(F)
          /\ ng \in q.contradictoryNogoods <=> F = {}
      BY <2>1, <2>6, <2>7, <2>8, <2>9 DEF WatchOK
    <3>4. ~Inactive(q, ng)
      BY <2>4, <2>9
    <3> QED
      BY <3>2, <3>3, <3>4, <2>2, <2>4, <1>1 DEF WatchOK, Enough
  <2>10. CASE ~active
    <3>1. /\ q.watched[ng] = old /\ (ng \in q.unitNogoods <=> ng \in p.unitNogoods)
          /\ ng \in q.contradictoryNogoods <=> ng \in p.contradictoryNogoods
      BY <2>1, <2>10
    <3>2. CASE ng \in Nogoods(p)
      BY <3>1, <3>2, <2>2, <2>4, <2>7 DEF WatchOK
    <3>3. CASE ng \notin Nogoods(p)
      BY <3>1, <3>3, <2>2, <2>4, <2>8, <2>10 DEF WatchOK
    <3> QED
      BY <3>2, <3>3
  <2> QED
    BY <2>9, <2>10
<1>5. q.unitNogoods \subseteq Nogoods(q) /\ q.contradictoryNogoods \subseteq Nogoods(q)
  <2>1. /\ q.unitNogoods \subseteq p.unitNogoods \cup new
        /\ q.contradictoryNogoods \subseteq p.contradictoryNogoods \cup new
    BY DEF RecordOK, AddNogoods, Accepted
  <2> QED
    BY <2>1, <1>1 DEF Extended, WatchesOK
<1> QED
  BY <1>1, <1>2, <1>4, <1>5 DEF WatchesOK

-----------------------------------------------------------------------------
(* clearFact.                                                              *)

\* A sequence without one of its elements, of which the later ones move up.
LEMMA Removal ==
  ASSUME NEW S, NEW s \in Seq(S), NEW k \in DOMAIN s, NEW t, t = RemoveAt(s, k)
  PROVE  /\ t \in Seq(S) /\ DOMAIN t = 1 .. Len(s) - 1
         /\ \A i \in DOMAIN t : t[i] = s[IF i < k THEN i ELSE i + 1]
<1>1. Len(s) \in Nat /\ DOMAIN s = 1 .. Len(s) /\ k \in 1 .. Len(s)
  OBVIOUS
<1> DEFINE u == SubSeq(s, 1, k - 1)
           v == SubSeq(s, k + 1, Len(s))
<1>2. /\ u \in Seq(S) /\ Len(u) = k - 1 /\ \A i \in 1 .. k - 1 : u[i] = s[i]
      /\ v \in Seq(S) /\ Len(v) = Len(s) - k /\ \A i \in 1 .. Len(s) - k : v[i] = s[i + k]
  <2>1. ASSUME NEW a \in 1 .. Len(s) + 1, NEW b \in Int, b <= Len(s), a <= b + 1
        PROVE  /\ SubSeq(s, a, b) \in Seq(S) /\ Len(SubSeq(s, a, b)) = b - a + 1
               /\ \A i \in 1 .. b - a + 1 : SubSeq(s, a, b)[i] = s[a + i - 1]
    BY <1>1, <2>1
  <2>2. u \in Seq(S) /\ Len(u) = k - 1 - 1 + 1 /\ \A i \in 1 .. k - 1 - 1 + 1 : u[i] = s[1 + i - 1]
    <3>1. 1 \in 1 .. Len(s) + 1 /\ k - 1 \in Int /\ k - 1 <= Len(s) /\ 1 <= k - 1 + 1
      BY <1>1
    <3> QED
      BY <3>1, <2>1
  <2>3. /\ v \in Seq(S) /\ Len(v) = Len(s) - (k + 1) + 1
        /\ \A i \in 1 .. Len(s) - (k + 1) + 1 : v[i] = s[k + 1 + i - 1]
    <3>1. k + 1 \in 1 .. Len(s) + 1 /\ Len(s) \in Int /\ Len(s) <= Len(s) /\ k + 1 <= Len(s) + 1
      BY <1>1
    <3> QED
      BY <3>1, <2>1
  <2> HIDE DEF u, v
  <2>4. /\ k - 1 - 1 + 1 = k - 1 /\ \A i \in 1 .. k - 1 : 1 + i - 1 = i
        /\ Len(s) - (k + 1) + 1 = Len(s) - k /\ \A i \in 1 .. Len(s) - k : k + 1 + i - 1 = i + k
    BY <1>1
  <2> QED
    BY <2>2, <2>3, <2>4
<1>3. t = u \o v
  BY DEF RemoveAt
<1> HIDE DEF u, v
<1>4. /\ u \o v \in Seq(S) /\ Len(u \o v) = Len(s) - 1
      /\ \A i \in 1 .. Len(s) - 1 : (u \o v)[i] = IF i <= k - 1 THEN u[i] ELSE v[i - (k - 1)]
  <2>1. ASSUME NEW a \in Seq(S), NEW b \in Seq(S)
        PROVE  /\ a \o b \in Seq(S) /\ Len(a \o b) = Len(a) + Len(b)
               /\ \A i \in 1 .. Len(a) + Len(b) : (a \o b)[i] = IF i <= Len(a) THEN a[i] ELSE b[i - Len(a)]
    OBVIOUS
  <2>2. Len(u) + Len(v) = Len(s) - 1
    BY <1>1, <1>2
  <2>3. /\ u \o v \in Seq(S) /\ Len(u \o v) = Len(u) + Len(v)
        /\ \A i \in 1 .. Len(u) + Len(v) : (u \o v)[i] = IF i <= Len(u) THEN u[i] ELSE v[i - Len(u)]
    BY <2>1, <1>2
  <2> QED
    BY <2>2, <2>3, <1>2
<1>5. DOMAIN t = 1 .. Len(s) - 1
  BY <1>3, <1>4, <1>1
<1>6. ASSUME NEW i \in 1 .. Len(s) - 1 PROVE t[i] = s[IF i < k THEN i ELSE i + 1]
  <2>1. CASE i < k
    BY <2>1, <1>1, <1>2, <1>3, <1>4
  <2>2. CASE ~(i < k)
    <3>1. i - (k - 1) \in 1 .. Len(s) - k /\ ~(i <= k - 1) /\ i - (k - 1) + k = i + 1
      BY <2>2, <1>1
    <3>2. t[i] = v[i - (k - 1)]
      BY <3>1, <1>3, <1>4
    <3>3. v[i - (k - 1)] = s[i - (k - 1) + k]
      BY <3>1, <1>2
    <3> QED
      BY <2>2, <3>1, <3>2, <3>3
  <2> QED
    BY <2>1, <2>2
<1> QED
  BY <1>3, <1>4, <1>5, <1>6

\* The effect of clearFact on the assignment, ...
Cleared(p, lit, q) ==
  LET k == Position(p, lit)
  IN  /\ k \in DOMAIN p.assignment /\ p.assignment[k] = lit
      /\ q.assignment = RemoveAt(p.assignment, k)
      /\ DOMAIN q.assignment = 1 .. Len(p.assignment) - 1
      /\ \A i \in DOMAIN q.assignment : q.assignment[i] = p.assignment[IF i < k THEN i ELSE i + 1]
      /\ q.decisionlevel = [p.decisionlevel EXCEPT ![Address(lit)] = 0]
      /\ q.cause = [p.cause EXCEPT ![Address(lit)] = NoCause]
      /\ Nogoods(q) = Nogoods(p)

LEMMA ClearFactFields ==
  ASSUME NEW S, NEW p, RecordOK(p), p.assignment \in Seq(S), NEW lit \in Range(p.assignment),
         NEW q, q = ClearFact(p, lit)
  PROVE  RecordOK(q) /\ Cleared(p, lit, q)
<1>1. Position(p, lit) \in DOMAIN p.assignment /\ p.assignment[Position(p, lit)] = lit
  BY DEF Range, Position
<1>2. /\ RecordOK(q) /\ Nogoods(q) = Nogoods(p)
      /\ q.assignment = RemoveAt(p.assignment, Position(p, lit))
      /\ q.decisionlevel = [p.decisionlevel EXCEPT ![Address(lit)] = 0]
      /\ q.cause = [p.cause EXCEPT ![Address(lit)] = NoCause]
  BY DEF RecordOK, ClearFact, Unassign, Nogoods
<1>3. /\ q.assignment \in Seq(S) /\ DOMAIN q.assignment = 1 .. Len(p.assignment) - 1
      /\ \A i \in DOMAIN q.assignment :
           q.assignment[i] = p.assignment[IF i < Position(p, lit) THEN i ELSE i + 1]
  BY <1>1, <1>2, Removal
<1> QED
  BY <1>1, <1>2, <1>3 DEF Cleared

\* ... on what is assigned, ...
LEMMA ClearFactAssignment ==
  ASSUME NEW atoms, AtomsOK(atoms), NEW p, AssignmentOK(p, atoms),
         NEW lit \in Range(p.assignment), NEW q, Cleared(p, lit, q)
  PROVE  /\ AssignmentOK(q, atoms)
         /\ Range(q.assignment) = Range(p.assignment) \ {lit}
         /\ lit \in LiteralsOf(atoms) /\ Negation(lit) \notin Range(p.assignment)
<1> DEFINE k == Position(p, lit)
           at(i) == IF i < k THEN i ELSE i + 1
<1>1. /\ k \in DOMAIN p.assignment /\ p.assignment[k] = lit
      /\ DOMAIN q.assignment = 1 .. Len(p.assignment) - 1
      /\ \A i \in DOMAIN q.assignment : q.assignment[i] = p.assignment[at(i)]
      /\ q.decisionlevel = [p.decisionlevel EXCEPT ![Address(lit)] = 0]
      /\ q.cause = [p.cause EXCEPT ![Address(lit)] = NoCause]
  BY DEF Cleared
<1>2. /\ DOMAIN p.assignment = 1 .. Len(p.assignment) /\ Len(p.assignment) \in Nat
      /\ \A i \in DOMAIN p.assignment : p.assignment[i] \in LiteralsOf(atoms)
  BY DEF AssignmentOK
<1>3. q.assignment \in Seq(LiteralsOf(atoms))
  BY Removal DEF Cleared, AssignmentOK
<1> HIDE DEF k
<1>4. \A i \in DOMAIN q.assignment : at(i) \in DOMAIN p.assignment \ {k}
  BY <1>1, <1>2
<1>5. \A j \in DOMAIN p.assignment \ {k} : \E i \in DOMAIN q.assignment : at(i) = j
  <2>1. SUFFICES ASSUME NEW j \in DOMAIN p.assignment \ {k}
                 PROVE  \E i \in DOMAIN q.assignment : at(i) = j
    OBVIOUS
  <2>2. CASE j < k
    <3>1. j \in DOMAIN q.assignment /\ at(j) = j
      BY <2>2, <1>1, <1>2
    <3> QED
      BY <3>1
  <2>3. CASE ~(j < k)
    <3>1. j - 1 \in DOMAIN q.assignment /\ at(j - 1) = j
      BY <2>3, <1>1, <1>2
    <3> QED
      BY <3>1
  <2> QED
    BY <2>2, <2>3
<1>6. \A i, j \in DOMAIN q.assignment : at(i) = at(j) => i = j
  BY <1>1, <1>2
<1>7. \A i, j \in DOMAIN p.assignment : Address(p.assignment[i]) = Address(p.assignment[j]) => i = j
  BY DEF AssignmentOK
<1>8. \A j \in DOMAIN p.assignment \ {k} : p.assignment[j] # lit
  BY <1>1, <1>7
<1> HIDE DEF at
<1>9. Range(q.assignment) = Range(p.assignment) \ {lit}
  <2>1. Range(q.assignment) = {p.assignment[j] : j \in DOMAIN p.assignment \ {k}}
    BY <1>1, <1>4, <1>5 DEF Range
  <2>2. ASSUME NEW l PROVE l \in Range(q.assignment) <=> l \in Range(p.assignment) \ {lit}
    <3>1. l \in Range(q.assignment) <=> \E j \in DOMAIN p.assignment \ {k} : p.assignment[j] = l
      BY <2>1
    <3>2. l \in Range(p.assignment) <=> \E j \in DOMAIN p.assignment : p.assignment[j] = l
      BY DEF Range
    <3> QED
      BY <3>1, <3>2, <1>1, <1>8
  <2> QED
    BY <2>2
<1>10. \A i, j \in DOMAIN q.assignment : Address(q.assignment[i]) = Address(q.assignment[j]) => i = j
  BY <1>1, <1>4, <1>6, <1>7
<1>11. lit \in LiteralsOf(atoms)
  BY <1>1, <1>2
<1>12. Negation(lit) \notin Range(p.assignment)
  <2>1. Negation(lit) # lit /\ Address(Negation(lit)) = Address(lit)
    BY <1>11, LiteralsType
  <2>2. \A j \in DOMAIN p.assignment : p.assignment[j] # Negation(lit)
    BY <2>1, <1>1, <1>7
  <2> QED
    BY <2>2 DEF Range
<1>13. q.decisionlevel \in [atoms -> Nat] /\ q.cause \in [atoms -> SUBSET LiteralsOf(atoms)]
  <2>1. Address(lit) \in atoms
    BY <1>11, LiteralsType
  <2> QED
    BY <2>1, <1>1 DEF AssignmentOK, NoCause
<1> QED
  BY <1>9, <1>10, <1>11, <1>12, <1>13, <1>3 DEF AssignmentOK

\* ... and on the watches of one nogood.
Reexamined(p, lit, ng, q) ==
  LET W == p.watched[ng]
      G == Free(p, ng) \cup ({lit, Negation(lit)} \cap ng)
      touched == {lit, Negation(lit)} \cap ng # {}
      reactivated == Cardinality(W) = 0 /\ touched /\ ~Inactive(p, ng \ {Negation(lit)})
      single == Cardinality(W) = 1 /\ touched
  IN  /\ reactivated => q.watched[ng] = FirstOf(G, 2)
      /\ ~reactivated => q.watched[ng] = IF single THEN W \cup {lit} ELSE W
      /\ ng \in q.unitNogoods <=> (ng \in p.unitNogoods /\ ~single) \/ (reactivated /\ Cardinality(G) = 1)
      /\ ng \in q.contradictoryNogoods <=> ng \in p.contradictoryNogoods /\ ~reactivated

LEMMA ClearFactWatches ==
  ASSUME NEW p, RecordOK(p), NEW lit, NEW q, q = ClearFact(p, lit), NEW ng \in Nogoods(p)
  PROVE  Reexamined(p, lit, ng, q)
<1> DEFINE watching(n, k) == Cardinality(p.watched[n]) = k /\ {lit, Negation(lit)} \cap n # {}
           reactivated(n) == watching(n, 0) /\ ~Inactive(p, n \ {Negation(lit)})
           active == {n \in Nogoods(p) : reactivated(n)}
           free(n) == Free(p, n) \cup ({lit, Negation(lit)} \cap n)
           watch(n) == IF reactivated(n) THEN FirstOf(free(n), 2)
                       ELSE IF watching(n, 1) THEN p.watched[n] \cup {lit} ELSE p.watched[n]
<1>1. /\ q.watched = [n \in Nogoods(p) |-> watch(n)]
      /\ q.unitNogoods = {n \in p.unitNogoods : ~watching(n, 1)} \cup {n \in active : Cardinality(free(n)) = 1}
      /\ q.contradictoryNogoods = p.contradictoryNogoods \ active
  BY DEF RecordOK, ClearFact, Unassign
<1>2. q.watched[ng] = watch(ng)
  <2> HIDE DEF watch
  <2> QED
    BY <1>1
<1>3. ng \in active <=> reactivated(ng)
  OBVIOUS
<1>4. /\ ng \in q.unitNogoods <=> (ng \in p.unitNogoods /\ ~watching(ng, 1)) \/ (reactivated(ng) /\ Cardinality(free(ng)) = 1)
      /\ ng \in q.contradictoryNogoods <=> ng \in p.contradictoryNogoods /\ ~reactivated(ng)
  <2> HIDE DEF watching, reactivated, active, free
  <2> QED
    BY <1>1, <1>3
<1>5. free(ng) = Free(p, ng) \cup ({lit, Negation(lit)} \cap ng)
  OBVIOUS
<1>6. /\ watching(ng, 1) <=> Cardinality(p.watched[ng]) = 1 /\ {lit, Negation(lit)} \cap ng # {}
      /\ reactivated(ng) <=> /\ Cardinality(p.watched[ng]) = 0 /\ {lit, Negation(lit)} \cap ng # {}
                             /\ ~Inactive(p, ng \ {Negation(lit)})
  OBVIOUS
<1>7. watch(ng) = IF reactivated(ng) THEN FirstOf(free(ng), 2)
                  ELSE IF watching(ng, 1) THEN p.watched[ng] \cup {lit} ELSE p.watched[ng]
  OBVIOUS
<1> HIDE DEF watching, reactivated, active, free, watch
<1> QED
  BY <1>2, <1>4, <1>5, <1>6, <1>7 DEF Reexamined

\* What is free and inactive after a literal was cleared.
LEMMA AfterClear ==
  ASSUME NEW atoms, AtomsOK(atoms), NEW p, NEW q, NEW lit \in LiteralsOf(atoms),
         lit \in Range(p.assignment), Negation(lit) \notin Range(p.assignment),
         Range(q.assignment) = Range(p.assignment) \ {lit},
         NEW ng, ng \subseteq LiteralsOf(atoms)
  PROVE  /\ Free(q, ng) = Free(p, ng) \cup ({lit, Negation(lit)} \cap ng)
         /\ Inactive(q, ng) <=> Inactive(p, ng \ {Negation(lit)})
         /\ lit \notin Free(p, ng)
         /\ Negation(lit) \in ng => Inactive(p, ng)
         /\ Inactive(p, ng \ {Negation(lit)}) => Inactive(p, ng)
<1>1. Negation(lit) # lit /\ Negation(Negation(lit)) = lit
  BY LiteralsType
<1>2. \A l \in ng : l \in LiteralsOf(atoms) /\ Negation(Negation(l)) = l
  BY LiteralsType
<1>3. \A l \in ng : (l = lit <=> Negation(l) = Negation(lit)) /\ (l = Negation(lit) <=> Negation(l) = lit)
  BY <1>1, <1>2
<1>4. Free(q, ng) = Free(p, ng) \cup ({lit, Negation(lit)} \cap ng)
  <2>1. ASSUME NEW l \in ng PROVE Unassigned(q, l) <=> Unassigned(p, l) \/ l = lit \/ l = Negation(lit)
    BY <1>1, <1>3 DEF Unassigned, Satisfied, Falsified
  <2> QED
    BY <2>1 DEF Free
<1>5. Inactive(q, ng) <=> Inactive(p, ng \ {Negation(lit)})
  BY <1>1, <1>3 DEF Inactive, Falsified
<1>6. lit \notin Free(p, ng) /\ (Negation(lit) \in ng => Inactive(p, ng))
  BY <1>1 DEF Free, Unassigned, Satisfied, Inactive, Falsified
<1>7. Inactive(p, ng \ {Negation(lit)}) => Inactive(p, ng)
  BY DEF Inactive
<1> QED
  BY <1>4, <1>5, <1>6, <1>7

LEMMA ClearFactWatchOK ==
  ASSUME NEW atoms, AtomsOK(atoms), NEW p, RecordOK(p), NEW lit \in LiteralsOf(atoms),
         lit \in Range(p.assignment), Negation(lit) \notin Range(p.assignment),
         NEW q, q = ClearFact(p, lit), Range(q.assignment) = Range(p.assignment) \ {lit},
         NEW ng \in Nogoods(p), ng \subseteq LiteralsOf(atoms), p.watched[ng] \subseteq Free(p, ng),
         WatchOK(p, ng)
  PROVE  q.watched[ng] \subseteq Free(q, ng) /\ WatchOK(q, ng)
<1> DEFINE W == p.watched[ng]
           F == Free(p, ng)
           G == Free(q, ng)
           touched == {lit, Negation(lit)} \cap ng # {}
           reactivated == W = {} /\ touched /\ ~Inactive(q, ng)
           single == One(W) /\ touched
<1>1. /\ G = F \cup ({lit, Negation(lit)} \cap ng)
      /\ Inactive(q, ng) <=> Inactive(p, ng \ {Negation(lit)})
      /\ lit \notin F /\ (Negation(lit) \in ng => Inactive(p, ng))
      /\ Inactive(q, ng) => Inactive(p, ng)
  BY AfterClear
<1>2. IsFiniteSet(F) /\ G \in SUBSET (Int \ {0}) /\ IsFiniteSet(G) /\ W \in SUBSET F
  BY FreeType
<1>3. /\ Cardinality(W) = 0 <=> W = {}
      /\ Cardinality(W) = 1 <=> One(W)
      /\ Cardinality(W) >= 2 <=> Many(W)
      /\ Cardinality(W) \in Nat
  BY <1>2, CardinalityCases, FS_Subset
<1>4. Cardinality(G) = 1 <=> One(G)
  BY <1>2, CardinalityCases
<1>5. /\ reactivated => q.watched[ng] = FirstOf(G, 2)
      /\ ~reactivated => q.watched[ng] = IF single THEN W \cup {lit} ELSE W
      /\ ng \in q.unitNogoods <=> (ng \in p.unitNogoods /\ ~single) \/ (reactivated /\ One(G))
      /\ ng \in q.contradictoryNogoods <=> ng \in p.contradictoryNogoods /\ ~reactivated
  <2>1. Reexamined(p, lit, ng, q)
    BY ClearFactWatches
  <2> QED
    BY <2>1, <1>1, <1>3, <1>4 DEF Reexamined
<1>6. Enough(FirstOf(G, 2), G)
  <2> HIDE DEF G
  <2>1. Enough({} \cup FirstOf(G \ {}, 2 - Cardinality({})), G)
    BY <1>2, FirstOfEnough
  <2>2. G \ {} = G /\ 2 - Cardinality({}) = 2 /\ {} \cup FirstOf(G, 2) = FirstOf(G, 2)
    BY FS_EmptySet
  <2> QED
    BY <2>1, <2>2
<1> HIDE DEF F, G
<1>7. CASE reactivated
  <2>1. ng \notin p.unitNogoods
    <3>1. ~One(W)
      BY <1>7 DEF One
    <3> QED
      BY <3>1 DEF WatchOK, Enough
  <2>2. G # {}
    BY <1>1, <1>7
  <2> QED
    BY <2>1, <2>2, <1>5, <1>6, <1>7 DEF WatchOK, Enough, G
<1>8. CASE single
  <2>1. ~Inactive(p, ng)
    BY <1>8 DEF WatchOK, One, Many
  <2>2. W = F /\ One(F)
    BY <2>1, <1>8 DEF WatchOK, Enough, One, Many, F
  <2>3. lit \in ng /\ Negation(lit) \notin ng
    BY <2>1, <1>1, <1>8
  <2>4. G = W \cup {lit} /\ lit \notin W
    BY <2>2, <2>3, <1>1
  <2>5. Many(G) /\ ~One(G) /\ G # {}
    BY <2>4, <1>8 DEF One, Many
  <2>6. ~reactivated
    BY <1>8 DEF One
  <2>7. ng \notin p.contradictoryNogoods
    BY <2>1, <2>2 DEF WatchOK, One, F
  <2>8. q.watched[ng] = G
    BY <2>4, <2>6, <1>5, <1>8
  <2> QED
    BY <2>1, <2>5, <2>7, <2>8, <1>1, <1>5, <1>8, <2>6 DEF WatchOK, Enough, G
<1>9. CASE ~touched
  <2>1. G = F /\ (Inactive(q, ng) <=> Inactive(p, ng))
    <3>1. ng \ {Negation(lit)} = ng
      BY <1>9
    <3> QED
      BY <3>1, <1>1, <1>9
  <2> QED
    BY <2>1, <1>5, <1>9 DEF WatchOK, F, G
<1>10. CASE touched /\ Many(W)
  <2>1. ~reactivated /\ ~single
    BY <1>10 DEF One, Many
  <2>2. Many(G) /\ ~One(G) /\ G # {} /\ W \subseteq G
    BY <1>1, <1>2, <1>10 DEF One, Many
  <2>3. ng \notin p.unitNogoods /\ ng \notin p.contradictoryNogoods
    BY <1>10, <1>2 DEF WatchOK, Enough, One, Many
  <2> QED
    BY <2>1, <2>2, <2>3, <1>5, <1>10 DEF WatchOK, Enough, G
<1>11. CASE touched /\ W = {} /\ ~reactivated
  <2>1. Inactive(q, ng) /\ Inactive(p, ng) /\ ~single
    BY <1>11, <1>1 DEF One
  <2> QED
    BY <2>1, <1>5, <1>11 DEF WatchOK
<1>12. W = {} \/ One(W) \/ Many(W)
  BY DEF One, Many
<1> QED
  BY <1>7, <1>8, <1>9, <1>10, <1>11, <1>12

\* clearFact keeps the record right, whichever literal is cleared.
LEMMA ClearFactOK ==
  ASSUME NEW atoms, AtomsOK(atoms), NEW p, RecordOK(p), AssignmentOK(p, atoms), WatchesOK(p, atoms, {}),
         NEW lit \in Range(p.assignment), NEW q, q = ClearFact(p, lit)
  PROVE  /\ RecordOK(q) /\ AssignmentOK(q, atoms) /\ WatchesOK(q, atoms, {})
         /\ Range(q.assignment) = Range(p.assignment) \ {lit}
         /\ Cleared(p, lit, q)
<1>1. p.assignment \in Seq(LiteralsOf(atoms))
  BY DEF AssignmentOK
<1>2. RecordOK(q) /\ Cleared(p, lit, q)
  BY <1>1, ClearFactFields
<1>3. /\ AssignmentOK(q, atoms) /\ Range(q.assignment) = Range(p.assignment) \ {lit}
      /\ lit \in LiteralsOf(atoms) /\ Negation(lit) \notin Range(p.assignment)
  BY <1>2, ClearFactAssignment
<1>4. Nogoods(q) = Nogoods(p)
  BY <1>2 DEF Cleared
<1>5. /\ q.watched = [ng \in Nogoods(q) |-> q.watched[ng]]
      /\ q.unitNogoods \subseteq Nogoods(q) /\ q.contradictoryNogoods \subseteq Nogoods(q)
  BY <1>4 DEF RecordOK, ClearFact, Unassign, WatchesOK, Nogoods
<1>6. ASSUME NEW ng \in Nogoods(p)
      PROVE  q.watched[ng] \subseteq Free(q, ng) /\ WatchOK(q, ng)
  <2>1. ng \subseteq LiteralsOf(atoms) /\ p.watched[ng] \subseteq Free(p, ng) /\ WatchOK(p, ng)
    BY DEF WatchesOK
  <2> QED
    BY <2>1, <1>3, ClearFactWatchOK
<1> QED
  BY <1>2, <1>3, <1>4, <1>5, <1>6 DEF WatchesOK

-----------------------------------------------------------------------------
(* The order of the assignment: levels and causes.                         *)

LevelIn(p, lit) == p.decisionlevel[Address(lit)]
Below(p, dl) == \A lit \in Range(p.assignment) : LevelIn(p, lit) <= dl

\* The literal at position i was implied by its cause, see CausesJustify.
Justified(p, i) ==
  LET lit == p.assignment[i]
      c == p.cause[Address(lit)]
  IN  c # NoCause => /\ c \in Nogoods(p)
                     /\ Negation(lit) \in c
                     /\ \A l \in c \ {Negation(lit)} :
                          /\ l \in {p.assignment[j] : j \in 1 .. i - 1}
                          /\ LevelIn(p, l) <= LevelIn(p, lit)

\* While facts are cleared, only those that stay have to be justified.
CausesOK(p, dl) == \A i \in DOMAIN p.assignment : LevelIn(p, p.assignment[i]) <= dl => Justified(p, i)

\* A new literal changes nothing about the other ones.
LEMMA AssignedOrder ==
  ASSUME NEW atoms, AtomsOK(atoms), NEW p, AssignmentOK(p, atoms),
         NEW lit \in LiteralsOf(atoms), Unassigned(p, lit), NEW dl, NEW c, NEW q, Assigned(p, lit, dl, c, q)
  PROVE  /\ DOMAIN q.assignment = 1 .. Len(p.assignment) + 1
         /\ DOMAIN p.assignment = 1 .. Len(p.assignment) /\ Len(p.assignment) \in Nat
         /\ q.assignment[Len(p.assignment) + 1] = lit
         /\ LevelIn(q, lit) = dl /\ q.cause[Address(lit)] = c
         /\ \A i \in DOMAIN p.assignment : q.assignment[i] = p.assignment[i]
         /\ \A l \in Range(p.assignment) : /\ l \in LiteralsOf(atoms) /\ l # lit
                                           /\ LevelIn(q, l) = LevelIn(p, l)
                                           /\ q.cause[Address(l)] = p.cause[Address(l)]
<1>1. /\ q.assignment = Append(p.assignment, lit)
      /\ q.decisionlevel = [p.decisionlevel EXCEPT ![Address(lit)] = dl]
      /\ q.cause = [p.cause EXCEPT ![Address(lit)] = c]
  BY DEF Assigned
<1>2. p.assignment \in Seq(LiteralsOf(atoms)) /\ DOMAIN p.decisionlevel = atoms /\ DOMAIN p.cause = atoms
  BY DEF AssignmentOK
<1>3. /\ DOMAIN q.assignment = 1 .. Len(p.assignment) + 1
      /\ DOMAIN p.assignment = 1 .. Len(p.assignment) /\ Len(p.assignment) \in Nat
      /\ q.assignment[Len(p.assignment) + 1] = lit
      /\ \A i \in DOMAIN p.assignment : q.assignment[i] = p.assignment[i]
  BY <1>1, <1>2
<1>4. Address(lit) \in atoms
  BY LiteralsType
<1>5. ASSUME NEW l \in Range(p.assignment)
      PROVE  l \in LiteralsOf(atoms) /\ Address(l) # Address(lit) /\ l # lit
  <2>1. l \in LiteralsOf(atoms)
    BY <1>2 DEF Range
  <2> QED
    BY <2>1, LiteralsType DEF Unassigned, Satisfied, Falsified
<1> QED
  BY <1>1, <1>2, <1>3, <1>4, <1>5 DEF LevelIn

\* What may be the cause of a new literal.
MayCause(p, lit, dl, c) ==
  c # NoCause => /\ c \in Nogoods(p)
                 /\ Negation(lit) \in c
                 /\ \A l \in c \ {Negation(lit)} : l \in Range(p.assignment) /\ LevelIn(p, l) <= dl

LEMMA AssignedCauses ==
  ASSUME NEW atoms, AtomsOK(atoms), NEW p, AssignmentOK(p, atoms),
         NEW lit \in LiteralsOf(atoms), Unassigned(p, lit), NEW dl, NEW c, NEW q, Assigned(p, lit, dl, c, q),
         NEW bound, CausesOK(p, bound), MayCause(p, lit, dl, c)
  PROVE  CausesOK(q, bound)
<1>1. /\ DOMAIN q.assignment = 1 .. Len(p.assignment) + 1
      /\ DOMAIN p.assignment = 1 .. Len(p.assignment) /\ Len(p.assignment) \in Nat
      /\ q.assignment[Len(p.assignment) + 1] = lit
      /\ LevelIn(q, lit) = dl /\ q.cause[Address(lit)] = c
      /\ \A i \in DOMAIN p.assignment : q.assignment[i] = p.assignment[i]
      /\ \A l \in Range(p.assignment) : /\ l \in LiteralsOf(atoms) /\ l # lit
                                        /\ LevelIn(q, l) = LevelIn(p, l)
                                        /\ q.cause[Address(l)] = p.cause[Address(l)]
  BY AssignedOrder
<1>2. Nogoods(q) = Nogoods(p)
  BY DEF Assigned
<1>3. ASSUME NEW i \in DOMAIN p.assignment, LevelIn(q, q.assignment[i]) <= bound
      PROVE  Justified(q, i)
  <2> DEFINE m == p.assignment[i]
  <2>1. m \in Range(p.assignment) /\ q.assignment[i] = m
    BY <1>1 DEF Range
  <2>2. LevelIn(q, m) = LevelIn(p, m) /\ q.cause[Address(m)] = p.cause[Address(m)]
    BY <2>1, <1>1
  <2>3. Justified(p, i)
    BY <2>1, <2>2, <1>3 DEF CausesOK
  <2>4. i \in 1 .. Len(p.assignment) /\ 1 .. i - 1 \subseteq DOMAIN p.assignment
    BY <1>1
  <2>5. \A j \in 1 .. i - 1 : p.assignment[j] \in Range(p.assignment) /\ q.assignment[j] = p.assignment[j]
    BY <2>4, <1>1 DEF Range
  <2> DEFINE k == p.cause[Address(m)]
  <2>6. k # NoCause => /\ k \in Nogoods(p) /\ Negation(m) \in k
                       /\ \A l \in k \ {Negation(m)} : /\ \E j \in 1 .. i - 1 : l = p.assignment[j]
                                                       /\ LevelIn(p, l) <= LevelIn(p, m)
    BY <2>3 DEF Justified
  <2>7. ASSUME k # NoCause, NEW l \in k \ {Negation(m)}
        PROVE  l \in {q.assignment[j] : j \in 1 .. i - 1} /\ LevelIn(q, l) <= LevelIn(q, m)
    <3>1. PICK j \in 1 .. i - 1 : l = p.assignment[j]
      BY <2>6, <2>7
    <3>2. LevelIn(p, l) <= LevelIn(p, m)
      BY <2>6, <2>7
    <3> QED
      BY <3>1, <3>2, <2>2, <2>5, <1>1
  <2> QED
    BY <2>1, <2>2, <2>6, <2>7, <1>2 DEF Justified
<1>4. Justified(q, Len(p.assignment) + 1)
  <2>1. ASSUME c # NoCause, NEW l \in c \ {Negation(lit)}
        PROVE  l \in {q.assignment[j] : j \in 1 .. Len(p.assignment) + 1 - 1} /\ LevelIn(q, l) <= LevelIn(q, lit)
    <3>1. l \in Range(p.assignment) /\ LevelIn(p, l) <= dl
      BY <2>1 DEF MayCause
    <3>2. PICK j \in DOMAIN p.assignment : l = p.assignment[j]
      BY <3>1 DEF Range
    <3> QED
      BY <3>1, <3>2, <1>1
  <2> QED
    BY <2>1, <1>1, <1>2 DEF Justified, MayCause
<1> QED
  BY <1>1, <1>3, <1>4 DEF CausesOK

\* A literal of a higher level is never in a cause, and the order of the others stays.
LEMMA ClearedCauses ==
  ASSUME NEW atoms, AtomsOK(atoms), NEW p, AssignmentOK(p, atoms), NEW lit \in Range(p.assignment),
         NEW q, Cleared(p, lit, q), NEW dl \in Nat, dl < LevelIn(p, lit), CausesOK(p, dl)
  PROVE  /\ CausesOK(q, dl)
         /\ \A l \in Range(p.assignment) \ {lit} : LevelIn(q, l) = LevelIn(p, l)
<1> DEFINE k == Position(p, lit)
           at(i) == IF i < k THEN i ELSE i + 1
<1>1. /\ k \in DOMAIN p.assignment /\ p.assignment[k] = lit
      /\ DOMAIN q.assignment = 1 .. Len(p.assignment) - 1
      /\ \A i \in DOMAIN q.assignment : q.assignment[i] = p.assignment[at(i)]
      /\ q.decisionlevel = [p.decisionlevel EXCEPT ![Address(lit)] = 0]
      /\ q.cause = [p.cause EXCEPT ![Address(lit)] = NoCause]
      /\ Nogoods(q) = Nogoods(p)
  BY DEF Cleared
<1>2. /\ DOMAIN p.assignment = 1 .. Len(p.assignment) /\ Len(p.assignment) \in Nat
      /\ DOMAIN p.decisionlevel = atoms /\ DOMAIN p.cause = atoms
      /\ \A i \in DOMAIN p.assignment : p.assignment[i] \in LiteralsOf(atoms)
      /\ p.decisionlevel \in [atoms -> Nat]
      /\ \A i, j \in DOMAIN p.assignment : Address(p.assignment[i]) = Address(p.assignment[j]) => i = j
  BY DEF AssignmentOK
<1> HIDE DEF k
<1>3. \A j \in DOMAIN p.assignment \ {k} :
        LET l == p.assignment[j]
        IN  Address(l) # Address(lit) /\ LevelIn(q, l) = LevelIn(p, l) /\ q.cause[Address(l)] = p.cause[Address(l)]
  <2>1. \A j \in DOMAIN p.assignment : Address(p.assignment[j]) \in atoms
    BY <1>2, LiteralsType
  <2> QED
    BY <2>1, <1>1, <1>2 DEF LevelIn
<1>4. \A i \in DOMAIN q.assignment : at(i) \in DOMAIN p.assignment \ {k}
  BY <1>1, <1>2
<1>5. ASSUME NEW i \in DOMAIN q.assignment, LevelIn(q, q.assignment[i]) <= dl
      PROVE  Justified(q, i)
  <2> DEFINE m == p.assignment[at(i)]
             c == p.cause[Address(m)]
  <2>1. at(i) \in DOMAIN p.assignment \ {k} /\ q.assignment[i] = m
    BY <1>1, <1>4
  <2> HIDE DEF at
  <2>2. LevelIn(q, m) = LevelIn(p, m) /\ q.cause[Address(m)] = c
    BY <2>1, <1>3
  <2>3. Justified(p, at(i))
    BY <2>1, <2>2, <1>5 DEF CausesOK
  <2>4. c # NoCause => /\ c \in Nogoods(p) /\ Negation(m) \in c
                       /\ \A l \in c \ {Negation(m)} : /\ \E j \in 1 .. at(i) - 1 : l = p.assignment[j]
                                                       /\ LevelIn(p, l) <= LevelIn(p, m)
    BY <2>3 DEF Justified
  <2>5. ASSUME c # NoCause, NEW l \in c \ {Negation(m)}
        PROVE  l \in {q.assignment[j] : j \in 1 .. i - 1} /\ LevelIn(q, l) <= LevelIn(q, m)
    <3>1. PICK j \in 1 .. at(i) - 1 : l = p.assignment[j]
      BY <2>4, <2>5
    <3>2. LevelIn(p, l) <= LevelIn(p, m) /\ LevelIn(p, m) <= dl
      BY <2>1, <2>2, <2>4, <2>5, <1>5
    <3>3. at(i) \in 1 .. Len(p.assignment) /\ j \in DOMAIN p.assignment
      BY <2>1, <1>2
    <3>4. j # k
      <4>1. \A n \in DOMAIN p.assignment : LevelIn(p, p.assignment[n]) \in Nat
        BY <1>2, LiteralsType DEF LevelIn
      <4>2. LevelIn(p, lit) \in Nat /\ LevelIn(p, l) \in Nat /\ LevelIn(p, m) \in Nat
        BY <4>1, <2>1, <3>1, <3>3, <1>1
      <4> QED
        BY <4>2, <3>1, <3>2, <1>1
    <3>5. LevelIn(q, l) = LevelIn(p, l)
      BY <3>1, <3>3, <3>4, <1>3
    <3>6. \E n \in 1 .. i - 1 : l = q.assignment[n]
      <4>1. i \in 1 .. Len(p.assignment) - 1 /\ k \in 1 .. Len(p.assignment)
        BY <1>1, <1>2
      <4>2. CASE j < k
        <5>1. j \in 1 .. i - 1 /\ j \in DOMAIN q.assignment /\ at(j) = j
          BY <4>1, <4>2, <3>1, <3>3, <1>1, <1>2 DEF at
        <5> QED
          BY <5>1, <3>1, <1>1
      <4>3. CASE ~(j < k)
        <5>1. j \in Nat /\ k \in Nat /\ i \in Nat /\ k < j /\ 1 <= k
          BY <4>3, <3>3, <3>4, <1>1
        <5>2. j \in 1 .. at(i) - 1 /\ at(i) = i + 1
          BY <5>1, <3>1 DEF at
        <5>3. at(j - 1) = j
          BY <5>1 DEF at
        <5>4. j - 1 \in 1 .. i - 1
          BY <5>1, <5>2
        <5>5. j - 1 \in 1 .. Len(p.assignment) - 1
          BY <4>1, <5>1, <5>4, <1>2
        <5>6. j - 1 \in 1 .. i - 1 /\ j - 1 \in DOMAIN q.assignment /\ at(j - 1) = j
          BY <5>3, <5>4, <5>5, <1>1, Zenon
        <5> QED
          BY <5>6, <3>1, <1>1
      <4> QED
        BY <4>2, <4>3
    <3> QED
      BY <3>2, <3>5, <3>6, <2>2
  <2> QED
    BY <2>1, <2>2, <2>4, <2>5, <1>1 DEF Justified
<1>6. ASSUME NEW l \in Range(p.assignment) \ {lit} PROVE LevelIn(q, l) = LevelIn(p, l)
  <2>1. PICK j \in DOMAIN p.assignment : l = p.assignment[j]
    BY DEF Range
  <2>2. j # k
    BY <2>1, <1>1
  <2> QED
    BY <2>1, <2>2, <1>3
<1> QED
  BY <1>5, <1>6 DEF CausesOK

-----------------------------------------------------------------------------
(* The inductive invariant.                                                *)

PropagationOK == RecordOK(propagation) /\ AssignmentOK(propagation, Atoms) /\ WatchesOK(propagation, Atoms, {})

InstanceOK ==
  /\ instance = [problem |-> instance.problem, atoms |-> instance.atoms,
                 assumptions |-> instance.assumptions, restarts |-> instance.restarts]
  /\ instance.problem \in Instances
  /\ Atoms = AtomsOf(Given)
  /\ instance.assumptions \subseteq LiteralsOf(Atoms) /\ Consistent(instance.assumptions)
  /\ nogoodsToAdd \subseteq Late

LevelsOK ==
  /\ currentDL \in Nat /\ exhaustedDL \in Nat /\ exhaustedDL <= currentDL
  /\ ~Backtracking => Below(propagation, currentDL)
  /\ pc = "assuming" => Range(propagation.assignment) \subseteq instance.assumptions

\* Each level up to the current one has its decision literal.
DecisionsOK(p, dl, decisions, atoms) ==
  /\ decisions \in [atoms -> LiteralsOf(atoms) \cup {0}]
  /\ \A n \in 1 .. dl : /\ n \in atoms
                        /\ decisions[n] \in Range(p.assignment)
                        /\ LevelIn(p, decisions[n]) = n

\* The literal to set after backtracking will be unassigned by then.
FlippedOK ==
  flipped # 0 => /\ Backtracking
                 /\ flipped \in LiteralsOf(Atoms) /\ flipped \notin Range(propagation.assignment)
                 /\ Negation(flipped) \in Range(propagation.assignment) => LevelIn(propagation, flipped) > currentDL

\* Conflict analysis goes from one violated nogood to another.
AnalysisOK ==
  /\ analysis = [learnedNogood |-> analysis.learnedNogood, backtrackDL |-> analysis.backtrackDL]
  /\ analysis.backtrackDL \in Nat /\ analysis.backtrackDL <= currentDL
  /\ pc = "analysis" => analysis.learnedNogood \subseteq Range(propagation.assignment)
  /\ pc # "analysis" => analysis = NoAnalysis

CDNLInv ==
  /\ PropagationOK
  /\ InstanceOK
  /\ LevelsOK
  /\ DecisionsOK(propagation, currentDL, decisionLiteral, Atoms)
  /\ FlippedOK
  /\ CausesOK(propagation, currentDL)
  /\ AnalysisOK

LEMMA InstanceType ==
  ASSUME InstanceOK
  PROVE  AtomsOK(Atoms) /\ Given \in SUBSET SUBSET Int /\ Late \in SUBSET SUBSET Int /\ 0 \notin LiteralsOf(Atoms)
<1>1. /\ instance.problem \in Instances
      /\ Atoms = AtomsOf(instance.problem.nogoods)
  BY DEF InstanceOK, Given
<1>2. /\ \A ng \in instance.problem.nogoods \cup instance.problem.late : ng \subseteq Int
      /\ IsFiniteSet(AtomsOf(instance.problem.nogoods))
      /\ AtomsOf(instance.problem.nogoods) = 1 .. Cardinality(AtomsOf(instance.problem.nogoods))
  BY <1>1, InstancesAssumption
<1>3. Cardinality(AtomsOf(instance.problem.nogoods)) \in Nat
  BY <1>2, FS_CardinalityType
<1>4. AtomsOK(Atoms)
  BY <1>1, <1>2, <1>3 DEF AtomsOK
<1> QED
  BY <1>2, <1>4, LiteralsType DEF Given, Late

\* With nothing assigned, initWatchingStructures has nothing to respect.
LEMMA InitWatchingStructuresOK ==
  ASSUME AtomsOK(Atoms), NEW nogoods \in SUBSET SUBSET Int, NEW q, q = InitWatchingStructures(nogoods)
  PROVE  /\ RecordOK(q) /\ AssignmentOK(q, Atoms) /\ WatchesOK(q, Atoms, {})
         /\ Range(q.assignment) = {} /\ CausesOK(q, 0)
         /\ Nogoods(q) = Accepted(nogoods, Atoms)
<1> DEFINE p == NothingSet
<1>1. /\ RecordOK(p) /\ p.assignment = <<>>
      /\ p.decisionlevel = [a \in Atoms |-> 0] /\ p.cause = [a \in Atoms |-> NoCause]
      /\ p.watched = [ng \in {} |-> {}] /\ Nogoods(p) = {}
      /\ p.unitNogoods = {} /\ p.contradictoryNogoods = {}
  BY DEF NothingSet, RecordOK, Nogoods
<1> HIDE DEF p
<1>2. AssignmentOK(p, Atoms)
  <2>1. p.assignment \in Seq(LiteralsOf(Atoms)) /\ DOMAIN p.assignment = {}
    BY <1>1
  <2>2. p.decisionlevel \in [Atoms -> Nat] /\ p.cause \in [Atoms -> SUBSET LiteralsOf(Atoms)]
    BY <1>1 DEF NoCause
  <2> QED
    BY <2>1, <2>2 DEF AssignmentOK
<1>3. WatchesOK(p, Atoms, {})
  BY <1>1 DEF WatchesOK
<1>4. q = AddNogoods(p, nogoods)
  BY DEF InitWatchingStructures, p
<1>5. /\ RecordOK(q) /\ AssignmentOK(q, Atoms) /\ WatchesOK(q, Atoms, {})
      /\ Extended(p, Accepted(nogoods, Atoms), q)
  BY <1>1, <1>2, <1>3, <1>4, AddNogoodsOK
<1>6. q.assignment = <<>> /\ Nogoods(q) = Accepted(nogoods, Atoms)
  BY <1>1, <1>5 DEF Extended
<1>7. DOMAIN q.assignment = {}
  BY <1>6
<1> QED
  BY <1>5, <1>6, <1>7 DEF Range, CausesOK

LEMMA InitInvariant == Init => CDNLInv
<1> SUFFICES ASSUME Init PROVE CDNLInv
  OBVIOUS
<1>1. PICK I \in Instances : instance = InstanceOf(I)
  BY DEF Init
<1>2. /\ instance.problem = I /\ Atoms = AtomsOf(I.nogoods) /\ instance.assumptions = I.facts
      /\ instance = [problem |-> instance.problem, atoms |-> instance.atoms,
                     assumptions |-> instance.assumptions, restarts |-> instance.restarts]
  BY <1>1 DEF InstanceOf, Atoms
<1>3. InstanceOK
  <2>1. /\ I.facts \subseteq AtomsOf(I.nogoods) /\ AtomsOf(I.nogoods) = 1 .. Cardinality(AtomsOf(I.nogoods))
        /\ Cardinality(AtomsOf(I.nogoods)) \in Nat
    BY InstancesAssumption, FS_CardinalityType
  <2>2. \A a \in I.facts : a \in Int /\ a > 0 /\ Address(a) = a /\ Address(a) \in Atoms
    BY <2>1, <1>2 DEF Address
  <2>3. instance.assumptions \subseteq LiteralsOf(Atoms) /\ Consistent(instance.assumptions)
    BY <2>2, <1>2 DEF LiteralsOf, Consistent, Negation
  <2> QED
    BY <2>3, <1>2 DEF InstanceOK, Init, Given
<1>4. AtomsOK(Atoms) /\ Given \in SUBSET SUBSET Int
  BY <1>3, InstanceType
<1>5. /\ PropagationOK /\ Range(propagation.assignment) = {} /\ CausesOK(propagation, 0)
  BY <1>4, InitWatchingStructuresOK DEF Init, PropagationOK, Given
<1> QED
  BY <1>3, <1>5 DEF CDNLInv, Init, LevelsOK, Below, Backtracking, DecisionsOK, FlippedOK, AnalysisOK, NoAnalysis

-----------------------------------------------------------------------------
(* The steps of propagation and backtracking.                              *)

\* A record that gets a literal the solver may set at this point.
LEMMA SetKeepsOrder ==
  ASSUME NEW atoms, AtomsOK(atoms), NEW p, AssignmentOK(p, atoms),
         NEW lit \in LiteralsOf(atoms), Unassigned(p, lit), NEW c, NEW dl \in Nat, NEW q, Assigned(p, lit, dl, c, q),
         NEW bound \in Nat, Below(p, bound), dl <= bound,
         NEW decisions, DecisionsOK(p, bound, decisions, atoms)
  PROVE  Below(q, bound) /\ DecisionsOK(q, bound, decisions, atoms)
<1>1. /\ LevelIn(q, lit) = dl
      /\ \A l \in Range(p.assignment) : LevelIn(q, l) = LevelIn(p, l)
  BY AssignedOrder
<1>2. Range(q.assignment) = Range(p.assignment) \cup {lit}
  BY AppendRange DEF Assigned, AssignmentOK
<1> QED
  BY <1>1, <1>2 DEF Below, DecisionsOK

LEMMA PropagateInvariant ==
  ASSUME CDNLInv, Propagate
  PROVE  CDNLInv'
<1> DEFINE p == propagation
<1>1. /\ RecordOK(p) /\ AssignmentOK(p, Atoms) /\ WatchesOK(p, Atoms, {})
      /\ AtomsOK(Atoms) /\ InstanceOK /\ LevelsOK /\ DecisionsOK(p, currentDL, decisionLiteral, Atoms)
      /\ FlippedOK /\ CausesOK(p, currentDL) /\ AnalysisOK
  BY InstanceType DEF CDNLInv, PropagationOK
<1>2. PICK ng \in p.unitNogoods : PropagateUnit(ng)
  BY DEF Propagate
<1>3. /\ pc = "propagating" /\ ~Backtracking /\ currentDL \in Nat /\ Below(p, currentDL)
  BY <1>1, <1>2 DEF PropagateUnit, Backtracking, LevelsOK
<1>4. ng \in Nogoods(p) /\ ng \subseteq LiteralsOf(Atoms) /\ p.watched[ng] \subseteq Free(p, ng) /\ WatchOK(p, ng)
  BY <1>1, <1>2 DEF WatchesOK
<1>5. ~Inactive(p, ng) /\ One(Free(p, ng)) /\ p.watched[ng] = Free(p, ng)
  BY <1>2, <1>4 DEF WatchOK, Enough
<1> DEFINE lit == CHOOSE l \in p.watched[ng] : TRUE
           levels == {0} \cup {Level(l) : l \in ng \ Free(p, ng)}
           propDL == Max(levels)
           r == [p EXCEPT !.unitNogoods = @ \ {ng}]
           q == SetFact(r, Negation(lit), propDL, ng)
<1>6. Free(p, ng) = {lit} /\ lit \in p.watched[ng] /\ lit \in ng /\ Unassigned(p, lit)
  BY <1>5 DEF One, Free
<1>7. propagation' = q
  BY <1>2 DEF PropagateUnit
<1> HIDE DEF lit
<1>8. /\ lit \in LiteralsOf(Atoms) /\ Negation(lit) \in LiteralsOf(Atoms) /\ Negation(Negation(lit)) = lit
      /\ Unassigned(p, Negation(lit))
  BY <1>1, <1>4, <1>6, LiteralsType DEF Unassigned, Satisfied, Falsified
<1>9. \A l \in ng \ Free(p, ng) : l \in Range(p.assignment)
  BY <1>5 DEF Free, Unassigned, Satisfied, Inactive
<1>10. \A l \in Range(p.assignment) : Level(l) = LevelIn(p, l) /\ Level(l) \in Nat /\ Level(l) <= currentDL
  <2>1. \A l \in Range(p.assignment) : l \in LiteralsOf(Atoms)
    BY <1>1 DEF Range, AssignmentOK
  <2>2. \A l \in Range(p.assignment) : Address(l) \in Atoms
    BY <2>1, <1>1, LiteralsType
  <2> QED
    BY <2>2, <1>1, <1>3 DEF Below, LevelIn, Level, AssignmentOK
<1>11. propDL \in Nat /\ propDL <= currentDL /\ \A l \in ng \ Free(p, ng) : LevelIn(p, l) <= propDL
  <2>1. levels \in SUBSET Nat /\ levels # {} /\ \A dl \in levels : dl <= currentDL
    <3>1. ASSUME NEW dl \in levels PROVE dl \in Nat /\ dl <= currentDL
      <4>1. CASE dl = 0
        BY <4>1, <1>3
      <4>2. CASE dl # 0
        <5>1. PICK l \in ng \ Free(p, ng) : dl = Level(l)
          BY <4>2
        <5> QED
          BY <5>1, <1>9, <1>10
      <4> QED
        BY <4>1, <4>2
    <3> QED
      BY <3>1
  <2>2. Max(levels) \in levels /\ \A dl \in levels : dl <= Max(levels)
    <3> HIDE DEF levels
    <3> QED
      BY <2>1, <1>3, GreatestElement
  <2>3. \A l \in ng \ Free(p, ng) : Level(l) \in levels
    OBVIOUS
  <2> HIDE DEF levels
  <2> QED
    BY <2>1, <2>2, <2>3, <1>9, <1>10
<1> HIDE DEF propDL, levels
<1>12. /\ RecordOK(r) /\ r.assignment = p.assignment /\ r.decisionlevel = p.decisionlevel /\ r.cause = p.cause
       /\ r.watched = p.watched /\ Nogoods(r) = Nogoods(p)
       /\ r.unitNogoods = p.unitNogoods \ {ng} /\ r.contradictoryNogoods = p.contradictoryNogoods
  BY <1>1 DEF RecordOK, Nogoods
<1> HIDE DEF r, q, p
<1>13. AssignmentOK(r, Atoms)
  BY <1>1, <1>12 DEF AssignmentOK
<1>14. WatchesOK(r, Atoms, {ng})
  <2>1. \A n \in Nogoods(r) : Free(r, n) = Free(p, n) /\ (Inactive(r, n) <=> Inactive(p, n))
    BY <1>12 DEF Free, Inactive, Unassigned, Satisfied, Falsified
  <2>2. \A n \in Nogoods(r) \ {ng} : WatchOK(r, n)
    BY <2>1, <1>1, <1>12 DEF WatchesOK, WatchOK
  <2> QED
    BY <2>1, <2>2, <1>1, <1>12 DEF WatchesOK
<1>15. Unassigned(r, Negation(lit)) /\ \A n \in {ng} : Negation(Negation(lit)) \in r.watched[n]
  BY <1>6, <1>8, <1>12 DEF Unassigned, Satisfied, Falsified
<1>16. RecordOK(q) /\ AssignmentOK(q, Atoms) /\ WatchesOK(q, Atoms, {})
  BY <1>1, <1>4, <1>8, <1>11, <1>12, <1>13, <1>14, <1>15, SetFactOK DEF q
<1>17. Assigned(r, Negation(lit), propDL, ng, q)
  BY <1>12, SetFactFields DEF q
<1>18. MayCause(r, Negation(lit), propDL, ng)
  BY <1>4, <1>6, <1>8, <1>9, <1>11, <1>12 DEF MayCause, LevelIn
<1>19. CausesOK(r, currentDL) /\ Below(r, currentDL) /\ DecisionsOK(r, currentDL, decisionLiteral, Atoms)
  BY <1>1, <1>3, <1>12 DEF CausesOK, Justified, Below, DecisionsOK, LevelIn
<1>20. CausesOK(q, currentDL)
  BY <1>1, <1>8, <1>13, <1>15, <1>17, <1>18, <1>19, AssignedCauses
<1>21. Below(q, currentDL) /\ DecisionsOK(q, currentDL, decisionLiteral, Atoms)
  BY <1>1, <1>3, <1>8, <1>11, <1>13, <1>15, <1>17, <1>19, SetKeepsOrder
<1>22. /\ currentDL' = currentDL /\ exhaustedDL' = exhaustedDL /\ decisionLiteral' = decisionLiteral
       /\ flipped' = flipped /\ nogoodsToAdd' = nogoodsToAdd /\ analysis' = analysis /\ pc' = pc
       /\ instance' = instance
  BY <1>2 DEF PropagateUnit
<1>23. Atoms' = Atoms /\ Given' = Given /\ Late' = Late
  BY <1>22 DEF Atoms, Given, Late
<1>24. PropagationOK' /\ InstanceOK'
  BY <1>1, <1>7, <1>16, <1>22, <1>23 DEF PropagationOK, InstanceOK
<1>25. LevelsOK' /\ AnalysisOK' /\ FlippedOK'
  BY <1>1, <1>3, <1>7, <1>21, <1>22 DEF LevelsOK, AnalysisOK, FlippedOK, Backtracking
<1>26. (DecisionsOK(propagation, currentDL, decisionLiteral, Atoms) /\ CausesOK(propagation, currentDL))'
  BY <1>7, <1>20, <1>21, <1>22, <1>23
<1> QED
  BY <1>24, <1>25, <1>26 DEF CDNLInv

\* Adding nogoods keeps the order of the assignment.
LEMMA AddKeepsOrder ==
  ASSUME NEW p, NEW new, NEW q, Extended(p, new, q), NEW bound, NEW decisions, NEW atoms
  PROVE  /\ Below(p, bound) => Below(q, bound)
         /\ CausesOK(p, bound) => CausesOK(q, bound)
         /\ DecisionsOK(p, bound, decisions, atoms) => DecisionsOK(q, bound, decisions, atoms)
BY DEF Extended, Below, CausesOK, Justified, DecisionsOK, LevelIn

\* Steps that leave the propagation record and the levels alone.
LEMMA OtherStepsInvariant ==
  ASSUME CDNLInv,
         \/ ConflictAtDL0 \/ ReturnModel \/ AssumptionsSet \/ GetNextModel \/ NoMoreModels \/ AddNogood
         \/ UNCHANGED vars
  PROVE  CDNLInv'
<1>1. /\ propagation' = propagation /\ currentDL' = currentDL /\ exhaustedDL' = exhaustedDL
      /\ decisionLiteral' = decisionLiteral /\ flipped' = flipped /\ analysis' = analysis /\ instance' = instance
  BY DEF ConflictAtDL0, ReturnModel, AssumptionsSet, GetNextModel, NoMoreModels, AddNogood, vars
<1>2. Atoms' = Atoms /\ Given' = Given /\ Late' = Late
  BY <1>1 DEF Atoms, Given, Late
<1>3. nogoodsToAdd' \subseteq Late
  BY DEF ConflictAtDL0, ReturnModel, AssumptionsSet, GetNextModel, NoMoreModels, AddNogood, vars, Late,
         CDNLInv, InstanceOK
<1>4. /\ pc' = pc \/ (~Backtracking /\ pc # "analysis" /\ pc' \in {"exhausted", "idle", "propagating"})
  BY DEF ConflictAtDL0, Conflict, Propagated, ReturnModel, AssumptionsSet, GetNextModel, NoMoreModels, AddNogood,
         vars, Backtracking
<1>5. PropagationOK' /\ InstanceOK'
  BY <1>1, <1>2, <1>3 DEF CDNLInv, PropagationOK, InstanceOK
<1>6. LevelsOK' /\ AnalysisOK' /\ FlippedOK'
  BY <1>1, <1>2, <1>4 DEF CDNLInv, LevelsOK, AnalysisOK, FlippedOK, Backtracking
<1>7. (DecisionsOK(propagation, currentDL, decisionLiteral, Atoms) /\ CausesOK(propagation, currentDL))'
  BY <1>1, <1>2 DEF CDNLInv
<1> QED
  BY <1>5, <1>6, <1>7 DEF CDNLInv

\* A flip: the literal to set is the negation of one that will be cleared.
LEMMA FlipInvariant ==
  ASSUME CDNLInv, ConflictBelowExhausted \/ LeaveModel
  PROVE  CDNLInv'
<1> DEFINE lit == decisionLiteral[currentDL]
<1>1. /\ RecordOK(propagation) /\ AssignmentOK(propagation, Atoms)
      /\ AtomsOK(Atoms) /\ InstanceOK /\ LevelsOK /\ DecisionsOK(propagation, currentDL, decisionLiteral, Atoms)
      /\ FlippedOK /\ CausesOK(propagation, currentDL) /\ AnalysisOK
  BY InstanceType DEF CDNLInv, PropagationOK
<1>2. /\ currentDL > 0 /\ ~Backtracking /\ pc # "analysis" /\ FlipDecisionLiteral
      /\ pc' \in {"backtracking", "leaving model"}
  BY DEF ConflictBelowExhausted, LeaveModel, Conflict, Propagated, Backtracking
<1>3. currentDL \in Nat /\ currentDL \in 1 .. currentDL /\ currentDL - 1 \in Nat
  <2>1. currentDL \in Nat
    BY <1>1 DEF LevelsOK
  <2>2. currentDL > 0
    BY <1>2
  <2> QED
    BY <2>1, <2>2
<1>4. lit \in Range(propagation.assignment) /\ LevelIn(propagation, lit) = currentDL
  BY <1>1, <1>3 DEF DecisionsOK
<1>5. lit \in LiteralsOf(Atoms)
  BY <1>1, <1>4 DEF Range, AssignmentOK
<1>6. /\ Negation(lit) \in LiteralsOf(Atoms) /\ Address(Negation(lit)) = Address(lit) /\ Negation(lit) # lit
      /\ Negation(Negation(lit)) = lit
  BY <1>1, <1>5, LiteralsType
<1>7. Negation(lit) \notin Range(propagation.assignment)
  BY <1>1, <1>4, <1>6 DEF Range, AssignmentOK
<1> HIDE DEF lit
<1>8. /\ currentDL' = currentDL - 1 /\ exhaustedDL' = currentDL - 1 /\ flipped' = Negation(lit)
      /\ decisionLiteral' = [decisionLiteral EXCEPT ![currentDL] = 0]
      /\ propagation' = propagation /\ nogoodsToAdd' = nogoodsToAdd /\ analysis' = analysis /\ instance' = instance
  BY <1>2 DEF FlipDecisionLiteral, lit
<1>9. Atoms' = Atoms /\ Given' = Given /\ Late' = Late
  BY <1>8 DEF Atoms, Given, Late
<1>10. PropagationOK' /\ InstanceOK'
  BY <1>8, <1>9 DEF CDNLInv, PropagationOK, InstanceOK
<1>11. LevelsOK'
  <2>1. Backtracking' /\ pc' # "assuming"
    BY <1>2 DEF Backtracking
  <2>2. currentDL' \in Nat /\ exhaustedDL' \in Nat /\ exhaustedDL' <= currentDL'
    BY <1>3, <1>8
  <2> QED
    BY <2>1, <2>2 DEF LevelsOK
<1>12. AnalysisOK'
  <2>1. pc' # "analysis" /\ analysis = NoAnalysis /\ analysis' = analysis
    BY <1>1, <1>2, <1>8 DEF AnalysisOK
  <2>2. analysis.backtrackDL = 0 /\ 0 <= currentDL'
    BY <2>1, <1>3, <1>8 DEF NoAnalysis
  <2> QED
    BY <2>1, <2>2, <1>1 DEF AnalysisOK
<1>13. FlippedOK'
  <2>1. LevelIn(propagation, flipped') > currentDL'
    BY <1>3, <1>4, <1>6, <1>8 DEF LevelIn
  <2> QED
    BY <2>1, <1>2, <1>6, <1>7, <1>8, <1>9 DEF FlippedOK, Backtracking
<1>14. DecisionsOK(propagation, currentDL - 1, decisionLiteral', Atoms)
  <2>1. \A n \in 1 .. currentDL - 1 : n \in 1 .. currentDL /\ decisionLiteral'[n] = decisionLiteral[n]
    BY <1>1, <1>3, <1>8 DEF DecisionsOK
  <2> QED
    BY <2>1, <1>1, <1>8 DEF DecisionsOK
<1>15. CausesOK(propagation, currentDL - 1)
  <2>1. \A i \in DOMAIN propagation.assignment : LevelIn(propagation, propagation.assignment[i]) \in Nat
    BY <1>1, LiteralsType DEF AssignmentOK, LevelIn
  <2> QED
    BY <2>1, <1>1, <1>3 DEF CausesOK
<1>16. (DecisionsOK(propagation, currentDL, decisionLiteral, Atoms) /\ CausesOK(propagation, currentDL))'
  BY <1>8, <1>9, <1>14, <1>15
<1> QED
  BY <1>10, <1>11, <1>12, <1>13, <1>16 DEF CDNLInv

\* A fact above the current level is cleared.
LEMMA BacktrackFactInvariant ==
  ASSUME CDNLInv, BacktrackFact
  PROVE  CDNLInv'
<1> DEFINE p == propagation
           lowest == Min({Level(lit) : lit \in FactsAbove})
           positions == {i \in DOMAIN p.assignment : Level(p.assignment[i]) = lowest}
           lit == NextToClear
           q == ClearFact(p, NextToClear)
<1>1. /\ RecordOK(p) /\ AssignmentOK(p, Atoms) /\ WatchesOK(p, Atoms, {})
      /\ AtomsOK(Atoms) /\ InstanceOK /\ LevelsOK /\ DecisionsOK(p, currentDL, decisionLiteral, Atoms)
      /\ FlippedOK /\ CausesOK(p, currentDL) /\ AnalysisOK
  BY InstanceType DEF CDNLInv, PropagationOK
<1>2. /\ Backtracking /\ FactsAbove # {} /\ propagation' = q
      /\ currentDL' = currentDL /\ exhaustedDL' = exhaustedDL /\ decisionLiteral' = decisionLiteral
      /\ flipped' = flipped /\ nogoodsToAdd' = nogoodsToAdd /\ analysis' = analysis /\ pc' = pc
      /\ instance' = instance
  BY DEF BacktrackFact
<1>3. \A l \in Range(p.assignment) : l \in LiteralsOf(Atoms) /\ Level(l) = LevelIn(p, l) /\ Level(l) \in Nat
  <2>1. \A l \in Range(p.assignment) : l \in LiteralsOf(Atoms)
    BY <1>1 DEF Range, AssignmentOK
  <2>2. \A l \in Range(p.assignment) : Address(l) \in Atoms
    BY <2>1, <1>1, LiteralsType
  <2> QED
    BY <2>1, <2>2, <1>1 DEF LevelIn, Level, AssignmentOK
<1>4. lowest \in {Level(l) : l \in FactsAbove}
  <2>1. {Level(l) : l \in FactsAbove} \in SUBSET Nat
    BY <1>3 DEF FactsAbove
  <2>2. {Level(l) : l \in FactsAbove} # {}
    BY <1>2
  <2> QED
    BY <2>1, <2>2, LeastElement, Zenon
<1>5. PICK f \in FactsAbove : lowest = Level(f)
  BY <1>4
<1>6. \E i \in DOMAIN p.assignment : p.assignment[i] = f
  BY DEF FactsAbove, Range
<1> HIDE DEF lowest
<1>7. positions \in SUBSET Nat /\ positions # {}
  <2>1. DOMAIN p.assignment \in SUBSET Nat
    BY <1>1 DEF AssignmentOK
  <2> QED
    BY <2>1, <1>5, <1>6
<1>8. Min(positions) \in positions
  <2> HIDE DEF positions
  <2> QED
    BY <1>7, LeastElement
<1>9. lit \in Range(p.assignment) /\ LevelIn(p, lit) > currentDL
  <2>1. lit = p.assignment[Min(positions)]
    BY DEF NextToClear, lowest
  <2>2. Min(positions) \in DOMAIN p.assignment /\ Level(p.assignment[Min(positions)]) = Level(f)
    BY <1>5, <1>8
  <2>3. lit \in Range(p.assignment) /\ Level(lit) = Level(f)
    BY <2>1, <2>2 DEF Range
  <2> QED
    BY <2>3, <1>3 DEF FactsAbove
<1> HIDE DEF positions, lit, p
<1>10. /\ RecordOK(q) /\ AssignmentOK(q, Atoms) /\ WatchesOK(q, Atoms, {})
       /\ Range(q.assignment) = Range(p.assignment) \ {lit}
       /\ Cleared(p, lit, q)
  BY <1>1, <1>9, ClearFactOK DEF lit
<1> HIDE DEF q
<1>11. currentDL \in Nat
  BY <1>1 DEF LevelsOK
<1>12. /\ CausesOK(q, currentDL)
       /\ \A l \in Range(p.assignment) \ {lit} : LevelIn(q, l) = LevelIn(p, l)
  BY <1>1, <1>9, <1>10, <1>11, ClearedCauses
<1>13. DecisionsOK(q, currentDL, decisionLiteral, Atoms)
  <2>1. \A n \in 1 .. currentDL : decisionLiteral[n] # lit
    BY <1>1, <1>9, <1>11 DEF DecisionsOK
  <2> QED
    BY <2>1, <1>1, <1>10, <1>12 DEF DecisionsOK
<1>14. Atoms' = Atoms /\ Given' = Given /\ Late' = Late
  BY <1>2 DEF Atoms, Given, Late
<1>15. PropagationOK' /\ InstanceOK'
  BY <1>1, <1>2, <1>10, <1>14 DEF PropagationOK, InstanceOK
<1>16. LevelsOK' /\ AnalysisOK'
  BY <1>1, <1>2 DEF LevelsOK, AnalysisOK, Backtracking
<1>17. FlippedOK'
  <2>1. ASSUME flipped # 0, Negation(flipped) \in Range(q.assignment)
        PROVE  LevelIn(q, flipped) > currentDL
    <3>1. Negation(flipped) \in Range(p.assignment) \ {lit} /\ flipped \in LiteralsOf(Atoms)
      BY <2>1, <1>1, <1>10 DEF FlippedOK
    <3>2. LevelIn(q, Negation(flipped)) = LevelIn(p, Negation(flipped))
      BY <3>1, <1>12
    <3>3. LevelIn(q, flipped) = LevelIn(p, flipped)
      BY <3>1, <3>2, <1>1, LiteralsType DEF LevelIn
    <3> QED
      BY <3>1, <3>3, <2>1, <1>1 DEF FlippedOK, p
  <2> QED
    BY <2>1, <1>1, <1>2, <1>10, <1>14 DEF FlippedOK, Backtracking, p
<1> QED
  BY <1>2, <1>12, <1>13, <1>14, <1>15, <1>16, <1>17 DEF CDNLInv

-----------------------------------------------------------------------------
(* The steps of conflict analysis.                                         *)

\* Levels of assigned literals.
LEMMA LevelType ==
  ASSUME CDNLInv, NEW l \in Range(propagation.assignment)
  PROVE  /\ l \in LiteralsOf(Atoms) /\ Negation(l) \notin Range(propagation.assignment)
         /\ Level(l) \in Nat
         /\ ~Backtracking => Level(l) <= currentDL
<1>1. AssignmentOK(propagation, Atoms) /\ AtomsOK(Atoms) /\ LevelsOK
  BY InstanceType DEF CDNLInv, PropagationOK
<1>2. PICK i \in DOMAIN propagation.assignment : l = propagation.assignment[i]
  BY DEF Range
<1>3. l \in LiteralsOf(Atoms)
  BY <1>1, <1>2 DEF AssignmentOK
<1>4. Negation(l) # l /\ Address(Negation(l)) = Address(l) /\ Address(l) \in Atoms
  BY <1>1, <1>3, LiteralsType
<1>5. \A j \in DOMAIN propagation.assignment : propagation.assignment[j] # Negation(l)
  BY <1>1, <1>2, <1>4 DEF AssignmentOK
<1>6. Negation(l) \notin Range(propagation.assignment)
  BY <1>5 DEF Range
<1>7. Level(l) \in Nat /\ (~Backtracking => Level(l) <= currentDL)
  BY <1>1, <1>4 DEF AssignmentOK, LevelsOK, Below, LevelIn, Level
<1> QED
  BY <1>3, <1>6, <1>7

\* The level to jump to is one of those of the search.
LEMMA BacktrackDLType ==
  ASSUME CDNLInv, pc = "analysis"
  PROVE  BacktrackDL \in Nat /\ BacktrackDL <= currentDL
<1> DEFINE levels == {analysis.backtrackDL} \cup
                     {dl \in {Level(l) : l \in analysis.learnedNogood} : dl < LatestDL(analysis.learnedNogood)}
<1>1. /\ analysis.backtrackDL \in Nat /\ analysis.backtrackDL <= currentDL /\ currentDL \in Nat
      /\ analysis.learnedNogood \subseteq Range(propagation.assignment)
  BY DEF CDNLInv, AnalysisOK, LevelsOK
<1>2. \A l \in analysis.learnedNogood : Level(l) \in Nat /\ Level(l) <= currentDL
  BY <1>1, LevelType DEF Backtracking
<1>3. levels \in SUBSET Nat /\ levels # {} /\ \A dl \in levels : dl <= currentDL
  <2>1. ASSUME NEW dl \in levels PROVE dl \in Nat /\ dl <= currentDL
    <3>1. dl = analysis.backtrackDL \/ \E l \in analysis.learnedNogood : dl = Level(l)
      OBVIOUS
    <3> QED
      BY <3>1, <1>1, <1>2
  <2> QED
    BY <2>1
<1>4. Max(levels) \in levels
  <2> HIDE DEF levels
  <2> QED
    BY <1>1, <1>3, GreatestElement
<1>5. BacktrackDL = Max(levels)
  BY DEF BacktrackDL
<1> HIDE DEF levels
<1> QED
  BY <1>3, <1>4, <1>5

\* An implied literal of the learned nogood and its cause.
LEMMA ImpliedType ==
  ASSUME CDNLInv, pc = "analysis", NEW lit \in Implied(analysis.learnedNogood)
  PROVE  LET c == propagation.cause[Address(lit)]
         IN  /\ c \in Nogoods(propagation) /\ Negation(lit) \in c /\ lit \notin c
             /\ c \ {Negation(lit)} \subseteq Range(propagation.assignment)
<1> DEFINE p == propagation
           c == p.cause[Address(lit)]
<1>1. /\ lit \in analysis.learnedNogood /\ c # NoCause
      /\ analysis.learnedNogood \subseteq Range(p.assignment)
  BY DEF Implied, AtLatestDL, IsDecisionLiteral, CDNLInv, AnalysisOK
<1>2. lit \in LiteralsOf(Atoms) /\ Level(lit) <= currentDL
  BY <1>1, LevelType DEF Backtracking
<1>3. PICK i \in DOMAIN p.assignment : lit = p.assignment[i]
  BY <1>1 DEF Range
<1>4. CausesOK(p, currentDL) /\ AssignmentOK(p, Atoms) /\ AtomsOK(Atoms)
  BY InstanceType DEF CDNLInv, PropagationOK
<1>5. Justified(p, i)
  BY <1>2, <1>3, <1>4 DEF CausesOK, Level, LevelIn
<1>6. /\ c \in Nogoods(p) /\ Negation(lit) \in c
      /\ \A l \in c \ {Negation(lit)} : \E j \in 1 .. i - 1 : l = p.assignment[j]
  BY <1>1, <1>3, <1>5 DEF Justified
<1>7. i \in Nat /\ 1 .. i - 1 \subseteq DOMAIN p.assignment
  BY <1>4 DEF AssignmentOK
<1>8. ASSUME NEW l \in c \ {Negation(lit)} PROVE l \in Range(p.assignment) /\ l # lit
  <2>1. PICK j \in 1 .. i - 1 : l = p.assignment[j]
    BY <1>6
  <2>2. j \in DOMAIN p.assignment /\ j # i
    BY <1>7
  <2> QED
    BY <2>1, <2>2, <1>3, <1>4 DEF AssignmentOK, Range
<1>9. Negation(lit) # lit
  BY <1>2, <1>4, LiteralsType
<1> QED
  BY <1>6, <1>8, <1>9

LEMMA AnalysisInvariant ==
  ASSUME CDNLInv, StartAnalysis \/ ResolveImplied
  PROVE  CDNLInv'
<1> DEFINE p == propagation
<1>1. /\ p' = p /\ currentDL' = currentDL /\ exhaustedDL' = exhaustedDL /\ decisionLiteral' = decisionLiteral
      /\ flipped' = flipped /\ nogoodsToAdd' = nogoodsToAdd /\ instance' = instance
      /\ pc' = "analysis" /\ ~Backtracking /\ pc # "assuming" /\ ~Backtracking'
  BY DEF StartAnalysis, ResolveImplied, Backtracking, Conflict, Propagated
<1>2. Atoms' = Atoms /\ Given' = Given /\ Late' = Late
  BY <1>1 DEF Atoms, Given, Late
<1>3. PropagationOK' /\ InstanceOK' /\ LevelsOK' /\ FlippedOK'
  BY <1>1, <1>2 DEF CDNLInv, PropagationOK, InstanceOK, LevelsOK, FlippedOK
<1>4. (DecisionsOK(propagation, currentDL, decisionLiteral, Atoms) /\ CausesOK(propagation, currentDL))'
  BY <1>1, <1>2 DEF CDNLInv
<1>5. AnalysisOK'
  <2>1. CASE StartAnalysis
    <3>1. PICK ng \in p.contradictoryNogoods : analysis' = [learnedNogood |-> ng, backtrackDL |-> 0]
      BY <2>1 DEF StartAnalysis
    <3>2. ng \in Nogoods(p) /\ WatchOK(p, ng)
      BY DEF CDNLInv, PropagationOK, WatchesOK
    <3>3. ~Inactive(p, ng) /\ Free(p, ng) = {}
      BY <3>2 DEF WatchOK
    <3>4. ng \subseteq Range(p.assignment)
      BY <3>3 DEF Inactive, Free, Unassigned, Satisfied
    <3>5. currentDL \in Nat
      BY DEF CDNLInv, LevelsOK
    <3> QED
      BY <3>1, <3>4, <3>5, <1>1 DEF AnalysisOK
  <2>2. CASE ResolveImplied
    <3>1. PICK lit \in Implied(analysis.learnedNogood) :
            analysis' = [learnedNogood |-> Resolve(analysis.learnedNogood, p.cause[Address(lit)], lit),
                         backtrackDL |-> BacktrackDL]
      BY <2>2 DEF ResolveImplied
    <3>2. pc = "analysis"
      BY <2>2 DEF ResolveImplied
    <3>3. analysis.learnedNogood \subseteq Range(p.assignment)
      BY <3>2 DEF CDNLInv, AnalysisOK
    <3>4. p.cause[Address(lit)] \ {Negation(lit)} \subseteq Range(p.assignment)
      BY <3>2, ImpliedType
    <3>5. Resolve(analysis.learnedNogood, p.cause[Address(lit)], lit) \subseteq Range(p.assignment)
      BY <3>3, <3>4 DEF Resolve
    <3>6. BacktrackDL \in Nat /\ BacktrackDL <= currentDL
      BY <3>2, BacktrackDLType
    <3> QED
      BY <3>1, <3>5, <3>6, <1>1 DEF AnalysisOK
  <2> QED
    BY <2>1, <2>2
<1> QED
  BY <1>3, <1>4, <1>5 DEF CDNLInv

LEMMA BackjumpInvariant ==
  ASSUME CDNLInv, Backjump
  PROVE  CDNLInv'
<1> DEFINE p == propagation
           q == AddNogoods(p, {analysis.learnedNogood})
<1>1. /\ RecordOK(p) /\ AssignmentOK(p, Atoms) /\ WatchesOK(p, Atoms, {})
      /\ AtomsOK(Atoms) /\ InstanceOK /\ LevelsOK /\ DecisionsOK(p, currentDL, decisionLiteral, Atoms)
      /\ FlippedOK /\ CausesOK(p, currentDL) /\ AnalysisOK
  BY InstanceType DEF CDNLInv, PropagationOK
<1>2. /\ pc = "analysis" /\ pc' = "backtracking" /\ propagation' = q /\ currentDL' = BackjumpLevel
      /\ decisionLiteral' = [dl \in Atoms |-> IF dl <= BackjumpLevel THEN decisionLiteral[dl] ELSE 0]
      /\ analysis' = NoAnalysis
      /\ exhaustedDL' = exhaustedDL /\ flipped' = flipped /\ nogoodsToAdd' = nogoodsToAdd /\ instance' = instance
  BY DEF Backjump
<1>3. ~Backtracking /\ Backtracking' /\ flipped = 0
  BY <1>1, <1>2 DEF Backtracking, FlippedOK
<1>4. Atoms' = Atoms /\ Given' = Given /\ Late' = Late
  BY <1>2 DEF Atoms, Given, Late
<1>5. analysis.learnedNogood \subseteq Range(p.assignment) /\ Range(p.assignment) \subseteq LiteralsOf(Atoms)
  BY <1>1, <1>2, LevelType DEF AnalysisOK
<1>6. {analysis.learnedNogood} \in SUBSET SUBSET Int
  BY <1>5 DEF LiteralsOf
<1>7. /\ RecordOK(q) /\ AssignmentOK(q, Atoms) /\ WatchesOK(q, Atoms, {})
      /\ Extended(p, Accepted({analysis.learnedNogood}, Atoms), q)
  BY <1>1, <1>6, AddNogoodsOK
<1> HIDE DEF q
<1>8. BackjumpLevel \in Nat /\ BackjumpLevel <= currentDL /\ exhaustedDL <= BackjumpLevel
  <2>1. BacktrackDL \in Nat /\ BacktrackDL <= currentDL
    BY <1>2, BacktrackDLType
  <2>2. exhaustedDL \in Nat /\ exhaustedDL <= currentDL /\ currentDL \in Nat
    BY <1>1 DEF LevelsOK
  <2>3. Max({BacktrackDL, exhaustedDL}) \in {BacktrackDL, exhaustedDL} /\ exhaustedDL <= Max({BacktrackDL, exhaustedDL})
    BY <2>1, <2>2, GreatestElement
  <2> QED
    BY <2>1, <2>2, <2>3 DEF BackjumpLevel
<1>9. CausesOK(p, BackjumpLevel) /\ DecisionsOK(p, BackjumpLevel, decisionLiteral', Atoms)
  <2>1. \A i \in DOMAIN p.assignment : LevelIn(p, p.assignment[i]) \in Nat
    BY <1>1, LiteralsType DEF AssignmentOK, LevelIn
  <2>2. currentDL \in Nat
    BY <1>1 DEF LevelsOK
  <2>3. CausesOK(p, BackjumpLevel)
    BY <2>1, <2>2, <1>1, <1>8 DEF CausesOK
  <2>4. \A n \in 1 .. BackjumpLevel : n \in 1 .. currentDL /\ n <= BackjumpLevel
    BY <2>2, <1>8
  <2>5. \A n \in 1 .. BackjumpLevel : n \in Atoms /\ decisionLiteral'[n] = decisionLiteral[n]
    BY <2>4, <1>1, <1>2 DEF DecisionsOK
  <2>6. decisionLiteral' \in [Atoms -> LiteralsOf(Atoms) \cup {0}]
    BY <1>1, <1>2 DEF DecisionsOK
  <2> QED
    BY <2>3, <2>4, <2>5, <2>6, <1>1 DEF DecisionsOK
<1>10. CausesOK(q, BackjumpLevel) /\ DecisionsOK(q, BackjumpLevel, decisionLiteral', Atoms)
  BY <1>7, <1>9, AddKeepsOrder
<1>11. PropagationOK' /\ InstanceOK'
  BY <1>1, <1>2, <1>4, <1>7 DEF PropagationOK, InstanceOK
<1>12. LevelsOK' /\ AnalysisOK' /\ FlippedOK'
  <2>1. LevelsOK'
    BY <1>1, <1>2, <1>3, <1>8 DEF LevelsOK
  <2>2. AnalysisOK'
    <3>1. analysis'.backtrackDL = 0 /\ 0 <= currentDL' /\ pc' # "analysis"
      BY <1>2, <1>8 DEF NoAnalysis
    <3> QED
      BY <3>1, <1>2 DEF AnalysisOK, NoAnalysis
  <2>3. FlippedOK'
    BY <1>2, <1>3 DEF FlippedOK
  <2> QED
    BY <2>1, <2>2, <2>3
<1> QED
  BY <1>2, <1>4, <1>10, <1>11, <1>12 DEF CDNLInv

-----------------------------------------------------------------------------
(* The steps that set a literal without a cause or load nogoods.           *)

LEMMA SetWithoutCause ==
  ASSUME NEW atoms, AtomsOK(atoms), NEW p, RecordOK(p), AssignmentOK(p, atoms), WatchesOK(p, atoms, {}),
         NEW lit \in LiteralsOf(atoms), Unassigned(p, lit), NEW dl \in Nat,
         NEW bound \in Nat, CausesOK(p, bound), NEW q, q = SetFact(p, lit, dl, NoCause)
  PROVE  /\ RecordOK(q) /\ AssignmentOK(q, atoms) /\ WatchesOK(q, atoms, {}) /\ CausesOK(q, bound)
         /\ Assigned(p, lit, dl, NoCause, q)
         /\ Range(q.assignment) = Range(p.assignment) \cup {lit}
<1>1. NoCause \in SUBSET LiteralsOf(atoms) /\ MayCause(p, lit, dl, NoCause)
  BY DEF NoCause, MayCause
<1>2. /\ RecordOK(q) /\ AssignmentOK(q, atoms) /\ WatchesOK(q, atoms, {})
      /\ Range(q.assignment) = Range(p.assignment) \cup {lit}
  BY <1>1, SetFactOK
<1>3. Assigned(p, lit, dl, NoCause, q)
  BY SetFactFields
<1>4. CausesOK(q, bound)
  BY <1>1, <1>3, AssignedCauses
<1> QED
  BY <1>2, <1>3, <1>4

\* The next state of the search loop after it set a literal and loaded nogoods.
LEMMA LoopInvariant ==
  ASSUME CDNLInv, instance' = instance,
         RecordOK(propagation'), AssignmentOK(propagation', Atoms), WatchesOK(propagation', Atoms, {}),
         currentDL' \in Nat, exhaustedDL' = exhaustedDL, exhaustedDL <= currentDL',
         Below(propagation', currentDL'), CausesOK(propagation', currentDL'),
         DecisionsOK(propagation', currentDL', decisionLiteral', Atoms),
         flipped' = 0, nogoodsToAdd' \subseteq Late, analysis' = analysis,
         pc # "analysis", pc' \in {"complete", "propagating"}
  PROVE  CDNLInv'
<1>1. Atoms' = Atoms /\ Given' = Given /\ Late' = Late
  BY DEF Atoms, Given, Late
<1>2. PropagationOK' /\ InstanceOK'
  BY <1>1 DEF CDNLInv, PropagationOK, InstanceOK
<1>3. LevelsOK' /\ FlippedOK'
  BY DEF CDNLInv, LevelsOK, FlippedOK
<1>4. AnalysisOK'
  <2>1. analysis = NoAnalysis /\ pc' # "analysis"
    BY DEF CDNLInv, AnalysisOK
  <2> QED
    BY <2>1 DEF NoAnalysis, AnalysisOK
<1>5. (DecisionsOK(propagation, currentDL, decisionLiteral, Atoms) /\ CausesOK(propagation, currentDL))'
  BY <1>1
<1> QED
  BY <1>2, <1>3, <1>4, <1>5 DEF CDNLInv

\* What remains after backtracking, and the flipped literal.
LEMMA FlippedSet ==
  ASSUME CDNLInv, Backtracking, FactsAbove = {}, NEW r,
         r = IF flipped = 0 THEN propagation ELSE SetFact(propagation, flipped, currentDL, NoCause)
  PROVE  /\ RecordOK(r) /\ AssignmentOK(r, Atoms) /\ WatchesOK(r, Atoms, {}) /\ CausesOK(r, currentDL)
         /\ Below(propagation, currentDL)
         /\ Below(r, currentDL) /\ DecisionsOK(r, currentDL, decisionLiteral, Atoms)
         /\ Nogoods(r) = Nogoods(propagation)
         /\ flipped # 0 => /\ flipped \in LiteralsOf(Atoms) /\ Unassigned(propagation, flipped)
                           /\ Assigned(propagation, flipped, currentDL, NoCause, r)
<1> DEFINE p == propagation
<1>1. /\ RecordOK(p) /\ AssignmentOK(p, Atoms) /\ WatchesOK(p, Atoms, {})
      /\ AtomsOK(Atoms) /\ InstanceOK /\ LevelsOK /\ DecisionsOK(p, currentDL, decisionLiteral, Atoms)
      /\ FlippedOK /\ CausesOK(p, currentDL)
  BY InstanceType DEF CDNLInv, PropagationOK
<1>2. currentDL \in Nat
  BY <1>1 DEF LevelsOK
<1>3. Below(p, currentDL)
  <2>1. \A l \in Range(p.assignment) : ~(Level(l) > currentDL)
    BY DEF FactsAbove
  <2>2. \A l \in Range(p.assignment) : Level(l) \in Nat
    BY LevelType
  <2> QED
    BY <2>1, <2>2, <1>2 DEF Below, Level, LevelIn
<1>4. CASE flipped = 0
  BY <1>4, <1>1, <1>3
<1>5. CASE flipped # 0
  <2>1. flipped \in LiteralsOf(Atoms) /\ Unassigned(p, flipped)
    <3>1. /\ flipped \in LiteralsOf(Atoms) /\ flipped \notin Range(p.assignment)
          /\ Negation(flipped) \in Range(p.assignment) => LevelIn(p, flipped) > currentDL
      BY <1>5, <1>1 DEF FlippedOK
    <3>2. LevelIn(p, Negation(flipped)) = LevelIn(p, flipped)
      BY <3>1, <1>1, LiteralsType DEF LevelIn
    <3>3. Negation(flipped) \notin Range(p.assignment)
      <4>1. SUFFICES ASSUME Negation(flipped) \in Range(p.assignment) PROVE FALSE
        OBVIOUS
      <4>2. Level(Negation(flipped)) \in Nat /\ LevelIn(p, Negation(flipped)) <= currentDL
        BY <4>1, <1>3, LevelType DEF Below
      <4> QED
        BY <4>1, <4>2, <3>1, <3>2, <1>2 DEF Level, LevelIn
    <3> QED
      BY <3>1, <3>3 DEF Unassigned, Satisfied, Falsified
  <2>2. r = SetFact(p, flipped, currentDL, NoCause)
    BY <1>5
  <2> HIDE DEF p
  <2>3. /\ RecordOK(r) /\ AssignmentOK(r, Atoms) /\ WatchesOK(r, Atoms, {}) /\ CausesOK(r, currentDL)
        /\ Assigned(p, flipped, currentDL, NoCause, r)
    BY <2>1, <2>2, <1>1, <1>2, SetWithoutCause
  <2>4. Below(r, currentDL) /\ DecisionsOK(r, currentDL, decisionLiteral, Atoms)
    BY <2>1, <2>3, <1>1, <1>2, <1>3, SetKeepsOrder
  <2>5. Nogoods(r) = Nogoods(p)
    BY <2>3 DEF Assigned
  <2> QED
    BY <2>1, <2>3, <2>4, <2>5, <1>3 DEF p
<1> QED
  BY <1>4, <1>5

LEMMA FinishBacktrackingInvariant ==
  ASSUME CDNLInv, FinishBacktracking
  PROVE  CDNLInv'
<1> DEFINE p == propagation
           r == IF flipped = 0 THEN p ELSE SetFact(p, flipped, currentDL, NoCause)
           toLoad == IF pc = "backtracking" THEN nogoodsToAdd ELSE {}
           q == AddNogoods(r, toLoad)
<1>1. /\ AtomsOK(Atoms) /\ InstanceOK /\ LevelsOK /\ Late \in SUBSET SUBSET Int
  BY InstanceType DEF CDNLInv
<1>2. /\ Backtracking /\ FactsAbove = {} /\ propagation' = q
      /\ currentDL' = currentDL /\ exhaustedDL' = exhaustedDL /\ decisionLiteral' = decisionLiteral
      /\ flipped' = 0 /\ nogoodsToAdd' = nogoodsToAdd \ toLoad /\ analysis' = analysis
      /\ pc' \in {"complete", "propagating"} /\ instance' = instance
  BY DEF FinishBacktracking, LoopOrReturn
<1>3. currentDL \in Nat /\ exhaustedDL <= currentDL /\ pc # "analysis"
  BY <1>1, <1>2 DEF LevelsOK, Backtracking
<1>4. /\ RecordOK(r) /\ AssignmentOK(r, Atoms) /\ WatchesOK(r, Atoms, {}) /\ CausesOK(r, currentDL)
      /\ Below(r, currentDL) /\ DecisionsOK(r, currentDL, decisionLiteral, Atoms)
  BY <1>2, FlippedSet
<1>5. toLoad \in SUBSET SUBSET Int /\ nogoodsToAdd' \subseteq Late
  BY <1>1, <1>2 DEF InstanceOK
<1> HIDE DEF r, toLoad
<1>6. /\ RecordOK(q) /\ AssignmentOK(q, Atoms) /\ WatchesOK(q, Atoms, {})
      /\ Extended(r, Accepted(toLoad, Atoms), q)
  BY <1>1, <1>4, <1>5, AddNogoodsOK
<1>7. Below(q, currentDL) /\ CausesOK(q, currentDL) /\ DecisionsOK(q, currentDL, decisionLiteral, Atoms)
  BY <1>4, <1>6, AddKeepsOrder
<1> QED
  BY <1>2, <1>3, <1>5, <1>6, <1>7, LoopInvariant

LEMMA LearnInvariant ==
  ASSUME CDNLInv, PropagatorsLearn \/ NothingToGuess
  PROVE  CDNLInv'
<1> DEFINE p == propagation
<1>1. /\ RecordOK(p) /\ AssignmentOK(p, Atoms) /\ WatchesOK(p, Atoms, {})
      /\ AtomsOK(Atoms) /\ InstanceOK /\ LevelsOK /\ DecisionsOK(p, currentDL, decisionLiteral, Atoms)
      /\ CausesOK(p, currentDL)
      /\ Late \in SUBSET SUBSET Int
  BY InstanceType DEF CDNLInv, PropagationOK
<1>2. PICK added \in SUBSET Late : propagation' = AddNogoods(p, added)
  <2>1. CASE PropagatorsLearn
    <3>1. PICK learned \in SUBSET Late : propagation' = AddNogoods(p, nogoodsToAdd \cup learned)
      BY <2>1 DEF PropagatorsLearn, Late
    <3>2. nogoodsToAdd \cup learned \in SUBSET Late
      BY <3>1, <1>1 DEF InstanceOK
    <3> QED
      BY <3>1, <3>2
  <2>2. CASE NothingToGuess
    <3>1. propagation' = AddNogoods(p, nogoodsToAdd) /\ nogoodsToAdd \in SUBSET Late
      BY <2>2, <1>1 DEF NothingToGuess, InstanceOK
    <3> QED
      BY <3>1
  <2> QED
    BY <2>1, <2>2
<1>3. /\ currentDL' = currentDL /\ exhaustedDL' = exhaustedDL /\ decisionLiteral' = decisionLiteral
      /\ flipped' = flipped /\ nogoodsToAdd' = {} /\ analysis' = analysis
      /\ pc' \in {"complete", "propagating"} /\ instance' = instance
      /\ pc = "propagating"
  BY DEF PropagatorsLearn, NothingToGuess, NothingLearned, NoConflict, Propagated, LoopOrReturn
<1>4. ~Backtracking /\ pc # "analysis" /\ flipped = 0
  BY <1>3 DEF Backtracking, CDNLInv, FlippedOK
<1>5. currentDL \in Nat /\ exhaustedDL <= currentDL /\ Below(p, currentDL)
  BY <1>1, <1>4 DEF LevelsOK
<1>6. added \in SUBSET SUBSET Int
  BY <1>1
<1> DEFINE q == AddNogoods(p, added)
<1>7. /\ RecordOK(q) /\ AssignmentOK(q, Atoms) /\ WatchesOK(q, Atoms, {})
      /\ Extended(p, Accepted(added, Atoms), q)
  BY <1>1, <1>6, AddNogoodsOK
<1> HIDE DEF q
<1>8. Below(q, currentDL) /\ CausesOK(q, currentDL) /\ DecisionsOK(q, currentDL, decisionLiteral, Atoms)
  BY <1>1, <1>5, <1>7, AddKeepsOrder
<1>9. propagation' = q
  BY <1>2 DEF q
<1> QED
  BY <1>3, <1>4, <1>5, <1>7, <1>8, <1>9, LoopInvariant

\* There are no more levels than atoms: a guess finds room in decisionLiteral.
LEMMA RoomForGuess ==
  ASSUME NEW atoms, AtomsOK(atoms), NEW p, AssignmentOK(p, atoms), NEW dl \in Nat, NEW decisions,
         DecisionsOK(p, dl, decisions, atoms), NEW lit \in LiteralsOf(atoms), Unassigned(p, lit)
  PROVE  dl + 1 \in atoms
<1> DEFINE others == atoms \ {Address(lit)}
           f == [n \in 1 .. dl |-> Address(decisions[n])]
<1>1. PICK max \in Nat : atoms = 1 .. max
  BY DEF AtomsOK
<1>2. \A l \in Range(p.assignment) : l \in LiteralsOf(atoms) /\ Address(l) \in others
  <2>1. \A l \in Range(p.assignment) : l \in LiteralsOf(atoms)
    BY DEF AssignmentOK, Range
  <2> QED
    BY <2>1, LiteralsType DEF Unassigned, Satisfied, Falsified
<1>3. f \in Injection(1 .. dl, others)
  <2>1. \A n \in 1 .. dl : Address(decisions[n]) \in others
    BY <1>2 DEF DecisionsOK
  <2>2. \A n, m \in 1 .. dl : Address(decisions[n]) = Address(decisions[m]) => n = m
    BY DEF DecisionsOK, LevelIn
  <2>3. f \in [1 .. dl -> others]
    BY <2>1
  <2>4. \A n, m \in 1 .. dl : f[n] = f[m] => n = m
    BY <2>2
  <2> QED
    BY <2>3, <2>4 DEF Injection, IsInjective
<1>4. /\ IsFiniteSet(1 .. dl) /\ Cardinality(1 .. dl) = dl
      /\ IsFiniteSet(atoms) /\ Cardinality(atoms) = max
  <2>1. /\ IsFiniteSet(1 .. dl) /\ Cardinality(1 .. dl) = (IF 1 > dl THEN 0 ELSE dl - 1 + 1)
        /\ IsFiniteSet(1 .. max) /\ Cardinality(1 .. max) = (IF 1 > max THEN 0 ELSE max - 1 + 1)
    BY FS_Interval
  <2> QED
    BY <2>1, <1>1
<1>5. IsFiniteSet(others) /\ Cardinality(others) = max - 1
  <2>1. Address(lit) \in atoms
    BY LiteralsType
  <2> QED
    BY <2>1, <1>4, FS_RemoveElement
<1>6. Cardinality(1 .. dl) <= Cardinality(others)
  BY <1>3, <1>5, FS_Injection
<1> QED
  BY <1>1, <1>4, <1>5, <1>6

LEMMA GuessInvariant ==
  ASSUME CDNLInv, Guess
  PROVE  CDNLInv'
<1> DEFINE p == propagation
           r == AddNogoods(p, nogoodsToAdd)
           dl == currentDL + 1
<1>1. /\ RecordOK(p) /\ AssignmentOK(p, Atoms) /\ WatchesOK(p, Atoms, {})
      /\ AtomsOK(Atoms) /\ InstanceOK /\ LevelsOK /\ DecisionsOK(p, currentDL, decisionLiteral, Atoms)
      /\ CausesOK(p, currentDL)
      /\ Late \in SUBSET SUBSET Int
  BY InstanceType DEF CDNLInv, PropagationOK
<1>2. PICK lit \in Literals : /\ Unassigned(r, lit)
                              /\ propagation' = SetFact(r, lit, dl, NoCause)
                              /\ decisionLiteral' = [decisionLiteral EXCEPT ![dl] = lit]
  BY DEF Guess
<1>3. /\ currentDL' = dl /\ exhaustedDL' = exhaustedDL
      /\ flipped' = flipped /\ nogoodsToAdd' = {} /\ analysis' = analysis
      /\ pc' \in {"complete", "propagating"} /\ instance' = instance
      /\ pc = "propagating"
  BY DEF Guess, NothingLearned, NoConflict, Propagated, LoopOrReturn
<1>4. ~Backtracking /\ pc # "analysis" /\ flipped = 0
  BY <1>3 DEF Backtracking, CDNLInv, FlippedOK
<1>5. currentDL \in Nat /\ dl \in Nat /\ exhaustedDL <= dl /\ Below(p, currentDL)
  BY <1>1, <1>4 DEF LevelsOK
<1>6. nogoodsToAdd \in SUBSET SUBSET Int
  BY <1>1 DEF InstanceOK
<1>7. /\ RecordOK(r) /\ AssignmentOK(r, Atoms) /\ WatchesOK(r, Atoms, {})
      /\ Extended(p, Accepted(nogoodsToAdd, Atoms), r)
  BY <1>1, <1>6, AddNogoodsOK
<1> DEFINE q == SetFact(r, lit, dl, NoCause)
<1> HIDE DEF r
<1>8. Below(r, currentDL) /\ CausesOK(r, currentDL) /\ DecisionsOK(r, currentDL, decisionLiteral, Atoms)
  BY <1>1, <1>5, <1>7, AddKeepsOrder
<1>9. lit \in LiteralsOf(Atoms) /\ Unassigned(r, lit)
  <2>1. lit \in LiteralsOf(Atoms)
    <3>1. \A a \in Atoms : a \in Nat /\ a > 0
      BY <1>1 DEF AtomsOK
    <3> QED
      BY <3>1 DEF Literals, LiteralsOf, Address
  <2> QED
    BY <2>1, <1>2
<1>10. Below(r, dl) /\ CausesOK(r, dl)
  <2>1. \A l \in Range(r.assignment) : l \in Range(p.assignment) /\ LevelIn(r, l) = Level(l)
    BY <1>7 DEF Extended, LevelIn, Level
  <2>2. \A l \in Range(r.assignment) : LevelIn(r, l) \in Nat /\ LevelIn(r, l) <= currentDL
    BY <2>1, <1>4, LevelType
  <2>3. Below(r, dl)
    BY <2>2, <1>5 DEF Below
  <2>4. \A i \in DOMAIN r.assignment : r.assignment[i] \in Range(r.assignment)
    BY DEF Range
  <2> QED
    BY <2>2, <2>3, <2>4, <1>8 DEF CausesOK
<1>11. /\ RecordOK(q) /\ AssignmentOK(q, Atoms) /\ WatchesOK(q, Atoms, {}) /\ CausesOK(q, dl)
       /\ Assigned(r, lit, dl, NoCause, q)
       /\ Range(q.assignment) = Range(r.assignment) \cup {lit}
  <2> HIDE DEF dl
  <2> QED
    BY <1>1, <1>5, <1>7, <1>9, <1>10, SetWithoutCause
<1>12. dl \in Atoms
  BY <1>1, <1>5, <1>7, <1>8, <1>9, RoomForGuess
<1> HIDE DEF q
<1>13. /\ LevelIn(q, lit) = dl
       /\ \A l \in Range(r.assignment) : LevelIn(q, l) = LevelIn(r, l)
  <2> HIDE DEF dl
  <2> QED
    BY <1>1, <1>7, <1>9, <1>11, AssignedOrder
<1>14. Below(q, dl)
  BY <1>5, <1>10, <1>11, <1>13 DEF Below
<1>15. DecisionsOK(q, dl, decisionLiteral', Atoms)
  <2>1. decisionLiteral' \in [Atoms -> LiteralsOf(Atoms) \cup {0}] /\ decisionLiteral'[dl] = lit
    BY <1>2, <1>8, <1>9, <1>12 DEF DecisionsOK
  <2>2. \A n \in 1 .. currentDL : decisionLiteral'[n] = decisionLiteral[n]
    BY <1>2, <1>5, <1>8 DEF DecisionsOK
  <2>3. \A n \in 1 .. dl : n \in 1 .. currentDL \/ n = dl
    BY <1>5
  <2> HIDE DEF dl
  <2> QED
    BY <2>1, <2>2, <2>3, <1>8, <1>11, <1>12, <1>13 DEF DecisionsOK
<1>16. propagation' = q
  BY <1>2 DEF q
<1> HIDE DEF dl
<1> QED
  BY <1>3, <1>4, <1>5, <1>11, <1>14, <1>15, <1>16, LoopInvariant

LEMMA SetAssumptionInvariant ==
  ASSUME CDNLInv, SetAssumption
  PROVE  CDNLInv'
<1> DEFINE p == propagation
<1>1. /\ RecordOK(p) /\ AssignmentOK(p, Atoms) /\ WatchesOK(p, Atoms, {})
      /\ AtomsOK(Atoms) /\ InstanceOK /\ LevelsOK /\ DecisionsOK(p, currentDL, decisionLiteral, Atoms)
      /\ FlippedOK /\ CausesOK(p, currentDL) /\ AnalysisOK
  BY InstanceType DEF CDNLInv, PropagationOK
<1>2. PICK lit \in instance.assumptions \ Range(p.assignment) : propagation' = SetFact(p, lit, 0, NoCause)
  BY DEF SetAssumption
<1>3. /\ currentDL' = currentDL /\ exhaustedDL' = exhaustedDL /\ decisionLiteral' = decisionLiteral
      /\ flipped' = flipped /\ nogoodsToAdd' = nogoodsToAdd /\ analysis' = analysis
      /\ pc' = pc /\ instance' = instance /\ pc = "assuming"
  BY DEF SetAssumption
<1>4. /\ ~Backtracking /\ currentDL \in Nat /\ 0 <= currentDL /\ Below(p, currentDL)
      /\ Range(p.assignment) \subseteq instance.assumptions
  BY <1>1, <1>3 DEF Backtracking, LevelsOK
<1>5. lit \in LiteralsOf(Atoms) /\ Unassigned(p, lit)
  BY <1>1, <1>2, <1>4 DEF InstanceOK, Consistent, Unassigned, Satisfied, Falsified
<1> DEFINE q == SetFact(p, lit, 0, NoCause)
<1>6. /\ RecordOK(q) /\ AssignmentOK(q, Atoms) /\ WatchesOK(q, Atoms, {}) /\ CausesOK(q, currentDL)
      /\ Assigned(p, lit, 0, NoCause, q)
      /\ Range(q.assignment) = Range(p.assignment) \cup {lit}
  BY <1>1, <1>4, <1>5, SetWithoutCause
<1>7. propagation' = q
  BY <1>2
<1> HIDE DEF q
<1>8. Below(q, currentDL) /\ DecisionsOK(q, currentDL, decisionLiteral, Atoms)
  BY <1>1, <1>4, <1>5, <1>6, SetKeepsOrder
<1>9. Atoms' = Atoms /\ Given' = Given /\ Late' = Late
  BY <1>3 DEF Atoms, Given, Late
<1>10. PropagationOK' /\ InstanceOK'
  BY <1>1, <1>3, <1>6, <1>7, <1>9 DEF PropagationOK, InstanceOK
<1>11. LevelsOK' /\ AnalysisOK' /\ FlippedOK'
  BY <1>1, <1>2, <1>3, <1>4, <1>6, <1>7, <1>8 DEF LevelsOK, AnalysisOK, FlippedOK, Backtracking
<1>12. (DecisionsOK(propagation, currentDL, decisionLiteral, Atoms) /\ CausesOK(propagation, currentDL))'
  BY <1>3, <1>6, <1>7, <1>8, <1>9
<1> QED
  BY <1>10, <1>11, <1>12 DEF CDNLInv

LEMMA RestartInvariant ==
  ASSUME CDNLInv, RestartWithAssumptions
  PROVE  CDNLInv'
<1> DEFINE p == propagation
           q == InitWatchingStructures(Nogoods(p))
<1>1. /\ WatchesOK(p, Atoms, {}) /\ AtomsOK(Atoms) /\ InstanceOK /\ FlippedOK /\ AnalysisOK
  BY InstanceType DEF CDNLInv, PropagationOK
<1>2. /\ propagation' = q /\ currentDL' = 0 /\ exhaustedDL' = 0 /\ decisionLiteral' = [dl \in Atoms |-> 0]
      /\ flipped' = flipped /\ nogoodsToAdd' = nogoodsToAdd /\ analysis' = analysis
      /\ pc' = "assuming" /\ pc \in {"idle", "exhausted"}
  BY DEF RestartWithAssumptions
<1>3. PICK assumptions \in SUBSET Literals :
        /\ Consistent(assumptions)
        /\ instance' = [instance EXCEPT !.assumptions = assumptions, !.restarts = @ - 1]
  BY DEF RestartWithAssumptions
<1>4. Nogoods(p) \in SUBSET SUBSET Int
  BY <1>1 DEF WatchesOK, LiteralsOf
<1>5. /\ RecordOK(q) /\ AssignmentOK(q, Atoms) /\ WatchesOK(q, Atoms, {})
      /\ Range(q.assignment) = {} /\ CausesOK(q, 0)
  BY <1>1, <1>4, InitWatchingStructuresOK
<1> HIDE DEF q
<1>6. /\ instance' = [problem |-> instance'.problem, atoms |-> instance'.atoms,
                      assumptions |-> instance'.assumptions, restarts |-> instance'.restarts]
      /\ instance'.problem = instance.problem /\ instance'.atoms = instance.atoms
      /\ instance'.assumptions = assumptions
  BY <1>1, <1>3 DEF InstanceOK
<1>7. Atoms' = Atoms /\ Given' = Given /\ Late' = Late
  BY <1>6 DEF Atoms, Given, Late
<1>8. assumptions \subseteq LiteralsOf(Atoms)
  <2>1. \A a \in Atoms : a \in Nat /\ a > 0
    BY <1>1 DEF AtomsOK
  <2> QED
    BY <2>1 DEF Literals, LiteralsOf, Address
<1>9. PropagationOK' /\ InstanceOK'
  BY <1>1, <1>2, <1>3, <1>5, <1>6, <1>7, <1>8 DEF PropagationOK, InstanceOK
<1>10. analysis = NoAnalysis /\ flipped = 0
  BY <1>1, <1>2 DEF AnalysisOK, FlippedOK, Backtracking
<1>11. LevelsOK' /\ AnalysisOK' /\ FlippedOK'
  BY <1>2, <1>5, <1>10 DEF LevelsOK, Below, AnalysisOK, NoAnalysis, FlippedOK
<1>12. (DecisionsOK(propagation, currentDL, decisionLiteral, Atoms) /\ CausesOK(propagation, currentDL))'
  BY <1>2, <1>5, <1>7 DEF DecisionsOK
<1> QED
  BY <1>9, <1>11, <1>12 DEF CDNLInv

-----------------------------------------------------------------------------
(* The theorems.                                                           *)

LEMMA StepInvariant == CDNLInv /\ [Next]_vars => CDNLInv'
<1> SUFFICES ASSUME CDNLInv, [Next]_vars PROVE CDNLInv'
  OBVIOUS
<1>1. CASE Propagate
  BY <1>1, PropagateInvariant
<1>2. CASE ConflictAtDL0 \/ ReturnModel \/ AssumptionsSet \/ GetNextModel \/ NoMoreModels \/ AddNogood
  BY <1>2, OtherStepsInvariant
<1>3. CASE ConflictBelowExhausted \/ LeaveModel
  BY <1>3, FlipInvariant
<1>4. CASE StartAnalysis \/ ResolveImplied
  BY <1>4, AnalysisInvariant
<1>5. CASE Backjump
  BY <1>5, BackjumpInvariant
<1>6. CASE BacktrackFact
  BY <1>6, BacktrackFactInvariant
<1>7. CASE FinishBacktracking
  BY <1>7, FinishBacktrackingInvariant
<1>8. CASE PropagatorsLearn \/ NothingToGuess
  BY <1>8, LearnInvariant
<1>9. CASE Guess
  BY <1>9, GuessInvariant
<1>10. CASE SetAssumption
  BY <1>10, SetAssumptionInvariant
<1>11. CASE RestartWithAssumptions
  BY <1>11, RestartInvariant
<1>12. CASE Terminating \/ UNCHANGED vars
  BY <1>12, OtherStepsInvariant DEF Terminating
<1> QED
  BY <1>1, <1>2, <1>3, <1>4, <1>5, <1>6, <1>7, <1>8, <1>9, <1>10, <1>11, <1>12 DEF Next, Search, Call

\* The invariant holds in every reachable state.
LEMMA Invariant == Spec => []CDNLInv
<1>1. Init => CDNLInv
  BY InitInvariant
<1>2. CDNLInv /\ [Next]_vars => CDNLInv'
  BY StepInvariant
<1> QED
  BY <1>1, <1>2, PTL DEF Spec

LEMMA WatchesFromInvariant == CDNLInv => WatchesExact
<1> SUFFICES ASSUME CDNLInv, NEW ng \in Nogoods(propagation)
             PROVE  LET p == propagation
                        active == ~Inactive(p, ng)
                        free == Free(p, ng)
                    IN  /\ (ng \in p.unitNogoods) = (active /\ Cardinality(free) = 1)
                        /\ (ng \in p.contradictoryNogoods) = (active /\ free = {})
                        /\ p.watched[ng] \subseteq free
                        /\ active => Cardinality(p.watched[ng]) >= Min({2, Cardinality(free)})
  BY DEF WatchesExact
<1> DEFINE p == propagation
           F == Free(p, ng)
           W == p.watched[ng]
<1>1. AtomsOK(Atoms) /\ ng \subseteq LiteralsOf(Atoms) /\ W \subseteq F /\ WatchOK(p, ng)
  BY InstanceType DEF CDNLInv, PropagationOK, WatchesOK
<1>2. IsFiniteSet(F) /\ IsFiniteSet(W)
  BY <1>1, FreeType, FS_Subset
<1>3. /\ Cardinality(F) \in Nat /\ Cardinality(W) \in Nat
      /\ Cardinality(F) = 0 <=> F = {}
      /\ Cardinality(F) = 1 <=> One(F)
      /\ Cardinality(F) >= 2 <=> Many(F)
      /\ Cardinality(W) = 1 <=> One(W)
      /\ Cardinality(W) >= 2 <=> Many(W)
  BY <1>2, CardinalityCases
<1> HIDE DEF F, W
<1>4. (ng \in p.unitNogoods) = (~Inactive(p, ng) /\ Cardinality(F) = 1)
  BY <1>1, <1>3 DEF WatchOK, F
<1>5. (ng \in p.contradictoryNogoods) = (~Inactive(p, ng) /\ F = {})
  BY <1>1 DEF WatchOK, F
<1>6. ASSUME ~Inactive(p, ng) PROVE Cardinality(W) >= Min({2, Cardinality(F)})
  <2>1. /\ Min({2, Cardinality(F)}) \in {2, Cardinality(F)}
        /\ Min({2, Cardinality(F)}) <= 2 /\ Min({2, Cardinality(F)}) <= Cardinality(F)
    BY <1>3, LeastElement
  <2>2. (One(F) => One(W)) /\ (Many(F) => Many(W))
    BY <1>6, <1>1 DEF WatchOK, Enough, F, W
  <2> QED
    BY <2>1, <2>2, <1>3
<1> QED
  BY <1>1, <1>4, <1>5, <1>6 DEF F, W

\* In every reachable state the watched literals, the unit nogoods and the
\* contradictory nogoods are exact.
THEOREM WatchesHold == Spec => []WatchesExact
BY Invariant, WatchesFromInvariant, PTL

LEMMA CausesFromInvariant == CDNLInv => CausesJustify
<1> SUFFICES ASSUME CDNLInv, ~Backtracking, NEW i \in DOMAIN propagation.assignment
             PROVE  LET lit == propagation.assignment[i]
                        c == propagation.cause[Address(lit)]
                    IN  c # NoCause => /\ c \in Nogoods(propagation)
                                       /\ Negation(lit) \in c
                                       /\ \A l \in c \ {Negation(lit)} :
                                            /\ l \in {propagation.assignment[j] : j \in 1 .. i - 1}
                                            /\ Level(l) <= Level(lit)
  BY DEF CausesJustify
<1>1. CausesOK(propagation, currentDL) /\ Below(propagation, currentDL)
  BY DEF CDNLInv, LevelsOK
<1>2. LevelIn(propagation, propagation.assignment[i]) <= currentDL
  BY <1>1 DEF Below, Range
<1>3. Justified(propagation, i)
  BY <1>1, <1>2 DEF CausesOK
<1> QED
  BY <1>3 DEF Justified, Level, LevelIn

\* In every reachable state each implied literal is justified by its cause.
THEOREM CausesHold == Spec => []CausesJustify
BY Invariant, CausesFromInvariant, PTL

-----------------------------------------------------------------------------
(* What the nogoods exclude.                                               *)

Respects(S, nogoods) == \A ng \in nogoods : ~ng \subseteq S

\* Together with the given nogoods and those that came late, the learned ones exclude
\* no assignment, and neither does the nogood that is being learned.
ImpliedOK ==
  \A S \in Assignments(Atoms) :
    Respects(S, Given) /\ Respects(S, Late \cap Nogoods(propagation)) =>
      /\ Respects(S, Nogoods(propagation))
      /\ pc = "analysis" => ~analysis.learnedNogood \subseteq S

\* An assignment contains each atom in one polarity.
LEMMA AssignmentsType ==
  ASSUME AtomsOK(Atoms), NEW S \in Assignments(Atoms), NEW lit \in LiteralsOf(Atoms)
  PROVE  lit \in S <=> Negation(lit) \notin S
<1>1. PICK positive \in SUBSET Atoms : S = {IF a \in positive THEN a ELSE -a : a \in Atoms}
  BY DEF Assignments
<1>2. \A a \in Atoms : a \in Nat /\ a > 0
  BY DEF AtomsOK
<1>3. lit \in Int /\ Address(lit) \in Atoms
  BY DEF LiteralsOf
<1>4. ASSUME NEW l \in Int, Address(l) \in Atoms
      PROVE  l \in S <=> (l > 0 <=> Address(l) \in positive)
  <2>1. l \in S => (l > 0 <=> Address(l) \in positive)
    <3>1. SUFFICES ASSUME NEW a \in Atoms, l = IF a \in positive THEN a ELSE -a
                   PROVE  l > 0 <=> Address(l) \in positive
      BY <1>1
    <3>2. a \in Nat /\ a > 0
      BY <1>2
    <3>3. CASE a \in positive
      BY <3>1, <3>2, <3>3 DEF Address
    <3>4. CASE a \notin positive
      <4>1. l = -a /\ l < 0 /\ -l = a
        BY <3>1, <3>2, <3>4
      <4> QED
        BY <4>1, <3>2, <3>4 DEF Address
    <3> QED
      BY <3>3, <3>4
  <2>2. (l > 0 <=> Address(l) \in positive) => l \in S
    <3>1. SUFFICES ASSUME l > 0 <=> Address(l) \in positive
                   PROVE  l = IF Address(l) \in positive THEN Address(l) ELSE -Address(l)
      BY <1>1, <1>4
    <3>2. CASE l > 0
      <4>1. ~(l < 0)
        BY <3>2
      <4>2. Address(l) = l
        BY <4>1 DEF Address
      <4> QED
        BY <4>2, <3>1, <3>2
    <3>3. CASE ~(l > 0)
      <4>1. l < 0 /\ Address(l) = -l /\ Address(l) \notin positive
        BY <3>1, <3>3, <1>2, <1>4 DEF Address
      <4>2. l = -(-l)
        BY <1>4
      <4> QED
        BY <4>1, <4>2
    <3> QED
      BY <3>2, <3>3
  <2> QED
    BY <2>1, <2>2
<1>5. /\ Negation(lit) \in Int /\ Address(Negation(lit)) = Address(lit)
      /\ Negation(lit) > 0 <=> ~(lit > 0)
  BY <1>2, <1>3 DEF Address, Negation
<1> QED
  BY <1>3, <1>4, <1>5

\* No step forgets a nogood, and none adds one but those from outside and the learned one.
NogoodsKept(before, after) ==
  /\ before \subseteq after
  /\ \A ng \in after : ng \in before \/ ng \in Late \/ (Backjump /\ ng = analysis.learnedNogood)

LEMMA NogoodsGrow ==
  ASSUME CDNLInv, [Next]_vars
  PROVE  NogoodsKept(Nogoods(propagation), Nogoods(propagation'))
<1> DEFINE p == propagation
           q == propagation'
<1> USE DEF NogoodsKept
<1>1. /\ RecordOK(p) /\ AssignmentOK(p, Atoms) /\ WatchesOK(p, Atoms, {}) /\ nogoodsToAdd \subseteq Late
  BY DEF CDNLInv, PropagationOK, InstanceOK
<1>2. ASSUME NEW r, RecordOK(r), Nogoods(r) = Nogoods(p), NEW added, q = AddNogoods(r, added)
      PROVE  /\ Nogoods(p) \subseteq Nogoods(q)
             /\ \A ng \in Nogoods(q) : ng \in Nogoods(p) \/ ng \in added
  <2>1. Extended(r, Accepted(added, Atoms), q)
    BY <1>2, AddNogoodsFields
  <2> QED
    BY <2>1, <1>2 DEF Extended, Accepted
<1>3. CASE Nogoods(q) = Nogoods(p)
  BY <1>3
<1>4. CASE Propagate
  <2>1. PICK ng, lit, dl : ng \in p.unitNogoods /\ q = SetFact([p EXCEPT !.unitNogoods = @ \ {ng}], lit, dl, ng)
    BY <1>4, Zenon DEF Propagate, PropagateUnit
  <2>2. RecordOK([p EXCEPT !.unitNogoods = @ \ {ng}]) /\ Nogoods([p EXCEPT !.unitNogoods = @ \ {ng}]) = Nogoods(p)
    BY <1>1 DEF RecordOK, Nogoods
  <2>3. Assigned([p EXCEPT !.unitNogoods = @ \ {ng}], lit, dl, ng, q)
    BY <2>1, <2>2, SetFactFields
  <2>4. Nogoods(q) = Nogoods(p)
    BY <2>2, <2>3 DEF Assigned
  <2> QED
    BY <2>4
<1>5. CASE BacktrackFact
  <2>1. q = ClearFact(p, NextToClear)
    BY <1>5 DEF BacktrackFact
  <2>2. Nogoods(q) = Nogoods(p)
    BY <2>1, <1>1 DEF RecordOK, ClearFact, Unassign, Nogoods
  <2> QED
    BY <2>2
<1>6. CASE SetAssumption
  <2>1. PICK lit : q = SetFact(p, lit, 0, NoCause)
    BY <1>6 DEF SetAssumption
  <2>2. Assigned(p, lit, 0, NoCause, q)
    BY <2>1, <1>1, SetFactFields
  <2> QED
    BY <2>2 DEF Assigned
<1>7. CASE Backjump
  BY <1>1, <1>2, <1>7 DEF Backjump
<1>8. CASE FinishBacktracking
  <2> DEFINE r == IF flipped = 0 THEN p ELSE SetFact(p, flipped, currentDL, NoCause)
             toLoad == IF pc = "backtracking" THEN nogoodsToAdd ELSE {}
  <2>1. q = AddNogoods(r, toLoad) /\ toLoad \subseteq Late
    BY <1>1, <1>8 DEF FinishBacktracking
  <2>2. RecordOK(r) /\ Nogoods(r) = Nogoods(p)
    <3>1. CASE flipped = 0
      BY <3>1, <1>1
    <3>2. CASE flipped # 0
      <4>1. r = SetFact(p, flipped, currentDL, NoCause)
        BY <3>2
      <4> HIDE DEF r
      <4>2. RecordOK(r) /\ Assigned(p, flipped, currentDL, NoCause, r)
        BY <4>1, <1>1, SetFactFields
      <4> QED
        BY <4>2 DEF Assigned
    <3> QED
      BY <3>1, <3>2
  <2> HIDE DEF r, toLoad
  <2> QED
    BY <2>1, <2>2, <1>2
<1>9. CASE PropagatorsLearn
  <2>1. PICK learned \in SUBSET Late : q = AddNogoods(p, nogoodsToAdd \cup learned)
    BY <1>9 DEF PropagatorsLearn, Late
  <2> QED
    BY <2>1, <1>1, <1>2
<1>10. CASE NothingToGuess
  BY <1>1, <1>2, <1>10 DEF NothingToGuess
<1>11. CASE Guess
  <2> DEFINE r == AddNogoods(p, nogoodsToAdd)
  <2>1. PICK lit : q = SetFact(r, lit, currentDL + 1, NoCause)
    BY <1>11 DEF Guess
  <2>2. Nogoods(r) = Nogoods(p)
    BY <1>11 DEF Guess, NothingLearned
  <2>3. RecordOK(r)
    BY <1>1, AddNogoodsFields
  <2> HIDE DEF r
  <2>4. Assigned(r, lit, currentDL + 1, NoCause, q)
    BY <2>1, <2>3, SetFactFields
  <2> QED
    BY <2>2, <2>4 DEF Assigned
<1>12. CASE RestartWithAssumptions
  <2>1. q = InitWatchingStructures(Nogoods(p))
    BY <1>12 DEF RestartWithAssumptions
  <2>2. Nogoods(p) \in SUBSET SUBSET Int /\ AtomsOK(Atoms)
    BY <1>1, InstanceType DEF WatchesOK, LiteralsOf, CDNLInv
  <2>3. Nogoods(q) = Accepted(Nogoods(p), Atoms)
    BY <2>1, <2>2, InitWatchingStructuresOK
  <2>4. \A ng \in Nogoods(p) : \A lit \in ng : Address(lit) \in Atoms
    BY <1>1 DEF WatchesOK, LiteralsOf
  <2> QED
    BY <2>3, <2>4 DEF Accepted
<1>13. CASE \/ ConflictAtDL0 \/ ReturnModel \/ AssumptionsSet \/ GetNextModel \/ NoMoreModels \/ AddNogood
            \/ ConflictBelowExhausted \/ LeaveModel \/ StartAnalysis \/ ResolveImplied
            \/ Terminating \/ UNCHANGED vars
  BY <1>3, <1>13 DEF ConflictAtDL0, ReturnModel, AssumptionsSet, GetNextModel, NoMoreModels, AddNogood,
     ConflictBelowExhausted, LeaveModel, FlipDecisionLiteral, StartAnalysis, ResolveImplied, Terminating, vars
<1> QED
  BY <1>4, <1>5, <1>6, <1>7, <1>8, <1>9, <1>10, <1>11, <1>12, <1>13 DEF Next, Search, Call

\* The problem stays the same.
LEMMA ProblemStays ==
  ASSUME CDNLInv, [Next]_vars
  PROVE  Atoms' = Atoms /\ Given' = Given /\ Late' = Late /\ instance.problem' = instance.problem
<1>1. instance'.problem = instance.problem /\ instance'.atoms = instance.atoms
  BY DEF Next, Search, Call, Propagate, PropagateUnit, BacktrackFact, SetAssumption, Backjump, FinishBacktracking,
     PropagatorsLearn, NothingToGuess, Guess, RestartWithAssumptions, CDNLInv, InstanceOK,
     ConflictAtDL0, ReturnModel, AssumptionsSet, GetNextModel, NoMoreModels, AddNogood,
     ConflictBelowExhausted, LeaveModel, FlipDecisionLiteral, StartAnalysis, ResolveImplied, Terminating, vars
<1> QED
  BY <1>1 DEF Atoms, Given, Late

\* The nogood that is being learned excludes nothing that the others allow.
LEMMA ResolutionSound ==
  ASSUME CDNLInv, NEW S \in Assignments(Atoms), Respects(S, Nogoods(propagation)),
         pc = "analysis" => ~(analysis.learnedNogood \subseteq S),
         StartAnalysis \/ ResolveImplied
  PROVE  ~(analysis'.learnedNogood \subseteq S)
<1> DEFINE p == propagation
<1>1. CASE StartAnalysis
  <2>1. PICK ng \in p.contradictoryNogoods : analysis'.learnedNogood = ng
    BY <1>1 DEF StartAnalysis
  <2>2. ng \in Nogoods(p)
    BY DEF CDNLInv, PropagationOK, WatchesOK
  <2> QED
    BY <2>1, <2>2 DEF Respects
<1>2. CASE ResolveImplied
  <2> DEFINE ng == analysis.learnedNogood
  <2>1. PICK lit \in Implied(ng) : analysis'.learnedNogood = Resolve(ng, p.cause[Address(lit)], lit)
    BY <1>2 DEF ResolveImplied
  <2> DEFINE c == p.cause[Address(lit)]
  <2>2. pc = "analysis" /\ ng \subseteq Range(p.assignment)
    BY <1>2 DEF ResolveImplied, CDNLInv, AnalysisOK
  <2>3. c \in Nogoods(p) /\ lit \notin c
    BY <2>2, ImpliedType
  <2>4. lit \in Range(p.assignment)
    BY <2>2 DEF Implied, AtLatestDL
  <2>5. lit \in LiteralsOf(Atoms) /\ Negation(lit) \notin ng
    BY <2>2, <2>4, LevelType
  <2>6. lit \in S \/ Negation(lit) \in S
    BY <2>5, AssignmentsType, InstanceType DEF CDNLInv
  <2>7. ~ng \subseteq S /\ ~c \subseteq S
    BY <2>2, <2>3 DEF Respects
  <2> QED
    BY <2>1, <2>3, <2>5, <2>6, <2>7 DEF Resolve
<1> QED
  BY <1>1, <1>2

\* Other steps leave the analysis alone.
LEMMA AnalysisKept ==
  ASSUME [Next]_vars, ~StartAnalysis, ~ResolveImplied, pc' = "analysis"
  PROVE  pc = "analysis" /\ analysis' = analysis
BY DEF Next, Search, Call, Propagate, PropagateUnit, BacktrackFact, SetAssumption, Backjump,
   FinishBacktracking, LoopOrReturn, PropagatorsLearn, NothingToGuess, Guess, RestartWithAssumptions,
   ConflictAtDL0, ReturnModel, AssumptionsSet, GetNextModel, NoMoreModels, AddNogood,
   ConflictBelowExhausted, LeaveModel, FlipDecisionLiteral, Terminating, vars

LEMMA ImpliedStep ==
  ASSUME CDNLInv, ImpliedOK, [Next]_vars
  PROVE  ImpliedOK'
<1> DEFINE p == propagation
           q == propagation'
<1>1. /\ Nogoods(p) \subseteq Nogoods(q)
      /\ \A ng \in Nogoods(q) : ng \in Nogoods(p) \/ ng \in Late \/ (Backjump /\ ng = analysis.learnedNogood)
  BY NogoodsGrow DEF NogoodsKept
<1>2. Atoms' = Atoms /\ Given' = Given /\ Late' = Late
  BY ProblemStays
<1>3. SUFFICES ASSUME NEW S \in Assignments(Atoms), Respects(S, Given), Respects(S, Late \cap Nogoods(q))
               PROVE  Respects(S, Nogoods(q)) /\ (pc' = "analysis" => ~analysis'.learnedNogood \subseteq S)
  BY <1>2 DEF ImpliedOK
<1>4. Respects(S, Nogoods(p)) /\ (pc = "analysis" => ~analysis.learnedNogood \subseteq S)
  BY <1>1, <1>3 DEF ImpliedOK, Respects
<1>5. Respects(S, Nogoods(q))
  BY <1>1, <1>3, <1>4 DEF Respects, Backjump
<1>6. ASSUME pc' = "analysis" PROVE ~analysis'.learnedNogood \subseteq S
  <2>1. CASE StartAnalysis \/ ResolveImplied
    BY <2>1, <1>4, ResolutionSound
  <2>2. CASE ~StartAnalysis /\ ~ResolveImplied
    BY <2>2, <1>4, <1>6, AnalysisKept
  <2> QED
    BY <2>1, <2>2
<1> QED
  BY <1>5, <1>6

LEMMA ImpliedInit == Init => ImpliedOK
<1> SUFFICES ASSUME Init PROVE ImpliedOK
  OBVIOUS
<1>1. AtomsOK(Atoms) /\ Given \in SUBSET SUBSET Int
  BY InitInvariant, InstanceType DEF CDNLInv
<1>2. propagation = InitWatchingStructures(Given) /\ pc = "assuming"
  BY DEF Init, Given
<1>3. Nogoods(propagation) = Accepted(Given, Atoms)
  BY <1>1, <1>2, InitWatchingStructuresOK
<1> QED
  BY <1>2, <1>3 DEF ImpliedOK, Respects, Accepted

LEMMA ImpliedInvariant == Spec => [](CDNLInv /\ ImpliedOK)
<1>1. Init => CDNLInv /\ ImpliedOK
  BY InitInvariant, ImpliedInit
<1>2. CDNLInv /\ ImpliedOK /\ [Next]_vars => (CDNLInv /\ ImpliedOK)'
  BY StepInvariant, ImpliedStep
<1> QED
  BY <1>1, <1>2, PTL DEF Spec

LEMMA ImpliedLearned == CDNLInv /\ ImpliedOK => LearnedAreImplied
<1> SUFFICES ASSUME CDNLInv, ImpliedOK PROVE LearnedAreImplied
  OBVIOUS
<1>1. SolutionsOf[instance.problem] = {S \in Assignments(Atoms) : Respects(S, Given)}
  BY DEF CDNLInv, InstanceOK, SolutionsOf, Allowed, Respects, Given
<1> DEFINE solutions == Allowed(SolutionsOf[instance.problem], Late \cap Learned)
<1>2. ASSUME NEW S \in solutions PROVE \A ng \in Learned : ~ng \subseteq S
  <2>1. S \in Assignments(Atoms) /\ Respects(S, Given) /\ Respects(S, Late \cap Learned)
    BY <1>1 DEF Allowed, Respects
  <2>2. Respects(S, Late \cap Nogoods(propagation))
    BY <2>1 DEF Respects, Learned
  <2>3. Respects(S, Nogoods(propagation))
    BY <2>1, <2>2 DEF ImpliedOK
  <2> QED
    BY <2>3 DEF Respects, Learned
<1> HIDE DEF solutions
<1>3. Allowed(solutions, Learned) = solutions
  BY <1>2 DEF Allowed
<1> QED
  BY <1>3 DEF solutions, LearnedAreImplied

\* In every reachable state the learned nogoods exclude nothing that the given nogoods
\* and those added from outside allow.
THEOREM LearnedHold == Spec => []LearnedAreImplied
BY ImpliedInvariant, ImpliedLearned, PTL

-----------------------------------------------------------------------------
(* Ground programs and their answer sets.                                  *)

\* What has to be true for a body to be true under a set of atoms, ...
Holds(body, S) == \A lit \in body : (lit > 0) = (Address(lit) \in S)

\* ... and the atoms, those of the bodies included, that are true with it.
TrueAtoms(P, S) ==
  S \cup {BodyAtom(P, r) : r \in {q \in Rules(P) : Holds(Body(P, q), S)}}
    \cup {ShiftedBodyAtom(P, s[1], s[2]) : s \in {t \in RealShifted(P) : Holds(ShiftedBody(P, t[1], t[2]), S)}}

LEMMA RuleType ==
  ASSUME NEW P, GroundProgram(P), NEW r \in Rules(P)
  PROVE  /\ P.atoms \in Nat /\ Len(P.rules) \in Nat
         /\ Ordinary(P) = 1 .. P.atoms /\ Rules(P) = 1 .. Len(P.rules)
         /\ r \in Nat /\ r > 0 /\ r <= Len(P.rules)
         /\ Heads(P, r) \subseteq Ordinary(P) /\ P.rules[r].pos \subseteq Ordinary(P)
         /\ P.rules[r].neg \subseteq Ordinary(P)
<1>1. P.atoms \in Nat /\ Ordinary(P) = 1 .. P.atoms
  BY DEF GroundProgram, Ordinary
<1> DEFINE R == [head : SUBSET Ordinary(P), pos : SUBSET Ordinary(P), neg : SUBSET Ordinary(P)]
<1>2. P.rules \in Seq(R)
  BY DEF GroundProgram
<1> HIDE DEF R
<1>3. Len(P.rules) \in Nat /\ Rules(P) = 1 .. Len(P.rules) /\ P.rules[r] \in R
  BY <1>2 DEF Rules
<1>4. P.rules[r].head \subseteq Ordinary(P) /\ P.rules[r].pos \subseteq Ordinary(P) /\ P.rules[r].neg \subseteq Ordinary(P)
  BY <1>3 DEF R
<1> QED
  BY <1>1, <1>3, <1>4 DEF Heads

\* The pairs that createShiftedProgram has numbered up to one of them.
NumberedUpTo(P, s) == {t \in RealShifted(P) : t[1] < s[1] \/ (t[1] = s[1] /\ t[2] <= s[2])}

LEMMA NumberedFinite ==
  ASSUME NEW P, GroundProgram(P), NEW s \in RealShifted(P)
  PROVE  /\ s = <<s[1], s[2]>> /\ s[1] \in Rules(P) /\ s[2] \in Ordinary(P) /\ s[1] \in Nat /\ s[2] \in Nat
         /\ s[2] \in Heads(P, s[1])
         /\ s \in NumberedUpTo(P, s)
         /\ IsFiniteSet(NumberedUpTo(P, s))
         /\ Cardinality(NumberedUpTo(P, s)) \in Nat /\ Cardinality(NumberedUpTo(P, s)) >= 1
<1>1. s = <<s[1], s[2]>> /\ s[1] \in Rules(P) /\ s[2] \in Ordinary(P) /\ s[2] \in Heads(P, s[1])
  BY DEF RealShifted
<1>2. /\ s[1] \in Nat /\ s[2] \in Nat /\ P.atoms \in Nat /\ Len(P.rules) \in Nat
      /\ Ordinary(P) = 1 .. P.atoms /\ Rules(P) = 1 .. Len(P.rules)
  BY <1>1, RuleType
<1>3. IsFiniteSet(Rules(P) \X Ordinary(P))
  <2>1. IsFiniteSet(1 .. Len(P.rules))
    BY <1>2, FS_Interval
  <2>2. IsFiniteSet(1 .. P.atoms)
    BY <1>2, FS_Interval
  <2> QED
    BY <2>1, <2>2, <1>2, FS_Product, Zenon
<1>4. NumberedUpTo(P, s) \subseteq Rules(P) \X Ordinary(P)
  BY DEF NumberedUpTo, RealShifted
<1>5. IsFiniteSet(NumberedUpTo(P, s))
  BY <1>3, <1>4, FS_Subset
<1>6. s \in NumberedUpTo(P, s)
  BY <1>2 DEF NumberedUpTo
<1>7. Cardinality(NumberedUpTo(P, s)) \in Nat /\ Cardinality(NumberedUpTo(P, s)) # 0
  BY <1>5, <1>6, FS_CardinalityType, FS_EmptySet
<1> QED
  BY <1>1, <1>2, <1>5, <1>6, <1>7

LEMMA NumberedApart ==
  ASSUME NEW P, GroundProgram(P), NEW s \in RealShifted(P), NEW t \in RealShifted(P), s # t
  PROVE  Cardinality(NumberedUpTo(P, s)) # Cardinality(NumberedUpTo(P, t))
<1>1. ASSUME NEW u \in RealShifted(P), NEW v \in RealShifted(P), u # v,
             u[1] < v[1] \/ (u[1] = v[1] /\ u[2] <= v[2])
      PROVE  Cardinality(NumberedUpTo(P, u)) < Cardinality(NumberedUpTo(P, v))
  <2>1. /\ u = <<u[1], u[2]>> /\ u[1] \in Nat /\ u[2] \in Nat
        /\ v = <<v[1], v[2]>> /\ v[1] \in Nat /\ v[2] \in Nat
        /\ v \in NumberedUpTo(P, v) /\ IsFiniteSet(NumberedUpTo(P, v))
    BY NumberedFinite
  <2>2. u[1] < v[1] \/ (u[1] = v[1] /\ u[2] < v[2])
    BY <2>1, <1>1
  <2>3. \A w \in RealShifted(P) : w[1] \in Nat /\ w[2] \in Nat
    BY NumberedFinite
  <2>4. NumberedUpTo(P, u) \subseteq NumberedUpTo(P, v) /\ v \notin NumberedUpTo(P, u)
    BY <2>1, <2>2, <2>3 DEF NumberedUpTo
  <2>5. NumberedUpTo(P, u) # NumberedUpTo(P, v)
    BY <2>1, <2>4
  <2> QED
    BY <2>1, <2>4, <2>5, FS_Subset, FS_CardinalityType
<1>2. /\ s[1] \in Nat /\ s[2] \in Nat /\ t[1] \in Nat /\ t[2] \in Nat
      /\ Cardinality(NumberedUpTo(P, s)) \in Nat /\ Cardinality(NumberedUpTo(P, t)) \in Nat
  BY NumberedFinite
<1>3. CASE s[1] < t[1] \/ (s[1] = t[1] /\ s[2] <= t[2])
  BY <1>1, <1>2, <1>3
<1>4. CASE t[1] < s[1] \/ (t[1] = s[1] /\ t[2] <= s[2])
  BY <1>1, <1>2, <1>4
<1> QED
  BY <1>2, <1>3, <1>4

\* No two bodies share an atom.
LEMMA ShiftedAtoms ==
  ASSUME NEW P, GroundProgram(P), NEW s \in RealShifted(P)
  PROVE  /\ ShiftedBodyAtom(P, s[1], s[2]) \in Nat
         /\ ShiftedBodyAtom(P, s[1], s[2]) > P.atoms + Len(P.rules)
         /\ \A t \in RealShifted(P) :
              ShiftedBodyAtom(P, s[1], s[2]) = ShiftedBodyAtom(P, t[1], t[2]) => s = t
<1>1. \A t \in RealShifted(P) :
        /\ ShiftedBodyAtom(P, t[1], t[2]) = P.atoms + Len(P.rules) + Cardinality(NumberedUpTo(P, t))
        /\ Cardinality(NumberedUpTo(P, t)) \in Nat /\ Cardinality(NumberedUpTo(P, t)) >= 1
  <2>1. TAKE t \in RealShifted(P)
  <2>2. t = <<t[1], t[2]>> /\ Cardinality(NumberedUpTo(P, t)) \in Nat /\ Cardinality(NumberedUpTo(P, t)) >= 1
    BY NumberedFinite
  <2>3. ShiftedBodyAtom(P, t[1], t[2]) = P.atoms + Len(P.rules) + Cardinality(NumberedUpTo(P, t))
    BY <2>2 DEF ShiftedBodyAtom, NumberedUpTo
  <2> QED
    BY <2>2, <2>3
<1>2. P.atoms \in Nat /\ Len(P.rules) \in Nat
  BY RuleType, NumberedFinite
<1>3. ASSUME NEW t \in RealShifted(P), ShiftedBodyAtom(P, s[1], s[2]) = ShiftedBodyAtom(P, t[1], t[2])
      PROVE  s = t
  <2>1. Cardinality(NumberedUpTo(P, s)) = Cardinality(NumberedUpTo(P, t))
    BY <1>1, <1>2, <1>3
  <2> QED
    BY <2>1, NumberedApart
<1> QED
  BY <1>1, <1>2, <1>3

\* The atom of a body is true exactly if the body is.
LEMMA BodiesTrue ==
  ASSUME NEW P, GroundProgram(P), NEW S, S \subseteq Ordinary(P)
  PROVE  /\ \A a \in Ordinary(P) : a \in TrueAtoms(P, S) <=> a \in S
         /\ \A r \in Rules(P) : BodyAtom(P, r) \in TrueAtoms(P, S) <=> Holds(Body(P, r), S)
         /\ \A s \in RealShifted(P) :
              ShiftedBodyAtom(P, s[1], s[2]) \in TrueAtoms(P, S) <=> Holds(ShiftedBody(P, s[1], s[2]), S)
<1>1. P.atoms \in Nat /\ Ordinary(P) = 1 .. P.atoms
  BY DEF GroundProgram, Ordinary
<1>2. \A r \in Rules(P) : /\ BodyAtom(P, r) = P.atoms + r /\ r \in Nat /\ r > 0 /\ r <= Len(P.rules)
                          /\ Len(P.rules) \in Nat
  BY RuleType DEF BodyAtom
<1>3. \A s \in RealShifted(P) :
        /\ ShiftedBodyAtom(P, s[1], s[2]) \in Nat
        /\ ShiftedBodyAtom(P, s[1], s[2]) > P.atoms + Len(P.rules) /\ Len(P.rules) \in Nat
  BY ShiftedAtoms, NumberedFinite, RuleType
<1>4. \A s, t \in RealShifted(P) : ShiftedBodyAtom(P, s[1], s[2]) = ShiftedBodyAtom(P, t[1], t[2]) => s = t
  BY ShiftedAtoms
<1>5. \A a : a \in TrueAtoms(P, S) <=>
        \/ a \in S
        \/ \E r \in Rules(P) : Holds(Body(P, r), S) /\ a = BodyAtom(P, r)
        \/ \E s \in RealShifted(P) : Holds(ShiftedBody(P, s[1], s[2]), S) /\ a = ShiftedBodyAtom(P, s[1], s[2])
  BY DEF TrueAtoms
<1>6. ASSUME NEW a \in Ordinary(P) PROVE a \in TrueAtoms(P, S) <=> a \in S
  <2>1. \A r \in Rules(P) : a # BodyAtom(P, r)
    BY <1>1, <1>2
  <2>2. \A s \in RealShifted(P) : a # ShiftedBodyAtom(P, s[1], s[2])
    BY <1>1, <1>3
  <2> QED
    BY <2>1, <2>2, <1>5
<1>7. ASSUME NEW r \in Rules(P) PROVE BodyAtom(P, r) \in TrueAtoms(P, S) <=> Holds(Body(P, r), S)
  <2>1. BodyAtom(P, r) \notin S
    BY <1>1, <1>2
  <2>2. \A q \in Rules(P) : BodyAtom(P, r) = BodyAtom(P, q) => r = q
    BY <1>1, <1>2
  <2>3. \A s \in RealShifted(P) : BodyAtom(P, r) # ShiftedBodyAtom(P, s[1], s[2])
    BY <1>1, <1>2, <1>3
  <2> QED
    BY <2>1, <2>2, <2>3, <1>5
<1>8. ASSUME NEW s \in RealShifted(P)
      PROVE  ShiftedBodyAtom(P, s[1], s[2]) \in TrueAtoms(P, S) <=> Holds(ShiftedBody(P, s[1], s[2]), S)
  <2>1. ShiftedBodyAtom(P, s[1], s[2]) \notin S
    BY <1>1, <1>3
  <2>2. \A q \in Rules(P) : BodyAtom(P, q) # ShiftedBodyAtom(P, s[1], s[2])
    BY <1>1, <1>2, <1>3
  <2> QED
    BY <2>1, <2>2, <1>4, <1>5
<1> QED
  BY <1>6, <1>7, <1>8

\* A literal belongs to the assignment of a set of atoms exactly if it is true with it.
LEMMA AssignmentMembers ==
  ASSUME InstanceOK, NEW S
  PROVE  /\ AssignmentOf(S) \in Assignments(Atoms)
         /\ \A lit \in LiteralsOf(Atoms) :
              lit \in AssignmentOf(S) <=> (lit > 0 <=> Address(lit) \in TrueAtoms(Program, S))
<1> DEFINE true == TrueAtoms(Program, S)
<1>1. AssignmentOf(S) = {IF a \in true THEN a ELSE -a : a \in Atoms}
  BY DEF AssignmentOf, TrueAtoms, Holds
<1> HIDE DEF true
<1>2. \A a \in Atoms : a \in Nat /\ a > 0
  BY InstanceType DEF AtomsOK
<1>3. AssignmentOf(S) \in Assignments(Atoms)
  <2>1. AssignmentOf(S) = {IF a \in true \cap Atoms THEN a ELSE -a : a \in Atoms}
    BY <1>1
  <2> QED
    BY <2>1 DEF Assignments
<1>4. ASSUME NEW lit \in LiteralsOf(Atoms)
      PROVE  lit \in AssignmentOf(S) <=> (lit > 0 <=> Address(lit) \in true)
  <2>1. lit \in Int /\ Address(lit) \in Atoms
    BY DEF LiteralsOf
  <2>2. lit \in AssignmentOf(S) => (lit > 0 <=> Address(lit) \in true)
    <3>1. SUFFICES ASSUME NEW a \in Atoms, lit = IF a \in true THEN a ELSE -a
                   PROVE  lit > 0 <=> Address(lit) \in true
      BY <1>1
    <3>2. a \in Nat /\ a > 0
      BY <1>2
    <3>3. CASE a \in true
      <4>1. lit = a /\ lit > 0 /\ ~(lit < 0)
        BY <3>1, <3>2, <3>3
      <4> QED
        BY <4>1, <3>3 DEF Address
    <3>4. CASE a \notin true
      <4>1. lit = -a /\ lit < 0 /\ -lit = a
        BY <3>1, <3>2, <3>4
      <4> QED
        BY <4>1, <3>2, <3>4 DEF Address
    <3> QED
      BY <3>3, <3>4
  <2>3. (lit > 0 <=> Address(lit) \in true) => lit \in AssignmentOf(S)
    <3>1. SUFFICES ASSUME lit > 0 <=> Address(lit) \in true
                   PROVE  lit = IF Address(lit) \in true THEN Address(lit) ELSE -Address(lit)
      BY <1>1, <2>1
    <3>2. CASE lit > 0
      <4>1. Address(lit) = lit
        BY <2>1, <3>2 DEF Address
      <4> QED
        BY <4>1, <3>1, <3>2
    <3>3. CASE ~(lit > 0)
      <4>1. lit < 0 /\ Address(lit) = -lit /\ Address(lit) \notin true
        BY <3>1, <3>3, <1>2, <2>1 DEF Address
      <4>2. lit = -(-lit)
        BY <2>1
      <4> QED
        BY <4>1, <4>2
    <3> QED
      BY <3>2, <3>3
  <2> QED
    BY <2>2, <2>3
<1> QED
  BY <1>3, <1>4 DEF true

\* An answer set is a model of the program, and of the sets below it that contain the
\* facts, it alone satisfies the reduct.
AnswerSet(P, S) ==
  /\ S \subseteq Ordinary(P) /\ P.edb \subseteq S /\ SatisfiesReduct(P, S, S)
  /\ \A T \in SUBSET S : P.edb \subseteq T /\ SatisfiesReduct(P, S, T) => T = S

LEMMA AnswerSetsType ==
  ASSUME InstanceOK, NEW S \in AnswerSets[instance.problem]
  PROVE  AnswerSet(Program, S)
<1> DEFINE P == Program
           reductModels(R) == {T \in SUBSET R : P.edb \subseteq T /\ SatisfiesReduct(P, R, T)}
<1>1. instance.problem \in Instances
  BY DEF InstanceOK
<1>2. S \in SUBSET Ordinary(P) /\ reductModels(S) = {S}
  BY <1>1 DEF AnswerSets, Program
<1>3. S \in reductModels(S) /\ \A T \in reductModels(S) : T = S
  BY <1>2
<1> QED
  BY <1>2, <1>3 DEF AnswerSet

\* A body is true under an answer set if its positive atoms belong to it and its
\* negative ones do not.
LEMMA BodyHolds ==
  ASSUME NEW P, GroundProgram(P), NEW r \in Rules(P), NEW S
  PROVE  Holds(Body(P, r), S) <=> P.rules[r].pos \subseteq S /\ P.rules[r].neg \cap S = {}
<1>1. \A a \in P.rules[r].pos \cup P.rules[r].neg : a \in Nat /\ a > 0
  BY RuleType
<1>2. \A a \in P.rules[r].pos : (a > 0) /\ Address(a) = a
  BY <1>1 DEF Address
<1>3. \A a \in P.rules[r].neg : ~(-a > 0) /\ Address(-a) = a
  <2>1. TAKE a \in P.rules[r].neg
  <2>2. -a < 0 /\ -(-a) = a /\ ~(-a > 0)
    BY <1>1
  <2> QED
    BY <2>2 DEF Address
<1>4. Holds(Body(P, r), S) <=> /\ \A a \in P.rules[r].pos : (a > 0) = (Address(a) \in S)
                               /\ \A a \in P.rules[r].neg : (-a > 0) = (Address(-a) \in S)
  BY DEF Holds, Body
<1> QED
  BY <1>2, <1>3, <1>4

\* The atoms of the program and of its bodies are the atoms of the problem.
LEMMA ProgramAtoms ==
  ASSUME InstanceOK, ProblemsArePrograms
  PROVE  /\ GroundProgram(Program)
         /\ Given = ClarkCompletion(Program) \cup SingularLoopNogoods(Program)
         /\ instance.problem.facts = Program.edb
         /\ \A ng \in Given : ng \subseteq LiteralsOf(Atoms)
<1>1. /\ instance.problem \in Instances /\ Atoms = AtomsOf(Given) /\ Given \in SUBSET SUBSET Int
  BY InstanceType DEF InstanceOK
<1>2. GroundProgram(Program) /\ instance.problem = ProgramInstance(Program)
  BY <1>1 DEF ProblemsArePrograms, Program
<1>3. ProgramInstance(Program).nogoods = ClarkCompletion(Program) \cup SingularLoopNogoods(Program)
  BY DEF ProgramInstance
<1>4. ProgramInstance(Program).facts = Program.edb
  BY DEF ProgramInstance
<1>5. \A ng \in Given : ng \subseteq LiteralsOf(Atoms)
  BY <1>1 DEF AtomsOf, LiteralsOf
<1> QED
  BY <1>2, <1>3, <1>4, <1>5 DEF Given

\* The nogoods of a body are respected if its atom is true exactly if the body is.
LEMMA BodyNogoods ==
  ASSUME InstanceOK, NEW S, NEW b, NEW body,
         b \in Nat, b > 0, b \in TrueAtoms(Program, S) <=> Holds(body, S),
         \A lit \in body : Address(lit) \in TrueAtoms(Program, S) <=> Address(lit) \in S,
         \A ng \in NogoodsForRuleBody(b, body) : ng \subseteq LiteralsOf(Atoms)
  PROVE  Respects(AssignmentOf(S), NogoodsForRuleBody(b, body))
<1> DEFINE M == AssignmentOf(S)
<1>1. /\ AtomsOK(Atoms) /\ M \in Assignments(Atoms)
      /\ \A lit \in LiteralsOf(Atoms) : lit \in M <=> (lit > 0 <=> Address(lit) \in TrueAtoms(Program, S))
  BY AssignmentMembers, InstanceType
<1> HIDE DEF M
<1>2. \A lit \in LiteralsOf(Atoms) : lit \in M <=> Negation(lit) \notin M
  BY <1>1, AssignmentsType
<1>3. /\ body \cup {-b} \subseteq LiteralsOf(Atoms)
      /\ \A lit \in body : {b, Negation(lit)} \subseteq LiteralsOf(Atoms)
  BY DEF NogoodsForRuleBody
<1>4. Address(b) = b /\ Address(-b) = b /\ ~(-b > 0)
  <2>1. -b < 0 /\ -(-b) = b /\ ~(b < 0) /\ ~(-b > 0)
    OBVIOUS
  <2> QED
    BY <2>1 DEF Address
<1>5. \A lit \in body : lit \in M <=> ((lit > 0) = (Address(lit) \in S))
  BY <1>1, <1>3
<1>6. Holds(body, S) <=> body \subseteq M
  BY <1>5 DEF Holds
<1>7. -b \in M <=> b \notin TrueAtoms(Program, S)
  BY <1>1, <1>3, <1>4
<1>8. ~(body \cup {-b} \subseteq M)
  BY <1>6, <1>7
<1>9. ASSUME NEW lit \in body PROVE ~({b, Negation(lit)} \subseteq M)
  <2>1. b \in M => b \in TrueAtoms(Program, S)
    BY <1>1, <1>3, <1>4
  <2> QED
    BY <2>1, <1>2, <1>3, <1>6
<1> QED
  BY <1>8, <1>9 DEF M, Respects, NogoodsForRuleBody

\* The completion and the singular loop nogoods exclude no answer set.
LEMMA GivenKeepAnswerSets ==
  ASSUME InstanceOK, ProblemsArePrograms, NEW S, AnswerSet(Program, S)
  PROVE  Respects(AssignmentOf(S), Given)
<1> DEFINE M == AssignmentOf(S)
           P == Program
           true == TrueAtoms(Program, S)
<1>1. /\ GroundProgram(P) /\ S \subseteq Ordinary(P)
      /\ Given = ClarkCompletion(P) \cup SingularLoopNogoods(P)
      /\ \A ng \in Given : ng \subseteq LiteralsOf(Atoms)
  BY ProgramAtoms DEF AnswerSet
<1>2. /\ \A a \in Ordinary(P) : a \in true <=> a \in S
      /\ \A r \in Rules(P) : BodyAtom(P, r) \in true <=> Holds(Body(P, r), S)
      /\ \A s \in RealShifted(P) :
           ShiftedBodyAtom(P, s[1], s[2]) \in true <=> Holds(ShiftedBody(P, s[1], s[2]), S)
  BY <1>1, BodiesTrue
<1>3. \A lit \in LiteralsOf(Atoms) : lit \in M <=> (lit > 0 <=> Address(lit) \in true)
  BY AssignmentMembers
<1>4. \A r \in Rules(P) : Holds(Body(P, r), S) <=> P.rules[r].pos \subseteq S /\ P.rules[r].neg \cap S = {}
  BY <1>1, BodyHolds
<1>5. \A r \in Rules(P) : \A lit \in Body(P, r) : Address(lit) \in Ordinary(P)
  <2>1. TAKE r \in Rules(P)
  <2>2. \A a \in P.rules[r].pos \cup P.rules[r].neg : a \in Nat /\ a > 0 /\ a \in Ordinary(P)
    BY <1>1, RuleType
  <2>3. \A a \in Nat : a > 0 => Address(a) = a /\ Address(-a) = a
    <3>1. TAKE a \in Nat
    <3>2. a > 0 => ~(a < 0) /\ -a < 0 /\ -(-a) = a
      OBVIOUS
    <3> QED
      BY <3>2 DEF Address
  <2> QED
    BY <2>2, <2>3 DEF Body
<1>6. \A r \in Rules(P) : BodyAtom(P, r) \in Nat /\ BodyAtom(P, r) > 0
  BY <1>1, RuleType DEF BodyAtom
<1>7. ASSUME NEW r \in Rules(P) PROVE Respects(M, NogoodsForRuleBody(BodyAtom(P, r), Body(P, r)))
  <2>1. NogoodsForRuleBody(BodyAtom(P, r), Body(P, r)) \subseteq Given
    BY <1>1 DEF ClarkCompletion
  <2>2. \A lit \in Body(P, r) : Address(lit) \in true <=> Address(lit) \in S
    BY <1>2, <1>5
  <2>3. \A ng \in NogoodsForRuleBody(BodyAtom(P, r), Body(P, r)) : ng \subseteq LiteralsOf(Atoms)
    BY <2>1, <1>1
  <2> QED
    BY <2>2, <2>3, <1>2, <1>6, BodyNogoods
<1>8. ASSUME NEW r \in Rules(P) PROVE ~({BodyAtom(P, r)} \cup {-a : a \in Heads(P, r)} \subseteq M)
  <2> DEFINE ng == {BodyAtom(P, r)} \cup {-a : a \in Heads(P, r)}
  <2>1. ng \in Given
    BY <1>1 DEF ClarkCompletion
  <2>2. ng \subseteq LiteralsOf(Atoms)
    BY <2>1, <1>1
  <2>3. SUFFICES ASSUME ng \subseteq M PROVE FALSE
    OBVIOUS
  <2>4. BodyAtom(P, r) \in true
    <3>1. BodyAtom(P, r) \in LiteralsOf(Atoms) /\ BodyAtom(P, r) \in M
      BY <2>2, <2>3
    <3>2. BodyAtom(P, r) > 0 /\ ~(BodyAtom(P, r) < 0)
      BY <1>6
    <3> QED
      BY <3>1, <3>2, <1>3 DEF Address
  <2>5. P.rules[r].pos \subseteq S /\ P.rules[r].neg \cap S = {}
    BY <2>4, <1>2, <1>4
  <2>6. PICK a \in Heads(P, r) : a \in S
    BY <2>5 DEF AnswerSet, SatisfiesReduct
  <2>7. a \in Nat /\ a > 0 /\ a \in true
    BY <2>6, <1>1, <1>2, RuleType
  <2>8. ~(-a > 0) /\ Address(-a) = a
    <3>1. -a < 0 /\ -(-a) = a /\ ~(-a > 0)
      BY <2>7
    <3> QED
      BY <3>1 DEF Address
  <2>9. -a \in LiteralsOf(Atoms) /\ -a \in M
    BY <2>2, <2>3
  <2> HIDE DEF M, true
  <2> QED
    BY <2>7, <2>8, <2>9, <1>3
<1>9. ASSUME NEW s \in RealShifted(P)
      PROVE  Respects(M, NogoodsForRuleBody(ShiftedBodyAtom(P, s[1], s[2]), ShiftedBody(P, s[1], s[2])))
  <2> DEFINE b == ShiftedBodyAtom(P, s[1], s[2])
             body == ShiftedBody(P, s[1], s[2])
  <2>1. NogoodsForRuleBody(b, body) \subseteq Given
    BY <1>1 DEF SingularLoopNogoods
  <2>2. b \in Nat /\ b > P.atoms + Len(P.rules) /\ s[1] \in Rules(P)
    BY <1>1, ShiftedAtoms, NumberedFinite
  <2>3. b > 0
    BY <2>2, <1>1, RuleType
  <2>4. \A lit \in body : Address(lit) \in Ordinary(P)
    <3>1. \A a \in Heads(P, s[1]) : a \in Nat /\ a > 0 /\ a \in Ordinary(P)
      BY <2>2, <1>1, RuleType
    <3>2. \A a \in Heads(P, s[1]) : Address(-a) = a
      <4>1. TAKE a \in Heads(P, s[1])
      <4>2. -a < 0 /\ -(-a) = a
        BY <3>1
      <4> QED
        BY <4>2 DEF Address
    <3> QED
      BY <3>1, <3>2, <2>2, <1>5 DEF ShiftedBody
  <2>5. \A lit \in body : Address(lit) \in true <=> Address(lit) \in S
    BY <2>4, <1>2
  <2>6. \A ng \in NogoodsForRuleBody(b, body) : ng \subseteq LiteralsOf(Atoms)
    BY <2>1, <1>1
  <2>7. b \in true <=> Holds(body, S)
    BY <1>2
  <2> HIDE DEF b, body
  <2>8. Respects(M, NogoodsForRuleBody(b, body))
    BY <2>2, <2>3, <2>5, <2>6, <2>7, BodyNogoods
  <2> QED
    BY <2>8 DEF b, body
<1>10. ASSUME NEW a \in Ordinary(P) \ P.edb
       PROVE  ~({a} \cup {-ShiftedBodyAtom(P, r, a) : r \in {q \in Rules(P) : a \in Heads(P, q)}} \subseteq M)
  <2> DEFINE ng == {a} \cup {-ShiftedBodyAtom(P, r, a) : r \in {q \in Rules(P) : a \in Heads(P, q)}}
  <2>1. ng \in Given
    BY <1>1 DEF SingularLoopNogoods
  <2>2. ng \subseteq LiteralsOf(Atoms)
    BY <2>1, <1>1
  <2>3. SUFFICES ASSUME ng \subseteq M PROVE FALSE
    OBVIOUS
  <2>4. a \in Nat /\ a > 0
    BY <1>1 DEF GroundProgram, Ordinary
  <2>5. a \in S
    <3>1. Address(a) = a
      <4>1. ~(a < 0)
        BY <2>4
      <4> QED
        BY <4>1 DEF Address
    <3>2. a \in LiteralsOf(Atoms) /\ a \in M
      BY <2>2, <2>3
    <3> QED
      BY <3>1, <3>2, <2>4, <1>2, <1>3
  <2> DEFINE T == S \ {a}
  <2>6. ~SatisfiesReduct(P, S, T)
    <3>1. T \in SUBSET S /\ P.edb \subseteq T /\ T # S
      BY <2>5 DEF AnswerSet
    <3> QED
      BY <3>1 DEF AnswerSet
  <2>7. PICK r \in Rules(P) : P.rules[r].pos \subseteq T /\ P.rules[r].neg \cap S = {} /\ Heads(P, r) \cap T = {}
    BY <2>6 DEF SatisfiesReduct
  <2>8. Heads(P, r) \cap S = {a}
    <3>1. Heads(P, r) \cap S # {}
      BY <2>7 DEF AnswerSet, SatisfiesReduct
    <3> QED
      BY <3>1, <2>7
  <2>9. Holds(Body(P, r), S)
    BY <2>7, <1>4
  <2> DEFINE b == ShiftedBodyAtom(P, r, a)
  <2>10. b \in Nat /\ b > 0 /\ b \in true
    <3>1. CASE <<r, a>> \in RealShifted(P)
      <4> DEFINE s == <<r, a>>
      <4>1. s \in RealShifted(P) /\ s[1] = r /\ s[2] = a
        BY <3>1
      <4>2. b \in Nat /\ b > P.atoms + Len(P.rules)
        <5>1. ShiftedBodyAtom(P, s[1], s[2]) \in Nat /\ ShiftedBodyAtom(P, s[1], s[2]) > P.atoms + Len(P.rules)
          BY <4>1, <1>1, ShiftedAtoms
        <5> QED
          BY <5>1, <4>1
      <4>3. b > 0
        BY <4>2, <1>1, RuleType
      <4>4. Holds(ShiftedBody(P, r, a), S)
        <5>1. \A c \in Heads(P, r) \ {a} : c \notin S /\ c \in Nat /\ c > 0
          BY <2>8, <1>1, RuleType
        <5>2. \A c \in Heads(P, r) \ {a} : (-c > 0) = (Address(-c) \in S)
          <6>1. TAKE c \in Heads(P, r) \ {a}
          <6>2. -c < 0 /\ -(-c) = c /\ ~(-c > 0)
            BY <5>1
          <6> QED
            BY <5>1, <6>2 DEF Address
        <5> QED
          BY <5>2, <2>9 DEF Holds, ShiftedBody
      <4>5. b \in true <=> Holds(ShiftedBody(P, r, a), S)
        <5>1. ShiftedBodyAtom(P, s[1], s[2]) \in true <=> Holds(ShiftedBody(P, s[1], s[2]), S)
          BY <4>1, <1>2
        <5> QED
          BY <5>1, <4>1
      <4> QED
        BY <4>2, <4>3, <4>4, <4>5
    <3>2. CASE <<r, a>> \notin RealShifted(P)
      <4>1. b = BodyAtom(P, r)
        BY <3>2 DEF ShiftedBodyAtom
      <4> QED
        BY <4>1, <2>9, <1>2, <1>6
    <3> QED
      BY <3>1, <3>2
  <2>11. -b \in ng
    BY <2>8
  <2>12. ~(-b > 0) /\ Address(-b) = b
    <3> HIDE DEF b
    <3>1. -b < 0 /\ -(-b) = b /\ ~(-b > 0)
      BY <2>10
    <3> QED
      BY <3>1 DEF Address
  <2>13. -b \in LiteralsOf(Atoms) /\ -b \in M
    BY <2>11, <2>2, <2>3
  <2> HIDE DEF b, M, true
  <2> QED
    BY <2>10, <2>12, <2>13, <1>3
<1> HIDE DEF M, true
<1>11. ASSUME NEW ng \in ClarkCompletion(P) PROVE ~(ng \subseteq M)
  BY <1>7, <1>8 DEF ClarkCompletion, Respects
<1>12. ASSUME NEW ng \in SingularLoopNogoods(P) PROVE ~(ng \subseteq M)
  BY <1>9, <1>10 DEF SingularLoopNogoods, Respects
<1>13. Respects(M, Given)
  BY <1>1, <1>11, <1>12 DEF Respects
<1> QED
  BY <1>13 DEF M

\* The literals that satisfy a rule, if there are any, have a first one.
LEMMA FirstOfNonempty ==
  ASSUME NEW lits \in SUBSET (Int \ {0}), lits # {}
  PROVE  \E f \in lits : f \in FirstOf(lits, 1)
<1>1. PICK f \in lits : \A m \in lits : ~Precedes(m, f)
  BY FirstLiteral
<1>2. {m \in lits : Precedes(m, f)} = {}
  BY <1>1
<1>3. Cardinality({m \in lits : Precedes(m, f)}) = 0
  BY <1>2, FS_EmptySet
<1>4. Cardinality({m \in lits : Precedes(m, f)}) < 1
  BY <1>3
<1> QED
  BY <1>4 DEF FirstOf

LEMMA LoopNogoodType ==
  ASSUME GroundProgram(Program), ufs # {}, ufs \subseteq Ordinary(Program)
  PROVE  LoopNogood \in SUBSET Int
<1> DEFINE U == ufs
<1>1. U \in SUBSET Nat /\ Min(U) \in U
  <2>1. U \in SUBSET Nat
    BY DEF GroundProgram, Ordinary
  <2> QED
    BY <2>1, LeastElement
<1>2. ASSUME NEW r \in Rules(Program) PROVE IndependentlySatisfied(r, U) \subseteq Int
  BY <1>2, RuleType DEF IndependentlySatisfied, BodyAtom
<1>3. \A r \in ExternalSupport(U) : FirstOf(IndependentlySatisfied(r, U), 1) \subseteq Int
  BY <1>2 DEF ExternalSupport, FirstOf
<1>4. Min(U) \in Int
  <2>1. Nat \subseteq Int
    OBVIOUS
  <2> QED
    BY <1>1, <2>1
<1> HIDE DEF U
<1> QED
  BY <1>3, <1>4, Zenon DEF LoopNogood, U

\* A loop nogood excludes no answer set: without the unfounded set an answer set would
\* still satisfy the reduct, since each rule that supports the set from outside is
\* satisfied by a literal of the nogood.
LEMMA LoopNogoodKeepsAnswerSets ==
  ASSUME InstanceOK, ProblemsArePrograms, NEW S, AnswerSet(Program, S),
         ufs # {}, ufs \subseteq Ordinary(Program) \ Program.edb, PossibleSourceRules(ufs) = {}
  PROVE  ~(LoopNogood \subseteq AssignmentOf(S))
<1> DEFINE M == AssignmentOf(S)
           P == Program
           U == ufs
           true == TrueAtoms(P, S)
<1>1. /\ GroundProgram(P) /\ S \subseteq Ordinary(P)
      /\ Given = ClarkCompletion(P) \cup SingularLoopNogoods(P)
      /\ \A ng \in Given : ng \subseteq LiteralsOf(Atoms)
      /\ P.atoms \in Nat /\ Ordinary(P) = 1 .. P.atoms
  BY ProgramAtoms DEF AnswerSet, GroundProgram, Ordinary
<1>2. /\ \A a \in Ordinary(P) : a \in true <=> a \in S
      /\ \A r \in Rules(P) : BodyAtom(P, r) \in true <=> Holds(Body(P, r), S)
  BY <1>1, BodiesTrue
<1>3. \A lit \in LiteralsOf(Atoms) : lit \in M <=> (lit > 0 <=> Address(lit) \in true)
  BY AssignmentMembers
<1>4. \A lit \in M : lit \in LiteralsOf(Atoms)
  <2>1. PICK positive \in SUBSET Atoms : M = {IF a \in positive THEN a ELSE -a : a \in Atoms}
    BY AssignmentMembers DEF Assignments
  <2>2. \A a \in Atoms : a \in Nat /\ a > 0
    BY InstanceType DEF AtomsOK
  <2>3. \A a \in Atoms : a \in LiteralsOf(Atoms) /\ -a \in LiteralsOf(Atoms)
    <3>1. TAKE a \in Atoms
    <3>2. ~(a < 0) /\ -a < 0 /\ -(-a) = a /\ a \in Int /\ -a \in Int
      BY <2>2
    <3> QED
      BY <3>2 DEF LiteralsOf, Address
  <2> QED
    BY <2>1, <2>3
<1>5. U \in SUBSET Nat /\ Min(U) \in U
  <2>1. U \in SUBSET Nat
    BY <1>1
  <2> QED
    BY <2>1, LeastElement
<1>6. ASSUME NEW r \in Rules(P)
      PROVE  /\ IndependentlySatisfied(r, U) \in SUBSET (Int \ {0})
             /\ \A a \in Heads(P, r) : a \in Nat /\ a > 0 /\ a \in Ordinary(P)
             /\ BodyAtom(P, r) \in Nat /\ BodyAtom(P, r) > 0
  <2>1. \A a \in Heads(P, r) : a \in Nat /\ a > 0 /\ a \in Ordinary(P)
    BY <1>1, RuleType
  <2>2. BodyAtom(P, r) \in Nat /\ BodyAtom(P, r) > 0
    BY <1>1, RuleType DEF BodyAtom
  <2>3. -BodyAtom(P, r) \in Int \ {0}
    BY <2>2
  <2> QED
    BY <2>1, <2>2, <2>3 DEF IndependentlySatisfied
<1>7. ASSUME LoopNogood \subseteq M PROVE FALSE
  <2>1. Min(U) \in S
    <3>1. Min(U) \in LiteralsOf(Atoms) /\ Min(U) \in M
      BY <1>4, <1>7 DEF LoopNogood
    <3>2. Min(U) \in Ordinary(P) /\ Min(U) > 0 /\ ~(Min(U) < 0)
      <4>1. \A a \in U : a \in 1 .. P.atoms
        BY <1>1
      <4>2. \A a \in 1 .. P.atoms : a > 0 /\ ~(a < 0)
        BY <1>1
      <4> QED
        BY <4>1, <4>2, <1>1, <1>5, Zenon
    <3>3. Address(Min(U)) = Min(U)
      BY <3>2 DEF Address
    <3> QED
      BY <3>1, <3>2, <3>3, <1>2, <1>3
  <2> DEFINE T == S \ U
  <2>2. ~SatisfiesReduct(P, S, T)
    <3>1. T \in SUBSET S /\ P.edb \subseteq T /\ T # S
      BY <2>1, <1>5 DEF AnswerSet
    <3> QED
      BY <3>1 DEF AnswerSet
  <2>3. PICK r \in Rules(P) : P.rules[r].pos \subseteq T /\ P.rules[r].neg \cap S = {} /\ Heads(P, r) \cap T = {}
    BY <2>2 DEF SatisfiesReduct
  <2>4. Heads(P, r) \cap S # {}
    BY <2>3 DEF AnswerSet, SatisfiesReduct
  <2>5. r \in ExternalSupport(U)
    BY <2>3, <2>4 DEF ExternalSupport
  <2>6. Holds(Body(P, r), S)
    BY <2>3, <1>1, BodyHolds
  <2>7. IndependentlySatisfied(r, U) # {}
    BY <2>5 DEF PossibleSourceRules
  <2>8. PICK f \in IndependentlySatisfied(r, U) : f \in FirstOf(IndependentlySatisfied(r, U), 1)
    BY <2>7, <1>6, FirstOfNonempty
  <2>9. f \in M /\ f \in LiteralsOf(Atoms)
    BY <2>5, <2>8, <1>4, <1>7 DEF LoopNogood
  <2>10. CASE f = -BodyAtom(P, r)
    <3>1. ~(f > 0) /\ Address(f) = BodyAtom(P, r)
      <4>1. -BodyAtom(P, r) < 0 /\ -(-BodyAtom(P, r)) = BodyAtom(P, r) /\ ~(-BodyAtom(P, r) > 0)
        BY <1>6
      <4> QED
        BY <4>1, <2>10 DEF Address
    <3> QED
      BY <3>1, <2>6, <2>9, <1>2, <1>3
  <2>11. CASE f \in Heads(P, r) \ U
    <3>1. f \in Nat /\ f > 0 /\ f \in Ordinary(P) /\ ~(f < 0)
      BY <2>11, <1>6
    <3>2. Address(f) = f
      BY <3>1 DEF Address
    <3>3. f \in S
      BY <3>1, <3>2, <2>9, <1>2, <1>3
    <3> QED
      BY <3>3, <2>3, <2>11
  <2> QED
    BY <2>8, <2>10, <2>11 DEF IndependentlySatisfied
<1> QED
  BY <1>7

-----------------------------------------------------------------------------
(* The steps of the answer set solver.                                     *)

UnfoundedSetStep ==
  SearchUnchanged /\ pc \in {"propagating", "unfounded set"} /\ pc' \in {"propagating", "unfounded set"}

LEMMA ASPSteps ==
  ASSUME [ASPNext]_aspVars
  PROVE  [Next]_vars \/ FlipDecision \/ LearnFromPropagators \/ LearnLoopNogood \/ UnfoundedSetStep
<1>1. CASE SetOrClear /\ SourcesFollow /\ UNCHANGED ufs
  <2>1. PropagateFirst => Propagate
    <3>1. ASSUME PropagateFirst PROVE Propagate
      <4> DEFINE ng == CHOOSE n \in propagation.unitNogoods : TRUE
      <4>1. ng \in propagation.unitNogoods /\ PropagateUnit(ng)
        BY <3>1 DEF PropagateFirst
      <4> HIDE DEF ng
      <4> QED
        BY <4>1 DEF Propagate
    <3> QED
      BY <3>1
  <2> QED
    BY <1>1, <2>1 DEF SetOrClear, NoUnfoundedSet, Next, Search
<1>2. CASE KeepFacts /\ UNCHANGED <<sources, ufs>>
  BY <1>2 DEF KeepFacts, Next, Search
<1>3. CASE UnfoundedSetCheck
  BY <1>3 DEF UnfoundedSetCheck, UnfoundedSetStep, StartUnfoundedSet, ExtendUnfoundedSet, UseAsNewSource,
     NoConflict, Propagated
<1>4. CASE ASPCall
  BY <1>4 DEF ASPCall, Next, Call
<1>5. CASE Terminating
  BY <1>5 DEF Next
<1>6. CASE UNCHANGED aspVars
  BY <1>6 DEF aspVars
<1> QED
  BY <1>1, <1>2, <1>3, <1>4, <1>5, <1>6 DEF ASPNext, ASPSearch

\* The steps of this class that only add nogoods keep the invariant of the search.
LEMMA ASPLoadInvariant ==
  ASSUME CDNLInv, NEW added \in SUBSET SUBSET Int, propagation' = AddNogoods(propagation, added),
         pc \in {"propagating", "unfounded set"}, pc' = "propagating",
         nogoodsToAdd' \in {{}, nogoodsToAdd},
         UNCHANGED <<currentDL, exhaustedDL, decisionLiteral, flipped, analysis, instance>>
  PROVE  CDNLInv'
<1> DEFINE p == propagation
           q == AddNogoods(p, added)
<1>1. /\ RecordOK(p) /\ AssignmentOK(p, Atoms) /\ WatchesOK(p, Atoms, {})
      /\ AtomsOK(Atoms) /\ InstanceOK /\ LevelsOK /\ DecisionsOK(p, currentDL, decisionLiteral, Atoms)
      /\ CausesOK(p, currentDL)
  BY InstanceType DEF CDNLInv, PropagationOK
<1>2. ~Backtracking /\ pc # "analysis" /\ flipped = 0
  BY DEF Backtracking, CDNLInv, FlippedOK
<1>3. currentDL \in Nat /\ exhaustedDL <= currentDL /\ Below(p, currentDL)
  BY <1>1, <1>2 DEF LevelsOK
<1>4. /\ RecordOK(q) /\ AssignmentOK(q, Atoms) /\ WatchesOK(q, Atoms, {})
      /\ Extended(p, Accepted(added, Atoms), q)
  BY <1>1, AddNogoodsOK
<1>5. nogoodsToAdd' \subseteq Late
  BY <1>1 DEF InstanceOK
<1>6. propagation' = q
  OBVIOUS
<1> HIDE DEF q
<1>7. Below(q, currentDL) /\ CausesOK(q, currentDL) /\ DecisionsOK(q, currentDL, decisionLiteral, Atoms)
  BY <1>1, <1>3, <1>4, AddKeepsOrder
<1>8. /\ RecordOK(propagation') /\ AssignmentOK(propagation', Atoms) /\ WatchesOK(propagation', Atoms, {})
      /\ Below(propagation', currentDL') /\ CausesOK(propagation', currentDL')
      /\ DecisionsOK(propagation', currentDL', decisionLiteral', Atoms)
  BY <1>4, <1>6, <1>7
<1>9. /\ currentDL' \in Nat /\ exhaustedDL' = exhaustedDL /\ exhaustedDL <= currentDL'
      /\ flipped' = 0 /\ analysis' = analysis /\ instance' = instance
      /\ pc' \in {"complete", "propagating"}
  BY <1>2, <1>3
<1> QED
  BY <1>2, <1>5, <1>8, <1>9, LoopInvariant

LEMMA FlipDecisionInvariant ==
  ASSUME CDNLInv, FlipDecision
  PROVE  CDNLInv' /\ Nogoods(propagation') = Nogoods(propagation)
<1> DEFINE r == IF flipped = 0 THEN propagation ELSE SetFact(propagation, flipped, currentDL, NoCause)
<1>1. /\ Backtracking /\ FactsAbove = {} /\ propagation' = r
      /\ currentDL' = currentDL /\ exhaustedDL' = exhaustedDL /\ decisionLiteral' = decisionLiteral
      /\ flipped' = 0 /\ nogoodsToAdd' = nogoodsToAdd /\ analysis' = analysis
      /\ pc' \in {"complete", "propagating"} /\ instance' = instance
  BY DEF FlipDecision, LoopOrReturn
<1>2. /\ currentDL \in Nat /\ exhaustedDL <= currentDL /\ pc # "analysis" /\ nogoodsToAdd \subseteq Late
  BY <1>1 DEF LevelsOK, Backtracking, CDNLInv, InstanceOK
<1>3. /\ RecordOK(r) /\ AssignmentOK(r, Atoms) /\ WatchesOK(r, Atoms, {}) /\ CausesOK(r, currentDL)
      /\ Below(r, currentDL) /\ DecisionsOK(r, currentDL, decisionLiteral, Atoms)
      /\ Nogoods(r) = Nogoods(propagation)
  BY <1>1, FlippedSet
<1> HIDE DEF r
<1>4. /\ RecordOK(propagation') /\ AssignmentOK(propagation', Atoms) /\ WatchesOK(propagation', Atoms, {})
      /\ Below(propagation', currentDL') /\ CausesOK(propagation', currentDL')
      /\ DecisionsOK(propagation', currentDL', decisionLiteral', Atoms)
  BY <1>1, <1>3
<1>5. CDNLInv'
  BY <1>1, <1>2, <1>4, LoopInvariant
<1> QED
  BY <1>1, <1>3, <1>5

\* Steps of the unfounded set check that learn nothing leave the search as it is.
LEMMA UnfoundedSetStepInvariant ==
  ASSUME CDNLInv, UnfoundedSetStep
  PROVE  CDNLInv'
<1>1. /\ UNCHANGED <<propagation, currentDL, exhaustedDL, decisionLiteral, flipped, nogoodsToAdd,
                     analysis, instance>>
      /\ pc \in {"propagating", "unfounded set"} /\ pc' \in {"propagating", "unfounded set"}
  BY DEF UnfoundedSetStep, SearchUnchanged
<1>2. Atoms' = Atoms /\ Given' = Given /\ Late' = Late
  BY <1>1 DEF Atoms, Given, Late
<1>3. PropagationOK' /\ InstanceOK'
  BY <1>1, <1>2 DEF CDNLInv, PropagationOK, InstanceOK
<1>4. LevelsOK' /\ FlippedOK' /\ AnalysisOK'
  BY <1>1, <1>2 DEF CDNLInv, LevelsOK, FlippedOK, AnalysisOK, Backtracking, NoAnalysis
<1>5. (DecisionsOK(propagation, currentDL, decisionLiteral, Atoms) /\ CausesOK(propagation, currentDL))'
  BY <1>1, <1>2 DEF CDNLInv
<1> QED
  BY <1>3, <1>4, <1>5 DEF CDNLInv

-----------------------------------------------------------------------------
(* The source pointers.                                                    *)

\* Facts keep their mark and are never unfounded.
SourcesOK(s, P) ==
  /\ s = [sourceRule |-> s.sourceRule, unfounded |-> s.unfounded]
  /\ s.unfounded \subseteq Ordinary(P) \ P.edb
  /\ \A a \in P.edb : a \in DOMAIN s.sourceRule /\ s.sourceRule[a] = Fact

LEMMA RemoveSourceOK ==
  ASSUME NEW s, NEW P, SourcesOK(s, P), NEW atoms, NEW t, t = RemoveSource(s, atoms)
  PROVE  SourcesOK(t, P) /\ t.unfounded = s.unfounded
<1>1. s = [sourceRule |-> s.sourceRule, unfounded |-> s.unfounded]
  BY DEF SourcesOK
<1> DEFINE f == [a \in DOMAIN s.sourceRule \ (atoms \ WithSource(s, Fact)) |-> s.sourceRule[a]]
<1>2. t = [sourceRule |-> f, unfounded |-> s.unfounded]
  BY <1>1 DEF RemoveSource
<1>3. \A a \in P.edb : a \in DOMAIN f /\ f[a] = Fact
  BY DEF SourcesOK, WithSource
<1> HIDE DEF f
<1>4. t.sourceRule = f /\ t.unfounded = s.unfounded
  BY <1>2
<1> QED
  BY <1>2, <1>3, <1>4 DEF SourcesOK

LEMMA ReadSourcesOK ==
  ASSUME NEW s, NEW P, SourcesOK(s, P), NEW atoms, NEW t, t = ReadSources(s, atoms)
  PROVE  SourcesOK(t, P) /\ t.unfounded = s.unfounded
<1>1. s = [sourceRule |-> s.sourceRule, unfounded |-> s.unfounded]
  BY DEF SourcesOK
<1> DEFINE f == [a \in DOMAIN s.sourceRule \cup atoms |-> IF a \in DOMAIN s.sourceRule THEN s.sourceRule[a] ELSE Fact]
<1>2. t = [sourceRule |-> f, unfounded |-> s.unfounded]
  BY <1>1 DEF ReadSources
<1>3. \A a \in P.edb : a \in DOMAIN f /\ f[a] = Fact
  BY DEF SourcesOK
<1> HIDE DEF f
<1>4. t.sourceRule = f /\ t.unfounded = s.unfounded
  BY <1>2
<1> QED
  BY <1>2, <1>3, <1>4 DEF SourcesOK

LEMMA UnfoundedChanged ==
  ASSUME NEW s, NEW P, SourcesOK(s, P), NEW atoms, atoms \subseteq Ordinary(P) \ P.edb,
         NEW t, t = [s EXCEPT !.unfounded = atoms]
  PROVE  SourcesOK(t, P)
<1>1. s = [sourceRule |-> s.sourceRule, unfounded |-> s.unfounded]
  BY DEF SourcesOK
<1>2. t = [sourceRule |-> s.sourceRule, unfounded |-> atoms]
  BY <1>1
<1>3. t.sourceRule = s.sourceRule /\ t.unfounded = atoms
  BY <1>2
<1> QED
  BY <1>2, <1>3 DEF SourcesOK

\* The mark of a fact is the source of no rule, so that a fact never loses its source.
LEMMA AfterSetFactOK ==
  ASSUME GroundProgram(Program), NEW s, SourcesOK(s, Program), NEW p, NEW lit,
         NEW t, t = AfterSetFact(s, p, lit)
  PROVE  SourcesOK(t, Program)
<1> DEFINE P == Program
           atom == Address(lit)
           lost == RemoveSource(s, {atom})
           cleared == [lost EXCEPT !.unfounded = @ \ {atom}]
           removed == IF lit < 0 THEN cleared ELSE s
           read == IF lit > 0 /\ atom \in Ordinary(P) THEN ReadSources(removed, OtherHeads(atom)) ELSE removed
           eligible == {a \in NonSingular : ~Falsified(p, a)} \ read.unfounded
           closed(atoms) == /\ InitiallyUnfounded(read, lit) \cap eligible \subseteq atoms
                            /\ Depending(read, atoms) \cap eligible \subseteq atoms
           newlyUnfounded == {a \in eligible : \A atoms \in SUBSET eligible : closed(atoms) => a \in atoms}
           without == RemoveSource(read, newlyUnfounded)
<1>1. SourcesOK(removed, P)
  <2>1. SourcesOK(lost, P)
    BY RemoveSourceOK
  <2>2. lost.unfounded \ {atom} \subseteq Ordinary(P) \ P.edb
    BY <2>1 DEF SourcesOK
  <2> HIDE DEF lost
  <2>3. SourcesOK(cleared, P)
    BY <2>1, <2>2, UnfoundedChanged
  <2> QED
    BY <2>3
<1> HIDE DEF removed
<1>2. SourcesOK(read, P)
  BY <1>1, ReadSourcesOK
<1> HIDE DEF read
<1>3. P.edb \cap newlyUnfounded = {}
  <2> DEFINE rest == eligible \ P.edb
  <2>1. P.edb \cap InitiallyUnfounded(read, lit) = {}
    <3>1. \A r \in Rules(P) : r # Fact
      BY RuleType DEF Fact
    <3>2. \A r \in Rules(P) : P.edb \cap WithSource(read, r) = {}
      BY <3>1, <1>2 DEF SourcesOK, WithSource
    <3> QED
      BY <3>2 DEF InitiallyUnfounded
  <2>2. P.edb \cap Depending(read, rest) = {}
    BY <1>2 DEF SourcesOK, Depending
  <2>3. closed(rest) /\ rest \in SUBSET eligible
    BY <2>1, <2>2
  <2> HIDE DEF eligible, closed
  <2> QED
    BY <2>3
<1>4. newlyUnfounded \subseteq Ordinary(P)
  BY DEF NonSingular
<1>5. t = [without EXCEPT !.unfounded = @ \cup newlyUnfounded]
  BY DEF AfterSetFact, read, removed
<1> HIDE DEF newlyUnfounded
<1>6. SourcesOK(without, P)
  BY <1>2, RemoveSourceOK
<1>7. without.unfounded \cup newlyUnfounded \subseteq Ordinary(P) \ P.edb
  BY <1>3, <1>4, <1>6 DEF SourcesOK
<1> HIDE DEF without
<1> QED
  BY <1>5, <1>6, <1>7, UnfoundedChanged

LEMMA SourcesFollowOK ==
  ASSUME GroundProgram(Program), SourcesOK(sources, Program), SourcesFollow
  PROVE  SourcesOK(sources', Program)
<1> DEFINE before == Range(propagation.assignment)
           after == Range(propagation'.assignment)
<1>1. CASE after \ before # {}
  <2>1. sources' = AfterSetFact(sources, propagation', CHOOSE lit \in after \ before : TRUE)
    BY <1>1 DEF SourcesFollow
  <2> QED
    BY <2>1, AfterSetFactOK
<1>2. CASE after \ before = {} /\ before \ after # {}
  <2>1. PICK lit : sources' = AfterClearFact(sources, lit)
    BY <1>2 DEF SourcesFollow
  <2> DEFINE atoms == sources.unfounded \cup ({Address(lit)} \cap (NonSingular \ DOMAIN sources.sourceRule))
  <2>2. atoms \subseteq Ordinary(Program) \ Program.edb
    BY DEF SourcesOK, NonSingular
  <2>3. sources' = [sources EXCEPT !.unfounded = atoms]
    BY <2>1 DEF AfterClearFact
  <2> HIDE DEF atoms
  <2> QED
    BY <2>2, <2>3, UnfoundedChanged
<1>3. CASE after \ before = {} /\ before \ after = {}
  BY <1>3 DEF SourcesFollow
<1> QED
  BY <1>1, <1>2, <1>3

\* While a set is built, it is not empty and contains no facts.
UfsOK == pc = "unfounded set" => ufs # {} /\ ufs \subseteq Ordinary(Program) \ Program.edb

LEMMA UnfoundedSetOK ==
  ASSUME GroundProgram(Program), SourcesOK(sources, Program), UfsOK, UnfoundedSetCheck, Program' = Program
  PROVE  SourcesOK(sources', Program) /\ UfsOK'
<1>1. CASE StartUnfoundedSet
  <2>1. sources.unfounded # {} /\ sources.unfounded \in SUBSET Nat
    <3>1. Ordinary(Program) \subseteq Nat
      BY DEF GroundProgram, Ordinary
    <3> QED
      BY <1>1, <3>1 DEF StartUnfoundedSet, SourcesOK
  <2>2. Min(sources.unfounded) \in sources.unfounded
    BY <2>1, LeastElement
  <2>3. sources' = sources /\ ufs' = {Min(sources.unfounded)} /\ pc' = "unfounded set"
    BY <1>1 DEF StartUnfoundedSet
  <2> QED
    BY <2>2, <2>3 DEF SourcesOK, UfsOK
<1>2. CASE ExtendUnfoundedSet
  <2>1. PICK r : ufs' = ufs \cup UnfoundedBody(r)
    BY <1>2 DEF ExtendUnfoundedSet
  <2>2. UnfoundedBody(r) \subseteq sources.unfounded
    BY DEF UnfoundedBody
  <2>3. pc = "unfounded set" /\ sources' = sources
    BY <1>2 DEF ExtendUnfoundedSet
  <2> QED
    BY <2>1, <2>2, <2>3 DEF SourcesOK, UfsOK
<1>3. CASE UseAsNewSource
  <2>1. PICK r, heads : /\ heads \subseteq sources.unfounded
                        /\ sources' = [sourceRule |-> [a \in DOMAIN sources.sourceRule \cup heads |->
                                                         IF a \in heads THEN r ELSE sources.sourceRule[a]],
                                       unfounded |-> sources.unfounded \ heads]
                        /\ ufs' = ufs \ heads
                        /\ pc = "unfounded set"
                        /\ pc' = IF ufs' = {} THEN "propagating" ELSE pc
    <3> DEFINE q == Min(PossibleSourceRules(ufs))
               hs == {a \in Heads(Program, q) : UsesAsSource(a, q)}
    <3>1. hs \subseteq sources.unfounded
      BY DEF UsesAsSource
    <3>2. /\ sources' = [sourceRule |-> [a \in DOMAIN sources.sourceRule \cup hs |->
                                           IF a \in hs THEN q ELSE sources.sourceRule[a]],
                         unfounded |-> sources.unfounded \ hs]
          /\ ufs' = ufs \ hs
          /\ pc = "unfounded set"
          /\ pc' = IF ufs' = {} THEN "propagating" ELSE pc
      BY <1>3 DEF UseAsNewSource
    <3> HIDE DEF q, hs
    <3> QED
      BY <3>1, <3>2
  <2> DEFINE f == [a \in DOMAIN sources.sourceRule \cup heads |-> IF a \in heads THEN r ELSE sources.sourceRule[a]]
  <2>2. \A a \in Program.edb : a \in DOMAIN f /\ f[a] = Fact
    BY <2>1 DEF SourcesOK
  <2>3. sources' = [sourceRule |-> f, unfounded |-> sources.unfounded \ heads]
    BY <2>1
  <2> HIDE DEF f
  <2>4. sources'.sourceRule = f /\ sources'.unfounded = sources.unfounded \ heads
    BY <2>3
  <2>5. SourcesOK(sources', Program)
    BY <2>2, <2>3, <2>4 DEF SourcesOK
  <2>6. UfsOK'
    BY <2>1 DEF UfsOK
  <2> QED
    BY <2>5, <2>6
<1>4. CASE LearnLoopNogood
  BY <1>4 DEF LearnLoopNogood, UfsOK
<1> QED
  BY <1>1, <1>2, <1>3, <1>4 DEF UnfoundedSetCheck

-----------------------------------------------------------------------------
(* What the nogoods exclude.                                               *)

\* Neither the nogoods nor the one that is being learned exclude an answer set that
\* the nogoods from outside allow.
KeepOK ==
  \A S \in SUBSET Ordinary(Program) :
    AnswerSet(Program, S) /\ Respects(AssignmentOf(S), Late \cap Nogoods(propagation)) =>
      /\ Respects(AssignmentOf(S), Nogoods(propagation))
      /\ pc = "analysis" => ~(analysis.learnedNogood \subseteq AssignmentOf(S))

ASPInv == CDNLInv /\ SourcesOK(sources, Program) /\ UfsOK /\ KeepOK

\* What a step of the answer set solver does to the search.
LEMMA ASPSearchStep ==
  ASSUME ProblemsArePrograms, ASPInv, [ASPNext]_aspVars
  PROVE  /\ CDNLInv'
         /\ instance' = instance \/ [Next]_vars
         /\ Nogoods(propagation) \subseteq Nogoods(propagation')
         /\ \A ng \in Nogoods(propagation') :
              \/ ng \in Nogoods(propagation) \cup Late
              \/ Backjump /\ ng = analysis.learnedNogood
              \/ LearnLoopNogood /\ ng = LoopNogood
         /\ pc' = "analysis" =>
              \/ StartAnalysis \/ ResolveImplied
              \/ pc = "analysis" /\ analysis' = analysis
<1>1. /\ CDNLInv /\ InstanceOK /\ SourcesOK(sources, Program) /\ UfsOK
      /\ RecordOK(propagation) /\ nogoodsToAdd \subseteq Late /\ Late \in SUBSET SUBSET Int
  BY InstanceType DEF ASPInv, CDNLInv, PropagationOK, InstanceOK
<1>2. CASE [Next]_vars
  <2>1. CDNLInv'
    BY <1>1, <1>2, StepInvariant
  <2>2. /\ Nogoods(propagation) \subseteq Nogoods(propagation')
        /\ \A ng \in Nogoods(propagation') :
             ng \in Nogoods(propagation) \/ ng \in Late \/ (Backjump /\ ng = analysis.learnedNogood)
    BY <1>1, <1>2, NogoodsGrow DEF NogoodsKept
  <2>3. pc' = "analysis" => StartAnalysis \/ ResolveImplied \/ (pc = "analysis" /\ analysis' = analysis)
    BY <1>2, AnalysisKept
  <2> QED
    BY <1>1, <1>2, <2>1, <2>2, <2>3
<1>3. CASE FlipDecision
  <2>1. pc' # "analysis" /\ instance' = instance
    BY <1>3 DEF FlipDecision, LoopOrReturn
  <2> QED
    BY <1>1, <1>3, <2>1, FlipDecisionInvariant
<1>4. ASSUME NEW added \in SUBSET SUBSET Int, propagation' = AddNogoods(propagation, added)
      PROVE  /\ Nogoods(propagation) \subseteq Nogoods(propagation')
             /\ \A ng \in Nogoods(propagation') : ng \in Nogoods(propagation) \cup added
  <2>1. Extended(propagation, Accepted(added, Atoms), propagation')
    BY <1>1, <1>4, AddNogoodsFields
  <2> QED
    BY <2>1 DEF Extended, Accepted
<1>5. CASE LearnFromPropagators
  <2>1. PICK learned \in SUBSET Late : propagation' = AddNogoods(propagation, nogoodsToAdd \cup learned)
    BY <1>5 DEF LearnFromPropagators, Late
  <2> DEFINE added == nogoodsToAdd \cup learned
  <2>2. added \in SUBSET Late /\ added \in SUBSET SUBSET Int /\ propagation' = AddNogoods(propagation, added)
    BY <1>1, <2>1
  <2>3. /\ pc = "propagating" /\ pc' = "propagating" /\ nogoodsToAdd' = {}
        /\ UNCHANGED <<currentDL, exhaustedDL, decisionLiteral, flipped, analysis, instance>>
    BY <1>5 DEF LearnFromPropagators, NoConflict, Propagated
  <2> HIDE DEF added
  <2>4. CDNLInv'
    BY <1>1, <2>2, <2>3, ASPLoadInvariant
  <2>5. /\ Nogoods(propagation) \subseteq Nogoods(propagation')
        /\ \A ng \in Nogoods(propagation') : ng \in Nogoods(propagation) \cup added
    BY <1>4, <2>2
  <2> QED
    BY <2>2, <2>3, <2>4, <2>5
<1>6. CASE LearnLoopNogood
  <2>1. LoopNogood \in SUBSET Int
    <3>1. ufs # {} /\ ufs \subseteq Ordinary(Program) /\ GroundProgram(Program)
      BY <1>1, <1>6, ProgramAtoms DEF UfsOK, LearnLoopNogood
    <3> QED
      BY <3>1, LoopNogoodType
  <2>2. /\ pc = "unfounded set" /\ pc' = "propagating" /\ propagation' = AddNogoods(propagation, {LoopNogood})
        /\ UNCHANGED <<currentDL, exhaustedDL, decisionLiteral, flipped, nogoodsToAdd, analysis, instance>>
    BY <1>6 DEF LearnLoopNogood
  <2>3. {LoopNogood} \in SUBSET SUBSET Int
    BY <2>1
  <2>4. CDNLInv'
    BY <1>1, <2>2, <2>3, ASPLoadInvariant
  <2>5. /\ Nogoods(propagation) \subseteq Nogoods(propagation')
        /\ \A ng \in Nogoods(propagation') : ng \in Nogoods(propagation) \cup {LoopNogood}
    BY <1>4, <2>2, <2>3
  <2> QED
    BY <1>6, <2>2, <2>4, <2>5
<1>7. CASE UnfoundedSetStep
  <2>1. instance' = instance /\ propagation' = propagation /\ pc' # "analysis"
    BY <1>7 DEF UnfoundedSetStep, SearchUnchanged
  <2> QED
    BY <1>1, <1>7, <2>1, UnfoundedSetStepInvariant
<1> QED
  BY <1>2, <1>3, <1>5, <1>6, <1>7, ASPSteps

LEMMA ASPProblemStays ==
  ASSUME ProblemsArePrograms, ASPInv, [ASPNext]_aspVars
  PROVE  Atoms' = Atoms /\ Given' = Given /\ Late' = Late /\ Program' = Program
<1>1. instance'.problem = instance.problem /\ instance'.atoms = instance.atoms
  BY ASPSearchStep, ProblemStays DEF ASPInv, Atoms
<1> QED
  BY <1>1 DEF Atoms, Given, Late, Program

LEMMA SourcesStep ==
  ASSUME ProblemsArePrograms, ASPInv, [ASPNext]_aspVars
  PROVE  SourcesOK(sources', Program) /\ UfsOK'
<1>1. GroundProgram(Program) /\ SourcesOK(sources, Program) /\ UfsOK /\ Program' = Program
  BY ProgramAtoms, ASPProblemStays DEF ASPInv, CDNLInv
<1>2. CASE UnfoundedSetCheck
  BY <1>1, <1>2, UnfoundedSetOK
<1>3. CASE ~UnfoundedSetCheck
  <2>1. ufs' = ufs /\ (SourcesFollow \/ sources' = sources)
    BY <1>3 DEF ASPNext, ASPSearch, ASPCall, aspVars
  <2>2. SourcesOK(sources', Program)
    BY <1>1, <2>1, SourcesFollowOK
  <2>3. pc' = "unfounded set" => pc = "unfounded set"
    BY <1>3 DEF ASPNext, ASPSearch, ASPCall, aspVars, vars,
       SetOrClear, PropagateFirst, PropagateUnit, BacktrackFact, FlipDecision, LoopOrReturn, SetAssumption,
       NoUnfoundedSet, LearnFromPropagators, Guess, NothingToGuess,
       KeepFacts, ConflictAtDL0, ConflictBelowExhausted, StartAnalysis, ResolveImplied, Backjump,
       ReturnModel, AssumptionsSet, GetNextModel, LeaveModel, NoMoreModels, AddNogood, Terminating
  <2> QED
    BY <1>1, <2>1, <2>2, <2>3 DEF UfsOK
<1> QED
  BY <1>2, <1>3

LEMMA KeepStep ==
  ASSUME ProblemsArePrograms, ASPInv, [ASPNext]_aspVars
  PROVE  KeepOK'
<1> DEFINE p == propagation
           q == propagation'
<1>1. /\ Nogoods(p) \subseteq Nogoods(q)
      /\ \A ng \in Nogoods(q) : \/ ng \in Nogoods(p) \cup Late
                                \/ Backjump /\ ng = analysis.learnedNogood
                                \/ LearnLoopNogood /\ ng = LoopNogood
      /\ pc' = "analysis" => \/ StartAnalysis \/ ResolveImplied
                             \/ pc = "analysis" /\ analysis' = analysis
  BY ASPSearchStep
<1>2. Atoms' = Atoms /\ Given' = Given /\ Late' = Late /\ Program' = Program
  BY ASPProblemStays
<1>3. \A S : AssignmentOf(S)' = AssignmentOf(S)
  BY <1>2 DEF AssignmentOf
<1>4. SUFFICES ASSUME NEW S \in SUBSET Ordinary(Program), AnswerSet(Program, S),
                      Respects(AssignmentOf(S), Late \cap Nogoods(q))
               PROVE  /\ Respects(AssignmentOf(S), Nogoods(q))
                      /\ pc' = "analysis" => ~(analysis'.learnedNogood \subseteq AssignmentOf(S))
  BY <1>2, <1>3 DEF KeepOK
<1> DEFINE M == AssignmentOf(S)
<1>5. Respects(M, Nogoods(p)) /\ (pc = "analysis" => ~(analysis.learnedNogood \subseteq M))
  BY <1>1, <1>4 DEF ASPInv, KeepOK, Respects
<1>6. LearnLoopNogood => ~(LoopNogood \subseteq M)
  BY <1>4, LoopNogoodKeepsAnswerSets DEF ASPInv, CDNLInv, UfsOK, LearnLoopNogood
<1>7. M \in Assignments(Atoms)
  BY AssignmentMembers DEF ASPInv, CDNLInv
<1> HIDE DEF M
<1>8. Respects(M, Nogoods(q))
  BY <1>1, <1>4, <1>5, <1>6 DEF Respects, Backjump, M
<1>9. pc' = "analysis" => ~(analysis'.learnedNogood \subseteq M)
  BY <1>1, <1>5, <1>7, ResolutionSound DEF ASPInv
<1> QED
  BY <1>8, <1>9 DEF M

LEMMA ASPInitInvariant ==
  ASSUME ProblemsArePrograms, ASPInit
  PROVE  ASPInv
<1>1. CDNLInv /\ InstanceOK
  BY InitInvariant DEF ASPInit, CDNLInv
<1>2. GroundProgram(Program)
  BY <1>1, ProgramAtoms
<1>3. SourcesOK(sources, Program)
  <2> DEFINE f == [a \in Program.edb |-> Fact]
             u == NonSingular \ Program.edb
  <2>1. sources = [sourceRule |-> f, unfounded |-> u]
    BY DEF ASPInit, InitSourcePointers
  <2>2. u \subseteq Ordinary(Program) \ Program.edb
    BY DEF NonSingular
  <2>3. \A a \in Program.edb : a \in DOMAIN f /\ f[a] = Fact
    OBVIOUS
  <2> HIDE DEF f, u
  <2>4. sources.sourceRule = f /\ sources.unfounded = u
    BY <2>1
  <2> QED
    BY <2>1, <2>2, <2>3, <2>4 DEF SourcesOK
<1>4. pc = "assuming" /\ propagation = InitWatchingStructures(Given)
  BY DEF ASPInit, Init, Given
<1>5. Nogoods(propagation) = Accepted(Given, Atoms)
  BY <1>1, <1>4, InstanceType, InitWatchingStructuresOK
<1>6. KeepOK
  <2>1. SUFFICES ASSUME NEW S \in SUBSET Ordinary(Program), AnswerSet(Program, S)
                 PROVE  Respects(AssignmentOf(S), Nogoods(propagation))
    BY <1>4 DEF KeepOK
  <2>2. Respects(AssignmentOf(S), Given)
    BY <1>1, <2>1, GivenKeepAnswerSets
  <2> QED
    BY <1>5, <2>2 DEF Respects, Accepted
<1> QED
  BY <1>1, <1>3, <1>4, <1>6 DEF ASPInv, UfsOK

LEMMA ASPStepInvariant ==
  ASSUME ProblemsArePrograms, ASPInv, [ASPNext]_aspVars
  PROVE  ASPInv'
<1>1. CDNLInv' /\ Program' = Program
  BY ASPSearchStep, ASPProblemStays
<1>2. SourcesOK(sources', Program) /\ UfsOK'
  BY SourcesStep
<1> QED
  BY <1>1, <1>2, KeepStep DEF ASPInv

LEMMA KeepLearned ==
  ASSUME ASPInv PROVE LearnedKeepAnswerSets
<1>1. SUFFICES ASSUME NEW S \in AnswerSets[instance.problem], \A ng \in Late : ~(ng \subseteq AssignmentOf(S))
               PROVE  \A ng \in Learned : ~(ng \subseteq AssignmentOf(S))
  BY DEF LearnedKeepAnswerSets
<1>2. AnswerSet(Program, S) /\ S \in SUBSET Ordinary(Program)
  BY AnswerSetsType DEF ASPInv, CDNLInv, AnswerSet
<1>3. Respects(AssignmentOf(S), Late \cap Nogoods(propagation))
  BY <1>1 DEF Respects
<1>4. Respects(AssignmentOf(S), Nogoods(propagation))
  BY <1>2, <1>3 DEF ASPInv, KeepOK
<1> QED
  BY <1>4 DEF Respects, Learned

\* In every reachable state of the answer set solver the learned nogoods, the loop
\* nogoods among them, exclude no answer set that the nogoods from outside allow,
\* whatever the ground program is.
THEOREM LearnedLoopsHold == ProblemsArePrograms => (ASPSpec => []LearnedKeepAnswerSets)
<1> SUFFICES ASSUME ProblemsArePrograms PROVE ASPSpec => []LearnedKeepAnswerSets
  OBVIOUS
<1>1. ASPInit => ASPInv
  BY ASPInitInvariant
<1>2. ASPInv /\ [ASPNext]_aspVars => ASPInv'
  BY ASPStepInvariant
<1>3. ASPInv => LearnedKeepAnswerSets
  BY KeepLearned
<1> QED
  BY <1>1, <1>2, <1>3, PTL DEF ASPSpec

-----------------------------------------------------------------------------
(***************************************************************************)
(* The enumeration: no model is missed, none is returned twice, and if no  *)
(* nogood comes late, all that is returned are solutions.                  *)
(***************************************************************************)

Facts == Range(propagation.assignment)

\* What the search has not returned yet and has to.
Required == UnderAssumptions(Allowed(SolutionsOf[instance.problem], Learned))

-----------------------------------------------------------------------------
(* What a step does to the facts, and to the order of their levels.        *)

\* Once a fact of some level was assigned, no lower ones follow.
LevelsInOrder(p, bound) ==
  \A i, j \in DOMAIN p.assignment :
    i < j /\ LevelIn(p, p.assignment[i]) >= bound => LevelIn(p, p.assignment[j]) >= bound

SameFacts(p, q) == q.assignment = p.assignment /\ q.decisionlevel = p.decisionlevel /\ q.cause = p.cause

KeepsFacts(p, q, facts) ==
  \A l \in facts : LevelIn(q, l) = LevelIn(p, l) /\ q.cause[Address(l)] = p.cause[Address(l)]

\* A literal became true, ...
Grows(p, lit, dl, c, q) ==
  /\ lit \notin Range(p.assignment)
  /\ Range(q.assignment) = Range(p.assignment) \cup {lit}
  /\ LevelIn(q, lit) = dl /\ q.cause[Address(lit)] = c
  /\ KeepsFacts(p, q, Range(p.assignment))
  /\ \A bound \in Nat : LevelsInOrder(p, bound) /\ dl >= bound => LevelsInOrder(q, bound)
  /\ \A bound \in Nat : (\A l \in Range(p.assignment) : LevelIn(p, l) < bound) => LevelsInOrder(q, bound)

\* ... or was cleared.
Shrinks(p, lit, q) ==
  /\ lit \in Range(p.assignment)
  /\ Range(q.assignment) = Range(p.assignment) \ {lit}
  /\ KeepsFacts(p, q, Range(q.assignment))
  /\ \A bound \in Nat : LevelsInOrder(p, bound) => LevelsInOrder(q, bound)

LEMMA AssignedGrows ==
  ASSUME NEW atoms, AtomsOK(atoms), NEW p, AssignmentOK(p, atoms),
         NEW lit \in LiteralsOf(atoms), Unassigned(p, lit), NEW dl \in Nat, NEW c, NEW q, Assigned(p, lit, dl, c, q)
  PROVE  Grows(p, lit, dl, c, q)
<1>1. /\ DOMAIN q.assignment = 1 .. Len(p.assignment) + 1
      /\ DOMAIN p.assignment = 1 .. Len(p.assignment) /\ Len(p.assignment) \in Nat
      /\ q.assignment[Len(p.assignment) + 1] = lit
      /\ LevelIn(q, lit) = dl /\ q.cause[Address(lit)] = c
      /\ \A i \in DOMAIN p.assignment : q.assignment[i] = p.assignment[i]
      /\ \A l \in Range(p.assignment) : /\ l \in LiteralsOf(atoms) /\ l # lit
                                        /\ LevelIn(q, l) = LevelIn(p, l)
                                        /\ q.cause[Address(l)] = p.cause[Address(l)]
  BY AssignedOrder
<1>2. Range(q.assignment) = Range(p.assignment) \cup {lit}
  BY AppendRange DEF Assigned, AssignmentOK
<1>3. KeepsFacts(p, q, Range(p.assignment)) /\ lit \notin Range(p.assignment)
  BY <1>1 DEF KeepsFacts
<1>4. \A i \in DOMAIN p.assignment : LevelIn(q, q.assignment[i]) = LevelIn(p, p.assignment[i])
  BY <1>1 DEF Range
<1>5. \A i \in DOMAIN q.assignment : i \in DOMAIN p.assignment \/ i = Len(p.assignment) + 1
  BY <1>1
<1>6. ASSUME NEW bound \in Nat, LevelsInOrder(p, bound), dl >= bound PROVE LevelsInOrder(q, bound)
  <2>1. SUFFICES ASSUME NEW i \in DOMAIN q.assignment, NEW j \in DOMAIN q.assignment,
                        i < j, LevelIn(q, q.assignment[i]) >= bound
                 PROVE  LevelIn(q, q.assignment[j]) >= bound
    BY DEF LevelsInOrder
  <2>2. CASE j = Len(p.assignment) + 1
    BY <2>2, <1>1, <1>6
  <2>3. CASE j \in DOMAIN p.assignment
    <3>1. i \in DOMAIN p.assignment
      BY <2>1, <2>3, <1>1
    <3> QED
      BY <3>1, <2>1, <2>3, <1>4, <1>6 DEF LevelsInOrder
  <2> QED
    BY <2>2, <2>3, <1>5
<1>7. ASSUME NEW bound \in Nat, \A l \in Range(p.assignment) : LevelIn(p, l) < bound PROVE LevelsInOrder(q, bound)
  <2>1. SUFFICES ASSUME NEW i \in DOMAIN q.assignment, NEW j \in DOMAIN q.assignment, i < j
                 PROVE  ~(LevelIn(q, q.assignment[i]) >= bound)
    BY DEF LevelsInOrder
  <2>2. i \in DOMAIN p.assignment
    BY <2>1, <1>1
  <2>3. p.assignment[i] \in Range(p.assignment)
    BY <2>2 DEF Range
  <2>4. LevelIn(p, p.assignment[i]) < bound /\ LevelIn(p, p.assignment[i]) \in Nat
    <3>1. Address(p.assignment[i]) \in atoms
      BY <2>3, <1>1, LiteralsType
    <3> QED
      BY <3>1, <2>3, <1>7 DEF LevelIn, AssignmentOK
  <2> QED
    BY <2>2, <2>4, <1>4
<1> QED
  BY <1>1, <1>2, <1>3, <1>6, <1>7 DEF Grows

LEMMA ClearedShrinks ==
  ASSUME NEW atoms, AtomsOK(atoms), NEW p, AssignmentOK(p, atoms), NEW lit \in Range(p.assignment),
         NEW q, Cleared(p, lit, q), Range(q.assignment) = Range(p.assignment) \ {lit}
  PROVE  Shrinks(p, lit, q)
<1> DEFINE k == Position(p, lit)
           at(i) == IF i < k THEN i ELSE i + 1
<1>1. /\ k \in DOMAIN p.assignment /\ p.assignment[k] = lit
      /\ DOMAIN q.assignment = 1 .. Len(p.assignment) - 1
      /\ \A i \in DOMAIN q.assignment : q.assignment[i] = p.assignment[at(i)]
      /\ q.decisionlevel = [p.decisionlevel EXCEPT ![Address(lit)] = 0]
      /\ q.cause = [p.cause EXCEPT ![Address(lit)] = NoCause]
  BY DEF Cleared
<1>2. /\ DOMAIN p.assignment = 1 .. Len(p.assignment) /\ Len(p.assignment) \in Nat
      /\ DOMAIN p.decisionlevel = atoms /\ DOMAIN p.cause = atoms
      /\ \A i \in DOMAIN p.assignment : p.assignment[i] \in LiteralsOf(atoms)
      /\ \A i, j \in DOMAIN p.assignment : Address(p.assignment[i]) = Address(p.assignment[j]) => i = j
  BY DEF AssignmentOK
<1> HIDE DEF k
<1>3. \A j \in DOMAIN p.assignment \ {k} :
        LET l == p.assignment[j]
        IN  Address(l) # Address(lit) /\ LevelIn(q, l) = LevelIn(p, l) /\ q.cause[Address(l)] = p.cause[Address(l)]
  <2>1. \A j \in DOMAIN p.assignment : Address(p.assignment[j]) \in atoms
    BY <1>2, LiteralsType
  <2> QED
    BY <2>1, <1>1, <1>2 DEF LevelIn
<1>4. \A i \in DOMAIN q.assignment : at(i) \in DOMAIN p.assignment \ {k}
  BY <1>1, <1>2
<1>5. \A i \in DOMAIN q.assignment : LevelIn(q, q.assignment[i]) = LevelIn(p, p.assignment[at(i)])
  <2> HIDE DEF at
  <2> QED
    BY <1>1, <1>3, <1>4
<1>6. KeepsFacts(p, q, Range(q.assignment))
  <2>1. SUFFICES ASSUME NEW l \in Range(q.assignment)
                 PROVE  LevelIn(q, l) = LevelIn(p, l) /\ q.cause[Address(l)] = p.cause[Address(l)]
    BY DEF KeepsFacts
  <2>2. PICK i \in DOMAIN q.assignment : l = q.assignment[i]
    BY DEF Range
  <2> HIDE DEF at
  <2> QED
    BY <2>2, <1>1, <1>3, <1>4
<1>7. ASSUME NEW bound \in Nat, LevelsInOrder(p, bound) PROVE LevelsInOrder(q, bound)
  <2>1. SUFFICES ASSUME NEW i \in DOMAIN q.assignment, NEW j \in DOMAIN q.assignment,
                        i < j, LevelIn(q, q.assignment[i]) >= bound
                 PROVE  LevelIn(q, q.assignment[j]) >= bound
    BY DEF LevelsInOrder
  <2>2. at(i) < at(j)
    BY <2>1, <1>1, <1>2
  <2>3. at(i) \in DOMAIN p.assignment /\ at(j) \in DOMAIN p.assignment
    BY <1>4
  <2> HIDE DEF at
  <2> QED
    BY <2>1, <2>2, <2>3, <1>5, <1>7 DEF LevelsInOrder
<1> QED
  BY <1>6, <1>7 DEF Shrinks

\* Nogoods that are loaded before or after change nothing about this.
LEMMA GrowsExtended ==
  ASSUME NEW p, NEW lit, NEW dl, NEW c, NEW r, NEW q,
         \/ Grows(p, lit, dl, c, r) /\ SameFacts(r, q)
         \/ SameFacts(p, r) /\ Grows(r, lit, dl, c, q)
  PROVE  Grows(p, lit, dl, c, q)
BY DEF Grows, SameFacts, KeepsFacts, LevelsInOrder, LevelIn

-----------------------------------------------------------------------------
(* Assignments and complete assignments.                                   *)

LEMMA RequiredType ==
  ASSUME CDNLInv
  PROVE  \A S : S \in Required <=> /\ S \in Assignments(Atoms) /\ instance.assumptions \subseteq S
                                   /\ Respects(S, Given) /\ Respects(S, Nogoods(propagation))
<1>1. SolutionsOf[instance.problem] = {S \in Assignments(Atoms) : Respects(S, Given)}
  BY DEF CDNLInv, InstanceOK, SolutionsOf, Allowed, Respects, Given
<1>2. \A S : Respects(S, Given) => (Respects(S, Learned) <=> Respects(S, Nogoods(propagation)))
  BY DEF Respects, Learned
<1> QED
  BY <1>1, <1>2 DEF Required, UnderAssumptions, Allowed, Respects

\* Two assignments of which one contains the other are the same.
LEMMA AssignmentsApart ==
  ASSUME AtomsOK(Atoms), NEW S \in Assignments(Atoms), NEW T \in Assignments(Atoms), S \subseteq T
  PROVE  S = T
<1>1. S \subseteq LiteralsOf(Atoms) /\ T \subseteq LiteralsOf(Atoms)
  <2>1. \A a \in Atoms : a \in Int /\ -a \in Int /\ a > 0 /\ Address(a) = a /\ Address(-a) = a
    BY DEF AtomsOK, Address
  <2> QED
    BY <2>1 DEF Assignments, LiteralsOf
<1>2. \A l \in LiteralsOf(Atoms) : (l \in S <=> Negation(l) \notin S) /\ (l \in T <=> Negation(l) \notin T)
  BY AssignmentsType
<1>3. \A l \in LiteralsOf(Atoms) : Negation(l) \in LiteralsOf(Atoms)
  BY LiteralsType
<1> QED
  BY <1>1, <1>2, <1>3

\* A complete assignment assigns each atom, ...
LEMMA CompleteAssigns ==
  ASSUME AtomsOK(Atoms), NEW p, AssignmentOK(p, Atoms), Complete(p)
  PROVE  \A a \in Atoms : \E l \in Range(p.assignment) : Address(l) = a
<1> DEFINE f == [i \in 1 .. Len(p.assignment) |-> Address(p.assignment[i])]
           n == Len(p.assignment)
<1>1. PICK max \in Nat : Atoms = 1 .. max
  BY DEF AtomsOK
<1>2. /\ n \in Nat /\ DOMAIN p.assignment = 1 .. n
      /\ \A i \in 1 .. n : p.assignment[i] \in LiteralsOf(Atoms)
      /\ \A i, j \in 1 .. n : Address(p.assignment[i]) = Address(p.assignment[j]) => i = j
  BY DEF AssignmentOK
<1>3. /\ IsFiniteSet(1 .. n) /\ Cardinality(1 .. n) = n
      /\ IsFiniteSet(Atoms) /\ Cardinality(Atoms) = max
  <2> HIDE DEF n
  <2>1. /\ IsFiniteSet(1 .. n) /\ Cardinality(1 .. n) = (IF 1 > n THEN 0 ELSE n - 1 + 1)
        /\ IsFiniteSet(1 .. max) /\ Cardinality(1 .. max) = (IF 1 > max THEN 0 ELSE max - 1 + 1)
    BY <1>2, FS_Interval
  <2> QED
    BY <2>1, <1>1, <1>2
<1>4. n = Cardinality(Atoms)
  BY DEF Complete
<1>5. SUFFICES ASSUME NEW a \in Atoms, \A l \in Range(p.assignment) : Address(l) # a
               PROVE  FALSE
  OBVIOUS
<1> DEFINE others == Atoms \ {a}
<1>6. \A i \in 1 .. n : Address(p.assignment[i]) \in others
  <2>1. \A i \in 1 .. n : p.assignment[i] \in Range(p.assignment) /\ Address(p.assignment[i]) \in Atoms
    BY <1>2, LiteralsType DEF Range
  <2> QED
    BY <2>1, <1>5
<1>7. f \in Injection(1 .. n, others)
  <2>1. f \in [1 .. n -> others]
    BY <1>6
  <2>2. \A i, j \in 1 .. n : f[i] = f[j] => i = j
    BY <1>2
  <2> QED
    BY <2>1, <2>2 DEF Injection, IsInjective
<1>8. IsFiniteSet(others) /\ Cardinality(others) = Cardinality(Atoms) - 1
  BY <1>3, FS_RemoveElement
<1>9. Cardinality(1 .. n) <= Cardinality(others)
  BY <1>7, <1>8, FS_Injection
<1> QED
  BY <1>1, <1>3, <1>4, <1>8, <1>9

\* ... and is an assignment.
LEMMA CompleteIsAssignment ==
  ASSUME AtomsOK(Atoms), NEW p, AssignmentOK(p, Atoms), Complete(p)
  PROVE  Range(p.assignment) \in Assignments(Atoms)
<1> DEFINE A == Range(p.assignment)
           positive == {a \in Atoms : a \in A}
<1>1. \A l \in A : l \in LiteralsOf(Atoms)
  BY DEF Range, AssignmentOK
<1>2. \A l, m \in A : Address(l) = Address(m) => l = m
  BY DEF Range, AssignmentOK
<1>3. \A a \in Atoms : \E l \in A : Address(l) = a
  BY CompleteAssigns
<1>4. \A a \in Atoms : a \in Nat /\ a > 0
  BY DEF AtomsOK
<1> HIDE DEF A
<1>5. \A l \in A : l \in Int /\ Address(l) \in Atoms
  BY <1>1 DEF LiteralsOf
<1>6. ASSUME NEW a \in Atoms PROVE (IF a \in positive THEN a ELSE -a) \in A
  <2>1. PICK l \in A : Address(l) = a
    BY <1>3
  <2>2. l = a \/ l = -a
    BY <2>1, <1>5 DEF Address
  <2> QED
    BY <2>1, <2>2
<1>7. ASSUME NEW l \in A PROVE \E a \in Atoms : l = IF a \in positive THEN a ELSE -a
  <2>1. Address(l) \in Atoms /\ l \in Int
    BY <1>5
  <2>2. (IF Address(l) \in positive THEN Address(l) ELSE -Address(l)) \in A
    BY <2>1, <1>6
  <2>3. Address(IF Address(l) \in positive THEN Address(l) ELSE -Address(l)) = Address(l)
    BY <2>1, <1>4 DEF Address
  <2>4. l = IF Address(l) \in positive THEN Address(l) ELSE -Address(l)
    BY <2>2, <2>3, <1>2
  <2> QED
    BY <2>1, <2>4
<1>8. A = {IF a \in positive THEN a ELSE -a : a \in Atoms}
  BY <1>6, <1>7
<1>9. positive \in SUBSET Atoms
  OBVIOUS
<1> HIDE DEF positive
<1> QED
  BY <1>8, <1>9 DEF Assignments, A

-----------------------------------------------------------------------------
(* No model is missed.                                                     *)

On(S, decisions, dl) == \A n \in 1 .. dl : decisions[n] \in S
Follows(S, p, dl) ==
  \A l \in Range(p.assignment) : LevelIn(p, l) <= dl /\ p.cause[Address(l)] = NoCause => l \in S

\* A solution that was not returned and contains the decision literals up to some level
\* contains the flipped ones up to this level too, ...
MissedOK ==
  \A S \in Required \ models : \A dl \in 0 .. currentDL :
    On(S, decisionLiteral, dl) => /\ Follows(S, propagation, dl)
                                  /\ flipped # 0 /\ dl = currentDL => flipped \in S

\* ... and therefore all facts, by their causes.
LEMMA FactsFollow ==
  ASSUME CDNLInv, NEW S \in Required, NEW dl \in 0 .. currentDL, Follows(S, propagation, dl)
  PROVE  \A l \in Facts : LevelIn(propagation, l) <= dl => l \in S
<1> DEFINE p == propagation
           wrong == {i \in DOMAIN p.assignment : LevelIn(p, p.assignment[i]) <= dl /\ p.assignment[i] \notin S}
<1>1. /\ AssignmentOK(p, Atoms) /\ AtomsOK(Atoms) /\ CausesOK(p, currentDL) /\ currentDL \in Nat
      /\ S \in Assignments(Atoms) /\ Respects(S, Nogoods(p))
  BY RequiredType, InstanceType DEF CDNLInv, PropagationOK, LevelsOK
<1>2. SUFFICES wrong = {}
  BY DEF Facts, Range
<1>3. SUFFICES ASSUME wrong # {} PROVE FALSE
  OBVIOUS
<1>4. wrong \in SUBSET Nat
  BY <1>1 DEF AssignmentOK
<1>5. PICK i \in wrong : \A n \in wrong : i <= n
  <2> HIDE DEF wrong
  <2> QED
    BY <1>3, <1>4, LeastElement
<1> DEFINE l == p.assignment[i]
           c == p.cause[Address(l)]
<1>6. i \in DOMAIN p.assignment /\ l \in Range(p.assignment) /\ LevelIn(p, l) <= dl /\ l \notin S
  BY <1>5 DEF Range
<1>7. c # NoCause
  BY <1>6 DEF Follows
<1>8. \A j \in DOMAIN p.assignment : LevelIn(p, p.assignment[j]) \in Nat /\ p.assignment[j] \in LiteralsOf(Atoms)
  <2>1. \A j \in DOMAIN p.assignment : p.assignment[j] \in LiteralsOf(Atoms)
    BY <1>1 DEF AssignmentOK
  <2>2. \A j \in DOMAIN p.assignment : Address(p.assignment[j]) \in Atoms
    BY <2>1, <1>1, LiteralsType
  <2> QED
    BY <2>1, <2>2, <1>1 DEF LevelIn, AssignmentOK
<1>9. LevelIn(p, l) <= currentDL
  BY <1>1, <1>6, <1>8
<1>10. /\ c \in Nogoods(p) /\ Negation(l) \in c
       /\ \A m \in c \ {Negation(l)} : /\ \E j \in 1 .. i - 1 : m = p.assignment[j]
                                       /\ LevelIn(p, m) <= LevelIn(p, l)
  <2>1. Justified(p, i)
    BY <1>1, <1>6, <1>9 DEF CausesOK
  <2> QED
    BY <2>1, <1>7 DEF Justified
<1>11. i \in Nat /\ 1 .. i - 1 \subseteq DOMAIN p.assignment
  BY <1>1, <1>6 DEF AssignmentOK
<1>12. ASSUME NEW m \in c \ {Negation(l)} PROVE m \in S
  <2>1. PICK j \in 1 .. i - 1 : m = p.assignment[j]
    BY <1>10
  <2>2. j \in DOMAIN p.assignment /\ LevelIn(p, m) <= dl /\ ~(i <= j)
    <3>1. j \in DOMAIN p.assignment /\ ~(i <= j)
      BY <1>11
    <3>2. LevelIn(p, m) <= LevelIn(p, l) /\ LevelIn(p, m) \in Nat /\ LevelIn(p, l) \in Nat
      BY <3>1, <2>1, <1>6, <1>8, <1>10
    <3> QED
      BY <3>1, <3>2, <1>1, <1>6
  <2> QED
    BY <2>1, <2>2, <1>5
<1>13. Negation(l) \in S
  BY <1>1, <1>6, <1>8, AssignmentsType
<1>14. c \subseteq S
  BY <1>12, <1>13
<1> QED
  BY <1>10, <1>14, <1>1 DEF Respects

-----------------------------------------------------------------------------
(* What the steps do.                                                      *)

\* The sets of nogoods that no step of this kind changes if none comes late.
LEMMA NogoodsStay ==
  ASSUME CDNLInv, [Next]_vars, Late = {}, pc # "analysis"
  PROVE  Nogoods(propagation') = Nogoods(propagation)
BY NogoodsGrow DEF NogoodsKept, Backjump

LEMMA FactsType ==
  ASSUME CDNLInv
  PROVE  /\ \A l \in Facts : /\ l \in LiteralsOf(Atoms) /\ Negation(l) \notin Facts
                             /\ LevelIn(propagation, l) \in Nat
                             /\ ~Backtracking => LevelIn(propagation, l) <= currentDL
         /\ currentDL \in Nat /\ exhaustedDL \in Nat /\ exhaustedDL <= currentDL
         /\ AtomsOK(Atoms)
         /\ \A n \in 1 .. currentDL : /\ n \in Atoms /\ decisionLiteral[n] \in Facts
                                      /\ LevelIn(propagation, decisionLiteral[n]) = n
         /\ \A l, m \in Facts : Address(l) = Address(m) => l = m
<1>1. \A l \in Range(propagation.assignment) :
        /\ l \in LiteralsOf(Atoms) /\ Negation(l) \notin Range(propagation.assignment)
        /\ Level(l) \in Nat
        /\ ~Backtracking => Level(l) <= currentDL
  BY LevelType
<1>2. currentDL \in Nat /\ exhaustedDL \in Nat /\ exhaustedDL <= currentDL
  BY DEF CDNLInv, LevelsOK
<1>3. AtomsOK(Atoms) /\ DecisionsOK(propagation, currentDL, decisionLiteral, Atoms) /\ AssignmentOK(propagation, Atoms)
  BY InstanceType DEF CDNLInv, PropagationOK
<1>4. \A l, m \in Facts : Address(l) = Address(m) => l = m
  BY <1>3 DEF Facts, Range, AssignmentOK
<1> QED
  BY <1>1, <1>2, <1>3, <1>4 DEF Facts, Level, LevelIn, DecisionsOK

\* The rest of the search stays the same.
RestSame == /\ currentDL' = currentDL /\ exhaustedDL' = exhaustedDL /\ decisionLiteral' = decisionLiteral
            /\ flipped' = flipped /\ analysis' = analysis /\ pc' = pc /\ instance' = instance /\ models' = models

\* The literal lit of the nogood ng is the only one that is not true.
LastOf(lit, ng, dl) ==
  /\ lit \in ng /\ lit \in LiteralsOf(Atoms) /\ Unassigned(propagation, lit)
  /\ \A l \in ng \ {lit} : l \in Facts /\ LevelIn(propagation, l) <= dl

PropagateEffect ==
  \E ng \in Nogoods(propagation), lit \in LiteralsOf(Atoms), dl \in Nat :
    /\ LastOf(lit, ng, dl) /\ dl <= currentDL
    /\ Grows(propagation, Negation(lit), dl, ng, propagation')
    /\ Nogoods(propagation') = Nogoods(propagation)
    /\ pc = "propagating"
    /\ RestSame

LEMMA PropagateDoes ==
  ASSUME CDNLInv, Propagate
  PROVE  PropagateEffect
<1> DEFINE p == propagation
<1>1. /\ RecordOK(p) /\ AssignmentOK(p, Atoms) /\ WatchesOK(p, Atoms, {})
      /\ AtomsOK(Atoms) /\ InstanceOK /\ LevelsOK /\ DecisionsOK(p, currentDL, decisionLiteral, Atoms)
  BY InstanceType DEF CDNLInv, PropagationOK
<1>2. PICK ng \in p.unitNogoods : PropagateUnit(ng)
  BY DEF Propagate
<1>3. pc = "propagating" /\ ~Backtracking
  BY <1>2 DEF PropagateUnit, Backtracking
<1>4. ng \in Nogoods(p) /\ ng \subseteq LiteralsOf(Atoms) /\ p.watched[ng] \subseteq Free(p, ng) /\ WatchOK(p, ng)
  BY <1>1, <1>2 DEF WatchesOK
<1>5. ~Inactive(p, ng) /\ One(Free(p, ng)) /\ p.watched[ng] = Free(p, ng)
  BY <1>2, <1>4 DEF WatchOK, Enough
<1> DEFINE lit == CHOOSE l \in p.watched[ng] : TRUE
           levels == {0} \cup {Level(l) : l \in ng \ Free(p, ng)}
           propDL == Max(levels)
           r == [p EXCEPT !.unitNogoods = @ \ {ng}]
           q == SetFact(r, Negation(lit), propDL, ng)
<1>6. Free(p, ng) = {lit} /\ lit \in p.watched[ng] /\ lit \in ng /\ Unassigned(p, lit)
  BY <1>5 DEF One, Free
<1>7. propagation' = q
  BY <1>2 DEF PropagateUnit
<1> HIDE DEF lit
<1>8. /\ lit \in LiteralsOf(Atoms) /\ Negation(lit) \in LiteralsOf(Atoms) /\ Negation(Negation(lit)) = lit
      /\ Unassigned(p, Negation(lit))
  BY <1>1, <1>4, <1>6, LiteralsType DEF Unassigned, Satisfied, Falsified
<1>9. \A l \in ng \ Free(p, ng) : l \in Facts
  BY <1>5 DEF Free, Unassigned, Satisfied, Inactive, Facts
<1>10. /\ \A l \in Facts : Level(l) = LevelIn(p, l) /\ Level(l) \in Nat /\ Level(l) <= currentDL
       /\ currentDL \in Nat
  BY <1>3, FactsType DEF Level, LevelIn
<1>11. propDL \in Nat /\ propDL <= currentDL /\ \A l \in ng \ Free(p, ng) : LevelIn(p, l) <= propDL
  <2>1. levels \in SUBSET Nat /\ levels # {} /\ \A dl \in levels : dl <= currentDL
    <3>1. ASSUME NEW dl \in levels PROVE dl \in Nat /\ dl <= currentDL
      <4>1. CASE dl = 0
        BY <4>1, <1>10
      <4>2. CASE dl # 0
        <5>1. PICK l \in ng \ Free(p, ng) : dl = Level(l)
          BY <4>2
        <5> QED
          BY <5>1, <1>9, <1>10
      <4> QED
        BY <4>1, <4>2
    <3> QED
      BY <3>1
  <2>2. Max(levels) \in levels /\ \A dl \in levels : dl <= Max(levels)
    <3> HIDE DEF levels
    <3> QED
      BY <2>1, <1>10, GreatestElement
  <2>3. \A l \in ng \ Free(p, ng) : Level(l) \in levels
    OBVIOUS
  <2> HIDE DEF levels
  <2> QED
    BY <2>1, <2>2, <2>3, <1>9, <1>10
<1> HIDE DEF propDL, levels
<1>12. /\ RecordOK(r) /\ r.assignment = p.assignment /\ r.decisionlevel = p.decisionlevel /\ r.cause = p.cause
       /\ Nogoods(r) = Nogoods(p)
  BY <1>1 DEF RecordOK, Nogoods
<1> HIDE DEF r, q
<1>13. Assigned(r, Negation(lit), propDL, ng, q)
  BY <1>12, SetFactFields DEF q
<1>14. Assigned(p, Negation(lit), propDL, ng, q)
  BY <1>12, <1>13 DEF Assigned
<1>15. Grows(p, Negation(lit), propDL, ng, q)
  <2> HIDE DEF p
  <2> QED
    BY <1>1, <1>8, <1>11, <1>14, AssignedGrows
<1>16. LastOf(lit, ng, propDL)
  BY <1>6, <1>8, <1>9, <1>11 DEF LastOf
<1>17. Nogoods(q) = Nogoods(p)
  BY <1>14 DEF Assigned
<1>18. RestSame
  BY <1>2 DEF PropagateUnit, RestSame
<1> QED
  BY <1>3, <1>4, <1>7, <1>8, <1>11, <1>15, <1>16, <1>17, <1>18 DEF PropagateEffect

ClearEffect ==
  \E lit \in Facts :
    /\ LevelIn(propagation, lit) > currentDL
    /\ Shrinks(propagation, lit, propagation')
    /\ Nogoods(propagation') = Nogoods(propagation)
    /\ Backtracking
    /\ RestSame

LEMMA BacktrackFactDoes ==
  ASSUME CDNLInv, BacktrackFact
  PROVE  ClearEffect
<1> DEFINE p == propagation
           lowest == Min({Level(lit) : lit \in FactsAbove})
           positions == {i \in DOMAIN p.assignment : Level(p.assignment[i]) = lowest}
           lit == NextToClear
           q == ClearFact(p, NextToClear)
<1>1. RecordOK(p) /\ AssignmentOK(p, Atoms) /\ WatchesOK(p, Atoms, {}) /\ AtomsOK(Atoms)
  BY InstanceType DEF CDNLInv, PropagationOK
<1>2. Backtracking /\ FactsAbove # {} /\ propagation' = q /\ RestSame
  BY DEF BacktrackFact, RestSame
<1>3. \A l \in Facts : Level(l) = LevelIn(p, l) /\ Level(l) \in Nat
  BY FactsType DEF Level, LevelIn
<1>4. lowest \in {Level(l) : l \in FactsAbove}
  <2> DEFINE levels == {Level(l) : l \in FactsAbove}
  <2>1. levels \in SUBSET Nat /\ levels # {}
    BY <1>2, <1>3 DEF FactsAbove, Facts
  <2>2. Min(levels) \in levels
    <3> HIDE DEF levels
    <3> QED
      BY <2>1, LeastElement
  <2> QED
    BY <2>2
<1>5. PICK f \in FactsAbove : lowest = Level(f)
  BY <1>4
<1>6. \E i \in DOMAIN p.assignment : p.assignment[i] = f
  BY DEF FactsAbove, Range
<1> HIDE DEF lowest
<1>7. positions \in SUBSET Nat /\ positions # {}
  <2>1. DOMAIN p.assignment \in SUBSET Nat
    BY <1>1 DEF AssignmentOK
  <2> QED
    BY <2>1, <1>5, <1>6
<1>8. Min(positions) \in positions
  <2> HIDE DEF positions
  <2> QED
    BY <1>7, LeastElement
<1>9. lit \in Facts /\ LevelIn(p, lit) > currentDL
  <2>1. lit = p.assignment[Min(positions)]
    BY DEF NextToClear, lowest
  <2>2. Min(positions) \in DOMAIN p.assignment /\ Level(p.assignment[Min(positions)]) = Level(f)
    BY <1>5, <1>8
  <2>3. lit \in Facts /\ Level(lit) = Level(f)
    BY <2>1, <2>2 DEF Range, Facts
  <2> QED
    BY <2>3, <1>3 DEF FactsAbove
<1> HIDE DEF positions, lit
<1>10. /\ Range(q.assignment) = Range(p.assignment) \ {lit}
       /\ Cleared(p, lit, q)
  BY <1>1, <1>9, ClearFactOK DEF lit, Facts
<1> HIDE DEF q
<1>11. Shrinks(p, lit, q)
  <2> HIDE DEF p
  <2>1. lit \in Range(p.assignment)
    BY <1>9 DEF Facts, p
  <2> QED
    BY <2>1, <1>1, <1>10, ClearedShrinks
<1>12. Nogoods(q) = Nogoods(p)
  BY <1>10 DEF Cleared
<1> QED
  BY <1>2, <1>9, <1>11, <1>12 DEF ClearEffect

FlippedEffect ==
  IF flipped = 0 THEN SameFacts(propagation, propagation')
  ELSE /\ flipped \in LiteralsOf(Atoms) /\ Unassigned(propagation, flipped)
       /\ Grows(propagation, flipped, currentDL, NoCause, propagation')

FinishEffect ==
  /\ FlippedEffect
  /\ Backtracking /\ \A l \in Facts : LevelIn(propagation, l) <= currentDL
  /\ currentDL' = currentDL /\ exhaustedDL' = exhaustedDL /\ decisionLiteral' = decisionLiteral
  /\ flipped' = 0 /\ instance' = instance /\ models' = models
  /\ pc' = LoopOrReturn(propagation')

LEMMA FinishDoes ==
  ASSUME CDNLInv, FinishBacktracking
  PROVE  FinishEffect
<1> DEFINE p == propagation
           r == IF flipped = 0 THEN p ELSE SetFact(p, flipped, currentDL, NoCause)
           toLoad == IF pc = "backtracking" THEN nogoodsToAdd ELSE {}
           q == AddNogoods(r, toLoad)
<1>1. AssignmentOK(p, Atoms) /\ AtomsOK(Atoms) /\ currentDL \in Nat
  BY InstanceType DEF CDNLInv, PropagationOK, LevelsOK
<1>2. Backtracking /\ FactsAbove = {} /\ propagation' = q
  BY DEF FinishBacktracking
<1>3. /\ RecordOK(r) /\ Below(p, currentDL)
      /\ flipped # 0 => /\ flipped \in LiteralsOf(Atoms) /\ Unassigned(p, flipped)
                        /\ Assigned(p, flipped, currentDL, NoCause, r)
  BY <1>2, FlippedSet
<1>4. flipped = 0 => r = p
  OBVIOUS
<1> HIDE DEF r, toLoad
<1>5. Extended(r, Accepted(toLoad, Atoms), q)
  BY <1>3, AddNogoodsFields
<1> HIDE DEF q
<1>6. SameFacts(r, q)
  BY <1>5 DEF Extended, SameFacts
<1>7. ASSUME flipped # 0 PROVE Grows(p, flipped, currentDL, NoCause, q)
  <2> HIDE DEF p
  <2>1. Grows(p, flipped, currentDL, NoCause, r)
    BY <1>1, <1>3, <1>7, AssignedGrows
  <2> QED
    BY <2>1, <1>6, GrowsExtended
<1>8. FlippedEffect
  BY <1>2, <1>3, <1>4, <1>6, <1>7 DEF FlippedEffect
<1> QED
  BY <1>2, <1>3, <1>8 DEF FinishEffect, FinishBacktracking, Below, Facts

GuessEffect ==
  \E lit \in LiteralsOf(Atoms) :
    /\ Unassigned(propagation, lit)
    /\ Grows(propagation, lit, currentDL + 1, NoCause, propagation')
    /\ Nogoods(propagation') = Nogoods(propagation)
    /\ decisionLiteral' = [decisionLiteral EXCEPT ![currentDL + 1] = lit]
    /\ currentDL + 1 \in DOMAIN decisionLiteral
    /\ currentDL' = currentDL + 1 /\ exhaustedDL' = exhaustedDL /\ flipped' = flipped
    /\ instance' = instance /\ models' = models
    /\ NoConflict
    /\ pc' = LoopOrReturn(propagation')

LEMMA GuessDoes ==
  ASSUME CDNLInv, Guess
  PROVE  GuessEffect
<1> DEFINE p == propagation
           r == AddNogoods(p, nogoodsToAdd)
           q == propagation'
<1>1. /\ RecordOK(p) /\ AssignmentOK(p, Atoms) /\ AtomsOK(Atoms)
      /\ DecisionsOK(p, currentDL, decisionLiteral, Atoms) /\ currentDL \in Nat
  BY InstanceType DEF CDNLInv, PropagationOK, LevelsOK
<1>2. PICK lit \in Literals : /\ Unassigned(r, lit)
                              /\ q = SetFact(r, lit, currentDL + 1, NoCause)
                              /\ decisionLiteral' = [decisionLiteral EXCEPT ![currentDL + 1] = lit]
  BY DEF Guess
<1>3. RecordOK(r) /\ Extended(p, Accepted(nogoodsToAdd, Atoms), r)
  BY <1>1, AddNogoodsFields
<1>4. Nogoods(r) = Nogoods(p) /\ NoConflict
  BY DEF Guess, NothingLearned
<1> HIDE DEF r, q
<1>5. lit \in LiteralsOf(Atoms)
  <2>1. \A a \in Atoms : a \in Nat /\ a > 0
    BY <1>1 DEF AtomsOK
  <2> QED
    BY <2>1 DEF Literals, LiteralsOf, Address
<1>6. Unassigned(p, lit) /\ SameFacts(p, r) /\ AssignmentOK(r, Atoms)
  BY <1>1, <1>2, <1>3 DEF Extended, Unassigned, Satisfied, Falsified, SameFacts, AssignmentOK
<1>7. Assigned(r, lit, currentDL + 1, NoCause, q)
  BY <1>2, <1>3, SetFactFields
<1>8. Grows(p, lit, currentDL + 1, NoCause, q)
  <2>1. currentDL + 1 \in Nat
    BY <1>1
  <2>2. Grows(r, lit, currentDL + 1, NoCause, q)
    BY <2>1, <1>1, <1>2, <1>5, <1>6, <1>7, AssignedGrows
  <2> QED
    BY <2>2, <1>6, GrowsExtended
<1>9. currentDL + 1 \in DOMAIN decisionLiteral
  <2>1. currentDL + 1 \in Atoms
    BY <1>1, <1>5, <1>6, RoomForGuess
  <2> QED
    BY <2>1, <1>1 DEF DecisionsOK
<1>10. Nogoods(q) = Nogoods(p)
  BY <1>4, <1>7 DEF Assigned
<1> QED
  BY <1>2, <1>4, <1>5, <1>6, <1>8, <1>9, <1>10 DEF GuessEffect, Guess, q

AssumeEffect ==
  \E lit \in instance.assumptions :
    /\ lit \in LiteralsOf(Atoms) /\ Unassigned(propagation, lit)
    /\ Grows(propagation, lit, 0, NoCause, propagation')
    /\ Nogoods(propagation') = Nogoods(propagation)
    /\ pc = "assuming"
    /\ RestSame

LEMMA SetAssumptionDoes ==
  ASSUME CDNLInv, SetAssumption
  PROVE  AssumeEffect
<1> DEFINE p == propagation
           q == propagation'
<1>1. /\ RecordOK(p) /\ AssignmentOK(p, Atoms) /\ AtomsOK(Atoms) /\ InstanceOK /\ LevelsOK
  BY InstanceType DEF CDNLInv, PropagationOK
<1>2. PICK lit \in instance.assumptions \ Range(p.assignment) : q = SetFact(p, lit, 0, NoCause)
  BY DEF SetAssumption
<1>3. pc = "assuming" /\ RestSame /\ Range(p.assignment) \subseteq instance.assumptions
  BY <1>1 DEF SetAssumption, RestSame, LevelsOK
<1>4. lit \in LiteralsOf(Atoms) /\ Unassigned(p, lit)
  BY <1>1, <1>2, <1>3 DEF InstanceOK, Consistent, Unassigned, Satisfied, Falsified
<1> HIDE DEF p, q
<1>5. Assigned(p, lit, 0, NoCause, q)
  BY <1>1, <1>2, SetFactFields
<1>6. Grows(p, lit, 0, NoCause, q)
  BY <1>1, <1>4, <1>5, AssignedGrows
<1>7. Nogoods(q) = Nogoods(p)
  BY <1>5 DEF Assigned
<1> QED
  BY <1>3, <1>4, <1>6, <1>7 DEF AssumeEffect, p, q

FlipEffect ==
  /\ propagation' = propagation
  /\ currentDL > 0 /\ currentDL' = currentDL - 1 /\ exhaustedDL' = currentDL - 1
  /\ flipped' = Negation(decisionLiteral[currentDL])
  /\ \A n \in 1 .. currentDL - 1 : n \in 1 .. currentDL /\ decisionLiteral'[n] = decisionLiteral[n]
  /\ flipped = 0 /\ pc # "analysis" /\ pc # "assuming" /\ pc # "complete"
  /\ Backtracking' /\ instance' = instance /\ models' = models /\ ~Backtracking
  /\ \/ pc = "idle" /\ Complete(propagation)
     \/ pc = "propagating" /\ \E ng \in Nogoods(propagation) : ng \subseteq Facts

\* A contradictory nogood.
LEMMA ConflictNogood ==
  ASSUME CDNLInv, NEW ng \in propagation.contradictoryNogoods
  PROVE  ng \in Nogoods(propagation) /\ ng \subseteq Facts
<1>1. ng \in Nogoods(propagation) /\ WatchOK(propagation, ng)
  BY DEF CDNLInv, PropagationOK, WatchesOK
<1>2. ~Inactive(propagation, ng) /\ Free(propagation, ng) = {}
  BY <1>1 DEF WatchOK
<1> QED
  BY <1>1, <1>2 DEF Inactive, Free, Unassigned, Satisfied, Facts

LEMMA FlipDoes ==
  ASSUME CDNLInv, ConflictBelowExhausted \/ LeaveModel
  PROVE  FlipEffect
<1>1. currentDL > 0 /\ FlipDecisionLiteral /\ currentDL \in Nat
  BY DEF ConflictBelowExhausted, LeaveModel, CDNLInv, LevelsOK
<1>2. \A n \in 1 .. currentDL - 1 : n \in 1 .. currentDL /\ n # currentDL
  BY <1>1
<1>3. DOMAIN decisionLiteral = Atoms /\ \A n \in 1 .. currentDL : n \in Atoms
  BY DEF CDNLInv, DecisionsOK
<1>4. \A n \in 1 .. currentDL - 1 : decisionLiteral'[n] = decisionLiteral[n]
  BY <1>1, <1>2, <1>3 DEF FlipDecisionLiteral
<1>5. pc \in {"idle", "propagating"} /\ Backtracking' /\ ~Backtracking
  BY DEF ConflictBelowExhausted, LeaveModel, Conflict, Propagated, Backtracking
<1>6. flipped = 0
  BY <1>5 DEF CDNLInv, FlippedOK
<1>7. \/ pc = "idle" /\ Complete(propagation)
      \/ pc = "propagating" /\ \E ng \in Nogoods(propagation) : ng \subseteq Facts
  BY ConflictNogood DEF ConflictBelowExhausted, LeaveModel, Conflict, Propagated
<1> QED
  BY <1>1, <1>2, <1>4, <1>5, <1>6, <1>7 DEF FlipEffect, FlipDecisionLiteral

JumpEffect ==
  /\ SameFacts(propagation, propagation')
  /\ Nogoods(propagation') \subseteq Nogoods(propagation) \cup {analysis.learnedNogood}
  /\ BacktrackDL \in Nat /\ currentDL' \in {BacktrackDL, exhaustedDL} /\ BacktrackDL <= currentDL'
  /\ currentDL' \in Nat /\ currentDL' <= currentDL /\ exhaustedDL <= currentDL'
  /\ exhaustedDL' = exhaustedDL
  /\ \A n \in 1 .. currentDL' : n \in 1 .. currentDL /\ decisionLiteral'[n] = decisionLiteral[n]
  /\ flipped' = flipped /\ flipped = 0 /\ pc = "analysis" /\ pc' = "backtracking"
  /\ AnalysisContinues => /\ Implied(analysis.learnedNogood) = {}
                          /\ LatestDL(analysis.learnedNogood) = 0
  /\ instance' = instance /\ models' = models /\ analysis' = NoAnalysis

LEMMA BackjumpDoes ==
  ASSUME CDNLInv, Backjump
  PROVE  JumpEffect
<1> DEFINE p == propagation
           q == AddNogoods(p, {analysis.learnedNogood})
<1>1. /\ RecordOK(p) /\ currentDL \in Nat /\ exhaustedDL \in Nat /\ exhaustedDL <= currentDL
      /\ \A n \in 1 .. currentDL : n \in Atoms
  BY DEF CDNLInv, PropagationOK, LevelsOK, DecisionsOK
<1>2. /\ pc = "analysis" /\ propagation' = q /\ currentDL' = BackjumpLevel
      /\ decisionLiteral' = [dl \in Atoms |-> IF dl <= BackjumpLevel THEN decisionLiteral[dl] ELSE 0]
  BY DEF Backjump
<1>3. Extended(p, Accepted({analysis.learnedNogood}, Atoms), q)
  BY <1>1, AddNogoodsFields
<1> HIDE DEF q
<1>4. SameFacts(p, q) /\ Nogoods(q) \subseteq Nogoods(p) \cup {analysis.learnedNogood}
  BY <1>3 DEF Extended, SameFacts, Accepted
<1>5. BacktrackDL \in Nat /\ BacktrackDL <= currentDL
  BY <1>2, BacktrackDLType
<1>6. Max({BacktrackDL, exhaustedDL}) \in {BacktrackDL, exhaustedDL} /\ \A n \in {BacktrackDL, exhaustedDL} : n <= Max({BacktrackDL, exhaustedDL})
  BY <1>1, <1>5, GreatestElement
<1>7. /\ currentDL' \in {BacktrackDL, exhaustedDL} /\ BacktrackDL <= currentDL' /\ exhaustedDL <= currentDL'
      /\ currentDL' \in Nat /\ currentDL' <= currentDL
  BY <1>1, <1>2, <1>5, <1>6 DEF BackjumpLevel
<1>8. \A n \in 1 .. currentDL' : n \in 1 .. currentDL /\ n <= currentDL'
  BY <1>1, <1>7
<1>9. \A n \in 1 .. currentDL' : decisionLiteral'[n] = decisionLiteral[n]
  BY <1>1, <1>2, <1>8
<1>10. flipped = 0
  BY <1>2 DEF CDNLInv, FlippedOK, Backtracking
<1> QED
  BY <1>2, <1>4, <1>5, <1>7, <1>8, <1>9, <1>10 DEF JumpEffect, Backjump

\* The other steps, except restarts, leave the assignment and the levels alone.
QuietEffect ==
  /\ SameFacts(propagation, propagation')
  /\ currentDL' = currentDL /\ exhaustedDL' = exhaustedDL /\ decisionLiteral' = decisionLiteral
  /\ flipped' = flipped /\ instance' = instance
  /\ models' = models \/ ReturnModel
  /\ pc' = "assuming" <=> pc = "assuming" /\ ~AssumptionsSet
  /\ Backtracking' <=> Backtracking
  /\ pc' = "complete" => pc = "complete" \/ Complete(propagation)
  /\ pc' = "idle" => pc = "idle" \/ AssumptionsSet \/ ReturnModel
  /\ pc' = "exhausted" => pc = "exhausted" \/ ConflictAtDL0 \/ NoMoreModels
  /\ pc = "idle" => pc' = "idle" \/ GetNextModel \/ NoMoreModels
  /\ pc = "exhausted" => pc' = "exhausted"

LEMMA QuietDoes ==
  ASSUME CDNLInv, \/ PropagatorsLearn \/ NothingToGuess \/ StartAnalysis \/ ResolveImplied
                  \/ ConflictAtDL0 \/ ReturnModel \/ AssumptionsSet \/ GetNextModel \/ NoMoreModels \/ AddNogood
                  \/ Terminating \/ UNCHANGED vars
  PROVE  QuietEffect
<1>1. ASSUME NEW added, propagation' = AddNogoods(propagation, added)
      PROVE  SameFacts(propagation, propagation')
  <2>1. Extended(propagation, Accepted(added, Atoms), propagation')
    BY <1>1, AddNogoodsFields DEF CDNLInv, PropagationOK
  <2> QED
    BY <2>1 DEF Extended, SameFacts
<1>2. propagation' = propagation => SameFacts(propagation, propagation')
  BY DEF SameFacts
<1>3. CASE PropagatorsLearn
  <2>1. SameFacts(propagation, propagation') /\ pc = "propagating" /\ instance' = instance
    BY <1>1, <1>3 DEF PropagatorsLearn, NoConflict, Propagated
  <2>2. pc' = LoopOrReturn(propagation')
    BY <1>3 DEF PropagatorsLearn
  <2>3. pc' \in {"complete", "propagating"} /\ (pc' = "complete" => Complete(propagation))
    BY <2>1, <2>2 DEF SameFacts, LoopOrReturn, Complete
  <2> QED
    BY <1>3, <2>1, <2>3 DEF PropagatorsLearn, QuietEffect, Backtracking
<1>4. CASE NothingToGuess
  <2>1. SameFacts(propagation, propagation') /\ pc = "propagating" /\ Complete(propagation) /\ pc' = "complete"
    BY <1>1, <1>4 DEF NothingToGuess, NothingLearned, NoConflict, Propagated
  <2> QED
    BY <1>4, <2>1 DEF NothingToGuess, QuietEffect, Backtracking
<1>5. CASE StartAnalysis \/ ResolveImplied
  BY <1>2, <1>5 DEF StartAnalysis, ResolveImplied, QuietEffect, Conflict, Propagated, Backtracking
<1>6. CASE ConflictAtDL0 \/ ReturnModel \/ AssumptionsSet
  BY <1>2, <1>6 DEF ConflictAtDL0, ReturnModel, AssumptionsSet, QuietEffect, Conflict, Propagated, Backtracking
<1>7. CASE GetNextModel \/ NoMoreModels \/ AddNogood
  BY <1>2, <1>7 DEF GetNextModel, NoMoreModels, AddNogood, QuietEffect, Backtracking
<1>8. CASE Terminating \/ UNCHANGED vars
  <2>1. UNCHANGED vars
    BY <1>8 DEF Terminating
  <2>2. ~AssumptionsSet
    BY <2>1 DEF AssumptionsSet, vars
  <2> QED
    BY <2>1, <2>2, <1>2 DEF vars, QuietEffect, Backtracking
<1> QED
  BY <1>3, <1>4, <1>5, <1>6, <1>7, <1>8

RestartEffect ==
  /\ Range(propagation'.assignment) = {}
  /\ Nogoods(propagation') = Nogoods(propagation)
  /\ currentDL' = 0 /\ exhaustedDL' = 0 /\ flipped' = 0 /\ pc' = "assuming" /\ models' = {}
  /\ \E a \in Atoms : \A l \in instance'.assumptions : Address(l) # a
  /\ pc \in {"idle", "exhausted"}

LEMMA RestartDoes ==
  ASSUME CDNLInv, RestartWithAssumptions
  PROVE  RestartEffect
<1> DEFINE p == propagation
           q == InitWatchingStructures(Nogoods(p))
<1>1. /\ WatchesOK(p, Atoms, {}) /\ AtomsOK(Atoms) /\ InstanceOK /\ FlippedOK
  BY InstanceType DEF CDNLInv, PropagationOK
<1>2. /\ propagation' = q /\ currentDL' = 0 /\ exhaustedDL' = 0 /\ flipped' = flipped
      /\ pc' = "assuming" /\ models' = {} /\ pc \in {"idle", "exhausted"}
  BY DEF RestartWithAssumptions
<1>3. PICK assumptions \in SUBSET Literals :
        /\ Cardinality(assumptions) < Cardinality(Atoms)
        /\ instance' = [instance EXCEPT !.assumptions = assumptions, !.restarts = @ - 1]
  BY DEF RestartWithAssumptions
<1>4. Nogoods(p) \in SUBSET SUBSET Int /\ Accepted(Nogoods(p), Atoms) = Nogoods(p)
  BY <1>1 DEF WatchesOK, LiteralsOf, Accepted
<1>5. Range(q.assignment) = {} /\ Nogoods(q) = Nogoods(p)
  BY <1>1, <1>4, InitWatchingStructuresOK
<1>6. flipped = 0
  BY <1>1, <1>2 DEF FlippedOK, Backtracking
<1>7. instance'.assumptions = assumptions
  BY <1>1, <1>3 DEF InstanceOK
<1>8. assumptions \subseteq LiteralsOf(Atoms)
  <2>1. \A a \in Atoms : a \in Nat /\ a > 0
    BY <1>1 DEF AtomsOK
  <2> QED
    BY <2>1 DEF Literals, LiteralsOf, Address
<1>9. IsFiniteSet(assumptions) /\ IsFiniteSet(Atoms)
  <2>1. PICK n \in Nat : Atoms = 1 .. n
    BY <1>1 DEF AtomsOK
  <2>2. IsFiniteSet(LiteralsOf(Atoms)) /\ IsFiniteSet(1 .. n)
    BY <1>1, LiteralsType, FS_Interval
  <2> QED
    BY <2>1, <2>2, <1>8, FS_Subset
<1>10. \E a \in Atoms : \A l \in assumptions : Address(l) # a
  <2>1. SUFFICES ASSUME \A a \in Atoms : \E l \in assumptions : Address(l) = a PROVE FALSE
    OBVIOUS
  <2> DEFINE f == [l \in assumptions |-> Address(l)]
  <2>2. f \in Surjection(assumptions, Atoms)
    <3>1. f \in [assumptions -> Atoms]
      BY <1>8 DEF LiteralsOf
    <3>2. \A a \in Atoms : \E l \in assumptions : f[l] = a
      BY <2>1
    <3> QED
      BY <3>1, <3>2 DEF Surjection
  <2>3. Cardinality(Atoms) <= Cardinality(assumptions)
    BY <1>9, <2>2, FS_Surjection
  <2>4. Cardinality(Atoms) \in Nat /\ Cardinality(assumptions) \in Nat
    BY <1>9, FS_CardinalityType
  <2> QED
    BY <1>3, <2>3, <2>4
<1> HIDE DEF q
<1> QED
  BY <1>2, <1>5, <1>6, <1>7, <1>10 DEF RestartEffect

LEMMA Effects ==
  ASSUME CDNLInv, [Next]_vars
  PROVE  \/ PropagateEffect \/ ClearEffect \/ FinishEffect \/ GuessEffect \/ AssumeEffect
         \/ FlipEffect \/ JumpEffect \/ QuietEffect \/ RestartEffect
<1>1. CASE Propagate \/ BacktrackFact \/ FinishBacktracking \/ Guess \/ SetAssumption
  BY <1>1, PropagateDoes, BacktrackFactDoes, FinishDoes, GuessDoes, SetAssumptionDoes
<1>2. CASE ConflictBelowExhausted \/ LeaveModel \/ Backjump \/ RestartWithAssumptions
  BY <1>2, FlipDoes, BackjumpDoes, RestartDoes
<1>3. CASE \/ PropagatorsLearn \/ NothingToGuess \/ StartAnalysis \/ ResolveImplied
           \/ ConflictAtDL0 \/ ReturnModel \/ AssumptionsSet \/ GetNextModel \/ NoMoreModels \/ AddNogood
           \/ Terminating \/ UNCHANGED vars
  BY <1>3, QuietDoes
<1> QED
  BY <1>1, <1>2, <1>3 DEF Next, Search, Call

-----------------------------------------------------------------------------
(* Assumptions are facts of level 0, and complete assignments models.      *)

AssumptionsOK ==
  /\ pc = "assuming" => /\ models = {} /\ currentDL = 0 /\ exhaustedDL = 0
                        /\ \E a \in Atoms : \A l \in instance.assumptions : Address(l) # a
  /\ pc # "assuming" => \A l \in instance.assumptions : l \in Facts /\ LevelIn(propagation, l) = 0

LEMMA AssumptionsStep ==
  ASSUME CDNLInv, AssumptionsOK, [Next]_vars
  PROVE  AssumptionsOK'
<1>1. /\ currentDL \in Nat
      /\ \A l \in Facts : LevelIn(propagation, l) \in Nat /\ (~Backtracking => LevelIn(propagation, l) <= currentDL)
  BY FactsType
<1>2. ASSUME pc # "assuming", pc' # "assuming", instance' = instance,
             NEW facts, facts \subseteq Facts, \A l \in Facts : LevelIn(propagation, l) = 0 => l \in facts,
             facts \subseteq Range(propagation'.assignment), KeepsFacts(propagation, propagation', facts)
      PROVE  AssumptionsOK'
  BY <1>2 DEF AssumptionsOK, KeepsFacts, Facts, LevelIn
<1>3. SameFacts(propagation, propagation') =>
        Facts \subseteq Range(propagation'.assignment) /\ KeepsFacts(propagation, propagation', Facts)
  BY DEF SameFacts, Facts, KeepsFacts, LevelIn
<1>4. \A lit, dl, c : Grows(propagation, lit, dl, c, propagation') =>
        Facts \subseteq Range(propagation'.assignment) /\ KeepsFacts(propagation, propagation', Facts)
  BY DEF Grows, Facts
<1>5. CASE PropagateEffect \/ GuessEffect
  <2>1. PICK lit, dl, c : Grows(propagation, lit, dl, c, propagation')
    BY <1>5 DEF PropagateEffect, GuessEffect
  <2>2. pc # "assuming" /\ pc' # "assuming" /\ instance' = instance
    BY <1>5 DEF PropagateEffect, GuessEffect, RestSame, NoConflict, Propagated, LoopOrReturn
  <2> QED
    BY <2>1, <2>2, <1>2, <1>4
<1>6. CASE FinishEffect
  <2>1. pc # "assuming" /\ pc' # "assuming" /\ instance' = instance
    BY <1>6 DEF FinishEffect, Backtracking, LoopOrReturn
  <2>2. Facts \subseteq Range(propagation'.assignment) /\ KeepsFacts(propagation, propagation', Facts)
    BY <1>3, <1>4, <1>6 DEF FinishEffect, FlippedEffect
  <2> QED
    BY <2>1, <2>2, <1>2
<1>7. CASE ClearEffect
  <2>1. PICK lit \in Facts : LevelIn(propagation, lit) > currentDL /\ Shrinks(propagation, lit, propagation')
    BY <1>7 DEF ClearEffect
  <2> DEFINE facts == Range(propagation'.assignment)
  <2>2. facts \subseteq Facts /\ KeepsFacts(propagation, propagation', facts)
    BY <2>1 DEF Shrinks, Facts
  <2>3. \A l \in Facts : LevelIn(propagation, l) = 0 => l \in facts
    BY <2>1, <1>1 DEF Shrinks, Facts
  <2>4. pc # "assuming" /\ pc' # "assuming" /\ instance' = instance
    BY <1>7 DEF ClearEffect, Backtracking, RestSame
  <2> QED
    BY <2>2, <2>3, <2>4, <1>2
<1>8. CASE AssumeEffect
  BY <1>8 DEF AssumeEffect, RestSame, AssumptionsOK, Atoms
<1>9. CASE FlipEffect \/ JumpEffect
  <2>1. pc # "assuming" /\ pc' # "assuming" /\ instance' = instance /\ SameFacts(propagation, propagation')
    BY <1>9 DEF FlipEffect, JumpEffect, Backtracking, SameFacts
  <2> QED
    BY <2>1, <1>2, <1>3
<1>10. CASE QuietEffect
  <2>1. CASE pc # "assuming"
    BY <2>1, <1>2, <1>3, <1>10 DEF QuietEffect, ReturnModel
  <2>2. CASE pc = "assuming" /\ ~AssumptionsSet
    BY <2>2, <1>10 DEF QuietEffect, ReturnModel, AssumptionsOK, Atoms
  <2>3. CASE AssumptionsSet
    <3>1. pc = "assuming" /\ pc' = "idle" /\ propagation' = propagation /\ instance' = instance
          /\ \A l \in instance.assumptions : l \in Facts
      BY <2>3 DEF AssumptionsSet, Facts
    <3>2. ~Backtracking /\ currentDL = 0
      BY <3>1 DEF AssumptionsOK, Backtracking
    <3>3. \A l \in Facts : LevelIn(propagation, l) = 0
      BY <3>2, <1>1
    <3> QED
      BY <3>1, <3>3 DEF AssumptionsOK, Facts
  <2> QED
    BY <2>1, <2>2, <2>3
<1>11. CASE RestartEffect
  <2>1. Atoms' = Atoms
    BY ProblemStays
  <2> QED
    BY <2>1, <1>11 DEF RestartEffect, AssumptionsOK
<1> QED
  BY <1>5, <1>6, <1>7, <1>8, <1>9, <1>10, <1>11, Effects

CompleteOK ==
  /\ models \subseteq Assignments(Atoms)
  /\ pc = "complete" => Complete(propagation)
  /\ pc = "idle" /\ Complete(propagation) => Facts \in models

LEMMA SameComplete ==
  ASSUME SameFacts(propagation, propagation'), instance' = instance
  PROVE  Complete(propagation)' <=> Complete(propagation)
BY DEF SameFacts, Complete, Atoms

LEMMA CompleteStep ==
  ASSUME CDNLInv, AssumptionsOK, CompleteOK, [Next]_vars
  PROVE  CompleteOK'
<1>1. AtomsOK(Atoms) /\ AssignmentOK(propagation, Atoms) /\ Atoms' = Atoms
  BY InstanceType, ProblemStays DEF CDNLInv, PropagationOK
<1>2. ASSUME models' = models \/ models' = {}, pc' # "idle", pc' # "complete"
      PROVE  CompleteOK'
  BY <1>1, <1>2 DEF CompleteOK
<1>3. CASE PropagateEffect \/ ClearEffect \/ AssumeEffect
  BY <1>2, <1>3 DEF PropagateEffect, ClearEffect, AssumeEffect, RestSame, Backtracking
<1>4. CASE FlipEffect \/ JumpEffect
  BY <1>2, <1>4 DEF FlipEffect, JumpEffect, Backtracking
<1>5. CASE RestartEffect
  BY <1>2, <1>5 DEF RestartEffect
<1>6. CASE FinishEffect \/ GuessEffect
  <2>1. models' = models /\ pc' = LoopOrReturn(propagation')
    BY <1>6 DEF FinishEffect, GuessEffect
  <2>2. pc' # "idle" /\ (pc' = "complete" => Complete(propagation)')
    BY <2>1, <1>1 DEF LoopOrReturn, Complete
  <2> QED
    BY <2>1, <2>2, <1>1 DEF CompleteOK
<1>7. CASE QuietEffect
  <2>1. /\ Complete(propagation)' <=> Complete(propagation)
        /\ Facts' = Facts
    BY <1>7, SameComplete DEF QuietEffect, SameFacts, Facts
  <2>2. pc' = "complete" => Complete(propagation)'
    BY <2>1, <1>7 DEF QuietEffect, CompleteOK
  <2>3. models' \subseteq Assignments(Atoms)
    <3>1. ReturnModel => models' = models \cup {Facts} /\ Complete(propagation)
      BY DEF ReturnModel, CompleteOK, Facts
    <3> QED
      BY <3>1, <1>1, <1>7, CompleteIsAssignment DEF QuietEffect, CompleteOK, Facts
  <2>4. ASSUME pc' = "idle", Complete(propagation) PROVE Facts \in models'
    <3>1. CASE ReturnModel
      BY <3>1 DEF ReturnModel, Facts
    <3>2. CASE AssumptionsSet
      <4>1. pc = "assuming" /\ Facts \subseteq instance.assumptions
        BY <3>2 DEF AssumptionsSet, CDNLInv, LevelsOK, Facts
      <4> QED
        BY <4>1, <2>4, <1>1, CompleteAssigns DEF AssumptionsOK, Facts
    <3>3. CASE pc = "idle"
      BY <3>3, <2>4, <1>7 DEF QuietEffect, ReturnModel, CompleteOK
    <3> QED
      BY <3>1, <3>2, <3>3, <2>4, <1>7 DEF QuietEffect
  <2> QED
    BY <2>1, <2>2, <2>3, <2>4, <1>1 DEF CompleteOK
<1> QED
  BY <1>3, <1>4, <1>5, <1>6, <1>7, Effects

-----------------------------------------------------------------------------
(* No model is missed.                                                     *)

\* Nogoods that are learned or come late make no solution required.
LEMMA RequiredShrinks ==
  ASSUME CDNLInv, [Next]_vars, instance' = instance
  PROVE  Required' \subseteq Required
<1>1. Given' = Given /\ Nogoods(propagation) \subseteq Nogoods(propagation')
  BY ProblemStays, NogoodsGrow DEF NogoodsKept
<1>2. Learned \subseteq Learned'
  BY <1>1 DEF Learned, Nogoods
<1> QED
  BY <1>2 DEF Required, UnderAssumptions, Allowed

\* All facts follow from the decisions and flipped literals.
LEMMA AllFactsFollow ==
  ASSUME CDNLInv, MissedOK, ~Backtracking, NEW S \in Required \ models, On(S, decisionLiteral, currentDL)
  PROVE  Facts \subseteq S
<1>1. currentDL \in Nat /\ \A l \in Facts : LevelIn(propagation, l) <= currentDL
  BY FactsType
<1>2. currentDL \in 0 .. currentDL
  BY <1>1
<1>3. Follows(S, propagation, currentDL)
  BY <1>2 DEF MissedOK
<1> QED
  BY <1>1, <1>2, <1>3, FactsFollow

\* The facts of a violated nogood, and those of a returned model, are not part of S.
LEMMA FactsNotAll ==
  ASSUME CDNLInv, CompleteOK, NEW S \in Required \ models,
         \/ pc = "idle" /\ Complete(propagation)
         \/ \E ng \in Nogoods(propagation) : ng \subseteq Facts
  PROVE  ~Facts \subseteq S
<1>1. S \in Assignments(Atoms) /\ Respects(S, Nogoods(propagation))
  BY RequiredType
<1>2. CASE pc = "idle" /\ Complete(propagation)
  <2>1. Facts \in models /\ Facts \in Assignments(Atoms) /\ AtomsOK(Atoms)
    BY <1>2, InstanceType DEF CompleteOK, CDNLInv
  <2> QED
    BY <2>1, <1>1, AssignmentsApart
<1>3. CASE \E ng \in Nogoods(propagation) : ng \subseteq Facts
  BY <1>1, <1>3 DEF Respects
<1> QED
  BY <1>2, <1>3

LEMMA MissedStep ==
  ASSUME CDNLInv, AssumptionsOK, CompleteOK, MissedOK, [Next]_vars
  PROVE  MissedOK'
<1> DEFINE p == propagation
           q == propagation'
<1>1. currentDL \in Nat /\ \A l \in Facts : LevelIn(p, l) \in Nat
  BY FactsType
<1>2. CASE RestartEffect
  <2>1. Range(q.assignment) = {} /\ flipped' = 0
    BY <1>2 DEF RestartEffect
  <2> QED
    BY <2>1 DEF MissedOK, Follows
<1>3. SUFFICES ASSUME ~RestartEffect, NEW S \in Required' \ models', NEW dl \in 0 .. currentDL', On(S, decisionLiteral', dl)
               PROVE  /\ Follows(S, q, dl)
                      /\ flipped' # 0 /\ dl = currentDL' => flipped' \in S
  BY <1>2 DEF MissedOK
<1>4. instance' = instance /\ models \subseteq models'
  BY <1>3, Effects DEF PropagateEffect, ClearEffect, FinishEffect, GuessEffect, AssumeEffect, FlipEffect, JumpEffect,
     QuietEffect, RestSame, ReturnModel
<1>5. S \in Required \ models /\ dl \in Nat
  BY <1>1, <1>3, <1>4, RequiredShrinks
<1>6. ASSUME dl <= currentDL, \A n \in 1 .. dl : decisionLiteral'[n] = decisionLiteral[n]
      PROVE  /\ dl \in 0 .. currentDL /\ On(S, decisionLiteral, dl) /\ Follows(S, p, dl)
             /\ flipped # 0 /\ dl = currentDL => flipped \in S
  <2>1. dl \in 0 .. currentDL /\ On(S, decisionLiteral, dl)
    BY <1>1, <1>3, <1>5, <1>6 DEF On
  <2> QED
    BY <2>1, <1>5 DEF MissedOK
<1>7. ASSUME NEW lit, NEW c, NEW level, Grows(p, lit, level, c, q), Follows(S, p, dl),
             (level <= dl /\ c = NoCause) => lit \in S
      PROVE  Follows(S, q, dl)
  BY <1>7 DEF Grows, Follows, KeepsFacts, LevelIn
<1>8. SameFacts(p, q) /\ Follows(S, p, dl) => Follows(S, q, dl)
  BY DEF SameFacts, Follows, LevelIn
<1>9. CASE PropagateEffect
  <2>1. PICK ng \in Nogoods(p), lit \in LiteralsOf(Atoms), level \in Nat :
          LastOf(lit, ng, level) /\ Grows(p, Negation(lit), level, ng, q)
    BY <1>9 DEF PropagateEffect
  <2>2. ng # NoCause
    BY <2>1 DEF LastOf, NoCause
  <2>3. currentDL' = currentDL /\ decisionLiteral' = decisionLiteral /\ flipped' = flipped
    BY <1>9 DEF PropagateEffect, RestSame
  <2> QED
    BY <2>1, <2>2, <2>3, <1>3, <1>6, <1>7
<1>10. CASE ClearEffect
  <2>1. PICK lit \in Facts : Shrinks(p, lit, q)
    BY <1>10 DEF ClearEffect
  <2>2. currentDL' = currentDL /\ decisionLiteral' = decisionLiteral /\ flipped' = flipped
    BY <1>10 DEF ClearEffect, RestSame
  <2>3. Follows(S, p, dl) => Follows(S, q, dl)
    BY <2>1 DEF Shrinks, Follows, KeepsFacts, LevelIn
  <2> QED
    BY <2>2, <2>3, <1>3, <1>6
<1>11. CASE FinishEffect
  <2>1. currentDL' = currentDL /\ decisionLiteral' = decisionLiteral /\ flipped' = 0
    BY <1>11 DEF FinishEffect
  <2>2. Follows(S, p, dl) /\ (flipped # 0 /\ dl = currentDL => flipped \in S) /\ dl <= currentDL
    BY <2>1, <1>1, <1>3, <1>6
  <2>3. CASE flipped = 0
    BY <2>1, <2>2, <2>3, <1>8, <1>11 DEF FinishEffect, FlippedEffect
  <2>4. CASE flipped # 0
    <3>1. Grows(p, flipped, currentDL, NoCause, q)
      BY <2>4, <1>11 DEF FinishEffect, FlippedEffect
    <3>2. currentDL <= dl => flipped \in S
      BY <2>2, <2>4, <1>1, <1>5
    <3> QED
      BY <2>1, <2>2, <3>1, <3>2, <1>7
  <2> QED
    BY <2>3, <2>4
<1>12. CASE GuessEffect
  <2>1. PICK lit \in LiteralsOf(Atoms) : /\ Grows(p, lit, currentDL + 1, NoCause, q)
                                         /\ decisionLiteral' = [decisionLiteral EXCEPT ![currentDL + 1] = lit]
                                         /\ currentDL + 1 \in DOMAIN decisionLiteral
    BY <1>12 DEF GuessEffect
  <2>2. currentDL' = currentDL + 1 /\ flipped' = 0
    BY <1>12 DEF GuessEffect, NoConflict, Propagated, CDNLInv, FlippedOK, Backtracking
  <2>3. CASE dl <= currentDL
    <3>1. \A n \in 1 .. dl : decisionLiteral'[n] = decisionLiteral[n]
      BY <2>1, <2>3, <1>1, <1>5
    <3>2. Follows(S, p, dl)
      BY <3>1, <2>3, <1>6
    <3>3. ~(currentDL + 1 <= dl)
      BY <2>3, <1>1, <1>5
    <3> QED
      BY <2>1, <2>2, <3>2, <3>3, <1>7
  <2>4. CASE dl = currentDL + 1
    <3>1. /\ \A n \in 1 .. currentDL : n \in 1 .. dl /\ decisionLiteral'[n] = decisionLiteral[n]
          /\ dl \in 1 .. dl /\ decisionLiteral'[dl] = lit
      BY <2>1, <2>4, <1>1, <1>5
    <3>2. On(S, decisionLiteral, currentDL) /\ lit \in S
      BY <3>1, <1>3 DEF On
    <3>3. ~Backtracking
      BY <1>12 DEF GuessEffect, NoConflict, Propagated, Backtracking
    <3>4. Facts \subseteq S
      BY <3>2, <3>3, <1>5, AllFactsFollow
    <3>5. Follows(S, p, dl)
      BY <3>4 DEF Follows, Facts
    <3> QED
      BY <2>1, <2>2, <3>2, <3>5, <1>7
  <2> QED
    BY <2>2, <2>3, <2>4, <1>1, <1>3
<1>13. CASE AssumeEffect
  <2>1. PICK lit \in instance.assumptions : Grows(p, lit, 0, NoCause, q)
    BY <1>13 DEF AssumeEffect
  <2>2. lit \in S
    BY <1>5, RequiredType
  <2>3. currentDL' = currentDL /\ decisionLiteral' = decisionLiteral /\ flipped' = flipped
    BY <1>13 DEF AssumeEffect, RestSame
  <2> QED
    BY <2>1, <2>2, <2>3, <1>3, <1>6, <1>7
<1>14. CASE FlipEffect
  <2>1. /\ q = p /\ currentDL > 0 /\ currentDL' = currentDL - 1
        /\ flipped' = Negation(decisionLiteral[currentDL])
        /\ \A n \in 1 .. currentDL - 1 : n \in 1 .. currentDL /\ decisionLiteral'[n] = decisionLiteral[n]
        /\ ~Backtracking
        /\ \/ pc = "idle" /\ Complete(propagation)
           \/ \E ng \in Nogoods(propagation) : ng \subseteq Facts
    BY <1>14 DEF FlipEffect
  <2>2. dl <= currentDL /\ \A n \in 1 .. dl : n \in 1 .. currentDL - 1
    BY <2>1, <1>1, <1>3
  <2>3. Follows(S, q, dl)
    BY <2>1, <2>2, <1>6
  <2>4. ASSUME dl = currentDL' PROVE flipped' \in S
    <3>1. ~On(S, decisionLiteral, currentDL)
      BY <2>1, <1>5, AllFactsFollow, FactsNotAll
    <3>2. \A n \in 1 .. currentDL : n \in 1 .. dl \/ n = currentDL
      BY <2>1, <2>4, <1>1
    <3>3. decisionLiteral[currentDL] \notin S
      BY <3>1, <3>2, <2>1, <2>4, <1>3 DEF On
    <3>4. decisionLiteral[currentDL] \in LiteralsOf(Atoms) /\ AtomsOK(Atoms) /\ S \in Assignments(Atoms)
      <4>1. currentDL \in 1 .. currentDL
        BY <2>1, <1>1
      <4> QED
        BY <4>1, <1>5, FactsType, RequiredType
    <3> QED
      BY <3>3, <3>4, <2>1, AssignmentsType
  <2> QED
    BY <2>3, <2>4
<1>15. CASE JumpEffect
  <2>1. dl <= currentDL /\ \A n \in 1 .. dl : n \in 1 .. currentDL'
    BY <1>15, <1>1, <1>3 DEF JumpEffect
  <2> QED
    BY <2>1, <1>6, <1>8, <1>15 DEF JumpEffect
<1>16. CASE QuietEffect
  <2>1. currentDL' = currentDL /\ decisionLiteral' = decisionLiteral /\ flipped' = flipped /\ SameFacts(p, q)
    BY <1>16 DEF QuietEffect
  <2>2. dl <= currentDL
    BY <2>1, <1>1, <1>3
  <2> QED
    BY <2>1, <2>2, <1>6, <1>8
<1> QED
  BY <1>3, <1>9, <1>10, <1>11, <1>12, <1>13, <1>14, <1>15, <1>16, Effects

-----------------------------------------------------------------------------
(* No model is returned twice.                                             *)

\* A model was left if it contains the decision literals up to some exhausted level
\* and not a fact of this level, or not the literal that is about to become one.
Excluded(M) ==
  \E dl \in 0 .. exhaustedDL :
    /\ On(M, decisionLiteral, dl)
    /\ \/ \E l \in Facts : Negation(l) \in M /\ LevelIn(propagation, l) = dl
       \/ flipped # 0 /\ Negation(flipped) \in M /\ dl = currentDL

FoundOK ==
  \A M \in models :
    \/ Excluded(M)
    \/ pc \in {"idle", "exhausted"} /\ Complete(propagation) /\ M = Facts

\* A flip leaves the model that contains all decision literals.
LEMMA FlipExcludes ==
  ASSUME CDNLInv, FlipEffect, NEW M, Excluded(M) \/ M = Facts
  PROVE  Excluded(M)'
<1> DEFINE lit == decisionLiteral[currentDL]
           top == currentDL - 1
<1>1. /\ propagation' = propagation /\ currentDL > 0 /\ currentDL' = top /\ exhaustedDL' = top
      /\ flipped' = Negation(lit) /\ flipped = 0
      /\ \A n \in 1 .. top : n \in 1 .. currentDL /\ decisionLiteral'[n] = decisionLiteral[n]
  BY DEF FlipEffect
<1>2. /\ currentDL \in Nat /\ top \in Nat /\ currentDL \in 1 .. currentDL
      /\ exhaustedDL \in Nat /\ exhaustedDL <= currentDL /\ AtomsOK(Atoms)
      /\ \A n \in 1 .. currentDL : decisionLiteral[n] \in Facts /\ decisionLiteral[n] \in LiteralsOf(Atoms)
  BY <1>1, FactsType
<1>3. Negation(Negation(lit)) = lit /\ Negation(lit) # 0
  BY <1>2, LiteralsType
<1>4. ASSUME On(M, decisionLiteral, currentDL) PROVE Excluded(M)'
  <2>1. lit \in M /\ On(M, decisionLiteral', top)
    BY <1>1, <1>2, <1>4 DEF On
  <2>2. top \in 0 .. exhaustedDL' /\ flipped' # 0 /\ Negation(flipped') \in M /\ top = currentDL'
    BY <1>1, <1>2, <1>3, <2>1
  <2> QED
    BY <2>1, <2>2 DEF Excluded
<1>5. CASE M = Facts
  BY <1>2, <1>4, <1>5 DEF On
<1>6. CASE Excluded(M)
  <2>1. PICK dl \in 0 .. exhaustedDL : /\ On(M, decisionLiteral, dl)
                                       /\ \E l \in Facts : Negation(l) \in M /\ LevelIn(propagation, l) = dl
    BY <1>1, <1>6 DEF Excluded
  <2>2. CASE dl = currentDL
    BY <2>1, <2>2, <1>4
  <2>3. CASE dl # currentDL
    <3>1. dl \in 0 .. exhaustedDL' /\ \A n \in 1 .. dl : n \in 1 .. top
      BY <2>3, <1>1, <1>2
    <3>2. On(M, decisionLiteral', dl)
      BY <3>1, <2>1, <1>1 DEF On
    <3>3. \E l \in Facts' : Negation(l) \in M /\ LevelIn(propagation', l) = dl
      BY <2>1, <1>1 DEF Facts
    <3> QED
      BY <3>1, <3>2, <3>3 DEF Excluded
  <2> QED
    BY <2>2, <2>3
<1> QED
  BY <1>5, <1>6

\* Every other step keeps what excludes a model.
LEMMA ExcludedStays ==
  ASSUME CDNLInv, [Next]_vars, ~FlipEffect, ~RestartEffect, NEW M, Excluded(M)
  PROVE  Excluded(M)'
<1> DEFINE p == propagation
           q == propagation'
<1>1. /\ currentDL \in Nat /\ exhaustedDL \in Nat /\ exhaustedDL <= currentDL
      /\ \A l \in Facts : LevelIn(p, l) \in Nat
  BY FactsType
<1>2. PICK dl \in 0 .. exhaustedDL :
        /\ On(M, decisionLiteral, dl)
        /\ \/ \E l \in Facts : Negation(l) \in M /\ LevelIn(p, l) = dl
           \/ flipped # 0 /\ Negation(flipped) \in M /\ dl = currentDL
  BY DEF Excluded
<1>3. dl \in Nat /\ dl <= currentDL
  BY <1>1, <1>2
<1>4. exhaustedDL' = exhaustedDL /\ On(M, decisionLiteral', dl)
  <2>1. CASE \/ PropagateEffect \/ ClearEffect \/ FinishEffect \/ AssumeEffect \/ QuietEffect
    BY <2>1, <1>2 DEF PropagateEffect, ClearEffect, FinishEffect, AssumeEffect, QuietEffect, RestSame
  <2>2. CASE GuessEffect
    <3>1. PICK lit : decisionLiteral' = [decisionLiteral EXCEPT ![currentDL + 1] = lit] /\ exhaustedDL' = exhaustedDL
      BY <2>2 DEF GuessEffect
    <3>2. \A n \in 1 .. dl : decisionLiteral'[n] = decisionLiteral[n]
      BY <3>1, <1>1, <1>3
    <3> QED
      BY <3>1, <3>2, <1>2 DEF On
  <2>3. CASE JumpEffect
    <3>1. exhaustedDL' = exhaustedDL /\ exhaustedDL <= currentDL' /\ currentDL' \in Nat
          /\ \A n \in 1 .. currentDL' : decisionLiteral'[n] = decisionLiteral[n]
      BY <2>3 DEF JumpEffect
    <3>2. \A n \in 1 .. dl : n \in 1 .. currentDL'
      BY <3>1, <1>1, <1>2
    <3> QED
      BY <3>1, <3>2, <1>2 DEF On
  <2> QED
    BY <2>1, <2>2, <2>3, Effects
<1>5. ASSUME NEW l \in Facts', Negation(l) \in M, LevelIn(q, l) = dl PROVE Excluded(M)'
  BY <1>2, <1>4, <1>5 DEF Excluded
<1>6. ASSUME NEW l \in Facts, Negation(l) \in M, LevelIn(p, l) = dl PROVE Excluded(M)'
  <2>1. CASE \E lit, level, c : Grows(p, lit, level, c, q)
    BY <2>1, <1>5, <1>6 DEF Grows, KeepsFacts, Facts
  <2>2. CASE SameFacts(p, q)
    BY <2>2, <1>5, <1>6 DEF SameFacts, Facts, LevelIn
  <2>3. CASE ClearEffect
    <3>1. PICK lit \in Facts : LevelIn(p, lit) > currentDL /\ Shrinks(p, lit, q)
      BY <2>3 DEF ClearEffect
    <3>2. l # lit
      BY <3>1, <1>1, <1>3, <1>6
    <3> QED
      BY <3>1, <3>2, <1>5, <1>6 DEF Shrinks, KeepsFacts, Facts
  <2> QED
    BY <2>1, <2>2, <2>3, Effects DEF PropagateEffect, FinishEffect, FlippedEffect, GuessEffect, AssumeEffect,
       JumpEffect, QuietEffect
<1>7. ASSUME flipped # 0, Negation(flipped) \in M, dl = currentDL PROVE Excluded(M)'
  <2>1. CASE FinishEffect
    <3>1. Grows(p, flipped, currentDL, NoCause, q)
      BY <2>1, <1>7 DEF FinishEffect, FlippedEffect
    <3>2. flipped \in Facts' /\ LevelIn(q, flipped) = dl
      BY <3>1, <1>7 DEF Grows, Facts
    <3> QED
      BY <3>2, <1>5, <1>7
  <2>2. CASE ~FinishEffect
    <3>1. Backtracking
      BY <1>7 DEF CDNLInv, FlippedOK
    <3>2. flipped' = flipped /\ currentDL' = currentDL
      BY <2>2, <1>7, <3>1, Effects DEF PropagateEffect, ClearEffect, AssumeEffect, QuietEffect, RestSame,
         GuessEffect, NoConflict, Propagated, JumpEffect, Backtracking
    <3> QED
      BY <3>2, <1>2, <1>4, <1>7 DEF Excluded
  <2> QED
    BY <2>1, <2>2
<1> QED
  BY <1>2, <1>6, <1>7

LEMMA FoundStep ==
  ASSUME CDNLInv, CompleteOK, FoundOK, [Next]_vars
  PROVE  FoundOK'
<1>1. SUFFICES ASSUME ~RestartEffect, NEW M \in models'
               PROVE  Excluded(M)' \/ (pc' \in {"idle", "exhausted"} /\ Complete(propagation)' /\ M = Facts')
  BY DEF FoundOK, RestartEffect
<1>2. CASE QuietEffect
  <2>1. (Complete(propagation)' <=> Complete(propagation)) /\ Facts' = Facts
    BY <1>2, SameComplete DEF QuietEffect, SameFacts, Facts
  <2>2. CASE ReturnModel
    <3>1. pc' = "idle" /\ Complete(propagation) /\ (M = Facts \/ M \in models) /\ pc \notin {"idle", "exhausted"}
      BY <2>2, <1>1 DEF ReturnModel, CompleteOK, Facts
    <3>2. CASE M = Facts
      BY <3>1, <3>2, <2>1
    <3>3. CASE M \in models
      <4>1. Excluded(M) /\ ~FlipEffect
        BY <3>1, <3>3, <1>2, <2>2 DEF FoundOK, FlipEffect, ReturnModel
      <4> QED
        BY <4>1, <1>1, ExcludedStays
    <3> QED
      BY <3>1, <3>2, <3>3
  <2>3. CASE ~ReturnModel
    <3>1. M \in models
      BY <2>3, <1>1, <1>2 DEF QuietEffect
    <3>2. CASE Excluded(M)
      BY <3>2, <1>1, FlipExcludes, ExcludedStays
    <3>3. CASE pc \in {"idle", "exhausted"} /\ Complete(propagation) /\ M = Facts
      <4>1. pc' \in {"idle", "exhausted"}
        BY <3>3, <1>2 DEF QuietEffect, GetNextModel, NoMoreModels
      <4> QED
        BY <4>1, <3>3, <2>1
    <3> QED
      BY <3>1, <3>2, <3>3 DEF FoundOK
  <2> QED
    BY <2>2, <2>3
<1>3. CASE FlipEffect
  <2>1. M \in models
    BY <1>1, <1>3 DEF FlipEffect
  <2> QED
    BY <2>1, <1>3, FlipExcludes DEF FoundOK
<1>4. CASE ~QuietEffect /\ ~FlipEffect
  <2>1. M \in models /\ pc \notin {"idle", "exhausted"}
    BY <1>1, <1>4, Effects DEF PropagateEffect, ClearEffect, FinishEffect, GuessEffect, AssumeEffect, RestSame,
       JumpEffect, NoConflict, Propagated, Backtracking
  <2>2. Excluded(M)
    BY <2>1 DEF FoundOK
  <2> QED
    BY <2>2, <1>1, <1>4, ExcludedStays
<1> QED
  BY <1>2, <1>3, <1>4

\* The assignment that is to be returned was not returned before.
LEMMA ModelIsNew ==
  ASSUME CDNLInv, FoundOK, pc = "complete"
  PROVE  Facts \notin models
<1>1. SUFFICES ASSUME Excluded(Facts) PROVE FALSE
  BY DEF FoundOK
<1>2. flipped = 0
  BY DEF CDNLInv, FlippedOK, Backtracking
<1>3. \E l \in Facts : Negation(l) \in Facts
  BY <1>1, <1>2 DEF Excluded
<1> QED
  BY <1>3, FactsType

-----------------------------------------------------------------------------
(* What is returned satisfies the nogoods, if none comes late.             *)

FactsBelow(p, bound) == {l \in Range(p.assignment) : LevelIn(p, l) < bound}

\* The facts below some level falsify a literal of the nogood, or leave two of them open.
OpenBelow(p, ng, bound) ==
  \/ \E l \in ng : Negation(l) \in FactsBelow(p, bound)
  \/ Many({l \in ng : l \notin FactsBelow(p, bound) /\ Negation(l) \notin FactsBelow(p, bound)})

\* The levels above the exhausted ones are those of a search without chronological
\* flips: they were assigned in their order, and propagation was complete on each
\* before the next one began.
AboveExhausted ==
  \A dl \in exhaustedDL + 1 .. currentDL :
    LevelsInOrder(propagation, dl) /\ \A ng \in Nogoods(propagation) : OpenBelow(propagation, ng, dl)

\* The highest exhausted level has a flipped literal besides its decision literal.
ExhaustedOK ==
  flipped = 0 /\ exhaustedDL > 0 =>
    \E l \in Facts : LevelIn(propagation, l) = exhaustedDL /\ l # decisionLiteral[exhaustedDL]

\* An atom that backtracking will leave unassigned.
LeavesOpen(atom) == \A l \in Facts : Address(l) = atom => LevelIn(propagation, l) > currentDL

\* A flip completes the assignment only if no nogood can be violated by it.
FlipOK ==
  /\ flipped # 0 => exhaustedDL = currentDL
  /\ flipped # 0 => \/ \E atom \in Atoms : atom # Address(flipped) /\ LeavesOpen(atom)
                    \/ \A ng \in Nogoods(propagation) : OpenBelow(propagation, ng, currentDL + 1)
  /\ Backtracking /\ flipped = 0 => \E atom \in Atoms : LeavesOpen(atom)

\* The nogood of the analysis has a literal of the current level, and one of the level
\* to jump to.
AnalysisAt ==
  pc = "analysis" =>
    LET ng == analysis.learnedNogood
    IN  /\ exhaustedDL < currentDL /\ analysis.backtrackDL < currentDL
        /\ \E l \in ng : LevelIn(propagation, l) = currentDL
        /\ analysis.backtrackDL # 0 => \E l \in ng : LevelIn(propagation, l) = analysis.backtrackDL

SatisfiedOK == pc = "complete" => Respects(Facts, Nogoods(propagation))

Sound == AboveExhausted /\ ExhaustedOK /\ FlipOK /\ AnalysisAt /\ SatisfiedOK

LEMMA NogoodsSame ==
  ASSUME CDNLInv, Late = {}, [Next]_vars, ~JumpEffect
  PROVE  Nogoods(propagation') = Nogoods(propagation)
BY NogoodsGrow, BackjumpDoes DEF NogoodsKept

\* What is open below a level depends on the facts below it only.
LEMMA BelowSame ==
  ASSUME NEW p, NEW q, NEW bound,
         \/ SameFacts(p, q)
         \/ \E lit, dl, c : Grows(p, lit, dl, c, q) /\ ~(dl < bound)
         \/ \E lit : Shrinks(p, lit, q) /\ ~(LevelIn(p, lit) < bound)
  PROVE  FactsBelow(q, bound) = FactsBelow(p, bound)
<1>1. CASE SameFacts(p, q)
  BY <1>1 DEF SameFacts, FactsBelow, LevelIn
<1>2. ASSUME NEW lit, NEW dl, NEW c, Grows(p, lit, dl, c, q), ~(dl < bound)
      PROVE  FactsBelow(q, bound) = FactsBelow(p, bound)
  BY <1>2 DEF Grows, KeepsFacts, FactsBelow
<1>3. ASSUME NEW lit, Shrinks(p, lit, q), ~(LevelIn(p, lit) < bound)
      PROVE  FactsBelow(q, bound) = FactsBelow(p, bound)
  BY <1>3 DEF Shrinks, KeepsFacts, FactsBelow
<1> QED
  BY <1>1, <1>2, <1>3

LEMMA OpenSame ==
  ASSUME NEW p, NEW q, NEW bound, FactsBelow(q, bound) = FactsBelow(p, bound), NEW ng, OpenBelow(p, ng, bound)
  PROVE  OpenBelow(q, ng, bound)
BY DEF OpenBelow

\* After propagation nogoods are open or falsified.
LEMMA PropagatedOpen ==
  ASSUME CDNLInv, NoConflict, NEW ng \in Nogoods(propagation), NEW bound, \A l \in Facts : LevelIn(propagation, l) < bound
  PROVE  OpenBelow(propagation, ng, bound)
<1>1. WatchOK(propagation, ng) /\ propagation.unitNogoods = {} /\ propagation.contradictoryNogoods = {}
  BY DEF NoConflict, Propagated, CDNLInv, PropagationOK, WatchesOK
<1>2. Inactive(propagation, ng) \/ (Free(propagation, ng) # {} /\ ~One(Free(propagation, ng)))
  BY <1>1 DEF WatchOK
<1>3. FactsBelow(propagation, bound) = Facts
  BY DEF FactsBelow, Facts
<1>4. CASE Inactive(propagation, ng)
  BY <1>3, <1>4 DEF Inactive, Falsified, OpenBelow, Facts
<1>5. CASE Free(propagation, ng) # {} /\ ~One(Free(propagation, ng))
  <2>1. Many(Free(propagation, ng))
    BY <1>5 DEF One, Many
  <2>2. Free(propagation, ng) = {l \in ng : l \notin Facts /\ Negation(l) \notin Facts}
    BY DEF Free, Unassigned, Satisfied, Falsified, Facts
  <2> QED
    BY <2>1, <2>2, <1>3 DEF OpenBelow
<1> QED
  BY <1>2, <1>4, <1>5

\* A unit nogood implies a literal of no level that is below an open one.
LEMMA ImpliedLevel ==
  ASSUME CDNLInv, NEW ng, NEW lit, NEW dl \in Nat, LastOf(lit, ng, dl),
         NEW bound \in Nat, OpenBelow(propagation, ng, bound)
  PROVE  dl >= bound
<1>1. \A l \in ng \ {lit} : l \in Facts /\ LevelIn(propagation, l) <= dl /\ LevelIn(propagation, l) \in Nat
  BY FactsType DEF LastOf
<1>2. \A l \in ng : Negation(l) \notin Facts
  <2>1. Negation(lit) \notin Facts
    BY DEF LastOf, Unassigned, Falsified, Facts
  <2> QED
    BY <2>1, <1>1, FactsType
<1>3. FactsBelow(propagation, bound) \subseteq Facts
  BY DEF FactsBelow, Facts
<1>4. Many({l \in ng : l \notin FactsBelow(propagation, bound) /\ Negation(l) \notin FactsBelow(propagation, bound)})
  BY <1>2, <1>3 DEF OpenBelow
<1>5. PICK l \in ng \ {lit} : l \notin FactsBelow(propagation, bound)
  BY <1>4 DEF Many
<1>6. l \in Facts /\ LevelIn(propagation, l) <= dl /\ LevelIn(propagation, l) \in Nat /\ ~(LevelIn(propagation, l) < bound)
  BY <1>1, <1>5 DEF FactsBelow, Facts
<1> QED
  BY <1>6

\* An open nogood cannot be violated by one more literal.
LEMMA StaysOpen ==
  ASSUME CDNLInv, NEW ng, NEW bound, OpenBelow(propagation, ng, bound),
         \A l \in Facts : LevelIn(propagation, l) < bound,
         NEW lit, Unassigned(propagation, lit)
  PROVE  ~ng \subseteq Facts \cup {lit}
<1>1. FactsBelow(propagation, bound) = Facts
  BY DEF FactsBelow, Facts
<1>2. CASE \E l \in ng : Negation(l) \in Facts
  <2>1. PICK l \in ng : Negation(l) \in Facts
    BY <1>2
  <2>2. l \notin Facts /\ l # lit
    BY <2>1, FactsType DEF Unassigned, Falsified, Facts
  <2> QED
    BY <2>1, <2>2
<1>3. CASE Many({l \in ng : l \notin Facts /\ Negation(l) \notin Facts})
  BY <1>3 DEF Many
<1> QED
  BY <1>1, <1>2, <1>3 DEF OpenBelow

\* The steps of conflict analysis, the current level being above the exhausted ones.
LEMMA LatestIsCurrent ==
  ASSUME CDNLInv, AboveExhausted, AnalysisAt, pc = "analysis"
  PROVE  LatestDL(analysis.learnedNogood) = currentDL
<1> DEFINE p == propagation
           ng == analysis.learnedNogood
           positions == {i \in DOMAIN p.assignment : p.assignment[i] \in ng}
           last == Max(positions)
<1>1. /\ currentDL \in Nat /\ exhaustedDL \in Nat /\ exhaustedDL < currentDL
      /\ \A l \in Facts : LevelIn(p, l) \in Nat /\ LevelIn(p, l) <= currentDL
      /\ ng \subseteq Facts
  BY FactsType DEF AnalysisAt, Backtracking, CDNLInv, AnalysisOK, Facts
<1>2. LevelsInOrder(p, currentDL)
  BY <1>1 DEF AboveExhausted
<1>3. PICK l \in ng : LevelIn(p, l) = currentDL
  BY DEF AnalysisAt
<1>4. PICK i \in DOMAIN p.assignment : p.assignment[i] = l
  BY <1>1, <1>3 DEF Facts, Range
<1>5. positions \in SUBSET Nat /\ i \in positions /\ Len(p.assignment) \in Nat /\ \A n \in positions : n <= Len(p.assignment)
  <2>1. p.assignment \in Seq(LiteralsOf(Atoms)) /\ DOMAIN p.assignment = 1 .. Len(p.assignment) /\ Len(p.assignment) \in Nat
    BY DEF CDNLInv, PropagationOK, AssignmentOK
  <2> QED
    BY <2>1, <1>3, <1>4
<1>6. last \in positions /\ i <= last
  <2> HIDE DEF positions
  <2> QED
    BY <1>5, GreatestElement
<1>7. last \in DOMAIN p.assignment /\ p.assignment[last] \in Facts
  BY <1>6 DEF Facts, Range
<1>8. LevelIn(p, p.assignment[last]) >= currentDL
  <2>1. CASE i = last
    BY <2>1, <1>1, <1>3, <1>4
  <2>2. CASE i # last
    <3>1. i < last /\ LevelIn(p, p.assignment[i]) >= currentDL
      BY <2>2, <1>1, <1>3, <1>4, <1>5, <1>6
    <3> QED
      BY <3>1, <1>2, <1>4, <1>7 DEF LevelsInOrder
  <2> QED
    BY <2>1, <2>2
<1>9. LevelIn(p, p.assignment[last]) = currentDL
  BY <1>1, <1>7, <1>8
<1> HIDE DEF last, positions
<1>10. LatestDL(ng) = LevelIn(p, p.assignment[last])
  BY DEF LatestDL, last, positions, LevelIn, Level
<1> QED
  BY <1>9, <1>10

\* The level to jump to is one of another literal.
LEMMA BacktrackDLBelow ==
  ASSUME CDNLInv, AboveExhausted, AnalysisAt, pc = "analysis"
  PROVE  /\ BacktrackDL \in Nat /\ BacktrackDL < currentDL
         /\ BacktrackDL # 0 => \E l \in analysis.learnedNogood : LevelIn(propagation, l) = BacktrackDL
<1> DEFINE levels == {analysis.backtrackDL} \cup
                     {dl \in {Level(l) : l \in analysis.learnedNogood} : dl < LatestDL(analysis.learnedNogood)}
<1>1. /\ analysis.backtrackDL \in Nat /\ analysis.backtrackDL < currentDL /\ currentDL \in Nat
      /\ analysis.learnedNogood \subseteq Facts
  BY DEF CDNLInv, AnalysisOK, LevelsOK, AnalysisAt, Facts
<1>2. LatestDL(analysis.learnedNogood) = currentDL
  BY LatestIsCurrent
<1>3. \A l \in analysis.learnedNogood : Level(l) \in Nat /\ Level(l) = LevelIn(propagation, l)
  BY <1>1, FactsType DEF Level, LevelIn
<1>4. \A dl \in levels : /\ dl \in Nat /\ dl < currentDL
                         /\ dl # 0 => \E l \in analysis.learnedNogood : LevelIn(propagation, l) = dl
  <2>1. TAKE dl \in levels
  <2>2. CASE dl = analysis.backtrackDL
    BY <2>2, <1>1 DEF AnalysisAt
  <2>3. CASE dl # analysis.backtrackDL
    <3>1. PICK l \in analysis.learnedNogood : dl = Level(l) /\ dl < LatestDL(analysis.learnedNogood)
      BY <2>3
    <3> QED
      BY <3>1, <1>2, <1>3
  <2> QED
    BY <2>2, <2>3
<1>5. levels # {}
  OBVIOUS
<1>6. BacktrackDL = Max(levels)
  BY DEF BacktrackDL
<1> HIDE DEF levels
<1>7. Max(levels) \in levels
  <2>1. levels \in SUBSET Nat /\ \A dl \in levels : dl <= currentDL
    BY <1>1, <1>4
  <2> QED
    BY <2>1, <1>1, <1>5, GreatestElement
<1> QED
  BY <1>4, <1>6, <1>7

LEMMA AnalysisAtStep ==
  ASSUME CDNLInv, AboveExhausted, AnalysisAt, [Next]_vars
  PROVE  AnalysisAt'
<1> DEFINE p == propagation
<1>1. SUFFICES ASSUME pc' = "analysis" PROVE AnalysisAt'
  BY DEF AnalysisAt
<1>2. currentDL \in Nat /\ exhaustedDL \in Nat
  BY FactsType
<1>3. CASE StartAnalysis
  <2>1. PICK ng \in p.contradictoryNogoods : analysis' = [learnedNogood |-> ng, backtrackDL |-> 0]
    BY <1>3 DEF StartAnalysis
  <2>2. /\ p' = p /\ currentDL' = currentDL /\ exhaustedDL' = exhaustedDL /\ exhaustedDL < currentDL /\ ~Backtracking
    BY <1>2, <1>3 DEF StartAnalysis, Conflict, Propagated, Backtracking
  <2>3. ng \in Nogoods(p) /\ ng \subseteq Facts
    BY ConflictNogood
  <2>4. OpenBelow(p, ng, currentDL)
    BY <2>2, <2>3, <1>2 DEF AboveExhausted
  <2>5. FactsBelow(p, currentDL) \subseteq Facts /\ \A l \in ng : Negation(l) \notin Facts
    BY <2>3, FactsType DEF FactsBelow, Facts
  <2>6. PICK l \in ng : l \notin FactsBelow(p, currentDL)
    BY <2>4, <2>5 DEF OpenBelow, Many
  <2>7. LevelIn(p, l) = currentDL
    <3>1. l \in Facts /\ LevelIn(p, l) \in Nat /\ LevelIn(p, l) <= currentDL
      BY <2>2, <2>3, <2>6, FactsType
    <3>2. ~(LevelIn(p, l) < currentDL)
      BY <3>1, <2>6 DEF FactsBelow, Facts
    <3> QED
      BY <3>1, <3>2, <1>2
  <2> QED
    BY <2>1, <2>2, <2>6, <2>7, <1>2 DEF AnalysisAt
<1>4. CASE ResolveImplied
  <2> DEFINE ng == analysis.learnedNogood
  <2>1. PICK lit \in Implied(ng) :
          analysis' = [learnedNogood |-> Resolve(ng, p.cause[Address(lit)], lit), backtrackDL |-> BacktrackDL]
    BY <1>4 DEF ResolveImplied
  <2>2. /\ pc = "analysis" /\ p' = p /\ currentDL' = currentDL /\ exhaustedDL' = exhaustedDL
        /\ exhaustedDL < currentDL /\ ng \subseteq Facts
    BY <1>4 DEF ResolveImplied, AnalysisAt, CDNLInv, AnalysisOK, Facts
  <2>3. LatestDL(ng) = currentDL
    BY <2>2, LatestIsCurrent
  <2>4. lit \in AtLatestDL(ng) /\ lit \in ng /\ LevelIn(p, lit) = currentDL
    BY <2>3 DEF Implied, AtLatestDL, Level, LevelIn
  <2>5. \A l \in ng : l # lit => l \in analysis'.learnedNogood
    <3>1. \A l \in ng : l # Negation(lit)
      BY <2>2, <2>4, FactsType
    <3> QED
      BY <3>1, <2>1 DEF Resolve
  <2>6. PICK other \in AtLatestDL(ng) : other # lit
    <3>1. SUFFICES ASSUME AtLatestDL(ng) = {lit} PROVE FALSE
      BY <2>4
    <3>2. Cardinality(AtLatestDL(ng)) = 1
      BY <3>1, FS_Singleton
    <3> QED
      BY <3>2, <1>4 DEF ResolveImplied, AnalysisContinues
  <2>7. other \in analysis'.learnedNogood /\ LevelIn(p, other) = currentDL
    BY <2>3, <2>5, <2>6 DEF AtLatestDL, Level, LevelIn
  <2>8. /\ BacktrackDL < currentDL
        /\ BacktrackDL # 0 => \E l \in ng : LevelIn(p, l) = BacktrackDL
    BY <2>2, BacktrackDLBelow
  <2>9. \A l \in ng : LevelIn(p, l) = BacktrackDL => l # lit
    BY <2>2, <2>4, <2>8, BacktrackDLBelow
  <2> QED
    BY <2>1, <2>2, <2>5, <2>7, <2>8, <2>9 DEF AnalysisAt
<1>5. CASE ~StartAnalysis /\ ~ResolveImplied
  <2>1. pc = "analysis" /\ analysis' = analysis
    BY <1>1, <1>5, AnalysisKept
  <2>2. UNCHANGED vars
    BY <2>1, <1>1, <1>5 DEF Next, Search, Call, Propagate, PropagateUnit, BacktrackFact, SetAssumption, Backjump,
       FinishBacktracking, PropagatorsLearn, NothingToGuess, NothingLearned, Guess, NoConflict, RestartWithAssumptions,
       ConflictAtDL0, ReturnModel, AssumptionsSet, GetNextModel, NoMoreModels, AddNogood, Propagated, Conflict,
       ConflictBelowExhausted, LeaveModel, Terminating, Backtracking
  <2> QED
    BY <2>2 DEF vars, AnalysisAt
<1> QED
  BY <1>3, <1>4, <1>5

\* A backjump adds a nogood that is open below the level it jumps to.
LEMMA LearnedOpen ==
  ASSUME CDNLInv, AboveExhausted, AnalysisAt, JumpEffect
  PROVE  /\ currentDL' < currentDL
         /\ \A dl \in exhaustedDL + 1 .. currentDL' : OpenBelow(propagation, analysis.learnedNogood, dl)
<1> DEFINE p == propagation
           ng == analysis.learnedNogood
<1>1. /\ pc = "analysis" /\ currentDL' \in {BacktrackDL, exhaustedDL}
      /\ currentDL \in Nat /\ exhaustedDL \in Nat /\ exhaustedDL < currentDL
      /\ ng \subseteq Facts
  BY FactsType DEF JumpEffect, AnalysisAt, CDNLInv, AnalysisOK, Facts
<1>2. /\ BacktrackDL \in Nat /\ BacktrackDL < currentDL
      /\ BacktrackDL # 0 => \E l \in ng : LevelIn(p, l) = BacktrackDL
  BY <1>1, BacktrackDLBelow
<1>3. currentDL' < currentDL
  BY <1>1, <1>2
<1>4. ASSUME NEW dl \in exhaustedDL + 1 .. currentDL' PROVE OpenBelow(p, ng, dl)
  <2>1. currentDL' = BacktrackDL /\ BacktrackDL # 0 /\ dl <= BacktrackDL /\ dl \in Nat
    BY <1>1, <1>2, <1>4
  <2>2. PICK l \in ng : LevelIn(p, l) = BacktrackDL
    BY <2>1, <1>2
  <2>3. PICK m \in ng : LevelIn(p, m) = currentDL
    BY <1>1 DEF AnalysisAt
  <2>4. l # m /\ ~(LevelIn(p, l) < dl) /\ ~(LevelIn(p, m) < dl)
    BY <2>1, <2>2, <2>3, <1>1, <1>2
  <2>5. l \notin FactsBelow(p, dl) /\ m \notin FactsBelow(p, dl)
    BY <2>4 DEF FactsBelow
  <2>6. Negation(l) \notin Facts /\ Negation(m) \notin Facts /\ FactsBelow(p, dl) \subseteq Facts
    BY <1>1, FactsType DEF FactsBelow, Facts
  <2> QED
    BY <2>4, <2>5, <2>6 DEF OpenBelow, Many
<1> QED
  BY <1>3, <1>4

LEMMA AboveStep ==
  ASSUME CDNLInv, Late = {}, Sound, AssumptionsOK, [Next]_vars
  PROVE  AboveExhausted'
<1> DEFINE p == propagation
           q == propagation'
<1>1. /\ currentDL \in Nat /\ exhaustedDL \in Nat /\ exhaustedDL <= currentDL
      /\ \A l \in Facts : LevelIn(p, l) \in Nat
  BY FactsType
<1>2. ~JumpEffect => Nogoods(q) = Nogoods(p)
  BY NogoodsSame
<1>3. exhaustedDL' \in Nat /\ currentDL' \in Nat
  <2>1. CDNLInv'
    BY StepInvariant
  <2> QED
    BY <2>1 DEF CDNLInv, LevelsOK
<1>4. SUFFICES ASSUME NEW dl \in Nat, exhaustedDL' < dl, dl <= currentDL'
               PROVE  LevelsInOrder(q, dl) /\ \A ng \in Nogoods(q) : OpenBelow(q, ng, dl)
  <2>1. \A low, high \in Nat : \A dl \in low + 1 .. high : dl \in Nat /\ low < dl /\ dl <= high
    OBVIOUS
  <2>2. \A dl \in exhaustedDL' + 1 .. currentDL' : dl \in Nat /\ exhaustedDL' < dl /\ dl <= currentDL'
    BY <1>3, <2>1, Zenon
  <2> QED
    BY <1>4, <2>2 DEF AboveExhausted
<1>5. ASSUME exhaustedDL' = exhaustedDL, dl <= currentDL, Nogoods(q) = Nogoods(p),
             \/ SameFacts(p, q)
             \/ \E lit, level, c : Grows(p, lit, level, c, q) /\ level \in Nat /\ level >= dl
             \/ \E lit \in Facts : Shrinks(p, lit, q) /\ ~(LevelIn(p, lit) < dl)
      PROVE  LevelsInOrder(q, dl) /\ \A ng \in Nogoods(q) : OpenBelow(q, ng, dl)
  <2>1. LevelsInOrder(p, dl) /\ \A ng \in Nogoods(p) : OpenBelow(p, ng, dl)
    BY <1>1, <1>4, <1>5 DEF Sound, AboveExhausted
  <2>2. FactsBelow(q, dl) = FactsBelow(p, dl)
    <3>1. \A level \in Nat : level >= dl => ~(level < dl)
      BY <1>4
    <3> QED
      BY <3>1, <1>5, BelowSame
  <2>3. LevelsInOrder(q, dl)
    BY <2>1, <1>4, <1>5 DEF SameFacts, LevelsInOrder, LevelIn, Grows, Shrinks
  <2> QED
    BY <2>1, <2>2, <2>3, <1>5, OpenSame
<1>6. CASE PropagateEffect
  <2>1. PICK ng \in Nogoods(p), lit \in LiteralsOf(Atoms), level \in Nat :
          LastOf(lit, ng, level) /\ Grows(p, Negation(lit), level, ng, q)
    BY <1>6 DEF PropagateEffect
  <2>2. exhaustedDL' = exhaustedDL /\ currentDL' = currentDL /\ Nogoods(q) = Nogoods(p)
    BY <1>6 DEF PropagateEffect, RestSame
  <2>3. OpenBelow(p, ng, dl)
    BY <2>2, <1>1, <1>4 DEF Sound, AboveExhausted
  <2>4. level >= dl
    BY <2>1, <2>3, <1>4, ImpliedLevel
  <2> QED
    BY <2>1, <2>2, <2>4, <1>4, <1>5
<1>7. CASE ClearEffect
  <2>1. PICK lit \in Facts : LevelIn(p, lit) > currentDL /\ Shrinks(p, lit, q)
    BY <1>7 DEF ClearEffect
  <2>2. exhaustedDL' = exhaustedDL /\ currentDL' = currentDL /\ Nogoods(q) = Nogoods(p)
    BY <1>7 DEF ClearEffect, RestSame
  <2>3. ~(LevelIn(p, lit) < dl)
    BY <2>1, <2>2, <1>1, <1>4
  <2> QED
    BY <2>1, <2>2, <2>3, <1>4, <1>5
<1>8. CASE FinishEffect
  <2>1. exhaustedDL' = exhaustedDL /\ currentDL' = currentDL /\ ~JumpEffect
    BY <1>8 DEF FinishEffect, JumpEffect, Backtracking
  <2>2. flipped = 0
    <3>1. SUFFICES ASSUME flipped # 0 PROVE FALSE
      OBVIOUS
    <3>2. exhaustedDL = currentDL
      BY <3>1 DEF Sound, FlipOK
    <3> QED
      BY <3>2, <2>1, <1>1, <1>4
  <2>3. SameFacts(p, q)
    BY <2>2, <1>8 DEF FinishEffect, FlippedEffect
  <2> QED
    BY <2>1, <2>3, <1>2, <1>4, <1>5
<1>9. CASE GuessEffect
  <2>1. PICK lit \in LiteralsOf(Atoms) : Grows(p, lit, currentDL + 1, NoCause, q)
    BY <1>9 DEF GuessEffect
  <2>2. /\ exhaustedDL' = exhaustedDL /\ currentDL' = currentDL + 1 /\ Nogoods(q) = Nogoods(p)
        /\ currentDL + 1 \in Nat /\ NoConflict /\ ~Backtracking
    BY <1>1, <1>9 DEF GuessEffect, NoConflict, Propagated, Backtracking
  <2>3. CASE dl <= currentDL
    <3>1. currentDL + 1 >= dl
      BY <2>3, <1>1, <1>4
    <3> QED
      BY <3>1, <2>1, <2>2, <2>3, <1>5
  <2>4. CASE dl = currentDL + 1
    <3>1. \A l \in Facts : LevelIn(p, l) < dl
      <4>1. \A l \in Facts : LevelIn(p, l) <= currentDL
        BY <2>2, FactsType
      <4> QED
        BY <4>1, <2>4, <1>1
    <3>2. LevelsInOrder(q, dl)
      BY <3>1, <2>1, <1>4 DEF Grows, Facts
    <3>3. FactsBelow(q, dl) = FactsBelow(p, dl)
      <4>1. ~(currentDL + 1 < dl)
        BY <2>4, <1>1
      <4> QED
        BY <4>1, <2>1, BelowSame
    <3> QED
      BY <3>1, <3>2, <3>3, <2>2, PropagatedOpen, OpenSame
  <2> QED
    BY <2>2, <2>3, <2>4, <1>1, <1>4
<1>10. CASE AssumeEffect
  <2>1. currentDL' = 0
    BY <1>10 DEF AssumeEffect, RestSame, AssumptionsOK
  <2> QED
    BY <2>1, <1>3, <1>4
<1>11. CASE FlipEffect
  <2>1. currentDL' = exhaustedDL'
    BY <1>11 DEF FlipEffect
  <2> QED
    BY <2>1, <1>3, <1>4
<1>12. CASE RestartEffect
  <2>1. currentDL' = 0
    BY <1>12 DEF RestartEffect
  <2> QED
    BY <2>1, <1>3, <1>4
<1>13. CASE JumpEffect
  <2>1. /\ SameFacts(p, q) /\ exhaustedDL' = exhaustedDL /\ currentDL' <= currentDL
        /\ Nogoods(q) \subseteq Nogoods(p) \cup {analysis.learnedNogood}
    BY <1>13 DEF JumpEffect
  <2>2. dl \in exhaustedDL + 1 .. currentDL /\ dl \in exhaustedDL + 1 .. currentDL'
    BY <2>1, <1>1, <1>3, <1>4
  <2>3. LevelsInOrder(p, dl) /\ \A ng \in Nogoods(p) : OpenBelow(p, ng, dl)
    BY <2>2 DEF Sound, AboveExhausted
  <2>4. OpenBelow(p, analysis.learnedNogood, dl)
    BY <2>2, <1>13, LearnedOpen DEF Sound
  <2>5. LevelsInOrder(q, dl) /\ FactsBelow(q, dl) = FactsBelow(p, dl)
    BY <2>1, <2>3, BelowSame DEF SameFacts, LevelsInOrder, LevelIn
  <2> QED
    BY <2>1, <2>3, <2>4, <2>5, OpenSame
<1>14. CASE QuietEffect /\ ~JumpEffect
  BY <1>2, <1>4, <1>5, <1>14 DEF QuietEffect
<1> QED
  BY <1>6, <1>7, <1>8, <1>9, <1>10, <1>11, <1>12, <1>13, <1>14, Effects

LEMMA ExhaustedStep ==
  ASSUME CDNLInv, Sound, AssumptionsOK, [Next]_vars
  PROVE  ExhaustedOK'
<1> DEFINE p == propagation
           q == propagation'
<1>1. /\ currentDL \in Nat /\ exhaustedDL \in Nat /\ exhaustedDL <= currentDL
      /\ \A l \in Facts : LevelIn(p, l) \in Nat
      /\ \A n \in 1 .. currentDL : decisionLiteral[n] \in Facts
  BY FactsType
<1>2. SUFFICES ASSUME flipped' = 0, exhaustedDL' > 0
               PROVE  \E l \in Facts' : LevelIn(q, l) = exhaustedDL' /\ l # decisionLiteral'[exhaustedDL']
  BY DEF ExhaustedOK
<1>3. ASSUME flipped = 0, exhaustedDL' = exhaustedDL, decisionLiteral'[exhaustedDL] = decisionLiteral[exhaustedDL],
             \A l \in Facts : LevelIn(p, l) = exhaustedDL => l \in Facts' /\ LevelIn(q, l) = LevelIn(p, l)
      PROVE  \E l \in Facts' : LevelIn(q, l) = exhaustedDL' /\ l # decisionLiteral'[exhaustedDL']
  BY <1>2, <1>3 DEF Sound, ExhaustedOK
<1>5. SameFacts(p, q) => \A l \in Facts : l \in Facts' /\ LevelIn(q, l) = LevelIn(p, l)
  BY DEF SameFacts, Facts, LevelIn
<1>6. (\E lit, level, c : Grows(p, lit, level, c, q)) => \A l \in Facts : l \in Facts' /\ LevelIn(q, l) = LevelIn(p, l)
  BY DEF Grows, KeepsFacts, Facts
<1>7. CASE PropagateEffect \/ AssumeEffect
  BY <1>2, <1>3, <1>6, <1>7 DEF PropagateEffect, AssumeEffect, RestSame
<1>8. CASE ClearEffect
  <2>1. PICK lit \in Facts : LevelIn(p, lit) > currentDL /\ Shrinks(p, lit, q)
    BY <1>8 DEF ClearEffect
  <2>2. \A l \in Facts : LevelIn(p, l) = exhaustedDL => l \in Facts' /\ LevelIn(q, l) = LevelIn(p, l)
    <3>1. LevelIn(p, lit) # exhaustedDL
      BY <2>1, <1>1
    <3> QED
      BY <3>1, <2>1 DEF Shrinks, KeepsFacts, Facts
  <2> QED
    BY <2>2, <1>2, <1>3, <1>8 DEF ClearEffect, RestSame
<1>9. CASE FinishEffect
  <2>1. exhaustedDL' = exhaustedDL /\ decisionLiteral' = decisionLiteral
    BY <1>9 DEF FinishEffect
  <2>2. CASE flipped = 0
    BY <2>1, <2>2, <1>3, <1>5, <1>9 DEF FinishEffect, FlippedEffect
  <2>3. CASE flipped # 0
    <3>1. exhaustedDL = currentDL /\ Grows(p, flipped, currentDL, NoCause, q)
      BY <2>3, <1>9 DEF FinishEffect, FlippedEffect, Sound, FlipOK
    <3>2. flipped \in Facts' /\ LevelIn(q, flipped) = exhaustedDL' /\ flipped \notin Facts
      BY <3>1, <2>1 DEF Grows, Facts
    <3>3. decisionLiteral[exhaustedDL] \in Facts
      <4>1. exhaustedDL \in 1 .. currentDL
        BY <2>1, <1>1, <1>2
      <4> QED
        BY <4>1, <1>1
    <3> QED
      BY <3>2, <3>3, <2>1
  <2> QED
    BY <2>2, <2>3
<1>10. CASE GuessEffect
  <2>1. PICK lit \in LiteralsOf(Atoms) : /\ Grows(p, lit, currentDL + 1, NoCause, q)
                                         /\ decisionLiteral' = [decisionLiteral EXCEPT ![currentDL + 1] = lit]
    BY <1>10 DEF GuessEffect
  <2>2. exhaustedDL # currentDL + 1
    BY <1>1
  <2>3. decisionLiteral'[exhaustedDL] = decisionLiteral[exhaustedDL]
    BY <2>1, <2>2
  <2> QED
    BY <2>1, <2>3, <1>2, <1>3, <1>6, <1>10 DEF GuessEffect
<1>11. CASE FlipEffect
  <2>1. flipped' # 0
    <3>1. currentDL \in 1 .. currentDL /\ flipped' = Negation(decisionLiteral[currentDL])
      BY <1>1, <1>11 DEF FlipEffect
    <3>2. decisionLiteral[currentDL] \in LiteralsOf(Atoms) /\ AtomsOK(Atoms)
      BY <3>1, FactsType
    <3> QED
      BY <3>1, <3>2, LiteralsType
  <2> QED
    BY <2>1, <1>2
<1>12. CASE JumpEffect
  <2>1. SameFacts(p, q) /\ exhaustedDL' = exhaustedDL /\ flipped = 0
    BY <1>12 DEF JumpEffect
  <2>2. exhaustedDL \in 1 .. currentDL'
    BY <2>1, <1>1, <1>2, <1>12 DEF JumpEffect
  <2> QED
    BY <2>1, <2>2, <1>3, <1>5, <1>12 DEF JumpEffect
<1>13. CASE QuietEffect
  BY <1>2, <1>3, <1>5, <1>13 DEF QuietEffect
<1>14. CASE RestartEffect
  BY <1>2, <1>14 DEF RestartEffect
<1> QED
  BY <1>7, <1>8, <1>9, <1>10, <1>11, <1>12, <1>13, <1>14, Effects

LEMMA FlipStep ==
  ASSUME CDNLInv, Late = {}, Sound, [Next]_vars
  PROVE  FlipOK'
<1> DEFINE p == propagation
           q == propagation'
<1>1. /\ currentDL \in Nat /\ exhaustedDL \in Nat /\ exhaustedDL <= currentDL /\ AtomsOK(Atoms)
      /\ \A l \in Facts : LevelIn(p, l) \in Nat /\ l \in LiteralsOf(Atoms)
      /\ \A n \in 1 .. currentDL : decisionLiteral[n] \in Facts /\ LevelIn(p, decisionLiteral[n]) = n
      /\ \A l, m \in Facts : Address(l) = Address(m) => l = m
  BY FactsType
<1>2. Atoms' = Atoms /\ (~JumpEffect => Nogoods(q) = Nogoods(p))
  BY ProblemStays, NogoodsSame
<1>3. ASSUME flipped' = flipped, currentDL' = currentDL, exhaustedDL' = exhaustedDL, Backtracking' => Backtracking,
             Nogoods(q) = Nogoods(p), Facts' \subseteq Facts, KeepsFacts(p, q, Facts'),
             FactsBelow(q, currentDL + 1) = FactsBelow(p, currentDL + 1)
      PROVE  FlipOK'
  <2>1. \A atom : LeavesOpen(atom) => LeavesOpen(atom)'
    BY <1>3 DEF LeavesOpen, KeepsFacts
  <2>2. \A ng : OpenBelow(p, ng, currentDL + 1) => OpenBelow(q, ng, currentDL + 1)
    BY <1>3, OpenSame
  <2>3. FlipOK
    BY DEF Sound
  <2>4. flipped # 0 => \/ \E atom \in Atoms : atom # Address(flipped) /\ LeavesOpen(atom)'
                       \/ \A ng \in Nogoods(q) : OpenBelow(q, ng, currentDL + 1)
    BY <2>1, <2>2, <2>3, <1>3 DEF FlipOK
  <2>5. Backtracking /\ flipped = 0 => \E atom \in Atoms : LeavesOpen(atom)'
    BY <2>1, <2>3 DEF FlipOK
  <2> QED
    BY <2>3, <2>4, <2>5, <1>2, <1>3 DEF FlipOK
<1>4. ASSUME flipped' = 0, ~Backtracking' PROVE FlipOK'
  BY <1>4 DEF FlipOK
<1>5. ~Backtracking => flipped = 0
  BY DEF CDNLInv, FlippedOK
<1>6. CASE PropagateEffect \/ AssumeEffect
  BY <1>4, <1>5, <1>6 DEF PropagateEffect, AssumeEffect, RestSame, Backtracking
<1>7. CASE FinishEffect \/ GuessEffect
  BY <1>4, <1>5, <1>7 DEF FinishEffect, GuessEffect, LoopOrReturn, NoConflict, Propagated, Backtracking
<1>8. CASE RestartEffect
  BY <1>4, <1>8 DEF RestartEffect, Backtracking
<1>9. CASE ClearEffect
  <2>1. PICK lit \in Facts : LevelIn(p, lit) > currentDL /\ Shrinks(p, lit, q)
    BY <1>9 DEF ClearEffect
  <2>2. ~(LevelIn(p, lit) < currentDL + 1)
    BY <2>1, <1>1
  <2>3. FactsBelow(q, currentDL + 1) = FactsBelow(p, currentDL + 1)
    BY <2>1, <2>2, BelowSame
  <2>4. Facts' \subseteq Facts /\ KeepsFacts(p, q, Facts')
    BY <2>1 DEF Shrinks, Facts
  <2> QED
    BY <2>3, <2>4, <1>3, <1>9 DEF ClearEffect, RestSame
<1>10. CASE QuietEffect /\ ~JumpEffect
  <2>1. SameFacts(p, q)
    BY <1>10 DEF QuietEffect
  <2>2. FactsBelow(q, currentDL + 1) = FactsBelow(p, currentDL + 1)
    BY <2>1, BelowSame
  <2>3. Facts' \subseteq Facts /\ KeepsFacts(p, q, Facts')
    BY <2>1 DEF SameFacts, Facts, KeepsFacts, LevelIn
  <2> QED
    BY <2>2, <2>3, <1>2, <1>3, <1>10 DEF QuietEffect
<1>11. CASE JumpEffect
  <2>1. SameFacts(p, q) /\ flipped' = 0
    BY <1>11 DEF JumpEffect
  <2>2. currentDL' < currentDL /\ currentDL' \in Nat
    BY <1>11, LearnedOpen DEF Sound, JumpEffect
  <2>3. PICK lit \in Facts : LevelIn(p, lit) = currentDL
    <3>1. currentDL \in 1 .. currentDL
      BY <2>2, <1>1
    <3> QED
      BY <3>1, <1>1
  <2>4. Address(lit) \in Atoms
    BY <2>3, <1>1, LiteralsType
  <2>5. Facts' = Facts /\ \A l : LevelIn(q, l) = LevelIn(p, l)
    BY <2>1 DEF SameFacts, Facts, LevelIn
  <2>6. LeavesOpen(Address(lit))'
    <3>1. SUFFICES ASSUME NEW l \in Facts', Address(l) = Address(lit) PROVE LevelIn(q, l) > currentDL'
      BY DEF LeavesOpen
    <3>2. l = lit
      BY <3>1, <2>3, <2>5, <1>1
    <3> QED
      BY <3>2, <2>2, <2>3, <2>5, <1>1
  <2> QED
    BY <2>1, <2>4, <2>6, <1>2 DEF FlipOK
<1>12. CASE FlipEffect
  <2> DEFINE lit == decisionLiteral[currentDL]
  <2>1. /\ q = p /\ currentDL > 0 /\ currentDL' = currentDL - 1 /\ exhaustedDL' = currentDL - 1
        /\ flipped' = Negation(lit) /\ flipped = 0
    BY <1>12 DEF FlipEffect
  <2>2. lit \in Facts /\ LevelIn(p, lit) = currentDL
    <3>1. currentDL \in 1 .. currentDL
      BY <2>1, <1>1
    <3> QED
      BY <3>1, <1>1
  <2>3. Address(flipped') = Address(lit) /\ flipped' # 0
    BY <2>1, <2>2, <1>1, LiteralsType
  <2> HIDE DEF lit
  <2>4. \/ \E atom \in Atoms : atom # Address(flipped') /\ LeavesOpen(atom)'
        \/ \A ng \in Nogoods(q) : OpenBelow(q, ng, currentDL' + 1)
    <3>1. CASE exhaustedDL = currentDL
      <4>1. PICK l \in Facts : LevelIn(p, l) = currentDL /\ l # lit
        BY <3>1, <2>1 DEF Sound, ExhaustedOK, lit
      <4>2. Address(l) # Address(lit) /\ Address(l) \in Atoms
        BY <4>1, <2>2, <1>1, LiteralsType
      <4>3. LeavesOpen(Address(l))'
        <5>1. SUFFICES ASSUME NEW m \in Facts', Address(m) = Address(l) PROVE LevelIn(q, m) > currentDL'
          BY DEF LeavesOpen
        <5>2. m = l
          BY <5>1, <2>1, <1>1 DEF Facts
        <5> QED
          BY <5>2, <4>1, <2>1, <1>1
      <4> QED
        BY <4>2, <4>3, <2>3
    <3>2. CASE exhaustedDL # currentDL
      <4>1. currentDL \in exhaustedDL + 1 .. currentDL /\ currentDL - 1 + 1 = currentDL
        BY <3>2, <1>1
      <4> QED
        BY <4>1, <2>1 DEF Sound, AboveExhausted
    <3> QED
      BY <3>1, <3>2
  <2>5. exhaustedDL' = currentDL'
    BY <2>1
  <2> QED
    BY <2>3, <2>4, <2>5, <1>2 DEF FlipOK
<1> QED
  BY <1>6, <1>7, <1>8, <1>9, <1>10, <1>11, <1>12, Effects

LEMMA SatisfiedStep ==
  ASSUME CDNLInv, Late = {}, Sound, CompleteOK, [Next]_vars
  PROVE  SatisfiedOK'
<1> DEFINE p == propagation
           q == propagation'
<1>1. SUFFICES ASSUME pc' = "complete" PROVE Respects(Facts', Nogoods(q))
  BY DEF SatisfiedOK
<1>2. /\ currentDL \in Nat /\ AtomsOK(Atoms) /\ Atoms' = Atoms
      /\ \A l \in Facts : LevelIn(p, l) \in Nat
  BY FactsType, ProblemStays
<1>3. AssignmentOK(q, Atoms) /\ AssignmentOK(p, Atoms)
  <2>1. CDNLInv'
    BY StepInvariant
  <2> QED
    BY <2>1, <1>2 DEF CDNLInv, PropagationOK
<1>4. ASSUME NEW bound, \A ng \in Nogoods(p) : OpenBelow(p, ng, bound), \A l \in Facts : LevelIn(p, l) < bound,
             NEW lit, NEW dl, NEW c, Unassigned(p, lit), Grows(p, lit, dl, c, q), Nogoods(q) = Nogoods(p)
      PROVE  Respects(Facts', Nogoods(q))
  <2>1. Facts' = Facts \cup {lit}
    BY <1>4 DEF Grows, Facts
  <2>2. \A ng \in Nogoods(p) : ~ng \subseteq Facts \cup {lit}
    BY <1>4, StaysOpen
  <2> QED
    BY <2>1, <2>2, <1>4 DEF Respects
<1>5. CASE FinishEffect
  <2>1. /\ FlippedEffect /\ Backtracking /\ \A l \in Facts : LevelIn(p, l) <= currentDL
        /\ Complete(q)
    BY <1>1, <1>5 DEF FinishEffect, LoopOrReturn
  <2>2. \A atom \in Atoms : \E l \in Facts' : Address(l) = atom
    BY <2>1, <1>2, <1>3, CompleteAssigns DEF Facts
  <2>3. \A atom : LeavesOpen(atom) => \A l \in Facts : Address(l) # atom
    <3>1. \A l \in Facts : ~(LevelIn(p, l) > currentDL)
      BY <2>1, <1>2
    <3> QED
      BY <3>1 DEF LeavesOpen
  <2>4. CASE flipped = 0
    <3>1. Facts' = Facts
      BY <2>1, <2>4 DEF FlippedEffect, SameFacts, Facts
    <3> QED
      BY <3>1, <2>1, <2>2, <2>3, <2>4 DEF Sound, FlipOK
  <2>5. CASE flipped # 0
    <3>1. /\ Unassigned(p, flipped) /\ Grows(p, flipped, currentDL, NoCause, q)
          /\ Facts' = Facts \cup {flipped}
      BY <2>1, <2>5 DEF FlippedEffect, Grows, Facts
    <3>2. ~\E atom \in Atoms : atom # Address(flipped) /\ LeavesOpen(atom)
      BY <3>1, <2>2, <2>3
    <3>3. \A ng \in Nogoods(p) : OpenBelow(p, ng, currentDL + 1)
      BY <3>2, <2>5 DEF Sound, FlipOK
    <3>4. \A l \in Facts : LevelIn(p, l) < currentDL + 1
      BY <2>1, <1>2
    <3>5. Nogoods(q) = Nogoods(p)
      BY <2>1, NogoodsSame DEF JumpEffect, Backtracking
    <3> QED
      BY <3>1, <3>3, <3>4, <3>5, <1>4
  <2> QED
    BY <2>4, <2>5
<1>6. CASE GuessEffect
  <2>1. PICK lit \in LiteralsOf(Atoms) : Unassigned(p, lit) /\ Grows(p, lit, currentDL + 1, NoCause, q)
    BY <1>6 DEF GuessEffect
  <2>2. Nogoods(q) = Nogoods(p) /\ NoConflict /\ ~Backtracking
    BY <1>6 DEF GuessEffect, NoConflict, Propagated, Backtracking
  <2>3. \A l \in Facts : LevelIn(p, l) < currentDL + 1
    <3>1. \A l \in Facts : LevelIn(p, l) <= currentDL
      BY <2>2, FactsType
    <3> QED
      BY <3>1, <1>2
  <2>4. \A ng \in Nogoods(p) : OpenBelow(p, ng, currentDL + 1)
    BY <2>2, <2>3, PropagatedOpen
  <2> QED
    BY <2>1, <2>2, <2>3, <2>4, <1>4
<1>7. CASE NothingToGuess
  <2>1. NoConflict /\ pc # "analysis"
    BY <1>7 DEF NothingToGuess, NothingLearned, NoConflict, Propagated
  <2>2. Nogoods(q) = Nogoods(p)
    BY <2>1, NogoodsSame DEF JumpEffect
  <2>3. Facts' = Facts
    BY <1>7, QuietDoes DEF QuietEffect, SameFacts, Facts
  <2>4. ASSUME NEW ng \in Nogoods(p) PROVE ~ng \subseteq Facts
    <3>1. WatchOK(p, ng) /\ p.contradictoryNogoods = {}
      BY <2>1 DEF NoConflict, CDNLInv, PropagationOK, WatchesOK
    <3>2. Inactive(p, ng) \/ Free(p, ng) # {}
      BY <3>1 DEF WatchOK
    <3>3. CASE Inactive(p, ng)
      <4>1. PICK l \in ng : Negation(l) \in Facts
        BY <3>3 DEF Inactive, Falsified, Facts
      <4> QED
        BY <4>1, FactsType
    <3>4. CASE Free(p, ng) # {}
      BY <3>4 DEF Free, Unassigned, Satisfied, Facts
    <3> QED
      BY <3>2, <3>3, <3>4
  <2> QED
    BY <2>2, <2>3, <2>4 DEF Respects
<1>8. CASE UNCHANGED vars
  BY <1>1, <1>8 DEF vars, Sound, SatisfiedOK, Facts
<1>9. ~PropagatorsLearn
  <2>1. SUFFICES ASSUME PropagatorsLearn PROVE FALSE
    OBVIOUS
  <2>2. pc = "propagating" /\ Nogoods(q) # Nogoods(p)
    BY <2>1 DEF PropagatorsLearn, NoConflict, Propagated
  <2> QED
    BY <2>2, NogoodsSame DEF JumpEffect
<1>10. FinishBacktracking \/ Guess \/ NothingToGuess \/ UNCHANGED vars
  BY <1>1, <1>9 DEF Next, Search, Call, Propagate, PropagateUnit, BacktrackFact, SetAssumption, Backjump,
     RestartWithAssumptions, ConflictAtDL0, ReturnModel, AssumptionsSet, GetNextModel, NoMoreModels, AddNogood,
     Propagated, Conflict, ConflictBelowExhausted, LeaveModel, StartAnalysis, ResolveImplied, Terminating, Backtracking
<1> QED
  BY <1>5, <1>6, <1>7, <1>8, <1>10, FinishDoes, GuessDoes

-----------------------------------------------------------------------------
(* The enumeration.                                                        *)

EnumerationInv ==
  /\ CDNLInv
  /\ AssumptionsOK
  /\ CompleteOK
  /\ MissedOK
  /\ FoundOK
  /\ Given \subseteq Nogoods(propagation)
  /\ Late = {} => Sound

LEMMA EnumerationInit ==
  ASSUME FactsLeaveOpen, Init
  PROVE  EnumerationInv
<1>1. PICK I \in Instances : instance = InstanceOf(I)
  BY DEF Init
<1>2. /\ CDNLInv /\ AtomsOK(Atoms) /\ Given \in SUBSET SUBSET Int
      /\ Atoms = AtomsOf(I.nogoods) /\ instance.assumptions = I.facts /\ Given = I.nogoods
  BY <1>1, InitInvariant, InstanceType DEF CDNLInv, InstanceOf, Atoms, Given
<1>3. /\ propagation = InitWatchingStructures(Given) /\ pc = "assuming" /\ models = {}
      /\ currentDL = 0 /\ exhaustedDL = 0 /\ flipped = 0
  BY DEF Init, Given
<1>4. Range(propagation.assignment) = {} /\ Nogoods(propagation) = Accepted(Given, Atoms)
  BY <1>2, <1>3, InitWatchingStructuresOK
<1>5. Given \subseteq Nogoods(propagation)
  BY <1>2, <1>4 DEF Accepted, AtomsOf
<1>6. \E a \in Atoms : \A l \in instance.assumptions : Address(l) # a
  <2>1. I.facts \subseteq Atoms /\ I.facts # Atoms
    BY <1>1, <1>2, InstancesAssumption DEF FactsLeaveOpen
  <2>2. \A a \in Atoms : Address(a) = a
    <3>1. \A a \in Atoms : a \in Nat /\ ~(a < 0)
      BY <1>2 DEF AtomsOK
    <3> QED
      BY <3>1 DEF Address
  <2>3. PICK a \in Atoms : a \notin I.facts
    BY <2>1
  <2> QED
    BY <2>1, <2>2, <2>3, <1>2
<1>7. AssumptionsOK /\ CompleteOK /\ FoundOK
  BY <1>3, <1>6 DEF AssumptionsOK, CompleteOK, FoundOK
<1>8. MissedOK
  BY <1>3, <1>4 DEF MissedOK, Follows
<1>9. Sound
  <2>1. AboveExhausted
    <3>1. 0 + 1 .. 0 = {}
      OBVIOUS
    <3> QED
      BY <3>1, <1>3 DEF AboveExhausted
  <2> QED
    BY <2>1, <1>3 DEF Sound, ExhaustedOK, FlipOK, AnalysisAt, SatisfiedOK, Backtracking
<1> QED
  BY <1>2, <1>5, <1>7, <1>8, <1>9 DEF EnumerationInv

LEMMA EnumerationStep ==
  ASSUME EnumerationInv, [Next]_vars
  PROVE  EnumerationInv'
<1> USE DEF EnumerationInv
<1>1. CDNLInv' /\ AssumptionsOK' /\ CompleteOK' /\ MissedOK' /\ FoundOK'
  BY StepInvariant, AssumptionsStep, CompleteStep, MissedStep, FoundStep
<1>2. Given' = Given /\ Late' = Late /\ Nogoods(propagation) \subseteq Nogoods(propagation')
  BY ProblemStays, NogoodsGrow DEF NogoodsKept
<1>3. ASSUME Late = {} PROVE Sound'
  <2>1. AboveExhausted' /\ ExhaustedOK' /\ FlipOK' /\ SatisfiedOK'
    BY <1>3, AboveStep, ExhaustedStep, FlipStep, SatisfiedStep
  <2>2. AnalysisAt'
    BY <1>3, AnalysisAtStep DEF Sound
  <2> QED
    BY <2>1, <2>2 DEF Sound
<1> QED
  BY <1>1, <1>2, <1>3

\* What the enumeration calls a solution.
Solutions == IF Late = {} THEN UnderAssumptions(SolutionsOf[instance.problem]) ELSE Assignments(Atoms)
Asked == pc \notin {"idle", "assuming", "exhausted"}

LEMMA RequiredSolutions ==
  ASSUME CDNLInv
  PROVE  Required \subseteq Solutions
<1>1. SolutionsOf[instance.problem] \subseteq Assignments(Atoms)
  BY DEF CDNLInv, InstanceOK, SolutionsOf, Allowed, Given
<1> QED
  BY <1>1 DEF Required, Solutions, UnderAssumptions, Allowed

\* Each answer is a new solution, ...
LEMMA AnswerIsSolution ==
  ASSUME EnumerationInv, pc = "complete"
  PROVE  Facts \in Solutions \ models
<1>1. Facts \in Assignments(Atoms) /\ Facts \notin models
  BY CompleteIsAssignment, ModelIsNew, InstanceType DEF EnumerationInv, CompleteOK, CDNLInv, PropagationOK, Facts
<1>2. ASSUME Late = {} PROVE Facts \in UnderAssumptions(SolutionsOf[instance.problem])
  <2>1. SolutionsOf[instance.problem] = {S \in Assignments(Atoms) : Respects(S, Given)}
    BY DEF EnumerationInv, CDNLInv, InstanceOK, SolutionsOf, Allowed, Respects, Given
  <2>2. Respects(Facts, Given)
    BY <1>2 DEF EnumerationInv, Sound, SatisfiedOK, Respects
  <2>3. instance.assumptions \subseteq Facts
    BY DEF EnumerationInv, AssumptionsOK
  <2> QED
    BY <2>1, <2>2, <2>3, <1>1 DEF UnderAssumptions
<1> QED
  BY <1>1, <1>2 DEF Solutions

\* ... and the end comes when all that are required were returned.
LEMMA EndIsJustified ==
  ASSUME EnumerationInv, ConflictAtDL0 \/ NoMoreModels
  PROVE  Required \subseteq models
<1>1. /\ currentDL = 0 /\ ~Backtracking
      /\ \/ pc = "idle" /\ Complete(propagation)
         \/ \E ng \in Nogoods(propagation) : ng \subseteq Facts
  BY ConflictNogood DEF EnumerationInv, ConflictAtDL0, NoMoreModels, Conflict, Propagated, Backtracking
<1>2. SUFFICES ASSUME NEW S \in Required \ models PROVE FALSE
  OBVIOUS
<1>3. On(S, decisionLiteral, currentDL)
  BY <1>1 DEF On
<1> QED
  BY <1>1, <1>3, AllFactsFollow, FactsNotAll DEF EnumerationInv

LEMMA EnumerationRefined ==
  ASSUME EnumerationInv, [Next]_vars
  PROVE  [Enumeration!Next]_(Enumeration!vars)
<1> USE DEF Enumeration!Next, Enumeration!vars
<1>1. Late' = Late
  BY ProblemStays DEF EnumerationInv
<1>2. instance' = instance => Solutions' = Solutions /\ Required' \subseteq Required
  BY <1>1, RequiredShrinks DEF EnumerationInv, Solutions, UnderAssumptions, Atoms
<1>3. instance' = instance /\ propagation' = propagation => Required' = Required
  BY DEF Required, UnderAssumptions, Learned, Given
<1>4. ASSUME instance' = instance, models' = models, Asked' = Asked, (pc' = "exhausted") = (pc = "exhausted")
      PROVE  Enumeration!Next
  BY <1>2, <1>4 DEF Enumeration!ConstraintArrives, Required, Solutions, Asked
<1>5. CASE GetNextModel \/ LeaveModel
  <2>1. /\ instance' = instance /\ propagation' = propagation /\ models' = models
        /\ ~Asked /\ Asked' /\ pc # "exhausted" /\ pc' # "exhausted"
    BY <1>5 DEF GetNextModel, LeaveModel, FlipDecisionLiteral, Asked
  <2> QED
    BY <2>1, <1>2, <1>3 DEF Enumeration!Ask, Required, Solutions, Asked
<1>6. CASE ReturnModel
  <2>1. /\ instance' = instance /\ propagation' = propagation /\ models' = models \cup {Facts}
        /\ Asked /\ ~Asked' /\ pc # "exhausted" /\ pc' # "exhausted" /\ pc = "complete"
    BY <1>6 DEF ReturnModel, Asked, Facts
  <2>2. Facts \in Solutions \ models
    BY <2>1, AnswerIsSolution
  <2> QED
    BY <2>1, <2>2, <1>2, <1>3 DEF Enumeration!AnswerSolution, Required, Solutions, Asked
<1>7. CASE ConflictAtDL0 \/ NoMoreModels
  <2>1. /\ instance' = instance /\ propagation' = propagation /\ models' = models
        /\ ~Asked' /\ pc # "exhausted" /\ pc' = "exhausted"
    BY <1>7 DEF ConflictAtDL0, NoMoreModels, Conflict, Propagated, Asked
  <2>2. Required \subseteq models
    BY <1>7, EndIsJustified
  <2> QED
    BY <2>1, <2>2, <1>2, <1>3 DEF Enumeration!AnswerEnd, Required, Solutions, Asked
<1>8. CASE RestartWithAssumptions
  <2>1. models' = {} /\ ~Asked /\ ~Asked' /\ pc' # "exhausted"
    BY <1>8 DEF RestartWithAssumptions, Asked
  <2> QED
    BY <2>1 DEF Enumeration!Restart, Asked
<1>9. CASE \/ Propagate \/ ConflictBelowExhausted \/ StartAnalysis \/ ResolveImplied \/ Backjump \/ BacktrackFact
  <2>1. instance' = instance /\ models' = models /\ pc \in {"propagating", "analysis", "backtracking", "leaving model"}
        /\ pc' \in {"propagating", "analysis", "backtracking", "leaving model"}
    BY <1>9 DEF Propagate, PropagateUnit, ConflictBelowExhausted, FlipDecisionLiteral, StartAnalysis, ResolveImplied, Backjump,
       BacktrackFact, Backtracking, Conflict, Propagated
  <2> QED
    BY <2>1, <1>4 DEF Asked
<1>10. CASE FinishBacktracking \/ PropagatorsLearn \/ Guess \/ NothingToGuess
  <2>1. instance' = instance /\ models' = models /\ pc \in {"propagating", "backtracking", "leaving model"}
        /\ pc' \in {"propagating", "complete"}
    BY <1>10 DEF FinishBacktracking, PropagatorsLearn, Guess, NothingToGuess, NothingLearned, NoConflict, Propagated,
       LoopOrReturn, Backtracking
  <2> QED
    BY <2>1, <1>4 DEF Asked
<1>11. CASE SetAssumption \/ AssumptionsSet \/ AddNogood
  <2>1. instance' = instance /\ models' = models /\ pc \in {"assuming", "idle"} /\ pc' \in {"assuming", "idle"}
    BY <1>11 DEF SetAssumption, AssumptionsSet, AddNogood
  <2> QED
    BY <2>1, <1>4 DEF Asked
<1>12. CASE Terminating \/ UNCHANGED vars
  BY <1>4, <1>12 DEF Terminating, vars, Asked
<1> QED
  BY <1>5, <1>6, <1>7, <1>8, <1>9, <1>10, <1>11, <1>12 DEF Next, Search, Call

\* Each call of getNextModel returns a new solution under the assumptions, or the end
\* after all that satisfy the nogoods that came late too: for every problem whose facts
\* leave an atom open, through flips, backjumps, late nogoods and restarts.
THEOREM SearchEnumerates == FactsLeaveOpen => (Spec => ImplementsEnumeration)
<1> SUFFICES ASSUME FactsLeaveOpen PROVE Spec => ImplementsEnumeration
  OBVIOUS
<1>1. Init => EnumerationInv
  BY EnumerationInit
<1>2. EnumerationInv /\ [Next]_vars => EnumerationInv'
  BY EnumerationStep
<1>3. Init => Enumeration!Init
  <2>1. SUFFICES ASSUME Init PROVE Enumeration!Init
    OBVIOUS
  <2>2. Required \subseteq Solutions
    BY <2>1, InitInvariant, RequiredSolutions
  <2> QED
    BY <2>1, <2>2 DEF Enumeration!Init, Required, Solutions, Init
<1>4. EnumerationInv /\ [Next]_vars => [Enumeration!Next]_(Enumeration!vars)
  BY EnumerationRefined
<1> QED
  BY <1>1, <1>2, <1>3, <1>4, PTL DEF Spec, ImplementsEnumeration, Enumeration!Spec
================================================================================
