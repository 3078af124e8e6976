--------------------------- MODULE NarrationProofs ---------------------------
(***************************************************************************)
(* Proofs about the commits of a turn: whom an accepted commit speaks of   *)
(* will exist, a repair takes nothing from what had passed, and nobody is  *)
(* minted for a name the world records.                                    *)
(***************************************************************************)
EXTENDS Narration, DataLemmas, SequenceTheorems

-----------------------------------------------------------------------------
(* An accepted commit.                                                      *)

\* An accepted commit has no error left, in the world it will be applied to.
AcceptedIsValid == pc = "accepted" => Failing(commit, world) = {}

\* Only a validation accepts a commit, and it accepts what has no error.
LEMMA ValidateAccepts ==
    ASSUME NEW c, NEW n, Validate(c, n), pc' = "accepted", UNCHANGED world
    PROVE  Failing(commit', world') = {}
<1>1. pc' = Verdict(Augmented(c, world), n) /\ commit' = Augmented(c, world)
  BY DEF Validate
<1>2. Failing(Augmented(c, world), world) = {}
  BY <1>1 DEF Verdict
<1> QED
  BY <1>1, <1>2

LEMMA AcceptedInvariance == Spec => []AcceptedIsValid
<1>1. Init => AcceptedIsValid
  BY DEF Init, AcceptedIsValid
<1>2. AcceptedIsValid /\ [Next]_vars => AcceptedIsValid'
  <2> SUFFICES ASSUME AcceptedIsValid, [Next]_vars, pc' = "accepted"
               PROVE  Failing(commit', world') = {}
    BY DEF AcceptedIsValid
  <2>1. CASE \E c, n : Validate(c, n) /\ UNCHANGED world
    BY <2>1, ValidateAccepts
  <2>2. CASE UNCHANGED <<pc, commit, world>>
    BY <2>2 DEF AcceptedIsValid
  <2>3. CASE Start
    BY <2>3 DEF Start
  <2>4. CASE CallTools
    BY <2>4, <2>2 DEF CallTools
  <2>5. CASE Tell
    BY <2>5 DEF Tell
  <2>6. ASSUME NEW a \in Answers, Answer(a)
        PROVE  (\E c, n : Validate(c, n) /\ UNCHANGED world) \/ pc' \in {"wrap", "mend"}
    <3>1. UNCHANGED world
      BY <2>6 DEF Answer
    <3>2. CASE strategy = "hybrid"
      BY <2>6, <3>1, <3>2 DEF Answer
    <3>3. CASE strategy # "hybrid" /\ strategy = "tools" /\ a.form # "json"
      BY <2>6, <3>3 DEF Answer
    <3>4. CASE strategy # "hybrid" /\ ~(strategy = "tools" /\ a.form # "json")
      BY <2>6, <3>1, <3>4 DEF Answer
    <3> QED
      BY <3>2, <3>3, <3>4
  <2>7. ASSUME NEW a, AskAgain(a) PROVE \E c, n : Validate(c, n) /\ UNCHANGED world
    BY <2>7 DEF AskAgain
  <2>8. ASSUME NEW r, Repair(r) PROVE \E c, n : Validate(c, n) /\ UNCHANGED world
    BY <2>8 DEF Repair
  <2>9. CASE Retry
    BY <2>9, <2>2 DEF Retry
  <2>10. CASE CallFails
    BY <2>10, <2>1 DEF CallFails, Abandoned
  <2>11. CASE Publish \/ Drop
    BY <2>11 DEF Publish, Drop, Abandoned
  <2>12. CASE UNCHANGED vars
    BY <2>12, <2>2 DEF vars
  <2> QED
    BY <2>1, <2>3, <2>4, <2>5, <2>6, <2>7, <2>8, <2>9, <2>10, <2>11, <2>12 DEF Next, Step
<1> QED
  BY <1>1, <1>2, PTL DEF Spec

\* Whoever an accepted commit moves or speaks of will exist when it is applied.
THEOREM NobodyIsImaginary == Spec => []NobodyImaginary
<1>1. AcceptedIsValid => NobodyImaginary
  <2> SUFFICES ASSUME pc = "accepted", Failing(commit, world) = {}
               PROVE  /\ Moves(commit) \subseteq Applied(commit, world).people
                      /\ \A f \in FactSet(commit) : f.subject \in Applied(commit, world).people
    BY DEF AcceptedIsValid, NobodyImaginary
  <2>1. Owned \subseteq Sections(commit)
    BY DEF Failing, Missing, Required
  <2>2. \A s \in Owned : ~Dangling(commit, s, world) /\ ~Incomplete(commit, s)
    BY <2>1 DEF Failing
  <2>3. \A p \in Cast(commit) : p.whole
    BY <2>2 DEF Incomplete, Owned
  <2>4. Applied(commit, world).people = world.people \cup Created(commit)
    BY <2>3 DEF Applied, Created
  <2> QED
    BY <2>2, <2>4 DEF Dangling, Owned
<1> QED
  BY <1>1, AcceptedInvariance, PTL
-----------------------------------------------------------------------------
(* Resolving the references of a commit.                                    *)

\* An id of a mint; beyond the ids of this instance the counter gives some value.
MintedIds == {NpcAuto[Min(K)] : K \in SUBSET DOMAIN NpcAuto}
AnyId == Ids \cup MintedIds
AnyRef == Names \cup AnyId
AnyPerson == [id : AnyId, name : Names \cup {NoName}, whole : BOOLEAN]
AnyFact == [subject : AnyId, name : AnyRef]

\* What is no list of objects is none of the lists a section may hold.
ListsAreLists == NotAList \notin (SUBSET AnyRef) \cup (SUBSET AnyPerson) \cup Seq(AnyFact)

\* IsCommit, and the ids that were minted for it.
CommitOK(c) ==
    /\ c = [k \in DOMAIN c |-> c[k]]
    /\ IsFiniteSet(DOMAIN c) /\ "narration" \in DOMAIN c
    /\ Moves(c) \subseteq AnyRef /\ IsFiniteSet(Moves(c))
    /\ Cast(c) \subseteq AnyPerson
    /\ Facts(c) \in Seq(AnyFact)

WorldOK(w) == w.people \subseteq AnyId /\ w.trueNames \subseteq AnyFact

\* The true names a commit gives to people minted for it are recorded for nobody.
NewNames(c, w) ==
    \A f \in FactSet(c) : f.subject \in AutoIds \ w.people =>
        \A g \in w.trueNames : g.name # f.name

LEMMA DraftIsCommit ==
    ASSUME NEW c, IsCommit(c) PROVE CommitOK(c)
<1>1. Refs \subseteq AnyRef /\ Person \subseteq AnyPerson /\ Fact \subseteq AnyFact
  BY DEF Refs, AnyRef, AnyId, Person, AnyPerson, Fact, AnyFact
<1>2. Seq(Fact) \subseteq Seq(AnyFact)
  BY <1>1
<1> QED
  BY <1>1, <1>2 DEF IsCommit, CommitOK

\* What a commit holds after a reference r of d was resolved.
Resolves(e, d, r, w) ==
    /\ CommitOK(e)
    /\ "moves" \in DOMAIN e /\ e["moves"] \subseteq AnyRef
    /\ DOMAIN d \subseteq DOMAIN e /\ DOMAIN e \subseteq DOMAIN d \cup {"cast", "facts"}
    /\ \A k \in DOMAIN d \ {"moves", "cast", "facts"} : e[k] = d[k]
    /\ Moves(d) \subseteq Moves(e)
    /\ Cast(d) \subseteq Cast(e)
    /\ FactSet(d) \subseteq FactSet(e)
    /\ \A m : Exists(m, e, w) => Exists(m, d, w) \/ m \in Moves(e)
    /\ Exists(r, e, w) => r \in Moves(e)
    /\ NewNames(d, w) => NewNames(e, w)
    /\ \A k \in {"cast", "facts"} \cap DOMAIN e :
          \/ k \in DOMAIN d /\ e[k] = d[k]
          \/ e[k] \in (SUBSET AnyPerson) \cup Seq(AnyFact)

Move(d, i) == [d EXCEPT !["moves"] = @ \cup {i}]

\* One more person moved.
LEMMA MoveResolves ==
    ASSUME ListsAreLists, NEW d, CommitOK(d), "moves" \in DOMAIN d, d["moves"] \subseteq AnyRef,
           NEW i \in AnyId \cup AnyRef
    PROVE  /\ CommitOK(Move(d, i))
           /\ DOMAIN Move(d, i) = DOMAIN d
           /\ Move(d, i)["moves"] = d["moves"] \cup {i}
           /\ Move(d, i)["moves"] \subseteq AnyRef
           /\ Moves(Move(d, i)) = Moves(d) \cup {i}
           /\ Cast(Move(d, i)) = Cast(d)
           /\ Facts(Move(d, i)) = Facts(d)
           /\ \A k \in DOMAIN d \ {"moves"} : Move(d, i)[k] = d[k]
<1> DEFINE e == Move(d, i)
<1>1. d = [k \in DOMAIN d |-> d[k]]
  BY DEF CommitOK
<1>2. /\ DOMAIN e = DOMAIN d
      /\ e["moves"] = d["moves"] \cup {i}
      /\ \A k \in DOMAIN d \ {"moves"} : e[k] = d[k]
      /\ e = [k \in DOMAIN e |-> e[k]]
  BY <1>1 DEF Move
<1>3. i \in AnyRef
  BY DEF AnyRef
<1>4. e["moves"] \subseteq AnyRef
  BY <1>2, <1>3
<1>5. Moves(d) = d["moves"] /\ Moves(e) = e["moves"]
  BY <1>2, <1>4 DEF Moves, ItemsOf, ListsAreLists
<1>6. IsFiniteSet(d["moves"] \cup {i})
  BY <1>5, FS_AddElement DEF CommitOK
<1>7. Cast(e) = Cast(d)
  BY <1>2 DEF Cast, ItemsOf
<1>8. Facts(e) = Facts(d)
  BY <1>2 DEF Facts
<1> HIDE DEF e
<1>9. CommitOK(e)
  BY <1>2, <1>4, <1>5, <1>6, <1>7, <1>8 DEF CommitOK
<1> QED
  BY <1>2, <1>4, <1>5, <1>7, <1>8, <1>9 DEF e

\* A name means people with an id; nobody bears a name that means nobody.
LEMMA BearersAreIds ==
    ASSUME NEW d, CommitOK(d), NEW w, WorldOK(w), NEW r
    PROVE  /\ Bearers(r, d, w) \subseteq AnyId
           /\ Bearers(r, d, w) = {} => \A g \in w.trueNames : g.name # r
<1> DEFINE recorded == {f.subject : f \in {g \in w.trueNames : g.name = r}}
           created == {p.id : p \in {q \in Cast(d) : q.name = r}}
           asserted == {f.subject : f \in {g \in FactSet(d) : g.name = r}}
           alike == {i \in w.people : <<i, r>> \in Resembles}
           answers == <<recorded, created, asserted, alike>>
           found == {k \in 1..4 : answers[k] # {}}
<1>1. FactSet(d) \subseteq AnyFact
  BY DEF FactSet, CommitOK
<1>2. /\ recorded \subseteq AnyId /\ asserted \subseteq AnyId
      /\ created \subseteq AnyId /\ alike \subseteq AnyId
  BY <1>1 DEF CommitOK, WorldOK, AnyFact, AnyPerson
<1>3. \A k \in 1..4 : answers[k] \subseteq AnyId
  <2> HIDE DEF recorded, created, asserted, alike
  <2> QED
    BY <1>2
<1>4. Bearers(r, d, w) = IF found = {} THEN {} ELSE answers[Min(found)]
  BY Zenon DEF Bearers
<1>5. found # {} => Min(found) \in found
  <2>1. found \in SUBSET Nat
    OBVIOUS
  <2> HIDE DEF found
  <2> QED
    BY <2>1, MinOfNumbers
<1>6. found = {} => recorded = {}
  <2> HIDE DEF recorded, created, asserted, alike
  <2>1. answers[1] = recorded
    OBVIOUS
  <2> QED
    BY <2>1
<1>7. Bearers(r, d, w) = {} => recorded = {}
  <2> HIDE DEF answers, recorded
  <2> QED
    BY <1>4, <1>5, <1>6
<1>8. Bearers(r, d, w) \subseteq AnyId
  <2> HIDE DEF answers
  <2> QED
    BY <1>3, <1>4, <1>5
<1> QED
  BY <1>7, <1>8

\* Somebody minted for a name that nobody bears.
LEMMA MintResolves ==
    ASSUME ListsAreLists, NEW d, CommitOK(d), NEW w, WorldOK(w), NEW r \in AnyRef
    PROVE  LET e == Minted(r, d, w)
               i == FreshId(d, w)
           IN  /\ CommitOK(e) /\ i \in AnyId
               /\ DOMAIN e = DOMAIN d \cup {"cast", "facts"}
               /\ \A k \in DOMAIN d \ {"cast", "facts"} : e[k] = d[k]
               /\ e["cast"] \in SUBSET AnyPerson /\ e["facts"] \in Seq(AnyFact)
               /\ Cast(e) = Cast(d) \cup {[id |-> i, name |-> NoName, whole |-> TRUE]}
               /\ FactSet(e) = FactSet(d) \cup {[subject |-> i, name |-> r]}
               /\ Moves(e) = Moves(d)
<1> DEFINE e == Minted(r, d, w)
           i == FreshId(d, w)
           person == [id |-> i, name |-> NoName, whole |-> TRUE]
           fact == [subject |-> i, name |-> r]
<1>1. i \in AnyId
  BY DEF FreshId, MintedIds, AnyId
<1>2. person \in AnyPerson /\ fact \in AnyFact
  BY <1>1 DEF AnyPerson, AnyFact
<1>3. /\ e = [k \in DOMAIN e |-> e[k]]
      /\ DOMAIN e = DOMAIN d \cup {"cast", "facts"}
      /\ \A k \in DOMAIN d \ {"cast", "facts"} : e[k] = d[k]
      /\ e["cast"] = Cast(d) \cup {person}
      /\ e["facts"] = Append(Facts(d), fact)
  <2> HIDE DEF person, fact
  <2>1. e = Updated(d, [cast |-> Cast(d) \cup {person}, facts |-> Append(Facts(d), fact)])
    BY DEF Minted, person, fact, i
  <2> HIDE DEF e
  <2> QED
    BY <2>1 DEF Updated
<1> HIDE DEF e, i, person, fact
<1>4. e["cast"] \in SUBSET AnyPerson /\ e["facts"] \in Seq(AnyFact)
  BY <1>2, <1>3, AppendProperties DEF CommitOK
<1>5. e["cast"] # NotAList /\ e["facts"] # NotAList
  BY <1>4 DEF ListsAreLists
<1>6. Cast(e) = e["cast"] /\ Facts(e) = e["facts"]
  BY <1>3, <1>5 DEF Cast, ItemsOf, Facts
<1>7. Moves(e) = Moves(d)
  BY <1>3 DEF Moves, ItemsOf
<1>8. IsFiniteSet(DOMAIN e)
  <2>1. IsFiniteSet(DOMAIN d \cup {"cast"})
    BY FS_AddElement DEF CommitOK
  <2>2. IsFiniteSet((DOMAIN d \cup {"cast"}) \cup {"facts"})
    BY <2>1, FS_AddElement
  <2>3. DOMAIN e = (DOMAIN d \cup {"cast"}) \cup {"facts"}
    BY <1>3
  <2> QED
    BY <2>2, <2>3
<1>9. CommitOK(e)
  BY <1>3, <1>4, <1>6, <1>7, <1>8 DEF CommitOK
<1>10. FactSet(e) = FactSet(d) \cup {fact}
  <2>1. Facts(d) \in Seq(AnyFact) /\ Facts(e) = Append(Facts(d), fact)
    BY <1>3, <1>6 DEF CommitOK
  <2> QED
    BY <1>2, <2>1, AppendProperties DEF FactSet
<1> QED
  BY <1>1, <1>3, <1>4, <1>6, <1>7, <1>9, <1>10 DEF e, i, person, fact

LEMMA ReferringResolves ==
    ASSUME ListsAreLists, NEW d, CommitOK(d), "moves" \in DOMAIN d, d["moves"] \subseteq AnyRef,
           NEW w, WorldOK(w), NEW r \in AnyRef
    PROVE  Resolves(Referring(r, d, w), d, r, w)
<1>1. CASE Exists(r, d, w)
  <2>1. Referring(r, d, w) = Move(d, r)
    BY <1>1 DEF Referring, Move
  <2>2. FactSet(Move(d, r)) = FactSet(d)
    BY MoveResolves DEF FactSet
  <2> QED
    BY <2>1, <2>2, MoveResolves DEF Resolves, NewNames, Exists, Pending
<1>2. CASE ~Exists(r, d, w) /\ Bearers(r, d, w) # {}
  <2>1. PICK i \in AnyId : Referring(r, d, w) = Move(d, i)
    BY <1>2, BearersAreIds DEF Referring, Move
  <2>2. FactSet(Move(d, i)) = FactSet(d)
    BY MoveResolves DEF FactSet
  <2>3. \A m : Exists(m, Move(d, i), w) <=> Exists(m, d, w)
    BY MoveResolves DEF Exists, Pending
  <2> QED
    BY <1>2, <2>1, <2>2, <2>3, MoveResolves DEF Resolves, NewNames
<1>3. CASE ~Exists(r, d, w) /\ Bearers(r, d, w) = {}
  <2> DEFINE i == FreshId(d, w)
             c == Minted(r, d, w)
             e == Move(c, i)
  <2>1. Referring(r, d, w) = e
    BY <1>3 DEF Referring, Move
  <2>2. /\ CommitOK(c) /\ i \in AnyId
        /\ DOMAIN c = DOMAIN d \cup {"cast", "facts"}
        /\ \A k \in DOMAIN d \ {"cast", "facts"} : c[k] = d[k]
        /\ c["cast"] \in SUBSET AnyPerson /\ c["facts"] \in Seq(AnyFact)
        /\ Cast(c) = Cast(d) \cup {[id |-> i, name |-> NoName, whole |-> TRUE]}
        /\ FactSet(c) = FactSet(d) \cup {[subject |-> i, name |-> r]}
        /\ Moves(c) = Moves(d)
    BY MintResolves
  <2> HIDE DEF c, i
  <2>3. "moves" \in DOMAIN c /\ c["moves"] \subseteq AnyRef
    BY <2>2
  <2>4. /\ CommitOK(e) /\ DOMAIN e = DOMAIN c
        /\ e["moves"] = c["moves"] \cup {i} /\ e["moves"] \subseteq AnyRef
        /\ Moves(e) = Moves(c) \cup {i}
        /\ Cast(e) = Cast(c) /\ Facts(e) = Facts(c)
        /\ \A k \in DOMAIN c \ {"moves"} : e[k] = c[k]
    BY <2>2, <2>3, MoveResolves
  <2> HIDE DEF e
  <2>5. FactSet(e) = FactSet(d) \cup {[subject |-> i, name |-> r]}
    BY <2>2, <2>4 DEF FactSet
  <2>6. \A m : Exists(m, e, w) <=> (Exists(m, d, w) \/ m = i)
    <3> DEFINE person == [id |-> i, name |-> NoName, whole |-> TRUE]
    <3>1. Cast(e) = Cast(d) \cup {person} /\ person.id = i
      BY <2>2, <2>4
    <3> HIDE DEF person
    <3>2. {p.id : p \in Cast(d) \cup {person}} = {p.id : p \in Cast(d)} \cup {person.id}
      OBVIOUS
    <3>3. Pending(e) = Pending(d) \cup {i}
      BY <3>1, <3>2 DEF Pending
    <3> QED
      BY <3>3 DEF Exists
  <2>7. NewNames(d, w) => NewNames(e, w)
    BY <1>3, <2>5, BearersAreIds DEF NewNames
  <2>8. Resolves(e, d, r, w)
    BY <1>3, <2>2, <2>4, <2>5, <2>6, <2>7 DEF Resolves
  <2> QED
    BY <2>1, <2>8
<1> QED
  BY <1>1, <1>2, <1>3

\* The loop over the references of c, as the function that FoldSet is.
ResolvingLoop(f, c, w) ==
    f = [s \in SUBSET Moves(c) |->
            IF s = {} THEN [c EXCEPT !["moves"] = {}]
            ELSE Referring(CHOOSE r \in s : TRUE, f[s \ {CHOOSE r \in s : TRUE}], w)]

LEMMA AugmentedIsLoop ==
    ASSUME NEW c, NEW w, Moves(c) # {}
    PROVE  Augmented(c, w) = (CHOOSE f : ResolvingLoop(f, c, w))[Moves(c)]
  BY DEF Augmented, FoldSet, MapThenFoldSet, ResolvingLoop

\* There is such a function.
LEMMA ResolvingLoopExists ==
    ASSUME ListsAreLists, NEW c, CommitOK(c), NEW w, WorldOK(w), Moves(c) # {}
    PROVE  \E f : ResolvingLoop(f, c, w)
<1> DEFINE S == Moves(c)
           base == [c EXCEPT !["moves"] = {}]
           K == DOMAIN c \cup {"cast", "facts"}
           V == {c[k] : k \in DOMAIN c} \cup (SUBSET AnyRef) \cup (SUBSET AnyPerson) \cup Seq(AnyFact)
           A == {d \in UNION {[D -> V] : D \in SUBSET K} :
                    CommitOK(d) /\ "moves" \in DOMAIN d /\ d["moves"] \subseteq AnyRef}
           next == [p \in S \X A |-> Referring(p[1], p[2], w)]
           pick == [s \in SUBSET S |-> IF s = {} THEN {} ELSE CHOOSE r \in s : TRUE]
<1>1. "moves" \in DOMAIN c /\ c = [k \in DOMAIN c |-> c[k]]
  BY DEF Moves, ItemsOf, CommitOK
<1>2. /\ CommitOK(base) /\ DOMAIN base = DOMAIN c /\ base["moves"] = {}
      /\ \A k \in DOMAIN c \ {"moves"} : base[k] = c[k]
  <2>1. /\ DOMAIN base = DOMAIN c /\ base["moves"] = {}
        /\ \A k \in DOMAIN c \ {"moves"} : base[k] = c[k]
        /\ base = [k \in DOMAIN base |-> base[k]]
    BY <1>1
  <2> HIDE DEF base
  <2>2. Moves(base) = {} /\ Cast(base) = Cast(c) /\ Facts(base) = Facts(c)
    BY <2>1 DEF Moves, Cast, ItemsOf, Facts
  <2> QED
    BY <2>1, <2>2, FS_EmptySet DEF CommitOK
<1>3. base \in A
  <2>1. \A k \in DOMAIN c : base[k] \in V
    BY <1>2
  <2>2. base \in [DOMAIN c -> V]
    BY <1>1, <2>1
  <2>3. DOMAIN c \in SUBSET K
    OBVIOUS
  <2> HIDE DEF base, V, K
  <2>4. base \in UNION {[D -> V] : D \in SUBSET K}
    BY <2>2, <2>3
  <2> QED
    BY <1>1, <1>2, <2>4
<1>4. ASSUME NEW r \in S, NEW d \in A PROVE Referring(r, d, w) \in A
  <2> DEFINE e == Referring(r, d, w)
  <2>1. CommitOK(d) /\ "moves" \in DOMAIN d /\ d["moves"] \subseteq AnyRef /\ DOMAIN d \subseteq K
    OBVIOUS
  <2>2. r \in AnyRef
    BY DEF CommitOK
  <2>3. Resolves(e, d, r, w)
    BY <2>1, <2>2, ReferringResolves
  <2>4. \A k \in DOMAIN d : d[k] \in V
    OBVIOUS
  <2> HIDE DEF e, A
  <2>5. DOMAIN e \subseteq K /\ e = [k \in DOMAIN e |-> e[k]]
    BY <2>1, <2>3 DEF Resolves, CommitOK
  <2>6. \A k \in DOMAIN e : e[k] \in V
    <3>1. \A k \in DOMAIN e \ {"moves", "cast", "facts"} : e[k] = d[k] /\ k \in DOMAIN d
      BY <2>3 DEF Resolves
    <3>2. e["moves"] \in V
      BY <2>3 DEF Resolves
    <3>3. \A k \in {"cast", "facts"} \cap DOMAIN e : e[k] \in V
      BY <2>3, <2>4 DEF Resolves
    <3> HIDE DEF V
    <3> QED
      BY <2>4, <3>1, <3>2, <3>3
  <2> HIDE DEF V, K
  <2>7. e \in [DOMAIN e -> V]
    BY <2>5, <2>6
  <2>8. e \in A
    BY <2>3, <2>5, <2>7 DEF A, Resolves
  <2> QED
    BY <2>8 DEF e
<1> HIDE DEF A, base
<1>5. IsFiniteSet(S)
  BY DEF CommitOK
<1>6. next \in [S \X A -> A]
  BY <1>4
<1>7. Picks(pick, S)
  BY DEF Picks
<1>8. PICK f \in [SUBSET S -> A] : Loops(f, S, base, next, pick)
  <2> HIDE DEF next, pick, S
  <2> QED
    BY <1>3, <1>5, <1>6, <1>7, LoopExists
<1>9. \A s \in SUBSET S : s # {} =>
         next[<<pick[s], f[s \ {pick[s]}]>>] = Referring(pick[s], f[s \ {pick[s]}], w)
  <2> SUFFICES ASSUME NEW s \in SUBSET S, s # {}
               PROVE  next[<<pick[s], f[s \ {pick[s]}]>>] = Referring(pick[s], f[s \ {pick[s]}], w)
    OBVIOUS
  <2>1. pick[s] \in S /\ f[s \ {pick[s]}] \in A
    <3> HIDE DEF pick
    <3> QED
      BY <1>7 DEF Picks
  <2> HIDE DEF pick, S
  <2> QED
    BY <2>1
<1>10. \A s \in SUBSET S :
         f[s] = IF s = {} THEN base
                ELSE Referring(CHOOSE r \in s : TRUE, f[s \ {CHOOSE r \in s : TRUE}], w)
  <2> HIDE DEF next
  <2>1. \A s \in SUBSET S : s # {} => pick[s] = CHOOSE r \in s : TRUE
    OBVIOUS
  <2> HIDE DEF pick
  <2> QED
    BY <1>8, <1>9, <2>1 DEF Loops
<1>11. ResolvingLoop(f, c, w)
  BY <1>10 DEF ResolvingLoop, base
<1> QED
  BY <1>11

\* What resolving every reference of a commit does to it.
LEMMA AugmentedResolves ==
    ASSUME ListsAreLists, NEW c, CommitOK(c), NEW w, WorldOK(w)
    PROVE  LET e == Augmented(c, w)
           IN  /\ CommitOK(e)
               /\ DOMAIN c \subseteq DOMAIN e
               /\ \A k \in DOMAIN c \ {"moves", "cast", "facts"} : e[k] = c[k]
               /\ Cast(c) \subseteq Cast(e)
               /\ FactSet(c) \subseteq FactSet(e)
               /\ \A m \in Moves(c) : Exists(m, e, w) => m \in Moves(e)
               /\ NewNames(c, w) => NewNames(e, w)
<1>1. CASE Moves(c) = {}
  BY <1>1 DEF Augmented
<1>2. CASE Moves(c) # {}
  <2> DEFINE S == Moves(c)
             base == [c EXCEPT !["moves"] = {}]
             f == CHOOSE g : ResolvingLoop(g, c, w)
             Resolved(s, e) ==
                /\ CommitOK(e) /\ "moves" \in DOMAIN e /\ e["moves"] \subseteq AnyRef
                /\ DOMAIN c \subseteq DOMAIN e
                /\ \A k \in DOMAIN c \ {"moves", "cast", "facts"} : e[k] = c[k]
                /\ Cast(c) \subseteq Cast(e)
                /\ FactSet(c) \subseteq FactSet(e)
                /\ \A m \in s : Exists(m, e, w) => m \in Moves(e)
                /\ NewNames(c, w) => NewNames(e, w)
             Bad == {s \in SUBSET S : ~Resolved(s, f[s])}
  <2>1. ResolvingLoop(f, c, w)
    BY <1>2, ResolvingLoopExists
  <2> HIDE DEF f
  <2>2. \A s \in SUBSET S : f[s] = IF s = {} THEN base
            ELSE Referring(CHOOSE r \in s : TRUE, f[s \ {CHOOSE r \in s : TRUE}], w)
    BY <2>1 DEF ResolvingLoop
  <2>3. Resolved({}, base)
    <3>1. "moves" \in DOMAIN c /\ c = [k \in DOMAIN c |-> c[k]]
      BY <1>2 DEF Moves, ItemsOf, CommitOK
    <3>2. /\ DOMAIN base = DOMAIN c /\ base["moves"] = {}
          /\ \A k \in DOMAIN c \ {"moves"} : base[k] = c[k]
          /\ base = [k \in DOMAIN base |-> base[k]]
      BY <3>1
    <3> HIDE DEF base
    <3>3. Moves(base) = {} /\ Cast(base) = Cast(c) /\ Facts(base) = Facts(c)
      BY <3>2 DEF Moves, Cast, ItemsOf, Facts
    <3>4. CommitOK(base)
      BY <3>2, <3>3, FS_EmptySet DEF CommitOK
    <3>5. FactSet(base) = FactSet(c)
      BY <3>3 DEF FactSet
    <3> QED
      BY <3>1, <3>2, <3>3, <3>4, <3>5 DEF NewNames
  <2>4. ASSUME NEW s \in SUBSET S, s # {}, NEW r \in s, NEW d, Resolved(s \ {r}, d)
        PROVE  Resolved(s, Referring(r, d, w))
    <3> DEFINE e == Referring(r, d, w)
    <3>1. r \in AnyRef
      BY <2>4 DEF CommitOK
    <3>2. Resolves(e, d, r, w)
      BY <2>4, <3>1, ReferringResolves
    <3> HIDE DEF e
    <3>3. \A m \in s : Exists(m, e, w) => m \in Moves(e)
      BY <2>4, <3>2 DEF Resolves
    <3>4. Resolved(s, e)
      BY <2>4, <3>2, <3>3 DEF Resolves
    <3> QED
      BY <3>4 DEF e
  <2> HIDE DEF Resolved, base
  <2>5. Bad = {}
    <3>1. SUFFICES ASSUME Bad # {} PROVE FALSE
      OBVIOUS
    <3>2. Bad \in SUBSET (SUBSET S) /\ IsFiniteSet(S)
      BY DEF CommitOK
    <3>3. PICK s \in Bad : \A x \in s : s \ {x} \notin Bad
      <4> HIDE DEF Bad, S
      <4> QED
        BY <3>1, <3>2, SmallestSubset
    <3>4. s # {}
      BY <2>2, <2>3
    <3> DEFINE r == CHOOSE r \in s : TRUE
    <3>5. r \in s
      BY <3>4
    <3>6. f[s] = Referring(r, f[s \ {r}], w)
      BY <2>2, <3>4
    <3> HIDE DEF r
    <3>7. Resolved(s \ {r}, f[s \ {r}])
      BY <3>3, <3>5
    <3>8. Resolved(s, f[s])
      BY <2>4, <3>4, <3>5, <3>6, <3>7
    <3> QED
      BY <3>8
  <2>6. Resolved(S, f[S])
    BY <2>5
  <2>7. Augmented(c, w) = f[S]
    BY <1>2, AugmentedIsLoop DEF f
  <2> QED
    BY <2>6, <2>7 DEF Resolved
<1> QED
  BY <1>1, <1>2

-----------------------------------------------------------------------------
(* What a repair may bring.                                                 *)

RevisionsOf(k) == IF k \in DOMAIN Revisions THEN Revisions[k] ELSE {{}}

\* The repairs in rs, each with one more key.
Extended(k, rs) == rs \cup {Updated(r, [key \in {k} |-> v]) : v \in RevisionsOf(k), r \in rs}

NoRepair == [k \in {} |-> {}]

RepairLoop(f, F) ==
    f = [s \in SUBSET F |->
            IF s = {} THEN {NoRepair}
            ELSE Extended(CHOOSE k \in s : TRUE, f[s \ {CHOOSE k \in s : TRUE}])]

LEMMA RepairsIsLoop ==
    ASSUME NEW F
    PROVE  Repairs(F) = (CHOOSE f : RepairLoop(f, F))[F]
  BY DEF Repairs, FoldSet, MapThenFoldSet, RepairLoop, Extended, RevisionsOf, NoRepair

\* A repair of keys in F.
RepairOf(r, F) ==
    /\ r = [k \in DOMAIN r |-> r[k]] /\ DOMAIN r \subseteq F
    /\ \A k \in DOMAIN r : r[k] \in RevisionsOf(k)

LEMMA ExtendedRepairs ==
    ASSUME NEW F, NEW k, NEW rs, \A r \in rs : RepairOf(r, F)
    PROVE  \A r \in Extended(k, rs) : RepairOf(r, F \cup {k})
<1>1. ASSUME NEW r \in rs PROVE RepairOf(r, F \cup {k})
  BY DEF RepairOf
<1>2. ASSUME NEW v \in RevisionsOf(k), NEW r \in rs
      PROVE  RepairOf(Updated(r, [key \in {k} |-> v]), F \cup {k})
  <2> DEFINE q == Updated(r, [key \in {k} |-> v])
  <2>1. /\ DOMAIN q = DOMAIN r \cup {k} /\ q = [j \in DOMAIN q |-> q[j]]
        /\ \A j \in DOMAIN q : q[j] = IF j = k THEN v ELSE r[j]
    BY DEF Updated
  <2> HIDE DEF q
  <2>2. RepairOf(q, F \cup {k})
    BY <2>1 DEF RepairOf
  <2> QED
    BY <2>2 DEF q
<1> QED
  BY <1>1, <1>2 DEF Extended

LEMMA RepairLoopExists ==
    ASSUME NEW F, IsFiniteSet(F)
    PROVE  \E f : RepairLoop(f, F)
<1> DEFINE V == UNION {RevisionsOf(k) : k \in F}
           R == UNION {[D -> V] : D \in SUBSET F}
           A == {rs \in SUBSET R : \A r \in rs : RepairOf(r, F)}
           next == [p \in F \X A |-> Extended(p[1], p[2])]
           pick == [s \in SUBSET F |-> IF s = {} THEN {} ELSE CHOOSE k \in s : TRUE]
<1>1. \A r : RepairOf(r, F) => r \in R
  <2> SUFFICES ASSUME NEW r, RepairOf(r, F) PROVE r \in R
    OBVIOUS
  <2>1. DOMAIN r \in SUBSET F /\ r = [k \in DOMAIN r |-> r[k]]
    BY DEF RepairOf
  <2>2. \A k \in DOMAIN r : r[k] \in V
    BY DEF RepairOf
  <2> HIDE DEF V
  <2>3. r \in [DOMAIN r -> V]
    BY <2>1, <2>2
  <2> QED
    BY <2>1, <2>3
<1> HIDE DEF R
<1>2. {NoRepair} \in A
  <2>1. RepairOf(NoRepair, F)
    BY DEF RepairOf, NoRepair
  <2> QED
    BY <1>1, <2>1
<1>3. ASSUME NEW k \in F, NEW rs \in A PROVE Extended(k, rs) \in A
  <2>1. F \cup {k} = F
    OBVIOUS
  <2>2. \A r \in Extended(k, rs) : RepairOf(r, F)
    BY <2>1, ExtendedRepairs
  <2> QED
    BY <1>1, <2>2
<1> HIDE DEF A
<1>4. next \in [F \X A -> A]
  BY <1>3
<1>5. Picks(pick, F)
  BY DEF Picks
<1>6. PICK f \in [SUBSET F -> A] : Loops(f, F, {NoRepair}, next, pick)
  <2> HIDE DEF next, pick
  <2> QED
    BY <1>2, <1>4, <1>5, LoopExists
<1>7. \A s \in SUBSET F : s # {} =>
         next[<<pick[s], f[s \ {pick[s]}]>>] = Extended(pick[s], f[s \ {pick[s]}])
  <2> SUFFICES ASSUME NEW s \in SUBSET F, s # {}
               PROVE  next[<<pick[s], f[s \ {pick[s]}]>>] = Extended(pick[s], f[s \ {pick[s]}])
    OBVIOUS
  <2>1. pick[s] \in F /\ f[s \ {pick[s]}] \in A
    <3> HIDE DEF pick
    <3> QED
      BY <1>5 DEF Picks
  <2> HIDE DEF pick
  <2> QED
    BY <2>1
<1>8. \A s \in SUBSET F :
         f[s] = IF s = {} THEN {NoRepair}
                ELSE Extended(CHOOSE k \in s : TRUE, f[s \ {CHOOSE k \in s : TRUE}])
  <2> HIDE DEF next
  <2>1. \A s \in SUBSET F : s # {} => pick[s] = CHOOSE k \in s : TRUE
    OBVIOUS
  <2> HIDE DEF pick
  <2> QED
    BY <1>6, <1>7, <2>1 DEF Loops
<1>9. RepairLoop(f, F)
  BY <1>8 DEF RepairLoop
<1> QED
  BY <1>9

\* A repair gives nothing but failing keys, each a value it may be repaired with.
LEMMA RepairsAreOfFailing ==
    ASSUME NEW F, IsFiniteSet(F), NEW r \in Repairs(F)
    PROVE  RepairOf(r, F)
<1> DEFINE f == CHOOSE g : RepairLoop(g, F)
           Bad == {s \in SUBSET F : ~ \A q \in f[s] : RepairOf(q, s)}
<1>1. RepairLoop(f, F)
  BY RepairLoopExists
<1>2. Repairs(F) = f[F]
  BY RepairsIsLoop
<1> HIDE DEF f
<1>3. \A s \in SUBSET F : f[s] = IF s = {} THEN {NoRepair}
          ELSE Extended(CHOOSE k \in s : TRUE, f[s \ {CHOOSE k \in s : TRUE}])
  BY <1>1 DEF RepairLoop
<1>4. Bad = {}
  <2>1. SUFFICES ASSUME Bad # {} PROVE FALSE
    OBVIOUS
  <2>2. Bad \in SUBSET (SUBSET F)
    OBVIOUS
  <2>3. PICK s \in Bad : \A x \in s : s \ {x} \notin Bad
    <3> HIDE DEF Bad
    <3> QED
      BY <2>1, <2>2, SmallestSubset
  <2>4. s # {}
    <3>1. RepairOf(NoRepair, {})
      BY DEF RepairOf, NoRepair
    <3> QED
      BY <1>3, <3>1
  <2> DEFINE k == CHOOSE k \in s : TRUE
  <2>5. k \in s
    BY <2>4
  <2>6. f[s] = Extended(k, f[s \ {k}])
    BY <1>3, <2>4
  <2> HIDE DEF k
  <2>7. \A q \in f[s \ {k}] : RepairOf(q, s \ {k})
    BY <2>3, <2>5
  <2>8. \A q \in Extended(k, f[s \ {k}]) : RepairOf(q, (s \ {k}) \cup {k})
    BY <2>7, ExtendedRepairs
  <2>9. (s \ {k}) \cup {k} = s
    BY <2>5
  <2> QED
    BY <2>6, <2>8, <2>9
<1>5. \A q \in f[F] : RepairOf(q, F)
  BY <1>4
<1> QED
  BY <1>2, <1>5

-----------------------------------------------------------------------------
(* The commit of a turn, whatever the model answers.                        *)

\* No model names anybody by the id of a mint, which it has not seen yet.
NoMintWritten ==
    /\ \A d \in Drafts : \A f \in FactSet(d) : f.subject \notin AutoIds
    /\ \A v \in Revisions["facts"] : \A f \in FactSet([facts |-> v]) : f.subject \notin AutoIds

\* c may be the commit of this turn, before its references are resolved.
Usable(c) == CommitOK(c) /\ (NoMintWritten => NewNames(c, world))

\* What of a commit an update can change.
SectionsOK(r) ==
    /\ r = [k \in DOMAIN r |-> r[k]]
    /\ IsFiniteSet(DOMAIN r)
    /\ Moves(r) \subseteq AnyRef /\ IsFiniteSet(Moves(r))
    /\ Cast(r) \subseteq AnyPerson
    /\ Facts(r) \in Seq(AnyFact)

LEMMA UpdatedOK ==
    ASSUME NEW c, CommitOK(c), NEW r, SectionsOK(r)
    PROVE  /\ CommitOK(Updated(c, r))
           /\ FactSet(Updated(c, r)) \subseteq FactSet(c) \cup FactSet(r)
<1> DEFINE e == Updated(c, r)
<1>1. /\ DOMAIN e = DOMAIN c \cup DOMAIN r
      /\ e = [k \in DOMAIN e |-> e[k]]
      /\ \A k \in DOMAIN e : e[k] = IF k \in DOMAIN r THEN r[k] ELSE c[k]
  BY DEF Updated
<1> HIDE DEF e
<1>2. Moves(e) = IF "moves" \in DOMAIN r THEN Moves(r) ELSE Moves(c)
  BY <1>1 DEF Moves, ItemsOf
<1>3. Cast(e) = IF "cast" \in DOMAIN r THEN Cast(r) ELSE Cast(c)
  BY <1>1 DEF Cast, ItemsOf
<1>4. Facts(e) = IF "facts" \in DOMAIN r THEN Facts(r) ELSE Facts(c)
  BY <1>1 DEF Facts
<1>5. IsFiniteSet(DOMAIN e)
  <2>1. IsFiniteSet(DOMAIN c) /\ IsFiniteSet(DOMAIN r)
    BY DEF CommitOK, SectionsOK
  <2> QED
    BY <1>1, <2>1, FS_Union
<1>6. CommitOK(e)
  BY <1>1, <1>2, <1>3, <1>4, <1>5 DEF CommitOK, SectionsOK
<1>7. FactSet(e) \subseteq FactSet(c) \cup FactSet(r)
  BY <1>4 DEF FactSet
<1> QED
  BY <1>6, <1>7 DEF e

LEMMA ProseUsable ==
    ASSUME NEW n
    PROVE  /\ CommitOK(Just(n)) /\ FactSet(Just(n)) = {}
           /\ \A w : NewNames(Just(n), w)
<1> DEFINE c == Just(n)
<1>1. DOMAIN c = {"narration"} /\ c = [k \in DOMAIN c |-> c[k]]
  BY DEF Just
<1> HIDE DEF c
<1>2. Moves(c) = {} /\ Cast(c) = {} /\ Facts(c) = <<>>
  BY <1>1 DEF Moves, Cast, ItemsOf, Facts
<1>3. IsFiniteSet(DOMAIN c)
  BY <1>1, FS_Singleton
<1>4. CommitOK(c)
  BY <1>1, <1>2, <1>3, FS_EmptySet DEF CommitOK
<1>5. FactSet(c) = {}
  BY <1>2 DEF FactSet
<1> QED
  BY <1>4, <1>5 DEF c, NewNames

LEMMA DraftUsable ==
    ASSUME NEW d \in Drafts PROVE Usable(d)
<1>1. CommitOK(d)
  BY DraftIsCommit, DraftsAssumption
<1> QED
  BY <1>1 DEF Usable, NewNames, NoMintWritten

LEMMA AnswerUsable ==
    ASSUME NEW a \in Answers
    PROVE  /\ Usable(DataOrSafe(a))
           /\ a.form = "json" => Usable(a.draft)
<1>1. \A n : Usable(Just(n))
  BY ProseUsable DEF Usable
<1>2. CASE \E d \in Drafts : a = [form |-> "json", draft |-> d]
  BY <1>2, DraftUsable DEF DataOrSafe
<1>3. CASE \E n : \E f \in {"cut", "prose"} : a = [form |-> f, draft |-> Just(n)]
  BY <1>1, <1>3 DEF DataOrSafe
<1>4. CASE a = [form |-> "blob", draft |-> NoCommit]
  BY <1>1, <1>4 DEF DataOrSafe
<1> QED
  BY <1>2, <1>3, <1>4 DEF Answers

\* Two commits of this turn put together.
LEMMA TogetherUsable ==
    ASSUME NEW c, Usable(c), NEW d, Usable(d)
    PROVE  Usable(Updated(c, d))
<1>1. SectionsOK(d)
  BY DEF SectionsOK, CommitOK, Usable
<1> QED
  BY <1>1, UpdatedOK DEF Usable, NewNames

LEMMA FailingIsFinite ==
    ASSUME NEW c, CommitOK(c), NEW w
    PROVE  IsFiniteSet(Failing(c, w))
<1> DEFINE K == DOMAIN c \cup {"narration", "moves", "cast", "facts", "clock"}
<1>1. IsFiniteSet({"narration", "moves", "cast", "facts", "clock"})
  <2>1. IsFiniteSet({}) 
    BY FS_EmptySet
  <2>2. \A S, x : IsFiniteSet(S) => IsFiniteSet(S \cup {x})
    BY FS_AddElement
  <2>3. IsFiniteSet((((({} \cup {"narration"}) \cup {"moves"}) \cup {"cast"}) \cup {"facts"}) \cup {"clock"})
    BY <2>1, <2>2
  <2>4. (((({} \cup {"narration"}) \cup {"moves"}) \cup {"cast"}) \cup {"facts"}) \cup {"clock"}
            = {"narration", "moves", "cast", "facts", "clock"}
    OBVIOUS
  <2> QED
    BY <2>3, <2>4
<1>2. IsFiniteSet(K)
  BY <1>1, FS_Union DEF CommitOK
<1>3. Failing(c, w) \subseteq K
  BY DEF Failing, Unowned, Missing, Required, Owned, Sections
<1> QED
  BY <1>2, <1>3, FS_Subset

LEMMA RepairSections ==
    ASSUME NEW F, IsFiniteSet(F), NEW r, RepairOf(r, F)
    PROVE  SectionsOK(r) /\ (NoMintWritten => \A f \in FactSet(r) : f.subject \notin AutoIds)
<1> DEFINE alone(k) == Updated([narration |-> "empty"], [key \in {k} |-> r[k]])
<1>1. \A k \in DOMAIN r \cap Owned : r[k] \in Revisions[k] /\ k \in DOMAIN Revisions
  BY DraftsAssumption DEF RepairOf, RevisionsOf
<1>2. \A k \in DOMAIN r \cap Owned : CommitOK(alone(k))
  BY <1>1, DraftIsCommit, DraftsAssumption
<1>3. \A k \in DOMAIN r : k \in DOMAIN alone(k) /\ alone(k)[k] = r[k]
  BY DEF Updated
<1> HIDE DEF alone
<1>4. Moves(r) \subseteq AnyRef /\ IsFiniteSet(Moves(r))
  <2>1. CASE "moves" \in DOMAIN r
    BY <1>2, <1>3, <2>1 DEF Moves, ItemsOf, CommitOK, Owned
  <2>2. CASE "moves" \notin DOMAIN r
    BY <2>2, FS_EmptySet DEF Moves, ItemsOf
  <2> QED
    BY <2>1, <2>2
<1>5. Cast(r) \subseteq AnyPerson
  <2>1. CASE "cast" \in DOMAIN r
    BY <1>2, <1>3, <2>1 DEF Cast, ItemsOf, CommitOK, Owned
  <2>2. CASE "cast" \notin DOMAIN r
    BY <2>2 DEF Cast, ItemsOf
  <2> QED
    BY <2>1, <2>2
<1>6. Facts(r) \in Seq(AnyFact)
  <2>1. CASE "facts" \in DOMAIN r
    BY <1>2, <1>3, <2>1 DEF Facts, CommitOK, Owned
  <2>2. CASE "facts" \notin DOMAIN r
    BY <2>2 DEF Facts
  <2> QED
    BY <2>1, <2>2
<1>7. IsFiniteSet(DOMAIN r)
  BY FS_Subset DEF RepairOf
<1>8. SectionsOK(r)
  BY <1>4, <1>5, <1>6, <1>7 DEF SectionsOK, RepairOf
<1>9. ASSUME NoMintWritten PROVE \A f \in FactSet(r) : f.subject \notin AutoIds
  <2>1. CASE "facts" \in DOMAIN r
    <3>1. r["facts"] \in Revisions["facts"]
      BY <1>1, <2>1 DEF Owned
    <3>2. Facts(r) = Facts([facts |-> r["facts"]])
      BY <2>1 DEF Facts
    <3> QED
      BY <1>9, <3>1, <3>2 DEF NoMintWritten, FactSet
  <2>2. CASE "facts" \notin DOMAIN r
    BY <2>2 DEF FactSet, Facts
  <2> QED
    BY <2>1, <2>2
<1> QED
  BY <1>8, <1>9

LEMMA MergedUsable ==
    ASSUME Usable(commit), NEW r \in Repairs(Failing(commit, world))
    PROVE  /\ Usable(Merged(r, commit))
           /\ DOMAIN r \subseteq Failing(commit, world)
<1>1. IsFiniteSet(Failing(commit, world))
  BY FailingIsFinite DEF Usable
<1>2. RepairOf(r, Failing(commit, world))
  BY <1>1, RepairsAreOfFailing
<1>3. SectionsOK(r) /\ (NoMintWritten => \A f \in FactSet(r) : f.subject \notin AutoIds)
  BY <1>1, <1>2, RepairSections
<1>4. /\ CommitOK(Merged(r, commit))
      /\ FactSet(Merged(r, commit)) \subseteq FactSet(commit) \cup FactSet(r)
  BY <1>3, UpdatedOK DEF Merged, Usable
<1> QED
  BY <1>2, <1>3, <1>4 DEF Usable, NewNames, RepairOf

-----------------------------------------------------------------------------
(* The turn under way and the world.                                        *)

\* What is recorded is recorded of somebody; the commit is one, and whom it names
\* anew bears no recorded name.
TurnOK ==
    /\ WorldOK(world)
    /\ \A f \in world.trueNames : f.subject \in world.people
    /\ Usable(commit)

LEMMA ValidateUsable ==
    ASSUME ListsAreLists, WorldOK(world), NEW c, Usable(c), NEW n, Validate(c, n)
    PROVE  CommitOK(commit') /\ (NoMintWritten => NewNames(commit', world))
<1>1. CommitOK(NoCommit) /\ NewNames(NoCommit, world)
  BY ProseUsable DEF NoCommit
<1>2. CommitOK(Augmented(c, world)) /\ (NewNames(c, world) => NewNames(Augmented(c, world), world))
  BY AugmentedResolves DEF Usable
<1>3. commit' = NoCommit \/ commit' = Augmented(c, world)
  BY DEF Validate
<1> QED
  BY <1>1, <1>2, <1>3 DEF Usable

LEMMA AppliedWorld ==
    ASSUME NEW c, CommitOK(c), NEW w, WorldOK(w), \A f \in w.trueNames : f.subject \in w.people,
           \A f \in FactSet(c) : f.subject \in Applied(c, w).people
    PROVE  LET v == Applied(c, w)
           IN  /\ WorldOK(v) /\ \A f \in v.trueNames : f.subject \in v.people
               /\ w.people \subseteq v.people
               /\ v.trueNames \subseteq w.trueNames \cup FactSet(c)
<1> DEFINE v == Applied(c, w)
<1>1. v.people = w.people \cup {p.id : p \in {q \in Cast(c) : q.whole}}
  BY DEF Applied
<1>2. v.trueNames \subseteq w.trueNames \cup FactSet(c)
  BY DEF Applied
<1> HIDE DEF v
<1>3. FactSet(c) \subseteq AnyFact
  BY DEF FactSet, CommitOK
<1>4. {p.id : p \in {q \in Cast(c) : q.whole}} \subseteq AnyId
  BY DEF CommitOK, AnyPerson
<1>5. WorldOK(v)
  BY <1>1, <1>2, <1>3, <1>4 DEF WorldOK
<1>6. \A f \in v.trueNames : f.subject \in v.people
  BY <1>1, <1>2 DEF v
<1> QED
  BY <1>1, <1>2, <1>5, <1>6 DEF v

LEMMA TurnInvariance == ASSUME ListsAreLists PROVE Spec => []TurnOK
<1>1. Init => TurnOK
  <2> SUFFICES ASSUME Init PROVE TurnOK
    OBVIOUS
  <2>1. Usable(commit)
    BY ProseUsable DEF Init, Usable, NoCommit
  <2>2. world.people = Known /\ world.trueNames = {}
    BY DEF Init, Genesis
  <2>3. Known \subseteq AnyId
    BY DEF AnyId, Ids
  <2> QED
    BY <2>1, <2>2, <2>3 DEF TurnOK, WorldOK
<1>2. TurnOK /\ NobodyImaginary /\ [Next]_vars => TurnOK'
  <2> SUFFICES ASSUME TurnOK, NobodyImaginary, [Next]_vars PROVE TurnOK'
    OBVIOUS
  <2> DEFINE Replies == \E c, n : Usable(c) /\ Validate(c, n) /\ UNCHANGED world
  <2>1. CASE Replies
    BY <2>1, ValidateUsable DEF TurnOK, Usable
  <2>2. CASE commit' = commit /\ UNCHANGED world
    BY <2>2 DEF TurnOK, Usable
  <2>3. ASSUME NEW n, commit' = Just(n), UNCHANGED world PROVE TurnOK'
    BY <2>3, ProseUsable DEF TurnOK, Usable
  <2>4. ASSUME NEW c, Usable(c), commit' = c, UNCHANGED world PROVE TurnOK'
    BY <2>4 DEF TurnOK, Usable
  <2> HIDE DEF Replies
  <2>5. CASE Start
    BY <2>2, <2>5 DEF Start
  <2>6. CASE CallTools
    BY <2>2, <2>6 DEF CallTools
  <2>7. CASE Tell
    BY <2>3, <2>7 DEF Tell
  <2>8. ASSUME NEW a \in Answers, Answer(a) PROVE TurnOK'
    <3>1. UNCHANGED world
      BY <2>8 DEF Answer
    <3>2. CASE strategy = "hybrid"
      <4>1. Validate(Structured(a), 0)
        BY <2>8, <3>2 DEF Answer
      <4>2. Usable(Structured(a))
        BY AnswerUsable, TogetherUsable DEF Structured, TurnOK
      <4> QED
        BY <2>1, <3>1, <4>1, <4>2 DEF Replies
    <3>3. CASE strategy # "hybrid" /\ strategy = "tools" /\ a.form # "json"
      <4>1. commit' = DataOrSafe(a)
        BY <2>8, <3>3 DEF Answer
      <4> QED
        BY <2>4, <3>1, <4>1, AnswerUsable
    <3>4. CASE strategy # "hybrid" /\ ~(strategy = "tools" /\ a.form # "json")
      <4>1. Validate(DataOrSafe(a), 0)
        BY <2>8, <3>4 DEF Answer
      <4> QED
        BY <2>1, <3>1, <4>1, AnswerUsable DEF Replies
    <3> QED
      BY <3>2, <3>3, <3>4
  <2>9. ASSUME NEW a \in Answers, AskAgain(a) PROVE TurnOK'
    <3> DEFINE c == IF a.form = "json" THEN Wrapped(a.draft) ELSE commit
    <3>1. UNCHANGED world /\ Validate(c, 0)
      BY <2>9 DEF AskAgain
    <3>2. Usable(c)
      BY AnswerUsable, TogetherUsable DEF Wrapped, TurnOK
    <3> QED
      BY <2>1, <3>1, <3>2 DEF Replies
  <2>10. ASSUME NEW r \in Repairs(Failing(commit, world)), Repair(r) PROVE TurnOK'
    <3>1. UNCHANGED world /\ Validate(Merged(r, commit), attempts + 1)
      BY <2>10 DEF Repair
    <3>2. Usable(Merged(r, commit))
      BY MergedUsable DEF TurnOK
    <3> QED
      BY <2>1, <3>1, <3>2 DEF Replies
  <2>11. CASE Retry
    BY <2>2, <2>11 DEF Retry
  <2>12. CASE CallFails
    <3>1. UNCHANGED world
      BY <2>12 DEF CallFails
    <3>2. Validate(commit, 0) \/ commit' = Just("empty")
      BY <2>12 DEF CallFails, Abandoned, NoCommit
    <3> QED
      BY <2>1, <2>3, <3>1, <3>2 DEF Replies, TurnOK
  <2>13. CASE Publish
    <3>1. pc = "accepted" /\ world' = Applied(commit, world) /\ commit' = Just("empty")
      BY <2>13 DEF Publish, Abandoned, NoCommit
    <3>2. \A f \in FactSet(commit) : f.subject \in Applied(commit, world).people
      BY <3>1 DEF NobodyImaginary
    <3>3. WorldOK(world') /\ \A f \in world'.trueNames : f.subject \in world'.people
      BY <3>1, <3>2, AppliedWorld DEF TurnOK, Usable
    <3> QED
      BY <3>1, <3>3, ProseUsable DEF TurnOK, Usable
  <2>14. CASE Drop
    BY <2>3, <2>14 DEF Drop, Abandoned, NoCommit
  <2>15. CASE UNCHANGED vars
    BY <2>2, <2>15 DEF vars
  <2> QED
    BY <2>5, <2>6, <2>7, <2>8, <2>9, <2>10, <2>11, <2>12, <2>13, <2>14, <2>15 DEF Next, Step
<1> QED
  BY <1>1, <1>2, NobodyIsImaginary, PTL DEF Spec

\* "narration + passing sections stay untouched" (loop/turn.py, produce_turn), for
\* every draft and every repair: no repair takes anything from what had passed,
\* although the references are resolved again, with mints, after it.
THEOREM RepairsTakeNothing == ASSUME ListsAreLists PROVE Spec => PassingSectionsKept
<1> DEFINE passed == DOMAIN commit \ Failing(commit, world)
           Kept ==
             /\ passed \subseteq DOMAIN commit'
             /\ "narration" \in passed => commit'["narration"] = commit["narration"]
             /\ "moves" \in passed =>
                   {m \in Moves(commit) : Exists(m, commit', world)} \subseteq Moves(commit')
             /\ "cast" \in passed => Cast(commit) \subseteq Cast(commit')
             /\ "facts" \in passed => FactSet(commit) \subseteq FactSet(commit')
             /\ "clock" \in passed => commit'["clock"] = commit["clock"]
<1>1. ASSUME TurnOK, RepairStep, pc' # "idle" PROVE Kept
  <2>1. PICK r \in Repairs(Failing(commit, world)) : Repair(r)
    BY <1>1 DEF RepairStep
  <2> DEFINE c == Merged(r, commit)
             e == Augmented(c, world)
  <2>2. commit' = e
    BY <1>1, <2>1 DEF Repair, Validate
  <2>3. CommitOK(c) /\ DOMAIN r \subseteq Failing(commit, world)
    BY <1>1, MergedUsable DEF TurnOK, Usable
  <2>4. DOMAIN c = DOMAIN commit \cup DOMAIN r /\ \A k \in passed : k \in DOMAIN c /\ c[k] = commit[k]
    BY <2>3 DEF Merged, Updated
  <2>5. /\ DOMAIN c \subseteq DOMAIN e
        /\ \A k \in DOMAIN c \ {"moves", "cast", "facts"} : e[k] = c[k]
        /\ Cast(c) \subseteq Cast(e)
        /\ FactSet(c) \subseteq FactSet(e)
        /\ \A m \in Moves(c) : Exists(m, e, world) => m \in Moves(e)
    <3> HIDE DEF c
    <3> QED
      BY <1>1, <2>3, AugmentedResolves DEF TurnOK
  <2>6. "moves" \in passed => Moves(c) = Moves(commit)
    BY <2>4 DEF Moves, ItemsOf
  <2>7. "cast" \in passed => Cast(c) = Cast(commit)
    BY <2>4 DEF Cast, ItemsOf
  <2>8. "facts" \in passed => FactSet(c) = FactSet(commit)
    BY <2>4 DEF FactSet, Facts
  <2> HIDE DEF c, e, passed
  <2> QED
    BY <2>2, <2>4, <2>5, <2>6, <2>7, <2>8
<1>2. TurnOK => [RepairStep /\ pc' # "idle" => Kept]_vars
  BY <1>1
<1> QED
  BY <1>2, TurnInvariance, PTL DEF PassingSectionsKept

\* Nobody is minted for a name that the world records as somebody's: as long as no
\* model writes the id of a mint itself, a name leads to its bearer in every turn.
THEOREM NamesLeadToBearers ==
    ASSUME ListsAreLists, NoMintWritten PROVE Spec => RecordedNamesNotMinted
<1> DEFINE minted == AutoIds \cap (world'.people \ world.people)
           Apart == \A f \in world'.trueNames :
                       f.subject \in minted => \A g \in world.trueNames : g.name # f.name
<1>1. ASSUME TurnOK, NobodyImaginary, [Next]_vars PROVE Apart
  <2>1. CASE UNCHANGED world
    BY <2>1
  <2>2. CASE Publish
    <3>1. pc = "accepted" /\ world' = Applied(commit, world)
      BY <2>2 DEF Publish
    <3>2. \A f \in FactSet(commit) : f.subject \in Applied(commit, world).people
      BY <1>1, <3>1 DEF NobodyImaginary
    <3>3. world'.trueNames \subseteq world.trueNames \cup FactSet(commit)
      BY <1>1, <3>1, <3>2, AppliedWorld DEF TurnOK, Usable
    <3>4. \A f \in world.trueNames : f.subject \notin minted
      BY <1>1 DEF TurnOK
    <3>5. NewNames(commit, world)
      BY <1>1 DEF TurnOK, Usable
    <3> QED
      BY <3>3, <3>4, <3>5 DEF NewNames
  <2>3. Publish \/ UNCHANGED world
    BY <1>1 DEF Next, Step, Start, CallTools, Tell, Answer, AskAgain, Repair, Retry, CallFails,
                Drop, vars
  <2> QED
    BY <2>1, <2>2, <2>3
<1>2. TurnOK /\ NobodyImaginary /\ [Next]_vars => [Apart]_vars
  BY <1>1
<1> QED
  BY <1>2, TurnInvariance, NobodyIsImaginary, PTL DEF Spec, RecordedNamesNotMinted

=============================================================================
