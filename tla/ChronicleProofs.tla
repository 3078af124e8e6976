--------------------------- MODULE ChronicleProofs ---------------------------
(***************************************************************************)
(* Proofs about Chronicle, for any people, places, amounts, clock advances, *)
(* commits of any length and any bounds: that the world a session works on  *)
(* is the fold of its events, that the past stands, that the purse is what  *)
(* was settled and that a published turn leaves nothing open.               *)
(***************************************************************************)
EXTENDS Chronicle, DataLemmas, SequenceTheorems, TLAPS

-----------------------------------------------------------------------------
(* The values of the model. *)

Values == Places \cup Tiers \cup Int \cup {Nothing}

\* What the value of an event of each kind is.
Fits(e) ==
    /\ e.kind = "moved" => e.value \in Places
    /\ e.kind \in {"created", "declared"} => e.value \in Tiers
    /\ e.kind = "scene" => e.value \in Places \cup {Nothing}
    /\ e.kind \in {"fact", "configured", "resolved"} => e.who = Hero
    /\ e.kind \in {"fact", "configured", "resolved", "clock", "evolved"} => e.value \in Int

Events == {e \in [kind : Kinds, turn : Nat, day : Nat \ {0}, who : People, value : Values] :
              Fits(e)}

Histories(V) == Seq([value : V, start : Nat \ {0}, end : Nat \cup {Nothing}])

Worlds ==
    [day : (Nat \ {0}) \cup {Nothing}, band : 0 .. BandsPerDay - 1, ok : BOOLEAN,
     place : [People -> Histories(Places)], purse : Histories(Int), ruled : BOOLEAN,
     tier : [People -> Tiers \cup {Nothing}], seen : [People -> (Nat \ {0}) \cup {Nothing}],
     sceneNo : Nat, anchor : {Nothing} \cup [at : Places \cup {Nothing}, day : Nat]]

\* Nothing is no number.
LEMMA NoNumber == Nothing \notin Int /\ Nothing \notin Nat
  BY NothingAssumption

LEMMA EventFields ==
    ASSUME NEW e \in Events
    PROVE  /\ e.kind \in Kinds /\ e.turn \in Nat /\ e.day \in Nat /\ e.day >= 1
           /\ e.who \in People /\ e.value \in Values /\ Fits(e)
  BY DEF Events

LEMMA WorldFields ==
    ASSUME NEW w \in Worlds
    PROVE  /\ w.day \in (Nat \ {0}) \cup {Nothing} /\ w.band \in 0 .. 3 /\ w.ok \in BOOLEAN
           /\ w.place \in [People -> Histories(Places)] /\ w.purse \in Histories(Int)
           /\ w.ruled \in BOOLEAN /\ w.tier \in [People -> Tiers \cup {Nothing}]
           /\ w.seen \in [People -> (Nat \ {0}) \cup {Nothing}] /\ w.sceneNo \in Nat
           /\ w.anchor \in {Nothing} \cup [at : Places \cup {Nothing}, day : Nat]
  BY DEF Worlds, BandsPerDay

\* A value that was replaced ends, the new one begins: a history stays one.
Superseded(s, h, v, day) ==
    /\ Len(s) = Len(h) + 1
    /\ \A i \in 1..Len(h) : s[i] = IF Current(h[i]) THEN [h[i] EXCEPT !.end = day] ELSE h[i]
    /\ s[Len(h) + 1] = Dated(v, day)

LEMMA SupersedeTyped ==
    ASSUME NEW V, NEW h \in Histories(V), NEW v \in V, NEW day \in Nat \ {0}
    PROVE  /\ Supersede(h, v, day) \in Histories(V)
           /\ Superseded(Supersede(h, v, day), h, v, day)
<1> DEFINE D == [value : V, start : Nat \ {0}, end : Nat \cup {Nothing}]
           Close(f) == IF Current(f) THEN [f EXCEPT !.end = day] ELSE f
           c == [i \in DOMAIN h |-> Close(h[i])]
<1>1. Len(h) \in Nat /\ DOMAIN h = 1..Len(h) /\ \A i \in 1..Len(h) : h[i] \in D
  BY LenProperties DEF Histories
<1>2. \A i \in 1..Len(h) : Close(h[i]) \in D
  BY <1>1
<1>3. Dated(v, day) \in D
  BY DEF Dated
<1>4. Supersede(h, v, day) = Append(c, Dated(v, day))
  BY DEF Supersede
<1> HIDE DEF D
<1>5. c \in Seq(D) /\ Len(c) = Len(h) /\ \A i \in 1..Len(h) : c[i] = Close(h[i])
  BY <1>1, <1>2
<1> HIDE DEF c
<1>6. /\ Append(c, Dated(v, day)) \in Seq(D)
      /\ Len(Append(c, Dated(v, day))) = Len(c) + 1
      /\ \A i \in 1..Len(c) : Append(c, Dated(v, day))[i] = c[i]
      /\ Append(c, Dated(v, day))[Len(c) + 1] = Dated(v, day)
  BY <1>3, <1>5, AppendProperties
<1> QED
  BY <1>4, <1>5, <1>6 DEF Histories, D, Superseded

LEMMA ValueAtTyped ==
    ASSUME NEW V, NEW h \in Histories(V), NEW day
    PROVE  ValueAt(h, day) \in V \cup {Nothing}
<1> DEFINE valid == {i \in DOMAIN h : ValidAt(h[i], day)}
<1>1. SUFFICES ASSUME valid # {} PROVE h[Min(valid)].value \in V
  BY DEF ValueAt
<1>2. DOMAIN h = 1..Len(h) /\ Len(h) \in Nat
  BY LenProperties DEF Histories
<1>3. valid \in SUBSET Nat /\ valid \subseteq DOMAIN h
  BY <1>2
<1> HIDE DEF valid
<1>4. Min(valid) \in DOMAIN h
  BY <1>1, <1>3, MinOfNumbers
<1> DEFINE D == [value : V, start : Nat \ {0}, end : Nat \cup {Nothing}]
<1>5. \A i \in DOMAIN h : h[i] \in D
  <2>1. h \in Seq(D)
    BY DEF Histories
  <2> HIDE DEF D
  <2> QED
    BY <2>1
<1> QED
  BY <1>4, <1>5

\* A history of places changed for one person.
LEMMA PlaceSuperseded ==
    ASSUME NEW w \in Worlds, NEW p \in People, NEW v \in Places, NEW day \in Nat \ {0}
    PROVE  [w.place EXCEPT ![p] = Supersede(w.place[p], v, day)] \in [People -> Histories(Places)]
<1>1. w.place \in [People -> Histories(Places)]
  BY WorldFields
<1>2. Supersede(w.place[p], v, day) \in Histories(Places)
  BY <1>1, SupersedeTyped
<1> QED
  BY <1>1, <1>2

\* What an event can do to a world, before the day and the checks of the fold.
Effect(w, v, e) ==
    /\ v \in Worlds /\ v.day = w.day /\ v.ok = w.ok
    /\ \/ v.purse = w.purse
       \/ v.purse = Supersede(w.purse, e.value, e.day) /\ e.value \in Int /\ ~(e.kind = "scene")
    /\ \/ v.place = w.place
       \/ /\ e.kind = "moved" /\ e.value \in Places
          /\ v.place = [w.place EXCEPT ![e.who] = Supersede(w.place[e.who], e.value, e.day)]
    /\ w.ruled \/ e.kind = "configured" => v.ruled
    /\ v.band = IF e.kind = "clock" THEN (w.band + e.value) % BandsPerDay ELSE w.band
    /\ v.anchor = IF e.kind = "scene" THEN [at |-> e.value, day |-> e.day] ELSE w.anchor
    /\ \A p \in People : v.seen[p] \in {w.seen[p], Nothing, e.day}

LEMMA EntityAdded ==
    ASSUME NEW w \in Worlds, NEW p \in People, NEW tier \in Tiers
    PROVE  LET v == AddEntity(w, p, tier) IN
           /\ v \in Worlds /\ v.day = w.day /\ v.ok = w.ok /\ v.purse = w.purse
           /\ v.place = w.place /\ v.ruled = w.ruled /\ v.band = w.band
           /\ v.anchor = w.anchor /\ v.sceneNo = w.sceneNo
           /\ \A q \in People : v.seen[q] \in {w.seen[q], Nothing}
  BY DEF AddEntity, Worlds

LEMMA OntologyEffect ==
    ASSUME NEW w \in Worlds, NEW e \in Events, e.kind \in {"declared", "fact"}
    PROVE  Effect(w, OntologyApplied(w, e), e)
<1>1. e.who \in People /\ e.day \in Nat \ {0} /\ Fits(e)
  BY DEF Events
<1>2. CASE e.kind = "declared"
  <2>1. e.value \in Tiers /\ OntologyApplied(w, e) = AddEntity(w, e.who, e.value)
    BY <1>1, <1>2 DEF Fits, OntologyApplied
  <2> QED
    BY <1>1, <1>2, <2>1, EntityAdded DEF Effect
<1>3. CASE e.kind = "fact"
  <2>1. e.value \in Int /\ OntologyApplied(w, e) = [w EXCEPT !.purse = Supersede(w.purse, e.value, e.day)]
    BY <1>1, <1>3 DEF Fits, OntologyApplied
  <2>2. Supersede(w.purse, e.value, e.day) \in Histories(Int)
    BY <1>1, <2>1, SupersedeTyped, WorldFields
  <2> QED
    BY <1>1, <1>3, <2>1, <2>2 DEF Effect, Worlds
<1> QED
  BY <1>2, <1>3

LEMMA CharacterEffect ==
    ASSUME NEW w \in Worlds, NEW e \in Events, e.kind \in {"created", "evolved"}
    PROVE  Effect(w, CharacterApplied(w, e), e)
<1>1. e.who \in People /\ e.day \in Nat \ {0} /\ Fits(e)
  BY DEF Events
<1> DEFINE w1 == CASE e.kind = "created" -> AddEntity(w, e.who, e.value)
                   [] SetsPurse(e) -> [w EXCEPT !.purse = Supersede(@, e.value, e.day)]
                   [] OTHER -> w
           Mid(v) == /\ v \in Worlds /\ v.day = w.day /\ v.ok = w.ok
                     /\ \/ v.purse = w.purse
                        \/ v.purse = Supersede(w.purse, e.value, e.day) /\ e.value \in Int
                     /\ v.place = w.place /\ v.ruled = w.ruled /\ v.band = w.band
                     /\ v.anchor = w.anchor
                     /\ \A p \in People : v.seen[p] \in {w.seen[p], Nothing}
<1>2. Mid(w1)
  <2>1. CASE e.kind = "created"
    <3>1. e.value \in Tiers
      BY <1>1, <2>1 DEF Fits
    <3>2. w1 = AddEntity(w, e.who, e.value)
      BY <2>1 DEF SetsPurse, SetsFact
    <3> HIDE DEF w1
    <3> QED
      BY <1>1, <3>1, <3>2, EntityAdded
  <2>2. CASE e.kind = "evolved" /\ SetsPurse(e)
    <3>1. e.value \in Int /\ w1 = [w EXCEPT !.purse = Supersede(w.purse, e.value, e.day)]
      BY <1>1, <2>2 DEF Fits
    <3>2. Supersede(w.purse, e.value, e.day) \in Histories(Int)
      BY <1>1, <3>1, SupersedeTyped, WorldFields
    <3> QED
      BY <3>1, <3>2 DEF Worlds
  <2>3. CASE e.kind = "evolved" /\ ~SetsPurse(e)
    BY <2>3
  <2> QED
    BY <2>1, <2>2, <2>3
<1>3. CharacterApplied(w, e) = [w1 EXCEPT !.seen[e.who] = e.day]
  BY DEF CharacterApplied
<1> HIDE DEF w1
<1> QED
  BY <1>1, <1>2, <1>3 DEF Effect, Worlds

LEMMA ResourceEffect ==
    ASSUME NEW w \in Worlds, NEW e \in Events, e.kind \in {"configured", "resolved"}
    PROVE  Effect(w, ResourceApplied(w, e), e)
<1>1. e.who \in People /\ e.day \in Nat \ {0} /\ e.value \in Int
  BY DEF Events, Fits
<1>2. Supersede(w.purse, e.value, e.day) \in Histories(Int)
  BY <1>1, SupersedeTyped, WorldFields
<1>3. CASE e.kind = "resolved" /\ e.value = Balance(w)
  BY <1>3 DEF ResourceApplied, Effect
<1>4. CASE ~(e.kind = "resolved" /\ e.value = Balance(w))
  <2>1. ResourceApplied(w, e) = [w EXCEPT !.purse = Supersede(w.purse, e.value, e.day),
                                          !.ruled = w.ruled \/ e.kind = "configured"]
    BY <1>4 DEF ResourceApplied
  <2> QED
    BY <1>1, <1>2, <2>1 DEF Effect, Worlds
<1> QED
  BY <1>3, <1>4

LEMMA PlaceEffect ==
    ASSUME NEW w \in Worlds, NEW e \in Events, e.kind = "moved"
    PROVE  Effect(w, PlaceApplied(w, e), e)
<1>1. e.who \in People /\ e.day \in Nat \ {0} /\ e.value \in Places
  BY DEF Events, Fits
<1>2. [w.place EXCEPT ![e.who] = Supersede(w.place[e.who], e.value, e.day)]
        \in [People -> Histories(Places)]
  BY <1>1, PlaceSuperseded
<1>3. PlaceApplied(w, e)
        = [w EXCEPT !.place = [w.place EXCEPT ![e.who] = Supersede(w.place[e.who], e.value, e.day)]]
  BY DEF PlaceApplied, Worlds
<1> QED
  BY <1>1, <1>2, <1>3 DEF Effect, Worlds

LEMMA TimeEffect ==
    ASSUME NEW w \in Worlds, NEW e \in Events, e.kind \in {"clock", "current"}
    PROVE  Effect(w, TimeApplied(w, e), e)
<1>1. e.who \in People /\ e.day \in Nat \ {0} /\ Fits(e)
  BY DEF Events
<1>2. CASE e.kind = "clock"
  <2>1. e.value \in Int /\ w.band \in Int
    BY <1>1, <1>2, WorldFields DEF Fits
  <2>2. (w.band + e.value) % BandsPerDay \in 0 .. BandsPerDay - 1
    BY <2>1 DEF BandsPerDay
  <2>3. TimeApplied(w, e) = [w EXCEPT !.band = (w.band + e.value) % BandsPerDay]
    BY <1>2 DEF TimeApplied
  <2> DEFINE b == (w.band + e.value) % BandsPerDay
  <2> HIDE DEF b
  <2>4. TimeApplied(w, e) = [w EXCEPT !.band = b] /\ b \in 0 .. BandsPerDay - 1
    BY <2>2, <2>3 DEF b
  <2>5. Effect(w, TimeApplied(w, e), e) <=>
          /\ TimeApplied(w, e) \in Worlds /\ TimeApplied(w, e).day = w.day
          /\ TimeApplied(w, e).ok = w.ok
          /\ \/ TimeApplied(w, e).purse = w.purse
             \/ /\ TimeApplied(w, e).purse = Supersede(w.purse, e.value, e.day)
                /\ e.value \in Int /\ ~(e.kind = "scene")
          /\ TimeApplied(w, e).place = w.place
          /\ w.ruled => TimeApplied(w, e).ruled
          /\ TimeApplied(w, e).band = b /\ TimeApplied(w, e).anchor = w.anchor
          /\ \A p \in People : TimeApplied(w, e).seen[p] \in {w.seen[p], Nothing, e.day}
    BY <1>2 DEF Effect, b
  <2> QED
    BY <2>4, <2>5 DEF Worlds
<1>3. CASE e.kind = "current"
  <2> DEFINE d == IF w.seen[e.who] = Nothing THEN e.day ELSE Max({w.seen[e.who], e.day})
  <2>1. d \in {w.seen[e.who], e.day} /\ d \in Nat \ {0}
    <3>1. w.seen[e.who] \in (Nat \ {0}) \cup {Nothing}
      BY <1>1, WorldFields
    <3>2. CASE w.seen[e.who] = Nothing
      BY <1>1, <3>2
    <3>3. CASE w.seen[e.who] # Nothing
      <4>1. {w.seen[e.who], e.day} \in SUBSET Nat
        BY <1>1, <3>1, <3>3
      <4>2. \A x \in {w.seen[e.who], e.day} : x <= w.seen[e.who] + e.day
        BY <1>1, <3>1, <3>3
      <4>3. Max({w.seen[e.who], e.day}) \in {w.seen[e.who], e.day}
        <5>1. w.seen[e.who] + e.day \in Nat
          BY <1>1, <3>1, <3>3
        <5> QED
          BY <4>1, <4>2, <5>1, MaxOfBounded
      <4> QED
        BY <1>1, <3>1, <3>3, <4>3
    <3> QED
      BY <3>2, <3>3
  <2>2. TimeApplied(w, e) = [w EXCEPT !.seen[e.who] = d]
    BY <1>1, <1>3 DEF TimeApplied, Worlds
  <2> HIDE DEF d
  <2> QED
    BY <1>1, <1>3, <2>1, <2>2 DEF Effect, Worlds
<1> QED
  BY <1>2, <1>3

LEMMA SceneEffect ==
    ASSUME NEW w \in Worlds, NEW e \in Events, e.kind = "scene"
    PROVE  Effect(w, SceneApplied(w, e), e)
<1>1. e.who \in People /\ e.day \in Nat \ {0} /\ e.value \in Places \cup {Nothing}
  BY DEF Events, Fits
<1>2. SceneApplied(w, e) = [w EXCEPT !.sceneNo = w.sceneNo + 1,
                                     !.anchor = [at |-> e.value, day |-> e.day]]
  BY DEF SceneApplied
<1> DEFINE a == [at |-> e.value, day |-> e.day]
<1>3. a \in [at : Places \cup {Nothing}, day : Nat]
  BY <1>1
<1>4. w.sceneNo + 1 \in Nat
  BY WorldFields
<1> DEFINE v == SceneApplied(w, e)
<1>5. v = [w EXCEPT !.sceneNo = w.sceneNo + 1, !.anchor = a]
  BY <1>2
<1>6. /\ v \in Worlds /\ v.day = w.day /\ v.ok = w.ok /\ v.purse = w.purse
      /\ v.place = w.place /\ v.ruled = w.ruled /\ v.band = w.band /\ v.anchor = a
      /\ v.seen = w.seen
  <2> HIDE DEF a, v
  <2> QED
    BY <1>3, <1>4, <1>5 DEF Worlds
<1> HIDE DEF v
<1>7. Effect(w, v, e)
  BY <1>1, <1>6 DEF Effect
<1> QED
  BY <1>7 DEF v

LEMMA OwnedEffect ==
    ASSUME NEW w \in Worlds, NEW e \in Events
    PROVE  Effect(w, Owned(w, e), e)
<1>1. e.kind \in Kinds
  BY DEF Events
<1>2. CASE e.kind \in {"declared", "fact"}
  BY <1>2, OntologyEffect DEF Owned
<1>3. CASE e.kind \in {"created", "evolved"}
  <2>1. Owned(w, e) = CharacterApplied(w, e)
    BY <1>3 DEF Owned
  <2> QED
    BY <1>3, <2>1, CharacterEffect
<1>4. CASE e.kind \in {"configured", "resolved"}
  <2>1. Owned(w, e) = ResourceApplied(w, e)
    BY <1>4 DEF Owned
  <2> QED
    BY <1>4, <2>1, ResourceEffect
<1>5. CASE e.kind = "moved"
  <2>1. Owned(w, e) = PlaceApplied(w, e)
    BY <1>5 DEF Owned
  <2> QED
    BY <1>5, <2>1, PlaceEffect
<1>6. CASE e.kind \in {"clock", "current"}
  <2>1. Owned(w, e) = TimeApplied(w, e)
    BY <1>6 DEF Owned
  <2> QED
    BY <1>6, <2>1, TimeEffect
<1>7. CASE e.kind = "scene"
  <2>1. Owned(w, e) = SceneApplied(w, e)
    BY <1>7 DEF Owned
  <2> QED
    BY <1>7, <2>1, SceneEffect
<1> QED
  BY <1>1, <1>2, <1>3, <1>4, <1>5, <1>6, <1>7 DEF Kinds

-----------------------------------------------------------------------------
(* One event.                                                               *)

\* The world an event is applied to: the day has moved to the event's.
Dayed(w, e) == IF w.day = Nothing \/ e.day >= w.day THEN [w EXCEPT !.day = e.day] ELSE w

LEMMA FoldIs ==
    ASSUME NEW w, NEW e
    PROVE  Fold(w, e) = IF ~w.ok \/ Refused(Dayed(w, e), e) THEN [w EXCEPT !.ok = FALSE]
                        ELSE Owned(Dayed(w, e), e)
  BY DEF Fold, Dayed

LEMMA DayedTyped ==
    ASSUME NEW w \in Worlds, NEW e \in Events
    PROVE  Dayed(w, e) \in Worlds
<1>1. e.day \in Nat \ {0}
  BY DEF Events
<1> QED
  BY <1>1 DEF Dayed, Worlds

LEMMA FoldTyped ==
    ASSUME NEW w \in Worlds, NEW e \in Events
    PROVE  Fold(w, e) \in Worlds
<1>1. [w EXCEPT !.ok = FALSE] \in Worlds
  BY DEF Worlds
<1>2. Owned(Dayed(w, e), e) \in Worlds
  BY DayedTyped, OwnedEffect DEF Effect
<1> QED
  BY <1>1, <1>2, FoldIs

\* A history tells its subject's values one after the other, none of a later day.
Within(history, day) == Tiled(history) /\ \A i \in DOMAIN history : history[i].start <= day

Sound(w) ==
    /\ w \in Worlds /\ w.day \in Nat \ {0}
    /\ Within(w.purse, w.day) /\ \A p \in People : Within(w.place[p], w.day)
    /\ \A p \in People : w.seen[p] # Nothing => w.seen[p] <= w.day

LEMMA SupersedeWithin ==
    ASSUME NEW V, NEW h \in Histories(V), NEW v \in V, NEW d \in Nat \ {0}, NEW day \in Nat,
           Within(h, day), d <= day
    PROVE  Within(Supersede(h, v, d), day)
<1> DEFINE s == Supersede(h, v, d)
           D == [value : V, start : Nat \ {0}, end : Nat \cup {Nothing}]
<1>1. Len(h) \in Nat /\ DOMAIN h = 1..Len(h) /\ \A i \in 1..Len(h) : h[i] \in D
  <2>1. h \in Seq(D)
    BY DEF Histories
  <2> HIDE DEF D
  <2> QED
    BY <2>1, LenProperties
<1>2. s \in Histories(V) /\ Superseded(s, h, v, d)
  BY SupersedeTyped
<1> HIDE DEF s
<1>3. /\ \A i \in 1..Len(h) : s[i] = IF Current(h[i]) THEN [h[i] EXCEPT !.end = d] ELSE h[i]
      /\ s[Len(h) + 1] = Dated(v, d) /\ Len(s) = Len(h) + 1 /\ DOMAIN s = 1..(Len(h) + 1)
  BY <1>2, LenProperties DEF Superseded, Histories
<1>4. \A i \in 1..Len(h) :
         /\ s[i].start = h[i].start /\ s[i].value = h[i].value
         /\ s[i].end = IF h[i].end = Nothing THEN d ELSE h[i].end
  BY <1>1, <1>3 DEF Current
<1>5. s[Len(h) + 1].start = d /\ s[Len(h) + 1].end = Nothing
  BY <1>3 DEF Dated
<1>6. \A i \in 1..Len(h) : h[i].end = IF i = Len(h) THEN Nothing ELSE h[i + 1].start
  BY <1>1 DEF Within, Tiled
<1>7. \A i \in 1..Len(h) : h[i].start <= day /\ h[i].start \in Nat
  BY <1>1 DEF Within
<1>8. \A i \in 1..(Len(h) + 1) : s[i].end = IF i = Len(h) + 1 THEN Nothing ELSE s[i + 1].start
  <2> SUFFICES ASSUME NEW i \in 1..Len(h) PROVE s[i].end = s[i + 1].start
    BY <1>1, <1>5
  <2>1. CASE i = Len(h)
    BY <1>1, <1>4, <1>5, <1>6, <2>1
  <2>2. CASE i # Len(h)
    <3>1. i + 1 \in 1..Len(h)
      <4>1. Len(h) \in Nat
        BY <1>1
      <4> QED
        BY <2>2, <4>1
    <3>2. h[i].end = h[i + 1].start /\ h[i + 1].start # Nothing
      BY <1>6, <1>7, <2>2, <3>1, NoNumber
    <3> QED
      BY <1>4, <3>1, <3>2
  <2> QED
    BY <2>1, <2>2
<1>9. \A i \in 1..(Len(h) + 1) : s[i].start <= day
  <2> SUFFICES ASSUME NEW i \in 1..(Len(h) + 1) PROVE s[i].start <= day
    OBVIOUS
  <2>1. CASE i = Len(h) + 1
    BY <1>5, <2>1
  <2>2. CASE i # Len(h) + 1
    <3>1. i \in 1..Len(h)
      BY <1>1, <2>2
    <3> QED
      BY <1>4, <1>7, <3>1
  <2> QED
    BY <2>1, <2>2
<1>10. Within(s, day)
  BY <1>3, <1>8, <1>9 DEF Within, Tiled
<1> QED
  BY <1>10 DEF s

\* A new value leaves what was in force on an earlier day as it was.
LEMMA SupersedeKeepsThePast ==
    ASSUME NEW V, NEW h \in Histories(V), NEW v \in V, NEW day \in Nat \ {0},
           NEW d \in Nat, d < day
    PROVE  ValueAt(Supersede(h, v, day), d) = ValueAt(h, d)
<1> DEFINE s == Supersede(h, v, day)
           D == [value : V, start : Nat \ {0}, end : Nat \cup {Nothing}]
           old == {i \in DOMAIN h : ValidAt(h[i], d)}
           new == {i \in DOMAIN s : ValidAt(s[i], d)}
<1>1. Len(h) \in Nat /\ DOMAIN h = 1..Len(h) /\ \A i \in 1..Len(h) : h[i] \in D
  <2>1. h \in Seq(D)
    BY DEF Histories
  <2> HIDE DEF D
  <2> QED
    BY <2>1, LenProperties
<1>2. s \in Histories(V) /\ Superseded(s, h, v, day)
  BY SupersedeTyped
<1> HIDE DEF s
<1>3. /\ \A i \in 1..Len(h) : s[i] = IF Current(h[i]) THEN [h[i] EXCEPT !.end = day] ELSE h[i]
      /\ s[Len(h) + 1] = Dated(v, day) /\ Len(s) = Len(h) + 1 /\ DOMAIN s = 1..(Len(h) + 1)
  BY <1>2, LenProperties DEF Superseded, Histories
<1>4. ~ValidAt(s[Len(h) + 1], d)
  BY <1>3 DEF ValidAt, Dated
<1>5. \A i \in 1..Len(h) : s[i].value = h[i].value /\ (ValidAt(s[i], d) <=> ValidAt(h[i], d))
  <2> SUFFICES ASSUME NEW i \in 1..Len(h)
               PROVE  s[i].value = h[i].value /\ (ValidAt(s[i], d) <=> ValidAt(h[i], d))
    OBVIOUS
  <2>1. h[i].start \in Nat /\ h[i].end \in Nat \cup {Nothing} /\ h[i] \in D
    BY <1>1
  <2>2. CASE Current(h[i])
    <3>1. s[i] = [h[i] EXCEPT !.end = day]
      BY <1>3, <2>2
    <3>2. s[i].value = h[i].value /\ s[i].start = h[i].start /\ s[i].end = day
      BY <2>1, <3>1
    <3> QED
      BY <2>1, <2>2, <3>2 DEF ValidAt, Current
  <2>3. CASE ~Current(h[i])
    BY <1>3, <2>3
  <2> QED
    BY <2>2, <2>3
<1>6. new = old
  BY <1>1, <1>3, <1>4, <1>5
<1>7. old # {} => Min(old) \in 1..Len(h)
  <2>1. old \in SUBSET Nat /\ old \subseteq 1..Len(h)
    BY <1>1
  <2> HIDE DEF old
  <2> QED
    BY <2>1, MinOfNumbers
<1>8. ValueAt(s, d) = IF new = {} THEN Nothing ELSE s[Min(new)].value
  BY DEF ValueAt
<1>9. ValueAt(h, d) = IF old = {} THEN Nothing ELSE h[Min(old)].value
  BY DEF ValueAt
<1> HIDE DEF old, new
<1>10. ValueAt(s, d) = ValueAt(h, d)
  BY <1>5, <1>6, <1>7, <1>8, <1>9
<1> QED
  BY <1>10 DEF s

\* Two worlds tell the same of a day.
Agree(v, w, d) ==
    /\ ValueAt(v.purse, d) = ValueAt(w.purse, d)
    /\ \A p \in People : ValueAt(v.place[p], d) = ValueAt(w.place[p], d)

\* What the fold of one event changes in a sound world.
Grows(w, v, e) ==
    /\ Sound(v) /\ v.day >= w.day
    /\ v.ok => w.ok /\ e.day <= v.day
    /\ w.ruled => v.ruled
    /\ e.kind # "scene" => v.anchor = w.anchor
    /\ e.kind # "clock" => v.band = w.band
    /\ \A d \in Nat : d < e.day => Agree(v, w, d)

LEMMA SameAgree ==
    ASSUME NEW v, NEW w, NEW d, v.purse = w.purse, v.place = w.place
    PROVE  Agree(v, w, d)
  BY DEF Agree

LEMMA EffectGrows ==
    ASSUME NEW w \in Worlds, NEW e \in Events, NEW v, Sound(w), w.ok, e.day <= w.day,
           Effect(w, v, e)
    PROVE  Grows(w, v, e)
<1>1. /\ w.day \in Nat \ {0} /\ e.day \in Nat \ {0} /\ e.who \in People /\ v \in Worlds
      /\ v.day = w.day /\ v.ok = w.ok
  BY DEF Sound, Effect, Events
<1>2. /\ w.purse \in Histories(Int) /\ Within(w.purse, w.day)
      /\ w.place \in [People -> Histories(Places)] /\ \A p \in People : Within(w.place[p], w.day)
  BY WorldFields DEF Sound
<1>3. Within(v.purse, v.day) /\ \A d \in Nat : d < e.day => ValueAt(v.purse, d) = ValueAt(w.purse, d)
  <2>1. CASE v.purse = w.purse
    BY <1>1, <1>2, <2>1
  <2>2. CASE v.purse = Supersede(w.purse, e.value, e.day) /\ e.value \in Int
    <3>1. Within(v.purse, v.day)
      BY <1>1, <1>2, <2>2, SupersedeWithin
    <3>2. \A d \in Nat : d < e.day => ValueAt(v.purse, d) = ValueAt(w.purse, d)
      BY <1>1, <1>2, <2>2, SupersedeKeepsThePast
    <3> QED
      BY <3>1, <3>2
  <2> QED
    BY <2>1, <2>2 DEF Effect
<1>4. ASSUME NEW p \in People
      PROVE  /\ Within(v.place[p], v.day)
             /\ \A d \in Nat : d < e.day => ValueAt(v.place[p], d) = ValueAt(w.place[p], d)
  <2>1. CASE v.place[p] = w.place[p]
    BY <1>1, <1>2, <2>1
  <2>2. CASE v.place[p] = Supersede(w.place[p], e.value, e.day) /\ e.value \in Places
    <3>0. w.place[p] \in Histories(Places) /\ Within(w.place[p], w.day)
      BY <1>2
    <3>1. Within(v.place[p], v.day)
      BY <1>1, <2>2, <3>0, SupersedeWithin
    <3>2. \A d \in Nat : d < e.day => ValueAt(v.place[p], d) = ValueAt(w.place[p], d)
      BY <1>1, <2>2, <3>0, SupersedeKeepsThePast
    <3> QED
      BY <3>1, <3>2
  <2>3. CASE v.place = [w.place EXCEPT ![e.who] = Supersede(w.place[e.who], e.value, e.day)]
             /\ e.value \in Places
    <3>1. v.place[p] = IF p = e.who THEN Supersede(w.place[p], e.value, e.day) ELSE w.place[p]
      BY <1>2, <2>3
    <3> QED
      BY <2>1, <2>2, <2>3, <3>1
  <2>4. CASE v.place = w.place
    BY <2>1, <2>4
  <2> QED
    BY <2>3, <2>4 DEF Effect
<1>5. \A p \in People : v.seen[p] # Nothing => v.seen[p] <= v.day
  BY <1>1 DEF Effect, Sound
<1>6. Sound(v) /\ \A d \in Nat : d < e.day => Agree(v, w, d)
  BY <1>1, <1>3, <1>4, <1>5 DEF Sound, Agree
<1>7. v.day >= w.day /\ e.day <= v.day
  BY <1>1
<1>8. (w.ruled => v.ruled) /\ (e.kind # "scene" => v.anchor = w.anchor)
      /\ (e.kind # "clock" => v.band = w.band)
  BY DEF Effect
<1> QED
  BY <1>1, <1>6, <1>7, <1>8 DEF Grows

\* Moving the day forward disturbs nothing else.
LEMMA DayedSound ==
    ASSUME NEW w \in Worlds, NEW e \in Events, Sound(w)
    PROVE  LET x == Dayed(w, e) IN
           /\ Sound(x) /\ x \in Worlds /\ x.day >= w.day /\ e.day <= x.day
           /\ x.purse = w.purse /\ x.place = w.place /\ x.ok = w.ok /\ x.ruled = w.ruled
           /\ x.anchor = w.anchor /\ x.band = w.band /\ x.seen = w.seen /\ x.tier = w.tier
           /\ x.day = w.day \/ x.day = e.day
<1> DEFINE x == Dayed(w, e)
<1>1. w.day \in Nat \ {0} /\ w.day # Nothing /\ e.day \in Nat \ {0}
  BY NoNumber DEF Sound, Events
<1>2. x = IF e.day >= w.day THEN [w EXCEPT !.day = e.day] ELSE w
  BY <1>1 DEF Dayed
<1>3. /\ x.purse = w.purse /\ x.place = w.place /\ x.ok = w.ok /\ x.ruled = w.ruled
      /\ x.anchor = w.anchor /\ x.band = w.band /\ x.seen = w.seen /\ x.tier = w.tier
      /\ x.day = IF e.day >= w.day THEN e.day ELSE w.day
  BY <1>2 DEF Worlds
<1>4. x \in Worlds
  BY DayedTyped
<1> HIDE DEF x
<1>5. x.day >= w.day /\ e.day <= x.day /\ x.day \in Nat \ {0}
  BY <1>1, <1>3
<1>6. ASSUME NEW V, NEW h \in Histories(V), Within(h, w.day) PROVE Within(h, x.day)
  <2>1. \A i \in DOMAIN h : h[i].start \in Nat
    <3> DEFINE D == [value : V, start : Nat \ {0}, end : Nat \cup {Nothing}]
    <3>1. h \in Seq(D)
      BY DEF Histories
    <3> HIDE DEF D
    <3>2. \A i \in DOMAIN h : h[i] \in D
      BY <3>1
    <3> QED
      BY <3>2 DEF D
  <2> QED
    BY <1>1, <1>5, <1>6, <2>1 DEF Within
<1>7. Within(x.purse, x.day) /\ \A p \in People : Within(x.place[p], x.day)
  <2>1. w.purse \in Histories(Int) /\ \A p \in People : w.place[p] \in Histories(Places)
    BY WorldFields
  <2>2. Within(w.purse, w.day) /\ \A p \in People : Within(w.place[p], w.day)
    BY DEF Sound
  <2> QED
    BY <1>3, <1>6, <2>1, <2>2
<1>8. \A p \in People : x.seen[p] # Nothing => x.seen[p] <= x.day
  <2>1. \A p \in People : w.seen[p] \in Nat \cup {Nothing}
    BY WorldFields
  <2> QED
    BY <1>1, <1>3, <1>5, <2>1 DEF Sound
<1>9. Sound(x)
  BY <1>4, <1>5, <1>7, <1>8 DEF Sound
<1>10. x.day = w.day \/ x.day = e.day
  BY <1>3
<1> QED
  BY <1>3, <1>4, <1>5, <1>9, <1>10 DEF x

LEMMA FoldGrows ==
    ASSUME NEW w \in Worlds, NEW e \in Events, Sound(w)
    PROVE  Grows(w, Fold(w, e), e)
<1> DEFINE x == Dayed(w, e)
           v == Fold(w, e)
<1>1. CASE ~w.ok \/ Refused(x, e)
  <2>1. v = [w EXCEPT !.ok = FALSE]
    BY <1>1, FoldIs
  <2>2. /\ v.day = w.day /\ v.purse = w.purse /\ v.place = w.place /\ v.ok = FALSE
        /\ v.ruled = w.ruled /\ v.anchor = w.anchor /\ v.band = w.band /\ v.seen = w.seen
        /\ v \in Worlds
    BY <2>1 DEF Worlds
  <2> HIDE DEF v, x
  <2>3. Sound(v) /\ v.day >= w.day
    BY <2>2 DEF Sound
  <2>4. \A d \in Nat : Agree(v, w, d)
    BY <2>2 DEF Agree
  <2>5. Grows(w, v, e)
    BY <2>2, <2>3, <2>4 DEF Grows
  <2> QED
    BY <2>5 DEF v
<1>2. CASE w.ok /\ ~Refused(x, e)
  <2>1. v = Owned(x, e)
    BY <1>2, FoldIs
  <2>2. /\ Sound(x) /\ x \in Worlds /\ x.day >= w.day /\ e.day <= x.day
        /\ x.purse = w.purse /\ x.place = w.place /\ x.ok = w.ok /\ x.ruled = w.ruled
        /\ x.anchor = w.anchor /\ x.band = w.band
    BY DayedSound
  <2>3. Grows(x, v, e)
    BY <1>2, <2>1, <2>2, OwnedEffect, EffectGrows
  <2> HIDE DEF x, v
  <2>4. v.day \in Nat /\ x.day \in Nat /\ w.day \in Nat
    BY <2>2, <2>3 DEF Grows, Sound
  <2>5. v.day >= w.day
    BY <2>2, <2>3, <2>4 DEF Grows
  <2>6. \A d \in Nat : d < e.day => Agree(v, w, d)
    BY <2>2, <2>3 DEF Grows, Agree
  <2>7. Grows(w, v, e)
    BY <2>2, <2>3, <2>5, <2>6 DEF Grows
  <2> QED
    BY <2>7 DEF v
<1> QED
  BY <1>1, <1>2

-----------------------------------------------------------------------------
(* A list of events.  The fold of a list is the last of the worlds that its  *)
(* events lead through, one after the other.                                 *)

ExtendLoop(f, w, s) ==
    f = [t \in SUBSET DOMAIN s |->
            IF t = {} THEN w ELSE Fold(f[t \ {Max(t)}], s[Max(t)])]

LEMMA ExtendIsLoop ==
    ASSUME NEW w, NEW s
    PROVE  Extend(w, s) = (CHOOSE f : ExtendLoop(f, w, s))[DOMAIN s]
  BY DEF Extend, FoldLeft, MapThenFoldSet, ExtendLoop

Leads(tr, w, s) ==
    /\ tr \in [0..Len(s) -> Worlds] /\ tr[0] = w
    /\ \A i \in 1..Len(s) : tr[i] = Fold(tr[i - 1], s[i])

\* The largest of the first k numbers is k.
LEMMA LargestOfFirst ==
    ASSUME NEW k \in Nat, k # 0
    PROVE  Max(1..k) = k /\ (1..k) \ {k} = 1..(k - 1) /\ 1..k # {}
<1>1. 1..k \in SUBSET Nat /\ (\A x \in 1..k : x <= k) /\ 1..k # {}
  OBVIOUS
<1>2. Max(1..k) \in 1..k /\ \A x \in 1..k : x <= Max(1..k)
  BY <1>1, MaxOfBounded
<1>3. Max(1..k) = k
  BY <1>2
<1> QED
  BY <1>1, <1>3

LEMMA ExtendLeads ==
    ASSUME NEW w \in Worlds, NEW s \in Seq(Events)
    PROVE  \E tr : Leads(tr, w, s) /\ Extend(w, s) = tr[Len(s)]
<1> DEFINE n == Len(s)
           next == [p \in (1..n) \X Worlds |-> Fold(p[2], s[p[1]])]
<1>1. n \in Nat /\ DOMAIN s = 1..n /\ \A i \in 1..n : s[i] \in Events
  BY LenProperties
<1>2. \A i \in 1..n, a \in Worlds : Fold(a, s[i]) \in Worlds
  BY <1>1, FoldTyped
<1> HIDE DEF n
<1>3. next \in [(1..n) \X Worlds -> Worlds]
  BY <1>2
<1>4. \A i \in 1..n, a \in Worlds : next[<<i, a>>] = Fold(a, s[i])
  OBVIOUS
<1> HIDE DEF next
<1>5. PICK g \in [SUBSET (1..n) -> Worlds] : ListLoops(g, n, w, next)
  BY <1>1, <1>3, ListLoop
<1>6. \A t \in SUBSET (1..n) : t # {} => Max(t) \in t
  BY <1>1, LastOfSome
<1>7. \A t \in SUBSET (1..n) :
         g[t] = IF t = {} THEN w ELSE Fold(g[t \ {Max(t)}], s[Max(t)])
  <2> SUFFICES ASSUME NEW t \in SUBSET (1..n), t # {}
               PROVE  g[t] = Fold(g[t \ {Max(t)}], s[Max(t)])
    BY <1>5 DEF ListLoops
  <2>1. Max(t) \in 1..n /\ g[t \ {Max(t)}] \in Worlds
    BY <1>6
  <2>2. g[t] = next[<<Max(t), g[t \ {Max(t)}]>>]
    BY <1>5 DEF ListLoops
  <2> QED
    BY <1>4, <2>1, <2>2
<1>8. ExtendLoop(g, w, s)
  BY <1>1, <1>5, <1>7 DEF ExtendLoop
<1> DEFINE f == CHOOSE h : ExtendLoop(h, w, s)
<1>9. ExtendLoop(f, w, s)
  BY <1>8
<1> HIDE DEF f
<1>10. \A t \in SUBSET (1..n) :
          f[t] = IF t = {} THEN w ELSE Fold(f[t \ {Max(t)}], s[Max(t)])
  BY <1>1, <1>9 DEF ExtendLoop
<1> DEFINE tr == [k \in 0..n |-> f[1..k]]
<1>11. tr[0] = w
  <2>1. 1..0 = {}
    OBVIOUS
  <2>2. f[{}] = w
    BY <1>10
  <2>3. tr[0] = f[1..0]
    BY <1>1
  <2> QED
    BY <2>1, <2>2, <2>3
<1>12. ASSUME NEW i \in 1..n PROVE tr[i] = Fold(tr[i - 1], s[i])
  <2>1. i \in Nat /\ i # 0 /\ i \in 0..n /\ i - 1 \in 0..n /\ 1..i \in SUBSET (1..n)
    BY <1>1
  <2>2. Max(1..i) = i /\ (1..i) \ {i} = 1..(i - 1) /\ 1..i # {}
    BY <2>1, LargestOfFirst
  <2>3. f[1..i] = Fold(f[(1..i) \ {Max(1..i)}], s[Max(1..i)])
    BY <1>10, <2>1, <2>2
  <2> QED
    BY <2>1, <2>2, <2>3
<1> HIDE DEF tr
<1>13. \A k \in 0..n : tr[k] \in Worlds
  <2> DEFINE Bad == {k \in 0..n : tr[k] \notin Worlds}
  <2>1. SUFFICES ASSUME Bad # {} PROVE FALSE
    OBVIOUS
  <2>2. PICK k \in Bad : k = 0 \/ (k - 1 \in Nat /\ k - 1 \notin Bad)
    <3>1. Bad \subseteq Nat
      OBVIOUS
    <3> HIDE DEF Bad
    <3> QED
      BY <2>1, <3>1, FirstNumber
  <2>3. k # 0
    BY <1>11
  <2>4. k \in 1..n /\ tr[k - 1] \in Worlds
    BY <1>1, <2>2, <2>3
  <2> QED
    BY <1>2, <1>12, <2>4
<1>14. Leads(tr, w, s)
  <2>1. tr \in [0..n -> Worlds]
    BY <1>13 DEF tr
  <2> QED
    BY <1>11, <1>12, <2>1 DEF Leads, n
<1>15. tr[n] = Extend(w, s)
  <2>1. Extend(w, s) = f[DOMAIN s]
    BY ExtendIsLoop DEF f
  <2>2. tr[n] = f[1..n]
    BY <1>1 DEF tr
  <2> QED
    BY <1>1, <2>1, <2>2
<1> QED
  BY <1>14, <1>15 DEF n

\* Lists that begin alike lead alike.
Alike(s, t, n) ==
    /\ s \in Seq(Events) /\ t \in Seq(Events) /\ n \in Nat /\ n <= Len(s) /\ n <= Len(t)
    /\ \A i \in 1..n : s[i] = t[i]

LEMMA LeadsAlike ==
    ASSUME NEW w, NEW s, NEW t, NEW n, Alike(s, t, n),
           NEW tr, NEW tt, Leads(tr, w, s), Leads(tt, w, t)
    PROVE  tr[n] = tt[n]
<1>0. /\ s \in Seq(Events) /\ t \in Seq(Events) /\ n \in Nat /\ n <= Len(s) /\ n <= Len(t)
      /\ \A i \in 1..n : s[i] = t[i]
  BY DEF Alike
<1> DEFINE Bad == {k \in 0..n : tr[k] # tt[k]}
<1>1. SUFFICES ASSUME Bad # {} PROVE FALSE
  BY <1>0
<1>2. PICK k \in Bad : k = 0 \/ (k - 1 \in Nat /\ k - 1 \notin Bad)
  <2>1. Bad \subseteq Nat
    OBVIOUS
  <2> HIDE DEF Bad
  <2> QED
    BY <1>1, <2>1, FirstNumber
<1>3. k # 0
  BY <1>0 DEF Leads
<1>4. k \in 1..n /\ tr[k - 1] = tt[k - 1]
  BY <1>0, <1>2, <1>3
<1>5. Len(s) \in Nat /\ Len(t) \in Nat
  BY <1>0, LenProperties
<1>6. tr[k] = Fold(tr[k - 1], s[k]) /\ tt[k] = Fold(tt[k - 1], t[k])
  <2>1. k \in 1..Len(s) /\ k \in 1..Len(t)
    BY <1>0, <1>4, <1>5
  <2> QED
    BY <2>1 DEF Leads
<1>7. tr[k] = tt[k]
  BY <1>0, <1>4, <1>6
<1> QED
  BY <1>7

LEMMA ExtendEmpty ==
    ASSUME NEW w \in Worlds
    PROVE  Extend(w, <<>>) = w
<1>1. <<>> \in Seq(Events) /\ Len(<<>>) = 0
  OBVIOUS
<1>2. PICK tr : Leads(tr, w, <<>>) /\ Extend(w, <<>>) = tr[Len(<<>>)]
  BY <1>1, ExtendLeads
<1> QED
  BY <1>1, <1>2 DEF Leads

LEMMA ExtendTyped ==
    ASSUME NEW w \in Worlds, NEW s \in Seq(Events)
    PROVE  Extend(w, s) \in Worlds
<1>1. PICK tr : Leads(tr, w, s) /\ Extend(w, s) = tr[Len(s)]
  BY ExtendLeads
<1>2. Len(s) \in 0..Len(s)
  BY LenProperties
<1> QED
  BY <1>1, <1>2 DEF Leads

\* One more event is folded after the others.
LEMMA ExtendAppend ==
    ASSUME NEW w \in Worlds, NEW s \in Seq(Events), NEW e \in Events
    PROVE  Extend(w, Append(s, e)) = Fold(Extend(w, s), e)
<1> DEFINE n == Len(s)
           t == Append(s, e)
<1>1. /\ n \in Nat /\ t \in Seq(Events) /\ Len(t) = n + 1 /\ t[n + 1] = e
      /\ \A i \in 1..n : t[i] = s[i]
  BY AppendProperties, LenProperties
<1> HIDE DEF t, n
<1>2. PICK tr : Leads(tr, w, s) /\ Extend(w, s) = tr[n]
  BY ExtendLeads DEF n
<1>3. PICK tt : Leads(tt, w, t) /\ Extend(w, t) = tt[n + 1]
  BY <1>1, ExtendLeads
<1>4. tr[n] = tt[n]
  <2>1. Alike(s, t, n)
    BY <1>1 DEF n, Alike
  <2> QED
    BY <1>2, <1>3, <2>1, LeadsAlike
<1>5. tt[n + 1] = Fold(tt[(n + 1) - 1], t[n + 1])
  BY <1>1, <1>3 DEF Leads
<1>6. (n + 1) - 1 = n
  BY <1>1
<1> QED
  BY <1>1, <1>2, <1>3, <1>4, <1>5, <1>6 DEF t

\* The fold of one event.
LEMMA ExtendOne ==
    ASSUME NEW w \in Worlds, NEW e \in Events
    PROVE  Extend(w, <<e>>) = Fold(w, e)
<1>1. <<e>> = Append(<<>>, e) /\ <<>> \in Seq(Events)
  OBVIOUS
<1> QED
  BY <1>1, ExtendAppend, ExtendEmpty

\* A list is folded after the one before it.
LEMMA ExtendConcat ==
    ASSUME NEW w \in Worlds, NEW a \in Seq(Events), NEW b \in Seq(Events)
    PROVE  Extend(w, a \o b) = Extend(Extend(w, a), b)
<1> DEFINE n == Len(a)
           m == Len(b)
           c == a \o b
<1>1. /\ n \in Nat /\ m \in Nat /\ c \in Seq(Events) /\ Len(c) = n + m
      /\ \A i \in 1..n : c[i] = a[i]
  BY ConcatProperties, LenProperties
<1>2. \A i \in 1..m : c[n + i] = b[i]
  BY <1>1, ConcatProperties
<1> HIDE DEF c, n, m
<1>3. PICK ta : Leads(ta, w, a) /\ Extend(w, a) = ta[n]
  BY ExtendLeads DEF n
<1>4. PICK tc : Leads(tc, w, c) /\ Extend(w, c) = tc[n + m]
  BY <1>1, ExtendLeads
<1>5. ta[n] \in Worlds
  BY <1>3, ExtendTyped
<1>6. PICK tb : Leads(tb, ta[n], b) /\ Extend(ta[n], b) = tb[m]
  BY <1>5, ExtendLeads DEF m
<1>7. ta[n] = tc[n]
  <2>1. Alike(a, c, n)
    BY <1>1 DEF n, Alike
  <2> QED
    BY <1>3, <1>4, <2>1, LeadsAlike
<1> DEFINE Bad == {k \in 0..m : tc[n + k] # tb[k]}
<1>8. Bad = {}
  <2>1. SUFFICES ASSUME Bad # {} PROVE FALSE
    OBVIOUS
  <2>2. PICK k \in Bad : k = 0 \/ (k - 1 \in Nat /\ k - 1 \notin Bad)
    <3>1. Bad \subseteq Nat
      OBVIOUS
    <3> HIDE DEF Bad
    <3> QED
      BY <2>1, <3>1, FirstNumber
  <2>3. k # 0
    <3>1. tb[0] = ta[n] /\ n + 0 = n
      BY <1>1, <1>6 DEF Leads
    <3> QED
      BY <1>7, <3>1
  <2>4. k \in 1..m /\ tc[n + (k - 1)] = tb[k - 1]
    BY <1>1, <2>2, <2>3
  <2>5. tb[k] = Fold(tb[k - 1], b[k])
    BY <1>6, <2>4 DEF Leads, m
  <2>6. n + k \in 1..Len(c) /\ (n + k) - 1 = n + (k - 1)
    BY <1>1, <2>4
  <2>7. tc[n + k] = Fold(tc[n + (k - 1)], c[n + k])
    BY <1>4, <2>6 DEF Leads
  <2>8. c[n + k] = b[k]
    BY <1>2, <2>4
  <2>9. tc[n + k] = tb[k]
    BY <2>4, <2>5, <2>7, <2>8
  <2> QED
    BY <2>9
<1>9. tc[n + m] = tb[m]
  BY <1>1, <1>8
<1> QED
  BY <1>3, <1>4, <1>6, <1>9 DEF c

\* What the fold of the first n events of s made of w.
GrewBy(w, v, s, n) ==
    /\ Sound(v) /\ v.day >= w.day
    /\ v.ok => w.ok /\ \A i \in 1..n : s[i].day <= v.day
    /\ w.ruled => v.ruled
    /\ (\A i \in 1..n : s[i].kind # "scene") => v.anchor = w.anchor
    /\ (\A i \in 1..n : s[i].kind # "clock") => v.band = w.band
    /\ \A d \in Nat : (\A i \in 1..n : d < s[i].day) => Agree(v, w, d)

LEMMA GrewByNothing ==
    ASSUME NEW w, Sound(w), NEW s
    PROVE  GrewBy(w, w, s, 0)
<1>1. w.day \in Nat
  BY DEF Sound
<1> QED
  BY <1>1 DEF GrewBy, Agree

LEMMA GrewByOneMore ==
    ASSUME NEW w, Sound(w), NEW u, NEW v, NEW s, NEW k \in Nat, k # 0,
           \A i \in 1..k : s[i] \in Events,
           GrewBy(w, u, s, k - 1), Grows(u, v, s[k])
    PROVE  GrewBy(w, v, s, k)
<1> DEFINE e == s[k]
<1>1. w.day \in Nat /\ u.day \in Nat /\ v.day \in Nat
  BY DEF Sound, GrewBy, Grows
<1>2. \A i \in 1..k : i = k \/ i \in 1..(k - 1)
  OBVIOUS
<1>3. (\A i \in 1..(k - 1) : i \in 1..k) /\ k \in 1..k
  OBVIOUS
<1>4. Sound(v) /\ v.day >= w.day
  BY <1>1 DEF GrewBy, Grows
<1>5. v.ok => w.ok /\ \A i \in 1..k : s[i].day <= v.day
  <2>1. SUFFICES ASSUME v.ok PROVE w.ok /\ \A i \in 1..k : s[i].day <= v.day
    OBVIOUS
  <2>2. u.ok /\ s[k].day <= v.day /\ u.day <= v.day
    BY <2>1 DEF Grows
  <2>3. w.ok /\ \A i \in 1..(k - 1) : s[i].day <= u.day
    BY <2>2 DEF GrewBy
  <2>4. v.ok => \A i \in 1..(k - 1) : s[i].day <= v.day
    <3> SUFFICES ASSUME NEW i \in 1..(k - 1) PROVE s[i].day <= v.day
      OBVIOUS
    <3>1. s[i].day \in Nat
      BY <1>3 DEF Events
    <3> QED
      BY <1>1, <2>2, <2>3, <3>1
  <2> QED
    BY <1>2, <2>1, <2>2, <2>3, <2>4
<1>6. w.ruled => v.ruled
  BY DEF GrewBy, Grows
<1>7. (\A i \in 1..k : s[i].kind # "scene") => v.anchor = w.anchor
  BY <1>3 DEF GrewBy, Grows
<1>8. (\A i \in 1..k : s[i].kind # "clock") => v.band = w.band
  BY <1>3 DEF GrewBy, Grows
<1>9. \A d \in Nat : (\A i \in 1..k : d < s[i].day) => Agree(v, w, d)
  <2> SUFFICES ASSUME NEW d \in Nat, \A i \in 1..k : d < s[i].day
               PROVE  Agree(v, w, d)
    OBVIOUS
  <2>1. Agree(u, w, d)
    BY <1>3 DEF GrewBy
  <2>2. Agree(v, u, d)
    BY <1>3 DEF Grows
  <2> QED
    BY <2>1, <2>2 DEF Agree
<1> QED
  BY <1>4, <1>5, <1>6, <1>7, <1>8, <1>9 DEF GrewBy

LEMMA ExtendGrows ==
    ASSUME NEW w \in Worlds, Sound(w), NEW s \in Seq(Events)
    PROVE  GrewBy(w, Extend(w, s), s, Len(s))
<1> DEFINE n == Len(s)
<1>1. n \in Nat /\ \A i \in 1..n : s[i] \in Events
  BY LenProperties
<1>2. PICK tr : Leads(tr, w, s) /\ Extend(w, s) = tr[n]
  BY ExtendLeads
<1>3. \A i \in 1..n : tr[i] = Fold(tr[i - 1], s[i])
  BY <1>2 DEF Leads
<1>4. tr[0] = w /\ \A i \in 0..n : tr[i] \in Worlds
  BY <1>2 DEF Leads
<1> HIDE DEF n
<1> DEFINE Bad == {k \in 0..n : ~GrewBy(w, tr[k], s, k)}
<1>5. SUFFICES ASSUME Bad # {} PROVE FALSE
  BY <1>1, <1>2 DEF n
<1>6. PICK k \in Bad : k = 0 \/ (k - 1 \in Nat /\ k - 1 \notin Bad)
  <2>1. Bad \subseteq Nat
    OBVIOUS
  <2> HIDE DEF Bad
  <2> QED
    BY <1>5, <2>1, FirstNumber
<1>7. k # 0
  BY <1>4, GrewByNothing
<1>8. k \in 1..n /\ k - 1 \in 0..n /\ GrewBy(w, tr[k - 1], s, k - 1)
  BY <1>1, <1>6, <1>7
<1>9. tr[k - 1] \in Worlds /\ Sound(tr[k - 1]) /\ s[k] \in Events
  BY <1>1, <1>4, <1>8 DEF GrewBy
<1>10. Grows(tr[k - 1], tr[k], s[k])
  BY <1>3, <1>8, <1>9, FoldGrows
<1>11. k \in Nat
  BY <1>1
<1>12. GrewBy(w, tr[k], s, k)
  <2>1. \A i \in 1..k : s[i] \in Events
    BY <1>1, <1>8
  <2> QED
    BY <1>7, <1>8, <1>10, <1>11, <2>1, GrewByOneMore
<1> QED
  BY <1>12

-----------------------------------------------------------------------------
(* The log.                                                                 *)

LEMMA EmptyWorldTyped == EmptyWorld \in Worlds
<1>1. <<>> \in Histories(Int) /\ <<>> \in Histories(Places)
  BY DEF Histories
<1> QED
  BY <1>1 DEF EmptyWorld, Worlds, BandsPerDay

\* The next turn is above every turn that stands, and only just.
LEMMA TurnIsNext ==
    ASSUME log \in Seq(Events)
    PROVE  /\ Turn \in Nat /\ Turn >= 1
           /\ \A i \in 1..Len(log) : log[i].turn < Turn /\ log[i].turn \in Nat
<1> DEFINE n == Len(log)
           f == [i \in 1..n |-> log[i].turn]
           m == Max({0} \cup {f[i] : i \in 1..n})
<1>1. n \in Nat /\ DOMAIN log = 1..n /\ \A i \in 1..n : log[i] \in Events
  BY LenProperties
<1>2. \A i \in 1..n : log[i].turn \in Nat
  BY <1>1 DEF Events
<1>3. {e.turn : e \in Range(log)} = {f[i] : i \in 1..n}
  BY <1>1 DEF Range
<1>4. Turn = 1 + m
  BY <1>3 DEF Turn
<1>5. f \in [1..n -> Nat] /\ 1..n \in SUBSET (1..n)
  BY <1>2
<1> HIDE DEF n, f
<1>6. m \in Nat /\ \A i \in 1..n : f[i] <= m
  BY <1>1, <1>5, LargestNumber
<1> HIDE DEF m
<1>7. \A i \in 1..n : f[i] = log[i].turn
  BY DEF f
<1>8. Turn \in Nat /\ Turn >= 1
  BY <1>4, <1>6
<1>9. \A i \in 1..n : log[i].turn < Turn
  BY <1>2, <1>4, <1>6, <1>7
<1> QED
  BY <1>2, <1>8, <1>9 DEF n

\* Turns are numbered upwards.
Ordered(events) ==
    \A i, j \in 1..Len(events) : i <= j => events[i].turn <= events[j].turn

KeepLoop(f, s, t) ==
    f = [d \in SUBSET DOMAIN s |->
            IF d = {} THEN <<>>
            ELSE IF s[Max(d)].turn < t THEN Append(f[d \ {Max(d)}], s[Max(d)])
                 ELSE f[d \ {Max(d)}]]

LEMMA StandingIsLoop ==
    ASSUME NEW s, NEW t
    PROVE  Standing(s, t) = (CHOOSE f : KeepLoop(f, s, t))[DOMAIN s]
  BY DEF Standing, FoldLeft, MapThenFoldSet, KeepLoop

\* What stands of the first k events is computed one event after the other.
LEMMA StandingLeads ==
    ASSUME NEW s \in Seq(Events), NEW t
    PROVE  \E tr : /\ tr[0] = <<>> /\ Standing(s, t) = tr[Len(s)]
                   /\ \A i \in 1..Len(s) :
                        tr[i] = IF s[i].turn < t THEN Append(tr[i - 1], s[i]) ELSE tr[i - 1]
<1> DEFINE n == Len(s)
           A == Seq(Events)
           next == [p \in (1..n) \X A |->
                       IF s[p[1]].turn < t THEN Append(p[2], s[p[1]]) ELSE p[2]]
<1>1. n \in Nat /\ DOMAIN s = 1..n /\ \A i \in 1..n : s[i] \in Events
  BY LenProperties
<1>2. <<>> \in A
  OBVIOUS
<1>3. \A i \in 1..n, a \in A : (IF s[i].turn < t THEN Append(a, s[i]) ELSE a) \in A
  BY <1>1, AppendProperties
<1> HIDE DEF n, A
<1>4. next \in [(1..n) \X A -> A]
  BY <1>3
<1>5. \A i \in 1..n, a \in A :
         next[<<i, a>>] = IF s[i].turn < t THEN Append(a, s[i]) ELSE a
  OBVIOUS
<1> HIDE DEF next
<1> DEFINE base == <<>>
<1>6. base \in A
  BY <1>2
<1> HIDE DEF base
<1>7. PICK g \in [SUBSET (1..n) -> A] : ListLoops(g, n, base, next)
  BY <1>1, <1>4, <1>6, ListLoop
<1>8. \A d \in SUBSET (1..n) : d # {} => Max(d) \in d
  BY <1>1, LastOfSome
<1>9. \A d \in SUBSET (1..n) :
         g[d] = IF d = {} THEN <<>>
                ELSE IF s[Max(d)].turn < t THEN Append(g[d \ {Max(d)}], s[Max(d)])
                     ELSE g[d \ {Max(d)}]
  <2> SUFFICES ASSUME NEW d \in SUBSET (1..n), d # {}
               PROVE  g[d] = IF s[Max(d)].turn < t THEN Append(g[d \ {Max(d)}], s[Max(d)])
                             ELSE g[d \ {Max(d)}]
    BY <1>7 DEF ListLoops, base
  <2>1. Max(d) \in 1..n /\ g[d \ {Max(d)}] \in A
    BY <1>8
  <2>2. g[d] = next[<<Max(d), g[d \ {Max(d)}]>>]
    BY <1>7 DEF ListLoops
  <2> QED
    BY <1>5, <2>1, <2>2
<1>10. KeepLoop(g, s, t)
  BY <1>1, <1>7, <1>9 DEF KeepLoop
<1> DEFINE f == CHOOSE h : KeepLoop(h, s, t)
<1>11. KeepLoop(f, s, t)
  BY <1>10
<1> HIDE DEF f
<1>12. \A d \in SUBSET (1..n) :
          f[d] = IF d = {} THEN <<>>
                 ELSE IF s[Max(d)].turn < t THEN Append(f[d \ {Max(d)}], s[Max(d)])
                      ELSE f[d \ {Max(d)}]
  BY <1>1, <1>11 DEF KeepLoop
<1> DEFINE tr == [k \in 0..n |-> f[1..k]]
<1>13. tr[0] = <<>>
  <2>1. 1..0 = {}
    OBVIOUS
  <2>2. f[{}] = <<>>
    BY <1>12
  <2>3. tr[0] = f[1..0]
    BY <1>1
  <2> QED
    BY <2>1, <2>2, <2>3
<1>14. ASSUME NEW i \in 1..n
       PROVE  tr[i] = IF s[i].turn < t THEN Append(tr[i - 1], s[i]) ELSE tr[i - 1]
  <2>1. i \in Nat /\ i # 0 /\ i \in 0..n /\ i - 1 \in 0..n /\ 1..i \in SUBSET (1..n)
    BY <1>1
  <2>2. Max(1..i) = i /\ (1..i) \ {i} = 1..(i - 1) /\ 1..i # {}
    BY <2>1, LargestOfFirst
  <2>3. f[1..i] = IF s[Max(1..i)].turn < t
                  THEN Append(f[(1..i) \ {Max(1..i)}], s[Max(1..i)])
                  ELSE f[(1..i) \ {Max(1..i)}]
    BY <1>12, <2>1, <2>2
  <2> QED
    BY <2>1, <2>2, <2>3
<1>15. tr[n] = Standing(s, t)
  <2>1. Standing(s, t) = f[DOMAIN s]
    BY StandingIsLoop DEF f
  <2>2. tr[n] = f[1..n]
    BY <1>1 DEF tr
  <2> QED
    BY <1>1, <2>1, <2>2
<1> HIDE DEF tr
<1>16. \A i \in 1..Len(s) :
          tr[i] = IF s[i].turn < t THEN Append(tr[i - 1], s[i]) ELSE tr[i - 1]
  BY <1>14 DEF n
<1> QED
  BY <1>13, <1>15, <1>16 DEF n

\* The first k members of a list.
LEMMA FirstMembers ==
    ASSUME NEW S, NEW s \in Seq(S), NEW k \in 0..Len(s)
    PROVE  /\ SubSeq(s, 1, k) \in Seq(S) /\ Len(SubSeq(s, 1, k)) = k
           /\ \A i \in 1..k : SubSeq(s, 1, k)[i] = s[i]
           /\ k = 0 => SubSeq(s, 1, k) = <<>>
           /\ k # 0 => SubSeq(s, 1, k) = Append(SubSeq(s, 1, k - 1), s[k])
           /\ k = Len(s) => SubSeq(s, 1, k) = s
<1>1. Len(s) \in Nat /\ k \in Nat /\ s \in [1..Len(s) -> S]
  BY LenProperties
<1>2. /\ SubSeq(s, 1, k) \in Seq(S) /\ Len(SubSeq(s, 1, k)) = k
      /\ \A i \in 1..k : SubSeq(s, 1, k)[i] = s[i]
  BY <1>1, SubSeqProperties
<1>3. k = 0 => SubSeq(s, 1, k) = <<>>
  BY <1>2, EmptySeq
<1>4. k = Len(s) => SubSeq(s, 1, k) = s
  BY <1>1, <1>2, SeqEqual
<1>5. ASSUME k # 0 PROVE SubSeq(s, 1, k) = Append(SubSeq(s, 1, k - 1), s[k])
  <2>1. k - 1 \in 0..Len(s) /\ k \in 1..Len(s) /\ k - 1 \in Nat
    BY <1>1, <1>5
  <2> DEFINE a == SubSeq(s, 1, k - 1)
             b == Append(a, s[k])
             c == SubSeq(s, 1, k)
  <2>2. /\ a \in Seq(S) /\ Len(a) = k - 1 /\ \A i \in 1..(k - 1) : a[i] = s[i]
    BY <1>1, <2>1, SubSeqProperties
  <2>3. s[k] \in S
    BY <1>1, <2>1
  <2> HIDE DEF a
  <2>4. b \in Seq(S) /\ Len(b) = Len(a) + 1 /\ b[Len(a) + 1] = s[k]
        /\ \A i \in 1..Len(a) : b[i] = a[i]
    BY <2>2, <2>3, AppendProperties
  <2> HIDE DEF b, c
  <2>5. c \in Seq(S) /\ Len(c) = k /\ \A i \in 1..k : c[i] = s[i]
    BY <1>2 DEF c
  <2>6. \A i \in 1..k : c[i] = b[i]
    <3> SUFFICES ASSUME NEW i \in 1..k PROVE c[i] = b[i]
      OBVIOUS
    <3>1. CASE i = k
      <4>1. Len(a) + 1 = k
        BY <2>1, <2>2
      <4> QED
        BY <2>4, <2>5, <3>1, <4>1
    <3>2. CASE i # k
      <4>1. i \in 1..(k - 1) /\ i \in 1..Len(a)
        BY <2>1, <2>2, <3>2
      <4> QED
        BY <2>2, <2>4, <2>5, <4>1
    <3> QED
      BY <3>1, <3>2
  <2>7. Len(b) = Len(c)
    BY <2>1, <2>2, <2>4, <2>5
  <2>8. c = b
    BY <2>4, <2>5, <2>6, <2>7, SeqEqual
  <2> QED
    BY <2>8 DEF a, b, c
<1> QED
  BY <1>2, <1>3, <1>4, <1>5

\* The events before turn t of an ordered log are its first ones.
LEMMA StandingIsPrefix ==
    ASSUME NEW s \in Seq(Events), Ordered(s), NEW t \in Nat
    PROVE  \E c \in 0..Len(s) : /\ Standing(s, t) = SubSeq(s, 1, c)
                                /\ \A i \in 1..c : s[i].turn < t
                                /\ \A i \in (c + 1)..Len(s) : s[i].turn >= t
<1> DEFINE n == Len(s)
           Late == {k \in 1..(n + 1) : k = n + 1 \/ s[k].turn >= t}
<1>1. n \in Nat /\ \A i \in 1..n : s[i] \in Events /\ s[i].turn \in Nat
  <2>1. n \in Nat /\ \A i \in 1..n : s[i] \in Events
    BY LenProperties
  <2> QED
    BY <2>1 DEF Events
<1>2. Min(Late) \in Late /\ \A x \in Late : Min(Late) <= x
  <2>1. Late \in SUBSET Nat /\ n + 1 \in Late
    BY <1>1
  <2> HIDE DEF Late
  <2> QED
    BY <2>1, MinOfNumbers
<1> DEFINE c == Min(Late) - 1
<1>3. c \in 0..n /\ c + 1 \in Late /\ \A x \in Late : c + 1 <= x
  <2>1. Late \subseteq 1..(n + 1)
    OBVIOUS
  <2> DEFINE m == Min(Late)
  <2> HIDE DEF Late, m
  <2>2. m \in 1..(n + 1) /\ m \in Late /\ \A x \in Late : m <= x
    BY <1>2, <2>1 DEF m
  <2>3. c = m - 1 /\ n \in Nat
    BY <1>1 DEF m
  <2> HIDE DEF c
  <2>4. c \in 0..n /\ c + 1 = m
    BY <2>2, <2>3
  <2> QED
    BY <2>2, <2>4
<1> HIDE DEF c
<1>4. \A i \in 1..c : s[i].turn < t
  <2> SUFFICES ASSUME NEW i \in 1..c PROVE s[i].turn < t
    OBVIOUS
  <2>1. i \in 1..n /\ i \in 1..(n + 1) /\ i < c + 1
    BY <1>1, <1>3
  <2>2. i \notin Late
    BY <1>3, <2>1
  <2> QED
    BY <1>1, <2>1, <2>2
<1>5. \A i \in (c + 1)..n : s[i].turn >= t
  <2> SUFFICES ASSUME NEW i \in (c + 1)..n PROVE s[i].turn >= t
    OBVIOUS
  <2>1. c + 1 \in 1..n /\ i \in 1..n /\ c + 1 <= i
    BY <1>1, <1>3
  <2>2. s[c + 1].turn >= t
    <3>1. c + 1 # n + 1
      BY <1>1, <2>1
    <3> QED
      BY <1>3, <3>1
  <2>3. s[c + 1].turn <= s[i].turn
    BY <2>1 DEF Ordered
  <2> QED
    BY <1>1, <2>1, <2>2, <2>3
<1>6. PICK tr : /\ tr[0] = <<>> /\ Standing(s, t) = tr[n]
                /\ \A i \in 1..n :
                     tr[i] = IF s[i].turn < t THEN Append(tr[i - 1], s[i]) ELSE tr[i - 1]
  BY StandingLeads
<1> DEFINE Upto(k) == IF k <= c THEN SubSeq(s, 1, k) ELSE SubSeq(s, 1, c)
           Bad == {k \in 0..n : tr[k] # Upto(k)}
<1>7. Bad = {}
  <2>1. SUFFICES ASSUME Bad # {} PROVE FALSE
    OBVIOUS
  <2>2. PICK k \in Bad : k = 0 \/ (k - 1 \in Nat /\ k - 1 \notin Bad)
    <3>1. Bad \subseteq Nat
      OBVIOUS
    <3> HIDE DEF Bad
    <3> QED
      BY <2>1, <3>1, FirstNumber
  <2>3. k # 0
    <3>1. SubSeq(s, 1, 0) = <<>> /\ 0 <= c
      BY <1>1, <1>3, FirstMembers
    <3> QED
      BY <1>6, <3>1
  <2>4. k \in 1..n /\ k - 1 \in 0..n /\ tr[k - 1] = Upto(k - 1)
    BY <1>1, <2>2, <2>3
  <2>5. tr[k] = IF s[k].turn < t THEN Append(tr[k - 1], s[k]) ELSE tr[k - 1]
    BY <1>6, <2>4
  <2> HIDE DEF n
  <2>6. CASE k <= c
    <3>1. tr[k] = Append(SubSeq(s, 1, k - 1), s[k])
      <4>1. k \in 1..c /\ k - 1 <= c
        BY <1>3, <2>4, <2>6
      <4> QED
        BY <1>4, <2>4, <2>5, <4>1
    <3>2. SubSeq(s, 1, k) = Append(SubSeq(s, 1, k - 1), s[k])
      BY <2>3, <2>4, FirstMembers DEF n
    <3> QED
      BY <2>6, <3>1, <3>2
  <2>7. CASE ~(k <= c)
    <3>1. k \in (c + 1)..n /\ (k - 1 <= c => k - 1 = c)
      BY <1>3, <2>4, <2>7
    <3>2. ~(s[k].turn < t)
      <4>1. s[k].turn >= t /\ s[k].turn \in Nat
        BY <1>1, <1>5, <2>4, <3>1
      <4> QED
        BY <4>1
    <3>3. tr[k] = Upto(k - 1)
      BY <2>4, <2>5, <3>2
    <3>4. Upto(k - 1) = SubSeq(s, 1, c)
      BY <3>1
    <3> QED
      BY <2>7, <3>3, <3>4
  <2> QED
    BY <2>6, <2>7
<1>8. tr[n] = SubSeq(s, 1, c)
  <2>1. n \in 0..n /\ (n <= c => n = c)
    BY <1>1, <1>3
  <2>2. tr[n] = Upto(n)
    BY <1>7, <2>1
  <2> QED
    BY <2>1, <2>2
<1> QED
  BY <1>3, <1>4, <1>5, <1>6, <1>8

-----------------------------------------------------------------------------
(* The invariant.                                                           *)

\* A world that a session may go on with.
Live(w) == Sound(w) /\ w.ok /\ w.ruled /\ w.day <= MaxDay

\* No event is later than the world's day.
Dates(w, events) == \A i \in 1..Len(events) : events[i].day <= w.day

\* What a history whose turns are all published tells: a settled purse, and a
\* scene that is anchored where the protagonist is.
Closed(events) ==
    LET w == Project(events) IN
    /\ Live(w) /\ Dates(w, events)
    /\ Balance(w) = events[Max(Settlements(events))].value
    /\ Balance(w) \in Int /\ Balance(w) >= Floor
    /\ w.anchor # Nothing => w.anchor = [at |-> At(w, Hero), day |-> w.day]

\* Turn boundaries; a rewind ends a log at one.
Boundary(events, k) == k = Len(events) \/ events[k].turn < events[k + 1].turn
Books(events) ==
    \A k \in 1..Len(events) : Boundary(events, k) => Closed(SubSeq(events, 1, k))

LogOK ==
    /\ log \in Seq(Events) /\ Len(log) >= 1 /\ log[1].turn = 0
    /\ Ordered(log) /\ (\A i \in 1..Len(log) : log[i].turn <= MaxTurn)
    /\ Books(log)

\* The action under way: settled first, its later events settle nothing and end no
\* scene, and what they change is not before the day it began on.
TurnOK ==
    /\ Turn <= MaxTurn
    /\ Len(batch) >= 1 /\ batch[1].kind = "resolved" /\ batch[1].value = scene.expected
    /\ \A i \in 1..Len(batch) :
         /\ batch[i].turn = Turn
         /\ i > 1 => batch[i].kind \notin {"resolved", "configured"}
    /\ scene.expected \in Int /\ scene.expected >= Floor /\ scene.present \subseteq Npcs
    /\ Live(world) /\ Dates(world, batch)
    /\ world.anchor = Project(log).anchor /\ world.day >= Project(log).day
    /\ \A d \in Nat : d < Project(log).day => Agree(world, Project(log), d)
    /\ stage # "settled" /\ scene.wait # Nothing =>
         world.band = scene.wait.band /\ world.day >= scene.wait.day

Stages == {"idle", "settled", "told", "digested", "caughtup"}

CInv ==
    /\ LogOK /\ batch \in Seq(Events)
    /\ stage \in Stages /\ prev \in (SUBSET Npcs) \cup {Nothing}
    /\ world = Project(log \o batch)
    /\ stage = "idle" => batch = <<>> /\ scene = Idle
    /\ stage # "idle" => TurnOK

-----------------------------------------------------------------------------
(* Genesis.                                                                 *)

LEMMA ListOfSet ==
    ASSUME NEW S, IsFiniteSet(S)
    PROVE  /\ SetToSeq(S) \in Seq(S) /\ DOMAIN SetToSeq(S) = 1..Len(SetToSeq(S))
           /\ \A x \in S : \E i \in 1..Len(SetToSeq(S)) : SetToSeq(S)[i] = x
<1> DEFINE n == Cardinality(S)
           f == SetToSeq(S)
<1>1. n \in Nat /\ ExistsBijection(1..n, S)
  BY FS_CardinalityType
<1>2. PICK g \in Bijection(1..n, S) : TRUE
  BY <1>1 DEF ExistsBijection
<1>3. g \in [1..n -> S] /\ IsInjective(g)
  <2>1. g \in Injection(1..n, S)
    BY <1>2 DEF Bijection
  <2> QED
    BY <2>1 DEF Injection, IsInjective
<1>4. f \in [1..n -> S] /\ IsInjective(f)
  BY <1>3 DEF SetToSeq
<1> HIDE DEF f
<1>5. f \in Injection(1..n, S)
  BY <1>4 DEF Injection, IsInjective
<1>6. IsFiniteSet(1..n) /\ Cardinality(1..n) = n
  BY <1>1, FS_Interval
<1>7. f \in Surjection(1..n, S)
  BY <1>5, <1>6, FS_Injection
<1>8. \A x \in S : \E i \in 1..n : f[i] = x
  BY <1>7 DEF Surjection
<1>9. f \in Seq(S) /\ Len(f) = n
  BY <1>1, <1>4
<1> QED
  BY <1>4, <1>8, <1>9 DEF f

\* One list after another.
Joined(c, s, t, n, m) ==
    /\ c \in Seq(Events) /\ Len(c) = n + m
    /\ \A i \in 1..(n + m) : c[i] = IF i <= n THEN s[i] ELSE t[i - n]

LEMMA ListsJoin ==
    ASSUME NEW s \in Seq(Events), NEW t \in Seq(Events), NEW n, NEW m, Len(s) = n, Len(t) = m
    PROVE  Joined(s \o t, s, t, n, m)
<1>1. /\ s \o t \in Seq(Events) /\ Len(s \o t) = Len(s) + Len(t)
      /\ \A i \in 1..(Len(s) + Len(t)) :
           (s \o t)[i] = IF i <= Len(s) THEN s[i] ELSE t[i - Len(s)]
  BY ConcatProperties
<1> QED
  BY <1>1 DEF Joined

LEMMA GenesisEvents ==
    /\ Genesis \in Seq(Events) /\ Len(Genesis) >= 3
    /\ \A i \in 1..Len(Genesis) :
         /\ Genesis[i].turn = 0 /\ Genesis[i].day = 1
         /\ Genesis[i].kind \in IF i = 3 THEN {"configured"} ELSE {"created", "moved"}
    /\ Genesis[3].value = Purse
<1> DEFINE npcs == SetToSeq(Npcs)
           a == << Event("created", 0, 1, Hero, "tracked"), Event("moved", 0, 1, Hero, Start),
                   Event("configured", 0, 1, Hero, Purse) >>
           b == [i \in DOMAIN npcs |-> Event("created", 0, 1, npcs[i], "tracked")]
           c == [i \in DOMAIN npcs |-> Event("moved", 0, 1, npcs[i], Home[npcs[i]])]
           First(e) == e.turn = 0 /\ e.day = 1 /\ e.kind \in {"created", "moved"}
<1>1. npcs \in Seq(Npcs) /\ DOMAIN npcs = 1..Len(npcs) /\ Len(npcs) \in Nat
      /\ \A i \in 1..Len(npcs) : npcs[i] \in Npcs
  <2>1. npcs \in Seq(Npcs)
    BY ListOfSet, ChronicleAssumption
  <2> HIDE DEF npcs
  <2> QED
    BY <2>1, LenProperties
<1>2. /\ Start \in Places /\ Home \in [Npcs -> Places] /\ Purse \in Int
      /\ Hero \in People /\ Npcs \subseteq People
  BY ChronicleAssumption DEF People
<1>3. \A p \in People : Event("created", 0, 1, p, "tracked") \in Events
                        /\ First(Event("created", 0, 1, p, "tracked"))
  BY DEF Events, Event, Fits, Kinds, Values, Tiers
<1>4. \A p \in People, l \in Places : Event("moved", 0, 1, p, l) \in Events
                                      /\ First(Event("moved", 0, 1, p, l))
  BY DEF Events, Event, Fits, Kinds, Values
<1>5. LET e == Event("configured", 0, 1, Hero, Purse) IN
      /\ e \in Events /\ e.turn = 0 /\ e.day = 1 /\ e.kind = "configured" /\ e.value = Purse
  BY <1>2 DEF Events, Event, Fits, Kinds, Values
<1> HIDE DEF npcs, First
<1>6. /\ a \in Seq(Events) /\ Len(a) = 3 /\ First(a[1]) /\ First(a[2])
      /\ a[3] = Event("configured", 0, 1, Hero, Purse)
  BY <1>2, <1>3, <1>4, <1>5
<1>7. b \in Seq(Events) /\ Len(b) = Len(npcs) /\ \A i \in 1..Len(npcs) : First(b[i])
  <2>1. \A i \in 1..Len(npcs) : Event("created", 0, 1, npcs[i], "tracked") \in Events
                                /\ First(Event("created", 0, 1, npcs[i], "tracked"))
    BY <1>1, <1>2, <1>3
  <2> QED
    BY <1>1, <2>1
<1>8. c \in Seq(Events) /\ Len(c) = Len(npcs) /\ \A i \in 1..Len(npcs) : First(c[i])
  <2>1. \A i \in 1..Len(npcs) : Event("moved", 0, 1, npcs[i], Home[npcs[i]]) \in Events
                                /\ First(Event("moved", 0, 1, npcs[i], Home[npcs[i]]))
    BY <1>1, <1>2, <1>4
  <2> QED
    BY <1>1, <2>1
<1>9. Genesis = (a \o b) \o c
  BY DEF Genesis, npcs
<1> DEFINE g == (a \o b) \o c
           m == Len(npcs)
<1> HIDE DEF a, b, c
<1>10. /\ a \o b \in Seq(Events) /\ Len(a \o b) = 3 + m
       /\ \A i \in 1..(3 + m) : (a \o b)[i] = IF i <= 3 THEN a[i] ELSE b[i - 3]
  <2>1. Joined(a \o b, a, b, 3, m)
    BY <1>6, <1>7, ListsJoin
  <2> QED
    BY <2>1 DEF Joined
<1>11. /\ g \in Seq(Events) /\ Len(g) = (3 + m) + m
       /\ \A i \in 1..((3 + m) + m) :
            g[i] = IF i <= 3 + m THEN (a \o b)[i] ELSE c[i - (3 + m)]
  <2>1. Joined(g, a \o b, c, 3 + m, m)
    BY <1>8, <1>10, ListsJoin
  <2> QED
    BY <2>1 DEF Joined
<1> HIDE DEF g
<1>12. m \in Nat
  BY <1>1
<1> HIDE DEF m
<1>13. ASSUME NEW i \in 1..Len(g)
       PROVE  IF i = 3 THEN g[i] = a[3] ELSE First(g[i])
  <2>1. CASE i <= 3
    <3>1. i \in 1..3 /\ i \in 1..(3 + m) /\ i <= 3 + m /\ i \in 1..((3 + m) + m)
      BY <1>11, <1>12, <2>1
    <3>2. g[i] = a[i]
      BY <1>10, <1>11, <2>1, <3>1
    <3>3. i = 1 \/ i = 2 \/ i = 3
      BY <3>1
    <3> QED
      BY <1>6, <3>2, <3>3
  <2>2. CASE i > 3 /\ i <= 3 + m
    <3>1. i \in 1..(3 + m) /\ i - 3 \in 1..m /\ i \in 1..((3 + m) + m) /\ ~(i <= 3) /\ i # 3
      BY <1>11, <1>12, <2>2
    <3>2. g[i] = b[i - 3]
      BY <1>10, <1>11, <2>2, <3>1
    <3> QED
      BY <1>7, <3>1, <3>2 DEF m
  <2>3. CASE i > 3 + m
    <3>1. i - (3 + m) \in 1..m /\ i \in 1..((3 + m) + m) /\ ~(i <= 3 + m) /\ i # 3
      BY <1>11, <1>12, <2>3
    <3>2. g[i] = c[i - (3 + m)]
      BY <1>11, <3>1
    <3> QED
      BY <1>8, <3>1, <3>2 DEF m
  <2> QED
    BY <1>11, <1>12, <2>1, <2>2, <2>3
<1>14. Len(g) >= 3 /\ 3 \in 1..Len(g)
  BY <1>11, <1>12
<1>15. \A i \in 1..Len(g) :
          /\ g[i].turn = 0 /\ g[i].day = 1
          /\ g[i].kind \in IF i = 3 THEN {"configured"} ELSE {"created", "moved"}
  BY <1>5, <1>6, <1>13 DEF First
<1>16. g[3].value = Purse
  BY <1>5, <1>6, <1>13, <1>14
<1>17. Genesis = g
  BY <1>9 DEF g
<1> QED
  BY <1>11, <1>14, <1>15, <1>16, <1>17

\* A date that is not before the values in force is in order.
LEMMA InOrder ==
    ASSUME NEW V, NEW h \in Histories(V), NEW day \in Nat, NEW d \in Nat, Within(h, day), day <= d
    PROVE  ~OutOfOrder(h, d)
<1> DEFINE D == [value : V, start : Nat \ {0}, end : Nat \cup {Nothing}]
<1>1. \A i \in DOMAIN h : h[i].start \in Nat
  <2>1. h \in Seq(D)
    BY DEF Histories
  <2> HIDE DEF D
  <2>2. \A i \in DOMAIN h : h[i] \in D
    BY <2>1
  <2> QED
    BY <2>2 DEF D
<1> QED
  BY <1>1 DEF OutOfOrder, Within

LEMMA FirstDay ==
    ASSUME NEW e \in Events, e.day = 1
    PROVE  LET x == Dayed(EmptyWorld, e) IN
           /\ Sound(x) /\ x.day = 1 /\ x.purse = <<>> /\ x.ok /\ x.anchor = Nothing
<1> DEFINE x == Dayed(EmptyWorld, e)
<1>1. x = [EmptyWorld EXCEPT !.day = 1]
  BY DEF Dayed, EmptyWorld
<1>2. /\ x.day = 1 /\ x.purse = <<>> /\ x.ok /\ x.anchor = Nothing
      /\ \A p \in People : x.place[p] = <<>> /\ x.seen[p] = Nothing
  <2>1. /\ x.day = 1 /\ x.purse = EmptyWorld.purse /\ x.ok = EmptyWorld.ok
        /\ x.anchor = EmptyWorld.anchor /\ x.place = EmptyWorld.place
        /\ x.seen = EmptyWorld.seen
    BY <1>1, EmptyWorldTyped DEF Worlds
  <2> HIDE DEF x
  <2> QED
    BY <2>1 DEF EmptyWorld
<1>3. x \in Worlds
  BY EmptyWorldTyped, DayedTyped
<1> HIDE DEF x
<1>4. Within(<<>>, 1)
  BY DEF Within, Tiled
<1>5. Sound(x)
  BY <1>2, <1>3, <1>4 DEF Sound
<1> QED
  BY <1>2, <1>5 DEF x

LEMMA GenesisStep ==
    ASSUME NEW v \in Worlds, v.ok, v.anchor = Nothing, v = EmptyWorld \/ (Sound(v) /\ v.day = 1),
           NEW e \in Events, e.day = 1, e.kind \in {"created", "moved", "configured"}
    PROVE  LET u == Fold(v, e) IN
           /\ u \in Worlds /\ u.ok /\ u.anchor = Nothing /\ Sound(u) /\ u.day = 1
           /\ v.ruled \/ e.kind = "configured" => u.ruled
           /\ u.purse = IF e.kind = "configured" THEN Supersede(v.purse, e.value, 1) ELSE v.purse
<1> DEFINE x == Dayed(v, e)
           u == Fold(v, e)
<1>1. /\ Sound(x) /\ x.day = 1 /\ x.purse = v.purse /\ x.ok /\ x.anchor = Nothing /\ x \in Worlds
      /\ v.ruled => x.ruled
  <2>1. CASE v = EmptyWorld
    <3>1. v.purse = <<>> /\ ~v.ruled
      BY <2>1 DEF EmptyWorld
    <3> QED
      BY <2>1, <3>1, FirstDay, DayedTyped
  <2>2. CASE Sound(v) /\ v.day = 1
    BY <2>2, DayedSound
  <2> QED
    BY <2>1, <2>2
<1>2. e.who \in People /\ e.day \in Nat
  BY DEF Events
<1> HIDE DEF x
<1>3. ~Refused(x, e)
  <2>1. ~OutOfOrder(x.place[e.who], e.day)
    <3>1. x.place[e.who] \in Histories(Places) /\ Within(x.place[e.who], 1)
      BY <1>1, <1>2, WorldFields DEF Sound
    <3> QED
      BY <1>2, <3>1, InOrder
  <2> QED
    BY <2>1 DEF Refused, SetsPurse, SetsFact
<1>4. u = Owned(x, e)
  BY <1>1, <1>3, FoldIs DEF x
<1>5. Effect(x, u, e)
  BY <1>1, <1>4, OwnedEffect
<1>6. Grows(x, u, e)
  <2>1. e.day <= x.day
    BY <1>1
  <2> QED
    BY <1>1, <1>5, <2>1, EffectGrows
<1>7. u.purse = IF e.kind = "configured" THEN Supersede(v.purse, e.value, 1) ELSE v.purse
  <2>1. CASE e.kind = "created"
    <3>1. u = [AddEntity(x, e.who, e.value) EXCEPT !.seen[e.who] = e.day]
      BY <1>4, <2>1 DEF Owned, CharacterApplied, SetsPurse, SetsFact
    <3>2. AddEntity(x, e.who, e.value) = [x EXCEPT !.tier[e.who] = e.value, !.seen[e.who] = Nothing]
      BY DEF AddEntity
    <3>3. u.purse = x.purse
      BY <1>1, <3>1, <3>2 DEF Worlds
    <3> QED
      BY <1>1, <2>1, <3>3
  <2>2. CASE e.kind = "moved"
    <3>1. u = PlaceApplied(x, e)
      BY <1>4, <2>2 DEF Owned
    <3>2. u.purse = x.purse
      BY <1>1, <3>1 DEF PlaceApplied, Worlds
    <3> QED
      BY <1>1, <2>2, <3>2
  <2>3. CASE e.kind = "configured"
    <3>1. u = ResourceApplied(x, e)
      BY <1>4, <2>3 DEF Owned
    <3>2. u.purse = Supersede(x.purse, e.value, e.day)
      BY <1>1, <2>3, <3>1 DEF ResourceApplied, Worlds
    <3> QED
      BY <1>1, <2>3, <3>2
  <2> QED
    BY <2>1, <2>2, <2>3
<1>8. /\ u \in Worlds /\ u.day = 1 /\ u.ok /\ u.anchor = Nothing
      /\ x.ruled \/ e.kind = "configured" => u.ruled
  BY <1>1, <1>5 DEF Effect
<1>9. Sound(u)
  BY <1>6 DEF Grows
<1> HIDE DEF u
<1> QED
  BY <1>1, <1>7, <1>8, <1>9 DEF u

GenesisTold(v, k) ==
    /\ v \in Worlds /\ v.ok /\ v.anchor = Nothing
    /\ IF k = 0 THEN v = EmptyWorld ELSE Sound(v) /\ v.day = 1
    /\ IF k < 3 THEN v.purse = <<>>
       ELSE v.ruled /\ v.purse = Supersede(<<>>, Purse, 1)

LEMMA GenesisWorld ==
    GenesisTold(Project(Genesis), Len(Genesis))
<1> DEFINE g == Genesis
           n == Len(g)
<1>1. /\ g \in Seq(Events) /\ n \in Nat /\ \A i \in 1..n : g[i] \in Events
      /\ \A i \in 1..n : /\ g[i].turn = 0 /\ g[i].day = 1
                         /\ g[i].kind \in IF i = 3 THEN {"configured"} ELSE {"created", "moved"}
      /\ g[3].value = Purse
  BY GenesisEvents, LenProperties
<1> HIDE DEF g
<1>2. PICK tr : Leads(tr, EmptyWorld, g) /\ Extend(EmptyWorld, g) = tr[n]
  BY <1>1, EmptyWorldTyped, ExtendLeads
<1>3. \A i \in 1..n : tr[i] = Fold(tr[i - 1], g[i])
  BY <1>2 DEF Leads
<1>4. tr[0] = EmptyWorld /\ \A i \in 0..n : tr[i] \in Worlds
  BY <1>2 DEF Leads
<1> HIDE DEF n
<1> DEFINE Bad == {k \in 0..n : ~GenesisTold(tr[k], k)}
<1>5. SUFFICES ASSUME Bad # {} PROVE FALSE
  BY <1>1, <1>2 DEF n, g, Project
<1>6. PICK k \in Bad : k = 0 \/ (k - 1 \in Nat /\ k - 1 \notin Bad)
  <2>1. Bad \subseteq Nat
    OBVIOUS
  <2> HIDE DEF Bad
  <2> QED
    BY <1>5, <2>1, FirstNumber
<1>7. k # 0
  <2>1. GenesisTold(EmptyWorld, 0)
    <3>1. EmptyWorld.ok /\ EmptyWorld.anchor = Nothing /\ EmptyWorld.purse = <<>>
      BY DEF EmptyWorld
    <3> QED
      BY <3>1, EmptyWorldTyped DEF GenesisTold
  <2> QED
    BY <1>4, <2>1
<1>8. k \in 1..n /\ k - 1 \in 0..n /\ GenesisTold(tr[k - 1], k - 1) /\ k \in Nat
  BY <1>1, <1>6, <1>7
<1> DEFINE v == tr[k - 1]
           u == tr[k]
           e == g[k]
<1>9. /\ v \in Worlds /\ v.ok /\ v.anchor = Nothing
      /\ v = EmptyWorld \/ (Sound(v) /\ v.day = 1)
  BY <1>8 DEF GenesisTold
<1>10. /\ e \in Events /\ e.day = 1 /\ e.kind \in {"created", "moved", "configured"}
       /\ e.kind = "configured" <=> k = 3
       /\ k = 3 => e.value = Purse
  BY <1>1, <1>8
<1>11. u = Fold(v, e)
  BY <1>3, <1>8
<1> HIDE DEF v, u, e
<1>12. /\ u \in Worlds /\ u.ok /\ u.anchor = Nothing /\ Sound(u) /\ u.day = 1
       /\ v.ruled \/ e.kind = "configured" => u.ruled
       /\ u.purse = IF e.kind = "configured" THEN Supersede(v.purse, e.value, 1) ELSE v.purse
  BY <1>9, <1>10, <1>11, GenesisStep
<1>13. IF k - 1 < 3 THEN v.purse = <<>> ELSE v.ruled /\ v.purse = Supersede(<<>>, Purse, 1)
  BY <1>8 DEF GenesisTold, v
<1>14. IF k < 3 THEN u.purse = <<>> ELSE u.ruled /\ u.purse = Supersede(<<>>, Purse, 1)
  <2>1. CASE k < 3
    BY <1>8, <1>10, <1>12, <1>13, <2>1
  <2>2. CASE k = 3
    BY <1>8, <1>10, <1>12, <1>13, <2>2
  <2>3. CASE k > 3
    BY <1>8, <1>10, <1>12, <1>13, <2>3
  <2> QED
    BY <1>8, <2>1, <2>2, <2>3
<1>15. GenesisTold(u, k)
  BY <1>7, <1>12, <1>14 DEF GenesisTold
<1> QED
  BY <1>15 DEF u

\* A history with one value tells it on the day it begins.
LEMMA OneValue ==
    ASSUME NEW v \in Int
    PROVE  ValueAt(Supersede(<<>>, v, 1), 1) = v
<1> DEFINE h == Supersede(<<>>, v, 1)
           valid == {i \in DOMAIN h : ValidAt(h[i], 1)}
<1>1. h = <<Dated(v, 1)>>
  <2>1. [i \in DOMAIN <<>> |-> IF Current(<<>>[i]) THEN [<<>>[i] EXCEPT !.end = 1] ELSE <<>>[i]]
          = <<>>
    OBVIOUS
  <2> QED
    BY <2>1 DEF Supersede
<1>2. DOMAIN h = {1} /\ h[1] = Dated(v, 1)
  BY <1>1
<1>3. ValidAt(h[1], 1)
  BY <1>2 DEF ValidAt, Dated, Current
<1> HIDE DEF h
<1>4. valid = {1}
  BY <1>2, <1>3
<1>5. Min({1}) = 1
  <2>1. {1} \in SUBSET Nat /\ {1} # {}
    OBVIOUS
  <2> QED
    BY <2>1, MinOfNumbers
<1>6. ValueAt(h, 1) = h[Min(valid)].value
  BY <1>4 DEF ValueAt
<1> HIDE DEF valid
<1>7. ValueAt(h, 1) = h[1].value
  BY <1>4, <1>5, <1>6
<1> QED
  BY <1>2, <1>7 DEF h, Dated

\* The books of genesis: the configured purse.
LEMMA GenesisClosed ==
    Closed(Genesis)
<1> DEFINE w == Project(Genesis)
           n == Len(Genesis)
<1>1. /\ Genesis \in Seq(Events) /\ n \in Nat /\ n >= 3 /\ DOMAIN Genesis = 1..n
      /\ \A i \in 1..n :
           /\ Genesis[i].turn = 0 /\ Genesis[i].day = 1
           /\ Genesis[i].kind \in IF i = 3 THEN {"configured"} ELSE {"created", "moved"}
      /\ Genesis[3].value = Purse
  BY GenesisEvents, LenProperties
<1>2. /\ w \in Worlds /\ w.ok /\ w.anchor = Nothing /\ Sound(w) /\ w.day = 1 /\ w.ruled
      /\ w.purse = Supersede(<<>>, Purse, 1)
  BY <1>1, GenesisWorld DEF GenesisTold
<1> HIDE DEF w, n
<1>3. Settlements(Genesis) = {3}
  BY <1>1 DEF Settlements
<1>4. Max({3}) = 3
  <2>1. {3} \in SUBSET Nat /\ {3} # {} /\ \A x \in {3} : x <= 3
    OBVIOUS
  <2> QED
    BY <2>1, MaxOfBounded
<1>5. Purse \in Int /\ Floor \in Int /\ Floor <= Purse /\ 1 <= MaxDay
  BY ChronicleAssumption
<1>6. Balance(w) = Purse
  BY <1>2, <1>5, OneValue DEF Balance
<1>7. Live(w)
  BY <1>2, <1>5 DEF Live
<1>8. Dates(w, Genesis)
  BY <1>1, <1>2 DEF Dates, n
<1>9. Balance(w) = Genesis[Max(Settlements(Genesis))].value
  BY <1>1, <1>3, <1>4, <1>6
<1> QED
  BY <1>2, <1>5, <1>6, <1>7, <1>8, <1>9 DEF Closed, w

\* A list is its own first part.
LEMMA WholeList ==
    ASSUME NEW s \in Seq(Events)
    PROVE  SubSeq(s, 1, Len(s)) = s
  BY FirstMembers, LenProperties

LEMMA InitInv ==
    ASSUME Init
    PROVE  CInv
<1> DEFINE n == Len(Genesis)
<1>1. /\ log = Genesis /\ batch = <<>> /\ world = Project(Genesis)
      /\ stage = "idle" /\ scene = Idle /\ prev = Nothing
  BY DEF Init
<1>2. /\ Genesis \in Seq(Events) /\ n \in Nat /\ n >= 3
      /\ \A i \in 1..n : Genesis[i].turn = 0
  BY GenesisEvents, LenProperties
<1>3. Books(Genesis)
  <2> SUFFICES ASSUME NEW k \in 1..n, Boundary(Genesis, k)
               PROVE  Closed(SubSeq(Genesis, 1, k))
    BY DEF Books
  <2>1. k = n
    <3>1. SUFFICES ASSUME k # n PROVE FALSE
      OBVIOUS
    <3>2. k + 1 \in 1..n
      BY <1>2, <3>1
    <3>3. Genesis[k].turn = 0 /\ Genesis[k + 1].turn = 0
      BY <1>2, <3>2
    <3> QED
      BY <3>1, <3>3 DEF Boundary
  <2> QED
    BY <1>2, <2>1, GenesisClosed, WholeList
<1>4. LogOK
  <2>1. Ordered(Genesis)
    BY <1>2 DEF Ordered
  <2>2. MaxTurn \in Nat
    BY ChronicleAssumption
  <2> QED
    BY <1>1, <1>2, <1>3, <2>1, <2>2 DEF LogOK
<1>5. Genesis \o <<>> = Genesis
  BY <1>2, ConcatEmptySeq
<1>6. batch \in Seq(Events)
  BY <1>1
<1>7. world = Project(log \o batch)
  BY <1>1, <1>5
<1>8. stage \in Stages /\ stage = "idle" /\ prev \in (SUBSET Npcs) \cup {Nothing}
  <2>1. stage \in Stages /\ stage = "idle"
    BY <1>1 DEF Stages
  <2>2. prev \in (SUBSET Npcs) \cup {Nothing}
    BY <1>1
  <2> QED
    BY <2>1, <2>2
<1> QED
  BY <1>1, <1>4, <1>6, <1>7, <1>8 DEF CInv

-----------------------------------------------------------------------------
(* Steps.                                                                   *)

\* What a history that stands between turns is.
LEMMA LogClosed ==
    ASSUME LogOK
    PROVE  Closed(log)
<1>1. log \in Seq(Events) /\ Len(log) \in Nat /\ Len(log) >= 1
  BY LenProperties DEF LogOK
<1>2. Len(log) \in 1..Len(log) /\ Boundary(log, Len(log))
  BY <1>1 DEF Boundary
<1>3. Closed(SubSeq(log, 1, Len(log)))
  BY <1>2 DEF LogOK, Books
<1> QED
  BY <1>1, <1>3, WholeList

LEMMA ProjectTyped ==
    ASSUME NEW s \in Seq(Events)
    PROVE  Project(s) \in Worlds
  BY EmptyWorldTyped, ExtendTyped DEF Project

LEMMA ProjectConcat ==
    ASSUME NEW a \in Seq(Events), NEW b \in Seq(Events)
    PROVE  Project(a \o b) = Extend(Project(a), b)
  BY EmptyWorldTyped, ExtendConcat DEF Project

\* The world of an idle session is that of its log.
LEMMA IdleWorld ==
    ASSUME CInv, stage = "idle"
    PROVE  world = Project(log) /\ batch = <<>> /\ scene = Idle
<1>1. log \in Seq(Events) /\ batch = <<>> /\ scene = Idle /\ world = Project(log \o batch)
  BY DEF CInv, LogOK
<1> QED
  BY <1>1, ConcatEmptySeq

LEMMA WorldTyped ==
    ASSUME CInv
    PROVE  world \in Worlds
<1>1. log \in Seq(Events) /\ batch \in Seq(Events) /\ world = Project(log \o batch)
  BY DEF CInv, LogOK
<1>2. log \o batch \in Seq(Events)
  BY <1>1, ConcatProperties
<1> QED
  BY <1>1, <1>2, ProjectTyped

\* Staging keeps the world the fold of its events.
LEMMA StagedWorld ==
    ASSUME CInv, NEW events \in Seq(Events), Stage(events)
    PROVE  /\ batch' \in Seq(Events) /\ world' = Extend(world, events)
           /\ world' = Project(log \o batch')
           /\ Joined(batch', batch, events, Len(batch), Len(events))
<1>1. /\ log \in Seq(Events) /\ batch \in Seq(Events) /\ world = Project(log \o batch)
      /\ batch' = batch \o events /\ world' = Extend(world, events)
  BY DEF CInv, LogOK, Stage
<1>2. batch' \in Seq(Events) /\ log \o batch \in Seq(Events)
  BY <1>1, ConcatProperties
<1>3. log \o batch' = (log \o batch) \o events
  BY <1>1, ConcatAssociative
<1>4. Project((log \o batch) \o events) = Extend(Project(log \o batch), events)
  BY <1>2, ProjectConcat
<1>5. Joined(batch', batch, events, Len(batch), Len(events))
  BY <1>1, ListsJoin
<1> QED
  BY <1>1, <1>2, <1>3, <1>4, <1>5

\* An event of today that nothing refuses.
LEMMA TodayFold ==
    ASSUME NEW w \in Worlds, Sound(w), w.ok, NEW e \in Events, e.day = w.day, ~Refused(w, e)
    PROVE  /\ Fold(w, e) = Owned(w, e) /\ Fold(w, e) \in Worlds
           /\ Grows(w, Fold(w, e), e) /\ Effect(w, Fold(w, e), e)
           /\ Fold(w, e).ok /\ Fold(w, e).day = w.day
<1>1. w.day \in Nat
  BY DEF Sound
<1>2. Dayed(w, e) = w
  <2>1. [w EXCEPT !.day = w.day] = w
    BY DEF Worlds
  <2> QED
    BY <2>1 DEF Dayed
<1>3. Fold(w, e) = Owned(w, e)
  BY <1>2, FoldIs
<1>4. Effect(w, Fold(w, e), e)
  BY <1>3, OwnedEffect
<1>5. Grows(w, Fold(w, e), e)
  BY FoldGrows
<1>6. Fold(w, e) \in Worlds /\ Fold(w, e).ok /\ Fold(w, e).day = w.day
  BY <1>4 DEF Effect
<1> QED
  BY <1>3, <1>4, <1>5, <1>6

LEMMA NothingToRefuse ==
    ASSUME NEW w \in Worlds, Sound(w), NEW e \in Events, e.day = w.day,
           \/ e.kind \in {"resolved", "current", "scene"}
           \/ e.kind = "evolved" /\ e.who # Hero /\ <<e.who, e.value>> \notin Refusals
    PROVE  ~Refused(w, e)
<1>1. ~OutOfOrder(w.purse, e.day)
  <2>1. w.purse \in Histories(Int) /\ Within(w.purse, w.day) /\ w.day \in Nat
    BY WorldFields DEF Sound
  <2> QED
    BY <2>1, InOrder
<1> QED
  BY <1>1 DEF Refused, SetsPurse, SetsFact, BreaksRule

\* An event of today is of the world's day.
LEMMA DayedToday ==
    ASSUME NEW w \in Worlds, NEW e \in Events, e.day = w.day
    PROVE  Dayed(w, e) = w
<1>1. [w EXCEPT !.day = w.day] = w
  BY DEF Worlds
<1> QED
  BY <1>1 DEF Dayed

\* A world that an event of today leaves standing refused nothing.
LEMMA AcceptedFold ==
    ASSUME NEW w \in Worlds, NEW e \in Events, e.day = w.day, Fold(w, e).ok
    PROVE  w.ok /\ ~Refused(w, e)
<1>1. SUFFICES ASSUME ~w.ok \/ Refused(w, e) PROVE FALSE
  OBVIOUS
<1>2. Fold(w, e) = [w EXCEPT !.ok = FALSE]
  BY <1>1, DayedToday, FoldIs
<1>3. ~Fold(w, e).ok
  BY <1>2 DEF Worlds
<1> QED
  BY <1>3

\* An event of today keeps the day, refused or not.
LEMMA TodayStays ==
    ASSUME NEW w \in Worlds, NEW e \in Events, e.day = w.day
    PROVE  Fold(w, e).day = w.day
<1>1. Fold(w, e) \in {[w EXCEPT !.ok = FALSE], Owned(w, e)}
  BY DayedToday, FoldIs
<1>2. [w EXCEPT !.ok = FALSE].day = w.day
  BY DEF Worlds
<1>3. Owned(w, e).day = w.day
  BY OwnedEffect DEF Effect
<1> QED
  BY <1>1, <1>2, <1>3

\* A world that stands at the end of a list stood after each event of it.
LEMMA StoodBefore ==
    ASSUME NEW w \in Worlds, NEW s \in Seq(Events), NEW tr, Leads(tr, w, s), tr[Len(s)].ok
    PROVE  \A k \in 0..Len(s) : tr[k].ok
<1> DEFINE n == Len(s)
           Bad == {j \in 0..n : ~tr[n - j].ok}
<1>1. n \in Nat /\ \A i \in 1..n : s[i] \in Events
  BY LenProperties
<1>2. /\ \A i \in 0..n : tr[i] \in Worlds
      /\ \A i \in 1..n : tr[i] = Fold(tr[i - 1], s[i])
  BY DEF Leads
<1>3. tr[n].ok
  OBVIOUS
<1> HIDE DEF n
<1>4. SUFFICES ASSUME Bad # {} PROVE FALSE
  <2>1. SUFFICES ASSUME NEW k \in 0..n PROVE tr[k].ok
    BY DEF n
  <2>2. n - k \in 0..n /\ n - (n - k) = k
    BY <1>1
  <2>3. n - k \notin Bad
    BY <1>4
  <2> QED
    BY <2>2, <2>3
<1>5. PICK j \in Bad : j = 0 \/ (j - 1 \in Nat /\ j - 1 \notin Bad)
  <2>1. Bad \subseteq Nat
    OBVIOUS
  <2> HIDE DEF Bad
  <2> QED
    BY <1>4, <2>1, FirstNumber
<1>6. j # 0
  BY <1>1, <1>3
<1>7. /\ n - j \in 0..n /\ n - (j - 1) \in 1..n /\ (n - (j - 1)) - 1 = n - j
      /\ j - 1 \in 0..n
  BY <1>1, <1>5, <1>6
<1>8. tr[n - (j - 1)].ok /\ ~tr[n - j].ok
  BY <1>5, <1>6, <1>7
<1> DEFINE a == tr[n - j]
           b == tr[n - (j - 1)]
           e == s[n - (j - 1)]
<1>9. b = Fold(a, e) /\ a \in Worlds
  BY <1>2, <1>7
<1>10. b.ok /\ ~a.ok
  BY <1>8
<1> HIDE DEF a, b, e
<1>11. Fold(a, e) = [a EXCEPT !.ok = FALSE]
  BY <1>10, FoldIs
<1>12. ~Fold(a, e).ok
  BY <1>9, <1>11 DEF Worlds
<1> QED
  BY <1>9, <1>10, <1>12

\* A list of events of today keeps the day.
LEMMA TodaysStay ==
    ASSUME NEW w \in Worlds, NEW s \in Seq(Events), \A i \in 1..Len(s) : s[i].day = w.day
    PROVE  Extend(w, s).day = w.day
<1> DEFINE n == Len(s)
<1>1. PICK tr : Leads(tr, w, s) /\ Extend(w, s) = tr[n]
  BY ExtendLeads
<1>2. n \in Nat /\ \A i \in 1..n : s[i] \in Events /\ s[i].day = w.day
  BY LenProperties
<1>3. /\ tr[0] = w /\ \A i \in 0..n : tr[i] \in Worlds
      /\ \A i \in 1..n : tr[i] = Fold(tr[i - 1], s[i])
  BY <1>1 DEF Leads
<1> HIDE DEF n
<1> DEFINE Bad == {k \in 0..n : tr[k].day # w.day}
<1>4. SUFFICES ASSUME Bad # {} PROVE FALSE
  <2>1. n \in 0..n
    BY <1>2
  <2> QED
    BY <1>1, <2>1
<1>5. PICK k \in Bad : k = 0 \/ (k - 1 \in Nat /\ k - 1 \notin Bad)
  <2>1. Bad \subseteq Nat
    OBVIOUS
  <2> HIDE DEF Bad
  <2> QED
    BY <1>4, <2>1, FirstNumber
<1>6. k # 0
  BY <1>3
<1>7. k \in 1..n /\ k - 1 \in 0..n
  BY <1>2, <1>5, <1>6
<1>8. tr[k - 1].day = w.day /\ tr[k].day # w.day
  BY <1>5, <1>6, <1>7
<1> DEFINE a == tr[k - 1]
           b == tr[k]
           e == s[k]
<1>9. a \in Worlds /\ e \in Events /\ e.day = a.day /\ b = Fold(a, e) /\ b.day # a.day
  BY <1>2, <1>3, <1>7, <1>8
<1> HIDE DEF a, b, e
<1> QED
  BY <1>9, TodayStays

\* What the day adds to a settled purse.
LEMMA SettleKeepsFloor ==
    ASSUME NEW balance \in Int, balance >= Floor, NEW amount \in Int
    PROVE  Settle(balance, amount) \in Int /\ Settle(balance, amount) >= Floor
<1>1. Floor \in Int
  BY ChronicleAssumption
<1> QED
  BY <1>1 DEF Settle

LEMMA BeginKept ==
    ASSUME CInv, NEW amount \in Amounts, NEW wait \in Waits \cup {Nothing}, Begin(amount, wait)
    PROVE  CInv'
<1> DEFINE after == Settle(Balance(world), amount)
           e == Event("resolved", Turn, world.day, Hero, after)
<1>1. /\ world = Project(log) /\ batch = <<>> /\ stage = "idle" /\ LogOK
      /\ world \in Worlds /\ prev \in (SUBSET Npcs) \cup {Nothing} /\ log \in Seq(Events)
  BY IdleWorld, WorldTyped DEF Begin, CInv, LogOK
<1>2. Closed(log)
  BY <1>1, LogClosed
<1>3. /\ Live(world) /\ Balance(world) \in Int /\ Balance(world) >= Floor
  BY <1>1, <1>2 DEF Closed
<1>4. /\ Sound(world) /\ world.ok /\ world.ruled /\ world.day <= MaxDay /\ world.day \in Nat \ {0}
  BY <1>3 DEF Live, Sound
<1>5. after \in Int /\ after >= Floor
  BY <1>3, SettleKeepsFloor, ChronicleAssumption
<1>6. Turn \in Nat /\ Turn <= MaxTurn
  BY <1>1, TurnIsNext DEF Begin
<1>7. Stage(<<e>>) /\ scene' = [present |-> Present(world), expected |-> after, wait |-> wait]
      /\ stage' = "settled" /\ log' = log /\ prev' = prev
  BY <1>4 DEF Begin
<1> HIDE DEF after
<1>8. /\ e \in Events /\ e.day = world.day /\ e.kind = "resolved" /\ e.turn = Turn
      /\ e.value = after
  BY <1>4, <1>5, <1>6 DEF Event, Events, Fits, Kinds, Values, People
<1> HIDE DEF e
<1>9. <<e>> \in Seq(Events) /\ Len(<<e>>) = 1 /\ <<e>>[1] = e
  BY <1>8
<1>10. /\ batch' \in Seq(Events) /\ world' = Extend(world, <<e>>)
       /\ world' = Project(log \o batch')
  BY <1>7, <1>9, StagedWorld
<1>11. batch' = <<e>>
  <2>1. batch' = batch \o <<e>>
    BY <1>7 DEF Stage
  <2> QED
    BY <1>1, <1>9, <2>1, ConcatEmptySeq
<1>12. world' = Fold(world, e)
  BY <1>1, <1>8, <1>10, ExtendOne
<1>13. ~Refused(world, e)
  BY <1>1, <1>4, <1>8, NothingToRefuse
<1>14. /\ Grows(world, world', e) /\ world'.ok /\ world'.day = world.day
  BY <1>1, <1>4, <1>8, <1>12, <1>13, TodayFold
<1>15. /\ Live(world') /\ Dates(world', batch')
       /\ world'.anchor = Project(log).anchor /\ world'.day >= Project(log).day
       /\ \A d \in Nat : d < Project(log).day => Agree(world', Project(log), d)
  <2>1. Live(world')
    BY <1>4, <1>14 DEF Live, Grows
  <2>2. Dates(world', batch')
    BY <1>4, <1>8, <1>9, <1>11, <1>14 DEF Dates
  <2>3. \A d \in Nat : d < Project(log).day => Agree(world', Project(log), d)
    BY <1>1, <1>8, <1>14 DEF Grows
  <2> QED
    BY <1>1, <1>4, <1>8, <1>14, <2>1, <2>2, <2>3 DEF Grows
<1>16. Turn' = Turn /\ LogOK'
  BY <1>1, <1>7 DEF Turn, LogOK
<1>17. /\ scene'.expected = after /\ scene'.present \subseteq Npcs
  BY <1>7 DEF Present
<1>18. TurnOK'
  <2>1. /\ Len(batch') >= 1 /\ batch'[1].kind = "resolved" /\ batch'[1].value = scene'.expected
        /\ \A i \in 1..Len(batch') :
             /\ batch'[i].turn = Turn'
             /\ i > 1 => batch'[i].kind \notin {"resolved", "configured"}
    BY <1>8, <1>9, <1>11, <1>16, <1>17
  <2> QED
    BY <1>5, <1>6, <1>7, <1>15, <1>16, <1>17, <2>1 DEF TurnOK
<1> QED
  BY <1>1, <1>7, <1>10, <1>16, <1>18 DEF CInv, Stages

\* A turn that is under way goes on: later events settle nothing, end no scene and
\* are of the day the world has reached, or later.
LEMMA TurnGoesOn ==
    ASSUME CInv, stage # "idle", NEW events \in Seq(Events), Stage(events),
           log' = log, scene' = scene, prev' = prev, stage' \in Stages \ {"idle"},
           \A i \in 1..Len(events) :
             /\ events[i].turn = Turn /\ events[i].day >= world.day
             /\ events[i].kind \notin {"resolved", "configured", "scene"},
           world'.ok, world'.day <= MaxDay,
           stage' # "settled" /\ scene.wait # Nothing =>
             world'.band = scene.wait.band /\ world'.day >= scene.wait.day
    PROVE  CInv'
<1> DEFINE n == Len(batch)
           m == Len(events)
           w0 == Project(log)
<1>1. TurnOK /\ LogOK /\ prev \in (SUBSET Npcs) \cup {Nothing} /\ batch \in Seq(Events)
  BY DEF CInv
<1>2. world \in Worlds /\ Sound(world) /\ world.ruled
  BY <1>1, WorldTyped DEF TurnOK, Live
<1>3. /\ batch' \in Seq(Events) /\ world' = Extend(world, events)
      /\ world' = Project(log \o batch') /\ Joined(batch', batch, events, n, m)
  BY StagedWorld
<1>4. GrewBy(world, world', events, m)
  BY <1>2, <1>3, ExtendGrows
<1>5. n \in Nat /\ m \in Nat /\ \A i \in 1..m : events[i] \in Events /\ events[i].day \in Nat
  <2>1. n \in Nat /\ m \in Nat /\ \A i \in 1..m : events[i] \in Events
    BY <1>1, LenProperties
  <2> QED
    BY <2>1 DEF Events
<1> HIDE DEF n, m
<1>6. /\ Len(batch') = n + m
      /\ \A i \in 1..(n + m) : batch'[i] = IF i <= n THEN batch[i] ELSE events[i - n]
  BY <1>3 DEF Joined
<1>7. /\ n >= 1 /\ batch[1].kind = "resolved" /\ batch[1].value = scene.expected
      /\ \A i \in 1..n : /\ batch[i].turn = Turn
                         /\ i > 1 => batch[i].kind \notin {"resolved", "configured"}
  BY <1>1 DEF TurnOK, n
<1>8. \A i \in 1..(n + m) :
         \/ i \in 1..n /\ batch'[i] = batch[i]
         \/ i - n \in 1..m /\ i > 1 /\ batch'[i] = events[i - n]
  BY <1>5, <1>6, <1>7
<1>9. Turn' = Turn /\ LogOK'
  BY <1>1 DEF Turn, LogOK
<1>10. /\ Len(batch') >= 1 /\ batch'[1].kind = "resolved" /\ batch'[1].value = scene'.expected
       /\ \A i \in 1..Len(batch') :
            /\ batch'[i].turn = Turn'
            /\ i > 1 => batch'[i].kind \notin {"resolved", "configured"}
  <2>1. Len(batch') >= 1 /\ batch'[1] = batch[1]
    BY <1>5, <1>6, <1>7
  <2>2. \A i \in 1..m : /\ events[i].turn = Turn
                        /\ events[i].kind \notin {"resolved", "configured"}
    BY DEF m
  <2> QED
    BY <1>6, <1>7, <1>8, <1>9, <2>1, <2>2
<1>11. Live(world') /\ world'.anchor = world.anchor /\ world'.day >= world.day
  <2>1. \A i \in 1..m : events[i].kind # "scene"
    BY DEF m
  <2> QED
    BY <1>2, <1>4, <2>1 DEF GrewBy, Live
<1>12. w0.day \in Nat /\ world.day \in Nat /\ world'.day \in Nat
  <2>1. Sound(w0)
    BY <1>1, LogClosed DEF Closed, Live
  <2> QED
    BY <1>2, <1>11, <2>1 DEF Sound, Live
<1>13. Dates(world', batch')
  <2> SUFFICES ASSUME NEW i \in 1..(n + m) PROVE batch'[i].day <= world'.day
    BY <1>6 DEF Dates
  <2>1. CASE i \in 1..n /\ batch'[i] = batch[i]
    <3>1. batch[i].day <= world.day
      BY <1>1, <2>1 DEF TurnOK, Dates, n
    <3>2. batch[i].day \in Nat
      <4>1. batch[i] \in Events
        BY <1>1, <2>1, LenProperties DEF n
      <4> QED
        BY <4>1 DEF Events
    <3> QED
      BY <1>11, <1>12, <2>1, <3>1, <3>2
  <2>2. CASE i - n \in 1..m /\ batch'[i] = events[i - n]
    BY <1>4, <2>2 DEF GrewBy
  <2> QED
    BY <1>8, <2>1, <2>2
<1>14. \A d \in Nat : d < w0.day => Agree(world', w0, d)
  <2> SUFFICES ASSUME NEW d \in Nat, d < w0.day PROVE Agree(world', w0, d)
    OBVIOUS
  <2>1. Agree(world, w0, d) /\ world.day >= w0.day
    BY <1>1 DEF TurnOK
  <2>2. \A i \in 1..m : d < events[i].day
    BY <1>5, <1>12, <2>1 DEF m
  <2>3. Agree(world', world, d)
    BY <1>4, <2>2 DEF GrewBy
  <2> QED
    BY <2>1, <2>3 DEF Agree
<1>15. TurnOK'
  <2>1. /\ Turn' <= MaxTurn /\ scene'.expected \in Int /\ scene'.expected >= Floor
        /\ scene'.present \subseteq Npcs
    BY <1>1, <1>9 DEF TurnOK
  <2>2. world'.anchor = w0.anchor /\ world'.day >= w0.day
    BY <1>1, <1>11, <1>12 DEF TurnOK
  <2> HIDE DEF w0
  <2>3. Project(log') = w0
    BY DEF w0
  <2> QED
    BY <1>10, <1>11, <1>13, <1>14, <2>1, <2>2, <2>3 DEF TurnOK
<1> QED
  BY <1>1, <1>3, <1>9, <1>15 DEF CInv

LEMMA MaxOfTwo ==
    ASSUME NEW a \in Int, NEW b \in Int
    PROVE  Max({a, b}) = IF a >= b THEN a ELSE b
<1>1. \E x \in {a, b} : \A y \in {a, b} : x >= y
  OBVIOUS
<1>2. Max({a, b}) \in {a, b} /\ \A y \in {a, b} : Max({a, b}) >= y
  BY <1>1 DEF Max
<1> QED
  BY <1>2

\* The clock carries its bands into days and never runs backwards.
LEMMA ClockAdvances ==
    ASSUME NEW w \in Worlds, Sound(w), NEW by \in Clocks
    PROVE  LET to == Advance(w, by) IN
           /\ to.day \in Nat \ {0} /\ to.day >= w.day
           /\ to.band = (w.band + by.bands) % BandsPerDay
           /\ by.bands \in Int
<1>1. w.day \in Nat \ {0} /\ w.band \in 0..3 /\ by.days \in Nat /\ by.bands \in Nat
  BY WorldFields, ChronicleAssumption DEF Sound
<1> DEFINE day == w.day
           band == w.band
           days == by.days
           bands == by.bands
           u == (day * 4 + band) + days * 4 + bands
<1>2. /\ Advance(w, by).day = u \div 4 /\ Advance(w, by).band = u % 4
  BY DEF Advance, Units, BandsPerDay
<1>3. day \in Nat \ {0} /\ band \in 0..3 /\ days \in Nat /\ bands \in Nat
  BY <1>1
<1> HIDE DEF day, band, days, bands
<1>4. u \div 4 \in Nat \ {0} /\ u \div 4 >= day /\ u % 4 = (band + bands) % 4
  BY <1>3
<1> HIDE DEF u
<1>5. /\ Advance(w, by).day \in Nat \ {0} /\ Advance(w, by).day >= day
      /\ Advance(w, by).band = (band + bands) % 4 /\ bands \in Int
  BY <1>2, <1>3, <1>4
<1> QED
  BY <1>5 DEF BandsPerDay, day, band, days, bands

\* The events a commit is written as.
LEMMA WrittenEvents ==
    ASSUME NEW turn \in Nat, NEW day \in Nat \ {0}, NEW by \in Clocks, NEW items \in Tellings
    PROVE  LET clock == Event("clock", turn, day, Hero, by.bands) IN
           \E rest \in Seq(Events) :
             /\ ToEvents(turn, day, by, items) = <<clock>> \o rest /\ clock \in Events
             /\ \A i \in 1..Len(rest) :
                  /\ rest[i].turn = turn /\ rest[i].day >= day
                  /\ rest[i].kind \in {"moved", "declared", "fact", "evolved"}
<1> DEFINE clock == Event("clock", turn, day, Hero, by.bands)
           Of(item) == IF item.kind = "moved"
                       THEN Event("moved", turn, MoveDay(item, day), item.who, item.value)
                       ELSE Event(item.kind, turn, day, item.who, item.value)
           rest == [i \in DOMAIN items |-> Of(items[i])]
           n == Len(items)
           Good(e) == /\ e \in Events /\ e.turn = turn /\ e.day >= day
                      /\ e.kind \in {"moved", "declared", "fact", "evolved"}
<1>1. items \in Seq(Items)
  BY ChronicleAssumption
<1>2. n \in Nat /\ DOMAIN items = 1..n /\ \A i \in 1..n : items[i] \in Items
  BY <1>1, LenProperties
<1>3. clock \in Events
  <2>1. by.bands \in Int
    BY ChronicleAssumption
  <2> QED
    BY <2>1 DEF Events, Event, Fits, Kinds, Values, People
<1>4. ASSUME NEW item \in Items PROVE Good(Of(item))
  <2>1. CASE item.kind = "moved"
    <3>1. item.who \in People /\ item.value \in Places /\ item.day \in Int \cup {Nothing}
      BY <2>1 DEF Items
    <3>2. MoveDay(item, day) \in Nat \ {0} /\ MoveDay(item, day) >= day
      <4>1. CASE item.day = Nothing
        BY <4>1 DEF MoveDay
      <4>2. CASE item.day \in Int /\ item.day # Nothing
        <5>1. MoveDay(item, day) = IF item.day >= day THEN item.day ELSE day
          BY <4>2, MaxOfTwo DEF MoveDay
        <5> QED
          BY <4>2, <5>1
      <4> QED
        BY <3>1, <4>1, <4>2
    <3> DEFINE d == MoveDay(item, day)
    <3>3. Of(item) = Event("moved", turn, d, item.who, item.value)
      BY <2>1
    <3>4. d \in Nat \ {0} /\ d >= day
      BY <3>2
    <3> HIDE DEF d
    <3>5. Good(Event("moved", turn, d, item.who, item.value))
      BY <3>1, <3>4 DEF Events, Event, Fits, Kinds, Values
    <3> HIDE DEF Good, Of
    <3> QED
      BY <3>3, <3>5
  <2>2. CASE item.kind # "moved"
    <3>1. /\ item.kind \in {"declared", "fact", "evolved"} /\ item.who \in People
          /\ item.kind = "declared" => item.value \in Tiers
          /\ item.kind \in {"fact", "evolved"} => item.value \in Int
          /\ item.kind = "fact" => item.who = Hero
      BY <2>2 DEF Items, People
    <3>2. Good(Event(item.kind, turn, day, item.who, item.value))
      BY <3>1 DEF Events, Event, Fits, Kinds, Values
    <3> QED
      BY <2>2, <3>2
  <2> QED
    BY <2>1, <2>2
<1>5. ToEvents(turn, day, by, items) = <<clock>> \o rest
  BY DEF ToEvents
<1> HIDE DEF Of, Good, clock, n
<1>6. \A i \in 1..n : rest[i] = Of(items[i]) /\ Good(rest[i])
  BY <1>2, <1>4
<1>7. rest \in Seq(Events) /\ Len(rest) = n
  <2>1. \A i \in 1..n : Of(items[i]) \in Events
    BY <1>2, <1>4 DEF Good
  <2> QED
    BY <1>2, <2>1
<1> HIDE DEF rest
<1>8. \A i \in 1..Len(rest) :
         /\ rest[i].turn = turn /\ rest[i].day >= day
         /\ rest[i].kind \in {"moved", "declared", "fact", "evolved"}
  BY <1>6, <1>7 DEF Good
<1> QED
  BY <1>3, <1>5, <1>7, <1>8 DEF clock

LEMMA WriteKept ==
    ASSUME CInv, NEW by \in Clocks, NEW items \in Tellings, Write(by, items)
    PROVE  CInv'
<1> DEFINE to == Advance(world, by)
           clock == Event("clock", Turn, to.day, Hero, by.bands)
           events == ToEvents(Turn, to.day, by, items)
<1>1. /\ stage = "settled" /\ ~Contradicts(world, scene, by, items) /\ Stage(events)
      /\ Extend(world, events).ok /\ Extend(world, events).day <= MaxDay
      /\ stage' = "told" /\ log' = log /\ scene' = scene /\ prev' = prev
  BY DEF Write
<1>2. TurnOK /\ log \in Seq(Events) /\ world \in Worlds /\ Sound(world)
  BY <1>1, WorldTyped DEF CInv, LogOK, TurnOK, Live
<1>3. Turn \in Nat
  BY <1>2, TurnIsNext
<1>4. /\ to.day \in Nat \ {0} /\ to.day >= world.day /\ world.day \in Nat
      /\ to.band = (world.band + by.bands) % BandsPerDay
  BY <1>2, ClockAdvances DEF Sound
<1>5. PICK rest \in Seq(Events) :
              /\ events = <<clock>> \o rest /\ clock \in Events
              /\ \A i \in 1..Len(rest) :
                   /\ rest[i].turn = Turn /\ rest[i].day >= to.day
                   /\ rest[i].kind \in {"moved", "declared", "fact", "evolved"}
  <2> DEFINE day == to.day
  <2>1. day \in Nat \ {0}
    BY <1>4
  <2> HIDE DEF day
  <2>2. \E rest \in Seq(Events) :
              /\ ToEvents(Turn, day, by, items) = <<Event("clock", Turn, day, Hero, by.bands)>> \o rest
              /\ Event("clock", Turn, day, Hero, by.bands) \in Events
              /\ \A i \in 1..Len(rest) :
                   /\ rest[i].turn = Turn /\ rest[i].day >= day
                   /\ rest[i].kind \in {"moved", "declared", "fact", "evolved"}
    BY <1>3, <2>1, WrittenEvents
  <2> QED
    BY <2>2 DEF day
<1>6. clock.kind = "clock" /\ clock.turn = Turn /\ clock.day = to.day /\ clock.value = by.bands
  BY DEF Event
<1> DEFINE n == Len(rest)
<1> HIDE DEF clock, events
<1>7. <<clock>> \in Seq(Events) /\ Len(<<clock>>) = 1 /\ <<clock>>[1] = clock
  BY <1>5
<1>8. Joined(events, <<clock>>, rest, 1, n)
  BY <1>5, <1>7, ListsJoin
<1>9. n \in Nat /\ \A i \in 1..n : rest[i] \in Events /\ rest[i].day \in Nat
  <2>1. n \in Nat /\ \A i \in 1..n : rest[i] \in Events
    BY LenProperties
  <2> QED
    BY <2>1 DEF Events
<1>10. \A i \in 1..Len(events) :
          /\ events[i].turn = Turn /\ events[i].day >= world.day
          /\ events[i].kind \notin {"resolved", "configured", "scene"}
  <2> SUFFICES ASSUME NEW i \in 1..(1 + n)
               PROVE  /\ events[i].turn = Turn /\ events[i].day >= world.day
                      /\ events[i].kind \notin {"resolved", "configured", "scene"}
    BY <1>8 DEF Joined
  <2>1. CASE i = 1
    <3>1. events[i] = clock
      BY <1>7, <1>8, <1>9, <2>1 DEF Joined
    <3> QED
      BY <1>4, <1>6, <3>1
  <2>2. CASE i # 1
    <3>1. i - 1 \in 1..n /\ ~(i <= 1)
      BY <1>9, <2>2
    <3>2. events[i] = rest[i - 1]
      BY <1>8, <3>1 DEF Joined
    <3> DEFINE r == rest[i - 1]
               day == to.day
    <3>3. /\ r.turn = Turn /\ r.day >= day /\ r.kind \in {"moved", "declared", "fact", "evolved"}
          /\ r.day \in Nat
      BY <1>5, <1>9, <3>1
    <3>4. events[i] = r /\ day \in Nat /\ day >= world.day /\ world.day \in Nat
      BY <1>4, <3>2
    <3> HIDE DEF r, day
    <3> QED
      BY <3>3, <3>4
  <2> QED
    BY <2>1, <2>2
<1>11. events \in Seq(Events) /\ world' = Extend(world, events)
  BY <1>1, <1>8 DEF Joined, Stage
<1> DEFINE u == Fold(world, clock)
<1>12. world' = Extend(u, rest) /\ u \in Worlds
  <2>1. Extend(world, <<clock>> \o rest) = Extend(Extend(world, <<clock>>), rest)
    BY <1>2, <1>7, ExtendConcat
  <2>2. Extend(world, <<clock>>) = u
    BY <1>2, <1>5, ExtendOne
  <2> QED
    BY <1>2, <1>5, <1>11, <2>1, <2>2, FoldTyped
<1>13. Grows(world, u, clock)
  BY <1>2, <1>5, FoldGrows
<1>14. GrewBy(u, world', rest, n)
  BY <1>12, <1>13, ExtendGrows DEF Grows
<1>15. world'.ok /\ world'.day <= MaxDay
  BY <1>1, <1>11
<1>16. u.ok /\ world'.band = u.band /\ world'.day >= u.day /\ world'.day \in Nat /\ u.day \in Nat
  BY <1>5, <1>13, <1>14, <1>15 DEF GrewBy, Grows, Sound
<1>17. u.day >= to.day /\ u.band = to.band
  <2>1. u.day >= to.day
    BY <1>6, <1>13, <1>16 DEF Grows
  <2>2. u = Owned(Dayed(world, clock), clock)
    <3>1. ~(~world.ok \/ Refused(Dayed(world, clock), clock))
      <4>1. SUFFICES ASSUME ~world.ok \/ Refused(Dayed(world, clock), clock) PROVE FALSE
        OBVIOUS
      <4>2. u = [world EXCEPT !.ok = FALSE]
        BY <4>1, FoldIs
      <4>3. u.ok = FALSE
        BY <1>2, <4>2 DEF Worlds
      <4> QED
        BY <1>16, <4>3
    <3> QED
      BY <3>1, FoldIs
  <2>3. Dayed(world, clock) \in Worlds /\ Dayed(world, clock).band = world.band
    BY <1>2, <1>5, DayedSound
  <2>4. Effect(Dayed(world, clock), u, clock)
    BY <1>5, <2>2, <2>3, OwnedEffect
  <2>5. u.band = (world.band + by.bands) % BandsPerDay
    BY <1>6, <2>3, <2>4 DEF Effect
  <2> QED
    BY <1>4, <2>1, <2>5
<1>18. scene.wait # Nothing => world'.band = scene.wait.band /\ world'.day >= scene.wait.day
  <2>1. SUFFICES ASSUME scene.wait # Nothing
                 PROVE  world'.band = scene.wait.band /\ world'.day >= scene.wait.day
    OBVIOUS
  <2>2. to = scene.wait
    BY <1>1, <2>1 DEF Contradicts
  <2>3. world'.band = to.band /\ world'.day >= to.day
    BY <1>4, <1>16, <1>17
  <2> QED
    BY <2>2, <2>3
<1>19. stage # "idle" /\ stage' \in Stages \ {"idle"} /\ Stage(events)
  BY <1>1 DEF Stages
<1> HIDE DEF to, u, n
<1> QED
  BY <1>1, <1>10, <1>11, <1>15, <1>18, <1>19, TurnGoesOn

\* Reflections are of today and settle nothing; nothing of today moves the clock.
LEMMA ReflectKept ==
    ASSUME CInv, NEW arcs \in Arcs, Reflect(arcs)
    PROVE  CInv'
<1> DEFINE day == world.day
           turn == Turn
           Of(arc) == Event("evolved", turn, day, arc[1], arc[2])
           events == [i \in DOMAIN arcs |-> Of(arcs[i])]
           n == Len(arcs)
<1>1. /\ stage = "told" /\ Extend(world, events).ok /\ Stage(events) /\ stage' = "digested"
      /\ log' = log /\ scene' = scene /\ prev' = prev
  BY DEF Reflect
<1>2. TurnOK /\ log \in Seq(Events) /\ world \in Worlds /\ Sound(world)
      /\ day \in Nat \ {0} /\ world.day <= MaxDay
  BY <1>1, WorldTyped DEF CInv, LogOK, TurnOK, Live, Sound
<1>3. turn \in Nat
  BY <1>2, TurnIsNext
<1>4. /\ arcs \in Seq(People \X Int) /\ n \in Nat /\ DOMAIN arcs = 1..n
      /\ \A i \in 1..n : arcs[i] \in People \X Int
  BY ChronicleAssumption, LenProperties
<1>5. ASSUME NEW arc \in People \X Int
      PROVE  /\ Of(arc) \in Events /\ Of(arc).kind = "evolved" /\ Of(arc).turn = turn
             /\ Of(arc).day = day
  <2> HIDE DEF day, turn
  <2>1. arc[1] \in People /\ arc[2] \in Int
    OBVIOUS
  <2> QED
    BY <1>2, <1>3, <2>1 DEF Event, Events, Fits, Kinds, Values
<1> HIDE DEF Of, n
<1>6. events = [i \in 1..n |-> Of(arcs[i])]
  BY <1>4
<1>7. events \in Seq(Events) /\ Len(events) = n /\ \A i \in 1..n : events[i] = Of(arcs[i])
  BY <1>4, <1>5, <1>6
<1> HIDE DEF events
<1>8. \A i \in 1..Len(events) : /\ events[i].turn = turn /\ events[i].day = day
                                /\ events[i].kind = "evolved"
  BY <1>4, <1>5, <1>7
<1>9. world' = Extend(world, events)
  BY <1>1 DEF Stage
<1>10. world'.ok /\ world'.day = world.day
  BY <1>1, <1>2, <1>7, <1>8, <1>9, TodaysStay
<1>11. world'.band = world.band
  <2>1. GrewBy(world, world', events, Len(events))
    BY <1>2, <1>7, <1>9, ExtendGrows
  <2> QED
    BY <1>8, <2>1 DEF GrewBy
<1>12. scene.wait # Nothing => world'.band = scene.wait.band /\ world'.day >= scene.wait.day
  BY <1>1, <1>2, <1>10, <1>11 DEF TurnOK
<1>13. \A i \in 1..Len(events) :
          /\ events[i].turn = Turn /\ events[i].day >= world.day
          /\ events[i].kind \notin {"resolved", "configured", "scene"}
  BY <1>2, <1>8
<1>14. stage # "idle" /\ stage' \in Stages \ {"idle"}
  BY <1>1 DEF Stages
<1>15. world'.day <= MaxDay
  BY <1>2, <1>10
<1> QED
  BY <1>1, <1>7, <1>10, <1>12, <1>13, <1>14, <1>15, TurnGoesOn

LEMMA NoArcKept ==
    ASSUME CInv, NoArc
    PROVE  CInv'
<1>1. /\ stage = "told" /\ stage' = "digested" /\ log' = log /\ batch' = batch
      /\ world' = world /\ scene' = scene /\ prev' = prev
  BY DEF NoArc
<1>2. LogOK' /\ Turn' = Turn
  BY <1>1 DEF CInv, LogOK, Turn
<1>3. TurnOK
  BY <1>1 DEF CInv
<1>4. TurnOK'
  BY <1>1, <1>2, <1>3 DEF TurnOK
<1>5. /\ batch' \in Seq(Events) /\ prev' \in (SUBSET Npcs) \cup {Nothing}
      /\ world' = Project(log' \o batch')
  BY <1>1 DEF CInv
<1> QED
  BY <1>1, <1>2, <1>4, <1>5 DEF CInv, Stages

\* One answer of a catch-up: its npc is now up to date, and nothing else changed.
LEMMA AnswerStep ==
    ASSUME NEW w \in Worlds, Sound(w), NEW e \in Events, e.day = w.day, Fold(w, e).ok,
           e.kind \in {"evolved", "current"}, e.who \in Npcs
    PROVE  LET u == Fold(w, e) IN
           /\ u \in Worlds /\ Sound(u) /\ u.ok /\ u.day = w.day /\ u.tier = w.tier
           /\ u.seen = [w.seen EXCEPT ![e.who] = w.day]
<1> DEFINE u == Fold(w, e)
<1>1. e.who # Hero /\ e.who \in People
  BY ChronicleAssumption DEF People
<1>2. w.ok /\ ~Refused(w, e)
  BY AcceptedFold
<1>3. u = Owned(w, e) /\ u \in Worlds /\ Grows(w, u, e) /\ u.ok /\ u.day = w.day
  BY <1>2, TodayFold
<1> HIDE DEF u
<1>4. u.tier = w.tier /\ u.seen = [w.seen EXCEPT ![e.who] = w.day]
  <2>1. CASE e.kind = "evolved"
    <3>1. u = CharacterApplied(w, e)
      BY <1>3, <2>1 DEF Owned
    <3>2. ~SetsPurse(e)
      BY <1>1 DEF SetsPurse, SetsFact
    <3>3. CharacterApplied(w, e) = [w EXCEPT !.seen[e.who] = e.day]
      BY <2>1, <3>2 DEF CharacterApplied
    <3> QED
      BY <1>1, <3>1, <3>3 DEF Worlds
  <2>2. CASE e.kind = "current"
    <3> DEFINE d == IF w.seen[e.who] = Nothing THEN e.day ELSE Max({w.seen[e.who], e.day})
    <3>1. u = TimeApplied(w, e)
      BY <1>3, <2>2 DEF Owned
    <3>2. TimeApplied(w, e) = [w EXCEPT !.seen[e.who] = d]
      BY <1>1, <2>2 DEF TimeApplied, Worlds
    <3>3. d = w.day
      <4>1. CASE w.seen[e.who] = Nothing
        BY <4>1
      <4>2. CASE w.seen[e.who] # Nothing
        <5>1. w.seen[e.who] \in Nat /\ w.seen[e.who] <= w.day /\ w.day \in Nat
          BY <1>1, <4>2, WorldFields DEF Sound
        <5>2. Max({w.seen[e.who], w.day}) = w.day
          BY <5>1, MaxOfTwo
        <5> QED
          BY <4>2, <5>2
      <4> QED
        BY <4>1, <4>2
    <3> HIDE DEF d
    <3> QED
      BY <1>1, <3>1, <3>2, <3>3 DEF Worlds
  <2> QED
    BY <2>1, <2>2
<1>5. Sound(u)
  BY <1>3 DEF Grows
<1> QED
  BY <1>3, <1>4, <1>5 DEF u

\* The answers of a catch-up: whoever was asked, and nobody else, is up to date.
CaughtUp(v, w, asked) ==
    /\ v \in Worlds /\ v.ok /\ v.day = w.day /\ v.tier = w.tier
    /\ \A p \in People : v.seen[p] = IF p \in asked THEN w.day ELSE w.seen[p]

\* What the events of the answers are: one for each person asked, of today.
Tells(s, turn, day, asked) ==
    /\ s \in Seq(Events)
    /\ \A i \in 1..Len(s) :
         /\ s[i].turn = turn /\ s[i].day = day
         /\ s[i].kind \in {"evolved", "current"} /\ s[i].who \in asked
         /\ s[i].kind = "evolved" => s[i].value \in Replies
    /\ \A p \in asked : \E i \in 1..Len(s) : s[i].who = p

LEMMA AnswersListed ==
    ASSUME NEW turn \in Nat, NEW day \in Nat \ {0}, NEW asked \in SUBSET Npcs,
           NEW answer \in [asked -> Replies \cup {Nothing}]
    PROVE  Tells(Answers(turn, day, answer), turn, day, asked)
<1> DEFINE order == SetToSeq(asked)
           n == Len(order)
           Of(p) == IF answer[p] = Nothing THEN Event("current", turn, day, p, 0)
                    ELSE Event("evolved", turn, day, p, answer[p])
           s == [i \in DOMAIN order |-> Of(order[i])]
           Good(p) == /\ Of(p) \in Events /\ Of(p).turn = turn /\ Of(p).day = day
                      /\ Of(p).kind \in {"evolved", "current"} /\ Of(p).who = p
                      /\ Of(p).kind = "evolved" => Of(p).value \in Replies
<1>1. IsFiniteSet(asked)
  BY FS_Subset, ChronicleAssumption
<1>2. /\ order \in Seq(asked) /\ DOMAIN order = 1..n
      /\ \A x \in asked : \E i \in 1..n : order[i] = x
  BY <1>1, ListOfSet
<1>3. n \in Nat /\ \A i \in 1..n : order[i] \in asked
  BY <1>2, LenProperties
<1>4. s = Answers(turn, day, answer)
  <2>1. DOMAIN answer = asked
    OBVIOUS
  <2> QED
    BY <2>1 DEF Answers
<1> HIDE DEF order, n
<1>5. ASSUME NEW p \in asked PROVE Good(p)
  <2>1. p \in People /\ answer[p] \in Replies \cup {Nothing} /\ Replies \subseteq Int
    BY ChronicleAssumption DEF People
  <2>2. CASE answer[p] = Nothing
    <3>1. Of(p) = Event("current", turn, day, p, 0)
      BY <2>2
    <3> HIDE DEF Of
    <3> QED
      BY <2>1, <3>1 DEF Event, Events, Fits, Kinds, Values
  <2>3. CASE answer[p] # Nothing
    <3>1. Of(p) = Event("evolved", turn, day, p, answer[p])
      BY <2>3
    <3>2. answer[p] \in Replies /\ answer[p] \in Int
      BY <2>1, <2>3
    <3> HIDE DEF Of
    <3> QED
      BY <2>1, <3>1, <3>2 DEF Event, Events, Fits, Kinds, Values
  <2> QED
    BY <2>2, <2>3
<1> HIDE DEF Of
<1>6. s \in Seq(Events) /\ Len(s) = n /\ \A i \in 1..n : s[i] = Of(order[i])
  BY <1>2, <1>3, <1>5
<1>7. \A i \in 1..n : Good(order[i])
  BY <1>3, <1>5
<1> HIDE DEF s, Of
<1>8. \A i \in 1..n : /\ s[i].turn = turn /\ s[i].day = day /\ s[i].who = order[i]
                      /\ s[i].kind \in {"evolved", "current"}
                      /\ s[i].kind = "evolved" => s[i].value \in Replies
  BY <1>6, <1>7
<1>9. \A p \in asked : \E i \in 1..n : s[i].who = p
  BY <1>2, <1>8
<1>10. Tells(s, turn, day, asked)
  BY <1>3, <1>6, <1>8, <1>9 DEF Tells
<1> QED
  BY <1>4, <1>10

LEMMA AnswersCatchUp ==
    ASSUME NEW w \in Worlds, Sound(w), NEW turn \in Nat, NEW asked \in SUBSET Npcs,
           NEW answer \in [asked -> Replies \cup {Nothing}],
           Extend(w, Answers(turn, w.day, answer)).ok
    PROVE  CaughtUp(Extend(w, Answers(turn, w.day, answer)), w, asked)
<1> DEFINE s == Answers(turn, w.day, answer)
           n == Len(s)
           Met(k) == {s[i].who : i \in 1..k}
           Up(v, k) == Sound(v) /\ CaughtUp(v, w, Met(k))
<1>1. w.day \in Nat \ {0}
  BY DEF Sound
<1>2. /\ s \in Seq(Events)
      /\ \A i \in 1..n : /\ s[i].day = w.day
                         /\ s[i].kind \in {"evolved", "current"} /\ s[i].who \in asked
      /\ \A p \in asked : \E i \in 1..n : s[i].who = p
  <2>1. Tells(s, turn, w.day, asked)
    BY <1>1, AnswersListed
  <2> QED
    BY <2>1 DEF Tells
<1>0. Extend(w, s).ok
  OBVIOUS
<1> HIDE DEF s
<1>3. n \in Nat /\ \A i \in 1..n : s[i] \in Events
  BY <1>2, LenProperties
<1>4. PICK tr : Leads(tr, w, s) /\ Extend(w, s) = tr[n]
  BY <1>2, ExtendLeads
<1>5. /\ tr[0] = w /\ \A i \in 1..n : tr[i] = Fold(tr[i - 1], s[i])
      /\ \A k \in 0..n : tr[k].ok
  BY <1>0, <1>2, <1>4, StoodBefore DEF Leads
<1> HIDE DEF n
<1> DEFINE Bad == {k \in 0..n : ~Up(tr[k], k)}
<1>6. Met(n) = asked
  BY <1>2
<1>7. SUFFICES ASSUME Bad # {} PROVE FALSE
  <2>1. n \in 0..n
    BY <1>3
  <2> QED
    BY <1>4, <1>6, <2>1 DEF s
<1>8. PICK k \in Bad : k = 0 \/ (k - 1 \in Nat /\ k - 1 \notin Bad)
  <2>1. Bad \subseteq Nat
    OBVIOUS
  <2> HIDE DEF Bad
  <2> QED
    BY <1>7, <2>1, FirstNumber
<1>9. k # 0
  <2>1. Met(0) = {} /\ w.ok
    BY <1>3, <1>5
  <2>2. Up(w, 0)
    BY <2>1 DEF CaughtUp
  <2> QED
    BY <1>5, <2>2
<1>10. k \in 1..n /\ k - 1 \in 0..n
  BY <1>3, <1>8, <1>9
<1>11. Up(tr[k - 1], k - 1)
  BY <1>8, <1>9, <1>10
<1> DEFINE x == tr[k - 1]
           u == tr[k]
           e == s[k]
<1>12. /\ x \in Worlds /\ Sound(x) /\ x.ok /\ x.day = w.day /\ x.tier = w.tier
       /\ \A p \in People : x.seen[p] = IF p \in Met(k - 1) THEN w.day ELSE w.seen[p]
  BY <1>11 DEF CaughtUp
<1>13. /\ e \in Events /\ e.day = w.day /\ e.kind \in {"evolved", "current"} /\ e.who \in Npcs
  BY <1>2, <1>3, <1>10
<1>14. u = Fold(x, e) /\ u.ok
  BY <1>5, <1>10
<1>15. Met(k) = Met(k - 1) \cup {e.who}
  <2>1. \A i \in 1..k : i \in 1..(k - 1) \/ i = k
    BY <1>10
  <2>2. k \in 1..k /\ \A i \in 1..(k - 1) : i \in 1..k
    BY <1>10
  <2> QED
    BY <2>1, <2>2
<1> HIDE DEF x, u, e, Met
<1>16. /\ u \in Worlds /\ Sound(u) /\ u.ok /\ u.day = w.day /\ u.tier = w.tier
       /\ u.seen = [x.seen EXCEPT ![e.who] = w.day]
  BY <1>12, <1>13, <1>14, AnswerStep
<1>17. \A p \in People : u.seen[p] = IF p \in Met(k) THEN w.day ELSE w.seen[p]
  <2>1. x.seen \in [People -> (Nat \ {0}) \cup {Nothing}]
    BY <1>12, WorldFields
  <2> QED
    BY <1>12, <1>15, <1>16, <2>1
<1>18. Up(u, k)
  BY <1>16, <1>17 DEF CaughtUp
<1> QED
  BY <1>10, <1>18 DEF u

\* The projection takes answers that no rule of the people asked refuses.
LEMMA AnswersAccepted ==
    ASSUME NEW w \in Worlds, Sound(w), w.ok, NEW turn \in Nat, NEW asked \in SUBSET Npcs,
           NEW answer \in [asked -> Replies \cup {Nothing}],
           \A p \in asked, value \in Replies : <<p, value>> \notin Refusals
    PROVE  Extend(w, Answers(turn, w.day, answer)).ok
<1> DEFINE s == Answers(turn, w.day, answer)
           n == Len(s)
           Fine(v) == v \in Worlds /\ Sound(v) /\ v.ok /\ v.day = w.day
<1>1. w.day \in Nat \ {0}
  BY DEF Sound
<1>2. /\ s \in Seq(Events)
      /\ \A i \in 1..n :
           /\ s[i].day = w.day /\ s[i].kind \in {"evolved", "current"} /\ s[i].who \in asked
           /\ s[i].kind = "evolved" => s[i].value \in Replies
  <2>1. Tells(s, turn, w.day, asked)
    BY <1>1, AnswersListed
  <2> QED
    BY <2>1 DEF Tells
<1> HIDE DEF s
<1>3. n \in Nat /\ \A i \in 1..n : s[i] \in Events
  BY <1>2, LenProperties
<1>4. PICK tr : Leads(tr, w, s) /\ Extend(w, s) = tr[n]
  BY <1>2, ExtendLeads
<1>5. tr[0] = w /\ \A i \in 1..n : tr[i] = Fold(tr[i - 1], s[i])
  BY <1>4 DEF Leads
<1> HIDE DEF n
<1> DEFINE Bad == {k \in 0..n : ~Fine(tr[k])}
<1>6. SUFFICES ASSUME Bad # {} PROVE FALSE
  <2>1. n \in 0..n
    BY <1>3
  <2> QED
    BY <1>4, <2>1 DEF s
<1>7. PICK k \in Bad : k = 0 \/ (k - 1 \in Nat /\ k - 1 \notin Bad)
  <2>1. Bad \subseteq Nat
    OBVIOUS
  <2> HIDE DEF Bad
  <2> QED
    BY <1>6, <2>1, FirstNumber
<1>8. k # 0
  BY <1>5
<1>9. k \in 1..n /\ k - 1 \in 0..n
  BY <1>3, <1>7, <1>8
<1> DEFINE x == tr[k - 1]
           u == tr[k]
           e == s[k]
<1>10. Fine(x) /\ ~Fine(u) /\ u = Fold(x, e)
  BY <1>5, <1>7, <1>8, <1>9
<1>11. /\ e \in Events /\ e.day = w.day /\ e.kind \in {"evolved", "current"} /\ e.who \in asked
       /\ e.kind = "evolved" => <<e.who, e.value>> \notin Refusals
  BY <1>2, <1>3, <1>9
<1> HIDE DEF x, u, e
<1>12. e.who # Hero
  BY <1>11, ChronicleAssumption
<1>13. ~Refused(x, e)
  BY <1>10, <1>11, <1>12, NothingToRefuse
<1>14. u \in Worlds /\ Grows(x, u, e) /\ u.ok /\ u.day = x.day
  BY <1>10, <1>11, <1>13, TodayFold
<1> QED
  BY <1>10, <1>14 DEF Grows

\* Who is asked entered the scene and is behind the clock.
LEMMA WhoIsAsked ==
    ASSUME CInv, stage # "idle", NEW asked \in Asked(world)
    PROVE  asked \in SUBSET Npcs /\ asked \subseteq StaleEntrants(world)
<1>1. asked \subseteq StaleEntrants(world)
  BY DEF Asked, kSubset
<1>2. Entrants \subseteq scene.present /\ scene.present \subseteq Npcs
  BY DEF CInv, Entrants, TurnOK
<1> QED
  BY <1>1, <1>2 DEF StaleEntrants

LEMMA CatchUpKept ==
    ASSUME CInv, NEW asked \in Asked(world), NEW answer \in [asked -> Replies \cup {Nothing}],
           CatchUp(answer)
    PROVE  CInv' /\ CaughtUp(world', world, asked)
<1> DEFINE events == Answers(Turn, world.day, answer)
<1>0. /\ stage = "digested" /\ Extend(world, events).ok /\ Stage(events) /\ stage' = "caughtup"
      /\ log' = log /\ scene' = scene /\ prev' = prev
  BY DEF CatchUp
<1>1. TurnOK /\ log \in Seq(Events) /\ world \in Worlds /\ Sound(world) /\ world.ok
      /\ world.day \in Nat \ {0} /\ world.day <= MaxDay
  BY <1>0, WorldTyped DEF CInv, LogOK, TurnOK, Live, Sound
<1>2. Turn \in Nat
  BY <1>1, TurnIsNext
<1>3. asked \in SUBSET Npcs
  BY <1>0, WhoIsAsked
<1>4. /\ events \in Seq(Events)
      /\ \A i \in 1..Len(events) : /\ events[i].turn = Turn /\ events[i].day = world.day
                                   /\ events[i].kind \in {"evolved", "current"}
  <2> DEFINE turn == Turn
             day == world.day
             s == Answers(turn, day, answer)
  <2>1. turn \in Nat /\ day \in Nat \ {0} /\ s = events
    BY <1>1, <1>2
  <2> HIDE DEF turn, day, events
  <2>2. /\ s \in Seq(Events)
        /\ \A i \in 1..Len(s) : /\ s[i].turn = turn /\ s[i].day = day
                                /\ s[i].kind \in {"evolved", "current"} /\ s[i].who \in asked
    <3>1. Tells(s, turn, day, asked)
      BY <1>3, <2>1, AnswersListed
    <3> QED
      BY <3>1 DEF Tells
  <2> HIDE DEF s
  <2> QED
    BY <2>1, <2>2 DEF turn, day
<1>5. CaughtUp(Extend(world, events), world, asked)
  BY <1>0, <1>1, <1>2, <1>3, AnswersCatchUp
<1> HIDE DEF events
<1>6. Stage(events)
  BY <1>0
<1>7. world' = Extend(world, events)
  BY <1>6 DEF Stage
<1>8. world'.ok /\ world'.day = world.day
  BY <1>5, <1>7 DEF CaughtUp
<1>9. world'.band = world.band
  <2>1. GrewBy(world, world', events, Len(events))
    BY <1>1, <1>4, <1>7, ExtendGrows
  <2> QED
    BY <1>4, <2>1 DEF GrewBy
<1>10. \A i \in 1..Len(events) :
         /\ events[i].turn = Turn /\ events[i].day >= world.day
         /\ events[i].kind \notin {"resolved", "configured", "scene"}
  BY <1>1, <1>4
<1>11. stage # "idle" /\ stage' \in Stages \ {"idle"}
  BY <1>0 DEF Stages
<1>12. scene.wait # Nothing => world'.band = scene.wait.band /\ world'.day >= scene.wait.day
  BY <1>0, <1>1, <1>8, <1>9 DEF TurnOK
<1>13. world'.day <= MaxDay
  BY <1>1, <1>8
<1>14. CInv'
  BY <1>0, <1>4, <1>6, <1>8, <1>10, <1>11, <1>12, <1>13, TurnGoesOn
<1> QED
  BY <1>5, <1>7, <1>14

\* A catch-up that fails leaves the turn as it was, and fails only over a value that
\* somebody asked refuses.
LEMMA FailedCatchUpKept ==
    ASSUME CInv, NEW asked \in Asked(world), NEW answer \in [asked -> Replies \cup {Nothing}],
           CatchUpFails(answer)
    PROVE  /\ CInv' /\ batch' = batch
           /\ \E p \in StaleEntrants(world), value \in Replies : <<p, value>> \in Refusals
<1>1. /\ stage = "digested" /\ stage' = "caughtup" /\ log' = log /\ batch' = batch
      /\ world' = world /\ scene' = scene /\ prev' = prev
      /\ ~Extend(world, Answers(Turn, world.day, answer)).ok
  BY DEF CatchUpFails
<1>2. LogOK' /\ Turn' = Turn
  BY <1>1 DEF CInv, LogOK, Turn
<1>3. TurnOK
  BY <1>1 DEF CInv
<1>4. TurnOK'
  BY <1>1, <1>2, <1>3 DEF TurnOK
<1>5. /\ batch' \in Seq(Events) /\ prev' \in (SUBSET Npcs) \cup {Nothing}
      /\ world' = Project(log' \o batch')
  BY <1>1 DEF CInv
<1>6. CInv'
  BY <1>1, <1>2, <1>4, <1>5 DEF CInv, Stages
<1>7. /\ Turn \in Nat /\ world \in Worlds /\ Sound(world) /\ world.ok
      /\ asked \in SUBSET Npcs /\ asked \subseteq StaleEntrants(world)
  BY <1>1, <1>3, WorldTyped, TurnIsNext, WhoIsAsked DEF CInv, LogOK, TurnOK, Live, Sound
<1>8. \E p \in asked, value \in Replies : <<p, value>> \in Refusals
  BY <1>1, <1>7, AnswersAccepted
<1> QED
  BY <1>1, <1>6, <1>7, <1>8


\* Only a scene's number and anchor change when it ends.
LEMMA SceneEnds ==
    ASSUME NEW w \in Worlds, Live(w), NEW e \in Events, e.day = w.day, e.kind = "scene"
    PROVE  LET u == Fold(w, e) IN
           /\ u \in Worlds /\ Live(u) /\ u.day = w.day /\ u.band = w.band
           /\ u.purse = w.purse /\ u.place = w.place
           /\ u.anchor = [at |-> e.value, day |-> w.day]
<1> DEFINE u == Fold(w, e)
<1>1. Sound(w) /\ w.ok /\ w.ruled /\ w.day <= MaxDay
  BY DEF Live
<1>2. ~Refused(w, e)
  BY <1>1, NothingToRefuse
<1>3. u = Owned(w, e) /\ u \in Worlds /\ Grows(w, u, e) /\ Effect(w, u, e) /\ u.ok
      /\ u.day = w.day
  BY <1>1, <1>2, TodayFold
<1> HIDE DEF u
<1>4. u = SceneApplied(w, e)
  BY <1>3 DEF Owned
<1>5. u.purse = w.purse /\ u.place = w.place
  BY <1>4 DEF SceneApplied, Worlds
<1>6. u.anchor = [at |-> e.value, day |-> w.day] /\ u.band = w.band
  BY <1>3 DEF Effect
<1>7. Live(u)
  BY <1>1, <1>3 DEF Live, Grows
<1> QED
  BY <1>3, <1>5, <1>6, <1>7 DEF u

\* The world that a turn leaves: anchored where the protagonist is, if at all.
Left(v, w) ==
    /\ v \in Worlds /\ Live(v) /\ v.day = w.day /\ v.band = w.band
    /\ v.purse = w.purse /\ v.place = w.place
    /\ v.anchor # Nothing => v.anchor = [at |-> At(v, Hero), day |-> v.day]

LEMMA EndingWorld ==
    ASSUME CInv, stage # "idle"
    PROVE  /\ Ending \in Seq(Events)
           /\ \A i \in 1..Len(Ending) : /\ Ending[i].turn = Turn /\ Ending[i].day = world.day
                                        /\ Ending[i].kind = "scene"
           /\ Left(Extend(world, Ending), world)
<1> DEFINE e == Event("scene", Turn, world.day, Hero, At(world, Hero))
<1>1. TurnOK /\ LogOK /\ log \in Seq(Events) /\ world \in Worlds
  BY WorldTyped DEF CInv, LogOK
<1>2. Live(world) /\ world.day \in Nat \ {0} /\ Turn \in Nat /\ Hero \in People
  BY <1>1, TurnIsNext DEF TurnOK, Live, Sound, People
<1>3. CASE Moved(Project(log), world)
  <2>1. At(world, Hero) \in Places \cup {Nothing}
    <3>1. world.place[Hero] \in Histories(Places)
      BY <1>1, <1>2, WorldFields
    <3> QED
      BY <3>1, ValueAtTyped DEF At
  <2>2. e \in Events /\ e.kind = "scene" /\ e.turn = Turn /\ e.day = world.day
        /\ e.value = At(world, Hero)
    BY <1>2, <2>1 DEF Event, Events, Fits, Kinds, Values
  <2>3. Ending = <<e>>
    BY <1>3 DEF Ending
  <2> DEFINE v == Fold(world, e)
  <2> HIDE DEF e
  <2>4. Ending \in Seq(Events) /\ Len(Ending) = 1 /\ Ending[1] = e
    BY <2>2, <2>3
  <2>5. Extend(world, Ending) = v
    BY <1>1, <2>2, <2>3, ExtendOne
  <2>6. /\ v \in Worlds /\ Live(v) /\ v.day = world.day /\ v.band = world.band
        /\ v.purse = world.purse /\ v.place = world.place
        /\ v.anchor = [at |-> At(world, Hero), day |-> world.day]
    BY <1>1, <1>2, <2>2, SceneEnds
  <2> HIDE DEF v
  <2>7. At(v, Hero) = At(world, Hero)
    BY <2>6 DEF At
  <2>8. Left(v, world)
    BY <2>6, <2>7 DEF Left
  <2>9. \A i \in 1..Len(Ending) : /\ Ending[i].turn = Turn /\ Ending[i].day = world.day
                                  /\ Ending[i].kind = "scene"
    BY <2>2, <2>4
  <2> QED
    BY <2>4, <2>5, <2>8, <2>9
<1>4. CASE ~Moved(Project(log), world)
  <2>1. Ending = <<>>
    BY <1>4 DEF Ending
  <2>2. Ending \in Seq(Events) /\ Len(Ending) = 0 /\ Extend(world, Ending) = world
    BY <1>1, <2>1, ExtendEmpty
  <2> DEFINE w0 == Project(log)
  <2>3. At(world, Hero) = At(w0, Hero) /\ world.day = w0.day /\ world.anchor = w0.anchor
    BY <1>1, <1>4 DEF Moved, TurnOK
  <2>4. w0.anchor # Nothing => w0.anchor = [at |-> At(w0, Hero), day |-> w0.day]
    BY <1>1, LogClosed DEF Closed
  <2> HIDE DEF w0
  <2>5. Left(world, world)
    BY <1>1, <1>2, <2>3, <2>4 DEF Left
  <2> QED
    BY <2>2, <2>5
<1> QED
  BY <1>3, <1>4

\* Lists of a common beginning have the same first members.
LEMMA SameBeginning ==
    ASSUME NEW s \in Seq(Events), NEW t \in Seq(Events), NEW k \in 0..Len(s), k <= Len(t),
           \A i \in 1..k : s[i] = t[i]
    PROVE  SubSeq(s, 1, k) = SubSeq(t, 1, k)
<1>1. k \in 0..Len(t)
  BY LenProperties
<1> DEFINE a == SubSeq(s, 1, k)
           b == SubSeq(t, 1, k)
<1>2. a \in Seq(Events) /\ Len(a) = k /\ \A i \in 1..k : a[i] = s[i]
  BY FirstMembers
<1>3. b \in Seq(Events) /\ Len(b) = k /\ \A i \in 1..k : b[i] = t[i]
  BY <1>1, FirstMembers
<1> HIDE DEF a, b
<1>4. a = b
  BY <1>2, <1>3, SeqEqual
<1> QED
  BY <1>4 DEF a, b
\* The log after a publication: the old one, then events of the next turn, of which
\* the first is its settlement.
Longer(longer, n, turn, day, settled) ==
    /\ longer \in Seq(Events) /\ n \in Nat /\ n >= 1 /\ Len(longer) > n /\ Len(log) = n
    /\ \A i \in 1..n : longer[i] = log[i]
    /\ longer[n + 1].kind = "resolved" /\ longer[n + 1].value = settled
    /\ \A i \in (n + 1)..Len(longer) :
         /\ longer[i].turn = turn /\ longer[i].day <= day
         /\ i # n + 1 => longer[i].kind \notin {"resolved", "configured"}

LEMMA PublishedLog ==
    ASSUME CInv, stage # "idle", log' = log \o batch \o Ending
    PROVE  Longer(log', Len(log), Turn, world.day, scene.expected)
<1> DEFINE n == Len(log)
           m == Len(batch)
           l == Len(Ending)
           mid == log \o batch
<1>1. /\ TurnOK /\ log \in Seq(Events) /\ batch \in Seq(Events) /\ n >= 1 /\ n \in Nat
      /\ m \in Nat
  BY LenProperties DEF CInv, LogOK
<1>2. /\ Ending \in Seq(Events) /\ l \in Nat
      /\ \A i \in 1..l : /\ Ending[i].turn = Turn /\ Ending[i].day = world.day
                         /\ Ending[i].kind = "scene"
  BY EndingWorld, LenProperties
<1>3. Joined(mid, log, batch, n, m)
  BY <1>1, ListsJoin
<1>4. mid \in Seq(Events) /\ Len(mid) = n + m
  BY <1>3 DEF Joined
<1>5. log' = mid \o Ending
  OBVIOUS
<1> HIDE DEF n, m, l, mid
<1>6. Joined(log', mid, Ending, n + m, l)
  <2>1. Len(Ending) = l
    BY DEF l
  <2> QED
    BY <1>2, <1>4, <1>5, <2>1, ListsJoin
<1> DEFINE new == log'
           day == world.day
           turn == Turn
           settled == scene.expected
<1>7. /\ new \in Seq(Events) /\ Len(new) = (n + m) + l
      /\ \A i \in 1..((n + m) + l) : new[i] = IF i <= n + m THEN mid[i] ELSE Ending[i - (n + m)]
  BY <1>6 DEF Joined
<1>8. \A i \in 1..(n + m) : mid[i] = IF i <= n THEN log[i] ELSE batch[i - n]
  BY <1>3 DEF Joined
<1>9. /\ m >= 1 /\ batch[1].kind = "resolved" /\ batch[1].value = settled
      /\ \A i \in 1..m : /\ batch[i].turn = turn /\ batch[i].day <= day
                         /\ i > 1 => batch[i].kind \notin {"resolved", "configured"}
  BY <1>1 DEF TurnOK, Dates, m
<1>10. \A i \in 1..l : /\ Ending[i].turn = turn /\ Ending[i].day <= day
                       /\ Ending[i].kind = "scene"
  <2>1. day \in Nat
    BY <1>1 DEF TurnOK, Live, Sound
  <2> QED
    BY <1>2, <2>1
<1>11. n = Len(log)
  BY DEF n
<1> HIDE DEF new, day, turn, settled
<1>12. \A i \in 1..n : new[i] = log[i]
  <2> TAKE i \in 1..n
  <2>1. i \in 1..((n + m) + l) /\ i \in 1..(n + m) /\ i <= n /\ i <= n + m
    BY <1>1, <1>2
  <2> QED
    BY <1>7, <1>8, <2>1
<1>13. new[n + 1] = batch[1]
  <2>1. /\ n + 1 \in 1..((n + m) + l) /\ n + 1 \in 1..(n + m) /\ ~(n + 1 <= n)
        /\ n + 1 <= n + m /\ (n + 1) - n = 1
    BY <1>1, <1>2, <1>9
  <2> QED
    BY <1>7, <1>8, <2>1
<1>14. ASSUME NEW i \in (n + 1)..Len(new)
       PROVE  /\ new[i].turn = turn /\ new[i].day <= day
              /\ i # n + 1 => new[i].kind \notin {"resolved", "configured"}
  <2>1. i \in 1..((n + m) + l) /\ ~(i <= n) /\ i \in Nat
    BY <1>1, <1>2, <1>7
  <2>2. CASE i <= n + m
    <3> DEFINE j == i - n
    <3>1. j \in 1..m /\ i \in 1..(n + m) /\ (i # n + 1 => j > 1)
      BY <1>1, <2>1, <2>2
    <3>2. new[i] = batch[j]
      BY <1>7, <1>8, <2>1, <2>2, <3>1
    <3> HIDE DEF j
    <3> QED
      BY <1>9, <3>1, <3>2
  <2>3. CASE ~(i <= n + m)
    <3> DEFINE j == i - (n + m)
    <3>1. j \in 1..l
      BY <1>1, <1>2, <2>1, <2>3
    <3>2. new[i] = Ending[j]
      BY <1>7, <2>1, <2>3
    <3> HIDE DEF j
    <3> QED
      BY <1>10, <3>1, <3>2
  <2> QED
    BY <2>2, <2>3
<1>15. Len(new) > n
  BY <1>1, <1>2, <1>7, <1>9
<1>16. Longer(new, n, turn, day, settled)
  BY <1>1, <1>7, <1>9, <1>11, <1>12, <1>13, <1>14, <1>15 DEF Longer
<1> QED
  BY <1>16 DEF new, n, turn, day, settled

\* Its last settlement is the turn's.
LEMMA LastSettlement ==
    ASSUME NEW s, NEW n, NEW turn, NEW day, NEW settled, Longer(s, n, turn, day, settled)
    PROVE  Max(Settlements(s)) = n + 1
<1> DEFINE S == Settlements(s)
<1>1. DOMAIN s = 1..Len(s) /\ Len(s) \in Nat /\ n \in Nat /\ n + 1 \in 1..Len(s)
  <2>1. s \in Seq(Events) /\ n \in Nat /\ Len(s) > n
    BY DEF Longer
  <2> QED
    BY <2>1, LenProperties
<1>2. n + 1 \in S
  BY <1>1 DEF Longer, Settlements
<1>3. \A x \in S : x \in Nat /\ x <= n + 1
  <2> SUFFICES ASSUME NEW x \in S, ~(x <= n + 1) PROVE FALSE
    BY <1>1 DEF Settlements
  <2>1. x \in 1..Len(s) /\ s[x].kind \in {"configured", "resolved"}
    BY <1>1 DEF Settlements
  <2>2. x \in (n + 1)..Len(s) /\ x # n + 1
    BY <1>1, <2>1
  <2> QED
    BY <2>1, <2>2 DEF Longer
<1> HIDE DEF S
<1>4. S \in SUBSET Nat /\ S # {} /\ n + 1 \in Nat
  BY <1>1, <1>2, <1>3
<1>5. Max(S) \in S /\ \A x \in S : x <= Max(S)
  BY <1>3, <1>4, MaxOfBounded
<1>6. Max(S) <= n + 1 /\ n + 1 <= Max(S) /\ Max(S) \in Nat
  BY <1>2, <1>3, <1>5
<1> QED
  BY <1>1, <1>6 DEF S

LEMMA PublishKept ==
    ASSUME CInv, Publish
    PROVE  /\ CInv' /\ Left(world', world) /\ world' = Project(log')
           /\ Longer(log', Len(log), Turn, world.day, scene.expected)
<1> DEFINE n == Len(log)
           new == log'
           k0 == Len(new)
<1>1. /\ stage = "caughtup" /\ Settled(world, scene)
      /\ new = log \o batch \o Ending /\ world' = Extend(world, Ending)
      /\ batch' = <<>> /\ stage' = "idle" /\ scene' = Idle /\ prev' = scene.present
  BY DEF Publish
<1>2. /\ TurnOK /\ LogOK /\ log \in Seq(Events) /\ batch \in Seq(Events)
      /\ world \in Worlds /\ Closed(log) /\ world = Project(log \o batch)
  BY <1>1, WorldTyped, LogClosed DEF CInv, LogOK
<1>3. Longer(log', Len(log), Turn, world.day, scene.expected)
  BY <1>1, PublishedLog
<1>4. Ending \in Seq(Events) /\ Left(world', world)
  BY <1>1, EndingWorld
<1>5. world' = Project(log')
  <2>1. log \o batch \in Seq(Events)
    BY <1>2, ConcatProperties
  <2> QED
    BY <1>1, <1>2, <1>4, <2>1, ProjectConcat
<1>6. /\ new \in Seq(Events) /\ n \in Nat /\ n >= 1 /\ k0 > n /\ k0 \in Nat
      /\ \A i \in 1..n : new[i] = log[i]
      /\ \A i \in (n + 1)..k0 : new[i].turn = Turn /\ new[i].day <= world.day
  <2>1. new \in Seq(Events)
    BY <1>3 DEF Longer
  <2> QED
    BY <1>3, <2>1, LenProperties DEF Longer
<1>7. /\ Turn \in Nat /\ Turn <= MaxTurn
      /\ \A i \in 1..n : log[i].turn < Turn /\ log[i].turn \in Nat
  BY <1>2, TurnIsNext DEF TurnOK
<1>8. Ordered(new)
  <2> SUFFICES ASSUME NEW i \in 1..k0, NEW j \in 1..k0, i <= j
               PROVE  new[i].turn <= new[j].turn
    BY DEF Ordered
  <2>1. CASE j <= n
    <3>1. i \in 1..n /\ j \in 1..n
      BY <1>6, <2>1
    <3>2. log[i].turn <= log[j].turn
      BY <1>2, <3>1 DEF LogOK, Ordered
    <3> QED
      BY <1>6, <3>1, <3>2
  <2>2. CASE j > n
    <3>1. j \in (n + 1)..k0 /\ (i \in 1..n \/ i \in (n + 1)..k0)
      BY <1>6, <2>2
    <3> HIDE DEF n, new, k0
    <3> QED
      BY <1>6, <1>7, <3>1
  <2> QED
    BY <1>6, <2>1, <2>2
<1>9. \A i \in 1..k0 : new[i].turn <= MaxTurn
  <2> TAKE i \in 1..k0
  <2>1. i \in 1..n \/ i \in (n + 1)..k0
    BY <1>6
  <2>2. MaxTurn \in Nat
    BY ChronicleAssumption
  <2> HIDE DEF n, new, k0
  <2> QED
    BY <1>6, <1>7, <2>1, <2>2
<1>10. Closed(new)
  <2> DEFINE w == Project(new)
             w0 == Project(log)
  <2>1. w = world'
    BY <1>5
  <2>2. Live(w) /\ w.day = world.day /\ w.purse = world.purse
        /\ (w.anchor # Nothing => w.anchor = [at |-> At(w, Hero), day |-> w.day])
    BY <1>4, <2>1 DEF Left
  <2>3. Max(Settlements(new)) = n + 1 /\ new[n + 1].value = scene.expected
    BY <1>3, LastSettlement DEF Longer
  <2>4. Balance(w) = scene.expected
    <3>1. scene.expected \in Int /\ scene.expected # Nothing
      BY <1>2, NoNumber DEF TurnOK
    <3>2. Balance(w) = Balance(world)
      BY <2>2 DEF Balance
    <3> HIDE DEF w
    <3> QED
      BY <1>1, <3>1, <3>2 DEF Settled
  <2>5. Balance(w) \in Int /\ Balance(w) >= Floor
    BY <1>2, <2>4 DEF TurnOK
  <2>6. Dates(w, new)
    <3>1. Dates(w0, log) /\ w0.day <= world.day /\ w0.day \in Nat /\ world.day \in Nat
      BY <1>2 DEF Closed, Live, Sound, TurnOK
    <3> HIDE DEF w, w0
    <3> SUFFICES ASSUME NEW i \in 1..k0 PROVE new[i].day <= w.day
      BY DEF Dates
    <3>2. i \in 1..n \/ i \in (n + 1)..k0
      BY <1>6
    <3>3. CASE i \in 1..n
      <4>1. new[i] = log[i] /\ log[i].day <= w0.day
        BY <1>6, <3>1, <3>3 DEF Dates
      <4>2. log[i].day \in Nat
        <5>1. log[i] \in Events
          BY <1>2, <3>3, LenProperties
        <5> QED
          BY <5>1 DEF Events
      <4> HIDE DEF new, n, k0
      <4> QED
        BY <2>2, <3>1, <4>1, <4>2
    <3>4. CASE i \in (n + 1)..k0
      <4> HIDE DEF new, n, k0
      <4> QED
        BY <1>6, <2>2, <3>4
    <3> QED
      BY <3>2, <3>3, <3>4
  <2> QED
    BY <2>2, <2>3, <2>4, <2>5, <2>6 DEF Closed
<1>11. Books(new)
  <2> SUFFICES ASSUME NEW k \in 1..k0, Boundary(new, k) PROVE Closed(SubSeq(new, 1, k))
    BY DEF Books
  <2>1. CASE k <= n
    <3>1. k \in 1..n /\ k \in 0..Len(log) /\ k <= k0 /\ \A i \in 1..k : log[i] = new[i]
      BY <1>6, <2>1
    <3>2. SubSeq(log, 1, k) = SubSeq(new, 1, k)
      BY <1>2, <1>6, <3>1, SameBeginning
    <3>3. Boundary(log, k)
      <4>1. SUFFICES ASSUME k # n PROVE log[k].turn < log[k + 1].turn
        BY DEF Boundary
      <4>2. k + 1 \in 1..n /\ k # k0
        BY <1>6, <3>1, <4>1
      <4>3. new[k].turn < new[k + 1].turn
        BY <4>2 DEF Boundary
      <4> QED
        BY <1>6, <3>1, <4>2, <4>3
    <3>4. Closed(SubSeq(log, 1, k))
      BY <1>2, <3>1, <3>3 DEF LogOK, Books
    <3> QED
      BY <3>2, <3>4
  <2>2. CASE k > n
    <3>1. k = k0
      <4>1. SUFFICES ASSUME k # k0 PROVE FALSE
        OBVIOUS
      <4>2. new[k].turn < new[k + 1].turn
        BY <4>1 DEF Boundary
      <4>3. k \in (n + 1)..k0 /\ k + 1 \in (n + 1)..k0
        BY <1>6, <2>2, <4>1
      <4> HIDE DEF new, n, k0
      <4>4. new[k].turn = Turn /\ new[k + 1].turn = Turn
        BY <1>6, <4>3
      <4> QED
        BY <1>7, <4>2, <4>4
    <3> QED
      BY <1>6, <1>10, <3>1, WholeList
  <2> QED
    BY <1>6, <2>1, <2>2
<1>12. LogOK'
  <2>1. Len(new) >= 1 /\ new[1].turn = 0
    <3>1. log[1].turn = 0 /\ 1 \in 1..n
      BY <1>2, <1>6 DEF LogOK
    <3> QED
      BY <1>6, <3>1
  <2> QED
    BY <1>6, <1>8, <1>9, <1>11, <2>1 DEF LogOK
<1>13. log' \o <<>> = log'
  BY <1>6, ConcatEmptySeq
<1>14. batch' \in Seq(Events) /\ stage' \in Stages /\ prev' \in (SUBSET Npcs) \cup {Nothing}
  <2>1. batch' \in Seq(Events) /\ stage' \in Stages
    BY <1>1 DEF Stages
  <2>2. prev' \in (SUBSET Npcs) \cup {Nothing}
    BY <1>1, <1>2 DEF TurnOK
  <2> QED
    BY <2>1, <2>2
<1>15. CInv'
  <2>1. Idle' = Idle
    BY DEF Idle
  <2> QED
    BY <1>1, <1>5, <1>12, <1>13, <1>14, <2>1 DEF CInv
<1> QED
  BY <1>3, <1>4, <1>5, <1>15
LEMMA DropKept ==
    ASSUME CInv, Drop
    PROVE  CInv'
<1>1. /\ batch' = <<>> /\ world' = Project(log) /\ stage' = "idle" /\ scene' = Idle
      /\ log' = log /\ prev' = prev
  BY DEF Drop
<1>2. LogOK' /\ log \in Seq(Events) /\ prev \in (SUBSET Npcs) \cup {Nothing}
  BY <1>1 DEF CInv, LogOK
<1>3. log' \o batch' = log
  BY <1>1, <1>2, ConcatEmptySeq
<1>4. batch' \in Seq(Events) /\ stage' \in Stages
  BY <1>1 DEF Stages
<1>5. world' = Project(log' \o batch')
  BY <1>1, <1>3
<1> QED
  BY <1>1, <1>2, <1>4, <1>5 DEF CInv, Idle

\* A rewind ends the log where a turn ended, and the books of that turn stand.
LEMMA RewindKept ==
    ASSUME CInv, NEW t \in Nat, Rewind(t)
    PROVE  CInv'
<1> DEFINE n == Len(log)
           new == log'
<1>1. /\ stage = "idle" /\ t \in 1..(Turn - 1) /\ new = Standing(log, t)
      /\ world' = Project(log') /\ prev' = Nothing
      /\ batch' = batch /\ stage' = stage /\ scene' = scene
  BY DEF Rewind
<1>2. /\ LogOK /\ log \in Seq(Events) /\ Ordered(log) /\ batch = <<>> /\ scene = Idle
      /\ n \in Nat /\ n >= 1 /\ log[1].turn = 0
  BY <1>1, LenProperties DEF CInv, LogOK
<1>3. PICK c \in 0..n : /\ new = SubSeq(log, 1, c)
                        /\ \A i \in 1..c : log[i].turn < t
                        /\ \A i \in (c + 1)..n : log[i].turn >= t
  BY <1>1, <1>2, StandingIsPrefix
<1>4. c \in Nat /\ c >= 1
  <2>1. SUFFICES ASSUME c = 0 PROVE FALSE
    BY <1>2
  <2>2. 1 \in (c + 1)..n
    BY <1>2, <2>1
  <2>3. 0 >= t
    BY <1>2, <1>3, <2>2
  <2> QED
    BY <1>1, <2>3
<1>5. new \in Seq(Events) /\ Len(new) = c /\ \A i \in 1..c : new[i] = log[i]
  BY <1>2, <1>3, FirstMembers
<1>6. \A i \in 1..n : log[i].turn \in Nat
  BY <1>2, TurnIsNext
<1> HIDE DEF n, new
<1>7. \A i \in 1..c : i \in 1..n
  BY <1>2, <1>4
<1>8. Ordered(new)
  BY <1>2, <1>5, <1>7 DEF Ordered, n
<1>9. \A i \in 1..c : new[i].turn <= MaxTurn
  BY <1>2, <1>5, <1>7 DEF LogOK, n
<1>10. Books(new)
  <2> SUFFICES ASSUME NEW k \in 1..c, Boundary(new, k) PROVE Closed(SubSeq(new, 1, k))
    BY <1>5 DEF Books
  <2>1. Boundary(log, k)
    <3>1. CASE k # c
      <4>1. k + 1 \in 1..c
        BY <1>4, <3>1
      <4>2. new[k].turn < new[k + 1].turn
        BY <1>5, <3>1 DEF Boundary
      <4> QED
        BY <1>5, <4>1, <4>2 DEF Boundary
    <3>2. CASE k = c /\ k # n
      <4>1. k \in 1..c /\ k + 1 \in (c + 1)..n /\ k \in 1..n /\ k + 1 \in 1..n
        BY <1>2, <1>4, <3>2
      <4>2. log[k].turn < t /\ log[k + 1].turn >= t
        BY <1>3, <4>1
      <4>3. log[k].turn \in Nat /\ log[k + 1].turn \in Nat
        BY <1>6, <4>1
      <4> QED
        BY <4>2, <4>3 DEF Boundary
    <3>3. CASE k = n
      BY <3>3 DEF Boundary, n
    <3> QED
      BY <3>1, <3>2, <3>3
  <2>2. Closed(SubSeq(log, 1, k))
    BY <1>2, <1>7, <2>1 DEF LogOK, Books, n
  <2>3. SubSeq(new, 1, k) = SubSeq(log, 1, k)
    <3>1. k \in 0..Len(new) /\ k <= Len(log) /\ \A i \in 1..k : new[i] = log[i]
      BY <1>2, <1>4, <1>5 DEF n
    <3> QED
      BY <1>2, <1>5, <3>1, SameBeginning
  <2> QED
    BY <2>2, <2>3
<1>11. LogOK'
  <2>1. new[1].turn = 0 /\ Len(new) >= 1
    BY <1>2, <1>4, <1>5
  <2> QED
    BY <1>5, <1>8, <1>9, <1>10, <2>1 DEF LogOK, new
<1>12. log' \o <<>> = log'
  BY <1>5, ConcatEmptySeq DEF new
<1>13. /\ batch' = <<>> /\ scene' = Idle /\ stage' = "idle" /\ world' = Project(log' \o batch')
  BY <1>1, <1>2, <1>12
<1>14. batch' \in Seq(Events) /\ stage' \in Stages /\ prev' \in (SUBSET Npcs) \cup {Nothing}
  <2>1. batch' \in Seq(Events) /\ stage' \in Stages
    BY <1>13 DEF Stages
  <2>2. prev' \in (SUBSET Npcs) \cup {Nothing}
    BY <1>1
  <2> QED
    BY <2>1, <2>2
<1> QED
  BY <1>11, <1>13, <1>14 DEF CInv, Idle

LEMMA StutterKept ==
    ASSUME CInv, UNCHANGED vars
    PROVE  CInv'
<1>1. /\ log' = log /\ batch' = batch /\ world' = world /\ stage' = stage
      /\ scene' = scene /\ prev' = prev
  BY DEF vars
<1>2. LogOK' /\ Turn' = Turn
  BY <1>1 DEF CInv, LogOK, Turn
<1>3. stage # "idle" => TurnOK'
  BY <1>1, <1>2 DEF CInv, TurnOK
<1> QED
  BY <1>1, <1>2, <1>3 DEF CInv, Idle

LEMMA NextKept ==
    ASSUME CInv, Next
    PROVE  CInv'
<1>1. ASSUME NEW amount \in Amounts, NEW wait \in Waits \cup {Nothing}, Begin(amount, wait)
      PROVE  CInv'
  BY <1>1, BeginKept
<1>2. ASSUME NEW by \in Clocks, NEW items \in Tellings, Write(by, items) PROVE CInv'
  BY <1>2, WriteKept
<1>3. ASSUME NEW arcs \in Arcs, Reflect(arcs) PROVE CInv'
  BY <1>3, ReflectKept
<1>4. CASE NoArc
  BY <1>4, NoArcKept
<1>5. ASSUME NEW answer \in PossibleAnswers(world), CatchUp(answer) \/ CatchUpFails(answer)
      PROVE  CInv'
  <2>1. PICK asked \in Asked(world) : answer \in [asked -> Replies \cup {Nothing}]
    BY DEF PossibleAnswers
  <2> QED
    BY <1>5, <2>1, CatchUpKept, FailedCatchUpKept
<1>6. CASE Publish
  BY <1>6, PublishKept
<1>7. CASE Drop
  BY <1>7, DropKept
<1>8. ASSUME NEW t \in 1..MaxTurn, Rewind(t) PROVE CInv'
  BY <1>8, RewindKept
<1> QED
  BY <1>1, <1>2, <1>3, <1>4, <1>5, <1>6, <1>7, <1>8 DEF Next

LEMMA Invariant ==
    ASSUME CInv, [Next]_vars
    PROVE  CInv'
  BY NextKept, StutterKept

-----------------------------------------------------------------------------
(* What holds at every step.                                                *)

\* Between turns the log is closed at every turn's end, and the action under way was
\* settled first and changes nothing earlier: what the later results rest on.
THEOREM ChronicleInvariant == Spec => []CInv
  BY InitInv, Invariant, PTL DEF Spec

LEMMA WorldIsLive ==
    ASSUME CInv
    PROVE  Live(world)
<1>1. CASE stage = "idle"
  BY <1>1, IdleWorld, LogClosed DEF CInv, Closed
<1>2. CASE stage # "idle"
  BY <1>2 DEF CInv, TurnOK
<1> QED
  BY <1>1, <1>2

\* The events of the log and of the batch are of turns and days within the bounds.
LEMMA EventsBounded ==
    ASSUME CInv
    PROVE  \A e \in Range(log \o batch) :
             /\ e.kind \in Kinds /\ e.turn \in 0..MaxTurn /\ e.day \in Days /\ e.who \in People
<1> DEFINE n == Len(log)
           m == Len(batch)
           all == log \o batch
           Good(e) == /\ e.kind \in Kinds /\ e.turn \in 0..MaxTurn /\ e.day \in Days
                      /\ e.who \in People
<1>1. /\ LogOK /\ log \in Seq(Events) /\ batch \in Seq(Events) /\ n \in Nat /\ m \in Nat
      /\ Closed(log) /\ Live(world)
  BY LogClosed, WorldIsLive, LenProperties DEF CInv, LogOK
<1>2. MaxTurn \in Nat /\ MaxDay \in Nat
  BY ChronicleAssumption
<1>3. ASSUME NEW i \in 1..n PROVE Good(log[i])
  <2> DEFINE w0 == Project(log)
  <2>1. log[i] \in Events /\ log[i].turn <= MaxTurn /\ log[i].day <= w0.day
    BY <1>1, <1>3, LenProperties DEF LogOK, Closed, Dates
  <2>2. w0.day \in Nat /\ w0.day <= MaxDay
    BY <1>1 DEF Closed, Live, Sound
  <2> HIDE DEF w0
  <2> DEFINE e == log[i]
  <2>3. /\ e.kind \in Kinds /\ e.turn \in Nat /\ e.day \in Nat /\ e.day >= 1 /\ e.who \in People
    BY <2>1, EventFields
  <2> HIDE DEF e
  <2>4. e.turn <= MaxTurn /\ e.day <= w0.day
    BY <2>1 DEF e
  <2>5. Good(e)
    BY <1>2, <2>2, <2>3, <2>4 DEF Days
  <2> QED
    BY <2>5 DEF e
<1>4. ASSUME NEW i \in 1..m PROVE Good(batch[i])
  <2> DEFINE e == batch[i]
             d == world.day
  <2>1. TurnOK
    <3>1. batch # <<>>
      BY <1>1, <1>4
    <3> QED
      BY <3>1 DEF CInv
  <2>2. e \in Events /\ e.turn = Turn /\ Turn <= MaxTurn /\ e.day <= d
    BY <1>1, <1>4, <2>1, LenProperties DEF TurnOK, Dates
  <2>3. d \in Nat /\ d <= MaxDay
    BY <1>1 DEF Live, Sound
  <2> HIDE DEF e, d
  <2>4. /\ e.kind \in Kinds /\ e.turn \in Nat /\ e.day \in Nat /\ e.day >= 1 /\ e.who \in People
    BY <2>2, EventFields
  <2>5. Good(e)
    BY <1>2, <2>2, <2>3, <2>4 DEF Days
  <2> QED
    BY <2>5 DEF e
<1> HIDE DEF Good, n, m, all
<1>5. Joined(all, log, batch, n, m)
  BY <1>1, ListsJoin DEF all, n, m
<1>6. DOMAIN all = 1..(n + m)
  BY <1>5, LenProperties DEF Joined
<1>7. \A i \in 1..(n + m) : Good(all[i])
  <2> TAKE i \in 1..(n + m)
  <2>1. CASE i <= n
    BY <1>1, <1>3, <1>5, <2>1 DEF Joined
  <2>2. CASE ~(i <= n)
    <3>1. i - n \in 1..m
      BY <1>1, <2>2
    <3> QED
      BY <1>4, <1>5, <2>2, <3>1 DEF Joined
  <2> QED
    BY <2>1, <2>2
<1> QED
  BY <1>6, <1>7 DEF all, Good, Range

LEMMA TypesFollow ==
    ASSUME CInv
    PROVE  TypeOK
<1>1. Live(world) /\ Sound(world) /\ world \in Worlds
  BY WorldIsLive, WorldTyped DEF Live
<1>2. HistoriesTile
  BY <1>1 DEF HistoriesTile, Sound, Within
<1>3. world.ok /\ world.day \in Days /\ world.band \in 0..BandsPerDay - 1
  <2>1. world.ok /\ world.day \in Nat \ {0} /\ world.day <= MaxDay /\ MaxDay \in Nat
    BY <1>1, ChronicleAssumption DEF Live, Sound
  <2>2. world.band \in 0..3
    BY <1>1, WorldFields
  <2> QED
    BY <2>1, <2>2 DEF Days, BandsPerDay
<1>4. \A p \in People : world.seen[p] \in Days \cup {Nothing}
  <2> SUFFICES ASSUME NEW p \in People, world.seen[p] # Nothing PROVE world.seen[p] \in Days
    OBVIOUS
  <2>1. world.seen[p] \in Nat \ {0} /\ world.seen[p] <= world.day
    BY <1>1, WorldFields DEF Sound
  <2>2. world.day \in 1..MaxDay /\ MaxDay \in Nat
    BY <1>3, ChronicleAssumption DEF Days
  <2> QED
    BY <2>1, <2>2 DEF Days
<1>5. (stage = "idle") <=> (scene = Idle)
  <2>1. stage = "idle" => scene = Idle
    BY DEF CInv
  <2>2. stage # "idle" => scene.expected \in Int
    BY DEF CInv, TurnOK
  <2>3. Idle.expected = Nothing
    BY DEF Idle
  <2> QED
    BY <2>1, <2>2, <2>3, NoNumber
<1>6. scene.present \subseteq Npcs
  <2>1. Idle.present = {}
    BY DEF Idle
  <2> QED
    BY <2>1 DEF CInv, TurnOK
<1>7. stage \in {"idle", "settled", "told", "digested", "caughtup"}
  BY DEF CInv, Stages
<1>8. prev \in (SUBSET Npcs) \cup {Nothing}
  BY DEF CInv
<1> QED
  BY <1>2, <1>3, <1>4, <1>5, <1>6, <1>7, <1>8, EventsBounded DEF TypeOK

\* Every value is one the program can have, and the histories of the purse and of every
\* person's place tell one value at a time: what a fact supersedes ends where it begins.
THEOREM TypeCorrect == Spec => []TypeOK
<1>1. CInv => TypeOK
  BY TypesFollow
<1> QED
  BY <1>1, ChronicleInvariant, PTL

\* Whatever was staged, dropped or rewound, the world a session goes on with is the one
\* its published and staged events tell from the beginning.
THEOREM WorldFromEvents == Spec => []WorldIsFold
<1>1. CInv => WorldIsFold
  BY DEF CInv, WorldIsFold
<1> QED
  BY <1>1, ChronicleInvariant, PTL

\* Between turns the purse holds what the last settlement that stands left, never less
\* than its minimum: through facts, evolutions and reflections that try to set it, and
\* through every rewind.
THEOREM PurseFromSettlement == Spec => []PurseIsSettled
<1>1. ASSUME CInv PROVE PurseIsSettled
  <2> SUFFICES ASSUME stage = "idle"
               PROVE  /\ Balance(world) = log[Max(Settlements(log))].value
                      /\ Balance(world) >= Floor
    BY DEF PurseIsSettled
  <2>1. world = Project(log) /\ Closed(log)
    BY <1>1, IdleWorld, LogClosed DEF CInv
  <2> QED
    BY <2>1 DEF Closed
<1> QED
  BY <1>1, ChronicleInvariant, PTL

\* What a session's world tells of a day before the action is what the log tells.
LEMMA PastOfLog ==
    ASSUME CInv
    PROVE  \A d \in Nat : d < Project(log).day => Agree(world, Project(log), d)
<1>1. CASE stage = "idle"
  BY <1>1, IdleWorld DEF Agree
<1>2. CASE stage # "idle"
  BY <1>2 DEF CInv, TurnOK
<1> QED
  BY <1>1, <1>2

\* No step of an action changes what was so on a day before it began: what the purse
\* held and where everybody was.
THEOREM PastStands == Spec => ThePastStands
<1> DEFINE A == stage # "idle" \/ stage' # "idle" =>
                  \A d \in 1 .. Project(log).day - 1 :
                    /\ ValueAt(world'.purse, d) = ValueAt(world.purse, d)
                    /\ \A p \in People :
                         ValueAt(world'.place[p], d) = ValueAt(world.place[p], d)
<1>1. ASSUME CInv, CInv', Next PROVE A
  <2> SUFFICES ASSUME stage # "idle" \/ stage' # "idle", NEW d \in 1..Project(log).day - 1
               PROVE  Agree(world', world, d)
    BY DEF Agree
  <2>1. d \in Nat /\ d < Project(log).day
    <3> DEFINE day == Project(log).day
    <3>1. day \in Nat
      BY <1>1, LogClosed DEF CInv, Closed, Live, Sound
    <3> HIDE DEF day
    <3>2. d \in 1..day - 1
      BY DEF day
    <3>3. d \in Nat /\ d < day
      BY <3>1, <3>2
    <3> QED
      BY <3>3 DEF day
  <2>2. CASE log' = log
    <3>1. Agree(world, Project(log), d)
      BY <1>1, <2>1, PastOfLog
    <3>2. Agree(world', Project(log'), d)
      <4>1. CASE stage' = "idle"
        <5>1. batch' = <<>> /\ world' = Project(log' \o batch') /\ log' \in Seq(Events)
          BY <1>1, <2>2, <4>1 DEF CInv, LogOK
        <5>2. world' = Project(log')
          BY <5>1, ConcatEmptySeq
        <5> QED
          BY <5>2 DEF Agree
      <4>2. CASE stage' # "idle"
        <5>1. \A x \in Nat : x < Project(log').day => Agree(world', Project(log'), x)
          BY <1>1, <4>2 DEF CInv, TurnOK
        <5>2. d < Project(log').day
          BY <2>1, <2>2
        <5> QED
          BY <2>1, <5>1, <5>2
      <4> QED
        BY <4>1, <4>2
    <3> QED
      BY <2>2, <3>1, <3>2 DEF Agree
  <2>3. CASE Publish
    <3>1. world'.purse = world.purse /\ world'.place = world.place
      BY <1>1, <2>3, PublishKept DEF Left
    <3> QED
      BY <3>1 DEF Agree
  <2>4. log' = log \/ Publish
    BY <1>1 DEF Next, Begin, Stage, Write, Reflect, NoArc, CatchUp, CatchUpFails, Drop,
               Rewind
  <2> QED
    BY <2>2, <2>3, <2>4
<1>2. CInv /\ CInv' /\ [Next]_vars => [A]_vars
  BY <1>1
<1> QED
  BY <1>2, ChronicleInvariant, PTL DEF Spec, ThePastStands

\* A published turn leaves nothing open: it was settled, whatever moved the player or
\* the day ended its scene there, and a wait that was asked for is over.
THEOREM TurnsClose == Spec => TurnsAreClosed
<1> DEFINE A == log' # log /\ stage # "idle" =>
                  /\ \E e \in Range(log') : e.turn = Turn /\ e.kind = "resolved"
                  /\ world'.anchor # Nothing =>
                       world'.anchor = [at |-> At(world', Hero), day |-> world'.day]
                  /\ scene.wait # Nothing =>
                       world'.band = scene.wait.band /\ world'.day >= scene.wait.day
<1>1. ASSUME CInv, Next PROVE A
  <2> SUFFICES ASSUME log' # log, stage # "idle"
               PROVE  /\ \E e \in Range(log') : e.turn = Turn /\ e.kind = "resolved"
                      /\ world'.anchor # Nothing =>
                           world'.anchor = [at |-> At(world', Hero), day |-> world'.day]
                      /\ scene.wait # Nothing =>
                           world'.band = scene.wait.band /\ world'.day >= scene.wait.day
    OBVIOUS
  <2>1. Publish
    BY <1>1 DEF Next, Begin, Stage, Write, Reflect, NoArc, CatchUp, CatchUpFails, Drop,
               Rewind
  <2>2. Left(world', world) /\ Longer(log', Len(log), Turn, world.day, scene.expected)
    BY <1>1, <2>1, PublishKept
  <2>3. \E e \in Range(log') : e.turn = Turn /\ e.kind = "resolved"
    <3> DEFINE k == Len(log) + 1
               new == log'
    <3>1. new \in Seq(Events) /\ Len(log) \in Nat /\ Len(new) > Len(log)
      BY <2>2 DEF Longer
    <3>2. k \in 1..Len(new) /\ k \in k..Len(new) /\ DOMAIN new = 1..Len(new)
      BY <3>1, LenProperties
    <3>3. new[k].turn = Turn /\ new[k].kind = "resolved"
      BY <2>2, <3>2 DEF Longer
    <3> HIDE DEF new, k
    <3>4. new[k] \in Range(new)
      BY <3>2 DEF Range
    <3> QED
      BY <3>3, <3>4 DEF new
  <2>4. scene.wait # Nothing => world.band = scene.wait.band /\ world.day >= scene.wait.day
    BY <1>1, <2>1 DEF CInv, TurnOK, Publish
  <2> QED
    BY <2>2, <2>3, <2>4 DEF Left
<1>2. CInv /\ [Next]_vars => [A]_vars
  BY <1>1
<1> QED
  BY <1>2, ChronicleInvariant, PTL DEF Spec, TurnsAreClosed

\* Whoever is still behind after the answers was not asked.
LEMMA StillStale ==
    ASSUME CInv, stage # "idle", NEW asked, CaughtUp(world', world, asked)
    PROVE  StaleEntrants(world') = StaleEntrants(world) \ asked
<1>1. /\ world'.day = world.day /\ world'.tier = world.tier /\ world.day \in Nat
      /\ \A p \in People : world'.seen[p] = IF p \in asked THEN world.day ELSE world.seen[p]
  BY WorldIsLive DEF CaughtUp, Live, Sound
<1>2. Entrants \subseteq People
  BY DEF CInv, TurnOK, Entrants, People
<1>3. ASSUME NEW p \in Entrants PROVE Stale(world', p) <=> Stale(world, p) /\ p \notin asked
  BY <1>1, <1>2 DEF Stale
<1> QED
  BY <1>3 DEF StaleEntrants

\* However many people were behind the clock when they entered the scene, and whatever
\* the model answered, at most those beyond the budget are still behind afterwards;
\* unless somebody's own rules refuse a value that may have been answered, and then
\* the turn holds nothing of the catch-up.
THEOREM EntrantsAreCaughtUp == Spec => EntrantsCaughtUp
<1> DEFINE Refusable == \E p \in StaleEntrants(world), value \in Replies :
                          <<p, value>> \in Refusals
           Up == Cardinality(StaleEntrants(world'))
                   <= Max({0, Cardinality(StaleEntrants(world)) - Budget})
           A == stage' = "caughtup" => Up \/ (batch' = batch /\ Refusable)
<1>1. ASSUME CInv, Next PROVE A
  <2> SUFFICES ASSUME stage' = "caughtup" PROVE Up \/ (batch' = batch /\ Refusable)
    OBVIOUS
  <2>1. PICK answer \in PossibleAnswers(world) : CatchUp(answer) \/ CatchUpFails(answer)
    BY <1>1 DEF Next, Begin, Write, Reflect, NoArc, Publish, Drop, Rewind
  <2>2. PICK asked \in Asked(world) : answer \in [asked -> Replies \cup {Nothing}]
    BY <2>1 DEF PossibleAnswers
  <2>3. CASE CatchUpFails(answer)
    BY <1>1, <2>2, <2>3, FailedCatchUpKept
  <2>4. CASE CatchUp(answer)
    <3>1. stage = "digested" /\ log' = log /\ scene' = scene /\ prev' = prev
      BY <2>4 DEF CatchUp
    <3>2. CaughtUp(world', world, asked)
      BY <1>1, <2>2, <2>4, CatchUpKept
    <3> DEFINE S == StaleEntrants(world)
               n == Cardinality(S)
               c == Cardinality(asked)
    <3>3. StaleEntrants(world') = S \ asked
      BY <1>1, <3>1, <3>2, StillStale
    <3>4. IsFiniteSet(S)
      <4>1. S \subseteq Npcs
        BY <1>1, <3>1 DEF CInv, TurnOK, StaleEntrants, Entrants
      <4> HIDE DEF S
      <4> QED
        BY <4>1, FS_Subset, ChronicleAssumption
    <3>5. asked \subseteq S /\ c = IF n > Budget THEN Budget ELSE n
      BY DEF Asked, kSubset
    <3> HIDE DEF S
    <3>6. n \in Nat /\ Budget \in Nat
      BY <3>4, FS_CardinalityType, ChronicleAssumption
    <3>7. Cardinality(S \ asked) = n - c
      <4>1. S \cap asked = asked
        BY <3>5
      <4> QED
        BY <3>4, <4>1, FS_Difference
    <3> HIDE DEF n, c
    <3>8. n - c <= Max({0, n - Budget})
      <4> DEFINE m == Max({0, n - Budget})
      <4>1. m = IF 0 >= n - Budget THEN 0 ELSE n - Budget
        BY <3>6, MaxOfTwo
      <4> HIDE DEF m
      <4>2. n - c <= m
        BY <3>5, <3>6, <4>1
      <4> QED
        BY <4>2 DEF m
    <3> QED
      BY <3>3, <3>7, <3>8 DEF n, S
  <2> QED
    BY <2>1, <2>3, <2>4
<1>2. CInv /\ [Next]_vars => [A]_vars
  <2>1. UNCHANGED vars => [A]_vars
    OBVIOUS
  <2> QED
    BY <1>1, <2>1
<1> QED
  BY <1>2, ChronicleInvariant, PTL DEF Spec, EntrantsCaughtUp

=============================================================================
