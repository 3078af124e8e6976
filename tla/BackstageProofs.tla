--------------------------- MODULE BackstageProofs ---------------------------
(***************************************************************************)
(* Proofs about the hidden-dice director, the world cascade and the recap: *)
(* directives reach the narrator once and in order, a region put off is    *)
(* walked once, no change spreads further than the limits, and the recap   *)
(* loses no turn and tells none twice.                                     *)
(***************************************************************************)
EXTENDS Backstage, DataLemmas, SequenceTheorems

-----------------------------------------------------------------------------
(* Turn numbers.                                                            *)

LEMMA LatestOf ==
    ASSUME NEW S, S \subseteq Nat, NEW b \in Nat, \A x \in S : x <= b
    PROVE  /\ Latest(S) \in Nat /\ Latest(S) <= b
           /\ Latest(S) = 0 \/ Latest(S) \in S
           /\ \A x \in S : x <= Latest(S)
<1> DEFINE N == {0} \cup S
<1>1. N \in SUBSET Nat /\ N # {} /\ \A x \in N : x <= b
  OBVIOUS
<1>2. Max(N) \in N /\ \A x \in N : x <= Max(N)
  <2> HIDE DEF N
  <2> QED
    BY <1>1, MaxOfBounded
<1>3. Latest(S) = Max(N)
  BY DEF Latest
<1> HIDE DEF Latest
<1> QED
  BY <1>1, <1>2, <1>3

IsEvent(e) == e = Event(e.type, e.turn, e.place, e.n)

\* A history: every turn up to the last has its prose.
Numbered(h) ==
    /\ \A e \in h : IsEvent(e) /\ e.turn \in 1..MaxTurn
    /\ \A t \in 1..Latest(Turns(h)) : \E e \in Of(h, "narration_recorded") : e.turn = t

LEMMA LastTurn ==
    ASSUME NEW h, Numbered(h)
    PROVE  /\ Latest(Turns(h)) \in 0..MaxTurn
           /\ \A e \in h : e.turn \in 1..Latest(Turns(h))
           /\ Turns(h) = 1..Latest(Turns(h))
<1>1. Turns(h) \subseteq 1..MaxTurn
  BY DEF Numbered, Turns
<1>2. /\ Latest(Turns(h)) \in Nat /\ Latest(Turns(h)) <= MaxTurn
      /\ \A t \in Turns(h) : t <= Latest(Turns(h))
  BY <1>1, LatestOf, BackstageAssumption
<1>3. \A t \in 1..Latest(Turns(h)) : t \in Turns(h)
  BY DEF Numbered, Turns, Of
<1>4. Latest(Turns(h)) \in 0..MaxTurn
  BY <1>2, BackstageAssumption
<1>5. \A e \in h : e.turn \in Turns(h)
  BY DEF Turns
<1>6. \A t \in Turns(h) : t \in 1..Latest(Turns(h))
  <2> HIDE DEF Turns
  <2> QED
    BY <1>1, <1>2
<1> QED
  BY <1>3, <1>4, <1>5, <1>6

\* A further turn, told and no later than MaxTurn.
LEMMA NumberedGrows ==
    ASSUME NEW h, Numbered(h), NEW new, NEW turn, turn = Latest(Turns(h)) + 1, turn <= MaxTurn,
           \A e \in new : IsEvent(e) /\ e.turn = turn, Of(new, "narration_recorded") # {}
    PROVE  Numbered(h \cup new) /\ Latest(Turns(h \cup new)) = turn
<1> DEFINE last == Latest(Turns(h))
           g == h \cup new
<1>1. last \in 0..MaxTurn /\ \A e \in h : e.turn \in 1..last
  BY LastTurn
<1>2. turn \in 1..MaxTurn
  BY <1>1, BackstageAssumption
<1>3. Turns(g) \subseteq Nat /\ \A t \in Turns(g) : t <= turn
  <2>1. \A e \in g : e.turn \in Nat /\ e.turn <= turn
    BY <1>1, <1>2
  <2> HIDE DEF g
  <2> QED
    BY <2>1 DEF Turns
<1>4. turn \in Turns(g)
  BY DEF Turns, Of
<1>5. Latest(Turns(g)) = turn
  <2> HIDE DEF g
  <2>1. turn \in Nat
    BY <1>2
  <2>2. Latest(Turns(g)) \in Nat /\ Latest(Turns(g)) <= turn /\ turn <= Latest(Turns(g))
    BY <1>3, <1>4, <2>1, LatestOf
  <2> QED
    BY <2>1, <2>2
<1>6. \A e \in g : IsEvent(e) /\ e.turn \in 1..MaxTurn
  BY <1>2 DEF Numbered
<1>7. \A t \in 1..turn : \E e \in Of(g, "narration_recorded") : e.turn = t
  <2> TAKE t \in 1..turn
  <2>1. CASE t = turn
    BY <2>1 DEF Of
  <2>2. CASE t # turn
    <3>1. t \in 1..last
      BY <1>1, <2>2
    <3> QED
      BY <3>1 DEF Numbered, Of
  <2> QED
    BY <2>1, <2>2
<1> QED
  BY <1>5, <1>6, <1>7 DEF Numbered

LEMMA NumberedShrinks ==
    ASSUME NEW h, Numbered(h), NEW turn \in Turns(h)
    PROVE  LET g == {e \in h : e.turn < turn}
           IN  Numbered(g) /\ Latest(Turns(g)) = turn - 1
<1> DEFINE last == Latest(Turns(h))
           g == {e \in h : e.turn < turn}
<1>1. /\ last \in 0..MaxTurn /\ \A e \in h : e.turn \in 1..last
      /\ turn \in 1..last
  BY LastTurn
<1>2. Turns(g) \subseteq Nat /\ \A t \in Turns(g) : t <= turn - 1
  BY <1>1 DEF Turns
<1>3. \A t \in 1..(turn - 1) : \E e \in Of(g, "narration_recorded") : e.turn = t
  <2> TAKE t \in 1..(turn - 1)
  <2>1. t \in 1..last /\ t < turn
    BY <1>1
  <2> QED
    BY <2>1 DEF Numbered, Of
<1>4. Latest(Turns(g)) = turn - 1
  <2>1. turn - 1 \in Nat
    BY <1>1
  <2>2. turn - 1 > 0 => turn - 1 \in Turns(g)
    BY <1>3, <2>1 DEF Of, Turns
  <2> HIDE DEF g
  <2>3. /\ Latest(Turns(g)) \in Nat /\ Latest(Turns(g)) <= turn - 1
        /\ \A t \in Turns(g) : t <= Latest(Turns(g))
    BY <1>2, <2>1, LatestOf
  <2> QED
    BY <2>1, <2>2, <2>3
<1>5. \A e \in g : IsEvent(e) /\ e.turn \in 1..MaxTurn
  BY DEF Numbered
<1> QED
  BY <1>3, <1>4, <1>5 DEF Numbered
-----------------------------------------------------------------------------
(* What a hook adds to the turn.                                            *)

\* Events of the given types.
Made(events, types) == \A e \in events : IsEvent(e) /\ e.type \in types

\* The hook adds events of these types, and nothing else.
Adds(types) == \E events : Made(events, types) /\ Stage(events)

DigestTypes == {"scene_summarized", "recap_recompressed"}
DirectorTypes == {"directive_consumed", "director_fired", "thread_open"}
QueueTypes == {"deferred", "drained", "watermark", "hop", "place_evolved"}

LEMMA DigestMade ==
    ASSUME NEW history, NEW turn, NEW events \in Digests(history, turn)
    PROVE  Made(events, DigestTypes)
  BY DEF Digests, Made, DigestTypes, IsEvent, Event

LEMMA DirectedMade ==
    ASSUME NEW history, NEW turn, NEW out
    PROVE  Made(Directed(history, turn, out), DirectorTypes)
<1>1. Made(Consumption(history), DirectorTypes)
  BY DEF Consumption, Made, DirectorTypes, IsEvent, Event
<1>2. Made(Dormant(history, turn), DirectorTypes)
  BY DEF Dormant, Made, DirectorTypes, IsEvent, Event
<1>3. Made({Event("director_fired", turn, NoPlace, 0)}, DirectorTypes)
  BY DEF Made, DirectorTypes, IsEvent, Event
<1> QED
  BY <1>1, <1>2, <1>3 DEF Directed, Made

LEMMA HopsMade ==
    ASSUME NEW w, NEW scene, NEW turn
    PROVE  Made(Hops(w, scene, turn), {"hop", "deferred"})
  BY DEF Hops, Made, IsEvent, Event

LEMMA EvolvedMade ==
    ASSUME NEW w, NEW verdict, NEW turn
    PROVE  Made(Evolved(w, verdict, turn), {"place_evolved"})
  BY DEF Evolved, Made, IsEvent, Event

LEMMA WatermarkMade ==
    ASSUME NEW history, NEW turn
    PROVE  Made(Watermark(history, turn), {"watermark"})
  BY DEF Watermark, Made, IsEvent, Event

\* A stamped event is the event, of the turn.
LEMMA Stamped ==
    ASSUME NEW type, NEW built, NEW place, NEW n, NEW turn
    PROVE  Stamp(Event(type, built, place, n), turn) = Event(type, turn, place, n)
  BY DEF Stamp, Event

LEMMA StampedEvent ==
    ASSUME NEW e, IsEvent(e), NEW turn
    PROVE  LET s == Stamp(e, turn)
           IN  IsEvent(s) /\ s.turn = turn /\ s.type = e.type /\ s.place = e.place /\ s.n = e.n
<1>1. Stamp(e, turn) = Event(e.type, turn, e.place, e.n)
  BY Stamped DEF IsEvent
<1> QED
  BY <1>1 DEF IsEvent, Event

\* What adding events does to the events of one type.
LEMMA AddsOther ==
    ASSUME NEW types, Adds(types), NEW type, type \notin types
    PROVE  Of(staged', type) = Of(staged, type)
<1>1. PICK events : Made(events, types) /\ staged' = staged \cup {Stamp(e, Turn) : e \in events}
  BY DEF Adds, Stage
<1>2. \A e \in events : Stamp(e, Turn).type \in types
  BY <1>1, StampedEvent DEF Made
<1> QED
  BY <1>1, <1>2 DEF Of

LEMMA AddsEvents ==
    ASSUME NEW types, Adds(types)
    PROVE  /\ staged \subseteq staged'
           /\ \A e \in staged' \ staged : IsEvent(e) /\ e.turn = Turn /\ e.type \in types
<1>1. PICK events : Made(events, types) /\ staged' = staged \cup {Stamp(e, Turn) : e \in events}
  BY DEF Adds, Stage
<1>2. \A e \in events : /\ IsEvent(Stamp(e, Turn))
                        /\ Stamp(e, Turn).turn = Turn
                        /\ Stamp(e, Turn).type \in types
  BY <1>1, StampedEvent DEF Made
<1> QED
  BY <1>1, <1>2

-----------------------------------------------------------------------------
(* The shape of a turn.                                                     *)

\* The events of a turn being prepared: its prose, which remembers the directive
\* the narrator was shown, and its clock.
Told(events) ==
    /\ \A e \in events : IsEvent(e) /\ e.turn = Turn
    /\ \A e \in Of(events, "narration_recorded") : e.n = Inject(log)
    /\ Of(events, "narration_recorded") # {}
    /\ Of(events, "clock_advanced") # {}

Preparing == {"digest", "direct", "cascade", "drain", "descend", "publish"}

Shape ==
    /\ pc \in {"idle"} \cup Preparing
    /\ Numbered(log)
    /\ pc = "idle" => staged = {}
    /\ pc # "idle" => Turn <= MaxTurn /\ Told(staged)
    /\ pc \in {"drain", "descend"} => Told(mark)

\* A turn under way goes on: its history stands and its events grow.
GoesOn(types) ==
    /\ UNCHANGED log
    /\ pc \in Preparing /\ pc' \in Preparing
    /\ Adds(types)

LEMMA GoesOnTold ==
    ASSUME NEW types, GoesOn(types), "narration_recorded" \notin types, Shape
    PROVE  Told(staged)'
<1>1. Turn' = Turn /\ Inject(log') = Inject(log)
  BY DEF GoesOn, Turn
<1>2. Told(staged)
  BY DEF Shape, GoesOn, Preparing
<1>3. \A e \in staged' : IsEvent(e) /\ e.turn = Turn
  BY <1>2, AddsEvents DEF Told, GoesOn
<1>4. Of(staged', "narration_recorded") = Of(staged, "narration_recorded")
  BY AddsOther DEF GoesOn
<1>5. Of(staged', "clock_advanced") # {}
  BY <1>2, AddsEvents DEF Told, GoesOn, Of
<1> QED
  BY <1>1, <1>2, <1>3, <1>4, <1>5 DEF Told

\* The steps of a turn under way, and the types of event each adds.
LEMMA HookSteps ==
    ASSUME Next
    PROVE  \/ \E areas \in Declarations : Narrate(areas)
           \/ GoesOn(DigestTypes) /\ pc = "digest" /\ pc' = "direct" /\ UNCHANGED cascadeVars
           \/ \E out \in Outcomes : Direct(out)
           \/ DirectorFails
           \/ BeginCascade
           \/ NothingToCascade
           \/ \E e \in drain : DrainRegion(e)
           \/ AskLevel
           \/ BeginDescent
           \/ EndCascade
           \/ CascadeFails
           \/ \E moved \in BOOLEAN : Publish(moved)
           \/ Drop
           \/ \E turn \in Turns(log) : Rewind(turn)
<1>1. ASSUME NEW events \in Digests(Seen, Turn), Digest(events)
      PROVE  GoesOn(DigestTypes) /\ pc = "digest" /\ pc' = "direct" /\ UNCHANGED cascadeVars
  BY <1>1, DigestMade DEF Digest, GoesOn, Adds, Preparing
<1>2. ASSUME NEW turn, Rewind(turn) PROVE turn \in Turns(log)
  BY <1>2 DEF Rewind
<1> QED
  BY <1>1, <1>2 DEF Next

LEMMA CascadeSteps ==
    /\ \A out : Direct(out) => GoesOn(DirectorTypes) /\ UNCHANGED cascadeVars
    /\ \A e : DrainRegion(e) => GoesOn({"drained", "hop", "deferred"}) /\ UNCHANGED mark
    /\ AskLevel => GoesOn({"place_evolved"}) /\ UNCHANGED mark
    /\ BeginDescent => GoesOn({"watermark", "hop", "deferred"}) /\ UNCHANGED mark
    /\ EndCascade => GoesOn({"hop", "deferred"})
<1>1. ASSUME NEW out, Direct(out) PROVE GoesOn(DirectorTypes) /\ UNCHANGED cascadeVars
  BY <1>1, DirectedMade DEF Direct, GoesOn, Adds, Preparing
<1>2. ASSUME NEW e, DrainRegion(e) PROVE GoesOn({"drained", "hop", "deferred"}) /\ UNCHANGED mark
  <2> DEFINE events == {Event("drained", Turn, e.place, e.turn)} \cup Hops(walk, Scene, Turn)
  <2>1. Made({Event("drained", Turn, e.place, e.turn)}, {"drained"})
    BY DEF Made, IsEvent, Event
  <2>2. Made(events, {"drained", "hop", "deferred"})
    BY <2>1, HopsMade DEF Made
  <2>3. Stage(events) /\ UNCHANGED log /\ pc' = pc /\ pc = "drain" /\ UNCHANGED mark
    BY <1>2 DEF DrainRegion
  <2> QED
    BY <2>2, <2>3 DEF GoesOn, Adds, Preparing
<1>3. ASSUME AskLevel PROVE GoesOn({"place_evolved"}) /\ UNCHANGED mark
  <2>1. PICK verdict : Stage(Evolved(walk, verdict, Turn))
    BY <1>3 DEF AskLevel
  <2>2. UNCHANGED log /\ pc' = pc /\ pc \in {"drain", "descend"} /\ UNCHANGED mark
    BY <1>3 DEF AskLevel
  <2> QED
    BY <2>1, <2>2, EvolvedMade DEF GoesOn, Adds, Preparing
<1>4. ASSUME BeginDescent PROVE GoesOn({"watermark", "hop", "deferred"}) /\ UNCHANGED mark
  <2> DEFINE events == Hops(walk, Scene, Turn) \cup Watermark(Seen, Turn)
  <2>1. Made(events, {"watermark", "hop", "deferred"})
    BY HopsMade, WatermarkMade DEF Made
  <2>2. Stage(events) /\ UNCHANGED log /\ pc' = "descend" /\ pc = "drain" /\ UNCHANGED mark
    BY <1>4 DEF BeginDescent
  <2> QED
    BY <2>1, <2>2 DEF GoesOn, Adds, Preparing
<1>5. ASSUME EndCascade PROVE GoesOn({"hop", "deferred"})
  BY <1>5, HopsMade DEF EndCascade, GoesOn, Adds, Preparing
<1> QED
  BY <1>1, <1>2, <1>3, <1>4, <1>5

\* Told is about the history too, which nothing but the end of a turn changes.
LEMMA ToldStays ==
    ASSUME UNCHANGED log, Told(staged), staged' = staged
    PROVE  Told(staged)'
  BY DEF Told, Turn

LEMMA ShapeInit == ASSUME Init PROVE Shape
<1>1. Turns(log) = {} /\ log = {} /\ staged = {} /\ pc = "idle"
  BY DEF Init, Turns
<1>2. Latest({}) = 0
  <2>1. \A x \in {} : x <= 0
    OBVIOUS
  <2>2. {} \subseteq Nat /\ 0 \in Nat
    OBVIOUS
  <2> QED
    BY <2>1, <2>2, LatestOf
<1>3. Numbered(log)
  BY <1>1, <1>2 DEF Numbered
<1> QED
  BY <1>1, <1>3 DEF Shape

\* What the narrator's commit adds.
LEMMA NarrateTells ==
    ASSUME Shape, NEW areas, Narrate(areas)
    PROVE  /\ staged' = {Event("clock_advanced", Turn, NoPlace, 0),
                         Event("narration_recorded", Turn, Scene, Inject(log))}
                        \cup {Event("declared", Turn, p, 0) : p \in areas}
           /\ Turn' = Turn /\ Turn <= MaxTurn /\ UNCHANGED log
           /\ Told(staged)'
           /\ pc = "idle" /\ pc' = "digest" /\ UNCHANGED cascadeVars
<1> DEFINE events == {Event("clock_advanced", Turn, NoPlace, 0),
                      Event("narration_recorded", Turn, Scene, Inject(log))}
                     \cup {Event("declared", Turn, p, 0) : p \in areas}
<1>1. /\ staged = {} /\ Stage(events) /\ Turn <= MaxTurn /\ UNCHANGED <<log, cascadeVars>>
      /\ pc = "idle" /\ pc' = "digest"
  BY DEF Narrate, Shape
<1>2. \A e \in events : IsEvent(e) /\ e.turn = Turn
  BY DEF IsEvent, Event
<1>3. \A e \in events : Stamp(e, Turn) = e
  BY <1>2, Stamped DEF IsEvent
<1>4. staged' = events
  BY <1>1, <1>3 DEF Stage
<1>5. Turn' = Turn /\ Inject(log') = Inject(log)
  BY <1>1 DEF Turn
<1>6. \A e \in Of(events, "narration_recorded") : e.n = Inject(log)
  <2>1. \A p \in areas : Event("declared", Turn, p, 0).type = "declared"
    BY DEF Event
  <2>2. Event("clock_advanced", Turn, NoPlace, 0).type = "clock_advanced"
    BY DEF Event
  <2>3. Event("narration_recorded", Turn, Scene, Inject(log)).n = Inject(log)
    BY DEF Event
  <2>4. "declared" # "narration_recorded" /\ "clock_advanced" # "narration_recorded"
    OBVIOUS
  <2> QED
    BY <2>1, <2>2, <2>3, <2>4 DEF Of
<1>7. Of(events, "narration_recorded") # {} /\ Of(events, "clock_advanced") # {}
  <2>1. /\ Event("clock_advanced", Turn, NoPlace, 0).type = "clock_advanced"
        /\ Event("narration_recorded", Turn, Scene, Inject(log)).type = "narration_recorded"
    BY DEF Event
  <2> QED
    BY <2>1 DEF Of
<1>8. Told(staged)'
  <2> HIDE DEF events
  <2> QED
    BY <1>2, <1>4, <1>5, <1>6, <1>7 DEF Told
<1> QED
  BY <1>1, <1>4, <1>5, <1>8

\* What a publication adds to the history: the whole turn, and it is the next one.
LEMMA PublishGrows ==
    ASSUME Shape, NEW moved \in BOOLEAN, Publish(moved)
    PROVE  /\ \E rest : /\ log' = log \cup staged \cup rest
                        /\ \A e \in rest : IsEvent(e) /\ e.turn = Turn /\ e.type = "scene_advanced"
           /\ Numbered(log')
           /\ Latest(Turns(log')) = Turn
           /\ pc = "publish" /\ pc' = "idle" /\ staged' = {}
<1> DEFINE end == IF moved THEN {Event("scene_advanced", Turn, NoPlace, Scene + 1)} ELSE {}
<1>1. /\ log' = log \cup staged \cup end /\ pc = "publish" /\ pc' = "idle" /\ staged' = {}
  BY DEF Publish, EndTurn, Seen
<1>2. \A e \in end : IsEvent(e) /\ e.turn = Turn /\ e.type = "scene_advanced"
  BY DEF IsEvent, Event
<1>3. Told(staged) /\ Turn <= MaxTurn /\ Numbered(log)
  BY <1>1 DEF Shape
<1> DEFINE new == staged \cup end
<1>4. /\ \A e \in new : IsEvent(e) /\ e.turn = Turn
      /\ Of(new, "narration_recorded") # {}
  BY <1>2, <1>3 DEF Told, Of
<1>5. Numbered(log \cup new) /\ Latest(Turns(log \cup new)) = Turn
  <2> HIDE DEF new
  <2> QED
    BY <1>3, <1>4, NumberedGrows DEF Turn
<1>6. log \cup new = log'
  BY <1>1
<1> HIDE DEF end
<1>7. \E rest : /\ log' = log \cup staged \cup rest
               /\ \A e \in rest : IsEvent(e) /\ e.turn = Turn /\ e.type = "scene_advanced"
  BY <1>1, <1>2
<1> HIDE DEF new
<1> QED
  BY <1>1, <1>5, <1>6, <1>7

LEMMA ShapeKept == ASSUME Shape, [Next]_vars PROVE Shape'
<1>1. CASE UNCHANGED vars
  <2>1. Turn' = Turn
    BY <1>1 DEF vars, Turn
  <2> QED
    BY <1>1, <2>1 DEF vars, cascadeVars, Shape, Told
<1>2. ASSUME NEW types, GoesOn(types), "narration_recorded" \notin types,
             pc' \in {"drain", "descend"} =>
                 (pc \in {"drain", "descend"} /\ mark' = mark)
      PROVE  Shape'
  <2>1. Told(staged)'
    BY <1>2, GoesOnTold
  <2>2. UNCHANGED log /\ pc \in Preparing /\ pc' \in Preparing
    BY <1>2 DEF GoesOn
  <2>3. Turn' = Turn /\ Turn <= MaxTurn /\ pc' # "idle"
    BY <2>2 DEF Turn, Shape, Preparing
  <2>4. pc' \in {"drain", "descend"} => Told(mark)'
    BY <1>2, <2>2, <2>3 DEF Shape, Told
  <2> QED
    BY <2>1, <2>2, <2>3, <2>4 DEF Shape
<1>3. ASSUME NEW areas, Narrate(areas) PROVE Shape'
  BY <1>3, NarrateTells DEF Shape, Preparing
<1>4. ASSUME UNCHANGED <<log, staged>>, pc \in Preparing, pc' \in Preparing,
             pc' \in {"drain", "descend"} => mark' = staged
      PROVE  Shape'
  <2>1. Turn' = Turn /\ Turn <= MaxTurn /\ Told(staged) /\ pc' # "idle"
    BY <1>4 DEF Turn, Shape, Preparing
  <2>2. Told(staged)' /\ (pc' \in {"drain", "descend"} => Told(mark)')
    BY <1>4, <2>1 DEF Told
  <2> QED
    BY <1>4, <2>1, <2>2 DEF Shape
<1>5. CASE CascadeFails
  <2>1. /\ UNCHANGED log /\ staged' = mark /\ pc \in {"drain", "descend"} /\ pc' = "publish"
    BY <1>5 DEF CascadeFails
  <2>2. Turn' = Turn /\ Turn <= MaxTurn /\ Told(mark)
    BY <2>1 DEF Turn, Shape
  <2>3. Told(staged)'
    BY <2>1, <2>2 DEF Told
  <2> QED
    BY <2>1, <2>2, <2>3 DEF Shape, Preparing
<1>6. ASSUME NEW moved \in BOOLEAN, Publish(moved) PROVE Shape'
  BY <1>6, PublishGrows DEF Shape
<1>7. CASE Drop
  BY <1>7 DEF Drop, EndTurn, Shape
<1>8. ASSUME NEW turn \in Turns(log), Rewind(turn) PROVE Shape'
  <2>1. Numbered({e \in log : e.turn < turn})
    BY NumberedShrinks DEF Shape
  <2> QED
    BY <1>8, <2>1 DEF Rewind, Shape
<1>9. CASE Next
  <2>1. ASSUME NEW out, Direct(out) PROVE Shape'
    <3>1. GoesOn(DirectorTypes) /\ pc' = "cascade"
      BY <2>1, CascadeSteps DEF Direct
    <3> QED
      BY <1>2, <3>1 DEF DirectorTypes
  <2>2. ASSUME NEW e, DrainRegion(e) PROVE Shape'
    <3>1. GoesOn({"drained", "hop", "deferred"}) /\ mark' = mark /\ pc' = "drain" /\ pc = "drain"
      BY <2>2, CascadeSteps DEF DrainRegion
    <3> QED
      BY <1>2, <3>1
  <2>3. CASE AskLevel
    <3>1. GoesOn({"place_evolved"}) /\ mark' = mark /\ pc' = pc /\ pc \in {"drain", "descend"}
      BY <2>3, CascadeSteps DEF AskLevel
    <3> QED
      BY <1>2, <3>1
  <2>4. CASE BeginDescent
    <3>1. GoesOn({"watermark", "hop", "deferred"}) /\ mark' = mark /\ pc = "drain"
      BY <2>4, CascadeSteps DEF BeginDescent
    <3> QED
      BY <1>2, <3>1
  <2>5. CASE EndCascade
    <3>1. GoesOn({"hop", "deferred"}) /\ pc' = "publish"
      BY <2>5, CascadeSteps DEF EndCascade
    <3> QED
      BY <1>2, <3>1
  <2>6. CASE GoesOn(DigestTypes) /\ pc = "digest" /\ pc' = "direct" /\ UNCHANGED cascadeVars
    BY <1>2, <2>6 DEF DigestTypes
  <2>7. CASE DirectorFails
    BY <1>4, <2>7 DEF DirectorFails, Preparing
  <2>8. CASE BeginCascade
    BY <1>4, <2>8 DEF BeginCascade, Preparing
  <2>9. CASE NothingToCascade
    BY <1>4, <2>9 DEF NothingToCascade, Preparing
  <2> QED
    BY <1>3, <1>5, <1>6, <1>7, <1>8, <1>9, <2>1, <2>2, <2>3, <2>4, <2>5, <2>6, <2>7, <2>8, <2>9,
       HookSteps
<1> QED
  BY <1>1, <1>9
-----------------------------------------------------------------------------
(* The director's mailbox.                                                  *)

Consumed(h) == Of(h, "directive_consumed")

\* The turns of h whose narrator was shown the directive fired in turn t.
Receivers(h, t) == {e.turn : e \in {d \in Of(h, "narration_recorded") : d.n = t}}

\* What h says of the directives: one is consumed in a later turn than it was fired
\* in, and before or when the next is fired; two turns in a row fire none; and each
\* reaches the narrator of the next turn.
Mail(h) ==
    /\ \A c \in Consumed(h) : c.n \in Fires(h) /\ c.n < c.turn
    /\ \A f, g \in Fires(h) : g < f => \E c \in Consumed(h) : c.turn = f /\ g <= c.n
    /\ \A t \in Fires(h) : t + 1 \notin Fires(h)
    /\ \A e \in Of(h, "narration_recorded") : e.n \in Nat /\ e.n < e.turn
    /\ \A t \in Fires(h) :
        /\ t < Latest(Turns(h)) => t + 1 \in Receivers(h, t)
        /\ \A u \in Receivers(h, t) :
            /\ t < u
            /\ \A c \in Consumed(h) : t <= c.n => u <= c.turn

\* What the turn being prepared says of them.
Handled(events) ==
    /\ \A c \in Consumed(events) : c.n \in Fires(log) /\ \A g \in Fires(log) : g <= c.n
    /\ Fires(events) # {} =>
        /\ Fires(log) # {} => Consumed(events) # {}
        /\ \A g \in Fires(log) : g < Turn - 1

LEMMA FiresAre ==
    ASSUME NEW h, Numbered(h)
    PROVE  \A t \in Fires(h) : /\ t \in 1..Latest(Turns(h))
                             /\ \E e \in h : e.turn = t /\ e.type = "director_fired"
  BY LastTurn DEF Fires, Turns, Of

\* At most one directive of a history waits, and it is the one the narrator sees.
LEMMA Waiting ==
    ASSUME NEW h, Numbered(h), Mail(h)
    PROVE  /\ ConsumedThrough(h) \in Nat /\ \A c \in Consumed(h) : c.n <= ConsumedThrough(h)
           /\ \A x, y \in Unshown(h) : x = y
           /\ Inject(h) \in 0..Latest(Turns(h))
           /\ Inject(h) # 0 => Inject(h) \in Unshown(h)
           /\ Unshown(h) # {} => Inject(h) \in Unshown(h)
<1> DEFINE last == Latest(Turns(h))
<1>1. last \in 0..MaxTurn /\ last \in Nat
  BY LastTurn, BackstageAssumption
<1>2. Fires(h) \subseteq 1..last
  BY FiresAre
<1> DEFINE C == {e.n : e \in Consumed(h)}
<1>3. C \subseteq Nat /\ \A x \in C : x <= last
  <2> HIDE DEF last
  <2> QED
    BY <1>1, <1>2 DEF Mail
<1>4. /\ ConsumedThrough(h) \in Nat /\ \A c \in C : c <= ConsumedThrough(h)
      /\ ConsumedThrough(h) = Latest(C)
  <2>1. ConsumedThrough(h) = Latest(C)
    BY DEF ConsumedThrough, Consumed
  <2> HIDE DEF C, last
  <2> QED
    BY <1>1, <1>3, <2>1, LatestOf
<1>5. \A x, y \in Unshown(h) : ~(x < y)
  <2> SUFFICES ASSUME NEW x \in Unshown(h), NEW y \in Unshown(h), x < y PROVE FALSE
    OBVIOUS
  <2>1. x \in Fires(h) /\ y \in Fires(h) /\ x > ConsumedThrough(h)
    BY DEF Unshown
  <2>2. PICK c \in Consumed(h) : x <= c.n
    BY <2>1 DEF Mail
  <2>3. c.n \in C
    BY <2>2
  <2>4. c.n \in Nat /\ x \in Nat /\ c.n <= ConsumedThrough(h)
    BY <1>1, <1>2, <1>3, <1>4, <2>1, <2>3
  <2> QED
    BY <1>4, <2>1, <2>2, <2>4
<1>6. Unshown(h) \subseteq Nat /\ \A x \in Unshown(h) : x <= last /\ x > 0
  BY <1>1, <1>2 DEF Unshown
<1>7. \A x, y \in Unshown(h) : x = y
  BY <1>5, <1>6
<1>8. /\ Inject(h) \in Nat /\ Inject(h) <= last /\ (Inject(h) = 0 \/ Inject(h) \in Unshown(h))
      /\ \A x \in Unshown(h) : x <= Inject(h)
  <2> HIDE DEF last
  <2> QED
    BY <1>1, <1>6, LatestOf DEF Inject
<1>9. Unshown(h) # {} => Inject(h) # 0
  BY <1>6, <1>8
<1> QED
  BY <1>1, <1>4, <1>7, <1>8, <1>9
\* A turn that handled its mail joins the history, with what else it did.
LEMMA MailGrows ==
    ASSUME Numbered(log), Turn <= MaxTurn, Mail(log), NEW new, NEW events, events \subseteq new,
           Told(events), Handled(events),
           \A e \in new \ events : IsEvent(e) /\ e.turn = Turn /\ e.type = "scene_advanced"
    PROVE  Numbered(log \cup new) /\ Latest(Turns(log \cup new)) = Turn /\ Mail(log \cup new)
<1> DEFINE h == log \cup new
           last == Latest(Turns(log))
<1>1. /\ Consumed(new) = Consumed(events) /\ Fires(new) = Fires(events)
      /\ Of(new, "narration_recorded") = Of(events, "narration_recorded")
  <2>1. \A type : type # "scene_advanced" => Of(new, type) = Of(events, type)
    BY DEF Of
  <2> QED
    BY <2>1 DEF Consumed, Fires
<1>2. \A e \in new : IsEvent(e) /\ e.turn = Turn
  BY DEF Told
<1>3. /\ Handled(new) /\ Of(new, "narration_recorded") # {}
      /\ \A e \in Of(new, "narration_recorded") : e.n = Inject(log)
  BY <1>1 DEF Handled, Told
<1>4. Numbered(h) /\ Latest(Turns(h)) = Turn
  BY <1>2, <1>3, NumberedGrows DEF Turn
<1>5. /\ last \in 0..MaxTurn /\ Turn = last + 1 /\ Turn \in 1..MaxTurn
      /\ \A e \in log : e.turn \in 1..last
  BY LastTurn, BackstageAssumption DEF Turn
<1>6. /\ Fires(h) = Fires(log) \cup Fires(new)
      /\ \A t \in Fires(log) : t \in 1..last
      /\ \A t \in Fires(new) : t = Turn
  BY <1>2, FiresAre DEF Fires, Turns, Of
<1>7. /\ Consumed(h) = Consumed(log) \cup Consumed(new)
      /\ \A c \in Consumed(log) : c.turn \in 1..last /\ c.n \in 1..last
      /\ \A c \in Consumed(new) : c.turn = Turn /\ c.n \in 1..last
  BY <1>2, <1>3, <1>5, <1>6 DEF Consumed, Of, Mail, Handled
<1>8. /\ \A t : Receivers(h, t) = Receivers(log, t) \cup Receivers(new, t)
      /\ \A t : \A u \in Receivers(new, t) : u = Turn /\ t = Inject(log)
      /\ \A t : \A u \in Receivers(log, t) : u \in 1..last
      /\ Turn \in Receivers(new, Inject(log))
  BY <1>2, <1>3, <1>5 DEF Receivers, Of
<1>9. /\ ConsumedThrough(log) \in Nat /\ \A c \in Consumed(log) : c.n <= ConsumedThrough(log)
      /\ Inject(log) \in 0..last
      /\ Inject(log) # 0 => Inject(log) \in Unshown(log)
      /\ Unshown(log) # {} => Inject(log) \in Unshown(log)
      /\ \A x, y \in Unshown(log) : x = y
  BY Waiting
<1> HIDE DEF h
<1>10. \A c \in Consumed(h) : c.n \in Fires(h) /\ c.n < c.turn
  BY <1>5, <1>6, <1>7, <1>3 DEF Mail, Handled
<1>11. \A f, g \in Fires(h) : g < f => \E c \in Consumed(h) : c.turn = f /\ g <= c.n
  <2> SUFFICES ASSUME NEW f \in Fires(h), NEW g \in Fires(h), g < f
               PROVE  \E c \in Consumed(h) : c.turn = f /\ g <= c.n
    OBVIOUS
  <2>1. CASE f \in Fires(log)
    <3>1. g \in Fires(log)
      BY <1>5, <1>6, <2>1
    <3> QED
      BY <1>7, <2>1, <3>1 DEF Mail
  <2>2. CASE f \in Fires(new)
    <3>1. g \in Fires(log) /\ f = Turn
      BY <1>5, <1>6, <2>2
    <3>2. PICK c \in Consumed(new) : g <= c.n
      BY <1>3, <2>2, <3>1 DEF Handled
    <3> QED
      BY <1>7, <3>1, <3>2
  <2> QED
    BY <1>6, <2>1, <2>2
<1>12. \A t \in Fires(h) : t + 1 \notin Fires(h)
  <2> SUFFICES ASSUME NEW t \in Fires(h), t + 1 \in Fires(h) PROVE FALSE
    OBVIOUS
  <2>1. t \in Fires(log)
    BY <1>5, <1>6
  <2>2. t + 1 \in Fires(new)
    BY <1>6, <2>1 DEF Mail
  <2>3. t < Turn - 1 /\ t + 1 = Turn
    BY <1>3, <1>6, <2>1, <2>2 DEF Handled
  <2> QED
    BY <1>5, <1>6, <2>1, <2>3
<1>13. \A e \in Of(h, "narration_recorded") : e.n \in Nat /\ e.n < e.turn
  <2>1. \A e \in Of(new, "narration_recorded") : e.n \in Nat /\ e.n < e.turn
    BY <1>2, <1>3, <1>5, <1>9 DEF Of
  <2> QED
    BY <2>1 DEF Mail, Of, h
<1>14. ASSUME NEW t \in Fires(h), t < Turn PROVE t + 1 \in Receivers(h, t)
  <2>1. t \in Fires(log) /\ t \in 1..last
    BY <1>5, <1>6, <1>14
  <2>2. CASE t < last
    BY <1>8, <2>1, <2>2 DEF Mail
  <2>3. CASE t = last
    <3>1. \A c \in Consumed(log) : c.n < t
      BY <1>5, <1>7, <2>3 DEF Mail
    <3>2. ConsumedThrough(log) < t
      <4>1. ConsumedThrough(log) = 0 \/ \E c \in Consumed(log) : c.n = ConsumedThrough(log)
        <5> DEFINE C == {e.n : e \in Consumed(log)}
        <5>1. C \subseteq Nat /\ (\A x \in C : x <= last) /\ last \in Nat
          BY <1>5, <1>7
        <5>2. ConsumedThrough(log) = Latest(C)
          BY DEF ConsumedThrough, Consumed
        <5>3. Latest(C) = 0 \/ Latest(C) \in C
          <6> HIDE DEF C, last
          <6> QED
            BY <5>1, LatestOf
        <5> QED
          BY <5>2, <5>3
      <4> QED
        BY <2>1, <3>1, <4>1
    <3>3. t \in Unshown(log)
      BY <1>9, <2>1, <3>2 DEF Unshown
    <3>4. Inject(log) = t
      BY <1>9, <3>3
    <3> QED
      BY <1>5, <1>8, <2>3, <3>4
  <2> QED
    BY <1>5, <2>1, <2>2, <2>3
<1>15. ASSUME NEW t \in Fires(h), NEW u \in Receivers(h, t)
       PROVE  t < u /\ \A c \in Consumed(h) : t <= c.n => u <= c.turn
  <2>1. CASE u \in Receivers(log, t)
    <3>1. PICK e \in Of(log, "narration_recorded") : e.n = t /\ e.turn = u
      BY <2>1 DEF Receivers
    <3>2. t < u /\ u \in 1..last
      BY <1>8, <2>1, <3>1 DEF Mail
    <3>3. t \in Fires(log)
      BY <1>5, <1>6, <3>2
    <3>4. \A c \in Consumed(log) : t <= c.n => u <= c.turn
      BY <2>1, <3>3 DEF Mail
    <3>5. \A c \in Consumed(new) : u <= c.turn
      BY <1>5, <1>7, <3>2
    <3> QED
      BY <1>7, <3>2, <3>4, <3>5
  <2>2. CASE u \in Receivers(new, t)
    <3>1. u = Turn /\ t = Inject(log) /\ t \in 0..last
      BY <1>8, <1>9, <2>2
    <3>2. t \in Nat \ {0}
      BY <1>5, <1>6, <3>1
    <3>3. t > ConsumedThrough(log)
      BY <1>9, <3>1, <3>2 DEF Unshown
    <3>4. \A c \in Consumed(log) : ~(t <= c.n)
      BY <1>7, <1>9, <3>2, <3>3
    <3>5. \A c \in Consumed(new) : u <= c.turn
      BY <1>5, <1>7, <3>1
    <3> QED
      BY <1>5, <1>7, <3>1, <3>4, <3>5
  <2> QED
    BY <1>8, <2>1, <2>2
<1>16. Mail(h)
  BY <1>4, <1>10, <1>11, <1>12, <1>13, <1>14, <1>15 DEF Mail
<1> QED
  BY <1>4, <1>16 DEF h

LEMMA MailShrinks ==
    ASSUME NEW h, Numbered(h), Mail(h), NEW turn \in Turns(h)
    PROVE  Mail({e \in h : e.turn < turn})
<1> DEFINE g == {e \in h : e.turn < turn}
           last == Latest(Turns(h))
<1>1. /\ last \in 0..MaxTurn /\ (\A e \in h : e.turn \in 1..last) /\ turn \in 1..last
  BY LastTurn
<1>2. Latest(Turns(g)) = turn - 1
  BY NumberedShrinks
<1>3. /\ \A t : t \in Fires(g) <=> t \in Fires(h) /\ t < turn
      /\ \A c : c \in Consumed(g) <=> c \in Consumed(h) /\ c.turn < turn
      /\ \A c \in Consumed(h) : c.turn \in 1..last
      /\ \A t \in Fires(h) : t \in 1..last
      /\ \A t, u : u \in Receivers(g, t) <=> u \in Receivers(h, t) /\ u < turn
      /\ \A t : \A u \in Receivers(h, t) : u \in 1..last
      /\ \A e : e \in Of(g, "narration_recorded") => e \in Of(h, "narration_recorded")
  <2>1. /\ \A t : t \in Fires(g) <=> t \in Fires(h) /\ t < turn
        /\ \A c : c \in Consumed(g) <=> c \in Consumed(h) /\ c.turn < turn
        /\ \A e : e \in Of(g, "narration_recorded") => e \in Of(h, "narration_recorded")
    BY DEF Fires, Turns, Of, Consumed
  <2>2. /\ \A c \in Consumed(h) : c.turn \in 1..last
        /\ \A t \in Fires(h) : t \in 1..last
    BY <1>1, FiresAre DEF Consumed, Of
  <2>3. /\ \A t, u : u \in Receivers(g, t) <=> u \in Receivers(h, t) /\ u < turn
        /\ \A t : \A u \in Receivers(h, t) : u \in 1..last
    BY <1>1 DEF Receivers, Of
  <2> QED
    BY <2>1, <2>2, <2>3
<1> HIDE DEF g
<1>4. \A c \in Consumed(g) : c.n \in Fires(g) /\ c.n < c.turn
  BY <1>1, <1>3 DEF Mail
<1>5. \A f, x \in Fires(g) : x < f => \E c \in Consumed(g) : c.turn = f /\ x <= c.n
  BY <1>3 DEF Mail
<1>6. \A t \in Fires(g) : t + 1 \notin Fires(g)
  BY <1>3 DEF Mail
<1>7. \A e \in Of(g, "narration_recorded") : e.n \in Nat /\ e.n < e.turn
  BY <1>3 DEF Mail
<1>8. ASSUME NEW t \in Fires(g)
      PROVE  /\ t < turn - 1 => t + 1 \in Receivers(g, t)
             /\ \A u \in Receivers(g, t) : t < u /\ \A c \in Consumed(g) : t <= c.n => u <= c.turn
  <2>1. t \in Fires(h) /\ t \in 1..last
    BY <1>3
  <2>2. t < turn - 1 => t < last /\ t + 1 < turn
    BY <1>1, <2>1
  <2> QED
    BY <1>3, <2>1, <2>2 DEF Mail
<1>9. Mail(g)
  BY <1>2, <1>4, <1>5, <1>6, <1>7, <1>8 DEF Mail
<1> QED
  BY <1>9 DEF g
\* A hook that adds none of the director's events leaves the mail as it was.
LEMMA HandledStays ==
    ASSUME NEW types, GoesOn(types), "directive_consumed" \notin types, "director_fired" \notin types,
           Handled(staged)
    PROVE  Handled(staged)'
<1>1. Turn' = Turn /\ UNCHANGED log /\ Adds(types)
  BY DEF GoesOn, Turn
<1>2. Of(staged', "directive_consumed") = Of(staged, "directive_consumed")
  BY <1>1, AddsOther
<1>3. Of(staged', "director_fired") = Of(staged, "director_fired")
  BY <1>1, AddsOther
<1> QED
  BY <1>1, <1>2, <1>3 DEF Handled, Consumed, Fires

Unopened(events) == Consumed(events) = {} /\ Fires(events) = {}

\* The director consumes the newest directive and fires no sooner than the turn
\* after the next.
LEMMA DirectHandles ==
    ASSUME Shape, Mail(log), Unopened(staged), NEW out, Direct(out)
    PROVE  Handled(staged)' /\ UNCHANGED log
<1> DEFINE events == Directed(Seen, Turn, out)
           last == Latest(Turns(log))
           F == Fires(log)
<1>1. UNCHANGED log /\ staged' = staged \cup {Stamp(e, Turn) : e \in events} /\ Turn' = Turn
  BY DEF Direct, Stage, Turn
<1>2. Numbered(log) /\ Told(staged) /\ Turn <= MaxTurn
  BY DEF Shape, Direct
<1>3. Latest(Turns(Seen)) = Turn
  BY <1>2, NumberedGrows DEF Seen, Turn, Told
<1>4. Fires(Seen) = F
  BY DEF Fires, Turns, Of, Seen, Unopened
<1>5. /\ last \in 0..MaxTurn /\ Turn = last + 1
      /\ F \subseteq 1..last
  BY <1>2, LastTurn, FiresAre DEF Turn
<1>6. ASSUME F # {} PROVE Max(F) \in F /\ \A f \in F : f <= Max(F)
  <2>1. F \in SUBSET Nat /\ last \in Nat /\ \A f \in F : f <= last
    BY <1>5
  <2> HIDE DEF F, last
  <2> QED
    BY <1>6, <2>1, MaxOfBounded
<1>7. /\ \A c \in Consumed(Consumption(Seen)) : c.n \in F /\ \A g \in F : g <= c.n
      /\ F # {} => Consumed(Consumption(Seen)) # {}
  <2>1. Consumption(Seen) = {Event("directive_consumed", t, NoPlace, t) :
                               t \in {u \in F : \A v \in F : v <= u}}
    BY <1>4 DEF Consumption
  <2>2. \A t : Event("directive_consumed", t, NoPlace, t).n = t
               /\ Event("directive_consumed", t, NoPlace, t).type = "directive_consumed"
    BY DEF Event
  <2>3. F # {} => Event("directive_consumed", Max(F), NoPlace, Max(F)) \in Consumption(Seen)
    BY <1>6, <2>1
  <2> HIDE DEF F
  <2> QED
    BY <2>1, <2>2, <2>3 DEF Consumed, Of
<1>8. /\ \A e \in events : /\ IsEvent(e)
                           /\ e.type = "directive_consumed" => e \in Consumption(Seen)
                           /\ e.type = "director_fired" => Rested(Seen)
      /\ Consumption(Seen) \subseteq events
  <2>1. Made(events, DirectorTypes) /\ Made(Consumption(Seen), {"directive_consumed"})
        /\ Made(Dormant(Seen, Turn), {"thread_open"})
    <3>1. Made(Consumption(Seen), {"directive_consumed"})
      BY DEF Consumption, Made, IsEvent, Event
    <3>2. Made(Dormant(Seen, Turn), {"thread_open"})
      BY DEF Dormant, Made, IsEvent, Event
    <3> QED
      BY <3>1, <3>2, DirectedMade
  <2>2. Event("director_fired", Turn, NoPlace, 0).type = "director_fired"
    BY DEF Event
  <2>3. \A e \in events : \/ e \in Consumption(Seen)
                          \/ Rested(Seen) /\ e = Event("director_fired", Turn, NoPlace, 0)
                          \/ e \in Dormant(Seen, Turn)
    BY DEF Directed
  <2>4. Consumption(Seen) \subseteq events
    BY DEF Directed
  <2> HIDE DEF events
  <2> QED
    BY <2>1, <2>2, <2>3, <2>4 DEF Made
<1>9. ASSUME Rested(Seen), NEW g \in F PROVE g < Turn - 1
  <2>1. Latest(F) < Turn - 1
    BY <1>3, <1>4, <1>9 DEF Rested
  <2>2. F \subseteq Nat /\ last \in Nat /\ \A f \in F : f <= last
    BY <1>5
  <2>3. g <= Latest(F) /\ Latest(F) \in Nat
    <3> HIDE DEF F, last
    <3> QED
      BY <1>9, <2>2, LatestOf
  <2> QED
    BY <1>5, <2>1, <2>2, <2>3
<1> HIDE DEF events, F
<1>10. /\ \A e \in events : LET s == Stamp(e, Turn)
                            IN s.turn = Turn /\ s.type = e.type /\ s.n = e.n
       /\ \A e \in Consumed(staged') : \E d \in Consumed(Consumption(Seen)) : e.n = d.n
       /\ Consumed(Consumption(Seen)) # {} => Consumed(staged') # {}
       /\ Fires(staged') # {} => Rested(Seen)
  <2>1. \A e \in events : LET s == Stamp(e, Turn)
                          IN s.turn = Turn /\ s.type = e.type /\ s.n = e.n
    BY <1>8, StampedEvent
  <2>2. \A e \in Consumed(staged') : \E d \in Consumed(Consumption(Seen)) : e.n = d.n
    BY <1>1, <1>8, <2>1 DEF Consumed, Of, Unopened
  <2>3. Consumed(Consumption(Seen)) # {} => Consumed(staged') # {}
    BY <1>1, <1>8, <2>1 DEF Consumed, Of
  <2>4. Fires(staged') # {} => Rested(Seen)
    BY <1>1, <1>8, <2>1 DEF Fires, Turns, Of, Unopened
  <2> QED
    BY <2>1, <2>2, <2>3, <2>4
<1> QED
  BY <1>1, <1>7, <1>9, <1>10 DEF Handled, F
\* The mail of the history and of the turn under way.
Letters ==
    /\ Mail(log)
    /\ pc # "idle" => Handled(staged)
    /\ pc \in {"digest", "direct"} => Unopened(staged)
    /\ pc \in {"drain", "descend"} => Handled(mark)

LEMMA LettersInit == ASSUME Init PROVE Letters
<1>1. \A type : Of(log, type) = {}
  BY DEF Init, Of
<1>2. Fires(log) = {} /\ Consumed(log) = {}
  BY <1>1 DEF Fires, Turns, Consumed
<1> QED
  BY <1>1, <1>2 DEF Letters, Mail, Init

LEMMA LettersKept == ASSUME Shape, Letters, [Next]_vars PROVE Letters'
<1>1. CASE UNCHANGED vars
  <2>1. Turn' = Turn
    BY <1>1 DEF vars, Turn
  <2> QED
    BY <1>1, <2>1 DEF vars, cascadeVars, Letters, Handled
<1>2. ASSUME NEW types, GoesOn(types), "directive_consumed" \notin types,
             "director_fired" \notin types,
             pc' \in {"drain", "descend"} => (pc \in {"drain", "descend"} /\ mark' = mark),
             pc' \in {"digest", "direct"} => pc = "digest"
      PROVE  Letters'
  <2>1. UNCHANGED log /\ Turn' = Turn /\ pc # "idle" /\ Adds(types)
    BY <1>2 DEF GoesOn, Preparing, Turn
  <2>2. Handled(staged)'
    BY <1>2, <2>1, HandledStays DEF Letters
  <2>3. pc = "digest" => Unopened(staged)'
    <3>1. /\ Of(staged', "directive_consumed") = Of(staged, "directive_consumed")
          /\ Of(staged', "director_fired") = Of(staged, "director_fired")
      BY <1>2, <2>1, AddsOther
    <3> QED
      BY <3>1 DEF Letters, Unopened, Consumed, Fires
  <2>4. pc' \in {"drain", "descend"} => Handled(mark)'
    BY <1>2, <2>1 DEF Letters, Handled
  <2> QED
    BY <1>2, <2>1, <2>2, <2>3, <2>4 DEF Letters
<1>3. ASSUME NEW areas, Narrate(areas) PROVE Letters'
  <2> DEFINE events == {Event("clock_advanced", Turn, NoPlace, 0),
                        Event("narration_recorded", Turn, Scene, Inject(log))}
                       \cup {Event("declared", Turn, p, 0) : p \in areas}
  <2>1. staged' = events /\ UNCHANGED log /\ Turn' = Turn /\ pc' = "digest"
    BY <1>3, NarrateTells
  <2>2. \A e \in events : e.type \in {"clock_advanced", "narration_recorded", "declared"}
    BY DEF Event
  <2> HIDE DEF events
  <2>3. Unopened(events)
    BY <2>2 DEF Unopened, Consumed, Fires, Turns, Of
  <2>4. Handled(events)
    BY <2>3 DEF Handled, Unopened
  <2>5. Handled(staged)'
    BY <2>1, <2>4 DEF Handled
  <2> QED
    BY <2>1, <2>3, <2>5 DEF Letters
<1>4. ASSUME UNCHANGED <<log, staged>>, pc \in {"direct", "cascade"}, pc' \notin {"digest", "direct"},
             pc' \in {"drain", "descend"} => mark' = staged
      PROVE  Letters'
  <2>1. Turn' = Turn /\ Handled(staged) /\ Mail(log)
    BY <1>4 DEF Turn, Letters
  <2> QED
    BY <1>4, <2>1 DEF Letters, Handled
<1>5. CASE CascadeFails
  <2>1. UNCHANGED log /\ staged' = mark /\ pc' = "publish" /\ Handled(mark) /\ Turn' = Turn
    BY <1>5 DEF CascadeFails, Letters, Turn
  <2> QED
    BY <2>1 DEF Letters, Handled
<1>6. ASSUME NEW moved \in BOOLEAN, Publish(moved) PROVE Letters'
  <2>1. PICK rest : /\ log' = log \cup staged \cup rest
                    /\ \A e \in rest : IsEvent(e) /\ e.turn = Turn /\ e.type = "scene_advanced"
    BY <1>6, PublishGrows
  <2>2. pc = "publish" /\ pc' = "idle"
    BY <1>6 DEF Publish, EndTurn
  <2>3. Mail(log \cup (staged \cup rest))
    <3>1. /\ staged \subseteq staged \cup rest
          /\ \A e \in (staged \cup rest) \ staged :
                IsEvent(e) /\ e.turn = Turn /\ e.type = "scene_advanced"
      BY <2>1
    <3> QED
      BY <2>2, <3>1, MailGrows DEF Letters, Shape
  <2>4. log \cup (staged \cup rest) = log'
    BY <2>1
  <2> QED
    BY <2>2, <2>3, <2>4 DEF Letters
<1>7. CASE Drop
  BY <1>7 DEF Drop, EndTurn, Letters
<1>8. ASSUME NEW turn \in Turns(log), Rewind(turn) PROVE Letters'
  <2>1. Mail({e \in log : e.turn < turn})
    BY MailShrinks DEF Shape, Letters
  <2> QED
    BY <1>8, <2>1 DEF Rewind, Letters
<1>9. CASE Next
  <2>1. ASSUME NEW out, Direct(out) PROVE Letters'
    <3>1. Handled(staged)' /\ UNCHANGED log /\ pc' = "cascade"
      BY <2>1, DirectHandles DEF Letters, Direct
    <3> QED
      BY <3>1 DEF Letters
  <2>2. ASSUME NEW e, DrainRegion(e) PROVE Letters'
    <3>1. GoesOn({"drained", "hop", "deferred"}) /\ mark' = mark /\ pc' = "drain" /\ pc = "drain"
      BY <2>2, CascadeSteps DEF DrainRegion
    <3> QED
      BY <1>2, <3>1
  <2>3. CASE AskLevel
    <3>1. GoesOn({"place_evolved"}) /\ mark' = mark /\ pc' = pc /\ pc \in {"drain", "descend"}
      BY <2>3, CascadeSteps DEF AskLevel
    <3> QED
      BY <1>2, <3>1
  <2>4. CASE BeginDescent
    <3>1. GoesOn({"watermark", "hop", "deferred"}) /\ mark' = mark /\ pc = "drain" /\ pc' = "descend"
      BY <2>4, CascadeSteps DEF BeginDescent
    <3> QED
      BY <1>2, <3>1
  <2>5. CASE EndCascade
    <3>1. GoesOn({"hop", "deferred"}) /\ pc' = "publish"
      BY <2>5, CascadeSteps DEF EndCascade
    <3> QED
      BY <1>2, <3>1
  <2>6. CASE GoesOn(DigestTypes) /\ pc = "digest" /\ pc' = "direct" /\ UNCHANGED cascadeVars
    BY <1>2, <2>6 DEF DigestTypes
  <2>7. CASE DirectorFails
    BY <1>4, <2>7 DEF DirectorFails
  <2>8. CASE BeginCascade
    BY <1>4, <2>8 DEF BeginCascade
  <2>9. CASE NothingToCascade
    BY <1>4, <2>9 DEF NothingToCascade
  <2> QED
    BY <1>3, <1>5, <1>6, <1>7, <1>8, <1>9, <2>1, <2>2, <2>3, <2>4, <2>5, <2>6, <2>7, <2>8, <2>9,
       HookSteps
<1> QED
  BY <1>1, <1>9

\* What the turn under way sees is in order too.
LEMMA SeenInOrder ==
    ASSUME Shape, Letters
    PROVE  Numbered(Seen) /\ Mail(Seen)
<1>1. CASE pc = "idle"
  BY <1>1 DEF Shape, Letters, Seen
<1>2. CASE pc # "idle"
  BY <1>2, MailGrows DEF Shape, Letters, Seen
<1> QED
  BY <1>1, <1>2

LEMMA LettersInOrder == ASSUME Shape, Letters PROVE DirectivesInOrder
<1>1. DirectiveShown
  <2>1. \A t : Woven(t) = Receivers(log, t)
    BY DEF Woven, Receivers
  <2> QED
    BY <2>1 DEF DirectiveShown, Letters, Mail, Consumed
<1>2. NeverTwiceRunning
  BY SeenInOrder DEF NeverTwiceRunning, Mail
<1>3. NoneOvertaken
  <2>1. \A x, y \in Unshown(Seen) : x = y
    BY SeenInOrder, Waiting
  <2>2. CASE Unshown(Seen) = {}
    BY <2>2, FS_EmptySet DEF NoneOvertaken
  <2>3. CASE Unshown(Seen) # {}
    <3>1. PICK x : x \in Unshown(Seen)
      BY <2>3
    <3>2. Unshown(Seen) = {x}
      BY <2>1, <3>1
    <3>3. Cardinality({x}) = 1
      BY FS_Singleton
    <3> QED
      BY <3>2, <3>3 DEF NoneOvertaken
  <2> QED
    BY <2>2, <2>3
<1> QED
  BY <1>1, <1>2, <1>3 DEF DirectivesInOrder

\* Whatever hooks fail, whatever turns are dropped and whatever is rewound, every
\* directive is shown to the narrator of the next turn, never after it was consumed,
\* never two running, and never one over another.
THEOREM DirectivesArriveInOrder == Spec => []DirectivesInOrder
<1>1. Init => Shape /\ Letters
  BY ShapeInit, LettersInit
<1>2. Shape /\ Letters /\ [Next]_vars => (Shape /\ Letters)'
  BY ShapeKept, LettersKept
<1>3. Shape /\ Letters => DirectivesInOrder
  BY LettersInOrder
<1> QED
  BY <1>1, <1>2, <1>3, PTL DEF Spec
-----------------------------------------------------------------------------
(* The walk.                                                                *)

WithoutLoop(f, s, skipped) ==
    f = [t \in SUBSET DOMAIN s |->
            IF t = {} THEN <<>>
            ELSE IF s[Max(t)] \in skipped THEN f[t \ {Max(t)}]
                 ELSE Append(f[t \ {Max(t)}], s[Max(t)])]

LEMMA WithoutIsLoop ==
    ASSUME NEW s, NEW skipped
    PROVE  Without(s, skipped) = (CHOOSE f : WithoutLoop(f, s, skipped))[DOMAIN s]
  BY DEF Without, FoldLeft, MapThenFoldSet, WithoutLoop

\* Leaving members out of a list of S leaves a list of the others.
LEMMA WithoutSeq ==
    ASSUME NEW S, NEW s \in Seq(S), NEW skipped
    PROVE  Without(s, skipped) \in Seq(S \ skipped)
<1> DEFINE n == Len(s)
           A == Seq(S \ skipped)
           next == [p \in (1..n) \X A |->
                       IF s[p[1]] \in skipped THEN p[2] ELSE Append(p[2], s[p[1]])]
<1>1. n \in Nat /\ DOMAIN s = 1..n /\ \A i \in 1..n : s[i] \in S
  BY LenProperties
<1>2. <<>> \in A
  OBVIOUS
<1>3. ASSUME NEW i \in 1..n, NEW a \in A
      PROVE  (IF s[i] \in skipped THEN a ELSE Append(a, s[i])) \in A
  <2>1. s[i] \notin skipped => s[i] \in S \ skipped
    BY <1>1
  <2> HIDE DEF n
  <2>2. s[i] \notin skipped => Append(a, s[i]) \in A
    BY <2>1, AppendProperties
  <2> QED
    BY <2>2
<1>4. next \in [(1..n) \X A -> A]
  <2> HIDE DEF A, n
  <2> QED
    BY <1>3
<1>5. PICK g \in [SUBSET (1..n) -> A] : \A t \in SUBSET (1..n) :
              g[t] = IF t = {} THEN <<>> ELSE next[<<Max(t), g[t \ {Max(t)}]>>]
  <2> DEFINE base == <<>>
  <2>1. base \in A /\ n \in Nat
    BY <1>1, <1>2
  <2> HIDE DEF next, A, n, base
  <2>2. \E g \in [SUBSET (1..n) -> A] : ListLoops(g, n, base, next)
    BY <1>4, <2>1, ListLoop
  <2> QED
    BY <2>2 DEF base, ListLoops
<1>6. \A t \in SUBSET (1..n) : t # {} => Max(t) \in t
  BY <1>1, LastOfSome
<1>7. \A t \in SUBSET (1..n) :
         g[t] = IF t = {} THEN <<>>
                ELSE IF s[Max(t)] \in skipped THEN g[t \ {Max(t)}]
                     ELSE Append(g[t \ {Max(t)}], s[Max(t)])
  <2> SUFFICES ASSUME NEW t \in SUBSET (1..n), t # {}
               PROVE  g[t] = IF s[Max(t)] \in skipped THEN g[t \ {Max(t)}]
                             ELSE Append(g[t \ {Max(t)}], s[Max(t)])
    BY <1>5
  <2>1. Max(t) \in 1..n /\ g[t \ {Max(t)}] \in A
    BY <1>6
  <2> DEFINE x == Max(t)
             a == g[t \ {Max(t)}]
  <2>2. g[t] = next[<<x, a>>]
    BY <1>5
  <2> HIDE DEF A, n, x, a
  <2>3. next[<<x, a>>] = IF s[x] \in skipped THEN a ELSE Append(a, s[x])
    BY <2>1 DEF x, a
  <2> QED
    BY <2>2, <2>3 DEF x, a
<1>8. WithoutLoop(g, s, skipped)
  BY <1>1, <1>5, <1>7 DEF WithoutLoop
<1> DEFINE f == CHOOSE h : WithoutLoop(h, s, skipped)
<1>9. WithoutLoop(f, s, skipped)
  BY <1>8
<1> HIDE DEF f
<1>10. \A t \in SUBSET (1..n) :
          f[t] = IF t = {} THEN <<>>
                 ELSE IF s[Max(t)] \in skipped THEN f[t \ {Max(t)}]
                      ELSE Append(f[t \ {Max(t)}], s[Max(t)])
  BY <1>1, <1>9 DEF WithoutLoop
<1>11. f[{}] \in A
  BY <1>2, <1>10
<1>12. \A t \in SUBSET (1..n) : t # {} => \E x \in t : f[t \ {x}] \in A => f[t] \in A
  <2> SUFFICES ASSUME NEW t \in SUBSET (1..n), t # {}, f[t \ {Max(t)}] \in A
               PROVE  f[t] \in A
    BY <1>6
  <2>1. Max(t) \in 1..n
    BY <1>6
  <2> HIDE DEF A, n
  <2>2. f[t] = IF s[Max(t)] \in skipped THEN f[t \ {Max(t)}]
               ELSE Append(f[t \ {Max(t)}], s[Max(t)])
    BY <1>10
  <2> QED
    BY <1>3, <2>1, <2>2
<1>13. f[1..n] \in A
  <2>1. IsFiniteSet(1..n)
    BY <1>1, FS_Interval
  <2> HIDE DEF A, n
  <2> QED
    BY <1>11, <1>12, <2>1, LoopStays
<1> QED
  BY <1>1, <1>13, WithoutIsLoop DEF f

LEMMA SeqMembers ==
    ASSUME NEW S, NEW s
    PROVE  /\ s \in Seq(S) => ToSet(s) \subseteq S
           /\ s \in Seq(S) => s \in Seq(ToSet(s))
           /\ s \in Seq(S) => (s # <<>> <=> ToSet(s) # {})
<1>1. ASSUME s \in Seq(S) PROVE ToSet(s) \subseteq S /\ s \in Seq(ToSet(s))
  <2>1. DOMAIN s = 1..Len(s) /\ Len(s) \in Nat /\ s \in [1..Len(s) -> S]
    BY <1>1, LenProperties
  <2>2. s \in [1..Len(s) -> ToSet(s)]
    BY <2>1 DEF ToSet
  <2>3. s \in UNION {[1..n -> ToSet(s)] : n \in Nat}
    BY <2>1, <2>2
  <2>4. s \in Seq(ToSet(s))
    BY <2>3, SeqDef
  <2> QED
    BY <2>1, <2>4 DEF ToSet
<1>2. ASSUME s \in Seq(S) PROVE s # <<>> <=> ToSet(s) # {}
  <2>1. DOMAIN s = 1..Len(s) /\ Len(s) \in Nat
    BY <1>2, LenProperties
  <2>2. s # <<>> => Len(s) \in Nat \ {0}
    BY <1>2, EmptySeq
  <2>3. s # <<>> => s[1] \in ToSet(s)
    BY <2>1, <2>2 DEF ToSet
  <2>4. s = <<>> => ToSet(s) = {}
    BY DEF ToSet
  <2> QED
    BY <2>3, <2>4
<1> QED
  BY <1>1, <1>2
Walks == [frontier : Seq(Places), seen : SUBSET Places, nodes : Nat,
          changed : SUBSET Places, targets : Seq(Places), ring : BOOLEAN]

LEMMA GraphTypes ==
    ASSUME NEW p \in Places
    PROVE  /\ Below[p] \in Seq(Places)
           /\ Children(p) \subseteq Places
           /\ AdjacentRegions(p) \subseteq Places
<1>1. Below[p] \in Seq(Places)
  BY CascadeAssumption
<1>2. Children(p) \subseteq Places
  BY <1>1, SeqMembers DEF Children
<1>3. \A q \in Parents(p) : q \in Places /\ Beside[q] \subseteq Places /\ Children(q) \subseteq Places
  <2>1. \A q \in Places : Children(q) \subseteq Places
    BY CascadeAssumption, SeqMembers DEF Children
  <2> QED
    BY <2>1, CascadeAssumption DEF Parents
<1>4. AdjacentRegions(p) \subseteq Places
  BY <1>3, CascadeAssumption DEF AdjacentRegions
<1> QED
  BY <1>1, <1>2, <1>4

LEMMA OrderedSeq ==
    ASSUME NEW S, IsFiniteSet(S), NEW s \in SetToSeqs(S)
    PROVE  s \in Seq(S) /\ ToSet(s) \subseteq S
<1>1. Cardinality(S) \in Nat
  BY FS_CardinalityType
<1>2. s \in [1..Cardinality(S) -> S]
  BY DEF SetToSeqs
<1>3. s \in UNION {[1..n -> S] : n \in Nat}
  BY <1>1, <1>2
<1>4. s \in Seq(S)
  BY <1>3, SeqDef
<1> QED
  BY <1>4, SeqMembers

LEMMA VerdictTypes ==
    ASSUME NEW p \in Places, NEW v \in Verdicts(p)
    PROVE  v.evolve \in BOOLEAN /\ v.spread \in Seq(Places)
<1>1. CASE v = [evolve |-> FALSE, spread |-> <<>>]
  BY <1>1
<1>2. CASE v \in [evolve : {TRUE}, spread : UNION {SetToSeqs(rs) : rs \in SUBSET AdjacentRegions(p)}]
  <2>1. PICK rs \in SUBSET AdjacentRegions(p) : v.spread \in SetToSeqs(rs)
    BY <1>2
  <2>2. rs \subseteq Places /\ IsFiniteSet(rs)
    BY GraphTypes, FS_Subset, CascadeAssumption
  <2>3. v.spread \in Seq(rs)
    BY <2>1, <2>2, OrderedSeq
  <2>4. v.spread \in Seq(Places)
    BY <2>2, <2>3, SeqMonotonic
  <2> QED
    BY <1>2, <2>4
<1> QED
  BY <1>1, <1>2 DEF Verdicts

LEMMA AskedTypes ==
    ASSUME NEW w \in Walks, w.nodes <= NodeBudget
    PROVE  /\ Asked(w) \in Seq(Places)
           /\ ToSet(Asked(w)) \subseteq ToSet(w.frontier)
           /\ Len(Asked(w)) \in Nat /\ w.nodes + Len(Asked(w)) <= NodeBudget
           /\ Asked(w) # <<>> => w.frontier # <<>>
<1> DEFINE n == Len(w.frontier)
           m == Min({n, Breadth, NodeBudget - w.nodes})
<1>1. w.frontier \in Seq(Places) /\ w.nodes \in Nat /\ n \in Nat
      /\ DOMAIN w.frontier = 1..n /\ \A i \in 1..n : w.frontier[i] \in Places
  BY LenProperties DEF Walks
<1>2. m \in Nat /\ m <= n /\ m <= NodeBudget - w.nodes
  <2>1. {n, Breadth, NodeBudget - w.nodes} \in SUBSET Nat
    BY <1>1, CascadeAssumption
  <2> HIDE DEF n
  <2> QED
    BY <2>1, MinOfNumbers
<1> HIDE DEF n, m
<1>3. Asked(w) = SubSeq(w.frontier, 1, m)
  BY DEF Asked, m, n
<1>4. /\ Asked(w) \in Seq(Places) /\ Len(Asked(w)) = m
      /\ \A i \in 1..m : Asked(w)[i] = w.frontier[i]
  <2>1. \A i \in 1..m : w.frontier[i] \in Places
    BY <1>1, <1>2
  <2>2. /\ Asked(w) \in Seq(Places)
        /\ Len(Asked(w)) = IF 1 <= m THEN m - 1 + 1 ELSE 0
        /\ \A i \in 1..(m - 1 + 1) : Asked(w)[i] = w.frontier[1 + i - 1]
    BY <1>2, <1>3, <2>1, SubSeqProperties
  <2>3. (IF 1 <= m THEN m - 1 + 1 ELSE 0) = m /\ 1..(m - 1 + 1) = 1..m
    BY <1>2
  <2>4. \A i \in 1..m : 1 + i - 1 = i
    BY <1>2
  <2> QED
    BY <2>2, <2>3, <2>4
<1>5. DOMAIN Asked(w) = 1..m
  BY <1>4, LenProperties
<1>6. ToSet(Asked(w)) \subseteq ToSet(w.frontier)
  BY <1>1, <1>2, <1>4, <1>5 DEF ToSet
<1>7. Asked(w) # <<>> => w.frontier # <<>>
  BY <1>1, <1>4, <1>6, SeqMembers
<1> QED
  BY <1>1, <1>2, <1>4, <1>6, <1>7, CascadeAssumption

LEMMA ConcatMembers ==
    ASSUME NEW S, NEW s \in Seq(S), NEW t \in Seq(S)
    PROVE  s \o t \in Seq(S) /\ ToSet(s \o t) \subseteq ToSet(s) \cup ToSet(t)
<1>1. s \in Seq(ToSet(s) \cup ToSet(t)) /\ t \in Seq(ToSet(s) \cup ToSet(t))
  BY SeqMembers, SeqMonotonic
<1>2. s \o t \in Seq(ToSet(s) \cup ToSet(t))
  BY <1>1, ConcatProperties
<1> QED
  BY <1>2, SeqMembers, ConcatProperties
\* The verdicts on a level, and what is contained in the places that change by them.
Judges(verdict, w) ==
    /\ DOMAIN verdict = ToSet(Asked(w))
    /\ \A p \in DOMAIN verdict : verdict[p] \in Verdicts(p)
Kids(w, verdict) ==
    UNION {Children(p) : p \in {q \in ToSet(Asked(w)) : verdict[q].evolve}}

\* What one level of a walk may become while it is visited.
LevelOf(w, verdict) ==
    {a \in Walks : /\ a.nodes = w.nodes + Len(Asked(w))
                   /\ a.ring = w.ring
                   /\ ~w.ring => a.targets = w.targets
                   /\ ToSet(a.frontier) \subseteq Kids(w, verdict)}

LEMMA VisitStays ==
    ASSUME NEW w \in Walks, NEW verdict, Judges(verdict, w), NEW a \in LevelOf(w, verdict),
           NEW p \in ToSet(Asked(w)), p \in Places
    PROVE  Visit(a, p, verdict[p]) \in LevelOf(w, verdict)
<1> DEFINE v == verdict[p]
           kids == Without(Below[p], a.seen)
           met == a.changed \cup {p} \cup a.seen \cup ToSet(a.targets)
           spread == IF a.ring THEN Without(v.spread, met) ELSE <<>>
           b == [a EXCEPT !.frontier = @ \o kids,
                          !.seen = @ \cup ToSet(kids),
                          !.changed = @ \cup {p},
                          !.targets = @ \o spread]
<1>1. a \in Walks /\ v \in Verdicts(p)
  BY DEF LevelOf, Judges
<1>2. v.evolve \in BOOLEAN /\ v.spread \in Seq(Places)
  <2> HIDE DEF v
  <2> QED
    BY <1>1, VerdictTypes
<1>3. kids \in Seq(Places) /\ ToSet(kids) \subseteq Children(p)
  <2>1. Below[p] \in Seq(Children(p))
    BY GraphTypes, SeqMembers DEF Children
  <2>2. kids \in Seq(Children(p) \ a.seen)
    BY <2>1, WithoutSeq
  <2>3. kids \in Seq(Children(p))
    BY <2>2, SeqMonotonic
  <2> HIDE DEF kids
  <2> QED
    BY <2>3, GraphTypes, SeqMonotonic, SeqMembers
<1>4. spread \in Seq(Places)
  <2>1. Without(v.spread, met) \in Seq(Places \ met)
    BY <1>2, WithoutSeq
  <2> HIDE DEF met, v
  <2>2. Without(v.spread, met) \in Seq(Places)
    BY <2>1, SeqMonotonic
  <2>3. <<>> \in Seq(Places)
    BY EmptySeq
  <2> QED
    BY <2>2, <2>3
<1>5. /\ a.frontier \in Seq(Places) /\ a.targets \in Seq(Places)
      /\ a.seen \subseteq Places /\ a.changed \subseteq Places
  BY <1>1 DEF Walks
<1> HIDE DEF v, kids, spread
<1>6. /\ a.frontier \o kids \in Seq(Places) /\ a.targets \o spread \in Seq(Places)
      /\ ToSet(a.frontier \o kids) \subseteq ToSet(a.frontier) \cup ToSet(kids)
  BY <1>3, <1>4, <1>5, ConcatMembers
<1>7. a.seen \cup ToSet(kids) \subseteq Places /\ a.changed \cup {p} \subseteq Places
  BY <1>3, <1>5, SeqMembers
<1>8. b \in Walks
  BY <1>1, <1>6, <1>7 DEF Walks
<1>9. /\ b.nodes = a.nodes /\ b.ring = a.ring /\ b.targets = a.targets \o spread
      /\ b.frontier = a.frontier \o kids
  BY <1>1 DEF Walks
<1>10. CASE v.evolve
  <2>1. Children(p) \subseteq Kids(w, verdict)
    BY <1>10 DEF Kids, v
  <2>2. ToSet(b.frontier) \subseteq Kids(w, verdict)
    BY <1>3, <1>6, <1>9, <2>1 DEF LevelOf
  <2>3. ~w.ring => b.targets = w.targets
    <3>1. ~a.ring => a.targets \o spread = a.targets
      BY <1>5, ConcatEmptySeq DEF spread
    <3> QED
      BY <1>9, <3>1 DEF LevelOf
  <2> HIDE DEF b
  <2>4. b \in LevelOf(w, verdict)
    BY <1>8, <1>9, <2>2, <2>3 DEF LevelOf
  <2>5. Visit(a, p, v) = b
    BY <1>10 DEF Visit, b, kids, spread
  <2> QED
    BY <2>4, <2>5 DEF v
<1>11. CASE ~v.evolve
  <2>1. Visit(a, p, v) = a
    BY <1>11 DEF Visit
  <2> QED
    BY <2>1 DEF v
<1> QED
  BY <1>10, <1>11

LevelLoop(f, w, verdict) ==
    f = [t \in SUBSET DOMAIN Asked(w) |->
            IF t = {} THEN [w EXCEPT !.frontier = <<>>, !.nodes = @ + Len(Asked(w))]
            ELSE Visit(f[t \ {Max(t)}], Asked(w)[Max(t)], verdict[Asked(w)[Max(t)]])]

LEMMA LevelIsLoop ==
    ASSUME NEW w, NEW verdict
    PROVE  Level(w, verdict) = (CHOOSE f : LevelLoop(f, w, verdict))[DOMAIN Asked(w)]
  BY DEF Level, FoldLeft, MapThenFoldSet, LevelLoop

\* A level counts the places it asks about, keeps to the ring and leads nowhere but
\* into the places that changed.
LEMMA LevelStays ==
    ASSUME NEW w \in Walks, w.nodes <= NodeBudget, NEW verdict, Judges(verdict, w)
    PROVE  Level(w, verdict) \in LevelOf(w, verdict)
<1> DEFINE n == Len(Asked(w))
           A == LevelOf(w, verdict)
           base == [w EXCEPT !.frontier = <<>>, !.nodes = @ + Len(Asked(w))]
           step(i, a) == Visit(a, Asked(w)[i], verdict[Asked(w)[i]])
           next == [q \in (1..n) \X A |-> step(q[1], q[2])]
<1>1. /\ Asked(w) \in Seq(Places) /\ n \in Nat /\ DOMAIN Asked(w) = 1..n
      /\ \A i \in 1..n : Asked(w)[i] \in Places /\ Asked(w)[i] \in ToSet(Asked(w))
  BY AskedTypes, LenProperties DEF ToSet
<1>2. base \in A
  <2>1. <<>> \in Seq(Places)
    BY EmptySeq
  <2>2. ToSet(<<>>) \subseteq Kids(w, verdict)
    BY DEF ToSet
  <2>3. w.nodes + Len(Asked(w)) \in Nat
    BY <1>1 DEF Walks
  <2>4. base \in Walks
    BY <2>1, <2>3 DEF Walks
  <2>5. /\ base.nodes = w.nodes + Len(Asked(w)) /\ base.ring = w.ring
        /\ base.targets = w.targets /\ base.frontier = <<>>
    BY DEF Walks
  <2> HIDE DEF base
  <2> QED
    BY <2>2, <2>4, <2>5 DEF LevelOf
<1>3. ASSUME NEW i \in 1..n, NEW a \in A PROVE step(i, a) \in A
  BY <1>1, VisitStays
<1> HIDE DEF A, base, step
<1>4. next \in [(1..n) \X A -> A]
  <2> HIDE DEF n
  <2> QED
    BY <1>3
<1>5. PICK g \in [SUBSET (1..n) -> A] : ListLoops(g, n, base, next)
  <2> HIDE DEF next, n
  <2> QED
    BY <1>1, <1>2, <1>4, ListLoop
<1>6. \A t \in SUBSET (1..n) : t # {} => Max(t) \in t
  BY <1>1, LastOfSome
<1>7. \A t \in SUBSET (1..n) :
         g[t] = IF t = {} THEN base ELSE step(Max(t), g[t \ {Max(t)}])
  <2> SUFFICES ASSUME NEW t \in SUBSET (1..n), t # {}
               PROVE  g[t] = step(Max(t), g[t \ {Max(t)}])
    BY <1>5 DEF ListLoops
  <2> DEFINE x == Max(t)
             a == g[t \ {Max(t)}]
  <2>1. x \in 1..n /\ a \in A
    BY <1>6
  <2>2. g[t] = next[<<x, a>>]
    BY <1>5 DEF ListLoops
  <2> HIDE DEF n, x, a
  <2>3. next[<<x, a>>] = step(x, a)
    BY <2>1
  <2> QED
    BY <2>2, <2>3 DEF x, a
<1>8. LevelLoop(g, w, verdict)
  BY <1>1, <1>5, <1>7 DEF LevelLoop, base, step
<1> DEFINE f == CHOOSE h : LevelLoop(h, w, verdict)
<1>9. LevelLoop(f, w, verdict)
  BY <1>8
<1> HIDE DEF f
<1>10. \A t \in SUBSET (1..n) :
          f[t] = IF t = {} THEN base ELSE step(Max(t), f[t \ {Max(t)}])
  BY <1>1, <1>9 DEF LevelLoop, base, step
<1>11. f[{}] \in A
  BY <1>2, <1>10
<1>12. \A t \in SUBSET (1..n) : t # {} => \E x \in t : f[t \ {x}] \in A => f[t] \in A
  <2> SUFFICES ASSUME NEW t \in SUBSET (1..n), t # {}, f[t \ {Max(t)}] \in A
               PROVE  f[t] \in A
    BY <1>6
  <2>1. Max(t) \in 1..n
    BY <1>6
  <2> HIDE DEF n
  <2>2. f[t] = step(Max(t), f[t \ {Max(t)}])
    BY <1>10
  <2> QED
    BY <1>3, <2>1, <2>2
<1>13. f[1..n] \in A
  <2>1. IsFiniteSet(1..n)
    BY <1>1, FS_Interval
  <2> HIDE DEF n
  <2> QED
    BY <1>11, <1>12, <2>1, LoopStays
<1> QED
  BY <1>1, <1>13, LevelIsLoop DEF f, A
-----------------------------------------------------------------------------
(* The queue of regions put off.                                            *)

Deferred(h) == Of(h, "deferred")
Drained(h) == Of(h, "drained")
Watermarks(h) == Of(h, "watermark")

\* What h says of the queue.  A region is drained in a later turn than it was put
\* off in, with the first watermark that covers it; one that is covered was drained;
\* and regions of different turns do not wait together.
Queue(h) ==
    /\ \A e \in Drained(h) :
        /\ e.n \in Nat /\ e.n < e.turn
        /\ \E w \in Watermarks(h) : w.turn = e.turn /\ e.n <= w.n
        /\ \A w \in Watermarks(h) : w.turn < e.turn => w.n < e.n
    /\ \A d \in Deferred(h), w \in Watermarks(h) : d.turn <= w.n =>
        \E e \in Drained(h) : e.place = d.place /\ e.n = d.turn /\ e.turn <= w.turn
    /\ \A w \in Watermarks(h) : w.n \in Nat /\ w.n < w.turn
    /\ \A c, d \in Deferred(h) : c.turn < d.turn =>
        \E w \in Watermarks(h) : w.turn <= d.turn /\ c.turn <= w.n
    /\ \A d \in Deferred(h) : d.place \in Places /\ d.n = 0

\* The turn under way has drained these regions, all of them, or has not begun.
Walked(events, regions) ==
    Drained(events) = {Event("drained", Turn, e.place, e.turn) : e \in regions}
Swept(events) ==
    /\ Walked(events, Pending(log))
    /\ Watermarks(events) = Watermark(log, Turn)
    /\ \A d \in Deferred(events) : d.place \in Places /\ d.n = 0
Quiet(events) == \A e \in events : e.type \notin QueueTypes
Unspread(events) == \A e \in events : e.type \notin {"hop", "deferred"}

LEMMA Through ==
    ASSUME NEW h, Numbered(h), \A w \in Watermarks(h) : w.n \in Nat /\ w.n < w.turn
    PROVE  /\ DrainedThrough(h) \in 0..Latest(Turns(h))
           /\ \A w \in Watermarks(h) : w.n <= DrainedThrough(h)
           /\ DrainedThrough(h) = 0 \/ \E w \in Watermarks(h) : w.n = DrainedThrough(h)
<1> DEFINE N == {w.n : w \in Watermarks(h)}
           last == Latest(Turns(h))
<1>1. last \in Nat /\ \A w \in Watermarks(h) : w.turn \in 1..last
  BY LastTurn, BackstageAssumption DEF Watermarks, Of
<1>2. N \subseteq Nat /\ \A x \in N : x <= last
  BY <1>1
<1>3. DrainedThrough(h) = Latest(N)
  BY DEF DrainedThrough, Watermarks
<1>4. /\ Latest(N) \in Nat /\ Latest(N) <= last /\ (Latest(N) = 0 \/ Latest(N) \in N)
      /\ \A x \in N : x <= Latest(N)
  <2> HIDE DEF N, last
  <2> QED
    BY <1>1, <1>2, LatestOf
<1>5. /\ \A w \in Watermarks(h) : w.n \in N
      /\ \A x \in N : \E w \in Watermarks(h) : w.n = x
  OBVIOUS
<1> HIDE DEF N, last
<1>6. DrainedThrough(h) \in 0..last
  BY <1>1, <1>3, <1>4
<1> QED
  BY <1>3, <1>4, <1>5, <1>6 DEF last

\* The regions that wait, and the watermark that will cover them.
LEMMA PendingIs ==
    ASSUME NEW h, Numbered(h), Queue(h), NEW turn
    PROVE  /\ \A p \in Pending(h) : /\ p \in Deferred(h) /\ p.place \in Places
                                    /\ p.turn \in 1..Latest(Turns(h))
                                    /\ p.turn > DrainedThrough(h)
           /\ \A d \in Deferred(h) \ Pending(h) : \E w \in Watermarks(h) : d.turn <= w.n
           /\ Pending(h) = {} => Watermark(h, turn) = {}
           /\ Pending(h) # {} => \E m \in 1..Latest(Turns(h)) :
                /\ Watermark(h, turn) = {Event("watermark", turn, NoPlace, m)}
                /\ \A p \in Pending(h) : p.turn <= m
<1> DEFINE last == Latest(Turns(h))
           T == Turns(Pending(h))
<1>1. /\ DrainedThrough(h) \in 0..last
      /\ DrainedThrough(h) = 0 \/ \E w \in Watermarks(h) : w.n = DrainedThrough(h)
  BY Through DEF Queue
<1>2. last \in Nat /\ \A d \in Deferred(h) : d.turn \in 1..last /\ d.place \in Places
  BY LastTurn, BackstageAssumption DEF Deferred, Of, Queue
<1>3. \A p \in Pending(h) : /\ p \in Deferred(h) /\ p.place \in Places /\ p.turn \in 1..last
                            /\ p.turn > DrainedThrough(h)
  BY <1>2 DEF Pending, Deferred
<1>4. \A d \in Deferred(h) \ Pending(h) : \E w \in Watermarks(h) : d.turn <= w.n
  <2> SUFFICES ASSUME NEW d \in Deferred(h), d \notin Pending(h)
               PROVE  \E w \in Watermarks(h) : d.turn <= w.n
    OBVIOUS
  <2>1. d.turn <= DrainedThrough(h) /\ d.turn \in 1..last
    BY <1>1, <1>2 DEF Pending, Deferred
  <2> QED
    BY <1>1, <2>1
<1>5. T \subseteq Nat /\ \A x \in T : x <= last /\ x > 0
  BY <1>2, <1>3 DEF Turns
<1>6. Latest(T) \in Nat /\ Latest(T) <= last /\ (\A x \in T : x <= Latest(T))
  <2> HIDE DEF T, last
  <2> QED
    BY <1>2, <1>5, LatestOf
<1>7. ASSUME Pending(h) # {}
      PROVE  /\ Latest(T) \in 1..last
             /\ Watermark(h, turn) = {Event("watermark", turn, NoPlace, Latest(T))}
             /\ \A p \in Pending(h) : p.turn <= Latest(T)
  <2>1. \A p \in Pending(h) : p.turn \in T
    BY DEF Turns
  <2>2. PICK p \in Pending(h) : TRUE
    BY <1>7
  <2>3. Watermark(h, turn) = {Event("watermark", turn, NoPlace, Latest(T))}
    BY <1>7 DEF Watermark
  <2> HIDE DEF T
  <2>4. p.turn \in T /\ p.turn \in Nat /\ p.turn > 0 /\ p.turn <= Latest(T)
    BY <1>5, <1>6, <2>1
  <2> QED
    BY <1>2, <1>6, <2>1, <2>3, <2>4
<1>8. Pending(h) = {} => Watermark(h, turn) = {}
  BY DEF Watermark
<1> QED
  BY <1>3, <1>4, <1>7, <1>8
\* A turn that swept the queue, or left it alone, joins the history.
LEMMA QueueGrows ==
    ASSUME Numbered(log), Turn <= MaxTurn, Queue(log), NEW new,
           \A e \in new : IsEvent(e) /\ e.turn = Turn,
           \/ Drained(new) = {} /\ Watermarks(new) = {} /\ Deferred(new) = {}
           \/ Swept(new)
    PROVE  Queue(log \cup new)
<1> DEFINE h == log \cup new
           last == Latest(Turns(log))
<1>1. last \in Nat /\ Turn = last + 1 /\ \A e \in log : e.turn \in 1..last
  BY LastTurn, BackstageAssumption DEF Turn
<1>2. /\ Drained(h) = Drained(log) \cup Drained(new)
      /\ Watermarks(h) = Watermarks(log) \cup Watermarks(new)
      /\ Deferred(h) = Deferred(log) \cup Deferred(new)
  BY DEF Drained, Watermarks, Deferred, Of
<1>3. /\ \A e \in Drained(log) \cup Watermarks(log) \cup Deferred(log) : e.turn \in 1..last
      /\ \A e \in Drained(new) \cup Watermarks(new) \cup Deferred(new) : e.turn = Turn
  BY <1>1 DEF Drained, Watermarks, Deferred, Of
<1>4. CASE Drained(new) = {} /\ Watermarks(new) = {} /\ Deferred(new) = {}
  BY <1>2, <1>4 DEF Queue
<1>5. CASE Swept(new)
  <2> DEFINE P == Pending(log)
  <2>1. /\ \A p \in P : /\ p \in Deferred(log) /\ p.place \in Places
                        /\ p.turn \in 1..last /\ p.turn > DrainedThrough(log)
        /\ \A d \in Deferred(log) \ P : \E w \in Watermarks(log) : d.turn <= w.n
    BY PendingIs
  <2>2. P = {} => Watermarks(new) = {}
    BY <1>5, PendingIs DEF Swept
  <2>3. P # {} => \E m \in 1..last :
           /\ Watermarks(new) = {Event("watermark", Turn, NoPlace, m)}
           /\ \A p \in P : p.turn <= m
    BY <1>5, PendingIs DEF Swept
  <2>4. /\ \A e \in Drained(new) : \E p \in P : e.place = p.place /\ e.n = p.turn
        /\ \A p \in P : \E e \in Drained(new) : e.place = p.place /\ e.n = p.turn
    <3>1. \A p : LET e == Event("drained", Turn, p.place, p.turn)
                 IN  e.place = p.place /\ e.n = p.turn
      BY DEF Event
    <3> QED
      BY <1>5, <3>1 DEF Swept, Walked
  <2>5. \A w \in Watermarks(new) : w.n \in 1..last /\ w.turn = Turn /\ \A p \in P : p.turn <= w.n
    BY <1>3, <2>2, <2>3 DEF Event
  <2>6. P # {} => \E w \in Watermarks(new) : w.turn = Turn /\ \A p \in P : p.turn <= w.n
    BY <2>3, <2>5
  <2>7. \A w \in Watermarks(log) : w.n \in Nat /\ w.n <= DrainedThrough(log)
    BY Through DEF Queue
  <2> DEFINE D == Deferred(log)
             E == Drained(log)
             W == Watermarks(log)
  <2>8. DrainedThrough(log) \in Nat
    BY <1>1, Through DEF Queue
  <2> HIDE DEF P, D, E, W, h
  <2>9. ASSUME NEW e \in Drained(h)
        PROVE  /\ e.n \in Nat /\ e.n < e.turn
               /\ \E w \in Watermarks(h) : w.turn = e.turn /\ e.n <= w.n
               /\ \A w \in Watermarks(h) : w.turn < e.turn => w.n < e.n
    <3>1. CASE e \in E
      <4>1. \A w \in Watermarks(new) : ~(w.turn < e.turn)
        BY <1>1, <1>3, <3>1 DEF E
      <4> QED
        BY <1>2, <3>1, <4>1 DEF E, Queue
    <3>2. CASE e \in Drained(new)
      <4>1. PICK p \in P : e.place = p.place /\ e.n = p.turn
        BY <2>4, <3>2
      <4>2. e.turn = Turn /\ e.n \in 1..last /\ e.n > DrainedThrough(log)
        BY <1>3, <2>1, <3>2, <4>1
      <4>3. \E w \in Watermarks(new) : w.turn = e.turn /\ e.n <= w.n
        BY <2>6, <4>1, <4>2
      <4>4. \A w \in W : w.n < e.n
        BY <2>7, <2>8, <4>2 DEF W
      <4>5. \A w \in Watermarks(new) : ~(w.turn < e.turn)
        BY <1>1, <1>3, <4>2
      <4> QED
        BY <1>1, <1>2, <4>2, <4>3, <4>4, <4>5 DEF W
    <3> QED
      BY <1>2, <3>1, <3>2 DEF E
  <2>10. ASSUME NEW d \in Deferred(h), NEW w \in Watermarks(h), d.turn <= w.n
         PROVE  \E e \in Drained(h) : e.place = d.place /\ e.n = d.turn /\ e.turn <= w.turn
    <3>1. w.n \in Nat /\ w.n <= last
      <4>1. CASE w \in Watermarks(log)
        BY <1>1, <1>3, <4>1 DEF Queue
      <4>2. CASE w \in Watermarks(new)
        BY <1>1, <2>5, <4>2
      <4> QED
        BY <1>2, <4>1, <4>2
    <3>2. d \in D /\ d.turn \in 1..last
      BY <1>1, <1>2, <1>3, <2>10, <3>1 DEF D
    <3>3. CASE w \in W
      BY <1>2, <2>10, <3>2, <3>3 DEF Queue, D, W
    <3>4. CASE w \in Watermarks(new) /\ d \in P
      <4>1. PICK e \in Drained(new) : e.place = d.place /\ e.n = d.turn
        BY <2>4, <3>4
      <4> QED
        BY <1>1, <1>2, <1>3, <3>4, <4>1
    <3>5. CASE w \in Watermarks(new) /\ d \notin P
      <4>1. PICK x \in W : d.turn <= x.n
        BY <2>1, <3>2, <3>5 DEF D, W
      <4>2. PICK e \in E : e.place = d.place /\ e.n = d.turn /\ e.turn <= x.turn
        BY <3>2, <4>1 DEF Queue, D, E, W
      <4>3. e.turn \in 1..last /\ w.turn = Turn
        BY <1>3, <3>5, <4>2 DEF E
      <4> QED
        BY <1>1, <1>2, <4>2, <4>3 DEF E
    <3> QED
      BY <1>2, <3>3, <3>4, <3>5 DEF W
  <2>11. \A w \in Watermarks(h) : w.n \in Nat /\ w.n < w.turn
    BY <1>1, <1>2, <2>5 DEF Queue
  <2>12. ASSUME NEW c \in Deferred(h), NEW d \in Deferred(h), c.turn < d.turn
         PROVE  \E w \in Watermarks(h) : w.turn <= d.turn /\ c.turn <= w.n
    <3>1. d.turn \in 1..Turn /\ c.turn \in 1..Turn
      BY <1>1, <1>2, <1>3
    <3>2. c \in D /\ c.turn \in 1..last
      BY <1>1, <1>2, <1>3, <2>12, <3>1 DEF D
    <3>3. CASE d \in D
      BY <1>2, <2>12, <3>2, <3>3 DEF Queue, D
    <3>4. CASE d \in Deferred(new) /\ c \in P
      BY <1>1, <1>2, <1>3, <2>6, <3>4
    <3>5. CASE d \in Deferred(new) /\ c \notin P
      <4>1. PICK w \in W : c.turn <= w.n
        BY <2>1, <3>2, <3>5 DEF D, W
      <4> QED
        BY <1>1, <1>2, <1>3, <3>5, <4>1 DEF W
    <3> QED
      BY <1>2, <3>3, <3>4, <3>5 DEF D
  <2>13. \A d \in Deferred(h) : d.place \in Places /\ d.n = 0
    BY <1>2, <1>5 DEF Queue, Swept
  <2>14. Queue(h)
    BY <2>9, <2>10, <2>11, <2>12, <2>13 DEF Queue
  <2> QED
    BY <2>14 DEF h
<1> QED
  BY <1>4, <1>5

LEMMA QueueShrinks ==
    ASSUME NEW h, Numbered(h), Queue(h), NEW turn \in Turns(h)
    PROVE  Queue({e \in h : e.turn < turn})
<1> DEFINE g == {e \in h : e.turn < turn}
           last == Latest(Turns(h))
<1>1. /\ \A e : e \in Drained(g) <=> e \in Drained(h) /\ e.turn < turn
      /\ \A e : e \in Watermarks(g) <=> e \in Watermarks(h) /\ e.turn < turn
      /\ \A e : e \in Deferred(g) <=> e \in Deferred(h) /\ e.turn < turn
  BY DEF Drained, Watermarks, Deferred, Of
<1>2. /\ \A e \in Drained(h) \cup Watermarks(h) \cup Deferred(h) : e.turn \in 1..last
      /\ turn \in 1..last /\ last \in Nat
  BY LastTurn, BackstageAssumption DEF Drained, Watermarks, Deferred, Of
<1> HIDE DEF g, last
<1>3. ASSUME NEW e \in Drained(g)
      PROVE  /\ e.n \in Nat /\ e.n < e.turn
             /\ \E w \in Watermarks(g) : w.turn = e.turn /\ e.n <= w.n
             /\ \A w \in Watermarks(g) : w.turn < e.turn => w.n < e.n
  BY <1>1 DEF Queue
<1>4. ASSUME NEW d \in Deferred(g), NEW w \in Watermarks(g), d.turn <= w.n
      PROVE  \E e \in Drained(g) : e.place = d.place /\ e.n = d.turn /\ e.turn <= w.turn
  <2>1. PICK e \in Drained(h) : e.place = d.place /\ e.n = d.turn /\ e.turn <= w.turn
    BY <1>1, <1>4 DEF Queue
  <2>2. e.turn < turn
    BY <1>1, <1>2, <2>1
  <2> QED
    BY <1>1, <2>1, <2>2
<1>5. \A w \in Watermarks(g) : w.n \in Nat /\ w.n < w.turn
  BY <1>1 DEF Queue
<1>6. ASSUME NEW c \in Deferred(g), NEW d \in Deferred(g), c.turn < d.turn
      PROVE  \E w \in Watermarks(g) : w.turn <= d.turn /\ c.turn <= w.n
  <2>1. PICK w \in Watermarks(h) : w.turn <= d.turn /\ c.turn <= w.n
    BY <1>1, <1>6 DEF Queue
  <2>2. w.turn < turn
    BY <1>1, <1>2, <2>1
  <2> QED
    BY <1>1, <2>1, <2>2
<1>7. \A d \in Deferred(g) : d.place \in Places /\ d.n = 0
  BY <1>1 DEF Queue
<1>8. Queue(g)
  BY <1>3, <1>4, <1>5, <1>6, <1>7 DEF Queue
<1> QED
  BY <1>8 DEF g

LEMMA QueueDrains == ASSUME Numbered(log), Queue(log) PROVE DrainedOnce
<1> SUFFICES ASSUME NEW d \in Deferred(log)
             PROVE  Cardinality({e \in Drained(log) : e.place = d.place /\ e.n = d.turn})
                    = (IF d.turn <= DrainedThrough(log) THEN 1 ELSE 0)
  BY DEF DrainedOnce, Deferred, Drained
<1> DEFINE walks == {e \in Drained(log) : e.place = d.place /\ e.n = d.turn}
           last == Latest(Turns(log))
<1>1. /\ DrainedThrough(log) \in 0..last
      /\ \A w \in Watermarks(log) : w.n \in Nat /\ w.n <= DrainedThrough(log)
      /\ DrainedThrough(log) = 0 \/ \E w \in Watermarks(log) : w.n = DrainedThrough(log)
  BY Through DEF Queue
<1>2. /\ last \in Nat /\ d.turn \in 1..last
      /\ \A e \in Drained(log) : e.type = "drained" /\ IsEvent(e) /\ e.turn \in 1..last
      /\ \A w \in Watermarks(log) : w.turn \in 1..last
  BY LastTurn, BackstageAssumption DEF Deferred, Drained, Watermarks, Of, Numbered
<1>3. \A x, y \in walks : ~(x.turn < y.turn)
  <2> SUFFICES ASSUME NEW x \in walks, NEW y \in walks, x.turn < y.turn PROVE FALSE
    OBVIOUS
  <2>1. PICK w \in Watermarks(log) : w.turn = x.turn /\ x.n <= w.n
    BY DEF Queue
  <2>2. w.n < y.n /\ x.n = y.n /\ w.n \in Nat /\ y.n \in Nat
    BY <1>1, <2>1 DEF Queue
  <2> QED
    BY <2>1, <2>2
<1>4. \A x, y \in walks : x = y
  <2> SUFFICES ASSUME NEW x \in walks, NEW y \in walks PROVE x = y
    OBVIOUS
  <2>1. x.turn = y.turn
    BY <1>2, <1>3
  <2>2. x = Event("drained", x.turn, d.place, d.turn) /\ y = Event("drained", y.turn, d.place, d.turn)
    BY <1>2 DEF IsEvent
  <2> QED
    BY <2>1, <2>2
<1>5. CASE d.turn <= DrainedThrough(log)
  <2>1. PICK w \in Watermarks(log) : d.turn <= w.n
    BY <1>1, <1>2, <1>5
  <2>2. PICK e \in walks : TRUE
    BY <2>1 DEF Queue
  <2>3. walks = {e}
    BY <1>4
  <2>4. Cardinality({e}) = 1
    BY FS_Singleton
  <2> QED
    BY <1>5, <2>3, <2>4
<1>6. CASE ~(d.turn <= DrainedThrough(log))
  <2>1. walks = {}
    <3> SUFFICES ASSUME NEW e \in walks PROVE FALSE
      OBVIOUS
    <3>1. PICK w \in Watermarks(log) : d.turn <= w.n
      BY DEF Queue
    <3> QED
      BY <1>1, <1>2, <1>6, <3>1
  <2>2. Cardinality({}) = 0
    BY FS_EmptySet
  <2> HIDE DEF walks
  <2>3. Cardinality(walks) = 0
    BY <2>1, <2>2
  <2> QED
    BY <1>6, <2>3 DEF walks
<1> QED
  BY <1>5, <1>6
-----------------------------------------------------------------------------
(* The steps of the cascade.                                                *)

Walking ==
    /\ pc \notin {"drain", "descend"} => walk = NoWalk /\ asked = 0
    /\ pc \in {"drain", "descend"} => walk \in Walks /\ walk.nodes <= NodeBudget
    /\ pc = "drain" => ~walk.ring /\ walk.targets = <<>>

Queued ==
    /\ Queue(log)
    /\ pc \in {"digest", "direct", "cascade"} => Quiet(staged)
    /\ pc \in {"drain", "descend"} => Quiet(mark) /\ Unspread(staged)
    /\ pc = "drain" => /\ drain \subseteq Pending(log)
                       /\ Walked(staged, Pending(log) \ drain)
                       /\ Watermarks(staged) = {}
    /\ pc = "descend" => Swept(staged)
    /\ pc = "publish" => Quiet(staged) \/ Swept(staged)

\* The cascade builds its events with the turn they are stamped with.
LEMMA StagedAsBuilt ==
    ASSUME NEW events, \A e \in events : IsEvent(e) /\ e.turn = Turn, Stage(events)
    PROVE  staged' = staged \cup events
<1>1. \A e \in events : Stamp(e, Turn) = e
  BY Stamped DEF IsEvent
<1> QED
  BY <1>1 DEF Stage

\* The cascade sees the queue of the history until it moves the watermark.
LEMMA SeenQueue ==
    ASSUME Watermarks(staged) = {}, Deferred(staged) = {}
    PROVE  Pending(Seen) = Pending(log) /\ Watermark(Seen, Turn) = Watermark(log, Turn)
<1>1. Of(Seen, "watermark") = Of(log, "watermark") /\ Of(Seen, "deferred") = Of(log, "deferred")
  BY DEF Watermarks, Deferred, Of, Seen
<1>2. DrainedThrough(Seen) = DrainedThrough(log)
  BY <1>1 DEF DrainedThrough
<1>3. Pending(Seen) = Pending(log)
  BY <1>1, <1>2 DEF Pending
<1> QED
  BY <1>3 DEF Watermark

\* The regions a walk spreads to, at most SecondaryBreadth.
LEMMA HopsAre ==
    ASSUME NEW w \in Walks, NEW scene, NEW turn
    PROVE  /\ \A e \in Hops(w, scene, turn) : /\ IsEvent(e) /\ e.turn = turn /\ e.place \in Places
                                              /\ e.type \in {"hop", "deferred"} /\ e.n = 0
           /\ IsFiniteSet(Hops(w, scene, turn))
           /\ Cardinality(Hops(w, scene, turn)) <= SecondaryBreadth
           /\ w.targets = <<>> => Hops(w, scene, turn) = {}
<1> DEFINE n == Len(w.targets)
           m == Min({n, SecondaryBreadth})
           rs == ToSet(SubSeq(w.targets, 1, m))
           event(r) == Event(IF r \in SceneSubtree(scene) THEN "hop" ELSE "deferred", turn, r, 0)
           H == Hops(w, scene, turn)
<1>1. w.targets \in Seq(Places) /\ n \in Nat /\ \A i \in 1..n : w.targets[i] \in Places
  BY LenProperties DEF Walks
<1>2. m \in Nat /\ m <= n /\ m <= SecondaryBreadth
  <2>1. {n, SecondaryBreadth} \in SUBSET Nat
    BY <1>1, CascadeAssumption
  <2> HIDE DEF n
  <2> QED
    BY <2>1, MinOfNumbers
<1> HIDE DEF n, m
<1>3. SubSeq(w.targets, 1, m) \in Seq(Places) /\ Len(SubSeq(w.targets, 1, m)) = m
  <2>1. \A i \in 1..m : w.targets[i] \in Places
    BY <1>1, <1>2
  <2>2. /\ SubSeq(w.targets, 1, m) \in Seq(Places)
        /\ Len(SubSeq(w.targets, 1, m)) = IF 1 <= m THEN m - 1 + 1 ELSE 0
    BY <1>2, <2>1, SubSeqProperties
  <2>3. (IF 1 <= m THEN m - 1 + 1 ELSE 0) = m
    BY <1>2
  <2> QED
    BY <2>2, <2>3
<1>4. rs \subseteq Places /\ DOMAIN SubSeq(w.targets, 1, m) = 1..m
  BY <1>3, SeqMembers, LenProperties
<1>5. H = {event(r) : r \in rs}
  BY DEF Hops, m, n
<1>6. \A r \in rs : /\ IsEvent(event(r)) /\ event(r).turn = turn /\ event(r).place = r
                    /\ event(r).type \in {"hop", "deferred"} /\ event(r).n = 0
  BY DEF IsEvent, Event
<1>7. H = {event(SubSeq(w.targets, 1, m)[i]) : i \in 1..m}
  BY <1>4, <1>5 DEF ToSet
<1>8. IsFiniteSet(H) /\ Cardinality(H) <= m
  <2> DEFINE f == [i \in 1..m |-> event(SubSeq(w.targets, 1, m)[i])]
  <2>1. f \in Surjection(1..m, H)
    BY <1>7 DEF Surjection
  <2>2. IsFiniteSet(1..m) /\ Cardinality(1..m) = m
    BY <1>2, FS_Interval
  <2> HIDE DEF f, H
  <2> QED
    BY <2>1, <2>2, FS_Surjection
<1>9. w.targets = <<>> => H = {}
  <2>1. SUFFICES ASSUME w.targets = <<>> PROVE H = {}
    OBVIOUS
  <2>2. n = 0
    BY <2>1, EmptySeq DEF n
  <2>3. 1..m = {}
    BY <1>2, <2>2
  <2> QED
    BY <1>7, <2>3
<1>10. Cardinality(H) <= SecondaryBreadth
  <2>1. Cardinality(H) \in Nat
    BY <1>8, FS_CardinalityType
  <2> QED
    BY <1>2, <1>8, <2>1, CascadeAssumption
<1> HIDE DEF event, rs
<1>11. \A e \in H : /\ IsEvent(e) /\ e.turn = turn /\ e.place \in Places
                    /\ e.type \in {"hop", "deferred"} /\ e.n = 0
  BY <1>4, <1>5, <1>6
<1> QED
  BY <1>8, <1>9, <1>10, <1>11
\* A new walk asks about nothing yet.
LEMMA WalkStarts ==
    ASSUME NEW frontier \in Seq(Places), NEW seen \in SUBSET Places,
           NEW changed \in SUBSET Places, NEW ring \in BOOLEAN
    PROVE  LET w == WalkFrom(frontier, seen, changed, ring)
           IN  /\ w \in Walks /\ w.nodes = 0 /\ w.nodes <= NodeBudget
               /\ w.frontier = frontier /\ w.targets = <<>> /\ w.ring = ring
<1>1. <<>> \in Seq(Places)
  BY EmptySeq
<1> QED
  BY <1>1, CascadeAssumption DEF WalkFrom, Walks

LEMMA DrainRegionDoes ==
    ASSUME Shape, Walking, Queued, NEW e \in drain, DrainRegion(e)
    PROVE  /\ UNCHANGED <<log, pc, mark, asked>> /\ pc = "drain" /\ Turn' = Turn
           /\ e \in Pending(log) /\ e.place \in Places /\ drain' = drain \ {e}
           /\ staged' = staged \cup {Event("drained", Turn, e.place, e.turn)}
           /\ walk' \in Walks /\ walk'.nodes = 0
           /\ ~walk'.ring /\ walk'.targets = <<>>
           /\ ToSet(walk'.frontier) \subseteq Children(e.place)
<1> DEFINE d == Event("drained", Turn, e.place, e.turn)
<1>1. /\ UNCHANGED <<log, pc, mark, asked>> /\ pc = "drain" /\ drain' = drain \ {e}
      /\ walk' = DrainWalk(e.place, walk.changed) /\ Stage({d} \cup Hops(walk, Scene, Turn))
  BY DEF DrainRegion
<1>2. /\ walk \in Walks /\ walk.targets = <<>> /\ Hops(walk, Scene, Turn) = {}
      /\ walk.changed \in SUBSET Places
  <2>1. walk \in Walks /\ walk.targets = <<>>
    BY <1>1 DEF Walking
  <2> QED
    BY <2>1, HopsAre DEF Walks
<1>3. e \in Pending(log) /\ e.place \in Places
  BY <1>1, PendingIs DEF Queued, Shape
<1>4. staged' = staged \cup {d}
  <2>1. IsEvent(d) /\ d.turn = Turn
    BY DEF IsEvent, Event
  <2>2. Stage({d})
    <3> HIDE DEF d
    <3>1. {d} \cup Hops(walk, Scene, Turn) = {d}
      BY <1>2
    <3> QED
      BY <1>1, <3>1
  <2> HIDE DEF d
  <2> QED
    BY <2>1, <2>2, StagedAsBuilt
<1> DEFINE kids == Without(Below[e.place], {e.place})
<1>5. kids \in Seq(Places) /\ ToSet(kids) \subseteq Children(e.place)
  <2>1. Below[e.place] \in Seq(Children(e.place)) /\ Children(e.place) \subseteq Places
    BY <1>3, GraphTypes, SeqMembers DEF Children
  <2>2. kids \in Seq(Children(e.place) \ {e.place})
    BY <2>1, WithoutSeq
  <2> HIDE DEF kids
  <2>3. kids \in Seq(Children(e.place)) /\ kids \in Seq(Places)
    BY <2>1, <2>2, SeqMonotonic
  <2> QED
    BY <2>3, SeqMembers
<1> DEFINE met == {e.place} \cup Children(e.place)
           w == WalkFrom(kids, met, walk.changed, FALSE)
<1>6. walk' = w
  BY <1>1 DEF DrainWalk
<1>7. met \in SUBSET Places
  BY <1>3, GraphTypes
<1> HIDE DEF kids, met
<1>8. /\ w \in Walks /\ w.nodes = 0 /\ w.frontier = kids
      /\ w.targets = <<>> /\ w.ring = FALSE
  <2> DEFINE changed == walk.changed
  <2>1. changed \in SUBSET Places
    BY <1>2
  <2> HIDE DEF changed
  <2>2. LET x == WalkFrom(kids, met, changed, FALSE)
        IN  /\ x \in Walks /\ x.nodes = 0 /\ x.nodes <= NodeBudget
            /\ x.frontier = kids /\ x.targets = <<>> /\ x.ring = FALSE
    BY <1>5, <1>7, <2>1, WalkStarts
  <2> QED
    BY <2>2 DEF changed
<1>9. Turn' = Turn
  BY <1>1 DEF Turn
<1> QED
  BY <1>1, <1>3, <1>4, <1>5, <1>6, <1>8, <1>9

LEMMA AskLevelDoes ==
    ASSUME Walking, AskLevel
    PROVE  /\ UNCHANGED <<log, pc, mark, drain>> /\ pc \in {"drain", "descend"} /\ Turn' = Turn
           /\ asked' = asked + Len(Asked(walk)) /\ Asked(walk) # <<>>
           /\ \E verdict : /\ Judges(verdict, walk)
                           /\ staged' = staged \cup Evolved(walk, verdict, Turn)
                           /\ walk' \in LevelOf(walk, verdict)
<1>1. /\ UNCHANGED <<log, pc, mark, drain>> /\ pc \in {"drain", "descend"}
      /\ asked' = asked + Len(Asked(walk)) /\ Asked(walk) # <<>>
  BY DEF AskLevel
<1>2. PICK verdict \in [ToSet(Asked(walk)) -> UNION {Verdicts(p) : p \in ToSet(Asked(walk))}] :
         /\ \A p \in DOMAIN verdict : verdict[p] \in Verdicts(p)
         /\ Stage(Evolved(walk, verdict, Turn))
         /\ walk' = Level(walk, verdict)
  BY DEF AskLevel
<1>3. Judges(verdict, walk)
  BY <1>2 DEF Judges
<1>4. walk \in Walks /\ walk.nodes <= NodeBudget
  BY <1>1 DEF Walking
<1>5. walk' \in LevelOf(walk, verdict)
  BY <1>2, <1>3, <1>4, LevelStays
<1>6. \A e \in Evolved(walk, verdict, Turn) : IsEvent(e) /\ e.turn = Turn
  BY DEF Evolved, IsEvent, Event
<1>7. staged' = staged \cup Evolved(walk, verdict, Turn)
  BY <1>2, <1>6, StagedAsBuilt
<1>8. Turn' = Turn
  BY <1>1 DEF Turn
<1> QED
  BY <1>1, <1>3, <1>5, <1>7, <1>8

LEMMA RootsFinite == Roots(Seen) \subseteq Places /\ IsFiniteSet(Roots(Seen))
<1>1. Roots(Seen) \subseteq Places
  BY DEF Roots
<1> QED
  BY <1>1, CascadeAssumption, FS_Subset

LEMMA BeginDescentDoes ==
    ASSUME Walking, Queued, BeginDescent
    PROVE  /\ UNCHANGED <<log, mark, drain, asked>> /\ pc = "drain" /\ pc' = "descend"
           /\ Turn' = Turn /\ drain = {} /\ Asked(walk) = <<>>
           /\ staged' = staged \cup Watermark(log, Turn)
           /\ walk' \in Walks /\ walk'.nodes = 0 /\ walk'.targets = <<>>
           /\ ToSet(walk'.frontier) \subseteq Roots(Seen)
<1>1. /\ UNCHANGED <<log, mark, drain, asked>> /\ pc = "drain" /\ pc' = "descend" /\ drain = {}
      /\ Asked(walk) = <<>> /\ Stage(Hops(walk, Scene, Turn) \cup Watermark(Seen, Turn))
  BY DEF BeginDescent
<1>2. PICK order \in SetToSeqs(Roots(Seen)) : walk' = DescendWalk(order, walk.changed)
  BY DEF BeginDescent
<1>3. /\ walk \in Walks /\ Hops(walk, Scene, Turn) = {}
      /\ walk.changed \in SUBSET Places
  <2>1. walk \in Walks /\ walk.targets = <<>>
    BY <1>1 DEF Walking
  <2> QED
    BY <2>1, HopsAre DEF Walks
<1>4. Watermark(Seen, Turn) = Watermark(log, Turn)
  <2>1. Watermarks(staged) = {} /\ Deferred(staged) = {}
    BY <1>1 DEF Queued, Unspread, Deferred, Of
  <2> QED
    BY <2>1, SeenQueue
<1>5. staged' = staged \cup Watermark(log, Turn)
  <2>1. \A e \in Watermark(log, Turn) : IsEvent(e) /\ e.turn = Turn
    BY DEF Watermark, IsEvent, Event
  <2> QED
    BY <1>1, <1>3, <1>4, <2>1, StagedAsBuilt
<1>6. order \in Seq(Places) /\ ToSet(order) \subseteq Roots(Seen) /\ ToSet(order) \in SUBSET Places
  <2>1. order \in Seq(Roots(Seen)) /\ ToSet(order) \subseteq Roots(Seen)
    BY RootsFinite, OrderedSeq
  <2> QED
    BY <2>1, RootsFinite, SeqMonotonic
<1>7. walk' = WalkFrom(order, ToSet(order), walk.changed, TRUE) /\ TRUE \in BOOLEAN
  BY <1>2 DEF DescendWalk
<1>8. walk' \in Walks /\ walk'.nodes = 0 /\ walk'.frontier = order /\ walk'.targets = <<>>
  <2> DEFINE met == ToSet(order)
             changed == walk.changed
  <2>1. met \in SUBSET Places /\ changed \in SUBSET Places
    BY <1>3, <1>6
  <2> HIDE DEF met, changed
  <2>2. LET x == WalkFrom(order, met, changed, TRUE)
        IN  /\ x \in Walks /\ x.nodes = 0 /\ x.nodes <= NodeBudget
            /\ x.frontier = order /\ x.targets = <<>> /\ x.ring = TRUE
    BY <1>6, <1>7, <2>1, WalkStarts
  <2> QED
    BY <1>7, <2>2 DEF met, changed
<1>9. Turn' = Turn
  BY <1>1 DEF Turn
<1> QED
  BY <1>1, <1>5, <1>6, <1>8, <1>9

LEMMA EndCascadeDoes ==
    ASSUME Walking, EndCascade
    PROVE  /\ UNCHANGED log /\ Turn' = Turn /\ pc = "descend" /\ pc' = "publish" /\ LeaveCascade
           /\ staged' = staged \cup Hops(walk, Scene, Turn)
           /\ walk \in Walks
<1>1. /\ UNCHANGED log /\ pc = "descend" /\ pc' = "publish" /\ LeaveCascade
      /\ Stage(Hops(walk, Scene, Turn))
  BY DEF EndCascade
<1>2. walk \in Walks
  BY <1>1 DEF Walking
<1>3. staged' = staged \cup Hops(walk, Scene, Turn)
  BY <1>1, <1>2, HopsAre, StagedAsBuilt
<1>4. Turn' = Turn
  BY <1>1 DEF Turn
<1> QED
  BY <1>1, <1>2, <1>3, <1>4
LEMMA WalkingInit == ASSUME Init PROVE Walking
  BY DEF Init, Walking

LEMMA WalkingKept == ASSUME Shape, Walking, Queued, [Next]_vars PROVE Walking'
<1>1. CASE UNCHANGED vars
  BY <1>1 DEF vars, cascadeVars, Walking
<1>2. ASSUME UNCHANGED cascadeVars, pc \notin {"drain", "descend"}, pc' \notin {"drain", "descend"}
      PROVE  Walking'
  BY <1>2 DEF cascadeVars, Walking
<1>3. ASSUME LeaveCascade, pc' \notin {"drain", "descend"} PROVE Walking'
  BY <1>3 DEF LeaveCascade, Walking
<1>4. CASE BeginCascade
  <2>1. <<>> \in Seq(Places)
    BY EmptySeq
  <2>2. NoWalk \in Walks /\ NoWalk.nodes <= NodeBudget /\ ~NoWalk.ring /\ NoWalk.targets = <<>>
    BY <2>1, CascadeAssumption DEF NoWalk, Walks
  <2>3. pc = "cascade" /\ pc' = "drain" /\ walk' = walk /\ walk = NoWalk
    BY <1>4 DEF BeginCascade, Walking
  <2> QED
    BY <2>2, <2>3 DEF Walking
<1>5. ASSUME NEW e \in drain, DrainRegion(e) PROVE Walking'
  <2>1. /\ pc = "drain" /\ pc' = pc /\ walk' \in Walks /\ walk'.nodes = 0
        /\ ~walk'.ring /\ walk'.targets = <<>>
    BY <1>5, DrainRegionDoes
  <2> QED
    BY <2>1, CascadeAssumption DEF Walking
<1>6. CASE AskLevel
  <2>1. PICK verdict : walk' \in LevelOf(walk, verdict)
    BY <1>6, AskLevelDoes
  <2>2. /\ walk' \in Walks /\ walk'.nodes = walk.nodes + Len(Asked(walk)) /\ walk'.ring = walk.ring
        /\ ~walk.ring => walk'.targets = walk.targets
    BY <2>1 DEF LevelOf
  <2>3. pc' = pc /\ pc \in {"drain", "descend"}
    BY <1>6, AskLevelDoes
  <2>4. walk.nodes + Len(Asked(walk)) <= NodeBudget
    BY <2>3, AskedTypes DEF Walking
  <2> QED
    BY <2>2, <2>3, <2>4 DEF Walking
<1>7. CASE BeginDescent
  <2>1. pc' = "descend" /\ walk' \in Walks /\ walk'.nodes = 0
    BY <1>7, BeginDescentDoes
  <2> QED
    BY <2>1, CascadeAssumption DEF Walking
<1>8. CASE Next
  <2>1. ASSUME NEW areas, Narrate(areas) PROVE Walking'
    BY <1>2, <2>1 DEF Narrate
  <2>2. CASE GoesOn(DigestTypes) /\ pc = "digest" /\ pc' = "direct" /\ UNCHANGED cascadeVars
    BY <1>2, <2>2
  <2>3. ASSUME NEW out, Direct(out) PROVE Walking'
    BY <1>2, <2>3 DEF Direct
  <2>4. CASE DirectorFails
    BY <1>2, <2>4 DEF DirectorFails
  <2>5. CASE NothingToCascade
    BY <1>2, <2>5 DEF NothingToCascade
  <2>6. ASSUME NEW turn, Rewind(turn) PROVE Walking'
    BY <1>2, <2>6 DEF Rewind
  <2>7. CASE EndCascade
    BY <1>3, <2>7 DEF EndCascade
  <2>8. CASE CascadeFails
    BY <1>3, <2>8 DEF CascadeFails
  <2>9. ASSUME NEW moved, Publish(moved) PROVE Walking'
    BY <1>3, <2>9 DEF Publish, EndTurn
  <2>10. CASE Drop
    BY <1>3, <2>10 DEF Drop, EndTurn
  <2> QED
    BY <1>4, <1>5, <1>6, <1>7, <1>8, <2>1, <2>2, <2>3, <2>4, <2>5, <2>6, <2>7, <2>8, <2>9, <2>10,
       HookSteps
<1> QED
  BY <1>1, <1>8

LEMMA QueuedInit == ASSUME Init PROVE Queued
<1>1. Drained(log) = {} /\ Watermarks(log) = {} /\ Deferred(log) = {}
  BY DEF Init, Drained, Watermarks, Deferred, Of
<1> QED
  BY <1>1 DEF Init, Queued, Queue

\* A quiet turn touches no queue.
LEMMA QuietIs ==
    ASSUME NEW events, Quiet(events)
    PROVE  Drained(events) = {} /\ Watermarks(events) = {} /\ Deferred(events) = {}
           /\ Unspread(events)
  BY DEF Quiet, QueueTypes, Drained, Watermarks, Deferred, Of, Unspread

LEMMA QueuedKept == ASSUME Shape, Walking, Queued, [Next]_vars PROVE Queued'
<1>1. CASE UNCHANGED vars
  <2>1. Turn' = Turn
    BY <1>1 DEF vars, Turn
  <2> QED
    BY <1>1, <2>1 DEF vars, cascadeVars, Queued, Walked, Swept
<1>2. ASSUME UNCHANGED log, Quiet(staged)', pc' \in {"digest", "direct", "cascade", "publish"}
      PROVE  Queued'
  BY <1>2 DEF Queued
<1>3. ASSUME NEW areas, Narrate(areas) PROVE Queued'
  <2> DEFINE events == {Event("clock_advanced", Turn, NoPlace, 0),
                        Event("narration_recorded", Turn, Scene, Inject(log))}
                       \cup {Event("declared", Turn, p, 0) : p \in areas}
  <2>1. staged' = events /\ UNCHANGED log /\ pc' = "digest"
    BY <1>3, NarrateTells
  <2>2. \A e \in events : e.type \in {"clock_advanced", "narration_recorded", "declared"}
    BY DEF Event
  <2> HIDE DEF events
  <2>3. Quiet(staged)'
    BY <2>1, <2>2 DEF Quiet, QueueTypes
  <2> QED
    BY <1>2, <2>1, <2>3
<1>4. ASSUME NEW types, GoesOn(types), types \cap QueueTypes = {},
             pc \in {"digest", "direct"}, pc' \in {"direct", "cascade"}
      PROVE  Queued'
  <2>1. Quiet(staged) /\ UNCHANGED log /\ Adds(types)
    BY <1>4 DEF Queued, GoesOn
  <2>2. \A e \in staged' \ staged : e.type \in types
    BY <2>1, AddsEvents
  <2>3. Quiet(staged)'
    BY <1>4, <2>1, <2>2 DEF Quiet
  <2> QED
    BY <1>2, <1>4, <2>1, <2>3
<1>5. ASSUME UNCHANGED <<log, staged>>, pc \in {"direct", "cascade"}, pc' \in {"cascade", "publish"}
      PROVE  Queued'
  <2>1. Quiet(staged)'
    BY <1>5 DEF Queued, Quiet
  <2> QED
    BY <1>2, <1>5, <2>1
<1>6. CASE BeginCascade
  <2>1. /\ pc = "cascade" /\ pc' = "drain" /\ mark' = staged /\ drain' = Pending(Seen)
        /\ UNCHANGED <<log, staged>>
    BY <1>6 DEF BeginCascade
  <2>2. Quiet(staged) /\ Queue(log)
    BY <2>1 DEF Queued
  <2>3. Pending(Seen) = Pending(log)
    BY <2>2, QuietIs, SeenQueue
  <2>4. Walked(staged, {})
    BY <2>2, QuietIs DEF Walked
  <2>5. Pending(log) \ drain' = {} /\ Turn' = Turn
    BY <2>1, <2>3 DEF Turn
  <2>6. Walked(staged, Pending(log) \ drain)'
    BY <2>1, <2>4, <2>5 DEF Walked
  <2>7. Quiet(staged)' /\ Watermarks(staged)' = {} /\ Unspread(staged)' /\ Quiet(mark)'
    BY <2>1, <2>2, QuietIs
  <2> QED
    BY <2>1, <2>2, <2>3, <2>6, <2>7 DEF Queued
<1>7. ASSUME NEW e \in drain, DrainRegion(e) PROVE Queued'
  <2> DEFINE d == Event("drained", Turn, e.place, e.turn)
             P == Pending(log)
  <2>1. /\ UNCHANGED <<log, pc, mark>> /\ pc = "drain" /\ Turn' = Turn
        /\ e \in P /\ drain' = drain \ {e} /\ staged' = staged \cup {d}
    BY <1>7, DrainRegionDoes
  <2>2. d.type = "drained"
    BY DEF Event
  <2>3. /\ Queue(log) /\ Quiet(mark) /\ Unspread(staged) /\ drain \subseteq P
        /\ Walked(staged, P \ drain) /\ Watermarks(staged) = {}
    BY <2>1 DEF Queued
  <2>4. Unspread(staged)' /\ Watermarks(staged)' = {} /\ Drained(staged)' = Drained(staged) \cup {d}
    <3> HIDE DEF d
    <3> QED
      BY <2>1, <2>2, <2>3 DEF Unspread, Watermarks, Drained, Of
  <2> HIDE DEF P
  <2>5. P \ drain' = (P \ drain) \cup {e}
    BY <1>7, <2>1, <2>3
  <2>6. Drained(staged)' = {Event("drained", Turn, x.place, x.turn) : x \in P \ drain'}
    BY <2>3, <2>4, <2>5 DEF Walked
  <2>7. Walked(staged, Pending(log) \ drain)'
    BY <2>1, <2>6 DEF Walked, P
  <2> QED
    BY <2>1, <2>3, <2>4, <2>7 DEF Queued, P
<1>8. CASE AskLevel
  <2>1. PICK verdict : staged' = staged \cup Evolved(walk, verdict, Turn)
    BY <1>8, AskLevelDoes
  <2>2. UNCHANGED <<log, pc, mark, drain>> /\ pc \in {"drain", "descend"} /\ Turn' = Turn
    BY <1>8, AskLevelDoes
  <2>3. \A e \in Evolved(walk, verdict, Turn) : e.type = "place_evolved"
    BY DEF Evolved, Event
  <2>4. /\ Drained(staged)' = Drained(staged) /\ Watermarks(staged)' = Watermarks(staged)
        /\ Deferred(staged)' = Deferred(staged) /\ (Unspread(staged) => Unspread(staged)')
    BY <2>1, <2>3 DEF Drained, Watermarks, Deferred, Of, Unspread
  <2>5. CASE pc = "drain"
    <3>1. Walked(staged, Pending(log) \ drain)'
      BY <2>2, <2>4, <2>5 DEF Queued, Walked
    <3> QED
      BY <2>2, <2>4, <2>5, <3>1 DEF Queued
  <2>6. CASE pc = "descend"
    <3>1. Swept(staged)'
      BY <2>2, <2>4, <2>6 DEF Queued, Swept, Walked
    <3> QED
      BY <2>2, <2>4, <2>6, <3>1 DEF Queued
  <2> QED
    BY <2>2, <2>5, <2>6
<1>9. CASE BeginDescent
  <2>1. /\ UNCHANGED <<log, mark>> /\ pc = "drain" /\ pc' = "descend" /\ Turn' = Turn
        /\ drain = {} /\ staged' = staged \cup Watermark(log, Turn)
    BY <1>9, BeginDescentDoes
  <2>2. \A e \in Watermark(log, Turn) : e.type = "watermark"
    BY DEF Watermark, Event
  <2>3. /\ Queue(log) /\ Quiet(mark) /\ Unspread(staged)
        /\ Walked(staged, Pending(log)) /\ Watermarks(staged) = {}
    BY <2>1 DEF Queued
  <2>4. /\ Drained(staged)' = Drained(staged) /\ Watermarks(staged)' = Watermark(log, Turn)
        /\ Unspread(staged)'
    BY <2>1, <2>2, <2>3 DEF Drained, Watermarks, Of, Unspread
  <2>5. Deferred(staged)' = {}
    BY <2>4 DEF Unspread, Deferred, Of
  <2>6. Swept(staged)'
    BY <2>1, <2>3, <2>4, <2>5 DEF Swept, Walked
  <2> QED
    BY <2>1, <2>3, <2>4, <2>6 DEF Queued
<1>10. CASE EndCascade
  <2>1. /\ UNCHANGED log /\ Turn' = Turn /\ pc = "descend" /\ pc' = "publish"
        /\ staged' = staged \cup Hops(walk, Scene, Turn) /\ walk \in Walks
    BY <1>10, EndCascadeDoes
  <2>2. \A e \in Hops(walk, Scene, Turn) :
           e.type \in {"hop", "deferred"} /\ e.place \in Places /\ e.n = 0
    BY <2>1, HopsAre
  <2>3. Swept(staged) /\ Queue(log)
    BY <2>1 DEF Queued
  <2>4. /\ Drained(staged)' = Drained(staged) /\ Watermarks(staged)' = Watermarks(staged)
        /\ \A d \in Deferred(staged)' : d.place \in Places /\ d.n = 0
    BY <2>1, <2>2, <2>3 DEF Drained, Watermarks, Deferred, Of, Swept
  <2>5. Swept(staged)'
    BY <2>1, <2>3, <2>4 DEF Swept, Walked
  <2> QED
    BY <2>1, <2>3, <2>5 DEF Queued
<1>11. CASE CascadeFails
  <2>1. UNCHANGED log /\ staged' = mark /\ pc' = "publish" /\ Quiet(mark)
    BY <1>11 DEF CascadeFails, Queued
  <2> QED
    BY <1>2, <2>1
<1>12. ASSUME NEW moved \in BOOLEAN, Publish(moved) PROVE Queued'
  <2>1. PICK rest : /\ log' = log \cup staged \cup rest
                    /\ \A e \in rest : IsEvent(e) /\ e.turn = Turn /\ e.type = "scene_advanced"
    BY <1>12, PublishGrows
  <2>2. pc = "publish" /\ pc' = "idle"
    BY <1>12 DEF Publish, EndTurn
  <2> DEFINE new == staged \cup rest
  <2>3. /\ Drained(new) = Drained(staged) /\ Watermarks(new) = Watermarks(staged)
        /\ Deferred(new) = Deferred(staged)
    BY <2>1 DEF Drained, Watermarks, Deferred, Of
  <2>4. \A e \in new : IsEvent(e) /\ e.turn = Turn
    BY <2>1, <2>2 DEF Shape, Told
  <2>5. log' = log \cup new
    BY <2>1
  <2> HIDE DEF new
  <2>6. \/ Drained(new) = {} /\ Watermarks(new) = {} /\ Deferred(new) = {}
        \/ Swept(new)
    BY <2>2, <2>3, QuietIs DEF Queued, Swept, Walked
  <2>7. Queue(log \cup new)
    BY <2>2, <2>4, <2>6, QueueGrows DEF Queued, Shape
  <2> QED
    BY <2>2, <2>5, <2>7 DEF Queued
<1>13. CASE Drop
  BY <1>13 DEF Drop, EndTurn, Queued
<1>14. ASSUME NEW turn \in Turns(log), Rewind(turn) PROVE Queued'
  <2>1. Queue({e \in log : e.turn < turn})
    BY QueueShrinks DEF Shape, Queued
  <2> QED
    BY <1>14, <2>1 DEF Rewind, Queued
<1>15. CASE Next
  <2>1. CASE GoesOn(DigestTypes) /\ pc = "digest" /\ pc' = "direct" /\ UNCHANGED cascadeVars
    BY <1>4, <2>1 DEF DigestTypes, QueueTypes
  <2>2. ASSUME NEW out, Direct(out) PROVE Queued'
    <3>1. GoesOn(DirectorTypes) /\ pc = "direct" /\ pc' = "cascade"
      BY <2>2, CascadeSteps DEF Direct
    <3> QED
      BY <1>4, <3>1 DEF DirectorTypes, QueueTypes
  <2>3. CASE DirectorFails
    BY <1>5, <2>3 DEF DirectorFails
  <2>4. CASE NothingToCascade
    BY <1>5, <2>4 DEF NothingToCascade
  <2> QED
    BY <1>3, <1>6, <1>7, <1>8, <1>9, <1>10, <1>11, <1>12, <1>13, <1>14, <1>15, <2>1, <2>2, <2>3,
       <2>4, HookSteps
<1> QED
  BY <1>1, <1>15

\* A region put off in one turn is walked in a later one exactly once, by the time
\* the watermark passes it, and never again: hooks that fail, turns that are dropped
\* and turns that are rewound, whose numbers are used again, change nothing of it.
THEOREM RegionsAreDrainedOnce == Spec => []DrainedOnce
<1>1. Init => Shape /\ Walking /\ Queued
  BY ShapeInit, WalkingInit, QueuedInit
<1>2. Shape /\ Walking /\ Queued /\ [Next]_vars => (Shape /\ Walking /\ Queued)'
  BY ShapeKept, WalkingKept, QueuedKept
<1>3. Shape /\ Queued => DrainedOnce
  BY QueueDrains DEF Shape, Queued
<1> QED
  BY <1>1, <1>2, <1>3, PTL DEF Spec
-----------------------------------------------------------------------------
(* How far a change spreads.                                                *)

Declared(h) == Of(h, "declared")

\* The regions the changes of one turn spread to.
Spread(h, turn) == {e \in Deferred(h) \cup Of(h, "hop") : e.turn = turn}
Ring(h) == \A t \in Turns(h) :
    /\ IsFiniteSet(Spread(h, t)) /\ Cardinality(Spread(h, t)) <= SecondaryBreadth
    /\ Spread(h, t) # {} => \E c \in Declared(h) : c.turn = t

\* Why a place may change in a turn.
Caused(place, h, turn) ==
    \/ \E c \in Declared(h) : c.turn = turn /\ c.place = place
    \/ \E c \in Drained(h) : c.turn = turn /\ place \in Children(c.place)
    \/ \E c \in Of(h, "place_evolved") : c.turn = turn /\ place \in Children(c.place)
Causes(h) == \A e \in Of(h, "place_evolved") : Caused(e.place, h, e.turn)

\* The walks the turn under way has begun with the queue.
Begun == Cardinality(Drained(staged))

Spreading ==
    /\ Ring(log) /\ Causes(log) /\ Ring(staged) /\ Causes(staged)
    /\ pc \in {"drain", "descend"} =>
        /\ \A p \in ToSet(walk.frontier) : Caused(p, staged, Turn)
        /\ IsFiniteSet(Drained(staged)) /\ asked \in Nat
    /\ pc = "drain" =>
        IF Begun = 0 THEN asked = 0 /\ walk.frontier = <<>>
        ELSE asked + NodeBudget <= NodeBudget * Begun + walk.nodes
    /\ pc = "descend" =>
        /\ asked <= NodeBudget * Begun + walk.nodes
        /\ walk.frontier # <<>> \/ walk.targets # <<>> => Declared(staged) # {}

LEMMA UnspreadRing ==
    ASSUME NEW h, Unspread(h)
    PROVE  Ring(h)
<1>1. \A t : Spread(h, t) = {}
  BY DEF Unspread, Spread, Deferred, Of
<1>2. IsFiniteSet({}) /\ Cardinality({}) = 0
  BY FS_EmptySet
<1>3. 0 <= SecondaryBreadth
  BY CascadeAssumption
<1> QED
  BY <1>1, <1>2, <1>3 DEF Ring

LEMMA QuietCauses ==
    ASSUME NEW h, Quiet(h)
    PROVE  Causes(h)
  BY DEF Quiet, QueueTypes, Causes, Of

\* A turn joins the history, with what else it did.
LEMMA SpreadGrows ==
    ASSUME Numbered(log), Ring(log), Causes(log), NEW events, NEW rest,
           Ring(events), Causes(events), \A e \in events \cup rest : e.turn = Turn,
           \A e \in rest : e.type = "scene_advanced"
    PROVE  Ring(log \cup events \cup rest) /\ Causes(log \cup events \cup rest)
<1> DEFINE h == log \cup events \cup rest
           last == Latest(Turns(log))
<1>1. last \in Nat /\ Turn = last + 1 /\ \A e \in log : e.turn \in 1..last
  BY LastTurn, BackstageAssumption DEF Turn
<1>2. \A type : type # "scene_advanced" => Of(h, type) = Of(log, type) \cup Of(events, type)
  BY DEF Of
<1>3. /\ Deferred(h) = Deferred(log) \cup Deferred(events)
      /\ Of(h, "hop") = Of(log, "hop") \cup Of(events, "hop")
      /\ Declared(h) = Declared(log) \cup Declared(events)
      /\ Drained(h) = Drained(log) \cup Drained(events)
      /\ Of(h, "place_evolved") = Of(log, "place_evolved") \cup Of(events, "place_evolved")
  BY <1>2 DEF Deferred, Declared, Drained
<1>4. /\ \A type : \A e \in Of(log, type) : e.turn \in 1..last
      /\ \A type : \A e \in Of(events, type) : e.turn = Turn
  BY <1>1 DEF Of
<1> HIDE DEF h
<1>5. ASSUME NEW t \in Turns(h)
      PROVE  /\ IsFiniteSet(Spread(h, t)) /\ Cardinality(Spread(h, t)) <= SecondaryBreadth
             /\ Spread(h, t) # {} => \E c \in Declared(h) : c.turn = t
  <2>1. CASE t = Turn
    <3>1. Spread(h, t) = Spread(events, Turn)
      BY <1>1, <1>3, <1>4, <2>1 DEF Spread, Deferred
    <3>2. CASE Spread(events, Turn) = {}
      <4>1. IsFiniteSet({}) /\ Cardinality({}) = 0
        BY FS_EmptySet
      <4> QED
        BY <3>1, <3>2, <4>1, CascadeAssumption
    <3>3. CASE Spread(events, Turn) # {}
      <4>1. Turn \in Turns(events)
        BY <3>3 DEF Spread, Deferred, Of, Turns
      <4> QED
        BY <1>3, <2>1, <3>1, <4>1 DEF Ring
    <3> QED
      BY <3>2, <3>3
  <2>2. CASE t # Turn
    <3>1. Spread(h, t) = Spread(log, t)
      BY <1>3, <1>4, <2>2 DEF Spread, Deferred
    <3>2. t \in Turns(log)
      <4>1. PICK e \in h : e.turn = t
        BY DEF Turns
      <4>2. e \in log
        BY <2>2, <4>1 DEF h
      <4> QED
        BY <4>1, <4>2 DEF Turns
    <3> QED
      BY <1>3, <3>1, <3>2 DEF Ring
  <2> QED
    BY <2>1, <2>2
<1>6. \A p, t : Caused(p, log, t) \/ Caused(p, events, t) => Caused(p, h, t)
  BY <1>3 DEF Caused
<1>7. Causes(h)
  BY <1>3, <1>6 DEF Causes
<1>8. Ring(h)
  BY <1>5 DEF Ring
<1> QED
  BY <1>7, <1>8 DEF h

LEMMA SpreadShrinks ==
    ASSUME NEW h, Numbered(h), Ring(h), Causes(h), NEW turn \in Turns(h)
    PROVE  Ring({e \in h : e.turn < turn}) /\ Causes({e \in h : e.turn < turn})
<1> DEFINE g == {e \in h : e.turn < turn}
<1>1. \A type, e : e \in Of(g, type) <=> e \in Of(h, type) /\ e.turn < turn
  BY DEF Of
<1>2. \A t \in Turns(g) : t \in Turns(h) /\ t < turn
  BY DEF Turns
<1> HIDE DEF g
<1>3. \A t \in Turns(g) : Spread(g, t) = Spread(h, t)
  BY <1>1, <1>2 DEF Spread, Deferred
<1>4. \A t \in Turns(g), c \in Declared(h) : c.turn = t => c \in Declared(g)
  BY <1>1, <1>2 DEF Declared
<1>5. Ring(g)
  BY <1>2, <1>3, <1>4 DEF Ring
<1>6. \A p, t : Caused(p, h, t) /\ t < turn => Caused(p, g, t)
  BY <1>1 DEF Caused, Declared, Drained
<1>7. Causes(g)
  BY <1>1, <1>6 DEF Causes
<1> QED
  BY <1>5, <1>7 DEF g

\* What the declared places of this turn are.
LEMMA RootsDeclared ==
    ASSUME Shape, pc # "idle", Unspread(staged)
    PROVE  \A p \in Roots(Seen) : \E c \in Declared(staged) : c.turn = Turn /\ c.place = p
<1> DEFINE clock == Turns(Of(Seen, "clock_advanced"))
           last == Latest(Turns(log))
<1>1. /\ last \in Nat /\ Turn = last + 1 /\ \A e \in log : e.turn \in 1..last
      /\ \A e \in staged : e.turn = Turn
  BY LastTurn, BackstageAssumption DEF Turn, Shape, Told
<1>2. Turn \in Nat /\ clock \subseteq Nat /\ \A t \in clock : t <= Turn
  <2>1. Turn \in Nat /\ \A e \in Seen : e.turn \in Nat /\ e.turn <= Turn
    BY <1>1 DEF Seen
  <2>2. \A t \in clock : \E e \in Seen : e.turn = t
    BY DEF Turns, Of
  <2> HIDE DEF clock
  <2> QED
    BY <2>1, <2>2
<1>3. Turn \in clock
  <2>1. PICK e \in Of(staged, "clock_advanced") : TRUE
    BY DEF Shape, Told
  <2> QED
    BY <1>1, <2>1 DEF Turns, Of, Seen
<1>4. Latest(clock) = Turn
  <2> HIDE DEF clock
  <2>1. Latest(clock) \in Nat /\ Latest(clock) <= Turn /\ Turn <= Latest(clock)
    BY <1>2, <1>3, LatestOf
  <2> QED
    BY <1>2, <2>1
<1> SUFFICES ASSUME NEW p \in Roots(Seen)
             PROVE  \E c \in Declared(staged) : c.turn = Turn /\ c.place = p
  OBVIOUS
<1>5. PICK d \in Seen : d.type \in {"declared", "hop"} /\ d.turn = Turn /\ d.place = p
  BY <1>4 DEF Roots
<1>6. d \in staged
  BY <1>1, <1>5 DEF Seen
<1> QED
  BY <1>5, <1>6 DEF Unspread, Declared, Of
LEMMA CausedGrows ==
    ASSUME NEW h, NEW g, h \subseteq g, NEW p, NEW t, Caused(p, h, t)
    PROVE  Caused(p, g, t)
  BY DEF Caused, Declared, Drained, Of

LEMMA SpreadingInit == ASSUME Init PROVE Spreading
<1>1. Quiet({})
  BY DEF Quiet
<1>2. Ring({}) /\ Causes({})
  BY <1>1, QuietIs, UnspreadRing, QuietCauses
<1> QED
  BY <1>2 DEF Init, Spreading

\* The budgets: a walk over the queue begins with nothing left of the one before.
LEMMA DrainRegionSpreads ==
    ASSUME Shape, Walking, Queued, Queued', Spreading, NEW e \in drain, DrainRegion(e)
    PROVE  Spreading'
<1> DEFINE d == Event("drained", Turn, e.place, e.turn)
           P == Pending(log)
<1>1. /\ UNCHANGED <<log, pc, mark, asked>> /\ pc = "drain" /\ Turn' = Turn
      /\ e \in P /\ staged' = staged \cup {d} /\ walk'.nodes = 0
      /\ ToSet(walk'.frontier) \subseteq Children(e.place)
  BY DrainRegionDoes
<1>2. d.type = "drained" /\ d.place = e.place /\ d.turn = Turn /\ d.n = e.turn
  BY DEF Event
<1>3. Unspread(staged)'
  BY <1>1 DEF Queued
<1>4. Ring(staged)'
  BY <1>3, UnspreadRing
<1>5. /\ Of(staged', "place_evolved") = Of(staged, "place_evolved")
      /\ Drained(staged') = Drained(staged) \cup {d}
  <2> HIDE DEF d
  <2> QED
    BY <1>1, <1>2 DEF Drained, Of
<1>6. Causes(staged)'
  <2>1. staged \subseteq staged'
    BY <1>1
  <2> QED
    BY <1>5, <2>1, CausedGrows DEF Spreading, Causes
<1>7. \A p \in ToSet(walk'.frontier) : Caused(p, staged', Turn')
  <2> HIDE DEF d
  <2> QED
    BY <1>1, <1>2, <1>5 DEF Caused
<1>8. d \notin Drained(staged)
  <2>1. \A x \in P : IsEvent(x) /\ x.type = "deferred" /\ x.n = 0
    <3>1. \A x \in P : x \in Deferred(log) /\ x \in log /\ x.type = "deferred"
      BY DEF Pending, Deferred, Of
    <3> QED
      BY <3>1 DEF Shape, Numbered, Queued, Queue
  <2>2. Drained(staged) = {Event("drained", Turn, x.place, x.turn) : x \in P \ drain}
    BY <1>1 DEF Queued, Walked
  <2>3. SUFFICES ASSUME NEW x \in P \ drain, Event("drained", Turn, x.place, x.turn) = d
                 PROVE  FALSE
    BY <2>2
  <2>4. x.place = e.place /\ x.turn = e.turn
    BY <2>3 DEF Event
  <2>5. x = e
    <3>1. /\ x = Event("deferred", x.turn, x.place, 0)
          /\ e = Event("deferred", e.turn, e.place, 0)
      <4> HIDE DEF P
      <4> QED
        BY <1>1, <2>1, <2>3 DEF IsEvent
    <3> QED
      BY <2>4, <3>1
  <2> QED
    BY <2>3, <2>5
<1>9. /\ IsFiniteSet(Drained(staged)) /\ Cardinality(Drained(staged)) = Begun /\ Begun \in Nat
      /\ asked \in Nat
  BY <1>1, FS_CardinalityType DEF Spreading, Begun
<1>10. IsFiniteSet(Drained(staged')) /\ Begun' = Begun + 1
  <2> HIDE DEF d
  <2> QED
    BY <1>5, <1>8, <1>9, FS_AddElement DEF Begun
<1>11. walk.nodes \in Nat /\ walk.nodes <= NodeBudget /\ NodeBudget \in Nat
  BY <1>1, CascadeAssumption DEF Walking, Walks
<1>12. asked + NodeBudget <= NodeBudget * (Begun + 1)
  <2>1. NodeBudget * (Begun + 1) = NodeBudget * Begun + NodeBudget
    BY <1>9, <1>11
  <2>2. NodeBudget * Begun \in Nat
    BY <1>9, <1>11
  <2>3. CASE Begun = 0
    <3>1. asked = 0
      BY <1>1, <2>3 DEF Spreading
    <3> QED
      BY <1>11, <2>1, <2>2, <3>1
  <2>4. CASE Begun # 0
    <3>1. asked + NodeBudget <= NodeBudget * Begun + walk.nodes
      BY <1>1, <2>4 DEF Spreading
    <3> HIDE DEF Begun
    <3> QED
      BY <1>9, <1>11, <2>1, <2>2, <3>1
  <2> QED
    BY <2>3, <2>4
<1>13. NodeBudget * (Begun + 1) \in Nat
  BY <1>9, <1>11
<1>14. Begun' # 0 /\ asked' + NodeBudget <= NodeBudget * Begun' + walk'.nodes
  <2>1. Begun' # 0
    BY <1>9, <1>10
  <2>2. asked' = asked /\ walk'.nodes = 0 /\ Begun' = Begun + 1
    BY <1>1, <1>10
  <2> QED
    BY <1>12, <1>13, <2>1, <2>2
<1>15. pc' = "drain" /\ Ring(log)' /\ Causes(log)' /\ asked' \in Nat
  BY <1>1, <1>9 DEF Spreading
<1> QED
  BY <1>4, <1>6, <1>7, <1>10, <1>14, <1>15 DEF Spreading

LEMMA AskLevelSpreads ==
    ASSUME Walking, Queued', Spreading, AskLevel
    PROVE  Spreading'
<1>1. /\ UNCHANGED <<log, pc, mark, drain>> /\ pc \in {"drain", "descend"} /\ Turn' = Turn
      /\ asked' = asked + Len(Asked(walk)) /\ Asked(walk) # <<>>
  BY AskLevelDoes
<1>2. PICK verdict : /\ Judges(verdict, walk)
                     /\ staged' = staged \cup Evolved(walk, verdict, Turn)
                     /\ walk' \in LevelOf(walk, verdict)
  BY AskLevelDoes
<1> DEFINE E == Evolved(walk, verdict, Turn)
           Changed == {q \in ToSet(Asked(walk)) : verdict[q].evolve}
<1>3. /\ \A e \in E : e.type = "place_evolved" /\ e.turn = Turn /\ e.place \in Changed
      /\ \A q \in Changed : \E e \in E : e.type = "place_evolved" /\ e.turn = Turn /\ e.place = q
  <2>1. \A q : LET e == Event("place_evolved", Turn, q, 0)
               IN  e.type = "place_evolved" /\ e.turn = Turn /\ e.place = q
    BY DEF Event
  <2>2. E = {Event("place_evolved", Turn, q, 0) : q \in Changed}
    BY DEF Evolved
  <2> HIDE DEF Changed, E
  <2> QED
    BY <2>1, <2>2
<1>4. /\ walk \in Walks /\ walk.nodes <= NodeBudget
      /\ ToSet(Asked(walk)) \subseteq ToSet(walk.frontier) /\ walk.frontier # <<>>
      /\ Len(Asked(walk)) \in Nat
  <2>1. walk \in Walks /\ walk.nodes <= NodeBudget
    BY <1>1 DEF Walking
  <2> QED
    BY <1>1, <2>1, AskedTypes
<1>5. Unspread(staged)'
  BY <1>1 DEF Queued
<1>6. Ring(staged)'
  BY <1>5, UnspreadRing
<1> HIDE DEF E
<1>7. staged \subseteq staged' /\ Declared(staged) \subseteq Declared(staged')
      /\ Drained(staged') = Drained(staged)
      /\ Of(staged', "place_evolved") = Of(staged, "place_evolved") \cup E
  BY <1>2, <1>3 DEF E, Declared, Drained, Of
<1>8. Causes(staged)'
  <2>1. ASSUME NEW e \in Of(staged, "place_evolved") PROVE Caused(e.place, staged', e.turn)
    BY <1>7, CausedGrows DEF Spreading, Causes
  <2>2. ASSUME NEW e \in E PROVE Caused(e.place, staged', e.turn)
    <3>1. e.turn = Turn /\ e.place \in ToSet(walk.frontier)
      BY <1>3, <1>4
    <3>2. Caused(e.place, staged, Turn)
      BY <1>1, <3>1 DEF Spreading
    <3> QED
      BY <1>7, <3>1, <3>2, CausedGrows
  <2> QED
    BY <1>7, <2>1, <2>2 DEF Causes
<1>9. \A p \in ToSet(walk'.frontier) : Caused(p, staged', Turn')
  <2> SUFFICES ASSUME NEW p \in ToSet(walk'.frontier) PROVE Caused(p, staged', Turn)
    BY <1>1
  <2>1. p \in Kids(walk, verdict)
    BY <1>2 DEF LevelOf
  <2>2. PICK q \in Changed : p \in Children(q)
    BY <2>1 DEF Kids
  <2>3. PICK e \in E : e.type = "place_evolved" /\ e.turn = Turn /\ e.place = q
    BY <1>3, <2>2
  <2>4. e \in Of(staged', "place_evolved")
    BY <1>7, <2>3
  <2> QED
    BY <2>2, <2>3, <2>4 DEF Caused
<1>10. /\ walk'.nodes = walk.nodes + Len(Asked(walk)) /\ walk.nodes \in Nat
       /\ IsFiniteSet(Drained(staged)) /\ Begun \in Nat /\ Begun' = Begun
       /\ asked \in Nat /\ NodeBudget \in Nat
  <2>1. IsFiniteSet(Drained(staged)) /\ asked \in Nat
    BY <1>1 DEF Spreading
  <2> QED
    BY <1>2, <1>4, <1>7, <2>1, FS_CardinalityType, CascadeAssumption DEF LevelOf, Walks, Begun
<1>11. NodeBudget * Begun \in Nat
  BY <1>10
<1>12. CASE pc = "drain"
  <2>1. Begun # 0
    BY <1>4, <1>12 DEF Spreading
  <2>2. asked + NodeBudget <= NodeBudget * Begun + walk.nodes
    BY <1>12, <2>1 DEF Spreading
  <2> DEFINE m == Len(Asked(walk))
             total == NodeBudget * Begun
  <2>3. asked + m + NodeBudget <= total + (walk.nodes + m)
    <3>1. m \in Nat /\ total \in Nat
      BY <1>4, <1>11
    <3>2. asked + NodeBudget <= total + walk.nodes
      BY <2>2
    <3> HIDE DEF m, total
    <3> QED
      BY <1>10, <3>1, <3>2
  <2>4. asked' + NodeBudget <= NodeBudget * Begun' + walk'.nodes
    <3> HIDE DEF m
    <3> QED
      BY <1>1, <1>10, <2>3 DEF m
  <2>5. pc' = "drain" /\ asked' \in Nat
    BY <1>1, <1>4, <1>10, <1>12
  <2>6. Ring(log)' /\ Causes(log)' /\ IsFiniteSet(Drained(staged))'
    BY <1>1, <1>7, <1>10 DEF Spreading
  <2>7. Begun' # 0
    BY <1>10, <2>1
  <2> QED
    BY <1>6, <1>8, <1>9, <2>4, <2>5, <2>6, <2>7 DEF Spreading
<1>13. CASE pc = "descend"
  <2>1. asked <= NodeBudget * Begun + walk.nodes /\ Declared(staged) # {}
    BY <1>4, <1>13 DEF Spreading
  <2> DEFINE m == Len(Asked(walk))
             total == NodeBudget * Begun
  <2>2. asked + m <= total + (walk.nodes + m)
    <3>1. m \in Nat /\ total \in Nat
      BY <1>4, <1>11
    <3>2. asked <= total + walk.nodes
      BY <2>1
    <3> HIDE DEF m, total
    <3> QED
      BY <1>10, <3>1, <3>2
  <2>3. asked' <= NodeBudget * Begun' + walk'.nodes
    <3> HIDE DEF m
    <3> QED
      BY <1>1, <1>10, <2>2 DEF m
  <2>4. pc' = "descend" /\ asked' \in Nat /\ Declared(staged)' # {}
    BY <1>1, <1>4, <1>7, <1>10, <1>13, <2>1
  <2>5. Ring(log)' /\ Causes(log)' /\ IsFiniteSet(Drained(staged))'
    BY <1>1, <1>7, <1>10 DEF Spreading
  <2> QED
    BY <1>6, <1>8, <1>9, <2>3, <2>4, <2>5 DEF Spreading
<1> QED
  BY <1>1, <1>12, <1>13
LEMMA BeginDescentSpreads ==
    ASSUME Shape, Walking, Queued, Queued', Spreading, BeginDescent
    PROVE  Spreading'
<1>1. /\ UNCHANGED <<log, mark, drain, asked>> /\ pc = "drain" /\ pc' = "descend" /\ Turn' = Turn
      /\ staged' = staged \cup Watermark(log, Turn)
      /\ walk' \in Walks /\ walk'.nodes = 0 /\ walk'.targets = <<>>
      /\ ToSet(walk'.frontier) \subseteq Roots(Seen)
  BY BeginDescentDoes
<1>2. \A e \in Watermark(log, Turn) : e.type = "watermark"
  BY DEF Watermark, Event
<1>3. /\ staged \subseteq staged' /\ Declared(staged') = Declared(staged)
      /\ Drained(staged') = Drained(staged)
      /\ Of(staged', "place_evolved") = Of(staged, "place_evolved")
  BY <1>1, <1>2 DEF Declared, Drained, Of
<1>4. Ring(staged)'
  <2>1. Unspread(staged)'
    BY <1>1 DEF Queued
  <2> QED
    BY <2>1, UnspreadRing
<1>5. Causes(staged)'
  BY <1>3, CausedGrows DEF Spreading, Causes
<1>6. \A p \in ToSet(walk'.frontier) : \E c \in Declared(staged') : c.turn = Turn /\ c.place = p
  <2>1. pc # "idle" /\ Unspread(staged)
    BY <1>1 DEF Queued
  <2> QED
    BY <1>1, <1>3, <2>1, RootsDeclared
<1>7. \A p \in ToSet(walk'.frontier) : Caused(p, staged', Turn')
  BY <1>1, <1>6 DEF Caused
<1>8. walk'.frontier # <<>> => Declared(staged') # {}
  <2>1. walk'.frontier # <<>> => ToSet(walk'.frontier) # {}
    BY <1>1, SeqMembers DEF Walks
  <2> QED
    BY <1>6, <2>1
<1>9. /\ IsFiniteSet(Drained(staged)) /\ asked \in Nat /\ Begun \in Nat /\ Begun' = Begun
      /\ walk.nodes \in Nat /\ walk.nodes <= NodeBudget /\ NodeBudget \in Nat
  <2>1. IsFiniteSet(Drained(staged)) /\ asked \in Nat
    BY <1>1 DEF Spreading
  <2> QED
    BY <1>1, <1>3, <2>1, FS_CardinalityType, CascadeAssumption DEF Begun, Walking, Walks
<1>10. asked <= NodeBudget * Begun
  <2>1. NodeBudget * Begun \in Nat
    BY <1>9
  <2>2. CASE Begun = 0
    <3>1. asked = 0
      BY <1>1, <2>2 DEF Spreading
    <3> QED
      BY <2>1, <3>1
  <2>3. CASE Begun # 0
    <3> DEFINE total == NodeBudget * Begun
    <3>1. asked + NodeBudget <= total + walk.nodes /\ total \in Nat
      BY <1>1, <2>1, <2>3 DEF Spreading
    <3> HIDE DEF total
    <3>2. asked <= total
      BY <1>9, <3>1
    <3> QED
      BY <3>2 DEF total
  <2> QED
    BY <2>2, <2>3
<1>11. asked' <= NodeBudget * Begun' + walk'.nodes
  <2>1. asked' = asked /\ Begun' = Begun /\ walk'.nodes = 0 /\ NodeBudget * Begun \in Nat
    BY <1>1, <1>9
  <2> QED
    BY <1>10, <2>1
<1>12. Ring(log)' /\ Causes(log)' /\ IsFiniteSet(Drained(staged))' /\ asked' \in Nat
  BY <1>1, <1>3, <1>9 DEF Spreading
<1> QED
  BY <1>1, <1>4, <1>5, <1>7, <1>8, <1>11, <1>12 DEF Spreading

LEMMA EndCascadeSpreads ==
    ASSUME Walking, Queued, Spreading, Shape, EndCascade
    PROVE  Spreading'
<1> DEFINE H == Hops(walk, Scene, Turn)
<1>1. /\ UNCHANGED log /\ Turn' = Turn /\ pc = "descend" /\ pc' = "publish"
      /\ staged' = staged \cup H /\ walk \in Walks
  BY EndCascadeDoes
<1>2. /\ \A e \in H : e.type \in {"hop", "deferred"} /\ e.turn = Turn
      /\ IsFiniteSet(H) /\ Cardinality(H) <= SecondaryBreadth
      /\ walk.targets = <<>> => H = {}
  BY <1>1, HopsAre
<1> HIDE DEF H
<1>3. Unspread(staged) /\ \A e \in staged : e.turn = Turn
  BY <1>1 DEF Queued, Shape, Told
<1>4. /\ Declared(staged') = Declared(staged) /\ Drained(staged') = Drained(staged)
      /\ Of(staged', "place_evolved") = Of(staged, "place_evolved")
      /\ Spread(staged', Turn) = H
  <2>1. /\ Declared(staged') = Declared(staged) /\ Drained(staged') = Drained(staged)
        /\ Of(staged', "place_evolved") = Of(staged, "place_evolved")
    BY <1>1, <1>2 DEF Declared, Drained, Of
  <2>2. Spread(staged', Turn) = H
    BY <1>1, <1>2, <1>3 DEF Unspread, Spread, Deferred, Of
  <2> QED
    BY <2>1, <2>2
<1>5. \A t \in Turns(staged') : t = Turn
  BY <1>1, <1>2, <1>3 DEF Turns
<1>6. H # {} => \E c \in Declared(staged') : c.turn = Turn
  <2>1. H # {} => Declared(staged) # {}
    BY <1>1, <1>2 DEF Spreading
  <2>2. \A c \in Declared(staged) : c.turn = Turn
    BY <1>3 DEF Declared, Of
  <2> QED
    BY <1>4, <2>1, <2>2
<1>7. Ring(staged)'
  BY <1>2, <1>4, <1>5, <1>6 DEF Ring
<1>8. Causes(staged)'
  <2>1. staged \subseteq staged'
    BY <1>1
  <2> QED
    BY <1>4, <2>1, CausedGrows DEF Spreading, Causes
<1> QED
  BY <1>1, <1>7, <1>8 DEF Spreading

LEMMA SpreadingKept ==
    ASSUME Shape, Walking, Queued, Queued', Spreading, [Next]_vars
    PROVE  Spreading'
<1>1. CASE UNCHANGED vars
  <2>1. Turn' = Turn
    BY <1>1 DEF vars, Turn
  <2> QED
    BY <1>1, <2>1 DEF vars, cascadeVars, Spreading, Begun
<1>2. ASSUME UNCHANGED log, pc' \in {"digest", "direct", "cascade"} PROVE Spreading'
  <2>1. Quiet(staged)'
    BY <1>2 DEF Queued
  <2>2. Ring(staged)' /\ Causes(staged)'
    BY <2>1, QuietIs, UnspreadRing, QuietCauses
  <2> QED
    BY <1>2, <2>2 DEF Spreading
<1>3. CASE NothingToCascade
  BY <1>3 DEF NothingToCascade, Spreading
<1>4. CASE CascadeFails
  <2>1. UNCHANGED log /\ staged' = mark /\ pc' = "publish" /\ Quiet(mark)
    BY <1>4 DEF CascadeFails, Queued
  <2>2. Ring(mark) /\ Causes(mark)
    BY <2>1, QuietIs, UnspreadRing, QuietCauses
  <2> QED
    BY <2>1, <2>2 DEF Spreading
<1>5. CASE BeginCascade
  <2>1. /\ pc = "cascade" /\ pc' = "drain" /\ UNCHANGED <<log, staged, walk, asked>>
        /\ walk = NoWalk /\ asked = 0 /\ Quiet(staged)
    BY <1>5 DEF BeginCascade, Walking, Queued
  <2>2. walk'.frontier = <<>> /\ ToSet(walk'.frontier) = {}
    BY <2>1 DEF NoWalk, ToSet
  <2>3. IsFiniteSet(Drained(staged)) /\ Begun = 0
    BY <2>1, QuietIs, FS_EmptySet DEF Begun
  <2>4. Begun' = 0
    BY <2>1, <2>3 DEF Begun
  <2> QED
    BY <2>1, <2>2, <2>3, <2>4 DEF Spreading
<1>6. ASSUME NEW moved \in BOOLEAN, Publish(moved) PROVE Spreading'
  <2>1. PICK rest : /\ log' = log \cup staged \cup rest
                    /\ \A e \in rest : IsEvent(e) /\ e.turn = Turn /\ e.type = "scene_advanced"
    BY <1>6, PublishGrows
  <2>2. pc = "publish" /\ pc' = "idle" /\ staged' = {}
    BY <1>6 DEF Publish, EndTurn
  <2>3. \A e \in staged \cup rest : e.turn = Turn
    BY <2>1, <2>2 DEF Shape, Told
  <2>4. Ring(log') /\ Causes(log')
    BY <2>1, <2>3, SpreadGrows DEF Spreading, Shape
  <2>5. Ring({}) /\ Causes({})
    <3>1. Quiet({})
      BY DEF Quiet
    <3> QED
      BY <3>1, QuietIs, UnspreadRing, QuietCauses
  <2> QED
    BY <2>2, <2>4, <2>5 DEF Spreading
<1>7. CASE Drop
  <2>1. Ring({}) /\ Causes({})
    <3>1. Quiet({})
      BY DEF Quiet
    <3> QED
      BY <3>1, QuietIs, UnspreadRing, QuietCauses
  <2> QED
    BY <1>7, <2>1 DEF Drop, EndTurn, Spreading
<1>8. ASSUME NEW turn \in Turns(log), Rewind(turn) PROVE Spreading'
  <2>1. LET g == {e \in log : e.turn < turn} IN Ring(g) /\ Causes(g)
    BY SpreadShrinks DEF Shape, Spreading
  <2> QED
    BY <1>8, <2>1 DEF Rewind, Spreading
<1>9. CASE Next
  <2>1. ASSUME NEW areas, Narrate(areas) PROVE Spreading'
    BY <1>2, <2>1 DEF Narrate
  <2>2. CASE GoesOn(DigestTypes) /\ pc = "digest" /\ pc' = "direct" /\ UNCHANGED cascadeVars
    BY <1>2, <2>2 DEF GoesOn
  <2>3. ASSUME NEW out, Direct(out) PROVE Spreading'
    BY <1>2, <2>3 DEF Direct
  <2>4. CASE DirectorFails
    BY <1>2, <2>4 DEF DirectorFails
  <2> QED
    BY <1>3, <1>4, <1>5, <1>6, <1>7, <1>8, <1>9, <2>1, <2>2, <2>3, <2>4, HookSteps,
       DrainRegionSpreads, AskLevelSpreads, BeginDescentSpreads, EndCascadeSpreads
<1> QED
  BY <1>1, <1>9

\* What waits was put off in one turn.
LEMMA PendingBounded ==
    ASSUME Shape, Queued, Spreading
    PROVE  Cardinality(Pending(Seen)) <= SecondaryBreadth
<1> DEFINE last == Latest(Turns(log))
           marks == {w.n : w \in Watermarks(Seen)}
<1>1. /\ Numbered(log) /\ Queue(log) /\ last \in Nat /\ Turn = last + 1
      /\ (\A e \in log : e.turn \in 1..last) /\ \A e \in staged : e.turn = Turn
  BY LastTurn, BackstageAssumption DEF Shape, Told, Turn, Queued
<1>2. \/ Watermarks(staged) = {} /\ Deferred(staged) = {}
      \/ pc \in {"descend", "publish"} /\ Swept(staged)
  <2>1. CASE pc = "idle"
    BY <2>1 DEF Shape, Watermarks, Deferred, Of
  <2>2. CASE pc = "drain"
    BY <2>2 DEF Queued, Unspread, Deferred, Of
  <2>3. CASE pc \in {"descend", "publish"}
    BY <2>3, QuietIs DEF Queued
  <2>4. CASE pc \in {"digest", "direct", "cascade"}
    BY <2>4, QuietIs DEF Queued
  <2> QED
    BY <2>1, <2>2, <2>3, <2>4 DEF Shape, Preparing
<1>3. /\ Watermarks(Seen) = Watermarks(log) \cup Watermarks(staged)
      /\ Deferred(Seen) = Deferred(log) \cup Deferred(staged)
  BY DEF Seen, Watermarks, Deferred, Of
<1>4. \A w \in Watermarks(Seen) : w.n \in Nat /\ w.n <= last
  <2>1. \A w \in Watermarks(log) : w.n \in Nat /\ w.n <= last
    <3>1. \A w \in Watermarks(log) : w.turn \in 1..last
      BY <1>1 DEF Watermarks, Of
    <3> QED
      BY <1>1, <3>1 DEF Queue
  <2>2. Swept(staged) => \A w \in Watermarks(staged) : w.n \in 1..last
    <3>1. ASSUME Swept(staged), Pending(log) # {}
          PROVE  \E m \in 1..last : Watermarks(staged) = {Event("watermark", Turn, NoPlace, m)}
      BY <1>1, <3>1, PendingIs DEF Swept
    <3>2. ASSUME Swept(staged), Pending(log) = {} PROVE Watermarks(staged) = {}
      BY <1>1, <3>2, PendingIs DEF Swept
    <3> QED
      BY <3>1, <3>2 DEF Event
  <2> QED
    BY <1>1, <1>2, <1>3, <2>1, <2>2
<1>5. \A w \in Watermarks(Seen) : w.n <= DrainedThrough(Seen)
  <2>1. marks \subseteq Nat /\ \A x \in marks : x <= last
    BY <1>4
  <2>2. DrainedThrough(Seen) = Latest(marks)
    BY DEF DrainedThrough, Watermarks
  <2>3. \A w \in Watermarks(Seen) : w.n \in marks
    OBVIOUS
  <2> HIDE DEF marks, last
  <2>4. \A x \in marks : x <= Latest(marks)
    BY <1>1, <2>1, LatestOf
  <2> QED
    BY <2>2, <2>3, <2>4
<1>6. \A c, d \in Deferred(Seen) : c.turn < d.turn => \E w \in Watermarks(Seen) : c.turn <= w.n
  <2>1. CASE Deferred(staged) = {}
    BY <1>1, <1>3, <2>1 DEF Queue
  <2>2. CASE pc \in {"descend", "publish"} /\ Swept(staged)
    <3>1. Turn <= MaxTurn /\ \A e \in staged : IsEvent(e) /\ e.turn = Turn
      BY <2>2 DEF Shape, Told
    <3>2. Queue(Seen)
      BY <1>1, <2>2, <3>1, QueueGrows DEF Seen
    <3> QED
      BY <3>2 DEF Queue
  <2> QED
    BY <1>2, <2>1, <2>2
<1>7. \A d \in Pending(Seen) : d \in Deferred(Seen) /\ d.turn > DrainedThrough(Seen) /\ d.turn \in Nat
  <2>1. \A d \in Deferred(Seen) : d.turn \in Nat
    BY <1>1 DEF Deferred, Of, Seen
  <2> QED
    BY <2>1 DEF Pending, Deferred
<1>8. DrainedThrough(Seen) \in Nat
  <2>1. marks \subseteq Nat /\ \A x \in marks : x <= last
    BY <1>4
  <2>2. DrainedThrough(Seen) = Latest(marks)
    BY DEF DrainedThrough, Watermarks
  <2> HIDE DEF marks, last
  <2> QED
    BY <1>1, <2>1, <2>2, LatestOf
<1>9. \A c, d \in Pending(Seen) : ~(c.turn < d.turn)
  <2> SUFFICES ASSUME NEW c \in Pending(Seen), NEW d \in Pending(Seen), c.turn < d.turn
               PROVE  FALSE
    OBVIOUS
  <2>1. PICK w \in Watermarks(Seen) : c.turn <= w.n
    BY <1>6, <1>7
  <2>2. w.n \in Nat /\ w.n <= DrainedThrough(Seen)
    BY <1>4, <1>5
  <2> QED
    BY <1>7, <1>8, <2>1, <2>2
<1>10. CASE Pending(Seen) = {}
  <2>1. Cardinality({}) = 0 /\ 0 <= SecondaryBreadth
    BY FS_EmptySet, CascadeAssumption
  <2> QED
    BY <1>10, <2>1
<1>11. CASE Pending(Seen) # {}
  <2>1. PICK d \in Pending(Seen) : TRUE
    BY <1>11
  <2>2. \A c \in Pending(Seen) : c.turn = d.turn
    BY <1>7, <1>9
  <2>3. Pending(Seen) \subseteq Spread(Seen, d.turn)
    BY <1>7, <2>2 DEF Spread
  <2>4. Ring(Seen)
    <3>1. Ring(log \cup staged \cup {})
      BY <1>1, SpreadGrows DEF Spreading
    <3>2. log \cup staged \cup {} = Seen
      BY DEF Seen
    <3> QED
      BY <3>1, <3>2
  <2>5. d.turn \in Turns(Seen)
    BY <1>7, <2>1 DEF Deferred, Of, Turns
  <2>6. /\ IsFiniteSet(Spread(Seen, d.turn))
        /\ Cardinality(Spread(Seen, d.turn)) <= SecondaryBreadth
    BY <2>4, <2>5 DEF Ring
  <2>7. Cardinality(Pending(Seen)) <= Cardinality(Spread(Seen, d.turn))
        /\ Cardinality(Pending(Seen)) \in Nat /\ Cardinality(Spread(Seen, d.turn)) \in Nat
    BY <2>3, <2>6, FS_Subset, FS_CardinalityType
  <2> QED
    BY <2>6, <2>7, CascadeAssumption
<1> QED
  BY <1>10, <1>11

LEMMA SpreadingBounds ==
    ASSUME Shape, Walking, Queued, Spreading
    PROVE  SpreadIsBounded
<1>1. pc \in {"drain", "descend"} => asked <= NodeBudget * (1 + Cardinality(Of(staged, "drained")))
  <2> SUFFICES ASSUME pc \in {"drain", "descend"}
               PROVE  asked <= NodeBudget * (1 + Begun)
    BY DEF Begun, Drained
  <2>1. /\ asked \in Nat /\ Begun \in Nat /\ NodeBudget \in Nat
        /\ walk.nodes \in Nat /\ walk.nodes <= NodeBudget
    BY FS_CardinalityType, CascadeAssumption DEF Spreading, Begun, Walking, Walks
  <2> DEFINE total == NodeBudget * Begun
  <2>2. NodeBudget * (1 + Begun) = NodeBudget + total /\ total \in Nat
    BY <2>1
  <2>3. asked <= total + NodeBudget
    <3>1. \/ asked = 0
          \/ asked + NodeBudget <= total + walk.nodes
          \/ asked <= total + walk.nodes
      BY DEF Spreading
    <3>2. total \in Nat
      BY <2>2
    <3> HIDE DEF total
    <3> QED
      BY <2>1, <3>1, <3>2
  <2> HIDE DEF total
  <2> QED
    BY <2>1, <2>2, <2>3
<1>2. QueueBounded
  BY <1>1, PendingBounded DEF QueueBounded
<1>3. Ring(Seen) /\ Causes(Seen)
  <2>1. \A e \in staged \cup {} : e.turn = Turn
    BY DEF Shape, Told
  <2>2. Ring(log \cup staged \cup {}) /\ Causes(log \cup staged \cup {})
    BY <2>1, SpreadGrows DEF Spreading, Shape
  <2>3. log \cup staged \cup {} = Seen
    BY DEF Seen
  <2> QED
    BY <2>2, <2>3
<1>4. OneRing
  BY <1>3 DEF OneRing, Ring, Spread, Deferred, Declared
<1>5. ChangeHasCause
  BY <1>3 DEF ChangeHasCause, Causes, Caused, Declared, Drained
<1> QED
  BY <1>2, <1>4, <1>5 DEF SpreadIsBounded

\* Whatever the world map and however often hooks fail and turns are dropped or
\* rewound: the queue holds no more than one turn's regions, the model is asked no
\* more than the budget of each walk, a turn spreads a change only if its narrator
\* declared one and to no more regions than allowed, and no place changes uncaused.
THEOREM ChangesStayBounded == Spec => []SpreadIsBounded
<1>1. Init => Shape /\ Walking /\ Queued /\ Spreading
  BY ShapeInit, WalkingInit, QueuedInit, SpreadingInit
<1>2. Shape /\ Walking /\ Queued /\ Spreading /\ [Next]_vars
      => (Shape /\ Walking /\ Queued /\ Spreading)'
  BY ShapeKept, WalkingKept, QueuedKept, SpreadingKept
<1>3. Shape /\ Walking /\ Queued /\ Spreading => SpreadIsBounded
  BY SpreadingBounds
<1> QED
  BY <1>1, <1>2, <1>3, PTL DEF Spec
-----------------------------------------------------------------------------
(* The memory: what one turn does to it.                                    *)

RecordAll(ns, S) == FoldSet(LAMBDA e, s : Recorded(s, e), ns, S)
SummarizeAll(ns, S) == FoldSet(LAMBDA e, s : Summarized(s, e), ns, S)
RecompressAll(ns, S) == FoldSet(LAMBDA e, s : Recompressed(s, e), ns, S)

At(h, type, t) == {e \in Of(h, type) : e.turn = t}

LEMMA FoldedIs ==
    ASSUME NEW ns, NEW t, NEW h
    PROVE  Folded(ns, t, h)
           = RecompressAll(SummarizeAll(RecordAll(ns, At(h, "narration_recorded", t)),
                                        At(h, "scene_summarized", t)),
                           At(h, "recap_recompressed", t))
  BY DEF Folded, RecordAll, SummarizeAll, RecompressAll, At

\* At most one event of a type falls into a turn, so a fold of them is a single step.
LEMMA RecordOne ==
    ASSUME NEW ns, NEW e
    PROVE  RecordAll(ns, {}) = ns /\ RecordAll(ns, {e}) = Recorded(ns, e)
<1> DEFINE Is(f, S) == f = [s \in SUBSET S |-> IF s = {} THEN ns
               ELSE Recorded(f[s \ {CHOOSE x \in s : TRUE}], CHOOSE x \in s : TRUE)]
<1>1. \A S : RecordAll(ns, S) = (CHOOSE f : Is(f, S))[S]
  BY DEF RecordAll, FoldSet, MapThenFoldSet
<1>2. ASSUME NEW S, NEW one, Is(one, S), NEW value, \A f : Is(f, S) => f[S] = value
      PROVE  RecordAll(ns, S) = value
  <2>1. Is(CHOOSE f : Is(f, S), S)
    <3> HIDE DEF Is
    <3> QED
      BY <1>2
  <2> HIDE DEF Is
  <2> QED
    BY <1>1, <1>2, <2>1
<1>3. RecordAll(ns, {}) = ns
  <2> DEFINE one == [s \in SUBSET {} |-> ns]
  <2>1. Is(one, {})
    OBVIOUS
  <2>2. \A f : Is(f, {}) => f[{}] = ns
    OBVIOUS
  <2> HIDE DEF Is, one
  <2> QED
    BY <1>2, <2>1, <2>2
<1>4. RecordAll(ns, {e}) = Recorded(ns, e)
  <2> DEFINE one == [s \in SUBSET {e} |-> IF s = {} THEN ns ELSE Recorded(ns, e)]
  <2>1. \A s \in SUBSET {e} : s # {} => s = {e} /\ (CHOOSE x \in s : TRUE) = e /\ s \ {e} = {}
    OBVIOUS
  <2>2. Is(one, {e})
    BY <2>1
  <2>3. ASSUME NEW f, Is(f, {e}) PROVE f[{e}] = Recorded(ns, e)
    <3>1. {} \in SUBSET {e} /\ {e} \in SUBSET {e} /\ {e} # {}
      OBVIOUS
    <3>2. f[{}] = ns
      BY <2>3, <3>1
    <3>3. f[{e}] = Recorded(f[{e} \ {e}], e)
      BY <2>1, <2>3, <3>1
    <3>4. {e} \ {e} = {}
      OBVIOUS
    <3> QED
      BY <3>2, <3>3, <3>4
  <2> HIDE DEF Is, one
  <2> QED
    BY <1>2, <2>2, <2>3
<1> QED
  BY <1>3, <1>4

LEMMA SummarizeOne ==
    ASSUME NEW ns, NEW e
    PROVE  SummarizeAll(ns, {}) = ns /\ SummarizeAll(ns, {e}) = Summarized(ns, e)
<1> DEFINE Is(f, S) == f = [s \in SUBSET S |-> IF s = {} THEN ns
               ELSE Summarized(f[s \ {CHOOSE x \in s : TRUE}], CHOOSE x \in s : TRUE)]
<1>1. \A S : SummarizeAll(ns, S) = (CHOOSE f : Is(f, S))[S]
  BY DEF SummarizeAll, FoldSet, MapThenFoldSet
<1>2. ASSUME NEW S, NEW one, Is(one, S), NEW value, \A f : Is(f, S) => f[S] = value
      PROVE  SummarizeAll(ns, S) = value
  <2>1. Is(CHOOSE f : Is(f, S), S)
    <3> HIDE DEF Is
    <3> QED
      BY <1>2
  <2> HIDE DEF Is
  <2> QED
    BY <1>1, <1>2, <2>1
<1>3. SummarizeAll(ns, {}) = ns
  <2> DEFINE one == [s \in SUBSET {} |-> ns]
  <2>1. Is(one, {})
    OBVIOUS
  <2>2. \A f : Is(f, {}) => f[{}] = ns
    OBVIOUS
  <2> HIDE DEF Is, one
  <2> QED
    BY <1>2, <2>1, <2>2
<1>4. SummarizeAll(ns, {e}) = Summarized(ns, e)
  <2> DEFINE one == [s \in SUBSET {e} |-> IF s = {} THEN ns ELSE Summarized(ns, e)]
  <2>1. \A s \in SUBSET {e} : s # {} => s = {e} /\ (CHOOSE x \in s : TRUE) = e /\ s \ {e} = {}
    OBVIOUS
  <2>2. Is(one, {e})
    BY <2>1
  <2>3. ASSUME NEW f, Is(f, {e}) PROVE f[{e}] = Summarized(ns, e)
    <3>1. {} \in SUBSET {e} /\ {e} \in SUBSET {e} /\ {e} # {}
      OBVIOUS
    <3>2. f[{}] = ns
      BY <2>3, <3>1
    <3>3. f[{e}] = Summarized(f[{e} \ {e}], e)
      BY <2>1, <2>3, <3>1
    <3>4. {e} \ {e} = {}
      OBVIOUS
    <3> QED
      BY <3>2, <3>3, <3>4
  <2> HIDE DEF Is, one
  <2> QED
    BY <1>2, <2>2, <2>3
<1> QED
  BY <1>3, <1>4

LEMMA RecompressOne ==
    ASSUME NEW ns, NEW e
    PROVE  RecompressAll(ns, {}) = ns /\ RecompressAll(ns, {e}) = Recompressed(ns, e)
<1> DEFINE Is(f, S) == f = [s \in SUBSET S |-> IF s = {} THEN ns
               ELSE Recompressed(f[s \ {CHOOSE x \in s : TRUE}], CHOOSE x \in s : TRUE)]
<1>1. \A S : RecompressAll(ns, S) = (CHOOSE f : Is(f, S))[S]
  BY DEF RecompressAll, FoldSet, MapThenFoldSet
<1>2. ASSUME NEW S, NEW one, Is(one, S), NEW value, \A f : Is(f, S) => f[S] = value
      PROVE  RecompressAll(ns, S) = value
  <2>1. Is(CHOOSE f : Is(f, S), S)
    <3> HIDE DEF Is
    <3> QED
      BY <1>2
  <2> HIDE DEF Is
  <2> QED
    BY <1>1, <1>2, <2>1
<1>3. RecompressAll(ns, {}) = ns
  <2> DEFINE one == [s \in SUBSET {} |-> ns]
  <2>1. Is(one, {})
    OBVIOUS
  <2>2. \A f : Is(f, {}) => f[{}] = ns
    OBVIOUS
  <2> HIDE DEF Is, one
  <2> QED
    BY <1>2, <2>1, <2>2
<1>4. RecompressAll(ns, {e}) = Recompressed(ns, e)
  <2> DEFINE one == [s \in SUBSET {e} |-> IF s = {} THEN ns ELSE Recompressed(ns, e)]
  <2>1. \A s \in SUBSET {e} : s # {} => s = {e} /\ (CHOOSE x \in s : TRUE) = e /\ s \ {e} = {}
    OBVIOUS
  <2>2. Is(one, {e})
    BY <2>1
  <2>3. ASSUME NEW f, Is(f, {e}) PROVE f[{e}] = Recompressed(ns, e)
    <3>1. {} \in SUBSET {e} /\ {e} \in SUBSET {e} /\ {e} # {}
      OBVIOUS
    <3>2. f[{}] = ns
      BY <2>3, <3>1
    <3>3. f[{e}] = Recompressed(f[{e} \ {e}], e)
      BY <2>1, <2>3, <3>1
    <3>4. {e} \ {e} = {}
      OBVIOUS
    <3> QED
      BY <3>2, <3>3, <3>4
  <2> HIDE DEF Is, one
  <2> QED
    BY <1>2, <2>2, <2>3
<1> QED
  BY <1>3, <1>4

-----------------------------------------------------------------------------
(* The memory as a function of the turns told so far.                       *)

MemoryTypes == {"narration_recorded", "scene_summarized", "recap_recompressed"}

Recalls(f, n, h) == f = [t \in 0..n |-> IF t = 0 THEN NoStory ELSE Folded(f[t - 1], t, h)]

\* The memory of h after turn n.
Tale(h, n) == (CHOOSE f : Recalls(f, n, h))[n]

\* Two histories tell the same up to turn n.
Same(h, g, n) == \A type \in MemoryTypes, t \in 1..n : At(h, type, t) = At(g, type, t)

LEMMA RecallExists ==
    ASSUME NEW h, NEW n \in Nat
    PROVE  \E f : Recalls(f, n, h)
<1> DEFINE Bad == {k \in Nat : ~ \E f : Recalls(f, k, h)}
<1>1. SUFFICES ASSUME n \in Bad PROVE FALSE
  OBVIOUS
<1>2. PICK k \in Bad : k = 0 \/ (k - 1 \in Nat /\ k - 1 \notin Bad)
  <2>1. Bad \subseteq Nat
    OBVIOUS
  <2> HIDE DEF Bad
  <2> QED
    BY <1>1, <2>1, FirstNumber
<1>3. k # 0
  <2> DEFINE f == [t \in 0..0 |-> NoStory]
  <2>1. Recalls(f, 0, h)
    BY DEF Recalls
  <2> QED
    BY <1>2, <2>1
<1>4. PICK f : Recalls(f, k - 1, h)
  BY <1>2, <1>3
<1> DEFINE g == [t \in 0..k |-> IF t = k THEN Folded(f[k - 1], k, h) ELSE f[t]]
<1>5. \A t \in 0..k : g[t] = IF t = 0 THEN NoStory ELSE Folded(g[t - 1], t, h)
  <2> TAKE t \in 0..k
  <2>1. CASE t = k
    <3>1. k - 1 \in 0..k /\ k - 1 # k
      BY <1>2, <1>3
    <3>2. g[k - 1] = f[k - 1]
      BY <3>1
    <3> QED
      BY <1>2, <1>3, <2>1, <3>2
  <2>2. CASE t # k
    <3>1. t \in 0..(k - 1)
      BY <1>2, <1>3, <2>2
    <3>2. f[t] = IF t = 0 THEN NoStory ELSE Folded(f[t - 1], t, h)
      BY <1>4, <3>1 DEF Recalls
    <3>3. g[t] = f[t]
      BY <2>2
    <3>4. t # 0 => t - 1 \in 0..k /\ t - 1 # k
      BY <1>2, <3>1
    <3>5. t # 0 => g[t - 1] = f[t - 1]
      BY <3>4
    <3> QED
      BY <3>2, <3>3, <3>5
  <2> QED
    BY <2>1, <2>2
<1>6. g = [t \in 0..k |-> g[t]]
  OBVIOUS
<1> HIDE DEF g
<1>7. Recalls(g, k, h)
  BY <1>5, <1>6 DEF Recalls
<1> QED
  BY <1>2, <1>7

LEMMA FoldedSame ==
    ASSUME NEW h, NEW g, NEW n, Same(h, g, n), NEW t \in 1..n, NEW ns
    PROVE  Folded(ns, t, h) = Folded(ns, t, g)
<1>1. /\ At(h, "narration_recorded", t) = At(g, "narration_recorded", t)
      /\ At(h, "scene_summarized", t) = At(g, "scene_summarized", t)
      /\ At(h, "recap_recompressed", t) = At(g, "recap_recompressed", t)
  BY DEF Same, MemoryTypes
<1> QED
  BY <1>1, FoldedIs

LEMMA RecallsAgree ==
    ASSUME NEW h, NEW g, NEW n \in Nat, NEW m \in Nat, n <= m, Same(h, g, n),
           NEW a, Recalls(a, n, h), NEW b, Recalls(b, m, g)
    PROVE  \A t \in 0..n : a[t] = b[t]
<1> DEFINE Bad == {t \in 0..n : a[t] # b[t]}
<1>1. SUFFICES ASSUME Bad # {} PROVE FALSE
  OBVIOUS
<1>2. PICK k \in Bad : k = 0 \/ (k - 1 \in Nat /\ k - 1 \notin Bad)
  <2>1. Bad \subseteq Nat
    OBVIOUS
  <2> HIDE DEF Bad
  <2> QED
    BY <1>1, <2>1, FirstNumber
<1>3. k \in 0..n /\ k \in 0..m
  OBVIOUS
<1>4. /\ a[k] = IF k = 0 THEN NoStory ELSE Folded(a[k - 1], k, h)
      /\ b[k] = IF k = 0 THEN NoStory ELSE Folded(b[k - 1], k, g)
  BY <1>3 DEF Recalls
<1>5. CASE k = 0
  BY <1>2, <1>4, <1>5
<1>6. CASE k # 0
  <2>1. k \in 1..n /\ k - 1 \in 0..n
    BY <1>3, <1>6
  <2>2. a[k - 1] = b[k - 1]
    BY <1>2, <1>6, <2>1
  <2>3. Folded(b[k - 1], k, h) = Folded(b[k - 1], k, g)
    BY <2>1, FoldedSame
  <2> QED
    BY <1>2, <1>4, <1>6, <2>2, <2>3
<1> QED
  BY <1>5, <1>6

LEMMA TaleSame ==
    ASSUME NEW h, NEW g, NEW n \in Nat, Same(h, g, n)
    PROVE  Tale(h, n) = Tale(g, n)
<1> DEFINE a == CHOOSE f : Recalls(f, n, h)
           b == CHOOSE f : Recalls(f, n, g)
<1>1. Recalls(a, n, h) /\ Recalls(b, n, g)
  BY RecallExists
<1> HIDE DEF a, b
<1>2. a[n] = b[n]
  BY <1>1, RecallsAgree
<1> QED
  BY <1>2 DEF a, b, Tale

LEMMA TaleIs ==
    ASSUME NEW h
    PROVE  /\ Tale(h, 0) = NoStory
           /\ \A n \in Nat : Tale(h, n + 1) = Folded(Tale(h, n), n + 1, h)
<1>1. Tale(h, 0) = NoStory
  <2> DEFINE a == CHOOSE f : Recalls(f, 0, h)
  <2>1. Recalls(a, 0, h)
    BY RecallExists
  <2> HIDE DEF a
  <2>2. a[0] = NoStory
    BY <2>1 DEF Recalls
  <2> QED
    BY <2>2 DEF a, Tale
<1>2. ASSUME NEW n \in Nat PROVE Tale(h, n + 1) = Folded(Tale(h, n), n + 1, h)
  <2> DEFINE a == CHOOSE f : Recalls(f, n + 1, h)
             b == CHOOSE f : Recalls(f, n, h)
  <2>1. Recalls(a, n + 1, h) /\ Recalls(b, n, h)
    BY RecallExists
  <2>2. Tale(h, n + 1) = a[n + 1] /\ Tale(h, n) = b[n]
    BY DEF Tale
  <2> HIDE DEF a, b
  <2>3. Same(h, h, n)
    BY DEF Same
  <2>4. b[n] = a[n]
    <3>1. n <= n + 1 /\ n + 1 \in Nat /\ n \in 0..n
      OBVIOUS
    <3> QED
      BY <2>1, <2>3, <3>1, RecallsAgree
  <2>5. a[n + 1] = Folded(a[n], n + 1, h)
    <3>1. n + 1 \in 0..(n + 1) /\ n + 1 # 0 /\ (n + 1) - 1 = n
      OBVIOUS
    <3>2. a[n + 1] = IF n + 1 = 0 THEN NoStory ELSE Folded(a[(n + 1) - 1], n + 1, h)
      BY <2>1, <3>1 DEF Recalls
    <3> QED
      BY <3>1, <3>2
  <2> QED
    BY <2>2, <2>4, <2>5
<1> QED
  BY <1>1, <1>2

LEMMA StoryIs ==
    ASSUME NEW h
    PROVE  Story(h) = Tale(h, Latest(Turns(h)))
  BY DEF Story, Tale, Recalls

\* A history cut at a turn tells that turn's tale.
LEMMA StoryCut ==
    ASSUME NEW h, Numbered(h), NEW n \in 0..Latest(Turns(h))
    PROVE  Story({e \in h : e.turn <= n}) = Tale(h, n)
<1> DEFINE last == Latest(Turns(h))
           g == {e \in h : e.turn <= n}
<1>1. /\ last \in 0..MaxTurn /\ last \in Nat /\ \A e \in h : e.turn \in 1..last
      /\ Turns(h) = 1..last
  BY LastTurn, BackstageAssumption
<1>2. Latest(Turns(g)) = n
  <2>1. CASE n = last
    <3>1. g = h
      BY <1>1, <2>1
    <3> HIDE DEF g
    <3> QED
      BY <2>1, <3>1
  <2>2. CASE n # last
    <3>1. n + 1 \in Turns(h)
      BY <1>1, <2>2
    <3>2. g = {e \in h : e.turn < n + 1}
      BY <1>1
    <3> HIDE DEF g
    <3>3. Latest(Turns(g)) = (n + 1) - 1
      BY <3>1, <3>2, NumberedShrinks
    <3> QED
      BY <1>1, <3>3
  <2> QED
    BY <2>1, <2>2
<1>3. Same(g, h, n)
  BY <1>1 DEF Same, At, Of
<1> HIDE DEF g
<1>4. Tale(g, n) = Tale(h, n)
  BY <1>1, <1>3, TaleSame
<1>5. Story(g) = Tale(g, n)
  BY <1>2, StoryIs
<1> QED
  BY <1>4, <1>5 DEF g

-----------------------------------------------------------------------------
(* How a memory is laid out: buckets of scenes c and prose r, the first k   *)
(* summarised, the first m of them merged into the summary of summaries.    *)

Laid(L, c, r, k, m) ==
    [scenes |-> [i \in 1..L |-> [scene |-> c[i], raw |-> r[i],
                                 summary |-> IF i <= k THEN r[i] ELSE {}]],
     super |-> UNION {r[i] : i \in 1..m},
     through |-> m]

\* The buckets divide the turns up to t, and none in the window is summarised.
Sound(L, r, k, m, t) ==
    /\ L \in Nat /\ k \in 0..L /\ m \in 0..k /\ t \in Nat
    /\ k = 0 \/ k + RawScenes <= L
    /\ \A i \in 1..L : r[i] # {}
    /\ \A i, j \in 1..L : i # j => r[i] \cap r[j] = {}
    /\ UNION {r[i] : i \in 1..L} = 1..t

Whole(ns, t) == \E L, c, r, k, m : Sound(L, r, k, m, t) /\ ns = Laid(L, c, r, k, m)

\* What ns looks like then.
Reads(ns, L, c, r, k, m) ==
    /\ Len(ns.scenes) = L /\ DOMAIN ns.scenes = 1..L
    /\ ns.scenes \in Seq({ns.scenes[i] : i \in 1..L})
    /\ \A i \in 1..L : /\ ns.scenes[i].scene = c[i]
                       /\ ns.scenes[i].raw = r[i]
                       /\ ns.scenes[i].summary = IF i <= k THEN r[i] ELSE {}
    /\ ns.super = UNION {r[i] : i \in 1..m}
    /\ ns.through = m

LEMMA LaidIs ==
    ASSUME NEW L \in Nat, NEW c, NEW r, NEW k, NEW m
    PROVE  Reads(Laid(L, c, r, k, m), L, c, r, k, m)
<1> DEFINE ns == Laid(L, c, r, k, m)
<1>1. /\ ns.scenes = [i \in 1..L |-> [scene |-> c[i], raw |-> r[i],
                                      summary |-> IF i <= k THEN r[i] ELSE {}]]
      /\ ns.super = UNION {r[i] : i \in 1..m} /\ ns.through = m
  BY DEF Laid
<1> DEFINE V == {ns.scenes[i] : i \in 1..L}
<1>2. ns.scenes \in [1..L -> V]
  BY <1>1
<1>3. ns.scenes \in Seq(V) /\ DOMAIN ns.scenes = 1..L
  <2> HIDE DEF V
  <2> QED
    BY <1>2, SeqDef
<1>4. Len(ns.scenes) = L
  <2> HIDE DEF V
  <2> QED
    BY <1>3, LenProperties
<1>5. \A i \in 1..L : /\ ns.scenes[i].scene = c[i]
                     /\ ns.scenes[i].raw = r[i]
                     /\ ns.scenes[i].summary = IF i <= k THEN r[i] ELSE {}
  BY <1>1
<1> QED
  BY <1>1, <1>3, <1>4, <1>5 DEF Reads

\* Memories with equal parts are equal.
Parts(scenes, super, L, c, r, k, m) ==
    /\ DOMAIN scenes = 1..L /\ scenes = [i \in 1..L |-> scenes[i]]
    /\ \A i \in 1..L : scenes[i] = [scene |-> c[i], raw |-> r[i],
                                    summary |-> IF i <= k THEN r[i] ELSE {}]
    /\ super = UNION {r[i] : i \in 1..m}

LEMMA LaidEqual ==
    ASSUME NEW L, NEW c, NEW r, NEW k, NEW m, NEW scenes, NEW super,
           Parts(scenes, super, L, c, r, k, m)
    PROVE  [scenes |-> scenes, super |-> super, through |-> m] = Laid(L, c, r, k, m)
  BY DEF Parts, Laid

\* The scenes that wait for a summary.
LEMMA Awaiting ==
    ASSUME NEW L, NEW c, NEW r, NEW k, NEW m, NEW t, Sound(L, r, k, m, t)
    PROVE  AgedOut(Laid(L, c, r, k, m)) = (k + 1)..(L - RawScenes)
<1> DEFINE ns == Laid(L, c, r, k, m)
<1>1. L \in Nat /\ k \in 0..L /\ RawScenes \in Nat \ {0} /\ \A i \in 1..L : r[i] # {}
  BY RecapAssumption DEF Sound
<1>2. Reads(ns, L, c, r, k, m)
  BY <1>1, LaidIs
<1>3. \A i \in 1..(L - RawScenes) : i \in 1..L /\ (i > k <=> i \in (k + 1)..(L - RawScenes))
  BY <1>1
<1>4. (k + 1)..(L - RawScenes) \subseteq 1..(L - RawScenes)
  BY <1>1
<1> HIDE DEF ns
<1>5. \A i \in 1..(L - RawScenes) : ns.scenes[i].summary = {} <=> i > k
  BY <1>1, <1>2, <1>3 DEF Reads
<1>6. AgedOut(ns) = {i \in 1..(L - RawScenes) : ns.scenes[i].summary = {}}
  BY <1>2 DEF AgedOut, Reads
<1>7. AgedOut(ns) = (k + 1)..(L - RawScenes)
  BY <1>3, <1>4, <1>5, <1>6
<1> QED
  BY <1>7 DEF ns

LEMMA HowManyWait ==
    ASSUME NEW k \in Nat, NEW b \in Int
    PROVE  /\ IsFiniteSet((k + 1)..b)
           /\ Cardinality((k + 1)..b) = IF b > k THEN b - k ELSE 0
<1>1. k + 1 \in Int
  OBVIOUS
<1> QED
  BY <1>1, FS_Interval

\* The prose of a turn joins the last bucket or begins the next one.
LEMMA SoundJoined ==
    ASSUME NEW L, NEW r, NEW k, NEW m, NEW t, Sound(L, r, k, m, t), L # 0,
           NEW q, q = [i \in 1..L |-> IF i = L THEN r[L] \cup {t + 1} ELSE r[i]]
    PROVE  Sound(L, q, k, m, t + 1) /\ k < L /\ \A i \in 1..L : i # L => q[i] = r[i]
<1>1. /\ L \in Nat /\ k \in 0..L /\ m \in 0..k /\ t \in Nat /\ RawScenes \in Nat \ {0}
      /\ k = 0 \/ k + RawScenes <= L
  BY RecapAssumption DEF Sound
<1>2. k < L /\ L \in 1..L
  BY <1>1
<1>3. /\ \A i \in 1..L : r[i] # {}
      /\ \A i, j \in 1..L : i # j => r[i] \cap r[j] = {}
      /\ UNION {r[i] : i \in 1..L} = 1..t
  BY DEF Sound
<1>4. \A i \in 1..L : r[i] \subseteq 1..t
  BY <1>3
<1>5. t + 1 \notin 1..t /\ 1..(t + 1) = (1..t) \cup {t + 1} /\ t + 1 \in Nat
  BY <1>1
<1>6. /\ q[L] = r[L] \cup {t + 1}
      /\ \A i \in 1..L : i # L => q[i] = r[i]
  BY <1>2
<1>7. \A i \in 1..L : q[i] # {}
  BY <1>3, <1>6
<1>8. \A i, j \in 1..L : i # j => q[i] \cap q[j] = {}
  <2> TAKE i, j \in 1..L
  <2>1. t + 1 \notin r[i] /\ t + 1 \notin r[j]
    BY <1>4, <1>5
  <2> QED
    BY <1>3, <1>6, <2>1
<1>9. UNION {q[i] : i \in 1..L} = (1..t) \cup {t + 1}
  <2>1. \A i \in 1..L : q[i] \subseteq (1..t) \cup {t + 1}
    BY <1>4, <1>6
  <2>2. \A i \in 1..L : r[i] \subseteq q[i]
    BY <1>6
  <2>3. t + 1 \in q[L]
    BY <1>6
  <2>4. \A x \in (1..t) \cup {t + 1} : \E i \in 1..L : x \in q[i]
    <3> TAKE x \in (1..t) \cup {t + 1}
    <3>1. CASE x = t + 1
      BY <1>2, <2>3, <3>1
    <3>2. CASE x \in 1..t
      <4>1. PICK i \in 1..L : x \in r[i]
        BY <1>3, <3>2
      <4> QED
        BY <2>2, <4>1
    <3> QED
      BY <3>1, <3>2
  <2> QED
    BY <2>1, <2>4
<1> QED
  BY <1>1, <1>2, <1>5, <1>6, <1>7, <1>8, <1>9 DEF Sound

LEMMA SoundAppended ==
    ASSUME NEW L, NEW r, NEW k, NEW m, NEW t, Sound(L, r, k, m, t),
           NEW q, q[L + 1] = {t + 1}, \A i \in 1..L : q[i] = r[i]
    PROVE  Sound(L + 1, q, k, m, t + 1)
<1>1. /\ L \in Nat /\ k \in 0..L /\ m \in 0..k /\ t \in Nat /\ RawScenes \in Nat \ {0}
      /\ k = 0 \/ k + RawScenes <= L
  BY RecapAssumption DEF Sound
<1>2. /\ L + 1 \in Nat /\ L + 1 \in 1..(L + 1) /\ k \in 0..(L + 1)
      /\ k = 0 \/ k + RawScenes <= L + 1
      /\ \A i \in 1..(L + 1) : i # L + 1 => i \in 1..L
      /\ \A i \in 1..L : i \in 1..(L + 1) /\ i # L + 1
  BY <1>1
<1>3. /\ \A i \in 1..L : r[i] # {}
      /\ \A i, j \in 1..L : i # j => r[i] \cap r[j] = {}
      /\ UNION {r[i] : i \in 1..L} = 1..t
  BY DEF Sound
<1>4. \A i \in 1..L : r[i] \subseteq 1..t
  BY <1>3
<1>5. t + 1 \notin 1..t /\ 1..(t + 1) = (1..t) \cup {t + 1} /\ t + 1 \in Nat
  BY <1>1
<1>6. q[L + 1] = {t + 1} /\ \A i \in 1..L : q[i] = r[i]
  OBVIOUS
<1>7. \A i \in 1..(L + 1) : q[i] # {}
  BY <1>2, <1>3, <1>6
<1>8. \A i, j \in 1..(L + 1) : i # j => q[i] \cap q[j] = {}
  <2> TAKE i, j \in 1..(L + 1)
  <2>1. \A x \in 1..L : t + 1 \notin r[x]
    BY <1>4, <1>5
  <2> QED
    BY <1>2, <1>3, <1>6, <2>1
<1>9. UNION {q[i] : i \in 1..(L + 1)} = (1..t) \cup {t + 1}
  <2>1. \A i \in 1..(L + 1) : q[i] \subseteq (1..t) \cup {t + 1}
    BY <1>2, <1>4, <1>6
  <2>2. \A x \in (1..t) \cup {t + 1} : \E i \in 1..(L + 1) : x \in q[i]
    <3> TAKE x \in (1..t) \cup {t + 1}
    <3>1. CASE x = t + 1
      BY <1>2, <1>6, <3>1
    <3>2. CASE x \in 1..t
      <4>1. PICK i \in 1..L : x \in r[i]
        BY <1>3, <3>2
      <4> QED
        BY <1>2, <1>6, <4>1
    <3> QED
      BY <3>1, <3>2
  <2> QED
    BY <2>1, <2>2
<1> QED
  BY <1>1, <1>2, <1>5, <1>6, <1>7, <1>8, <1>9 DEF Sound

LEMMA RecordLaid ==
    ASSUME NEW L, NEW c, NEW r, NEW k, NEW m, NEW t, Sound(L, r, k, m, t),
           NEW e, e.turn = t + 1
    PROVE  \E M \in {L, L + 1} : \E d, q :
               Sound(M, q, k, m, t + 1) /\ Recorded(Laid(L, c, r, k, m), e) = Laid(M, d, q, k, m)
<1> DEFINE ns == Laid(L, c, r, k, m)
<1>1. L \in Nat /\ k \in 0..L /\ m \in 0..k /\ L + 1 \in Nat
  BY DEF Sound
<1>2. Reads(ns, L, c, r, k, m)
  BY <1>1, LaidIs
<1>3. /\ ns = [scenes |-> ns.scenes, super |-> ns.super, through |-> ns.through]
      /\ ns.scenes = [i \in 1..L |-> ns.scenes[i]]
      /\ \A i \in 1..L : ns.scenes[i] = [scene |-> c[i], raw |-> r[i],
                                         summary |-> IF i <= k THEN r[i] ELSE {}]
  BY DEF Laid
<1> HIDE DEF ns
<1>4. CASE /\ ns.scenes # <<>>
           /\ ns.scenes[L].scene = e.place
           /\ Cardinality(ns.scenes[L].raw) < PerBucket
  <2> DEFINE q == [i \in 1..L |-> IF i = L THEN r[L] \cup {t + 1} ELSE r[i]]
             after == [ns.scenes EXCEPT ![L] = [ns.scenes[L] EXCEPT !.raw = r[L] \cup {t + 1}]]
  <2>1. L # 0
    <3>1. ns.scenes = <<>> <=> Len(ns.scenes) = 0
      BY <1>2, EmptySeq DEF Reads
    <3> QED
      BY <1>2, <1>4, <3>1 DEF Reads
  <2>2. L \in 1..L
    BY <1>1, <2>1
  <2>3. Recorded(ns, e) = [scenes |-> after, super |-> ns.super, through |-> m]
    <3>1. Recorded(ns, e) = [ns EXCEPT !.scenes[L].raw = @ \cup {e.turn}]
      BY <1>2, <1>4 DEF Recorded, Reads
    <3>2. ns.scenes[L].raw = r[L] /\ ns.through = m
      BY <1>2, <2>2 DEF Reads
    <3>3. [ns EXCEPT !.scenes[L].raw = @ \cup {e.turn}]
          = [ns EXCEPT !.scenes = [ns.scenes EXCEPT ![L] =
                [ns.scenes[L] EXCEPT !.raw = ns.scenes[L].raw \cup {e.turn}]]]
      OBVIOUS
    <3>4. [ns EXCEPT !.scenes = after]
          = [scenes |-> after, super |-> ns.super, through |-> ns.through]
      <4> HIDE DEF after
      <4> QED
        BY <1>3
    <3> QED
      BY <3>1, <3>2, <3>3, <3>4
  <2>4. Sound(L, q, k, m, t + 1) /\ k < L /\ \A i \in 1..L : i # L => q[i] = r[i]
    BY <2>1, SoundJoined
  <2>5. \A i \in 1..L : after[i] = [scene |-> c[i], raw |-> q[i],
                                    summary |-> IF i <= k THEN q[i] ELSE {}]
    <3> TAKE i \in 1..L
    <3>1. CASE i = L
      <4>1. after[L] = [ns.scenes[L] EXCEPT !.raw = r[L] \cup {t + 1}]
        BY <1>2, <2>2 DEF Reads
      <4>2. ns.scenes[L] = [scene |-> c[L], raw |-> r[L], summary |-> {}]
        BY <1>1, <1>3, <2>2, <2>4
      <4>3. q[L] = r[L] \cup {t + 1}
        BY <2>2
      <4>4. ~(L <= k)
        BY <1>1, <2>4
      <4> HIDE DEF after, q
      <4>5. [[scene |-> c[L], raw |-> r[L], summary |-> {}] EXCEPT !.raw = r[L] \cup {t + 1}]
            = [scene |-> c[L], raw |-> r[L] \cup {t + 1}, summary |-> {}]
        OBVIOUS
      <4>6. after[L] = [scene |-> c[L], raw |-> q[L], summary |-> {}]
        BY <4>1, <4>2, <4>3, <4>5
      <4> QED
        BY <3>1, <4>4, <4>6
    <3>2. CASE i # L
      <4>1. after[i] = ns.scenes[i]
        BY <1>2, <3>2 DEF Reads
      <4> HIDE DEF after, q
      <4> QED
        BY <1>3, <2>4, <3>2, <4>1
    <3> QED
      BY <3>1, <3>2
  <2>6. ns.super = UNION {q[i] : i \in 1..m}
    <3>1. \A i \in 1..m : i \in 1..L /\ i # L
      BY <1>1, <2>4
    <3>2. \A i \in 1..m : q[i] = r[i]
      BY <2>4, <3>1
    <3>3. ns.super = UNION {r[i] : i \in 1..m}
      BY <1>2 DEF Reads
    <3> HIDE DEF q
    <3> QED
      BY <3>2, <3>3
  <2>7. DOMAIN after = 1..L /\ after = [i \in 1..L |-> after[i]]
    BY <1>2 DEF Reads
  <2> HIDE DEF after, q
  <2>8. Parts(after, ns.super, L, c, q, k, m)
    BY <2>5, <2>6, <2>7 DEF Parts
  <2>9. Recorded(ns, e) = Laid(L, c, q, k, m)
    BY <2>3, <2>8, LaidEqual
  <2> QED
    BY <2>4, <2>9 DEF ns
<1>5. CASE ~(/\ ns.scenes # <<>>
             /\ ns.scenes[L].scene = e.place
             /\ Cardinality(ns.scenes[L].raw) < PerBucket)
  <2> DEFINE q == [i \in 1..(L + 1) |-> IF i = L + 1 THEN {t + 1} ELSE r[i]]
             d == [i \in 1..(L + 1) |-> IF i = L + 1 THEN e.place ELSE c[i]]
             new == [scene |-> e.place, raw |-> {t + 1}, summary |-> {}]
             after == Append(ns.scenes, new)
  <2>1. Recorded(ns, e) = [scenes |-> after, super |-> ns.super, through |-> m]
    <3>1. Recorded(ns, e) = [ns EXCEPT !.scenes = after]
      BY <1>2, <1>5 DEF Recorded, Reads
    <3>2. [ns EXCEPT !.scenes = after]
          = [scenes |-> after, super |-> ns.super, through |-> ns.through]
      <4> HIDE DEF after
      <4> QED
        BY <1>3
    <3>3. ns.through = m
      BY <1>2 DEF Reads
    <3> QED
      BY <3>1, <3>2, <3>3
  <2>2. Sound(L + 1, q, k, m, t + 1) /\ \A i \in 1..L : q[i] = r[i]
    <3>1. q[L + 1] = {t + 1} /\ \A i \in 1..L : q[i] = r[i]
      BY <1>1
    <3> HIDE DEF q, d, after, new
    <3> QED
      BY <3>1, SoundAppended
  <2>3. /\ DOMAIN after = 1..(L + 1) /\ after = [i \in 1..(L + 1) |-> after[i]]
        /\ after[L + 1] = new
        /\ \A i \in 1..L : after[i] = ns.scenes[i]
    <3> DEFINE V == {ns.scenes[i] : i \in 1..L} \cup {new}
    <3>1. ns.scenes \in Seq(V) /\ new \in V
      <4>1. ns.scenes \in Seq({ns.scenes[i] : i \in 1..L})
        BY <1>2 DEF Reads
      <4>2. PICK n \in Nat : ns.scenes \in [1..n -> {ns.scenes[i] : i \in 1..L}]
        BY <4>1, SeqDef
      <4>3. ns.scenes \in [1..n -> V]
        BY <4>2
      <4> QED
        BY <4>3, SeqDef
    <3>2. Len(ns.scenes) = L
      BY <1>2 DEF Reads
    <3> HIDE DEF V, new
    <3>3. /\ after \in Seq(V) /\ Len(after) = L + 1 /\ after[L + 1] = new
          /\ \A i \in 1..L : after[i] = ns.scenes[i]
      BY <3>1, <3>2, AppendProperties
    <3> HIDE DEF after
    <3> QED
      BY <3>3, LenProperties
  <2>4. \A i \in 1..(L + 1) : after[i] = [scene |-> d[i], raw |-> q[i],
                                          summary |-> IF i <= k THEN q[i] ELSE {}]
    <3> TAKE i \in 1..(L + 1)
    <3>1. CASE i = L + 1
      <4>1. d[L + 1] = e.place /\ q[L + 1] = {t + 1} /\ ~(L + 1 <= k)
        BY <1>1
      <4>2. after[L + 1] = [scene |-> e.place, raw |-> {t + 1}, summary |-> {}]
        BY <2>3
      <4> HIDE DEF after, q, d
      <4> QED
        BY <3>1, <4>1, <4>2
    <3>2. CASE i # L + 1
      <4>1. i \in 1..L
        BY <1>1, <3>2
      <4>2. d[i] = c[i] /\ q[i] = r[i]
        BY <3>2
      <4>3. after[i] = ns.scenes[i]
        BY <2>3, <4>1
      <4> HIDE DEF after, q, d
      <4> QED
        BY <1>3, <4>1, <4>2, <4>3
    <3> QED
      BY <3>1, <3>2
  <2>5. ns.super = UNION {q[i] : i \in 1..m}
    <3>1. \A i \in 1..m : i \in 1..L
      BY <1>1
    <3>2. ns.super = UNION {r[i] : i \in 1..m}
      BY <1>2 DEF Reads
    <3> HIDE DEF q
    <3> QED
      BY <2>2, <3>1, <3>2
  <2> HIDE DEF after, q, d
  <2>6. Parts(after, ns.super, L + 1, d, q, k, m)
    BY <2>3, <2>4, <2>5 DEF Parts
  <2>7. Recorded(ns, e) = Laid(L + 1, d, q, k, m)
    BY <2>1, <2>6, LaidEqual
  <2> QED
    BY <2>2, <2>7 DEF ns
<1> QED
  BY <1>4, <1>5

\* A summary that names the scene of the first waiting bucket goes to that bucket.
LEMMA SummarizeLaid ==
    ASSUME NEW L, NEW c, NEW r, NEW k, NEW m, NEW t, Sound(L, r, k, m, t),
           k + 1 <= L - RawScenes, NEW e, e.place = c[k + 1]
    PROVE  /\ Sound(L, r, k + 1, m, t)
           /\ Summarized(Laid(L, c, r, k, m), e) = Laid(L, c, r, k + 1, m)
<1> DEFINE ns == Laid(L, c, r, k, m)
           after == [ns.scenes EXCEPT ![k + 1] = [ns.scenes[k + 1] EXCEPT !.summary = r[k + 1]]]
           free == Unsummarized(ns, e.place)
<1>1. L \in Nat /\ k \in 0..L /\ m \in 0..k /\ RawScenes \in Nat \ {0} /\ t \in Nat
  BY RecapAssumption DEF Sound
<1>2. k + 1 \in 1..L /\ k + 1 \in 0..L /\ m \in 0..(k + 1) /\ (k + 1) + RawScenes <= L
  BY <1>1
<1>3. Sound(L, r, k + 1, m, t)
  BY <1>2 DEF Sound
<1>4. Reads(ns, L, c, r, k, m)
  BY <1>1, LaidIs
<1>5. /\ ns = [scenes |-> ns.scenes, super |-> ns.super, through |-> ns.through]
      /\ ns.scenes = [i \in 1..L |-> ns.scenes[i]]
      /\ \A i \in 1..L : ns.scenes[i] = [scene |-> c[i], raw |-> r[i],
                                         summary |-> IF i <= k THEN r[i] ELSE {}]
  BY DEF Laid
<1>6. \A i \in 1..L : r[i] # {}
  BY DEF Sound
<1> HIDE DEF ns
<1>7. free \in SUBSET Nat /\ k + 1 \in free /\ \A i \in free : k + 1 <= i
  <2>1. free \subseteq 1..L
    BY <1>4 DEF Unsummarized, Reads
  <2>2. k + 1 \in free
    <3>1. ns.scenes[k + 1].scene = e.place /\ ns.scenes[k + 1].summary = {}
      <4>1. ~(k + 1 <= k)
        BY <1>1
      <4> QED
        BY <1>2, <1>4, <4>1 DEF Reads
    <3> QED
      BY <1>2, <1>4, <3>1 DEF Unsummarized, Reads
  <2>3. \A i \in free : ~(i <= k)
    <3> SUFFICES ASSUME NEW i \in free, i <= k PROVE FALSE
      OBVIOUS
    <3>1. i \in 1..L /\ ns.scenes[i].summary = {}
      BY <2>1 DEF Unsummarized
    <3>2. ns.scenes[i].summary = r[i]
      BY <1>4, <3>1 DEF Reads
    <3> QED
      BY <1>6, <3>1, <3>2
  <2>4. \A i \in 1..L : ~(i <= k) => k + 1 <= i
    BY <1>1
  <2> HIDE DEF free
  <2> QED
    BY <2>1, <2>2, <2>3, <2>4
<1>8. Min(free) = k + 1
  <2> HIDE DEF free
  <2>1. Min(free) \in free /\ \A x \in free : Min(free) <= x
    BY <1>7, MinOfNumbers
  <2>2. k + 1 <= Min(free) /\ Min(free) <= k + 1 /\ Min(free) \in Nat
    BY <1>7, <2>1
  <2> QED
    BY <1>1, <2>2
<1>9. Summarized(ns, e) = [scenes |-> after, super |-> ns.super, through |-> m]
  <2>1. Summarized(ns, e) = [ns EXCEPT !.scenes[k + 1].summary = ns.scenes[k + 1].raw]
    BY <1>7, <1>8 DEF Summarized
  <2>2. ns.scenes[k + 1].raw = r[k + 1] /\ ns.through = m
    BY <1>2, <1>4 DEF Reads
  <2>3. [ns EXCEPT !.scenes[k + 1].summary = r[k + 1]] = [ns EXCEPT !.scenes = after]
    OBVIOUS
  <2>4. [ns EXCEPT !.scenes = after]
        = [scenes |-> after, super |-> ns.super, through |-> ns.through]
    <3> HIDE DEF after
    <3> QED
      BY <1>5
  <2> HIDE DEF after, free
  <2> QED
    BY <2>1, <2>2, <2>3, <2>4
<1>10. \A i \in 1..L : after[i] = [scene |-> c[i], raw |-> r[i],
                                   summary |-> IF i <= k + 1 THEN r[i] ELSE {}]
  <2> TAKE i \in 1..L
  <2>1. CASE i = k + 1
    <3>1. after[k + 1] = [ns.scenes[k + 1] EXCEPT !.summary = r[k + 1]]
      BY <1>2, <1>4 DEF Reads
    <3>2. ns.scenes[k + 1] = [scene |-> c[k + 1], raw |-> r[k + 1], summary |-> {}]
      <4>1. ~(k + 1 <= k)
        BY <1>1
      <4> QED
        BY <1>2, <1>5, <4>1
    <3>3. [[scene |-> c[k + 1], raw |-> r[k + 1], summary |-> {}] EXCEPT !.summary = r[k + 1]]
          = [scene |-> c[k + 1], raw |-> r[k + 1], summary |-> r[k + 1]]
      OBVIOUS
    <3>4. i <= k + 1
      BY <2>1
    <3> HIDE DEF after, free
    <3>5. after[k + 1] = [scene |-> c[k + 1], raw |-> r[k + 1], summary |-> r[k + 1]]
      BY <3>1, <3>2, <3>3
    <3> QED
      BY <2>1, <3>4, <3>5
  <2>2. CASE i # k + 1
    <3>1. after[i] = ns.scenes[i]
      BY <1>4, <2>2 DEF Reads
    <3>2. i <= k <=> i <= k + 1
      BY <1>1, <2>2
    <3> HIDE DEF after, free
    <3> QED
      BY <1>5, <3>1, <3>2
  <2> QED
    BY <2>1, <2>2
<1>11. DOMAIN after = 1..L /\ after = [i \in 1..L |-> after[i]]
  BY <1>4 DEF Reads
<1>12. ns.super = UNION {r[i] : i \in 1..m}
  BY <1>4 DEF Reads
<1> HIDE DEF after, free
<1>13. Parts(after, ns.super, L, c, r, k + 1, m)
  BY <1>10, <1>11, <1>12 DEF Parts
<1>14. Summarized(ns, e) = Laid(L, c, r, k + 1, m)
  BY <1>9, <1>13, LaidEqual
<1> QED
  BY <1>3, <1>14 DEF ns

\* The summaries not merged yet, and the first of them.
LEMMA PendingLaid ==
    ASSUME NEW L, NEW c, NEW r, NEW k, NEW m, NEW t, Sound(L, r, k, m, t)
    PROVE  /\ PendingSummaries(Laid(L, c, r, k, m)) = (m + 1)..k
           /\ m < k => \E n \in (m + 1)..k : /\ Oldest(Laid(L, c, r, k, m)) = (m + 1)..n
                                             /\ Max(Oldest(Laid(L, c, r, k, m))) = n
<1> DEFINE ns == Laid(L, c, r, k, m)
<1>1. L \in Nat /\ k \in 0..L /\ m \in 0..k /\ Fanout \in Nat \ {0}
  BY RecapAssumption DEF Sound
<1>2. Reads(ns, L, c, r, k, m)
  BY <1>1, LaidIs
<1>3. \A i \in 1..L : r[i] # {}
  BY DEF Sound
<1> HIDE DEF ns
<1>4. PendingSummaries(ns) = (m + 1)..k
  <2>1. \A i \in 1..L : (i > m /\ ns.scenes[i].summary # {}) <=> i \in (m + 1)..k
    <3> TAKE i \in 1..L
    <3>1. ns.scenes[i].summary = IF i <= k THEN r[i] ELSE {}
      BY <1>2 DEF Reads
    <3>2. ns.scenes[i].summary # {} <=> i <= k
      BY <1>3, <3>1
    <3> QED
      BY <1>1, <3>2
  <2>2. (m + 1)..k \subseteq 1..L
    BY <1>1
  <2>3. PendingSummaries(ns) = {i \in 1..L : i > m /\ ns.scenes[i].summary # {}}
    BY <1>2 DEF PendingSummaries, Reads
  <2> QED
    BY <2>1, <2>2, <2>3
<1>5. ASSUME m < k
      PROVE  \E n \in (m + 1)..k : Oldest(ns) = (m + 1)..n /\ Max(Oldest(ns)) = n
  <2> DEFINE n == IF k <= m + Fanout THEN k ELSE m + Fanout
  <2>1. n \in (m + 1)..k
    BY <1>1, <1>5
  <2>2. \A i \in (m + 1)..k : Cardinality({j \in (m + 1)..k : j < i}) = i - (m + 1)
    <3> TAKE i \in (m + 1)..k
    <3>1. {j \in (m + 1)..k : j < i} = (m + 1)..(i - 1)
      BY <1>1
    <3>2. m + 1 \in Int /\ i - 1 \in Int
      BY <1>1
    <3>3. Cardinality((m + 1)..(i - 1)) = IF m + 1 > i - 1 THEN 0 ELSE (i - 1) - (m + 1) + 1
      BY <3>2, FS_Interval
    <3>4. (IF m + 1 > i - 1 THEN 0 ELSE (i - 1) - (m + 1) + 1) = i - (m + 1)
      BY <1>1
    <3> QED
      BY <3>1, <3>3, <3>4
  <2>3. Oldest(ns) = {i \in (m + 1)..k : i - (m + 1) < Fanout}
    BY <1>4, <2>2 DEF Oldest
  <2>4. Oldest(ns) = (m + 1)..n
    BY <1>1, <2>1, <2>3
  <2>5. Max((m + 1)..n) = n
    <3>1. n \in Nat /\ m + 1 \in Nat /\ m + 1 <= n
      BY <1>1, <2>1
    <3> HIDE DEF n
    <3>2. (m + 1)..n \in SUBSET Nat /\ n \in (m + 1)..n /\ \A x \in (m + 1)..n : x <= n
      BY <3>1
    <3>3. Max((m + 1)..n) \in (m + 1)..n /\ \A x \in (m + 1)..n : x <= Max((m + 1)..n)
      BY <3>1, <3>2, MaxOfBounded
    <3> QED
      BY <3>1, <3>2, <3>3
  <2> HIDE DEF n
  <2> QED
    BY <2>1, <2>4, <2>5
<1> QED
  BY <1>4, <1>5 DEF ns

\* A merge takes in the first of them, and no other bucket changes.
LEMMA RecompressLaid ==
    ASSUME NEW L, NEW c, NEW r, NEW k, NEW m, NEW t, Sound(L, r, k, m, t), m < k,
           NEW e, e.n = Max(Oldest(Laid(L, c, r, k, m)))
    PROVE  \E n : /\ Sound(L, r, k, n, t)
                  /\ Recompressed(Laid(L, c, r, k, m), e) = Laid(L, c, r, k, n)
<1> DEFINE ns == Laid(L, c, r, k, m)
<1>1. L \in Nat /\ k \in 0..L /\ m \in 0..k
  BY DEF Sound
<1>2. Reads(ns, L, c, r, k, m)
  BY <1>1, LaidIs
<1>3. PICK n \in (m + 1)..k : Oldest(ns) = (m + 1)..n /\ Max(Oldest(ns)) = n
  BY PendingLaid
<1>4. Sound(L, r, k, n, t)
  <2>1. n \in 0..k
    BY <1>1, <1>3
  <2> QED
    BY <2>1 DEF Sound
<1>5. /\ ns = [scenes |-> ns.scenes, super |-> ns.super, through |-> ns.through]
      /\ ns.scenes = [i \in 1..L |-> ns.scenes[i]]
      /\ \A i \in 1..L : ns.scenes[i] = [scene |-> c[i], raw |-> r[i],
                                         summary |-> IF i <= k THEN r[i] ELSE {}]
  BY DEF Laid
<1>6. e.n = n
  BY <1>3
<1> HIDE DEF ns
<1> DEFINE super == ns.super \cup UNION {ns.scenes[i].summary : i \in Oldest(ns)}
<1>7. Recompressed(ns, e) = [scenes |-> ns.scenes, super |-> super, through |-> n]
  <2>1. Recompressed(ns, e) = [ns EXCEPT !.super = super, !.through = n]
    BY <1>6 DEF Recompressed
  <2> HIDE DEF super
  <2>2. [ns EXCEPT !.super = super, !.through = n]
        = [scenes |-> ns.scenes, super |-> super, through |-> n]
    <3> DEFINE half == [ns EXCEPT !.super = super]
               All == [scenes : {ns.scenes}, super : {ns.super, super}, through : {ns.through, n}]
    <3>1. ns \in All
      BY <1>5
    <3>2. half = [scenes |-> ns.scenes, super |-> super, through |-> ns.through]
      BY <3>1
    <3>3. [ns EXCEPT !.super = super, !.through = n] = [half EXCEPT !.through = n]
      OBVIOUS
    <3>4. half.scenes = ns.scenes /\ half.super = super /\ half \in All
      BY <3>2
    <3> HIDE DEF half
    <3>5. [half EXCEPT !.through = n]
          = [scenes |-> half.scenes, super |-> half.super, through |-> n]
      BY <3>4
    <3> QED
      BY <3>3, <3>4, <3>5
  <2> QED
    BY <2>1, <2>2
<1>8. super = UNION {r[i] : i \in 1..n}
  <2>1. \A i \in (m + 1)..n : ns.scenes[i].summary = r[i]
    <3>1. \A i \in (m + 1)..n : i \in 1..L /\ i <= k
      BY <1>1, <1>3
    <3> QED
      BY <1>2, <3>1 DEF Reads
  <2>2. UNION {ns.scenes[i].summary : i \in Oldest(ns)} = UNION {r[i] : i \in (m + 1)..n}
    BY <1>3, <2>1
  <2>3. ns.super = UNION {r[i] : i \in 1..m}
    BY <1>2 DEF Reads
  <2>4. 1..n = (1..m) \cup ((m + 1)..n)
    BY <1>1, <1>3
  <2> HIDE DEF super
  <2>5. (UNION {r[i] : i \in 1..m}) \cup (UNION {r[i] : i \in (m + 1)..n})
        = UNION {r[i] : i \in 1..n}
    BY <2>4
  <2> QED
    BY <2>2, <2>3, <2>5 DEF super
<1> HIDE DEF super
<1>9. Parts(ns.scenes, super, L, c, r, k, n)
  BY <1>2, <1>5, <1>8 DEF Parts, Reads
<1>10. Recompressed(ns, e) = Laid(L, c, r, k, n)
  BY <1>7, <1>9, LaidEqual
<1> QED
  BY <1>4, <1>10 DEF ns

-----------------------------------------------------------------------------
(* What the memory of a history keeps.                                      *)

\* The turns up to n whose digest owed a summary and wrote none.
UnpaidIn(h, n) ==
    {t \in 1..n : At(h, "scene_summarized", t) = {} /\ AgedOut(Tale(h, t)) # {}}

\* After turn n the memory is whole, and no more scenes wait than digests failed.
Kept(h, n) ==
    /\ Whole(Tale(h, n), n)
    /\ Cardinality(AgedOut(Tale(h, n))) <= Cardinality(UnpaidIn(h, n))

Remembered(h) == \A n \in 0..Latest(Turns(h)) : Kept(h, n)

LEMMA SameBefore ==
    ASSUME NEW h, NEW g, NEW n \in Nat, Same(h, g, n)
    PROVE  \A t \in 0..n : Tale(h, t) = Tale(g, t)
<1>1. \A t \in 0..n : t \in Nat /\ Same(h, g, t)
  BY DEF Same
<1> QED
  BY <1>1, TaleSame

LEMMA UnpaidSame ==
    ASSUME NEW h, NEW g, NEW n \in Nat, Same(h, g, n)
    PROVE  UnpaidIn(h, n) = UnpaidIn(g, n)
<1>1. \A t \in 1..n : Tale(h, t) = Tale(g, t)
  BY SameBefore
<1>2. \A t \in 1..n : At(h, "scene_summarized", t) = At(g, "scene_summarized", t)
  BY DEF Same, MemoryTypes
<1> QED
  BY <1>1, <1>2 DEF UnpaidIn

LEMMA KeptSame ==
    ASSUME NEW h, NEW g, NEW n \in Nat, Same(h, g, n), Kept(h, n)
    PROVE  Kept(g, n)
  BY TaleSame, UnpaidSame DEF Kept

LEMMA UnpaidFinite ==
    ASSUME NEW h, NEW n \in Nat
    PROVE  IsFiniteSet(UnpaidIn(h, n)) /\ Cardinality(UnpaidIn(h, n)) \in Nat
<1>1. IsFiniteSet(1..n) /\ UnpaidIn(h, n) \subseteq 1..n
  BY FS_Interval DEF UnpaidIn
<1> QED
  BY <1>1, FS_Subset, FS_CardinalityType

\* The last turn counts if its digest owed a summary and wrote none.
LEMMA UnpaidGrows ==
    ASSUME NEW h, NEW n \in Nat
    PROVE  /\ At(h, "scene_summarized", n + 1) # {} \/ AgedOut(Tale(h, n + 1)) = {}
              => UnpaidIn(h, n + 1) = UnpaidIn(h, n)
           /\ At(h, "scene_summarized", n + 1) = {} /\ AgedOut(Tale(h, n + 1)) # {}
              => Cardinality(UnpaidIn(h, n + 1)) = Cardinality(UnpaidIn(h, n)) + 1
<1>1. 1..(n + 1) = (1..n) \cup {n + 1} /\ n + 1 \notin 1..n
  OBVIOUS
<1>2. CASE At(h, "scene_summarized", n + 1) # {} \/ AgedOut(Tale(h, n + 1)) = {}
  BY <1>1, <1>2 DEF UnpaidIn
<1>3. CASE At(h, "scene_summarized", n + 1) = {} /\ AgedOut(Tale(h, n + 1)) # {}
  <2>1. UnpaidIn(h, n + 1) = UnpaidIn(h, n) \cup {n + 1} /\ n + 1 \notin UnpaidIn(h, n)
    BY <1>1, <1>3 DEF UnpaidIn
  <2>2. IsFiniteSet(UnpaidIn(h, n))
    BY UnpaidFinite
  <2> QED
    BY <1>3, <2>1, <2>2, FS_AddElement
<1> QED
  BY <1>2, <1>3

LEMMA KeptFromStart ==
    ASSUME NEW h
    PROVE  Kept(h, 0)
<1>1. Laid(0, <<>>, <<>>, 0, 0) = NoStory
  <2> DEFINE none == [i \in 1..0 |-> [scene |-> <<>>[i], raw |-> <<>>[i],
                                      summary |-> IF i <= 0 THEN <<>>[i] ELSE {}]]
  <2>1. none = <<>>
    BY DEF none
  <2>2. UNION {<<>>[i] : i \in 1..0} = {}
    OBVIOUS
  <2> QED
    BY <2>1, <2>2 DEF Laid, NoStory
<1>2. Sound(0, <<>>, 0, 0, 0)
  BY DEF Sound
<1>3. Tale(h, 0) = Laid(0, <<>>, <<>>, 0, 0)
  BY <1>1, TaleIs
<1>4. Whole(Tale(h, 0), 0)
  BY <1>2, <1>3 DEF Whole
<1>5. AgedOut(Tale(h, 0)) = {}
  <2>1. (0 + 1)..(0 - RawScenes) = {}
    BY RecapAssumption
  <2> QED
    BY <1>2, <1>3, <2>1, Awaiting
<1>6. Cardinality(UnpaidIn(h, 0)) \in Nat
  BY UnpaidFinite
<1>7. Cardinality({}) = 0
  BY FS_EmptySet
<1> QED
  BY <1>4, <1>5, <1>6, <1>7 DEF Kept

\* The narrator's commit keeps the memory: one scene more may wait, and if any
\* waits the turn owes a summary.
LEMMA RecordKept ==
    ASSUME NEW h, NEW n \in Nat, Kept(h, n), NEW e, At(h, "narration_recorded", n + 1) = {e},
           At(h, "scene_summarized", n + 1) = {}, At(h, "recap_recompressed", n + 1) = {}
    PROVE  Kept(h, n + 1)
<1>1. e.turn = n + 1
  <2>1. e \in At(h, "narration_recorded", n + 1)
    OBVIOUS
  <2> QED
    BY <2>1 DEF At
<1>2. Tale(h, n + 1) = Recorded(Tale(h, n), e)
  <2>1. Tale(h, n + 1) = Folded(Tale(h, n), n + 1, h)
    BY TaleIs
  <2>2. Folded(Tale(h, n), n + 1, h)
        = RecompressAll(SummarizeAll(RecordAll(Tale(h, n), {e}), {}), {})
    BY FoldedIs
  <2> QED
    BY <2>1, <2>2, RecordOne, SummarizeOne, RecompressOne
<1>3. PICK L, c, r, k, m : Sound(L, r, k, m, n) /\ Tale(h, n) = Laid(L, c, r, k, m)
  BY DEF Kept, Whole
<1>4. PICK M, d, q :
          /\ M \in {L, L + 1} /\ Sound(M, q, k, m, n + 1)
          /\ Recorded(Laid(L, c, r, k, m), e) = Laid(M, d, q, k, m)
  BY <1>1, <1>3, RecordLaid
<1>5. Tale(h, n + 1) = Laid(M, d, q, k, m)
  BY <1>2, <1>3, <1>4
<1>6. Whole(Tale(h, n + 1), n + 1)
  BY <1>4, <1>5 DEF Whole
<1>7. /\ AgedOut(Tale(h, n)) = (k + 1)..(L - RawScenes)
      /\ AgedOut(Tale(h, n + 1)) = (k + 1)..(M - RawScenes)
  BY <1>3, <1>4, <1>5, Awaiting
<1>8. L \in Nat /\ M \in Nat /\ M <= L + 1 /\ k \in Nat /\ RawScenes \in Nat
  BY <1>3, <1>4, RecapAssumption DEF Sound
<1>9. /\ Cardinality(AgedOut(Tale(h, n))) \in Nat
      /\ Cardinality(AgedOut(Tale(h, n + 1))) \in Nat
      /\ Cardinality(AgedOut(Tale(h, n + 1))) <= Cardinality(AgedOut(Tale(h, n))) + 1
  <2>1. L - RawScenes \in Int /\ M - RawScenes \in Int
    BY <1>8
  <2>2. /\ Cardinality((k + 1)..(L - RawScenes))
           = IF L - RawScenes > k THEN (L - RawScenes) - k ELSE 0
        /\ Cardinality((k + 1)..(M - RawScenes))
           = IF M - RawScenes > k THEN (M - RawScenes) - k ELSE 0
    BY <1>8, <2>1, HowManyWait
  <2> QED
    BY <1>7, <1>8, <2>2
<1>10. /\ Cardinality(UnpaidIn(h, n)) \in Nat
       /\ Cardinality(AgedOut(Tale(h, n))) <= Cardinality(UnpaidIn(h, n))
  BY UnpaidFinite DEF Kept
<1>11. CASE AgedOut(Tale(h, n + 1)) = {}
  <2>1. Cardinality(AgedOut(Tale(h, n + 1))) = 0
    BY <1>11, FS_EmptySet
  <2>2. Cardinality(UnpaidIn(h, n + 1)) \in Nat
    BY UnpaidFinite
  <2> QED
    BY <1>6, <2>1, <2>2 DEF Kept
<1>12. CASE AgedOut(Tale(h, n + 1)) # {}
  <2>1. Cardinality(UnpaidIn(h, n + 1)) = Cardinality(UnpaidIn(h, n)) + 1
    BY <1>12, UnpaidGrows
  <2>2. Cardinality(AgedOut(Tale(h, n + 1))) <= Cardinality(UnpaidIn(h, n + 1))
    BY <1>9, <1>10, <2>1
  <2> QED
    BY <1>6, <2>2 DEF Kept
<1> QED
  BY <1>11, <1>12

\* The digest of turn n + 1 takes h to g.
Digested(h, g, n, s) ==
    LET ns == Tale(h, n + 1)
        next == Summarized(ns, s)
    IN /\ Same(h, g, n)
       /\ At(g, "narration_recorded", n + 1) = At(h, "narration_recorded", n + 1)
       /\ At(h, "scene_summarized", n + 1) = {} /\ At(h, "recap_recompressed", n + 1) = {}
       /\ AgedOut(ns) # {}
       /\ s.place = ns.scenes[Min(AgedOut(ns))].scene
       /\ At(g, "scene_summarized", n + 1) = {s}
       /\ \/ At(g, "recap_recompressed", n + 1) = {}
          \/ \E q : At(g, "recap_recompressed", n + 1) = {q} /\ q.n = Max(Oldest(next))

\* What the folds of a turn come to with and without the digest.
LEMMA DigestTold ==
    ASSUME NEW h, NEW g, NEW n \in Nat, NEW s, Digested(h, g, n, s)
    PROVE  Tale(g, n + 1) = RecompressAll(Summarized(Tale(h, n + 1), s),
                                          At(g, "recap_recompressed", n + 1))
<1> DEFINE told == RecordAll(Tale(h, n), At(h, "narration_recorded", n + 1))
           rest == At(g, "recap_recompressed", n + 1)
<1>1. Tale(h, n) = Tale(g, n)
  BY TaleSame DEF Digested
<1>2. Tale(h, n + 1) = told
  <2>1. Tale(h, n + 1) = Folded(Tale(h, n), n + 1, h)
    BY TaleIs
  <2>2. Folded(Tale(h, n), n + 1, h) = RecompressAll(SummarizeAll(told, {}), {})
    BY FoldedIs DEF Digested
  <2> HIDE DEF told
  <2> QED
    BY <2>1, <2>2, SummarizeOne, RecompressOne
<1>3. Tale(g, n + 1) = RecompressAll(SummarizeAll(told, {s}), rest)
  <2>1. Tale(g, n + 1) = Folded(Tale(g, n), n + 1, g)
    BY TaleIs
  <2> QED
    BY <1>1, <2>1, FoldedIs DEF Digested
<1> HIDE DEF told, rest
<1>4. SummarizeAll(told, {s}) = Summarized(told, s)
  BY SummarizeOne
<1> QED
  BY <1>2, <1>3, <1>4 DEF rest

\* The digest keeps the memory: its summary lands on the first scene that waits.
LEMMA DigestKept ==
    ASSUME NEW h, NEW g, NEW n \in Nat, NEW s, Digested(h, g, n, s), Kept(h, n + 1)
    PROVE  Kept(g, n + 1)
<1> DEFINE ns == Tale(h, n + 1)
           next == Summarized(ns, s)
           end == Tale(g, n + 1)
<1>1. PICK L, c, r, k, m : Sound(L, r, k, m, n + 1) /\ ns = Laid(L, c, r, k, m)
  BY DEF Kept, Whole
<1>2. L \in Nat /\ k \in 0..L /\ m \in 0..k /\ RawScenes \in Nat \ {0}
  BY <1>1, RecapAssumption DEF Sound
<1>3. AgedOut(ns) = (k + 1)..(L - RawScenes) /\ AgedOut(ns) # {}
  <2>1. AgedOut(ns) = (k + 1)..(L - RawScenes)
    BY <1>1, Awaiting
  <2> QED
    BY <2>1 DEF Digested
<1>4. k + 1 <= L - RawScenes /\ k + 1 \in 1..L
  BY <1>2, <1>3
<1>5. Min(AgedOut(ns)) = k + 1
  <2>1. AgedOut(ns) \in SUBSET Nat /\ k + 1 \in AgedOut(ns) /\ \A i \in AgedOut(ns) : k + 1 <= i
    BY <1>2, <1>3, <1>4
  <2> HIDE DEF ns
  <2>2. Min(AgedOut(ns)) \in AgedOut(ns) /\ \A x \in AgedOut(ns) : Min(AgedOut(ns)) <= x
    BY <2>1, MinOfNumbers
  <2>3. k + 1 <= Min(AgedOut(ns)) /\ Min(AgedOut(ns)) <= k + 1 /\ Min(AgedOut(ns)) \in Nat
    BY <2>1, <2>2
  <2> QED
    BY <1>2, <2>3
<1>6. s.place = c[k + 1]
  <2>1. Reads(ns, L, c, r, k, m)
    BY <1>1, <1>2, LaidIs
  <2>2. s.place = ns.scenes[k + 1].scene
    BY <1>5 DEF Digested
  <2> HIDE DEF ns
  <2> QED
    BY <1>4, <2>1, <2>2 DEF Reads
<1>7. Sound(L, r, k + 1, m, n + 1) /\ next = Laid(L, c, r, k + 1, m)
  <2>1. /\ Sound(L, r, k + 1, m, n + 1)
        /\ Summarized(Laid(L, c, r, k, m), s) = Laid(L, c, r, k + 1, m)
    BY <1>1, <1>4, <1>6, SummarizeLaid
  <2> HIDE DEF ns
  <2> QED
    BY <1>1, <2>1
<1>8. \E i : Sound(L, r, k + 1, i, n + 1) /\ end = Laid(L, c, r, k + 1, i)
  <2>1. CASE At(g, "recap_recompressed", n + 1) = {}
    <3>1. end = RecompressAll(next, {})
      BY <2>1, DigestTold
    <3>2. RecompressAll(next, {}) = next
      <4> HIDE DEF next
      <4> QED
        BY RecompressOne
    <3> HIDE DEF end, next
    <3> QED
      BY <1>7, <3>1, <3>2
  <2>2. CASE \E q : At(g, "recap_recompressed", n + 1) = {q} /\ q.n = Max(Oldest(next))
    <3>1. PICK q : At(g, "recap_recompressed", n + 1) = {q} /\ q.n = Max(Oldest(next))
      BY <2>2
    <3>2. end = Recompressed(next, q)
      BY <3>1, DigestTold, RecompressOne
    <3>3. m < k + 1
      BY <1>2
    <3> HIDE DEF end, next
    <3>4. q.n = Max(Oldest(Laid(L, c, r, k + 1, m)))
      BY <1>7, <3>1
    <3>5. \E i : /\ Sound(L, r, k + 1, i, n + 1)
                 /\ Recompressed(Laid(L, c, r, k + 1, m), q) = Laid(L, c, r, k + 1, i)
      BY <1>7, <3>3, <3>4, RecompressLaid
    <3> QED
      BY <1>7, <3>2, <3>5
  <2> QED
    BY <2>1, <2>2 DEF Digested
<1>9. PICK i : Sound(L, r, k + 1, i, n + 1) /\ end = Laid(L, c, r, k + 1, i)
  BY <1>8
<1>10. Whole(end, n + 1)
  <2> HIDE DEF end
  <2> QED
    BY <1>9 DEF Whole
<1>11. AgedOut(end) = ((k + 1) + 1)..(L - RawScenes)
  <2> HIDE DEF end
  <2> QED
    BY <1>9, Awaiting
<1>12. Cardinality(AgedOut(ns)) \in Nat
       /\ Cardinality(AgedOut(end)) = Cardinality(AgedOut(ns)) - 1
  <2>1. L - RawScenes \in Int /\ k \in Nat /\ k + 1 \in Nat
    BY <1>2
  <2>2. Cardinality((k + 1)..(L - RawScenes))
        = IF L - RawScenes > k THEN (L - RawScenes) - k ELSE 0
    BY <2>1, HowManyWait
  <2>3. Cardinality(((k + 1) + 1)..(L - RawScenes))
        = IF L - RawScenes > k + 1 THEN (L - RawScenes) - (k + 1) ELSE 0
    BY <2>1, HowManyWait
  <2> HIDE DEF ns, end
  <2> QED
    BY <1>2, <1>3, <1>4, <1>11, <2>1, <2>2, <2>3
<1>13. Cardinality(UnpaidIn(h, n + 1)) = Cardinality(UnpaidIn(h, n)) + 1
  BY <1>3, UnpaidGrows DEF Digested
<1>14. UnpaidIn(g, n + 1) = UnpaidIn(h, n)
  <2>1. At(g, "scene_summarized", n + 1) # {}
    BY DEF Digested
  <2>2. UnpaidIn(g, n + 1) = UnpaidIn(g, n)
    BY <2>1, UnpaidGrows
  <2>3. UnpaidIn(h, n) = UnpaidIn(g, n)
    BY UnpaidSame DEF Digested
  <2> QED
    BY <2>2, <2>3
<1>15. Cardinality(AgedOut(ns)) <= Cardinality(UnpaidIn(h, n + 1))
       /\ Cardinality(UnpaidIn(h, n)) \in Nat
  BY UnpaidFinite DEF Kept
<1>16. Cardinality(AgedOut(end)) <= Cardinality(UnpaidIn(g, n + 1))
  <2> HIDE DEF ns, end
  <2> QED
    BY <1>12, <1>13, <1>14, <1>15
<1> QED
  BY <1>10, <1>16 DEF Kept

-----------------------------------------------------------------------------
(* The memory over the turns.                                               *)

\* Two histories of which the second is no longer than the first.
LEMMA RememberedSame ==
    ASSUME NEW h, NEW g, Remembered(h), Latest(Turns(h)) \in Nat, Latest(Turns(g)) \in Nat,
           Latest(Turns(g)) <= Latest(Turns(h)), Same(h, g, Latest(Turns(g)))
    PROVE  Remembered(g)
<1> DEFINE a == Latest(Turns(h))
           b == Latest(Turns(g))
<1>1. a \in Nat /\ b \in Nat /\ b <= a
  OBVIOUS
<1>2. Same(h, g, b) /\ \A n \in 0..a : Kept(h, n)
  BY DEF Remembered
<1> HIDE DEF a, b
<1>3. ASSUME NEW n \in 0..b PROVE Kept(g, n)
  <2>1. n \in Nat /\ n \in 0..a
    BY <1>1
  <2>2. \A t \in 1..n : t \in 1..b
    BY <1>1
  <2>3. Same(h, g, n)
    BY <1>2, <2>2 DEF Same
  <2> QED
    BY <1>2, <2>1, <2>3, KeptSame
<1> QED
  BY <1>3 DEF Remembered, b

\* The events that a turn adds to a history of earlier turns.
LEMMA AddedTurn ==
    ASSUME Numbered(log), NEW new, \A e \in new : e.turn = Turn
    PROVE  /\ Turn - 1 \in Nat /\ (Turn - 1) + 1 = Turn /\ Turn \in Nat
           /\ Latest(Turns(log)) = Turn - 1
           /\ Same(log, log \cup new, Turn - 1)
           /\ \A type : At(log \cup new, type, Turn) = Of(new, type)
<1> DEFINE last == Latest(Turns(log))
<1>1. last \in 0..MaxTurn /\ \A e \in log : e.turn \in 1..last
  BY LastTurn
<1>2. last \in Nat /\ Turn = last + 1
  BY <1>1, BackstageAssumption DEF Turn
<1>3. Turn - 1 \in Nat /\ (Turn - 1) + 1 = Turn /\ Turn \in Nat /\ last = Turn - 1
  BY <1>2
<1>4. \A e \in log : e.turn # Turn
  BY <1>1, <1>2
<1>5. \A t \in 1..(Turn - 1) : t # Turn
  BY <1>3
<1>6. Same(log, log \cup new, Turn - 1)
  BY <1>5 DEF Same, At, Of
<1>7. \A type : At(log \cup new, type, Turn) = Of(new, type)
  BY <1>4 DEF At, Of
<1> QED
  BY <1>3, <1>6, <1>7

\* A turn under way is the last one of what its hooks see.
LEMMA ToldLast ==
    ASSUME Numbered(log), Turn <= MaxTurn, NEW events, Told(events)
    PROVE  Numbered(log \cup events) /\ Latest(Turns(log \cup events)) = Turn
<1>1. /\ \A e \in events : IsEvent(e) /\ e.turn = Turn
      /\ Of(events, "narration_recorded") # {}
  BY DEF Told
<1> QED
  BY <1>1, NumberedGrows DEF Turn

Memory ==
    /\ Remembered(Seen)
    /\ pc = "digest" => /\ Of(staged, "scene_summarized") = {}
                        /\ Of(staged, "recap_recompressed") = {}
    /\ pc \in {"drain", "descend"} =>
           \A type \in MemoryTypes : Of(mark, type) = Of(staged, type)

\* The memory does not see what other hooks add.
LEMMA OthersRemember ==
    ASSUME Numbered(log), Turn <= MaxTurn, NEW S, Told(S), NEW R, Told(R),
           \A type \in MemoryTypes : Of(R, type) = Of(S, type), Remembered(log \cup S)
    PROVE  Remembered(log \cup R)
<1>1. Latest(Turns(log \cup S)) = Turn /\ Latest(Turns(log \cup R)) = Turn
  BY ToldLast
<1>2. Turn \in Nat
  BY LastTurn, BackstageAssumption DEF Turn
<1>3. Same(log \cup S, log \cup R, Turn)
  BY DEF Same, At, Of
<1>4. Turn <= Turn
  BY <1>2
<1> QED
  BY <1>1, <1>2, <1>3, <1>4, RememberedSame

LEMMA MemoryInit == ASSUME Init PROVE Memory
<1>1. Seen = {} /\ pc = "idle"
  BY DEF Init, Seen
<1>2. Numbered(log) /\ log = {}
  BY ShapeInit DEF Shape, Init
<1>3. Latest(Turns({})) = 0
  <2>1. Turns({}) = {}
    BY DEF Turns
  <2>2. {} \subseteq Nat /\ 0 \in Nat /\ \A x \in {} : x <= 0
    OBVIOUS
  <2>3. Latest({}) = 0
    BY <2>2, LatestOf
  <2> QED
    BY <2>1, <2>3
<1>4. Remembered({})
  <2>1. \A n \in 0..0 : n = 0
    OBVIOUS
  <2> QED
    BY <1>3, <2>1, KeptFromStart DEF Remembered
<1> QED
  BY <1>1, <1>4 DEF Memory

LEMMA NarrateRemembers ==
    ASSUME Shape, Memory, NEW areas, Narrate(areas)
    PROVE  Memory'
<1> DEFINE prose == Event("narration_recorded", Turn, Scene, Inject(log))
           others == {Event("clock_advanced", Turn, NoPlace, 0)}
                     \cup {Event("declared", Turn, p, 0) : p \in areas}
           h == log \cup staged'
<1>1. /\ staged' = {prose} \cup others /\ Turn' = Turn /\ Turn <= MaxTurn /\ UNCHANGED log
      /\ Told(staged)' /\ pc = "idle" /\ pc' = "digest"
  BY NarrateTells
<1>2. Numbered(log) /\ staged = {} /\ Seen = log /\ Seen' = log \cup staged'
  BY <1>1 DEF Shape, Seen
<1>3. /\ prose.type = "narration_recorded"
      /\ \A e \in others : e.type \in {"clock_advanced", "declared"}
  BY DEF Event
<1>4. /\ Of(staged', "narration_recorded") = {prose}
      /\ Of(staged', "scene_summarized") = {} /\ Of(staged', "recap_recompressed") = {}
  <2> HIDE DEF prose, others
  <2> QED
    BY <1>1, <1>3 DEF Of
<1>5. /\ \A e \in staged' : IsEvent(e) /\ e.turn = Turn
      /\ Of(staged', "narration_recorded") # {}
  BY <1>1 DEF Told
<1>6. Latest(Turns(log \cup staged')) = Turn
  BY <1>1, <1>2, <1>5, NumberedGrows DEF Turn
<1>7. /\ Turn - 1 \in Nat /\ (Turn - 1) + 1 = Turn /\ Turn \in Nat
      /\ Latest(Turns(log)) = Turn - 1
      /\ Same(log, log \cup staged', Turn - 1)
      /\ \A type : At(log \cup staged', type, Turn) = Of(staged', type)
  BY <1>2, <1>5, AddedTurn
<1> HIDE DEF h, prose
<1>8. \A n \in 0..(Turn - 1) : Kept(h, n)
  <2>1. ASSUME NEW n \in 0..(Turn - 1) PROVE Kept(h, n)
    <3>1. n \in Nat /\ \A t \in 1..n : t \in 1..(Turn - 1)
      BY <1>7
    <3>2. Same(log, h, n)
      BY <1>7, <3>1 DEF Same, h
    <3>3. Kept(log, n)
      BY <1>2, <1>7 DEF Memory, Remembered
    <3> QED
      BY <3>1, <3>2, <3>3, KeptSame
  <2> QED
    BY <2>1
<1>9. Kept(h, Turn)
  <2>1. Kept(h, Turn - 1)
    BY <1>7, <1>8
  <2>2. /\ At(h, "narration_recorded", (Turn - 1) + 1) = {prose}
        /\ At(h, "scene_summarized", (Turn - 1) + 1) = {}
        /\ At(h, "recap_recompressed", (Turn - 1) + 1) = {}
    BY <1>4, <1>7 DEF h
  <2>3. Kept(h, (Turn - 1) + 1)
    BY <1>7, <2>1, <2>2, RecordKept
  <2> QED
    BY <1>7, <2>3
<1>10. Remembered(h)
  <2>1. \A n \in 0..Turn : n = Turn \/ n \in 0..(Turn - 1)
    BY <1>7
  <2>2. Latest(Turns(h)) = Turn
    BY <1>6 DEF h
  <2> QED
    BY <1>8, <1>9, <2>1, <2>2 DEF Remembered
<1>11. Remembered(Seen)'
  BY <1>2, <1>10 DEF h
<1> QED
  BY <1>1, <1>4, <1>11 DEF Memory

\* What the digest writes, and that it is made from the memory of its turn.
LEMMA DigestWrites ==
    ASSUME Shape, Memory, pc = "digest", NEW events \in Digests(Seen, Turn), events # {}
    PROVE  \E s : Digested(Seen, Seen \cup events, Turn - 1, s)
<1> DEFINE ns == Story(Seen)
           scene == ns.scenes[Min(AgedOut(ns))].scene
           s == Event("scene_summarized", Turn, scene, 0)
           next == Story(Seen \cup {s})
           q == Event("recap_recompressed", Turn, scene, Max(Oldest(next)))
<1>1. /\ AgedOut(ns) # {}
      /\ events = {s} \/ events = {s, q}
  BY DEF Digests
<1>2. Numbered(log) /\ Turn <= MaxTurn /\ Told(staged)
  BY DEF Shape
<1>3. Numbered(Seen) /\ Latest(Turns(Seen)) = Turn
  BY <1>2, ToldLast DEF Seen
<1>4. /\ Of(staged, "scene_summarized") = {} /\ Of(staged, "recap_recompressed") = {}
  BY DEF Memory
<1>5. \A e \in staged : e.turn = Turn
  BY <1>2 DEF Told
<1>6. /\ s.type = "scene_summarized" /\ s.turn = Turn /\ s.place = scene
      /\ q.type = "recap_recompressed" /\ q.turn = Turn /\ q.n = Max(Oldest(next))
  BY DEF Event
<1>7. ns = Tale(Seen, Turn)
  BY <1>3, StoryIs
<1>8. ASSUME NEW new, new = {s} \/ new = {s, q}
      PROVE  /\ Turn - 1 \in Nat /\ (Turn - 1) + 1 = Turn
             /\ Same(Seen, Seen \cup new, Turn - 1)
             /\ At(Seen, "narration_recorded", Turn) = At(Seen \cup new, "narration_recorded", Turn)
             /\ At(Seen, "scene_summarized", Turn) = {}
             /\ At(Seen, "recap_recompressed", Turn) = {}
             /\ At(Seen \cup new, "scene_summarized", Turn) = {s}
             /\ At(Seen \cup new, "recap_recompressed", Turn) = new \ {s}
  <2> HIDE DEF s, q
  <2>1. \A e \in new : e.turn = Turn /\ e.type \in {"scene_summarized", "recap_recompressed"}
    BY <1>6, <1>8
  <2>2. /\ Of(new, "narration_recorded") = {}
        /\ Of(new, "scene_summarized") = {s} /\ Of(new, "recap_recompressed") = new \ {s}
    BY <1>6, <1>8 DEF Of
  <2> DEFINE both == staged \cup new
  <2>3. /\ Of(both, "narration_recorded") = Of(staged, "narration_recorded")
        /\ Of(both, "scene_summarized") = {s} /\ Of(both, "recap_recompressed") = new \ {s}
    BY <1>4, <2>2 DEF Of
  <2>4. \A e \in both : e.turn = Turn
    BY <1>5, <2>1
  <2> HIDE DEF both
  <2>5. /\ Turn - 1 \in Nat /\ (Turn - 1) + 1 = Turn
        /\ Same(log, log \cup staged, Turn - 1) /\ Same(log, log \cup both, Turn - 1)
        /\ \A type : At(log \cup staged, type, Turn) = Of(staged, type)
        /\ \A type : At(log \cup both, type, Turn) = Of(both, type)
    BY <1>2, <1>5, <2>4, AddedTurn
  <2>6. log \cup staged = Seen /\ log \cup both = Seen \cup new
    BY DEF Seen, both
  <2>7. Same(Seen, Seen \cup new, Turn - 1)
    BY <2>5, <2>6 DEF Same
  <2> QED
    BY <1>4, <2>3, <2>5, <2>6, <2>7
<1>9. /\ Turn - 1 \in Nat /\ (Turn - 1) + 1 = Turn
      /\ Digested(Seen, Seen \cup {s}, Turn - 1, s)
  <2> HIDE DEF ns, s, q
  <2>1. {s} \ {s} = {}
    OBVIOUS
  <2>2. s.place = Tale(Seen, Turn).scenes[Min(AgedOut(Tale(Seen, Turn)))].scene
    BY <1>6, <1>7
  <2>3. AgedOut(Tale(Seen, Turn)) # {}
    BY <1>1, <1>7
  <2> QED
    BY <1>8, <2>1, <2>2, <2>3 DEF Digested
<1>10. next = Summarized(Tale(Seen, Turn), s)
  <2>1. Latest(Turns(Seen \cup {s})) = Turn
    <3>1. Turn \in Nat /\ \A e \in Seen : e.turn \in 1..Turn
      BY <1>2, <1>3, LastTurn, BackstageAssumption DEF Turn
    <3>2. Turns(Seen \cup {s}) \subseteq Nat /\ Turn \in Turns(Seen \cup {s})
          /\ \A t \in Turns(Seen \cup {s}) : t <= Turn
      <4> HIDE DEF s
      <4>1. \A e \in Seen \cup {s} : e.turn \in Nat /\ e.turn <= Turn
        BY <1>6, <3>1
      <4> QED
        BY <1>6, <4>1 DEF Turns
    <3> HIDE DEF s
    <3>3. /\ Latest(Turns(Seen \cup {s})) \in Nat /\ Latest(Turns(Seen \cup {s})) <= Turn
          /\ \A t \in Turns(Seen \cup {s}) : t <= Latest(Turns(Seen \cup {s}))
      BY <3>1, <3>2, LatestOf
    <3> QED
      BY <3>1, <3>2, <3>3
  <2>2. next = Tale(Seen \cup {s}, Turn)
    BY <2>1, StoryIs
  <2>3. At(Seen \cup {s}, "recap_recompressed", Turn) = {s} \ {s} /\ {s} \ {s} = {}
    BY <1>8
  <2> HIDE DEF next, s, q
  <2>4. Tale(Seen \cup {s}, (Turn - 1) + 1)
        = RecompressAll(Summarized(Tale(Seen, (Turn - 1) + 1), s),
                        At(Seen \cup {s}, "recap_recompressed", (Turn - 1) + 1))
    BY <1>9, DigestTold
  <2>5. Tale(Seen \cup {s}, Turn) = RecompressAll(Summarized(Tale(Seen, Turn), s), {})
    BY <1>9, <2>3, <2>4
  <2> QED
    BY <2>2, <2>5, RecompressOne
<1>11. CASE events = {s}
  BY <1>9, <1>11
<1>12. CASE events = {s, q}
  <2> HIDE DEF ns, s, q, next
  <2>1. s # q
    BY <1>6
  <2>2. At(Seen \cup events, "recap_recompressed", Turn) = {q}
    BY <1>8, <1>12, <2>1
  <2>3. q.n = Max(Oldest(Summarized(Tale(Seen, Turn), s)))
    BY <1>6, <1>10
  <2>4. s.place = Tale(Seen, Turn).scenes[Min(AgedOut(Tale(Seen, Turn)))].scene
        /\ AgedOut(Tale(Seen, Turn)) # {}
    BY <1>1, <1>6, <1>7
  <2>5. /\ Same(Seen, Seen \cup events, Turn - 1)
        /\ At(Seen \cup events, "narration_recorded", Turn) = At(Seen, "narration_recorded", Turn)
        /\ At(Seen, "scene_summarized", Turn) = {} /\ At(Seen, "recap_recompressed", Turn) = {}
        /\ At(Seen \cup events, "scene_summarized", Turn) = {s}
    BY <1>8, <1>12
  <2>6. Digested(Seen, Seen \cup events, Turn - 1, s)
    BY <1>9, <2>2, <2>3, <2>4, <2>5 DEF Digested
  <2> QED
    BY <2>6
<1> QED
  BY <1>1, <1>11, <1>12

LEMMA DigestRemembers ==
    ASSUME Shape, Shape', Memory, NEW events \in Digests(Seen, Turn), Digest(events)
    PROVE  Memory'
<1>1. /\ pc = "digest" /\ Stage(events) /\ pc' = "direct" /\ UNCHANGED log
  BY DEF Digest
<1>2. \A e \in events : Stamp(e, Turn) = e
  <2>1. \A e \in events : \E type, place, n : e = Event(type, Turn, place, n)
    BY DEF Digests
  <2> QED
    BY <2>1, Stamped
<1>3. staged' = staged \cup events /\ Seen' = Seen \cup events
  <2>1. staged' = staged \cup events
    BY <1>1, <1>2 DEF Stage
  <2> QED
    BY <1>1, <2>1 DEF Seen
<1>4. CASE events = {}
  BY <1>1, <1>3, <1>4 DEF Memory
<1>5. CASE events # {}
  <2>1. PICK s : Digested(Seen, Seen \cup events, Turn - 1, s)
    BY <1>1, <1>5, DigestWrites
  <2>2. Numbered(log) /\ Turn <= MaxTurn /\ Told(staged) /\ Told(staged)' /\ Turn' = Turn
    BY <1>1 DEF Shape, Turn
  <2>3. Latest(Turns(Seen)) = Turn
    BY <2>2, ToldLast DEF Seen
  <2>4. Turn - 1 \in Nat /\ (Turn - 1) + 1 = Turn /\ Turn \in Nat
    BY <2>2, AddedTurn DEF Told
  <2>5. Latest(Turns(Seen \cup events)) = Turn
    <3>1. /\ \A e \in staged' : IsEvent(e) /\ e.turn = Turn
          /\ Of(staged', "narration_recorded") # {}
      BY <2>2 DEF Told
    <3>2. Latest(Turns(log \cup staged')) = Turn
      BY <2>2, <3>1, NumberedGrows DEF Turn
    <3> QED
      BY <1>1, <1>3, <3>2 DEF Seen
  <2>6. \A n \in 0..Turn : Kept(Seen, n)
    BY <2>3 DEF Memory, Remembered
  <2>7. Kept(Seen \cup events, Turn)
    <3>1. Kept(Seen, (Turn - 1) + 1)
      BY <2>4, <2>6
    <3>2. Kept(Seen \cup events, (Turn - 1) + 1)
      BY <2>1, <2>4, <3>1, DigestKept
    <3> QED
      BY <2>4, <3>2
  <2>8. ASSUME NEW n \in 0..(Turn - 1) PROVE Kept(Seen \cup events, n)
    <3>1. n \in Nat /\ n \in 0..Turn /\ \A t \in 1..n : t \in 1..(Turn - 1)
      BY <2>4
    <3>2. Same(Seen, Seen \cup events, n)
      BY <2>1, <3>1 DEF Digested, Same
    <3> QED
      BY <2>6, <3>1, <3>2, KeptSame
  <2>9. \A n \in 0..Turn : n = Turn \/ n \in 0..(Turn - 1)
    BY <2>4
  <2>10. Remembered(Seen \cup events)
    BY <2>5, <2>7, <2>8, <2>9 DEF Remembered
  <2> QED
    BY <1>1, <1>3, <2>10 DEF Memory
<1> QED
  BY <1>4, <1>5

\* A turn goes on, and no hook but the digest writes what the memory reads.
LEMMA GoesOnRemembers ==
    ASSUME Shape, Shape', Memory, UNCHANGED log, pc # "idle", pc' # "idle", pc' # "digest",
           \A type \in MemoryTypes : Of(staged', type) = Of(staged, type),
           pc' \in {"drain", "descend"} =>
               \A type \in MemoryTypes : Of(mark', type) = Of(staged', type)
    PROVE  Memory'
<1>1. Numbered(log) /\ Turn <= MaxTurn /\ Told(staged)
  BY DEF Shape
<1>2. Told(staged)' /\ Turn' = Turn /\ Inject(log') = Inject(log)
  BY DEF Shape, Turn
<1>3. Told(staged')
  BY <1>2 DEF Told
<1>4. Remembered(log \cup staged)
  BY DEF Memory, Seen
<1>5. Remembered(log \cup staged')
  BY <1>1, <1>3, <1>4, OthersRemember
<1>6. Remembered(Seen)'
  BY <1>5 DEF Seen
<1> QED
  BY <1>6 DEF Memory

LEMMA PublishRemembers ==
    ASSUME Shape, Memory, NEW moved \in BOOLEAN, Publish(moved)
    PROVE  Memory'
<1>1. /\ \E rest : /\ log' = log \cup staged \cup rest
                   /\ \A e \in rest : IsEvent(e) /\ e.turn = Turn /\ e.type = "scene_advanced"
      /\ Latest(Turns(log')) = Turn
      /\ pc = "publish" /\ pc' = "idle" /\ staged' = {}
  BY PublishGrows
<1>2. PICK rest : /\ log' = log \cup staged \cup rest
                  /\ \A e \in rest : e.type = "scene_advanced"
  BY <1>1
<1>3. Seen' = log' /\ log' = Seen \cup rest
  BY <1>1, <1>2 DEF Seen
<1>4. Numbered(log) /\ Turn <= MaxTurn /\ Told(staged)
  BY <1>1 DEF Shape
<1>5. Latest(Turns(Seen)) = Turn /\ Turn \in Nat /\ Turn <= Turn
  <2>1. Turn \in Nat
    BY <1>4, LastTurn, BackstageAssumption DEF Turn
  <2> QED
    BY <1>4, <2>1, ToldLast DEF Seen
<1>6. Same(Seen, log', Turn)
  BY <1>2, <1>3 DEF Same, At, Of, MemoryTypes
<1>7. Remembered(log')
  BY <1>1, <1>5, <1>6, RememberedSame DEF Memory
<1> QED
  BY <1>1, <1>3, <1>7 DEF Memory

\* What was visible before the turn, whether or not a turn is under way.
LEMMA PastRemembered ==
    ASSUME Shape, Memory
    PROVE  Remembered(log)
<1>1. CASE pc = "idle"
  <2>1. Seen = log
    BY <1>1 DEF Shape, Seen
  <2> QED
    BY <2>1 DEF Memory
<1>2. CASE pc # "idle"
  <2>1. Numbered(log) /\ Turn <= MaxTurn /\ Told(staged)
    BY <1>2 DEF Shape
  <2>2. Latest(Turns(Seen)) = Turn
    BY <2>1, ToldLast DEF Seen
  <2>3. \A e \in staged : e.turn = Turn
    BY <2>1 DEF Told
  <2>4. /\ Turn - 1 \in Nat /\ Turn \in Nat /\ Turn - 1 <= Turn
        /\ Latest(Turns(log)) = Turn - 1 /\ Same(log, Seen, Turn - 1)
    <3>1. /\ Turn - 1 \in Nat /\ Turn \in Nat /\ Latest(Turns(log)) = Turn - 1
          /\ Same(log, log \cup staged, Turn - 1)
      BY <2>1, <2>3, AddedTurn
    <3>2. Turn - 1 <= Turn
      BY <3>1
    <3> QED
      BY <3>1, <3>2 DEF Seen
  <2>5. Same(Seen, log, Turn - 1)
    BY <2>4 DEF Same
  <2> QED
    BY <2>2, <2>4, <2>5, RememberedSame DEF Memory
<1> QED
  BY <1>1, <1>2

LEMMA RewindRemembers ==
    ASSUME Shape, Memory, NEW turn \in Turns(log), Rewind(turn)
    PROVE  Memory'
<1> DEFINE g == {e \in log : e.turn < turn}
<1>1. /\ log' = g /\ UNCHANGED <<staged, pc>> /\ pc = "idle" /\ staged = {}
  BY DEF Rewind, Shape
<1>2. /\ Latest(Turns(g)) = turn - 1 /\ Numbered(log)
      /\ Latest(Turns(log)) \in 0..MaxTurn /\ turn \in 1..Latest(Turns(log))
  BY NumberedShrinks, LastTurn DEF Shape
<1>3. /\ turn - 1 \in Nat /\ Latest(Turns(log)) \in Nat /\ turn - 1 <= Latest(Turns(log))
      /\ \A t \in 1..(turn - 1) : t < turn
  BY <1>2, BackstageAssumption
<1>4. Same(log, g, turn - 1)
  BY <1>3 DEF Same, At, Of
<1>5. Remembered(log)
  BY PastRemembered
<1> HIDE DEF g
<1>6. Remembered(g)
  BY <1>2, <1>3, <1>4, <1>5, RememberedSame
<1>7. Seen' = g
  BY <1>1 DEF Seen
<1> QED
  BY <1>1, <1>6, <1>7 DEF Memory

LEMMA MemoryKept == ASSUME Shape, Shape', Memory, [Next]_vars PROVE Memory'
<1>1. CASE UNCHANGED vars
  <2>1. Seen' = Seen
    BY <1>1 DEF vars, Seen
  <2> QED
    BY <1>1, <2>1 DEF vars, cascadeVars, Memory
<1>2. ASSUME NEW types, GoesOn(types), types \cap MemoryTypes = {}, pc' # "digest",
             pc' \in {"drain", "descend"} =>
                 (pc \in {"drain", "descend"} /\ mark' = mark)
      PROVE  Memory'
  <2>1. \A type \in MemoryTypes : type \notin types
    BY <1>2
  <2>2. \A type \in MemoryTypes : Of(staged', type) = Of(staged, type)
    BY <1>2, <2>1, AddsOther DEF GoesOn
  <2>3. pc # "idle" /\ pc' # "idle" /\ UNCHANGED log
    BY <1>2 DEF GoesOn, Preparing
  <2>4. pc' \in {"drain", "descend"} =>
            \A type \in MemoryTypes : Of(mark', type) = Of(staged', type)
    BY <1>2, <2>2 DEF Memory
  <2> QED
    BY <1>2, <2>2, <2>3, <2>4, GoesOnRemembers
<1>3. ASSUME UNCHANGED <<log, staged>>, pc \in Preparing, pc' \in Preparing, pc' # "digest",
             pc' \in {"drain", "descend"} => mark' = staged
      PROVE  Memory'
  <2>1. pc # "idle" /\ pc' # "idle"
    BY <1>3 DEF Preparing
  <2> QED
    BY <1>3, <2>1, GoesOnRemembers
<1>4. ASSUME NEW out, Direct(out) PROVE Memory'
  <2>1. GoesOn(DirectorTypes) /\ pc' = "cascade"
    BY <1>4, CascadeSteps DEF Direct
  <2>2. DirectorTypes \cap MemoryTypes = {}
    BY DEF DirectorTypes, MemoryTypes
  <2> QED
    BY <1>2, <2>1, <2>2
<1>5. ASSUME NEW e, DrainRegion(e) PROVE Memory'
  <2>1. GoesOn({"drained", "hop", "deferred"}) /\ mark' = mark /\ pc' = "drain" /\ pc = "drain"
    BY <1>5, CascadeSteps DEF DrainRegion
  <2>2. {"drained", "hop", "deferred"} \cap MemoryTypes = {}
    BY DEF MemoryTypes
  <2> QED
    BY <1>2, <2>1, <2>2
<1>6. CASE AskLevel
  <2>1. GoesOn({"place_evolved"}) /\ mark' = mark /\ pc' = pc /\ pc \in {"drain", "descend"}
    BY <1>6, CascadeSteps DEF AskLevel
  <2>2. {"place_evolved"} \cap MemoryTypes = {}
    BY DEF MemoryTypes
  <2> QED
    BY <1>2, <2>1, <2>2
<1>7. CASE BeginDescent
  <2>1. GoesOn({"watermark", "hop", "deferred"}) /\ mark' = mark /\ pc = "drain"
        /\ pc' = "descend"
    BY <1>7, CascadeSteps DEF BeginDescent
  <2>2. {"watermark", "hop", "deferred"} \cap MemoryTypes = {}
    BY DEF MemoryTypes
  <2> QED
    BY <1>2, <2>1, <2>2
<1>8. CASE EndCascade
  <2>1. GoesOn({"hop", "deferred"}) /\ pc' = "publish"
    BY <1>8, CascadeSteps DEF EndCascade
  <2>2. {"hop", "deferred"} \cap MemoryTypes = {}
    BY DEF MemoryTypes
  <2> QED
    BY <1>2, <2>1, <2>2
<1>9. CASE CascadeFails
  <2>1. UNCHANGED log /\ staged' = mark /\ pc \in {"drain", "descend"} /\ pc' = "publish"
    BY <1>9 DEF CascadeFails
  <2>2. \A type \in MemoryTypes : Of(staged', type) = Of(staged, type)
    BY <2>1 DEF Memory
  <2> QED
    BY <2>1, <2>2, GoesOnRemembers
<1>10. CASE Drop
  <2>1. UNCHANGED log /\ staged' = {} /\ pc' = "idle"
    BY <1>10 DEF Drop, EndTurn
  <2>2. Seen' = log
    BY <2>1 DEF Seen
  <2>3. Remembered(log)
    BY PastRemembered
  <2> QED
    BY <2>1, <2>2, <2>3 DEF Memory
<1>11. CASE DirectorFails \/ BeginCascade \/ NothingToCascade
  BY <1>3, <1>11 DEF DirectorFails, BeginCascade, NothingToCascade, Preparing
<1>12. CASE Next
  <2>1. ASSUME NEW turn, Rewind(turn) PROVE Memory'
    <3>1. turn \in Turns(log)
      BY <2>1 DEF Rewind
    <3> QED
      BY <2>1, <3>1, RewindRemembers
  <2> QED
    BY <1>4, <1>5, <1>6, <1>7, <1>8, <1>9, <1>10, <1>11, <1>12, <2>1,
       NarrateRemembers, DigestRemembers, PublishRemembers DEF Next
<1> QED
  BY <1>1, <1>12

\* What a memory laid out like this shows the narrator.
LEMMA LaidShows ==
    ASSUME NEW L, NEW c, NEW r, NEW k, NEW m, NEW t, Sound(L, r, k, m, t),
           NEW ns, ns = Laid(L, c, r, k, m)
    PROVE  LET waiting == UNION {ns.scenes[i].raw : i \in AgedOut(ns)}
           IN  /\ (UNION Shown(ns)) \cup waiting = 1..t
               /\ \A x, y \in Shown(ns) : x # y => x \cap y = {}
               /\ (UNION Shown(ns)) \cap waiting = {}
               /\ \A i \in AgedOut(ns), j \in DOMAIN ns.scenes :
                     ns.scenes[j].summary # {} => j < i
<1> DEFINE b == L - RawScenes
           waiting == UNION {ns.scenes[i].raw : i \in AgedOut(ns)}
<1>1. /\ L \in Nat /\ k \in 0..L /\ m \in 0..k /\ RawScenes \in Nat \ {0}
      /\ k = 0 \/ k + RawScenes <= L
      /\ \A i \in 1..L : r[i] # {}
      /\ \A i, j \in 1..L : i # j => r[i] \cap r[j] = {}
      /\ UNION {r[i] : i \in 1..L} = 1..t
  BY RecapAssumption DEF Sound
<1>2. b \in Int /\ b < L /\ (k = 0 \/ k <= b)
  BY <1>1
<1>3. Reads(ns, L, c, r, k, m)
  BY <1>1, LaidIs
<1>4. AgedOut(ns) = (k + 1)..b
  BY Awaiting
<1>5. (k + 1)..b \subseteq 1..L /\ 1..m \subseteq 1..L
  BY <1>1, <1>2
<1> HIDE DEF b
<1>6. waiting = UNION {r[i] : i \in (k + 1)..b}
  <2>1. \A i \in (k + 1)..b : ns.scenes[i].raw = r[i]
    BY <1>3, <1>5 DEF Reads
  <2> QED
    BY <1>4, <2>1
\* Everything shown is the prose of some buckets, none twice and none that waits.
<1> DEFINE Prose(I) == UNION {r[i] : i \in I}
           late == {i \in 1..b : i > m}
           raw == {i \in 1..L : i > b}
<1>7. Shown(ns) = {Prose(1..m)} \cup {IF i <= k THEN r[i] ELSE {} : i \in late}
                  \cup {r[i] : i \in raw}
  <2>1. late \subseteq 1..L /\ raw \subseteq 1..L
    BY <1>1, <1>2
  <2>2. \A i \in late : ns.scenes[i].summary = IF i <= k THEN r[i] ELSE {}
    BY <1>3, <2>1 DEF Reads
  <2>3. \A i \in raw : ns.scenes[i].raw = r[i]
    BY <1>3, <2>1 DEF Reads
  <2>4. /\ ns.super = Prose(1..m)
        /\ late = {j \in 1..(Len(ns.scenes) - RawScenes) : j > ns.through}
        /\ raw = {j \in DOMAIN ns.scenes : j > Len(ns.scenes) - RawScenes}
    BY <1>3 DEF Reads, b
  <2>5. Shown(ns) = {ns.super} \cup {ns.scenes[i].summary : i \in late}
                    \cup {ns.scenes[i].raw : i \in raw}
    BY <2>4 DEF Shown
  <2> HIDE DEF late, raw, Prose
  <2>6. {ns.scenes[i].summary : i \in late} = {IF i <= k THEN r[i] ELSE {} : i \in late}
    BY <2>2
  <2>7. {ns.scenes[i].raw : i \in raw} = {r[i] : i \in raw}
    BY <2>3
  <2> QED
    BY <2>4, <2>5, <2>6, <2>7
<1> DEFINE part == {i \in late : i <= k}
<1>8. /\ part \subseteq 1..L /\ raw \subseteq 1..L
      /\ \A i \in part : i \notin 1..m /\ i \notin raw /\ i \notin (k + 1)..b
      /\ \A i \in raw : i \notin 1..m /\ i \notin (k + 1)..b
      /\ \A i \in 1..m : i \notin (k + 1)..b
      /\ \A i \in 1..L : i \in 1..m \/ i \in part \/ i \in raw \/ i \in (k + 1)..b
  BY <1>1, <1>2
<1>9. \A x \in Shown(ns) : \/ x = Prose(1..m)
                           \/ x = {}
                           \/ \E i \in part : x = r[i]
                           \/ \E i \in raw : x = r[i]
  <2> HIDE DEF Prose, raw
  <2>1. \A i \in late : i <= k => i \in part
    OBVIOUS
  <2> HIDE DEF late, part
  <2> QED
    BY <1>7, <2>1
<1>10. /\ Prose(1..m) \in Shown(ns)
       /\ \A i \in part : r[i] \in Shown(ns)
       /\ \A i \in raw : r[i] \in Shown(ns)
  <2>1. \A i \in part : i \in late /\ (IF i <= k THEN r[i] ELSE {}) = r[i]
    OBVIOUS
  <2> HIDE DEF Prose, raw, late, part
  <2> QED
    BY <1>7, <2>1
<1> HIDE DEF late, raw, part, waiting
<1>11. (UNION Shown(ns)) \cup waiting = 1..t
  <2>1. ASSUME NEW x \in Shown(ns) PROVE x \subseteq 1..t
    <3>1. \A i \in 1..L : r[i] \subseteq 1..t
      BY <1>1
    <3>2. Prose(1..m) \subseteq 1..t
      BY <1>5, <3>1
    <3> HIDE DEF Prose
    <3> QED
      BY <1>8, <1>9, <2>1, <3>1, <3>2
  <2>2. waiting \subseteq 1..t
    BY <1>1, <1>5, <1>6
  <2>3. ASSUME NEW x \in 1..t PROVE x \in (UNION Shown(ns)) \cup waiting
    <3>1. PICK i \in 1..L : x \in r[i]
      BY <1>1
    <3>2. CASE i \in 1..m
      <4>1. x \in Prose(1..m)
        BY <3>1, <3>2
      <4> HIDE DEF Prose
      <4> QED
        BY <1>10, <4>1
    <3>3. CASE i \in part \/ i \in raw
      BY <1>10, <3>1, <3>3
    <3>4. CASE i \in (k + 1)..b
      BY <1>6, <3>1, <3>4
    <3> QED
      BY <1>8, <3>2, <3>3, <3>4
  <2> QED
    BY <2>1, <2>2, <2>3
<1>12. \A i \in 1..L : i \notin 1..m => r[i] \cap Prose(1..m) = {}
  BY <1>1, <1>5
<1>13. \A x, y \in Shown(ns) : x # y => x \cap y = {}
  <2>1. \A i \in part : r[i] \cap Prose(1..m) = {}
    BY <1>8, <1>12
  <2>2. \A i \in raw : r[i] \cap Prose(1..m) = {}
    BY <1>8, <1>12
  <2>3. \A i, j \in part \cup raw : r[i] # r[j] => r[i] \cap r[j] = {}
    BY <1>1, <1>8
  <2> HIDE DEF Prose
  <2> QED
    BY <1>9, <2>1, <2>2, <2>3
<1>14. (UNION Shown(ns)) \cap waiting = {}
  <2>1. ASSUME NEW i \in (k + 1)..b PROVE \A x \in Shown(ns) : x \cap r[i] = {}
    <3>1. i \in 1..L /\ i \notin 1..m /\ i \notin part /\ i \notin raw
      BY <1>5, <1>8, <2>1
    <3>2. r[i] \cap Prose(1..m) = {}
      BY <1>12, <3>1
    <3>3. \A j \in part \cup raw : r[j] \cap r[i] = {}
      BY <1>1, <1>8, <3>1
    <3> HIDE DEF Prose
    <3> QED
      BY <1>9, <3>2, <3>3
  <2> QED
    BY <1>6, <2>1
<1>15. \A i \in AgedOut(ns), j \in DOMAIN ns.scenes : ns.scenes[j].summary # {} => j < i
  <2> SUFFICES ASSUME NEW i \in AgedOut(ns), NEW j \in DOMAIN ns.scenes,
                      ns.scenes[j].summary # {}
               PROVE  j < i
    OBVIOUS
  <2>1. j \in 1..L /\ j <= k
    BY <1>3 DEF Reads
  <2> QED
    BY <1>1, <1>2, <1>4, <2>1
<1> QED
  BY <1>11, <1>13, <1>14, <1>15 DEF waiting

LEMMA MemoryShows ==
    ASSUME Shape, Memory
    PROVE  MemoryIsWhole
<1> DEFINE ns == Story(log)
           last == Latest(Turns(log))
<1>1. Numbered(log) /\ Turns(log) = 1..last /\ last \in Nat
  BY LastTurn, BackstageAssumption DEF Shape
<1>2. ns = Tale(log, last)
  BY StoryIs
<1>3. Kept(log, last)
  <2>1. last \in 0..last
    BY <1>1
  <2> QED
    BY <2>1, PastRemembered DEF Remembered
<1>4. Unpaid = UnpaidIn(log, last)
  <2>1. \A t \in 1..last : Story({e \in log : e.turn <= t}) = Tale(log, t)
    <3>1. \A t \in 1..last : t \in 0..last
      BY <1>1
    <3> QED
      BY <1>1, <3>1, StoryCut
  <2>2. \A t : t \notin Turns(Of(log, "scene_summarized")) <=> At(log, "scene_summarized", t) = {}
    BY DEF At, Turns
  <2> HIDE DEF last
  <2> QED
    BY <1>1, <2>1, <2>2 DEF Unpaid, UnpaidIn
<1>5. PICK L, c, r, k, m : Sound(L, r, k, m, last) /\ ns = Laid(L, c, r, k, m)
  BY <1>2, <1>3 DEF Kept, Whole
<1>6. Cardinality(AgedOut(ns)) <= Cardinality(Unpaid)
  BY <1>2, <1>3, <1>4 DEF Kept
<1> HIDE DEF ns, last
<1>7. LET waiting == UNION {ns.scenes[i].raw : i \in AgedOut(ns)}
      IN  /\ (UNION Shown(ns)) \cup waiting = 1..last
          /\ \A x, y \in Shown(ns) : x # y => x \cap y = {}
          /\ (UNION Shown(ns)) \cap waiting = {}
          /\ \A i \in AgedOut(ns), j \in DOMAIN ns.scenes :
                ns.scenes[j].summary # {} => j < i
  BY <1>5, LaidShows
<1> QED
  BY <1>1, <1>6, <1>7 DEF MemoryIsWhole, ns

\* Whatever fails, is dropped or is rewound, and whatever the sizes of the window, of
\* a bucket and of a merge: the recap tells the narrator every turn of the history once,
\* apart from scenes that wait for a summary, and of those there are never more than
\* digests that failed, all behind what is summarised.
THEOREM MemoryStaysWhole == Spec => []MemoryIsWhole
<1>1. Init => Shape /\ Memory
  BY ShapeInit, MemoryInit
<1>2. Shape /\ Memory /\ [Next]_vars => (Shape /\ Memory)'
  BY ShapeKept, MemoryKept
<1>3. Shape /\ Memory => MemoryIsWhole
  BY MemoryShows
<1> QED
  BY <1>1, <1>2, <1>3, PTL DEF Spec

=============================================================================
