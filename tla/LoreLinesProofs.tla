--------------------------- MODULE LoreLinesProofs ---------------------------
(***************************************************************************)
(* Proofs about LoreLines, for any lines, towns, lifespans, caps and days. *)
(***************************************************************************)
EXTENDS LoreLines, FiniteSetTheorems, TLAPS

\* What is earned by a line as it stands on the day today.
Earned(l, ln, today) ==
    ln.pending \/ ln.by = "catastrophe"
        => /\ ln.tier = "complex"
           /\ l \notin PersonalLines
           /\ today - ln.born >= Lifespan["complex"]

\* A sound line that earned its ending, on the day today.
Good(l, ln, today) ==
    /\ ln \in Line
    /\ ln.idx < ln.stages
    /\ ln.born \in 1..today
    /\ ln.touched <= today
    /\ ln.state = "closed" <=> ln.by # "nobody"
    /\ ln.state = "open" => ln.touched # Never
    /\ Earned(l, ln, today)

\* During a turn, a line that surfaced in it is open and was touched today.
FreshIsOpen ==
    phase # "narrate" => \A l \in fresh : line[l].state # "dark" /\ line[l].touched = day

\* The inductive invariant.
IInv == TypeOK /\ FinaleIsDue /\ FreshIsOpen

-----------------------------------------------------------------------------
(* Lines. *)

\* The fields of a line.
LEMMA LineFields ==
    ASSUME NEW ln \in Line
    PROVE  /\ ln.state \in States /\ ln.tier \in Tiers \cup {"none"}
           /\ ln.stages \in Nat /\ ln.idx \in Nat \cup {-1} /\ ln.pending \in BOOLEAN
           /\ ln.born \in Nat /\ ln.touched \in Nat \cup {-1} /\ ln.by \in Deciders
BY DEF Line, Never

\* The fields of two lines that agree on what was rolled for them.
SameRolls(a, b) ==
    a.tier = b.tier /\ a.pending = b.pending /\ a.born = b.born /\ a.by = b.by

\* What the updates change.
LEMMA SurfacedFields ==
    ASSUME NEW ln \in Line, NEW today \in Nat
    PROVE  LET new == Surfaced(ln, today)
           IN  /\ new \in Line /\ SameRolls(new, ln)
               /\ new.state = "open" /\ new.touched = today
               /\ new.stages = ln.stages /\ new.idx = ln.idx
BY DEF Surfaced, SameRolls, Line, States

LEMMA SteppedFields ==
    ASSUME NEW ln \in Line, NEW today \in Nat
    PROVE  LET new == Stepped(ln, today)
           IN  /\ new \in Line /\ SameRolls(new, ln)
               /\ new.state = ln.state /\ new.touched = today
               /\ new.stages = ln.stages /\ new.idx = ln.idx + 1
<1>1. ln.idx + 1 \in Nat
  BY LineFields
<1> DEFINE i == ln.idx + 1
<1>2. Stepped(ln, today) = [ln EXCEPT !.idx = i, !.touched = today]
  BY DEF Stepped
<1> HIDE DEF i
<1>3. [ln EXCEPT !.idx = i, !.touched = today] \in Line
  BY <1>1 DEF Line, i
<1>4. i = ln.idx + 1
  BY DEF i
<1> QED
  BY <1>2, <1>3, <1>4 DEF SameRolls, Line

LEMMA DemotedFields ==
    ASSUME NEW ln \in Line, NEW n \in Nat
    PROVE  LET new == Demoted(ln, n)
           IN  /\ new \in Line /\ SameRolls(new, ln)
               /\ new.state = "dark" /\ new.touched = ln.touched
               /\ new.stages = n /\ new.idx = -1
<1>1. Demoted(ln, n) \in Line
  BY DEF Demoted, Line, States
<1> DEFINE i == -1
<1>2. Demoted(ln, n) = [ln EXCEPT !.state = "dark", !.stages = n, !.idx = i]
  BY DEF Demoted
<1>3. i = -1
  OBVIOUS
<1> HIDE DEF i
<1> QED
  BY <1>1, <1>2, <1>3 DEF SameRolls, Line

\* TypeOK and FinaleIsDue say that every line is good.
LEMMA InvIsGood ==
    ASSUME TypeOK, FinaleIsDue, NEW l \in Live
    PROVE  Good(l, line[l], day)
BY DEF TypeOK, FinaleIsDue, Sound, Good, Earned, Elapsed, Tiers

\* A new line is good on its first day.
LEMMA NewLineGood ==
    ASSUME NEW state \in {"dark", "open"}, NEW tier \in Tiers \cup {"none"},
           NEW anchor \in Towns \cup {Hero, NoAnchor}, NEW stages \in Nat,
           NEW today \in Nat \ {0}, NEW l
    PROVE  Good(l, NewLine(state, tier, anchor, stages, today), today)
BY DEF NewLine, Good, Earned, Line, States, Deciders, Never

\* A good line stays good as days pass.
LEMMA GoodGetsOlder ==
    ASSUME NEW d \in Nat, NEW today \in Nat, d <= today, NEW l, NEW ln, Good(l, ln, d)
    PROVE  Good(l, ln, today)
<1>1. ln.born \in Nat /\ ln.touched \in Nat \cup {-1} /\ Lifespan["complex"] \in Nat
  BY LoreAssumption DEF Good, Line, Never, Tiers
<1> QED
  BY <1>1 DEF Good, Earned

\* An update that keeps the rolls keeps a line good if its other fields fit.
LEMMA UpdateGood ==
    ASSUME NEW l, NEW ln, NEW new, NEW today, Good(l, ln, today),
           new \in Line, SameRolls(new, ln), new.state # "closed", ln.state # "closed",
           new.idx < new.stages, new.touched <= today,
           new.state = "open" => new.touched # Never
    PROVE  Good(l, new, today)
BY DEF Good, Earned, SameRolls

\* What the narrator may do to a line.
LEMMA PlayedGood ==
    ASSUME NEW l, NEW ln, NEW today \in Nat \ {0}, Good(l, ln, today),
           NEW op \in {"none", "surface", "advance", "resolve"}, Valid(ln, op)
    PROVE  /\ Good(l, Played(ln, op, today), today)
           /\ op = "surface" => /\ Played(ln, op, today).state = "open"
                                /\ Played(ln, op, today).touched = today
           /\ ln.state = "closed" => Played(ln, op, today) = ln
<1>1. CASE op = "none"
  BY <1>1 DEF Played
<1>2. CASE op = "surface"
  <2>1. Played(ln, op, today) = Surfaced(ln, today)
    BY <1>2 DEF Played
  <2>2. ln \in Line /\ ln.state = "dark"
    BY <1>2 DEF Good, Valid
  <2> DEFINE new == Surfaced(ln, today)
  <2>3. /\ new \in Line /\ SameRolls(new, ln)
        /\ new.state = "open" /\ new.touched = today
        /\ new.stages = ln.stages /\ new.idx = ln.idx
    BY <2>2, SurfacedFields
  <2> HIDE DEF new
  <2>4. new.touched <= today /\ new.touched # Never
    BY <2>3 DEF Never
  <2>5. new.idx < new.stages
    BY <2>3 DEF Good
  <2>6. Good(l, new, today)
    BY <2>2, <2>3, <2>4, <2>5, UpdateGood
  <2> QED
    BY <1>2, <2>1, <2>2, <2>3, <2>6 DEF new
<1>3. CASE op = "advance"
  BY <1>3 DEF Played, Valid, Good, Earned, Line, States, Deciders, Never
<1>4. CASE op = "resolve"
  BY <1>4 DEF Played, Valid, Good, Earned, Line, States, Deciders, Never
<1> QED
  BY <1>1, <1>2, <1>3, <1>4

\* What the dice may do to a line: a dark one stays good, moves by one stage at
\* most, and when it opens it is touched today; the others are left alone.
LEMMA OutcomeGood ==
    ASSUME NEW l \in Live, Good(l, line[l], day), day \in Nat \ {0}, NEW out \in Outcomes(l)
    PROVE  /\ Good(l, out, day)
           /\ out.idx \in {line[l].idx, line[l].idx + 1}
           /\ line[l].state # "dark" => out = line[l]
           /\ out.state = "open" /\ line[l].state = "dark" => out.touched = day
<1> DEFINE ln == line[l]
<1>0. /\ ln \in Line /\ ln.idx \in Nat \cup {-1} /\ ln.stages \in Nat
      /\ ln.born \in Nat /\ Lifespan \in [Tiers -> Nat]
  BY LoreAssumption DEF Good, Line
<1>1. CASE out = ln
  BY <1>0, <1>1 DEF Good, Line
<1>2. CASE ln.state = "dark" /\ FinaleDue(l) /\ out \in Finale(ln)
  BY <1>0, <1>2 DEF FinaleDue, Mortal, Finale, Closed, Good, Earned, Line, States, Deciders, Never
<1>3. CASE ln.state = "dark" /\ LifeOver(l) /\ out = Expired(ln)
  <2>1. CASE ln.tier = "complex"
    BY <1>0, <1>3, <2>1
       DEF LifeOver, Mortal, Elapsed, Expired, Good, Earned, Line, States, Deciders, Never, Tiers
  <2>2. CASE ln.tier # "complex"
    BY <1>0, <1>3, <2>2 DEF Expired, Closed, Good, Earned, Line, States, Deciders, Never
  <2> QED
    BY <2>1, <2>2
<1>4. CASE ln.state = "dark" /\ CanAdvance(l) /\ out \in Advanced(ln)
  <2> DEFINE next == Stepped(ln, day)
  <2>1. /\ Good(l, next, day) /\ next.idx = ln.idx + 1 /\ next.touched = day
        /\ next.state = "dark"
    <3>1. /\ next \in Line /\ SameRolls(next, ln)
          /\ next.state = ln.state /\ next.touched = day
          /\ next.stages = ln.stages /\ next.idx = ln.idx + 1
      BY <1>0, SteppedFields
    <3> HIDE DEF next
    <3>2. next.touched <= day
      BY <3>1
    <3>3. next.idx < next.stages
      BY <3>1, <1>4 DEF CanAdvance
    <3> QED
      BY <1>4, <3>1, <3>2, <3>3, UpdateGood
  <2>2. out \in {next, Surfaced(next, day), Closed(next, "rescue")}
    BY <1>4 DEF Advanced
  <2>3. CASE out = next
    BY <1>0, <1>4, <2>1, <2>3
  <2> HIDE DEF next
  <2>4. CASE out = Surfaced(next, day)
    <3>1. next \in Line
      BY <2>1 DEF Good
    <3>2. /\ out \in Line /\ SameRolls(out, next)
          /\ out.state = "open" /\ out.touched = day
          /\ out.stages = next.stages /\ out.idx = next.idx
      BY <2>4, <3>1, SurfacedFields
    <3>3. out.touched <= day /\ out.touched # Never /\ out.idx < out.stages
      BY <2>1, <3>2 DEF Never, Good
    <3>4. Good(l, out, day)
      BY <2>1, <3>2, <3>3, UpdateGood
    <3>5. out.idx = ln.idx + 1 /\ out.touched = day
      BY <2>1, <3>2
    <3> QED
      BY <1>0, <1>4, <2>1, <2>4, <3>4, <3>5
  <2>5. CASE out = Closed(next, "rescue")
    BY <1>0, <1>4, <2>1, <2>5 DEF Closed, Good, Earned, Line, States, Deciders, Never
  <2> QED
    BY <2>2, <2>3, <2>4, <2>5
<1> QED
  BY <1>1, <1>2, <1>3, <1>4 DEF Outcomes

\* A demoted line is dark and begins its new stages.
LEMMA DemotedGood ==
    ASSUME NEW l, NEW ln, NEW today \in Nat, Good(l, ln, today), ln.state = "open",
           NEW n \in Nat
    PROVE  Good(l, Demoted(ln, n), today)
<1> DEFINE new == Demoted(ln, n)
<1>1. ln \in Line /\ ln.touched <= today
  BY DEF Good
<1>2. /\ new \in Line /\ SameRolls(new, ln)
      /\ new.state = "dark" /\ new.touched = ln.touched
      /\ new.stages = n /\ new.idx = -1
  BY <1>1, DemotedFields
<1> HIDE DEF new
<1>3. new.idx < new.stages /\ new.touched <= today
  BY <1>1, <1>2
<1>4. Good(l, new, today)
  BY <1>2, <1>3, UpdateGood
<1> QED
  BY <1>4 DEF new

\* The stages of a demoted line.
LEMMA NewStagesNat ==
    ASSUME NEW l, NEW ln, NEW today \in Nat, Good(l, ln, today)
    PROVE  NewStages(ln) \subseteq Nat
BY LoreAssumption DEF NewStages, Good, Line

\* Density generation rolls tiers.
LEMMA RolledTiers ==
    ASSUME NEW roll
    PROVE  Rolled(roll) \subseteq Tiers
BY DEF Rolled, Tiers

-----------------------------------------------------------------------------
(* One lemma per step. *)

\* Good lines make TypeOK's and FinaleIsDue's conjuncts about lines true.
LEMMA GoodIsInv ==
    ASSUME \A l \in Live : Good(l, line[l], day)
    PROVE  (\A l \in Live : Sound(line[l])) /\ FinaleIsDue
BY DEF FinaleIsDue, Sound, Good, Earned, Elapsed, Tiers

\* The first turn begins with new lines.
LEMMA InitHolds == Init => IInv
<1> SUFFICES ASSUME Init
             PROVE  IInv
  OBVIOUS
<1>1. PICK tier \in [GenesisLines -> Tiers] :
          line = [l \in GenesisLines |->
                     NewLine("dark", tier[l], IF l \in PersonalLines THEN Hero ELSE town,
                             StageCount[tier[l]], 1)]
  BY DEF Init
<1>2. day = 1 /\ town \in Towns /\ told = {} /\ fresh = {} /\ phase = "narrate"
      /\ refreshed = [t \in Towns |-> Never]
  BY DEF Init
<1>3. \A l \in Live : Good(l, line[l], day)
  <2>1. TAKE l \in Live
  <2>2. l \in GenesisLines /\ tier[l] \in Tiers /\ StageCount[tier[l]] \in Nat
    BY <1>1, LoreAssumption DEF Live
  <2> DEFINE anchor == IF l \in PersonalLines THEN Hero ELSE town
  <2>3. anchor \in Towns \cup {Hero, NoAnchor}
    BY <1>2
  <2>4. line[l] = NewLine("dark", tier[l], anchor, StageCount[tier[l]], 1)
    BY <1>1, <2>2
  <2> HIDE DEF anchor
  <2> QED
    BY <1>2, <2>2, <2>3, <2>4, NewLineGood
<1>4. Live = GenesisLines
  BY <1>1 DEF Live
<1>5. TypeOK /\ FinaleIsDue
  BY <1>2, <1>3, <1>4, GoodIsInv, LoreAssumption DEF TypeOK, Lines
<1> QED
  BY <1>2, <1>5 DEF IInv, FreshIsOpen

\* The narrator's operations fit the states of the lines.
LEMMA NarrateStep ==
    ASSUME IInv, Narrate
    PROVE  IInv'
<1>1. PICK today \in day..MaxDay,
           op \in [Live -> {"none", "surface", "advance", "resolve"}],
           opened \in SUBSET (NarratedLines \ Live) :
          /\ \A l \in Live : Valid(line[l], op[l])
          /\ day' = today
          /\ line' = [l \in Live \cup opened |->
                         IF l \in opened THEN NewLine("open", "none", NoAnchor, 0, today)
                         ELSE Played(line[l], op[l], today)]
          /\ fresh' = opened \cup {l \in Live : op[l] = "surface"}
  BY DEF Narrate
<1>2. day \in Nat \ {0} /\ today \in Nat \ {0} /\ day <= today /\ today \in 1..MaxDay
  BY LoreAssumption DEF IInv, TypeOK
<1>3. Live' = Live \cup opened
  BY <1>1 DEF Live
<1>4. ASSUME NEW l \in Live, l \notin opened
      PROVE  /\ line'[l] = Played(line[l], op[l], today)
             /\ Good(l, line'[l], today)
             /\ op[l] = "surface" => line'[l].state = "open" /\ line'[l].touched = today
  <2>1. line'[l] = Played(line[l], op[l], today)
    BY <1>1, <1>3, <1>4
  <2>2. Good(l, line[l], today)
    BY <1>2, InvIsGood, GoodGetsOlder DEF IInv
  <2>3. op[l] \in {"none", "surface", "advance", "resolve"} /\ Valid(line[l], op[l])
    BY <1>1
  <2> QED
    BY <1>2, <2>1, <2>2, <2>3, PlayedGood
<1>5. ASSUME NEW l \in opened
      PROVE  /\ Good(l, line'[l], today)
             /\ line'[l].state = "open" /\ line'[l].touched = today
  <2>1. line'[l] = NewLine("open", "none", NoAnchor, 0, today)
    BY <1>1
  <2> QED
    BY <1>2, <2>1, NewLineGood DEF NewLine
<1>6. \A l \in Live' : Good(l, line'[l], day')
  BY <1>1, <1>3, <1>4, <1>5
<1>7. (\A l \in Live : Sound(line[l]))' /\ FinaleIsDue'
  BY <1>6 DEF Good, Earned, FinaleIsDue, Sound, Elapsed, Tiers
<1>8. TypeOK'
  BY <1>1, <1>2, <1>3, <1>7 DEF IInv, TypeOK, Narrate, Lines, After
<1>9. FreshIsOpen'
  BY <1>1, <1>3, <1>4, <1>5 DEF FreshIsOpen
<1> QED
  BY <1>7, <1>8, <1>9 DEF IInv

\* A flagged line is new and dark.
LEMMA FlagStep ==
    ASSUME IInv, NEW f \in NarratedLines, Flag(f)
    PROVE  IInv'
<1>1. /\ f \notin Live /\ phase = "digest" /\ phase' = "lore"
      /\ line' = [k \in Live \cup {f} |->
                      IF k = f THEN NewLine("dark", "none", NoAnchor, 0, day) ELSE line[k]]
      /\ UNCHANGED <<told, fresh, refreshed, day, town>>
  BY DEF Flag
<1>2. Live' = Live \cup {f}
  BY <1>1 DEF Live
<1>3. day \in Nat \ {0}
  BY LoreAssumption DEF IInv, TypeOK
<1>4. \A l \in Live' : Good(l, line'[l], day')
  <2>1. \A l \in Live : line'[l] = line[l]
    BY <1>1
  <2>2. line'[f] = NewLine("dark", "none", NoAnchor, 0, day)
    BY <1>1
  <2>3. Good(f, line'[f], day)
    BY <1>3, <2>2, NewLineGood
  <2> QED
    BY <1>1, <1>2, <2>1, <2>3, InvIsGood DEF IInv
<1>5. (\A l \in Live : Sound(line[l]))' /\ FinaleIsDue'
  BY <1>4 DEF Good, Earned, FinaleIsDue, Sound, Elapsed, Tiers
<1>6. TypeOK'
  BY <1>1, <1>2, <1>5 DEF IInv, TypeOK, Lines, After
<1>7. FreshIsOpen'
  BY <1>1 DEF IInv, TypeOK, FreshIsOpen
<1> QED
  BY <1>5, <1>6, <1>7 DEF IInv

\* The dice leave a line that surfaced today as it is, and touch those they open.
LEMMA LoreStep ==
    ASSUME IInv, RunLore
    PROVE  IInv'
<1>1. /\ phase = "lore" /\ phase' = "demote"
      /\ \A l \in Live : line'[l] \in Outcomes(l)
      /\ told' = told \cup {<<l, line'[l].idx>> : l \in {k \in Live : line'[k].idx # line[k].idx}}
      /\ fresh' = fresh \cup {l \in Live : line[l].state = "dark" /\ line'[l].state = "open"}
      /\ UNCHANGED <<refreshed, day, town>>
  BY DEF RunLore
<1>2. Live' = Live
  BY DEF RunLore, Live
<1>3. day \in Nat \ {0}
  BY LoreAssumption DEF IInv, TypeOK
<1>4. ASSUME NEW l \in Live
      PROVE  /\ Good(l, line'[l], day)
             /\ line'[l].idx \in {line[l].idx, line[l].idx + 1}
             /\ line[l].state # "dark" => line'[l] = line[l]
             /\ line'[l].state = "open" /\ line[l].state = "dark" => line'[l].touched = day
  BY <1>1, <1>3, InvIsGood, OutcomeGood DEF IInv
<1>5. \A l \in Live' : Good(l, line'[l], day')
  BY <1>1, <1>2, <1>4
<1>6. (\A l \in Live : Sound(line[l]))' /\ FinaleIsDue'
  BY <1>5 DEF Good, Earned, FinaleIsDue, Sound, Elapsed, Tiers
<1>7. told' \subseteq Lines \X Nat
  <2>1. \A l \in Live : l \in Lines /\ line[l].idx \in Nat \cup {-1}
    BY DEF IInv, TypeOK, Sound, Line
  <2>2. \A l \in Live : line'[l].idx # line[l].idx => line'[l].idx \in Nat
    BY <1>4, <2>1
  <2> QED
    BY <1>1, <2>1, <2>2 DEF IInv, TypeOK
<1>8. TypeOK'
  BY <1>1, <1>2, <1>6, <1>7 DEF IInv, TypeOK, After
<1>9. FreshIsOpen'
  BY <1>1, <1>4 DEF IInv, TypeOK, FreshIsOpen
<1> QED
  BY <1>6, <1>8, <1>9 DEF IInv

\* Only open lines are demoted, and none that surfaced this turn.
LEMMA DemoteStep ==
    ASSUME IInv, RunDemote
    PROVE  IInv'
<1> DEFINE demoted == {l \in Live : town # Nowhere /\ Demotable(l)}
<1>1. PICK n \in [demoted -> UNION {NewStages(line[l]) : l \in demoted}] :
          /\ \A l \in demoted : n[l] \in NewStages(line[l])
          /\ line' = [l \in Live |->
                         IF l \in demoted THEN Demoted(line[l], n[l]) ELSE line[l]]
  BY DEF RunDemote
<1>2. /\ phase = "demote" /\ phase' = "density"
      /\ UNCHANGED <<told, fresh, refreshed, day, town>>
  BY DEF RunDemote
<1>3. Live' = Live
  BY <1>1 DEF Live
<1>4. day \in Nat \ {0}
  BY LoreAssumption DEF IInv, TypeOK
<1>5. ASSUME NEW l \in demoted
      PROVE  Good(l, line'[l], day)
  <2>1. line'[l] = Demoted(line[l], n[l])
    BY <1>1
  <2>2. Good(l, line[l], day) /\ line[l].state = "open"
    BY InvIsGood DEF IInv, Demotable
  <2>3. n[l] \in Nat
    BY <1>1, <1>4, <2>2, NewStagesNat
  <2> QED
    BY <1>4, <2>1, <2>2, <2>3, DemotedGood
<1>6. \A l \in Live \ demoted : line'[l] = line[l] /\ Good(l, line'[l], day)
  BY <1>1, InvIsGood DEF IInv
<1>7. \A l \in Live' : Good(l, line'[l], day')
  BY <1>2, <1>3, <1>5, <1>6
<1>8. (\A l \in Live : Sound(line[l]))' /\ FinaleIsDue'
  BY <1>7 DEF Good, Earned, FinaleIsDue, Sound, Elapsed, Tiers
<1>9. TypeOK'
  BY <1>2, <1>3, <1>8 DEF IInv, TypeOK, After
<1>10. FreshIsOpen'
  <2>1. \A l \in fresh : l \in Live /\ line[l].state # "dark" /\ line[l].touched = day
    BY <1>2 DEF IInv, TypeOK, FreshIsOpen
  <2>2. \A l \in fresh : l \notin demoted
    BY <1>4, <2>1, LoreAssumption DEF Demotable, LeftTown, Idle
  <2> QED
    BY <1>2, <1>6, <2>1, <2>2 DEF FreshIsOpen
<1> QED
  BY <1>8, <1>9, <1>10 DEF IInv

\* Generated lines are new and dark.
LEMMA GenerateGood ==
    ASSUME IInv, NEW ids \in SUBSET GeneratedLines, town \in Towns, Generate(ids)
    PROVE  /\ Live' = Live \cup ids
           /\ \A l \in Live' : Good(l, line'[l], day)
           /\ \A l \in Live \ ids : line'[l] = line[l]
<1>1. PICK tier \in [ids -> UNION {Rolled(roll) : roll \in Tiers}] :
          line' = [l \in Live \cup ids |->
              IF l \in ids THEN NewLine("dark", tier[l], town, StageCount[tier[l]], day)
              ELSE line[l]]
  BY DEF Generate
<1>2. Live' = Live \cup ids
  BY <1>1 DEF Live
<1>3. \A l \in Live \ ids : line'[l] = line[l] /\ Good(l, line'[l], day)
  BY <1>1, InvIsGood DEF IInv
<1>4. ASSUME NEW l \in ids
      PROVE  Good(l, line'[l], day)
  <2>1. tier[l] \in Tiers /\ StageCount[tier[l]] \in Nat
    BY RolledTiers, LoreAssumption
  <2>2. line'[l] = NewLine("dark", tier[l], town, StageCount[tier[l]], day)
    BY <1>1
  <2>3. day \in Nat \ {0}
    BY LoreAssumption DEF IInv, TypeOK
  <2> QED
    BY <2>1, <2>2, <2>3, NewLineGood
<1> QED
  BY <1>2, <1>3, <1>4

\* Density generation ends the turn.
LEMMA DensityStep ==
    ASSUME IInv, Seed \/ Refresh
    PROVE  IInv'
<1>1. /\ town \in Towns /\ phase' = "narrate"
      /\ refreshed' = [refreshed EXCEPT ![town] = day]
      /\ UNCHANGED <<told, fresh, day, town>>
  BY DEF Seed, Refresh
<1>2. UNCHANGED line \/ \E ids \in SUBSET GeneratedLines : Generate(ids)
  BY DEF Seed, Refresh
<1>3. Live \subseteq Live' /\ Live' \subseteq Lines /\ \A l \in Live' : Good(l, line'[l], day)
  <2>1. CASE UNCHANGED line
    BY <2>1, InvIsGood DEF IInv, TypeOK, Live
  <2>2. CASE \E ids \in SUBSET GeneratedLines : Generate(ids)
    BY <1>1, <2>2, GenerateGood DEF IInv, TypeOK, Lines
  <2> QED
    BY <1>2, <2>1, <2>2
<1>4. (\A l \in Live : Sound(line[l]))' /\ FinaleIsDue'
  BY <1>1, <1>3 DEF Good, Earned, FinaleIsDue, Sound, Elapsed, Tiers
<1>5. TypeOK'
  BY <1>1, <1>3, <1>4 DEF IInv, TypeOK
<1>6. FreshIsOpen'
  BY <1>1 DEF FreshIsOpen
<1> QED
  BY <1>4, <1>5, <1>6 DEF IInv

\* Every step keeps the invariant.
LEMMA StepHolds == IInv /\ [Next]_vars => IInv'
<1> SUFFICES ASSUME IInv, [Next]_vars
             PROVE  IInv'
  OBVIOUS
<1>1. CASE UNCHANGED vars
  BY <1>1 DEF vars, IInv, TypeOK, FinaleIsDue, FreshIsOpen, Live, Sound, Elapsed
<1>2. CASE SkipHook
  <2>1. phase \in DOMAIN After /\ phase' = After[phase]
    BY <1>2 DEF SkipHook, IInv, TypeOK
  <2>2. UNCHANGED <<line, told, fresh, refreshed, day, town>>
    BY <1>2 DEF SkipHook
  <2>3. TypeOK'
    BY <2>1, <2>2 DEF IInv, TypeOK, Live, Sound, After
  <2> QED
    BY <1>2, <2>2, <2>3 DEF SkipHook, IInv, FinaleIsDue, FreshIsOpen, Live, Elapsed
<1> QED
  BY <1>1, <1>2, NarrateStep, FlagStep, LoreStep, DemoteStep, DensityStep DEF Next

\* The invariant holds in every state of every execution.
THEOREM Invariance == Spec => []IInv
BY InitHolds, StepHolds, PTL DEF Spec

-----------------------------------------------------------------------------
(* The slots of the tiers. *)

\* The generated lines that hold a slot of the tier, in the town or its region.
Held(tier, t) ==
    {l \in Live : /\ line[l].state # "closed"
                  /\ line[l].tier = tier
                  /\ line[l].anchor \in IF tier = "complex" THEN Towns ELSE {t}}
    \cap GeneratedLines

\* What a batch may exceed a cap by: its rolls do not see each other.
Excess == IF Target > 0 THEN Target - 1 ELSE 0

LEMMA CapsAreHeld ==
    CapsHold <=> \A tier \in Tiers, t \in Towns :
                    Cardinality(Held(tier, t)) <= Cap[tier] + Excess
BY DEF CapsHold, Held, Excess

LEMMA HeldFinite ==
    ASSUME IInv, NEW tier, NEW t
    PROVE  /\ IsFiniteSet(Held(tier, t)) /\ Cardinality(Held(tier, t)) \in Nat
           /\ \A some \in SUBSET Held(tier, t) : /\ IsFiniteSet(some)
                                                 /\ Cardinality(some) \in Nat
                                                 /\ Cardinality(some) <= Cardinality(Held(tier, t))
<1>1. Held(tier, t) \subseteq Lines
  BY DEF Held, IInv, TypeOK
<1>2. IsFiniteSet(Held(tier, t))
  BY <1>1, FS_Subset, LoreAssumption
<1> QED
  BY <1>2, FS_Subset, FS_CardinalityType

LEMMA RoomIsNat ==
    ASSUME NEW tier \in Tiers
    PROVE  Cap[tier] \in Nat /\ Excess \in Nat /\ Cap[tier] + Excess \in Nat
BY LoreAssumption DEF Excess

\* A generated line that holds a slot after the step, unless it is in ids, held the
\* same one before.
OnlyNew(ids) ==
    \A l \in Live' : /\ line'[l].state # "closed"
                     /\ line'[l].tier \in Tiers
                     /\ l \in GeneratedLines
                     /\ l \notin ids
        => /\ l \in Live /\ line[l].state # "closed"
           /\ line'[l].tier = line[l].tier /\ line'[l].anchor = line[l].anchor

LEMMA NobodyMoves ==
    ASSUME IInv, CapsHold, OnlyNew({})
    PROVE  CapsHold'
<1>1. ASSUME NEW tier \in Tiers, NEW t \in Towns
      PROVE  Cardinality(Held(tier, t)') <= Cap[tier] + Excess
  <2>1. Held(tier, t)' \subseteq Held(tier, t)
    BY DEF Held, OnlyNew
  <2>2. Cardinality(Held(tier, t)) <= Cap[tier] + Excess
    BY CapsAreHeld
  <2> QED
    BY <2>1, <2>2, HeldFinite, RoomIsNat
<1> QED
  BY <1>1 DEF CapsHold, Held, Excess

\* A tier that is rolled is not full.
LEMMA RolledHasRoom ==
    ASSUME NEW roll \in Tiers, NEW tier \in Rolled(roll)
    PROVE  tier \in Tiers /\ ~Full(tier)
BY DEF Rolled, Tiers

\* A batch finds a slot free in every tier it draws, and one line less can exceed it.
LEMMA BatchFits ==
    ASSUME IInv, CapsHold, town \in Towns, NEW ids \in SUBSET GeneratedLines,
           IsFiniteSet(ids), Cardinality(ids) <= Target \/ Cardinality(ids) <= 1,
           Generate(ids)
    PROVE  CapsHold'
<1>1. PICK tier \in [ids -> UNION {Rolled(roll) : roll \in Tiers}] :
          line' = [l \in Live \cup ids |->
              IF l \in ids THEN NewLine("dark", tier[l], town, StageCount[tier[l]], day)
              ELSE line[l]]
  BY DEF Generate
<1>2. Live' = Live \cup ids
  BY <1>1 DEF Live
<1>3. \A l \in Live \ ids : line'[l] = line[l]
  BY <1>1
<1>4. \A l \in ids : /\ line'[l].tier = tier[l] /\ line'[l].anchor = town
                     /\ tier[l] \in Tiers /\ ~Full(tier[l])
  <2>1. TAKE l \in ids
  <2>2. line'[l] = NewLine("dark", tier[l], town, StageCount[tier[l]], day)
    BY <1>1
  <2>3. PICK roll \in Tiers : tier[l] \in Rolled(roll)
    BY <1>1
  <2> QED
    BY <2>2, <2>3, RolledHasRoom DEF NewLine
<1>5. ASSUME NEW t \in Towns, NEW r \in Tiers
      PROVE  Cardinality(Held(r, t)') <= Cap[r] + Excess
  <2>1. Held(r, t)' \subseteq Held(r, t) \cup ids
    BY <1>2, <1>3 DEF Held
  <2>2. CASE \E l \in ids : l \in Held(r, t)'
    <3>1. PICK l \in ids : l \in Held(r, t)'
      BY <2>2
    <3>2. ~Full(r) /\ (r = "complex" \/ t = town)
      BY <1>4, <3>1 DEF Held
    <3> DEFINE counted == {k \in Live : /\ line[k].state # "closed"
                                        /\ line[k].tier = r
                                        /\ line[k].anchor \in IF r = "complex" THEN Towns
                                                              ELSE {town}}
    <3>3. Held(r, t) \subseteq counted
      BY <3>2 DEF Held
    <3>4. IsFiniteSet(counted)
      BY FS_Subset, LoreAssumption DEF IInv, TypeOK
    <3>5. Cardinality(Held(r, t)) <= Cardinality(counted) /\ Cardinality(counted) \in Nat
      BY <3>3, <3>4, FS_Subset, FS_CardinalityType
    <3>6. Cardinality(counted) < Cap[r]
      <4>1. Cardinality(counted) = Count(r)
        BY DEF Count
      <4> HIDE DEF counted
      <4> QED
        BY <3>2, <3>5, <4>1, RoomIsNat DEF Full
    <3> HIDE DEF counted
    <3>7. IsFiniteSet(Held(r, t)) /\ Cardinality(Held(r, t)) \in Nat
      BY HeldFinite
    <3>8. /\ IsFiniteSet(Held(r, t) \cup ids) /\ Cardinality(Held(r, t) \cup ids) \in Nat
          /\ Cardinality(ids) \in Nat
          /\ Cardinality(Held(r, t) \cup ids) <= Cardinality(Held(r, t)) + Cardinality(ids)
      <4>1. IsFiniteSet(Held(r, t) \cap ids)
        BY <3>7, FS_Intersection
      <4>2. /\ Cardinality(Held(r, t) \cap ids) \in Nat /\ Cardinality(ids) \in Nat
            /\ Cardinality(Held(r, t) \cup ids) \in Nat
        BY <3>7, <4>1, FS_CardinalityType, FS_Union
      <4>3. /\ IsFiniteSet(Held(r, t) \cup ids)
            /\ Cardinality(Held(r, t) \cup ids)
                 = Cardinality(Held(r, t)) + Cardinality(ids) - Cardinality(Held(r, t) \cap ids)
        BY <3>7, FS_Union
      <4> QED
        BY <3>7, <4>2, <4>3
    <3>9. Cardinality(Held(r, t)') <= Cardinality(Held(r, t) \cup ids)
          /\ Cardinality(Held(r, t)') \in Nat
      BY <2>1, <3>8, FS_Subset, FS_CardinalityType
    <3>10. Cardinality(ids) <= Excess + 1
      BY <3>8, LoreAssumption DEF Excess
    <3> QED
      BY <3>5, <3>6, <3>7, <3>8, <3>9, <3>10, RoomIsNat
  <2>3. CASE ~ \E l \in ids : l \in Held(r, t)'
    <3>1. Held(r, t)' \subseteq Held(r, t)
      BY <2>1, <2>3
    <3>2. Cardinality(Held(r, t)) <= Cap[r] + Excess
      BY CapsAreHeld
    <3> QED
      BY <3>1, <3>2, HeldFinite, RoomIsNat
  <2> QED
    BY <2>2, <2>3
<1> QED
  BY <1>5 DEF CapsHold, Held, Excess

\* The world begins with no generated line, and only density generation makes one.
LEMMA CapsInit == Init => CapsHold
<1> SUFFICES ASSUME Init, NEW tier \in Tiers, NEW t \in Towns
             PROVE  Cardinality(Held(tier, t)) <= Cap[tier] + Excess
  BY CapsAreHeld
<1>1. Live = GenesisLines
  BY DEF Init, Live
<1>2. Held(tier, t) = {}
  BY <1>1, LoreAssumption DEF Held
<1> QED
  BY <1>2, FS_EmptySet, RoomIsNat

LEMMA CapsStep == IInv /\ CapsHold /\ [Next]_vars => CapsHold'
<1> SUFFICES ASSUME IInv, CapsHold, [Next]_vars
             PROVE  CapsHold'
  OBVIOUS
<1>1. CASE UNCHANGED vars \/ SkipHook
  <2>1. OnlyNew({})
    BY <1>1 DEF OnlyNew, vars, SkipHook, Live
  <2> QED
    BY <2>1, NobodyMoves
<1>2. CASE Narrate
  <2>1. PICK today \in day..MaxDay,
             op \in [Live -> {"none", "surface", "advance", "resolve"}],
             opened \in SUBSET (NarratedLines \ Live) :
            /\ \A l \in Live : Valid(line[l], op[l])
            /\ line' = [l \in Live \cup opened |->
                           IF l \in opened THEN NewLine("open", "none", NoAnchor, 0, today)
                           ELSE Played(line[l], op[l], today)]
    BY <1>2 DEF Narrate
  <2>2. Live' = Live \cup opened
    BY <2>1 DEF Live
  <2>3. \A l \in opened : line'[l].tier \notin Tiers
    BY <2>1 DEF NewLine, Tiers
  <2>4. ASSUME NEW l \in Live, l \notin opened, line'[l].state # "closed"
        PROVE  /\ line[l].state # "closed"
               /\ line'[l].tier = line[l].tier /\ line'[l].anchor = line[l].anchor
    <3>1. line'[l] = Played(line[l], op[l], today) /\ Valid(line[l], op[l])
          /\ op[l] \in {"none", "surface", "advance", "resolve"}
      BY <2>1, <2>4
    <3>2. line[l] \in Line
      BY DEF IInv, TypeOK, Sound
    <3> QED
      BY <2>4, <3>1, <3>2 DEF Played, Valid, Surfaced, Line
  <2>5. OnlyNew({})
    BY <2>2, <2>3, <2>4 DEF OnlyNew
  <2> QED
    BY <2>5, NobodyMoves
<1>3. ASSUME NEW f \in NarratedLines, Flag(f) PROVE CapsHold'
  <2>1. /\ Live' = Live \cup {f} /\ \A l \in Live : line'[l] = line[l] /\ l # f
        /\ line'[f].tier \notin Tiers
    BY <1>3 DEF Flag, Live, NewLine, Tiers
  <2>2. OnlyNew({})
    BY <2>1 DEF OnlyNew
  <2> QED
    BY <2>2, NobodyMoves
<1>4. CASE RunLore
  <2>1. Live' = Live /\ \A l \in Live : line'[l] \in Outcomes(l)
    BY <1>4 DEF RunLore, Live
  <2>2. ASSUME NEW l \in Live, line'[l].state # "closed"
        PROVE  /\ line[l].state # "closed"
               /\ line'[l].tier = line[l].tier /\ line'[l].anchor = line[l].anchor
    <3>1. line[l] \in Line /\ line'[l] \in Outcomes(l)
      BY <2>1 DEF IInv, TypeOK, Sound
    <3> QED
      BY <2>2, <3>1 DEF Outcomes, Finale, Expired, Advanced, Closed, Surfaced, Stepped, Line
  <2>3. OnlyNew({})
    BY <2>1, <2>2 DEF OnlyNew
  <2> QED
    BY <2>3, NobodyMoves
<1>5. CASE RunDemote
  <2>1. Live' = Live
    BY <1>5 DEF RunDemote, Live
  <2>2. ASSUME NEW l \in Live
        PROVE  \/ line'[l] = line[l]
               \/ line[l].state = "open" /\ \E n : line'[l] = Demoted(line[l], n)
    BY <1>5 DEF RunDemote, Demotable
  <2>3. \A l \in Live : line[l] \in Line
    BY DEF IInv, TypeOK, Sound
  <2>4. OnlyNew({})
    BY <2>1, <2>2, <2>3 DEF OnlyNew, Demoted, Line
  <2> QED
    BY <2>4, NobodyMoves
<1>6. CASE Seed
  <2>1. PICK ids \in SUBSET (GeneratedLines \ Live) : Cardinality(ids) <= Target /\ Generate(ids)
    BY <1>6 DEF Seed
  <2>2. IsFiniteSet(ids) /\ town \in Towns
    BY <1>6, FS_Subset, LoreAssumption DEF Seed, Lines
  <2> QED
    BY <2>1, <2>2, BatchFits
<1>7. CASE Refresh
  <2>1. CASE UNCHANGED line
    <3>1. OnlyNew({})
      BY <2>1 DEF OnlyNew, Live
    <3> QED
      BY <3>1, NobodyMoves
  <2>2. CASE \E l \in GeneratedLines : Generate({l})
    <3>1. PICK l \in GeneratedLines : Generate({l})
      BY <2>2
    <3>2. IsFiniteSet({l}) /\ Cardinality({l}) = 1 /\ town \in Towns
      BY <1>7, FS_Singleton DEF Refresh
    <3> QED
      BY <3>1, <3>2, BatchFits
  <2> QED
    BY <1>7, <2>1, <2>2 DEF Refresh
<1> QED
  BY <1>1, <1>2, <1>3, <1>4, <1>5, <1>6, <1>7 DEF Next

-----------------------------------------------------------------------------
(* The properties. *)

\* Every variable keeps its type and every line is sound.
THEOREM TypeCorrect == Spec => []TypeOK
<1>1. IInv => TypeOK
  BY DEF IInv
<1> QED
  BY <1>1, Invariance, PTL

\* Only complex lines that are not the protagonist's own and whose days are over
\* are marked for a finale or end in a catastrophe.
THEOREM FinalesAreEarned == Spec => []FinaleIsDue
<1>1. IInv => FinaleIsDue
  BY DEF IInv
<1> QED
  BY <1>1, Invariance, PTL

\* No line that came into the open this turn is dark again at the end of it.
THEOREM NewsGetsATurn == Spec => []NewsReachesPlayer
<1>1. IInv => NewsReachesPlayer
  BY DEF IInv, FreshIsOpen, NewsReachesPlayer
<1> QED
  BY <1>1, Invariance, PTL

\* No step reopens a closed line, except density generation with its id.
THEOREM ClosedStaysClosed == Spec => NothingReopens
<1> DEFINE Kept == \A l \in Live : line[l].state = "closed"
                       => line'[l] = line[l] \/ (phase = "density" /\ l \in GeneratedLines)
<1>1. IInv /\ [Next]_vars => [Kept]_vars
  <2> SUFFICES ASSUME IInv, Next, NEW l \in Live, line[l].state = "closed"
               PROVE  line'[l] = line[l] \/ (phase = "density" /\ l \in GeneratedLines)
    BY DEF vars
  <2>1. CASE Narrate
    <3>1. PICK today \in day..MaxDay,
               op \in [Live -> {"none", "surface", "advance", "resolve"}],
               opened \in SUBSET (NarratedLines \ Live) :
              /\ Valid(line[l], op[l])
              /\ line'[l] = Played(line[l], op[l], today)
      BY <2>1 DEF Narrate
    <3>2. op[l] = "none"
      BY <3>1 DEF Valid
    <3> QED
      BY <3>1, <3>2 DEF Played
  <2>2. CASE \E f \in NarratedLines : Flag(f)
    BY <2>2 DEF Flag
  <2>3. CASE RunLore
    BY <2>3 DEF RunLore, Outcomes
  <2>4. CASE RunDemote
    BY <2>4 DEF RunDemote, Demotable
  <2>5. CASE Seed
    BY <2>5 DEF Seed, Generate
  <2>6. CASE Refresh
    BY <2>6 DEF Refresh, Generate
  <2>7. CASE SkipHook
    BY <2>7 DEF SkipHook
  <2> QED
    BY <2>1, <2>2, <2>3, <2>4, <2>5, <2>6, <2>7 DEF Next
<1> QED
  BY <1>1, Invariance, PTL DEF Spec, NothingReopens

\* The unresolved generated lines of a tier exceed its cap by less than one batch,
\* in every town and in the whole region, whatever the narrator opens and frees: the
\* cap counts all makers' lines, and a batch cannot see its own.
THEOREM CapsAreKept == Spec => []CapsHold
<1>1. IInv /\ CapsHold /\ [Next]_vars => CapsHold'
  BY CapsStep
<1> QED
  BY <1>1, CapsInit, Invariance, PTL DEF Spec

=============================================================================
