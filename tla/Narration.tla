------------------------------ MODULE Narration ------------------------------
(***************************************************************************)
(* A turn as a conversation with the language model: loop/strategy.py      *)
(* (AuthorStrategy and HybridStrategy), produce_turn of loop/turn.py and   *)
(* the calls of llm/provider.py.                                           *)
(*                                                                         *)
(* The author looks things up with read-only tools for a few rounds and    *)
(* answers with a commit, or is asked once more when it forgot the JSON;   *)
(* the hybrid writes free prose and then its structure.  What the commit   *)
(* refers to is resolved or minted, the commit is validated, and only the  *)
(* failing sections are asked for again.  What is still wrong after        *)
(* MaxRepairs rejects the turn.                                            *)
(*                                                                         *)
(* An answer is one of what a model returns: a JSON object, a broken one   *)
(* with or without a narration to salvage, bare prose.                     *)
(***************************************************************************)
EXTENDS Commit

CONSTANTS
    Drafts,      \* the commits a model may answer with
    Revisions,   \* for each key, the values it may repair it with
    MaxRepairs,
    MaxRounds,   \* tool rounds, get_max_tool_rounds
    MaxRetries,  \* retries of one HTTP call
    MaxTurns     \* bound: published turns

ASSUME NarrationAssumption ==
    {MaxRepairs, MaxRounds, MaxRetries, MaxTurns} \subseteq Nat

ASSUME DraftsAssumption ==
    /\ \A d \in Drafts : IsCommit(d)
    /\ Owned \subseteq DOMAIN Revisions
    /\ \A k \in DOMAIN Revisions : \A v \in Revisions[k] :
          IsCommit(Updated([narration |-> "empty"], [key \in {k} |-> v]))

VARIABLES
    world,      \* people and their names, as published
    turns,      \* turns published
    strategy,   \* how the session narrates
    pc,         \* what the turn waits for
    commit,     \* the commit so far; before there is one, its prose
    attempts,   \* repairs so far
    rounds,     \* tool rounds so far
    tries       \* failed posts of the call under way

vars == <<world, turns, strategy, pc, commit, attempts, rounds, tries>>

Just(prose) == [narration |-> prose]
NoCommit == Just("empty")

\* The author with a provider that has tools, without, and the hybrid.
Strategies == {"tools", "plain", "hybrid"}
\* tell: prose; answer: the commit; wrap, mend: the JSON around bare prose, or
\* instead of a broken object; repair: the failing sections.
Waiting == {"tell", "answer", "wrap", "mend", "repair"}

Init ==
    /\ world = Genesis
    /\ turns = 0
    /\ strategy \in Strategies
    /\ pc = "idle"
    /\ commit = NoCommit
    /\ attempts = 0
    /\ rounds = 0
    /\ tries = 0

-----------------------------------------------------------------------------
(* What a model returns, and what is made of it. *)

Tellings == {d["narration"] : d \in Drafts}
Answers == {[form |-> "json", draft |-> d] : d \in Drafts}
           \cup {[form |-> f, draft |-> Just(n)] : f \in {"cut", "prose"}, n \in Tellings \ {"empty"}}
           \cup {[form |-> "blob", draft |-> NoCommit]}

\* A salvaged narration or bare prose is a turn without sections; anything else
\* that cannot be parsed is not shown.
DataOrSafe(a) == IF a.form = "blob" THEN Just("silent") ELSE a.draft

\* The JSON asked for again keeps the bare prose it wraps.  In place of a broken
\* object it brings its own narration, unless that looks like JSON.
Wrapped(d) == IF pc = "wrap" \/ d["narration"] = "fields" THEN Updated(d, commit) ELSE d

\* Hybrid: the structure of the prose already written.
Structured(a) == IF a.form = "json" THEN Updated(a.draft, commit) ELSE commit

\* What a repair may bring: any of the failing keys; other keys are dropped.
Repairs(failing) ==
    LET revisions(k) == IF k \in DOMAIN Revisions THEN Revisions[k] ELSE {{}} IN
    FoldSet(LAMBDA k, rs : rs \cup {Updated(r, [key \in {k} |-> v]) : v \in revisions(k), r \in rs},
            {[k \in {} |-> {}]}, failing)

\* Mutant: a repair answers with the whole commit.
Merged_whole(r, c) == Updated(Just(c["narration"]), r)

\* Mutant: the narration is never repaired.
Merged_frozen(r, c) == Updated(c, [k \in DOMAIN r \ {"narration"} |-> r[k]])

\* dict.update: repaired keys replace, no key goes.
Merged(r, c) == Updated(c, r)

\* What is still wrong after the repairs rejects the turn.
Verdict(c, n) ==
    IF Failing(c, world) = {} THEN "accepted"
    ELSE IF n < MaxRepairs THEN "repair" ELSE "idle"

-----------------------------------------------------------------------------
\* References are resolved before every validation.
Validate(c, n) ==
    LET d == Augmented(c, world) IN
    /\ pc' = Verdict(d, n)
    /\ commit' = IF pc' = "idle" THEN NoCommit ELSE d
    /\ attempts' = IF pc' = "idle" THEN 0 ELSE n

\* A call was answered.
Answered == rounds' = 0 /\ tries' = 0

Abandoned ==
    /\ pc' = "idle"
    /\ commit' = NoCommit
    /\ attempts' = 0

Start ==
    /\ pc = "idle"
    /\ turns < MaxTurns
    /\ pc' = IF strategy = "hybrid" THEN "tell" ELSE "answer"
    /\ UNCHANGED <<world, turns, strategy, commit, attempts, rounds, tries>>

\* Mutant: rounds are not counted.
NextRound_free(n) == n

NextRound(n) == n + 1

\* The author calls tools; at the cap none are offered.
CallTools ==
    /\ pc = "answer"
    /\ strategy = "tools"
    /\ rounds < MaxRounds
    /\ rounds' = NextRound(rounds)
    /\ tries' = 0
    /\ UNCHANGED <<world, turns, strategy, pc, commit, attempts>>

Tell ==
    /\ pc = "tell"
    /\ \E n \in Tellings : commit' = Just(n)
    /\ pc' = "answer"
    /\ Answered
    /\ UNCHANGED <<world, turns, strategy, attempts>>

\* After a tool loop an answer that is no JSON object is asked for once more.
Answer(a) ==
    /\ pc = "answer"
    /\ Answered
    /\ CASE strategy = "hybrid" -> Validate(Structured(a), 0)
         [] strategy = "tools" /\ a.form # "json" ->
              /\ pc' = IF a.form = "prose" THEN "wrap" ELSE "mend"
              /\ commit' = DataOrSafe(a)
              /\ attempts' = 0
         [] OTHER -> Validate(DataOrSafe(a), 0)
    /\ UNCHANGED <<world, turns, strategy>>

AskAgain(a) ==
    /\ pc \in {"wrap", "mend"}
    /\ Answered
    /\ Validate(IF a.form = "json" THEN Wrapped(a.draft) ELSE commit, 0)
    /\ UNCHANGED <<world, turns, strategy>>

Repair(r) ==
    /\ pc = "repair"
    /\ Answered
    /\ Validate(Merged(r, commit), attempts + 1)
    /\ UNCHANGED <<world, turns, strategy>>

\* A post that times out, is refused or meets a busy server is tried again.
Retry ==
    /\ pc \in Waiting
    /\ tries < MaxRetries
    /\ tries' = tries + 1
    /\ UNCHANGED <<world, turns, strategy, pc, commit, attempts, rounds>>

\* The call raises: the question for JSON is dropped, any other ends the turn.
CallFails ==
    /\ pc \in Waiting
    /\ Answered
    /\ IF pc \in {"wrap", "mend"} THEN Validate(commit, 0) ELSE Abandoned
    /\ UNCHANGED <<world, turns, strategy>>

Publish ==
    /\ pc = "accepted"
    /\ world' = Applied(commit, world)
    /\ turns' = turns + 1
    /\ Abandoned
    /\ UNCHANGED <<strategy, rounds, tries>>

\* Something later in the turn, or the publication, fails.
Drop ==
    /\ pc = "accepted"
    /\ Abandoned
    /\ UNCHANGED <<world, turns, strategy, rounds, tries>>

-----------------------------------------------------------------------------
\* The turn under way; only the player starts one.
Step ==
    \/ CallTools
    \/ Tell
    \/ \E a \in Answers : Answer(a) \/ AskAgain(a)
    \/ \E r \in Repairs(Failing(commit, world)) : Repair(r)
    \/ Retry
    \/ CallFails
    \/ Publish
    \/ Drop

Next == Start \/ Step

\* A turn goes on by itself: every post has a timeout.
Spec == Init /\ [][Next]_vars /\ WF_vars(Step)

-----------------------------------------------------------------------------
(* Properties. *)

\* Validation stubs the people a commit creates and applying it creates them for
\* real: whoever an accepted commit moves or speaks of will exist.
NobodyImaginary ==
    pc = "accepted" =>
        LET there == Applied(commit, world).people IN
        /\ Moves(commit) \subseteq there
        /\ \A f \in FactSet(commit) : f.subject \in there

\* Whether an answer can make the commit valid.
Repairable ==
    \E r \in Repairs(Failing(commit, world)) :
        Failing(Augmented(Merged(r, commit), world), world) = {}

\* While only known sections fail, some answer with nothing but the failing keys
\* makes the commit valid: what resolving references added to other sections
\* never stands in the way.
KnownErrorsRepairable == pc = "repair" /\ Unowned(commit) = {} => Repairable

RepairStep == \E r \in Repairs(Failing(commit, world)) : Repair(r)

\* "narration + passing sections stay untouched" (loop/turn.py, produce_turn): a
\* repair takes nothing from what had passed, whatever it mints on the way.  Only
\* a move of somebody whom the repaired cast no longer creates gets another who.
PassingSectionsKept ==
    [][RepairStep /\ pc' # "idle" =>
        LET passed == DOMAIN commit \ Failing(commit, world) IN
        /\ passed \subseteq DOMAIN commit'
        /\ "narration" \in passed => commit'["narration"] = commit["narration"]
        /\ "moves" \in passed =>
              {m \in Moves(commit) : Exists(m, commit', world)} \subseteq Moves(commit')
        /\ "cast" \in passed => Cast(commit) \subseteq Cast(commit')
        /\ "facts" \in passed => FactSet(commit) \subseteq FactSet(commit')
        /\ "clock" \in passed => commit'["clock"] = commit["clock"]]_vars

\* Every action of the player gets an end: tool rounds, questions for JSON,
\* repairs and retries are all bounded.
TurnEnds == pc # "idle" ~> pc = "idle"

\* "dedup by normalized true name (across turns via the fact ...)", so that a name is
\* not created twice (loop/entity_resolve.py:15-16): nobody is minted for a name
\* that the world records as somebody's.
RecordedNamesNotMinted ==
    [][LET minted == AutoIds \cap (world'.people \ world.people) IN
       \A f \in world'.trueNames :
          f.subject \in minted => \A g \in world.trueNames : g.name # f.name]_vars

=============================================================================
