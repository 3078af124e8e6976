----------------------------- MODULE GenesisSpec -----------------------------
(***************************************************************************)
(* What the player asks of a new world before it is generated: the pitch,  *)
(* an imported world book or card, a blueprint file, the session-zero      *)
(* questions and the command line, folded into one specification.          *)
(*                                                                         *)
(* A specification gives each part a sequence of wishes.  Blank is a wish  *)
(* left empty.  A scalar part holds at most one wish; a named part never   *)
(* twice the same name; npcs and threads are plain lists.                  *)
(***************************************************************************)
EXTENDS Integers, Sequences, SequencesExt

CONSTANTS
    Wishes,     \* what the player may write
    Blank       \* an empty field

ASSUME SpecAssumption == Blank \notin Wishes

Scalars == {"genre", "name", "tone", "opening"}
Named == {"regions", "factions", "venues", "neighbors"}
Listed == {"npcs", "threads"}
Parts == Scalars \cup Named \cup Listed
Required == <<"genre", "name">>

Nothing == [p \in Parts |-> <<>>]
Only(p, wishes) == [Nothing EXCEPT ![p] = wishes]

\* Parts no specification knows, codex among them, are dropped with the blanks.
Normalize(raw) ==
    [p \in Parts |-> IF p \in DOMAIN raw THEN SelectSeq(raw[p], LAMBDA w : w # Blank) ELSE <<>>]

\* A name already there is not added again: the earlier source describes it.
AugmentByName(base, overlay) ==
    FoldLeft(LAMBDA out, w : IF Contains(out, w) THEN out ELSE Append(out, w), base, overlay)

Replace(base, overlay) == IF overlay = <<>> THEN base ELSE overlay

Merge(base, overlay) ==
    [p \in Parts |-> CASE p \in Scalars -> Replace(base[p], overlay[p])
                       [] p \in Named -> AugmentByName(base[p], overlay[p])
                       [] p \in Listed -> base[p] \o overlay[p]]

MissingRequired(spec) == SelectSeq(Required, LAMBDA p : spec[p] = <<>>)

\* The player is asked for each missing part once; an empty line, or the end of
\* the input, leaves it to the model.
SessionZero(spec, answers) ==
    LET asked == MissingRequired(spec)
        answered == {i \in DOMAIN asked : i <= Len(answers) /\ answers[i] # Blank}
    IN [p \in Parts |-> IF \E i \in answered : asked[i] = p
                        THEN <<answers[CHOOSE i \in answered : asked[i] = p]>>
                        ELSE spec[p]]

\* sources: the pitch, the translated import, the blueprint, the answers, and
\* the flags, which the caller lays over the rest.
ResolveSpec(sources) ==
    LET written == Merge(Merge(Normalize(Only("genre", <<sources.pitch>>)),
                               Normalize(sources.imported)),
                         Normalize(sources.blueprint))
    IN Merge(Normalize(SessionZero(written, sources.answers)), Normalize(sources.flags))
=============================================================================
