-------------------------------- MODULE Recap --------------------------------
(***************************************************************************)
(* The recap: the prose of the last scenes is shown word for word, older   *)
(* scenes by a summary, the oldest by one summary of their summaries.      *)
(* NarrativeSystem folds it from three types of event; the digest hook     *)
(* writes two of them, at most one summary a turn, and may fail.           *)
(*                                                                         *)
(* A turn's prose is its turn number.  A summary is the set of the turns   *)
(* whose prose it was made from; {} is none.                               *)
(***************************************************************************)
EXTENDS Director, Sequences, SequencesExt

CONSTANTS
    RawScenes,     \* RECAP_RAW_SCENES: buckets shown word for word
    PerBucket,     \* RECAP_TURNS_PER_BUCKET: turns of one bucket
    Fanout         \* RECAP_SUMMARY_FANOUT: summaries shown, and merged at once

ASSUME RecapAssumption ==
    /\ RawScenes \in Nat \ {0}
    /\ PerBucket \in Nat \ {0}
    /\ Fanout \in Nat \ {0}

NoStory == [scenes |-> <<>>, super |-> {}, through |-> 0]

-----------------------------------------------------------------------------
(* The three events. *)

\* The prose joins the last bucket if that is the same scene and not full.
Recorded(ns, e) ==
    LET last == Len(ns.scenes)
    IN IF /\ ns.scenes # <<>>
          /\ ns.scenes[last].scene = e.place
          /\ Cardinality(ns.scenes[last].raw) < PerBucket
       THEN [ns EXCEPT !.scenes[last].raw = @ \cup {e.turn}]
       ELSE [ns EXCEPT !.scenes = Append(@, [scene |-> e.place,
                                             raw |-> {e.turn},
                                             summary |-> {}])]

Unsummarized(ns, scene) ==
    {i \in DOMAIN ns.scenes : ns.scenes[i].scene = scene /\ ns.scenes[i].summary = {}}

\* The summary names its scene only and goes to the first bucket of that scene
\* without one, from whose prose the digest made it by the same rule.
Summarized(ns, e) ==
    IF Unsummarized(ns, e.place) = {} THEN ns
    ELSE LET i == Min(Unsummarized(ns, e.place))
         IN [ns EXCEPT !.scenes[i].summary = ns.scenes[i].raw]

\* The summaries not merged yet.
PendingSummaries(ns) ==
    {i \in DOMAIN ns.scenes : i > ns.through /\ ns.scenes[i].summary # {}}

\* The ones one call merges: the oldest.
Oldest(ns) ==
    {i \in PendingSummaries(ns) :
        Cardinality({j \in PendingSummaries(ns) : j < i}) < Fanout}

\* The merge is made from the summary of summaries and the oldest pending ones;
\* the event says how many buckets it covers.
Recompressed(ns, e) ==
    [ns EXCEPT !.super = @ \cup UNION {ns.scenes[i].summary : i \in Oldest(ns)},
               !.through = e.n]

-----------------------------------------------------------------------------
(* The fold, in the order of the log: the prose of a turn, then its digest. *)

Folded(ns, turn, events) ==
    LET at(type) == {e \in Of(events, type) : e.turn = turn}
        told == FoldSet(LAMBDA e, s : Recorded(s, e), ns, at("narration_recorded"))
        short == FoldSet(LAMBDA e, s : Summarized(s, e), told, at("scene_summarized"))
    IN FoldSet(LAMBDA e, s : Recompressed(s, e), short, at("recap_recompressed"))

Story(events) ==
    LET upto[t \in 0..Latest(Turns(events))] ==
            IF t = 0 THEN NoStory ELSE Folded(upto[t - 1], t, events)
    IN upto[Latest(Turns(events))]

\* Mutant: the window is one bucket short.
AgedOut_early(ns) ==
    {i \in 1..(Len(ns.scenes) - RawScenes + 1) : ns.scenes[i].summary = {}}

\* aged_out_scene: the buckets behind the window that have no summary.
AgedOut(ns) ==
    {i \in 1..(Len(ns.scenes) - RawScenes) : ns.scenes[i].summary = {}}

-----------------------------------------------------------------------------
(* The digest: what it may write, in the given turn. *)

\* No summary is due, or the model gave none.
Digests(events, turn) ==
    LET ns == Story(events)
    IN {{}} \cup
       (IF AgedOut(ns) = {} THEN {}
        ELSE LET scene == ns.scenes[Min(AgedOut(ns))].scene
                 summary == Event("scene_summarized", turn, scene, 0)
                 next == Story(events \cup {summary})
             IN {{summary}} \cup
                (IF Cardinality(PendingSummaries(next)) <= Fanout THEN {}
                 ELSE {{summary, Event("recap_recompressed", turn, scene,
                                       Max(Oldest(next)))}}))

-----------------------------------------------------------------------------
(* What the next narrator is shown: the summary of summaries, the summaries  *)
(* after it, and the prose of the window.                                    *)

Shown(ns) ==
    {ns.super} \cup
    {ns.scenes[i].summary : i \in {j \in 1..(Len(ns.scenes) - RawScenes) : j > ns.through}}
    \cup {ns.scenes[i].raw : i \in {j \in DOMAIN ns.scenes : j > Len(ns.scenes) - RawScenes}}

=============================================================================
