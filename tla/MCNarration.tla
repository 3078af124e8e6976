----------------------------- MODULE MCNarration -----------------------------
(* A stranger the model may or may not create, and an elder who stands by. *)
EXTENDS Narration, TLC

CONSTANTS hero, sage, npc, auto1, auto2, auto3, kane, elder

MCAuto == <<auto1, auto2, auto3>>
MCResembles == {<<sage, elder>>}

Kane(whole) == [id |-> npc, name |-> kane, whole |-> whole]
Named == [subject |-> npc, name |-> kane]

MCRevisions ==
    ("narration" :> {"story", "told"}) @@
    ("moves" :> {{}, {kane}}) @@
    ("cast" :> {{}, {Kane(TRUE)}}) @@
    ("facts" :> {<<>>, NotAList}) @@
    ("clock" :> {{}, {"tick"}})

MCDrafts ==
    {("narration" :> n) @@ ("moves" :> m) @@ ("cast" :> c) @@ ("facts" :> f) @@
     ("clock" :> {"tick"}) @@ extra :
        n \in {"story", "told", "fields"},
        m \in {{}, {kane}, {elder}},
        c \in {{}, {Kane(TRUE)}, {Kane(FALSE)}},
        f \in {<<>>, <<Named>>, NotAList},
        extra \in {[k \in {} |-> {}], "loot" :> {}}}
    \cup {("narration" :> "empty") @@ ("clock" :> {})}
=============================================================================
