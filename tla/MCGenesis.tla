------------------------------ MODULE MCGenesis ------------------------------
(* Model-checking instance of Genesis: players who bring nothing, or wishes    *)
(* from several sources that overlap.                                          *)
EXTENDS Genesis, TLC

MCWishes == {"gothic", "saga", "Ana", "Bo", "Guild", "Order", "Reeve", "hunt", "debt", "dawn"}
MCSymmetry == Permutations(Sessions)
MCPersonal == {"debt"}
MCDice(step, a, lo, hi) == lo + (a % (hi - lo + 1))

NoSource == [p \in {} |-> <<>>]
Bare == [pitch |-> Blank, imported |-> NoSource, blueprint |-> NoSource,
         answers |-> <<Blank>>, flags |-> NoSource]
Rich == [pitch |-> "gothic",
         imported |-> [name |-> <<"Ana">>, factions |-> <<"Guild", Blank>>, npcs |-> <<"Reeve">>,
                       threads |-> <<"hunt">>],
         blueprint |-> [genre |-> <<"saga">>, factions |-> <<"Order", "Guild", "Order">>,
                        threads |-> <<"debt">>, opening |-> <<"dawn">>, codex |-> <<"hunt">>,
                        venues |-> <<"Order", "Bo">>,
                        regions |-> <<"Ana", "Bo", "hunt", "gothic">>],
         answers |-> <<"Bo">>,
         flags |-> [genre |-> <<Blank>>, tone |-> <<"gothic">>]]
MCSources == {Bare, Rich}
=============================================================================
