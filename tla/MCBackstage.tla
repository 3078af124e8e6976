----------------------------- MODULE MCBackstage -----------------------------
(* A capital, the docks in it and the quay in those, beside the hills and beside *)
(* a march with a fort and a mill.                                                *)
EXTENDS Backstage, TLC

CONSTANTS capital, dock, quay, march, fort, mill, hills

MCPlaces == {capital, dock, quay, march, fort, mill, hills}
MCBelow == (capital :> <<dock>>) @@ (dock :> <<quay>>) @@ (march :> <<fort, mill>>) @@
           [p \in {quay, fort, mill, hills} |-> <<>>]
MCBeside == (capital :> {march, hills}) @@ (march :> {capital}) @@ (hills :> {capital}) @@
            [p \in {dock, quay, fort, mill} |-> {}]
MCDeclarations == {{}, {capital}}

=============================================================================
