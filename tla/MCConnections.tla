--------------------------- MODULE MCConnections ---------------------------
(* An instance of Connections: p sends A or B, r reads B, ab makes B of A. *)
EXTENDS Connections

CONSTANTS p, r, ab

TheInputs == [g \in Programs |-> IF g = r THEN "B" ELSE "U"]
TheFilterSource == [h \in Filters |-> "A"]
TheFilterTarget == [h \in Filters |-> "B"]
AnyByDefault == [u \in Types |-> <<"Any">>]
TheStarts == [g \in Programs |-> IF g = r THEN 2 ELSE 1]

A == <<"A", None>>
B == <<"B", None>>
All == <<"All">>
TheRequests == {<<All, <<"Program", r>>, A>>, <<All, <<"Program", r>>, B>>, <<All, <<"None">>, A>>,
                <<<<"Program", p>>, <<"Program", r>>, B>>,
                <<<<"Filtered", ab>>, <<"Program", r>>, A>>, <<<<"Filtered", ab>>, <<"Any">>, A>>}
TheSends == {<<p, <<"Any">>, "A">>, <<p, <<"Any">>, "B">>, <<p, <<"Filtered", ab, r>>, "A">>}

Symmetry == Permutations(Threads)
=============================================================================
