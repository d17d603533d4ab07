---------------------------- MODULE MCListItems ----------------------------
(***************************************************************************)
(* ListItems on small instances: integers of eight bits, so that the       *)
(* greatest page number overflows as 2^63 - 1 does in the code, a body     *)
(* that a selector finds and one that it does not.                         *)
(***************************************************************************)
EXTENDS ListItems

dev    == CHOOSE v \in LabelValues : v # EmptyValue
Plain  == [name |-> CHOOSE n \in Names : TRUE, labels |-> NilLabels, data |-> NoData]
Marked == [Plain EXCEPT !.labels = [k \in LabelKeys |-> dev]]

TwoBodies    == {Plain, Marked}
TwoSelectors == {NoLabels, Marked.labels}

\* None, the first ones, and two whose offset overflows.
SmallPages  == {-1, 1, 2, 3, 65, 127}
\* None, one, and more than is granted.
SmallLimits == {0, 1, 5}
=============================================================================
