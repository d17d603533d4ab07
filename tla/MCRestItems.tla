---------------------------- MODULE MCRestItems ----------------------------
(***************************************************************************)
(* RestItems on small instances: a named body, and one that POST refuses   *)
(* while PUT and PATCH accept it.                                          *)
(***************************************************************************)
EXTENDS RestItems, TLC

Named   == [name |-> CHOOSE n \in Names : TRUE, labels |-> NilLabels, data |-> NoData]
Unnamed == [name |-> NoName, labels |-> NilLabels, data |-> CHOOSE d \in Payloads : TRUE]

TwoBodies == {Named, Unnamed}

Symmetric == Permutations(Clients) \union Permutations(Ids) \union Permutations(Handlers)
=============================================================================
