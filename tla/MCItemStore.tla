---------------------------- MODULE MCItemStore ----------------------------
(***************************************************************************)
(* ItemStore on small instances.  The bodies are chosen so that a merge    *)
(* differs from a replacement in each field: FullBody sets every field,    *)
(* BareBody sets none (nil labels, nil data, empty name).                  *)
(***************************************************************************)
EXTENDS ItemStore, FiniteSets, TLC

CONSTANT full   \* the payload

FullBody == [name |-> CHOOSE n \in Names : TRUE,
             labels |-> [k \in LabelKeys |-> EmptyValue], data |-> full]

BareBody == [name |-> NoName, labels |-> NilLabels, data |-> NoData]

TwoBodies == {FullBody, BareBody}

Symmetric == Permutations(Writers) \union Permutations(Subscribers)
=============================================================================
