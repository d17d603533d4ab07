---------------------------- MODULE MCWatchItems ----------------------------
(***************************************************************************)
(* WatchItems on small instances: an item that has the label the selector  *)
(* asks for, and one that has lost it, which a filtered stream must skip,  *)
(* each under an identifier that can be sent and one that cannot.          *)
(***************************************************************************)
EXTENDS WatchItems, TLC

CONSTANTS prod

Labelled == [name |-> NoName, labels |-> [k \in LabelKeys |-> prod], data |-> NoData]
Plain    == [name |-> NoName, labels |-> NilLabels, data |-> NoData]

WatchBodies == {Labelled, Plain}
WatchSelectors == {[k \in LabelKeys |-> prod]}
=============================================================================
