---------------------------- MODULE MCProtocols ----------------------------
(***************************************************************************)
(* ClientCommands, and with it Protocols, with requests that carry no      *)
(* labels, and all of them.                                                *)
(***************************************************************************)
EXTENDS ClientCommands

TwoLabelings == {NilLabels, [k \in LabelKeys |-> EmptyValue]}
=============================================================================
