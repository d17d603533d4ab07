----------------------------- MODULE MCIdentity -----------------------------
(***************************************************************************)
(* Identity with one client, whose secret requests have right or wrong.    *)
(***************************************************************************)
EXTENDS Identity

\* Every client has the first of the secrets on offer.
OneSecret == [c \in Clients |-> CHOOSE s \in Offered : TRUE]
=============================================================================
