---------------------------- MODULE AtomicItems ----------------------------
(***************************************************************************)
(* The store as its callers in one process count on it                     *)
(* (internal/store/items.go): a map in which each call of Create, Update,  *)
(* Upsert or Delete takes effect at once, at a time of its own.            *)
(*                                                                         *)
(* ItemStore, where a call is many steps under a lock, is shown to         *)
(* implement this; RestItems, Protocols and ListItems, which take a call   *)
(* for one step, are shown to change the items in no other way.            *)
(***************************************************************************)
EXTENDS ItemData

VARIABLES
    items,   \* items[id]: the stored item, or NoItem
    commits  \* changes made so far: the time

vars == <<items, commits>>

Init == items = [id \in Ids |-> NoItem] /\ commits = 0

Now == commits + 1

Store(id, new) ==
    /\ commits' = Now
    /\ items' = [items EXCEPT ![id] = new]

Create(id, body) == items[id] = NoItem /\ Store(id, Created(id, body, Now))

Update(id, body) == items[id] # NoItem /\ Store(id, Replaced(items[id], body, Now))

\* Of an absent identifier it is Create.
Upsert(id, body) == items[id] # NoItem /\ Store(id, Merged(items[id], body, Now))

Delete(id) == items[id] # NoItem /\ Store(id, NoItem)

Next == \E id \in Ids :
    \/ Delete(id)
    \/ \E body \in Body : Create(id, body) \/ Update(id, body) \/ Upsert(id, body)

Spec == Init /\ [][Next]_vars
=============================================================================
