------------------------------ MODULE ItemFeed ------------------------------
(***************************************************************************)
(* What the store promises to those who only see its results: a map of     *)
(* items whose every change adds one event to a history, and for each      *)
(* member a feed, a part of the history in its order.  No lock, no buffer, *)
(* no copy of a listener list: ItemStore is shown to implement this.       *)
(*                                                                         *)
(* A member may miss events; it never gets one twice, out of order, from   *)
(* before the change in progress when it joined, or after it left.         *)
(***************************************************************************)
EXTENDS ItemData, Sequences

CONSTANT Members

VARIABLES
    items,    \* items[id]: the item, or NoItem
    history,  \* one event per change
    joined,   \* joined[c]: length of the history when the member joined
    members,  \* those who are in
    feed      \* feed[c]: the events the member was given

vars == <<items, history, joined, members, feed>>

Init ==
    /\ items = [id \in Ids |-> NoItem]
    /\ history = << >>
    /\ joined = [c \in Members |-> 0]
    /\ members = {}
    /\ feed = [c \in Members |-> << >>]

Tick == Len(history) + 1

Record(type, item) ==
    /\ history' = Append(history, [seq |-> Tick, type |-> type, item |-> item])
    /\ UNCHANGED <<joined, members, feed>>

OnlyChanges(id) ==
    /\ DOMAIN items' = Ids
    /\ \A other \in Ids \ {id} : items'[other] = items[other]

\* A first version appears where there was nothing.
Add(id) ==
    /\ items[id] = NoItem
    /\ OnlyChanges(id)
    /\ items'[id] \in Item
    /\ items'[id].id = id /\ items'[id].version = 1
    /\ items'[id].created = Tick /\ items'[id].updated = Tick
    /\ Record("CREATED", items'[id])

\* The next version takes the place of the last one.
Change(id) ==
    /\ items[id] # NoItem
    /\ OnlyChanges(id)
    /\ items'[id] \in Item
    /\ items'[id].id = id /\ items'[id].version = items[id].version + 1
    /\ items'[id].created = items[id].created /\ items'[id].updated = Tick
    /\ Record("UPDATED", items'[id])

Remove(id) ==
    /\ items[id] # NoItem
    /\ items' = [items EXCEPT ![id] = NoItem]
    /\ Record("DELETED", items[id])

Join(c) ==
    /\ c \notin members /\ feed[c] = << >>
    /\ members' = members \union {c}
    /\ joined' = [joined EXCEPT ![c] = Len(history)]
    /\ UNCHANGED <<items, history, feed>>

Leave(c) ==
    /\ c \in members
    /\ members' = members \ {c}
    /\ UNCHANGED <<items, history, joined, feed>>

\* The member is given the n-th event, a later one than it has had.
Publish(c, n) ==
    /\ c \in members /\ n >= joined[c]
    /\ \A i \in 1 .. Len(feed[c]) : feed[c][i].seq < n
    /\ feed' = [feed EXCEPT ![c] = Append(@, history[n])]
    /\ UNCHANGED <<items, history, joined, members>>

Next ==
    \/ \E id \in Ids : Add(id) \/ Change(id) \/ Remove(id)
    \/ \E c \in Members :
          \/ Join(c) \/ Leave(c)
          \/ \E n \in 1 .. Len(history) : Publish(c, n)

Spec == Init /\ [][Next]_vars
=============================================================================
