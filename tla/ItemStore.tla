----------------------------- MODULE ItemStore -----------------------------
(***************************************************************************)
(* The shared store (internal/store/items.go): the map of items under its  *)
(* write lock, and the emission of one event per change to the channels of *)
(* the subscribers.                                                        *)
(*                                                                         *)
(* A writer is a goroutine inside Create, Update, Upsert or Delete.  It    *)
(* holds mu from its check to its return, the emission included, so the    *)
(* change is one step; emit is not, because Subscribe, Unsubscribe and the *)
(* receivers do not take mu: the copy of the listeners is one step and     *)
(* each non-blocking send another.                                         *)
(*                                                                         *)
(* A channel is the sequence of all the events ever put in it and the      *)
(* number of those taken out; its buffer is the rest.  emit visits its     *)
(* copy in slice order; here the copy is a set and the order arbitrary.    *)
(* The reads (Get, List, Count) take mu.RLock and change nothing: they see *)
(* items in the states where mu is Free.                                   *)
(***************************************************************************)
EXTENDS ItemData, Sequences

CONSTANTS
    Writers,      \* goroutines that call the mutating methods
    Subscribers,  \* channels, one per call of Subscribe
    Bodies,       \* the bodies callers send
    Capacity,     \* buffer of a channel, 64 in the code
    MaxCommits,   \* bound: changes committed in a behaviour
    Free,         \* mu is not held
    NoEvent       \* the writer has nothing to emit

ASSUME StoreAssumption ==
    /\ Bodies \subseteq Body
    /\ Capacity \in Nat \ {0}
    /\ MaxCommits \in Nat
    /\ Free \notin Writers

VARIABLES
    items,      \* items[id]: the stored item, or NoItem
    mu,         \* the writer that holds the write lock, or Free
    listeners,  \* the channels events are sent to
    chan,       \* chan[c]: "none" before Subscribe, "open", "closed"
    offered,    \* offered[c]: every event ever put in the channel
    taken,      \* taken[c]: how many of them were received
    pc,         \* pc[w]: "ready", "emit" (change made), "send" (listeners copied)
    cur,        \* cur[w]: the event being emitted
    todo,       \* todo[w]: the copied listeners not yet visited
    reply,      \* reply[w]: outcome of the writer's last call
    \* history, read by no action's guard but the MaxCommits bound
    log,        \* the events handed to emit, in order
    since,      \* since[c]: length of the log when c was subscribed
    dropped,    \* dropped[c]: numbers of the events dropped for c
    cut         \* numbers of the events whose emission a panic cut short

store  == <<items, mu, pc, cur, todo, reply, log>>
feeds  == <<listeners, chan, offered, taken, since, dropped>>
vars   == <<store, feeds, cut>>

EventTypes == {"CREATED", "UPDATED", "DELETED"}
Event   == [seq : Nat \ {0}, type : EventTypes, item : Item]

ASSUME NoEventAssumption == NoEvent \notin Event

Replies == {"none", "done", "refused", "panicked"}

Buffered(c) == Len(offered[c]) - taken[c]

Init ==
    /\ items = [id \in Ids |-> NoItem]
    /\ mu = Free
    /\ listeners = {}
    /\ chan = [c \in Subscribers |-> "none"]
    /\ offered = [c \in Subscribers |-> << >>]
    /\ taken = [c \in Subscribers |-> 0]
    /\ pc = [w \in Writers |-> "ready"]
    /\ cur = [w \in Writers |-> NoEvent]
    /\ todo = [w \in Writers |-> {}]
    /\ reply = [w \in Writers |-> "none"]
    /\ log = << >>
    /\ since = [c \in Subscribers |-> 0]
    /\ dropped = [c \in Subscribers |-> {}]
    /\ cut = {}

-----------------------------------------------------------------------------
(* The mutating methods.                                                   *)

\* Mutant: the write lock is not taken.
EntersUnlocked(w) == pc[w] = "ready"

\* mu.Lock() succeeds.
Enters(w) == pc[w] = "ready" /\ mu = Free

Now == Len(log) + 1

\* Mutant: the change is made under the lock, emit called after its release.
CommitAndUnlock(w, id, new, type, shown) ==
    LET e == [seq |-> Now, type |-> type, item |-> shown] IN
    /\ Now <= MaxCommits
    /\ items' = [items EXCEPT ![id] = new]
    /\ log' = Append(log, e)
    /\ cur' = [cur EXCEPT ![w] = e]
    /\ pc' = [pc EXCEPT ![w] = "emit"]
    /\ reply' = [reply EXCEPT ![w] = "none"]
    /\ UNCHANGED <<mu, todo, feeds, cut>>

\* The change and the call of emit with a clone of the item.
Commit(w, id, new, type, shown) ==
    LET e == [seq |-> Now, type |-> type, item |-> shown] IN
    /\ Now <= MaxCommits
    /\ items' = [items EXCEPT ![id] = new]
    /\ log' = Append(log, e)
    /\ cur' = [cur EXCEPT ![w] = e]
    /\ mu' = w
    /\ pc' = [pc EXCEPT ![w] = "emit"]
    /\ reply' = [reply EXCEPT ![w] = "none"]
    /\ UNCHANGED <<todo, feeds, cut>>

\* An early return with an error: mu is released with nothing changed.
Refuse(w) ==
    /\ reply' = [reply EXCEPT ![w] = "refused"]
    /\ UNCHANGED <<items, mu, pc, cur, todo, log, feeds, cut>>

\* An absent identifier is also what an empty one becomes, a fresh UUID.
Create(w, id, body) ==
    /\ Enters(w)
    /\ \/ /\ items[id] = NoItem
          /\ LET new == Created(id, body, Now)
             IN  Commit(w, id, new, "CREATED", new)
       \/ items[id] # NoItem /\ Refuse(w)

\* Mutant: the event carries the item as it was before the replacement.
UpdateShowingOld(w, id, body) ==
    /\ Enters(w)
    /\ \/ /\ items[id] # NoItem
          /\ Commit(w, id, Replaced(items[id], body, Now), "UPDATED", items[id])
       \/ items[id] = NoItem /\ Refuse(w)

Update(w, id, body) ==
    /\ Enters(w)
    /\ \/ /\ items[id] # NoItem
          /\ LET new == Replaced(items[id], body, Now)
             IN  Commit(w, id, new, "UPDATED", new)
       \/ items[id] = NoItem /\ Refuse(w)

\* Mutant: an upsert of a stored item starts it anew.
UpsertAfresh(w, id, body) ==
    /\ Enters(w)
    /\ LET new == Created(id, body, Now)
       IN  Commit(w, id, new, IF items[id] = NoItem THEN "CREATED" ELSE "UPDATED", new)

Upsert(w, id, body) ==
    /\ Enters(w)
    /\ \/ /\ items[id] # NoItem
          /\ LET new == Merged(items[id], body, Now)
             IN  Commit(w, id, new, "UPDATED", new)
       \/ /\ items[id] = NoItem
          /\ LET new == Created(id, body, Now)
             IN  Commit(w, id, new, "CREATED", new)

\* Mutant: the event of a deletion is typed like the one of an update.
DeleteTypedAsUpdate(w, id) ==
    /\ Enters(w)
    /\ \/ /\ items[id] # NoItem
          /\ Commit(w, id, NoItem, "UPDATED", items[id])
       \/ items[id] = NoItem /\ Refuse(w)

Delete(w, id) ==
    /\ Enters(w)
    /\ \/ /\ items[id] # NoItem
          /\ Commit(w, id, NoItem, "DELETED", items[id])
       \/ items[id] = NoItem /\ Refuse(w)

-----------------------------------------------------------------------------
(* emit.                                                                   *)

\* The listeners are copied under listenerMu, which is then released.
CopyListeners(w) ==
    /\ pc[w] = "emit"
    /\ todo' = [todo EXCEPT ![w] = listeners]
    /\ pc' = [pc EXCEPT ![w] = "send"]
    /\ UNCHANGED <<items, mu, cur, reply, log, feeds, cut>>

\* The select's send case: there is room in the buffer.
Offer(w, c) ==
    /\ pc[w] = "send" /\ c \in todo[w]
    /\ chan[c] = "open" /\ Buffered(c) < Capacity
    /\ offered' = [offered EXCEPT ![c] = Append(@, cur[w])]
    /\ todo' = [todo EXCEPT ![w] = @ \ {c}]
    /\ UNCHANGED <<items, mu, pc, cur, reply, log, cut>>
    /\ UNCHANGED <<listeners, chan, taken, since, dropped>>

\* Mutant: a full channel ends the loop instead of the iteration.
DropTheRest(w, c) ==
    /\ pc[w] = "send" /\ c \in todo[w]
    /\ chan[c] = "open" /\ Buffered(c) >= Capacity
    /\ dropped' = [dropped EXCEPT ![c] = @ \union {cur[w].seq}]
    /\ todo' = [todo EXCEPT ![w] = {}]
    /\ UNCHANGED <<items, mu, pc, cur, reply, log, cut>>
    /\ UNCHANGED <<listeners, chan, offered, taken, since>>

\* Mutant: a send without a default case waits for room.
WaitForRoom(w, c) == FALSE /\ UNCHANGED vars

\* The select's default case: the buffer is full.
Drop(w, c) ==
    /\ pc[w] = "send" /\ c \in todo[w]
    /\ chan[c] = "open" /\ Buffered(c) >= Capacity
    /\ dropped' = [dropped EXCEPT ![c] = @ \union {cur[w].seq}]
    /\ todo' = [todo EXCEPT ![w] = @ \ {c}]
    /\ UNCHANGED <<items, mu, pc, cur, reply, log, cut>>
    /\ UNCHANGED <<listeners, chan, offered, taken, since>>

\* A send on a closed channel panics, default case or not.  The deferred
\* Unlock runs; the change stays made, the channels left go without the event.
SendOnClosed(w, c) ==
    /\ pc[w] = "send" /\ c \in todo[w]
    /\ chan[c] = "closed"
    /\ mu' = Free
    /\ pc' = [pc EXCEPT ![w] = "ready"]
    /\ cur' = [cur EXCEPT ![w] = NoEvent]
    /\ todo' = [todo EXCEPT ![w] = {}]
    /\ reply' = [reply EXCEPT ![w] = "panicked"]
    /\ cut' = cut \union {cur[w].seq}
    /\ UNCHANGED <<items, log, feeds>>

\* The loop is over: the method returns, its deferred Unlock runs.
Return(w) ==
    /\ pc[w] = "send" /\ todo[w] = {}
    /\ mu' = Free
    /\ pc' = [pc EXCEPT ![w] = "ready"]
    /\ cur' = [cur EXCEPT ![w] = NoEvent]
    /\ reply' = [reply EXCEPT ![w] = "done"]
    /\ UNCHANGED <<items, todo, log, feeds, cut>>

-----------------------------------------------------------------------------
(* The subscribers' calls; none of them takes mu.                          *)

Subscribe(c) ==
    /\ chan[c] = "none"
    /\ chan' = [chan EXCEPT ![c] = "open"]
    /\ listeners' = listeners \union {c}
    /\ since' = [since EXCEPT ![c] = Len(log)]
    /\ UNCHANGED <<store, offered, taken, dropped, cut>>

\* Removed and closed in one hold of listenerMu.
Unsubscribe(c) ==
    /\ c \in listeners
    /\ listeners' = listeners \ {c}
    /\ chan' = [chan EXCEPT ![c] = "closed"]
    /\ UNCHANGED <<store, offered, taken, since, dropped, cut>>

\* <-ch; a closed channel still yields what its buffer holds.
Receive(c) ==
    /\ chan[c] # "none" /\ Buffered(c) > 0
    /\ taken' = [taken EXCEPT ![c] = @ + 1]
    /\ UNCHANGED <<store, listeners, chan, offered, since, dropped, cut>>

-----------------------------------------------------------------------------
Mutate(w) == \E id \in Ids :
    \/ \E body \in Bodies : Create(w, id, body) \/ Update(w, id, body) \/ Upsert(w, id, body)
    \/ Delete(w, id)

Emit(w) ==
    \/ CopyListeners(w)
    \/ \E c \in Subscribers : Offer(w, c) \/ Drop(w, c) \/ SendOnClosed(w, c)
    \/ Return(w)

Next ==
    \/ \E w \in Writers : Mutate(w) \/ Emit(w)
    \/ \E c \in Subscribers : Subscribe(c) \/ Unsubscribe(c) \/ Receive(c)

Spec == Init /\ [][Next]_vars

-----------------------------------------------------------------------------
(* Properties.                                                             *)

\* The state has its types.  What could go wrong is the label map of a stored
\* item: Upsert assigns into it, and a nil map there would panic under the lock.
TypeOK ==
    /\ items \in [Ids -> Item \union {NoItem}]
    /\ mu \in Writers \union {Free}
    /\ listeners \subseteq Subscribers
    /\ chan \in [Subscribers -> {"none", "open", "closed"}]
    /\ offered \in [Subscribers -> Seq(Event)]
    /\ taken \in [Subscribers -> Nat]
    /\ pc \in [Writers -> {"ready", "emit", "send"}]
    /\ cur \in [Writers -> Event \union {NoEvent}]
    /\ todo \in [Writers -> SUBSET Subscribers]
    /\ reply \in [Writers -> Replies]
    /\ log \in Seq(Event)
    /\ since \in [Subscribers -> Nat]
    /\ dropped \in [Subscribers -> SUBSET Nat]
    /\ cut \in SUBSET Nat

\* At most one writer is between its change and its return, the emission
\* included, and it is the one that holds the lock.
OneWriterInside ==
    \A w \in Writers : pc[w] # "ready" => mu = w /\ cur[w] = log[Len(log)]

\* What an event says of its item once it has happened.
After(e) == IF e.type = "DELETED" THEN NoItem ELSE e.item

\* Replaying the events of s, the last one about an identifier winning, gives m.
Rebuilds(s, m) == \A id \in Ids :
    \/ m[id] = NoItem /\ \A n \in 1 .. Len(s) : s[n].item.id # id
    \/ \E n \in 1 .. Len(s) :
          /\ s[n].item.id = id /\ m[id] = After(s[n])
          /\ \A k \in n + 1 .. Len(s) : s[k].item.id # id

\* The events handed to emit are a complete account of the map: replayed from
\* an empty store they give exactly the items stored now.
LogRebuildsItems == Rebuilds(log, items)

\* The last event of the log before the n-th about the same identifier.
Predecessor(n, k) ==
    /\ k \in 1 .. n - 1 /\ log[k].item.id = log[n].item.id
    /\ \A j \in k + 1 .. n - 1 : log[j].item.id # log[n].item.id

\* The life of an identifier, read off its events: it begins with CREATED at
\* version 1, each UPDATED is one version on and keeps the creation time,
\* DELETED carries the item as it was last stored, and only CREATED follows it.
LogIsWellFormed == \A n \in 1 .. Len(log) :
    LET e == log[n] IN
    \/ /\ e.type = "CREATED" /\ e.item.version = 1 /\ e.item.created = n
       /\ \A k \in 1 .. n - 1 : Predecessor(n, k) => log[k].type = "DELETED"
    \/ \E k \in 1 .. n - 1 :
          /\ Predecessor(n, k) /\ log[k].type # "DELETED"
          /\ \/ /\ e.type = "UPDATED"
                /\ e.item.version = log[k].item.version + 1
                /\ e.item.created = log[k].item.created
                /\ e.item.updated = n
             \/ e.type = "DELETED" /\ e.item = log[k].item

\* A subscriber gets events of the log in the order of the changes, none twice,
\* none from before it subscribed but the one being emitted at that moment.
FeedInOrder == \A c \in Subscribers :
    /\ \A i \in 1 .. Len(offered[c]) :
          offered[c][i].seq >= since[c] /\ offered[c][i] = log[offered[c][i].seq]
    /\ \A i, j \in 1 .. Len(offered[c]) :
          i < j => offered[c][i].seq < offered[c][j].seq

\* emit still owes the n-th event to the channel.
Pending(n, c) == \E w \in Writers :
    /\ pc[w] # "ready" /\ cur[w].seq = n
    /\ pc[w] = "emit" \/ c \in todo[w]

\* A change made while a channel was subscribed is in the channel, or still to
\* be sent, or was dropped because that channel was full, or its emission was
\* cut by a panic: one slow subscriber never costs another one an event.
NothingSilentlyLost == \A c \in listeners : \A n \in since[c] + 1 .. Len(log) :
    \/ \E i \in 1 .. Len(offered[c]) : offered[c][i].seq = n
    \/ n \in dropped[c] \union cut
    \/ Pending(n, c)

\* A subscriber that was there from the first change and lost nothing mirrors
\* the store: whenever no writer is inside, replaying its feed gives the items.
MirrorIsExact == \A c \in listeners :
    (since[c] = 0 /\ dropped[c] = {} /\ cut = {} /\ mu = Free)
        => Rebuilds(offered[c], items)

\* The store implements its abstract specification: the events handed to emit
\* are the history, what was put in a channel is the feed of its member.
Feed == INSTANCE ItemFeed WITH
    Members <- Subscribers, history <- log, joined <- since,
    members <- listeners, feed <- offered

\* Every step is a change of one item with its event, an event given to one
\* member, a member joining or leaving, or nothing its users can tell.
ImplementsFeed == Feed!Spec

\* "Store is a thread-safe in-memory item store with event emission."
\* (items.go:57): no call of its methods panics, however they interleave.
NoCallPanics == \A w \in Writers : reply[w] # "panicked"
=============================================================================
