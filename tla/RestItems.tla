----------------------------- MODULE RestItems -----------------------------
(***************************************************************************)
(* The item handlers of the REST server (internal/server/rest/server.go)   *)
(* over the store, each call of which is one step because it runs under    *)
(* mu: representations, their ETags, conditional requests, and clients     *)
(* that keep what they were last given and may not get an answer at all.   *)
(*                                                                         *)
(* A PUT with If-Match is two steps: the handler compares the tag of what  *)
(* store.Get returns, and then calls store.Update, which compares nothing. *)
(* Between them it is on its own: its client may have timed out, may send  *)
(* the same PUT again, to another handler, or any other request.           *)
(***************************************************************************)
EXTENDS ItemData

CONSTANTS
    Clients,
    Handlers,    \* the goroutines that serve a PUT with If-Match
    NoPut,       \* put[h] of a handler that has none past its check
    Bodies,      \* decoded request bodies
    MaxCommits   \* bound: changes committed in a behaviour

ASSUME RestAssumption == Bodies \subseteq Body /\ MaxCommits \in Nat
ASSUME NoPutAssumption ==
    NoPut \notin [client: Clients, matched: Item, body: Body, checked: Nat]

VARIABLES
    items,    \* items[id]: the stored item, or NoItem
    used,     \* identifiers ever stored: a new UUID is none of them
    rep,      \* rep[c]: the representation the client holds, or NoItem
    status,   \* status[c]: the status of its last response, 0 if none came
    put,      \* put[h]: the PUT past its If-Match check, with the representation
              \* whose tag it sent and the commits there were at the check, or NoPut
    \* history
    commits,  \* number of changes committed
    stored,   \* every item there ever was
    applied   \* the conditional PUTs applied: tag, commits at the check, and number

server == <<items, used, commits, stored>>
client == <<rep, status>>
handlers == <<put, applied>>
vars == <<server, client, handlers>>

Now == commits + 1

\* Mutant: the tag forgets the time of the update.
EtagOfVersion(item) == <<item.id, item.version>>

\* computeETag; that two different inputs hash alike is left out.
Etag(item) == <<item.id, item.version, item.updated>>

Init ==
    /\ items = [id \in Ids |-> NoItem]
    /\ used = {}
    /\ rep = [c \in Clients |-> NoItem]
    /\ status = [c \in Clients |-> 0]
    /\ put = [h \in Handlers |-> NoPut]
    /\ commits = 0
    /\ stored = {}
    /\ applied = {}

-----------------------------------------------------------------------------
\* The response reaches the client; with an item it is what the client holds.
Respond(c, code) ==
    /\ status' = [status EXCEPT ![c] = code]
    /\ UNCHANGED rep

RespondWith(c, code, item) ==
    /\ status' = [status EXCEPT ![c] = code]
    /\ rep' = [rep EXCEPT ![c] = item]

\* The change is made, and its response is delivered or lost on the way.
Lose(c) == status' = [status EXCEPT ![c] = 0] /\ UNCHANGED rep

\* Bound: a PUT checked when it is reached completes beyond it.
Fits == Now <= MaxCommits

Store(id, item) ==
    /\ commits' = Now
    /\ items' = [items EXCEPT ![id] = item]
    /\ used' = used \union {id}
    /\ stored' = stored \union {item}

\* GET /items/{id}
getItem(c, id) ==
    /\ \/ items[id] = NoItem /\ Respond(c, 404)
       \/ items[id] # NoItem /\ RespondWith(c, 200, items[id])
    /\ UNCHANGED <<server, handlers>>

\* GET with If-None-Match: the tag of what the client holds.
getItemIfNoneMatch(c) ==
    /\ rep[c] # NoItem
    /\ LET item == items[rep[c].id] IN
       \/ item = NoItem /\ Respond(c, 404)
       \/ item # NoItem /\ Etag(item) = Etag(rep[c]) /\ Respond(c, 304)
       \/ item # NoItem /\ Etag(item) # Etag(rep[c]) /\ RespondWith(c, 200, item)
    /\ UNCHANGED <<server, handlers>>

\* POST /items: the identifier is a new UUID, so Create finds no conflict.
createItem(c, id, body) ==
    /\ \/ body.name = NoName /\ Respond(c, 400) /\ UNCHANGED server
       \/ /\ body.name # NoName /\ id \notin used /\ Fits
          /\ LET new == Created(id, body, Now)
             IN  Store(id, new) /\ (RespondWith(c, 201, new) \/ Lose(c))
    /\ UNCHANGED handlers

\* PUT without If-Match.
updateItem(c, id, body) ==
    /\ \/ items[id] = NoItem /\ Respond(c, 404) /\ UNCHANGED server
       \/ /\ items[id] # NoItem /\ Fits
          /\ LET new == Replaced(items[id], body, Now)
             IN  Store(id, new) /\ (RespondWith(c, 200, new) \/ Lose(c))
    /\ UNCHANGED handlers

\* The PUT of c is past its check; the handler holds what it needs to go on.
Passes(c, h, body) ==
    /\ commits <= MaxCommits
    /\ put' = [put EXCEPT ![h] =
          [client |-> c, matched |-> rep[c], body |-> body, checked |-> commits]]
    /\ UNCHANGED <<client, applied>>

\* Mutant: If-Match only asks that there be an item.
checkAnyMatch(c, h, body) ==
    /\ put[h] = NoPut /\ rep[c] # NoItem
    /\ items[rep[c].id] # NoItem /\ Passes(c, h, body)
    /\ UNCHANGED server

\* PUT with If-Match, first step: the tag is compared with a copy of the item.
checkIfMatch(c, h, body) ==
    /\ put[h] = NoPut /\ rep[c] # NoItem
    /\ LET item == items[rep[c].id] IN
       \/ item = NoItem /\ Respond(c, 404) /\ UNCHANGED handlers
       \/ item # NoItem /\ Etag(item) # Etag(rep[c]) /\ Respond(c, 412) /\ UNCHANGED handlers
       \/ item # NoItem /\ Etag(item) = Etag(rep[c]) /\ Passes(c, h, body)
    /\ UNCHANGED server

\* PUT with If-Match, second step: the item there is now is replaced.
updateMatched(h) ==
    /\ put[h] # NoPut
    /\ LET c == put[h].client
           id == put[h].matched.id IN
       \/ /\ items[id] = NoItem
          /\ Respond(c, 404) \/ Lose(c)
          /\ UNCHANGED <<server, applied>>
       \/ /\ items[id] # NoItem
          /\ LET new == Replaced(items[id], put[h].body, Now)
             IN  Store(id, new) /\ (RespondWith(c, 200, new) \/ Lose(c))
          /\ applied' = applied \union
                {[tag |-> Etag(put[h].matched), checked |-> put[h].checked, at |-> Now]}
    /\ put' = [put EXCEPT ![h] = NoPut]

\* PATCH
upsertItem(c, id, body) ==
    /\ Fits
    /\ \/ /\ items[id] # NoItem
          /\ LET new == Merged(items[id], body, Now)
             IN  Store(id, new) /\ (RespondWith(c, 200, new) \/ Lose(c))
       \/ /\ items[id] = NoItem
          /\ LET new == Created(id, body, Now)
             IN  Store(id, new) /\ (RespondWith(c, 201, new) \/ Lose(c))
    /\ UNCHANGED handlers

\* DELETE
deleteItem(c, id) ==
    /\ \/ items[id] = NoItem /\ Respond(c, 404) /\ UNCHANGED server
       \/ /\ items[id] # NoItem /\ Fits
          /\ items' = [items EXCEPT ![id] = NoItem]
          /\ commits' = Now
          /\ Respond(c, 204) \/ Lose(c)
          /\ UNCHANGED <<used, stored>>
    /\ UNCHANGED handlers

\* A body that is empty or no JSON is refused before the store is called.
refuseBody(c) ==
    /\ Respond(c, 400)
    /\ UNCHANGED <<server, handlers>>

Request(c) ==
    \/ \E id \in Ids :
          \/ getItem(c, id) \/ deleteItem(c, id)
          \/ \E body \in Bodies :
                createItem(c, id, body) \/ updateItem(c, id, body) \/ upsertItem(c, id, body)
    \/ \E h \in Handlers, body \in Bodies : checkIfMatch(c, h, body)
    \/ getItemIfNoneMatch(c) \/ refuseBody(c)

Next == (\E c \in Clients : Request(c)) \/ (\E h \in Handlers : updateMatched(h))

Spec == Init /\ [][Next]_vars

-----------------------------------------------------------------------------
\* Types; what is stored, held by a client or matched by a PUT was stored, and
\* a PUT was checked before now.
TypeOK ==
    /\ items \in [Ids -> Item \union {NoItem}]
    /\ used \subseteq Ids
    /\ rep \in [Clients -> stored \union {NoItem}]
    /\ status \in [Clients -> {0, 200, 201, 204, 304, 400, 404, 412}]
    /\ put \in [Handlers -> {NoPut} \union
          [client: Clients, matched: stored, body: Body, checked: 0 .. commits]]
    /\ commits \in Nat
    /\ stored \subseteq Item
    /\ \A id \in Ids : items[id] # NoItem => items[id] \in stored

\* A tag names one representation for ever: of all the items there ever were,
\* a deleted and recreated identifier included, no two different ones share it.
EtagNamesOneItem == \A x, y \in stored : Etag(x) = Etag(y) => x = y

\* "304 if unchanged" (README.md:57): the client told that its copy is current
\* holds exactly the item stored, not one like it from before a delete.
NotModifiedIsCurrent == [][\A c \in Clients :
    getItemIfNoneMatch(c) /\ status'[c] = 304 => rep[c] = items[rep[c].id]]_vars

\* A conditional PUT never replaces something older than its check other than
\* what the client matched: a tag stale before the request is always refused.
StaleTagsAreRefused == [][\A h \in Handlers :
    LET prev == items[put[h].matched.id]
    IN  updateMatched(h) /\ prev # NoItem /\ prev.updated <= put[h].checked
            => prev = put[h].matched]_vars

\* A PUT sent again, its first answer late or lost, or sent by another client
\* under the same tag, is applied too only if each of the two passed its check
\* before the other was applied: once one is, every later one is refused.
SharedTagsOverlapped == \A a, b \in applied : a.tag = b.tag => a.checked < b.at

\* "conditional requests" (README.md:46), "Update with stale ETag (should
\* fail)" (rest/server_test.go:269): a PUT that succeeds under If-Match replaces
\* the representation the client matched.
ConditionalPutReplacesMatched == [][\A h \in Handlers :
    updateMatched(h) /\ items[put[h].matched.id] # NoItem
        => items[put[h].matched.id] = put[h].matched]_vars
=============================================================================
