----------------------------- MODULE RestProofs -----------------------------
(***************************************************************************)
(* What holds of the REST item handlers for every number of clients, items *)
(* and changes, and of conditional PUTs served at the same time: entity    *)
(* tags name one representation, a tag stale before the request is refused, *)
(* and two PUTs are applied under one tag only if they overlapped.         *)
(***************************************************************************)
EXTENDS RestItems, TLAPS

LEMMA OrEmptyType ==
    ASSUME NEW labels \in LabelMaps \union {NilLabels}
    PROVE  OrEmpty(labels) \in LabelMaps
BY DEF OrEmpty, NoLabels, LabelMaps

\* What the pure operations make of an item: its identifier and the time of the
\* change are what the handlers rely on.
LEMMA CreatedItem ==
    ASSUME NEW id \in Ids, NEW body \in Body, NEW now \in Nat \ {0}
    PROVE  /\ Created(id, body, now) \in Item
           /\ Created(id, body, now).id = id /\ Created(id, body, now).updated = now
<1>1. OrEmpty(body.labels) \in LabelMaps
  BY OrEmptyType DEF Body
<1>2. QED
  BY <1>1 DEF Created, Item, Body

LEMMA ReplacedItem ==
    ASSUME NEW old \in Item, NEW body \in Body, NEW now \in Nat \ {0}
    PROVE  /\ Replaced(old, body, now) \in Item
           /\ Replaced(old, body, now).id = old.id /\ Replaced(old, body, now).updated = now
<1>1. OrEmpty(body.labels) \in LabelMaps
  BY OrEmptyType DEF Body
<1>2. QED
  BY <1>1 DEF Replaced, Item, Body

LEMMA MergedItem ==
    ASSUME NEW old \in Item, NEW body \in Body, NEW now \in Nat \ {0}
    PROVE  /\ Merged(old, body, now) \in Item
           /\ Merged(old, body, now).id = old.id /\ Merged(old, body, now).updated = now
<1>1. Overlay(OrEmpty(body.labels), old.labels) \in LabelMaps
  BY OrEmptyType DEF Overlay, LabelMaps, Item, Body
<1>2. QED
  BY <1>1 DEF Merged, Item, Body

-----------------------------------------------------------------------------
(* The invariant.                                                          *)

\* An item is stored under its own identifier.
Keyed == \A id \in Ids : items[id] # NoItem => items[id].id = id

\* No two items were stored by the same change, and none by a later one.
OneItemPerChange ==
    /\ \A x \in stored : x.updated <= commits
    /\ \A x, y \in stored : x.updated = y.updated => x = y

\* What a PUT matched is still there, or is gone, or was replaced after its
\* check, and what was applied under the tag it sent was applied after it, too.
MatchedOrNewer == \A h \in Handlers : put[h] # NoPut =>
    LET item == items[put[h].matched.id]
    IN  /\ item = NoItem \/ item = put[h].matched \/ item.updated > put[h].checked
        /\ \A a \in applied : a.tag = Etag(put[h].matched) => put[h].checked < a.at

\* A tag under which a PUT was applied is the tag of nothing stored now.
AppliedTagsAreOld ==
    /\ \A a \in applied : \E x \in stored : a.tag = Etag(x)
    /\ \A id \in Ids, a \in applied : items[id] # NoItem => Etag(items[id]) # a.tag

\* A PUT is applied by a change after its check, made before now.
AppliedAfterCheck == \A a \in applied :
    a.checked \in Nat /\ a.at \in Nat /\ a.checked < a.at /\ a.at <= commits

ServerInv ==
    /\ items \in [Ids -> Item \union {NoItem}] /\ used \subseteq Ids
    /\ commits \in Nat /\ stored \subseteq Item
    /\ \A id \in Ids : items[id] # NoItem => items[id] \in stored
    /\ Keyed /\ OneItemPerChange

IInv == /\ TypeOK /\ ServerInv /\ MatchedOrNewer /\ AppliedTagsAreOld /\ AppliedAfterCheck
        /\ SharedTagsOverlapped

\* A tag tells the identifier and the change it is from.
LEMMA TagTells ==
    ASSUME NEW x, NEW y, Etag(x) = Etag(y)
    PROVE  x.id = y.id /\ x.updated = y.updated
BY DEF Etag

LEMMA TagsDiffer ==
    ASSUME ServerInv, NEW x \in stored, NEW y \in stored, Etag(x) = Etag(y)
    PROVE  x = y
BY TagTells DEF ServerInv, OneItemPerChange

LEMMA Initially == Init => IInv
BY DEF Init, IInv, TypeOK, ServerInv, Keyed, OneItemPerChange, MatchedOrNewer,
       AppliedTagsAreOld, AppliedAfterCheck, SharedTagsOverlapped

\* What a handler holds past the check.
LEMMA HeldPut ==
    ASSUME IInv, NEW h \in Handlers, put[h] # NoPut
    PROVE  /\ put[h].client \in Clients /\ put[h].body \in Body
           /\ put[h].matched \in stored /\ put[h].matched \in Item
           /\ put[h].matched.id \in Ids
           /\ put[h].checked \in Nat /\ put[h].checked <= commits
BY DEF IInv, TypeOK, Item

-----------------------------------------------------------------------------
(* The effects a step can have.                                            *)

\* A change of the store: item becomes what is stored under id.
Stores(id, item) ==
    item \in Item /\ item.id = id /\ item.updated = Now /\ Store(id, item)

\* The client's last answer and what it holds after it.
Holds(c, item) ==
    /\ status' \in [Clients -> {0, 200, 201, 204, 304, 400, 404, 412}]
    /\ rep' = rep \/ rep' = [rep EXCEPT ![c] = item]

LEMMA StoreServer ==
    ASSUME ServerInv, NEW id \in Ids, NEW item, Stores(id, item)
    PROVE  /\ ServerInv' /\ items'[id] = item /\ item \in stored'
           /\ stored \subseteq stored' /\ item \notin stored /\ item # NoItem
           /\ \A other \in Ids \ {id} : items'[other] = items[other]
<1>1. /\ commits' = commits + 1 /\ item.updated = commits + 1 /\ commits \in Nat
      /\ items' = [items EXCEPT ![id] = item] /\ stored' = stored \union {item}
      /\ used' = used \union {id} /\ item \in Item /\ item.id = id
  BY DEF Stores, Store, Now, ServerInv
<1>2. item \notin stored /\ \A x \in stored : x.updated \in Nat /\ x.updated <= commits
  BY <1>1 DEF ServerInv, OneItemPerChange, Item
<1>3. OneItemPerChange'
  BY <1>1, <1>2 DEF ServerInv, OneItemPerChange
<1>4. item # NoItem
  BY <1>1, NoItemAssumption
<1>5. Keyed' /\ \A x \in Ids : items'[x] # NoItem => items'[x] \in stored'
  BY <1>1 DEF ServerInv, Keyed
<1>6. QED
  BY <1>1, <1>2, <1>3, <1>4, <1>5 DEF ServerInv

\* Something newer than all the PUTs under way and all that was applied is
\* stored, and they stay as they were.
LEMMA StoreKeepsPuts ==
    ASSUME IInv, NEW id \in Ids, NEW item, Stores(id, item)
    PROVE  \A h \in Handlers : put[h] # NoPut =>
               LET now == items'[put[h].matched.id]
               IN  now = NoItem \/ now = put[h].matched \/ now.updated > put[h].checked
<1>1. SUFFICES ASSUME NEW h \in Handlers, put[h] # NoPut
               PROVE  \/ items'[put[h].matched.id] = NoItem
                      \/ items'[put[h].matched.id] = put[h].matched
                      \/ items'[put[h].matched.id].updated > put[h].checked
  OBVIOUS
<1>2. put[h].matched.id \in Ids /\ put[h].checked \in Nat /\ put[h].checked <= commits
  BY <1>1, HeldPut
<1>3. /\ items'[id] = item /\ item.updated = commits + 1 /\ commits \in Nat
      /\ \A other \in Ids \ {id} : items'[other] = items[other]
  BY StoreServer DEF IInv, Stores, Now, TypeOK
<1>4. QED
  BY <1>1, <1>2, <1>3 DEF IInv, MatchedOrNewer

LEMMA StoreKeepsTags ==
    ASSUME IInv, NEW id \in Ids, NEW item, Stores(id, item)
    PROVE  /\ \A a \in applied : \E x \in stored' : a.tag = Etag(x)
           /\ \A other \in Ids, a \in applied : items'[other] # NoItem => Etag(items'[other]) # a.tag
<1>1. /\ items'[id] = item /\ item.updated = commits + 1 /\ commits \in Nat
      /\ stored \subseteq stored' /\ \A other \in Ids \ {id} : items'[other] = items[other]
  BY StoreServer DEF IInv, Stores, Now, TypeOK
<1>2. \A x \in stored : Etag(x) # Etag(item)
  <2>1. \A x \in stored : x.updated \in Nat /\ x.updated <= commits
    BY DEF IInv, ServerInv, OneItemPerChange, Item
  <2>2. QED
    BY <1>1, <2>1, TagTells
<1>3. \A a \in applied : \E x \in stored : a.tag = Etag(x)
  BY DEF IInv, AppliedTagsAreOld
<1>4. \A a \in applied : a.tag # Etag(item)
  BY <1>2, <1>3
<1>5. \A other \in Ids \ {id}, a \in applied : items[other] # NoItem => Etag(items[other]) # a.tag
  BY DEF IInv, AppliedTagsAreOld
<1>6. \A a \in applied : \E x \in stored' : a.tag = Etag(x)
  BY <1>1, <1>3
<1>7. QED
  BY <1>1, <1>4, <1>5, <1>6

\* The types after a change, of what handlers hold and clients are given.
LEMMA StoreKeepsTypes ==
    ASSUME IInv, NEW c \in Clients, NEW id \in Ids, NEW item, Stores(id, item), Holds(c, item),
           \A h \in Handlers : put'[h] \in {put[h], NoPut},
           put' \in [Handlers -> {put'[h] : h \in Handlers}]
    PROVE  TypeOK'
<1>1. /\ ServerInv' /\ item \in stored' /\ stored \subseteq stored'
      /\ commits' = commits + 1 /\ commits \in Nat
  BY StoreServer DEF IInv, Stores, Store, Now, TypeOK
<1>2. rep' \in [Clients -> stored' \union {NoItem}]
  BY <1>1 DEF Holds, IInv, TypeOK
<1>3. ASSUME NEW h \in Handlers
      PROVE  put'[h] \in {NoPut} \union
                 [client: Clients, matched: stored', body: Body, checked: 0 .. commits']
  BY <1>1 DEF IInv, TypeOK
<1>4. put' \in [Handlers -> {NoPut} \union
                 [client: Clients, matched: stored', body: Body, checked: 0 .. commits']]
  BY <1>3
<1>5. QED
  BY <1>1, <1>2, <1>4 DEF Holds, TypeOK, ServerInv

\* Item is stored by a request that is not conditional.
LEMMA StoreKeeps ==
    ASSUME IInv, NEW c \in Clients, NEW id \in Ids, NEW item,
           Stores(id, item), Holds(c, item), UNCHANGED handlers
    PROVE  IInv'
<1>1. UNCHANGED <<put, applied>> /\ commits' = commits + 1 /\ commits \in Nat
  BY DEF handlers, Stores, Store, Now, IInv, TypeOK
<1>2. ServerInv'
  BY StoreServer DEF IInv
<1>3. TypeOK'
  <2>1. put' \in [Handlers -> {put'[h] : h \in Handlers}]
    BY <1>1 DEF IInv, TypeOK
  <2>2. QED
    BY <1>1, <2>1, StoreKeepsTypes
<1>4. MatchedOrNewer'
  BY <1>1, StoreKeepsPuts DEF IInv, MatchedOrNewer, Etag
<1>5. AppliedTagsAreOld'
  BY <1>1, StoreKeepsTags DEF AppliedTagsAreOld, Etag
<1>6. AppliedAfterCheck' /\ SharedTagsOverlapped'
  BY <1>1 DEF IInv, AppliedAfterCheck, SharedTagsOverlapped
<1>7. QED
  BY <1>2, <1>3, <1>4, <1>5, <1>6 DEF IInv

\* Nothing is changed by the request.
LEMMA ReadKeeps ==
    ASSUME IInv, NEW c \in Clients, NEW item \in stored \union {NoItem},
           UNCHANGED <<server, handlers>>, Holds(c, item)
    PROVE  IInv'
<1>1. UNCHANGED <<items, used, commits, stored, put, applied>>
  BY DEF server, handlers
<1>2. rep' \in [Clients -> stored \union {NoItem}]
  BY DEF Holds, IInv, TypeOK
<1>3. TypeOK'
  BY <1>1, <1>2 DEF Holds, IInv, TypeOK
<1>4. ServerInv' /\ AppliedTagsAreOld' /\ MatchedOrNewer'
  BY <1>1 DEF IInv, ServerInv, Keyed, OneItemPerChange, AppliedTagsAreOld, MatchedOrNewer, Etag
<1>5. AppliedAfterCheck' /\ SharedTagsOverlapped'
  BY <1>1 DEF IInv, AppliedAfterCheck, SharedTagsOverlapped
<1>6. QED
  BY <1>3, <1>4, <1>5 DEF IInv

-----------------------------------------------------------------------------
(* One lemma per handler.                                                  *)

LEMMA GetKeeps ==
    ASSUME IInv, NEW c \in Clients, NEW id \in Ids, getItem(c, id)
    PROVE  IInv'
<1>1. items[id] \in stored \union {NoItem}
  BY DEF IInv, TypeOK
<1>2. Holds(c, items[id])
  BY DEF getItem, Respond, RespondWith, Holds, IInv, TypeOK
<1>3. QED
  BY <1>1, <1>2, ReadKeeps DEF getItem

LEMMA GetIfNoneMatchKeeps ==
    ASSUME IInv, NEW c \in Clients, getItemIfNoneMatch(c)
    PROVE  IInv'
<1>1. rep[c].id \in Ids
  BY DEF getItemIfNoneMatch, IInv, TypeOK, Item
<1>2. items[rep[c].id] \in stored \union {NoItem}
  BY <1>1 DEF IInv, TypeOK
<1>3. Holds(c, items[rep[c].id])
  BY DEF getItemIfNoneMatch, Respond, RespondWith, Holds, IInv, TypeOK
<1>4. QED
  BY <1>2, <1>3, ReadKeeps DEF getItemIfNoneMatch

\* An answer without an item, before or instead of a change.
LEMMA RefusalKeeps ==
    ASSUME IInv, NEW c \in Clients, NEW code \in {400, 404, 412},
           Respond(c, code) \/ Lose(c), UNCHANGED <<server, handlers>>
    PROVE  IInv'
<1>1. Holds(c, NoItem)
  BY DEF Respond, Lose, Holds, IInv, TypeOK
<1>2. QED
  BY <1>1, ReadKeeps

\* The three ways a body changes what is stored, answered or not.
LEMMA NewItemKeeps ==
    ASSUME IInv, NEW c \in Clients, NEW id \in Ids, NEW body \in Bodies, NEW item,
           NEW code \in {200, 201}, UNCHANGED handlers, Store(id, item),
           RespondWith(c, code, item) \/ Lose(c),
           \/ item = Created(id, body, Now)
           \/ items[id] # NoItem /\ item = Replaced(items[id], body, Now)
           \/ items[id] # NoItem /\ item = Merged(items[id], body, Now)
    PROVE  IInv'
<1>1. body \in Body /\ Now \in Nat \ {0}
  BY RestAssumption DEF IInv, TypeOK, Now
<1>2. items[id] # NoItem => items[id] \in Item /\ items[id].id = id
  BY DEF IInv, ServerInv, Keyed
<1>3. item \in Item /\ item.id = id /\ item.updated = Now
  BY <1>1, <1>2, CreatedItem, ReplacedItem, MergedItem
<1>4. Holds(c, item)
  BY DEF RespondWith, Lose, Holds, IInv, TypeOK
<1>5. QED
  BY <1>3, <1>4, StoreKeeps DEF Stores

LEMMA WriteKeeps ==
    ASSUME IInv, NEW c \in Clients, NEW id \in Ids, NEW body \in Bodies,
           createItem(c, id, body) \/ updateItem(c, id, body) \/ upsertItem(c, id, body)
    PROVE  IInv'
<1>1. CASE createItem(c, id, body)
  <2>1. CASE Respond(c, 400) /\ UNCHANGED server
    BY <1>1, <2>1, RefusalKeeps DEF createItem
  <2>2. CASE LET new == Created(id, body, Now)
             IN  Store(id, new) /\ (RespondWith(c, 201, new) \/ Lose(c))
    BY <1>1, <2>2, NewItemKeeps DEF createItem
  <2>3. QED
    BY <1>1, <2>1, <2>2 DEF createItem
<1>2. CASE updateItem(c, id, body)
  <2>1. CASE Respond(c, 404) /\ UNCHANGED server
    BY <1>2, <2>1, RefusalKeeps DEF updateItem
  <2>2. CASE /\ items[id] # NoItem
             /\ LET new == Replaced(items[id], body, Now)
                IN  Store(id, new) /\ (RespondWith(c, 200, new) \/ Lose(c))
    BY <1>2, <2>2, NewItemKeeps DEF updateItem
  <2>3. QED
    BY <1>2, <2>1, <2>2 DEF updateItem
<1>3. CASE upsertItem(c, id, body)
  <2>1. CASE /\ items[id] # NoItem
             /\ LET new == Merged(items[id], body, Now)
                IN  Store(id, new) /\ (RespondWith(c, 200, new) \/ Lose(c))
    BY <1>3, <2>1, NewItemKeeps DEF upsertItem
  <2>2. CASE LET new == Created(id, body, Now)
             IN  Store(id, new) /\ (RespondWith(c, 201, new) \/ Lose(c))
    BY <1>3, <2>2, NewItemKeeps DEF upsertItem
  <2>3. QED
    BY <1>3, <2>1, <2>2 DEF upsertItem
<1>4. QED
  BY <1>1, <1>2, <1>3

LEMMA DeleteKeeps ==
    ASSUME IInv, NEW c \in Clients, NEW id \in Ids, deleteItem(c, id)
    PROVE  IInv'
<1>1. CASE Respond(c, 404) /\ UNCHANGED server
  BY <1>1, RefusalKeeps DEF deleteItem
<1>2. CASE items[id] # NoItem
  <2>1. /\ items' = [items EXCEPT ![id] = NoItem] /\ commits' = commits + 1
        /\ UNCHANGED <<used, stored, rep, put, applied>>
        /\ status' \in [Clients -> {0, 200, 201, 204, 304, 400, 404, 412}]
    BY <1>2 DEF deleteItem, Now, Respond, Lose, handlers, IInv, TypeOK
  <2>2. commits \in Nat /\ \A x \in stored : x.updated \in Nat
    BY DEF IInv, TypeOK, Item
  <2>3. \A x \in Ids : items'[x] = NoItem \/ items'[x] = items[x]
    BY <2>1 DEF IInv, TypeOK
  <2>4. TypeOK'
    <3>1. ASSUME NEW h \in Handlers
          PROVE  put[h] \in {NoPut} \union
                     [client: Clients, matched: stored, body: Body, checked: 0 .. commits']
      BY <2>1, <2>2 DEF IInv, TypeOK
    <3>2. put' \in [Handlers -> {NoPut} \union
                     [client: Clients, matched: stored, body: Body, checked: 0 .. commits']]
      BY <2>1, <3>1 DEF IInv, TypeOK
    <3>3. QED
      BY <2>1, <2>2, <2>3, <3>2 DEF IInv, TypeOK
  <2>5. ServerInv'
    BY <2>1, <2>2, <2>3 DEF IInv, ServerInv, Keyed, OneItemPerChange
  <2>6. AppliedTagsAreOld' /\ AppliedAfterCheck' /\ SharedTagsOverlapped'
    BY <2>1, <2>2, <2>3 DEF IInv, AppliedTagsAreOld, AppliedAfterCheck, SharedTagsOverlapped, Etag
  <2>7. MatchedOrNewer'
    <3>1. \A h \in Handlers : put[h] # NoPut => put[h].matched.id \in Ids
      BY HeldPut
    <3>2. QED
      BY <2>1, <2>3, <3>1 DEF IInv, MatchedOrNewer, Etag
  <2>8. QED
    BY <2>4, <2>5, <2>6, <2>7 DEF IInv
<1>3. QED
  BY <1>1, <1>2 DEF deleteItem

\* What passes the check is what is stored, under whose tag nothing was applied.
LEMMA CheckKeeps ==
    ASSUME IInv, NEW c \in Clients, NEW h \in Handlers, NEW body \in Bodies,
           checkIfMatch(c, h, body)
    PROVE  IInv'
<1>0. rep[c] # NoItem /\ rep[c] \in stored /\ rep[c].id \in Ids /\ body \in Body
  BY RestAssumption DEF checkIfMatch, IInv, TypeOK, Item
<1>1. CASE UNCHANGED handlers /\ (Respond(c, 404) \/ Respond(c, 412))
  BY <1>1, RefusalKeeps DEF checkIfMatch
<1>2. CASE /\ items[rep[c].id] # NoItem /\ Etag(items[rep[c].id]) = Etag(rep[c])
           /\ Passes(c, h, body)
  <2>1. items[rep[c].id] = rep[c]
    BY <1>0, <1>2, TagsDiffer DEF IInv, ServerInv
  <2>2. \A a \in applied : a.tag # Etag(rep[c])
    BY <1>0, <1>2 DEF IInv, AppliedTagsAreOld
  <2>3. UNCHANGED <<items, used, commits, stored, rep, status, applied>>
    BY <1>2 DEF checkIfMatch, Passes, server, client
  <2> DEFINE p == [client |-> c, matched |-> rep[c], body |-> body, checked |-> commits]
  <2>4. put' = [put EXCEPT ![h] = p]
    BY <1>2 DEF Passes
  <2>5. TypeOK'
    <3>1. p \in [client: Clients, matched: stored, body: Body, checked: 0 .. commits]
      BY <1>0 DEF IInv, TypeOK
    <3> HIDE DEF p
    <3>2. QED
      BY <2>3, <2>4, <3>1 DEF IInv, TypeOK
  <2>6. MatchedOrNewer'
    <3>1. p.matched = rep[c]
      OBVIOUS
    <3> HIDE DEF p
    <3>2. /\ put'[h] = p /\ \A g \in Handlers \ {h} : put'[g] = put[g]
      BY <2>4 DEF IInv, TypeOK
    <3>3. QED
      BY <2>1, <2>2, <2>3, <3>1, <3>2 DEF IInv, MatchedOrNewer, Etag
  <2>7. ServerInv' /\ AppliedTagsAreOld' /\ AppliedAfterCheck' /\ SharedTagsOverlapped'
    BY <2>3 DEF IInv, ServerInv, Keyed, OneItemPerChange, AppliedTagsAreOld,
                AppliedAfterCheck, SharedTagsOverlapped, Etag
  <2>8. QED
    BY <2>5, <2>6, <2>7 DEF IInv
<1>3. QED
  BY <1>1, <1>2 DEF checkIfMatch

\* A PUT that ends leaves those of the other handlers as they were.
LEMMA PutsLeft ==
    ASSUME IInv, NEW h \in Handlers, put' = [put EXCEPT ![h] = NoPut]
    PROVE  /\ put'[h] = NoPut /\ \A g \in Handlers \ {h} : put'[g] = put[g]
           /\ put' \in [Handlers -> {put'[g] : g \in Handlers}]
BY DEF IInv, TypeOK

\* A PUT that is applied is the latest change, made after its own check, and
\* after those of the PUTs under way; what was applied under its tag before was
\* applied after its check.
LEMMA ApplyKeeps ==
    ASSUME IInv, NEW h \in Handlers, NEW c, NEW id, NEW item, put[h] # NoPut,
           c = put[h].client, id = put[h].matched.id, items[id] # NoItem,
           item = Replaced(items[id], put[h].body, Now), Store(id, item),
           RespondWith(c, 200, item) \/ Lose(c),
           applied' = applied \union
               {[tag |-> Etag(put[h].matched), checked |-> put[h].checked, at |-> Now]},
           put' = [put EXCEPT ![h] = NoPut]
    PROVE  IInv'
<1> DEFINE m == put[h].matched
           a0 == [tag |-> Etag(m), checked |-> put[h].checked, at |-> Now]
<1>1. /\ c \in Clients /\ put[h].body \in Body /\ m \in stored /\ id \in Ids
      /\ put[h].checked \in Nat /\ put[h].checked <= commits
  BY HeldPut
<1>2. items[id] \in Item /\ items[id].id = id /\ items[id] \in stored
      /\ Now \in Nat \ {0} /\ commits \in Nat /\ Now = commits + 1
  BY <1>1 DEF IInv, ServerInv, Keyed, Now
<1>3. Stores(id, item)
  BY <1>1, <1>2, ReplacedItem DEF Stores
<1>4. Holds(c, item)
  BY <1>1 DEF RespondWith, Lose, Holds, IInv, TypeOK
<1>5. /\ ServerInv' /\ item \in stored' /\ stored \subseteq stored' /\ items'[id] = item
      /\ \A other \in Ids \ {id} : items'[other] = items[other]
      /\ commits' = commits + 1
  BY <1>1, <1>2, <1>3, StoreServer DEF IInv, Stores, Store
<1>6. /\ put'[h] = NoPut /\ \A g \in Handlers \ {h} : put'[g] = put[g]
      /\ put' \in [Handlers -> {put'[g] : g \in Handlers}]
  BY PutsLeft
<1>7. TypeOK'
  <2>1. \A g \in Handlers : put'[g] \in {put[g], NoPut}
    BY <1>6
  <2>2. QED
    BY <1>1, <1>3, <1>4, <1>6, <2>1, StoreKeepsTypes
<1>8. applied' = applied \union {a0} /\ a0.tag = Etag(m) /\ a0.checked = put[h].checked /\ a0.at = Now
  OBVIOUS
<1> HIDE DEF a0
<1>9. AppliedAfterCheck'
  BY <1>1, <1>2, <1>5, <1>8 DEF IInv, AppliedAfterCheck
<1>10. SharedTagsOverlapped'
  <2>1. \A b \in applied : b.tag = Etag(m) => a0.checked < b.at
    BY <1>8 DEF IInv, MatchedOrNewer
  <2>2. \A b \in applied : b.checked < a0.at
    BY <1>2, <1>8 DEF IInv, AppliedAfterCheck
  <2>3. a0.checked < a0.at
    BY <1>1, <1>2, <1>8
  <2>4. QED
    BY <1>8, <2>1, <2>2, <2>3 DEF IInv, SharedTagsOverlapped
<1>11. AppliedTagsAreOld'
  <2>1. Etag(item) # Etag(m)
    <3>1. item.updated = Now /\ m.updated \in Nat /\ m.updated <= commits
      BY <1>1, <1>3 DEF Stores, IInv, ServerInv, OneItemPerChange, Item
    <3>2. QED
      BY <1>2, <3>1, TagTells
  <2>2. ASSUME NEW other \in Ids \ {id}, items'[other] # NoItem
        PROVE  Etag(items'[other]) # Etag(m)
    <3>1. items'[other] = items[other] /\ items[other].id = other
      BY <1>5, <2>2 DEF IInv, ServerInv, Keyed
    <3>2. QED
      BY <3>1, TagTells
  <2>3. /\ \A b \in applied : \E x \in stored' : b.tag = Etag(x)
        /\ \A other \in Ids, b \in applied : items'[other] # NoItem => Etag(items'[other]) # b.tag
    BY <1>1, <1>3, StoreKeepsTags
  <2>4. \E x \in stored' : a0.tag = Etag(x)
    BY <1>1, <1>5, <1>8
  <2>5. \A other \in Ids : items'[other] # NoItem => Etag(items'[other]) # a0.tag
    BY <1>1, <1>5, <1>8, <2>1, <2>2
  <2>6. QED
    BY <1>8, <2>3, <2>4, <2>5 DEF AppliedTagsAreOld, Etag
<1>12. MatchedOrNewer'
  <2>1. SUFFICES ASSUME NEW g \in Handlers \ {h}, put[g] # NoPut
                 PROVE  /\ \/ items'[put[g].matched.id] = NoItem
                           \/ items'[put[g].matched.id] = put[g].matched
                           \/ items'[put[g].matched.id].updated > put[g].checked
                        /\ \A a \in applied' : a.tag = Etag(put[g].matched) => put[g].checked < a.at
    BY <1>6 DEF MatchedOrNewer, Etag
  <2>2. put[g].checked < a0.at
    BY <1>2, <1>8, <2>1, HeldPut
  <2>3. \A a \in applied : a.tag = Etag(put[g].matched) => put[g].checked < a.at
    BY <2>1 DEF IInv, MatchedOrNewer
  <2>4. QED
    BY <1>1, <1>3, <1>8, <2>1, <2>2, <2>3, StoreKeepsPuts
<1>13. QED
  BY <1>5, <1>7, <1>9, <1>10, <1>11, <1>12 DEF IInv

\* The item is gone: nothing is applied.
LEMMA GivesUpKeeps ==
    ASSUME IInv, NEW h \in Handlers, put[h] # NoPut,
           Respond(put[h].client, 404) \/ Lose(put[h].client), UNCHANGED <<server, applied>>,
           put' = [put EXCEPT ![h] = NoPut]
    PROVE  IInv'
<1>1. UNCHANGED <<items, used, commits, stored, applied, rep>>
  BY DEF server, Respond, Lose
<1>2. /\ put'[h] = NoPut /\ \A g \in Handlers \ {h} : put'[g] = put[g]
  BY PutsLeft
<1>3. TypeOK'
  <2>1. put' \in [Handlers -> {NoPut} \union
                    [client: Clients, matched: stored, body: Body, checked: 0 .. commits]]
    BY DEF IInv, TypeOK
  <2>2. status' \in [Clients -> {0, 200, 201, 204, 304, 400, 404, 412}]
    BY DEF Respond, Lose, IInv, TypeOK
  <2>3. QED
    BY <1>1, <2>1, <2>2 DEF IInv, TypeOK
<1>4. MatchedOrNewer'
  BY <1>1, <1>2 DEF IInv, MatchedOrNewer, Etag
<1>5. ServerInv' /\ AppliedTagsAreOld' /\ AppliedAfterCheck' /\ SharedTagsOverlapped'
  BY <1>1 DEF IInv, ServerInv, Keyed, OneItemPerChange, AppliedTagsAreOld,
              AppliedAfterCheck, SharedTagsOverlapped, Etag
<1>6. QED
  BY <1>3, <1>4, <1>5 DEF IInv

LEMMA UpdateMatchedKeeps ==
    ASSUME IInv, NEW h \in Handlers, updateMatched(h)
    PROVE  IInv'
BY ApplyKeeps, GivesUpKeeps DEF updateMatched

LEMMA EveryStepKeeps ==
    ASSUME IInv, [Next]_vars
    PROVE  IInv'
<1>1. ASSUME NEW c \in Clients, refuseBody(c)
      PROVE  IInv'
  BY <1>1, RefusalKeeps DEF refuseBody
<1>2. CASE UNCHANGED vars
  BY <1>2 DEF vars, server, client, handlers, IInv, TypeOK, ServerInv, Keyed, OneItemPerChange,
              MatchedOrNewer, AppliedTagsAreOld, AppliedAfterCheck, SharedTagsOverlapped, Etag
<1>3. QED
  BY <1>1, <1>2, GetKeeps, GetIfNoneMatchKeeps, WriteKeeps, DeleteKeeps, CheckKeeps,
     UpdateMatchedKeeps DEF Next, Request

LEMMA RestInvariant == Spec => []IInv
BY Initially, EveryStepKeeps, PTL DEF Spec

-----------------------------------------------------------------------------
\* What clients hold, what conditional PUTs matched and what is stored was
\* stored once, however many PUTs are under way at the same time.
THEOREM RestTypes == Spec => []TypeOK
<1>1. IInv => TypeOK
  BY DEF IInv
<1>2. QED
  BY <1>1, RestInvariant, PTL

\* Of all the items there ever were, however often an identifier was deleted
\* and used again, no two different ones share a tag.
THEOREM TagsNameOneItem == Spec => []EtagNamesOneItem
<1>1. IInv => EtagNamesOneItem
  BY TagsDiffer DEF IInv, EtagNamesOneItem
<1>2. QED
  BY <1>1, RestInvariant, PTL

\* For any number of clients: the one told 304 holds exactly what is stored.
THEOREM NotModifiedIsTrue == Spec => NotModifiedIsCurrent
<1>1. ASSUME IInv, [Next]_vars, NEW c \in Clients, getItemIfNoneMatch(c), status'[c] = 304
      PROVE  rep[c] = items[rep[c].id]
  <2>1. rep[c] # NoItem /\ rep[c] \in stored /\ rep[c].id \in Ids
    BY <1>1 DEF getItemIfNoneMatch, IInv, TypeOK, Item
  <2>2. items[rep[c].id] # NoItem /\ Etag(items[rep[c].id]) = Etag(rep[c])
    BY <1>1, <2>1 DEF getItemIfNoneMatch, Respond, RespondWith, IInv, TypeOK
  <2>3. QED
    BY <1>1, <2>1, <2>2, TagsDiffer DEF IInv, ServerInv
<1>2. IInv /\ [Next]_vars =>
        [\A c \in Clients : getItemIfNoneMatch(c) /\ status'[c] = 304 => rep[c] = items[rep[c].id]]_vars
  BY <1>1
<1>3. QED
  BY <1>2, RestInvariant, PTL DEF Spec, NotModifiedIsCurrent

\* A conditional PUT replaces what the client matched or what was stored after
\* its check, for any number of clients and changes in between.
THEOREM StaleIsRefused == Spec => StaleTagsAreRefused
<1>1. IInv => \A h \in Handlers :
        LET prev == items[put[h].matched.id]
        IN  updateMatched(h) /\ prev # NoItem /\ prev.updated <= put[h].checked
                => prev = put[h].matched
  <2>1. SUFFICES ASSUME IInv, NEW h \in Handlers, updateMatched(h),
                        items[put[h].matched.id] # NoItem,
                        items[put[h].matched.id].updated <= put[h].checked
                 PROVE  items[put[h].matched.id] = put[h].matched
    OBVIOUS
  <2>2. /\ put[h] # NoPut
        /\ \/ items[put[h].matched.id] = put[h].matched
           \/ items[put[h].matched.id].updated > put[h].checked
    BY <2>1 DEF updateMatched, IInv, MatchedOrNewer
  <2>3. items[put[h].matched.id].updated \in Nat /\ put[h].checked \in Nat
    BY <2>1, <2>2, HeldPut DEF IInv, TypeOK, Item
  <2>4. QED
    BY <2>1, <2>2, <2>3
<1>2. QED
  BY <1>1, RestInvariant, PTL DEF StaleTagsAreRefused

\* However often PUTs are sent under one tag, by one client or by many, and
\* however many handlers serve them at once: two of them are applied only if
\* each was checked before the other was applied, so never one sent after.
THEOREM LateRetriesAreRefused == Spec => []SharedTagsOverlapped
<1>1. IInv => SharedTagsOverlapped
  BY DEF IInv
<1>2. QED
  BY <1>1, RestInvariant, PTL

-----------------------------------------------------------------------------
(* The store the handlers take for granted.                                *)

Atomic == INSTANCE AtomicItems

LEMMA SameData ==
    /\ Atomic!Body = Body /\ Atomic!Now = Now
    /\ \A id, old, body, now :
          /\ Atomic!Created(id, body, now) = Created(id, body, now)
          /\ Atomic!Replaced(old, body, now) = Replaced(old, body, now)
          /\ Atomic!Merged(old, body, now) = Merged(old, body, now)
BY DEF Atomic!Body, Body, Atomic!LabelMaps, LabelMaps, Atomic!Now, Now,
       Atomic!Created, Created, Atomic!Replaced, Replaced, Atomic!Merged, Merged,
       Atomic!OrEmpty, OrEmpty, Atomic!NoLabels, NoLabels, Atomic!Overlay, Overlay

\* A change by a body is one of the calls of the atomic store, as a deletion is.
LEMMA ChangeIsAtomic ==
    ASSUME NEW id \in Ids, NEW body \in Body, NEW new,
           commits' = Now, items' = [items EXCEPT ![id] = new],
           \/ items[id] = NoItem /\ new = Created(id, body, Now)
           \/ items[id] # NoItem /\ new = Replaced(items[id], body, Now)
           \/ items[id] # NoItem /\ new = Merged(items[id], body, Now)
    PROVE  Atomic!Next
<1>1. Atomic!Store(id, new)
  BY SameData DEF Atomic!Store
<1>2. Atomic!Create(id, body) \/ Atomic!Update(id, body) \/ Atomic!Upsert(id, body)
  BY <1>1, SameData DEF Atomic!Create, Atomic!Update, Atomic!Upsert
<1>3. QED
  BY <1>2, SameData DEF Atomic!Next

LEMMA DeletionIsAtomic ==
    ASSUME NEW id \in Ids, items[id] # NoItem,
           commits' = Now, items' = [items EXCEPT ![id] = NoItem]
    PROVE  Atomic!Next
<1>1. Atomic!Delete(id)
  BY SameData DEF Atomic!Delete, Atomic!Store
<1>2. QED
  BY <1>1 DEF Atomic!Next

\* An identifier that is in use is not a new UUID.
UsedInv == \A id \in Ids : items[id] # NoItem => id \in used

LEMMA UsedStep ==
    ASSUME IInv, UsedInv, [Next]_vars
    PROVE  UsedInv'
<1>1. ASSUME NEW id \in Ids, NEW item, Store(id, item)
      PROVE  UsedInv'
  BY <1>1 DEF Store, UsedInv, IInv, TypeOK
<1>2. ASSUME NEW c \in Clients, NEW id \in Ids, deleteItem(c, id)
      PROVE  UsedInv'
  BY <1>2 DEF deleteItem, server, UsedInv, IInv, TypeOK
<1>3. ASSUME UNCHANGED <<items, used>>
      PROVE  UsedInv'
  BY <1>3 DEF UsedInv
<1>4. ASSUME NEW c \in Clients, NEW id \in Ids, NEW body \in Bodies,
             createItem(c, id, body) \/ updateItem(c, id, body) \/ upsertItem(c, id, body)
      PROVE  UsedInv'
  BY <1>1, <1>3, <1>4 DEF createItem, updateItem, upsertItem, server
<1>5. ASSUME NEW h \in Handlers, updateMatched(h)
      PROVE  UsedInv'
  <2>1. put[h].matched.id \in Ids
    BY <1>5, HeldPut DEF updateMatched
  <2>2. QED
    BY <1>1, <1>3, <1>5, <2>1 DEF updateMatched, server
<1>6. ASSUME NEW c \in Clients,
             \/ \E id \in Ids : getItem(c, id)
             \/ \E h \in Handlers, body \in Bodies : checkIfMatch(c, h, body)
             \/ getItemIfNoneMatch(c) \/ refuseBody(c)
      PROVE  UsedInv'
  BY <1>3, <1>6 DEF getItem, checkIfMatch, getItemIfNoneMatch, refuseBody, server
<1>7. CASE UNCHANGED vars
  BY <1>3, <1>7 DEF vars, server
<1>8. QED
  BY <1>2, <1>4, <1>5, <1>6, <1>7 DEF Next, Request

\* The handlers change the items by calls of the store alone.
LEMMA HandlersAreAtomic ==
    ASSUME IInv, UsedInv, [Next]_vars
    PROVE  Atomic!Next \/ UNCHANGED <<items, commits>>
<1>1. ASSUME NEW c \in Clients, NEW id \in Ids, NEW body \in Bodies,
             createItem(c, id, body) \/ updateItem(c, id, body) \/ upsertItem(c, id, body)
      PROVE  Atomic!Next \/ UNCHANGED <<items, commits>>
  <2>1. body \in Body
    BY RestAssumption
  <2>2. CASE createItem(c, id, body)
    BY <2>1, <2>2, ChangeIsAtomic DEF createItem, Store, server, UsedInv
  <2>3. CASE updateItem(c, id, body)
    BY <2>1, <2>3, ChangeIsAtomic DEF updateItem, Store, server
  <2>4. CASE upsertItem(c, id, body)
    BY <2>1, <2>4, ChangeIsAtomic DEF upsertItem, Store, server
  <2>5. QED
    BY <1>1, <2>2, <2>3, <2>4
<1>2. ASSUME NEW h \in Handlers, updateMatched(h)
      PROVE  Atomic!Next \/ UNCHANGED <<items, commits>>
  <2>1. put[h].matched.id \in Ids /\ put[h].body \in Body
    BY <1>2, HeldPut DEF updateMatched
  <2>2. QED
    BY <1>2, <2>1, ChangeIsAtomic DEF updateMatched, Store, server
<1>3. ASSUME NEW c \in Clients, NEW id \in Ids, deleteItem(c, id)
      PROVE  Atomic!Next \/ UNCHANGED <<items, commits>>
  BY <1>3, DeletionIsAtomic DEF deleteItem, server
<1>4. ASSUME NEW c \in Clients,
             \/ \E id \in Ids : getItem(c, id)
             \/ \E h \in Handlers, body \in Bodies : checkIfMatch(c, h, body)
             \/ getItemIfNoneMatch(c) \/ refuseBody(c)
      PROVE  UNCHANGED <<items, commits>>
  BY <1>4 DEF getItem, checkIfMatch, getItemIfNoneMatch, refuseBody, server
<1>5. CASE UNCHANGED vars
  BY <1>5 DEF vars, server
<1>6. QED
  BY <1>1, <1>2, <1>3, <1>4, <1>5 DEF Next, Request

\* To the store the REST server is a caller like any other, conditional
\* requests included: its steps between check and update are calls too.
THEOREM RestUsesTheStore == Spec => Atomic!Spec
<1>1. Init => Atomic!Init /\ UsedInv
  BY DEF Init, Atomic!Init, UsedInv
<1>2. IInv /\ UsedInv /\ [Next]_vars => UsedInv' /\ [Atomic!Next]_(Atomic!vars)
  BY UsedStep, HandlersAreAtomic DEF Atomic!vars
<1>3. QED
  BY <1>1, <1>2, RestInvariant, PTL DEF Spec, Atomic!Spec
=============================================================================
