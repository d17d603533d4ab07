----------------------------- MODULE ListItems -----------------------------
(***************************************************************************)
(* Store.List (internal/store/items.go) and the clients that page through  *)
(* it: one answer is the right slice of the filtered and sorted items, and *)
(* a walk over all pages, one call after the other, meets the changes made *)
(* in between.                                                             *)
(*                                                                         *)
(* List collects the items of a Go map, whose order is random, and sorts   *)
(* them with sort.Slice, which is not stable and whose comparison is not   *)
(* strict when descending: items with equal keys come in any order, anew   *)
(* in every call.  Integers are the machine's: Width bits, 64 in the code. *)
(***************************************************************************)
EXTENDS ItemData, Integers, Sequences, FiniteSets

CONSTANTS
    Bodies,        \* what writers store
    Selectors,     \* label filters of requests
    Pages, Limits, \* numbers requests carry
    Width,         \* bits of an int, 64 in the code
    DefaultLimit,  \* 20 in the code
    MaxLimit,      \* 100 in the code
    Panicked,      \* in place of an answer: the handler panicked
    Forgotten,     \* in place of an answer: none is remembered
    MaxCommits     \* bound: changes committed in a behaviour

ASSUME ListAssumption ==
    /\ Bodies \subseteq Body /\ Selectors \subseteq LabelMaps
    /\ Pages \subseteq Int /\ Limits \subseteq Int
    /\ Width \in Nat \ {0} /\ MaxCommits \in Nat
    /\ MaxLimit \in Nat /\ DefaultLimit \in 1 .. MaxLimit
    /\ IsFiniteSet(Ids \union Names)
    \* Memory ends long before int does.
    /\ Cardinality(Ids) + MaxLimit < 2 ^ (Width - 1)

Answers == [items : Seq(Item), total : Nat, page : Nat, limit : Nat, pages : Nat]

ASSUME NoAnswerAssumption ==
    /\ Panicked # Forgotten
    /\ Panicked \notin Answers \union Seq(Item) /\ Forgotten \notin Answers

VARIABLES
    items,    \* items[id]: the stored item, or NoItem
    commits,  \* changes committed so far
    query,    \* the last request: its page, limit, order and selector
    answer,   \* its answer, or Panicked, until it is forgotten
    walk,     \* the client that pages through: "idle", "on", "over"
    seen,     \* history: the lives of items it was shown, in order
    base,     \* history: the lives of items stored when the walk began
    removed   \* history: an item was deleted since

vars == <<items, commits, query, answer, walk, seen, base, removed>>

Fields == {"name", "created_at", "updated_at", "id"}
Orders == [field : Fields, desc : BOOLEAN]
Default == [field |-> "created_at", desc |-> FALSE]

Now == commits + 1
StoredItems == {items[id] : id \in {i \in Ids : items[i] # NoItem}}

\* An identifier that is deleted and created again starts another life.
Life(item) == [id |-> item.id, created |-> item.created]

-----------------------------------------------------------------------------
\* Two's complement.
Wrap(n) == ((n + 2 ^ (Width - 1)) % 2 ^ Width) - 2 ^ (Width - 1)

\* Names and identifiers are compared as strings: any order of them will do.
Rank == CHOOSE r \in [Ids \union Names \union {NoName} -> 0 .. Cardinality(Ids \union Names)] :
    \A x, y \in Ids \union Names \union {NoName} : r[x] = r[y] => x = y

\* Mutant: every change moves an item to the end.
KeyOfLastChange(item, field) == IF field = "id" THEN Rank[item.id] ELSE item.updated

Key(item, field) ==
    CASE field = "name"       -> Rank[item.name]
      [] field = "created_at" -> item.created
      [] field = "updated_at" -> item.updated
      [] field = "id"         -> Rank[item.id]

\* item comes no later than other, up to ties.
InOrder(item, other, order) ==
    IF order.desc THEN Key(item, order.field) >= Key(other, order.field)
                  ELSE Key(item, order.field) <= Key(other, order.field)

Filtered(selector) == {item \in StoredItems : MatchLabels(item, selector)}

\* Every way sort.Slice may leave the collected items.
Sortings(S, order) ==
    {s \in [1 .. Cardinality(S) -> S] :
        /\ \A i, j \in DOMAIN s : s[i] = s[j] => i = j
        /\ \A i, j \in DOMAIN s : i < j => InOrder(s[i], s[j], order)}

Clamped(limit) ==
    IF limit < 1 THEN DefaultLimit ELSE IF limit > MaxLimit THEN MaxLimit ELSE limit

Lesser(m, n) == IF m < n THEN m ELSE n

\* Mutant: pages are counted from zero.
SliceFromZero(s, page, limit) ==
    LET start == Lesser(Wrap(page * limit), Len(s))
        end   == Lesser(Wrap(start + limit), Len(s))
    IN  IF start < 0 \/ end < start THEN Panicked ELSE SubSeq(s, start + 1, end)

\* filtered[start:end], which panics on bounds that are negative or swapped.
Slice(s, page, limit) ==
    LET start == Lesser(Wrap(Wrap(page - 1) * limit), Len(s))
        end   == Lesser(Wrap(start + limit), Len(s))
    IN  IF start < 0 \/ end < start THEN Panicked ELSE SubSeq(s, start + 1, end)

\* Mutant: the division rounds down.
PageCountDown(total, limit) == IF total < limit THEN 1 ELSE total \div limit

PageCount(total, limit) ==
    IF total = 0 THEN 1 ELSE (total + limit - 1) \div limit

\* The answers List may give.
List(page, limit, order, selector) ==
    LET p == IF page < 1 THEN 1 ELSE page
        n == Clamped(limit)
        S == Filtered(selector)
    IN  {IF slice = Panicked THEN Panicked
         ELSE [items |-> slice, total |-> Cardinality(S), page |-> p, limit |-> n,
               pages |-> PageCount(Cardinality(S), n)] :
            slice \in {Slice(s, p, n) : s \in Sortings(S, order)}}

-----------------------------------------------------------------------------
FirstPage(limit, order) ==
    [page |-> 1, limit |-> limit, order |-> order, selector |-> NoLabels]

NoQuery == FirstPage(DefaultLimit, Default)

Init ==
    /\ items = [id \in Ids |-> NoItem]
    /\ commits = 0
    /\ query = NoQuery /\ answer = Forgotten
    /\ walk = "idle" /\ seen = << >> /\ base = {} /\ removed = FALSE

Store(id, item) ==
    /\ Now <= MaxCommits /\ walk # "over" /\ answer = Forgotten
    /\ commits' = Now
    /\ items' = [items EXCEPT ![id] = item]
    /\ UNCHANGED <<query, answer, walk, seen, base>>

\* What a body may make of what is there: created, or replaced or merged.
Written(id, body) ==
    IF items[id] = NoItem THEN {Created(id, body, Now)}
                          ELSE {Replaced(items[id], body, Now), Merged(items[id], body, Now)}

\* A change through any protocol.
Write(id, body) ==
    /\ \E new \in Written(id, body) : Store(id, new)
    /\ UNCHANGED removed

Remove(id) ==
    /\ items[id] # NoItem
    /\ Store(id, NoItem)
    /\ removed' = (removed \/ walk = "on")

\* One request, with whatever numbers it carries.  Bound: forgotten
\* before the next step, since List changes nothing that another could tell.
Ask(page, limit, order, selector) ==
    /\ walk = "idle" /\ answer = Forgotten
    /\ query' = [page |-> page, limit |-> limit, order |-> order, selector |-> selector]
    /\ answer' \in List(page, limit, order, selector)
    /\ UNCHANGED <<items, commits, walk, seen, base, removed>>

\* The items query of GraphQL has no label filter.
AskGraphQL(page, limit, order) == Ask(page, limit, order, NoLabels)

\* A client begins to page through everything,
Begin(limit, order) ==
    /\ walk = "idle" /\ answer = Forgotten
    /\ walk' = "on"
    /\ base' = {Life(item) : item \in StoredItems}
    /\ query' = FirstPage(limit, order)
    /\ UNCHANGED <<items, commits, answer, seen, removed>>

\* asks for page after page until it has the last that the answer tells of,
Turn ==
    /\ walk = "on"
    /\ \E a \in List(query.page, query.limit, query.order, NoLabels) \ {Panicked} :
          /\ seen' = seen \o [i \in DOMAIN a.items |-> Life(a.items[i])]
          /\ walk' = IF query.page >= a.pages THEN "over" ELSE "on"
    /\ query' = [query EXCEPT !.page = @ + 1]
    /\ UNCHANGED <<items, commits, answer, base, removed>>

\* and, like one that asked once, forgets what it saw.
Finish ==
    /\ walk = "over" \/ answer # Forgotten
    /\ walk' = "idle" /\ seen' = << >> /\ base' = {} /\ removed' = FALSE
    /\ query' = NoQuery /\ answer' = Forgotten
    /\ UNCHANGED <<items, commits>>

Next ==
    \/ \E id \in Ids : Remove(id) \/ \E body \in Bodies : Write(id, body)
    \/ \E limit \in Limits, order \in Orders :
          \/ Begin(limit, order)
          \/ \E page \in Pages :
                \/ AskGraphQL(page, limit, order)
                \/ \E selector \in Selectors : Ask(page, limit, order, selector)
    \/ Turn \/ Finish

Spec == Init /\ [][Next]_vars

-----------------------------------------------------------------------------
(* What holds of the answers. *)

Answered == answer \notin {Panicked, Forgotten}

\* The offset of the page asked for is a number the machine has.
Representable ==
    LET page == IF query.page < 1 THEN 1 ELSE query.page
    IN  (page - 1) * Clamped(query.limit) < 2 ^ (Width - 1)

\* The answer to a request whose offset does not overflow is the page asked
\* for: a window of the matching items in the order asked for, none twice,
\* each at a place its key allows, as long as there are items to show; and
\* the number of pages is the least that shows all (items.go:240-286).
AnswerIsThePage ==
    answer # Forgotten /\ Representable =>
        LET S == Filtered(query.selector)
            shown == answer.items
            offset == (answer.page - 1) * answer.limit
            NoLater(item)  == {x \in S : InOrder(x, item, query.order)}
            NotBefore(item) == {x \in S : InOrder(item, x, query.order)}
        IN  /\ answer # Panicked
            /\ answer.total = Cardinality(S)
            /\ answer.pages * answer.limit >= answer.total
            /\ answer.pages = 1 \/ (answer.pages - 1) * answer.limit < answer.total
            /\ Len(shown) = answer.limit \/ offset + Len(shown) >= answer.total
            /\ \A i, j \in DOMAIN shown : shown[i] = shown[j] => i = j
            /\ \A i \in DOMAIN shown :
                  /\ shown[i] \in S
                  /\ Cardinality(S \ NotBefore(shown[i])) < offset + i
                  /\ offset + i <= Cardinality(NoLater(shown[i]))

Shown == {seen[i] : i \in DOMAIN seen}

\* A client that pages through everything by a key that is unique and never
\* changes misses nothing that was there when it began, whatever is written
\* meanwhile, unless something is deleted (items.go:263-277).
WalkMissesNothing ==
    walk = "over" /\ query.order.field \in {"created_at", "id"} /\ ~removed => base \subseteq Shown

\* In the default order, oldest first, it is shown nothing twice, even if
\* items are deleted, changed or created anew meanwhile (items.go:307-334).
WalkNeverRepeats ==
    query.order = Default => \A i, j \in DOMAIN seen : seen[i] = seen[j] => i = j
=============================================================================
