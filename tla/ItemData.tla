------------------------------ MODULE ItemData ------------------------------
(***************************************************************************)
(* The items of the shared store and the pure operations on them           *)
(* (internal/store/items.go): what a create, a full replace and a merge    *)
(* make of a caller's body, and how a label selector is matched.           *)
(*                                                                         *)
(* Names, label values and payloads are members of small sets.  A label    *)
(* map is a total function onto values and NoValue, "the key is absent".   *)
(* Time is the number of the commit: every time.Now() of a mutation is     *)
(* read under the write lock, so the readings follow the commit order;     *)
(* that two of them never coincide is an assumption of the model.          *)
(***************************************************************************)
EXTENDS Naturals

CONSTANTS
    Ids,         \* item identifiers
    Names,       \* non-empty names
    NoName,      \* the empty name, ""
    LabelKeys,   \* keys of label maps
    LabelValues, \* values of label maps, EmptyValue among them
    EmptyValue,  \* the label value ""
    NoValue,     \* the key is not in the map
    NilLabels,   \* Go's nil map: the body had no "labels"
    Payloads,    \* raw JSON payloads
    NoData,      \* nil json.RawMessage: the body had no "data"
    NoItem       \* no item is stored under the identifier

ASSUME DataAssumption ==
    /\ NoName \notin Names
    /\ EmptyValue \in LabelValues
    /\ NoValue \notin LabelValues
    /\ NoData \notin Payloads
    /\ NilLabels \notin [LabelKeys -> LabelValues \union {NoValue}]

LabelMaps == [LabelKeys -> LabelValues \union {NoValue}]

\* What a caller supplies: everything but the identifier and what the store sets.
Body == [name   : Names \union {NoName},
         labels : LabelMaps \union {NilLabels},
         data   : Payloads \union {NoData}]

\* What the store keeps.  Its label map is never nil: Upsert writes into it.
Item == [id      : Ids,
         name    : Names \union {NoName},
         labels  : LabelMaps,
         data    : Payloads \union {NoData},
         created : Nat \ {0},
         updated : Nat \ {0},
         version : Nat \ {0}]

ASSUME NoItemAssumption == NoItem \notin Item

-----------------------------------------------------------------------------
NoLabels == [k \in LabelKeys |-> NoValue]

OrEmpty(labels) == IF labels = NilLabels THEN NoLabels ELSE labels

\* The keys of the body's map overwrite, the others keep their values.
Overlay(over, under) ==
    [k \in LabelKeys |-> IF over[k] = NoValue THEN under[k] ELSE over[k]]

\* A new item: Create, and Upsert of an absent identifier.
Created(id, body, now) ==
    [id      |-> id,
     name    |-> body.name,
     labels  |-> OrEmpty(body.labels),
     data    |-> body.data,
     created |-> now,
     updated |-> now,
     version |-> 1]

\* Mutant: the nil label map of the body is stored as it came.
ReplacedKeepingNil(old, body, now) ==
    [id |-> old.id, name |-> body.name, labels |-> body.labels, data |-> body.data,
     created |-> old.created, updated |-> now, version |-> old.version + 1]

\* Full replace: Update.
Replaced(old, body, now) ==
    [id      |-> old.id,
     name    |-> body.name,
     labels  |-> OrEmpty(body.labels),
     data    |-> body.data,
     created |-> old.created,
     updated |-> now,
     version |-> old.version + 1]

\* Mutant: a merge that is not counted as a new version.
MergedUncounted(old, body, now) ==
    [id      |-> old.id,
     name    |-> IF body.name = NoName THEN old.name ELSE body.name,
     labels  |-> Overlay(OrEmpty(body.labels), old.labels),
     data    |-> IF body.data = NoData THEN old.data ELSE body.data,
     created |-> old.created,
     updated |-> now,
     version |-> old.version]

\* Merge of the body's non-zero fields: Upsert of a stored identifier.
Merged(old, body, now) ==
    [id      |-> old.id,
     name    |-> IF body.name = NoName THEN old.name ELSE body.name,
     labels  |-> Overlay(OrEmpty(body.labels), old.labels),
     data    |-> IF body.data = NoData THEN old.data ELSE body.data,
     created |-> old.created,
     updated |-> now,
     version |-> old.version + 1]

-----------------------------------------------------------------------------
\* labels[k] of a Go map: the zero value when the key is absent.
Lookup(labels, k) == IF labels[k] = NoValue THEN EmptyValue ELSE labels[k]

\* A selector is a label map too; its absent keys are not asked about.
MatchLabels(item, selector) ==
    \A k \in LabelKeys :
        selector[k] # NoValue => Lookup(item.labels, k) = selector[k]
=============================================================================
