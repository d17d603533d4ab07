----------------------------- MODULE Protocols -----------------------------
(***************************************************************************)
(* One store behind three protocols (internal/server/rest, grpc, graphql): *)
(* what each lets a caller store, what each shows of what is stored, and   *)
(* clients that read an item over one of them and write it back.           *)
(*                                                                         *)
(* Payloads are told apart by what the conversions do to them:             *)
(*   "object"   an object whose numbers fit a double, as a Struct holds    *)
(*   "precise"  an object with a number that does not                      *)
(*   "rounded"  what a Struct keeps of it                                  *)
(*   "empty"    {}                                                         *)
(*   "list"     JSON that is not an object                                 *)
(*   "null"     null                                                       *)
(*   "broken"   text that is not JSON                                      *)
(***************************************************************************)
EXTENDS ItemData

CONSTANTS
    Clients,    \* clients that read and write back
    Labelings,  \* label maps that requests carry, or NilLabels
    NoCopy,     \* the client holds no copy
    Unreadable, \* the answer has no body: encoding it failed
    MaxCommits  \* bound: changes committed in a behaviour

Objects == {"object", "rounded", "empty"}
JSON    == Objects \union {"precise", "list", "null"}

ASSUME ProtocolsAssumption ==
    /\ Payloads = JSON \union {"broken"}
    /\ Unreadable \notin Payloads \union {NoData}
    /\ Labelings \subseteq LabelMaps \union {NilLabels}
    /\ MaxCommits \in Nat

VARIABLES
    items,    \* items[id]: the stored item, or NoItem
    commits,  \* changes committed so far
    held,     \* held[c]: the copy client c has read, or NoCopy
    source    \* history: source[id]: the protocol that set the data stored now

vars == <<items, commits, held, source>>

Servers == {"rest", "grpc", "graphql"}
Now == commits + 1

-----------------------------------------------------------------------------
(* Conversions. *)

\* Mutant: REST keeps the text of data without decoding it.
SendableText(server) ==
    CASE server = "rest"    -> Payloads \union {NoData}
      [] server = "grpc"    -> Objects \union {NoData}
      [] server = "graphql" -> Payloads \union {NoData}

\* The data that requests can carry: any JSON over REST, whose body is decoded
\* as a whole; a Struct over gRPC; any text over GraphQL, "" being none.
Sendable(server) ==
    CASE server = "rest"    -> JSON \union {NoData}
      [] server = "grpc"    -> Objects \union {NoData}
      [] server = "graphql" -> Payloads \union {NoData}

\* json.Unmarshal into a map, then NewStruct; errors leave the field unset.
ToStruct(data) ==
    CASE data \in Objects  -> data
      [] data = "precise"  -> "rounded"
      [] data = "null"     -> "empty"
      [] OTHER             -> NoData

\* Mutant: REST shows data only if it is an object.
ShownObjects(server, data) ==
    CASE server = "graphql" -> data
      [] server = "grpc"    -> ToStruct(data)
      [] server = "rest"    -> IF data = "broken" THEN Unreadable
                               ELSE IF data \in Objects \union {"precise"} THEN data ELSE NoData

\* What a reader gets.  A RawMessage that is no JSON fails to encode after the
\* status was sent, and the response stays empty.
Shown(server, data) ==
    CASE server = "graphql" -> data
      [] server = "grpc"    -> ToStruct(data)
      [] server = "rest"    -> IF data = "broken" THEN Unreadable ELSE data

Requests(server) == [name : Names \union {NoName}, labels : Labelings, data : Sendable(server)]

-----------------------------------------------------------------------------
Init ==
    /\ items = [id \in Ids |-> NoItem]
    /\ commits = 0
    /\ held = [c \in Clients |-> NoCopy]
    /\ source = [id \in Ids |-> "rest"]

\* server stores item, the data of which is new.
Put(server, id, item) ==
    /\ Now <= MaxCommits
    /\ commits' = Now
    /\ items' = [items EXCEPT ![id] = item]
    /\ source' = [source EXCEPT ![id] = server]

\* REST and gRPC ask for a name, GraphQL takes the empty one.
Create(server, id, body) ==
    /\ body.name # NoName \/ server = "graphql"
    /\ items[id] = NoItem
    /\ Put(server, id, Created(id, body, Now))
    /\ UNCHANGED held

\* The full replace of every protocol.
Update(server, id, body) ==
    /\ items[id] # NoItem
    /\ Put(server, id, Replaced(items[id], body, Now))
    /\ UNCHANGED held

\* PATCH, of REST alone, creates or merges.
Upsert(id, body) ==
    /\ IF items[id] = NoItem
       THEN Put("rest", id, Created(id, body, Now))
       ELSE Put(IF body.data = NoData THEN source[id] ELSE "rest", id, Merged(items[id], body, Now))
    /\ UNCHANGED held

\* Bound: a delete is not the last change, so that there is one to read.
Delete(server, id) ==
    /\ items[id] # NoItem /\ Now < MaxCommits
    /\ Put(server, id, NoItem)
    /\ UNCHANGED held

\* A client reads an item; without a body there is nothing to keep.
Read(c, server, id) ==
    /\ items[id] # NoItem
    /\ LET shown == Shown(server, items[id].data)
       IN  held' = [held EXCEPT ![c] =
               IF shown = Unreadable THEN NoCopy
               ELSE [server |-> server, id |-> id, updated |-> items[id].updated,
                     name |-> items[id].name, labels |-> items[id].labels, data |-> shown]]
    /\ UNCHANGED <<items, commits, source>>

\* It writes back what it read, over the same protocol.
WriteBack(c) ==
    /\ held[c] # NoCopy
    /\ items[held[c].id] # NoItem
    /\ Put(held[c].server, held[c].id, Replaced(items[held[c].id], held[c], Now))
    /\ held' = [held EXCEPT ![c] = NoCopy]

Next ==
    \/ \E server \in Servers, id \in Ids :
          \/ \E body \in Requests(server) : Create(server, id, body) \/ Update(server, id, body)
          \/ Delete(server, id)
          \/ \E c \in Clients : Read(c, server, id)
    \/ \E id \in Ids, body \in Requests("rest") : Upsert(id, body)
    \/ \E c \in Clients : WriteBack(c)

Spec == Init /\ [][Next]_vars

-----------------------------------------------------------------------------
\* No stored item has a nil label map, and what clients hold could be sent
\* over the protocol it was read over (rest/server.go:289, grpc/server.go:205).
TypeOK ==
    /\ items \in [Ids -> Item \union {NoItem}]
    /\ commits \in 0 .. MaxCommits
    /\ source \in [Ids -> Servers]
    /\ \A c \in Clients : held[c] # NoCopy =>
          /\ held[c].id \in Ids /\ held[c].labels \in LabelMaps
          /\ held[c].data \in Sendable(held[c].server)

\* An item that REST cannot show owes its data to a GraphQL mutation, however
\* many replaces, merges and copies lie between; the other two cannot store
\* what does not encode (graphql/server.go:222-224, rest/server.go:265).
OnlyGraphQLBreaks ==
    \A id \in Ids : items[id] # NoItem /\ Shown("rest", items[id].data) = Unreadable
        => source[id] = "graphql"

Content(item) == <<item.name, item.labels, item.data>>

\* A client that writes back what it read, nothing having changed meanwhile,
\* leaves the item's content as it was; over gRPC only if the data is none or
\* an object of doubles: anything else a Struct cannot carry, and the write
\* erases or alters it (grpc/server.go:140-148, 215-222).
WriteBackKeeps ==
    [][\A c \in Clients : WriteBack(c) =>
          LET old == items[held[c].id]
          IN  \/ held[c].updated # old.updated
              \/ held[c].server = "grpc" /\ old.data \notin Objects \union {NoData}
              \/ Content(items'[held[c].id]) = Content(old)]_vars
=============================================================================
