-------------------------- MODULE ProtocolsProofs ---------------------------
(***************************************************************************)
(* What holds of the three protocols over one store, and of the commands   *)
(* that use them, for every number of items, callers, commands and changes *)
(* and all labels.                                                         *)
(***************************************************************************)
EXTENDS ClientCommands, SequenceTheorems, TLAPS

-----------------------------------------------------------------------------
(* Bodies and items.                                                       *)

LEMMA OrEmptyType ==
    ASSUME NEW labels \in LabelMaps \union {NilLabels}
    PROVE  OrEmpty(labels) \in LabelMaps /\ (labels \in LabelMaps => OrEmpty(labels) = labels)
BY DataAssumption DEF OrEmpty, NoLabels, LabelMaps

\* What a request or a copy carries to the store.
Carries(server, body) ==
    /\ body.name \in Names \union {NoName} /\ body.labels \in LabelMaps \union {NilLabels}
    /\ body.data \in Sendable(server)

LEMMA SendableData ==
    ASSUME NEW server \in Servers
    PROVE  /\ Sendable(server) \subseteq Payloads \union {NoData}
           /\ "broken" \in Sendable(server) => server = "graphql"
<1>1. "broken" \notin JSON
  BY DEF JSON, Objects
<1>2. NoData # "broken" /\ Objects \subseteq JSON
  BY DataAssumption, ProtocolsAssumption DEF JSON
<1>3. QED
  BY <1>1, <1>2, ProtocolsAssumption DEF Sendable, Servers

LEMMA CreatedItem ==
    ASSUME NEW server \in Servers, NEW id \in Ids, NEW body, Carries(server, body),
           NEW now \in Nat \ {0}
    PROVE  /\ Created(id, body, now) \in Item /\ Created(id, body, now).updated = now
           /\ Created(id, body, now).data = body.data
<1>1. OrEmpty(body.labels) \in LabelMaps /\ body.data \in Payloads \union {NoData}
  BY OrEmptyType, SendableData DEF Carries
<1>2. QED
  BY <1>1 DEF Created, Item, Carries

LEMMA ReplacedItem ==
    ASSUME NEW server \in Servers, NEW old \in Item, NEW body, Carries(server, body),
           NEW now \in Nat \ {0}
    PROVE  /\ Replaced(old, body, now) \in Item /\ Replaced(old, body, now).updated = now
           /\ Replaced(old, body, now).data = body.data
<1>1. OrEmpty(body.labels) \in LabelMaps /\ body.data \in Payloads \union {NoData}
  BY OrEmptyType, SendableData DEF Carries
<1>2. QED
  BY <1>1 DEF Replaced, Item, Carries

LEMMA MergedItem ==
    ASSUME NEW server \in Servers, NEW old \in Item, NEW body, Carries(server, body),
           NEW now \in Nat \ {0}
    PROVE  /\ Merged(old, body, now) \in Item /\ Merged(old, body, now).updated = now
           /\ Merged(old, body, now).data = IF body.data = NoData THEN old.data ELSE body.data
<1>1. Overlay(OrEmpty(body.labels), old.labels) \in LabelMaps
  BY OrEmptyType DEF Overlay, LabelMaps, Item, Carries
<1>2. body.data \in Payloads \union {NoData}
  BY SendableData DEF Carries
<1>3. QED
  BY <1>1, <1>2 DEF Merged, Item, Carries

\* What a reader gets of stored data, and that writing it back keeps it.
LEMMA ShownData ==
    ASSUME NEW server \in Servers, NEW data \in Payloads \union {NoData}
    PROVE  /\ Shown(server, data) # Unreadable => Shown(server, data) \in Sendable(server)
           /\ Shown("rest", data) = Unreadable <=> data = "broken"
           /\ \/ Shown(server, data) \in {data, Unreadable}
              \/ server = "grpc" /\ data \notin Objects \union {NoData}
<1>1. data \in Objects \/ data \in {"precise", "list", "null", "broken", NoData}
  BY ProtocolsAssumption DEF JSON
<1>2. Unreadable \notin Payloads \union {NoData} /\ NoData \notin Payloads
  BY ProtocolsAssumption, DataAssumption
<1>3. /\ Payloads = Objects \union {"precise", "list", "null", "broken"}
      /\ Objects = {"object", "rounded", "empty"}
  BY ProtocolsAssumption DEF JSON, Objects
<1>4. /\ ToStruct(data) \in Objects \union {NoData}
      /\ data \in Objects \union {NoData} => ToStruct(data) = data
  BY <1>2, <1>3 DEF ToStruct
<1>5. Shown("rest", data) = IF data = "broken" THEN Unreadable ELSE data
  BY DEF Shown
<1>6. CASE server = "rest"
  BY <1>2, <1>3, <1>5, <1>6 DEF Sendable, JSON
<1>7. CASE server = "grpc"
  BY <1>2, <1>4, <1>5, <1>7 DEF Shown, Sendable
<1>8. CASE server = "graphql"
  BY <1>2, <1>5, <1>8 DEF Shown, Sendable
<1>9. QED
  BY <1>6, <1>7, <1>8 DEF Servers

-----------------------------------------------------------------------------
(* The store and the copies.                                               *)

Copies == [server : Servers, id : Ids, updated : Nat, name : Names \union {NoName},
           labels : LabelMaps, data : Payloads \union {NoData}]

\* Data that is no JSON came by GraphQL, and no item is from the future.
ItemsInv == \A id \in Ids : items[id] # NoItem =>
    /\ items[id].updated <= commits
    /\ items[id].data = "broken" => source[id] = "graphql"

IsCopy(copy, item) ==
    /\ copy.name = item.name /\ copy.labels = item.labels
    /\ copy.data = Shown(copy.server, item.data) /\ copy.data # Unreadable

\* A copy is what its protocol shows of the item, if that is still the same.
CopiesInv == \A c \in Clients : held[c] # NoCopy =>
    /\ held[c].updated <= commits
    /\ items[held[c].id] # NoItem /\ held[c].updated = items[held[c].id].updated
          => IsCopy(held[c], items[held[c].id])

CoreInv ==
    /\ TypeOK /\ commits \in Nat /\ held \in [Clients -> Copies \union {NoCopy}]
    /\ ItemsInv /\ CopiesInv

LEMMA CoreInitially == Init => CoreInv
<1>1. SUFFICES ASSUME Init PROVE CoreInv
  OBVIOUS
<1>2. \A c \in Clients : held[c] = NoCopy
  BY <1>1 DEF Init
<1>3. 0 \in 0 .. MaxCommits
  BY ProtocolsAssumption
<1>4. TypeOK
  BY <1>1, <1>2, <1>3 DEF Init, TypeOK, Servers
<1>5. QED
  BY <1>1, <1>2, <1>4 DEF Init, CoreInv, ItemsInv, CopiesInv

\* A change: what is stored is new, and broken only if GraphQL stores it.
Fitting(server, item) ==
    \/ item = NoItem
    \/ item \in Item /\ item.updated = Now /\ (item.data = "broken" => server = "graphql")

LEMMA PutKeeps ==
    ASSUME CoreInv, NEW server \in Servers, NEW id \in Ids, NEW item, Fitting(server, item),
           Put(server, id, item),
           held' = held \/ \E c \in Clients : held' = [held EXCEPT ![c] = NoCopy]
    PROVE  CoreInv'
<1>1. /\ commits \in Nat /\ commits' = commits + 1 /\ commits' \in 0 .. MaxCommits
      /\ items'[id] = item /\ source'[id] = server /\ items' \in [Ids -> Item \union {NoItem}]
      /\ source' \in [Ids -> Servers]
      /\ \A other \in Ids \ {id} : items'[other] = items[other] /\ source'[other] = source[other]
  BY ProtocolsAssumption DEF Put, Now, CoreInv, TypeOK, Fitting
<1>2. /\ held' \in [Clients -> Copies \union {NoCopy}]
      /\ \A c \in Clients : held'[c] = NoCopy \/ held'[c] = held[c]
  BY DEF CoreInv
<1>3. TypeOK'
  BY <1>1, <1>2 DEF CoreInv, TypeOK
<1>4. \A x \in Ids : items[x] # NoItem => items[x].updated \in Nat
  BY DEF CoreInv, TypeOK, Item
<1>5. item = NoItem \/ (item.updated = commits + 1 /\ (item.data = "broken" => server = "graphql"))
  BY DEF Fitting, Now
<1>6. ItemsInv'
  BY <1>1, <1>4, <1>5 DEF CoreInv, ItemsInv
<1>7. CopiesInv'
  <2>1. SUFFICES ASSUME NEW c \in Clients, held[c] # NoCopy, held'[c] = held[c]
                 PROVE  /\ held[c].updated <= commits'
                        /\ items'[held[c].id] # NoItem
                           /\ held[c].updated = items'[held[c].id].updated
                              => IsCopy(held[c], items'[held[c].id])
    BY <1>2 DEF CopiesInv
  <2>2. held[c].updated \in Nat /\ held[c].updated <= commits /\ held[c].id \in Ids
    BY <2>1 DEF CoreInv, CopiesInv, Copies
  <2>3. CASE held[c].id = id
    BY <1>1, <1>5, <2>2, <2>3
  <2>4. CASE held[c].id # id
    BY <1>1, <2>1, <2>2, <2>4 DEF CoreInv, CopiesInv
  <2>5. QED
    BY <2>3, <2>4
<1>8. QED
  BY <1>1, <1>2, <1>3, <1>6, <1>7 DEF CoreInv

LEMMA WritesKeep ==
    ASSUME CoreInv, NEW server \in Servers, NEW id \in Ids, NEW body, Carries(server, body),
           Create(server, id, body) \/ Update(server, id, body)
    PROVE  CoreInv'
<1>1. Now \in Nat \ {0} /\ (body.data = "broken" => server = "graphql")
  BY SendableData DEF CoreInv, Now, Carries
<1>2. CASE Create(server, id, body)
  <2>1. Fitting(server, Created(id, body, Now))
    BY <1>1, CreatedItem DEF Fitting
  <2>2. QED
    BY <1>2, <2>1, PutKeeps DEF Create
<1>3. CASE Update(server, id, body)
  <2>1. items[id] \in Item
    BY <1>3 DEF Update, CoreInv, TypeOK
  <2>2. Fitting(server, Replaced(items[id], body, Now))
    BY <1>1, <2>1, ReplacedItem DEF Fitting
  <2>3. QED
    BY <1>3, <2>2, PutKeeps DEF Update
<1>4. QED
  BY <1>2, <1>3

LEMMA UpsertKeeps ==
    ASSUME CoreInv, NEW id \in Ids, NEW body, Carries("rest", body), Upsert(id, body)
    PROVE  CoreInv'
<1>1. Now \in Nat \ {0} /\ body.data # "broken" /\ "rest" \in Servers
  BY SendableData DEF CoreInv, Now, Carries, Servers
<1>2. CASE items[id] = NoItem
  <2>1. Fitting("rest", Created(id, body, Now))
    BY <1>1, CreatedItem DEF Fitting
  <2>2. QED
    BY <1>1, <1>2, <2>1, PutKeeps DEF Upsert
<1>3. CASE items[id] # NoItem
  <2>1. /\ items[id] \in Item /\ source[id] \in Servers
        /\ items[id].data = "broken" => source[id] = "graphql"
    BY <1>3 DEF CoreInv, TypeOK, ItemsInv
  <2>2. /\ Merged(items[id], body, Now) \in Item /\ Merged(items[id], body, Now).updated = Now
        /\ Merged(items[id], body, Now).data = IF body.data = NoData THEN items[id].data ELSE body.data
    BY <1>1, <2>1, MergedItem
  <2>3. CASE body.data = NoData
    <3>1. Fitting(source[id], Merged(items[id], body, Now))
      BY <2>1, <2>2, <2>3 DEF Fitting
    <3>2. Put(source[id], id, Merged(items[id], body, Now)) /\ held' = held
      BY <1>3, <2>3 DEF Upsert
    <3>3. QED
      BY <2>1, <3>1, <3>2, PutKeeps
  <2>4. CASE body.data # NoData
    <3>1. Fitting("rest", Merged(items[id], body, Now))
      BY <1>1, <2>2, <2>4 DEF Fitting
    <3>2. Put("rest", id, Merged(items[id], body, Now)) /\ held' = held
      BY <1>3, <2>4 DEF Upsert
    <3>3. QED
      BY <1>1, <3>1, <3>2, PutKeeps
  <2>5. QED
    BY <2>3, <2>4
<1>4. QED
  BY <1>2, <1>3

LEMMA DeleteKeeps ==
    ASSUME CoreInv, NEW server \in Servers, NEW id \in Ids, Delete(server, id)
    PROVE  CoreInv'
<1>1. Fitting(server, NoItem)
  BY DEF Fitting
<1>2. QED
  BY <1>1, PutKeeps DEF Delete

LEMMA ReadKeeps ==
    ASSUME CoreInv, NEW c \in Clients, NEW server \in Servers, NEW id \in Ids, Read(c, server, id)
    PROVE  CoreInv'
<1>1. items[id] # NoItem /\ items[id] \in Item /\ items[id].updated <= commits
  BY DEF Read, CoreInv, TypeOK, ItemsInv
<1> DEFINE shown == Shown(server, items[id].data)
           copy == [server |-> server, id |-> id, updated |-> items[id].updated,
                    name |-> items[id].name, labels |-> items[id].labels, data |-> shown]
<1>2. shown # Unreadable => shown \in Sendable(server) /\ shown \in Payloads \union {NoData}
  BY <1>1, ShownData, SendableData DEF Item
<1>3. /\ held' = [held EXCEPT ![c] = IF shown = Unreadable THEN NoCopy ELSE copy]
      /\ UNCHANGED <<items, commits, source>>
  BY DEF Read
<1>4. shown # Unreadable => copy \in Copies
  BY <1>1, <1>2 DEF Copies, Item
<1>5. /\ copy.server = server /\ copy.id = id /\ copy.updated = items[id].updated
      /\ copy.name = items[id].name /\ copy.labels = items[id].labels /\ copy.data = shown
  OBVIOUS
<1>6. shown = Shown(server, items[id].data)
  OBVIOUS
<1> HIDE DEF copy, shown
<1>7. /\ held' \in [Clients -> Copies \union {NoCopy}]
      /\ held'[c] = IF shown = Unreadable THEN NoCopy ELSE copy
      /\ \A d \in Clients \ {c} : held'[d] = held[d]
  BY <1>3, <1>4 DEF CoreInv
<1>8. items[id].labels \in LabelMaps
  BY <1>1 DEF Item
<1>9. TypeOK'
  BY <1>2, <1>3, <1>5, <1>7, <1>8 DEF CoreInv, TypeOK
<1>10. CopiesInv'
  <2>1. SUFFICES ASSUME NEW d \in Clients, held'[d] # NoCopy
                 PROVE  /\ held'[d].updated <= commits'
                        /\ items'[held'[d].id] # NoItem
                           /\ held'[d].updated = items'[held'[d].id].updated
                              => IsCopy(held'[d], items'[held'[d].id])
    BY DEF CopiesInv
  <2>2. CASE d = c
    BY <1>1, <1>3, <1>5, <1>6, <1>7, <2>1, <2>2 DEF IsCopy
  <2>3. CASE d # c
    BY <1>3, <1>7, <2>1, <2>3 DEF CoreInv, CopiesInv
  <2>4. QED
    BY <2>2, <2>3
<1>11. QED
  BY <1>3, <1>7, <1>9, <1>10 DEF CoreInv, ItemsInv

LEMMA WriteBackKeepsInv ==
    ASSUME CoreInv, NEW c \in Clients, WriteBack(c)
    PROVE  CoreInv'
<1>1. /\ held[c] # NoCopy /\ held[c] \in Copies /\ held[c].id \in Ids
      /\ held[c].server \in Servers /\ items[held[c].id] \in Item
  BY DEF WriteBack, CoreInv, TypeOK, Copies
<1>2. Carries(held[c].server, held[c])
  BY <1>1 DEF CoreInv, TypeOK, Copies, Carries
<1>3. Now \in Nat \ {0} /\ (held[c].data = "broken" => held[c].server = "graphql")
  BY <1>1, <1>2, SendableData DEF CoreInv, Now, Carries
<1>4. Fitting(held[c].server, Replaced(items[held[c].id], held[c], Now))
  BY <1>1, <1>2, <1>3, ReplacedItem DEF Fitting
<1>5. QED
  BY <1>1, <1>4, PutKeeps DEF WriteBack

LEMMA RequestsCarry ==
    ASSUME NEW server \in Servers, NEW body \in Requests(server)
    PROVE  Carries(server, body)
BY ProtocolsAssumption DEF Requests, Carries

LEMMA NextKeeps == CoreInv /\ [Next]_vars => CoreInv'
<1>1. SUFFICES ASSUME CoreInv, Next \/ UNCHANGED vars PROVE CoreInv'
  OBVIOUS
<1>2. CASE \E server \in Servers, id \in Ids : \E body \in Requests(server) :
              Create(server, id, body) \/ Update(server, id, body)
  BY <1>1, <1>2, RequestsCarry, WritesKeep
<1>3. CASE \E server \in Servers, id \in Ids : Delete(server, id)
  BY <1>1, <1>3, DeleteKeeps
<1>4. CASE \E server \in Servers, id \in Ids, c \in Clients : Read(c, server, id)
  BY <1>1, <1>4, ReadKeeps
<1>5. CASE \E id \in Ids, body \in Requests("rest") : Upsert(id, body)
  <2>1. "rest" \in Servers
    BY DEF Servers
  <2>2. QED
    BY <1>1, <1>5, <2>1, RequestsCarry, UpsertKeeps
<1>6. CASE \E c \in Clients : WriteBack(c)
  BY <1>1, <1>6, WriteBackKeepsInv
<1>7. CASE UNCHANGED vars
  BY <1>1, <1>7 DEF vars, CoreInv, TypeOK, ItemsInv, CopiesInv
<1>8. QED
  BY <1>1, <1>2, <1>3, <1>4, <1>5, <1>6, <1>7 DEF Next

-----------------------------------------------------------------------------
(* The commands.                                                           *)

Bare(body) ==
    body.name \in Names \union {NoName} /\ body.labels = NilLabels /\ body.data = NoData

LEMMA BareCarries ==
    ASSUME NEW server \in Servers, NEW body, Bare(body)
    PROVE  Carries(server, body)
BY DEF Bare, Carries, Sendable, Servers

Command == [phase : {"idle", "sent", "unsent", "answered", "timed out"}, server : Servers,
            verbose : BOOLEAN, todo : Seq(Ops("rest")), size : Nat,
            outcomes : Seq({"ok", "invalid", "missing"}), applied : Nat, exit : {0, 1, NoExit}]

\* What the outcomes so far say of the changes that were made.
Counted(k) ==
    /\ k.size = Len(k.outcomes) + Len(k.todo) /\ k.size > 0
    /\ k.server # "graphql" => k.size = 1
    /\ k.applied <= Len(k.outcomes)
    /\ k.applied = Len(k.outcomes) <=> ~ Failed(k.outcomes)

Accounted(k) ==
    /\ k.phase \in {"sent", "answered", "timed out"} => Counted(k)
    /\ k.phase = "answered" =>
          k.todo = <<>> /\ k.exit = ExitStatus(k.server, k.verbose, k.outcomes)
    /\ k.phase = "unsent" => k.exit = 1 /\ k.applied = 0 /\ k.size > 0

CommandsInv == \A p \in Commands : cmd[p] \in Command /\ Accounted(cmd[p])

ClientInv == CoreInv /\ cmd \in [Commands -> Command] /\ CommandsInv

\* The exit status of an answered command is 0 exactly if no operation failed.
LEMMA ExitFitsOutcomes ==
    ASSUME NEW server \in Servers, NEW verbose \in BOOLEAN,
           NEW outcomes \in Seq({"ok", "invalid", "missing"}),
           Len(outcomes) > 0, server # "graphql" => Len(outcomes) = 1, server = "graphql" => verbose
    PROVE  ExitStatus(server, verbose, outcomes) = 0 <=> ~ Failed(outcomes)
<1>1. outcomes[1] \in {"ok", "invalid", "missing"} /\ 1 \in DOMAIN outcomes
  OBVIOUS
<1>2. server # "graphql" => (Failed(outcomes) <=> outcomes[1] # "ok")
  BY <1>1 DEF Failed
<1>3. CASE server = "rest"
  <2>1. RestExit(outcomes[1]) = 0 <=> outcomes[1] = "ok"
    BY <1>1 DEF RestExit, Status
  <2>2. QED
    BY <1>2, <1>3, <2>1 DEF ExitStatus
<1>4. CASE server = "grpc"
  BY <1>2, <1>4 DEF ExitStatus, GrpcExit
<1>5. CASE server = "graphql"
  BY <1>5 DEF ExitStatus, GraphQLExit
<1>6. QED
  BY <1>3, <1>4, <1>5 DEF Servers

LEMMA ApplyKeeps ==
    ASSUME CoreInv, NEW server \in Servers, NEW op \in Ops("rest"), Apply(server, op)
    PROVE  CoreInv' /\ commits' = commits + 1
<1>1. /\ op.id \in Ids /\ Bare(op.body) /\ op.kind \in {"create", "update", "delete", "upsert"}
      /\ "rest" \in Servers
  BY DEF Ops, OpKinds, Bare, Servers
<1>2. CASE op.kind = "create"
  <2>1. PICK id \in Ids : Create(server, id, op.body)
    BY <1>2 DEF Apply
  <2>2. QED
    BY <1>1, <2>1, BareCarries, WritesKeep DEF Create, Put, Now
<1>3. CASE op.kind = "update"
  <2>1. Update(server, op.id, op.body)
    BY <1>3 DEF Apply
  <2>2. QED
    BY <1>1, <2>1, BareCarries, WritesKeep DEF Update, Put, Now
<1>4. CASE op.kind = "upsert"
  <2>1. Upsert(op.id, op.body)
    BY <1>4 DEF Apply
  <2>2. QED
    BY <1>1, <2>1, BareCarries, UpsertKeeps DEF Upsert, Put, Now
<1>5. CASE op.kind = "delete"
  <2>1. Delete(server, op.id)
    BY <1>5 DEF Apply
  <2>2. QED
    BY <1>1, <2>1, DeleteKeeps DEF Delete, Put, Now
<1>6. QED
  BY <1>1, <1>2, <1>3, <1>4, <1>5

\* Other callers, next to commands.
LEMMA BesideKeeps == CoreInv /\ Beside => CoreInv'
<1>1. SUFFICES ASSUME CoreInv, NEW server \in Servers, NEW id \in Ids, NEW name \in Names,
                      NEW body, body = [name |-> name, labels |-> NilLabels, data |-> NoData],
                      \/ Create(server, id, body) \/ Update(server, id, body) \/ Delete(server, id)
                      \/ \E c \in Clients : Read(c, server, id)
               PROVE  CoreInv'
  BY DEF Beside
<1>2. Carries(server, body)
  BY <1>1, BareCarries DEF Bare
<1>3. QED
  BY <1>1, <1>2, WritesKeep, DeleteKeeps, ReadKeeps

\* A command changes: the store stays as sound as it was.
LEMMA CommandMoves ==
    ASSUME ClientInv, CoreInv', NEW p \in Commands, NEW k \in Command, Accounted(k),
           cmd' = [cmd EXCEPT ![p] = k]
    PROVE  ClientInv'
BY DEF ClientInv, CommandsInv

LEMMA StartKeeps ==
    ASSUME ClientInv, NEW p \in Commands, Start(p)
    PROVE  ClientInv'
<1>1. CoreInv'
  BY DEF Start, ClientInv, vars, CoreInv, TypeOK, ItemsInv, CopiesInv
<1> DEFINE Sent(server, document) == server = "grpc" => ~ Head(document).malformed
           Started(server, verbose, document, sent) ==
               [Idle EXCEPT !.server = server, !.verbose = verbose, !.size = Len(document),
                            !.phase = IF sent THEN "sent" ELSE "unsent",
                            !.todo  = IF sent THEN document ELSE <<>>,
                            !.exit  = IF sent THEN NoExit ELSE 1]
<1>2. PICK server \in Servers, verbose \in BOOLEAN : \E document \in Documents(server) :
         cmd' = [cmd EXCEPT ![p] = Started(server, verbose, document, Sent(server, document))]
  BY DEF Start
<1>3. PICK document \in Documents(server) :
         cmd' = [cmd EXCEPT ![p] = Started(server, verbose, document, Sent(server, document))]
  BY <1>2
<1>4. Ops(server) \subseteq Ops("rest")
  BY DEF Ops, OpKinds
<1>5. /\ document \in Seq(Ops("rest")) /\ Len(document) > 0
      /\ server # "graphql" => Len(document) = 1
  <2>1. CASE \E op \in Ops(server) : document = <<op>>
    BY <1>4, <2>1
  <2>2. CASE server = "graphql" /\ document \in Ops(server) \X Ops(server)
    <3>1. PICK a \in Ops(server), b \in Ops(server) : document = <<a, b>>
      BY <2>2
    <3>2. a \in Ops("rest") /\ b \in Ops("rest")
      BY <1>4
    <3>3. QED
      BY <2>2, <3>1, <3>2
  <2>3. QED
    BY <2>1, <2>2 DEF Documents
<1> DEFINE sent == Sent(server, document)
           k == Started(server, verbose, document, sent)
<1>6. cmd' = [cmd EXCEPT ![p] = k]
  BY <1>3
<1>7. sent \in BOOLEAN
  OBVIOUS
<1> HIDE DEF sent
<1>8. k \in Command
  <2>1. /\ (IF sent THEN document ELSE <<>>) \in Seq(Ops("rest")) /\ Len(document) \in Nat
        /\ (IF sent THEN "sent" ELSE "unsent") \in {"sent", "unsent"}
        /\ (IF sent THEN NoExit ELSE 1) \in {0, 1, NoExit}
    BY <1>5
  <2>2. Idle \in Command
    BY DEF Idle, Command, Servers
  <2>3. QED
    BY <2>1, <2>2 DEF Command
<1>9. /\ k.server = server /\ k.size = Len(document) /\ k.outcomes = <<>> /\ k.applied = 0
      /\ k.phase = IF sent THEN "sent" ELSE "unsent"
      /\ k.todo = IF sent THEN document ELSE <<>>
      /\ k.exit = IF sent THEN NoExit ELSE 1
  BY DEF Idle
<1> HIDE DEF k
<1>10. Accounted(k)
  <2>1. ~ Failed(<<>>)
    BY DEF Failed
  <2>2. CASE sent
    BY <1>5, <1>9, <2>1, <2>2 DEF Accounted, Counted
  <2>3. CASE ~ sent
    BY <1>5, <1>9, <2>3 DEF Accounted
  <2>4. QED
    BY <2>2, <2>3
<1>11. QED
  BY <1>1, <1>6, <1>8, <1>10, CommandMoves

LEMMA PerformKeeps ==
    ASSUME ClientInv, NEW p \in Commands, Perform(p)
    PROVE  ClientInv'
<1> DEFINE old == cmd[p]
           op == Head(old.todo)
           refusal == Refusal(old.server, op)
<1>1. /\ old \in Command /\ Accounted(old)
      /\ old.phase \in {"sent", "timed out"} /\ old.todo # <<>>
  BY DEF ClientInv, CommandsInv, Perform
<1>2. /\ old.todo \in Seq(Ops("rest")) /\ old.outcomes \in Seq({"ok", "invalid", "missing"})
      /\ old.server \in Servers /\ old.applied \in Nat /\ old.size \in Nat
  BY <1>1 DEF Command
<1>3. op \in Ops("rest") /\ Tail(old.todo) \in Seq(Ops("rest"))
      /\ Len(Tail(old.todo)) = Len(old.todo) - 1
  BY <1>1, <1>2, HeadTailProperties
<1>4. PICK outcome \in {"ok", "invalid", "missing"} :
         /\ cmd' = [cmd EXCEPT ![p].todo = Tail(@), ![p].outcomes = Append(@, outcome),
                               ![p].applied = @ + (commits' - commits)]
         /\ CoreInv' /\ commits' = IF outcome = "ok" THEN commits + 1 ELSE commits
  <2>1. refusal \in {"no", "invalid", "missing"}
    BY DEF Refusal
  <2>2. CASE refusal = "no"
    <3>1. Apply(old.server, op)
      BY <2>2 DEF Perform
    <3>2. CoreInv' /\ commits' = commits + 1
      BY <1>2, <1>3, <3>1, ApplyKeeps DEF ClientInv
    <3>3. QED
      BY <2>2, <3>2 DEF Perform
  <2>3. CASE refusal # "no"
    <3>1. UNCHANGED vars
      BY <2>3 DEF Perform
    <3>2. CoreInv' /\ commits' = commits
      BY <3>1 DEF ClientInv, vars, CoreInv, TypeOK, ItemsInv, CopiesInv
    <3>3. refusal \in {"invalid", "missing"}
      BY <2>1, <2>3
    <3>4. cmd' = [cmd EXCEPT ![p].todo = Tail(@), ![p].outcomes = Append(@, refusal),
                             ![p].applied = @ + (commits' - commits)]
      BY <2>3 DEF Perform
    <3>5. QED
      BY <3>2, <3>3, <3>4
  <2>4. QED
    BY <2>2, <2>3
<1> DEFINE outcomes == Append(old.outcomes, outcome)
           applied == old.applied + (commits' - commits)
           todo == Tail(old.todo)
           k == [old EXCEPT !.todo = todo, !.outcomes = outcomes, !.applied = applied]
<1>5. cmd' = [cmd EXCEPT ![p] = k]
  BY <1>4 DEF ClientInv
<1>6. /\ applied = IF outcome = "ok" THEN old.applied + 1 ELSE old.applied
      /\ outcomes \in Seq({"ok", "invalid", "missing"})
  <2>1. commits \in Nat
    BY DEF ClientInv, CoreInv
  <2>2. QED
    BY <1>2, <1>4, <2>1
<1>7. Len(outcomes) = Len(old.outcomes) + 1 /\ Len(todo) = Len(old.todo) - 1
  BY <1>2, <1>3, AppendProperties
<1>8. Failed(outcomes) <=> Failed(old.outcomes) \/ outcome # "ok"
  <2>1. /\ \A i \in 1 .. Len(old.outcomes) : outcomes[i] = old.outcomes[i]
        /\ outcomes[Len(old.outcomes) + 1] = outcome
        /\ DOMAIN outcomes = 1 .. Len(old.outcomes) + 1
        /\ DOMAIN old.outcomes = 1 .. Len(old.outcomes) /\ Len(old.outcomes) \in Nat
    BY <1>2, <1>6, <1>7
  <2> HIDE DEF outcomes
  <2>2. QED
    BY <2>1 DEF Failed
<1> HIDE DEF outcomes, applied, todo
<1>9. /\ k.phase = old.phase /\ k.server = old.server /\ k.size = old.size
      /\ k.todo = todo /\ k.outcomes = outcomes /\ k.applied = applied
  BY <1>1 DEF Command
<1>10. k \in Command
  <2>1. applied \in Nat /\ todo \in Seq(Ops("rest"))
    BY <1>2, <1>6, <1>3 DEF todo
  <2>2. QED
    BY <1>1, <1>6, <2>1 DEF Command
<1> HIDE DEF k
<1>11. Counted(k)
  <2>1. Counted(old) /\ Len(old.todo) \in Nat /\ Len(old.outcomes) \in Nat
    <3>1. Len(old.todo) \in Nat /\ Len(old.outcomes) \in Nat
      BY <1>2, LenProperties
    <3>2. Counted(old)
      BY <1>1 DEF Accounted
    <3>3. QED
      BY <3>1, <3>2
  <2>2. old.size = Len(old.outcomes) + Len(old.todo) /\ old.size > 0
    BY <2>1 DEF Counted
  <2>3. old.server # "graphql" => old.size = 1
    BY <2>1 DEF Counted
  <2>4. /\ k.size = Len(k.outcomes) + Len(k.todo) /\ k.size > 0
        /\ k.server # "graphql" => k.size = 1
    <3>1. k.size = Len(k.outcomes) + Len(k.todo)
      <4>1. Len(k.outcomes) = Len(old.outcomes) + 1
        BY <1>9, <1>7
      <4>2. Len(k.todo) = Len(old.todo) - 1
        BY <1>9, <1>7
      <4>3. Len(old.outcomes) + Len(old.todo) = (Len(old.outcomes) + 1) + (Len(old.todo) - 1)
        <5>1. \A a, b \in Nat : a + b = (a + 1) + (b - 1)
          OBVIOUS
        <5>2. QED
          BY <2>1, <5>1, Zenon
      <4>4. k.size = Len(old.outcomes) + Len(old.todo)
        BY <1>9, <2>2
      <4>5. QED
        BY <4>1, <4>2, <4>3, <4>4
    <3>2. k.size > 0
      BY <1>9, <2>2
    <3>3. k.server # "graphql" => k.size = 1
      BY <1>9, <2>3
    <3>4. QED
      BY <3>1, <3>2, <3>3
  <2>5. k.applied <= Len(k.outcomes)
    BY <1>2, <1>6, <1>9, <1>7, <2>1 DEF Counted
  <2>6. k.applied = Len(k.outcomes) <=> ~ Failed(k.outcomes)
    BY <1>2, <1>6, <1>9, <1>7, <1>8, <2>1 DEF Counted
  <2>7. QED
    BY <2>4, <2>5, <2>6 DEF Counted
<1>12. Accounted(k)
  BY <1>1, <1>9, <1>11 DEF Accounted
<1>13. QED
  BY <1>4, <1>5, <1>10, <1>12, CommandMoves

LEMMA AnsweredKeeps ==
    ASSUME ClientInv, NEW p \in Commands, Answered(p) \/ TimeOut(p)
    PROVE  ClientInv'
<1>1. CoreInv'
  BY DEF Answered, TimeOut, ClientInv, vars, CoreInv, TypeOK, ItemsInv, CopiesInv
<1>2. cmd[p] \in Command /\ Accounted(cmd[p]) /\ cmd[p].phase = "sent"
  BY DEF ClientInv, CommandsInv, Answered, TimeOut
<1>3. CASE Answered(p)
  <2> DEFINE exit == ExitStatus(cmd[p].server, cmd[p].verbose, cmd[p].outcomes)
             k == [cmd[p] EXCEPT !.phase = "answered", !.exit = exit]
  <2>1. cmd' = [cmd EXCEPT ![p] = k] /\ cmd[p].todo = <<>>
    BY <1>3 DEF Answered, ClientInv
  <2>2. exit \in {0, 1}
    BY <1>2 DEF ExitStatus, RestExit, GrpcExit, GraphQLExit, Command, Servers
  <2>3. /\ k \in Command /\ k.phase = "answered" /\ k.exit = exit /\ k.todo = <<>>
        /\ k.server = cmd[p].server /\ k.verbose = cmd[p].verbose /\ k.size = cmd[p].size
        /\ k.outcomes = cmd[p].outcomes /\ k.applied = cmd[p].applied
    BY <1>2, <2>1, <2>2 DEF Command
  <2> HIDE DEF k
  <2>4. Accounted(k)
    BY <1>2, <2>1, <2>3 DEF Accounted, Counted
  <2>5. QED
    BY <1>1, <2>1, <2>3, <2>4, CommandMoves
<1>4. CASE TimeOut(p)
  <2> DEFINE k == [cmd[p] EXCEPT !.phase = "timed out", !.exit = 1]
  <2>1. cmd' = [cmd EXCEPT ![p] = k]
    BY <1>4 DEF TimeOut, ClientInv
  <2>2. /\ k \in Command /\ k.phase = "timed out" /\ k.todo = cmd[p].todo
        /\ k.server = cmd[p].server /\ k.size = cmd[p].size
        /\ k.outcomes = cmd[p].outcomes /\ k.applied = cmd[p].applied
    BY <1>2 DEF Command
  <2> HIDE DEF k
  <2>3. Accounted(k)
    BY <1>2, <2>2 DEF Accounted, Counted
  <2>4. QED
    BY <1>1, <2>1, <2>2, <2>3, CommandMoves
<1>5. QED
  BY <1>3, <1>4

LEMMA ClientInitially == ClientInit => ClientInv
<1>1. SUFFICES ASSUME ClientInit PROVE ClientInv
  OBVIOUS
<1>2. Idle \in Command
  BY DEF Idle, Command, Servers
<1>3. Accounted(Idle)
  BY DEF Idle, Accounted
<1>4. QED
  BY <1>1, <1>2, <1>3, CoreInitially DEF ClientInit, ClientInv, CommandsInv

LEMMA ClientNextKeeps == ClientInv /\ [ClientNext]_clientVars => ClientInv'
<1>1. SUFFICES ASSUME ClientInv, ClientNext \/ UNCHANGED clientVars PROVE ClientInv'
  OBVIOUS
<1>2. CASE (Next \/ Beside) /\ UNCHANGED cmd
  <2>1. CoreInv'
    BY <1>1, <1>2, NextKeeps, BesideKeeps DEF ClientInv
  <2>2. QED
    BY <1>1, <1>2, <2>1 DEF ClientInv, CommandsInv
<1>3. CASE \E p \in Commands : Start(p)
  BY <1>1, <1>3, StartKeeps
<1>4. CASE \E p \in Commands : Perform(p)
  BY <1>1, <1>4, PerformKeeps
<1>5. CASE \E p \in Commands : Answered(p) \/ TimeOut(p)
  BY <1>1, <1>5, AnsweredKeeps
<1>6. CASE UNCHANGED clientVars
  BY <1>1, <1>6 DEF clientVars, vars, ClientInv, CommandsInv, CoreInv, TypeOK, ItemsInv, CopiesInv
<1>7. QED
  BY <1>1, <1>2, <1>3, <1>4, <1>5, <1>6 DEF ClientNext

LEMMA ClientsStayOrderly == ClientSpec => []ClientInv
BY ClientInitially, ClientNextKeeps, PTL DEF ClientSpec

-----------------------------------------------------------------------------
(* What the runs check.                                                    *)

\* Whatever protocols wrote it, no stored item has a nil label map, and every
\* copy could be sent over the protocol it was read over.
THEOREM ProtocolTypes == ClientSpec => []TypeOK
BY ClientsStayOrderly, PTL DEF ClientInv, CoreInv

\* An item that REST cannot encode owes its data to a GraphQL mutation.
THEOREM GraphQLAloneBreaks == ClientSpec => []OnlyGraphQLBreaks
<1>1. ClientInv => OnlyGraphQLBreaks
  <2>1. SUFFICES ASSUME ClientInv, NEW id \in Ids, items[id] # NoItem,
                        Shown("rest", items[id].data) = Unreadable
                 PROVE  source[id] = "graphql"
    BY DEF OnlyGraphQLBreaks
  <2>2. items[id].data \in Payloads \union {NoData} /\ "rest" \in Servers
    BY <2>1 DEF ClientInv, CoreInv, TypeOK, Item, Servers
  <2>3. QED
    BY <2>1, <2>2, ShownData DEF ClientInv, CoreInv, ItemsInv
<1>2. QED
  BY <1>1, ClientsStayOrderly, PTL

\* Writing back what was read leaves the content as it was, but for data that
\* a Struct cannot carry.
THEOREM CopiesComeBack == ClientSpec => WriteBackKeeps
<1> DEFINE Kept(c) ==
       \/ held[c].updated # items[held[c].id].updated
       \/ held[c].server = "grpc" /\ items[held[c].id].data \notin Objects \union {NoData}
       \/ Content(items'[held[c].id]) = Content(items[held[c].id])
<1>1. ClientInv => \A c \in Clients : WriteBack(c) => Kept(c)
  <2>1. SUFFICES ASSUME ClientInv, NEW c \in Clients, WriteBack(c),
                        held[c].updated = items[held[c].id].updated,
                        ~ (held[c].server = "grpc"
                              /\ items[held[c].id].data \notin Objects \union {NoData})
                 PROVE  Content(items'[held[c].id]) = Content(items[held[c].id])
    OBVIOUS
  <2> DEFINE copy == held[c]
             old == items[copy.id]
  <2>2. copy # NoCopy /\ old # NoItem /\ copy.id \in Ids /\ copy.server \in Servers /\ old \in Item
    BY <2>1 DEF WriteBack, ClientInv, CoreInv, TypeOK, Copies
  <2>3. IsCopy(copy, old)
    BY <2>1, <2>2 DEF ClientInv, CoreInv, CopiesInv
  <2>4. copy.name = old.name /\ copy.labels = old.labels /\ old.labels \in LabelMaps
    BY <2>2, <2>3 DEF IsCopy, Item
  <2>5. copy.data = old.data
    BY <2>1, <2>2, <2>3, ShownData DEF IsCopy, Item
  <2>6. items'[copy.id] = Replaced(old, copy, Now)
    BY <2>1, <2>2 DEF WriteBack, Put, ClientInv, CoreInv, TypeOK
  <2>7. QED
    BY <2>2, <2>4, <2>5, <2>6, OrEmptyType DEF Content, Replaced, Item
<1>2. QED
  BY <1>1, ClientsStayOrderly, PTL DEF WriteBackKeeps

\* The exit status of a command that got its answer is 0 exactly if every
\* operation of the request changed the store.
THEOREM ExitsAreTrue == ClientSpec => []ExitTellsOutcome
<1>1. ClientInv => ExitTellsOutcome
  <2>1. SUFFICES ASSUME ClientInv, NEW p \in Commands, cmd[p].phase \in {"answered", "unsent"},
                        cmd[p].server = "graphql" => cmd[p].verbose
                 PROVE  cmd[p].exit = 0 <=> cmd[p].applied = cmd[p].size
    BY DEF ExitTellsOutcome
  <2>2. cmd[p] \in Command /\ Accounted(cmd[p])
    BY <2>1 DEF ClientInv, CommandsInv
  <2>3. CASE cmd[p].phase = "answered"
    <3>1. /\ Counted(cmd[p]) /\ cmd[p].todo = <<>>
          /\ cmd[p].exit = ExitStatus(cmd[p].server, cmd[p].verbose, cmd[p].outcomes)
      BY <2>2, <2>3 DEF Accounted
    <3>2. /\ cmd[p].server \in Servers /\ cmd[p].verbose \in BOOLEAN
          /\ cmd[p].outcomes \in Seq({"ok", "invalid", "missing"})
      BY <2>2 DEF Command
    <3>3. /\ Len(cmd[p].outcomes) = cmd[p].size /\ cmd[p].size > 0
          /\ cmd[p].server # "graphql" => cmd[p].size = 1
          /\ cmd[p].applied = cmd[p].size <=> ~ Failed(cmd[p].outcomes)
      BY <3>1, <3>2 DEF Counted
    <3>4. QED
      BY <2>1, <3>1, <3>2, <3>3, ExitFitsOutcomes
  <2>4. CASE cmd[p].phase = "unsent"
    <3>1. cmd[p].exit = 1 /\ cmd[p].applied = 0 /\ cmd[p].size > 0
      BY <2>2, <2>4 DEF Accounted
    <3>2. cmd[p].size \in Nat
      BY <2>2 DEF Command
    <3>3. cmd[p].exit # 0
      BY <3>1
    <3>4. cmd[p].applied # cmd[p].size
      BY <3>1, <3>2
    <3>5. QED
      BY <3>3, <3>4
  <2>5. QED
    BY <2>1, <2>3, <2>4
<1>2. QED
  BY <1>1, ClientsStayOrderly, PTL

-----------------------------------------------------------------------------
(* The store the protocols take for granted.                               *)

Atomic == INSTANCE AtomicItems

LEMMA SameData ==
    /\ Atomic!Body = Body /\ Atomic!Now = Now
    /\ \A id, old, body, now :
          /\ Atomic!Created(id, body, now) = Created(id, body, now)
          /\ Atomic!Replaced(old, body, now) = Replaced(old, body, now)
          /\ Atomic!Merged(old, body, now) = Merged(old, body, now)
BY DEF Atomic!Body, Body, Atomic!LabelMaps, LabelMaps, Atomic!Now, Now,
       Atomic!Created, Created, Atomic!Replaced, Replaced, Atomic!Merged, Merged,
       Atomic!OrEmpty, OrEmpty, Atomic!NoLabels, NoLabels, Atomic!Overlay, Overlay

\* A change by a body is one of the calls of the atomic store, as a deletion is.
LEMMA ChangeIsAtomic ==
    ASSUME NEW id \in Ids, NEW body \in Body, NEW new,
           commits' = Now, items' = [items EXCEPT ![id] = new],
           \/ items[id] = NoItem /\ new = Created(id, body, Now)
           \/ items[id] # NoItem /\ new = Replaced(items[id], body, Now)
           \/ items[id] # NoItem /\ new = Merged(items[id], body, Now)
    PROVE  Atomic!Next
<1>1. Atomic!Store(id, new)
  BY SameData DEF Atomic!Store
<1>2. Atomic!Create(id, body) \/ Atomic!Update(id, body) \/ Atomic!Upsert(id, body)
  BY <1>1, SameData DEF Atomic!Create, Atomic!Update, Atomic!Upsert
<1>3. QED
  BY <1>2, SameData DEF Atomic!Next

LEMMA DeletionIsAtomic ==
    ASSUME NEW id \in Ids, items[id] # NoItem,
           commits' = Now, items' = [items EXCEPT ![id] = NoItem]
    PROVE  Atomic!Next
<1>1. Atomic!Delete(id)
  BY SameData DEF Atomic!Delete, Atomic!Store
<1>2. QED
  BY <1>1 DEF Atomic!Next

\* The store is called with what a request or a copy carries.
LEMMA CarriedIsAtomic ==
    ASSUME NEW server \in Servers, NEW id \in Ids, NEW body, Carries(server, body),
           Create(server, id, body) \/ Update(server, id, body)
               \/ (Upsert(id, body) /\ server = "rest")
    PROVE  Atomic!Next
<1> DEFINE bare == [name |-> body.name, labels |-> body.labels, data |-> body.data]
<1>1. bare \in Body
  BY SendableData DEF Carries, Body
<1>2. /\ Created(id, body, Now) = Created(id, bare, Now)
      /\ Replaced(items[id], body, Now) = Replaced(items[id], bare, Now)
      /\ Merged(items[id], body, Now) = Merged(items[id], bare, Now)
  BY DEF Created, Replaced, Merged
<1> HIDE DEF bare
<1>3. QED
  BY <1>1, <1>2, ChangeIsAtomic DEF Create, Update, Upsert, Put

LEMMA DeleteIsAtomic ==
    ASSUME NEW server \in Servers, NEW id \in Ids, Delete(server, id)
    PROVE  Atomic!Next
BY DeletionIsAtomic DEF Delete, Put

LEMMA CallersAreAtomic ==
    ASSUME CoreInv, Next \/ Beside
    PROVE  Atomic!Next \/ UNCHANGED <<items, commits>>
<1>1. ASSUME NEW server \in Servers, NEW id \in Ids, NEW body \in Requests(server),
             Create(server, id, body) \/ Update(server, id, body)
      PROVE  Atomic!Next
  BY <1>1, RequestsCarry, CarriedIsAtomic
<1>2. ASSUME NEW id \in Ids, NEW body \in Requests("rest"), Upsert(id, body)
      PROVE  Atomic!Next
  <2>1. "rest" \in Servers
    BY DEF Servers
  <2>2. QED
    BY <1>2, <2>1, RequestsCarry, CarriedIsAtomic
<1>3. ASSUME NEW server \in Servers, NEW id \in Ids, Delete(server, id)
      PROVE  Atomic!Next
  BY <1>3, DeleteIsAtomic
<1>4. ASSUME NEW c \in Clients, NEW server \in Servers, NEW id \in Ids, Read(c, server, id)
      PROVE  UNCHANGED <<items, commits>>
  BY <1>4 DEF Read
<1>5. ASSUME NEW c \in Clients, WriteBack(c)
      PROVE  Atomic!Next
  <2>1. /\ held[c].id \in Ids /\ held[c].server \in Servers
        /\ Carries(held[c].server, held[c])
    <3>1. held[c] \in Copies
      BY <1>5 DEF WriteBack, CoreInv
    <3>2. QED
      BY <1>5, <3>1 DEF WriteBack, CoreInv, TypeOK, Copies, Carries
  <2>2. Put(held[c].server, held[c].id, Replaced(items[held[c].id], held[c], Now))
        /\ items[held[c].id] # NoItem
    BY <1>5 DEF WriteBack
  <2> DEFINE bare == [name |-> held[c].name, labels |-> held[c].labels, data |-> held[c].data]
  <2>3. bare \in Body
    BY <2>1, SendableData DEF Carries, Body
  <2>4. Replaced(items[held[c].id], held[c], Now) = Replaced(items[held[c].id], bare, Now)
    BY DEF Replaced
  <2> HIDE DEF bare
  <2>5. QED
    BY <2>1, <2>2, <2>3, <2>4, ChangeIsAtomic DEF Put
<1>6. ASSUME NEW server \in Servers, NEW id \in Ids, NEW name \in Names, NEW body,
             body = [name |-> name, labels |-> NilLabels, data |-> NoData],
             Create(server, id, body) \/ Update(server, id, body)
      PROVE  Atomic!Next
  BY <1>6, BareCarries, CarriedIsAtomic DEF Bare
<1>7. CASE Next
  BY <1>1, <1>2, <1>3, <1>4, <1>5, <1>7 DEF Next
<1>8. CASE Beside
  BY <1>3, <1>4, <1>6, <1>8 DEF Beside
<1>9. QED
  BY <1>7, <1>8

LEMMA ApplyIsAtomic ==
    ASSUME NEW server \in Servers, NEW op \in Ops("rest"), Apply(server, op)
    PROVE  Atomic!Next
<1>1. /\ op.id \in Ids /\ Bare(op.body) /\ op.kind \in {"create", "update", "delete", "upsert"}
      /\ "rest" \in Servers
  BY DEF Ops, OpKinds, Bare, Servers
<1>2. CASE op.kind = "create"
  BY <1>1, <1>2, BareCarries, CarriedIsAtomic DEF Apply
<1>3. CASE op.kind = "update"
  BY <1>1, <1>3, BareCarries, CarriedIsAtomic DEF Apply
<1>4. CASE op.kind = "upsert"
  BY <1>1, <1>4, BareCarries, CarriedIsAtomic DEF Apply
<1>5. CASE op.kind = "delete"
  BY <1>1, <1>5, DeleteIsAtomic DEF Apply
<1>6. QED
  BY <1>1, <1>2, <1>3, <1>4, <1>5

LEMMA CommandsAreAtomic ==
    ASSUME ClientInv, NEW p \in Commands,
           Start(p) \/ Perform(p) \/ Answered(p) \/ TimeOut(p)
    PROVE  Atomic!Next \/ UNCHANGED <<items, commits>>
<1>1. CASE Start(p) \/ Answered(p) \/ TimeOut(p)
  BY <1>1 DEF Start, Answered, TimeOut, vars
<1>2. CASE Perform(p)
  <2>1. cmd[p].todo \in Seq(Ops("rest")) /\ cmd[p].todo # <<>> /\ cmd[p].server \in Servers
    BY <1>2 DEF Perform, ClientInv, CommandsInv, Command
  <2>2. Head(cmd[p].todo) \in Ops("rest")
    BY <2>1, HeadTailProperties
  <2>3. Apply(cmd[p].server, Head(cmd[p].todo)) \/ UNCHANGED vars
    BY <1>2 DEF Perform
  <2>4. QED
    BY <2>1, <2>2, <2>3, ApplyIsAtomic DEF vars
<1>3. QED
  BY <1>1, <1>2

\* The callers of all three protocols and the commands, those that have given
\* up included, change the items by calls of the store alone.
THEOREM ProtocolsUseTheStore == ClientSpec => Atomic!Spec
<1>1. ClientInit => Atomic!Init
  BY DEF ClientInit, Init, Atomic!Init
<1>2. ClientInv /\ [ClientNext]_clientVars => [Atomic!Next]_(Atomic!vars)
  <2>1. SUFFICES ASSUME ClientInv, ClientNext \/ UNCHANGED clientVars
                 PROVE  Atomic!Next \/ UNCHANGED <<items, commits>>
    BY DEF Atomic!vars
  <2>2. CASE Next \/ Beside
    BY <2>1, <2>2, CallersAreAtomic DEF ClientInv
  <2>3. CASE UNCHANGED clientVars
    BY <2>3 DEF clientVars, vars
  <2>4. QED
    BY <2>1, <2>2, <2>3, CommandsAreAtomic DEF ClientNext
<1>3. QED
  BY <1>1, <1>2, ClientsStayOrderly, PTL DEF ClientSpec, Atomic!Spec
=============================================================================
