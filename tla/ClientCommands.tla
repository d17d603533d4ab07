--------------------------- MODULE ClientCommands ---------------------------
(***************************************************************************)
(* The commands that change items: `rest post|put|patch|delete`, `grpc     *)
(* call` and `graphql mutate` (internal/cli with internal/client), run     *)
(* beside the callers of Protocols.  Each sends one request, waits for the *)
(* answer no longer than its timeout and ends with an exit status.         *)
(*                                                                         *)
(* A REST request or a gRPC call is one operation; a GraphQL document      *)
(* holds one or two mutations, performed one after the other, the second   *)
(* whatever comes of the first.                                            *)
(***************************************************************************)
EXTENDS Protocols, Sequences

CONSTANTS
    Commands, \* the processes, each of which runs one command
    NoExit    \* the process has not ended

VARIABLE
    cmd \* cmd[p]: the command of process p and how far it has come

clientVars == <<vars, cmd>>

OpKinds(server) ==
    {"create", "update", "delete"} \union (IF server = "rest" THEN {"upsert"} ELSE {})

\* Bodies on command lines: a name or none.  Malformed stands for a body, a
\* message or an argument that is no JSON.
Ops(server) ==
    [kind : OpKinds(server), id : Ids, malformed : BOOLEAN,
     body : [name : Names \union {NoName}, labels : {NilLabels}, data : {NoData}]]

Idle == [phase |-> "idle", server |-> "rest", verbose |-> FALSE, todo |-> <<>>, size |-> 0,
         outcomes |-> <<>>, applied |-> 0, exit |-> NoExit]

ClientInit == Init /\ cmd = [p \in Commands |-> Idle]

-----------------------------------------------------------------------------
(* The server's part. *)

\* Why server does not perform op, or "no".  A delete has no body to decode.
Refusal(server, op) ==
    CASE op.malformed /\ op.kind # "delete"                                     -> "invalid"
      [] op.kind = "create" /\ op.body.name = NoName /\ server # "graphql"      -> "invalid"
      [] op.kind \in {"update", "delete"} /\ items[op.id] = NoItem              -> "missing"
      [] OTHER                                                                  -> "no"

\* Create finds an identifier of its own, the others have it in the request.
Apply(server, op) ==
    CASE op.kind = "create" -> \E id \in Ids : Create(server, id, op.body)
      [] op.kind = "update" -> Update(server, op.id, op.body)
      [] op.kind = "upsert" -> Upsert(op.id, op.body)
      [] op.kind = "delete" -> Delete(server, op.id)

\* The next operation of a request that was sent; that the client has given
\* up meanwhile makes no difference to the handlers.
Perform(p) ==
    /\ cmd[p].phase \in {"sent", "timed out"} /\ cmd[p].todo # <<>>
    /\ LET op == Head(cmd[p].todo)
           refusal == Refusal(cmd[p].server, op)
           Done(outcome) == cmd' = [cmd EXCEPT
               ![p].todo = Tail(@), ![p].outcomes = Append(@, outcome),
               ![p].applied = @ + (commits' - commits)]
       IN  IF refusal = "no"
           THEN Apply(cmd[p].server, op) /\ Done("ok")
           ELSE UNCHANGED vars /\ Done(refusal)

-----------------------------------------------------------------------------
(* The command's part. *)

NoneStarted == \A p \in Commands : cmd[p].phase = "idle"

Documents(server) ==
    {<<op>> : op \in Ops(server)}
    \union (IF server = "graphql" THEN Ops(server) \X Ops(server) ELSE {})

\* The request is built and sent.  Of gRPC alone the client parses it, and
\* ends at once if it cannot.  Bound: the first command starts on an empty
\* store; what the others then do fills it.
Start(p) ==
    /\ cmd[p].phase = "idle"
    /\ NoneStarted => commits = 0
    /\ \E server \in Servers, verbose \in BOOLEAN : \E document \in Documents(server) :
          LET sent == server = "grpc" => ~ Head(document).malformed
          IN  cmd' = [cmd EXCEPT ![p] =
                  [Idle EXCEPT !.server = server, !.verbose = verbose, !.size = Len(document),
                               !.phase = IF sent THEN "sent" ELSE "unsent",
                               !.todo  = IF sent THEN document ELSE <<>>,
                               !.exit  = IF sent THEN NoExit ELSE 1]]
    /\ UNCHANGED vars

\* Of the statuses of internal/server/rest, those that tell outcomes apart.
Status(outcome) ==
    CASE outcome = "ok" -> 200 [] outcome = "invalid" -> 400 [] outcome = "missing" -> 404

Failed(outcomes) == \E i \in DOMAIN outcomes : outcomes[i] # "ok"

\* Mutant: of the client errors, a bad request is let through.
RestExitAbove400(outcome) == IF Status(outcome) > 400 THEN 1 ELSE 0

RestExit(outcome) == IF Status(outcome) >= 400 THEN 1 ELSE 0

GrpcExit(outcome) == IF outcome = "ok" THEN 0 ELSE 1

\* The errors of a response fail the command only with --verbose.
GraphQLExit(verbose, outcomes) == IF verbose /\ Failed(outcomes) THEN 1 ELSE 0

ExitStatus(server, verbose, outcomes) ==
    CASE server = "rest"    -> RestExit(outcomes[1])
      [] server = "grpc"    -> GrpcExit(outcomes[1])
      [] server = "graphql" -> GraphQLExit(verbose, outcomes)

\* The answer arrives in time.
Answered(p) ==
    /\ cmd[p].phase = "sent" /\ cmd[p].todo = <<>>
    /\ cmd' = [cmd EXCEPT ![p].phase = "answered",
                          ![p].exit = ExitStatus(cmd[p].server, cmd[p].verbose, cmd[p].outcomes)]
    /\ UNCHANGED vars

\* It does not, or it is lost.
TimeOut(p) ==
    /\ cmd[p].phase = "sent"
    /\ cmd' = [cmd EXCEPT ![p].phase = "timed out", ![p].exit = 1]
    /\ UNCHANGED vars

\* What other callers do meanwhile.  Bound: next to commands they send names
\* only, since no payload makes a difference to an exit status.
Beside ==
    \E server \in Servers, id \in Ids, name \in Names :
        LET body == [name |-> name, labels |-> NilLabels, data |-> NoData]
        IN  \/ Create(server, id, body) \/ Update(server, id, body) \/ Delete(server, id)
            \/ \E c \in Clients : Read(c, server, id)

ClientNext ==
    \/ (IF NoneStarted THEN Next ELSE Beside) /\ UNCHANGED cmd
    \/ \E p \in Commands : Start(p) \/ Perform(p) \/ Answered(p) \/ TimeOut(p)

ClientSpec == ClientInit /\ [][ClientNext]_clientVars

-----------------------------------------------------------------------------
\* A command that got an answer, or whose request could not be built, exits
\* with 0 exactly if each operation it asked for changed the store, whatever
\* else happened to the items meanwhile; over GraphQL, with --verbose
\* (cli/rest.go:109-112, cli/grpc.go:96-102, cli/graphql.go:135-141).
ExitTellsOutcome ==
    \A p \in Commands :
        cmd[p].phase \in {"answered", "unsent"} /\ (cmd[p].server = "graphql" => cmd[p].verbose)
            => (cmd[p].exit = 0 <=> cmd[p].applied = cmd[p].size)
=============================================================================
