--------------------------- MODULE ServeCommands ----------------------------
(***************************************************************************)
(* The commands that run servers: `serve`, as ServeAll has it, and the     *)
(* single ones `http|rest|grpc|graphql|dns|identity serve` (internal/cli), *)
(* with the requests that reach the server of a single command.            *)
(*                                                                         *)
(* A single command registers for the signals after New, returns at once   *)
(* with the error of its server, and on Ctrl+C calls Shutdown itself and   *)
(* waits for that, for HTTP not longer than its context allows, instead of *)
(* waiting for Start to return.                                            *)
(*                                                                         *)
(* Time passes in seconds, while an HTTP handler sleeps or reads a body    *)
(* that its client sends slowly.  All else takes no time next to that.     *)
(***************************************************************************)
EXTENDS ServeAll, EchoServer, DnsServer, FiniteSets

CONSTANTS
    EchoServers, \* those of HttpServers that are the echo server
    Arguments,   \* what follows /delay/ and /status/ in requests
    Paces,       \* seconds that bodies of requests take to arrive
    Environs,    \* DNS entries of environments, in their order
    Grace,       \* seconds of the context given to Shutdown: 5 in the code
    NoRequest,
    NoAnswer

ASSUME CommandAssumption ==
    /\ EchoServers \subseteq HttpServers
    /\ "serve" \notin Servers
    /\ HttpServers \cap GrpcServers = {} /\ HttpServers \cap DnsServers = {}
    /\ GrpcServers \cap DnsServers = {}
    /\ Grace \in Nat /\ Paces \subseteq Nat
    /\ \A arg \in Arguments : IsNumber(arg) => arg \in Int
    /\ \A environ \in Environs : environ \in Seq(Entry)

VARIABLES
    command, \* "serve", or the server that the command runs
    environ, \* the DNS entries of the process's environment
    zones,   \* s.zones of the DNS server
    asking,  \* the request in progress, or NoRequest
    left,    \* seconds its handler still needs
    grace,   \* seconds that Shutdown still waits
    got      \* the request answered last, with its answer, until the next one

alone == <<command, environ, zones, asking, left, grace, got>>
allVars == <<vars, alone>>

Requests(s) ==
       [path : {"body"}, arg : IF s \in HttpServers THEN Paces ELSE {}]
    \union [path : {"/delay", "/status"}, arg : IF s \in EchoServers THEN Arguments ELSE {}]
    \union [path : {"call"}, arg : IF s \in GrpcServers THEN {0} ELSE {}]
    \union [path : {"question"}, arg : IF s \in DnsServers THEN Questions ELSE {}]

ASSUME NoRequestAssumption == \A s \in Servers : NoRequest \notin Requests(s)

\* The seconds a handler needs.
Needs(request) ==
    CASE request.path = "body"   -> request.arg
      [] request.path = "/delay" -> handleDelay(request.arg).wait
      [] OTHER                   -> 0

Reply(request, upstreamAnswers) ==
    CASE request.path = "question" -> handleDNS(zones, request.arg, upstreamAnswers)
      [] request.path \in {"/delay", "/status"} ->
            [status |-> Final(handle(request.path, request.arg).status)]
      [] OTHER -> [status |-> 200]

CommandInit ==
    /\ Fresh
    /\ command \in {"serve"} \union Servers
    /\ handled = (command = "serve")
    /\ environ \in IF command \in DnsServers THEN Environs ELSE {<<>>}
    /\ zones = [n \in DnsNames |-> <<>>]
    /\ asking = NoRequest /\ got = NoAnswer
    /\ left = 0 /\ grace = 0

-----------------------------------------------------------------------------
(* RunE of a single command.                                               *)

\* New, NotifyContext and the goroutine of Start.
StartAlone(s) ==
    /\ main = "starting" /\ srv[s] = "off"
    /\ main' = "waiting" /\ handled' = TRUE
    /\ srv' = [srv EXCEPT ![s] = "spawned"]
    /\ zones' = IF s \in DnsServers THEN NewZones(environ) ELSE zones
    /\ UNCHANGED <<result, done, asked, errs, sock, clients, command, environ, asking, left, grace, got>>

TakeErrorAlone ==
    /\ main = "waiting" /\ errs # {}
    /\ main' = "exited" /\ result' = "error"
    /\ errs' = {}
    /\ UNCHANGED <<done, handled, srv, asked, sock, clients, alone>>

\* Mutant: the context of Shutdown descends from the one that is done.
TakeDoneUnderDone(s) ==
    /\ main = "waiting" /\ done
    /\ main' = "draining" /\ result' = "ok"
    /\ CallShutdown(s)
    /\ UNCHANGED <<done, handled, errs, clients, alone>>

\* Shutdown or GracefulStop is called.
TakeDoneAlone(s) ==
    /\ main = "waiting" /\ done
    /\ main' = "draining" /\ result' = "ok"
    /\ CallShutdown(s)
    /\ grace' = IF s \in HttpServers THEN Grace ELSE 0
    /\ UNCHANGED <<done, handled, errs, clients, command, environ, zones, asking, left, got>>

\* Mutant: the command waits for Start, as serve does, and for its requests.
StartReturned(s) == srv[s] = "down" /\ ~ busy[s]

\* Shutdown or GracefulStop returns.
ShutdownReturns(s) ==
    \/ s \in HttpServers /\ (~ busy[s] \/ grace = 0)
    \/ s \in GrpcServers /\ ~ busy[s] /\ ~ stream[s]
    \/ /\ s \in DnsServers
       /\ sock[s]["tcp"] \notin {"off", "up"} /\ \A k \in Sockets : ~ Held(s, k)

ExitAlone(s) ==
    /\ main = "draining" /\ ShutdownReturns(s)
    /\ main' = "exited"
    /\ UNCHANGED <<result, done, handled, srv, asked, errs, sock, clients, alone>>

-----------------------------------------------------------------------------
(* Requests to a single server.                                            *)

Ask(s) ==
    /\ Arrive(s)
    /\ \E request \in Requests(s) : asking' = request /\ left' = Needs(request)
    /\ got' = NoAnswer
    /\ UNCHANGED <<command, environ, zones, grace>>

\* An upstream server answers a question, or does not within the time limit.
AnswerAlone(s) ==
    /\ Answer(s) /\ left = 0
    /\ \E upstreamAnswers \in BOOLEAN :
          got' = [request |-> asking, reply |-> Reply(asking, upstreamAnswers)]
    /\ asking' = NoRequest
    /\ UNCHANGED <<command, environ, zones, left, grace>>

\* A second passes.
Tick ==
    /\ Alive /\ left > 0
    /\ left' = left - 1
    /\ grace' = IF grace > 0 THEN grace - 1 ELSE 0
    /\ UNCHANGED <<vars, command, environ, zones, asking, got>>

-----------------------------------------------------------------------------
ServeStep == command = "serve" /\ Next /\ UNCHANGED alone

MainAlone(s) == StartAlone(s) \/ TakeErrorAlone \/ TakeDoneAlone(s) \/ ExitAlone(s)
RunAlone(s) == Starts(s) /\ UNCHANGED alone
Progress(s) == AnswerAlone(s) \/ Tick
MayHappen(s) == (NewFails(s) \/ Fails(s) \/ Interrupt \/ OpenStream(s) \/ CloseStream(s))
                /\ UNCHANGED alone

AloneStep(s) == command = s /\ (MainAlone(s) \/ RunAlone(s) \/ Progress(s) \/ Ask(s) \/ MayHappen(s))

CommandNext == ServeStep \/ \E s \in Servers : AloneStep(s)

CommandSpec == CommandInit /\ [][CommandNext]_allVars

\* The command never changes: one fairness condition serves both sorts of
\* process.  As in ServeAll, goroutines run, requests are answered and time
\* passes; a client closes its stream; nobody need press Ctrl+C.
MainStep == (command = "serve" /\ Main /\ UNCHANGED alone) \/ \E s \in Servers : command = s /\ MainAlone(s)
RunStep(s) == (command = "serve" /\ Run(s) /\ UNCHANGED alone) \/ (command = s /\ RunAlone(s))
AnswerStep(s) == (command = "serve" /\ Answer(s) /\ UNCHANGED alone) \/ (command = s /\ Progress(s))
CloseStep(s) == CloseStream(s) /\ UNCHANGED alone

PatientCommands ==
    /\ CommandSpec
    /\ WF_allVars(MainStep)
    /\ \A s \in Servers :
          WF_allVars(RunStep(s)) /\ WF_allVars(AnswerStep(s)) /\ WF_allVars(CloseStep(s))

-----------------------------------------------------------------------------
\* Types; a request is known exactly while a single server is busy with it,
\* and only then and only over HTTP does anything take time.
CommandTypeOK ==
    /\ TypeOK
    /\ command \in {"serve"} \union Servers
    /\ environ \in Environs \union {<<>>}
    /\ DOMAIN zones = DnsNames
    /\ left \in Nat /\ grace \in 0 .. Grace
    /\ command # "serve" => (asking # NoRequest <=> busy[command])
    /\ left > 0 => asking # NoRequest /\ left <= Needs(asking)

\* A question came in by a socket that Shutdown was called for too early.
MissedIt(s) == s \in DnsServers /\ asked[s] /\ sock[s][via[s]] = "missed"

\* When a single command ends in order, a request is cut only if it takes as
\* long as an HTTP Shutdown waits, or if it came to a DNS server by a socket
\* that was not up when Shutdown was called (cli/http.go:60-62, cli/dns.go:54):
\* a question to the other socket is answered.
SlowOnlyIsCut ==
    main = "exited" /\ result = "ok" /\ command # "serve" /\ busy[command] =>
        \/ command \in HttpServers /\ Needs(asking) >= Grace
        \/ MissedIt(command)

\* What environ says of a question, read off without zones: the entries that
\* answer it, and whether addDefaultZone does.
AnsweringEntries(q) ==
    {i \in DOMAIN environ :
        /\ environ[i].parses /\ environ[i].type \in RecordTypes
        /\ Canonical[environ[i].key] = Lower[q.name]
        /\ q.type \in {environ[i].type, AnyType}}
DefaultAnswers(q) == Lower[q.name] \in {Apex, Wildcard} /\ q.type \in {Address, AnyType}

AnswersQuestion(q, reply) ==
    LET origins == AnsweringEntries(q) \union (IF DefaultAnswers(q) THEN {Own} ELSE {})
        records == reply.records
    IN  /\ {records[i].origin : i \in DOMAIN records} = origins
        /\ Len(records) = Cardinality(origins)
        /\ origins # {} => reply.from = "local"
        /\ \A i, j \in DOMAIN records : i < j =>
              records[j].origin = Own \/ (records[i].origin < records[j].origin /\ records[i].origin # Own)

\* However keys spell a name, in dots or underscores and in any capitals, and
\* whatever capitals a question uses, the DNS server answers with every record
\* configured for the name asked for, in the order of the environment, its own
\* address last, and asks upstream only when there is none (dns/server.go:73-92).
\* A question with underscores asks for a name no key stands for.  The
\* echo server's final status is the one asked for, if it can be a final one
\* (http/server.go:141-158).
AnswersFitQuestions ==
    got # NoAnswer =>
        LET path == got.request.path
            arg == got.request.arg
        IN  /\ path = "question" => AnswersQuestion(arg, got.reply)
            /\ path = "/status" /\ arg \in {Switching} \union 200 .. 599 => got.reply.status = arg

\* Once Ctrl+C reaches a single command that handles it, the process ends, be
\* a handler asleep or a Shutdown missed (cli/dns.go:52-55).
AloneStops == command # "serve" /\ done ~> ~ Alive
=============================================================================
