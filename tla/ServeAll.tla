------------------------------ MODULE ServeAll ------------------------------
(***************************************************************************)
(* The life of the process that `sidequest serve` runs (internal/cli/      *)
(* serve.go): the main goroutine, and for each enabled server the          *)
(* goroutine that runs its Start and the one that shuts it down when the   *)
(* context is done.                                                        *)
(*                                                                         *)
(* The three kinds of servers stop differently, as their libraries do.     *)
(* net/http: Start returns as soon as Shutdown is called, its requests     *)
(* still running.  grpc: Start returns when GracefulStop has seen every    *)
(* call and every stream end.  dns: Start listens on UDP and on TCP, each  *)
(* at its own time, and returns when the first of the two has ended or     *)
(* failed, whatever the other does; Shutdown stops one after the other and *)
(* does nothing to one that is not up yet.                                 *)
(***************************************************************************)
EXTENDS Naturals

CONSTANTS
    HttpServers,  \* HTTP echo, REST, GraphQL, identity
    GrpcServers,
    DnsServers,
    Fallible      \* the servers whose New may return an error

Servers == HttpServers \union GrpcServers \union DnsServers
Sockets == {"udp", "tcp"}

ASSUME ServeAssumption == Fallible \subseteq HttpServers

VARIABLES
    main,     \* "starting", "waiting" (select), "draining" (wg.Wait), "exited", "killed"
    result,   \* what RunE returns: "none" yet, "ok", "error", or "aborted" by a New
    done,     \* ctx.Done() is closed
    handled,  \* signals go to NotifyContext, not to the default handler
    srv,      \* srv[s]: "off", "spawned", "serving", "closing", "down": Start has
              \* returned; between "off" and "down" a DNS server is "spawned"
    sock,     \* sock[s][k], of a DNS server: "off", "up", "closing", "ended", or, once
              \* Shutdown has come too early, "late" and, when up after all, "missed"
    asked,    \* asked[s]: the shutdown goroutine has made its call
    errs,     \* the servers whose error is in errCh
    busy,     \* busy[s]: a request is being handled
    via,      \* via[s], of a DNS server: where the question came in that is being
              \* handled
    stream    \* stream[s]: a WatchItems stream is open

clients == <<busy, via, stream>>
vars == <<main, result, done, handled, srv, sock, asked, errs, clients>>

Alive == main \notin {"exited", "killed"}
Launched == {s \in Servers : srv[s] # "off"}

\* A process in which nothing has run yet.
Fresh ==
    /\ main = "starting" /\ result = "none"
    /\ done = FALSE
    /\ srv = [s \in Servers |-> "off"]
    /\ sock = [s \in DnsServers |-> [k \in Sockets |-> "off"]]
    /\ asked = [s \in Servers |-> FALSE]
    /\ errs = {}
    /\ busy = [s \in Servers |-> FALSE]
    /\ via = [s \in DnsServers |-> "udp"]
    /\ stream = [s \in Servers |-> FALSE]

\* serve registers for the signals before anything else.
Init == Fresh /\ handled = TRUE

-----------------------------------------------------------------------------
(* The main goroutine.                                                     *)

\* New, wg.Add and the two go statements.  The servers come in an order of
\* their own; no property depends on it.
Launch(s) ==
    /\ main = "starting" /\ srv[s] = "off"
    /\ srv' = [srv EXCEPT ![s] = "spawned"]
    /\ UNCHANGED <<main, result, done, handled, asked, errs, sock, clients>>

\* New returns an error: RunE returns, whatever was launched before.
NewFails(s) ==
    /\ main = "starting" /\ srv[s] = "off" /\ s \in Fallible
    /\ main' = "exited" /\ result' = "aborted"
    /\ UNCHANGED <<done, handled, srv, asked, errs, sock, clients>>

AllLaunched ==
    /\ main = "starting" /\ Launched = Servers
    /\ main' = "waiting"
    /\ UNCHANGED <<result, done, handled, srv, asked, errs, sock, clients>>

\* Mutant: the error is returned to the caller without stopping the others.
TakeErrorWithoutStop ==
    /\ main = "waiting" /\ errs # {}
    /\ \E s \in errs : errs' = errs \ {s}
    /\ main' = "draining" /\ result' = "error"
    /\ UNCHANGED <<done, handled, srv, asked, sock, clients>>

\* Mutant: the error received is not what RunE returns.
TakeErrorSilently ==
    /\ main = "waiting" /\ errs # {}
    /\ \E s \in errs : errs' = errs \ {s}
    /\ main' = "draining"
    /\ done' = TRUE /\ handled' = FALSE
    /\ UNCHANGED <<result, srv, asked, sock, clients>>

\* stop() closes ctx.Done() and gives the signals back to the default handler.
TakeError ==
    /\ main = "waiting" /\ errs # {}
    /\ \E s \in errs : errs' = errs \ {s}
    /\ main' = "draining" /\ result' = "error"
    /\ done' = TRUE /\ handled' = FALSE
    /\ UNCHANGED <<srv, asked, sock, clients>>

TakeDone ==
    /\ main = "waiting" /\ done
    /\ main' = "draining" /\ result' = "ok"
    /\ UNCHANGED <<done, handled, srv, asked, errs, sock, clients>>

\* wg.Wait() returns: every Start has.
Exit ==
    /\ main = "draining"
    /\ \A s \in Launched : srv[s] = "down"
    /\ main' = "exited"
    /\ UNCHANGED <<result, done, handled, srv, asked, errs, sock, clients>>

\* Ctrl+C.  After the first one a further one is swallowed, NotifyContext still
\* being registered, unless stop() has run: then it kills the process.
Interrupt ==
    /\ Alive
    /\ \/ handled /\ done' = TRUE /\ UNCHANGED main
       \/ ~ handled /\ main' = "killed" /\ UNCHANGED done
    /\ UNCHANGED <<result, handled, srv, asked, errs, sock, clients>>

-----------------------------------------------------------------------------
(* Start, in its goroutine.                                                *)

\* The port is taken: Start returns an error, which goes to errCh (capacity 10,
\* at most one error per server: the send never waits).
ListenFails(s) ==
    /\ Alive /\ srv[s] = "spawned" /\ s \notin DnsServers
    /\ srv' = [srv EXCEPT ![s] = "down"]
    /\ errs' = errs \union {s}
    /\ UNCHANGED <<main, result, done, handled, asked, sock, clients>>

Listen(s) ==
    /\ Alive /\ srv[s] = "spawned" /\ ~ asked[s] /\ s \notin DnsServers
    /\ srv' = [srv EXCEPT ![s] = "serving"]
    /\ UNCHANGED <<main, result, done, handled, asked, errs, sock, clients>>

\* Start after Shutdown: ErrServerClosed, which is passed over, or for gRPC
\* ErrServerStopped, which is reported.
StartTooLate(s) ==
    /\ Alive /\ srv[s] = "spawned" /\ asked[s] /\ s \notin DnsServers
    /\ srv' = [srv EXCEPT ![s] = "down"]
    /\ errs' = IF s \in GrpcServers THEN errs \union {s} ELSE errs
    /\ UNCHANGED <<main, result, done, handled, asked, sock, clients>>

\* Mutant: the gRPC server is stopped by Stop instead of GracefulStop.
CutOff(s) == TRUE

\* Start may return: for gRPC only when no call and no stream is left.
Drained(s) == s \in GrpcServers => ~ busy[s] /\ ~ stream[s]

StartReturns(s) ==
    /\ Alive /\ srv[s] = "closing" /\ Drained(s)
    /\ srv' = [srv EXCEPT ![s] = "down"]
    /\ UNCHANGED <<main, result, done, handled, asked, errs, sock, clients>>

\* What Shutdown makes of a socket: it does nothing to one that is not up yet.
Shut(state) == CASE state = "off" -> "late" [] state = "up" -> "closing" [] OTHER -> state

\* Shutdown or GracefulStop is called; of a DNS server, first for UDP.
CallShutdown(s) ==
    /\ asked' = [asked EXCEPT ![s] = TRUE]
    /\ srv' = [srv EXCEPT ![s] = IF @ = "serving" THEN "closing" ELSE @]
    /\ sock' = [t \in DnsServers |->
          IF t = s THEN [sock[s] EXCEPT !["udp"] = Shut(@)] ELSE sock[t]]

\* Mutant: gRPC is only asked to stop while it is idle.
AskUnlessBusy(s) ==
    /\ Alive /\ done /\ srv[s] # "off" /\ ~ asked[s]
    /\ \/ s \in GrpcServers /\ busy[s]
          /\ asked' = [asked EXCEPT ![s] = TRUE] /\ UNCHANGED <<srv, sock>>
       \/ ~ (s \in GrpcServers /\ busy[s]) /\ CallShutdown(s)
    /\ UNCHANGED <<main, result, done, handled, errs, clients>>

\* The shutdown goroutine: <-ctx.Done(), then the call.
AskShutdown(s) ==
    /\ Alive /\ done /\ srv[s] # "off" /\ ~ asked[s]
    /\ CallShutdown(s)
    /\ UNCHANGED <<main, result, done, handled, errs, clients>>

-----------------------------------------------------------------------------
(* The two sockets of a DNS server.                                        *)

\* The handler of a question keeps the socket it came in by from ending.
Held(s, k) == sock[s][k] = "closing" /\ busy[s] /\ via[s] = k

\* The call goes on to TCP when UDP is idle, or was not up.
ShutTcp(s) ==
    /\ Alive /\ s \in DnsServers /\ asked[s]
    /\ ~ Held(s, "udp") /\ sock[s]["tcp"] \in {"off", "up"}
    /\ sock' = [sock EXCEPT ![s]["tcp"] = Shut(@)]
    /\ UNCHANGED <<main, result, done, handled, srv, asked, errs, clients>>

\* A socket comes up, Start waiting or not.
SocketOpens(s, k) ==
    /\ Alive /\ s \in DnsServers /\ srv[s] # "off"
    /\ sock[s][k] \in {"off", "late"}
    /\ sock' = [sock EXCEPT ![s][k] = IF @ = "off" THEN "up" ELSE "missed"]
    /\ UNCHANGED <<main, result, done, handled, srv, asked, errs, clients>>

\* ListenAndServe of a socket returns, which ends Start if it is the first.
SocketEnds(s, k) ==
    /\ Alive /\ s \in DnsServers
    /\ sock[s][k] = "closing" /\ ~ Held(s, k)
    /\ sock' = [sock EXCEPT ![s][k] = "ended"]
    /\ srv' = [srv EXCEPT ![s] = "down"]
    /\ UNCHANGED <<main, result, done, handled, asked, errs, clients>>

\* Its port is taken: Start returns the error if this is the first to end.
SocketFails(s, k) ==
    /\ Alive /\ s \in DnsServers /\ srv[s] # "off"
    /\ sock[s][k] \in {"off", "late"}
    /\ sock' = [sock EXCEPT ![s][k] = "ended"]
    /\ srv' = [srv EXCEPT ![s] = "down"]
    /\ errs' = IF srv[s] = "spawned" THEN errs \union {s} ELSE errs
    /\ UNCHANGED <<main, result, done, handled, asked, clients>>

SocketRuns(s) == ShutTcp(s) \/ \E k \in Sockets : SocketOpens(s, k) \/ SocketEnds(s, k)

-----------------------------------------------------------------------------
(* What the clients do.                                                    *)

Arrive(s) ==
    /\ Alive /\ ~ busy[s]
    /\ \/ srv[s] = "serving" /\ UNCHANGED via
       \/ /\ s \in DnsServers
          /\ \E k \in Sockets :
                sock[s][k] \in {"up", "missed"} /\ via' = [via EXCEPT ![s] = k]
    /\ busy' = [busy EXCEPT ![s] = TRUE]
    /\ UNCHANGED <<main, result, done, handled, srv, sock, asked, errs, stream>>

Answer(s) ==
    /\ Alive /\ busy[s]
    /\ busy' = [busy EXCEPT ![s] = FALSE]
    /\ via' = [t \in DnsServers |-> IF t = s THEN "udp" ELSE via[t]]
    /\ UNCHANGED <<main, result, done, handled, srv, sock, asked, errs, stream>>

OpenStream(s) ==
    /\ Alive /\ srv[s] = "serving" /\ s \in GrpcServers /\ ~ stream[s]
    /\ stream' = [stream EXCEPT ![s] = TRUE]
    /\ UNCHANGED <<main, result, done, handled, srv, sock, asked, errs, busy, via>>

\* Only its client ends a stream: WatchItems loops until its context is done,
\* and GracefulStop does not cancel it.
CloseStream(s) ==
    /\ Alive /\ stream[s]
    /\ stream' = [stream EXCEPT ![s] = FALSE]
    /\ UNCHANGED <<main, result, done, handled, srv, sock, asked, errs, busy, via>>

-----------------------------------------------------------------------------
Main == (\E s \in Servers : Launch(s)) \/ AllLaunched \/ TakeError \/ TakeDone \/ Exit
Starts(s) == Listen(s) \/ StartTooLate(s) \/ StartReturns(s) \/ SocketRuns(s)
Run(s) == Starts(s) \/ AskShutdown(s)
Fails(s) == ListenFails(s) \/ \E k \in Sockets : SocketFails(s, k)

Next ==
    \/ Main \/ Interrupt
    \/ \E s \in Servers :
          \/ NewFails(s) \/ Fails(s) \/ Run(s)
          \/ Arrive(s) \/ Answer(s) \/ OpenStream(s) \/ CloseStream(s)

Spec == Init /\ [][Next]_vars

\* Goroutines run and requests are answered (no handler waits for a client
\* longer than its bounded delay).  A user need not press Ctrl+C.
FairSpec == Spec /\ WF_vars(Main)
    /\ \A s \in Servers : WF_vars(Run(s)) /\ WF_vars(Answer(s))

\* Besides, no client holds a stream for ever.
PatientSpec == FairSpec /\ \A s \in Servers : WF_vars(CloseStream(s))

-----------------------------------------------------------------------------
\* Types; and the main goroutine has a result exactly from its select on.  (A
\* single server's command may be killed before that.)
TypeOK ==
    /\ main \in {"starting", "waiting", "draining", "exited", "killed"}
    /\ result \in {"none", "ok", "error", "aborted"}
    /\ done \in BOOLEAN /\ handled \in BOOLEAN
    /\ srv \in [Servers -> {"off", "spawned", "serving", "closing", "down"}]
    /\ sock \in [DnsServers ->
          [Sockets -> {"off", "up", "late", "missed", "closing", "ended"}]]
    /\ asked \in [Servers -> BOOLEAN]
    /\ errs \subseteq Servers
    /\ busy \in [Servers -> BOOLEAN]
    /\ via \in [DnsServers -> Sockets]
    /\ stream \in [Servers -> BOOLEAN]
    /\ main # "killed" => (result = "none" <=> main \in {"starting", "waiting"})

\* A gRPC call in progress is never cut by a shutdown: when the process exits
\* in order, on Ctrl+C or because a server failed, none is left.
RpcsAreFinished == main = "exited" /\ result # "aborted" =>
    \A s \in GrpcServers : ~ busy[s] /\ ~ stream[s]

\* Shutdown came before either of a DNS server's sockets was up: both serve on,
\* and Start never returns.
DnsMissedIt == \E s \in DnsServers : \A k \in Sockets : sock[s][k] = "missed"

\* Once the context is done the process ends, unless a DNS server missed its
\* Shutdown on both sockets: nothing else can be in the way of an orderly end,
\* not one socket alone that was missed.
StopsButForDns == done ~> ~ Alive \/ DnsMissedIt

\* One server that cannot listen brings the others down in order and the
\* process to its end, with the same exception.
FailureStopsAll == errs # {} ~> ~ Alive \/ DnsMissedIt

\* "Press Ctrl+C to stop." (serve.go:174): once the context is done the
\* process ends.
CtrlCStops == done ~> ~ Alive
=============================================================================
