----------------------------- MODULE WatchItems -----------------------------
(***************************************************************************)
(* The WatchItems streams of the gRPC server (internal/server/grpc/        *)
(* server.go) on top of the store: one handler goroutine per stream, which *)
(* subscribes, filters the events by label, sends them on, and unsubscribes *)
(* when its client has gone.                                               *)
(*                                                                         *)
(* The subscribers of ItemStore are the streams.  The writers are calls of *)
(* all protocols; a panic in one served over gRPC, which no interceptor    *)
(* recovers, takes the process down, one served over HTTP does not.        *)
(***************************************************************************)
EXTENDS ItemStore

CONSTANTS
    Selectors,    \* the label maps requests filter by; NoLabels filters nothing
    GrpcWriters,  \* the writers that serve a gRPC call
    Unsendable    \* the identifiers that are no UTF-8, which REST accepts in a
                  \* path and protobuf neither encodes nor decodes

ASSUME WatchAssumption ==
    /\ Selectors \subseteq LabelMaps
    /\ GrpcWriters \subseteq Writers
    /\ Unsendable \subseteq Ids

VARIABLES
    up,        \* the process runs
    stage,     \* stage[c]: where the handler of the stream is
    selector,  \* selector[c]: req.Labels
    hand,      \* hand[c]: the event being sent on the stream
    sent,      \* sent[c]: the events the stream has accepted
    gone       \* gone[c]: the stream's context is done

streams == <<stage, selector, hand, sent, gone>>
watchVars == <<vars, up, streams>>

\* idle: not called.  called: the client has its stream, the handler has not
\* run yet.  select and send: in the loop.  leaving: returned, the deferred
\* Unsubscribe not yet run.
Stages == {"idle", "called", "select", "send", "leaving", "ended"}

WatchInit ==
    /\ Init
    /\ up = TRUE
    /\ stage = [c \in Subscribers |-> "idle"]
    /\ selector = [c \in Subscribers |-> NoLabels]
    /\ hand = [c \in Subscribers |-> NoEvent]
    /\ sent = [c \in Subscribers |-> << >>]
    /\ gone = [c \in Subscribers |-> FALSE]

-----------------------------------------------------------------------------
\* client.WatchItems returns as soon as the request is on its way.
Call(c, labels) ==
    /\ stage[c] = "idle"
    /\ stage' = [stage EXCEPT ![c] = "called"]
    /\ selector' = [selector EXCEPT ![c] = labels]
    /\ UNCHANGED <<vars, up, hand, sent, gone>>

\* The client cancels, or its connection breaks.
GoAway(c) ==
    /\ stage[c] \notin {"idle", "ended"} /\ ~ gone[c]
    /\ gone' = [gone EXCEPT ![c] = TRUE]
    /\ UNCHANGED <<vars, up, stage, selector, hand, sent>>

\* The handler starts: Subscribe.
Begin(c) ==
    /\ stage[c] = "called"
    /\ Subscribe(c)
    /\ stage' = [stage EXCEPT ![c] = "select"]
    /\ UNCHANGED <<up, selector, hand, sent, gone>>

Oldest(c) == offered[c][taken[c] + 1]
Wanted(c, e) == MatchLabels(e.item, selector[c])
Encodable(e) == e.item.id \notin Unsendable

\* Mutant: the filter is not applied.
TakeAny(c) ==
    /\ stage[c] = "select"
    /\ Receive(c)
    /\ hand' = [hand EXCEPT ![c] = Oldest(c)]
    /\ stage' = [stage EXCEPT ![c] = "send"]
    /\ UNCHANGED <<up, selector, sent, gone>>


\* The select's first case.  It may be taken though the context is done.
Take(c) ==
    /\ stage[c] = "select"
    /\ Receive(c)
    /\ \/ /\ Wanted(c, Oldest(c))
          /\ hand' = [hand EXCEPT ![c] = Oldest(c)]
          /\ stage' = [stage EXCEPT ![c] = "send"]
       \/ ~ Wanted(c, Oldest(c)) /\ UNCHANGED <<hand, stage>>
    /\ UNCHANGED <<up, selector, sent, gone>>

\* Mutant: the loop only waits for events.
NoticeNever(c) == FALSE /\ UNCHANGED watchVars

\* The select's second case.
NoticeDone(c) ==
    /\ stage[c] = "select" /\ gone[c]
    /\ stage' = [stage EXCEPT ![c] = "leaving"]
    /\ UNCHANGED <<vars, up, selector, hand, sent, gone>>

\* Mutant: the loop goes on with the event still in hand.
SendKeepingHand(c) ==
    /\ stage[c] = "send" /\ ~ gone[c] /\ Encodable(hand[c])
    /\ sent' = [sent EXCEPT ![c] = Append(@, hand[c])]
    /\ stage' = [stage EXCEPT ![c] = "select"]
    /\ UNCHANGED <<vars, up, selector, hand, gone>>

\* stream.Send returns nil: flow control had room for the event.
Send(c) ==
    /\ stage[c] = "send" /\ ~ gone[c] /\ Encodable(hand[c])
    /\ sent' = [sent EXCEPT ![c] = Append(@, hand[c])]
    /\ hand' = [hand EXCEPT ![c] = NoEvent]
    /\ stage' = [stage EXCEPT ![c] = "select"]
    /\ UNCHANGED <<vars, up, selector, gone>>

\* Mutant: the return on a failed send skips the Unsubscribe.
SendFailsAndEnds(c) ==
    /\ stage[c] = "send" /\ (gone[c] \/ ~ Encodable(hand[c]))
    /\ hand' = [hand EXCEPT ![c] = NoEvent]
    /\ stage' = [stage EXCEPT ![c] = "ended"]
    /\ UNCHANGED <<vars, up, selector, sent, gone>>

\* stream.Send returns an error: the client has gone, also while Send waited
\* for room, or the event cannot be encoded, and the client is still there.
SendFails(c) ==
    /\ stage[c] = "send" /\ (gone[c] \/ ~ Encodable(hand[c]))
    /\ hand' = [hand EXCEPT ![c] = NoEvent]
    /\ stage' = [stage EXCEPT ![c] = "leaving"]
    /\ UNCHANGED <<vars, up, selector, sent, gone>>

\* The deferred Unsubscribe.
Leave(c) ==
    /\ stage[c] = "leaving"
    /\ Unsubscribe(c)
    /\ stage' = [stage EXCEPT ![c] = "ended"]
    /\ UNCHANGED <<up, selector, hand, sent, gone>>

-----------------------------------------------------------------------------
\* A writer's step; a request that is no UTF-8 does not get into a gRPC call,
\* and a panic in one is not recovered.
Write(w) ==
    /\ Mutate(w) \/ CopyListeners(w) \/ Return(w)
          \/ \E c \in Subscribers : Offer(w, c) \/ Drop(w, c)
    /\ w \in GrpcWriters /\ cur'[w] # NoEvent => Encodable(cur'[w])
    /\ UNCHANGED <<up, streams>>

Panic(w) ==
    /\ \E c \in Subscribers : SendOnClosed(w, c)
    /\ up' = (w \notin GrpcWriters)
    /\ UNCHANGED streams

Finish(w) == pc[w] # "ready" /\ (Write(w) \/ Panic(w))
Handle(c) == Begin(c) \/ Take(c) \/ NoticeDone(c) \/ SendFails(c) \/ Leave(c)

\* A process that is down takes no step.
WatchNext == up /\
    \/ \E w \in Writers : Write(w) \/ Panic(w)
    \/ \E c \in Subscribers :
          \/ \E labels \in Selectors : Call(c, labels)
          \/ GoAway(c) \/ Handle(c) \/ Send(c)

WatchSpec == WatchInit /\ [][WatchNext]_watchVars

\* Goroutines run: nothing in emit waits for another one but listenerMu, and no
\* holder of listenerMu waits.  That a Send gets through takes a client that reads, which
\* nothing guarantees.
WatchFairSpec ==
    /\ WatchSpec
    /\ \A w \in Writers : WF_watchVars(up /\ Finish(w))
    /\ \A c \in Subscribers : WF_watchVars(up /\ Handle(c))

-----------------------------------------------------------------------------
\* Types of the streams' state; an event is in hand exactly while it is sent.
WatchTypeOK ==
    /\ up \in BOOLEAN
    /\ stage \in [Subscribers -> Stages]
    /\ selector \in [Subscribers -> LabelMaps]
    /\ hand \in [Subscribers -> Event \union {NoEvent}]
    /\ sent \in [Subscribers -> Seq(Event)]
    /\ gone \in [Subscribers -> BOOLEAN]
    /\ \A c \in Subscribers : hand[c] # NoEvent <=> stage[c] = "send"

\* A channel is among the listeners exactly while its handler runs: none is
\* left behind when a stream ends, and none is closed under a running loop
\* (whose `if !ok` case is therefore never taken).
ListenersAreTheLoops == \A c \in Subscribers :
    /\ c \in listeners <=> stage[c] \in {"select", "send", "leaving"}
    /\ chan[c] = "closed" <=> stage[c] = "ended"

InHand(c) == IF hand[c] = NoEvent THEN << >> ELSE <<hand[c]>>

\* The events the handler took of the channel and passed on, the one it is
\* sending included.
Given(c) == sent[c] \o InHand(c)

\* What the client was sent is exactly what its handler took of the channel
\* and the filter lets through, each event once, in the order of the changes.
SentIsTheFilteredFeed == \A c \in Subscribers : stage[c] \in {"select", "send"} =>
    /\ {Given(c)[i] : i \in DOMAIN Given(c)} =
          {e \in {offered[c][j] : j \in 1 .. taken[c]} : Wanted(c, e)}
    /\ \A i, j \in DOMAIN Given(c) : i < j => Given(c)[i].seq < Given(c)[j].seq

\* A handler whose client has gone ends and takes its channel with it, even
\* one that waits in Send, unless the process goes down first.
GoneStreamsLeave == \A c \in Subscribers :
    gone[c] ~> (stage[c] = "ended" /\ c \notin listeners) \/ ~ up

\* A call that has passed its check returns, however slow the streams are and
\* whether or not their clients ever read, unless the process goes down.
CallsReturn == \A w \in Writers : pc[w] # "ready" ~> pc[w] = "ready" \/ ~ up

IsOffered(c, n) ==
    \E i \in 1 .. Len(offered[c]) : offered[c][i].seq = n /\ Wanted(c, offered[c][i])
IsSent(c, n) == \E i \in 1 .. Len(sent[c]) : sent[c][i].seq = n

\* An event up to the n-th that was to be sent on the stream could not be.
EndsTheStream(c, n) == \E i \in 1 .. Len(offered[c]) :
    LET e == offered[c][i] IN e.seq <= n /\ Wanted(c, e) /\ ~ Encodable(e)

=============================================================================
