---------------------------- MODULE WatchProofs -----------------------------
(***************************************************************************)
(* What holds of the WatchItems streams for every number of streams, of    *)
(* writers and of labels: that they use the store as ItemStore has it, that *)
(* the list of listeners is the list of the running handlers, and that     *)
(* what a stream was given is the filtered feed of its channel.            *)
(***************************************************************************)
EXTENDS WatchItems, ItemStoreProofs

\* A step of the server is a step of the store or leaves it alone.
LEMMA WatchStepIsStoreStep == [WatchNext]_watchVars => [Next]_vars
<1>1. ASSUME NEW w \in Writers, Write(w)
      PROVE  Next
  BY <1>1 DEF Write, Next, Emit
<1>2. ASSUME NEW w \in Writers, Panic(w)
      PROVE  Next
  BY <1>2 DEF Panic, Next, Emit
<1>3. ASSUME NEW c \in Subscribers, NEW labels \in Selectors, Call(c, labels)
      PROVE  UNCHANGED vars
  BY <1>3 DEF Call
<1>4. ASSUME NEW c \in Subscribers, GoAway(c) \/ Send(c) \/ NoticeDone(c) \/ SendFails(c)
      PROVE  UNCHANGED vars
  BY <1>4 DEF GoAway, Send, NoticeDone, SendFails
<1>5. ASSUME NEW c \in Subscribers, Begin(c) \/ Take(c) \/ Leave(c)
      PROVE  Next
  BY <1>5 DEF Begin, Take, Leave, Next
<1>6. CASE UNCHANGED watchVars
  BY <1>6 DEF watchVars
<1>7. QED
  BY <1>1, <1>2, <1>3, <1>4, <1>5, <1>6 DEF WatchNext, Handle

\* The server with its streams is one of the users of the store that ItemStore
\* describes: every theorem about Spec is one about the server.
THEOREM StreamsUseTheStore == WatchSpec => Spec
<1>1. WatchInit => Init
  BY DEF WatchInit
<1>2. QED
  BY <1>1, WatchStepIsStoreStep, PTL DEF WatchSpec, Spec

-----------------------------------------------------------------------------
(* The channels and the handlers.                                          *)

\* A channel is not yet made before its handler runs, open while it does,
\* and closed when it has ended.
ChannelOfLoop == \A c \in Subscribers :
    /\ chan[c] = "none" <=> stage[c] \in {"idle", "called"}
    /\ chan[c] = "open" <=> stage[c] \in {"select", "send", "leaving"}
    /\ chan[c] = "closed" <=> stage[c] = "ended"

WatchInv == TypeInv /\ FeedInv /\ WatchTypeOK /\ ChannelOfLoop

LEMMA WatchInitially == WatchInit => WatchInv
<1>1. SUFFICES ASSUME WatchInit PROVE WatchInv
  OBVIOUS
<1>2. Init
  BY <1>1 DEF WatchInit
<1>3. NoLabels \in LabelMaps
  BY DEF NoLabels, LabelMaps
<1>4. WatchTypeOK /\ ChannelOfLoop
  BY <1>1, <1>2, <1>3 DEF WatchInit, WatchTypeOK, ChannelOfLoop, Init, Stages
<1>5. QED
  BY <1>2, <1>4, TypeInit, FeedInit DEF WatchInv

\* The event a handler takes out of its channel.
LEMMA OldestIsAnEvent ==
    ASSUME TypeInv, NEW c \in Subscribers, Receive(c)
    PROVE  Oldest(c) \in Event
<1>1. offered[c] \in Seq(Event) /\ taken[c] \in Nat
  BY DEF TypeInv, TypeOK
<1>2. taken[c] + 1 \in 1 .. Len(offered[c])
  BY <1>1 DEF Receive, Buffered
<1>3. QED
  BY <1>1, <1>2 DEF Oldest

LEMMA WatchStep ==
    ASSUME WatchInv, [WatchNext]_watchVars
    PROVE  (WatchTypeOK /\ ChannelOfLoop)'
<1> USE DEF WatchInv
<1>0. chan \in [Subscribers -> {"none", "open", "closed"}]
  BY DEF TypeInv, TypeOK
<1>1. ASSUME NEW w \in Writers, Write(w) \/ Panic(w)
      PROVE  (WatchTypeOK /\ ChannelOfLoop)'
  <2>1. UNCHANGED streams /\ up' \in BOOLEAN
    BY <1>1 DEF Write, Panic, WatchTypeOK
  <2>2. UNCHANGED chan
    <3>1. ASSUME NEW id \in Ids, NEW new, NEW type, NEW shown, Commit(w, id, new, type, shown)
          PROVE  UNCHANGED chan
      BY <3>1 DEF Commit, feeds
    <3>2. ASSUME Refuse(w)
          PROVE  UNCHANGED chan
      BY <3>2 DEF Refuse, feeds
    <3>3. ASSUME Mutate(w)
          PROVE  UNCHANGED chan
      BY <3>1, <3>2, <3>3 DEF Mutate, Create, Update, Upsert, Delete
    <3>4. ASSUME CopyListeners(w) \/ Return(w)
          PROVE  UNCHANGED chan
      BY <3>4 DEF CopyListeners, Return, feeds
    <3>5. ASSUME NEW c \in Subscribers, Offer(w, c) \/ Drop(w, c) \/ SendOnClosed(w, c)
          PROVE  UNCHANGED chan
      BY <3>5 DEF Offer, Drop, SendOnClosed, feeds
    <3>6. QED
      BY <1>1, <3>3, <3>4, <3>5 DEF Write, Panic
  <2>3. QED
    BY <2>1, <2>2 DEF WatchTypeOK, ChannelOfLoop, streams
<1>2. ASSUME NEW c \in Subscribers, NEW labels \in Selectors, Call(c, labels)
      PROVE  (WatchTypeOK /\ ChannelOfLoop)'
  BY <1>2, WatchAssumption DEF Call, vars, feeds, WatchTypeOK, ChannelOfLoop, Stages
<1>3. ASSUME NEW c \in Subscribers, GoAway(c)
      PROVE  (WatchTypeOK /\ ChannelOfLoop)'
  BY <1>3 DEF GoAway, vars, feeds, WatchTypeOK, ChannelOfLoop
<1>4. ASSUME NEW c \in Subscribers, Begin(c)
      PROVE  (WatchTypeOK /\ ChannelOfLoop)'
  BY <1>0, <1>4 DEF Begin, Subscribe, WatchTypeOK, ChannelOfLoop, Stages
<1>5. ASSUME NEW c \in Subscribers, Take(c)
      PROVE  (WatchTypeOK /\ ChannelOfLoop)'
  <2>1. Oldest(c) \in Event /\ Oldest(c) # NoEvent
    BY <1>5, OldestIsAnEvent, NoEventAssumption DEF Take
  <2>2. /\ stage[c] = "select" /\ UNCHANGED <<up, selector, sent, gone>> /\ UNCHANGED chan
        /\ \/ hand' = [hand EXCEPT ![c] = Oldest(c)] /\ stage' = [stage EXCEPT ![c] = "send"]
           \/ UNCHANGED <<hand, stage>>
    BY <1>5 DEF Take, Receive
  <2> HIDE DEF WatchInv
  <2>3. WatchTypeOK /\ ChannelOfLoop
    BY DEF WatchInv
  <2>4. CASE UNCHANGED <<hand, stage>>
    BY <2>2, <2>3, <2>4 DEF WatchTypeOK, ChannelOfLoop
  <2>5. CASE hand' = [hand EXCEPT ![c] = Oldest(c)] /\ stage' = [stage EXCEPT ![c] = "send"]
    <3>1. ChannelOfLoop'
      BY <2>2, <2>3, <2>5 DEF WatchTypeOK, ChannelOfLoop
    <3>2. WatchTypeOK'
      BY <2>1, <2>2, <2>3, <2>5 DEF WatchTypeOK, Stages
    <3>3. QED
      BY <3>1, <3>2
  <2>6. QED
    BY <2>2, <2>4, <2>5
<1>6. ASSUME NEW c \in Subscribers, NoticeDone(c) \/ SendFails(c)
      PROVE  (WatchTypeOK /\ ChannelOfLoop)'
  <2>1. CASE NoticeDone(c)
    BY <2>1 DEF NoticeDone, vars, feeds, WatchTypeOK, ChannelOfLoop, Stages
  <2>2. CASE SendFails(c)
    <3>1. ChannelOfLoop'
      BY <2>2 DEF SendFails, vars, feeds, WatchTypeOK, ChannelOfLoop
    <3>2. WatchTypeOK'
      BY <2>2 DEF SendFails, WatchTypeOK, Stages
    <3>3. QED
      BY <3>1, <3>2
  <2>3. QED
    BY <1>6, <2>1, <2>2
<1>7. ASSUME NEW c \in Subscribers, Send(c)
      PROVE  (WatchTypeOK /\ ChannelOfLoop)'
  <2>1. sent[c] \in Seq(Event) /\ hand[c] \in Event
    BY <1>7 DEF Send, WatchTypeOK
  <2>2. Append(sent[c], hand[c]) \in Seq(Event)
    BY <2>1
  <2>3. QED
    BY <1>7, <2>2 DEF Send, vars, feeds, WatchTypeOK, ChannelOfLoop, Stages
<1>8. ASSUME NEW c \in Subscribers, Leave(c)
      PROVE  (WatchTypeOK /\ ChannelOfLoop)'
  BY <1>0, <1>8 DEF Leave, Unsubscribe, WatchTypeOK, ChannelOfLoop, Stages
<1>9. CASE UNCHANGED watchVars
  BY <1>9 DEF watchVars, vars, feeds, streams, WatchTypeOK, ChannelOfLoop
<1>10. QED
  BY <1>1, <1>2, <1>3, <1>4, <1>5, <1>6, <1>7, <1>8, <1>9 DEF WatchNext, Handle

LEMMA WatchInvariant == WatchSpec => []WatchInv
<1>1. WatchInv /\ [WatchNext]_watchVars => WatchInv'
  <2>1. WatchInv /\ [WatchNext]_watchVars => (TypeInv /\ FeedInv)'
    BY WatchStepIsStoreStep, TypeStep, FeedStep DEF WatchInv
  <2>2. QED
    BY <2>1, WatchStep DEF WatchInv
<1>2. QED
  BY <1>1, WatchInitially, PTL DEF WatchSpec

-----------------------------------------------------------------------------
(* What a handler has passed on.  A channel only grows behind what was     *)
(* taken of it, and what is taken next is newer than all that was before.  *)

\* SentIsTheFilteredFeed for one stream, place by place.
Filtered(c) ==
    /\ \A i \in 1 .. Len(Given(c)) :
          \E j \in 1 .. taken[c] : Given(c)[i] = offered[c][j] /\ Wanted(c, offered[c][j])
    /\ \A j \in 1 .. taken[c] : Wanted(c, offered[c][j]) =>
          \E i \in 1 .. Len(Given(c)) : Given(c)[i] = offered[c][j]
    /\ \A i, j \in 1 .. Len(Given(c)) : i < j => Given(c)[i].seq < Given(c)[j].seq

\* Nothing is taken or sent before the handler runs.
SentInv == \A c \in Subscribers :
    /\ taken[c] <= Len(offered[c])
    /\ stage[c] \in {"idle", "called"} => sent[c] = << >> /\ taken[c] = 0
    /\ stage[c] \in {"select", "send"} => Filtered(c)

LEMMA GivenType ==
    ASSUME WatchTypeOK, NEW c \in Subscribers
    PROVE  Given(c) \in Seq(Event)
<1>1. hand[c] \in Event \/ hand[c] = NoEvent
  BY DEF WatchTypeOK
<1>2. InHand(c) \in Seq(Event)
  BY <1>1 DEF InHand
<1>3. QED
  BY <1>2 DEF Given, WatchTypeOK

LEMMA SentIsFiltered ==
    ASSUME WatchTypeOK, SentInv
    PROVE  SentIsTheFilteredFeed
<1>1. SUFFICES ASSUME NEW c \in Subscribers, stage[c] \in {"select", "send"}
      PROVE  /\ {Given(c)[i] : i \in DOMAIN Given(c)} =
                   {e \in {offered[c][j] : j \in 1 .. taken[c]} : Wanted(c, e)}
             /\ \A i, j \in DOMAIN Given(c) : i < j => Given(c)[i].seq < Given(c)[j].seq
  BY DEF SentIsTheFilteredFeed
<1>2. Filtered(c)
  BY <1>1 DEF SentInv
<1>3. DOMAIN Given(c) = 1 .. Len(Given(c))
  BY GivenType
<1>4. ASSUME NEW i \in 1 .. Len(Given(c))
      PROVE  Given(c)[i] \in {e \in {offered[c][j] : j \in 1 .. taken[c]} : Wanted(c, e)}
  <2>1. PICK j \in 1 .. taken[c] : Given(c)[i] = offered[c][j] /\ Wanted(c, offered[c][j])
    BY <1>2 DEF Filtered
  <2>2. QED
    BY <2>1
<1>5. ASSUME NEW j \in 1 .. taken[c], Wanted(c, offered[c][j])
      PROVE  offered[c][j] \in {Given(c)[i] : i \in 1 .. Len(Given(c))}
  <2>1. PICK i \in 1 .. Len(Given(c)) : Given(c)[i] = offered[c][j]
    BY <1>2, <1>5 DEF Filtered
  <2>2. QED
    BY <2>1
<1>6. {Given(c)[i] : i \in DOMAIN Given(c)} =
        {e \in {offered[c][j] : j \in 1 .. taken[c]} : Wanted(c, e)}
  <2> DEFINE given == {Given(c)[i] : i \in 1 .. Len(Given(c))}
             wanted == {e \in {offered[c][j] : j \in 1 .. taken[c]} : Wanted(c, e)}
  <2>1. given \subseteq wanted
    BY <1>4
  <2>2. wanted \subseteq given
    BY <1>5
  <2>3. QED
    BY <1>3, <2>1, <2>2
<1>7. QED
  BY <1>2, <1>3, <1>6 DEF Filtered

\* A channel that grows behind what was taken leaves the filtering as it was.
LEMMA FilteredStays ==
    ASSUME WatchInv, SentInv, NEW c \in Subscribers, Filtered(c),
           selector'[c] = selector[c], taken'[c] = taken[c], Given(c)' = Given(c),
           \A j \in 1 .. Len(offered[c]) : offered'[c][j] = offered[c][j]
    PROVE  Filtered(c)'
<1>1. /\ taken[c] \in Nat /\ Len(offered[c]) \in Nat /\ taken[c] <= Len(offered[c])
      /\ Len(Given(c)) \in Nat
  BY GivenType DEF WatchInv, TypeInv, TypeOK, SentInv
<1>2. \A j \in 1 .. taken[c] : offered'[c][j] = offered[c][j]
  BY <1>1
<1>3. \A e : Wanted(c, e)' = Wanted(c, e)
  BY DEF Wanted, MatchLabels
<1>4. QED
  BY <1>2, <1>3 DEF Filtered

\* The store's steps only append to channels.
LEMMA WritingLeavesTheStreams ==
    ASSUME WatchInv, SentInv, NEW w \in Writers, Write(w) \/ Panic(w)
    PROVE  SentInv'
<1>1. UNCHANGED streams
  BY DEF Write, Panic
<1>2. /\ UNCHANGED taken
      /\ \A c \in Subscribers : offered'[c] = offered[c] \/ offered'[c] = Append(offered[c], cur[w])
  <2>0. offered \in [Subscribers -> Seq(Event)]
    BY DEF WatchInv, TypeInv, TypeOK
  <2>1. ASSUME NEW id \in Ids, NEW new, NEW type, NEW shown, Commit(w, id, new, type, shown)
        PROVE  UNCHANGED <<offered, taken>>
    BY <2>1 DEF Commit, feeds
  <2>2. ASSUME Refuse(w)
        PROVE  UNCHANGED <<offered, taken>>
    BY <2>2 DEF Refuse, feeds
  <2>3. ASSUME Mutate(w)
        PROVE  UNCHANGED <<offered, taken>>
    BY <2>1, <2>2, <2>3 DEF Mutate, Create, Update, Upsert, Delete
  <2>4. ASSUME CopyListeners(w) \/ Return(w)
        PROVE  UNCHANGED <<offered, taken>>
    BY <2>4 DEF CopyListeners, Return, feeds
  <2>5. ASSUME NEW c \in Subscribers, Drop(w, c) \/ SendOnClosed(w, c)
        PROVE  UNCHANGED <<offered, taken>>
    BY <2>5 DEF Drop, SendOnClosed, feeds
  <2>6. ASSUME NEW c \in Subscribers, Offer(w, c)
        PROVE  UNCHANGED taken /\ offered' = [offered EXCEPT ![c] = Append(offered[c], cur[w])]
    BY <2>6 DEF Offer
  <2>7. QED
    BY <2>0, <2>3, <2>4, <2>5, <2>6 DEF Write, Panic
<1>3. ASSUME NEW c \in Subscribers
      PROVE  /\ Len(offered[c]) <= Len(offered'[c]) /\ Len(offered'[c]) \in Nat
             /\ \A j \in 1 .. Len(offered[c]) : offered'[c][j] = offered[c][j]
  <2>1. offered[c] \in Seq(Event)
    BY DEF WatchInv, TypeInv, TypeOK
  <2>2. CASE offered'[c] = offered[c]
    BY <2>1, <2>2
  <2>3. CASE offered'[c] = Append(offered[c], cur[w])
    <3>1. DEFINE e == cur[w]
    <3> HIDE DEF e
    <3>2. /\ Len(Append(offered[c], e)) = Len(offered[c]) + 1
          /\ \A j \in 1 .. Len(offered[c]) : Append(offered[c], e)[j] = offered[c][j]
      BY <2>1
    <3>3. QED
      BY <2>1, <2>3, <3>2 DEF e
  <2>4. QED
    BY <1>2, <2>2, <2>3
<1>4. ASSUME NEW c \in Subscribers, stage[c] \in {"select", "send"}
      PROVE  Filtered(c)'
  BY <1>1, <1>2, <1>3, <1>4, FilteredStays DEF SentInv, streams, Given, InHand
<1>5. ASSUME NEW c \in Subscribers
      PROVE  taken'[c] <= Len(offered'[c])
  <2>1. taken[c] \in Nat /\ Len(offered[c]) \in Nat /\ taken[c] <= Len(offered[c])
    BY DEF WatchInv, TypeInv, TypeOK, SentInv
  <2>2. QED
    BY <1>2, <1>3, <2>1
<1>6. QED
  BY <1>1, <1>2, <1>4, <1>5 DEF SentInv, streams

\* The event taken next is newer than all that was passed on.
LEMMA TakingKeepsTheFilter ==
    ASSUME WatchInv, SentInv, NEW c \in Subscribers, Take(c)
    PROVE  Filtered(c)'
<1> DEFINE n == taken[c]
           e == Oldest(c)
<1>1. /\ offered[c] \in Seq(Event) /\ n \in Nat /\ n + 1 \in 1 .. Len(offered[c])
      /\ e = offered[c][n + 1] /\ taken'[c] = n + 1 /\ offered' = offered /\ selector' = selector
  BY DEF Take, Receive, Buffered, WatchInv, TypeInv, TypeOK, Oldest
<1>2. Filtered(c) /\ Given(c) = sent[c] /\ sent[c] \in Seq(Event)
  BY DEF Take, SentInv, Given, InHand, WatchInv, WatchTypeOK
<1>3. \A x : Wanted(c, x)' = Wanted(c, x)
  BY <1>1 DEF Wanted, MatchLabels
<1>4. e \in Event /\ e # NoEvent
  BY OldestIsAnEvent, NoEventAssumption DEF Take, WatchInv
<1> HIDE DEF e
<1>5. ASSUME NEW i \in 1 .. Len(sent[c])
      PROVE  sent[c][i].seq < e.seq
  <2>1. PICK j \in 1 .. n : sent[c][i] = offered[c][j]
    BY <1>2 DEF Filtered
  <2>2. j \in 1 .. Len(offered[c]) /\ j < n + 1
    BY <1>1
  <2>3. offered[c][j].seq < offered[c][n + 1].seq
    BY <1>1, <2>2 DEF WatchInv, FeedInv, FeedOfLog
  <2>4. QED
    BY <1>1, <2>1, <2>3
<1>6. CASE ~ Wanted(c, e) /\ Given(c)' = sent[c]
  <2>1. \A j \in 1 .. n + 1 : j \in 1 .. n \/ ~ Wanted(c, offered[c][j])
    BY <1>1, <1>6
  <2>2. \A j \in 1 .. n : j \in 1 .. n + 1
    BY <1>1
  <2> DEFINE after == sent[c]
  <2> HIDE DEF after
  <2>3. \A i \in 1 .. Len(after) :
          \E j \in 1 .. n + 1 : after[i] = offered[c][j] /\ Wanted(c, offered[c][j])
    <3>1. SUFFICES ASSUME NEW i \in 1 .. Len(after)
          PROVE  \E j \in 1 .. n + 1 : after[i] = offered[c][j] /\ Wanted(c, offered[c][j])
      OBVIOUS
    <3>2. PICK j \in 1 .. n : after[i] = offered[c][j] /\ Wanted(c, offered[c][j])
      BY <1>2 DEF Filtered, after
    <3>3. QED
      BY <2>2, <3>2
  <2>4. \A j \in 1 .. n + 1 : Wanted(c, offered[c][j]) =>
          \E i \in 1 .. Len(after) : after[i] = offered[c][j]
    BY <1>2, <2>1 DEF Filtered, after
  <2>5. \A i, j \in 1 .. Len(after) : i < j => after[i].seq < after[j].seq
    BY <1>2 DEF Filtered, after
  <2>6. Given(c)' = after
    BY <1>6 DEF after
  <2>7. QED
    BY <1>1, <1>3, <2>3, <2>4, <2>5, <2>6 DEF Filtered
<1>7. CASE Wanted(c, e) /\ Given(c)' = Append(sent[c], e)
  <2>1. /\ Len(Append(sent[c], e)) = Len(sent[c]) + 1 /\ Append(sent[c], e)[Len(sent[c]) + 1] = e
        /\ \A i \in 1 .. Len(sent[c]) : Append(sent[c], e)[i] = sent[c][i]
        /\ Len(sent[c]) \in Nat
    BY <1>2, <1>4
  <2> DEFINE after == Append(sent[c], e)
  <2> HIDE DEF after
  <2>2. \A i \in 1 .. Len(after) : i \in 1 .. Len(sent[c]) \/ i = Len(sent[c]) + 1
    BY <2>1 DEF after
  <2>3. \A i \in 1 .. Len(after) :
          \E j \in 1 .. n + 1 : after[i] = offered[c][j] /\ Wanted(c, offered[c][j])
    <3>1. ASSUME NEW i \in 1 .. Len(sent[c])
          PROVE  \E j \in 1 .. n + 1 : after[i] = offered[c][j] /\ Wanted(c, offered[c][j])
      <4>1. PICK j \in 1 .. n : sent[c][i] = offered[c][j] /\ Wanted(c, offered[c][j])
        BY <1>2 DEF Filtered
      <4>2. j \in 1 .. n + 1 /\ after[i] = sent[c][i]
        BY <1>1, <2>1 DEF after
      <4>3. QED
        BY <4>1, <4>2
    <3>2. /\ n + 1 \in 1 .. n + 1 /\ after[Len(sent[c]) + 1] = offered[c][n + 1]
          /\ Wanted(c, offered[c][n + 1])
      BY <1>1, <1>7, <2>1 DEF after
    <3>3. QED
      BY <2>2, <3>1, <3>2
  <2>4. \A j \in 1 .. n + 1 : Wanted(c, offered[c][j]) =>
          \E i \in 1 .. Len(after) : after[i] = offered[c][j]
    <3>1. ASSUME NEW j \in 1 .. n, Wanted(c, offered[c][j])
          PROVE  \E i \in 1 .. Len(after) : after[i] = offered[c][j]
      <4>1. PICK i \in 1 .. Len(sent[c]) : sent[c][i] = offered[c][j]
        BY <1>2, <3>1 DEF Filtered
      <4>2. i \in 1 .. Len(after) /\ after[i] = sent[c][i]
        BY <2>1 DEF after
      <4>3. QED
        BY <4>1, <4>2
    <3>2. Len(sent[c]) + 1 \in 1 .. Len(after) /\ after[Len(sent[c]) + 1] = offered[c][n + 1]
      BY <1>1, <2>1 DEF after
    <3>3. \A j \in 1 .. n + 1 : j \in 1 .. n \/ j = n + 1
      BY <1>1
    <3>4. QED
      BY <3>1, <3>2, <3>3
  <2>5. \A i, j \in 1 .. Len(after) : i < j => after[i].seq < after[j].seq
    <3>1. SUFFICES ASSUME NEW i \in 1 .. Len(after), NEW j \in 1 .. Len(after), i < j
                   PROVE  after[i].seq < after[j].seq
      OBVIOUS
    <3>2. i \in 1 .. Len(sent[c]) /\ after[i] = sent[c][i]
      BY <2>1, <3>1 DEF after
    <3>3. CASE j \in 1 .. Len(sent[c])
      <4>1. after[j] = sent[c][j]
        BY <2>1, <3>3 DEF after
      <4>2. QED
        BY <1>2, <3>1, <3>2, <3>3, <4>1 DEF Filtered
    <3>4. CASE j = Len(sent[c]) + 1
      BY <1>5, <2>1, <3>2, <3>4 DEF after
    <3>5. QED
      BY <2>2, <3>3, <3>4
  <2>6. Given(c)' = after
    BY <1>7 DEF after
  <2>7. QED
    BY <1>1, <1>3, <2>3, <2>4, <2>5, <2>6 DEF Filtered
<1>8. \/ Given(c)' = sent[c] /\ ~ Wanted(c, e)
      \/ Given(c)' = Append(sent[c], e) /\ Wanted(c, e)
  <2>1. CASE Wanted(c, e)
    <3>1. hand' = [hand EXCEPT ![c] = e] /\ sent' = sent
      BY <2>1 DEF Take, e
    <3>2. hand'[c] = e
      BY <3>1 DEF WatchInv, WatchTypeOK
    <3>3. Given(c)' = sent[c] \o <<e>>
      BY <1>4, <3>1, <3>2 DEF Given, InHand
    <3>4. sent[c] \o <<e>> = Append(sent[c], e)
      BY <1>2, <1>4
    <3>5. QED
      BY <2>1, <3>3, <3>4
  <2>2. CASE ~ Wanted(c, e)
    BY <1>2, <2>2 DEF Take, e, Given, InHand
  <2>3. QED
    BY <2>1, <2>2
<1>9. QED
  BY <1>6, <1>7, <1>8

\* An event that is sent moves out of the hand: what was given stays the same.
LEMMA SendingGivesNoMore ==
    ASSUME WatchInv, NEW c \in Subscribers, Send(c)
    PROVE  Given(c)' = Given(c)
<1>1. sent[c] \in Seq(Event) /\ hand[c] \in Event /\ hand[c] # NoEvent
  BY DEF Send, WatchInv, WatchTypeOK
<1>2. sent'[c] = Append(sent[c], hand[c]) /\ hand'[c] = NoEvent
  BY DEF Send, WatchInv, WatchTypeOK
<1>3. Given(c) = sent[c] \o <<hand[c]>>
  BY <1>1 DEF Given, InHand
<1>4. Given(c)' = sent'[c] \o << >>
  BY <1>2 DEF Given, InHand
<1>5. Append(sent[c], hand[c]) \o << >> = sent[c] \o <<hand[c]>>
  BY <1>1
<1>6. QED
  BY <1>2, <1>3, <1>4, <1>5

LEMMA SentStep ==
    ASSUME WatchInv, SentInv, [WatchNext]_watchVars
    PROVE  SentInv'
<1>0. /\ stage \in [Subscribers -> Stages] /\ sent \in [Subscribers -> Seq(Event)]
      /\ hand \in [Subscribers -> Event \union {NoEvent}]
      /\ selector \in [Subscribers -> LabelMaps] /\ taken \in [Subscribers -> Nat]
      /\ \A c \in Subscribers : offered[c] \in Seq(Event) /\ Len(offered[c]) \in Nat
  BY DEF WatchInv, WatchTypeOK, TypeInv, TypeOK
<1>1. ASSUME NEW c \in Subscribers, UNCHANGED offered,
             \A d \in Subscribers \ {c} :
                /\ stage'[d] = stage[d] /\ selector'[d] = selector[d] /\ taken'[d] = taken[d]
                /\ sent'[d] = sent[d] /\ hand'[d] = hand[d],
             taken'[c] <= Len(offered[c]),
             stage'[c] \in {"idle", "called"} => sent'[c] = << >> /\ taken'[c] = 0,
             stage'[c] \in {"select", "send"} => Filtered(c)'
      PROVE  SentInv'
  <2>1. ASSUME NEW d \in Subscribers \ {c}, stage[d] \in {"select", "send"}
        PROVE  Filtered(d)'
    BY <1>1, <2>1, FilteredStays DEF SentInv, Given, InHand
  <2>2. QED
    BY <1>1, <2>1 DEF SentInv
<1>2. ASSUME NEW c \in Subscribers, NEW labels \in Selectors, Call(c, labels)
      PROVE  SentInv'
  BY <1>0, <1>1, <1>2 DEF Call, vars, feeds, SentInv
<1>3. ASSUME NEW c \in Subscribers, GoAway(c)
      PROVE  SentInv'
  <2>1. stage[c] \in {"select", "send"} => Filtered(c)'
    BY <1>3, FilteredStays DEF GoAway, vars, feeds, SentInv, Given, InHand
  <2>2. QED
    BY <1>0, <1>1, <1>3, <2>1 DEF GoAway, vars, feeds, SentInv
<1>4. ASSUME NEW c \in Subscribers, Begin(c)
      PROVE  SentInv'
  <2>1. sent'[c] = << >> /\ taken'[c] = 0 /\ hand'[c] = NoEvent
    BY <1>4 DEF Begin, Subscribe, SentInv, WatchInv, WatchTypeOK
  <2>2. Given(c)' = << >> \o << >>
    BY <2>1 DEF Given, InHand
  <2>3. Len(Given(c)') = 0
    BY <2>2
  <2>4. Filtered(c)'
    BY <2>1, <2>3 DEF Filtered
  <2>5. QED
    BY <1>0, <1>1, <1>4, <2>1, <2>4 DEF Begin, Subscribe, SentInv
<1>5. ASSUME NEW c \in Subscribers, Take(c)
      PROVE  SentInv'
  <2>1. taken'[c] <= Len(offered[c]) /\ UNCHANGED offered
    BY <1>0, <1>5 DEF Take, Receive, Buffered
  <2>2. Filtered(c)'
    BY <1>5, TakingKeepsTheFilter
  <2>3. \A d \in Subscribers \ {c} :
            /\ stage'[d] = stage[d] /\ selector'[d] = selector[d] /\ taken'[d] = taken[d]
            /\ sent'[d] = sent[d] /\ hand'[d] = hand[d]
    BY <1>0, <1>5 DEF Take, Receive
  <2>4. stage'[c] \in {"select", "send"}
    BY <1>0, <1>5 DEF Take
  <2>5. QED
    BY <1>1, <2>1, <2>2, <2>3, <2>4
<1>6. ASSUME NEW c \in Subscribers, NoticeDone(c) \/ SendFails(c)
      PROVE  SentInv'
  BY <1>0, <1>1, <1>6 DEF NoticeDone, SendFails, vars, feeds, SentInv
<1>7. ASSUME NEW c \in Subscribers, Send(c)
      PROVE  SentInv'
  <2>1. Filtered(c)'
    BY <1>7, SendingGivesNoMore, FilteredStays DEF Send, vars, feeds, SentInv
  <2>2. QED
    BY <1>0, <1>1, <1>7, <2>1 DEF Send, vars, feeds, SentInv
<1>8. ASSUME NEW c \in Subscribers, Leave(c)
      PROVE  SentInv'
  BY <1>0, <1>1, <1>8 DEF Leave, Unsubscribe, SentInv
<1>9. CASE UNCHANGED watchVars
  <2>1. \A c \in Subscribers : stage[c] \in {"select", "send"} => Filtered(c)'
    BY <1>9, FilteredStays DEF watchVars, vars, feeds, streams, SentInv, Given, InHand
  <2>2. QED
    BY <1>9, <2>1 DEF watchVars, vars, feeds, streams, SentInv
<1>10. QED
  BY WritingLeavesTheStreams, <1>2, <1>3, <1>4, <1>5, <1>6, <1>7, <1>8, <1>9 DEF WatchNext, Handle

LEMMA SentInvariant == WatchSpec => []SentInv
<1>1. WatchInit => SentInv
  BY DEF WatchInit, Init, SentInv
<1>2. QED
  BY <1>1, SentStep, WatchInvariant, PTL DEF WatchSpec

-----------------------------------------------------------------------------
\* An event is in a handler's hand exactly while it is sent; the rest is types.
THEOREM StreamTypes == WatchSpec => []WatchTypeOK
<1>1. WatchInv => WatchTypeOK
  BY DEF WatchInv
<1>2. QED
  BY <1>1, WatchInvariant, PTL

\* No stream that ended is still a listener and no channel is closed under a
\* running handler, whatever ended the stream and however many there are.
THEOREM NoListenerIsLeftBehind == WatchSpec => []ListenersAreTheLoops
<1>1. WatchInv => ListenersAreTheLoops
  BY DEF WatchInv, FeedInv, Channels, ChannelOfLoop, ListenersAreTheLoops
<1>2. QED
  BY <1>1, WatchInvariant, PTL

\* For every number of streams and writers: a change made while a stream's
\* channel was a listener is in it, owed, dropped because it was full, or cut.
THEOREM StreamsLoseNothingSilently == WatchSpec => []NothingSilentlyLost
BY StreamsUseTheStore, NoSilentLoss

\* However many streams there are and however full their channels run: what a
\* stream was given is what its handler took and its filter lets through, each
\* event once and in the order of the changes.
THEOREM StreamsAreFiltered == WatchSpec => []SentIsTheFilteredFeed
<1>1. WatchInv /\ SentInv => SentIsTheFilteredFeed
  BY SentIsFiltered DEF WatchInv
<1>2. QED
  BY <1>1, WatchInvariant, SentInvariant, PTL

\* The server's store is an ItemFeed for its streams.
THEOREM ServerImplementsFeed == WatchSpec => ImplementsFeed
BY StreamsUseTheStore, StoreImplementsFeed
=============================================================================
