-------------------------- MODULE ItemStoreProofs --------------------------
(***************************************************************************)
(* What holds of ItemStore for every number of writers, subscribers, items *)
(* and bodies, every buffer capacity and every number of commits.          *)
(***************************************************************************)
EXTENDS ItemStore, TLAPS

-----------------------------------------------------------------------------
(* What the pure operations return.                                        *)

LEMMA OrEmptyType ==
    ASSUME NEW labels \in LabelMaps \union {NilLabels}
    PROVE  OrEmpty(labels) \in LabelMaps
BY DEF OrEmpty, NoLabels, LabelMaps

LEMMA CreatedType ==
    ASSUME NEW id \in Ids, NEW body \in Body, NEW now \in Nat \ {0}
    PROVE  /\ Created(id, body, now) \in Item
           /\ Created(id, body, now).id = id
<1>1. OrEmpty(body.labels) \in LabelMaps
  BY OrEmptyType DEF Body
<1>2. QED
  BY <1>1 DEF Created, Item, Body

LEMMA ReplacedType ==
    ASSUME NEW old \in Item, NEW body \in Body, NEW now \in Nat \ {0}
    PROVE  /\ Replaced(old, body, now) \in Item
           /\ Replaced(old, body, now).id = old.id
<1>1. OrEmpty(body.labels) \in LabelMaps
  BY OrEmptyType DEF Body
<1>2. QED
  BY <1>1 DEF Replaced, Item, Body

LEMMA MergedType ==
    ASSUME NEW old \in Item, NEW body \in Body, NEW now \in Nat \ {0}
    PROVE  /\ Merged(old, body, now) \in Item
           /\ Merged(old, body, now).id = old.id
<1>1. Overlay(OrEmpty(body.labels), old.labels) \in LabelMaps
  BY OrEmptyType DEF Overlay, LabelMaps, Item, Body
<1>2. QED
  BY <1>1 DEF Merged, Item, Body

-----------------------------------------------------------------------------
(* A step of the store, by what it does to the map.                        *)

\* An item is stored under its own identifier.
Keyed == \A id \in Ids : items[id] # NoItem => items[id].id = id

\* What a change can be: the event's type tells what became of the item.
LegalChange(id, new, type, shown) ==
    /\ shown \in Item /\ shown.id = id
    /\ \/ /\ type = "CREATED" /\ items[id] = NoItem /\ new = shown
          /\ new.version = 1 /\ new.created = Now /\ new.updated = Now
       \/ /\ type = "UPDATED" /\ items[id] # NoItem /\ new = shown
          /\ new.version = items[id].version + 1
          /\ new.created = items[id].created /\ new.updated = Now
       \/ type = "DELETED" /\ items[id] # NoItem /\ new = NoItem /\ shown = items[id]

\* Everything a step can be, the four methods reduced to a legal change or a
\* refusal.
StepCases ==
    \/ \E w \in Writers :
          \/ Enters(w) /\ Refuse(w)
          \/ \E id \in Ids : \E new, shown : \E type \in EventTypes :
                /\ Enters(w) /\ LegalChange(id, new, type, shown)
                /\ Commit(w, id, new, type, shown)
          \/ CopyListeners(w) \/ Return(w)
          \/ \E c \in Subscribers : Offer(w, c) \/ Drop(w, c) \/ SendOnClosed(w, c)
    \/ \E c \in Subscribers : Subscribe(c) \/ Unsubscribe(c) \/ Receive(c)
    \/ UNCHANGED vars

LEMMA NowType == TypeOK => Now \in Nat \ {0} /\ Len(log) \in Nat
BY DEF TypeOK, Now

LEMMA EveryStepIsACase ==
    ASSUME TypeOK, Keyed, [Next]_vars
    PROVE  StepCases
<1>0. Now \in Nat \ {0}
  BY NowType
<1>1. ASSUME NEW w \in Writers, NEW id \in Ids, NEW body \in Bodies, Create(w, id, body)
      PROVE  StepCases
  <2>1. body \in Body
    BY StoreAssumption
  <2>2. CASE items[id] = NoItem /\ Commit(w, id, Created(id, body, Now), "CREATED", Created(id, body, Now))
    <3>1. LegalChange(id, Created(id, body, Now), "CREATED", Created(id, body, Now))
      BY <1>0, <2>1, <2>2, CreatedType DEF LegalChange, Created
    <3>2. "CREATED" \in EventTypes
      BY DEF EventTypes
    <3>3. QED
      BY <1>1, <2>2, <3>1, <3>2 DEF StepCases, Create
  <2>3. CASE items[id] # NoItem /\ Refuse(w)
    BY <1>1, <2>3 DEF StepCases, Create
  <2>4. QED
    BY <1>1, <2>2, <2>3 DEF Create
<1>2. ASSUME NEW w \in Writers, NEW id \in Ids, NEW body \in Bodies, Update(w, id, body)
      PROVE  StepCases
  <2>1. body \in Body
    BY StoreAssumption
  <2>2. CASE items[id] # NoItem /\ Commit(w, id, Replaced(items[id], body, Now), "UPDATED", Replaced(items[id], body, Now))
    <3>0. items[id] \in Item /\ items[id].id = id
      BY <2>2 DEF TypeOK, Keyed
    <3>1. LegalChange(id, Replaced(items[id], body, Now), "UPDATED", Replaced(items[id], body, Now))
      BY <1>0, <2>1, <2>2, <3>0, ReplacedType DEF LegalChange, Replaced
    <3>2. "UPDATED" \in EventTypes
      BY DEF EventTypes
    <3>3. QED
      BY <1>2, <2>2, <3>1, <3>2 DEF StepCases, Update
  <2>3. CASE items[id] = NoItem /\ Refuse(w)
    BY <1>2, <2>3 DEF StepCases, Update
  <2>4. QED
    BY <1>2, <2>2, <2>3 DEF Update
<1>3. ASSUME NEW w \in Writers, NEW id \in Ids, NEW body \in Bodies, Upsert(w, id, body)
      PROVE  StepCases
  <2>1. body \in Body
    BY StoreAssumption
  <2>2. CASE items[id] # NoItem /\ Commit(w, id, Merged(items[id], body, Now), "UPDATED", Merged(items[id], body, Now))
    <3>0. items[id] \in Item /\ items[id].id = id
      BY <2>2 DEF TypeOK, Keyed
    <3>1. LegalChange(id, Merged(items[id], body, Now), "UPDATED", Merged(items[id], body, Now))
      BY <1>0, <2>1, <2>2, <3>0, MergedType DEF LegalChange, Merged
    <3>2. "UPDATED" \in EventTypes
      BY DEF EventTypes
    <3>3. QED
      BY <1>3, <2>2, <3>1, <3>2 DEF StepCases, Upsert
  <2>3. CASE items[id] = NoItem /\ Commit(w, id, Created(id, body, Now), "CREATED", Created(id, body, Now))
    <3>1. LegalChange(id, Created(id, body, Now), "CREATED", Created(id, body, Now))
      BY <1>0, <2>1, <2>3, CreatedType DEF LegalChange, Created
    <3>2. "CREATED" \in EventTypes
      BY DEF EventTypes
    <3>3. QED
      BY <1>3, <2>3, <3>1, <3>2 DEF StepCases, Upsert
  <2>4. QED
    BY <1>3, <2>2, <2>3 DEF Upsert
<1>4. ASSUME NEW w \in Writers, NEW id \in Ids, Delete(w, id)
      PROVE  StepCases
  <2>1. CASE items[id] # NoItem /\ Commit(w, id, NoItem, "DELETED", items[id])
    <3>0. items[id] \in Item /\ items[id].id = id
      BY <2>1 DEF TypeOK, Keyed
    <3>1. LegalChange(id, NoItem, "DELETED", items[id])
      BY <2>1, <3>0 DEF LegalChange
    <3>2. "DELETED" \in EventTypes
      BY DEF EventTypes
    <3>3. QED
      BY <1>4, <2>1, <3>1, <3>2 DEF StepCases, Delete
  <2>2. CASE items[id] = NoItem /\ Refuse(w)
    BY <1>4, <2>2 DEF StepCases, Delete
  <2>3. QED
    BY <1>4, <2>1, <2>2 DEF Delete
<1>5. ASSUME NEW w \in Writers, Emit(w)
      PROVE  StepCases
  BY <1>5 DEF StepCases, Emit
<1>6. QED
  BY <1>1, <1>2, <1>3, <1>4, <1>5 DEF Next, Mutate, StepCases

-----------------------------------------------------------------------------
(* Type correctness.                                                       *)

LEMMA AppendType ==
    ASSUME NEW S, NEW s \in Seq(S), NEW e \in S
    PROVE  /\ Append(s, e) \in Seq(S)
           /\ Len(Append(s, e)) = Len(s) + 1
           /\ Append(s, e)[Len(s) + 1] = e
           /\ \A n \in 1 .. Len(s) : Append(s, e)[n] = s[n]
OBVIOUS

\* The lock covers the emission, and the event emitted is the last of the log.
LockInv == \A w \in Writers :
    /\ pc[w] # "ready" => mu = w /\ Len(log) > 0 /\ cur[w] = log[Len(log)]
    /\ pc[w] # "send" => todo[w] = {}

TypeInv == TypeOK /\ Keyed /\ LockInv

LEMMA TypeInit == Init => TypeInv
BY DEF Init, TypeInv, TypeOK, Keyed, LockInv, Replies

LEMMA TypeStep ==
    ASSUME TypeInv, [Next]_vars
    PROVE  TypeInv'
<1> USE DEF TypeInv
<1>0. StepCases
  BY EveryStepIsACase
<1>1. ASSUME NEW w \in Writers, Enters(w), Refuse(w)
      PROVE  TypeInv'
  BY <1>1 DEF Refuse, TypeOK, Keyed, LockInv, feeds, Replies
<1>2. ASSUME NEW w \in Writers, NEW id \in Ids, NEW new, NEW shown,
             NEW type \in EventTypes, Enters(w),
             LegalChange(id, new, type, shown), Commit(w, id, new, type, shown)
      PROVE  TypeInv'
  <2> DEFINE e == [seq |-> Now, type |-> type, item |-> shown]
  <2>1. new \in Item \union {NoItem} /\ shown \in Item
    BY <1>2 DEF LegalChange
  <2>2. new # NoItem => new.id = id
    BY <1>2 DEF LegalChange
  <2>3. e \in Event
    BY <2>1, NowType DEF Event
  <2>4. /\ items' = [items EXCEPT ![id] = new]
        /\ log' = Append(log, e)
        /\ cur' = [cur EXCEPT ![w] = e]
        /\ mu' = w
        /\ pc' = [pc EXCEPT ![w] = "emit"]
        /\ reply' = [reply EXCEPT ![w] = "none"]
        /\ UNCHANGED <<todo, listeners, chan, offered, taken, since, dropped, cut>>
    BY <1>2 DEF Commit, feeds
  <2> HIDE DEF e
  <2>5. log' \in Seq(Event) /\ Len(log') = Len(log) + 1 /\ log'[Len(log')] = e
    BY <2>3, <2>4, AppendType DEF TypeOK
  <2>6. TypeOK'
    BY <2>1, <2>3, <2>4, <2>5 DEF TypeOK, Replies
  <2>7. Keyed'
    BY <2>2, <2>4 DEF TypeOK, Keyed
  <2>8. \A v \in Writers : pc[v] = "ready"
    BY <1>2, StoreAssumption DEF Enters, LockInv
  <2>9. Len(log') > 0
    BY <2>4, <2>5 DEF TypeOK
  <2>10. LockInv'
    BY <2>4, <2>5, <2>8, <2>9 DEF TypeOK, LockInv
  <2>11. QED
    BY <2>6, <2>7, <2>10
<1>3. ASSUME NEW w \in Writers, CopyListeners(w)
      PROVE  TypeInv'
  BY <1>3 DEF CopyListeners, TypeOK, Keyed, LockInv, feeds
<1>4. ASSUME NEW w \in Writers, Return(w)
      PROVE  TypeInv'
  BY <1>4 DEF Return, TypeOK, Keyed, LockInv, feeds, Replies
<1>5. ASSUME NEW w \in Writers, pc[w] = "send"
      PROVE  cur[w] \in Event /\ cur[w].seq \in Nat
  <2>1. Len(log) > 0 /\ cur[w] = log[Len(log)] /\ log \in Seq(Event)
    BY <1>5 DEF LockInv, TypeOK
  <2>2. cur[w] \in Event
    BY <2>1
  <2>3. QED
    BY <2>2 DEF Event
<1>6. ASSUME NEW w \in Writers, NEW c \in Subscribers, Offer(w, c)
      PROVE  TypeInv'
  <2>1. Append(offered[c], cur[w]) \in Seq(Event)
    BY <1>5, <1>6, AppendType DEF Offer, TypeOK
  <2>2. QED
    BY <1>6, <2>1 DEF Offer, TypeOK, Keyed, LockInv
<1>7. ASSUME NEW w \in Writers, NEW c \in Subscribers, Drop(w, c)
      PROVE  TypeInv'
  BY <1>5, <1>7 DEF Drop, TypeOK, Keyed, LockInv
<1>8. ASSUME NEW w \in Writers, NEW c \in Subscribers, SendOnClosed(w, c)
      PROVE  TypeInv'
  BY <1>5, <1>8 DEF SendOnClosed, TypeOK, Keyed, LockInv, feeds, Replies
<1>9. ASSUME NEW c \in Subscribers, Subscribe(c) \/ Unsubscribe(c) \/ Receive(c)
      PROVE  TypeInv'
  <2>1. CASE Subscribe(c)
    BY <2>1 DEF Subscribe, TypeOK, Keyed, LockInv, store
  <2>2. CASE Unsubscribe(c)
    BY <2>2 DEF Unsubscribe, TypeOK, Keyed, LockInv, store
  <2>3. CASE Receive(c)
    BY <2>3 DEF Receive, TypeOK, Keyed, LockInv, store
  <2>4. QED
    BY <1>9, <2>1, <2>2, <2>3
<1>10. CASE UNCHANGED vars
  BY <1>10 DEF vars, store, feeds, TypeOK, Keyed, LockInv
<1>11. QED
  BY <1>0, <1>1, <1>2, <1>3, <1>4, <1>6, <1>7, <1>8, <1>9, <1>10 DEF StepCases

LEMMA TypeInvariant == Spec => []TypeInv
BY TypeInit, TypeStep, PTL DEF Spec

\* The store's state has its types in every reachable state; in particular no
\* stored item ever has the nil label map Upsert would panic on.
THEOREM TypeCorrect == Spec => []TypeOK
BY TypeInvariant, PTL DEF TypeInv

\* At most one writer is past its check, and it holds the lock until its
\* emission is over.
THEOREM MutualExclusion == Spec => []OneWriterInside
<1>1. TypeInv => OneWriterInside
  BY DEF TypeInv, LockInv, OneWriterInside
<1>2. QED
  BY <1>1, TypeInvariant, PTL

-----------------------------------------------------------------------------
(* The feeds.  A channel only grows at its end, by the event being emitted; *)
(* it is in order because, while an emission still owes it that event, all *)
(* it holds is older.                                                      *)

Numbered == \A n \in 1 .. Len(log) : log[n].seq = n

\* The listeners are the open channels; one never subscribed is empty.
Channels == \A c \in Subscribers :
    /\ c \in listeners <=> chan[c] = "open"
    /\ chan[c] = "none" => offered[c] = << >>

\* What a channel holds is of the log, from since[c] on, in order.
FeedOfLog == \A c \in Subscribers :
    /\ since[c] <= Len(log)
    /\ \A i \in 1 .. Len(offered[c]) :
          /\ offered[c][i].seq \in 1 .. Len(log) /\ offered[c][i].seq >= since[c]
          /\ offered[c][i] = log[offered[c][i].seq]
    /\ \A i, j \in 1 .. Len(offered[c]) :
          i < j => offered[c][i].seq < offered[c][j].seq

\* An event still owed to a channel is newer than all the channel was given.
OwedIsNewer == \A w \in Writers, c \in Subscribers :
    pc[w] = "emit" \/ c \in todo[w] =>
        \A i \in 1 .. Len(offered[c]) : offered[c][i].seq < Len(log)

FeedInv == Numbered /\ Channels /\ FeedOfLog /\ OwedIsNewer

LEMMA FeedInit == Init => FeedInv
BY DEF Init, FeedInv, Numbered, Channels, FeedOfLog, OwedIsNewer

\* The typing facts the steps below use of a state.
LEMMA Shapes ==
    ASSUME TypeInv
    PROVE  /\ Len(log) \in Nat /\ log \in Seq(Event)
           /\ \A c \in Subscribers :
                 /\ offered[c] \in Seq(Event) /\ Len(offered[c]) \in Nat
                 /\ since[c] \in Nat
                 /\ \A i \in 1 .. Len(offered[c]) : offered[c][i].seq \in Nat
           /\ \A w \in Writers : pc[w] # "ready" => Len(log) > 0 /\ cur[w] = log[Len(log)]
<1>1. /\ Len(log) \in Nat /\ log \in Seq(Event)
      /\ \A c \in Subscribers :
            offered[c] \in Seq(Event) /\ Len(offered[c]) \in Nat /\ since[c] \in Nat
  BY DEF TypeInv, TypeOK
<1>2. ASSUME NEW c \in Subscribers, NEW i \in 1 .. Len(offered[c])
      PROVE  offered[c][i].seq \in Nat
  <2>1. offered[c][i] \in Event
    BY <1>1
  <2>2. QED
    BY <2>1 DEF Event
<1>3. QED
  BY <1>1, <1>2 DEF TypeInv, LockInv

LEMMA FeedStep ==
    ASSUME TypeInv, FeedInv, [Next]_vars
    PROVE  FeedInv'
<1> USE DEF FeedInv
<1>0. StepCases
  BY EveryStepIsACase DEF TypeInv
<1>1. ASSUME UNCHANGED <<listeners, chan, offered, since, log>>,
             \A w \in Writers, c \in Subscribers :
                (pc[w] = "emit" \/ c \in todo[w])' => (pc[w] = "emit" \/ c \in todo[w])
      PROVE  FeedInv'
  BY <1>1 DEF Numbered, Channels, FeedOfLog, OwedIsNewer
<1>2. ASSUME NEW w \in Writers, NEW id \in Ids, NEW new, NEW shown,
             NEW type \in EventTypes, Enters(w),
             LegalChange(id, new, type, shown), Commit(w, id, new, type, shown)
      PROVE  FeedInv'
  <2> DEFINE e == [seq |-> Now, type |-> type, item |-> shown]
  <2>1. e \in Event /\ e.seq = Len(log) + 1
    BY <1>2, NowType DEF TypeInv, LegalChange, Event, Now
  <2>2. log' = Append(log, e) /\ UNCHANGED <<listeners, chan, offered, since>>
    BY <1>2 DEF Commit, feeds
  <2> HIDE DEF e
  <2>3. /\ Len(log') = Len(log) + 1 /\ log'[Len(log) + 1].seq = Len(log) + 1
        /\ \A n \in 1 .. Len(log) : log'[n] = log[n]
    BY <2>1, <2>2, AppendType, Shapes
  <2>4. Numbered'
    BY <2>3, Shapes DEF Numbered
  <2>5. Channels'
    BY <2>2 DEF Channels
  <2>6. FeedOfLog'
    BY <2>2, <2>3, Shapes DEF FeedOfLog
  <2>7. OwedIsNewer'
    BY <2>2, <2>3, Shapes DEF FeedOfLog, OwedIsNewer
  <2>8. QED
    BY <2>4, <2>5, <2>6, <2>7
<1>3. ASSUME NEW w \in Writers, NEW c \in Subscribers, Offer(w, c)
      PROVE  FeedInv'
  <2>1. /\ Len(log) > 0 /\ cur[w] = log[Len(log)] /\ cur[w].seq = Len(log)
        /\ cur[w] \in Event
    BY <1>3, Shapes DEF Offer, Numbered
  <2>2. /\ offered'[c] = Append(offered[c], cur[w])
        /\ \A d \in Subscribers \ {c} : offered'[d] = offered[d]
        /\ UNCHANGED <<listeners, chan, since, log, pc>>
    BY <1>3 DEF Offer, TypeInv, TypeOK
  <2>3. /\ Len(offered'[c]) = Len(offered[c]) + 1
        /\ offered'[c][Len(offered[c]) + 1] = cur[w]
        /\ \A i \in 1 .. Len(offered[c]) : offered'[c][i] = offered[c][i]
    BY <2>1, <2>2, AppendType, Shapes
  <2>4. c \in todo[w] /\ chan[c] = "open"
    BY <1>3 DEF Offer
  <2>5. Numbered' /\ Channels'
    BY <2>2, <2>4 DEF Numbered, Channels
  <2>6. \A i \in 1 .. Len(offered[c]) : offered[c][i].seq < Len(log)
    BY <2>4 DEF OwedIsNewer
  <2>7. FeedOfLog'
    <3>1. ASSUME NEW d \in Subscribers, d # c
          PROVE  FeedOfLog!(d)'
      BY <2>2, <3>1 DEF FeedOfLog
    <3>2. FeedOfLog!(c)'
      <4>1. since'[c] <= Len(log')
        BY <2>2 DEF FeedOfLog
      <4>2. \A i \in 1 .. Len(offered'[c]) :
               /\ offered'[c][i].seq \in 1 .. Len(log') /\ offered'[c][i].seq >= since'[c]
               /\ offered'[c][i] = log'[offered'[c][i].seq]
        BY <2>1, <2>2, <2>3, Shapes DEF FeedOfLog
      <4>3. \A i, j \in 1 .. Len(offered'[c]) :
               i < j => offered'[c][i].seq < offered'[c][j].seq
        <5> SUFFICES ASSUME NEW i \in 1 .. Len(offered'[c]),
                            NEW j \in 1 .. Len(offered'[c]), i < j
                     PROVE  offered'[c][i].seq < offered'[c][j].seq
          OBVIOUS
        <5>1. i \in 1 .. Len(offered[c]) /\ offered'[c][i] = offered[c][i]
          BY <2>3, Shapes
        <5>2. CASE j = Len(offered[c]) + 1
          BY <2>1, <2>3, <2>6, <5>1, <5>2
        <5>3. CASE j # Len(offered[c]) + 1
          <6>1. j \in 1 .. Len(offered[c]) /\ offered'[c][j] = offered[c][j]
            BY <2>3, <5>3, Shapes
          <6>2. QED
            BY <5>1, <6>1 DEF FeedOfLog
        <5>4. QED
          BY <5>2, <5>3
      <4>4. QED
        BY <4>1, <4>2, <4>3
    <3>3. QED
      BY <3>1, <3>2 DEF FeedOfLog
  <2>8. \A v \in Writers : (pc[v] # "ready" => v = w)
    BY <1>3 DEF Offer, TypeInv, LockInv
  <2>9. OwedIsNewer'
    <3>1. ASSUME NEW v \in Writers, NEW d \in Subscribers, (pc[v] = "emit" \/ d \in todo[v])'
          PROVE  d # c /\ (pc[v] = "emit" \/ d \in todo[v])
      BY <1>3, <2>8, <3>1 DEF Offer, TypeInv, TypeOK, LockInv
    <3>2. QED
      BY <2>2, <3>1 DEF OwedIsNewer
  <2>10. QED
    BY <2>5, <2>7, <2>9
<1>4. ASSUME NEW c \in Subscribers, Subscribe(c)
      PROVE  FeedInv'
  <2>1. /\ offered[c] = << >> /\ chan' = [chan EXCEPT ![c] = "open"]
        /\ listeners' = listeners \union {c}
        /\ since' = [since EXCEPT ![c] = Len(log)]
        /\ UNCHANGED <<offered, log, pc, todo>>
    BY <1>4 DEF Subscribe, Channels, store
  <2>2. Numbered' /\ Channels'
    BY <2>1 DEF Numbered, Channels, TypeInv, TypeOK
  <2>3. OwedIsNewer'
    BY <2>1 DEF OwedIsNewer
  <2>4. FeedOfLog'
    <3>1. since'[c] = Len(log) /\ \A d \in Subscribers \ {c} : since'[d] = since[d]
      BY <2>1 DEF TypeInv, TypeOK
    <3>2. Len(offered[c]) = 0 /\ Len(log) \in Nat
      BY <2>1, Shapes
    <3>3. ASSUME NEW d \in Subscribers, d # c
          PROVE  FeedOfLog!(d)'
      BY <2>1, <3>1, <3>3 DEF FeedOfLog
    <3>4. FeedOfLog!(c)'
      BY <2>1, <3>1, <3>2
    <3>5. QED
      BY <3>3, <3>4 DEF FeedOfLog
  <2>5. QED
    BY <2>2, <2>3, <2>4
<1>5. ASSUME NEW c \in Subscribers, Unsubscribe(c)
      PROVE  FeedInv'
  BY <1>5 DEF Unsubscribe, store, Numbered, Channels, FeedOfLog, OwedIsNewer, TypeInv, TypeOK
<1>6. ASSUME NEW w \in Writers,
             \/ Enters(w) /\ Refuse(w)
             \/ CopyListeners(w) \/ Return(w)
             \/ \E c \in Subscribers : Drop(w, c) \/ SendOnClosed(w, c)
      PROVE  FeedInv'
  <2>1. UNCHANGED <<listeners, chan, offered, since, log>>
    BY <1>6 DEF Refuse, CopyListeners, Return, Drop, SendOnClosed, feeds
  <2>2. \A v \in Writers, c \in Subscribers :
           (pc[v] = "emit" \/ c \in todo[v])' => (pc[v] = "emit" \/ c \in todo[v])
    <3>1. CASE Enters(w) /\ Refuse(w)
      BY <3>1 DEF Refuse
    <3>2. CASE CopyListeners(w)
      BY <3>2 DEF CopyListeners, TypeInv, TypeOK
    <3>3. CASE Return(w)
      BY <3>3 DEF Return, TypeInv, TypeOK
    <3>4. ASSUME NEW c \in Subscribers, Drop(w, c) \/ SendOnClosed(w, c)
          PROVE  \A v \in Writers, d \in Subscribers :
                    (pc[v] = "emit" \/ d \in todo[v])' => (pc[v] = "emit" \/ d \in todo[v])
      <4>1. CASE Drop(w, c)
        <5>1. pc' = pc /\ todo' = [todo EXCEPT ![w] = @ \ {c}]
          BY <4>1 DEF Drop
        <5>2. QED
          BY <5>1 DEF TypeInv, TypeOK
      <4>2. CASE SendOnClosed(w, c)
        <5>1. pc' = [pc EXCEPT ![w] = "ready"] /\ todo' = [todo EXCEPT ![w] = {}]
          BY <4>2 DEF SendOnClosed
        <5>2. QED
          BY <5>1 DEF TypeInv, TypeOK
      <4>3. QED
        BY <3>4, <4>1, <4>2
    <3>5. QED
      BY <1>6, <3>1, <3>2, <3>3, <3>4
  <2>3. QED
    BY <1>1, <2>1, <2>2
<1>7. ASSUME NEW c \in Subscribers, Receive(c)
      PROVE  FeedInv'
  BY <1>1, <1>7 DEF Receive, store
<1>8. CASE UNCHANGED vars
  BY <1>1, <1>8 DEF vars, store, feeds
<1>9. QED
  BY <1>0, <1>2, <1>3, <1>4, <1>5, <1>6, <1>7, <1>8 DEF StepCases

LEMMA FeedInvariant == Spec => [](TypeInv /\ FeedInv)
<1>1. TypeInv /\ FeedInv /\ [Next]_vars => (TypeInv /\ FeedInv)'
  BY TypeStep, FeedStep
<1>2. QED
  BY <1>1, TypeInit, FeedInit, PTL DEF Spec

\* Every subscriber gets events of the log in the order of the changes, none
\* twice, none from before it came but the one being emitted then; whatever the
\* other writers, subscribers and panics do.
THEOREM FeedsAreInOrder == Spec => []FeedInOrder
<1>1. FeedInv => FeedInOrder
  BY DEF FeedInv, FeedOfLog, FeedInOrder
<1>2. QED
  BY <1>1, FeedInvariant, PTL

-----------------------------------------------------------------------------
(* Nothing is lost without a reason: inductive with the two above.         *)

\* The n-th event is accounted for at channel c.
Accounted(n, c) ==
    \/ \E i \in 1 .. Len(offered[c]) : offered[c][i].seq = n
    \/ n \in dropped[c] \union cut
    \/ Pending(n, c)

LEMMA LossInit == Init => NothingSilentlyLost
BY DEF Init, NothingSilentlyLost

LEMMA LossStep ==
    ASSUME TypeInv, FeedInv, NothingSilentlyLost, [Next]_vars
    PROVE  NothingSilentlyLost'
<1>0. StepCases
  BY EveryStepIsACase DEF TypeInv
\* The event a writer has in hand is the last of the log.
<1>a. \A w \in Writers : pc[w] # "ready" =>
         mu = w /\ cur[w].seq = Len(log) /\ Len(log) > 0
  BY Shapes DEF TypeInv, LockInv, FeedInv, Numbered
<1>b. \A c \in listeners : \A n \in since[c] + 1 .. Len(log) : Accounted(n, c)
  BY DEF NothingSilentlyLost, Accounted
<1> SUFFICES ASSUME NEW c, NEW n, c \in listeners',
                      n \in (since'[c] + 1) .. Len(log')
               PROVE  Accounted(n, c)'
  BY DEF NothingSilentlyLost, Accounted
<1>c. c \in Subscribers
  BY TypeStep DEF TypeInv, TypeOK
<1>1. ASSUME NEW w \in Writers, NEW id \in Ids, NEW new, NEW shown,
             NEW type \in EventTypes, Enters(w),
             LegalChange(id, new, type, shown), Commit(w, id, new, type, shown)
      PROVE  Accounted(n, c)'
  <2> DEFINE e == [seq |-> Now, type |-> type, item |-> shown]
  <2>1. e \in Event /\ e.seq = Len(log) + 1
    BY <1>1, NowType DEF TypeInv, LegalChange, Event, Now
  <2>2. /\ log' = Append(log, e) /\ cur' = [cur EXCEPT ![w] = e]
        /\ pc' = [pc EXCEPT ![w] = "emit"]
        /\ UNCHANGED <<listeners, offered, since, dropped, cut, todo>>
    BY <1>1 DEF Commit, feeds
  <2> HIDE DEF e
  <2>3. Len(log') = Len(log) + 1
    BY <2>1, <2>2, AppendType, Shapes
  <2>4. \A v \in Writers : pc[v] = "ready"
    BY <1>1, <1>a, StoreAssumption DEF Enters
  <2>5. CASE n = Len(log) + 1
    <3>1. pc'[w] = "emit" /\ cur'[w].seq = n
      BY <2>1, <2>2, <2>5 DEF TypeInv, TypeOK
    <3>2. QED
      BY <3>1 DEF Accounted, Pending
  <2>6. CASE n # Len(log) + 1
    <3>1. n \in since[c] + 1 .. Len(log) /\ c \in listeners
      BY <2>2, <2>3, <2>6, Shapes, <1>c
    <3>2. ~ Pending(n, c)
      BY <2>4 DEF Pending
    <3>3. QED
      BY <1>b, <2>2, <3>1, <3>2 DEF Accounted
  <2>7. QED
    BY <2>5, <2>6
<1>2. ASSUME NEW w \in Writers, CopyListeners(w)
      PROVE  Accounted(n, c)'
  <2>1. /\ todo' = [todo EXCEPT ![w] = listeners] /\ pc' = [pc EXCEPT ![w] = "send"]
        /\ UNCHANGED <<cur, log, listeners, offered, since, dropped, cut>>
    BY <1>2 DEF CopyListeners, feeds
  <2>2. Pending(n, c) => Pending(n, c)'
    BY <2>1 DEF Pending, TypeInv, TypeOK
  <2>3. QED
    BY <1>b, <2>1, <2>2 DEF Accounted
<1>3. ASSUME NEW w \in Writers, NEW d \in Subscribers, Offer(w, d)
      PROVE  Accounted(n, c)'
  <2>1. /\ pc[w] = "send" /\ d \in todo[w]
        /\ offered' = [offered EXCEPT ![d] = Append(@, cur[w])]
        /\ todo' = [todo EXCEPT ![w] = @ \ {d}]
        /\ UNCHANGED <<pc, cur, log, listeners, since, dropped, cut>>
    BY <1>3 DEF Offer
  <2>2. n \in since[c] + 1 .. Len(log) /\ c \in listeners
    BY <2>1
  <2>3. offered[d] \in Seq(Event) /\ cur[w] \in Event
    BY <2>1, Shapes
  <2>4. CASE c # d
    <3>1. Pending(n, c) => Pending(n, c)'
      BY <2>1, <2>4 DEF Pending, TypeInv, TypeOK
    <3>2. offered'[c] = offered[c]
      BY <2>1, <2>4
    <3>3. QED
      BY <1>b, <2>1, <2>2, <3>1, <3>2 DEF Accounted
  <2>5. CASE c = d
    <3>1. /\ Len(offered'[c]) = Len(offered[c]) + 1
          /\ offered'[c][Len(offered[c]) + 1] = cur[w]
          /\ \A i \in 1 .. Len(offered[c]) : offered'[c][i] = offered[c][i]
      BY <1>c, <2>1, <2>3, <2>5, AppendType DEF TypeInv, TypeOK
    <3>2. CASE Pending(n, c)
      <4>1. n = cur[w].seq
        BY <1>a, <2>1, <3>2 DEF Pending
      <4>2. QED
        BY <1>c, <3>1, <4>1, Shapes DEF Accounted
    <3>3. ASSUME NEW i \in 1 .. Len(offered[c]), offered[c][i].seq = n
          PROVE  Accounted(n, c)'
      <4>1. i \in 1 .. Len(offered'[c]) /\ offered'[c][i].seq = n
        BY <1>c, <3>1, <3>3, Shapes
      <4>2. QED
        BY <4>1 DEF Accounted
    <3>4. QED
      BY <1>b, <2>1, <2>2, <3>2, <3>3 DEF Accounted
  <2>6. QED
    BY <2>4, <2>5
<1>4. ASSUME NEW w \in Writers, NEW d \in Subscribers, Drop(w, d)
      PROVE  Accounted(n, c)'
  <2>1. /\ pc[w] = "send" /\ d \in todo[w]
        /\ dropped' = [dropped EXCEPT ![d] = @ \union {cur[w].seq}]
        /\ todo' = [todo EXCEPT ![w] = @ \ {d}]
        /\ UNCHANGED <<pc, cur, log, listeners, since, offered, cut>>
    BY <1>4 DEF Drop
  <2>2. n \in since[c] + 1 .. Len(log) /\ c \in listeners
    BY <2>1
  <2>3. dropped[c] \subseteq dropped'[c]
    BY <1>c, <2>1 DEF TypeInv, TypeOK
  <2>4. CASE c # d
    <3>1. Pending(n, c) => Pending(n, c)'
      BY <2>1, <2>4 DEF Pending, TypeInv, TypeOK
    <3>2. QED
      BY <1>b, <2>1, <2>2, <2>3, <3>1 DEF Accounted
  <2>5. CASE c = d
    <3>1. Pending(n, c) => n \in dropped'[c]
      BY <1>a, <1>c, <2>1, <2>5 DEF Pending, TypeInv, TypeOK
    <3>2. QED
      BY <1>b, <2>1, <2>2, <2>3, <3>1 DEF Accounted
  <2>6. QED
    BY <2>4, <2>5
<1>5. ASSUME NEW w \in Writers, NEW d \in Subscribers, SendOnClosed(w, d)
      PROVE  Accounted(n, c)'
  <2>1. /\ pc[w] = "send" /\ cut' = cut \union {cur[w].seq}
        /\ UNCHANGED <<log, listeners, since, offered, dropped>>
    BY <1>5 DEF SendOnClosed, feeds
  <2>2. Pending(n, c) => n \in cut'
    BY <1>a, <2>1 DEF Pending
  <2>3. QED
    BY <1>b, <2>1, <2>2 DEF Accounted
<1>6. ASSUME NEW w \in Writers, Return(w)
      PROVE  Accounted(n, c)'
  <2>1. /\ pc[w] = "send" /\ todo[w] = {}
        /\ UNCHANGED <<log, listeners, since, offered, dropped, cut>>
    BY <1>6 DEF Return, feeds
  <2>2. ~ Pending(n, c)
    BY <1>a, <2>1 DEF Pending
  <2>3. QED
    BY <1>b, <2>1, <2>2 DEF Accounted
<1>7. ASSUME NEW d \in Subscribers, Subscribe(d)
      PROVE  Accounted(n, c)'
  <2>1. /\ listeners' = listeners \union {d} /\ since' = [since EXCEPT ![d] = Len(log)]
        /\ UNCHANGED <<pc, cur, todo, log, offered, dropped, cut>>
    BY <1>7 DEF Subscribe, store
  <2>2. c # d
    BY <1>c, <2>1, Shapes DEF TypeInv, TypeOK
  <2>3. QED
    <3>1. c \in listeners /\ since'[c] = since[c]
      BY <1>c, <2>1, <2>2 DEF TypeInv, TypeOK
    <3>2. Accounted(n, c)
      BY <1>b, <2>1, <3>1
    <3>3. QED
      BY <2>1, <3>2 DEF Accounted, Pending
<1>8. ASSUME UNCHANGED <<pc, cur, todo, log, offered, since, dropped, cut>>,
             listeners' \subseteq listeners
      PROVE  Accounted(n, c)'
  BY <1>b, <1>8 DEF Accounted, Pending
<1>9. ASSUME NEW d \in Subscribers, Unsubscribe(d) \/ Receive(d)
      PROVE  Accounted(n, c)'
  BY <1>8, <1>9 DEF Unsubscribe, Receive, store
<1>10. ASSUME NEW w \in Writers, Refuse(w)
       PROVE  Accounted(n, c)'
  BY <1>8, <1>10 DEF Refuse, feeds
<1>11. CASE UNCHANGED vars
  BY <1>8, <1>11 DEF vars, store, feeds
<1>12. QED
  BY <1>0, <1>1, <1>2, <1>3, <1>4, <1>5, <1>6, <1>7, <1>9, <1>10, <1>11 DEF StepCases

\* A change made while a channel was subscribed is in it, still owed to it,
\* dropped because it was full, or cut by a panic: for any number of
\* subscribers and any capacity, a slow one costs the others nothing.
THEOREM NoSilentLoss == Spec => []NothingSilentlyLost
<1>1. TypeInv /\ FeedInv /\ NothingSilentlyLost /\ [Next]_vars => NothingSilentlyLost'
  BY LossStep
<1>2. QED
  BY <1>1, LossInit, FeedInvariant, PTL DEF Spec

-----------------------------------------------------------------------------
(* The safety half of CallsReturn: whoever holds the lock can go on.       *)

\* The lock is held by a call that is under way, never left behind by one that
\* returned, was refused or panicked, and emit has a step for each channel it
\* has still to visit, be there room in it, none, or the channel closed: it was
\* subscribed once.
HolderGoesOn == mu # Free =>
    /\ mu \in Writers /\ pc[mu] # "ready"
    /\ \A c \in todo[mu] : chan[c] # "none"

LEMMA HolderStep ==
    ASSUME TypeInv, FeedInv, HolderGoesOn, [Next]_vars
    PROVE  HolderGoesOn'
<1> USE DEF TypeInv, TypeOK, HolderGoesOn
<1>0. StepCases
  BY EveryStepIsACase
<1>1. ASSUME NEW w \in Writers, Enters(w), Refuse(w)
      PROVE  HolderGoesOn'
  BY <1>1 DEF Enters, Refuse, feeds
<1>2. ASSUME NEW w \in Writers, NEW id \in Ids, NEW new, NEW shown, NEW type \in EventTypes,
             Enters(w), Commit(w, id, new, type, shown)
      PROVE  HolderGoesOn'
  <2>1. /\ mu' = w /\ pc' = [pc EXCEPT ![w] = "emit"] /\ UNCHANGED <<todo, chan>>
        /\ pc[w] = "ready"
    BY <1>2 DEF Enters, Commit, feeds
  <2>2. todo[w] = {}
    BY <2>1 DEF LockInv
  <2>3. QED
    BY <2>1, <2>2
<1>3. ASSUME NEW w \in Writers, CopyListeners(w)
      PROVE  HolderGoesOn'
  BY <1>3 DEF CopyListeners, feeds, Channels, FeedInv, LockInv
<1>4. ASSUME NEW w \in Writers, Return(w)
      PROVE  HolderGoesOn'
  BY <1>4 DEF Return
<1>5. ASSUME NEW w \in Writers, NEW c \in Subscribers, Offer(w, c) \/ Drop(w, c)
      PROVE  HolderGoesOn'
  <2>1. /\ todo' = [todo EXCEPT ![w] = @ \ {c}] /\ UNCHANGED <<mu, pc, chan>>
    BY <1>5 DEF Offer, Drop
  <2>2. \A v \in Writers : todo'[v] \subseteq todo[v]
    BY <2>1
  <2>3. QED
    BY <2>1, <2>2
<1>6. ASSUME NEW w \in Writers, NEW c \in Subscribers, SendOnClosed(w, c)
      PROVE  HolderGoesOn'
  BY <1>6 DEF SendOnClosed
<1>7. ASSUME NEW c \in Subscribers, Subscribe(c) \/ Unsubscribe(c) \/ Receive(c)
      PROVE  HolderGoesOn'
  BY <1>7 DEF Subscribe, Unsubscribe, Receive, store
<1>8. CASE UNCHANGED vars
  BY <1>8 DEF vars, store, feeds
<1>9. QED
  BY <1>0, <1>1, <1>2, <1>3, <1>4, <1>5, <1>6, <1>7, <1>8 DEF StepCases

\* The lock is never left locked, and no state of the channels stops the call
\* that holds it: a writer waits for the others' calls only, not for streams.
THEOREM LockIsNeverStuck == Spec => []HolderGoesOn
<1>1. Init => HolderGoesOn
  BY DEF Init, HolderGoesOn
<1>2. TypeInv /\ FeedInv /\ HolderGoesOn /\ [Next]_vars => HolderGoesOn'
  BY HolderStep
<1>3. QED
  BY <1>1, <1>2, TypeInvariant, FeedInvariant, PTL DEF Spec

-----------------------------------------------------------------------------
(* The events as an account of the items: that replaying them gives the    *)
(* map, that they are the lives of the identifiers, that a subscriber who  *)
(* lost nothing mirrors the store, and that the store implements ItemFeed. *)

\* A change with its event, as the log and the map show it.
LEMMA CommitShapes ==
    ASSUME TypeInv, NEW w \in Writers, NEW id \in Ids, NEW new, NEW shown,
           NEW type \in EventTypes, LegalChange(id, new, type, shown),
           Commit(w, id, new, type, shown)
    PROVE  /\ log' \in Seq(Event) /\ Len(log') = Len(log) + 1
           /\ log'[Len(log) + 1] = [seq |-> Len(log) + 1, type |-> type, item |-> shown]
           /\ \A n \in 1 .. Len(log) : log'[n] = log[n]
           /\ items'[id] = new /\ \A other \in Ids \ {id} : items'[other] = items[other]
<1> DEFINE e == [seq |-> Now, type |-> type, item |-> shown]
<1>1. e \in Event
  BY NowType DEF TypeInv, LegalChange, Event
<1>2. log' = Append(log, e) /\ items' = [items EXCEPT ![id] = new]
  BY DEF Commit
<1>3. e = [seq |-> Len(log) + 1, type |-> type, item |-> shown]
  BY DEF Now
<1> HIDE DEF e
<1>4. /\ log' \in Seq(Event) /\ Len(log') = Len(log) + 1 /\ log'[Len(log) + 1] = e
      /\ \A n \in 1 .. Len(log) : log'[n] = log[n]
  BY <1>1, <1>2, AppendType, Shapes
<1>5. QED
  BY <1>2, <1>3, <1>4 DEF TypeInv, TypeOK

\* Every other step leaves the log and the map as they are.
LEMMA OtherSteps ==
    ASSUME TypeInv, [Next]_vars,
           ~ \E w \in Writers, id \in Ids : \E new, shown : \E type \in EventTypes :
                /\ Enters(w) /\ LegalChange(id, new, type, shown)
                /\ Commit(w, id, new, type, shown)
    PROVE  UNCHANGED <<items, log>>
<1>1. StepCases
  BY EveryStepIsACase DEF TypeInv
<1>2. ASSUME NEW w \in Writers,
             \/ Refuse(w) \/ CopyListeners(w) \/ Return(w)
             \/ \E c \in Subscribers : Offer(w, c) \/ Drop(w, c) \/ SendOnClosed(w, c)
      PROVE  UNCHANGED <<items, log>>
  BY <1>2 DEF Refuse, CopyListeners, Return, Offer, Drop, SendOnClosed
<1>3. ASSUME NEW c \in Subscribers, Subscribe(c) \/ Unsubscribe(c) \/ Receive(c)
      PROVE  UNCHANGED <<items, log>>
  BY <1>3 DEF Subscribe, Unsubscribe, Receive, store
<1>4. CASE UNCHANGED vars
  BY <1>4 DEF vars, store
<1>5. QED
  BY <1>1, <1>2, <1>3, <1>4 DEF StepCases

-----------------------------------------------------------------------------
(* The log rebuilds the map.                                               *)

LEMMA RebuildInit == Init => LogRebuildsItems
<1>1. SUFFICES ASSUME Init PROVE LogRebuildsItems
  OBVIOUS
<1>2. log = << >> /\ \A id \in Ids : items[id] = NoItem
  BY <1>1 DEF Init
<1>3. 1 .. Len(log) = {}
  BY <1>2
<1>4. QED
  BY <1>2, <1>3 DEF LogRebuildsItems, Rebuilds

LEMMA RebuildStep ==
    ASSUME TypeInv, LogRebuildsItems, [Next]_vars
    PROVE  LogRebuildsItems'
<1>1. ASSUME NEW w \in Writers, NEW id \in Ids, NEW new, NEW shown,
             NEW type \in EventTypes, LegalChange(id, new, type, shown),
             Commit(w, id, new, type, shown)
      PROVE  LogRebuildsItems'
  <2> DEFINE last == Len(log) + 1
  <2>1. /\ Len(log) \in Nat /\ Len(log') = last
        /\ \A n \in 1 .. Len(log) : log'[n] = log[n]
        /\ items'[id] = new /\ \A other \in Ids \ {id} : items'[other] = items[other]
    <3>1. Len(log) \in Nat
      BY Shapes
    <3>2. /\ Len(log') = Len(log) + 1
          /\ \A n \in 1 .. Len(log) : log'[n] = log[n]
          /\ items'[id] = new /\ \A other \in Ids \ {id} : items'[other] = items[other]
      <4>1. Len(log') = Len(log) + 1
        BY <1>1, CommitShapes
      <4>2. \A n \in 1 .. Len(log) : log'[n] = log[n]
        BY <1>1, CommitShapes
      <4>3. items'[id] = new
        BY <1>1 DEF Commit, TypeInv, TypeOK
      <4>4. \A other \in Ids \ {id} : items'[other] = items[other]
        BY <1>1, CommitShapes
      <4>5. QED
        BY <4>1, <4>2, <4>3, <4>4
    <3>3. QED
      BY <3>1, <3>2
  <2>2. log'[last].item.id = id /\ After(log'[last]) = new
    <3>0. log'[Len(log) + 1] = [seq |-> Len(log) + 1, type |-> type, item |-> shown]
      BY <1>1, CommitShapes
    <3>1. log'[last].item = shown /\ log'[last].type = type
      BY <3>0
    <3>2. /\ shown.id = id
          /\ type = "DELETED" => new = NoItem
          /\ type # "DELETED" => new = shown
      BY <1>1 DEF LegalChange
    <3>3. QED
      BY <3>1, <3>2 DEF After
  <2> SUFFICES ASSUME NEW x \in Ids
               PROVE  \/ items'[x] = NoItem /\ \A n \in 1 .. Len(log') : log'[n].item.id # x
                      \/ \E n \in 1 .. Len(log') :
                            /\ log'[n].item.id = x /\ items'[x] = After(log'[n])
                            /\ \A k \in n + 1 .. Len(log') : log'[k].item.id # x
    BY DEF LogRebuildsItems, Rebuilds
  <2> HIDE DEF last
  <2>3. CASE x = id
    <3>1. last \in 1 .. Len(log') /\ \A k \in last + 1 .. Len(log') : FALSE
      BY <2>1 DEF last
    <3>2. QED
      BY <2>1, <2>2, <2>3, <3>1
  <2>4. CASE x # id
    <3>1. items'[x] = items[x] /\ log'[last].item.id # x
      BY <2>1, <2>2, <2>4
    <3>2. \A n \in 1 .. Len(log') : n = last \/ n \in 1 .. Len(log)
      BY <2>1 DEF last
    <3>3. CASE items[x] = NoItem /\ \A n \in 1 .. Len(log) : log[n].item.id # x
      BY <2>1, <3>1, <3>2, <3>3
    <3>4. ASSUME NEW n \in 1 .. Len(log), log[n].item.id = x, items[x] = After(log[n]),
                 \A k \in n + 1 .. Len(log) : log[k].item.id # x
          PROVE  /\ n \in 1 .. Len(log') /\ log'[n].item.id = x /\ items'[x] = After(log'[n])
                 /\ \A k \in n + 1 .. Len(log') : log'[k].item.id # x
      <4>1. \A k \in n + 1 .. Len(log') : k = last \/ k \in n + 1 .. Len(log)
        BY <2>1 DEF last
      <4>2. \A k \in n + 1 .. Len(log) : k \in 1 .. Len(log)
        BY <2>1
      <4>3. \A k \in n + 1 .. Len(log') : log'[k].item.id # x
        BY <2>1, <3>1, <3>4, <4>1, <4>2
      <4>4. n \in 1 .. Len(log')
        BY <2>1 DEF last
      <4>5. QED
        BY <2>1, <3>1, <3>4, <4>3, <4>4
    <3>5. QED
      BY <3>3, <3>4 DEF LogRebuildsItems, Rebuilds
  <2>5. QED
    BY <2>3, <2>4
<1>2. CASE UNCHANGED <<items, log>>
  BY <1>2 DEF LogRebuildsItems, Rebuilds
<1>3. QED
  BY <1>1, <1>2, OtherSteps

LEMMA RebuildInvariant == Spec => [](TypeInv /\ LogRebuildsItems)
<1>1. TypeInv /\ LogRebuildsItems /\ [Next]_vars => (TypeInv /\ LogRebuildsItems)'
  BY TypeStep, RebuildStep
<1>2. QED
  BY <1>1, TypeInit, RebuildInit, PTL DEF Spec

\* The events handed to emit are a complete account of the map at any moment,
\* for every number of writers and items: replayed, they give what is stored.
THEOREM LogIsComplete == Spec => []LogRebuildsItems
BY RebuildInvariant, PTL

-----------------------------------------------------------------------------
(* The life of an identifier.                                              *)

\* What LogIsWellFormed says of the n-th event.
Life(n) ==
    LET e == log[n] IN
    \/ /\ e.type = "CREATED" /\ e.item.version = 1 /\ e.item.created = n
       /\ \A k \in 1 .. n - 1 : Predecessor(n, k) => log[k].type = "DELETED"
    \/ \E k \in 1 .. n - 1 :
          /\ Predecessor(n, k) /\ log[k].type # "DELETED"
          /\ \/ /\ e.type = "UPDATED"
                /\ e.item.version = log[k].item.version + 1
                /\ e.item.created = log[k].item.created
                /\ e.item.updated = n
             \/ e.type = "DELETED" /\ e.item = log[k].item

\* What the map tells of the last event about an identifier.
LEMMA LastEvent ==
    ASSUME TypeInv, LogRebuildsItems, NEW id \in Ids
    PROVE  /\ items[id] = NoItem => \A k \in 1 .. Len(log) :
                 (/\ log[k].item.id = id
                  /\ \A j \in k + 1 .. Len(log) : log[j].item.id # id)
                     => log[k].type = "DELETED"
           /\ items[id] # NoItem => \E k \in 1 .. Len(log) :
                 /\ log[k].item.id = id /\ log[k].type # "DELETED"
                 /\ items[id] = log[k].item
                 /\ \A j \in k + 1 .. Len(log) : log[j].item.id # id
<1>0. \A k \in 1 .. Len(log) : log[k].item \in Item /\ log[k].item # NoItem
  <2>1. \A k \in 1 .. Len(log) : log[k] \in Event
    BY Shapes
  <2>2. QED
    BY <2>1, NoItemAssumption DEF Event
<1>1. CASE items[id] = NoItem /\ \A n \in 1 .. Len(log) : log[n].item.id # id
  BY <1>1
<1>2. ASSUME NEW n \in 1 .. Len(log), log[n].item.id = id, items[id] = After(log[n]),
             \A j \in n + 1 .. Len(log) : log[j].item.id # id,
             items[id] = NoItem,
             NEW k \in 1 .. Len(log), log[k].item.id = id,
             \A j \in k + 1 .. Len(log) : log[j].item.id # id
      PROVE  log[k].type = "DELETED"
  <2>1. k = n
    <3>1. Len(log) \in Nat
      BY Shapes
    <3>2. ~ (k < n) /\ ~ (n < k)
      BY <1>2, <3>1
    <3>3. QED
      BY <3>1, <3>2
  <2>2. QED
    BY <1>0, <1>2, <2>1 DEF After
<1>3. ASSUME NEW n \in 1 .. Len(log), log[n].item.id = id, items[id] = After(log[n]),
             \A j \in n + 1 .. Len(log) : log[j].item.id # id,
             items[id] # NoItem
      PROVE  log[n].type # "DELETED" /\ items[id] = log[n].item
  BY <1>3 DEF After
<1>4. QED
  BY <1>1, <1>2, <1>3 DEF LogRebuildsItems, Rebuilds

LEMMA LifeStep ==
    ASSUME TypeInv, LogRebuildsItems, LogIsWellFormed, [Next]_vars
    PROVE  LogIsWellFormed'
<1>1. ASSUME NEW w \in Writers, NEW id \in Ids, NEW new, NEW shown,
             NEW type \in EventTypes, LegalChange(id, new, type, shown),
             Commit(w, id, new, type, shown), NEW n \in 1 .. Len(log')
      PROVE  Life(n)'
  <2>1. Len(log) \in Nat /\ Len(log') = Len(log) + 1
    <3>1. Len(log) \in Nat
      BY Shapes
    <3>2. Len(log') = Len(log) + 1
      BY <1>1, CommitShapes
    <3>3. QED
      BY <3>1, <3>2
  <2>2. \A k \in 1 .. Len(log) : log'[k] = log[k]
    BY <1>1, CommitShapes
  <2>3. CASE n \in 1 .. Len(log)
    <3>1. \A k \in 1 .. n - 1 : k \in 1 .. Len(log) /\ log'[k] = log[k]
      BY <2>1, <2>2, <2>3
    <3>2. log'[n] = log[n]
      BY <2>2, <2>3
    <3>3. \A k \in 1 .. n - 1 : Predecessor(n, k)' <=> Predecessor(n, k)
      <4>1. ASSUME NEW k \in 1 .. n - 1
            PROVE  \A j \in k + 1 .. n - 1 : j \in 1 .. n - 1
        BY <2>3
      <4>2. QED
        BY <3>1, <3>2, <4>1 DEF Predecessor
    <3>4. Life(n)
      BY <2>3 DEF LogIsWellFormed, Life
    <3>5. QED
      BY <3>1, <3>2, <3>3, <3>4 DEF Life
  <2>4. CASE n = Len(log) + 1
    <3>1. log'[n].type = type /\ log'[n].item = shown
      <4>1. log'[n] = [seq |-> Len(log) + 1, type |-> type, item |-> shown]
        BY <1>1, <2>4, CommitShapes
      <4>2. QED
        BY <4>1
    <3>2. shown.id = id
      BY <1>1 DEF LegalChange
    <3>3. \A k \in 1 .. n - 1 : Predecessor(n, k)' <=>
              /\ log[k].item.id = id
              /\ \A j \in k + 1 .. Len(log) : log[j].item.id # id
      <4>1. n - 1 = Len(log) /\ n \in Nat
        BY <2>1, <2>4
      <4>2. \A k \in 1 .. Len(log) : \A j \in k + 1 .. Len(log) : j \in 1 .. Len(log)
        BY <2>1
      <4>3. QED
        BY <2>2, <3>1, <3>2, <4>1, <4>2 DEF Predecessor
    <3>4. \A k \in 1 .. n - 1 : k \in 1 .. Len(log) /\ log'[k] = log[k]
      BY <2>1, <2>2, <2>4
    <3>5. \A k \in 1 .. Len(log) : k \in 1 .. n - 1
      BY <2>1, <2>4
    <3>6. CASE type = "CREATED"
      <4>1. items[id] = NoItem /\ shown.version = 1 /\ shown.created = n
        BY <1>1, <2>4, <3>6 DEF LegalChange, Now
      <4>2. \A k \in 1 .. n - 1 : Predecessor(n, k)' => log'[k].type = "DELETED"
        BY <3>3, <3>4, <4>1, LastEvent
      <4>3. QED
        BY <3>1, <3>6, <4>1, <4>2 DEF Life
    <3>7. CASE type # "CREATED"
      <4>1. /\ items[id] # NoItem
            /\ \/ /\ type = "UPDATED" /\ shown.version = items[id].version + 1
                  /\ shown.created = items[id].created /\ shown.updated = n
               \/ type = "DELETED" /\ shown = items[id]
        BY <1>1, <2>4, <3>7 DEF LegalChange, Now
      <4>2. PICK k \in 1 .. Len(log) :
               /\ log[k].item.id = id /\ log[k].type # "DELETED"
               /\ items[id] = log[k].item
               /\ \A j \in k + 1 .. Len(log) : log[j].item.id # id
        BY <4>1, LastEvent
      <4>3. k \in 1 .. n - 1 /\ Predecessor(n, k)' /\ log'[k] = log[k]
        BY <3>3, <3>4, <3>5, <4>2
      <4>4. QED
        BY <3>1, <4>1, <4>2, <4>3 DEF Life
    <3>8. QED
      BY <3>6, <3>7
  <2>5. QED
    BY <2>1, <2>3, <2>4
<1>2. ASSUME UNCHANGED <<items, log>>, NEW n \in 1 .. Len(log')
      PROVE  Life(n)'
  BY <1>2 DEF LogIsWellFormed, Life, Predecessor
<1>3. \A n \in 1 .. Len(log') : Life(n)'
  BY <1>1, <1>2, OtherSteps
<1>4. QED
  BY <1>3 DEF LogIsWellFormed, Life

\* The log reads as the lives of the identifiers: CREATED at version 1, each
\* UPDATED one version on from the event before it about the same identifier,
\* DELETED with the item last stored, and then only CREATED again.
THEOREM LivesAreOrderly == Spec => []LogIsWellFormed
<1>1. Init => LogIsWellFormed
  <2>1. ASSUME Init PROVE 1 .. Len(log) = {}
    BY <2>1 DEF Init
  <2>2. QED
    BY <2>1 DEF LogIsWellFormed
<1>2. TypeInv /\ LogRebuildsItems /\ LogIsWellFormed /\ [Next]_vars => LogIsWellFormed'
  BY LifeStep
<1>3. QED
  BY <1>1, <1>2, RebuildInvariant, PTL DEF Spec

-----------------------------------------------------------------------------
(* The mirror.  Nothing more is needed of a state than the invariants of   *)
(* the feeds, of what is owed, and of the log.                             *)

LEMMA NothingOwedWhenFree ==
    ASSUME TypeInv, mu = Free, NEW n, NEW c
    PROVE  ~ Pending(n, c)
BY StoreAssumption DEF Pending, TypeInv, LockInv

LEMMA MirrorFollows ==
    ASSUME TypeInv, FeedInv, NothingSilentlyLost, LogRebuildsItems
    PROVE  MirrorIsExact
<1>1. SUFFICES ASSUME NEW c \in listeners, since[c] = 0, dropped[c] = {}, cut = {},
                      mu = Free, NEW id \in Ids
               PROVE  \/ /\ items[id] = NoItem
                         /\ \A i \in 1 .. Len(offered[c]) : offered[c][i].item.id # id
                      \/ \E i \in 1 .. Len(offered[c]) :
                            /\ offered[c][i].item.id = id
                            /\ items[id] = After(offered[c][i])
                            /\ \A k \in i + 1 .. Len(offered[c]) : offered[c][k].item.id # id
  BY DEF MirrorIsExact, Rebuilds
<1>2. /\ c \in Subscribers /\ Len(log) \in Nat /\ Len(offered[c]) \in Nat
      /\ \A i \in 1 .. Len(offered[c]) :
            /\ offered[c][i].seq \in 1 .. Len(log)
            /\ offered[c][i] = log[offered[c][i].seq]
      /\ \A i, j \in 1 .. Len(offered[c]) : i < j => offered[c][i].seq < offered[c][j].seq
  BY <1>1, Shapes DEF TypeInv, TypeOK, FeedInv, FeedOfLog
\* Every event of the log is in the channel.
<1>3. ASSUME NEW n \in 1 .. Len(log)
      PROVE  \E i \in 1 .. Len(offered[c]) : offered[c][i].seq = n
  <2>1. n \in since[c] + 1 .. Len(log)
    BY <1>1
  <2>2. ~ Pending(n, c) /\ n \notin dropped[c] \union cut
    BY <1>1, NothingOwedWhenFree
  <2>3. QED
    BY <1>1, <2>1, <2>2 DEF NothingSilentlyLost
<1>4. CASE items[id] = NoItem /\ \A n \in 1 .. Len(log) : log[n].item.id # id
  BY <1>2, <1>4
<1>5. ASSUME NEW n \in 1 .. Len(log), log[n].item.id = id, items[id] = After(log[n]),
             \A k \in n + 1 .. Len(log) : log[k].item.id # id
      PROVE  \E i \in 1 .. Len(offered[c]) :
                /\ offered[c][i].item.id = id /\ items[id] = After(offered[c][i])
                /\ \A k \in i + 1 .. Len(offered[c]) : offered[c][k].item.id # id
  <2>1. PICK i \in 1 .. Len(offered[c]) : offered[c][i].seq = n
    BY <1>3
  <2>2. offered[c][i] = log[n]
    BY <1>2, <2>1
  <2>3. ASSUME NEW k \in i + 1 .. Len(offered[c])
        PROVE  offered[c][k].item.id # id
    <3>1. k \in 1 .. Len(offered[c]) /\ i < k
      BY <1>2
    <3>2. offered[c][k].seq \in n + 1 .. Len(log)
      BY <1>2, <2>1, <3>1
    <3>3. QED
      BY <1>2, <1>5, <3>1, <3>2
  <2>4. QED
    BY <1>5, <2>2, <2>3
<1>6. QED
  BY <1>1, <1>4, <1>5 DEF LogRebuildsItems, Rebuilds

\* A subscriber there from the first change that lost nothing can rebuild the
\* items from its channel alone, whenever no writer is inside the store.
THEOREM MirrorsAreExact == Spec => []MirrorIsExact
BY MirrorFollows, FeedInvariant, NoSilentLoss, RebuildInvariant, PTL

-----------------------------------------------------------------------------
(* The store implements ItemFeed.                                          *)

LEMMA InitRefines == Init => Feed!Init
BY DEF Init, Feed!Init

LEMMA SameItems == Feed!Item = Item
BY DEF Feed!Item, Item, Feed!LabelMaps, LabelMaps

LEMMA ChangeRefines ==
    ASSUME TypeInv, NEW w \in Writers, NEW id \in Ids, NEW new, NEW shown,
           NEW type \in EventTypes, LegalChange(id, new, type, shown),
           Commit(w, id, new, type, shown)
    PROVE  Feed!Next
<1>1. /\ items' = [items EXCEPT ![id] = new]
      /\ log' = Append(log, [seq |-> Now, type |-> type, item |-> shown])
      /\ UNCHANGED <<since, listeners, offered>>
  BY DEF Commit, feeds
<1>2. items \in [Ids -> Item \union {NoItem}]
  BY DEF TypeInv, TypeOK
<1>3. items'[id] = new /\ Feed!OnlyChanges(id)
  BY <1>1, <1>2 DEF Feed!OnlyChanges
<1>4. Feed!Record(type, shown)
  BY <1>1 DEF Feed!Record, Feed!Tick, Now
<1>5. CASE type = "CREATED" /\ items[id] = NoItem /\ new = shown
           /\ new.version = 1 /\ new.created = Now /\ new.updated = Now
  <2>1. items'[id] = shown /\ shown \in Item /\ shown.id = id
    BY <1>3, <1>5 DEF LegalChange
  <2>2. shown.version = 1 /\ shown.created = Now /\ shown.updated = Now
    BY <1>5
  <2>3. Feed!Record("CREATED", items'[id])
    BY <1>4, <1>5, <2>1
  <2>4. Feed!Add(id)
    BY <1>3, <1>5, <2>1, <2>2, <2>3, SameItems DEF Feed!Add, Feed!Tick, Now
  <2>5. QED
    BY <2>4 DEF Feed!Next
<1>6. CASE type = "UPDATED" /\ items[id] # NoItem /\ new = shown
           /\ new.version = items[id].version + 1
           /\ new.created = items[id].created /\ new.updated = Now
  <2>1. items'[id] = shown /\ shown \in Item /\ shown.id = id
    BY <1>3, <1>6 DEF LegalChange
  <2>2. /\ shown.version = items[id].version + 1
        /\ shown.created = items[id].created /\ shown.updated = Now
    BY <1>6
  <2>3. Feed!Record("UPDATED", items'[id])
    BY <1>4, <1>6, <2>1
  <2>4. Feed!Change(id)
    BY <1>3, <1>6, <2>1, <2>2, <2>3, SameItems DEF Feed!Change, Feed!Tick, Now
  <2>5. QED
    BY <2>4 DEF Feed!Next
<1>7. CASE type = "DELETED" /\ items[id] # NoItem /\ new = NoItem /\ shown = items[id]
  <2>1. Feed!Remove(id)
    BY <1>1, <1>4, <1>7 DEF Feed!Remove
  <2>2. QED
    BY <2>1 DEF Feed!Next
<1>8. QED
  BY <1>5, <1>6, <1>7 DEF LegalChange

LEMMA OfferRefines ==
    ASSUME TypeInv, FeedInv, NEW w \in Writers, NEW c \in Subscribers, Offer(w, c)
    PROVE  Feed!Next
<1>1. /\ pc[w] = "send" /\ c \in todo[w] /\ chan[c] = "open"
      /\ offered' = [offered EXCEPT ![c] = Append(@, cur[w])]
      /\ UNCHANGED <<items, log, since, listeners>>
  BY DEF Offer
<1>2. Len(log) \in Nat /\ Len(log) \in 1 .. Len(log) /\ cur[w] = log[Len(log)]
  BY <1>1, Shapes
<1>3. c \in listeners /\ Len(log) >= since[c]
  BY <1>1, <1>2, Shapes DEF FeedInv, Channels, FeedOfLog
<1>4. \A i \in 1 .. Len(offered[c]) : offered[c][i].seq < Len(log)
  BY <1>1 DEF FeedInv, OwedIsNewer
<1>5. Feed!Publish(c, Len(log))
  BY <1>1, <1>2, <1>3, <1>4 DEF Feed!Publish
<1>6. QED
  BY <1>2, <1>5 DEF Feed!Next

LEMMA StepRefines ==
    ASSUME TypeInv, FeedInv, [Next]_vars
    PROVE  [Feed!Next]_(Feed!vars)
<1>0. StepCases
  BY EveryStepIsACase DEF TypeInv
<1>1. ASSUME NEW w \in Writers, NEW id \in Ids, NEW new, NEW shown,
             NEW type \in EventTypes, LegalChange(id, new, type, shown),
             Commit(w, id, new, type, shown)
      PROVE  Feed!Next
  BY <1>1, ChangeRefines
<1>2. ASSUME NEW w \in Writers, NEW c \in Subscribers, Offer(w, c)
      PROVE  Feed!Next
  BY <1>2, OfferRefines
<1>3. ASSUME NEW c \in Subscribers, Subscribe(c)
      PROVE  Feed!Next
  <2>1. Feed!Join(c)
    BY <1>3 DEF Subscribe, store, Feed!Join, FeedInv, Channels
  <2>2. QED
    BY <2>1 DEF Feed!Next
<1>4. ASSUME NEW c \in Subscribers, Unsubscribe(c)
      PROVE  Feed!Next
  <2>1. Feed!Leave(c)
    BY <1>4 DEF Unsubscribe, store, Feed!Leave
  <2>2. QED
    BY <2>1 DEF Feed!Next
<1>5. ASSUME NEW w \in Writers,
             \/ Refuse(w) \/ CopyListeners(w) \/ Return(w)
             \/ \E c \in Subscribers : Drop(w, c) \/ SendOnClosed(w, c)
      PROVE  UNCHANGED Feed!vars
  BY <1>5 DEF Refuse, CopyListeners, Return, Drop, SendOnClosed, feeds, Feed!vars
<1>6. ASSUME NEW c \in Subscribers, Receive(c)
      PROVE  UNCHANGED Feed!vars
  BY <1>6 DEF Receive, store, Feed!vars
<1>7. CASE UNCHANGED vars
  BY <1>7 DEF vars, store, feeds, Feed!vars
<1>8. QED
  BY <1>0, <1>1, <1>2, <1>3, <1>4, <1>5, <1>6, <1>7 DEF StepCases

\* The store, with its lock, its copied listener lists and its bounded channels,
\* implements the abstract one: each of its steps is a change of one item with
\* its event, an event given to one member, a join, a leave, or nothing at all.
THEOREM StoreImplementsFeed == Spec => ImplementsFeed
<1>1. TypeInv /\ FeedInv /\ [Next]_vars => [Feed!Next]_(Feed!vars)
  BY StepRefines
<1>2. QED
  BY <1>1, InitRefines, FeedInvariant, PTL DEF Spec, ImplementsFeed, Feed!Spec

-----------------------------------------------------------------------------
(* The store as its callers count on it.  The time of AtomicItems is the   *)
(* number of the events handed to emit.                                    *)

Atomic == INSTANCE AtomicItems WITH commits <- Len(log)

LEMMA SameData ==
    /\ Atomic!Body = Body /\ Atomic!Now = Now
    /\ \A id, old, body, now :
          /\ Atomic!Created(id, body, now) = Created(id, body, now)
          /\ Atomic!Replaced(old, body, now) = Replaced(old, body, now)
          /\ Atomic!Merged(old, body, now) = Merged(old, body, now)
BY DEF Atomic!Body, Body, Atomic!LabelMaps, LabelMaps, Atomic!Now, Now,
       Atomic!Created, Created, Atomic!Replaced, Replaced, Atomic!Merged, Merged,
       Atomic!OrEmpty, OrEmpty, Atomic!NoLabels, NoLabels, Atomic!Overlay, Overlay

\* A change by a body is one of the calls of the atomic store, as a deletion is.
LEMMA ChangeIsAtomic ==
    ASSUME NEW id \in Ids, NEW body \in Body, NEW new,
           Len(log)' = Now, items' = [items EXCEPT ![id] = new],
           \/ items[id] = NoItem /\ new = Created(id, body, Now)
           \/ items[id] # NoItem /\ new = Replaced(items[id], body, Now)
           \/ items[id] # NoItem /\ new = Merged(items[id], body, Now)
    PROVE  Atomic!Next
<1>1. Atomic!Store(id, new)
  BY SameData DEF Atomic!Store
<1>2. Atomic!Create(id, body) \/ Atomic!Update(id, body) \/ Atomic!Upsert(id, body)
  BY <1>1, SameData DEF Atomic!Create, Atomic!Update, Atomic!Upsert
<1>3. QED
  BY <1>2, SameData DEF Atomic!Next

LEMMA DeletionIsAtomic ==
    ASSUME NEW id \in Ids, items[id] # NoItem,
           Len(log)' = Now, items' = [items EXCEPT ![id] = NoItem]
    PROVE  Atomic!Next
<1>1. Atomic!Delete(id)
  BY SameData DEF Atomic!Delete, Atomic!Store
<1>2. QED
  BY <1>1 DEF Atomic!Next

LEMMA StepIsAtomic ==
    ASSUME TypeInv, [Next]_vars
    PROVE  Atomic!Next \/ UNCHANGED <<items, Len(log)>>
<1>1. ASSUME NEW w \in Writers, NEW id \in Ids, NEW new, NEW type, NEW shown, NEW now,
             Commit(w, id, new, type, shown), now = Now
      PROVE  Len(log)' = now /\ items' = [items EXCEPT ![id] = new]
  <2> DEFINE e == [seq |-> Now, type |-> type, item |-> shown]
  <2>1. log' = Append(log, e) /\ items' = [items EXCEPT ![id] = new]
    BY <1>1 DEF Commit
  <2>2. log \in Seq(Event)
    BY DEF TypeInv, TypeOK
  <2> HIDE DEF e
  <2>3. Len(log') = Len(log) + 1
    BY <2>1, <2>2
  <2>4. QED
    BY <1>1, <2>1, <2>3 DEF Now
<1>2. ASSUME NEW w \in Writers, Refuse(w)
      PROVE  UNCHANGED <<items, Len(log)>>
  BY <1>2 DEF Refuse
<1>3. ASSUME NEW w \in Writers, NEW id \in Ids, NEW body \in Bodies,
             Create(w, id, body) \/ Update(w, id, body) \/ Upsert(w, id, body)
      PROVE  Atomic!Next \/ UNCHANGED <<items, Len(log)>>
  <2>1. body \in Body
    BY StoreAssumption
  <2>2. CASE Create(w, id, body)
    <3>1. CASE items[id] = NoItem /\ Commit(w, id, Created(id, body, Now), "CREATED", Created(id, body, Now))
      BY <1>1, <2>1, <3>1, ChangeIsAtomic
    <3>2. QED
      BY <1>2, <2>2, <3>1 DEF Create
  <2>3. CASE Update(w, id, body)
    <3>1. CASE /\ items[id] # NoItem
               /\ Commit(w, id, Replaced(items[id], body, Now), "UPDATED", Replaced(items[id], body, Now))
      BY <1>1, <2>1, <3>1, ChangeIsAtomic
    <3>2. QED
      BY <1>2, <2>3, <3>1 DEF Update
  <2>4. CASE Upsert(w, id, body)
    <3>1. CASE /\ items[id] # NoItem
               /\ Commit(w, id, Merged(items[id], body, Now), "UPDATED", Merged(items[id], body, Now))
      BY <1>1, <2>1, <3>1, ChangeIsAtomic
    <3>2. CASE items[id] = NoItem /\ Commit(w, id, Created(id, body, Now), "CREATED", Created(id, body, Now))
      BY <1>1, <2>1, <3>2, ChangeIsAtomic
    <3>3. QED
      BY <2>4, <3>1, <3>2 DEF Upsert
  <2>5. QED
    BY <1>3, <2>2, <2>3, <2>4
<1>4. ASSUME NEW w \in Writers, NEW id \in Ids, Delete(w, id)
      PROVE  Atomic!Next \/ UNCHANGED <<items, Len(log)>>
  <2>1. CASE items[id] # NoItem /\ Commit(w, id, NoItem, "DELETED", items[id])
    BY <1>1, <2>1, DeletionIsAtomic
  <2>2. QED
    BY <1>2, <1>4, <2>1 DEF Delete
<1>5. ASSUME NEW w \in Writers, Emit(w)
      PROVE  UNCHANGED <<items, Len(log)>>
  BY <1>5 DEF Emit, CopyListeners, Offer, Drop, SendOnClosed, Return
<1>6. ASSUME NEW c \in Subscribers, Subscribe(c) \/ Unsubscribe(c) \/ Receive(c)
      PROVE  UNCHANGED <<items, Len(log)>>
  BY <1>6 DEF Subscribe, Unsubscribe, Receive, store
<1>7. CASE UNCHANGED vars
  BY <1>7 DEF vars, store
<1>8. QED
  BY <1>3, <1>4, <1>5, <1>6, <1>7 DEF Next, Mutate

\* Under the lock each call takes effect at once, however many are under way
\* and wherever emission, streams or a panic have left them (items.go:112-237).
THEOREM StoreIsAtomic == Spec => Atomic!Spec
<1>1. Init => Atomic!Init
  BY DEF Init, Atomic!Init
<1>2. TypeInv /\ [Next]_vars => [Atomic!Next]_(Atomic!vars)
  BY StepIsAtomic DEF Atomic!vars
<1>3. QED
  BY <1>1, <1>2, TypeInvariant, PTL DEF Spec, Atomic!Spec
=============================================================================
