------------------------- MODULE EventStream_proofs -------------------------
(***************************************************************************)
(* Proofs about EventStream, for every capacity of a channel, number of    *)
(* connections and number of incidents: its types, with the count of the   *)
(* viewers; that no change is missed by a tab; and that the account is     *)
(* shown as available while a connection watches it.                       *)
(***************************************************************************)
EXTENDS EventStream, FiniteSetTheorems, TLAPS

---------------------------------------------------------------------------
(* Sequences of frames                                                     *)

LEMMA EmptySequence == ASSUME NEW S PROVE <<>> \in Seq(S)
OBVIOUS

LEMMA SetOfAppend ==
  ASSUME NEW S, NEW s \in Seq(S), NEW x
  PROVE  ToSet(Append(s, x)) = ToSet(s) \cup {x}
BY DEF ToSet

LEMMA ElementIn ==
  ASSUME NEW S, NEW s \in Seq(S), NEW i \in 1..Len(s) PROVE s[i] \in ToSet(s)
BY DEF ToSet

LEMMA SetOfHeadTail ==
  ASSUME NEW S, NEW s \in Seq(S), s # <<>>
  PROVE  ToSet(s) = {Head(s)} \cup ToSet(Tail(s))
<1>1. Len(s) \in Nat \ {0} /\ Len(Tail(s)) = Len(s) - 1 /\ Head(s) = s[1]
  OBVIOUS
<1>2. \A i \in 1..Len(Tail(s)) : Tail(s)[i] = s[i + 1]
  OBVIOUS
<1>0. Tail(s) \in Seq(S)
  OBVIOUS
<1>3. ASSUME NEW i \in 1..Len(s) PROVE s[i] \in {Head(s)} \cup ToSet(Tail(s))
  <2>1. CASE i = 1
    BY <1>1, <2>1
  <2>2. CASE i # 1
    <3>1. i - 1 \in 1..Len(Tail(s)) /\ Tail(s)[i - 1] = s[i]
      BY <1>1, <1>2, <2>2
    <3>2. Tail(s)[i - 1] \in ToSet(Tail(s))
      BY <1>0, <3>1, ElementIn
    <3> QED
      BY <3>1, <3>2
  <2> QED
    BY <2>1, <2>2
<1>4. \A i \in 1..Len(Tail(s)) : Tail(s)[i] \in ToSet(s)
  BY <1>1, <1>2 DEF ToSet
<1>5. Head(s) \in ToSet(s)
  BY <1>1 DEF ToSet
<1> QED
  BY <1>3, <1>4, <1>5 DEF ToSet

---------------------------------------------------------------------------
(* Types                                                                   *)

LEMMA FeedStep == ASSUME FeedTyped, [Next]_vars PROVE FeedTyped' /\ data <= data'
<1> USE EventStreamAssumption DEF FeedTyped
<1>1. CASE Write
  BY <1>1 DEF Write, Incident
<1>2. CASE Publish
  BY <1>2 DEF Publish
<1>3. CASE Restart
  BY <1>3 DEF Restart, Incident
<1>4. CASE PublishOther \/ ConnectionLost \/ Drop
  BY <1>4 DEF PublishOther, ConnectionLost, Drop, Incident, feedVars
<1>5. CASE FetchEnds \/ SetOnlineReturns
  BY <1>5 DEF FetchEnds, SetOnlineReturns, Incident, feedVars
<1>6. CASE UNCHANGED <<data, unpublished, incidents>>
  BY <1>6
<1>7. ASSUME NEW c \in Connection, HandlerStep(c)
      PROVE  UNCHANGED <<data, unpublished, incidents>>
  BY <1>7 DEF HandlerStep, Subscribe, WatchPresence, Ready, Forward, Overflowed, Notice,
              Release, Unsubscribe, feedVars
<1>8. ASSUME \/ Connect \/ Receive \/ Flush \/ Answer \/ Reconnect \/ HandleDisconnected
             \/ HandleConnected \/ Sync \/ Fetch \/ Hide \/ Show \/ UNCHANGED vars
      PROVE  UNCHANGED <<data, unpublished, incidents>>
  BY <1>8 DEF Connect, Receive, Flush, Answer, Reconnect, HandleDisconnected, HandleConnected,
              Handle, Sync, Fetch, Hide, Show, feedVars, vars
<1> QED
  BY <1>1, <1>2, <1>3, <1>4, <1>5, <1>6, <1>7, <1>8 DEF Next, Progress

LEMMA TabStep == ASSUME TabTyped, [Next]_vars PROVE TabTyped'
<1> USE EventStreamAssumption DEF TabTyped
<1>1. CASE Connect \/ Show
  <2>1. /\ UNCHANGED cut /\ visible' \in BOOLEAN
        /\ \/ opened < MaxConnections /\ opened' = opened + 1 /\ current' = opened + 1
           \/ UNCHANGED <<opened, current>>
    BY <1>1 DEF Connect, Show, Open
  <2> QED
    BY <2>1
<1>2. CASE ConnectionLost \/ Hide \/ Receive
  <2>1. /\ UNCHANGED opened /\ visible' \in BOOLEAN
        /\ \/ current # 0 /\ cut' = cut \cup {current} /\ current' = 0
           \/ UNCHANGED <<cut, current>>
    BY <1>2 DEF ConnectionLost, Hide, Receive, Lose, streamVars
  <2>2. CASE current # 0 /\ cut' = cut \cup {current} /\ current' = 0
    <3>1. current \in 1..opened /\ 0 \notin cut
      BY <2>2
    <3> QED
      BY <2>1, <2>2, <3>1
  <2> QED
    BY <2>1, <2>2
<1>3. CASE Restart
  BY <1>3 DEF Restart
<1>4. CASE UNCHANGED <<cut, tabVars>>
  BY <1>4 DEF tabVars
<1>5. CASE UNCHANGED <<cut, current, opened, visible>>
  BY <1>5
<1>6. ASSUME NEW c \in Connection, HandlerStep(c) PROVE UNCHANGED <<cut, tabVars>>
  BY <1>6 DEF HandlerStep, Subscribe, WatchPresence, Ready, Forward, Overflowed, Notice,
              Release, Unsubscribe, streamVars
<1>7. ASSUME \/ Write \/ Publish \/ PublishOther \/ SetOnlineReturns \/ Drop \/ Reconnect
             \/ HandleDisconnected \/ HandleConnected \/ Sync \/ UNCHANGED vars
      PROVE  UNCHANGED <<cut, tabVars>>
  BY <1>7 DEF Write, Publish, PublishOther, SetOnlineReturns, Drop, Reconnect,
              HandleDisconnected, HandleConnected, Handle, Sync, streamVars, vars
<1>8. ASSUME Flush \/ Fetch \/ Answer \/ FetchEnds
      PROVE  UNCHANGED <<cut, current, opened, visible>>
  BY <1>8 DEF Flush, Fetch, Answer, FetchEnds, streamVars
<1> QED
  BY <1>1, <1>2, <1>3, <1>4, <1>5, <1>6, <1>7, <1>8 DEF Next, Progress

\* What becomes of a query when what awaits a fetch has ended
LEMMA SettledQuery ==
  ASSUME FeedTyped, NEW q \in Query(data)
  PROVE  /\ Settled(q) \in Query(data)
         /\ Settled(q).shown = q.shown
         /\ \/ /\ q.running = "wait"
               /\ Settled(q).fetch.st = "sent"
               /\ Settled(q).invalid
            \/ /\ q.running # "wait"
               /\ Settled(q).fetch = q.fetch /\ Settled(q).invalid = q.invalid
               /\ WillAsk(q) => WillAsk(Settled(q))
<1>0. 0 \in 0..data
  BY DEF FeedTyped
<1>1. CASE q.running = "wait"
  BY <1>0, <1>1 DEF Settled, Request, Query
<1>2. CASE q.running = "refetch"
  BY <1>0, <1>2 DEF Settled, Refreshed, Query, WillAsk
<1>3. CASE q.running = "no"
  BY <1>0, <1>3 DEF Settled, Query
<1> QED
  BY <1>1, <1>2, <1>3 DEF Query

LEMMA MarkedQuery ==
  ASSUME FeedTyped, NEW q \in Query(data), NEW frame
  PROVE  /\ Marked(q, frame) \in Query(data)
         /\ Marked(q, frame).shown = q.shown
         /\ frame \in {"change", "ready"}
              => WillAsk(Marked(q, frame)) \/ Marked(q, frame).fetch.st = "sent"
         /\ frame \notin {"change", "ready"} => Marked(q, frame) = q
         /\ \/ Marked(q, frame).fetch = q.fetch /\ Marked(q, frame).invalid = q.invalid
            \/ Marked(q, frame).fetch.st = "none"
            \/ Marked(q, frame).fetch.st = "sent" /\ Marked(q, frame).invalid
<1> DEFINE dirty == Schedule([q EXCEPT !.dirty = TRUE])
           cancelled == [dirty EXCEPT !.fetch = NoFetch]
<1>0. 0 \in 0..data
  BY DEF FeedTyped
<1>1. /\ dirty \in Query(data) /\ dirty.shown = q.shown /\ dirty.fetch = q.fetch
      /\ dirty.invalid = q.invalid /\ WillAsk(dirty)
  BY DEF Schedule, Query, WillAsk
<1>2. /\ cancelled \in Query(data) /\ cancelled.shown = q.shown
      /\ cancelled.fetch.st = "none" /\ WillAsk(cancelled)
  BY <1>0, <1>1 DEF Query, NoFetch, WillAsk
<1>3. CASE frame = "change"
  BY <1>1, <1>3 DEF Marked
<1>4. CASE frame = "ready" /\ q.fetch.st = "none"
  BY <1>1, <1>4 DEF Marked
<1>5. CASE frame = "ready" /\ q.fetch.st # "none"
  <2>1. Marked(q, frame) = Settled(cancelled)
    BY <1>5 DEF Marked
  <2> HIDE DEF cancelled
  <2> QED
    BY <1>2, <1>5, <2>1, SettledQuery
<1>6. CASE frame \notin {"change", "ready"}
  BY <1>6 DEF Marked
<1> QED
  BY <1>3, <1>4, <1>5, <1>6

LEMMA CacheStep == ASSUME FeedTyped, CacheTyped, [Next]_vars PROVE CacheTyped'
<1>0. /\ data \in Nat /\ data' \in Nat /\ data <= data' /\ 0 \in 0..data /\ FeedTyped'
      /\ cache \in Query(data)
  BY FeedStep DEF FeedTyped, CacheTyped
<1>1. Query(data) \subseteq Query(data')
  BY <1>0 DEF Query
<1>2. ASSUME cache' \in Query(data) PROVE CacheTyped'
  BY <1>1, <1>2 DEF CacheTyped
<1>3. CASE Receive
  <2>1. cache' = cache \/ \E frame : cache' = Marked(cache, frame)
    BY <1>3 DEF Receive
  <2> QED
    BY <1>0, <1>2, <2>1, MarkedQuery
<1>4. CASE Flush
  BY <1>0, <1>2, <1>4 DEF Flush, Request, Query
<1>5. CASE Fetch
  BY <1>0, <1>2, <1>5 DEF Fetch, Request, Query
<1>6. CASE Answer
  BY <1>0, <1>2, <1>6 DEF Answer, Query
<1>7. CASE FetchEnds
  <2>1. PICK q \in Query(data) : cache' = Settled(q)
    <3> DEFINE answered == [cache EXCEPT !.shown = cache.fetch.version, !.fetch = NoFetch,
                                         !.invalid = FALSE]
               failed   == [cache EXCEPT !.fetch = NoFetch]
    <3>1. answered \in Query(data) /\ failed \in Query(data)
      BY <1>0 DEF Query, NoFetch
    <3>2. cache' = Settled(answered) \/ cache' = Settled(failed)
      BY <1>7 DEF FetchEnds
    <3> QED
      BY <3>1, <3>2
  <2> QED
    BY <1>2, <2>1, SettledQuery
<1>8. CASE UNCHANGED cache
  BY <1>0, <1>2, <1>8
<1>9. ASSUME NEW c \in Connection, HandlerStep(c) PROVE UNCHANGED cache
  BY <1>9 DEF HandlerStep, Subscribe, WatchPresence, Ready, Forward, Overflowed, Notice,
              Release, Unsubscribe, tabVars
<1>10. ASSUME \/ Write \/ Publish \/ PublishOther \/ SetOnlineReturns \/ Drop \/ Reconnect
              \/ HandleDisconnected \/ HandleConnected \/ Sync \/ Connect \/ Hide \/ Show
              \/ ConnectionLost \/ Restart \/ UNCHANGED vars
       PROVE  UNCHANGED cache
  BY <1>10 DEF Write, Publish, PublishOther, SetOnlineReturns, Drop, Reconnect,
               HandleDisconnected, HandleConnected, Handle, Sync, Connect, Hide, Show,
               ConnectionLost, Restart, tabVars, vars
<1> QED
  BY <1>3, <1>4, <1>5, <1>6, <1>7, <1>8, <1>9, <1>10 DEF Next, Progress

\* What becomes of a subscription that is told of a change
LEMMA PublishedChannel ==
  ASSUME NEW s \in [open : BOOLEAN, queue : Seq({"change", "other"})],
         Len(s.queue) <= Capacity, NEW change \in {"change", "other"}
  PROVE  /\ Published(s, change) \in [open : BOOLEAN, queue : Seq({"change", "other"})]
         /\ Len(Published(s, change).queue) <= Capacity
         /\ ~Published(s, change).open \/ change \in ToSet(Published(s, change).queue)
         /\ ToSet(s.queue) \subseteq ToSet(Published(s, change).queue)
         /\ ~s.open => ~Published(s, change).open
<1> USE EventStreamAssumption
<1>1. CASE s.open /\ Len(s.queue) < Capacity
  <2>1. Published(s, change) = [open |-> TRUE, queue |-> Append(s.queue, change)]
    BY <1>1 DEF Published
  <2>2. Append(s.queue, change) \in Seq({"change", "other"})
        /\ Len(Append(s.queue, change)) = Len(s.queue) + 1 /\ Len(s.queue) \in Nat
    OBVIOUS
  <2>3. ToSet(Append(s.queue, change)) = ToSet(s.queue) \cup {change}
    BY SetOfAppend
  <2> QED
    BY <1>1, <2>1, <2>2, <2>3
<1>2. CASE ~(s.open /\ Len(s.queue) < Capacity)
  <2>1. Published(s, change) = [open |-> FALSE, queue |-> s.queue]
    BY <1>2 DEF Published
  <2> QED
    BY <1>2, <2>1
<1> QED
  BY <1>1, <1>2

\* One connection's channel and frames
LEMMA ChannelSet ==
  ASSUME StreamsTyped, NEW c \in Connection,
         NEW s \in [open : BOOLEAN, queue : Seq({"change", "other"})],
         Len(s.queue) <= Capacity, chan' = [chan EXCEPT ![c] = s]
  PROVE  /\ chan' \in [Connection -> [open : BOOLEAN, queue : Seq({"change", "other"})]]
         /\ \A d \in Connection : Len(chan'[d].queue) <= Capacity
BY DEF StreamsTyped

LEMMA WireSet ==
  ASSUME StreamsTyped, NEW c \in Connection,
         NEW frames \in Seq({"ready", "change", "other", "close"}),
         wire' = [wire EXCEPT ![c] = frames]
  PROVE  wire' \in [Connection -> Seq({"ready", "change", "other", "close"})]
BY DEF StreamsTyped

LEMMA FrameSent ==
  ASSUME StreamsTyped, NEW c \in Connection,
         NEW frame \in {"ready", "change", "other", "close"}, Frame(c, frame)
  PROVE  wire' \in [Connection -> Seq({"ready", "change", "other", "close"})]
<1>1. Append(wire[c], frame) \in Seq({"ready", "change", "other", "close"})
  BY DEF StreamsTyped
<1> QED
  BY <1>1, WireSet DEF Frame

\* What a handler takes from its channel
LEMMA ForwardStep ==
  ASSUME StreamsTyped, NEW c \in Connection, Forward(c)
  PROVE  /\ handler[c] = "open" /\ chan[c].queue # <<>>
         /\ chan[c].queue \in Seq({"change", "other"})
         /\ Head(chan[c].queue) \in {"change", "other"}
         /\ Tail(chan[c].queue) \in Seq({"change", "other"})
         /\ Len(Tail(chan[c].queue)) <= Capacity
         /\ chan' = [chan EXCEPT ![c] = [chan[c] EXCEPT !.queue = Tail(chan[c].queue)]]
<1>1. chan[c] \in [open : BOOLEAN, queue : Seq({"change", "other"})]
      /\ Len(chan[c].queue) <= Capacity /\ Capacity \in Nat
  BY EventStreamAssumption DEF StreamsTyped
<1>2. /\ handler[c] = "open" /\ chan[c].queue # <<>>
      /\ chan' = [chan EXCEPT ![c].queue = Tail(chan[c].queue)]
  BY DEF Forward
<1>4. chan' = [chan EXCEPT ![c] = [chan[c] EXCEPT !.queue = Tail(chan[c].queue)]]
  BY <1>2
<1>5. chan[c].queue \in Seq({"change", "other"}) /\ Len(chan[c].queue) \in Nat
      /\ Len(Tail(chan[c].queue)) = Len(chan[c].queue) - 1
  BY <1>1, <1>2
<1>6. Head(chan[c].queue) \in {"change", "other"}
      /\ Tail(chan[c].queue) \in Seq({"change", "other"})
  BY <1>2, <1>5
<1> QED
  BY <1>1, <1>2, <1>4, <1>5, <1>6

\* Where a handler may go
LEMMA HandlerMoves ==
  ASSUME NEW c \in Connection, HandlerStep(c)
  PROVE  /\ UNCHANGED tabVars
         /\ handler[c] \notin {"none", "done"}
         /\ \/ handler' = handler
            \/ \E to \in {"subscribed", "watching", "open", "ending", "released", "done"} :
                 handler' = [handler EXCEPT ![c] = to]
<1> USE DEF Step, tabVars
<1>1. CASE Subscribe(c) \/ Unsubscribe(c)
  BY <1>1 DEF Subscribe, Unsubscribe
<1>2. CASE WatchPresence(c) \/ Release(c)
  BY <1>2 DEF WatchPresence, Release
<1>3. CASE Ready(c) \/ Notice(c)
  BY <1>3 DEF Ready, Notice
<1>4. CASE Forward(c) \/ Overflowed(c)
  BY <1>4 DEF Forward, Overflowed
<1> QED
  BY <1>1, <1>2, <1>3, <1>4 DEF HandlerStep

LEMMA HandlerStreams ==
  ASSUME StreamsTyped, TabTyped, NEW c \in Connection, HandlerStep(c) PROVE StreamsTyped'
<1>1. /\ handler' \in [Connection -> {"none", "accepted", "subscribed", "watching", "open",
                                      "ending", "released", "done"}]
      /\ \A d \in Connection : d > opened' => handler'[d] = "none"
  BY HandlerMoves DEF StreamsTyped, tabVars
<1> DEFINE Channels == /\ chan' \in [Connection -> [open : BOOLEAN,
                                                    queue : Seq({"change", "other"})]]
                       /\ \A d \in Connection : Len(chan'[d].queue) <= Capacity
           Wires == wire' \in [Connection -> Seq({"ready", "change", "other", "close"})]
<1>2. (UNCHANGED chan => Channels) /\ (UNCHANGED wire => Wires)
  BY DEF StreamsTyped
<1>3. CASE Subscribe(c) \/ Unsubscribe(c)
  <2> DEFINE new == [open |-> TRUE, queue |-> <<>>]
  <2>1. /\ new \in [open : BOOLEAN, queue : Seq({"change", "other"})] /\ Len(new.queue) <= Capacity
        /\ NoChannel \in [open : BOOLEAN, queue : Seq({"change", "other"})]
        /\ Len(NoChannel.queue) <= Capacity
    BY EventStreamAssumption DEF NoChannel
  <2>2. UNCHANGED wire
        /\ (chan' = [chan EXCEPT ![c] = new] \/ chan' = [chan EXCEPT ![c] = NoChannel])
    BY <1>3 DEF Subscribe, Unsubscribe
  <2> HIDE DEF new
  <2> QED
    BY <1>1, <1>2, <2>1, <2>2, ChannelSet DEF StreamsTyped
<1>4. CASE WatchPresence(c) \/ Notice(c) \/ Release(c)
  BY <1>1, <1>2, <1>4 DEF WatchPresence, Notice, Release, StreamsTyped
<1>5. CASE Ready(c) \/ Overflowed(c)
  <2>1. UNCHANGED chan /\ (UNCHANGED wire \/ Frame(c, "ready") \/ Frame(c, "close"))
    BY <1>5 DEF Ready, Overflowed
  <2> QED
    BY <1>1, <1>2, <2>1, FrameSent DEF StreamsTyped
<1>6. CASE Forward(c)
  <2>1. UNCHANGED wire \/ Frame(c, Head(chan[c].queue))
    BY <1>6 DEF Forward
  <2>2. Wires
    BY <1>2, <1>6, <2>1, ForwardStep, FrameSent
  <2>3. Channels
    <3> DEFINE rest == [chan[c] EXCEPT !.queue = Tail(chan[c].queue)]
    <3>1. rest \in [open : BOOLEAN, queue : Seq({"change", "other"})]
          /\ Len(rest.queue) <= Capacity
      <4>1. PICK q : q = Tail(chan[c].queue)
        OBVIOUS
      <4>2. q \in Seq({"change", "other"}) /\ Len(q) <= Capacity
        BY <1>6, <4>1, ForwardStep
      <4>3. chan[c] \in [open : BOOLEAN, queue : Seq({"change", "other"})]
        BY DEF StreamsTyped
      <4>4. PICK y : y = chan[c]
        OBVIOUS
      <4>5. rest = [y EXCEPT !.queue = q]
        BY <4>1, <4>4
      <4> HIDE DEF rest
      <4> QED
        BY <4>2, <4>3, <4>4, <4>5
    <3>2. chan' = [chan EXCEPT ![c] = rest]
      BY <1>6, ForwardStep
    <3> HIDE DEF rest
    <3> QED
      BY <3>1, <3>2, ChannelSet
  <2> QED
    BY <1>1, <2>2, <2>3 DEF StreamsTyped
<1> QED
  BY <1>3, <1>4, <1>5, <1>6 DEF HandlerStep

LEMMA StreamsStep ==
  ASSUME FeedTyped, StreamsTyped, TabTyped, [Next]_vars PROVE StreamsTyped'
<1>1. CASE Publish \/ PublishOther
  <2>1. PICK change \in {"change", "other"} : Tell(change)
    BY <1>1 DEF Publish, PublishOther
  <2>2. UNCHANGED <<handler, wire, opened>>
    BY <1>1 DEF Publish, PublishOther, tabVars
  <2> QED
    BY <2>1, <2>2, PublishedChannel DEF Tell, StreamsTyped
<1>2. CASE Connect \/ Show
  <2>1. UNCHANGED <<chan, wire>> /\ (Open \/ UNCHANGED <<handler, opened>>)
    BY <1>2 DEF Connect, Show
  <2>2. /\ handler' \in [Connection -> {"none", "accepted", "subscribed", "watching", "open",
                                        "ending", "released", "done"}]
        /\ \A d \in Connection : d > opened' => handler'[d] = "none"
    <3>1. CASE UNCHANGED <<handler, opened>>
      BY <3>1 DEF StreamsTyped
    <3>2. CASE Open
      <4>1. /\ handler' = [handler EXCEPT ![opened + 1] = "accepted"]
            /\ opened' = opened + 1 /\ opened \in Nat /\ opened + 1 \in Connection
        BY <3>2, EventStreamAssumption DEF Open, TabTyped, Connection
      <4>2. \A d \in Connection : d > opened + 1 => d > opened /\ d # opened + 1
        BY <4>1, EventStreamAssumption DEF Connection
      <4> QED
        BY <4>1, <4>2 DEF StreamsTyped
    <3> QED
      BY <2>1, <3>1, <3>2
  <2> QED
    BY <2>1, <2>2 DEF StreamsTyped
<1>3. CASE ConnectionLost \/ Hide \/ Receive
  <2>1. /\ UNCHANGED <<handler, chan, opened>>
        /\ \/ UNCHANGED wire
           \/ wire' = [wire EXCEPT ![current] = <<>>] /\ current \in Connection
           \/ /\ wire' = [wire EXCEPT ![current] = Tail(@)] /\ current \in Connection
              /\ wire[current] # <<>>
    BY <1>3, EventStreamAssumption
       DEF ConnectionLost, Hide, Receive, Lose, streamVars, TabTyped, Connection
  <2>2. wire' \in [Connection -> Seq({"ready", "change", "other", "close"})]
    <3>1. CASE wire' = [wire EXCEPT ![current] = Tail(@)] /\ current \in Connection
               /\ wire[current] # <<>>
      <4>1. Tail(wire[current]) \in Seq({"ready", "change", "other", "close"})
        BY <3>1 DEF StreamsTyped
      <4> QED
        BY <3>1, <4>1, WireSet
    <3>2. CASE wire' = [wire EXCEPT ![current] = <<>>] /\ current \in Connection
      BY <3>2, WireSet, EmptySequence
    <3>3. CASE UNCHANGED wire
      BY <3>3 DEF StreamsTyped
    <3> QED
      BY <2>1, <3>1, <3>2, <3>3
  <2> QED
    BY <2>1, <2>2 DEF StreamsTyped
<1>4. CASE Restart
  <2>1. /\ handler' \in [Connection -> {"none", "accepted", "subscribed", "watching", "open",
                                        "ending", "released", "done"}]
        /\ \A d \in Connection : d > opened' => handler'[d] = "none"
    BY <1>4, EventStreamAssumption DEF Restart, TabTyped, Connection
  <2> QED
    BY <1>4, <2>1, EventStreamAssumption DEF Restart, NoChannel, StreamsTyped
<1>5. ASSUME NEW c \in Connection, HandlerStep(c) PROVE StreamsTyped'
  BY <1>5, HandlerStreams
<1>6. CASE UNCHANGED <<streamVars, opened>>
  BY <1>6 DEF streamVars, StreamsTyped
<1>7. ASSUME \/ Write \/ SetOnlineReturns \/ Drop \/ Reconnect \/ HandleDisconnected
             \/ HandleConnected \/ Sync \/ Flush \/ Fetch \/ Answer \/ FetchEnds
             \/ UNCHANGED vars
      PROVE  UNCHANGED <<streamVars, opened>>
  BY <1>7 DEF Write, SetOnlineReturns, Drop, Reconnect, HandleDisconnected, HandleConnected,
              Handle, Sync, Flush, Fetch, Answer, FetchEnds, tabVars, vars
<1> QED
  BY <1>1, <1>2, <1>3, <1>4, <1>5, <1>6, <1>7 DEF Next, Progress

\* Steps that leave the viewers alone, and those that do not
LEMMA WatchingKept ==
  ASSUME \A c \in Connection : handler'[c] \in {"watching", "open", "ending"}
                                 <=> handler[c] \in {"watching", "open", "ending"}
  PROVE  Watching' = Watching
BY DEF Watching

LEMMA ViewersCounted ==
  /\ IsFiniteSet(Watching) /\ Cardinality(Watching) \in 0..MaxConnections
  /\ \A c \in Connection \ Watching : Cardinality(Watching \cup {c}) = Cardinality(Watching) + 1
  /\ \A c \in Watching : Cardinality(Watching \ {c}) = Cardinality(Watching) - 1
  /\ Watching = {} <=> Cardinality(Watching) = 0
<1>1. IsFiniteSet(Connection) /\ Cardinality(Connection) = MaxConnections
  BY FS_Interval, EventStreamAssumption DEF Connection
<1>2. Watching \subseteq Connection
  BY DEF Watching
<1>3. IsFiniteSet(Watching) /\ Cardinality(Watching) <= MaxConnections
  BY <1>1, <1>2, FS_Subset
<1>4. Cardinality(Watching) \in Nat
  BY <1>3, FS_CardinalityType
<1>5. \A c \in Connection \ Watching :
        Cardinality(Watching \cup {c}) = Cardinality(Watching) + 1
  BY <1>3, FS_AddElement
<1>6. \A c \in Watching : Cardinality(Watching \ {c}) = Cardinality(Watching) - 1
  BY <1>3, FS_RemoveElement
<1>7. Watching = {} <=> Cardinality(Watching) = 0
  BY <1>3, FS_EmptySet
<1> QED
  BY <1>3, <1>4, <1>5, <1>6, <1>7, EventStreamAssumption

\* The count of the viewers
LEMMA ViewersStep ==
  ASSUME StreamsTyped, TabTyped, OnlineTyped, [Next]_vars
  PROVE  /\ viewers' \in 0..MaxConnections /\ viewers' = Cardinality(Watching')
<1>0. viewers = Cardinality(Watching) /\ viewers \in 0..MaxConnections
  BY DEF OnlineTyped
<1>1. CASE UNCHANGED viewers /\ Watching' = Watching
  BY <1>0, <1>1
<1>2. ASSUME UNCHANGED <<handler, viewers>> PROVE UNCHANGED viewers /\ Watching' = Watching
  BY <1>2, WatchingKept
<1>3. CASE Connect \/ Show
  <2>1. UNCHANGED viewers /\ (Open \/ UNCHANGED handler)
    BY <1>3 DEF Connect, Show, onlineVars
  <2>2. CASE Open
    <3>1. opened + 1 \in Connection /\ handler[opened + 1] = "none"
      BY <2>2, EventStreamAssumption DEF Open, TabTyped, StreamsTyped, Connection
    <3>2. Watching' = Watching
      BY <2>2, <3>1, WatchingKept DEF Open, StreamsTyped
    <3> QED
      BY <1>1, <2>1, <3>2
  <2> QED
    BY <1>1, <1>2, <2>1, <2>2
<1>4. CASE Restart
  <2>1. Watching' = {} /\ viewers' = 0
    BY <1>4 DEF Restart, Watching
  <2> QED
    BY <2>1, FS_EmptySet, EventStreamAssumption
<1>5. ASSUME NEW c \in Connection, HandlerStep(c)
      PROVE  /\ viewers' \in 0..MaxConnections /\ viewers' = Cardinality(Watching')
  <2>1. CASE WatchPresence(c)
    <3>1. viewers' = viewers + 1 /\ handler[c] = "subscribed"
          /\ handler' = [handler EXCEPT ![c] = "watching"]
      BY <2>1 DEF WatchPresence, Step
    <3>2. c \notin Watching /\ Watching' = Watching \cup {c}
      BY <3>1 DEF Watching, StreamsTyped
    <3>3. viewers' = Cardinality(Watching')
      BY <1>0, <3>1, <3>2, ViewersCounted
    <3>4. Cardinality(Watching') \in 0..MaxConnections
      <4>1. IsFiniteSet(Connection) /\ Cardinality(Connection) = MaxConnections
        BY FS_Interval, EventStreamAssumption DEF Connection
      <4>2. Watching' \subseteq Connection
        BY DEF Watching
      <4> QED
        BY <4>1, <4>2, FS_Subset, FS_CardinalityType, EventStreamAssumption
    <3> QED
      BY <3>3, <3>4
  <2>2. CASE Release(c)
    <3>1. viewers' = viewers - 1 /\ handler[c] = "ending"
          /\ handler' = [handler EXCEPT ![c] = "released"]
      BY <2>2 DEF Release, Step
    <3>2. c \in Watching /\ Watching' = Watching \ {c}
      BY <3>1 DEF Watching, StreamsTyped
    <3>3. viewers # 0
      BY <1>0, <3>2, ViewersCounted
    <3> QED
      BY <1>0, <3>1, <3>2, <3>3, ViewersCounted, EventStreamAssumption
  <2>3. ASSUME ~WatchPresence(c), ~Release(c)
        PROVE  UNCHANGED viewers /\ Watching' = Watching
    <3>1. /\ UNCHANGED viewers
          /\ \/ handler' = handler
             \/ \E from \in {"accepted", "released"}, to \in {"subscribed", "done"} :
                  Step(c, from, to)
             \/ \E from \in {"watching", "open"}, to \in {"open", "ending"} :
                  Step(c, from, to)
      <4>1. CASE Subscribe(c) \/ Unsubscribe(c)
        BY <4>1 DEF Subscribe, Unsubscribe, onlineVars
      <4>2. CASE Ready(c) \/ Notice(c)
        BY <4>2 DEF Ready, Notice, onlineVars
      <4>3. CASE Forward(c) \/ Overflowed(c)
        BY <4>3 DEF Forward, Overflowed, onlineVars
      <4> QED
        BY <1>5, <2>3, <4>1, <4>2, <4>3 DEF HandlerStep
    <3> QED
      BY <3>1, WatchingKept DEF Step, StreamsTyped
  <2> QED
    BY <1>1, <2>1, <2>2, <2>3
<1>6. ASSUME \/ Write \/ Publish \/ PublishOther \/ SetOnlineReturns \/ Drop \/ Reconnect
             \/ HandleDisconnected \/ HandleConnected \/ Sync \/ UNCHANGED vars
      PROVE  UNCHANGED <<handler, viewers>>
  BY <1>6 DEF Write, Publish, PublishOther, SetOnlineReturns, Drop, Reconnect,
              HandleDisconnected, HandleConnected, Handle, Sync, streamVars, onlineVars, vars
<1>7. ASSUME Receive \/ Flush \/ Fetch \/ Answer \/ FetchEnds \/ Hide \/ ConnectionLost
      PROVE  UNCHANGED <<handler, viewers>>
  BY <1>7 DEF Receive, Flush, Fetch, Answer, FetchEnds, Hide, ConnectionLost, Lose, streamVars,
              onlineVars
<1> QED
  BY <1>1, <1>2, <1>3, <1>4, <1>5, <1>6, <1>7 DEF Next, Progress

LEMMA OnlineStep ==
  ASSUME StreamsTyped, TabTyped, OnlineTyped, [Next]_vars PROVE OnlineTyped'
<1> USE DEF OnlineTyped
<1> DEFINE Rest == /\ holder' \in {Free} \cup [by : 1..Provider, online : BOOLEAN]
                   /\ state' \in {"connected", "reconnecting"}
                   /\ syncing' \in BOOLEAN /\ link' \in BOOLEAN /\ online' \in BOOLEAN
                   /\ refused' \in BOOLEAN /\ skipped' \in BOOLEAN
                   /\ happened' \in Seq({"connected", "disconnected"})
<1>0. ASSUME NEW c \in 1..Provider, NEW on \in BOOLEAN, Ask(c, on)
      PROVE  holder' \in {Free} \cup [by : 1..Provider, online : BOOLEAN]
  BY <1>0 DEF Ask
<1>1. ASSUME SetOnlineReturns PROVE Rest
  BY <1>1 DEF SetOnlineReturns, LockFree
<1>2. ASSUME Drop \/ Reconnect PROVE Rest
  <2>1. /\ Append(happened, "connected") \in Seq({"connected", "disconnected"})
        /\ Append(happened, "disconnected") \in Seq({"connected", "disconnected"})
    OBVIOUS
  <2>2. happened' \in Seq({"connected", "disconnected"})
    BY <1>2, <2>1 DEF Drop, Reconnect
  <2> QED
    BY <1>2, <2>2 DEF Drop, Reconnect
<1>3. ASSUME HandleDisconnected \/ HandleConnected PROVE Rest
  <2>1. happened # <<>> => Tail(happened) \in Seq({"connected", "disconnected"})
    OBVIOUS
  <2>2. happened' \in Seq({"connected", "disconnected"})
    BY <1>3, <2>1 DEF HandleDisconnected, HandleConnected, Handle
  <2> QED
    BY <1>3, <2>2 DEF HandleDisconnected, HandleConnected, Handle
<1>4. ASSUME Sync PROVE Rest
  <2>1. Provider \in 1..Provider
    BY EventStreamAssumption DEF Provider
  <2>2. holder' \in {Free} \cup [by : 1..Provider, online : BOOLEAN]
    BY <1>0, <1>4, <2>1 DEF Sync
  <2> QED
    BY <1>4, <2>2 DEF Sync
<1>5. ASSUME Restart PROVE Rest
  BY <1>5, EmptySequence DEF Restart
<1>6. ASSUME NEW c \in Connection, HandlerStep(c) PROVE Rest
  <2>1. c \in 1..Provider
    BY EventStreamAssumption DEF Provider, Connection
  <2>2. CASE WatchPresence(c) \/ Release(c)
    <3>1. holder' \in {Free} \cup [by : 1..Provider, online : BOOLEAN]
      BY <1>0, <2>1, <2>2 DEF WatchPresence, Release
    <3> QED
      BY <2>2, <3>1 DEF WatchPresence, Release
  <2>3. CASE UNCHANGED onlineVars
    BY <2>3 DEF onlineVars
  <2> QED
    BY <1>6, <2>2, <2>3 DEF HandlerStep, Subscribe, Ready, Forward, Overflowed, Notice,
                            Unsubscribe
<1>7. ASSUME UNCHANGED onlineVars PROVE Rest
  BY <1>7 DEF onlineVars
<1>8. ASSUME \/ Write \/ Publish \/ PublishOther \/ Connect \/ Receive \/ Flush \/ Fetch
             \/ Answer \/ FetchEnds \/ Hide \/ Show \/ ConnectionLost \/ UNCHANGED vars
      PROVE  UNCHANGED onlineVars
  BY <1>8 DEF Write, Publish, PublishOther, Connect, Receive, Flush, Fetch, Answer, FetchEnds,
              Hide, Show, ConnectionLost, vars
<1>9. Rest
  BY <1>1, <1>2, <1>3, <1>4, <1>5, <1>6, <1>7, <1>8 DEF Next, Progress
<1> QED
  BY <1>9, ViewersStep

LEMMA TypeStep == ASSUME TypeOK, [Next]_vars PROVE TypeOK'
BY FeedStep, StreamsStep, TabStep, CacheStep, OnlineStep DEF TypeOK

LEMMA InitTyped == Init => TypeOK
<1> SUFFICES ASSUME Init PROVE TypeOK
  OBVIOUS
<1> USE EventStreamAssumption DEF Init
<1>1. FeedTyped /\ TabTyped
  BY DEF FeedTyped, TabTyped
<1>2. StreamsTyped
  BY EmptySequence DEF StreamsTyped, NoChannel
<1>3. CacheTyped
  BY DEF CacheTyped, Query
<1>4. OnlineTyped
  <2>1. Watching = {}
    BY DEF Watching
  <2>2. Cardinality(Watching) = 0
    BY <2>1, FS_EmptySet
  <2>3. happened \in Seq({"connected", "disconnected"})
    BY EmptySequence
  <2>4. viewers = Cardinality(Watching) /\ viewers \in 0..MaxConnections
    BY <2>2
  <2>5. /\ holder \in {Free} \cup [by : 1..Provider, online : BOOLEAN]
        /\ state \in {"connected", "reconnecting"}
    OBVIOUS
  <2>6. /\ syncing \in BOOLEAN /\ link \in BOOLEAN /\ online \in BOOLEAN
        /\ refused \in BOOLEAN /\ skipped \in BOOLEAN
    OBVIOUS
  <2> QED
    BY <2>3, <2>4, <2>5, <2>6 DEF OnlineTyped
<1> QED
  BY <1>1, <1>2, <1>3, <1>4 DEF TypeOK

\* Every variable has its type, channels are bounded, and viewers are counted.
THEOREM TypesHold == Spec => []TypeOK
BY InitTyped, TypeStep, PTL DEF Spec

---------------------------------------------------------------------------
(* Presence                                                                *)

LEMMA EventHandled ==
  ASSUME OnlineTyped, happened # <<>>
  PROVE  /\ Tail(happened) # <<>> => Last(Tail(happened)) = Last(happened)
         /\ Tail(happened) = <<>> => Last(happened) = Head(happened)
         /\ ToSet(happened) = {Head(happened)} \cup ToSet(Tail(happened))
<1>1. happened \in Seq({"connected", "disconnected"})
  BY DEF OnlineTyped
<1>2. ToSet(happened) = {Head(happened)} \cup ToSet(Tail(happened))
  BY <1>1, SetOfHeadTail
<1>3. /\ Len(happened) \in Nat \ {0} /\ Len(Tail(happened)) = Len(happened) - 1
      /\ Tail(happened) \in Seq({"connected", "disconnected"})
      /\ Head(happened) = happened[1]
  BY <1>1
<1>4. /\ \A i \in 1..Len(Tail(happened)) : Tail(happened)[i] = happened[i + 1]
      /\ Tail(happened) = <<>> <=> Len(Tail(happened)) = 0
  BY <1>1, <1>3
<1>5. CASE Len(happened) = 1
  BY <1>2, <1>3, <1>4, <1>5 DEF Last
<1>6. CASE Len(happened) # 1
  <2>1. Tail(happened) # <<>> /\ Len(happened) - 1 \in 1..Len(Tail(happened))
    BY <1>3, <1>4, <1>6
  <2>2. Tail(happened)[Len(happened) - 1] = happened[Len(happened)]
    BY <1>3, <1>4, <2>1
  <2> QED
    BY <1>2, <1>3, <2>1, <2>2 DEF Last
<1> QED
  BY <1>5, <1>6

LEMMA EventAdded ==
  ASSUME OnlineTyped, NEW e
  PROVE  /\ Append(happened, e) # <<>> /\ Last(Append(happened, e)) = e
         /\ ToSet(Append(happened, e)) = ToSet(happened) \cup {e}
<1>1. happened \in Seq({"connected", "disconnected"})
  BY DEF OnlineTyped
<1>2. ToSet(Append(happened, e)) = ToSet(happened) \cup {e}
  BY <1>1, SetOfAppend
<1> QED
  BY <1>1, <1>2 DEF Last

LEMMA OnlineFrame ==
  ASSUME OnlineInv, UNCHANGED onlineVars PROVE OnlineInv'
BY DEF OnlineInv, LinkInv, HolderInv, ShownInv, LockFree, onlineVars

\* A call that asks for what the viewers have become, or a provider that is not
\* connected and is not asked
LEMMA ViewersAsk ==
  ASSUME OnlineTyped, OnlineTyped', OnlineInv, LockFree, NEW c \in 1..Provider,
         NEW on \in BOOLEAN, Ask(c, on), on <=> viewers' > 0,
         UNCHANGED <<state, link, online, happened, refused>>,
         syncing' => syncing,
         ~on /\ ~skipped' /\ online => state = "connected"
  PROVE  OnlineInv'
<1> USE DEF Ask, LockFree, Free
<1>1. LinkInv'
  BY DEF OnlineInv, LinkInv
<1>2. c # 0
  BY EventStreamAssumption DEF Provider
<1>3. CASE state = "connected"
  BY <1>1, <1>2, <1>3 DEF OnlineInv, HolderInv, ShownInv
<1>4. CASE state = "reconnecting"
  BY <1>1, <1>2, <1>4 DEF OnlineInv, HolderInv, ShownInv, LinkInv, OnlineTyped
<1> QED
  BY <1>3, <1>4 DEF OnlineTyped

LEMMA ReturnOnline == ASSUME OnlineTyped, OnlineInv, SetOnlineReturns PROVE OnlineInv'
<1>1. /\ ~LockFree /\ LockFree'
      /\ UNCHANGED <<viewers, state, syncing, link, happened, skipped>>
      /\ \/ link /\ online' = holder.online /\ refused' = FALSE
         \/ link /\ refused' = TRUE /\ UNCHANGED online
         \/ ~link /\ UNCHANGED <<online, refused>>
  BY DEF SetOnlineReturns, LockFree
<1>2. LinkInv'
  BY <1>1 DEF OnlineInv, LinkInv
<1>3. HolderInv'
  BY <1>1 DEF HolderInv
<1>4. holder.online <=> viewers > 0
  BY <1>1 DEF OnlineInv, HolderInv
<1>6. ShownInv'
  <2>1. holder.online \in BOOLEAN /\ viewers \in Nat
    BY <1>1 DEF OnlineTyped, LockFree
  <2>2. CASE link /\ online' = holder.online
    BY <1>1, <1>4, <2>1, <2>2 DEF ShownInv
  <2>3. CASE link /\ refused'
    BY <1>1, <2>3 DEF ShownInv
  <2>4. CASE ~link
    BY <1>1, <2>4 DEF OnlineInv, ShownInv
  <2> QED
    BY <1>1, <2>2, <2>3, <2>4
<1> QED
  BY <1>2, <1>3, <1>6 DEF OnlineInv

LEMMA LinkOnline == ASSUME OnlineTyped, OnlineInv, Drop \/ Reconnect PROVE OnlineInv'
<1>1. UNCHANGED <<viewers, holder, state, syncing>>
  BY DEF Drop, Reconnect
<1>2. CASE Drop
  <2>1. /\ ~link' /\ ~online'
        /\ happened' = Append(happened, "disconnected")
    BY <1>2 DEF Drop
  <2> QED
    BY <1>1, <2>1, EventAdded DEF OnlineInv, LinkInv, HolderInv, ShownInv, LockFree
<1>3. CASE Reconnect
  <2>1. /\ ~link /\ link' /\ happened' = Append(happened, "connected")
        /\ UNCHANGED <<online, refused, skipped>>
    BY <1>3 DEF Reconnect
  <2> QED
    BY <1>1, <2>1, EventAdded DEF OnlineInv, LinkInv, HolderInv, ShownInv, LockFree
<1> QED
  BY <1>2, <1>3

LEMMA HandleOnline ==
  ASSUME OnlineTyped, OnlineInv, HandleDisconnected \/ HandleConnected PROVE OnlineInv'
<1>1. /\ ~syncing /\ happened # <<>> /\ happened' = Tail(happened)
      /\ UNCHANGED <<viewers, holder, link, online, refused, skipped>>
  BY DEF HandleDisconnected, HandleConnected, Handle
<1>2. CASE HandleDisconnected
  <2>1. Head(happened) = "disconnected" /\ state' = "reconnecting" /\ ~syncing'
    BY <1>1, <1>2 DEF HandleDisconnected, Handle
  <2> QED
    BY <1>1, <2>1, EventHandled
       DEF OnlineInv, LinkInv, HolderInv, ShownInv, LockFree
<1>3. CASE HandleConnected
  <2>1. Head(happened) = "connected" /\ state' = "connected" /\ syncing' = TRUE
    BY <1>1, <1>3 DEF HandleConnected, Handle
  <2> QED
    BY <1>1, <2>1, EventHandled
       DEF OnlineInv, LinkInv, HolderInv, ShownInv, LockFree
<1> QED
  BY <1>2, <1>3

LEMMA SyncOnline == ASSUME OnlineTyped, OnlineTyped', OnlineInv, Sync PROVE OnlineInv'
<1>1. /\ LockFree /\ ~syncing' /\ UNCHANGED <<viewers, state, link, online, happened, refused, skipped>>
      /\ state = "connected"
  BY DEF Sync, OnlineInv, LinkInv
<1>2. CASE viewers > 0
  <2>1. Provider \in 1..Provider
    BY EventStreamAssumption DEF Provider
  <2> QED
    BY <1>1, <1>2, <2>1, ViewersAsk DEF Sync
<1>3. CASE ~(viewers > 0)
  <2>1. UNCHANGED holder
    BY <1>3 DEF Sync
  <2> QED
    BY <1>1, <1>3, <2>1 DEF OnlineInv, LinkInv, HolderInv, ShownInv, LockFree
<1> QED
  BY <1>2, <1>3

LEMMA HandlerOnline ==
  ASSUME OnlineTyped, OnlineTyped', OnlineInv, NEW c \in Connection, HandlerStep(c)
  PROVE  OnlineInv'
<1>0. c \in 1..Provider
  BY EventStreamAssumption DEF Provider, Connection
<1>1. CASE WatchPresence(c)
  <2>1. /\ LockFree /\ viewers' = viewers + 1 /\ viewers \in Nat
        /\ UNCHANGED <<state, syncing, link, online, happened, refused, skipped>>
    BY <1>1 DEF WatchPresence, OnlineTyped
  <2>2. CASE viewers = 0
    <3>1. Ask(c, TRUE)
      BY <1>1, <2>2 DEF WatchPresence
    <3>2. viewers' > 0
      BY <2>1, <2>2
    <3>3. TRUE <=> viewers' > 0
      BY <3>2
    <3> QED
      BY <1>0, <2>1, <3>1, <3>3, ViewersAsk
  <2>3. CASE viewers # 0
    <3>1. UNCHANGED holder
      BY <1>1, <2>3 DEF WatchPresence
    <3> QED
      BY <2>1, <2>3, <3>1 DEF OnlineInv, LinkInv, HolderInv, ShownInv, LockFree
  <2> QED
    BY <2>2, <2>3
<1>2. CASE Release(c)
  <2>1. /\ LockFree /\ viewers' = viewers - 1 /\ viewers \in Nat /\ viewers' \in Nat
        /\ UNCHANGED <<state, syncing, link, online, happened, refused>>
        /\ skipped' = IF viewers = 1 THEN online /\ state # "connected" ELSE skipped
    BY <1>2 DEF Release, OnlineTyped
  <2>2. CASE viewers = 1
    <3>1. Ask(c, FALSE)
      BY <1>2, <2>2 DEF Release
    <3>2. ~(viewers' > 0)
      BY <2>1, <2>2
    <3>3. FALSE <=> viewers' > 0
      BY <3>2
    <3>4. ~skipped' /\ online => state = "connected"
      BY <2>1, <2>2
    <3> QED
      BY <1>0, <2>1, <3>1, <3>3, <3>4, ViewersAsk
  <2>3. CASE viewers # 1
    <3>1. UNCHANGED holder
      BY <1>2, <2>3 DEF Release
    <3> QED
      BY <2>1, <2>3, <3>1 DEF OnlineInv, LinkInv, HolderInv, ShownInv, LockFree
  <2> QED
    BY <2>2, <2>3
<1>3. CASE UNCHANGED onlineVars
  BY <1>3, OnlineFrame
<1> QED
  BY <1>1, <1>2, <1>3 DEF HandlerStep, Subscribe, Ready, Forward, Overflowed, Notice, Unsubscribe

LEMMA RestartOnline == ASSUME OnlineInv, Restart PROVE OnlineInv'
<1>1. /\ viewers' = 0 /\ holder' = Free /\ state' = "reconnecting" /\ ~syncing'
      /\ ~link' /\ ~online' /\ happened' = <<>>
  BY DEF Restart
<1> QED
  BY <1>1 DEF OnlineInv, LinkInv, HolderInv, ShownInv, LockFree

LEMMA OnlineInvStep == ASSUME TypeOK, OnlineInv, [Next]_vars PROVE OnlineInv'
<1>0. OnlineTyped /\ OnlineTyped'
  BY TypeStep DEF TypeOK
<1>1. ASSUME \/ Write \/ Publish \/ PublishOther \/ Connect \/ Receive \/ Flush \/ Fetch
             \/ Answer \/ FetchEnds \/ Hide \/ Show \/ ConnectionLost \/ UNCHANGED vars
      PROVE  UNCHANGED onlineVars
  BY <1>1 DEF Write, Publish, PublishOther, Connect, Receive, Flush, Fetch, Answer, FetchEnds,
              Hide, Show, ConnectionLost, vars
<1> QED
  BY <1>0, <1>1, OnlineFrame, ReturnOnline, LinkOnline, HandleOnline, SyncOnline, HandlerOnline,
     RestartOnline DEF Next, Progress

LEMMA OnlineInvHolds == Spec => []OnlineInv
<1>1. Init => OnlineInv
  BY DEF Init, OnlineInv, LinkInv, HolderInv, ShownInv, LockFree
<1> QED
  BY <1>1, OnlineInvStep, TypesHold, PTL DEF Spec

(* The account is shown as available while connections watch it, and as      *)
(* unavailable after the last one, however the provider's connection is lost *)
(* and comes back and whenever its events are handled, unless the provider   *)
(* refused the last call or the last release, which found the account not    *)
(* connected, asked nothing (setOnlineLocked).                               *)
THEOREM OnlineIsViewers == Spec => []OnlineFollowsViewers
<1>1. TypeOK /\ OnlineInv => OnlineFollowsViewers
  <2> SUFFICES ASSUME OnlineTyped, ShownInv PROVE OnlineFollowsViewers
    BY DEF TypeOK, OnlineInv
  <2>1. Watching = {} <=> viewers = 0
    BY ViewersCounted DEF OnlineTyped
  <2> QED
    BY <2>1 DEF OnlineFollowsViewers, Quiet, ShownInv, OnlineTyped
<1> QED
  BY <1>1, OnlineInvHolds, TypesHold, PTL

---------------------------------------------------------------------------
(* Changes                                                                 *)

LEMMA ToldFrame ==
  ASSUME WillBeTold, UNCHANGED <<unpublished, current, handler, chan, wire>>
  PROVE  WillBeTold'
BY DEF WillBeTold, Tells

LEMMA CurrentConnection ==
  ASSUME TypeOK, current # 0
  PROVE  /\ current \in Connection /\ current \notin cut
         /\ chan[current] \in [open : BOOLEAN, queue : Seq({"change", "other"})]
         /\ Len(chan[current].queue) <= Capacity
         /\ wire[current] \in Seq({"ready", "change", "other", "close"})
<1>1. current \in Connection /\ current \notin cut
  BY EventStreamAssumption DEF TypeOK, TabTyped, Connection
<1> QED
  BY <1>1 DEF TypeOK, StreamsTyped

\* Whatever is published, a tab that was to be told of something still is; and a
\* change is told.
LEMMA TellTold ==
  ASSUME TypeOK, NEW change \in {"change", "other"}, Tell(change),
         UNCHANGED <<current, handler, wire>>,
         (WillBeTold /\ UNCHANGED unpublished) \/ change = "change"
  PROVE  WillBeTold'
<1>1. CASE current = 0
  BY <1>1 DEF WillBeTold
<1>2. CASE current # 0
  <2>1. chan'[current] = Published(chan[current], change)
    BY <1>2, CurrentConnection DEF Tell
  <2>2. /\ ~chan'[current].open \/ change \in ToSet(chan'[current].queue)
        /\ ToSet(chan[current].queue) \subseteq ToSet(chan'[current].queue)
        /\ ~chan[current].open => ~chan'[current].open
    BY <1>2, <2>1, CurrentConnection, PublishedChannel
  <2>3. CASE change = "change"
    BY <2>2, <2>3 DEF WillBeTold, Tells
  <2>4. CASE WillBeTold /\ UNCHANGED unpublished
    BY <1>2, <2>2, <2>4 DEF WillBeTold, Tells
  <2> QED
    BY <2>3, <2>4
<1> QED
  BY <1>1, <1>2

\* A frame that is sent is on its way, and those before it stay.
LEMMA FrameOnWire ==
  ASSUME StreamsTyped, NEW c \in Connection, NEW frame, Frame(c, frame)
  PROVE  ToSet(wire'[c]) = ToSet(wire[c]) \cup {frame}
<1>1. wire[c] \in Seq({"ready", "change", "other", "close"})
      /\ wire'[c] = Append(wire[c], frame)
  BY DEF Frame, StreamsTyped
<1> QED
  BY <1>1, SetOfAppend

\* The handler of the tab's connection tells in the end.
LEMMA HandlerTells ==
  ASSUME StreamsTyped, NEW c \in Connection, c \notin cut, Tells(c), HandlerStep(c)
  PROVE  Tells(c)'
<1> USE DEF Step
<1>1. CASE Subscribe(c)
  BY <1>1 DEF Subscribe, Tells, StreamsTyped
<1>2. CASE WatchPresence(c)
  BY <1>2 DEF WatchPresence, Tells, StreamsTyped
<1>3. CASE Ready(c)
  <2>1. Frame(c, "ready")
    BY <1>3 DEF Ready
  <2> QED
    BY <2>1, FrameOnWire DEF Tells
<1>4. CASE Forward(c)
  <2>1. /\ Frame(c, Head(chan[c].queue)) /\ UNCHANGED handler
        /\ chan[c].queue \in Seq({"change", "other"}) /\ chan[c].queue # <<>>
    BY <1>4, ForwardStep DEF Forward
  <2>2. chan'[c].queue = Tail(chan[c].queue) /\ chan'[c].open = chan[c].open
    <3>1. chan[c] \in [open : BOOLEAN, queue : Seq({"change", "other"})]
      BY DEF StreamsTyped
    <3>2. chan'[c] = [chan[c] EXCEPT !.queue = Tail(chan[c].queue)]
      BY <1>4, ForwardStep DEF StreamsTyped
    <3> QED
      BY <3>1, <3>2
  <2>3. ToSet(chan[c].queue) = {Head(chan[c].queue)} \cup ToSet(Tail(chan[c].queue))
    BY <2>1, SetOfHeadTail
  <2>4. ToSet(wire'[c]) = ToSet(wire[c]) \cup {Head(chan[c].queue)}
    BY <2>1, FrameOnWire
  <2>5. ToSet(wire'[c]) \cup ToSet(chan'[c].queue) = ToSet(wire[c]) \cup ToSet(chan[c].queue)
    BY <2>2, <2>3, <2>4
  <2> QED
    BY <2>1, <2>2, <2>5 DEF Tells
<1>5. CASE Overflowed(c)
  <2>1. Frame(c, "close")
    BY <1>5 DEF Overflowed
  <2> QED
    BY <2>1, FrameOnWire DEF Tells
<1>6. CASE Notice(c)
  BY <1>6 DEF Notice
<1>7. CASE Release(c)
  BY <1>7 DEF Release, Tells
<1>8. CASE Unsubscribe(c)
  BY <1>8 DEF Unsubscribe, NoChannel, Tells, StreamsTyped
<1> QED
  BY <1>1, <1>2, <1>3, <1>4, <1>5, <1>6, <1>7, <1>8 DEF HandlerStep

\* A handler leaves the other connections alone.
LEMMA HandlerApart ==
  ASSUME StreamsTyped, NEW c \in Connection, HandlerStep(c), NEW d \in Connection \ {c}
  PROVE  UNCHANGED <<handler[d], chan[d], wire[d]>>
<1> USE DEF Step, Frame, StreamsTyped
<1>1. CASE Subscribe(c) \/ Unsubscribe(c)
  BY <1>1 DEF Subscribe, Unsubscribe
<1>2. CASE WatchPresence(c) \/ Release(c) \/ Notice(c)
  BY <1>2 DEF WatchPresence, Release, Notice
<1>3. CASE Ready(c) \/ Overflowed(c)
  BY <1>3 DEF Ready, Overflowed
<1>4. CASE Forward(c)
  BY <1>4 DEF Forward
<1> QED
  BY <1>1, <1>2, <1>3, <1>4 DEF HandlerStep

LEMMA HandlerTold ==
  ASSUME TypeOK, WillBeTold, NEW c \in Connection, HandlerStep(c) PROVE WillBeTold'
<1>1. UNCHANGED <<unpublished, current>>
  BY DEF HandlerStep, Subscribe, WatchPresence, Ready, Forward, Overflowed, Notice, Release,
         Unsubscribe, feedVars, tabVars
<1>2. CASE unpublished > 0 \/ current = 0
  BY <1>1, <1>2 DEF WillBeTold
<1>3. CASE current # 0 /\ Tells(current)
  <2>1. current \in Connection /\ current \notin cut /\ StreamsTyped
    BY <1>3, CurrentConnection DEF TypeOK
  <2>2. CASE c = current
    <3>1. Tells(c)'
      BY <1>3, <2>1, <2>2, HandlerTells
    <3> QED
      BY <1>1, <2>2, <3>1 DEF WillBeTold
  <2>3. CASE c # current
    <3>1. UNCHANGED <<handler[current], chan[current], wire[current]>>
      BY <2>1, <2>3, HandlerApart, <1>1
    <3> QED
      BY <1>1, <1>3, <3>1 DEF WillBeTold, Tells
  <2> QED
    BY <2>2, <2>3
<1> QED
  BY <1>2, <1>3 DEF WillBeTold

LEMMA ConnectTold ==
  ASSUME TypeOK, WillBeTold, Connect \/ Show \/ ConnectionLost \/ Hide PROVE WillBeTold'
<1>1. CASE current' = 0
  BY <1>1 DEF WillBeTold
<1>2. CASE Open
  <2>1. current' \in Connection /\ handler'[current'] = "accepted"
    BY <1>2, EventStreamAssumption DEF Open, TypeOK, TabTyped, StreamsTyped, Connection
  <2> QED
    BY <2>1 DEF WillBeTold, Tells
<1>3. CASE UNCHANGED <<unpublished, current, handler, chan, wire>>
  BY <1>3, ToldFrame
<1> QED
  BY <1>1, <1>2, <1>3 DEF Connect, Show, ConnectionLost, Hide, Lose, feedVars, streamVars

\* What a frame does: a change and a ready are told, the end of the connection is
\* followed by another, and the rest does not matter.
LEMMA ReceiveTold ==
  ASSUME TypeOK, Receive
  PROVE  \/ \E frame \in {"change", "ready"} : cache' = Marked(cache, frame)
         \/ UNCHANGED cache /\ (WillBeTold => WillBeTold')
<1> DEFINE frame == Head(wire[current])
<1>1. /\ current # 0 /\ wire[current] # <<>> /\ UNCHANGED unpublished
      /\ wire[current] \in Seq({"ready", "change", "other", "close"})
      /\ current \in Connection
  BY CurrentConnection DEF Receive, feedVars
<1>2. frame \in {"ready", "change", "other", "close"}
      /\ ToSet(wire[current]) = {frame} \cup ToSet(Tail(wire[current]))
  BY <1>1, SetOfHeadTail
<1>3. CASE frame = "close"
  BY <1>3 DEF Receive, Lose, WillBeTold
<1>4. CASE frame \in {"change", "ready"}
  BY <1>4 DEF Receive
<1>5. CASE frame = "other"
  <2>1. cache' = cache
    BY <1>5, MarkedQuery DEF Receive, TypeOK, CacheTyped
  <2>2. /\ UNCHANGED <<handler, chan, current>>
        /\ wire' = [wire EXCEPT ![current] = Tail(@)]
    BY <1>5 DEF Receive
  <2>3. wire'[current] = Tail(wire[current])
    BY <1>1, <2>2 DEF TypeOK, StreamsTyped
  <2>4. (ToSet(wire[current]) \cap {"ready", "change", "close"})
          \subseteq ToSet(wire'[current])
    BY <1>2, <1>5, <2>3
  <2>5. WillBeTold => WillBeTold'
    BY <1>1, <2>2, <2>4 DEF WillBeTold, Tells
  <2> QED
    BY <2>1, <2>5
<1> QED
  BY <1>2, <1>3, <1>4, <1>5

MissInv == NoMissedChange /\ FetchInv

\* A step that leaves the query and the store alone
LEMMA MissFrame ==
  ASSUME MissInv, UNCHANGED <<cache, data>>, WillBeTold => WillBeTold' PROVE MissInv'
BY DEF MissInv, NoMissedChange, FetchInv, WillRefresh

LEMMA MissTold == ASSUME MissInv, UNCHANGED cache, WillBeTold' PROVE MissInv'
BY DEF MissInv, NoMissedChange, FetchInv

\* A query that the tab is told of
LEMMA MarkedMiss ==
  ASSUME TypeOK, MissInv, UNCHANGED data, NEW frame \in {"change", "ready"},
         cache' = Marked(cache, frame)
  PROVE  MissInv'
<1>1. cache \in Query(data) /\ FeedTyped
  BY DEF TypeOK, CacheTyped
<1>2. /\ WillAsk(cache') \/ cache'.fetch.st = "sent"
      /\ \/ cache'.fetch = cache.fetch /\ cache'.invalid = cache.invalid
         \/ cache'.fetch.st = "none"
         \/ cache'.fetch.st = "sent" /\ cache'.invalid
  BY <1>1, MarkedQuery
<1> QED
  BY <1>2 DEF MissInv, NoMissedChange, FetchInv, WillRefresh

LEMMA FlushMiss == ASSUME TypeOK, MissInv, Flush PROVE MissInv'
<1>1. /\ UNCHANGED data /\ (WillBeTold <=> WillBeTold')
      /\ cache \in Query(data)
  BY DEF Flush, feedVars, streamVars, WillBeTold, Tells, TypeOK, CacheTyped
<1>2. /\ cache'.shown = cache.shown
      /\ \/ /\ cache'.fetch = cache.fetch /\ cache'.invalid = cache.invalid
            /\ WillAsk(cache) => WillAsk(cache')
         \/ cache'.fetch.st = "sent" /\ cache'.invalid
  <2> DEFINE q == [cache EXCEPT !.timer = FALSE]
  <2>1. /\ q \in Query(data) /\ q.shown = cache.shown /\ q.fetch = cache.fetch
        /\ q.invalid = cache.invalid /\ q.dirty = cache.dirty /\ q.running = cache.running
    BY <1>1 DEF Query
  <2>2. cache' = IF ~q.dirty \/ q.running # "no" THEN q
                 ELSE IF q.fetch.st # "none" THEN [q EXCEPT !.dirty = FALSE, !.running = "wait"]
                 ELSE Request([q EXCEPT !.dirty = FALSE, !.running = "refetch",
                                        !.invalid = TRUE])
    BY DEF Flush
  <2> HIDE DEF q
  <2>3. CASE ~q.dirty \/ q.running # "no"
    BY <2>1, <2>2, <2>3 DEF WillAsk
  <2>4. CASE q.dirty /\ q.running = "no" /\ q.fetch.st # "none"
    BY <2>1, <2>2, <2>4 DEF WillAsk, Query
  <2>5. CASE q.dirty /\ q.running = "no" /\ q.fetch.st = "none"
    BY <2>1, <2>2, <2>5 DEF Request, Query
  <2> QED
    BY <2>3, <2>4, <2>5
<1> QED
  BY <1>1, <1>2 DEF MissInv, NoMissedChange, FetchInv, WillRefresh

LEMMA FetchMiss == ASSUME TypeOK, MissInv, Fetch \/ Answer PROVE MissInv'
<1>1. /\ UNCHANGED data /\ (WillBeTold <=> WillBeTold')
      /\ cache \in Query(data) /\ data \in Nat
  BY DEF Fetch, Answer, feedVars, streamVars, WillBeTold, Tells, TypeOK, CacheTyped, FeedTyped
<1>2. CASE Fetch
  <2>1. cache'.fetch.st = "sent" /\ cache'.invalid
    BY <1>1, <1>2 DEF Fetch, Request, Query
  <2> QED
    BY <1>1, <2>1 DEF MissInv, NoMissedChange, FetchInv, WillRefresh
<1>3. CASE Answer
  <2>1. /\ cache.fetch.st = "sent" /\ cache'.invalid = cache.invalid
        /\ cache'.fetch.st = "answered" /\ cache'.fetch.version = data
    BY <1>1, <1>3 DEF Answer, Query
  <2> QED
    BY <1>1, <2>1 DEF MissInv, NoMissedChange, FetchInv, WillRefresh
<1> QED
  BY <1>2, <1>3

LEMMA FetchEndsMiss == ASSUME TypeOK, MissInv, FetchEnds PROVE MissInv'
<1>1. /\ UNCHANGED data /\ (WillBeTold <=> WillBeTold')
      /\ cache \in Query(data) /\ data \in Nat /\ FeedTyped
  BY DEF FetchEnds, feedVars, streamVars, WillBeTold, Tells, TypeOK, CacheTyped, FeedTyped
<1> DEFINE answered == [cache EXCEPT !.shown = cache.fetch.version, !.fetch = NoFetch,
                                     !.invalid = FALSE]
           failed   == [cache EXCEPT !.fetch = NoFetch]
<1>2. /\ answered \in Query(data) /\ answered.shown = cache.fetch.version
      /\ answered.fetch.st = "none" /\ (WillAsk(cache) => WillAsk(answered))
      /\ failed \in Query(data) /\ failed.shown = cache.shown
      /\ failed.fetch.st = "none" /\ failed.invalid = cache.invalid
      /\ WillAsk(cache) => WillAsk(failed)
  <2>0. NoFetch \in [st : {"none", "sent", "answered"}, version : 0..data]
        /\ NoFetch.st = "none"
    BY <1>1 DEF NoFetch
  <2>1. /\ answered \in Query(data) /\ answered.shown = cache.fetch.version
        /\ answered.fetch = NoFetch /\ answered.dirty = cache.dirty
        /\ answered.timer = cache.timer /\ answered.running = cache.running
    BY <1>1, <2>0 DEF Query
  <2>2. /\ failed \in Query(data) /\ failed.shown = cache.shown
        /\ failed.fetch = NoFetch /\ failed.dirty = cache.dirty
        /\ failed.timer = cache.timer /\ failed.running = cache.running
        /\ failed.invalid = cache.invalid
    BY <1>1, <2>0 DEF Query
  <2> HIDE DEF answered, failed
  <2> QED
    BY <2>0, <2>1, <2>2 DEF WillAsk
<1>3. \/ cache.fetch.st = "answered" /\ cache' = Settled(answered)
      \/ cache.fetch.st # "none" /\ cache' = Settled(failed)
  BY DEF FetchEnds
<1> HIDE DEF answered, failed
<1>4. CASE cache.fetch.st = "answered" /\ cache' = Settled(answered)
  <2>1. /\ cache'.shown = cache.fetch.version
        /\ \/ cache'.fetch.st = "sent" /\ cache'.invalid
           \/ cache'.fetch.st = "none" /\ (WillAsk(cache) => WillAsk(cache'))
    BY <1>1, <1>2, <1>4, SettledQuery
  <2> QED
    BY <1>1, <1>4, <2>1 DEF MissInv, NoMissedChange, FetchInv, WillRefresh
<1>5. CASE cache.fetch.st # "none" /\ cache' = Settled(failed)
  <2>1. /\ cache.invalid
        /\ \/ cache'.fetch.st = "sent" /\ cache'.invalid
           \/ cache'.fetch.st = "none" /\ cache'.invalid = cache.invalid
    BY <1>1, <1>2, <1>5, SettledQuery DEF MissInv, FetchInv
  <2> QED
    BY <1>1, <1>5, <2>1 DEF MissInv, NoMissedChange, FetchInv, WillRefresh
<1> QED
  BY <1>3, <1>4, <1>5

LEMMA MissStep == ASSUME TypeOK, MissInv, [Next]_vars PROVE MissInv'
<1>1. CASE Write
  <2>1. WillBeTold' /\ UNCHANGED cache
    BY <1>1 DEF Write, WillBeTold, tabVars, TypeOK, FeedTyped
  <2> QED
    BY <2>1, MissTold
<1>2. CASE Publish \/ PublishOther
  <2>1. /\ UNCHANGED <<cache, data, current, handler, wire>>
        /\ \/ Tell("change")
           \/ Tell("other") /\ UNCHANGED unpublished
    BY <1>2 DEF Publish, PublishOther, feedVars, tabVars
  <2>2. WillBeTold => WillBeTold'
    BY <2>1, TellTold
  <2> QED
    BY <2>1, <2>2, MissFrame
<1>3. CASE Connect \/ Show \/ ConnectionLost \/ Hide
  <2>1. UNCHANGED <<cache, data>>
    BY <1>3 DEF Connect, Show, ConnectionLost, Hide, feedVars
  <2> QED
    BY <1>3, <2>1, ConnectTold, MissFrame
<1>4. CASE Receive
  <2>1. UNCHANGED data
    BY <1>4 DEF Receive, feedVars
  <2> QED
    BY <1>4, <2>1, ReceiveTold, MarkedMiss, MissFrame
<1>5. ASSUME NEW c \in Connection, HandlerStep(c) PROVE MissInv'
  <2>1. UNCHANGED <<cache, data>>
    BY <1>5 DEF HandlerStep, Subscribe, WatchPresence, Ready, Forward, Overflowed, Notice,
                Release, Unsubscribe, feedVars, tabVars
  <2> QED
    BY <1>5, <2>1, HandlerTold, MissFrame
<1>6. CASE Restart
  <2>1. WillBeTold' /\ UNCHANGED cache
    BY <1>6 DEF Restart, WillBeTold
  <2> QED
    BY <2>1, MissTold
<1>7. CASE UNCHANGED <<feedVars, streamVars, tabVars>>
  <2>1. UNCHANGED <<cache, data>> /\ (WillBeTold => WillBeTold')
    BY <1>7, ToldFrame DEF feedVars, streamVars, tabVars
  <2> QED
    BY <2>1, MissFrame
<1>8. ASSUME \/ SetOnlineReturns \/ Drop \/ Reconnect \/ HandleDisconnected \/ HandleConnected
             \/ Sync \/ UNCHANGED vars
      PROVE  UNCHANGED <<feedVars, streamVars, tabVars>>
  BY <1>8 DEF SetOnlineReturns, Drop, Reconnect, HandleDisconnected, HandleConnected, Handle,
              Sync, vars
<1> QED
  BY <1>1, <1>2, <1>3, <1>4, <1>5, <1>6, <1>7, <1>8, FlushMiss, FetchMiss, FetchEndsMiss
     DEF Next, Progress

\* A tab that shows former data is about to fetch them, or is told of the change.
THEOREM ChangesAreNotMissed == Spec => []NoMissedChange
<1>1. Init => MissInv
  BY DEF Init, MissInv, NoMissedChange, FetchInv
<1>2. MissInv => NoMissedChange
  BY DEF MissInv
<1> QED
  BY <1>1, <1>2, MissStep, TypesHold, PTL DEF Spec
=============================================================================
