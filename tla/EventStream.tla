---------------------------- MODULE EventStream ----------------------------
(***************************************************************************)
(* The change feed (app/notifications.go), the WebSocket connections that  *)
(* carry it (api/native/v1/events.go), the query cache of a browser tab    *)
(* that fetches again what it is told of (web realtime.ts,                 *)
(* realtime-cache.ts), and the presence of the account, which is online    *)
(* while connections watch it (app/presence.go).                           *)
(*                                                                         *)
(* One tab connects again and again; each connection has a handler of its  *)
(* own, and the handler of a lost one may still be at work when the next   *)
(* begins.  The tab shows one query, whose answer is the version of what   *)
(* the store holds.  The provider's connection may drop and come back, and *)
(* its events are handled in order, some time later.                       *)
(***************************************************************************)
EXTENDS Integers, Sequences, FiniteSets, SequencesExt

CONSTANTS Capacity,        \* of a subscriber's channel (64 in the code)
          MaxConnections,  \* the tab's connections
          MaxIncidents     \* writes that are told of, other notifications, losses of a
                           \* connection, of the tab or the provider, failing calls
                           \* and restarts

ASSUME EventStreamAssumption ==
  /\ Capacity \in Nat \ {0} /\ MaxConnections \in Nat
  /\ MaxIncidents \in Nat

Connection == 1..MaxConnections

VARIABLES data,       \* version of the store
          unpublished, \* writes that are committed and not yet published
          handler,    \* handler[c]: where the handler of a connection is
          chan,       \* chan[c]: its subscription
          wire,       \* wire[c]: frames on their way to the tab
          cut,        \* connections that are lost
          current,    \* the tab's socket, 0 for none; sockets are numbered
          opened,     \* number of sockets opened
          visible,    \* the tab is
          cache,      \* the tab's query
          viewers,    \* presenceViewers
          holder,     \* holder of presenceMu, in a SetOnline call
          state,      \* rt.state: connected or reconnecting
          syncing,    \* the Connected handler is at syncOnline
          link,       \* the provider's connection is up
          online,     \* what the provider shows of the account
          happened,   \* provider events that are not handled yet
          refused,    \* a SetOnline call failed on a connection that was up
          skipped,    \* history: the last release asked nothing of a provider that
                      \* shows the account as available
          incidents   \* number of incidents so far

feedVars   == <<data, unpublished>>
streamVars == <<handler, chan, wire, cut>>
tabVars    == <<current, opened, visible, cache>>
onlineVars == <<viewers, holder, state, syncing, link, online, happened, refused, skipped>>
vars == <<feedVars, streamVars, tabVars, onlineVars, incidents>>

NoChannel == [open |-> FALSE, queue |-> <<>>]
NoFetch   == [st |-> "none", version |-> 0]
Free      == [by |-> 0, online |-> FALSE]
Provider  == MaxConnections + 1   \* the event handler, as a holder of presenceMu

Init ==
  /\ data = 0 /\ unpublished = 0
  /\ handler = [c \in Connection |-> "none"]
  /\ chan = [c \in Connection |-> NoChannel]
  /\ wire = [c \in Connection |-> <<>>]
  /\ cut = {} /\ current = 0 /\ opened = 0 /\ visible = TRUE
  /\ cache = [shown |-> 0, dirty |-> FALSE, timer |-> FALSE, running |-> "no",
              fetch |-> [st |-> "sent", version |-> 0], invalid |-> TRUE]
  /\ viewers = 0 /\ holder = Free /\ state = "connected" /\ syncing = FALSE
  /\ link = TRUE /\ online = FALSE /\ happened = <<>> /\ refused = FALSE
  /\ skipped = FALSE /\ incidents = 0

Incident == incidents < MaxIncidents /\ incidents' = incidents + 1

---------------------------------------------------------------------------
(* The feed                                                                *)

\* A handler of the service commits a change, and notifies afterwards.
Write ==
  /\ Incident
  /\ data' = data + 1 /\ unpublished' = unpublished + 1
  /\ UNCHANGED <<streamVars, tabVars, onlineVars>>

PublishedOrDropped(s, change) ==  \* a mutant: a full channel misses the change
  IF s.open /\ Len(s.queue) < Capacity THEN [s EXCEPT !.queue = Append(@, change)] ELSE s

PublishedUnbounded(s, change) ==  \* a mutant: a channel without a bound
  IF s.open THEN [s EXCEPT !.queue = Append(@, change)] ELSE s

\* A subscriber whose channel is full is dropped, and its channel closed; what
\* is in a closed channel can still be read.
Published(s, change) ==
  IF ~s.open THEN s
  ELSE IF Len(s.queue) < Capacity THEN [s EXCEPT !.queue = Append(@, change)]
  ELSE [s EXCEPT !.open = FALSE]

Tell(change) == chan' = [c \in Connection |-> Published(chan[c], change)]

Publish ==
  /\ unpublished > 0
  /\ unpublished' = unpublished - 1
  /\ Tell("change")
  /\ UNCHANGED <<data, handler, wire, cut, tabVars, onlineVars, incidents>>

\* A notification that is not about the tab's query: of another resource, or of
\* somebody who types.
PublishOther ==
  /\ Incident /\ Tell("other")
  /\ UNCHANGED <<feedVars, handler, wire, cut, tabVars, onlineVars>>

---------------------------------------------------------------------------
(* The tab's socket                                                        *)

Open ==
  /\ opened < MaxConnections
  /\ opened' = opened + 1 /\ current' = opened + 1
  /\ handler' = [handler EXCEPT ![opened + 1] = "accepted"]

\* connect, at first and some time after a socket was closed
Connect ==
  /\ visible /\ current = 0 /\ Open
  /\ UNCHANGED <<feedVars, chan, wire, cut, visible, cache, onlineVars, incidents>>

\* A connection is lost with what is on its way; its handler learns of it later.
Lose(c) ==
  /\ cut' = cut \cup {c} /\ wire' = [wire EXCEPT ![c] = <<>>]
  /\ current' = 0
  /\ UNCHANGED <<handler, chan>>

ConnectionLost ==
  /\ current # 0 /\ Incident /\ Lose(current)
  /\ UNCHANGED <<feedVars, opened, visible, cache, onlineVars>>

\* visibilityChanged: the hidden tab closes its socket
Hide ==
  /\ visible /\ visible' = FALSE
  /\ IF current # 0 THEN Lose(current) ELSE UNCHANGED <<streamVars, current>>
  /\ UNCHANGED <<feedVars, opened, cache, onlineVars, incidents>>

\* On return to the tab it connects at once.
Show ==
  /\ ~visible /\ visible' = TRUE
  /\ IF opened < MaxConnections THEN Open ELSE UNCHANGED <<handler, current, opened>>
  /\ UNCHANGED <<feedVars, chan, wire, cut, cache, onlineVars, incidents>>

---------------------------------------------------------------------------
(* The tab's cache                                                         *)

Request(q)  == [q EXCEPT !.fetch = [st |-> "sent", version |-> 0]]
Schedule(q) == [q EXCEPT !.timer = TRUE]

ForgetsDirty(q) == [q EXCEPT !.running = "no"]  \* a mutant

\* The end of refresh: the query may have become dirty in the meantime.
Refreshed(q) == [q EXCEPT !.running = "no", !.timer = @ \/ q.dirty]

\* What awaits a fetch, when it has ended: refresh goes on with a fetch of its
\* own after an older one, and ends after its own.
Settled(q) ==
  CASE q.running = "wait"    -> Request([q EXCEPT !.running = "refetch", !.invalid = TRUE])
    [] q.running = "refetch" -> Refreshed(q)
    [] OTHER                 -> q

\* receive: a change makes the query dirty; ready cancels its fetch, too.
Marked(q, frame) ==
  LET dirty == Schedule([q EXCEPT !.dirty = TRUE])
  IN CASE frame = "change" -> dirty
       [] frame = "ready"  -> IF q.fetch.st = "none" THEN dirty
                              ELSE Settled([dirty EXCEPT !.fetch = NoFetch])
       [] OTHER            -> q

\* onmessage, or onclose once the frames before it are delivered
Receive ==
  /\ current # 0 /\ wire[current] # <<>>
  /\ LET frame == Head(wire[current])
     IN IF frame = "close"
        THEN Lose(current) /\ UNCHANGED cache
        ELSE /\ cache' = Marked(cache, frame)
             /\ wire' = [wire EXCEPT ![current] = Tail(@)]
             /\ UNCHANGED <<handler, chan, cut, current>>
  /\ UNCHANGED <<feedVars, opened, visible, onlineVars, incidents>>

\* flush, 100 ms after the first change: a query that is being refreshed stays
\* dirty; otherwise refresh waits for an older fetch, or fetches at once.
Flush ==
  /\ cache.timer
  /\ LET q == [cache EXCEPT !.timer = FALSE]
     IN cache' = IF ~q.dirty \/ q.running # "no" THEN q
                 ELSE IF q.fetch.st # "none" THEN [q EXCEPT !.dirty = FALSE, !.running = "wait"]
                 ELSE Request([q EXCEPT !.dirty = FALSE, !.running = "refetch", !.invalid = TRUE])
  /\ UNCHANGED <<feedVars, streamVars, current, opened, visible, onlineVars, incidents>>

\* A fetch for another reason: the user asks again for what could not be fetched
\* (the query client refetches nothing on its own, main.tsx).
Fetch ==
  /\ cache.invalid /\ cache.fetch.st = "none" /\ cache.running = "no"
  /\ cache' = Request(cache)
  /\ UNCHANGED <<feedVars, streamVars, current, opened, visible, onlineVars, incidents>>

\* The server reads the store for the answer, which arrives later, or not.
Answer ==
  /\ cache.fetch.st = "sent"
  /\ cache' = [cache EXCEPT !.fetch = [st |-> "answered", version |-> data]]
  /\ UNCHANGED <<feedVars, streamVars, current, opened, visible, onlineVars, incidents>>

FetchEnds ==
  /\ \/ /\ cache.fetch.st = "answered" /\ UNCHANGED incidents
        /\ cache' = Settled([cache EXCEPT !.shown = cache.fetch.version, !.fetch = NoFetch,
                                          !.invalid = FALSE])
     \/ /\ cache.fetch.st # "none" /\ Incident
        /\ cache' = Settled([cache EXCEPT !.fetch = NoFetch])
  /\ UNCHANGED <<feedVars, streamVars, current, opened, visible, onlineVars>>

---------------------------------------------------------------------------
(* Presence                                                                *)

LockFree == holder = Free

\* setOnlineLocked asks a provider that is connected, and releases the lock when
\* the call is over.
Ask(c, on) ==
  holder' = IF state = "connected" THEN [by |-> c, online |-> on] ELSE holder

\* The call returns.  A connection that is down takes no presence; one that is
\* up may refuse it, which is logged and not tried again.
SetOnlineReturns ==
  /\ ~LockFree /\ holder' = Free
  /\ \/ link /\ online' = holder.online /\ refused' = FALSE /\ UNCHANGED incidents
     \/ link /\ Incident /\ refused' = TRUE /\ UNCHANGED online
     \/ ~link /\ UNCHANGED <<online, refused, incidents>>
  /\ UNCHANGED <<feedVars, streamVars, tabVars, viewers, state, syncing, link, happened,
                 skipped>>

\* The provider's connection is lost, and shows the account as unavailable.
Drop ==
  /\ link /\ Incident
  /\ link' = FALSE /\ online' = FALSE /\ refused' = FALSE
  /\ happened' = Append(happened, "disconnected")
  /\ UNCHANGED <<feedVars, streamVars, tabVars, viewers, holder, state, syncing, skipped>>

Reconnect ==
  /\ ~link /\ link' = TRUE
  /\ happened' = Append(happened, "connected")
  /\ UNCHANGED <<feedVars, streamVars, tabVars, viewers, holder, state, syncing, online, refused,
                 skipped, incidents>>

\* onEvent handles the account's events one at a time.
Handle(event) ==
  /\ ~syncing /\ holder.by # Provider
  /\ happened # <<>> /\ Head(happened) = event /\ happened' = Tail(happened)
  /\ UNCHANGED <<feedVars, streamVars, tabVars, viewers, holder, link, online, refused, skipped,
                 incidents>>

HandleDisconnected ==
  Handle("disconnected") /\ state' = "reconnecting" /\ UNCHANGED syncing

HandleConnected ==
  Handle("connected") /\ state' = "connected" /\ syncing' = TRUE

SyncNothing ==  \* a mutant: a connection that is new is told nothing
  /\ syncing /\ LockFree /\ syncing' = FALSE
  /\ UNCHANGED <<feedVars, streamVars, tabVars, viewers, holder, state, link, online, happened,
                 refused, skipped, incidents>>

\* syncOnline, the rest of the handler
Sync ==
  /\ syncing /\ LockFree /\ syncing' = FALSE
  /\ IF viewers > 0 THEN Ask(Provider, TRUE) ELSE UNCHANGED holder
  /\ UNCHANGED <<feedVars, streamVars, tabVars, viewers, state, link, online, happened, refused,
                 skipped, incidents>>

---------------------------------------------------------------------------
(* The handler of a connection                                             *)

Step(c, from, to) == handler[c] = from /\ handler' = [handler EXCEPT ![c] = to]

Frame(c, frame) == wire' = [wire EXCEPT ![c] = Append(@, frame)]

Subscribe(c) ==
  /\ Step(c, "accepted", "subscribed")
  /\ chan' = [chan EXCEPT ![c] = [open |-> TRUE, queue |-> <<>>]]
  /\ UNCHANGED <<feedVars, wire, cut, tabVars, onlineVars, incidents>>

\* WatchPresence: the first viewer shows the account as available.
WatchPresence(c) ==
  /\ LockFree /\ Step(c, "subscribed", "watching")
  /\ viewers' = viewers + 1
  /\ IF viewers = 0 THEN Ask(c, TRUE) ELSE UNCHANGED holder
  /\ UNCHANGED <<feedVars, chan, wire, cut, tabVars, state, syncing, link, online, happened, refused,
                 skipped, incidents>>

\* The first frame; a write to a lost connection ends the handler.
Ready(c) ==
  /\ holder.by # c
  /\ IF c \in cut THEN Step(c, "watching", "ending") /\ UNCHANGED wire
     ELSE Step(c, "watching", "open") /\ Frame(c, "ready")
  /\ UNCHANGED <<feedVars, chan, cut, tabVars, onlineVars, incidents>>

Forward(c) ==
  /\ handler[c] = "open" /\ chan[c].queue # <<>>
  /\ chan' = [chan EXCEPT ![c].queue = Tail(@)]
  /\ IF c \in cut THEN Step(c, "open", "ending") /\ UNCHANGED wire
     ELSE Frame(c, Head(chan[c].queue)) /\ UNCHANGED handler
  /\ UNCHANGED <<feedVars, cut, tabVars, onlineVars, incidents>>

\* The channel is closed: the tab is to connect again (1013).
Overflowed(c) ==
  /\ chan[c].queue = <<>> /\ ~chan[c].open /\ Step(c, "open", "ending")
  /\ IF c \in cut THEN UNCHANGED wire ELSE Frame(c, "close")
  /\ UNCHANGED <<feedVars, chan, cut, tabVars, onlineVars, incidents>>

NoticeWriting(c) ==  \* a mutant: only a write tells of the loss
  /\ c \in cut /\ chan[c].queue # <<>> /\ Step(c, "open", "ending")
  /\ UNCHANGED <<feedVars, chan, wire, cut, tabVars, onlineVars, incidents>>

\* ctx.Done, once the connection's reader has failed; or the ping of the heartbeat
Notice(c) ==
  /\ c \in cut /\ Step(c, "open", "ending")
  /\ UNCHANGED <<feedVars, chan, wire, cut, tabVars, onlineVars, incidents>>

\* The release that WatchPresence returned: the last one shows the account as
\* unavailable.
Release(c) ==
  /\ LockFree /\ Step(c, "ending", "released")
  /\ viewers' = viewers - 1
  /\ IF viewers = 1 THEN Ask(c, FALSE) ELSE UNCHANGED holder
  /\ skipped' = IF viewers = 1 THEN online /\ state # "connected" ELSE skipped
  /\ UNCHANGED <<feedVars, chan, wire, cut, tabVars, state, syncing, link, online, happened, refused,
                 incidents>>

Unsubscribe(c) ==
  /\ holder.by # c /\ Step(c, "released", "done")
  /\ chan' = [chan EXCEPT ![c] = NoChannel]
  /\ UNCHANGED <<feedVars, wire, cut, tabVars, onlineVars, incidents>>

---------------------------------------------------------------------------

\* The daemon stops and starts: connections and subscriptions end, what is not
\* published is never told, and the provider connects anew.
Restart ==
  /\ Incident
  /\ unpublished' = 0
  /\ handler' = [c \in Connection |-> IF c <= opened THEN "done" ELSE "none"]
  /\ chan' = [c \in Connection |-> NoChannel]
  /\ wire' = [c \in Connection |-> <<>>]
  /\ cut' = 1..opened /\ current' = 0
  /\ viewers' = 0 /\ holder' = Free /\ state' = "reconnecting" /\ syncing' = FALSE
  /\ link' = FALSE /\ online' = FALSE /\ happened' = <<>> /\ refused' = FALSE
  /\ skipped' = FALSE
  /\ UNCHANGED <<data, opened, visible, cache>>

HandlerStep(c) ==
  \/ Subscribe(c) \/ WatchPresence(c) \/ Ready(c) \/ Forward(c) \/ Overflowed(c)
  \/ Notice(c) \/ Release(c) \/ Unsubscribe(c)

\* What the daemon, the tab, the network and the provider do on their own
Progress ==
  \/ Publish \/ Connect \/ Receive \/ Flush \/ Answer \/ FetchEnds
  \/ SetOnlineReturns \/ Reconnect \/ HandleDisconnected \/ HandleConnected \/ Sync
  \/ \E c \in Connection : HandlerStep(c)

Next ==
  \/ Progress
  \/ Write \/ PublishOther \/ Fetch \/ Hide \/ Show
  \/ ConnectionLost \/ Drop \/ Restart

Spec == Init /\ [][Next]_vars

\* The goroutines, the timers and the network do not stop while there is
\* something to do: the calls have timeouts, locks are released, the tab's timers
\* fire.  Nothing is said of the order, since the steps between two writes are
\* finitely many.
FairSpec == Spec /\ WF_vars(Progress)
---------------------------------------------------------------------------
(* Properties                                                              *)

FeedTyped ==
  /\ data \in 0..incidents /\ unpublished \in 0..data
  /\ incidents \in 0..MaxIncidents

StreamsTyped ==
  /\ handler \in [Connection -> {"none", "accepted", "subscribed", "watching", "open",
                                 "ending", "released", "done"}]
  /\ \A c \in Connection : c > opened => handler[c] = "none"
  /\ chan \in [Connection -> [open : BOOLEAN, queue : Seq({"change", "other"})]]
  /\ \A c \in Connection : Len(chan[c].queue) <= Capacity
  /\ wire \in [Connection -> Seq({"ready", "change", "other", "close"})]

TabTyped ==
  /\ opened \in 0..MaxConnections /\ cut \subseteq 1..opened
  /\ current \in 0..opened /\ current \notin cut /\ visible \in BOOLEAN

Query(version) ==
  [shown : 0..version, dirty : BOOLEAN, timer : BOOLEAN, invalid : BOOLEAN,
   running : {"no", "wait", "refetch"},
   fetch : [st : {"none", "sent", "answered"}, version : 0..version]]

CacheTyped == cache \in Query(data)

\* A connection is a viewer from WatchPresence to its release.
Watching == {c \in Connection : handler[c] \in {"watching", "open", "ending"}}

OnlineTyped ==
  /\ viewers \in 0..MaxConnections /\ viewers = Cardinality(Watching)
  /\ holder \in {Free} \cup [by : 1..Provider, online : BOOLEAN]
  /\ state \in {"connected", "reconnecting"}
  /\ syncing \in BOOLEAN /\ link \in BOOLEAN /\ online \in BOOLEAN
  /\ refused \in BOOLEAN /\ skipped \in BOOLEAN
  /\ happened \in Seq({"connected", "disconnected"})

\* Every variable has its type, a connection to come has no handler, a channel
\* holds at most Capacity notifications, and presenceViewers counts the connections
\* that watch.
TypeOK == FeedTyped /\ StreamsTyped /\ TabTyped /\ CacheTyped /\ OnlineTyped

\* What the tab knows of and has not asked for yet: it has been told, or waits for
\* an older fetch.
WillAsk(q) == (q.dirty /\ (q.timer \/ q.running # "no")) \/ q.running = "wait"

\* The tab will fetch again, because ...
WillRefresh(q) ==
  \/ WillAsk(q)
  \/ q.fetch.st = "sent"                       \* ... a fetch is to be answered,
  \/ q.fetch.st = "answered" /\ q.fetch.version = data
  \/ q.invalid                                 \* ... or its last fetch failed.

\* What a connection has yet to tell
Tells(c) ==
  \/ handler[c] \in {"accepted", "subscribed", "watching"}  \* its ready tells
  \/ (ToSet(wire[c]) \cup ToSet(chan[c].queue)) \cap {"ready", "change", "close"} # {}
  \/ ~chan[c].open                                          \* the close frame is to come

WillBeTold == \/ unpublished > 0
              \/ current = 0                   \* the next ready tells
              \/ Tells(current)

\* A change is never missed: a tab that shows former data is about to fetch them,
\* or is told of the change, by a frame, by the ready of its next connection, or
\* by the closing of a subscription whose channel was full.
NoMissedChange == cache.shown < data => WillRefresh(cache) \/ WillBeTold

\* The provider's connection is up, its events are handled, and no call is under way.
Quiet == link /\ happened = <<>> /\ ~syncing /\ LockFree

\* A connected account whose events are handled is shown as available while
\* connections watch it, and as unavailable after the last one, whatever the
\* provider's connection went through, unless the provider refused the last call
\* or the last release found the account not connected and asked nothing.
OnlineFollowsViewers ==
  Quiet /\ ~refused =>
    /\ Watching # {} => online
    /\ Watching = {} /\ ~skipped => ~online

\* A tab that can connect shows what the store holds in the end, or knows that
\* its last fetch failed.
CacheCatchesUp ==
  <>[](\/ cache.shown = data \/ cache.invalid
       \/ ~visible \/ (current = 0 /\ opened = MaxConnections))

\* The handler of a lost connection ends, with its viewer and its subscription,
\* whoever holds the lock of the account's presence.
StreamsEnd ==
  \A c \in Connection : (c \in cut) ~> (handler[c] = "done")

---------------------------------------------------------------------------
(* The inductive invariants behind NoMissedChange and OnlineFollowsViewers *)

\* A query that is being fetched is invalid until an answer arrives, and an answer
\* on its way that is old by now is not the last one.
FetchInv ==
  /\ cache.fetch.st # "none" => cache.invalid
  /\ cache.fetch.st = "answered" /\ cache.fetch.version < data
       => WillAsk(cache) \/ WillBeTold

\* The provider's events, once handled, leave the state of its connection.
LinkInv ==
  /\ happened = <<>> => (link <=> state = "connected")
  /\ happened # <<>> => (link <=> Last(happened) = "connected")
  /\ syncing => state = "connected"

\* A call asks for what the viewers are, and they stay so while it lasts.
HolderInv == ~LockFree => (holder.online <=> viewers > 0)

\* What the provider shows, when nobody is about to ask it for something else
ShownInv ==
  /\ ~link => ~online
  /\ LockFree /\ ~refused /\ link /\ happened = <<>> /\ ~syncing /\ viewers > 0 => online
  /\ LockFree /\ ~refused /\ ~skipped /\ viewers = 0 => ~online

OnlineInv == LinkInv /\ HolderInv /\ ShownInv
=============================================================================
