# ConvoMeow in TLA+

ConvoMeow is a self-hosted daemon between WhatsApp (through whatsmeow) and a
web client, a CLI and an HTTP API. One Go process runs API calls, background
workers and the provider's event callbacks concurrently. They share one SQLite
database, an object store for media, and maps in memory. This directory models
the parts whose correctness depends on the order in which those things happen,
checks the models with TLC, and proves some of the results with TLAPS.

Paths below are relative to `src/internal/` unless they begin with `docs/`,
`web/` or `cmd/`.

- [Inventory](#inventory): the parts of the system
- [Plan](#plan): modules, order, theorems
- [Modules](#modules): how each corresponds to the code
- [Runs](#runs): what TLC checks, bounds, fairness
- [Proofs](#proofs): what TLAPS proves, and how
- [Findings](#findings) and [limits](#limits)

## Inventory

### How the parts interact

    web client, CLI --HTTP--> api/native/v1 --calls--> app.Service <--events-- provider session
                                                        |   |   |
                              change feed (channels) <--+   |   +--> object store (local, S3)
                              push workers --> push service |
                                                            +--> SQLite (store/sqlite)

`app.Service` owns one `runtimeAccount` per account and everything in memory.
A provider session calls `Service.onEvent` from goroutines of its own. The
handlers of one account are serialised by `rt.eventMu`; fields of the account
are guarded by `rt.mu`, which no handler holds across a database or network
call. SQLite serialises transactions. Thus a transaction, a section under
`rt.mu`, and a call of the provider or of the object store are atomic steps, and
anything can happen between two of them. That is the granularity of every
module here.

### Components

**Outgoing messages** (`app/media_send.go`, `app/service.go:479-548`,
`store/sqlite/outgoing_media.go`, `store/sqlite/messages.go`).
*State*: the message row and its state, the idempotency key (`send_keys`), the
media job and its phase, the upload; the channel `sendQueue`, the set
`sendInflight`. *Operations*: `SendTextReply`, `SendMediaReply`, the scan, the
worker's claim, upload, begin, send, complete, retry, fail; the failure of all
pending messages at logout; the provider's echo; the recovery at start.
*Hard*: two requests with one key; a crash or a failing statement on either side
of the provider's call; a logout between two steps; an echo that comes before
the result. *Correct when*: no message is sent twice, "failed" means never sent,
one key is one message, and every queued message is settled.

**Account sessions and login** (`app/service.go:221-338, 613-841`,
`providers/whatsapp/connector.go`). *State*: the identity in the database and in
memory, the session, the state shown by the API, the generation that makes old
sessions stale, the QR code, the login under way. *Operations*: `StartLogin`,
its goroutine and `finishLogin`, the event handlers, `persistIdentity`, logout,
`Start`. *Hard*: a login that overlaps the end of an earlier one, events of a
replaced session, a session that is closed while its importer waits for a mutex.
*Correct when*: memory and database agree, connected means paired, one login
runs at a time, an account's session is the one it is paired with.

**Browser push** (`app/browser_notifications.go`,
`store/sqlite/notifications.go`). *State*: subscriptions and the browser session
that owns each, revocations of signed-out sessions, jobs with attempts, lease
and expiry. *Operations*: register, delete, sign out, the jobs left by a new
incoming message, claim, check, send, finish, restart. *Hard*: a registration
that overlaps a sign-out, an endpoint that changes hands with jobs waiting, a
lease that runs out, crashes between a push and its record. *Correct when*: a
signed-out session gets nothing, a job costs at most five requests within five
minutes, and is delivered twice only when a success could not be recorded.

**Media store** (`app/media.go`, `app/uploads.go`, `store/sqlite/media.go`,
`store/sqlite/attachments.go`, `media/`). *State*: the attachment rows, uploads,
orphans, objects, the queue and the set of attachments in flight, the
reservations against the two quotas. *Operations*: the steps of a download, of
an upload and of the scan, `OpenMedia`, the merge of two copies of a message.
*Hard*: an object and its row cannot be written together; readers, workers,
scan and merges act on the same row. *Correct when*: the quota holds, ready
rows have their object, no object is forgotten, nothing readable is given up.

**Avatars** (`app/avatars.go`, `store/sqlite/avatars.go`,
`providers/whatsapp/profiles.go`). *State*: cached pictures and their objects,
the queue with its marks "queued" and "forced", one flight per picture, an epoch
per picture. *Operations*: the scan, the workers, the requests of the API, the
provider's notice of a change, logout and login, which empty the cache. *Hard*: a
fetch that ends after a logout or after the picture has changed; a full queue.
*Correct when*: a picture is stored only for the pairing and the epoch that asked
for it, each object has a record, and a mark never outlives its job.

**Change feed and event stream** (`app/notifications.go`,
`api/native/v1/events.go`, `web/src/api/realtime.ts`,
`web/src/api/realtime-cache.ts`). *State*: subscribers with a channel of 64, one
handler per connection, the tab's socket, dirty queries and fetches. *Hard*: a
full channel, a lost connection, a fetch that began before the change. *Correct
when*: the tab never keeps an answer older than the last change it was, or should
have been, told of.

**Presence and activity** (`app/presence.go`, `app/activity.go`). *State*: the
number of viewers; leases of typing indicators with limits of 256 and 32.
*Operations*: a connection begins and ends to watch, the provider connects.
*Hard*: handlers that wait for one lock around a call of up to five seconds, a
failing call, a provider that drops meanwhile. *Correct when*: an account is
online exactly while someone views it.

**Receipts, reactions, message changes** (`store/sqlite/receipts.go`,
`reactions.go`, `message_changes.go`). *State*: rows that may arrive before
their message, in any order, and under several names of chat and participant.
*Correct when*: what is shown does not depend on the order of arrival, and
everybody it concerns is told.

**Chat aliases and history import** (`store/sqlite/aliases.go`,
`store/sqlite/history.go`). *State*: the links between JIDs, conversations known
by several of them. *Hard*: two copies of a message, with keys, receipts,
attachments and jobs of their own, become one. *Correct when*: linked JIDs are one
conversation, each message has one copy, and a merge loses nothing.

**Conversations and pages** (`store/sqlite/conversations.go`, `messages.go`,
`api/native/v1/replies.go`). *State*: the last message of each conversation.
*Operations*: pages of messages in both directions and around a message. *Hard*: a
cursor that is used after messages were added, moved in time or merged. *Correct
when*: the preview is the newest message, and pages continue each other.

**Groups** (`app/groups.go`): passed through to the provider. **HTTP API, CLI,
configuration, daemon, web interface, web session, object stores, Web Push
transport**: conversion, files, network and wiring; where their outcomes matter
they are nondeterministic choices in the modules above.

`PROJECT.json` lists each part with its status and, under `hazards`, what in
this code is hard to test, at its line, with the property that covers it.

## Plan

| # | Module | Models | State |
|---|---|---|---|
| 1 | `SendPromise`, `OutgoingSend` | what is promised about a message; how it is kept | checked, proved |
| 2 | `AccountSession` | logins, events, logout, restart | checked, proved |
| 3 | `BrowserPush` | subscriptions and jobs | checked, proved |
| 4 | `MediaStore` | downloads, uploads, scan, quota, readers, merges | checked, proved |
| 5 | `AvatarCache` | queue, flights, epochs, the objects of pictures | checked, proved |
| 6 | `Conversations`, `Pages` | aliases, merges, history, receipts, reactions, changes; pages of messages over them | checked; `Conversations` proved |
| 7 | `EventStream` | feed, connections, the tab's cache and the presence of the account, in one composition | checked, proved |
| 8 | `FoldFacts` | induction over the folds of merges and history batches | proved |

`OutgoingSend` implements the abstract specification `SendPromise`. The other
modules state what they promise as properties: for `Conversations`, a function
of the set of everything that was received; for `EventStream`, that a tab which
shows former data is about to learn of it.

No module uses a RECURSIVE operator, so that all of them can be proved about. Merges
of several conversations and history batches are folds, and `FoldFacts` is the
induction that the proofs about them need.

## Modules

Common conventions. A program counter (`call[r].pc`, `worker[w].pc`, `handler`)
says how far a call, goroutine or handler is; one action is one transaction, one
section under a mutex, or one call outside. `Fault` is a failing statement or
store call; each module bounds faults, restarts and other unbounded things by a
constant whose name begins with `Max`. A definition whose comment says "a
mutant" is a plausible bug of the same action. It is never part of `Next`;
`PROJECT.json` says which property it violates.

### SendPromise and OutgoingSend

`OutgoingSend` is one account. A message is named by the call that reserved it,
since every call that creates one prepares a fresh provider ID; a payload is a
text or an upload, and the request hash is the payload.

| Code | Action |
|---|---|
| `SendTextReply`, `SendMediaReply`: lookup, read of the session, reservation | `StartSend`, `LookupSend`, `ReadSession`, `Reserve` |
| `SendTextReply`: provider call, result | `SendText`, `CompleteSend` |
| expired or deleted uploads | `DropUpload` |
| `scanMediaSends`, `queueMediaSend` | `ScanList`, `ScanQueue` |
| `mediaSendWorker`, `processMediaSend` | `Dequeue`, `ReadAccount`, `Claim`, `UploadMedia`, `StillConnected`, `BeginMediaSend`, `SendMedia`, `CompleteSendMedia`, `Finish` |
| `retryMediaSend`, `failMediaSend` | `RetryMediaSend`, `Requeue`, `FailMediaSend` |
| `onEvent` | `Connected`, `Offline`, and the logout in three steps: `LoggedOut`, `ClearIdentity`, `FailMediaSends` |
| `StartLogin`, `finishLogin`, as far as sends see them | `StartLogin`, `LoginFails` |
| the provider's echo, `saveMessageTx` | `Echo` |
| `Start`, `recoverSends` | `Restart` |

Time is left out: a job whose retry lies in the future counts as due, which
adds behaviours and hides none. `KeepsPromise` instantiates `SendPromise` with
the message states, the set of messages with a provider call, and the accepted
ones: a message is saved before it is sent, asked for at most once, "failed" is
never reached after the call, "sent" only if the provider accepted it, and
"outcome_unknown" becomes only "sent". Several messages may move in one step,
because a logout and a restart settle all of them in one statement.

### AccountSession

An attempt to log in, the session it creates and the identity it pairs share one
number. `StartLogin` does not take `eventMu`, so handlers are split where they
leave `rt.mu`.

| Code | Action |
|---|---|
| `StartLogin` under `loginMu`; avatars cleared and generation; session installed | `BeginLogin`, `NextGeneration`, `InstallSession`, `LoginRefused` |
| the login's goroutine: QR codes, return, `finishLogin` | `Challenge`, `LoginReturns`, `FinishLock`, `FinishWrite` |
| `session.Close`, which waits for the importer | `Disconnect`, `Drain` |
| the provider's side | `Pair`, `Emit`, `Unlink` |
| `onEvent` with its generation check and its cases | `Deliver`, `ReadConnected`, `WriteState`, `Forget`, `ClearIdentity` |
| `persistIdentity`, in database and memory | `SaveIdentity`, `Remember` |
| `Start` and its `session.Connect` | `Restart`, `Restored` |

`hasty` records the accounts with a login that began before the one before had
ended. The two properties about whose session an account has are stated for the
others, because the code breaks them for those (finding 2).

### BrowserPush

| Code | Action |
|---|---|
| `SaveSubscription`, `DeleteSubscription` | same names |
| `DELETE /app/session`: revocation and deletion in one transaction | `SignOut` |
| a cookie that expires, or whose access token was replaced | `Expire` |
| `SaveIncomingMessage` leaves a job per subscription | `SaveIncomingMessage` |
| `ClaimNotification`: purge, choose the job due first, count, lease | `ClaimNotification` (`Outdated`, `Useful`, `Keep`, `Due` are its queries) |
| `deliverNotification`: reads, `Sender.Send`, 404/410, retry times | `Check`, `Send`, `Gone`, `NextTry` |
| `FinishNotification` | same name |
| daemon restart, clock | `Restart`, `Tick` |

The clock's unit is open. What counts is the order of the three durations: a
delivery (15 s) is over before its lease (30 s), both long before the job
(5 min). A subscription is only known by its endpoint; keys, locale and preview
are data.

### MediaStore

A file counts 1 against the quotas. An object's key is the ID it was stored for.

| Code | Action |
|---|---|
| `queueMedia`, `mediaWorker`, `processMedia` | `QueueMedia`, `Dequeue`, `ReadMedia`, `DownloadMedia`, `UpdateMediaRef`, `ReserveMediaStorage`, `PutMedia`, `MarkMediaReady`, `CheckMedia`, `DeleteMedia`, `Record`, `Finish` |
| `CreateUpload`, `discardUpload` | `StageUpload`, `ReserveUpload`, `InsertUpload`, `PutUpload`, `MarkUploadReady`, `DiscardUpload`, `ReleaseUpload` |
| the send that takes an upload; its deletion | `UseUpload`, `DeleteUpload` |
| the scan: pending downloads, expired uploads, orphans | `ListPendingMedia`, `ScanQueue`, `ListUploadsForCleanup`, `DeleteObject`, `ClearRecord`, `ScanNext` |
| `OpenMedia` | `GetMedia`, `OpenObject`, `MarkMediaRemote`, `MarkMediaUnavailable`, `Fetch` |
| `saveAttachmentsTx`, `mergeAttachmentsTx` | `SaveAttachment`, `MergeAttachments` |
| the world | `LoseObject`, `Due`, `Connection`, `Restart` |

Abstractions: the staging reservation is one step with `GetMedia`; the outcomes
that end in "too large" are one; tries stop counting at `MaxTries`; dimensions
and type detection are left out; an upload in `staging` for over an hour is
taken to be one whose call has ended; avatars, which share the quota, are left
out; a merge needs both rows.

### AvatarCache

The pictures of one account. A change at the provider has a number, the
picture's version; a row remembers the version it shows and the pairing it was
fetched under, which the code does not store and the properties are about. An
object gets a key that nothing has, as a UUID is.

| Code | Action |
|---|---|
| `startAvatarWorkers`: the scan in steps of one contact, jobs, pacing | `StartScan`, `ScanContact`, `Take`, `Pop` |
| `queueAvatar` | `Enqueue`; `OtherJob` is another account's |
| `Avatar`, `refreshAvatar` with its flight | `Request`, `Join`, `Land` |
| `fetchAndStoreAvatar` | `ReadSession`, `ReadEpoch`, `ReadRecord`, `Fetch`, `Touch`, `Refetch` |
| `saveMissingAvatar`, `readAvatar`, `saveAvatar` | `Missing`, `Reread`, `Put`, `Save`, `Undo` |
| the provider's change and its notice in `onEvent` | `Change`, `NoticeChanged`, `NoticeRemoved`, `Profile` |
| logout and login, as far as the cache sees them | `LoggedOut`, `ClearLoggedOut`, `ForgetIdentity`, `StartLogin`, `NewSession`, `Paired`, `Connect`, `Disconnect` |
| orphans, restart, time | `CleanOrphan`, `Restart`, `Age`, `Vanish` |

### Conversations and Pages

The database of one account is one variable of tables, each a set of records.
Every write of the code is one transaction, so each is an operator from database
to database with the name it has in the code (`EnsureConversation`,
`MergeConversation`, `SaveMessageTx`, `SaveReceipt`, `ImportHistory`, ...), and a
step applies one of them and tells the clients which conversations changed.
`reads` are the calls of `SendReadReceipts` under way. Three variables are history:
`received` is what was taken in so far, `stale` what a client shows that is out
of date although it fetches again everything it is told of, and `untold` where a
mark was recorded by a call that names another conversation.

| Code | Action |
|---|---|
| `onEvent`: messages, reactions, receipts, changes, profiles, history | `ReceiveMessage`, `ReceiveReaction`, `ReceiveReceipt`, `ReceiveChange`, `ReceiveProfile`, `ReceiveHistory` |
| `SendTextReply`: reservation and result | `Reserve`, `Complete` |
| `SendReadReceipts`: the checks; the provider's answer and its record; the notification | `BeginRead`, `RecordRead`, `EndRead` |
| `CreateConversation` | `CreateConversation` |

`Pages` adds no state: `OlderPage`, `NewerPage` and `PageAround` are the pages the
API makes of a conversation (`writeMessagesPage`, `messageWindow`) with the
cursors they carry, and `PagesMeet` compares a page read before a step with its
neighbours read after it.

Abstractions: JIDs are numbers in the order of their strings; row numbers stand
for IDs and local orders, and a free one is used again; texts, names, replies and
attachments are data (`MediaStore` has the merge of attachments).
A transaction and the notification that follows it are one step: a merge that comes
in between tells of every conversation itself, after both, and `EventStream` has the
delay. A call of `SendReadReceipts` is for one message; one for several is that many
calls, since what it reads of them changes nothing, and it may name its
conversation for a message it did not record (`EndRead`). Anything may happen while
the provider is asked. A row that a merge moved keeps its public ID, and the mark
is recorded where it is now; one that was dropped for another copy makes the record
fail, which the API reports. A call that a restart ends is told of by the "ready"
frame of the next connection (`EventStream`), so `Conversations` has no restart. The
aliases a history batch names make one conversation and leave participants
separate, as in the code.

### EventStream

The composition of the feed, the connections that carry it, the cache of a tab
that reads it, and the presence that the connections ask for.

| Code | Action |
|---|---|
| a handler commits and publishes | `Write`, `Publish`; `PublishOther` is a notification the tab's query is not affected by |
| `Server.events` | `Subscribe`, `WatchPresence`, `Ready`, `Forward`, `Overflowed`, `Notice`, `Release`, `Unsubscribe` |
| `connectRealtime` | `Connect`, `Receive`, `Hide`, `Show` |
| `createRealtimeCache` | `Receive`, `Flush`; `Answer`, `FetchEnds` are the query's fetch, `Fetch` the user's retry |
| `setOnlineLocked`, `syncOnline` | `Ask`, `SetOnlineReturns`, `Sync` |
| the provider's events | `Drop`, `Reconnect`, `HandleDisconnected`, `HandleConnected` |
| `Close`, `Start` | `Restart` |

The mutex `presenceMu` is held across the provider's call, so it is a variable
(`holder`), and a connection that begins waits for one that ends. One budget,
`MaxIncidents`, is shared by writes, other notifications, losses, failing calls
and restarts. The closing of a stream whose browser session expired is left out.

## Runs

All but `conversations` and `event_stream` switch off the deadlock check, because
their instances stop in earnest: calls, messages, faults and restarts run out.
In the other two somebody can always go on, repeat an event or hide the tab.

| Run | Instance | What it shows | States |
|---|---|---|---|
| `send` | 2 requests over 2 keys, 1 upload and 1 text; 1 worker, queue of 1, 2 attempts, 2 sessions, 1 restart, 1 fault | no duplicate provider call, one message per key, answers belong to their request, `SendPromise` is implemented | 3.1 M |
| `send_live` | 2 uploads, no text, 1 session, 1 restart, no fault, `FairSpec` | while the account stays connected every media message is settled | 1.2 M |
| `send_logout` | 1 request, 1 upload, `FairSpec` | finding 1 | |
| `account` | 2 accounts, 2 attempts, 1 provider event, 1 restart, 1 fault | memory and database agree; connected means paired; one login at a time, with its own QR code; nobody is stuck; session and identity belong together, and only current events count | 2.0 M |
| `account_race` | 1 account, 2 attempts | finding 2 | |
| `push` | 2 sessions, 1 endpoint, 1 message, 2 workers, 2 attempts, clock up to 7, 1 restart, 1 fault | attempts are bounded, none comes after the lifetime of its notification, repeats are excused, a signed-out session owns nothing, jobs follow their owner, no job is left | 1.2 M |
| `media` | 1 attachment, 1 upload, 1 worker, 2 readers, quota of 1 file, two of: 1 fault, 1 restart, 1 move | the quota holds and reservations are returned once on every path, usable uploads have their object, no object is forgotten, a stale report of a missing object never gives up a stored one | 3.8 M |
| `media_twins` | 2 copies of a message that may be merged, 2 workers, queue of 1, late references, 1 fault, `FairSpec` | a ready row has its object through any merge; downloads end | 0.5 M |
| `media_merge` | 2 copies, 2 workers | finding 3 | |
| `avatars` | 1 picture, 1 worker, 1 request, queue of 1 shared with another account, 2 pairings, 1 change, 1 aging, 1 fault | no picture of another pairing, none older than the last notice, no forgotten object, no mark without a job | 5.6 M |
| `conversations` | 3 JIDs (two names of a contact, a group), 14 events: 3 live messages, 1 send and its result, 2 history batches, marks that contradict each other; 2 calls of `SendReadReceipts` at a time | aliases are closed, one copy of each message, merges keep keys and marks, marks converge, the preview is the newest, clients are told, pages meet | 128 k |
| `event_stream` | 2 connections, a channel of 1, 2 incidents, `FairSpec` | no change is missed, the tab catches up, handlers of lost connections end, online follows the viewers through losses of the provider | 0.5 M |

The type invariants of `OutgoingSend`, `BrowserPush` and `AvatarCache`, and `FailedNotAsked`,
`UploadSentOnce` and the inductive invariants, are theorems and need
no run of their own.

### Why the bounds are enough

- *Two of what competes.* Two requests can share a key, an upload, both or
  neither; two logins overlap in every way the code allows; two push workers and
  an endpoint with two owners; two copies of a message. The properties relate at
  most two of them at a time, and a third one has no table, lock or channel that
  the second has not.
- *A queue of one* makes the full queue, and with it the fallback to the scan,
  an ordinary case. *Two attempts* give a first, a retried and a last one.
- *One fault and one crash* at any step. Recovery and retry start from the
  database, and the next fault meets them in a state that another schedule
  reaches with one.
- *The clock of `push`*: a timeout of 2, a lease of 3 and a lifetime of 6 let a
  delivery be late while its lease still holds, a lease run out and the job be
  claimed again, and a job expire in between. `RetryAfter` has a value on each
  side of the backoff.
- *A quota of one file* for one download and one upload makes each the other's
  obstacle.
- *Two connections and two incidents* in `event_stream` are what it takes for the
  handler of a lost connection to run beside the next one while something else
  goes wrong: a write between the loss and the next ready, a full channel, a
  failing call, a restart. With three connections the safety properties were
  checked as well (6.4 M states) and held.
- *Events of `conversations`* repeat without limit. Each pair was chosen because
  its order matters: the same message under two names, live and in history; two
  reactions of one second; an edit before and after a revocation; receipts of one
  participant under two names; a send whose echo comes before its answer and
  moves it in time; a link that arrives first, last or in a profile; two calls that
  mark one message under two names while any of this happens. `PagesMeet`
  takes every page size from 1 to 3 and every message as a centre.
- *One picture, one worker and one request* meet in a flight in every way; the
  job of another account makes the queue full.
- *One move* is one replay of history, one lost connection or one lost object. With a
  fault, a restart and a move in one behaviour, `media` was checked as well (6.5 M
  states) and held.

The properties that are proved, for every value of the constants, do not rest on
these arguments. The safety properties that do rest on them are listed under "Only
model-checked".

### Fairness

Nothing forces a user, the provider, a failing statement or a crash to act.
- `OutgoingSend`: weak fairness for each worker, both halves of the scan (a
  ticker), and the rest of a logout handler that has begun. `MediaSettles`
  assumes that the account stays connected, since workers skip it otherwise.
- `MediaStore`: the goroutines of downloads, uploads and scan; the time of a
  retry comes; whatsmeow reconnects a disconnected account.
- `EventStream`: weak fairness of `Progress` as a whole: what the daemon, the tab,
  the network and the provider do on their own does not stop while something of
  it can be done. Each call has a timeout, the heartbeat finds a lost connection,
  and the timers of the tab fire. The incidents, the user's `Fetch`, and hiding
  and showing the tab are not forced. A tab whose connections are used up is
  excused in `CacheCatchesUp`.

`AccountSession` and `BrowserPush` state the same kind of progress as invariants:
`NobodyIsStuck` (while a login or a handler is under way, some step of the daemon
is enabled) and `NoJobIsLeft` (where none is, no job is queued). In both the steps
of the daemon between two steps of anybody else are finitely many, so that a
daemon that goes on while it can comes to the end.

### Mutants

Every property of every passing run has a mutant in `PROJECT.json`: a change of
one action such as a dropped guard (`ReserveUnlooked`, `SavedUnchecked`,
`DeliverStale`, `SaveAnyEpoch`), a missing reset (`FinishSameGen`, `FinishQueued`,
`ForgetsDirty`), the wrong order or section (`FinishLocked`, `OlderByTime`), a
restart that resends (`RestartResends`), a claim without a lease
(`ClaimUnleased`), a merge that renames receipts and forgets reactions
(`MergeReceiptsOnly`), a full channel that drops what it cannot hold
(`PublishedOrDropped`). With it the run finds the property violated.

## Proofs

The proofs hold for every set of accounts, requests, uploads, workers, readers,
sessions, endpoints, messages, attachments and contacts, every number of attempts
and connections, every size of a queue, a channel and a quota. They assume only the
`ASSUME`s of the modules, which TLC evaluates in the runs:
- `SendAssumption`, `AccountAssumption`, `EventStreamAssumption`: the numbers are
  natural, and `None` is nobody.
- `PushAssumption`: a delivery's timeout is shorter than its lease, as 15 s and
  30 s are, and the workers are finitely many; `BackoffAssumption`: powers of two
  are natural numbers, which the provers do not know.
- `MediaAssumption` and `AvatarAssumption`: what is counted is finite, no
  attachment is its own copy, and contacts are numbered in the order of the scan.
- `ConversationsAssumption`: JIDs and events are finitely many, and JIDs are numbered
  in the order of their strings. `EventsAssumption`: what the adapter makes of the
  provider's events; a batch without a chat has no messages (`ErrInvalid`), and the
  messages of a batch are its chat's.

The argument is the same everywhere. A property by itself is not kept by every
step, because it does not say what the actors that are halfway know. The module
ends with an inductive invariant that says it; TLC checked it on the module's
instance before it was proved. Each part of it has a lemma with one step per
action that can disturb it, and frame lemmas name the variables that all other
actions leave alone.

### OutgoingSend_proofs

| Theorem | Property |
|---|---|
| `TypeCorrect` | `TypeOK` |
| `SendInvHolds` | `SendInv` |
| `AskedAtMostOnce` | `AtMostOnce` |
| `FailedMeansNotAsked` | `FailedNotAsked` |
| `KeyIsUnique` | `OneMessagePerKey` |
| `UploadIsUnique` | `UploadSentOnce` |
| `ImplementsPromise` | `KeepsPromise` |
| `AnswersMatch` | `AnswerMatches` |

None of these is inductive. That a message is asked for once, for instance, says
nothing about a worker that is about to ask. `SendInv` adds the missing facts:
- `ReservationInv`: a call that has not reserved leaves no trace; a message owns
  its key and its upload. This gives uniqueness.
- `MessageInv`: what each state of a message and of its job says about calls
  made and accepted. A job in "queued" or "uploading" means no call.
- `TextInv`: a text call between reservation and result was not sent by anyone
  else; an echo may already have settled it.
- `WorkerInv`: a worker that claimed a job is alone with it, and a worker at
  "send" has "sending", or no row at all when a logout took it, with no call
  made.

The proof has a lemma per action that disturbs more than its own program
counter, and frame lemmas for the rest. The refinement shows that each message
stutters, is saved, asked for or settled in every step (`StepMoves`), with
`SendInv` for the conditions of those moves. `AnswersMatch` adds `AnswerInv`: a key
stands for a call that named it and keeps standing for it, and a call that is not
done has no answer yet.

### BrowserPush_proofs

| Theorem | Property |
|---|---|
| `PushInvHolds` | `TypeOK` and `PushInv` |
| `SignedOutIsSilent` | `SignedOutOwnsNothing` |
| `JobsKeepOwner` | `JobsFollowOwner` |
| `AttemptsBounded` | `AttemptsAreBounded` |
| `RepeatsExcused` | `RepeatsAreExcused` |
| `AskedBeforeEnd` | `AskedInTime` |

`PushInv` has four parts:
- `OwnerInv`: a session that signed out is remembered while its cookie is valid,
  owns no subscription, and each job has a subscription with the same owner.
  The type of a job's owner needs it, so both are shown together.
- `LeaseInv`: while a delivery is in time, its job is not due, hence not claimed
  by another worker. This is where the timeout must be shorter than the lease.
- `AttemptInv`: the requests made, and those of workers about to make one, never
  exceed the attempts counted in the job. The count survives a crash because it
  is written before the request.
- `DeliveryInv`: the deliveries accepted are those whose record was lost
  (`excused`), those of workers about to record, and one more once the job is
  closed.

The last two count workers, so they need that there are finitely many; `CountMove`
says what happens to such a count when one worker moves.

### AccountSession_proofs

| Theorem | Property |
|---|---|
| `SessionInvHolds` | `TypeOK` and `SessionInv` |
| `LoginsAreSingle` | `LoginInv` |
| `MemoryIsDatabase` | `MemoryMatchesDatabase` |
| `ConnectedHasSession` | `ConnectedIsPaired` |
| `SessionIsOwn` | `SessionOwnsIdentity` |
| `EventsOfCurrentSession` | `EventsAreCurrent` |

`SessionInv` has three layers:
- `OwnerInv` and `ActiveInv`: whatever an account, its session or its handler
  names is an attempt of that account, and the running attempt is the one that
  `activeLogin` stands for.
- `IdentityInv` and `ConnectedInv`: what a handler between two sections of `rt.mu`
  has already written or seen. `persistIdentity` and the logout write the database
  and the memory at different times, so `MemoryMatchesDatabase` alone is not kept.
- `GenerationInv`, `StaleInv`, `InstallInv` and `HandlerInv`: why the generation
  check of `onEvent` is enough. Of all sessions that can still send events, only the
  installed one has the account's generation; a login installs its session while
  the account has none; and a handler that passed the check acts for that session,
  because nobody replaces it while `eventMu` is held. The last three are stated
  for accounts that are not in `hasty`, and finding 2 is what happens to the others.

### MediaStore_proofs

| Theorem | Property |
|---|---|
| `TypesHold` | `TypeOK` |
| `RoomStaysKept` | `RoomIsKept` |
| `ReadyRowsHaveObjects` | `ReadyHasObject` |
| `UploadsHaveObjects` | `UploadHasObject` |
| `LeaksAreOfMergedCopies` | an object is of a row, of an upload that has its record, or of a merged row |
| `NothingLeaksUnmerged` | `NothingLeaks`, where `Twins = {}` |
| `FilesGoByReaders` | a stored file goes only by a reader that found it missing and its row without a reference, where `Twins = {}` |
| `AttachmentsAreKept` | `StoredIsKept` of the attachments, where `Twins = {}` and `~LateRefs` |
| `StoredIsKeptUnmerged` | `StoredIsKept`, where also `Upload = {}` |

Two invariants carry the first four, one about the files and one about the quota:
- `StoreInv`: an attachment in flight is queued once or held by one worker
  (`QueueInv`); a stored file has one row, the one it was stored for or the copy
  that took it over (`KeyInv`); what waits in `media_orphans` belongs to no row
  (`OrphanInv`); the call of an upload follows its state (`UploadInv`); the scan
  removes only what is on its way out (`ScanInv`); and a worker that may remove
  its object knows that no row has it, one that may mark it ready has stored it
  (`DownloadInv`). With merges and deletions between any two of these steps, this is
  what it takes for a ready row to have its object.
- `QuotaInv`: each reservation is made once (`ReservedInv`), the counters are the
  reservations that somebody holds (`ReservationsMatch`), and there is room for what
  they are still to be used for (`RoomInv`). It is about cardinalities; `CountOne` and
  `CountLess` say how one grows or shrinks when one actor moves.

`NothingLeaks` and `StoredIsKept` fail once copies are merged (finding 3 and the remarks
after it), so that what is proved of them says which hypothesis they need, the one
`media` has, and what is left without it:
- `KnownObjects` needs no hypothesis: an object has a row or the record of its upload.
  A record goes only after its object, or when the message takes both; a row never
  goes, but it may become a merged one, and its object is then known to nobody
  unless it was made an orphan. Without merges that does not happen (`NoneMerged`).
- `UnavailableInv`: while a worker is about to have its attachment marked unavailable,
  no row has that file, because nobody but this worker could have stored it.
- `MissingInv`: while the row has the version that a reader read, the object that the
  reader missed is still missing. It rests on `RowsGrowStep`: a row that gets a file
  again gets a greater version. A row that is marked unavailable keeps its version;
  it takes a download to be ready again, and that counts.
- What remains is `MarkMediaUnavailable` by a reader whose row had no reference
  (`app/media.go:398`), which looks at neither. An attachment whose messages come with
  their references has no such reader (`RefInv`). The row of an upload has no
  reference until its message comes back from the provider: if the object is lost, one
  reader misses it, the message comes back, and another reader has it downloaded, then
  the first one gives up a stored file. Two things from outside have to happen for
  this, and `media` allows one (`MaxMoves = 1`); with two TLC shows it.

### AvatarCache_proofs

| Theorem | Property |
|---|---|
| `TypesHold` | `TypeOK` |
| `NoForeignPicture` | `NoForeignAvatar` |
| `ObjectsAreAccountedFor` | `NothingLeaks` |
| `MarksHaveJobs` | `MarkedIsQueued` |
| `NoStalePicture` | `NoStaleWrite` |

`CacheInv` joins what each property needs:
- `AccountInv` and `OwnerInv`: the cache is that of the identity in the database, and
  a login has none. It is emptied twice, in the logout and by `StartLogin`; the second
  time is the one that counts, because the first may fail. In between no session
  is there to save under.
- `KeyInv`: an object has one owner, a row, an upload under way or `media_orphans`.
  With it `NothingLeaks` is kept by the steps that hand an object over.
- `ToldInv` and `FlightInv`: what a flight has fetched is as new as the last notice,
  or the picture's epoch has moved on since the flight read it. The epoch is read
  before the fetch, which is what the proof needs and what the code does.
- `MarkedIsQueued` is inductive by itself.

### EventStream_proofs

| Theorem | Property |
|---|---|
| `TypesHold` | `TypeOK` |
| `OnlineIsViewers` | `OnlineFollowsViewers` |
| `ChangesAreNotMissed` | `NoMissedChange` |

- `FetchInv`: a fetch under way keeps its query invalid, and an answer that is old
  by the time it arrives is not the last one. A tab that shows former data then has
  something that makes it ask again.
- `OnlineInv`: the state of the connection is what the last event not yet handled
  says (`LinkInv`); the call that holds `presenceMu` asks for what the viewers are,
  and they stay so while it lasts (`HolderInv`); and what the provider shows when nobody
  is about to ask (`ShownInv`). The number of viewers is the number of connections
  between `WatchPresence` and `Release`. Two cases are left out of `OnlineFollowsViewers`
  because the code does not settle them: the provider refused the last call
  (`refused`; it is logged and not repeated), and the last release found an account
  that is shown as available but not known as connected (`skipped`, see the findings).

### Conversations_proofs and FoldFacts

| Theorem | Property |
|---|---|
| `ConvInvHolds` | `ConvInv` |
| `TablesAreOK` | `TablesOK` |
| `OneCopyHolds` | `OneCopy` |
| `MergeKeepsHolds` | `MergeKeeps` |
| `MarksConvergeHolds` | `MarksConverge` |
| `LastIsNewestHolds` | `LastIsNewest`, for events with `OwnStayInChat` |
| `ClientsCatchUpHolds` | `ClientsCatchUp`, for events with `OwnStayInChat` |
| `FoldInduction` | what the base of a fold has and each step keeps, the result has |

`ConvInv` says of the tables and of everything received, `Held(db, received)`:
- `TablesTyped`, `RowsTyped`, `KeysTyped`: the tables' forms and keys. A row is the only
  one of its number and the only one of its provider id in its conversation, and an
  outbound one the only one in the account. A key leads to an outbound row: that is why
  a merge, which prefers the copy that has a key, never has two of them to choose from.
  A number of a conversation is taken only after the ones before it.
- `LinksHeld`, `AliasesHeld`: the links are those received, and two chats share a
  conversation exactly when links or a batch's aliases lead from one to the other.
  `TablesOK` says so of conversations that exist; a chat that was only linked has none
  yet, and the merge that a later message starts relies on it.
- `RowsHeld`: each row is of a message that was received or reserved, in the
  conversation of its chat. `OneCopy` is the converse; without it, a merge could not
  know that the copy which stays is the same message.
- `SeenHeld`: a row's mark as read is the least of those received under any name of its
  chat, and 0 when there is none.
- `MarksKept`: the tables of reactions, receipts and changes are the winners, the
  earliest times and the set of everything received, as if each had come after all
  the links there are. `MarksConverge` speaks of messages that are there; a mark that
  came before its message, or under a name that gets linked later, is in the tables
  too.

Most of the proof is about one merge: which copy stays (`OneStays`), that it has the
keys, the order and the marks of the others (`CopiesMerge`, `KeysStay`), and that
nobody else's row changed (`MergeConversationMerges`). A transaction takes in many
things, so `Held` is stated of any database and any set of facts; each operator of
the module has a lemma that takes it from `H` to `H` and the new fact
(`EnsureHeld`, `AddLinkHeld`, `SaveMessageTxHeld`, ...), and a history batch is their
composition.

A merge of several conversations and each of the five lists of a batch is a fold.
The invariant of an induction is an operator, which the provers cannot be given
as a parameter of a lemma. It is a constant of `FoldFacts` instead, so that each fold has
an instance of the module with its own step and invariant (`Merges`, `InLinks`,
`InMessages`, `InChanges`, `InReactions`, `InReceipts`); the induction itself is over
the sets below a finite set, with the library's facts about well-founded relations.

`MarksKept` says that taking marks in commutes with choosing among them. Two sets of
reactions have the same winners when each one of either is in the other or beaten
there (`Tops`, `WinnersSame`), and two sets of receipts the same earliest times when
each has something as early as the other has (`Covers`, `EarliestSame`); choosing,
adding one and renaming participants keep both. That is why it is enough that
a link renames the rows of the participants it concerns (`NamesFollow`), and why
`reactionOrder` has to be a strict order (`WinsOrders`).

`LastIsNewest` is not kept by every transaction one by one: inside of one a
conversation is out of date until `refreshConversationTx`. `Touches` says which
one it is, and every operator has a lemma that all others keep their newest row.
It needs `OwnStayInChat`: a batch that carries an echo of a message which was
queued in a conversation the batch does not name changes that row, and refreshes
only its own conversation. `MCConversations` states `OwnStayInChat` as an `ASSUME`, so
that TLC evaluates it for the events of the run.

`ClientsCatchUp` says that what a client shows is out of date only where a call of
`SendReadReceipts` has recorded a mark and is about to tell of it (`Owed`), or told of
another conversation (`untold`, see the findings). It is proved by what each transaction
changes of what is shown.
`ShownSame(d, e, c)` says that `c` has the same names, rows, preview and marks in two
databases, which is all that a read of it depends on (`ShownSameIsSeen`), and
`OnlyIn(d, e, C)` that only conversations in `C` do not. Each operator has a lemma with
the `C` that its step tells of (`SaveMessageOnly`, `ReserveOnly`, `SaveReactionOnly`
and so on). The case to argue about is a reaction or receipt whose participant's names
were linked before: it takes the link again, renames participants, ensures the
conversation of a participant's chat and refreshes it, and tells of the chat's
conversation at most. None of that shows: the links reach no further than they did
(`LinkedAlready`), the marks have the names they had because `MarksKept` says what they
are (`LinkedDbSame`), linked names share a conversation, so that none is merged
(`LinkedShare`, `EnsureOnly`), and the preview was the newest row (`RefreshIdle`). The
last is why this rests on `NewestInv`, and so on `OwnStayInChat`, too.

### Only model-checked

- Liveness (`MediaSettles`, `DownloadsEnd`, `CacheCatchesUp`, `StreamsEnd`) and the
  invariants with ENABLED (`NobodyIsStuck`, `NoJobIsLeft`), which are out of the
  prover's reach.
- `StoredIsKept` of `MediaStore` with uploads beside the attachments, under the bounds of
  `media`: the attachments' part is a theorem, the uploads' is false beyond them.
- `PagesMeet` of `Pages`: a statement about what
  a client keeps of its reads, whose proofs would go on from `ConvInv`.

## Findings

1. **A message queued during a logout stays queued** (`send_logout`,
   `app/service.go:731`). `SendMediaReply` reads the account's state, the logout
   fails the pending messages, then the reservation inserts one more. Workers
   skip it while nobody logs in, so the polling that `docs/api/usage.md:17`
   prescribes does not end.
2. **A login can replace the session of a paired account** (`account_race`,
   `app/service.go:261`). The test for "account already paired" is read once;
   `finishLogin` lets the next login start before it has stored its own pairing.
3. **A stale failure gives up a stored file** (`media_merge`,
   `store/sqlite/media.go:97`). `MarkMediaUnavailable` checks neither the version
   nor the state of the row, unlike `MarkMediaRemote`. A worker whose download
   failed clears a file that a merge has given to the row in the meantime.

### Seen without a run of their own

- A reader that read a row without reference reports it after the file came
  (`app/media.go:398`), which ends as finding 3 does. And a merge that takes a row
  during its download makes the read in `CheckMedia` fail, so that the object is
  kept with no record (`app/media.go:290-291`); hence `media` has no merges.
- The forced refresh of a changed picture joins a flight that is under way
  (`app/avatars.go:297`). That flight has the former picture, or is refused by
  its epoch; no job is left, and a row that was checked lately keeps the former
  picture until it is due, against `docs/api/usage.md:27`. `NoStaleWrite` holds
  nevertheless: what is stored after the notice is new.
- `CreateConversation` links the names of a contact (`app/service.go:355`), which
  may join receipts in groups, and notifies the direct conversation only
  (`docs/api/realtime.md:31` promises it for receipt changes). `ClientsCatchUp`
  excludes those links.
- A mark as read is told to a conversation that is gone (`app/receipts.go:121`).
  `SendReadReceipts` reads the conversation, waits for the provider, records by
  message ID and names the conversation it read. If that was merged into an older one
  in between (`BeginRead`, a link or a batch, `RecordRead`, `EndRead`), the mark is
  saved there and nobody is told: `affected` (`realtime-cache.ts:46-53`) matches by the
  ID in the notification, and "Notifications follow saved resource changes"
  (`docs/api/realtime.md:25`). Without `untold` in `ClientsCatchUp`, TLC shows it in
  seven states. `ClientsCatchUp` leaves out just these marks.
- The account stays available after the last viewer (`app/presence.go:85`). The
  provider drops and comes back while its events wait. A viewer that begins sets the
  account online on the new connection; the old "disconnected" is handled; the last
  release asks nothing, since the state is "reconnecting"; and "connected" finds no
  viewer, against "the last disconnect marks the account unavailable"
  (`docs/api/realtime.md:37`). `OnlineFollowsViewers` leaves out just these releases
  (`skipped`), and calls that the provider refused (`refused`), which are logged and
  not repeated.

## Limits

Not modelled: the pages of the list of conversations and of contacts, and search;
the user's own reactions, edits and deletions (a provider call and then the
transaction that `ReceiveReaction` and `ReceiveChange` have); the leases of typing
clients (`app/activity.go`); the close of a stream at the end of its browser
session. In `Conversations`, a history batch whose echo confirms a message that
was queued in a conversation the batch does not name leaves that conversation's
preview to the next write; no event of the instance does so.

Not modelled on purpose: groups (requests pass through and the service keeps no
state), the CLI, configuration,
HTTP decoding, rendering, encryption of pushes, file and S3 details, and the
content of messages. The provider's own device store is one value with its
session, so a crash between the removal of a device and `ClearIdentity` is listed
as a hazard without a property. The identity under which a media message was
reserved is not carried either, in the code or in the model.
