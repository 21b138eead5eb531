---------------------------- MODULE AvatarCache ----------------------------
(***************************************************************************)
(* The cache of profile pictures of one account (app/avatars.go,           *)
(* store/sqlite/avatars.go): the scan that queues what is due, the two     *)
(* workers, the requests of the API, the single flight per picture, the    *)
(* provider's notice of a change, and logout and login, which empty it.    *)
(*                                                                         *)
(* Every change of a picture at the provider has a number, the picture's   *)
(* version.  A row remembers the version it shows and the pairing it was   *)
(* fetched under; the code stores neither, the properties are about them.  *)
(* Age stands for the 24 hours (6 for a missing picture) after which a row *)
(* is due.  A session has the number of the pairing it belongs to.         *)
(***************************************************************************)
EXTENDS Integers, Sequences, FiniteSets

CONSTANTS Contact,     \* 0..n-1: the order of scanAccountAvatars
          Worker,      \* the goroutines of startAvatarWorkers
          Reader,      \* requests of the API
          QueueSize,   \* capacity of avatars.queue
          MaxChanges,  \* bound on the changes of pictures
          MaxPairings, \* bound on the pairings
          MaxAges,     \* bound on the rows that become due by the passage of time
          MaxFaults,   \* bound on failing calls, lost objects and restarts
          None

ASSUME AvatarAssumption ==
  /\ IsFiniteSet(Contact) /\ Contact # {} /\ Contact = 0..(Cardinality(Contact) - 1)
  /\ IsFiniteSet(Worker) /\ IsFiniteSet(Reader)
  /\ Worker \cap Reader = {} /\ None \notin Contact \cup Worker \cup Reader
  /\ QueueSize \in Nat \ {0} /\ MaxChanges \in Nat /\ MaxPairings \in Nat \ {0}
  /\ MaxAges \in Nat /\ MaxFaults \in Nat

VARIABLES
  changes,          \* the provider: the number of changes of pictures,
  version, shown,   \* a picture's version, and whether there is one
  notices,          \* the provider's notices of changes that wait for onEvent
  told,             \* history: the newest version a notice was handled for
  rows,             \* table avatars
  objects, orphans, \* the store's avatar objects, and table media_orphans
  lost,             \* history: objects whose removal failed or was cut off
  queue, queued, forced, epoch, flight,   \* avatarState
  scans, scan, next,                      \* the scan's request, position and resume point
  caller,           \* workers and readers, and how far each one is
  handler,          \* what holds rt.eventMu and how far it is
  login,            \* StartLogin has emptied the cache and makes a session
  identity, dbIdentity, session, online,  \* the account: memory, row, rt.session, state
  pairings, ages, faults

cacheVars == <<rows, objects, orphans, lost>>
queueVars == <<queue, queued, forced>>
scanVars  == <<scans, scan, next>>
acctVars  == <<login, identity, dbIdentity, session, online, pairings, ages>>
remoteVars == <<changes, version, shown, notices>>
vars == <<remoteVars, told, cacheVars, queueVars, epoch, flight, scanVars, caller,
          handler, acctVars, faults>>

Caller  == Worker \cup Reader
Version == 0..MaxChanges
Key     == Nat \ {0}
NoRow   == [key |-> 0, version |-> 0, due |-> TRUE, by |-> 0]
Row     == [key : Key \cup {0}, version : Version, due : BOOLEAN, by : 0..MaxPairings]
PC      == {"idle", "paced", "join", "wait", "session", "epoch", "record", "fetch",
            "missing", "reread", "touch", "refetch", "put", "save", "undo", "end"}
Idle    == [pc |-> "idle", on |-> 0, as |-> 0, epoch |-> 0, row |-> NoRow,
            version |-> 0, key |-> 0]
Free    == [pc |-> "free", on |-> 0]

Init ==
  /\ changes = 0 /\ version = [c \in Contact |-> 0] /\ shown \in [Contact -> BOOLEAN]
  /\ notices = <<>> /\ told = [c \in Contact |-> 0]
  /\ rows = [c \in Contact |-> NoRow]
  /\ objects = {} /\ orphans = {} /\ lost = {}
  /\ queue = <<>> /\ queued = {} /\ forced = {}
  /\ epoch = [c \in Contact |-> 0]
  /\ flight = [c \in Contact |-> None]
  /\ scans = FALSE /\ scan = <<>> /\ next = 0
  /\ caller = [a \in Caller |-> Idle]
  /\ handler = Free
  /\ login = FALSE /\ identity = 1 /\ dbIdentity = 1 /\ session = 1 /\ online = FALSE
  /\ pairings = 1 /\ ages = 0 /\ faults = 0

Fault == faults < MaxFaults /\ faults' = faults + 1

Goto(a, pc)      == caller' = [caller EXCEPT ![a].pc = pc]
End(a)           == caller' = [caller EXCEPT ![a] = [Idle EXCEPT !.pc = "end", !.on = caller[a].on]]
SessionIs(s)     == online /\ session = s           \* avatarSessionCurrent
Held             == {caller[a].key : a \in Caller}
Stored           == objects \cup orphans \cup lost \cup {rows[c].key : c \in Contact}
FreshKey         == CHOOSE k \in 1..(Cardinality(Stored \cup Held) + 1) :
                      k \notin Stored \cup Held

SaveRowOnly(c, row) ==  \* a mutant: the former object is forgotten
  rows' = [rows EXCEPT ![c] = row] /\ UNCHANGED orphans

\* SaveAvatar: the row is replaced, and its former object becomes an orphan.
SaveRow(c, row) ==
  /\ rows' = [rows EXCEPT ![c] = row]
  /\ orphans' = orphans \cup ({rows[c].key} \ {0, row.key})

---------------------------------------------------------------------------
(* The queue, the scan and the workers                                     *)

\* queueAvatar: a job that is queued already only becomes a forced one.
Enqueue(c, force) ==
  IF c \in queued
  THEN /\ forced' = IF force THEN forced \cup {c} ELSE forced
       /\ UNCHANGED <<queue, queued>>
  ELSE /\ queue' = Append(queue, c)
       /\ queued' = queued \cup {c}
       /\ forced' = IF force THEN forced \cup {c} ELSE forced

Full(c) == c \notin queued /\ Len(queue) = QueueSize

\* The ten-minute sweep of the connected account, or a requested scan: the
\* contacts from the one the last scan stopped at.
StartScan ==
  /\ scan = <<>>
  /\ online \/ scans
  /\ \E c \in Contact : rows[c].due \/ scans
  /\ scan' = [i \in 1..Cardinality(Contact) |-> (next + i - 1) % Cardinality(Contact)]
  /\ scans' = FALSE
  /\ UNCHANGED <<remoteVars, told, cacheVars, queueVars, epoch, flight, next, caller,
                 handler, acctVars, faults>>

\* queueAvatarIfDue for the next contact; a full queue ends the scan there.
ScanContact ==
  /\ scan # <<>>
  /\ LET c == Head(scan) IN
     \/ /\ rows[c].due /\ Full(c)
        /\ scan' = <<>> /\ next' = c
        /\ UNCHANGED queueVars
     \/ /\ ~(rows[c].due /\ Full(c))
        /\ scan' = Tail(scan)
        /\ next' = IF Tail(scan) = <<>> THEN 0 ELSE next
        /\ IF rows[c].due THEN Enqueue(c, FALSE) ELSE UNCHANGED queueVars
  /\ UNCHANGED <<remoteVars, told, cacheVars, epoch, flight, scans, caller, handler,
                 acctVars, faults>>

\* The accounts share the queue: a job of another one takes a place in it.
OtherJob ==
  /\ Len(queue) < QueueSize
  /\ queue' = Append(queue, None)
  /\ UNCHANGED <<remoteVars, told, cacheVars, queued, forced, epoch, flight, scanVars,
                 caller, handler, acctVars, faults>>

\* The worker receives a job and waits for the pace ticker.
Take(w) ==
  /\ caller[w].pc = "idle" /\ queue # <<>>
  /\ queue' = Tail(queue)
  /\ caller' = IF Head(queue) = None THEN caller
               ELSE [caller EXCEPT ![w] = [Idle EXCEPT !.pc = "paced", !.on = Head(queue)]]
  /\ UNCHANGED <<remoteVars, told, cacheVars, queued, forced, epoch, flight, scanVars,
                 handler, acctVars, faults>>

\* The job is no longer marked; it is done if it was forced or
\* avatarNeedsRefresh.
PopWith(w, q, f) ==
  LET c == caller[w].on IN
  /\ caller[w].pc = "paced"
  /\ IF c \in forced \/ rows[c].due THEN Goto(w, "join")
                                    ELSE caller' = [caller EXCEPT ![w] = Idle]
  /\ queued' = q /\ forced' = f
  /\ UNCHANGED <<remoteVars, told, cacheVars, queue, epoch, flight, scanVars, handler,
                 acctVars, faults>>

PopMarked(w) == PopWith(w, queued, forced)  \* a mutant: it stays marked as queued
Pop(w) == PopWith(w, queued \ {caller[w].on}, forced \ {caller[w].on})

\* Avatar: a request is answered from the cache unless the row is due or its
\* object is gone; then a connected account refreshes it.
Request(r, c) ==
  /\ caller[r].pc = "idle"
  /\ identity # 0 /\ online /\ session # 0
  /\ rows[c].due \/ (rows[c].key # 0 /\ rows[c].key \notin objects)
  /\ caller' = [caller EXCEPT ![r] = [Idle EXCEPT !.pc = "join", !.on = c]]
  /\ UNCHANGED <<remoteVars, told, cacheVars, queueVars, epoch, flight, scanVars, handler,
                 acctVars, faults>>

---------------------------------------------------------------------------
(* refreshAvatar and fetchAndStoreAvatar                                   *)

\* One flight per picture; whoever comes later waits for its result.
Join(a) ==
  LET c == caller[a].on IN
  /\ caller[a].pc = "join"
  /\ IF flight[c] = None
     THEN flight' = [flight EXCEPT ![c] = a] /\ Goto(a, "session")
     ELSE Goto(a, "wait") /\ UNCHANGED flight
  /\ UNCHANGED <<remoteVars, told, cacheVars, queueVars, epoch, scanVars, handler, acctVars,
                 faults>>

\* The flight is over: those that waited for it share its result.
Land(a) ==
  LET c == caller[a].on IN
  /\ caller[a].pc = "end"
  /\ flight' = [flight EXCEPT ![c] = None]
  /\ caller' = [b \in Caller |->
       IF b = a \/ (caller[b].pc = "wait" /\ caller[b].on = c) THEN Idle ELSE caller[b]]
  /\ UNCHANGED <<remoteVars, told, cacheVars, queueVars, epoch, scanVars, handler, acctVars,
                 faults>>

ReadSession(a) ==
  /\ caller[a].pc = "session"
  /\ IF online /\ session # 0
     THEN caller' = [caller EXCEPT ![a].pc = "epoch", ![a].as = session]
     ELSE End(a)
  /\ UNCHANGED <<remoteVars, told, cacheVars, queueVars, epoch, flight, scanVars, handler,
                 acctVars, faults>>

ReadEpoch(a) ==
  /\ caller[a].pc = "epoch"
  /\ caller' = [caller EXCEPT ![a].pc = "record", ![a].epoch = epoch[caller[a].on]]
  /\ UNCHANGED <<remoteVars, told, cacheVars, queueVars, epoch, flight, scanVars, handler,
                 acctVars, faults>>

ReadRecord(a) ==
  /\ caller[a].pc = "record"
  /\ caller' = [caller EXCEPT ![a].pc = "fetch", ![a].row = rows[caller[a].on]]
  /\ UNCHANGED <<remoteVars, told, cacheVars, queueVars, epoch, flight, scanVars, handler,
                 acctVars, faults>>

\* The provider's answer to a session that has the picture of some row: there
\* is none, it is that one, or a new one.
FetchAvatar(c, row) ==
  IF ~shown[c] THEN "missing"
  ELSE IF row.key # 0 /\ row.version = version[c] THEN "reread" ELSE "put"

\* The call fails without the session's connection.
Fetch(a) ==
  LET c == caller[a].on IN
  /\ caller[a].pc = "fetch"
  /\ \/ /\ SessionIs(caller[a].as)
        /\ LET found == FetchAvatar(c, caller[a].row) IN
           caller' = [caller EXCEPT ![a].pc = found, ![a].version = version[c],
                                    ![a].row = IF found = "reread" THEN @ ELSE NoRow]
        /\ UNCHANGED faults
     \/ /\ ~SessionIs(caller[a].as) /\ End(a) /\ UNCHANGED faults
     \/ Fault /\ End(a)
  /\ UNCHANGED <<remoteVars, told, cacheVars, queueVars, epoch, flight, scanVars, handler,
                 acctVars>>

\* saveMissingAvatar
Missing(a) ==
  LET c == caller[a].on IN
  /\ caller[a].pc = "missing"
  /\ End(a)
  /\ \/ /\ epoch[c] = caller[a].epoch /\ SessionIs(caller[a].as)
        /\ SaveRow(c, [key |-> 0, version |-> caller[a].version, due |-> FALSE,
                       by |-> caller[a].as])
        /\ UNCHANGED faults
     \/ /\ ~(epoch[c] = caller[a].epoch /\ SessionIs(caller[a].as))
        /\ UNCHANGED <<rows, orphans, faults>>
     \/ Fault /\ UNCHANGED <<rows, orphans>>
  /\ UNCHANGED <<remoteVars, told, objects, lost, queueVars, epoch, flight, scanVars,
                 handler, acctVars>>

\* The picture is unchanged: its object is read, and fetched again if gone.
Reread(a) ==
  /\ caller[a].pc = "reread"
  /\ \/ /\ caller[a].row.key \in objects /\ Goto(a, "touch") /\ UNCHANGED faults
     \/ /\ caller[a].row.key \notin objects /\ Goto(a, "refetch") /\ UNCHANGED faults
     \/ Fault /\ End(a)
  /\ UNCHANGED <<remoteVars, told, cacheVars, queueVars, epoch, flight, scanVars, handler,
                 acctVars>>

\* TouchAvatar, unless the picture changed or the session ended meanwhile.
Touch(a) ==
  LET c == caller[a].on IN
  /\ caller[a].pc = "touch"
  /\ End(a)
  /\ rows' = IF epoch[c] = caller[a].epoch /\ SessionIs(caller[a].as) /\ rows[c] # NoRow
             THEN [rows EXCEPT ![c].due = FALSE] ELSE rows
  /\ UNCHANGED <<remoteVars, told, objects, orphans, lost, queueVars, epoch, flight,
                 scanVars, handler, acctVars, faults>>

Refetch(a) ==
  /\ caller[a].pc = "refetch"
  /\ \/ /\ SessionIs(caller[a].as) /\ FetchAvatar(caller[a].on, NoRow) = "put"
        /\ caller' = [caller EXCEPT ![a].pc = "put", ![a].version = version[caller[a].on],
                                   ![a].row = NoRow]
        /\ UNCHANGED faults
     \/ /\ ~(SessionIs(caller[a].as) /\ FetchAvatar(caller[a].on, NoRow) = "put")
        /\ End(a) /\ UNCHANGED faults
     \/ Fault /\ End(a)
  /\ UNCHANGED <<remoteVars, told, cacheVars, queueVars, epoch, flight, scanVars, handler,
                 acctVars>>

\* saveAvatar up to store.Put, under a new key; a failed Put is undone.
Put(a) ==
  /\ caller[a].pc = "put"
  /\ \/ /\ epoch[caller[a].on] # caller[a].epoch
        /\ End(a) /\ UNCHANGED <<objects, faults>>
     \/ /\ epoch[caller[a].on] = caller[a].epoch
        /\ objects' = objects \cup {FreshKey}
        /\ \/ /\ caller' = [caller EXCEPT ![a].pc = "save", ![a].key = FreshKey]
              /\ UNCHANGED faults
           \/ /\ Fault
              /\ caller' = [caller EXCEPT ![a].pc = "undo", ![a].key = FreshKey]
     \/ Fault /\ End(a) /\ UNCHANGED objects  \* no room, or no file
  /\ UNCHANGED <<remoteVars, told, rows, orphans, lost, queueVars, epoch, flight, scanVars,
                 handler, acctVars>>

\* The row is saved under avatars.mu, if the picture and the session are still
\* the ones the flight began with.
SaveIf(a, valid) ==
  LET c == caller[a].on IN
  /\ caller[a].pc = "save"
  /\ \/ /\ valid
        /\ SaveRow(c, [key |-> caller[a].key, version |-> caller[a].version,
                       due |-> FALSE, by |-> caller[a].as])
        /\ End(a)
        /\ UNCHANGED faults
     \/ /\ ~valid
        /\ Goto(a, "undo")
        /\ UNCHANGED <<rows, orphans, faults>>
     \/ Fault /\ Goto(a, "undo") /\ UNCHANGED <<rows, orphans>>
  /\ UNCHANGED <<remoteVars, told, objects, lost, queueVars, epoch, flight, scanVars,
                 handler, acctVars>>

SaveAnySession(a) == SaveIf(a, epoch[caller[a].on] = caller[a].epoch)  \* a mutant
SaveAnyEpoch(a)   == SaveIf(a, SessionIs(caller[a].as))                \* a mutant
Save(a) == SaveIf(a, epoch[caller[a].on] = caller[a].epoch /\ SessionIs(caller[a].as))

\* The object without a row is deleted; when that fails nothing remembers it.
Undo(a) ==
  /\ caller[a].pc = "undo"
  /\ End(a)
  /\ \/ objects' = objects \ {caller[a].key} /\ UNCHANGED <<lost, faults>>
     \/ Fault /\ lost' = lost \cup {caller[a].key} /\ UNCHANGED objects
  /\ UNCHANGED <<remoteVars, told, rows, orphans, queueVars, epoch, flight, scanVars,
                 handler, acctVars>>

---------------------------------------------------------------------------
(* The provider's notices                                                  *)

\* The provider: a picture is replaced or removed, and the account is told.
Change(c) ==
  /\ changes < MaxChanges
  /\ identity # 0
  /\ changes' = changes + 1
  /\ version' = [version EXCEPT ![c] = changes + 1]
  /\ \E pic \in BOOLEAN :
       /\ pic \/ shown[c]
       /\ shown' = [shown EXCEPT ![c] = pic]
       /\ notices' = Append(notices, [on |-> c, version |-> changes + 1, removed |-> ~pic])
  /\ UNCHANGED <<told, cacheVars, queueVars, epoch, flight, scanVars, caller, handler,
                 acctVars, faults>>

\* onEvent, EventAvatarChanged: invalidateAvatar
Notice ==
  /\ handler = Free /\ notices # <<>> /\ online
  /\ LET e == Head(notices) IN
     /\ epoch' = [epoch EXCEPT ![e.on] = @ + 1]
     /\ told' = [told EXCEPT ![e.on] = e.version]
     /\ handler' = [pc |-> IF e.removed THEN "remove" ELSE "queue", on |-> e.on]
  /\ notices' = Tail(notices)
  /\ UNCHANGED <<changes, version, shown, cacheVars, queueVars, flight, scanVars, caller,
                 acctVars, faults>>

\* A removed picture's row is emptied at once, without a session.
NoticeRemoved ==
  LET c == handler.on IN
  /\ handler.pc = "remove"
  /\ handler' = Free
  /\ \/ /\ session # 0 /\ identity # 0
        /\ SaveRow(c, [key |-> 0, version |-> told[c], due |-> FALSE, by |-> session])
        /\ UNCHANGED faults
     \/ Fault /\ UNCHANGED <<rows, orphans>>
  /\ UNCHANGED <<remoteVars, told, objects, lost, queueVars, epoch, flight, scanVars, caller,
                 acctVars>>

\* A changed one is queued and forced; when the queue is full its row becomes
\* due and a scan is requested.
NoticeChanged ==
  LET c == handler.on IN
  /\ handler.pc = "queue"
  /\ handler' = Free
  /\ \/ /\ ~Full(c)
        /\ Enqueue(c, TRUE)
        /\ UNCHANGED <<rows, scans>>
     \/ /\ Full(c)
        /\ rows' = [rows EXCEPT ![c].due = TRUE]
        /\ scans' = TRUE
        /\ UNCHANGED queueVars
  /\ UNCHANGED <<remoteVars, told, objects, orphans, lost, epoch, flight, scan, next, caller,
                 acctVars, faults>>

\* EventChatProfile queues the chat's picture if it is due.
Profile(c) ==
  /\ handler = Free /\ online
  /\ rows[c].due /\ c \notin queued /\ ~Full(c)
  /\ Enqueue(c, FALSE)
  /\ UNCHANGED <<remoteVars, told, cacheVars, epoch, flight, scanVars, caller, handler,
                 acctVars, faults>>

---------------------------------------------------------------------------
(* The account                                                             *)

\* ClearAccountAvatars
ClearRows ==
  /\ rows' = [c \in Contact |-> NoRow]
  /\ orphans' = orphans \cup ({rows[c].key : c \in Contact} \ {0})

Connect ==
  /\ handler = Free /\ session # 0 /\ identity # 0 /\ ~online
  /\ online' = TRUE
  /\ scans' = TRUE
  /\ UNCHANGED <<remoteVars, told, cacheVars, queueVars, epoch, flight, scan, next, caller,
                 handler, login, identity, dbIdentity, session, pairings, ages, faults>>

Disconnect ==
  /\ handler = Free /\ online
  /\ Fault
  /\ online' = FALSE
  /\ UNCHANGED <<remoteVars, told, cacheVars, queueVars, epoch, flight, scanVars, caller,
                 handler, login, identity, dbIdentity, session, pairings, ages>>

\* onEvent, EventLoggedOut: the account in memory; the cache; the identity.
LoggedOut ==
  /\ handler = Free /\ session # 0 /\ identity # 0
  /\ pairings < MaxPairings
  /\ identity' = 0 /\ session' = 0 /\ online' = FALSE
  /\ notices' = <<>>
  /\ handler' = [pc |-> "clear", on |-> 0]
  /\ UNCHANGED <<changes, version, shown, told, cacheVars, queueVars, epoch, flight, scanVars,
                 caller, login, dbIdentity, pairings, ages, faults>>

ClearLoggedOut ==
  /\ handler.pc = "clear"
  /\ handler' = [pc |-> "forget", on |-> 0]
  /\ \/ ClearRows /\ UNCHANGED faults
     \/ Fault /\ UNCHANGED <<rows, orphans>>
  /\ UNCHANGED <<remoteVars, told, objects, lost, queueVars, epoch, flight, scanVars, caller,
                 acctVars>>

ForgetIdentity ==
  /\ handler.pc = "forget"
  /\ handler' = Free
  /\ dbIdentity' = 0
  /\ UNCHANGED <<remoteVars, told, cacheVars, queueVars, epoch, flight, scanVars, caller,
                 login, identity, session, online, pairings, ages, faults>>

\* StartLogin empties the cache, and refuses the login when it cannot.
StartLogin ==
  /\ identity = 0 /\ session = 0 /\ ~login /\ pairings < MaxPairings
  /\ ClearRows
  /\ login' = TRUE
  /\ UNCHANGED <<remoteVars, told, objects, lost, queueVars, epoch, flight, scanVars, caller,
                 handler, identity, dbIdentity, session, online, pairings, ages, faults>>

\* The new session, and its EventPaired.
NewSession ==
  /\ login /\ session = 0 /\ pairings < MaxPairings
  /\ session' = pairings + 1 /\ pairings' = pairings + 1
  /\ UNCHANGED <<remoteVars, told, cacheVars, queueVars, epoch, flight, scanVars, caller,
                 handler, login, identity, dbIdentity, online, ages, faults>>

Paired ==
  /\ login /\ session # 0 /\ handler = Free
  /\ identity' = session /\ dbIdentity' = session /\ login' = FALSE
  /\ UNCHANGED <<remoteVars, told, cacheVars, queueVars, epoch, flight, scanVars, caller,
                 handler, session, online, pairings, ages, faults>>

\* The daemon stops and starts: what is in memory is gone, an upload without a
\* row stays in the store.
Restart ==
  /\ Fault
  /\ lost' = lost \cup ((Held \ {0}) \cap objects)
  /\ queue' = <<>> /\ queued' = {} /\ forced' = {}
  /\ epoch' = [c \in Contact |-> 0] /\ flight' = [c \in Contact |-> None]
  /\ scans' = FALSE /\ scan' = <<>> /\ next' = 0
  /\ caller' = [a \in Caller |-> Idle]
  /\ handler' = Free
  /\ login' = FALSE /\ online' = FALSE
  /\ identity' = dbIdentity
  /\ session' = IF session = dbIdentity THEN session ELSE 0  \* Restore needs the device
  /\ UNCHANGED <<remoteVars, told, rows, objects, orphans, dbIdentity, pairings, ages>>

---------------------------------------------------------------------------
(* Time, the media cleanup, and objects that vanish                        *)

Age(c) ==
  /\ ~rows[c].due /\ ages < MaxAges
  /\ ages' = ages + 1
  /\ rows' = [rows EXCEPT ![c].due = TRUE]
  /\ UNCHANGED <<remoteVars, told, objects, orphans, lost, queueVars, epoch, flight,
                 scanVars, caller, handler, login, identity, dbIdentity, session, online,
                 pairings, faults>>

CleanOrphan(k) ==
  /\ k \in orphans
  /\ objects' = objects \ {k} /\ orphans' = orphans \ {k}
  /\ UNCHANGED <<remoteVars, told, rows, lost, queueVars, epoch, flight, scanVars, caller,
                 handler, acctVars, faults>>

Vanish(k) ==
  /\ k \in objects
  /\ Fault
  /\ objects' = objects \ {k}
  /\ UNCHANGED <<remoteVars, told, rows, orphans, lost, queueVars, epoch, flight, scanVars,
                 caller, handler, acctVars>>

Refreshing(a) ==
  \/ Join(a) \/ Land(a) \/ ReadSession(a) \/ ReadEpoch(a) \/ ReadRecord(a) \/ Fetch(a)
  \/ Missing(a) \/ Reread(a) \/ Touch(a) \/ Refetch(a) \/ Put(a) \/ Save(a) \/ Undo(a)

Next ==
  \/ StartScan \/ ScanContact \/ OtherJob
  \/ \E w \in Worker : Take(w) \/ Pop(w)
  \/ \E r \in Reader, c \in Contact : Request(r, c)
  \/ \E a \in Caller : Refreshing(a)
  \/ Notice \/ NoticeRemoved \/ NoticeChanged
  \/ \E c \in Contact : Change(c) \/ Profile(c) \/ Age(c)
  \/ Connect \/ Disconnect \/ LoggedOut \/ ClearLoggedOut \/ ForgetIdentity
  \/ StartLogin \/ NewSession \/ Paired \/ Restart
  \/ \E k \in objects \cup orphans : CleanOrphan(k) \/ Vanish(k)

Spec == Init /\ [][Next]_vars

---------------------------------------------------------------------------
(* Properties                                                              *)

RemoteTyped ==
  /\ changes \in Version
  /\ version \in [Contact -> Version] /\ shown \in [Contact -> BOOLEAN]
  /\ notices \in Seq([on : Contact, version : Version, removed : BOOLEAN])
  /\ told \in [Contact -> Version]

CacheTyped ==
  /\ rows \in [Contact -> Row]
  /\ objects \subseteq Key /\ orphans \subseteq Key /\ lost \subseteq Key
  /\ IsFiniteSet(objects) /\ IsFiniteSet(orphans) /\ IsFiniteSet(lost)

QueueTyped ==
  /\ queue \in Seq(Contact \cup {None}) /\ Len(queue) <= QueueSize
  /\ queued \subseteq Contact /\ forced \subseteq queued
  /\ scans \in BOOLEAN /\ scan \in Seq(Contact) /\ next \in Contact

CallersTyped ==
  /\ epoch \in [Contact -> Nat] /\ flight \in [Contact -> Caller \cup {None}]
  /\ caller \in [Caller -> [pc : PC, on : Contact, as : 0..MaxPairings, epoch : Nat,
                            row : Row, version : Version, key : Key \cup {0}]]
  /\ \A a \in Caller : caller[a].pc \in {"save", "undo"} <=> caller[a].key # 0

AccountTyped ==
  /\ handler \in [pc : {"free", "queue", "remove", "clear", "forget"}, on : Contact]
  /\ login \in BOOLEAN /\ online \in BOOLEAN
  /\ identity \in 0..MaxPairings /\ dbIdentity \in 0..MaxPairings
  /\ session \in 0..MaxPairings /\ pairings \in 1..MaxPairings
  /\ ages \in 0..MaxAges /\ faults \in 0..MaxFaults

\* Every variable has its type; the queue keeps to its capacity, and what is to be
\* forced is queued.
TypeOK == RemoteTyped /\ CacheTyped /\ QueueTyped /\ CallersTyped /\ AccountTyped

\* The cache of a paired account holds pictures that were fetched for that
\* pairing: a fetch that outlives a logout leaves nothing for the next login
\* (avatars.go:501; the cache is emptied after the session is dropped).
NoForeignAvatar ==
  identity # 0 => \A c \in Contact : rows[c].by \in {0, identity}

\* An object of the store belongs to a row, waits in media_orphans, or is an
\* upload on its way; only a failed removal or a stop of the daemon leaves one
\* that nothing remembers.  No row's object is up for removal.
NothingLeaks ==
  /\ objects \subseteq {rows[c].key : c \in Contact} \cup orphans \cup Held \cup lost
  /\ \A c \in Contact : rows[c].key \notin (orphans \cup Held) \ {0}

\* A row that is written shows the newest picture the account was told of, or a
\* newer one: a fetch that began before the notice is not stored after it.
NoStaleWrite ==
  [][\A c \in Contact :
       rows'[c].version # rows[c].version /\ rows'[c] # NoRow
         => rows'[c].version >= told[c]]_vars

\* A contact is marked as queued only while its job is in the queue or with a
\* worker that has yet to unmark it: a mark that stays makes queueAvatar drop
\* every later job of the contact, the forced ones included.
MarkedIsQueued ==
  \A c \in queued :
    \/ \E i \in DOMAIN queue : queue[i] = c
    \/ \E w \in Worker : caller[w].pc = "paced" /\ caller[w].on = c

---------------------------------------------------------------------------
(* The inductive invariant behind the properties                           *)

\* A session is that of the account's identity or of a login, and only a logout
\* under way keeps an identity in the database that memory has given up.
AccountInv ==
  /\ identity # 0 => dbIdentity = identity /\ ~login /\ session \in {0, identity}
  /\ identity = 0 => ~online /\ (session # 0 => login)
  /\ identity = 0 /\ dbIdentity # 0 => handler.pc \in {"clear", "forget"}
  /\ handler.pc \in {"clear", "forget"} => identity = 0
  /\ online => session # 0

\* The cache is that of the identity in the database, and a login begins without one.
OwnerInv == \A c \in Contact : /\ login => rows[c].by = 0
                               /\ dbIdentity # 0 => rows[c].by \in {0, dbIdentity}

\* An object has one owner: a row, an upload on its way, or the table of orphans.
KeyInv ==
  /\ \A a, b \in Caller : caller[a].key # 0 /\ caller[a].key = caller[b].key => a = b
  /\ \A c, d \in Contact : rows[c].key # 0 /\ rows[c].key = rows[d].key => c = d
  /\ Held \cap orphans = {}

\* What the account was told of is no newer than the picture.
ToldInv ==
  /\ \A c \in Contact : told[c] <= version[c] /\ version[c] <= changes
  /\ \A i \in 1..Len(notices) : notices[i].version <= version[notices[i].on]

\* What a flight has fetched is as new as the last notice, or the epoch has moved on.
FlightInv ==
  \A a \in Caller : LET c == caller[a].on IN
    /\ caller[a].epoch <= epoch[c]
    /\ caller[a].pc \in {"missing", "reread", "refetch", "put", "save"}
         /\ caller[a].epoch = epoch[c] => caller[a].version >= told[c]

CacheInv == /\ AccountInv /\ OwnerInv /\ KeyInv /\ NothingLeaks /\ ToldInv /\ FlightInv
            /\ MarkedIsQueued
=============================================================================
