----------------------------- MODULE MediaStore -----------------------------
(***************************************************************************)
(* Stored media: the attachments table and the object store, the workers   *)
(* that download attachments (app/media.go), uploads (app/uploads.go), the *)
(* scan that queues downloads and removes what is no longer used, readers, *)
(* and the merge of two copies of a message (store/sqlite/attachments.go). *)
(*                                                                         *)
(* Each statement, transaction or call of the object store is one action.  *)
(* A file counts 1.  The key of an object is the ID it was stored for, so  *)
(* an item names a row, an upload or an object.  A retry that is scheduled *)
(* for later is due at any later time.  The account's other attachments    *)
(* and the avatars, which share the quota, are left out.                   *)
(***************************************************************************)
EXTENDS Integers, Sequences, FiniteSets

CONSTANTS Attachment,   \* attachments the provider announces
          Upload,       \* uploads, and the attachments they become
          Worker,       \* the goroutines of mediaWorker
          Reader,       \* calls of OpenMedia
          Twins,        \* pairs <<target, source>> that a merge may unite
          QueueCap,     \* capacity of the channel queue
          MaxTotal,     \* MaxTotalBytes, in files
          MaxTemp,      \* MaxTempBytes, in staging files
          MaxTries,     \* downloads before the attachment waits for a reader (5)
          LateRefs,     \* may an attachment come without a provider reference?
          MaxFaults,    \* bound on failing statements and store calls
          MaxRestarts,  \* bound on restarts
          MaxMoves,     \* bound on replays, lost connections and lost objects
          None

Item == Attachment \cup Upload

ASSUME MediaAssumption ==
  /\ IsFiniteSet(Attachment) /\ IsFiniteSet(Upload) /\ IsFiniteSet(Worker)
  /\ Attachment \cap Upload = {} /\ None \notin Item
  /\ QueueCap \in Nat \ {0} /\ MaxTotal \in Nat \ {0}
  /\ MaxTemp \in Nat \ {0} /\ MaxTries \in Nat \ {0}
  /\ MaxFaults \in Nat /\ MaxRestarts \in Nat /\ MaxMoves \in Nat
  /\ Twins \subseteq Attachment \X Attachment
  /\ \A p \in Twins : p[1] # p[2]
  /\ LateRefs \in BOOLEAN

VARIABLES
  row,          \* attachments
  uploads,      \* uploads.state, "none" without a row
  orphans,      \* media_orphans
  objects,      \* keys in the object store
  queue,        \* the channel media.queue
  inflight,     \* media.inflight
  temp, stored, \* media.reservedTemp and reservedStored
  worker,       \* progress of each download
  call,         \* progress of each CreateUpload
  reader,       \* progress of each OpenMedia
  scan,         \* progress of the scan
  connected,    \* rt.state = "connected"
  lost,         \* history: keys that disappeared from the store
  faults, restarts, moves

dbVars     == <<row, uploads, orphans>>
queueVars  == <<queue, inflight>>
quotaVars  == <<temp, stored>>
boundVars  == <<faults, restarts, moves>>
vars == <<dbVars, objects, queueVars, quotaVars, worker, call, reader, scan,
          connected, lost, boundVars>>

NoRow == [avail |-> "none", key |-> None, ref |-> FALSE, auto |-> FALSE,
          wait |-> FALSE, tries |-> 0, block |-> "", version |-> 0]
Idle  == [pc |-> "idle", item |-> None, tries |-> 0, staged |-> 0, held |-> 0,
          out |-> "ok"]
Rest  == [pc |-> "idle", item |-> None, key |-> None, version |-> 0, ref |-> FALSE,
          block |-> ""]

Init ==
  /\ row = [k \in Item |-> NoRow]
  /\ uploads = [u \in Upload |-> "none"]
  /\ orphans = {} /\ objects = {} /\ lost = {}
  /\ queue = <<>> /\ inflight = {}
  /\ temp = 0 /\ stored = 0
  /\ worker = [w \in Worker |-> Idle]
  /\ call = [u \in Upload |-> "new"]
  /\ reader = [r \in Reader |-> Rest]
  /\ scan = [pc |-> "idle", list |-> {}]
  /\ connected = FALSE
  /\ faults = 0 /\ restarts = 0 /\ moves = 0

Fault == faults < MaxFaults /\ faults' = faults + 1

Move  == moves < MaxMoves /\ moves' = moves + 1

Remote(k) == row[k].avail = "remote"
Exists(k) == row[k].avail \notin {"none", "merged"}

\* What counts against the quota (StoredMediaBytes).
StoredMediaBytes == Cardinality({k \in Item : row[k].avail = "ready"})
                    + Cardinality({u \in Upload : uploads[u] # "none"})

HasRoom == StoredMediaBytes + stored + 1 <= MaxTotal

---------------------------------------------------------------------------
(* The download of an attachment                                           *)

\* queueMedia: an attachment that is queued or being downloaded stays so.
QueueMedia(k) ==
  \/ k \in inflight /\ UNCHANGED queueVars
  \/ /\ k \notin inflight /\ Len(queue) < QueueCap
     /\ queue' = Append(queue, k)
     /\ inflight' = inflight \cup {k}

Go(w, pc) == worker' = [worker EXCEPT ![w] = [@ EXCEPT !.pc = pc]]

Dequeue(w) ==
  /\ worker[w].pc = "idle"
  /\ queue # <<>>
  /\ worker' = [worker EXCEPT ![w] = [Idle EXCEPT !.pc = "read", !.item = Head(queue)]]
  /\ queue' = Tail(queue)
  /\ UNCHANGED <<dbVars, objects, inflight, quotaVars, call, reader, scan,
                 connected, lost, boundVars>>

\* GetMedia, the state of the account, and the staging space.
ReadMedia(w) ==
  LET k == worker[w].item
      at(pc, n) == worker' = [worker EXCEPT ![w] =
                     [@ EXCEPT !.pc = pc, !.tries = row[k].tries, !.staged = n]]
  IN
  /\ worker[w].pc = "read"
  /\ \/ ~Remote(k) /\ at("finish", 0) /\ UNCHANGED <<temp, faults>>
     \/ Remote(k) /\ ~row[k].ref /\ at("unavailable", 0) /\ UNCHANGED <<temp, faults>>
     \/ /\ Remote(k) /\ row[k].ref
        /\ ~connected \/ temp >= MaxTemp
        /\ at("later", 0) /\ UNCHANGED <<temp, faults>>
     \/ /\ Remote(k) /\ row[k].ref
        /\ connected /\ temp < MaxTemp
        /\ at("download", 1) /\ temp' = temp + 1 /\ UNCHANGED faults
     \/ Fault /\ at("finish", 0) /\ UNCHANGED temp
  /\ UNCHANGED <<dbVars, objects, queueVars, stored, call, reader, scan,
                 connected, lost, restarts, moves>>

Outcome(out) == CASE out = "ok" -> "reserve" [] out = "large" -> "block"
                  [] out = "gone" -> "unavailable" [] OTHER -> "retry"

\* session.DownloadMedia: the file, a newer reference, both, or neither.
DownloadMedia(w) ==
  /\ worker[w].pc = "download"
  /\ \E out \in {"ok", "gone", "large", "error"}, new \in BOOLEAN :
       /\ new => out # "gone"
       /\ worker' = [worker EXCEPT ![w] =
            [@ EXCEPT !.pc = IF new THEN "reference" ELSE Outcome(out), !.out = out]]
  /\ UNCHANGED <<dbVars, objects, queueVars, quotaVars, call, reader, scan,
                 connected, lost, boundVars>>

UpdateMediaRef(w) ==
  LET k == worker[w].item IN
  /\ worker[w].pc = "reference"
  /\ \/ /\ row[k].avail \in {"remote", "unavailable"}
        /\ row' = [row EXCEPT ![k] = [@ EXCEPT !.ref = TRUE, !.avail = "remote"]]
        /\ Go(w, Outcome(worker[w].out))
        /\ UNCHANGED faults
     \/ /\ (row[k].avail \notin {"remote", "unavailable"} /\ UNCHANGED faults) \/ Fault
        /\ Go(w, "retry")
        /\ UNCHANGED row
  /\ UNCHANGED <<uploads, orphans, objects, queueVars, quotaVars, call, reader,
                 scan, connected, lost, restarts, moves>>

\* reserveMediaStorage, under media.mu.
ReserveIf(w, room) ==
  /\ worker[w].pc = "reserve"
  /\ \/ /\ room
        /\ stored' = stored + 1
        /\ worker' = [worker EXCEPT ![w] = [@ EXCEPT !.pc = "put", !.held = 1]]
        /\ UNCHANGED faults
     \/ /\ ~room
        /\ worker' = [worker EXCEPT ![w] = [@ EXCEPT !.pc = "block", !.out = "quota"]]
        /\ UNCHANGED <<stored, faults>>
     \/ Fault /\ Go(w, "retry") /\ UNCHANGED stored
  /\ UNCHANGED <<dbVars, objects, queueVars, temp, call, reader, scan, connected,
                 lost, restarts, moves>>

ReserveAlone(w)        == ReserveIf(w, StoredMediaBytes + 1 <= MaxTotal)  \* a mutant
ReserveMediaStorage(w) == ReserveIf(w, HasRoom)

\* store.Put; a failing one may have stored the file.
PutMedia(w) ==
  LET k == worker[w].item IN
  /\ worker[w].pc = "put"
  /\ \/ objects' = objects \cup {k} /\ Go(w, "mark") /\ UNCHANGED faults
     \/ Fault /\ Go(w, "delete") /\ objects' \in {objects, objects \cup {k}}
  /\ lost' = IF objects' = objects THEN lost ELSE lost \ {k}
  /\ UNCHANGED <<dbVars, queueVars, quotaVars, call, reader, scan, connected,
                 restarts, moves>>

\* MarkMediaReady, whose answer can be lost.
MarkMediaReady(w) ==
  LET k == worker[w].item
      ready == [row EXCEPT ![k] =
                  [@ EXCEPT !.avail = "ready", !.key = k, !.auto = FALSE,
                            !.wait = FALSE, !.tries = 0, !.block = "",
                            !.version = row[k].version + 1]]
  IN
  /\ worker[w].pc = "mark"
  /\ \/ Remote(k) /\ row' = ready /\ Go(w, "finish") /\ UNCHANGED faults
     \/ ~Remote(k) /\ Go(w, "check") /\ UNCHANGED <<row, faults>>
     \/ Fault /\ Go(w, "check") /\ row' \in {row, IF Remote(k) THEN ready ELSE row}
  /\ UNCHANGED <<uploads, orphans, objects, queueVars, quotaVars, call, reader,
                 scan, connected, lost, restarts, moves>>

\* The row is read again: the object goes when the row does not name it.  A
\* row that is gone is an error, and the object stays.
CheckMedia(w) ==
  LET k == worker[w].item
      unused == row[k].avail # "ready" \/ row[k].key # k
  IN
  /\ worker[w].pc = "check"
  /\ \/ Exists(k) /\ unused /\ Go(w, "delete") /\ UNCHANGED faults
     \/ ~(Exists(k) /\ unused) /\ Go(w, "retry") /\ UNCHANGED faults
     \/ Fault /\ Go(w, "retry")
  /\ UNCHANGED <<dbVars, objects, queueVars, quotaVars, call, reader, scan,
                 connected, lost, restarts, moves>>

DeleteMedia(w) ==
  /\ worker[w].pc = "delete"
  /\ \/ objects' = objects \ {worker[w].item} /\ UNCHANGED faults
     \/ Fault /\ UNCHANGED objects
  /\ Go(w, "retry")
  /\ UNCHANGED <<dbVars, queueVars, quotaVars, call, reader, scan, connected,
                 lost, restarts, moves>>

\* The end of a download that did not succeed: mediaFailure, blockMedia, or a
\* later try.  Only rows that are still remote are written, but a row that is
\* unavailable at the provider is marked so whatever it became.
Record(w) ==
  LET k == worker[w].item
      r == worker[w]
      next(old) ==
        CASE r.pc = "retry" -> [old EXCEPT !.wait = r.tries + 1 < MaxTries,
                                           !.auto = r.tries + 1 < MaxTries,
                                           !.tries = IF r.tries < MaxTries
                                                     THEN r.tries + 1 ELSE MaxTries]
          [] r.pc = "later" -> [old EXCEPT !.wait = TRUE, !.auto = TRUE, !.tries = r.tries]
          [] r.pc = "block" -> [old EXCEPT !.wait = FALSE, !.auto = FALSE,
                                           !.block = IF r.out = "quota" THEN "quota"
                                                     ELSE "too_large"]
          [] OTHER -> [old EXCEPT !.avail = "unavailable", !.key = None,
                                  !.auto = FALSE, !.wait = FALSE, !.block = ""]
      writes == Remote(k) \/ (r.pc = "unavailable" /\ row[k].avail = "ready")
  IN
  /\ r.pc \in {"retry", "later", "block", "unavailable"}
  /\ \/ row' = (IF writes THEN [row EXCEPT ![k] = next(@)] ELSE row) /\ UNCHANGED faults
     \/ Fault /\ UNCHANGED row
  /\ Go(w, "finish")
  /\ UNCHANGED <<uploads, orphans, objects, queueVars, quotaVars, call, reader,
                 scan, connected, lost, restarts, moves>>

\* The reservations are given back, and the attachment may be queued again.
FinishWith(w, queued, files) ==
  /\ worker[w].pc = "finish"
  /\ temp' = temp - worker[w].staged
  /\ stored' = stored - files
  /\ inflight' = queued
  /\ worker' = [worker EXCEPT ![w] = Idle]
  /\ UNCHANGED <<dbVars, objects, queue, call, reader, scan, connected, lost,
                 boundVars>>

FinishQueued(w) == FinishWith(w, inflight, worker[w].held)               \* a mutant
FinishTwice(w)  == FinishWith(w, inflight \ {worker[w].item}, worker[w].staged)  \* a mutant
Finish(w)       == FinishWith(w, inflight \ {worker[w].item}, worker[w].held)

---------------------------------------------------------------------------
(* Uploads                                                                 *)

To(u, pc) == call' = [call EXCEPT ![u] = pc]

\* CreateUpload stages the file and reserves room for it ...
StageUpload(u) ==
  /\ call[u] = "new"
  /\ temp < MaxTemp
  /\ temp' = temp + 1
  /\ To(u, "reserve")
  /\ UNCHANGED <<dbVars, objects, queueVars, stored, worker, reader, scan,
                 connected, lost, boundVars>>

ReserveUpload(u) ==
  /\ call[u] = "reserve"
  /\ \/ HasRoom /\ stored' = stored + 1 /\ To(u, "insert") /\ UNCHANGED temp
     \/ ~HasRoom /\ temp' = temp - 1 /\ To(u, "done") /\ UNCHANGED stored
  /\ UNCHANGED <<dbVars, objects, queueVars, worker, reader, scan, connected,
                 lost, boundVars>>

\* ... inserts the row before the object exists, and marks it ready after.
InsertUpload(u) ==
  /\ call[u] = "insert"
  /\ \/ uploads' = [uploads EXCEPT ![u] = "staging"] /\ To(u, "put") /\ UNCHANGED faults
     \/ Fault /\ To(u, "release") /\ UNCHANGED uploads
  /\ UNCHANGED <<row, orphans, objects, queueVars, quotaVars, worker, reader, scan,
                 connected, lost, restarts, moves>>

PutUpload(u) ==
  /\ call[u] = "put"
  /\ \/ objects' = objects \cup {u} /\ To(u, "mark") /\ UNCHANGED faults
     \/ Fault /\ To(u, "discard") /\ objects' \in {objects, objects \cup {u}}
  /\ UNCHANGED <<dbVars, queueVars, quotaVars, worker, reader, scan, connected,
                 lost, restarts, moves>>

MarkUploadReady(u) ==
  LET ready == [uploads EXCEPT ![u] = "ready"] IN
  /\ call[u] = "mark"
  /\ \/ uploads' = ready /\ To(u, "answer") /\ UNCHANGED faults
     \/ Fault /\ uploads' \in {uploads, ready} /\ To(u, "discard")
  /\ UNCHANGED <<row, orphans, objects, queueVars, quotaVars, worker, reader, scan,
                 connected, lost, restarts, moves>>

\* discardUpload leaves the object and the row to the scan.
DiscardTo(u, to) ==
  /\ call[u] = "discard"
  /\ \/ uploads' = [uploads EXCEPT ![u] = IF @ \in {"ready", "staging"} THEN to ELSE @]
        /\ UNCHANGED faults
     \/ Fault /\ UNCHANGED uploads
  /\ To(u, "release")
  /\ UNCHANGED <<row, orphans, objects, queueVars, quotaVars, worker, reader, scan,
                 connected, lost, restarts, moves>>

DiscardRow(u)    == DiscardTo(u, "none")  \* a mutant
DiscardUpload(u) == DiscardTo(u, "deleting")

ReleaseUpload(u) ==
  /\ call[u] \in {"release", "answer"}
  /\ temp' = temp - 1
  /\ stored' = stored - 1
  /\ To(u, IF call[u] = "answer" THEN "known" ELSE "done")
  /\ UNCHANGED <<dbVars, objects, queueVars, worker, reader, scan, connected, lost,
                 boundVars>>

\* ReserveMediaSend turns the upload into the attachment of a message.
UseIf(u, usable) ==
  /\ call[u] = "known"
  /\ usable
  /\ row' = [row EXCEPT ![u] = [NoRow EXCEPT !.avail = "ready", !.key = u]]
  /\ uploads' = [uploads EXCEPT ![u] = "none"]
  /\ To(u, "done")
  /\ UNCHANGED <<orphans, objects, queueVars, quotaVars, worker, reader, scan,
                 connected, lost, boundVars>>

UseAny(u)    == UseIf(u, uploads[u] # "none")  \* a mutant
UseUpload(u) == UseIf(u, uploads[u] = "ready")

\* DeleteUpload, by its user.
DeleteUpload(u) ==
  /\ call[u] = "known"
  /\ uploads[u] = "ready"
  /\ uploads' = [uploads EXCEPT ![u] = "deleting"]
  /\ UNCHANGED <<row, orphans, objects, queueVars, quotaVars, worker, call, reader,
                 scan, connected, lost, boundVars>>

---------------------------------------------------------------------------
(* The scan                                                                *)

ScanAt(pc, list) == scan' = [pc |-> pc, list |-> list]

ListPendingMedia ==
  /\ scan.pc = "idle"
  /\ ScanAt("queue", {k \in Item : Remote(k) /\ row[k].auto /\ ~row[k].wait})
  /\ UNCHANGED <<dbVars, objects, queueVars, quotaVars, worker, call, reader,
                 connected, lost, boundVars>>

\* The list is queued as far as the channel takes it.
ScanQueue ==
  /\ scan.pc = "queue"
  /\ \/ \E k \in scan.list : QueueMedia(k) /\ ScanAt("queue", scan.list \ {k})
     \/ /\ scan.list = {} \/ (Len(queue) = QueueCap /\ \E k \in scan.list : k \notin inflight)
        /\ ScanAt("list", {})
        /\ UNCHANGED queueVars
  /\ UNCHANGED <<dbVars, objects, quotaVars, worker, call, reader, connected, lost,
                 boundVars>>

\* ListUploadsForCleanup: uploads that expire (after a day) or were abandoned
\* (staging for an hour: their call has ended) are deleted from now on.
ListUploadsForCleanup ==
  /\ scan.pc = "list"
  /\ \E old \in SUBSET {u \in Upload : uploads[u] = "ready"} :
       LET left == {u \in Upload : uploads[u] = "staging" /\ call[u] = "done"}
       IN uploads' = [u \in Upload |-> IF u \in old \cup left THEN "deleting" ELSE uploads[u]]
  /\ ScanAt("uploads", {u \in Upload : uploads'[u] = "deleting"})
  /\ UNCHANGED <<row, orphans, objects, queueVars, quotaVars, worker, call, reader,
                 connected, lost, boundVars>>

\* The object first, then its record.
DeleteObject ==
  /\ scan.pc \in {"uploads", "orphans"}
  /\ \E k \in scan.list :
       \/ /\ objects' = objects \ {k}
          /\ ScanAt(IF scan.pc = "uploads" THEN "clear" ELSE "forget", scan.list)
          /\ UNCHANGED faults
       \/ Fault /\ ScanAt(scan.pc, scan.list \ {k}) /\ UNCHANGED objects
  /\ UNCHANGED <<dbVars, queueVars, quotaVars, worker, call, reader, connected,
                 lost, restarts, moves>>

ClearRecord ==
  /\ scan.pc \in {"clear", "forget"}
  /\ \E k \in scan.list \ objects :
       /\ \/ /\ scan.pc = "clear"
             /\ uploads' = [uploads EXCEPT ![k] = IF @ = "deleting" THEN "none" ELSE @]
             /\ UNCHANGED <<orphans, faults>>
          \/ scan.pc = "forget" /\ orphans' = orphans \ {k} /\ UNCHANGED <<uploads, faults>>
          \/ Fault /\ UNCHANGED <<uploads, orphans>>
       /\ ScanAt(IF scan.pc = "clear" THEN "uploads" ELSE "orphans", scan.list \ {k})
  /\ UNCHANGED <<row, objects, queueVars, quotaVars, worker, call, reader, connected,
                 lost, restarts, moves>>

ScanNext ==
  /\ scan.pc \in {"uploads", "orphans"} /\ scan.list = {}
  /\ IF scan.pc = "uploads" THEN ScanAt("orphans", orphans) ELSE ScanAt("idle", {})
  /\ UNCHANGED <<dbVars, objects, queueVars, quotaVars, worker, call, reader,
                 connected, lost, boundVars>>

---------------------------------------------------------------------------
(* OpenMedia                                                               *)

Turn(r, pc) == reader' = [reader EXCEPT ![r] =
                 IF pc = "idle" THEN Rest ELSE [@ EXCEPT !.pc = pc]]

GetMedia(r, k) ==
  /\ reader[r].pc = "idle"
  /\ row[k].avail \in {"ready", "remote"}
  /\ reader' = [reader EXCEPT ![r] =
       [pc |-> IF Remote(k) THEN "fetch" ELSE "open", item |-> k,
        key |-> row[k].key, version |-> row[k].version, ref |-> row[k].ref, block |-> row[k].block]]
  /\ UNCHANGED <<dbVars, objects, queueVars, quotaVars, worker, call, scan,
                 connected, lost, boundVars>>

\* The object is served, or found missing.
OpenObject(r) ==
  LET q == reader[r] IN
  /\ q.pc = "open"
  /\ Turn(r, IF q.key \in objects THEN "idle"
             ELSE IF q.ref THEN "missing" ELSE "gone")
  /\ UNCHANGED <<dbVars, objects, queueVars, quotaVars, worker, call, scan,
                 connected, lost, boundVars>>

\* MarkMediaRemote: the row is still the one that was read, or the call ends.
MissingIf(r, same) ==
  LET q == reader[r]  k == q.item IN
  /\ q.pc = "missing"
  /\ \/ /\ row[k].avail = "ready" /\ row[k].ref /\ same
        /\ row' = [row EXCEPT ![k] = [@ EXCEPT !.avail = "remote", !.key = None,
                     !.wait = FALSE, !.block = "", !.version = row[k].version + 1]]
        /\ Turn(r, "fetch")
     \/ ~(row[k].avail = "ready" /\ row[k].ref /\ same) /\ Turn(r, "idle") /\ UNCHANGED row
  /\ UNCHANGED <<uploads, orphans, objects, queueVars, quotaVars, worker, call, scan,
                 connected, lost, boundVars>>

MissingAnyway(r) == MissingIf(r, TRUE)  \* a mutant: the version is not compared
MarkMediaRemote(r) == MissingIf(r, row[reader[r].item].version = reader[r].version)

\* MarkMediaUnavailable: nothing can fetch it again.
MarkMediaUnavailable(r) ==
  LET k == reader[r].item IN
  /\ reader[r].pc = "gone"
  /\ row' = IF row[k].avail \in {"remote", "ready"}
              THEN [row EXCEPT ![k] = [@ EXCEPT !.avail = "unavailable", !.key = None,
                      !.auto = FALSE, !.wait = FALSE, !.block = ""]]
              ELSE row
  /\ Turn(r, "idle")
  /\ UNCHANGED <<uploads, orphans, objects, queueVars, quotaVars, worker, call, scan,
                 connected, lost, boundVars>>

\* A reader has the attachment downloaded, unless a limit that stopped it
\* before still does.
Fetch(r) ==
  LET q == reader[r]  k == q.item
      allowed == q.block = "" \/ (q.block = "quota" /\ HasRoom)
  IN
  /\ q.pc = "fetch"
  /\ Turn(r, "idle")
  /\ row' = IF q.ref /\ allowed /\ q.block # "" /\ Remote(k)
              THEN [row EXCEPT ![k] = [@ EXCEPT !.block = ""]] ELSE row
  /\ \/ q.ref /\ allowed /\ connected /\ QueueMedia(k)
     \/ ~(q.ref /\ allowed /\ connected /\ (k \in inflight \/ Len(queue) < QueueCap))
        /\ UNCHANGED queueVars
  /\ UNCHANGED <<uploads, orphans, objects, quotaVars, worker, call, scan, connected,
                 lost, boundVars>>

---------------------------------------------------------------------------
(* The rest of the system                                                  *)

\* saveAttachmentsTx: a message arrives, or comes once more with its history.
SaveAttachment(a) ==
  /\ \/ row[a].avail = "none" /\ a \in Attachment /\ UNCHANGED moves
     \/ Exists(a) /\ Move
  /\ \E auto \in BOOLEAN, ref \in {TRUE} \cup {~LateRefs} :
       row' = [row EXCEPT ![a] =
         [@ EXCEPT !.avail = IF row[a].avail = "ready" THEN "ready" ELSE "remote",
                   !.ref = row[a].ref \/ ref,
                   !.auto = row[a].block = "" /\ (row[a].auto \/ auto)]]
  /\ UNCHANGED <<uploads, orphans, objects, queueVars, quotaVars, worker, call,
                 reader, scan, connected, lost, faults, restarts>>

\* mergeAttachmentsTx: two copies of a message become one.  The target takes
\* the stored file of the source when it has none; a second one is an orphan.
MergeIf(t, s, given, second) ==
  /\ Exists(t) /\ Exists(s)
  /\ row' = [row EXCEPT
       ![t] = [@ EXCEPT
         !.avail = IF given \/ row[t].avail = "ready" THEN "ready"
                   ELSE IF row[s].avail = "remote" THEN "remote" ELSE row[t].avail,
         !.key = IF given THEN row[s].key ELSE row[t].key,
         !.ref = row[t].ref \/ row[s].ref,
         !.auto = row[t].block = "" /\ (row[t].auto \/ row[s].auto)],
       ![s] = [NoRow EXCEPT !.avail = "merged"]]
  /\ orphans' = IF second THEN orphans \cup {row[s].key} ELSE orphans
  /\ UNCHANGED <<uploads, objects, queueVars, quotaVars, worker, call, reader, scan,
                 connected, lost, boundVars>>

Given(t, s) == row[s].avail = "ready" /\ row[t].avail # "ready"

MergeOrphaning(t, s) ==  \* a mutant: the file that is taken over is an orphan, too
  MergeIf(t, s, Given(t, s), row[s].avail = "ready" /\ row[s].key # row[t].key)
MergeAttachments(t, s) ==
  MergeIf(t, s, Given(t, s),
          row[s].avail = "ready" /\ ~Given(t, s) /\ row[s].key # row[t].key)

\* Somebody else removes an object from the store.
LoseObject(k) ==
  /\ k \in objects
  /\ Move
  /\ objects' = objects \ {k}
  /\ lost' = lost \cup {k}
  /\ UNCHANGED <<dbVars, queueVars, quotaVars, worker, call, reader, scan, connected,
                 faults, restarts>>

Due(k) ==
  /\ row[k].wait
  /\ row' = [row EXCEPT ![k] = [@ EXCEPT !.wait = FALSE]]
  /\ UNCHANGED <<uploads, orphans, objects, queueVars, quotaVars, worker, call,
                 reader, scan, connected, lost, boundVars>>

Connection ==
  /\ connected' = ~connected
  /\ connected => Move
  /\ ~connected => UNCHANGED moves
  /\ UNCHANGED <<dbVars, objects, queueVars, quotaVars, worker, call, reader, scan,
                 lost, faults, restarts>>

\* The daemon stops; startMediaWorkers removes the staging files.
Restart ==
  /\ restarts < MaxRestarts
  /\ restarts' = restarts + 1
  /\ queue' = <<>> /\ inflight' = {}
  /\ temp' = 0 /\ stored' = 0
  /\ worker' = [w \in Worker |-> Idle]
  /\ call' = [u \in Upload |-> IF call[u] \in {"new", "known"} THEN call[u] ELSE "done"]
  /\ reader' = [r \in Reader |-> Rest]
  /\ ScanAt("idle", {})
  /\ connected' = FALSE
  /\ UNCHANGED <<dbVars, objects, lost, faults, moves>>

WorkerStep(w) ==
  \/ Dequeue(w) \/ ReadMedia(w) \/ DownloadMedia(w) \/ UpdateMediaRef(w)
  \/ ReserveMediaStorage(w) \/ PutMedia(w) \/ MarkMediaReady(w) \/ CheckMedia(w)
  \/ DeleteMedia(w) \/ Record(w) \/ Finish(w)

UploadStep(u) ==
  \/ ReserveUpload(u) \/ InsertUpload(u) \/ PutUpload(u) \/ MarkUploadReady(u)
  \/ DiscardUpload(u) \/ ReleaseUpload(u)

ScanStep ==
  \/ ListPendingMedia \/ ScanQueue \/ ListUploadsForCleanup \/ DeleteObject
  \/ ClearRecord \/ ScanNext

ReaderStep(r) ==
  \/ OpenObject(r) \/ MarkMediaRemote(r) \/ MarkMediaUnavailable(r) \/ Fetch(r)

Next ==
  \/ \E w \in Worker : WorkerStep(w)
  \/ \E u \in Upload : StageUpload(u) \/ UploadStep(u) \/ UseUpload(u) \/ DeleteUpload(u)
  \/ \E r \in Reader : ReaderStep(r) \/ \E k \in Item : GetMedia(r, k)
  \/ \E k \in Item : SaveAttachment(k) \/ LoseObject(k) \/ Due(k)
  \/ \E p \in Twins : MergeAttachments(p[1], p[2])
  \/ ScanStep \/ Connection \/ Restart

Spec == Init /\ [][Next]_vars

\* The goroutines run, time passes, and the provider lets a disconnected
\* account connect again.
FairSpec ==
  /\ Spec
  /\ \A w \in Worker : WF_vars(WorkerStep(w))
  /\ \A u \in Upload : WF_vars(UploadStep(u))
  /\ \A k \in Item : WF_vars(Due(k))
  /\ WF_vars(ScanStep) /\ WF_vars(Connection /\ connected')

---------------------------------------------------------------------------
(* Properties                                                              *)

RowType ==
  [avail : {"none", "remote", "ready", "unavailable", "merged"},
   key : Item \cup {None}, ref : BOOLEAN, auto : BOOLEAN, wait : BOOLEAN,
   tries : 0..MaxTries, block : {"", "too_large", "quota"}, version : Nat]

WorkerType ==
  [pc : {"idle", "read", "download", "reference", "reserve", "put", "mark", "check",
         "delete", "retry", "later", "block", "unavailable", "finish"},
   item : Item \cup {None}, tries : 0..MaxTries, staged : {0, 1}, held : {0, 1},
   out : {"ok", "gone", "large", "error", "quota"}]

ReaderType ==
  [pc : {"idle", "open", "missing", "gone", "fetch"}, item : Item \cup {None},
   key : Item \cup {None}, version : Nat, ref : BOOLEAN,
   block : {"", "too_large", "quota"}]

StoreTyped ==
  /\ row \in [Item -> RowType]
  /\ uploads \in [Upload -> {"none", "staging", "ready", "deleting"}]
  /\ orphans \subseteq Item /\ objects \subseteq Item /\ lost \subseteq Item

WorkersTyped ==
  /\ worker \in [Worker -> WorkerType]
  /\ \A w \in Worker : worker[w].pc # "idle" => worker[w].item \in Item

CallsTyped ==
  /\ call \in [Upload -> {"new", "reserve", "insert", "put", "mark", "discard",
                          "release", "answer", "known", "done"}]
  /\ reader \in [Reader -> ReaderType]
  /\ \A r \in Reader : reader[r].pc # "idle" => reader[r].item \in Item

QueueTyped ==
  /\ queue \in Seq(Item) /\ Len(queue) <= QueueCap /\ inflight \subseteq Item
  /\ scan \in [pc : {"idle", "queue", "list", "uploads", "clear", "orphans", "forget"},
               list : SUBSET Item]

BoundsTyped ==
  /\ temp \in 0..MaxTemp /\ stored \in 0..MaxTotal /\ connected \in BOOLEAN
  /\ faults \in 0..MaxFaults /\ restarts \in 0..MaxRestarts /\ moves \in 0..MaxMoves

\* Every variable has its type: the channel keeps to its capacity, the reservations
\* to their limits.
TypeOK == StoreTyped /\ WorkersTyped /\ CallsTyped /\ QueueTyped /\ BoundsTyped

\* configuration.md: max_total_bytes caps what is stored, however many
\* downloads and uploads measure the room at the same time.
QuotaHolds == StoredMediaBytes <= MaxTotal

\* Every reservation belongs to a download or an upload that is under way, on
\* all the paths that end one: nothing leaks, nothing is given back twice.
ReservationsMatch ==
  /\ temp = Cardinality({w \in Worker : worker[w].staged = 1})
            + Cardinality({u \in Upload : call[u] \notin {"new", "known", "done"}})
  /\ stored = Cardinality({w \in Worker : worker[w].held = 1})
              + Cardinality({u \in Upload : call[u] \notin {"new", "reserve", "known", "done"}})

RoomIsKept == QuotaHolds /\ ReservationsMatch

\* A row that is ready names an object in the store, unless somebody else
\* removed it: no cleanup deletes the object of another row, and a lost answer
\* of the database does not cost the file.
ReadyHasObject ==
  \A k \in Item : row[k].avail = "ready" => row[k].key \in objects \cup lost

\* An upload that can be used has its object, and so has the message that used
\* it: the scan never cleans an upload that a send takes at the same time.
UploadHasObject ==
  \A u \in Upload : uploads[u] = "ready" \/ row[u].avail = "ready" => u \in objects \cup lost

\* A stored file is given up only for one that is missing, or when its message
\* is merged into another copy.  The test TestStaleMissingObjectCannotClearNewMedia
\* states it for one way to lose it.
StoredIsKept ==
  [][\A k \in Item : row[k].avail = "ready" /\ row[k].key \in objects
                       => row'[k].avail \in {"ready", "merged"}]_vars

\* Every object is known: by the row or the upload it was stored for, by a row
\* that took it over, or as an orphan that the scan removes.
NothingLeaks ==
  \A k \in objects : \/ Exists(k) \/ k \in orphans
                     \/ \E j \in Item : row[j].key = k
                     \/ \E w \in Worker : worker[w].item = k
                     \/ k \in Upload /\ (uploads[k] # "none" \/ call[k] # "done")

\* A download that is under way by itself comes to an end when the account
\* stays connected: stored, unavailable, blocked, or left to a reader.
Pending(k) == Remote(k) /\ row[k].auto
DownloadsEnd == \A a \in Attachment : <>[]connected => (Pending(a) ~> ~Pending(a))

---------------------------------------------------------------------------
(* The inductive invariant behind RoomIsKept, ReadyHasObject and            *)
(* UploadHasObject                                                         *)

\* An attachment that is in flight is queued once or held by one worker.
QueueInv ==
  /\ \A i, j \in 1..Len(queue) : queue[i] = queue[j] => i = j
  /\ \A i \in 1..Len(queue) : queue[i] \in inflight
  /\ \A w \in Worker : worker[w].pc # "idle" =>
       /\ worker[w].item \in inflight
       /\ \A i \in 1..Len(queue) : queue[i] # worker[w].item
       /\ \A v \in Worker : worker[v].pc # "idle" /\ worker[v].item = worker[w].item => v = w

\* Only attachments with a row are queued, read and listed for a download.
KnownInv ==
  /\ \A k \in inflight : row[k].avail # "none"
  /\ \A r \in Reader : reader[r].pc # "idle" => row[reader[r].item].avail # "none"
  /\ scan.pc = "queue" => \A k \in scan.list : row[k].avail # "none"

\* A stored file has one row: the one it was stored for, or a copy that took it
\* over when that one was merged.
KeyInv ==
  \A k \in Item :
    /\ row[k].avail # "ready" => row[k].key = None
    /\ row[k].avail = "ready" =>
         /\ row[k].key = k \/ (row[k].key \in Item /\ row[row[k].key].avail = "merged")
         /\ \A j \in Item : row[j].key = row[k].key => j = k

\* An orphan is the file of a merged copy, and no row has it.
OrphanInv == \A k \in orphans : row[k].avail = "merged" /\ \A j \in Item : row[j].key # k

\* An upload has no row before its message has, and its call follows its state.
UploadInv ==
  \A u \in Upload :
    /\ row[u].avail # "merged" /\ (row[u].avail = "ready" => row[u].key = u)
    /\ uploads[u] # "none" \/ call[u] # "done" => row[u].avail = "none"
    /\ call[u] \in {"new", "reserve", "insert"} => uploads[u] = "none"
    /\ call[u] \in {"put", "mark"} => uploads[u] = "staging"
    /\ uploads[u] = "ready" \/ call[u] = "mark" => u \in objects \cup lost

\* What the scan is about to remove is an orphan, or an upload on its way out.
ScanInv ==
  /\ scan.pc \in {"uploads", "clear"}
       => \A k \in scan.list : k \in Upload /\ uploads[k] = "deleting"
  /\ scan.pc \in {"orphans", "forget"} => scan.list \subseteq orphans

\* A worker that may remove the object of its attachment knows that no row has it;
\* one that may mark it ready has stored it.
DownloadInv ==
  \A w \in Worker : LET k == worker[w].item IN
    /\ worker[w].pc \in {"download", "reference", "reserve", "put", "delete"}
         => \A j \in Item : row[j].key # k
    /\ worker[w].pc = "mark" /\ Exists(k) => k \in objects \cup lost

\* A reservation is made once.
ReservedInv ==
  \A w \in Worker :
    /\ worker[w].pc \in {"idle", "read"} => worker[w].staged = 0
    /\ worker[w].pc \in {"idle", "read", "download", "reference", "reserve"}
         => worker[w].held = 0
    /\ worker[w].pc \in {"put", "mark"} => worker[w].held = 1

\* What is stored, and what a reservation is still to be used for
RoomInv ==
  StoredMediaBytes + Cardinality({w \in Worker : worker[w].pc \in {"put", "mark"}})
    + Cardinality({u \in Upload : call[u] = "insert"}) <= MaxTotal

StoreInv == /\ QueueInv /\ KnownInv /\ KeyInv /\ OrphanInv /\ UploadInv /\ ScanInv
            /\ DownloadInv /\ ReadyHasObject
QuotaInv == ReservedInv /\ ReservationsMatch /\ RoomInv
=============================================================================
