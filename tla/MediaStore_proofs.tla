-------------------------- MODULE MediaStore_proofs --------------------------
(***************************************************************************)
(* Proofs about MediaStore, for all sets of attachments, uploads, workers  *)
(* and readers, any copies that may be merged, and any limits: its types;  *)
(* that what is stored stays within the quota and every reservation is     *)
(* given back once; that a row or an upload that is ready has its object;  *)
(* of what row or upload every object is; and what takes a stored file     *)
(* from its row.                                                           *)
(***************************************************************************)
EXTENDS MediaStore, FiniteSetTheorems, TLAPS

---------------------------------------------------------------------------
(* Types                                                                   *)

LEMMA EmptySequence == ASSUME NEW S PROVE <<>> \in Seq(S)
OBVIOUS

LEMMA IdleTyped == Idle \in WorkerType /\ Rest \in ReaderType /\ NoRow \in RowType
BY MediaAssumption DEF Idle, Rest, NoRow, WorkerType, ReaderType, RowType

\* A row, a worker and a reader that change
LEMMA RowSet ==
  ASSUME StoreTyped, NEW k \in Item, NEW x \in RowType, row' = [row EXCEPT ![k] = x]
  PROVE  /\ row' \in [Item -> RowType] /\ row'[k] = x
         /\ \A j \in Item : j # k => row'[j] = row[j]
BY DEF StoreTyped

LEMMA WorkerSet ==
  ASSUME WorkersTyped, NEW w \in Worker, NEW x \in WorkerType,
         x.pc # "idle" => x.item \in Item, worker' = [worker EXCEPT ![w] = x]
  PROVE  /\ WorkersTyped' /\ worker'[w] = x
         /\ \A v \in Worker : v # w => worker'[v] = worker[v]
BY DEF WorkersTyped

LEMMA ReaderSet ==
  ASSUME CallsTyped, NEW r \in Reader, NEW x \in ReaderType,
         x.pc # "idle" => x.item \in Item, reader' = [reader EXCEPT ![r] = x],
         UNCHANGED call
  PROVE  /\ CallsTyped' /\ reader'[r] = x
         /\ \A q \in Reader : q # r => reader'[q] = reader[q]
BY DEF CallsTyped

WorkerPC == {"idle", "read", "download", "reference", "reserve", "put", "mark", "check",
             "delete", "retry", "later", "block", "unavailable", "finish"}

\* A worker that goes on with the same attachment
LEMMA WorkerGoes ==
  ASSUME WorkersTyped, NEW w \in Worker, worker[w].pc # "idle", NEW pc \in WorkerPC \ {"idle"},
         Go(w, pc)
  PROVE  /\ WorkersTyped' /\ worker'[w] = [worker[w] EXCEPT !.pc = pc]
         /\ \A v \in Worker : v # w => worker'[v] = worker[v]
<1> DEFINE x == [worker[w] EXCEPT !.pc = pc]
<1>1. x \in WorkerType /\ x.item \in Item
  BY DEF WorkersTyped, WorkerType, WorkerPC
<1>2. worker' = [worker EXCEPT ![w] = x]
  BY DEF Go
<1>3. x = [worker[w] EXCEPT !.pc = pc]
  OBVIOUS
<1> HIDE DEF x
<1> QED
  BY <1>1, <1>2, <1>3, WorkerSet

\* What a step of a worker does to it: where it goes, and what it holds
WorkerTo(w, pcs) ==
  /\ WorkersTyped'
  /\ \A v \in Worker : v # w => worker'[v] = worker[v]
  /\ worker'[w].pc \in pcs /\ worker'[w].item = worker[w].item

WorkerKeeps(w) ==
  worker'[w].staged = worker[w].staged /\ worker'[w].held = worker[w].held

LEMMA WorkerGoesTo ==
  ASSUME WorkersTyped, NEW w \in Worker, worker[w].pc # "idle",
         NEW pcs \in SUBSET (WorkerPC \ {"idle"}), \E pc \in pcs : Go(w, pc)
  PROVE  WorkerTo(w, pcs) /\ WorkerKeeps(w)
<1>1. PICK pc \in pcs : Go(w, pc)
  OBVIOUS
<1>2. worker[w] \in WorkerType /\ pc \in WorkerPC \ {"idle"}
  BY DEF WorkersTyped
<1>3. worker'[w] = [worker[w] EXCEPT !.pc = pc]
  BY <1>1, <1>2, WorkerGoes
<1>4. /\ worker'[w].pc = pc /\ worker'[w].item = worker[w].item
      /\ worker'[w].staged = worker[w].staged /\ worker'[w].held = worker[w].held
  BY <1>2, <1>3 DEF WorkerType
<1> QED
  BY <1>1, <1>2, <1>4, WorkerGoes DEF WorkerTo, WorkerKeeps

LEMMA DequeueEffect ==
  ASSUME WorkersTyped, QueueTyped, NEW w \in Worker, Dequeue(w)
  PROVE  /\ WorkersTyped' /\ worker[w].pc = "idle" /\ queue # <<>>
         /\ \A v \in Worker : v # w => worker'[v] = worker[v]
         /\ worker'[w].pc = "read" /\ worker'[w].item = Head(queue)
         /\ worker'[w].staged = 0 /\ worker'[w].held = 0
         /\ queue' = Tail(queue)
         /\ UNCHANGED <<dbVars, objects, inflight, quotaVars, call, reader, scan,
                        connected, lost, boundVars>>
<1> DEFINE x == [Idle EXCEPT !.pc = "read", !.item = Head(queue)]
<1>1. Head(queue) \in Item
  BY DEF Dequeue, QueueTyped
<1>2. /\ x \in WorkerType /\ x.pc = "read" /\ x.item = Head(queue) /\ x.staged = 0 /\ x.held = 0
  BY <1>1, IdleTyped DEF Idle, WorkerType
<1>3. worker' = [worker EXCEPT ![w] = x]
  BY DEF Dequeue
<1> HIDE DEF x
<1> QED
  BY <1>1, <1>2, <1>3, WorkerSet DEF Dequeue

LEMMA ReadMediaEffect ==
  ASSUME StoreTyped, WorkersTyped, NEW w \in Worker, ReadMedia(w)
  PROVE  /\ worker[w].pc = "read"
         /\ WorkerTo(w, {"finish", "unavailable", "later", "download"})
         /\ worker'[w].held = worker[w].held
         /\ \/ /\ worker'[w].pc = "download" /\ Remote(worker[w].item)
               /\ worker'[w].staged = 1 /\ temp < MaxTemp /\ temp' = temp + 1
            \/ /\ worker'[w].pc # "download" /\ worker'[w].staged = 0
               /\ UNCHANGED temp
         /\ UNCHANGED <<dbVars, objects, queueVars, stored, call, reader, scan,
                        connected, lost, restarts, moves>>
         /\ UNCHANGED faults \/ Fault
<1> DEFINE x(pc, n) == [worker[w] EXCEPT !.pc = pc, !.tries = row[worker[w].item].tries,
                                         !.staged = n]
<1>1. worker[w] \in WorkerType /\ worker[w].item \in Item /\ worker[w].pc = "read"
  BY DEF ReadMedia, WorkersTyped
<1>2. row[worker[w].item].tries \in 0..MaxTries
  BY <1>1 DEF StoreTyped, RowType
<1>3. ASSUME NEW pc \in {"finish", "unavailable", "later", "download"}, NEW n \in {0, 1}
      PROVE  /\ x(pc, n) \in WorkerType /\ x(pc, n).pc = pc
             /\ x(pc, n).item = worker[w].item /\ x(pc, n).staged = n
             /\ x(pc, n).held = worker[w].held
  BY <1>1, <1>2 DEF WorkerType
<1> HIDE DEF x
<1>4. ASSUME NEW pc \in {"finish", "unavailable", "later", "download"}, NEW n \in {0, 1},
             worker' = [worker EXCEPT ![w] = x(pc, n)]
      PROVE  /\ WorkerTo(w, {"finish", "unavailable", "later", "download"})
             /\ worker'[w].held = worker[w].held
             /\ worker'[w].pc = pc /\ worker'[w].staged = n
  <2>1. PICK y : y = x(pc, n)
    OBVIOUS
  <2>2. /\ y \in WorkerType /\ y.pc = pc /\ y.item = worker[w].item /\ y.staged = n
        /\ y.held = worker[w].held /\ worker' = [worker EXCEPT ![w] = y]
    BY <1>3, <1>4, <2>1
  <2>3. /\ WorkersTyped' /\ worker'[w] = y
        /\ \A v \in Worker : v # w => worker'[v] = worker[v]
    BY <1>1, <2>2, WorkerSet
  <2> QED
    BY <2>2, <2>3 DEF WorkerTo
<1>5. \/ /\ worker' = [worker EXCEPT ![w] = x("finish", 0)] /\ UNCHANGED temp
         /\ UNCHANGED faults \/ Fault
      \/ /\ worker' = [worker EXCEPT ![w] = x("unavailable", 0)] /\ UNCHANGED <<temp, faults>>
      \/ /\ worker' = [worker EXCEPT ![w] = x("later", 0)] /\ UNCHANGED <<temp, faults>>
      \/ /\ worker' = [worker EXCEPT ![w] = x("download", 1)] /\ UNCHANGED faults
         /\ Remote(worker[w].item) /\ temp < MaxTemp /\ temp' = temp + 1
  BY DEF ReadMedia, x
<1>6. UNCHANGED <<dbVars, objects, queueVars, stored, call, reader, scan, connected, lost,
                  restarts, moves>>
  BY DEF ReadMedia
<1> QED
  BY <1>1, <1>4, <1>5, <1>6

\* A worker whose outcome, or reservation, changes as it goes on
LEMMA WorkerOut ==
  ASSUME WorkersTyped, NEW w \in Worker, worker[w].pc # "idle", NEW pc \in WorkerPC \ {"idle"},
         NEW out \in {"ok", "gone", "large", "error", "quota"},
         worker' = [worker EXCEPT ![w] = [@ EXCEPT !.pc = pc, !.out = out]]
  PROVE  WorkerTo(w, {pc}) /\ WorkerKeeps(w)
<1> DEFINE x == [worker[w] EXCEPT !.pc = pc, !.out = out]
<1>1. worker[w] \in WorkerType /\ worker[w].item \in Item
  BY DEF WorkersTyped
<1>2. /\ x \in WorkerType /\ x.pc = pc /\ x.item = worker[w].item
      /\ x.staged = worker[w].staged /\ x.held = worker[w].held
  BY <1>1 DEF WorkerType, WorkerPC
<1>3. worker' = [worker EXCEPT ![w] = x]
  OBVIOUS
<1> HIDE DEF x
<1> QED
  BY <1>1, <1>2, <1>3, WorkerSet DEF WorkerTo, WorkerKeeps

LEMMA WorkerHolds ==
  ASSUME WorkersTyped, NEW w \in Worker, worker[w].pc # "idle",
         worker' = [worker EXCEPT ![w] = [@ EXCEPT !.pc = "put", !.held = 1]]
  PROVE  WorkerTo(w, {"put"}) /\ worker'[w].staged = worker[w].staged /\ worker'[w].held = 1
<1> DEFINE x == [worker[w] EXCEPT !.pc = "put", !.held = 1]
<1>1. worker[w] \in WorkerType /\ worker[w].item \in Item
  BY DEF WorkersTyped
<1>2. /\ x \in WorkerType /\ x.pc = "put" /\ x.item = worker[w].item
      /\ x.staged = worker[w].staged /\ x.held = 1
  BY <1>1 DEF WorkerType
<1>3. worker' = [worker EXCEPT ![w] = x]
  OBVIOUS
<1> HIDE DEF x
<1> QED
  BY <1>1, <1>2, <1>3, WorkerSet DEF WorkerTo

LEMMA DownloadMediaEffect ==
  ASSUME WorkersTyped, NEW w \in Worker, DownloadMedia(w)
  PROVE  /\ worker[w].pc = "download"
         /\ WorkerTo(w, {"reference", "reserve", "block", "unavailable", "retry"})
         /\ WorkerKeeps(w)
<1>1. PICK out \in {"ok", "gone", "large", "error"}, new \in BOOLEAN :
        worker' = [worker EXCEPT ![w] =
          [@ EXCEPT !.pc = IF new THEN "reference" ELSE Outcome(out), !.out = out]]
  BY DEF DownloadMedia
<1> DEFINE pc == IF new THEN "reference" ELSE Outcome(out)
<1>2. pc \in {"reference", "reserve", "block", "unavailable", "retry"}
  BY DEF Outcome
<1>3. worker[w].pc = "download" /\ pc \in WorkerPC \ {"idle"}
  BY <1>2 DEF DownloadMedia, WorkerPC
<1>4. worker' = [worker EXCEPT ![w] = [@ EXCEPT !.pc = pc, !.out = out]]
  BY <1>1
<1> HIDE DEF pc
<1>5. WorkerTo(w, {pc}) /\ WorkerKeeps(w)
  BY <1>3, <1>4, WorkerOut
<1> QED
  BY <1>2, <1>3, <1>5 DEF WorkerTo

LEMMA UpdateMediaRefWorker ==
  ASSUME WorkersTyped, NEW w \in Worker, UpdateMediaRef(w)
  PROVE  /\ worker[w].pc = "reference"
         /\ WorkerTo(w, {"reserve", "block", "unavailable", "retry"})
         /\ WorkerKeeps(w)
<1> DEFINE pcs == {"reserve", "block", "unavailable", "retry"}
<1>1. worker[w].pc = "reference" /\ \E pc \in pcs : Go(w, pc)
  BY DEF UpdateMediaRef, Outcome
<1>2. pcs \in SUBSET (WorkerPC \ {"idle"})
  BY DEF WorkerPC
<1> HIDE DEF pcs
<1>3. WorkerTo(w, pcs) /\ WorkerKeeps(w)
  BY <1>1, <1>2, WorkerGoesTo
<1> QED
  BY <1>1, <1>3 DEF pcs

LEMMA ReserveEffect ==
  ASSUME WorkersTyped, NEW w \in Worker, ReserveMediaStorage(w)
  PROVE  /\ worker[w].pc = "reserve"
         /\ WorkerTo(w, {"put", "block", "retry"})
         /\ worker'[w].staged = worker[w].staged
         /\ \/ /\ worker'[w].pc = "put" /\ worker'[w].held = 1
               /\ HasRoom /\ stored' = stored + 1
            \/ /\ worker'[w].pc \in {"block", "retry"} /\ worker'[w].held = worker[w].held
               /\ UNCHANGED stored
<1>1. worker[w].pc = "reserve"
  BY DEF ReserveMediaStorage, ReserveIf
<1>2. CASE /\ HasRoom /\ stored' = stored + 1
           /\ worker' = [worker EXCEPT ![w] = [@ EXCEPT !.pc = "put", !.held = 1]]
  BY <1>1, <1>2, WorkerHolds DEF WorkerTo
<1>3. CASE /\ worker' = [worker EXCEPT ![w] = [@ EXCEPT !.pc = "block", !.out = "quota"]]
           /\ UNCHANGED stored
  <2>1. "block" \in WorkerPC \ {"idle"}
    BY DEF WorkerPC
  <2> QED
    BY <1>1, <1>3, <2>1, WorkerOut DEF WorkerTo, WorkerKeeps
<1>4. CASE Go(w, "retry") /\ UNCHANGED stored
  <2>1. {"retry"} \in SUBSET (WorkerPC \ {"idle"}) /\ \E pc \in {"retry"} : Go(w, pc)
    BY <1>4 DEF WorkerPC
  <2>2. WorkerTo(w, {"retry"}) /\ WorkerKeeps(w)
    BY <1>1, <2>1, WorkerGoesTo
  <2> QED
    BY <1>1, <1>4, <2>2 DEF WorkerTo, WorkerKeeps
<1> QED
  BY <1>2, <1>3, <1>4 DEF ReserveMediaStorage, ReserveIf

LEMMA PutMediaEffect ==
  ASSUME WorkersTyped, NEW w \in Worker, PutMedia(w)
  PROVE  /\ worker[w].pc = "put" /\ WorkerKeeps(w)
         /\ \/ WorkerTo(w, {"mark"}) /\ worker[w].item \in objects'
            \/ WorkerTo(w, {"delete"})
         /\ objects' \in {objects, objects \cup {worker[w].item}}
         /\ objects \cup lost \subseteq objects' \cup lost'
         /\ lost' \subseteq lost
<1>1. worker[w].pc = "put" /\ worker[w].pc # "idle"
  BY DEF PutMedia
<1>2. ASSUME NEW pc \in {"mark", "delete"}, Go(w, pc)
      PROVE  WorkerTo(w, {pc}) /\ WorkerKeeps(w)
  <2>1. {pc} \in SUBSET (WorkerPC \ {"idle"}) /\ \E p \in {pc} : Go(w, p)
    BY <1>2 DEF WorkerPC
  <2> QED
    BY <1>1, <2>1, WorkerGoesTo
<1>3. CASE objects' = objects \cup {worker[w].item} /\ Go(w, "mark")
  BY <1>1, <1>2, <1>3 DEF PutMedia
<1>4. CASE Go(w, "delete") /\ objects' \in {objects, objects \cup {worker[w].item}}
  BY <1>1, <1>2, <1>4 DEF PutMedia
<1> QED
  BY <1>3, <1>4 DEF PutMedia

LEMMA MarkWorker ==
  ASSUME WorkersTyped, NEW w \in Worker, MarkMediaReady(w)
  PROVE  /\ worker[w].pc = "mark" /\ WorkerTo(w, {"finish", "check"}) /\ WorkerKeeps(w)
         /\ worker'[w].pc = "finish" => Remote(worker[w].item)
<1> DEFINE pcs == {"finish", "check"}
<1>1. worker[w].pc = "mark" /\ \E pc \in pcs : Go(w, pc)
  BY DEF MarkMediaReady
<1>2. pcs \in SUBSET (WorkerPC \ {"idle"})
  BY DEF WorkerPC
<1>3. CASE Go(w, "check")
  <2>1. "check" \in WorkerPC \ {"idle"} /\ worker[w].pc # "idle" /\ worker[w] \in WorkerType
    BY <1>1 DEF WorkerPC, WorkersTyped
  <2>2. worker'[w] = [worker[w] EXCEPT !.pc = "check"]
    BY <1>3, <2>1, WorkerGoes
  <2>3. worker'[w].pc = "check"
    BY <2>1, <2>2 DEF WorkerType
  <2> HIDE DEF pcs
  <2>4. WorkerTo(w, pcs) /\ WorkerKeeps(w)
    BY <1>1, <1>2, WorkerGoesTo
  <2> QED
    BY <1>1, <2>3, <2>4 DEF pcs
<1>4. CASE Remote(worker[w].item)
  <2> HIDE DEF pcs
  <2>3. WorkerTo(w, pcs) /\ WorkerKeeps(w)
    BY <1>1, <1>2, WorkerGoesTo
  <2> QED
    BY <1>1, <1>4, <2>3 DEF pcs
<1> QED
  BY <1>3, <1>4 DEF MarkMediaReady

LEMMA CheckMediaEffect ==
  ASSUME WorkersTyped, NEW w \in Worker, CheckMedia(w)
  PROVE  /\ worker[w].pc = "check" /\ WorkerTo(w, {"delete", "retry"}) /\ WorkerKeeps(w)
         /\ worker'[w].pc = "delete" =>
              /\ Exists(worker[w].item)
              /\ row[worker[w].item].avail # "ready" \/ row[worker[w].item].key # worker[w].item
<1>1. worker[w].pc = "check" /\ worker[w].pc # "idle" /\ worker[w] \in WorkerType
  BY DEF CheckMedia, WorkersTyped
<1>2. ASSUME NEW pc \in {"delete", "retry"}, Go(w, pc)
      PROVE  WorkerTo(w, {pc}) /\ WorkerKeeps(w)
  <2>1. {pc} \in SUBSET (WorkerPC \ {"idle"}) /\ \E p \in {pc} : Go(w, p)
    BY <1>2 DEF WorkerPC
  <2> QED
    BY <1>1, <2>1, WorkerGoesTo
<1> QED
  BY <1>1, <1>2 DEF CheckMedia, WorkerTo

LEMMA DeleteMediaEffect ==
  ASSUME WorkersTyped, NEW w \in Worker, DeleteMedia(w)
  PROVE  /\ worker[w].pc = "delete" /\ WorkerTo(w, {"retry"}) /\ WorkerKeeps(w)
         /\ objects \ {worker[w].item} \subseteq objects' /\ objects' \subseteq objects
<1>1. worker[w].pc = "delete" /\ worker[w].pc # "idle"
  BY DEF DeleteMedia
<1>2. {"retry"} \in SUBSET (WorkerPC \ {"idle"}) /\ \E p \in {"retry"} : Go(w, p)
  BY DEF WorkerPC, DeleteMedia
<1> QED
  BY <1>1, <1>2, WorkerGoesTo DEF DeleteMedia

LEMMA RecordWorker ==
  ASSUME WorkersTyped, NEW w \in Worker, Record(w)
  PROVE  /\ worker[w].pc \in {"retry", "later", "block", "unavailable"}
         /\ WorkerTo(w, {"finish"}) /\ WorkerKeeps(w)
<1>1. worker[w].pc \in {"retry", "later", "block", "unavailable"} /\ worker[w].pc # "idle"
  BY DEF Record
<1>2. {"finish"} \in SUBSET (WorkerPC \ {"idle"}) /\ \E p \in {"finish"} : Go(w, p)
  BY DEF WorkerPC, Record
<1> QED
  BY <1>1, <1>2, WorkerGoesTo

LEMMA FinishEffect ==
  ASSUME WorkersTyped, NEW w \in Worker, Finish(w)
  PROVE  /\ worker[w].pc = "finish" /\ WorkersTyped'
         /\ \A v \in Worker : v # w => worker'[v] = worker[v]
         /\ worker'[w].pc = "idle" /\ worker'[w].staged = 0 /\ worker'[w].held = 0
         /\ inflight' = inflight \ {worker[w].item}
         /\ temp' = temp - worker[w].staged /\ stored' = stored - worker[w].held
<1>1. PICK x : x = Idle
  OBVIOUS
<1>2. x \in WorkerType /\ x.pc = "idle" /\ x.staged = 0 /\ x.held = 0
  BY <1>1, IdleTyped DEF Idle
<1>3. worker' = [worker EXCEPT ![w] = x]
  BY <1>1 DEF Finish, FinishWith
<1>4. /\ WorkersTyped' /\ worker'[w] = x
      /\ \A v \in Worker : v # w => worker'[v] = worker[v]
  BY <1>2, <1>3, WorkerSet
<1> QED
  BY <1>2, <1>4 DEF Finish, FinishWith

\* The steps of the others leave the workers alone.
LEMMA WorkerFrame ==
  ASSUME \/ \E u \in Upload : StageUpload(u) \/ UploadStep(u) \/ UseUpload(u) \/ DeleteUpload(u)
         \/ \E r \in Reader : ReaderStep(r) \/ \E k \in Item : GetMedia(r, k)
         \/ \E k \in Item : SaveAttachment(k) \/ LoseObject(k) \/ Due(k)
         \/ \E p \in Twins : MergeAttachments(p[1], p[2])
         \/ ScanStep \/ Connection \/ UNCHANGED vars
  PROVE  UNCHANGED worker
<1>1. ASSUME NEW u \in Upload,
             StageUpload(u) \/ UploadStep(u) \/ UseUpload(u) \/ DeleteUpload(u)
      PROVE  UNCHANGED worker
  BY <1>1, Zenon DEF StageUpload, UploadStep, ReserveUpload, InsertUpload, PutUpload, MarkUploadReady,
              DiscardUpload, DiscardTo, ReleaseUpload, UseUpload, UseIf, DeleteUpload
<1>2. ASSUME NEW r \in Reader, ReaderStep(r) \/ \E k \in Item : GetMedia(r, k)
      PROVE  UNCHANGED worker
  BY <1>2, Zenon DEF ReaderStep, GetMedia, OpenObject, MarkMediaRemote, MissingIf,
              MarkMediaUnavailable, Fetch
<1>3. ASSUME NEW k \in Item, SaveAttachment(k) \/ LoseObject(k) \/ Due(k)
      PROVE  UNCHANGED worker
  BY <1>3, Zenon DEF SaveAttachment, LoseObject, Due
<1>4. ASSUME NEW p \in Twins, MergeAttachments(p[1], p[2])
      PROVE  UNCHANGED worker
  BY <1>4, Zenon DEF MergeAttachments, MergeIf
<1>5. ASSUME ScanStep \/ Connection \/ UNCHANGED vars
      PROVE  UNCHANGED worker
  BY <1>5 DEF ScanStep, ListPendingMedia, ScanQueue, ListUploadsForCleanup, DeleteObject,
              ClearRecord, ScanNext, Connection, vars
<1> QED
  BY <1>1, <1>2, <1>3, <1>4, <1>5

LEMMA WorkersStep ==
  ASSUME StoreTyped, WorkersTyped, QueueTyped, [Next]_vars PROVE WorkersTyped'
<1>1. ASSUME NEW w \in Worker, WorkerStep(w)
      PROVE  WorkersTyped'
  BY <1>1, DequeueEffect, ReadMediaEffect, DownloadMediaEffect, UpdateMediaRefWorker,
     ReserveEffect, PutMediaEffect, MarkWorker, CheckMediaEffect, DeleteMediaEffect,
     RecordWorker, FinishEffect DEF WorkerStep, WorkerTo
<1>2. CASE Restart
  BY <1>2, IdleTyped DEF Restart, WorkersTyped, Idle
<1>3. CASE UNCHANGED worker
  BY <1>3 DEF WorkersTyped
<1> QED
  BY <1>1, <1>2, <1>3, WorkerFrame DEF Next

---------------------------------------------------------------------------
(* The rows                                                                *)

\* A row that changes without a new file: it may lose the one it has.
Fades(k, old, new) ==
  \/ new.avail = old.avail /\ new.key = old.key
  \/ /\ new.avail \in {"remote", "unavailable"} /\ new.key \in {None, old.key}
     /\ old.avail = "ready" => new.key = None
     /\ old.avail # "merged" /\ (k \in Upload => old.avail # "none")

RowsFade ==
  /\ row' \in [Item -> RowType]
  /\ \A k \in Item : Fades(k, row[k], row'[k])

LEMMA OneFades ==
  ASSUME StoreTyped, NEW k \in Item, NEW x \in RowType, Fades(k, row[k], x),
         row' = [row EXCEPT ![k] = x]
  PROVE  RowsFade
BY RowSet DEF RowsFade, Fades

LEMMA NoneFades == ASSUME StoreTyped, UNCHANGED row PROVE RowsFade
BY DEF RowsFade, Fades, StoreTyped

LEMMA UpdateMediaRefRow ==
  ASSUME StoreTyped, WorkersTyped, NEW w \in Worker, UpdateMediaRef(w)
  PROVE  RowsFade
<1> DEFINE k == worker[w].item
           x == [row[k] EXCEPT !.ref = TRUE, !.avail = "remote"]
<1>1. k \in Item /\ row[k] \in RowType
  BY DEF UpdateMediaRef, WorkersTyped, StoreTyped
<1>2. CASE /\ row[k].avail \in {"remote", "unavailable"}
           /\ row' = [row EXCEPT ![k] = x]
  <2>1. x \in RowType /\ x.avail = "remote" /\ x.key = row[k].key
    BY <1>1 DEF RowType
  <2>2. Fades(k, row[k], x)
    BY <1>2, <2>1 DEF Fades
  <2> HIDE DEF x
  <2> QED
    BY <1>1, <1>2, <2>1, <2>2, OneFades
<1>3. CASE UNCHANGED row
  BY <1>3, NoneFades
<1> QED
  BY <1>2, <1>3 DEF UpdateMediaRef

LEMMA RowTries ==
  ASSUME NEW old \in RowType, NEW n \in 0..MaxTries, NEW b \in {TRUE, FALSE}, NEW x,
         x = [old EXCEPT !.wait = b, !.auto = b, !.tries = n]
  PROVE  x \in RowType /\ x.avail = old.avail /\ x.key = old.key
<1>1. x = [avail |-> old.avail, key |-> old.key, ref |-> old.ref, auto |-> b, wait |-> b,
           tries |-> n, block |-> old.block, version |-> old.version]
  BY DEF RowType
<1> QED
  BY <1>1 DEF RowType

LEMMA RowBlocks ==
  ASSUME NEW old \in RowType, NEW b \in {"quota", "too_large"}, NEW x,
         x = [old EXCEPT !.wait = FALSE, !.auto = FALSE, !.block = b]
  PROVE  x \in RowType /\ x.avail = old.avail /\ x.key = old.key
<1>1. x = [avail |-> old.avail, key |-> old.key, ref |-> old.ref, auto |-> FALSE,
           wait |-> FALSE, tries |-> old.tries, block |-> b, version |-> old.version]
  BY DEF RowType
<1>2. b \in {"", "quota", "too_large"}
  OBVIOUS
<1> QED
  BY <1>1, <1>2 DEF RowType

LEMMA RecordRow ==
  ASSUME StoreTyped, WorkersTyped, NEW w \in Worker, Record(w)
  PROVE  RowsFade
<1> DEFINE k == worker[w].item
           r == worker[w]
           old == row[k]
           x == CASE r.pc = "retry" -> [old EXCEPT !.wait = r.tries + 1 < MaxTries,
                                                   !.auto = r.tries + 1 < MaxTries,
                                                   !.tries = IF r.tries < MaxTries
                                                             THEN r.tries + 1 ELSE MaxTries]
                  [] r.pc = "later" -> [old EXCEPT !.wait = TRUE, !.auto = TRUE,
                                                   !.tries = r.tries]
                  [] r.pc = "block" -> [old EXCEPT !.wait = FALSE, !.auto = FALSE,
                                                   !.block = IF r.out = "quota" THEN "quota"
                                                             ELSE "too_large"]
                  [] OTHER -> [old EXCEPT !.avail = "unavailable", !.key = None,
                                          !.auto = FALSE, !.wait = FALSE, !.block = ""]
<1>1. k \in Item /\ old \in RowType /\ r \in WorkerType
  BY DEF Record, WorkersTyped, StoreTyped
<1>2. /\ r.pc \in {"retry", "later", "block", "unavailable"}
      /\ \/ UNCHANGED row
         \/ /\ Remote(k) \/ (r.pc = "unavailable" /\ old.avail = "ready")
            /\ row' = [row EXCEPT ![k] = x]
  BY DEF Record
<1>3. CASE /\ Remote(k) \/ (r.pc = "unavailable" /\ old.avail = "ready")
           /\ row' = [row EXCEPT ![k] = x]
  <2>1. CASE r.pc = "retry"
    <3>1. PICK n \in 0..MaxTries :
            \/ x = [old EXCEPT !.wait = TRUE, !.auto = TRUE, !.tries = n]
            \/ x = [old EXCEPT !.wait = FALSE, !.auto = FALSE, !.tries = n]
      <4>1. \/ (r.tries + 1 < MaxTries) = TRUE
            \/ (r.tries + 1 < MaxTries) = FALSE
        OBVIOUS
      <4>2. (IF r.tries < MaxTries THEN r.tries + 1 ELSE MaxTries) \in 0..MaxTries
        BY <1>1, MediaAssumption DEF WorkerType
      <4> QED
        BY <2>1, <4>1, <4>2
    <3> HIDE DEF x, old
    <3>2. x \in RowType /\ x.avail = old.avail /\ x.key = old.key
      <4>1. CASE x = [old EXCEPT !.wait = TRUE, !.auto = TRUE, !.tries = n]
        BY <1>1, <4>1, RowTries, Zenon
      <4>2. CASE x = [old EXCEPT !.wait = FALSE, !.auto = FALSE, !.tries = n]
        BY <1>1, <4>2, RowTries, Zenon
      <4> QED
        BY <3>1, <4>1, <4>2
    <3>3. Fades(k, row[k], x)
      BY <3>2 DEF Fades, old
    <3> QED
      BY <1>1, <1>3, <3>2, <3>3, OneFades
  <2>2. CASE r.pc = "later"
    <3>1. PICK n \in 0..MaxTries : x = [old EXCEPT !.wait = TRUE, !.auto = TRUE, !.tries = n]
      BY <1>1, <2>2 DEF WorkerType
    <3> HIDE DEF x, old
    <3>2. x \in RowType /\ x.avail = old.avail /\ x.key = old.key
      <4>1. CASE x = [old EXCEPT !.wait = TRUE, !.auto = TRUE, !.tries = n]
        BY <1>1, <4>1, RowTries, Zenon
      <4> QED
        BY <3>1, <4>1
    <3>3. Fades(k, row[k], x)
      BY <3>2 DEF Fades, old
    <3> QED
      BY <1>1, <1>3, <3>2, <3>3, OneFades
  <2>3. CASE r.pc = "block"
    <3>1. PICK b \in {"quota", "too_large"} :
            x = [old EXCEPT !.wait = FALSE, !.auto = FALSE, !.block = b]
      BY <2>3
    <3> HIDE DEF x, old
    <3>2. x \in RowType /\ x.avail = old.avail /\ x.key = old.key
      <4>1. CASE x = [old EXCEPT !.wait = FALSE, !.auto = FALSE, !.block = b]
        BY <1>1, <4>1, RowBlocks, Zenon
      <4> QED
        BY <3>1, <4>1
    <3>3. Fades(k, row[k], x)
      BY <3>2 DEF Fades, old
    <3> QED
      BY <1>1, <1>3, <3>2, <3>3, OneFades
  <2>4. CASE r.pc = "unavailable"
    <3>1. x = [old EXCEPT !.avail = "unavailable", !.key = None,
                          !.auto = FALSE, !.wait = FALSE, !.block = ""]
      BY <2>4
    <3>2. x \in RowType /\ x.avail = "unavailable" /\ x.key = None
      BY <1>1, <3>1 DEF RowType
    <3> HIDE DEF x
    <3>3. Fades(k, row[k], x)
      BY <1>3, <3>2 DEF Fades, Remote
    <3> QED
      BY <1>1, <1>3, <3>2, <3>3, OneFades
  <2> QED
    BY <1>2, <2>1, <2>2, <2>3, <2>4
<1> QED
  BY <1>2, <1>3, NoneFades

LEMMA MissingRow ==
  ASSUME StoreTyped, CallsTyped, NEW r \in Reader, MarkMediaRemote(r)
  PROVE  RowsFade
<1> DEFINE k == reader[r].item
           x == [row[k] EXCEPT !.avail = "remote", !.key = None,
                               !.wait = FALSE, !.block = "", !.version = row[k].version + 1]
<1>1. k \in Item /\ row[k] \in RowType
  BY DEF MarkMediaRemote, MissingIf, CallsTyped, StoreTyped
<1>2. UNCHANGED row \/ (row[k].avail = "ready" /\ row' = [row EXCEPT ![k] = x])
  BY DEF MarkMediaRemote, MissingIf
<1>3. x \in RowType /\ x.avail = "remote" /\ x.key = None
  <2>1. PICK n \in Nat : n = row[k].version + 1
    <3>1. row[k].version \in Nat
      BY <1>1 DEF RowType
    <3> QED
      BY <3>1
  <2>2. x = [row[k] EXCEPT !.avail = "remote", !.key = None,
                           !.wait = FALSE, !.block = "", !.version = n]
    BY <2>1
  <2> QED
    BY <1>1, <2>2 DEF RowType
<1> HIDE DEF x
<1>4. row[k].avail = "ready" => Fades(k, row[k], x)
  BY <1>3 DEF Fades
<1> QED
  BY <1>1, <1>2, <1>3, <1>4, OneFades, NoneFades

LEMMA UnavailableRow ==
  ASSUME StoreTyped, CallsTyped, NEW r \in Reader, MarkMediaUnavailable(r)
  PROVE  RowsFade
<1> DEFINE k == reader[r].item
           x == [row[k] EXCEPT !.avail = "unavailable", !.key = None,
                               !.auto = FALSE, !.wait = FALSE, !.block = ""]
<1>1. k \in Item /\ row[k] \in RowType
  BY DEF MarkMediaUnavailable, CallsTyped, StoreTyped
<1>2. UNCHANGED row \/ (row[k].avail \in {"remote", "ready"} /\ row' = [row EXCEPT ![k] = x])
  BY DEF MarkMediaUnavailable
<1>3. x \in RowType /\ x.avail = "unavailable" /\ x.key = None
  BY <1>1 DEF RowType
<1> HIDE DEF x
<1>4. row[k].avail \in {"remote", "ready"} => Fades(k, row[k], x)
  BY <1>3 DEF Fades
<1> QED
  BY <1>1, <1>2, <1>3, <1>4, OneFades, NoneFades

LEMMA FetchRow ==
  ASSUME StoreTyped, CallsTyped, NEW r \in Reader, Fetch(r)
  PROVE  RowsFade
<1> DEFINE k == reader[r].item
           x == [row[k] EXCEPT !.block = ""]
<1>1. k \in Item /\ row[k] \in RowType
  BY DEF Fetch, CallsTyped, StoreTyped
<1>2. UNCHANGED row \/ row' = [row EXCEPT ![k] = x]
  BY DEF Fetch
<1>3. x \in RowType /\ x.avail = row[k].avail /\ x.key = row[k].key
  BY <1>1 DEF RowType
<1> HIDE DEF x
<1>4. Fades(k, row[k], x)
  BY <1>3 DEF Fades
<1> QED
  BY <1>1, <1>2, <1>3, <1>4, OneFades, NoneFades

LEMMA DueRow ==
  ASSUME StoreTyped, NEW k \in Item, Due(k)
  PROVE  RowsFade
<1> DEFINE x == [row[k] EXCEPT !.wait = FALSE]
<1>1. row[k] \in RowType
  BY DEF StoreTyped
<1>2. row' = [row EXCEPT ![k] = x]
  BY DEF Due
<1>3. x \in RowType /\ x.avail = row[k].avail /\ x.key = row[k].key
  BY <1>1 DEF RowType
<1> HIDE DEF x
<1>4. Fades(k, row[k], x)
  BY <1>3 DEF Fades
<1> QED
  BY <1>1, <1>2, <1>3, <1>4, OneFades

LEMMA SaveRow ==
  ASSUME StoreTyped, NEW a \in Item, SaveAttachment(a)
  PROVE  RowsFade
<1>1. PICK auto \in BOOLEAN, ref \in {TRUE} \cup {~LateRefs} :
        row' = [row EXCEPT ![a] =
          [@ EXCEPT !.avail = IF row[a].avail = "ready" THEN "ready" ELSE "remote",
                    !.ref = row[a].ref \/ ref,
                    !.auto = row[a].block = "" /\ (row[a].auto \/ auto)]]
  BY DEF SaveAttachment
<1> DEFINE x == [row[a] EXCEPT !.avail = IF row[a].avail = "ready" THEN "ready" ELSE "remote",
                               !.ref = row[a].ref \/ ref,
                               !.auto = row[a].block = "" /\ (row[a].auto \/ auto)]
<1>2. row[a] \in RowType /\ ref \in BOOLEAN
  BY MediaAssumption DEF StoreTyped
<1>3. /\ x \in RowType /\ x.key = row[a].key
      /\ x.avail = IF row[a].avail = "ready" THEN "ready" ELSE "remote"
  BY <1>2 DEF RowType
<1>4. row' = [row EXCEPT ![a] = x]
  BY <1>1
<1> HIDE DEF x
<1>5. row[a].avail = "none" => a \notin Upload
  BY MediaAssumption DEF SaveAttachment, Exists
<1>6. row[a].avail # "merged"
  BY DEF SaveAttachment, Exists
<1>7. Fades(a, row[a], x)
  BY <1>3, <1>5, <1>6 DEF Fades
<1> QED
  BY <1>3, <1>4, <1>7, OneFades

\* A row whose file was just stored
RowStored(k) ==
  /\ row' \in [Item -> RowType]
  /\ row'[k].avail = "ready" /\ row'[k].key = k
  /\ \A j \in Item : j # k => row'[j] = row[j]

\* The rows of two copies that were merged
RowsMerged(t, s) ==
  /\ t \in Attachment /\ s \in Attachment /\ t # s
  /\ Exists(t) /\ Exists(s)
  /\ row' \in [Item -> RowType]
  /\ row'[s].avail = "merged" /\ row'[s].key = None
  /\ row'[t].avail \in {"remote", "ready", "unavailable"}
  /\ row'[t].avail = "ready" <=> Given(t, s) \/ row[t].avail = "ready"
  /\ row'[t].key = IF Given(t, s) THEN row[s].key ELSE row[t].key
  /\ \A j \in Item : j # t /\ j # s => row'[j] = row[j]

LEMMA MarkRow ==
  ASSUME StoreTyped, WorkersTyped, NEW w \in Worker, MarkMediaReady(w)
  PROVE  UNCHANGED row \/ (Remote(worker[w].item) /\ RowStored(worker[w].item))
<1> DEFINE k == worker[w].item
           x == [row[k] EXCEPT !.avail = "ready", !.key = k, !.auto = FALSE,
                               !.wait = FALSE, !.tries = 0, !.block = "",
                               !.version = row[k].version + 1]
<1>1. k \in Item /\ row[k] \in RowType
  BY DEF MarkMediaReady, WorkersTyped, StoreTyped
<1>2. UNCHANGED row \/ (Remote(k) /\ row' = [row EXCEPT ![k] = x])
  BY DEF MarkMediaReady
<1>3. x \in RowType /\ x.avail = "ready" /\ x.key = k
  <2>1. PICK n \in Nat : n = row[k].version + 1
    <3>1. row[k].version \in Nat
      BY <1>1 DEF RowType
    <3> QED
      BY <3>1
  <2>2. 0 \in 0..MaxTries
    BY MediaAssumption
  <2>3. x = [row[k] EXCEPT !.avail = "ready", !.key = k, !.auto = FALSE,
                           !.wait = FALSE, !.tries = 0, !.block = "", !.version = n]
    BY <2>1
  <2> QED
    BY <1>1, <2>2, <2>3 DEF RowType
<1> HIDE DEF x
<1> QED
  BY <1>1, <1>2, <1>3, RowSet DEF RowStored

LEMMA UseRow ==
  ASSUME StoreTyped, NEW u \in Upload, UseUpload(u)
  PROVE  RowStored(u)
<1> DEFINE x == [NoRow EXCEPT !.avail = "ready", !.key = u]
<1>1. u \in Item
  BY DEF Item
<1>2. x \in RowType /\ x.avail = "ready" /\ x.key = u
  BY <1>1, IdleTyped DEF RowType, NoRow
<1>3. row' = [row EXCEPT ![u] = x]
  BY DEF UseUpload, UseIf
<1> HIDE DEF x
<1> QED
  BY <1>1, <1>2, <1>3, RowSet DEF RowStored

LEMMA MergeRow ==
  ASSUME StoreTyped, NEW p \in Twins, MergeAttachments(p[1], p[2])
  PROVE  RowsMerged(p[1], p[2])
<1> DEFINE t == p[1]
           s == p[2]
           given == Given(t, s)
           avail == IF given \/ row[t].avail = "ready" THEN "ready"
                    ELSE IF row[s].avail = "remote" THEN "remote" ELSE row[t].avail
           key == IF given THEN row[s].key ELSE row[t].key
           ref == row[t].ref \/ row[s].ref
           auto == row[t].block = "" /\ (row[t].auto \/ row[s].auto)
           x == [row[t] EXCEPT !.avail = avail, !.key = key, !.ref = ref, !.auto = auto]
           y == [NoRow EXCEPT !.avail = "merged"]
<1>1. t \in Attachment /\ s \in Attachment /\ t # s
  BY MediaAssumption
<1>2. t \in Item /\ s \in Item /\ row[t] \in RowType /\ row[s] \in RowType
  BY <1>1 DEF Item, StoreTyped
<1>3. y \in RowType /\ y.avail = "merged" /\ y.key = None
  BY IdleTyped DEF NoRow, RowType
<1>4. Exists(t) /\ Exists(s) /\ row' = [row EXCEPT ![t] = x, ![s] = y]
  BY DEF MergeAttachments, MergeIf
<1>5. ref \in BOOLEAN /\ auto \in BOOLEAN
  OBVIOUS
<1>6. /\ avail \in {"remote", "ready", "unavailable"}
      /\ avail = "ready" <=> given \/ row[t].avail = "ready"
  <2>1. row[t].avail \in {"remote", "ready", "unavailable"}
    BY <1>2, <1>4 DEF RowType, Exists
  <2> HIDE DEF given
  <2>2. CASE given \/ row[t].avail = "ready"
    <3>1. avail = "ready"
      BY <2>2
    <3> HIDE DEF avail
    <3> QED
      BY <2>2, <3>1
  <2>3. CASE ~(given \/ row[t].avail = "ready") /\ row[s].avail = "remote"
    BY <2>3
  <2>4. CASE ~(given \/ row[t].avail = "ready") /\ row[s].avail # "remote"
    BY <2>1, <2>4
  <2> QED
    BY <2>2, <2>3, <2>4
<1>7. x \in RowType /\ x.avail = avail /\ x.key = key
  <2>1. key \in Item \cup {None}
    BY <1>2 DEF RowType
  <2> HIDE DEF avail, key, ref, auto
  <2> QED
    BY <1>2, <1>5, <1>6, <2>1 DEF RowType
<1> HIDE DEF x, y
<1>8. /\ row' \in [Item -> RowType] /\ row'[t] = x /\ row'[s] = y
      /\ \A j \in Item : j # t /\ j # s => row'[j] = row[j]
  BY <1>1, <1>2, <1>3, <1>4, <1>7 DEF StoreTyped
<1> QED
  BY <1>1, <1>3, <1>4, <1>6, <1>7, <1>8 DEF RowsMerged

\* The steps that leave the rows alone
LEMMA RowFrame ==
  ASSUME \/ \E w \in Worker : \/ Dequeue(w) \/ ReadMedia(w) \/ DownloadMedia(w)
                              \/ ReserveMediaStorage(w) \/ PutMedia(w) \/ CheckMedia(w)
                              \/ DeleteMedia(w) \/ Finish(w)
         \/ \E u \in Upload : StageUpload(u) \/ UploadStep(u) \/ DeleteUpload(u)
         \/ \E r \in Reader : OpenObject(r) \/ \E k \in Item : GetMedia(r, k)
         \/ \E k \in Item : LoseObject(k)
         \/ ScanStep \/ Connection \/ Restart \/ UNCHANGED vars
  PROVE  UNCHANGED row
<1>1. ASSUME NEW w \in Worker, \/ Dequeue(w) \/ ReadMedia(w) \/ DownloadMedia(w)
                               \/ ReserveMediaStorage(w) \/ PutMedia(w) \/ CheckMedia(w)
                               \/ DeleteMedia(w) \/ Finish(w)
      PROVE  UNCHANGED row
  BY <1>1, Zenon DEF Dequeue, ReadMedia, DownloadMedia, ReserveMediaStorage, ReserveIf, PutMedia,
              CheckMedia, DeleteMedia, Finish, FinishWith, dbVars
<1>2. ASSUME NEW u \in Upload, StageUpload(u) \/ UploadStep(u) \/ DeleteUpload(u)
      PROVE  UNCHANGED row
  BY <1>2 DEF StageUpload, UploadStep, ReserveUpload, InsertUpload, PutUpload, MarkUploadReady,
              DiscardUpload, DiscardTo, ReleaseUpload, DeleteUpload, dbVars
<1>3. ASSUME NEW r \in Reader, OpenObject(r) \/ \E k \in Item : GetMedia(r, k)
      PROVE  UNCHANGED row
  BY <1>3 DEF OpenObject, GetMedia, dbVars
<1>4. ASSUME \/ \E k \in Item : LoseObject(k)
             \/ ScanStep \/ Connection \/ Restart \/ UNCHANGED vars
      PROVE  UNCHANGED row
  BY <1>4 DEF LoseObject, ScanStep, ListPendingMedia, ScanQueue, ListUploadsForCleanup,
              DeleteObject, ClearRecord, ScanNext, Connection, Restart, vars, dbVars
<1> QED
  BY <1>1, <1>2, <1>3, <1>4

LEMMA RowStep ==
  ASSUME StoreTyped, WorkersTyped, CallsTyped, [Next]_vars
  PROVE  \/ RowsFade
         \/ \E w \in Worker : /\ MarkMediaReady(w) /\ Remote(worker[w].item)
                              /\ RowStored(worker[w].item)
         \/ \E u \in Upload : UseUpload(u) /\ RowStored(u)
         \/ \E p \in Twins : MergeAttachments(p[1], p[2]) /\ RowsMerged(p[1], p[2])
<1>1. ASSUME NEW w \in Worker, WorkerStep(w)
      PROVE  RowsFade \/ UNCHANGED row
             \/ (MarkMediaReady(w) /\ Remote(worker[w].item) /\ RowStored(worker[w].item))
  BY <1>1, RowFrame, UpdateMediaRefRow, RecordRow, MarkRow DEF WorkerStep
<1>2. ASSUME NEW r \in Reader, ReaderStep(r) \/ \E k \in Item : GetMedia(r, k)
      PROVE  RowsFade \/ UNCHANGED row
  BY <1>2, RowFrame, MissingRow, UnavailableRow, FetchRow DEF ReaderStep
<1>3. ASSUME NEW k \in Item, SaveAttachment(k) \/ LoseObject(k) \/ Due(k)
      PROVE  RowsFade \/ UNCHANGED row
  BY <1>3, RowFrame, SaveRow, DueRow
<1> QED
  BY <1>1, <1>2, <1>3, RowFrame, NoneFades, UseRow, MergeRow DEF Next

\* What the steps do to the uploads and the objects
LEMMA UploadFrame ==
  ASSUME \/ \E w \in Worker : WorkerStep(w)
         \/ \E u \in Upload : StageUpload(u) \/ ReserveUpload(u) \/ PutUpload(u)
                              \/ ReleaseUpload(u)
         \/ \E r \in Reader : ReaderStep(r) \/ \E k \in Item : GetMedia(r, k)
         \/ \E k \in Item : SaveAttachment(k) \/ LoseObject(k) \/ Due(k)
         \/ \E p \in Twins : MergeAttachments(p[1], p[2])
         \/ ListPendingMedia \/ ScanQueue \/ DeleteObject \/ ScanNext
         \/ Connection \/ Restart \/ UNCHANGED vars
  PROVE  UNCHANGED uploads
<1>1. ASSUME NEW w \in Worker, WorkerStep(w)
      PROVE  UNCHANGED uploads
  BY <1>1, Zenon DEF WorkerStep, Dequeue, ReadMedia, DownloadMedia, UpdateMediaRef,
              ReserveMediaStorage, ReserveIf, PutMedia, MarkMediaReady, CheckMedia,
              DeleteMedia, Record, Finish, FinishWith, dbVars
<1>2. ASSUME NEW u \in Upload,
             StageUpload(u) \/ ReserveUpload(u) \/ PutUpload(u) \/ ReleaseUpload(u)
      PROVE  UNCHANGED uploads
  BY <1>2 DEF StageUpload, ReserveUpload, PutUpload, ReleaseUpload, dbVars
<1>3. ASSUME NEW r \in Reader, ReaderStep(r) \/ \E k \in Item : GetMedia(r, k)
      PROVE  UNCHANGED uploads
  BY <1>3, Zenon DEF ReaderStep, GetMedia, OpenObject, MarkMediaRemote, MissingIf,
              MarkMediaUnavailable, Fetch, dbVars
<1>4. ASSUME \/ \E k \in Item : SaveAttachment(k) \/ LoseObject(k) \/ Due(k)
             \/ \E p \in Twins : MergeAttachments(p[1], p[2])
      PROVE  UNCHANGED uploads
  BY <1>4, Zenon DEF SaveAttachment, LoseObject, Due, MergeAttachments, MergeIf, dbVars
<1>5. ASSUME \/ ListPendingMedia \/ ScanQueue \/ DeleteObject \/ ScanNext
             \/ Connection \/ Restart \/ UNCHANGED vars
      PROVE  UNCHANGED uploads
  BY <1>5 DEF ListPendingMedia, ScanQueue, DeleteObject, ScanNext, Connection, Restart, vars,
              dbVars
<1> QED
  BY <1>1, <1>2, <1>3, <1>4, <1>5

UploadState == {"none", "staging", "ready", "deleting"}

LEMMA UploadsStep ==
  ASSUME StoreTyped, [Next]_vars PROVE uploads' \in [Upload -> UploadState]
<1>1. uploads \in [Upload -> UploadState]
  BY DEF StoreTyped, UploadState
<1>2. ASSUME NEW u \in Upload,
             InsertUpload(u) \/ MarkUploadReady(u) \/ DiscardUpload(u) \/ UseUpload(u)
             \/ DeleteUpload(u)
      PROVE  uploads' \in [Upload -> UploadState]
  BY <1>1, <1>2 DEF InsertUpload, MarkUploadReady, DiscardUpload, DiscardTo, UseUpload, UseIf,
                    DeleteUpload, UploadState
<1>3. CASE ListUploadsForCleanup
  BY <1>1, <1>3 DEF ListUploadsForCleanup, UploadState
<1>4. CASE ClearRecord
  BY <1>1, <1>4 DEF ClearRecord, UploadState
<1>5. CASE UNCHANGED uploads
  BY <1>1, <1>5
<1> QED
  BY <1>2, <1>3, <1>4, <1>5, UploadFrame DEF Next, UploadStep, ScanStep

LEMMA ObjectFrame ==
  ASSUME \/ \E w \in Worker : \/ Dequeue(w) \/ ReadMedia(w) \/ DownloadMedia(w)
                              \/ UpdateMediaRef(w) \/ ReserveMediaStorage(w)
                              \/ MarkMediaReady(w) \/ CheckMedia(w) \/ Record(w) \/ Finish(w)
         \/ \E u \in Upload : StageUpload(u) \/ ReserveUpload(u) \/ InsertUpload(u)
                              \/ MarkUploadReady(u) \/ DiscardUpload(u) \/ ReleaseUpload(u)
                              \/ UseUpload(u) \/ DeleteUpload(u)
         \/ \E r \in Reader : ReaderStep(r) \/ \E k \in Item : GetMedia(r, k)
         \/ \E k \in Item : SaveAttachment(k) \/ Due(k)
         \/ \E p \in Twins : MergeAttachments(p[1], p[2])
         \/ ListPendingMedia \/ ScanQueue \/ ListUploadsForCleanup \/ ClearRecord \/ ScanNext
         \/ Connection \/ Restart \/ UNCHANGED vars
  PROVE  UNCHANGED <<objects, lost>>
<1>1. ASSUME NEW w \in Worker, \/ Dequeue(w) \/ ReadMedia(w) \/ DownloadMedia(w)
                               \/ UpdateMediaRef(w) \/ ReserveMediaStorage(w)
                               \/ MarkMediaReady(w) \/ CheckMedia(w) \/ Record(w) \/ Finish(w)
      PROVE  UNCHANGED <<objects, lost>>
  BY <1>1, Zenon DEF Dequeue, ReadMedia, DownloadMedia, UpdateMediaRef, ReserveMediaStorage,
              ReserveIf, MarkMediaReady, CheckMedia, Record, Finish, FinishWith
<1>2. ASSUME NEW u \in Upload, \/ StageUpload(u) \/ ReserveUpload(u) \/ InsertUpload(u)
                               \/ MarkUploadReady(u) \/ DiscardUpload(u) \/ ReleaseUpload(u)
                               \/ UseUpload(u) \/ DeleteUpload(u)
      PROVE  UNCHANGED <<objects, lost>>
  BY <1>2, Zenon DEF StageUpload, ReserveUpload, InsertUpload, MarkUploadReady, DiscardUpload,
              DiscardTo, ReleaseUpload, UseUpload, UseIf, DeleteUpload
<1>3. ASSUME NEW r \in Reader, ReaderStep(r) \/ \E k \in Item : GetMedia(r, k)
      PROVE  UNCHANGED <<objects, lost>>
  BY <1>3, Zenon DEF ReaderStep, GetMedia, OpenObject, MarkMediaRemote, MissingIf,
              MarkMediaUnavailable, Fetch
<1>4. ASSUME \/ \E k \in Item : SaveAttachment(k) \/ Due(k)
             \/ \E p \in Twins : MergeAttachments(p[1], p[2])
      PROVE  UNCHANGED <<objects, lost>>
  BY <1>4, Zenon DEF SaveAttachment, Due, MergeAttachments, MergeIf
<1>5. ASSUME \/ ListPendingMedia \/ ScanQueue \/ ListUploadsForCleanup \/ ClearRecord
             \/ ScanNext \/ Connection \/ Restart \/ UNCHANGED vars
      PROVE  UNCHANGED <<objects, lost>>
  BY <1>5 DEF ListPendingMedia, ScanQueue, ListUploadsForCleanup, ClearRecord, ScanNext,
              Connection, Restart, vars
<1> QED
  BY <1>1, <1>2, <1>3, <1>4, <1>5

LEMMA ObjectsStep ==
  ASSUME StoreTyped, WorkersTyped, [Next]_vars PROVE objects' \subseteq Item /\ lost' \subseteq Item
<1>1. objects \subseteq Item /\ lost \subseteq Item /\ Upload \subseteq Item
  BY DEF StoreTyped, Item
<1>2. ASSUME NEW w \in Worker, PutMedia(w) \/ DeleteMedia(w)
      PROVE  objects' \subseteq Item /\ lost' \subseteq Item
  <2>1. worker[w].pc # "idle" /\ worker[w].item \in Item
    BY <1>2 DEF PutMedia, DeleteMedia, WorkersTyped
  <2>2. CASE PutMedia(w)
    BY <1>1, <2>1, <2>2, PutMediaEffect
  <2>3. CASE DeleteMedia(w)
    BY <1>1, <2>3, DeleteMediaEffect DEF DeleteMedia
  <2> QED
    BY <1>2, <2>2, <2>3
<1>3. ASSUME NEW u \in Upload, PutUpload(u)
      PROVE  objects' \subseteq Item /\ lost' \subseteq Item
  BY <1>1, <1>3 DEF PutUpload
<1>4. ASSUME NEW k \in Item, LoseObject(k)
      PROVE  objects' \subseteq Item /\ lost' \subseteq Item
  BY <1>1, <1>4 DEF LoseObject
<1>5. CASE DeleteObject
  BY <1>1, <1>5 DEF DeleteObject
<1>6. CASE UNCHANGED <<objects, lost>>
  BY <1>1, <1>6
<1> QED
  BY <1>2, <1>3, <1>4, <1>5, <1>6, ObjectFrame DEF Next, WorkerStep, UploadStep, ScanStep

\* Only a merge makes an orphan, of the file of the copy that goes, and only the
\* scan forgets one.
LEMMA OrphanFrame ==
  ASSUME \/ \E w \in Worker : WorkerStep(w)
         \/ \E u \in Upload : StageUpload(u) \/ UploadStep(u) \/ UseUpload(u) \/ DeleteUpload(u)
         \/ \E r \in Reader : ReaderStep(r) \/ \E k \in Item : GetMedia(r, k)
         \/ \E k \in Item : SaveAttachment(k) \/ LoseObject(k) \/ Due(k)
         \/ Connection \/ Restart \/ UNCHANGED vars
  PROVE  UNCHANGED orphans
<1>1. ASSUME NEW w \in Worker, WorkerStep(w)
      PROVE  UNCHANGED orphans
  BY <1>1, Zenon DEF WorkerStep, Dequeue, ReadMedia, DownloadMedia, UpdateMediaRef,
              ReserveMediaStorage, ReserveIf, PutMedia, MarkMediaReady, CheckMedia,
              DeleteMedia, Record, Finish, FinishWith, dbVars
<1>2. ASSUME NEW u \in Upload, StageUpload(u) \/ UploadStep(u) \/ UseUpload(u) \/ DeleteUpload(u)
      PROVE  UNCHANGED orphans
  BY <1>2, Zenon DEF StageUpload, UploadStep, ReserveUpload, InsertUpload, PutUpload, MarkUploadReady,
              DiscardUpload, DiscardTo, ReleaseUpload, UseUpload, UseIf, DeleteUpload, dbVars
<1>3. ASSUME NEW r \in Reader, ReaderStep(r) \/ \E k \in Item : GetMedia(r, k)
      PROVE  UNCHANGED orphans
  BY <1>3, Zenon DEF ReaderStep, GetMedia, OpenObject, MarkMediaRemote, MissingIf,
              MarkMediaUnavailable, Fetch, dbVars
<1>4. ASSUME NEW k \in Item, SaveAttachment(k) \/ LoseObject(k) \/ Due(k)
      PROVE  UNCHANGED orphans
  BY <1>4, Zenon DEF SaveAttachment, LoseObject, Due, dbVars
<1>5. ASSUME Connection \/ Restart \/ UNCHANGED vars
      PROVE  UNCHANGED orphans
  BY <1>5 DEF Connection, Restart, vars, dbVars
<1> QED
  BY <1>1, <1>2, <1>3, <1>4, <1>5

LEMMA OrphansMade ==
  ASSUME [Next]_vars
  PROVE  \/ orphans' \subseteq orphans
         \/ \E p \in Twins :
              /\ MergeAttachments(p[1], p[2])
              /\ row[p[2]].avail = "ready" /\ ~Given(p[1], p[2])
              /\ row[p[2]].key # row[p[1]].key
              /\ orphans' = orphans \cup {row[p[2]].key}
<1>1. ASSUME ScanStep
      PROVE  orphans' \subseteq orphans
  BY <1>1 DEF ScanStep, ListPendingMedia, ScanQueue, ListUploadsForCleanup, DeleteObject,
              ClearRecord, ScanNext, dbVars
<1>2. ASSUME NEW p \in Twins, MergeAttachments(p[1], p[2])
      PROVE  UNCHANGED orphans
             \/ (/\ row[p[2]].avail = "ready" /\ ~Given(p[1], p[2])
                 /\ row[p[2]].key # row[p[1]].key
                 /\ orphans' = orphans \cup {row[p[2]].key})
  BY <1>2 DEF MergeAttachments, MergeIf
<1> QED
  BY <1>1, <1>2, OrphanFrame DEF Next

LEMMA OrphansKept == ASSUME [Next]_vars PROVE ScanStep \/ orphans \subseteq orphans'
<1>1. ASSUME NEW p \in Twins, MergeAttachments(p[1], p[2])
      PROVE  orphans \subseteq orphans'
  BY <1>1 DEF MergeAttachments, MergeIf
<1> QED
  BY <1>1, OrphanFrame DEF Next

LEMMA StoreStep ==
  ASSUME StoreTyped, WorkersTyped, CallsTyped, KeyInv, [Next]_vars PROVE StoreTyped'
<1>1. row' \in [Item -> RowType]
  BY RowStep DEF RowsFade, RowStored, RowsMerged, StoreTyped
<1>2. orphans' \subseteq Item
  <2>1. ASSUME NEW p \in Twins, row[p[2]].avail = "ready"
        PROVE  row[p[2]].key \in Item
    <3>1. p[2] \in Item
      BY MediaAssumption DEF Item
    <3> QED
      BY <2>1, <3>1 DEF KeyInv
  <2> QED
    BY <2>1, OrphansMade DEF StoreTyped
<1> QED
  BY <1>1, <1>2, UploadsStep, ObjectsStep DEF StoreTyped, UploadState

---------------------------------------------------------------------------
(* Uploads, readers, the queue and the scan                                *)

CallState == {"new", "reserve", "insert", "put", "mark", "discard", "release", "answer",
              "known", "done"}

\* The steps that leave the uploads' calls alone
LEMMA CallFrame ==
  ASSUME \/ \E w \in Worker : WorkerStep(w)
         \/ \E u \in Upload : DeleteUpload(u)
         \/ \E r \in Reader : ReaderStep(r) \/ \E k \in Item : GetMedia(r, k)
         \/ \E k \in Item : SaveAttachment(k) \/ LoseObject(k) \/ Due(k)
         \/ \E p \in Twins : MergeAttachments(p[1], p[2])
         \/ ScanStep \/ Connection \/ UNCHANGED vars
  PROVE  UNCHANGED call
<1>1. ASSUME NEW w \in Worker, WorkerStep(w)
      PROVE  UNCHANGED call
  BY <1>1, Zenon DEF WorkerStep, Dequeue, ReadMedia, DownloadMedia, UpdateMediaRef,
              ReserveMediaStorage, ReserveIf, PutMedia, MarkMediaReady, CheckMedia,
              DeleteMedia, Record, Finish, FinishWith
<1>2. ASSUME NEW r \in Reader, ReaderStep(r) \/ \E k \in Item : GetMedia(r, k)
      PROVE  UNCHANGED call
  BY <1>2, Zenon DEF ReaderStep, GetMedia, OpenObject, MarkMediaRemote, MissingIf,
              MarkMediaUnavailable, Fetch
<1>3. ASSUME \/ \E u \in Upload : DeleteUpload(u)
             \/ \E k \in Item : SaveAttachment(k) \/ LoseObject(k) \/ Due(k)
             \/ \E p \in Twins : MergeAttachments(p[1], p[2])
      PROVE  UNCHANGED call
  BY <1>3, Zenon DEF DeleteUpload, SaveAttachment, LoseObject, Due, MergeAttachments, MergeIf
<1>4. ASSUME ScanStep \/ Connection \/ UNCHANGED vars
      PROVE  UNCHANGED call
  BY <1>4 DEF ScanStep, ListPendingMedia, ScanQueue, ListUploadsForCleanup, DeleteObject,
              ClearRecord, ScanNext, Connection, vars
<1> QED
  BY <1>1, <1>2, <1>3, <1>4

LEMMA CallStep ==
  ASSUME CallsTyped, [Next]_vars PROVE call' \in [Upload -> CallState]
<1>1. call \in [Upload -> CallState]
  BY DEF CallsTyped, CallState
<1>2. ASSUME NEW u \in Upload, StageUpload(u) \/ UploadStep(u) \/ UseUpload(u)
      PROVE  \E pc \in CallState : To(u, pc)
  <2>1. CASE StageUpload(u) \/ ReserveUpload(u) \/ InsertUpload(u) \/ PutUpload(u)
             \/ MarkUploadReady(u)
    BY <2>1 DEF StageUpload, ReserveUpload, InsertUpload, PutUpload, MarkUploadReady, CallState
  <2>2. CASE DiscardUpload(u) \/ UseUpload(u)
    BY <2>2 DEF DiscardUpload, DiscardTo, UseUpload, UseIf, CallState
  <2>3. CASE ReleaseUpload(u)
    <3>1. (IF call[u] = "answer" THEN "known" ELSE "done") \in CallState
      BY DEF CallState
    <3> QED
      BY <2>3, <3>1 DEF ReleaseUpload
  <2> QED
    BY <1>2, <2>1, <2>2, <2>3 DEF UploadStep
<1>3. ASSUME NEW u \in Upload, NEW pc \in CallState, To(u, pc)
      PROVE  call' \in [Upload -> CallState]
  BY <1>1, <1>3 DEF To
<1>4. CASE Restart
  BY <1>1, <1>4 DEF Restart, CallState
<1>5. CASE UNCHANGED call
  BY <1>1, <1>5
<1> QED
  BY <1>2, <1>3, <1>4, <1>5, CallFrame DEF Next

\* A reader that turns stays with its attachment, or is done.
LEMMA ReaderTurns ==
  ASSUME CallsTyped, NEW r \in Reader, reader[r].pc # "idle",
         NEW pc \in {"idle", "open", "missing", "gone", "fetch"}, Turn(r, pc)
  PROVE  /\ reader' \in [Reader -> ReaderType] /\ reader'[r].pc = pc
         /\ pc # "idle" => reader'[r].item = reader[r].item
         /\ \A q \in Reader : q # r => reader'[q] = reader[q]
<1> DEFINE x == IF pc = "idle" THEN Rest ELSE [reader[r] EXCEPT !.pc = pc]
<1>1. reader[r] \in ReaderType
  BY DEF CallsTyped
<1>2. x \in ReaderType /\ x.pc = pc /\ (pc # "idle" => x.item = reader[r].item)
  <2>1. CASE pc = "idle"
    BY <2>1, IdleTyped DEF Rest
  <2>2. CASE pc # "idle"
    BY <1>1, <2>2 DEF ReaderType
  <2> QED
    BY <2>1, <2>2
<1>3. reader' = [reader EXCEPT ![r] = x]
  BY DEF Turn
<1> HIDE DEF x
<1> QED
  BY <1>2, <1>3 DEF CallsTyped

LEMMA ReaderFrame ==
  ASSUME \/ \E w \in Worker : WorkerStep(w)
         \/ \E u \in Upload : StageUpload(u) \/ UploadStep(u) \/ UseUpload(u) \/ DeleteUpload(u)
         \/ \E k \in Item : SaveAttachment(k) \/ LoseObject(k) \/ Due(k)
         \/ \E p \in Twins : MergeAttachments(p[1], p[2])
         \/ ScanStep \/ Connection \/ UNCHANGED vars
  PROVE  UNCHANGED reader
<1>1. ASSUME NEW w \in Worker, WorkerStep(w)
      PROVE  UNCHANGED reader
  BY <1>1, Zenon DEF WorkerStep, Dequeue, ReadMedia, DownloadMedia, UpdateMediaRef,
              ReserveMediaStorage, ReserveIf, PutMedia, MarkMediaReady, CheckMedia,
              DeleteMedia, Record, Finish, FinishWith
<1>2. ASSUME NEW u \in Upload, StageUpload(u) \/ UploadStep(u) \/ UseUpload(u) \/ DeleteUpload(u)
      PROVE  UNCHANGED reader
  BY <1>2, Zenon DEF StageUpload, UploadStep, ReserveUpload, InsertUpload, PutUpload, MarkUploadReady,
              DiscardUpload, DiscardTo, ReleaseUpload, UseUpload, UseIf, DeleteUpload
<1>3. ASSUME \/ \E k \in Item : SaveAttachment(k) \/ LoseObject(k) \/ Due(k)
             \/ \E p \in Twins : MergeAttachments(p[1], p[2])
      PROVE  UNCHANGED reader
  BY <1>3, Zenon DEF SaveAttachment, LoseObject, Due, MergeAttachments, MergeIf
<1>4. ASSUME ScanStep \/ Connection \/ UNCHANGED vars
      PROVE  UNCHANGED reader
  BY <1>4 DEF ScanStep, ListPendingMedia, ScanQueue, ListUploadsForCleanup, DeleteObject,
              ClearRecord, ScanNext, Connection, vars
<1> QED
  BY <1>1, <1>2, <1>3, <1>4

LEMMA GetMediaEffect ==
  ASSUME StoreTyped, CallsTyped, NEW r \in Reader, NEW k \in Item, GetMedia(r, k)
  PROVE  /\ reader' \in [Reader -> ReaderType] /\ reader'[r].item = k
         /\ row[k].avail # "none"
         /\ \A q \in Reader : q # r => reader'[q] = reader[q]
<1> DEFINE x == [pc |-> IF Remote(k) THEN "fetch" ELSE "open", item |-> k,
                 key |-> row[k].key, version |-> row[k].version, ref |-> row[k].ref,
                 block |-> row[k].block]
<1>1. row[k] \in RowType
  BY DEF StoreTyped
<1>2. x \in ReaderType /\ x.item = k
  BY <1>1 DEF RowType, ReaderType
<1>3. reader' = [reader EXCEPT ![r] = x] /\ row[k].avail # "none"
  BY DEF GetMedia
<1> HIDE DEF x
<1> QED
  BY <1>2, <1>3 DEF CallsTyped

\* What a step of a reader does to it
LEMMA ReaderStepEffect ==
  ASSUME CallsTyped, NEW r \in Reader, ReaderStep(r)
  PROVE  /\ reader[r].pc # "idle" /\ reader' \in [Reader -> ReaderType]
         /\ reader'[r].pc # "idle" => reader'[r].item = reader[r].item
         /\ \A q \in Reader : q # r => reader'[q] = reader[q]
<1>1. /\ reader[r].pc # "idle"
      /\ \E pc \in {"idle", "open", "missing", "gone", "fetch"} : Turn(r, pc)
  <2>1. CASE OpenObject(r)
    <3>1. (IF reader[r].key \in objects THEN "idle"
           ELSE IF reader[r].ref THEN "missing" ELSE "gone") \in {"idle", "missing", "gone"}
      OBVIOUS
    <3> QED
      BY <2>1, <3>1 DEF OpenObject
  <2>2. CASE MarkMediaRemote(r) \/ MarkMediaUnavailable(r) \/ Fetch(r)
    BY <2>2 DEF MarkMediaRemote, MissingIf, MarkMediaUnavailable, Fetch
  <2> QED
    BY <2>1, <2>2 DEF ReaderStep
<1> QED
  BY <1>1, ReaderTurns

LEMMA CallsStep ==
  ASSUME StoreTyped, CallsTyped, [Next]_vars PROVE CallsTyped'
<1>1. /\ reader' \in [Reader -> ReaderType]
      /\ \A r \in Reader : reader'[r].pc # "idle" => reader'[r].item \in Item
  <2>1. ASSUME NEW r \in Reader, ReaderStep(r) \/ \E k \in Item : GetMedia(r, k)
        PROVE  /\ reader' \in [Reader -> ReaderType]
               /\ \A q \in Reader : reader'[q].pc # "idle" => reader'[q].item \in Item
    BY <2>1, ReaderStepEffect, GetMediaEffect DEF CallsTyped
  <2>2. CASE Restart
    <3>1. \A r \in Reader : reader'[r].pc = "idle"
      BY <2>2 DEF Restart, Rest
    <3> QED
      BY <2>2, <3>1, IdleTyped DEF Restart
  <2>3. CASE UNCHANGED reader
    BY <2>3 DEF CallsTyped
  <2> QED
    BY <2>1, <2>2, <2>3, ReaderFrame DEF Next
<1> QED
  BY <1>1, CallStep DEF CallsTyped, CallState

\* The steps that leave the queue and what is in flight alone
LEMMA QueueFrame ==
  ASSUME \/ \E w \in Worker : \/ ReadMedia(w) \/ DownloadMedia(w) \/ UpdateMediaRef(w)
                              \/ ReserveMediaStorage(w) \/ PutMedia(w) \/ MarkMediaReady(w)
                              \/ CheckMedia(w) \/ DeleteMedia(w) \/ Record(w)
         \/ \E u \in Upload : StageUpload(u) \/ UploadStep(u) \/ UseUpload(u) \/ DeleteUpload(u)
         \/ \E r \in Reader : \/ OpenObject(r) \/ MarkMediaRemote(r) \/ MarkMediaUnavailable(r)
                              \/ \E k \in Item : GetMedia(r, k)
         \/ \E k \in Item : SaveAttachment(k) \/ LoseObject(k) \/ Due(k)
         \/ \E p \in Twins : MergeAttachments(p[1], p[2])
         \/ ListPendingMedia \/ ListUploadsForCleanup \/ DeleteObject \/ ClearRecord
         \/ ScanNext \/ Connection \/ UNCHANGED vars
  PROVE  UNCHANGED queueVars
<1>1. ASSUME NEW w \in Worker, \/ ReadMedia(w) \/ DownloadMedia(w) \/ UpdateMediaRef(w)
                               \/ ReserveMediaStorage(w) \/ PutMedia(w) \/ MarkMediaReady(w)
                               \/ CheckMedia(w) \/ DeleteMedia(w) \/ Record(w)
      PROVE  UNCHANGED queueVars
  BY <1>1, Zenon DEF ReadMedia, DownloadMedia, UpdateMediaRef, ReserveMediaStorage, ReserveIf,
              PutMedia, MarkMediaReady, CheckMedia, DeleteMedia, Record
<1>2. ASSUME NEW u \in Upload, StageUpload(u) \/ UploadStep(u) \/ UseUpload(u) \/ DeleteUpload(u)
      PROVE  UNCHANGED queueVars
  BY <1>2, Zenon DEF StageUpload, UploadStep, ReserveUpload, InsertUpload, PutUpload, MarkUploadReady,
              DiscardUpload, DiscardTo, ReleaseUpload, UseUpload, UseIf, DeleteUpload
<1>3. ASSUME NEW r \in Reader, \/ OpenObject(r) \/ MarkMediaRemote(r) \/ MarkMediaUnavailable(r)
                               \/ \E k \in Item : GetMedia(r, k)
      PROVE  UNCHANGED queueVars
  BY <1>3, Zenon DEF GetMedia, OpenObject, MarkMediaRemote, MissingIf, MarkMediaUnavailable
<1>4. ASSUME \/ \E k \in Item : SaveAttachment(k) \/ LoseObject(k) \/ Due(k)
             \/ \E p \in Twins : MergeAttachments(p[1], p[2])
      PROVE  UNCHANGED queueVars
  BY <1>4, Zenon DEF SaveAttachment, LoseObject, Due, MergeAttachments, MergeIf
<1>5. ASSUME \/ ListPendingMedia \/ ListUploadsForCleanup \/ DeleteObject \/ ClearRecord
             \/ ScanNext \/ Connection \/ UNCHANGED vars
      PROVE  UNCHANGED queueVars
  BY <1>5 DEF ListPendingMedia, ListUploadsForCleanup, DeleteObject, ClearRecord, ScanNext,
              Connection, vars
<1> QED
  BY <1>1, <1>2, <1>3, <1>4, <1>5

\* An attachment that is queued is at the end of the queue, and in flight.
LEMMA QueueMediaEffect ==
  ASSUME QueueTyped, NEW k \in Item, QueueMedia(k)
  PROVE  /\ inflight' = inflight \cup {k}
         /\ queue' \in Seq(Item) /\ Len(queue') <= QueueCap
         /\ \/ UNCHANGED queue
            \/ /\ k \notin inflight /\ Len(queue') = Len(queue) + 1
               /\ queue'[Len(queue')] = k
               /\ \A i \in 1..Len(queue) : queue'[i] = queue[i]
<1>1. queue \in Seq(Item) /\ Len(queue) <= QueueCap /\ Len(queue) \in Nat
  BY DEF QueueTyped
<1>2. CASE k \in inflight /\ UNCHANGED queueVars
  BY <1>1, <1>2 DEF queueVars
<1>3. CASE /\ k \notin inflight /\ Len(queue) < QueueCap
           /\ queue' = Append(queue, k) /\ inflight' = inflight \cup {k}
  <2>1. /\ queue' \in Seq(Item) /\ Len(queue') = Len(queue) + 1
        /\ queue'[Len(queue) + 1] = k
        /\ \A i \in 1..Len(queue) : queue'[i] = queue[i]
    BY <1>1, <1>3
  <2>2. Len(queue') <= QueueCap
    BY <1>1, <1>3, <2>1, MediaAssumption
  <2> QED
    BY <1>3, <2>1, <2>2
<1> QED
  BY <1>2, <1>3 DEF QueueMedia

LEMMA DequeueQueue ==
  ASSUME QueueTyped, NEW w \in Worker, Dequeue(w)
  PROVE  /\ queue' \in Seq(Item) /\ Len(queue) \in Nat /\ Len(queue') = Len(queue) - 1
         /\ Len(queue) >= 1 /\ Head(queue) = queue[1]
         /\ \A i \in 1..Len(queue') : queue'[i] = queue[i + 1]
<1>1. queue \in Seq(Item) /\ queue # <<>> /\ queue' = Tail(queue)
  BY DEF QueueTyped, Dequeue
<1> QED
  BY <1>1

\* What a step does to the queue: a worker takes its head, or somebody puts an
\* attachment in, or a worker that ends lets it in again.
LEMMA QueueStep ==
  ASSUME StoreTyped, WorkersTyped, CallsTyped, QueueTyped, [Next]_vars
  PROVE  \/ UNCHANGED queueVars
         \/ \E w \in Worker : Dequeue(w)
         \/ \E w \in Worker : Finish(w)
         \/ (\E k \in scan.list : QueueMedia(k)) /\ ScanQueue
         \/ \E r \in Reader : Fetch(r) /\ QueueMedia(reader[r].item)
         \/ Restart
<1>1. ASSUME NEW r \in Reader, Fetch(r)
      PROVE  UNCHANGED queueVars \/ QueueMedia(reader[r].item)
  BY <1>1 DEF Fetch
<1>2. CASE ScanQueue
  BY <1>2 DEF ScanQueue
<1> QED
  BY <1>1, <1>2, QueueFrame DEF Next, WorkerStep, ReaderStep, ScanStep

ScanType ==
  [pc : {"idle", "queue", "list", "uploads", "clear", "orphans", "forget"}, list : SUBSET Item]

LEMMA ScanFrame ==
  ASSUME \/ \E w \in Worker : WorkerStep(w)
         \/ \E u \in Upload : StageUpload(u) \/ UploadStep(u) \/ UseUpload(u) \/ DeleteUpload(u)
         \/ \E r \in Reader : ReaderStep(r) \/ \E k \in Item : GetMedia(r, k)
         \/ \E k \in Item : SaveAttachment(k) \/ LoseObject(k) \/ Due(k)
         \/ \E p \in Twins : MergeAttachments(p[1], p[2])
         \/ Connection \/ UNCHANGED vars
  PROVE  UNCHANGED scan
<1>1. ASSUME NEW w \in Worker, WorkerStep(w)
      PROVE  UNCHANGED scan
  BY <1>1, Zenon DEF WorkerStep, Dequeue, ReadMedia, DownloadMedia, UpdateMediaRef,
              ReserveMediaStorage, ReserveIf, PutMedia, MarkMediaReady, CheckMedia,
              DeleteMedia, Record, Finish, FinishWith
<1>2. ASSUME NEW u \in Upload, StageUpload(u) \/ UploadStep(u) \/ UseUpload(u) \/ DeleteUpload(u)
      PROVE  UNCHANGED scan
  BY <1>2, Zenon DEF StageUpload, UploadStep, ReserveUpload, InsertUpload, PutUpload, MarkUploadReady,
              DiscardUpload, DiscardTo, ReleaseUpload, UseUpload, UseIf, DeleteUpload
<1>3. ASSUME NEW r \in Reader, ReaderStep(r) \/ \E k \in Item : GetMedia(r, k)
      PROVE  UNCHANGED scan
  BY <1>3, Zenon DEF ReaderStep, GetMedia, OpenObject, MarkMediaRemote, MissingIf,
              MarkMediaUnavailable, Fetch
<1>4. ASSUME \/ \E k \in Item : SaveAttachment(k) \/ LoseObject(k) \/ Due(k)
             \/ \E p \in Twins : MergeAttachments(p[1], p[2])
             \/ Connection \/ UNCHANGED vars
      PROVE  UNCHANGED scan
  BY <1>4, Zenon DEF SaveAttachment, LoseObject, Due, MergeAttachments, MergeIf, Connection, vars
<1> QED
  BY <1>1, <1>2, <1>3, <1>4

LEMMA ScanSet ==
  ASSUME NEW pc, NEW list, ScanAt(pc, list) PROVE scan'.pc = pc /\ scan'.list = list
BY DEF ScanAt

LEMMA ScanTyped == ASSUME StoreTyped, QueueTyped, [Next]_vars PROVE scan' \in ScanType
<1>1. scan \in ScanType /\ Upload \subseteq Item /\ orphans \subseteq Item
  BY DEF QueueTyped, ScanType, Item, StoreTyped
<1>2. ASSUME NEW pc \in {"idle", "queue", "list", "uploads", "clear", "orphans", "forget"},
             NEW list \in SUBSET Item, ScanAt(pc, list)
      PROVE  scan' \in ScanType
  BY <1>2 DEF ScanAt, ScanType
<1>3. scan.list \subseteq Item /\ \A k : scan.list \ {k} \subseteq Item
  BY <1>1 DEF ScanType
<1>4. CASE ListPendingMedia
  BY <1>2, <1>4 DEF ListPendingMedia
<1>5. CASE ScanQueue
  BY <1>2, <1>3, <1>5 DEF ScanQueue
<1>6. CASE ListUploadsForCleanup
  BY <1>1, <1>2, <1>6 DEF ListUploadsForCleanup
<1>7. CASE DeleteObject
  BY <1>2, <1>3, <1>7 DEF DeleteObject
<1>8. CASE ClearRecord
  BY <1>2, <1>3, <1>8 DEF ClearRecord
<1>9. CASE ScanNext
  BY <1>1, <1>2, <1>9 DEF ScanNext
<1>10. CASE Restart
  BY <1>2, <1>10 DEF Restart
<1>11. CASE UNCHANGED scan
  BY <1>1, <1>11
<1> QED
  BY <1>4, <1>5, <1>6, <1>7, <1>8, <1>9, <1>10, <1>11, ScanFrame DEF Next, ScanStep

LEMMA QueueTypedStep ==
  ASSUME StoreTyped, WorkersTyped, CallsTyped, QueueTyped, [Next]_vars PROVE QueueTyped'
<1>1. queue' \in Seq(Item) /\ Len(queue') <= QueueCap /\ inflight' \subseteq Item
  <2>1. queue \in Seq(Item) /\ Len(queue) <= QueueCap /\ inflight \subseteq Item
        /\ scan.list \subseteq Item
    BY DEF QueueTyped
  <2>2. CASE UNCHANGED queueVars
    BY <2>1, <2>2 DEF queueVars
  <2>3. ASSUME NEW w \in Worker, Dequeue(w)
        PROVE  queue' \in Seq(Item) /\ Len(queue') <= QueueCap /\ inflight' \subseteq Item
    BY <2>1, <2>3, DequeueQueue, MediaAssumption DEF Dequeue
  <2>4. ASSUME NEW w \in Worker, Finish(w)
        PROVE  queue' \in Seq(Item) /\ Len(queue') <= QueueCap /\ inflight' \subseteq Item
    BY <2>1, <2>4 DEF Finish, FinishWith
  <2>5. CASE \E k \in Item : QueueMedia(k)
    BY <2>1, <2>5, QueueMediaEffect
  <2>6. CASE Restart
    <3>1. <<>> \in Seq(Item) /\ Len(<<>>) = 0
      BY EmptySequence
    <3> QED
      BY <2>6, <3>1, MediaAssumption DEF Restart
  <2>7. ASSUME NEW r \in Reader, Fetch(r)
        PROVE  reader[r].item \in Item
    BY <2>7 DEF Fetch, CallsTyped
  <2> QED
    BY <2>1, <2>2, <2>3, <2>4, <2>5, <2>6, <2>7, QueueStep
<1> QED
  BY <1>1, ScanTyped DEF QueueTyped, ScanType

---------------------------------------------------------------------------
(* What is in flight                                                       *)

Typed == StoreTyped /\ WorkersTyped /\ CallsTyped /\ QueueTyped

\* A worker that goes on with its attachment
LEMMA WorkerGoesOn ==
  ASSUME Typed, NEW w \in Worker, WorkerStep(w), ~Dequeue(w), ~Finish(w)
  PROVE  /\ worker[w].pc # "idle" /\ worker'[w].pc # "idle"
         /\ worker'[w].item = worker[w].item /\ worker[w].item \in Item
         /\ \A v \in Worker : v # w => worker'[v] = worker[v]
<1>1. CASE ReadMedia(w) \/ DownloadMedia(w) \/ UpdateMediaRef(w) \/ ReserveMediaStorage(w)
  BY <1>1, ReadMediaEffect, DownloadMediaEffect, UpdateMediaRefWorker, ReserveEffect
     DEF WorkerTo, Typed, WorkersTyped
<1>2. CASE PutMedia(w) \/ MarkMediaReady(w) \/ CheckMedia(w) \/ DeleteMedia(w)
  BY <1>2, PutMediaEffect, MarkWorker, CheckMediaEffect, DeleteMediaEffect
     DEF WorkerTo, Typed, WorkersTyped
<1>3. CASE Record(w)
  BY <1>3, RecordWorker DEF WorkerTo, Typed, WorkersTyped
<1> QED
  BY <1>1, <1>2, <1>3 DEF WorkerStep

\* The steps in which no worker takes an attachment or is done with one
SameItems ==
  \A w \in Worker : /\ worker'[w].pc = "idle" <=> worker[w].pc = "idle"
                    /\ worker[w].pc # "idle" => worker'[w].item = worker[w].item

LEMMA ItemsStep ==
  ASSUME Typed, [Next]_vars
  PROVE  SameItems \/ (\E w \in Worker : Dequeue(w) \/ Finish(w)) \/ Restart
<1>1. ASSUME NEW w \in Worker, WorkerStep(w), ~Dequeue(w), ~Finish(w)
      PROVE  SameItems
  BY <1>1, WorkerGoesOn DEF SameItems
<1>2. CASE UNCHANGED worker
  BY <1>2 DEF SameItems
<1> QED
  BY <1>1, <1>2, WorkerFrame DEF Next

LEMMA QueueInvStep == ASSUME Typed, QueueInv, [Next]_vars PROVE QueueInv'
<1>1. queue \in Seq(Item) /\ Len(queue) \in Nat
  BY DEF Typed, QueueTyped
<1>2. ASSUME NEW w \in Worker, Dequeue(w)
      PROVE  QueueInv'
  <2>1. /\ queue' \in Seq(Item) /\ Len(queue') = Len(queue) - 1 /\ Len(queue') \in Nat
        /\ Len(queue) >= 1 /\ Head(queue) = queue[1]
        /\ \A i \in 1..Len(queue') : queue'[i] = queue[i + 1]
    BY <1>1, <1>2, DequeueQueue DEF Typed
  <2>2. /\ worker[w].pc = "idle" /\ worker'[w].item = queue[1] /\ inflight' = inflight
        /\ \A v \in Worker : v # w => worker'[v] = worker[v]
    BY <1>2, <2>1, DequeueEffect DEF Typed
  <2>3. \A i \in 1..Len(queue') : i + 1 \in 1..Len(queue) /\ queue'[i] \in inflight
                                  /\ queue'[i] # queue[1]
    BY <1>1, <2>1 DEF QueueInv
  <2>4. \A i, j \in 1..Len(queue') : queue'[i] = queue'[j] => i = j
    <3>1. ASSUME NEW i \in 1..Len(queue'), NEW j \in 1..Len(queue'), queue'[i] = queue'[j]
          PROVE  i = j
      <4>1. queue[i + 1] = queue[j + 1] /\ i + 1 \in 1..Len(queue) /\ j + 1 \in 1..Len(queue)
        BY <2>1, <2>3, <3>1
      <4>2. i + 1 = j + 1
        BY <4>1 DEF QueueInv
      <4> QED
        BY <4>2
    <3> QED
      BY <3>1
  <2>5. 1 \in 1..Len(queue) /\ queue[1] \in inflight
    BY <1>1, <2>1 DEF QueueInv
  <2>6. \A v \in Worker : v # w /\ worker[v].pc # "idle" =>
          /\ worker[v].item # queue[1]
          /\ \A i \in 1..Len(queue') : queue'[i] # worker[v].item
    BY <2>1, <2>3, <2>5 DEF QueueInv
  <2>7. ASSUME NEW v \in Worker, worker'[v].pc # "idle"
        PROVE  /\ worker'[v].item \in inflight'
               /\ \A i \in 1..Len(queue') : queue'[i] # worker'[v].item
               /\ \A x \in Worker : worker'[x].pc # "idle" /\ worker'[x].item = worker'[v].item
                                      => x = v
    <3>1. CASE v = w
      BY <2>2, <2>3, <2>5, <2>6, <3>1
    <3>2. CASE v # w
      BY <2>2, <2>6, <2>7, <3>2 DEF QueueInv
    <3> QED
      BY <3>1, <3>2
  <2> QED
    BY <2>2, <2>3, <2>4, <2>7 DEF QueueInv
<1>3. ASSUME NEW w \in Worker, Finish(w)
      PROVE  QueueInv'
  <2>1. /\ worker[w].pc = "finish" /\ worker'[w].pc = "idle" /\ queue' = queue
        /\ inflight' = inflight \ {worker[w].item}
        /\ \A v \in Worker : v # w => worker'[v] = worker[v]
    BY <1>3, FinishEffect DEF Typed, Finish, FinishWith
  <2> QED
    BY <2>1 DEF QueueInv
<1>4. ASSUME NEW k \in Item, QueueMedia(k), UNCHANGED worker
      PROVE  QueueInv'
  <2>1. inflight' = inflight \cup {k} /\ Len(queue') \in Nat
    BY <1>4, QueueMediaEffect DEF Typed
  <2>2. CASE UNCHANGED queue
    BY <1>4, <2>1, <2>2 DEF QueueInv
  <2>3. CASE /\ k \notin inflight /\ Len(queue') = Len(queue) + 1
             /\ queue'[Len(queue')] = k
             /\ \A i \in 1..Len(queue) : queue'[i] = queue[i]
    <3>1. \A i \in 1..Len(queue') : \/ i \in 1..Len(queue) /\ queue'[i] = queue[i]
                                    \/ i = Len(queue') /\ queue'[i] = k
      BY <1>1, <2>1, <2>3
    <3>2. \A i \in 1..Len(queue) : queue[i] # k
      BY <2>3 DEF QueueInv
    <3>3. \A w \in Worker : worker[w].pc # "idle" => worker[w].item # k
      BY <2>3 DEF QueueInv
    <3>4. \A i, j \in 1..Len(queue') : queue'[i] = queue'[j] => i = j
      BY <3>1, <3>2 DEF QueueInv
    <3>5. \A i \in 1..Len(queue') : queue'[i] \in inflight'
      BY <2>1, <3>1 DEF QueueInv
    <3>6. \A w \in Worker : worker[w].pc # "idle" =>
            \A i \in 1..Len(queue') : queue'[i] # worker[w].item
      BY <3>1, <3>3 DEF QueueInv
    <3> QED
      BY <1>4, <2>1, <3>4, <3>5, <3>6 DEF QueueInv
  <2> QED
    BY <1>4, <2>2, <2>3, QueueMediaEffect DEF Typed
<1>5. CASE Restart
  <2>1. Len(queue') = 0 /\ \A w \in Worker : worker'[w].pc = "idle"
    BY <1>5 DEF Restart, Idle
  <2> QED
    BY <2>1 DEF QueueInv
<1>6. CASE UNCHANGED queueVars /\ SameItems
  BY <1>6 DEF QueueInv, queueVars, SameItems
<1>7. ASSUME ScanQueue, NEW k \in scan.list, QueueMedia(k)
      PROVE  QueueInv'
  BY <1>4, <1>7, WorkerFrame DEF Typed, QueueTyped, ScanStep
<1>8. ASSUME NEW r \in Reader, Fetch(r), QueueMedia(reader[r].item)
      PROVE  QueueInv'
  <2>1. reader[r].item \in Item /\ UNCHANGED worker
    BY <1>8, WorkerFrame DEF Typed, CallsTyped, Fetch, ReaderStep
  <2> QED
    BY <1>4, <1>8, <2>1
<1> QED
  BY <1>2, <1>3, <1>5, <1>6, <1>7, <1>8, QueueStep, ItemsStep DEF Typed

\* No row goes away.
LEMMA RowsStay ==
  ASSUME StoreTyped, WorkersTyped, CallsTyped, [Next]_vars
  PROVE  \A k \in Item : row[k].avail # "none" => row'[k].avail # "none"
BY RowStep DEF RowsFade, Fades, RowStored, RowsMerged, Remote

LEMMA KnownInvStep == ASSUME Typed, KnownInv, [Next]_vars PROVE KnownInv'
<1>1. \A k \in Item : row[k].avail # "none" => row'[k].avail # "none"
  BY RowsStay DEF Typed
<1>2. /\ inflight \subseteq Item /\ scan.list \subseteq Item
      /\ \A r \in Reader : reader[r].pc # "idle" => reader[r].item \in Item
  BY DEF Typed, QueueTyped, CallsTyped
<1>3. \A k \in inflight' : row'[k].avail # "none"
  <2>1. CASE inflight' \subseteq inflight
    BY <1>1, <1>2, <2>1 DEF KnownInv
  <2>2. ASSUME NEW k \in scan.list, QueueMedia(k), ScanQueue
        PROVE  \A j \in inflight' : row'[j].avail # "none"
    <3>1. inflight' = inflight \cup {k} /\ k \in Item /\ row[k].avail # "none"
      BY <1>2, <2>2, QueueMediaEffect DEF Typed, KnownInv, ScanQueue
    <3> QED
      BY <1>1, <1>2, <3>1 DEF KnownInv
  <2>3. ASSUME NEW r \in Reader, Fetch(r), QueueMedia(reader[r].item)
        PROVE  \A j \in inflight' : row'[j].avail # "none"
    <3>1. reader[r].pc # "idle"
      BY <2>3 DEF Fetch
    <3>2. /\ inflight' = inflight \cup {reader[r].item} /\ reader[r].item \in Item
          /\ row[reader[r].item].avail # "none"
      BY <1>2, <2>3, <3>1, QueueMediaEffect DEF Typed, KnownInv
    <3> QED
      BY <1>1, <1>2, <3>2 DEF KnownInv
  <2>4. UNCHANGED queueVars => inflight' \subseteq inflight
    BY DEF queueVars
  <2>5. \A w \in Worker : Dequeue(w) \/ Finish(w) => inflight' \subseteq inflight
    BY DEF Dequeue, Finish, FinishWith
  <2>6. Restart => inflight' \subseteq inflight
    BY DEF Restart
  <2> QED
    BY <2>1, <2>2, <2>3, <2>4, <2>5, <2>6, QueueStep DEF Typed
<1>4. \A r \in Reader : reader'[r].pc # "idle" => row'[reader'[r].item].avail # "none"
  <2>1. ASSUME NEW r \in Reader, ReaderStep(r)
        PROVE  \A q \in Reader : reader'[q].pc # "idle" => row'[reader'[q].item].avail # "none"
    BY <1>1, <1>2, <2>1, ReaderStepEffect DEF Typed, KnownInv
  <2>2. ASSUME NEW r \in Reader, NEW k \in Item, GetMedia(r, k)
        PROVE  \A q \in Reader : reader'[q].pc # "idle" => row'[reader'[q].item].avail # "none"
    BY <1>1, <1>2, <2>2, GetMediaEffect DEF Typed, KnownInv
  <2>3. CASE UNCHANGED reader
    BY <1>1, <1>2, <2>3 DEF KnownInv
  <2>4. CASE Restart
    BY <2>4 DEF Restart, Rest
  <2> QED
    BY <2>1, <2>2, <2>3, <2>4, ReaderFrame DEF Next
<1>5. scan'.pc = "queue" => \A k \in scan'.list : row'[k].avail # "none"
  <2>1. CASE ListPendingMedia
    <3>1. scan'.list = {k \in Item : Remote(k) /\ row[k].auto /\ ~row[k].wait}
      BY <2>1, ScanSet DEF ListPendingMedia
    <3> QED
      BY <1>1, <3>1 DEF Remote
  <2>2. CASE ScanQueue
    <3>1. scan'.pc = "queue" => scan.pc = "queue" /\ scan'.list \subseteq scan.list
      BY <2>2 DEF ScanQueue, ScanAt
    <3> QED
      BY <1>1, <1>2, <3>1 DEF KnownInv
  <2>3. CASE ListUploadsForCleanup \/ DeleteObject \/ ClearRecord \/ ScanNext \/ Restart
    <3>1. scan'.pc # "queue"
      BY <2>3 DEF ListUploadsForCleanup, DeleteObject, ClearRecord, ScanNext, Restart, ScanAt
    <3> QED
      BY <3>1
  <2>4. CASE UNCHANGED scan
    BY <1>1, <1>2, <2>4 DEF KnownInv
  <2> QED
    BY <2>1, <2>2, <2>3, <2>4, ScanFrame DEF Next, ScanStep
<1> QED
  BY <1>3, <1>4, <1>5 DEF KnownInv

---------------------------------------------------------------------------
(* Whose file it is                                                        *)

\* The rows of a step in which no file is stored and no copies are merged
LEMMA FadeEffect ==
  ASSUME KeyInv, RowsFade
  PROVE  \A k \in Item :
           \/ row'[k].avail = row[k].avail /\ row'[k].key = row[k].key
           \/ /\ row'[k].avail \in {"remote", "unavailable"} /\ row'[k].key = None
              /\ row[k].avail # "merged" /\ (k \in Upload => row[k].avail # "none")
BY DEF KeyInv, RowsFade, Fades

\* What is stored for an attachment that waits for it is nobody else's.
LEMMA FreeKey ==
  ASSUME KeyInv, NEW k \in Item, row[k].avail # "ready", row[k].avail # "merged"
  PROVE  \A j \in Item : row[j].key # k
BY MediaAssumption DEF KeyInv

\* The file that is stored was for a row that has none yet.
LEMMA StoredKey ==
  ASSUME Typed, QueueInv, KnownInv, KeyInv, UploadInv, [Next]_vars, ~RowsFade,
         ~\E p \in Twins : MergeAttachments(p[1], p[2])
  PROVE  \E k \in Item :
           /\ RowStored(k) /\ row[k].avail \in {"none", "remote"}
           /\ \/ \E w \in Worker : MarkMediaReady(w) /\ k = worker[w].item
              \/ UseUpload(k) /\ k \in Upload
<1>1. ASSUME NEW w \in Worker, MarkMediaReady(w), Remote(worker[w].item),
             RowStored(worker[w].item)
      PROVE  worker[w].item \in Item /\ row[worker[w].item].avail = "remote"
  BY <1>1 DEF MarkMediaReady, Typed, WorkersTyped, Remote
<1>2. ASSUME NEW u \in Upload, UseUpload(u)
      PROVE  u \in Item /\ row[u].avail = "none"
  BY <1>2 DEF UseUpload, UseIf, UploadInv, Item
<1> QED
  BY <1>1, <1>2, RowStep DEF Typed

LEMMA KeyInvStep ==
  ASSUME Typed, QueueInv, KnownInv, KeyInv, UploadInv, [Next]_vars PROVE KeyInv'
<1>1. CASE RowsFade
  <2>1. \A k \in Item : \/ row'[k].avail = row[k].avail /\ row'[k].key = row[k].key
                        \/ /\ row'[k].avail \in {"remote", "unavailable"} /\ row'[k].key = None
                           /\ row[k].avail # "merged"
    BY <1>1, FadeEffect
  <2> QED
    BY <2>1, MediaAssumption DEF KeyInv
<1>2. ASSUME NEW k \in Item, RowStored(k), row[k].avail \in {"none", "remote"}
      PROVE  KeyInv'
  <2>1. \A j \in Item : row[j].key # k
    BY <1>2, FreeKey
  <2>2. /\ row'[k].avail = "ready" /\ row'[k].key = k
        /\ \A j \in Item : j # k => row'[j] = row[j]
    BY <1>2 DEF RowStored
  <2>3. ASSUME NEW j \in Item, j # k
        PROVE  /\ row'[j].avail # "ready" => row'[j].key = None
               /\ row'[j].avail = "ready" =>
                    /\ row'[j].key = j \/ (row'[j].key \in Item /\ row'[row'[j].key].avail = "merged")
                    /\ \A i \in Item : row'[i].key = row'[j].key => i = j
    BY <1>2, <2>1, <2>2, <2>3 DEF KeyInv
  <2> QED
    BY <2>1, <2>2, <2>3 DEF KeyInv
<1>3. ASSUME NEW p \in Twins, MergeAttachments(p[1], p[2])
      PROVE  KeyInv'
  <2>1. PICK t, s : t = p[1] /\ s = p[2]
    OBVIOUS
  <2>2. RowsMerged(t, s) /\ t \in Item /\ s \in Item /\ t # s
    BY <1>3, <2>1, MergeRow DEF Typed, RowsMerged, Item
  <2>3. /\ row[t].avail # "merged" /\ row[s].avail # "merged"
        /\ row'[s].avail = "merged" /\ row'[s].key = None
        /\ \A j \in Item : j # t /\ j # s => row'[j] = row[j]
        /\ row'[t].avail = "ready" <=> row[t].avail = "ready" \/ row[s].avail = "ready"
        /\ row'[t].key = IF row[s].avail = "ready" /\ row[t].avail # "ready"
                         THEN row[s].key ELSE row[t].key
    BY <2>2 DEF RowsMerged, Exists, Given
  <2>4. ASSUME NEW k \in Item, k # t
        PROVE  /\ row'[k].avail # "ready" => row'[k].key = None
               /\ row'[k].avail = "ready" =>
                    /\ row'[k].key = k \/ (row'[k].key \in Item /\ row'[row'[k].key].avail = "merged")
                    /\ \A j \in Item : row'[j].key = row'[k].key => j = k
    <3>1. CASE k = s
      BY <2>3, <3>1
    <3>2. CASE k # s
      <4>1. row'[k] = row[k]
        BY <2>3, <2>4, <3>2
      <4>2. row[k].avail # "ready" => row[k].key = None
        BY DEF KeyInv
      <4>3. ASSUME row[k].avail = "ready"
            PROVE  /\ row[k].key = k \/ (row[k].key \in Item /\ row[row[k].key].avail = "merged")
                   /\ row[k].key \in Item
                   /\ \A j \in Item : row[j].key = row[k].key => j = k
        BY <4>3 DEF KeyInv
      <4>4. ASSUME row[k].avail = "ready", row[k].key # k
            PROVE  row'[row[k].key].avail = "merged"
        BY <2>3, <4>3, <4>4
      <4>5. ASSUME row[k].avail = "ready", NEW j \in Item, row'[j].key = row[k].key
            PROVE  j = k
        BY <2>2, <2>3, <2>4, <3>2, <4>3, <4>5, MediaAssumption
      <4> QED
        BY <4>1, <4>2, <4>3, <4>4, <4>5
    <3> QED
      BY <3>1, <3>2
  <2>5. /\ row'[t].avail # "ready" => row'[t].key = None
        /\ row'[t].avail = "ready" =>
             /\ row'[t].key = t \/ (row'[t].key \in Item /\ row'[row'[t].key].avail = "merged")
             /\ \A j \in Item : row'[j].key = row'[t].key => j = t
    <3>1. CASE row[s].avail = "ready" /\ row[t].avail # "ready"
      <4>1. /\ row'[t].key = row[s].key /\ row'[t].avail = "ready"
        BY <2>3, <3>1
      <4>2. /\ row[s].key = s \/ (row[s].key \in Item /\ row[row[s].key].avail = "merged")
            /\ row[s].key \in Item
            /\ \A j \in Item : row[j].key = row[s].key => j = s
        BY <2>2, <3>1 DEF KeyInv
      <4>3. row'[row[s].key].avail = "merged"
        BY <2>3, <4>2
      <4>4. ASSUME NEW j \in Item, row'[j].key = row[s].key
            PROVE  j = t
        BY <2>2, <2>3, <4>2, <4>4, MediaAssumption
      <4> QED
        BY <4>1, <4>2, <4>3, <4>4
    <3>2. CASE ~(row[s].avail = "ready" /\ row[t].avail # "ready")
      <4>1. row'[t].key = row[t].key /\ (row'[t].avail = "ready" <=> row[t].avail = "ready")
        BY <2>3, <3>2
      <4>2. row[t].avail # "ready" => row[t].key = None
        BY <2>2 DEF KeyInv
      <4>3. ASSUME row[t].avail = "ready"
            PROVE  /\ row[t].key = t \/ (row[t].key \in Item /\ row[row[t].key].avail = "merged")
                   /\ row[t].key \in Item
                   /\ \A j \in Item : row[j].key = row[t].key => j = t
        BY <2>2, <4>3 DEF KeyInv
      <4>4. ASSUME row[t].avail = "ready", row[t].key # t
            PROVE  row'[row[t].key].avail = "merged"
        BY <2>3, <4>3, <4>4
      <4>5. ASSUME row[t].avail = "ready", NEW j \in Item, row'[j].key = row[t].key
            PROVE  j = t
        BY <2>2, <2>3, <4>3, <4>5, MediaAssumption
      <4> QED
        BY <4>1, <4>2, <4>3, <4>4, <4>5
    <3> QED
      BY <3>1, <3>2
  <2> QED
    BY <2>4, <2>5 DEF KeyInv
<1> QED
  BY <1>1, <1>2, <1>3, StoredKey

LEMMA OrphanInvStep ==
  ASSUME Typed, QueueInv, KnownInv, KeyInv, OrphanInv, UploadInv, [Next]_vars
  PROVE  OrphanInv'
<1>1. orphans \subseteq Item
  BY DEF Typed, StoreTyped
<1>2. CASE RowsFade /\ orphans' \subseteq orphans
  <2>1. \A k \in Item : \/ row'[k].avail = row[k].avail /\ row'[k].key = row[k].key
                        \/ row'[k].key = None /\ row[k].avail # "merged"
    BY <1>2, FadeEffect
  <2> QED
    BY <1>1, <1>2, <2>1, MediaAssumption DEF OrphanInv
<1>3. ASSUME NEW k \in Item, RowStored(k), row[k].avail \in {"none", "remote"},
             orphans' \subseteq orphans
      PROVE  OrphanInv'
  <2>1. k \notin orphans
    BY <1>3 DEF OrphanInv
  <2>2. row'[k].key = k /\ \A j \in Item : j # k => row'[j] = row[j]
    BY <1>3 DEF RowStored
  <2> QED
    BY <1>1, <1>3, <2>1, <2>2 DEF OrphanInv
<1>4. ASSUME NEW p \in Twins, MergeAttachments(p[1], p[2])
      PROVE  OrphanInv'
  <2>1. PICK t, s : t = p[1] /\ s = p[2]
    OBVIOUS
  <2>2. RowsMerged(t, s) /\ t \in Item /\ s \in Item /\ t # s
    BY <1>4, <2>1, MergeRow DEF Typed, RowsMerged, Item
  <2>3. /\ row[t].avail # "merged" /\ row[s].avail # "merged"
        /\ row'[s].avail = "merged" /\ row'[s].key = None
        /\ \A j \in Item : j # t /\ j # s => row'[j] = row[j]
        /\ row'[t].key = IF row[s].avail = "ready" /\ row[t].avail # "ready"
                         THEN row[s].key ELSE row[t].key
    BY <2>2 DEF RowsMerged, Exists, Given
  <2>4. ASSUME NEW k \in orphans
        PROVE  row'[k].avail = "merged" /\ \A j \in Item : row'[j].key # k
    <3>1. row[k].avail = "merged" /\ k \in Item /\ \A j \in Item : row[j].key # k
      BY <1>1 DEF OrphanInv
    <3> QED
      BY <2>2, <2>3, <3>1, MediaAssumption
  <2>5. ASSUME row[s].avail = "ready", ~Given(t, s), row[s].key # row[t].key
        PROVE  row'[row[s].key].avail = "merged" /\ \A j \in Item : row'[j].key # row[s].key
    <3>1. /\ row[s].key = s \/ (row[s].key \in Item /\ row[row[s].key].avail = "merged")
          /\ row[s].key \in Item
          /\ \A j \in Item : row[j].key = row[s].key => j = s
      BY <2>2, <2>5 DEF KeyInv
    <3>2. row'[t].key = row[t].key
      BY <2>3, <2>5 DEF Given
    <3> QED
      BY <2>2, <2>3, <2>5, <3>1, <3>2, MediaAssumption
  <2>6. \/ UNCHANGED orphans
        \/ /\ row[s].avail = "ready" /\ ~Given(t, s) /\ row[s].key # row[t].key
           /\ orphans' = orphans \cup {row[s].key}
    BY <1>4, <2>1 DEF MergeAttachments, MergeIf
  <2> QED
    BY <2>4, <2>5, <2>6 DEF OrphanInv
<1> QED
  BY <1>2, <1>3, <1>4, StoredKey, OrphansMade

---------------------------------------------------------------------------
(* Which objects go                                                        *)

LEMMA ObjectsGo ==
  ASSUME Typed, [Next]_vars
  PROVE  \/ objects \cup lost \subseteq objects' \cup lost'
         \/ \E w \in Worker : /\ DeleteMedia(w) /\ UNCHANGED lost
                              /\ objects \ {worker[w].item} \subseteq objects'
         \/ /\ DeleteObject /\ UNCHANGED lost
            /\ \E k \in scan.list : objects \ {k} \subseteq objects'
<1>1. ASSUME NEW w \in Worker, PutMedia(w)
      PROVE  objects \cup lost \subseteq objects' \cup lost'
  BY <1>1, PutMediaEffect DEF Typed
<1>2. ASSUME NEW w \in Worker, DeleteMedia(w)
      PROVE  UNCHANGED lost /\ objects \ {worker[w].item} \subseteq objects'
  BY <1>2, DeleteMediaEffect DEF Typed, DeleteMedia
<1>3. ASSUME NEW u \in Upload, PutUpload(u)
      PROVE  objects \cup lost \subseteq objects' \cup lost'
  BY <1>3 DEF PutUpload
<1>4. ASSUME NEW k \in Item, LoseObject(k)
      PROVE  objects \cup lost \subseteq objects' \cup lost'
  BY <1>4 DEF LoseObject
<1>5. ASSUME DeleteObject
      PROVE  UNCHANGED lost /\ \E k \in scan.list : objects \ {k} \subseteq objects'
  BY <1>5 DEF DeleteObject
<1> QED
  BY <1>1, <1>2, <1>3, <1>4, <1>5, ObjectFrame DEF Next, WorkerStep, UploadStep, ScanStep

\* An object that is removed is not the file of a row, of an upload that can be
\* used, or one that a worker is about to mark.
LEMMA GoneIsUnused ==
  ASSUME Typed, StoreInv, [Next]_vars,
         NEW k \in objects \cup lost, k \notin objects' \cup lost'
  PROVE  /\ UNCHANGED <<row, uploads, call>>
         /\ \A j \in Item : row[j].key # k
         /\ k \in Upload => uploads[k] # "ready" /\ call[k] # "mark"
         /\ \A w \in Worker : worker'[w].pc = "mark" =>
              /\ worker[w].pc = "mark" /\ worker'[w].item = worker[w].item
              /\ worker[w].item = k => ~Exists(k)
<1>1. Upload \subseteq Item
  BY DEF Item
<1>2. ASSUME NEW v \in Worker, DeleteMedia(v), worker[v].item = k
      PROVE  /\ UNCHANGED <<row, uploads, call>>
             /\ \A j \in Item : row[j].key # k
             /\ k \in Upload => uploads[k] # "ready" /\ call[k] # "mark"
             /\ \A w \in Worker : worker'[w].pc = "mark" =>
                  /\ worker[w].pc = "mark" /\ worker'[w].item = worker[w].item
                  /\ worker[w].item = k => ~Exists(k)
  <2>1. /\ worker[v].pc = "delete" /\ worker'[v].pc = "retry"
        /\ \A w \in Worker : w # v => worker'[w] = worker[w]
    BY <1>2, DeleteMediaEffect DEF Typed, WorkerTo
  <2>2. row[k].avail # "none" /\ \A w \in Worker : worker[w].pc # "idle" /\ worker[w].item = k => w = v
    BY <1>2, <2>1 DEF StoreInv, QueueInv, KnownInv
  <2>3. k \in Upload => uploads[k] = "none" /\ call[k] = "done"
    BY <2>2 DEF StoreInv, UploadInv
  <2>4. \A j \in Item : row[j].key # k
    BY <1>2, <2>1 DEF StoreInv, DownloadInv
  <2>5. UNCHANGED <<row, uploads, call>>
    BY <1>2 DEF DeleteMedia, dbVars
  <2> QED
    BY <2>1, <2>2, <2>3, <2>4, <2>5
<1>3. ASSUME DeleteObject, k \in scan.list
      PROVE  /\ UNCHANGED <<row, uploads, call>>
             /\ \A j \in Item : row[j].key # k
             /\ k \in Upload => uploads[k] # "ready" /\ call[k] # "mark"
             /\ \A w \in Worker : worker'[w].pc = "mark" =>
                  /\ worker[w].pc = "mark" /\ worker'[w].item = worker[w].item
                  /\ worker[w].item = k => ~Exists(k)
  <2>1. UNCHANGED <<row, uploads, call, worker>> /\ scan.pc \in {"uploads", "orphans"}
    BY <1>3 DEF DeleteObject, dbVars
  <2>2. CASE scan.pc = "uploads"
    <3>1. k \in Upload /\ k \in Item /\ uploads[k] = "deleting"
      BY <1>1, <1>3, <2>2 DEF StoreInv, ScanInv
    <3>2. row[k].avail = "none" /\ call[k] # "mark"
      BY <3>1 DEF StoreInv, UploadInv
    <3>3. \A j \in Item : row[j].key # k
      BY <3>1, <3>2, FreeKey DEF StoreInv
    <3> QED
      BY <2>1, <3>1, <3>2, <3>3 DEF Exists
  <2>3. CASE scan.pc = "orphans"
    <3>1. k \in orphans
      BY <1>3, <2>3 DEF StoreInv, ScanInv
    <3>2. row[k].avail = "merged" /\ \A j \in Item : row[j].key # k
      BY <3>1 DEF StoreInv, OrphanInv
    <3>3. k \notin Upload
      BY <3>2 DEF StoreInv, UploadInv
    <3> QED
      BY <2>1, <3>2, <3>3 DEF Exists
  <2> QED
    BY <2>1, <2>2, <2>3
<1> QED
  BY <1>2, <1>3, ObjectsGo

---------------------------------------------------------------------------
(* Uploads                                                                 *)

\* What a step does to an upload and its call
UploadMove(u) ==
  \/ uploads'[u] = uploads[u] /\ call'[u] = call[u]
  \/ /\ call[u] = "new" /\ call'[u] = "reserve" /\ uploads'[u] = uploads[u]
  \/ /\ ReserveUpload(u) /\ call[u] = "reserve" /\ call'[u] \in {"insert", "done"}
     /\ uploads'[u] = uploads[u]
  \/ /\ InsertUpload(u) /\ call[u] = "insert" /\ call'[u] = "put" /\ uploads'[u] = "staging"
  \/ /\ call[u] = "insert" /\ call'[u] = "release" /\ uploads'[u] = uploads[u]
  \/ /\ call[u] = "put" /\ call'[u] = "mark" /\ uploads'[u] = uploads[u] /\ u \in objects'
  \/ /\ call[u] = "put" /\ call'[u] = "discard" /\ uploads'[u] = uploads[u]
  \/ /\ call[u] = "mark" /\ call'[u] \in {"answer", "discard"}
     /\ uploads'[u] \in {uploads[u], "ready"}
  \/ /\ call[u] = "discard" /\ call'[u] = "release"
     /\ uploads'[u] = uploads[u] \/ (uploads[u] # "none" /\ uploads'[u] = "deleting")
  \/ /\ call[u] \in {"release", "answer"} /\ call'[u] \in {"known", "done"}
     /\ uploads'[u] = uploads[u]
  \/ /\ UseUpload(u) /\ call[u] = "known" /\ call'[u] = "done"
     /\ uploads[u] = "ready" /\ uploads'[u] = "none"
  \/ /\ call'[u] = call[u] /\ uploads'[u] = "deleting"
     /\ uploads[u] = "ready" \/ (uploads[u] = "staging" /\ call[u] = "done")
  \/ /\ call'[u] = call[u] /\ uploads[u] = "deleting" /\ uploads'[u] = "none"
     /\ scan.pc = "clear" /\ scan'.pc = "uploads" /\ scan'.list = scan.list \ {u}
  \/ /\ call[u] \notin {"new", "known"} /\ call'[u] = "done" /\ uploads'[u] = uploads[u]
     /\ scan'.pc = "idle"

LEMMA UploadMoves == ASSUME Typed, [Next]_vars PROVE \A u \in Upload : UploadMove(u)
<1>1. uploads \in [Upload -> UploadState] /\ call \in [Upload -> CallState]
  BY DEF Typed, StoreTyped, CallsTyped, UploadState, CallState
<1>2. ASSUME NEW v \in Upload, NEW a, NEW b, uploads' = [uploads EXCEPT ![v] = a],
             call' = [call EXCEPT ![v] = b]
      PROVE  /\ uploads'[v] = a /\ call'[v] = b
             /\ \A u \in Upload : u # v => uploads'[u] = uploads[u] /\ call'[u] = call[u]
  BY <1>1, <1>2
<1>3. ASSUME NEW v \in Upload, UNCHANGED uploads, NEW b, To(v, b)
      PROVE  /\ call'[v] = b /\ uploads'[v] = uploads[v]
             /\ \A u \in Upload : u # v => uploads'[u] = uploads[u] /\ call'[u] = call[u]
  BY <1>1, <1>3 DEF To
<1>4. ASSUME NEW v \in Upload, NEW a, uploads' = [uploads EXCEPT ![v] = a], UNCHANGED call
      PROVE  /\ uploads'[v] = a /\ call'[v] = call[v]
             /\ \A u \in Upload : u # v => uploads'[u] = uploads[u] /\ call'[u] = call[u]
  BY <1>1, <1>4
<1>5. ASSUME NEW v \in Upload,
             \/ StageUpload(v) \/ ReserveUpload(v) \/ PutUpload(v) \/ ReleaseUpload(v)
      PROVE  \A u \in Upload : UploadMove(u)
  <2>1. UNCHANGED uploads
    BY <1>5, UploadFrame
  <2>2. CASE StageUpload(v)
    BY <1>3, <2>1, <2>2 DEF StageUpload, UploadMove
  <2>3. CASE ReserveUpload(v)
    <3>1. call[v] = "reserve" /\ (To(v, "insert") \/ To(v, "done"))
      BY <2>3 DEF ReserveUpload
    <3> QED
      BY <1>3, <2>1, <2>3, <3>1 DEF UploadMove
  <2>4. CASE PutUpload(v)
    BY <1>3, <2>1, <2>4 DEF PutUpload, UploadMove
  <2>5. CASE ReleaseUpload(v)
    <3>1. PICK pc \in {"known", "done"} : To(v, pc)
      BY <2>5 DEF ReleaseUpload
    <3> QED
      BY <1>3, <2>1, <2>5, <3>1 DEF ReleaseUpload, UploadMove
  <2> QED
    BY <1>5, <2>2, <2>3, <2>4, <2>5
<1>6. ASSUME NEW v \in Upload, InsertUpload(v)
      PROVE  \A u \in Upload : UploadMove(u)
  <2>1. /\ call[v] = "insert"
        /\ \/ uploads' = [uploads EXCEPT ![v] = "staging"] /\ call' = [call EXCEPT ![v] = "put"]
           \/ UNCHANGED uploads /\ To(v, "release")
    BY <1>6 DEF InsertUpload, To
  <2>2. CASE UNCHANGED uploads /\ To(v, "release")
    BY <1>3, <2>1, <2>2 DEF UploadMove
  <2>3. CASE uploads' = [uploads EXCEPT ![v] = "staging"] /\ call' = [call EXCEPT ![v] = "put"]
    <3>1. /\ uploads'[v] = "staging" /\ call'[v] = "put"
          /\ \A u \in Upload : u # v => uploads'[u] = uploads[u] /\ call'[u] = call[u]
      BY <1>2, <2>3
    <3> QED
      BY <1>6, <2>1, <3>1 DEF UploadMove
  <2> QED
    BY <2>1, <2>2, <2>3
<1>7. ASSUME NEW v \in Upload, MarkUploadReady(v)
      PROVE  \A u \in Upload : UploadMove(u)
  BY <1>2, <1>3, <1>7 DEF MarkUploadReady, UploadMove, To
<1>8. ASSUME NEW v \in Upload, DiscardUpload(v)
      PROVE  \A u \in Upload : UploadMove(u)
  <2>1. PICK a : /\ a = IF uploads[v] \in {"ready", "staging"} THEN "deleting" ELSE uploads[v]
                 /\ uploads' = [uploads EXCEPT ![v] = a] \/ UNCHANGED uploads
    BY <1>8 DEF DiscardUpload, DiscardTo
  <2>2. call[v] = "discard" /\ To(v, "release")
    BY <1>8 DEF DiscardUpload, DiscardTo
  <2>3. a = uploads[v] \/ (uploads[v] # "none" /\ a = "deleting")
    BY <2>1
  <2>4. CASE uploads' = [uploads EXCEPT ![v] = a]
    <3>1. /\ uploads'[v] = a /\ call'[v] = "release"
          /\ \A u \in Upload : u # v => uploads'[u] = uploads[u] /\ call'[u] = call[u]
      BY <1>2, <2>2, <2>4 DEF To
    <3> QED
      BY <2>2, <2>3, <3>1 DEF UploadMove
  <2>5. CASE UNCHANGED uploads
    BY <1>3, <2>2, <2>5 DEF UploadMove
  <2> QED
    BY <2>1, <2>4, <2>5
<1>9. ASSUME NEW v \in Upload, UseUpload(v)
      PROVE  \A u \in Upload : UploadMove(u)
  <2>1. /\ uploads' = [uploads EXCEPT ![v] = "none"] /\ call' = [call EXCEPT ![v] = "done"]
        /\ call[v] = "known" /\ uploads[v] = "ready"
    BY <1>9 DEF UseUpload, UseIf, To
  <2>2. /\ uploads'[v] = "none" /\ call'[v] = "done"
        /\ \A u \in Upload : u # v => uploads'[u] = uploads[u] /\ call'[u] = call[u]
    BY <1>2, <2>1
  <2> QED
    BY <1>9, <2>1, <2>2 DEF UploadMove
<1>10. ASSUME NEW v \in Upload, DeleteUpload(v)
       PROVE  \A u \in Upload : UploadMove(u)
  BY <1>4, <1>10 DEF DeleteUpload, UploadMove
<1>11. CASE ListUploadsForCleanup
  <2>1. PICK old \in SUBSET {u \in Upload : uploads[u] = "ready"} :
          uploads' = [u \in Upload |->
            IF u \in old \cup {v \in Upload : uploads[v] = "staging" /\ call[v] = "done"}
            THEN "deleting" ELSE uploads[u]]
    BY <1>11 DEF ListUploadsForCleanup
  <2>2. UNCHANGED call
    BY <1>11, CallFrame DEF ScanStep
  <2> QED
    BY <2>1, <2>2 DEF UploadMove
<1>12. CASE ClearRecord
  <2>1. UNCHANGED call
    BY <1>12, CallFrame DEF ScanStep
  <2>2. PICK k \in scan.list \ objects :
          /\ \/ /\ scan.pc = "clear"
                /\ uploads' = [uploads EXCEPT ![k] = IF @ = "deleting" THEN "none" ELSE @]
             \/ UNCHANGED uploads
          /\ ScanAt(IF scan.pc = "clear" THEN "uploads" ELSE "orphans", scan.list \ {k})
    BY <1>12 DEF ClearRecord
  <2>3. CASE UNCHANGED uploads
    BY <2>1, <2>3 DEF UploadMove
  <2>4. CASE /\ scan.pc = "clear"
             /\ uploads' = [uploads EXCEPT ![k] = IF @ = "deleting" THEN "none" ELSE @]
    <3>1. scan'.pc = "uploads" /\ scan'.list = scan.list \ {k}
      BY <2>2, <2>4, ScanSet
    <3>2. \A u \in Upload : \/ uploads'[u] = uploads[u]
                            \/ u = k /\ uploads[u] = "deleting" /\ uploads'[u] = "none"
      BY <1>1, <2>4
    <3> QED
      BY <2>1, <2>4, <3>1, <3>2 DEF UploadMove
  <2> QED
    BY <2>2, <2>3, <2>4
<1>13. CASE Restart
  <2>1. UNCHANGED uploads /\ scan'.pc = "idle"
        /\ call' = [u \in Upload |-> IF call[u] \in {"new", "known"} THEN call[u] ELSE "done"]
    BY <1>13, ScanSet DEF Restart, dbVars
  <2> QED
    BY <2>1 DEF UploadMove
<1>14. CASE UNCHANGED uploads /\ UNCHANGED call
  BY <1>14 DEF UploadMove
<1> QED
  BY <1>5, <1>6, <1>7, <1>8, <1>9, <1>10, <1>11, <1>12, <1>13, <1>14, UploadFrame, CallFrame
     DEF Next, UploadStep, ScanStep

LEMMA UploadInvStep == ASSUME Typed, StoreInv, [Next]_vars PROVE UploadInv'
<1> SUFFICES ASSUME NEW u \in Upload
             PROVE  /\ row'[u].avail # "merged" /\ (row'[u].avail = "ready" => row'[u].key = u)
                    /\ uploads'[u] # "none" \/ call'[u] # "done" => row'[u].avail = "none"
                    /\ call'[u] \in {"new", "reserve", "insert"} => uploads'[u] = "none"
                    /\ call'[u] \in {"put", "mark"} => uploads'[u] = "staging"
                    /\ uploads'[u] = "ready" \/ call'[u] = "mark" => u \in objects' \cup lost'
  BY DEF UploadInv
<1>1. /\ row[u].avail # "merged" /\ (row[u].avail = "ready" => row[u].key = u)
      /\ uploads[u] # "none" \/ call[u] # "done" => row[u].avail = "none"
      /\ call[u] \in {"new", "reserve", "insert"} => uploads[u] = "none"
      /\ call[u] \in {"put", "mark"} => uploads[u] = "staging"
      /\ uploads[u] = "ready" \/ call[u] = "mark" => u \in objects \cup lost
  BY DEF StoreInv, UploadInv
<1>2. UploadMove(u) /\ u \in Item /\ u \notin Attachment
  BY UploadMoves, MediaAssumption DEF Item
<1>3. \/ row'[u].avail = row[u].avail /\ row'[u].key = row[u].key
      \/ /\ row[u].avail \notin {"none", "merged"} /\ row'[u].avail \in {"remote", "unavailable"}
      \/ /\ row[u].avail = "remote" \/ UseUpload(u)
         /\ row'[u].avail = "ready" /\ row'[u].key = u
  <2>1. CASE RowsFade
    BY <1>2, <2>1, FadeEffect DEF StoreInv
  <2>2. ASSUME NEW p \in Twins, MergeAttachments(p[1], p[2])
        PROVE  row'[u] = row[u]
    BY <1>2, <2>2, MergeRow DEF Typed, RowsMerged
  <2>3. ASSUME NEW k \in Item, RowStored(k), k # u
        PROVE  row'[u] = row[u]
    BY <1>2, <2>3 DEF RowStored
  <2>4. ASSUME RowStored(u)
        PROVE  row'[u].avail = "ready" /\ row'[u].key = u
    BY <2>4 DEF RowStored
  <2>5. ASSUME NEW w \in Worker, MarkMediaReady(w), u = worker[w].item,
               row[u].avail \in {"none", "remote"}
        PROVE  row[u].avail = "remote"
    BY <2>5 DEF MarkMediaReady, StoreInv, QueueInv, KnownInv
  <2> QED
    BY <2>1, <2>2, <2>3, <2>4, <2>5, StoredKey DEF StoreInv
<1>4. row'[u].avail # "merged" /\ (row'[u].avail = "ready" => row'[u].key = u)
  BY <1>1, <1>3
<1>5. uploads'[u] # "none" \/ call'[u] # "done" => row'[u].avail = "none"
  <2>1. CASE uploads[u] # "none" \/ call[u] # "done"
    <3>1. UseUpload(u) => uploads'[u] = "none" /\ call'[u] = "done"
      BY DEF UseUpload, UseIf, To, Typed, StoreTyped, CallsTyped
    <3> QED
      BY <1>1, <1>3, <2>1, <3>1
  <2>2. CASE uploads[u] = "none" /\ call[u] = "done"
    <3>1. uploads'[u] = "none" /\ call'[u] = "done"
      BY <1>2, <2>2 DEF UploadMove
    <3> QED
      BY <3>1
  <2> QED
    BY <2>1, <2>2
<1>6. /\ call'[u] \in {"new", "reserve", "insert"} => uploads'[u] = "none"
      /\ call'[u] \in {"put", "mark"} => uploads'[u] = "staging"
  BY <1>1, <1>2 DEF UploadMove
<1>7. uploads'[u] = "ready" \/ call'[u] = "mark" => u \in objects' \cup lost'
  <2>1. ASSUME uploads'[u] = "ready" \/ call'[u] = "mark"
        PROVE  uploads[u] = "ready" \/ call[u] = "mark" \/ u \in objects'
    BY <1>2, <2>1 DEF UploadMove
  <2>2. ASSUME uploads[u] = "ready" \/ call[u] = "mark"
        PROVE  u \in objects' \cup lost'
    BY <1>1, <2>2, GoneIsUnused
  <2> QED
    BY <2>1, <2>2
<1> QED
  BY <1>4, <1>5, <1>6, <1>7

LEMMA ScanInvStep == ASSUME Typed, StoreInv, [Next]_vars PROVE ScanInv'
<1>1. /\ scan.pc \in {"uploads", "clear"}
           => \A k \in scan.list : k \in Upload /\ uploads[k] = "deleting"
      /\ scan.pc \in {"orphans", "forget"} => scan.list \subseteq orphans
  BY DEF StoreInv, ScanInv
<1>2. ASSUME NEW u \in Upload, uploads[u] = "deleting"
      PROVE  \/ uploads'[u] = "deleting"
             \/ scan.pc = "clear" /\ scan'.pc = "uploads" /\ scan'.list = scan.list \ {u}
             \/ scan'.pc = "idle"
  <2>1. /\ call[u] \in {"new", "reserve", "insert"} => uploads[u] = "none"
        /\ call[u] \in {"put", "mark"} => uploads[u] = "staging"
    BY DEF StoreInv, UploadInv
  <2> QED
    BY <1>2, <2>1, UploadMoves DEF UploadMove
<1>3. CASE UNCHANGED scan /\ orphans \subseteq orphans'
  BY <1>1, <1>2, <1>3 DEF ScanInv
<1>4. CASE ListPendingMedia \/ ScanQueue \/ Restart
  <2>1. scan'.pc \notin {"uploads", "clear", "orphans", "forget"}
    BY <1>4 DEF ListPendingMedia, ScanQueue, Restart, ScanAt
  <2> QED
    BY <2>1 DEF ScanInv
<1>5. CASE ListUploadsForCleanup
  <2>1. /\ scan'.pc = "uploads"
        /\ scan'.list = {u \in Upload : uploads'[u] = "deleting"}
    BY <1>5, ScanSet DEF ListUploadsForCleanup
  <2> QED
    BY <2>1 DEF ScanInv
<1>6. CASE DeleteObject
  <2>1. UNCHANGED <<uploads, orphans>>
    BY <1>6 DEF DeleteObject, dbVars
  <2>2. /\ scan'.list \subseteq scan.list
        /\ \/ scan.pc = "uploads" /\ scan'.pc \in {"uploads", "clear"}
           \/ scan.pc = "orphans" /\ scan'.pc \in {"orphans", "forget"}
    BY <1>6 DEF DeleteObject, ScanAt
  <2> QED
    BY <1>1, <2>1, <2>2 DEF ScanInv
<1>7. CASE ClearRecord
  <2>1. PICK k \in scan.list :
          /\ orphans' = orphans \/ (scan.pc = "forget" /\ orphans' = orphans \ {k})
          /\ ScanAt(IF scan.pc = "clear" THEN "uploads" ELSE "orphans", scan.list \ {k})
    BY <1>7 DEF ClearRecord
  <2>2. /\ scan.pc \in {"clear", "forget"} /\ scan'.list = scan.list \ {k}
        /\ scan'.pc = IF scan.pc = "clear" THEN "uploads" ELSE "orphans"
    BY <1>7, <2>1, ScanSet DEF ClearRecord
  <2>3. CASE scan.pc = "clear"
    <3>1. \A j \in scan.list \ {k} : uploads'[j] = "deleting"
      BY <1>1, <1>2, <2>2, <2>3
    <3> QED
      BY <1>1, <2>2, <2>3, <3>1 DEF ScanInv
  <2>4. CASE scan.pc = "forget"
    BY <1>1, <2>1, <2>2, <2>4 DEF ScanInv
  <2> QED
    BY <2>2, <2>3, <2>4
<1>8. CASE ScanNext
  <2>1. (UNCHANGED orphans /\ scan'.pc = "orphans" /\ scan'.list = orphans) \/ scan'.pc = "idle"
    BY <1>8 DEF ScanNext, ScanAt, dbVars
  <2> QED
    BY <2>1 DEF ScanInv
<1>9. ScanStep \/ orphans \subseteq orphans'
  BY OrphansKept
<1> QED
  BY <1>3, <1>4, <1>5, <1>6, <1>7, <1>8, <1>9, ScanFrame DEF Next, ScanStep

---------------------------------------------------------------------------
(* Downloads                                                               *)

\* The keys of the rows are those they had, but for a file just stored.
LEMMA KeysStep ==
  ASSUME Typed, StoreInv, [Next]_vars, NEW j \in Item
  PROVE  \/ row'[j].key = None
         \/ \E i \in Item : row'[j].key = row[i].key
         \/ /\ row'[j].key = j /\ row[j].avail \in {"none", "remote"}
            /\ \/ \E w \in Worker : MarkMediaReady(w) /\ j = worker[w].item
               \/ UseUpload(j) /\ j \in Upload
<1>1. CASE RowsFade
  BY <1>1, FadeEffect DEF StoreInv
<1>2. ASSUME NEW p \in Twins, MergeAttachments(p[1], p[2])
      PROVE  row'[j].key = None \/ \E i \in Item : row'[j].key = row[i].key
  <2>1. PICK t, s : t = p[1] /\ s = p[2]
    OBVIOUS
  <2>2. /\ t \in Item /\ s \in Item /\ row'[s].key = None
        /\ row'[t].key \in {row[s].key, row[t].key}
        /\ \A i \in Item : i # t /\ i # s => row'[i] = row[i]
    BY <1>2, <2>1, MergeRow DEF Typed, RowsMerged, Item
  <2> QED
    BY <2>2
<1>3. ASSUME NEW k \in Item, RowStored(k)
      PROVE  (j = k /\ row'[j].key = j) \/ row'[j].key = row[j].key
  BY <1>3 DEF RowStored
<1> QED
  BY <1>1, <1>2, <1>3, StoredKey DEF StoreInv

\* A copy that was merged stays so, and a row that exists does until then.
LEMMA MergedStays ==
  ASSUME Typed, StoreInv, [Next]_vars, NEW k \in Item
  PROVE  row[k].avail = "merged" => row'[k].avail = "merged"
<1>1. CASE RowsFade
  BY <1>1, FadeEffect DEF StoreInv
<1>2. ASSUME NEW p \in Twins, MergeAttachments(p[1], p[2])
      PROVE  row[k].avail = "merged" => row'[k].avail = "merged"
  BY <1>2, MergeRow DEF Typed, RowsMerged, Exists
<1>3. ASSUME NEW j \in Item, RowStored(j), row[j].avail \in {"none", "remote"}
      PROVE  row[k].avail = "merged" => row'[k].avail = "merged"
  BY <1>3 DEF RowStored
<1> QED
  BY <1>1, <1>2, <1>3, StoredKey DEF StoreInv

Fetching == {"download", "reference", "reserve", "put", "delete"}

\* A worker comes to fetch its attachment, or to delete what it stored, only
\* when no row has that key.
LEMMA FetchingWorker ==
  ASSUME Typed, StoreInv, NEW w \in Worker, WorkerStep(w), worker'[w].pc \in Fetching
  PROVE  /\ worker'[w].item = worker[w].item /\ worker[w].item \in Item
         /\ worker[w].pc # "mark" /\ worker[w].pc # "idle"
         /\ \A j \in Item : row[j].key # worker[w].item
<1> DEFINE k == worker[w].item
<1>1. ~Dequeue(w) /\ ~Finish(w)
  BY DequeueEffect, FinishEffect DEF Typed, Fetching
<1>2. k \in Item /\ worker'[w].item = k /\ worker[w].pc # "idle"
  BY <1>1, WorkerGoesOn
<1>3. worker[w].pc # "mark"
  <2>1. worker[w].pc = "mark" => MarkMediaReady(w)
    BY DEF WorkerStep, Dequeue, ReadMedia, DownloadMedia, UpdateMediaRef,
              ReserveMediaStorage, ReserveIf, PutMedia, CheckMedia,
              DeleteMedia, Record, Finish, FinishWith
  <2> QED
    BY <2>1, MarkWorker DEF Typed, WorkerTo, Fetching
<1>4. CASE worker[w].pc \in Fetching
  BY <1>2, <1>3, <1>4 DEF StoreInv, DownloadInv, Fetching
<1>5. CASE ReadMedia(w)
  <2>1. Remote(k)
    BY <1>5, ReadMediaEffect DEF Typed, WorkerTo, Fetching
  <2> QED
    BY <1>2, <1>3, <2>1, FreeKey DEF StoreInv, Remote
<1>6. CASE CheckMedia(w)
  <2>1. Exists(k) /\ (row[k].avail # "ready" \/ row[k].key # k)
    BY <1>6, CheckMediaEffect DEF Typed, WorkerTo, Fetching
  <2>2. ASSUME NEW j \in Item, row[j].key = k
        PROVE  FALSE
    BY <1>2, <2>1, <2>2, MediaAssumption DEF StoreInv, KeyInv, Exists
  <2> QED
    BY <1>2, <1>3, <2>2
<1>7. CASE MarkMediaReady(w)
  BY <1>3, <1>7, MarkWorker DEF Typed
<1>8. CASE Record(w)
  BY <1>8, RecordWorker DEF Typed, WorkerTo, Fetching
<1>9. DownloadMedia(w) \/ UpdateMediaRef(w) \/ ReserveMediaStorage(w) \/ PutMedia(w)
      \/ DeleteMedia(w) => worker[w].pc \in Fetching
  BY Zenon DEF DownloadMedia, UpdateMediaRef, ReserveMediaStorage, ReserveIf, PutMedia, DeleteMedia,
         Fetching
<1> QED
  BY <1>1, <1>4, <1>5, <1>6, <1>7, <1>8, <1>9 DEF WorkerStep

\* A worker that begins to mark its attachment has just stored the file.
LEMMA MarkingWorker ==
  ASSUME Typed, NEW w \in Worker, WorkerStep(w), worker'[w].pc = "mark"
  PROVE  PutMedia(w) /\ worker'[w].item = worker[w].item /\ worker[w].item \in objects'
<1>1. CASE Dequeue(w) \/ Finish(w) \/ ReadMedia(w) \/ DownloadMedia(w) \/ UpdateMediaRef(w)
           \/ ReserveMediaStorage(w)
  BY <1>1, DequeueEffect, FinishEffect, ReadMediaEffect, DownloadMediaEffect,
     UpdateMediaRefWorker, ReserveEffect DEF Typed, WorkerTo
<1>2. CASE MarkMediaReady(w) \/ CheckMedia(w) \/ DeleteMedia(w) \/ Record(w)
  BY <1>2, MarkWorker, CheckMediaEffect, DeleteMediaEffect, RecordWorker DEF Typed, WorkerTo
<1>3. CASE PutMedia(w)
  BY <1>3, PutMediaEffect DEF Typed, WorkerTo
<1> QED
  BY <1>1, <1>2, <1>3 DEF WorkerStep

LEMMA DownloadInvStep == ASSUME Typed, StoreInv, [Next]_vars PROVE DownloadInv'
<1> SUFFICES ASSUME NEW w \in Worker
             PROVE  /\ worker'[w].pc \in Fetching => \A j \in Item : row'[j].key # worker'[w].item
                    /\ (worker'[w].pc = "mark"
                         /\ row'[worker'[w].item].avail \notin {"none", "merged"})
                         => worker'[w].item \in objects' \cup lost'
  BY DEF DownloadInv, Fetching, Exists
<1> DEFINE k == worker[w].item
<1>1. \/ WorkerStep(w)
      \/ worker'[w] = worker[w]
      \/ worker'[w].pc = "idle"
  <2>1. ASSUME NEW v \in Worker, WorkerStep(v), v # w
        PROVE  worker'[w] = worker[w]
    BY <2>1, WorkerGoesOn, DequeueEffect, FinishEffect DEF Typed
  <2>2. Restart => worker'[w].pc = "idle"
    BY DEF Restart, Idle
  <2> QED
    BY <2>1, <2>2, WorkerFrame DEF Next
<1>2. ASSUME worker'[w].pc \in Fetching
      PROVE  \A j \in Item : row'[j].key # worker'[w].item
  <2>1. /\ worker'[w].item = k /\ k \in Item /\ worker[w].pc # "mark" /\ worker[w].pc # "idle"
        /\ \A j \in Item : row[j].key # k
    <3>1. CASE WorkerStep(w)
      BY <1>2, <3>1, FetchingWorker
    <3>2. CASE worker'[w] = worker[w]
      BY <1>2, <3>2 DEF Typed, WorkersTyped, StoreInv, DownloadInv, Fetching
    <3> QED
      BY <1>1, <1>2, <3>1, <3>2 DEF Fetching
  <2>2. ~(UseUpload(k) /\ k \in Upload)
    <3>1. row[k].avail # "none"
      BY <2>1 DEF StoreInv, QueueInv, KnownInv
    <3> QED
      BY <3>1 DEF UseUpload, UseIf, StoreInv, UploadInv
  <2>3. \A v \in Worker : ~(MarkMediaReady(v) /\ k = worker[v].item)
    BY <2>1 DEF MarkMediaReady, StoreInv, QueueInv
  <2>4. ASSUME NEW j \in Item, row'[j].key = k
        PROVE  FALSE
    BY <2>1, <2>2, <2>3, <2>4, KeysStep, MediaAssumption
  <2> QED
    BY <2>1, <2>4
<1>3. ASSUME worker'[w].pc = "mark", row'[worker'[w].item].avail \notin {"none", "merged"}
      PROVE  worker'[w].item \in objects' \cup lost'
  <2>1. CASE WorkerStep(w)
    BY <1>3, <2>1, MarkingWorker
  <2>2. CASE worker'[w] = worker[w]
    <3>1. k \in Item /\ row[k].avail # "none"
      BY <1>3, <2>2 DEF Typed, WorkersTyped, StoreInv, QueueInv, KnownInv
    <3>2. row'[k].avail # "merged"
      BY <1>3, <2>2
    <3>3. Exists(k)
      BY <3>1, <3>2, MergedStays DEF Exists
    <3>4. k \in objects \cup lost
      BY <1>3, <2>2, <3>3 DEF StoreInv, DownloadInv
    <3> QED
      BY <1>3, <2>2, <3>3, <3>4, GoneIsUnused
  <2> QED
    BY <1>1, <1>3, <2>1, <2>2
<1> QED
  BY <1>2, <1>3

LEMMA ReadyHasObjectStep == ASSUME Typed, StoreInv, [Next]_vars PROVE ReadyHasObject'
<1> SUFFICES ASSUME NEW k \in Item, row'[k].avail = "ready"
             PROVE  row'[k].key \in objects' \cup lost'
  BY DEF ReadyHasObject
<1>1. ASSUME NEW i \in Item, row[i].avail = "ready"
      PROVE  row[i].key \in objects' \cup lost'
  BY <1>1, GoneIsUnused DEF StoreInv, ReadyHasObject
<1>2. CASE RowsFade
  <2>1. row'[k].avail = row[k].avail /\ row'[k].key = row[k].key
    BY <1>2, FadeEffect DEF StoreInv
  <2> QED
    BY <1>1, <2>1
<1>3. ASSUME NEW p \in Twins, MergeAttachments(p[1], p[2])
      PROVE  row'[k].key \in objects' \cup lost'
  <2>1. PICK t, s : t = p[1] /\ s = p[2]
    OBVIOUS
  <2>2. /\ t \in Item /\ s \in Item /\ row'[s].avail = "merged"
        /\ row'[t].avail = "ready" <=> Given(t, s) \/ row[t].avail = "ready"
        /\ row'[t].key = IF Given(t, s) THEN row[s].key ELSE row[t].key
        /\ \A i \in Item : i # t /\ i # s => row'[i] = row[i]
    BY <1>3, <2>1, MergeRow DEF Typed, RowsMerged, Item
  <2> QED
    BY <1>1, <2>2 DEF Given
<1>4. ASSUME NEW j \in Item, RowStored(j), row[j].avail \in {"none", "remote"},
             \/ \E w \in Worker : MarkMediaReady(w) /\ j = worker[w].item
             \/ UseUpload(j) /\ j \in Upload
      PROVE  row'[k].key \in objects' \cup lost'
  <2>1. /\ row'[j].key = j /\ \A i \in Item : i # j => row'[i] = row[i]
    BY <1>4 DEF RowStored
  <2>2. CASE k # j
    BY <1>1, <2>1, <2>2
  <2>3. CASE k = j
    <3>1. UNCHANGED <<objects, lost>>
      BY <1>4, ObjectFrame
    <3>2. ASSUME NEW w \in Worker, MarkMediaReady(w), j = worker[w].item
          PROVE  j \in objects \cup lost
      <4>1. worker[w].pc = "mark"
        BY <3>2 DEF MarkMediaReady
      <4>2. row[j].avail # "none"
        BY <3>2, <4>1 DEF StoreInv, QueueInv, KnownInv
      <4> QED
        BY <1>4, <3>2, <4>1, <4>2 DEF StoreInv, DownloadInv, Exists
    <3>3. ASSUME UseUpload(j), j \in Upload
          PROVE  j \in objects \cup lost
      BY <3>3 DEF UseUpload, UseIf, StoreInv, UploadInv
    <3> QED
      BY <1>4, <2>1, <2>3, <3>1, <3>2, <3>3
  <2> QED
    BY <2>2, <2>3
<1> QED
  BY <1>2, <1>3, <1>4, StoredKey DEF StoreInv

---------------------------------------------------------------------------
(* The store                                                               *)

LEMMA StoreInvInit == Init => Typed /\ StoreInv
<1> SUFFICES ASSUME Init PROVE Typed /\ StoreInv
  OBVIOUS
<1>1. StoreTyped
  BY IdleTyped DEF Init, StoreTyped
<1>2. WorkersTyped
  BY IdleTyped DEF Init, WorkersTyped, Idle
<1>3. CallsTyped
  BY IdleTyped DEF Init, CallsTyped, Rest
<1>4. <<>> \in Seq(Item) /\ Len(<<>>) = 0
  BY EmptySequence
<1>5. QueueTyped
  BY <1>4, MediaAssumption DEF Init, QueueTyped
<1>6. Len(queue) = 0 /\ inflight = {} /\ orphans = {} /\ scan.pc = "idle"
  BY <1>4 DEF Init
<1>7. \A k \in Item : row[k].avail = "none" /\ row[k].key = None
  BY DEF Init, NoRow
<1>8. /\ \A w \in Worker : worker[w].pc = "idle"
      /\ \A r \in Reader : reader[r].pc = "idle"
      /\ \A u \in Upload : call[u] = "new" /\ uploads[u] = "none"
  BY DEF Init, Idle, Rest
<1>9. QueueInv /\ KnownInv /\ DownloadInv
  <2>1. QueueInv
    BY <1>6, <1>8 DEF QueueInv
  <2>2. KnownInv
    BY <1>6, <1>8 DEF KnownInv
  <2>3. DownloadInv
    BY <1>8 DEF DownloadInv
  <2> QED
    BY <2>1, <2>2, <2>3
<1>10. KeyInv /\ OrphanInv /\ ReadyHasObject
  BY <1>6, <1>7 DEF KeyInv, OrphanInv, ReadyHasObject
<1>11. UploadInv /\ ScanInv
  BY <1>6, <1>7, <1>8 DEF UploadInv, ScanInv, Item
<1> QED
  BY <1>1, <1>2, <1>3, <1>5, <1>9, <1>10, <1>11 DEF Typed, StoreInv

LEMMA StoreInvStep == ASSUME Typed, StoreInv, [Next]_vars PROVE Typed' /\ StoreInv'
<1>1. Typed'
  BY StoreStep, WorkersStep, CallsStep, QueueTypedStep DEF Typed, StoreInv
<1>2. QueueInv' /\ KnownInv' /\ KeyInv' /\ OrphanInv'
  BY QueueInvStep, KnownInvStep, KeyInvStep, OrphanInvStep DEF StoreInv
<1> QED
  BY <1>1, <1>2, UploadInvStep, ScanInvStep, DownloadInvStep, ReadyHasObjectStep DEF StoreInv

LEMMA StoreInvHolds == Spec => [](Typed /\ StoreInv)
<1>1. Typed /\ StoreInv /\ UNCHANGED vars => (Typed /\ StoreInv)'
  BY StoreInvStep
<1> QED
  BY <1>1, StoreInvInit, StoreInvStep, PTL DEF Spec

(* A row that is ready names an object in the store, unless somebody else   *)
(* removed it: no cleanup of a failed download, of the scan or of a merge   *)
(* deletes the file of another row, and a lost answer of MarkMediaReady     *)
(* does not cost the file, whatever copies are merged.                      *)
THEOREM ReadyRowsHaveObjects == Spec => []ReadyHasObject
BY StoreInvHolds, PTL DEF StoreInv

(* An upload that can be used has its object, and so has the message that   *)
(* used it, although the scan lists old uploads for deletion while a send   *)
(* takes them (ListUploadsForCleanup, ReserveMediaSend).                    *)
THEOREM UploadsHaveObjects == Spec => []UploadHasObject
<1>1. StoreInv => UploadHasObject
  <2> SUFFICES ASSUME StoreInv, NEW u \in Upload, uploads[u] = "ready" \/ row[u].avail = "ready"
               PROVE  u \in objects \cup lost
    BY DEF UploadHasObject
  <2>1. u \in Item
    BY DEF Item
  <2> QED
    BY <2>1 DEF StoreInv, UploadInv, ReadyHasObject
<1> QED
  BY <1>1, StoreInvHolds, PTL

---------------------------------------------------------------------------
(* Objects that nobody knows of                                            *)

\* An object is of a row, or of an upload that has its record.
KnownObjects ==
  \A k \in objects : row[k].avail # "none" \/ (k \in Upload /\ uploads[k] # "none")

LEMMA NewObjects ==
  ASSUME [Next]_vars
  PROVE  \/ objects' \subseteq objects
         \/ \E w \in Worker : worker[w].pc = "put" /\ objects' = objects \cup {worker[w].item}
         \/ \E u \in Upload : /\ call[u] = "put" /\ objects' = objects \cup {u}
                              /\ UNCHANGED uploads
<1>1. ASSUME NEW w \in Worker, PutMedia(w) \/ DeleteMedia(w)
      PROVE  objects' \subseteq objects
             \/ (worker[w].pc = "put" /\ objects' = objects \cup {worker[w].item})
  BY <1>1 DEF PutMedia, DeleteMedia
<1>2. ASSUME NEW u \in Upload, PutUpload(u)
      PROVE  objects' \subseteq objects
             \/ (call[u] = "put" /\ objects' = objects \cup {u} /\ UNCHANGED uploads)
  BY <1>2 DEF PutUpload, dbVars
<1>3. ASSUME NEW k \in Item, LoseObject(k)
      PROVE  objects' \subseteq objects
  BY <1>3 DEF LoseObject
<1>4. CASE DeleteObject
  BY <1>4 DEF DeleteObject
<1>5. CASE UNCHANGED <<objects, lost>>
  BY <1>5
<1> QED
  BY <1>1, <1>2, <1>3, <1>4, <1>5, ObjectFrame DEF Next, WorkerStep, UploadStep, ScanStep

\* The record of an upload goes when its message has it, or after its object.
LEMMA RecordsGo ==
  ASSUME Typed, [Next]_vars, NEW u \in Upload, uploads[u] # "none"
  PROVE  uploads'[u] # "none" \/ row'[u].avail # "none" \/ (u \notin objects /\ UNCHANGED objects)
<1>1. uploads \in [Upload -> UploadState] /\ row \in [Item -> RowType] /\ u \in Item
  BY DEF Typed, StoreTyped, UploadState, Item
<1>2. CASE ClearRecord
  <2>1. PICK k \in scan.list \ objects :
          \/ uploads' = [uploads EXCEPT ![k] = IF @ = "deleting" THEN "none" ELSE @]
          \/ UNCHANGED uploads
    BY <1>2 DEF ClearRecord
  <2>2. UNCHANGED objects
    BY <1>2 DEF ClearRecord
  <2> QED
    BY <1>1, <2>1, <2>2
<1>3. ASSUME NEW v \in Upload, UseUpload(v)
      PROVE  uploads'[u] # "none" \/ row'[u].avail # "none"
  <2>1. CASE v = u
    BY <1>3, <2>1, UseRow DEF Typed, RowStored
  <2>2. CASE v # u
    BY <1>1, <1>3, <2>2 DEF UseUpload, UseIf
  <2> QED
    BY <2>1, <2>2
<1>4. ASSUME NEW v \in Upload,
             InsertUpload(v) \/ MarkUploadReady(v) \/ DiscardUpload(v) \/ DeleteUpload(v)
      PROVE  uploads'[u] # "none"
  BY <1>1, <1>4 DEF InsertUpload, MarkUploadReady, DiscardUpload, DiscardTo, DeleteUpload
<1>5. CASE ListUploadsForCleanup
  BY <1>1, <1>5 DEF ListUploadsForCleanup
<1>6. CASE UNCHANGED uploads
  BY <1>6
<1> QED
  BY <1>2, <1>3, <1>4, <1>5, <1>6, UploadFrame DEF Next, UploadStep, ScanStep

LEMMA KnownObjectsStep ==
  ASSUME Typed, StoreInv, KnownObjects, [Next]_vars
  PROVE  KnownObjects'
<1> SUFFICES ASSUME NEW k \in objects'
             PROVE  row'[k].avail # "none" \/ (k \in Upload /\ uploads'[k] # "none")
  BY DEF KnownObjects
<1>1. \A j \in Item : row[j].avail # "none" => row'[j].avail # "none"
  BY RowsStay DEF Typed
<1>2. objects \subseteq Item
  BY DEF Typed, StoreTyped
<1>3. CASE k \in objects
  <2>1. CASE row[k].avail # "none"
    BY <1>1, <1>2, <1>3, <2>1
  <2>2. CASE k \in Upload /\ uploads[k] # "none"
    BY <1>3, <2>2, RecordsGo
  <2> QED
    BY <1>3, <2>1, <2>2 DEF KnownObjects
<1>4. ASSUME NEW w \in Worker, worker[w].pc = "put", k = worker[w].item
      PROVE  row'[k].avail # "none"
  <2>1. k \in inflight /\ row[k].avail # "none"
    BY <1>4 DEF StoreInv, QueueInv, KnownInv
  <2>2. k \in Item
    BY <1>4 DEF Typed, WorkersTyped
  <2> QED
    BY <1>1, <2>1, <2>2
<1>5. ASSUME NEW u \in Upload, call[u] = "put", k = u, UNCHANGED uploads
      PROVE  k \in Upload /\ uploads'[k] # "none"
  BY <1>5 DEF StoreInv, UploadInv
<1> QED
  BY <1>3, <1>4, <1>5, NewObjects

LEMMA KnownObjectsHolds == Spec => []KnownObjects
<1>1. Init => KnownObjects
  BY DEF Init, KnownObjects
<1> QED
  BY <1>1, StoreInvHolds, KnownObjectsStep, PTL DEF Spec

(* An object in the store is of a row, or of an upload that has its record, *)
(* unless its row was merged into another copy: the scan forgets an upload  *)
(* only after its object, a send that takes it over gives it a row, and     *)
(* what fails halfway leaves one of them behind.                            *)
THEOREM LeaksAreOfMergedCopies ==
  Spec => [](\A k \in objects : \/ Exists(k) \/ row[k].avail = "merged"
                                \/ k \in Upload /\ uploads[k] # "none")
<1>1. KnownObjects => \A k \in objects : \/ Exists(k) \/ row[k].avail = "merged"
                                         \/ k \in Upload /\ uploads[k] # "none"
  BY DEF KnownObjects, Exists
<1> QED
  BY <1>1, KnownObjectsHolds, PTL

NoneMerged == \A k \in Item : row[k].avail # "merged"

LEMMA NoneMergedStep ==
  ASSUME Twins = {}, Typed, StoreInv, NoneMerged, [Next]_vars
  PROVE  NoneMerged'
<1>1. CASE RowsFade
  BY <1>1 DEF RowsFade, Fades, NoneMerged
<1>2. ASSUME NEW j \in Item, RowStored(j)
      PROVE  NoneMerged'
  BY <1>2 DEF RowStored, NoneMerged
<1>3. \A w \in Worker : Remote(worker[w].item) /\ MarkMediaReady(w) => worker[w].item \in Item
  BY DEF MarkMediaReady, Typed, WorkersTyped
<1>4. Upload \subseteq Item
  BY DEF Item
<1> QED
  BY <1>1, <1>2, <1>3, <1>4, RowStep DEF Typed

(* Where no copies are merged, no object is left without a row, an upload   *)
(* or a call that knows it, whatever fails, crashes or is deleted meanwhile. *)
THEOREM NothingLeaksUnmerged ==
  ASSUME Twins = {}
  PROVE  Spec => []NothingLeaks
<1>1. Init => NoneMerged
  <2> SUFFICES ASSUME Init PROVE NoneMerged
    OBVIOUS
  <2>1. \A k \in Item : row[k].avail = "none"
    BY DEF Init, NoRow
  <2> QED
    BY <2>1 DEF NoneMerged
<1>2. Typed /\ StoreInv /\ NoneMerged /\ [Next]_vars => NoneMerged'
  BY NoneMergedStep
<1>3. Typed /\ KnownObjects /\ NoneMerged => NothingLeaks
  <2>1. ASSUME Typed, KnownObjects, NoneMerged, NEW k \in objects
        PROVE  Exists(k) \/ (k \in Upload /\ uploads[k] # "none")
    BY <2>1 DEF Typed, StoreTyped, KnownObjects, NoneMerged, Exists
  <2> QED
    BY <2>1 DEF NothingLeaks
<1> QED
  BY <1>1, <1>2, <1>3, StoreInvHolds, KnownObjectsHolds, PTL DEF Spec

---------------------------------------------------------------------------
(* What takes a stored file from its row                                   *)

\* A row that was there keeps its reference, and its version tells when it gets a
\* file again; an attachment that arrives has a reference.
Grows(k, old, new) ==
  /\ old.avail # "none" =>
       /\ old.version <= new.version
       /\ new.avail = "ready" /\ old.avail # "ready" => old.version < new.version
       /\ old.ref => new.ref
  /\ old.avail = "none" /\ new.avail # "none" /\ k \in Attachment /\ ~LateRefs => new.ref

RowsGrow == \A k \in Item : Grows(k, row[k], row'[k])

LEMMA VersionStays == ASSUME NEW x \in RowType PROVE x.version \in Nat /\ x.version <= x.version
<1>1. x.version \in Nat
  BY DEF RowType
<1> QED
  BY <1>1

LEMMA OneGrows ==
  ASSUME StoreTyped, NEW k \in Item, NEW x, Grows(k, row[k], x), row' = [row EXCEPT ![k] = x]
  PROVE  RowsGrow
<1>1. \A j \in Item : row[j] \in RowType /\ (j # k => row'[j] = row[j]) /\ row'[k] = x
  BY DEF StoreTyped
<1>2. \A j \in Item : row[j].version <= row[j].version
  BY <1>1, VersionStays
<1>3. \A j \in Item : j # k => Grows(j, row[j], row'[j])
  BY <1>1, <1>2 DEF Grows
<1> QED
  BY <1>1, <1>3 DEF RowsGrow

LEMMA NoneGrows == ASSUME StoreTyped, UNCHANGED row PROVE RowsGrow
<1>1. \A k \in Item : row'[k] = row[k] /\ row[k].version <= row[k].version
  BY VersionStays DEF StoreTyped
<1> QED
  BY <1>1 DEF RowsGrow, Grows

\* A row that stays what it is
LEMMA SameGrows ==
  ASSUME NEW k, NEW old \in RowType, NEW x, old.avail # "none",
         x.version = old.version, x.ref = old.ref,
         x.avail = "ready" => old.avail = "ready"
  PROVE  Grows(k, old, x)
<1>1. old.version <= old.version
  BY VersionStays
<1> QED
  BY <1>1 DEF Grows

LEMMA WorkerRowGrows ==
  ASSUME Typed, StoreInv, NEW w \in Worker, UpdateMediaRef(w) \/ MarkMediaReady(w) \/ Record(w)
  PROVE  RowsGrow
<1> DEFINE k == worker[w].item
           r == worker[w]
           old == row[k]
<1>1. k \in Item /\ old \in RowType /\ r \in WorkerType
  BY DEF Typed, UpdateMediaRef, MarkMediaReady, Record, WorkersTyped, StoreTyped
<1>2. CASE UpdateMediaRef(w)
  <2>1. CASE /\ old.avail \in {"remote", "unavailable"}
             /\ row' = [row EXCEPT ![k] = [@ EXCEPT !.ref = TRUE, !.avail = "remote"]]
    <3>1. PICK x : x = [old EXCEPT !.ref = TRUE, !.avail = "remote"]
      OBVIOUS
    <3>2. x.version = old.version /\ x.ref /\ x.avail = "remote"
      BY <1>1, <3>1 DEF RowType
    <3>3. Grows(k, old, x)
      BY <1>1, <2>1, <3>2, VersionStays DEF Grows
    <3> QED
      BY <1>1, <2>1, <3>1, <3>3, OneGrows DEF Typed
  <2> QED
    BY <1>2, <2>1, NoneGrows DEF UpdateMediaRef, Typed
<1>3. CASE MarkMediaReady(w)
  <2>1. PICK x : x = [old EXCEPT !.avail = "ready", !.key = k, !.auto = FALSE,
                                 !.wait = FALSE, !.tries = 0, !.block = "",
                                 !.version = old.version + 1]
    OBVIOUS
  <2>2. UNCHANGED row \/ (Remote(k) /\ row' = [row EXCEPT ![k] = x])
    BY <1>3, <2>1 DEF MarkMediaReady
  <2>3. x.version = old.version + 1 /\ x.ref = old.ref /\ old.version \in Nat
    BY <1>1, <2>1 DEF RowType
  <2>4. old.version <= x.version /\ old.version < x.version
    BY <2>3
  <2>5. Remote(k) => Grows(k, old, x)
    BY <2>3, <2>4 DEF Grows, Remote
  <2> QED
    BY <1>1, <2>2, <2>5, OneGrows, NoneGrows DEF Typed
<1>4. CASE Record(w)
  <2>1. PICK x : x = CASE r.pc = "retry" -> [old EXCEPT !.wait = r.tries + 1 < MaxTries,
                                                   !.auto = r.tries + 1 < MaxTries,
                                                   !.tries = IF r.tries < MaxTries
                                                             THEN r.tries + 1 ELSE MaxTries]
                  [] r.pc = "later" -> [old EXCEPT !.wait = TRUE, !.auto = TRUE,
                                                   !.tries = r.tries]
                  [] r.pc = "block" -> [old EXCEPT !.wait = FALSE, !.auto = FALSE,
                                                   !.block = IF r.out = "quota" THEN "quota"
                                                             ELSE "too_large"]
                  [] OTHER -> [old EXCEPT !.avail = "unavailable", !.key = None,
                                          !.auto = FALSE, !.wait = FALSE, !.block = ""]
    OBVIOUS
  <2>2. \/ UNCHANGED row
        \/ /\ Remote(k) \/ (r.pc = "unavailable" /\ row[k].avail = "ready")
           /\ row' = [row EXCEPT ![k] = x]
    BY <1>4, <2>1 DEF Record
  <2>3. /\ x.version = old.version /\ x.ref = old.ref
        /\ x.avail = old.avail \/ x.avail = "unavailable"
    <3>1. CASE r.pc = "retry"
      <4>1. PICK p, n : x = [old EXCEPT !.wait = p, !.auto = p, !.tries = n]
        BY <2>1, <3>1
      <4> QED
        BY <1>1, <4>1 DEF RowType
    <3>2. CASE r.pc = "later"
      <4>1. x = [old EXCEPT !.wait = TRUE, !.auto = TRUE, !.tries = r.tries]
        BY <2>1, <3>2
      <4> QED
        BY <1>1, <4>1 DEF RowType
    <3>3. CASE r.pc = "block"
      <4>1. PICK b : x = [old EXCEPT !.wait = FALSE, !.auto = FALSE, !.block = b]
        BY <2>1, <3>3
      <4> QED
        BY <1>1, <4>1 DEF RowType
    <3>4. CASE r.pc \notin {"retry", "later", "block"}
      <4>1. x = [old EXCEPT !.avail = "unavailable", !.key = None, !.auto = FALSE,
                            !.wait = FALSE, !.block = ""]
        BY <2>1, <3>4
      <4> QED
        BY <1>1, <4>1 DEF RowType
    <3> QED
      BY <3>1, <3>2, <3>3, <3>4
  <2>4. old.avail # "none" => Grows(k, old, x)
    BY <1>1, <2>3, SameGrows
  <2> QED
    BY <1>1, <2>2, <2>4, OneGrows, NoneGrows DEF Typed, Remote
<1> QED
  BY <1>2, <1>3, <1>4

LEMMA ReaderRowGrows ==
  ASSUME Typed, StoreInv, NEW r \in Reader,
         MarkMediaRemote(r) \/ MarkMediaUnavailable(r) \/ Fetch(r)
  PROVE  RowsGrow
<1> DEFINE k == reader[r].item
           old == row[k]
<1>1. k \in Item /\ old \in RowType /\ old.version \in Nat /\ old.avail # "none"
  BY DEF Typed, MarkMediaRemote, MissingIf, MarkMediaUnavailable, Fetch, CallsTyped, StoreTyped,
         StoreInv, KnownInv, RowType
<1>2. CASE MarkMediaRemote(r)
  <2>1. PICK x : x = [old EXCEPT !.avail = "remote", !.key = None, !.wait = FALSE, !.block = "",
                                 !.version = old.version + 1]
    OBVIOUS
  <2>2. UNCHANGED row \/ row' = [row EXCEPT ![k] = x]
    BY <1>2, <2>1 DEF MarkMediaRemote, MissingIf
  <2>3. x.version = old.version + 1 /\ x.ref = old.ref /\ x.avail = "remote"
    BY <1>1, <2>1 DEF RowType
  <2>4. old.version <= x.version
    BY <1>1, <2>3
  <2>5. Grows(k, old, x)
    BY <1>1, <2>3, <2>4 DEF Grows
  <2> QED
    BY <1>1, <2>2, <2>5, OneGrows, NoneGrows DEF Typed
<1>3. CASE MarkMediaUnavailable(r)
  <2>1. PICK x : x = [old EXCEPT !.avail = "unavailable", !.key = None, !.auto = FALSE,
                                 !.wait = FALSE, !.block = ""]
    OBVIOUS
  <2>2. UNCHANGED row \/ row' = [row EXCEPT ![k] = x]
    BY <1>3, <2>1 DEF MarkMediaUnavailable
  <2>3. x.version = old.version /\ x.ref = old.ref /\ x.avail = "unavailable"
    BY <1>1, <2>1 DEF RowType
  <2>4. Grows(k, old, x)
    BY <1>1, <2>3, SameGrows
  <2> QED
    BY <1>1, <2>2, <2>4, OneGrows, NoneGrows DEF Typed
<1>4. CASE Fetch(r)
  <2>1. PICK x : x = [old EXCEPT !.block = ""]
    OBVIOUS
  <2>2. UNCHANGED row \/ row' = [row EXCEPT ![k] = x]
    BY <1>4, <2>1 DEF Fetch
  <2>3. x.version = old.version /\ x.ref = old.ref /\ x.avail = old.avail
    BY <1>1, <2>1 DEF RowType
  <2>4. Grows(k, old, x)
    BY <1>1, <2>3, SameGrows
  <2> QED
    BY <1>1, <2>2, <2>4, OneGrows, NoneGrows DEF Typed
<1> QED
  BY <1>2, <1>3, <1>4

LEMMA SaveRowGrows ==
  ASSUME Typed, NEW a \in Item, SaveAttachment(a)
  PROVE  RowsGrow
<1>1. PICK auto \in BOOLEAN, ref \in {TRUE} \cup {~LateRefs} :
        row' = [row EXCEPT ![a] =
          [@ EXCEPT !.avail = IF row[a].avail = "ready" THEN "ready" ELSE "remote",
                    !.ref = row[a].ref \/ ref,
                    !.auto = row[a].block = "" /\ (row[a].auto \/ auto)]]
  BY DEF SaveAttachment
<1>2. PICK x : x = [row[a] EXCEPT !.avail = IF row[a].avail = "ready" THEN "ready" ELSE "remote",
                                  !.ref = row[a].ref \/ ref,
                                  !.auto = row[a].block = "" /\ (row[a].auto \/ auto)]
  OBVIOUS
<1>3. row[a] \in RowType
  BY DEF Typed, StoreTyped
<1>4. /\ x.version = row[a].version /\ x.ref = (row[a].ref \/ ref)
      /\ x.avail = IF row[a].avail = "ready" THEN "ready" ELSE "remote"
  BY <1>2, <1>3 DEF RowType
<1>5. row[a].version <= x.version
  BY <1>3, <1>4, VersionStays
<1>6. Grows(a, row[a], x)
  BY <1>1, <1>4, <1>5 DEF Grows
<1> QED
  BY <1>1, <1>2, <1>6, OneGrows DEF Typed

LEMMA RowsGrowStep ==
  ASSUME Twins = {}, Typed, StoreInv, [Next]_vars
  PROVE  RowsGrow
<1>1. ASSUME NEW k \in Item, Due(k)
      PROVE  RowsGrow
  <2>1. PICK x : x = [row[k] EXCEPT !.wait = FALSE]
    OBVIOUS
  <2>2. row[k] \in RowType /\ row' = [row EXCEPT ![k] = x]
    BY <1>1, <2>1 DEF Due, Typed, StoreTyped
  <2>3. x.version = row[k].version /\ x.ref = row[k].ref /\ x.avail = row[k].avail
    BY <2>1, <2>2 DEF RowType
  <2>4. row[k].version <= row[k].version
    BY <2>2, VersionStays
  <2>5. Grows(k, row[k], x)
    BY <2>3, <2>4 DEF Grows
  <2> QED
    BY <2>2, <2>5, OneGrows DEF Typed
<1>2. ASSUME NEW u \in Upload, UseUpload(u)
      PROVE  RowsGrow
  <2>1. PICK x : x = [NoRow EXCEPT !.avail = "ready", !.key = u]
    OBVIOUS
  <2>2. u \in Item /\ u \notin Attachment /\ row[u].avail = "none" /\ row' = [row EXCEPT ![u] = x]
    BY <1>2, <2>1, MediaAssumption DEF UseUpload, UseIf, StoreInv, UploadInv, Item
  <2>3. Grows(u, row[u], x)
    BY <2>2 DEF Grows
  <2> QED
    BY <2>2, <2>3, OneGrows DEF Typed
<1>3. CASE UNCHANGED row
  BY <1>3, NoneGrows DEF Typed
<1> QED
  BY <1>1, <1>2, <1>3, WorkerRowGrows, ReaderRowGrows, SaveRowGrows, RowFrame
     DEF Next, WorkerStep, ReaderStep

\* A worker that has its attachment marked unavailable knows that no row has its
\* file, whatever it finds there by then.
UnavailableInv ==
  \A w \in Worker : worker[w].pc = "unavailable" => \A j \in Item : row[j].key # worker[w].item

LEMMA UnavailableWorker ==
  ASSUME Typed, StoreInv, NEW w \in Worker, WorkerStep(w), worker'[w].pc = "unavailable"
  PROVE  /\ worker'[w].item = worker[w].item /\ worker[w].item \in Item
         /\ worker[w].pc # "mark" /\ worker[w].pc # "idle"
         /\ \A j \in Item : row[j].key # worker[w].item
<1> DEFINE k == worker[w].item
<1>1. ~Dequeue(w) /\ ~Finish(w)
  BY DequeueEffect, FinishEffect DEF Typed
<1>2. k \in Item /\ worker'[w].item = k /\ worker[w].pc # "idle"
  BY <1>1, WorkerGoesOn
<1>3. CASE ReadMedia(w)
  <2>1. Remote(k)
    <3>1. worker'[w].pc # "finish"
      OBVIOUS
    <3>2. Remote(k) \/ \E n \in {0} : worker' = [worker EXCEPT ![w] =
            [@ EXCEPT !.pc = "finish", !.tries = row[k].tries, !.staged = n]]
      BY <1>3 DEF ReadMedia
    <3>3. worker[w] \in WorkerType
      BY DEF Typed, WorkersTyped
    <3>4. (\E n \in {0} : worker' = [worker EXCEPT ![w] =
            [@ EXCEPT !.pc = "finish", !.tries = row[k].tries, !.staged = n]])
            => worker'[w].pc = "finish"
      BY <3>3 DEF Typed, WorkersTyped, WorkerType
    <3> QED
      BY <3>1, <3>2, <3>4
  <2> QED
    BY <1>2, <1>3, <2>1, FreeKey, ReadMediaEffect DEF StoreInv, Remote, Typed
<1>4. CASE DownloadMedia(w) \/ UpdateMediaRef(w)
  BY <1>2, <1>4, DownloadMediaEffect, UpdateMediaRefWorker DEF Typed, StoreInv, DownloadInv
<1>5. CASE ReserveMediaStorage(w) \/ PutMedia(w)
  BY <1>5, ReserveEffect, PutMediaEffect DEF Typed, WorkerTo
<1>6. CASE MarkMediaReady(w) \/ CheckMedia(w) \/ DeleteMedia(w) \/ Record(w)
  BY <1>6, MarkWorker, CheckMediaEffect, DeleteMediaEffect, RecordWorker DEF Typed, WorkerTo
<1> QED
  BY <1>1, <1>3, <1>4, <1>5, <1>6 DEF WorkerStep

LEMMA UnavailableInvStep ==
  ASSUME Typed, StoreInv, UnavailableInv, [Next]_vars
  PROVE  UnavailableInv'
<1> SUFFICES ASSUME NEW w \in Worker, worker'[w].pc = "unavailable",
                    NEW j \in Item, row'[j].key = worker'[w].item
             PROVE  FALSE
  BY DEF UnavailableInv
<1> DEFINE k == worker[w].item
<1>1. \/ WorkerStep(w)
      \/ worker'[w] = worker[w]
  <2>1. ASSUME NEW v \in Worker, WorkerStep(v), v # w
        PROVE  worker'[w] = worker[w]
    BY <2>1, WorkerGoesOn, DequeueEffect, FinishEffect DEF Typed
  <2>2. ~Restart
    BY DEF Restart, Idle
  <2> QED
    BY <2>1, <2>2, WorkerFrame DEF Next
<1>2. /\ worker'[w].item = k /\ k \in Item /\ worker[w].pc # "mark" /\ worker[w].pc # "idle"
      /\ \A i \in Item : row[i].key # k
  <2>1. CASE WorkerStep(w)
    BY <2>1, UnavailableWorker
  <2>2. CASE worker'[w] = worker[w]
    BY <2>2 DEF Typed, WorkersTyped, UnavailableInv
  <2> QED
    BY <1>1, <2>1, <2>2
<1>3. ~(UseUpload(k) /\ k \in Upload)
  <2>1. row[k].avail # "none"
    BY <1>2 DEF StoreInv, QueueInv, KnownInv
  <2> QED
    BY <2>1 DEF UseUpload, UseIf, StoreInv, UploadInv
<1>4. \A v \in Worker : ~(MarkMediaReady(v) /\ k = worker[v].item)
  BY <1>2 DEF MarkMediaReady, StoreInv, QueueInv
<1> QED
  BY <1>2, <1>3, <1>4, KeysStep, MediaAssumption

\* What a reader that found its object missing may still take from the row: while
\* the version is the one it read, the object is missing.
MissingInv ==
  \A r \in Reader : LET k == reader[r].item IN
    /\ reader[r].pc # "idle" => reader[r].version <= row[k].version
    /\ reader[r].pc \in {"open", "missing"} => reader[r].key = k
    /\ reader[r].pc = "missing" /\ row[k].avail = "ready" /\ row[k].version = reader[r].version
         => k \notin objects

\* Where nothing is merged, a row has its own file.
LEMMA OwnFile ==
  ASSUME StoreInv, NoneMerged, NEW k \in Item, row[k].avail = "ready"
  PROVE  row[k].key = k
BY DEF StoreInv, KeyInv, NoneMerged

\* A reader that goes on
LEMMA ReaderGoes ==
  ASSUME CallsTyped, NEW r \in Reader, NEW pc \in {"missing", "gone", "fetch"}, Turn(r, pc)
  PROVE  /\ reader'[r].pc = pc /\ reader'[r].item = reader[r].item
         /\ reader'[r].key = reader[r].key /\ reader'[r].version = reader[r].version
         /\ reader'[r].ref = reader[r].ref
         /\ \A q \in Reader : q # r => reader'[q] = reader[q]
<1>1. reader[r] \in ReaderType
  BY DEF CallsTyped
<1>2. PICK x : x = [reader[r] EXCEPT !.pc = pc]
  OBVIOUS
<1>3. /\ x.pc = pc /\ x.item = reader[r].item /\ x.key = reader[r].key
      /\ x.version = reader[r].version /\ x.ref = reader[r].ref
  BY <1>1, <1>2 DEF ReaderType
<1>4. reader' = [reader EXCEPT ![r] = x]
  BY <1>2 DEF Turn
<1> QED
  BY <1>3, <1>4 DEF CallsTyped

\* What a step leaves a reader with: what it had, nothing, or a row it has just read
\* and an object it has just missed.
ReaderMove(r) ==
  \/ reader'[r] = reader[r]
  \/ reader'[r].pc = "idle"
  \/ /\ reader'[r].pc \in {"open", "fetch"} /\ reader'[r].item \in Item
     /\ UNCHANGED <<row, objects>>
     /\ row[reader'[r].item].avail \in {"ready", "remote"}
     /\ reader'[r].pc = "open" => row[reader'[r].item].avail = "ready"
     /\ reader'[r].key = row[reader'[r].item].key
     /\ reader'[r].version = row[reader'[r].item].version
     /\ reader'[r].ref = row[reader'[r].item].ref
  \/ /\ reader[r].pc # "idle" /\ reader'[r].item = reader[r].item
     /\ reader'[r].key = reader[r].key /\ reader'[r].version = reader[r].version
     /\ reader'[r].ref = reader[r].ref
     /\ \/ reader'[r].pc = "fetch"
        \/ /\ reader[r].pc = "open" /\ UNCHANGED <<row, objects>>
           /\ reader'[r].pc = IF reader[r].ref THEN "missing" ELSE "gone"
           /\ reader[r].key \notin objects

LEMMA ReaderMoves == ASSUME Typed, [Next]_vars PROVE \A r \in Reader : ReaderMove(r)
<1>1. ASSUME NEW q \in Reader, ReaderStep(q) \/ (\E k \in Item : GetMedia(q, k)),
             NEW r \in Reader, r # q
      PROVE  reader'[r] = reader[r]
  BY <1>1, ReaderStepEffect, GetMediaEffect DEF Typed
<1>2. ASSUME NEW r \in Reader, NEW k \in Item, GetMedia(r, k)
      PROVE  ReaderMove(r)
  <2>1. PICK x : x = [pc |-> IF Remote(k) THEN "fetch" ELSE "open", item |-> k,
                      key |-> row[k].key, version |-> row[k].version, ref |-> row[k].ref,
                      block |-> row[k].block]
    OBVIOUS
  <2>2. /\ x.item = k /\ x.key = row[k].key /\ x.version = row[k].version /\ x.ref = row[k].ref
        /\ x.pc = IF Remote(k) THEN "fetch" ELSE "open"
    BY <2>1
  <2>3. reader'[r] = x
    BY <1>2, <2>1 DEF GetMedia, Typed, CallsTyped
  <2>4. row[k].avail \in {"ready", "remote"} /\ UNCHANGED <<row, objects>>
    BY <1>2 DEF GetMedia, dbVars
  <2> QED
    BY <2>2, <2>3, <2>4 DEF ReaderMove, Remote
<1>3. ASSUME NEW r \in Reader, NEW pc \in {"missing", "gone", "fetch"}, Turn(r, pc)
      PROVE  /\ reader'[r].pc = pc /\ reader'[r].item = reader[r].item
             /\ reader'[r].key = reader[r].key /\ reader'[r].version = reader[r].version
             /\ reader'[r].ref = reader[r].ref
  BY <1>3, ReaderGoes DEF Typed
<1>4. ASSUME NEW r \in Reader, Turn(r, "idle")
      PROVE  reader'[r].pc = "idle"
  BY <1>4 DEF Turn, Typed, CallsTyped, Rest
<1>5. ASSUME NEW r \in Reader, OpenObject(r)
      PROVE  ReaderMove(r)
  <2>1. reader[r].pc = "open" /\ UNCHANGED <<row, objects>>
    BY <1>5 DEF OpenObject, dbVars
  <2>2. CASE reader[r].key \in objects
    <3>1. Turn(r, "idle")
      BY <1>5, <2>2 DEF OpenObject
    <3> QED
      BY <1>4, <3>1 DEF ReaderMove
  <2>3. CASE reader[r].key \notin objects
    <3>1. PICK pc : pc = IF reader[r].ref THEN "missing" ELSE "gone"
      OBVIOUS
    <3>2. Turn(r, pc)
      BY <1>5, <2>3, <3>1 DEF OpenObject
    <3>3. pc \in {"missing", "gone", "fetch"}
      BY <3>1
    <3> QED
      BY <1>3, <2>1, <2>3, <3>1, <3>2, <3>3 DEF ReaderMove
  <2> QED
    BY <2>2, <2>3
<1>6. ASSUME NEW r \in Reader, MarkMediaRemote(r)
      PROVE  ReaderMove(r)
  <2>1. reader[r].pc = "missing" /\ (Turn(r, "fetch") \/ Turn(r, "idle"))
    BY <1>6 DEF MarkMediaRemote, MissingIf
  <2> QED
    BY <1>3, <1>4, <2>1 DEF ReaderMove
<1>7. ASSUME NEW r \in Reader, MarkMediaUnavailable(r) \/ Fetch(r)
      PROVE  ReaderMove(r)
  <2>1. Turn(r, "idle")
    BY <1>7 DEF MarkMediaUnavailable, Fetch
  <2> QED
    BY <1>4, <2>1 DEF ReaderMove
<1>8. Restart => \A r \in Reader : ReaderMove(r)
  <2> SUFFICES ASSUME Restart, NEW r \in Reader PROVE ReaderMove(r)
    OBVIOUS
  <2>1. reader'[r] = Rest /\ Rest.pc = "idle"
    BY DEF Restart, Rest
  <2> QED
    BY <2>1 DEF ReaderMove
<1>9. UNCHANGED reader => \A r \in Reader : ReaderMove(r)
  BY DEF ReaderMove
<1>10. ASSUME NEW q \in Reader, ReaderStep(q) \/ (\E k \in Item : GetMedia(q, k))
       PROVE  \A r \in Reader : ReaderMove(r)
  <2>1. ReaderMove(q)
    BY <1>2, <1>5, <1>6, <1>7, <1>10 DEF ReaderStep
  <2>2. \A r \in Reader : r # q => ReaderMove(r)
    BY <1>1, <1>10 DEF ReaderMove
  <2> QED
    BY <2>1, <2>2
<1> QED
  BY <1>8, <1>9, <1>10, ReaderFrame DEF Next

LEMMA MissingInvStep ==
  ASSUME Twins = {}, Typed, StoreInv, NoneMerged, MissingInv, [Next]_vars
  PROVE  MissingInv'
<1> SUFFICES ASSUME NEW r \in Reader, reader'[r].pc # "idle"
             PROVE  /\ reader'[r].version <= row'[reader'[r].item].version
                    /\ reader'[r].pc \in {"open", "missing"} => reader'[r].key = reader'[r].item
                    /\ (reader'[r].pc = "missing" /\ row'[reader'[r].item].avail = "ready"
                        /\ row'[reader'[r].item].version = reader'[r].version)
                         => reader'[r].item \notin objects'
  BY DEF MissingInv
<1> DEFINE k == reader'[r].item
<1>1. Typed' /\ ReaderMove(r)
  BY ReaderMoves, StoreInvStep
<1>2. reader'[r].version \in Nat /\ k \in Item /\ row'[k].version \in Nat /\ row[k].version \in Nat
  BY <1>1 DEF Typed, CallsTyped, ReaderType, StoreTyped, RowType
<1>3. CASE /\ UNCHANGED <<row, objects>> /\ reader'[r].pc \in {"open", "fetch"}
           /\ reader'[r].pc = "open" => row[k].avail = "ready"
           /\ reader'[r].key = row[k].key /\ reader'[r].version = row[k].version
  <2>1. reader'[r].pc = "open" => row[k].key = k
    BY <1>2, <1>3, OwnFile
  <2> QED
    BY <1>2, <1>3, <2>1
<1>4. CASE /\ reader[r].pc # "idle" /\ k = reader[r].item
           /\ reader'[r].key = reader[r].key /\ reader'[r].version = reader[r].version
           /\ reader[r].pc = reader'[r].pc \/ reader'[r].pc \in {"fetch", "gone"}
              \/ (reader[r].pc = "open" /\ reader[r].key \notin objects /\ UNCHANGED objects)
  <2>1. /\ reader[r].version <= row[k].version /\ row[k].avail # "none"
    BY <1>4 DEF MissingInv, StoreInv, KnownInv
  <2>2. Grows(k, row[k], row'[k])
    BY <1>2, RowsGrowStep DEF RowsGrow
  <2>3. reader'[r].version <= row'[k].version
    BY <1>2, <1>4, <2>1, <2>2 DEF Grows
  <2>4. reader'[r].pc \in {"open", "missing"} => reader'[r].key = k
    BY <1>4 DEF MissingInv
  <2>5. ASSUME reader'[r].pc = "missing", row'[k].avail = "ready",
               row'[k].version = reader'[r].version
        PROVE  k \notin objects'
    <3>1. row[k].avail = "ready" /\ row[k].version = reader[r].version
      <4>1. row'[k].version <= row[k].version
        BY <1>4, <2>1, <2>5
      <4>2. ~(row[k].version < row'[k].version)
        BY <1>2, <4>1
      <4>3. row[k].avail = "ready"
        BY <2>1, <2>2, <2>5, <4>2 DEF Grows
      <4>4. row[k].version <= row'[k].version
        BY <2>1, <2>2 DEF Grows
      <4> QED
        BY <1>2, <1>4, <2>5, <4>1, <4>3, <4>4
    <3>2. k \notin objects
      BY <1>4, <2>4, <2>5, <3>1 DEF MissingInv
    <3>3. ASSUME NEW w \in Worker, worker[w].pc = "put"
          PROVE  worker[w].item # k
      BY <1>2, <3>1, <3>3, OwnFile DEF StoreInv, DownloadInv
    <3>4. ASSUME NEW u \in Upload, call[u] = "put"
          PROVE  u # k
      BY <3>1, <3>4 DEF StoreInv, UploadInv
    <3> QED
      BY <3>2, <3>3, <3>4, NewObjects
  <2> QED
    BY <2>3, <2>4, <2>5
<1> QED
  BY <1>1, <1>3, <1>4 DEF ReaderMove

LEMMA MissingInvHolds ==
  ASSUME Twins = {}
  PROVE  Spec => [](Typed /\ StoreInv /\ NoneMerged /\ UnavailableInv /\ MissingInv)
<1>1. Init => NoneMerged /\ UnavailableInv /\ MissingInv
  <2> SUFFICES ASSUME Init PROVE NoneMerged /\ UnavailableInv /\ MissingInv
    OBVIOUS
  <2>1. /\ \A k \in Item : row[k].avail = "none"
        /\ \A w \in Worker : worker[w].pc = "idle"
        /\ \A r \in Reader : reader[r].pc = "idle"
    BY DEF Init, NoRow, Idle, Rest
  <2> QED
    BY <2>1 DEF NoneMerged, UnavailableInv, MissingInv
<1>2. Typed /\ StoreInv /\ NoneMerged /\ UnavailableInv /\ MissingInv /\ [Next]_vars
        => NoneMerged' /\ UnavailableInv' /\ MissingInv'
  BY NoneMergedStep, UnavailableInvStep, MissingInvStep
<1> QED
  BY <1>1, <1>2, StoreInvHolds, PTL DEF Spec

\* A reader found the object of k missing, and its row without a reference.
FoundGone(k) == \E r \in Reader : reader[r].pc = "gone" /\ reader[r].item = k

LEMMA StaysReady ==
  ASSUME StoreTyped, NEW k \in Item, row[k].avail = "ready", NEW j, NEW x,
         j = k => x.avail = "ready", row' = [row EXCEPT ![j] = x]
  PROVE  row'[k].avail = "ready"
BY DEF StoreTyped

LEMMA KeepsItsFile ==
  ASSUME Twins = {}, Typed, StoreInv, NoneMerged, UnavailableInv, MissingInv, [Next]_vars,
         NEW k \in Item, row[k].avail = "ready", row[k].key \in objects, ~FoundGone(k)
  PROVE  row'[k].avail = "ready"
<1>1. row[k] \in RowType /\ row[k].key = k /\ k \in objects
  BY OwnFile DEF Typed, StoreTyped
<1>2. ASSUME NEW w \in Worker, UpdateMediaRef(w) \/ MarkMediaReady(w)
      PROVE  row'[k].avail = "ready"
  <2>1. worker[w].item \in Item
    BY <1>2 DEF UpdateMediaRef, MarkMediaReady, Typed, WorkersTyped
  <2>2. CASE UpdateMediaRef(w)
    BY <1>1, <2>1, <2>2 DEF UpdateMediaRef, Typed, StoreTyped
  <2>3. CASE MarkMediaReady(w)
    BY <1>1, <2>3, MarkRow DEF RowStored, Remote, Typed
  <2> QED
    BY <1>2, <2>2, <2>3
<1>3. ASSUME NEW w \in Worker, Record(w)
      PROVE  row'[k].avail = "ready"
  <2>1. CASE worker[w].item = k
    <3>1. ~(worker[w].pc = "unavailable")
      BY <1>1, <2>1 DEF UnavailableInv
    <3> QED
      BY <1>3, <2>1, <3>1 DEF Record, Remote
  <2>2. CASE worker[w].item # k
    BY <1>3, <2>2 DEF Record, Typed, StoreTyped
  <2> QED
    BY <2>1, <2>2
<1>4. ASSUME NEW r \in Reader, MarkMediaRemote(r)
      PROVE  row'[k].avail = "ready"
  <2>1. CASE reader[r].item = k
    <3>1. ~(row[k].version = reader[r].version)
      BY <1>1, <1>4, <2>1 DEF MarkMediaRemote, MissingIf, MissingInv
    <3> QED
      BY <1>4, <2>1, <3>1 DEF MarkMediaRemote, MissingIf
  <2>2. CASE reader[r].item # k
    BY <1>4, <2>2 DEF MarkMediaRemote, MissingIf, Typed, StoreTyped
  <2> QED
    BY <2>1, <2>2
<1>5. ASSUME NEW r \in Reader, MarkMediaUnavailable(r)
      PROVE  row'[k].avail = "ready"
  <2>1. reader[r].item # k
    BY <1>5 DEF MarkMediaUnavailable, FoundGone
  <2> QED
    BY <1>5, <2>1 DEF MarkMediaUnavailable, Typed, StoreTyped
<1>6. ASSUME NEW r \in Reader, Fetch(r)
      PROVE  row'[k].avail = "ready"
  <2>1. PICK x : x = [row[reader[r].item] EXCEPT !.block = ""]
    OBVIOUS
  <2>2. UNCHANGED row \/ row' = [row EXCEPT ![reader[r].item] = x]
    BY <1>6, <2>1 DEF Fetch
  <2>3. reader[r].item = k => x.avail = "ready"
    BY <1>1, <2>1 DEF RowType
  <2> QED
    BY <2>2, <2>3, StaysReady DEF Typed
<1>7. ASSUME NEW a \in Item, SaveAttachment(a)
      PROVE  row'[k].avail = "ready"
  <2>1. PICK auto \in BOOLEAN, ref \in {TRUE} \cup {~LateRefs} :
          row' = [row EXCEPT ![a] =
            [@ EXCEPT !.avail = IF row[a].avail = "ready" THEN "ready" ELSE "remote",
                      !.ref = row[a].ref \/ ref,
                      !.auto = row[a].block = "" /\ (row[a].auto \/ auto)]]
    BY <1>7 DEF SaveAttachment
  <2>2. PICK x : x = [row[a] EXCEPT !.avail = IF row[a].avail = "ready" THEN "ready" ELSE "remote",
                                    !.ref = row[a].ref \/ ref,
                                    !.auto = row[a].block = "" /\ (row[a].auto \/ auto)]
    OBVIOUS
  <2>3. a = k => x.avail = "ready"
    BY <1>1, <2>2 DEF RowType
  <2>4. row' = [row EXCEPT ![a] = x]
    BY <2>1, <2>2
  <2> QED
    BY <2>3, <2>4, StaysReady DEF Typed
<1>8. ASSUME NEW a \in Item, Due(a)
      PROVE  row'[k].avail = "ready"
  BY <1>1, <1>8 DEF Due, Typed, StoreTyped, RowType
<1>9. ASSUME NEW u \in Upload, UseUpload(u)
      PROVE  row'[k].avail = "ready"
  BY <1>9, UseRow DEF RowStored, Typed
<1> QED
  BY <1>2, <1>3, <1>4, <1>5, <1>6, <1>7, <1>8, <1>9, RowFrame DEF Next, WorkerStep, ReaderStep

(* Where no copies are merged, a stored file is taken from its row only by   *)
(* a reader that found it missing when nothing could fetch it again          *)
(* (OpenMedia, MarkMediaUnavailable), although a download that failed is     *)
(* recorded without a look at what the row became (mediaFailure), and a      *)
(* reader may report an object missing that was stored again since           *)
(* (MarkMediaRemote).                                                        *)
THEOREM FilesGoByReaders ==
  ASSUME Twins = {}
  PROVE  Spec => [][\A k \in Item : row[k].avail = "ready" /\ row[k].key \in objects
                       => row'[k].avail = "ready" \/ FoundGone(k)]_vars
<1>1. Spec => [](Typed /\ StoreInv /\ NoneMerged /\ UnavailableInv /\ MissingInv)
  BY MissingInvHolds
<1>2. Typed /\ StoreInv /\ NoneMerged /\ UnavailableInv /\ MissingInv /\ [Next]_vars
        => [\A k \in Item : row[k].avail = "ready" /\ row[k].key \in objects
              => row'[k].avail = "ready" \/ FoundGone(k)]_vars
  BY KeepsItsFile
<1> QED
  BY <1>1, <1>2, PTL DEF Spec

\* An attachment that arrived with a reference keeps one, and so has who reads it.
RefInv ==
  /\ \A a \in Attachment : row[a].avail # "none" => row[a].ref
  /\ \A r \in Reader : reader[r].pc # "idle" /\ reader[r].item \in Attachment
                        => reader[r].ref /\ reader[r].pc # "gone"

LEMMA RefInvStep ==
  ASSUME Twins = {}, ~LateRefs, Typed, StoreInv, RefInv, [Next]_vars
  PROVE  RefInv'
<1>1. \A a \in Attachment : row'[a].avail # "none" => row'[a].ref
  <2> SUFFICES ASSUME NEW a \in Attachment, row'[a].avail # "none" PROVE row'[a].ref
    OBVIOUS
  <2>1. Grows(a, row[a], row'[a])
    BY RowsGrowStep DEF RowsGrow, Item
  <2> QED
    BY <2>1 DEF Grows, RefInv
<1>2. ASSUME NEW r \in Reader, reader'[r].pc # "idle", reader'[r].item \in Attachment
      PROVE  reader'[r].ref /\ reader'[r].pc # "gone"
  BY <1>2, ReaderMoves DEF ReaderMove, RefInv
<1> QED
  BY <1>1, <1>2 DEF RefInv

(* An attachment whose messages always come with the reference to fetch it   *)
(* keeps its stored file, where no copies are merged: StoredIsKept for       *)
(* attachments.                                                              *)
THEOREM AttachmentsAreKept ==
  ASSUME Twins = {}, ~LateRefs
  PROVE  Spec => [][\A a \in Attachment : row[a].avail = "ready" /\ row[a].key \in objects
                       => row'[a].avail = "ready"]_vars
<1>1. Init => RefInv
  <2> SUFFICES ASSUME Init PROVE RefInv
    OBVIOUS
  <2>1. /\ \A a \in Attachment : row[a].avail = "none"
        /\ \A r \in Reader : reader[r].pc = "idle"
    BY DEF Init, NoRow, Rest, Item
  <2> QED
    BY <2>1 DEF RefInv
<1>2. Typed /\ StoreInv /\ RefInv /\ [Next]_vars => RefInv'
  BY RefInvStep
<1>3. Typed /\ RefInv => \A a \in Attachment : a \in Item /\ ~FoundGone(a)
  BY DEF Typed, RefInv, FoundGone, Item
<1>4. RefInv /\ Typed /\ [\A k \in Item : row[k].avail = "ready" /\ row[k].key \in objects
                           => row'[k].avail = "ready" \/ FoundGone(k)]_vars
        => [\A a \in Attachment : row[a].avail = "ready" /\ row[a].key \in objects
              => row'[a].avail = "ready"]_vars
  BY <1>3
<1>5. Spec => [][\A k \in Item : row[k].avail = "ready" /\ row[k].key \in objects
                    => row'[k].avail = "ready" \/ FoundGone(k)]_vars
  BY FilesGoByReaders
<1> QED
  BY <1>1, <1>2, <1>4, <1>5, StoreInvHolds, PTL DEF Spec

(* A stored file is given up only for one that is missing, for any number of *)
(* downloads, readers, failures and restarts, where no copies are merged,    *)
(* messages come with their references, and no message has an upload of ours *)
(* (whose row has a reference only after it comes back from the provider).   *)
COROLLARY StoredIsKeptUnmerged ==
  ASSUME Twins = {}, ~LateRefs, Upload = {}
  PROVE  Spec => StoredIsKept
<1>1. Spec => [][\A a \in Attachment : row[a].avail = "ready" /\ row[a].key \in objects
                    => row'[a].avail = "ready"]_vars
  BY AttachmentsAreKept
<1>2. Item = Attachment
  BY DEF Item
<1>3. [\A a \in Attachment : row[a].avail = "ready" /\ row[a].key \in objects
         => row'[a].avail = "ready"]_vars
        => [\A k \in Item : row[k].avail = "ready" /\ row[k].key \in objects
              => row'[k].avail \in {"ready", "merged"}]_vars
  BY <1>2
<1> QED
  BY <1>1, <1>3, PTL DEF StoredIsKept

---------------------------------------------------------------------------
(* Counting                                                                *)

\* A set that changes at most at one element
LEMMA CountOne ==
  ASSUME NEW S, NEW T, NEW x, IsFiniteSet(S), \A y : y # x => (y \in T <=> y \in S)
  PROVE  /\ IsFiniteSet(T) /\ Cardinality(S) \in Nat /\ Cardinality(T) \in Nat
         /\ x \in S /\ x \in T => Cardinality(T) = Cardinality(S)
         /\ x \notin S /\ x \notin T => Cardinality(T) = Cardinality(S)
         /\ x \in S /\ x \notin T => Cardinality(T) = Cardinality(S) - 1
         /\ x \notin S /\ x \in T => Cardinality(T) = Cardinality(S) + 1
<1>1. CASE x \in T
  <2>1. T = S \cup {x}
    BY <1>1
  <2>2. /\ IsFiniteSet(T)
        /\ Cardinality(T) = IF x \in S THEN Cardinality(S) ELSE Cardinality(S) + 1
    BY <2>1, FS_AddElement
  <2> QED
    BY <1>1, <2>2, FS_CardinalityType
<1>2. CASE x \notin T
  <2>1. T = S \ {x}
    BY <1>2
  <2>2. /\ IsFiniteSet(T)
        /\ Cardinality(T) = IF x \in S THEN Cardinality(S) - 1 ELSE Cardinality(S)
    BY <2>1, FS_RemoveElement
  <2> QED
    BY <1>2, <2>2, FS_CardinalityType
<1> QED
  BY <1>1, <1>2

LEMMA CountLess ==
  ASSUME NEW S, NEW T, IsFiniteSet(S), T \subseteq S
  PROVE  /\ IsFiniteSet(T) /\ Cardinality(S) \in Nat /\ Cardinality(T) \in Nat
         /\ Cardinality(T) <= Cardinality(S)
BY FS_Subset, FS_CardinalityType

Staged    == {w \in Worker : worker[w].staged = 1}
Held      == {w \in Worker : worker[w].held = 1}
Storing   == {w \in Worker : worker[w].pc \in {"put", "mark"}}
Staging   == {u \in Upload : call[u] \notin {"new", "known", "done"}}
Holding   == {u \in Upload : call[u] \notin {"new", "reserve", "known", "done"}}
Inserting == {u \in Upload : call[u] = "insert"}
Ready     == {k \in Item : row[k].avail = "ready"}
Uploaded  == {u \in Upload : uploads[u] # "none"}

LEMMA Finite ==
  /\ IsFiniteSet(Staged) /\ IsFiniteSet(Held) /\ IsFiniteSet(Storing)
  /\ IsFiniteSet(Staging) /\ IsFiniteSet(Holding) /\ IsFiniteSet(Inserting)
  /\ IsFiniteSet(Ready) /\ IsFiniteSet(Uploaded)
<1>1. IsFiniteSet(Item)
  BY FS_Union, MediaAssumption DEF Item
<1>2. /\ Staged \in SUBSET Worker /\ Held \in SUBSET Worker /\ Storing \in SUBSET Worker
      /\ Staging \in SUBSET Upload /\ Holding \in SUBSET Upload /\ Inserting \in SUBSET Upload
      /\ Ready \in SUBSET Item /\ Uploaded \in SUBSET Upload
  BY DEF Staged, Held, Storing, Staging, Holding, Inserting, Ready, Uploaded
<1> QED
  BY <1>1, <1>2, FS_Subset, MediaAssumption

LEMMA Counts ==
  /\ Cardinality(Staged) \in Nat /\ Cardinality(Held) \in Nat /\ Cardinality(Storing) \in Nat
  /\ Cardinality(Staging) \in Nat /\ Cardinality(Holding) \in Nat
  /\ Cardinality(Inserting) \in Nat /\ Cardinality(Ready) \in Nat
  /\ Cardinality(Uploaded) \in Nat
BY Finite, FS_CardinalityType

\* The reservations and the room, in these terms
LEMMA QuotaCounts ==
  /\ ReservationsMatch <=> /\ temp = Cardinality(Staged) + Cardinality(Staging)
                           /\ stored = Cardinality(Held) + Cardinality(Holding)
  /\ StoredMediaBytes = Cardinality(Ready) + Cardinality(Uploaded)
  /\ RoomInv <=> Cardinality(Ready) + Cardinality(Uploaded) + Cardinality(Storing)
                   + Cardinality(Inserting) <= MaxTotal
BY DEF ReservationsMatch, RoomInv, StoredMediaBytes, Staged, Held, Storing, Staging, Holding,
       Inserting, Ready, Uploaded

---------------------------------------------------------------------------
(* The reservations                                                        *)

\* A worker reserves as much as it comes to hold, and gives back what it held.
LEMMA WorkerReserves ==
  ASSUME Typed, ReservedInv, temp \in Nat, stored \in Nat, NEW w \in Worker, WorkerStep(w)
  PROVE  /\ \A v \in Worker : v # w => worker'[v] = worker[v]
         /\ \/ UNCHANGED temp /\ worker'[w].staged = worker[w].staged
            \/ /\ temp < MaxTemp /\ temp' = temp + 1
               /\ worker[w].staged = 0 /\ worker'[w].staged = 1
            \/ temp' = temp - 1 /\ worker[w].staged = 1 /\ worker'[w].staged = 0
         /\ \/ UNCHANGED stored /\ worker'[w].held = worker[w].held
            \/ /\ ReserveMediaStorage(w) /\ HasRoom /\ stored' = stored + 1
               /\ worker[w].held = 0 /\ worker'[w].held = 1
            \/ stored' = stored - 1 /\ worker[w].held = 1 /\ worker'[w].held = 0
<1>1. /\ worker[w].pc \in {"idle", "read"} => worker[w].staged = 0 /\ worker[w].held = 0
      /\ worker[w].pc = "reserve" => worker[w].held = 0
      /\ worker[w].staged \in {0, 1} /\ worker[w].held \in {0, 1}
  BY DEF ReservedInv, Typed, WorkersTyped, WorkerType
<1>2. CASE Dequeue(w)
  BY <1>1, <1>2, DequeueEffect DEF Typed, quotaVars
<1>3. CASE ReadMedia(w)
  BY <1>1, <1>3, ReadMediaEffect DEF Typed, WorkerTo
<1>4. CASE DownloadMedia(w) \/ UpdateMediaRef(w)
  <2>1. UNCHANGED <<temp, stored>>
    BY <1>4, Zenon DEF DownloadMedia, UpdateMediaRef, quotaVars
  <2> QED
    BY <1>4, <2>1, DownloadMediaEffect, UpdateMediaRefWorker DEF Typed, WorkerTo, WorkerKeeps
<1>5. CASE ReserveMediaStorage(w)
  <2>1. UNCHANGED temp
    BY <1>5 DEF ReserveMediaStorage, ReserveIf
  <2> QED
    BY <1>1, <1>5, <2>1, ReserveEffect DEF Typed, WorkerTo
<1>6. CASE PutMedia(w) \/ MarkMediaReady(w) \/ CheckMedia(w) \/ DeleteMedia(w) \/ Record(w)
  <2>1. UNCHANGED <<temp, stored>>
    BY <1>6 DEF PutMedia, MarkMediaReady, CheckMedia, DeleteMedia, Record, quotaVars
  <2>2. CASE PutMedia(w) \/ MarkMediaReady(w)
    BY <2>1, <2>2, PutMediaEffect, MarkWorker DEF Typed, WorkerTo, WorkerKeeps
  <2>3. CASE CheckMedia(w) \/ DeleteMedia(w) \/ Record(w)
    BY <2>1, <2>3, CheckMediaEffect, DeleteMediaEffect, RecordWorker
       DEF Typed, WorkerTo, WorkerKeeps
  <2> QED
    BY <1>6, <2>2, <2>3
<1>7. CASE Finish(w)
  BY <1>1, <1>7, FinishEffect DEF Typed
<1> QED
  BY <1>2, <1>3, <1>4, <1>5, <1>6, <1>7 DEF WorkerStep

LEMMA ReservedInvStep == ASSUME Typed, ReservedInv, [Next]_vars PROVE ReservedInv'
<1> DEFINE Reserved(x) == /\ x.pc \in {"idle", "read"} => x.staged = 0
                          /\ x.pc \in {"idle", "read", "download", "reference", "reserve"}
                               => x.held = 0
                          /\ x.pc \in {"put", "mark"} => x.held = 1
<1>1. \A w \in Worker : Reserved(worker[w])
  BY DEF ReservedInv
<1>2. ASSUME NEW w \in Worker, WorkerStep(w)
      PROVE  Reserved(worker'[w]) /\ \A v \in Worker : v # w => worker'[v] = worker[v]
  <2>1. CASE Dequeue(w) \/ Finish(w)
    BY <2>1, DequeueEffect, FinishEffect DEF Typed
  <2>2. CASE ReadMedia(w)
    BY <1>1, <2>2, ReadMediaEffect DEF Typed, WorkerTo
  <2>3. CASE DownloadMedia(w) \/ UpdateMediaRef(w)
    BY <1>1, <2>3, DownloadMediaEffect, UpdateMediaRefWorker DEF Typed, WorkerTo, WorkerKeeps
  <2>4. CASE ReserveMediaStorage(w)
    BY <1>1, <2>4, ReserveEffect DEF Typed, WorkerTo
  <2>5. CASE PutMedia(w) \/ MarkMediaReady(w)
    BY <1>1, <2>5, PutMediaEffect, MarkWorker DEF Typed, WorkerTo, WorkerKeeps
  <2>6. CASE CheckMedia(w) \/ DeleteMedia(w) \/ Record(w)
    BY <1>1, <2>6, CheckMediaEffect, DeleteMediaEffect, RecordWorker
       DEF Typed, WorkerTo, WorkerKeeps
  <2> QED
    BY <1>2, <2>1, <2>2, <2>3, <2>4, <2>5, <2>6 DEF WorkerStep
<1>3. CASE Restart
  BY <1>3 DEF Restart, ReservedInv, Idle
<1>4. \A w \in Worker : Restart \/ Reserved(worker'[w])
  <2> HIDE DEF Reserved
  <2> QED
    BY <1>1, <1>2, WorkerFrame DEF Next
<1> QED
  BY <1>3, <1>4 DEF ReservedInv

\* The steps in which nothing is reserved or given back
LEMMA QuotaFrame ==
  ASSUME \/ \E u \in Upload : \/ InsertUpload(u) \/ PutUpload(u) \/ MarkUploadReady(u)
                              \/ DiscardUpload(u) \/ UseUpload(u) \/ DeleteUpload(u)
         \/ \E r \in Reader : ReaderStep(r) \/ \E k \in Item : GetMedia(r, k)
         \/ \E k \in Item : SaveAttachment(k) \/ LoseObject(k) \/ Due(k)
         \/ \E p \in Twins : MergeAttachments(p[1], p[2])
         \/ ScanStep \/ Connection \/ UNCHANGED vars
  PROVE  UNCHANGED <<temp, stored>>
<1>1. ASSUME NEW u \in Upload, \/ InsertUpload(u) \/ PutUpload(u) \/ MarkUploadReady(u)
                               \/ DiscardUpload(u) \/ UseUpload(u) \/ DeleteUpload(u)
      PROVE  UNCHANGED <<temp, stored>>
  BY <1>1, Zenon DEF InsertUpload, PutUpload, MarkUploadReady, DiscardUpload, DiscardTo, UseUpload,
              UseIf, DeleteUpload, quotaVars
<1>2. ASSUME NEW r \in Reader, ReaderStep(r) \/ \E k \in Item : GetMedia(r, k)
      PROVE  UNCHANGED <<temp, stored>>
  BY <1>2, Zenon DEF ReaderStep, GetMedia, OpenObject, MarkMediaRemote, MissingIf,
              MarkMediaUnavailable, Fetch, quotaVars
<1>3. ASSUME \/ \E k \in Item : SaveAttachment(k) \/ LoseObject(k) \/ Due(k)
             \/ \E p \in Twins : MergeAttachments(p[1], p[2])
      PROVE  UNCHANGED <<temp, stored>>
  BY <1>3, Zenon DEF SaveAttachment, LoseObject, Due, MergeAttachments, MergeIf, quotaVars
<1>4. ASSUME ScanStep \/ Connection \/ UNCHANGED vars
      PROVE  UNCHANGED <<temp, stored>>
  BY <1>4 DEF ScanStep, ListPendingMedia, ScanQueue, ListUploadsForCleanup, DeleteObject,
              ClearRecord, ScanNext, Connection, vars, quotaVars
<1> QED
  BY <1>1, <1>2, <1>3, <1>4

\* What an upload reserves and gives back
LEMMA UploadReserves ==
  ASSUME Typed, NEW u \in Upload, StageUpload(u) \/ UploadStep(u) \/ UseUpload(u)
  PROVE  /\ \A v \in Upload : v # u => call'[v] = call[v]
         /\ \/ /\ UNCHANGED <<temp, stored>> /\ (u \in Staging' <=> u \in Staging)
               /\ (u \in Holding' <=> u \in Holding)
            \/ /\ temp < MaxTemp /\ temp' = temp + 1 /\ u \notin Staging /\ u \in Staging'
               /\ UNCHANGED stored /\ (u \in Holding' <=> u \in Holding)
            \/ /\ ReserveUpload(u) /\ HasRoom /\ stored' = stored + 1
               /\ u \notin Holding /\ u \in Holding'
               /\ UNCHANGED temp /\ (u \in Staging' <=> u \in Staging)
            \/ /\ temp' = temp - 1 /\ u \in Staging /\ u \notin Staging'
               /\ UNCHANGED stored /\ (u \in Holding' <=> u \in Holding)
            \/ /\ temp' = temp - 1 /\ u \in Staging /\ u \notin Staging'
               /\ stored' = stored - 1 /\ u \in Holding /\ u \notin Holding'
<1>1. call \in [Upload -> CallState]
  BY DEF Typed, CallsTyped, CallState
<1>2. ASSUME NEW pc, To(u, pc)
      PROVE  call'[u] = pc /\ \A v \in Upload : v # u => call'[v] = call[v]
  BY <1>1, <1>2 DEF To
<1>3. CASE StageUpload(u)
  <2>1. /\ call[u] = "new" /\ temp < MaxTemp /\ temp' = temp + 1 /\ To(u, "reserve")
        /\ UNCHANGED stored
    BY <1>3 DEF StageUpload
  <2> QED
    BY <1>2, <2>1 DEF Staging, Holding
<1>4. CASE ReserveUpload(u)
  <2>1. /\ call[u] = "reserve"
        /\ \/ HasRoom /\ stored' = stored + 1 /\ To(u, "insert") /\ UNCHANGED temp
           \/ temp' = temp - 1 /\ To(u, "done") /\ UNCHANGED stored
    BY <1>4 DEF ReserveUpload
  <2>2. CASE HasRoom /\ stored' = stored + 1 /\ To(u, "insert") /\ UNCHANGED temp
    BY <1>2, <1>4, <2>1, <2>2 DEF Staging, Holding
  <2>3. CASE temp' = temp - 1 /\ To(u, "done") /\ UNCHANGED stored
    BY <1>2, <2>1, <2>3 DEF Staging, Holding
  <2> QED
    BY <2>1, <2>2, <2>3
<1>5. CASE InsertUpload(u) \/ PutUpload(u) \/ MarkUploadReady(u) \/ DiscardUpload(u)
  <2>1. /\ call[u] \in {"insert", "put", "mark", "discard"}
        /\ \E pc \in {"put", "release", "mark", "discard", "answer"} : To(u, pc)
    BY <1>5 DEF InsertUpload, PutUpload, MarkUploadReady, DiscardUpload, DiscardTo
  <2>2. UNCHANGED <<temp, stored>>
    BY <1>5, QuotaFrame
  <2> QED
    BY <1>2, <2>1, <2>2 DEF Staging, Holding
<1>6. CASE ReleaseUpload(u)
  <2>1. /\ call[u] \in {"release", "answer"} /\ temp' = temp - 1 /\ stored' = stored - 1
        /\ \E pc \in {"known", "done"} : To(u, pc)
    BY <1>6 DEF ReleaseUpload
  <2> QED
    BY <1>2, <2>1 DEF Staging, Holding
<1>7. CASE UseUpload(u)
  <2>1. call[u] = "known" /\ To(u, "done") /\ UNCHANGED <<temp, stored>>
    BY <1>7, QuotaFrame DEF UseUpload, UseIf
  <2> QED
    BY <1>2, <2>1 DEF Staging, Holding
<1> QED
  BY <1>3, <1>4, <1>5, <1>6, <1>7 DEF UploadStep

LEMMA ReservationsStep ==
  ASSUME Typed, ReservedInv, ReservationsMatch, [Next]_vars PROVE ReservationsMatch'
<1>1. /\ temp = Cardinality(Staged) + Cardinality(Staging)
      /\ stored = Cardinality(Held) + Cardinality(Holding)
      /\ temp \in Nat /\ stored \in Nat
  BY QuotaCounts, Counts
<1> SUFFICES /\ temp' = Cardinality(Staged') + Cardinality(Staging')
             /\ stored' = Cardinality(Held') + Cardinality(Holding')
  BY DEF ReservationsMatch, Staged, Held, Staging, Holding
<1>2. UNCHANGED worker => Staged' = Staged /\ Held' = Held
  BY DEF Staged, Held
<1>3. UNCHANGED call => Staging' = Staging /\ Holding' = Holding
  BY DEF Staging, Holding
<1>4. ASSUME NEW w \in Worker, WorkerStep(w)
      PROVE  /\ temp' = Cardinality(Staged') + Cardinality(Staging')
             /\ stored' = Cardinality(Held') + Cardinality(Holding')
  <2>1. Staging' = Staging /\ Holding' = Holding
    BY <1>3, <1>4, CallFrame
  <2>2. /\ \A v : v # w => (v \in Staged' <=> v \in Staged)
        /\ \A v : v # w => (v \in Held' <=> v \in Held)
        /\ w \in Staged <=> worker[w].staged = 1
        /\ w \in Staged' <=> worker'[w].staged = 1
        /\ w \in Held <=> worker[w].held = 1
        /\ w \in Held' <=> worker'[w].held = 1
    BY <1>1, <1>4, WorkerReserves DEF Staged, Held
  <2>3. temp' = Cardinality(Staged') + Cardinality(Staging)
    <3>1. \/ UNCHANGED temp /\ (w \in Staged' <=> w \in Staged)
          \/ temp' = temp + 1 /\ w \notin Staged /\ w \in Staged'
          \/ temp' = temp - 1 /\ w \in Staged /\ w \notin Staged'
      BY <1>1, <1>4, <2>2, WorkerReserves
    <3>2. PICK S : S = Staged'
      OBVIOUS
    <3>3. /\ Cardinality(S) \in Nat
          /\ (w \in S <=> w \in Staged) => Cardinality(S) = Cardinality(Staged)
          /\ w \in Staged /\ w \notin S => Cardinality(S) = Cardinality(Staged) - 1
          /\ w \notin Staged /\ w \in S => Cardinality(S) = Cardinality(Staged) + 1
      BY <2>2, <3>2, CountOne, Finite
    <3> QED
      BY <1>1, <3>1, <3>2, <3>3, Counts
  <2>4. stored' = Cardinality(Held') + Cardinality(Holding)
    <3>1. \/ UNCHANGED stored /\ (w \in Held' <=> w \in Held)
          \/ stored' = stored + 1 /\ w \notin Held /\ w \in Held'
          \/ stored' = stored - 1 /\ w \in Held /\ w \notin Held'
      BY <1>1, <1>4, <2>2, WorkerReserves
    <3>2. PICK S : S = Held'
      OBVIOUS
    <3>3. /\ Cardinality(S) \in Nat
          /\ (w \in S <=> w \in Held) => Cardinality(S) = Cardinality(Held)
          /\ w \in Held /\ w \notin S => Cardinality(S) = Cardinality(Held) - 1
          /\ w \notin Held /\ w \in S => Cardinality(S) = Cardinality(Held) + 1
      BY <2>2, <3>2, CountOne, Finite
    <3> QED
      BY <1>1, <3>1, <3>2, <3>3, Counts
  <2> QED
    BY <2>1, <2>3, <2>4
<1>5. ASSUME NEW u \in Upload, StageUpload(u) \/ UploadStep(u) \/ UseUpload(u)
      PROVE  /\ temp' = Cardinality(Staged') + Cardinality(Staging')
             /\ stored' = Cardinality(Held') + Cardinality(Holding')
  <2>1. Staged' = Staged /\ Held' = Held
    BY <1>2, <1>5, WorkerFrame
  <2>2. /\ \A v : v # u => (v \in Staging' <=> v \in Staging)
        /\ \A v : v # u => (v \in Holding' <=> v \in Holding)
    BY <1>5, UploadReserves DEF Staging, Holding
  <2>3. temp' = Cardinality(Staged) + Cardinality(Staging')
    <3>1. \/ UNCHANGED temp /\ (u \in Staging' <=> u \in Staging)
          \/ temp' = temp + 1 /\ u \notin Staging /\ u \in Staging'
          \/ temp' = temp - 1 /\ u \in Staging /\ u \notin Staging'
      BY <1>5, UploadReserves
    <3>2. PICK S : S = Staging'
      OBVIOUS
    <3>3. /\ Cardinality(S) \in Nat
          /\ (u \in S <=> u \in Staging) => Cardinality(S) = Cardinality(Staging)
          /\ u \in Staging /\ u \notin S => Cardinality(S) = Cardinality(Staging) - 1
          /\ u \notin Staging /\ u \in S => Cardinality(S) = Cardinality(Staging) + 1
      BY <2>2, <3>2, CountOne, Finite
    <3> QED
      BY <1>1, <3>1, <3>2, <3>3, Counts
  <2>4. stored' = Cardinality(Held) + Cardinality(Holding')
    <3>1. \/ UNCHANGED stored /\ (u \in Holding' <=> u \in Holding)
          \/ stored' = stored + 1 /\ u \notin Holding /\ u \in Holding'
          \/ stored' = stored - 1 /\ u \in Holding /\ u \notin Holding'
      BY <1>5, UploadReserves
    <3>2. PICK S : S = Holding'
      OBVIOUS
    <3>3. /\ Cardinality(S) \in Nat
          /\ (u \in S <=> u \in Holding) => Cardinality(S) = Cardinality(Holding)
          /\ u \in Holding /\ u \notin S => Cardinality(S) = Cardinality(Holding) - 1
          /\ u \notin Holding /\ u \in S => Cardinality(S) = Cardinality(Holding) + 1
      BY <2>2, <3>2, CountOne, Finite
    <3> QED
      BY <1>1, <3>1, <3>2, <3>3, Counts
  <2> QED
    BY <2>1, <2>3, <2>4
<1>6. CASE Restart
  <2>1. temp' = 0 /\ stored' = 0 /\ worker' = [w \in Worker |-> Idle]
        /\ call' = [u \in Upload |-> IF call[u] \in {"new", "known"} THEN call[u] ELSE "done"]
    BY <1>6 DEF Restart
  <2>2. Staged' = {} /\ Held' = {} /\ Staging' = {} /\ Holding' = {}
    BY <2>1 DEF Staged, Held, Staging, Holding, Idle
  <2> QED
    BY <2>1, <2>2, FS_EmptySet
<1>7. CASE UNCHANGED <<worker, call, temp, stored>>
  BY <1>1, <1>2, <1>3, <1>7
<1> QED
  BY <1>4, <1>5, <1>6, <1>7, WorkerFrame, CallFrame, QuotaFrame DEF Next

---------------------------------------------------------------------------
(* The room                                                                *)

\* Only a reservation lets a worker store a file, and marking it ends that.
LEMMA StoringStep ==
  ASSUME Typed, NEW w \in Worker, WorkerStep(w)
  PROVE  /\ \A v : v # w => (v \in Storing' <=> v \in Storing)
         /\ ~ReserveMediaStorage(w) => (w \in Storing' => w \in Storing)
         /\ MarkMediaReady(w) => w \in Storing /\ w \notin Storing'
<1>1. \A v \in Worker : v # w => worker'[v] = worker[v]
  BY WorkerGoesOn, DequeueEffect, FinishEffect DEF Typed
<1>2. CASE Dequeue(w) \/ Finish(w) \/ ReadMedia(w) \/ DownloadMedia(w) \/ UpdateMediaRef(w)
  <2>1. worker'[w].pc \notin {"put", "mark"}
    BY <1>2, DequeueEffect, FinishEffect, ReadMediaEffect, DownloadMediaEffect,
       UpdateMediaRefWorker DEF Typed, WorkerTo
  <2>2. ~MarkMediaReady(w)
    BY <1>2, Zenon DEF MarkMediaReady, Dequeue, Finish, FinishWith, ReadMedia, DownloadMedia,
                UpdateMediaRef
  <2> QED
    BY <1>1, <2>1, <2>2 DEF Storing
<1>3. CASE ReserveMediaStorage(w)
  <2>1. ~MarkMediaReady(w)
    BY <1>3 DEF MarkMediaReady, ReserveMediaStorage, ReserveIf
  <2> QED
    BY <1>1, <1>3, <2>1 DEF Storing
<1>4. CASE PutMedia(w)
  <2>1. worker[w].pc = "put" /\ ~MarkMediaReady(w)
    BY <1>4 DEF MarkMediaReady, PutMedia
  <2> QED
    BY <1>1, <2>1 DEF Storing
<1>5. CASE MarkMediaReady(w)
  <2>1. worker[w].pc = "mark" /\ worker'[w].pc \notin {"put", "mark"}
    BY <1>5, MarkWorker DEF Typed, WorkerTo
  <2> QED
    BY <1>1, <2>1 DEF Storing
<1>6. CASE CheckMedia(w) \/ DeleteMedia(w) \/ Record(w)
  <2>1. worker'[w].pc \notin {"put", "mark"}
    BY <1>6, CheckMediaEffect, DeleteMediaEffect, RecordWorker DEF Typed, WorkerTo
  <2>2. ~MarkMediaReady(w)
    BY <1>6 DEF MarkMediaReady, CheckMedia, DeleteMedia, Record
  <2> QED
    BY <1>1, <2>1, <2>2 DEF Storing
<1> QED
  BY <1>2, <1>3, <1>4, <1>5, <1>6 DEF WorkerStep

\* What is stored grows only when a download is marked or an upload is used.
LEMMA ReadyStep ==
  ASSUME Typed, StoreInv, [Next]_vars
  PROVE  \/ Cardinality(Ready') <= Cardinality(Ready)
         \/ /\ Cardinality(Ready') = Cardinality(Ready) + 1
            /\ \/ \E w \in Worker : MarkMediaReady(w)
               \/ \E u \in Upload : UseUpload(u)
<1>1. CASE RowsFade
  <2>1. Ready' \subseteq Ready
    BY <1>1, FadeEffect DEF Ready, StoreInv
  <2> QED
    BY <2>1, CountLess, Finite
<1>2. ASSUME NEW p \in Twins, MergeAttachments(p[1], p[2])
      PROVE  Cardinality(Ready') <= Cardinality(Ready)
  <2>1. PICK t, s : t = p[1] /\ s = p[2]
    OBVIOUS
  <2>2. /\ t \in Item /\ s \in Item /\ t # s /\ row'[s].avail = "merged"
        /\ row'[t].avail = "ready" <=> row[s].avail = "ready" \/ row[t].avail = "ready"
        /\ \A i \in Item : i # t /\ i # s => row'[i] = row[i]
    BY <1>2, <2>1, MergeRow DEF Typed, RowsMerged, Item, Given
  <2>3. /\ s \notin Ready' /\ (t \in Ready' <=> s \in Ready \/ t \in Ready)
        /\ \A i : i # t /\ i # s => (i \in Ready' <=> i \in Ready)
    BY <2>2 DEF Ready
  <2>4. CASE s \notin Ready \/ t \in Ready
    <3>1. Ready' \subseteq Ready
      BY <2>3, <2>4
    <3> QED
      BY <3>1, CountLess, Finite
  <2>5. CASE s \in Ready /\ t \notin Ready
    <3>1. Ready' = (Ready \ {s}) \cup {t} /\ t \notin Ready \ {s}
      BY <2>2, <2>3, <2>5
    <3>2. IsFiniteSet(Ready \ {s}) /\ Cardinality(Ready \ {s}) = Cardinality(Ready) - 1
      BY <2>5, FS_RemoveElement, Finite
    <3>3. Cardinality(Ready') = Cardinality(Ready \ {s}) + 1
      BY <3>1, <3>2, FS_AddElement
    <3> QED
      BY <3>2, <3>3, Counts
  <2> QED
    BY <2>4, <2>5
<1>3. ASSUME NEW k \in Item, RowStored(k), row[k].avail \in {"none", "remote"}
      PROVE  Cardinality(Ready') = Cardinality(Ready) + 1
  <2>1. /\ k \notin Ready /\ k \in Ready'
        /\ \A i : i # k => (i \in Ready' <=> i \in Ready)
    BY <1>3 DEF RowStored, Ready
  <2> QED
    BY <2>1, CountOne, Finite
<1> QED
  BY <1>1, <1>2, <1>3, StoredKey DEF StoreInv

\* An upload gets its row in InsertUpload only.
LEMMA UploadedStep ==
  ASSUME Typed, StoreInv, [Next]_vars, ~\E u \in Upload : InsertUpload(u)
  PROVE  Uploaded' \subseteq Uploaded
<1> SUFFICES ASSUME NEW u \in Upload, uploads'[u] # "none"
             PROVE  uploads[u] # "none"
  BY DEF Uploaded
<1>1. /\ call[u] \in {"put", "mark"} => uploads[u] = "staging"
  BY DEF StoreInv, UploadInv
<1> QED
  BY <1>1, UploadMoves DEF UploadMove

\* An upload gets to insert its row by its reservation only.
LEMMA InsertingStep ==
  ASSUME Typed, [Next]_vars, ~\E u \in Upload : ReserveUpload(u)
  PROVE  Inserting' \subseteq Inserting
BY UploadMoves DEF UploadMove, Inserting

LEMMA RoomInvStep ==
  ASSUME Typed, StoreInv, QuotaInv, [Next]_vars PROVE RoomInv'
<1> DEFINE R == Cardinality(Ready)      RR == Cardinality(Ready')
           U == Cardinality(Uploaded)   UU == Cardinality(Uploaded')
           W == Cardinality(Storing)    WW == Cardinality(Storing')
           I == Cardinality(Inserting)  II == Cardinality(Inserting')
<1>1. /\ R \in Nat /\ U \in Nat /\ W \in Nat /\ I \in Nat /\ MaxTotal \in Nat
      /\ R + U + W + I <= MaxTotal
      /\ temp \in Nat /\ stored \in Nat
  BY Counts, QuotaCounts, MediaAssumption DEF QuotaInv
<1> SUFFICES RR + UU + WW + II <= MaxTotal
  BY DEF RoomInv, StoredMediaBytes, Storing, Inserting, Ready, Uploaded
<1>2. W + I <= stored
  <2>1. Storing \subseteq Held /\ Inserting \subseteq Holding
    BY DEF Storing, Held, Inserting, Holding, QuotaInv, ReservedInv
  <2>2. W <= Cardinality(Held) /\ I <= Cardinality(Holding)
    BY <2>1, CountLess, Finite
  <2>3. stored = Cardinality(Held) + Cardinality(Holding)
    BY QuotaCounts DEF QuotaInv
  <2> QED
    BY <1>1, <2>2, <2>3, Counts
<1>3. HasRoom => R + U + W + I + 1 <= MaxTotal
  BY <1>1, <1>2, QuotaCounts DEF HasRoom
<1>4. RR \in Nat /\ UU \in Nat /\ WW \in Nat /\ II \in Nat
  <2>1. /\ Ready' \in SUBSET Item /\ Uploaded' \in SUBSET Upload
        /\ Storing' \in SUBSET Worker /\ Inserting' \in SUBSET Upload
    BY DEF Ready, Uploaded, Storing, Inserting
  <2>2. IsFiniteSet(Item)
    BY FS_Union, MediaAssumption DEF Item
  <2> QED
    BY <2>1, <2>2, CountLess, MediaAssumption
<1>5. UNCHANGED row => RR = R
  BY DEF Ready
<1>6. UNCHANGED uploads => UU = U
  BY DEF Uploaded
<1>7. UNCHANGED worker => WW = W
  BY DEF Storing
<1>8. UNCHANGED call => II = I
  BY DEF Inserting
<1>9. Uploaded' \subseteq Uploaded => UU <= U
  BY CountLess, Finite
<1>10. Inserting' \subseteq Inserting => II <= I
  BY CountLess, Finite
<1>11. Storing' \subseteq Storing => WW <= W
  BY CountLess, Finite
<1>12. ASSUME NEW w \in Worker, WorkerStep(w)
       PROVE  RR + UU + WW + II <= MaxTotal
  <2>1. UU = U /\ II = I
    BY <1>6, <1>8, <1>12, UploadFrame, CallFrame
  <2>2. CASE ReserveMediaStorage(w)
    <3>1. RR = R
      BY <1>5, <2>2, RowFrame
    <3>2. WW = W \/ (WW = W + 1 /\ HasRoom) \/ WW <= W
      <4>1. CASE HasRoom
        <5>1. \A v : v # w => (v \in Storing' <=> v \in Storing)
          BY <1>12, StoringStep
        <5>2. WW \in {W, W + 1, W - 1}
          BY <5>1, CountOne, Finite
        <5> QED
          BY <1>1, <4>1, <5>2
      <4>2. CASE ~HasRoom
        <5>1. w \notin Storing' /\ \A v : v # w => (v \in Storing' <=> v \in Storing)
          BY <1>12, <2>2, <4>2, StoringStep, ReserveEffect DEF Typed, WorkerTo, Storing
        <5>2. Storing' \subseteq Storing
          BY <5>1
        <5> QED
          BY <1>11, <5>2
      <4> QED
        BY <4>1, <4>2
    <3> HIDE DEF R, RR, U, UU, W, WW, I, II
    <3> QED
      BY <1>1, <1>3, <1>4, <2>1, <3>1, <3>2
  <2>3. CASE MarkMediaReady(w)
    <3>1. WW = W - 1
      BY <1>12, <2>3, StoringStep, CountOne, Finite
    <3>2. RR <= R \/ RR = R + 1
      BY ReadyStep
    <3> HIDE DEF R, RR, U, UU, W, WW, I, II
    <3> QED
      BY <1>1, <1>4, <2>1, <3>1, <3>2
  <2>4. CASE ~ReserveMediaStorage(w) /\ ~MarkMediaReady(w)
    <3>1. WW <= W
      <4>1. Storing' \subseteq Storing
        BY <1>12, <2>4, StoringStep DEF Storing
      <4> QED
        BY <1>11, <4>1
    <3>2. RR <= R
      <4>1. UNCHANGED row \/ RowsFade
        BY <1>12, <2>4, RowFrame, UpdateMediaRefRow, RecordRow DEF WorkerStep, Typed
      <4>2. RowsFade => Ready' \subseteq Ready
        BY FadeEffect DEF Ready, StoreInv
      <4>3. RowsFade => RR <= R
        BY <4>2, CountLess, Finite
      <4> QED
        BY <1>1, <1>5, <4>1, <4>3
    <3> HIDE DEF R, RR, U, UU, W, WW, I, II
    <3> QED
      BY <1>1, <1>4, <2>1, <3>1, <3>2
  <2> QED
    BY <2>2, <2>3, <2>4
<1>13. ASSUME NEW u \in Upload, ReserveUpload(u)
       PROVE  RR + UU + WW + II <= MaxTotal
  <2>1. RR = R /\ UU = U /\ WW = W
    BY <1>5, <1>6, <1>7, <1>13, RowFrame, UploadFrame, WorkerFrame DEF UploadStep
  <2>2. (II <= I + 1 /\ HasRoom) \/ II <= I
    <3>1. call[u] = "reserve" /\ ((HasRoom /\ To(u, "insert")) \/ To(u, "done"))
      BY <1>13 DEF ReserveUpload
    <3>2. CASE HasRoom
      <4>1. /\ u \notin Inserting
            /\ \A v : v # u => (v \in Inserting' <=> v \in Inserting)
        BY <3>1 DEF Inserting, To, Typed, CallsTyped
      <4>2. PICK S : S = Inserting'
        OBVIOUS
      <4>3. CASE u \in S
        <5>1. Cardinality(S) = Cardinality(Inserting) + 1
          BY <4>1, <4>2, <4>3, CountOne, Finite
        <5> QED
          BY <1>1, <3>2, <4>2, <5>1
      <4>4. CASE u \notin S
        <5>1. Cardinality(S) = Cardinality(Inserting)
          BY <4>1, <4>2, <4>4, CountOne, Finite
        <5> QED
          BY <1>1, <4>2, <5>1
      <4> QED
        BY <4>3, <4>4
    <3>3. CASE To(u, "done")
      <4>1. Inserting' \subseteq Inserting
        BY <3>3 DEF Inserting, To, Typed, CallsTyped
      <4> QED
        BY <1>10, <4>1
    <3> QED
      BY <3>1, <3>2, <3>3
  <2> HIDE DEF R, RR, U, UU, W, WW, I, II
  <2> QED
    BY <1>1, <1>3, <1>4, <2>1, <2>2
<1>14. ASSUME NEW u \in Upload, InsertUpload(u)
       PROVE  RR + UU + WW + II <= MaxTotal
  <2>1. RR = R /\ WW = W
    BY <1>5, <1>7, <1>14, RowFrame, WorkerFrame DEF UploadStep
  <2>2. II = I - 1
    <3>1. call[u] = "insert" /\ (To(u, "put") \/ To(u, "release"))
      BY <1>14 DEF InsertUpload
    <3>2. /\ u \in Inserting /\ u \notin Inserting'
          /\ \A v : v # u => (v \in Inserting' <=> v \in Inserting)
      BY <3>1 DEF Inserting, To, Typed, CallsTyped
    <3> QED
      BY <3>2, CountOne, Finite
  <2>3. UU \in {U, U + 1, U - 1}
    <3>1. uploads' = [uploads EXCEPT ![u] = "staging"] \/ UNCHANGED uploads
      BY <1>14 DEF InsertUpload
    <3>2. \A v : v # u => (v \in Uploaded' <=> v \in Uploaded)
      BY <3>1 DEF Uploaded, Typed, StoreTyped
    <3> QED
      BY <3>2, CountOne, Finite
  <2> HIDE DEF R, RR, U, UU, W, WW, I, II
  <2> QED
    BY <1>1, <1>4, <2>1, <2>2, <2>3
<1>15. ASSUME NEW u \in Upload, UseUpload(u)
       PROVE  RR + UU + WW + II <= MaxTotal
  <2>1. WW = W
    BY <1>7, <1>15, WorkerFrame
  <2>2. RR <= R \/ RR = R + 1
    BY ReadyStep
  <2>3. UU = U - 1
    <3>1. uploads[u] = "ready" /\ uploads' = [uploads EXCEPT ![u] = "none"]
      BY <1>15 DEF UseUpload, UseIf
    <3>2. /\ u \in Uploaded /\ u \notin Uploaded'
          /\ \A v : v # u => (v \in Uploaded' <=> v \in Uploaded)
      BY <3>1 DEF Uploaded, Typed, StoreTyped
    <3> QED
      BY <3>2, CountOne, Finite
  <2>4. II <= I
    <3>1. To(u, "done")
      BY <1>15 DEF UseUpload, UseIf
    <3>2. Inserting' \subseteq Inserting
      BY <3>1 DEF Inserting, To, Typed, CallsTyped
    <3> QED
      BY <1>10, <3>2
  <2> HIDE DEF R, RR, U, UU, W, WW, I, II
  <2> QED
    BY <1>1, <1>4, <2>1, <2>2, <2>3, <2>4
<1>16. CASE Restart
  <2>1. RR = R /\ UU = U
    BY <1>5, <1>6, <1>16, RowFrame, UploadFrame
  <2>2. Storing' \subseteq Storing /\ Inserting' \subseteq Inserting
    BY <1>16 DEF Restart, Storing, Inserting, Idle
  <2>3. WW <= W /\ II <= I
    BY <1>10, <1>11, <2>2
  <2> HIDE DEF R, RR, U, UU, W, WW, I, II
  <2> QED
    BY <1>1, <1>4, <2>1, <2>3
<1>17. CASE /\ ~\E w \in Worker : WorkerStep(w)
            /\ ~\E u \in Upload : ReserveUpload(u) \/ InsertUpload(u) \/ UseUpload(u)
            /\ ~Restart
  <2>1. UNCHANGED worker
    BY <1>17, WorkerFrame DEF Next
  <2>2. WW = W /\ UU <= U /\ II <= I
    BY <1>7, <1>9, <1>10, <1>17, <2>1, UploadedStep, InsertingStep
  <2>3. RR <= R
    BY <1>17, ReadyStep DEF WorkerStep
  <2> HIDE DEF R, RR, U, UU, W, WW, I, II
  <2> QED
    BY <1>1, <1>4, <2>2, <2>3
<1> QED
  BY <1>12, <1>13, <1>14, <1>15, <1>16, <1>17

---------------------------------------------------------------------------
(* The quota                                                               *)

\* The bounds of the model
LEMMA BoundedStep ==
  ASSUME BoundsTyped, [Next]_vars
  PROVE  /\ connected' \in BOOLEAN /\ faults' \in 0..MaxFaults
         /\ restarts' \in 0..MaxRestarts /\ moves' \in 0..MaxMoves
<1>1. /\ faults \in 0..MaxFaults /\ restarts \in 0..MaxRestarts /\ moves \in 0..MaxMoves
      /\ connected \in BOOLEAN /\ MaxFaults \in Nat /\ MaxRestarts \in Nat /\ MaxMoves \in Nat
  BY MediaAssumption DEF BoundsTyped
<1>2. /\ Fault => faults' \in 0..MaxFaults
      /\ Move => moves' \in 0..MaxMoves
  BY <1>1 DEF Fault, Move
<1>3. ASSUME NEW w \in Worker, WorkerStep(w)
      PROVE  /\ UNCHANGED <<connected, restarts, moves>>
             /\ UNCHANGED faults \/ Fault
  BY <1>3, Zenon DEF WorkerStep, Dequeue, ReadMedia, DownloadMedia, UpdateMediaRef,
              ReserveMediaStorage, ReserveIf, PutMedia, MarkMediaReady, CheckMedia,
              DeleteMedia, Record, Finish, FinishWith, boundVars
<1>4. ASSUME NEW u \in Upload, StageUpload(u) \/ UploadStep(u) \/ UseUpload(u) \/ DeleteUpload(u)
      PROVE  /\ UNCHANGED <<connected, restarts, moves>>
             /\ UNCHANGED faults \/ Fault
  BY <1>4 DEF StageUpload, UploadStep, ReserveUpload, InsertUpload, PutUpload, MarkUploadReady,
              DiscardUpload, DiscardTo, ReleaseUpload, UseUpload, UseIf, DeleteUpload, boundVars
<1>5. ASSUME NEW r \in Reader, ReaderStep(r) \/ \E k \in Item : GetMedia(r, k)
      PROVE  UNCHANGED <<connected, restarts, moves, faults>>
  BY <1>5 DEF ReaderStep, GetMedia, OpenObject, MarkMediaRemote, MissingIf,
              MarkMediaUnavailable, Fetch, boundVars
<1>6. ASSUME \/ \E k \in Item : SaveAttachment(k) \/ LoseObject(k) \/ Due(k)
             \/ \E p \in Twins : MergeAttachments(p[1], p[2])
      PROVE  /\ UNCHANGED <<connected, restarts, faults>>
             /\ UNCHANGED moves \/ Move
  BY <1>6, Zenon DEF SaveAttachment, LoseObject, Due, MergeAttachments, MergeIf, boundVars
<1>7. ASSUME ScanStep \/ UNCHANGED vars
      PROVE  /\ UNCHANGED <<connected, restarts, moves>>
             /\ UNCHANGED faults \/ Fault
  BY <1>7 DEF ScanStep, ListPendingMedia, ScanQueue, ListUploadsForCleanup, DeleteObject,
              ClearRecord, ScanNext, vars, boundVars
<1>8. CASE Connection
  <2>1. connected' = ~connected /\ UNCHANGED <<restarts, faults>> /\ (UNCHANGED moves \/ Move)
    BY <1>8 DEF Connection
  <2>2. connected' \in BOOLEAN
    BY <2>1
  <2> QED
    BY <1>1, <1>2, <2>1, <2>2
<1>9. CASE Restart
  <2>1. connected' = FALSE /\ UNCHANGED <<moves, faults>>
        /\ restarts < MaxRestarts /\ restarts' = restarts + 1
    BY <1>9 DEF Restart
  <2>2. connected' \in BOOLEAN
    BY <2>1
  <2> QED
    BY <1>1, <2>1, <2>2
<1> QED
  BY <1>1, <1>2, <1>3, <1>4, <1>5, <1>6, <1>7, <1>8, <1>9 DEF Next

LEMMA ReservationsBounded ==
  ASSUME Typed, BoundsTyped, ReservedInv, ReservationsMatch, ReservationsMatch', [Next]_vars
  PROVE  temp' \in 0..MaxTemp /\ stored' \in 0..MaxTotal
<1>1. temp \in 0..MaxTemp /\ stored \in 0..MaxTotal /\ MaxTemp \in Nat /\ MaxTotal \in Nat
  BY MediaAssumption DEF BoundsTyped
<1>2. temp' \in Nat /\ stored' \in Nat
  <2>1. /\ {w \in Worker : worker'[w].staged = 1} \in SUBSET Worker
        /\ {w \in Worker : worker'[w].held = 1} \in SUBSET Worker
        /\ {u \in Upload : call'[u] \notin {"new", "known", "done"}} \in SUBSET Upload
        /\ {u \in Upload : call'[u] \notin {"new", "reserve", "known", "done"}} \in SUBSET Upload
    OBVIOUS
  <2>2. /\ Cardinality({w \in Worker : worker'[w].staged = 1}) \in Nat
        /\ Cardinality({w \in Worker : worker'[w].held = 1}) \in Nat
        /\ Cardinality({u \in Upload : call'[u] \notin {"new", "known", "done"}}) \in Nat
        /\ Cardinality({u \in Upload : call'[u] \notin {"new", "reserve", "known", "done"}})
             \in Nat
    BY <2>1, CountLess, MediaAssumption
  <2> QED
    BY <2>2 DEF ReservationsMatch
<1>3. HasRoom => stored + 1 <= MaxTotal
  BY <1>1, QuotaCounts, Counts DEF HasRoom
<1>4. ASSUME NEW w \in Worker, WorkerStep(w)
      PROVE  temp' <= MaxTemp /\ stored' <= MaxTotal
  <2>1. /\ UNCHANGED temp \/ (temp < MaxTemp /\ temp' = temp + 1) \/ temp' = temp - 1
        /\ UNCHANGED stored \/ (HasRoom /\ stored' = stored + 1) \/ stored' = stored - 1
    BY <1>1, <1>4, WorkerReserves
  <2> QED
    BY <1>1, <1>3, <2>1
<1>5. ASSUME NEW u \in Upload, StageUpload(u) \/ UploadStep(u) \/ UseUpload(u)
      PROVE  temp' <= MaxTemp /\ stored' <= MaxTotal
  <2>1. /\ UNCHANGED temp \/ (temp < MaxTemp /\ temp' = temp + 1) \/ temp' = temp - 1
        /\ UNCHANGED stored \/ (HasRoom /\ stored' = stored + 1) \/ stored' = stored - 1
    BY <1>5, UploadReserves
  <2> QED
    BY <1>1, <1>3, <2>1
<1>6. CASE Restart
  BY <1>1, <1>6 DEF Restart
<1>7. CASE UNCHANGED <<temp, stored>>
  BY <1>1, <1>7
<1> QED
  BY <1>1, <1>2, <1>4, <1>5, <1>6, <1>7, QuotaFrame DEF Next

LEMMA QuotaInvInit == Init => BoundsTyped /\ QuotaInv
<1> SUFFICES ASSUME Init PROVE BoundsTyped /\ QuotaInv
  OBVIOUS
<1>1. connected \in BOOLEAN
  BY DEF Init
<1>2. BoundsTyped
  BY <1>1, MediaAssumption DEF Init, BoundsTyped
<1>3. ReservedInv
  BY DEF Init, ReservedInv, Idle
<1>4. /\ Staged = {} /\ Held = {} /\ Storing = {} /\ Staging = {} /\ Holding = {}
      /\ Inserting = {} /\ Ready = {} /\ Uploaded = {}
  <2>1. /\ \A w \in Worker : worker[w] = Idle
        /\ \A u \in Upload : call[u] = "new" /\ uploads[u] = "none"
        /\ \A k \in Item : row[k] = NoRow
    BY DEF Init
  <2>2. Idle.pc = "idle" /\ Idle.staged = 0 /\ Idle.held = 0 /\ NoRow.avail = "none"
    BY DEF Idle, NoRow
  <2>3. Staged = {} /\ Held = {} /\ Storing = {}
    BY <2>1, <2>2 DEF Staged, Held, Storing
  <2>4. Staging = {} /\ Holding = {} /\ Inserting = {} /\ Uploaded = {}
    BY <2>1 DEF Staging, Holding, Inserting, Uploaded
  <2>5. Ready = {}
    BY <2>1, <2>2 DEF Ready
  <2> QED
    BY <2>3, <2>4, <2>5
<1>5. temp = 0 /\ stored = 0 /\ Cardinality({}) = 0 /\ MaxTotal \in Nat
  BY FS_EmptySet, MediaAssumption DEF Init
<1>6. ReservationsMatch /\ RoomInv
  BY <1>4, <1>5, QuotaCounts
<1> QED
  BY <1>2, <1>3, <1>6 DEF QuotaInv

LEMMA QuotaInvStep ==
  ASSUME Typed, StoreInv, BoundsTyped, QuotaInv, [Next]_vars
  PROVE  BoundsTyped' /\ QuotaInv'
<1>1. ReservedInv' /\ ReservationsMatch' /\ RoomInv'
  BY ReservedInvStep, ReservationsStep, RoomInvStep DEF QuotaInv
<1>2. BoundsTyped'
  BY <1>1, BoundedStep, ReservationsBounded DEF BoundsTyped, QuotaInv
<1> QED
  BY <1>1, <1>2 DEF QuotaInv

LEMMA QuotaInvHolds == Spec => [](BoundsTyped /\ QuotaInv)
<1> DEFINE Inv == Typed /\ StoreInv /\ BoundsTyped /\ QuotaInv
<1>1. Init => Inv
  BY StoreInvInit, QuotaInvInit
<1>2. Inv /\ [Next]_vars => Inv'
  BY StoreInvStep, QuotaInvStep
<1>3. Inv => BoundsTyped /\ QuotaInv
  OBVIOUS
<1> HIDE DEF Inv
<1> QED
  BY <1>1, <1>2, <1>3, PTL DEF Spec

(* Every variable has its type: the channel keeps to its capacity, and the  *)
(* staging files and the reservations to their limits.                      *)
THEOREM TypesHold == Spec => []TypeOK
<1>1. Typed /\ BoundsTyped => TypeOK
  BY DEF Typed, TypeOK
<1> QED
  BY <1>1, StoreInvHolds, QuotaInvHolds, PTL

(* What is stored stays within max_total_bytes, however many downloads and  *)
(* uploads measure the room at the same time (reserveMediaStorage), and     *)
(* every reservation belongs to one that is under way: each path that ends  *)
(* one gives back what it reserved, once.                                   *)
THEOREM RoomStaysKept == Spec => []RoomIsKept
<1>1. QuotaInv => RoomIsKept
  <2> SUFFICES ASSUME QuotaInv PROVE QuotaHolds
    BY DEF QuotaInv, RoomIsKept
  <2>1. StoredMediaBytes + Cardinality(Storing) + Cardinality(Inserting) <= MaxTotal
    BY DEF QuotaInv, RoomInv, Storing, Inserting
  <2>2. StoredMediaBytes \in Nat /\ MaxTotal \in Nat
    BY QuotaCounts, Counts, MediaAssumption
  <2> QED
    BY <2>1, <2>2, Counts DEF QuotaHolds
<1> QED
  BY <1>1, QuotaInvHolds, PTL
=============================================================================
