--------------------------- MODULE OutgoingSend ---------------------------
(***************************************************************************)
(* Outgoing messages of one account: the API calls SendTextReply and       *)
(* SendMediaReply, the background media worker, echoes from the provider,  *)
(* the logout of the account, and the restart of the daemon.               *)
(*                                                                         *)
(* A call that creates a message creates one message with a provider ID of *)
(* its own, so a message is named by the call (Request) that reserved it.  *)
(* A payload is a text or an upload; the kind of the message follows from  *)
(* it and the request hash is the payload itself.  Time is abstracted: a   *)
(* job whose retry is delayed counts as due, however late a scan finds it. *)
(***************************************************************************)
EXTENDS Integers, Sequences, FiniteSets

CONSTANTS Request,       \* API calls, and the messages they reserve
          Key,           \* idempotency keys
          Upload,        \* uploads that are ready for a media message
          Text,          \* texts
          Worker,        \* the goroutines of mediaSendWorker
          QueueCap,      \* capacity of the channel sendQueue
          MaxAttempts,   \* uploads tried before the message fails (5)
          MaxSession,    \* bound on the number of logins
          MaxRestarts,   \* bound on the number of restarts
          MaxFaults,     \* bound on the number of failing database writes
          None

ASSUME SendAssumption ==
  /\ QueueCap \in Nat \ {0}
  /\ MaxAttempts \in Nat \ {0}
  /\ MaxSession \in Nat \ {0}
  /\ MaxRestarts \in Nat
  /\ MaxFaults \in Nat
  /\ Upload \cap Text = {}
  /\ None \notin Request \cup Key \cup Upload \cup Text

VARIABLES
  \* the database
  msg,        \* state of each message, "none" before it is reserved
  job,        \* phase of its outgoing_media_jobs row, "none" without a row
  attempts,   \* the row's attempts
  keyOwner,   \* send_keys: the message an idempotency key stands for
  upload,     \* "ready", "used" by a message, or "gone" (expired, deleted)
  dbIdentity, \* accounts.provider_identity: the login that wrote it, or 0
  \* the daemon's memory
  call,       \* progress of each API call
  worker,     \* progress of each media worker
  listed,     \* IDs a scan has read and not yet queued
  sendq,      \* the channel sendQueue
  state,      \* rt.state; "offline" is any state but these two
  session,    \* rt.session: number of the login that opened it, 0 is nil
  handler,    \* progress of the LoggedOut handler, which holds rt.eventMu
  \* the provider and the bounds
  calls,      \* calls of the provider's send operation, per message
  accepted,   \* messages the provider accepted
  logins, restarts, faults

dbVars      == <<msg, job, attempts, keyOwner, upload, dbIdentity>>
queueVars   == <<worker, listed, sendq>>
accountVars == <<state, session, handler, logins>>
otherVars   == <<calls, accepted, restarts, faults>>
vars == <<dbVars, call, queueVars, accountVars, otherVars>>

Payload   == Upload \cup Text
MsgState  == {"none", "queued", "sent", "failed", "outcome_unknown"}
Phase     == {"none", "queued", "uploading", "sending"}
Result    == {"sent", "outcome_unknown", "failed"}
CallPC    == {"idle", "lookup", "read", "reserve", "send", "complete", "done"}
WorkerPC  == {"idle", "read", "claim", "upload", "check", "begin", "send",
              "complete", "retry", "requeue", "fail", "done"}
Cause     == {"error", "invalid", "not_connected"}

Media(m) == call[m].payload \in Upload

\* The IDs in sendInflight: queued in the channel or held by a worker.
Inflight == {sendq[i] : i \in 1..Len(sendq)} \cup
            {worker[w].msg : w \in {v \in Worker : worker[v].pc # "idle"}}

IdleCall   == [pc |-> "idle", key |-> None, payload |-> None, session |-> 0,
               result |-> "sent", answer |-> None]
IdleWorker == [pc |-> "idle", msg |-> None, session |-> 0, attempts |-> 0,
               cause |-> "error", result |-> "sent"]

Init ==
  /\ msg = [m \in Request |-> "none"]
  /\ job = [m \in Request |-> "none"]
  /\ attempts = [m \in Request |-> 0]
  /\ keyOwner = [k \in Key |-> None]
  /\ upload = [u \in Upload |-> "ready"]
  /\ call = [r \in Request |-> IdleCall]
  /\ worker = [w \in Worker |-> IdleWorker]
  /\ listed = {}
  /\ sendq = <<>>
  /\ state = "offline" /\ session = 1 /\ dbIdentity = 1 /\ logins = 1
  /\ handler = "idle"
  /\ calls = [m \in Request |-> 0]
  /\ accepted = {}
  /\ restarts = 0
  /\ faults = 0

\* A failing database write, at most MaxFaults of them.
Fault == faults < MaxFaults /\ faults' = faults + 1

---------------------------------------------------------------------------
(* The API call: SendTextReply and SendMediaReply                          *)

StartWith(r, keys) ==
  /\ call[r].pc = "idle"
  /\ \E k \in keys, p \in Payload :
       call' = [call EXCEPT ![r] = [@ EXCEPT !.pc = "lookup", !.key = k, !.payload = p]]
  /\ UNCHANGED <<dbVars, queueVars, accountVars, otherVars>>

StartSend(r)       == StartWith(r, Key)

Answer(r, a) == call' = [call EXCEPT ![r] = [@ EXCEPT !.pc = "done", !.answer = a]]

\* What a used key answers: the saved message, or ErrIdempotency (None)
\* when it stands for another request.
SavedUnchecked(r) == keyOwner[call[r].key]  \* a mutant
Saved(r) == LET o == keyOwner[call[r].key] IN
            IF call[o].payload = call[r].payload THEN o ELSE None

LookupSend(r) ==
  /\ call[r].pc = "lookup"
  /\ IF keyOwner[call[r].key] # None
       THEN Answer(r, Saved(r))
       ELSE call' = [call EXCEPT ![r].pc = "read"]
  /\ UNCHANGED <<dbVars, queueVars, accountVars, otherVars>>

\* rt.state and rt.session are read once; PrepareMessage draws a fresh ID.
ReadSession(r) ==
  /\ call[r].pc = "read"
  /\ IF state = "connected" /\ session # 0
       THEN call' = [call EXCEPT ![r] = [@ EXCEPT !.pc = "reserve", !.session = session]]
       ELSE Answer(r, None)
  /\ UNCHANGED <<dbVars, queueVars, accountVars, otherVars>>

Insert(r) ==
  LET k == call[r].key  p == call[r].payload IN
  /\ msg' = [msg EXCEPT ![r] = "queued"]
  /\ keyOwner' = [keyOwner EXCEPT ![k] = r]
  /\ IF p \in Upload
       THEN /\ job' = [job EXCEPT ![r] = "queued"]
            /\ upload' = [upload EXCEPT ![p] = "used"]
            /\ Answer(r, r)
       ELSE /\ call' = [call EXCEPT ![r].pc = "send"]
            /\ UNCHANGED <<job, upload>>

\* One transaction: the key is looked up again, and the message, its key and
\* (media) its job are inserted while the upload row is consumed.
ReserveIf(r, used, ready) ==
  /\ call[r].pc = "reserve"
  /\ \/ used /\ Answer(r, Saved(r)) /\ UNCHANGED <<msg, job, keyOwner, upload>>
     \/ ~used /\ ~ready /\ Answer(r, None)
        /\ UNCHANGED <<msg, job, keyOwner, upload>>
     \/ ~used /\ ready /\ Insert(r)
  /\ UNCHANGED <<attempts, dbIdentity, queueVars, accountVars, otherVars>>

KeyUsed(r) == keyOwner[call[r].key] # None
Ready(r)   == call[r].payload \in Upload => upload[call[r].payload] = "ready"

ReserveUnlooked(r) == ReserveIf(r, FALSE, Ready(r))     \* a mutant
Reserve(r) == ReserveIf(r, KeyUsed(r), Ready(r))

\* Reading or writing the database fails, or the request is cancelled.
CallError(r) ==
  /\ call[r].pc \in {"lookup", "read", "reserve"}
  /\ Fault
  /\ Answer(r, None)
  /\ UNCHANGED <<dbVars, queueVars, accountVars, calls, accepted, restarts>>

\* session.SendText and session.SendMedia: a request that is invalid fails
\* before the provider is called; otherwise the provider is called once, it
\* may accept the message, and the answer may still be an error.
Outcome(m, result) ==
  \/ /\ result = "failed"
     /\ UNCHANGED <<calls, accepted>>
  \/ /\ result \in {"sent", "outcome_unknown"}
     /\ calls' = [calls EXCEPT ![m] = @ + 1]
     /\ accepted' = accepted \cup {m}
  \/ /\ result = "outcome_unknown"
     /\ calls' = [calls EXCEPT ![m] = @ + 1]
     /\ UNCHANGED accepted

SendText(r) ==
  /\ call[r].pc = "send"
  /\ \E result \in Result :
       /\ Outcome(r, result)
       /\ call' = [call EXCEPT ![r] = [@ EXCEPT !.pc = "complete", !.result = result]]
  /\ UNCHANGED <<dbVars, queueVars, accountVars, restarts, faults>>

\* The result is recorded unless an echo already settled the message; when
\* the write fails the call returns an error and the message stays queued.
CompleteFrom(r, states) ==
  /\ call[r].pc = "complete"
  /\ \/ /\ msg' = [msg EXCEPT ![r] = IF @ \in states THEN call[r].result ELSE @]
        /\ Answer(r, r)
        /\ UNCHANGED faults
     \/ /\ Fault
        /\ Answer(r, None)
        /\ UNCHANGED msg
  /\ UNCHANGED <<job, attempts, keyOwner, upload, dbIdentity, queueVars,
                 accountVars, calls, accepted, restarts>>

CompleteSettled(r) == CompleteFrom(r, MsgState)  \* a mutant
CompleteSend(r)    == CompleteFrom(r, {"queued"})

\* An unused upload expires or is deleted.
DropUpload(u) ==
  /\ upload[u] = "ready"
  /\ upload' = [upload EXCEPT ![u] = "gone"]
  /\ UNCHANGED <<msg, job, attempts, keyOwner, dbIdentity, call, queueVars,
                 accountVars, otherVars>>

---------------------------------------------------------------------------
(* The media scanner and the workers                                       *)

\* ListPendingMediaSends; the scanner wakes every 15 seconds.
ScanList ==
  /\ listed = {}
  /\ listed' = {m \in Request : job[m] = "queued" /\ msg[m] = "queued"}
  /\ listed' # {}
  /\ UNCHANGED <<dbVars, call, worker, sendq, accountVars, otherVars>>

\* queueMediaSend: an ID in flight is skipped, a full channel ends the scan.
ScanQueue(m) ==
  /\ m \in listed
  /\ IF m \in Inflight
       THEN listed' = listed \ {m} /\ UNCHANGED sendq
       ELSE IF Len(sendq) < QueueCap
         THEN listed' = listed \ {m} /\ sendq' = Append(sendq, m)
         ELSE listed' = {} /\ UNCHANGED sendq
  /\ UNCHANGED <<dbVars, call, worker, accountVars, otherVars>>

Dequeue(w) ==
  /\ worker[w].pc = "idle"
  /\ sendq # <<>>
  /\ sendq' = Tail(sendq)
  /\ worker' = [worker EXCEPT ![w] = [IdleWorker EXCEPT !.pc = "read",
                                                      !.msg = Head(sendq)]]
  /\ UNCHANGED <<dbVars, call, listed, accountVars, otherVars>>

Goto(w, pc) == worker' = [worker EXCEPT ![w].pc = pc]
Retry(w, c) == worker' = [worker EXCEPT ![w] = [@ EXCEPT !.pc = "retry", !.cause = c]]

ReadAccount(w) ==
  /\ worker[w].pc = "read"
  /\ IF state = "connected" /\ session # 0
       THEN worker' = [worker EXCEPT ![w] = [@ EXCEPT !.pc = "claim", !.session = session]]
       ELSE Goto(w, "done")
  /\ UNCHANGED <<dbVars, call, listed, sendq, accountVars, otherVars>>

\* ClaimMediaSend takes a queued job of a queued message, or gives up.
Claim(w) ==
  LET m == worker[w].msg IN
  /\ worker[w].pc = "claim"
  /\ \/ /\ job[m] = "queued" /\ msg[m] = "queued"
        /\ job' = [job EXCEPT ![m] = "uploading"]
        /\ worker' = [worker EXCEPT ![w] = [@ EXCEPT !.pc = "upload",
                                                   !.attempts = attempts[m]]]
        /\ UNCHANGED faults
     \/ /\ ~(job[m] = "queued" /\ msg[m] = "queued")
        /\ Goto(w, "done")
        /\ UNCHANGED <<job, faults>>
     \/ /\ Fault
        /\ Goto(w, "done")
        /\ UNCHANGED job
  /\ UNCHANGED <<msg, attempts, keyOwner, upload, dbIdentity, call, listed,
                 sendq, accountVars, calls, accepted, restarts>>

\* Staging space, the stored object, and session.UploadMedia: any may fail; a
\* missing or changed object fails the message for good.
UploadMedia(w) ==
  /\ worker[w].pc = "upload"
  /\ \/ Goto(w, "check")
     \/ Goto(w, "fail")
     \/ Retry(w, "error")
     \/ Retry(w, "invalid")
  /\ UNCHANGED <<dbVars, call, listed, sendq, accountVars, otherVars>>

StillConnected(w) ==
  /\ worker[w].pc = "check"
  /\ IF state = "connected" /\ session = worker[w].session
       THEN Goto(w, "begin")
       ELSE Retry(w, "not_connected")
  /\ UNCHANGED <<dbVars, call, listed, sendq, accountVars, otherVars>>

\* BeginMediaSend makes the job unrepeatable before the provider is called.
BeginMediaSend(w) ==
  LET m == worker[w].msg IN
  /\ worker[w].pc = "begin"
  /\ \/ /\ job[m] = "uploading"
        /\ job' = [job EXCEPT ![m] = "sending"]
        /\ Goto(w, "send")
        /\ UNCHANGED faults
     \/ /\ job[m] # "uploading"
        /\ Retry(w, "error")
        /\ UNCHANGED <<job, faults>>
     \/ /\ Fault
        /\ Retry(w, "error")
        /\ UNCHANGED job
  /\ UNCHANGED <<msg, attempts, keyOwner, upload, dbIdentity, call, listed,
                 sendq, accountVars, calls, accepted, restarts>>

SendMedia(w) ==
  /\ worker[w].pc = "send"
  /\ \E result \in Result :
       /\ Outcome(worker[w].msg, result)
       /\ worker' = [worker EXCEPT ![w] = [@ EXCEPT !.pc = "complete",
                                                  !.result = result]]
  /\ UNCHANGED <<dbVars, call, listed, sendq, accountVars, restarts, faults>>

\* CompleteMediaSend: only a queued message takes the result; the job goes.
CompleteMediaSend(w, pc, result) ==
  LET m == worker[w].msg IN
  /\ worker[w].pc = pc
  /\ \/ /\ msg' = [msg EXCEPT ![m] = IF @ = "queued" THEN result ELSE @]
        /\ job' = [job EXCEPT ![m] = "none"]
        /\ UNCHANGED faults
     \/ /\ Fault
        /\ UNCHANGED <<msg, job>>
  /\ Goto(w, "done")
  /\ UNCHANGED <<attempts, keyOwner, upload, dbIdentity, call, listed, sendq,
                 accountVars, calls, accepted, restarts>>

CompleteSendMedia(w) == CompleteMediaSend(w, "complete", worker[w].result)
FailMediaSend(w)     == CompleteMediaSend(w, "fail", "failed")

\* retryMediaSend up to its write: after a logout the job is left to the
\* LoggedOut handler; only a failure while connected counts as an attempt.
RetryUnless(w, left) ==
  LET counts == state = "connected" /\ worker[w].cause # "not_connected"
      next   == worker[w].attempts + IF counts THEN 1 ELSE 0
  IN
  /\ worker[w].pc = "retry"
  /\ CASE left -> Goto(w, "done")
       [] ~left /\ (worker[w].cause = "invalid" \/ next >= MaxAttempts)
            -> Goto(w, "fail")
       [] OTHER -> worker' = [worker EXCEPT ![w] = [@ EXCEPT !.pc = "requeue",
                                                           !.attempts = next]]
  /\ UNCHANGED <<dbVars, call, listed, sendq, accountVars, otherVars>>

RetryMediaSend(w) == RetryUnless(w, state = "needs_login")

\* The write of retryMediaSend: only an uploading job goes back to queued.
RequeueAs(w, phase) ==
  LET m == worker[w].msg IN
  /\ worker[w].pc = "requeue"
  /\ \/ /\ job[m] = "uploading"
        /\ job' = [job EXCEPT ![m] = phase]
        /\ attempts' = [attempts EXCEPT ![m] = worker[w].attempts]
        /\ UNCHANGED faults
     \/ /\ job[m] # "uploading"
        /\ UNCHANGED <<job, attempts, faults>>
     \/ /\ Fault
        /\ UNCHANGED <<job, attempts>>
  /\ Goto(w, "done")
  /\ UNCHANGED <<msg, keyOwner, upload, dbIdentity, call, listed, sendq,
                 accountVars, calls, accepted, restarts>>

RequeueUploading(w) == RequeueAs(w, "uploading")  \* a mutant
Requeue(w)          == RequeueAs(w, "queued")

\* mediaSendWorker deletes the ID from sendInflight and takes the next one.
Finish(w) ==
  /\ worker[w].pc = "done"
  /\ worker' = [worker EXCEPT ![w] = IdleWorker]
  /\ UNCHANGED <<dbVars, call, listed, sendq, accountVars, otherVars>>

---------------------------------------------------------------------------
(* The account: the part of onEvent, StartLogin and finishLogin that       *)
(* outgoing messages depend on (AccountSession models it in full)          *)

\* EventConnected; a new login first writes its identity.
Connected ==
  /\ handler = "idle"
  /\ session # 0
  /\ \/ /\ state' = "connected"
        /\ dbIdentity' = session
        /\ UNCHANGED faults
     \/ /\ dbIdentity # session
        /\ Fault
        /\ state' = "offline"
        /\ UNCHANGED dbIdentity
  /\ UNCHANGED <<msg, job, attempts, keyOwner, upload, call, queueVars,
                 session, handler, logins, calls, accepted, restarts>>

\* EventDisconnected and EventError.
Offline ==
  /\ handler = "idle"
  /\ state = "connected"
  /\ state' = "offline"
  /\ UNCHANGED <<dbVars, call, queueVars, session, handler, logins, otherVars>>

\* EventLoggedOut, first the memory ...
LoggedOut ==
  /\ handler = "idle"
  /\ session # 0
  /\ state' = "needs_login"
  /\ session' = 0
  /\ handler' = "clear"
  /\ UNCHANGED <<dbVars, call, queueVars, logins, otherVars>>

\* ... then ClearIdentity, whose failure ends the handler ...
ClearIdentity ==
  /\ handler = "clear"
  /\ \/ /\ dbIdentity' = 0
        /\ handler' = "fail"
        /\ UNCHANGED <<state, faults>>
     \/ /\ Fault
        /\ state' = "offline"
        /\ handler' = "idle"
        /\ UNCHANGED dbIdentity
  /\ UNCHANGED <<msg, job, attempts, keyOwner, upload, call, queueVars,
                 session, logins, calls, accepted, restarts>>

\* ... then FailMediaSendsForAccount, in one transaction.
FailPending(unsure) ==
  /\ handler = "fail"
  /\ handler' = "idle"
  /\ \/ /\ msg' = [m \in Request |->
                    IF msg[m] # "queued" \/ job[m] = "none" THEN msg[m]
                    ELSE IF job[m] = "sending" THEN unsure
                    ELSE "failed"]
        /\ job' = [m \in Request |-> "none"]
        /\ UNCHANGED faults
     \/ /\ Fault
        /\ UNCHANGED <<msg, job>>
  /\ UNCHANGED <<attempts, keyOwner, upload, dbIdentity, call, queueVars,
                 state, session, logins, calls, accepted, restarts>>

FailMediaSends == FailPending("outcome_unknown")

\* StartLogin does not take eventMu: it may run inside the LoggedOut handler.
StartLogin ==
  /\ session = 0
  /\ logins < MaxSession
  /\ logins' = logins + 1
  /\ session' = logins'
  /\ state' = "offline"
  /\ UNCHANGED <<dbVars, call, queueVars, handler, otherVars>>

\* finishLogin with an error before the account is paired.
LoginFails ==
  /\ handler = "idle"
  /\ session # 0
  /\ dbIdentity # session
  /\ session' = 0
  /\ state' = "offline"
  /\ UNCHANGED <<dbVars, call, queueVars, handler, logins, otherVars>>

---------------------------------------------------------------------------
\* The echo of a message, or its copy in imported history, settles it.
Echo(m) ==
  /\ m \in accepted
  /\ handler = "idle"
  /\ session # 0
  /\ msg' = [msg EXCEPT ![m] = IF @ \in {"queued", "outcome_unknown"}
                               THEN "sent" ELSE @]
  /\ job' = [job EXCEPT ![m] = "none"]
  /\ UNCHANGED <<attempts, keyOwner, upload, dbIdentity, call, queueVars,
                 accountVars, otherVars>>

\* The daemon stops at any point; recoverSends settles what was in flight
\* when it opens the database again, and Start restores the account.
Recover(asking) ==
  /\ restarts < MaxRestarts
  /\ restarts' = restarts + 1
  /\ msg' = [m \in Request |-> IF msg[m] = "queued" /\ job[m] \in asking
                                 THEN "outcome_unknown" ELSE msg[m]]
  /\ job' = [m \in Request |-> IF msg[m] # "queued" \/ job[m] \in asking
                                 THEN "none" ELSE "queued"]
  /\ call' = [r \in Request |-> IF call[r].pc \in {"idle", "done"} THEN call[r]
                                 ELSE [call[r] EXCEPT !.pc = "done"]]
  /\ worker' = [w \in Worker |-> IdleWorker]
  /\ listed' = {}
  /\ sendq' = <<>>
  /\ session' = dbIdentity
  /\ state' = IF dbIdentity = 0 THEN "needs_login" ELSE "offline"
  /\ handler' = "idle"
  /\ UNCHANGED <<attempts, keyOwner, upload, dbIdentity, logins, calls,
                 accepted, faults>>

RestartResends == Recover({"none"})  \* a mutant
Restart        == Recover({"none", "sending"})

CallStep(r) == \/ StartSend(r) \/ LookupSend(r) \/ ReadSession(r) \/ Reserve(r)
               \/ CallError(r) \/ SendText(r) \/ CompleteSend(r)

WorkerStep(w) ==
  \/ Dequeue(w) \/ ReadAccount(w) \/ Claim(w) \/ UploadMedia(w)
  \/ StillConnected(w) \/ BeginMediaSend(w) \/ SendMedia(w)
  \/ CompleteSendMedia(w) \/ FailMediaSend(w) \/ RetryMediaSend(w)
  \/ Requeue(w) \/ Finish(w)

AccountStep == \/ Connected \/ Offline \/ LoggedOut \/ ClearIdentity
               \/ FailMediaSends \/ StartLogin \/ LoginFails

Next == \/ \E r \in Request : CallStep(r) \/ ScanQueue(r) \/ Echo(r)
        \/ \E w \in Worker : WorkerStep(w)
        \/ \E u \in Upload : DropUpload(u)
        \/ ScanList
        \/ AccountStep
        \/ Restart

Spec == Init /\ [][Next]_vars

\* Goroutines that can run do run; nothing forces the user, the provider, the
\* network or a crash to act.
Fairness ==
  /\ \A w \in Worker : WF_vars(WorkerStep(w))
  /\ WF_vars(ScanList)
  /\ WF_vars(\E m \in Request : ScanQueue(m))
  /\ WF_vars(ClearIdentity \/ FailMediaSends)

FairSpec == Spec /\ Fairness

---------------------------------------------------------------------------
(* Properties                                                              *)

CallType   == [pc : CallPC, key : Key \cup {None}, payload : Payload \cup {None},
               session : Nat, result : Result, answer : Request \cup {None}]
WorkerType == [pc : WorkerPC, msg : Request \cup {None}, session : Nat,
               attempts : Nat, cause : Cause, result : Result]

CallsTyped ==
  /\ call \in [Request -> CallType]
  /\ \A r \in Request : call[r].pc # "idle" =>
                           call[r].key \in Key /\ call[r].payload \in Payload

WorkersTyped ==
  /\ worker \in [Worker -> WorkerType]
  /\ \A w \in Worker : worker[w].pc # "idle" => worker[w].msg \in Request

MemoryTyped ==
  /\ listed \subseteq Request
  /\ sendq \in Seq(Request)
  /\ state \in {"connected", "offline", "needs_login"}
  /\ handler \in {"idle", "clear", "fail"}
  /\ session \in Nat /\ logins \in Nat

DatabaseTyped ==
  /\ msg \in [Request -> MsgState]
  /\ job \in [Request -> Phase]
  /\ attempts \in [Request -> Nat]
  /\ keyOwner \in [Key -> Request \cup {None}]
  /\ upload \in [Upload -> {"ready", "used", "gone"}]
  /\ dbIdentity \in Nat

ProviderTyped ==
  /\ calls \in [Request -> Nat]
  /\ accepted \subseteq Request
  /\ restarts \in Nat /\ faults \in Nat

\* Every variable has its type, and a call or worker past its first step
\* names the key, payload or message it works on.
TypeOK == DatabaseTyped /\ CallsTyped /\ WorkersTyped /\ MemoryTyped
          /\ ProviderTyped

\* The provider's send operation is called at most once for a message,
\* whatever upload retries, logouts and restarts happen.
AtMostOnce == \A m \in Request : calls[m] <= 1

\* A message that reads "failed" was never handed to the provider, so the
\* user may send it again without a duplicate.
FailedNotAsked == \A m \in Request : msg[m] = "failed" => calls[m] = 0

\* An idempotency key stands for one message: two calls with one key create
\* one message, also when they race between LookupSend and Reserve.
OneMessagePerKey ==
  \A r, s \in Request :
    msg[r] # "none" /\ msg[s] # "none" /\ call[r].key = call[s].key => r = s

\* An upload is sent by one message only, whatever keys name it.
UploadSentOnce ==
  \A r, s \in Request :
    /\ msg[r] # "none" /\ msg[s] # "none"
    /\ Media(r) /\ call[r].payload = call[s].payload
    => r = s

\* A call is answered with a message only if that message carries its key and
\* its payload: a key reused for something else is never answered with it.
AnswerMatches ==
  \A r \in Request : LET a == call[r].answer IN
    a # None => /\ keyOwner[call[r].key] = a
                /\ call[a].payload = call[r].payload

\* The life of each message follows SendPromise.
Promise == INSTANCE SendPromise WITH
             Message <- Request, status <- msg, accepted <- accepted,
             asked <- {m \in Request : calls[m] > 0}
KeepsPromise == Promise!Spec

\* While the account stays connected every media message is settled.
Pending(m) == msg[m] = "queued" /\ job[m] # "none"
MediaSettles ==
  <>[](state = "connected") => \A m \in Request : Pending(m) ~> ~Pending(m)

\* docs/api/usage.md:17 tells a client to poll a queued media message "until
\* its state is sent, failed, or outcome_unknown": the polling ends also when
\* the account settles as logged out, which fails its pending messages.
PollingEnds ==
  <>[](state = "connected") \/ <>[](state = "needs_login")
    => \A m \in Request : Pending(m) ~> ~Pending(m)

---------------------------------------------------------------------------
(* The inductive invariant behind AtMostOnce, FailedNotAsked,              *)
(* OneMessagePerKey, UploadSentOnce and KeepsPromise                       *)

\* Workers that hold a claimed job.
Claimed(w) == worker[w].pc \in {"upload", "check", "begin", "send", "complete",
                                "retry", "requeue", "fail"}
BeforeSend(w) == Claimed(w) /\ worker[w].pc \notin {"send", "complete"}

\* A call that has not reserved leaves no trace; a reservation owns its key
\* and, for media, its upload.
ReservationInv ==
  /\ \A r \in Request : call[r].pc \in {"idle", "lookup", "read", "reserve"}
       => msg[r] = "none"
  /\ \A r \in Request : msg[r] # "none" =>
       /\ call[r].key \in Key /\ call[r].payload \in Payload
       /\ keyOwner[call[r].key] = r
       /\ Media(r) => upload[call[r].payload] = "used"
  /\ UploadSentOnce

\* A message, its job and the calls made for it.
MessageInv ==
  \A m \in Request :
    /\ calls[m] <= 1
    /\ m \in accepted => calls[m] = 1
    /\ msg[m] \in {"none", "failed"} => calls[m] = 0
    /\ msg[m] = "sent" => m \in accepted
    /\ job[m] # "none" => msg[m] = "queued" /\ Media(m)
    /\ job[m] \in {"queued", "uploading"} => calls[m] = 0

\* A text call between its reservation and its result.
TextInv ==
  \A r \in Request :
    /\ call[r].pc \in {"send", "complete"} => ~Media(r) /\ msg[r] \in {"queued", "sent"}
    /\ call[r].pc = "send" => msg[r] = "queued" /\ calls[r] = 0
    /\ call[r].pc = "complete" /\ call[r].result = "failed" => calls[r] = 0
    /\ call[r].pc = "complete" /\ call[r].result = "sent" => r \in accepted

\* A worker between its claim and its result: it alone holds the message.
WorkerInv ==
  \A w \in Worker : Claimed(w) => LET m == worker[w].msg IN
    /\ msg[m] # "none" /\ Media(m)
    /\ job[m] # "queued"
    /\ BeforeSend(w) => calls[m] = 0 /\ job[m] # "sending"
    /\ worker[w].pc = "send" => /\ calls[m] = 0
                                /\ job[m] \in {"sending", "none"}
                                /\ msg[m] \in {"queued", "outcome_unknown"}
    /\ worker[w].pc = "complete" =>
         /\ job[m] \in {"sending", "none"}
         /\ worker[w].result = "failed" => calls[m] = 0
         /\ worker[w].result = "sent" => m \in accepted
    /\ \A v \in Worker : Claimed(v) /\ worker[v].msg = m => v = w

SendInv == ReservationInv /\ MessageInv /\ TextInv /\ WorkerInv

\* A key stands for a call that named it, and keeps standing for it; a call that
\* is not done has no answer yet.
AnswerInv ==
  /\ \A k \in Key : keyOwner[k] # None => /\ call[keyOwner[k]].key = k
                                         /\ call[keyOwner[k]].pc # "idle"
  /\ \A r \in Request : call[r].pc # "done" => call[r].answer = None
  /\ AnswerMatches
=============================================================================
