------------------------ MODULE OutgoingSend_proofs ------------------------
(***************************************************************************)
(* Proofs about OutgoingSend, for every number of calls, keys, uploads and *)
(* workers: type correctness, the inductive invariant SendInv, the safety  *)
(* properties it implies, and the refinement of SendPromise.               *)
(*                                                                         *)
(* An action replaces the record of one call or one worker.  What such a   *)
(* replacement does is stated once (CallSet, AnswerSets, WorkerSet, ...),  *)
(* so that the steps below never look inside a record.                     *)
(***************************************************************************)
EXTENDS OutgoingSend, TLAPS

---------------------------------------------------------------------------
(* Type correctness                                                        *)

\* A call may take any record of its type that names a key and a payload.
LEMMA CallTyped == ASSUME CallsTyped, NEW r \in Request, NEW c \in CallType,
                          c.key \in Key, c.payload \in Payload,
                          call' = [call EXCEPT ![r] = c]
                   PROVE  CallsTyped'
BY DEF CallsTyped

\* A call past its first step has a typed record that names a key and a
\* payload.
LEMMA BusyCall == ASSUME CallsTyped, NEW r \in Request, call[r].pc # "idle"
                  PROVE  /\ call[r] \in CallType
                         /\ call[r].key \in Key /\ call[r].payload \in Payload
BY DEF CallsTyped

\* Answering a call keeps the types.
LEMMA AnswerTyped == ASSUME CallsTyped, NEW r \in Request, call[r].pc # "idle",
                            NEW a \in Request \cup {None}, Answer(r, a)
                     PROVE  CallsTyped'
BY DEF Answer, CallsTyped, CallType, CallPC

\* So does moving a call to its next step.
LEMMA CallGotoTyped ==
  ASSUME CallsTyped, NEW r \in Request, call[r].pc # "idle",
         NEW pc \in CallPC, call' = [call EXCEPT ![r].pc = pc]
  PROVE  CallsTyped'
BY DEF CallsTyped, CallType, CallPC

\* Saved answers a message or None.
LEMMA SavedType == ASSUME TypeOK, NEW r \in Request, call[r].pc # "idle"
                   PROVE  Saved(r) \in Request \cup {None}
<1>1. call[r].key \in Key
  BY BusyCall DEF TypeOK
<1> QED
  BY <1>1 DEF TypeOK, DatabaseTyped, Saved

\* A worker may take any record of its type that names a message.
LEMMA WorkerTyped == ASSUME WorkersTyped, NEW w \in Worker, NEW x \in WorkerType,
                            x.pc # "idle" => x.msg \in Request,
                            worker' = [worker EXCEPT ![w] = x]
                     PROVE  WorkersTyped'
BY DEF WorkersTyped

LEMMA GotoTyped == ASSUME WorkersTyped, NEW w \in Worker, worker[w].pc # "idle",
                          NEW pc \in WorkerPC, Goto(w, pc)
                   PROVE  WorkersTyped'
BY DEF WorkersTyped, WorkerType, WorkerPC, Goto

LEMMA RetryTyped == ASSUME WorkersTyped, NEW w \in Worker, worker[w].pc # "idle",
                           NEW c \in Cause, Retry(w, c)
                    PROVE  WorkersTyped'
BY DEF WorkersTyped, WorkerType, WorkerPC, Retry

\* The initial state has the types.
LEMMA InitType == Init => TypeOK
<1> SUFFICES ASSUME Init PROVE TypeOK
  OBVIOUS
<1> USE DEF Init
<1>1. DatabaseTyped
  BY DEF DatabaseTyped, MsgState, Phase
<1>2. CallsTyped
  BY DEF CallsTyped, CallType, IdleCall, CallPC, Result
<1>3. WorkersTyped
  BY DEF WorkersTyped, WorkerType, IdleWorker, WorkerPC, Result, Cause
<1>4. MemoryTyped /\ ProviderTyped
  BY DEF MemoryTyped, ProviderTyped
<1> QED
  BY <1>1, <1>2, <1>3, <1>4 DEF TypeOK

\* The steps of an API call keep the types.
LEMMA CallStepType == ASSUME TypeOK, NEW r \in Request, CallStep(r)
                      PROVE  TypeOK'
<1>0. /\ DatabaseTyped /\ CallsTyped /\ WorkersTyped /\ MemoryTyped
      /\ ProviderTyped
  BY DEF TypeOK
<1>1. WorkersTyped' /\ MemoryTyped'
  BY <1>0, Zenon
     DEF CallStep, StartSend, StartWith, LookupSend, ReadSession, Reserve,
         ReserveIf, Insert, KeyUsed, Ready, CallError,
     SendText, CompleteSend, CompleteFrom, WorkersTyped, MemoryTyped, queueVars, accountVars
<1>2. CASE StartSend(r)
  <2>1. PICK k \in Key, p \in Payload :
          call' = [call EXCEPT ![r] = [@ EXCEPT !.pc = "lookup", !.key = k,
                                                !.payload = p]]
    BY <1>2 DEF StartSend, StartWith
  <2>2. CallsTyped'
    BY <1>0, <2>1 DEF CallsTyped, CallType, CallPC
  <2> QED
    BY <1>0, <1>1, <1>2, <2>2
    DEF StartSend, StartWith, dbVars, otherVars, TypeOK, DatabaseTyped, ProviderTyped
<1>3. CASE LookupSend(r)
  <2>1. CallsTyped'
    BY <1>0, <1>3, SavedType, AnswerTyped, CallGotoTyped DEF LookupSend, CallPC
  <2> QED
    BY <1>0, <1>1, <1>3, <2>1
    DEF LookupSend, dbVars, otherVars, TypeOK, DatabaseTyped, ProviderTyped
<1>4. CASE ReadSession(r)
  <2>1. CASE Answer(r, None)
    <3>1. CallsTyped'
      BY <1>0, <1>4, <2>1, AnswerTyped DEF ReadSession
    <3> QED
      BY <1>0, <1>1, <1>4, <3>1
      DEF ReadSession, dbVars, otherVars, TypeOK, DatabaseTyped, ProviderTyped
  <2>2. CASE call' = [call EXCEPT ![r] = [@ EXCEPT !.pc = "reserve",
                                                   !.session = session]]
    <3>1. call[r].pc # "idle" /\ session \in Nat
      BY <1>0, <1>4 DEF ReadSession, MemoryTyped
    <3>2. CallsTyped'
      BY <1>0, <2>2, <3>1 DEF CallsTyped, CallType, CallPC
    <3> QED
      BY <1>0, <1>1, <1>4, <3>2
      DEF ReadSession, dbVars, otherVars, TypeOK, DatabaseTyped, ProviderTyped
  <2> QED
    BY <1>4, <2>1, <2>2 DEF ReadSession
<1>5. CASE Reserve(r)
  <2>1. call[r].pc # "idle" /\ call[r].key \in Key /\ call[r].payload \in Payload
    BY <1>0, <1>5, BusyCall DEF Reserve, ReserveIf, Insert, KeyUsed, Ready
  <2>2. CallsTyped'
    BY <1>0, <1>5, <2>1, SavedType, AnswerTyped, CallGotoTyped
       DEF Reserve, ReserveIf, Insert, KeyUsed, Ready, CallPC
  <2>3. DatabaseTyped'
    BY <1>0, <1>5, <2>1
       DEF Reserve, ReserveIf, Insert, KeyUsed, Ready, DatabaseTyped, MsgState,
           Phase, Payload
  <2> QED
    BY <1>0, <1>1, <1>5, <2>2, <2>3
    DEF Reserve, ReserveIf, Insert, KeyUsed, Ready, otherVars, TypeOK, ProviderTyped
<1>6. CASE CallError(r)
  <2>1. CallsTyped'
    BY <1>0, <1>6, AnswerTyped DEF CallError
  <2> QED
    BY <1>0, <1>1, <1>6, <2>1
    DEF CallError, Fault, dbVars, TypeOK, DatabaseTyped, ProviderTyped
<1>7. CASE SendText(r)
  <2>1. PICK result \in Result :
          /\ Outcome(r, result)
          /\ call' = [call EXCEPT ![r] = [@ EXCEPT !.pc = "complete",
                                                   !.result = result]]
    BY <1>7 DEF SendText
  <2>2. CallsTyped'
    <3>1. /\ call[r] \in CallType /\ call[r].pc # "idle"
          /\ call[r].key \in Key /\ call[r].payload \in Payload
      BY <1>0, <1>7 DEF SendText, CallsTyped
    <3>2. PICK x : x = [call[r] EXCEPT !.pc = "complete", !.result = result]
      OBVIOUS
    <3>3. x \in CallType /\ x.key = call[r].key /\ x.payload = call[r].payload
      BY <3>1, <3>2 DEF CallType, CallPC
    <3>4. call' = [call EXCEPT ![r] = x]
      BY <2>1, <3>2
    <3> QED
      BY <1>0, <3>1, <3>3, <3>4 DEF CallsTyped
  <2>3. ProviderTyped'
    BY <1>0, <1>7, <2>1 DEF SendText, Outcome, ProviderTyped
  <2> QED
    BY <1>0, <1>1, <1>7, <2>2, <2>3
    DEF SendText, dbVars, TypeOK, DatabaseTyped
<1>8. CASE CompleteSend(r)
  <2>1. call[r].pc # "idle" /\ call[r].result \in Result
    BY <1>0, <1>8 DEF CompleteSend, CompleteFrom, CallsTyped, CallType
  <2>2. CallsTyped'
    BY <1>0, <1>8, <2>1, AnswerTyped DEF CompleteSend, CompleteFrom
  <2>3. msg' \in [Request -> MsgState]
    BY <1>0, <1>8, <2>1
       DEF CompleteSend, CompleteFrom, DatabaseTyped, MsgState, Result
  <2> QED
    BY <1>0, <1>1, <1>8, <2>2, <2>3
    DEF CompleteSend, CompleteFrom, Fault, TypeOK, DatabaseTyped, ProviderTyped
<1> QED
  BY <1>2, <1>3, <1>4, <1>5, <1>6, <1>7, <1>8 DEF CallStep

\* The steps of a media worker keep the types.
LEMMA WorkerStepType == ASSUME TypeOK, NEW w \in Worker, WorkerStep(w)
                        PROVE  TypeOK'
<1>0. /\ DatabaseTyped /\ CallsTyped /\ WorkersTyped /\ MemoryTyped
      /\ ProviderTyped
  BY DEF TypeOK
<1> DEFINE m == worker[w].msg
<1>1. CallsTyped'
  BY <1>0, Zenon DEF WorkerStep, Dequeue, ReadAccount, Claim, UploadMedia,
     StillConnected, BeginMediaSend, SendMedia, CompleteSendMedia, FailMediaSend,
     CompleteMediaSend, RetryMediaSend, RetryUnless, Requeue, RequeueAs, Finish, CallsTyped
<1>2. CASE Dequeue(w)
  <2>1. Head(sendq) \in Request /\ sendq' \in Seq(Request)
    BY <1>0, <1>2 DEF Dequeue, MemoryTyped
  <2>2. [IdleWorker EXCEPT !.pc = "read", !.msg = Head(sendq)] \in WorkerType
    BY <2>1 DEF IdleWorker, WorkerType, WorkerPC, Cause, Result
  <2>3. [IdleWorker EXCEPT !.pc = "read", !.msg = Head(sendq)].msg \in Request
    BY <2>1 DEF IdleWorker
  <2>4. WorkersTyped'
    BY <1>0, <1>2, <2>2, <2>3, WorkerTyped DEF Dequeue
  <2> QED
    BY <1>0, <1>1, <1>2, <2>1, <2>4 DEF Dequeue, TypeOK, DatabaseTyped,
       MemoryTyped, ProviderTyped, dbVars, accountVars, otherVars
<1>3. CASE ReadAccount(w)
  <2>1. worker[w].pc # "idle" /\ session \in Nat
    BY <1>0, <1>3 DEF ReadAccount, MemoryTyped
  <2>2. CASE Goto(w, "done")
    BY <1>0, <1>1, <1>3, <2>1, <2>2, GotoTyped
       DEF ReadAccount, TypeOK, WorkerPC,
       DatabaseTyped, MemoryTyped, ProviderTyped, dbVars, accountVars, otherVars
  <2>3. CASE worker' = [worker EXCEPT ![w] = [@ EXCEPT !.pc = "claim",
                                                       !.session = session]]
    <3>1. WorkersTyped'
      BY <1>0, <2>1, <2>3 DEF WorkersTyped, WorkerType, WorkerPC
    <3> QED
      BY <1>0, <1>1, <1>3, <3>1 DEF ReadAccount, TypeOK,
         DatabaseTyped, MemoryTyped, ProviderTyped, dbVars, accountVars, otherVars
  <2> QED
    BY <1>3, <2>2, <2>3 DEF ReadAccount
<1>4. CASE Claim(w)
  <2>1. worker[w].pc # "idle" /\ m \in Request /\ attempts[m] \in Nat
    BY <1>0, <1>4 DEF Claim, WorkersTyped, DatabaseTyped
  <2>2. WorkersTyped'
    <3>1. CASE Goto(w, "done")
      BY <1>0, <2>1, <3>1, GotoTyped DEF WorkerPC
    <3>2. CASE worker' = [worker EXCEPT ![w] = [@ EXCEPT !.pc = "upload",
                                                         !.attempts = attempts[m]]]
      BY <1>0, <2>1, <3>2 DEF WorkersTyped, WorkerType, WorkerPC
    <3> QED
      BY <1>4, <3>1, <3>2 DEF Claim
  <2>3. job' \in [Request -> Phase] /\ faults' \in Nat
    BY <1>0, <1>4, <2>1 DEF Claim, Fault, DatabaseTyped, ProviderTyped, Phase
  <2> QED
    BY <1>0, <1>1, <1>4, <2>2, <2>3 DEF Claim, TypeOK, DatabaseTyped,
       MemoryTyped, ProviderTyped, accountVars
<1>5. CASE UploadMedia(w)
  <2>1. WorkersTyped'
    BY <1>0, <1>5, GotoTyped, RetryTyped DEF UploadMedia, WorkerPC, Cause
  <2> QED
    BY <1>0, <1>1, <1>5, <2>1 DEF UploadMedia, TypeOK, DatabaseTyped,
       MemoryTyped, ProviderTyped, dbVars, accountVars, otherVars
<1>6. CASE StillConnected(w)
  <2>1. WorkersTyped'
    BY <1>0, <1>6, GotoTyped, RetryTyped DEF StillConnected, WorkerPC, Cause
  <2> QED
    BY <1>0, <1>1, <1>6, <2>1 DEF StillConnected, TypeOK, DatabaseTyped,
       MemoryTyped, ProviderTyped, dbVars, accountVars, otherVars
<1>7. CASE BeginMediaSend(w)
  <2>1. WorkersTyped'
    BY <1>0, <1>7, GotoTyped, RetryTyped DEF BeginMediaSend, WorkerPC, Cause
  <2>2. job' \in [Request -> Phase] /\ faults' \in Nat
    BY <1>0, <1>7 DEF BeginMediaSend, Fault, DatabaseTyped, ProviderTyped, Phase
  <2> QED
    BY <1>0, <1>1, <1>7, <2>1, <2>2 DEF BeginMediaSend, TypeOK, DatabaseTyped,
       MemoryTyped, ProviderTyped, accountVars
<1>8. CASE SendMedia(w)
  <2>1. PICK result \in Result :
          /\ Outcome(m, result)
          /\ worker' = [worker EXCEPT ![w] = [@ EXCEPT !.pc = "complete",
                                                       !.result = result]]
    BY <1>8 DEF SendMedia
  <2>2. worker[w].pc # "idle" /\ m \in Request
    BY <1>0, <1>8 DEF SendMedia, WorkersTyped
  <2>3. WorkersTyped'
    BY <1>0, <2>1, <2>2 DEF WorkersTyped, WorkerType, WorkerPC
  <2>4. ProviderTyped'
    BY <1>0, <1>8, <2>1, <2>2 DEF SendMedia, Outcome, ProviderTyped
  <2> QED
    BY <1>0, <1>1, <1>8, <2>3, <2>4 DEF SendMedia, TypeOK, DatabaseTyped,
       MemoryTyped, dbVars, accountVars
<1>9. ASSUME NEW pc \in WorkerPC, NEW result \in Result, pc # "idle",
             CompleteMediaSend(w, pc, result)
      PROVE  TypeOK'
  <2>1. WorkersTyped'
    BY <1>0, <1>9, GotoTyped DEF CompleteMediaSend, WorkerPC
  <2>2. /\ msg' \in [Request -> MsgState]
        /\ job' \in [Request -> Phase]
        /\ faults' \in Nat
    BY <1>0, <1>9 DEF CompleteMediaSend, Fault, DatabaseTyped, ProviderTyped,
       MsgState, Phase, Result
  <2> QED
    BY <1>0, <1>1, <1>9, <2>1, <2>2
       DEF CompleteMediaSend, TypeOK, DatabaseTyped,
       MemoryTyped, ProviderTyped, accountVars
<1>10. CASE CompleteSendMedia(w) \/ FailMediaSend(w)
  <2>1. worker[w].result \in Result
    BY <1>0 DEF WorkersTyped, WorkerType
  <2> QED
    BY <1>9, <1>10, <2>1 DEF CompleteSendMedia, FailMediaSend, WorkerPC, Result
<1>11. CASE RetryMediaSend(w)
  <2>1. CASE Goto(w, "done") \/ Goto(w, "fail")
    BY <1>0, <1>1, <1>11, <2>1, GotoTyped
       DEF RetryMediaSend, RetryUnless, TypeOK, WorkerPC,
       DatabaseTyped, MemoryTyped, ProviderTyped, dbVars, accountVars, otherVars
  <2>2. ASSUME NEW n \in Nat,
               worker' = [worker EXCEPT ![w] = [@ EXCEPT !.pc = "requeue",
                                                         !.attempts = n]]
        PROVE  TypeOK'
    <3>1. worker[w].pc # "idle"
      BY <1>11 DEF RetryMediaSend, RetryUnless
    <3>2. WorkersTyped'
      BY <1>0, <2>2, <3>1 DEF WorkersTyped, WorkerType, WorkerPC
    <3> QED
      BY <1>0, <1>1, <1>11, <3>2 DEF RetryMediaSend, RetryUnless, TypeOK,
         DatabaseTyped, MemoryTyped, ProviderTyped, dbVars, accountVars, otherVars
  <2>3. worker[w].attempts \in Nat /\ worker[w].attempts + 1 \in Nat
        /\ worker[w].attempts + 0 \in Nat
    BY <1>0 DEF WorkersTyped, WorkerType
  <2> QED
    BY <1>11, <2>1, <2>2, <2>3, Zenon DEF RetryMediaSend, RetryUnless
<1>12. CASE Requeue(w)
  <2>1. WorkersTyped'
    BY <1>0, <1>12, GotoTyped DEF Requeue, RequeueAs, WorkerPC
  <2>2. worker[w].attempts \in Nat
    BY <1>0 DEF WorkersTyped, WorkerType
  <2>3. /\ job' \in [Request -> Phase]
        /\ attempts' \in [Request -> Nat]
        /\ faults' \in Nat
    BY <1>0, <1>12, <2>2
       DEF Requeue, RequeueAs, Fault, DatabaseTyped, ProviderTyped, Phase
  <2> QED
    BY <1>0, <1>1, <1>12, <2>1, <2>3
       DEF Requeue, RequeueAs, TypeOK, DatabaseTyped,
       MemoryTyped, ProviderTyped, accountVars
<1>13. CASE Finish(w)
  <2>1. IdleWorker \in WorkerType /\ IdleWorker.pc = "idle"
    BY DEF IdleWorker, WorkerType, WorkerPC, Cause, Result
  <2>2. WorkersTyped'
    BY <1>0, <1>13, <2>1, WorkerTyped DEF Finish
  <2> QED
    BY <1>0, <1>1, <1>13, <2>2 DEF Finish, TypeOK, DatabaseTyped,
       MemoryTyped, ProviderTyped, dbVars, accountVars, otherVars
<1> QED
  BY <1>2, <1>3, <1>4, <1>5, <1>6, <1>7, <1>8, <1>10, <1>11, <1>12, <1>13
  DEF WorkerStep

\* The steps of the account, the scanner, the provider and a restart keep
\* the types.
LEMMA OtherStepType ==
  ASSUME TypeOK,
         \/ AccountStep \/ ScanList \/ Restart
         \/ \E u \in Upload : DropUpload(u)
         \/ \E m \in Request : ScanQueue(m) \/ Echo(m)
  PROVE  TypeOK'
<1>0. /\ DatabaseTyped /\ CallsTyped /\ WorkersTyped /\ MemoryTyped
      /\ ProviderTyped
  BY DEF TypeOK
<1>1. CASE AccountStep
  <2>1. CallsTyped' /\ WorkersTyped' /\ listed' = listed /\ sendq' = sendq
    BY <1>0, <1>1 DEF AccountStep, Connected, Offline, LoggedOut, ClearIdentity,
       FailMediaSends, FailPending, StartLogin, LoginFails, CallsTyped, WorkersTyped, queueVars
  <2>2. MemoryTyped'
    BY <1>0, <1>1, <2>1, SendAssumption DEF AccountStep, Connected, Offline,
       LoggedOut, ClearIdentity, FailMediaSends, FailPending, StartLogin, LoginFails, MemoryTyped
  <2>3. DatabaseTyped'
    <3>1. CASE FailMediaSends
      BY <1>0, <3>1
         DEF FailMediaSends, FailPending, DatabaseTyped, MsgState, Phase
    <3>2. CASE Connected \/ ClearIdentity
      BY <1>0, <3>2 DEF Connected, ClearIdentity, DatabaseTyped, MemoryTyped
    <3>3. CASE Offline \/ LoggedOut \/ StartLogin \/ LoginFails
      BY <1>0, <3>3
         DEF Offline, LoggedOut, StartLogin, LoginFails, DatabaseTyped,
         dbVars
    <3> QED
      BY <1>1, <3>1, <3>2, <3>3 DEF AccountStep
  <2>4. ProviderTyped'
    BY <1>0, <1>1 DEF AccountStep, Connected, Offline, LoggedOut, ClearIdentity,
       FailMediaSends, FailPending, StartLogin, LoginFails, Fault, ProviderTyped, otherVars
  <2> QED
    BY <2>1, <2>2, <2>3, <2>4 DEF TypeOK
<1>2. CASE ScanList
  BY <1>0, <1>2 DEF ScanList, TypeOK, DatabaseTyped, CallsTyped, WorkersTyped,
     MemoryTyped, ProviderTyped, dbVars, accountVars, otherVars
<1>3. CASE Restart
  <2>1. CallsTyped'
    BY <1>0, <1>3 DEF Restart, Recover, CallsTyped, CallType, CallPC
  <2>2. WorkersTyped'
    BY <1>3
       DEF Restart, Recover, WorkersTyped, IdleWorker, WorkerType, WorkerPC, Cause,
           Result
  <2>3. DatabaseTyped'
    BY <1>0, <1>3 DEF Restart, Recover, DatabaseTyped, MsgState, Phase
  <2> QED
    BY <1>0, <1>3, <2>1, <2>2, <2>3
       DEF Restart, Recover, TypeOK, MemoryTyped, ProviderTyped,
       DatabaseTyped
<1>4. ASSUME NEW u \in Upload, DropUpload(u) PROVE TypeOK'
  BY <1>0, <1>4 DEF DropUpload, TypeOK, DatabaseTyped, CallsTyped, WorkersTyped,
     MemoryTyped, ProviderTyped, queueVars, accountVars, otherVars
<1>5. ASSUME NEW m \in Request, ScanQueue(m) PROVE TypeOK'
  <2>1. MemoryTyped'
    BY <1>0, <1>5 DEF ScanQueue, MemoryTyped, accountVars
  <2> QED
    BY <1>0, <1>5, <2>1 DEF ScanQueue, TypeOK, DatabaseTyped, CallsTyped,
       WorkersTyped, ProviderTyped, dbVars, otherVars
<1>6. ASSUME NEW m \in Request, Echo(m) PROVE TypeOK'
  <2>1. DatabaseTyped'
    BY <1>0, <1>6 DEF Echo, DatabaseTyped, MsgState, Phase
  <2> QED
    BY <1>0, <1>6, <2>1 DEF Echo, TypeOK, CallsTyped, WorkersTyped, MemoryTyped,
       ProviderTyped, queueVars, accountVars, otherVars
<1> QED
  BY <1>1, <1>2, <1>3, <1>4, <1>5, <1>6

\* A stuttering step keeps the types.
LEMMA StutterType == ASSUME TypeOK, UNCHANGED vars PROVE TypeOK'
BY DEF TypeOK, DatabaseTyped, CallsTyped, WorkersTyped, MemoryTyped,
   ProviderTyped, vars, dbVars, queueVars, accountVars, otherVars

\* Every state of every behaviour is well typed.
THEOREM TypeCorrect == Spec => []TypeOK
<1>1. TypeOK /\ [Next]_vars => TypeOK'
  BY CallStepType, WorkerStepType, OtherStepType, StutterType DEF Next
<1> QED
  BY InitType, <1>1, PTL DEF Spec

---------------------------------------------------------------------------
(* The inductive invariant                                                 *)

\* What a new step, an answer or a new record does to the calls.
LEMMA CallMoved ==
  ASSUME CallsTyped, NEW r \in Request, NEW c \in CallType,
         call' = [call EXCEPT ![r] = c]
  PROVE  /\ call'[r] = c
         /\ \A q \in Request : q # r => call'[q] = call[q]
BY DEF CallsTyped

LEMMA Answered ==
  ASSUME CallsTyped, NEW r \in Request, NEW a, Answer(r, a)
  PROVE  /\ call'[r].pc = "done"
         /\ call'[r].key = call[r].key /\ call'[r].payload = call[r].payload
         /\ \A q \in Request : q # r => call'[q] = call[q]
BY DEF CallsTyped, CallType, Answer

LEMMA CallGoto ==
  ASSUME CallsTyped, NEW r \in Request, NEW pc,
         call' = [call EXCEPT ![r].pc = pc]
  PROVE  /\ call'[r].pc = pc
         /\ call'[r].key = call[r].key /\ call'[r].payload = call[r].payload
         /\ \A q \in Request : q # r => call'[q] = call[q]
BY DEF CallsTyped, CallType

\* What moving a worker does to the workers.
LEMMA WorkerGoto ==
  ASSUME WorkersTyped, NEW w \in Worker, NEW pc, Goto(w, pc)
  PROVE  /\ worker'[w].pc = pc
         /\ worker'[w].msg = worker[w].msg
         /\ worker'[w].result = worker[w].result
         /\ \A v \in Worker : v # w => worker'[v] = worker[v]
BY DEF WorkersTyped, WorkerType, Goto

LEMMA WorkerRetry ==
  ASSUME WorkersTyped, NEW w \in Worker, NEW c, Retry(w, c)
  PROVE  /\ worker'[w].pc = "retry"
         /\ worker'[w].msg = worker[w].msg
         /\ \A v \in Worker : v # w => worker'[v] = worker[v]
BY DEF WorkersTyped, WorkerType, Retry

\* A call that moves without touching the database keeps SendInv, up to its
\* reservation and when it is answered.
LEMMA CallFrame ==
  ASSUME TypeOK, SendInv, NEW r \in Request,
         UNCHANGED <<msg, job, keyOwner, upload, calls, accepted, worker>>,
         \A q \in Request : q # r => call'[q] = call[q],
         call[r].pc \in {"idle", "lookup", "read", "reserve"},
         call'[r].pc \in {"lookup", "read", "reserve", "done"}
  PROVE  SendInv'
<1>1. msg[r] = "none"
  BY DEF SendInv, ReservationInv
<1>2. \A q \in Request : msg[q] # "none" => call'[q] = call[q]
  BY <1>1
<1>3. ReservationInv'
  <2>1. \A q \in Request : call'[q].pc \in {"idle", "lookup", "read", "reserve"}
          => msg[q] = "none"
    BY <1>1 DEF SendInv, ReservationInv
  <2> QED
    BY <1>2, <2>1 DEF SendInv, ReservationInv, UploadSentOnce, Media
<1>4. MessageInv'
  BY <1>2 DEF SendInv, MessageInv, Media
<1>5. TextInv'
  BY <1>2, <1>1 DEF SendInv, TextInv, Media
<1>6. WorkerInv'
  <2>1. \A w \in Worker : Claimed(w) => worker[w].msg \in Request
    BY DEF TypeOK, WorkersTyped, Claimed
  <2> QED
    BY <1>2, <2>1 DEF SendInv, WorkerInv, Media, Claimed, BeforeSend
<1> QED
  BY <1>3, <1>4, <1>5, <1>6 DEF SendInv

\* A worker that moves without touching the database keeps SendInv when it
\* holds no claim afterwards, or still has its claim and is not yet sending.
LEMMA WorkerFrame ==
  ASSUME TypeOK, SendInv, NEW w \in Worker,
         UNCHANGED <<msg, job, keyOwner, upload, calls, accepted, call>>,
         \A v \in Worker : v # w => worker'[v] = worker[v],
         \/ worker'[w].pc \in {"idle", "read", "claim", "done"}
         \/ /\ BeforeSend(w)
            /\ worker'[w].msg = worker[w].msg
            /\ worker'[w].pc \in {"check", "begin", "retry", "requeue", "fail"}
  PROVE  SendInv'
<1>1. ReservationInv' /\ MessageInv' /\ TextInv'
  BY DEF SendInv, ReservationInv, MessageInv, TextInv, UploadSentOnce, Media
<1>2. \A v \in Worker : Claimed(v)' => Claimed(v) /\ worker'[v].msg = worker[v].msg
  BY DEF Claimed, BeforeSend
<1>3. \A v \in Worker : Claimed(v)' /\ (v = w => BeforeSend(w)) => 
        /\ BeforeSend(v)' <=> BeforeSend(v)
        /\ v # w => worker'[v] = worker[v]
  BY DEF Claimed, BeforeSend
<1>4. WorkerInv'
  BY <1>2, <1>3 DEF SendInv, WorkerInv, Claimed, BeforeSend, Media
<1> QED
  BY <1>1, <1>4 DEF SendInv

\* A step of neither keeps it as long as it leaves the messages alone.
LEMMA OtherFrame ==
  ASSUME SendInv,
         UNCHANGED <<msg, job, keyOwner, upload, calls, accepted, call, worker>>
  PROVE  SendInv'
BY DEF SendInv, ReservationInv, UploadSentOnce, MessageInv, TextInv, WorkerInv,
   Media, Claimed, BeforeSend

\* SendInv holds initially.
LEMMA InitInv == Init => SendInv
BY DEF Init, SendInv, ReservationInv, UploadSentOnce, MessageInv, TextInv,
   WorkerInv, Media, Claimed, BeforeSend, IdleCall, IdleWorker

\* A reservation: a fresh message takes a free key and, for media, a ready
\* upload.
LEMMA ReserveInv == ASSUME TypeOK, SendInv, NEW r \in Request, Reserve(r)
                    PROVE  SendInv'
<1> DEFINE k == call[r].key
           p == call[r].payload
<1>0. /\ DatabaseTyped /\ CallsTyped /\ WorkersTyped
      /\ ReservationInv /\ MessageInv /\ TextInv /\ WorkerInv
  BY DEF TypeOK, SendInv
<1>1. /\ call[r].pc = "reserve" /\ msg[r] = "none" /\ calls[r] = 0
      /\ k \in Key /\ p \in Payload /\ r # None /\ r \in Request
      /\ job[r] = "none" /\ r \notin accepted
  <2>1. call[r].pc = "reserve" /\ msg[r] = "none"
    BY <1>0 DEF Reserve, ReserveIf, Insert, KeyUsed, Ready, ReservationInv
  <2> QED
    BY <1>0, <2>1, BusyCall, SendAssumption DEF MessageInv, DatabaseTyped, Phase
<1>2. CASE UNCHANGED <<msg, job, keyOwner, upload>> /\ \E a : Answer(r, a)
  BY <1>0, <1>1, <1>2, Answered, CallFrame
     DEF Reserve, ReserveIf, Insert, KeyUsed, Ready, queueVars, otherVars
<1>3. ASSUME keyOwner[k] = None, p \in Upload => upload[p] = "ready",
             msg' = [msg EXCEPT ![r] = "queued"],
             keyOwner' = [keyOwner EXCEPT ![k] = r],
             \/ /\ p \in Upload
                /\ job' = [job EXCEPT ![r] = "queued"]
                /\ upload' = [upload EXCEPT ![p] = "used"]
                /\ Answer(r, r)
             \/ /\ p \notin Upload
                /\ call' = [call EXCEPT ![r].pc = "send"]
                /\ UNCHANGED <<job, upload>>
      PROVE  SendInv'
  <2>1. /\ call'[r].pc \in {"done", "send"}
        /\ call'[r].pc = "send" <=> ~Media(r)
        /\ \A q \in Request : q # r => call'[q] = call[q]
        /\ \A q \in Request : call'[q].key = call[q].key
                              /\ call'[q].payload = call[q].payload
    BY <1>0, <1>3, Answered, CallGoto DEF Media
  <2>2. /\ UNCHANGED <<calls, accepted, worker>>
        /\ msg'[r] = "queued" /\ keyOwner'[k] = r
        /\ \A q \in Request : q # r => msg'[q] = msg[q] /\ job'[q] = job[q]
        /\ \A l \in Key : l # k => keyOwner'[l] = keyOwner[l]
        /\ job'[r] \in {"none", "queued"}
        /\ job'[r] = "queued" => p \in Upload
    BY <1>0, <1>1, <1>3
       DEF Reserve, ReserveIf, Insert, KeyUsed, Ready, queueVars, otherVars,
           DatabaseTyped
  <2>3. /\ \A u \in Upload : u # p => upload'[u] = upload[u]
        /\ p \in Upload => upload'[p] = "used"
        /\ \A u \in Upload : upload[u] = "used" => upload'[u] = "used"
    BY <1>0, <1>3 DEF DatabaseTyped
  <2>4. \A q \in Request : Media(q)' <=> Media(q)
    BY <2>1 DEF Media
  <2>5. \A q \in Request : q # r /\ msg[q] # "none" =>
          /\ call[q].key \in Key /\ call[q].key # k
          /\ Media(q) => call[q].payload # p
    BY <1>0, <1>1, <1>3, SendAssumption DEF ReservationInv, Media
  <2>6. ReservationInv'
    <3>1. \A q \in Request : call'[q].pc \in {"idle", "lookup", "read", "reserve"}
            => msg'[q] = "none"
      BY <1>0, <2>1, <2>2 DEF ReservationInv
    <3>2. \A q \in Request : msg'[q] # "none" =>
            /\ call'[q].key \in Key /\ call'[q].payload \in Payload
            /\ keyOwner'[call'[q].key] = q
            /\ Media(q)' => upload'[call'[q].payload] = "used"
      <4> SUFFICES ASSUME NEW q \in Request, msg'[q] # "none"
                   PROVE  /\ call'[q].key \in Key /\ call'[q].payload \in Payload
                          /\ keyOwner'[call'[q].key] = q
                          /\ Media(q)' => upload'[call'[q].payload] = "used"
        OBVIOUS
      <4>1. CASE q = r
        BY <1>1, <2>1, <2>2, <2>3, <2>4, <4>1 DEF Media
      <4>2. CASE q # r
        BY <1>0, <2>1, <2>2, <2>3, <2>4, <2>5, <4>2 DEF ReservationInv, Media
      <4> QED
        BY <4>1, <4>2
    <3>3. UploadSentOnce'
      <4> SUFFICES ASSUME NEW q \in Request, NEW s \in Request,
                          msg'[q] # "none", msg'[s] # "none", Media(q)',
                          call'[q].payload = call'[s].payload
                   PROVE  q = s
        BY DEF UploadSentOnce
      <4>1. Media(q) /\ Media(s) /\ call[q].payload = call[s].payload
        BY <2>1, <2>4 DEF Media
      <4> QED
        BY <1>0, <2>2, <2>5, <4>1 DEF ReservationInv, UploadSentOnce
    <3> QED
      BY <3>1, <3>2, <3>3 DEF ReservationInv
  <2>7. MessageInv'
    BY <1>0, <1>1, <2>2, <2>4 DEF MessageInv, Media
  <2>8. TextInv'
    BY <1>0, <1>1, <2>1, <2>2, <2>4 DEF TextInv
  <2>9. WorkerInv'
    <3>1. \A w \in Worker : Claimed(w) => worker[w].msg # r
      BY <1>0, <1>1 DEF WorkerInv
    <3>2. \A w \in Worker : Claimed(w) => worker[w].msg \in Request
      BY <1>0 DEF WorkersTyped, Claimed
    <3> QED
      BY <1>0, <2>2, <2>4, <3>1, <3>2 DEF WorkerInv, Claimed, BeforeSend
  <2> QED
    BY <2>6, <2>7, <2>8, <2>9 DEF SendInv
<1> QED
  BY <1>2, <1>3 DEF Reserve, ReserveIf, Insert, KeyUsed, Ready

\* The steps of an API call keep SendInv.
LEMMA CallStepInv == ASSUME TypeOK, SendInv, NEW r \in Request, CallStep(r)
                     PROVE  SendInv'
<1>0. /\ DatabaseTyped /\ CallsTyped /\ WorkersTyped /\ ProviderTyped
      /\ ReservationInv /\ MessageInv /\ TextInv /\ WorkerInv
  BY DEF TypeOK, SendInv
<1>1. CASE StartSend(r)
  <2>1. PICK k \in Key, p \in Payload :
          call' = [call EXCEPT ![r] = [@ EXCEPT !.pc = "lookup", !.key = k,
                                                !.payload = p]]
    BY <1>1 DEF StartSend, StartWith
  <2>2. /\ call'[r].pc = "lookup"
        /\ \A q \in Request : q # r => call'[q] = call[q]
    BY <1>0, <2>1 DEF CallsTyped, CallType
  <2> QED
    BY <1>1, <2>2, CallFrame
       DEF StartSend, StartWith, dbVars, queueVars, otherVars
<1>2. CASE LookupSend(r)
  BY <1>0, <1>2, Answered, CallGoto, CallFrame
  DEF LookupSend, dbVars, queueVars, otherVars
<1>3. CASE ReadSession(r)
  <2>1. CASE Answer(r, None)
    BY <1>0, <1>3, <2>1, Answered, CallFrame
    DEF ReadSession, dbVars, queueVars, otherVars
  <2>2. CASE call' = [call EXCEPT ![r] = [@ EXCEPT !.pc = "reserve",
                                                   !.session = session]]
    <3>1. /\ call'[r].pc = "reserve"
          /\ \A q \in Request : q # r => call'[q] = call[q]
      BY <1>0, <2>2 DEF CallsTyped, CallType
    <3> QED
      BY <1>3, <3>1, CallFrame DEF ReadSession, dbVars, queueVars, otherVars
  <2> QED
    BY <1>3, <2>1, <2>2 DEF ReadSession
<1>4. CASE Reserve(r)
  BY <1>4, ReserveInv
<1>5. CASE CallError(r)
  BY <1>0, <1>5, Answered, CallFrame DEF CallError, dbVars, queueVars
<1>6. CASE SendText(r)
  <2>1. PICK result \in Result :
          /\ Outcome(r, result)
          /\ call' = [call EXCEPT ![r] = [@ EXCEPT !.pc = "complete",
                                                   !.result = result]]
    BY <1>6 DEF SendText
  <2>2. /\ call'[r].pc = "complete" /\ call'[r].result = result
        /\ \A q \in Request : q # r => call'[q] = call[q]
        /\ \A q \in Request : call'[q].key = call[q].key
                              /\ call'[q].payload = call[q].payload
    BY <1>0, <2>1 DEF CallsTyped, CallType
  <2>3. /\ call[r].pc = "send" /\ calls[r] = 0 /\ msg[r] = "queued" /\ ~Media(r)
        /\ job[r] = "none"
        /\ UNCHANGED <<msg, job, keyOwner, upload, worker>>
    <3>1. job[r] \in Phase
      BY <1>0 DEF DatabaseTyped
    <3> QED
      BY <1>0, <1>6, <3>1
      DEF SendText, TextInv, MessageInv, dbVars, queueVars
  <2>4. /\ \A q \in Request : q # r => /\ calls'[q] = calls[q]
                                       /\ q \in accepted' <=> q \in accepted
        /\ calls'[r] \in {0, 1}
        /\ r \in accepted' => calls'[r] = 1
        /\ result = "failed" => calls'[r] = 0
        /\ result = "sent" => r \in accepted'
    BY <1>0, <2>1, <2>3 DEF Outcome, ProviderTyped, MessageInv
  <2>5. \A q \in Request : Media(q)' <=> Media(q)
    BY <2>2 DEF Media
  <2>6. ReservationInv'
    BY <1>0, <2>2, <2>3, <2>5 DEF ReservationInv, UploadSentOnce
  <2>7. MessageInv'
    BY <1>0, <2>3, <2>4, <2>5 DEF MessageInv
  <2>8. TextInv'
    BY <1>0, <2>2, <2>3, <2>4, <2>5 DEF TextInv
  <2>9. WorkerInv'
    <3>1. \A w \in Worker : Claimed(w) => worker[w].msg # r
      BY <1>0, <2>3 DEF WorkerInv
    <3>2. \A w \in Worker : Claimed(w) => worker[w].msg \in Request
      BY <1>0 DEF WorkersTyped, Claimed
    <3> QED
      BY <1>0, <2>3, <2>4, <2>5, <3>1, <3>2 DEF WorkerInv, Claimed, BeforeSend
  <2> QED
    BY <2>6, <2>7, <2>8, <2>9 DEF SendInv
<1>7. CASE CompleteSend(r)
  <2>1. /\ call[r].pc = "complete" /\ ~Media(r) /\ msg[r] \in {"queued", "sent"}
        /\ job[r] = "none" /\ call[r].result \in Result
    BY <1>0, <1>7
       DEF CompleteSend, CompleteFrom, TextInv, MessageInv, CallsTyped, CallType,
       DatabaseTyped, Phase
  <2>2. /\ UNCHANGED <<job, keyOwner, upload, worker, calls, accepted>>
        /\ \E a : Answer(r, a)
        /\ \A q \in Request : q # r => msg'[q] = msg[q]
        /\ msg'[r] \in {msg[r], call[r].result}
    BY <1>0, <1>7 DEF CompleteSend, CompleteFrom, queueVars, DatabaseTyped
  <2>3. /\ call'[r].pc = "done"
        /\ \A q \in Request : q # r => call'[q] = call[q]
        /\ \A q \in Request : call'[q].key = call[q].key
                              /\ call'[q].payload = call[q].payload
    BY <1>0, <2>2, Answered
  <2>4. \A q \in Request : Media(q)' <=> Media(q)
    BY <2>3 DEF Media
  <2>5. /\ msg'[r] # "none" /\ msg[r] # "none"
        /\ msg'[r] = "failed" => calls[r] = 0
        /\ msg'[r] = "sent" => r \in accepted
    BY <1>0, <2>1, <2>2 DEF TextInv, MessageInv, Result
  <2>6. ReservationInv'
    <3>1. \A q \in Request : msg'[q] # "none" <=> msg[q] # "none"
      BY <2>2, <2>5
    <3> QED
      BY <1>0, <2>2, <2>3, <2>4, <3>1 DEF ReservationInv, UploadSentOnce
  <2>7. MessageInv'
    BY <1>0, <2>1, <2>2, <2>4, <2>5 DEF MessageInv
  <2>8. TextInv'
    BY <1>0, <2>2, <2>3, <2>4 DEF TextInv
  <2>9. WorkerInv'
    <3>1. \A w \in Worker : Claimed(w) => worker[w].msg # r
      BY <1>0, <2>1 DEF WorkerInv
    <3>2. \A w \in Worker : Claimed(w) => worker[w].msg \in Request
      BY <1>0 DEF WorkersTyped, Claimed
    <3> QED
      BY <1>0, <2>2, <2>4, <3>1, <3>2 DEF WorkerInv, Claimed, BeforeSend
  <2> QED
    BY <2>6, <2>7, <2>8, <2>9 DEF SendInv
<1> QED
  BY <1>1, <1>2, <1>3, <1>4, <1>5, <1>6, <1>7 DEF CallStep

\* A claimed message belongs to one worker, and is not a text in flight.
LEMMA ClaimedAlone ==
  ASSUME TypeOK, SendInv, NEW w \in Worker, Claimed(w)
  PROVE  /\ worker[w].msg \in Request
         /\ msg[worker[w].msg] # "none" /\ Media(worker[w].msg)
         /\ job[worker[w].msg] # "queued"
         /\ call[worker[w].msg].pc \notin {"send", "complete"}
         /\ \A v \in Worker : v # w /\ Claimed(v) => worker[v].msg # worker[w].msg
<1>1. worker[w].msg \in Request
  BY DEF TypeOK, WorkersTyped, Claimed
<1> QED
  BY <1>1 DEF SendInv, WorkerInv, TextInv

\* Claiming a queued job.
LEMMA ClaimInv == ASSUME TypeOK, SendInv, NEW w \in Worker, Claim(w)
                  PROVE  SendInv'
<1> DEFINE m == worker[w].msg
<1>0. /\ DatabaseTyped /\ CallsTyped /\ WorkersTyped
      /\ ReservationInv /\ MessageInv /\ TextInv /\ WorkerInv
  BY DEF TypeOK, SendInv
<1>1. CASE Goto(w, "done") /\ UNCHANGED job
  BY <1>0, <1>1, WorkerGoto, WorkerFrame DEF Claim
<1>2. CASE /\ job[m] = "queued" /\ msg[m] = "queued"
           /\ job' = [job EXCEPT ![m] = "uploading"]
           /\ worker' = [worker EXCEPT ![w] = [@ EXCEPT !.pc = "upload",
                                                        !.attempts = attempts[m]]]
  <2>1. /\ m \in Request
        /\ worker'[w].pc = "upload" /\ worker'[w].msg = m
        /\ \A v \in Worker : v # w => worker'[v] = worker[v]
        /\ UNCHANGED <<msg, keyOwner, upload, call, calls, accepted>>
    BY <1>0, <1>2 DEF Claim, WorkersTyped, WorkerType
  <2>2. /\ job'[m] = "uploading" /\ calls[m] = 0 /\ Media(m)
        /\ \A q \in Request : q # m => job'[q] = job[q]
    BY <1>0, <1>2, <2>1 DEF DatabaseTyped, MessageInv
  <2>3. ReservationInv' /\ TextInv'
    BY <1>0, <2>1 DEF ReservationInv, UploadSentOnce, TextInv, Media
  <2>4. MessageInv'
    BY <1>0, <1>2, <2>1, <2>2 DEF MessageInv, Media
  <2>5. WorkerInv'
    <3>1. \A v \in Worker : Claimed(v) => worker[v].msg # m
      BY <1>0, <1>2 DEF WorkerInv
    <3>2. \A v \in Worker : Claimed(v) => worker[v].msg \in Request
      BY <1>0 DEF WorkersTyped, Claimed
    <3> QED
      BY <1>0, <1>2, <2>1, <2>2, <3>1, <3>2
      DEF WorkerInv, Claimed, BeforeSend, Media
  <2> QED
    BY <2>3, <2>4, <2>5 DEF SendInv
<1> QED
  BY <1>1, <1>2 DEF Claim

\* Making a job unrepeatable, or giving up.
LEMMA BeginInv == ASSUME TypeOK, SendInv, NEW w \in Worker, BeginMediaSend(w)
                  PROVE  SendInv'
<1> DEFINE m == worker[w].msg
<1>0. /\ DatabaseTyped /\ CallsTyped /\ WorkersTyped
      /\ ReservationInv /\ MessageInv /\ TextInv /\ WorkerInv
  BY DEF TypeOK, SendInv
<1>1. BeforeSend(w) /\ Claimed(w)
  BY DEF BeginMediaSend, Claimed, BeforeSend
<1>2. CASE Retry(w, "error") /\ UNCHANGED job
  BY <1>0, <1>1, <1>2, WorkerRetry, WorkerFrame DEF BeginMediaSend
<1>3. CASE /\ job[m] = "uploading"
           /\ job' = [job EXCEPT ![m] = "sending"]
           /\ Goto(w, "send")
  <2>1. /\ m \in Request
        /\ worker'[w].pc = "send" /\ worker'[w].msg = m
        /\ \A v \in Worker : v # w => worker'[v] = worker[v]
        /\ UNCHANGED <<msg, keyOwner, upload, call, calls, accepted>>
    BY <1>0, <1>1, <1>3, WorkerGoto, ClaimedAlone DEF BeginMediaSend
  <2>2. /\ job'[m] = "sending" /\ calls[m] = 0 /\ msg[m] = "queued" /\ Media(m)
        /\ \A q \in Request : q # m => job'[q] = job[q]
    BY <1>0, <1>3, <2>1 DEF DatabaseTyped, MessageInv
  <2>3. ReservationInv' /\ TextInv'
    BY <1>0, <2>1 DEF ReservationInv, UploadSentOnce, TextInv, Media
  <2>4. MessageInv'
    BY <1>0, <2>1, <2>2 DEF MessageInv, Media
  <2>5. WorkerInv'
    <3>1. \A v \in Worker : v # w /\ Claimed(v) => /\ worker[v].msg # m
                                                   /\ worker[v].msg \in Request
      BY <1>1, ClaimedAlone
    <3> QED
      BY <1>0, <2>1, <2>2, <3>1 DEF WorkerInv, Claimed, BeforeSend, Media
  <2> QED
    BY <2>3, <2>4, <2>5 DEF SendInv
<1> QED
  BY <1>2, <1>3 DEF BeginMediaSend

\* The one call of the provider.
LEMMA SendMediaInv == ASSUME TypeOK, SendInv, NEW w \in Worker, SendMedia(w)
                      PROVE  SendInv'
<1> DEFINE m == worker[w].msg
<1>0. /\ DatabaseTyped /\ CallsTyped /\ WorkersTyped /\ ProviderTyped
      /\ ReservationInv /\ MessageInv /\ TextInv /\ WorkerInv
  BY DEF TypeOK, SendInv
<1>1. PICK result \in Result :
        /\ Outcome(m, result)
        /\ worker' = [worker EXCEPT ![w] = [@ EXCEPT !.pc = "complete",
                                                     !.result = result]]
  BY DEF SendMedia
<1>2. /\ worker'[w].pc = "complete" /\ worker'[w].msg = m
      /\ worker'[w].result = result
      /\ \A v \in Worker : v # w => worker'[v] = worker[v]
      /\ UNCHANGED <<msg, job, keyOwner, upload, call>>
  <2>1. UNCHANGED <<msg, job, keyOwner, upload, call>>
    BY DEF SendMedia, dbVars
  <2>2. worker[w] \in WorkerType /\ worker[w].msg = m
    BY <1>0 DEF WorkersTyped
  <2>3. worker'[w] = [worker[w] EXCEPT !.pc = "complete", !.result = result]
    BY <1>0, <1>1 DEF WorkersTyped
  <2>4. worker'[w].pc = "complete" /\ worker'[w].msg = m /\ worker'[w].result = result
    BY <2>2, <2>3 DEF WorkerType
  <2>5. \A v \in Worker : v # w => worker'[v] = worker[v]
    BY <1>0, <1>1 DEF WorkersTyped
  <2> QED
    BY <2>1, <2>4, <2>5
<1>3. Claimed(w) /\ m \in Request
  BY ClaimedAlone DEF SendMedia, Claimed
<1>4. /\ calls[m] = 0 /\ msg[m] \in {"queued", "outcome_unknown"} /\ Media(m)
      /\ job[m] \in {"sending", "none"} /\ m \notin accepted
  BY <1>0, <1>3 DEF SendMedia, WorkerInv, MessageInv
<1>5. /\ \A q \in Request : q # m => /\ calls'[q] = calls[q]
                                     /\ q \in accepted' <=> q \in accepted
      /\ calls'[m] \in {0, 1}
      /\ m \in accepted' => calls'[m] = 1
      /\ result = "failed" => calls'[m] = 0
      /\ result = "sent" => m \in accepted'
  BY <1>0, <1>1, <1>3, <1>4 DEF Outcome, ProviderTyped
<1>6. ReservationInv'
  BY <1>0, <1>2 DEF ReservationInv, UploadSentOnce, Media
<1>7. MessageInv'
  BY <1>0, <1>2, <1>4, <1>5 DEF MessageInv, Media
<1>8. TextInv'
  BY <1>0, <1>2, <1>4, <1>5 DEF TextInv, Media
<1>9. WorkerInv'
  <2>1. \A v \in Worker : v # w /\ Claimed(v) => /\ worker[v].msg # m
                                                 /\ worker[v].msg \in Request
    BY <1>3, ClaimedAlone
  <2> QED
    BY <1>0, <1>2, <1>3, <1>4, <1>5, <2>1
       DEF WorkerInv, Claimed, BeforeSend, Media
<1> QED
  BY <1>6, <1>7, <1>8, <1>9 DEF SendInv

\* The result of a worker settles its message and ends its job.
LEMMA CompleteMediaInv ==
  ASSUME TypeOK, SendInv, NEW w \in Worker, NEW pc, NEW result \in Result,
         pc \in {"complete", "fail"},
         pc = "complete" => result = worker[w].result,
         pc = "fail" => result = "failed",
         CompleteMediaSend(w, pc, result)
  PROVE  SendInv'
<1> DEFINE m == worker[w].msg
<1>0. /\ DatabaseTyped /\ CallsTyped /\ WorkersTyped
      /\ ReservationInv /\ MessageInv /\ TextInv /\ WorkerInv
  BY DEF TypeOK, SendInv
<1>1. /\ Claimed(w) /\ m \in Request
      /\ worker[w].pc = pc
      /\ worker'[w].pc = "done"
      /\ \A v \in Worker : v # w => worker'[v] = worker[v]
      /\ UNCHANGED <<keyOwner, upload, call, calls, accepted>>
  BY <1>0, WorkerGoto, ClaimedAlone DEF CompleteMediaSend, Claimed
<1>2. CASE UNCHANGED <<msg, job>>
  BY <1>1, <1>2, WorkerFrame
<1>3. CASE /\ msg' = [msg EXCEPT ![m] = IF @ = "queued" THEN result ELSE @]
           /\ job' = [job EXCEPT ![m] = "none"]
  <2>1. /\ msg'[m] = IF msg[m] = "queued" THEN result ELSE msg[m]
        /\ job'[m] = "none"
        /\ \A q \in Request : q # m => msg'[q] = msg[q] /\ job'[q] = job[q]
    BY <1>0, <1>1, <1>3 DEF DatabaseTyped
  <2>2. /\ msg[m] # "none" /\ Media(m)
        /\ result = "failed" => calls[m] = 0
        /\ result = "sent" => m \in accepted
    BY <1>0, <1>1 DEF WorkerInv, BeforeSend
  <2>3. \A q \in Request : msg'[q] # "none" <=> msg[q] # "none"
    BY <2>1, <2>2 DEF Result
  <2>4. ReservationInv'
    BY <1>0, <1>1, <2>3 DEF ReservationInv, UploadSentOnce, Media
  <2>5. MessageInv'
    BY <1>0, <1>1, <2>1, <2>2 DEF MessageInv, Media, Result
  <2>6. TextInv'
    BY <1>0, <1>1, <2>1, <2>2 DEF TextInv, Media
  <2>7. WorkerInv'
    <3>1. \A v \in Worker : v # w /\ Claimed(v) => /\ worker[v].msg # m
                                                   /\ worker[v].msg \in Request
      BY <1>1, ClaimedAlone
    <3> QED
      BY <1>0, <1>1, <2>1, <3>1 DEF WorkerInv, Claimed, BeforeSend, Media
  <2> QED
    BY <2>4, <2>5, <2>6, <2>7 DEF SendInv
<1> QED
  BY <1>2, <1>3 DEF CompleteMediaSend

\* A retry returns an uploading job to the queue.
LEMMA RequeueInv == ASSUME TypeOK, SendInv, NEW w \in Worker, Requeue(w)
                    PROVE  SendInv'
<1> DEFINE m == worker[w].msg
<1>0. /\ DatabaseTyped /\ CallsTyped /\ WorkersTyped
      /\ ReservationInv /\ MessageInv /\ TextInv /\ WorkerInv
  BY DEF TypeOK, SendInv
<1>1. /\ Claimed(w) /\ m \in Request
      /\ worker'[w].pc = "done"
      /\ \A v \in Worker : v # w => worker'[v] = worker[v]
      /\ UNCHANGED <<msg, keyOwner, upload, call, calls, accepted>>
  BY <1>0, WorkerGoto, ClaimedAlone DEF Requeue, RequeueAs, Claimed
<1>2. CASE UNCHANGED job
  BY <1>1, <1>2, WorkerFrame
<1>3. CASE job[m] = "uploading" /\ job' = [job EXCEPT ![m] = "queued"]
  <2>1. /\ job'[m] = "queued" /\ calls[m] = 0 /\ msg[m] = "queued" /\ Media(m)
        /\ \A q \in Request : q # m => job'[q] = job[q]
    BY <1>0, <1>1, <1>3 DEF DatabaseTyped, MessageInv
  <2>2. ReservationInv' /\ TextInv'
    BY <1>0, <1>1 DEF ReservationInv, UploadSentOnce, TextInv, Media
  <2>3. MessageInv'
    BY <1>0, <1>1, <2>1 DEF MessageInv, Media
  <2>4. WorkerInv'
    <3>1. \A v \in Worker : v # w /\ Claimed(v) => /\ worker[v].msg # m
                                                   /\ worker[v].msg \in Request
      BY <1>1, ClaimedAlone
    <3> QED
      BY <1>0, <1>1, <2>1, <3>1 DEF WorkerInv, Claimed, BeforeSend, Media
  <2> QED
    BY <2>2, <2>3, <2>4 DEF SendInv
<1> QED
  BY <1>2, <1>3 DEF Requeue, RequeueAs

\* The steps of a worker keep SendInv.
LEMMA WorkerStepInv == ASSUME TypeOK, SendInv, NEW w \in Worker, WorkerStep(w)
                       PROVE  SendInv'
<1>0. WorkersTyped
  BY DEF TypeOK
<1>1. CASE Dequeue(w) \/ Finish(w)
  <2>1. /\ worker'[w].pc \in {"idle", "read"}
        /\ \A v \in Worker : v # w => worker'[v] = worker[v]
    <3>1. CASE Dequeue(w)
      <4>1. worker' = [worker EXCEPT ![w] = [IdleWorker EXCEPT !.pc = "read",
                                                            !.msg = Head(sendq)]]
        BY <3>1 DEF Dequeue
      <4>2. [IdleWorker EXCEPT !.pc = "read", !.msg = Head(sendq)].pc = "read"
        BY DEF IdleWorker
      <4> QED
        BY <1>0, <4>1, <4>2 DEF WorkersTyped
    <3>2. CASE Finish(w)
      BY <1>0, <3>2 DEF Finish, IdleWorker, WorkersTyped
    <3> QED
      BY <1>1, <3>1, <3>2
  <2> QED
    BY <1>1, <2>1, WorkerFrame DEF Dequeue, Finish, dbVars, otherVars
<1>2. CASE ReadAccount(w)
  <2>1. /\ worker'[w].pc \in {"claim", "done"}
        /\ \A v \in Worker : v # w => worker'[v] = worker[v]
    <3>1. CASE Goto(w, "done")
      BY <1>0, <3>1, WorkerGoto
    <3>2. CASE worker' = [worker EXCEPT ![w] = [@ EXCEPT !.pc = "claim", !.session = session]]
      BY <1>0, <3>2 DEF WorkersTyped, WorkerType
    <3> QED
      BY <1>2, <3>1, <3>2 DEF ReadAccount
  <2> QED
    BY <1>2, <2>1, WorkerFrame DEF ReadAccount, dbVars, otherVars
<1>3. CASE Claim(w)
  BY <1>3, ClaimInv
<1>4. CASE UploadMedia(w) \/ StillConnected(w)
  <2>1. BeforeSend(w)
    BY <1>4 DEF UploadMedia, StillConnected, BeforeSend, Claimed
  <2>2. /\ worker'[w].pc \in {"check", "begin", "retry", "fail"}
        /\ worker'[w].msg = worker[w].msg
        /\ \A v \in Worker : v # w => worker'[v] = worker[v]
    BY <1>0, <1>4, WorkerGoto, WorkerRetry DEF UploadMedia, StillConnected
  <2> QED
    BY <1>4, <2>1, <2>2, WorkerFrame
    DEF UploadMedia, StillConnected, dbVars, otherVars
<1>5. CASE BeginMediaSend(w)
  BY <1>5, BeginInv
<1>6. CASE SendMedia(w)
  BY <1>6, SendMediaInv
<1>7. CASE CompleteSendMedia(w) \/ FailMediaSend(w)
  <2>1. worker[w].result \in Result
    BY <1>0 DEF WorkersTyped, WorkerType
  <2> QED
    BY <1>7, <2>1, CompleteMediaInv DEF CompleteSendMedia, FailMediaSend, Result
<1>8. CASE RetryMediaSend(w)
  <2>1. BeforeSend(w)
    BY <1>8 DEF RetryMediaSend, RetryUnless, BeforeSend, Claimed
  <2>2. /\ worker'[w].pc \in {"done", "requeue", "fail"}
        /\ worker'[w].msg = worker[w].msg
        /\ \A v \in Worker : v # w => worker'[v] = worker[v]
    <3>1. CASE Goto(w, "done") \/ Goto(w, "fail")
      BY <1>0, <3>1, WorkerGoto
    <3>2. ASSUME NEW n, worker' = [worker EXCEPT ![w] = [@ EXCEPT !.pc = "requeue",
                                                                  !.attempts = n]]
          PROVE  <2>2!1 /\ <2>2!2 /\ <2>2!3
      BY <1>0, <3>2 DEF WorkersTyped, WorkerType
    <3> QED
      BY <1>8, <3>1, <3>2, Zenon DEF RetryMediaSend, RetryUnless
  <2> QED
    BY <1>8, <2>1, <2>2, WorkerFrame
       DEF RetryMediaSend, RetryUnless, dbVars, otherVars
<1>9. CASE Requeue(w)
  BY <1>9, RequeueInv
<1> QED
  BY <1>1, <1>2, <1>3, <1>4, <1>5, <1>6, <1>7, <1>8, <1>9 DEF WorkerStep

\* The LoggedOut handler fails the messages that wait, and leaves one that is
\* being sent with an unknown outcome.
LEMMA FailMediaSendsInv == ASSUME TypeOK, SendInv, FailMediaSends
                           PROVE  SendInv'
<1>0. /\ DatabaseTyped /\ WorkersTyped
      /\ ReservationInv /\ MessageInv /\ TextInv /\ WorkerInv
  BY DEF TypeOK, SendInv
<1>1. UNCHANGED <<keyOwner, upload, call, worker, calls, accepted>>
  BY DEF FailMediaSends, FailPending, queueVars
<1>2. CASE UNCHANGED <<msg, job>>
  BY <1>1, <1>2, OtherFrame
<1>3. CASE ~UNCHANGED <<msg, job>>
  <2>1. \A m \in Request :
          /\ job'[m] = "none"
          /\ msg'[m] = IF msg[m] # "queued" \/ job[m] = "none" THEN msg[m]
                       ELSE IF job[m] = "sending" THEN "outcome_unknown"
                       ELSE "failed"
    BY <1>3 DEF FailMediaSends, FailPending
  <2>2. \A m \in Request : /\ msg'[m] # "none" <=> msg[m] # "none"
                           /\ job[m] \in {"none", "queued", "uploading", "sending"}
    BY <1>0, <2>1 DEF DatabaseTyped, Phase
  <2>3. ReservationInv'
    BY <1>0, <1>1, <2>2 DEF ReservationInv, UploadSentOnce, Media
  <2>4. MessageInv'
    BY <1>0, <1>1, <2>1, <2>2 DEF MessageInv, Media
  <2>5. TextInv'
    BY <1>0, <1>1, <2>1 DEF TextInv, MessageInv, Media
  <2>6. WorkerInv'
    <3>1. \A w \in Worker : Claimed(w) => worker[w].msg \in Request
      BY <1>0 DEF WorkersTyped, Claimed
    <3> QED
      BY <1>0, <1>1, <2>1, <2>2, <3>1 DEF WorkerInv, Claimed, BeforeSend, Media
  <2> QED
    BY <2>3, <2>4, <2>5, <2>6 DEF SendInv
<1> QED
  BY <1>2, <1>3

\* An echo settles a message that the provider accepted.
LEMMA EchoInv == ASSUME TypeOK, SendInv, NEW e \in Request, Echo(e)
                 PROVE  SendInv'
<1>0. /\ DatabaseTyped /\ WorkersTyped
      /\ ReservationInv /\ MessageInv /\ TextInv /\ WorkerInv
  BY DEF TypeOK, SendInv
<1>1. /\ UNCHANGED <<keyOwner, upload, call, worker, calls, accepted>>
      /\ e \in accepted /\ calls[e] = 1
      /\ job'[e] = "none"
      /\ msg'[e] = IF msg[e] \in {"queued", "outcome_unknown"} THEN "sent" ELSE msg[e]
      /\ \A m \in Request : m # e => msg'[m] = msg[m] /\ job'[m] = job[m]
  BY <1>0 DEF Echo, queueVars, otherVars, DatabaseTyped, MessageInv
<1>2. /\ msg[e] \notin {"none", "failed"}
      /\ \A m \in Request : msg'[m] # "none" <=> msg[m] # "none"
  BY <1>0, <1>1 DEF MessageInv
<1>3. ReservationInv'
  BY <1>0, <1>1, <1>2 DEF ReservationInv, UploadSentOnce, Media
<1>4. MessageInv'
  BY <1>0, <1>1, <1>2 DEF MessageInv, Media
<1>5. TextInv'
  BY <1>0, <1>1, <1>2 DEF TextInv, Media
<1>6. WorkerInv'
  <2>1. \A w \in Worker : Claimed(w) => worker[w].msg \in Request
    BY <1>0 DEF WorkersTyped, Claimed
  <2> QED
    BY <1>0, <1>1, <1>2, <2>1 DEF WorkerInv, Claimed, BeforeSend, Media
<1> QED
  BY <1>3, <1>4, <1>5, <1>6 DEF SendInv

\* After a restart no call and no worker holds a message.
LEMMA RestartInv == ASSUME TypeOK, SendInv, Restart
                    PROVE  SendInv'
<1>0. /\ DatabaseTyped /\ CallsTyped
      /\ ReservationInv /\ MessageInv /\ TextInv /\ WorkerInv
  BY DEF TypeOK, SendInv
<1>1. /\ UNCHANGED <<keyOwner, upload, calls, accepted>>
      /\ \A m \in Request :
           /\ msg'[m] = IF msg[m] = "queued" /\ job[m] \in {"sending", "none"}
                          THEN "outcome_unknown" ELSE msg[m]
           /\ job'[m] = IF msg[m] # "queued" \/ job[m] \in {"sending", "none"}
                          THEN "none" ELSE "queued"
      /\ \A w \in Worker : worker'[w].pc = "idle"
  BY DEF Restart, Recover, IdleWorker
<1>2. \A r \in Request :
        /\ call'[r].pc \in {"idle", "done"}
        /\ call'[r].pc = "idle" => call[r].pc = "idle"
        /\ call'[r].key = call[r].key /\ call'[r].payload = call[r].payload
  <2> SUFFICES ASSUME NEW r \in Request
               PROVE  /\ call'[r].pc \in {"idle", "done"}
                      /\ call'[r].pc = "idle" => call[r].pc = "idle"
                      /\ call'[r].key = call[r].key
                      /\ call'[r].payload = call[r].payload
    OBVIOUS
  <2>1. CASE call[r].pc \in {"idle", "done"}
    BY <2>1 DEF Restart, Recover
  <2>2. CASE call[r].pc \notin {"idle", "done"}
    <3>1. call'[r] = [call[r] EXCEPT !.pc = "done"]
      BY <2>2 DEF Restart, Recover
    <3> QED
      BY <1>0, <3>1 DEF CallsTyped, CallType
  <2> QED
    BY <2>1, <2>2
<1>3. \A m \in Request : /\ msg'[m] # "none" <=> msg[m] # "none"
                         /\ Media(m)' <=> Media(m)
  BY <1>1, <1>2 DEF Media
<1>4. ReservationInv'
  BY <1>0, <1>1, <1>2, <1>3 DEF ReservationInv, UploadSentOnce
<1>5. MessageInv'
  BY <1>0, <1>1, <1>3 DEF MessageInv, DatabaseTyped, Phase
<1>6. TextInv'
  BY <1>2 DEF TextInv
<1>7. WorkerInv'
  BY <1>1 DEF WorkerInv, Claimed
<1> QED
  BY <1>4, <1>5, <1>6, <1>7 DEF SendInv

\* An upload that is dropped was ready, so no message had consumed it.
LEMMA DropUploadInv == ASSUME TypeOK, SendInv, NEW u \in Upload, DropUpload(u)
                       PROVE  SendInv'
<1>0. DatabaseTyped /\ ReservationInv /\ MessageInv /\ TextInv /\ WorkerInv
  BY DEF TypeOK, SendInv
<1>1. /\ UNCHANGED <<msg, job, keyOwner, calls, accepted, call, worker>>
      /\ \A x \in Upload : upload[x] = "used" => upload'[x] = "used"
  BY <1>0 DEF DropUpload, DatabaseTyped, queueVars, otherVars
<1>2. ReservationInv'
  BY <1>0, <1>1 DEF ReservationInv, UploadSentOnce, Media
<1>3. MessageInv' /\ TextInv' /\ WorkerInv'
  BY <1>0, <1>1 DEF MessageInv, TextInv, WorkerInv, Media, Claimed, BeforeSend
<1> QED
  BY <1>2, <1>3 DEF SendInv

\* Every step keeps SendInv.
LEMMA NextInv == ASSUME TypeOK, SendInv, [Next]_vars
                 PROVE  SendInv'
<1>1. CASE AccountStep
  <2>1. CASE FailMediaSends
    BY <2>1, FailMediaSendsInv
  <2>2. CASE Connected \/ ClearIdentity
    BY <2>2, OtherFrame DEF Connected, ClearIdentity, queueVars
  <2>3. CASE Offline \/ LoggedOut \/ StartLogin \/ LoginFails
    BY <2>3, OtherFrame DEF Offline, LoggedOut, StartLogin, LoginFails,
       dbVars, queueVars, otherVars
  <2> QED
    BY <1>1, <2>1, <2>2, <2>3 DEF AccountStep
<1>2. CASE ScanList
  BY <1>2, OtherFrame DEF ScanList, dbVars, otherVars
<1>3. ASSUME NEW m \in Request, ScanQueue(m) PROVE SendInv'
  BY <1>3, OtherFrame DEF ScanQueue, dbVars, otherVars
<1>4. CASE UNCHANGED vars
  BY <1>4, OtherFrame DEF vars, dbVars, queueVars, otherVars
<1> QED
  BY <1>1, <1>2, <1>3, <1>4, CallStepInv, WorkerStepInv, EchoInv, RestartInv,
     DropUploadInv DEF Next

\* The inductive invariant holds in every state.
THEOREM SendInvHolds == Spec => []SendInv
<1>1. TypeOK /\ SendInv /\ [Next]_vars => SendInv'
  BY NextInv
<1> QED
  BY InitInv, TypeCorrect, <1>1, PTL DEF Spec

\* The provider is asked at most once to send a message.
THEOREM AskedAtMostOnce == Spec => []AtMostOnce
<1>1. SendInv => AtMostOnce
  BY DEF SendInv, MessageInv, AtMostOnce
<1> QED
  BY SendInvHolds, <1>1, PTL

\* A message that reads "failed" was never handed to the provider.
THEOREM FailedMeansNotAsked == Spec => []FailedNotAsked
<1>1. SendInv => FailedNotAsked
  BY DEF SendInv, MessageInv, FailedNotAsked
<1> QED
  BY SendInvHolds, <1>1, PTL

\* An idempotency key stands for one message.
THEOREM KeyIsUnique == Spec => []OneMessagePerKey
<1>1. SendInv => OneMessagePerKey
  BY DEF SendInv, ReservationInv, OneMessagePerKey
<1> QED
  BY SendInvHolds, <1>1, PTL

\* An upload is sent by one message only.
THEOREM UploadIsUnique == Spec => []UploadSentOnce
<1>1. SendInv => UploadSentOnce
  BY DEF SendInv, ReservationInv
<1> QED
  BY SendInvHolds, <1>1, PTL

---------------------------------------------------------------------------
(* Answers                                                                 *)

\* Calls keep what they name, keys keep what they stand for, and a new answer is
\* what the key of its call stands for.
LEMMA AnswerKept ==
  ASSUME TypeOK, AnswerInv,
         \A r \in Request : call[r].pc # "idle" =>
           /\ call'[r].pc # "idle"
           /\ call'[r].key = call[r].key /\ call'[r].payload = call[r].payload,
         \A r \in Request : call'[r].answer # None =>
           /\ call'[r].pc = "done" /\ call[r].pc # "idle"
           /\ \/ call'[r].answer = call[r].answer
              \/ /\ keyOwner'[call[r].key] = call'[r].answer
                 /\ call[call'[r].answer].payload = call[r].payload,
         \A k \in Key : keyOwner'[k] = keyOwner[k] \/
           /\ keyOwner[k] = None /\ keyOwner'[k] \in Request
           /\ call[keyOwner'[k]].key = k /\ call[keyOwner'[k]].pc # "idle"
  PROVE  AnswerInv'
<1>1. /\ \A k \in Key : keyOwner[k] # None => keyOwner[k] \in Request
      /\ \A r \in Request : call[r].pc # "idle" => call[r].key \in Key
  BY DEF TypeOK, DatabaseTyped, CallsTyped
<1>2. \A k \in Key : keyOwner'[k] # None =>
        /\ keyOwner'[k] \in Request
        /\ call[keyOwner'[k]].key = k /\ call[keyOwner'[k]].pc # "idle"
  BY <1>1 DEF AnswerInv
<1>3. \A k \in Key : keyOwner'[k] # None => /\ call'[keyOwner'[k]].key = k
                                            /\ call'[keyOwner'[k]].pc # "idle"
  BY <1>2
<1>4. ASSUME NEW r \in Request, call'[r].answer # None
      PROVE  /\ keyOwner'[call'[r].key] = call'[r].answer
             /\ call'[call'[r].answer].payload = call'[r].payload
  <2> DEFINE a == call'[r].answer
  <2>1. call[r].key \in Key /\ call'[r].key = call[r].key
        /\ call'[r].payload = call[r].payload
    BY <1>1, <1>4
  <2>2. keyOwner'[call[r].key] = a /\ call[a].payload = call[r].payload
    BY <1>4, <2>1 DEF AnswerInv, AnswerMatches
  <2>3. a \in Request /\ call[a].pc # "idle"
    BY <1>2, <1>4, <2>1, <2>2
  <2> QED
    BY <2>1, <2>2, <2>3
<1> QED
  BY <1>3, <1>4 DEF AnswerInv, AnswerMatches

\* What an answer does to its call.
LEMMA AnsweredWith ==
  ASSUME CallsTyped, NEW r \in Request, NEW a, Answer(r, a)
  PROVE  /\ call'[r].pc = "done" /\ call'[r].answer = a
         /\ call'[r].key = call[r].key /\ call'[r].payload = call[r].payload
         /\ \A q \in Request : q # r => call'[q] = call[q]
BY DEF CallsTyped, CallType, Answer

\* An answer is right when it is nothing, or what the key stands for.
LEMMA AnswerInvAnswered ==
  ASSUME TypeOK, AnswerInv, NEW r \in Request, call[r].pc # "idle", NEW a,
         Answer(r, a), UNCHANGED keyOwner,
         a # None => keyOwner[call[r].key] = a /\ call[a].payload = call[r].payload
  PROVE  AnswerInv'
<1>1. CallsTyped
  BY DEF TypeOK
<1>2. \A q \in Request : q # r => call'[q] = call[q]
  BY <1>1, AnsweredWith
<1>3. \A q \in Request : call[q].answer # None => call[q].pc = "done"
  BY DEF AnswerInv
<1> QED
  BY <1>1, <1>2, <1>3, AnsweredWith, AnswerKept

\* So is what a lookup finds.
LEMMA SavedMatches ==
  ASSUME TypeOK, NEW r \in Request, Saved(r) # None
  PROVE  /\ keyOwner[call[r].key] = Saved(r)
         /\ call[Saved(r)].payload = call[r].payload
BY DEF Saved

\* A step that leaves the calls and the keys alone changes no answer.
LEMMA AnswerFrame == ASSUME AnswerInv, UNCHANGED <<call, keyOwner>> PROVE AnswerInv'
BY DEF AnswerInv, AnswerMatches

\* The calls of the API.
LEMMA CallStepAnswer == ASSUME TypeOK, SendInv, AnswerInv, NEW r \in Request, CallStep(r)
                        PROVE  AnswerInv'
<1>0. CallsTyped /\ call[r] \in CallType
  BY DEF TypeOK, CallsTyped
<1>a. \A q \in Request : call[q].answer # None => call[q].pc = "done"
  BY DEF AnswerInv
<1>1. CASE StartSend(r)
  <2>1. PICK k \in Key, p \in Payload :
          call' = [call EXCEPT ![r] = [@ EXCEPT !.pc = "lookup", !.key = k, !.payload = p]]
    BY <1>1 DEF StartSend, StartWith
  <2>2. /\ call'[r].answer = call[r].answer /\ call[r].pc = "idle"
        /\ \A q \in Request : q # r => call'[q] = call[q]
    BY <1>0, <1>1, <2>1 DEF StartSend, StartWith, CallsTyped, CallType
  <2>3. UNCHANGED keyOwner
    BY <1>1 DEF StartSend, StartWith, dbVars
  <2> QED
    BY <1>a, <2>2, <2>3, AnswerKept
<1>2. CASE LookupSend(r)
  <2>1. /\ call[r].pc = "lookup" /\ UNCHANGED keyOwner
        /\ Answer(r, Saved(r)) \/ call' = [call EXCEPT ![r].pc = "read"]
    BY <1>2 DEF LookupSend, dbVars
  <2>2. CASE Answer(r, Saved(r))
    BY <2>1, <2>2, AnswerInvAnswered, SavedMatches
  <2>3. CASE call' = [call EXCEPT ![r].pc = "read"]
    BY <1>0, <1>a, <2>1, <2>3, AnswerKept DEF CallsTyped, CallType
  <2> QED
    BY <2>1, <2>2, <2>3
<1>3. CASE ReadSession(r)
  <2>1. /\ call[r].pc = "read" /\ UNCHANGED keyOwner
        /\ \/ Answer(r, None)
           \/ call' = [call EXCEPT ![r] = [@ EXCEPT !.pc = "reserve", !.session = session]]
    BY <1>3 DEF ReadSession, dbVars
  <2>2. CASE Answer(r, None)
    BY <2>1, <2>2, AnswerInvAnswered
  <2>3. CASE call' = [call EXCEPT ![r] = [@ EXCEPT !.pc = "reserve", !.session = session]]
    BY <1>0, <1>a, <2>1, <2>3, AnswerKept DEF CallsTyped, CallType
  <2> QED
    BY <2>1, <2>2, <2>3
<1>4. CASE Reserve(r)
  <2>1. call[r].pc = "reserve" /\ call[r].key \in Key
    BY <1>0, <1>4 DEF Reserve, ReserveIf, CallsTyped
  <2>2. CASE UNCHANGED keyOwner /\ (Answer(r, Saved(r)) \/ Answer(r, None))
    BY <2>1, <2>2, AnswerInvAnswered, SavedMatches
  <2>3. CASE ~KeyUsed(r) /\ Insert(r)
    <3>1. /\ keyOwner' = [keyOwner EXCEPT ![call[r].key] = r]
          /\ keyOwner[call[r].key] = None
          /\ Answer(r, r) \/ call' = [call EXCEPT ![r].pc = "send"]
      BY <2>3 DEF Insert, KeyUsed
    <3>2. /\ keyOwner'[call[r].key] = r
          /\ \A k \in Key : keyOwner'[k] = keyOwner[k] \/ k = call[r].key
      BY <2>1, <3>1 DEF TypeOK, DatabaseTyped
    <3>3. CASE Answer(r, r)
      BY <1>0, <1>a, <2>1, <3>1, <3>2, <3>3, AnsweredWith, AnswerKept
    <3>4. CASE call' = [call EXCEPT ![r].pc = "send"]
      <4>1. /\ call'[r].pc = "send" /\ call'[r].answer = call[r].answer
            /\ call'[r].key = call[r].key /\ call'[r].payload = call[r].payload
            /\ \A q \in Request : q # r => call'[q] = call[q]
        BY <1>0, <3>4 DEF CallsTyped, CallType
      <4> QED
        BY <1>a, <2>1, <3>1, <3>2, <4>1, AnswerKept
    <3> QED
      BY <3>1, <3>3, <3>4
  <2> QED
    BY <1>4, <2>2, <2>3 DEF Reserve, ReserveIf
<1>5. CASE CallError(r)
  BY <1>5, AnswerInvAnswered DEF CallError, dbVars
<1>6. CASE SendText(r)
  <2>1. PICK result \in Result :
          call' = [call EXCEPT ![r] = [@ EXCEPT !.pc = "complete", !.result = result]]
    BY <1>6 DEF SendText
  <2>2. call[r].pc = "send" /\ UNCHANGED keyOwner
    BY <1>6 DEF SendText, dbVars
  <2> QED
    BY <1>0, <1>a, <2>1, <2>2, AnswerKept DEF CallsTyped, CallType
<1>7. CASE CompleteSend(r)
  <2>1. /\ call[r].pc = "complete" /\ UNCHANGED keyOwner
        /\ Answer(r, r) \/ Answer(r, None)
    BY <1>7 DEF CompleteSend, CompleteFrom
  <2>2. keyOwner[call[r].key] = r
    BY <2>1 DEF SendInv, TextInv, ReservationInv
  <2> QED
    BY <2>1, <2>2, AnswerInvAnswered
<1> QED
  BY <1>1, <1>2, <1>3, <1>4, <1>5, <1>6, <1>7 DEF CallStep

\* A restart ends the calls without an answer.
LEMMA RestartAnswer == ASSUME TypeOK, AnswerInv, Restart PROVE AnswerInv'
<1>1. ASSUME NEW r \in Request
      PROVE  /\ call'[r].key = call[r].key /\ call'[r].payload = call[r].payload
             /\ call'[r].answer = call[r].answer
             /\ call[r].pc # "idle" => call'[r].pc # "idle"
             /\ call[r].pc = "done" => call'[r].pc = "done"
  <2>1. CASE call[r].pc \in {"idle", "done"}
    BY <2>1 DEF Restart, Recover
  <2>2. CASE call[r].pc \notin {"idle", "done"}
    <3>1. call'[r] = [call[r] EXCEPT !.pc = "done"]
      BY <2>2 DEF Restart, Recover
    <3> QED
      BY <2>2, <3>1 DEF TypeOK, CallsTyped, CallType
  <2> QED
    BY <2>1, <2>2
<1>2. \A r \in Request : call[r].answer # None => call[r].pc = "done"
  BY DEF AnswerInv
<1>3. UNCHANGED keyOwner
  BY DEF Restart, Recover
<1> QED
  BY <1>1, <1>2, <1>3, AnswerKept

\* A call is answered with a message only if it named that message's key and payload.
THEOREM AnswersMatch == Spec => []AnswerMatches
<1>1. Init => AnswerInv
  BY DEF Init, AnswerInv, AnswerMatches, IdleCall
<1>2. TypeOK /\ SendInv /\ AnswerInv /\ [Next]_vars => AnswerInv'
  <2> SUFFICES ASSUME TypeOK, SendInv, AnswerInv, [Next]_vars PROVE AnswerInv'
    OBVIOUS
  <2>1. ASSUME NEW w \in Worker, WorkerStep(w) PROVE UNCHANGED <<call, keyOwner>>
    BY <2>1, Zenon DEF WorkerStep, Dequeue, ReadAccount, Claim, UploadMedia, StillConnected,
       BeginMediaSend, SendMedia, CompleteSendMedia, FailMediaSend, CompleteMediaSend,
       RetryMediaSend, RetryUnless, Requeue, RequeueAs, Finish, dbVars
  <2>2. CASE AccountStep
    BY <2>2, AnswerFrame DEF AccountStep, Connected, Offline, LoggedOut, ClearIdentity,
       FailMediaSends, FailPending, StartLogin, LoginFails, dbVars
  <2>3. CASE ScanList \/ (\E m \in Request : ScanQueue(m) \/ Echo(m))
             \/ (\E u \in Upload : DropUpload(u)) \/ UNCHANGED vars
    BY <2>3, AnswerFrame DEF ScanList, ScanQueue, Echo, DropUpload, vars, dbVars
  <2> QED
    BY <2>1, <2>2, <2>3, AnswerFrame, CallStepAnswer, RestartAnswer DEF Next
<1>3. AnswerInv => AnswerMatches
  BY DEF AnswerInv
<1> QED
  BY <1>1, <1>2, <1>3, TypeCorrect, SendInvHolds, PTL DEF Spec

---------------------------------------------------------------------------
(* The refinement of SendPromise                                           *)

Asked == {m \in Request : calls[m] > 0}

\* A message that nothing happens to.
LEMMA SameMove ==
  ASSUME NEW m \in Request, msg'[m] = msg[m], calls'[m] = calls[m],
         m \in accepted' <=> m \in accepted
  PROVE  Promise!Move(m)
BY DEF Promise!Move, Promise!Same

\* A message that is saved, before anybody is asked to send it.
LEMMA SaveMove ==
  ASSUME NEW m \in Request, msg[m] = "none", msg'[m] = "queued", calls'[m] = 0,
         m \notin accepted'
  PROVE  Promise!Move(m)
BY DEF Promise!Move, Promise!Save

\* The one call of the provider.
LEMMA AskMove ==
  ASSUME NEW m \in Request, msg[m] \in {"queued", "outcome_unknown"},
         msg'[m] = msg[m], calls[m] = 0, calls'[m] = 1
  PROVE  Promise!Move(m)
BY DEF Promise!Move, Promise!Ask

\* A result, a logout, an echo or a restart settles a message.
LEMMA SettleMove ==
  ASSUME NEW m \in Request, UNCHANGED <<calls, accepted>>,
         \/ msg[m] \in {"queued", "outcome_unknown"} /\ msg'[m] = "sent" /\ m \in accepted
         \/ msg[m] = "queued" /\ msg'[m] = "failed" /\ calls[m] = 0
         \/ msg[m] = "queued" /\ msg'[m] = "outcome_unknown"
  PROVE  Promise!Move(m)
BY DEF Promise!Move, Promise!Settle

\* What a step does to a message is a move of SendPromise.
LEMMA StepMoves ==
  ASSUME TypeOK, SendInv, SendInv', [Next]_vars, NEW m \in Request
  PROVE  Promise!Move(m)
<1>0. /\ DatabaseTyped /\ CallsTyped /\ WorkersTyped /\ ProviderTyped
      /\ ReservationInv /\ MessageInv /\ TextInv /\ WorkerInv
      /\ MessageInv'
  BY DEF TypeOK, SendInv
<1>1. CASE UNCHANGED <<msg, calls, accepted>>
  BY <1>1, SameMove
<1>2. ASSUME NEW r \in Request, Reserve(r) PROVE Promise!Move(m)
  <2>1. call[r].pc = "reserve" /\ msg[r] = "none" /\ calls[r] = 0 /\ r \notin accepted
    BY <1>0, <1>2
       DEF Reserve, ReserveIf, Insert, KeyUsed, Ready, ReservationInv, MessageInv
  <2>2. /\ UNCHANGED <<calls, accepted>>
        /\ msg' = msg \/ msg' = [msg EXCEPT ![r] = "queued"]
    BY <1>2 DEF Reserve, ReserveIf, Insert, KeyUsed, Ready, otherVars
  <2> QED
    BY <1>0, <2>1, <2>2, SameMove, SaveMove DEF DatabaseTyped
<1>3. ASSUME NEW a \in Request, NEW result, Outcome(a, result), UNCHANGED msg,
             calls[a] = 0, msg[a] \in {"queued", "outcome_unknown"}
      PROVE  Promise!Move(m)
  <2>1. /\ m # a => calls'[m] = calls[m] /\ (m \in accepted' <=> m \in accepted)
        /\ calls'[a] \in {0, 1}
        /\ calls'[a] = 0 => a \in accepted' <=> a \in accepted
    BY <1>0, <1>3 DEF Outcome, ProviderTyped, MessageInv
  <2> QED
    BY <1>3, <2>1, SameMove, AskMove
<1>4. ASSUME NEW r \in Request, SendText(r) PROVE Promise!Move(m)
  BY <1>0, <1>3, <1>4 DEF SendText, TextInv, dbVars
<1>5. ASSUME NEW w \in Worker, SendMedia(w) PROVE Promise!Move(m)
  <2>1. worker[w].msg \in Request /\ Claimed(w)
    BY <1>0, <1>5 DEF SendMedia, Claimed, WorkersTyped
  <2> QED
    BY <1>0, <1>3, <1>5, <2>1 DEF SendMedia, WorkerInv, dbVars
<1>6. ASSUME UNCHANGED <<calls, accepted>>,
             msg'[m] # msg[m] => msg[m] = "queued",
             msg'[m] \in {msg[m], "sent", "failed", "outcome_unknown"}
      PROVE  Promise!Move(m)
  BY <1>0, <1>6, SameMove, SettleMove DEF MessageInv
<1>7. ASSUME NEW r \in Request, CompleteSend(r) PROVE Promise!Move(m)
  <2>1. call[r].result \in Result
    BY <1>0 DEF CallsTyped, CallType
  <2> QED
    BY <1>0, <1>6, <1>7, <2>1
       DEF CompleteSend, CompleteFrom, DatabaseTyped, Result
<1>8. ASSUME NEW w \in Worker, CompleteSendMedia(w) \/ FailMediaSend(w)
      PROVE  Promise!Move(m)
  <2>1. worker[w].result \in Result
    BY <1>0 DEF WorkersTyped, WorkerType
  <2> QED
    BY <1>0, <1>6, <1>8, <2>1 DEF CompleteSendMedia, FailMediaSend,
       CompleteMediaSend, DatabaseTyped, Result
<1>9. CASE FailMediaSends \/ Restart
  BY <1>0, <1>6, <1>9
     DEF FailMediaSends, FailPending, Restart, Recover, DatabaseTyped, MsgState
<1>10. ASSUME NEW e \in Request, Echo(e) PROVE Promise!Move(m)
  BY <1>0, <1>10, SameMove, SettleMove DEF Echo, DatabaseTyped, otherVars
<1>11. ASSUME NEW r \in Request,
              \/ StartSend(r) \/ LookupSend(r) \/ ReadSession(r) \/ CallError(r)
       PROVE  UNCHANGED <<msg, calls, accepted>>
  BY <1>11, Zenon
     DEF StartSend, StartWith, LookupSend, ReadSession, CallError, dbVars, otherVars
<1>12. ASSUME NEW w \in Worker,
              \/ Dequeue(w) \/ ReadAccount(w) \/ Claim(w) \/ UploadMedia(w)
              \/ StillConnected(w) \/ BeginMediaSend(w) \/ RetryMediaSend(w)
              \/ Requeue(w) \/ Finish(w)
       PROVE  UNCHANGED <<msg, calls, accepted>>
  BY <1>12 DEF Dequeue, ReadAccount, Claim, UploadMedia, StillConnected,
     BeginMediaSend, RetryMediaSend, RetryUnless, Requeue, RequeueAs, Finish, dbVars, otherVars
<1>13. ASSUME \/ Connected \/ Offline \/ LoggedOut \/ ClearIdentity \/ StartLogin
              \/ LoginFails \/ ScanList \/ UNCHANGED vars
              \/ \E u \in Upload : DropUpload(u)
              \/ \E q \in Request : ScanQueue(q)
       PROVE  UNCHANGED <<msg, calls, accepted>>
  BY <1>13 DEF Connected, Offline, LoggedOut, ClearIdentity, StartLogin,
     LoginFails, ScanList, DropUpload, ScanQueue, vars, dbVars, otherVars
<1>14. CASE \E r \in Request : CallStep(r)
  BY <1>1, <1>2, <1>4, <1>7, <1>11, <1>14 DEF CallStep
<1>15. CASE \E w \in Worker : WorkerStep(w)
  BY <1>1, <1>5, <1>8, <1>12, <1>15 DEF WorkerStep
<1>16. CASE AccountStep
  BY <1>1, <1>9, <1>13, <1>16 DEF AccountStep
<1> QED
  BY <1>1, <1>9, <1>10, <1>13, <1>14, <1>15, <1>16 DEF Next

\* Every behaviour of the daemon is one that SendPromise allows.
THEOREM ImplementsPromise == Spec => KeepsPromise
<1>1. Init => Promise!Init
  BY DEF Init, Promise!Init
<1>2. TypeOK /\ TypeOK' /\ SendInv /\ SendInv' /\ [Next]_vars
        => [Promise!Next]_<<msg, Asked, accepted>>
  <2> SUFFICES ASSUME TypeOK, TypeOK', SendInv, SendInv', [Next]_vars
               PROVE  Promise!Next
    OBVIOUS
  <2>1. msg' \in [Request -> Promise!Status]
    BY DEF TypeOK, DatabaseTyped, MsgState, Promise!Status
  <2>2. accepted' \in SUBSET {m \in Request : calls'[m] > 0}
    BY DEF TypeOK, ProviderTyped, SendInv, MessageInv
  <2> QED
    BY <2>1, <2>2, StepMoves DEF Promise!Next
<1> QED
  BY <1>1, <1>2, TypeCorrect, SendInvHolds, PTL
  DEF Spec, KeepsPromise, Promise!Spec, Asked
=============================================================================
