------------------------- MODULE BrowserPush_proofs -------------------------
(***************************************************************************)
(* Proofs about BrowserPush, for every number of sessions, endpoints,      *)
(* messages and workers and every timing of the lease: type correctness,   *)
(* the inductive invariant PushInv and the properties it implies.          *)
(***************************************************************************)
EXTENDS BrowserPush, FiniteSetTheorems, TLAPS

---------------------------------------------------------------------------
(* Type correctness                                                        *)

\* A worker that is not idle holds a delivery, and a job.
LEMMA BusyTyped == ASSUME TypeOK, NEW w \in Worker, worker[w].pc # "idle"
                   PROVE  /\ worker[w] \in Delivery
                          /\ JobOf(w) \in Job
                          /\ Busy(w)
BY DEF TypeOK, Idle, Delivery, JobOf, Job, Busy

\* Moving a worker keeps its type.
LEMMA GotoTyped ==
  ASSUME TypeOK, NEW w \in Worker, worker[w].pc # "idle",
         NEW pc \in {"check", "send", "gone", "done", "drop", "retry"}, Goto(w, pc)
  PROVE  worker' \in [Worker -> Delivery \cup {Idle}]
<1>1. [worker[w] EXCEPT !.pc = pc] \in Delivery
  BY BusyTyped DEF Delivery
<1> QED
  BY <1>1 DEF Goto, TypeOK

LEMMA GiveUpTyped == ASSUME TypeOK, NEW w \in Worker, GiveUp(w)
                     PROVE  worker' \in [Worker -> Delivery \cup {Idle}]
BY DEF GiveUp, TypeOK

\* So does waiting as long as the push service asks for.
LEMMA AfterTyped ==
  ASSUME TypeOK, NEW w \in Worker, worker[w].pc # "idle", NEW after \in RetryAfter,
         worker' = [worker EXCEPT ![w] = [@ EXCEPT !.pc = "retry", !.after = after]]
  PROVE  worker' \in [Worker -> Delivery \cup {Idle}]
<1>1. [worker[w] EXCEPT !.pc = "retry", !.after = after] \in Delivery
  BY BusyTyped DEF Delivery
<1> QED
  BY <1>1 DEF TypeOK

\* Counting one more request keeps the type of a history variable.
LEMMA CountTyped ==
  ASSUME NEW f \in [Job -> Nat], NEW j \in Job, NEW n \in {0, 1}, NEW g,
         g = f \/ g = [f EXCEPT ![j] = f[j] + n]
  PROVE  g \in [Job -> Nat]
<1>1. f[j] + n \in Nat
  OBVIOUS
<1> QED
  BY <1>1

LEMMA DropTyped == ASSUME DatabaseTyped, NEW S, DropSubs(S)
                   PROVE  /\ sub' \in [Id -> SubType \cup {NoSub}]
                          /\ job' \in [Job -> JobType \cup {NoJob}]
BY DEF DatabaseTyped, DropSubs

LEMMA InitType == Init => TypeOK
BY PushAssumption
   DEF Init, TypeOK, DatabaseTyped, HistoryTyped, Job

\* The time of the next attempt is a time.
LEMMA NextTryType == ASSUME TypeOK, NEW w \in Worker, worker[w].pc # "idle"
                     PROVE  NextTry(w) \in Nat
<1>1. worker[w] \in Delivery
  BY BusyTyped
<1>2. worker[w].tries \in 1..MaxTries /\ worker[w].after \in Nat
  <2>1. worker[w].tries \in 1..MaxTries /\ worker[w].after \in RetryAfter \cup {0}
    BY <1>1 DEF Delivery
  <2>2. RetryAfter \cup {0} \subseteq Nat
    BY PushAssumption
  <2> QED
    BY <2>1, <2>2
<1>3. 2 ^ worker[w].tries \in Nat
  BY <1>2, BackoffAssumption
<1>4. now \in Nat
  BY DEF TypeOK
<1> QED
  BY <1>2, <1>3, <1>4 DEF NextTry

LEMMA FaultType == ASSUME TypeOK, Fault PROVE faults' \in 0..MaxFaults
BY PushAssumption DEF TypeOK, Fault

\* Counting and hiding a job keeps its type.
LEMMA JobTyped == ASSUME NEW x \in JobType, NEW n \in 0..MaxTries, NEW t \in Nat
                  PROVE  /\ [x EXCEPT !.tries = n, !.at = t] \in JobType
                         /\ [x EXCEPT !.at = t] \in JobType
BY DEF JobType

\* What a claim finds useful is queued, and may be tried once more.
LEMMA UsefulJobs == ASSUME TypeOK, NEW j \in Useful(MaxTries)
                    PROVE  /\ j \in Job /\ j \in Queued /\ job[j] \in JobType
                           /\ job[j].tries \in Nat /\ job[j].tries < MaxTries
                           /\ Keep(Useful(MaxTries))[j] = job[j]
BY PushAssumption DEF TypeOK, DatabaseTyped, Useful, Queued, Keep, JobType

\* A claim leaves the jobs as they are or hides one that is due; it names it.
LEMMA ClaimCases ==
  ASSUME NEW w \in Worker, ClaimNotification(w), NEW P,
         job' = Keep(Useful(MaxTries)) /\ UNCHANGED worker => P,
         ASSUME NEW j \in Due(Useful(MaxTries)),
                job' = [Keep(Useful(MaxTries)) EXCEPT ![j] =
                  [job[j] EXCEPT !.tries = job[j].tries + 1, !.at = now + Lease]],
                worker' = [worker EXCEPT ![w] =
                  [pc |-> "check", id |-> j[1], msg |-> j[2],
                   owner |-> sub[j[1]].owner, tries |-> job[j].tries + 1,
                   until |-> job[j].until, deadline |-> now + Timeout, after |-> 0]]
         PROVE  P
  PROVE P
BY DEF ClaimNotification, ClaimWith

---------------------------------------------------------------------------
(* Owners                                                                  *)

\* Losing subscriptions, with their jobs, and jobs keeps the invariant.
LEMMA OwnersShrink ==
  ASSUME OwnerInv, nextId' = nextId, signedOut' \subseteq revoked' \cup expired',
         \A i \in Id : sub'[i] # NoSub => /\ sub'[i] = sub[i]
                                          /\ sub[i].owner \notin signedOut',
         \A j \in Job : job'[j] # NoJob => /\ j \in Queued
                                           /\ job'[j].owner = job[j].owner
                                           /\ sub'[j[1]] # NoSub
  PROVE  OwnerInv'
<1>1. \A j \in Job : j[1] \in Id
  BY DEF Job
<1> QED
  BY <1>1
     DEF OwnerInv, SignedOutOwnsNothing, JobsFollowOwner, Queued, Subscribed

LEMMA OwnersDrop ==
  ASSUME TypeOK, OwnerInv, NEW S, DropSubs(S), nextId' = nextId,
         signedOut' \subseteq revoked' \cup expired',
         \A i \in Subscribed \ S : sub[i].owner \notin signedOut'
  PROVE  OwnerInv'
<1>1. \A i \in Id : sub'[i] # NoSub => sub'[i] = sub[i] /\ i \in Subscribed \ S
  BY DEF DropSubs, Subscribed
<1>2. \A j \in Job : job'[j] # NoJob => job'[j] = job[j] /\ j \in Queued /\ j[1] \notin S
  BY DEF DropSubs, Queued
<1>3. \A j \in Queued : j[1] \in Subscribed
  BY DEF OwnerInv
<1>4. \A j \in Job : job'[j] # NoJob => sub'[j[1]] # NoSub
  BY <1>2, <1>3 DEF DropSubs, Subscribed
<1> QED
  BY <1>1, <1>2, <1>4, OwnersShrink

\* Steps of a worker or the clock that only move or end jobs.
LEMMA OwnersSame ==
  ASSUME OwnerInv, UNCHANGED <<sub, nextId, signedOut, revoked, expired>>,
         \A j \in Job : job'[j] # NoJob => j \in Queued /\ job'[j].owner = job[j].owner
  PROVE  OwnerInv'
<1>1. \A i \in Id : sub[i] # NoSub => sub[i].owner \notin signedOut
  BY DEF OwnerInv, SignedOutOwnsNothing, Subscribed
<1>2. \A j \in Queued : sub[j[1]] # NoSub
  BY DEF OwnerInv, Subscribed
<1> QED
  BY <1>1, <1>2, OwnersShrink DEF OwnerInv

LEMMA OwnersInit == Init => OwnerInv
BY DEF Init, OwnerInv, SignedOutOwnsNothing, JobsFollowOwner, Queued, Subscribed

LEMMA OwnersSave ==
  ASSUME TypeOK, OwnerInv, NEW s \in Session, NEW e \in Endpoint, SaveSubscription(s, e)
  PROVE  OwnerInv'
<1>1. s \notin signedOut /\ UNCHANGED <<signedOut, revoked, expired>>
  BY DEF OwnerInv, SaveSubscription, SaveSubscriptionIf, history
<1>2. \A j \in Job : j[1] \in Id
  BY DEF Job
<1>3. CASE \E i \in Id : /\ sub[i].endpoint = e
                         /\ sub' = [sub EXCEPT ![i] = [@ EXCEPT !.owner = s]]
                         /\ job' = [j \in Job |-> IF j[1] = i /\ sub[i].owner # s
                                                    THEN NoJob ELSE job[j]]
                         /\ UNCHANGED nextId
  <2> PICK i \in Id : /\ sub[i].endpoint = e
                      /\ sub' = [sub EXCEPT ![i] = [@ EXCEPT !.owner = s]]
                      /\ job' = [j \in Job |-> IF j[1] = i /\ sub[i].owner # s
                                                 THEN NoJob ELSE job[j]]
                      /\ UNCHANGED nextId
    BY <1>3
  <2>1. i \in Subscribed
    BY PushAssumption DEF Subscribed, NoSub
  <2>2. sub[i] \in SubType
    BY <2>1 DEF TypeOK, DatabaseTyped, Subscribed
  <2>3. sub'[i].owner = s /\ sub'[i] # NoSub /\ \A k \in Id \ {i} : sub'[k] = sub[k]
    BY <2>2, PushAssumption DEF TypeOK, DatabaseTyped, SubType, NoSub
  <2>4. Subscribed' = Subscribed
    BY <2>1, <2>3 DEF Subscribed
  <2>5. \A j \in Queued' : j \in Queued /\ job'[j] = job[j]
                           /\ (j[1] = i => sub[i].owner = s)
    BY DEF Queued
  <2>6. SignedOutOwnsNothing'
    BY <1>1, <2>3, <2>4 DEF OwnerInv, SignedOutOwnsNothing, Subscribed
  <2>7. JobsFollowOwner'
    BY <1>2, <2>3, <2>5 DEF OwnerInv, JobsFollowOwner, Queued
  <2>8. \A j \in Queued' : j[1] \in Subscribed'
    BY <2>4, <2>5 DEF OwnerInv
  <2> QED
    BY <1>1, <2>4, <2>6, <2>7, <2>8 DEF OwnerInv
<1>4. CASE /\ nextId \in Id /\ nextId' = nextId + 1 /\ UNCHANGED job
           /\ sub' = [sub EXCEPT ![nextId] = [endpoint |-> e, owner |-> s]]
  <2>1. sub'[nextId].owner = s /\ sub'[nextId] # NoSub
        /\ \A k \in Id \ {nextId} : sub'[k] = sub[k]
    BY <1>4, PushAssumption DEF TypeOK, DatabaseTyped, NoSub
  <2>2. nextId \notin Subscribed
    BY <1>4 DEF OwnerInv, Subscribed, Id
  <2>3. Subscribed' = Subscribed \cup {nextId}
    BY <1>4, <2>1 DEF Subscribed
  <2>4. \A j \in Queued : j[1] \in Subscribed /\ j[1] # nextId
    BY <2>2 DEF OwnerInv
  <2>5. Queued' = Queued
    BY <1>4 DEF Queued
  <2>6. SignedOutOwnsNothing'
    BY <1>1, <2>1, <2>3 DEF OwnerInv, SignedOutOwnsNothing, Subscribed
  <2>7. JobsFollowOwner'
    BY <1>2, <1>4, <2>1, <2>4, <2>5 DEF OwnerInv, JobsFollowOwner, Queued
  <2>8. \A i \in Subscribed' : i < nextId'
    BY <1>4, <2>3 DEF OwnerInv, Id, Subscribed
  <2> QED
    BY <1>1, <2>3, <2>4, <2>5, <2>6, <2>7, <2>8 DEF OwnerInv
<1> QED
  BY <1>3, <1>4 DEF SaveSubscription, SaveSubscriptionIf

LEMMA OwnersIncoming ==
  ASSUME TypeOK, OwnerInv, NEW m \in Message, SaveIncomingMessage(m)
  PROVE  OwnerInv'
<1>1. UNCHANGED <<sub, nextId, signedOut, revoked, expired>>
  BY DEF SaveIncomingMessage, history
<1>2. \A j \in Job : job'[j] # NoJob =>
        /\ j[1] \in Subscribed
        /\ job'[j] = job[j] \/ job'[j].owner = sub[j[1]].owner
  BY DEF SaveIncomingMessage, OwnerInv, Queued
<1>3. \A j \in Job : job'[j] # NoJob => job'[j].owner = sub[j[1]].owner
  BY <1>2 DEF OwnerInv, JobsFollowOwner, Queued
<1> QED
  BY <1>1, <1>2, <1>3
     DEF OwnerInv, SignedOutOwnsNothing, JobsFollowOwner, Queued, Subscribed

\* A claim takes the subscriptions of expired sessions away, and their jobs.
LEMMA OwnersClaim ==
  ASSUME TypeOK, OwnerInv, NEW w \in Worker, ClaimNotification(w)
  PROVE  OwnerInv'
<1>1. /\ UNCHANGED <<nextId, signedOut, expired>>
      /\ revoked' = revoked \ expired
      /\ sub' = [i \in Id |-> IF i \in Outdated THEN NoSub ELSE sub[i]]
  BY DEF ClaimNotification, ClaimWith, history
<1>2. \A j \in Job : job'[j] # NoJob => /\ j \in Useful(MaxTries)
                                        /\ job'[j].owner = job[j].owner
  <2>1. CASE job' = Keep(Useful(MaxTries)) /\ UNCHANGED worker
    BY <2>1 DEF Keep
  <2>2. ASSUME NEW j \in Due(Useful(MaxTries)),
               job' = [Keep(Useful(MaxTries)) EXCEPT ![j] =
                 [job[j] EXCEPT !.tries = job[j].tries + 1, !.at = now + Lease]]
        PROVE  \A k \in Job : job'[k] # NoJob => /\ k \in Useful(MaxTries)
                                                 /\ job'[k].owner = job[k].owner
    <3>1. j \in Useful(MaxTries) /\ job[j] \in JobType
      BY UsefulJobs DEF Due
    <3>2. [job[j] EXCEPT !.tries = job[j].tries + 1, !.at = now + Lease].owner
            = job[j].owner
      BY <3>1 DEF JobType
    <3> QED
      BY <2>2, <3>1, <3>2 DEF Keep
  <2> QED
    BY <2>1, <2>2, ClaimCases
<1>3. \A j \in Useful(MaxTries) : j \in Queued /\ j[1] \in Subscribed /\ j[1] \notin Outdated
  BY DEF Useful, OwnerInv
<1>4. \A j \in Job : job'[j] # NoJob => sub'[j[1]] # NoSub
  BY <1>1, <1>2, <1>3 DEF Subscribed
<1>5. signedOut' \subseteq revoked' \cup expired'
  BY <1>1 DEF OwnerInv
<1>6. \A i \in Id : sub'[i] # NoSub => sub'[i] = sub[i] /\ sub[i].owner \notin signedOut'
  BY <1>1 DEF OwnerInv, SignedOutOwnsNothing, Subscribed
<1> QED
  BY <1>1, <1>2, <1>3, <1>4, <1>5, <1>6, OwnersShrink

\* Every step keeps the owners right.
LEMMA OwnersStep == TypeOK /\ OwnerInv /\ [Next]_vars => OwnerInv'
<1> SUFFICES ASSUME TypeOK, OwnerInv, [Next]_vars PROVE OwnerInv'
  OBVIOUS
<1> USE DEF history, bounds
<1>1. ASSUME NEW s \in Session, NEW i \in Id, DeleteSubscription(s, i) PROVE OwnerInv'
  BY <1>1, OwnersDrop DEF DeleteSubscription, OwnerInv, SignedOutOwnsNothing
<1>2. ASSUME NEW s \in Session, SignOut(s) PROVE OwnerInv'
  <2>1. DropSubs({i \in Id : sub[i].owner = s}) /\ nextId' = nextId
    BY <1>2 DEF SignOut
  <2>2. signedOut' = signedOut \cup {s} /\ revoked' = revoked \cup {s} /\ expired' = expired
    BY <1>2 DEF SignOut
  <2>3. signedOut' \subseteq revoked' \cup expired'
    BY <2>2 DEF OwnerInv
  <2>4. \A i \in Subscribed \ {i \in Id : sub[i].owner = s} : sub[i].owner \notin signedOut'
    BY <2>2 DEF OwnerInv, SignedOutOwnsNothing, Subscribed
  <2> QED
    BY <2>1, <2>3, <2>4, OwnersDrop
<1>3. ASSUME NEW s \in Session, Expire(s) PROVE OwnerInv'
  BY <1>3 DEF Expire, database, OwnerInv, SignedOutOwnsNothing, JobsFollowOwner,
              Queued, Subscribed
<1>4. ASSUME NEW s \in Session, NEW e \in Endpoint, SaveSubscription(s, e) PROVE OwnerInv'
  BY <1>4, OwnersSave
<1>5. ASSUME NEW m \in Message, SaveIncomingMessage(m) PROVE OwnerInv'
  BY <1>5, OwnersIncoming
<1>6. ASSUME NEW w \in Worker, WorkerStep(w) PROVE OwnerInv'
  <2>1. CASE ClaimNotification(w)
    BY <2>1, OwnersClaim
  <2>2. CASE Check(w) \/ Send(w)
    BY <2>2, OwnersSame, Zenon DEF Check, Send, SendIf, database, Queued
  <2>3. CASE Gone(w)
    <3>1. CASE UNCHANGED <<sub, job>>
      BY <2>3, <3>1, OwnersSame DEF Gone, Queued
    <3>2. CASE DropSubs(IF Owned(w) THEN {worker[w].id} ELSE {})
      <4>1. /\ signedOut' \subseteq revoked' \cup expired' /\ nextId' = nextId
            /\ \A i \in Subscribed : sub[i].owner \notin signedOut'
        BY <2>3 DEF Gone, OwnerInv, SignedOutOwnsNothing
      <4> QED
        BY <3>2, <4>1, OwnersDrop
    <3> QED
      BY <2>3, <3>1, <3>2 DEF Gone
  <2>4. CASE FinishNotification(w)
    <3>1. UNCHANGED <<sub, nextId, signedOut, revoked, expired>>
      BY <2>4 DEF FinishNotification, FinishUnless
    <3>2. \A j \in Job : job'[j] # NoJob => j \in Queued /\ job'[j].owner = job[j].owner
      <4> DEFINE j == JobOf(w)
      <4>1. \/ job' = job \/ job' = [job EXCEPT ![j] = NoJob]
            \/ /\ job[j] # NoJob
               /\ job' = [job EXCEPT ![j] = [job[j] EXCEPT !.at = NextTry(w)]]
        BY <2>4 DEF FinishNotification, FinishUnless
      <4>2. job[j] # NoJob /\ j \in Job
              => [job[j] EXCEPT !.at = NextTry(w)].owner = job[j].owner
        BY DEF TypeOK, DatabaseTyped, JobType
      <4>3. \A k \in Job \ {j} : job'[k] = job[k]
        BY <4>1 DEF TypeOK, DatabaseTyped
      <4>4. j \in Job /\ job'[j] # NoJob => job[j] # NoJob /\ job'[j].owner = job[j].owner
        BY <4>1, <4>2 DEF TypeOK, DatabaseTyped
      <4> QED
        BY <4>3, <4>4 DEF Queued
    <3> QED
      BY <3>1, <3>2, OwnersSame
  <2> QED
    BY <1>6, <2>1, <2>2, <2>3, <2>4 DEF WorkerStep
<1>7. CASE Restart \/ Tick \/ UNCHANGED vars
  BY <1>7, OwnersSame DEF Restart, Tick, vars, database, Queued
<1> QED
  BY <1>1, <1>2, <1>3, <1>4, <1>5, <1>6, <1>7 DEF Next

---------------------------------------------------------------------------
(* Every step keeps the types                                              *)

\* An owned job is of a session.
LEMMA OwnerType == ASSUME TypeOK, OwnerInv, NEW i \in Subscribed
                   PROVE  sub[i].owner \in Session
BY DEF TypeOK, DatabaseTyped, Subscribed, SubType

LEMMA ClaimType ==
  ASSUME TypeOK, OwnerInv, NEW w \in Worker, ClaimNotification(w)
  PROVE  TypeOK'
<1> DEFINE U == Useful(MaxTries)
<1>1. Keep(U) \in [Job -> JobType \cup {NoJob}]
  BY DEF TypeOK, DatabaseTyped, Useful, Queued, Keep
<1>2. /\ sub' \in [Id -> SubType \cup {NoSub}]
      /\ nextId' \in 1..(MaxId + 1)
      /\ revoked' \subseteq Session /\ saved' \subseteq Message
  BY DEF TypeOK, DatabaseTyped, ClaimNotification, ClaimWith
<1>3. /\ job' \in [Job -> JobType \cup {NoJob}]
      /\ worker' \in [Worker -> Delivery \cup {Idle}]
  <2>1. CASE job' = Keep(U) /\ UNCHANGED worker
    BY <1>1, <2>1 DEF TypeOK
  <2>2. ASSUME NEW j \in Due(U),
               job' = [Keep(U) EXCEPT ![j] =
                 [job[j] EXCEPT !.tries = job[j].tries + 1, !.at = now + Lease]],
               worker' = [worker EXCEPT ![w] =
                 [pc |-> "check", id |-> j[1], msg |-> j[2],
                  owner |-> sub[j[1]].owner, tries |-> job[j].tries + 1,
                  until |-> job[j].until, deadline |-> now + Timeout, after |-> 0]]
        PROVE  /\ job' \in [Job -> JobType \cup {NoJob}]
               /\ worker' \in [Worker -> Delivery \cup {Idle}]
    <3>1. j \in U
      BY DEF Due
    <3>2. now + Lease \in Nat /\ now + Timeout \in Nat /\ MaxTries \in Nat
      BY PushAssumption DEF TypeOK
    <3>3. job[j].tries + 1 \in 1..MaxTries /\ job[j].tries + 1 \in 0..MaxTries
      BY <3>1, <3>2, UsefulJobs
    <3>4. [job[j] EXCEPT !.tries = job[j].tries + 1, !.at = now + Lease] \in JobType
      BY <3>1, <3>2, <3>3, UsefulJobs, JobTyped, Zenon
    <3>5. job' \in [Job -> JobType \cup {NoJob}]
      BY <1>1, <2>2, <3>4
    <3>6. sub[j[1]].owner \in Session /\ job[j].until \in Nat
      BY <3>1, UsefulJobs, OwnerType DEF OwnerInv, JobType
    <3>7. j[1] \in Id /\ j[2] \in Message
      BY <3>1, UsefulJobs DEF Job
    <3>8. [pc |-> "check", id |-> j[1], msg |-> j[2],
           owner |-> sub[j[1]].owner, tries |-> job[j].tries + 1,
           until |-> job[j].until, deadline |-> now + Timeout, after |-> 0] \in Delivery
      BY <3>2, <3>3, <3>6, <3>7 DEF Delivery
    <3> QED
      BY <2>2, <3>5, <3>8 DEF TypeOK
  <2> QED
    BY <2>1, <2>2, ClaimCases
<1> QED
  BY <1>2, <1>3 DEF TypeOK, DatabaseTyped, HistoryTyped, ClaimNotification,
                    ClaimWith, history, bounds

LEMMA SaveType ==
  ASSUME TypeOK, NEW s \in Session, NEW e \in Endpoint, SaveSubscription(s, e)
  PROVE  TypeOK'
<1>1. sub' \in [Id -> SubType \cup {NoSub}] /\ nextId' \in 1..(MaxId + 1)
  <2>1. CASE nextId \in Id /\ nextId' = nextId + 1
             /\ sub' = [sub EXCEPT ![nextId] = [endpoint |-> e, owner |-> s]]
    <3>1. PICK x : x = [endpoint |-> e, owner |-> s]
      OBVIOUS
    <3>2. x \in SubType
      BY <3>1 DEF SubType
    <3>3. sub' \in [Id -> SubType \cup {NoSub}]
      BY <2>1, <3>1, <3>2 DEF TypeOK, DatabaseTyped
    <3>4. nextId' \in 1..(MaxId + 1)
      BY <2>1, PushAssumption DEF Id
    <3> QED
      BY <3>3, <3>4
  <2>2. ASSUME NEW i \in Id, sub[i].endpoint = e, nextId' = nextId,
               sub' = [sub EXCEPT ![i] = [@ EXCEPT !.owner = s]]
        PROVE  sub' \in [Id -> SubType \cup {NoSub}] /\ nextId' \in 1..(MaxId + 1)
    <3>1. sub[i] \in SubType
      BY <2>2, PushAssumption DEF TypeOK, DatabaseTyped, NoSub
    <3>2. [sub[i] EXCEPT !.owner = s] \in SubType
      BY <3>1 DEF SubType
    <3> QED
      BY <2>2, <3>2 DEF TypeOK, DatabaseTyped
  <2> QED
    BY <2>1, <2>2 DEF SaveSubscription, SaveSubscriptionIf
<1>2. job' \in [Job -> JobType \cup {NoJob}]
  BY DEF TypeOK, DatabaseTyped, SaveSubscription, SaveSubscriptionIf
<1> QED
  BY <1>1, <1>2 DEF TypeOK, DatabaseTyped, HistoryTyped, SaveSubscription,
                    SaveSubscriptionIf, history, bounds

LEMMA IncomingType ==
  ASSUME TypeOK, OwnerInv, NEW m \in Message, SaveIncomingMessage(m)
  PROVE  TypeOK'
<1>1. job' \in [Job -> JobType \cup {NoJob}]
  <2>1. now \in Nat /\ now + Lifetime \in Nat /\ 0 \in 0..MaxTries
    BY PushAssumption DEF TypeOK
  <2>2. \A i \in Subscribed : [tries |-> 0, at |-> now, until |-> now + Lifetime,
                               owner |-> sub[i].owner] \in JobType
    BY <2>1, OwnerType DEF JobType
  <2> QED
    BY <2>2 DEF SaveIncomingMessage, TypeOK, DatabaseTyped
<1> QED
  BY <1>1
     DEF TypeOK, DatabaseTyped, HistoryTyped, SaveIncomingMessage, history, bounds

LEMMA SendType == ASSUME TypeOK, NEW w \in Worker, Send(w) PROVE TypeOK'
<1>1. worker[w].pc = "send" /\ JobOf(w) \in Job
  BY BusyTyped, Zenon DEF Send, SendIf
<1>2. worker' \in [Worker -> Delivery \cup {Idle}]
  BY <1>1, GotoTyped, GiveUpTyped, AfterTyped, Zenon DEF Send, SendIf
<1>3. HistoryTyped'
  <2>1. /\ UNCHANGED signedOut
        /\ UNCHANGED asked \/ asked' = [asked EXCEPT ![JobOf(w)] = @ + 1]
        /\ UNCHANGED delivered \/ delivered' = [delivered EXCEPT ![JobOf(w)] = @ + 1]
        /\ UNCHANGED excused \/ excused' = [excused EXCEPT ![JobOf(w)] = @ + 1]
    BY Zenon DEF Send, SendIf
  <2>2. asked' \in [Job -> Nat] /\ delivered' \in [Job -> Nat]
    BY <1>1, <2>1, CountTyped DEF TypeOK, HistoryTyped
  <2>3. excused' \in [Job -> Nat]
    BY <1>1, <2>1, CountTyped DEF TypeOK, HistoryTyped
  <2> QED
    BY <2>1, <2>2, <2>3 DEF TypeOK, HistoryTyped
<1> QED
  BY <1>2, <1>3, Zenon DEF TypeOK, DatabaseTyped, Send, SendIf, database, bounds

LEMMA FinishType == ASSUME TypeOK, NEW w \in Worker, FinishNotification(w)
                    PROVE  TypeOK'
<1> DEFINE j == JobOf(w)
<1>1. worker[w].pc # "idle" /\ j \in Job
  BY BusyTyped DEF FinishNotification, FinishUnless
<1>2. job' \in [Job -> JobType \cup {NoJob}]
  <2>1. \/ job' = job \/ job' = [job EXCEPT ![j] = NoJob]
        \/ /\ job[j] # NoJob
           /\ job' = [job EXCEPT ![j] = [job[j] EXCEPT !.at = NextTry(w)]]
    BY DEF FinishNotification, FinishUnless
  <2>2. job[j] # NoJob => [job[j] EXCEPT !.at = NextTry(w)] \in JobType
    BY <1>1, NextTryType DEF TypeOK, DatabaseTyped, JobType
  <2> QED
    BY <2>1, <2>2 DEF TypeOK, DatabaseTyped
<1>3. excused' \in [Job -> Nat]
  <2>1. \/ excused' = excused
        \/ \E n \in {0, 1} : excused' = [excused EXCEPT ![j] = @ + n]
    BY DEF FinishNotification, FinishUnless
  <2> QED
    BY <1>1, <2>1, CountTyped DEF TypeOK, HistoryTyped
<1>4. worker' \in [Worker -> Delivery \cup {Idle}] /\ faults' \in 0..MaxFaults
  BY GiveUpTyped, FaultType DEF FinishNotification, FinishUnless, TypeOK
<1> QED
  BY <1>2, <1>3, <1>4
     DEF TypeOK, DatabaseTyped, HistoryTyped, FinishNotification,
                          FinishUnless

\* The number of workers in a set is a number.
LEMMA WorkerCount == ASSUME NEW S \in SUBSET Worker
                     PROVE  IsFiniteSet(S) /\ Cardinality(S) \in Nat
BY PushAssumption, FS_Subset, FS_CardinalityType

LEMMA TypeStep == TypeOK /\ OwnerInv /\ [Next]_vars => TypeOK'
<1> SUFFICES ASSUME TypeOK, OwnerInv, [Next]_vars PROVE TypeOK'
  OBVIOUS
<1> USE DEF database, history, bounds
<1>1. ASSUME NEW s \in Session, NEW i \in Id, DeleteSubscription(s, i) PROVE TypeOK'
  BY <1>1, DropTyped DEF DeleteSubscription, TypeOK, DatabaseTyped, HistoryTyped
<1>2. ASSUME NEW s \in Session, SignOut(s) PROVE TypeOK'
  BY <1>2, DropTyped DEF SignOut, TypeOK, DatabaseTyped, HistoryTyped
<1>3. ASSUME NEW s \in Session, Expire(s) PROVE TypeOK'
  BY <1>3 DEF Expire, TypeOK, DatabaseTyped, HistoryTyped
<1>4. ASSUME NEW s \in Session, NEW e \in Endpoint, SaveSubscription(s, e) PROVE TypeOK'
  BY <1>4, SaveType
<1>5. ASSUME NEW m \in Message, SaveIncomingMessage(m) PROVE TypeOK'
  BY <1>5, IncomingType
<1>6. ASSUME NEW w \in Worker, WorkerStep(w) PROVE TypeOK'
  <2>1. CASE ClaimNotification(w)
    BY <2>1, ClaimType
  <2>2. CASE Check(w)
    BY <2>2, GotoTyped, GiveUpTyped
       DEF Check, TypeOK, DatabaseTyped, HistoryTyped
  <2>3. CASE Send(w)
    BY <2>3, SendType
  <2>4. CASE Gone(w)
    <3>1. /\ worker' \in [Worker -> Delivery \cup {Idle}]
          /\ faults' \in 0..MaxFaults
          /\ sub' \in [Id -> SubType \cup {NoSub}]
          /\ job' \in [Job -> JobType \cup {NoJob}]
      BY <2>4, GotoTyped, GiveUpTyped, FaultType, DropTyped
         DEF Gone, TypeOK, DatabaseTyped
    <3> QED
      BY <2>4, <3>1 DEF Gone, TypeOK, DatabaseTyped, HistoryTyped
  <2>5. CASE FinishNotification(w)
    BY <2>5, FinishType
  <2> QED
    BY <1>6, <2>1, <2>2, <2>3, <2>4, <2>5 DEF WorkerStep
<1>7. CASE Restart
  <2>1. \A j \in Job : Cardinality({w \in Worker : worker[w].pc = "done" /\ JobOf(w) = j})
                         \in Nat
    BY WorkerCount
  <2>2. excused' \in [Job -> Nat]
    BY <1>7, <2>1 DEF Restart, TypeOK, HistoryTyped
  <2>3. restarts' \in 0..MaxRestarts
    BY <1>7, PushAssumption DEF Restart, TypeOK
  <2> QED
    BY <1>7, <2>2, <2>3 DEF Restart, TypeOK, DatabaseTyped, HistoryTyped
<1>8. CASE Tick
  BY <1>8, PushAssumption DEF Tick, TypeOK, DatabaseTyped, HistoryTyped
<1>9. CASE UNCHANGED vars
  BY <1>9 DEF vars, TypeOK, DatabaseTyped, HistoryTyped
<1> QED
  BY <1>1, <1>2, <1>3, <1>4, <1>5, <1>6, <1>7, <1>8, <1>9 DEF Next

---------------------------------------------------------------------------
(* Leases                                                                  *)

\* A worker ends its delivery or goes on with it.
Follows(v) == \/ worker'[v] = Idle
              \/ /\ Busy(v)
                 /\ worker'[v].id = worker[v].id
                 /\ worker'[v].msg = worker[v].msg
                 /\ worker'[v].deadline = worker[v].deadline

\* Nothing that was queued is replaced, and nothing becomes useful that was
\* saved before.
JobsMove ==
  \A j \in Job : job'[j] # NoJob => j \in Queued \/ (j[2] \notin saved /\ j[2] \in saved')

\* A worker that is late stays late.
LEMMA LateStays == ASSUME TypeOK, TypeOK', now' >= now, NEW v \in Worker, Follows(v),
                          worker'[v] # Idle, ~Late(v)'
                   PROVE  /\ Busy(v) /\ ~Late(v) /\ JobOf(v)' = JobOf(v)
                          /\ worker'[v].deadline = worker[v].deadline
                          /\ worker'[v].msg = worker[v].msg
<1>1. now \in Nat /\ now' \in Nat
  BY DEF TypeOK
<1>2. /\ Busy(v) /\ JobOf(v)' = JobOf(v)
      /\ worker'[v].deadline = worker[v].deadline
      /\ worker'[v].msg = worker[v].msg
  BY DEF Follows, JobOf
<1>3. worker[v].deadline \in Nat
  BY <1>2 DEF TypeOK, Delivery, Busy
<1> QED
  BY <1>1, <1>2, <1>3 DEF Late

\* Every step but a claim keeps the leases: only the worker that holds a job
\* in time may change it.
LEMMA LeaseKept ==
  ASSUME TypeOK, TypeOK', LeaseInv, now' >= now, saved \subseteq saved', JobsMove,
         \A v \in Worker : Follows(v),
         \A j \in Job : \/ job'[j] = NoJob \/ job'[j] = job[j]
                        \/ \A v \in Worker :
                             worker'[v] # Idle /\ JobOf(v)' = j => Late(v)'
  PROVE  LeaseInv'
<1>1. \A j \in Queued' : j[2] \in saved'
  BY DEF LeaseInv, JobsMove, Queued
<1>2. ASSUME NEW w \in Worker, worker'[w] # Idle
      PROVE  /\ worker'[w].msg \in saved'
             /\ ~Late(w)' /\ JobOf(w)' \in Queued' =>
                  job'[JobOf(w)'].at >= worker'[w].deadline
  <2>1. Busy(w) /\ worker'[w].msg \in saved'
    BY <1>2 DEF Follows, LeaseInv
  <2>2. ASSUME ~Late(w)', JobOf(w)' \in Queued'
        PROVE  job'[JobOf(w)'].at >= worker'[w].deadline
    <3> DEFINE j == JobOf(w)'
    <3>1. /\ ~Late(w) /\ j = JobOf(w)
          /\ worker'[w].deadline = worker[w].deadline
      BY <1>2, <2>2, LateStays
    <3>2. j \in Job /\ job'[j] # NoJob
      BY <2>2 DEF Queued
    <3>3. job'[j] = job[j]
      BY <1>2, <2>2, <3>2
    <3>4. j \in Queued
      BY <3>2, <3>3 DEF Queued
    <3> QED
      BY <2>1, <3>1, <3>3, <3>4 DEF LeaseInv
  <2> QED
    BY <2>1, <2>2
<1>3. ASSUME NEW w \in Worker, NEW v \in Worker, worker'[w] # Idle, worker'[v] # Idle,
             JobOf(v)' = JobOf(w)', ~Late(v)', ~Late(w)'
      PROVE  v = w
  BY <1>3, LateStays DEF LeaseInv
<1> QED
  BY <1>1, <1>2, <1>3 DEF LeaseInv, Busy

\* A job that is due has no worker in time, so the claim has it for itself.
LEMMA LeaseClaimed ==
  ASSUME TypeOK, TypeOK', LeaseInv, NEW w \in Worker, ClaimNotification(w)
  PROVE  LeaseInv'
<1>1. UNCHANGED now /\ UNCHANGED saved /\ now \in Nat
  <2>1. UNCHANGED now /\ UNCHANGED saved
    BY DEF ClaimNotification, ClaimWith
  <2> QED
    BY <2>1 DEF TypeOK
<1>2. CASE job' = Keep(Useful(MaxTries)) /\ UNCHANGED worker
  <2>1. JobsMove /\ \A j \in Job : job'[j] = NoJob \/ job'[j] = job[j]
    BY <1>2 DEF JobsMove, Keep, Queued
  <2>2. \A v \in Worker : Follows(v)
    BY <1>2 DEF Follows, Busy
  <2> QED
    BY <1>1, <2>1, <2>2, LeaseKept
<1>3. ASSUME NEW j \in Due(Useful(MaxTries)),
             job' = [Keep(Useful(MaxTries)) EXCEPT ![j] =
               [job[j] EXCEPT !.tries = job[j].tries + 1, !.at = now + Lease]],
             worker' = [worker EXCEPT ![w] =
               [pc |-> "check", id |-> j[1], msg |-> j[2],
                owner |-> sub[j[1]].owner, tries |-> job[j].tries + 1,
                until |-> job[j].until, deadline |-> now + Timeout, after |-> 0]]
      PROVE  LeaseInv'
  <2>1. j \in Queued /\ j \in Job /\ job[j] \in JobType /\ job[j].at <= now
    BY UsefulJobs DEF Due
  <2>2. /\ worker'[w].msg = j[2] /\ JobOf(w)' = j
        /\ worker'[w].deadline = now + Timeout
        /\ \A v \in Worker \ {w} : worker'[v] = worker[v]
    BY <1>3, <2>1 DEF TypeOK, JobOf, Job
  <2>3. job'[j].at = now + Lease /\ \A k \in Job \ {j} : job'[k] \in {NoJob, job[k]}
    BY <1>3, <2>1 DEF Keep, JobType
  <2>4. now + Lease >= now + Timeout
    BY <1>1, PushAssumption
  <2>5. Queued' \subseteq Queued
    BY <2>1, <2>3 DEF Queued
  <2>6. ASSUME NEW v \in Worker \ {w}, Busy(v), JobOf(v) = j PROVE Late(v)
    <3>1. worker[v].deadline \in Nat /\ job[j].at \in Nat
      BY <2>1, <2>6 DEF TypeOK, Busy, Delivery, JobType
    <3> QED
      BY <1>1, <2>1, <2>6, <3>1 DEF LeaseInv, Late
  <2>7. \A v \in Worker \ {w} : (Busy(v)' <=> Busy(v)) /\ (Late(v)' <=> Late(v))
                                /\ JobOf(v)' = JobOf(v)
    BY <1>1, <2>2 DEF Busy, Late, JobOf
  <2>8. \A k \in Queued' : k[2] \in saved'
    BY <1>1, <2>5 DEF LeaseInv
  <2>9. ASSUME NEW u \in Worker, Busy(u)' PROVE
          /\ worker'[u].msg \in saved'
          /\ ~Late(u)' /\ JobOf(u)' \in Queued' => job'[JobOf(u)'].at >= worker'[u].deadline
          /\ \A v \in Worker : Busy(v)' /\ JobOf(v)' = JobOf(u)' /\ ~Late(v)' /\ ~Late(u)'
                                 => v = u
    <3>1. CASE u = w
      BY <1>1, <2>1, <2>2, <2>3, <2>4, <2>6, <2>7, <3>1 DEF LeaseInv
    <3>2. CASE u # w
      <4>1. Busy(u) /\ worker'[u] = worker[u] /\ JobOf(u)' = JobOf(u)
            /\ (Late(u)' <=> Late(u))
        BY <2>2, <2>7, <2>9, <3>2
      <4>2. ~Late(u)' /\ JobOf(u)' \in Queued' => job'[JobOf(u)'].at >= worker'[u].deadline
        <5> SUFFICES ASSUME ~Late(u), JobOf(u) \in Queued'
                     PROVE  job'[JobOf(u)].at >= worker[u].deadline
          BY <4>1
        <5>1. JobOf(u) \in Job \ {j} /\ JobOf(u) \in Queued
          BY <2>5, <2>6, <3>2, <4>1 DEF Queued
        <5>2. job'[JobOf(u)] = job[JobOf(u)]
          BY <2>3, <5>1 DEF Queued
        <5> QED
          BY <4>1, <5>1, <5>2 DEF LeaseInv
      <4>3. ASSUME NEW v \in Worker, Busy(v)', JobOf(v)' = JobOf(u)', ~Late(v)', ~Late(u)'
            PROVE  v = u
        <5>1. CASE v = w
          BY <2>2, <2>6, <3>2, <4>1, <4>3, <5>1
        <5>2. CASE v # w
          BY <2>7, <4>1, <4>3, <5>2 DEF LeaseInv
        <5> QED
          BY <5>1, <5>2
      <4> QED
        BY <1>1, <4>1, <4>2, <4>3 DEF LeaseInv
    <3> QED
      BY <3>1, <3>2
  <2> QED
    BY <2>8, <2>9 DEF LeaseInv
<1> QED
  BY <1>2, <1>3, ClaimCases

\* The steps of a worker that is at a delivery go on with it or end it.
LEMMA WorkerFollows ==
  ASSUME TypeOK, NEW w \in Worker,
         Check(w) \/ Send(w) \/ Gone(w) \/ FinishNotification(w)
  PROVE  /\ \A v \in Worker : Follows(v)
         /\ \A v \in Worker \ {w} : worker'[v] = worker[v]
         /\ UNCHANGED now /\ UNCHANGED saved
<1>1. worker[w] \in Delivery /\ Busy(w)
  BY BusyTyped, Zenon DEF Check, Send, SendIf, Gone, FinishNotification, FinishUnless
<1>2. UNCHANGED now /\ UNCHANGED saved
  BY Zenon DEF Check, Send, SendIf, Gone, FinishNotification, FinishUnless, database
<1>3. \/ GiveUp(w)
      \/ \E pc \in {"send", "drop", "retry", "done", "gone"} : Goto(w, pc)
      \/ \E after \in RetryAfter :
           worker' = [worker EXCEPT ![w] = [@ EXCEPT !.pc = "retry", !.after = after]]
  BY Zenon DEF Check, Send, SendIf, Gone, FinishNotification, FinishUnless
<1>4. \A v \in Worker \ {w} : worker'[v] = worker[v]
  BY <1>3, Zenon DEF GiveUp, Goto, TypeOK
<1>5. ASSUME NEW v \in Worker \ {w} PROVE Follows(v)
  BY <1>4 DEF Follows, Busy
<1>6. ASSUME GiveUp(w) PROVE \A v \in Worker : Follows(v)
  <2>1. worker'[w] = Idle
    BY <1>6 DEF GiveUp, TypeOK
  <2> QED
    BY <1>5, <2>1 DEF Follows
<1>7. ASSUME NEW pc \in {"send", "drop", "retry", "done", "gone"}, Goto(w, pc)
      PROVE  \A v \in Worker : Follows(v)
  <2>1. worker'[w] = [worker[w] EXCEPT !.pc = pc]
    BY <1>7 DEF Goto, TypeOK
  <2>2. /\ worker'[w].id = worker[w].id /\ worker'[w].msg = worker[w].msg
        /\ worker'[w].deadline = worker[w].deadline
    BY <1>1, <2>1 DEF Delivery
  <2> QED
    BY <1>1, <1>5, <2>2 DEF Follows
<1>8. ASSUME NEW after \in RetryAfter,
             worker' = [worker EXCEPT ![w] = [@ EXCEPT !.pc = "retry", !.after = after]]
      PROVE  \A v \in Worker : Follows(v)
  <2>1. worker'[w] = [worker[w] EXCEPT !.pc = "retry", !.after = after]
    BY <1>8 DEF TypeOK
  <2>2. /\ worker'[w].id = worker[w].id /\ worker'[w].msg = worker[w].msg
        /\ worker'[w].deadline = worker[w].deadline
    BY <1>1, <2>1 DEF Delivery
  <2> QED
    BY <1>1, <1>5, <2>2 DEF Follows
<1> QED
  BY <1>2, <1>3, <1>4, <1>6, <1>7, <1>8, Zenon

\* What FinishNotification may do to the jobs: end its own, or hide it once
\* more while the delivery is in time.
LEMMA FinishJobs ==
  ASSUME TypeOK, NEW w \in Worker, FinishNotification(w)
  PROVE  /\ \A j \in Job \ {JobOf(w)} : job'[j] = job[j]
         /\ \/ job'[JobOf(w)] = NoJob \/ job' = job
            \/ /\ ~Late(w) /\ JobOf(w) \in Queued
               /\ job'[JobOf(w)].tries = job[JobOf(w)].tries
<1> DEFINE j == JobOf(w)
<1>1. j \in Job
  BY BusyTyped DEF FinishNotification, FinishUnless
<1>2. \/ job' = job \/ job' = [job EXCEPT ![j] = NoJob]
      \/ /\ ~Late(w) /\ job[j] # NoJob
         /\ job' = [job EXCEPT ![j] = [job[j] EXCEPT !.at = NextTry(w)]]
  BY DEF FinishNotification, FinishUnless
<1>3. job[j] # NoJob => [job[j] EXCEPT !.at = NextTry(w)].tries = job[j].tries
  BY <1>1 DEF TypeOK, DatabaseTyped, JobType
<1> QED
  BY <1>1, <1>2, <1>3 DEF TypeOK, DatabaseTyped, Queued

\* Steps that only take jobs away.
LEMMA DropJobs == ASSUME NEW S, DropSubs(S)
                  PROVE  \A j \in Job : job'[j] \in {NoJob, job[j]}
BY DEF DropSubs

LEMMA SaveJobs == ASSUME TypeOK, NEW s \in Session, NEW e \in Endpoint, SaveSubscription(s, e)
                  PROVE  \A j \in Job : job'[j] \in {NoJob, job[j]}
BY DEF SaveSubscription, SaveSubscriptionIf

LEMMA LeaseStep == TypeOK /\ TypeOK' /\ LeaseInv /\ [Next]_vars => LeaseInv'
<1> SUFFICES ASSUME TypeOK, TypeOK', LeaseInv, [Next]_vars PROVE LeaseInv'
  OBVIOUS
<1>0. now \in Nat
  BY DEF TypeOK
<1>1. ASSUME UNCHANGED worker, now' >= now, saved \subseteq saved',
             \A j \in Job : job'[j] \in {NoJob, job[j]}
      PROVE  LeaseInv'
  <2>1. JobsMove /\ \A v \in Worker : Follows(v)
    BY <1>1 DEF JobsMove, Follows, Queued, Busy
  <2> QED
    BY <1>1, <2>1, LeaseKept
<1>2. ASSUME NEW s \in Session, NEW i \in Id, DeleteSubscription(s, i) PROVE LeaseInv'
  BY <1>0, <1>1, <1>2, DropJobs DEF DeleteSubscription
<1>3. ASSUME NEW s \in Session, SignOut(s) PROVE LeaseInv'
  BY <1>0, <1>1, <1>3, DropJobs DEF SignOut
<1>4. ASSUME NEW s \in Session, Expire(s) PROVE LeaseInv'
  BY <1>0, <1>1, <1>4 DEF Expire, database
<1>5. ASSUME NEW s \in Session, NEW e \in Endpoint, SaveSubscription(s, e) PROVE LeaseInv'
  <2>1. UNCHANGED worker /\ UNCHANGED now /\ UNCHANGED saved
    BY <1>5 DEF SaveSubscription, SaveSubscriptionIf
  <2> QED
    BY <1>0, <1>1, <1>5, <2>1, SaveJobs
<1>6. ASSUME NEW m \in Message, SaveIncomingMessage(m) PROVE LeaseInv'
  <2>1. /\ UNCHANGED worker /\ UNCHANGED now /\ saved' = saved \cup {m} /\ m \notin saved
        /\ \A j \in Job : job'[j] = job[j] \/ j[2] = m
    BY <1>6 DEF SaveIncomingMessage
  <2>2. JobsMove
    BY <2>1 DEF JobsMove, Queued
  <2>3. \A v \in Worker : Follows(v) /\ (worker'[v] # Idle => JobOf(v)'[2] # m)
    BY <2>1 DEF Follows, LeaseInv, Busy, JobOf
  <2> QED
    BY <1>0, <2>1, <2>2, <2>3, LeaseKept
<1>7. ASSUME NEW w \in Worker, WorkerStep(w) PROVE LeaseInv'
  <2>1. CASE ClaimNotification(w)
    BY <2>1, LeaseClaimed
  <2>2. CASE Check(w) \/ Send(w) \/ Gone(w)
    <3>1. \A j \in Job : job'[j] \in {NoJob, job[j]}
      BY <2>2, DropJobs, Zenon DEF Check, Send, SendIf, Gone, database
    <3>2. JobsMove
      BY <3>1 DEF JobsMove, Queued
    <3> QED
      BY <1>0, <2>2, <3>1, <3>2, WorkerFollows, LeaseKept
  <2>3. CASE FinishNotification(w)
    <3>1. /\ \A v \in Worker : Follows(v)
          /\ \A v \in Worker \ {w} : worker'[v] = worker[v]
          /\ UNCHANGED now /\ UNCHANGED saved
      BY <2>3, WorkerFollows
    <3>2. JobsMove
      BY <2>3, FinishJobs DEF JobsMove, Queued
    <3>3. worker'[w] = Idle /\ Busy(w)
      BY <2>3, BusyTyped DEF FinishNotification, FinishUnless, GiveUp, TypeOK
    <3>4. ASSUME ~Late(w), NEW v \in Worker, worker'[v] # Idle, JobOf(v)' = JobOf(w)
          PROVE  Late(v)'
      BY <1>0, <3>1, <3>3, <3>4, LateStays DEF LeaseInv
    <3>5. \A j \in Job : \/ job'[j] = NoJob \/ job'[j] = job[j]
                         \/ \A v \in Worker :
                              worker'[v] # Idle /\ JobOf(v)' = j => Late(v)'
      BY <2>3, <3>4, FinishJobs
    <3> QED
      BY <1>0, <3>1, <3>2, <3>5, LeaseKept
  <2> QED
    BY <1>7, <2>1, <2>2, <2>3 DEF WorkerStep
<1>8. CASE Restart
  <2>1. JobsMove /\ \A v \in Worker : Follows(v)
    BY <1>8 DEF Restart, database, JobsMove, Follows, Queued
  <2> QED
    BY <1>0, <1>8, <2>1, LeaseKept DEF Restart, database
<1>9. CASE Tick \/ UNCHANGED vars
  BY <1>0, <1>1, <1>9 DEF Tick, vars, database
<1> QED
  BY <1>2, <1>3, <1>4, <1>5, <1>6, <1>7, <1>8, <1>9 DEF Next

---------------------------------------------------------------------------
(* Attempts                                                                *)

\* Moving one worker into or out of a set of workers.
LEMMA CountMove ==
  ASSUME NEW S \in SUBSET Worker, NEW T \in SUBSET Worker, NEW w \in Worker,
         S \ {w} = T \ {w}
  PROVE  Cardinality(T) = Cardinality(S) + (IF w \in T THEN 1 ELSE 0)
                                         - (IF w \in S THEN 1 ELSE 0)
<1>1. IsFiniteSet(S) /\ IsFiniteSet(T) /\ Cardinality(S) \in Nat /\ Cardinality(T) \in Nat
  BY WorkerCount
<1>2. Cardinality(S \ {w}) = IF w \in S THEN Cardinality(S) - 1 ELSE Cardinality(S)
  BY <1>1, FS_RemoveElement
<1>3. Cardinality(T \ {w}) = IF w \in T THEN Cardinality(T) - 1 ELSE Cardinality(T)
  BY <1>1, FS_RemoveElement
<1> QED
  BY <1>1, <1>2, <1>3

\* Where a worker is after a step of its own.
LEMMA GotoIs ==
  ASSUME TypeOK, NEW w \in Worker, worker[w].pc # "idle",
         NEW pc \in {"check", "send", "gone", "done", "drop", "retry"}, Goto(w, pc)
  PROVE  worker'[w].pc = pc /\ JobOf(w)' = JobOf(w)
<1>1. worker'[w] = [worker[w] EXCEPT !.pc = pc]
  BY DEF Goto, TypeOK
<1> QED
  BY <1>1, BusyTyped DEF Delivery, JobOf

\* Two fields of a delivery are replaced, the others stay.
LEMMA RetryFields ==
  ASSUME NEW x \in Delivery, NEW after, NEW y, y = [x EXCEPT !.pc = "retry", !.after = after]
  PROVE  y.pc = "retry" /\ y.id = x.id /\ y.msg = x.msg
<1>1. PICK z : z = [x EXCEPT !.pc = "retry"]
  OBVIOUS
<1>2. /\ z.pc = "retry" /\ z.id = x.id /\ z.msg = x.msg
      /\ DOMAIN z = {"pc", "id", "msg", "owner", "tries", "until", "deadline", "after"}
  BY <1>1 DEF Delivery
<1>3. y = [z EXCEPT !.after = after]
  BY <1>1
<1> QED
  BY <1>2, <1>3

LEMMA AfterIs ==
  ASSUME TypeOK, NEW w \in Worker, worker[w].pc # "idle", NEW after \in RetryAfter,
         worker' = [worker EXCEPT ![w] = [@ EXCEPT !.pc = "retry", !.after = after]]
  PROVE  worker'[w].pc = "retry" /\ JobOf(w)' = JobOf(w)
<1>1. worker'[w] = [worker[w] EXCEPT !.pc = "retry", !.after = after]
  BY DEF TypeOK
<1>2. worker[w] \in Delivery
  BY BusyTyped
<1>3. /\ worker'[w].pc = "retry"
      /\ worker'[w].id = worker[w].id /\ worker'[w].msg = worker[w].msg
  <2>1. PICK x, y : x = worker[w] /\ y = worker'[w]
    OBVIOUS
  <2>2. y = [x EXCEPT !.pc = "retry", !.after = after]
    BY <1>1, <2>1
  <2>3. x \in Delivery
    BY <1>2, <2>1
  <2>4. y.pc = "retry" /\ y.id = x.id /\ y.msg = x.msg
    BY <2>2, <2>3, RetryFields, Zenon
  <2> QED
    BY <2>1, <2>4
<1> QED
  BY <1>3 DEF JobOf

LEMMA GiveUpIs == ASSUME TypeOK, NEW w \in Worker, GiveUp(w)
                  PROVE  worker'[w] = Idle /\ worker'[w].pc = "idle"
BY DEF TypeOK, GiveUp, Idle

\* A worker on its way does not start to try again, and a request that it
\* makes is one that was counted.
LEMMA AttemptMove ==
  ASSUME TypeOK, AttemptInv, NEW w \in Worker, worker[w].pc # "idle",
         \A v \in Worker \ {w} : worker'[v] = worker[v],
         worker'[w].pc \in {"check", "send"}
           => worker[w].pc \in {"check", "send"} /\ JobOf(w)' = JobOf(w),
         \/ asked' = asked
         \/ /\ asked' = [asked EXCEPT ![JobOf(w)] = @ + 1]
            /\ worker[w].pc \in {"check", "send"}
            /\ worker'[w].pc \notin {"check", "send"},
         saved' = saved,
         \A j \in Job : job'[j] # NoJob => j \in Queued /\ job'[j].tries = job[j].tries
  PROVE  AttemptInv'
<1> DEFINE d == JobOf(w)
<1>1. \A j \in Job : Trying(j)' \in SUBSET Worker /\ Trying(j) \in SUBSET Worker
                     /\ Trying(j)' \ {w} = Trying(j) \ {w}
  BY DEF Trying, JobOf
<1>2. d \in Job
  BY BusyTyped
<1>3. \A j \in Job : Cardinality(Trying(j)') =
        Cardinality(Trying(j)) + (IF w \in Trying(j)' THEN 1 ELSE 0)
                               - (IF w \in Trying(j) THEN 1 ELSE 0)
  BY <1>1, CountMove
<1>4. \A j \in Job : /\ w \in Trying(j) <=> worker[w].pc \in {"check", "send"} /\ j = d
                     /\ w \in Trying(j)' => w \in Trying(j) /\ worker'[w].pc \in {"check", "send"}
  BY DEF Trying
<1>5. \A j \in Job : asked[j] \in Nat /\ asked'[j] \in Nat /\ Cardinality(Trying(j)) \in Nat
                     /\ Cardinality(Trying(j)') \in Nat
  <2>1. \A j \in Job : asked[j] \in Nat /\ asked'[j] \in Nat
    BY <1>2 DEF TypeOK, HistoryTyped
  <2> QED
    BY <1>1, <2>1, WorkerCount
<1>6. \A j \in Job : asked'[j] + Cardinality(Trying(j)') <= asked[j] + Cardinality(Trying(j))
  <2>1. CASE asked' = asked
    BY <1>3, <1>4, <1>5, <2>1
  <2>2. CASE asked' # asked
    <3>1. /\ asked'[d] = asked[d] + 1 /\ \A j \in Job \ {d} : asked'[j] = asked[j]
          /\ w \in Trying(d) /\ \A j \in Job : w \notin Trying(j)'
      BY <1>2, <1>4, <2>2 DEF TypeOK, HistoryTyped
    <3> QED
      BY <1>3, <1>4, <1>5, <3>1
  <2> QED
    BY <2>1, <2>2
<1> QED
  <2> SUFFICES ASSUME NEW j \in Job
               PROVE  LET n == asked'[j] + Cardinality(Trying(j)') IN
                        /\ n <= MaxTries
                        /\ j \in Queued' => n <= job'[j].tries
                        /\ j[2] \notin saved => n = 0
    BY DEF AttemptInv
  <2>1. LET n == asked[j] + Cardinality(Trying(j)) IN
          /\ n <= MaxTries
          /\ j \in Queued => n <= job[j].tries
          /\ j[2] \notin saved => n = 0
    BY DEF AttemptInv
  <2>2. j \in Queued' => /\ j \in Queued /\ job'[j].tries = job[j].tries
                         /\ job[j].tries \in Nat
    BY PushAssumption DEF Queued, TypeOK, DatabaseTyped, JobType
  <2>3. MaxTries \in Nat
    BY PushAssumption
  <2> QED
    BY <1>5, <1>6, <2>1, <2>2, <2>3

\* Steps without a worker.
LEMMA AttemptRest ==
  ASSUME TypeOK, TypeOK', AttemptInv, asked' = asked, saved \subseteq saved',
         \A v \in Worker : worker'[v] \in {Idle, worker[v]},
         \A j \in Job : job'[j] # NoJob =>
           j[2] \notin saved \/ (j \in Queued /\ job'[j].tries = job[j].tries)
  PROVE  AttemptInv'
<1> SUFFICES ASSUME NEW j \in Job
             PROVE  LET n == asked[j] + Cardinality(Trying(j)') IN
                      /\ n <= MaxTries
                      /\ j \in Queued' => n <= job'[j].tries
                      /\ j[2] \notin saved' => n = 0
  BY DEF AttemptInv
<1>1. LET n == asked[j] + Cardinality(Trying(j)) IN
        /\ n <= MaxTries
        /\ j \in Queued => n <= job[j].tries
        /\ j[2] \notin saved => n = 0
  BY DEF AttemptInv
<1>2. /\ Trying(j)' \subseteq Trying(j)
      /\ Trying(j) \in SUBSET Worker /\ Trying(j)' \in SUBSET Worker
  BY DEF Trying, JobOf, Idle
<1>3. Cardinality(Trying(j)') <= Cardinality(Trying(j))
      /\ Cardinality(Trying(j)) \in Nat /\ Cardinality(Trying(j)') \in Nat
  BY <1>2, WorkerCount, FS_Subset
<1>4. asked[j] \in Nat /\ MaxTries \in Nat
  BY PushAssumption DEF TypeOK, HistoryTyped
<1>5. j \in Queued' => job'[j].tries \in Nat
  BY DEF Queued, TypeOK, DatabaseTyped, JobType
<1>6. j \in Queued => job[j].tries \in Nat
  BY DEF Queued, TypeOK, DatabaseTyped, JobType
<1>7. j \in Queued' => j[2] \notin saved \/ (j \in Queued /\ job'[j].tries = job[j].tries)
  BY DEF Queued
<1> DEFINE old == asked[j] + Cardinality(Trying(j))
           new == asked[j] + Cardinality(Trying(j)')
<1>8. new \in Nat /\ old \in Nat /\ new <= old
  BY <1>3, <1>4
<1>9. /\ old <= MaxTries
      /\ j \in Queued => old <= job[j].tries
      /\ j[2] \notin saved => old = 0
  BY <1>1
<1> HIDE DEF old, new
<1>10. /\ new <= MaxTries
       /\ j \in Queued' => new <= job'[j].tries
       /\ j[2] \notin saved' => new = 0
  BY <1>4, <1>5, <1>6, <1>7, <1>8, <1>9
<1> QED
  BY <1>10 DEF new

\* A claim counts the attempt that it starts.
LEMMA AttemptClaimed ==
  ASSUME TypeOK, TypeOK', AttemptInv, LeaseInv, NEW w \in Worker, ClaimNotification(w)
  PROVE  AttemptInv'
<1>1. UNCHANGED asked /\ UNCHANGED saved /\ worker[w] = Idle
  BY DEF ClaimNotification, ClaimWith, history
<1>2. CASE job' = Keep(Useful(MaxTries)) /\ UNCHANGED worker
  <2>1. \A j \in Job : job'[j] # NoJob => j \in Queued /\ job'[j].tries = job[j].tries
    BY <1>2 DEF Keep, Queued
  <2> QED
    BY <1>1, <1>2, <2>1, AttemptRest
<1>3. ASSUME NEW d \in Due(Useful(MaxTries)),
             job' = [Keep(Useful(MaxTries)) EXCEPT ![d] =
               [job[d] EXCEPT !.tries = job[d].tries + 1, !.at = now + Lease]],
             worker' = [worker EXCEPT ![w] =
               [pc |-> "check", id |-> d[1], msg |-> d[2],
                owner |-> sub[d[1]].owner, tries |-> job[d].tries + 1,
                until |-> job[d].until, deadline |-> now + Timeout, after |-> 0]]
      PROVE  AttemptInv'
  <2>1. d \in Job /\ d \in Queued /\ job[d] \in JobType
        /\ job[d].tries \in Nat /\ job[d].tries < MaxTries
    BY UsefulJobs DEF Due
  <2>2. /\ worker'[w].pc = "check" /\ JobOf(w)' = d
        /\ \A v \in Worker \ {w} : worker'[v] = worker[v]
    BY <1>3, <2>1 DEF TypeOK, JobOf, Job
  <2>3. /\ job'[d].tries = job[d].tries + 1
        /\ \A j \in Job \ {d} : job'[j] \in {NoJob, job[j]}
    BY <1>3, <2>1 DEF Keep, JobType
  <2>4. \A j \in Job : /\ Trying(j) \in SUBSET Worker /\ Trying(j)' \in SUBSET Worker
                       /\ Trying(j)' \ {w} = Trying(j) \ {w}
                       /\ w \notin Trying(j)
                       /\ w \in Trying(j)' <=> j = d
    BY <1>1, <2>2 DEF Trying, JobOf, Idle
  <2>5. \A j \in Job : /\ Cardinality(Trying(j)) \in Nat
                       /\ Cardinality(Trying(j)') =
                            Cardinality(Trying(j)) + IF j = d THEN 1 ELSE 0
    BY <2>4, CountMove, WorkerCount
  <2> SUFFICES ASSUME NEW j \in Job
               PROVE  LET n == asked[j] + Cardinality(Trying(j)') IN
                        /\ n <= MaxTries
                        /\ j \in Queued' => n <= job'[j].tries
                        /\ j[2] \notin saved => n = 0
    BY <1>1 DEF AttemptInv
  <2>6. LET n == asked[j] + Cardinality(Trying(j)) IN
          /\ n <= MaxTries
          /\ j \in Queued => n <= job[j].tries
          /\ j[2] \notin saved => n = 0
    BY DEF AttemptInv
  <2>7. asked[j] \in Nat /\ MaxTries \in Nat
    BY PushAssumption DEF TypeOK, HistoryTyped
  <2>8. CASE j = d
    <3>1. d[2] \in saved
      BY <2>1 DEF LeaseInv
    <3> QED
      BY <2>1, <2>3, <2>5, <2>6, <2>7, <2>8, <3>1
  <2>9. CASE j # d
    <3>1. Cardinality(Trying(j)') = Cardinality(Trying(j))
      BY <2>5, <2>9
    <3>2. j \in Queued' => j \in Queued /\ job'[j] = job[j]
      BY <2>3, <2>9 DEF Queued
    <3> QED
      BY <2>6, <3>1, <3>2
  <2> QED
    BY <2>8, <2>9
<1> QED
  BY <1>2, <1>3, ClaimCases

LEMMA AttemptStep ==
  TypeOK /\ TypeOK' /\ LeaseInv /\ AttemptInv /\ [Next]_vars => AttemptInv'
<1> SUFFICES ASSUME TypeOK, TypeOK', LeaseInv, AttemptInv, [Next]_vars PROVE AttemptInv'
  OBVIOUS
<1>1. ASSUME UNCHANGED worker, UNCHANGED asked, saved \subseteq saved',
             \A j \in Job : job'[j] \in {NoJob, job[j]}
      PROVE  AttemptInv'
  BY <1>1, AttemptRest DEF Queued
<1>2. ASSUME NEW s \in Session, NEW i \in Id, DeleteSubscription(s, i) PROVE AttemptInv'
  BY <1>1, <1>2, DropJobs DEF DeleteSubscription, history
<1>3. ASSUME NEW s \in Session, SignOut(s) PROVE AttemptInv'
  BY <1>1, <1>3, DropJobs DEF SignOut
<1>4. ASSUME NEW s \in Session, Expire(s) PROVE AttemptInv'
  BY <1>1, <1>4 DEF Expire, database, history
<1>5. ASSUME NEW s \in Session, NEW e \in Endpoint, SaveSubscription(s, e) PROVE AttemptInv'
  <2>1. UNCHANGED worker /\ UNCHANGED asked /\ UNCHANGED saved
    BY <1>5 DEF SaveSubscription, SaveSubscriptionIf, history
  <2> QED
    BY <1>1, <1>5, <2>1, SaveJobs
<1>6. ASSUME NEW m \in Message, SaveIncomingMessage(m) PROVE AttemptInv'
  <2>1. /\ UNCHANGED worker /\ UNCHANGED asked /\ saved \subseteq saved' /\ m \notin saved
        /\ \A j \in Job : job'[j] = job[j] \/ j[2] = m
    BY <1>6 DEF SaveIncomingMessage, history
  <2> QED
    BY <2>1, AttemptRest DEF Queued
<1>7. ASSUME NEW w \in Worker, WorkerStep(w) PROVE AttemptInv'
  <2>1. CASE ClaimNotification(w)
    BY <2>1, AttemptClaimed
  <2>2. CASE Check(w)
    <3>1. /\ UNCHANGED asked /\ UNCHANGED saved /\ UNCHANGED job
          /\ worker[w].pc = "check"
      BY <2>2 DEF Check, database, history
    <3>2. worker'[w].pc \in {"check", "send"} => JobOf(w)' = JobOf(w)
      BY <2>2, <3>1, GotoIs, GiveUpIs DEF Check
    <3>3. \A v \in Worker \ {w} : worker'[v] = worker[v]
      BY <2>2, WorkerFollows
    <3> QED
      BY <3>1, <3>2, <3>3, AttemptMove DEF Queued
  <2>3. CASE Send(w)
    <3>1. UNCHANGED saved /\ UNCHANGED job /\ worker[w].pc = "send"
      BY <2>3, Zenon DEF Send, SendIf, database
    <3>2. worker'[w].pc \notin {"check", "send"}
      BY <2>3, <3>1, GotoIs, GiveUpIs, AfterIs, Zenon DEF Send, SendIf
    <3>3. \A v \in Worker \ {w} : worker'[v] = worker[v]
      BY <2>3, WorkerFollows
    <3>4. asked' = asked \/ asked' = [asked EXCEPT ![JobOf(w)] = @ + 1]
      BY <2>3, Zenon DEF Send, SendIf
    <3> QED
      BY <3>1, <3>2, <3>3, <3>4, AttemptMove DEF Queued
  <2>4. CASE Gone(w)
    <3>1. UNCHANGED asked /\ UNCHANGED saved /\ worker[w].pc = "gone"
      BY <2>4 DEF Gone, history
    <3>2. worker'[w].pc \notin {"check", "send"}
      BY <2>4, <3>1, GotoIs, GiveUpIs DEF Gone
    <3>3. \A v \in Worker \ {w} : worker'[v] = worker[v]
      BY <2>4, WorkerFollows
    <3>4. \A j \in Job : job'[j] \in {NoJob, job[j]}
      BY <2>4, DropJobs DEF Gone
    <3> QED
      BY <3>1, <3>2, <3>3, <3>4, AttemptMove DEF Queued
  <2>5. CASE FinishNotification(w)
    <3>1. UNCHANGED asked /\ UNCHANGED saved /\ worker[w].pc \in {"done", "drop", "retry"}
      BY <2>5 DEF FinishNotification, FinishUnless
    <3>2. worker'[w].pc = "idle"
      BY <2>5, GiveUpIs DEF FinishNotification, FinishUnless
    <3>3. \A v \in Worker \ {w} : worker'[v] = worker[v]
      BY <2>5, WorkerFollows
    <3>4. \A j \in Job : job'[j] # NoJob => j \in Queued /\ job'[j].tries = job[j].tries
      BY <2>5, FinishJobs DEF Queued
    <3> QED
      BY <3>1, <3>2, <3>3, <3>4, AttemptMove
  <2> QED
    BY <1>7, <2>1, <2>2, <2>3, <2>4, <2>5 DEF WorkerStep
<1>8. CASE Restart
  <2>1. \A v \in Worker : worker'[v] \in {Idle, worker[v]}
    BY <1>8 DEF Restart
  <2> QED
    BY <1>8, <2>1, AttemptRest DEF Restart, database, Queued
<1>9. CASE Tick \/ UNCHANGED vars
  BY <1>1, <1>9 DEF Tick, vars, database, history
<1> QED
  BY <1>2, <1>3, <1>4, <1>5, <1>6, <1>7, <1>8, <1>9 DEF Next

---------------------------------------------------------------------------
(* Deliveries                                                              *)

\* No step but the delivery of a new message opens a job again.
LEMMA OpenBefore ==
  ASSUME TypeOK, TypeOK', now' >= now, saved \subseteq saved', JobsMove,
         \A v \in Worker : Follows(v), NEW j \in Job, Open(j)'
  PROVE  Open(j)
<1>1. j[2] \notin saved' => j[2] \notin saved
  OBVIOUS
<1>2. j \in Queued' => j \in Queued \/ j[2] \notin saved
  BY DEF JobsMove, Queued
<1>3. ASSUME NEW v \in Worker, Busy(v)', ~Late(v)', JobOf(v)' = j PROVE Open(j)
  BY <1>3, LateStays DEF Busy, Open
<1> QED
  BY <1>1, <1>2, <1>3 DEF Open

\* The sets of workers and the counters are of numbers.
LEMMA DeliveryTypes == ASSUME TypeOK, NEW j \in Job
                       PROVE  /\ delivered[j] \in Nat /\ excused[j] \in Nat
                              /\ Done(j) \in SUBSET Worker /\ Cardinality(Done(j)) \in Nat
<1>1. delivered[j] \in Nat /\ excused[j] \in Nat
  BY DEF TypeOK, HistoryTyped
<1>2. Done(j) \in SUBSET Worker
  BY DEF Done
<1> QED
  BY <1>1, <1>2, WorkerCount

\* Steps that accept no request and record no success.
LEMMA DeliverySame ==
  ASSUME TypeOK, TypeOK', DeliveryInv, UNCHANGED <<delivered, excused>>,
         \A j \in Job : Done(j)' = Done(j) /\ (Open(j)' => Open(j))
  PROVE  DeliveryInv'
<1> SUFFICES ASSUME NEW j \in Job
             PROVE  delivered'[j] <= excused'[j] + Cardinality(Done(j)')
                                       + IF Open(j)' THEN 0 ELSE 1
  BY DEF DeliveryInv
<1>1. delivered[j] <= excused[j] + Cardinality(Done(j)) + IF Open(j) THEN 0 ELSE 1
  BY DEF DeliveryInv
<1> QED
  BY <1>1, DeliveryTypes

\* How the workers with an accepted request change with a step of one worker.
LEMMA DoneMove ==
  ASSUME TypeOK, TypeOK', NEW w \in Worker, worker[w].pc # "idle",
         \A v \in Worker \ {w} : worker'[v] = worker[v],
         worker'[w].pc = "done" => JobOf(w)' = JobOf(w)
  PROVE  \A j \in Job :
           /\ j # JobOf(w) => Done(j)' = Done(j)
           /\ Cardinality(Done(j)') = Cardinality(Done(j))
                + (IF j = JobOf(w) /\ worker'[w].pc = "done" THEN 1 ELSE 0)
                - (IF j = JobOf(w) /\ worker[w].pc = "done" THEN 1 ELSE 0)
<1> SUFFICES ASSUME NEW j \in Job
             PROVE  /\ j # JobOf(w) => Done(j)' = Done(j)
                    /\ Cardinality(Done(j)') = Cardinality(Done(j))
                         + (IF j = JobOf(w) /\ worker'[w].pc = "done" THEN 1 ELSE 0)
                         - (IF j = JobOf(w) /\ worker[w].pc = "done" THEN 1 ELSE 0)
  OBVIOUS
<1>1. /\ Done(j) \in SUBSET Worker /\ Done(j)' \in SUBSET Worker
      /\ Done(j)' \ {w} = Done(j) \ {w}
      /\ w \in Done(j) <=> worker[w].pc = "done" /\ j = JobOf(w)
      /\ w \in Done(j)' <=> worker'[w].pc = "done" /\ j = JobOf(w)
  BY DEF Done, JobOf
<1>2. Cardinality(Done(j)') = Cardinality(Done(j)) + (IF w \in Done(j)' THEN 1 ELSE 0)
                                                 - (IF w \in Done(j) THEN 1 ELSE 0)
  BY <1>1, CountMove
<1> QED
  BY <1>1, <1>2

\* A success that is not recorded is excused; one that is recorded closes the
\* job, because no other worker holds it in time.
LEMMA DeliveryFinished ==
  ASSUME TypeOK, TypeOK', LeaseInv, DeliveryInv, NEW w \in Worker, FinishNotification(w)
  PROVE  DeliveryInv'
<1>1. /\ \A v \in Worker : Follows(v)
      /\ \A v \in Worker \ {w} : worker'[v] = worker[v]
      /\ UNCHANGED now /\ UNCHANGED saved /\ UNCHANGED delivered
  BY WorkerFollows DEF FinishNotification, FinishUnless
<1>2. worker[w].pc \in {"done", "drop", "retry"} /\ JobOf(w) \in Job /\ Busy(w)
  BY BusyTyped DEF FinishNotification, FinishUnless
<1>3. worker'[w] = Idle /\ worker'[w].pc = "idle"
  BY GiveUpIs DEF FinishNotification, FinishUnless
<1>d. PICK d \in Job : d = JobOf(w)
  BY <1>2
<1>4. \A j \in Job : Open(j)' => Open(j)
  <2>1. now' >= now
    BY <1>1 DEF TypeOK
  <2>2. JobsMove
    BY FinishJobs DEF JobsMove, Queued
  <2> QED
    BY <1>1, <2>1, <2>2, OpenBefore
<1>5. CASE worker[w].pc = "done"
  <2>1. \A j \in Job : Cardinality(Done(j)') = Cardinality(Done(j)) - IF j = d THEN 1 ELSE 0
    <3>1. \A j \in Job : Cardinality(Done(j)') = Cardinality(Done(j))
            + (IF j = JobOf(w) /\ worker'[w].pc = "done" THEN 1 ELSE 0)
            - (IF j = JobOf(w) /\ worker[w].pc = "done" THEN 1 ELSE 0)
      BY <1>1, <1>2, <1>3, DoneMove
    <3>2. \A j \in Job : Cardinality(Done(j)) \in Nat
      BY DeliveryTypes
    <3> QED
      BY <1>3, <1>5, <1>d, <3>1, <3>2
  <2> SUFFICES ASSUME NEW j \in Job
               PROVE  delivered'[j] <= excused'[j] + Cardinality(Done(j)')
                                         + IF Open(j)' THEN 0 ELSE 1
    BY DEF DeliveryInv
  <2>2. /\ delivered[j] <= excused[j] + Cardinality(Done(j)) + IF Open(j) THEN 0 ELSE 1
        /\ delivered[j] \in Nat /\ excused[j] \in Nat /\ Cardinality(Done(j)) \in Nat
    BY DeliveryTypes DEF DeliveryInv
  <2>3. CASE excused' = [excused EXCEPT ![d] = @ + 1]
    <3>1. excused'[j] = excused[j] + IF j = d THEN 1 ELSE 0
      BY <2>3 DEF TypeOK, HistoryTyped
    <3> QED
      BY <1>1, <1>4, <2>1, <2>2, <3>1
  <2>4. CASE excused' = excused /\ ~Late(w) /\ job' = [job EXCEPT ![d] = NoJob]
    <3>1. d[2] \in saved' /\ d \notin Queued' /\ Open(d)
      <4>1. d[2] = worker[w].msg /\ worker[w].msg \in saved
        BY <1>2, <1>d DEF LeaseInv, JobOf
      <4>2. d \notin Queued'
        BY <2>4 DEF Queued, TypeOK, DatabaseTyped
      <4> QED
        BY <1>1, <1>2, <1>d, <2>4, <4>1, <4>2 DEF Open
    <3>2. ASSUME NEW v \in Worker, Busy(v)', ~Late(v)', JobOf(v)' = d
          PROVE  FALSE
      <4>1. v # w
        BY <1>3, <3>2 DEF Busy
      <4>2. Busy(v) /\ ~Late(v) /\ JobOf(v) = d
        BY <1>1, <3>2, <4>1 DEF Busy, Late, JobOf
      <4> QED
        BY <1>2, <1>d, <2>4, <4>1, <4>2 DEF LeaseInv
    <3>3. ~Open(d)'
      BY <3>1, <3>2 DEF Open
    <3>4. CASE j = d
      BY <1>1, <2>1, <2>2, <2>4, <3>1, <3>3, <3>4
    <3>5. CASE j # d
      BY <1>1, <1>4, <2>1, <2>2, <2>4, <3>5
    <3> QED
      BY <3>4, <3>5
  <2> QED
    BY <1>5, <1>d, <2>3, <2>4 DEF FinishNotification, FinishUnless
<1>6. CASE worker[w].pc # "done"
  <2>1. \A j \in Job : Done(j)' = Done(j)
    BY <1>1, <1>3, <1>6 DEF Done, JobOf
  <2>2. excused' = excused
    BY <1>2, <1>6 DEF FinishNotification, FinishUnless, TypeOK, HistoryTyped
  <2> QED
    BY <1>1, <1>4, <2>1, <2>2, DeliverySame
<1> QED
  BY <1>5, <1>6

\* A request is counted as accepted together with its worker or its excuse.
LEMMA DeliverySent ==
  ASSUME TypeOK, TypeOK', DeliveryInv, NEW w \in Worker, Send(w)
  PROVE  DeliveryInv'
<1>1. /\ \A v \in Worker : Follows(v)
      /\ \A v \in Worker \ {w} : worker'[v] = worker[v]
      /\ UNCHANGED now /\ UNCHANGED saved
  BY WorkerFollows
<1>2. worker[w].pc = "send" /\ JobOf(w) \in Job /\ UNCHANGED job
  BY BusyTyped, Zenon DEF Send, SendIf, database
<1>3. \A j \in Job : Open(j)' => Open(j)
  <2>1. now' >= now
    BY <1>1 DEF TypeOK
  <2>2. JobsMove
    BY <1>2 DEF JobsMove, Queued
  <2> QED
    BY <1>1, <2>1, <2>2, OpenBefore
<1>d. PICK d \in Job : d = JobOf(w)
  BY <1>2
<1>4. \/ /\ UNCHANGED <<delivered, excused>>
         /\ worker'[w].pc # "done"
      \/ /\ delivered' = [delivered EXCEPT ![d] = @ + 1]
         /\ \/ excused' = excused /\ worker'[w].pc = "done" /\ JobOf(w)' = JobOf(w)
            \/ excused' = [excused EXCEPT ![d] = @ + 1] /\ worker'[w].pc # "done"
  BY <1>2, <1>d, GotoIs, GiveUpIs, AfterIs, Zenon DEF Send, SendIf
<1>5. \A j \in Job : Cardinality(Done(j)') = Cardinality(Done(j))
                       + IF j = d /\ worker'[w].pc = "done" THEN 1 ELSE 0
  <2>1. worker'[w].pc = "done" => JobOf(w)' = JobOf(w)
    BY <1>4
  <2>2. \A j \in Job : Cardinality(Done(j)') = Cardinality(Done(j))
          + (IF j = JobOf(w) /\ worker'[w].pc = "done" THEN 1 ELSE 0)
          - (IF j = JobOf(w) /\ worker[w].pc = "done" THEN 1 ELSE 0)
    BY <1>1, <1>2, <2>1, DoneMove
  <2>3. \A j \in Job : Cardinality(Done(j)) \in Nat
    BY DeliveryTypes
  <2> QED
    BY <1>2, <1>d, <2>2, <2>3
<1> SUFFICES ASSUME NEW j \in Job
             PROVE  delivered'[j] <= excused'[j] + Cardinality(Done(j)')
                                       + IF Open(j)' THEN 0 ELSE 1
  BY DEF DeliveryInv
<1>6. /\ delivered[j] <= excused[j] + Cardinality(Done(j)) + IF Open(j) THEN 0 ELSE 1
      /\ delivered[j] \in Nat /\ excused[j] \in Nat /\ Cardinality(Done(j)) \in Nat
  BY DeliveryTypes DEF DeliveryInv
<1>7. CASE j # d
  <2>1. delivered'[j] = delivered[j] /\ excused'[j] = excused[j]
    BY <1>4, <1>7 DEF TypeOK, HistoryTyped
  <2> QED
    BY <1>3, <1>5, <1>6, <1>7, <2>1
<1>8. CASE j = d
  <2>1. /\ delivered'[j] - excused'[j] = delivered[j] - excused[j]
                                           + (IF worker'[w].pc = "done" THEN 1 ELSE 0)
        /\ delivered'[j] \in Nat /\ excused'[j] \in Nat
    BY <1>4, <1>6, <1>8 DEF TypeOK, HistoryTyped
  <2> QED
    BY <1>3, <1>5, <1>6, <1>8, <2>1
<1> QED
  BY <1>7, <1>8

\* A claim takes a job that is open.
LEMMA DeliveryClaimed ==
  ASSUME TypeOK, TypeOK', DeliveryInv, NEW w \in Worker, ClaimNotification(w)
  PROVE  DeliveryInv'
<1>1. /\ UNCHANGED <<delivered, excused>> /\ UNCHANGED saved /\ UNCHANGED now
      /\ worker[w] = Idle
  BY DEF ClaimNotification, ClaimWith, history
<1>2. CASE job' = Keep(Useful(MaxTries)) /\ UNCHANGED worker
  <2>1. \A j \in Job : Done(j)' = Done(j) /\ (Open(j)' => Open(j))
    BY <1>1, <1>2 DEF Done, JobOf, Open, Keep, Queued, Busy, Late
  <2> QED
    BY <1>1, <2>1, DeliverySame
<1>3. ASSUME NEW d \in Due(Useful(MaxTries)),
             job' = [Keep(Useful(MaxTries)) EXCEPT ![d] =
               [job[d] EXCEPT !.tries = job[d].tries + 1, !.at = now + Lease]],
             worker' = [worker EXCEPT ![w] =
               [pc |-> "check", id |-> d[1], msg |-> d[2],
                owner |-> sub[d[1]].owner, tries |-> job[d].tries + 1,
                until |-> job[d].until, deadline |-> now + Timeout, after |-> 0]]
      PROVE  DeliveryInv'
  <2>1. d \in Job /\ d \in Queued
    BY UsefulJobs DEF Due
  <2>2. /\ worker'[w].pc = "check" /\ JobOf(w)' = d
        /\ \A v \in Worker \ {w} : worker'[v] = worker[v]
    BY <1>3, <2>1 DEF TypeOK, JobOf, Job
  <2>3. \A j \in Job : Done(j)' = Done(j)
    BY <1>1, <2>2 DEF Done, JobOf, Idle
  <2>4. Queued' \subseteq Queued
    BY <1>3, <2>1 DEF Keep, Queued
  <2>5. ASSUME NEW j \in Job, NEW v \in Worker, Busy(v)', ~Late(v)', JobOf(v)' = j
        PROVE  Open(j)
    <3>1. CASE v = w
      BY <2>1, <2>2, <2>5, <3>1 DEF Open
    <3>2. CASE v # w
      BY <1>1, <2>2, <2>5, <3>2 DEF Open, Busy, Late, JobOf
    <3> QED
      BY <3>1, <3>2
  <2>6. \A j \in Job : Open(j)' => Open(j)
    BY <1>1, <2>4, <2>5 DEF Open
  <2> QED
    BY <1>1, <2>3, <2>6, DeliverySame
<1> QED
  BY <1>2, <1>3, ClaimCases

LEMMA DeliveryStep ==
  TypeOK /\ TypeOK' /\ LeaseInv /\ DeliveryInv /\ [Next]_vars => DeliveryInv'
<1> SUFFICES ASSUME TypeOK, TypeOK', LeaseInv, DeliveryInv, [Next]_vars
             PROVE  DeliveryInv'
  OBVIOUS
<1>0. now \in Nat
  BY DEF TypeOK
<1>1. ASSUME UNCHANGED worker, UNCHANGED <<delivered, excused>>, now' >= now,
             saved \subseteq saved', JobsMove
      PROVE  DeliveryInv'
  <2>1. \A v \in Worker : Follows(v)
    BY <1>1 DEF Follows, Busy
  <2>2. \A j \in Job : Done(j)' = Done(j) /\ (Open(j)' => Open(j))
    BY <1>1, <2>1, OpenBefore DEF Done, JobOf
  <2> QED
    BY <1>1, <2>2, DeliverySame
<1>2. ASSUME NEW s \in Session, NEW i \in Id, DeleteSubscription(s, i) PROVE DeliveryInv'
  BY <1>0, <1>1, <1>2, DropJobs
     DEF DeleteSubscription, history, JobsMove, Queued
<1>3. ASSUME NEW s \in Session, SignOut(s) PROVE DeliveryInv'
  BY <1>0, <1>1, <1>3, DropJobs DEF SignOut, JobsMove, Queued
<1>4. ASSUME NEW s \in Session, Expire(s) PROVE DeliveryInv'
  BY <1>0, <1>1, <1>4 DEF Expire, database, history, JobsMove, Queued
<1>5. ASSUME NEW s \in Session, NEW e \in Endpoint, SaveSubscription(s, e) PROVE DeliveryInv'
  <2>1. /\ UNCHANGED worker /\ UNCHANGED <<delivered, excused>> /\ UNCHANGED now
        /\ UNCHANGED saved
    BY <1>5 DEF SaveSubscription, SaveSubscriptionIf, history
  <2>2. JobsMove
    BY <1>5, SaveJobs DEF JobsMove, Queued
  <2> QED
    BY <1>0, <1>1, <2>1, <2>2
<1>6. ASSUME NEW m \in Message, SaveIncomingMessage(m) PROVE DeliveryInv'
  <2>1. JobsMove
    BY <1>6 DEF SaveIncomingMessage, JobsMove, Queued
  <2> QED
    BY <1>0, <1>1, <1>6, <2>1 DEF SaveIncomingMessage, history
<1>7. ASSUME NEW w \in Worker, WorkerStep(w) PROVE DeliveryInv'
  <2>1. CASE ClaimNotification(w)
    BY <2>1, DeliveryClaimed
  <2>2. CASE Check(w) \/ Gone(w)
    <3>1. /\ \A v \in Worker : Follows(v)
          /\ \A v \in Worker \ {w} : worker'[v] = worker[v]
          /\ UNCHANGED now /\ UNCHANGED saved
      BY <2>2, WorkerFollows
    <3>2. worker[w].pc \in {"check", "gone"} /\ UNCHANGED <<delivered, excused>>
      BY <2>2 DEF Check, Gone, history
    <3>3. worker'[w].pc # "done"
      BY <2>2, <3>2, GotoIs, GiveUpIs DEF Check, Gone
    <3>4. JobsMove
      BY <2>2, DropJobs DEF Check, Gone, database, JobsMove, Queued
    <3>5. \A j \in Job : Done(j)' = Done(j) /\ (Open(j)' => Open(j))
      BY <1>0, <3>1, <3>2, <3>3, <3>4, OpenBefore DEF Done, JobOf
    <3> QED
      BY <3>2, <3>5, DeliverySame
  <2>3. CASE Send(w)
    BY <2>3, DeliverySent
  <2>4. CASE FinishNotification(w)
    BY <2>4, DeliveryFinished
  <2> QED
    BY <1>7, <2>1, <2>2, <2>3, <2>4 DEF WorkerStep
<1>8. CASE Restart
  <2>1. \A v \in Worker : Follows(v) /\ worker'[v] = Idle
    BY <1>8 DEF Restart, Follows
  <2>2. JobsMove /\ UNCHANGED now /\ UNCHANGED saved /\ UNCHANGED delivered
    BY <1>8 DEF Restart, database, JobsMove, Queued
  <2>3. \A j \in Job : Done(j)' = {} /\ excused'[j] = excused[j] + Cardinality(Done(j))
    BY <1>8, <2>1 DEF Restart, Done, Idle
  <2>4. \A j \in Job : Open(j)' => Open(j)
    BY <1>0, <2>1, <2>2, OpenBefore
  <2>5. Cardinality({}) = 0
    BY FS_EmptySet
  <2> SUFFICES ASSUME NEW j \in Job
               PROVE  delivered'[j] <= excused'[j] + Cardinality(Done(j)')
                                         + IF Open(j)' THEN 0 ELSE 1
    BY DEF DeliveryInv
  <2>6. /\ delivered[j] <= excused[j] + Cardinality(Done(j)) + IF Open(j) THEN 0 ELSE 1
        /\ delivered[j] \in Nat /\ excused[j] \in Nat /\ Cardinality(Done(j)) \in Nat
    BY DeliveryTypes DEF DeliveryInv
  <2> QED
    BY <2>2, <2>3, <2>4, <2>5, <2>6
<1>9. CASE Tick \/ UNCHANGED vars
  BY <1>0, <1>1, <1>9 DEF Tick, vars, database, history, JobsMove, Queued
<1> QED
  BY <1>2, <1>3, <1>4, <1>5, <1>6, <1>7, <1>8, <1>9 DEF Next

---------------------------------------------------------------------------
(* The theorems                                                            *)

\* At the start nothing is asked and nobody works.
LEMMA InitInv == Init => PushInv
<1> SUFFICES ASSUME Init PROVE PushInv
  OBVIOUS
<1>1. \A j \in Job : Trying(j) = {} /\ Done(j) = {} /\ j \notin Queued
  BY DEF Init, Trying, Done, Idle, Queued
<1>2. Cardinality({}) = 0
  BY FS_EmptySet
<1>3. LeaseInv
  BY <1>1 DEF Init, LeaseInv, Busy, Queued
<1>4. AttemptInv
  BY <1>1, <1>2, PushAssumption DEF Init, AttemptInv
<1>5. DeliveryInv
  BY <1>1, <1>2 DEF Init, DeliveryInv
<1> QED
  BY <1>3, <1>4, <1>5, OwnersInit DEF PushInv

\* Types and the invariant hold in every state: owners of subscriptions and
\* jobs, exclusive leases, counted attempts and recorded deliveries.
THEOREM PushInvHolds == Spec => [](TypeOK /\ PushInv)
<1>1. Init => TypeOK /\ PushInv
  BY InitType, InitInv
<1>2. TypeOK /\ PushInv /\ [Next]_vars => TypeOK' /\ PushInv'
  BY OwnersStep, TypeStep, LeaseStep, AttemptStep, DeliveryStep DEF PushInv
<1> QED
  BY <1>1, <1>2, PTL DEF Spec

\* A session that signed out owns no subscription, whatever registration of it
\* was still under way (store/sqlite/notifications.go:52-92).
THEOREM SignedOutIsSilent == Spec => []SignedOutOwnsNothing
<1>1. PushInv => SignedOutOwnsNothing
  BY DEF PushInv, OwnerInv
<1> QED
  BY <1>1, PushInvHolds, PTL

\* A job waits for the owner its subscription had when the message came.
THEOREM JobsKeepOwner == Spec => []JobsFollowOwner
<1>1. PushInv => JobsFollowOwner
  BY DEF PushInv, OwnerInv
<1> QED
  BY <1>1, PushInvHolds, PTL

\* No job gets more requests than it has attempts, because each is counted
\* before it is made.
THEOREM AttemptsBounded == Spec => []AttemptsAreBounded
<1>1. TypeOK /\ PushInv => AttemptsAreBounded
  <2> SUFFICES ASSUME TypeOK, PushInv, NEW j \in Job PROVE asked[j] <= MaxTries
    BY DEF AttemptsAreBounded
  <2>1. Trying(j) \in SUBSET Worker
    BY DEF Trying
  <2>2. asked[j] \in Nat /\ Cardinality(Trying(j)) \in Nat /\ MaxTries \in Nat
    BY <2>1, WorkerCount, PushAssumption DEF TypeOK, HistoryTyped
  <2>3. asked[j] + Cardinality(Trying(j)) <= MaxTries
    BY DEF PushInv, AttemptInv
  <2> QED
    BY <2>2, <2>3
<1> QED
  BY <1>1, PushInvHolds, PTL

\* A push that was accepted is repeated only when its success could not be
\* recorded, for every lease that is longer than a delivery may take.
THEOREM RepeatsExcused == Spec => []RepeatsAreExcused
<1>1. TypeOK /\ PushInv => RepeatsAreExcused
  <2> SUFFICES ASSUME TypeOK, PushInv, NEW j \in Job
               PROVE  delivered[j] <= 1 + excused[j] + Cardinality(
                        {w \in Worker : worker[w].pc = "done" /\ JobOf(w) = j /\ Late(w)})
    BY DEF RepeatsAreExcused
  <2> DEFINE L == {w \in Worker : worker[w].pc = "done" /\ JobOf(w) = j /\ Late(w)}
  <2>1. L \in SUBSET Worker /\ L \subseteq Done(j)
    BY DEF Done
  <2>2. Cardinality(L) \in Nat
    BY <2>1, WorkerCount
  <2>3. /\ delivered[j] <= excused[j] + Cardinality(Done(j)) + IF Open(j) THEN 0 ELSE 1
        /\ delivered[j] \in Nat /\ excused[j] \in Nat /\ Cardinality(Done(j)) \in Nat
    BY DeliveryTypes DEF PushInv, DeliveryInv
  <2>4. CASE \E w \in Done(j) : ~Late(w)
    <3> PICK w \in Done(j) : ~Late(w)
      BY <2>4
    <3>1. w \in Worker /\ Busy(w) /\ JobOf(w) = j
      BY DEF Done, Busy, Idle
    <3>2. Open(j)
      BY <3>1 DEF Open
    <3>3. \A v \in Done(j) : ~Late(v) => v = w
      BY <3>1 DEF PushInv, LeaseInv, Done, Busy, Idle
    <3>4. Done(j) \ {w} = L \ {w} /\ w \notin L /\ w \in Done(j)
      BY <2>1, <3>1, <3>3 DEF Done
    <3>5. Cardinality(Done(j)) = Cardinality(L) + 1
      <4>1. Done(j) \in SUBSET Worker
        BY DEF Done
      <4> QED
        BY <2>1, <2>2, <2>3, <3>1, <3>4, <4>1, CountMove
    <3> QED
      BY <2>2, <2>3, <3>2, <3>5
  <2>5. CASE \A w \in Done(j) : Late(w)
    <3>1. Done(j) = L
      BY <2>1, <2>5 DEF Done
    <3> QED
      BY <2>2, <2>3, <3>1
  <2> QED
    BY <2>4, <2>5
<1> QED
  BY <1>1, PushInvHolds, PTL

\* No request is made for a job that ran out of time.
THEOREM AskedBeforeEnd == Spec => AskedInTime
<1> DEFINE P == \A j \in Job : asked'[j] # asked[j] =>
                  \E w \in Worker : worker[w].pc = "send" /\ JobOf(w) = j
                                    /\ now < worker[w].until
<1>1. TypeOK /\ [Next]_vars => [P]_vars
  <2> SUFFICES ASSUME TypeOK, Next, NEW j \in Job, asked'[j] # asked[j]
               PROVE  \E w \in Worker : worker[w].pc = "send" /\ JobOf(w) = j
                                        /\ now < worker[w].until
    OBVIOUS
  <2> USE DEF history
  <2>1. PICK w \in Worker : Send(w)
    <3>1. asked' # asked
      OBVIOUS
    <3> QED
      BY <3>1
         DEF Next, WorkerStep, SaveSubscription, SaveSubscriptionIf,
             DeleteSubscription,
                  SignOut, Expire, SaveIncomingMessage, ClaimNotification, ClaimWith,
                  Check, Gone, FinishNotification, FinishUnless, Restart, Tick
  <2>2. /\ worker[w].pc = "send" /\ ~(now >= worker[w].until)
        /\ asked' = [asked EXCEPT ![JobOf(w)] = @ + 1]
    BY <2>1, Zenon DEF Send, SendIf
  <2>3. JobOf(w) = j
    BY <2>2 DEF TypeOK, HistoryTyped
  <2>4. now \in Nat /\ worker[w].until \in Nat
    BY <2>2, BusyTyped DEF TypeOK, Delivery
  <2> QED
    BY <2>2, <2>3, <2>4
<1> QED
  BY <1>1, PushInvHolds, PTL DEF Spec, AskedInTime
=============================================================================
