---------------------------- MODULE BrowserPush ----------------------------
(***************************************************************************)
(* Browser push: subscriptions owned by browser sessions, the job that     *)
(* saving a new incoming message leaves for every subscription, and the    *)
(* workers that claim a job under a lease and ask the push service         *)
(* (app/browser_notifications.go, store/sqlite/notifications.go).          *)
(*                                                                         *)
(* Every SQLite transaction is one action.  Time is a bounded clock, whose *)
(* unit is left open: what counts is that the deadline of a delivery (15   *)
(* seconds) is before the end of its lease (30 seconds), and both before   *)
(* the end of the job (5 minutes).  A session of an earlier access token   *)
(* (a generation) is treated as an expired one, as by the code.            *)
(***************************************************************************)
EXTENDS Integers, FiniteSets

CONSTANTS Session, Endpoint, Message, Worker,
          MaxTries,      \* attempts of a job, 5 in the code
          Lease,         \* how long a claimed job is hidden, 30 s
          Timeout,       \* how long a delivery may take, 15 s
          Lifetime,      \* how long a job is of use, 5 min
          RetryAfter,    \* values of the answer's header Retry-After
          MaxId,         \* bound on the number of subscriptions
          LastSave,      \* bound on the time of a new message
          MaxTime,       \* bound on the clock
          MaxRestarts,   \* bound on the number of restarts
          MaxFaults,     \* bound on failing writes
          None

ASSUME PushAssumption ==
  /\ {MaxTries, Lease, Timeout, Lifetime, MaxId} \subseteq Nat \ {0}
  /\ {LastSave, MaxTime, MaxRestarts, MaxFaults} \subseteq Nat
  /\ RetryAfter \subseteq Nat
  /\ Timeout < Lease
  /\ IsFiniteSet(Worker)
  /\ None \notin Session \cup Endpoint \cup Message

\* A fact of arithmetic that the provers do not know.
ASSUME BackoffAssumption == \A n \in 1..MaxTries : 2 ^ n \in Nat

VARIABLES
  sub,        \* browser_subscriptions, by id
  job,        \* notification_jobs, by subscription and message
  revoked,    \* notification_revocations
  nextId,     \* the id of the next subscription
  saved,      \* messages that are saved
  expired,    \* sessions whose cookie is no longer valid
  worker,     \* the delivery a push worker is at
  now,        \* the clock
  signedOut,  \* history: sessions that signed out
  asked,      \* history: requests to the push service for each job
  delivered,  \* history: requests that it accepted
  excused,    \* history: accepted requests whose success was not recorded
  restarts, faults

database == <<sub, job, revoked, nextId, saved>>
history  == <<signedOut, asked, delivered, excused>>
bounds   == <<restarts, faults>>
vars     == <<database, expired, worker, now, history, bounds>>

Id  == 1..MaxId
Job == Id \X Message

NoSub == [endpoint |-> None, owner |-> None]
NoJob == [tries |-> 0, at |-> 0, until |-> 0, owner |-> None]
Idle  == [pc |-> "idle", id |-> 0, msg |-> None, owner |-> None, tries |-> 0,
          until |-> 0, deadline |-> 0, after |-> 0]

Init ==
  /\ sub = [i \in Id |-> NoSub]
  /\ job = [j \in Job |-> NoJob]
  /\ revoked = {} /\ nextId = 1 /\ saved = {} /\ expired = {}
  /\ worker = [w \in Worker |-> Idle]
  /\ now = 0
  /\ signedOut = {}
  /\ asked = [j \in Job |-> 0]
  /\ delivered = [j \in Job |-> 0]
  /\ excused = [j \in Job |-> 0]
  /\ restarts = 0 /\ faults = 0

Fault == faults < MaxFaults /\ faults' = faults + 1

Subscribed == {i \in Id : sub[i] # NoSub}
Queued     == {j \in Job : job[j] # NoJob}

\* Deleting subscriptions deletes their jobs (ON DELETE CASCADE).
DropSubs(S) ==
  /\ sub' = [i \in Id |-> IF i \in S THEN NoSub ELSE sub[i]]
  /\ job' = [j \in Job |-> IF j[1] \in S THEN NoJob ELSE job[j]]

---------------------------------------------------------------------------
(* Browser sessions                                                        *)

\* A registration of session s, authorised by its cookie at an earlier time.
\* An endpoint that is known goes to the new session, without the jobs of
\* another one.
SaveSubscriptionIf(s, e, refused, clean) ==
  LET same == {i \in Id : sub[i].endpoint = e} IN
  /\ s \notin expired
  /\ ~refused
  /\ \/ \E i \in same :
          /\ sub' = [sub EXCEPT ![i] = [@ EXCEPT !.owner = s]]
          /\ job' = [j \in Job |-> IF j[1] = i /\ clean /\ sub[i].owner # s
                                     THEN NoJob ELSE job[j]]
          /\ UNCHANGED nextId
     \/ /\ same = {}
        /\ nextId \in Id
        /\ sub' = [sub EXCEPT ![nextId] = [endpoint |-> e, owner |-> s]]
        /\ nextId' = nextId + 1
        /\ UNCHANGED job
  /\ UNCHANGED <<revoked, saved, expired, worker, now, history, bounds>>

SaveLate(s, e)         == SaveSubscriptionIf(s, e, FALSE, TRUE)  \* a mutant
SaveKeepingJobs(s, e)  == SaveSubscriptionIf(s, e, s \in revoked, FALSE)  \* a mutant
SaveSubscription(s, e) == SaveSubscriptionIf(s, e, s \in revoked, TRUE)

DeleteSubscription(s, i) ==
  /\ sub[i].owner = s
  /\ DropSubs({i})
  /\ UNCHANGED <<revoked, nextId, saved, expired, worker, now, history, bounds>>

\* DELETE /app/session: revoke first, then delete, in one transaction.
SignOut(s) ==
  /\ s \notin expired
  /\ revoked' = revoked \cup {s}
  /\ signedOut' = signedOut \cup {s}
  /\ DropSubs({i \in Id : sub[i].owner = s})
  /\ UNCHANGED <<nextId, saved, expired, worker, now, asked, delivered, excused,
                 bounds>>

Expire(s) ==
  /\ expired' = expired \cup {s}
  /\ UNCHANGED <<database, worker, now, history, bounds>>

\* The provider delivers a message, once more perhaps; saving it leaves the
\* jobs when the message is new.
SaveIncomingMessage(m) ==
  /\ now <= LastSave
  /\ m \notin saved
  /\ saved' = saved \cup {m}
  /\ job' = [j \in Job |->
       IF j[2] = m /\ job[j] = NoJob /\ j[1] \in Subscribed
                   /\ sub[j[1]].owner \notin expired
         THEN [tries |-> 0, at |-> now, until |-> now + Lifetime,
               owner |-> sub[j[1]].owner]
         ELSE job[j]]
  /\ UNCHANGED <<sub, revoked, nextId, expired, worker, now, history, bounds>>

---------------------------------------------------------------------------
(* The push workers                                                        *)

\* What a claim purges, and what it leaves.
Outdated      == {i \in Subscribed : sub[i].owner \in expired}
Useful(most)  == {j \in Queued : /\ j[1] \notin Outdated
                                 /\ now < job[j].until /\ job[j].tries < most}
Keep(S)       == [j \in Job |-> IF j \in S THEN job[j] ELSE NoJob]
Due(S)        == {j \in S : job[j].at <= now}

\* One transaction purges what is expired and claims the job that is due
\* first: the attempt is counted before anything is sent, and the job is
\* hidden from the other worker for the lease.
ClaimWith(w, tries, lease, useful, kept) ==
  /\ worker[w] = Idle
  /\ revoked' = revoked \ expired
  /\ sub' = [i \in Id |-> IF i \in Outdated THEN NoSub ELSE sub[i]]
  /\ \/ Due(useful) = {} /\ job' = Keep(kept) /\ UNCHANGED worker
     \/ \E j \in Due(useful) : LET counted == job[j].tries + tries IN
          /\ \A k \in Due(useful) : job[j].at <= job[k].at
          /\ job' = [Keep(kept) EXCEPT
               ![j] = [job[j] EXCEPT !.tries = counted, !.at = now + lease]]
          /\ worker' = [worker EXCEPT ![w] =
               [pc |-> "check", id |-> j[1], msg |-> j[2],
                owner |-> sub[j[1]].owner, tries |-> counted,
                until |-> job[j].until, deadline |-> now + Timeout, after |-> 0]]
  /\ UNCHANGED <<nextId, saved, expired, now, history, bounds>>

\* Mutants: no lease, one attempt more, no purge of jobs.
ClaimUnleased(w)  == ClaimWith(w, 1, 0, Useful(MaxTries), Useful(MaxTries))
ClaimOnceMore(w)  == ClaimWith(w, 1, Lease, Useful(MaxTries + 1), Useful(MaxTries + 1))
ClaimUnpurged(w)  == ClaimWith(w, 1, Lease, Useful(MaxTries),
                               {j \in Queued : j[1] \notin Outdated})

ClaimNotification(w) ==
  ClaimWith(w, 1, Lease, Useful(MaxTries), Useful(MaxTries))

Goto(w, pc) == worker' = [worker EXCEPT ![w] = [@ EXCEPT !.pc = pc]]
GiveUp(w)   == worker' = [worker EXCEPT ![w] = Idle]
Late(w)     == now >= worker[w].deadline
JobOf(w)    == <<worker[w].id, worker[w].msg>>
Owned(w)    == sub[worker[w].id].owner = worker[w].owner

\* The message, the account, the conversation, the subscription and the
\* browser's view are read: the job may be pointless, or the read may fail.
Check(w) ==
  /\ worker[w].pc = "check"
  /\ \/ ~Late(w) /\ Owned(w) /\ worker[w].owner \notin expired /\ Goto(w, "send")
     \/ ~Late(w) /\ Goto(w, "drop")
     \/ ~Late(w) /\ Goto(w, "retry")
     \/ Late(w) /\ GiveUp(w)
  /\ UNCHANGED <<database, expired, now, history, bounds>>

\* Sender.Send, unless the job or the session has run out of time.  The
\* answer of an accepted request can be lost.
SendIf(w, useless) ==
  LET j == JobOf(w) IN
  /\ worker[w].pc = "send"
  /\ \/ useless /\ Goto(w, "drop") /\ UNCHANGED <<asked, delivered, excused>>
     \/ ~useless /\ Late(w) /\ GiveUp(w) /\ UNCHANGED <<asked, delivered, excused>>
     \/ /\ ~useless /\ ~Late(w)
        /\ asked' = [asked EXCEPT ![j] = @ + 1]
        /\ \/ /\ Goto(w, "done")
              /\ delivered' = [delivered EXCEPT ![j] = @ + 1]
              /\ UNCHANGED excused
           \/ /\ Goto(w, "retry")
              /\ delivered' = [delivered EXCEPT ![j] = @ + 1]
              /\ excused' = [excused EXCEPT ![j] = @ + 1]
           \/ \E after \in RetryAfter :
                /\ worker' = [worker EXCEPT ![w] =
                     [@ EXCEPT !.pc = "retry", !.after = after]]
                /\ UNCHANGED <<delivered, excused>>
           \/ \E pc \in {"drop", "gone"} : Goto(w, pc) /\ UNCHANGED <<delivered, excused>>
  /\ UNCHANGED <<database, expired, now, signedOut, bounds>>

SendLate(w) == SendIf(w, worker[w].owner \in expired)  \* a mutant: claims alone look at the end

Send(w) == SendIf(w, now >= worker[w].until \/ worker[w].owner \in expired)

\* The push service answered 404 or 410.
Gone(w) ==
  /\ worker[w].pc = "gone"
  /\ \/ /\ ~Late(w)
        /\ DropSubs(IF Owned(w) THEN {worker[w].id} ELSE {})
        /\ GiveUp(w)
        /\ UNCHANGED faults
     \/ /\ ~Late(w) /\ Fault /\ Goto(w, "retry") /\ UNCHANGED <<sub, job>>
     \/ /\ Late(w) /\ GiveUp(w) /\ UNCHANGED <<sub, job, faults>>
  /\ UNCHANGED <<revoked, nextId, saved, expired, now, history, restarts>>

\* The time of the next attempt, with exponential backoff.
NextTry(w) == LET r == worker[w] IN
  now + IF r.after > 2 ^ r.tries THEN r.after ELSE 2 ^ r.tries

\* FinishNotification deletes the job, or shows it again at the next try; the
\* write is lost when it fails or comes after the deadline of the delivery.
FinishUnless(w, over) ==
  LET j == JobOf(w)  r == worker[w] IN
  /\ r.pc \in {"done", "drop", "retry"}
  /\ \/ /\ ~Late(w)
        /\ job' = IF r.pc \in {"done", "drop"} \/ over THEN [job EXCEPT ![j] = NoJob]
                  ELSE IF job[j] # NoJob /\ job[j].tries = r.tries
                         THEN [job EXCEPT ![j] = [@ EXCEPT !.at = NextTry(w)]]
                         ELSE job
        /\ UNCHANGED <<excused, faults>>
     \/ /\ (Late(w) /\ UNCHANGED faults) \/ (~Late(w) /\ Fault)
        /\ excused' = [excused EXCEPT ![j] = @ + IF r.pc = "done" THEN 1 ELSE 0]
        /\ UNCHANGED job
  /\ GiveUp(w)
  /\ UNCHANGED <<sub, revoked, nextId, saved, expired, now, signedOut, asked,
                 delivered, restarts>>

FinishNotification(w) ==
  FinishUnless(w, worker[w].tries >= MaxTries \/ NextTry(w) >= worker[w].until)

\* The daemon stops and starts again; jobs and leases are in the database.
Restart ==
  /\ restarts < MaxRestarts
  /\ restarts' = restarts + 1
  /\ excused' = [j \in Job |-> excused[j]
       + Cardinality({w \in Worker : worker[w].pc = "done" /\ JobOf(w) = j})]
  /\ worker' = [w \in Worker |-> Idle]
  /\ UNCHANGED <<database, expired, now, signedOut, asked, delivered, faults>>

Tick ==
  /\ now < MaxTime
  /\ now' = now + 1
  /\ UNCHANGED <<database, expired, worker, history, bounds>>

WorkerStep(w) ==
  ClaimNotification(w) \/ Check(w) \/ Send(w) \/ Gone(w) \/ FinishNotification(w)

Next ==
  \/ \E s \in Session : \/ SignOut(s) \/ Expire(s)
                        \/ \E e \in Endpoint : SaveSubscription(s, e)
                        \/ \E i \in Id : DeleteSubscription(s, i)
  \/ \E m \in Message : SaveIncomingMessage(m)
  \/ \E w \in Worker : WorkerStep(w)
  \/ Restart \/ Tick

Spec == Init /\ [][Next]_vars

\* What happens by itself: time passes, each worker looks for work every two
\* seconds, and every call it makes has a deadline.
Progress == Tick \/ \E w \in Worker : WorkerStep(w)

---------------------------------------------------------------------------
(* Properties                                                              *)

SubType  == [endpoint : Endpoint, owner : Session]
JobType  == [tries : 0..MaxTries, at : Nat, until : Nat, owner : Session]
Delivery == [pc : {"check", "send", "gone", "done", "drop", "retry"}, id : Id,
             msg : Message, owner : Session, tries : 1..MaxTries, until : Nat,
             deadline : Nat, after : RetryAfter \cup {0}]

DatabaseTyped ==
  /\ sub \in [Id -> SubType \cup {NoSub}]
  /\ job \in [Job -> JobType \cup {NoJob}]
  /\ nextId \in 1..(MaxId + 1)
  /\ revoked \subseteq Session /\ saved \subseteq Message

HistoryTyped ==
  /\ signedOut \subseteq Session
  /\ asked \in [Job -> Nat] /\ delivered \in [Job -> Nat] /\ excused \in [Job -> Nat]

\* Every variable has its type.
TypeOK ==
  /\ DatabaseTyped
  /\ worker \in [Worker -> Delivery \cup {Idle}]
  /\ HistoryTyped
  /\ expired \subseteq Session
  /\ now \in 0..MaxTime /\ restarts \in 0..MaxRestarts /\ faults \in 0..MaxFaults

\* usage.md promises "up to five attempts": crashes and lost writes do not
\* give a job more requests than that.
AttemptsAreBounded == \A j \in Job : asked[j] <= MaxTries

\* ... "within five minutes": no request is made for a job that ran out.
AskedInTime ==
  [][\A j \in Job : asked'[j] # asked[j] =>
       \E w \in Worker : worker[w].pc = "send" /\ JobOf(w) = j
                         /\ now < worker[w].until]_vars

\* A push that was accepted is repeated only when its success could not be
\* recorded: the two workers never deliver one job at the same time, and a
\* message that is delivered twice by the provider is announced once.
RepeatsAreExcused ==
  \A j \in Job :
    delivered[j] <= 1 + excused[j]
      + Cardinality({w \in Worker : worker[w].pc = "done" /\ JobOf(w) = j /\ Late(w)})

\* A session that signed out owns no subscription, even when a registration
\* that its cookie authorised before ends after it.
SignedOutOwnsNothing == \A i \in Subscribed : sub[i].owner \notin signedOut

\* A job waits for the session that owned the subscription when the message
\* came: a browser that changes hands gets no news of the last owner's time.
JobsFollowOwner == \A j \in Queued : job[j].owner = sub[j[1]].owner

\* Every job comes to an end: when time has run, and no worker has anything left
\* to change, nothing is queued that would wait for ever.
NoJobIsLeft == ~ENABLED <<Progress>>_vars => Queued = {}

---------------------------------------------------------------------------
(* The inductive invariant behind the properties of states                 *)

Busy(w)   == worker[w] # Idle
Trying(j) == {w \in Worker : worker[w].pc \in {"check", "send"} /\ JobOf(w) = j}
Done(j)   == {w \in Worker : worker[w].pc = "done" /\ JobOf(w) = j}

\* A session that signed out is remembered as long as its cookie is valid.
OwnerInv ==
  /\ signedOut \subseteq revoked \cup expired
  /\ SignedOutOwnsNothing
  /\ JobsFollowOwner
  /\ \A j \in Queued : j[1] \in Subscribed
  /\ \A i \in Subscribed : i < nextId

\* A delivery that is not late has its job for itself: the lease outlives it.
LeaseInv ==
  /\ \A j \in Queued : j[2] \in saved
  /\ \A w \in Worker : Busy(w) =>
       /\ worker[w].msg \in saved
       /\ ~Late(w) /\ JobOf(w) \in Queued => job[JobOf(w)].at >= worker[w].deadline
       /\ \A v \in Worker : Busy(v) /\ JobOf(v) = JobOf(w) /\ ~Late(v) /\ ~Late(w)
                              => v = w

\* Every request, made or about to be made, was counted when it was claimed.
AttemptInv ==
  \A j \in Job : LET n == asked[j] + Cardinality(Trying(j)) IN
    /\ n <= MaxTries
    /\ j \in Queued => n <= job[j].tries
    /\ j[2] \notin saved => n = 0

\* One more request may be accepted while the job is open, and none after its
\* success was recorded.
Open(j) == \/ j[2] \notin saved
           \/ j \in Queued
           \/ \E w \in Worker : Busy(w) /\ ~Late(w) /\ JobOf(w) = j

DeliveryInv ==
  \A j \in Job :
    delivered[j] <= excused[j] + Cardinality(Done(j)) + IF Open(j) THEN 0 ELSE 1

PushInv == OwnerInv /\ LeaseInv /\ AttemptInv /\ DeliveryInv
=============================================================================
