-------------------------- MODULE AccountSession --------------------------
(***************************************************************************)
(* The connection of each account to its provider: login attempts, the     *)
(* provider's events, the identity an account is paired with, logout, and  *)
(* the restart of the daemon (app/service.go).                             *)
(*                                                                         *)
(* A login attempt creates one session and pairs at most one device, so    *)
(* the attempt, its session and the identity it pairs have one number; 0   *)
(* is no session and no identity.  rt.eventMu serialises the handlers of   *)
(* one account and the end of a login; StartLogin does not take it, so the *)
(* handlers are split where they leave rt.mu.                              *)
(***************************************************************************)
EXTENDS Integers, FiniteSets

CONSTANTS Account,
          MaxAttempt,    \* bound on the number of login attempts
          MaxEvents,     \* bound on the number of provider events
          MaxRestarts,   \* bound on the number of restarts
          MaxFaults,     \* bound on failing writes and failing calls
          None

ASSUME AccountAssumption ==
  /\ MaxAttempt \in Nat \ {0}
  /\ MaxEvents \in Nat /\ MaxRestarts \in Nat /\ MaxFaults \in Nat
  /\ None \notin Account

VARIABLES
  dbIdentity,   \* accounts.provider_identity
  identity,     \* rt.account.ProviderIdentity
  session,      \* rt.session
  state,        \* rt.state
  generation,   \* rt.generation
  challenge,    \* rt.challenge: the attempt whose QR code is shown, or 0
  handler,      \* what holds rt.eventMu and how far it is
  restoring,    \* accounts whose session.Connect of Start has not returned
  activeLogin,  \* s.activeLogin
  attempt,      \* progress of StartLogin, its goroutine and finishLogin
  owner,        \* the account an attempt is for
  gen,          \* the generation in the session's event callback
  device,       \* the session's device at the provider
  open,         \* sessions that are not closed
  pending,      \* events that wait for onEvent
  hasty,        \* history: accounts whose login began before an older one ended
  events, restarts, faults

accountVars == <<identity, session, state, generation, challenge>>
loginVars   == <<activeLogin, attempt, owner, gen, hasty>>
deviceVars  == <<device, open, pending>>
boundVars   == <<events, restarts, faults>>
vars == <<dbIdentity, accountVars, handler, restoring, loginVars, deviceVars,
          boundVars>>

Attempt  == 1..MaxAttempt
Event    == {"paired", "connected", "disconnected", "logged_out", "error", "history"}
State    == {"needs_login", "pairing", "connecting", "connected", "reconnecting",
             "error"}
AttemptPC == {"idle", "clear", "new", "login", "succeeded", "failed", "locked",
              "close", "drain", "done"}
HandlerPC == {"free", "read", "save", "remember", "write", "forget", "clear"}
Handler  == [pc : HandlerPC, event : Event \cup {"finish"}, by : 0..MaxAttempt,
             who : 0..MaxAttempt, paired : BOOLEAN, err : BOOLEAN]

Free == [pc |-> "free", event |-> "error", by |-> 0, who |-> 0, paired |-> FALSE,
         err |-> FALSE]

Init ==
  /\ dbIdentity = [a \in Account |-> 0]
  /\ identity = [a \in Account |-> 0]
  /\ session = [a \in Account |-> 0]
  /\ state = [a \in Account |-> "needs_login"]
  /\ generation = [a \in Account |-> 0]
  /\ challenge = [a \in Account |-> 0]
  /\ handler = [a \in Account |-> Free]
  /\ restoring = {}
  /\ activeLogin = None
  /\ attempt = [n \in Attempt |-> "idle"]
  /\ owner = [n \in Attempt |-> None]
  /\ gen = [n \in Attempt |-> 0]
  /\ device = [n \in Attempt |-> "new"]
  /\ open = {}
  /\ pending = [n \in Attempt |-> {}]
  /\ hasty = {}
  /\ events = 0 /\ restarts = 0 /\ faults = 0

Fault == faults < MaxFaults /\ faults' = faults + 1

Goto(n, pc) == attempt' = [attempt EXCEPT ![n] = pc]

---------------------------------------------------------------------------
(* StartLogin and the goroutine of the login                               *)

\* Under loginMu: one login at a time, and none for a paired account.
BeginIf(n, a, refused, by) ==
  /\ attempt[n] = "idle"
  /\ \A m \in 1..(n - 1) : attempt[m] # "idle"
  /\ ~refused
  /\ activeLogin' = a
  /\ owner' = [owner EXCEPT ![n] = by]
  /\ hasty' = IF session[a] = 0 /\ handler[a].pc = "free" THEN hasty ELSE hasty \cup {a}
  /\ Goto(n, "clear")
  /\ UNCHANGED <<dbIdentity, accountVars, handler, restoring, gen, deviceVars,
                 boundVars>>

BeginTogether(n, a) == BeginIf(n, a, identity[a] # 0, a)  \* a mutant
BeginLogin(n, a)    == BeginIf(n, a, activeLogin # None \/ identity[a] # 0, a)

\* Clearing the avatars of the account, or connector.New, fails.
LoginRefused(n) ==
  /\ attempt[n] \in {"clear", "new"}
  /\ Fault
  /\ activeLogin' = None
  /\ Goto(n, "done")
  /\ UNCHANGED <<dbIdentity, accountVars, handler, restoring, owner, gen,
                 deviceVars, events, restarts, hasty>>

\* The avatars are cleared; a new generation makes older sessions stale.
NextGeneration(n) ==
  LET a == owner[n] IN
  /\ attempt[n] = "clear"
  /\ generation' = [generation EXCEPT ![a] = @ + 1]
  /\ gen' = [gen EXCEPT ![n] = generation[a] + 1]
  /\ Goto(n, "new")
  /\ UNCHANGED <<dbIdentity, identity, session, state, challenge, handler,
                 restoring, activeLogin, owner, deviceVars, boundVars, hasty>>

\* connector.New, the fields of the account, and the goroutine is started.
InstallSession(n) ==
  LET a == owner[n] IN
  /\ attempt[n] = "new"
  /\ session' = [session EXCEPT ![a] = n]
  /\ state' = [state EXCEPT ![a] = "pairing"]
  /\ challenge' = [challenge EXCEPT ![a] = 0]
  /\ open' = open \cup {n}
  /\ Goto(n, "login")
  /\ UNCHANGED <<dbIdentity, identity, generation, handler, restoring,
                 activeLogin, owner, gen, device, pending, boundVars, hasty>>

\* session.Login hands over a QR code; it is kept for the current session.
ChallengeIf(n, current) ==
  LET a == owner[n] IN
  /\ attempt[n] = "login"
  /\ current
  /\ challenge[a] # n
  /\ challenge' = [challenge EXCEPT ![a] = n]
  /\ UNCHANGED <<dbIdentity, identity, session, state, generation, handler,
                 restoring, loginVars, deviceVars, boundVars>>

Challenge(n) ==
  ChallengeIf(n, generation[owner[n]] = gen[n] /\ session[owner[n]] = n)

\* Nobody still handles, or has still to handle, event e of session n.
Handled(n, e) == LET h == handler[owner[n]] IN
  e \notin pending[n] /\ ~(h.pc # "free" /\ h.event = e /\ h.by = n)

\* session.Login returns, at the latest after three minutes; it succeeds once
\* the pairing is handled.  finishLogin then lets the next login start.
LoginReturns(n) ==
  /\ attempt[n] = "login"
  /\ \/ Goto(n, "failed")
     \/ device[n] # "new" /\ Handled(n, "paired") /\ Goto(n, "succeeded")
  /\ activeLogin' = IF activeLogin = owner[n] THEN None ELSE activeLogin
  /\ UNCHANGED <<dbIdentity, accountVars, handler, restoring, owner, gen,
                 deviceVars, boundVars, hasty>>

\* finishLogin takes eventMu and reads the account: a session that is no
\* longer current is only closed.
FinishLock(n) ==
  LET a == owner[n] IN
  /\ attempt[n] \in {"succeeded", "failed"}
  /\ handler[a].pc = "free"
  /\ \/ /\ session[a] # n
        /\ Goto(n, "close")
        /\ UNCHANGED handler
     \/ /\ session[a] = n
        /\ Goto(n, "locked")
        /\ handler' = [handler EXCEPT ![a] =
             [pc |-> IF identity[a] = 0 /\ device[n] = "paired"
                       THEN "save" ELSE "write",
              event |-> "finish", by |-> n, who |-> n,
              paired |-> identity[a] # 0, err |-> attempt[n] = "failed"]]
  /\ UNCHANGED <<dbIdentity, accountVars, restoring, activeLogin, owner, gen,
                 deviceVars, boundVars, hasty>>

\* The end of finishLogin: a failed login is given up unless the account is
\* paired, and eventMu is released before the session is closed.
FinishWith(a, holding, renew) ==
  LET h == handler[a]  n == h.by  drop == h.err /\ ~h.paired IN
  /\ h.pc = "write" /\ h.event = "finish" /\ attempt[n] = "locked"
  /\ session' = IF drop THEN [session EXCEPT ![a] = 0] ELSE session
  /\ generation' = IF drop /\ renew THEN [generation EXCEPT ![a] = @ + 1]
                               ELSE generation
  /\ state' = [state EXCEPT ![a] = IF h.err THEN "error"
                                   ELSE IF @ = "connected" THEN @ ELSE "connecting"]
  /\ challenge' = [challenge EXCEPT ![a] = 0]
  /\ Goto(n, IF drop THEN "close" ELSE "done")
  /\ handler' = IF holding /\ drop THEN handler ELSE [handler EXCEPT ![a] = Free]
  /\ UNCHANGED <<dbIdentity, identity, restoring, activeLogin, owner, gen,
                 deviceVars, boundVars, hasty>>

FinishLocked(a)  == FinishWith(a, TRUE, TRUE)    \* a mutant
FinishSameGen(a) == FinishWith(a, FALSE, FALSE)  \* a mutant
FinishWrite(a)   == FinishWith(a, FALSE, TRUE)

\* session.Close: first the client disconnects ...
Disconnect(n) ==
  /\ attempt[n] = "close"
  /\ open' = open \ {n}
  /\ Goto(n, "drain")
  /\ UNCHANGED <<dbIdentity, accountVars, handler, restoring, activeLogin, owner,
                 gen, device, pending, boundVars, hasty>>

\* ... then historyWG waits for the importer, whose events need eventMu.
Drain(n) ==
  /\ attempt[n] = "drain"
  /\ Handled(n, "history")
  /\ Goto(n, "done")
  /\ UNCHANGED <<dbIdentity, accountVars, handler, restoring, activeLogin, owner,
                 gen, deviceVars, boundVars, hasty>>

---------------------------------------------------------------------------
(* The provider's events and onEvent                                       *)

\* A phone scans the code: the session has an identity from now on.
Pair(n) ==
  /\ n \in open
  /\ device[n] = "new"
  /\ attempt[n] \in {"login", "succeeded", "failed", "locked", "close"}
  /\ device' = [device EXCEPT ![n] = "paired"]
  /\ pending' = [pending EXCEPT ![n] = @ \cup {"paired"}]
  /\ UNCHANGED <<dbIdentity, accountVars, handler, restoring, loginVars, open,
                 boundVars>>

\* The connection of a paired device comes and goes, and brings history.
Emit(n, e) ==
  /\ n \in open
  /\ device[n] = "paired"
  /\ e \in {"connected", "disconnected", "error", "history"} \ pending[n]
  /\ events < MaxEvents
  /\ events' = events + 1
  /\ pending' = [pending EXCEPT ![n] = @ \cup {e}]
  /\ UNCHANGED <<dbIdentity, accountVars, handler, restoring, loginVars, device,
                 open, restarts, faults>>

\* The device is removed on the phone.
Unlink(n) ==
  /\ n \in open
  /\ device[n] = "paired"
  /\ device' = [device EXCEPT ![n] = "gone"]
  /\ pending' = [pending EXCEPT ![n] = @ \cup {"logged_out"}]
  /\ UNCHANGED <<dbIdentity, accountVars, handler, restoring, loginVars, open,
                 boundVars>>

\* onEvent takes eventMu and drops the events of a stale session.  The event
\* of a logout waits for the history of its session.
DeliverIf(n, e, current) ==
  LET a == owner[n] IN
  /\ e \in pending[n]
  /\ handler[a].pc = "free"
  /\ e = "logged_out" => Handled(n, "history")
  /\ pending' = [pending EXCEPT ![n] = @ \ {e}]
  /\ handler' = IF ~current THEN handler ELSE [handler EXCEPT ![a] =
       [pc |-> CASE e = "paired" -> "save"
                 [] e = "connected" -> "read"
                 [] e = "logged_out" -> "forget"
                 [] OTHER -> "write",
        event |-> e, by |-> n, who |-> n, paired |-> FALSE, err |-> FALSE]]
  /\ UNCHANGED <<dbIdentity, accountVars, restoring, loginVars, device, open,
                 boundVars>>

DeliverStale(n, e) == DeliverIf(n, e, TRUE)  \* a mutant
Deliver(n, e)      == DeliverIf(n, e, generation[owner[n]] = gen[n])

Release(a) == handler' = [handler EXCEPT ![a] = Free]
SetError(a) == /\ state' = [state EXCEPT ![a] = "error"]
               /\ challenge' = [challenge EXCEPT ![a] = 0]

\* EventConnected reads the identity and the session; an account without
\* identity takes the one of its session.
ReadIf(a, known) ==
  LET n == session[a] IN
  /\ handler[a].pc = "read"
  /\ \/ n = 0 /\ Release(a) /\ UNCHANGED <<state, challenge>>
     \/ /\ n # 0 /\ known
        /\ handler' = [handler EXCEPT ![a] = [@ EXCEPT !.pc = "write"]]
        /\ UNCHANGED <<state, challenge>>
     \/ /\ n # 0 /\ ~known /\ device[n] = "paired"
        /\ handler' = [handler EXCEPT ![a] = [@ EXCEPT !.pc = "save", !.who = n]]
        /\ UNCHANGED <<state, challenge>>
     \/ n # 0 /\ ~known /\ device[n] # "paired" /\ Release(a) /\ SetError(a)
  /\ UNCHANGED <<dbIdentity, identity, session, generation, restoring, loginVars,
                 deviceVars, boundVars>>

ReadTrusting(a)  == ReadIf(a, TRUE)  \* a mutant
ReadConnected(a) == ReadIf(a, identity[a] # 0)

\* A mutant that does not look at the result of SetIdentity.
SaveUnchecked(a) ==
  /\ handler[a].pc = "save"
  /\ \/ dbIdentity' = [dbIdentity EXCEPT ![a] = handler[a].who] /\ UNCHANGED faults
     \/ Fault /\ UNCHANGED dbIdentity
  /\ handler' = [handler EXCEPT ![a] = [@ EXCEPT !.pc = "remember"]]
  /\ UNCHANGED <<accountVars, restoring, loginVars, deviceVars, events, restarts>>

\* persistIdentity: the database first; a failing write fails the handler.
SaveIdentity(a) ==
  LET h == handler[a] IN
  /\ h.pc = "save"
  /\ \/ /\ dbIdentity' = [dbIdentity EXCEPT ![a] = h.who]
        /\ handler' = [handler EXCEPT ![a] = [@ EXCEPT !.pc = "remember"]]
        /\ UNCHANGED <<state, challenge, faults>>
     \/ /\ Fault
        /\ h.event # "finish" /\ Release(a) /\ SetError(a)
        /\ UNCHANGED dbIdentity
     \/ /\ Fault
        /\ h.event = "finish"
        /\ handler' = [handler EXCEPT ![a] = [@ EXCEPT !.pc = "write", !.err = TRUE]]
        /\ UNCHANGED <<dbIdentity, state, challenge>>
  /\ UNCHANGED <<identity, session, generation, restoring, loginVars, deviceVars,
                 events, restarts>>

Remember(a) ==
  /\ handler[a].pc = "remember"
  /\ identity' = [identity EXCEPT ![a] = handler[a].who]
  /\ handler' = [handler EXCEPT ![a] = [@ EXCEPT !.pc = "write", !.paired = TRUE]]
  /\ UNCHANGED <<dbIdentity, session, state, generation, challenge, restoring,
                 loginVars, deviceVars, boundVars>>

\* The last section of the handlers other than finishLogin and LoggedOut.
WriteState(a) ==
  LET e == handler[a].event IN
  /\ handler[a].pc = "write" /\ e # "finish"
  /\ state' = [state EXCEPT ![a] =
       CASE e = "paired" -> "connecting"
         [] e = "connected" -> "connected"
         [] e = "error" -> "error"
         [] e = "disconnected" /\ @ \in {"connected", "connecting", "reconnecting"}
              -> "reconnecting"
         [] OTHER -> @]
  /\ challenge' = [challenge EXCEPT ![a] =
       IF e \in {"paired", "connected", "error"} THEN 0 ELSE @]
  /\ Release(a)
  /\ UNCHANGED <<dbIdentity, identity, session, generation, restoring, loginVars,
                 deviceVars, boundVars>>

\* EventLoggedOut, first the memory ...
Forget(a) ==
  /\ handler[a].pc = "forget"
  /\ generation' = [generation EXCEPT ![a] = @ + 1]
  /\ identity' = [identity EXCEPT ![a] = 0]
  /\ session' = [session EXCEPT ![a] = 0]
  /\ state' = [state EXCEPT ![a] = "needs_login"]
  /\ challenge' = [challenge EXCEPT ![a] = 0]
  /\ handler' = [handler EXCEPT ![a] = [@ EXCEPT !.pc = "clear"]]
  /\ UNCHANGED <<dbIdentity, restoring, loginVars, deviceVars, boundVars>>

\* ... then the database, whose failure is shown as the account's error.
ClearIdentity(a) ==
  /\ handler[a].pc = "clear"
  /\ \/ /\ dbIdentity' = [dbIdentity EXCEPT ![a] = 0]
        /\ UNCHANGED <<state, challenge, faults>>
     \/ /\ Fault
        /\ SetError(a)
        /\ UNCHANGED dbIdentity
  /\ Release(a)
  /\ UNCHANGED <<identity, session, generation, restoring, loginVars, deviceVars,
                 events, restarts>>

---------------------------------------------------------------------------
\* The daemon stops at any point; Start restores the accounts that the
\* database knows as paired, as far as the provider still knows their device.
Restart ==
  LET restored == {n \in Attempt : device[n] = "paired"
                                   /\ \E a \in Account : dbIdentity[a] = n}
  IN
  /\ restarts < MaxRestarts
  /\ restarts' = restarts + 1
  /\ identity' = dbIdentity
  /\ \E failing \in {{}} \cup IF faults < MaxFaults THEN {{n} : n \in restored} ELSE {} :
       LET ok(a) == dbIdentity[a] \in restored \ failing IN
       /\ faults' = faults + Cardinality(failing)
       /\ session' = [a \in Account |-> IF ok(a) THEN dbIdentity[a] ELSE 0]
       /\ state' = [a \in Account |-> IF dbIdentity[a] = 0 THEN "needs_login"
                                      ELSE IF ok(a) THEN "connecting" ELSE "error"]
       /\ open' = restored \ failing
       /\ restoring' = {a \in Account : ok(a)}
  /\ generation' = [a \in Account |-> 1]
  /\ gen' = [n \in Attempt |-> 1]
  /\ challenge' = [a \in Account |-> 0]
  /\ handler' = [a \in Account |-> Free]
  /\ activeLogin' = None
  /\ attempt' = [n \in Attempt |-> IF attempt[n] = "idle" THEN "idle" ELSE "done"]
  /\ pending' = [n \in Attempt |-> {}]
  /\ UNCHANGED <<dbIdentity, owner, device, events, hasty>>

\* session.Connect of a restored account returns; its failure is written
\* without eventMu.
Restored(a) ==
  /\ a \in restoring
  /\ restoring' = restoring \ {a}
  /\ \/ UNCHANGED <<state, challenge, faults>>
     \/ Fault /\ SetError(a)
  /\ UNCHANGED <<dbIdentity, identity, session, generation, handler, loginVars,
                 deviceVars, events, restarts>>

LoginGoroutine(n) ==
  \/ NextGeneration(n) \/ InstallSession(n) \/ LoginReturns(n)
  \/ FinishLock(n) \/ Disconnect(n) \/ Drain(n)

HandlerStep(a) ==
  \/ ReadConnected(a) \/ SaveIdentity(a) \/ Remember(a) \/ WriteState(a)
  \/ Forget(a) \/ ClearIdentity(a) \/ FinishWrite(a)

ProviderStep(n) == Pair(n) \/ Unlink(n) \/ \E e \in Event : Emit(n, e)

Next == \/ \E n \in Attempt : \/ \E a \in Account : BeginLogin(n, a)
                              \/ LoginGoroutine(n) \/ LoginRefused(n)
                              \/ Challenge(n) \/ ProviderStep(n)
                              \/ \E e \in Event : Deliver(n, e)
        \/ \E a \in Account : HandlerStep(a) \/ Restored(a)
        \/ Restart

Spec == Init /\ [][Next]_vars

\* Goroutines that can run do run, session.Login has a timeout, and eventMu is
\* released.  Nothing forces the user, the provider or a crash to act.
Progress ==
  \/ \E a \in Account : HandlerStep(a)
  \/ \E n \in Attempt : LoginGoroutine(n) \/ \E e \in Event : Deliver(n, e)

FairSpec == Spec /\ WF_vars(Progress)

---------------------------------------------------------------------------
(* Properties                                                              *)

AccountTyped ==
  /\ dbIdentity \in [Account -> 0..MaxAttempt]
  /\ identity \in [Account -> 0..MaxAttempt]
  /\ session \in [Account -> 0..MaxAttempt]
  /\ state \in [Account -> State]
  /\ generation \in [Account -> Nat]
  /\ challenge \in [Account -> 0..MaxAttempt]
  /\ handler \in [Account -> Handler]
  /\ restoring \subseteq Account

LoginTyped ==
  /\ activeLogin \in Account \cup {None}
  /\ attempt \in [Attempt -> AttemptPC]
  /\ owner \in [Attempt -> Account \cup {None}]
  /\ gen \in [Attempt -> Nat]
  /\ hasty \subseteq Account
  /\ \A n \in Attempt : attempt[n] # "idle" => owner[n] \in Account

DeviceTyped ==
  /\ device \in [Attempt -> {"new", "paired", "gone"}]
  /\ open \subseteq Attempt
  /\ pending \in [Attempt -> SUBSET Event]
  /\ events \in Nat /\ restarts \in Nat /\ faults \in Nat

TypeOK == AccountTyped /\ LoginTyped /\ DeviceTyped

\* Whenever no handler is at work, an identity in memory is in the database,
\* and without failing calls the other way round: a restart restores exactly
\* the accounts that were paired.
MemoryMatchesDatabase ==
  \A a \in Account :
    handler[a].pc = "free" /\ (identity[a] # 0 \/ faults = 0)
      => dbIdentity[a] = identity[a]

\* An account is connected only with a session and an identity: what the API
\* shows as connected can send.
ConnectedIsPaired ==
  \A a \in Account : state[a] = "connected" => session[a] # 0 /\ identity[a] # 0

\* One login runs at a time, over all accounts.
OneLoginAtATime ==
  \A m, n \in Attempt : {attempt[m], attempt[n]} \subseteq {"clear", "new", "login"}
                          => m = n

\* The QR code that an account shows is the one of its current session.
ChallengeIsCurrent == \A a \in Account : challenge[a] \in {0, session[a]}

\* What holds at every moment of a login: the types, one login, its own QR code.
LoginInv == TypeOK /\ OneLoginAtATime /\ ChallengeIsCurrent

\* Nobody waits for ever: while a login is under way, or eventMu is held, somebody
\* of the daemon can go on.  The steps of an attempt are finitely many, so it
\* comes to its end: the next login may start, and a failed session is closed.
NobodyIsStuck ==
  (\/ \E n \in Attempt : attempt[n] \notin {"idle", "done"}
   \/ \E a \in Account : handler[a].pc # "free") => ENABLED <<Progress>>_vars

\* When every login begins after the one before has ended, the session of an
\* account is the one it is paired with.
SessionOwnsIdentity ==
  \A a \in Account \ hasty :
    identity[a] # 0 /\ session[a] # 0 => session[a] = identity[a]

\* Then only an event of the current session connects an account or logs it out.
EventsAreCurrent ==
  [][\A a \in Account \ hasty' :
       /\ state'[a] = "connected" /\ state[a] # "connected" => session[a] = handler[a].by
       /\ handler[a].pc = "forget" /\ session'[a] # session[a]
            => session[a] \in {0, handler[a].by}]_vars

\* service.go:236 refuses a login for an "account already paired": no login
\* takes the session of a paired account away.
PairedIsRefused ==
  [][\A n \in Attempt : InstallSession(n) => identity[owner[n]] = 0]_vars
---------------------------------------------------------------------------
(* The inductive invariant of AccountSession_proofs                        *)

\* Whatever an account or its handler names is an attempt of that account.
OwnerInv ==
  /\ \A n \in Attempt : attempt[n] = "idle" => owner[n] = None
  /\ \A a \in Account, n \in Attempt :
       n \in {dbIdentity[a], identity[a], session[a]} => owner[n] = a
  /\ \A a \in Account : handler[a].pc # "free" =>
       /\ handler[a].by \in Attempt /\ owner[handler[a].by] = a
       /\ handler[a].who \in Attempt /\ owner[handler[a].who] = a

\* The attempt whose login runs is the one the service knows as active.
ActiveInv ==
  \A n \in Attempt : attempt[n] \in {"clear", "new", "login"} => activeLogin = owner[n]

\* Between two sections of a handler, database and memory differ only while an
\* identity is remembered or cleared.
IdentityInv ==
  \A a \in Account : LET h == handler[a] IN
    /\ h.pc \notin {"remember", "clear"} /\ (identity[a] # 0 \/ faults = 0)
         => dbIdentity[a] = identity[a]
    /\ h.pc = "remember" => dbIdentity[a] = h.who
    /\ h.pc = "clear" => identity[a] = 0

\* The handler of "connected" has seen a session, and an identity once it writes.
ConnectedInv ==
  \A a \in Account : LET h == handler[a] IN
    h.event = "connected" => /\ h.pc \in {"save", "remember", "write"} => session[a] # 0
                             /\ h.pc = "write" => identity[a] # 0

\* A session that can still have events was installed, and its generation is not
\* newer than the account's.
GenerationInv ==
  \A n \in Attempt :
    /\ attempt[n] \in {"idle", "clear", "new"} => n \notin open /\ pending[n] = {}
    /\ \A a \in Account : owner[n] \in {a, None} => gen[n] <= generation[a]

\* Of an account whose logins do not overlap, only the installed session is
\* current: what other sessions still send is stale.
StaleInv ==
  \A n \in Attempt :
    owner[n] \in Account \ hasty /\ gen[n] = generation[owner[n]]
      => (n \in open \/ pending[n] # {} => session[owner[n]] = n)

\* Such a login installs its session while the account has nothing else.
InstallInv ==
  \A n \in Attempt : attempt[n] \in {"clear", "new"} /\ owner[n] \in Account \ hasty
    => /\ session[owner[n]] = 0 /\ identity[owner[n]] = 0
       /\ handler[owner[n]].pc = "free"

\* A handler of such an account acts for its session.
HandlerInv ==
  \A a \in Account \ hasty : LET h == handler[a] IN
    /\ h.pc \notin {"free", "clear"} => h.by = session[a]
    /\ h.pc \in {"save", "remember"} => h.who = session[a]

CurrentInv == StaleInv /\ InstallInv /\ HandlerInv

SessionInv ==
  /\ LoginInv /\ OwnerInv /\ ActiveInv /\ IdentityInv /\ ConnectedInv
  /\ ConnectedIsPaired /\ GenerationInv /\ CurrentInv /\ SessionOwnsIdentity
=============================================================================
