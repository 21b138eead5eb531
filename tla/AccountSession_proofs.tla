----------------------- MODULE AccountSession_proofs -----------------------
(***************************************************************************)
(* Proofs about AccountSession, for every set of accounts, every number of *)
(* login attempts, events, faults and restarts: type correctness, the      *)
(* inductive invariant SessionInv and the properties it implies.           *)
(***************************************************************************)
EXTENDS AccountSession, FiniteSetTheorems, TLAPS

---------------------------------------------------------------------------
(* Helpers                                                                 *)

LEMMA NumberTyped == Attempt \subseteq 0..MaxAttempt /\ 0 \in 0..MaxAttempt
BY AccountAssumption DEF Attempt

LEMMA FreeTyped == Free \in Handler
BY AccountAssumption DEF Free, Handler, HandlerPC, Event

\* Moving a handler on keeps its type.
LEMMA MoveTyped ==
  ASSUME TypeOK, NEW a \in Account, NEW pc \in HandlerPC, NEW i \in 0..MaxAttempt,
         NEW b \in BOOLEAN
  PROVE  /\ [handler[a] EXCEPT !.pc = pc] \in Handler
         /\ [handler[a] EXCEPT !.pc = pc, !.who = i] \in Handler
         /\ [handler[a] EXCEPT !.pc = pc, !.paired = b] \in Handler
         /\ [handler[a] EXCEPT !.pc = pc, !.err = b] \in Handler
BY DEF TypeOK, AccountTyped, Handler

LEMMA FaultTyped == ASSUME TypeOK, Fault PROVE faults' \in Nat
BY DEF TypeOK, DeviceTyped, Fault

\* What a step of the handler of an account does with the handler.
LEMMA ReadCases ==
  ASSUME TypeOK, NEW a \in Account, ReadConnected(a)
  PROVE  /\ handler[a].pc = "read"
         /\ \A b \in Account \ {a} : handler'[b] = handler[b] /\ state'[b] = state[b]
         /\ state'[a] \in {state[a], "error"}
         /\ \/ handler'[a].pc = "free"
            \/ /\ session[a] # 0
               /\ handler'[a].by = handler[a].by /\ handler'[a].event = handler[a].event
               /\ \/ /\ handler'[a].pc = "write" /\ identity[a] # 0
                     /\ handler'[a].who = handler[a].who
                  \/ handler'[a].pc = "save" /\ handler'[a].who = session[a]
<1>1. handler[a] \in Handler /\ handler \in [Account -> Handler]
  BY DEF TypeOK, AccountTyped
<1>2. /\ [handler[a] EXCEPT !.pc = "write"].pc = "write"
      /\ [handler[a] EXCEPT !.pc = "write"].by = handler[a].by
      /\ [handler[a] EXCEPT !.pc = "write"].event = handler[a].event
      /\ [handler[a] EXCEPT !.pc = "write"].who = handler[a].who
  BY <1>1 DEF Handler
<1> DEFINE i == session[a]
<1>3. /\ [handler[a] EXCEPT !.pc = "save", !.who = i].pc = "save"
      /\ [handler[a] EXCEPT !.pc = "save", !.who = i].by = handler[a].by
      /\ [handler[a] EXCEPT !.pc = "save", !.who = i].event = handler[a].event
      /\ [handler[a] EXCEPT !.pc = "save", !.who = i].who = i
  BY <1>1 DEF Handler
<1>4. \A b \in Account \ {a} : handler'[b] = handler[b] /\ state'[b] = state[b]
  BY <1>1 DEF ReadConnected, ReadIf, Release, SetError, TypeOK, AccountTyped
<1>5. state'[a] \in {state[a], "error"} /\ handler[a].pc = "read"
  BY DEF ReadConnected, ReadIf, SetError, TypeOK, AccountTyped
<1>6. \/ handler'[a] = Free
      \/ /\ session[a] # 0
         /\ \/ handler'[a] = [handler[a] EXCEPT !.pc = "write"] /\ identity[a] # 0
            \/ handler'[a] = [handler[a] EXCEPT !.pc = "save", !.who = session[a]]
  BY <1>1 DEF ReadConnected, ReadIf, Release
<1>7. Free.pc = "free"
  BY DEF Free
<1> QED
  BY <1>2, <1>3, <1>4, <1>5, <1>6, <1>7

LEMMA SaveCases ==
  ASSUME TypeOK, NEW a \in Account, SaveIdentity(a)
  PROVE  /\ handler[a].pc = "save"
         /\ \A b \in Account \ {a} : /\ handler'[b] = handler[b] /\ state'[b] = state[b]
                                     /\ dbIdentity'[b] = dbIdentity[b]
         /\ state'[a] \in {state[a], "error"}
         /\ \/ handler'[a].pc = "free" /\ dbIdentity'[a] = dbIdentity[a] /\ faults' # 0
            \/ /\ handler'[a].by = handler[a].by /\ handler'[a].event = handler[a].event
               /\ handler'[a].who = handler[a].who
               /\ \/ /\ handler'[a].pc = "remember" /\ dbIdentity'[a] = handler[a].who
                  \/ /\ handler'[a].pc = "write" /\ handler[a].event = "finish"
                     /\ dbIdentity'[a] = dbIdentity[a] /\ faults' # 0
         /\ faults' = 0 => faults = 0
<1>1. handler[a] \in Handler /\ handler \in [Account -> Handler]
  BY DEF TypeOK, AccountTyped
<1>2. /\ [handler[a] EXCEPT !.pc = "remember"].pc = "remember"
      /\ [handler[a] EXCEPT !.pc = "remember"].by = handler[a].by
      /\ [handler[a] EXCEPT !.pc = "remember"].event = handler[a].event
      /\ [handler[a] EXCEPT !.pc = "remember"].who = handler[a].who
  BY <1>1 DEF Handler
<1>3. /\ [handler[a] EXCEPT !.pc = "write", !.err = TRUE].pc = "write"
      /\ [handler[a] EXCEPT !.pc = "write", !.err = TRUE].by = handler[a].by
      /\ [handler[a] EXCEPT !.pc = "write", !.err = TRUE].event = handler[a].event
      /\ [handler[a] EXCEPT !.pc = "write", !.err = TRUE].who = handler[a].who
  BY <1>1 DEF Handler
<1>4. /\ handler[a].pc = "save"
      /\ \A b \in Account \ {a} : /\ handler'[b] = handler[b] /\ state'[b] = state[b]
                                  /\ dbIdentity'[b] = dbIdentity[b]
      /\ state'[a] \in {state[a], "error"}
  BY <1>1 DEF SaveIdentity, Release, SetError, TypeOK, AccountTyped
<1>5. Fault => faults' # 0
  BY DEF Fault, TypeOK, DeviceTyped
<1>6. \/ handler'[a] = Free /\ dbIdentity'[a] = dbIdentity[a] /\ Fault
      \/ /\ handler'[a] = [handler[a] EXCEPT !.pc = "remember"]
         /\ dbIdentity'[a] = handler[a].who /\ faults' = faults
      \/ /\ handler'[a] = [handler[a] EXCEPT !.pc = "write", !.err = TRUE]
         /\ handler[a].event = "finish" /\ dbIdentity'[a] = dbIdentity[a] /\ Fault
  BY <1>1 DEF SaveIdentity, Release, TypeOK, AccountTyped
<1>7. Free.pc = "free"
  BY DEF Free
<1> QED
  BY <1>2, <1>3, <1>4, <1>5, <1>6, <1>7

LEMMA RememberCases ==
  ASSUME TypeOK, NEW a \in Account, Remember(a)
  PROVE  /\ handler[a].pc = "remember"
         /\ \A b \in Account \ {a} : /\ handler'[b] = handler[b]
                                     /\ identity'[b] = identity[b]
         /\ identity'[a] = handler[a].who
         /\ handler'[a].pc = "write" /\ handler'[a].by = handler[a].by
         /\ handler'[a].event = handler[a].event /\ handler'[a].who = handler[a].who
<1>1. handler[a] \in Handler /\ handler \in [Account -> Handler]
  BY DEF TypeOK, AccountTyped
<1> DEFINE h == [handler[a] EXCEPT !.pc = "write", !.paired = TRUE]
<1>2. /\ h.pc = "write" /\ h.by = handler[a].by
      /\ h.event = handler[a].event /\ h.who = handler[a].who
  BY <1>1 DEF Handler
<1>3. handler'[a] = h
  BY <1>1 DEF Remember
<1> QED
  BY <1>1, <1>2, <1>3 DEF Remember, TypeOK, AccountTyped

LEMMA ForgetCases ==
  ASSUME TypeOK, NEW a \in Account, Forget(a)
  PROVE  /\ handler[a].pc = "forget"
         /\ \A b \in Account \ {a} : /\ handler'[b] = handler[b]
                                     /\ identity'[b] = identity[b]
                                     /\ session'[b] = session[b]
                                     /\ generation'[b] = generation[b]
         /\ identity'[a] = 0 /\ session'[a] = 0 /\ generation'[a] = generation[a] + 1
         /\ handler'[a].pc = "clear" /\ handler'[a].by = handler[a].by
         /\ handler'[a].event = handler[a].event /\ handler'[a].who = handler[a].who
<1>1. handler[a] \in Handler /\ handler \in [Account -> Handler]
  BY DEF TypeOK, AccountTyped
<1> DEFINE h == [handler[a] EXCEPT !.pc = "clear"]
<1>2. /\ h.pc = "clear" /\ h.by = handler[a].by
      /\ h.event = handler[a].event /\ h.who = handler[a].who
  BY <1>1 DEF Handler
<1>3. handler'[a] = h
  BY <1>1 DEF Forget
<1> QED
  BY <1>1, <1>2, <1>3 DEF Forget, TypeOK, AccountTyped

\* The end of finishLogin releases eventMu, and may give the session up.
LEMMA FinishCases ==
  ASSUME TypeOK, NEW a \in Account, FinishWrite(a)
  PROVE  /\ handler[a].pc = "write"
         /\ \A b \in Account \ {a} : /\ handler'[b] = handler[b]
                                     /\ session'[b] = session[b]
                                     /\ generation'[b] = generation[b]
         /\ handler'[a].pc = "free"
         /\ \/ session'[a] = session[a] /\ generation'[a] = generation[a]
            \/ session'[a] = 0 /\ generation'[a] = generation[a] + 1
         /\ \A n \in Attempt : attempt'[n] \in {attempt[n], "done", "close"}
<1>1. Free.pc = "free"
  BY DEF Free
<1>2. handler' = [handler EXCEPT ![a] = Free]
  BY DEF FinishWrite, FinishWith
<1> QED
  BY <1>1, <1>2 DEF FinishWrite, FinishWith, Goto, TypeOK, AccountTyped, LoginTyped

---------------------------------------------------------------------------
(* Types                                                                   *)

\* The fields of the accounts keep their types.
LEMMA AccountStep == ASSUME TypeOK, [Next]_vars PROVE AccountTyped'
<1>1. ASSUME NEW n \in Attempt, NEW a \in Account, BeginLogin(n, a)
      PROVE  AccountTyped'
  BY <1>1, MoveTyped, FreeTyped, NumberTyped, Zenon
     DEF BeginLogin, BeginIf, Goto, accountVars, deviceVars, boundVars, TypeOK,
         AccountTyped, LoginTyped, State, HandlerPC
<1>2. ASSUME NEW n \in Attempt, NextGeneration(n) PROVE AccountTyped'
  <2>1. owner[n] \in Account /\ generation[owner[n]] + 1 \in Nat
    BY <1>2 DEF NextGeneration, TypeOK, AccountTyped, LoginTyped
  <2> QED
    BY <1>2, <2>1
       DEF NextGeneration, accountVars, loginVars, deviceVars, boundVars, TypeOK,
           AccountTyped
<1>3. ASSUME NEW n \in Attempt, InstallSession(n) PROVE AccountTyped'
  BY <1>3, MoveTyped, FreeTyped, NumberTyped, Zenon
     DEF InstallSession, Goto, boundVars, TypeOK, AccountTyped, LoginTyped, State,
         HandlerPC
<1>4. ASSUME NEW n \in Attempt, FinishLock(n) PROVE AccountTyped'
  <2> DEFINE a == owner[n]
             h == [pc |-> IF identity[a] = 0 /\ device[n] = "paired"
                            THEN "save" ELSE "write",
                   event |-> "finish", by |-> n, who |-> n,
                   paired |-> identity[a] # 0, err |-> attempt[n] = "failed"]
  <2>1. h \in Handler
    BY NumberTyped DEF Handler, HandlerPC
  <2>2. handler' \in {handler, [handler EXCEPT ![a] = h]}
    BY <1>4 DEF FinishLock
  <2> QED
    BY <1>4, <2>1, <2>2
       DEF FinishLock, accountVars, loginVars, deviceVars, boundVars, TypeOK,
           AccountTyped
<1>5. ASSUME NEW n \in Attempt, Challenge(n) PROVE AccountTyped'
  BY <1>5, MoveTyped, FreeTyped, NumberTyped, Zenon
     DEF Challenge, ChallengeIf, loginVars, deviceVars, boundVars, TypeOK,
         AccountTyped, LoginTyped, State, HandlerPC
<1>6. ASSUME NEW n \in Attempt, NEW e \in Event, Deliver(n, e) PROVE AccountTyped'
  <2> DEFINE h == [pc |-> CASE e = "paired" -> "save"
                            [] e = "connected" -> "read"
                            [] e = "logged_out" -> "forget"
                            [] OTHER -> "write",
                   event |-> e, by |-> n, who |-> n, paired |-> FALSE, err |-> FALSE]
  <2>1. h \in Handler
    BY NumberTyped DEF Handler, HandlerPC
  <2>2. handler' \in {handler, [handler EXCEPT ![owner[n]] = h]}
    BY <1>6 DEF Deliver, DeliverIf
  <2> QED
    BY <1>6, <2>1, <2>2
       DEF Deliver, DeliverIf, accountVars, loginVars, deviceVars, boundVars, TypeOK,
           AccountTyped
<1>7. ASSUME NEW a \in Account, ReadConnected(a) PROVE AccountTyped'
  <2>1. handler[a] \in Handler /\ session[a] \in 0..MaxAttempt
    BY DEF TypeOK, AccountTyped
  <2>2. handler' \in {[handler EXCEPT ![a] = Free],
                     [handler EXCEPT ![a] = [@ EXCEPT !.pc = "write"]],
                     [handler EXCEPT ![a] = [@ EXCEPT !.pc = "save", !.who = session[a]]]}
    BY <1>7 DEF ReadConnected, ReadIf, Release
  <2>3. [handler[a] EXCEPT !.pc = "save", !.who = session[a]] \in Handler
    BY <2>1, MoveTyped, Zenon DEF HandlerPC
  <2>4. [handler[a] EXCEPT !.pc = "write"] \in Handler
    BY <2>1, MoveTyped, Zenon DEF HandlerPC
  <2>5. handler' \in [Account -> Handler]
    BY <2>2, <2>3, <2>4, FreeTyped DEF TypeOK, AccountTyped
  <2> QED
    BY <1>7, <2>5, NumberTyped
       DEF ReadConnected, ReadIf, SetError, loginVars, TypeOK, AccountTyped, State
<1>8. ASSUME NEW a \in Account, SaveIdentity(a) PROVE AccountTyped'
  <2>1. handler' \in [Account -> Handler]
    BY <1>8, MoveTyped, FreeTyped, Zenon
       DEF SaveIdentity, Release, HandlerPC, TypeOK, AccountTyped
  <2>2. handler[a].who \in 0..MaxAttempt
    BY DEF TypeOK, AccountTyped, Handler
  <2>3. /\ dbIdentity' \in [Account -> 0..MaxAttempt]
        /\ state' \in [Account -> State]
        /\ challenge' \in [Account -> 0..MaxAttempt]
    BY <1>8, <2>2, NumberTyped
       DEF SaveIdentity, SetError, State, TypeOK, AccountTyped
  <2> QED
    BY <1>8, <2>1, <2>3
       DEF SaveIdentity, accountVars, loginVars, deviceVars, boundVars, TypeOK,
           AccountTyped
<1>9. ASSUME NEW a \in Account, Remember(a) PROVE AccountTyped'
  <2>1. handler' \in [Account -> Handler]
    BY <1>9, MoveTyped, Zenon
       DEF Remember, HandlerPC, accountVars, loginVars, deviceVars, boundVars,
           TypeOK, AccountTyped
  <2> QED
    BY <1>9, <2>1, NumberTyped
       DEF Remember, accountVars, loginVars, deviceVars, boundVars, TypeOK,
           AccountTyped, State, HandlerPC, Handler
<1>10. ASSUME NEW a \in Account, WriteState(a) PROVE AccountTyped'
  BY <1>10, MoveTyped, FreeTyped, NumberTyped, Zenon
     DEF WriteState, Release, loginVars, deviceVars, boundVars, TypeOK, AccountTyped,
         LoginTyped, State, HandlerPC
<1>11. ASSUME NEW a \in Account, Forget(a) PROVE AccountTyped'
  <2>1. handler' \in [Account -> Handler]
    BY <1>11, MoveTyped, Zenon
       DEF Forget, HandlerPC, accountVars, loginVars, deviceVars, boundVars, TypeOK,
           AccountTyped
  <2> QED
    BY <1>11, <2>1, NumberTyped
       DEF Forget, accountVars, loginVars, deviceVars, boundVars, TypeOK,
           AccountTyped, State, HandlerPC, Handler
<1>12. ASSUME NEW a \in Account, ClearIdentity(a) PROVE AccountTyped'
  <2>1. handler' \in [Account -> Handler]
    BY <1>12, FreeTyped DEF ClearIdentity, Release, TypeOK, AccountTyped
  <2>2. /\ dbIdentity' \in [Account -> 0..MaxAttempt] /\ state' \in [Account -> State]
        /\ challenge' \in [Account -> 0..MaxAttempt]
    BY <1>12, NumberTyped DEF ClearIdentity, SetError, TypeOK, AccountTyped, State
  <2> QED
    BY <1>12, <2>1, <2>2 DEF ClearIdentity, TypeOK, AccountTyped
<1>13. ASSUME NEW a \in Account, FinishWrite(a) PROVE AccountTyped'
  <2>1. handler' \in [Account -> Handler]
    BY <1>13, FreeTyped
       DEF FinishWrite, FinishWith, accountVars, loginVars, deviceVars, boundVars,
           TypeOK, AccountTyped
  <2> QED
    BY <1>13, <2>1, NumberTyped
       DEF FinishWrite, FinishWith, accountVars, loginVars, deviceVars, boundVars,
           TypeOK, AccountTyped, State, HandlerPC, Handler
<1>14. ASSUME NEW a \in Account, Restored(a) PROVE AccountTyped'
  BY <1>14, MoveTyped, FreeTyped, NumberTyped, Zenon
     DEF Restored, SetError, loginVars, deviceVars, TypeOK, AccountTyped, LoginTyped,
         State, HandlerPC
<1>15. ASSUME Restart PROVE AccountTyped'
  <2>1. handler' \in [Account -> Handler]
    BY <1>15, FreeTyped DEF Restart
  <2>2. state' \in [Account -> State] /\ session' \in [Account -> 0..MaxAttempt]
    BY <1>15, NumberTyped DEF Restart, State, TypeOK, AccountTyped
  <2>3. restoring' \subseteq Account
    BY <1>15 DEF Restart
  <2> QED
    BY <1>15, <2>1, <2>2, <2>3, NumberTyped DEF Restart, TypeOK, AccountTyped
<1>16. ASSUME NEW n \in Attempt, LoginReturns(n) \/ Disconnect(n) \/ Drain(n) \/
            LoginRefused(n) \/ Pair(n) \/ Unlink(n)
       PROVE  AccountTyped'
  BY <1>16
     DEF LoginReturns, Disconnect, Drain, LoginRefused, Pair, Unlink, accountVars,
         loginVars, deviceVars, boundVars, TypeOK, AccountTyped
<1>17. ASSUME NEW n \in Attempt, NEW e \in Event, Emit(n, e)
       PROVE  AccountTyped'
  BY <1>17 DEF Emit, accountVars, loginVars, TypeOK, AccountTyped
<1>18. CASE UNCHANGED vars
  BY <1>18
     DEF vars, accountVars, loginVars, deviceVars, boundVars, TypeOK, AccountTyped,
         LoginTyped
<1> QED
  BY <1>1, <1>2, <1>3, <1>4, <1>5, <1>6, <1>7, <1>8, <1>9, <1>10, <1>11, <1>12,
     <1>13, <1>14, <1>15, <1>16, <1>17, <1>18
     DEF Next, LoginGoroutine, HandlerStep, ProviderStep

\* So do the attempts ...
LEMMA LoginStep == ASSUME TypeOK, [Next]_vars PROVE LoginTyped'
<1>1. ASSUME NEW n \in Attempt, NEW a \in Account, BeginLogin(n, a) PROVE LoginTyped'
  BY <1>1, NumberTyped
     DEF BeginLogin, BeginIf, Goto, accountVars, deviceVars, boundVars, TypeOK,
         AccountTyped, LoginTyped, AttemptPC
<1>2. ASSUME NEW n \in Attempt, NextGeneration(n) PROVE LoginTyped'
  BY <1>2, NumberTyped
     DEF NextGeneration, Goto, deviceVars, boundVars, TypeOK, AccountTyped,
         LoginTyped, AttemptPC
<1>3. ASSUME NEW n \in Attempt, InstallSession(n) PROVE LoginTyped'
  BY <1>3, NumberTyped
     DEF InstallSession, Goto, boundVars, TypeOK, AccountTyped, LoginTyped, AttemptPC
<1>4. ASSUME NEW n \in Attempt, LoginReturns(n) PROVE LoginTyped'
  BY <1>4, NumberTyped
     DEF LoginReturns, Goto, accountVars, deviceVars, boundVars, TypeOK,
         AccountTyped, LoginTyped, AttemptPC
<1>5. ASSUME NEW n \in Attempt, FinishLock(n) PROVE LoginTyped'
  BY <1>5, NumberTyped
     DEF FinishLock, Goto, accountVars, deviceVars, boundVars, TypeOK, AccountTyped,
         LoginTyped, AttemptPC
<1>6. ASSUME NEW n \in Attempt, Disconnect(n) PROVE LoginTyped'
  BY <1>6, NumberTyped
     DEF Disconnect, Goto, accountVars, boundVars, TypeOK, AccountTyped, LoginTyped,
         AttemptPC
<1>7. ASSUME NEW n \in Attempt, Drain(n) PROVE LoginTyped'
  BY <1>7, NumberTyped
     DEF Drain, Goto, accountVars, deviceVars, boundVars, TypeOK, AccountTyped,
         LoginTyped, AttemptPC
<1>8. ASSUME NEW n \in Attempt, LoginRefused(n) PROVE LoginTyped'
  BY <1>8, NumberTyped
     DEF LoginRefused, Goto, Fault, accountVars, deviceVars, TypeOK, AccountTyped,
         LoginTyped, AttemptPC
<1>9. ASSUME NEW a \in Account, FinishWrite(a) PROVE LoginTyped'
  BY <1>9, NumberTyped
     DEF FinishWrite, FinishWith, Goto, deviceVars, boundVars, TypeOK, AccountTyped,
         LoginTyped, AttemptPC
<1>10. ASSUME Restart PROVE LoginTyped'
  BY <1>10, NumberTyped DEF Restart, TypeOK, AccountTyped, LoginTyped, AttemptPC
<1>11. ASSUME NEW n \in Attempt, Challenge(n) \/ Pair(n) \/ Unlink(n)
       PROVE  LoginTyped'
  BY <1>11
     DEF Challenge, ChallengeIf, Pair, Unlink, accountVars, loginVars, deviceVars,
         boundVars, TypeOK, LoginTyped
<1>12. ASSUME NEW n \in Attempt, NEW e \in Event, Emit(n, e) \/ Deliver(n, e)
       PROVE  LoginTyped'
  BY <1>12
     DEF Emit, Deliver, DeliverIf, accountVars, loginVars, boundVars, TypeOK,
         LoginTyped
<1>13. ASSUME NEW a \in Account, ReadConnected(a) \/ SaveIdentity(a) \/ Remember(a)
            \/ WriteState(a) \/ Forget(a) \/ ClearIdentity(a) \/ Restored(a)
       PROVE  LoginTyped'
  BY <1>13
     DEF ReadConnected, ReadIf, SaveIdentity, Remember, WriteState, Forget,
         ClearIdentity, Restored, loginVars, deviceVars, boundVars, TypeOK,
         LoginTyped
<1>14. CASE UNCHANGED vars
  BY <1>14
     DEF vars, accountVars, loginVars, deviceVars, boundVars, TypeOK, AccountTyped,
         LoginTyped
<1> QED
  BY <1>1, <1>2, <1>3, <1>4, <1>5, <1>6, <1>7, <1>8, <1>9, <1>10, <1>11, <1>12,
     <1>13, <1>14
     DEF Next, LoginGoroutine, HandlerStep, ProviderStep

\* ... and the sessions at the provider.
LEMMA DeviceStep == ASSUME TypeOK, [Next]_vars PROVE DeviceTyped'
<1>1. ASSUME NEW n \in Attempt, NEW a \in Account, BeginLogin(n, a)
      PROVE  DeviceTyped'
  BY <1>1, FaultTyped
     DEF BeginLogin, BeginIf, Goto, accountVars, deviceVars, boundVars, TypeOK,
         DeviceTyped
<1>2. ASSUME NEW n \in Attempt, InstallSession(n) PROVE DeviceTyped'
  BY <1>2, FaultTyped DEF InstallSession, Goto, boundVars, TypeOK, DeviceTyped
<1>3. ASSUME NEW n \in Attempt, Disconnect(n) PROVE DeviceTyped'
  BY <1>3, FaultTyped
     DEF Disconnect, Goto, accountVars, boundVars, TypeOK, DeviceTyped
<1>4. ASSUME NEW n \in Attempt, LoginRefused(n) PROVE DeviceTyped'
  BY <1>4, FaultTyped
     DEF LoginRefused, Goto, accountVars, deviceVars, TypeOK, DeviceTyped
<1>5. ASSUME NEW n \in Attempt, Pair(n) PROVE DeviceTyped'
  <2>1. pending[n] \cup {"paired"} \in SUBSET Event
    BY DEF TypeOK, DeviceTyped, Event
  <2> QED
    BY <1>5, <2>1
       DEF Pair, accountVars, loginVars, deviceVars, boundVars, TypeOK, DeviceTyped
<1>6. ASSUME NEW n \in Attempt, Unlink(n) PROVE DeviceTyped'
  <2>1. pending[n] \cup {"logged_out"} \in SUBSET Event
    BY DEF TypeOK, DeviceTyped, Event
  <2> QED
    BY <1>6, <2>1
       DEF Unlink, accountVars, loginVars, deviceVars, boundVars, TypeOK, DeviceTyped
<1>7. ASSUME NEW n \in Attempt, NEW e \in Event, Emit(n, e) PROVE DeviceTyped'
  BY <1>7, FaultTyped DEF Emit, accountVars, loginVars, TypeOK, DeviceTyped
<1>8. ASSUME NEW n \in Attempt, NEW e \in Event, Deliver(n, e) PROVE DeviceTyped'
  BY <1>8, FaultTyped
     DEF Deliver, DeliverIf, accountVars, loginVars, boundVars, TypeOK, DeviceTyped
<1>9. ASSUME NEW a \in Account, SaveIdentity(a) PROVE DeviceTyped'
  BY <1>9, FaultTyped
     DEF SaveIdentity, Release, SetError, loginVars, deviceVars, TypeOK, DeviceTyped
<1>10. ASSUME NEW a \in Account, ClearIdentity(a) PROVE DeviceTyped'
  BY <1>10, FaultTyped
     DEF ClearIdentity, Release, SetError, loginVars, deviceVars, TypeOK, DeviceTyped
<1>11. ASSUME NEW a \in Account, Restored(a) PROVE DeviceTyped'
  BY <1>11, FaultTyped
     DEF Restored, SetError, loginVars, deviceVars, TypeOK, DeviceTyped
<1>12. ASSUME Restart PROVE DeviceTyped'
  <2>1. PICK failing \in SUBSET Attempt :
           /\ failing = {} \/ \E m \in Attempt : failing = {m}
           /\ faults' = faults + Cardinality(failing)
           /\ open' \subseteq Attempt
    BY <1>12 DEF Restart
  <2>2. Cardinality(failing) = 0 \/ Cardinality(failing) = 1
    BY <2>1, FS_EmptySet, FS_Singleton, Zenon
  <2>3. faults' = faults \/ faults' = faults + 1
    BY <2>1, <2>2 DEF TypeOK, DeviceTyped
  <2>4. /\ restarts' = restarts + 1 /\ UNCHANGED <<device, events>>
        /\ pending' = [n \in Attempt |-> {}]
    BY <1>12 DEF Restart
  <2>5. pending' \in [Attempt -> SUBSET Event] /\ open' \subseteq Attempt
    BY <2>1, <2>4
  <2> QED
    BY <2>3, <2>4, <2>5 DEF TypeOK, DeviceTyped
<1>13. ASSUME NEW n \in Attempt, NextGeneration(n) \/ LoginReturns(n) \/
            FinishLock(n) \/ Drain(n) \/ Challenge(n)
       PROVE  DeviceTyped'
  BY <1>13
     DEF NextGeneration, LoginReturns, FinishLock, Drain, Challenge, ChallengeIf,
         accountVars, loginVars, deviceVars, boundVars, TypeOK, DeviceTyped
<1>14. ASSUME NEW a \in Account, ReadConnected(a) \/ Remember(a) \/ WriteState(a) \/
            Forget(a) \/ FinishWrite(a)
       PROVE  DeviceTyped'
  BY <1>14
     DEF ReadConnected, ReadIf, Remember, WriteState, Forget, FinishWrite,
         FinishWith, loginVars, deviceVars, boundVars, TypeOK, DeviceTyped
<1>15. CASE UNCHANGED vars
  BY <1>15
     DEF vars, accountVars, loginVars, deviceVars, boundVars, TypeOK, DeviceTyped
<1> QED
  BY <1>1, <1>2, <1>3, <1>4, <1>5, <1>6, <1>7, <1>8, <1>9, <1>10, <1>11, <1>12,
     <1>13, <1>14, <1>15
     DEF Next, LoginGoroutine, HandlerStep, ProviderStep

---------------------------------------------------------------------------
(* The parts of the invariant                                              *)

\* A login begins only when none is active, and an active one is known.
LEMMA OneLoginStep ==
  ASSUME TypeOK, OneLoginAtATime, ActiveInv, [Next]_vars
  PROVE  (OneLoginAtATime /\ ActiveInv)'
<1>1. ASSUME NEW n \in Attempt, NEW a \in Account, BeginLogin(n, a)
      PROVE  (OneLoginAtATime /\ ActiveInv)'
  BY <1>1, AccountAssumption
     DEF BeginLogin, BeginIf, Goto, accountVars, deviceVars, boundVars, TypeOK,
         LoginTyped, OneLoginAtATime, ActiveInv
<1>2. ASSUME NEW n \in Attempt, NextGeneration(n)
      PROVE  (OneLoginAtATime /\ ActiveInv)'
  BY <1>2, AccountAssumption
     DEF NextGeneration, Goto, deviceVars, boundVars, TypeOK, LoginTyped,
         OneLoginAtATime, ActiveInv
<1>3. ASSUME NEW n \in Attempt, InstallSession(n)
      PROVE  (OneLoginAtATime /\ ActiveInv)'
  BY <1>3, AccountAssumption
     DEF InstallSession, Goto, boundVars, TypeOK, LoginTyped, OneLoginAtATime,
         ActiveInv
<1>4. ASSUME NEW n \in Attempt, LoginReturns(n) PROVE (OneLoginAtATime /\ ActiveInv)'
  BY <1>4, AccountAssumption
     DEF LoginReturns, Goto, accountVars, deviceVars, boundVars, TypeOK, LoginTyped,
         OneLoginAtATime, ActiveInv
<1>5. ASSUME NEW n \in Attempt, FinishLock(n) PROVE (OneLoginAtATime /\ ActiveInv)'
  BY <1>5, AccountAssumption
     DEF FinishLock, Goto, accountVars, deviceVars, boundVars, TypeOK, LoginTyped,
         OneLoginAtATime, ActiveInv
<1>6. ASSUME NEW n \in Attempt, Disconnect(n) PROVE (OneLoginAtATime /\ ActiveInv)'
  BY <1>6, AccountAssumption
     DEF Disconnect, Goto, accountVars, boundVars, TypeOK, LoginTyped,
         OneLoginAtATime, ActiveInv
<1>7. ASSUME NEW n \in Attempt, Drain(n) PROVE (OneLoginAtATime /\ ActiveInv)'
  BY <1>7, AccountAssumption
     DEF Drain, Goto, accountVars, deviceVars, boundVars, TypeOK, LoginTyped,
         OneLoginAtATime, ActiveInv
<1>8. ASSUME NEW n \in Attempt, LoginRefused(n) PROVE (OneLoginAtATime /\ ActiveInv)'
  BY <1>8, AccountAssumption
     DEF LoginRefused, Goto, Fault, accountVars, deviceVars, TypeOK, LoginTyped,
         OneLoginAtATime, ActiveInv
<1>9. ASSUME NEW a \in Account, FinishWrite(a) PROVE (OneLoginAtATime /\ ActiveInv)'
  BY <1>9, AccountAssumption
     DEF FinishWrite, FinishWith, Goto, deviceVars, boundVars, TypeOK, LoginTyped,
         OneLoginAtATime, ActiveInv
<1>10. ASSUME Restart PROVE (OneLoginAtATime /\ ActiveInv)'
  BY <1>10, AccountAssumption
     DEF Restart, TypeOK, LoginTyped, OneLoginAtATime, ActiveInv
<1>11. ASSUME NEW n \in Attempt, Challenge(n) \/ Pair(n) \/ Unlink(n)
       PROVE  (OneLoginAtATime /\ ActiveInv)'
  BY <1>11
     DEF Challenge, ChallengeIf, Pair, Unlink, accountVars, loginVars, deviceVars,
         boundVars, OneLoginAtATime, ActiveInv
<1>12. ASSUME NEW n \in Attempt, NEW e \in Event, Emit(n, e) \/ Deliver(n, e)
       PROVE  (OneLoginAtATime /\ ActiveInv)'
  BY <1>12
     DEF Emit, Deliver, DeliverIf, accountVars, loginVars, boundVars,
         OneLoginAtATime, ActiveInv
<1>13. ASSUME NEW a \in Account, ReadConnected(a) \/ SaveIdentity(a) \/ Remember(a)
            \/ WriteState(a) \/ Forget(a) \/ ClearIdentity(a) \/ Restored(a)
       PROVE  (OneLoginAtATime /\ ActiveInv)'
  BY <1>13
     DEF ReadConnected, ReadIf, SaveIdentity, Remember, WriteState, Forget,
         ClearIdentity, Restored, loginVars, deviceVars, boundVars, OneLoginAtATime,
         ActiveInv
<1>14. CASE UNCHANGED vars
  BY <1>14
     DEF vars, accountVars, loginVars, deviceVars, boundVars, TypeOK, LoginTyped,
         OneLoginAtATime, ActiveInv
<1> QED
  BY <1>1, <1>2, <1>3, <1>4, <1>5, <1>6, <1>7, <1>8, <1>9, <1>10, <1>11, <1>12,
     <1>13, <1>14
     DEF Next, LoginGoroutine, HandlerStep, ProviderStep

\* Whoever replaces or drops the session removes its QR code.
LEMMA ChallengeStep ==
  ASSUME TypeOK, ChallengeIsCurrent, [Next]_vars
  PROVE  ChallengeIsCurrent'
<1>1. ASSUME NEW n \in Attempt, NEW a \in Account, BeginLogin(n, a)
      PROVE  ChallengeIsCurrent'
  BY <1>1
     DEF BeginLogin, BeginIf, Goto, accountVars, deviceVars, boundVars, TypeOK,
         AccountTyped, LoginTyped, ChallengeIsCurrent, Attempt
<1>2. ASSUME NEW n \in Attempt, InstallSession(n) PROVE ChallengeIsCurrent'
  BY <1>2
     DEF InstallSession, Goto, boundVars, TypeOK, AccountTyped, LoginTyped,
         ChallengeIsCurrent, Attempt
<1>3. ASSUME NEW n \in Attempt, Challenge(n) PROVE ChallengeIsCurrent'
  BY <1>3
     DEF Challenge, ChallengeIf, loginVars, deviceVars, boundVars, TypeOK,
         AccountTyped, LoginTyped, ChallengeIsCurrent, Attempt
<1>4. ASSUME NEW a \in Account, ReadConnected(a) PROVE ChallengeIsCurrent'
  BY <1>4
     DEF ReadConnected, ReadIf, Release, SetError, loginVars, deviceVars, boundVars,
         TypeOK, AccountTyped, LoginTyped, ChallengeIsCurrent, Attempt
<1>5. ASSUME NEW a \in Account, SaveIdentity(a) PROVE ChallengeIsCurrent'
  BY <1>5
     DEF SaveIdentity, Release, SetError, Fault, loginVars, deviceVars, TypeOK,
         AccountTyped, LoginTyped, ChallengeIsCurrent, Attempt
<1>6. ASSUME NEW a \in Account, WriteState(a) PROVE ChallengeIsCurrent'
  BY <1>6
     DEF WriteState, Release, loginVars, deviceVars, boundVars, TypeOK, AccountTyped,
         LoginTyped, ChallengeIsCurrent, Attempt
<1>7. ASSUME NEW a \in Account, Forget(a) PROVE ChallengeIsCurrent'
  BY <1>7
     DEF Forget, loginVars, deviceVars, boundVars, TypeOK, AccountTyped, LoginTyped,
         ChallengeIsCurrent, Attempt
<1>8. ASSUME NEW a \in Account, ClearIdentity(a) PROVE ChallengeIsCurrent'
  BY <1>8
     DEF ClearIdentity, Release, SetError, Fault, loginVars, deviceVars, TypeOK,
         AccountTyped, LoginTyped, ChallengeIsCurrent, Attempt
<1>9. ASSUME NEW a \in Account, FinishWrite(a) PROVE ChallengeIsCurrent'
  BY <1>9
     DEF FinishWrite, FinishWith, Goto, deviceVars, boundVars, TypeOK, AccountTyped,
         LoginTyped, ChallengeIsCurrent, Attempt
<1>10. ASSUME NEW a \in Account, Restored(a) PROVE ChallengeIsCurrent'
  BY <1>10
     DEF Restored, SetError, Fault, loginVars, deviceVars, TypeOK, AccountTyped,
         LoginTyped, ChallengeIsCurrent, Attempt
<1>11. ASSUME Restart PROVE ChallengeIsCurrent'
  BY <1>11 DEF Restart, TypeOK, AccountTyped, LoginTyped, ChallengeIsCurrent, Attempt
<1>12. ASSUME NEW n \in Attempt, NextGeneration(n) \/ LoginReturns(n) \/
            FinishLock(n) \/ Disconnect(n) \/ Drain(n) \/ LoginRefused(n) \/ Pair(n)
            \/ Unlink(n)
       PROVE  ChallengeIsCurrent'
  BY <1>12
     DEF NextGeneration, LoginReturns, FinishLock, Disconnect, Drain, LoginRefused,
         Pair, Unlink, accountVars, loginVars, deviceVars, boundVars,
         ChallengeIsCurrent
<1>13. ASSUME NEW n \in Attempt, NEW e \in Event, Emit(n, e) \/ Deliver(n, e)
       PROVE  ChallengeIsCurrent'
  BY <1>13
     DEF Emit, Deliver, DeliverIf, accountVars, loginVars, boundVars,
         ChallengeIsCurrent
<1>14. ASSUME NEW a \in Account, Remember(a)
       PROVE  ChallengeIsCurrent'
  BY <1>14 DEF Remember, loginVars, deviceVars, boundVars, ChallengeIsCurrent
<1>15. CASE UNCHANGED vars
  BY <1>15
     DEF vars, accountVars, loginVars, deviceVars, boundVars, TypeOK, AccountTyped,
         LoginTyped, ChallengeIsCurrent
<1> QED
  BY <1>1, <1>2, <1>3, <1>4, <1>5, <1>6, <1>7, <1>8, <1>9, <1>10, <1>11, <1>12,
     <1>13, <1>14, <1>15
     DEF Next, LoginGoroutine, HandlerStep, ProviderStep

\* Nothing passes from the attempt of one account to another account.
LEMMA OwnerStep == ASSUME TypeOK, OwnerInv, [Next]_vars PROVE OwnerInv'
<1>1. ASSUME NEW n \in Attempt, NEW a \in Account, BeginLogin(n, a) PROVE OwnerInv'
  <2>1. /\ attempt' = [attempt EXCEPT ![n] = "clear"] /\ attempt[n] = "idle"
        /\ owner' = [owner EXCEPT ![n] = a]
        /\ UNCHANGED <<dbIdentity, identity, session, handler>>
    BY <1>1 DEF BeginLogin, BeginIf, Goto, accountVars
  <2>2. owner[n] = None /\ None \notin Account
    BY <2>1, AccountAssumption DEF OwnerInv
  <2>3. \A m \in Attempt : owner[m] # None => owner'[m] = owner[m]
    BY <2>1, <2>2 DEF TypeOK, LoginTyped
  <2> QED
    BY <2>1, <2>2, <2>3 DEF OwnerInv, TypeOK, LoginTyped
<1>2. ASSUME NEW n \in Attempt, NextGeneration(n) PROVE OwnerInv'
  BY <1>2
     DEF NextGeneration, Goto, deviceVars, boundVars, TypeOK, AccountTyped,
         LoginTyped, OwnerInv, Free
<1>3. ASSUME NEW n \in Attempt, InstallSession(n) PROVE OwnerInv'
  BY <1>3
     DEF InstallSession, Goto, boundVars, TypeOK, AccountTyped, LoginTyped, OwnerInv,
         Free
<1>4. ASSUME NEW n \in Attempt, LoginReturns(n) PROVE OwnerInv'
  BY <1>4
     DEF LoginReturns, Goto, accountVars, deviceVars, boundVars, TypeOK,
         AccountTyped, LoginTyped, OwnerInv, Free
<1>5. ASSUME NEW n \in Attempt, FinishLock(n) PROVE OwnerInv'
  BY <1>5
     DEF FinishLock, Goto, accountVars, deviceVars, boundVars, TypeOK, AccountTyped,
         LoginTyped, OwnerInv, Free
<1>6. ASSUME NEW n \in Attempt, Disconnect(n) PROVE OwnerInv'
  BY <1>6
     DEF Disconnect, Goto, accountVars, boundVars, TypeOK, AccountTyped, LoginTyped,
         OwnerInv, Free
<1>7. ASSUME NEW n \in Attempt, Drain(n) PROVE OwnerInv'
  BY <1>7
     DEF Drain, Goto, accountVars, deviceVars, boundVars, TypeOK, AccountTyped,
         LoginTyped, OwnerInv, Free
<1>8. ASSUME NEW n \in Attempt, LoginRefused(n) PROVE OwnerInv'
  BY <1>8
     DEF LoginRefused, Goto, Fault, accountVars, deviceVars, TypeOK, AccountTyped,
         LoginTyped, OwnerInv, Free
<1>9. ASSUME NEW n \in Attempt, NEW e \in Event, Deliver(n, e) PROVE OwnerInv'
  BY <1>9
     DEF Deliver, DeliverIf, accountVars, loginVars, boundVars, TypeOK, AccountTyped,
         LoginTyped, OwnerInv, Free
<1>10. ASSUME NEW a \in Account, ReadConnected(a) PROVE OwnerInv'
  <2>1. UNCHANGED <<dbIdentity, identity, session, attempt, owner>>
    BY <1>10 DEF ReadConnected, ReadIf, loginVars
  <2>2. session[a] # 0 => session[a] \in Attempt
    BY DEF TypeOK, AccountTyped, Attempt
  <2> QED
    BY <1>10, <2>1, <2>2, ReadCases DEF OwnerInv
<1>11. ASSUME NEW a \in Account, SaveIdentity(a) PROVE OwnerInv'
  <2>1. UNCHANGED <<identity, session, attempt, owner>>
    BY <1>11 DEF SaveIdentity, loginVars
  <2> QED
    BY <1>11, <2>1, SaveCases DEF OwnerInv
<1>12. ASSUME NEW a \in Account, Remember(a) PROVE OwnerInv'
  BY <1>12
     DEF Remember, loginVars, deviceVars, boundVars, TypeOK, AccountTyped,
         LoginTyped, OwnerInv, Free
<1>13. ASSUME NEW a \in Account, WriteState(a) PROVE OwnerInv'
  BY <1>13
     DEF WriteState, Release, loginVars, deviceVars, boundVars, TypeOK, AccountTyped,
         LoginTyped, OwnerInv, Free
<1>14. ASSUME NEW a \in Account, Forget(a) PROVE OwnerInv'
  <2>1. UNCHANGED <<dbIdentity, attempt, owner>> /\ 0 \notin Attempt
    BY <1>14 DEF Forget, loginVars, Attempt
  <2> QED
    BY <1>14, <2>1, ForgetCases DEF OwnerInv
<1>15. ASSUME NEW a \in Account, ClearIdentity(a) PROVE OwnerInv'
  <2>1. UNCHANGED <<identity, session, attempt, owner>> /\ 0 \notin Attempt
    BY <1>15 DEF ClearIdentity, loginVars, Attempt
  <2>2. /\ handler' = [handler EXCEPT ![a] = Free] /\ Free.pc = "free"
        /\ dbIdentity' \in {dbIdentity, [dbIdentity EXCEPT ![a] = 0]}
    BY <1>15 DEF ClearIdentity, Release, Free
  <2> QED
    BY <2>1, <2>2 DEF OwnerInv, TypeOK, AccountTyped
<1>16. ASSUME NEW a \in Account, FinishWrite(a) PROVE OwnerInv'
  <2>1. UNCHANGED <<dbIdentity, identity, owner>> /\ 0 \notin Attempt
    BY <1>16 DEF FinishWrite, FinishWith, Attempt
  <2> QED
    BY <1>16, <2>1, FinishCases DEF OwnerInv
<1>17. ASSUME Restart PROVE OwnerInv'
  <2>1. /\ identity' = dbIdentity /\ UNCHANGED <<dbIdentity, owner>>
        /\ handler' = [b \in Account |-> Free] /\ Free.pc = "free"
        /\ attempt' = [n \in Attempt |-> IF attempt[n] = "idle" THEN "idle" ELSE "done"]
    BY <1>17 DEF Restart, Free
  <2>2. \A b \in Account : session'[b] \in {dbIdentity[b], 0}
    BY <1>17 DEF Restart
  <2> QED
    BY <2>1, <2>2 DEF OwnerInv, Attempt
<1>18. ASSUME NEW n \in Attempt, Challenge(n) \/ Pair(n) \/ Unlink(n)
       PROVE  OwnerInv'
  BY <1>18
     DEF Challenge, ChallengeIf, Pair, Unlink, accountVars, loginVars, deviceVars,
         boundVars, OwnerInv
<1>19. ASSUME NEW n \in Attempt, NEW e \in Event, Emit(n, e)
       PROVE  OwnerInv'
  BY <1>19 DEF Emit, accountVars, loginVars, OwnerInv
<1>20. ASSUME NEW a \in Account, Restored(a)
       PROVE  OwnerInv'
  BY <1>20 DEF Restored, loginVars, deviceVars, OwnerInv
<1>21. CASE UNCHANGED vars
  BY <1>21
     DEF vars, accountVars, loginVars, deviceVars, boundVars, TypeOK, AccountTyped,
         LoginTyped, OwnerInv
<1> QED
  BY <1>1, <1>2, <1>3, <1>4, <1>5, <1>6, <1>7, <1>8, <1>9, <1>10, <1>11, <1>12,
     <1>13, <1>14, <1>15, <1>16, <1>17, <1>18, <1>19, <1>20, <1>21
     DEF Next, LoginGoroutine, HandlerStep, ProviderStep

\* The database is written first when an identity is saved, last when it goes.
LEMMA IdentityStep ==
  ASSUME TypeOK, OwnerInv, IdentityInv, [Next]_vars
  PROVE  IdentityInv'
<1>1. ASSUME NEW n \in Attempt, NEW a \in Account, BeginLogin(n, a)
      PROVE  IdentityInv'
  BY <1>1
     DEF BeginLogin, BeginIf, Goto, accountVars, deviceVars, boundVars, TypeOK,
         AccountTyped, DeviceTyped, LoginTyped, OwnerInv, IdentityInv, Free
<1>2. ASSUME NEW n \in Attempt, FinishLock(n) PROVE IdentityInv'
  BY <1>2
     DEF FinishLock, Goto, accountVars, deviceVars, boundVars, TypeOK, AccountTyped,
         DeviceTyped, LoginTyped, OwnerInv, IdentityInv, Free
<1>3. ASSUME NEW n \in Attempt, LoginRefused(n) PROVE IdentityInv'
  BY <1>3
     DEF LoginRefused, Goto, Fault, accountVars, deviceVars, TypeOK, AccountTyped,
         DeviceTyped, LoginTyped, OwnerInv, IdentityInv, Free
<1>4. ASSUME NEW n \in Attempt, NEW e \in Event, Deliver(n, e) PROVE IdentityInv'
  BY <1>4
     DEF Deliver, DeliverIf, accountVars, loginVars, boundVars, TypeOK, AccountTyped,
         DeviceTyped, LoginTyped, OwnerInv, IdentityInv, Free
<1>5. ASSUME NEW a \in Account, ReadConnected(a) PROVE IdentityInv'
  <2>1. UNCHANGED <<dbIdentity, identity, faults>>
    BY <1>5 DEF ReadConnected, ReadIf, boundVars
  <2> QED
    BY <1>5, <2>1, ReadCases DEF IdentityInv
<1>6. ASSUME NEW a \in Account, SaveIdentity(a) PROVE IdentityInv'
  <2>1. UNCHANGED identity
    BY <1>6 DEF SaveIdentity
  <2> QED
    BY <1>6, <2>1, SaveCases DEF IdentityInv
<1>7. ASSUME NEW a \in Account, Remember(a) PROVE IdentityInv'
  BY <1>7
     DEF Remember, loginVars, deviceVars, boundVars, TypeOK, AccountTyped,
         DeviceTyped, LoginTyped, OwnerInv, IdentityInv, Free
<1>8. ASSUME NEW a \in Account, WriteState(a) PROVE IdentityInv'
  BY <1>8
     DEF WriteState, Release, loginVars, deviceVars, boundVars, TypeOK, AccountTyped,
         DeviceTyped, LoginTyped, OwnerInv, IdentityInv, Free
<1>9. ASSUME NEW a \in Account, Forget(a) PROVE IdentityInv'
  BY <1>9
     DEF Forget, loginVars, deviceVars, boundVars, TypeOK, AccountTyped, DeviceTyped,
         LoginTyped, OwnerInv, IdentityInv, Free
<1>10. ASSUME NEW a \in Account, ClearIdentity(a) PROVE IdentityInv'
  BY <1>10
     DEF ClearIdentity, Release, SetError, Fault, loginVars, deviceVars, TypeOK,
         AccountTyped, DeviceTyped, LoginTyped, OwnerInv, IdentityInv, Free
<1>11. ASSUME NEW a \in Account, FinishWrite(a) PROVE IdentityInv'
  BY <1>11
     DEF FinishWrite, FinishWith, Goto, deviceVars, boundVars, TypeOK, AccountTyped,
         DeviceTyped, LoginTyped, OwnerInv, IdentityInv, Free
<1>12. ASSUME NEW a \in Account, Restored(a) PROVE IdentityInv'
  BY <1>12
     DEF Restored, SetError, Fault, loginVars, deviceVars, TypeOK, AccountTyped,
         DeviceTyped, LoginTyped, OwnerInv, IdentityInv, Free
<1>13. ASSUME Restart PROVE IdentityInv'
  BY <1>13
     DEF Restart, TypeOK, AccountTyped, DeviceTyped, LoginTyped, OwnerInv,
         IdentityInv, Free
<1>14. ASSUME NEW n \in Attempt, NextGeneration(n) \/ InstallSession(n) \/
            LoginReturns(n) \/ Disconnect(n) \/ Drain(n) \/ Challenge(n) \/ Pair(n)
            \/ Unlink(n)
       PROVE  IdentityInv'
  BY <1>14
     DEF NextGeneration, InstallSession, LoginReturns, Disconnect, Drain, Challenge,
         ChallengeIf, Pair, Unlink, accountVars, loginVars, deviceVars, boundVars,
         OwnerInv, IdentityInv
<1>15. ASSUME NEW n \in Attempt, NEW e \in Event, Emit(n, e)
       PROVE  IdentityInv'
  BY <1>15 DEF Emit, accountVars, loginVars, OwnerInv, IdentityInv
<1>16. CASE UNCHANGED vars
  BY <1>16
     DEF vars, accountVars, loginVars, deviceVars, boundVars, TypeOK, AccountTyped,
         DeviceTyped, LoginTyped, OwnerInv, IdentityInv
<1> QED
  BY <1>1, <1>2, <1>3, <1>4, <1>5, <1>6, <1>7, <1>8, <1>9, <1>10, <1>11, <1>12,
     <1>13, <1>14, <1>15, <1>16
     DEF Next, LoginGoroutine, HandlerStep, ProviderStep

\* What the handler of "connected" has seen is still there when it writes, since
\* only handlers take a session or an identity away.
LEMMA ConnectedStep ==
  ASSUME TypeOK, OwnerInv, ConnectedInv, ConnectedIsPaired, [Next]_vars
  PROVE  (ConnectedInv /\ ConnectedIsPaired)'
<1>1. ASSUME NEW n \in Attempt, NEW a \in Account, BeginLogin(n, a)
      PROVE  (ConnectedInv /\ ConnectedIsPaired)'
  BY <1>1
     DEF BeginLogin, BeginIf, Goto, accountVars, deviceVars, boundVars, TypeOK,
         AccountTyped, LoginTyped, ConnectedInv, ConnectedIsPaired, Free, OwnerInv
<1>2. ASSUME NEW n \in Attempt, InstallSession(n)
      PROVE  (ConnectedInv /\ ConnectedIsPaired)'
  <2>1. owner[n] \in Account /\ n # 0
    BY <1>2 DEF InstallSession, TypeOK, LoginTyped, Attempt
  <2>2. /\ session' = [session EXCEPT ![owner[n]] = n]
        /\ state' = [state EXCEPT ![owner[n]] = "pairing"]
        /\ UNCHANGED <<identity, handler>>
    BY <1>2 DEF InstallSession
  <2> QED
    BY <2>1, <2>2 DEF ConnectedInv, ConnectedIsPaired, TypeOK, AccountTyped
<1>3. ASSUME NEW n \in Attempt, FinishLock(n)
      PROVE  (ConnectedInv /\ ConnectedIsPaired)'
  BY <1>3
     DEF FinishLock, Goto, accountVars, deviceVars, boundVars, TypeOK, AccountTyped,
         LoginTyped, ConnectedInv, ConnectedIsPaired, Free, OwnerInv
<1>4. ASSUME NEW n \in Attempt, NEW e \in Event, Deliver(n, e)
      PROVE  (ConnectedInv /\ ConnectedIsPaired)'
  BY <1>4
     DEF Deliver, DeliverIf, accountVars, loginVars, boundVars, TypeOK, AccountTyped,
         LoginTyped, ConnectedInv, ConnectedIsPaired, Free, OwnerInv
<1>5. ASSUME NEW a \in Account, ReadConnected(a)
      PROVE  (ConnectedInv /\ ConnectedIsPaired)'
  <2>1. UNCHANGED <<identity, session>>
    BY <1>5 DEF ReadConnected, ReadIf
  <2> QED
    BY <1>5, <2>1, ReadCases DEF ConnectedInv, ConnectedIsPaired
<1>6. ASSUME NEW a \in Account, SaveIdentity(a)
      PROVE  (ConnectedInv /\ ConnectedIsPaired)'
  <2>1. UNCHANGED <<identity, session>>
    BY <1>6 DEF SaveIdentity
  <2> QED
    BY <1>6, <2>1, SaveCases DEF ConnectedInv, ConnectedIsPaired
<1>7. ASSUME NEW a \in Account, Remember(a)
      PROVE  (ConnectedInv /\ ConnectedIsPaired)'
  <2>1. UNCHANGED <<state, session>>
    BY <1>7 DEF Remember
  <2>2. handler[a].who # 0
    BY <1>7 DEF Remember, OwnerInv, Attempt
  <2> QED
    BY <1>7, <2>1, <2>2, RememberCases DEF ConnectedInv, ConnectedIsPaired
<1>8. ASSUME NEW a \in Account, WriteState(a)
      PROVE  (ConnectedInv /\ ConnectedIsPaired)'
  BY <1>8
     DEF WriteState, Release, loginVars, deviceVars, boundVars, TypeOK, AccountTyped,
         LoginTyped, ConnectedInv, ConnectedIsPaired, Free, OwnerInv
<1>9. ASSUME NEW a \in Account, Forget(a) PROVE (ConnectedInv /\ ConnectedIsPaired)'
  BY <1>9
     DEF Forget, loginVars, deviceVars, boundVars, TypeOK, AccountTyped, LoginTyped,
         ConnectedInv, ConnectedIsPaired, Free, OwnerInv
<1>10. ASSUME NEW a \in Account, ClearIdentity(a)
       PROVE  (ConnectedInv /\ ConnectedIsPaired)'
  BY <1>10
     DEF ClearIdentity, Release, SetError, Fault, loginVars, deviceVars, TypeOK,
         AccountTyped, LoginTyped, ConnectedInv, ConnectedIsPaired, Free, OwnerInv
<1>11. ASSUME NEW a \in Account, FinishWrite(a)
       PROVE  (ConnectedInv /\ ConnectedIsPaired)'
  BY <1>11
     DEF FinishWrite, FinishWith, Goto, deviceVars, boundVars, TypeOK, AccountTyped,
         LoginTyped, ConnectedInv, ConnectedIsPaired, Free, OwnerInv
<1>12. ASSUME NEW a \in Account, Restored(a)
       PROVE  (ConnectedInv /\ ConnectedIsPaired)'
  BY <1>12
     DEF Restored, SetError, Fault, loginVars, deviceVars, TypeOK, AccountTyped,
         LoginTyped, ConnectedInv, ConnectedIsPaired, Free, OwnerInv
<1>13. ASSUME Restart PROVE (ConnectedInv /\ ConnectedIsPaired)'
  BY <1>13
     DEF Restart, TypeOK, AccountTyped, LoginTyped, ConnectedInv, ConnectedIsPaired,
         Free, OwnerInv
<1>14. ASSUME NEW n \in Attempt, NextGeneration(n) \/ LoginReturns(n) \/
            Disconnect(n) \/ Drain(n) \/ LoginRefused(n) \/ Challenge(n) \/ Pair(n)
            \/ Unlink(n)
       PROVE  (ConnectedInv /\ ConnectedIsPaired)'
  BY <1>14
     DEF NextGeneration, LoginReturns, Disconnect, Drain, LoginRefused, Challenge,
         ChallengeIf, Pair, Unlink, accountVars, loginVars, deviceVars, boundVars,
         ConnectedInv, ConnectedIsPaired, OwnerInv
<1>15. ASSUME NEW n \in Attempt, NEW e \in Event, Emit(n, e)
       PROVE  (ConnectedInv /\ ConnectedIsPaired)'
  BY <1>15
     DEF Emit, accountVars, loginVars, ConnectedInv, ConnectedIsPaired, OwnerInv
<1>16. CASE UNCHANGED vars
  BY <1>16
     DEF vars, accountVars, loginVars, deviceVars, boundVars, TypeOK, AccountTyped,
         LoginTyped, ConnectedInv, ConnectedIsPaired, OwnerInv
<1> QED
  BY <1>1, <1>2, <1>3, <1>4, <1>5, <1>6, <1>7, <1>8, <1>9, <1>10, <1>11, <1>12,
     <1>13, <1>14, <1>15, <1>16
     DEF Next, LoginGoroutine, HandlerStep, ProviderStep

\* A generation only grows, but for a restart, which gives all the same.
LEMMA GenerationStep ==
  ASSUME TypeOK, GenerationInv, OwnerInv, [Next]_vars
  PROVE  GenerationInv'
<1>1. ASSUME NEW n \in Attempt, NEW a \in Account, BeginLogin(n, a)
      PROVE  GenerationInv'
  <2>1. /\ attempt' = [attempt EXCEPT ![n] = "clear"] /\ attempt[n] = "idle"
        /\ owner' = [owner EXCEPT ![n] = a]
        /\ UNCHANGED <<open, pending, gen, generation>>
    BY <1>1 DEF BeginLogin, BeginIf, Goto, accountVars, deviceVars
  <2>2. owner[n] = None
    BY <2>1 DEF OwnerInv
  <2> QED
    BY <2>1, <2>2 DEF GenerationInv, TypeOK, LoginTyped
<1>2. ASSUME NEW n \in Attempt, NextGeneration(n) PROVE GenerationInv'
  <2> DEFINE a == owner[n]
  <2>1. /\ attempt' = [attempt EXCEPT ![n] = "new"] /\ attempt[n] = "clear"
        /\ generation' = [generation EXCEPT ![a] = generation[a] + 1]
        /\ gen' = [gen EXCEPT ![n] = generation[a] + 1]
        /\ UNCHANGED <<open, pending, owner>>
    BY <1>2 DEF NextGeneration, Goto, deviceVars
  <2>2. a \in Account /\ a # None
    BY <2>1, AccountAssumption DEF TypeOK, LoginTyped
  <2>3. \A m \in Attempt, b \in Account :
           owner[m] \in {b, None} => gen'[m] <= generation'[b]
    BY <2>1, <2>2 DEF GenerationInv, TypeOK, LoginTyped, AccountTyped
  <2>4. \A m \in Attempt : attempt'[m] \in {"idle", "clear", "new"}
           => m \notin open /\ pending[m] = {}
    BY <2>1 DEF GenerationInv, TypeOK, LoginTyped
  <2> QED
    BY <2>1, <2>3, <2>4 DEF GenerationInv
<1>3. ASSUME NEW n \in Attempt, InstallSession(n) PROVE GenerationInv'
  BY <1>3
     DEF InstallSession, Goto, boundVars, TypeOK, AccountTyped, LoginTyped,
         DeviceTyped, GenerationInv, OwnerInv
<1>4. ASSUME NEW n \in Attempt, LoginReturns(n) PROVE GenerationInv'
  BY <1>4
     DEF LoginReturns, Goto, accountVars, deviceVars, boundVars, TypeOK,
         AccountTyped, LoginTyped, DeviceTyped, GenerationInv, OwnerInv
<1>5. ASSUME NEW n \in Attempt, FinishLock(n) PROVE GenerationInv'
  BY <1>5
     DEF FinishLock, Goto, accountVars, deviceVars, boundVars, TypeOK, AccountTyped,
         LoginTyped, DeviceTyped, GenerationInv, OwnerInv
<1>6. ASSUME NEW n \in Attempt, Disconnect(n) PROVE GenerationInv'
  BY <1>6
     DEF Disconnect, Goto, accountVars, boundVars, TypeOK, AccountTyped, LoginTyped,
         DeviceTyped, GenerationInv, OwnerInv
<1>7. ASSUME NEW n \in Attempt, Drain(n) PROVE GenerationInv'
  BY <1>7
     DEF Drain, Goto, accountVars, deviceVars, boundVars, TypeOK, AccountTyped,
         LoginTyped, DeviceTyped, GenerationInv, OwnerInv
<1>8. ASSUME NEW n \in Attempt, LoginRefused(n) PROVE GenerationInv'
  BY <1>8
     DEF LoginRefused, Goto, Fault, accountVars, deviceVars, TypeOK, AccountTyped,
         LoginTyped, DeviceTyped, GenerationInv, OwnerInv
<1>9. ASSUME NEW n \in Attempt, Pair(n) PROVE GenerationInv'
  BY <1>9
     DEF Pair, accountVars, loginVars, boundVars, TypeOK, AccountTyped, LoginTyped,
         DeviceTyped, GenerationInv, OwnerInv
<1>10. ASSUME NEW n \in Attempt, Unlink(n) PROVE GenerationInv'
  BY <1>10
     DEF Unlink, accountVars, loginVars, boundVars, TypeOK, AccountTyped, LoginTyped,
         DeviceTyped, GenerationInv, OwnerInv
<1>11. ASSUME NEW n \in Attempt, NEW e \in Event, Emit(n, e) PROVE GenerationInv'
  BY <1>11
     DEF Emit, accountVars, loginVars, TypeOK, AccountTyped, LoginTyped, DeviceTyped,
         GenerationInv, OwnerInv
<1>12. ASSUME NEW n \in Attempt, NEW e \in Event, Deliver(n, e) PROVE GenerationInv'
  BY <1>12
     DEF Deliver, DeliverIf, accountVars, loginVars, boundVars, TypeOK, AccountTyped,
         LoginTyped, DeviceTyped, GenerationInv, OwnerInv
<1>13. ASSUME NEW a \in Account, Forget(a) PROVE GenerationInv'
  BY <1>13
     DEF Forget, loginVars, deviceVars, boundVars, TypeOK, AccountTyped, LoginTyped,
         DeviceTyped, GenerationInv, OwnerInv
<1>14. ASSUME NEW a \in Account, FinishWrite(a) PROVE GenerationInv'
  BY <1>14
     DEF FinishWrite, FinishWith, Goto, deviceVars, boundVars, TypeOK, AccountTyped,
         LoginTyped, DeviceTyped, GenerationInv, OwnerInv
<1>15. ASSUME Restart PROVE GenerationInv'
  <2>1. /\ generation' = [b \in Account |-> 1] /\ gen' = [n \in Attempt |-> 1]
        /\ pending' = [n \in Attempt |-> {}] /\ owner' = owner
        /\ attempt' = [n \in Attempt |-> IF attempt[n] = "idle" THEN "idle" ELSE "done"]
        /\ \A n \in open' : n \in Attempt /\ \E b \in Account : dbIdentity[b] = n
    BY <1>15 DEF Restart
  <2>2. \A n \in open' : attempt[n] # "idle"
    BY <2>1, AccountAssumption DEF OwnerInv
  <2> QED
    BY <2>1, <2>2 DEF GenerationInv
<1>16. ASSUME NEW n \in Attempt, Challenge(n)
       PROVE  GenerationInv'
  BY <1>16
     DEF Challenge, ChallengeIf, loginVars, deviceVars, boundVars, GenerationInv,
         OwnerInv
<1>17. ASSUME NEW a \in Account, ReadConnected(a) \/ SaveIdentity(a) \/ Remember(a)
            \/ WriteState(a) \/ ClearIdentity(a) \/ Restored(a)
       PROVE  GenerationInv'
  BY <1>17
     DEF ReadConnected, ReadIf, SaveIdentity, Remember, WriteState, ClearIdentity,
         Restored, loginVars, deviceVars, boundVars, GenerationInv, OwnerInv
<1>18. CASE UNCHANGED vars
  BY <1>18
     DEF vars, accountVars, loginVars, deviceVars, boundVars, TypeOK, AccountTyped,
         LoginTyped, DeviceTyped, GenerationInv, OwnerInv
<1> QED
  BY <1>1, <1>2, <1>3, <1>4, <1>5, <1>6, <1>7, <1>8, <1>9, <1>10, <1>11, <1>12,
     <1>13, <1>14, <1>15, <1>16, <1>17, <1>18
     DEF Next, LoginGoroutine, HandlerStep, ProviderStep

\* Replacing a session comes with a new generation, and a login that does not
\* overlap another one finds nothing to replace.
LEMMA CurrentStep ==
  ASSUME TypeOK, OneLoginAtATime, OwnerInv, ActiveInv, GenerationInv, CurrentInv,
         [Next]_vars
  PROVE  CurrentInv'
<1>1. ASSUME NEW n \in Attempt, NEW a \in Account, BeginLogin(n, a) PROVE CurrentInv'
  BY <1>1
     DEF BeginLogin, BeginIf, Goto, accountVars, deviceVars, boundVars, TypeOK,
         AccountTyped, LoginTyped, GenerationInv, CurrentInv, StaleInv, InstallInv,
         HandlerInv, OwnerInv, ActiveInv, Free
<1>2. ASSUME NEW n \in Attempt, NextGeneration(n) PROVE CurrentInv'
  <2> DEFINE a == owner[n]
  <2>1. /\ attempt' = [attempt EXCEPT ![n] = "new"] /\ attempt[n] = "clear"
        /\ generation' = [generation EXCEPT ![a] = generation[a] + 1]
        /\ gen' = [gen EXCEPT ![n] = generation[a] + 1]
        /\ UNCHANGED <<open, pending, owner, hasty, session, identity, handler>>
    BY <1>2 DEF NextGeneration, Goto, deviceVars
  <2>2. a \in Account /\ n \notin open /\ pending[n] = {}
    BY <2>1 DEF TypeOK, LoginTyped, GenerationInv
  <2>3. \A m \in Attempt \ {n} : owner[m] = a => gen'[m] # generation'[a]
    BY <2>1, <2>2 DEF GenerationInv, TypeOK, LoginTyped, AccountTyped
  <2>4. StaleInv'
    BY <2>1, <2>2, <2>3
       DEF CurrentInv, StaleInv, InstallInv, HandlerInv, TypeOK, LoginTyped,
           AccountTyped
  <2>5. InstallInv'
    BY <2>1, <2>2, <2>3
       DEF CurrentInv, StaleInv, InstallInv, HandlerInv, TypeOK, LoginTyped,
           AccountTyped
  <2>6. HandlerInv'
    BY <2>1, <2>2, <2>3
       DEF CurrentInv, StaleInv, InstallInv, HandlerInv, TypeOK, LoginTyped,
           AccountTyped
  <2> QED
    BY <2>4, <2>5, <2>6 DEF CurrentInv
<1>3. ASSUME NEW n \in Attempt, InstallSession(n) PROVE CurrentInv'
  <2> DEFINE a == owner[n]
  <2>1. /\ attempt' = [attempt EXCEPT ![n] = "login"] /\ attempt[n] = "new"
        /\ session' = [session EXCEPT ![a] = n] /\ open' = open \cup {n}
        /\ UNCHANGED <<pending, owner, hasty, gen, generation, identity, handler>>
    BY <1>3 DEF InstallSession, Goto
  <2>2. a \in Account /\ 0 \notin Attempt
    BY <2>1 DEF TypeOK, LoginTyped, Attempt
  <2>3. \A m \in Attempt : attempt'[m] \in {"clear", "new"} =>
           /\ attempt[m] \in {"clear", "new"} /\ owner[m] # a
    BY <2>1 DEF ActiveInv, OneLoginAtATime, TypeOK, LoginTyped
  <2>4. a \notin hasty => session[a] = 0 /\ handler[a].pc = "free"
    BY <2>1, <2>2 DEF CurrentInv, InstallInv
  <2>5. StaleInv'
    BY <2>1, <2>2, <2>3, <2>4
       DEF CurrentInv, StaleInv, InstallInv, HandlerInv, TypeOK, AccountTyped
  <2>6. InstallInv'
    BY <2>1, <2>2, <2>3, <2>4
       DEF CurrentInv, StaleInv, InstallInv, HandlerInv, TypeOK, AccountTyped
  <2>7. HandlerInv'
    BY <2>1, <2>2, <2>3, <2>4
       DEF CurrentInv, StaleInv, InstallInv, HandlerInv, TypeOK, AccountTyped
  <2> QED
    BY <2>5, <2>6, <2>7 DEF CurrentInv
<1>4. ASSUME NEW n \in Attempt, LoginReturns(n) PROVE CurrentInv'
  BY <1>4
     DEF LoginReturns, Goto, accountVars, deviceVars, boundVars, TypeOK,
         AccountTyped, LoginTyped, GenerationInv, CurrentInv, StaleInv, InstallInv,
         HandlerInv, OwnerInv, ActiveInv, Free
<1>5. ASSUME NEW n \in Attempt, FinishLock(n) PROVE CurrentInv'
  <2> DEFINE a == owner[n]
  <2>1. /\ attempt' \in {[attempt EXCEPT ![n] = "close"], [attempt EXCEPT ![n] = "locked"]}
        /\ UNCHANGED <<open, pending, owner, hasty, gen, generation, identity, session>>
    BY <1>5 DEF FinishLock, Goto, accountVars, deviceVars
  <2>2. a \in Account /\ 0 \notin Attempt
    BY <1>5 DEF FinishLock, TypeOK, LoginTyped, Attempt
  <2>3. \/ handler' = handler
        \/ /\ session[a] = n /\ handler'[a].by = n /\ handler'[a].who = n
           /\ \A b \in Account \ {a} : handler'[b] = handler[b]
    BY <1>5, <2>2 DEF FinishLock, TypeOK, AccountTyped
  <2>4. \A m \in Attempt : attempt'[m] \in {"clear", "new"} => attempt[m] = attempt'[m]
    BY <2>1 DEF TypeOK, LoginTyped
  <2>5. StaleInv'
    BY <2>1, <2>2, <2>3, <2>4 DEF CurrentInv, StaleInv, InstallInv, HandlerInv
  <2>6. InstallInv'
    BY <2>1, <2>2, <2>3, <2>4 DEF CurrentInv, StaleInv, InstallInv, HandlerInv
  <2>7. HandlerInv'
    BY <2>1, <2>2, <2>3, <2>4 DEF CurrentInv, StaleInv, InstallInv, HandlerInv
  <2> QED
    BY <2>5, <2>6, <2>7 DEF CurrentInv
<1>6. ASSUME NEW n \in Attempt, Disconnect(n) PROVE CurrentInv'
  BY <1>6
     DEF Disconnect, Goto, accountVars, boundVars, TypeOK, AccountTyped, LoginTyped,
         GenerationInv, CurrentInv, StaleInv, InstallInv, HandlerInv, OwnerInv,
         ActiveInv, Free
<1>7. ASSUME NEW n \in Attempt, Drain(n) PROVE CurrentInv'
  BY <1>7
     DEF Drain, Goto, accountVars, deviceVars, boundVars, TypeOK, AccountTyped,
         LoginTyped, GenerationInv, CurrentInv, StaleInv, InstallInv, HandlerInv,
         OwnerInv, ActiveInv, Free
<1>8. ASSUME NEW n \in Attempt, LoginRefused(n) PROVE CurrentInv'
  BY <1>8
     DEF LoginRefused, Goto, Fault, accountVars, deviceVars, TypeOK, AccountTyped,
         LoginTyped, GenerationInv, CurrentInv, StaleInv, InstallInv, HandlerInv,
         OwnerInv, ActiveInv, Free
<1>9. ASSUME NEW n \in Attempt, Pair(n) PROVE CurrentInv'
  BY <1>9
     DEF Pair, accountVars, loginVars, boundVars, TypeOK, AccountTyped, LoginTyped,
         GenerationInv, CurrentInv, StaleInv, InstallInv, HandlerInv, OwnerInv,
         ActiveInv, Free
<1>10. ASSUME NEW n \in Attempt, Unlink(n) PROVE CurrentInv'
  BY <1>10
     DEF Unlink, accountVars, loginVars, boundVars, TypeOK, AccountTyped, LoginTyped,
         GenerationInv, CurrentInv, StaleInv, InstallInv, HandlerInv, OwnerInv,
         ActiveInv, Free
<1>11. ASSUME NEW n \in Attempt, NEW e \in Event, Emit(n, e) PROVE CurrentInv'
  BY <1>11
     DEF Emit, accountVars, loginVars, TypeOK, AccountTyped, LoginTyped,
         GenerationInv, CurrentInv, StaleInv, InstallInv, HandlerInv, OwnerInv,
         ActiveInv, Free
<1>12. ASSUME NEW n \in Attempt, NEW e \in Event, Deliver(n, e) PROVE CurrentInv'
  <2> DEFINE a == owner[n]
  <2>1. /\ pending' = [pending EXCEPT ![n] = pending[n] \ {e}] /\ e \in pending[n]
        /\ UNCHANGED <<open, attempt, owner, hasty, gen, generation, identity, session>>
    BY <1>12 DEF Deliver, DeliverIf, accountVars, loginVars
  <2>2. a \in Account /\ 0 \notin Attempt
    BY <2>1 DEF GenerationInv, TypeOK, LoginTyped, Attempt
  <2>3. \/ handler' = handler
        \/ /\ generation[a] = gen[n] /\ handler'[a].by = n /\ handler'[a].who = n
           /\ \A b \in Account \ {a} : handler'[b] = handler[b]
    BY <1>12, <2>2 DEF Deliver, DeliverIf, TypeOK, AccountTyped
  <2>4. generation[a] = gen[n] /\ a \notin hasty => session[a] = n
    BY <2>1, <2>2 DEF CurrentInv, StaleInv, InstallInv, HandlerInv
  <2>5. \A m \in Attempt : pending'[m] # {} => pending[m] # {}
    BY <2>1 DEF TypeOK, DeviceTyped
  <2>6. StaleInv'
    BY <2>1, <2>2, <2>3, <2>4, <2>5 DEF CurrentInv, StaleInv, InstallInv, HandlerInv
  <2>7. InstallInv'
    BY <2>1, <2>2, <2>3, <2>4, <2>5 DEF CurrentInv, StaleInv, InstallInv, HandlerInv
  <2>8. HandlerInv'
    BY <2>1, <2>2, <2>3, <2>4, <2>5 DEF CurrentInv, StaleInv, InstallInv, HandlerInv
  <2> QED
    BY <2>6, <2>7, <2>8 DEF CurrentInv
<1>13. ASSUME NEW a \in Account, ReadConnected(a) PROVE CurrentInv'
  <2>1. UNCHANGED <<identity, session, generation, loginVars, deviceVars>>
    BY <1>13 DEF ReadConnected, ReadIf
  <2>2. StaleInv'
    BY <1>13, <2>1, ReadCases
       DEF CurrentInv, StaleInv, InstallInv, HandlerInv, loginVars, deviceVars
  <2>3. InstallInv'
    BY <1>13, <2>1, ReadCases
       DEF CurrentInv, StaleInv, InstallInv, HandlerInv, loginVars, deviceVars
  <2>4. HandlerInv'
    BY <1>13, <2>1, ReadCases
       DEF CurrentInv, StaleInv, InstallInv, HandlerInv, loginVars, deviceVars
  <2> QED
    BY <2>2, <2>3, <2>4 DEF CurrentInv
<1>14. ASSUME NEW a \in Account, SaveIdentity(a) PROVE CurrentInv'
  <2>1. UNCHANGED <<identity, session, generation, loginVars, deviceVars>>
    BY <1>14 DEF SaveIdentity
  <2>2. StaleInv'
    BY <1>14, <2>1, SaveCases
       DEF CurrentInv, StaleInv, InstallInv, HandlerInv, loginVars, deviceVars
  <2>3. InstallInv'
    BY <1>14, <2>1, SaveCases
       DEF CurrentInv, StaleInv, InstallInv, HandlerInv, loginVars, deviceVars
  <2>4. HandlerInv'
    BY <1>14, <2>1, SaveCases
       DEF CurrentInv, StaleInv, InstallInv, HandlerInv, loginVars, deviceVars
  <2> QED
    BY <2>2, <2>3, <2>4 DEF CurrentInv
<1>15. ASSUME NEW a \in Account, Remember(a) PROVE CurrentInv'
  <2>1. UNCHANGED <<session, generation, loginVars, deviceVars>>
    BY <1>15 DEF Remember
  <2>2. StaleInv'
    BY <1>15, <2>1, RememberCases
       DEF CurrentInv, StaleInv, InstallInv, HandlerInv, loginVars, deviceVars
  <2>3. InstallInv'
    BY <1>15, <2>1, RememberCases
       DEF CurrentInv, StaleInv, InstallInv, HandlerInv, loginVars, deviceVars
  <2>4. HandlerInv'
    BY <1>15, <2>1, RememberCases
       DEF CurrentInv, StaleInv, InstallInv, HandlerInv, loginVars, deviceVars
  <2> QED
    BY <2>2, <2>3, <2>4 DEF CurrentInv
<1>16. ASSUME NEW a \in Account, WriteState(a) PROVE CurrentInv'
  BY <1>16
     DEF WriteState, Release, loginVars, deviceVars, boundVars, TypeOK, AccountTyped,
         LoginTyped, GenerationInv, CurrentInv, StaleInv, InstallInv, HandlerInv,
         OwnerInv, ActiveInv, Free
<1>17. ASSUME NEW a \in Account, Forget(a) PROVE CurrentInv'
  <2>1. UNCHANGED <<loginVars, deviceVars>>
    BY <1>17 DEF Forget
  <2>2. \A m \in Attempt : owner[m] = a => gen[m] # generation'[a]
    BY <1>17, ForgetCases DEF GenerationInv, TypeOK, LoginTyped, AccountTyped
  <2>3. StaleInv'
    BY <1>17, <2>1, <2>2, ForgetCases
       DEF CurrentInv, StaleInv, InstallInv, HandlerInv, loginVars, deviceVars
  <2>4. InstallInv'
    BY <1>17, <2>1, <2>2, ForgetCases
       DEF CurrentInv, StaleInv, InstallInv, HandlerInv, loginVars, deviceVars
  <2>5. HandlerInv'
    BY <1>17, <2>1, <2>2, ForgetCases
       DEF CurrentInv, StaleInv, InstallInv, HandlerInv, loginVars, deviceVars
  <2> QED
    BY <2>3, <2>4, <2>5 DEF CurrentInv
<1>18. ASSUME NEW a \in Account, ClearIdentity(a) PROVE CurrentInv'
  BY <1>18
     DEF ClearIdentity, Release, SetError, Fault, loginVars, deviceVars, TypeOK,
         AccountTyped, LoginTyped, GenerationInv, CurrentInv, StaleInv, InstallInv,
         HandlerInv, OwnerInv, ActiveInv, Free
<1>19. ASSUME NEW a \in Account, FinishWrite(a) PROVE CurrentInv'
  <2>1. UNCHANGED <<identity, owner, gen, hasty, deviceVars>>
    BY <1>19 DEF FinishWrite, FinishWith
  <2>2. generation'[a] = generation[a] + 1 =>
          \A m \in Attempt : owner[m] = a => gen[m] # generation'[a]
    BY DEF GenerationInv, TypeOK, LoginTyped, AccountTyped
  <2>3. StaleInv'
    BY <1>19, <2>1, <2>2, FinishCases
       DEF CurrentInv, StaleInv, InstallInv, HandlerInv, deviceVars
  <2>4. InstallInv'
    BY <1>19, <2>1, <2>2, FinishCases
       DEF CurrentInv, StaleInv, InstallInv, HandlerInv, deviceVars
  <2>5. HandlerInv'
    BY <1>19, <2>1, <2>2, FinishCases
       DEF CurrentInv, StaleInv, InstallInv, HandlerInv, deviceVars
  <2> QED
    BY <2>3, <2>4, <2>5 DEF CurrentInv
<1>20. ASSUME Restart PROVE CurrentInv'
  BY <1>20
     DEF Restart, TypeOK, AccountTyped, LoginTyped, GenerationInv, CurrentInv,
         StaleInv, InstallInv, HandlerInv, OwnerInv, ActiveInv, Free
<1>21. ASSUME NEW n \in Attempt, Challenge(n)
       PROVE  CurrentInv'
  BY <1>21
     DEF Challenge, ChallengeIf, loginVars, deviceVars, boundVars, GenerationInv,
         CurrentInv, StaleInv, InstallInv, HandlerInv, OwnerInv, ActiveInv
<1>22. ASSUME NEW a \in Account, Restored(a)
       PROVE  CurrentInv'
  BY <1>22
     DEF Restored, loginVars, deviceVars, GenerationInv, CurrentInv, StaleInv,
         InstallInv, HandlerInv, OwnerInv, ActiveInv
<1>23. CASE UNCHANGED vars
  BY <1>23
     DEF vars, accountVars, loginVars, deviceVars, boundVars, TypeOK, AccountTyped,
         LoginTyped, GenerationInv, CurrentInv, StaleInv, InstallInv, HandlerInv,
         OwnerInv, ActiveInv
<1> QED
  BY <1>1, <1>2, <1>3, <1>4, <1>5, <1>6, <1>7, <1>8, <1>9, <1>10, <1>11, <1>12,
     <1>13, <1>14, <1>15, <1>16, <1>17, <1>18, <1>19, <1>20, <1>21, <1>22, <1>23
     DEF Next, LoginGoroutine, HandlerStep, ProviderStep

\* An identity is remembered for the session that paired it.
LEMMA SessionStep ==
  ASSUME TypeOK, OwnerInv, ActiveInv, CurrentInv, SessionOwnsIdentity, [Next]_vars
  PROVE  SessionOwnsIdentity'
<1>1. ASSUME NEW n \in Attempt, NEW a \in Account, BeginLogin(n, a)
      PROVE  SessionOwnsIdentity'
  BY <1>1
     DEF BeginLogin, BeginIf, Goto, accountVars, deviceVars, boundVars, TypeOK,
         AccountTyped, LoginTyped, CurrentInv, StaleInv, InstallInv, HandlerInv,
         SessionOwnsIdentity
<1>2. ASSUME NEW n \in Attempt, InstallSession(n) PROVE SessionOwnsIdentity'
  BY <1>2
     DEF InstallSession, Goto, boundVars, TypeOK, AccountTyped, LoginTyped,
         CurrentInv, StaleInv, InstallInv, HandlerInv, SessionOwnsIdentity
<1>3. ASSUME NEW a \in Account, Remember(a) PROVE SessionOwnsIdentity'
  BY <1>3
     DEF Remember, loginVars, deviceVars, boundVars, TypeOK, AccountTyped,
         LoginTyped, CurrentInv, StaleInv, InstallInv, HandlerInv,
         SessionOwnsIdentity
<1>4. ASSUME NEW a \in Account, Forget(a) PROVE SessionOwnsIdentity'
  BY <1>4
     DEF Forget, loginVars, deviceVars, boundVars, TypeOK, AccountTyped, LoginTyped,
         CurrentInv, StaleInv, InstallInv, HandlerInv, SessionOwnsIdentity
<1>5. ASSUME NEW a \in Account, FinishWrite(a) PROVE SessionOwnsIdentity'
  BY <1>5
     DEF FinishWrite, FinishWith, Goto, deviceVars, boundVars, TypeOK, AccountTyped,
         LoginTyped, CurrentInv, StaleInv, InstallInv, HandlerInv,
         SessionOwnsIdentity
<1>6. ASSUME Restart PROVE SessionOwnsIdentity'
  BY <1>6
     DEF Restart, TypeOK, AccountTyped, LoginTyped, CurrentInv, StaleInv, InstallInv,
         HandlerInv, SessionOwnsIdentity
<1>7. ASSUME NEW n \in Attempt, NextGeneration(n) \/ LoginReturns(n) \/ FinishLock(n)
            \/ Disconnect(n) \/ Drain(n) \/ LoginRefused(n) \/ Challenge(n) \/
            Pair(n) \/ Unlink(n)
      PROVE  SessionOwnsIdentity'
  BY <1>7
     DEF NextGeneration, LoginReturns, FinishLock, Disconnect, Drain, LoginRefused,
         Challenge, ChallengeIf, Pair, Unlink, accountVars, loginVars, deviceVars,
         boundVars, CurrentInv, StaleInv, InstallInv, HandlerInv, SessionOwnsIdentity
<1>8. ASSUME NEW n \in Attempt, NEW e \in Event, Emit(n, e) \/ Deliver(n, e)
      PROVE  SessionOwnsIdentity'
  BY <1>8
     DEF Emit, Deliver, DeliverIf, accountVars, loginVars, boundVars, CurrentInv,
         StaleInv, InstallInv, HandlerInv, SessionOwnsIdentity
<1>9. ASSUME NEW a \in Account, ReadConnected(a) \/ SaveIdentity(a) \/ WriteState(a)
            \/ ClearIdentity(a) \/ Restored(a)
      PROVE  SessionOwnsIdentity'
  BY <1>9
     DEF ReadConnected, ReadIf, SaveIdentity, WriteState, ClearIdentity, Restored,
         loginVars, deviceVars, boundVars, CurrentInv, StaleInv, InstallInv,
         HandlerInv, SessionOwnsIdentity
<1>10. CASE UNCHANGED vars
  BY <1>10
     DEF vars, accountVars, loginVars, deviceVars, boundVars, TypeOK, AccountTyped,
         LoginTyped, CurrentInv, StaleInv, InstallInv, HandlerInv,
         SessionOwnsIdentity
<1> QED
  BY <1>1, <1>2, <1>3, <1>4, <1>5, <1>6, <1>7, <1>8, <1>9, <1>10
     DEF Next, LoginGoroutine, HandlerStep, ProviderStep

---------------------------------------------------------------------------
(* The theorems                                                            *)

LEMMA InitInv == Init => SessionInv
<1> SUFFICES ASSUME Init PROVE SessionInv
  OBVIOUS
<1>1. Free \in Handler /\ Free.pc = "free" /\ 0 \notin Attempt /\ 0 \in 0..MaxAttempt
  BY FreeTyped, NumberTyped DEF Free, Attempt
<1>2. AccountTyped
  BY <1>1 DEF Init, AccountTyped, State
<1>3. LoginTyped
  BY DEF Init, LoginTyped, AttemptPC
<1>4. DeviceTyped
  BY DEF Init, DeviceTyped
<1>5. LoginInv
  BY <1>2, <1>3, <1>4 DEF Init, LoginInv, TypeOK, OneLoginAtATime, ChallengeIsCurrent
<1>6. OwnerInv /\ ActiveInv /\ IdentityInv
  BY <1>1 DEF Init, OwnerInv, ActiveInv, IdentityInv
<1>7. ConnectedInv /\ ConnectedIsPaired /\ GenerationInv
  BY <1>1 DEF Init, ConnectedInv, ConnectedIsPaired, GenerationInv, Free
<1>8. CurrentInv /\ SessionOwnsIdentity
  BY <1>1 DEF Init, CurrentInv, StaleInv, InstallInv, HandlerInv, SessionOwnsIdentity
<1> QED
  BY <1>5, <1>6, <1>7, <1>8 DEF SessionInv

LEMMA NextInv == SessionInv /\ [Next]_vars => SessionInv'
<1> SUFFICES ASSUME SessionInv, [Next]_vars PROVE SessionInv'
  OBVIOUS
<1>1. TypeOK'
  BY AccountStep, LoginStep, DeviceStep DEF SessionInv, LoginInv, TypeOK
<1>2. (OneLoginAtATime /\ ActiveInv)' /\ ChallengeIsCurrent'
  BY OneLoginStep, ChallengeStep DEF SessionInv, LoginInv
<1>3. OwnerInv' /\ IdentityInv' /\ (ConnectedInv /\ ConnectedIsPaired)'
  BY OwnerStep, IdentityStep, ConnectedStep DEF SessionInv, LoginInv
<1>4. GenerationInv' /\ CurrentInv' /\ SessionOwnsIdentity'
  BY GenerationStep, CurrentStep, SessionStep DEF SessionInv, LoginInv
<1> QED
  BY <1>1, <1>2, <1>3, <1>4 DEF SessionInv, LoginInv

\* What app/service.go keeps at every step of its logins, handlers and restarts.
THEOREM SessionInvHolds == Spec => []SessionInv
<1> QED
  BY InitInv, NextInv, PTL DEF Spec

\* One login at a time, with its own QR code (service.go:221-265).
THEOREM LoginsAreSingle == Spec => []LoginInv
<1>1. SessionInv => LoginInv
  BY DEF SessionInv
<1> QED
  BY <1>1, SessionInvHolds, PTL

\* Between the handlers an identity in memory is in the database, and without
\* failing calls the other way round (service.go:637-672, 712-760).
THEOREM MemoryIsDatabase == Spec => []MemoryMatchesDatabase
<1>1. SessionInv => MemoryMatchesDatabase
  BY DEF SessionInv, IdentityInv, MemoryMatchesDatabase
<1> QED
  BY <1>1, SessionInvHolds, PTL

\* An account that is shown as connected has a session and an identity.
THEOREM ConnectedHasSession == Spec => []ConnectedIsPaired
<1>1. SessionInv => ConnectedIsPaired
  BY DEF SessionInv
<1> QED
  BY <1>1, SessionInvHolds, PTL

\* Where logins do not overlap, an account's session is the one it is paired with.
THEOREM SessionIsOwn == Spec => []SessionOwnsIdentity
<1>1. SessionInv => SessionOwnsIdentity
  BY DEF SessionInv
<1> QED
  BY <1>1, SessionInvHolds, PTL

\* The history variable only grows.
LEMMA HastyGrows == ASSUME [Next]_vars PROVE hasty \subseteq hasty'
<1>1. ASSUME NEW n \in Attempt, NEW a \in Account, BeginLogin(n, a)
      PROVE  hasty \subseteq hasty'
  BY <1>1 DEF BeginLogin, BeginIf
<1>2. ASSUME NEW n \in Attempt, LoginGoroutine(n) PROVE UNCHANGED hasty
  BY <1>2 DEF LoginGoroutine, NextGeneration, InstallSession, LoginReturns, FinishLock,
              Disconnect, Drain, loginVars
<1>3. ASSUME NEW n \in Attempt, LoginRefused(n) \/ Challenge(n) \/ ProviderStep(n)
      PROVE  UNCHANGED hasty
  BY <1>3 DEF LoginRefused, Challenge, ChallengeIf, ProviderStep, Pair, Unlink, Emit,
              loginVars
<1>4. ASSUME NEW n \in Attempt, NEW e \in Event, Deliver(n, e) PROVE UNCHANGED hasty
  BY <1>4 DEF Deliver, DeliverIf, loginVars
<1>5. ASSUME NEW a \in Account, HandlerStep(a) PROVE UNCHANGED hasty
  BY <1>5 DEF HandlerStep, ReadConnected, ReadIf, SaveIdentity, Remember, WriteState,
              Forget, ClearIdentity, FinishWrite, FinishWith, loginVars
<1>6. ASSUME (\E a \in Account : Restored(a)) \/ Restart \/ UNCHANGED vars
      PROVE  UNCHANGED hasty
  BY <1>6 DEF Restored, Restart, vars, loginVars
<1> QED
  BY <1>1, <1>2, <1>3, <1>4, <1>5, <1>6 DEF Next

\* Only the last section of a handler makes an account connected.
LEMMA ConnectsByWriting ==
  ASSUME TypeOK, [Next]_vars, NEW b \in Account,
         state'[b] = "connected", state[b] # "connected"
  PROVE  handler[b].pc = "write"
<1>1. ASSUME NEW n \in Attempt, InstallSession(n) PROVE handler[b].pc = "write"
  BY <1>1 DEF InstallSession, TypeOK, AccountTyped
<1>2. ASSUME NEW a \in Account, ReadConnected(a) PROVE handler[b].pc = "write"
  BY <1>2 DEF ReadConnected, ReadIf, SetError, TypeOK, AccountTyped
<1>3. ASSUME NEW a \in Account, SaveIdentity(a) PROVE handler[b].pc = "write"
  BY <1>3 DEF SaveIdentity, SetError, TypeOK, AccountTyped
<1>4. ASSUME NEW a \in Account, WriteState(a) PROVE handler[b].pc = "write"
  BY <1>4 DEF WriteState, TypeOK, AccountTyped
<1>5. ASSUME NEW a \in Account, Forget(a) PROVE handler[b].pc = "write"
  BY <1>5 DEF Forget, TypeOK, AccountTyped
<1>6. ASSUME NEW a \in Account, ClearIdentity(a) PROVE handler[b].pc = "write"
  BY <1>6 DEF ClearIdentity, SetError, TypeOK, AccountTyped
<1>7. ASSUME NEW a \in Account, FinishWrite(a) PROVE handler[b].pc = "write"
  BY <1>7 DEF FinishWrite, FinishWith, TypeOK, AccountTyped
<1>8. ASSUME NEW a \in Account, Restored(a) PROVE handler[b].pc = "write"
  BY <1>8 DEF Restored, SetError, TypeOK, AccountTyped
<1>9. ASSUME Restart PROVE handler[b].pc = "write"
  BY <1>9 DEF Restart, TypeOK, AccountTyped
<1>10. ASSUME UNCHANGED state PROVE handler[b].pc = "write"
  BY <1>10
<1> QED
  BY <1>1, <1>2, <1>3, <1>4, <1>5, <1>6, <1>7, <1>8, <1>9, <1>10
     DEF Next, LoginGoroutine, HandlerStep, ProviderStep, vars, accountVars,
         BeginLogin, BeginIf, NextGeneration, LoginReturns, FinishLock, Disconnect,
         Drain, LoginRefused, Challenge, ChallengeIf, Pair, Unlink, Emit, Deliver,
         DeliverIf, Remember

\* And only an event of that session connects the account or logs it out.
THEOREM EventsOfCurrentSession == Spec => EventsAreCurrent
<1> DEFINE Current == \A a \in Account \ hasty' :
             /\ state'[a] = "connected" /\ state[a] # "connected"
                  => session[a] = handler[a].by
             /\ handler[a].pc = "forget" /\ session'[a] # session[a]
                  => session[a] \in {0, handler[a].by}
<1>1. SessionInv /\ [Next]_vars => Current
  <2> SUFFICES ASSUME SessionInv, [Next]_vars, NEW a \in Account \ hasty' PROVE
        /\ state'[a] = "connected" /\ state[a] # "connected" => session[a] = handler[a].by
        /\ handler[a].pc = "forget" /\ session'[a] # session[a]
             => session[a] \in {0, handler[a].by}
    OBVIOUS
  <2>1. a \notin hasty
    BY HastyGrows
  <2>2. handler[a].pc = "forget" => session[a] = handler[a].by
    BY <2>1 DEF SessionInv, CurrentInv, HandlerInv
  <2>3. state'[a] = "connected" /\ state[a] # "connected" => handler[a].pc = "write"
    BY ConnectsByWriting DEF SessionInv, LoginInv
  <2>4. handler[a].pc = "write" => session[a] = handler[a].by
    BY <2>1 DEF SessionInv, CurrentInv, HandlerInv
  <2> QED
    BY <2>2, <2>3, <2>4
<1>2. SessionInv /\ [Next]_vars => [Current]_vars
  BY <1>1
<1> QED
  BY <1>2, SessionInvHolds, PTL DEF Spec, EventsAreCurrent
=============================================================================
