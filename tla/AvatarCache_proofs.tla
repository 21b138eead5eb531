------------------------- MODULE AvatarCache_proofs -------------------------
(***************************************************************************)
(* Proofs about AvatarCache, for any number of contacts, workers and       *)
(* requests and any size of the queue: its types; that a paired account    *)
(* has no picture of another pairing; that the store forgets no object;    *)
(* that no picture is stored after the notice that it is old; and that no  *)
(* contact stays marked without a job.                                     *)
(***************************************************************************)
EXTENDS AvatarCache, FiniteSetTheorems, TLAPS

---------------------------------------------------------------------------
(* Keys                                                                    *)

LEMMA ContactsAreNumbers ==
  /\ Cardinality(Contact) \in Nat \ {0} /\ 0 \in Contact
  /\ \A i \in Int : i % Cardinality(Contact) \in Contact
<1>1. Cardinality(Contact) \in Nat \ {0}
  BY FS_CardinalityType, FS_EmptySet, AvatarAssumption
<1>2. PICK n \in Nat \ {0} : n = Cardinality(Contact)
  BY <1>1
<1>3. Contact = 0..(n - 1)
  BY <1>2, AvatarAssumption
<1>4. 0 \in 0..(n - 1) /\ \A i \in Int : i % n \in 0..(n - 1)
  BY <1>2
<1>5. 0 \in Contact
  BY <1>3, <1>4
<1>6. \A i \in Int : i % Cardinality(Contact) \in Contact
  BY <1>2, <1>3, <1>4
<1> QED
  BY <1>1, <1>5, <1>6

LEMMA ImageFinite ==
  ASSUME NEW S, IsFiniteSet(S), NEW f, DOMAIN f = S, f = [x \in S |-> f[x]]
  PROVE  IsFiniteSet({f[x] : x \in S})
<1>1. f \in Surjection(S, {f[x] : x \in S})
  BY DEF Surjection
<1> QED
  BY <1>1, FS_Surjection

\* A finite set of keys leaves one free among the first ones.
LEMMA KeyIsFree ==
  ASSUME NEW S, IsFiniteSet(S) PROVE \E k \in 1..(Cardinality(S) + 1) : k \notin S
<1>1. PICK n \in Nat : n = Cardinality(S)
  BY FS_CardinalityType
<1>2. IsFiniteSet(1..(n + 1)) /\ Cardinality(1..(n + 1)) = n + 1
  BY FS_Interval
<1>3. 1..(n + 1) \subseteq S => n + 1 <= n
  BY <1>1, <1>2, FS_Subset
<1> QED
  BY <1>1, <1>3

LEMMA RowKeysFinite == ASSUME CacheTyped PROVE IsFiniteSet({rows[c].key : c \in Contact})
<1> DEFINE f == [c \in Contact |-> rows[c].key]
<1>1. IsFiniteSet(Contact)
  BY AvatarAssumption
<1>2. DOMAIN f = Contact /\ f = [c \in Contact |-> f[c]]
  OBVIOUS
<1>3. IsFiniteSet({f[c] : c \in Contact})
  <2> HIDE DEF f
  <2> QED
    BY <1>1, <1>2, ImageFinite
<1>4. {f[c] : c \in Contact} = {rows[c].key : c \in Contact}
  OBVIOUS
<1> QED
  BY <1>3, <1>4

\* A new object gets a key that nothing has.
LEMMA FreshKeyIsFree ==
  ASSUME CacheTyped, CallersTyped
  PROVE  FreshKey \in Key /\ FreshKey \notin Stored \cup Held
<1>1. IsFiniteSet({rows[c].key : c \in Contact})
  BY RowKeysFinite
<1>2. IsFiniteSet(Held)
  <2> DEFINE f == [a \in Caller |-> caller[a].key]
  <2>1. IsFiniteSet(Caller)
    BY FS_Union, AvatarAssumption DEF Caller
  <2>2. IsFiniteSet({f[a] : a \in Caller})
    BY <2>1, ImageFinite
  <2>3. {f[a] : a \in Caller} = Held
    BY DEF Held
  <2> QED
    BY <2>2, <2>3
<1>3. IsFiniteSet(Stored \cup Held)
  BY <1>1, <1>2, FS_Union DEF CacheTyped, Stored
<1>4. PICK S : S = Stored \cup Held
  OBVIOUS
<1>5. /\ FreshKey = CHOOSE k \in 1..(Cardinality(S) + 1) : k \notin S
      /\ \E k \in 1..(Cardinality(S) + 1) : k \notin S
      /\ Cardinality(S) \in Nat
  BY <1>3, <1>4, KeyIsFree, FS_CardinalityType DEF FreshKey
<1>6. FreshKey \in 1..(Cardinality(S) + 1) /\ FreshKey \notin S
  BY <1>5
<1> QED
  BY <1>4, <1>5, <1>6 DEF Key

---------------------------------------------------------------------------
(* Types                                                                   *)

LEMMA EmptySequence == ASSUME NEW S PROVE <<>> \in Seq(S)
OBVIOUS

CallerType == [pc : PC, on : Contact, as : 0..MaxPairings, epoch : Nat,
               row : Row, version : Version, key : Key \cup {0}]

LEMMA NoRowTyped ==
  /\ NoRow \in Row
  /\ \A k \in Key \cup {0}, v \in Version, d \in BOOLEAN, p \in 0..MaxPairings :
       [key |-> k, version |-> v, due |-> d, by |-> p] \in Row
  /\ 0 \in Version
BY AvatarAssumption DEF NoRow, Row, Version

LEMMA IdleTyped ==
  /\ Idle \in CallerType /\ Idle.pc = "idle" /\ Idle.key = 0 /\ Idle.epoch = 0
  /\ \A c \in Contact, pc \in PC :
       LET x == [Idle EXCEPT !.pc = pc, !.on = c] IN
       x \in CallerType /\ x.pc = pc /\ x.on = c /\ x.key = 0 /\ x.epoch = 0
<1>1. /\ "idle" \in PC /\ 0 \in Contact /\ 0 \in Version /\ NoRow \in Row
      /\ 0 \in 0..MaxPairings
  BY NoRowTyped, ContactsAreNumbers, AvatarAssumption DEF PC
<1>2. /\ Idle \in CallerType /\ Idle.pc = "idle" /\ Idle.key = 0 /\ Idle.epoch = 0
  BY <1>1 DEF Idle, CallerType
<1>3. ASSUME NEW x \in CallerType, NEW c \in Contact, NEW pc \in PC
      PROVE  LET y == [x EXCEPT !.pc = pc, !.on = c] IN
             /\ y \in CallerType /\ y.pc = pc /\ y.on = c
             /\ y.key = x.key /\ y.epoch = x.epoch
  BY DEF CallerType
<1>4. ASSUME NEW c \in Contact, NEW pc \in PC
      PROVE  LET y == [Idle EXCEPT !.pc = pc, !.on = c] IN
             y \in CallerType /\ y.pc = pc /\ y.on = c /\ y.key = 0 /\ y.epoch = 0
  <2>1. PICK x \in CallerType : x = Idle
    BY <1>2
  <2>2. LET y == [x EXCEPT !.pc = pc, !.on = c] IN
        /\ y \in CallerType /\ y.pc = pc /\ y.on = c
        /\ y.key = x.key /\ y.epoch = x.epoch
    BY <1>3, Zenon
  <2> QED
    BY <1>2, <2>1, <2>2
<1> QED
  BY <1>2, <1>4, Zenon

\* A caller that changes
LEMMA CallerSet ==
  ASSUME CallersTyped, NEW a \in Caller, NEW x \in CallerType,
         caller' = [caller EXCEPT ![a] = x]
  PROVE  /\ caller' \in [Caller -> CallerType] /\ caller'[a] = x
         /\ \A b \in Caller : b # a => caller'[b] = caller[b]
BY DEF CallersTyped, CallerType

LEMMA GotoSet ==
  ASSUME CallersTyped, NEW a \in Caller, NEW pc \in PC, Goto(a, pc)
  PROVE  /\ caller' \in [Caller -> CallerType]
         /\ caller'[a] = [caller[a] EXCEPT !.pc = pc]
         /\ \A b \in Caller : b # a => caller'[b] = caller[b]
BY DEF CallersTyped, CallerType, Goto

LEMMA EndSet ==
  ASSUME CallersTyped, NEW a \in Caller, End(a)
  PROVE  /\ caller' \in [Caller -> CallerType]
         /\ caller'[a] = [Idle EXCEPT !.pc = "end", !.on = caller[a].on]
         /\ \A b \in Caller : b # a => caller'[b] = caller[b]
<1>1. [Idle EXCEPT !.pc = "end", !.on = caller[a].on] \in CallerType
  <2>1. caller[a].on \in Contact /\ "end" \in PC
    BY DEF CallersTyped, PC
  <2> QED
    BY <2>1, IdleTyped, Zenon
<1> QED
  BY <1>1, CallerSet DEF End

\* What a flight leaves alone
LEMMA FlightFrame ==
  ASSUME NEW a \in Caller, Refreshing(a)
  PROVE  UNCHANGED <<changes, version, shown, notices, told, queue, queued, forced, scans, scan,
                     next, epoch, handler, login, identity, dbIdentity, session, online,
                     pairings, ages>>
BY DEF Refreshing, Join, Land, ReadSession, ReadEpoch, ReadRecord, Fetch, Missing, Reread,
       Touch, Refetch, Put, Save, SaveIf, Undo, remoteVars, queueVars, scanVars, acctVars

\* The variables that an action changes
LEMMA CallerFrame ==
  ASSUME [Next]_vars
  PROVE  \/ UNCHANGED <<caller, epoch, flight>>
         \/ \E w \in Worker : Take(w) \/ Pop(w)
         \/ \E r \in Reader, c \in Contact : Request(r, c)
         \/ \E a \in Caller : Refreshing(a)
         \/ Notice \/ Restart
BY DEF Next, vars, StartScan, ScanContact, OtherJob, NoticeRemoved, NoticeChanged, Change,
       Profile, Age, Connect, Disconnect, LoggedOut, ClearLoggedOut, ForgetIdentity,
       StartLogin, NewSession, Paired, CleanOrphan, Vanish

LEMMA AccountFrame ==
  ASSUME [Next]_vars
  PROVE  \/ UNCHANGED <<login, identity, dbIdentity, session, online, pairings>>
         \/ Connect \/ Disconnect \/ LoggedOut \/ ForgetIdentity
         \/ StartLogin \/ NewSession \/ Paired \/ Restart
<1> DEFINE same == UNCHANGED <<login, identity, dbIdentity, session, online, pairings>>
<1>1. ASSUME NEW a \in Caller, Refreshing(a) PROVE same
  BY <1>1, FlightFrame
<1>2. ASSUME StartScan \/ ScanContact \/ OtherJob PROVE same
  BY <1>2 DEF StartScan, ScanContact, OtherJob, acctVars
<1>3. ASSUME NEW w \in Worker, Take(w) \/ Pop(w) PROVE same
  BY <1>3 DEF Take, Pop, PopWith, acctVars
<1>4. ASSUME NEW r \in Reader, NEW c \in Contact, Request(r, c) PROVE same
  BY <1>4 DEF Request, acctVars
<1>5. ASSUME Notice \/ NoticeRemoved \/ NoticeChanged \/ ClearLoggedOut PROVE same
  BY <1>5 DEF Notice, NoticeRemoved, NoticeChanged, ClearLoggedOut, acctVars
<1>6. ASSUME NEW c \in Contact, Change(c) \/ Profile(c) \/ Age(c) PROVE same
  BY <1>6 DEF Change, Profile, Age, acctVars
<1>7. ASSUME NEW k, CleanOrphan(k) \/ Vanish(k) PROVE same
  BY <1>7 DEF CleanOrphan, Vanish, acctVars
<1>8. vars' = vars => same
  BY DEF vars, acctVars
<1> HIDE DEF same
<1>9. \/ same
      \/ Connect \/ Disconnect \/ LoggedOut \/ ForgetIdentity
      \/ StartLogin \/ NewSession \/ Paired \/ Restart
  BY <1>1, <1>2, <1>3, <1>4, <1>5, <1>6, <1>7, <1>8 DEF Next
<1> QED
  BY <1>9 DEF same

LEMMA RemoteTypedStep ==
  ASSUME RemoteTyped, [Next]_vars PROVE RemoteTyped'
<1>1. ASSUME NEW c \in Contact, Change(c) PROVE RemoteTyped'
  <2>1. changes' \in Version /\ changes + 1 \in Version
    BY <1>1, AvatarAssumption DEF Change, RemoteTyped, Version
  <2>2. /\ version' \in [Contact -> Version] /\ UNCHANGED told
        /\ shown' \in [Contact -> BOOLEAN]
    BY <1>1, <2>1 DEF Change, RemoteTyped
  <2>3. notices' \in Seq([on : Contact, version : Version, removed : BOOLEAN])
    BY <1>1, <2>1 DEF Change, RemoteTyped
  <2> QED
    BY <2>1, <2>2, <2>3 DEF RemoteTyped
<1>2. ASSUME Notice PROVE RemoteTyped'
  <2> DEFINE N == [on : Contact, version : Version, removed : BOOLEAN]
  <2>1. notices \in Seq(N) /\ notices # <<>> /\ UNCHANGED <<changes, version, shown>>
    BY <1>2 DEF Notice, RemoteTyped
  <2>2. Head(notices) \in N /\ Tail(notices) \in Seq(N)
    <3> HIDE DEF N
    <3> QED
      BY <2>1
  <2>3. told' \in [Contact -> Version]
    BY <1>2, <2>2 DEF Notice, RemoteTyped
  <2> QED
    BY <1>2, <2>1, <2>2, <2>3 DEF Notice, RemoteTyped
<1>3. ASSUME LoggedOut PROVE RemoteTyped'
  BY <1>3, EmptySequence DEF LoggedOut, RemoteTyped
<1>4. ASSUME UNCHANGED <<changes, version, shown, notices, told>> PROVE RemoteTyped'
  BY <1>4 DEF RemoteTyped
<1>5. ASSUME NEW a \in Caller, Refreshing(a)
      PROVE  UNCHANGED <<changes, version, shown, notices, told>>
  BY <1>5, FlightFrame
<1> QED
  BY <1>1, <1>2, <1>3, <1>4, <1>5
     DEF Next, vars, remoteVars, StartScan, ScanContact, OtherJob, Take, Pop, PopWith, Request,
         NoticeRemoved, NoticeChanged, Profile, Age, Connect, Disconnect, ClearLoggedOut,
         ForgetIdentity, StartLogin, NewSession, Paired, Restart, CleanOrphan, Vanish

LEMMA AccountTypedStep ==
  ASSUME RemoteTyped, AccountTyped, [Next]_vars PROVE AccountTyped'
<1> DEFINE H == [pc : {"free", "queue", "remove", "clear", "forget"}, on : Contact]
<1>1. ages' \in 0..MaxAges /\ faults' \in 0..MaxFaults
  <2>0. ASSUME NEW a \in Caller, Refreshing(a)
        PROVE  UNCHANGED ages /\ (UNCHANGED faults \/ Fault)
    BY <2>0, FlightFrame, Zenon
       DEF Refreshing, Join, Land, ReadSession, ReadEpoch, ReadRecord, Fetch, Missing, Reread,
           Touch, Refetch, Put, Save, SaveIf, Undo
  <2>1. \/ UNCHANGED ages
        \/ ages < MaxAges /\ ages' = ages + 1
    BY <2>0 DEF Next, vars, acctVars, StartScan, ScanContact, OtherJob, Take, Pop, PopWith,
                Request, NoticeRemoved, NoticeChanged, Profile, Age, Connect, Disconnect,
                ClearLoggedOut, ForgetIdentity, StartLogin, NewSession, Paired, Restart,
                CleanOrphan, Vanish, Change, Notice, LoggedOut
  <2>2. UNCHANGED faults \/ Fault
    BY <2>0 DEF Next, vars, acctVars, StartScan, ScanContact, OtherJob, Take, Pop, PopWith,
                Request, NoticeRemoved, NoticeChanged, Profile, Age, Connect, Disconnect,
                ClearLoggedOut, ForgetIdentity, StartLogin, NewSession, Paired, Restart,
                CleanOrphan, Vanish, Change, Notice, LoggedOut
  <2> QED
    BY <2>1, <2>2, AvatarAssumption DEF AccountTyped, Fault
<1>2. handler' \in H
  <2>0. ASSUME NEW a \in Caller, Refreshing(a) PROVE UNCHANGED handler
    BY <2>0, FlightFrame
  <2>1. Free \in H
    BY ContactsAreNumbers DEF Free
  <2>2. ASSUME Notice PROVE Head(notices).on \in Contact
    <3> DEFINE N == [on : Contact, version : Version, removed : BOOLEAN]
    <3>1. notices \in Seq(N) /\ notices # <<>>
      BY <2>2 DEF Notice, RemoteTyped
    <3>2. Head(notices) \in N
      <4> HIDE DEF N
      <4> QED
        BY <3>1
    <3> QED
      BY <3>2
  <2>3. \/ UNCHANGED handler \/ handler' = Free
        \/ handler' = [pc |-> "clear", on |-> 0] \/ handler' = [pc |-> "forget", on |-> 0]
        \/ /\ Notice
           /\ \/ handler' = [pc |-> "remove", on |-> Head(notices).on]
              \/ handler' = [pc |-> "queue", on |-> Head(notices).on]
    BY <2>0 DEF Next, vars, acctVars, StartScan, ScanContact, OtherJob, Take, Pop, PopWith,
                Request, NoticeRemoved, NoticeChanged, Profile, Age, Connect, Disconnect,
                ClearLoggedOut, ForgetIdentity, StartLogin, NewSession, Paired, Restart,
                CleanOrphan, Vanish, Change, Notice, LoggedOut
  <2>4. UNCHANGED handler => handler' \in H
    BY DEF AccountTyped
  <2>5. 0 \in Contact
    BY ContactsAreNumbers
  <2>6. /\ [pc |-> "clear", on |-> 0] \in H /\ [pc |-> "forget", on |-> 0] \in H
        /\ \A c \in Contact : [pc |-> "remove", on |-> c] \in H /\ [pc |-> "queue", on |-> c] \in H
    BY <2>5
  <2> HIDE DEF H
  <2>7. CASE Notice
    BY <2>1, <2>2, <2>3, <2>4, <2>6, <2>7
  <2>8. CASE ~Notice
    BY <2>1, <2>3, <2>4, <2>6, <2>8
  <2> QED
    BY <2>7, <2>8
<1>3. /\ login' \in BOOLEAN /\ online' \in BOOLEAN
      /\ identity' \in 0..MaxPairings /\ dbIdentity' \in 0..MaxPairings
      /\ session' \in 0..MaxPairings /\ pairings' \in 1..MaxPairings
  <2>1. \/ UNCHANGED <<login, identity, dbIdentity, session, online, pairings>>
        \/ Connect \/ Disconnect \/ LoggedOut \/ ForgetIdentity
        \/ StartLogin \/ NewSession \/ Paired \/ Restart
    BY AccountFrame
  <2>2. pairings < MaxPairings => pairings + 1 \in 1..MaxPairings
    BY AvatarAssumption DEF AccountTyped
  <2>3. /\ 0 \in 0..MaxPairings
        /\ pairings < MaxPairings => pairings + 1 \in 0..MaxPairings
    BY <2>2, AvatarAssumption
  <2>4. /\ login' \in BOOLEAN /\ online' \in BOOLEAN
        /\ dbIdentity' \in {dbIdentity, 0, session}
        /\ identity' \in {identity, 0, session, dbIdentity}
        /\ \/ session' \in {session, 0} /\ UNCHANGED pairings
           \/ /\ pairings < MaxPairings
              /\ session' = pairings + 1 /\ pairings' = pairings + 1
    BY <2>1 DEF AccountTyped, Connect, Disconnect, LoggedOut, ForgetIdentity, StartLogin,
                NewSession, Paired, Restart
  <2> QED
    BY <2>2, <2>3, <2>4 DEF AccountTyped
<1> QED
  BY <1>1, <1>2, <1>3 DEF AccountTyped

LEMMA EnqueueTyped ==
  ASSUME QueueTyped, NEW c \in Contact, NEW force \in BOOLEAN, ~Full(c), Enqueue(c, force)
  PROVE  /\ queue' \in Seq(Contact \cup {None}) /\ Len(queue') <= QueueSize
         /\ queued' \subseteq Contact /\ forced' \subseteq queued'
<1>1. CASE c \in queued
  BY <1>1 DEF Enqueue, QueueTyped
<1>2. CASE c \notin queued
  <2>1. Len(queue) < QueueSize /\ queue' = Append(queue, c)
    BY <1>2, AvatarAssumption DEF Full, Enqueue, QueueTyped
  <2>2. queue' \in Seq(Contact \cup {None}) /\ Len(queue') <= QueueSize
    BY <2>1, AvatarAssumption DEF QueueTyped
  <2> QED
    BY <1>2, <2>2 DEF Enqueue, QueueTyped
<1> QED
  BY <1>1, <1>2

LEMMA QueueFrame ==
  ASSUME [Next]_vars
  PROVE  \/ UNCHANGED <<queue, queued, forced, scans, scan, next>>
         \/ StartScan \/ ScanContact \/ OtherJob
         \/ \E w \in Worker : Take(w) \/ Pop(w)
         \/ NoticeChanged \/ \E c \in Contact : Profile(c)
         \/ Connect \/ Restart
<1>1. ASSUME NEW a \in Caller, Refreshing(a)
      PROVE  UNCHANGED <<queue, queued, forced, scans, scan, next>>
  BY <1>1, FlightFrame
<1> QED
  BY <1>1
  DEF Next, vars, queueVars, scanVars, Request, NoticeRemoved, Age, Disconnect, LoggedOut,
      ClearLoggedOut, ForgetIdentity, StartLogin, NewSession, Paired, CleanOrphan, Vanish,
      Change, Notice

LEMMA QueueTypedStep ==
  ASSUME QueueTyped, CallersTyped, AccountTyped, [Next]_vars PROVE QueueTyped'
<1>1. ASSUME StartScan PROVE QueueTyped'
  <2> DEFINE S == [i \in 1..Cardinality(Contact) |-> (next + i - 1) % Cardinality(Contact)]
  <2>1. next \in Int
    BY ContactsAreNumbers, AvatarAssumption DEF QueueTyped
  <2>2. \A i \in 1..Cardinality(Contact) :
          (next + i - 1) % Cardinality(Contact) \in Contact
    BY <2>1, ContactsAreNumbers
  <2>3. S \in [1..Cardinality(Contact) -> Contact]
    BY <2>2
  <2>4. S \in Seq(Contact)
    <3>1. PICK n \in Nat : n = Cardinality(Contact)
      BY ContactsAreNumbers
    <3>2. PICK s \in [1..n -> Contact] : s = S
      BY <2>3, <3>1
    <3>3. s \in Seq(Contact)
      OBVIOUS
    <3> QED
      BY <3>2, <3>3
  <2>5. scan' = S /\ scans' = FALSE /\ UNCHANGED <<queue, queued, forced, next>>
    BY <1>1 DEF StartScan, queueVars
  <2> HIDE DEF S
  <2> QED
    BY <2>4, <2>5 DEF QueueTyped
<1>2. ASSUME ScanContact PROVE QueueTyped'
  <2>1. /\ scan \in Seq(Contact) /\ scan # <<>> /\ UNCHANGED scans
        /\ Head(scan) \in Contact /\ Tail(scan) \in Seq(Contact)
    BY <1>2 DEF ScanContact, QueueTyped
  <2>2. scan' \in {<<>>, Tail(scan)} /\ next' \in {Head(scan), 0, next}
    BY <1>2 DEF ScanContact
  <2>3. scan' \in Seq(Contact) /\ next' \in Contact
    BY <2>1, <2>2, EmptySequence, ContactsAreNumbers DEF QueueTyped
  <2>4. /\ queue' \in Seq(Contact \cup {None}) /\ Len(queue') <= QueueSize
        /\ queued' \subseteq Contact /\ forced' \subseteq queued'
    <3>1. CASE UNCHANGED queueVars
      BY <3>1 DEF queueVars, QueueTyped
    <3>2. CASE ~Full(Head(scan)) /\ Enqueue(Head(scan), FALSE)
      BY <2>1, <3>2, EnqueueTyped
    <3> QED
      BY <1>2, <3>1, <3>2 DEF ScanContact
  <2> QED
    BY <2>1, <2>3, <2>4 DEF QueueTyped
<1>3. ASSUME OtherJob PROVE QueueTyped'
  <2>1. queue' \in Seq(Contact \cup {None}) /\ Len(queue') <= QueueSize
    BY <1>3, AvatarAssumption DEF OtherJob, QueueTyped
  <2> QED
    BY <1>3, <2>1 DEF OtherJob, QueueTyped, scanVars
<1>4. ASSUME NEW w \in Worker, Take(w) PROVE QueueTyped'
  <2>1. queue' \in Seq(Contact \cup {None}) /\ Len(queue') <= QueueSize
    BY <1>4, AvatarAssumption DEF Take, QueueTyped
  <2> QED
    BY <1>4, <2>1 DEF Take, QueueTyped, scanVars
<1>5. ASSUME NEW w \in Worker, Pop(w) PROVE QueueTyped'
  BY <1>5 DEF Pop, PopWith, QueueTyped, scanVars
<1>6. ASSUME NoticeChanged PROVE QueueTyped'
  <2>1. handler.on \in Contact /\ UNCHANGED <<scan, next>> /\ scans' \in BOOLEAN
    BY <1>6 DEF NoticeChanged, AccountTyped, QueueTyped
  <2>2. /\ queue' \in Seq(Contact \cup {None}) /\ Len(queue') <= QueueSize
        /\ queued' \subseteq Contact /\ forced' \subseteq queued'
    <3>1. CASE UNCHANGED queueVars
      BY <3>1 DEF queueVars, QueueTyped
    <3>2. CASE ~Full(handler.on) /\ Enqueue(handler.on, TRUE)
      BY <2>1, <3>2, EnqueueTyped
    <3> QED
      BY <1>6, <3>1, <3>2 DEF NoticeChanged
  <2> QED
    BY <2>1, <2>2 DEF QueueTyped
<1>7. ASSUME NEW c \in Contact, Profile(c) PROVE QueueTyped'
  <2>1. /\ queue' \in Seq(Contact \cup {None}) /\ Len(queue') <= QueueSize
        /\ queued' \subseteq Contact /\ forced' \subseteq queued'
    BY <1>7, EnqueueTyped DEF Profile
  <2> QED
    BY <1>7, <2>1 DEF Profile, QueueTyped, scanVars
<1>8. ASSUME Connect PROVE QueueTyped'
  BY <1>8 DEF Connect, QueueTyped, queueVars
<1>9. ASSUME Restart PROVE QueueTyped'
  <2>1. queue' = <<>> /\ scan' = <<>> /\ Len(<<>>) = 0
    BY <1>9 DEF Restart
  <2>2. queue' \in Seq(Contact \cup {None}) /\ scan' \in Seq(Contact) /\ 0 \in Contact
    BY <2>1, EmptySequence, ContactsAreNumbers
  <2>3. Len(queue') <= QueueSize
    BY <2>1, AvatarAssumption
  <2> QED
    BY <1>9, <2>2, <2>3 DEF Restart, QueueTyped
<1>10. ASSUME UNCHANGED <<queue, queued, forced, scans, scan, next>> PROVE QueueTyped'
  BY <1>10 DEF QueueTyped
<1> QED
  BY <1>1, <1>2, <1>3, <1>4, <1>5, <1>6, <1>7, <1>8, <1>9, <1>10, QueueFrame

LEMMA CacheFrame ==
  ASSUME [Next]_vars
  PROVE  \/ UNCHANGED cacheVars
         \/ \E a \in Caller : Missing(a) \/ Touch(a) \/ Put(a) \/ Save(a) \/ Undo(a)
         \/ NoticeRemoved \/ NoticeChanged \/ ClearLoggedOut \/ StartLogin \/ Restart
         \/ \E c \in Contact : Age(c)
         \/ \E k \in objects \cup orphans : CleanOrphan(k) \/ Vanish(k)
<1> DEFINE same == UNCHANGED cacheVars
<1>1. ASSUME NEW a \in Caller, Refreshing(a)
      PROVE  same \/ Missing(a) \/ Touch(a) \/ Put(a) \/ Save(a) \/ Undo(a)
  BY <1>1 DEF Refreshing, Join, Land, ReadSession, ReadEpoch, ReadRecord, Fetch, Reread,
              Refetch, cacheVars
<1>2. ASSUME StartScan \/ ScanContact \/ OtherJob PROVE same
  BY <1>2 DEF StartScan, ScanContact, OtherJob, cacheVars
<1>3. ASSUME NEW w \in Worker, Take(w) \/ Pop(w) PROVE same
  BY <1>3 DEF Take, Pop, PopWith, cacheVars
<1>4. ASSUME NEW r \in Reader, NEW c \in Contact, Request(r, c) PROVE same
  BY <1>4 DEF Request, cacheVars
<1>5. ASSUME NEW c \in Contact, Change(c) \/ Profile(c) PROVE same
  BY <1>5 DEF Change, Profile, cacheVars
<1>6. ASSUME \/ Notice \/ Connect \/ Disconnect \/ LoggedOut \/ ForgetIdentity
             \/ NewSession \/ Paired
      PROVE  same
  BY <1>6 DEF Notice, Connect, Disconnect, LoggedOut, ForgetIdentity, NewSession, Paired,
              cacheVars
<1>7. vars' = vars => same
  BY DEF vars, cacheVars
<1> HIDE DEF same
<1>8. \/ same
      \/ \E a \in Caller : Missing(a) \/ Touch(a) \/ Put(a) \/ Save(a) \/ Undo(a)
      \/ NoticeRemoved \/ NoticeChanged \/ ClearLoggedOut \/ StartLogin \/ Restart
      \/ \E c \in Contact : Age(c)
      \/ \E k \in objects \cup orphans : CleanOrphan(k) \/ Vanish(k)
  BY <1>1, <1>2, <1>3, <1>4, <1>5, <1>6, <1>7 DEF Next
<1> QED
  BY <1>8 DEF same

LEMMA SaveRowTyped ==
  ASSUME CacheTyped, NEW c \in Contact, NEW x \in Row, SaveRow(c, x)
  PROVE  /\ rows' \in [Contact -> Row] /\ orphans' \subseteq Key /\ IsFiniteSet(orphans')
<1>1. /\ rows' \in [Contact -> Row] /\ {rows[c].key} \ {0, x.key} \subseteq Key
  BY DEF SaveRow, CacheTyped, Row
<1>2. IsFiniteSet({rows[c].key} \ {0, x.key})
  <2>1. IsFiniteSet({rows[c].key})
    BY FS_Singleton
  <2>2. {rows[c].key} \ {0, x.key} \in SUBSET {rows[c].key}
    OBVIOUS
  <2> QED
    BY <2>1, <2>2, FS_Subset
<1>3. IsFiniteSet(orphans')
  BY <1>2, FS_Union DEF SaveRow, CacheTyped
<1> QED
  BY <1>1, <1>3 DEF SaveRow, CacheTyped

LEMMA ClearRowsTyped ==
  ASSUME CacheTyped, ClearRows
  PROVE  /\ rows' \in [Contact -> Row] /\ orphans' \subseteq Key /\ IsFiniteSet(orphans')
<1>1. {rows[c].key : c \in Contact} \ {0} \subseteq Key
  BY DEF CacheTyped, Row
<1>2. IsFiniteSet({rows[c].key : c \in Contact} \ {0})
  BY RowKeysFinite, FS_Subset
<1>3. IsFiniteSet(orphans')
  BY <1>2, FS_Union DEF ClearRows, CacheTyped
<1> QED
  BY <1>1, <1>3, NoRowTyped DEF ClearRows, CacheTyped

LEMMA CacheTypedStep ==
  ASSUME RemoteTyped, CacheTyped, CallersTyped, AccountTyped, [Next]_vars PROVE CacheTyped'
<1>1. ASSUME NEW a \in Caller, Missing(a) PROVE CacheTyped'
  <2>1. [key |-> 0, version |-> caller[a].version, due |-> FALSE, by |-> caller[a].as] \in Row
    BY NoRowTyped DEF CallersTyped
  <2>2. caller[a].on \in Contact
    BY DEF CallersTyped
  <2> QED
    BY <1>1, <2>1, <2>2, SaveRowTyped DEF Missing, CacheTyped
<1>2. ASSUME NEW a \in Caller, Touch(a) PROVE CacheTyped'
  <2>1. /\ rows' \in {rows, [rows EXCEPT ![caller[a].on].due = FALSE]}
        /\ UNCHANGED <<objects, orphans, lost>>
    BY <1>2 DEF Touch
  <2>2. caller[a].on \in Contact
    BY DEF CallersTyped
  <2>3. [rows EXCEPT ![caller[a].on].due = FALSE] \in [Contact -> Row]
    BY <2>2 DEF CacheTyped, Row
  <2> QED
    BY <2>1, <2>3 DEF CacheTyped
<1>3. ASSUME NEW a \in Caller, Put(a) PROVE CacheTyped'
  <2>1. objects' \in {objects, objects \cup {FreshKey}} /\ UNCHANGED <<rows, orphans, lost>>
    BY <1>3 DEF Put
  <2>2. FreshKey \in Key
    BY FreshKeyIsFree
  <2>3. IsFiniteSet(objects \cup {FreshKey})
    BY FS_AddElement DEF CacheTyped
  <2> QED
    BY <2>1, <2>2, <2>3 DEF CacheTyped
<1>4. ASSUME NEW a \in Caller, Save(a) PROVE CacheTyped'
  <2>1. [key |-> caller[a].key, version |-> caller[a].version, due |-> FALSE,
         by |-> caller[a].as] \in Row
    BY NoRowTyped DEF CallersTyped
  <2>2. caller[a].on \in Contact
    BY DEF CallersTyped
  <2> QED
    BY <1>4, <2>1, <2>2, SaveRowTyped DEF Save, SaveIf, CacheTyped
<1>5. ASSUME NEW a \in Caller, Undo(a) PROVE CacheTyped'
  <2>1. caller[a].key \in Key
    BY <1>5 DEF Undo, CallersTyped
  <2>2. IsFiniteSet(objects \ {caller[a].key}) /\ IsFiniteSet(lost \cup {caller[a].key})
    BY FS_AddElement, FS_RemoveElement DEF CacheTyped
  <2> QED
    BY <1>5, <2>1, <2>2 DEF Undo, CacheTyped
<1>6. ASSUME NoticeRemoved PROVE CacheTyped'
  <2>1. handler.on \in Contact /\ told[handler.on] \in Version /\ session \in 0..MaxPairings
    BY DEF AccountTyped, RemoteTyped
  <2>2. [key |-> 0, version |-> told[handler.on], due |-> FALSE, by |-> session] \in Row
    BY <2>1, NoRowTyped
  <2> QED
    BY <1>6, <2>1, <2>2, SaveRowTyped DEF NoticeRemoved, CacheTyped
<1>7. ASSUME NoticeChanged PROVE CacheTyped'
  <2>1. handler.on \in Contact
    BY DEF AccountTyped
  <2>2. rows' = [rows EXCEPT ![handler.on].due = TRUE] \/ UNCHANGED rows
    BY <1>7 DEF NoticeChanged
  <2>3. rows' \in [Contact -> Row]
    BY <2>1, <2>2 DEF CacheTyped, Row
  <2> QED
    BY <1>7, <2>3 DEF NoticeChanged, CacheTyped
<1>8. ASSUME ClearLoggedOut PROVE CacheTyped'
  BY <1>8, ClearRowsTyped DEF ClearLoggedOut, CacheTyped
<1>9. ASSUME StartLogin PROVE CacheTyped'
  BY <1>9, ClearRowsTyped DEF StartLogin, CacheTyped
<1>10. ASSUME Restart PROVE CacheTyped'
  <2>1. IsFiniteSet((Held \ {0}) \cap objects)
    BY FS_Subset DEF CacheTyped
  <2>2. IsFiniteSet(lost')
    BY <1>10, <2>1, FS_Union DEF Restart, CacheTyped
  <2> QED
    BY <1>10, <2>2 DEF Restart, CacheTyped
<1>11. ASSUME NEW c \in Contact, Age(c) PROVE CacheTyped'
  BY <1>11 DEF Age, CacheTyped, Row
<1>12. ASSUME NEW k, CleanOrphan(k) \/ Vanish(k) PROVE CacheTyped'
  <2>1. IsFiniteSet(objects \ {k}) /\ IsFiniteSet(orphans \ {k})
    BY FS_RemoveElement DEF CacheTyped
  <2> QED
    BY <1>12, <2>1 DEF CleanOrphan, Vanish, CacheTyped
<1>13. ASSUME UNCHANGED cacheVars PROVE CacheTyped'
  BY <1>13 DEF cacheVars, CacheTyped
<1> QED
  BY <1>1, <1>2, <1>3, <1>4, <1>5, <1>6, <1>7, <1>8, <1>9, <1>10, <1>11, <1>12, <1>13, CacheFrame

\* A caller that changes keeps the types if its object goes with its position.
LEMMA CallerKeeps ==
  ASSUME CallersTyped, NEW a \in Caller, caller' \in [Caller -> CallerType],
         \A b \in Caller : b # a => caller'[b] = caller[b],
         caller'[a].pc \in {"save", "undo"} <=> caller'[a].key # 0,
         UNCHANGED <<epoch, flight>>
  PROVE  CallersTyped'
BY DEF CallersTyped, CallerType

LEMMA CallerMoves ==
  ASSUME CallersTyped, NEW a \in Caller, NEW x \in CallerType, caller' = [caller EXCEPT ![a] = x],
         x.pc \notin {"save", "undo"}, caller[a].pc \notin {"save", "undo"},
         x.key = caller[a].key, UNCHANGED <<epoch, flight>>
  PROVE  CallersTyped'
<1>1. caller[a].key = 0
  BY DEF CallersTyped
<1> QED
  BY <1>1, CallerSet, CallerKeeps

LEMMA GotoTyped ==
  ASSUME CallersTyped, NEW a \in Caller, NEW pc \in PC, Goto(a, pc),
         caller[a].pc \in {"save", "undo"} <=> pc \in {"save", "undo"},
         UNCHANGED <<epoch, flight>>
  PROVE  CallersTyped'
<1>1. /\ caller' \in [Caller -> CallerType]
      /\ caller'[a] = [caller[a] EXCEPT !.pc = pc]
      /\ \A b \in Caller : b # a => caller'[b] = caller[b]
  BY GotoSet
<1>2. caller'[a].pc = pc /\ caller'[a].key = caller[a].key
  BY <1>1 DEF CallersTyped
<1>3. caller[a].pc \in {"save", "undo"} <=> caller[a].key # 0
  BY DEF CallersTyped
<1> QED
  BY <1>1, <1>2, <1>3, CallerKeeps

LEMMA EndTyped ==
  ASSUME CallersTyped, NEW a \in Caller, End(a), UNCHANGED <<epoch, flight>>
  PROVE  CallersTyped'
<1>1. caller[a].on \in Contact /\ "end" \in PC
  BY DEF CallersTyped, PC
<1>2. caller'[a].pc = "end" /\ caller'[a].key = 0
  <2> DEFINE x == [Idle EXCEPT !.pc = "end", !.on = caller[a].on]
  <2>1. x.pc = "end" /\ x.key = 0
    BY <1>1, IdleTyped, Zenon
  <2>2. caller'[a] = x
    BY EndSet, Zenon
  <2> HIDE DEF x
  <2> QED
    BY <2>1, <2>2
<1> QED
  BY <1>2, EndSet, CallerKeeps, Zenon

LEMMA HeadTyped ==
  ASSUME QueueTyped, queue # <<>>
  PROVE  /\ Head(queue) \in Contact \cup {None} /\ Tail(queue) \in Seq(Contact \cup {None})
         /\ Len(queue) \in Nat \ {0} /\ Head(queue) = queue[1]
         /\ \A i \in 1..(Len(queue) - 1) : Tail(queue)[i] = queue[i + 1]
         /\ Len(Tail(queue)) = Len(queue) - 1
BY DEF QueueTyped

LEMMA CallersTypedStep ==
  ASSUME RemoteTyped, CacheTyped, CallersTyped, QueueTyped, AccountTyped, [Next]_vars
  PROVE  CallersTyped'
<1>1. ASSUME NEW w \in Worker, Take(w) PROVE CallersTyped'
  <2>1. w \in Caller /\ UNCHANGED <<epoch, flight>>
    BY <1>1 DEF Caller, Take
  <2>2. CASE Head(queue) = None
    BY <1>1, <2>1, <2>2 DEF Take, CallersTyped
  <2>3. CASE Head(queue) # None
    <3>1. Head(queue) \in Contact /\ "paced" \in PC
      BY <1>1, <2>3, HeadTyped DEF Take, PC
    <3> DEFINE x == [Idle EXCEPT !.pc = "paced", !.on = Head(queue)]
    <3>2. x \in CallerType /\ x.pc = "paced" /\ x.key = 0
      BY <3>1, IdleTyped, Zenon
    <3>3. caller' = [caller EXCEPT ![w] = x]
      BY <1>1, <2>3 DEF Take
    <3> HIDE DEF x
    <3> QED
      BY <2>1, <3>2, <3>3, CallerSet, CallerKeeps
  <2> QED
    BY <2>2, <2>3
<1>2. ASSUME NEW w \in Worker, Pop(w) PROVE CallersTyped'
  <2>1. w \in Caller /\ UNCHANGED <<epoch, flight>> /\ caller[w].pc = "paced" /\ "join" \in PC
    BY <1>2 DEF Caller, Pop, PopWith, PC
  <2>2. CASE Goto(w, "join")
    BY <2>1, <2>2, GotoTyped
  <2>3. CASE caller' = [caller EXCEPT ![w] = Idle]
    BY <2>1, <2>3, IdleTyped, CallerSet, CallerKeeps
  <2> QED
    BY <1>2, <2>2, <2>3 DEF Pop, PopWith
<1>3. ASSUME NEW r \in Reader, NEW c \in Contact, Request(r, c) PROVE CallersTyped'
  <2> DEFINE x == [Idle EXCEPT !.pc = "join", !.on = c]
  <2>1. r \in Caller /\ UNCHANGED <<epoch, flight>> /\ caller' = [caller EXCEPT ![r] = x]
    BY <1>3 DEF Caller, Request
  <2>2. x \in CallerType /\ x.pc = "join" /\ x.key = 0
    <3>1. "join" \in PC
      BY DEF PC
    <3> QED
      BY <3>1, IdleTyped, Zenon
  <2> HIDE DEF x
  <2> QED
    BY <2>1, <2>2, CallerSet, CallerKeeps
<1>4. ASSUME NEW a \in Caller, Join(a) PROVE CallersTyped'
  <2>1. /\ UNCHANGED epoch /\ caller[a].pc = "join" /\ {"session", "wait"} \subseteq PC
        /\ Goto(a, "session") \/ Goto(a, "wait")
        /\ flight' \in [Contact -> Caller \cup {None}]
    BY <1>4 DEF Join, PC, CallersTyped
  <2>2. PICK pc \in {"session", "wait"} : Goto(a, pc) /\ pc \in PC
    BY <2>1
  <2>3. /\ caller' \in [Caller -> CallerType]
        /\ caller'[a] = [caller[a] EXCEPT !.pc = pc]
        /\ \A b \in Caller : b # a => caller'[b] = caller[b]
    BY <2>2, GotoSet
  <2>4. caller'[a].pc = pc /\ caller'[a].key = caller[a].key
    BY <2>3 DEF CallersTyped
  <2> QED
    BY <2>1, <2>3, <2>4 DEF CallersTyped, CallerType
<1>5. ASSUME NEW a \in Caller, Land(a) PROVE CallersTyped'
  <2>1. /\ UNCHANGED epoch /\ flight' \in [Contact -> Caller \cup {None}]
        /\ DOMAIN caller' = Caller
        /\ \A b \in Caller : caller'[b] \in {Idle, caller[b]}
    BY <1>5 DEF Land, CallersTyped
  <2>2. caller' = [b \in Caller |-> caller'[b]]
    BY <1>5 DEF Land
  <2>3. \A b \in Caller : /\ caller'[b] \in CallerType
                          /\ caller'[b].pc \in {"save", "undo"} <=> caller'[b].key # 0
    <3>1. Idle \in CallerType /\ Idle.pc = "idle" /\ Idle.key = 0
      BY IdleTyped, Zenon
    <3> QED
      BY <2>1, <3>1 DEF CallersTyped, CallerType
  <2> QED
    BY <2>1, <2>2, <2>3 DEF CallersTyped, CallerType
<1>6. ASSUME NEW a \in Caller, ReadSession(a) PROVE CallersTyped'
  <2>1. caller[a].pc = "session" /\ UNCHANGED <<epoch, flight>>
    BY <1>6 DEF ReadSession
  <2>2. CASE End(a)
    BY <2>1, <2>2, EndTyped
  <2>3. CASE caller' = [caller EXCEPT ![a].pc = "epoch", ![a].as = session]
    <3> DEFINE x == [caller[a] EXCEPT !.pc = "epoch", !.as = session]
    <3>1. x \in CallerType /\ x.pc = "epoch" /\ x.key = caller[a].key
      BY DEF CallersTyped, CallerType, AccountTyped, PC
    <3>2. caller' = [caller EXCEPT ![a] = x]
      BY <2>3 DEF CallersTyped, CallerType
    <3> HIDE DEF x
    <3> QED
      BY <2>1, <3>1, <3>2, CallerMoves
  <2> QED
    BY <1>6, <2>2, <2>3 DEF ReadSession
<1>7. ASSUME NEW a \in Caller, ReadEpoch(a) PROVE CallersTyped'
  <2> DEFINE x == [caller[a] EXCEPT !.pc = "record", !.epoch = epoch[caller[a].on]]
  <2>1. caller[a].pc = "epoch" /\ UNCHANGED <<epoch, flight>>
    BY <1>7 DEF ReadEpoch
  <2>2. x \in CallerType /\ x.pc = "record" /\ x.key = caller[a].key
    BY DEF CallersTyped, CallerType, PC
  <2>3. caller' = [caller EXCEPT ![a] = x]
    BY <1>7 DEF ReadEpoch, CallersTyped, CallerType
  <2> HIDE DEF x
  <2> QED
    BY <2>1, <2>2, <2>3, CallerMoves
<1>8. ASSUME NEW a \in Caller, ReadRecord(a) PROVE CallersTyped'
  <2> DEFINE x == [caller[a] EXCEPT !.pc = "fetch", !.row = rows[caller[a].on]]
  <2>1. caller[a].pc = "record" /\ UNCHANGED <<epoch, flight>>
    BY <1>8 DEF ReadRecord
  <2>2. x \in CallerType /\ x.pc = "fetch" /\ x.key = caller[a].key
    BY DEF CallersTyped, CallerType, PC, CacheTyped
  <2>3. caller' = [caller EXCEPT ![a] = x]
    BY <1>8 DEF ReadRecord, CallersTyped, CallerType
  <2> HIDE DEF x
  <2> QED
    BY <2>1, <2>2, <2>3, CallerMoves
<1>9. ASSUME NEW a \in Caller, Fetch(a) PROVE CallersTyped'
  <2>1. caller[a].pc = "fetch" /\ UNCHANGED <<epoch, flight>>
    BY <1>9 DEF Fetch
  <2>2. CASE End(a)
    BY <2>1, <2>2, EndTyped
  <2>3. CASE ~End(a)
    <3> DEFINE found == FetchAvatar(caller[a].on, caller[a].row)
    <3>1. PICK row \in Row : caller' = [caller EXCEPT ![a].pc = found,
                              ![a].version = version[caller[a].on], ![a].row = row]
      BY <1>9, <2>3, NoRowTyped DEF Fetch, CallersTyped
    <3>2. found \in {"missing", "reread", "put"}
      BY DEF FetchAvatar
    <3> HIDE DEF found
    <3> DEFINE x == [caller[a] EXCEPT !.pc = found, !.version = version[caller[a].on], !.row = row]
    <3>3. x \in CallerType /\ x.pc = found /\ x.key = caller[a].key
      BY <3>2 DEF CallersTyped, CallerType, PC, RemoteTyped
    <3>4. caller' = [caller EXCEPT ![a] = x]
      BY <3>1 DEF CallersTyped, CallerType
    <3> HIDE DEF x
    <3> QED
      BY <2>1, <3>2, <3>3, <3>4, CallerMoves
  <2> QED
    BY <2>2, <2>3
<1>10. ASSUME NEW a \in Caller, Missing(a) \/ Touch(a) \/ Undo(a) PROVE CallersTyped'
  BY <1>10, EndTyped DEF Missing, Touch, Undo
<1>11. ASSUME NEW a \in Caller, Reread(a) PROVE CallersTyped'
  <2>1. caller[a].pc = "reread" /\ UNCHANGED <<epoch, flight>> /\ {"touch", "refetch"} \subseteq PC
    BY <1>11 DEF Reread, PC
  <2>2. End(a) \/ Goto(a, "touch") \/ Goto(a, "refetch")
    BY <1>11 DEF Reread
  <2> QED
    BY <2>1, <2>2, EndTyped, GotoTyped
<1>12. ASSUME NEW a \in Caller, Refetch(a) PROVE CallersTyped'
  <2>1. caller[a].pc = "refetch" /\ UNCHANGED <<epoch, flight>>
    BY <1>12 DEF Refetch
  <2>2. CASE End(a)
    BY <2>1, <2>2, EndTyped
  <2>3. CASE ~End(a)
    <3> DEFINE x == [caller[a] EXCEPT !.pc = "put", !.version = version[caller[a].on],
                                      !.row = NoRow]
    <3>1. caller' = [caller EXCEPT ![a].pc = "put", ![a].version = version[caller[a].on],
                                   ![a].row = NoRow]
      BY <1>12, <2>3 DEF Refetch
    <3>2. x \in CallerType /\ x.pc = "put" /\ x.key = caller[a].key
      BY NoRowTyped DEF CallersTyped, CallerType, PC, RemoteTyped
    <3>3. caller' = [caller EXCEPT ![a] = x]
      BY <3>1 DEF CallersTyped, CallerType
    <3> HIDE DEF x
    <3> QED
      BY <2>1, <3>2, <3>3, CallerMoves
  <2> QED
    BY <2>2, <2>3
<1>13. ASSUME NEW a \in Caller, Put(a) PROVE CallersTyped'
  <2>1. caller[a].pc = "put" /\ UNCHANGED <<epoch, flight>>
    BY <1>13 DEF Put
  <2>2. CASE End(a)
    BY <2>1, <2>2, EndTyped
  <2>3. CASE ~End(a)
    <3>1. PICK pc \in {"save", "undo"} :
            caller' = [caller EXCEPT ![a].pc = pc, ![a].key = FreshKey]
      BY <1>13, <2>3 DEF Put
    <3> DEFINE x == [caller[a] EXCEPT !.pc = pc, !.key = FreshKey]
    <3>2. x \in CallerType /\ x.pc = pc /\ x.key # 0
      BY FreshKeyIsFree DEF CallersTyped, CallerType, PC, Key
    <3>3. caller' = [caller EXCEPT ![a] = x]
      BY <3>1 DEF CallersTyped, CallerType
    <3>4. x.pc \in {"save", "undo"}
      BY <3>2
    <3> HIDE DEF x
    <3>5. /\ caller' \in [Caller -> CallerType] /\ caller'[a] = x
          /\ \A b \in Caller : b # a => caller'[b] = caller[b]
      BY <3>2, <3>3, CallerSet
    <3>6. caller'[a].pc \in {"save", "undo"} <=> caller'[a].key # 0
      BY <3>2, <3>4, <3>5
    <3> QED
      BY <2>1, <3>5, <3>6, CallerKeeps
  <2> QED
    BY <2>2, <2>3
<1>14. ASSUME NEW a \in Caller, Save(a) PROVE CallersTyped'
  <2>1. caller[a].pc = "save" /\ UNCHANGED <<epoch, flight>> /\ "undo" \in PC
    BY <1>14 DEF Save, SaveIf, PC
  <2>2. End(a) \/ Goto(a, "undo")
    BY <1>14 DEF Save, SaveIf
  <2> QED
    BY <2>1, <2>2, EndTyped, GotoTyped
<1>15. ASSUME Notice PROVE CallersTyped'
  <2>1. UNCHANGED <<caller, flight>> /\ epoch' \in [Contact -> Nat]
    <3>1. PICK c : epoch' = [epoch EXCEPT ![c] = epoch[c] + 1]
      BY <1>15 DEF Notice
    <3>2. epoch \in [Contact -> Nat]
      BY DEF CallersTyped
    <3>3. \A x \in Contact : epoch'[x] = IF x = c THEN epoch[x] + 1 ELSE epoch[x]
      BY <3>1, <3>2
    <3>4. \A x \in Contact : epoch'[x] \in Nat
      BY <3>2, <3>3
    <3>5. epoch' \in [Contact -> Nat]
      BY <3>1, <3>2, <3>4
    <3> QED
      BY <1>15, <3>5 DEF Notice
  <2> QED
    BY <2>1 DEF CallersTyped
<1>16. ASSUME Restart PROVE CallersTyped'
  <2>1. /\ epoch' \in [Contact -> Nat] /\ flight' \in [Contact -> Caller \cup {None}]
        /\ caller' = [a \in Caller |-> Idle]
    BY <1>16 DEF Restart
  <2> QED
    BY <2>1, IdleTyped, Zenon DEF CallersTyped, CallerType
<1>17. ASSUME UNCHANGED <<caller, epoch, flight>> PROVE CallersTyped'
  BY <1>17 DEF CallersTyped
<1> QED
  BY <1>1, <1>2, <1>3, <1>4, <1>5, <1>6, <1>7, <1>8, <1>9, <1>10, <1>11, <1>12, <1>13, <1>14,
     <1>15, <1>16, <1>17, CallerFrame DEF Refreshing

LEMMA TypeInit == Init => TypeOK
<1> SUFFICES ASSUME Init PROVE TypeOK
  OBVIOUS
<1>1. RemoteTyped
  BY EmptySequence, NoRowTyped DEF Init, RemoteTyped, Version
<1>2. CacheTyped
  BY NoRowTyped, FS_EmptySet DEF Init, CacheTyped
<1>3. QueueTyped
  <2>1. Len(<<>>) <= QueueSize /\ 0 \in Contact
    BY ContactsAreNumbers, AvatarAssumption
  <2> QED
    BY <2>1, EmptySequence DEF Init, QueueTyped
<1>4. CallersTyped
  BY IdleTyped, Zenon DEF Init, CallersTyped, CallerType
<1>5. AccountTyped
  <2>1. 0 \in Contact
    BY ContactsAreNumbers
  <2>2. Free \in [pc : {"free", "queue", "remove", "clear", "forget"}, on : Contact]
    BY <2>1 DEF Free
  <2>3. /\ 0 \in 0..MaxPairings /\ 1 \in 0..MaxPairings /\ 1 \in 1..MaxPairings
        /\ 0 \in 0..MaxAges /\ 0 \in 0..MaxFaults
    BY AvatarAssumption
  <2> QED
    BY <2>2, <2>3 DEF Init, AccountTyped
<1> QED
  BY <1>1, <1>2, <1>3, <1>4, <1>5 DEF TypeOK

(* Every variable has its type: the queue keeps to its capacity, and only   *)
(* what is queued is to be forced.                                          *)
THEOREM TypesHold == Spec => []TypeOK
<1>1. TypeOK /\ [Next]_vars => TypeOK'
  BY RemoteTypedStep, CacheTypedStep, QueueTypedStep, CallersTypedStep, AccountTypedStep
     DEF TypeOK
<1> QED
  BY <1>1, TypeInit, PTL DEF Spec

---------------------------------------------------------------------------
(* The account, and whose pictures the cache has                           *)

LEMMA HandlerFrame ==
  ASSUME [Next]_vars
  PROVE  \/ UNCHANGED handler \/ Notice \/ NoticeRemoved \/ NoticeChanged
         \/ LoggedOut \/ ClearLoggedOut \/ ForgetIdentity \/ Restart
<1>1. ASSUME NEW a \in Caller, Refreshing(a) PROVE UNCHANGED handler
  BY <1>1, FlightFrame
<1> QED
  BY <1>1 DEF Next, vars, StartScan, ScanContact, OtherJob, Take, Pop, PopWith, Request,
              Profile, Age, Connect, Disconnect, StartLogin, NewSession, Paired, CleanOrphan,
              Vanish, Change, acctVars

LEMMA AccountInvStep ==
  ASSUME AccountTyped, AccountInv, [Next]_vars PROVE AccountInv'
<1>1. ASSUME Connect \/ Disconnect \/ StartLogin PROVE AccountInv'
  BY <1>1 DEF Connect, Disconnect, StartLogin, AccountInv
<1>2. ASSUME LoggedOut \/ ForgetIdentity PROVE AccountInv'
  BY <1>2 DEF LoggedOut, ForgetIdentity, AccountInv, Free
<1>3. ASSUME NewSession PROVE AccountInv'
  BY <1>3 DEF NewSession, AccountInv, AccountTyped
<1>4. ASSUME Paired PROVE AccountInv'
  BY <1>4 DEF Paired, AccountInv, Free
<1>5. ASSUME Restart PROVE AccountInv'
  BY <1>5 DEF Restart, AccountInv, Free
<1>6. ASSUME UNCHANGED <<login, identity, dbIdentity, session, online, handler>>
      PROVE  AccountInv'
  BY <1>6 DEF AccountInv
<1>7. ASSUME Notice \/ NoticeRemoved \/ NoticeChanged \/ ClearLoggedOut PROVE AccountInv'
  <2>1. UNCHANGED <<login, identity, dbIdentity, session, online, pairings>>
    BY <1>7 DEF Notice, NoticeRemoved, NoticeChanged, ClearLoggedOut, acctVars
  <2>2. CASE ClearLoggedOut
    BY <2>1, <2>2 DEF ClearLoggedOut, AccountInv
  <2>3. CASE Notice \/ NoticeRemoved \/ NoticeChanged
    <3>0. Free.pc = "free"
      BY DEF Free
    <3>1. handler.pc \notin {"clear", "forget"}
      BY <2>3, <3>0 DEF Notice, NoticeRemoved, NoticeChanged
    <3>2. handler'.pc \notin {"clear", "forget"}
      <4>1. CASE Notice
        <5>1. \E c : handler' = [pc |-> "remove", on |-> c] \/ handler' = [pc |-> "queue", on |-> c]
          BY <4>1 DEF Notice
        <5> QED
          BY <5>1
      <4>2. CASE NoticeRemoved \/ NoticeChanged
        BY <3>0, <4>2 DEF NoticeRemoved, NoticeChanged
      <4> QED
        BY <2>3, <4>1, <4>2
    <3> QED
      BY <2>1, <3>1, <3>2 DEF AccountInv
  <2> QED
    BY <1>7, <2>2, <2>3
<1>8. ASSUME UNCHANGED <<login, identity, dbIdentity, session, online, pairings>>
      PROVE  AccountInv'
  BY <1>2, <1>5, <1>6, <1>7, <1>8, HandlerFrame
<1> QED
  BY <1>1, <1>2, <1>3, <1>4, <1>5, <1>8, AccountFrame

\* What a row is saved under is the account's session.
LEMMA SaveRowOwner ==
  ASSUME CacheTyped, OwnerInv, AccountInv, NEW c \in Contact, NEW x, SaveRow(c, x),
         x.by = session, session # 0, identity # 0,
         UNCHANGED <<login, dbIdentity>>
  PROVE  OwnerInv'
<1>1. session = identity /\ dbIdentity = identity /\ ~login
  BY DEF AccountInv
<1>2. rows' = [rows EXCEPT ![c] = x]
  BY DEF SaveRow
<1> QED
  BY <1>1, <1>2 DEF OwnerInv, CacheTyped

\* A row that becomes due, or is fresh again, keeps its owner.
LEMMA DueOwner ==
  ASSUME CacheTyped, OwnerInv, NEW c \in Contact, NEW d,
         rows' = [rows EXCEPT ![c].due = d] \/ UNCHANGED rows,
         UNCHANGED <<login, dbIdentity>>
  PROVE  OwnerInv'
<1>1. \A b \in Contact : rows'[b].by = rows[b].by
  BY DEF CacheTyped, Row
<1> QED
  BY <1>1 DEF OwnerInv

LEMMA OwnerInvStep ==
  ASSUME TypeOK, AccountInv, OwnerInv, [Next]_vars PROVE OwnerInv'
<1>1. CacheTyped /\ CallersTyped /\ AccountTyped
  BY DEF TypeOK
<1>2. ASSUME NEW a \in Caller, Missing(a) \/ Touch(a) \/ Put(a) \/ Save(a) \/ Undo(a)
      PROVE  OwnerInv'
  <2>1. /\ UNCHANGED <<login, identity, dbIdentity, session, online>>
        /\ caller[a].on \in Contact
    BY <1>1, <1>2, FlightFrame DEF Refreshing, CallersTyped
  <2>2. SessionIs(caller[a].as) => caller[a].as = session /\ session # 0 /\ identity # 0
    BY DEF SessionIs, AccountInv
  <2>3. CASE UNCHANGED rows
    BY <2>1, <2>3 DEF OwnerInv
  <2>4. CASE Missing(a) /\ ~UNCHANGED rows
    BY <1>1, <2>1, <2>2, <2>4, SaveRowOwner DEF Missing
  <2>5. CASE Save(a) /\ ~UNCHANGED rows
    BY <1>1, <2>1, <2>2, <2>5, SaveRowOwner DEF Save, SaveIf
  <2>6. CASE Touch(a)
    <3>1. rows' = [rows EXCEPT ![caller[a].on].due = FALSE] \/ UNCHANGED rows
      BY <2>6 DEF Touch
    <3> QED
      BY <1>1, <2>1, <3>1, DueOwner
  <2> QED
    BY <1>2, <2>3, <2>4, <2>5, <2>6 DEF Put, Undo
<1>3. ASSUME NoticeRemoved PROVE OwnerInv'
  <2>1. handler.on \in Contact /\ UNCHANGED <<login, dbIdentity>>
    BY <1>1, <1>3 DEF NoticeRemoved, AccountTyped, acctVars
  <2>2. CASE UNCHANGED rows
    BY <2>1, <2>2 DEF OwnerInv
  <2>3. CASE ~UNCHANGED rows
    BY <1>1, <1>3, <2>1, <2>3, SaveRowOwner DEF NoticeRemoved
  <2> QED
    BY <2>2, <2>3
<1>4. ASSUME NoticeChanged PROVE OwnerInv'
  <2>1. /\ handler.on \in Contact /\ UNCHANGED <<login, dbIdentity>>
        /\ rows' = [rows EXCEPT ![handler.on].due = TRUE] \/ UNCHANGED rows
    BY <1>1, <1>4 DEF NoticeChanged, AccountTyped, acctVars
  <2> QED
    BY <1>1, <2>1, DueOwner
<1>5. ASSUME ClearLoggedOut \/ StartLogin PROVE OwnerInv'
  <2>1. NoRow.by = 0
    BY DEF NoRow
  <2>2. \/ UNCHANGED <<rows, login, dbIdentity>>
        \/ UNCHANGED dbIdentity /\ rows' = [c \in Contact |-> NoRow]
    BY <1>5 DEF ClearLoggedOut, StartLogin, ClearRows, acctVars
  <2> QED
    BY <2>1, <2>2 DEF OwnerInv
<1>6. ASSUME Restart PROVE OwnerInv'
  BY <1>6 DEF Restart, OwnerInv
<1>7. ASSUME NEW c \in Contact, Age(c) PROVE OwnerInv'
  BY <1>1, <1>7, DueOwner DEF Age
<1>8. ASSUME UNCHANGED rows, UNCHANGED <<login, dbIdentity>> PROVE OwnerInv'
  BY <1>8 DEF OwnerInv
<1>9. ASSUME UNCHANGED rows, ForgetIdentity \/ Paired PROVE OwnerInv'
  BY <1>9 DEF OwnerInv, ForgetIdentity, Paired
<1>10. ASSUME UNCHANGED rows PROVE OwnerInv'
  <2>1. ASSUME Connect \/ Disconnect \/ LoggedOut \/ NewSession
        PROVE  UNCHANGED <<login, dbIdentity>>
    BY <2>1 DEF Connect, Disconnect, LoggedOut, NewSession
  <2> QED
    BY <1>5, <1>6, <1>8, <1>9, <1>10, <2>1, AccountFrame
<1>11. ASSUME NEW k, CleanOrphan(k) \/ Vanish(k) PROVE UNCHANGED rows
  BY <1>11 DEF CleanOrphan, Vanish
<1> QED
  BY <1>2, <1>3, <1>4, <1>5, <1>6, <1>7, <1>10, <1>11, CacheFrame DEF cacheVars

---------------------------------------------------------------------------
(* Objects and their owners                                                *)

Uploading == {"save", "undo"}

\* A step of one caller, and how far it comes
LEMMA FlightMoves ==
  ASSUME CallersTyped, NEW a \in Caller, Refreshing(a), ~Land(a)
  PROVE  \A b \in Caller : b # a => caller'[b] = caller[b]
BY DEF Refreshing, Join, ReadSession, ReadEpoch, ReadRecord, Fetch, Missing, Reread, Touch,
       Refetch, Put, Save, SaveIf, Undo, Goto, End, CallersTyped

LEMMA EndsAt ==
  ASSUME CallersTyped, NEW a \in Caller, End(a)
  PROVE  caller'[a].pc = "end" /\ caller'[a].key = 0 /\ caller'[a].epoch = 0
<1> DEFINE x == [Idle EXCEPT !.pc = "end", !.on = caller[a].on]
<1>1. caller[a].on \in Contact /\ "end" \in PC
  BY DEF CallersTyped, PC
<1>2. x.pc = "end" /\ x.key = 0 /\ x.epoch = 0
  BY <1>1, IdleTyped, Zenon
<1>3. caller'[a] = x
  BY EndSet, Zenon
<1> HIDE DEF x
<1> QED
  BY <1>2, <1>3

LEMMA GoesTo ==
  ASSUME CallersTyped, NEW a \in Caller, NEW pc \in PC, Goto(a, pc)
  PROVE  /\ caller'[a].pc = pc /\ caller'[a].key = caller[a].key
         /\ caller'[a].on = caller[a].on /\ caller'[a].epoch = caller[a].epoch
         /\ caller'[a].version = caller[a].version /\ caller'[a].as = caller[a].as
<1>1. caller'[a] = [caller[a] EXCEPT !.pc = pc]
  BY GotoSet
<1> QED
  BY <1>1 DEF CallersTyped

\* What a flight changes as it reads and fetches
LEMMA Reads ==
  ASSUME CallersTyped, NEW a \in Caller,
         ReadSession(a) \/ ReadEpoch(a) \/ ReadRecord(a) \/ Fetch(a) \/ Refetch(a)
  PROVE  \/ End(a)
         \/ /\ caller'[a].on = caller[a].on /\ caller'[a].key = caller[a].key
            /\ \/ caller'[a].pc = "epoch" /\ caller'[a].epoch = caller[a].epoch
               \/ caller'[a].pc = "record" /\ caller'[a].epoch = epoch[caller[a].on]
               \/ caller'[a].pc = "fetch" /\ caller'[a].epoch = caller[a].epoch
               \/ /\ caller'[a].pc \in {"missing", "reread", "put"}
                  /\ caller'[a].epoch = caller[a].epoch
                  /\ caller'[a].version = version[caller[a].on]
<1>1. caller[a] \in CallerType
  BY DEF CallersTyped, CallerType
<1>2. CASE ReadSession(a)
  BY <1>1, <1>2 DEF ReadSession, CallersTyped, CallerType
<1>3. CASE ReadEpoch(a)
  BY <1>1, <1>3 DEF ReadEpoch, CallersTyped, CallerType
<1>4. CASE ReadRecord(a)
  BY <1>1, <1>4 DEF ReadRecord, CallersTyped, CallerType
<1>5. CASE Fetch(a) /\ ~End(a)
  <2> DEFINE found == FetchAvatar(caller[a].on, caller[a].row)
  <2>1. PICK row : caller' = [caller EXCEPT ![a].pc = found,
                            ![a].version = version[caller[a].on], ![a].row = row]
    BY <1>5 DEF Fetch
  <2>2. found \in {"missing", "reread", "put"}
    BY DEF FetchAvatar
  <2> HIDE DEF found
  <2>3. /\ caller'[a].pc = found /\ caller'[a].version = version[caller[a].on]
        /\ caller'[a].on = caller[a].on /\ caller'[a].key = caller[a].key
        /\ caller'[a].epoch = caller[a].epoch
    BY <2>1 DEF CallersTyped
  <2> QED
    BY <2>2, <2>3
<1>6. CASE Refetch(a) /\ ~End(a)
  <2>1. caller' = [caller EXCEPT ![a].pc = "put", ![a].version = version[caller[a].on],
                                 ![a].row = NoRow]
    BY <1>6 DEF Refetch
  <2>2. /\ caller'[a].pc = "put" /\ caller'[a].version = version[caller[a].on]
        /\ caller'[a].on = caller[a].on /\ caller'[a].key = caller[a].key
        /\ caller'[a].epoch = caller[a].epoch
    BY <2>1 DEF CallersTyped
  <2> QED
    BY <2>2
<1> QED
  BY <1>2, <1>3, <1>4, <1>5, <1>6

\* Apart from three steps of an upload and a restart, nobody's key changes.
LEMMA KeysStay ==
  ASSUME TypeOK, TypeOK', [Next]_vars, ~Restart,
         \A a \in Caller : ~Put(a) /\ ~Save(a) /\ ~Undo(a)
  PROVE  /\ \A a \in Caller : caller'[a].key = caller[a].key
         /\ Held' = Held
<1>1. \A a \in Caller : \/ caller'[a] = caller[a]
                        \/ caller[a].pc \notin Uploading /\ caller'[a].pc \notin Uploading
  <2> USE DEF Uploading
  <2>0. CallersTyped
    BY DEF TypeOK
  <2>1. ASSUME NEW w \in Worker, Take(w), NEW b \in Caller
        PROVE  \/ caller'[b] = caller[b]
               \/ caller[b].pc \notin Uploading /\ caller'[b].pc \notin Uploading
    BY <2>0, <2>1 DEF Take, CallersTyped, Idle, Caller
  <2>2. ASSUME NEW w \in Worker, Pop(w), NEW b \in Caller
        PROVE  \/ caller'[b] = caller[b]
               \/ caller[b].pc \notin Uploading /\ caller'[b].pc \notin Uploading
    <3>1. w \in Caller /\ caller[w].pc = "paced" /\ "join" \in PC
      BY <2>2 DEF Pop, PopWith, Caller, PC
    <3>2. CASE caller' = [caller EXCEPT ![w] = Idle]
      BY <2>0, <3>1, <3>2 DEF CallersTyped, Idle
    <3>3. CASE Goto(w, "join")
      <4>1. caller'[w].pc = "join" /\ \A c \in Caller : c # w => caller'[c] = caller[c]
        BY <2>0, <3>1, <3>3, GoesTo, GotoSet
      <4> QED
        BY <3>1, <4>1
    <3> QED
      BY <2>2, <3>2, <3>3 DEF Pop, PopWith
  <2>3. ASSUME NEW r \in Reader, NEW c \in Contact, Request(r, c), NEW b \in Caller
        PROVE  \/ caller'[b] = caller[b]
               \/ caller[b].pc \notin Uploading /\ caller'[b].pc \notin Uploading
    BY <2>0, <2>3 DEF Request, CallersTyped, Idle, Caller
  <2>4. ASSUME NEW a \in Caller, Land(a), NEW b \in Caller
        PROVE  \/ caller'[b] = caller[b]
               \/ caller[b].pc \notin Uploading /\ caller'[b].pc \notin Uploading
    BY <2>0, <2>4 DEF Land, CallersTyped, Idle
  <2>5. ASSUME NEW a \in Caller, Join(a) \/ Reread(a) \/ Missing(a) \/ Touch(a), NEW b \in Caller
        PROVE  \/ caller'[b] = caller[b]
               \/ caller[b].pc \notin Uploading /\ caller'[b].pc \notin Uploading
    <3>1. \A c \in Caller : c # a => caller'[c] = caller[c]
      BY <2>0, <2>5, FlightMoves DEF Refreshing, Join, Reread, Missing, Touch, Land
    <3>2. /\ caller[a].pc \notin Uploading
          /\ \/ End(a)
             \/ \E pc \in {"session", "wait", "touch", "refetch"} : Goto(a, pc)
      BY <2>5 DEF Join, Reread, Missing, Touch
    <3>3. {"session", "wait", "touch", "refetch"} \subseteq PC
      BY DEF PC
    <3>4. caller'[a].pc \notin Uploading
      BY <2>0, <3>2, <3>3, EndsAt, GoesTo
    <3> QED
      BY <3>1, <3>2, <3>4
  <2>6. ASSUME NEW a \in Caller, NEW b \in Caller,
               ReadSession(a) \/ ReadEpoch(a) \/ ReadRecord(a) \/ Fetch(a) \/ Refetch(a)
        PROVE  \/ caller'[b] = caller[b]
               \/ caller[b].pc \notin Uploading /\ caller'[b].pc \notin Uploading
    <3>1. /\ \A c \in Caller : c # a => caller'[c] = caller[c]
          /\ caller[a].pc \notin Uploading
      BY <2>0, <2>6, FlightMoves, Zenon
         DEF Refreshing, ReadSession, ReadEpoch, ReadRecord, Fetch, Refetch, Land
    <3>2. caller'[a].pc \notin Uploading
      BY <2>0, <2>6, Reads, EndsAt
    <3> QED
      BY <3>1, <3>2
  <2>7. UNCHANGED caller \/ Notice => UNCHANGED caller
    BY DEF Notice
  <2> QED
    BY <2>1, <2>2, <2>3, <2>4, <2>5, <2>6, <2>7, CallerFrame DEF Refreshing
<1>2. \A a \in Caller : caller'[a].key = caller[a].key
  BY <1>1 DEF TypeOK, CallersTyped, Uploading
<1> QED
  BY <1>2 DEF Held

\* An object that a caller has given up, and one that it begins with
LEMMA KeyLeaves ==
  ASSUME CallersTyped, NEW a \in Caller, End(a)
  PROVE  /\ caller'[a].key = 0 /\ \A b \in Caller : b # a => caller'[b] = caller[b]
         /\ Held' \subseteq (Held \cup {0})
         /\ \A k \in Held : k = caller[a].key \/ k \in Held'
<1>1. caller'[a].key = 0 /\ \A b \in Caller : b # a => caller'[b] = caller[b]
  <2> DEFINE x == [Idle EXCEPT !.pc = "end", !.on = caller[a].on]
  <2>1. caller'[a] = x /\ \A b \in Caller : b # a => caller'[b] = caller[b]
    BY EndSet, Zenon
  <2>2. x.key = 0
    BY DEF Idle
  <2> HIDE DEF x
  <2> QED
    BY <2>1, <2>2
<1> QED
  BY <1>1 DEF Held

LEMMA KeyStays ==
  ASSUME CallersTyped, NEW a \in Caller, Goto(a, "undo")
  PROVE  /\ \A b \in Caller : caller'[b].key = caller[b].key
         /\ Held' = Held
<1>1. \A b \in Caller : caller'[b].key = caller[b].key
  BY DEF Goto, CallersTyped
<1> QED
  BY <1>1 DEF Held

OwnedInv == KeyInv /\ NothingLeaks

\* A step that leaves the rows' keys and the callers' alone
LEMMA OwnedFrame ==
  ASSUME OwnedInv, \A c \in Contact : rows'[c].key = rows[c].key,
         \A a \in Caller : caller'[a].key = caller[a].key, Held' = Held,
         UNCHANGED <<objects, orphans, lost>>
  PROVE  OwnedInv'
<1>1. {rows'[c].key : c \in Contact} = {rows[c].key : c \in Contact}
  OBVIOUS
<1>2. KeyInv'
  BY DEF OwnedInv, KeyInv
<1>3. NothingLeaks'
  BY <1>1 DEF OwnedInv, NothingLeaks
<1> QED
  BY <1>2, <1>3 DEF OwnedInv

\* A row that gives up its picture, and the rows of a logout
LEMMA RowEmptied ==
  ASSUME CacheTyped, OwnedInv, NEW c \in Contact, NEW x, x.key = 0, SaveRow(c, x),
         \A a \in Caller : caller'[a].key = caller[a].key, Held' = Held,
         UNCHANGED <<objects, lost>>
  PROVE  OwnedInv'
<1>1. /\ rows'[c].key = 0 /\ \A d \in Contact : d # c => rows'[d].key = rows[d].key
      /\ orphans' = orphans \cup ({rows[c].key} \ {0})
  BY DEF SaveRow, CacheTyped
<1>2. KeyInv'
  <2>1. \A b, d \in Contact : rows'[b].key # 0 /\ rows'[b].key = rows'[d].key => b = d
    BY <1>1 DEF OwnedInv, KeyInv
  <2>2. Held' \cap orphans' = {}
    BY <1>1 DEF OwnedInv, KeyInv, NothingLeaks
  <2> QED
    BY <2>1, <2>2 DEF OwnedInv, KeyInv
<1>3. NothingLeaks'
  <2>1. objects' \subseteq {rows'[d].key : d \in Contact} \cup orphans' \cup Held' \cup lost'
    <3> SUFFICES ASSUME NEW j \in objects
                 PROVE  \/ \E d \in Contact : rows'[d].key = j
                        \/ j \in orphans' \cup Held' \cup lost'
      OBVIOUS
    <3>1. \/ \E d \in Contact : rows[d].key = j
          \/ j \in orphans \cup Held \cup lost
      BY DEF OwnedInv, NothingLeaks
    <3>2. j # 0
      BY DEF CacheTyped, Key
    <3> QED
      BY <1>1, <3>1, <3>2
  <2>2. ASSUME NEW d \in Contact, rows'[d].key # 0
        PROVE  rows'[d].key \notin orphans' /\ rows'[d].key \notin Held'
    BY <1>1, <2>2 DEF OwnedInv, KeyInv, NothingLeaks
  <2> QED
    BY <2>1, <2>2 DEF NothingLeaks
<1> QED
  BY <1>2, <1>3 DEF OwnedInv

LEMMA RowsCleared ==
  ASSUME OwnedInv, ClearRows,
         \A a \in Caller : caller'[a].key = caller[a].key, Held' = Held,
         UNCHANGED <<objects, lost>>
  PROVE  OwnedInv'
<1>1. /\ \A c \in Contact : rows'[c].key = 0
      /\ orphans' = orphans \cup ({rows[c].key : c \in Contact} \ {0})
  BY DEF ClearRows, NoRow
<1>2. KeyInv'
  BY <1>1 DEF OwnedInv, KeyInv, NothingLeaks
<1>3. NothingLeaks'
  BY <1>1 DEF OwnedInv, NothingLeaks
<1> QED
  BY <1>2, <1>3 DEF OwnedInv

LEMMA OwnedInvStep ==
  ASSUME TypeOK, TypeOK', OwnedInv, [Next]_vars PROVE OwnedInv'
<1>1. /\ CacheTyped /\ CallersTyped /\ AccountTyped /\ CacheTyped' /\ CallersTyped'
  BY DEF TypeOK
<1>2. ASSUME NEW a \in Caller, Put(a) PROVE OwnedInv'
  <2>1. UNCHANGED <<rows, orphans, lost>> /\ caller[a].pc = "put" /\ caller[a].key = 0
    BY <1>1, <1>2 DEF Put, CallersTyped
  <2>2. \A b \in Caller : b # a => caller'[b] = caller[b]
    BY <1>1, <1>2, <2>1, FlightMoves DEF Refreshing, Land
  <2>3. CASE UNCHANGED objects /\ End(a)
    <3>1. caller'[a].key = 0
      BY <1>1, <2>3, EndsAt
    <3>2. \A b \in Caller : caller'[b].key = caller[b].key
      BY <2>1, <2>2, <3>1
    <3>3. Held' = Held
      BY <3>2 DEF Held
    <3> QED
      BY <2>1, <2>3, <3>2, <3>3, OwnedFrame
  <2>4. CASE /\ objects' = objects \cup {FreshKey}
             /\ \E pc : caller' = [caller EXCEPT ![a].pc = pc, ![a].key = FreshKey]
    <3>1. PICK pc : caller' = [caller EXCEPT ![a].pc = pc, ![a].key = FreshKey]
      BY <2>4
    <3>2. caller'[a].key = FreshKey
      BY <1>1, <3>1 DEF CallersTyped
    <3>3. PICK k \in Key : k = FreshKey /\ k \notin Stored \cup Held
      BY <1>1, FreshKeyIsFree
    <3>4. /\ Held' \subseteq Held \cup {k} /\ k \in Held' /\ Held \subseteq Held' \cup {0}
          /\ k # 0 /\ objects' = objects \cup {k}
      <4>1. k # 0 /\ objects' = objects \cup {k} /\ caller'[a].key = k
        BY <2>4, <3>2, <3>3 DEF Key
      <4>2. \A b \in Caller : caller'[b].key \in {caller[b].key, k}
        BY <2>2, <4>1
      <4>3. \A b \in Caller : caller[b].key \in {caller'[b].key, 0}
        BY <2>1, <2>2
      <4> QED
        BY <4>1, <4>2, <4>3 DEF Held
    <3>5. /\ k \notin orphans /\ \A c \in Contact : rows[c].key # k
          /\ \A b \in Caller : caller[b].key # k
      BY <3>3 DEF Stored, Held
    <3>6. KeyInv'
      <4>1. \A b, c \in Caller : caller'[b].key # 0 /\ caller'[b].key = caller'[c].key => b = c
        BY <2>2, <3>2, <3>3, <3>5 DEF OwnedInv, KeyInv
      <4> QED
        BY <2>1, <3>4, <3>5, <4>1 DEF OwnedInv, KeyInv
    <3>7. NothingLeaks'
      <4>1. 0 \notin objects
        BY <1>1 DEF CacheTyped, Key
      <4> QED
        BY <2>1, <3>4, <3>5, <4>1 DEF OwnedInv, NothingLeaks
    <3> QED
      BY <3>6, <3>7 DEF OwnedInv
  <2> QED
    BY <1>2, <2>3, <2>4 DEF Put
<1>3. ASSUME NEW a \in Caller, Save(a) PROVE OwnedInv'
  <2> DEFINE k == caller[a].key
             c == caller[a].on
  <2>1. /\ UNCHANGED <<objects, lost>> /\ caller[a].pc = "save" /\ k # 0 /\ c \in Contact
        /\ "undo" \in PC
    BY <1>1, <1>3 DEF Save, SaveIf, CallersTyped, PC
  <2>2. CASE Goto(a, "undo") /\ UNCHANGED <<rows, orphans>>
    BY <1>1, <2>1, <2>2, KeyStays, OwnedFrame
  <2>3. CASE /\ End(a)
             /\ \E x : x.key = k /\ SaveRow(c, x)
    <3>1. /\ rows'[c].key = k /\ \A d \in Contact : d # c => rows'[d].key = rows[d].key
          /\ orphans' = orphans \cup ({rows[c].key} \ {0, k})
      BY <1>1, <2>1, <2>3 DEF SaveRow, CacheTyped
    <3>2. /\ caller'[a].key = 0 /\ \A b \in Caller : b # a => caller'[b] = caller[b]
          /\ Held' \subseteq Held \cup {0} /\ \A j \in Held : j = k \/ j \in Held'
      BY <1>1, <2>3, KeyLeaves
    <3>3. k \in Held /\ k \notin Held'
      BY <2>1, <3>2 DEF Held, OwnedInv, KeyInv
    <3>4. /\ k \notin orphans /\ 0 \notin orphans'
          /\ \A d \in Contact : rows[d].key # k /\ rows[d].key \notin (orphans \cup Held) \ {0}
      BY <1>1, <2>1, <3>3 DEF OwnedInv, KeyInv, NothingLeaks, CacheTyped, Key
    <3> HIDE DEF k, c
    <3>5. KeyInv'
      <4>1. \A b, d \in Caller : caller'[b].key # 0 /\ caller'[b].key = caller'[d].key => b = d
        BY <3>2 DEF OwnedInv, KeyInv
      <4>2. \A b, d \in Contact : rows'[b].key # 0 /\ rows'[b].key = rows'[d].key => b = d
        BY <3>1, <3>4 DEF OwnedInv, KeyInv
      <4>3. Held' \cap orphans' = {}
        BY <2>1, <3>1, <3>2, <3>4 DEF OwnedInv, KeyInv
      <4> QED
        BY <4>1, <4>2, <4>3 DEF KeyInv
    <3>6. NothingLeaks'
      <4>1. objects' \subseteq {rows'[d].key : d \in Contact} \cup orphans' \cup Held' \cup lost'
        <5> SUFFICES ASSUME NEW j \in objects
                     PROVE  \/ \E d \in Contact : rows'[d].key = j
                            \/ j \in orphans' \cup Held' \cup lost'
          BY <2>1
        <5>1. \/ \E d \in Contact : rows[d].key = j
              \/ j \in orphans \cup Held \cup lost
          BY DEF OwnedInv, NothingLeaks
        <5>2. j # 0
          BY <1>1 DEF CacheTyped, Key
        <5> QED
          BY <2>1, <3>1, <3>2, <5>1, <5>2
      <4>2. ASSUME NEW d \in Contact, rows'[d].key # 0
            PROVE  rows'[d].key \notin orphans' /\ rows'[d].key \notin Held'
        BY <2>1, <3>1, <3>2, <3>3, <3>4, <4>2 DEF OwnedInv, KeyInv
      <4> QED
        BY <4>1, <4>2 DEF NothingLeaks
    <3> QED
      BY <3>5, <3>6 DEF OwnedInv
  <2> QED
    BY <1>3, <2>2, <2>3 DEF Save, SaveIf
<1>4. ASSUME NEW a \in Caller, Undo(a) PROVE OwnedInv'
  <2> DEFINE k == caller[a].key
  <2>1. /\ UNCHANGED <<rows, orphans>> /\ End(a)
        /\ \/ objects' = objects \ {k} /\ UNCHANGED lost
           \/ lost' = lost \cup {k} /\ UNCHANGED objects
    BY <1>4 DEF Undo
  <2>2. /\ caller'[a].key = 0 /\ \A b \in Caller : b # a => caller'[b] = caller[b]
        /\ Held' \subseteq Held \cup {0} /\ \A j \in Held : j = k \/ j \in Held'
    BY <1>1, <2>1, KeyLeaves
  <2> HIDE DEF k
  <2>3. KeyInv'
    <3>1. \A b, d \in Caller : caller'[b].key # 0 /\ caller'[b].key = caller'[d].key => b = d
      BY <2>2 DEF OwnedInv, KeyInv
    <3>2. 0 \notin orphans
      BY <1>1 DEF CacheTyped, Key
    <3> QED
      BY <2>1, <2>2, <3>1, <3>2 DEF OwnedInv, KeyInv
  <2>4. NothingLeaks'
    BY <2>1, <2>2 DEF OwnedInv, NothingLeaks
  <2> QED
    BY <2>3, <2>4 DEF OwnedInv
<1>5. ASSUME Restart PROVE OwnedInv'
  <2>1. /\ UNCHANGED <<rows, objects, orphans>> /\ lost' = lost \cup ((Held \ {0}) \cap objects)
        /\ \A a \in Caller : caller'[a].key = 0
    BY <1>5, IdleTyped, Zenon DEF Restart
  <2>2. Held' \subseteq {0} /\ 0 \notin orphans /\ 0 \notin objects
    BY <1>1, <2>1 DEF Held, CacheTyped, Key
  <2>3. KeyInv'
    BY <2>1, <2>2 DEF OwnedInv, KeyInv
  <2>4. NothingLeaks'
    BY <2>1, <2>2 DEF OwnedInv, NothingLeaks
  <2> QED
    BY <2>3, <2>4 DEF OwnedInv
<1>6. ASSUME ~Restart, \A a \in Caller : ~Put(a) /\ ~Save(a) /\ ~Undo(a) PROVE OwnedInv'
  <2>1. (\A a \in Caller : caller'[a].key = caller[a].key) /\ Held' = Held
    BY <1>6, KeysStay
  <2>2. ASSUME NEW k, CleanOrphan(k) \/ Vanish(k) PROVE OwnedInv'
    <3>1. /\ UNCHANGED <<rows, lost>> /\ orphans' \subseteq orphans
          /\ objects' = objects \ {k} /\ orphans \subseteq orphans' \cup {k}
      BY <2>2 DEF CleanOrphan, Vanish
    <3>2. KeyInv'
      BY <2>1, <3>1 DEF OwnedInv, KeyInv
    <3>3. NothingLeaks'
      BY <2>1, <3>1 DEF OwnedInv, NothingLeaks
    <3> QED
      BY <3>2, <3>3 DEF OwnedInv
  <2>3. ASSUME UNCHANGED <<objects, orphans, lost>>,
               \A c \in Contact : rows'[c].key = rows[c].key
        PROVE  OwnedInv'
    BY <2>1, <2>3, OwnedFrame
  <2>4. ASSUME NEW c \in Contact, NEW x, x.key = 0, SaveRow(c, x), UNCHANGED <<objects, lost>>
        PROVE  OwnedInv'
    BY <1>1, <2>1, <2>4, RowEmptied
  <2>5. ASSUME ClearRows, UNCHANGED <<objects, lost>> PROVE OwnedInv'
    BY <1>1, <2>1, <2>5, RowsCleared
  <2>6. ASSUME NEW a \in Caller, Missing(a) PROVE OwnedInv'
    BY <1>1, <2>3, <2>4, <2>6 DEF Missing, CallersTyped
  <2>7. ASSUME NoticeRemoved PROVE OwnedInv'
    BY <1>1, <2>3, <2>4, <2>7 DEF NoticeRemoved, AccountTyped
  <2>8. ASSUME NEW a \in Caller, Touch(a) PROVE OwnedInv'
    BY <1>1, <2>3, <2>8 DEF Touch, CacheTyped, Row
  <2>9. ASSUME NoticeChanged \/ \E c \in Contact : Age(c) PROVE OwnedInv'
    <3>1. UNCHANGED <<objects, orphans, lost>>
      BY <2>9 DEF NoticeChanged, Age
    <3>2. UNCHANGED rows \/ \E c \in Contact : rows' = [rows EXCEPT ![c].due = TRUE]
      BY <1>1, <2>9 DEF NoticeChanged, Age, AccountTyped
    <3>3. \A c \in Contact : rows'[c].key = rows[c].key
      BY <1>1, <3>2 DEF CacheTyped, Row
    <3> QED
      BY <2>3, <3>1, <3>3
  <2>10. ASSUME ClearLoggedOut \/ StartLogin PROVE OwnedInv'
    BY <2>3, <2>5, <2>10 DEF ClearLoggedOut, StartLogin
  <2>11. ASSUME UNCHANGED cacheVars PROVE OwnedInv'
    BY <2>3, <2>11 DEF cacheVars
  <2> QED
    BY <1>6, <2>2, <2>6, <2>7, <2>8, <2>9, <2>10, <2>11, CacheFrame
<1> QED
  BY <1>2, <1>3, <1>4, <1>5, <1>6

---------------------------------------------------------------------------
(* Notices, epochs and flights                                             *)

LEMMA RemoteFrame ==
  ASSUME [Next]_vars
  PROVE  \/ UNCHANGED <<changes, version, notices, told>>
         \/ \E c \in Contact : Change(c)
         \/ Notice \/ LoggedOut
<1>1. ASSUME NEW a \in Caller, Refreshing(a) PROVE UNCHANGED <<changes, version, notices, told>>
  BY <1>1, FlightFrame
<1> QED
  BY <1>1, Zenon
     DEF Next, vars, remoteVars, StartScan, ScanContact, OtherJob, Take, Pop, PopWith, Request,
         NoticeRemoved, NoticeChanged, Profile, Age, Connect, Disconnect, ClearLoggedOut,
         ForgetIdentity, StartLogin, NewSession, Paired, Restart, CleanOrphan, Vanish

LEMMA AppendAt ==
  ASSUME NEW S, NEW s \in Seq(S), NEW x \in S
  PROVE  /\ Len(s) \in Nat /\ Len(Append(s, x)) = Len(s) + 1
         /\ \A i \in 1..Len(s) : s[i] \in S /\ Append(s, x)[i] = s[i]
         /\ Append(s, x)[Len(s) + 1] = x
OBVIOUS

LEMMA HeadAt ==
  ASSUME NEW S, NEW s \in Seq(S), s # <<>>
  PROVE  /\ Len(s) \in Nat \ {0} /\ Head(s) = s[1] /\ s[1] \in S
         /\ Len(Tail(s)) = Len(s) - 1
         /\ \A i \in 1..(Len(s) - 1) : Tail(s)[i] = s[i + 1]
OBVIOUS

LEMMA ToldInvStep ==
  ASSUME TypeOK, ToldInv, [Next]_vars PROVE ToldInv'
<1>1. RemoteTyped
  BY DEF TypeOK
<1> DEFINE N == [on : Contact, version : Version, removed : BOOLEAN]
<1>2. /\ notices \in Seq(N) /\ changes \in Nat /\ told \in [Contact -> Version]
      /\ version \in [Contact -> Version] /\ Version \subseteq Nat
  BY <1>1 DEF RemoteTyped, Version
<1>3. ASSUME NEW c \in Contact, Change(c) PROVE ToldInv'
  <2>1. PICK e \in N : notices' = Append(notices, e) /\ e.on = c /\ e.version = changes + 1
    <3>1. changes + 1 \in Version
      BY <1>1, <1>3, AvatarAssumption DEF Change, RemoteTyped, Version
    <3>2. PICK pic \in BOOLEAN :
            notices' = Append(notices, [on |-> c, version |-> changes + 1, removed |-> ~pic])
      BY <1>3 DEF Change
    <3>3. [on |-> c, version |-> changes + 1, removed |-> ~pic] \in N
      BY <3>1
    <3> QED
      BY <3>2, <3>3
  <2>2. /\ version' = [version EXCEPT ![c] = changes + 1] /\ changes' = changes + 1
        /\ UNCHANGED told
    BY <1>3 DEF Change
  <2>3. \A d \in Contact : /\ told'[d] <= version'[d] /\ version'[d] <= changes'
                           /\ version[d] <= version'[d] /\ version'[d] \in Nat
    <3> SUFFICES ASSUME NEW d \in Contact
                 PROVE  /\ told[d] <= version'[d] /\ version'[d] <= changes'
                        /\ version[d] <= version'[d] /\ version'[d] \in Nat
      BY <2>2
    <3>1. /\ told[d] \in Nat /\ version[d] \in Nat
          /\ told[d] <= version[d] /\ version[d] <= changes
      BY <1>2 DEF ToldInv
    <3>2. version'[d] \in {version[d], changes + 1}
      BY <1>2, <2>2
    <3> QED
      BY <1>2, <2>2, <3>1, <3>2
  <2>4. ASSUME NEW i \in 1..Len(notices')
        PROVE  notices'[i].version <= version'[notices'[i].on]
    <3>1. CASE i \in 1..Len(notices)
      <4>1. notices'[i] = notices[i] /\ notices[i] \in N
        <5> HIDE DEF N
        <5> QED
          BY <1>2, <2>1, <3>1, AppendAt
      <4>2. /\ notices[i].version <= version[notices[i].on] /\ notices[i].on \in Contact
            /\ notices[i].version \in Nat
        BY <1>2, <3>1, <4>1 DEF ToldInv
      <4>3. version[notices[i].on] <= version'[notices[i].on]
        BY <2>3, <4>2
      <4>4. version[notices[i].on] \in Nat /\ version'[notices[i].on] \in Nat
        BY <1>2, <2>3, <4>2
      <4> QED
        BY <4>1, <4>2, <4>3, <4>4
    <3>2. CASE i \notin 1..Len(notices)
      <4>1. notices'[i] = e
        <5> HIDE DEF N
        <5>1. Len(notices') = Len(notices) + 1 /\ Len(notices) \in Nat
          BY <1>2, <2>1, AppendAt
        <5>2. i = Len(notices) + 1
          BY <2>4, <3>2, <5>1
        <5> QED
          BY <1>2, <2>1, <5>2, AppendAt
      <4> QED
        BY <1>2, <2>1, <2>2, <4>1
    <3> QED
      BY <3>1, <3>2
  <2> QED
    BY <2>3, <2>4 DEF ToldInv
<1>4. ASSUME Notice PROVE ToldInv'
  <2>1. /\ Len(notices) \in Nat \ {0} /\ Head(notices) = notices[1] /\ notices[1] \in N
        /\ notices' = Tail(notices) /\ UNCHANGED <<changes, version>>
        /\ told' = [told EXCEPT ![notices[1].on] = notices[1].version]
        /\ Len(notices') = Len(notices) - 1
        /\ \A i \in 1..(Len(notices) - 1) : notices'[i] = notices[i + 1]
    <3>1. notices # <<>> /\ notices' = Tail(notices) /\ UNCHANGED <<changes, version>>
      BY <1>4 DEF Notice
    <3>2. /\ Len(notices) \in Nat \ {0} /\ Head(notices) = notices[1] /\ notices[1] \in N
          /\ Len(notices') = Len(notices) - 1
          /\ \A i \in 1..(Len(notices) - 1) : notices'[i] = notices[i + 1]
      <4> HIDE DEF N
      <4> QED
        BY <1>2, <3>1, HeadAt
    <3>3. told' = [told EXCEPT ![Head(notices).on] = Head(notices).version]
      BY <1>4 DEF Notice
    <3> QED
      BY <3>1, <3>2, <3>3
  <2>2. \A d \in Contact : told'[d] <= version'[d] /\ version'[d] <= changes'
    <3>1. notices[1].version <= version[notices[1].on]
      BY <2>1 DEF ToldInv
    <3> QED
      BY <1>2, <2>1, <3>1 DEF ToldInv
  <2>3. ASSUME NEW i \in 1..Len(notices')
        PROVE  notices'[i].version <= version'[notices'[i].on]
    <3>1. notices'[i] = notices[i + 1] /\ i + 1 \in 1..Len(notices)
      BY <1>2, <2>1
    <3> QED
      BY <2>1, <3>1 DEF ToldInv
  <2> QED
    BY <2>2, <2>3 DEF ToldInv
<1>5. ASSUME LoggedOut PROVE ToldInv'
  BY <1>5 DEF LoggedOut, ToldInv
<1>6. ASSUME UNCHANGED <<changes, version, notices, told>> PROVE ToldInv'
  BY <1>6 DEF ToldInv
<1> QED
  BY <1>3, <1>4, <1>5, <1>6, RemoteFrame

Fetched == {"missing", "reread", "refetch", "put", "save"}

FlightOf(a) ==
  /\ caller[a].epoch <= epoch[caller[a].on]
  /\ caller[a].pc \in Fetched /\ caller[a].epoch = epoch[caller[a].on]
       => caller[a].version >= told[caller[a].on]

LEMMA FlightParts == FlightInv <=> \A a \in Caller : FlightOf(a)
BY DEF FlightInv, FlightOf, Fetched

LEMMA FlightInvStep ==
  ASSUME TypeOK, TypeOK', ToldInv, FlightInv, [Next]_vars PROVE FlightInv'
<1> USE DEF Fetched
<1>1. /\ CallersTyped /\ RemoteTyped /\ AccountTyped /\ CallersTyped' /\ RemoteTyped'
      /\ \A a \in Caller : FlightOf(a)
  BY FlightParts DEF TypeOK
<1>2. SUFFICES ASSUME NEW b \in Caller PROVE FlightOf(b)'
  BY DEF FlightInv, FlightOf
<1>3. ASSUME caller'[b].epoch = 0, caller'[b].pc \notin Fetched PROVE FlightOf(b)'
  <2>1. epoch'[caller'[b].on] \in Nat
    BY <1>1 DEF CallersTyped
  <2> QED
    BY <1>3, <2>1 DEF FlightOf
<1>4. ASSUME caller'[b] = caller[b], UNCHANGED <<epoch, told>> PROVE FlightOf(b)'
  BY <1>1, <1>4 DEF FlightOf
<1>5. ASSUME caller'[b] = Idle PROVE FlightOf(b)'
  BY <1>3, <1>5, IdleTyped, Zenon
<1>6. ASSUME NEW w \in Worker, Take(w) PROVE FlightOf(b)'
  <2>1. UNCHANGED <<epoch, told>>
    BY <1>6 DEF Take
  <2>2. CASE caller'[b] = caller[b]
    BY <1>4, <2>1, <2>2
  <2>3. CASE caller'[b] # caller[b]
    <3>1. caller'[b].epoch = 0 /\ caller'[b].pc = "paced"
      BY <1>1, <1>6, <2>3 DEF Take, CallersTyped, Idle
    <3> QED
      BY <1>3, <3>1
  <2> QED
    BY <2>2, <2>3
<1>7. ASSUME NEW w \in Worker, Pop(w) PROVE FlightOf(b)'
  <2>1. UNCHANGED <<epoch, told>> /\ w \in Caller /\ "join" \in PC
    BY <1>7 DEF Pop, PopWith, Caller, PC
  <2>2. CASE caller' = [caller EXCEPT ![w] = Idle]
    <3>1. caller'[b] = Idle \/ caller'[b] = caller[b]
      BY <1>1, <2>2 DEF CallersTyped
    <3> QED
      BY <1>4, <1>5, <2>1, <3>1
  <2>3. CASE Goto(w, "join")
    <3>1. CASE b = w
      <4>1. /\ caller'[b].pc = "join" /\ caller'[b].on = caller[b].on
            /\ caller'[b].epoch = caller[b].epoch
        BY <1>1, <2>1, <2>3, <3>1, GoesTo
      <4>2. FlightOf(b)
        BY <1>1
      <4> QED
        BY <2>1, <4>1, <4>2 DEF FlightOf
    <3>2. CASE b # w
      BY <1>1, <1>4, <2>1, <2>3, <3>2, GotoSet
    <3> QED
      BY <3>1, <3>2
  <2> QED
    BY <1>7, <2>2, <2>3 DEF Pop, PopWith
<1>8. ASSUME NEW r \in Reader, NEW c \in Contact, Request(r, c) PROVE FlightOf(b)'
  <2>1. UNCHANGED <<epoch, told>>
    BY <1>8 DEF Request
  <2>2. CASE caller'[b] = caller[b]
    BY <1>4, <2>1, <2>2
  <2>3. CASE caller'[b] # caller[b]
    <3>1. caller'[b].epoch = 0 /\ caller'[b].pc = "join"
      BY <1>1, <1>8, <2>3 DEF Request, CallersTyped, Idle
    <3> QED
      BY <1>3, <3>1
  <2> QED
    BY <2>2, <2>3
<1>9. ASSUME NEW a \in Caller, Refreshing(a) PROVE FlightOf(b)'
  <2>1. UNCHANGED <<epoch, told>>
    BY <1>9, FlightFrame
  <2>2. CASE Land(a)
    <3>1. caller'[b] = Idle \/ caller'[b] = caller[b]
      BY <2>2 DEF Land
    <3> QED
      BY <1>4, <1>5, <2>1, <3>1
  <2>3. CASE ~Land(a) /\ b # a
    BY <1>1, <1>4, <1>9, <2>1, <2>3, FlightMoves
  <2>4. CASE b = a /\ End(a)
    BY <1>1, <1>3, <2>4, EndsAt
  <2>5. CASE b = a /\ \/ Join(a)
                      \/ Goto(a, "touch") \/ Goto(a, "undo")
                      \/ Reread(a) /\ Goto(a, "refetch")
    <3>1. PICK pc \in {"session", "wait", "touch", "undo", "refetch"} :
            Goto(a, pc) /\ (pc = "refetch" => caller[a].pc = "reread") /\ pc \in PC
      BY <2>5 DEF Join, Reread, PC
    <3>2. /\ caller'[a].pc = pc /\ caller'[a].on = caller[a].on
          /\ caller'[a].epoch = caller[a].epoch /\ caller'[a].version = caller[a].version
      BY <1>1, <3>1, GoesTo
    <3>3. FlightOf(a)
      BY <1>1
    <3> QED
      BY <2>1, <2>5, <3>1, <3>2, <3>3 DEF FlightOf
  <2>6. CASE /\ b = a /\ ~End(a)
             /\ ReadSession(a) \/ ReadEpoch(a) \/ ReadRecord(a) \/ Fetch(a) \/ Refetch(a)
    <3> DEFINE c == caller[a].on
    <3>1. /\ caller'[a].on = c
          /\ \/ caller'[a].pc = "epoch" /\ caller'[a].epoch = caller[a].epoch
             \/ caller'[a].pc = "record" /\ caller'[a].epoch = epoch[c]
             \/ caller'[a].pc = "fetch" /\ caller'[a].epoch = caller[a].epoch
             \/ caller'[a].epoch = caller[a].epoch /\ caller'[a].version = version[c]
      BY <1>1, <2>6, Reads
    <3>2. c \in Contact /\ epoch[c] \in Nat /\ told[c] <= version[c]
          /\ told[c] \in Nat /\ version[c] \in Nat
      <4>1. c \in Contact /\ epoch[c] \in Nat
        BY <1>1 DEF CallersTyped
      <4>2. told[c] \in Nat /\ version[c] \in Nat
        BY <1>1, <4>1 DEF RemoteTyped, Version
      <4> QED
        BY <4>1, <4>2 DEF ToldInv
    <3>3. caller[a].epoch <= epoch[c]
      BY <1>1 DEF FlightOf
    <3> QED
      BY <2>1, <2>6, <3>1, <3>2, <3>3 DEF FlightOf
  <2>7. CASE Put(a) /\ b = a /\ ~End(a)
    <3>1. PICK pc \in {"save", "undo"} :
            caller' = [caller EXCEPT ![a].pc = pc, ![a].key = FreshKey]
      BY <2>7 DEF Put
    <3>2. /\ caller'[a].on = caller[a].on /\ caller'[a].epoch = caller[a].epoch
          /\ caller'[a].version = caller[a].version /\ caller[a].pc = "put"
      BY <1>1, <2>7, <3>1 DEF CallersTyped, Put
    <3>3. FlightOf(a)
      BY <1>1
    <3> QED
      BY <2>1, <2>7, <3>2, <3>3 DEF FlightOf
  <2> QED
    BY <1>9, <2>2, <2>3, <2>4, <2>5, <2>6, <2>7
       DEF Refreshing, Missing, Reread, Touch, Save, SaveIf, Undo
<1>10. ASSUME Notice PROVE FlightOf(b)'
  <2> DEFINE e == Head(notices)
  <2>1. /\ e.on \in Contact /\ UNCHANGED caller
        /\ epoch' = [epoch EXCEPT ![e.on] = epoch[e.on] + 1]
        /\ told' = [told EXCEPT ![e.on] = e.version]
    BY <1>1, <1>10 DEF Notice, RemoteTyped
  <2>2. caller[b].on \in Contact /\ epoch[caller[b].on] \in Nat /\ caller[b].epoch \in Nat
    BY <1>1 DEF CallersTyped
  <2>3. FlightOf(b)
    BY <1>1
  <2> HIDE DEF e
  <2>4. CASE caller[b].on = e.on
    <3>1. epoch'[caller[b].on] = epoch[caller[b].on] + 1
      BY <1>1, <2>1, <2>4 DEF CallersTyped
    <3> QED
      BY <2>1, <2>2, <2>3, <3>1 DEF FlightOf
  <2>5. CASE caller[b].on # e.on
    <3>1. epoch'[caller[b].on] = epoch[caller[b].on] /\ told'[caller[b].on] = told[caller[b].on]
      BY <1>1, <2>1, <2>2, <2>5 DEF CallersTyped, RemoteTyped
    <3> QED
      BY <2>1, <2>3, <3>1 DEF FlightOf
  <2> QED
    BY <2>4, <2>5
<1>11. ASSUME Restart PROVE FlightOf(b)'
  BY <1>5, <1>11 DEF Restart
<1>12. ASSUME UNCHANGED <<caller, epoch, flight>>, ~Notice PROVE FlightOf(b)'
  <2>1. UNCHANGED told
    BY <1>12, RemoteFrame DEF Change, LoggedOut
  <2> QED
    BY <1>4, <1>12, <2>1
<1> QED
  BY <1>6, <1>7, <1>8, <1>9, <1>10, <1>11, <1>12, CallerFrame

---------------------------------------------------------------------------
(* Marks and jobs                                                          *)

\* Where the job of a contact that is marked as queued is.
HasJob(c) ==
  \/ \E i \in DOMAIN queue : queue[i] = c
  \/ \E w \in Worker : caller[w].pc = "paced" /\ caller[w].on = c

LEMMA MarkedParts == MarkedIsQueued <=> \A c \in queued : HasJob(c)
BY DEF MarkedIsQueued, HasJob

\* A worker keeps its job until it unmarks it.
LEMMA PacedStay ==
  ASSUME CallersTyped, [Next]_vars, ~Restart, \A w \in Worker : ~Pop(w)
  PROVE  \A w \in Worker : caller[w].pc = "paced" => caller'[w] = caller[w]
<1>1. SUFFICES ASSUME NEW v \in Worker, caller[v].pc = "paced" PROVE caller'[v] = caller[v]
  OBVIOUS
<1>2. v \in Caller
  BY DEF Caller
<1>3. ASSUME NEW w \in Worker, Take(w) PROVE caller'[v] = caller[v]
  BY <1>1, <1>2, <1>3 DEF Take, CallersTyped
<1>4. ASSUME NEW r \in Reader, NEW c \in Contact, Request(r, c) PROVE caller'[v] = caller[v]
  BY <1>1, <1>2, <1>4 DEF Request, CallersTyped
<1>5. ASSUME NEW a \in Caller, Land(a) PROVE caller'[v] = caller[v]
  BY <1>1, <1>2, <1>5 DEF Land
<1>6. ASSUME NEW a \in Caller, Refreshing(a), ~Land(a) PROVE caller'[v] = caller[v]
  <2>1. caller[a].pc # "paced"
    BY <1>6 DEF Refreshing, Join, Land, ReadSession, ReadEpoch, ReadRecord, Fetch, Missing,
                Reread, Touch, Refetch, Put, Save, SaveIf, Undo
  <2> QED
    BY <1>1, <1>2, <1>6, <2>1, FlightMoves
<1>7. ASSUME Notice \/ UNCHANGED <<caller, epoch, flight>> PROVE caller'[v] = caller[v]
  BY <1>7 DEF Notice
<1> QED
  BY <1>3, <1>4, <1>5, <1>6, <1>7, CallerFrame

LEMMA JobStays ==
  ASSUME NEW c, HasJob(c),
         \A i \in DOMAIN queue : i \in DOMAIN queue' /\ queue'[i] = queue[i],
         \A w \in Worker : caller[w].pc = "paced" => caller'[w] = caller[w]
  PROVE  HasJob(c)'
BY DEF HasJob

LEMMA MarkedIsQueuedStep ==
  ASSUME TypeOK, MarkedIsQueued, [Next]_vars PROVE MarkedIsQueued'
<1> DEFINE J == Contact \cup {None}
<1>1. /\ CallersTyped /\ AccountTyped /\ queue \in Seq(J) /\ scan \in Seq(Contact)
      /\ DOMAIN queue = 1..Len(queue) /\ Len(queue) \in Nat
      /\ \A c \in queued : HasJob(c)
  BY MarkedParts DEF TypeOK, QueueTyped
<1>2. SUFFICES ASSUME NEW c \in queued' PROVE HasJob(c)'
  BY DEF MarkedIsQueued, HasJob
<1> HIDE DEF J
<1>3. ASSUME ~Restart, \A w \in Worker : ~Pop(w), c \in queued,
             \A i \in DOMAIN queue : i \in DOMAIN queue' /\ queue'[i] = queue[i]
      PROVE  HasJob(c)'
  BY <1>1, <1>3, PacedStay, JobStays
<1>4. ASSUME ~Restart, \A w \in Worker : ~Pop(w), NEW d \in J, queue' = Append(queue, d),
             queued' \subseteq queued \cup {d}
      PROVE  HasJob(c)'
  <2>1. /\ Len(queue') = Len(queue) + 1 /\ DOMAIN queue' = 1..Len(queue')
        /\ queue'[Len(queue) + 1] = d
        /\ \A i \in 1..Len(queue) : queue'[i] = queue[i]
    BY <1>1, <1>4, AppendAt
  <2>2. CASE c \in queued
    BY <1>1, <1>3, <1>4, <2>1, <2>2
  <2>3. CASE c \notin queued
    <3>1. c = d /\ Len(queue) + 1 \in DOMAIN queue'
      BY <1>1, <1>2, <1>4, <2>1, <2>3
    <3> QED
      BY <2>1, <3>1 DEF HasJob
  <2> QED
    BY <2>2, <2>3
<1>5. ASSUME ~Restart, \A w \in Worker : ~Pop(w), UNCHANGED <<queue, queued>>
      PROVE  HasJob(c)'
  BY <1>2, <1>3, <1>5
<1>6. ASSUME ~Restart, \A w \in Worker : ~Pop(w), NEW d \in Contact, NEW force \in BOOLEAN,
             Enqueue(d, force)
      PROVE  HasJob(c)'
  <2>1. d \in J
    BY DEF J
  <2> QED
    BY <1>4, <1>5, <1>6, <2>1 DEF Enqueue
<1>7. ASSUME NEW w \in Worker, Take(w), ~Restart, \A v \in Worker : ~Pop(v) PROVE HasJob(c)'
  <2>1. /\ Len(queue) \in Nat \ {0} /\ Head(queue) = queue[1] /\ queue[1] \in J
        /\ queue' = Tail(queue) /\ Len(queue') = Len(queue) - 1
        /\ \A i \in 1..(Len(queue) - 1) : queue'[i] = queue[i + 1]
    <3>1. queue # <<>> /\ queue' = Tail(queue)
      BY <1>7 DEF Take
    <3> QED
      BY <1>1, <3>1, HeadAt
  <2>2. DOMAIN queue' = 1..Len(queue')
    BY <1>1, <2>1
  <2>3. c \in queued /\ HasJob(c)
    BY <1>1, <1>2, <1>7 DEF Take
  <2>4. ASSUME NEW i \in DOMAIN queue, queue[i] = c PROVE HasJob(c)'
    <3>1. CASE i = 1
      <4>1. c \in Contact /\ c # None /\ w \in Caller
        BY <2>3, AvatarAssumption DEF TypeOK, QueueTyped, Caller
      <4>2. caller' = [caller EXCEPT ![w] = [Idle EXCEPT !.pc = "paced", !.on = c]]
        BY <1>7, <2>1, <2>4, <3>1, <4>1 DEF Take
      <4>3. caller'[w].pc = "paced" /\ caller'[w].on = c
        <5>1. "paced" \in PC
          BY DEF PC
        <5> DEFINE x == [Idle EXCEPT !.pc = "paced", !.on = c]
        <5>2. x.pc = "paced" /\ x.on = c
          BY <4>1, <5>1, IdleTyped, Zenon
        <5>3. caller'[w] = x
          BY <1>1, <4>1, <4>2 DEF CallersTyped
        <5> HIDE DEF x
        <5> QED
          BY <5>2, <5>3
      <4> QED
        BY <4>3 DEF HasJob
    <3>2. CASE i # 1
      <4>1. i - 1 \in 1..(Len(queue) - 1) /\ queue'[i - 1] = c
        <5>1. i \in 1..Len(queue)
          BY <1>1
        <5>2. i - 1 \in 1..(Len(queue) - 1) /\ (i - 1) + 1 = i
          BY <2>1, <3>2, <5>1
        <5> QED
          BY <2>1, <2>4, <5>2
      <4> QED
        BY <2>1, <2>2, <4>1 DEF HasJob
    <3> QED
      BY <3>1, <3>2
  <2>5. ASSUME NEW v \in Worker, caller[v].pc = "paced", caller[v].on = c PROVE HasJob(c)'
    <3>1. caller'[v] = caller[v]
      BY <1>1, <1>7, <2>5, PacedStay
    <3> QED
      BY <2>5, <3>1 DEF HasJob
  <2> QED
    BY <2>3, <2>4, <2>5 DEF HasJob
<1>8. ASSUME NEW w \in Worker, Pop(w) PROVE HasJob(c)'
  <2>1. /\ w \in Caller /\ UNCHANGED queue /\ c \in queued /\ c # caller[w].on
        /\ \/ Goto(w, "join") \/ caller' = [caller EXCEPT ![w] = Idle]
    BY <1>2, <1>8 DEF Pop, PopWith, Caller
  <2>2. \A v \in Worker : v # w => caller'[v] = caller[v]
    BY <1>1, <2>1 DEF CallersTyped, Goto, Caller
  <2> QED
    BY <1>1, <2>1, <2>2 DEF HasJob
<1>9. ASSUME Restart PROVE HasJob(c)'
  BY <1>2, <1>9 DEF Restart
<1>10. CASE Restart \/ \E w \in Worker : Pop(w)
  BY <1>8, <1>9, <1>10
<1>11. CASE ~Restart /\ \A w \in Worker : ~Pop(w)
  <2>1. ASSUME ScanContact PROVE HasJob(c)'
    <3>1. Head(scan) \in Contact
      BY <1>1, <2>1, HeadAt DEF ScanContact
    <3>2. UNCHANGED queueVars \/ Enqueue(Head(scan), FALSE)
      BY <2>1 DEF ScanContact
    <3> QED
      BY <1>5, <1>6, <1>11, <3>1, <3>2 DEF queueVars
  <2>2. ASSUME OtherJob PROVE HasJob(c)'
    <3>1. None \in J
      BY DEF J
    <3> QED
      BY <1>4, <1>11, <2>2, <3>1 DEF OtherJob
  <2>3. ASSUME NoticeChanged PROVE HasJob(c)'
    <3>1. handler.on \in Contact /\ (UNCHANGED queueVars \/ Enqueue(handler.on, TRUE))
      BY <1>1, <2>3 DEF NoticeChanged, AccountTyped
    <3> QED
      BY <1>5, <1>6, <1>11, <3>1 DEF queueVars
  <2>4. ASSUME NEW d \in Contact, Profile(d) PROVE HasJob(c)'
    BY <1>6, <1>11, <2>4 DEF Profile
  <2>5. ASSUME StartScan \/ Connect \/ UNCHANGED <<queue, queued, forced, scans, scan, next>>
        PROVE  HasJob(c)'
    BY <1>5, <1>11, <2>5 DEF StartScan, Connect, queueVars
  <2> QED
    BY <1>7, <1>11, <2>1, <2>2, <2>3, <2>4, <2>5, QueueFrame
<1> QED
  BY <1>10, <1>11

---------------------------------------------------------------------------
(* Theorems                                                                *)

LEMMA CacheInvInit == Init => CacheInv
<1> SUFFICES ASSUME Init PROVE CacheInv
  OBVIOUS
<1>1. Idle.key = 0 /\ Idle.pc = "idle" /\ Idle.epoch = 0 /\ Idle.on = 0 /\ 0 \in Contact
  BY IdleTyped, ContactsAreNumbers, Zenon DEF Idle
<1>2. AccountInv /\ OwnerInv
  BY DEF Init, AccountInv, OwnerInv, NoRow, Free
<1>3. KeyInv /\ NothingLeaks
  <2>1. Held \subseteq {0}
    BY <1>1 DEF Init, Held
  <2> QED
    BY <1>1, <2>1 DEF Init, KeyInv, NothingLeaks, NoRow
<1>4. ToldInv
  <2>1. notices = <<>> /\ Len(notices) = 0
    BY DEF Init
  <2> QED
    BY <2>1 DEF Init, ToldInv
<1>5. FlightInv
  BY <1>1 DEF Init, FlightInv
<1>6. MarkedIsQueued
  BY DEF Init, MarkedIsQueued
<1> QED
  BY <1>2, <1>3, <1>4, <1>5, <1>6 DEF CacheInv

\* The inductive invariant, with the types that its steps need before and after.
LEMMA CacheInvHolds == Spec => [](TypeOK /\ CacheInv)
<1>1. Init => CacheInv
  BY CacheInvInit
<1>2. TypeOK /\ TypeOK' /\ CacheInv /\ [Next]_vars => CacheInv'
  <2> SUFFICES ASSUME TypeOK, TypeOK', CacheInv, [Next]_vars PROVE CacheInv'
    OBVIOUS
  <2>1. AccountInv' /\ OwnerInv'
    BY AccountInvStep, OwnerInvStep DEF CacheInv, TypeOK
  <2>2. KeyInv' /\ NothingLeaks'
    BY OwnedInvStep DEF CacheInv, OwnedInv
  <2>3. ToldInv' /\ FlightInv'
    BY ToldInvStep, FlightInvStep DEF CacheInv
  <2>4. MarkedIsQueued'
    BY MarkedIsQueuedStep DEF CacheInv
  <2> QED
    BY <2>1, <2>2, <2>3, <2>4 DEF CacheInv
<1> QED
  BY <1>1, <1>2, TypesHold, PTL DEF Spec

(* No picture that was fetched for one pairing is in the cache of another:  *)
(* a fetch may outlive a logout and the login after it, but its session is  *)
(* not the account's any more when it comes to save (avatars.go:501).       *)
THEOREM NoForeignPicture == Spec => []NoForeignAvatar
<1>1. CacheInv => NoForeignAvatar
  BY DEF CacheInv, AccountInv, OwnerInv, NoForeignAvatar
<1> QED
  BY <1>1, CacheInvHolds, PTL

(* The store forgets no object: what no row has is on its way to a row or   *)
(* waits to be removed, unless the removal itself failed or the daemon      *)
(* stopped in it, and no picture that is shown waits to be removed.         *)
THEOREM ObjectsAreAccountedFor == Spec => []NothingLeaks
<1>1. CacheInv => NothingLeaks
  BY DEF CacheInv
<1> QED
  BY <1>1, CacheInvHolds, PTL

(* A contact that is marked as queued has a job, in the queue or with a     *)
(* worker that has yet to unmark it (queueAvatar and the workers): no mark  *)
(* stays behind to swallow the jobs that come after.                        *)
THEOREM MarksHaveJobs == Spec => []MarkedIsQueued
<1>1. CacheInv => MarkedIsQueued
  BY DEF CacheInv
<1> QED
  BY <1>1, CacheInvHolds, PTL

\* What SaveRow stores for a contact is as new as what it was told.
LEMMA SavedIsNew ==
  ASSUME CacheTyped, NEW c \in Contact, NEW x, SaveRow(c, x), x.version >= told[c],
         NEW d \in Contact, rows'[d].version # rows[d].version
  PROVE  rows'[d].version >= told[d]
BY DEF SaveRow, CacheTyped

LEMMA NoStaleWriteStep ==
  ASSUME TypeOK, CacheInv, [Next]_vars, NEW d \in Contact,
         rows'[d].version # rows[d].version, rows'[d] # NoRow
  PROVE  rows'[d].version >= told[d]
<1>1. /\ CacheTyped /\ CallersTyped /\ RemoteTyped /\ AccountTyped
      /\ \A a \in Caller : FlightOf(a)
  BY FlightParts DEF TypeOK, CacheInv
<1>2. ASSUME NEW a \in Caller, Missing(a) PROVE rows'[d].version >= told[d]
  <2>1. /\ SaveRow(caller[a].on, [key |-> 0, version |-> caller[a].version,
                                  due |-> FALSE, by |-> caller[a].as])
        /\ epoch[caller[a].on] = caller[a].epoch /\ caller[a].pc = "missing"
    BY <1>2 DEF Missing
  <2>2. caller[a].on \in Contact /\ caller[a].version >= told[caller[a].on]
    BY <1>1, <2>1 DEF FlightOf, Fetched, CallersTyped
  <2> QED
    BY <1>1, <2>1, <2>2, SavedIsNew
<1>3. ASSUME NEW a \in Caller, Save(a) PROVE rows'[d].version >= told[d]
  <2>1. /\ SaveRow(caller[a].on, [key |-> caller[a].key, version |-> caller[a].version,
                                  due |-> FALSE, by |-> caller[a].as])
        /\ epoch[caller[a].on] = caller[a].epoch /\ caller[a].pc = "save"
    BY <1>3 DEF Save, SaveIf
  <2>2. caller[a].on \in Contact /\ caller[a].version >= told[caller[a].on]
    BY <1>1, <2>1 DEF FlightOf, Fetched, CallersTyped
  <2> QED
    BY <1>1, <2>1, <2>2, SavedIsNew
<1>4. ASSUME NoticeRemoved PROVE rows'[d].version >= told[d]
  <2>1. /\ SaveRow(handler.on, [key |-> 0, version |-> told[handler.on], due |-> FALSE,
                                by |-> session])
        /\ handler.on \in Contact
    BY <1>1, <1>4 DEF NoticeRemoved, AccountTyped
  <2>2. told[handler.on] >= told[handler.on]
    BY <1>1, <2>1 DEF RemoteTyped, Version
  <2> QED
    BY <1>1, <2>1, <2>2, SavedIsNew
<1>5. ~\E c \in Contact, due \in BOOLEAN : rows' = [rows EXCEPT ![c].due = due]
  BY <1>1 DEF CacheTyped, Row
<1>6. ~UNCHANGED rows
  OBVIOUS
<1>7. ~ClearRows
  BY DEF ClearRows
<1>8. ASSUME NEW a \in Caller PROVE ~(Touch(a) \/ Put(a) \/ Undo(a))
  <2>1. caller[a].on \in Contact
    BY <1>1 DEF CallersTyped
  <2> QED
    BY <1>5, <1>6, <2>1 DEF Touch, Put, Undo
<1>9. ~(NoticeChanged \/ \E c \in Contact : Age(c))
  <2>1. handler.on \in Contact
    BY <1>1 DEF AccountTyped
  <2> QED
    BY <1>5, <1>6, <2>1 DEF NoticeChanged, Age
<1>10. ~(ClearLoggedOut \/ StartLogin \/ Restart \/ UNCHANGED cacheVars)
  BY <1>6, <1>7 DEF ClearLoggedOut, StartLogin, Restart, cacheVars
<1>11. \A k : ~(CleanOrphan(k) \/ Vanish(k))
  BY <1>6 DEF CleanOrphan, Vanish
<1> QED
  BY <1>2, <1>3, <1>4, <1>8, <1>9, <1>10, <1>11, CacheFrame

(* No picture is stored after a notice that a newer one exists: the notice  *)
(* moves the picture's epoch on, and a flight that read the former epoch    *)
(* does not save (avatars.go, saveAvatar and saveMissingAvatar).            *)
THEOREM NoStalePicture == Spec => NoStaleWrite
<1> DEFINE P == \A c \in Contact :
                  rows'[c].version # rows[c].version /\ rows'[c] # NoRow
                    => rows'[c].version >= told[c]
<1>1. TypeOK /\ CacheInv /\ [Next]_vars => [P]_vars
  BY NoStaleWriteStep
<1>2. Spec => [][P]_vars
  BY <1>1, CacheInvHolds, PTL DEF Spec
<1> QED
  BY <1>2 DEF NoStaleWrite
=============================================================================
