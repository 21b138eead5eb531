------------------------ MODULE Conversations_proofs ------------------------
(***************************************************************************)
(* Proofs about Conversations, for any number of JIDs and any events: the  *)
(* tables hold together, a message has one copy, a merge loses no key and  *)
(* no mark as read, what a message shows of reactions, receipts and        *)
(* changes depends on what was received only, and the preview of a         *)
(* conversation is its newest message.                                     *)
(*                                                                         *)
(* The inductive invariant is ConvInv, which is Held of the database and   *)
(* of what it took in.  A lemma XHeld says that the transaction X takes a  *)
(* database that Held(d, H) to one that holds more; a transaction that     *)
(* does one thing after the other (the merges of ensureConversationTx, the *)
(* parts of a history batch) is a fold, and what it keeps is an instance   *)
(* of FoldFacts.  That a step keeps the newest messages up to date is      *)
(* proved along with it: KeepsNewest and Touches.                          *)
(***************************************************************************)
EXTENDS Conversations, FiniteSetTheorems, SequenceTheorems, WellFoundedInduction, TLAPS

---------------------------------------------------------------------------
(* The least and the greatest                                              *)

\* A set of naturals that is not empty has a least element.
LEMMA LeastOf ==
  ASSUME NEW S \in SUBSET Nat, S # {}
  PROVE  Least(S) \in S /\ \A y \in S : Least(S) <= y
<1> DEFINE Less == {p \in Nat \X Nat : p[1] < p[2]}
<1>1. IsWellFoundedOn(Less, Nat)
  BY NatLessThanWellFounded DEF OpToRel
<1>2. PICK x \in S : \A y \in S : ~(<<y, x>> \in Less)
  <2> HIDE DEF Less
  <2> QED BY <1>1, WFMin
<1>3. \A y \in S : x <= y
  <2>1. \A y \in S : x \in Nat /\ y \in Nat /\ ~(y < x)
    BY <1>2
  <2> QED
    BY <2>1
<1> QED
  BY <1>3 DEF Least

\* The relation R orders all of S.
Orders(R, S) ==
  /\ \A x, y \in S : x # y => <<x, y>> \in R \/ <<y, x>> \in R
  /\ \A x, y, z \in S : <<x, y>> \in R /\ <<y, z>> \in R => <<x, z>> \in R

IsFirst(x, R, S) == x \in S /\ \A y \in S : y # x => <<x, y>> \in R

\* A finite set that is not empty has a first element in any order that is total on it.
LEMMA FirstOfFinite ==
  ASSUME NEW S, NEW R, IsFiniteSet(S), S # {}, Orders(R, S)
  PROVE  \E x : IsFirst(x, R, S)
<1> DEFINE Bad == {T \in SUBSET S : T # {} /\ ~\E x : IsFirst(x, R, T)}
<1> SUFFICES ASSUME S \in Bad PROVE FALSE
  OBVIOUS
<1>1. PICK T \in Bad : \A U \in Bad : ~(<<U, T>> \in StrictSubsetOrdering(S))
  <2>1. Bad \subseteq FiniteSubsetsOf(S) /\ Bad # {}
    BY FS_FiniteSubsetsOfFinite
  <2> HIDE DEF Bad
  <2> QED
    BY <2>1, FS_StrictSubsetOrderingWellFounded, WFMin
<1>2. PICK t \in T : TRUE
  OBVIOUS
<1> DEFINE U == T \ {t}
<1>3. U \in SUBSET S /\ U \notin Bad
  <2>1. U \in SUBSET S /\ T \in SUBSET S /\ U \subseteq T /\ U # T
    BY <1>2
  <2>2. <<U, T>> \in StrictSubsetOrdering(S)
    BY <2>1 DEF StrictSubsetOrdering
  <2> QED
    BY <1>1, <2>1, <2>2
<1>4. CASE U = {}
  <2>1. IsFirst(t, R, T)
    BY <1>2, <1>4 DEF IsFirst
  <2> QED
    BY <1>1, <2>1
<1>5. CASE U # {}
  <2>1. PICK x : IsFirst(x, R, U)
    BY <1>3, <1>5
  <2>2. x \in S /\ t \in S /\ x # t /\ T \subseteq S
    BY <1>1, <1>2, <2>1 DEF IsFirst
  <2>3. CASE <<t, x>> \in R
    <3>1. IsFirst(t, R, T)
      BY <1>2, <2>1, <2>2, <2>3 DEF Orders, IsFirst
    <3> QED
      BY <1>1, <3>1
  <2>4. CASE <<x, t>> \in R
    <3>1. IsFirst(x, R, T)
      BY <1>2, <2>1, <2>2, <2>4 DEF IsFirst
    <3> QED
      BY <1>1, <3>1
  <2> QED
    BY <2>2, <2>3, <2>4 DEF Orders
<1> QED
  BY <1>4, <1>5

LEMMA GreatestOf ==
  ASSUME NEW S \in SUBSET Nat, S # {}, IsFiniteSet(S)
  PROVE  Greatest(S) \in S /\ \A y \in S : y <= Greatest(S)
<1> DEFINE R == {p \in Nat \X Nat : p[2] <= p[1]}
<1>1. Orders(R, S)
  BY DEF Orders
<1>2. PICK x : IsFirst(x, R, S)
  BY <1>1, FirstOfFinite
<1>3. x \in S
  BY <1>2 DEF IsFirst
<1>4. ASSUME NEW y \in S PROVE y <= x
  <2>1. CASE y = x
    BY <1>3, <2>1
  <2>2. CASE y # x
    <3>1. <<x, y>> \in R
      BY <1>2, <2>2 DEF IsFirst
    <3> QED
      BY <3>1
  <2> QED
    BY <2>1, <2>2
<1> QED
  BY <1>3, <1>4 DEF Greatest

---------------------------------------------------------------------------
(* What is linked                                                          *)

ClosedUnder(links, S) == \A l \in links : l \cap S # {} => l \subseteq S

LEMMA LinkedHas ==
  ASSUME NEW links, NEW S \in SUBSET Jid
  PROVE  S \subseteq Linked(links, S) /\ Linked(links, S) \in SUBSET Jid
BY DEF Linked

LEMMA LinkedIsClosed ==
  ASSUME NEW links \in SUBSET SUBSET Jid, NEW S
  PROVE  ClosedUnder(links, Linked(links, S))
BY DEF Linked, ClosedUnder

LEMMA LinkedIsLeast ==
  ASSUME NEW links, NEW S, NEW closed \in SUBSET Jid, S \subseteq closed, ClosedUnder(links, closed)
  PROVE  Linked(links, S) \subseteq closed
BY DEF Linked, ClosedUnder

LEMMA LinkedGrows ==
  ASSUME NEW links, NEW more, links \subseteq more, NEW S, NEW T, S \subseteq T
  PROVE  Linked(links, S) \subseteq Linked(more, T)
BY DEF Linked

LEMMA LinkedIsTransitive ==
  ASSUME NEW links \in SUBSET SUBSET Jid, NEW S, NEW T \in SUBSET Linked(links, S)
  PROVE  Linked(links, T) \subseteq Linked(links, S)
BY LinkedIsClosed, LinkedIsLeast DEF Linked

LEMMA LinkedIsSymmetric ==
  ASSUME NEW links \in SUBSET SUBSET Jid, NEW i \in Jid, NEW j \in Linked(links, {i})
  PROVE  i \in Linked(links, {j})
<1> DEFINE C == Linked(links, {j})
<1>1. SUFFICES ASSUME i \notin C PROVE FALSE
  BY DEF C
<1>2. ClosedUnder(links, C) /\ C \in SUBSET Jid /\ j \in C
  <2>1. {j} \in SUBSET Jid
    BY DEF Linked
  <2> QED
    BY <2>1, LinkedIsClosed, LinkedHas
<1>3. ClosedUnder(links, Jid \ C)
  <2> HIDE DEF C
  <2> QED BY <1>2 DEF ClosedUnder
<1>4. Linked(links, {i}) \subseteq Jid \ C
  <2> HIDE DEF C
  <2> QED BY <1>1, <1>3, LinkedIsLeast
<1> QED
  BY <1>2, <1>4
---------------------------------------------------------------------------
(* Tables                                                                  *)

\* The tables that the invariant speaks of are the same.
SameTables(d, e) ==
  e.links = d.links /\ e.alias = d.alias /\ e.rows = d.rows /\ e.keys = d.keys

\* The reactions, receipts and changes are the same.
SameMarks(d, e) ==
  e.links = d.links /\ e.reactions = d.reactions /\ e.receipts = d.receipts /\ e.changes = d.changes

LEMMA MarksInSame ==
  ASSUME NEW d, NEW e, NEW H, MarksKept(d, H), SameMarks(d, e)
  PROVE  MarksKept(e, H)
<1>1. \A f : Participant(e, f) = Participant(d, f)
  BY DEF SameMarks, Participant
<1> QED
  BY <1>1 DEF SameMarks, MarksKept

\* What is no mark changes none.
LEMMA MarksMore ==
  ASSUME NEW d, NEW H, MarksKept(d, H), NEW X,
         \A f \in X : f.type \notin {"reaction", "receipt", "change"}
  PROVE  MarksKept(d, H \cup X)
<1>1. /\ Marks(H \cup X, "reaction") = Marks(H, "reaction")
      /\ Marks(H \cup X, "receipt") = Marks(H, "receipt")
      /\ Marks(H \cup X, "change") = Marks(H, "change")
  BY DEF Marks
<1> QED
  BY <1>1 DEF MarksKept

LEMMA RefreshKeeps ==
  ASSUME NEW d, TablesTyped(d), NEW c
  PROVE  /\ TablesTyped(Refresh(d, c)) /\ SameTables(d, Refresh(d, c))
         /\ SameMarks(d, Refresh(d, c))
<1> DEFINE last == {l \in d.last : l.conv # c} \cup
              {[conv |-> c, row |-> r.id, at |-> r.at] :
                 r \in {r \in RowsIn(d, c) : \A s \in RowsIn(d, c) \ {r} : Newer(r, s)}}
           e == [d EXCEPT !.last = last]
<1>1. Refresh(d, c) = d \/ Refresh(d, c) = e
  BY DEF Refresh
<1> HIDE DEF last
<1>2. e = [links |-> d.links, alias |-> d.alias, rows |-> d.rows, keys |-> d.keys,
           last |-> last, reactions |-> d.reactions, receipts |-> d.receipts,
           changes |-> d.changes]
  BY DEF TablesTyped
<1> HIDE DEF e
<1>3. TablesTyped(e) /\ SameTables(d, e)
  BY <1>2 DEF TablesTyped, SameTables
<1>4. SameMarks(d, e)
  BY <1>2 DEF SameMarks
<1>5. SameTables(d, d) /\ SameMarks(d, d)
  BY DEF SameTables, SameMarks
<1> QED
  BY <1>1, <1>3, <1>4, <1>5

LEMMA HeldInSame ==
  ASSUME NEW d, NEW e, NEW H, Held(d, H), TablesTyped(e), SameTables(d, e), SameMarks(d, e)
  PROVE  Held(e, H)
<1>1. Conversations(e) = Conversations(d)
  BY DEF SameTables, Conversations
<1>2. RowsTyped(e)
  BY <1>1 DEF Held, RowsTyped, SameTables
<1>3. KeysTyped(e)
  BY DEF Held, KeysTyped, SameTables
<1>4. LinksHeld(e, H)
  BY DEF Held, LinksHeld, SameTables
<1>5. AliasesHeld(e, H)
  BY DEF Held, AliasesHeld, SameTables
<1>6. RowsHeld(e, H)
  BY DEF Held, RowsHeld, SameTables
<1>7. SeenHeld(e, H)
  BY DEF Held, SeenHeld, SameTables, MarksRow
<1>8. MarksKept(e, H)
  BY MarksInSame DEF Held
<1> QED
  BY <1>2, <1>3, <1>4, <1>5, <1>6, <1>7, <1>8 DEF Held

LEMMA HeldRefreshed ==
  ASSUME NEW d, NEW H, Held(d, H), NEW c
  PROVE  Held(Refresh(d, c), H)
BY RefreshKeeps, HeldInSame DEF Held

---------------------------------------------------------------------------
(* The newest message                                                      *)

LastOf(d, c) == {l \in d.last : l.conv = c}

\* The preview of c is its newest message.
IsNewest(d, c) ==
  \E r \in RowsIn(d, c) : /\ \A s \in RowsIn(d, c) \ {r} : Newer(r, s)
                          /\ LastOf(d, c) = {[conv |-> c, row |-> r.id, at |-> r.at]}

\* All previews are right, but for those in dirty.
AllNewest(d, dirty) ==
  \A c \in Conversations(d) \ dirty : RowsIn(d, c) # {} => IsNewest(d, c)

\* Rows can be ordered.
RowsApart(d) ==
  IsFiniteSet(d.rows) /\ (\A r \in d.rows : IsRow(r)) /\ (\A r, s \in d.rows : r.id = s.id => r = s)

\* messageOrder is a total order on the rows of a conversation.
LEMMA NewerIsTotal ==
  ASSUME NEW d, RowsApart(d), NEW r \in d.rows, NEW s \in d.rows
  PROVE  (r # s => Newer(r, s) \/ Newer(s, r)) /\ ~(Newer(r, s) /\ Newer(s, r))
<1>1. /\ r.at \in Nat /\ r.order \in Nat /\ r.id \in Nat /\ (r.id = s.id => r = s)
      /\ s.at \in Nat /\ s.order \in Nat /\ s.id \in Nat
  BY DEF RowsApart, IsRow
<1> QED
  BY <1>1 DEF Newer

LEMMA NewerIsTransitive ==
  ASSUME NEW d, RowsApart(d), NEW r \in d.rows, NEW s \in d.rows, NEW t \in d.rows,
         Newer(r, s), Newer(s, t)
  PROVE  Newer(r, t)
<1>1. /\ r.at \in Nat /\ r.order \in Nat /\ r.id \in Nat
      /\ s.at \in Nat /\ s.order \in Nat /\ s.id \in Nat
      /\ t.at \in Nat /\ t.order \in Nat /\ t.id \in Nat
  BY DEF RowsApart, IsRow
<1> QED
  BY <1>1 DEF Newer

LEMMA NewestExists ==
  ASSUME NEW d, RowsApart(d), NEW c, RowsIn(d, c) # {}
  PROVE  \E r \in RowsIn(d, c) : \A s \in RowsIn(d, c) \ {r} : Newer(r, s)
<1> DEFINE S == RowsIn(d, c)
           R == {p \in S \X S : Newer(p[1], p[2])}
<1>1. S \subseteq d.rows /\ IsFiniteSet(S)
  BY FS_Subset DEF RowsIn, RowsApart
<1>2. \A x, y \in S : <<x, y>> \in R <=> Newer(x, y)
  OBVIOUS
<1>3. Orders(R, S)
  <2> HIDE DEF R, S
  <2> QED
    BY <1>1, <1>2, NewerIsTotal, NewerIsTransitive DEF Orders
<1> HIDE DEF R
<1>4. PICK r : IsFirst(r, R, S)
  BY <1>1, <1>3, FirstOfFinite
<1> QED
  BY <1>2, <1>4 DEF IsFirst

\* refreshConversationTx makes the preview of c right and leaves the others alone.
LEMMA RefreshNewest ==
  ASSUME NEW d, TablesTyped(d), RowsApart(d), NEW c
  PROVE  /\ RowsIn(d, c) # {} => IsNewest(Refresh(d, c), c)
         /\ \A x : x # c => LastOf(Refresh(d, c), x) = LastOf(d, x)
<1> DEFINE top  == {r \in RowsIn(d, c) : \A s \in RowsIn(d, c) \ {r} : Newer(r, s)}
           new  == {[conv |-> c, row |-> r.id, at |-> r.at] : r \in top}
           last == {l \in d.last : l.conv # c} \cup new
           e    == Refresh(d, c)
<1>1. CASE RowsIn(d, c) = {}
  BY <1>1 DEF Refresh
<1>2. CASE RowsIn(d, c) # {}
  <2>1. PICK r \in RowsIn(d, c) : \A s \in RowsIn(d, c) \ {r} : Newer(r, s)
    BY <1>2, NewestExists
  <2>2. top = {r}
    <3>1. ASSUME NEW t \in top, t # r PROVE FALSE
      <4>1. Newer(t, r) /\ Newer(r, t) /\ t \in d.rows /\ r \in d.rows
        BY <2>1, <3>1 DEF RowsIn
      <4> QED
        BY <4>1, NewerIsTotal
    <3>2. r \in top
      BY <2>1
    <3> HIDE DEF top
    <3> QED
      BY <3>1, <3>2
  <2>3. e = [d EXCEPT !.last = last]
    BY <1>2, Zenon DEF Refresh
  <2> HIDE DEF top
  <2>4. new = {[conv |-> c, row |-> r.id, at |-> r.at]}
    BY <2>2
  <2>5. \A l \in new : l.conv = c
    OBVIOUS
  <2> HIDE DEF new, e
  <2>6. PICK g : g = [d EXCEPT !.last = last]
    OBVIOUS
  <2>7. g.last = last /\ g.rows = d.rows
    BY <2>6 DEF TablesTyped
  <2>8. LastOf(g, c) = new /\ \A x : x # c => LastOf(g, x) = LastOf(d, x)
    BY <2>5, <2>7 DEF LastOf
  <2>9. RowsIn(g, c) = RowsIn(d, c)
    BY <2>7 DEF RowsIn
  <2>10. IsNewest(g, c)
    BY <2>1, <2>4, <2>8, <2>9 DEF IsNewest
  <2> QED
    BY <2>3, <2>6, <2>8, <2>10 DEF e
<1> QED
  BY <1>1, <1>2

KeepsNewest(d, e) == \A dirty : AllNewest(d, dirty) => AllNewest(e, dirty)

LEMMA NewestInSame ==
  ASSUME NEW d, NEW e, NEW c, RowsIn(e, c) = RowsIn(d, c), LastOf(e, c) = LastOf(d, c),
         IsNewest(d, c)
  PROVE  IsNewest(e, c)
BY DEF IsNewest

\* The rows and previews of e are those of d, and no conversation went.
LEMMA SameKeepsNewest ==
  ASSUME NEW d, RowsTyped(d), NEW e, e.rows = d.rows, e.last = d.last
  PROVE  KeepsNewest(d, e)
<1>1. \A c : RowsIn(e, c) = RowsIn(d, c) /\ LastOf(e, c) = LastOf(d, c)
  BY DEF RowsIn, LastOf
<1>2. \A c : RowsIn(d, c) # {} => c \in Conversations(d)
  BY DEF RowsIn, RowsTyped
<1> QED
  BY <1>1, <1>2, NewestInSame DEF KeepsNewest, AllNewest

\* Only the preview of c may have become wrong.
Touches(d, e, c) == \A dirty : AllNewest(d, dirty) => AllNewest(e, dirty \cup {c})

LEMMA OneTouched ==
  ASSUME NEW d, NEW e, NEW c, e.alias = d.alias, e.last = d.last,
         \A x : x # c => RowsIn(e, x) = RowsIn(d, x)
  PROVE  Touches(d, e, c)
<1>1. \A x : LastOf(e, x) = LastOf(d, x)
  BY DEF LastOf
<1>2. Conversations(e) = Conversations(d)
  BY DEF Conversations
<1> QED
  BY <1>1, <1>2, NewestInSame DEF Touches, AllNewest

LEMMA RowsAreApart ==
  ASSUME NEW d, TablesTyped(d), RowsTyped(d) PROVE RowsApart(d)
BY DEF TablesTyped, RowsTyped, RowsApart

LEMMA RefreshCleans ==
  ASSUME NEW d, TablesTyped(d), RowsTyped(d), NEW c, NEW dirty, AllNewest(d, dirty)
  PROVE  AllNewest(Refresh(d, c), dirty \ {c})
<1> DEFINE e == Refresh(d, c)
<1>1. SameTables(d, e)
  BY RefreshKeeps
<1>2. /\ RowsIn(d, c) # {} => IsNewest(e, c)
      /\ \A x : x # c => LastOf(e, x) = LastOf(d, x)
  BY RowsAreApart, RefreshNewest
<1> HIDE DEF e
<1>3. Conversations(e) = Conversations(d) /\ \A x : RowsIn(e, x) = RowsIn(d, x)
  BY <1>1 DEF SameTables, Conversations, RowsIn
<1>4. ASSUME NEW x \in Conversations(e) \ (dirty \ {c}), RowsIn(e, x) # {}
      PROVE  IsNewest(e, x)
  <2>1. CASE x = c
    BY <1>2, <1>3, <1>4, <2>1
  <2>2. CASE x # c
    BY <1>2, <1>3, <1>4, <2>2, NewestInSame DEF AllNewest
  <2> QED
    BY <2>1, <2>2
<1> QED
  BY <1>4 DEF AllNewest, e

LEMMA RefreshKeepsNewest ==
  ASSUME NEW d, NEW H, Held(d, H), NEW c
  PROVE  KeepsNewest(d, Refresh(d, c))
<1>1. ASSUME NEW dirty, AllNewest(d, dirty) PROVE AllNewest(Refresh(d, c), dirty)
  <2>1. AllNewest(Refresh(d, c), dirty \ {c})
    BY <1>1, RefreshCleans DEF Held
  <2> QED
    BY <2>1 DEF AllNewest
<1> QED
  BY <1>1 DEF KeepsNewest

---------------------------------------------------------------------------
(* One merge                                                               *)

Both(d, to, from) == RowsIn(d, from) \cup RowsIn(d, to)
Moved(d, to, from) ==
  {r \in RowsIn(d, from) : \A t \in {t \in RowsIn(d, to) : t.pid = r.pid} : SourceWins(d, r, t)}
Stay(d, to, from) ==
  Moved(d, to, from) \cup
    (RowsIn(d, to) \ UNION {{t \in RowsIn(d, to) : t.pid = r.pid} : r \in Moved(d, to, from)})
Copies(d, to, from, r) == {s \in Both(d, to, from) : s.pid = r.pid /\ s.id # r.id}
MergedRow(d, to, from, r) == MergeCopies([r EXCEPT !.conv = to], Copies(d, to, from, r))

\* Both conversations are there.
Mergeable(d, to, from) ==
  /\ TablesTyped(d) /\ RowsTyped(d) /\ KeysTyped(d)
  /\ to # from /\ {to, from} \subseteq Conversations(d)

\* Of the copies of a message exactly one stays.
LEMMA OneStays ==
  ASSUME NEW d, NEW to, NEW from, Mergeable(d, to, from)
  PROVE  /\ Stay(d, to, from) \subseteq Both(d, to, from) /\ Both(d, to, from) \subseteq d.rows
         /\ \A s \in Both(d, to, from) : \E r \in Stay(d, to, from) : r.pid = s.pid
         /\ \A r, s \in Stay(d, to, from) : r.pid = s.pid => r = s
<1>1. Stay(d, to, from) \subseteq Both(d, to, from) /\ Both(d, to, from) \subseteq d.rows
  BY DEF Stay, Both, Moved, RowsIn
<1>2. ASSUME NEW s \in Both(d, to, from)
      PROVE  \E r \in Stay(d, to, from) : r.pid = s.pid
  <2>1. CASE s \in RowsIn(d, to)
    BY <2>1 DEF Stay
  <2>2. CASE s \in RowsIn(d, from)
    <3>1. CASE s \in Moved(d, to, from)
      BY <3>1 DEF Stay
    <3>2. CASE s \notin Moved(d, to, from)
      <4>1. PICK t \in RowsIn(d, to) : t.pid = s.pid
        BY <2>2, <3>2 DEF Moved
      <4> QED
        BY <4>1 DEF Stay
    <3> QED
      BY <3>1, <3>2
  <2> QED
    BY <2>1, <2>2 DEF Both
<1>3. ASSUME NEW r \in Stay(d, to, from), NEW s \in Stay(d, to, from), r.pid = s.pid
      PROVE  r = s
  <2>1. CASE r.conv = s.conv
    BY <1>1, <1>3, <2>1 DEF Mergeable, RowsTyped
  <2>2. CASE r.conv # s.conv
    BY <1>3, <2>2 DEF Stay, Moved, RowsIn
  <2> QED
    BY <2>1, <2>2
<1> QED
  BY <1>1, <1>2, <1>3

LEMMA KeyedIsOwn ==
  ASSUME NEW d, RowsTyped(d), KeysTyped(d), NEW r \in d.rows, HasKey(d, r)
  PROVE  r.dir = "out"
BY DEF RowsTyped, KeysTyped, HasKey

\* The account's own copy stays.
LEMMA OwnStays ==
  ASSUME NEW d, NEW to, NEW from, Mergeable(d, to, from),
         NEW s \in Both(d, to, from), s.dir = "out"
  PROVE  s \in Stay(d, to, from)
<1>1. ASSUME NEW t \in d.rows, t.pid = s.pid, t.conv # s.conv
      PROVE  t.dir # "out" /\ ~HasKey(d, t)
  <2>1. s \in d.rows /\ t # s
    BY <1>1, OneStays
  <2>2. t.dir # "out"
    BY <1>1, <2>1 DEF Mergeable, RowsTyped
  <2> QED
    BY <2>2, KeyedIsOwn DEF Mergeable
<1>2. CASE s \in RowsIn(d, from)
  <2>1. ASSUME NEW t \in RowsIn(d, to), t.pid = s.pid PROVE SourceWins(d, s, t)
    BY <1>1, <1>2, <2>1 DEF SourceWins, RowsIn, Mergeable
  <2> QED
    BY <1>2, <2>1 DEF Stay, Moved
<1>3. CASE s \in RowsIn(d, to)
  <2>1. ASSUME NEW r \in Moved(d, to, from), r.pid = s.pid PROVE FALSE
    <3>1. r \in d.rows /\ r.conv = from /\ SourceWins(d, r, s)
      BY <1>3, <2>1 DEF Moved, RowsIn
    <3>2. r.dir # "out" /\ ~HasKey(d, r)
      BY <1>1, <1>3, <2>1, <3>1 DEF RowsIn, Mergeable
    <3> QED
      BY <3>1, <3>2 DEF SourceWins
  <2> QED
    BY <1>3, <2>1 DEF Stay
<1> QED
  BY <1>2, <1>3 DEF Both
\* min() of SQL is the least time there is, or none.
LEMMA Least0Of ==
  ASSUME NEW S \in SUBSET Nat
  PROVE  /\ Least0(S) \in Nat
         /\ Least0(S) = 0 => S \subseteq {0}
         /\ Least0(S) # 0 => Least0(S) \in S
         /\ \A y \in S : y # 0 => Least0(S) <= y /\ Least0(S) # 0
<1>1. CASE S \ {0} = {}
  BY <1>1 DEF Least0
<1>2. CASE S \ {0} # {}
  BY <1>2, LeastOf DEF Least0
<1> QED
  BY <1>1, <1>2

\* m is the row r in another conversation, with what its copies add to it.
Takes(m, r, others, to) ==
  /\ IsRow(m) /\ m.conv = to
  /\ m.id = r.id /\ m.pid = r.pid /\ m.dir = r.dir /\ m.at = r.at /\ m.state = r.state
  /\ m.seen = 0 => \A s \in others \cup {r} : s.seen = 0
  /\ m.seen # 0 => \E s \in others \cup {r} : m.seen = s.seen
  /\ \A s \in others \cup {r} : s.seen # 0 => m.seen # 0 /\ m.seen <= s.seen

LEMMA OrderAndSeen ==
  ASSUME NEW q, NEW order, NEW seen,
         q = [id |-> q.id, conv |-> q.conv, pid |-> q.pid, dir |-> q.dir, at |-> q.at,
              state |-> q.state, order |-> q.order, seen |-> q.seen]
  PROVE  [q EXCEPT !.order = order, !.seen = seen] =
         [id |-> q.id, conv |-> q.conv, pid |-> q.pid, dir |-> q.dir, at |-> q.at,
          state |-> q.state, order |-> order, seen |-> seen]
<1>1. PICK e : e = [q EXCEPT !.order = order, !.seen = seen]
  OBVIOUS
<1>2. e = [id |-> q.id, conv |-> q.conv, pid |-> q.pid, dir |-> q.dir, at |-> q.at,
          state |-> q.state, order |-> order, seen |-> seen]
  BY <1>1
<1> QED
  BY <1>1, <1>2, Zenon

LEMMA CopiesMerge ==
  ASSUME NEW r, IsRow(r), NEW to \in Nat, NEW others, \A s \in others : IsRow(s)
  PROVE  Takes(MergeCopies([r EXCEPT !.conv = to], others), r, others, to)
<1> DEFINE order == Coalesce(r.order, Least0({s.order : s \in others}))
           seen  == Least0({r.seen} \cup {s.seen : s \in others})
           m == [id |-> r.id, conv |-> to, pid |-> r.pid, dir |-> r.dir, at |-> r.at,
                 state |-> r.state, order |-> order, seen |-> seen]
<1>1. MergeCopies([r EXCEPT !.conv = to], others) = m
  <2> DEFINE q == [id |-> r.id, conv |-> to, pid |-> r.pid, dir |-> r.dir,
                   at |-> r.at, state |-> r.state, order |-> r.order, seen |-> r.seen]
  <2>1. [r EXCEPT !.conv = to] = q
    BY DEF IsRow
  <2>2. q.order = r.order /\ q.seen = r.seen /\ m = [id |-> q.id, conv |-> q.conv, pid |-> q.pid,
           dir |-> q.dir, at |-> q.at, state |-> q.state, order |-> order, seen |-> seen]
    BY DEF order, seen
  <2> HIDE DEF q, m, order, seen
  <2>3. q = [id |-> q.id, conv |-> q.conv, pid |-> q.pid, dir |-> q.dir, at |-> q.at,
             state |-> q.state, order |-> q.order, seen |-> q.seen]
    BY DEF q
  <2>4. MergeCopies(q, others) = [q EXCEPT !.order = order, !.seen = seen]
    BY <2>2, Zenon DEF MergeCopies, order, seen
  <2> QED
    BY <2>1, <2>2, <2>3, <2>4, OrderAndSeen, Zenon
<1>2. order \in Nat
  <2> DEFINE orders == {s.order : s \in others}
  <2>1. orders \in SUBSET Nat
    BY DEF IsRow
  <2> HIDE DEF orders
  <2>2. Least0(orders) \in Nat
    BY <2>1, Least0Of
  <2>3. r.order \in Nat
    BY DEF IsRow
  <2> DEFINE least == Least0(orders)
             coalesced == Coalesce(r.order, least)
  <2> HIDE DEF least
  <2>4. coalesced \in Nat
    BY <2>2, <2>3 DEF Coalesce, least
  <2> HIDE DEF coalesced
  <2>5. order = coalesced
    BY DEF coalesced, least, orders
  <2> QED
    BY <2>4, <2>5
<1>3. /\ seen \in Nat
      /\ seen = 0 => \A s \in others \cup {r} : s.seen = 0
      /\ seen # 0 => \E s \in others \cup {r} : seen = s.seen
      /\ \A s \in others \cup {r} : s.seen # 0 => seen # 0 /\ seen <= s.seen
  <2> DEFINE S == {r.seen} \cup {s.seen : s \in others}
  <2>1. S \in SUBSET Nat
    BY DEF IsRow
  <2>2. \A s \in others \cup {r} : s.seen \in S
    OBVIOUS
  <2>3. \A y \in S : \E s \in others \cup {r} : y = s.seen
    OBVIOUS
  <2> HIDE DEF S
  <2>4. /\ Least0(S) \in Nat
        /\ Least0(S) = 0 => \A s \in others \cup {r} : s.seen = 0
        /\ Least0(S) # 0 => \E s \in others \cup {r} : Least0(S) = s.seen
        /\ \A s \in others \cup {r} : s.seen # 0 => Least0(S) # 0 /\ Least0(S) <= s.seen
    <3>1. /\ Least0(S) \in Nat
          /\ Least0(S) = 0 => S \subseteq {0}
          /\ Least0(S) # 0 => Least0(S) \in S
          /\ \A y \in S : y # 0 => Least0(S) <= y /\ Least0(S) # 0
      BY <2>1, Least0Of
    <3> QED
      BY <2>2, <2>3, <3>1
  <2> QED
    BY <2>4 DEF S
<1> HIDE DEF order, seen
<1>4. IsRow(m)
  BY <1>2, <1>3 DEF IsRow
<1> QED
  BY <1>1, <1>3, <1>4 DEF Takes

\* What a merge makes of the tables.
Merged(d, e, to, from) ==
  /\ TablesTyped(e) /\ SameMarks(d, e) /\ e.links = d.links /\ e.keys = d.keys
  /\ e.alias = [j \in Jid |-> IF d.alias[j] = from THEN to ELSE d.alias[j]]
  /\ \A r \in d.rows : r \notin Both(d, to, from) => r \in e.rows
  /\ \A r \in Stay(d, to, from) : \E m \in e.rows : Takes(m, r, Copies(d, to, from, r), to)
  /\ \A m \in e.rows : \/ m \in d.rows /\ m \notin Both(d, to, from)
                       \/ \E r \in Stay(d, to, from) : Takes(m, r, Copies(d, to, from, r), to)
  /\ \A m, n \in e.rows : m.id = n.id => m = n
  /\ \A c : c \notin {to, from} => LastOf(e, c) = LastOf(d, c)
  /\ RowsIn(e, to) # {} => IsNewest(e, to)

KeyOf(d, to, from, k) ==
  IF \E s \in Both(d, to, from) : s.id = k.row
  THEN [k EXCEPT !.row = (CHOOSE r \in Stay(d, to, from) :
                            \E s \in Both(d, to, from) : s.id = k.row /\ s.pid = r.pid).id]
  ELSE k

\* The keys lead to the account's own copy, which stays.
LEMMA KeysStay ==
  ASSUME NEW d, NEW to, NEW from, Mergeable(d, to, from)
  PROVE  {KeyOf(d, to, from, k) : k \in d.keys} = d.keys
<1>1. ASSUME NEW k \in d.keys PROVE KeyOf(d, to, from, k) = k
  <2>1. CASE \E s \in Both(d, to, from) : s.id = k.row
    <3>1. PICK s \in Both(d, to, from) : s.id = k.row
      BY <2>1
    <3>2. s.dir = "out" /\ s \in d.rows
      BY <3>1, OneStays DEF Mergeable, KeysTyped, RowsTyped
    <3>3. s \in Stay(d, to, from)
      BY <3>2, OwnStays
    <3> DEFINE Heir(r) == \E t \in Both(d, to, from) : t.id = k.row /\ t.pid = r.pid
    <3>4. Heir(s)
      BY <3>1
    <3>5. ASSUME NEW r \in Stay(d, to, from), Heir(r) PROVE r = s
      <4>1. PICK t \in Both(d, to, from) : t.id = k.row /\ t.pid = r.pid
        BY <3>5
      <4>2. t = s
        BY <3>1, <3>2, <4>1, OneStays DEF Mergeable, RowsTyped
      <4> QED
        BY <3>3, <4>1, <4>2, OneStays
    <3>6. (CHOOSE r \in Stay(d, to, from) : Heir(r)) = s
      <4> HIDE DEF Heir
      <4> QED BY <3>3, <3>4, <3>5
    <3>7. k = [key |-> k.key, row |-> k.row]
      BY DEF Mergeable, KeysTyped
    <3>8. [k EXCEPT !.row = s.id] = k
      BY <3>1, <3>7
    <3> QED
      BY <2>1, <3>6, <3>8 DEF KeyOf
  <2>2. CASE ~\E s \in Both(d, to, from) : s.id = k.row
    BY <2>2 DEF KeyOf
  <2> QED
    BY <2>1, <2>2
<1> QED
  BY <1>1

LEMMA MergeConversationMerges ==
  ASSUME NEW d, NEW to, NEW from, Mergeable(d, to, from)
  PROVE  Merged(d, MergeConversation(d, to, from), to, from)
<1> DEFINE kept  == Stay(d, to, from)
           M(r)  == MergedRow(d, to, from, r)
           rows  == (d.rows \ Both(d, to, from)) \cup {M(r) : r \in kept}
           alias == [j \in Jid |-> IF d.alias[j] = from THEN to ELSE d.alias[j]]
           last  == {l \in d.last : l.conv # from}
           e     == [links |-> d.links, alias |-> alias, rows |-> rows, keys |-> d.keys,
                     last |-> last, reactions |-> d.reactions, receipts |-> d.receipts,
                     changes |-> d.changes]
<1>1. MergeConversation(d, to, from) = Refresh(e, to)
  <2>1. MergeConversation(d, to, from) =
          Refresh([d EXCEPT !.rows = rows, !.keys = {KeyOf(d, to, from, k) : k \in d.keys},
                            !.alias = alias, !.last = last], to)
    BY DEF MergeConversation, Both, Moved, Stay, Copies, MergedRow, KeyOf
  <2> DEFINE keys == {KeyOf(d, to, from, k) : k \in d.keys}
             g == [d EXCEPT !.rows = rows, !.keys = keys, !.alias = alias, !.last = last]
  <2>2. keys = d.keys /\ TablesTyped(d)
    BY KeysStay DEF Mergeable
  <2> HIDE DEF rows, alias, last, keys
  <2>3. PICK h : h = g
    OBVIOUS
  <2>5. h = [links |-> d.links, alias |-> alias, rows |-> rows, keys |-> keys,
             last |-> last, reactions |-> d.reactions, receipts |-> d.receipts,
             changes |-> d.changes]
    BY <2>2, <2>3 DEF TablesTyped
  <2>6. h = e
    BY <2>2, <2>5
  <2>4. MergeConversation(d, to, from) = Refresh(g, to)
    BY <2>1, Zenon DEF keys
  <2> HIDE DEF g, e
  <2> QED
    BY <2>3, <2>4, <2>6
<1>2. ASSUME NEW r \in kept PROVE Takes(M(r), r, Copies(d, to, from, r), to)
  <2>1. r \in d.rows /\ Copies(d, to, from, r) \subseteq d.rows
    BY OneStays DEF Copies
  <2>2. to \in Nat
    BY DEF Mergeable, TablesTyped, Conversations
  <2>3. IsRow(r) /\ \A s \in Copies(d, to, from, r) : IsRow(s)
    BY <2>1 DEF Mergeable, RowsTyped
  <2> QED
    BY <2>2, <2>3, CopiesMerge DEF MergedRow
<1>3. TablesTyped(e)
  <2>1. alias \in [Jid -> Nat] /\ d.alias \in [Jid -> Nat] /\ to # 0 /\ from # 0
    BY DEF Mergeable, TablesTyped, Conversations
  <2>2. IsFiniteSet(rows)
    <3>1. kept \subseteq d.rows /\ IsFiniteSet(d.rows)
      BY OneStays DEF Mergeable, TablesTyped
    <3>2. IsFiniteSet(kept) /\ IsFiniteSet(d.rows \ Both(d, to, from))
      BY <3>1, FS_Subset
    <3>3. IsFiniteSet({M(r) : r \in kept})
      <4> DEFINE f == [r \in kept |-> M(r)]
                 T == {M(r) : r \in kept}
      <4> HIDE DEF kept, M
      <4>1. f \in Surjection(kept, T)
        BY DEF Surjection
      <4> HIDE DEF f, T
      <4>2. IsFiniteSet(T)
        BY <3>2, <4>1, FS_Surjection
      <4> QED
        BY <4>2 DEF T
    <3> QED
      BY <3>2, <3>3, FS_Union
  <2>3. \A j \in Jid : alias[j] <= Cardinality({i \in Jid : alias[i] # 0})
    <3>1. {i \in Jid : alias[i] # 0} = {i \in Jid : d.alias[i] # 0}
      BY <2>1
    <3>2. ASSUME NEW j \in Jid PROVE \E i \in Jid : alias[j] = d.alias[i]
      BY DEF Mergeable, Conversations
    <3> HIDE DEF alias
    <3> QED
      BY <3>1, <3>2 DEF Mergeable, TablesTyped
  <2> HIDE DEF rows, alias, last
  <2> QED
    BY <2>1, <2>2, <2>3 DEF Mergeable, TablesTyped
<1> DEFINE g == Refresh(e, to)
<1>4. Merged(d, g, to, from)
  <2>1. e.links = d.links /\ e.keys = d.keys /\ e.alias = alias /\ e.rows = rows
    OBVIOUS
  <2>2. ASSUME NEW m \in rows
        PROVE  \/ m \in d.rows /\ m \notin Both(d, to, from)
               \/ \E r \in kept : m = M(r)
    OBVIOUS
  <2>3. ASSUME NEW m \in rows, NEW n \in rows, m.id = n.id PROVE m = n
    <3>1. ASSUME NEW x \in rows
          PROVE  \E r \in d.rows : /\ r.id = x.id
                                   /\ \/ x = r /\ r \notin Both(d, to, from)
                                      \/ x = M(r) /\ r \in kept
      <4>1. CASE x \in d.rows /\ x \notin Both(d, to, from)
        BY <4>1
      <4>2. CASE \E r \in kept : x = M(r)
        <5>1. PICK r \in kept : x = M(r)
          BY <4>2
        <5>2. r.id = x.id /\ r \in d.rows
          BY <1>2, <5>1, OneStays DEF Takes
        <5> QED
          BY <5>1, <5>2
      <4> QED
        BY <2>2, <4>1, <4>2
    <3> HIDE DEF rows, kept, M
    <3>2. PICK r \in d.rows : /\ r.id = m.id
                              /\ \/ m = r /\ r \notin Both(d, to, from)
                                 \/ m = M(r) /\ r \in kept
      BY <3>1
    <3>3. PICK s \in d.rows : /\ s.id = n.id
                              /\ \/ n = s /\ s \notin Both(d, to, from)
                                 \/ n = M(s) /\ s \in kept
      BY <3>1
    <3>4. r = s
      BY <2>3, <3>2, <3>3 DEF Mergeable, RowsTyped
    <3>5. kept \subseteq Both(d, to, from)
      BY OneStays DEF kept
    <3> QED
      BY <3>2, <3>3, <3>4, <3>5
  <2>4. \A r \in d.rows : r \notin Both(d, to, from) => r \in rows
    OBVIOUS
  <2>5. \A r \in kept : M(r) \in rows
    OBVIOUS
  <2> HIDE DEF rows, M, kept
  <2>6. \A m \in rows : IsRow(m)
    BY <1>2, <2>2 DEF Takes, Mergeable, RowsTyped
  <2>7. RowsApart(e)
    BY <1>3, <2>1, <2>3, <2>6 DEF RowsApart, TablesTyped
  <2>8. \A c : c \notin {to, from} => LastOf(e, c) = LastOf(d, c)
    BY DEF LastOf
  <2>14. SameMarks(d, e)
    BY DEF SameMarks
  <2> HIDE DEF alias, last, e
  <2>9. TablesTyped(g) /\ SameTables(e, g) /\ SameMarks(e, g)
    BY <1>3, RefreshKeeps
  <2>10. /\ RowsIn(e, to) # {} => IsNewest(g, to)
         /\ \A c : c # to => LastOf(g, c) = LastOf(e, c)
    BY <1>3, <2>7, RefreshNewest
  <2>11. RowsIn(g, to) = RowsIn(e, to)
    BY <2>9 DEF RowsIn, SameTables
  <2> HIDE DEF g
  <2>12. /\ g.links = d.links /\ g.keys = d.keys /\ g.alias = alias /\ g.rows = rows
         /\ TablesTyped(g)
    BY <2>1, <2>9 DEF SameTables
  <2>15. SameMarks(d, g)
    BY <2>9, <2>14 DEF SameMarks
  <2>13. /\ \A c : c \notin {to, from} => LastOf(g, c) = LastOf(d, c)
         /\ RowsIn(g, to) # {} => IsNewest(g, to)
    BY <2>8, <2>10, <2>11
  <2> QED
    BY <1>2, <2>2, <2>3, <2>4, <2>5, <2>12, <2>13, <2>15 DEF Merged, alias, kept
<1> HIDE DEF e, rows, alias, last
<1> QED
  BY <1>1, <1>4

---------------------------------------------------------------------------
(* What a merge keeps                                                      *)

\* The part of the invariant that speaks of rows.
RowsOK(d, H) == /\ TablesTyped(d) /\ RowsTyped(d) /\ KeysTyped(d)
                /\ RowsHeld(d, H) /\ SeenHeld(d, H)

\* No row is new, and no mark either.
From(e, d) ==
  /\ \A m \in e.rows : \E r \in d.rows : r.id = m.id /\ r.pid = m.pid /\ r.dir = m.dir
  /\ SameMarks(d, e)

LEMMA FromIsTransitive ==
  ASSUME NEW d, NEW e, NEW g, From(e, d), From(g, e)
  PROVE  From(g, d)
<1>1. SameMarks(d, g)
  BY DEF From, SameMarks
<1> QED
  BY <1>1 DEF From

\* Every row of d has an heir in e, and a row of the account is its own.
HasHeirs(d, e, to, from) ==
  \A r \in d.rows : \E m \in e.rows :
    /\ m.pid = r.pid /\ m.conv = IF r.conv = from THEN to ELSE r.conv
    /\ r.dir = "out" => m.id = r.id /\ m.dir = "out"

LEMMA MergedHasHeirs ==
  ASSUME NEW d, NEW e, NEW to, NEW from, Mergeable(d, to, from), Merged(d, e, to, from)
  PROVE  HasHeirs(d, e, to, from) /\ From(e, d)
<1>1. ASSUME NEW r \in d.rows
      PROVE  \E m \in e.rows : /\ m.pid = r.pid /\ m.conv = IF r.conv = from THEN to ELSE r.conv
                               /\ r.dir = "out" => m.id = r.id /\ m.dir = "out"
  <2>1. CASE r \notin Both(d, to, from)
    <3>1. r \in e.rows /\ r.conv # from
      BY <2>1 DEF Merged, Both, RowsIn
    <3> QED
      BY <3>1
  <2>2. CASE r \in Both(d, to, from)
    <3>1. PICK s \in Stay(d, to, from) : s.pid = r.pid /\ (r.dir = "out" => s = r)
      BY <2>2, OneStays, OwnStays
    <3>2. PICK m \in e.rows : Takes(m, s, Copies(d, to, from, s), to)
      BY DEF Merged
    <3>3. m.conv = to /\ m.pid = s.pid /\ m.id = s.id /\ m.dir = s.dir
      BY <3>2 DEF Takes
    <3>4. r.conv \in {to, from}
      BY <2>2 DEF Both, RowsIn
    <3> QED
      BY <3>1, <3>3, <3>4
  <2> QED
    BY <2>1, <2>2
<1>2. ASSUME NEW m \in e.rows
      PROVE  \E r \in d.rows : r.id = m.id /\ r.pid = m.pid /\ r.dir = m.dir
  <2>1. CASE m \in d.rows
    BY <2>1
  <2>2. CASE \E r \in Stay(d, to, from) : Takes(m, r, Copies(d, to, from, r), to)
    BY <2>2, OneStays DEF Takes
  <2> QED
    BY <2>1, <2>2 DEF Merged
<1>3. SameMarks(d, e)
  BY DEF Merged
<1> QED
  BY <1>1, <1>2, <1>3 DEF HasHeirs, From

LEMMA MergedRowsTyped ==
  ASSUME NEW d, NEW e, NEW to, NEW from, Mergeable(d, to, from), Merged(d, e, to, from)
  PROVE  RowsTyped(e)
<1> DEFINE Old(m)  == m \in d.rows /\ m \notin Both(d, to, from)
           Own(m, r) == r \in Stay(d, to, from) /\ Takes(m, r, Copies(d, to, from, r), to)
<1>1. \A m \in e.rows : Old(m) \/ \E r : Own(m, r)
  BY DEF Merged
<1>2. Conversations(d) \ {from} \subseteq Conversations(e)
  BY DEF Merged, Conversations
<1>3. ASSUME NEW m \in e.rows PROVE IsRow(m) /\ m.conv \in Conversations(e)
  <2>1. CASE Old(m)
    <3>1. m.conv # from
      BY <2>1 DEF Both, RowsIn
    <3> QED
      BY <1>2, <2>1, <3>1 DEF Mergeable, RowsTyped
  <2>2. CASE \E r : Own(m, r)
    BY <1>2, <2>2 DEF Takes, Mergeable
  <2> QED
    BY <1>1, <2>1, <2>2
<1>4. ASSUME NEW m \in e.rows, NEW n \in e.rows,
             m.pid = n.pid, m.conv = n.conv \/ (m.dir = "out" /\ n.dir = "out")
      PROVE  m = n
  <2>1. ASSUME NEW x \in e.rows, NEW y \in e.rows, Old(x), NEW r, Own(y, r),
               x.pid = y.pid, x.conv = y.conv \/ (x.dir = "out" /\ y.dir = "out")
        PROVE  FALSE
    <3>1. x.conv # to /\ y.conv = to /\ y.pid = r.pid /\ y.dir = r.dir
      BY <2>1 DEF Both, RowsIn, Takes
    <3>2. r \in d.rows /\ r \in Both(d, to, from)
      BY <2>1, OneStays
    <3>3. x = r
      BY <2>1, <3>1, <3>2 DEF Mergeable, RowsTyped
    <3> QED
      BY <2>1, <3>2, <3>3
  <2>2. CASE Old(m) /\ Old(n)
    BY <1>4, <2>2 DEF Mergeable, RowsTyped
  <2>3. ASSUME NEW r, Own(m, r), NEW s, Own(n, s) PROVE m = n
    <3>1. m.pid = r.pid /\ n.pid = s.pid /\ m.id = r.id /\ n.id = s.id
      BY <2>3 DEF Takes
    <3>2. r = s
      BY <1>4, <2>3, <3>1, OneStays
    <3> QED
      BY <3>1, <3>2 DEF Merged
  <2> HIDE DEF Old, Own
  <2> QED
    BY <1>1, <1>4, <2>1, <2>2, <2>3
<1> QED
  BY <1>3, <1>4 DEF RowsTyped, Merged

LEMMA MergedRowsHeld ==
  ASSUME NEW d, NEW e, NEW to, NEW from, Mergeable(d, to, from), Merged(d, e, to, from),
         NEW H, RowsHeld(d, H)
  PROVE  KeysTyped(e) /\ RowsHeld(e, H)
<1>1. HasHeirs(d, e, to, from)
  BY MergedHasHeirs
<1>2. KeysTyped(e)
  BY <1>1 DEF Merged, Mergeable, KeysTyped, HasHeirs
<1>3. ASSUME NEW m \in e.rows
      PROVE  \E f \in Sent(H) : f.chat \in Jid /\ f.pid = m.pid /\ e.alias[f.chat] = m.conv
  <2>1. PICK r \in d.rows : r.pid = m.pid /\ m.conv = IF r.conv = from THEN to ELSE r.conv
    <3>1. CASE m \in d.rows /\ m \notin Both(d, to, from)
      BY <3>1 DEF Both, RowsIn
    <3>2. ASSUME NEW r \in Stay(d, to, from), Takes(m, r, Copies(d, to, from, r), to)
          PROVE  r \in d.rows /\ r.pid = m.pid /\ m.conv = IF r.conv = from THEN to ELSE r.conv
      <4>1. r \in Both(d, to, from)
        BY OneStays
      <4> QED
        BY <3>2, <4>1 DEF Takes, Both, RowsIn
    <3> QED
      BY <3>1, <3>2 DEF Merged
  <2>2. PICK f \in Sent(H) : f.chat \in Jid /\ f.pid = r.pid /\ d.alias[f.chat] = r.conv
    BY DEF RowsHeld
  <2> QED
    BY <2>1, <2>2 DEF Merged
<1>4. ASSUME NEW f \in H, f.type = "message"
      PROVE  \E r \in e.rows : r.pid = f.pid /\ (f.dir = "in" => f.chat \in Jid /\ r.conv = e.alias[f.chat])
  <2>1. PICK r \in d.rows : r.pid = f.pid /\ (f.dir = "in" => f.chat \in Jid /\ r.conv = d.alias[f.chat])
    BY <1>4 DEF RowsHeld
  <2>2. PICK m \in e.rows : m.pid = r.pid /\ m.conv = IF r.conv = from THEN to ELSE r.conv
    BY <1>1 DEF HasHeirs
  <2> QED
    BY <2>1, <2>2 DEF Merged
<1>5. ASSUME NEW f \in H, f.type = "reserve"
      PROVE  \E k \in e.keys, r \in e.rows :
               k.key = f.key /\ k.row = r.id /\ r.pid = f.pid /\ r.dir = "out"
  <2>1. PICK k \in d.keys, r \in d.rows :
               k.key = f.key /\ k.row = r.id /\ r.pid = f.pid /\ r.dir = "out"
    BY <1>5 DEF RowsHeld
  <2>2. PICK m \in e.rows : m.pid = r.pid /\ m.id = r.id /\ m.dir = "out"
    BY <1>1, <2>1 DEF HasHeirs
  <2> QED
    BY <2>1, <2>2 DEF Merged
<1> QED
  BY <1>2, <1>3, <1>4, <1>5 DEF RowsHeld

LEMMA MergedSeenHeld ==
  ASSUME NEW d, NEW e, NEW to, NEW from, Mergeable(d, to, from), Merged(d, e, to, from),
         NEW H, SeenHeld(d, H)
  PROVE  SeenHeld(e, H)
<1>1. HasHeirs(d, e, to, from)
  BY MergedHasHeirs
<1>2. ASSUME NEW y \in H, y.type = "seen"
      PROVE  y.chat \in Jid /\ y.at \in Nat \ {0} /\ \E m \in e.rows : MarksRow(e, y, m)
  <2>1. y.chat \in Jid /\ y.at \in Nat \ {0}
    BY <1>2 DEF SeenHeld
  <2>2. PICK r \in d.rows : MarksRow(d, y, r)
    BY <1>2 DEF SeenHeld
  <2>3. PICK m \in e.rows : m.pid = r.pid /\ m.conv = IF r.conv = from THEN to ELSE r.conv
    BY <1>1 DEF HasHeirs
  <2> QED
    BY <2>1, <2>2, <2>3 DEF Merged, MarksRow
<1>3. ASSUME NEW m \in e.rows
      PROVE  /\ m.seen = 0 => \A y \in H : ~MarksRow(e, y, m)
             /\ m.seen # 0 => \E y \in H : MarksRow(e, y, m) /\ y.at = m.seen
             /\ \A y \in H : MarksRow(e, y, m) => m.seen <= y.at
  <2>1. CASE m \in d.rows /\ m \notin Both(d, to, from)
    <3>1. ASSUME NEW y \in H PROVE MarksRow(e, y, m) <=> MarksRow(d, y, m)
      <4>1. m.conv \notin {to, from}
        BY <2>1 DEF Both, RowsIn
      <4>2. y.type = "seen" => y.chat \in Jid
        BY DEF SeenHeld
      <4> QED
        BY <4>1, <4>2 DEF MarksRow, Merged
    <3> QED
      BY <2>1, <3>1 DEF SeenHeld
  <2>2. ASSUME NEW r \in Stay(d, to, from), Takes(m, r, Copies(d, to, from, r), to)
        PROVE  /\ m.seen = 0 => \A y \in H : ~MarksRow(e, y, m)
               /\ m.seen # 0 => \E y \in H : MarksRow(e, y, m) /\ y.at = m.seen
               /\ \A y \in H : MarksRow(e, y, m) => m.seen <= y.at
    <3> DEFINE All == Copies(d, to, from, r) \cup {r}
    <3>1. ASSUME NEW s \in All PROVE s \in Both(d, to, from) /\ s \in d.rows /\ s.pid = m.pid
      BY <2>2, OneStays DEF Copies, Takes
    <3>2. \A s \in Both(d, to, from) : s.pid = m.pid => s \in All
      <4>1. r \in d.rows /\ r.pid = m.pid /\ Both(d, to, from) \subseteq d.rows
        BY <2>2, OneStays DEF Takes
      <4> QED
        BY <4>1 DEF Copies, Mergeable, RowsTyped
    <3>3. ASSUME NEW y \in H, NEW s \in All, MarksRow(d, y, s) PROVE MarksRow(e, y, m)
      <4>1. y.chat \in Jid /\ d.alias[y.chat] \in {to, from} /\ y.target = m.pid /\ y.type = "seen"
        BY <3>1, <3>3 DEF SeenHeld, MarksRow, Both, RowsIn
      <4> QED
        BY <2>2, <4>1 DEF MarksRow, Merged, Takes
    <3>4. ASSUME NEW y \in H, MarksRow(e, y, m) PROVE \E s \in All : MarksRow(d, y, s)
      <4>1. y.type = "seen" /\ y.chat \in Jid /\ y.target = m.pid /\ e.alias[y.chat] = to
        BY <2>2, <3>4 DEF MarksRow, Takes, SeenHeld
      <4>2. PICK s \in d.rows : MarksRow(d, y, s)
        BY <4>1 DEF SeenHeld
      <4>3. d.alias[y.chat] \in {to, from}
        BY <4>1 DEF Merged
      <4>4. s \in Both(d, to, from) /\ s.pid = m.pid
        BY <4>1, <4>2, <4>3 DEF MarksRow, Both, RowsIn
      <4> QED
        BY <3>2, <4>2, <4>4
    <3>5. /\ m.seen = 0 => \A s \in All : s.seen = 0
          /\ m.seen # 0 => \E s \in All : m.seen = s.seen
          /\ \A s \in All : s.seen # 0 => m.seen # 0 /\ m.seen <= s.seen
      BY <2>2 DEF Takes
    <3>6. \A s \in All : /\ s.seen = 0 => \A y \in H : ~MarksRow(d, y, s)
                         /\ s.seen # 0 => \E y \in H : MarksRow(d, y, s) /\ y.at = s.seen
                         /\ \A y \in H : MarksRow(d, y, s) => s.seen <= y.at
                         /\ s.seen \in Nat
      BY <3>1 DEF SeenHeld, Mergeable, RowsTyped, IsRow
    <3>7. \A y \in H : MarksRow(e, y, m) => y.at \in Nat
      BY DEF MarksRow, SeenHeld
    <3>8. m.seen \in Nat
      BY <2>2 DEF Takes, IsRow
    <3> HIDE DEF All
    <3>9. m.seen = 0 => \A y \in H : ~MarksRow(e, y, m)
      BY <3>4, <3>5, <3>6
    <3>10. m.seen # 0 => \E y \in H : MarksRow(e, y, m) /\ y.at = m.seen
      BY <3>3, <3>5, <3>6
    <3>11. ASSUME NEW y \in H, MarksRow(e, y, m) PROVE m.seen <= y.at
      <4>1. PICK s \in All : MarksRow(d, y, s)
        BY <3>4, <3>11
      <4>2. s.seen # 0 /\ s.seen <= y.at /\ s.seen \in Nat
        BY <3>6, <4>1
      <4>3. m.seen <= s.seen
        BY <3>5, <4>2
      <4> QED
        BY <3>7, <3>8, <3>11, <4>2, <4>3
    <3> QED
      BY <3>9, <3>10, <3>11
  <2> QED
    BY <2>1, <2>2 DEF Merged
<1> QED
  BY <1>2, <1>3 DEF SeenHeld

LEMMA MergedNewest ==
  ASSUME NEW d, NEW e, NEW to, NEW from, Mergeable(d, to, from), Merged(d, e, to, from)
  PROVE  KeepsNewest(d, e)
<1> SUFFICES ASSUME NEW dirty, AllNewest(d, dirty),
                    NEW c \in Conversations(e) \ dirty, RowsIn(e, c) # {}
             PROVE  IsNewest(e, c)
  BY DEF KeepsNewest, AllNewest
<1>1. CASE c = to
  BY <1>1 DEF Merged
<1>2. CASE c # to
  <2>1. c # from /\ c \in Conversations(d)
    BY <1>2 DEF Merged, Conversations, Mergeable
  <2>2. RowsIn(e, c) = RowsIn(d, c)
    <3>1. \A m \in e.rows : m.conv = c => m \in d.rows
      BY <1>2 DEF Merged, Takes
    <3>2. \A r \in d.rows : r.conv = c => r \in e.rows
      BY <1>2, <2>1 DEF Merged, Both, RowsIn
    <3> QED
      BY <3>1, <3>2 DEF RowsIn
  <2>3. LastOf(e, c) = LastOf(d, c)
    BY <1>2, <2>1 DEF Merged
  <2> QED
    BY <2>1, <2>2, <2>3, NewestInSame DEF AllNewest
<1> QED
  BY <1>1, <1>2

---------------------------------------------------------------------------
(* All the merges of one call                                              *)

\* p has the database before, the conversation that stays and what was taken in;
\* e is the database after the conversations in T were merged into it.
MergeOp(p, from, e) == MergeConversation(e, p.target, from)
MergesOK(p, T, e) ==
  /\ RowsOK(e, p.held) /\ From(e, p.base) /\ KeepsNewest(p.base, e) /\ e.links = p.base.links
  /\ e.alias = [j \in Jid |-> IF p.base.alias[j] \in T THEN p.target ELSE p.base.alias[j]]

Merges == INSTANCE FoldFacts WITH Op <- MergeOp, Ch <- Greatest, P <- MergesOK

LEMMA MergeAllMerges ==
  ASSUME NEW d, NEW H, RowsOK(d, H), NEW target, NEW others \in SUBSET (Conversations(d) \ {target}),
         others = {} \/ target \in Conversations(d)
  PROVE  LET e == MergeAll(d, target, others)
         IN  /\ RowsOK(e, H) /\ From(e, d) /\ KeepsNewest(d, e) /\ e.links = d.links
             /\ e.alias = [j \in Jid |-> IF d.alias[j] \in others THEN target ELSE d.alias[j]]
<1> DEFINE p == [base |-> d, target |-> target, held |-> H]
<1>0. p.base = d /\ p.target = target /\ p.held = H
  OBVIOUS
<1>1. others \in SUBSET Nat /\ IsFiniteSet(others)
  <2>1. Conversations(d) \subseteq 1..Cardinality(Jid)
    <3>1. \A S \in SUBSET Jid : IsFiniteSet(S) /\ Cardinality(S) <= Cardinality(Jid)
      BY ConversationsAssumption, FS_Subset
    <3>2. ASSUME NEW j \in Jid PROVE d.alias[j] \in Nat /\ d.alias[j] <= Cardinality(Jid)
      <4>1. {i \in Jid : d.alias[i] # 0} \in SUBSET Jid
        OBVIOUS
      <4>2. Cardinality({i \in Jid : d.alias[i] # 0}) <= Cardinality(Jid)
        BY <3>1, <4>1
      <4>3. /\ d.alias[j] \in Nat /\ Cardinality({i \in Jid : d.alias[i] # 0}) \in Nat
            /\ d.alias[j] <= Cardinality({i \in Jid : d.alias[i] # 0})
        BY <3>1, <4>1, FS_CardinalityType DEF RowsOK, TablesTyped
      <4> QED
        BY <4>2, <4>3, ConversationsAssumption, FS_CardinalityType
    <3> QED
      BY <3>2, ConversationsAssumption, FS_CardinalityType DEF Conversations
  <2>2. others \in SUBSET Jid /\ Jid \in SUBSET Nat
    <3>1. PICK n : n = Cardinality(Jid)
      OBVIOUS
    <3>2. n \in Nat /\ Jid = 1..n
      BY <3>1, ConversationsAssumption, FS_CardinalityType
    <3>3. Conversations(d) \subseteq 1..n
      BY <2>1, <3>1
    <3> QED
      BY <3>2, <3>3
  <2>3. IsFiniteSet(others)
    BY <2>2, ConversationsAssumption, FS_Subset
  <2> QED
    BY <2>2, <2>3
<1>2. \A T \in SUBSET others : T # {} => Greatest(T) \in T
  BY <1>1, FS_Subset, GreatestOf
<1>3. MergesOK(p, {}, d)
  <2>1. d.alias = [j \in Jid |-> IF d.alias[j] \in {} THEN target ELSE d.alias[j]]
    BY DEF RowsOK, TablesTyped
  <2>2. From(d, d) /\ KeepsNewest(d, d)
    BY DEF From, KeepsNewest, SameMarks
  <2> HIDE DEF p
  <2> QED
    BY <1>0, <2>1, <2>2 DEF MergesOK
<1>4. ASSUME NEW T \in SUBSET others, NEW e, T # {}, MergesOK(p, T \ {Greatest(T)}, e)
      PROVE  MergesOK(p, T, MergeOp(p, Greatest(T), e))
  <2> DEFINE from == Greatest(T)
             U == T \ {from}
             g == MergeConversation(e, target, from)
  <2>1. from \in T /\ from \in Conversations(d) /\ target \in Conversations(d) /\ target # from
        /\ target \notin U
    BY <1>2, <1>4
  <2> HIDE DEF from
  <2>2. /\ RowsOK(e, H) /\ From(e, d) /\ KeepsNewest(d, e) /\ e.links = d.links
        /\ e.alias = [j \in Jid |-> IF d.alias[j] \in U THEN target ELSE d.alias[j]]
    BY <1>0, <1>4 DEF MergesOK, from
  <2>3. Mergeable(e, target, from)
    <3>1. target \in Conversations(e) /\ from \in Conversations(e)
      BY <2>1, <2>2 DEF Conversations
    <3> QED
      BY <2>1, <2>2, <3>1 DEF Mergeable, RowsOK
  <2>4. Merged(e, g, target, from)
    BY <2>3, MergeConversationMerges
  <2> HIDE DEF g
  <2>5. RowsOK(g, H)
    BY <2>2, <2>3, <2>4, MergedRowsTyped, MergedRowsHeld, MergedSeenHeld DEF RowsOK, Merged
  <2>6. From(g, d) /\ KeepsNewest(d, g)
    <3>1. From(g, d)
      <4>1. From(g, e)
        BY <2>3, <2>4, MergedHasHeirs
      <4> QED
        BY <2>2, <4>1, FromIsTransitive
    <3>2. KeepsNewest(e, g)
      BY <2>3, <2>4, MergedNewest
    <3> QED
      BY <2>2, <3>1, <3>2 DEF KeepsNewest
  <2>7. g.alias = [j \in Jid |-> IF d.alias[j] \in T THEN target ELSE d.alias[j]]
    BY <2>1, <2>2, <2>4 DEF Merged
  <2>8. g.links = d.links
    BY <2>2, <2>4 DEF Merged
  <2>9. MergeOp(p, Greatest(T), e) = g
    BY <1>0 DEF MergeOp, g, from
  <2> HIDE DEF p
  <2> QED
    BY <1>0, <2>5, <2>6, <2>7, <2>8, <2>9 DEF MergesOK
<1>5. MergesOK(p, others, Merges!Fold(p, d, others))
  <2> HIDE DEF p
  <2> QED
    BY <1>1, <1>2, <1>3, <1>4, Merges!FoldInduction DEF Merges!IsFiniteSet, IsFiniteSet
<1>6. MergeAll(d, target, others) = Merges!Fold(p, d, others)
  BY DEF MergeAll, Merges!Fold, MapThenFoldSet, Merges!MapThenFoldSet, MergeOp
<1> HIDE DEF p
<1> QED
  BY <1>0, <1>5, <1>6 DEF MergesOK

---------------------------------------------------------------------------
(* The conversation that a set of linked JIDs gets                         *)

Known(d, jids) == {d.alias[j] : j \in jids} \ {0}
Target(d, jids) ==
  IF Known(d, jids) = {} THEN Greatest({d.alias[j] : j \in Jid}) + 1 ELSE Least(Known(d, jids))

\* The aliases after EnsureConversation
Ensured(d, jids) ==
  [j \in Jid |-> IF j \in jids \/ d.alias[j] \in Known(d, jids) THEN Target(d, jids) ELSE d.alias[j]]

Named(alias) == {j \in Jid : alias[j] # 0}

LEMMA NamedIsFinite ==
  ASSUME NEW alias
  PROVE  IsFiniteSet(Named(alias)) /\ Cardinality(Named(alias)) \in Nat
BY ConversationsAssumption, FS_Subset, FS_CardinalityType DEF Named

LEMMA NamedBounds ==
  ASSUME NEW d, TablesTyped(d), NEW j \in Jid
  PROVE  d.alias[j] \in Nat /\ d.alias[j] <= Cardinality(Named(d.alias))
BY DEF TablesTyped, Named

LEMMA GreatestAlias ==
  ASSUME NEW d, TablesTyped(d), Jid # {}
  PROVE  LET g == Greatest({d.alias[j] : j \in Jid})
         IN  g \in Nat /\ g <= Cardinality(Named(d.alias)) /\ \A j \in Jid : d.alias[j] <= g
<1> DEFINE S == {d.alias[j] : j \in Jid}
<1>1. S \in SUBSET Nat /\ S # {}
  BY DEF TablesTyped
<1>2. IsFiniteSet(S)
  <2>1. d.alias \in Surjection(Jid, S)
    BY DEF Surjection, TablesTyped
  <2> HIDE DEF S
  <2> QED
    BY <2>1, ConversationsAssumption, FS_Surjection
<1>3. \A j \in Jid : d.alias[j] \in S
  OBVIOUS
<1>4. \A x \in S : x <= Cardinality(Named(d.alias))
  BY NamedBounds
<1> HIDE DEF S
<1>5. Greatest(S) \in S /\ \A y \in S : y <= Greatest(S)
  BY <1>1, <1>2, GreatestOf
<1> QED
  BY <1>1, <1>3, <1>4, <1>5 DEF S

LEMMA TargetOf ==
  ASSUME NEW d, TablesTyped(d), NEW jids \in SUBSET Jid, jids # {}
  PROVE  /\ Target(d, jids) \in Nat \ {0}
         /\ Known(d, jids) # {} => Target(d, jids) \in Known(d, jids)
         /\ Known(d, jids) = {} => /\ \A j \in Jid : d.alias[j] # Target(d, jids)
                                   /\ Target(d, jids) <= Cardinality(Named(d.alias)) + 1
<1>1. CASE Known(d, jids) # {}
  <2>1. Known(d, jids) \in SUBSET Nat /\ 0 \notin Known(d, jids)
    BY DEF Known, TablesTyped
  <2> QED
    BY <1>1, <2>1, LeastOf DEF Target
<1>2. CASE Known(d, jids) = {}
  <2> DEFINE g == Greatest({d.alias[j] : j \in Jid})
  <2>1. g \in Nat /\ g <= Cardinality(Named(d.alias)) /\ \A j \in Jid : d.alias[j] <= g
    BY GreatestAlias
  <2>2. Target(d, jids) = g + 1
    BY <1>2 DEF Target
  <2> HIDE DEF g
  <2>3. \A j \in Jid : d.alias[j] \in Nat
    BY DEF TablesTyped
  <2> QED
    BY <1>2, <2>1, <2>2, <2>3, NamedIsFinite
<1> QED
  BY <1>1, <1>2

LEMMA EnsuredTyped ==
  ASSUME NEW d, TablesTyped(d), NEW jids \in SUBSET Jid, jids # {}
  PROVE  /\ Ensured(d, jids) \in [Jid -> Nat]
         /\ \A j \in Jid : Ensured(d, jids)[j] <= Cardinality(Named(Ensured(d, jids)))
<1> DEFINE a == Ensured(d, jids)
           t == Target(d, jids)
<1>1. t \in Nat \ {0} /\ \A j \in Jid : d.alias[j] \in Nat
  BY TargetOf DEF TablesTyped
<1>2. a \in [Jid -> Nat] /\ \A j \in Jid : a[j] \in {t, d.alias[j]}
  BY <1>1 DEF Ensured
<1>3. Named(d.alias) \subseteq Named(a) /\ jids \subseteq Named(a)
  BY <1>1 DEF Ensured, Named
<1> HIDE DEF a, t
<1>4. Cardinality(Named(d.alias)) <= Cardinality(Named(a))
  BY <1>3, NamedIsFinite, FS_Subset
<1>5. t <= Cardinality(Named(a))
  <2>1. CASE Known(d, jids) # {}
    <3>1. PICK j \in Jid : d.alias[j] = t
      BY <2>1, TargetOf DEF Known, t
    <3> QED
      BY <1>1, <1>4, <3>1, NamedBounds, NamedIsFinite
  <2>2. CASE Known(d, jids) = {}
    <3>1. PICK j \in jids : TRUE
      OBVIOUS
    <3>2. j \notin Named(d.alias)
      BY <2>2 DEF Named, Known
    <3>3. Cardinality(Named(d.alias) \cup {j}) = Cardinality(Named(d.alias)) + 1
      BY <3>2, NamedIsFinite, FS_AddElement
    <3>4. Cardinality(Named(d.alias) \cup {j}) <= Cardinality(Named(a))
      <4>1. Named(d.alias) \cup {j} \subseteq Named(a)
        BY <1>3
      <4> QED
        BY <4>1, NamedIsFinite, FS_Subset
    <3>5. t <= Cardinality(Named(d.alias)) + 1
      BY <2>2, TargetOf DEF t
    <3> QED
      BY <1>1, <3>3, <3>4, <3>5, NamedIsFinite
  <2> QED
    BY <2>1, <2>2
<1>6. ASSUME NEW j \in Jid PROVE a[j] <= Cardinality(Named(a))
  BY <1>1, <1>2, <1>4, <1>5, NamedBounds, NamedIsFinite
<1> QED
  BY <1>2, <1>6 DEF a

\* A JID that had no conversation gets one: the rows are not concerned.
LEMMA AliasExtended ==
  ASSUME NEW d, NEW H, RowsOK(d, H), NEW alias \in [Jid -> Nat],
         \A j \in Jid : d.alias[j] # 0 => alias[j] = d.alias[j],
         \A j \in Jid : alias[j] <= Cardinality(Named(alias)),
         NEW e, e = [d EXCEPT !.alias = alias]
  PROVE  /\ RowsOK(e, H) /\ e.alias = alias /\ e.links = d.links /\ e.rows = d.rows
         /\ From(e, d) /\ KeepsNewest(d, e)
<1>1. e = [links |-> d.links, alias |-> alias, rows |-> d.rows, keys |-> d.keys,
           last |-> d.last, reactions |-> d.reactions, receipts |-> d.receipts,
           changes |-> d.changes]
  BY DEF RowsOK, TablesTyped
<1>2. /\ e.links = d.links /\ e.alias = alias /\ e.rows = d.rows /\ e.keys = d.keys
      /\ From(e, d)
  BY <1>1 DEF From, SameMarks
<1>3. TablesTyped(e)
  BY <1>1 DEF RowsOK, TablesTyped, Named
<1>4. Conversations(d) \subseteq Conversations(e)
  BY <1>2 DEF Conversations
<1>5. RowsTyped(e)
  BY <1>2, <1>4 DEF RowsOK, RowsTyped
<1>6. KeysTyped(e)
  BY <1>2 DEF RowsOK, KeysTyped
<1>7. \A r \in d.rows : r.conv # 0
  BY DEF RowsOK, RowsTyped, Conversations
<1>8. RowsHeld(e, H)
  <2>1. ASSUME NEW f \in H, f.type = "message", f.dir = "in", NEW r \in d.rows,
               f.chat \in Jid, r.conv = d.alias[f.chat]
        PROVE  r.conv = e.alias[f.chat]
    BY <1>2, <1>7, <2>1
  <2>2. ASSUME NEW f, f.chat \in Jid, NEW r \in d.rows, r.conv = d.alias[f.chat]
        PROVE  r.conv = e.alias[f.chat]
    BY <1>2, <1>7, <2>2
  <2> QED
    BY <1>2, <2>1, <2>2 DEF RowsOK, RowsHeld
<1>9. SeenHeld(e, H)
  <2>1. ASSUME NEW y \in H, NEW r \in d.rows PROVE MarksRow(e, y, r) <=> MarksRow(d, y, r)
    <3>1. y.type = "seen" => y.chat \in Jid /\ d.alias[y.chat] # 0
      BY <1>7 DEF RowsOK, SeenHeld, MarksRow
    <3> QED
      BY <1>2, <3>1 DEF MarksRow
  <2> QED
    BY <1>2, <2>1 DEF RowsOK, SeenHeld
<1>10. KeepsNewest(d, e)
  <2>1. e.rows = d.rows /\ e.last = d.last
    BY <1>1
  <2> QED
    BY <2>1, SameKeepsNewest DEF RowsOK
<1> QED
  BY <1>2, <1>3, <1>5, <1>6, <1>8, <1>9, <1>10 DEF RowsOK

\* EnsureConversation does to the aliases what Ensured says, and keeps the rows.
LEMMA EnsureKeepsRows ==
  ASSUME NEW d, NEW H, RowsOK(d, H), NEW jid \in Jid, NEW aliases \in SUBSET Jid
  PROVE  LET e == EnsureConversation(d, jid, aliases)
         IN  /\ RowsOK(e, H) /\ From(e, d) /\ KeepsNewest(d, e) /\ e.links = d.links
             /\ e.alias = Ensured(d, Linked(d.links, {jid} \cup aliases))
<1> DEFINE jids   == Linked(d.links, {jid} \cup aliases)
           known  == Known(d, jids)
           target == Target(d, jids)
           others == known \ {target}
           merged == MergeAll(d, target, others)
           alias  == [j \in Jid |-> IF j \in jids THEN target ELSE merged.alias[j]]
           e      == [merged EXCEPT !.alias = alias]
<1>1. jids \in SUBSET Jid /\ jid \in jids
  BY LinkedHas
<1>2. EnsureConversation(d, jid, aliases) = e
  BY DEF EnsureConversation, Known, Target
<1> HIDE DEF jids
<1>3. /\ target \in Nat \ {0} /\ (known # {} => target \in known)
      /\ known = {} => \A j \in Jid : d.alias[j] # target
  BY <1>1, TargetOf DEF RowsOK
<1>4. known \subseteq Conversations(d)
  BY <1>1 DEF Known, Conversations
<1> HIDE DEF known, target
<1>5. /\ RowsOK(merged, H) /\ From(merged, d) /\ KeepsNewest(d, merged) /\ merged.links = d.links
      /\ merged.alias = [j \in Jid |-> IF d.alias[j] \in others THEN target ELSE d.alias[j]]
  <2>1. others \in SUBSET (Conversations(d) \ {target})
    BY <1>4
  <2>2. others = {} \/ target \in Conversations(d)
    BY <1>3, <1>4
  <2> HIDE DEF others
  <2> QED
    BY <2>1, <2>2, MergeAllMerges
<1> HIDE DEF merged
<1>6. alias = Ensured(d, jids)
  <2>1. ASSUME NEW j \in Jid PROVE alias[j] = Ensured(d, jids)[j]
    BY <1>5 DEF Ensured, known, target
  <2>2. Ensured(d, jids) = [j \in Jid |-> Ensured(d, jids)[j]] /\ alias = [j \in Jid |-> alias[j]]
    BY DEF Ensured
  <2> HIDE DEF alias
  <2> QED
    BY <2>1, <2>2
<1>7. \A j \in Jid : merged.alias[j] # 0 => alias[j] = merged.alias[j]
  <2>1. ASSUME NEW j \in jids, merged.alias[j] # 0 PROVE merged.alias[j] = target
    <3>1. j \in Jid /\ (d.alias[j] \in known \/ d.alias[j] = 0)
      BY <1>1, <2>1 DEF known, Known
    <3>2. CASE known = {}
      BY <1>5, <2>1, <3>1, <3>2
    <3>3. CASE known # {}
      BY <1>3, <1>5, <2>1, <3>1, <3>3
    <3> QED
      BY <3>2, <3>3
  <2> QED
    BY <2>1
<1>8. alias \in [Jid -> Nat] /\ \A j \in Jid : alias[j] <= Cardinality(Named(alias))
  BY <1>1, <1>6, EnsuredTyped DEF RowsOK
<1> HIDE DEF alias
<1>9. PICK g : g = e
  OBVIOUS
<1>10. /\ RowsOK(g, H) /\ g.alias = alias /\ g.links = merged.links /\ From(g, merged)
       /\ KeepsNewest(merged, g)
  BY <1>5, <1>7, <1>8, <1>9, AliasExtended
<1>11. From(g, d) /\ KeepsNewest(d, g)
  BY <1>5, <1>10, FromIsTransitive DEF KeepsNewest
<1> HIDE DEF e
<1> QED
  BY <1>2, <1>5, <1>6, <1>9, <1>10, <1>11 DEF jids

---------------------------------------------------------------------------
(* The aliases are the groups that links and batches make                  *)

Links(H) == {f.jids : f \in {f \in H : f.type = "link"}}
ChatsHeld(d, H) == \A f \in H : f.type = "chat" => f.jids \subseteq Jid /\ \A j \in f.jids : d.alias[j] # 0

\* The facts in more join jids, which are Linked in the database already.
Joins(more, d, jids) ==
  \A f \in more : f.type \in {"link", "chat"} /\ f.jids \subseteq Linked(d.links, jids)

\* Everything in jids is one group.
OneGroup(G, jid, jids) == jids \subseteq Linked(G, {jid})

LEMMA GroupsTyped ==
  ASSUME NEW d, NEW H, d.links = Links(H), d.links \subseteq SUBSET Jid, ChatsHeld(d, H)
  PROVE  Group(H) \in SUBSET SUBSET Jid /\ d.links \subseteq Group(H)
BY DEF Group, Links, ChatsHeld

LEMMA EnsuredAliases ==
  ASSUME NEW d, TablesTyped(d), NEW H, AliasesHeld(d, H), ChatsHeld(d, H), Links(H) \subseteq d.links,
         NEW more, NEW jid \in Jid, NEW seeds \in SUBSET Jid, jid \in seeds,
         Joins(more, d, seeds), d.links = Links(H \cup more),
         OneGroup(Group(H \cup more), jid, seeds),
         NEW e, e.alias = Ensured(d, Linked(d.links, seeds))
  PROVE  AliasesHeld(e, H \cup more) /\ ChatsHeld(e, H \cup more) /\ e.alias[jid] # 0
<1> DEFINE jids   == Linked(d.links, seeds)
           target == Target(d, jids)
           known  == Known(d, jids)
           G      == Group(H \cup more)
           In(j)  == j \in jids \/ d.alias[j] \in known
<1>1. jids \in SUBSET Jid /\ seeds \subseteq jids /\ ClosedUnder(d.links, jids)
  BY LinkedHas, LinkedIsClosed DEF TablesTyped
<1>2. /\ target \in Nat \ {0} /\ (known # {} => target \in known)
      /\ known = {} => \A j \in Jid : d.alias[j] # target
  BY <1>1, TargetOf
<1>3. \A j \in jids : d.alias[j] # 0 => d.alias[j] \in known
  BY DEF Known
<1>4. \A x \in known : x # 0 /\ \E k \in jids : d.alias[k] = x
  BY DEF Known
<1>5. \A j \in Jid : e.alias[j] = IF In(j) THEN target ELSE d.alias[j]
  BY DEF Ensured
<1>6. /\ \A f \in more : f.type \in {"link", "chat"} /\ f.jids \subseteq jids
  BY DEF Joins
<1>7. G \in SUBSET SUBSET Jid /\ d.links \subseteq G /\ Group(H) \subseteq G
      /\ \A l \in G : l \in Group(H) \/ l \subseteq jids
  <2>1. \A l \in G : l \in Group(H) \/ \E f \in more : l = f.jids
    BY DEF Group
  <2>2. Group(H) \subseteq G
    BY DEF Group
  <2>3. d.links \subseteq G
    BY DEF Group, Links
  <2>4. Group(H) \subseteq SUBSET Jid
    BY DEF Group, ChatsHeld, TablesTyped, Links
  <2> HIDE DEF G, jids
  <2>5. \A l \in G : l \in Group(H) \/ l \subseteq jids
    BY <1>6, <2>1
  <2>6. G \in SUBSET SUBSET Jid
    BY <1>1, <2>4, <2>5
  <2> QED
    BY <2>2, <2>3, <2>5, <2>6
<1>8. \A l \in Group(H) : l \in d.links \/ (l \subseteq Jid /\ \A j \in l : d.alias[j] # 0)
  BY DEF Group, ChatsHeld, Links
<1>9. \A l \in Group(H) : \A i, j \in l : d.alias[i] = d.alias[j]
  BY DEF AliasesHeld
<1>10. \A i, j \in Jid : d.alias[i] # 0 /\ d.alias[i] = d.alias[j] => j \in Linked(G, {i})
  <2>1. ASSUME NEW S PROVE Linked(Group(H), S) \subseteq Linked(G, S)
    <3> HIDE DEF G
    <3> QED
      BY <1>7, LinkedGrows
  <2> QED
    BY <2>1 DEF AliasesHeld
<1>11. \A k \in jids : k \in Linked(G, {jid})
  <2>1. jids \subseteq Linked(G, seeds)
    BY <1>7, LinkedGrows
  <2>2. Linked(G, seeds) \subseteq Linked(G, {jid})
    <3>1. seeds \in SUBSET Linked(G, {jid})
      BY DEF OneGroup
    <3> HIDE DEF G
    <3> QED
      BY <1>7, <3>1, LinkedIsTransitive
  <2> QED
    BY <2>1, <2>2
<1> HIDE DEF jids, known, target, G
<1>12. ASSUME NEW l \in G, NEW i \in l, NEW j \in l PROVE e.alias[i] = e.alias[j]
  <2>1. i \in Jid /\ j \in Jid
    BY <1>7
  <2>2. CASE l \subseteq jids
    BY <1>5, <2>1, <2>2
  <2>3. CASE l \in Group(H)
    <3>1. d.alias[i] = d.alias[j]
      BY <1>9, <2>3
    <3>2. i \in jids /\ d.alias[i] = 0 => j \in jids
      BY <1>1, <1>8, <2>3 DEF ClosedUnder
    <3>3. j \in jids /\ d.alias[j] = 0 => i \in jids
      BY <1>1, <1>8, <2>3 DEF ClosedUnder
    <3>4. In(i) <=> In(j)
      BY <1>3, <3>1, <3>2, <3>3
    <3> QED
      BY <1>5, <2>1, <3>1, <3>4
  <2> QED
    BY <1>7, <2>2, <2>3
<1>13. ASSUME NEW i \in Jid, In(i) PROVE i \in Linked(G, {jid}) /\ jid \in Linked(G, {i})
  <2>1. ASSUME NEW k \in jids PROVE k \in Linked(G, {jid}) /\ jid \in Linked(G, {k})
    BY <1>7, <1>11, LinkedIsSymmetric
  <2>2. CASE i \in jids
    BY <2>1, <2>2
  <2>3. CASE d.alias[i] \in known
    <3>1. PICK k \in jids : d.alias[k] = d.alias[i]
      BY <1>4, <2>3
    <3>2. k \in Jid /\ k \in Linked(G, {i}) /\ i \in Linked(G, {k})
      BY <1>1, <1>4, <1>10, <2>3, <3>1
    <3>3. Linked(G, {k}) \subseteq Linked(G, {i}) /\ Linked(G, {k}) \subseteq Linked(G, {jid})
      <4>1. {k} \in SUBSET Linked(G, {i}) /\ {k} \in SUBSET Linked(G, {jid})
        BY <2>1, <3>2
      <4> QED
        BY <1>7, <4>1, LinkedIsTransitive
    <3> QED
      BY <2>1, <3>2, <3>3
  <2> QED
    BY <1>13, <2>2, <2>3
<1>14. ASSUME NEW i \in Jid, NEW j \in Jid, e.alias[i] # 0, e.alias[i] = e.alias[j]
       PROVE  j \in Linked(G, {i})
  <2>1. CASE In(i) /\ In(j)
    <3>1. {jid} \in SUBSET Linked(G, {i}) /\ j \in Linked(G, {jid})
      BY <1>13, <2>1
    <3>2. Linked(G, {jid}) \subseteq Linked(G, {i})
      BY <1>7, <3>1, LinkedIsTransitive
    <3> QED
      BY <3>1, <3>2
  <2>2. CASE ~In(i) /\ ~In(j)
    BY <1>5, <1>10, <1>14, <2>2
  <2>3. ASSUME NEW x \in Jid, NEW y \in Jid, In(x), ~In(y), e.alias[x] = e.alias[y] PROVE FALSE
    <3>1. d.alias[y] = target
      BY <1>5, <2>3
    <3> QED
      BY <1>2, <2>3, <3>1
  <2> QED
    BY <1>14, <2>1, <2>2, <2>3
<1>15. ASSUME NEW f \in H \cup more, f.type = "chat"
       PROVE  f.jids \subseteq Jid /\ \A j \in f.jids : e.alias[j] # 0
  <2>1. CASE f \in H
    BY <1>2, <1>5, <1>15, <2>1 DEF ChatsHeld
  <2>2. CASE f \in more
    BY <1>1, <1>2, <1>5, <1>6, <2>2
  <2> QED
    BY <2>1, <2>2
<1>16. e.alias[jid] # 0
  BY <1>1, <1>2, <1>5
<1> QED
  BY <1>12, <1>14, <1>15, <1>16 DEF AliasesHeld, ChatsHeld, G

\* Only links and batches' aliases are about groups of chats.
\* What is needed to take in more, which joins jid and aliases, by ensuring their conversation.
Ensurable(d, H, more, jid, aliases) ==
  /\ RowsOK(d, H \cup more) /\ MarksKept(d, H \cup more) /\ AliasesHeld(d, H) /\ ChatsHeld(d, H)
  /\ Links(H) \subseteq d.links /\ d.links = Links(H \cup more)
  /\ jid \in Jid /\ aliases \in SUBSET Jid /\ Joins(more, d, {jid} \cup aliases)
  /\ OneGroup(Group(H \cup more), jid, {jid} \cup aliases)

LEMMA EnsureHeld ==
  ASSUME NEW d, NEW H, NEW more, NEW jid, NEW aliases, Ensurable(d, H, more, jid, aliases),
         NEW e, e = EnsureConversation(d, jid, aliases)
  PROVE  Held(e, H \cup more) /\ From(e, d) /\ KeepsNewest(d, e) /\ e.alias[jid] # 0
<1> DEFINE seeds == {jid} \cup aliases
<1> USE DEF Ensurable
<1>1. /\ RowsOK(e, H \cup more) /\ From(e, d) /\ KeepsNewest(d, e) /\ e.links = d.links
      /\ e.alias = Ensured(d, Linked(d.links, seeds))
  <2>1. RowsOK(d, H \cup more) /\ jid \in Jid /\ aliases \in SUBSET Jid
    OBVIOUS
  <2> HIDE DEF Ensurable
  <2> QED
    BY <2>1, EnsureKeepsRows
<1>2. seeds \in SUBSET Jid /\ jid \in seeds
  OBVIOUS
<1>5. Joins(more, d, seeds) /\ OneGroup(Group(H \cup more), jid, seeds)
  OBVIOUS
<1> HIDE DEF seeds
<1>3. AliasesHeld(e, H \cup more) /\ ChatsHeld(e, H \cup more) /\ e.alias[jid] # 0
  BY <1>1, <1>2, <1>5, EnsuredAliases DEF RowsOK
<1>4. LinksHeld(e, H \cup more)
  BY <1>1, <1>3 DEF LinksHeld, ChatsHeld, Links
<1>6. MarksKept(e, H \cup more)
  BY <1>1, MarksInSame DEF From
<1> QED
  BY <1>1, <1>3, <1>4, <1>6 DEF Held, RowsOK, seeds

LEMMA LinkedHolds ==
  ASSUME NEW d, NEW H, Held(d, H)
  PROVE  /\ RowsOK(d, H) /\ AliasesHeld(d, H) /\ ChatsHeld(d, H) /\ d.links = Links(H)
         /\ MarksKept(d, H)
BY DEF Held, RowsOK, LinksHeld, ChatsHeld, Links

\* getOrCreateConversationTx
LEMMA EnsureOneHeld ==
  ASSUME NEW d, NEW H, Held(d, H), NEW jid \in Jid
  PROVE  LET e == EnsureConversation(d, jid, {})
         IN  Held(e, H) /\ From(e, d) /\ KeepsNewest(d, e) /\ e.alias[jid] # 0
<1>1. Joins({}, d, {jid} \cup {})
  BY DEF Joins
<1>2. OneGroup(Group(H \cup {}), jid, {jid} \cup {})
  BY LinkedHas DEF OneGroup
<1>3. H \cup {} = H
  OBVIOUS
<1>4. Ensurable(d, H, {}, jid, {})
  BY <1>1, <1>2, <1>3, LinkedHolds DEF Ensurable
<1>5. PICK e : e = EnsureConversation(d, jid, {})
  OBVIOUS
<1>6. Held(e, H \cup {}) /\ From(e, d) /\ KeepsNewest(d, e) /\ e.alias[jid] # 0
  BY <1>4, <1>5, EnsureHeld
<1> QED
  BY <1>3, <1>5, <1>6

---------------------------------------------------------------------------
(* What is left of reactions and receipts                                  *)

\* A row of reactions
IsRanked(x) ==
  /\ x = [chat |-> x.chat, target |-> x.target, by |-> x.by, emoji |-> x.emoji, at |-> x.at, event |-> x.event]
  /\ x.at \in Nat /\ x.emoji \in Nat /\ x.event \in Nat

LEMMA WinsIs ==
  ASSUME NEW x, NEW y, IsRanked(x), IsRanked(y)
  PROVE  ReactionWins(x, y) <=>
           \/ x.at > y.at
           \/ x.at = y.at /\ x.emoji = 0 /\ y.emoji # 0
           \/ x.at = y.at /\ (x.emoji = 0 <=> y.emoji = 0) /\ x.event > y.event
           \/ x.at = y.at /\ (x.emoji = 0 <=> y.emoji = 0) /\ x.event = y.event /\ x.emoji > y.emoji
<1> DEFINE X == <<x.at, IF x.emoji = 0 THEN 1 ELSE 0, x.event, x.emoji>>
           Y == <<y.at, IF y.emoji = 0 THEN 1 ELSE 0, y.event, y.emoji>>
           First(i) == X[i] > Y[i] /\ \A j \in 1..(i - 1) : X[j] = Y[j]
<1>1. ReactionWins(x, y) <=> \E i \in 1..4 : First(i)
  BY DEF ReactionWins
<1>2. /\ X[1] = x.at /\ X[2] = (IF x.emoji = 0 THEN 1 ELSE 0) /\ X[3] = x.event /\ X[4] = x.emoji
      /\ Y[1] = y.at /\ Y[2] = (IF y.emoji = 0 THEN 1 ELSE 0) /\ Y[3] = y.event /\ Y[4] = y.emoji
  OBVIOUS
<1> HIDE DEF X, Y
<1>3. First(1) <=> X[1] > Y[1]
  OBVIOUS
<1>4. First(2) <=> X[2] > Y[2] /\ X[1] = Y[1]
  OBVIOUS
<1>5. First(3) <=> X[3] > Y[3] /\ X[1] = Y[1] /\ X[2] = Y[2]
  <2>1. \A j \in 1..2 : j = 1 \/ j = 2
    OBVIOUS
  <2> QED
    BY <2>1
<1>6. First(4) <=> X[4] > Y[4] /\ X[1] = Y[1] /\ X[2] = Y[2] /\ X[3] = Y[3]
  <2>1. \A j \in 1..3 : j = 1 \/ j = 2 \/ j = 3
    OBVIOUS
  <2> QED
    BY <2>1
<1>7. ReactionWins(x, y) <=> First(1) \/ First(2) \/ First(3) \/ First(4)
  <2>1. \A i \in 1..4 : i = 1 \/ i = 2 \/ i = 3 \/ i = 4
    OBVIOUS
  <2> HIDE DEF First
  <2> QED
    BY <1>1, <2>1
<1> HIDE DEF First
<1> QED
  BY <1>2, <1>3, <1>4, <1>5, <1>6, <1>7 DEF IsRanked

\* reactionOrder is transitive, and so is its complement.
LEMMA WinsOrders ==
  ASSUME NEW x, NEW y, NEW z, IsRanked(x), IsRanked(y), IsRanked(z)
  PROVE  /\ ~ReactionWins(x, x)
         /\ ReactionWins(x, y) /\ ReactionWins(y, z) => ReactionWins(x, z)
         /\ ~(ReactionWins(x, y) /\ ReactionWins(y, x))
         /\ ~ReactionWins(y, x) /\ ~ReactionWins(z, y) => ~ReactionWins(z, x)
BY WinsIs DEF IsRanked

\* Each reaction of S is in T, or is beaten there by one of the same participant.
Tops(S, T) == \A s \in S : \E t \in T : Mark(t) = Mark(s) /\ (t = s \/ ReactionWins(t, s))

AllRanked(S) == \A x \in S : IsRanked(x)

LEMMA WinnersIn ==
  ASSUME NEW S, NEW T, AllRanked(S), AllRanked(T), Tops(S, T), Tops(T, S)
  PROVE  Winners(S) \subseteq Winners(T)
<1> SUFFICES ASSUME NEW z \in Winners(S) PROVE z \in Winners(T)
  OBVIOUS
<1>1. z \in S /\ \A y \in S : Mark(y) = Mark(z) => ~ReactionWins(y, z)
  BY DEF Winners
<1>2. z \in T
  <2>1. PICK t \in T : Mark(t) = Mark(z) /\ (t = z \/ ReactionWins(t, z))
    BY <1>1 DEF Tops
  <2>2. PICK s \in S : Mark(s) = Mark(t) /\ (s = t \/ ReactionWins(s, t))
    BY DEF Tops
  <2>3. IsRanked(s) /\ IsRanked(t) /\ IsRanked(z)
    BY <1>1 DEF AllRanked
  <2>4. ~ReactionWins(s, z)
    BY <1>1, <2>1, <2>2
  <2> QED
    BY <2>1, <2>2, <2>3, <2>4, WinsOrders
<1>3. ASSUME NEW y \in T, Mark(y) = Mark(z), ReactionWins(y, z) PROVE FALSE
  <2>1. PICK s \in S : Mark(s) = Mark(y) /\ (s = y \/ ReactionWins(s, y))
    BY DEF Tops
  <2>2. IsRanked(s) /\ IsRanked(y) /\ IsRanked(z)
    BY <1>1 DEF AllRanked
  <2> QED
    BY <1>1, <1>3, <2>1, <2>2, WinsOrders
<1> QED
  BY <1>2, <1>3 DEF Winners

LEMMA WinnersSame ==
  ASSUME NEW S, NEW T, AllRanked(S), AllRanked(T), Tops(S, T), Tops(T, S)
  PROVE  Winners(S) = Winners(T)
BY WinnersIn

\* Every reaction is a winner or beaten by one.
LEMMA WinnerOf ==
  ASSUME NEW S, IsFiniteSet(S), AllRanked(S)
  PROVE  Tops(S, Winners(S)) /\ Tops(Winners(S), S) /\ AllRanked(Winners(S))
<1>1. Tops(Winners(S), S) /\ AllRanked(Winners(S))
  BY DEF Winners, Tops, AllRanked
<1>2. ASSUME NEW x \in S
      PROVE  \E w \in Winners(S) : Mark(w) = Mark(x) /\ (w = x \/ ReactionWins(w, x))
  <2> DEFINE T == {y \in S : Mark(y) = Mark(x) /\ (y = x \/ ReactionWins(y, x))}
             R == {p \in S \X S : ~ReactionWins(p[2], p[1])}
  <2>1. IsFiniteSet(T) /\ T # {} /\ T \subseteq S /\ x \in T
    BY FS_Subset
  <2>2. Orders(R, T)
    <3>0. \A y, z \in T : <<y, z>> \in R <=> ~ReactionWins(z, y)
      BY <2>1
    <3> HIDE DEF T, R
    <3>1. \A y, z \in T : ~(ReactionWins(y, z) /\ ReactionWins(z, y))
      BY <2>1, WinsOrders DEF AllRanked
    <3>2. \A u, y, z \in T : ~ReactionWins(y, u) /\ ~ReactionWins(z, y) => ~ReactionWins(z, u)
      BY <2>1, WinsOrders DEF AllRanked
    <3> QED
      BY <3>0, <3>1, <3>2 DEF Orders
  <2>3. PICK w : IsFirst(w, R, T)
    <3> HIDE DEF T, R
    <3> QED BY <2>1, <2>2, FirstOfFinite
  <2>4. w \in T /\ \A y \in T : y # w => ~ReactionWins(y, w)
    BY <2>3 DEF IsFirst
  <2>5. ASSUME NEW y \in S, Mark(y) = Mark(w), ReactionWins(y, w) PROVE FALSE
    <3>1. IsRanked(y) /\ IsRanked(w) /\ IsRanked(x)
      BY <2>4 DEF AllRanked
    <3>2. ReactionWins(y, x)
      BY <2>4, <2>5, <3>1, WinsOrders
    <3>3. y \in T
      BY <2>4, <2>5, <3>2
    <3>4. y # w
      BY <2>5, <3>1, WinsOrders
    <3> QED
      BY <2>4, <2>5, <3>3, <3>4
  <2>6. w \in Winners(S)
    BY <2>4, <2>5 DEF Winners
  <2> QED
    BY <2>4, <2>6
<1> QED
  BY <1>1, <1>2 DEF Tops
\* A row of receipts
IsTimed(x) ==
  /\ x = [chat |-> x.chat, target |-> x.target, by |-> x.by, delivered |-> x.delivered, read |-> x.read]
  /\ x.delivered \in Nat /\ x.read \in Nat

AllTimed(S) == \A x \in S : IsTimed(x)

DeliveredOf(S, x) == {y.delivered : y \in {z \in S : Mark(z) = Mark(x)}}
ReadOf(S, x)      == {y.read      : y \in {z \in S : Mark(z) = Mark(x)}}

Combined(S, x) ==
  [chat |-> x.chat, target |-> x.target, by |-> x.by,
   delivered |-> Least0(DeliveredOf(S, x)), read |-> Least0(ReadOf(S, x))]

LEMMA EarliestIs ==
  ASSUME NEW S, AllTimed(S)
  PROVE  /\ Earliest(S) = {Combined(S, x) : x \in S}
         /\ \A x \in S : DeliveredOf(S, x) \in SUBSET Nat /\ ReadOf(S, x) \in SUBSET Nat
         /\ \A x \in S : Mark(Combined(S, x)) = Mark(x) /\ IsTimed(Combined(S, x))
<1>1. ASSUME NEW x \in S
      PROVE  [x EXCEPT !.delivered = Least0(DeliveredOf(S, x)), !.read = Least0(ReadOf(S, x))]
               = Combined(S, x)
  <2>1. PICK a : a = Least0(DeliveredOf(S, x))
    OBVIOUS
  <2>2. PICK b : b = Least0(ReadOf(S, x))
    OBVIOUS
  <2>3. x = [chat |-> x.chat, target |-> x.target, by |-> x.by, delivered |-> x.delivered, read |-> x.read]
    BY DEF AllTimed, IsTimed
  <2>4. PICK y : y = [x EXCEPT !.delivered = a, !.read = b]
    OBVIOUS
  <2>5. y = [chat |-> x.chat, target |-> x.target, by |-> x.by, delivered |-> a, read |-> b]
    BY <2>3, <2>4
  <2> QED
    BY <2>1, <2>2, <2>4, <2>5 DEF Combined
<1>2. Earliest(S) = {[x EXCEPT !.delivered = Least0(DeliveredOf(S, x)), !.read = Least0(ReadOf(S, x))] : x \in S}
  BY Zenon DEF Earliest, DeliveredOf, ReadOf
<1>3. ASSUME NEW x \in S PROVE DeliveredOf(S, x) \in SUBSET Nat /\ ReadOf(S, x) \in SUBSET Nat
  BY DEF AllTimed, IsTimed, DeliveredOf, ReadOf
<1>4. ASSUME NEW x \in S PROVE Mark(Combined(S, x)) = Mark(x) /\ IsTimed(Combined(S, x))
  <2>1. Least0(DeliveredOf(S, x)) \in Nat /\ Least0(ReadOf(S, x)) \in Nat
    BY <1>3, Least0Of
  <2> QED
    BY <2>1 DEF Combined, Mark, IsTimed
<1> QED
  BY <1>1, <1>2, <1>3, <1>4, Zenon

\* What S has, T has under the same name and not later.
Covers(S, T) ==
  \A s \in S :
    /\ \E t \in T : Mark(t) = Mark(s)
    /\ s.delivered # 0 => \E t \in T : Mark(t) = Mark(s) /\ t.delivered # 0 /\ t.delivered <= s.delivered
    /\ s.read # 0 => \E t \in T : Mark(t) = Mark(s) /\ t.read # 0 /\ t.read <= s.read

\* The least of two sets is one, if each has something for what the other has.
LEMMA Least0Same ==
  ASSUME NEW A \in SUBSET Nat, NEW B \in SUBSET Nat,
         \A x \in A : x # 0 => \E y \in B : y # 0 /\ y <= x,
         \A x \in B : x # 0 => \E y \in A : y # 0 /\ y <= x
  PROVE  Least0(A) = Least0(B)
<1>1. /\ Least0(A) \in Nat
      /\ Least0(A) = 0 => A \subseteq {0}
      /\ Least0(A) # 0 => Least0(A) \in A
      /\ \A y \in A : y # 0 => Least0(A) <= y /\ Least0(A) # 0
  BY Least0Of
<1>2. /\ Least0(B) \in Nat
      /\ Least0(B) = 0 => B \subseteq {0}
      /\ Least0(B) # 0 => Least0(B) \in B
      /\ \A y \in B : y # 0 => Least0(B) <= y /\ Least0(B) # 0
  BY Least0Of
<1>3. PICK a : a = Least0(A)
  OBVIOUS
<1>4. PICK b : b = Least0(B)
  OBVIOUS
<1>5. a # 0 => b # 0 /\ b <= a
  BY <1>1, <1>2, <1>3, <1>4
<1>6. b # 0 => a # 0 /\ a <= b
  BY <1>1, <1>2, <1>3, <1>4
<1>7. a \in Nat /\ b \in Nat
  BY <1>1, <1>2, <1>3, <1>4
<1> QED
  BY <1>3, <1>4, <1>5, <1>6, <1>7

LEMMA EarliestSame ==
  ASSUME NEW S, NEW T, AllTimed(S), AllTimed(T), Covers(S, T), Covers(T, S)
  PROVE  Earliest(S) = Earliest(T)
<1>1. ASSUME NEW s \in S, NEW t \in T, Mark(s) = Mark(t) PROVE Combined(S, s) = Combined(T, t)
  <2>1. Least0(DeliveredOf(S, s)) = Least0(DeliveredOf(T, t))
    <3>1. \A x \in DeliveredOf(S, s) : x # 0 => \E y \in DeliveredOf(T, t) : y # 0 /\ y <= x
      BY <1>1 DEF DeliveredOf, Covers
    <3>2. \A x \in DeliveredOf(T, t) : x # 0 => \E y \in DeliveredOf(S, s) : y # 0 /\ y <= x
      BY <1>1 DEF DeliveredOf, Covers
    <3> QED
      BY <3>1, <3>2, EarliestIs, Least0Same
  <2>2. Least0(ReadOf(S, s)) = Least0(ReadOf(T, t))
    <3>1. \A x \in ReadOf(S, s) : x # 0 => \E y \in ReadOf(T, t) : y # 0 /\ y <= x
      BY <1>1 DEF ReadOf, Covers
    <3>2. \A x \in ReadOf(T, t) : x # 0 => \E y \in ReadOf(S, s) : y # 0 /\ y <= x
      BY <1>1 DEF ReadOf, Covers
    <3> QED
      BY <3>1, <3>2, EarliestIs, Least0Same
  <2>3. s.chat = t.chat /\ s.target = t.target /\ s.by = t.by
    BY <1>1 DEF Mark
  <2> QED
    BY <2>1, <2>2, <2>3 DEF Combined
<1>2. \A s \in S : \E t \in T : Mark(s) = Mark(t)
  BY DEF Covers
<1>3. \A t \in T : \E s \in S : Mark(s) = Mark(t)
  BY DEF Covers
<1>4. {Combined(S, s) : s \in S} = {Combined(T, t) : t \in T}
  BY <1>1, <1>2, <1>3
<1> QED
  BY <1>4, EarliestIs

LEMMA EarliestOf ==
  ASSUME NEW S, AllTimed(S)
  PROVE  Covers(S, Earliest(S)) /\ Covers(Earliest(S), S) /\ AllTimed(Earliest(S))
<1>1. /\ Earliest(S) = {Combined(S, x) : x \in S}
      /\ \A x \in S : DeliveredOf(S, x) \in SUBSET Nat /\ ReadOf(S, x) \in SUBSET Nat
      /\ \A x \in S : Mark(Combined(S, x)) = Mark(x) /\ IsTimed(Combined(S, x))
  BY EarliestIs
<1>2. AllTimed(Earliest(S))
  BY <1>1 DEF AllTimed
<1>3. \A x \in S : /\ Combined(S, x).delivered = Least0(DeliveredOf(S, x))
                   /\ Combined(S, x).read = Least0(ReadOf(S, x))
  BY DEF Combined
<1>4. ASSUME NEW x \in S
      PROVE  /\ x.delivered # 0 => /\ Least0(DeliveredOf(S, x)) # 0
                                   /\ Least0(DeliveredOf(S, x)) <= x.delivered
             /\ x.read # 0 => Least0(ReadOf(S, x)) # 0 /\ Least0(ReadOf(S, x)) <= x.read
             /\ Least0(DeliveredOf(S, x)) # 0 =>
                  \E y \in S : Mark(y) = Mark(x) /\ y.delivered = Least0(DeliveredOf(S, x))
             /\ Least0(ReadOf(S, x)) # 0 =>
                  \E y \in S : Mark(y) = Mark(x) /\ y.read = Least0(ReadOf(S, x))
  <2>1. x.delivered \in DeliveredOf(S, x) /\ x.read \in ReadOf(S, x)
    BY DEF DeliveredOf, ReadOf
  <2>2. /\ \A y \in DeliveredOf(S, x) : y # 0 => /\ Least0(DeliveredOf(S, x)) <= y
                                                 /\ Least0(DeliveredOf(S, x)) # 0
        /\ Least0(DeliveredOf(S, x)) # 0 => Least0(DeliveredOf(S, x)) \in DeliveredOf(S, x)
    BY <1>1, Least0Of
  <2>3. /\ \A y \in ReadOf(S, x) : y # 0 => Least0(ReadOf(S, x)) <= y /\ Least0(ReadOf(S, x)) # 0
        /\ Least0(ReadOf(S, x)) # 0 => Least0(ReadOf(S, x)) \in ReadOf(S, x)
    BY <1>1, Least0Of
  <2>4. \A y \in DeliveredOf(S, x) : \E z \in S : Mark(z) = Mark(x) /\ z.delivered = y
    BY DEF DeliveredOf
  <2>5. \A y \in ReadOf(S, x) : \E z \in S : Mark(z) = Mark(x) /\ z.read = y
    BY DEF ReadOf
  <2> QED
    BY <2>1, <2>2, <2>3, <2>4, <2>5
<1>5. ASSUME NEW x \in S
      PROVE  \E t \in Earliest(S) :
               /\ Mark(t) = Mark(x)
               /\ x.delivered # 0 => t.delivered # 0 /\ t.delivered <= x.delivered
               /\ x.read # 0 => t.read # 0 /\ t.read <= x.read
  BY <1>1, <1>3, <1>4
<1>6. ASSUME NEW t \in Earliest(S)
      PROVE  /\ \E y \in S : Mark(y) = Mark(t)
             /\ t.delivered # 0 => \E y \in S : Mark(y) = Mark(t) /\ y.delivered = t.delivered
             /\ t.read # 0 => \E y \in S : Mark(y) = Mark(t) /\ y.read = t.read
  <2>1. PICK x \in S : t = Combined(S, x)
    BY <1>1
  <2> QED
    BY <1>1, <1>3, <1>4, <2>1
<1>7. Covers(S, Earliest(S))
  BY <1>5 DEF Covers
<1>8. Covers(Earliest(S), S)
  <2>1. \A t \in Earliest(S) : t.delivered <= t.delivered /\ t.read <= t.read
    BY <1>2 DEF AllTimed, IsTimed
  <2> QED
    BY <1>6, <2>1 DEF Covers
<1> QED
  BY <1>2, <1>7, <1>8
---------------------------------------------------------------------------
(* Names of participants                                                   *)

LEMMA JidsAreNumbers == Jid \subseteq Nat /\ 0 \notin Jid
<1>1. PICK n : n = Cardinality(Jid)
  OBVIOUS
<1>2. Jid = 1..n /\ n \in Nat
  BY <1>1, ConversationsAssumption, FS_CardinalityType
<1> QED
  BY <1>2

LEMMA CanonicalOf ==
  ASSUME NEW links, NEW j \in Jid
  PROVE  Canonical(links, j) \in Linked(links, {j}) /\ Canonical(links, j) \in Jid
<1>1. j \in Linked(links, {j}) /\ Linked(links, {j}) \in SUBSET Jid
  BY LinkedHas
<1>2. Linked(links, {j}) \in SUBSET Nat
  BY <1>1, JidsAreNumbers
<1> QED
  BY <1>1, <1>2, LeastOf DEF Canonical

LEMMA LinkedEqual ==
  ASSUME NEW links \in SUBSET SUBSET Jid, NEW j \in Jid, NEW i \in Linked(links, {j})
  PROVE  Linked(links, {i}) = Linked(links, {j})
<1>1. j \in Linked(links, {i}) /\ i \in Jid
  BY LinkedIsSymmetric, LinkedHas
<1>2. Linked(links, {i}) \subseteq Linked(links, {j})
  BY LinkedIsTransitive
<1>3. Linked(links, {j}) \subseteq Linked(links, {i})
  BY <1>1, LinkedIsTransitive
<1> QED
  BY <1>2, <1>3

\* The name of a participant after p got another one
NewBy(links, p, n) == IF n \in Linked(links, {p}) THEN Canonical(links, p) ELSE n

OneMore(more, links, a, b) ==
  links \in SUBSET SUBSET Jid /\ a \in Jid /\ b \in Jid /\ more = links \cup {{a, b}}

\* It is enough to rename the participants that the new link concerns.
LEMMA NamesFollow ==
  ASSUME NEW links, NEW a, NEW b, NEW more, OneMore(more, links, a, b), NEW j \in Jid
  PROVE  NewBy(more, a, Canonical(links, j)) = Canonical(more, j)
<1>1. /\ links \in SUBSET SUBSET Jid /\ a \in Jid /\ b \in Jid /\ more = links \cup {{a, b}}
      /\ more \in SUBSET SUBSET Jid
  BY DEF OneMore
<1> DEFINE n == Canonical(links, j)
           C == Linked(links, {j})
<1>2. n \in C /\ n \in Jid /\ C \subseteq Linked(more, {j})
  BY <1>1, CanonicalOf, LinkedGrows
<1>3. Linked(more, {n}) = Linked(more, {j})
  BY <1>1, <1>2, LinkedEqual
<1> HIDE DEF n
<1>4. CASE n \in Linked(more, {a})
  <2>1. Linked(more, {n}) = Linked(more, {a})
    BY <1>1, <1>4, LinkedEqual
  <2> QED
    BY <1>3, <1>4, <2>1 DEF NewBy, n, Canonical
<1>5. CASE n \notin Linked(more, {a})
  <2>1. ClosedUnder(more, Linked(more, {j})) /\ ClosedUnder(links, C) /\ C \in SUBSET Jid /\ j \in C
    BY <1>1, LinkedIsClosed, LinkedHas
  <2>2. a \notin Linked(more, {j})
    <3>1. ASSUME a \in Linked(more, {j}) PROVE FALSE
      <4>1. Linked(more, {a}) = Linked(more, {j})
        BY <1>1, <3>1, LinkedEqual
      <4> QED
        BY <1>2, <1>5, <4>1
    <3> QED
      BY <3>1
  <2>3. {a, b} \cap Linked(more, {j}) = {}
    <3>1. {a, b} \in more /\ a \in {a, b}
      BY <1>1
    <3>2. {a, b} \cap Linked(more, {j}) # {} => {a, b} \subseteq Linked(more, {j})
      BY <2>1, <3>1 DEF ClosedUnder
    <3> QED
      BY <2>2, <3>1, <3>2
  <2>4. ClosedUnder(more, C)
    BY <1>1, <1>2, <2>1, <2>3 DEF ClosedUnder
  <2> HIDE DEF C
  <2>5. Linked(more, {j}) \subseteq C
    BY <1>1, <2>1, <2>4, LinkedIsLeast
  <2>6. Linked(more, {j}) = Linked(links, {j})
    BY <1>2, <2>5 DEF C
  <2> QED
    BY <1>5, <2>6 DEF NewBy, n, Canonical
<1> QED
  BY <1>4, <1>5

NewName(links, p, x) == IF x.by \in Linked(links, {p}) THEN [x EXCEPT !.by = Canonical(links, p)] ELSE x

LEMMA RenamedIs ==
  ASSUME NEW d, NEW S, NEW p
  PROVE  Renamed(d, S, p) = {NewName(d.links, p, x) : x \in S}
BY DEF Renamed, NewName

LEMMA NewNameRanked ==
  ASSUME NEW links, NEW p, NEW x, IsRanked(x)
  PROVE  NewName(links, p, x) = [chat |-> x.chat, target |-> x.target, by |-> NewBy(links, p, x.by),
                                 emoji |-> x.emoji, at |-> x.at, event |-> x.event]
<1>1. PICK c : c = Canonical(links, p)
  OBVIOUS
<1>2. PICK y : y = [x EXCEPT !.by = c]
  OBVIOUS
<1>3. y = [chat |-> x.chat, target |-> x.target, by |-> c, emoji |-> x.emoji, at |-> x.at, event |-> x.event]
  BY <1>2 DEF IsRanked
<1> QED
  BY <1>1, <1>2, <1>3 DEF NewName, NewBy, IsRanked

LEMMA NewNameTimed ==
  ASSUME NEW links, NEW p, NEW x, IsTimed(x)
  PROVE  NewName(links, p, x) = [chat |-> x.chat, target |-> x.target, by |-> NewBy(links, p, x.by),
                                 delivered |-> x.delivered, read |-> x.read]
<1>1. PICK c : c = Canonical(links, p)
  OBVIOUS
<1>2. PICK y : y = [x EXCEPT !.by = c]
  OBVIOUS
<1>3. y = [chat |-> x.chat, target |-> x.target, by |-> c, delivered |-> x.delivered, read |-> x.read]
  BY <1>2 DEF IsTimed
<1> QED
  BY <1>1, <1>2, <1>3 DEF NewName, NewBy, IsTimed

\* Renaming first and choosing then is the same as the other way round.
LEMMA TopsRenamed ==
  ASSUME NEW S, NEW T, AllRanked(S), AllRanked(T), Tops(S, T), NEW links, NEW p
  PROVE  /\ AllRanked({NewName(links, p, x) : x \in S})
         /\ Tops({NewName(links, p, x) : x \in S}, {NewName(links, p, x) : x \in T})
<1> DEFINE N(x) == NewName(links, p, x)
<1>1. ASSUME NEW x, IsRanked(x)
      PROVE  /\ IsRanked(N(x)) /\ N(x).at = x.at /\ N(x).emoji = x.emoji /\ N(x).event = x.event
             /\ Mark(N(x)) = <<x.chat, x.target, NewBy(links, p, x.by)>>
  <2>1. N(x) = [chat |-> x.chat, target |-> x.target, by |-> NewBy(links, p, x.by),
                emoji |-> x.emoji, at |-> x.at, event |-> x.event]
    BY <1>1, NewNameRanked
  <2> HIDE DEF N
  <2> QED
    BY <1>1, <2>1 DEF IsRanked, Mark
<1> HIDE DEF N
<1>2. \A x \in S : IsRanked(N(x)) /\ IsRanked(x)
  BY <1>1 DEF AllRanked
<1>3. \A x \in T : IsRanked(N(x)) /\ IsRanked(x)
  BY <1>1 DEF AllRanked
<1>4. ASSUME NEW s \in S
      PROVE  \E t \in T : Mark(N(t)) = Mark(N(s)) /\ (N(t) = N(s) \/ ReactionWins(N(t), N(s)))
  <2>1. PICK t \in T : Mark(t) = Mark(s) /\ (t = s \/ ReactionWins(t, s))
    BY DEF Tops
  <2>2. Mark(N(t)) = Mark(N(s))
    BY <1>1, <1>2, <1>3, <2>1 DEF Mark
  <2>3. ReactionWins(t, s) => ReactionWins(N(t), N(s))
    BY <1>1, <1>2, <1>3, WinsIs
  <2> QED
    BY <2>1, <2>2, <2>3
<1> QED
  BY <1>2, <1>4 DEF Tops, AllRanked, N

LEMMA CoversRenamed ==
  ASSUME NEW S, NEW T, AllTimed(S), AllTimed(T), Covers(S, T), NEW links, NEW p
  PROVE  /\ AllTimed({NewName(links, p, x) : x \in S})
         /\ Covers({NewName(links, p, x) : x \in S}, {NewName(links, p, x) : x \in T})
<1> DEFINE N(x) == NewName(links, p, x)
<1>1. ASSUME NEW x, IsTimed(x)
      PROVE  /\ IsTimed(N(x)) /\ N(x).delivered = x.delivered /\ N(x).read = x.read
             /\ Mark(N(x)) = <<x.chat, x.target, NewBy(links, p, x.by)>>
  <2>1. N(x) = [chat |-> x.chat, target |-> x.target, by |-> NewBy(links, p, x.by),
                delivered |-> x.delivered, read |-> x.read]
    BY <1>1, NewNameTimed
  <2> HIDE DEF N
  <2> QED
    BY <1>1, <2>1 DEF IsTimed, Mark
<1> HIDE DEF N
<1>2. \A x \in S : IsTimed(N(x)) /\ IsTimed(x)
  BY <1>1 DEF AllTimed
<1>3. \A x \in T : IsTimed(N(x)) /\ IsTimed(x)
  BY <1>1 DEF AllTimed
<1>4. \A s \in S, t \in T : Mark(t) = Mark(s) => Mark(N(t)) = Mark(N(s))
  BY <1>1, <1>2, <1>3 DEF Mark
<1>5. ASSUME NEW s \in S
      PROVE  /\ \E t \in T : Mark(N(t)) = Mark(N(s))
             /\ N(s).delivered # 0 => \E t \in T : /\ Mark(N(t)) = Mark(N(s))
                                                   /\ N(t).delivered # 0 /\ N(t).delivered <= N(s).delivered
             /\ N(s).read # 0 => \E t \in T : /\ Mark(N(t)) = Mark(N(s))
                                              /\ N(t).read # 0 /\ N(t).read <= N(s).read
  <2>1. /\ N(s).delivered = s.delivered /\ N(s).read = s.read
        /\ \A t \in T : /\ N(t).delivered = t.delivered /\ N(t).read = t.read
                        /\ Mark(t) = Mark(s) => Mark(N(t)) = Mark(N(s))
    BY <1>1, <1>4 DEF AllTimed
  <2>2. /\ \E t \in T : Mark(t) = Mark(s)
        /\ s.delivered # 0 => \E t \in T : Mark(t) = Mark(s) /\ t.delivered # 0 /\ t.delivered <= s.delivered
        /\ s.read # 0 => \E t \in T : Mark(t) = Mark(s) /\ t.read # 0 /\ t.read <= s.read
    BY <1>5 DEF Covers
  <2> QED
    BY <2>1, <2>2
<1> QED
  BY <1>2, <1>5 DEF Covers, AllTimed, N
---------------------------------------------------------------------------
(* The marks in the tables are those received                              *)

LEMMA RowsOfMarks ==
  ASSUME NEW d, NEW H, MarksKept(d, H)
  PROVE  LET R == {Reacted(f, Participant(d, f)) : f \in Marks(H, "reaction")}
             C == {Receipt(f, Participant(d, f)) : f \in Marks(H, "receipt")}
         IN  IsFiniteSet(R) /\ AllRanked(R) /\ AllTimed(C)
<1>1. IsFiniteSet({Reacted(f, Participant(d, f)) : f \in Marks(H, "reaction")})
  <2> DEFINE S == Marks(H, "reaction")
             R == {Reacted(f, Participant(d, f)) : f \in S}
             g == [f \in S |-> Reacted(f, Participant(d, f))]
  <2>1. g \in Surjection(S, R)
    BY DEF Surjection
  <2>2. IsFiniteSet(S)
    BY DEF MarksKept
  <2> HIDE DEF S, R, g
  <2>3. IsFiniteSet(R)
    BY <2>1, <2>2, FS_Surjection
  <2> QED
    BY <2>3 DEF R, S
<1>2. ASSUME NEW f \in Marks(H, "reaction") PROVE IsRanked(Reacted(f, Participant(d, f)))
  BY DEF MarksKept, IsReaction, IsRanked, Reacted
<1>3. ASSUME NEW f \in Marks(H, "receipt") PROVE IsTimed(Receipt(f, Participant(d, f)))
  BY DEF MarksKept, IsReceipt, IsTimed, Receipt
<1> QED
  BY <1>1, <1>2, <1>3 DEF AllRanked, AllTimed

\* A link renames the participants that it concerns, and nothing else is to be done.
LEMMA LinkedMarks ==
  ASSUME NEW d, NEW H, MarksKept(d, H), d.links \in SUBSET SUBSET Jid,
         NEW a \in Jid, NEW b \in Jid, NEW e, e.links = d.links \cup {{a, b}},
         e.reactions = Winners(Renamed(e, d.reactions, a)),
         e.receipts = Earliest(Renamed(e, d.receipts, a)), e.changes = d.changes
  PROVE  MarksKept(e, H)
<1>0. PICK k, l : k = d.links /\ l = e.links
  OBVIOUS
<1> DEFINE R == {Reacted(f, Participant(d, f)) : f \in Marks(H, "reaction")}
           C == {Receipt(f, Participant(d, f)) : f \in Marks(H, "receipt")}
           Q == {Reacted(f, Participant(e, f)) : f \in Marks(H, "reaction")}
           B == {Receipt(f, Participant(e, f)) : f \in Marks(H, "receipt")}
<1>1. IsFiniteSet(R) /\ AllRanked(R) /\ AllTimed(C)
  BY RowsOfMarks
<1>2. ASSUME NEW f, f.by \in Name PROVE NewBy(l, a, Participant(d, f)) = Participant(e, f)
  <2>1. CASE f.by = 0
    <3>1. 0 \notin Linked(l, {a})
      BY LinkedHas, JidsAreNumbers
    <3> QED
      BY <2>1, <3>1 DEF Participant, NewBy
  <2>2. CASE f.by # 0
    <3>1. PICK j : j = f.by
      OBVIOUS
    <3>2. j \in Jid
      BY <1>2, <2>2, <3>1 DEF Name
    <3>3. OneMore(l, k, a, b)
      BY <1>0 DEF OneMore
    <3>4. NewBy(l, a, Canonical(k, j)) = Canonical(l, j)
      BY <3>2, <3>3, NamesFollow
    <3> QED
      BY <1>0, <2>2, <3>1, <3>4 DEF Participant
  <2> QED
    BY <2>1, <2>2
<1>3. {NewName(l, a, x) : x \in R} = Q
  <2>1. ASSUME NEW f \in Marks(H, "reaction")
        PROVE  NewName(l, a, Reacted(f, Participant(d, f))) = Reacted(f, Participant(e, f))
    <3>1. PICK x : x = Reacted(f, Participant(d, f))
      OBVIOUS
    <3>2. IsRanked(x) /\ f.by \in Name
      BY <1>1, <3>1 DEF AllRanked, MarksKept, IsReaction
    <3>3. NewName(l, a, x) = [chat |-> x.chat, target |-> x.target, by |-> NewBy(l, a, x.by),
                  emoji |-> x.emoji, at |-> x.at, event |-> x.event]
      BY <3>2, NewNameRanked
    <3>4. NewBy(l, a, x.by) = Participant(e, f)
      BY <1>2, <3>1, <3>2 DEF Reacted
    <3> QED
      BY <3>1, <3>3, <3>4 DEF Reacted
  <2> QED
    BY <2>1
<1>4. {NewName(l, a, x) : x \in C} = B
  <2>1. ASSUME NEW f \in Marks(H, "receipt")
        PROVE  NewName(l, a, Receipt(f, Participant(d, f))) = Receipt(f, Participant(e, f))
    <3>1. PICK x : x = Receipt(f, Participant(d, f))
      OBVIOUS
    <3>2. IsTimed(x) /\ f.by \in Name
      BY <1>1, <3>1 DEF AllTimed, MarksKept, IsReceipt, Name
    <3>3. NewName(l, a, x) = [chat |-> x.chat, target |-> x.target, by |-> NewBy(l, a, x.by),
                  delivered |-> x.delivered, read |-> x.read]
      BY <3>2, NewNameTimed
    <3>4. NewBy(l, a, x.by) = Participant(e, f)
      BY <1>2, <3>1, <3>2 DEF Receipt
    <3> QED
      BY <3>1, <3>3, <3>4 DEF Receipt
  <2> QED
    BY <2>1
<1>5. d.reactions = Winners(R) /\ d.receipts = Earliest(C)
  BY DEF MarksKept
<1>6. Renamed(e, d.reactions, a) = {NewName(l, a, x) : x \in Winners(R)}
  <2>1. Renamed(e, d.reactions, a) = {NewName(e.links, a, x) : x \in d.reactions}
    BY RenamedIs
  <2> QED
    BY <1>0, <1>5, <2>1
<1>7. Renamed(e, d.receipts, a) = {NewName(l, a, x) : x \in Earliest(C)}
  <2>1. Renamed(e, d.receipts, a) = {NewName(e.links, a, x) : x \in d.receipts}
    BY RenamedIs
  <2> QED
    BY <1>0, <1>5, <2>1
<1> HIDE DEF R, C, Q, B
<1>8. e.reactions = Winners(Q)
  <2>1. Tops(R, Winners(R)) /\ Tops(Winners(R), R) /\ AllRanked(Winners(R))
    BY <1>1, WinnerOf
  <2>2. AllRanked(Q) /\ Tops(Q, {NewName(l, a, x) : x \in Winners(R)})
    BY <1>1, <1>3, <2>1, TopsRenamed
  <2>3. AllRanked({NewName(l, a, x) : x \in Winners(R)}) /\ Tops({NewName(l, a, x) : x \in Winners(R)}, Q)
    BY <1>1, <1>3, <2>1, TopsRenamed
  <2> QED
    BY <1>6, <2>2, <2>3, WinnersSame
<1>9. e.receipts = Earliest(B)
  <2>1. Covers(C, Earliest(C)) /\ Covers(Earliest(C), C) /\ AllTimed(Earliest(C))
    BY <1>1, EarliestOf
  <2>2. AllTimed(B) /\ Covers(B, {NewName(l, a, x) : x \in Earliest(C)})
    BY <1>1, <1>4, <2>1, CoversRenamed
  <2>3. AllTimed({NewName(l, a, x) : x \in Earliest(C)}) /\ Covers({NewName(l, a, x) : x \in Earliest(C)}, B)
    BY <1>1, <1>4, <2>1, CoversRenamed
  <2> QED
    BY <1>7, <2>2, <2>3, EarliestSame
<1> QED
  BY <1>8, <1>9 DEF MarksKept, Q, B

LEMMA ReactionKept ==
  ASSUME NEW d, NEW H, MarksKept(d, H), NEW x, IsReaction(x),
         NEW e, e.links = d.links, e.receipts = d.receipts, e.changes = d.changes,
         e.reactions = Winners(d.reactions \cup {Reacted(x, Participant(d, x))})
  PROVE  MarksKept(e, H \cup {x})
<1> DEFINE R == {Reacted(f, Participant(d, f)) : f \in Marks(H, "reaction")}
           new == {Reacted(x, Participant(d, x))}
<1>1. IsFiniteSet(R) /\ AllRanked(R)
  BY RowsOfMarks
<1>2. \A f : Participant(e, f) = Participant(d, f)
  BY DEF Participant
<1>3. x.type = "reaction"
  BY DEF IsReaction
<1>4. /\ Marks(H \cup {x}, "reaction") = Marks(H, "reaction") \cup {x}
      /\ Marks(H \cup {x}, "receipt") = Marks(H, "receipt")
      /\ Marks(H \cup {x}, "change") = Marks(H, "change")
  BY <1>3 DEF Marks
<1>5. {Reacted(f, Participant(e, f)) : f \in Marks(H \cup {x}, "reaction")} = R \cup new
  <2>1. {Reacted(f, Participant(e, f)) : f \in Marks(H \cup {x}, "reaction")}
          = {Reacted(f, Participant(d, f)) : f \in Marks(H, "reaction") \cup {x}}
    BY <1>2, <1>4
  <2> QED
    BY <2>1
<1>6. AllRanked(new)
  BY DEF IsReaction, IsRanked, Reacted, AllRanked
<1>7. d.reactions = Winners(R)
  BY DEF MarksKept
<1> HIDE DEF R, new
<1>8. Tops(R, Winners(R)) /\ Tops(Winners(R), R) /\ AllRanked(Winners(R))
  BY <1>1, WinnerOf
<1>9. /\ Tops(R \cup new, Winners(R) \cup new) /\ Tops(Winners(R) \cup new, R \cup new)
      /\ AllRanked(R \cup new) /\ AllRanked(Winners(R) \cup new)
  BY <1>1, <1>6, <1>8 DEF Tops, AllRanked
<1>10. e.reactions = Winners(R \cup new)
  BY <1>7, <1>9, WinnersSame DEF new
<1>11. IsFiniteSet(Marks(H \cup {x}, "reaction"))
  <2>1. IsFiniteSet(Marks(H, "reaction"))
    BY DEF MarksKept
  <2> QED
    BY <1>4, <2>1, FS_AddElement
<1>12. \A f \in Marks(H \cup {x}, "reaction") : IsReaction(f)
  BY <1>4 DEF MarksKept
<1> QED
  BY <1>2, <1>4, <1>5, <1>10, <1>11, <1>12 DEF MarksKept

LEMMA ReceiptKept ==
  ASSUME NEW d, NEW H, MarksKept(d, H), NEW x, IsReceipt(x),
         NEW e, e.links = d.links, e.reactions = d.reactions, e.changes = d.changes,
         e.receipts = Earliest(d.receipts \cup {Receipt(x, Participant(d, x))})
  PROVE  MarksKept(e, H \cup {x})
<1> DEFINE R == {Receipt(f, Participant(d, f)) : f \in Marks(H, "receipt")}
           new == {Receipt(x, Participant(d, x))}
<1>1. AllTimed(R)
  BY RowsOfMarks
<1>2. \A f : Participant(e, f) = Participant(d, f)
  BY DEF Participant
<1>3. x.type = "receipt"
  BY DEF IsReceipt
<1>4. /\ Marks(H \cup {x}, "receipt") = Marks(H, "receipt") \cup {x}
      /\ Marks(H \cup {x}, "reaction") = Marks(H, "reaction")
      /\ Marks(H \cup {x}, "change") = Marks(H, "change")
  BY <1>3 DEF Marks
<1>5. {Receipt(f, Participant(e, f)) : f \in Marks(H \cup {x}, "receipt")} = R \cup new
  BY <1>2, <1>4
<1>6. AllTimed(new)
  BY DEF IsReceipt, IsTimed, Receipt, AllTimed
<1>7. d.receipts = Earliest(R)
  BY DEF MarksKept
<1> HIDE DEF R, new
<1>8. Covers(R, Earliest(R)) /\ Covers(Earliest(R), R) /\ AllTimed(Earliest(R))
  BY <1>1, EarliestOf
<1>9. AllTimed(R \cup new) /\ AllTimed(Earliest(R) \cup new)
  BY <1>1, <1>6, <1>8 DEF AllTimed
<1>10. Covers(new, new)
  <2>1. \A y \in new : y.delivered \in Nat /\ y.read \in Nat
    BY <1>6 DEF AllTimed, IsTimed
  <2>2. \A y \in new : y.delivered <= y.delivered /\ y.read <= y.read
    BY <2>1
  <2> QED
    BY <2>2 DEF Covers
<1>11. Covers(R \cup new, Earliest(R) \cup new) /\ Covers(Earliest(R) \cup new, R \cup new)
  BY <1>8, <1>10 DEF Covers
<1>12. e.receipts = Earliest(R \cup new)
  BY <1>7, <1>9, <1>11, EarliestSame DEF new
<1>13. \A f \in Marks(H \cup {x}, "receipt") : IsReceipt(f)
  BY <1>4 DEF MarksKept
<1> QED
  BY <1>2, <1>4, <1>5, <1>12, <1>13 DEF MarksKept

LEMMA ChangeKept ==
  ASSUME NEW d, NEW H, MarksKept(d, H), NEW x, IsChange(x),
         NEW e, e.links = d.links, e.reactions = d.reactions, e.receipts = d.receipts,
         e.changes = d.changes \cup {Changed(x)}
  PROVE  MarksKept(e, H \cup {x})
<1>1. \A f : Participant(e, f) = Participant(d, f)
  BY DEF Participant
<1>2. x.type = "change"
  BY DEF IsChange
<1>3. /\ Marks(H \cup {x}, "change") = Marks(H, "change") \cup {x}
      /\ Marks(H \cup {x}, "reaction") = Marks(H, "reaction")
      /\ Marks(H \cup {x}, "receipt") = Marks(H, "receipt")
  BY <1>2 DEF Marks
<1>4. e.changes = {Changed(f) : f \in Marks(H \cup {x}, "change")}
  BY <1>3 DEF MarksKept
<1>5. \A f \in Marks(H \cup {x}, "change") : IsChange(f)
  BY <1>3 DEF MarksKept
<1> QED
  BY <1>1, <1>3, <1>4, <1>5 DEF MarksKept
---------------------------------------------------------------------------
(* Links                                                                   *)

\* Of what is taken in, rows are about messages, reservations and marks as read.
LEMMA RowsOKMore ==
  ASSUME NEW d, NEW H, RowsOK(d, H), NEW X, \A f \in X : f.type \notin {"message", "reserve", "seen"}
  PROVE  RowsOK(d, H \cup X)
<1>1. RowsHeld(d, H \cup X)
  <2>1. Sent(H) \subseteq Sent(H \cup X)
    BY DEF Sent
  <2>2. \A f \in H \cup X : f.type \in {"message", "reserve"} => f \in H
    OBVIOUS
  <2> QED
    BY <2>1, <2>2 DEF RowsOK, RowsHeld
<1>2. SeenHeld(d, H \cup X)
  <2>1. \A f \in H \cup X : f.type = "seen" => f \in H
    OBVIOUS
  <2>2. ASSUME NEW y \in H \cup X, NEW r, MarksRow(d, y, r) PROVE y \in H
    BY <2>1, <2>2 DEF MarksRow
  <2> QED
    BY <2>1, <2>2 DEF RowsOK, SeenHeld
<1> QED
  BY <1>1, <1>2 DEF RowsOK

LEMMA RowsOKInSame ==
  ASSUME NEW d, NEW H, RowsOK(d, H), NEW e, TablesTyped(e),
         e.alias = d.alias, e.rows = d.rows, e.keys = d.keys
  PROVE  RowsOK(e, H)
<1>1. Conversations(e) = Conversations(d)
  BY DEF Conversations
<1>2. RowsTyped(e)
  BY <1>1 DEF RowsOK, RowsTyped
<1>3. KeysTyped(e)
  BY DEF RowsOK, KeysTyped
<1>4. RowsHeld(e, H)
  BY DEF RowsOK, RowsHeld
<1>5. SeenHeld(e, H)
  BY DEF RowsOK, SeenHeld, MarksRow
<1> QED
  BY <1>2, <1>3, <1>4, <1>5 DEF RowsOK

\* The database after the link {a, b} is taken and the participants are renamed
LinkedDb(d, a, b) == MergeParticipants([d EXCEPT !.links = @ \cup {{a, b}}], a)

LEMMA LinkedDbKeeps ==
  ASSUME NEW d, TablesTyped(d), NEW a \in Jid, NEW b \in Jid
  PROVE  LET e == LinkedDb(d, a, b)
         IN  /\ TablesTyped(e) /\ e.links = d.links \cup {{a, b}}
             /\ e.alias = d.alias /\ e.rows = d.rows /\ e.keys = d.keys /\ e.last = d.last
             /\ e.reactions = Winners(Renamed(e, d.reactions, a))
             /\ e.receipts = Earliest(Renamed(e, d.receipts, a)) /\ e.changes = d.changes
<1>1. PICK f : f = [d EXCEPT !.links = @ \cup {{a, b}}]
  OBVIOUS
<1>2. f = [links |-> d.links \cup {{a, b}}, alias |-> d.alias, rows |-> d.rows, keys |-> d.keys,
           last |-> d.last, reactions |-> d.reactions, receipts |-> d.receipts,
           changes |-> d.changes]
  BY <1>1 DEF TablesTyped
<1>3. TablesTyped(f)
  BY <1>2 DEF TablesTyped
<1>4. PICK reactions, receipts :
        /\ MergeParticipants(f, a) = [f EXCEPT !.reactions = reactions, !.receipts = receipts]
        /\ reactions = Winners(Renamed(f, f.reactions, a))
        /\ receipts = Earliest(Renamed(f, f.receipts, a))
  BY DEF MergeParticipants
<1>5. PICK g : g = [f EXCEPT !.reactions = reactions, !.receipts = receipts]
  OBVIOUS
<1>6. g = [links |-> f.links, alias |-> f.alias, rows |-> f.rows, keys |-> f.keys,
           last |-> f.last, reactions |-> reactions, receipts |-> receipts,
           changes |-> f.changes]
  BY <1>3, <1>5 DEF TablesTyped
<1>7. TablesTyped(g)
  BY <1>3, <1>6 DEF TablesTyped
<1>8. LinkedDb(d, a, b) = g
  BY <1>1, <1>4, <1>5 DEF LinkedDb
<1>9. \A S : Renamed(f, S, a) = Renamed(g, S, a)
  BY <1>6 DEF Renamed
<1>10. /\ g.reactions = Winners(Renamed(g, d.reactions, a))
       /\ g.receipts = Earliest(Renamed(g, d.receipts, a)) /\ g.changes = d.changes
  BY <1>2, <1>4, <1>6, <1>9
<1> QED
  BY <1>2, <1>6, <1>7, <1>8, <1>10

LEMMA LinkFactIs ==
  ASSUME NEW a \in Jid, NEW b \in Jid, a # b, NEW via
  PROVE  LinkFact(a, b, via) = {[type |-> "link", jids |-> {a, b}, via |-> via]}
<1>1. a # 0 /\ b # 0
  <2>1. PICK n : n = Cardinality(Jid)
    OBVIOUS
  <2>2. Jid = 1..n /\ n \in Nat
    BY <2>1, ConversationsAssumption, FS_CardinalityType
  <2> QED
    BY <2>2
<1> QED
  BY <1>1 DEF LinkFact

LEMMA AliasesSame ==
  ASSUME NEW d, NEW H, AliasesHeld(d, H), NEW e, e.alias = d.alias, NEW K, Group(K) = Group(H)
  PROVE  AliasesHeld(e, K)
<1>1. PICK g : g = Group(H)
  OBVIOUS
<1>2. Group(H) = g /\ Group(K) = g
  BY <1>1
<1> QED
  BY <1>2 DEF AliasesHeld

LEMMA GroupSame ==
  ASSUME NEW H, NEW f, f.type \notin {"link", "chat"}
  PROVE  Group(H \cup {f}) = Group(H)
BY DEF Group

LEMMA GroupMore ==
  ASSUME NEW H, NEW f, f.type \in {"link", "chat"}
  PROVE  Group(H \cup {f}) = Group(H) \cup {f.jids}
BY DEF Group

LEMMA LinksMore ==
  ASSUME NEW H, NEW f
  PROVE  Links(H \cup {f}) = IF f.type = "link" THEN Links(H) \cup {f.jids} ELSE Links(H)
BY DEF Links

\* addChatLinkTx
LEMMA AddLinkHeld ==
  ASSUME NEW d, NEW H, Held(d, H), NEW a \in Name, NEW b \in Name, NEW via
  PROVE  Held(AddLink(d, a, b), H \cup LinkFact(a, b, via)) /\ KeepsNewest(d, AddLink(d, a, b))
<1>1. CASE a = 0 \/ b = 0 \/ a = b
  <2>1. LinkFact(a, b, via) = {} /\ AddLink(d, a, b) = d /\ H \cup {} = H
    BY <1>1 DEF LinkFact, AddLink
  <2> QED
    BY <2>1 DEF KeepsNewest
<1>2. CASE ~(a = 0 \/ b = 0 \/ a = b)
  <2> DEFINE fact   == [type |-> "link", jids |-> {a, b}, via |-> via]
             more   == {fact}
             linked == LinkedDb(d, a, b)
             joined == EnsureConversation(linked, a, {b})
  <2>1. a \in Jid /\ b \in Jid /\ a # b /\ LinkFact(a, b, via) = more
    BY <1>2, LinkFactIs DEF Name
  <2>2. AddLink(d, a, b) = IF d.alias[a] = 0 /\ d.alias[b] = 0 THEN linked
                           ELSE Refresh(joined, joined.alias[a])
    BY <1>2 DEF AddLink, LinkedDb
  <2>3. /\ TablesTyped(linked) /\ linked.links = d.links \cup {{a, b}}
        /\ linked.alias = d.alias /\ linked.rows = d.rows /\ linked.keys = d.keys
        /\ linked.last = d.last
    BY <2>1, LinkedDbKeeps DEF Held
  <2>4. RowsOK(d, H) /\ AliasesHeld(d, H) /\ ChatsHeld(d, H) /\ d.links = Links(H)
    BY LinkedHolds
  <2>15. MarksKept(linked, H)
    <3>1. /\ linked.reactions = Winners(Renamed(linked, d.reactions, a))
          /\ linked.receipts = Earliest(Renamed(linked, d.receipts, a)) /\ linked.changes = d.changes
      BY <2>1, LinkedDbKeeps DEF Held
    <3>2. d.links \in SUBSET SUBSET Jid /\ MarksKept(d, H)
      BY LinkedHolds DEF Held, TablesTyped
    <3> HIDE DEF linked
    <3> QED
      BY <2>1, <2>3, <3>1, <3>2, LinkedMarks
  <2> HIDE DEF linked
  <2>14. KeepsNewest(d, linked)
    BY <2>3, SameKeepsNewest DEF Held
  <2>5. fact.type = "link" /\ fact.jids = {a, b}
    OBVIOUS
  <2> HIDE DEF fact
  <2>16. MarksKept(linked, H \cup more)
    BY <2>5, <2>15, MarksMore
  <2>6. RowsOK(linked, H \cup more)
    <3>1. RowsOK(d, H \cup more)
      BY <2>4, <2>5, RowsOKMore
    <3> QED
      BY <2>3, <3>1, RowsOKInSame
  <2>7. Links(H) \subseteq linked.links /\ linked.links = Links(H \cup more)
    <3>1. Links(H \cup more) = Links(H) \cup {fact.jids}
      BY <2>5, LinksMore
    <3> HIDE DEF more
    <3> QED
      BY <2>3, <2>4, <2>5, <3>1
  <2>8. AliasesHeld(linked, H) /\ ChatsHeld(linked, H)
    BY <2>3, <2>4 DEF AliasesHeld, ChatsHeld
  <2>9. {a, b} \in Group(H \cup more) /\ Group(H \cup more) = Group(H) \cup {{a, b}}
    BY <2>5, GroupMore
  <2>10. Group(H \cup more) \in SUBSET SUBSET Jid
    <3>1. Group(H) \in SUBSET SUBSET Jid
      <4>1. d.links \subseteq SUBSET Jid
        BY DEF Held, TablesTyped
      <4> QED
        BY <2>4, <4>1, GroupsTyped
    <3> HIDE DEF more
    <3> QED
      BY <2>1, <2>9, <3>1
  <2> DEFINE G == Group(H \cup more)
  <2> HIDE DEF G
  <2>11. \A S : Linked(Group(H), S) \subseteq Linked(G, S)
    BY <2>9, LinkedGrows DEF G
  <2>12. CASE d.alias[a] = 0 /\ d.alias[b] = 0
    <3>1. \A l \in G : \A i, j \in l : linked.alias[i] = linked.alias[j]
      BY <2>3, <2>8, <2>9, <2>12 DEF AliasesHeld, G
    <3>2. \A i, j \in Jid : linked.alias[i] # 0 /\ linked.alias[i] = linked.alias[j]
            => j \in Linked(G, {i})
      BY <2>8, <2>11 DEF AliasesHeld
    <3>3. LinksHeld(linked, H \cup more)
      BY <2>5, <2>7, <2>8 DEF LinksHeld, ChatsHeld, Links
    <3> QED
      <4>1. AliasesHeld(linked, H \cup more)
        BY <3>1, <3>2 DEF AliasesHeld, G
      <4>2. Held(linked, H \cup more)
        BY <2>6, <2>16, <3>3, <4>1 DEF Held, RowsOK
      <4> QED
        BY <2>1, <2>2, <2>12, <2>14, <4>2
  <2>13. CASE ~(d.alias[a] = 0 /\ d.alias[b] = 0)
    <3>1. Joins(more, linked, {a} \cup {b})
      <4>1. {a} \cup {b} \subseteq Linked(linked.links, {a} \cup {b})
        BY <2>1, LinkedHas
      <4> QED
        BY <2>5, <4>1 DEF Joins
    <3>2. OneGroup(G, a, {a} \cup {b})
      <4>1. a \in Linked(G, {a}) /\ ClosedUnder(G, Linked(G, {a}))
        BY <2>1, <2>10, LinkedHas, LinkedIsClosed DEF G
      <4>2. b \in Linked(G, {a})
        BY <2>9, <4>1 DEF ClosedUnder, G
      <4> QED
        BY <4>1, <4>2 DEF OneGroup
    <3>3. {b} \in SUBSET Jid
      BY <2>1
    <3> HIDE DEF fact, more
    <3>4. Held(joined, H \cup more) /\ KeepsNewest(linked, joined)
      <4>1. Ensurable(linked, H, more, a, {b})
        BY <2>1, <2>6, <2>7, <2>8, <2>16, <3>1, <3>2, <3>3 DEF Ensurable, G
      <4> QED
        BY <4>1, EnsureHeld DEF joined
    <3> HIDE DEF joined
    <3>5. KeepsNewest(joined, Refresh(joined, joined.alias[a]))
      BY <3>4, RefreshKeepsNewest
    <3>6. KeepsNewest(d, Refresh(joined, joined.alias[a]))
      BY <2>14, <3>4, <3>5 DEF KeepsNewest
    <3> QED
      BY <2>1, <2>2, <2>13, <3>4, <3>6, HeldRefreshed
  <2> QED
    BY <2>12, <2>13
<1> QED
  BY <1>1, <1>2

---------------------------------------------------------------------------
(* Messages                                                                *)

\* q is r with another state, time or order.
SameMessage(q, r) ==
  IsRow(q) /\ q.id = r.id /\ q.conv = r.conv /\ q.pid = r.pid /\ q.dir = r.dir /\ q.seen = r.seen

\* Some rows have another state, time or order.
Rewrites(d, e) ==
  /\ TablesTyped(e) /\ SameMarks(d, e) /\ e.alias = d.alias /\ e.keys = d.keys
  /\ \A r \in d.rows : \E q \in e.rows : SameMessage(q, r)
  /\ \A q \in e.rows : \E r \in d.rows : SameMessage(q, r)
  /\ \A q, s \in e.rows : q.id = s.id => q = s

LEMMA RewrittenHeld ==
  ASSUME NEW d, NEW H, Held(d, H), NEW e, Rewrites(d, e)
  PROVE  Held(e, H)
<1>1. Conversations(e) = Conversations(d)
  BY DEF Conversations, Rewrites
<1>2. RowsTyped(e)
  <2>1. ASSUME NEW q \in e.rows PROVE IsRow(q) /\ q.conv \in Conversations(e)
    BY <1>1 DEF Held, RowsTyped, Rewrites, SameMessage
  <2>2. ASSUME NEW q \in e.rows, NEW s \in e.rows, q.pid = s.pid,
               q.conv = s.conv \/ (q.dir = "out" /\ s.dir = "out")
        PROVE  q = s
    <3>1. PICK r \in d.rows : SameMessage(q, r)
      BY DEF Rewrites
    <3>2. PICK t \in d.rows : SameMessage(s, t)
      BY DEF Rewrites
    <3>3. r = t
      BY <2>2, <3>1, <3>2 DEF SameMessage, Held, RowsTyped
    <3> QED
      BY <3>1, <3>2, <3>3 DEF SameMessage, Rewrites
  <2> QED
    BY <2>1, <2>2 DEF RowsTyped, Rewrites
<1>3. KeysTyped(e)
  BY DEF Held, KeysTyped, Rewrites, SameMessage
<1>4. LinksHeld(e, H) /\ AliasesHeld(e, H)
  BY DEF Held, LinksHeld, AliasesHeld, Rewrites, SameMarks
<1>5. RowsHeld(e, H)
  <2>1. \A q \in e.rows : \E f \in Sent(H) : f.chat \in Jid /\ f.pid = q.pid /\ e.alias[f.chat] = q.conv
    BY DEF Held, RowsHeld, Rewrites, SameMessage
  <2>2. ASSUME NEW f \in H, f.type = "message"
        PROVE  \E r \in e.rows : r.pid = f.pid /\ (f.dir = "in" => f.chat \in Jid /\ r.conv = e.alias[f.chat])
    BY <2>2 DEF Held, RowsHeld, Rewrites, SameMessage
  <2>3. ASSUME NEW f \in H, f.type = "reserve"
        PROVE  \E k \in e.keys, r \in e.rows :
                 k.key = f.key /\ k.row = r.id /\ r.pid = f.pid /\ r.dir = "out"
    <3>1. PICK k \in d.keys, r \in d.rows :
                 k.key = f.key /\ k.row = r.id /\ r.pid = f.pid /\ r.dir = "out"
      BY <2>3 DEF Held, RowsHeld
    <3>2. PICK q \in e.rows : SameMessage(q, r)
      BY DEF Rewrites
    <3> QED
      BY <3>1, <3>2 DEF SameMessage, Rewrites
  <2> QED
    BY <2>1, <2>2, <2>3 DEF RowsHeld
<1>6. SeenHeld(e, H)
  <2>1. ASSUME NEW q, NEW r, SameMessage(q, r), NEW y PROVE MarksRow(e, y, q) <=> MarksRow(d, y, r)
    BY <2>1 DEF SameMessage, MarksRow, Rewrites
  <2>2. ASSUME NEW y \in H, y.type = "seen"
        PROVE  y.chat \in Jid /\ y.at \in Nat \ {0} /\ \E q \in e.rows : MarksRow(e, y, q)
    <3>1. PICK r \in d.rows : MarksRow(d, y, r)
      BY <2>2 DEF Held, SeenHeld
    <3>2. PICK q \in e.rows : SameMessage(q, r)
      BY DEF Rewrites
    <3> QED
      BY <2>1, <2>2, <3>1, <3>2 DEF Held, SeenHeld
  <2>3. ASSUME NEW q \in e.rows
        PROVE  /\ q.seen = 0 => \A y \in H : ~MarksRow(e, y, q)
               /\ q.seen # 0 => \E y \in H : MarksRow(e, y, q) /\ y.at = q.seen
               /\ \A y \in H : MarksRow(e, y, q) => q.seen <= y.at
    <3>1. PICK r \in d.rows : SameMessage(q, r)
      BY DEF Rewrites
    <3>2. q.seen = r.seen
      BY <3>1 DEF SameMessage
    <3> QED
      BY <2>1, <3>1, <3>2 DEF Held, SeenHeld
  <2> QED
    BY <2>2, <2>3 DEF SeenHeld
<1>7. MarksKept(e, H)
  BY MarksInSame DEF Held, Rewrites
<1> QED
  BY <1>2, <1>3, <1>4, <1>5, <1>6, <1>7 DEF Held, Rewrites

\* A message is taken in that is in the tables already.
LEMMA MessageHeld ==
  ASSUME NEW d, NEW H, Held(d, H), NEW m, IsMessage(m),
         NEW r \in d.rows, r.pid = m.pid, m.dir = "in" => r.conv = d.alias[m.chat]
  PROVE  Held(d, H \cup {m})
<1>0. m.type = "message" /\ m.chat \in Jid
  BY DEF IsMessage
<1>1. Group(H \cup {m}) = Group(H)
  BY <1>0 DEF Group
<1>2. LinksHeld(d, H \cup {m}) /\ AliasesHeld(d, H \cup {m})
  BY <1>0, <1>1 DEF Held, LinksHeld, AliasesHeld
<1>3. RowsHeld(d, H \cup {m})
  <2>1. Sent(H) \subseteq Sent(H \cup {m})
    BY DEF Sent
  <2> QED
    BY <1>0, <2>1 DEF Held, RowsHeld
<1>4. SeenHeld(d, H \cup {m})
  BY <1>0 DEF Held, SeenHeld, MarksRow
<1>5. MarksKept(d, H \cup {m})
  BY <1>0, MarksMore DEF Held
<1> QED
  BY <1>2, <1>3, <1>4, <1>5 DEF Held

\* One row is written again.
LEMMA RowRewritten ==
  ASSUME NEW d, NEW H, Held(d, H), NEW r \in d.rows, NEW q, SameMessage(q, r),
         NEW e, e = [d EXCEPT !.rows = (@ \ {r}) \cup {q}]
  PROVE  Held(e, H) /\ e.rows = (d.rows \ {r}) \cup {q} /\ e.alias = d.alias
         /\ e.links = d.links /\ Touches(d, e, r.conv)
<1>1. e = [links |-> d.links, alias |-> d.alias, rows |-> (d.rows \ {r}) \cup {q}, keys |-> d.keys,
           last |-> d.last, reactions |-> d.reactions, receipts |-> d.receipts,
           changes |-> d.changes]
  BY DEF Held, TablesTyped
<1>2. e.links = d.links /\ e.alias = d.alias /\ e.keys = d.keys
      /\ e.rows = (d.rows \ {r}) \cup {q}
  BY <1>1
<1>3. TablesTyped(e)
  <2>1. IsFiniteSet(e.rows)
    <3>1. IsFiniteSet(d.rows \ {r})
      BY FS_Subset DEF Held, TablesTyped
    <3> QED
      BY <1>2, <3>1, FS_AddElement
  <2> QED
    BY <1>1, <2>1 DEF Held, TablesTyped
<1>4. Rewrites(d, e)
  <2>1. \A s \in d.rows : SameMessage(s, s)
    BY DEF SameMessage, Held, RowsTyped
  <2>2. \A s \in e.rows : s = q \/ (s \in d.rows /\ s # r)
    BY <1>2
  <2>3. \A s \in d.rows : s = r \/ s \in e.rows
    BY <1>2
  <2>4. \A s, t \in e.rows : s.id = t.id => s = t
    BY <2>2 DEF SameMessage, Held, RowsTyped
  <2>5. SameMarks(d, e)
    BY <1>1 DEF SameMarks
  <2> QED
    BY <1>2, <1>3, <2>1, <2>2, <2>3, <2>4, <2>5 DEF Rewrites
<1>5. Touches(d, e, r.conv)
  <2>1. e.last = d.last
    BY <1>1
  <2>2. ASSUME NEW x, x # r.conv PROVE RowsIn(e, x) = RowsIn(d, x)
    BY <1>2, <2>2 DEF RowsIn, SameMessage
  <2> QED
    BY <1>2, <2>1, <2>2, OneTouched
<1> QED
  BY <1>2, <1>4, <1>5, RewrittenHeld

LEMMA NewRowIsFree ==
  ASSUME NEW d, TablesTyped(d), RowsTyped(d)
  PROVE  NewRow(d) \in Nat /\ \A r \in d.rows : r.id # NewRow(d)
<1> DEFINE ids == {r.id : r \in d.rows}
           S   == {0} \cup ids
           f   == [r \in d.rows |-> r.id]
<1>1. \A r \in d.rows : r.id \in S /\ r.id \in Nat
  BY DEF RowsTyped, IsRow
<1>2. S \in SUBSET Nat /\ S # {}
  BY <1>1
<1>3. IsFiniteSet(S)
  <2>1. f \in Surjection(d.rows, ids)
    BY DEF Surjection
  <2> HIDE DEF f, ids
  <2>2. IsFiniteSet(ids)
    BY <2>1, FS_Surjection DEF TablesTyped
  <2> QED
    BY <2>2, FS_AddElement
<1>4. NewRow(d) = Greatest(S) + 1
  BY DEF NewRow
<1> HIDE DEF S
<1>5. Greatest(S) \in S /\ \A y \in S : y <= Greatest(S)
  BY <1>2, <1>3, GreatestOf
<1>6. Greatest(S) \in Nat
  BY <1>2, <1>5
<1> QED
  BY <1>1, <1>4, <1>5, <1>6

\* A row is added for f, with the keys in more.
LEMMA RowAdded ==
  ASSUME NEW d, NEW H, Held(d, H),
         NEW row, IsRow(row), row.conv \in Conversations(d), row.seen = 0,
         \A r \in d.rows : r.id # row.id,
         \A r \in d.rows : r.pid = row.pid => r.conv # row.conv /\ ~(r.dir = "out" /\ row.dir = "out"),
         NEW f, f.type \in {"message", "reserve"}, f.chat \in Jid, f.pid = row.pid,
         d.alias[f.chat] = row.conv,
         NEW more, \A k \in more : k = [key |-> k.key, row |-> k.row] /\ k.row = row.id /\ row.dir = "out",
         f.type = "reserve" => row.dir = "out" /\ \E k \in more : k.key = f.key /\ k.row = row.id,
         NEW e, e = [links |-> d.links, alias |-> d.alias, rows |-> d.rows \cup {row},
                     keys |-> d.keys \cup more, last |-> d.last, reactions |-> d.reactions,
                     receipts |-> d.receipts, changes |-> d.changes]
  PROVE  Held(e, H \cup {f})
<1>1. e.links = d.links /\ e.alias = d.alias /\ e.rows = d.rows \cup {row}
      /\ e.keys = d.keys \cup more
  OBVIOUS
<1>2. TablesTyped(e)
  <2>1. IsFiniteSet(d.rows \cup {row})
    BY FS_AddElement DEF Held, TablesTyped
  <2> QED
    BY <2>1 DEF Held, TablesTyped
<1>3. RowsTyped(e)
  <2>1. Conversations(e) = Conversations(d)
    BY <1>1 DEF Conversations
  <2>2. RowsTyped(d)
    BY DEF Held
  <2> QED
    BY <1>1, <2>1, <2>2 DEF RowsTyped
<1>4. KeysTyped(e)
  BY <1>1 DEF Held, KeysTyped
<1>5. LinksHeld(e, H \cup {f})
  BY <1>1 DEF Held, LinksHeld
<1>6. AliasesHeld(e, H \cup {f})
  <2>1. Group(H \cup {f}) = Group(H)
    BY GroupSame
  <2>2. AliasesHeld(d, H) /\ e.alias = d.alias
    BY <1>1 DEF Held
  <2> QED
    BY <2>1, <2>2, AliasesSame
<1>7. RowsHeld(e, H \cup {f})
  <2>1. Sent(H \cup {f}) = Sent(H) \cup {f}
    BY DEF Sent
  <2>2. \A r \in e.rows : \E g \in Sent(H \cup {f}) :
          g.chat \in Jid /\ g.pid = r.pid /\ e.alias[g.chat] = r.conv
    <3>1. \A t \in d.rows : \E g \in Sent(H) :
            g.chat \in Jid /\ g.pid = t.pid /\ d.alias[g.chat] = t.conv
      BY DEF Held, RowsHeld
    <3>2. e.alias = d.alias /\ e.rows = d.rows \cup {row}
      BY <1>1
    <3>3. ASSUME NEW r \in d.rows
          PROVE  \E g \in Sent(H \cup {f}) : g.chat \in Jid /\ g.pid = r.pid /\ e.alias[g.chat] = r.conv
      <4>1. PICK g \in Sent(H) : g.chat \in Jid /\ g.pid = r.pid /\ d.alias[g.chat] = r.conv
        BY <3>1
      <4> QED
        BY <2>1, <3>2, <4>1
    <3>4. f \in Sent(H \cup {f}) /\ f.chat \in Jid /\ f.pid = row.pid /\ e.alias[f.chat] = row.conv
      BY <2>1, <3>2
    <3> QED
      BY <3>2, <3>3, <3>4
  <2>3. ASSUME NEW g \in H \cup {f}, g.type = "message"
        PROVE  \E r \in e.rows : r.pid = g.pid /\ (g.dir = "in" => g.chat \in Jid /\ r.conv = e.alias[g.chat])
    BY <1>1, <2>3 DEF Held, RowsHeld
  <2>4. ASSUME NEW g \in H \cup {f}, g.type = "reserve"
        PROVE  \E k \in e.keys, r \in e.rows :
                 k.key = g.key /\ k.row = r.id /\ r.pid = g.pid /\ r.dir = "out"
    BY <1>1, <2>4 DEF Held, RowsHeld
  <2> QED
    BY <2>2, <2>3, <2>4 DEF RowsHeld
<1>8. SeenHeld(e, H \cup {f})
  <2>1. ASSUME NEW y, NEW r PROVE MarksRow(e, y, r) <=> MarksRow(d, y, r)
    BY <1>1 DEF MarksRow
  <2>2. ASSUME NEW y \in H \cup {f}, y.type = "seen" PROVE y \in H
    BY <2>2
  <2>3. ASSUME NEW y \in H \cup {f}, MarksRow(d, y, row) PROVE FALSE
    <3>1. PICK r \in d.rows : MarksRow(d, y, r)
      BY <2>2, <2>3 DEF MarksRow, Held, SeenHeld
    <3> QED
      BY <2>3, <3>1 DEF MarksRow
  <2>4. ASSUME NEW y \in H \cup {f}, y.type = "seen"
        PROVE  y.chat \in Jid /\ y.at \in Nat \ {0} /\ \E r \in e.rows : MarksRow(e, y, r)
    BY <1>1, <2>1, <2>2, <2>4 DEF Held, SeenHeld
  <2>5. ASSUME NEW r \in e.rows
        PROVE  /\ r.seen = 0 => \A y \in H \cup {f} : ~MarksRow(e, y, r)
               /\ r.seen # 0 => \E y \in H \cup {f} : MarksRow(e, y, r) /\ y.at = r.seen
               /\ \A y \in H \cup {f} : MarksRow(e, y, r) => r.seen <= y.at
    <3>1. CASE r \in d.rows
      <4>1. \A y \in H \cup {f} : MarksRow(e, y, r) => y \in H /\ MarksRow(d, y, r)
        BY <2>1, <2>2 DEF MarksRow
      <4> QED
        BY <2>1, <3>1, <4>1 DEF Held, SeenHeld
    <3>2. CASE r = row
      BY <2>1, <2>3, <3>2
    <3> QED
      BY <1>1, <3>1, <3>2
  <2> QED
    BY <2>4, <2>5 DEF SeenHeld
<1>9. MarksKept(e, H \cup {f})
  <2>1. SameMarks(d, e)
    BY DEF SameMarks
  <2> QED
    BY <2>1, MarksInSame, MarksMore DEF Held
<1> QED
  BY <1>2, <1>3, <1>4, <1>5, <1>6, <1>7, <1>8, <1>9 DEF Held

\* The row an echo leaves is the same message.
LEMMA EchoIsSame ==
  ASSUME NEW r, IsRow(r), NEW m, IsMessage(m)
  PROVE  /\ SameMessage(Echo(r, m), r)
         /\ SameMessage([Echo(r, m) EXCEPT !.at = IF Pending(r) THEN m.at ELSE @], r)
<1> DEFINE state == IF Pending(r) THEN "sent" ELSE r.state
           order == Coalesce(m.order, r.order)
           at    == IF Pending(r) THEN m.at ELSE r.at
<1>1. state \in {"queued", "sent", "received"} /\ order \in Nat /\ at \in Nat
      /\ (r.dir = "out" => state \in {"queued", "sent"})
      /\ (r.dir # "out" => state = "received")
  BY DEF IsRow, IsMessage, Pending, Coalesce
<1> HIDE DEF state, order, at
<1>2. PICK q : q = [r EXCEPT !.state = state, !.order = order]
  OBVIOUS
<1>3. q = [id |-> r.id, conv |-> r.conv, pid |-> r.pid, dir |-> r.dir, at |-> r.at,
           state |-> state, order |-> order, seen |-> r.seen]
  BY <1>2 DEF IsRow
<1>4. Echo(r, m) = q
  BY <1>2, Zenon DEF Echo, state, order
<1>5. PICK s : s = [q EXCEPT !.at = at]
  OBVIOUS
<1>6. s = [id |-> r.id, conv |-> r.conv, pid |-> r.pid, dir |-> r.dir, at |-> at,
           state |-> state, order |-> order, seen |-> r.seen]
  BY <1>3, <1>5
<1>7. [Echo(r, m) EXCEPT !.at = IF Pending(r) THEN m.at ELSE @] = s
  <2>1. q.at = r.at
    BY <1>3
  <2> QED
    BY <1>4, <1>5, <2>1 DEF at
<1>8. SameMessage(q, r) /\ SameMessage(s, r)
  BY <1>1, <1>3, <1>6 DEF SameMessage, IsRow
<1> QED
  BY <1>4, <1>7, <1>8

\* What saveMessageTx makes of a message that the chat's conversation c has or not.
Written(d, e, m, c) ==
  LET copy == {r \in RowsIn(e, c) : r.pid = m.pid}
      new  == [id |-> NewRow(d), conv |-> c, pid |-> m.pid, dir |-> m.dir, at |-> m.at,
               state |-> IF m.dir = "out" THEN "sent" ELSE "received",
               order |-> m.order, seen |-> 0]
  IN [e EXCEPT !.rows = (@ \ copy) \cup (IF copy = {} THEN {new} ELSE {Echo(r, m) : r \in copy})]

EchoedIn(d, m) ==
  [d EXCEPT !.rows = (@ \ Outbound(d, m.pid)) \cup
     {[Echo(r, m) EXCEPT !.at = IF Pending(r) THEN m.at ELSE @] : r \in Outbound(d, m.pid)}]

LEMMA EchoedHeld ==
  ASSUME NEW d, NEW H, Held(d, H), NEW m, IsMessage(m), m.dir = "out", Outbound(d, m.pid) # {}
  PROVE  LET e == EchoedIn(d, m)
         IN  /\ Held(e, H \cup {m}) /\ e.alias = d.alias /\ Touches(d, e, SavedIn(e, m))
             /\ \E r \in Outbound(d, m.pid) : SavedIn(e, m) = r.conv
<1>1. PICK r \in d.rows : Outbound(d, m.pid) = {r} /\ r.pid = m.pid /\ r.dir = "out"
  BY DEF Outbound, Held, RowsTyped
<1> DEFINE q == [Echo(r, m) EXCEPT !.at = IF Pending(r) THEN m.at ELSE @]
<1>2. SameMessage(q, r)
  BY EchoIsSame DEF Held, RowsTyped
<1> HIDE DEF q
<1>3. PICK e : e = [d EXCEPT !.rows = (@ \ {r}) \cup {q}]
  OBVIOUS
<1>4. Held(e, H) /\ e.rows = (d.rows \ {r}) \cup {q} /\ e.alias = d.alias /\ Touches(d, e, r.conv)
  BY <1>2, <1>3, RowRewritten
<1>5. Held(e, H \cup {m})
  BY <1>1, <1>2, <1>4, MessageHeld DEF SameMessage
<1>6. EchoedIn(d, m) = e
  <2>1. {[Echo(s, m) EXCEPT !.at = IF Pending(s) THEN m.at ELSE @] : s \in {r}} = {q}
    BY DEF q
  <2> QED
    BY <1>1, <1>3, <2>1, Zenon DEF EchoedIn
<1>7. SavedIn(e, m) = r.conv
  <2>1. \A s \in Outbound(e, m.pid) : s.conv = r.conv
    BY <1>1, <1>2, <1>4 DEF SameMessage, Outbound
  <2>2. q \in Outbound(e, m.pid)
    BY <1>1, <1>2, <1>4 DEF SameMessage, Outbound
  <2>3. Outbound(e, m.pid) # {} /\ (CHOOSE s \in Outbound(e, m.pid) : TRUE) \in Outbound(e, m.pid)
    BY <2>2
  <2> QED
    BY <2>1, <2>3 DEF SavedIn
<1> QED
  BY <1>1, <1>4, <1>5, <1>6, <1>7

\* What is so of the tables g that hold m in conversation c of the tables e.
WrittenTo(e, H, m, c, g) ==
  Held(g, H \cup {m}) /\ g.alias = e.alias /\ Touches(e, g, c) /\ SavedIn(g, m) = c

LEMMA SavedHeld ==
  ASSUME NEW d, NEW H, Held(d, H), NEW m, IsMessage(m), m.dir = "out" => Outbound(d, m.pid) = {},
         NEW e, Held(e, H), From(e, d), NEW c, c # 0, e.alias[m.chat] = c,
         NEW saved, saved = Written(d, e, m, c)
  PROVE  WrittenTo(e, H, m, c, saved)
<1> SUFFICES /\ Held(saved, H \cup {m}) /\ saved.alias = e.alias
             /\ Touches(e, saved, c) /\ SavedIn(saved, m) = c
  BY DEF WrittenTo
<1> DEFINE copy == {r \in RowsIn(e, c) : r.pid = m.pid}
           new  == [id |-> NewRow(d), conv |-> c, pid |-> m.pid, dir |-> m.dir, at |-> m.at,
                    state |-> IF m.dir = "out" THEN "sent" ELSE "received",
                    order |-> m.order, seen |-> 0]
<1>0. ASSUME NEW r \in e.rows, r.pid = m.pid, r.dir = "out", m.dir = "out" PROVE FALSE
  <2>1. PICK s \in d.rows : s.pid = m.pid /\ s.dir = "out"
    BY <1>0 DEF From
  <2> QED
    BY <1>0, <2>1 DEF Outbound
<1>3. ASSUME NEW g, g.alias = e.alias, NEW q, q.conv = c, \A r \in g.rows : r \in e.rows \/ r = q
      PROVE  SavedIn(g, m) = c
  <2>1. CASE m.dir = "out" /\ Outbound(g, m.pid) # {}
    <3>1. \A r \in Outbound(g, m.pid) : r.conv = c
      BY <1>0, <1>3, <2>1 DEF Outbound
    <3>2. (CHOOSE r \in Outbound(g, m.pid) : TRUE) \in Outbound(g, m.pid)
      BY <2>1
    <3> QED
      BY <2>1, <3>1, <3>2 DEF SavedIn
  <2>2. CASE ~(m.dir = "out" /\ Outbound(g, m.pid) # {})
    BY <1>3, <2>2 DEF SavedIn
  <2> QED
    BY <2>1, <2>2
<1>1. CASE copy = {}
  <2>1. Written(d, e, m, c) = [e EXCEPT !.rows = (@ \ {}) \cup {new}]
    BY <1>1, Zenon DEF Written
  <2>2. NewRow(d) \in Nat /\ \A r \in d.rows : r.id # NewRow(d)
    BY NewRowIsFree DEF Held
  <2>3. IsRow(new) /\ new.conv = c /\ new.id = NewRow(d) /\ new.pid = m.pid /\ new.dir = m.dir
        /\ new.seen = 0
    <3>1. c \in Nat
      BY DEF Held, TablesTyped, IsMessage
    <3>2. m.dir \in {"in", "out"} /\ m.at \in Nat /\ m.order \in Nat
      BY DEF IsMessage
    <3> QED
      BY <2>2, <3>1, <3>2 DEF IsRow
  <2> HIDE DEF new
  <2>4. c \in Conversations(e)
    BY DEF Conversations, IsMessage
  <2>5. \A r \in e.rows : r.id # new.id
    BY <2>2, <2>3 DEF From
  <2>6. ASSUME NEW r \in e.rows, r.pid = new.pid PROVE r.conv # c /\ ~(r.dir = "out" /\ m.dir = "out")
    <3>1. r.conv # c
      BY <1>1, <2>3, <2>6 DEF RowsIn
    <3>2. ASSUME r.dir = "out", m.dir = "out" PROVE FALSE
      BY <1>0, <2>3, <2>6, <3>2
    <3> QED
      BY <3>1, <3>2
  <2>7. PICK g : g = [e EXCEPT !.rows = (@ \ {}) \cup {new}]
    OBVIOUS
  <2> DEFINE none == {}
  <2>12. \A k \in none : FALSE
    OBVIOUS
  <2> HIDE DEF none
  <2>8. g = [links |-> e.links, alias |-> e.alias, rows |-> e.rows \cup {new},
             keys |-> e.keys \cup none, last |-> e.last, reactions |-> e.reactions,
             receipts |-> e.receipts, changes |-> e.changes]
    BY <2>7, <2>12 DEF Held, TablesTyped
  <2>9. m.type = "message" /\ m.chat \in Jid
    BY DEF IsMessage
  <2>10. Held(g, H \cup {m})
    BY <2>3, <2>4, <2>5, <2>6, <2>8, <2>9, <2>12, RowAdded
  <2>11. g.alias = e.alias /\ g.rows = e.rows \cup {new} /\ g.last = e.last
    BY <2>8
  <2>13. Touches(e, g, c)
    <3>1. ASSUME NEW x, x # c PROVE RowsIn(g, x) = RowsIn(e, x)
      BY <2>3, <2>11, <3>1 DEF RowsIn
    <3> QED
      BY <2>11, <3>1, OneTouched
  <2>14. SavedIn(g, m) = c
    BY <1>3, <2>3, <2>11
  <2> QED
    BY <2>1, <2>7, <2>10, <2>11, <2>13, <2>14
<1>2. CASE copy # {}
  <2>1. PICK r \in e.rows : copy = {r} /\ r.pid = m.pid /\ r.conv = c
    BY <1>2 DEF RowsIn, Held, RowsTyped
  <2> DEFINE q == Echo(r, m)
  <2>2. SameMessage(q, r)
    BY EchoIsSame DEF Held, RowsTyped
  <2> HIDE DEF q
  <2>3. PICK g : g = [e EXCEPT !.rows = (@ \ {r}) \cup {q}]
    OBVIOUS
  <2>4. Held(g, H) /\ g.rows = (e.rows \ {r}) \cup {q} /\ g.alias = e.alias /\ Touches(e, g, r.conv)
    BY <2>2, <2>3, RowRewritten
  <2>5. Held(g, H \cup {m})
    BY <2>1, <2>2, <2>4, MessageHeld DEF SameMessage
  <2>6. Written(d, e, m, c) = g
    <3>1. {Echo(s, m) : s \in {r}} = {q}
      BY DEF q
    <3> HIDE DEF new
    <3>2. Written(d, e, m, c) = [e EXCEPT !.rows = (@ \ copy) \cup
                                   (IF copy = {} THEN {new} ELSE {Echo(s, m) : s \in copy})]
      BY Zenon DEF Written, new
    <3> HIDE DEF copy
    <3> QED
      BY <1>2, <2>1, <2>3, <3>1, <3>2, Zenon
  <2>7. SavedIn(g, m) = c
    BY <1>3, <2>1, <2>2, <2>4 DEF SameMessage
  <2> QED
    BY <2>1, <2>4, <2>5, <2>6, <2>7
<1> QED
  BY <1>1, <1>2

\* What is so of the tables e that saveMessageTx makes of d, for m and a
\* conversation c that is given, or 0.
SavedTo(d, H, m, c, e) ==
  /\ Held(e, H \cup {m}) /\ Touches(d, e, SavedIn(e, m))
  /\ c # 0 => e.alias = d.alias
  /\ \/ c # 0 => SavedIn(e, m) = c
     \/ m.dir = "out" /\ \E r \in Outbound(d, m.pid) : SavedIn(e, m) = r.conv

\* saveMessageTx
LEMMA SaveMessageTxHeld ==
  ASSUME NEW d, NEW H, Held(d, H), NEW m, IsMessage(m), NEW c, c = 0 \/ c = d.alias[m.chat]
  PROVE  SavedTo(d, H, m, c, SaveMessageTx(d, m, c))
<1> DEFINE ensured == IF c = 0 THEN EnsureConversation(d, m.chat, {}) ELSE d
           conv    == IF c = 0 THEN ensured.alias[m.chat] ELSE c
           sent    == IF m.dir = "out" THEN Outbound(d, m.pid) ELSE {}
<1>1. CASE sent # {}
  <2>1. SaveMessageTx(d, m, c) = EchoedIn(d, m)
    BY <1>1, Zenon DEF SaveMessageTx, EchoedIn
  <2> QED
    <3>1. PICK e : e = EchoedIn(d, m)
      OBVIOUS
    <3>2. /\ Held(e, H \cup {m}) /\ e.alias = d.alias /\ Touches(d, e, SavedIn(e, m))
          /\ m.dir = "out" /\ \E r \in Outbound(d, m.pid) : SavedIn(e, m) = r.conv
      BY <1>1, <3>1, EchoedHeld
    <3> QED
      BY <2>1, <3>1, <3>2 DEF SavedTo
<1>2. CASE sent = {}
  <2>1. SaveMessageTx(d, m, c) = Written(d, ensured, m, conv)
    BY <1>2, Zenon DEF SaveMessageTx, Written
  <2>2. /\ Held(ensured, H) /\ From(ensured, d) /\ conv # 0 /\ conv = ensured.alias[m.chat]
        /\ KeepsNewest(d, ensured)
    <3>1. CASE c = 0
      BY <3>1, EnsureOneHeld DEF IsMessage
    <3>2. CASE c # 0
      BY <3>2 DEF From, KeepsNewest, SameMarks
    <3> QED
      BY <3>1, <3>2
  <2>3. c # 0 => ensured = d /\ conv = c
    OBVIOUS
  <2>4. m.dir = "out" => Outbound(d, m.pid) = {}
    BY <1>2
  <2> HIDE DEF ensured, conv
  <2>7. PICK g : g = Written(d, ensured, m, conv)
    OBVIOUS
  <2>8. WrittenTo(ensured, H, m, conv, g)
    BY <2>2, <2>4, <2>7, SavedHeld
  <2>5. Held(g, H \cup {m}) /\ g.alias = ensured.alias /\ Touches(ensured, g, conv) /\ SavedIn(g, m) = conv
    BY <2>8 DEF WrittenTo
  <2>6. Touches(d, g, conv)
    BY <2>2, <2>5 DEF Touches, KeepsNewest
  <2> QED
    BY <2>1, <2>3, <2>5, <2>6, <2>7 DEF SavedTo
<1> QED
  BY <1>1, <1>2

LEMMA TouchedCleaned ==
  ASSUME NEW d, NEW e, NEW c, Touches(d, e, c), TablesTyped(e), RowsTyped(e), AllNewest(d, {})
  PROVE  AllNewest(Refresh(e, c), {})
<1>1. AllNewest(e, {} \cup {c})
  BY DEF Touches
<1>2. AllNewest(Refresh(e, c), ({} \cup {c}) \ {c}) /\ ({} \cup {c}) \ {c} = {}
  BY <1>1, RefreshCleans
<1> QED
  BY <1>2

LEMMA SaveMessageHeld ==
  ASSUME NEW d, NEW H, Held(d, H), NEW m, IsMessage(m)
  PROVE  /\ Held(SaveMessage(d, m), H \cup {m})
         /\ AllNewest(d, {}) => AllNewest(SaveMessage(d, m), {})
<1> DEFINE e == SaveMessageTx(d, m, 0)
<1>1. Held(e, H \cup {m}) /\ Touches(d, e, SavedIn(e, m))
  BY SaveMessageTxHeld DEF SavedTo
<1> HIDE DEF e
<1>2. SaveMessage(d, m) = Refresh(e, SavedIn(e, m))
  BY DEF SaveMessage, e
<1>3. AllNewest(d, {}) => AllNewest(Refresh(e, SavedIn(e, m)), {})
  BY <1>1, TouchedCleaned DEF Held
<1> QED
  BY <1>1, <1>2, <1>3, HeldRefreshed

\* ReserveSend, for an id that nothing received has
LEMMA ReserveSendHeld ==
  ASSUME NEW d, NEW H, Held(d, H), NEW x, IsRequest(x), x.type = "reserve", d.alias[x.chat] # 0,
         \A f \in H : f.type \in {"message", "reserve"} => f.pid # x.pid
  PROVE  /\ Held(ReserveSend(d, x), H \cup {x})
         /\ AllNewest(d, {}) => AllNewest(ReserveSend(d, x), {})
<1> DEFINE row  == [id |-> NewRow(d), conv |-> d.alias[x.chat], pid |-> x.pid, dir |-> "out",
                    at |-> x.at, state |-> "queued", order |-> 0, seen |-> 0]
           key  == [key |-> x.key, row |-> row.id]
           more == {key}
<1>0. x.chat \in Jid /\ x.at \in Nat
  BY DEF IsRequest
<1>1. NewRow(d) \in Nat /\ \A r \in d.rows : r.id # NewRow(d)
  BY NewRowIsFree DEF Held
<1>2. /\ IsRow(row) /\ row.conv = d.alias[x.chat] /\ row.id = NewRow(d) /\ row.pid = x.pid
      /\ row.dir = "out" /\ row.seen = 0
  <2>1. d.alias[x.chat] \in Nat
    BY <1>0 DEF Held, TablesTyped
  <2> QED
    BY <1>0, <1>1, <2>1 DEF IsRow
<1>3. key = [key |-> key.key, row |-> key.row] /\ key.key = x.key /\ key.row = row.id
  OBVIOUS
<1>4. ReserveSend(d, x) =
        Refresh([d EXCEPT !.rows = @ \cup {row}, !.keys = @ \cup more], row.conv)
  BY Zenon DEF ReserveSend
<1> HIDE DEF row, key
<1>5. row.conv \in Conversations(d)
  BY <1>0, <1>2 DEF Conversations
<1>6. \A r \in d.rows : r.pid # row.pid
  BY <1>2 DEF Held, RowsHeld, Sent
<1>7. PICK g : g = [d EXCEPT !.rows = @ \cup {row}, !.keys = @ \cup more]
  OBVIOUS
<1>8. g = [links |-> d.links, alias |-> d.alias, rows |-> d.rows \cup {row},
           keys |-> d.keys \cup more, last |-> d.last, reactions |-> d.reactions,
           receipts |-> d.receipts, changes |-> d.changes]
  BY <1>7 DEF Held, TablesTyped
<1>9. \A k \in more : k = [key |-> k.key, row |-> k.row] /\ k.row = row.id /\ row.dir = "out"
  BY <1>2, <1>3
<1>10. \E k \in more : k.key = x.key /\ k.row = row.id
  BY <1>3
<1> HIDE DEF more
<1>11. Held(g, H \cup {x})
  BY <1>0, <1>1, <1>2, <1>5, <1>6, <1>8, <1>9, <1>10, RowAdded
<1>12. Touches(d, g, row.conv)
  <2>1. g.alias = d.alias /\ g.last = d.last /\ g.rows = d.rows \cup {row}
    BY <1>8
  <2>2. ASSUME NEW c, c # row.conv PROVE RowsIn(g, c) = RowsIn(d, c)
    BY <2>1, <2>2 DEF RowsIn
  <2> QED
    BY <2>1, <2>2, OneTouched
<1>13. AllNewest(d, {}) => AllNewest(Refresh(g, row.conv), {})
  BY <1>11, <1>12, TouchedCleaned DEF Held
<1> QED
  BY <1>4, <1>7, <1>11, <1>13, HeldRefreshed

LEMMA CompleteSendHeld ==
  ASSUME NEW d, NEW H, Held(d, H), NEW r \in d.rows, NEW at \in Nat
  PROVE  /\ Held(CompleteSend(d, r, at), H)
         /\ AllNewest(d, {}) => AllNewest(CompleteSend(d, r, at), {})
<1> DEFINE q == IF r.state = "queued" THEN [r EXCEPT !.state = "sent", !.at = at] ELSE r
<1>1. SameMessage(q, r)
  <2>1. IsRow(r)
    BY DEF Held, RowsTyped
  <2>2. CASE r.state = "queued"
    <3>1. PICK s : s = [r EXCEPT !.state = "sent", !.at = at]
      OBVIOUS
    <3>2. s = [id |-> r.id, conv |-> r.conv, pid |-> r.pid, dir |-> r.dir, at |-> at,
               state |-> "sent", order |-> r.order, seen |-> r.seen]
      BY <2>1, <3>1 DEF IsRow
    <3>3. SameMessage(s, r)
      BY <2>1, <2>2, <3>2 DEF SameMessage, IsRow
    <3> QED
      BY <2>2, <3>1, <3>3
  <2>3. CASE r.state # "queued"
    BY <2>1, <2>3 DEF SameMessage
  <2> QED
    BY <2>2, <2>3
<1>2. PICK e : e = [d EXCEPT !.rows = (@ \ {r}) \cup {q}]
  OBVIOUS
<1>3. Completed(d, r, at) = e
  BY <1>2, Zenon DEF Completed
<1> HIDE DEF q
<1>4. Held(e, H) /\ Touches(d, e, r.conv)
  BY <1>1, <1>2, RowRewritten
<1>5. AllNewest(d, {}) => AllNewest(Refresh(e, r.conv), {})
  BY <1>4, TouchedCleaned DEF Held
<1> QED
  BY <1>3, <1>4, <1>5, HeldRefreshed DEF CompleteSend

\* RecordReadReceipts, for a message that is not marked
LEMMA MarkReadHeld ==
  ASSUME NEW d, NEW H, Held(d, H), NEW x, IsRequest(x), x.type = "seen",
         NEW r \in RowsIn(d, d.alias[x.chat]), r.pid = x.target, r.seen = 0
  PROVE  LET e == [d EXCEPT !.rows = (@ \ {r}) \cup {[r EXCEPT !.seen = x.at]}]
         IN  Held(e, H \cup {x}) /\ KeepsNewest(d, e)
<1>0. x.chat \in Jid /\ x.at \in Nat \ {0} /\ r \in d.rows /\ r.conv = d.alias[x.chat]
  BY DEF IsRequest, RowsIn
<1>1. PICK q : q = [r EXCEPT !.seen = x.at]
  OBVIOUS
<1>2. IsRow(r)
  BY <1>0 DEF Held, RowsTyped
<1>3. q = [id |-> r.id, conv |-> r.conv, pid |-> r.pid, dir |-> r.dir, at |-> r.at,
           state |-> r.state, order |-> r.order, seen |-> x.at]
  BY <1>1, <1>2 DEF IsRow
<1>4. IsRow(q) /\ q.id = r.id /\ q.conv = r.conv /\ q.pid = r.pid /\ q.dir = r.dir /\ q.seen = x.at
  BY <1>0, <1>2, <1>3 DEF IsRow
<1>5. PICK e : e = [d EXCEPT !.rows = (@ \ {r}) \cup {q}]
  OBVIOUS
<1>6. e = [links |-> d.links, alias |-> d.alias, rows |-> (d.rows \ {r}) \cup {q}, keys |-> d.keys,
           last |-> d.last, reactions |-> d.reactions, receipts |-> d.receipts,
           changes |-> d.changes]
  BY <1>5 DEF Held, TablesTyped
<1>7. e.links = d.links /\ e.alias = d.alias /\ e.keys = d.keys
      /\ e.rows = (d.rows \ {r}) \cup {q}
  BY <1>6
<1>8. TablesTyped(e)
  <2>1. IsFiniteSet(e.rows)
    <3>1. IsFiniteSet(d.rows \ {r})
      BY FS_Subset DEF Held, TablesTyped
    <3> QED
      BY <1>7, <3>1, FS_AddElement
  <2> QED
    BY <1>6, <2>1 DEF Held, TablesTyped
<1>9. \A s \in e.rows : s = q \/ (s \in d.rows /\ s # r)
  BY <1>7
<1>10. \A s \in d.rows : \E t \in e.rows : t.id = s.id /\ t.conv = s.conv /\ t.pid = s.pid /\ t.dir = s.dir
  BY <1>4, <1>7
<1>11. \A s \in e.rows : \E t \in d.rows : t.id = s.id /\ t.conv = s.conv /\ t.pid = s.pid /\ t.dir = s.dir
  BY <1>0, <1>4, <1>9
<1>12. RowsTyped(e)
  <2>1. Conversations(e) = Conversations(d)
    BY <1>7 DEF Conversations
  <2>2. \A s \in e.rows : IsRow(s) /\ s.conv \in Conversations(e)
    BY <1>0, <1>4, <1>9, <2>1 DEF Held, RowsTyped
  <2>3. \A s \in d.rows : (s.id = r.id => s = r)
          /\ (s.pid = r.pid /\ (s.conv = r.conv \/ (s.dir = "out" /\ r.dir = "out")) => s = r)
    BY <1>0 DEF Held, RowsTyped
  <2>4. \A s, t \in e.rows : s.id = t.id => s = t
    BY <1>4, <1>9, <2>3 DEF Held, RowsTyped
  <2>5. \A s, t \in e.rows :
          s.pid = t.pid /\ (s.conv = t.conv \/ (s.dir = "out" /\ t.dir = "out")) => s = t
    BY <1>4, <1>9, <2>3 DEF Held, RowsTyped
  <2> QED
    BY <2>2, <2>4, <2>5 DEF RowsTyped
<1>13. KeysTyped(e)
  BY <1>7, <1>10 DEF Held, KeysTyped
<1>14. LinksHeld(e, H \cup {x})
  BY <1>7 DEF Held, LinksHeld
<1>15. AliasesHeld(e, H \cup {x})
  <2>1. Group(H \cup {x}) = Group(H)
    <3>1. x.type = "seen"
      OBVIOUS
    <3> QED
      BY <3>1, GroupSame
  <2>2. AliasesHeld(d, H) /\ e.alias = d.alias
    BY <1>7 DEF Held
  <2> QED
    BY <2>1, <2>2, AliasesSame
<1>16. RowsHeld(e, H \cup {x})
  <2>1. Sent(H) \subseteq Sent(H \cup {x})
    BY DEF Sent
  <2>2. \A s \in e.rows : \E g \in Sent(H \cup {x}) :
          g.chat \in Jid /\ g.pid = s.pid /\ e.alias[g.chat] = s.conv
    <3>1. \A t \in d.rows : \E g \in Sent(H) :
            g.chat \in Jid /\ g.pid = t.pid /\ d.alias[g.chat] = t.conv
      BY DEF Held, RowsHeld
    <3>4. e.alias = d.alias
      BY <1>7
    <3>2. ASSUME NEW t \in d.rows
          PROVE  \E g \in Sent(H \cup {x}) : g.chat \in Jid /\ g.pid = t.pid /\ e.alias[g.chat] = t.conv
      <4>1. PICK g \in Sent(H) : g.chat \in Jid /\ g.pid = t.pid /\ d.alias[g.chat] = t.conv
        BY <3>1
      <4> QED
        BY <2>1, <3>4, <4>1
    <3>3. ASSUME NEW s \in e.rows
          PROVE  \E g \in Sent(H \cup {x}) : g.chat \in Jid /\ g.pid = s.pid /\ e.alias[g.chat] = s.conv
      <4>1. PICK t \in d.rows : t.pid = s.pid /\ t.conv = s.conv
        BY <1>11
      <4> QED
        BY <3>2, <4>1
    <3> QED
      BY <3>3
  <2>3. ASSUME NEW g \in H \cup {x}, g.type = "message"
        PROVE  \E s \in e.rows : s.pid = g.pid /\ (g.dir = "in" => g.chat \in Jid /\ s.conv = e.alias[g.chat])
    BY <1>7, <1>10, <2>3 DEF Held, RowsHeld
  <2>4. ASSUME NEW g \in H \cup {x}, g.type = "reserve"
        PROVE  \E k \in e.keys, s \in e.rows :
                 k.key = g.key /\ k.row = s.id /\ s.pid = g.pid /\ s.dir = "out"
    <3>1. PICK k \in d.keys, s \in d.rows :
                 k.key = g.key /\ k.row = s.id /\ s.pid = g.pid /\ s.dir = "out"
      BY <2>4 DEF Held, RowsHeld
    <3> QED
      BY <1>7, <1>10, <3>1
  <2> QED
    BY <2>2, <2>3, <2>4 DEF RowsHeld
<1>17. SeenHeld(e, H \cup {x})
  <2>1. ASSUME NEW y, NEW s PROVE MarksRow(e, y, s) <=> MarksRow(d, y, s)
    BY <1>7 DEF MarksRow
  <2>2. \A y \in H : ~MarksRow(d, y, r)
    BY <1>0 DEF Held, SeenHeld
  <2>3. ASSUME NEW s \in d.rows, s # r PROVE ~MarksRow(d, x, s)
    BY <1>0, <2>3 DEF MarksRow, Held, RowsTyped
  <2>4. \A y : MarksRow(d, y, q) <=> MarksRow(d, y, r)
    BY <1>4 DEF MarksRow
  <2>5. MarksRow(d, x, r)
    BY <1>0 DEF MarksRow
  <2>6. ASSUME NEW y \in H \cup {x}, y.type = "seen"
        PROVE  y.chat \in Jid /\ y.at \in Nat \ {0} /\ \E s \in e.rows : MarksRow(e, y, s)
    <3>1. CASE y = x
      BY <1>0, <1>7, <2>1, <2>4, <2>5, <3>1
    <3>2. CASE y \in H
      <4>1. PICK s \in d.rows : MarksRow(d, y, s)
        BY <2>6, <3>2 DEF Held, SeenHeld
      <4>2. s \in e.rows
        BY <1>7, <2>2, <3>2, <4>1
      <4> QED
        BY <2>1, <2>6, <3>2, <4>1, <4>2 DEF Held, SeenHeld
    <3> QED
      BY <3>1, <3>2
  <2>7. ASSUME NEW s \in e.rows
        PROVE  /\ s.seen = 0 => \A y \in H \cup {x} : ~MarksRow(e, y, s)
               /\ s.seen # 0 => \E y \in H \cup {x} : MarksRow(e, y, s) /\ y.at = s.seen
               /\ \A y \in H \cup {x} : MarksRow(e, y, s) => s.seen <= y.at
    <3>1. CASE s = q
      BY <1>0, <1>4, <2>1, <2>2, <2>4, <2>5, <3>1
    <3>2. CASE s \in d.rows /\ s # r
      BY <2>1, <2>3, <3>2 DEF Held, SeenHeld
    <3> QED
      BY <1>9, <3>1, <3>2
  <2> QED
    BY <2>6, <2>7 DEF SeenHeld
<1>20. MarksKept(e, H \cup {x})
  <2>1. SameMarks(d, e)
    BY <1>6 DEF SameMarks
  <2>2. x.type = "seen"
    OBVIOUS
  <2> QED
    BY <2>1, <2>2, MarksInSame, MarksMore DEF Held
<1>18. Held(e, H \cup {x})
  BY <1>8, <1>12, <1>13, <1>14, <1>15, <1>16, <1>17, <1>20 DEF Held
<1>19. KeepsNewest(d, e)
  <2>1. e.last = d.last
    BY <1>6
  <2>2. Conversations(e) = Conversations(d) /\ \A c : LastOf(e, c) = LastOf(d, c)
    BY <1>7, <2>1 DEF Conversations, LastOf
  <2>3. \A s : (Newer(s, q) <=> Newer(s, r)) /\ (Newer(q, s) <=> Newer(r, s))
    <3>1. q.at = r.at /\ q.order = r.order /\ q.id = r.id
      BY <1>3
    <3> QED
      BY <3>1 DEF Newer
  <2>4. \A c : c # r.conv => RowsIn(e, c) = RowsIn(d, c)
    BY <1>4, <1>7 DEF RowsIn
  <2>5. RowsIn(e, r.conv) = (RowsIn(d, r.conv) \ {r}) \cup {q} /\ r \in RowsIn(d, r.conv)
    BY <1>0, <1>4, <1>7 DEF RowsIn
  <2>6. ASSUME IsNewest(d, r.conv) PROVE IsNewest(e, r.conv)
    <3>1. PICK t \in RowsIn(d, r.conv) :
            /\ \A s \in RowsIn(d, r.conv) \ {t} : Newer(t, s)
            /\ LastOf(d, r.conv) = {[conv |-> r.conv, row |-> t.id, at |-> t.at]}
      BY <2>6 DEF IsNewest
    <3>2. CASE t = r
      <4>1. q \in RowsIn(e, r.conv) /\ \A s \in RowsIn(e, r.conv) \ {q} : Newer(q, s)
        BY <2>3, <2>5, <3>1, <3>2
      <4>2. t.id = q.id /\ t.at = q.at
        BY <1>3, <3>2
      <4> QED
        BY <2>2, <3>1, <4>1, <4>2 DEF IsNewest
    <3>3. CASE t # r
      <4>1. t \in RowsIn(e, r.conv) /\ \A s \in RowsIn(e, r.conv) \ {t} : Newer(t, s)
        BY <2>3, <2>5, <3>1, <3>3
      <4> QED
        BY <2>2, <3>1, <4>1 DEF IsNewest
    <3> QED
      BY <3>2, <3>3
  <2>7. RowsIn(d, r.conv) # {}
    BY <2>5
  <2> QED
    BY <2>2, <2>4, <2>6, <2>7, NewestInSame DEF KeepsNewest, AllNewest
<1> QED
  BY <1>1, <1>5, <1>18, <1>19

---------------------------------------------------------------------------
(* Reactions, receipts and changes                                         *)

\* A mark is taken in: only reactions, receipts and changes are other ones.
LEMMA MarkTaken ==
  ASSUME NEW d, NEW H, Held(d, H), NEW x, x.type \in {"reaction", "receipt", "change"},
         NEW e, e = [links |-> d.links, alias |-> d.alias, rows |-> d.rows, keys |-> d.keys,
                     last |-> d.last, reactions |-> e.reactions, receipts |-> e.receipts,
                     changes |-> e.changes],
         MarksKept(e, H \cup {x})
  PROVE  Held(e, H \cup {x}) /\ KeepsNewest(d, e)
<1>1. /\ e.links = d.links /\ e.alias = d.alias /\ e.rows = d.rows /\ e.keys = d.keys
      /\ e.last = d.last
  OBVIOUS
<1>2. TablesTyped(e)
  BY DEF Held, TablesTyped
<1>3. RowsOK(e, H \cup {x})
  <2>1. RowsOK(d, H \cup {x})
    BY LinkedHolds, RowsOKMore
  <2> QED
    BY <1>1, <1>2, <2>1, RowsOKInSame
<1>4. Group(H \cup {x}) = Group(H)
  BY GroupSame
<1>5. AliasesHeld(e, H \cup {x})
  <2>1. AliasesHeld(d, H) /\ e.alias = d.alias
    BY <1>1 DEF Held
  <2> QED
    BY <1>4, <2>1, AliasesSame
<1>6. LinksHeld(e, H \cup {x})
  BY <1>1 DEF Held, LinksHeld
<1>7. KeepsNewest(d, e)
  BY <1>1, SameKeepsNewest DEF Held
<1> QED
  BY <1>3, <1>5, <1>6, <1>7 DEF Held, RowsOK

LEMMA SaveReactionHeld ==
  ASSUME NEW d, NEW H, Held(d, H), NEW x, IsReaction(x), NEW via
  PROVE  /\ Held(SaveReaction(d, x), H \cup ({x} \cup LinkFact(x.by, x.aka, via)))
         /\ KeepsNewest(d, SaveReaction(d, x))
<1> DEFINE e == IF x.by = 0 THEN d ELSE AddLink(d, x.by, x.aka)
           G == H \cup LinkFact(x.by, x.aka, via)
<1>1. Held(e, G) /\ KeepsNewest(d, e)
  <2>1. CASE x.by = 0
    <3>1. LinkFact(x.by, x.aka, via) = {}
      BY <2>1 DEF LinkFact
    <3>2. G = H
      BY <3>1
    <3> QED
      BY <2>1, <3>2 DEF KeepsNewest
  <2>2. CASE x.by # 0
    BY <2>2, AddLinkHeld DEF IsReaction
  <2> QED
    BY <2>1, <2>2
<1>2. PICK reactions : reactions = Winners(e.reactions \cup {Reacted(x, Participant(e, x))})
  OBVIOUS
<1>3. PICK g : g = [e EXCEPT !.reactions = reactions]
  OBVIOUS
<1>4. g = [links |-> e.links, alias |-> e.alias, rows |-> e.rows, keys |-> e.keys,
           last |-> e.last, reactions |-> reactions, receipts |-> e.receipts, changes |-> e.changes]
  BY <1>1, <1>3 DEF Held, TablesTyped
<1>5. SaveReaction(d, x) = g
  BY <1>2, <1>3 DEF SaveReaction, e
<1> HIDE DEF G, e
<1>6. MarksKept(g, G \cup {x})
  <2>1. g.links = e.links /\ g.reactions = reactions /\ g.receipts = e.receipts /\ g.changes = e.changes
    BY <1>4
  <2>2. MarksKept(e, G)
    BY <1>1 DEF Held
  <2> QED
    BY <1>2, <2>1, <2>2, ReactionKept
<1>7. Held(g, G \cup {x}) /\ KeepsNewest(e, g)
  <2>1. x.type \in {"reaction", "receipt", "change"}
    BY DEF IsReaction
  <2>2. g = [links |-> e.links, alias |-> e.alias, rows |-> e.rows, keys |-> e.keys, last |-> e.last,
             reactions |-> g.reactions, receipts |-> g.receipts, changes |-> g.changes]
    BY <1>4
  <2> QED
    BY <1>1, <1>6, <2>1, <2>2, MarkTaken
<1>9. KeepsNewest(d, g)
  BY <1>1, <1>7 DEF KeepsNewest
<1>8. G \cup {x} = H \cup ({x} \cup LinkFact(x.by, x.aka, via))
  BY DEF G
<1> QED
  BY <1>5, <1>7, <1>8, <1>9

LEMMA SaveReceiptHeld ==
  ASSUME NEW d, NEW H, Held(d, H), NEW x, IsReceipt(x), NEW via
  PROVE  /\ Held(SaveReceipt(d, x), H \cup ({x} \cup LinkFact(x.by, x.aka, via)))
         /\ KeepsNewest(d, SaveReceipt(d, x))
<1> DEFINE e == AddLink(d, x.by, x.aka)
           G == H \cup LinkFact(x.by, x.aka, via)
<1>1. Held(e, G) /\ KeepsNewest(d, e)
  BY AddLinkHeld DEF IsReceipt, Name
<1>2. PICK receipts : receipts = Earliest(e.receipts \cup {Receipt(x, Participant(e, x))})
  OBVIOUS
<1>3. PICK g : g = [e EXCEPT !.receipts = receipts]
  OBVIOUS
<1>4. g = [links |-> e.links, alias |-> e.alias, rows |-> e.rows, keys |-> e.keys,
           last |-> e.last, reactions |-> e.reactions, receipts |-> receipts, changes |-> e.changes]
  BY <1>1, <1>3 DEF Held, TablesTyped
<1>5. SaveReceipt(d, x) = g
  BY <1>2, <1>3 DEF SaveReceipt, e
<1> HIDE DEF G, e
<1>6. MarksKept(g, G \cup {x})
  <2>1. g.links = e.links /\ g.receipts = receipts /\ g.reactions = e.reactions /\ g.changes = e.changes
    BY <1>4
  <2>2. MarksKept(e, G)
    BY <1>1 DEF Held
  <2> QED
    BY <1>2, <2>1, <2>2, ReceiptKept
<1>7. Held(g, G \cup {x}) /\ KeepsNewest(e, g)
  <2>1. x.type \in {"reaction", "receipt", "change"}
    BY DEF IsReceipt
  <2>2. g = [links |-> e.links, alias |-> e.alias, rows |-> e.rows, keys |-> e.keys, last |-> e.last,
             reactions |-> g.reactions, receipts |-> g.receipts, changes |-> g.changes]
    BY <1>4
  <2> QED
    BY <1>1, <1>6, <2>1, <2>2, MarkTaken
<1>9. KeepsNewest(d, g)
  BY <1>1, <1>7 DEF KeepsNewest
<1>8. G \cup {x} = H \cup ({x} \cup LinkFact(x.by, x.aka, via))
  BY DEF G
<1> QED
  BY <1>5, <1>7, <1>8, <1>9

LEMMA SaveChangeHeld ==
  ASSUME NEW d, NEW H, Held(d, H), NEW x, IsChange(x)
  PROVE  Held(SaveMessageChange(d, x), H \cup {x}) /\ KeepsNewest(d, SaveMessageChange(d, x))
<1>1. PICK g : g = [d EXCEPT !.changes = @ \cup {Changed(x)}]
  OBVIOUS
<1>2. g = [links |-> d.links, alias |-> d.alias, rows |-> d.rows, keys |-> d.keys, last |-> d.last,
           reactions |-> d.reactions, receipts |-> d.receipts, changes |-> d.changes \cup {Changed(x)}]
  BY <1>1 DEF Held, TablesTyped
<1>3. SaveMessageChange(d, x) = g
  BY <1>1 DEF SaveMessageChange
<1>4. MarksKept(g, H \cup {x})
  <2>1. /\ g.links = d.links /\ g.reactions = d.reactions /\ g.receipts = d.receipts
        /\ g.changes = d.changes \cup {Changed(x)}
    BY <1>2
  <2> QED
    BY <2>1, ChangeKept DEF Held
<1>5. x.type \in {"reaction", "receipt", "change"}
  BY DEF IsChange
<1>6. g = [links |-> d.links, alias |-> d.alias, rows |-> d.rows, keys |-> d.keys, last |-> d.last,
           reactions |-> g.reactions, receipts |-> g.receipts, changes |-> g.changes]
  BY <1>2
<1> QED
  BY <1>3, <1>4, <1>5, <1>6, MarkTaken

---------------------------------------------------------------------------
(* History: what is taken in one after the other                           *)

MaxOf(S) == Max(S)

LEMMA Indices ==
  ASSUME NEW S, NEW seq \in Seq(S)
  PROVE  /\ IsFiniteSet(DOMAIN seq)
         /\ \A T \in SUBSET DOMAIN seq : T # {} => MaxOf(T) \in T
         /\ \A i \in DOMAIN seq : seq[i] \in S
<1>1. PICK n \in Nat : DOMAIN seq = 1..n
  BY LenProperties
<1>2. IsFiniteSet(1..n)
  BY FS_Interval
<1>3. ASSUME NEW T \in SUBSET DOMAIN seq, T # {} PROVE MaxOf(T) \in T
  <2>1. T \in SUBSET Nat /\ IsFiniteSet(T)
    BY <1>1, <1>2, FS_Subset
  <2>2. Greatest(T) \in T /\ \A y \in T : y <= Greatest(T)
    BY <1>3, <2>1, GreatestOf
  <2>3. \E x \in T : \A y \in T : x >= y
    <3>1. \A y \in T : Greatest(T) >= y
      BY <2>1, <2>2
    <3> QED
      BY <2>2, <3>1
  <2> QED
    BY <2>3 DEF MaxOf, Max
<1> QED
  BY <1>1, <1>2, <1>3

\* The links of a batch
LinkOp(p, i, e) == AddLink(e, p.batch.links[i][1], p.batch.links[i][2])
LinkFacts(b, T) == UNION {LinkFact(b.links[i][1], b.links[i][2], "event") : i \in T}
LinksOK(p, T, e) == Held(e, p.held \cup LinkFacts(p.batch, T)) /\ KeepsNewest(p.base, e)

InLinks == INSTANCE FoldFacts WITH Op <- LinkOp, Ch <- MaxOf, P <- LinksOK

LEMMA LinksTaken ==
  ASSUME NEW d, NEW H, Held(d, H), NEW b, IsBatch(b)
  PROVE  LET e == FoldLeft(LAMBDA g, l : AddLink(g, l[1], l[2]), d, b.links)
         IN  Held(e, H \cup LinkFacts(b, DOMAIN b.links)) /\ KeepsNewest(d, e)
<1> DEFINE p == [base |-> d, held |-> H, batch |-> b]
           S == DOMAIN b.links
<1>0. p.base = d /\ p.held = H /\ p.batch = b
  OBVIOUS
<1> HIDE DEF p
<1>1. /\ IsFiniteSet(S) /\ (\A T \in SUBSET S : T # {} => MaxOf(T) \in T)
      /\ \A i \in S : b.links[i] \in Name \X Name
  BY Indices DEF IsBatch
<1>2. LinksOK(p, {}, d)
  <2>1. H \cup LinkFacts(b, {}) = H
    BY DEF LinkFacts
  <2> QED
    BY <1>0, <2>1 DEF LinksOK, KeepsNewest
<1>3. ASSUME NEW T \in SUBSET S, NEW e, T # {}, LinksOK(p, T \ {MaxOf(T)}, e)
      PROVE  LinksOK(p, T, LinkOp(p, MaxOf(T), e))
  <2> DEFINE i == MaxOf(T)
             F == LinkFact(b.links[i][1], b.links[i][2], "event")
             U == T \ {i}
             g == LinkOp(p, i, e)
  <2>1. i \in T /\ b.links[i][1] \in Name /\ b.links[i][2] \in Name
    BY <1>1, <1>3
  <2>2. Held(e, H \cup LinkFacts(b, U)) /\ KeepsNewest(d, e)
    BY <1>0, <1>3 DEF LinksOK
  <2>3. (H \cup LinkFacts(b, U)) \cup F = H \cup LinkFacts(b, T)
    BY <2>1 DEF LinkFacts
  <2>4. g = AddLink(e, b.links[i][1], b.links[i][2])
    BY <1>0 DEF LinkOp
  <2> HIDE DEF g, i
  <2>5. Held(g, (H \cup LinkFacts(b, U)) \cup F) /\ KeepsNewest(e, g)
    BY <2>1, <2>2, <2>4, AddLinkHeld
  <2> HIDE DEF F, U
  <2>6. KeepsNewest(d, g)
    BY <2>2, <2>5 DEF KeepsNewest
  <2> QED
    BY <1>0, <2>3, <2>5, <2>6 DEF LinksOK, g, i
<1>4. LinksOK(p, S, InLinks!Fold(p, d, S))
  <2> HIDE DEF S
  <2> QED
    BY <1>1, <1>2, <1>3, InLinks!FoldInduction DEF InLinks!IsFiniteSet, IsFiniteSet
<1>5. FoldLeft(LAMBDA g, l : AddLink(g, l[1], l[2]), d, b.links) = InLinks!Fold(p, d, S)
  BY DEF FoldLeft, InLinks!Fold, MapThenFoldSet, InLinks!MapThenFoldSet, LinkOp, MaxOf, p
<1> QED
  BY <1>0, <1>4, <1>5 DEF LinksOK

\* The edits and deletions of a batch
ChangeOp(p, i, e) == SaveMessageChange(e, p.batch.changes[i])
TakenFrom(seq, T) == {seq[i] : i \in T}
ChangesOK(p, T, e) == Held(e, p.held \cup TakenFrom(p.batch.changes, T)) /\ KeepsNewest(p.base, e)

InChanges == INSTANCE FoldFacts WITH Op <- ChangeOp, Ch <- MaxOf, P <- ChangesOK

LEMMA ChangesTaken ==
  ASSUME NEW d, NEW H, Held(d, H), NEW b, IsBatch(b)
  PROVE  LET e == FoldLeft(SaveMessageChange, d, b.changes)
         IN  Held(e, H \cup TakenFrom(b.changes, DOMAIN b.changes)) /\ KeepsNewest(d, e)
<1> DEFINE p == [base |-> d, held |-> H, batch |-> b]
           S == DOMAIN b.changes
<1>0. p.base = d /\ p.held = H /\ p.batch = b
  OBVIOUS
<1> HIDE DEF p
<1>1. /\ IsFiniteSet(S) /\ (\A T \in SUBSET S : T # {} => MaxOf(T) \in T)
      /\ \A i \in S : IsChange(b.changes[i])
  <2>1. b.changes \in Seq(ToSet(b.changes)) /\ \A x \in ToSet(b.changes) : IsChange(x)
    BY DEF IsBatch
  <2>2. IsFiniteSet(S) /\ \A T \in SUBSET S : T # {} => MaxOf(T) \in T
    BY <2>1, Indices
  <2>3. \A i \in S : b.changes[i] \in ToSet(b.changes)
    BY DEF ToSet
  <2> QED
    BY <2>1, <2>2, <2>3
<1>2. ChangesOK(p, {}, d)
  <2>1. H \cup TakenFrom(b.changes, {}) = H
    BY DEF TakenFrom
  <2> QED
    BY <1>0, <2>1 DEF ChangesOK, KeepsNewest
<1>3. ASSUME NEW T \in SUBSET S, NEW e, T # {}, ChangesOK(p, T \ {MaxOf(T)}, e)
      PROVE  ChangesOK(p, T, ChangeOp(p, MaxOf(T), e))
  <2> DEFINE i == MaxOf(T)
             F == {b.changes[i]}
             U == T \ {i}
             g == ChangeOp(p, i, e)
  <2>1. i \in T /\ IsChange(b.changes[i])
    BY <1>1, <1>3
  <2>2. Held(e, H \cup TakenFrom(b.changes, U)) /\ KeepsNewest(d, e)
    BY <1>0, <1>3 DEF ChangesOK
  <2>3. (H \cup TakenFrom(b.changes, U)) \cup F = H \cup TakenFrom(b.changes, T)
    BY <2>1 DEF TakenFrom
  <2>4. g = SaveMessageChange(e, b.changes[i])
    BY <1>0 DEF ChangeOp
  <2> HIDE DEF g, i
  <2>5. Held(g, (H \cup TakenFrom(b.changes, U)) \cup F) /\ KeepsNewest(e, g)
    BY <2>1, <2>2, <2>4, SaveChangeHeld
  <2> HIDE DEF F, U
  <2>6. KeepsNewest(d, g)
    BY <2>2, <2>5 DEF KeepsNewest
  <2> QED
    BY <1>0, <2>3, <2>5, <2>6 DEF ChangesOK, g, i
<1>4. ChangesOK(p, S, InChanges!Fold(p, d, S))
  <2> HIDE DEF S
  <2> QED
    BY <1>1, <1>2, <1>3, InChanges!FoldInduction DEF InChanges!IsFiniteSet, IsFiniteSet
<1>5. FoldLeft(SaveMessageChange, d, b.changes) = InChanges!Fold(p, d, S)
  BY DEF FoldLeft, InChanges!Fold, MapThenFoldSet, InChanges!MapThenFoldSet, ChangeOp, MaxOf, p
<1> QED
  BY <1>0, <1>4, <1>5 DEF ChangesOK

\* The reactions of a batch
ReactionOp(p, i, e) == SaveReaction(e, p.batch.reactions[i])
MarkFacts(seq, T) == UNION {{seq[i]} \cup LinkFact(seq[i].by, seq[i].aka, "event") : i \in T}
ReactionsOK(p, T, e) == Held(e, p.held \cup MarkFacts(p.batch.reactions, T)) /\ KeepsNewest(p.base, e)

InReactions == INSTANCE FoldFacts WITH Op <- ReactionOp, Ch <- MaxOf, P <- ReactionsOK

LEMMA ReactionsTaken ==
  ASSUME NEW d, NEW H, Held(d, H), NEW b, IsBatch(b)
  PROVE  LET e == FoldLeft(SaveReaction, d, b.reactions)
         IN  Held(e, H \cup MarkFacts(b.reactions, DOMAIN b.reactions)) /\ KeepsNewest(d, e)
<1> DEFINE p == [base |-> d, held |-> H, batch |-> b]
           S == DOMAIN b.reactions
<1>0. p.base = d /\ p.held = H /\ p.batch = b
  OBVIOUS
<1> HIDE DEF p
<1>1. /\ IsFiniteSet(S) /\ (\A T \in SUBSET S : T # {} => MaxOf(T) \in T)
      /\ \A i \in S : IsReaction(b.reactions[i])
  <2>1. b.reactions \in Seq(ToSet(b.reactions)) /\ \A x \in ToSet(b.reactions) : IsReaction(x)
    BY DEF IsBatch
  <2>2. IsFiniteSet(S) /\ \A T \in SUBSET S : T # {} => MaxOf(T) \in T
    BY <2>1, Indices
  <2>3. \A i \in S : b.reactions[i] \in ToSet(b.reactions)
    BY DEF ToSet
  <2> QED
    BY <2>1, <2>2, <2>3
<1>2. ReactionsOK(p, {}, d)
  <2>1. H \cup MarkFacts(b.reactions, {}) = H
    BY DEF MarkFacts
  <2> QED
    BY <1>0, <2>1 DEF ReactionsOK, KeepsNewest
<1>3. ASSUME NEW T \in SUBSET S, NEW e, T # {}, ReactionsOK(p, T \ {MaxOf(T)}, e)
      PROVE  ReactionsOK(p, T, ReactionOp(p, MaxOf(T), e))
  <2> DEFINE i == MaxOf(T)
             F == {b.reactions[i]} \cup LinkFact(b.reactions[i].by, b.reactions[i].aka, "event")
             U == T \ {i}
             g == ReactionOp(p, i, e)
  <2>1. i \in T /\ IsReaction(b.reactions[i])
    BY <1>1, <1>3
  <2>2. Held(e, H \cup MarkFacts(b.reactions, U)) /\ KeepsNewest(d, e)
    BY <1>0, <1>3 DEF ReactionsOK
  <2>3. (H \cup MarkFacts(b.reactions, U)) \cup F = H \cup MarkFacts(b.reactions, T)
    BY <2>1 DEF MarkFacts
  <2>4. g = SaveReaction(e, b.reactions[i])
    BY <1>0 DEF ReactionOp
  <2> HIDE DEF g, i
  <2>5. Held(g, (H \cup MarkFacts(b.reactions, U)) \cup F) /\ KeepsNewest(e, g)
    BY <2>1, <2>2, <2>4, SaveReactionHeld
  <2> HIDE DEF F, U
  <2>6. KeepsNewest(d, g)
    BY <2>2, <2>5 DEF KeepsNewest
  <2> QED
    BY <1>0, <2>3, <2>5, <2>6 DEF ReactionsOK, g, i
<1>4. ReactionsOK(p, S, InReactions!Fold(p, d, S))
  <2> HIDE DEF S
  <2> QED
    BY <1>1, <1>2, <1>3, InReactions!FoldInduction DEF InReactions!IsFiniteSet, IsFiniteSet
<1>5. FoldLeft(SaveReaction, d, b.reactions) = InReactions!Fold(p, d, S)
  BY DEF FoldLeft, InReactions!Fold, MapThenFoldSet, InReactions!MapThenFoldSet, ReactionOp, MaxOf, p
<1> QED
  BY <1>0, <1>4, <1>5 DEF ReactionsOK

\* The receipts of a batch
ReceiptOp(p, i, e) == SaveReceipt(e, p.batch.receipts[i])
ReceiptsOK(p, T, e) == Held(e, p.held \cup MarkFacts(p.batch.receipts, T)) /\ KeepsNewest(p.base, e)

InReceipts == INSTANCE FoldFacts WITH Op <- ReceiptOp, Ch <- MaxOf, P <- ReceiptsOK

LEMMA ReceiptsTaken ==
  ASSUME NEW d, NEW H, Held(d, H), NEW b, IsBatch(b)
  PROVE  LET e == FoldLeft(SaveReceipt, d, b.receipts)
         IN  Held(e, H \cup MarkFacts(b.receipts, DOMAIN b.receipts)) /\ KeepsNewest(d, e)
<1> DEFINE p == [base |-> d, held |-> H, batch |-> b]
           S == DOMAIN b.receipts
<1>0. p.base = d /\ p.held = H /\ p.batch = b
  OBVIOUS
<1> HIDE DEF p
<1>1. /\ IsFiniteSet(S) /\ (\A T \in SUBSET S : T # {} => MaxOf(T) \in T)
      /\ \A i \in S : IsReceipt(b.receipts[i])
  <2>1. b.receipts \in Seq(ToSet(b.receipts)) /\ \A x \in ToSet(b.receipts) : IsReceipt(x)
    BY DEF IsBatch
  <2>2. IsFiniteSet(S) /\ \A T \in SUBSET S : T # {} => MaxOf(T) \in T
    BY <2>1, Indices
  <2>3. \A i \in S : b.receipts[i] \in ToSet(b.receipts)
    BY DEF ToSet
  <2> QED
    BY <2>1, <2>2, <2>3
<1>2. ReceiptsOK(p, {}, d)
  <2>1. H \cup MarkFacts(b.receipts, {}) = H
    BY DEF MarkFacts
  <2> QED
    BY <1>0, <2>1 DEF ReceiptsOK, KeepsNewest
<1>3. ASSUME NEW T \in SUBSET S, NEW e, T # {}, ReceiptsOK(p, T \ {MaxOf(T)}, e)
      PROVE  ReceiptsOK(p, T, ReceiptOp(p, MaxOf(T), e))
  <2> DEFINE i == MaxOf(T)
             F == {b.receipts[i]} \cup LinkFact(b.receipts[i].by, b.receipts[i].aka, "event")
             U == T \ {i}
             g == ReceiptOp(p, i, e)
  <2>1. i \in T /\ IsReceipt(b.receipts[i])
    BY <1>1, <1>3
  <2>2. Held(e, H \cup MarkFacts(b.receipts, U)) /\ KeepsNewest(d, e)
    BY <1>0, <1>3 DEF ReceiptsOK
  <2>3. (H \cup MarkFacts(b.receipts, U)) \cup F = H \cup MarkFacts(b.receipts, T)
    BY <2>1 DEF MarkFacts
  <2>4. g = SaveReceipt(e, b.receipts[i])
    BY <1>0 DEF ReceiptOp
  <2> HIDE DEF g, i
  <2>5. Held(g, (H \cup MarkFacts(b.receipts, U)) \cup F) /\ KeepsNewest(e, g)
    BY <2>1, <2>2, <2>4, SaveReceiptHeld
  <2> HIDE DEF F, U
  <2>6. KeepsNewest(d, g)
    BY <2>2, <2>5 DEF KeepsNewest
  <2> QED
    BY <1>0, <2>3, <2>5, <2>6 DEF ReceiptsOK, g, i
<1>4. ReceiptsOK(p, S, InReceipts!Fold(p, d, S))
  <2> HIDE DEF S
  <2> QED
    BY <1>1, <1>2, <1>3, InReceipts!FoldInduction DEF InReceipts!IsFiniteSet, IsFiniteSet
<1>5. FoldLeft(SaveReceipt, d, b.receipts) = InReceipts!Fold(p, d, S)
  BY DEF FoldLeft, InReceipts!Fold, MapThenFoldSet, InReceipts!MapThenFoldSet, ReceiptOp, MaxOf, p
<1> QED
  BY <1>0, <1>4, <1>5 DEF ReceiptsOK

\* The messages of a batch, in the conversation p.conv of its chat.  The newest
\* of that one is not known until the batch is in; that of another is disturbed
\* if an own message of the batch has its row there.
AllSaved(d, b, conv) == FoldLeft(LAMBDA e, m : SaveMessageTx(e, m, conv), d, b.messages)

MessageOp(p, i, e) == SaveMessageTx(e, p.batch.messages[i], p.conv)

OwnAreHere(d, H, b, conv) ==
  \A m \in ToSet(b.messages), f \in Sent(H) :
    m.dir = "out" /\ f.pid = m.pid /\ f.chat \in Jid => d.alias[f.chat] = conv

MessagesOK(p, T, e) ==
  /\ Held(e, p.held \cup TakenFrom(p.batch.messages, T)) /\ e.alias = p.base.alias
  /\ OwnAreHere(p.base, p.held, p.batch, p.conv) /\ AllNewest(p.base, {}) => AllNewest(e, {p.conv})

InMessages == INSTANCE FoldFacts WITH Op <- MessageOp, Ch <- MaxOf, P <- MessagesOK

LEMMA MessagesTaken ==
  ASSUME NEW d, NEW H, Held(d, H), NEW b, IsBatch(b), NEW conv, conv # 0,
         \A m \in ToSet(b.messages) : d.alias[m.chat] = conv
  PROVE  LET e == AllSaved(d, b, conv)
         IN  /\ Held(e, H \cup TakenFrom(b.messages, DOMAIN b.messages)) /\ e.alias = d.alias
             /\ OwnAreHere(d, H, b, conv) /\ AllNewest(d, {}) => AllNewest(e, {conv})
<1> DEFINE p == [base |-> d, held |-> H, batch |-> b, conv |-> conv]
           S == DOMAIN b.messages
<1>0. p.base = d /\ p.held = H /\ p.batch = b /\ p.conv = conv
  OBVIOUS
<1> HIDE DEF p
<1>1. /\ IsFiniteSet(S) /\ (\A T \in SUBSET S : T # {} => MaxOf(T) \in T)
      /\ \A i \in S : IsMessage(b.messages[i]) /\ b.messages[i] \in ToSet(b.messages)
  <2>1. b.messages \in Seq(ToSet(b.messages)) /\ \A x \in ToSet(b.messages) : IsMessage(x)
    BY DEF IsBatch
  <2>2. IsFiniteSet(S) /\ \A T \in SUBSET S : T # {} => MaxOf(T) \in T
    BY <2>1, Indices
  <2>3. \A i \in S : b.messages[i] \in ToSet(b.messages)
    BY DEF ToSet
  <2> QED
    BY <2>1, <2>2, <2>3
<1>2. MessagesOK(p, {}, d)
  <2>1. H \cup TakenFrom(b.messages, {}) = H
    BY DEF TakenFrom
  <2>2. AllNewest(d, {}) => AllNewest(d, {conv})
    BY DEF AllNewest
  <2> QED
    BY <1>0, <2>1, <2>2 DEF MessagesOK
<1>3. ASSUME NEW T \in SUBSET S, NEW e, T # {}, MessagesOK(p, T \ {MaxOf(T)}, e)
      PROVE  MessagesOK(p, T, MessageOp(p, MaxOf(T), e))
  <2> DEFINE i == MaxOf(T)
             m == b.messages[i]
             U == T \ {i}
             K == H \cup TakenFrom(b.messages, U)
             g == MessageOp(p, i, e)
  <2>1. i \in T /\ IsMessage(m) /\ m \in ToSet(b.messages)
    BY <1>1, <1>3
  <2>2. Held(e, K) /\ e.alias = d.alias
    BY <1>0, <1>3 DEF MessagesOK
  <2>3. K \cup {m} = H \cup TakenFrom(b.messages, T)
    BY <2>1 DEF TakenFrom
  <2>4. g = SaveMessageTx(e, m, conv) /\ conv = e.alias[m.chat]
    BY <1>0, <2>1, <2>2 DEF MessageOp
  <2>5. \A f \in Sent(K) : f \in Sent(H) \/ f \in ToSet(b.messages)
    BY <1>1 DEF Sent, TakenFrom
  <2>9. OwnAreHere(d, H, b, conv) /\ AllNewest(d, {}) => AllNewest(e, {conv})
    BY <1>0, <1>3 DEF MessagesOK
  <2> HIDE DEF g, m, K, i
  <2>6. /\ Held(g, K \cup {m}) /\ Touches(e, g, SavedIn(g, m)) /\ g.alias = e.alias
        /\ \/ SavedIn(g, m) = conv
           \/ m.dir = "out" /\ \E r \in Outbound(e, m.pid) : SavedIn(g, m) = r.conv
    <3>1. IsMessage(m) /\ conv = e.alias[m.chat] /\ Held(e, K) /\ e.alias = d.alias
      BY <2>1, <2>2, <2>4
    <3>2. conv # 0
      OBVIOUS
    <3>4. SavedTo(e, K, m, conv, SaveMessageTx(e, m, conv))
      BY <3>1, SaveMessageTxHeld
    <3>5. SavedTo(e, K, m, conv, g)
      BY <2>4, <3>4
    <3> QED
      BY <3>2, <3>5 DEF SavedTo
  <2>7. ASSUME OwnAreHere(d, H, b, conv) PROVE SavedIn(g, m) = conv
    <3> SUFFICES ASSUME m.dir = "out", NEW r \in Outbound(e, m.pid), SavedIn(g, m) = r.conv
                 PROVE  r.conv = conv
      BY <2>6
    <3>1. PICK f \in Sent(K) : f.chat \in Jid /\ f.pid = r.pid /\ e.alias[f.chat] = r.conv
      BY <2>2 DEF Held, RowsHeld, Outbound
    <3>2. r.pid = m.pid
      BY DEF Outbound
    <3>3. CASE f \in Sent(H)
      BY <2>1, <2>2, <2>7, <3>1, <3>2, <3>3 DEF OwnAreHere
    <3>4. CASE f \in ToSet(b.messages)
      BY <2>2, <3>1, <3>4
    <3> QED
      BY <2>5, <3>3, <3>4
  <2>8. OwnAreHere(d, H, b, conv) /\ AllNewest(d, {}) => AllNewest(g, {conv})
    <3>1. AllNewest(e, {conv}) /\ Touches(e, g, conv) => AllNewest(g, {conv} \cup {conv})
      BY DEF Touches
    <3>2. {conv} \cup {conv} = {conv}
      OBVIOUS
    <3> QED
      BY <2>6, <2>7, <2>9, <3>1, <3>2
  <2> QED
    BY <1>0, <2>2, <2>3, <2>6, <2>8 DEF MessagesOK, g, i
<1>4. MessagesOK(p, S, InMessages!Fold(p, d, S))
  <2> HIDE DEF S
  <2> QED
    BY <1>1, <1>2, <1>3, InMessages!FoldInduction DEF InMessages!IsFiniteSet, IsFiniteSet
<1>5. AllSaved(d, b, conv) = InMessages!Fold(p, d, S)
  BY DEF AllSaved, FoldLeft, InMessages!Fold, MapThenFoldSet, InMessages!MapThenFoldSet, MessageOp, MaxOf, p
<1> QED
  BY <1>0, <1>4, <1>5 DEF MessagesOK

\* The chat of a batch
ChatFact(b)  == [type |-> "chat", jids |-> {b.chat} \cup b.aliases]
ChatFacts(b) == IF b.chat = 0 THEN {} ELSE {ChatFact(b)}

LEMMA ChatEnsured ==
  ASSUME NEW d, NEW H, Held(d, H), NEW b, IsBatch(b), b.chat # 0
  PROVE  LET e == EnsureConversation(d, b.chat, b.aliases)
         IN  /\ Held(e, H \cup {ChatFact(b)}) /\ KeepsNewest(d, e) /\ e.alias[b.chat] # 0
             /\ \A j \in {b.chat} \cup b.aliases : e.alias[j] = e.alias[b.chat]
<1> DEFINE names == {b.chat} \cup b.aliases
           f == ChatFact(b)
           more == {f}
<1>1. b.chat \in Jid /\ b.aliases \in SUBSET Jid /\ names \in SUBSET Jid
  BY DEF IsBatch, Name
<1>2. f.type = "chat" /\ f.jids = names
  BY DEF ChatFact
<1>3. RowsOK(d, H) /\ AliasesHeld(d, H) /\ ChatsHeld(d, H) /\ d.links = Links(H)
  BY LinkedHolds
<1>4. d.links \in SUBSET SUBSET Jid
  BY DEF Held, TablesTyped
<1> HIDE DEF f
<1>5. RowsOK(d, H \cup more)
  BY <1>2, <1>3, RowsOKMore
<1>12. MarksKept(d, H \cup more)
  BY <1>2, MarksMore DEF Held
<1>6. d.links = Links(H \cup more)
  BY <1>2, <1>3, LinksMore
<1>7. Joins(more, d, names)
  BY <1>1, <1>2, LinkedHas DEF Joins
<1>8. OneGroup(Group(H \cup more), b.chat, names)
  <2>1. Group(H \cup more) = Group(H) \cup {names}
    BY <1>2, GroupMore
  <2>2. Group(H) \in SUBSET SUBSET Jid
    BY <1>3, <1>4, GroupsTyped
  <2>3. Group(H \cup more) \in SUBSET SUBSET Jid
    BY <1>1, <2>1, <2>2
  <2>4. {b.chat} \subseteq Linked(Group(H \cup more), {b.chat})
    BY <1>1, LinkedHas
  <2>5. ClosedUnder(Group(H \cup more), Linked(Group(H \cup more), {b.chat}))
    BY <2>3, LinkedIsClosed
  <2> QED
    BY <2>1, <2>4, <2>5 DEF ClosedUnder, OneGroup
<1> DEFINE e == EnsureConversation(d, b.chat, b.aliases)
<1>11. Links(H) \subseteq d.links
  BY <1>3
<1>9. Held(e, H \cup more) /\ KeepsNewest(d, e) /\ e.alias[b.chat] # 0
  <2>1. PICK c : c = b.chat
    OBVIOUS
  <2>2. PICK aliases : aliases = b.aliases
    OBVIOUS
  <2>3. /\ c \in Jid /\ aliases \in SUBSET Jid /\ Joins(more, d, {c} \cup aliases)
        /\ OneGroup(Group(H \cup more), c, {c} \cup aliases)
    BY <1>1, <1>7, <1>8, <2>1, <2>2
  <2>4. e = EnsureConversation(d, c, aliases)
    BY <2>1, <2>2
  <2> HIDE DEF more, e
  <2>5. Held(e, H \cup more) /\ KeepsNewest(d, e) /\ e.alias[c] # 0
    <3>1. Ensurable(d, H, more, c, aliases)
      BY <1>3, <1>5, <1>6, <1>11, <1>12, <2>3 DEF Ensurable
    <3> QED
      BY <2>4, <3>1, EnsureHeld
  <2> QED
    BY <2>1, <2>5
<1> HIDE DEF e
<1>10. \A i, j \in names : e.alias[i] = e.alias[j]
  <2>1. Group(H \cup more) = Group(H) \cup {names}
    BY <1>2, GroupMore
  <2>2. \A l \in Group(H \cup more) : \A i, j \in l : e.alias[i] = e.alias[j]
    BY <1>9 DEF Held, AliasesHeld
  <2> QED
    BY <2>1, <2>2
<1> QED
  BY <1>9, <1>10 DEF e, f

\* Own messages of the batch that are there already came under a name of its chat.
OwnStayIn(H, b) ==
  \A m \in ToSet(b.messages), f \in Sent(H) :
    m.dir = "out" /\ f.pid = m.pid => f.chat \in {b.chat} \cup b.aliases

\* The part of ImportHistory up to the messages
AllLinked(d, b) == FoldLeft(LAMBDA e, l : AddLink(e, l[1], l[2]), d, b.links)

Filled(d, b) ==
  LET linked  == AllLinked(d, b)
      ensured == IF b.chat = 0 THEN linked ELSE EnsureConversation(linked, b.chat, b.aliases)
      conv    == ensured.alias[b.chat]
  IN IF b.chat = 0 THEN ensured ELSE Refresh(AllSaved(ensured, b, conv), conv)

LEMMA FilledHeld ==
  ASSUME NEW d, NEW H, Held(d, H), NEW b, IsBatch(b)
  PROVE  LET e == Filled(d, b)
         IN  /\ Held(e, ((H \cup LinkFacts(b, DOMAIN b.links)) \cup ChatFacts(b))
                          \cup TakenFrom(b.messages, DOMAIN b.messages))
             /\ OwnStayIn(H, b) /\ AllNewest(d, {}) => AllNewest(e, {})
<1> DEFINE K == H \cup LinkFacts(b, DOMAIN b.links)
           G == K \cup ChatFacts(b)
           M == TakenFrom(b.messages, DOMAIN b.messages)
           linked == AllLinked(d, b)
<1>1. Held(linked, K) /\ KeepsNewest(d, linked)
  BY LinksTaken DEF AllLinked
<1>2. \A f \in Sent(G) : f \in Sent(H)
  <2>1. \A f \in LinkFacts(b, DOMAIN b.links) : f.type = "link"
    BY DEF LinkFacts, LinkFact
  <2>2. \A f \in ChatFacts(b) : f.type = "chat"
    BY DEF ChatFacts, ChatFact
  <2> QED
    BY <2>1, <2>2 DEF Sent
<1>3. PICK l : l = linked
  OBVIOUS
<1> HIDE DEF K, M, linked
<1>4. CASE b.chat = 0
  <2>1. Filled(d, b) = l
    BY <1>3, <1>4 DEF Filled, linked
  <2>2. G = K /\ M = {}
    <3>1. b.messages = << >>
      BY <1>4 DEF IsBatch
    <3> QED
      BY <1>4, <3>1 DEF ChatFacts, M, TakenFrom
  <2>3. G \cup M = K
    BY <2>2
  <2> HIDE DEF G
  <2>4. AllNewest(d, {}) => AllNewest(l, {})
    BY <1>1, <1>3 DEF KeepsNewest
  <2> QED
    BY <1>1, <1>3, <2>1, <2>3, <2>4 DEF G, K, M
<1>5. CASE b.chat # 0
  <2> DEFINE ensured == EnsureConversation(l, b.chat, b.aliases)
             conv == ensured.alias[b.chat]
             saved == AllSaved(ensured, b, conv)
  <2>1. /\ Held(ensured, K \cup {ChatFact(b)}) /\ KeepsNewest(l, ensured) /\ conv # 0
        /\ \A j \in {b.chat} \cup b.aliases : ensured.alias[j] = conv
    BY <1>1, <1>3, <1>5, ChatEnsured
  <2>2. G = K \cup {ChatFact(b)}
    BY <1>5 DEF ChatFacts
  <2> HIDE DEF G
  <2>3. Held(ensured, G)
    BY <2>1, <2>2
  <2>4. \A m \in ToSet(b.messages) : m.chat \in {b.chat} \cup b.aliases
    BY DEF IsBatch
  <2>5. Filled(d, b) = Refresh(saved, conv)
    BY <1>3, <1>5 DEF Filled, linked
  <2>6. PICK e : e = ensured
    OBVIOUS
  <2>7. PICK c : c = conv
    OBVIOUS
  <2>8. saved = AllSaved(e, b, c)
    BY <2>6, <2>7
  <2>9. Held(e, G) /\ c # 0 /\ \A m \in ToSet(b.messages) : e.alias[m.chat] = c
    BY <2>1, <2>3, <2>4, <2>6, <2>7
  <2> HIDE DEF ensured, conv
  <2>10. Held(saved, G \cup M) /\ (OwnAreHere(e, G, b, c) /\ AllNewest(e, {}) => AllNewest(saved, {c}))
    BY <2>8, <2>9, MessagesTaken DEF M
  <2>11. OwnStayIn(H, b) => OwnAreHere(e, G, b, c)
    BY <1>2, <2>1, <2>6, <2>7 DEF OwnStayIn, OwnAreHere, G
  <2>12. AllNewest(d, {}) => AllNewest(e, {})
    BY <1>1, <1>3, <2>1, <2>6 DEF KeepsNewest
  <2> HIDE DEF saved
  <2>13. Held(Refresh(saved, c), G \cup M)
    BY <2>10, HeldRefreshed
  <2>14. AllNewest(saved, {c}) => AllNewest(Refresh(saved, c), {})
    <3>1. TablesTyped(saved) /\ RowsTyped(saved) /\ {c} \ {c} = {}
      BY <2>10 DEF Held
    <3> QED
      BY <3>1, RefreshCleans
  <2> QED
    BY <2>5, <2>7, <2>10, <2>11, <2>12, <2>13, <2>14 DEF G, K, M
<1> QED
  BY <1>4, <1>5

LinkFactsOf(S) == UNION {LinkFact(x.by, x.aka, "event") : x \in S}

LEMMA LinkFactsOfBoth ==
  ASSUME NEW S, NEW T
  PROVE  LinkFactsOf(S \cup T) = LinkFactsOf(S) \cup LinkFactsOf(T)
BY DEF LinkFactsOf

\* What a batch brings
BatchFacts(b) ==
  ToSet(b.messages) \cup ToSet(b.changes) \cup ToSet(b.reactions) \cup ToSet(b.receipts)
    \cup (UNION {LinkFact(l[1], l[2], "event") : l \in ToSet(b.links)})
    \cup LinkFactsOf(ToSet(b.reactions) \cup ToSet(b.receipts))
    \cup (IF b.chat = 0 THEN {} ELSE {[type |-> "chat", jids |-> {b.chat} \cup b.aliases]})

LEMMA ImportHistoryHeld ==
  ASSUME NEW d, NEW H, Held(d, H), NEW b, IsBatch(b)
  PROVE  /\ Held(ImportHistory(d, b), H \cup BatchFacts(b))
         /\ OwnStayIn(H, b) /\ AllNewest(d, {}) => AllNewest(ImportHistory(d, b), {})
<1> DEFINE F1 == ((H \cup LinkFacts(b, DOMAIN b.links)) \cup ChatFacts(b))
                   \cup TakenFrom(b.messages, DOMAIN b.messages)
           F2 == F1 \cup TakenFrom(b.changes, DOMAIN b.changes)
           F3 == F2 \cup MarkFacts(b.reactions, DOMAIN b.reactions)
           F4 == F3 \cup MarkFacts(b.receipts, DOMAIN b.receipts)
<1>1. PICK filled : filled = Filled(d, b)
  OBVIOUS
<1>2. Held(filled, F1) /\ (OwnStayIn(H, b) /\ AllNewest(d, {}) => AllNewest(filled, {}))
  BY <1>1, FilledHeld
<1> HIDE DEF F1
<1>3. PICK changed : changed = FoldLeft(SaveMessageChange, filled, b.changes)
  OBVIOUS
<1>4. Held(changed, F2) /\ KeepsNewest(filled, changed)
  BY <1>2, <1>3, ChangesTaken
<1> HIDE DEF F2
<1>5. PICK reacted : reacted = FoldLeft(SaveReaction, changed, b.reactions)
  OBVIOUS
<1>6. Held(reacted, F3) /\ KeepsNewest(changed, reacted)
  BY <1>4, <1>5, ReactionsTaken
<1> HIDE DEF F3
<1>7. PICK e : e = FoldLeft(SaveReceipt, reacted, b.receipts)
  OBVIOUS
<1>8. Held(e, F4) /\ KeepsNewest(reacted, e)
  BY <1>6, <1>7, ReceiptsTaken
<1> HIDE DEF F4
<1>9. ImportHistory(d, b) = e
  BY <1>1, <1>3, <1>5, <1>7, Zenon DEF ImportHistory, Filled, AllLinked, AllSaved
<1>10. F4 = H \cup BatchFacts(b)
  <2>1. TakenFrom(b.messages, DOMAIN b.messages) = ToSet(b.messages)
    BY DEF TakenFrom, ToSet
  <2>2. TakenFrom(b.changes, DOMAIN b.changes) = ToSet(b.changes)
    BY DEF TakenFrom, ToSet
  <2>3. LinkFacts(b, DOMAIN b.links) = UNION {LinkFact(l[1], l[2], "event") : l \in ToSet(b.links)}
    BY DEF LinkFacts, ToSet
  <2>4. MarkFacts(b.reactions, DOMAIN b.reactions) = ToSet(b.reactions) \cup LinkFactsOf(ToSet(b.reactions))
    BY DEF MarkFacts, ToSet, LinkFactsOf
  <2>5. MarkFacts(b.receipts, DOMAIN b.receipts) = ToSet(b.receipts) \cup LinkFactsOf(ToSet(b.receipts))
    BY DEF MarkFacts, ToSet, LinkFactsOf
  <2>6. ChatFacts(b) = IF b.chat = 0 THEN {} ELSE {[type |-> "chat", jids |-> {b.chat} \cup b.aliases]}
    BY DEF ChatFacts, ChatFact
  <2> DEFINE A == ToSet(b.messages)
             B == ToSet(b.changes)
             C == ToSet(b.reactions)
             D == ToSet(b.receipts)
             L == UNION {LinkFact(l[1], l[2], "event") : l \in ToSet(b.links)}
             I == IF b.chat = 0 THEN {} ELSE {[type |-> "chat", jids |-> {b.chat} \cup b.aliases]}
  <2>7. F4 = ((((H \cup L) \cup I) \cup A) \cup B) \cup (C \cup LinkFactsOf(C)) \cup (D \cup LinkFactsOf(D))
    BY <2>1, <2>2, <2>3, <2>4, <2>5, <2>6, Zenon DEF F1, F2, F3, F4
  <2>8. BatchFacts(b) = A \cup B \cup C \cup D \cup L \cup LinkFactsOf(C \cup D) \cup I
    BY Zenon DEF BatchFacts
  <2> HIDE DEF A, B, C, D, L, I
  <2> QED
    BY <2>7, <2>8, LinkFactsOfBoth
<1>11. AllNewest(filled, {}) => AllNewest(e, {})
  BY <1>4, <1>6, <1>8 DEF KeepsNewest
<1> QED
  BY <1>2, <1>8, <1>9, <1>10, <1>11

---------------------------------------------------------------------------
(* The steps                                                               *)

LEMMA WriteHeld ==
  ASSUME NEW d, NEW facts, NEW told, Held(d, received \cup facts), Write(d, facts, told)
  PROVE  /\ Held(db', received') /\ stale' \subseteq Conversations(db')
         /\ db' = d /\ received' = received \cup facts
<1>1. db' = d /\ received' = received \cup facts /\ stale' \subseteq Conversations(d)
  BY DEF Write
<1> QED
  BY <1>1

LEMMA Committed ==
  ASSUME ConvInv, NEW d, NEW facts, NEW told, Held(d, received \cup facts), Commit(d, facts, told)
  PROVE  ConvInv' /\ db' = d /\ received' = received \cup facts
<1>1. Write(d, facts, told) /\ reads' = reads
  BY DEF Commit
<1>2. /\ Held(db', received') /\ stale' \subseteq Conversations(db')
      /\ db' = d /\ received' = received \cup facts
  BY <1>1, WriteHeld
<1> QED
  BY <1>1, <1>2 DEF ConvInv

\* What every step keeps of the newest rows
NewestKept == AllNewest(db, {}) => AllNewest(db', {})

LEMMA SomeEvent ==
  ASSUME NEW e \in Events
  PROVE  /\ e.type = "message" => IsMessage(e)
         /\ e.type = "reaction" => IsReaction(e)
         /\ e.type = "receipt" => IsReceipt(e)
         /\ e.type = "change" => IsChange(e)
         /\ e.type \in {"reserve", "complete", "seen", "profile", "create"} => IsRequest(e)
         /\ e.type = "history" => IsBatch(e)
<1>1. \/ IsMessage(e) \/ IsReaction(e) \/ IsReceipt(e) \/ IsChange(e) \/ IsRequest(e) \/ IsBatch(e)
  BY EventsAssumption
<1>2. IsMessage(e) => e.type = "message"
  BY DEF IsMessage
<1>3. IsReaction(e) => e.type = "reaction"
  BY DEF IsReaction
<1>4. IsReceipt(e) => e.type = "receipt"
  BY DEF IsReceipt
<1>5. IsChange(e) => e.type = "change"
  BY DEF IsChange
<1>6. IsRequest(e) => e.type \in {"reserve", "complete", "seen", "profile", "create"}
  BY DEF IsRequest
<1>7. IsBatch(e) => e.type = "history"
  BY DEF IsBatch
<1> QED
  BY <1>1, <1>2, <1>3, <1>4, <1>5, <1>6, <1>7

LEMMA ReceiveMessageKeeps ==
  ASSUME ConvInv, ReceiveMessage
  PROVE  ConvInv' /\ NewestKept
<1>1. PICK m \in Events : m.type = "message" /\
        Commit(SaveMessage(db, m), {m}, {SavedIn(SaveMessage(db, m), m)})
  BY DEF ReceiveMessage, Of
<1>2. Held(db, received) /\ IsMessage(m)
  BY <1>1, SomeEvent DEF ConvInv
<1>3. PICK d : d = SaveMessage(db, m)
  OBVIOUS
<1>4. Held(d, received \cup {m}) /\ (AllNewest(db, {}) => AllNewest(d, {}))
  BY <1>2, <1>3, SaveMessageHeld
<1>5. ConvInv' /\ db' = d
  BY <1>1, <1>3, <1>4, Committed
<1> QED
  BY <1>4, <1>5 DEF NewestKept

LEMMA ReserveKeeps ==
  ASSUME ConvInv, Reserve
  PROVE  ConvInv' /\ NewestKept
<1>1. PICK x \in Events :
        /\ x.type = "reserve" /\ db.alias[x.chat] # 0
        /\ \A f \in received : f.type \in {"message", "reserve"} => f.pid # x.pid
        /\ Commit(ReserveSend(db, x), {x}, {db.alias[x.chat]})
  BY DEF Reserve, Of
<1>2. Held(db, received) /\ IsRequest(x)
  BY <1>1, SomeEvent DEF ConvInv
<1>3. PICK d : d = ReserveSend(db, x)
  OBVIOUS
<1>4. Held(d, received \cup {x}) /\ (AllNewest(db, {}) => AllNewest(d, {}))
  BY <1>1, <1>2, <1>3, ReserveSendHeld
<1>5. ConvInv' /\ db' = d
  BY <1>1, <1>3, <1>4, Committed
<1> QED
  BY <1>4, <1>5 DEF NewestKept

LEMMA CompleteKeeps ==
  ASSUME ConvInv, Complete
  PROVE  ConvInv' /\ NewestKept
<1>0. PICK x \in Of("complete") :
        \E r \in KeyRow(db, x.key) : Commit(CompleteSend(db, r, x.at), {}, {r.conv})
  BY DEF Complete
<1>1. PICK r \in KeyRow(db, x.key) :
        x \in Events /\ x.type = "complete" /\ Commit(CompleteSend(db, r, x.at), {}, {r.conv})
  BY <1>0 DEF Of
<1>2. Held(db, received) /\ IsRequest(x) /\ r \in db.rows
  BY <1>1, SomeEvent DEF ConvInv, KeyRow
<1>3. PICK d : d = CompleteSend(db, r, x.at)
  OBVIOUS
<1>4. x.at \in Nat
  BY <1>1, <1>2 DEF IsRequest
<1>5. Held(d, received \cup {}) /\ (AllNewest(db, {}) => AllNewest(d, {}))
  <2>1. received \cup {} = received
    OBVIOUS
  <2> QED
    BY <1>2, <1>3, <1>4, <2>1, CompleteSendHeld
<1>6. ConvInv' /\ db' = d
  BY <1>1, <1>3, <1>5, Committed
<1> QED
  BY <1>5, <1>6 DEF NewestKept

LEMMA BeginReadKeeps ==
  ASSUME ConvInv, BeginRead
  PROVE  ConvInv' /\ NewestKept /\ received' = received
<1>1. PICK x \in Of("seen") : \E r \in RowsIn(db, db.alias[x.chat]) :
        /\ reads' = reads \cup {[request |-> x, row |-> r.id, conv |-> r.conv, recorded |-> FALSE]}
        /\ db' = db /\ received' = received /\ stale' = stale
  BY DEF BeginRead
<1>2. \A c \in reads' : c.request \in Of("seen")
  BY <1>1 DEF ConvInv
<1> QED
  BY <1>1, <1>2 DEF ConvInv, NewestKept

LEMMA RecordReadKeeps ==
  ASSUME ConvInv, RecordRead
  PROVE  ConvInv' /\ NewestKept /\ \E F \in SUBSET Of("seen") : received' = received \cup F
<1>0. PICK c \in reads : \E r \in StillThere(c) :
        /\ reads' = (reads \ {c}) \cup {[c EXCEPT !.recorded = TRUE]}
        /\ \/ r.seen = 0 /\ Write(Marked(db, r, c.request.at), {c.request}, {})
           \/ UNCHANGED <<db, received, stale>>
  BY DEF RecordRead
<1>1. PICK r \in StillThere(c) :
        /\ reads' = (reads \ {c}) \cup {[c EXCEPT !.recorded = TRUE]}
        /\ \/ r.seen = 0 /\ Write(Marked(db, r, c.request.at), {c.request}, {})
           \/ UNCHANGED <<db, received, stale>>
  BY <1>0
<1>2. PICK x : x = c.request
  OBVIOUS
<1>3. Held(db, received) /\ x \in Of("seen") /\ x \in Events /\ x.type = "seen" /\ IsRequest(x)
  BY <1>2, SomeEvent DEF ConvInv, Of
<1>4. r \in RowsIn(db, db.alias[x.chat]) /\ r.pid = x.target
  BY <1>2 DEF StillThere
<1>5. \A k \in reads' : k.request \in Of("seen")
  <2>1. [c EXCEPT !.recorded = TRUE].request \in Of("seen")
    BY <1>1, <1>2, <1>3
  <2> QED
    BY <1>1, <2>1 DEF ConvInv
<1>6. CASE r.seen = 0 /\ Write(Marked(db, r, c.request.at), {c.request}, {})
  <2>1. PICK d : d = [db EXCEPT !.rows = (@ \ {r}) \cup {[r EXCEPT !.seen = x.at]}]
    OBVIOUS
  <2>2. Write(d, {x}, {})
    BY <1>2, <1>6, <2>1 DEF Marked
  <2>3. Held(d, received \cup {x}) /\ KeepsNewest(db, d)
    BY <1>3, <1>4, <1>6, <2>1, MarkReadHeld
  <2>4. /\ Held(db', received') /\ stale' \subseteq Conversations(db')
        /\ db' = d /\ received' = received \cup {x}
    BY <2>2, <2>3, WriteHeld
  <2>5. ConvInv'
    BY <1>5, <2>4 DEF ConvInv
  <2> QED
    BY <1>3, <2>3, <2>4, <2>5 DEF NewestKept, KeepsNewest
<1>7. CASE UNCHANGED <<db, received, stale>>
  <2>1. received' = received \cup {} /\ {} \in SUBSET Of("seen")
    BY <1>7
  <2> QED
    BY <1>5, <1>7, <2>1 DEF ConvInv, NewestKept
<1> QED
  BY <1>1, <1>6, <1>7

LEMMA EndReadKeeps ==
  ASSUME ConvInv, EndRead
  PROVE  ConvInv' /\ NewestKept /\ received' = received
<1>1. /\ reads' \subseteq reads /\ stale' \subseteq stale
      /\ db' = db /\ received' = received
  BY DEF EndRead
<1> QED
  BY <1>1 DEF ConvInv, NewestKept

LEMMA ReceiveReactionKeeps ==
  ASSUME ConvInv, ReceiveReaction
  PROVE  ConvInv' /\ NewestKept
<1>1. PICK x, told :
        /\ x \in Events /\ x.type = "reaction"
        /\ Commit(SaveReaction(db, x), {x} \cup LinkFact(x.by, x.aka, "event"), told)
  BY DEF ReceiveReaction, Of
<1>2. Held(db, received) /\ IsReaction(x)
  BY <1>1, SomeEvent DEF ConvInv
<1>3. PICK d : d = SaveReaction(db, x)
  OBVIOUS
<1>4. PICK F : F = {x} \cup LinkFact(x.by, x.aka, "event")
  OBVIOUS
<1>5. Held(d, received \cup F) /\ KeepsNewest(db, d)
  BY <1>2, <1>3, <1>4, SaveReactionHeld
<1>6. ConvInv' /\ db' = d
  BY <1>1, <1>3, <1>4, <1>5, Committed
<1> QED
  BY <1>5, <1>6 DEF NewestKept, KeepsNewest

LEMMA ReceiveReceiptKeeps ==
  ASSUME ConvInv, ReceiveReceipt
  PROVE  ConvInv' /\ NewestKept
<1>1. PICK x, told :
        /\ x \in Events /\ x.type = "receipt"
        /\ Commit(SaveReceipt(db, x), {x} \cup LinkFact(x.by, x.aka, "event"), told)
  BY DEF ReceiveReceipt, Of
<1>2. Held(db, received) /\ IsReceipt(x)
  BY <1>1, SomeEvent DEF ConvInv
<1>3. PICK d : d = SaveReceipt(db, x)
  OBVIOUS
<1>4. PICK F : F = {x} \cup LinkFact(x.by, x.aka, "event")
  OBVIOUS
<1>5. Held(d, received \cup F) /\ KeepsNewest(db, d)
  BY <1>2, <1>3, <1>4, SaveReceiptHeld
<1>6. ConvInv' /\ db' = d
  BY <1>1, <1>3, <1>4, <1>5, Committed
<1> QED
  BY <1>5, <1>6 DEF NewestKept, KeepsNewest

LEMMA ReceiveChangeKeeps ==
  ASSUME ConvInv, ReceiveChange
  PROVE  ConvInv' /\ NewestKept
<1>1. PICK x \in Events : x.type = "change" /\
        Commit(SaveMessageChange(db, x), {x}, {db.alias[x.chat]} \ {0})
  BY DEF ReceiveChange, Of
<1>2. Held(db, received) /\ IsChange(x)
  BY <1>1, SomeEvent DEF ConvInv
<1>3. PICK d : d = SaveMessageChange(db, x)
  OBVIOUS
<1>4. Held(d, received \cup {x}) /\ KeepsNewest(db, d)
  BY <1>2, <1>3, SaveChangeHeld
<1>5. ConvInv' /\ db' = d
  BY <1>1, <1>3, <1>4, Committed
<1> QED
  BY <1>4, <1>5 DEF NewestKept, KeepsNewest

LEMMA ReceiveProfileKeeps ==
  ASSUME ConvInv, ReceiveProfile
  PROVE  ConvInv' /\ NewestKept
<1> DEFINE Taken(x) == \/ db.alias[x.chat] # 0 \/ (x.alternate # 0 /\ db.alias[x.alternate] # 0)
                       \/ x.create
           Linking(x) == AddLink(db, x.chat, x.alternate)
           Result(x) == IF ~Taken(x) THEN db
                        ELSE IF Linking(x).alias[x.chat] = 0 /\ x.create
                             THEN EnsureConversation(Linking(x), x.chat, {}) ELSE Linking(x)
           New(x) == IF Taken(x) THEN LinkFact(x.chat, x.alternate, "event") ELSE {}
<1>1. PICK x, told : x \in Events /\ x.type = "profile" /\ Commit(Result(x), New(x), told)
  BY DEF ReceiveProfile, Of
<1>2. Held(db, received) /\ IsRequest(x)
  BY <1>1, SomeEvent DEF ConvInv
<1>3. x.chat \in Jid /\ x.alternate \in Name /\ x.chat \in Name
  BY <1>1, <1>2 DEF IsRequest, Name
<1>4. PICK d : d = Result(x)
  OBVIOUS
<1>5. PICK F : F = New(x)
  OBVIOUS
<1>6. Held(d, received \cup F) /\ KeepsNewest(db, d)
  <2>1. CASE ~Taken(x)
    <3>1. d = db /\ F = {} /\ received \cup F = received
      BY <1>4, <1>5, <2>1
    <3> QED
      BY <1>2, <3>1 DEF KeepsNewest
  <2>2. CASE Taken(x)
    <3>1. F = LinkFact(x.chat, x.alternate, "event")
      BY <1>5, <2>2
    <3>2. PICK l : l = Linking(x)
      OBVIOUS
    <3>3. Held(l, received \cup F) /\ KeepsNewest(db, l)
      BY <1>2, <1>3, <3>1, <3>2, AddLinkHeld
    <3>4. PICK e : e = EnsureConversation(l, x.chat, {})
      OBVIOUS
    <3>5. Held(e, received \cup F) /\ KeepsNewest(l, e)
      BY <1>3, <3>3, <3>4, EnsureOneHeld
    <3>6. d = e \/ d = l
      BY <1>4, <2>2, <3>2, <3>4
    <3> QED
      BY <3>3, <3>5, <3>6 DEF KeepsNewest
  <2> QED
    BY <2>1, <2>2
<1>7. ConvInv' /\ db' = d
  <2> HIDE DEF Result, New
  <2> QED BY <1>1, <1>4, <1>5, <1>6, Committed
<1> QED
  BY <1>6, <1>7 DEF NewestKept, KeepsNewest

LEMMA CreateConversationKeeps ==
  ASSUME ConvInv, CreateConversation
  PROVE  ConvInv' /\ NewestKept
<1>1. PICK x, told :
        /\ x \in Events /\ x.type = "create"
        /\ Commit(EnsureConversation(AddLink(db, x.chat, x.alternate), x.chat, {}),
                  LinkFact(x.chat, x.alternate, "create"), told)
  BY DEF CreateConversation, Of
<1>2. Held(db, received) /\ IsRequest(x)
  BY <1>1, SomeEvent DEF ConvInv
<1>3. x.chat \in Jid /\ x.alternate \in Name /\ x.chat \in Name
  BY <1>1, <1>2 DEF IsRequest, Name
<1>4. PICK F : F = LinkFact(x.chat, x.alternate, "create")
  OBVIOUS
<1>5. PICK l : l = AddLink(db, x.chat, x.alternate)
  OBVIOUS
<1>6. Held(l, received \cup F) /\ KeepsNewest(db, l)
  BY <1>2, <1>3, <1>4, <1>5, AddLinkHeld
<1>7. PICK d : d = EnsureConversation(l, x.chat, {})
  OBVIOUS
<1>8. Held(d, received \cup F) /\ KeepsNewest(l, d)
  BY <1>3, <1>6, <1>7, EnsureOneHeld
<1>9. ConvInv' /\ db' = d
  BY <1>1, <1>4, <1>5, <1>7, <1>8, Committed
<1> QED
  BY <1>6, <1>8, <1>9 DEF NewestKept, KeepsNewest

LEMMA ReceiveHistoryKeeps ==
  ASSUME ConvInv, ReceiveHistory
  PROVE  /\ ConvInv'
         /\ (\A b \in Of("history") : OwnStayIn(received, b)) => NewestKept
<1>1. PICK b, told :
        b \in Events /\ b.type = "history" /\ Commit(ImportHistory(db, b), BatchFacts(b), told)
  BY DEF ReceiveHistory, Of, BatchFacts, LinkFactsOf
<1>2. Held(db, received) /\ IsBatch(b)
  BY <1>1, SomeEvent DEF ConvInv
<1>3. PICK d : d = ImportHistory(db, b)
  OBVIOUS
<1>4. /\ Held(d, received \cup BatchFacts(b))
      /\ OwnStayIn(received, b) /\ AllNewest(db, {}) => AllNewest(d, {})
  BY <1>2, <1>3, ImportHistoryHeld
<1>5. ConvInv' /\ db' = d
  BY <1>1, <1>3, <1>4, Committed
<1> QED
  BY <1>1, <1>4, <1>5 DEF NewestKept, Of

---------------------------------------------------------------------------
(* The theorems                                                            *)

LEMMA EmptyHeld ==
  ASSUME NEW d, d = Empty
  PROVE  Held(d, {}) /\ AllNewest(d, {})
<1>1. /\ d.links = {} /\ d.alias = [j \in Jid |-> 0] /\ d.rows = {} /\ d.keys = {}
      /\ d = [links |-> d.links, alias |-> d.alias, rows |-> d.rows, keys |-> d.keys,
              last |-> d.last, reactions |-> d.reactions, receipts |-> d.receipts,
              changes |-> d.changes]
  BY DEF Empty
<1>2. TablesTyped(d)
  <2>1. d.alias \in [Jid -> Nat] /\ IsFiniteSet(d.rows)
    BY <1>1, FS_EmptySet
  <2>2. \A j \in Jid : d.alias[j] <= Cardinality({i \in Jid : d.alias[i] # 0})
    <3>1. Cardinality(Named(d.alias)) \in Nat
      BY NamedIsFinite
    <3> QED
      BY <1>1, <3>1 DEF Named
  <2> QED
    BY <1>1, <2>1, <2>2 DEF TablesTyped
<1>3. RowsTyped(d) /\ KeysTyped(d) /\ LinksHeld(d, {}) /\ RowsHeld(d, {}) /\ SeenHeld(d, {})
  BY <1>1 DEF RowsTyped, KeysTyped, LinksHeld, RowsHeld, SeenHeld
<1>4. AliasesHeld(d, {})
  BY <1>1 DEF AliasesHeld, Group
<1>5. AllNewest(d, {})
  BY <1>1 DEF AllNewest, RowsIn
<1>6. MarksKept(d, {})
  <2>1. d.reactions = {} /\ d.receipts = {} /\ d.changes = {}
    BY DEF Empty
  <2>2. \A type : Marks({}, type) = {}
    BY DEF Marks
  <2>3. Winners({}) = {} /\ Earliest({}) = {}
    BY DEF Winners, Earliest
  <2> QED
    BY <2>1, <2>2, <2>3, FS_EmptySet DEF MarksKept
<1> QED
  BY <1>2, <1>3, <1>4, <1>5, <1>6 DEF Held

LEMMA InitHeld ==
  ASSUME Init
  PROVE  ConvInv /\ AllNewest(db, {}) /\ received = {}
<1>1. db = Empty /\ received = {} /\ stale = {} /\ reads = {}
  BY DEF Init
<1>2. Held(db, received) /\ AllNewest(db, {})
  BY <1>1, EmptyHeld
<1> QED
  BY <1>1, <1>2 DEF ConvInv

LEMMA StutterKeeps ==
  ASSUME ConvInv, UNCHANGED vars
  PROVE  ConvInv' /\ NewestKept /\ received' = received
<1>1. db' = db /\ received' = received /\ stale' = stale /\ reads' = reads
  BY DEF vars
<1> QED
  BY <1>1 DEF ConvInv, NewestKept

(* The inductive invariant: rows, keys, aliases and marks as read are those *)
(* of what was received, however it was interleaved and merged.             *)
THEOREM ConvInvHolds == Spec => []ConvInv
<1>1. Init => ConvInv
  BY InitHeld
<1>2. ConvInv /\ [Next]_vars => ConvInv'
  <2> SUFFICES ASSUME ConvInv, [Next]_vars PROVE ConvInv'
    OBVIOUS
  <2>1. CASE ReceiveMessage
    BY <2>1, ReceiveMessageKeeps
  <2>2. CASE Reserve
    BY <2>2, ReserveKeeps
  <2>3. CASE Complete
    BY <2>3, CompleteKeeps
  <2>4. CASE BeginRead \/ RecordRead \/ EndRead
    BY <2>4, BeginReadKeeps, RecordReadKeeps, EndReadKeeps
  <2>5. CASE ReceiveReaction
    BY <2>5, ReceiveReactionKeeps
  <2>6. CASE ReceiveReceipt
    BY <2>6, ReceiveReceiptKeeps
  <2>7. CASE ReceiveChange
    BY <2>7, ReceiveChangeKeeps
  <2>8. CASE ReceiveProfile
    BY <2>8, ReceiveProfileKeeps
  <2>9. CASE CreateConversation
    BY <2>9, CreateConversationKeeps
  <2>10. CASE ReceiveHistory
    BY <2>10, ReceiveHistoryKeeps
  <2>11. CASE UNCHANGED vars
    BY <2>11, StutterKeeps
  <2> QED
    BY <2>1, <2>2, <2>3, <2>4, <2>5, <2>6, <2>7, <2>8, <2>9, <2>10, <2>11 DEF Next
<1> QED
  BY <1>1, <1>2, PTL DEF Spec

LEMMA AliasesClosed ==
  ASSUME ConvInv
  PROVE  AliasesAreClosed
<1>1. SameChat = Group(received)
  BY DEF SameChat, LinkedBy, Facts, Group
<1>2. AliasesHeld(db, received) /\ Group(received) \in SUBSET SUBSET Jid /\ db.alias \in [Jid -> Nat]
  <2>1. Held(db, received)
    BY DEF ConvInv
  <2>2. ChatsHeld(db, received) /\ db.links = Links(received) /\ AliasesHeld(db, received)
    BY <2>1, LinkedHolds
  <2>3. db.links \subseteq SUBSET Jid /\ db.alias \in [Jid -> Nat]
    BY <2>1 DEF Held, TablesTyped
  <2> QED
    BY <2>2, <2>3, GroupsTyped
<1>3. ASSUME NEW i \in Jid, NEW j \in Linked(Group(received), {i}) PROVE db.alias[j] = db.alias[i]
  <2> DEFINE same == {k \in Jid : db.alias[k] = db.alias[i]}
  <2>1. ClosedUnder(Group(received), same)
    BY <1>2 DEF AliasesHeld, ClosedUnder
  <2>2. {i} \subseteq same /\ same \in SUBSET Jid
    OBVIOUS
  <2>3. Linked(Group(received), {i}) \subseteq same
    <3> HIDE DEF same
    <3> QED BY <2>1, <2>2, LinkedIsLeast
  <2> QED
    BY <1>3, <2>3
<1>4. ASSUME NEW i \in Jid, NEW j \in Jid, db.alias[i] # 0, db.alias[j] = db.alias[i]
      PROVE  j \in Linked(Group(received), {i})
  BY <1>2, <1>4 DEF AliasesHeld
<1> QED
  BY <1>1, <1>3, <1>4 DEF AliasesAreClosed

(* The tables hold together, and two chats are one conversation exactly     *)
(* when links and batches make them so (ensureConversationTx,               *)
(* mergeConversationTx, addChatLinkTx).                                     *)
THEOREM TablesAreOK == Spec => []TablesOK
<1>1. ASSUME ConvInv PROVE TypeOK
  <2>1. /\ TablesTyped(db) /\ RowsTyped(db) /\ stale \subseteq Conversations(db)
    BY <1>1 DEF ConvInv, Held
  <2>2. \A j \in Jid : db.alias[j] \in 0..Cardinality(Jid)
    <3>1. Cardinality(Named(db.alias)) <= Cardinality(Jid) /\ Cardinality(Jid) \in Nat
      BY ConversationsAssumption, FS_Subset, FS_CardinalityType DEF Named
    <3>2. \A j \in Jid : db.alias[j] \in Nat /\ db.alias[j] <= Cardinality(Named(db.alias))
      BY <2>1, NamedBounds
    <3>3. Cardinality(Named(db.alias)) \in Nat
      BY NamedIsFinite
    <3> QED
      BY <3>1, <3>2, <3>3
  <2>3. \A r \in db.rows : r.conv \in Conversations(db) /\ r.dir \in {"in", "out"}
          /\ r.state \in {"queued", "sent", "received"} /\ (r.state = "received") = (r.dir = "in")
    BY <2>1 DEF RowsTyped, IsRow
  <2>4. \A r, s \in db.rows : r # s => r.id # s.id /\ <<r.conv, r.pid>> # <<s.conv, s.pid>>
    BY <2>1 DEF RowsTyped
  <2> QED
    BY <2>1, <2>2, <2>3, <2>4 DEF TypeOK, TablesTyped
<1>2. ConvInv => TablesOK
  BY <1>1, AliasesClosed DEF TablesOK
<1> QED
  BY <1>2, ConvInvHolds, PTL

(* A message that came live, in history or as an echo, under any of the     *)
(* chat's names, has one copy in the chat's conversation, and a sent one    *)
(* has one row in the account (saveMessageTx, mergeConversationTx).         *)
THEOREM OneCopyHolds == Spec => []OneCopy
<1>1. ASSUME ConvInv PROVE OneCopy
  <2>1. RowsHeld(db, received) /\ RowsTyped(db)
    BY <1>1 DEF ConvInv, Held
  <2>2. ASSUME NEW m \in Facts("message")
        PROVE  \E r \in db.rows : r.pid = m.pid /\ (m.dir = "in" => r.conv = db.alias[m.chat])
    BY <2>1 DEF Facts, RowsHeld
  <2>3. \A r, s \in db.rows : r.pid = s.pid /\ r.dir = "out" /\ s.dir = "out" => r = s
    BY <2>1 DEF RowsTyped
  <2> QED
    BY <2>2, <2>3 DEF OneCopy
<1> QED
  BY <1>1, ConvInvHolds, PTL

(* Merging conversations loses no idempotency key and no mark as read, and  *)
(* keeps the earliest mark (mergeConversationTx, mergeMessageOrderTx).      *)
THEOREM MergeKeepsHolds == Spec => []MergeKeeps
<1>1. ASSUME ConvInv PROVE MergeKeeps
  <2>1. RowsHeld(db, received) /\ RowsTyped(db) /\ SeenHeld(db, received)
    BY <1>1 DEF ConvInv, Held
  <2>2. ASSUME NEW x \in Facts("reserve")
        PROVE  \E r \in KeyRow(db, x.key) : r.pid = x.pid /\ r.dir = "out"
    BY <2>1 DEF Facts, RowsHeld, KeyRow
  <2>3. ASSUME NEW x \in Facts("seen")
        PROVE  \E r \in db.rows :
                 /\ r.pid = x.target /\ r.conv = db.alias[x.chat]
                 /\ r.seen = Least({y.at : y \in {y \in Facts("seen") :
                      y.target = x.target /\ db.alias[y.chat] = r.conv}})
    <3>1. PICK r \in db.rows : MarksRow(db, x, r)
      BY <2>1 DEF Facts, SeenHeld
    <3> DEFINE marks == {y \in Facts("seen") : y.target = x.target /\ db.alias[y.chat] = r.conv}
               times == {y.at : y \in marks}
    <3>2. r.pid = x.target /\ r.conv = db.alias[x.chat]
      BY <3>1 DEF MarksRow
    <3>3. \A y : y \in marks <=> y \in received /\ MarksRow(db, y, r)
      BY <3>2 DEF MarksRow, Facts
    <3>4. x \in received /\ r.seen # 0
      BY <2>1, <3>1 DEF Facts, SeenHeld
    <3>5. \E y \in marks : y.at = r.seen
      BY <2>1, <3>3, <3>4 DEF SeenHeld
    <3>6. \A y \in marks : y.at \in Nat /\ r.seen <= y.at
      BY <2>1, <3>3 DEF SeenHeld, MarksRow
    <3>7. times \in SUBSET Nat /\ r.seen \in times /\ \A t \in times : r.seen <= t
      BY <3>5, <3>6
    <3>8. PICK S : S = times
      OBVIOUS
    <3>9. Least(S) \in S /\ \A t \in S : Least(S) <= t
      BY <3>7, <3>8, LeastOf
    <3>10. r.seen = Least(S)
      <4>1. S \in SUBSET Nat /\ r.seen \in S /\ \A t \in S : r.seen <= t
        BY <3>7, <3>8
      <4>2. r.seen \in Nat /\ Least(S) \in Nat /\ r.seen <= Least(S) /\ Least(S) <= r.seen
        BY <3>9, <4>1
      <4> QED
        BY <4>2
    <3> QED
      BY <3>2, <3>8, <3>10
  <2> QED
    BY <2>2, <2>3 DEF MergeKeeps
<1> QED
  BY <1>1, ConvInvHolds, PTL

---------------------------------------------------------------------------
(* What a message shows of its marks                                       *)

Here(r, type)      == {f \in Facts(type) : db.alias[f.chat] = r.conv /\ f.target = r.pid}
Who(f)             == IF f.by = 0 THEN 0 ELSE Canonical(LinkedBy, f.by)
Times(r, p, kind)  == {f.at : f \in {f \in Here(r, "receipt") : Who(f) = p /\ f.kind = kind}}
Later(f, g) ==
  \/ f.at > g.at
  \/ f.at = g.at /\ f.emoji = 0 /\ g.emoji # 0
  \/ f.at = g.at /\ (f.emoji = 0) = (g.emoji = 0) /\ f.event > g.event
  \/ f.at = g.at /\ f.event = g.event /\ f.emoji > g.emoji /\ g.emoji # 0

\* The facts about marks are Marks of what was received, and their participants are Who.
LEMMA MarksReceived ==
  ASSUME ConvInv
  PROVE  /\ MarksKept(db, received) /\ \A type : Facts(type) = Marks(received, type)
         /\ \A f : Participant(db, f) = Who(f)
<1>1. Held(db, received)
  BY DEF ConvInv
<1>2. db.links = LinkedBy
  BY <1>1, LinkedHolds DEF LinkedBy, Facts, Links
<1> QED
  BY <1>1, <1>2, LinkedHolds DEF Facts, Marks, Participant, Who

\* A reaction ranks as the fact it came with.
LEMMA LaterWins ==
  ASSUME NEW f, NEW g, IsReaction(f), IsReaction(g), NEW p, NEW q
  PROVE  /\ IsRanked(Reacted(f, p)) /\ IsRanked(Reacted(g, q))
         /\ Later(f, g) <=> ReactionWins(Reacted(f, p), Reacted(g, q))
<1>1. IsRanked(Reacted(f, p)) /\ IsRanked(Reacted(g, q))
  BY DEF IsReaction, IsRanked, Reacted
<1>2. PICK x, y : x = Reacted(f, p) /\ y = Reacted(g, q)
  OBVIOUS
<1>3. /\ x.at = f.at /\ x.emoji = f.emoji /\ x.event = f.event
      /\ y.at = g.at /\ y.emoji = g.emoji /\ y.event = g.event
  BY <1>2 DEF Reacted
<1>4. ReactionWins(x, y) <=>
        \/ x.at > y.at
        \/ x.at = y.at /\ x.emoji = 0 /\ y.emoji # 0
        \/ x.at = y.at /\ (x.emoji = 0 <=> y.emoji = 0) /\ x.event > y.event
        \/ x.at = y.at /\ (x.emoji = 0 <=> y.emoji = 0) /\ x.event = y.event /\ x.emoji > y.emoji
  BY <1>1, <1>2, WinsIs
<1>5. /\ f.at \in Nat /\ f.emoji \in Nat /\ f.event \in Nat
      /\ g.at \in Nat /\ g.emoji \in Nat /\ g.event \in Nat
  BY DEF IsReaction
<1>6. ((f.emoji = 0) = (g.emoji = 0)) <=> (f.emoji = 0 <=> g.emoji = 0)
  OBVIOUS
<1>7. ReactionWins(x, y) <=>
        \/ f.at > g.at
        \/ f.at = g.at /\ f.emoji = 0 /\ g.emoji # 0
        \/ f.at = g.at /\ (f.emoji = 0 <=> g.emoji = 0) /\ f.event > g.event
        \/ f.at = g.at /\ (f.emoji = 0 <=> g.emoji = 0) /\ f.event = g.event /\ f.emoji > g.emoji
  BY <1>3, <1>4
<1>8. (f.emoji = 0 <=> g.emoji = 0) /\ f.emoji > g.emoji <=> f.emoji > g.emoji /\ g.emoji # 0
  BY <1>5
<1> QED
  BY <1>1, <1>2, <1>6, <1>7, <1>8 DEF Later

LEMMA ReactionsShown ==
  ASSUME ConvInv, NEW r \in db.rows
  PROVE  Reactions(db, r) =
           {[by |-> Who(f), emoji |-> f.emoji, at |-> f.at] : f \in
              {f \in Here(r, "reaction") : f.emoji # 0 /\
                 ~\E g \in Here(r, "reaction") : Who(g) = Who(f) /\ Later(g, f)}}
<1> DEFINE S == Marks(received, "reaction")
           R == {Reacted(f, Who(f)) : f \in S}
           W == Winners(R)
           shown == {x \in About(W, db, r) :
                       x.emoji # 0 /\ ~\E y \in About(W, db, r) : y.by = x.by /\ ReactionWins(y, x)}
           best  == {f \in Here(r, "reaction") : f.emoji # 0 /\
                       ~\E g \in Here(r, "reaction") : Who(g) = Who(f) /\ Later(g, f)}
<1>1. /\ \A f \in S : IsReaction(f)
      /\ {Reacted(f, Participant(db, f)) : f \in S} = R
      /\ Here(r, "reaction") = {f \in S : db.alias[f.chat] = r.conv /\ f.target = r.pid}
  BY MarksReceived DEF MarksKept, Here
<1>2. IsFiniteSet(R) /\ AllRanked(R) /\ db.reactions = W
  BY <1>1, MarksReceived, RowsOfMarks DEF MarksKept
<1>3. Tops(R, W) /\ W \subseteq R
  BY <1>2, WinnerOf DEF Winners
<1>4. ASSUME NEW f \in S
      PROVE  LET x == Reacted(f, Who(f))
             IN  /\ x \in R /\ IsRanked(x) /\ Mark(x) = <<f.chat, f.target, Who(f)>>
                 /\ x.chat = f.chat /\ x.target = f.target /\ x.by = Who(f) /\ x.emoji = f.emoji /\ x.at = f.at
                 /\ \A Z : x \in About(Z, db, r) <=> x \in Z /\ f \in Here(r, "reaction")
  <2>1. PICK x : x = Reacted(f, Who(f))
    OBVIOUS
  <2>2. /\ x.chat = f.chat /\ x.target = f.target /\ x.by = Who(f) /\ x.emoji = f.emoji /\ x.at = f.at
    BY <2>1 DEF Reacted
  <2>3. f.chat \in Jid
    BY <1>1 DEF IsReaction
  <2>4. x \in R
    BY <2>1
  <2>5. \A Z : x \in About(Z, db, r) <=> x \in Z /\ f \in Here(r, "reaction")
    BY <1>1, <2>2, <2>3 DEF About, Chats
  <2> QED
    BY <1>2, <2>1, <2>2, <2>4, <2>5 DEF AllRanked, Mark
<1>5. \A x \in R : \E f \in S : x = Reacted(f, Who(f))
  OBVIOUS
<1>6. \A x, y \in R : Mark(x) = Mark(y) <=> x.chat = y.chat /\ x.target = y.target /\ x.by = y.by
  BY DEF Mark
<1> HIDE DEF R, S, W
<1>7. ASSUME NEW f \in best
      PROVE  Reacted(f, Who(f)) \in shown
  <2>1. f \in S /\ f \in Here(r, "reaction") /\ f.emoji # 0
    BY <1>1
  <2>2. PICK x : x = Reacted(f, Who(f))
    OBVIOUS
  <2>3. /\ x \in R /\ IsRanked(x) /\ x.by = Who(f) /\ x.emoji = f.emoji /\ Mark(x) = <<f.chat, f.target, Who(f)>>
        /\ \A Z : x \in About(Z, db, r) <=> x \in Z
    BY <1>4, <2>1, <2>2
  <2>4. ASSUME NEW y \in R, NEW g \in Here(r, "reaction"), y = Reacted(g, Who(g)), y.by = x.by
        PROVE  ~ReactionWins(y, x)
    <3>1. g \in S /\ Who(g) = Who(f)
      BY <1>1, <1>4, <2>3, <2>4
    <3>2. ~Later(g, f)
      BY <3>1
    <3> QED
      BY <1>1, <2>1, <2>2, <2>4, <3>1, <3>2, LaterWins
  <2>5. x \in W
    <3>1. PICK t \in W : Mark(t) = Mark(x) /\ (t = x \/ ReactionWins(t, x))
      BY <1>3, <2>3 DEF Tops
    <3>2. PICK g \in S : t = Reacted(g, Who(g))
      BY <1>3, <1>5
    <3>3. g.chat = f.chat /\ g.target = f.target /\ t.by = x.by
      BY <1>4, <2>3, <3>1, <3>2
    <3>4. g \in Here(r, "reaction")
      BY <1>1, <2>1, <3>3
    <3> QED
      BY <1>3, <2>4, <3>1, <3>2, <3>3, <3>4
  <2>6. ASSUME NEW y \in About(W, db, r), y.by = x.by PROVE ~ReactionWins(y, x)
    <3>1. y \in W /\ y \in R
      BY <1>3 DEF About
    <3>2. PICK g \in S : y = Reacted(g, Who(g))
      BY <1>5, <3>1
    <3>3. g \in Here(r, "reaction")
      BY <1>4, <2>6, <3>2
    <3> QED
      BY <2>4, <2>6, <3>1, <3>2, <3>3
  <2> QED
    BY <2>1, <2>2, <2>3, <2>5, <2>6
<1>8. ASSUME NEW x \in shown
      PROVE  \E f \in best : x = Reacted(f, Who(f))
  <2>1. x \in W /\ x \in R /\ x \in About(W, db, r) /\ x.emoji # 0
    BY <1>3 DEF About
  <2>2. PICK f \in S : x = Reacted(f, Who(f))
    BY <1>5, <2>1
  <2>3. f \in Here(r, "reaction") /\ f.emoji # 0 /\ x.by = Who(f) /\ IsRanked(x)
    BY <1>4, <2>1, <2>2
  <2>4. ASSUME NEW g \in Here(r, "reaction"), Who(g) = Who(f), Later(g, f) PROVE FALSE
    <3>1. PICK z : z = Reacted(g, Who(g))
      OBVIOUS
    <3>2. g \in S
      BY <1>1
    <3>3. z \in R /\ IsRanked(z) /\ z.by = x.by
      BY <1>4, <2>3, <2>4, <3>1, <3>2
    <3>4. ReactionWins(z, x)
      BY <1>1, <2>2, <2>4, <3>1, <3>2, LaterWins
    <3>5. PICK t \in W : Mark(t) = Mark(z) /\ (t = z \/ ReactionWins(t, z))
      BY <1>3, <3>3 DEF Tops
    <3>6. PICK h \in S : t = Reacted(h, Who(h))
      BY <1>3, <1>5
    <3>7. IsRanked(t) /\ h.chat = g.chat /\ h.target = g.target /\ t.by = z.by
      BY <1>4, <3>1, <3>2, <3>5, <3>6, <1>6, <1>3, <3>3
    <3>8. t \in About(W, db, r)
      BY <1>1, <1>4, <3>2, <3>6, <3>7
    <3>9. ReactionWins(t, x)
      BY <2>3, <3>3, <3>4, <3>5, <3>7, WinsOrders
    <3> QED
      BY <3>3, <3>7, <3>8, <3>9
  <2> QED
    BY <2>2, <2>3, <2>4
<1>9. \A f \in best : LET x == Reacted(f, Who(f)) IN x.by = Who(f) /\ x.emoji = f.emoji /\ x.at = f.at
  BY DEF Reacted
<1>10. Reactions(db, r) = {[by |-> x.by, emoji |-> x.emoji, at |-> x.at] : x \in shown}
  BY <1>2 DEF Reactions
<1> HIDE DEF shown, best
<1>11. {[by |-> x.by, emoji |-> x.emoji, at |-> x.at] : x \in shown}
         = {[by |-> Who(f), emoji |-> f.emoji, at |-> f.at] : f \in best}
  BY <1>7, <1>8, <1>9
<1> QED
  BY <1>10, <1>11 DEF best

\* What the receipts of p say, and what was received of them
TimesShown(r, p, kind) ==
  {IF kind = "delivered" THEN y.delivered ELSE y.read : y \in {y \in About(db.receipts, db, r) : y.by = p}}

LEMMA ReceiptsKnown ==
  ASSUME ConvInv, NEW r \in db.rows
  PROVE  /\ {x.by : x \in About(db.receipts, db, r)} = {Who(f) : f \in Here(r, "receipt")}
         /\ \A p, kind : kind \in {"delivered", "read"} =>
              Least0(TimesShown(r, p, kind)) = Least0(Times(r, p, kind))
<1> DEFINE S == Marks(received, "receipt")
           C == {Receipt(f, Who(f)) : f \in S}
           E == Earliest(C)
<1>1. /\ \A f \in S : IsReceipt(f)
      /\ {Receipt(f, Participant(db, f)) : f \in S} = C
      /\ Here(r, "receipt") = {f \in S : db.alias[f.chat] = r.conv /\ f.target = r.pid}
  BY MarksReceived DEF MarksKept, Here
<1>2. AllTimed(C) /\ db.receipts = E
  BY <1>1, MarksReceived, RowsOfMarks DEF MarksKept
<1>3. Covers(C, E) /\ Covers(E, C) /\ AllTimed(E)
  BY <1>2, EarliestOf
<1>4. ASSUME NEW f \in S
      PROVE  LET x == Receipt(f, Who(f))
             IN  /\ x \in C /\ Mark(x) = <<f.chat, f.target, Who(f)>> /\ x.by = Who(f)
                 /\ x.delivered = (IF f.kind = "delivered" THEN f.at ELSE 0)
                 /\ x.read = (IF f.kind = "read" THEN f.at ELSE 0)
                 /\ f.at \in Nat \ {0} /\ f.chat \in Jid /\ f.kind \in {"delivered", "read"}
  BY <1>1 DEF Receipt, Mark, IsReceipt
<1>5. \A x \in C : \E f \in S : x = Receipt(f, Who(f))
  OBVIOUS
<1> HIDE DEF S, C, E
\* The same chat, message and participant
<1>6. ASSUME NEW f \in S, NEW y, Mark(y) = <<f.chat, f.target, Who(f)>>
      PROVE  /\ y.by = Who(f)
             /\ y.chat \in Chats(db, r) /\ y.target = r.pid <=> f \in Here(r, "receipt")
  <2>1. y.chat = f.chat /\ y.target = f.target /\ y.by = Who(f)
    BY <1>6 DEF Mark
  <2> QED
    BY <1>1, <1>4, <2>1 DEF Chats
<1>7. ASSUME NEW y \in About(E, db, r)
      PROVE  /\ y \in E
             /\ \A x \in C : Mark(x) = Mark(y) =>
                  \E f \in Here(r, "receipt") : x = Receipt(f, Who(f)) /\ Who(f) = y.by /\ f \in S
  <2>1. y \in E /\ y.chat \in Chats(db, r) /\ y.target = r.pid
    BY DEF About
  <2>2. ASSUME NEW x \in C, Mark(x) = Mark(y)
        PROVE  \E f \in Here(r, "receipt") : x = Receipt(f, Who(f)) /\ Who(f) = y.by /\ f \in S
    <3>1. PICK f \in S : x = Receipt(f, Who(f))
      BY <1>5
    <3>2. Mark(y) = <<f.chat, f.target, Who(f)>>
      BY <1>4, <2>2, <3>1
    <3> QED
      BY <1>6, <2>1, <3>1, <3>2
  <2> QED
    BY <2>1, <2>2
<1>8. ASSUME NEW f \in Here(r, "receipt")
      PROVE  /\ f \in S
             /\ \A y \in E : Mark(y) = Mark(Receipt(f, Who(f))) => y \in About(E, db, r) /\ y.by = Who(f)
  BY <1>1, <1>4, <1>6 DEF About
<1>9. ASSUME NEW y \in About(E, db, r) PROVE \E f \in Here(r, "receipt") : Who(f) = y.by
  BY <1>3, <1>7 DEF Covers
<1>10. ASSUME NEW f \in Here(r, "receipt") PROVE \E y \in About(E, db, r) : y.by = Who(f)
  BY <1>3, <1>4, <1>8 DEF Covers
<1>11. ASSUME NEW p, NEW kind \in {"delivered", "read"}
       PROVE  Least0(TimesShown(r, p, kind)) = Least0(Times(r, p, kind))
  <2> DEFINE A == TimesShown(r, p, kind)
             B == Times(r, p, kind)
  <2>1. \A a \in A : \E y \in About(E, db, r) :
          y.by = p /\ a = (IF kind = "delivered" THEN y.delivered ELSE y.read)
    BY <1>2 DEF TimesShown
  <2>2. \A y \in About(E, db, r) : y.by = p => (IF kind = "delivered" THEN y.delivered ELSE y.read) \in A
    BY <1>2 DEF TimesShown
  <2>3. \A b \in B : \E f \in Here(r, "receipt") : Who(f) = p /\ f.kind = kind /\ b = f.at
    BY DEF Times
  <2>4. \A f \in Here(r, "receipt") : Who(f) = p /\ f.kind = kind => f.at \in B
    BY DEF Times
  <2> HIDE DEF A, B
  <2>5. A \in SUBSET Nat
    BY <1>3, <1>7, <2>1 DEF AllTimed, IsTimed
  <2>6. B \in SUBSET Nat
    BY <1>4, <1>8, <2>3
  <2>7. ASSUME NEW a \in A, a # 0 PROVE \E b \in B : b # 0 /\ b <= a
    <3>1. PICK y \in About(E, db, r) : y.by = p /\ a = (IF kind = "delivered" THEN y.delivered ELSE y.read)
      BY <2>1
    <3>2. y \in E
      BY <1>7
    <3>3. PICK x \in C : /\ Mark(x) = Mark(y)
                         /\ LET b == IF kind = "delivered" THEN x.delivered ELSE x.read
                            IN  b # 0 /\ b <= a
      <4>1. CASE kind = "delivered"
        BY <1>3, <2>7, <3>1, <3>2, <4>1 DEF Covers
      <4>2. CASE kind = "read"
        BY <1>3, <2>7, <3>1, <3>2, <4>2 DEF Covers
      <4> QED
        BY <4>1, <4>2
    <3>4. PICK f \in Here(r, "receipt") : x = Receipt(f, Who(f)) /\ Who(f) = p /\ f \in S
      BY <1>7, <3>1, <3>3
    <3>5. f.kind = kind /\ f.at # 0 /\ f.at <= a
      BY <1>4, <3>3, <3>4
    <3> QED
      BY <2>4, <3>4, <3>5
  <2>8. ASSUME NEW b \in B, b # 0 PROVE \E a \in A : a # 0 /\ a <= b
    <3>1. PICK f \in Here(r, "receipt") : Who(f) = p /\ f.kind = kind /\ b = f.at
      BY <2>3
    <3>2. PICK x : x = Receipt(f, Who(f))
      OBVIOUS
    <3>3. x \in C /\ (IF kind = "delivered" THEN x.delivered ELSE x.read) = b
      BY <1>4, <1>8, <3>1, <3>2
    <3>4. PICK y \in E : /\ Mark(y) = Mark(x)
                         /\ LET a == IF kind = "delivered" THEN y.delivered ELSE y.read
                            IN  a # 0 /\ a <= b
      <4>1. CASE kind = "delivered"
        BY <1>3, <2>8, <3>3, <4>1 DEF Covers
      <4>2. CASE kind = "read"
        BY <1>3, <2>8, <3>3, <4>2 DEF Covers
      <4> QED
        BY <4>1, <4>2
    <3>5. y \in About(E, db, r) /\ y.by = p
      BY <1>8, <3>1, <3>2, <3>4
    <3> QED
      BY <2>2, <3>4, <3>5
  <2>9. Least0(A) = Least0(B)
    BY <2>5, <2>6, <2>7, <2>8, Least0Same
  <2> QED
    BY <2>9 DEF A, B
<1> QED
  BY <1>2, <1>9, <1>10, <1>11

LEMMA ReceiptsShown ==
  ASSUME ConvInv, NEW r \in db.rows
  PROVE  Receipts(db, r) = IF r.dir # "out" THEN {} ELSE
           {[by |-> p, delivered |-> Least0(Times(r, p, "delivered")), read |-> Least0(Times(r, p, "read"))] :
              p \in {Who(f) : f \in Here(r, "receipt")}}
<1> DEFINE seen == About(db.receipts, db, r)
           D(p) == {y.delivered : y \in {y \in seen : y.by = p}}
           Z(p) == {y.read : y \in {y \in seen : y.by = p}}
<1>1. \A p : D(p) = TimesShown(r, p, "delivered") /\ Z(p) = TimesShown(r, p, "read")
  BY DEF TimesShown
<1>2. Receipts(db, r) = IF r.dir # "out" THEN {} ELSE
        {[by |-> x.by, delivered |-> Least0(D(x.by)), read |-> Least0(Z(x.by))] : x \in seen}
  BY Zenon DEF Receipts
<1> HIDE DEF seen, D, Z
<1>3. \A p : /\ Least0(D(p)) = Least0(Times(r, p, "delivered"))
             /\ Least0(Z(p)) = Least0(Times(r, p, "read"))
  BY <1>1, ReceiptsKnown
<1>4. {x.by : x \in seen} = {Who(f) : f \in Here(r, "receipt")}
  BY ReceiptsKnown DEF seen
<1>5. {[by |-> x.by, delivered |-> Least0(D(x.by)), read |-> Least0(Z(x.by))] : x \in seen}
        = {[by |-> p, delivered |-> Least0(D(p)), read |-> Least0(Z(p))] : p \in {x.by : x \in seen}}
  OBVIOUS
<1>6. {[by |-> p, delivered |-> Least0(D(p)), read |-> Least0(Z(p))] : p \in {x.by : x \in seen}}
        = {[by |-> p, delivered |-> Least0(Times(r, p, "delivered")), read |-> Least0(Times(r, p, "read"))] :
             p \in {Who(f) : f \in Here(r, "receipt")}}
  BY <1>3, <1>4
<1> QED
  BY <1>2, <1>5, <1>6

LEMMA ChangesShown ==
  ASSUME ConvInv, NEW r \in db.rows, NEW kind
  PROVE  {c.event : c \in {c \in Changes(db, r) : c.kind = kind}} =
           {f.event : f \in {f \in Here(r, "change") : f.kind = kind /\
              \A g \in Here(r, "change") : g.kind = kind => <<g.at, g.event>> = <<f.at, f.event>>
                 \/ g.at < f.at \/ (g.at = f.at /\ g.event < f.event)}}
<1> DEFINE S == Marks(received, "change")
           here == Here(r, "change")
           there == About(db.changes, db, r)
           Beaten(x, T) == \E y \in T : y.kind = x.kind /\ (y.at > x.at \/ (y.at = x.at /\ y.event > x.event))
<1>1. /\ \A f \in S : IsChange(f)
      /\ db.changes = {Changed(f) : f \in S}
      /\ here = {f \in S : db.alias[f.chat] = r.conv /\ f.target = r.pid}
  BY MarksReceived DEF MarksKept, Here
<1>2. ASSUME NEW f
      PROVE  /\ Changed(f).chat = f.chat /\ Changed(f).target = f.target /\ Changed(f).kind = f.kind
             /\ Changed(f).at = f.at /\ Changed(f).event = f.event
  BY DEF Changed
<1>3. \A f \in here : Changed(f) \in there
  BY <1>1, <1>2 DEF About, Chats, IsChange
<1>4. \A x \in there : \E f \in here : x = Changed(f)
  BY <1>1, <1>2 DEF About, Chats
<1>5. \A f \in here : f.at \in Nat /\ f.event \in Nat
  BY <1>1 DEF IsChange
<1> HIDE DEF here, there
<1>6. Changes(db, r) = {[kind |-> x.kind, at |-> x.at, event |-> x.event] : x \in {x \in there : ~Beaten(x, there)}}
  BY DEF Changes, there
<1>7. \A f : Beaten(Changed(f), there) <=> Beaten(f, here)
  BY <1>2, <1>3, <1>4
<1>8. ASSUME NEW f \in here, f.kind = kind
      PROVE  ~Beaten(f, here) <=>
               \A g \in here : g.kind = kind => <<g.at, g.event>> = <<f.at, f.event>>
                 \/ g.at < f.at \/ (g.at = f.at /\ g.event < f.event)
  <2>1. \A g \in here : ~(g.at > f.at \/ (g.at = f.at /\ g.event > f.event)) <=>
          <<g.at, g.event>> = <<f.at, f.event>> \/ g.at < f.at \/ (g.at = f.at /\ g.event < f.event)
    BY <1>5
  <2> QED
    BY <1>8, <2>1
<1> DEFINE last == {f \in here : f.kind = kind /\ ~Beaten(f, here)}
           top  == {x \in there : ~Beaten(x, there)}
<1>9. \A f \in last : Changed(f) \in top /\ Changed(f).kind = kind
  BY <1>2, <1>3, <1>7
<1>10. \A x \in top : x.kind = kind => \E f \in last : x = Changed(f)
  BY <1>2, <1>4, <1>7
<1> HIDE DEF last, top, Beaten
<1>11. {c.event : c \in {c \in Changes(db, r) : c.kind = kind}} = {x.event : x \in {x \in top : x.kind = kind}}
  <2>1. Changes(db, r) = {[kind |-> x.kind, at |-> x.at, event |-> x.event] : x \in top}
    BY <1>6 DEF top
  <2>2. \A c \in Changes(db, r) : \E x \in top : c.kind = x.kind /\ c.event = x.event
    BY <2>1
  <2>3. ASSUME NEW x \in top PROVE \E c \in Changes(db, r) : c.kind = x.kind /\ c.event = x.event
    <3>1. PICK c : c = [kind |-> x.kind, at |-> x.at, event |-> x.event]
      OBVIOUS
    <3>2. c \in Changes(db, r) /\ c.kind = x.kind /\ c.event = x.event
      BY <2>1, <3>1
    <3> QED
      BY <3>2
  <2> QED
    BY <2>2, <2>3
<1>12. {x.event : x \in {x \in top : x.kind = kind}} = {f.event : f \in last}
  BY <1>2, <1>9, <1>10
<1>13. last = {f \in here : f.kind = kind /\
              \A g \in here : g.kind = kind => <<g.at, g.event>> = <<f.at, f.event>>
                 \/ g.at < f.at \/ (g.at = f.at /\ g.event < f.event)}
  BY <1>8 DEF last
<1> QED
  BY <1>11, <1>12, <1>13 DEF here

(* What a message shows of reactions, receipts, edits and deletions depends  *)
(* on what was received only: not on its order, on repeats, on the names it  *)
(* came under or on when the message came (saveReactionTx, saveReceiptTx,    *)
(* mergeReactionParticipantsTx, mergeReceiptParticipantsTx).                 *)
THEOREM MarksConvergeHolds == Spec => []MarksConverge
<1>1. ConvInv => MarksConverge
  <2> SUFFICES ASSUME ConvInv PROVE MarksConverge
    OBVIOUS
  <2>1. ASSUME NEW r \in db.rows
        PROVE  Reactions(db, r) =
                 {[by |-> Who(f), emoji |-> f.emoji, at |-> f.at] : f \in
                    {f \in Here(r, "reaction") : f.emoji # 0 /\
                       ~\E g \in Here(r, "reaction") : Who(g) = Who(f) /\ Later(g, f)}}
    BY ReactionsShown
  <2>2. ASSUME NEW r \in db.rows
        PROVE  Receipts(db, r) = IF r.dir # "out" THEN {} ELSE
                 {[by |-> p, delivered |-> Least0(Times(r, p, "delivered")),
                   read |-> Least0(Times(r, p, "read"))] : p \in {Who(f) : f \in Here(r, "receipt")}}
    BY ReceiptsShown
  <2>3. ASSUME NEW r \in db.rows, NEW kind \in {"edit", "revoke"}
        PROVE  {c.event : c \in {c \in Changes(db, r) : c.kind = kind}} =
               {f.event : f \in {f \in Here(r, "change") : f.kind = kind /\
                  \A g \in Here(r, "change") : g.kind = kind => <<g.at, g.event>> = <<f.at, f.event>>
                     \/ g.at < f.at \/ (g.at = f.at /\ g.event < f.event)}}
    BY ChangesShown
  <2> QED
    BY <2>1, <2>2, <2>3, Zenon DEF MarksConverge, Here, Who, Times, Later
<1> QED
  BY <1>1, ConvInvHolds, PTL

---------------------------------------------------------------------------
(* The newest message, after every step                                    *)

\* What was sent, as far as the store knows, is among the events.
AllArrived == Sent(received) \subseteq Arriving

LEMMA ArrivedMore ==
  ASSUME AllArrived, NEW facts, Sent(facts) \subseteq Arriving, received' = received \cup facts
  PROVE  AllArrived'
<1>1. \A f \in Sent(received') : f \in Arriving
  BY DEF Sent, AllArrived
<1> QED
  BY <1>1 DEF AllArrived

LEMMA NothingSent ==
  ASSUME NEW facts, \A f \in facts : f.type \notin {"message", "reserve"}
  PROVE  Sent(facts) \subseteq Arriving
BY DEF Sent

LEMMA AllArrive ==
  ASSUME ConvInv, AllArrived, Next
  PROVE  AllArrived'
<1>0. \A a, b, via : \A f \in LinkFact(a, b, via) : f.type = "link"
  BY DEF LinkFact
<1>1. CASE ReceiveMessage
  <2>1. PICK m \in Events : m.type = "message" /\ received' = received \cup {m}
    BY <1>1 DEF ReceiveMessage, Of, Commit, Write
  <2>2. Sent({m}) \subseteq Arriving
    BY <2>1 DEF Sent, Arriving
  <2> QED
    BY <2>1, <2>2, ArrivedMore
<1>2. CASE Reserve
  <2>1. PICK x \in Events : x.type = "reserve" /\ received' = received \cup {x}
    BY <1>2 DEF Reserve, Of, Commit, Write
  <2>2. Sent({x}) \subseteq Arriving
    BY <2>1 DEF Sent, Arriving
  <2> QED
    BY <2>1, <2>2, ArrivedMore
<1>3. CASE Complete
  <2>1. received' = received \cup {}
    BY <1>3 DEF Complete, Commit, Write
  <2> QED
    BY <2>1 DEF AllArrived
<1>4. CASE BeginRead \/ RecordRead \/ EndRead
  <2>1. PICK F \in SUBSET Of("seen") : received' = received \cup F
    <3>1. received = received \cup {}
      OBVIOUS
    <3> QED
      BY <1>4, <3>1, BeginReadKeeps, RecordReadKeeps, EndReadKeeps
  <2>2. \A f \in F : f.type = "seen"
    BY DEF Of
  <2> QED
    BY <2>1, <2>2, NothingSent, ArrivedMore
<1>5. CASE ReceiveReaction
  <2>1. PICK x \in Events :
          x.type = "reaction" /\ received' = received \cup ({x} \cup LinkFact(x.by, x.aka, "event"))
    BY <1>5 DEF ReceiveReaction, Of, Commit, Write
  <2> QED
    BY <1>0, <2>1, NothingSent, ArrivedMore
<1>6. CASE ReceiveReceipt
  <2>1. PICK x \in Events :
          x.type = "receipt" /\ received' = received \cup ({x} \cup LinkFact(x.by, x.aka, "event"))
    BY <1>6 DEF ReceiveReceipt, Of, Commit, Write
  <2> QED
    BY <1>0, <2>1, NothingSent, ArrivedMore
<1>7. CASE ReceiveChange
  <2>1. PICK x \in Events : x.type = "change" /\ received' = received \cup {x}
    BY <1>7 DEF ReceiveChange, Of, Commit, Write
  <2> QED
    BY <2>1, NothingSent, ArrivedMore
<1>8. CASE ReceiveProfile
  <2>1. PICK x, F : /\ received' = received \cup F
                    /\ F = {} \/ F = LinkFact(x.chat, x.alternate, "event")
    BY <1>8 DEF ReceiveProfile, Commit, Write
  <2>2. \A f \in F : f.type = "link"
    BY <1>0, <2>1
  <2> QED
    BY <2>1, <2>2, NothingSent, ArrivedMore
<1>9. CASE CreateConversation
  <2>1. PICK x : received' = received \cup LinkFact(x.chat, x.alternate, "create")
    BY <1>9 DEF CreateConversation, Commit, Write
  <2> QED
    BY <1>0, <2>1, NothingSent, ArrivedMore
<1>10. CASE ReceiveHistory
  <2>1. PICK b \in Events : b.type = "history" /\ received' = received \cup BatchFacts(b)
    BY <1>10 DEF ReceiveHistory, Of, Commit, Write, BatchFacts, LinkFactsOf
  <2>2. IsBatch(b)
    BY <2>1, SomeEvent
  <2> DEFINE marks == ToSet(b.changes) \cup ToSet(b.reactions) \cup ToSet(b.receipts)
             links == (UNION {LinkFact(l[1], l[2], "event") : l \in ToSet(b.links)})
                        \cup LinkFactsOf(ToSet(b.reactions) \cup ToSet(b.receipts))
             chats == IF b.chat = 0 THEN {} ELSE {[type |-> "chat", jids |-> {b.chat} \cup b.aliases]}
  <2>3. \A f \in marks : f.type \in {"change", "reaction", "receipt"}
    BY <2>2 DEF IsBatch, IsChange, IsReaction, IsReceipt
  <2>4. \A f \in links : f.type = "link"
    BY <1>0 DEF LinkFactsOf
  <2>5. \A f \in chats : f.type = "chat"
    OBVIOUS
  <2>6. ToSet(b.messages) \subseteq Arriving
    BY <2>1 DEF Arriving, Of
  <2>7. \A f \in BatchFacts(b) : f \in ToSet(b.messages) \/ f \in marks \/ f \in links \/ f \in chats
    BY DEF BatchFacts
  <2>8. Sent(BatchFacts(b)) \subseteq Arriving
    <3> HIDE DEF marks, links, chats
    <3> QED BY <2>3, <2>4, <2>5, <2>6, <2>7 DEF Sent
  <2> QED
    BY <2>1, <2>8, ArrivedMore
<1> QED
  BY <1>1, <1>2, <1>3, <1>4, <1>5, <1>6, <1>7, <1>8, <1>9, <1>10 DEF Next

\* Each preview is right, too.
NewestInv == ConvInv /\ AllNewest(db, {})

LEMMA NewestHolds ==
  ASSUME OwnStayInChat
  PROVE  Spec => []NewestInv
<1> DEFINE Inv == ConvInv /\ AllArrived /\ AllNewest(db, {})
<1>1. Init => Inv
  <2>1. Sent({}) \subseteq Arriving
    BY NothingSent
  <2> QED
    BY <2>1, InitHeld DEF AllArrived
<1>2. Inv /\ [Next]_vars => Inv'
  <2> SUFFICES ASSUME Inv, [Next]_vars PROVE Inv'
    OBVIOUS
  <2> SUFFICES ConvInv' /\ AllArrived' /\ NewestKept
    BY DEF NewestKept
  <2>1. CASE ReceiveMessage
    BY <2>1, ReceiveMessageKeeps, AllArrive DEF Next
  <2>2. CASE Reserve
    BY <2>2, ReserveKeeps, AllArrive DEF Next
  <2>3. CASE Complete
    BY <2>3, CompleteKeeps, AllArrive DEF Next
  <2>4. CASE BeginRead \/ RecordRead \/ EndRead
    BY <2>4, BeginReadKeeps, RecordReadKeeps, EndReadKeeps, AllArrive DEF Next
  <2>5. CASE ReceiveReaction
    BY <2>5, ReceiveReactionKeeps, AllArrive DEF Next
  <2>6. CASE ReceiveReceipt
    BY <2>6, ReceiveReceiptKeeps, AllArrive DEF Next
  <2>7. CASE ReceiveChange
    BY <2>7, ReceiveChangeKeeps, AllArrive DEF Next
  <2>8. CASE ReceiveProfile
    BY <2>8, ReceiveProfileKeeps, AllArrive DEF Next
  <2>9. CASE CreateConversation
    BY <2>9, CreateConversationKeeps, AllArrive DEF Next
  <2>10. CASE ReceiveHistory
    <3>1. \A b \in Of("history") : OwnStayIn(received, b)
      BY DEF OwnStayInChat, OwnStayIn, AllArrived
    <3> QED
      BY <2>10, <3>1, ReceiveHistoryKeeps, AllArrive DEF Next
  <2>11. CASE UNCHANGED vars
    <3>1. received' = received /\ ConvInv' /\ NewestKept
      BY <2>11, StutterKeeps
    <3> QED
      BY <3>1 DEF AllArrived
  <2> QED
    BY <2>1, <2>2, <2>3, <2>4, <2>5, <2>6, <2>7, <2>8, <2>9, <2>10, <2>11 DEF Next
<1>3. Inv => NewestInv
  BY DEF NewestInv
<1> QED
  BY <1>1, <1>2, <1>3, PTL DEF Spec

(* The preview of a conversation is its newest message, after sends, echoes *)
(* that move a message in time, merges and batches (refreshConversationTx), *)
(* when batches name the chats that their own messages were sent to.        *)
THEOREM LastIsNewestHolds ==
  ASSUME OwnStayInChat
  PROVE  Spec => []LastIsNewest
<1>1. NewestInv => LastIsNewest
  BY DEF NewestInv, LastIsNewest, AllNewest, IsNewest, LastOf
<1>2. Spec => []NewestInv
  BY NewestHolds
<1> QED
  BY <1>1, <1>2, PTL

LEMMA ReceivedGrows ==
  ASSUME [Next]_vars
  PROVE  received \subseteq received'
<1>1. ASSUME NEW d, NEW facts, NEW told, Write(d, facts, told) PROVE received \subseteq received'
  BY <1>1 DEF Write
<1>2. CASE UNCHANGED vars
  BY <1>2 DEF vars
<1>3. CASE BeginRead \/ EndRead
  BY <1>3 DEF BeginRead, EndRead
<1>4. CASE RecordRead
  BY <1>4 DEF RecordRead, Write
<1>5. CASE Next /\ ~(BeginRead \/ RecordRead \/ EndRead)
  <2>1. Next /\ ~(BeginRead \/ RecordRead \/ EndRead) => \E d, facts, told : Write(d, facts, told)
    <3>1. ReceiveMessage => \E d, facts, told : Write(d, facts, told)
      BY Zenon DEF ReceiveMessage, Commit
    <3>2. Reserve => \E d, facts, told : Write(d, facts, told)
      BY Zenon DEF Reserve, Commit
    <3>3. Complete => \E d, facts, told : Write(d, facts, told)
      BY Zenon DEF Complete, Commit
    <3>5. ReceiveReaction => \E d, facts, told : Write(d, facts, told)
      BY Zenon DEF ReceiveReaction, Commit
    <3>6. ReceiveReceipt => \E d, facts, told : Write(d, facts, told)
      BY Zenon DEF ReceiveReceipt, Commit
    <3>7. ReceiveChange => \E d, facts, told : Write(d, facts, told)
      BY Zenon DEF ReceiveChange, Commit
    <3>8. ReceiveProfile => \E d, facts, told : Write(d, facts, told)
      BY Zenon DEF ReceiveProfile, Commit
    <3>9. CreateConversation => \E d, facts, told : Write(d, facts, told)
      BY Zenon DEF CreateConversation, Commit
    <3>10. ReceiveHistory => \E d, facts, told : Write(d, facts, told)
      BY Zenon DEF ReceiveHistory, Commit
    <3> QED
      BY <3>1, <3>2, <3>3, <3>5, <3>6, <3>7, <3>8, <3>9, <3>10 DEF Next
  <2> QED
    BY <1>1, <1>5, <2>1
<1> QED
  BY <1>2, <1>3, <1>4, <1>5

---------------------------------------------------------------------------
(* What a client shows of each conversation                                *)

\* The marks on messages of c
MarksOn(S, d, c) == {x \in S : x.chat \in Jid /\ d.alias[x.chat] = c}

\* c has the same names, messages, preview and marks in both.
ShownSame(d, e, c) ==
  /\ \A j \in Jid : e.alias[j] = c <=> d.alias[j] = c
  /\ RowsIn(e, c) = RowsIn(d, c) /\ LastOf(e, c) = LastOf(d, c)
  /\ MarksOn(e.reactions, e, c) = MarksOn(d.reactions, d, c)
  /\ MarksOn(e.receipts, e, c) = MarksOn(d.receipts, d, c)
  /\ MarksOn(e.changes, e, c) = MarksOn(d.changes, d, c)

\* Only conversations in C are other ones.
OnlyIn(d, e, C) == \A c : c # 0 /\ c \notin C => ShownSame(d, e, c)

LEMMA ShownSameIsSeen ==
  ASSUME NEW d, NEW e, NEW c, ShownSame(d, e, c)
  PROVE  View(e, c) = View(d, c) /\ (c \in Conversations(e) => c \in Conversations(d))
<1>1. \A S, f, r : About(S, f, r) = {x \in MarksOn(S, f, r.conv) : x.target = r.pid}
  BY DEF About, Chats, MarksOn
<1>2. ASSUME NEW r \in RowsIn(d, c)
      PROVE  /\ About(e.reactions, e, r) = About(d.reactions, d, r)
             /\ About(e.receipts, e, r) = About(d.receipts, d, r)
             /\ About(e.changes, e, r) = About(d.changes, d, r)
  <2>1. r.conv = c
    BY DEF RowsIn
  <2> QED
    BY <1>1, <2>1 DEF ShownSame
<1>3. ASSUME NEW r \in RowsIn(d, c)
      PROVE  Reactions(e, r) = Reactions(d, r) /\ Receipts(e, r) = Receipts(d, r)
             /\ Changes(e, r) = Changes(d, r)
  <2>1. Reactions(e, r) = Reactions(d, r)
    BY <1>2, Zenon DEF Reactions
  <2>2. Receipts(e, r) = Receipts(d, r)
    BY <1>2, Zenon DEF Receipts
  <2>3. Changes(e, r) = Changes(d, r)
    BY <1>2, Zenon DEF Changes
  <2> QED
    BY <2>1, <2>2, <2>3
<1> DEFINE Shown(f, r) == [row |-> r, reactions |-> Reactions(f, r), receipts |-> Receipts(f, r),
                           changes |-> Changes(f, r)]
<1>4. {Shown(e, r) : r \in RowsIn(e, c)} = {Shown(d, r) : r \in RowsIn(d, c)}
  <2>1. \A r \in RowsIn(d, c) : Shown(e, r) = Shown(d, r)
    BY <1>3
  <2>2. RowsIn(e, c) = RowsIn(d, c)
    BY DEF ShownSame
  <2> HIDE DEF Shown
  <2> QED
    BY <2>1, <2>2
<1>5. {l \in e.last : l.conv = c} = {l \in d.last : l.conv = c}
  BY DEF ShownSame, LastOf
<1>6. View(e, c) = View(d, c)
  BY <1>4, <1>5, Zenon DEF View
<1> QED
  BY <1>6 DEF ShownSame, Conversations

LEMMA OnlyInBoth ==
  ASSUME NEW d, NEW e, NEW g, NEW C, OnlyIn(d, e, C), OnlyIn(e, g, C)
  PROVE  OnlyIn(d, g, C)
BY DEF OnlyIn, ShownSame

LEMMA OnlyInMore ==
  ASSUME NEW d, NEW e, NEW C, OnlyIn(d, e, C), NEW D, C \subseteq D
  PROVE  OnlyIn(d, e, D)
BY DEF OnlyIn

LEMMA OnlyInNone ==
  ASSUME NEW d, NEW C
  PROVE  OnlyIn(d, d, C)
BY DEF OnlyIn, ShownSame

\* Rows and previews are other ones, aliases and marks are not.
LEMMA OnlyRows ==
  ASSUME NEW d, NEW e, NEW C, e.alias = d.alias,
         e.reactions = d.reactions, e.receipts = d.receipts, e.changes = d.changes,
         \A c : c # 0 /\ c \notin C => RowsIn(e, c) = RowsIn(d, c) /\ LastOf(e, c) = LastOf(d, c)
  PROVE  OnlyIn(d, e, C)
<1>1. \A S, c : MarksOn(S, e, c) = MarksOn(S, d, c)
  BY DEF MarksOn
<1> QED
  BY <1>1 DEF OnlyIn, ShownSame

\* refreshConversationTx concerns c only.
LEMMA RefreshOnly ==
  ASSUME NEW d, TablesTyped(d), RowsTyped(d), NEW c
  PROVE  OnlyIn(d, Refresh(d, c), {c})
<1> DEFINE e == Refresh(d, c)
<1>1. SameTables(d, e) /\ SameMarks(d, e)
  BY RefreshKeeps
<1>2. \A x : x # c => LastOf(e, x) = LastOf(d, x)
  BY RowsAreApart, RefreshNewest
<1> HIDE DEF e
<1>3. \A x : RowsIn(e, x) = RowsIn(d, x)
  BY <1>1 DEF SameTables, RowsIn
<1>4. OnlyIn(d, e, {c})
  BY <1>1, <1>2, <1>3, OnlyRows DEF SameTables, SameMarks
<1> QED
  BY <1>4 DEF e

LEMMA NewestIsOne ==
  ASSUME NEW d, NEW e, NEW c, RowsApart(d), RowsIn(e, c) = RowsIn(d, c), IsNewest(d, c), IsNewest(e, c)
  PROVE  LastOf(e, c) = LastOf(d, c)
<1>1. PICK r \in RowsIn(d, c) : /\ \A s \in RowsIn(d, c) \ {r} : Newer(r, s)
                                /\ LastOf(d, c) = {[conv |-> c, row |-> r.id, at |-> r.at]}
  BY DEF IsNewest
<1>2. PICK s \in RowsIn(d, c) : /\ \A t \in RowsIn(d, c) \ {s} : Newer(s, t)
                                /\ LastOf(e, c) = {[conv |-> c, row |-> s.id, at |-> s.at]}
  BY DEF IsNewest
<1>3. r = s
  <2>1. r \in d.rows /\ s \in d.rows
    BY DEF RowsIn
  <2>2. ~(Newer(r, s) /\ Newer(s, r))
    BY <2>1, NewerIsTotal
  <2> QED
    BY <1>1, <1>2, <2>2
<1> QED
  BY <1>1, <1>2, <1>3

\* It changes nothing when the preview is right.
LEMMA RefreshIdle ==
  ASSUME NEW d, TablesTyped(d), RowsTyped(d), AllNewest(d, {}), NEW c
  PROVE  OnlyIn(d, Refresh(d, c), {})
<1> DEFINE e == Refresh(d, c)
<1>1. SameTables(d, e) /\ SameMarks(d, e)
  BY RefreshKeeps
<1>2. /\ RowsIn(d, c) # {} => IsNewest(e, c)
      /\ \A x : x # c => LastOf(e, x) = LastOf(d, x)
  BY RowsAreApart, RefreshNewest
<1>3. RowsIn(d, c) = {} => e = d
  BY DEF Refresh
<1> HIDE DEF e
<1>4. \A x : RowsIn(e, x) = RowsIn(d, x)
  BY <1>1 DEF SameTables, RowsIn
<1>5. ASSUME RowsIn(d, c) # {} PROVE LastOf(e, c) = LastOf(d, c)
  <2>1. c \in Conversations(d)
    BY <1>5 DEF RowsIn, RowsTyped
  <2>2. IsNewest(d, c)
    BY <1>5, <2>1 DEF AllNewest
  <2> QED
    BY <1>2, <1>4, <1>5, <2>2, NewestIsOne, RowsAreApart
<1>6. \A x : LastOf(e, x) = LastOf(d, x)
  BY <1>2, <1>3, <1>5
<1>7. OnlyIn(d, e, {})
  BY <1>1, <1>4, <1>6, OnlyRows DEF SameTables, SameMarks
<1> QED
  BY <1>7 DEF e

---------------------------------------------------------------------------
(* A chat that needs no merge                                              *)

LEMMA MergeOfNone ==
  ASSUME NEW d, NEW target
  PROVE  MergeAll(d, target, {}) = d
<1> DEFINE p == [base |-> d, target |-> target]
<1>1. Merges!Fold(p, d, {}) = d
  BY Merges!FoldOfNone
<1>2. MergeAll(d, target, {}) = Merges!Fold(p, d, {})
  BY DEF MergeAll, Merges!Fold, MapThenFoldSet, Merges!MapThenFoldSet, MergeOp
<1> QED
  BY <1>1, <1>2

\* The names have one conversation, or none; then alias is what they will have.
Alone(d, jid, aliases, alias) ==
  LET jids == Linked(d.links, {jid} \cup aliases)
  IN  Known(d, jids) \subseteq {Target(d, jids)} /\ alias = Ensured(d, jids)

LEMMA EnsureAlone ==
  ASSUME NEW d, TablesTyped(d), NEW jid, NEW aliases, NEW alias, Alone(d, jid, aliases, alias),
         NEW e, e = EnsureConversation(d, jid, aliases)
  PROVE  e = [links |-> d.links, alias |-> alias, rows |-> d.rows, keys |-> d.keys, last |-> d.last,
              reactions |-> d.reactions, receipts |-> d.receipts, changes |-> d.changes]
<1> DEFINE jids   == Linked(d.links, {jid} \cup aliases)
           known  == Known(d, jids)
           target == Target(d, jids)
           merged == MergeAll(d, target, known \ {target})
           ensured == [j \in Jid |-> IF j \in jids THEN target ELSE merged.alias[j]]
<1>1. EnsureConversation(d, jid, aliases) = [merged EXCEPT !.alias = ensured]
  BY DEF EnsureConversation, Known, Target
<1>2. known \ {target} = {} /\ alias = Ensured(d, jids)
  BY DEF Alone
<1> HIDE DEF known, target, jids
<1>3. merged = d
  BY <1>2, MergeOfNone
<1>4. ensured = Ensured(d, jids)
  <2>1. ASSUME NEW j \in Jid PROVE (j \in jids \/ d.alias[j] \in known) /\ j \notin jids => d.alias[j] = target
    BY <1>2
  <2> HIDE DEF merged
  <2> QED
    BY <1>3, <2>1 DEF Ensured, known, target
<1> HIDE DEF merged, ensured
<1>5. e = [d EXCEPT !.alias = alias]
  BY <1>1, <1>2, <1>3, <1>4
<1> QED
  BY <1>5 DEF TablesTyped

\* Names that are linked have one conversation, or none.
Shared(d) == \A i \in Jid : \A j \in Linked(d.links, {i}) : d.alias[j] = d.alias[i]

LEMMA LinkedShare ==
  ASSUME NEW d, NEW H, Held(d, H)
  PROVE  Shared(d)
<1> SUFFICES ASSUME NEW i \in Jid, NEW j \in Linked(d.links, {i}) PROVE d.alias[j] = d.alias[i]
  BY DEF Shared
<1> DEFINE C == {k \in Jid : d.alias[k] = d.alias[i]}
<1>1. ASSUME NEW l \in d.links, l \cap C # {} PROVE l \subseteq C
  <2>1. l \subseteq Jid /\ l \in Group(H)
    BY DEF Held, TablesTyped, LinksHeld, Group
  <2> QED
    BY <1>1, <2>1 DEF Held, AliasesHeld
<1>2. C \in SUBSET Jid /\ {i} \subseteq C /\ ClosedUnder(d.links, C)
  BY <1>1 DEF ClosedUnder
<1> HIDE DEF C
<1>3. Linked(d.links, {i}) \subseteq C
  BY <1>2, LinkedIsLeast
<1> QED
  BY <1>3 DEF C

\* So ensuring it merges nothing, and at most the conversation is new.
LEMMA EnsureOnly ==
  ASSUME NEW d, TablesTyped(d), Shared(d), NEW jid \in Jid, NEW aliases \in SUBSET Linked(d.links, {jid}),
         NEW e, e = EnsureConversation(d, jid, aliases)
  PROVE  OnlyIn(d, e, {e.alias[jid]}) /\ (d.alias[jid] # 0 => e = d)
<1>0. PICK jids : jids = Linked(d.links, {jid} \cup aliases)
  OBVIOUS
<1>1. jids \in SUBSET Jid /\ jid \in jids /\ \A j \in jids : d.alias[j] = d.alias[jid]
  <2>1. jid \in Linked(d.links, {jid}) /\ d.links \in SUBSET SUBSET Jid
    BY LinkedHas DEF TablesTyped
  <2>2. {jid} \cup aliases \in SUBSET Linked(d.links, {jid})
    BY <2>1
  <2>3. jids \subseteq Linked(d.links, {jid})
    BY <1>0, <2>1, <2>2, LinkedIsTransitive
  <2>4. {jid} \cup aliases \in SUBSET Jid
    BY <2>2, LinkedHas
  <2>5. jids \in SUBSET Jid /\ jid \in jids
    BY <1>0, <2>4, LinkedHas
  <2> QED
    BY <2>3, <2>5, Zenon DEF Shared
<1>2. Known(d, jids) = {d.alias[jid]} \ {0}
  BY <1>1 DEF Known
<1>3. /\ Target(d, jids) \in Nat \ {0}
      /\ Known(d, jids) # {} => Target(d, jids) \in Known(d, jids)
      /\ Known(d, jids) = {} => \A j \in Jid : d.alias[j] # Target(d, jids)
  BY <1>1, TargetOf
<1>4. PICK alias : alias = Ensured(d, jids)
  OBVIOUS
<1>6. e = [links |-> d.links, alias |-> alias, rows |-> d.rows, keys |-> d.keys, last |-> d.last,
           reactions |-> d.reactions, receipts |-> d.receipts, changes |-> d.changes]
  <2>1. Known(d, jids) \subseteq {Target(d, jids)}
    BY <1>2, <1>3
  <2>2. Alone(d, jid, aliases, alias)
    BY <1>0, <1>4, <2>1 DEF Alone
  <2> QED
    BY <2>2, EnsureAlone
<1>7. CASE d.alias[jid] # 0
  <2>1. Target(d, jids) = d.alias[jid] /\ Known(d, jids) = {d.alias[jid]}
    BY <1>2, <1>3, <1>7
  <2>2. alias = d.alias
    <3>1. ASSUME NEW j \in Jid PROVE alias[j] = d.alias[j]
      BY <1>1, <1>4, <2>1 DEF Ensured
    <3>2. alias = [j \in Jid |-> alias[j]] /\ d.alias = [j \in Jid |-> d.alias[j]]
      BY <1>4 DEF Ensured, TablesTyped
    <3> QED
      BY <3>1, <3>2
  <2>3. e = d
    BY <1>6, <2>2 DEF TablesTyped
  <2>4. OnlyIn(d, d, {e.alias[jid]})
    BY OnlyInNone
  <2> QED
    BY <1>7, <2>3, <2>4, Zenon
<1>8. CASE d.alias[jid] = 0
  <2>1. Known(d, jids) = {} /\ \A j \in jids : d.alias[j] = 0
    BY <1>1, <1>2, <1>8
  <2>2. PICK t : t = Target(d, jids)
    OBVIOUS
  <2>3. t # 0 /\ \A j \in Jid : e.alias[j] = IF j \in jids THEN t ELSE d.alias[j]
    BY <1>3, <1>4, <1>6, <2>1, <2>2 DEF Ensured
  <2>4. e.alias[jid] = t
    BY <1>1, <2>3
  <2>5. ASSUME NEW c, c # 0, c # t
        PROVE  ShownSame(d, e, c)
    <3>1. \A j \in Jid : e.alias[j] = c <=> d.alias[j] = c
      BY <2>1, <2>3, <2>5
    <3>2. \A S : MarksOn(S, e, c) = MarksOn(S, d, c)
      BY <3>1 DEF MarksOn
    <3>3. /\ e.rows = d.rows /\ e.last = d.last /\ e.reactions = d.reactions
          /\ e.receipts = d.receipts /\ e.changes = d.changes
      BY <1>6
    <3> QED
      BY <3>1, <3>2, <3>3 DEF ShownSame, RowsIn, LastOf
  <2> QED
    BY <1>8, <2>4, <2>5 DEF OnlyIn
<1> QED
  BY <1>7, <1>8

\* Ensuring it for a name that is linked already changes nothing.
LEMMA EnsureIdle ==
  ASSUME NEW d, TablesTyped(d), Shared(d), NEW a \in Jid, NEW b \in Linked(d.links, {a}),
         d.alias[a] # 0
  PROVE  EnsureConversation(d, a, {b}) = d
<1>1. {b} \in SUBSET Linked(d.links, {a})
  OBVIOUS
<1>2. PICK names, e : names = {b} /\ e = EnsureConversation(d, a, names)
  OBVIOUS
<1>3. names \in SUBSET Linked(d.links, {a})
  BY <1>1, <1>2
<1>4. e = d
  BY <1>2, <1>3, EnsureOnly
<1> QED
  BY <1>2, <1>4

---------------------------------------------------------------------------
(* A link between names that are linked                                    *)

LEMMA LinkedAlready ==
  ASSUME NEW links, NEW a, NEW b, NEW more, OneMore(more, links, a, b), b \in Linked(links, {a}),
         NEW j \in Jid
  PROVE  Linked(more, {j}) = Linked(links, {j})
<1> DEFINE C == Linked(links, {j})
<1>1. links \in SUBSET SUBSET Jid /\ a \in Jid /\ b \in Jid /\ more = links \cup {{a, b}}
  BY DEF OneMore
<1>2. ClosedUnder(links, C) /\ j \in C /\ C \in SUBSET Jid
  BY <1>1, LinkedIsClosed, LinkedHas
<1>3. a \in C => b \in C
  <2>1. ASSUME a \in C PROVE Linked(links, {a}) \subseteq C
    BY <1>1, <2>1, LinkedIsTransitive
  <2> QED
    BY <2>1
<1>4. b \in C => a \in C
  <2>1. ASSUME b \in C PROVE Linked(links, {b}) \subseteq C
    BY <1>1, <2>1, LinkedIsTransitive
  <2>2. a \in Linked(links, {b})
    BY <1>1, LinkedIsSymmetric
  <2> QED
    BY <2>1, <2>2
<1>5. C \subseteq Linked(more, {j})
  BY <1>1, LinkedGrows
<1> HIDE DEF C
<1>6. ClosedUnder(more, C)
  BY <1>1, <1>2, <1>3, <1>4 DEF ClosedUnder
<1>7. Linked(more, {j}) \subseteq C
  BY <1>2, <1>6, LinkedIsLeast
<1> QED
  BY <1>5, <1>7 DEF C

\* The marks and names are the same in both.
SameNames(d, e) ==
  /\ e.reactions = d.reactions /\ e.receipts = d.receipts /\ e.changes = d.changes
  /\ e.alias = d.alias /\ \A j \in Jid : Canonical(e.links, j) = Canonical(d.links, j)

\* Only the links are other ones, and they link no more names.
Relinked(d, e) ==
  /\ SameNames(d, e) /\ e.rows = d.rows /\ e.last = d.last
  /\ \A j \in Jid : Linked(e.links, {j}) = Linked(d.links, {j})

LEMMA LinkedDbSame ==
  ASSUME NEW d, NEW H, Held(d, H), NEW a \in Jid, NEW b \in Jid, b \in Linked(d.links, {a}),
         NEW e, e = LinkedDb(d, a, b)
  PROVE  Relinked(d, e)
<1>1. /\ e.links = d.links \cup {{a, b}}
      /\ e.alias = d.alias /\ e.rows = d.rows /\ e.keys = d.keys /\ e.last = d.last
      /\ e.reactions = Winners(Renamed(e, d.reactions, a))
      /\ e.receipts = Earliest(Renamed(e, d.receipts, a)) /\ e.changes = d.changes
  BY LinkedDbKeeps DEF Held
<1>2. d.links \in SUBSET SUBSET Jid /\ MarksKept(d, H)
  BY LinkedHolds DEF Held, TablesTyped
<1>3. ASSUME NEW j \in Jid PROVE Linked(e.links, {j}) = Linked(d.links, {j})
  BY <1>1, <1>2, LinkedAlready DEF OneMore
<1>4. \A j \in Jid : Canonical(e.links, j) = Canonical(d.links, j)
  BY <1>3 DEF Canonical
<1>5. MarksKept(e, H)
  BY <1>1, <1>2, LinkedMarks
<1>6. \A f \in Marks(H, "reaction") : Participant(e, f) = Participant(d, f)
  BY <1>2, <1>4 DEF MarksKept, IsReaction, Name, Participant
<1>7. \A f \in Marks(H, "receipt") : Participant(e, f) = Participant(d, f)
  BY <1>2, <1>4 DEF MarksKept, IsReceipt, Participant
<1>8. e.reactions = d.reactions
  <2>1. {Reacted(f, Participant(e, f)) : f \in Marks(H, "reaction")}
          = {Reacted(f, Participant(d, f)) : f \in Marks(H, "reaction")}
    BY <1>6
  <2> QED
    BY <1>2, <1>5, <2>1, Zenon DEF MarksKept
<1>9. e.receipts = d.receipts
  <2>1. {Receipt(f, Participant(e, f)) : f \in Marks(H, "receipt")}
          = {Receipt(f, Participant(d, f)) : f \in Marks(H, "receipt")}
    BY <1>7
  <2> QED
    BY <1>2, <1>5, <2>1, Zenon DEF MarksKept
<1> QED
  BY <1>1, <1>3, <1>4, <1>8, <1>9 DEF SameNames, Relinked

\* Nothing that is shown changes with it.
LEMMA AddLinkOnly ==
  ASSUME NEW d, NEW H, Held(d, H), AllNewest(d, {}), NEW a \in Name, NEW b \in Name,
         a # 0 /\ b # 0 => b \in Linked(d.links, {a}), NEW e, e = AddLink(d, a, b)
  PROVE  OnlyIn(d, e, {}) /\ SameNames(d, e)
<1>1. CASE a = 0 \/ b = 0 \/ a = b
  <2>1. e = d
    BY <1>1 DEF AddLink
  <2> QED
    BY <2>1, OnlyInNone DEF SameNames
<1>2. CASE ~(a = 0 \/ b = 0 \/ a = b)
  <2>1. a \in Jid /\ b \in Jid /\ b \in Linked(d.links, {a})
    BY <1>2 DEF Name
  <2>2. PICK l : l = LinkedDb(d, a, b)
    OBVIOUS
  <2>3. PICK joined : joined = EnsureConversation(l, a, {b})
    OBVIOUS
  <2>4. e = IF d.alias[a] = 0 /\ d.alias[b] = 0 THEN l ELSE Refresh(joined, joined.alias[a])
    BY <1>2, <2>2, <2>3 DEF AddLink, LinkedDb
  <2>11. Relinked(d, l)
    BY <2>1, <2>2, LinkedDbSame
  <2>5. /\ SameNames(d, l) /\ l.rows = d.rows /\ l.last = d.last
        /\ \A j \in Jid : Linked(l.links, {j}) = Linked(d.links, {j})
    BY <2>11 DEF Relinked
  <2>6. TablesTyped(l) /\ RowsTyped(l)
    <3>1. TablesTyped(l)
      BY <2>1, <2>2, LinkedDbKeeps DEF Held
    <3>2. Conversations(l) = Conversations(d)
      BY <2>5 DEF SameNames, Conversations
    <3> QED
      BY <2>5, <3>1, <3>2 DEF Held, RowsTyped
  <2>7. OnlyIn(d, l, {})
    BY <2>5, OnlyRows DEF SameNames, RowsIn, LastOf
  <2>8. Shared(d) /\ Shared(l)
    <3>1. Shared(d)
      BY LinkedShare DEF Shared
    <3>2. \A j \in Jid : l.alias[j] = d.alias[j]
      BY <2>5 DEF SameNames
    <3>3. \A i \in Jid : \A j \in Linked(l.links, {i}) : j \in Linked(d.links, {i}) /\ d.alias[j] = d.alias[i]
      BY <2>5, <3>1 DEF Shared
    <3>4. Shared(l)
      BY <2>5, <3>3 DEF SameNames, Shared
    <3> QED
      BY <3>1, <3>4
  <2>9. CASE d.alias[a] = 0
    BY <2>1, <2>4, <2>5, <2>7, <2>8, <2>9 DEF Shared
  <2>10. CASE d.alias[a] # 0
    <3>1. l.alias[a] # 0 /\ b \in Linked(l.links, {a})
      BY <2>1, <2>5, <2>10 DEF SameNames
    <3>2. joined = l
      BY <2>1, <2>3, <2>6, <2>8, <3>1, EnsureIdle
    <3>3. e = Refresh(l, l.alias[a])
      BY <2>4, <2>10, <3>2
    <3>4. AllNewest(l, {})
      BY <2>5, SameKeepsNewest DEF Held, KeepsNewest
    <3>5. OnlyIn(l, e, {}) /\ SameTables(l, e) /\ SameMarks(l, e)
      BY <2>6, <3>3, <3>4, RefreshIdle, RefreshKeeps
    <3>6. SameNames(d, e)
      BY <2>5, <3>5 DEF SameNames, SameTables, SameMarks
    <3> QED
      BY <2>7, <3>5, <3>6, OnlyInBoth
  <2> QED
    BY <2>9, <2>10
<1> QED
  BY <1>1, <1>2

---------------------------------------------------------------------------
(* Marks of one chat                                                       *)

\* S and Q differ in marks of chat only.
Elsewhere(S, Q, chat) == \A x \in S \cup Q : x.chat # chat => (x \in Q <=> x \in S)

LEMMA WinnersElsewhere ==
  ASSUME NEW T, NEW S, S = Winners(T), NEW n
  PROVE  Elsewhere(S, Winners(S \cup {n}), n.chat)
<1>1. \A x : x.chat # n.chat => Mark(n) # Mark(x)
  BY DEF Mark
<1>2. S \subseteq T
  BY DEF Winners
<1>3. ASSUME NEW x \in S, x.chat # n.chat PROVE x \in Winners(S \cup {n})
  BY <1>1, <1>2, <1>3 DEF Winners
<1>4. ASSUME NEW x \in Winners(S \cup {n}), x.chat # n.chat PROVE x \in S
  BY <1>4 DEF Winners
<1> QED
  BY <1>3, <1>4 DEF Elsewhere

LEMMA EarliestElsewhere ==
  ASSUME NEW T, AllTimed(T), NEW S, S = Earliest(T), NEW n, IsTimed(n)
  PROVE  Elsewhere(S, Earliest(S \cup {n}), n.chat)
<1> DEFINE U == S \cup {n}
<1>1. \A x : x.chat # n.chat => Mark(n) # Mark(x)
  BY DEF Mark
<1>2. S = {Combined(T, x) : x \in T} /\ \A x \in T : Mark(Combined(T, x)) = Mark(x)
  BY EarliestIs
<1>3. AllTimed(S)
  BY EarliestOf
<1>4. ASSUME NEW x \in S, NEW y \in S, Mark(x) = Mark(y) PROVE x = y
  <2>1. PICK s \in T : x = Combined(T, s)
    BY <1>2
  <2>2. PICK t \in T : y = Combined(T, t)
    BY <1>2
  <2>3. Mark(s) = Mark(t)
    BY <1>2, <1>4, <2>1, <2>2
  <2>4. DeliveredOf(T, s) = DeliveredOf(T, t) /\ ReadOf(T, s) = ReadOf(T, t)
    BY <2>3 DEF DeliveredOf, ReadOf
  <2>5. s.chat = t.chat /\ s.target = t.target /\ s.by = t.by
    BY <2>3 DEF Mark
  <2> QED
    BY <2>1, <2>2, <2>4, <2>5 DEF Combined
<1>5. AllTimed(U)
  BY <1>3 DEF AllTimed
<1>6. Earliest(U) = {Combined(U, x) : x \in U}
  BY <1>5, EarliestIs
<1>7. ASSUME NEW x \in S, x.chat # n.chat PROVE Combined(U, x) = x
  <2>1. {z \in U : Mark(z) = Mark(x)} = {x}
    BY <1>1, <1>4, <1>7
  <2>2. DeliveredOf(U, x) = {x.delivered} /\ ReadOf(U, x) = {x.read}
    BY <2>1 DEF DeliveredOf, ReadOf
  <2>3. x = [chat |-> x.chat, target |-> x.target, by |-> x.by, delivered |-> x.delivered, read |-> x.read]
        /\ x.delivered \in Nat /\ x.read \in Nat
    BY <1>3 DEF AllTimed, IsTimed
  <2>4. \A k \in Nat : Least0({k}) = k
    <3>1. ASSUME NEW k \in Nat PROVE Least0({k}) = k
      <4>1. {k} \in SUBSET Nat
        OBVIOUS
      <4>2. /\ Least0({k}) = 0 => {k} \subseteq {0}
            /\ Least0({k}) # 0 => Least0({k}) \in {k}
        BY <4>1, Least0Of
      <4> QED
        BY <4>2
    <3> QED
      BY <3>1
  <2>5. Least0({x.delivered}) = x.delivered /\ Least0({x.read}) = x.read
    BY <2>3, <2>4
  <2> QED
    BY <2>2, <2>3, <2>5 DEF Combined
<1>8. Combined(U, n).chat = n.chat
  BY DEF Combined
<1> HIDE DEF U
<1>9. \A x \in U : x = n \/ x \in S
  BY DEF U
<1>10. S \subseteq U
  BY DEF U
<1>12. Earliest(S \cup {n}) = Earliest(U)
  BY DEF U
<1>11. ASSUME NEW y PROVE (y \in Earliest(U) /\ y.chat # n.chat) <=> (y \in S /\ y.chat # n.chat)
  <2>1. ASSUME y \in Earliest(U), y.chat # n.chat PROVE y \in S
    <3>1. PICK x \in U : y = Combined(U, x)
      BY <1>6, <2>1
    <3>2. x # n
      BY <1>8, <2>1, <3>1
    <3>3. x \in S /\ x.chat # n.chat
      BY <1>9, <2>1, <3>1, <3>2 DEF Combined
    <3> QED
      BY <1>7, <3>1, <3>3
  <2>2. ASSUME y \in S, y.chat # n.chat PROVE y \in Earliest(U)
    BY <1>6, <1>7, <1>10, <2>2
  <2> QED
    BY <2>1, <2>2
<1> QED
  BY <1>11, <1>12 DEF Elsewhere

---------------------------------------------------------------------------
(* What each transaction changes of what is shown                          *)

LEMMA SaveReactionOnly ==
  ASSUME NEW d, NEW H, Held(d, H), AllNewest(d, {}), NEW x, IsReaction(x),
         x.by # 0 /\ x.aka # 0 => x.aka \in Linked(d.links, {x.by}), NEW e, e = SaveReaction(d, x)
  PROVE  OnlyIn(d, e, IF e.reactions # d.reactions THEN {e.alias[x.chat]} \ {0} ELSE {})
<1>1. PICK l : l = IF x.by = 0 THEN d ELSE AddLink(d, x.by, x.aka)
  OBVIOUS
<1>2. OnlyIn(d, l, {}) /\ SameNames(d, l) /\ TablesTyped(l)
  <2>1. CASE x.by = 0
    <3>1. l = d
      BY <1>1, <2>1
    <3> QED
      BY <3>1, OnlyInNone DEF SameNames, Held
  <2>2. CASE x.by # 0
    <3>1. l = AddLink(d, x.by, x.aka) /\ x.by \in Name /\ x.aka \in Name
      BY <1>1, <2>2 DEF IsReaction
    <3>2. Held(l, H \cup LinkFact(x.by, x.aka, "event"))
      BY <3>1, AddLinkHeld
    <3> QED
      BY <3>1, <3>2, AddLinkOnly DEF Held
  <2> QED
    BY <2>1, <2>2
<1>3. PICK new : new = Reacted(x, Participant(l, x))
  OBVIOUS
<1>4. PICK reactions : reactions = Winners(l.reactions \cup {new})
  OBVIOUS
<1>5. e = [l EXCEPT !.reactions = reactions]
  BY <1>1, <1>3, <1>4 DEF SaveReaction
<1>6. e = [links |-> l.links, alias |-> l.alias, rows |-> l.rows, keys |-> l.keys, last |-> l.last,
           reactions |-> reactions, receipts |-> l.receipts, changes |-> l.changes]
  BY <1>2, <1>5 DEF TablesTyped
<1>7. /\ e.alias = l.alias /\ e.rows = l.rows /\ e.last = l.last
      /\ e.reactions = reactions /\ e.receipts = l.receipts /\ e.changes = l.changes
  BY <1>6
<1>8. l.reactions = d.reactions
  BY <1>2 DEF SameNames
<1>9. Elsewhere(d.reactions, reactions, x.chat)
  <2>1. PICK T : d.reactions = Winners(T)
    BY DEF Held, MarksKept
  <2>2. new.chat = x.chat
    BY <1>3 DEF Reacted
  <2>3. Elsewhere(d.reactions, Winners(d.reactions \cup {new}), new.chat)
    BY <2>1, WinnersElsewhere
  <2> QED
    BY <1>4, <1>8, <2>2, <2>3
<1>10. ASSUME NEW c, c # 0, reactions = d.reactions \/ c # e.alias[x.chat]
       PROVE  ShownSame(l, e, c)
  <2>1. RowsIn(e, c) = RowsIn(l, c) /\ LastOf(e, c) = LastOf(l, c)
    BY <1>7 DEF RowsIn, LastOf
  <2>2. \A S : MarksOn(S, e, c) = MarksOn(S, l, c)
    BY <1>7 DEF MarksOn
  <2>3. MarksOn(reactions, e, c) = MarksOn(d.reactions, e, c)
    BY <1>9, <1>10 DEF MarksOn, Elsewhere
  <2> QED
    BY <1>7, <1>8, <2>1, <2>2, <2>3 DEF ShownSame
<1>11. OnlyIn(l, e, IF e.reactions # d.reactions THEN {e.alias[x.chat]} \ {0} ELSE {})
  BY <1>7, <1>10 DEF OnlyIn
<1>12. OnlyIn(d, l, IF e.reactions # d.reactions THEN {e.alias[x.chat]} \ {0} ELSE {})
  BY <1>2, OnlyInMore
<1> QED
  BY <1>11, <1>12, OnlyInBoth

LEMMA SaveReceiptOnly ==
  ASSUME NEW d, NEW H, Held(d, H), AllNewest(d, {}), NEW x, IsReceipt(x),
         x.by # 0 /\ x.aka # 0 => x.aka \in Linked(d.links, {x.by}), NEW e, e = SaveReceipt(d, x)
  PROVE  OnlyIn(d, e, IF e.receipts # d.receipts THEN {e.alias[x.chat]} \ {0} ELSE {})
<1>1. PICK l : l = AddLink(d, x.by, x.aka)
  OBVIOUS
<1>2. OnlyIn(d, l, {}) /\ SameNames(d, l) /\ TablesTyped(l)
  <2>1. x.by \in Name /\ x.aka \in Name
    BY DEF IsReceipt, Name
  <2>2. Held(l, H \cup LinkFact(x.by, x.aka, "event"))
    BY <1>1, <2>1, AddLinkHeld
  <2> QED
    BY <1>1, <2>1, <2>2, AddLinkOnly DEF Held
<1>3. PICK new : new = Receipt(x, Participant(l, x))
  OBVIOUS
<1>4. PICK receipts : receipts = Earliest(l.receipts \cup {new})
  OBVIOUS
<1>5. e = [l EXCEPT !.receipts = receipts]
  BY <1>1, <1>3, <1>4 DEF SaveReceipt
<1>6. e = [links |-> l.links, alias |-> l.alias, rows |-> l.rows, keys |-> l.keys, last |-> l.last,
           reactions |-> l.reactions, receipts |-> receipts, changes |-> l.changes]
  BY <1>2, <1>5 DEF TablesTyped
<1>7. /\ e.alias = l.alias /\ e.rows = l.rows /\ e.last = l.last
      /\ e.reactions = l.reactions /\ e.receipts = receipts /\ e.changes = l.changes
  BY <1>6
<1>8. l.receipts = d.receipts
  BY <1>2 DEF SameNames
<1>9. Elsewhere(d.receipts, receipts, x.chat)
  <2>1. PICK T : T = {Receipt(f, Participant(d, f)) : f \in Marks(H, "receipt")}
    OBVIOUS
  <2>2. d.receipts = Earliest(T)
    BY <2>1 DEF Held, MarksKept
  <2>3. \A f, who : IsReceipt(f) => IsTimed(Receipt(f, who))
    BY DEF IsReceipt, IsTimed, Receipt
  <2>4. AllTimed(T) /\ IsTimed(new)
    BY <1>3, <2>1, <2>3 DEF Held, MarksKept, AllTimed
  <2>5. new.chat = x.chat
    BY <1>3 DEF Receipt
  <2>6. Elsewhere(d.receipts, Earliest(d.receipts \cup {new}), new.chat)
    BY <2>2, <2>4, EarliestElsewhere
  <2> QED
    BY <1>4, <1>8, <2>5, <2>6
<1>10. ASSUME NEW c, c # 0, receipts = d.receipts \/ c # e.alias[x.chat]
       PROVE  ShownSame(l, e, c)
  <2>1. RowsIn(e, c) = RowsIn(l, c) /\ LastOf(e, c) = LastOf(l, c)
    BY <1>7 DEF RowsIn, LastOf
  <2>2. \A S : MarksOn(S, e, c) = MarksOn(S, l, c)
    BY <1>7 DEF MarksOn
  <2>3. MarksOn(receipts, e, c) = MarksOn(d.receipts, e, c)
    BY <1>9, <1>10 DEF MarksOn, Elsewhere
  <2> QED
    BY <1>7, <1>8, <2>1, <2>2, <2>3 DEF ShownSame
<1>11. OnlyIn(l, e, IF e.receipts # d.receipts THEN {e.alias[x.chat]} \ {0} ELSE {})
  BY <1>7, <1>10 DEF OnlyIn
<1>12. OnlyIn(d, l, IF e.receipts # d.receipts THEN {e.alias[x.chat]} \ {0} ELSE {})
  BY <1>2, OnlyInMore
<1> QED
  BY <1>11, <1>12, OnlyInBoth

LEMMA SaveChangeOnly ==
  ASSUME NEW d, NEW H, Held(d, H), NEW x, IsChange(x), NEW e, e = SaveMessageChange(d, x)
  PROVE  OnlyIn(d, e, {d.alias[x.chat]} \ {0})
<1>1. PICK new : new = Changed(x)
  OBVIOUS
<1>2. e = [d EXCEPT !.changes = @ \cup {new}]
  BY <1>1 DEF SaveMessageChange
<1>3. e = [links |-> d.links, alias |-> d.alias, rows |-> d.rows, keys |-> d.keys, last |-> d.last,
           reactions |-> d.reactions, receipts |-> d.receipts, changes |-> d.changes \cup {new}]
  BY <1>2 DEF Held, TablesTyped
<1>4. /\ e.alias = d.alias /\ e.rows = d.rows /\ e.last = d.last
      /\ e.reactions = d.reactions /\ e.receipts = d.receipts /\ e.changes = d.changes \cup {new}
  BY <1>3
<1>5. new.chat = x.chat
  BY <1>1 DEF Changed
<1>6. Elsewhere(d.changes, e.changes, x.chat)
  BY <1>4, <1>5 DEF Elsewhere
<1>7. ASSUME NEW c, c # 0, c # d.alias[x.chat] PROVE ShownSame(d, e, c)
  <2>1. RowsIn(e, c) = RowsIn(d, c) /\ LastOf(e, c) = LastOf(d, c)
    BY <1>4 DEF RowsIn, LastOf
  <2>2. \A S : MarksOn(S, e, c) = MarksOn(S, d, c)
    BY <1>4 DEF MarksOn
  <2>3. MarksOn(e.changes, d, c) = MarksOn(d.changes, d, c)
    BY <1>6, <1>7 DEF MarksOn, Elsewhere
  <2> QED
    BY <1>4, <2>1, <2>2, <2>3 DEF ShownSame
<1> QED
  BY <1>7 DEF OnlyIn

\* One row is written again or added.
LEMMA OneRowOnly ==
  ASSUME NEW d, NEW e, NEW rows, NEW keys, NEW c,
         e = [links |-> d.links, alias |-> d.alias, rows |-> rows, keys |-> keys, last |-> d.last,
              reactions |-> d.reactions, receipts |-> d.receipts, changes |-> d.changes],
         \A r : r.conv # c => (r \in rows <=> r \in d.rows)
  PROVE  OnlyIn(d, e, {c})
<1>1. /\ e.alias = d.alias /\ e.rows = rows /\ e.last = d.last
      /\ e.reactions = d.reactions /\ e.receipts = d.receipts /\ e.changes = d.changes
  OBVIOUS
<1>2. ASSUME NEW x, x # c PROVE RowsIn(e, x) = RowsIn(d, x) /\ LastOf(e, x) = LastOf(d, x)
  BY <1>1, <1>2 DEF RowsIn, LastOf
<1> QED
  BY <1>1, <1>2, OnlyRows

LEMMA RowReplacedOnly ==
  ASSUME NEW d, TablesTyped(d), NEW r, NEW q, q.conv = r.conv,
         NEW e, e = [d EXCEPT !.rows = (@ \ {r}) \cup {q}]
  PROVE  OnlyIn(d, e, {r.conv})
<1>1. PICK rows : rows = (d.rows \ {r}) \cup {q}
  OBVIOUS
<1>2. e = [links |-> d.links, alias |-> d.alias, rows |-> rows, keys |-> d.keys, last |-> d.last,
           reactions |-> d.reactions, receipts |-> d.receipts, changes |-> d.changes]
  BY <1>1 DEF TablesTyped
<1>3. \A s : s.conv # r.conv => (s \in rows <=> s \in d.rows)
  BY <1>1
<1> QED
  BY <1>2, <1>3, OneRowOnly

LEMMA EchoedOnly ==
  ASSUME NEW d, NEW H, Held(d, H), NEW m, IsMessage(m), m.dir = "out", Outbound(d, m.pid) # {},
         NEW e, e = EchoedIn(d, m)
  PROVE  OnlyIn(d, e, {SavedIn(e, m)})
<1>1. PICK r \in d.rows : Outbound(d, m.pid) = {r} /\ r.pid = m.pid /\ r.dir = "out"
  BY DEF Outbound, Held, RowsTyped
<1> DEFINE q == [Echo(r, m) EXCEPT !.at = IF Pending(r) THEN m.at ELSE @]
<1>2. q.conv = r.conv
  <2>1. SameMessage(q, r)
    BY EchoIsSame DEF Held, RowsTyped
  <2> QED
    BY <2>1 DEF SameMessage
<1>3. e = [d EXCEPT !.rows = (@ \ {r}) \cup {q}]
  <2>1. {[Echo(s, m) EXCEPT !.at = IF Pending(s) THEN m.at ELSE @] : s \in {r}} = {q}
    OBVIOUS
  <2> HIDE DEF q
  <2> QED
    BY <1>1, <2>1, Zenon DEF EchoedIn
<1> HIDE DEF q
<1>4. SavedIn(e, m) = r.conv
  BY <1>1, EchoedHeld
<1> QED
  BY <1>2, <1>3, <1>4, RowReplacedOnly DEF Held

LEMMA WrittenOnly ==
  ASSUME NEW d, NEW e, TablesTyped(e), RowsTyped(e), NEW m, IsMessage(m), NEW c,
         NEW saved, saved = Written(d, e, m, c)
  PROVE  OnlyIn(e, saved, {c})
<1> DEFINE copy == {r \in RowsIn(e, c) : r.pid = m.pid}
           new  == [id |-> NewRow(d), conv |-> c, pid |-> m.pid, dir |-> m.dir, at |-> m.at,
                    state |-> IF m.dir = "out" THEN "sent" ELSE "received",
                    order |-> m.order, seen |-> 0]
           put  == IF copy = {} THEN {new} ELSE {Echo(r, m) : r \in copy}
<1>1. saved = [e EXCEPT !.rows = (@ \ copy) \cup put]
  BY Zenon DEF Written
<1>2. \A r \in copy : r \in e.rows /\ r.conv = c
  BY DEF RowsIn
<1>3. \A s \in put : s.conv = c
  <2>1. new.conv = c
    OBVIOUS
  <2>2. ASSUME NEW r \in copy PROVE Echo(r, m).conv = c
    <3>1. SameMessage(Echo(r, m), r)
      BY <1>2, EchoIsSame DEF RowsTyped
    <3> QED
      BY <1>2, <3>1 DEF SameMessage
  <2> HIDE DEF new, copy
  <2> QED
    BY <2>1, <2>2
<1> HIDE DEF copy, put
<1>4. PICK rows : rows = (e.rows \ copy) \cup put
  OBVIOUS
<1>5. saved = [links |-> e.links, alias |-> e.alias, rows |-> rows, keys |-> e.keys, last |-> e.last,
               reactions |-> e.reactions, receipts |-> e.receipts, changes |-> e.changes]
  BY <1>1, <1>4 DEF TablesTyped
<1>6. \A s : s.conv # c => (s \in rows <=> s \in e.rows)
  BY <1>2, <1>3, <1>4
<1> QED
  BY <1>5, <1>6, OneRowOnly

LEMMA EnsureOneOnly ==
  ASSUME NEW d, NEW H, Held(d, H), NEW jid \in Jid, NEW e, e = EnsureConversation(d, jid, {})
  PROVE  OnlyIn(d, e, {e.alias[jid]})
<1>1. PICK none : none = {}
  OBVIOUS
<1>2. none \in SUBSET Linked(d.links, {jid})
  BY <1>1
<1>3. e = EnsureConversation(d, jid, none)
  BY <1>1
<1>4. TablesTyped(d) /\ Shared(d)
  BY LinkedShare DEF Held
<1> QED
  BY <1>2, <1>3, <1>4, EnsureOnly

LEMMA WrittenSaved ==
  ASSUME NEW d, NEW H, Held(d, H), NEW m, IsMessage(m), m.dir = "out" => Outbound(d, m.pid) = {},
         NEW e, Held(e, H), From(e, d), NEW c, c # 0, e.alias[m.chat] = c,
         NEW saved, saved = Written(d, e, m, c)
  PROVE  SavedIn(saved, m) = c
<1>1. /\ Held(saved, H \cup {m}) /\ saved.alias = e.alias /\ Touches(e, saved, c)
      /\ SavedIn(saved, m) = c
  BY SavedHeld DEF WrittenTo
<1> QED
  BY <1>1

LEMMA SaveMessageOnly ==
  ASSUME NEW d, NEW H, Held(d, H), NEW m, IsMessage(m), NEW e, e = SaveMessage(d, m)
  PROVE  OnlyIn(d, e, {SavedIn(e, m)})
<1>1. PICK s : s = SaveMessageTx(d, m, 0)
  OBVIOUS
<1>2. Held(s, H \cup {m})
  BY <1>1, SaveMessageTxHeld DEF SavedTo
<1>3. OnlyIn(d, s, {SavedIn(s, m)})
  <2> DEFINE sent == IF m.dir = "out" THEN Outbound(d, m.pid) ELSE {}
  <2>1. CASE sent # {}
    <3>1. s = EchoedIn(d, m)
      BY <1>1, <2>1, Zenon DEF SaveMessageTx, EchoedIn
    <3>2. m.dir = "out" /\ Outbound(d, m.pid) # {}
      BY <2>1
    <3> QED
      BY <3>1, <3>2, EchoedOnly
  <2>2. CASE sent = {}
    <3>1. PICK ensured : ensured = EnsureConversation(d, m.chat, {})
      OBVIOUS
    <3>2. PICK c : c = ensured.alias[m.chat]
      OBVIOUS
    <3>3. s = Written(d, ensured, m, c)
      BY <1>1, <2>2, <3>1, <3>2, Zenon DEF SaveMessageTx, Written
    <3>4. Held(ensured, H) /\ From(ensured, d) /\ c # 0
      BY <3>1, <3>2, EnsureOneHeld DEF IsMessage
    <3>5. OnlyIn(d, ensured, {c})
      <4>1. m.chat \in Jid
        BY DEF IsMessage
      <4>2. OnlyIn(d, ensured, {ensured.alias[m.chat]})
        BY <3>1, <4>1, EnsureOneOnly
      <4> QED
        BY <3>2, <4>2
    <3>6. OnlyIn(ensured, s, {c})
      BY <3>3, <3>4, WrittenOnly DEF Held
    <3>7. SavedIn(s, m) = c
      <4>1. m.dir = "out" => Outbound(d, m.pid) = {}
        BY <2>2
      <4>2. ensured.alias[m.chat] = c
        BY <3>2
      <4> QED
        BY <3>3, <3>4, <4>1, <4>2, WrittenSaved
    <3> QED
      BY <3>5, <3>6, <3>7, OnlyInBoth
  <2> HIDE DEF sent
  <2> QED
    BY <2>1, <2>2
<1>4. PICK c : c = SavedIn(s, m)
  OBVIOUS
<1>5. e = Refresh(s, c)
  BY <1>1, <1>4 DEF SaveMessage
<1>6. OnlyIn(s, e, {c}) /\ SameTables(s, e)
  BY <1>2, <1>5, RefreshOnly, RefreshKeeps DEF Held
<1>7. SavedIn(e, m) = c
  <2>1. Outbound(e, m.pid) = Outbound(s, m.pid) /\ e.alias = s.alias
    BY <1>6 DEF Outbound, SameTables
  <2> DEFINE sent(f) == IF m.dir = "out" THEN Outbound(f, m.pid) ELSE {}
  <2>2. SavedIn(s, m) = IF sent(s) # {} THEN (CHOOSE r \in sent(s) : TRUE).conv ELSE s.alias[m.chat]
    BY Zenon DEF SavedIn
  <2>3. SavedIn(e, m) = IF sent(e) # {} THEN (CHOOSE r \in sent(e) : TRUE).conv ELSE e.alias[m.chat]
    BY Zenon DEF SavedIn
  <2>4. sent(e) = sent(s)
    BY <2>1
  <2> HIDE DEF sent
  <2> QED
    BY <1>4, <2>1, <2>2, <2>3, <2>4, Zenon
<1>8. OnlyIn(d, s, {c})
  BY <1>3, <1>4
<1> QED
  BY <1>6, <1>7, <1>8, OnlyInBoth

\* The row that ReserveSend adds is typed, with the others.
LEMMA ReserveOnly ==
  ASSUME NEW d, NEW H, Held(d, H), NEW x, IsRequest(x), x.type = "reserve", d.alias[x.chat] # 0,
         \A f \in H : f.type \in {"message", "reserve"} => f.pid # x.pid,
         NEW e, e = ReserveSend(d, x)
  PROVE  OnlyIn(d, e, {d.alias[x.chat]})
<1>1. PICK row : row = [id |-> NewRow(d), conv |-> d.alias[x.chat], pid |-> x.pid, dir |-> "out",
                        at |-> x.at, state |-> "queued", order |-> 0, seen |-> 0]
  OBVIOUS
<1>2. PICK c : c = d.alias[x.chat]
  OBVIOUS
<1>3. x.chat \in Jid /\ x.at \in Nat /\ c \in Nat /\ NewRow(d) \in Nat
        /\ \A r \in d.rows : r.id # NewRow(d)
  <2>1. NewRow(d) \in Nat /\ \A r \in d.rows : r.id # NewRow(d)
    BY NewRowIsFree DEF Held
  <2> QED
    BY <1>2, <2>1 DEF Held, TablesTyped, IsRequest
<1>4. IsRow(row) /\ row.conv = c /\ row.pid = x.pid /\ row.id = NewRow(d)
  BY <1>1, <1>2, <1>3 DEF IsRow
<1>5. PICK keys : keys = d.keys \cup {[key |-> x.key, row |-> row.id]}
  OBVIOUS
<1>6. PICK rows : rows = d.rows \cup {row}
  OBVIOUS
<1>7. PICK g : g = [d EXCEPT !.rows = @ \cup {row}, !.keys = @ \cup {[key |-> x.key, row |-> row.id]}]
  OBVIOUS
<1>8. e = Refresh(g, c)
  BY <1>1, <1>4, <1>7, Zenon DEF ReserveSend
<1>9. g = [links |-> d.links, alias |-> d.alias, rows |-> rows, keys |-> keys, last |-> d.last,
           reactions |-> d.reactions, receipts |-> d.receipts, changes |-> d.changes]
  BY <1>5, <1>6, <1>7 DEF Held, TablesTyped
<1>10. \A s : s.conv # c => (s \in rows <=> s \in d.rows)
  BY <1>4, <1>6
<1>11. OnlyIn(d, g, {c})
  BY <1>9, <1>10, OneRowOnly
<1>12. TablesTyped(g)
  <2>1. IsFiniteSet(rows)
    BY <1>6, FS_AddElement DEF Held, TablesTyped
  <2> QED
    BY <1>9, <2>1 DEF Held, TablesTyped
<1>13. RowsTyped(g)
  <2>1. g.rows = d.rows \cup {row} /\ Conversations(g) = Conversations(d)
    BY <1>6, <1>9 DEF Conversations
  <2>2. c \in Conversations(d)
    BY <1>2, <1>3 DEF Conversations
  <2>3. \A r \in d.rows : r.pid # row.pid
    BY <1>4 DEF Held, RowsHeld, Sent
  <2> QED
    BY <1>3, <1>4, <2>1, <2>2, <2>3 DEF Held, RowsTyped
<1> QED
  BY <1>2, <1>8, <1>11, <1>12, <1>13, RefreshOnly, OnlyInBoth

LEMMA CompleteOnly ==
  ASSUME NEW d, NEW H, Held(d, H), NEW r \in d.rows, NEW at \in Nat,
         NEW e, e = CompleteSend(d, r, at)
  PROVE  OnlyIn(d, e, {r.conv})
<1>1. PICK q : q = IF r.state = "queued" THEN [r EXCEPT !.state = "sent", !.at = at] ELSE r
  OBVIOUS
<1>2. SameMessage(q, r) /\ q.conv = r.conv
  <2>1. IsRow(r)
    BY DEF Held, RowsTyped
  <2>2. CASE r.state = "queued"
    <3>1. q = [id |-> r.id, conv |-> r.conv, pid |-> r.pid, dir |-> r.dir, at |-> at,
               state |-> "sent", order |-> r.order, seen |-> r.seen]
      BY <1>1, <2>1, <2>2 DEF IsRow
    <3> QED
      BY <2>1, <2>2, <3>1 DEF SameMessage, IsRow
  <2>3. CASE r.state # "queued"
    BY <1>1, <2>1, <2>3 DEF SameMessage
  <2> QED
    BY <2>2, <2>3
<1>3. PICK g : g = [d EXCEPT !.rows = (@ \ {r}) \cup {q}]
  OBVIOUS
<1>4. e = Refresh(g, r.conv)
  BY <1>1, <1>3, Zenon DEF CompleteSend, Completed
<1>5. OnlyIn(d, g, {r.conv})
  BY <1>2, <1>3, RowReplacedOnly DEF Held
<1>6. Held(g, H)
  BY <1>2, <1>3, RowRewritten
<1>7. OnlyIn(g, e, {r.conv})
  BY <1>4, <1>6, RefreshOnly DEF Held
<1> QED
  BY <1>5, <1>7, OnlyInBoth

\* RecordReadReceipts
LEMMA MarkReadOnly ==
  ASSUME NEW d, NEW H, Held(d, H), NEW r \in d.rows, NEW at,
         NEW e, e = [d EXCEPT !.rows = (@ \ {r}) \cup {[r EXCEPT !.seen = at]}]
  PROVE  OnlyIn(d, e, {r.conv})
<1>1. PICK q : q = [r EXCEPT !.seen = at]
  OBVIOUS
<1>2. q.conv = r.conv
  BY <1>1 DEF Held, RowsTyped, IsRow
<1>3. e = [d EXCEPT !.rows = (@ \ {r}) \cup {q}]
  BY <1>1
<1> QED
  BY <1>2, <1>3, RowReplacedOnly DEF Held

---------------------------------------------------------------------------
(* A client that fetches what it is told of                                *)

\* What the actions start from, and end in
Shown   == stale \subseteq Owed \cup untold
Current == NewestInv /\ Shown

\* What a call will tell of it tells of after a step that leaves the call and
\* the names of the conversation.
LEMMA OwedStill ==
  ASSUME ConvInv, NEW k \in Owed, \A j \in Jid : db'.alias[j] = k <=> db.alias[j] = k,
         \A c \in reads : c.recorded /\ k \in ToldBy(c) => c \in reads'
  PROVE  k \in Owed'
<1>1. PICK c \in reads : c.recorded /\ k \in ToldBy(c)
  BY DEF Owed
<1>2. c.request \in Of("seen")
  BY DEF ConvInv
<1>3. c.request \in Events /\ c.request.type = "seen"
  BY <1>2 DEF Of
<1>4. c.request.chat \in Jid
  BY <1>3, SomeEvent DEF IsRequest
<1>5. k = c.conv /\ db.alias[c.request.chat] = k
  BY <1>1 DEF ToldBy
<1>6. db'.alias[c.request.chat] = k /\ c \in reads'
  BY <1>1, <1>4, <1>5
<1>7. k \in ToldBy(c)'
  BY <1>5, <1>6 DEF ToldBy
<1> QED
  BY <1>1, <1>6, <1>7 DEF Owed

LEMMA CaughtUp ==
  ASSUME Current, NEW d, NEW facts, NEW told, Commit(d, facts, told), OnlyIn(db, d, told)
  PROVE  Shown'
<1>1. /\ db' = d /\ reads' = reads /\ untold' = (untold \cap Conversations(d)) \ told
      /\ stale' = {c \in Conversations(d) \ told :
                     c \in stale \/ c \notin Conversations(db) \/ (d # db /\ View(d, c) # View(db, c))}
  BY DEF Commit, Write
<1>2. ASSUME NEW c \in Conversations(d), c \notin told
      PROVE  c \in Conversations(db) /\ View(d, c) = View(db, c) /\ ShownSame(db, d, c)
  <2>1. ShownSame(db, d, c)
    BY <1>2 DEF OnlyIn, Conversations
  <2> QED
    BY <2>1, ShownSameIsSeen
<1>3. ASSUME NEW k \in stale' PROVE k \in Owed' \cup untold'
  <2>1. k \in Conversations(d) /\ k \notin told
    BY <1>1
  <2>2. k \in stale /\ ShownSame(db, d, k)
    BY <1>1, <1>2, <2>1
  <2>3. CASE k \in untold
    BY <1>1, <2>1, <2>3
  <2>4. CASE k \in Owed
    <3>1. \A j \in Jid : db'.alias[j] = k <=> db.alias[j] = k
      BY <1>1, <2>2 DEF ShownSame
    <3>2. ConvInv
      BY DEF Current, NewestInv
    <3>3. \A c \in reads : c.recorded /\ k \in ToldBy(c) => c \in reads'
      BY <1>1
    <3> QED
      BY <2>4, <3>1, <3>2, <3>3, OwedStill
  <2> QED
    BY <2>2, <2>3, <2>4 DEF Current, Shown
<1> QED
  BY <1>3 DEF Shown

LEMMA AllAreTold ==
  ASSUME NEW d, NEW facts, Commit(d, facts, Conversations(d))
  PROVE  Shown'
<1>1. stale' = {}
  BY DEF Commit, Write
<1> QED
  BY <1>1 DEF Shown

LEMMA ReceiveMessageTells ==
  ASSUME Current, ReceiveMessage
  PROVE  Shown'
<1>1. PICK m \in Events : m.type = "message" /\
        Commit(SaveMessage(db, m), {m}, {SavedIn(SaveMessage(db, m), m)})
  BY DEF ReceiveMessage, Of
<1>2. Held(db, received) /\ IsMessage(m)
  BY <1>1, SomeEvent DEF ConvInv, Current, NewestInv
<1>3. PICK d : d = SaveMessage(db, m)
  OBVIOUS
<1>4. OnlyIn(db, d, {SavedIn(d, m)})
  BY <1>2, <1>3, SaveMessageOnly
<1>5. Commit(d, {m}, {SavedIn(d, m)})
  BY <1>1, <1>3
<1> QED
  BY <1>4, <1>5, CaughtUp

LEMMA ReserveTells ==
  ASSUME Current, Reserve
  PROVE  Shown'
<1>1. PICK x \in Events :
        /\ x.type = "reserve" /\ db.alias[x.chat] # 0
        /\ \A f \in received : f.type \in {"message", "reserve"} => f.pid # x.pid
        /\ Commit(ReserveSend(db, x), {x}, {db.alias[x.chat]})
  BY DEF Reserve, Of
<1>2. Held(db, received) /\ IsRequest(x)
  BY <1>1, SomeEvent DEF ConvInv, Current, NewestInv
<1>3. PICK d : d = ReserveSend(db, x)
  OBVIOUS
<1>4. OnlyIn(db, d, {db.alias[x.chat]})
  BY <1>1, <1>2, <1>3, ReserveOnly
<1>5. Commit(d, {x}, {db.alias[x.chat]})
  BY <1>1, <1>3
<1> QED
  BY <1>4, <1>5, CaughtUp

LEMMA CompleteTells ==
  ASSUME Current, Complete
  PROVE  Shown'
<1>0. PICK x \in Of("complete") :
        \E r \in KeyRow(db, x.key) : Commit(CompleteSend(db, r, x.at), {}, {r.conv})
  BY DEF Complete
<1>1. PICK r \in KeyRow(db, x.key) :
        x \in Events /\ x.type = "complete" /\ Commit(CompleteSend(db, r, x.at), {}, {r.conv})
  BY <1>0 DEF Of
<1>2. Held(db, received) /\ IsRequest(x) /\ r \in db.rows
  BY <1>1, SomeEvent DEF ConvInv, KeyRow, Current, NewestInv
<1>3. PICK d : d = CompleteSend(db, r, x.at)
  OBVIOUS
<1>4. x.at \in Nat
  BY <1>1, <1>2 DEF IsRequest
<1>5. OnlyIn(db, d, {r.conv})
  BY <1>2, <1>3, <1>4, CompleteOnly
<1>6. Commit(d, {}, {r.conv})
  BY <1>1, <1>3
<1> QED
  BY <1>5, <1>6, CaughtUp

LEMMA BeginReadTells ==
  ASSUME Current, BeginRead
  PROVE  Shown'
<1>1. /\ reads \subseteq reads' /\ db' = db /\ stale' = stale /\ untold' = untold
  BY DEF BeginRead
<1>2. ConvInv /\ stale \subseteq Owed \cup untold
  BY DEF Current, NewestInv, Shown
<1>3. \A k \in Owed : k \in Owed'
  BY <1>1, <1>2, OwedStill
<1> QED
  BY <1>1, <1>2, <1>3 DEF Shown

\* The mark is shown in the conversation the message is in: the call will tell
\* of it, unless it names another one.
LEMMA RecordReadTells ==
  ASSUME Current, RecordRead
  PROVE  Shown'
<1>0. PICK c \in reads : \E r \in StillThere(c) :
        /\ ~c.recorded
        /\ reads' = (reads \ {c}) \cup {[c EXCEPT !.recorded = TRUE]}
        /\ \/ /\ r.seen = 0 /\ Write(Marked(db, r, c.request.at), {c.request}, {})
              /\ untold' = untold \cup ({r.conv} \ {c.conv})
           \/ UNCHANGED <<db, received, stale, untold>>
  BY DEF RecordRead
<1>1. PICK r \in StillThere(c) :
        /\ ~c.recorded
        /\ reads' = (reads \ {c}) \cup {[c EXCEPT !.recorded = TRUE]}
        /\ \/ /\ r.seen = 0 /\ Write(Marked(db, r, c.request.at), {c.request}, {})
              /\ untold' = untold \cup ({r.conv} \ {c.conv})
           \/ UNCHANGED <<db, received, stale, untold>>
  BY <1>0
<1>2. ConvInv /\ stale \subseteq Owed \cup untold /\ c.request \in Of("seen") /\ Held(db, received)
  BY DEF Current, NewestInv, Shown, ConvInv
<1>3. \A k \in reads : k.recorded => k \in reads'
  BY <1>1
<1>4. CASE UNCHANGED <<db, received, stale, untold>>
  <2>1. \A k \in Owed : k \in Owed'
    BY <1>2, <1>3, <1>4, OwedStill
  <2> QED
    BY <1>2, <1>4, <2>1 DEF Shown
<1>5. CASE /\ r.seen = 0 /\ Write(Marked(db, r, c.request.at), {c.request}, {})
           /\ untold' = untold \cup ({r.conv} \ {c.conv})
  <2>1. PICK d : d = [db EXCEPT !.rows = (@ \ {r}) \cup {[r EXCEPT !.seen = c.request.at]}]
    OBVIOUS
  <2>2. Write(d, {c.request}, {})
    BY <1>5, <2>1 DEF Marked
  <2>3. r \in db.rows /\ r.conv = db.alias[c.request.chat]
    BY DEF StillThere, RowsIn
  <2>4. OnlyIn(db, d, {r.conv})
    BY <1>2, <2>1, <2>3, MarkReadOnly
  <2>5. d.alias = db.alias
    BY <1>2, <2>1 DEF Held, TablesTyped
  <2>6. /\ db' = d
        /\ stale' = {k \in Conversations(d) \ {} :
              k \in stale \/ k \notin Conversations(db) \/ (d # db /\ View(d, k) # View(db, k))}
    BY <2>2 DEF Write
  <2>7. ASSUME NEW k \in stale', k # r.conv PROVE k \in Owed' \cup untold'
    <3>1. k \in Conversations(d)
      BY <2>6
    <3>2. ShownSame(db, d, k)
      BY <2>4, <2>7, <3>1 DEF OnlyIn, Conversations
    <3>3. k \in Conversations(db) /\ View(d, k) = View(db, k)
      BY <3>1, <3>2, ShownSameIsSeen
    <3>4. k \in stale
      BY <2>6, <3>3
    <3>5. k \in Owed => k \in Owed'
      BY <1>2, <1>3, <2>5, <2>6, OwedStill
    <3> QED
      BY <1>2, <1>5, <3>4, <3>5
  <2>8. r.conv \in Owed' \cup untold'
    <3>1. CASE r.conv # c.conv
      BY <1>5, <3>1
    <3>2. CASE r.conv = c.conv
      <4>1. PICK e : e = [c EXCEPT !.recorded = TRUE]
        OBVIOUS
      <4>2. e \in reads'
        BY <1>1, <4>1
      <4>3. e.recorded /\ e.request = c.request /\ e.conv = c.conv
        BY <4>1
      <4>4. r.conv \in ToldBy(e)'
        BY <2>3, <2>5, <2>6, <3>2, <4>3 DEF ToldBy
      <4> QED
        BY <4>2, <4>3, <4>4 DEF Owed
    <3> QED
      BY <3>1, <3>2
  <2> QED
    BY <2>7, <2>8 DEF Shown
<1> QED
  BY <1>1, <1>4, <1>5

LEMMA EndReadTells ==
  ASSUME Current, EndRead
  PROVE  Shown'
<1>0. PICK c \in reads : \E told \in SUBSET ToldBy(c) :
        /\ c.recorded => told = ToldBy(c)
        /\ reads' = reads \ {c} /\ stale' = stale \ told /\ untold' = untold \ told /\ db' = db
  BY DEF EndRead
<1>1. PICK told \in SUBSET ToldBy(c) :
        /\ c.recorded => told = ToldBy(c)
        /\ reads' = reads \ {c} /\ stale' = stale \ told /\ untold' = untold \ told /\ db' = db
  BY <1>0
<1>2. ConvInv /\ stale \subseteq Owed \cup untold
  BY DEF Current, NewestInv, Shown
<1>3. ASSUME NEW k \in Owed, k \notin told PROVE k \in Owed'
  <2>1. \A e \in reads : e.recorded /\ k \in ToldBy(e) => e \in reads'
    BY <1>1, <1>3
  <2> QED
    BY <1>1, <1>2, <2>1, OwedStill
<1> QED
  BY <1>1, <1>2, <1>3 DEF Shown

LEMMA ReceiveReactionTells ==
  ASSUME Current, ReceiveReaction
  PROVE  Shown'
<1>0. PICK x \in Of("reaction") :
        Commit(SaveReaction(db, x), {x} \cup LinkFact(x.by, x.aka, "event"),
               Told(SaveReaction(db, x), x, SaveReaction(db, x).reactions # db.reactions))
  BY DEF ReceiveReaction
<1>1. x \in Events /\ x.type = "reaction"
  BY <1>0 DEF Of
<1>2. Held(db, received) /\ IsReaction(x) /\ AllNewest(db, {})
  BY <1>1, SomeEvent DEF ConvInv, Current, NewestInv
<1>3. PICK d : d = SaveReaction(db, x)
  OBVIOUS
<1>4. PICK told : told = Told(d, x, d.reactions # db.reactions)
  OBVIOUS
<1>5. Commit(d, {x} \cup LinkFact(x.by, x.aka, "event"), told)
  BY <1>0, <1>3, <1>4
<1>6. CASE x.by # 0 /\ x.aka # 0 /\ x.aka \notin Linked(db.links, {x.by})
  <2>1. told = Conversations(d)
    BY <1>4, <1>6 DEF Told
  <2> QED
    BY <1>5, <2>1, AllAreTold
<1>7. CASE ~(x.by # 0 /\ x.aka # 0 /\ x.aka \notin Linked(db.links, {x.by}))
  <2>1. told = IF d.reactions # db.reactions THEN {d.alias[x.chat]} \ {0} ELSE {}
    BY <1>4, <1>7 DEF Told
  <2>2. OnlyIn(db, d, IF d.reactions # db.reactions THEN {d.alias[x.chat]} \ {0} ELSE {})
    BY <1>2, <1>3, <1>7, SaveReactionOnly
  <2> QED
    BY <1>5, <2>1, <2>2, CaughtUp
<1> QED
  BY <1>6, <1>7

LEMMA ReceiveReceiptTells ==
  ASSUME Current, ReceiveReceipt
  PROVE  Shown'
<1>0. PICK x \in Of("receipt") :
        Commit(SaveReceipt(db, x), {x} \cup LinkFact(x.by, x.aka, "event"),
               Told(SaveReceipt(db, x), x, SaveReceipt(db, x).receipts # db.receipts))
  BY DEF ReceiveReceipt
<1>1. x \in Events /\ x.type = "receipt"
  BY <1>0 DEF Of
<1>2. Held(db, received) /\ IsReceipt(x) /\ AllNewest(db, {})
  BY <1>1, SomeEvent DEF ConvInv, Current, NewestInv
<1>3. PICK d : d = SaveReceipt(db, x)
  OBVIOUS
<1>4. PICK told : told = Told(d, x, d.receipts # db.receipts)
  OBVIOUS
<1>5. Commit(d, {x} \cup LinkFact(x.by, x.aka, "event"), told)
  BY <1>0, <1>3, <1>4
<1>6. CASE x.by # 0 /\ x.aka # 0 /\ x.aka \notin Linked(db.links, {x.by})
  <2>1. told = Conversations(d)
    BY <1>4, <1>6 DEF Told
  <2> QED
    BY <1>5, <2>1, AllAreTold
<1>7. CASE ~(x.by # 0 /\ x.aka # 0 /\ x.aka \notin Linked(db.links, {x.by}))
  <2>1. told = IF d.receipts # db.receipts THEN {d.alias[x.chat]} \ {0} ELSE {}
    BY <1>4, <1>7 DEF Told
  <2>2. OnlyIn(db, d, IF d.receipts # db.receipts THEN {d.alias[x.chat]} \ {0} ELSE {})
    BY <1>2, <1>3, <1>7, SaveReceiptOnly
  <2> QED
    BY <1>5, <2>1, <2>2, CaughtUp
<1> QED
  BY <1>6, <1>7

LEMMA ReceiveChangeTells ==
  ASSUME Current, ReceiveChange
  PROVE  Shown'
<1>1. PICK x \in Events : x.type = "change" /\
        Commit(SaveMessageChange(db, x), {x}, {db.alias[x.chat]} \ {0})
  BY DEF ReceiveChange, Of
<1>2. Held(db, received) /\ IsChange(x)
  BY <1>1, SomeEvent DEF ConvInv, Current, NewestInv
<1>3. PICK d : d = SaveMessageChange(db, x)
  OBVIOUS
<1>4. OnlyIn(db, d, {db.alias[x.chat]} \ {0})
  BY <1>2, <1>3, SaveChangeOnly
<1>5. Commit(d, {x}, {db.alias[x.chat]} \ {0})
  BY <1>1, <1>3
<1> QED
  BY <1>4, <1>5, CaughtUp

LEMMA ReceiveProfileTells ==
  ASSUME ReceiveProfile
  PROVE  Shown'
<1>1. PICK d, facts : Commit(d, facts, Conversations(d))
  BY Zenon DEF ReceiveProfile
<1> QED
  BY <1>1, AllAreTold

LEMMA ReceiveHistoryTells ==
  ASSUME ReceiveHistory
  PROVE  Shown'
<1>1. PICK d, facts : Commit(d, facts, Conversations(d))
  BY Zenon DEF ReceiveHistory
<1> QED
  BY <1>1, AllAreTold

\* Without a link that CreateConversation takes, it can only add the conversation it tells of.
LEMMA CreateConversationTells ==
  ASSUME Current, CreateConversation, NoCreateLinks'
  PROVE  Shown'
<1>1. PICK x \in Events :
        /\ x.type = "create"
        /\ Commit(EnsureConversation(AddLink(db, x.chat, x.alternate), x.chat, {}),
                  LinkFact(x.chat, x.alternate, "create"),
                  {EnsureConversation(AddLink(db, x.chat, x.alternate), x.chat, {}).alias[x.chat]})
  BY DEF CreateConversation, Of
<1>2. Held(db, received) /\ IsRequest(x)
  BY <1>1, SomeEvent DEF ConvInv, Current, NewestInv
<1>3. x.chat \in Jid
  BY <1>1, <1>2 DEF IsRequest
<1>4. \A f \in LinkFact(x.chat, x.alternate, "create") : f \notin received'
  <2>1. \A f \in LinkFact(x.chat, x.alternate, "create") : f.type = "link" /\ f.via = "create"
    BY DEF LinkFact
  <2> QED
    BY <2>1 DEF Facts, NoCreateLinks
<1>5. LinkFact(x.chat, x.alternate, "create") = {}
  BY <1>1, <1>4 DEF Commit, Write
<1>6. AddLink(db, x.chat, x.alternate) = db
  BY <1>5 DEF LinkFact, AddLink
<1>7. PICK d : d = EnsureConversation(db, x.chat, {})
  OBVIOUS
<1>8. OnlyIn(db, d, {d.alias[x.chat]})
  BY <1>2, <1>3, <1>7, EnsureOneOnly
<1>9. Commit(d, {}, {d.alias[x.chat]})
  BY <1>1, <1>5, <1>6, <1>7
<1> QED
  BY <1>8, <1>9, CaughtUp

(* A client that fetches again each conversation it is told of shows every  *)
(* conversation as it is, but for marks whose call of SendReadReceipts is   *)
(* about to tell of them or names a conversation that was merged away: what *)
(* any other transaction changes of what is shown, however it interleaves   *)
(* with the calls, it changes in conversations that are told of only, but   *)
(* for the links that CreateConversation takes.                             *)
THEOREM ClientsCatchUpHolds ==
  ASSUME OwnStayInChat
  PROVE  Spec => []ClientsCatchUp
<1>1. Init => ClientsCatchUp
  BY DEF Init, ClientsCatchUp
<1>2. NewestInv /\ ClientsCatchUp /\ [Next]_vars => ClientsCatchUp'
  <2> SUFFICES ASSUME NewestInv, ClientsCatchUp, [Next]_vars, NoCreateLinks'
               PROVE  Shown'
    BY DEF ClientsCatchUp, Shown
  <2>1. received \subseteq received'
    BY ReceivedGrows
  <2>2. Current
    BY <2>1 DEF ClientsCatchUp, NoCreateLinks, Facts, Current, Shown
  <2>3. CASE ReceiveMessage
    BY <2>2, <2>3, ReceiveMessageTells
  <2>4. CASE Reserve
    BY <2>2, <2>4, ReserveTells
  <2>5. CASE Complete
    BY <2>2, <2>5, CompleteTells
  <2>6. CASE BeginRead \/ RecordRead \/ EndRead
    BY <2>2, <2>6, BeginReadTells, RecordReadTells, EndReadTells
  <2>7. CASE ReceiveReaction
    BY <2>2, <2>7, ReceiveReactionTells
  <2>8. CASE ReceiveReceipt
    BY <2>2, <2>8, ReceiveReceiptTells
  <2>9. CASE ReceiveChange
    BY <2>2, <2>9, ReceiveChangeTells
  <2>10. CASE ReceiveProfile
    BY <2>10, ReceiveProfileTells
  <2>11. CASE CreateConversation
    BY <2>2, <2>11, CreateConversationTells
  <2>12. CASE ReceiveHistory
    BY <2>12, ReceiveHistoryTells
  <2>13. CASE UNCHANGED vars
    BY <2>2, <2>13 DEF vars, Current, Shown, Owed, ToldBy
  <2> QED
    BY <2>3, <2>4, <2>5, <2>6, <2>7, <2>8, <2>9, <2>10, <2>11, <2>12, <2>13 DEF Next
<1>3. Spec => []NewestInv
  BY NewestHolds
<1> QED
  BY <1>1, <1>2, <1>3, PTL DEF Spec
=============================================================================
