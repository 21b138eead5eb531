--------------------------- MODULE Conversations ---------------------------
(***************************************************************************)
(* What the store makes of the provider's events about chats and messages  *)
(* (store/sqlite: aliases, messages, history, reactions, receipts,         *)
(* message_changes, conversations): live events and history arrive in any  *)
(* order and more than once, a chat goes by several JIDs that become known *)
(* to be one, and marks arrive before their message.                       *)
(*                                                                         *)
(* The database of one account is the variable db; every write of the code *)
(* is one SQLite transaction, so each is an operator from database to      *)
(* database and each step applies one.  A table is a set of records.       *)
(*                                                                         *)
(* Abstractions: a JID is a number, in the order of the strings; 0 stands  *)
(* for "none" (no conversation, no time, no provider order), for the own   *)
(* account among participants ("self"), and for the emoji of a removal.    *)
(* A row's number is its public id and its local_order; a conversation's   *)
(* number is its id and its age; a number that is free is used again.      *)
(* Texts, names, replies and attachments are left out.                     *)
(***************************************************************************)
EXTENDS Integers, Sequences, FiniteSets, SequencesExt

CONSTANTS Jid,       \* 1..n
          Events,    \* what may arrive: live events, requests and history batches
          MaxReads   \* bound: calls of SendReadReceipts at a time

ASSUME ConversationsAssumption ==
  /\ IsFiniteSet(Jid) /\ Jid = 1..Cardinality(Jid) /\ IsFiniteSet(Events)
  /\ MaxReads \in Nat

\* What the adapter makes of the provider's events (core.Message, core.Reaction,
\* core.MessageReceipt, core.MessageChange, core.HistoryBatch).  A batch without
\* a chat has no messages (ErrInvalid), and its messages are the chat's.
Name == Jid \cup {0}
IsMessage(m)  == /\ m.type = "message" /\ m.chat \in Jid /\ m.dir \in {"in", "out"}
                 /\ m.at \in Nat /\ m.order \in Nat
IsReaction(x) == /\ x.type = "reaction" /\ x.chat \in Jid /\ x.by \in Name /\ x.aka \in Name
                 /\ x.emoji \in Nat /\ x.at \in Nat /\ x.event \in Nat
IsReceipt(x)  == /\ x.type = "receipt" /\ x.chat \in Jid /\ x.by \in Jid /\ x.aka \in Name
                 /\ x.kind \in {"delivered", "read"} /\ x.at \in Nat \ {0}
IsChange(x)   == /\ x.type = "change" /\ x.chat \in Jid /\ x.kind \in {"edit", "revoke"}
                 /\ x.at \in Nat /\ x.event \in Nat
IsRequest(x)  == \/ x.type = "reserve" /\ x.chat \in Jid /\ x.at \in Nat
                 \/ x.type = "complete" /\ x.at \in Nat
                 \/ x.type = "seen" /\ x.chat \in Jid /\ x.at \in Nat \ {0}
                 \/ x.type = "profile" /\ x.chat \in Jid /\ x.alternate \in Name /\ x.create \in BOOLEAN
                 \/ x.type = "create" /\ x.chat \in Jid /\ x.alternate \in Name
IsBatch(b) ==
  /\ b.type = "history" /\ b.chat \in Name /\ b.aliases \subseteq Jid
  /\ b.links \in Seq(Name \X Name)
  /\ \A s \in {b.messages, b.changes, b.reactions, b.receipts} : s \in Seq(ToSet(s))
  /\ \A m \in ToSet(b.messages)  : IsMessage(m) /\ m.chat \in {b.chat} \cup b.aliases
  /\ \A x \in ToSet(b.changes)   : IsChange(x)
  /\ \A x \in ToSet(b.reactions) : IsReaction(x)
  /\ \A x \in ToSet(b.receipts)  : IsReceipt(x)
  /\ b.chat = 0 => b.messages = <<>>

ASSUME EventsAssumption == \A e \in Events :
  \/ IsMessage(e) \/ IsReaction(e) \/ IsReceipt(e) \/ IsChange(e) \/ IsRequest(e) \/ IsBatch(e)

VARIABLES db,        \* the tables
          received,  \* history: what the store took in, live or in a batch
          reads,     \* calls of SendReadReceipts under way
          stale,     \* what a client shows that fetches again what it is told of,
                     \* and is out of date
          untold     \* history: where a mark as read was recorded by a call that
                     \* names another conversation, and nothing was told of since

vars == <<db, received, reads, stale, untold>>

Least(S)    == CHOOSE x \in S : \A y \in S : x <= y
Greatest(S) == CHOOSE x \in S : \A y \in S : y <= x
Least0(S)   == IF S \ {0} = {} THEN 0 ELSE Least(S \ {0})   \* min() of SQL, over NULLs
Coalesce(a, b) == IF a # 0 THEN a ELSE b

Empty == [links |-> {}, alias |-> [j \in Jid |-> 0], rows |-> {}, keys |-> {},
          last |-> {}, reactions |-> {}, receipts |-> {}, changes |-> {}]

Init == db = Empty /\ received = {} /\ reads = {} /\ stale = {} /\ untold = {}

---------------------------------------------------------------------------
(* Links and aliases                                                       *)

\* linkedJIDsTx: the JIDs that are reached from some by links.
Linked(links, seeds) ==
  {j \in Jid : \A closed \in SUBSET Jid :
     seeds \subseteq closed /\ (\A l \in links : l \cap closed # {} => l \subseteq closed)
       => j \in closed}

Canonical(links, j) == Least(Linked(links, {j}))

RowsIn(d, c) == {r \in d.rows : r.conv = c}
HasKey(d, r) == \E k \in d.keys : k.row = r.id

\* messageOrder: later, then by provider order (none is last), then by age.
Newer(a, b) ==
  \/ a.at > b.at
  \/ a.at = b.at /\ a.order # b.order /\ (a.order = 0 \/ (b.order # 0 /\ a.order > b.order))
  \/ a.at = b.at /\ a.order = b.order /\ a.id > b.id

\* refreshConversationTx
Refresh(d, c) ==
  IF RowsIn(d, c) = {} THEN d
  ELSE [d EXCEPT !.last = {l \in @ : l.conv # c} \cup
         {[conv |-> c, row |-> r.id, at |-> r.at] :
            r \in {r \in RowsIn(d, c) : \A s \in RowsIn(d, c) \ {r} : Newer(r, s)}}]

\* mergeConversationTx: the rows of the younger conversation move to the older
\* one.  Of two copies of a message one stays: the one with an idempotency key,
\* or the outbound one; the keys of the other are moved to it.
SourceWins(d, r, t) ==
  ~HasKey(d, t) /\ (HasKey(d, r) \/ (r.dir = "out" /\ t.dir # "out"))

KeepOrder(r, others) ==  \* a mutant: the copy's mark as read goes with it
  [r EXCEPT !.order = Coalesce(@, Least0({s.order : s \in others}))]

\* mergeMessageOrderTx
MergeCopies(r, others) ==
  [r EXCEPT !.order = Coalesce(@, Least0({s.order : s \in others})),
            !.seen  = Least0({@} \cup {s.seen : s \in others})]

MoveRows(d, to, from) ==  \* a mutant: copies are not looked for
  [d EXCEPT !.rows  = {IF r.conv = from THEN [r EXCEPT !.conv = to] ELSE r : r \in @},
            !.alias = [j \in Jid |-> IF @[j] = from THEN to ELSE @[j]],
            !.last  = {l \in @ : l.conv # from}]

MergeConversation(d, to, from) ==
  LET both    == RowsIn(d, from) \cup RowsIn(d, to)
      Copy(r) == {t \in RowsIn(d, to) : t.pid = r.pid}
      moved   == {r \in RowsIn(d, from) : \A t \in Copy(r) : SourceWins(d, r, t)}
      kept    == moved \cup (RowsIn(d, to) \ UNION {Copy(r) : r \in moved})
      Heir(k) == CHOOSE r \in kept : \E s \in both : s.id = k.row /\ s.pid = r.pid
  IN Refresh([d EXCEPT
       !.rows  = (@ \ both) \cup
         {MergeCopies([r EXCEPT !.conv = to], {s \in both : s.pid = r.pid /\ s.id # r.id}) :
            r \in kept},
       !.keys  = {IF \E s \in both : s.id = k.row THEN [k EXCEPT !.row = Heir(k).id] ELSE k :
                    k \in @},
       !.alias = [j \in Jid |-> IF @[j] = from THEN to ELSE @[j]],
       !.last  = {l \in @ : l.conv # from}], to)

\* The other conversations, the oldest first
MergeAll(d, target, others) ==
  MapThenFoldSet(LAMBDA from, e : MergeConversation(e, target, from), d,
                 LAMBDA c : c, Greatest, others)

EnsureUnlinked(d, jid, aliases) ==  \* a mutant: the links are not followed
  LET known  == {d.alias[j] : j \in {jid} \cup aliases} \ {0}
      target == IF known = {} THEN Greatest({d.alias[j] : j \in Jid}) + 1 ELSE Least(known)
      merged == MergeAll(d, target, known \ {target})
  IN [merged EXCEPT !.alias = [j \in Jid |-> IF j \in {jid} \cup aliases THEN target ELSE @[j]]]

EnsureConversation(d, jid, aliases) ==
  LET jids   == Linked(d.links, {jid} \cup aliases)
      known  == {d.alias[j] : j \in jids} \ {0}
      target == IF known = {} THEN Greatest({d.alias[j] : j \in Jid}) + 1 ELSE Least(known)
      merged == MergeAll(d, target, known \ {target})
  IN [merged EXCEPT !.alias = [j \in Jid |-> IF j \in jids THEN target ELSE @[j]]]

---------------------------------------------------------------------------
(* Reactions, receipts, edits and deletions, kept under the chat and the   *)
(* provider's message id they name: the message may not be there yet.      *)

Mark(x) == <<x.chat, x.target, x.by>>

\* reactionOrder: later, then a removal, then by event and emoji.
ReactionWins(x, y) ==
  LET Rank(z) == <<z.at, IF z.emoji = 0 THEN 1 ELSE 0, z.event, z.emoji>>
  IN \E i \in 1..4 : Rank(x)[i] > Rank(y)[i] /\ \A j \in 1..(i - 1) : Rank(x)[j] = Rank(y)[j]

Winners(S) == {x \in S : ~\E y \in S : Mark(y) = Mark(x) /\ ReactionWins(y, x)}

\* mergeReceiptTimes: the earliest of each
Earliest(S) ==
  {[x EXCEPT !.delivered = Least0({y.delivered : y \in {z \in S : Mark(z) = Mark(x)}}),
             !.read      = Least0({y.read      : y \in {z \in S : Mark(z) = Mark(x)}})] : x \in S}

\* mergeReactionParticipantsTx, mergeReceiptParticipantsTx: a participant goes by
\* the first of its linked JIDs.
Renamed(d, S, p) ==
  {IF x.by \in Linked(d.links, {p}) THEN [x EXCEPT !.by = Canonical(d.links, p)] ELSE x : x \in S}

MergeReceiptsOnly(d, p) ==  \* a mutant: reactions keep the names they came with
  [d EXCEPT !.receipts = Earliest(Renamed(d, @, p))]

MergeParticipants(d, p) ==
  [d EXCEPT !.reactions = Winners(Renamed(d, @, p)), !.receipts = Earliest(Renamed(d, @, p))]

AddLink(d, a, b) ==
  IF a = 0 \/ b = 0 \/ a = b THEN d
  ELSE LET linked == MergeParticipants([d EXCEPT !.links = @ \cup {{a, b}}], a)
           joined == EnsureConversation(linked, a, {b})
       IN IF d.alias[a] = 0 /\ d.alias[b] = 0 THEN linked ELSE Refresh(joined, joined.alias[a])

Participant(d, x) == IF x.by = 0 THEN 0 ELSE Canonical(d.links, x.by)

Reacted(x, who) ==
  [chat |-> x.chat, target |-> x.target, by |-> who, emoji |-> x.emoji, at |-> x.at, event |-> x.event]

\* saveReactionTx
SaveReaction(d, x) ==
  LET e == IF x.by = 0 THEN d ELSE AddLink(d, x.by, x.aka)
  IN [e EXCEPT !.reactions = Winners(@ \cup {Reacted(x, Participant(e, x))})]

Receipt(x, who) ==
  [chat |-> x.chat, target |-> x.target, by |-> who,
   delivered |-> IF x.kind = "delivered" THEN x.at ELSE 0,
   read      |-> IF x.kind = "read" THEN x.at ELSE 0]

\* saveReceiptTx
SaveReceipt(d, x) ==
  LET e == AddLink(d, x.by, x.aka)
  IN [e EXCEPT !.receipts = Earliest(@ \cup {Receipt(x, Participant(e, x))})]

Changed(x) == [chat |-> x.chat, target |-> x.target, kind |-> x.kind, at |-> x.at, event |-> x.event]

\* saveMessageChangeTx: every change is kept
SaveMessageChange(d, x) == [d EXCEPT !.changes = @ \cup {Changed(x)}]

---------------------------------------------------------------------------
(* Messages                                                                *)

Outbound(d, pid) == {r \in d.rows : r.pid = pid /\ r.dir = "out"}
Pending(r)       == r.dir = "out" /\ r.state \in {"queued", "unknown"}
NewRow(d)        == Greatest({0} \cup {r.id : r \in d.rows}) + 1

\* The part of saveMessageTx for a message that is there already: an echo
\* confirms a pending send.
Echo(r, m) ==
  [r EXCEPT !.state = IF Pending(r) THEN "sent" ELSE @, !.order = Coalesce(m.order, @)]

SaveInChat(d, m, c) ==  \* a mutant: an echo is looked for in its own chat only
  LET ensured == IF c = 0 THEN EnsureConversation(d, m.chat, {}) ELSE d
      conv    == IF c = 0 THEN ensured.alias[m.chat] ELSE c
      copy    == {r \in RowsIn(ensured, conv) : r.pid = m.pid}
      new     == [id |-> NewRow(d), conv |-> conv, pid |-> m.pid, dir |-> m.dir, at |-> m.at,
                  state |-> IF m.dir = "out" THEN "sent" ELSE "received",
                  order |-> m.order, seen |-> 0]
  IN [ensured EXCEPT !.rows =
       (@ \ copy) \cup (IF copy = {} THEN {new} ELSE {Echo(r, m) : r \in copy})]

\* saveMessageTx: an outbound message is one row of the account, in whatever
\* conversation it was reserved; c is the conversation of a batch, or 0.
SaveMessageTx(d, m, c) ==
  LET ensured == IF c = 0 THEN EnsureConversation(d, m.chat, {}) ELSE d
      conv    == IF c = 0 THEN ensured.alias[m.chat] ELSE c
      copy    == {r \in RowsIn(ensured, conv) : r.pid = m.pid}
      sent    == IF m.dir = "out" THEN Outbound(d, m.pid) ELSE {}
      new     == [id |-> NewRow(d), conv |-> conv, pid |-> m.pid, dir |-> m.dir, at |-> m.at,
                  state |-> IF m.dir = "out" THEN "sent" ELSE "received",
                  order |-> m.order, seen |-> 0]
  IN IF sent # {}
     THEN [d EXCEPT !.rows = (@ \ sent) \cup
            {[Echo(r, m) EXCEPT !.at = IF Pending(r) THEN m.at ELSE @] : r \in sent}]
     ELSE [ensured EXCEPT !.rows =
            (@ \ copy) \cup (IF copy = {} THEN {new} ELSE {Echo(r, m) : r \in copy})]

\* The conversation of the row saveMessageTx returns
SavedIn(d, m) ==
  LET sent == IF m.dir = "out" THEN Outbound(d, m.pid) ELSE {}
  IN IF sent # {} THEN (CHOOSE r \in sent : TRUE).conv ELSE d.alias[m.chat]

SaveMessage(d, m) == LET e == SaveMessageTx(d, m, 0) IN Refresh(e, SavedIn(e, m))

\* ReserveSend, and the row its key leads to
ReserveSend(d, x) ==
  LET row == [id |-> NewRow(d), conv |-> d.alias[x.chat], pid |-> x.pid, dir |-> "out",
              at |-> x.at, state |-> "queued", order |-> 0, seen |-> 0]
  IN Refresh([d EXCEPT !.rows = @ \cup {row}, !.keys = @ \cup {[key |-> x.key, row |-> row.id]}],
             row.conv)

KeyRow(d, key) == {r \in d.rows : \E k \in d.keys : k.key = key /\ k.row = r.id}

Completed(d, r, at) ==
  [d EXCEPT !.rows = (@ \ {r}) \cup
    {IF r.state = "queued" THEN [r EXCEPT !.state = "sent", !.at = at] ELSE r}]

CompleteUnsorted(d, r, at) == Completed(d, r, at)  \* a mutant: the conversation is not refreshed

CompleteSend(d, r, at) == Refresh(Completed(d, r, at), r.conv)

\* ImportHistory: one transaction for the links, the chat, its messages and marks
ImportHistory(d, b) ==
  LET linked  == FoldLeft(LAMBDA e, l : AddLink(e, l[1], l[2]), d, b.links)
      ensured == IF b.chat = 0 THEN linked ELSE EnsureConversation(linked, b.chat, b.aliases)
      conv    == ensured.alias[b.chat]
      filled  == IF b.chat = 0 THEN ensured
                 ELSE Refresh(FoldLeft(LAMBDA e, m : SaveMessageTx(e, m, conv), ensured, b.messages), conv)
      changed == FoldLeft(SaveMessageChange, filled, b.changes)
      reacted == FoldLeft(SaveReaction, changed, b.reactions)
  IN FoldLeft(SaveReceipt, reacted, b.receipts)

---------------------------------------------------------------------------
(* What a read returns                                                     *)

Conversations(d) == {d.alias[j] : j \in Jid} \ {0}
Chats(d, r)      == {j \in Jid : d.alias[j] = r.conv}
About(S, d, r)   == {x \in S : x.chat \in Chats(d, r) /\ x.target = r.pid}

\* rankedReactions: the best of each participant over the chat's aliases, and
\* only then without the removals.
Reactions(d, r) ==
  {[by |-> x.by, emoji |-> x.emoji, at |-> x.at] : x \in
     {x \in About(d.reactions, d, r) :
        /\ x.emoji # 0
        /\ ~\E y \in About(d.reactions, d, r) : y.by = x.by /\ ReactionWins(y, x)}}

\* ListMessageReceipts
Receipts(d, r) ==
  LET Of(p) == {x \in About(d.receipts, d, r) : x.by = p}
  IN IF r.dir # "out" THEN {}
     ELSE {[by |-> x.by, delivered |-> Least0({y.delivered : y \in Of(x.by)}),
            read |-> Least0({y.read : y \in Of(x.by)})] : x \in About(d.receipts, d, r)}

\* attachMessageChanges: the last of each kind
Changes(d, r) ==
  {[kind |-> x.kind, at |-> x.at, event |-> x.event] : x \in
     {x \in About(d.changes, d, r) : ~\E y \in About(d.changes, d, r) :
        y.kind = x.kind /\ (y.at > x.at \/ (y.at = x.at /\ y.event > x.event))}}

View(d, c) ==
  [last |-> {l \in d.last : l.conv = c},
   rows |-> {[row |-> r, reactions |-> Reactions(d, r), receipts |-> Receipts(d, r),
              changes |-> Changes(d, r)] : r \in RowsIn(d, c)}]

---------------------------------------------------------------------------
(* The steps: one transaction each, and the notification that follows it;  *)
(* SendReadReceipts, which waits for the provider in between, takes three. *)

Of(type) == {e \in Events : e.type = type}

Write(d, facts, told) ==
  /\ db' = d
  /\ received' = received \cup facts
  /\ stale' = {c \in Conversations(d) \ told :
                 \/ c \in stale \/ c \notin Conversations(db)
                 \/ d # db /\ View(d, c) # View(db, c)}

Commit(d, facts, told) ==
  /\ Write(d, facts, told)
  /\ untold' = (untold \cap Conversations(d)) \ told
  /\ UNCHANGED reads

LinkFact(a, b, via) == IF a = 0 \/ b = 0 \/ a = b THEN {} ELSE {[type |-> "link", jids |-> {a, b}, via |-> via]}

\* EventMessage
ReceiveMessage == \E m \in Of("message") :
  LET d == SaveMessage(db, m) IN Commit(d, {m}, {SavedIn(d, m)})

\* SendText: the reservation, under a fresh id, in a conversation there is
Reserve == \E x \in Of("reserve") :
  /\ db.alias[x.chat] # 0 /\ KeyRow(db, x.key) = {}
  /\ \A f \in received : f.type \in {"message", "reserve"} => f.pid # x.pid
  /\ Commit(ReserveSend(db, x), {x}, {db.alias[x.chat]})

\* SendText: the provider's answer
Complete == \E x \in Of("complete") : \E r \in KeyRow(db, x.key) :
  Commit(CompleteSend(db, r, x.at), {}, {r.conv})

\* SendReadReceipts, for one message: the checks of the conversation and of the
\* message, which is not marked yet.  Of a request for several the others change
\* nothing here: each group is recorded by a transaction of its own.
BeginRead == \E x \in Of("seen") : \E r \in RowsIn(db, db.alias[x.chat]) :
  /\ Cardinality(reads) < MaxReads
  /\ r.pid = x.target /\ r.dir = "in" /\ r.seen = 0
  /\ reads' = reads \cup {[request |-> x, row |-> r.id, conv |-> r.conv, recorded |-> FALSE]}
  /\ UNCHANGED <<db, received, stale, untold>>

\* The row the call read, wherever it is now; one that a merge dropped for
\* another copy is gone, and the record fails.
StillThere(c) ==
  {r \in RowsIn(db, db.alias[c.request.chat]) : r.id = c.row /\ r.pid = c.request.target}

Marked(d, r, at) == [d EXCEPT !.rows = (@ \ {r}) \cup {[r EXCEPT !.seen = at]}]

\* The provider has answered: RecordReadReceipts, by public id; a mark that is
\* there stays.  Nobody is told yet.
RecordRead == \E c \in reads : \E r \in StillThere(c) :
  /\ ~c.recorded
  /\ reads' = (reads \ {c}) \cup {[c EXCEPT !.recorded = TRUE]}
  /\ \/ /\ r.seen = 0
        /\ Write(Marked(db, r, c.request.at), {c.request}, {})
        /\ untold' = untold \cup ({r.conv} \ {c.conv})
     \/ /\ r.seen # 0
        /\ UNCHANGED <<db, received, stale, untold>>

\* The conversation of the request, unless it was merged into an older one: a
\* chat whose conversation has the number the request has is still in that one.
ToldBy(c) == {c.conv} \cap {db.alias[c.request.chat]}

\* The end of the call, which names the conversation of the request; one that
\* has recorded nothing may (another message was marked) or may not.
EndRead == \E c \in reads : \E told \in SUBSET ToldBy(c) :
  /\ c.recorded => told = ToldBy(c)
  /\ reads' = reads \ {c}
  /\ stale' = stale \ told
  /\ untold' = untold \ told
  /\ UNCHANGED <<db, received>>

ToldChat(d, x, changed) ==  \* a mutant: a new link is not told of
  IF changed THEN {d.alias[x.chat]} \ {0} ELSE {}

\* SaveReaction, SaveReceipt: told is the chat's conversation if the mark
\* changed, and every conversation if the participant's names were not linked.
Told(d, x, changed) ==
  IF x.by # 0 /\ x.aka # 0 /\ x.aka \notin Linked(db.links, {x.by})
  THEN Conversations(d)
  ELSE IF changed THEN {d.alias[x.chat]} \ {0} ELSE {}

ReceiveReaction == \E x \in Of("reaction") :
  LET d == SaveReaction(db, x)
  IN Commit(d, {x} \cup LinkFact(x.by, x.aka, "event"), Told(d, x, d.reactions # db.reactions))

ReceiveReceipt == \E x \in Of("receipt") :
  LET d == SaveReceipt(db, x)
  IN Commit(d, {x} \cup LinkFact(x.by, x.aka, "event"), Told(d, x, d.receipts # db.receipts))

\* SaveMessageChange
ReceiveChange == \E x \in Of("change") :
  Commit(SaveMessageChange(db, x), {x}, {db.alias[x.chat]} \ {0})

\* UpdateChatProfile: the link is taken only for a conversation there is, or is to be.
ReceiveProfile == \E x \in Of("profile") :
  LET known  == db.alias[x.chat] # 0 \/ (x.alternate # 0 /\ db.alias[x.alternate] # 0)
      taken  == known \/ x.create
      linked == AddLink(db, x.chat, x.alternate)
      d      == IF ~taken THEN db
                ELSE IF linked.alias[x.chat] = 0 /\ x.create
                     THEN EnsureConversation(linked, x.chat, {}) ELSE linked
  IN Commit(d, IF taken THEN LinkFact(x.chat, x.alternate, "event") ELSE {}, Conversations(d))

\* CreateConversation: LinkChats, then GetOrCreateConversation
CreateConversation == \E x \in Of("create") :
  LET d == EnsureConversation(AddLink(db, x.chat, x.alternate), x.chat, {})
  IN Commit(d, LinkFact(x.chat, x.alternate, "create"), {d.alias[x.chat]})

\* EventHistory
ReceiveHistory == \E b \in Of("history") :
  LET d == ImportHistory(db, b)
      Linking(l) == LinkFact(l[1], l[2], "event")
  IN Commit(d,
       ToSet(b.messages) \cup ToSet(b.changes) \cup ToSet(b.reactions) \cup ToSet(b.receipts)
         \cup (UNION {Linking(l) : l \in ToSet(b.links)})
         \cup (UNION {LinkFact(x.by, x.aka, "event") : x \in ToSet(b.reactions) \cup ToSet(b.receipts)})
         \cup (IF b.chat = 0 THEN {} ELSE {[type |-> "chat", jids |-> {b.chat} \cup b.aliases]}),
       Conversations(d))

Next == \/ ReceiveMessage \/ Reserve \/ Complete
        \/ BeginRead \/ RecordRead \/ EndRead
        \/ ReceiveReaction \/ ReceiveReceipt \/ ReceiveChange
        \/ ReceiveProfile \/ CreateConversation \/ ReceiveHistory

Spec == Init /\ [][Next]_vars

---------------------------------------------------------------------------
(* Properties, against everything that was received, in whatever order     *)

Facts(type) == {f \in received : f.type = type}
LinkedBy    == {f.jids : f \in Facts("link")}
SameChat    == LinkedBy \cup {f.jids : f \in Facts("chat")}

\* Rows, keys and marks are in the forms the tables hold.
TypeOK ==
  /\ db.links \subseteq SUBSET Jid
  /\ \A j \in Jid : db.alias[j] \in 0..Cardinality(Jid)
  /\ \A r \in db.rows : r.conv \in Conversations(db) /\ r.dir \in {"in", "out"}
       /\ r.state \in {"queued", "sent", "received"} /\ (r.state = "received") = (r.dir = "in")
  /\ \A r, s \in db.rows : r # s => r.id # s.id /\ <<r.conv, r.pid>> # <<s.conv, s.pid>>
  /\ stale \subseteq Conversations(db)

\* Two chats are one conversation exactly when links or a batch's aliases make
\* them so, however many conversations there were before the link came
\* (ensureConversationTx, addChatLinkTx, mergeConversationTx).
AliasesAreClosed ==
  \A i, j \in Jid : db.alias[i] # 0 =>
    ((db.alias[j] = db.alias[i]) <=> j \in Linked(SameChat, {i}))

\* The tables hold together: types, unique keys, and aliases without gaps.
TablesOK == TypeOK /\ AliasesAreClosed

\* A message that arrived live, in history or as an echo, under any of the
\* chat's names, is shown once in the chat's conversation; a sent one has one
\* row in the account (saveMessageTx, mergeConversationTx).
OneCopy ==
  /\ \A m \in Facts("message") :
       LET copies == {r \in db.rows : r.pid = m.pid}
       IN IF m.dir = "in" THEN \E r \in copies : r.conv = db.alias[m.chat] ELSE copies # {}
  /\ \A r, s \in db.rows : r.pid = s.pid /\ r.dir = "out" /\ s.dir = "out" => r = s

\* Merging conversations loses no idempotency key, which still leads to the
\* message it was used for, and no mark as read: a message that was marked
\* under any name of its chat carries the first time.
MergeKeeps ==
  /\ \A x \in Facts("reserve") : \E r \in KeyRow(db, x.key) : r.pid = x.pid /\ r.dir = "out"
  /\ \A x \in Facts("seen") : \E r \in db.rows :
       /\ r.pid = x.target /\ r.conv = db.alias[x.chat]
       /\ r.seen = Least({y.at : y \in {y \in Facts("seen") :
            y.target = x.target /\ db.alias[y.chat] = r.conv}})

\* What a message shows of reactions, receipts, edits and deletions is a
\* function of what was received, not of its order, of repeats, of the name of
\* the chat or participant it came under, or of when the message came
\* (reactionOrder, mergeReceiptTimes, rankedMessageChanges).
MarksConverge == \A r \in db.rows :
  LET Here(type) == {f \in Facts(type) : db.alias[f.chat] = r.conv /\ f.target = r.pid}
      Who(f)     == IF f.by = 0 THEN 0 ELSE Canonical(LinkedBy, f.by)
      Times(p, kind) == {f.at : f \in {f \in Here("receipt") : Who(f) = p /\ f.kind = kind}}
      Later(f, g) ==
        \/ f.at > g.at
        \/ f.at = g.at /\ f.emoji = 0 /\ g.emoji # 0
        \/ f.at = g.at /\ (f.emoji = 0) = (g.emoji = 0) /\ f.event > g.event
        \/ f.at = g.at /\ f.event = g.event /\ f.emoji > g.emoji /\ g.emoji # 0
  IN /\ Reactions(db, r) =
          {[by |-> Who(f), emoji |-> f.emoji, at |-> f.at] : f \in
             {f \in Here("reaction") : f.emoji # 0 /\
                ~\E g \in Here("reaction") : Who(g) = Who(f) /\ Later(g, f)}}
     /\ Receipts(db, r) = IF r.dir # "out" THEN {} ELSE
          {[by |-> p, delivered |-> Least0(Times(p, "delivered")), read |-> Least0(Times(p, "read"))] :
             p \in {Who(f) : f \in Here("receipt")}}
     /\ \A kind \in {"edit", "revoke"} :
          {c.event : c \in {c \in Changes(db, r) : c.kind = kind}} =
          {f.event : f \in {f \in Here("change") : f.kind = kind /\
             \A g \in Here("change") : g.kind = kind => <<g.at, g.event>> = <<f.at, f.event>>
                \/ g.at < f.at \/ (g.at = f.at /\ g.event < f.event)}}

\* A conversation's preview and time are those of its newest message, after
\* sends, echoes that move a message in time, and merges (refreshConversationTx).
LastIsNewest == \A c \in Conversations(db) : RowsIn(db, c) # {} =>
  \E r \in RowsIn(db, c) : /\ \A s \in RowsIn(db, c) \ {r} : Newer(r, s)
                           /\ {l \in db.last : l.conv = c} = {[conv |-> c, row |-> r.id, at |-> r.at]}

\* What LastIsNewest rests on: a batch names the chat that its own messages were
\* sent to.  Of one with another name the row would change, and be refreshed, in
\* the batch's conversation only (ImportHistory).
Arriving == {e \in Events : e.type \in {"message", "reserve"}}
              \cup (UNION {ToSet(b.messages) : b \in Of("history")})

OwnStayInChat ==
  \A b \in Of("history") : \A m \in ToSet(b.messages), f \in Arriving :
    m.dir = "out" /\ f.pid = m.pid => f.chat \in {b.chat} \cup b.aliases

\* Links that CreateConversation takes may change the receipts a group shows, and
\* only the direct conversation is told of.
NoCreateLinks == \A f \in Facts("link") : f.via # "create"

\* What calls of SendReadReceipts have recorded and will tell of
Owed == UNION {ToldBy(c) : c \in {c \in reads : c.recorded}}

\* A client that fetches again what it is told of shows every conversation as
\* it is, but for links that CreateConversation takes, for marks as read whose
\* call is about to tell of them, and for those whose call outlived its
\* conversation: whatever else interleaves with the calls, links, merges and
\* batches, no change of what is shown goes untold.
ClientsCatchUp == NoCreateLinks => stale \subseteq Owed \cup untold

---------------------------------------------------------------------------
(* The inductive invariant behind TablesOK, OneCopy, MergeKeeps and        *)
(* MarksConverge, of a database d that has taken in H.  It is stated for   *)
(* any d and H, since one transaction takes in many things.                *)

Sent(H)  == {f \in H : f.type \in {"message", "reserve"}}
Group(H) == {f.jids : f \in {f \in H : f.type \in {"link", "chat"}}}

\* A number is taken only when the ones before it were.
TablesTyped(d) ==
  /\ d = [links |-> d.links, alias |-> d.alias, rows |-> d.rows, keys |-> d.keys,
          last |-> d.last, reactions |-> d.reactions, receipts |-> d.receipts,
          changes |-> d.changes]
  /\ d.links \subseteq SUBSET Jid /\ d.alias \in [Jid -> Nat] /\ IsFiniteSet(d.rows)
  /\ \A j \in Jid : d.alias[j] <= Cardinality({i \in Jid : d.alias[i] # 0})

IsRow(r) ==
  /\ r = [id |-> r.id, conv |-> r.conv, pid |-> r.pid, dir |-> r.dir, at |-> r.at,
          state |-> r.state, order |-> r.order, seen |-> r.seen]
  /\ r.id \in Nat /\ r.at \in Nat /\ r.order \in Nat /\ r.seen \in Nat
  /\ \/ r.dir = "out" /\ r.state \in {"queued", "sent"}
     \/ r.dir = "in" /\ r.state = "received"

RowsTyped(d) ==
  /\ \A r \in d.rows : IsRow(r) /\ r.conv \in Conversations(d)
  /\ \A r, s \in d.rows : r.id = s.id => r = s
  /\ \A r, s \in d.rows : r.pid = s.pid /\ (r.conv = s.conv \/ (r.dir = "out" /\ s.dir = "out"))
                         => r = s

\* A key leads to a message of the account's own, and a merge keeps that copy.
KeysTyped(d) ==
  \A k \in d.keys : /\ k = [key |-> k.key, row |-> k.row]
                    /\ \E r \in d.rows : r.id = k.row /\ r.dir = "out"

\* The links are those that were received; a chat that a batch names has a conversation.
LinksHeld(d, H) ==
  /\ d.links = {f.jids : f \in {f \in H : f.type = "link"}}
  /\ \A f \in H : f.type = "chat" => f.jids \subseteq Jid /\ \A j \in f.jids : d.alias[j] # 0

AliasesHeld(d, H) ==
  /\ \A l \in Group(H) : \A i, j \in l : d.alias[i] = d.alias[j]
  /\ \A i, j \in Jid : d.alias[i] # 0 /\ d.alias[i] = d.alias[j] => j \in Linked(Group(H), {i})

\* A row is of a message that was received or reserved, in the conversation of its chat.
RowsHeld(d, H) ==
  /\ \A r \in d.rows : \E f \in Sent(H) : f.chat \in Jid /\ f.pid = r.pid /\ d.alias[f.chat] = r.conv
  /\ \A f \in H : f.type = "message" =>
       \E r \in d.rows : r.pid = f.pid /\ (f.dir = "in" => f.chat \in Jid /\ r.conv = d.alias[f.chat])
  /\ \A f \in H : f.type = "reserve" =>
       \E k \in d.keys, r \in d.rows :
         k.key = f.key /\ k.row = r.id /\ r.pid = f.pid /\ r.dir = "out"

\* y is a mark as read of the message of r.
MarksRow(d, y, r) == y.type = "seen" /\ y.target = r.pid /\ d.alias[y.chat] = r.conv

SeenHeld(d, H) ==
  /\ \A y \in H : y.type = "seen" =>
       y.chat \in Jid /\ y.at \in Nat \ {0} /\ \E r \in d.rows : MarksRow(d, y, r)
  /\ \A r \in d.rows :
       /\ r.seen = 0 => \A y \in H : ~MarksRow(d, y, r)
       /\ r.seen # 0 => \E y \in H : MarksRow(d, y, r) /\ y.at = r.seen
       /\ \A y \in H : MarksRow(d, y, r) => r.seen <= y.at

Marks(H, type) == {f \in H : f.type = type}

\* Reactions, receipts and changes are what is left of those received, each under
\* the first of its participant's names, whenever these were linked.
MarksKept(d, H) ==
  /\ IsFiniteSet(Marks(H, "reaction")) /\ \A f \in Marks(H, "reaction") : IsReaction(f)
  /\ \A f \in Marks(H, "receipt") : IsReceipt(f)
  /\ \A f \in Marks(H, "change")  : IsChange(f)
  /\ d.reactions = Winners({Reacted(f, Participant(d, f)) : f \in Marks(H, "reaction")})
  /\ d.receipts  = Earliest({Receipt(f, Participant(d, f)) : f \in Marks(H, "receipt")})
  /\ d.changes   = {Changed(f) : f \in Marks(H, "change")}

Held(d, H) == /\ TablesTyped(d) /\ RowsTyped(d) /\ KeysTyped(d) /\ LinksHeld(d, H)
              /\ AliasesHeld(d, H) /\ RowsHeld(d, H) /\ SeenHeld(d, H) /\ MarksKept(d, H)

ConvInv == /\ Held(db, received) /\ stale \subseteq Conversations(db)
           /\ \A c \in reads : c.request \in Of("seen")
=============================================================================
