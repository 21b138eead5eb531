------------------------------- MODULE Pages -------------------------------
(***************************************************************************)
(* The pages of messages the HTTP API serves over the store of             *)
(* Conversations (store listMessages; api/native/v1 listConversationMessages, *)
(* messageWindow, writeMessagesPage).  A page has the messages newest      *)
(* first and the cursors of its neighbours; a cursor is the position a     *)
(* message had when the page was read.                                     *)
(***************************************************************************)
EXTENDS Conversations

Cursor(r) == [at |-> r.at, order |-> r.order, id |-> r.id]

FirstOf(s, n) == IF Len(s) <= n THEN s ELSE SubSeq(s, 1, n)
LastOf(s, n)  == IF Len(s) <= n THEN s ELSE SubSeq(s, Len(s) - n + 1, Len(s))

NewestFirst(rows) == SetToSortSeq(rows, Newer)

OlderByTime(rows, before, limit) ==  \* a mutant: the cursor is a time
  FirstOf(NewestFirst({r \in rows : \A k \in before : r.at < k.at}), limit)

\* listMessages; before is the set of the cursor that is given, if one is
Older(rows, before, limit) ==
  FirstOf(NewestFirst({r \in rows : \A k \in before : Newer(k, r)}), limit)

\* listMessages with After: the nearest ones, which are the last
Later(rows, after, limit) ==
  LastOf(NewestFirst({r \in rows : \A k \in after : Newer(r, k)}), limit)

\* listConversationMessages and writeMessagesPage; one more than fits is read
OlderPage(rows, before, limit) ==
  LET found == Older(rows, before, limit + 1)
      items == FirstOf(found, limit)
  IN [items    |-> items,
      next     |-> IF Len(found) > limit THEN {Cursor(Last(items))} ELSE {},
      previous |-> IF before # {} /\ items # <<>> THEN {Cursor(items[1])} ELSE {}]

\* messageWindow with after_cursor
NewerPage(rows, after, limit) ==
  LET found == Later(rows, after, limit + 1)
      items == LastOf(found, limit)
  IN [items    |-> items,
      next     |-> IF items = <<>> THEN {} ELSE {Cursor(Last(items))},
      previous |-> IF Len(found) > limit THEN {Cursor(items[1])} ELSE {}]

\* messageWindow with around_message_id: a slot is for the message itself
PageAround(rows, target, limit) ==
  LET here  == {Cursor(target)}
      older == Older(rows, here, (limit \div 2) + 1)
      newer == Later(rows, here, ((limit - 1) \div 2) + 1)
      below == FirstOf(older, limit \div 2)
      above == LastOf(newer, (limit - 1) \div 2)
  IN [items    |-> above \o <<target>> \o below,
      next     |-> IF Len(older) > Len(below) THEN {Cursor(Last(<<target>> \o below))} ELSE {},
      previous |-> IF Len(newer) > Len(above) THEN {Cursor((above \o <<target>>)[1])} ELSE {}]

---------------------------------------------------------------------------
Limits == 1..3

\* The pages a reader may have when something happens
Windows(rows, limit) ==
  {OlderPage(rows, {}, limit)} \cup {PageAround(rows, r, limit) : r \in rows}

Positions(page) == {Cursor(page.items[i]) : i \in DOMAIN page.items}

\* A page says that there is more exactly when there is, and the page that is
\* read later by its cursor, whatever was stored, merged or moved in between,
\* continues it: a message that kept its place is neither skipped nor repeated.
Meets(page, rows, later, limit) ==
  LET older  == OlderPage(later, page.next, limit)
      newer  == NewerPage(later, page.previous, limit)
      steady == {Cursor(r) : r \in rows} \cap {Cursor(r) : r \in later}
      Skipped(a, b) == {x \in steady \ (Positions(page) \cup Positions(a) \cup Positions(b)) :
                          \E p \in Positions(a), q \in Positions(b) : Newer(p, x) /\ Newer(x, q)}
  IN /\ (page.next = {}) = (\A r \in rows : ~\A p \in Positions(page) : Newer(p, r))
     /\ page.next # {} => /\ Skipped(page, older) = {}
                          /\ Positions(page) \cap Positions(older) = {}
                          /\ \A x \in steady : (\A p \in Positions(page) : Newer(p, x))
                               => older.items # <<>>
     /\ page.previous # {} => /\ Skipped(newer, page) = {}
                              /\ Positions(page) \cap Positions(newer) = {}
                              /\ \A x \in steady : (\A p \in Positions(page) : Newer(x, p))
                                   => newer.items # <<>>

\* Reading page by page works while messages arrive, are sent, echoed, ordered
\* by history and merged, in both directions (docs/api/usage.md:66).
PagesMeet == [][
  \A c \in Conversations(db) \cap Conversations(db') : \A limit \in Limits :
    LET rows  == RowsIn(db, c)
        later == RowsIn(db', c)
    IN rows # later => \A page \in Windows(rows, limit) : Meets(page, rows, later, limit)]_vars
=============================================================================
