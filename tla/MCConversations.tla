--------------------------- MODULE MCConversations ---------------------------
(* A contact with a phone number, 1, and a hidden id, 2, and a group, 3.      *)
EXTENDS Pages

Message(pid, chat, dir, at, order) ==
  [type |-> "message", pid |-> pid, chat |-> chat, dir |-> dir, at |-> at, order |-> order]
Reaction(chat, target, by, aka, emoji, at, event) ==
  [type |-> "reaction", chat |-> chat, target |-> target, by |-> by, aka |-> aka,
   emoji |-> emoji, at |-> at, event |-> event]
ReceiptOf(chat, target, by, aka, kind, at) ==
  [type |-> "receipt", chat |-> chat, target |-> target, by |-> by, aka |-> aka, kind |-> kind, at |-> at]
Change(chat, target, kind, at, event) ==
  [type |-> "change", chat |-> chat, target |-> target, kind |-> kind, at |-> at, event |-> event]

\* Message 1 comes live under the number and in history under the hidden id,
\* with a later edit.  Message 2 is sent to the number; an echo names the hidden
\* id, and so does an incoming copy in the batch.  Message 3 is the account's, in
\* the group, with receipts of the contact under both names.  Message 1 may be
\* marked as read under both names, by calls that overlap.
MCEvents ==
  {Message(1, 1, "in", 5, 0),
   [type |-> "history", links |-> <<>>, chat |-> 2, aliases |-> {},
    messages |-> <<Message(1, 2, "in", 5, 7), Message(2, 2, "in", 4, 0), Message(4, 2, "out", 5, 0)>>,
    changes |-> <<Change(2, 1, "edit", 8, 2), Change(2, 1, "revoke", 6, 3)>>,
    reactions |-> <<Reaction(2, 1, 2, 0, 0, 7, 1)>>,
    receipts |-> <<ReceiptOf(3, 3, 2, 0, "delivered", 9)>>],
   [type |-> "history", links |-> <<<<1, 2>>>>, chat |-> 0, aliases |-> {},
    messages |-> <<>>, changes |-> <<>>, reactions |-> <<>>, receipts |-> <<>>],
   [type |-> "reserve", pid |-> 2, chat |-> 1, key |-> 1, at |-> 6],
   [type |-> "complete", key |-> 1, at |-> 4],
   Message(2, 2, "out", 4, 0),
   Message(3, 3, "out", 3, 0),
   Reaction(1, 1, 1, 2, 1, 7, 2),
   ReceiptOf(3, 3, 1, 0, "read", 8),
   Change(1, 1, "edit", 7, 1),
   [type |-> "seen", chat |-> 1, target |-> 1, at |-> 9],
   [type |-> "seen", chat |-> 2, target |-> 1, at |-> 8],
   [type |-> "profile", chat |-> 1, alternate |-> 2, create |-> FALSE],
   [type |-> "create", chat |-> 1, alternate |-> 0]}

\* The events are such that LastIsNewest is a theorem about them.
ASSUME OwnStayInChat
=============================================================================
