---------------------------- MODULE SendPromise ----------------------------
(***************************************************************************)
(* What the daemon promises about one outgoing message, whatever workers,  *)
(* retries, logouts and restarts happen underneath (docs/api/usage.md,     *)
(* "Send failures and retries"):                                           *)
(*   - it is saved before the provider is asked to send it;                *)
(*   - the provider is asked at most once;                                 *)
(*   - "failed" means that the provider was not and will not be asked,     *)
(*     "sent" means that the provider accepted it, and "outcome_unknown"   *)
(*     may only be resolved to "sent".                                     *)
(* Several messages may move in one step: a logout or a restart settles    *)
(* all the messages of an account at once.                                 *)
(***************************************************************************)
CONSTANT Message

VARIABLES status,      \* [Message -> Status]
          asked,       \* messages whose send operation was called
          accepted     \* messages the provider accepted

Status == {"none", "queued", "sent", "failed", "outcome_unknown"}

Init == /\ status = [m \in Message |-> "none"]
        /\ asked = {}
        /\ accepted = {}

Same(m) == /\ status'[m] = status[m]
           /\ (m \in asked') <=> (m \in asked)
           /\ (m \in accepted') <=> (m \in accepted)

\* The message is written with its idempotency key, before any call.
Save(m) == /\ status[m] = "none"
           /\ status'[m] = "queued"
           /\ m \notin asked'
           /\ m \notin accepted'

\* The one call of the provider's send operation; the provider may accept.
Ask(m) == /\ status[m] \in {"queued", "outcome_unknown"}
          /\ m \notin asked
          /\ m \in asked'
          /\ status'[m] = status[m]

\* The outcome is recorded.
Settle(m) ==
  /\ status[m] \in {"queued", "outcome_unknown"}
  /\ \/ /\ status'[m] = "sent"
        /\ m \in accepted
     \/ /\ status[m] = "queued"
        /\ status'[m] = "failed"
        /\ m \notin asked
     \/ /\ status[m] = "queued"
        /\ status'[m] = "outcome_unknown"
  /\ (m \in asked') <=> (m \in asked)
  /\ (m \in accepted') <=> (m \in accepted)

Move(m) == Same(m) \/ Save(m) \/ Ask(m) \/ Settle(m)

Next == /\ status' \in [Message -> Status]
        /\ asked' \in SUBSET Message
        /\ accepted' \in SUBSET asked'
        /\ \A m \in Message : Move(m)

Spec == Init /\ [][Next]_<<status, asked, accepted>>
=============================================================================
