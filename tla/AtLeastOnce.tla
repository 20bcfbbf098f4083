----------------------------- MODULE AtLeastOnce -----------------------------
(* What the notification outbox promises (ADR-007, docs/features/telegram-   *)
(* notifications.md): a queued message is posted to the chat at least once   *)
(* before it counts as sent, and never again afterwards.                     *)
EXTENDS Naturals

CONSTANT Messages

VARIABLES queued,      \* messages accepted for delivery
          chat,        \* copies of each message in the chat
          sent         \* messages recorded as sent

vars == <<queued, chat, sent>>

Init == queued = {} /\ chat = [m \in Messages |-> 0] /\ sent = {}

Queue(m) ==
    /\ queued' = queued \cup {m}
    /\ UNCHANGED <<chat, sent>>

Post(m) ==
    /\ m \in queued \ sent
    /\ chat' = [chat EXCEPT ![m] = @ + 1]
    /\ UNCHANGED <<queued, sent>>

Confirm(m) ==
    /\ chat[m] > 0
    /\ sent' = sent \cup {m}
    /\ UNCHANGED <<queued, chat>>

Next == \E m \in Messages : Queue(m) \/ Post(m) \/ Confirm(m)

Spec == Init /\ [][Next]_vars
=============================================================================
