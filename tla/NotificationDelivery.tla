------------------------ MODULE NotificationDelivery ------------------------
(* The Telegram outbox: rows committed with their incident by                *)
(* enqueue_notification (modules/notifications/service.py) and drained by    *)
(* short-lived workers, drain_notifications (modules/notifications/          *)
(* delivery.py).  A worker claims one row at a time with FOR UPDATE SKIP     *)
(* LOCKED, talks to Telegram inside the transaction, and commits SENT or a   *)
(* later next_attempt_at.  The timer's run and a run started by hand may     *)
(* overlap, and either may die at any point, which rolls its row back.       *)
(*                                                                           *)
(* Messages are numbered by created_at, which is taken before the commit, so *)
(* they may become visible in any order.  next_attempt_at is abstracted to   *)
(* "has passed", which may come true during a run: a run takes up to 45      *)
(* seconds and the shortest delay is 30.                                     *)
EXTENDS Naturals

CONSTANTS MaxMessages,   \* bound: messages in a behaviour
          Foreign,       \* those of another organization, or of none
          Poison,        \* those whose payload message_body refuses
          Workers,       \* processes running drain_notifications
          BatchSize,     \* rows one run may handle
          MaxFaults      \* bound: crashes and lost answers in a behaviour

Messages == 1..MaxMessages

ASSUME DeliveryAssumption ==
    /\ MaxMessages \in Nat
    /\ Foreign \subseteq Messages
    /\ Poison \subseteq Messages
    /\ BatchSize \in Nat \ {0}
    /\ MaxFaults \in Nat

VARIABLES visible,    \* rows whose incident transaction committed
          status,     \* PENDING or SENT
          due,        \* has next_attempt_at passed?
          chat,       \* copies of each message in the Telegram chat
          unconfirmed,\* history: copies whose acceptance was never committed
          pc, row,    \* per worker: where it is, the row it has locked (0: none)
          outcome,    \* per worker: what sender() did
          left,       \* per worker: iterations left in its batch
          faults

table  == <<visible, status, due>>
worker == <<pc, row, outcome, left>>
vars   == <<table, chat, unconfirmed, worker, faults>>

Init ==
    /\ visible = {}
    /\ status = [m \in Messages |-> "PENDING"]
    /\ due = [m \in Messages |-> TRUE]
    /\ chat = [m \in Messages |-> 0]
    /\ unconfirmed = [m \in Messages |-> 0]
    /\ pc = [w \in Workers |-> "idle"]
    /\ row = [w \in Workers |-> 0]
    /\ outcome = [w \in Workers |-> "none"]
    /\ left = [w \in Workers |-> 0]
    /\ faults = 0

(* The incident and its outbox row become visible in one commit; a row with  *)
(* the same event_key is left as it is.                                      *)
Enqueue(m) ==
    /\ m \notin visible
    /\ visible' = visible \cup {m}
    /\ UNCHANGED <<status, due, chat, unconfirmed, worker, faults>>
-----------------------------------------------------------------------------
Begin(w) ==
    /\ pc[w] = "idle"
    /\ pc' = [pc EXCEPT ![w] = "claim"]
    /\ left' = [left EXCEPT ![w] = BatchSize]
    /\ UNCHANGED <<table, chat, unconfirmed, row, outcome, faults>>

Locked(m) == \E w \in Workers : row[w] = m

(* Fault: a row that is already sent is claimed.                             *)
ClaimableAgain(m) ==
    m \in visible \ Foreign /\ due[m] /\ ~Locked(m)

Claimable(m) ==
    /\ m \in visible \ Foreign
    /\ status[m] = "PENDING"
    /\ due[m]
    /\ ~Locked(m)

BatchLeftOrZero(w) == left[w] >= 0       \* fault: one iteration too many
BatchLeft(w)       == left[w] > 0

(* ORDER BY created_at LIMIT 1 FOR UPDATE SKIP LOCKED.                       *)
Claim(w, m) ==
    /\ pc[w] = "claim"
    /\ BatchLeft(w)
    /\ Claimable(m)
    /\ \A k \in Messages : k < m => ~Claimable(k)
    /\ row' = [row EXCEPT ![w] = m]
    /\ pc' = [pc EXCEPT ![w] = "send"]
    /\ UNCHANGED <<table, chat, unconfirmed, outcome, left, faults>>

(* The run ends with its batch, with nothing to claim, or, after the first   *)
(* row, because it has been going on for more than 45 seconds.               *)
Stop(w) ==
    /\ pc[w] = "claim"
    /\ \/ left[w] < BatchSize
       \/ \A m \in Messages : ~Claimable(m)
    /\ pc' = [pc EXCEPT ![w] = "idle"]
    /\ left' = [left EXCEPT ![w] = 0]
    /\ UNCHANGED <<table, chat, unconfirmed, row, outcome, faults>>

(* sender(): Telegram accepts and the answer proves it; or it refuses, is    *)
(* unreachable, or the payload is refused before sending; or it accepts and  *)
(* the answer is lost or unusable, which the worker takes for a failure.     *)
Sender(w, result) ==
    /\ pc[w] = "send"
    /\ outcome' = [outcome EXCEPT ![w] = result]
    /\ pc' = [pc EXCEPT ![w] = "commit"]
    /\ UNCHANGED <<table, row, left>>

SendAccepted(w) ==
    /\ Sender(w, "accepted")
    /\ row[w] \notin Poison
    /\ chat' = [chat EXCEPT ![row[w]] = @ + 1]
    /\ UNCHANGED <<unconfirmed, faults>>

(* Fault: a refusal is taken for an acceptance.                              *)
SendFailedUnnoticed(w) ==
    /\ Sender(w, "accepted")
    /\ UNCHANGED <<chat, unconfirmed, faults>>

SendFailed(w) ==
    /\ Sender(w, "failed")
    /\ UNCHANGED <<chat, unconfirmed, faults>>

SendAnswerLost(w) ==
    /\ Sender(w, "failed")
    /\ row[w] \notin Poison
    /\ faults < MaxFaults
    /\ faults' = faults + 1
    /\ chat' = [chat EXCEPT ![row[w]] = @ + 1]
    /\ unconfirmed' = [unconfirmed EXCEPT ![row[w]] = @ + 1]

Release(w) ==
    /\ row' = [row EXCEPT ![w] = 0]
    /\ outcome' = [outcome EXCEPT ![w] = "none"]

CommitSent(w) ==
    /\ pc[w] = "commit"
    /\ outcome[w] = "accepted"
    /\ status' = [status EXCEPT ![row[w]] = "SENT"]
    /\ Release(w)
    /\ pc' = [pc EXCEPT ![w] = "claim"]
    /\ left' = [left EXCEPT ![w] = @ - 1]
    /\ UNCHANGED <<visible, due, chat, unconfirmed, faults>>

NoBackoff(m) == UNCHANGED due            \* fault: tried again without delay
Postpone(m)  == due' = [due EXCEPT ![m] = FALSE]

CommitRetry(w) ==
    /\ pc[w] = "commit"
    /\ outcome[w] = "failed"
    /\ Postpone(row[w])
    /\ Release(w)
    /\ pc' = [pc EXCEPT ![w] = "claim"]
    /\ left' = [left EXCEPT ![w] = @ - 1]
    /\ UNCHANGED <<visible, status, chat, unconfirmed, faults>>

(* The process dies or the commit fails: the row is unlocked as it was.      *)
Crash(w) ==
    /\ pc[w] # "idle"
    /\ faults < MaxFaults
    /\ faults' = faults + 1
    /\ unconfirmed' = IF outcome[w] = "accepted"
                        THEN [unconfirmed EXCEPT ![row[w]] = @ + 1]
                        ELSE unconfirmed
    /\ Release(w)
    /\ pc' = [pc EXCEPT ![w] = "idle"]
    /\ left' = [left EXCEPT ![w] = 0]
    /\ UNCHANGED <<table, chat>>

(* A retry delay runs out.                                                   *)
Tick(m) ==
    /\ ~due[m]
    /\ due' = [due EXCEPT ![m] = TRUE]
    /\ UNCHANGED <<visible, status, chat, unconfirmed, worker, faults>>
-----------------------------------------------------------------------------
Run(w) == \/ \E m \in Messages : Claim(w, m)
          \/ Stop(w)
          \/ SendAccepted(w) \/ SendFailed(w) \/ SendAnswerLost(w)
          \/ CommitSent(w) \/ CommitRetry(w)

Next == \/ \E m \in Messages : Enqueue(m) \/ Tick(m)
        \/ \E w \in Workers : Begin(w) \/ Run(w) \/ Crash(w)

Spec == Init /\ [][Next]_vars

(* The timer starts a run every minute and a run goes on; a delay runs out   *)
(* however often runs intervene; Telegram accepts a message tried again and  *)
(* again; and a run reaches every due row some time: failing rows wait 30    *)
(* seconds to an hour between attempts, a run takes up to BatchSize rows.    *)
Fairness ==
    /\ \A w \in Workers : WF_vars(Begin(w)) /\ WF_vars(Run(w))
    /\ \A m \in Messages :
          /\ SF_vars(Tick(m))
          /\ SF_vars(\E w \in Workers : Claim(w, m))
          /\ SF_vars(\E w \in Workers : row[w] = m /\ SendAccepted(w))

FairSpec == Spec /\ Fairness
-----------------------------------------------------------------------------
TypeOK ==
    /\ visible \subseteq Messages
    /\ status \in [Messages -> {"PENDING", "SENT"}]
    /\ due \in [Messages -> BOOLEAN]
    /\ chat \in [Messages -> Nat]
    /\ unconfirmed \in [Messages -> Nat]
    /\ pc \in [Workers -> {"idle", "claim", "send", "commit"}]
    /\ row \in [Workers -> 0..MaxMessages]
    /\ outcome \in [Workers -> {"none", "accepted", "failed"}]
    /\ left \in [Workers -> 0..BatchSize]
    /\ faults \in 0..MaxFaults

(* No two workers hold the same row: overlapping runs never work on one      *)
(* message (delivery.py:132-136).                                            *)
RowsHeldOnce ==
    \A v, w \in Workers : row[v] = row[w] /\ row[v] # 0 => v = w

(* The chat holds one copy of a sent message, and one more for every         *)
(* acceptance that a crash or a lost answer kept from being committed; a     *)
(* message not yet sent has only those and one a worker is about to commit.  *)
(* Overlapping runs, retries and restarts add none (delivery.py:121-125).    *)
Accepting(m) == \E w \in Workers : row[w] = m /\ outcome[w] = "accepted"

CopiesAccounted ==
    \A m \in Messages :
        chat[m] = unconfirmed[m]
                  + (IF status[m] = "SENT" \/ Accepting(m) THEN 1 ELSE 0)

(* A message of another organization, or of none, never reaches the chat     *)
(* (delivery.py:133), nor does one whose incident did not commit.            *)
OnlyOwnMessagesPosted ==
    \A m \in Messages : chat[m] > 0 => m \in visible \ Foreign

(* The inductive strengthening of the invariants above: a worker that sends  *)
(* or commits holds an own, pending row, and only then; an outcome exists    *)
(* exactly between the sending and the commit.                               *)
Holding(w) ==
    /\ IF pc[w] \in {"send", "commit"}
         THEN /\ row[w] \in visible \ Foreign
              /\ status[row[w]] = "PENDING"
              /\ left[w] > 0
         ELSE row[w] = 0
    /\ outcome[w] = "none" <=> pc[w] # "commit"

IndInv ==
    /\ TypeOK
    /\ RowsHeldOnce
    /\ \A w \in Workers : Holding(w)
    /\ CopiesAccounted
    /\ OnlyOwnMessagesPosted

(* The outbox keeps the promise of AtLeastOnce.                              *)
Outbox == INSTANCE AtLeastOnce WITH
    queued <- visible,
    sent <- {m \in Messages : status[m] = "SENT"}

AtLeastOnceDelivery == Outbox!Spec

(* A committed message of the organization is sent in the end, although      *)
(* others fail for ever.                                                     *)
EveryMessageSent ==
    \A m \in Messages \ (Foreign \cup Poison) :
        m \in visible ~> status[m] = "SENT"
=============================================================================
