---------------------- MODULE NotificationDeliveryProofs ----------------------
(* Proofs about NotificationDelivery for any number of messages, workers and *)
(* faults and any batch size: the safety invariants, from the inductive      *)
(* IndInv, and that the outbox implements AtLeastOnce.                       *)
EXTENDS NotificationDelivery, TLAPS
-----------------------------------------------------------------------------
LEMMA InitInd == Init => IndInv
<1> SUFFICES ASSUME Init PROVE IndInv
  OBVIOUS
<1>1. TypeOK
  BY DeliveryAssumption DEF Init, TypeOK
<1>2. RowsHeldOnce /\ \A w \in Workers : Holding(w)
  BY DEF Init, RowsHeldOnce, Holding
<1>3. CopiesAccounted /\ OnlyOwnMessagesPosted
  BY DEF Init, CopiesAccounted, OnlyOwnMessagesPosted, Accepting
<1> QED BY <1>1, <1>2, <1>3 DEF IndInv

(* What the invariant says of a worker that sends or commits.                *)
LEMMA HeldRow ==
    ASSUME IndInv, NEW w \in Workers, pc[w] \in {"send", "commit"}
    PROVE  /\ row[w] \in Messages
           /\ row[w] # 0
           /\ row[w] \in visible \ Foreign
           /\ status[row[w]] = "PENDING"
           /\ left[w] \in 1..BatchSize
           /\ \A v \in Workers \ {w} : row[v] # row[w]
<1>1. row[w] \in visible \ Foreign /\ status[row[w]] = "PENDING" /\ left[w] > 0
  BY DEF IndInv, Holding
<1>2. row[w] \in Messages /\ row[w] # 0
  BY <1>1, DeliveryAssumption DEF IndInv, TypeOK, Messages
<1>3. left[w] \in 1..BatchSize
  BY <1>1, DeliveryAssumption DEF IndInv, TypeOK
<1>4. \A v \in Workers \ {w} : row[v] # row[w]
  BY <1>2 DEF IndInv, RowsHeldOnce
<1> QED BY <1>1, <1>2, <1>3, <1>4

(* The message a worker holds counts as accepting exactly when that worker   *)
(* was told so.                                                              *)
LEMMA AcceptingOwn ==
    ASSUME IndInv, NEW w \in Workers, pc[w] \in {"send", "commit"}
    PROVE  Accepting(row[w]) <=> outcome[w] = "accepted"
BY HeldRow DEF Accepting

LEMMA TypeStep == IndInv /\ [Next]_vars => TypeOK'
<1> SUFFICES ASSUME IndInv, [Next]_vars PROVE TypeOK'
  OBVIOUS
<1> USE DeliveryAssumption DEF table, worker
<1>a. TypeOK
  BY DEF IndInv
<1>b. CASE UNCHANGED vars
  BY <1>a, <1>b DEF TypeOK, vars
<1>1. ASSUME NEW m \in Messages, Enqueue(m) PROVE TypeOK'
  BY <1>a, <1>1 DEF TypeOK, Enqueue
<1>2. ASSUME NEW m \in Messages, Tick(m) PROVE TypeOK'
  BY <1>a, <1>2 DEF TypeOK, Tick
<1>3. ASSUME NEW w \in Workers, NEW m \in Messages, Claim(w, m) PROVE TypeOK'
  BY SMTT(30), <1>a, <1>3 DEF TypeOK, Claim, Messages
<1>4. ASSUME NEW w \in Workers, Begin(w) PROVE TypeOK'
  BY <1>a, <1>4 DEF TypeOK, Begin
<1>5. ASSUME NEW w \in Workers, Stop(w) PROVE TypeOK'
  BY <1>a, <1>5 DEF TypeOK, Stop
<1>6. ASSUME NEW w \in Workers, SendAccepted(w) PROVE TypeOK'
  <2>1. row[w] \in Messages /\ left[w] \in 1..BatchSize
    BY <1>6, HeldRow DEF SendAccepted, Sender
  <2> QED
    BY <1>a, <1>6, <2>1 DEF TypeOK, SendAccepted, Sender
<1>7. ASSUME NEW w \in Workers, SendFailed(w) PROVE TypeOK'
  BY <1>a, <1>7 DEF TypeOK, SendFailed, Sender
<1>8. ASSUME NEW w \in Workers, SendAnswerLost(w) PROVE TypeOK'
  <2>1. row[w] \in Messages /\ left[w] \in 1..BatchSize
    BY <1>8, HeldRow DEF SendAnswerLost, Sender
  <2> QED
    BY <1>a, <1>8, <2>1 DEF TypeOK, SendAnswerLost, Sender
<1>9. ASSUME NEW w \in Workers, CommitSent(w) PROVE TypeOK'
  <2>1. row[w] \in Messages /\ left[w] \in 1..BatchSize
    BY <1>9, HeldRow DEF CommitSent
  <2> QED
    BY <1>a, <1>9, <2>1 DEF TypeOK, CommitSent, Release
<1>10. ASSUME NEW w \in Workers, CommitRetry(w) PROVE TypeOK'
  <2>1. row[w] \in Messages /\ left[w] \in 1..BatchSize
    BY <1>10, HeldRow DEF CommitRetry
  <2> QED
    BY <1>a, <1>10, <2>1 DEF TypeOK, CommitRetry, Release, Postpone
<1>11. ASSUME NEW w \in Workers, Crash(w) PROVE TypeOK'
  <2>1. CASE outcome[w] = "accepted"
    <3>1. row[w] \in Messages
      BY <2>1, HeldRow DEF IndInv, Holding, TypeOK
    <3>2. unconfirmed' \in [Messages -> Nat]
      BY <1>a, <1>11, <2>1, <3>1 DEF TypeOK, Crash
    <3> QED
      BY <1>a, <1>11, <3>2 DEF TypeOK, Crash, Release
  <2>2. CASE outcome[w] # "accepted"
    BY <1>a, <1>11, <2>2 DEF TypeOK, Crash, Release
  <2> QED BY <2>1, <2>2
<1> QED
  BY <1>b, <1>1, <1>2, <1>3, <1>4, <1>5, <1>6, <1>7, <1>8, <1>9, <1>10,
     <1>11 DEF Next, Run

(* A row belongs to one worker, and only while it sends or commits.          *)
LEMMA HoldingStep ==
    IndInv /\ [Next]_vars
    => (RowsHeldOnce /\ \A w \in Workers : Holding(w))'
<1> SUFFICES ASSUME IndInv, [Next]_vars
             PROVE  RowsHeldOnce' /\ \A v \in Workers : Holding(v)'
  OBVIOUS
<1> USE DeliveryAssumption DEF table, worker
<1>a. /\ TypeOK
      /\ RowsHeldOnce
      /\ \A v \in Workers : Holding(v)
  BY DEF IndInv
<1> DEFINE Goal == RowsHeldOnce' /\ \A v \in Workers : Holding(v)'
<1>b. CASE UNCHANGED vars
  BY <1>a, <1>b DEF vars, RowsHeldOnce, Holding
<1>1. ASSUME NEW m \in Messages, Enqueue(m) PROVE Goal
  BY <1>a, <1>1 DEF Enqueue, RowsHeldOnce, Holding
<1>2. ASSUME NEW m \in Messages, Tick(m) PROVE Goal
  BY <1>a, <1>2 DEF Tick, RowsHeldOnce, Holding
<1>3. ASSUME NEW w \in Workers, NEW m \in Messages, Claim(w, m) PROVE Goal
  <2>1. RowsHeldOnce'
    BY <1>a, <1>3 DEF Claim, Claimable, Locked, TypeOK, RowsHeldOnce
  <2>2. ASSUME NEW v \in Workers PROVE Holding(v)'
    BY <1>a, <1>3, <2>2 DEF Claim, Claimable, BatchLeft, TypeOK, Holding
  <2> QED BY <2>1, <2>2
<1>4. ASSUME NEW w \in Workers, Begin(w) PROVE Goal
  <2>1. RowsHeldOnce'
    BY <1>a, <1>4 DEF Begin, TypeOK, RowsHeldOnce
  <2>2. ASSUME NEW v \in Workers PROVE Holding(v)'
    BY <1>a, <1>4, <2>2 DEF Begin, TypeOK, Holding
  <2> QED BY <2>1, <2>2
<1>5. ASSUME NEW w \in Workers, Stop(w) PROVE Goal
  <2>1. RowsHeldOnce'
    BY <1>a, <1>5 DEF Stop, TypeOK, RowsHeldOnce
  <2>2. ASSUME NEW v \in Workers PROVE Holding(v)'
    BY <1>a, <1>5, <2>2 DEF Stop, TypeOK, Holding
  <2> QED BY <2>1, <2>2
<1>6. ASSUME NEW w \in Workers, SendAccepted(w) PROVE Goal
  <2>1. RowsHeldOnce'
    BY <1>a, <1>6 DEF SendAccepted, Sender, TypeOK, RowsHeldOnce
  <2>2. ASSUME NEW v \in Workers PROVE Holding(v)'
    BY <1>a, <1>6, <2>2 DEF SendAccepted, Sender, TypeOK, Holding
  <2> QED BY <2>1, <2>2
<1>7. ASSUME NEW w \in Workers, SendFailed(w) PROVE Goal
  <2>1. RowsHeldOnce'
    BY <1>a, <1>7 DEF SendFailed, Sender, TypeOK, RowsHeldOnce
  <2>2. ASSUME NEW v \in Workers PROVE Holding(v)'
    BY <1>a, <1>7, <2>2 DEF SendFailed, Sender, TypeOK, Holding
  <2> QED BY <2>1, <2>2
<1>8. ASSUME NEW w \in Workers, SendAnswerLost(w) PROVE Goal
  <2>1. RowsHeldOnce'
    BY <1>a, <1>8 DEF SendAnswerLost, Sender, TypeOK, RowsHeldOnce
  <2>2. ASSUME NEW v \in Workers PROVE Holding(v)'
    BY <1>a, <1>8, <2>2 DEF SendAnswerLost, Sender, TypeOK, Holding
  <2> QED BY <2>1, <2>2
<1>9. ASSUME NEW w \in Workers, CommitRetry(w) PROVE Goal
  <2>1. RowsHeldOnce'
    BY <1>a, <1>9 DEF CommitRetry, Release, TypeOK, RowsHeldOnce
  <2>2. ASSUME NEW v \in Workers PROVE Holding(v)'
    BY <1>a, <1>9, <2>2 DEF CommitRetry, Release, TypeOK, Holding
  <2> QED BY <2>1, <2>2
<1>10. ASSUME NEW w \in Workers, Crash(w) PROVE Goal
  <2>1. RowsHeldOnce'
    BY <1>a, <1>10 DEF Crash, Release, TypeOK, RowsHeldOnce
  <2>2. ASSUME NEW v \in Workers PROVE Holding(v)'
    BY <1>a, <1>10, <2>2 DEF Crash, Release, TypeOK, Holding
  <2> QED BY <2>1, <2>2
<1>11. ASSUME NEW w \in Workers, CommitSent(w) PROVE Goal
  <2>1. RowsHeldOnce'
    BY <1>a, <1>11 DEF CommitSent, Release, TypeOK, RowsHeldOnce
  <2>2. ASSUME NEW v \in Workers PROVE Holding(v)'
    <3>1. CASE v = w
      BY <1>a, <1>11, <3>1 DEF CommitSent, Release, TypeOK, Holding
    <3>2. CASE v # w
      <4>1. row[v] # row[w]
        BY <1>11, <3>2, HeldRow DEF CommitSent
      <4> QED
        BY <1>a, <1>11, <3>2, <4>1 DEF CommitSent, Release, TypeOK, Holding
    <3> QED BY <3>1, <3>2
  <2> QED BY <2>1, <2>2
<1> QED
  BY <1>b, <1>1, <1>2, <1>3, <1>4, <1>5, <1>6, <1>7, <1>8, <1>9, <1>10,
     <1>11 DEF Next, Run

(* A step of w changes the account of the message it holds only.             *)
LEMMA CopiesOfOthers ==
    ASSUME IndInv, NEW w \in Workers, pc[w] \in {"send", "commit"},
           row'[w] \in {row[w], 0},
           \A v \in Workers \ {w} : row'[v] = row[v] /\ outcome'[v] = outcome[v],
           \A m \in Messages \ {row[w]} : /\ chat'[m] = chat[m]
                                          /\ unconfirmed'[m] = unconfirmed[m]
                                          /\ status'[m] = status[m],
           chat'[row[w]] = unconfirmed'[row[w]]
              + (IF \/ status'[row[w]] = "SENT"
                    \/ row'[w] = row[w] /\ outcome'[w] = "accepted"
                   THEN 1 ELSE 0)
    PROVE  CopiesAccounted'
<1>1. /\ row[w] \in Messages /\ row[w] # 0
      /\ \A v \in Workers \ {w} : row[v] # row[w]
  BY HeldRow
<1>2. ASSUME NEW m \in Messages
      PROVE  chat'[m] = unconfirmed'[m]
                + (IF status'[m] = "SENT" \/ Accepting(m)' THEN 1 ELSE 0)
  <2>1. CASE m = row[w]
    <3>1. Accepting(m)' <=> row'[w] = row[w] /\ outcome'[w] = "accepted"
      BY <1>1, <2>1 DEF Accepting
    <3> QED BY <2>1, <3>1
  <2>2. CASE m # row[w]
    <3>1. m # 0
      BY DeliveryAssumption DEF Messages
    <3>2. Accepting(m)' <=> Accepting(m)
      BY <1>1, <2>2, <3>1 DEF Accepting
    <3> QED BY <2>2, <3>2 DEF IndInv, CopiesAccounted
  <2> QED BY <2>1, <2>2
<1> QED BY <1>2 DEF CopiesAccounted

(* The account of the message a worker holds.                                *)
LEMMA OwnCopies ==
    ASSUME IndInv, NEW w \in Workers, pc[w] \in {"send", "commit"}
    PROVE  /\ chat[row[w]] \in Nat /\ unconfirmed[row[w]] \in Nat
           /\ chat[row[w]] = unconfirmed[row[w]]
                + (IF outcome[w] = "accepted" THEN 1 ELSE 0)
           /\ status[row[w]] = "PENDING"
           /\ pc[w] = "send" => outcome[w] = "none"
<1>1. row[w] \in Messages /\ status[row[w]] = "PENDING"
  BY HeldRow
<1>2. Accepting(row[w]) <=> outcome[w] = "accepted"
  BY AcceptingOwn
<1> QED BY <1>1, <1>2 DEF IndInv, TypeOK, Holding, CopiesAccounted

(* Every copy in the chat stays accounted for.                               *)
LEMMA CopiesStep == IndInv /\ [Next]_vars => CopiesAccounted'
<1> SUFFICES ASSUME IndInv, [Next]_vars PROVE CopiesAccounted'
  OBVIOUS
<1> USE DEF table, worker
<1>a. /\ TypeOK
      /\ CopiesAccounted
  BY DEF IndInv
<1>b. CASE UNCHANGED vars
  BY <1>a, <1>b DEF vars, CopiesAccounted, Accepting
<1>1. ASSUME NEW m \in Messages, Enqueue(m) \/ Tick(m) PROVE CopiesAccounted'
  BY <1>a, <1>1 DEF Enqueue, Tick, CopiesAccounted, Accepting
<1>2. ASSUME NEW w \in Workers, NEW m \in Messages, Claim(w, m)
      PROVE  CopiesAccounted'
  <2>1. outcome[w] = "none" /\ UNCHANGED <<chat, unconfirmed, status, outcome>>
    BY <1>2 DEF Claim, IndInv, Holding
  <2>2. row[w] = 0
    BY <1>2 DEF Claim, IndInv, Holding
  <2>3. \A k \in Messages : Accepting(k)' <=> Accepting(k)
    BY <1>a, <1>2, <2>1, <2>2 DEF Claim, Accepting, TypeOK
  <2> QED BY <1>a, <2>1, <2>3 DEF CopiesAccounted
<1>3. ASSUME NEW w \in Workers, Begin(w) \/ Stop(w) PROVE CopiesAccounted'
  BY <1>a, <1>3 DEF Begin, Stop, CopiesAccounted, Accepting
<1>4. ASSUME NEW w \in Workers, SendAccepted(w) PROVE CopiesAccounted'
  <2>1. pc[w] \in {"send", "commit"}
    BY <1>4 DEF SendAccepted, Sender
  <2>2. row[w] \in Messages
    BY <2>1, HeldRow
  <2> QED
    BY <1>a, <1>4, <2>1, <2>2, OwnCopies, CopiesOfOthers DEF SendAccepted,
       Sender, TypeOK
<1>5. ASSUME NEW w \in Workers, SendFailed(w) PROVE CopiesAccounted'
  <2>1. pc[w] \in {"send", "commit"}
    BY <1>5 DEF SendFailed, Sender
  <2>2. row[w] \in Messages
    BY <2>1, HeldRow
  <2> QED
    BY <1>a, <1>5, <2>1, <2>2, OwnCopies, CopiesOfOthers DEF SendFailed,
       Sender, TypeOK
<1>6. ASSUME NEW w \in Workers, SendAnswerLost(w) PROVE CopiesAccounted'
  <2>1. pc[w] \in {"send", "commit"}
    BY <1>6 DEF SendAnswerLost, Sender
  <2>2. row[w] \in Messages
    BY <2>1, HeldRow
  <2> QED
    BY <1>a, <1>6, <2>1, <2>2, OwnCopies, CopiesOfOthers DEF
       SendAnswerLost, Sender, TypeOK
<1>7. ASSUME NEW w \in Workers, CommitSent(w) PROVE CopiesAccounted'
  <2>1. pc[w] \in {"send", "commit"}
    BY <1>7 DEF CommitSent
  <2>2. row[w] \in Messages
    BY <2>1, HeldRow
  <2> QED
    BY <1>a, <1>7, <2>1, <2>2, OwnCopies, CopiesOfOthers DEF CommitSent,
       Release, TypeOK
<1>8. ASSUME NEW w \in Workers, CommitRetry(w) PROVE CopiesAccounted'
  <2>1. pc[w] \in {"send", "commit"}
    BY <1>8 DEF CommitRetry
  <2>2. row[w] \in Messages
    BY <2>1, HeldRow
  <2> QED
    BY <1>a, <1>8, <2>1, <2>2, OwnCopies, CopiesOfOthers DEF CommitRetry,
       Release, Postpone, TypeOK
<1>9. ASSUME NEW w \in Workers, Crash(w) PROVE CopiesAccounted'
  <2>1. CASE pc[w] = "claim"
    <3>1. outcome[w] = "none" /\ row[w] = 0
      BY <2>1 DEF IndInv, Holding
    <3> QED
      BY <1>a, <1>9, <3>1 DEF Crash, Release, TypeOK, CopiesAccounted, Accepting
  <2>2. CASE pc[w] # "claim"
    <3>1. pc[w] \in {"send", "commit"}
      BY <1>a, <1>9, <2>2 DEF Crash, TypeOK
    <3>2. row[w] \in Messages
      BY <3>1, HeldRow
    <3> QED
      BY <1>a, <1>9, <3>1, <3>2, OwnCopies, CopiesOfOthers DEF Crash, Release,
         TypeOK
  <2> QED BY <2>1, <2>2
<1> QED
  BY <1>b, <1>1, <1>2, <1>3, <1>4, <1>5, <1>6, <1>7, <1>8, <1>9 DEF Next,
     Run

(* Only own, visible messages are ever posted.                               *)
LEMMA OnlyOwnStep == IndInv /\ [Next]_vars => OnlyOwnMessagesPosted'
<1> SUFFICES ASSUME IndInv, [Next]_vars,
                    NEW k \in Messages, chat'[k] > 0
             PROVE  k \in visible' \ Foreign
  BY DEF OnlyOwnMessagesPosted
<1> USE DEF table, worker
<1>1. visible \subseteq visible'
  BY DEF Next, Run, vars, Enqueue, Tick, Begin, Claim, Stop, SendAccepted,
     SendFailed, SendAnswerLost, Sender, CommitSent, CommitRetry, Crash
<1>2. CASE chat'[k] = chat[k]
  BY <1>1, <1>2 DEF IndInv, OnlyOwnMessagesPosted
<1>3. CASE chat'[k] # chat[k]
  <2>1. PICK w \in Workers : SendAccepted(w) \/ SendAnswerLost(w)
    BY <1>3 DEF Next, Run, vars, Enqueue, Tick, Begin, Claim, Stop,
       SendFailed, Sender, CommitSent, CommitRetry, Crash
  <2>2. pc[w] = "send"
    BY <2>1 DEF SendAccepted, SendAnswerLost, Sender
  <2>3. k = row[w]
    BY <1>3, <2>1 DEF SendAccepted, SendAnswerLost, IndInv, TypeOK
  <2> QED BY <1>1, <2>2, <2>3, HeldRow
<1> QED BY <1>2, <1>3

LEMMA NextInd == IndInv /\ [Next]_vars => IndInv'
BY TypeStep, HoldingStep, CopiesStep, OnlyOwnStep DEF IndInv
-----------------------------------------------------------------------------
(* IndInv holds in every reachable state.                                    *)
THEOREM Inductive == Spec => []IndInv
<1>1. Init => IndInv
  BY InitInd
<1>2. IndInv /\ [Next]_vars => IndInv'
  BY NextInd
<1> QED BY <1>1, <1>2, PTL DEF Spec

(* Every reachable state is of the declared types.                           *)
THEOREM TypeCorrect == Spec => []TypeOK
<1>1. IndInv => TypeOK
  BY DEF IndInv
<1> QED BY <1>1, Inductive, PTL

(* Overlapping runs of drain_notifications never hold the same row           *)
(* (delivery.py:132-136).                                                    *)
THEOREM RowsAreHeldOnce == Spec => []RowsHeldOnce
<1>1. IndInv => RowsHeldOnce
  BY DEF IndInv
<1> QED BY <1>1, Inductive, PTL

(* Every copy in the chat is the one of the commit, or one whose acceptance  *)
(* a crash or a lost answer kept from being committed (delivery.py:121-154). *)
THEOREM CopiesAreAccounted == Spec => []CopiesAccounted
<1>1. IndInv => CopiesAccounted
  BY DEF IndInv
<1> QED BY <1>1, Inductive, PTL

(* Nothing of another organization and nothing uncommitted reaches the chat  *)
(* (delivery.py:133).                                                        *)
THEOREM OnlyOwnArePosted == Spec => []OnlyOwnMessagesPosted
<1>1. IndInv => OnlyOwnMessagesPosted
  BY DEF IndInv
<1> QED BY <1>1, Inductive, PTL
-----------------------------------------------------------------------------
(* The refinement of AtLeastOnce, step by step.                              *)
Recorded == {m \in Messages : status[m] = "SENT"}

LEMMA InitRefines == Init => Outbox!Init
BY DEF Init, Outbox!Init

(* The acceptance is a Post, whether the worker learns of it or not.         *)
LEMMA PostRefines ==
    ASSUME IndInv, NEW w \in Workers, SendAccepted(w) \/ SendAnswerLost(w)
    PROVE  Outbox!Next
<1>1. pc[w] = "send"
  BY DEF SendAccepted, SendAnswerLost, Sender
<1>2. row[w] \in Messages /\ row[w] \in visible /\ status[row[w]] = "PENDING"
  BY <1>1, HeldRow
<1>3. row[w] \in visible \ Recorded
  BY <1>2 DEF Recorded
<1>4. /\ chat' = [chat EXCEPT ![row[w]] = @ + 1]
      /\ visible' = visible
      /\ Recorded' = Recorded
  BY DEF SendAccepted, SendAnswerLost, Sender, table, Recorded
<1>5. Outbox!Post(row[w])
  BY <1>3, <1>4 DEF Outbox!Post, Recorded
<1> QED BY <1>2, <1>5 DEF Outbox!Next

(* The commit of SENT is a Confirm: there is a copy in the chat.             *)
LEMMA ConfirmRefines ==
    ASSUME IndInv, NEW w \in Workers, CommitSent(w)
    PROVE  Outbox!Next
<1>1. pc[w] = "commit" /\ outcome[w] = "accepted"
  BY DEF CommitSent
<1>2. row[w] \in Messages
  BY <1>1, HeldRow
<1>3. chat[row[w]] > 0
  BY <1>1, <1>2, OwnCopies
<1>4. Recorded' = Recorded \cup {row[w]}
  BY <1>2 DEF CommitSent, Recorded, IndInv, TypeOK
<1>5. visible' = visible /\ chat' = chat
  BY DEF CommitSent
<1>6. \E m \in Messages : Outbox!Confirm(m)
  BY <1>2, <1>3, <1>4, <1>5 DEF Outbox!Confirm, Recorded
<1> QED BY <1>6 DEF Outbox!Next

LEMMA StepRefines == IndInv /\ [Next]_vars => [Outbox!Next]_(Outbox!vars)
<1> SUFFICES ASSUME IndInv, [Next]_vars
             PROVE  [Outbox!Next]_(Outbox!vars)
  OBVIOUS
<1> USE DEF table, worker
<1>1. ASSUME NEW m \in Messages, Enqueue(m) PROVE Outbox!Next
  <2>1. Outbox!Queue(m)
    BY <1>1 DEF Enqueue, Outbox!Queue
  <2> QED BY <2>1 DEF Outbox!Next
<1>2. ASSUME NEW w \in Workers, SendAccepted(w) \/ SendAnswerLost(w)
      PROVE  Outbox!Next
  BY <1>2, PostRefines
<1>3. ASSUME NEW w \in Workers, CommitSent(w) PROVE Outbox!Next
  BY <1>3, ConfirmRefines
<1>4. ASSUME UNCHANGED <<visible, status, chat>>
      PROVE  UNCHANGED Outbox!vars
  BY <1>4 DEF Outbox!vars
<1>5. CASE UNCHANGED vars
  BY <1>5, <1>4 DEF vars
<1>6. ASSUME NEW m \in Messages, Tick(m)
      PROVE  UNCHANGED <<visible, status, chat>>
  BY <1>6 DEF Tick
<1>7. ASSUME NEW w \in Workers,
             \/ \E m \in Messages : Claim(w, m)
             \/ Begin(w) \/ Stop(w) \/ SendFailed(w) \/ CommitRetry(w)
             \/ Crash(w)
      PROVE  UNCHANGED <<visible, status, chat>>
  BY <1>7 DEF Claim, Begin, Stop, SendFailed, Sender, CommitRetry, Crash
<1> QED BY <1>1, <1>2, <1>3, <1>4, <1>5, <1>6, <1>7 DEF Next, Run

(* The worker, its locks, its retries and its crashes implement the outbox   *)
(* that posts before it confirms and never posts again (delivery.py:119-157).*)
THEOREM DeliversAtLeastOnce == Spec => AtLeastOnceDelivery
<1>1. Init => Outbox!Init
  BY InitRefines
<1>2. IndInv /\ [Next]_vars => [Outbox!Next]_(Outbox!vars)
  BY StepRefines
<1> QED
  BY <1>1, <1>2, Inductive, PTL DEF Spec, AtLeastOnceDelivery, Outbox!Spec
=============================================================================
