-------------------------- MODULE AgentQueueProofs --------------------------
(* Proofs about AgentQueue for any number of workers, reports, files,        *)
(* crashes and any batch size.  IndInv is shown to be inductive: TypeStep    *)
(* for the types, then one step per action for the rest.                     *)
EXTENDS AgentQueue, FiniteSetTheorems, WellFoundedInduction, TLAPS
-----------------------------------------------------------------------------
(* Every non-empty set of natural numbers has a least element.               *)
LEMMA LeastNat ==
    ASSUME NEW S \in SUBSET Nat, S # {}
    PROVE  \E m \in S : \A k \in S : m <= k
<1>1. PICK m \in S : \A k \in S : <<k, m>> \notin OpToRel(<, Nat)
  BY NatLessThanWellFounded, WFMin, Zenon
<1>2. \A k \in S : <<k, m>> \in OpToRel(<, Nat) <=> k < m
  BY DEF OpToRel
<1>3. \A k \in S : ~(k < m)
  BY <1>1, <1>2
<1>4. \A k \in S : m <= k
  BY <1>3
<1> QED BY <1>4

(* A next number exists: the code's loop over the held files computes one    *)
(* more than their greatest (lines 107-110).                                 *)
LEMMA NextSeqExists ==
    ASSUME TypeOK
    PROVE  /\ NextSeq \in 1..(MaxReports + 1)
           /\ \A r \in Held : seqno[r] < NextSeq
           /\ NextSeq = 1 \/ \E r \in Held : seqno[r] = NextSeq - 1
<1> DEFINE Above == {n \in Nat : n >= 1 /\ \A r \in Held : seqno[r] < n}
           P(n) == /\ \A r \in Held : seqno[r] < n
                   /\ n = 1 \/ \E r \in Held : seqno[r] = n - 1
<1>1. \A r \in Held : seqno[r] \in 0..MaxReports
  BY DEF TypeOK, Held
<1>2. MaxReports + 1 \in Above
  BY <1>1, QueueAssumption
<1>3. PICK m \in Above : \A k \in Above : m <= k
  <2> HIDE DEF Above
  <2> QED BY <1>2, LeastNat DEF Above
<1>4. m \in 1..(MaxReports + 1)
  BY <1>2, <1>3, QueueAssumption
<1>5. P(m)
  <2>1. CASE m = 1
    BY <2>1, <1>3
  <2>2. CASE m # 1
    <3>1. m - 1 \in Nat /\ m - 1 >= 1 /\ m - 1 \notin Above
      BY <2>2, <1>3
    <3>2. PICK r \in Held : ~(seqno[r] < m - 1)
      BY <3>1
    <3>3. seqno[r] = m - 1
      BY <1>1, <1>3, <3>1, <3>2, QueueAssumption
    <3> QED BY <3>3, <1>3
  <2> QED BY <2>1, <2>2
<1>6. \E n \in 1..(MaxReports + 1) : P(n)
  BY <1>4, <1>5
<1> QED BY <1>6, Zenon DEF NextSeq

(* It does not exceed the number of the report being collected.              *)
LEMMA NextSeqFits ==
    ASSUME IndInv
    PROVE  /\ NextSeq \in 1..(collections + 1)
           /\ \A r \in Held : seqno[r] < NextSeq
<1>1. /\ NextSeq \in 1..(MaxReports + 1)
      /\ \A r \in Held : seqno[r] < NextSeq
      /\ NextSeq = 1 \/ \E r \in Held : seqno[r] = NextSeq - 1
  BY NextSeqExists DEF IndInv
<1>2. collections \in Nat
  BY QueueAssumption DEF IndInv, TypeOK
<1>3. CASE NextSeq = 1
  BY <1>1, <1>2, <1>3
<1>4. CASE \E r \in Held : seqno[r] = NextSeq - 1
  <2>1. PICK r \in Held : seqno[r] = NextSeq - 1
    BY <1>4
  <2>2. r \in Reports /\ where[r] # "none"
    BY DEF Held
  <2>3. seqno[r] <= r /\ r <= collections
    BY <2>2, <1>2, QueueAssumption DEF IndInv, NamesBounded, Unused, Reports
  <2>4. r \in Nat /\ seqno[r] \in Nat
    BY <2>2, QueueAssumption DEF IndInv, TypeOK, Reports
  <2> QED BY <1>1, <1>2, <2>1, <2>3, <2>4, QueueAssumption
<1> QED BY <1>1, <1>3, <1>4
-----------------------------------------------------------------------------
LEMMA InitInd == Init => IndInv
<1> SUFFICES ASSUME Init PROVE IndInv
  OBVIOUS
<1>1. TypeOK
  BY QueueAssumption DEF Init, TypeOK, AgentState, DefaultState, Places, Points,
     Replies
<1>2. QuotaRespected
  <2>1. {r \in Reports : where[r] \notin {"none", "removed"}} = {}
    BY DEF Init
  <2> QED BY <2>1, FS_EmptySet, QueueAssumption DEF QuotaRespected
<1>3. /\ LockExcludes
      /\ \A w \in Workers : InHand(w) /\ Phases(w)
      /\ BatchStillQueued
  BY DEF Init, LockExcludes, InHand, Phases, BatchStillQueued
<1>4. /\ Unused
      /\ NamesBounded
      /\ NoCaptureLost
      /\ NamesKeepOrder
  BY QueueAssumption DEF Init, Unused, NamesBounded, NoCaptureLost,
     NamesKeepOrder, Reports
<1> QED BY <1>1, <1>2, <1>3, <1>4 DEF IndInv

(* Setting one deadline of a worker's state.                                 *)
LEMMA Deadlines ==
    ASSUME TypeOK, NEW w \in Workers
    PROVE  /\ [mem EXCEPT ![w].collectDue = FALSE] \in [Workers -> AgentState]
           /\ [mem EXCEPT ![w].uploadDue = FALSE] \in [Workers -> AgentState]
<1>1. mem[w] \in AgentState
  BY DEF TypeOK
<1>2. [mem[w] EXCEPT !.collectDue = FALSE] \in AgentState
  BY <1>1 DEF AgentState
<1>3. [mem[w] EXCEPT !.uploadDue = FALSE] \in AgentState
  BY <1>1 DEF AgentState
<1> QED BY <1>2, <1>3 DEF TypeOK

LEMMA ConnectedType ==
    ASSUME TypeOK, NEW w \in Workers, NEW net \in BOOLEAN, NEW due \in BOOLEAN
    PROVE  Connected(w, net, due) \in AgentState
<1>1. mem[w] \in AgentState
  BY DEF TypeOK
<1> QED BY <1>1 DEF Connected, AgentState

(* The types, action by action.                                              *)
LEMMA TypeStep == IndInv /\ [Next]_vars => TypeOK'
<1> SUFFICES ASSUME IndInv, [Next]_vars PROVE TypeOK'
  OBVIOUS
<1> USE QueueAssumption DEF Goto, disk, server, local
<1>a. /\ TypeOK
      /\ \A w \in Workers : InHand(w)
  BY DEF IndInv
<1>b. CASE UNCHANGED vars
  BY <1>a, <1>b DEF TypeOK, vars
<1>1. ASSUME NEW w \in Workers, Start(w) PROVE TypeOK'
  BY <1>a, <1>1 DEF Start, TypeOK, TakeLock, AgentState, DefaultState,
     Points
<1>2. ASSUME NEW w \in Workers, RecoverTmp(w) PROVE TypeOK'
  BY <1>a, <1>2 DEF RecoverTmp, TypeOK, Tmp, Places
<1>3. ASSUME NEW w \in Workers, RecoverDone(w) PROVE TypeOK'
  BY <1>a, <1>3 DEF RecoverDone, TypeOK, Points
<1>4. ASSUME NEW w \in Workers, QueueFull(w) PROVE TypeOK'
  <2>1. mem' \in [Workers -> AgentState]
    BY <1>a, <1>4, Deadlines DEF QueueFull
  <2> QED
    BY <1>a, <1>4, <2>1 DEF QueueFull, TypeOK, Points
<1>5. ASSUME NEW w \in Workers, CollectOpen(w) PROVE TypeOK'
  <2>1. collections + 1 \in Reports /\ NextSeq \in 0..MaxReports
    BY <1>a, <1>5, NextSeqFits DEF CollectOpen, TypeOK, Reports
  <2> QED
    BY <1>a, <1>5, <2>1 DEF CollectOpen, TypeOK, Reports, Places, Points
<1>6. ASSUME NEW w \in Workers, CollectFlush(w) PROVE TypeOK'
  BY <1>a, <1>6 DEF CollectFlush, TypeOK, InHand, Places, Points
<1>7. ASSUME NEW w \in Workers, CollectRename(w) PROVE TypeOK'
  <2>1. mem' \in [Workers -> AgentState]
    BY <1>a, <1>7, Deadlines DEF CollectRename
  <2> QED
    BY <1>a, <1>7, <2>1 DEF CollectRename, TypeOK, InHand, Places, Points
<1>8. ASSUME NEW w \in Workers, CollectFail(w) PROVE TypeOK'
  <2>1. mem' \in [Workers -> AgentState]
    BY <1>a, <1>8, Deadlines DEF CollectFail
  <2> QED
    BY <1>a, <1>8, <2>1 DEF CollectFail, TypeOK, Points
<1>9. ASSUME NEW w \in Workers, SaveAfterCollect(w) PROVE TypeOK'
  BY <1>a, <1>9 DEF SaveAfterCollect, TypeOK, Points
<1>10. ASSUME NEW w \in Workers, BeginUpload(w) PROVE TypeOK'
  <2>1. mem' \in [Workers -> AgentState]
    BY <1>a, <1>10, ConnectedType DEF BeginUpload, TypeOK
  <2> QED
    BY <1>a, <1>10, <2>1 DEF BeginUpload, TypeOK, OldestQueued, Queued,
       Points
<1>11. ASSUME NEW w \in Workers, SkipUpload(w) PROVE TypeOK'
  <2>1. mem' \in [Workers -> AgentState]
    BY <1>a, <1>11, ConnectedType DEF SkipUpload, TypeOK
  <2>2. pc' \in [Workers -> Points]
    BY <1>a, <1>11 DEF SkipUpload, Goto, TypeOK, Points
  <2> QED
    BY <1>a, <1>11, <2>1, <2>2 DEF SkipUpload, TypeOK
<1>12. ASSUME NEW w \in Workers, ReadNext(w) PROVE TypeOK'
  BY SMTT(30), <1>a, <1>12 DEF ReadNext, TypeOK, FirstInBatch, Reports, Points
<1>13. ASSUME NEW w \in Workers, ReadCorrupt(w) PROVE TypeOK'
  BY <1>a, <1>13 DEF ReadCorrupt, TypeOK, FirstInBatch, Places
<1>14. ASSUME NEW w \in Workers, BatchDone(w) PROVE TypeOK'
  BY <1>a, <1>14 DEF BatchDone, TypeOK, Points
<1>15. ASSUME NEW w \in Workers, PostAccepted(w) PROVE TypeOK'
  BY <1>a, <1>15 DEF PostAccepted, TypeOK, Answer, InHand, Replies, Points
<1>16. ASSUME NEW w \in Workers, PostRefused(w) PROVE TypeOK'
  BY <1>a, <1>16 DEF PostRefused, TypeOK, Answer, Replies, Points
<1>17. ASSUME NEW w \in Workers, PostLost(w) PROVE TypeOK'
  BY <1>a, <1>17 DEF PostLost, TypeOK, Answer, InHand, Replies, Points
<1>18. ASSUME NEW w \in Workers, Acknowledge(w) PROVE TypeOK'
  <2>1. mem' \in [Workers -> AgentState]
    BY <1>a, <1>18, Deadlines DEF Acknowledge
  <2> QED
    BY <1>a, <1>18, <2>1 DEF Acknowledge, TypeOK, InHand, Places, Points
<1>19. ASSUME NEW w \in Workers, RejectPermanent(w) PROVE TypeOK'
  BY <1>a, <1>19 DEF RejectPermanent, TypeOK, InHand, Places, Points
<1>20. ASSUME NEW w \in Workers, BackOff(w) PROVE TypeOK'
  <2>1. mem' \in [Workers -> AgentState]
    BY <1>a, <1>20, Deadlines DEF BackOff
  <2> QED
    BY <1>a, <1>20, <2>1 DEF BackOff, TypeOK, Points
<1>21. ASSUME NEW w \in Workers, SaveProgress(w) PROVE TypeOK'
  BY <1>a, <1>21 DEF SaveProgress, TypeOK, Points
<1>22. ASSUME NEW w \in Workers, Finish(w) PROVE TypeOK'
  BY <1>a, <1>22 DEF Finish, TypeOK, Forget, DefaultState, AgentState,
     Replies, Points
<1>23. ASSUME NEW w \in Workers, Crash(w) PROVE TypeOK'
  BY <1>a, <1>23 DEF Crash, TypeOK, Forget, DefaultState, AgentState,
     Replies, Points
<1>24. ASSUME NEW r \in Reports, LateArrival(r) PROVE TypeOK'
  BY <1>a, <1>24 DEF LateArrival, TypeOK
<1>25. CASE CollectTimer \/ UploadTimer
  BY <1>a, <1>25 DEF CollectTimer, UploadTimer, TypeOK, AgentState
<1> QED
  BY <1>b, <1>1, <1>2, <1>3, <1>4, <1>5, <1>6, <1>7, <1>8, <1>9, <1>10,
     <1>11, <1>12, <1>13, <1>14, <1>15, <1>16, <1>17, <1>18, <1>19, <1>20,
     <1>21, <1>22, <1>23, <1>24, <1>25 DEF Next, Cycle, Collect, Upload
-----------------------------------------------------------------------------
(* What the other conjuncts say of the disk, and of one worker.              *)
DiskInv == /\ Unused
           /\ NamesBounded
           /\ NoCaptureLost
           /\ NamesKeepOrder
           /\ QuotaRespected

Running(w) == /\ InHand(w)
              /\ Phases(w)
              /\ \A r \in batch[w] : where[r] = "queued"
              /\ pc[w] \in {"post", "settle"} => where[current[w]] = "queued"

Rest == LockExcludes /\ DiskInv /\ \A w \in Workers : Running(w)

LEMMA IndInvParts == IndInv <=> TypeOK /\ Rest
BY DEF IndInv, Rest, DiskInv, Running, BatchStillQueued

(* Who works, works alone.                                                   *)
LEMMA OthersIdle ==
    ASSUME IndInv, NEW w \in Workers, pc[w] # "idle",
           NEW v \in Workers, v # w
    PROVE  pc[v] = "idle" /\ batch[v] = {}
<1>1. pc[v] = "idle"
  BY DEF IndInv, LockExcludes
<1> QED BY <1>1 DEF IndInv, Phases

(* A step of w that keeps the lock and leaves the other workers alone has to *)
(* be looked at for the disk and for w only.                                 *)
LEMMA StepOfOne ==
    ASSUME IndInv, NEW w \in Workers, pc[w] # "idle", UNCHANGED lock,
           \A v \in Workers \ {w} : pc'[v] = pc[v] /\ batch'[v] = batch[v],
           DiskInv', Running(w)'
    PROVE  Rest'
<1>1. LockExcludes'
  BY DEF IndInv, LockExcludes
<1>2. ASSUME NEW v \in Workers PROVE Running(v)'
  <2>1. CASE v = w
    BY <2>1
  <2>2. CASE v # w
    <3>1. pc'[v] = "idle" /\ batch'[v] = {}
      BY <2>2, OthersIdle
    <3> QED BY <3>1 DEF Running, InHand, Phases
  <2> QED BY <2>1, <2>2
<1> QED BY <1>1, <1>2 DEF Rest

(* Steps that touch no file keep what is said of the disk.                   *)
LEMMA DiskFrame ==
    ASSUME IndInv, UNCHANGED disk, received \subseteq received'
    PROVE  DiskInv'
BY DEF IndInv, DiskInv, disk, Unused, NamesBounded, NoCaptureLost, NamesKeepOrder,
   QuotaRespected

(* Steps of one worker that touch no file.                                   *)
LEMMA QuietSteps ==
    ASSUME IndInv, NEW w \in Workers
    PROVE  /\ RecoverDone(w) \/ QueueFull(w) \/ CollectFail(w) => Rest'
           /\ SaveAfterCollect(w) \/ SaveProgress(w) \/ BatchDone(w) => Rest'
           /\ BeginUpload(w) \/ SkipUpload(w) \/ ReadNext(w) \/ BackOff(w) => Rest'
           /\ PostAccepted(w) \/ PostRefused(w) \/ PostLost(w) => Rest'
<1> USE DEF Goto, disk, server, local
<1>a. TypeOK /\ Running(w)
  BY IndInvParts DEF Rest
<1>1. ASSUME RecoverDone(w) PROVE Rest'
  <2>1. Running(w)'
    BY <1>a, <1>1 DEF TypeOK, RecoverDone, Running, InHand, Phases, Tmp
  <2>2. DiskInv'
    BY <1>1, DiskFrame DEF RecoverDone
  <2> QED
    BY <1>a, <1>1, <2>1, <2>2, StepOfOne DEF TypeOK, RecoverDone
<1>2. ASSUME QueueFull(w) PROVE Rest'
  <2>1. Running(w)'
    BY <1>a, <1>2 DEF TypeOK, QueueFull, Running, InHand, Phases, Tmp
  <2>2. DiskInv'
    BY <1>2, DiskFrame DEF QueueFull
  <2> QED
    BY <1>a, <1>2, <2>1, <2>2, StepOfOne DEF TypeOK, QueueFull
<1>3. ASSUME CollectFail(w) PROVE Rest'
  <2>1. Running(w)'
    BY <1>a, <1>3 DEF TypeOK, CollectFail, Running, InHand, Phases, Tmp
  <2>2. DiskInv'
    BY <1>3, DiskFrame DEF CollectFail
  <2> QED
    BY <1>a, <1>3, <2>1, <2>2, StepOfOne DEF TypeOK, CollectFail
<1>4. ASSUME SaveAfterCollect(w) PROVE Rest'
  <2>1. Running(w)'
    BY <1>a, <1>4 DEF TypeOK, SaveAfterCollect, Running, InHand, Phases,
       Tmp
  <2>2. DiskInv'
    BY <1>4, DiskFrame DEF SaveAfterCollect
  <2> QED
    BY <1>a, <1>4, <2>1, <2>2, StepOfOne DEF TypeOK, SaveAfterCollect
<1>5. ASSUME BeginUpload(w) PROVE Rest'
  <2>1. Running(w)'
    BY <1>a, <1>5 DEF TypeOK, BeginUpload, OldestQueued, Queued, Running,
       InHand, Phases, Tmp
  <2>2. DiskInv'
    BY <1>5, DiskFrame DEF BeginUpload
  <2> QED
    BY <1>a, <1>5, <2>1, <2>2, StepOfOne DEF TypeOK, BeginUpload
<1>6. ASSUME SkipUpload(w) PROVE Rest'
  <2>1. Running(w)'
    BY <1>a, <1>6 DEF TypeOK, SkipUpload, Running, InHand, Phases, Tmp
  <2>2. DiskInv'
    BY <1>6, DiskFrame DEF SkipUpload
  <2> QED
    BY <1>a, <1>6, <2>1, <2>2, StepOfOne DEF TypeOK, SkipUpload
<1>7. ASSUME ReadNext(w) PROVE Rest'
  <2>1. Running(w)'
    BY <1>a, <1>7 DEF TypeOK, ReadNext, FirstInBatch, Running, InHand,
       Phases, Tmp
  <2>2. DiskInv'
    BY <1>7, DiskFrame DEF ReadNext
  <2> QED
    BY <1>a, <1>7, <2>1, <2>2, StepOfOne DEF TypeOK, ReadNext
<1>8. ASSUME BatchDone(w) PROVE Rest'
  <2>1. Running(w)'
    BY <1>a, <1>8 DEF TypeOK, BatchDone, Running, InHand, Phases, Tmp
  <2>2. DiskInv'
    BY <1>8, DiskFrame DEF BatchDone
  <2> QED
    BY <1>a, <1>8, <2>1, <2>2, StepOfOne DEF TypeOK, BatchDone
<1>9. ASSUME PostAccepted(w) PROVE Rest'
  <2>1. Running(w)'
    BY <1>a, <1>9 DEF TypeOK, PostAccepted, Answer, Running, InHand,
       Phases, Tmp
  <2>2. DiskInv'
    BY <1>9, DiskFrame DEF PostAccepted, Answer
  <2> QED
    BY <1>a, <1>9, <2>1, <2>2, StepOfOne DEF TypeOK, PostAccepted, Answer
<1>10. ASSUME PostRefused(w) PROVE Rest'
  <2>1. Running(w)'
    BY <1>a, <1>10 DEF TypeOK, PostRefused, Answer, Running, InHand,
       Phases, Tmp
  <2>2. DiskInv'
    BY <1>10, DiskFrame DEF PostRefused, Answer
  <2> QED
    BY <1>a, <1>10, <2>1, <2>2, StepOfOne DEF TypeOK, PostRefused, Answer
<1>11. ASSUME PostLost(w) PROVE Rest'
  <2>1. Running(w)'
    BY <1>a, <1>11 DEF TypeOK, PostLost, Answer, Running, InHand, Phases,
       Tmp
  <2>2. DiskInv'
    BY <1>11, DiskFrame DEF PostLost, Answer
  <2> QED
    BY <1>a, <1>11, <2>1, <2>2, StepOfOne DEF TypeOK, PostLost, Answer
<1>12. ASSUME BackOff(w) PROVE Rest'
  <2>1. Running(w)'
    BY <1>a, <1>12 DEF TypeOK, BackOff, Running, InHand, Phases, Tmp
  <2>2. DiskInv'
    BY <1>12, DiskFrame DEF BackOff
  <2> QED
    BY <1>a, <1>12, <2>1, <2>2, StepOfOne DEF TypeOK, BackOff
<1>13. ASSUME SaveProgress(w) PROVE Rest'
  <2>1. Running(w)'
    BY <1>a, <1>13 DEF TypeOK, SaveProgress, Running, InHand, Phases, Tmp
  <2>2. DiskInv'
    BY <1>13, DiskFrame DEF SaveProgress
  <2> QED
    BY <1>a, <1>13, <2>1, <2>2, StepOfOne DEF TypeOK, SaveProgress
<1> QED
  BY <1>1, <1>2, <1>3, <1>4, <1>5, <1>6, <1>7, <1>8, <1>9, <1>10, <1>11,
     <1>12, <1>13

(* Steps outside the cycle: late requests, timers, stuttering.               *)
LEMMA OutsideSteps ==
    ASSUME IndInv, UNCHANGED <<disk, lock, pc, batch, current, reply>>,
           received \subseteq received'
    PROVE  Rest'
<1>1. DiskInv'
  BY DiskFrame
<1>2. LockExcludes'
  BY DEF IndInv, LockExcludes
<1>3. ASSUME NEW w \in Workers PROVE Running(w)'
  <2>1. Running(w)
    BY IndInvParts DEF Rest
  <2> QED BY <2>1 DEF Running, InHand, Phases, Tmp, disk
<1> QED BY <1>1, <1>2, <1>3 DEF Rest

LEMMA StartStep ==
    ASSUME IndInv, NEW w \in Workers, Start(w)
    PROVE  Rest'
<1> USE DEF Goto, disk, server, local
<1>1. TypeOK /\ \A v \in Workers : pc[v] = "idle" /\ batch[v] = {}
  BY DEF Start, TakeLock, IndInv, LockExcludes, Phases
<1>2. DiskInv'
  BY DiskFrame DEF Start
<1>3. LockExcludes'
  BY <1>1 DEF Start, TakeLock, LockExcludes, TypeOK
<1>4. ASSUME NEW v \in Workers PROVE Running(v)'
  BY <1>1 DEF Start, TypeOK, Running, InHand, Phases
<1> QED BY <1>2, <1>3, <1>4 DEF Rest

(* A cycle ends, or is interrupted anywhere.                                 *)
LEMMA EndSteps ==
    ASSUME IndInv, NEW w \in Workers, Finish(w) \/ Crash(w)
    PROVE  Rest'
<1> USE DEF Goto, disk, server, local
<1>1. TypeOK /\ pc[w] # "idle" /\ Forget(w) /\ UNCHANGED <<disk, server>>
  BY DEF Finish, Crash, IndInv
<1>2. DiskInv'
  BY <1>1, DiskFrame
<1>3. ASSUME NEW v \in Workers PROVE pc'[v] = "idle" /\ batch'[v] = {}
  <2>1. CASE v = w
    BY <1>1, <2>1 DEF Forget, TypeOK
  <2>2. CASE v # w
    BY <1>1, <2>2, OthersIdle DEF Forget, TypeOK
  <2> QED BY <2>1, <2>2
<1>4. LockExcludes' /\ \A v \in Workers : Running(v)'
  BY <1>3 DEF LockExcludes, Running, InHand, Phases
<1> QED BY <1>2, <1>4 DEF Rest

(* What is on disk may only shrink without the quota being checked again.    *)
LEMMA QuotaFrame ==
    ASSUME IndInv,
           \A r \in Reports : where'[r] \notin {"none", "removed"}
                                 => where[r] \notin {"none", "removed"}
    PROVE  QuotaRespected'
<1> DEFINE S == {r \in Reports : where[r] \notin {"none", "removed"}}
<1>1. IsFiniteSet(S) /\ S' \subseteq S
  BY FS_Interval, FS_Subset, QueueAssumption DEF Reports
<1>2. Cardinality(S') <= Cardinality(S) /\ Cardinality(S) \in Nat /\ Cardinality(S') \in Nat
  BY <1>1, FS_Subset, FS_CardinalityType
<1> QED BY <1>2, QueueAssumption DEF IndInv, QuotaRespected

LEMMA RecoverTmpStep ==
    ASSUME IndInv, NEW w \in Workers, RecoverTmp(w)
    PROVE  Rest'
<1> USE DEF Goto, disk, server, local
<1>1. TypeOK /\ Running(w)
  BY IndInvParts DEF Rest
<1>2. PICK r \in Tmp, place \in {"queued", "rejected"} :
         where' = [where EXCEPT ![r] = place]
  BY DEF RecoverTmp
<1>3. r \in Reports /\ where[r] \in {"partial", "whole"}
  BY DEF Tmp
<1>4. Unused' /\ NamesBounded' /\ NoCaptureLost'
  BY <1>1, <1>2, <1>3 DEF RecoverTmp, TypeOK, IndInv, Unused, NamesBounded,
     NoCaptureLost
<1>5. NamesKeepOrder'
  BY <1>1, <1>2, <1>3 DEF RecoverTmp, TypeOK, IndInv, NamesKeepOrder
<1>6. QuotaRespected'
  BY <1>1, <1>2, <1>3, QuotaFrame DEF TypeOK
<1>7. Running(w)'
  BY <1>1, <1>2 DEF RecoverTmp, Running, InHand, Phases
<1> QED
  BY <1>4, <1>5, <1>6, <1>7, StepOfOne DEF RecoverTmp, DiskInv

(* The new file is younger than every other, and no unfinished file is left  *)
(* from before: its name is the greatest in the queue.                       *)
LEMMA CollectOpenStep ==
    ASSUME IndInv, NEW w \in Workers, CollectOpen(w)
    PROVE  Rest'
<1> USE DEF Goto, disk, server, local
<1> DEFINE new == collections + 1
<1>1. TypeOK /\ Running(w)
  BY IndInvParts DEF Rest
<1>2. /\ new \in Reports
      /\ where[new] = "none" /\ new \notin captured
  BY <1>1, QueueAssumption DEF CollectOpen, TypeOK, Reports, IndInv, Unused
<1>3. /\ NextSeq \in 1..new
      /\ \A r \in Held : seqno[r] < NextSeq
  BY NextSeqFits
<1>4. /\ where' = [where EXCEPT ![new] = "partial"]
      /\ seqno' = [seqno EXCEPT ![new] = NextSeq]
      /\ collections' = new
      /\ UNCHANGED <<captured, received>>
  BY DEF CollectOpen
<1>5. Tmp = {}
  BY <1>1 DEF CollectOpen, Running, Phases
<1>6. Unused' /\ NamesBounded' /\ NoCaptureLost'
  <2>1. ASSUME NEW r \in Reports, r > new
        PROVE  where'[r] = "none" /\ r \notin captured'
    <3>1. r # new /\ r > collections
      BY <1>1, <2>1, QueueAssumption DEF TypeOK, Reports
    <3>2. where[r] = "none" /\ r \notin captured
      BY <3>1 DEF IndInv, Unused
    <3> QED BY <1>1, <1>4, <3>1, <3>2 DEF TypeOK
  <2>2. NamesBounded'
    BY <1>1, <1>2, <1>3, <1>4 DEF TypeOK, IndInv, NamesBounded
  <2>3. NoCaptureLost'
    BY <1>1, <1>2, <1>4 DEF TypeOK, IndInv, NoCaptureLost
  <2> QED BY <1>4, <2>1, <2>2, <2>3 DEF Unused
<1>7. NamesKeepOrder'
  <2> SUFFICES ASSUME NEW r \in Reports, NEW q \in Reports, r < q,
                      where'[r] \in {"partial", "whole", "queued"},
                      where'[q] \in {"partial", "whole", "queued"}
               PROVE  seqno'[r] < seqno'[q]
    BY DEF NamesKeepOrder
  <2>1. r # new
    BY <1>2, <1>4, QueueAssumption DEF IndInv, Unused, TypeOK, Reports
  <2>2. CASE q = new
    <3>1. where[r] = "queued"
      BY <1>1, <1>4, <1>5, <2>1 DEF TypeOK, Tmp
    <3>2. seqno[r] < NextSeq
      BY <1>3, <3>1 DEF Held
    <3> QED BY <1>1, <1>2, <1>4, <2>1, <2>2, <3>2 DEF TypeOK
  <2>3. CASE q # new
    BY <1>1, <1>4, <2>1, <2>3 DEF TypeOK, IndInv, NamesKeepOrder
  <2> QED BY <2>2, <2>3
<1>8. QuotaRespected'
  <2> DEFINE S == {r \in Reports : where[r] \notin {"none", "removed"}}
  <2>a. \A r \in Reports : where[r] \notin {"none", "removed"} <=> r \in Held
    BY <1>1, <1>5 DEF TypeOK, Places, Held, Tmp
  <2>b. \A r \in Reports : where'[r] = IF r = new THEN "partial" ELSE where[r]
    BY <1>1, <1>2, <1>4 DEF TypeOK
  <2>1. S' = Held \cup {new} /\ new \notin Held
    BY <1>2, <2>a, <2>b DEF Held
  <2>2. IsFiniteSet(Held)
    <3>1. IsFiniteSet(Reports)
      BY FS_Interval, QueueAssumption DEF Reports
    <3>2. Held \subseteq Reports
      BY DEF Held
    <3> QED BY <3>1, <3>2, FS_Subset
  <2>3. Cardinality(S') = Cardinality(Held) + 1 /\ Cardinality(Held) \in Nat
    BY <2>1, <2>2, FS_AddElement, FS_CardinalityType
  <2> QED BY <2>3, QueueAssumption DEF CollectOpen, QuotaRespected
<1>9. Running(w)'
  BY <1>1, <1>2, <1>4 DEF CollectOpen, TypeOK, Running, InHand, Phases
<1> QED
  BY <1>1, <1>6, <1>7, <1>8, <1>9, StepOfOne DEF CollectOpen, TypeOK, DiskInv

LEMMA CollectFlushStep ==
    ASSUME IndInv, NEW w \in Workers, CollectFlush(w)
    PROVE  Rest'
<1> USE DEF Goto, disk, server, local
<1>1. TypeOK /\ Running(w)
  BY IndInvParts DEF Rest
<1>2. /\ current[w] \in Reports /\ where[current[w]] = "partial"
      /\ where' = [where EXCEPT ![current[w]] = "whole"]
      /\ captured' = captured \cup {current[w]}
  BY <1>1 DEF CollectFlush, Running, InHand
<1>3. Unused' /\ NamesBounded' /\ NoCaptureLost'
  BY <1>1, <1>2 DEF CollectFlush, TypeOK, IndInv, Unused, NamesBounded,
     NoCaptureLost
<1>4. NamesKeepOrder'
  BY <1>1, <1>2 DEF CollectFlush, TypeOK, IndInv, NamesKeepOrder
<1>5. QuotaRespected'
  BY <1>1, <1>2, QuotaFrame DEF TypeOK
<1>6. Running(w)'
  BY <1>1, <1>2 DEF CollectFlush, TypeOK, Running, InHand, Phases
<1> QED
  BY <1>1, <1>3, <1>4, <1>5, <1>6, StepOfOne DEF CollectFlush, TypeOK, DiskInv

LEMMA CollectRenameStep ==
    ASSUME IndInv, NEW w \in Workers, CollectRename(w)
    PROVE  Rest'
<1> USE DEF Goto, disk, server, local
<1>1. TypeOK /\ Running(w)
  BY IndInvParts DEF Rest
<1>2. /\ current[w] \in Reports /\ where[current[w]] = "whole"
      /\ where' = [where EXCEPT ![current[w]] = "queued"]
  BY <1>1 DEF CollectRename, Running, InHand
<1>3. Unused' /\ NamesBounded' /\ NoCaptureLost'
  BY <1>1, <1>2 DEF CollectRename, TypeOK, IndInv, Unused, NamesBounded,
     NoCaptureLost
<1>4. NamesKeepOrder'
  BY <1>1, <1>2 DEF CollectRename, TypeOK, IndInv, NamesKeepOrder
<1>5. QuotaRespected'
  BY <1>1, <1>2, QuotaFrame DEF TypeOK
<1>6. Running(w)'
  BY <1>1, <1>2 DEF CollectRename, TypeOK, Running, InHand, Phases
<1> QED
  BY <1>1, <1>3, <1>4, <1>5, <1>6, StepOfOne DEF CollectRename, TypeOK, DiskInv

(* A queued file is removed, which takes the server's receipt, or set aside. *)
LEMMA LeaveQueue ==
    ASSUME IndInv, NEW r \in Reports, where[r] = "queued",
           NEW place \in {"removed", "rejected"},
           place = "removed" => r \in received,
           where' = [where EXCEPT ![r] = place],
           UNCHANGED <<seqno, collections, captured, received>>
    PROVE  DiskInv'
<1>1. TypeOK
  BY DEF IndInv
<1>2. Unused' /\ NamesBounded' /\ NoCaptureLost'
  BY <1>1 DEF TypeOK, IndInv, Unused, NamesBounded, NoCaptureLost
<1>3. NamesKeepOrder'
  BY <1>1 DEF TypeOK, IndInv, NamesKeepOrder
<1>4. QuotaRespected'
  BY <1>1, QuotaFrame DEF TypeOK
<1> QED BY <1>2, <1>3, <1>4 DEF DiskInv

LEMMA ReadCorruptStep ==
    ASSUME IndInv, NEW w \in Workers, ReadCorrupt(w)
    PROVE  Rest'
<1> USE DEF Goto, disk, server, local
<1>1. TypeOK /\ Running(w)
  BY IndInvParts DEF Rest
<1>2. PICK r \in batch[w] : /\ batch' = [batch EXCEPT ![w] = @ \ {r}]
                            /\ where' = [where EXCEPT ![r] = "rejected"]
  BY DEF ReadCorrupt, FirstInBatch
<1>3. r \in Reports /\ where[r] = "queued"
  BY <1>1, <1>2 DEF TypeOK, Running
<1>4. DiskInv'
  BY <1>2, <1>3, LeaveQueue DEF ReadCorrupt
<1>5. Running(w)'
  BY <1>1, <1>2, <1>3 DEF ReadCorrupt, TypeOK, Running, InHand, Phases
<1> QED
  BY <1>1, <1>2, <1>4, <1>5, StepOfOne DEF ReadCorrupt, TypeOK

LEMMA SettleSteps ==
    ASSUME IndInv, NEW w \in Workers, Acknowledge(w) \/ RejectPermanent(w)
    PROVE  Rest'
<1> USE DEF Goto, disk, server, local
<1>1. TypeOK /\ Running(w)
  BY IndInvParts DEF Rest
<1>2. /\ pc[w] = "settle"
      /\ pc' = [pc EXCEPT ![w] = "save"]
      /\ UNCHANGED <<seqno, collections, captured, received, lock, batch,
                     current, reply>>
  BY DEF Acknowledge, RejectPermanent
<1>3. /\ current[w] \in Reports /\ where[current[w]] = "queued"
      /\ current[w] \notin batch[w]
      /\ reply[w] = "ACCEPTED" => current[w] \in received
  BY <1>1, <1>2 DEF Running, InHand
<1>4. PICK place \in {"removed", "rejected"} :
         /\ where' = [where EXCEPT ![current[w]] = place]
         /\ place = "removed" => reply[w] = "ACCEPTED"
  BY DEF Acknowledge, RejectPermanent
<1>5. DiskInv'
  BY <1>2, <1>3, <1>4, LeaveQueue
<1>6. Running(w)'
  BY <1>1, <1>2, <1>3, <1>4 DEF TypeOK, Running, InHand, Phases
<1> QED
  BY <1>1, <1>2, <1>5, <1>6, StepOfOne DEF TypeOK
-----------------------------------------------------------------------------
LEMMA NextInd == IndInv /\ [Next]_vars => IndInv'
<1> SUFFICES ASSUME IndInv, [Next]_vars PROVE IndInv'
  OBVIOUS
<1>1. TypeOK'
  BY TypeStep
<1>2. Rest'
  <2>1. ASSUME NEW w \in Workers, Start(w) \/ Cycle(w) \/ Crash(w) PROVE Rest'
    BY <2>1, StartStep, RecoverTmpStep, CollectOpenStep, CollectFlushStep,
       CollectRenameStep, ReadCorruptStep, SettleSteps, EndSteps, QuietSteps
       DEF Cycle, Collect, Upload
  <2>2. ASSUME NEW r \in Reports, LateArrival(r) PROVE Rest'
    BY <2>2, OutsideSteps DEF LateArrival, local, disk
  <2>3. CASE CollectTimer \/ UploadTimer \/ UNCHANGED vars
    BY <2>3, OutsideSteps DEF CollectTimer, UploadTimer, vars, local, server
  <2> QED BY <2>1, <2>2, <2>3 DEF Next
<1>3. (TypeOK /\ Rest)' => IndInv'
  BY DEF IndInv, Rest, DiskInv, Running, BatchStillQueued
<1> QED BY <1>1, <1>2, <1>3

THEOREM Inductive == Spec => []IndInv
<1>1. Init => IndInv
  BY InitInd
<1>2. IndInv /\ [Next]_vars => IndInv'
  BY NextInd
<1> QED BY <1>1, <1>2, PTL DEF Spec

(* Every variable stays within its type; in particular the number in a file  *)
(* name never exceeds the number of reports, although numbers are taken from *)
(* what happens to be on disk (lines 107-110 of the runtime).                *)
THEOREM TypeCorrect == Spec => []TypeOK
<1>1. IndInv => TypeOK
  BY DEF IndInv
<1> QED BY <1>1, Inductive, PTL

(* No completely written report is lost before the server has it, for any    *)
(* number of cycles, crashes, lost answers and refusals.                     *)
THEOREM NoCaptureIsLost == Spec => []NoCaptureLost
<1>1. IndInv => NoCaptureLost
  BY DEF IndInv
<1> QED BY <1>1, Inductive, PTL

(* The names of the files to be sent keep the order of capture.              *)
THEOREM NamesAreOrdered == Spec => []NamesKeepOrder
<1>1. IndInv => NamesKeepOrder
  BY DEF IndInv
<1> QED BY <1>1, Inductive, PTL

(* The quota bounds everything on disk, whatever crashes leave behind.       *)
THEOREM QuotaIsRespected == Spec => []QuotaRespected
<1>1. IndInv => QuotaRespected
  BY DEF IndInv
<1> QED BY <1>1, Inductive, PTL

(* A cycle handles only files that are still queued.                         *)
THEOREM BatchIsQueued == Spec => []BatchStillQueued
<1>1. IndInv => BatchStillQueued
  BY DEF IndInv
<1> QED BY <1>1, Inductive, PTL
-----------------------------------------------------------------------------
(* The refinement of EvidenceDelivery, from OrderInv: first that OrderInv is *)
(* invariant, given IndInv before and after each step.                       *)
Order(w) == UnfinishedIsNewest(w) /\ OldestFirst(w)

LEMMA OrderInit == Init => OrderInv
BY DEF Init, OrderInv, FilesCaptured, WireIsOldest, UnfinishedIsNewest, OldestFirst

(* The report in hand is the oldest that still waits.                        *)
LEMMA CurrentIsOldest ==
    ASSUME IndInv, OrderInv, NEW w \in Workers, pc[w] \in {"post", "settle"}
    PROVE  /\ current[w] \in Reports
           /\ where[current[w]] = "queued"
           /\ current[w] \in Waiting
           /\ \A q \in Waiting : current[w] <= q
<1>a. TypeOK /\ Unused /\ NamesKeepOrder /\ InHand(w) /\ BatchStillQueued
  BY DEF IndInv
<1>b. FilesCaptured /\ UnfinishedIsNewest(w) /\ OldestFirst(w)
  BY DEF OrderInv
<1>1. current[w] \in Reports /\ where[current[w]] = "queued"
  BY <1>a DEF InHand, BatchStillQueued
<1>2. current[w] \in captured
  BY <1>1, <1>b DEF FilesCaptured
<1>3. current[w] \in Int /\ collections \in Int /\ current[w] <= collections
  BY <1>1, <1>a, QueueAssumption DEF Unused, TypeOK, Reports
<1>4. ASSUME NEW q \in Waiting PROVE current[w] <= q
  <2>1. q \in Reports /\ q \in Int
    BY <1>a, QueueAssumption DEF Waiting, TypeOK, Reports
  <2>2. CASE where[q] = "whole"
    <3>1. q = collections
      BY <1>b, <2>1, <2>2 DEF UnfinishedIsNewest, Tmp
    <3> QED BY <1>3, <3>1
  <2>3. CASE where[q] = "queued"
    <3>1. seqno[current[w]] <= seqno[q]
      BY <1>b, <2>1, <2>3 DEF OldestFirst, Queued
    <3>2. seqno[current[w]] \in Int /\ seqno[q] \in Int
      BY <1>a, <1>1, <2>1, QueueAssumption DEF TypeOK
    <3>3. q < current[w] => seqno[q] < seqno[current[w]]
      BY <1>a, <1>1, <2>1, <2>3 DEF NamesKeepOrder
    <3> QED BY <1>3, <2>1, <3>1, <3>2, <3>3
  <2> QED BY <2>2, <2>3 DEF Waiting
<1> QED BY <1>1, <1>2, <1>4 DEF Waiting

(* Who does not send or settle has no batch and nothing to order.            *)
LEMMA NoBatchNoOrder ==
    ASSUME IndInv', NEW w \in Workers,
           pc'[w] \notin {"send", "post", "settle", "save"}
    PROVE  OldestFirst(w)'
BY DEF IndInv, Phases, OldestFirst

LEMMA IdleOrder ==
    ASSUME IndInv', NEW w \in Workers, pc'[w] = "idle"
    PROVE  Order(w)'
BY NoBatchNoOrder DEF Order, UnfinishedIsNewest

(* So a step of w has to be looked at for w and for the files.               *)
LEMMA OrderOfOne ==
    ASSUME IndInv', NEW w \in Workers, pc'[w] # "idle",
           FilesCaptured', WireIsOldest', Order(w)'
    PROVE  OrderInv'
<1>1. ASSUME NEW v \in Workers, v # w PROVE pc'[v] = "idle"
  BY <1>1 DEF IndInv, LockExcludes
<1> QED BY <1>1, IdleOrder DEF OrderInv, Order

LEMMA FilesFrame ==
    ASSUME OrderInv, UNCHANGED disk
    PROVE  /\ FilesCaptured'
           /\ wire' \subseteq wire => WireIsOldest'
BY DEF OrderInv, FilesCaptured, WireIsOldest, Waiting, disk

(* The batch drawn by name holds every file older than one of its own.       *)
LEMMA BatchIsPrefix ==
    ASSUME TypeOK, NEW r \in OldestQueued, NEW q \in Queued, seqno[q] < seqno[r]
    PROVE  q \in OldestQueued
<1> DEFINE Older(p) == {o \in Queued : seqno[o] < seqno[p]}
<1>1. r \in Queued /\ Cardinality(Older(r)) < MaxSendPerCycle
  BY DEF OldestQueued
<1>2. IsFiniteSet(Older(r))
  <2>1. IsFiniteSet(Reports)
    BY FS_Interval, QueueAssumption DEF Reports
  <2>2. Older(r) \subseteq Reports
    BY DEF Queued
  <2> HIDE DEF Older
  <2> QED BY <2>1, <2>2, FS_Subset
<1>3. \A p \in Queued : seqno[p] \in Int
  BY QueueAssumption DEF TypeOK, Queued
<1>4. Older(q) \subseteq Older(r)
  BY <1>1, <1>3
<1>5. /\ Cardinality(Older(q)) <= Cardinality(Older(r))
      /\ Cardinality(Older(q)) \in Nat /\ Cardinality(Older(r)) \in Nat
  <2> HIDE DEF Older
  <2> QED BY <1>2, <1>4, FS_Subset, FS_CardinalityType
<1>6. Cardinality(Older(q)) < MaxSendPerCycle
  <2> HIDE DEF Older
  <2> QED BY <1>1, <1>5, QueueAssumption
<1> QED BY <1>6 DEF OldestQueued

(* Steps before and after the upload that touch no file.                     *)
LEMMA OrderQuiet ==
    ASSUME IndInv, IndInv', OrderInv, NEW w \in Workers,
           \/ RecoverDone(w) \/ QueueFull(w) \/ CollectFail(w)
           \/ SaveAfterCollect(w) \/ SkipUpload(w) \/ BatchDone(w) \/ BackOff(w)
    PROVE  OrderInv'
<1> USE DEF Goto, disk, server, local
<1>a. pc \in [Workers -> Points]
  BY DEF IndInv, TypeOK
<1>1. /\ UNCHANGED <<where, seqno, collections, captured, wire>>
      /\ pc'[w] \in {"collect", "network", "saveCollect", "final"}
      /\ pc[w] # "idle"
      /\ pc[w] = "recover" => Tmp = {}
  BY <1>a DEF RecoverDone, QueueFull, CollectFail, SaveAfterCollect, SkipUpload,
              BatchDone, BackOff
<1>2. FilesCaptured' /\ WireIsOldest'
  BY <1>1, FilesFrame
<1>3. UnfinishedIsNewest(w)'
  BY <1>1 DEF OrderInv, UnfinishedIsNewest, Tmp
<1> QED BY <1>1, <1>2, <1>3, NoBatchNoOrder, OrderOfOne DEF Order

(* Steps of the upload that touch no file.                                   *)
LEMMA OrderUpload ==
    ASSUME IndInv, IndInv', OrderInv, NEW w \in Workers,
           BeginUpload(w) \/ ReadNext(w) \/ PostAccepted(w) \/ PostRefused(w) \/ SaveProgress(w)
    PROVE  OrderInv'
<1> USE DEF Goto, disk, server, local
<1>a. TypeOK /\ OldestFirst(w) /\ UnfinishedIsNewest(w)
  BY DEF IndInv, OrderInv
<1>b. /\ pc \in [Workers -> Points]
      /\ batch \in [Workers -> SUBSET Reports]
      /\ current \in [Workers -> 0..MaxReports]
      /\ \A r \in Reports : seqno[r] \in Int
  BY <1>a, QueueAssumption DEF TypeOK
<1>1. /\ UNCHANGED <<where, seqno, collections, captured, wire>>
      /\ pc'[w] \in {"send", "post", "settle"}
      /\ pc[w] \notin {"idle", "recover"}
  BY <1>b DEF BeginUpload, ReadNext, PostAccepted, PostRefused, Answer, SaveProgress
<1>2. FilesCaptured' /\ WireIsOldest'
  BY <1>1, FilesFrame
<1>3. UnfinishedIsNewest(w)'
  BY <1>1 DEF OrderInv, UnfinishedIsNewest, Tmp
<1>4. OldestFirst(w)'
  <2>1. CASE BeginUpload(w)
    <3>1. pc'[w] = "send" /\ batch'[w] = OldestQueued /\ UNCHANGED <<where, seqno>>
      BY <1>b, <2>1 DEF BeginUpload
    <3>2. \A r \in OldestQueued, q \in Queued : seqno[q] < seqno[r] => q \in OldestQueued
      BY <1>a, BatchIsPrefix
    <3> QED BY <3>1, <3>2 DEF OldestFirst, Queued
  <2>2. CASE ReadNext(w)
    <3>1. PICK r \in Reports : /\ r \in batch[w] /\ \A q \in batch[w] : seqno[r] <= seqno[q]
                               /\ batch'[w] = batch[w] \ {r} /\ current'[w] = r
      BY <1>b, <2>2 DEF ReadNext, FirstInBatch
    <3>2. pc[w] = "send" /\ pc'[w] = "post" /\ UNCHANGED <<where, seqno>>
      BY <1>b, <2>2 DEF ReadNext
    <3>3. \A q \in Queued : seqno[q] < seqno[r] => q \in batch[w]
      BY <1>a, <3>1, <3>2 DEF OldestFirst
    <3>4. \A q \in Queued : seqno[r] <= seqno[q]
      BY <1>b, <3>1, <3>3 DEF Queued
    <3>5. \A p \in batch'[w], q \in Queued : seqno[q] < seqno[p] => q \in batch'[w] \/ q = r
      BY <1>a, <3>1, <3>2 DEF OldestFirst
    <3> QED BY <3>1, <3>2, <3>4, <3>5 DEF OldestFirst, Queued
  <2>3. CASE PostAccepted(w) \/ PostRefused(w)
    <3>1. /\ pc[w] = "post" /\ pc'[w] = "settle"
          /\ UNCHANGED <<where, seqno, batch, current>>
      BY <1>b, <2>3 DEF PostAccepted, PostRefused, Answer
    <3> QED BY <1>a, <3>1 DEF OldestFirst, Queued
  <2>4. CASE SaveProgress(w)
    <3>1. /\ pc[w] = "save" /\ pc'[w] = "send"
          /\ UNCHANGED <<where, seqno, batch, current>>
      BY <1>b, <2>4 DEF SaveProgress
    <3> QED BY <1>a, <3>1 DEF OldestFirst, Queued
  <2> QED BY <2>1, <2>2, <2>3, <2>4
<1> QED BY <1>1, <1>2, <1>3, <1>4, OrderOfOne DEF Order
(* A file that is set aside, or deleted after its acknowledgement.           *)
LEMMA OrderLeave ==
    ASSUME TypeOK, OrderInv, NEW r \in Reports, NEW place \in {"removed", "rejected"},
           where' = [where EXCEPT ![r] = place], UNCHANGED <<seqno, collections, captured, wire>>
    PROVE  /\ FilesCaptured' /\ WireIsOldest'
           /\ Queued' = Queued \ {r}
           /\ Tmp' \subseteq Tmp
<1>1. \A q \in Reports : where'[q] = IF q = r THEN place ELSE where[q]
  BY DEF TypeOK
<1>2. captured \subseteq Reports
  BY DEF TypeOK
<1>3. Waiting' \subseteq Waiting
  BY <1>1, <1>2 DEF Waiting
<1>4. FilesCaptured' /\ WireIsOldest'
  BY <1>1, <1>3 DEF OrderInv, FilesCaptured, WireIsOldest
<1>5. Queued' = Queued \ {r} /\ Tmp' \subseteq Tmp
  BY <1>1 DEF Queued, Tmp
<1> QED BY <1>4, <1>5

LEMMA OrderSettle ==
    ASSUME IndInv, IndInv', OrderInv, NEW w \in Workers,
           Acknowledge(w) \/ RejectPermanent(w) \/ ReadCorrupt(w)
    PROVE  OrderInv'
<1> USE DEF Goto, disk, server, local
<1>a. TypeOK /\ OldestFirst(w) /\ UnfinishedIsNewest(w) /\ BatchStillQueued /\ InHand(w)
  BY DEF IndInv, OrderInv
<1>b. /\ pc \in [Workers -> Points]
      /\ batch \in [Workers -> SUBSET Reports]
  BY <1>a DEF TypeOK
<1>1. ASSUME NEW r \in Reports, NEW place \in {"removed", "rejected"},
             where' = [where EXCEPT ![r] = place],
             UNCHANGED <<seqno, collections, captured, wire>>,
             pc[w] \notin {"idle", "recover"}, pc'[w] \in {"send", "save"},
             batch'[w] = batch[w] \ {r},
             pc[w] \in {"post", "settle"} => r = current[w]
      PROVE  OrderInv'
  <2>1. /\ FilesCaptured' /\ WireIsOldest'
        /\ Queued' = Queued \ {r} /\ Tmp' \subseteq Tmp
    BY <1>a, <1>1, OrderLeave
  <2>2. UnfinishedIsNewest(w)'
    BY <1>a, <1>1, <2>1 DEF UnfinishedIsNewest
  <2>3. OldestFirst(w)'
    BY <1>a, <1>1, <2>1 DEF OldestFirst
  <2> QED BY <1>1, <2>1, <2>2, <2>3, OrderOfOne DEF Order
<1>2. CASE Acknowledge(w) \/ RejectPermanent(w)
  <2>1. PICK place \in {"removed", "rejected"} : where' = [where EXCEPT ![current[w]] = place]
    BY <1>2 DEF Acknowledge, RejectPermanent
  <2>2. /\ pc[w] = "settle" /\ pc'[w] = "save"
        /\ UNCHANGED <<seqno, collections, captured, wire, batch>>
    BY <1>b, <1>2 DEF Acknowledge, RejectPermanent
  <2>3. current[w] \in Reports /\ current[w] \notin batch[w]
    BY <1>a, <2>2 DEF InHand
  <2>4. batch'[w] = batch[w] \ {current[w]}
    BY <2>2, <2>3
  <2> QED BY <1>1, <2>1, <2>2, <2>3, <2>4
<1>3. CASE ReadCorrupt(w)
  <2>1. PICK r \in Reports : /\ batch' = [batch EXCEPT ![w] = @ \ {r}]
                             /\ where' = [where EXCEPT ![r] = "rejected"]
    BY <1>3 DEF ReadCorrupt
  <2>2. /\ pc[w] = "send" /\ pc'[w] = "send" /\ batch'[w] = batch[w] \ {r}
        /\ UNCHANGED <<seqno, collections, captured, wire>>
    BY <1>b, <1>3, <2>1 DEF ReadCorrupt
  <2> QED BY <1>1, <2>1, <2>2
<1> QED BY <1>2, <1>3

(* Recovery and collection: only the newest report is ever unfinished.       *)
LEMMA OrderCollect ==
    ASSUME IndInv, IndInv', OrderInv, NEW w \in Workers,
           RecoverTmp(w) \/ CollectOpen(w) \/ CollectFlush(w) \/ CollectRename(w)
    PROVE  OrderInv'
<1> USE DEF Goto, disk, server, local
<1>a. TypeOK /\ InHand(w) /\ Phases(w) /\ Unused
  BY DEF IndInv
<1>b. FilesCaptured /\ WireIsOldest /\ UnfinishedIsNewest(w)
  BY DEF OrderInv
<1>c. /\ pc \in [Workers -> Points] /\ where \in [Reports -> Places]
      /\ captured \subseteq Reports /\ wire \subseteq Reports /\ collections \in Nat
      /\ \A r \in Reports : r \in Nat
  BY <1>a, QueueAssumption DEF TypeOK, Reports
<1>1. CASE RecoverTmp(w)
  <2>1. PICK r \in Tmp, place \in {"queued", "rejected"} :
           /\ where[r] = "partial" => place = "rejected"
           /\ where' = [where EXCEPT ![r] = place]
    BY <1>1 DEF RecoverTmp
  <2>2. /\ pc[w] = "recover" /\ UNCHANGED <<captured, wire, pc>>
        /\ r \in Reports /\ where[r] \in {"partial", "whole"}
    BY <1>1, <2>1 DEF RecoverTmp, Tmp
  <2>3. Waiting' \subseteq Waiting
    BY <1>b, <1>c, <2>1, <2>2 DEF Waiting, FilesCaptured
  <2>4. FilesCaptured' /\ WireIsOldest'
    BY <1>b, <1>c, <2>1, <2>2, <2>3 DEF FilesCaptured, WireIsOldest
  <2> QED
    BY <2>2, <2>4, NoBatchNoOrder, OrderOfOne DEF Order, UnfinishedIsNewest
<1>2. CASE CollectOpen(w)
  <2> DEFINE new == collections + 1
  <2>1. /\ where' = [where EXCEPT ![new] = "partial"] /\ collections' = new
        /\ pc[w] = "collect" /\ pc'[w] = "flush" /\ UNCHANGED <<captured, wire>>
    BY <1>c, <1>2 DEF CollectOpen
  <2>2. new \in Reports /\ where[new] = "none" /\ new \notin captured
    BY <1>a, <1>c, <1>2, QueueAssumption DEF CollectOpen, Unused, Reports, TypeOK
  <2>3. Tmp = {}
    BY <1>a, <2>1 DEF Phases
  <2> HIDE DEF new
  <2>4. Waiting' = Waiting /\ Tmp' = {new}
    BY <1>c, <2>1, <2>2, <2>3 DEF Waiting, Tmp
  <2>5. FilesCaptured' /\ WireIsOldest'
    BY <1>b, <1>c, <2>1, <2>2, <2>4 DEF FilesCaptured, WireIsOldest
  <2>6. UnfinishedIsNewest(w)'
    BY <2>1, <2>4 DEF UnfinishedIsNewest
  <2> QED BY <2>1, <2>5, <2>6, NoBatchNoOrder, OrderOfOne DEF Order
<1>3. CASE CollectFlush(w)
  <2> DEFINE r == current[w]
  <2>1. /\ pc[w] = "flush" /\ pc'[w] = "rename" /\ UNCHANGED <<collections, wire>>
        /\ where' = [where EXCEPT ![r] = "whole"] /\ captured' = captured \cup {r}
    BY <1>c, <1>3 DEF CollectFlush
  <2>2. r \in Reports /\ where[r] = "partial"
    BY <1>a, <2>1 DEF InHand
  <2>3. r = collections
    BY <1>b, <2>1, <2>2 DEF UnfinishedIsNewest, Tmp
  <2> HIDE DEF r
  <2>4. Tmp' = Tmp /\ Waiting' = Waiting \cup {r}
    BY <1>c, <2>1, <2>2 DEF Tmp, Waiting
  <2>5. \A p \in captured : p <= collections
    BY <1>a, <1>c DEF Unused
  <2>6. FilesCaptured' /\ WireIsOldest'
    BY <1>b, <1>c, <2>1, <2>2, <2>3, <2>4, <2>5 DEF FilesCaptured, WireIsOldest
  <2>7. UnfinishedIsNewest(w)'
    BY <1>b, <2>1, <2>4 DEF UnfinishedIsNewest
  <2> QED BY <2>1, <2>6, <2>7, NoBatchNoOrder, OrderOfOne DEF Order
<1>4. CASE CollectRename(w)
  <2> DEFINE r == current[w]
  <2>1. /\ pc[w] = "rename" /\ pc'[w] = "saveCollect"
        /\ UNCHANGED <<captured, collections, wire>>
        /\ where' = [where EXCEPT ![r] = "queued"]
    BY <1>c, <1>4 DEF CollectRename
  <2>2. r \in Reports /\ where[r] = "whole"
    BY <1>a, <2>1 DEF InHand
  <2> HIDE DEF r
  <2>3. Tmp' \subseteq Tmp /\ Waiting' = Waiting
    BY <1>c, <2>1, <2>2 DEF Tmp, Waiting
  <2>4. FilesCaptured' /\ WireIsOldest'
    BY <1>b, <1>c, <2>1, <2>2, <2>3 DEF FilesCaptured, WireIsOldest
  <2>5. UnfinishedIsNewest(w)'
    BY <1>b, <2>1, <2>3 DEF UnfinishedIsNewest
  <2> QED BY <2>1, <2>4, <2>5, NoBatchNoOrder, OrderOfOne DEF Order
<1> QED BY <1>1, <1>2, <1>3, <1>4

(* A request that timed out: what it carries is the oldest that waits.       *)
LEMMA OrderPostLost ==
    ASSUME IndInv, IndInv', OrderInv, NEW w \in Workers, PostLost(w)
    PROVE  OrderInv'
<1> USE DEF Goto, disk, server, local
<1>a. /\ pc \in [Workers -> Points] /\ OldestFirst(w)
      /\ UnfinishedIsNewest(w) /\ FilesCaptured /\ WireIsOldest
  BY DEF IndInv, TypeOK, OrderInv
<1>1. /\ pc[w] = "post" /\ pc'[w] = "settle" /\ wire' \subseteq wire \cup {current[w]}
      /\ UNCHANGED <<where, seqno, collections, captured, batch, current>>
  BY <1>a DEF PostLost, Answer
<1>2. current[w] \in captured /\ \A q \in Waiting : current[w] <= q
  BY <1>1, CurrentIsOldest DEF Waiting
<1>3. FilesCaptured' /\ WireIsOldest'
  BY <1>a, <1>1, <1>2 DEF FilesCaptured, WireIsOldest, Waiting
<1>4. UnfinishedIsNewest(w)' /\ OldestFirst(w)'
  BY <1>a, <1>1 DEF UnfinishedIsNewest, OldestFirst, Queued, Tmp
<1> QED BY <1>1, <1>3, <1>4, OrderOfOne DEF Order

LEMMA OrderStep == IndInv /\ IndInv' /\ OrderInv /\ [Next]_vars => OrderInv'
<1> SUFFICES ASSUME IndInv, IndInv', OrderInv, [Next]_vars PROVE OrderInv'
  OBVIOUS
<1>a. pc \in [Workers -> Points]
  BY DEF IndInv, TypeOK
<1>1. ASSUME NEW w \in Workers, Cycle(w), ~Finish(w) PROVE OrderInv'
  BY <1>1, OrderQuiet, OrderUpload, OrderSettle, OrderCollect, OrderPostLost
     DEF Cycle, Collect, Upload
<1>2. ASSUME NEW w \in Workers, Start(w) PROVE OrderInv'
  <2>1. pc'[w] = "recover" /\ UNCHANGED <<disk, wire>>
    BY <1>a, <1>2 DEF Start, Goto, server
  <2> QED
    BY <2>1, FilesFrame, NoBatchNoOrder, OrderOfOne DEF Order, UnfinishedIsNewest
<1>3. ASSUME NEW w \in Workers, Finish(w) \/ Crash(w) PROVE OrderInv'
  <2>1. UNCHANGED <<disk, wire>> /\ pc' = [pc EXCEPT ![w] = "idle"] /\ pc[w] # "idle"
    BY <1>3 DEF Finish, Crash, Forget, Goto, server
  <2>2. \A v \in Workers : pc'[v] = "idle"
    BY <1>a, <2>1, OthersIdle
  <2> QED BY <2>1, <2>2, FilesFrame, IdleOrder DEF OrderInv, Order
<1>4. ASSUME UNCHANGED <<disk, pc, batch, current>>, wire' \subseteq wire PROVE OrderInv'
  BY <1>4, FilesFrame DEF OrderInv, UnfinishedIsNewest, OldestFirst, Queued, Tmp, disk
<1>5. ASSUME NEW r \in Reports, LateArrival(r) PROVE OrderInv'
  BY <1>4, <1>5 DEF LateArrival, local
<1>6. CASE CollectTimer \/ UploadTimer \/ UNCHANGED vars
  BY <1>4, <1>6 DEF CollectTimer, UploadTimer, vars, local, server
<1> QED BY <1>1, <1>2, <1>3, <1>5, <1>6 DEF Next

THEOREM Ordered == Spec => []OrderInv
<1>1. Init => OrderInv
  BY OrderInit
<1>2. IndInv /\ IndInv' /\ OrderInv /\ [Next]_vars => OrderInv'
  BY OrderStep
<1> QED BY <1>1, <1>2, Inductive, PTL DEF Spec
-----------------------------------------------------------------------------
(* Every step maps to a step of EvidenceDelivery or to a stutter.            *)
SetAside == {r \in captured : where[r] = "rejected"}
Promise  == <<captured, Waiting, received, SetAside>>

LEMMA DeliveryVars == /\ Delivery!vars = Promise
                      /\ UNCHANGED Promise => UNCHANGED Delivery!vars
BY DEF Delivery!vars, Promise, Waiting, SetAside

LEMMA DeliveryInit == Init => Delivery!Init
BY DEF Init, Delivery!Init

LEMMA CaptureRefines ==
    ASSUME IndInv, OrderInv, NEW w \in Workers, CollectFlush(w)
    PROVE  Delivery!Next
<1>a. TypeOK /\ InHand(w) /\ Unused /\ UnfinishedIsNewest(w) /\ FilesCaptured
  BY DEF IndInv, OrderInv
<1>b. pc[w] = "flush"
  BY DEF CollectFlush
<1>1. PICK r \in Reports : r = current[w]
  BY <1>a, <1>b DEF InHand
<1>2. /\ where' = [where EXCEPT ![r] = "whole"]
      /\ captured' = captured \cup {r} /\ UNCHANGED received
  BY <1>1 DEF CollectFlush, server
<1>3. where[r] = "partial" /\ r \notin captured
  BY <1>a, <1>b, <1>1 DEF InHand, FilesCaptured
<1>4. r = collections
  BY <1>a, <1>b, <1>3 DEF UnfinishedIsNewest, Tmp
<1>5. \A q \in captured : q < r
  <2> SUFFICES ASSUME NEW q \in captured PROVE q < r
    OBVIOUS
  <2>1. q \in Nat /\ r \in Nat /\ q # r /\ ~(q > collections)
    BY <1>a, <1>3, QueueAssumption DEF TypeOK, Unused, Reports
  <2> QED BY <1>4, <2>1
<1>6. Waiting' = Waiting \cup {r} /\ SetAside' = SetAside
  BY <1>a, <1>2, <1>3 DEF Waiting, SetAside, TypeOK
<1>7. Delivery!Capture(r)
  BY <1>2, <1>5, <1>6 DEF Delivery!Capture, Waiting, SetAside
<1> QED BY <1>7 DEF Delivery!Next

(* The request in hand reaches the server, now or late.                      *)
LEMMA DeliverRefines ==
    ASSUME IndInv, OrderInv, NEW r \in Reports, received' = received \cup {r},
           UNCHANGED <<where, captured>>, r \in captured, \A q \in Waiting : r <= q
    PROVE  [Delivery!Next]_(Delivery!vars)
<1>1. r \in received \/ r \in Waiting \/ r \in SetAside
  BY DEF IndInv, NoCaptureLost, Waiting, SetAside
<1>2. Waiting' = Waiting /\ SetAside' = SetAside
  BY DEF Waiting, SetAside
<1>3. CASE r \in received
  BY <1>2, <1>3, DeliveryVars DEF Promise
<1>4. CASE r \in Waiting \/ r \in SetAside
  <2>1. \A q \in Waiting : ~(q < r)
    BY QueueAssumption DEF Waiting, IndInv, TypeOK, Reports
  <2>2. Delivery!Deliver(r)
    BY <1>2, <1>4, <2>1 DEF Delivery!Deliver, Waiting, SetAside
  <2> QED BY <2>2 DEF Delivery!Next
<1> QED BY <1>1, <1>3, <1>4

LEMMA LeaveRefines ==
    ASSUME IndInv, OrderInv, NEW r \in Reports, where[r] \in {"whole", "queued"},
           NEW place \in {"removed", "rejected"}, where' = [where EXCEPT ![r] = place],
           place = "removed" => r \in received, UNCHANGED <<captured, received>>
    PROVE  Delivery!Next
<1>1. r \in Waiting
  BY DEF OrderInv, FilesCaptured, Waiting
<1>2. captured \subseteq Reports /\ where \in [Reports -> Places]
  BY DEF IndInv, TypeOK
<1>3. Waiting' = Waiting \ {r}
  BY <1>2 DEF Waiting
<1>4. CASE place = "removed"
  <2>1. SetAside' = SetAside
    BY <1>2, <1>4 DEF SetAside
  <2>2. Delivery!Release(r)
    BY <1>1, <1>3, <1>4, <2>1 DEF Delivery!Release, Waiting, SetAside
  <2> QED BY <2>2 DEF Delivery!Next
<1>5. CASE place = "rejected"
  <2>1. SetAside' = SetAside \cup {r}
    BY <1>1, <1>2, <1>5 DEF SetAside, Waiting
  <2>2. Delivery!SetAside(r)
    BY <1>1, <1>3, <2>1 DEF Delivery!SetAside, Waiting, SetAside
  <2> QED BY <2>2 DEF Delivery!Next
<1> QED BY <1>4, <1>5

LEMMA DeliveryStep == IndInv /\ OrderInv /\ [Next]_vars => [Delivery!Next]_(Delivery!vars)
<1> SUFFICES ASSUME IndInv, OrderInv, [Next]_vars
             PROVE  [Delivery!Next]_(Delivery!vars)
  OBVIOUS
<1> USE DEF Goto, disk, server, local
<1>a. TypeOK /\ captured \subseteq Reports /\ where \in [Reports -> Places]
  BY DEF IndInv, TypeOK
<1>b. ASSUME UNCHANGED <<where, captured, received>> PROVE UNCHANGED Delivery!vars
  BY <1>b, DeliveryVars DEF Promise, Waiting, SetAside
<1>1. ASSUME NEW w \in Workers, CollectFlush(w) PROVE Delivery!Next
  BY <1>1, CaptureRefines
<1>2. ASSUME NEW w \in Workers, PostAccepted(w) \/ PostLost(w)
      PROVE  [Delivery!Next]_(Delivery!vars)
  <2>1. /\ pc[w] = "post" /\ UNCHANGED <<where, captured>>
        /\ received' = received \cup {current[w]} \/ UNCHANGED received
    BY <1>2 DEF PostAccepted, PostLost, Answer
  <2>2. /\ current[w] \in Reports /\ current[w] \in captured
        /\ \A q \in Waiting : current[w] <= q
    BY <2>1, CurrentIsOldest DEF Waiting
  <2> QED BY <1>b, <2>1, <2>2, DeliverRefines
<1>3. ASSUME NEW r \in Reports, LateArrival(r) PROVE [Delivery!Next]_(Delivery!vars)
  BY <1>3, DeliverRefines DEF LateArrival, OrderInv, WireIsOldest
<1>4. ASSUME NEW w \in Workers, Acknowledge(w) \/ RejectPermanent(w) PROVE Delivery!Next
  <2>1. PICK place \in {"removed", "rejected"} :
           /\ where' = [where EXCEPT ![current[w]] = place]
           /\ place = "removed" => reply[w] = "ACCEPTED"
    BY <1>4 DEF Acknowledge, RejectPermanent
  <2>2. pc[w] = "settle" /\ UNCHANGED <<captured, received>>
    BY <1>4 DEF Acknowledge, RejectPermanent
  <2>3. reply[w] = "ACCEPTED" => current[w] \in received
    BY <2>2 DEF IndInv, InHand
  <2>4. current[w] \in Reports /\ where[current[w]] = "queued"
    BY <2>2, CurrentIsOldest
  <2> QED BY <2>1, <2>2, <2>3, <2>4, LeaveRefines
<1>5. ASSUME NEW w \in Workers, ReadCorrupt(w) PROVE Delivery!Next
  <2>1. PICK r \in batch[w] : where' = [where EXCEPT ![r] = "rejected"]
    BY <1>5 DEF ReadCorrupt, FirstInBatch
  <2>2. r \in Reports /\ where[r] = "queued"
    BY <2>1 DEF IndInv, TypeOK, BatchStillQueued
  <2> QED BY <1>5, <2>1, <2>2, LeaveRefines DEF ReadCorrupt
<1>6. ASSUME NEW w \in Workers, RecoverTmp(w) PROVE [Delivery!Next]_(Delivery!vars)
  <2>1. PICK r \in Tmp, place \in {"queued", "rejected"} :
           /\ where[r] = "partial" => place = "rejected"
           /\ where' = [where EXCEPT ![r] = place]
    BY <1>6 DEF RecoverTmp
  <2>2. /\ r \in Reports /\ where[r] \in {"partial", "whole"}
        /\ UNCHANGED <<captured, received>>
    BY <1>6, <2>1 DEF RecoverTmp, Tmp
  <2>3. CASE where[r] = "whole" /\ place = "rejected"
    BY <2>1, <2>2, <2>3, LeaveRefines
  <2>4. CASE where[r] = "whole" /\ place = "queued"
    <3>1. Waiting' = Waiting /\ SetAside' = SetAside
      BY <1>a, <2>1, <2>2, <2>4 DEF Waiting, SetAside
    <3> QED BY <2>2, <3>1, DeliveryVars DEF Promise
  <2>5. CASE where[r] = "partial"
    <3>1. r \notin captured
      BY <2>2, <2>5 DEF OrderInv, FilesCaptured
    <3>2. Waiting' = Waiting /\ SetAside' = SetAside
      BY <1>a, <2>1, <2>2, <3>1 DEF Waiting, SetAside
    <3> QED BY <2>2, <3>2, DeliveryVars DEF Promise
  <2> QED BY <2>1, <2>2, <2>3, <2>4, <2>5
<1>7. ASSUME NEW w \in Workers, CollectOpen(w) PROVE UNCHANGED Delivery!vars
  <2>1. /\ where' = [where EXCEPT ![collections + 1] = "partial"]
        /\ collections + 1 \notin captured /\ UNCHANGED <<captured, received>>
    BY <1>7, <1>a, QueueAssumption DEF CollectOpen, IndInv, Unused, Reports, TypeOK
  <2>2. Waiting' = Waiting /\ SetAside' = SetAside
    BY <1>a, <2>1 DEF Waiting, SetAside
  <2> QED BY <2>1, <2>2, DeliveryVars DEF Promise
<1>8. ASSUME NEW w \in Workers, CollectRename(w) PROVE UNCHANGED Delivery!vars
  <2>1. /\ where' = [where EXCEPT ![current[w]] = "queued"] /\ pc[w] = "rename"
        /\ UNCHANGED <<captured, received>>
    BY <1>8 DEF CollectRename
  <2>2. current[w] \in Reports /\ where[current[w]] = "whole"
    BY <2>1 DEF IndInv, InHand
  <2>3. Waiting' = Waiting /\ SetAside' = SetAside
    BY <1>a, <2>1, <2>2 DEF Waiting, SetAside
  <2> QED BY <2>1, <2>3, DeliveryVars DEF Promise
<1>9. ASSUME NEW w \in Workers,
             \/ Start(w) \/ RecoverDone(w) \/ QueueFull(w) \/ CollectFail(w)
             \/ SaveAfterCollect(w) \/ BeginUpload(w) \/ SkipUpload(w) \/ ReadNext(w)
             \/ BatchDone(w) \/ PostRefused(w) \/ BackOff(w) \/ SaveProgress(w)
             \/ Finish(w) \/ Crash(w)
      PROVE  UNCHANGED <<where, captured, received>>
  BY <1>9 DEF Start, RecoverDone, QueueFull, CollectFail, SaveAfterCollect, BeginUpload,
     SkipUpload, ReadNext, BatchDone, PostRefused, Answer, BackOff, SaveProgress, Finish, Crash
<1>10. CASE CollectTimer \/ UploadTimer \/ UNCHANGED vars
  BY <1>b, <1>10 DEF CollectTimer, UploadTimer, vars
<1> QED
  BY <1>b, <1>1, <1>2, <1>3, <1>4, <1>5, <1>6, <1>7, <1>8, <1>9, <1>10
     DEF Next, Cycle, Collect, Upload

(* The queue with its files, locks, crashes and lost answers implements      *)
(* EvidenceDelivery: reports reach the server in the order of capture and    *)
(* none is forgotten before (lines 92-172 of the runtime).                   *)
THEOREM DeliversInOrder == Spec => DeliveryInCaptureOrder
<1>1. Init => Delivery!Init
  BY DeliveryInit
<1>2. IndInv /\ OrderInv /\ [Next]_vars => [Delivery!Next]_(Delivery!vars)
  BY DeliveryStep
<1> QED
  BY <1>1, <1>2, Inductive, Ordered, PTL DEF Spec, DeliveryInCaptureOrder, Delivery!Spec
=============================================================================
