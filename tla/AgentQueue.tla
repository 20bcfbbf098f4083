----------------------------- MODULE AgentQueue -----------------------------
(* The durable report queue of the Windows agent:                            *)
(* Invoke-AssetGuardAgentCycle of scripts/windows/assetguard-agent-runtime   *)
(* .ps1, run every minute as a SYSTEM task.  A cycle takes the file lock,    *)
(* recovers what an interrupted cycle left, collects one report if one is    *)
(* due, and sends a bounded batch in file-name order; a file is deleted only *)
(* after the server acknowledged it.  One action per file-system operation   *)
(* and per request, so that a crash may fall between any two of them.        *)
(*                                                                           *)
(* Reports are numbered 1, 2, ... in order of collection (the GUID of the    *)
(* code); a report has one file at a time, whose place is where[r] and whose *)
(* 16-digit name prefix is seqno[r].  A deadline is abstracted to whether it *)
(* has passed; $Now is fixed for a whole cycle, so time passes between       *)
(* cycles.                                                                   *)
EXTENDS Integers, FiniteSets

CONSTANTS Workers,           \* processes that may run a cycle
          MaxReports,        \* bound: collections in a behaviour
          MaxQueueFiles,     \* policy: files held before collection pauses
          MaxSendPerCycle,   \* policy: batch size of one cycle
          MaxCrashes         \* bound: interrupted cycles in a behaviour

ASSUME QueueAssumption ==
    /\ MaxReports \in Nat
    /\ MaxQueueFiles \in Nat \ {0}
    /\ MaxSendPerCycle \in Nat \ {0}
    /\ MaxCrashes \in Nat

Reports == 1..MaxReports

VARIABLES where,        \* place of each report's file
          seqno,        \* sequence number in each report's file name
          collections,  \* reports begun so far
          captured,     \* reports whose envelope was completely written
          received,     \* reports the server has committed
          wire,         \* requests that timed out and may still arrive
          stored,       \* state.json: {} if absent, {s} with its contents s
          lock,         \* holders of cycle.lock
          pc, mem, batch, current, reply,   \* per worker: the running cycle
          crashes

disk   == <<where, seqno, collections, captured>>
server == <<received, wire>>
local  == <<mem, batch, current, reply>>
vars   == <<disk, server, stored, lock, pc, local, crashes>>

(* The deadlines next_collect_unix and next_upload_unix, as "has passed",    *)
(* and network_available.  The failure counter only scales the delay.        *)
AgentState == [collectDue : BOOLEAN, uploadDue : BOOLEAN, online : BOOLEAN]
DefaultState(due) == [collectDue |-> TRUE, uploadDue |-> due, online |-> TRUE]

Places  == {"none", "partial", "whole", "queued", "rejected", "removed"}
Points  == {"idle", "recover", "collect", "flush", "rename", "saveCollect",
            "network", "send", "post", "settle", "save", "final"}
(* RETRY stands for TRANSIENT and AUTH_REJECTED, which differ in the delay.  *)
Replies == {"none", "ACCEPTED", "PERMANENT", "RETRY"}

Queued == {r \in Reports : where[r] = "queued"}          \* pending/*.json

NoRecovery == {}                            \* fault: .tmp files are not sought
Tmp    == {r \in Reports : where[r] \in {"partial", "whole"}}

Held   == {r \in Reports : where[r] \in {"queued", "rejected"}}

(* Fault: the number of a new file leaves a gap.                             *)
SeqWithGap == IF Held = {} THEN 1
              ELSE 2 + CHOOSE n \in 1..(2 * MaxReports) :
                          /\ \E r \in Held : seqno[r] = n
                          /\ \A r \in Held : seqno[r] <= n

(* One more than every sequence number of a held file, rejected ones too.    *)
NextSeq == CHOOSE n \in 1..(MaxReports + 1) :
              /\ \A r \in Held : seqno[r] < n
              /\ n = 1 \/ \E r \in Held : seqno[r] = n - 1

(* Sort-Object Name | Select-Object -First $MaxSendPerCycle                  *)
OldestQueued ==
    {r \in Queued : Cardinality({q \in Queued : seqno[q] < seqno[r]})
                        < MaxSendPerCycle}

Goto(w, p) == pc' = [pc EXCEPT ![w] = p]

Init ==
    /\ where = [r \in Reports |-> "none"]
    /\ seqno = [r \in Reports |-> 0]
    /\ collections = 0
    /\ captured = {}
    /\ received = {}
    /\ wire = {}
    /\ stored = {}
    /\ lock = {}
    /\ pc = [w \in Workers |-> "idle"]
    /\ mem = [w \in Workers |-> DefaultState(TRUE)]
    /\ batch = [w \in Workers |-> {}]
    /\ current = [w \in Workers |-> 0]
    /\ reply = [w \in Workers |-> "none"]
    /\ crashes = 0
-----------------------------------------------------------------------------
TakeLock(w)  == lock = {} /\ lock' = {w}

(* Take cycle.lock (a holder elsewhere means BUSY: nothing happens) and load *)
(* state.json; without one the first upload is drawn 0 to 60 seconds ahead.  *)
Start(w) ==
    /\ pc[w] = "idle"
    /\ TakeLock(w)
    /\ \E due \in BOOLEAN :
          mem' = [mem EXCEPT ![w] = IF stored = {} THEN DefaultState(due)
                                    ELSE CHOOSE s \in stored : TRUE]
    /\ Goto(w, "recover")
    /\ UNCHANGED <<disk, server, stored, batch, current, reply, crashes>>

(* An interrupted write: a complete envelope rejoins the queue under its own *)
(* name, one that does not validate is set aside.                            *)
RecoverTmp(w) ==
    /\ pc[w] = "recover"
    /\ \E r \in Tmp, place \in {"queued", "rejected"} :
          /\ where[r] = "partial" => place = "rejected"
          /\ where' = [where EXCEPT ![r] = place]
    /\ UNCHANGED <<seqno, collections, captured, server, stored, lock, pc,
                   local, crashes>>

RecoverDone(w) ==
    /\ pc[w] = "recover"
    /\ Tmp = {}
    /\ Goto(w, IF mem[w].collectDue THEN "collect" ELSE "network")
    /\ UNCHANGED <<disk, server, stored, lock, local, crashes>>

(* QUEUE_FULL: old evidence is kept and collection is put off.               *)
QueueFull(w) ==
    /\ pc[w] = "collect"
    /\ Cardinality(Held) >= MaxQueueFiles
    /\ mem' = [mem EXCEPT ![w].collectDue = FALSE]
    /\ Goto(w, "saveCollect")
    /\ UNCHANGED <<disk, server, stored, lock, batch, current, reply, crashes>>

(* Write-AgentJson: create the .tmp file, write and flush it, rename it.     *)
CollectOpen(w) ==
    /\ pc[w] = "collect"
    /\ Cardinality(Held) < MaxQueueFiles
    /\ collections < MaxReports
    /\ collections' = collections + 1
    /\ where' = [where EXCEPT ![collections + 1] = "partial"]
    /\ seqno' = [seqno EXCEPT ![collections + 1] = NextSeq]
    /\ current' = [current EXCEPT ![w] = collections + 1]
    /\ Goto(w, "flush")
    /\ UNCHANGED <<captured, server, stored, lock, mem, batch, reply, crashes>>

CollectFlush(w) ==
    /\ pc[w] = "flush"
    /\ where' = [where EXCEPT ![current[w]] = "whole"]
    /\ captured' = captured \cup {current[w]}
    /\ Goto(w, "rename")
    /\ UNCHANGED <<seqno, collections, server, stored, lock, local, crashes>>

CollectRename(w) ==
    /\ pc[w] = "rename"
    /\ where' = [where EXCEPT ![current[w]] = "queued"]
    /\ mem' = [mem EXCEPT ![w].collectDue = FALSE]
    /\ Goto(w, "saveCollect")
    /\ UNCHANGED <<seqno, collections, captured, server, stored, lock, batch,
                   current, reply, crashes>>

(* COLLECTION_FAILED: the collector, the write or the rename threw.  The     *)
(* .tmp file, if any, stays for the next cycle.                              *)
CollectFail(w) ==
    /\ \/ pc[w] = "collect" /\ Cardinality(Held) < MaxQueueFiles
       \/ pc[w] \in {"flush", "rename"}
    /\ mem' = [mem EXCEPT ![w].collectDue = FALSE]
    /\ Goto(w, "saveCollect")
    /\ UNCHANGED <<disk, server, stored, lock, batch, current, reply, crashes>>

SaveAfterCollect(w) ==
    /\ pc[w] = "saveCollect"
    /\ stored' = {mem[w]}
    /\ Goto(w, "network")
    /\ UNCHANGED <<disk, server, lock, local, crashes>>
-----------------------------------------------------------------------------
(* The network flag of this cycle; when the network came back the upload     *)
(* deadline is drawn again, 0 to 60 seconds ahead.                           *)
Connected(w, net, due) ==
    IF net /\ ~mem[w].online
      THEN [mem[w] EXCEPT !.uploadDue = due, !.online = TRUE]
      ELSE [mem[w] EXCEPT !.online = net]

BeginUpload(w) ==
    /\ pc[w] = "network"
    /\ Connected(w, TRUE, TRUE).uploadDue
    /\ mem' = [mem EXCEPT ![w] = Connected(w, TRUE, TRUE)]
    /\ batch' = [batch EXCEPT ![w] = OldestQueued]
    /\ Goto(w, "send")
    /\ UNCHANGED <<disk, server, stored, lock, current, reply, crashes>>

SkipUpload(w) ==
    /\ pc[w] = "network"
    /\ \E net \in BOOLEAN :
          /\ ~(net /\ Connected(w, net, FALSE).uploadDue)
          /\ mem' = [mem EXCEPT ![w] = Connected(w, net, FALSE)]
    /\ Goto(w, "final")
    /\ UNCHANGED <<disk, server, stored, lock, batch, current, reply, crashes>>

AnyInBatch(w, r) == r \in batch[w]           \* fault: the listing is not sorted

(* The next file of the batch in name order.                                 *)
FirstInBatch(w, r) ==
    /\ r \in batch[w]
    /\ \A q \in batch[w] : seqno[r] <= seqno[q]

ReadNext(w) ==
    /\ pc[w] = "send"
    /\ \E r \in Reports :
          /\ FirstInBatch(w, r)
          /\ batch' = [batch EXCEPT ![w] = @ \ {r}]
          /\ current' = [current EXCEPT ![w] = r]
    /\ Goto(w, "post")
    /\ UNCHANGED <<disk, server, stored, lock, mem, reply, crashes>>

(* QUEUE_CORRUPT: the file fails its integrity check and is set aside; the   *)
(* loop continues without saving state.json.                                 *)
ReadCorrupt(w) ==
    /\ pc[w] = "send"
    /\ \E r \in Reports :
          /\ FirstInBatch(w, r)
          /\ batch' = [batch EXCEPT ![w] = @ \ {r}]
          /\ where' = [where EXCEPT ![r] = "rejected"]
    /\ UNCHANGED <<seqno, collections, captured, server, stored, lock, pc,
                   mem, current, reply, crashes>>

BatchDone(w) ==
    /\ pc[w] = "send"
    /\ batch[w] = {}
    /\ Goto(w, "final")
    /\ UNCHANGED <<disk, server, stored, lock, local, crashes>>

(* One HTTP exchange.  The server may commit and the answer be lost, and a   *)
(* request that timed out may still be on its way.                           *)
Answer(w, answer) ==
    /\ pc[w] = "post"
    /\ reply' = [reply EXCEPT ![w] = answer]
    /\ Goto(w, "settle")
    /\ UNCHANGED <<disk, stored, lock, mem, batch, current, crashes>>

PostAccepted(w) ==
    /\ Answer(w, "ACCEPTED")
    /\ received' = received \cup {current[w]}
    /\ UNCHANGED wire

PostRefused(w) ==
    /\ \/ Answer(w, "PERMANENT")
       \/ Answer(w, "RETRY")
    /\ UNCHANGED server

(* Fault: an exchange without a proven answer counts as delivered.           *)
PostLostTrusted(w) ==
    /\ Answer(w, "ACCEPTED")
    /\ \/ received' = received \cup {current[w]} /\ UNCHANGED wire
       \/ wire' = wire \cup {current[w]} /\ UNCHANGED received

PostLost(w) ==
    /\ Answer(w, "RETRY")
    /\ \/ received' = received \cup {current[w]} /\ UNCHANGED wire
       \/ wire' = wire \cup {current[w]} /\ UNCHANGED received

LateArrival(r) ==
    /\ r \in wire
    /\ wire' = wire \ {r}
    /\ received' = received \cup {r}
    /\ UNCHANGED <<disk, stored, lock, pc, local, crashes>>

(* Deletion is the acknowledgement.                                          *)
Acknowledge(w) ==
    /\ pc[w] = "settle"
    /\ reply[w] = "ACCEPTED"
    /\ where' = [where EXCEPT ![current[w]] = "removed"]
    /\ mem' = [mem EXCEPT ![w].uploadDue = FALSE]
    /\ Goto(w, "save")
    /\ UNCHANGED <<seqno, collections, captured, server, stored, lock, batch,
                   current, reply, crashes>>

RejectPermanent(w) ==
    /\ pc[w] = "settle"
    /\ reply[w] = "PERMANENT"
    /\ where' = [where EXCEPT ![current[w]] = "rejected"]
    /\ Goto(w, "save")
    /\ UNCHANGED <<seqno, collections, captured, server, stored, lock, local,
                   crashes>>

(* The report stays first in the queue and the rest of the batch waits.      *)
BackOff(w) ==
    /\ pc[w] = "settle"
    /\ reply[w] = "RETRY"
    /\ mem' = [mem EXCEPT ![w].uploadDue = FALSE]
    /\ batch' = [batch EXCEPT ![w] = {}]
    /\ Goto(w, "final")
    /\ UNCHANGED <<disk, server, stored, lock, current, reply, crashes>>

SaveProgress(w) ==
    /\ pc[w] = "save"
    /\ stored' = {mem[w]}
    /\ Goto(w, "send")
    /\ UNCHANGED <<disk, server, lock, local, crashes>>

(* What a worker forgets at the end of a cycle.                              *)
Forget(w) ==
    /\ Goto(w, "idle")
    /\ lock' = lock \ {w}
    /\ mem' = [mem EXCEPT ![w] = DefaultState(TRUE)]
    /\ batch' = [batch EXCEPT ![w] = {}]
    /\ current' = [current EXCEPT ![w] = 0]
    /\ reply' = [reply EXCEPT ![w] = "none"]

Finish(w) ==
    /\ pc[w] = "final"
    /\ stored' = {mem[w]}
    /\ Forget(w)
    /\ UNCHANGED <<disk, server, crashes>>

(* Power loss, a killed task or an exception that leaves the cycle: the lock *)
(* is released, files stay as they are, state.json keeps its last contents.  *)
Crash(w) ==
    /\ pc[w] # "idle"
    /\ crashes < MaxCrashes
    /\ crashes' = crashes + 1
    /\ Forget(w)
    /\ UNCHANGED <<disk, server, stored>>

(* Time passes between cycles and a stored deadline is reached.              *)
CollectTimer ==
    /\ lock = {}
    /\ \E s \in stored : /\ ~s.collectDue
                         /\ stored' = {[s EXCEPT !.collectDue = TRUE]}
    /\ UNCHANGED <<disk, server, lock, pc, local, crashes>>

UploadTimer ==
    /\ lock = {}
    /\ \E s \in stored : /\ ~s.uploadDue
                         /\ stored' = {[s EXCEPT !.uploadDue = TRUE]}
    /\ UNCHANGED <<disk, server, lock, pc, local, crashes>>
-----------------------------------------------------------------------------
Collect(w) == \/ QueueFull(w) \/ CollectOpen(w) \/ CollectFlush(w)
              \/ CollectRename(w) \/ CollectFail(w) \/ SaveAfterCollect(w)

Upload(w) == \/ BeginUpload(w) \/ SkipUpload(w) \/ ReadNext(w)
             \/ ReadCorrupt(w) \/ BatchDone(w)
             \/ PostAccepted(w) \/ PostRefused(w) \/ PostLost(w)
             \/ Acknowledge(w) \/ RejectPermanent(w) \/ BackOff(w)
             \/ SaveProgress(w)

Cycle(w) == \/ RecoverTmp(w) \/ RecoverDone(w) \/ Collect(w) \/ Upload(w)
            \/ Finish(w)

Next == \/ \E w \in Workers : Start(w) \/ Cycle(w) \/ Crash(w)
        \/ \E r \in Reports : LateArrival(r)
        \/ CollectTimer
        \/ UploadTimer

Spec == Init /\ [][Next]_vars
-----------------------------------------------------------------------------
(* Fairness: the task scheduler starts a cycle every minute and a running    *)
(* cycle goes on; deadlines are reached however often a cycle runs before;   *)
(* the network is up in some cycle that has something due, and the server    *)
(* accepts a report offered again and again (an operator has to repair a     *)
(* revoked credential for that).                                             *)
Fairness ==
    /\ WF_vars(\E w \in Workers : Start(w))
    /\ \A w \in Workers : WF_vars(Cycle(w))
    /\ SF_vars(UploadTimer)
    /\ SF_vars(\E w \in Workers : BeginUpload(w))
    /\ SF_vars(\E w \in Workers : PostAccepted(w))

FairSpec == Spec /\ Fairness
-----------------------------------------------------------------------------
TypeOK ==
    /\ where \in [Reports -> Places]
    /\ seqno \in [Reports -> 0..MaxReports]
    /\ collections \in 0..MaxReports
    /\ captured \subseteq Reports
    /\ received \subseteq Reports
    /\ wire \subseteq Reports
    /\ stored \in SUBSET AgentState
    /\ lock \in SUBSET Workers
    /\ pc \in [Workers -> Points]
    /\ mem \in [Workers -> AgentState]
    /\ batch \in [Workers -> SUBSET Reports]
    /\ current \in [Workers -> 0..MaxReports]
    /\ reply \in [Workers -> Replies]
    /\ crashes \in 0..MaxCrashes

(* A completely written report is never lost: until the server has it, it is *)
(* in the queue, in a recoverable .tmp file or in rejected/, whatever step a *)
(* crash interrupts (lines 79-91 and 150-152 of the runtime).                *)
NoCaptureLost ==
    \A r \in captured :
        r \in received \/ where[r] \in {"whole", "queued", "rejected"}

(* File names keep the order of capture, across deliveries that let numbers  *)
(* be used again, rejections and recovered files: the order of sending is    *)
(* the order of names (lines 110-113 and 136).                               *)
NamesKeepOrder ==
    \A r, q \in Reports :
        /\ where[r] \in {"partial", "whole", "queued"}
        /\ where[q] \in {"partial", "whole", "queued"}
        /\ r < q
        => seqno[r] < seqno[q]

(* The quota bounds what is on disk, unfinished and rejected files counted,  *)
(* although collection counts only what recovery left in place (lines 92-99).*)
QuotaRespected ==
    Cardinality({r \in Reports : where[r] \notin {"none", "removed"}})
        <= MaxQueueFiles

(* No cycle sends a file that is not there any more, nor one that a parallel *)
(* cycle handles: what the lock is for (lines 63-65).                        *)
BatchStillQueued ==
    \A w \in Workers :
        /\ \A r \in batch[w] : where[r] = "queued"
        /\ pc[w] \in {"post", "settle"} => where[current[w]] = "queued"

(* The inductive strengthening of the invariants above.  Who runs holds the  *)
(* lock alone; what each program point knows of the report in hand, of the   *)
(* batch and of unfinished files; numbers not yet used; names bounded by     *)
(* report numbers, which is why a next name exists.                          *)
LockExcludes ==
    \A w \in Workers : pc[w] # "idle" => lock = {w}

InHand(w) ==
    /\ pc[w] \in {"flush", "rename", "post", "settle"} => current[w] \in Reports
    /\ pc[w] = "flush" => where[current[w]] = "partial"
    /\ pc[w] = "rename" => where[current[w]] = "whole"
    /\ pc[w] \in {"post", "settle"} => current[w] \notin batch[w]
    /\ pc[w] = "settle" /\ reply[w] = "ACCEPTED" => current[w] \in received

Phases(w) ==
    /\ pc[w] \notin {"send", "post", "settle", "save"} => batch[w] = {}
    /\ pc[w] = "collect" => Tmp = {}

Unused ==
    \A r \in Reports : r > collections => where[r] = "none" /\ r \notin captured

NamesBounded == \A r \in Reports : seqno[r] <= r

IndInv ==
    /\ TypeOK
    /\ LockExcludes
    /\ \A w \in Workers : InHand(w) /\ Phases(w)
    /\ Unused
    /\ NamesBounded
    /\ NoCaptureLost
    /\ NamesKeepOrder
    /\ QuotaRespected
    /\ BatchStillQueued

(* What the order of delivery rests on, beyond IndInv: files to be sent are  *)
(* complete, an unfinished file is the newest one, a cycle sends the oldest  *)
(* files first, and a delayed request is older than all that still waits.    *)
Waiting == {r \in captured : where[r] \in {"whole", "queued"}}

FilesCaptured ==
    \A r \in Reports :
        /\ where[r] \in {"whole", "queued"} => r \in captured
        /\ where[r] = "partial" => r \notin captured

UnfinishedIsNewest(w) ==
    pc[w] \notin {"idle", "recover"} => \A r \in Tmp : r = collections

OldestFirst(w) ==
    /\ \A r \in batch[w], q \in Queued :
          seqno[q] < seqno[r] =>
             \/ q \in batch[w]
             \/ pc[w] \in {"post", "settle"} /\ q = current[w]
    /\ pc[w] \in {"post", "settle"} =>
          \A q \in Queued : seqno[current[w]] <= seqno[q]

WireIsOldest == \A r \in wire : r \in captured /\ \A q \in Waiting : r <= q

OrderInv ==
    /\ FilesCaptured
    /\ WireIsOldest
    /\ \A w \in Workers : UnfinishedIsNewest(w) /\ OldestFirst(w)

(* The agent keeps the promise of EvidenceDelivery.                          *)
Delivery == INSTANCE EvidenceDelivery WITH
    held <- {r \in captured : where[r] \in {"whole", "queued"}},
    delivered <- received,
    setAside <- {r \in captured : where[r] = "rejected"}

DeliveryInCaptureOrder == Delivery!Spec

(* Every captured report is delivered or set aside for diagnosis, whatever   *)
(* number of crashes, lost answers and refusals comes first.                 *)
EveryReportSettles ==
    \A r \in Reports : (r \in captured) ~> (where[r] \in {"removed", "rejected"})
=============================================================================
