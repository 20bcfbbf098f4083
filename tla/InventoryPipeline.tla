-------------------------- MODULE InventoryPipeline --------------------------
(* The server's technical inventory pipeline for one endpoint: raw evidence, *)
(* snapshot, explicit baseline, change events, incidents and their outbox    *)
(* rows.  A report is handled by receive_glpi_agent (interfaces/http/        *)
(* glpi_agent.py) or, for BridgeReports, receive_inventory (interfaces/http/ *)
(* inventories.py).  Each handler runs several transactions, one action per  *)
(* commit here, and the process may stop between any two of them.  Both are  *)
(* coroutines that never await after reading the body, in one server process,*)
(* so one report is handled at a time; administrators' requests run in       *)
(* threads and fall between any two commits.                                 *)
(*                                                                           *)
(* A report is its payload digest (the ingest key) and is resent with the    *)
(* same bytes.  Its hardware is the parts of one compared class; a part      *)
(* stands for what an inventory says about it, so parts that are alike in    *)
(* everything are one (the comparison keeps one of a key), and parts that    *)
(* differ may still share a key or a slot.  The endpoint's last-seen         *)
(* bookkeeping is left out.                                                  *)
EXTENDS Naturals, FiniteSets

CONSTANTS MaxReports,     \* bound: distinct reports in a behaviour
          BridgeReports,  \* those sent through the JSON bridge
          Parts,          \* components an inventory may list
          KeyOf,          \* per part: what it is recognized by, or Nothing
          SlotOf,         \* per part: the slot it is in, or Nothing
          Sure,           \* parts known by a serial number
          Hosts,          \* host names the computer may report
          Serials,        \* strong identifiers of one type it may report
          Inventories,    \* what well-formed reports may say
          Nothing,        \* absence of a part, a name or a payload
          Malformed,      \* payload of a report that cannot be normalized
          MaxCrashes,     \* bound: server stops in a behaviour
          MaxRevocations, \* bound: revocations of the agent's credential
          MaxResolved     \* bound: incidents that are resolved at a time

Reports == 1..MaxReports

(* What a report says.  A malformed one fails envelope validation or carries *)
(* identifiers of several endpoints, which no retry changes.                 *)
Inventory == [parts : SUBSET Parts, complete : BOOLEAN, host : Hosts, serial : Serials]
Content   == Inventories \cup {Malformed}

ASSUME PipelineAssumption ==
    /\ MaxReports \in Nat
    /\ BridgeReports \subseteq Reports
    /\ Nothing \notin Parts \cup Hosts \cup Serials
    /\ Parts \cap (Hosts \cup Serials) = {}
    /\ Malformed \notin Inventories \cup {Nothing}
    /\ Inventories \subseteq Inventory
    /\ MaxCrashes \in Nat
    /\ MaxRevocations \in Nat
    /\ MaxResolved \in Nat

Thing      == Parts \cup Hosts \cup Serials \cup {Nothing}
Difference == [kind : {"ADDED", "REMOVED", "CHANGED", "REPLACED",
                       "HOSTNAME_CHANGED", "DEVICE_IDENTITY_CHANGED"},
               was : Thing, now : Thing]

(* A change event: the baseline and the snapshot compared, and what differs. *)
Event == [base : Reports, diff : Difference, report : Reports]

RawStatus == {"none", "RECEIVED", "PROCESSED", "FAILED"}

VARIABLES raw,         \* processing_status of each raw inventory
          payload,     \* its immutable payload
          active,      \* snapshots whose baseline is ACTIVE
          hostname,    \* the endpoint's host name
          identifier,  \* per strong identifier: "none", "active" or "retired"
          events,      \* change_events
          incidents,   \* events that have an incident
          resolved,    \* events whose incident is resolved
          outbox,      \* events whose incident has a notification row
          credential,  \* is the agent's credential ACTIVE?
          settled,     \* reports the sender will not send again
          answered,    \* reports answered with success
          h,           \* the request being handled
          comparedTo,  \* history: baselines each report was compared to
          crashes, revocations

domain == <<raw, payload, hostname, identifier>>
review == <<events, incidents, outbox>>
admin  == <<active, resolved, credential, revocations>>
sender == <<settled, answered>>
vars   == <<domain, review, admin, sender, h, comparedTo, crashes>>

Idle == [at |-> "idle", report |-> 0, duplicate |-> FALSE, processed |-> FALSE,
         noticed |-> {}, base |-> {}, created |-> {}]

Init ==
    /\ raw = [r \in Reports |-> "none"]
    /\ payload = [r \in Reports |-> Nothing]
    /\ active = {}
    /\ hostname = Nothing
    /\ identifier = [s \in Serials |-> "none"]
    /\ events = {}
    /\ incidents = {}
    /\ resolved = {}
    /\ outbox = {}
    /\ credential = TRUE
    /\ settled = {}
    /\ answered = {}
    /\ h = Idle
    /\ comparedTo = [r \in Reports |-> {}]
    /\ crashes = 0
    /\ revocations = 0

(* Reports come in order; one that was settled may still arrive again.       *)
Offered(r) ==
    /\ h.at = "idle"
    /\ \A q \in Reports : q < r => q \in settled
    /\ r \in BridgeReports \/ credential
-----------------------------------------------------------------------------
(* ingest_raw_inventory: store new evidence, or recognise a repetition.      *)
IngestNew(r) ==
    /\ Offered(r)
    /\ raw[r] = "none"
    /\ \E c \in Content : payload' = [payload EXCEPT ![r] = c]
    /\ raw' = [raw EXCEPT ![r] = "RECEIVED"]
    /\ h' = [Idle EXCEPT !.at = "normalize", !.report = r]
    /\ UNCHANGED <<hostname, identifier, review, admin, sender, comparedTo, crashes>>

WasProcessed(r)   == raw[r] = "PROCESSED"

IngestDuplicate(r) ==
    /\ Offered(r)
    /\ raw[r] # "none"
    /\ r \notin BridgeReports
    /\ h' = [Idle EXCEPT !.at = "normalize", !.report = r, !.duplicate = TRUE,
                         !.processed = WasProcessed(r)]
    /\ UNCHANGED <<domain, review, admin, sender, comparedTo, crashes>>

(* Fault: a repetition is refused, so an answer lost once is lost for good.  *)
ReplyFirstTimeOnly(r) ==
    /\ h' = Idle
    /\ answered' = IF h.duplicate THEN answered ELSE answered \cup {r}
    /\ settled' \in {settled, IF h.duplicate THEN settled ELSE settled \cup {r}}

(* The sender is told of success; the answer may be lost on the way.         *)
Reply(r) ==
    /\ h' = Idle
    /\ answered' = answered \cup {r}
    /\ settled' \in {settled, settled \cup {r}}

(* Fault: the GLPI handler, too, answers a repetition at once.               *)
AnyDuplicate(r) ==
    /\ Offered(r)
    /\ raw[r] # "none"
    /\ Reply(r)
    /\ UNCHANGED <<domain, review, admin, comparedTo, crashes>>

(* The bridge answers a repetition without looking at what became of it.     *)
BridgeDuplicate(r) ==
    /\ Offered(r)
    /\ raw[r] # "none"
    /\ r \in BridgeReports
    /\ Reply(r)
    /\ UNCHANGED <<domain, review, admin, comparedTo, crashes>>

(* InventoryScopeError: the credential was revoked since authentication.     *)
(* New evidence is kept as FAILED; the sender is answered 409 and retries.   *)
ScopeRefused ==
    /\ h.at = "normalize"
    /\ h.report \notin BridgeReports
    /\ ~credential
    /\ raw' = IF h.duplicate THEN raw ELSE [raw EXCEPT ![h.report] = "FAILED"]
    /\ h' = Idle
    /\ UNCHANGED <<payload, hostname, identifier, review, admin, sender, comparedTo,
                   crashes>>

InScope == h.report \in BridgeReports \/ credential

(* A snapshot exists already: nothing new is derived.                        *)
NormalizeExisting ==
    /\ h.at = "normalize"
    /\ InScope
    /\ raw[h.report] = "PROCESSED"
    /\ IF h.processed THEN Reply(h.report)
       ELSE h' = [h EXCEPT !.at = "compare"] /\ UNCHANGED sender
    /\ UNCHANGED <<domain, review, admin, comparedTo, crashes>>

(* Answered 422: the evidence is FAILED and the agent sets the report aside. *)
NormalizeInvalid ==
    /\ h.at = "normalize"
    /\ InScope
    /\ raw[h.report] # "PROCESSED"
    /\ payload[h.report] = Malformed
    /\ raw' = [raw EXCEPT ![h.report] = "FAILED"]
    /\ h' = Idle
    /\ settled' \in {settled, settled \cup {h.report}}
    /\ UNCHANGED <<payload, hostname, identifier, review, admin, answered,
                   comparedTo, crashes>>

(* Fault: the former name is not kept.                                       *)
NoticedWithoutOld(name, serial) ==
    IF hostname \in {Nothing, name} THEN {}
    ELSE {[kind |-> "HOSTNAME_CHANGED", now |-> name]}

(* What is new about the computer itself: another name than the last, and an *)
(* identifier never seen before in the place of the active ones.             *)
Noticed(name, serial) ==
    {[kind |-> "HOSTNAME_CHANGED", was |-> n, now |-> name] :
        n \in {hostname} \ {Nothing, name}}
    \cup
    {[kind |-> "DEVICE_IDENTITY_CHANGED", was |-> s, now |-> serial] :
        s \in {t \in Serials : identifier[serial] = "none" /\ identifier[t] = "active"}}

(* Snapshot, host name, identifiers and PROCESSED in one commit.  That the   *)
(* name or an identifier changed is remembered on the object in memory only. *)
Normalize ==
    /\ h.at = "normalize"
    /\ InScope
    /\ raw[h.report] # "PROCESSED"
    /\ payload[h.report] # Malformed
    /\ raw' = [raw EXCEPT ![h.report] = "PROCESSED"]
    /\ LET name   == payload[h.report].host
           serial == payload[h.report].serial
       IN  /\ hostname' = name
           /\ identifier' = [s \in Serials |->
                 IF s = serial THEN "active"
                 ELSE IF identifier[serial] = "none" /\ identifier[s] = "active"
                        THEN "retired" ELSE identifier[s]]
           /\ h' = [h EXCEPT !.at = "compare", !.noticed = Noticed(name, serial)]
    /\ UNCHANGED <<payload, review, admin, sender, comparedTo, crashes>>
-----------------------------------------------------------------------------
Same(p, q) == KeyOf[p] # Nothing /\ KeyOf[p] = KeyOf[q]

(* old_by_key, new_by_key: of the parts that share a key the last one read   *)
(* is kept, and the query states no order; a part without a key stays.       *)
OnePerKey(some) == \A p, q \in some : p = q \/ ~Same(p, q)

Keeps(some) ==
    {kept \in SUBSET some : /\ OnePerKey(kept)
                            /\ \A p \in some : \E q \in kept : p = q \/ Same(p, q)}

(* Parts of one inventory that the other does not know.                      *)
Unmatched(some, others) == {p \in some : \A q \in others : ~Same(p, q)}

(* A part that went and one that came belong together when they share a slot *)
(* (with several in one slot, as the order of the rows has it: one partner   *)
(* for each, and nobody who could have one goes without) ...                 *)
SlotPairings(gone, come) ==
    LET inSlot == {w \in gone \X come : SlotOf[w[1]] # Nothing /\ SlotOf[w[1]] = SlotOf[w[2]]}
    IN  {pairs \in SUBSET inSlot :
            /\ \A v, w \in pairs : v[1] = w[1] <=> v[2] = w[2]
            /\ \A w \in inSlot : \E v \in pairs : v[1] = w[1] \/ v[2] = w[2]}

(* ... and, after that, when they are the only ones left and both certain.   *)
Replaced(gone, come, inSlot) ==
    LET oldLeft == gone \ {w[1] : w \in inSlot}
        newLeft == come \ {w[2] : w \in inSlot}
    IN  inSlot \cup {w \in (oldLeft \cap Sure) \X (newLeft \cap Sure) :
                        oldLeft = {w[1]} /\ newLeft = {w[2]}}

(* What differs between the parts kept of two inventories, given the pairs.  *)
Compared(before, after, inSlot) ==
    LET gone  == Unmatched(before, after)
        come  == Unmatched(after, before)
        pairs == Replaced(gone, come, inSlot)
    IN  {[kind |-> "CHANGED", was |-> w[1], now |-> w[2]] :
            w \in {v \in before \X after : Same(v[1], v[2]) /\ v[1] # v[2]}}
        \cup {[kind |-> "REPLACED", was |-> w[1], now |-> w[2]] : w \in pairs}
        \cup {[kind |-> "REMOVED", was |-> p, now |-> Nothing] :
                 p \in gone \ {w[1] : w \in pairs}}
        \cup {[kind |-> "ADDED", was |-> Nothing, now |-> p] :
                 p \in come \ {w[2] : w \in pairs}}

(* _compare_category: the results it may have.                               *)
Comparisons(before, after) ==
    UNION {{Compared(old, new, inSlot) :
              inSlot \in SlotPairings(Unmatched(old, new), Unmatched(new, old))} :
           old \in Keeps(before), new \in Keeps(after)}

(* Fault: a partial inventory is compared as if it were complete.            *)
PartialDifferences(b, r) == Comparisons(payload[b].parts, payload[r].parts)

(* What may be found to differ between the base snapshot and a complete      *)
(* report.                                                                   *)
PartDifferences(b, r) ==
    IF payload[r].complete THEN Comparisons(payload[b].parts, payload[r].parts) ELSE {{}}

(* _create_event: a difference from this baseline is recorded once; a part   *)
(* without a key is another one in every report.                             *)
Recorded(b, r, d) ==
    \E e \in events :
        /\ e.base = b /\ e.diff = d
        /\ e.report = r \/ d.kind # "ADDED" \/ KeyOf[d.now] # Nothing

(* Fault: a renamed computer's parts are not compared any more.              *)
NoticedOnly(b, r, found, noticed) ==
    {[base |-> b, diff |-> d, report |-> r] :
        d \in {x \in IF noticed = {} THEN found ELSE noticed : ~Recorded(b, r, x)}}

NewEvents(b, r, found, noticed) ==
    {[base |-> b, diff |-> d, report |-> r] :
        d \in {x \in found \cup noticed : ~Recorded(b, r, x)}}

(* detect_changes reads the active baseline; without one, or on the baseline *)
(* itself, there is nothing to compare.                                      *)
ReadBaseline ==
    /\ h.at = "compare"
    /\ IF active \ {h.report} = {}
         THEN h' = [h EXCEPT !.at = "incidents"]
         ELSE h' = [h EXCEPT !.at = "detect", !.base = active]
    /\ UNCHANGED <<domain, review, admin, sender, comparedTo, crashes>>

DetectChanges ==
    /\ h.at = "detect"
    /\ \E b \in h.base : \E found \in PartDifferences(b, h.report) :
          LET new == NewEvents(b, h.report, found, h.noticed) IN
          /\ events' = events \cup new
          /\ h' = [h EXCEPT !.at = "incidents", !.created = new]
          /\ comparedTo' = [comparedTo EXCEPT ![h.report] = @ \cup {b}]
    /\ UNCHANGED <<domain, incidents, outbox, admin, sender, crashes>>

(* Fault: no outbox row for a change found by a retry.                       *)
NotifyFirstTimeOnly ==
    outbox' = IF h.duplicate THEN outbox ELSE outbox \cup (h.created \ incidents)

Notify == outbox' = outbox \cup (h.created \ incidents)

(* create_incidents_for_events: incidents and their outbox rows together,    *)
(* then the handler answers.                                                 *)
CreateIncidents ==
    /\ h.at = "incidents"
    /\ incidents' = incidents \cup h.created
    /\ Notify
    /\ Reply(h.report)
    /\ UNCHANGED <<domain, events, admin, comparedTo, crashes>>

(* The server stops: the open transaction is rolled back and the memory of   *)
(* the request is gone.                                                      *)
Crash ==
    /\ h.at # "idle"
    /\ crashes < MaxCrashes
    /\ crashes' = crashes + 1
    /\ h' = Idle
    /\ UNCHANGED <<domain, review, admin, sender, comparedTo>>
-----------------------------------------------------------------------------
(* Administrators: accept_snapshot_as_baseline; decide_incident, which       *)
(* resolves an incident or puts it under review whatever its status was; and *)
(* revocation and reissue of the agent's credential.                         *)
AcceptBaseline(r) ==
    /\ raw[r] = "PROCESSED"
    /\ r \notin active
    /\ active' = {r}
    /\ UNCHANGED <<domain, review, resolved, credential, revocations, sender, h,
                   comparedTo, crashes>>

DecideIncident(e) ==
    /\ e \in incidents
    /\ resolved' \in {resolved \cup {e}, resolved \ {e}}
    /\ Cardinality(resolved') <= MaxResolved
    /\ UNCHANGED <<domain, review, active, credential, revocations, sender, h,
                   comparedTo, crashes>>

RevokeCredential ==
    /\ credential
    /\ revocations < MaxRevocations
    /\ credential' = FALSE
    /\ revocations' = revocations + 1
    /\ UNCHANGED <<domain, review, active, resolved, sender, h, comparedTo,
                   crashes>>

(* A request that was authenticated with the revoked one is refused first:   *)
(* its credential stays revoked.                                             *)
ReissueCredential ==
    /\ ~credential
    /\ h.at # "normalize"
    /\ credential' = TRUE
    /\ UNCHANGED <<domain, review, active, resolved, revocations, sender, h,
                   comparedTo, crashes>>
-----------------------------------------------------------------------------
Ingest(r) == IngestNew(r) \/ IngestDuplicate(r) \/ BridgeDuplicate(r)

Process == \/ ScopeRefused \/ NormalizeExisting \/ NormalizeInvalid \/ Normalize
           \/ ReadBaseline \/ DetectChanges \/ CreateIncidents

Next == \/ \E r \in Reports : Ingest(r) \/ AcceptBaseline(r)
        \/ Process
        \/ \E e \in incidents : DecideIncident(e)
        \/ RevokeCredential
        \/ ReissueCredential
        \/ Crash

Spec == Init /\ [][Next]_vars

(* A running handler goes on; a sender offers an unsettled report again and  *)
(* again and hears the answer some time; a revoked credential is replaced    *)
(* (an operator's work: approved re-enrolment).                              *)
Fairness ==
    /\ WF_vars(Process)
    /\ WF_vars(ReissueCredential)
    /\ \A r \in Reports :
          /\ SF_vars(Ingest(r) /\ r \notin settled)
          /\ SF_vars((Ingest(r) \/ Process) /\ r \in settled' \ settled)

FairSpec == Spec /\ Fairness
-----------------------------------------------------------------------------
Request == [at : {"idle", "normalize", "compare", "detect", "incidents"},
            report : 0..MaxReports, duplicate : BOOLEAN, processed : BOOLEAN,
            noticed : SUBSET Difference, base : SUBSET Reports,
            created : SUBSET Event]

TypeOK ==
    /\ raw \in [Reports -> RawStatus]
    /\ payload \in [Reports -> Content \cup {Nothing}]
    /\ active \subseteq Reports
    /\ hostname \in Hosts \cup {Nothing}
    /\ identifier \in [Serials -> {"none", "active", "retired"}]
    /\ events \subseteq Event
    /\ incidents \subseteq Event
    /\ resolved \subseteq Event
    /\ outbox \subseteq Event
    /\ credential \in BOOLEAN
    /\ settled \subseteq Reports
    /\ answered \subseteq Reports
    /\ h \in Request
    /\ comparedTo \in [Reports -> SUBSET Reports]
    /\ crashes \in 0..MaxCrashes
    /\ revocations \in 0..MaxRevocations

(* An agent that is told of success has had its report turned into a         *)
(* snapshot, whatever stopped or was refused before (glpi_agent.py:88-110):  *)
(* the acknowledgement on which the agent deletes its only copy.             *)
AnsweredMeansProcessed ==
    \A r \in answered \ BridgeReports : raw[r] = "PROCESSED"

(* Every change event is backed by the stored evidence of both snapshots, in *)
(* a complete inventory, and the comparison of two snapshots explains a part *)
(* in one event only, whatever pairs it makes (detector.py:24-142).  A       *)
(* partial inventory and a baseline accepted during the comparison must not  *)
(* produce an event.  A part that is in both inventories is named only if    *)
(* nothing identifies it or if it has a twin, another part of its key: of    *)
(* twins the two sides may keep different ones.                              *)
Twins(some) == {p \in some : \E q \in some \ {p} : Same(p, q)}

Backed(e) ==
    LET before == payload[e.base]
        after  == payload[e.report]
        d      == e.diff
    IN  CASE d.kind = "HOSTNAME_CHANGED" -> d.now = after.host /\ d.was # d.now
          [] d.kind = "DEVICE_IDENTITY_CHANGED" -> d.now = after.serial /\ d.was # d.now
          [] OTHER ->
               /\ after.complete
               /\ d.was # Nothing =>
                     /\ d.was \in before.parts
                     /\ d.was \in after.parts =>
                           KeyOf[d.was] = Nothing \/ d.was \in Twins(after.parts)
               /\ d.now # Nothing =>
                     /\ d.now \in after.parts
                     /\ d.now \in before.parts =>
                           KeyOf[d.now] = Nothing \/ d.now \in Twins(before.parts)

EventsMatchEvidence ==
    /\ \A e \in events : /\ raw[e.base] = "PROCESSED"
                         /\ raw[e.report] = "PROCESSED"
                         /\ Backed(e)
    /\ \A e, f \in events :
          e # f /\ e.base = f.base /\ e.report = f.report =>
             /\ e.diff.was = f.diff.was => e.diff.was \notin Parts
             /\ e.diff.now = f.diff.now => e.diff.now \notin Parts

(* A report that was compared leaves no part that went and none that came    *)
(* unrecorded: an event from that baseline names it, alone or in a pair,     *)
(* also when an earlier report or an interrupted request recorded it.  The   *)
(* exception is the twin: of parts with one key in one inventory (modules of *)
(* one model and size without serial number and slot) the comparison keeps   *)
(* one (detector.py:98-99), so that of two twins one may go in silence while *)
(* the other is still there, or both under the name of one.                  *)
Told(p, side, other, named) ==
    \/ p \in named
    \/ \E twin \in side \ {p} : Same(p, twin) /\ twin \in named \cup other

NoDifferenceMissed ==
    \A r \in Reports : \A b \in comparedTo[r] :
        LET before == payload[b].parts
            after  == payload[r].parts
            from   == {e.diff : e \in {f \in events : f.base = b}}
        IN  payload[r].complete =>
              /\ \A p \in before \ after : Told(p, before, after, {d.was : d \in from})
              /\ \A p \in after \ before : Told(p, after, before, {d.now : d \in from})

(* Without a crash, every event has its incident and every incident its      *)
(* outbox row once no request is between the two commits.                    *)
EventsReachReview ==
    /\ outbox = incidents
    /\ incidents \subseteq events
    /\ crashes = 0 => events \ incidents = IF h.at = "incidents" THEN h.created
                                           ELSE {}

(* The inductive strengthening of the invariants above.  Stored evidence is  *)
(* what it is for good once it was processed; what each point of the handler *)
(* knows, that no report is compared twice among it; the events of a report  *)
(* come from one comparison; and what was compared is recorded as the        *)
(* differences a comparison computes, not only as the parts they name.       *)
Processed == {r \in Reports : raw[r] = "PROCESSED"}

EvidenceStored ==
    /\ \A r \in Reports : raw[r] # "none" => payload[r] \in Content
    /\ \A r \in Processed : payload[r] \in Inventories
    /\ active \subseteq Processed

IsNotice(d, r) ==
    /\ d.was # d.now
    /\ \/ d.kind = "HOSTNAME_CHANGED" /\ d.was \in Hosts /\ d.now = payload[r].host
       \/ /\ d.kind = "DEVICE_IDENTITY_CHANGED"
          /\ d.was \in Serials /\ d.now = payload[r].serial

HandlerKnows ==
    /\ h.at # "idle" => h.report \in Reports /\ raw[h.report] # "none"
    /\ h.at = "normalize" => /\ h.noticed = {}
                             /\ h.duplicate \/ raw[h.report] = "RECEIVED"
                             /\ h.processed = (raw[h.report] = "PROCESSED")
    /\ h.at \in {"compare", "detect", "incidents"} => h.report \in Processed
    /\ h.at \in {"compare", "detect"} => /\ \A d \in h.noticed : IsNotice(d, h.report)
                                         /\ \A e \in events : e.report # h.report
    /\ h.at = "detect" => h.base \subseteq Processed
    /\ h.created \subseteq events
    /\ h.at # "incidents" => h.created = {}

EventsExplained ==
    \A e \in events :
        /\ e.base \in Processed /\ e.report \in Processed
        /\ \E found \in PartDifferences(e.base, e.report) :
              \A f \in events : f.base = e.base /\ f.report = e.report =>
                                   f.diff \in found \/ IsNotice(f.diff, f.report)

ComparisonsRecorded ==
    \A r \in Reports : \A b \in comparedTo[r] :
        /\ b \in Processed /\ r \in Processed
        /\ \E found \in PartDifferences(b, r) :
              \A d \in found : \E e \in events : e.base = b /\ e.diff = d

IndInv ==
    /\ TypeOK
    /\ EvidenceStored
    /\ HandlerKnows
    /\ AnsweredMeansProcessed
    /\ EventsExplained
    /\ ComparisonsRecorded
    /\ EventsReachReview

(* Every agent report is settled: processed, or set aside as invalid.        *)
EveryReportSettled ==
    \A r \in Reports : (\A q \in Reports : q < r => q \in settled) ~> (r \in settled)
-----------------------------------------------------------------------------
(* docs/decisions/ADR-001-modular-monolith.md:17 -- "event, incident and     *)
(* history do not diverge".  Between requests every event has an incident.   *)
EventAndIncidentAgree == h.at = "idle" => events = incidents

(* docs/decisions/ADR-002-baseline-and-evidence.md:11 -- "an unprocessed     *)
(* change is not hidden by the next scan".  When a part difference appears   *)
(* that the previous complete snapshot did not have, the request that        *)
(* compares it ends with an incident for it that is open.                    *)
PreviousComplete(r) ==
    {q \in Reports : /\ q < r /\ raw[q] = "PROCESSED" /\ payload[q].complete
                     /\ \A p \in Reports : q < p /\ p < r => raw[p] # "PROCESSED"}

AppearsIn(b, r) ==
    {d \in UNION PartDifferences(b, r) :
        /\ \A found \in PartDifferences(b, r) : d \in found
        /\ \E q \in PreviousComplete(r) : d \notin UNION PartDifferences(b, q)}

NewChangeSurfaces ==
    [][CreateIncidents =>
          \A b \in h.base : \A d \in AppearsIn(b, h.report) :
              \E e \in incidents' \ resolved : e.base = b /\ e.diff = d]_vars
=============================================================================
