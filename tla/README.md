# AssetGuard: a TLA+ verification project

AssetGuard keeps track of the computers and the furniture of an organization.
Agents on Windows computers report hardware inventories; the server stores
them as evidence, compares them with a baseline an administrator accepted, and
turns differences into change events, incidents and Telegram messages.  Beside
that technical history it keeps a registry of physical assets in rooms, which
are inspected by hand or by camera.

The modules here model the parts in which steps of several actors, crashes and
lost messages meet; TLC checks them on small instances and TLAPS proves the
main invariants for every value of the constants.  Paths below are relative to
`src/`; `BE/` stands for `backend/src/assetguard/`.

## 1. Inventory of the system

| part | state | operations | hard behaviour | what makes it correct |
|---|---|---|---|---|
| agent report queue (`scripts/windows/assetguard-agent-runtime.ps1`) | queue directory, `rejected/`, `state.json`, `cycle.lock` | one cycle per minute: recover, collect, send a batch, save | crash between any two file operations, lost and late answers, overlapping cycles, quota | no captured report lost, sent in order of capture, every one settles |
| raw inventory ingest (`BE/modules/inventory`, `BE/interfaces/http/glpi_agent.py`, `inventories.py`) | `raw_inventories` | store or recognise a digest | retries after lost answers, crash between the commits of one request | success is answered only for processed evidence |
| normalization (`BE/modules/snapshots/normalizer.py`) | endpoints, identifiers, observations, snapshots | scope check, identity resolution, snapshot | credential revoked in between, repeated evidence, conflicting identifiers | one snapshot per evidence, evidence never loses its endpoint |
| change detection (`BE/modules/changes/detector.py`) | `change_events` | compare a snapshot with the active baseline | partial inventories, deduplication key, baseline replaced meanwhile | events are backed by evidence, none twice, none missed |
| baselines (`BE/modules/baselines/service.py`) | `snapshots` accepted, one ACTIVE | accept | two administrators at once | one active baseline |
| technical incidents (`BE/modules/incidents/service.py`, `BE/interfaces/http/admin_workflows.py`) | incidents, decisions, audit history | create for events, decide, resolve | concurrent decisions, reappearing changes | every event is reviewed |
| notifications (`BE/modules/notifications`) | `telegram_notifications` | enqueue with the incident; a worker claims, sends, commits | overlapping workers, crash after acceptance, permanent failures | nothing lost, copies accounted for, own messages only |
| agent credentials, re-enrolment (`BE/interfaces/http/auth.py`) | credentials, requests | create, revoke, request, approve, reject | two administrators, request race | one approval per request |
| users, sessions (`BE/interfaces/http/auth.py`, `authorization.py`, `BE/modules/identity/auth.py`) | users, sessions | login, logout, update, expiry | disabling a user during a login, a stop between the change and the sweep | a lockout ends the sessions opened before it |
| location access (`BE/modules/identity/location_access.py`, `BE/interfaces/http/resource_scope.py`, the lists of every resource) | grants on buildings, floors and rooms | grant, withdraw; scope of every list and page | places, links and grants change between requests; list and page are scoped by different code | a list shows what its pages open |
| locations, rooms, inspections (`BE/interfaces/http/admin_locations.py`) | rooms, inspections, physical incidents, decisions (accounting acts) | create, inspect, decide | positions edited, imported or decided about while an inspection or a decision is in progress | one act per incident, on the balance and in the room it was decided for |
| assets, linking (`BE/interfaces/http/admin_assets.py`) | assets, links of endpoints | create, edit, import, link | overlapping links and edits, old files imported after acts | a later link prevails over those it has seen, acts have priority over files |
| endpoint freshness (`BE/modules/endpoints/service.py`) | status of an endpoint | sweep | a report during the sweep | a fresh endpoint is not shown offline |
| vision (`BE/modules/vision`) | rooms, scans with image files, baselines | upload, accept | failures between files and commit, overlapping acceptances | a scan has its images, a later acceptance prevails over one it has seen |
| request limits (`BE/infrastructure/http_middleware.py`) | sliding windows | admit | the boundary of the window, windows pruned on demand | never more than the limit, never refused below it |
| server operation (`scripts/linux`) | copies, status file, alert state | backup, rehearsal, monitor | any command may fail | the named copy can be restored, a recurring problem alerts |
| agent lifecycle (`scripts/windows/*install*`, `update-*`) | registry key and its access rules, task, upstream service | install, update, remove | any command may fail, the computer may restart | one uploader, removal can undo |
| frontend, PDF and QR, migrations | none of their own | reads, formatting | sequential | not modelled |

How they interact: the agent's queue sends files to the ingest handler over
HTTPS; the handler calls the normalizer, the detector and the incident service,
each of which commits a transaction of its own; the incident service writes
outbox rows in the transaction of the incidents; the Telegram worker is another
process that shares only that table.  Administrators' requests change
baselines, incidents and credentials between any two of these commits.

The server is one uvicorn process (`backend/Dockerfile:17`).  Both inventory
handlers are coroutines that never await after the body was read, so they
exclude each other; administrators' handlers are plain functions and run in
threads, concurrently with them.  PostgreSQL runs at READ COMMITTED and the
sessions do not autoflush (`BE/infrastructure/database.py:14`).

## 2. Plan

The order is the order of what the system must not get wrong: evidence, then
review, then who may report, then the physical stock.

| step | modules | state |
|---|---|---|
| 1 | `EvidenceDelivery`, `AgentQueue`, `AgentQueueProofs` | done, refinement proved |
| 2 | `InventoryPipeline`, `InventoryPipelineProofs` | done |
| 3 | `AtLeastOnce`, `NotificationDelivery`, `NotificationDeliveryProofs` | done, refinement proved |
| 4 | `AgentEnrolment`, `AgentEnrolmentProofs` | done |
| 5 | `PhysicalStock`, `PhysicalStockProofs` | done |
| 6 | `BaselineReview`, `IncidentReview`, `EndpointLinks`, `EndpointFreshness`, `VisionRooms`, `SessionAuth`: overlapping requests; `OverlapProofs` | done |
| 7 | `RequestLimiter`, `LocationScope`, `AssetImport`: what is let in; `AccessProofs` | done |
| 8 | `ServerMonitor`, `ServerBackup`, `AgentLifecycle`: the scripts of operation; `OperationProofs` | done |
| 9 | inventories in which parts share a key or a slot (`InventoryPipeline`); what overlapping decisions, links, acceptances and evaluations may leave (step 6) | done |

Abstract specifications: `EvidenceDelivery` (step 1) and `AtLeastOnce` (step 3)
are stated and implemented.  They are also the seams of the composition: the
agent's queue relies on a server that may answer or not and promises delivery
in order; `InventoryPipeline` relies on senders that repeat what was not
acknowledged and promises an outbox row for every new event; the worker relies
on committed rows only.  The modules of steps 6 to 8 share no variable with
one another: each is about rows (or files) that only its own requests write.
`MCParts` composes them, and a theorem says that the composition implements the
specification of each.

## 3. Modules and the code

### EvidenceDelivery, AgentQueue

`AgentQueue` is `Invoke-AssetGuardAgentCycle` of
`scripts/windows/assetguard-agent-runtime.ps1`, one action per operation on the
disk and per request, so that a crash falls between any two.

| variable | in the code |
|---|---|
| `where`, `seqno` | the file of a report: `.tmp` begun (`partial`) or completely written (`whole`), `pending/*.json` (`queued`), `rejected/`, deleted (`removed`), and the 16-digit prefix of its name |
| `stored`, `mem` | `state.json` and its copy in the running cycle |
| `lock` | `cycle.lock`, opened without sharing |
| `pc`, `batch`, `current`, `reply` | where a cycle is, the files it still has to send, the one in hand, the answer |
| `received`, `wire` | what the server committed, requests that timed out and may still arrive |

`Start` takes the lock and loads the state; `RecoverTmp` moves or sets aside
what an interrupted cycle left; `CollectOpen`, `CollectFlush`, `CollectRename`
are the creation of the `.tmp`, its writing, and the rename; `ReadNext`,
`PostAccepted`, `PostRefused`, `PostLost`, `Acknowledge`, `RejectPermanent`,
`BackOff` send one file; `SaveAfterCollect`, `SaveProgress`, `Finish` write the
state.  `LateArrival` is a request that was given up and reaches the server
afterwards.  Deadlines are abstracted to "has passed"; the failure counter,
which only scales a delay, and the bytes of a report are left out.

`EvidenceDelivery` is the promise without files, cycles or locks: captured
reports are held until the server has them or they are set aside, and reach it
in the order of capture (`docs/features/agent-continuous-inventory.md:5,12-16`).
`AgentQueue` implements it with `held` = captured reports in the queue or in a
recoverable `.tmp`, `delivered` = `received`, `setAside` = those in `rejected/`.

### InventoryPipeline

The server's side for one endpoint: `receive_glpi_agent` and `receive_inventory`
call `ingest_raw_inventory`, `normalize_raw_inventory`, `detect_changes` and
`create_incidents_for_events`, and each of these commits.  One action is one
commit; `h` holds what the handler remembers between them, `Crash` forgets it.
`raw`, `payload`, `active`, `hostname`, `events`, `incidents`, `outbox` are the
tables; `answered` and `settled` are what the sender was told and when it stops
to resend.  Both handlers never await after reading the body, so there is one
request `h`; `AcceptBaseline`, `DecideIncident`, `RevokeCredential` are requests
of administrators and fall between any two commits.  A report is resent with
the same bytes, so its number stands for its digest.

`Comparisons` is `_compare_category`: of the parts of one key one is kept on
each side (`Keeps`; the last one read, and the query states no order, so it may
be any), the kept ones are matched by key (`KeyOf`: a serial number, or what the
normalizer puts together without one), the unmatched are paired by slot
(`SlotPairings`; several in one slot in the order of the rows), and a single
certain pair that is left becomes a replacement.  An inventory may name any
parts, also *twins*: parts that share a key, as two modules of one model and size
that report neither serial number nor slot.
RAM and storage are compared in the same way one after the other and are one
class of parts here.  `Noticed` is what the normalizer sees change about the
computer itself, and hands on in memory only.  A part nothing is known about
(`bare` in the runs) has no key and is another one in every snapshot, so
`Recorded` never finds its addition and every report opens an event for it,
although `docs/product/demo-scenario.md:12` says that an identical scan creates
none; the normal inventory names at least a model or a slot.

### AtLeastOnce, NotificationDelivery

`drain_notifications` of `BE/modules/notifications/delivery.py` in any number of
processes.  `Claim` is `FOR UPDATE SKIP LOCKED` on the oldest due row of the
organization; `row` is what a worker has locked; `SendAccepted`, `SendFailed`,
`SendAnswerLost` are what Telegram did and what the worker believes; `CommitSent`
and `CommitRetry` commit and unlock; `Crash` unlocks and leaves the row as it
was.  Message numbers are the order of `created_at`, and `Enqueue` makes them
visible in any order, as commits do.  `Poison` are rows whose payload
`message_body` refuses, `Foreign` those of another organization.  `unconfirmed`
is a history variable: copies in the chat whose acceptance was never committed.
`AtLeastOnce` is the promise of `docs/features/telegram-notifications.md:19,23`.

### AgentEnrolment

Credentials (`key`), endpoints (`org`), observed identifiers (`owner`,
`active`), inventories in flight (`post`), re-enrolment requests (`request`)
and what two kinds of handlers hold in memory (`decision`, `link`).

`normalize_raw_inventory` locks the credential and then the endpoints until its
commit and runs in a coroutine that does not await: `StoreKnown`, `StoreNew` and
`StoreRepeated` are one step each, after `Authenticate`, a transaction of its
own.  A decision reads the request without a lock and commits later:
`LoadApprove`, `ScanKeys` and `CommitApprove` (or `FailApprove`, when the index
of active keys refuses) and `LoadReject`, `CommitReject`.  A link reads the
organization of an endpoint and writes it later.  A process that dies is a step
that is never taken.  Of identifiers, one strong type is modelled, of which a
computer has one; the status IDENTITY_CONFLICT and the polling of the installer
are left out, as they change none of these rows.

### PhysicalStock

Positions (`asset`), incidents of inspections (`incident`), decisions that move
or write off (`acts`), and what deciders, importers, editors and inspectors
hold in memory.  A decision locks the incident and then the position
(`LockIncident`, `LockAsset`: `admin_locations.py:456-466`), an import locks the
rows it found and then reads the acts (`LockRows`), while an edit
(`LoadEdit`, `CommitEdit`) and an inspection (`LoadRoom`, `CommitInspection`)
read without locks; writing a locked row waits.  The room of a position is kept
twice, as a reference (`room`) and as text (`place`), and the two are changed
differently by edits, acts and imports.

An edit changes one field and an imported file is one row: the rows of a file
are locked together and do not read each other (`AssetImport` has whole files).
Editing of inventory numbers and descriptive fields is left out; rooms are given, because they are created
with unique names and never renamed.  `Refuse` is every error after a lock was
taken.

### IncidentReview, BaselineReview, EndpointLinks

Three kinds of administrators' requests that read rows without a lock and
commit later.  A SQLAlchemy session writes the columns whose value differs from
the one it loaded and no others, so a model of such a request keeps what was
loaded: `reviewing`, `accepting`, `linking`.

- `IncidentReview` is `decide_incident` for one incident: `LoadIncident` reads
  it in the handler, `LoadChange` its change event, `CommitDecision` writes both
  with the decision and the history entry.  `Written(was, new, current)` is the
  rule about columns; `resolvedAt` is the number of the decision that set it, as
  a new time differs from every old one.  `ledger` is the table of decisions,
  each with what its request asked and how many there were when it read the
  incident.  No guard forbids a decision after a resolution, and only
  resolutions touch the change event (`incidents/service.py:66`): a reopened
  incident is UNDER_REVIEW beside an event that stays RESOLVED or DISMISSED.
- `BaselineReview` is `accept_snapshot_as_baseline` for one endpoint, under the
  partial unique index on active baselines and the unique index on snapshots.
  `FailBaseline` is the error of either; it includes the order of updates inside
  one flush, which can fail the re-acceptance of a superseded snapshot even when
  nothing overlaps.
- `EndpointLinks` is `link_endpoint`.  No index keeps an asset to one endpoint,
  so overlapping links can leave two, or none; `linked` records the links in
  the order of their commits, each with what it named and unlinked and how many
  there were when its request began to read.

### EndpointFreshness

`status` and `lastSeen` of an endpoint are written by the normalizer (an agent's
report holds the row, `AgentReport`; a bridge's does not, `LoadComputer` and
`CommitSighting`), by a conflict of identifiers, and by `evaluate_last_seen`
(`SelectStale`, `CommitSweep`).  `ConnectionStatus` is the Python function of
the endpoint pages, `EffectiveStatus` the SQL CASE of the dashboard.  `alone`
remembers that what a report has loaded was not written since, `heard` which of
the selected endpoints a report was committed of since the selection.

### LocationScope

For each kind of resource the page's check (`OpensAsset`, `OpensDevice`,
`OpensRoom`, `OpensRaw`) and the list's query (`ListedAssets`, `ListedDevices`,
`ScopedDevices`, `ListedRooms`, `ListsRaw`) are translated separately, as they
are written separately.  The actions are what administrators change: grants,
roles, places of assets, links.

### SessionAuth

`Verify` and `StoreSession` are the two halves of a login, `CommitUpdate` and
`Sweep` the two commits of `update_user`, `Stop` a restart of the server.  A
session remembers the `era` of the password and activity it was opened in;
`Authenticates` is `session_principal`, evaluated anew for every request.

### VisionRooms

`create_scan` (`FindRoom` to `CommitScan`) and `accept_baseline` for one room.
The room row is flushed before recognition and committed with the scan, which is
why a second upload waits for it or breaks off (`InsertRoom`, `BreakOff`).
`accepted` records the acceptances in the order of their commits, each with its
scan and how many there were when its request loaded the baseline.

### AssetImport

A file is a kind and a sequence of rows; `FileItems` is what a parser makes of
them (repeated numbers differ by kind), `Accepted` the checks of the whole file
in the preview and in the application, `Planned` the row an item asks for, and
`Applied` the transaction.  An administrator sends a file for a preview
(`Preview`), sends it again with rows excluded, as often as an answer is lost or
an error is shown (`Import`), and gives it up (`GiveUp`): `chosen` is the file
in the dialog, and other imports, acts and edits may change the registry while
it is open.  `PhysicalStock` has the locks and the interleavings;
here are the rules between the rows of a file and between two files.

### RequestLimiter, ServerMonitor, ServerBackup, AgentLifecycle

`RequestLimiter` is `_limited`, pruning included, against the definition of a
sliding minute.  The other three are scripts: one action per command that
changes something, in the script's order, and a `Break...` action that ends the
script at any of them, as `set -e` and `$ErrorActionPreference = 'Stop'` do.  In
`AgentLifecycle` the orders of `install-*`, `update-*` and `uninstall-*` are
data (`Installation`, `Removal`), which a `Restart` cuts off like a failure.  The
commands of a removal that stop and disable the service (`tryStopService`,
`tryDisableService`) are run with `-ErrorAction SilentlyContinue`: they may have
no effect, and the script goes on.

## 4. What the runs check

Run a configuration with its MC module, for example
`tlc -config AgentQueue.cfg MCAgentQueue`.  Every run finishes within a few
minutes on two cores.

| run | properties | bounds, and why they are enough |
|---|---|---|
| AgentQueue | `TypeOK`, `NoCaptureLost`, the refinement `DeliveryInCaptureOrder`, liveness `EveryReportSettles` | two overlapping cycles, three reports, two files on disk, batches of two, one crash: the quota is reached, a batch is cut short, numbers are used again after the queue ran empty, a third report overtakes if anything can.  The invariants are proved without the bounds |
| Pipeline | `TypeOK`, `AnsweredMeansProcessed`, `EventsMatchEvidence`, `NoDifferenceMissed`, `EventsReachReview` | three reports, one of them from the bridge, five inventories and a malformed one, one crash, one revocation.  Incidents are not resolved here: that touches none of the properties, and PipelineReappear has it.  The inventories differ so that every pair of them as baseline and report meets another case of the comparison: moved, replaced in a slot, two that give one slot, replaced as the only one, two against two, twins and one of them gone, bare, partial, renamed, another mainboard |
| PipelineLive | liveness `EveryReportSettled` | two reports, the second from the bridge, four inventories |
| Notifications | `TypeOK`, `CopiesAccounted`, the refinement `AtLeastOnceDelivery`, liveness `EveryMessageSent` | two workers, batches of two, three messages: one that fails for ever and is the oldest, one of another organization, one deliverable; two crashes or lost answers.  All but the liveness is proved without the bounds |
| Enrolment | `TypeOK`, `OneKeyPerEndpoint`, `KeyReportsForOne`, `RevokedWritesNothing`, `RotationIsAtomic` | two keys, endpoints, inventories and administrators (one of an organization, one of none), one request, one linker.  All are proved without the bounds |
| Stock | `TypeOK`, `OneActPerIncident`, `StockConserved`, `ActsWhereInspected`, `ActsOutliveImports` | two scenarios, chosen by the initial state.  *acts*: two deciders, incidents about positions of up to two units, one of which can be split into another: two acts on one balance at once, and one on what is left.  *edits*: one position, one incident, an editor of quantity, room and place, files with complete and with missing columns: every order of an edit, an import and the steps of an inspection and a decision |
| Parts | the modules of steps 6 to 8, each with its type invariant in `PartsTypeOK` and the properties below | see below |

`Parts` checks twelve modules in one run.  They share no variable, so their
product would only multiply; `focus`, chosen by the initial state, lets one of
them move while the others keep their initial state.  What is reached is the sum
of what each module reaches alone, and a property of a module is checked in all
of those states.  `MCParts` extends the twelve modules, so the properties are
their own; that a part runs in the composition as it runs alone is the theorem
`PartsRunAsAlone`.

| module | property | bounds, and why they are enough |
|---|---|---|
| RequestLimiter | `LimitIsExact` | one caller, limit 2, window 3, eight instants: two windows and the boundary between them; callers have separate queues |
| SessionAuth | `LockoutHolds` | one user, two lockouts, two logins, two sessions, two concurrent changes |
| LocationScope | `ListsMatchPages`, `GrantsReachDown` | two organizations with a building, floor, room and asset each, one endpoint, two users (one of no organization), two grants at a time, in every combination |
| IncidentReview | `DecisionsStand` | two overlapping requests, three decisions: two that collide, before or after one that had seen the other |
| BaselineReview | `OneActiveBaseline` | two overlapping acceptances of three snapshots, without end |
| EndpointLinks | `LinksStand` | three endpoints, two assets, two overlapping requests, three links committed: two that collide, before or after one that had seen the other |
| EndpointFreshness | `ReportsShow` | two computers, two reports in flight, one evaluation at a time, three instants, an endpoint being stale when it is last seen more than one hour ago: received before or after, committed before, during or after an evaluation |
| VisionRooms | `ScansHaveImages`, `BaselineStands` | three uploads, two overlapping acceptances, three acceptances committed, two results of recognition |
| AssetImport | `ImportSettles` | two numbers, two places, quantities of one and two, files of two rows out of seven, sound and not; every reachable registry is tried with every file and every choice of excluded rows |
| ServerMonitor | `RecurrenceAlerts` | two problems, an interval of two, four instants |
| ServerBackup | `BackupsLast` | six days, copies kept three days off-site and one locally |
| AgentLifecycle | `OneUploader`, `RemovalCanUndo` | none: the scripts are run in any number and order |

The properties are chosen for what a test hardly shows.  `NoDifferenceMissed`
relates the comparisons made so far to the events that retries and
deduplication left; `CopiesAccounted` relates the chat, which no transaction
protects, to the table; `ActsOutliveImports` relates what a file read before an
act to what it writes after it.

Where requests overlap without locks, the code lets the last writer win, column
by column, and rows may end up mixed.  The property then says what the overlap
may *not* do.  A history variable lists the commits with what each asked for and
what its request could have seen; every value that is stored must be as a commit
asked that *no later one had seen*, so that of two requests in sequence the later
prevails, whatever others overlap either of them (`DecisionsStand`, `LinksStand`,
`BaselineStands`).  That a request by itself has its way in every column, and
that two endpoints share an asset only if their links overlapped, are special
cases.  `ReportsShow` says the same of reports against evaluations, with the time
in it, and `LockoutHolds` in which cases exactly a session may outlive a lockout.
The latter is weaker than
`docs/security/security-baseline.md:26`, which says that sessions are revoked
when a user is disabled or the password changed: a login under way, or a stop of
the server between the two commits, leaves one.

Some statements are proved for every value of the constants and not repeated by
a run: `NamesKeepOrder`, `QuotaRespected` and `BatchStillQueued` of
`AgentQueue`, `RowsHeldOnce` and `OnlyOwnMessagesPosted` of
`NotificationDelivery`.

### Where the code does something else than a document says

Five runs end with a counterexample.  Each states a sentence of the repository.

- **PipelineCrash.** ADR-001, line 17: event, incident and history do not
  diverge.  `detect_changes` commits the events before
  `create_incidents_for_events` commits the incidents.  If the server stops in
  between, the agent's repetition is answered without a comparison, and the
  deduplication key keeps later reports from creating the event again: it never
  gets an incident.
- **PipelineReappear.** ADR-002, line 11: an unprocessed change is not hidden by
  the next scan.  A difference that was resolved, went away and came back meets
  the key of its first occurrence, so nothing is opened.
- **EnrolmentRace.** `auth.py:284` refuses a second decision on a request.  The
  request is read without a lock, so two administrators may both decide it; the
  later commit wins, and a request that is REJECTED in the end has issued a key.
- **EnrolmentTenants.** `docs/api/README.md:45`: a bound key permits reports for
  its endpoint in its organization only.  Two links of an endpoint without
  organization that overlap may write different organizations, and a key bound
  in between stays bound to an endpoint of the other one.
- **StockPlaces.** ADR-006, line 18: after an accounting act an import does not
  change the place.  An edit that clears the room keeps its text, and the next
  import looks the room up by the text and restores it.

## 5. Fairness

Safety runs use `Spec`, without fairness.  The liveness runs assume:

- *AgentQueue*: weak fairness of starting a cycle (the task scheduler does so
  every minute) and of the steps of a running one; strong fairness of the upload
  deadline, of beginning to send and of an acceptance: however often a cycle
  backs off, some later one has a network and a server that accepts.  After a
  revoked key that takes an operator, as the document says (line 16).
- *InventoryPipeline*: weak fairness of the handler's steps and of reissuing a
  key; strong fairness, per report, of offering it and of hearing the answer
  that settles it: the agent of `AgentQueue` repeats a report until then.
- *NotificationDelivery*: weak fairness of starting and continuing a run (a
  timer runs it every minute); strong fairness of the running out of a delay, of
  claiming a due row, and of Telegram accepting a message tried again and again.
  Claiming has to be strong because rows that fail come back for ever; their
  delays of 30 seconds to an hour are what leaves room for others.  Without the
  delay the assumption does not help: the oldest row is claimed every time.

Crashes and lost answers are bounded by constants, so they can not go on for
ever; nothing is assumed about when they happen.

## 6. What is proved

`tlapm` checks the proof modules to the last leaf.  Each proof has the same
shape: an inductive invariant, stated at the end of the module it is about and
checked by TLC on the run before it was proved; one lemma per action or group
of actions; and the properties as consequences.

| module | theorems | what the invariant adds, and why it is needed |
|---|---|---|
| `AgentQueueProofs` | `TypeCorrect`, `NoCaptureIsLost`, `NamesAreOrdered`, `QuotaIsRespected`, `BatchIsQueued`, and the refinement `DeliversInOrder` | who is in a cycle holds the lock alone (`LockExcludes`), so every step is that of one worker; what each program point knows of the file in hand (`InHand`, `Phases`); unused numbers (`Unused`); `NamesBounded`, from which a next number exists at all |
| `InventoryPipelineProofs` | `TypeCorrect`, `AnswersMeanSnapshots`, `EventsAreReviewed`, `EventsAreBacked`, `DifferencesAreRecorded` | see below |
| `NotificationDeliveryProofs` | `TypeCorrect`, `RowsAreHeldOnce`, `CopiesAreAccounted`, `OnlyOwnArePosted`, and the refinement `DeliversAtLeastOnce` | a worker that sends or commits holds an own pending row, and an outcome exists just between sending and commit (`Holding`): without it a commit could count a copy twice |
| `AgentEnrolmentProofs` | `TypeCorrect`, `OneKey`, `KeyReportsForOneEndpoint`, `RevokedKeyWritesNothing`, `RotationsAreAtomic`, `TenantsAreKept` | rows refer to existing endpoints, created keys report, stored inventories belong to the endpoint of their key, and the keys an approval has read are still bound to its endpoint (`DecisionsKnown`), which is why a stale read does no harm.  `TenantsAreKept` assumes that links do not overlap (one linker); `EnrolmentTenants` shows that it must |
| `PhysicalStockProofs` | `TypeCorrect`, `IncidentsActOnce`, `ActsAreLocal`, `ActsPrevail`, `StockIsConserved` | a decision and an import know the current row of what they locked (`DecisionsHold`, `ImportsHold`), no two lock the same position (`LocksApart`), edits are of existing positions (`EditsHold`), and incidents of acts stay resolved (`ActsHold`) |
| `OverlapProofs` | `BaselineStaysOne`, `DecisionsPrevail`, `LinksPrevail`, `ReportsPrevail`, `StoredScansHaveImages`, `BaselinesPrevail`, `LockoutsHold` | what a request may rely on although it locked nothing: whoever has loaded another value than is stored now did so before the commit that stored it (`StatusHeld`, `TimeHeld`, `ChangeHeld`, `LinksHeld`, `SourceHeld`, `CountsHeld`), see below; what nobody has written since is still as it was loaded (`AloneIsUntouched`) or selected (`SelectedIsStale`); a session older than a lockout is known to the sweep that is still to come (`OldIsKnown`) |
| `AccessProofs` | `LimitsAreExact`, `ListsAndPagesAgree`, `GrantsAreNeeded`, `RegistryTypeCorrect`, `ImportsSettle` | see below |
| `OperationProofs` | `RecurrencesAlert`, `NamedBackupsLast`, `OneUploads`, `RemovalsCanUndo`, and the composition: `PartsRunAsAlone`, `PartsAreTyped` | what a message recorded in the state file tells (`Told`); the copy of a run is there from its upload on; what a script that has reached its k-th command has done (`Installed`, `Removed`), for installing and removing separately, since each command relies on those before it |

**The pipeline.** The properties speak of parts and events; the invariant has to
speak of the comparison.  Lemmas about `Comparisons` carry the proof, for every
choice of the parts kept and of the pairs in a slot: `ComparedKinds` and
`ComparedType` (which pairs a difference may name), `ComparedSound` (a named part
is in the one inventory, and what may be in the other if it is there too),
`ComparedOnce` (no part is in two differences), `KeptNamed` (every part kept is
matched by one of its key, or named) and `ComparedComplete` (so every part that
came or went is told, by itself or by its twin).  `EventsExplained` says that every
event is a difference that this comparison yields of stored, processed evidence,
or a notice; `ComparisonsRecorded` that all differences of every comparison made
are recorded *from that baseline*, by whichever report: with
`ComparedComplete` that is `NoDifferenceMissed`, with `ComparedSound` and
`ComparedOnce` it is `EventsMatchEvidence`.  `HandlerKnows` says what the
handler may still assume after its earlier commits, with administrators in
between: the evidence it holds stays processed (`EvidenceStored`), and what it
created is not reviewed by anyone else.

**Overlapping requests.** That a stored value is as a commit asked that no later
one had seen is not inductive: a request that has loaded another value does not
write where it asks for what it loaded, and the value stays.  It stays rightly
only if the request loaded before the commit the value is of, and so could not
have seen it; this is what the `...Held` invariants add, for every request in
progress.  A commit that writes a column becomes the one the column is of, and
whoever is still in progress has read before it; a commit that does not write it
either asks for what is stored, or has, by the invariant, not seen it.

**The order of the queue.** That `AgentQueue` implements `EvidenceDelivery`
needs more than its first invariant: `OrderInv` says that a cycle's batch is a
prefix of the queue by name (`OldestFirst`), that an unfinished file is the
newest (`UnfinishedIsNewest`), and that a delayed request is older than all that
still waits (`WireIsOldest`).  Then every acceptance, a late copy included, is
either the delivery of the oldest report or a stutter.

**The limit.** A caller's queue is what remains of all admitted times without
some of the oldest, all of them a minute old (`Kept`); two admitted requests that
are `Limit` apart in the sequence are a `Window` apart in time.  From the latter
no window holds more than the limit, by counting an interval of indices.  A
refusal is remembered as the index that was the last then, with `Limit` requests
in the window before it (`FullAt`), and later requests do not change that.

**The stock.** The sum over positions is a fold, defined by recursion over sets.
It needs no induction scheme: that the recursion has a solution
(`SumsExist`) and only one follows from the least cardinality at which it would
fail.  In the same way two sums that differ in one position differ by the units
of that position (`StockOfOne`).  A write-off and a move of a whole position
change one row, a move that splits a position two; the row each writes is the one
it locked and read, by `DecisionsHold`, and the position split off did not exist,
so it counted nothing.

**Lists and pages.** The rooms under a grant and the places above a room are the
same relation seen from two sides (`UnderIsAbove`); with grants on places of the
user's organization only (`GrantsAtHome`), the query of each list and the check
of its page come to the same condition.

**Imports.** What an import writes for an item is what it would write again,
whichever of the other items were written in between (`PlannedAgain`): defaults
are read from the registry, but the first import has filled them in.  An item's
row depends on its own number only (`WrittenRow`, `OtherRow`), and no number
comes twice in what is selected; so parts and wholes commute.  That an item holds
cells of a row of the file is proved too (`ItemsHoldCells`): the rows a file
contributes are taken by index (`RowsAt`), and the k-th index of a set exists
because counting up to an index grows by one at a time (`NthIndex`).

**The composition.** A step of `MCParts` is, for every part, a step of the part
or one that leaves it alone (`PartsMoveAlone`); so the composed specification
implies each part's, and the theorems above hold of it.

Assumed are only the named assumptions on constants, which TLC evaluates in the
runs:

| assumption | says | in the code |
|---|---|---|
| `QueueAssumption`, `DeliveryAssumption`, `EnrolmentAssumption`, `StockAssumption` | bounds are numbers, the markers of "none" are no member of the sets | sentinels of the models |
| `AssetsAssumption` | there are finitely many positions | rows of a table |
| `PipelineAssumption` | the same, and that parts differ from host names and serial numbers | an event about a part and one about the computer have different types (`changes/detector.py:38-66`) |
| `LimiterAssumption` | limit, window and times are natural numbers; a limit of zero is included | `rate_limit_per_minute`, 60 seconds |
| `ScopeAssumption` | a room is on one floor, a floor in one building, a building of one organization; rooms, floors and buildings are different | foreign keys that are not null, UUIDs |
| `ImportAssumption` | files are of the three kinds, their rows are indexed from 1 and hold cells of the kinds of row cells; quantities and modes may be anything | `_import_row_values`; the status of a row is one of those the program writes |
| `MonitorAssumption` | the repeat interval is not zero | 14400 seconds |
| `BackupAssumption` | copies are kept for at least two days | 30 days off-site |
| `BaselineAssumption`, `ReviewAssumption`, `LinkAssumption`, `FreshAssumption`, `VisionAssumption`, `SessionAssumption` | the bounds are numbers, the markers of "none" are no member of the sets | sentinels of the models |

Only model-checked are:

- liveness (`EveryReportSettles`, `EveryReportSettled`, `EveryMessageSent`) and
  everything else under fairness: out of the prover's reach;
- the properties of the five runs that end with a counterexample: the code does
  not have them.

## 7. What is not modelled

- Parsing and formatting: GLPI documents, tables, PDF and OCR text of an import,
  messages, PDF and QR output.  They decide only which of the modelled cases a
  request is.
- How many parts of an inventory are alike: parts that an inventory says the
  same about are one element of a set.  The comparison keeps one part of a key
  (`old_by_key`, `new_by_key`), so of two identical modules without serial number
  and slot one can be taken out and no event says so.  Modules that share a key
  but differ in something else are modelled, and `NoDifferenceMissed` states what
  the code does with them: one may go in silence while its twin is still there,
  and an event may name one for the other, or a CHANGED pair of two that are both
  on both sides, depending on the order in which the database returns them.
- Recognition on camera images, an external model; vision rooms that are named
  by text alone, which no unique constraint covers, so that two first uploads
  can create two rooms.
- The creation of users, organizations, buildings, floors and rooms: single
  inserts under unique names, never renamed or deleted.
- The web frontend, PDF and QR: they keep no state.
- Windows scripts for backups and for running a demonstration or pilot by hand.
- Migrations: the constraints they create are modelled where a module depends on
  them (the partial unique indexes of active keys and active baselines, unique
  inventory numbers, the unique event key of the outbox).

Assumed about the surroundings, where the code relies on it: one lifecycle
script at a time on a computer and the upstream agent installed before it; a
small file written by `Set-Content` is there as a whole or not at all; one
backup a day, which does not last into the day after the next; a monitor run
that ends before the next one starts.
