--------------------------- MODULE AgentEnrolment ---------------------------
(***************************************************************************)
(* Who may report for a computer: agent credentials (keys), the endpoints  *)
(* they are bound to by their first accepted inventory, and the            *)
(* re-enrolment of a computer whose key was lost.  An inventory is         *)
(* authenticated in one transaction and normalized in a later one;         *)
(* administrators create and revoke keys, decide requests and link         *)
(* endpoints to assets from threads of their own in between.               *)
(*                                                                         *)
(* normalize_raw_inventory locks the key and the endpoints until its       *)
(* commit and is one step; a decision reads without locks, so its reads    *)
(* and its commit are steps of their own.                                  *)
(***************************************************************************)
EXTENDS Naturals, FiniteSets

CONSTANTS
  Keys,       \* rows of agent_credentials
  Endpoints,  \* rows of managed_endpoints
  Ids,        \* identifier values an inventory can carry
  Strong,     \* those of the strong type, of which a computer has one
  Orgs,       \* organizations
  Posts,      \* inventories agents send, each once
  Requests,   \* rows of agent_reenrolments
  Admins,     \* requests of administrators deciding a re-enrolment
  AdminOrg,   \* the organization of each of them, or NoOrg
  Linkers,    \* requests of administrators linking an endpoint to an asset
  None,       \* no key, endpoint or request
  Shared,     \* the shared secret in place of a key
  NoOrg       \* no organization

ASSUME EnrolmentAssumption ==
  /\ Strong \subseteq Ids
  /\ None \notin Endpoints \cup Keys \cup Requests \cup Orgs \cup {NoOrg}
  /\ Shared \notin Keys
  /\ NoOrg \notin Orgs
  /\ AdminOrg \in [Admins -> Orgs \cup {NoOrg}]

VARIABLES
  key,       \* per key: status, endpoint, organization
  org,       \* per endpoint: organization, None before the row exists
  owner,     \* per identifier value: the endpoint it was observed on
  active,    \* identifier values whose row is active
  post,      \* per inventory: how far it came, its key, values and endpoint
  request,   \* per re-enrolment request: its row
  decision,  \* per deciding administrator: what the handler holds in memory
  link       \* per linking administrator: what the handler holds in memory

vars == <<key, org, owner, active, post, request, decision, link>>

AnyOrg == Orgs \cup {NoOrg}

KeyRow == [status : {"free", "ACTIVE", "REVOKED"},
           endpoint : Endpoints \cup {None}, org : AnyOrg]
PostState == [step : {"unsent", "authenticated", "stored", "refused"},
              by : Keys \cup {Shared}, ids : SUBSET Ids,
              endpoint : Endpoints \cup {None}]
RequestRow == [status : {"free", "PENDING", "APPROVED", "REJECTED"},
               expired : BOOLEAN, endpoint : Endpoints \cup {None},
               org : AnyOrg, key : Keys \cup {None}]
Decision == [step : {"idle", "approve", "scanned", "reject"},
             request : Requests \cup {None}, seen : SUBSET Keys]
Link == [endpoint : Endpoints \cup {None}, org : AnyOrg, was : AnyOrg]

FreeKey == [status |-> "free", endpoint |-> None, org |-> NoOrg]
Unsent == [step |-> "unsent", by |-> Shared, ids |-> {}, endpoint |-> None]
FreeRequest == [status |-> "free", expired |-> FALSE, endpoint |-> None,
                org |-> NoOrg, key |-> None]
Undecided == [step |-> "idle", request |-> None, seen |-> {}]
Unlinked == [endpoint |-> None, org |-> NoOrg, was |-> NoOrg]

TypeOK ==
  /\ key \in [Keys -> KeyRow]
  /\ org \in [Endpoints -> AnyOrg \cup {None}]
  /\ owner \in [Ids -> Endpoints \cup {None}]
  /\ active \subseteq Ids
  /\ post \in [Posts -> PostState]
  /\ request \in [Requests -> RequestRow]
  /\ decision \in [Admins -> Decision]
  /\ link \in [Linkers -> Link]

Init ==
  /\ key = [k \in Keys |-> FreeKey]
  /\ org = [e \in Endpoints |-> None]
  /\ owner = [i \in Ids |-> None]
  /\ active = {}
  /\ post = [p \in Posts |-> Unsent]
  /\ request = [r \in Requests |-> FreeRequest]
  /\ decision = [a \in Admins |-> Undecided]
  /\ link = [l \in Linkers |-> Unlinked]

-----------------------------------------------------------------------------
(* Reading the tables. *)

ActiveKeys(e) == {k \in Keys : key[k].status = "ACTIVE" /\ key[k].endpoint = e}

\* The endpoints on which some value was observed, active or not.
Matched(ids) == {owner[i] : i \in ids} \ {None}

\* Mutant: the index was never created.
NoIndex(e, k, revoked) == TRUE

\* The partial unique index uq_agent_credentials_active_endpoint, for a key
\* made ACTIVE for e by a transaction that revokes the keys in revoked.
IndexAdmits(e, k, revoked) == ActiveKeys(e) \subseteq revoked \cup {k}

-----------------------------------------------------------------------------
(* Inventories. *)

Observable == {ids \in SUBSET Ids : Cardinality(ids \cap Strong) <= 1}

\* The handler's dependency authenticates the request; its body is awaited.
Authenticate(p) ==
  /\ post[p].step = "unsent"
  /\ \E k \in {Shared} \cup {n \in Keys : key[n].status = "ACTIVE"}, ids \in Observable :
       post' = [post EXCEPT ![p] = [@ EXCEPT !.step = "authenticated",
                                             !.by = k, !.ids = ids]]
  /\ UNCHANGED <<key, org, owner, active, request, decision, link>>

\* Mutant: the authentication of the request is trusted.
AuthenticatedOnce(k) == TRUE

\* The locked re-read of the key.
StillActive(k) == key[k].status = "ACTIVE"

\* Mutant: a bound key is accepted for other endpoints.
AnyEndpointInScope(k, endpoints) ==
  /\ key[k].org # NoOrg => \A e \in endpoints : org[e] = key[k].org
  /\ \A e \in endpoints : ActiveKeys(e) \subseteq {k}

InScope(k, endpoints) ==
  /\ key[k].endpoint # None => endpoints = {key[k].endpoint}
  /\ key[k].org # NoOrg => \A e \in endpoints : org[e] = key[k].org
  /\ key[k].endpoint = None => \A e \in endpoints : ActiveKeys(e) \subseteq {k}

Admitted(k, endpoints) == k # Shared => StillActive(k) /\ InScope(k, endpoints)

\* The endpoint the same bytes were stored for before, if they were.
StoredFor(p) ==
  {post[q].endpoint : q \in {n \in Posts : post[n].step = "stored"
                                            /\ post[n].ids = post[p].ids}}

\* An earlier evidence may be repeated byte for byte, or resemble it only.
Targets(p) == {Matched(post[p].ids)} \cup {{e} : e \in StoredFor(p)}

Refuse(p) ==
  /\ post[p].step = "authenticated"
  /\ \E endpoints \in Targets(p) :
       ~ Admitted(post[p].by, endpoints) \/ Cardinality(endpoints) > 1
  /\ post' = [post EXCEPT ![p].step = "refused"]
  /\ UNCHANGED <<key, org, owner, active, request, decision, link>>

Bind(k, e) ==
  key' = IF k = Shared THEN key ELSE [key EXCEPT ![k].endpoint = e]

Accept(p, e) ==
  /\ post' = [post EXCEPT ![p].step = "stored", ![p].endpoint = e]
  /\ Bind(post[p].by, e)

\* A strong value seen for the first time retires the endpoint's active
\* ones; a known value becomes active again.
Observe(ids, e) ==
  LET fresh == {i \in ids : owner[i] = None}
      retired == IF fresh \cap Strong = {} THEN {}
                 ELSE {i \in Strong \cap active : owner[i] = e}
  IN  /\ owner' = [i \in Ids |-> IF i \in fresh THEN e ELSE owner[i]]
      /\ active' = (active \ retired) \cup ids

StoreKnown(p) ==
  /\ post[p].step = "authenticated"
  /\ \E e \in Endpoints :
       /\ Matched(post[p].ids) = {e}
       /\ Admitted(post[p].by, {e})
       /\ Accept(p, e)
       /\ Observe(post[p].ids, e)
  /\ UNCHANGED <<org, request, decision, link>>

StoreNew(p) ==
  /\ post[p].step = "authenticated"
  /\ Matched(post[p].ids) = {}
  /\ Admitted(post[p].by, {})
  /\ \E e \in Endpoints :
       /\ org[e] = None
       /\ org' = [org EXCEPT ![e] = IF post[p].by = Shared THEN NoOrg
                                    ELSE key[post[p].by].org]
       /\ Accept(p, e)
       /\ Observe(post[p].ids, e)
  /\ UNCHANGED <<request, decision, link>>

\* The bytes were processed before: only the key and the status are written.
StoreRepeated(p) ==
  /\ post[p].step = "authenticated"
  /\ \E e \in StoredFor(p) : Admitted(post[p].by, {e}) /\ Accept(p, e)
  /\ UNCHANGED <<org, owner, active, request, decision, link>>

-----------------------------------------------------------------------------
(* Keys. *)

CreateKey(a) ==
  /\ \E k \in Keys, o \in AnyOrg :
       /\ key[k].status = "free"
       /\ AdminOrg[a] # NoOrg => o = AdminOrg[a]
       /\ key' = [key EXCEPT ![k] = [status |-> "ACTIVE", endpoint |-> None, org |-> o]]
  /\ UNCHANGED <<org, owner, active, post, request, decision, link>>

SameTenant(a, o) == AdminOrg[a] # NoOrg => o = AdminOrg[a]

RevokeKey(a) ==
  /\ \E k \in Keys :
       /\ key[k].status = "ACTIVE"
       /\ SameTenant(a, key[k].org)
       /\ key' = [key EXCEPT ![k].status = "REVOKED"]
  /\ UNCHANGED <<org, owner, active, post, request, decision, link>>

-----------------------------------------------------------------------------
(* Re-enrolment. *)

RequestReenrolment(r) ==
  /\ request[r].status = "free"
  /\ \E i \in Strong :
       LET e == IF i \in active THEN owner[i] ELSE None
       IN  request' = [request EXCEPT ![r] =
             [FreeRequest EXCEPT !.status = "PENDING", !.endpoint = e,
                                 !.org = IF e = None THEN NoOrg ELSE org[e]]]
  /\ UNCHANGED <<key, org, owner, active, post, decision, link>>

\* Thirty minutes have passed.
Expire(r) ==
  /\ request[r].status = "PENDING" /\ ~ request[r].expired
  /\ request' = [request EXCEPT ![r].expired = TRUE]
  /\ UNCHANGED <<key, org, owner, active, post, decision, link>>

Decidable(a, r) ==
  /\ SameTenant(a, request[r].org)
  /\ request[r].status = "PENDING" /\ ~ request[r].expired

LoadApprove(a) ==
  /\ decision[a].step = "idle"
  /\ \E r \in Requests :
       /\ Decidable(a, r)
       /\ request[r].endpoint # None
       /\ decision' = [decision EXCEPT ![a] =
                         [step |-> "approve", request |-> r, seen |-> {}]]
  /\ UNCHANGED <<key, org, owner, active, post, request, link>>

ScanKeys(a) ==
  /\ decision[a].step = "approve"
  /\ decision' = [decision EXCEPT ![a].step = "scanned",
                    ![a].seen = ActiveKeys(request[decision[a].request].endpoint)]
  /\ UNCHANGED <<key, org, owner, active, post, request, link>>

\* Mutant: the revocation is committed before the new key is inserted.
ApproveInTwo(a) ==
  LET r == decision[a].request
      e == request[r].endpoint
  IN  /\ decision[a].step = "scanned"
      /\ IF decision[a].seen # {}
         THEN /\ key' = [n \in Keys |-> IF n \in decision[a].seen
                             THEN [key[n] EXCEPT !.status = "REVOKED"] ELSE key[n]]
              /\ decision' = [decision EXCEPT ![a].seen = {}]
              /\ UNCHANGED request
         ELSE /\ \E k \in Keys :
                   /\ key[k].status = "free" /\ IndexAdmits(e, k, {})
                   /\ key' = [key EXCEPT ![k] = [status |-> "ACTIVE", endpoint |-> e,
                                                 org |-> request[r].org]]
                   /\ request' = [request EXCEPT ![r].status = "APPROVED", ![r].key = k]
              /\ decision' = [decision EXCEPT ![a] = Undecided]
      /\ UNCHANGED <<org, owner, active, post, link>>

\* One transaction: revoke the keys that were read, insert the new one and
\* write the request's changed columns.
CommitApprove(a) ==
  LET r == decision[a].request
      e == request[r].endpoint
  IN  /\ decision[a].step = "scanned"
      /\ \E k \in Keys :
           /\ key[k].status = "free"
           /\ IndexAdmits(e, k, decision[a].seen)
           /\ key' = [n \in Keys |->
                IF n = k THEN [status |-> "ACTIVE", endpoint |-> e, org |-> request[r].org]
                ELSE IF n \in decision[a].seen THEN [key[n] EXCEPT !.status = "REVOKED"]
                ELSE key[n]]
           /\ request' = [request EXCEPT ![r].status = "APPROVED", ![r].key = k]
      /\ decision' = [decision EXCEPT ![a] = Undecided]
      /\ UNCHANGED <<org, owner, active, post, link>>

\* The index refuses the new key and the transaction is rolled back.
FailApprove(a) ==
  LET e == request[decision[a].request].endpoint
  IN  /\ decision[a].step = "scanned"
      /\ ~ IndexAdmits(e, None, decision[a].seen)
      /\ decision' = [decision EXCEPT ![a] = Undecided]
      /\ UNCHANGED <<key, org, owner, active, post, request, link>>

LoadReject(a) ==
  /\ decision[a].step = "idle"
  /\ \E r \in Requests :
       /\ Decidable(a, r)
       /\ decision' = [decision EXCEPT ![a] =
                         [step |-> "reject", request |-> r, seen |-> {}]]
  /\ UNCHANGED <<key, org, owner, active, post, request, link>>

CommitReject(a) ==
  /\ decision[a].step = "reject"
  /\ request' = [request EXCEPT ![decision[a].request].status = "REJECTED"]
  /\ decision' = [decision EXCEPT ![a] = Undecided]
  /\ UNCHANGED <<key, org, owner, active, post, link>>

-----------------------------------------------------------------------------
(* Linking an endpoint to an asset gives it the organization of the asset. *)

\* Mutant: an endpoint that does not exist is not refused.
LoadLinkUnchecked(l) ==
  /\ link[l].endpoint = None
  /\ \E e \in Endpoints, o \in Orgs :
       link' = [link EXCEPT ![l] = [endpoint |-> e, org |-> o, was |-> org[e]]]
  /\ UNCHANGED <<key, org, owner, active, post, request, decision>>

LoadLink(l) ==
  /\ link[l].endpoint = None
  /\ \E e \in Endpoints, o \in Orgs :
       /\ org[e] # None
       /\ org[e] # NoOrg => org[e] = o
       /\ link' = [link EXCEPT ![l] = [endpoint |-> e, org |-> o, was |-> org[e]]]
  /\ UNCHANGED <<key, org, owner, active, post, request, decision>>

\* Only a changed column is written.
CommitLink(l) ==
  /\ link[l].endpoint # None
  /\ org' = IF link[l].was = NoOrg THEN [org EXCEPT ![link[l].endpoint] = link[l].org]
            ELSE org
  /\ link' = [link EXCEPT ![l] = Unlinked]
  /\ UNCHANGED <<key, owner, active, post, request, decision>>

-----------------------------------------------------------------------------
Next ==
  \/ \E p \in Posts :
       \/ Authenticate(p) \/ Refuse(p)
       \/ StoreKnown(p) \/ StoreNew(p) \/ StoreRepeated(p)
  \/ \E a \in Admins :
       \/ CreateKey(a) \/ RevokeKey(a)
       \/ LoadApprove(a) \/ ScanKeys(a) \/ CommitApprove(a) \/ FailApprove(a)
       \/ LoadReject(a) \/ CommitReject(a)
  \/ \E r \in Requests : RequestReenrolment(r) \/ Expire(r)
  \/ \E l \in Linkers : LoadLink(l) \/ CommitLink(l)

Spec == Init /\ [][Next]_vars

-----------------------------------------------------------------------------
(* Properties *)

\* At most one working key is bound to an endpoint, although approvals read
\* the keys to revoke before an inventory binds another one.
OneKeyPerEndpoint == \A e \in Endpoints : Cardinality(ActiveKeys(e)) <= 1

\* A key of an organization is bound to endpoints of that organization only:
\* through first inventories, approvals, and links made in the meantime.
KeysStayInTenant ==
  \A k \in Keys :
    key[k].org # NoOrg /\ key[k].endpoint # None =>
      org[key[k].endpoint] = key[k].org

\* An inventory authenticated before its key was revoked is not stored after.
RevokedWritesNothing ==
  [][\A p \in Posts :
       post[p].step # "stored" /\ post'[p].step = "stored" /\ post[p].by # Shared =>
         key[post[p].by].status = "ACTIVE"]_vars

\* All that was ever stored with one key belongs to one endpoint, the one the
\* key was bound to first, through revocation and approvals.
KeyReportsForOne ==
  \A p, q \in Posts :
    post[p].step = "stored" /\ post[q].step = "stored"
      /\ post[p].by = post[q].by /\ post[p].by # Shared =>
      post[p].endpoint = post[q].endpoint

\* A decision on a request never leaves an endpoint without the working key
\* it had: revoking the old key and issuing the new one are one step.
RotationIsAtomic ==
  [][\A e \in Endpoints :
       ActiveKeys(e) # {} /\ ActiveKeys(e)' = {} => decision' = decision]_vars

\* A request that was approved or rejected is not decided again.
DecidedOnce ==
  [][\A r \in Requests :
       request[r].status \in {"APPROVED", "REJECTED"} => request'[r] = request[r]]_vars
-----------------------------------------------------------------------------
(* The inductive invariant behind the properties. *)

Bound(k) == key[k].endpoint # None

\* Rows refer to endpoints that exist.
RowsExist ==
  /\ \A k \in Keys : Bound(k) => org[key[k].endpoint] # None
  /\ \A i \in Ids : owner[i] # None => org[owner[i]] # None
  /\ \A r \in Requests : request[r].endpoint # None => org[request[r].endpoint] # None
  /\ \A p \in Posts : post[p].step = "stored" =>
       post[p].endpoint # None /\ org[post[p].endpoint] # None

\* Only a created key is bound, and only a created key reports.
KeysExist ==
  /\ \A k \in Keys : key[k].status = "free" => ~ Bound(k)
  /\ \A p \in Posts :
       post[p].step # "unsent" /\ post[p].by # Shared => key[post[p].by].status # "free"

\* What was stored with a key was stored for the endpoint it is bound to.
StoredWhereBound ==
  \A p \in Posts :
    post[p].step = "stored" /\ post[p].by # Shared =>
      key[post[p].by].endpoint = post[p].endpoint

ActiveKeysDiffer ==
  \A k, n \in Keys :
    key[k].status = "ACTIVE" /\ key[n].status = "ACTIVE"
      /\ Bound(k) /\ key[k].endpoint = key[n].endpoint => k = n

\* A decision in progress is about a request that was made; the keys it read
\* were bound to the endpoint of the request and still are.
DecisionsKnown ==
  \A a \in Admins : decision[a].step # "idle" =>
    LET r == decision[a].request
    IN  /\ r # None
        /\ request[r].status # "free"
        /\ decision[a].step # "reject" => request[r].endpoint # None
        /\ decision[a].step # "scanned" => decision[a].seen = {}
        /\ \A k \in decision[a].seen : key[k].endpoint = request[r].endpoint

IndInv ==
  TypeOK /\ RowsExist /\ KeysExist /\ StoredWhereBound /\ ActiveKeysDiffer
    /\ DecisionsKnown

\* With one link at a time, what a link read is still so when it commits.
RequestsInTenant ==
  \A r \in Requests :
    request[r].org # NoOrg =>
      request[r].endpoint # None /\ org[request[r].endpoint] = request[r].org

LinksFresh ==
  \A l \in Linkers : link[l].endpoint # None => org[link[l].endpoint] = link[l].was

TenantInv == IndInv /\ KeysStayInTenant /\ RequestsInTenant /\ LinksFresh

=============================================================================
