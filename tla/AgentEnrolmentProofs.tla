----------------------- MODULE AgentEnrolmentProofs -----------------------
(***************************************************************************)
(* The invariants of AgentEnrolment hold for any number of keys,           *)
(* endpoints, inventories, requests and administrators.                    *)
(***************************************************************************)
EXTENDS AgentEnrolment, FiniteSetTheorems, TLAPS

USE EnrolmentAssumption

-----------------------------------------------------------------------------
(* Steps that store an inventory. *)

LEMMA AcceptKeepsTypes ==
  ASSUME TypeOK, NEW p \in Posts, NEW e \in Endpoints, Accept(p, e)
  PROVE  key' \in [Keys -> KeyRow] /\ post' \in [Posts -> PostState]
<1>1. post[p] \in PostState  BY DEF TypeOK
<1>2. [[post[p] EXCEPT !.step = "stored"] EXCEPT !.endpoint = e] \in PostState
  BY <1>1 DEF PostState
<1>3. post' \in [Posts -> PostState]
  BY <1>2 DEF Accept, TypeOK
<1>4. \A k \in Keys : [key[k] EXCEPT !.endpoint = e] \in KeyRow
  BY DEF TypeOK, KeyRow
<1>5. key' \in [Keys -> KeyRow]
  BY <1>4 DEF Accept, Bind, TypeOK
<1> QED  BY <1>3, <1>5

(* What a stored inventory changes, row by row. *)
LEMMA AcceptEffect ==
  ASSUME TypeOK, NEW p \in Posts, NEW e \in Endpoints, Accept(p, e)
  PROVE  /\ \A k \in Keys : /\ key'[k].status = key[k].status
                            /\ key'[k].org = key[k].org
                            /\ key'[k].endpoint =
                                 IF k = post[p].by THEN e ELSE key[k].endpoint
         /\ post'[p].step = "stored" /\ post'[p].endpoint = e
         /\ post'[p].by = post[p].by
         /\ \A q \in Posts : q # p => post'[q] = post[q]
<1>1. post[p] \in PostState  BY DEF TypeOK
<1>2. \A k \in Keys : key[k] \in KeyRow  BY DEF TypeOK
<1>3. \A k \in Keys : /\ key'[k].status = key[k].status
                      /\ key'[k].org = key[k].org
                      /\ key'[k].endpoint = IF k = post[p].by THEN e ELSE key[k].endpoint
  <2>1. CASE post[p].by = Shared  BY <2>1 DEF Accept, Bind
  <2>2. CASE post[p].by # Shared
    <3> DEFINE b == post[p].by
    <3>1. b \in Keys  BY <1>1, <2>2 DEF PostState
    <3>2. key' = [key EXCEPT ![b] = [key[b] EXCEPT !.endpoint = e]]
      BY <2>2 DEF Accept, Bind
    <3>3. \A k \in Keys : k # b => key'[k] = key[k]  BY <3>2 DEF TypeOK
    <3>4. key'[b] = [key[b] EXCEPT !.endpoint = e]  BY <3>1, <3>2 DEF TypeOK
    <3> QED  BY <1>2, <3>1, <3>3, <3>4 DEF KeyRow
  <2> QED  BY <2>1, <2>2
<1>4. post'[p] = [[post[p] EXCEPT !.step = "stored"] EXCEPT !.endpoint = e]
  BY DEF Accept, TypeOK
<1>5. \A q \in Posts : q # p => post'[q] = post[q]  BY DEF Accept, TypeOK
<1> QED  BY <1>1, <1>3, <1>4, <1>5 DEF PostState

(* A key that is bound keeps its endpoint; one that is not has stored       *)
(* nothing and gets an endpoint without another working key.                *)
LEMMA AcceptKeepsKeys ==
  ASSUME IndInv, NEW p \in Posts, NEW e \in Endpoints, Accept(p, e),
         post[p].step = "authenticated", NEW S, Admitted(post[p].by, S),
         S = {e} \/ (S = {} /\ org[e] = None),
         org' \in [Endpoints -> AnyOrg \cup {None}], org'[e] # None,
         \A f \in Endpoints : org[f] # None => org'[f] # None,
         UNCHANGED <<request, decision>>
  PROVE  /\ KeysExist' /\ StoredWhereBound' /\ ActiveKeysDiffer' /\ DecisionsKnown'
         /\ \A k \in Keys : Bound(k)' => org'[key'[k].endpoint] # None
         /\ \A q \in Posts : post'[q].step = "stored" =>
              post'[q].endpoint # None /\ org'[post'[q].endpoint] # None
<1> DEFINE b == post[p].by
<1> USE DEF IndInv
<1>1. /\ \A k \in Keys : /\ key'[k].status = key[k].status
                         /\ key'[k].endpoint = IF k = b THEN e ELSE key[k].endpoint
      /\ post'[p].step = "stored" /\ post'[p].endpoint = e /\ post'[p].by = b
      /\ \A q \in Posts : q # p => post'[q] = post[q]
  BY AcceptEffect
<1>2. /\ b \in Keys \cup {Shared}
      /\ \A q \in Posts : post[q].by \in Keys \cup {Shared} /\ post[q].endpoint \in Endpoints \cup {None}
      /\ \A k \in Keys : key[k].endpoint \in Endpoints \cup {None}
  BY DEF TypeOK, PostState, KeyRow
<1>3. b # Shared => key[b].status = "ACTIVE"
  BY DEF Admitted, StillActive
<1>4. b # Shared /\ Bound(b) => key[b].endpoint = e
  BY DEF Admitted, InScope, Bound
<1>5. \A k \in Keys : Bound(k) => key'[k].endpoint = key[k].endpoint
  BY <1>1, <1>4
<1>6. KeysExist'
  BY <1>1, <1>2, <1>3 DEF KeysExist, Bound
<1>7. StoredWhereBound'
  <2> SUFFICES ASSUME NEW q \in Posts, post'[q].step = "stored", post'[q].by # Shared
               PROVE  key'[post'[q].by].endpoint = post'[q].endpoint
    BY DEF StoredWhereBound
  <2>1. CASE q = p  BY <2>1, <1>1, <1>2
  <2>2. CASE q # p
    <3>1. post'[q] = post[q]  BY <2>2, <1>1
    <3>2. key[post[q].by].endpoint = post[q].endpoint /\ post[q].endpoint # None
      BY <3>1 DEF StoredWhereBound, RowsExist
    <3>3. post[q].by \in Keys  BY <3>1, <1>2
    <3> QED  BY <3>1, <3>2, <3>3, <1>5 DEF Bound
  <2> QED  BY <2>1, <2>2
<1>8. \A k \in Keys : b # Shared /\ key[k].status = "ACTIVE" /\ key[k].endpoint = e => k = b
  <2> SUFFICES ASSUME NEW k \in Keys, b # Shared, key[k].status = "ACTIVE",
                      key[k].endpoint = e
               PROVE  k = b
    OBVIOUS
  <2>1. CASE Bound(b)
    BY <2>1, <1>2, <1>3, <1>4 DEF ActiveKeysDiffer, Bound
  <2>2. CASE ~ Bound(b) /\ S = {e}
    BY <2>2 DEF Admitted, InScope, ActiveKeys, Bound
  <2>3. CASE ~ Bound(b) /\ org[e] = None
    BY <2>3 DEF RowsExist, Bound
  <2> QED  BY <2>1, <2>2, <2>3
<1>9. ActiveKeysDiffer'
  <2> SUFFICES ASSUME NEW k \in Keys, NEW n \in Keys, key'[k].status = "ACTIVE",
                      key'[n].status = "ACTIVE", Bound(k)',
                      key'[k].endpoint = key'[n].endpoint
               PROVE  k = n
    BY DEF ActiveKeysDiffer
  <2>1. CASE k = b \/ n = b  BY <2>1, <1>1, <1>2, <1>8
  <2>2. CASE k # b /\ n # b  BY <2>2, <1>1 DEF ActiveKeysDiffer, Bound
  <2> QED  BY <2>1, <2>2
<1>10. DecisionsKnown'
  <2> SUFFICES ASSUME NEW a \in Admins, decision[a].step # "idle",
                      NEW k \in decision[a].seen
               PROVE  key'[k].endpoint = request[decision[a].request].endpoint
    BY DEF DecisionsKnown
  <2>1. k \in Keys  BY DEF TypeOK, Decision
  <2>2. key[k].endpoint = request[decision[a].request].endpoint /\ Bound(k)
    BY DEF DecisionsKnown, Bound
  <2> QED  BY <2>1, <2>2, <1>5
<1>11. \A k \in Keys : Bound(k)' => org'[key'[k].endpoint] # None
  BY <1>1, <1>2 DEF RowsExist, Bound
<1>12. \A q \in Posts : post'[q].step = "stored" =>
         post'[q].endpoint # None /\ org'[post'[q].endpoint] # None
  BY <1>1, <1>2 DEF RowsExist
<1> QED  BY <1>6, <1>7, <1>9, <1>10, <1>11, <1>12

(* Values observed are values of an endpoint that exists. *)
LEMMA ObserveKeepsOwners ==
  ASSUME TypeOK, NEW ids \in SUBSET Ids, NEW e \in Endpoints, Observe(ids, e)
  PROVE  /\ owner' \in [Ids -> Endpoints \cup {None}] /\ active' \subseteq Ids
         /\ \A i \in Ids : owner'[i] \in {owner[i], e}
  BY DEF TypeOK, Observe

LEMMA StoreKnownStep ==
  ASSUME IndInv, NEW p \in Posts, StoreKnown(p)
  PROVE  IndInv'
<1>1. PICK e \in Endpoints : /\ Matched(post[p].ids) = {e} /\ Admitted(post[p].by, {e})
                             /\ Accept(p, e) /\ Observe(post[p].ids, e)
  BY DEF StoreKnown
<1>2. /\ post[p].step = "authenticated" /\ UNCHANGED <<org, request, decision, link>>
  BY DEF StoreKnown
<1>3. post[p].ids \in SUBSET Ids  BY DEF IndInv, TypeOK, PostState
<1>4. org[e] # None
  BY <1>1, <1>3 DEF IndInv, RowsExist, Matched
<1>5. TypeOK'
  BY <1>1, <1>2, <1>3, AcceptKeepsTypes, ObserveKeepsOwners DEF IndInv, TypeOK
<1>6. org' \in [Endpoints -> AnyOrg \cup {None}]
  BY <1>5 DEF TypeOK
<1>7. /\ KeysExist' /\ StoredWhereBound' /\ ActiveKeysDiffer' /\ DecisionsKnown'
      /\ \A k \in Keys : Bound(k)' => org'[key'[k].endpoint] # None
      /\ \A q \in Posts : post'[q].step = "stored" =>
           post'[q].endpoint # None /\ org'[post'[q].endpoint] # None
  BY <1>1, <1>2, <1>4, <1>6, AcceptKeepsKeys
<1>8. RowsExist'
  BY <1>1, <1>2, <1>3, <1>4, <1>7, ObserveKeepsOwners DEF IndInv, RowsExist
<1> QED  BY <1>5, <1>7, <1>8 DEF IndInv

LEMMA StoreNewStep ==
  ASSUME IndInv, NEW p \in Posts, StoreNew(p)
  PROVE  IndInv'
<1>1. PICK e \in Endpoints :
        /\ org[e] = None
        /\ org' = [org EXCEPT ![e] = IF post[p].by = Shared THEN NoOrg
                                     ELSE key[post[p].by].org]
        /\ Accept(p, e) /\ Observe(post[p].ids, e)
  BY DEF StoreNew
<1>2. /\ post[p].step = "authenticated" /\ Admitted(post[p].by, {})
      /\ UNCHANGED <<request, decision, link>>
  BY DEF StoreNew
<1>3. post[p].ids \in SUBSET Ids  BY DEF IndInv, TypeOK, PostState
<1>4. (IF post[p].by = Shared THEN NoOrg ELSE key[post[p].by].org) \in AnyOrg
  BY DEF IndInv, TypeOK, PostState, KeyRow, AnyOrg
<1>5. org' \in [Endpoints -> AnyOrg \cup {None}]
  BY <1>1, <1>4 DEF IndInv, TypeOK
<1>6. /\ org'[e] # None
      /\ \A f \in Endpoints : org[f] # None => org'[f] # None
  BY <1>1, <1>4 DEF IndInv, TypeOK, AnyOrg
<1>7. TypeOK'
  BY <1>1, <1>2, <1>3, <1>5, AcceptKeepsTypes, ObserveKeepsOwners DEF IndInv, TypeOK
<1>8. /\ KeysExist' /\ StoredWhereBound' /\ ActiveKeysDiffer' /\ DecisionsKnown'
      /\ \A k \in Keys : Bound(k)' => org'[key'[k].endpoint] # None
      /\ \A q \in Posts : post'[q].step = "stored" =>
           post'[q].endpoint # None /\ org'[post'[q].endpoint] # None
  BY <1>1, <1>2, <1>5, <1>6, AcceptKeepsKeys
<1>9. RowsExist'
  <2>1. \A i \in Ids : owner'[i] # None => org'[owner'[i]] # None
    BY <1>1, <1>3, <1>6, ObserveKeepsOwners DEF IndInv, RowsExist, TypeOK
  <2>2. \A r \in Requests : request'[r].endpoint # None => org'[request'[r].endpoint] # None
    BY <1>2, <1>6 DEF IndInv, RowsExist, TypeOK, RequestRow
  <2> QED  BY <2>1, <2>2, <1>8 DEF RowsExist
<1> QED  BY <1>7, <1>8, <1>9 DEF IndInv

LEMMA StoreRepeatedStep ==
  ASSUME IndInv, NEW p \in Posts, StoreRepeated(p)
  PROVE  IndInv'
<1>1. PICK e \in StoredFor(p) : Admitted(post[p].by, {e}) /\ Accept(p, e)
  BY DEF StoreRepeated
<1>2. /\ post[p].step = "authenticated"
      /\ UNCHANGED <<org, owner, active, request, decision, link>>
  BY DEF StoreRepeated
<1>3. e \in Endpoints /\ org[e] # None
  BY DEF IndInv, TypeOK, PostState, StoredFor, RowsExist
<1>4. TypeOK'
  BY <1>1, <1>2, <1>3, AcceptKeepsTypes DEF IndInv, TypeOK
<1>5. org' \in [Endpoints -> AnyOrg \cup {None}]
  BY <1>4 DEF TypeOK
<1>6. /\ KeysExist' /\ StoredWhereBound' /\ ActiveKeysDiffer' /\ DecisionsKnown'
      /\ \A k \in Keys : Bound(k)' => org'[key'[k].endpoint] # None
      /\ \A q \in Posts : post'[q].step = "stored" =>
           post'[q].endpoint # None /\ org'[post'[q].endpoint] # None
  BY <1>1, <1>2, <1>3, <1>5, AcceptKeepsKeys
<1>7. RowsExist'
  BY <1>2, <1>6 DEF IndInv, RowsExist
<1> QED  BY <1>4, <1>6, <1>7 DEF IndInv

-----------------------------------------------------------------------------
(* The other steps on inventories and keys. *)

LEMMA AuthenticateStep ==
  ASSUME IndInv, NEW p \in Posts, Authenticate(p)
  PROVE  IndInv'
<1>1. PICK k \in {Shared} \cup {n \in Keys : key[n].status = "ACTIVE"}, ids \in SUBSET Ids :
        post' = [post EXCEPT ![p] = [@ EXCEPT !.step = "authenticated", !.by = k, !.ids = ids]]
  BY DEF Authenticate, Observable
<1>2. UNCHANGED <<key, org, owner, active, request, decision, link>>
  BY DEF Authenticate
<1>3. post[p] \in PostState  BY DEF IndInv, TypeOK
<1>4. [post[p] EXCEPT !.step = "authenticated", !.by = k, !.ids = ids] \in PostState
  BY <1>3 DEF PostState
<1>5. TypeOK'
  BY <1>1, <1>2, <1>4 DEF IndInv, TypeOK
<1>6. /\ post'[p].step = "authenticated" /\ post'[p].by = k
      /\ \A q \in Posts : q # p => post'[q] = post[q]
  BY <1>1, <1>3 DEF IndInv, TypeOK, PostState
<1>7. RowsExist'  BY <1>2, <1>6 DEF IndInv, RowsExist, Bound
<1>8. KeysExist'  BY <1>2, <1>6 DEF IndInv, KeysExist, Bound
<1>9. StoredWhereBound'  BY <1>2, <1>6 DEF IndInv, StoredWhereBound
<1>10. ActiveKeysDiffer' /\ DecisionsKnown'
  BY <1>2 DEF IndInv, ActiveKeysDiffer, DecisionsKnown, Bound
<1> QED  BY <1>5, <1>7, <1>8, <1>9, <1>10 DEF IndInv

LEMMA RefuseStep ==
  ASSUME IndInv, NEW p \in Posts, Refuse(p)
  PROVE  IndInv'
<1>1. /\ post' = [post EXCEPT ![p].step = "refused"] /\ post[p].step = "authenticated"
      /\ UNCHANGED <<key, org, owner, active, request, decision, link>>
  BY DEF Refuse
<1>2. post[p] \in PostState  BY DEF IndInv, TypeOK
<1>3. [post[p] EXCEPT !.step = "refused"] \in PostState
  BY <1>2 DEF PostState
<1>4. TypeOK'  BY <1>1, <1>3 DEF IndInv, TypeOK
<1>5. /\ post'[p].step = "refused" /\ post'[p].by = post[p].by
      /\ \A q \in Posts : q # p => post'[q] = post[q]
  BY <1>1, <1>2 DEF IndInv, TypeOK, PostState
<1>6. RowsExist'  BY <1>1, <1>5 DEF IndInv, RowsExist, Bound
<1>7. KeysExist'  BY <1>1, <1>5 DEF IndInv, KeysExist, Bound
<1>8. StoredWhereBound'  BY <1>1, <1>5 DEF IndInv, StoredWhereBound
<1>9. ActiveKeysDiffer' /\ DecisionsKnown'
  BY <1>1 DEF IndInv, ActiveKeysDiffer, DecisionsKnown, Bound
<1> QED  BY <1>4, <1>6, <1>7, <1>8, <1>9 DEF IndInv

(* A fresh row that is ACTIVE refers to nothing yet. *)
LEMMA CreateKeyStep ==
  ASSUME IndInv, NEW a \in Admins, CreateKey(a)
  PROVE  IndInv'
<1>1. PICK k \in Keys, o \in AnyOrg :
        /\ key[k].status = "free"
        /\ key' = [key EXCEPT ![k] = [status |-> "ACTIVE", endpoint |-> None, org |-> o]]
  BY DEF CreateKey
<1>2. UNCHANGED <<org, owner, active, post, request, decision, link>>
  BY DEF CreateKey
<1>3. [status |-> "ACTIVE", endpoint |-> None, org |-> o] \in KeyRow
  BY DEF KeyRow
<1>4. TypeOK'  BY <1>1, <1>2, <1>3 DEF IndInv, TypeOK
<1>5. /\ key'[k].status = "ACTIVE" /\ key'[k].endpoint = None
      /\ \A n \in Keys : n # k => key'[n] = key[n]
      /\ ~ Bound(k)
  BY <1>1 DEF IndInv, TypeOK, KeysExist
<1>6. RowsExist'  BY <1>2, <1>5 DEF IndInv, RowsExist, Bound
<1>7. KeysExist'
  <2>1. \A p \in Posts : post[p].by \in Keys \cup {Shared}
    BY DEF IndInv, TypeOK, PostState
  <2> QED  BY <1>2, <1>5, <2>1 DEF IndInv, KeysExist, Bound
<1>8. StoredWhereBound'
  <2>1. \A p \in Posts : post[p].step = "stored" => post[p].by # k
    BY <1>1 DEF IndInv, KeysExist
  <2>2. \A p \in Posts : post[p].by # Shared => post[p].by \in Keys
    BY DEF IndInv, TypeOK, PostState
  <2> QED  BY <1>2, <1>5, <2>1, <2>2 DEF IndInv, StoredWhereBound
<1>9. ActiveKeysDiffer'  BY <1>5 DEF IndInv, ActiveKeysDiffer, Bound
<1>10. DecisionsKnown'
  <2>1. \A d \in Admins : k \notin decision[d].seen \/ decision[d].step = "idle"
    BY <1>5 DEF IndInv, DecisionsKnown, Bound
  <2>2. \A d \in Admins : decision[d].seen \subseteq Keys
    BY DEF IndInv, TypeOK, Decision
  <2> QED  BY <1>2, <1>5, <2>1, <2>2 DEF IndInv, DecisionsKnown
<1> QED  BY <1>4, <1>6, <1>7, <1>8, <1>9, <1>10 DEF IndInv

LEMMA RevokeKeyStep ==
  ASSUME IndInv, NEW a \in Admins, RevokeKey(a)
  PROVE  IndInv'
<1>1. PICK k \in Keys : key[k].status = "ACTIVE" /\ key' = [key EXCEPT ![k].status = "REVOKED"]
  BY DEF RevokeKey
<1>2. UNCHANGED <<org, owner, active, post, request, decision, link>>
  BY DEF RevokeKey
<1>3. key[k] \in KeyRow  BY DEF IndInv, TypeOK
<1>4. [key[k] EXCEPT !.status = "REVOKED"] \in KeyRow
  BY <1>3 DEF KeyRow
<1>5. TypeOK'  BY <1>1, <1>2, <1>4 DEF IndInv, TypeOK
<1>6. /\ key'[k].status = "REVOKED"
      /\ \A n \in Keys : /\ key'[n].endpoint = key[n].endpoint
                         /\ n # k => key'[n].status = key[n].status
  BY <1>1, <1>3 DEF IndInv, TypeOK, KeyRow
<1>7. \A p \in Posts : post[p].by # Shared => post[p].by \in Keys
  BY DEF IndInv, TypeOK, PostState
<1>8. RowsExist'  BY <1>2, <1>6 DEF IndInv, RowsExist, Bound
<1>9. KeysExist'  BY <1>1, <1>2, <1>6, <1>7 DEF IndInv, KeysExist, Bound
<1>10. StoredWhereBound'  BY <1>2, <1>6, <1>7 DEF IndInv, StoredWhereBound
<1>11. ActiveKeysDiffer'  BY <1>6 DEF IndInv, ActiveKeysDiffer, Bound
<1>12. DecisionsKnown'
  <2>1. \A d \in Admins : decision[d].seen \subseteq Keys
    BY DEF IndInv, TypeOK, Decision
  <2> QED  BY <1>2, <1>6, <2>1 DEF IndInv, DecisionsKnown
<1> QED  BY <1>5, <1>8, <1>9, <1>10, <1>11, <1>12 DEF IndInv

-----------------------------------------------------------------------------
(* Steps of a decision. *)

(* A step that changes one decision, or no more than a request's columns   *)
(* beside it, leaves what is known about keys and inventories.              *)
LEMMA DecisionStep ==
  ASSUME IndInv, NEW a \in Admins, NEW d \in Decision,
         decision' = [decision EXCEPT ![a] = d],
         UNCHANGED <<key, org, owner, active, post, request, link>>,
         d.step # "idle" =>
           /\ d.request # None
           /\ request[d.request].status # "free"
           /\ d.step # "reject" => request[d.request].endpoint # None
           /\ d.step # "scanned" => d.seen = {}
           /\ \A k \in d.seen : key[k].endpoint = request[d.request].endpoint
  PROVE  IndInv'
<1>1. TypeOK'  BY DEF IndInv, TypeOK
<1>2. /\ decision'[a] = d
      /\ \A b \in Admins : b # a => decision'[b] = decision[b]
  BY DEF IndInv, TypeOK
<1>3. DecisionsKnown'  BY <1>2 DEF IndInv, DecisionsKnown
<1> QED  BY <1>1, <1>3 DEF IndInv, RowsExist, KeysExist, StoredWhereBound, ActiveKeysDiffer, Bound

LEMMA LoadStep ==
  ASSUME IndInv, NEW a \in Admins, LoadApprove(a) \/ LoadReject(a)
  PROVE  IndInv'
<1>1. PICK r \in Requests, s \in {"approve", "reject"} :
        /\ Decidable(a, r)
        /\ s = "approve" => request[r].endpoint # None
        /\ decision' = [decision EXCEPT ![a] = [step |-> s, request |-> r, seen |-> {}]]
  BY DEF LoadApprove, LoadReject
<1>2. [step |-> s, request |-> r, seen |-> {}] \in Decision
  BY DEF Decision
<1>3. UNCHANGED <<key, org, owner, active, post, request, link>>
  BY DEF LoadApprove, LoadReject
<1> QED  BY <1>1, <1>2, <1>3, DecisionStep DEF Decidable

LEMMA ScanKeysStep ==
  ASSUME IndInv, NEW a \in Admins, ScanKeys(a)
  PROVE  IndInv'
<1> DEFINE d == decision[a]
           e == request[d.request].endpoint
           n == [[d EXCEPT !.step = "scanned"] EXCEPT !.seen = ActiveKeys(e)]
<1>1. d \in Decision  BY DEF IndInv, TypeOK
<1>2. n \in Decision  BY <1>1 DEF Decision, ActiveKeys
<1>3. /\ decision' = [decision EXCEPT ![a] = n] /\ d.step = "approve"
      /\ UNCHANGED <<key, org, owner, active, post, request, link>>
  BY DEF ScanKeys, IndInv, TypeOK
<1>4. n.step = "scanned" /\ n.request = d.request /\ n.seen = ActiveKeys(e)
  BY <1>1 DEF Decision
<1>5. d.request # None /\ request[d.request].status # "free" /\ e # None
  BY <1>3 DEF IndInv, DecisionsKnown
<1>6. \A k \in ActiveKeys(e) : key[k].endpoint = e  BY DEF ActiveKeys
<1> HIDE DEF n
<1> QED  BY <1>2, <1>3, <1>4, <1>5, <1>6, DecisionStep

LEMMA FailApproveStep ==
  ASSUME IndInv, NEW a \in Admins, FailApprove(a)
  PROVE  IndInv'
<1>1. Undecided \in Decision /\ Undecided.step = "idle"  BY DEF Undecided, Decision
<1> QED  BY <1>1, DecisionStep DEF FailApprove

-----------------------------------------------------------------------------
(* Steps that write a request. *)

(* Released(d) says that the step left every decision alone or ended some. *)
Released == \A b \in Admins : decision'[b] = decision[b] \/ decision'[b] = Undecided

(* The endpoint of a request that was made does not change.                 *)
LEMMA RequestKeepsDecisions ==
  ASSUME IndInv, NEW r \in Requests, NEW row \in RequestRow,
         request' = [request EXCEPT ![r] = row],
         row.status # "free",
         request[r].status # "free" => row.endpoint = request[r].endpoint,
         Released,
         \A k \in Keys : Bound(k) => key'[k].endpoint = key[k].endpoint
  PROVE  DecisionsKnown'
<1>1. \A s \in Requests : request[s].status # "free" =>
        request'[s].status # "free" /\ request'[s].endpoint = request[s].endpoint
  BY DEF IndInv, TypeOK
<1>2. SUFFICES ASSUME NEW b \in Admins, decision'[b].step # "idle"
               PROVE  LET s == decision'[b].request
                      IN  /\ s # None
                          /\ request'[s].status # "free"
                          /\ decision'[b].step # "reject" => request'[s].endpoint # None
                          /\ decision'[b].step # "scanned" => decision'[b].seen = {}
                          /\ \A k \in decision'[b].seen :
                               key'[k].endpoint = request'[s].endpoint
  BY DEF DecisionsKnown
<1>3. decision'[b] = decision[b]  BY <1>2 DEF Released, Undecided
<1>4. decision[b] \in Decision  BY DEF IndInv, TypeOK
<1> DEFINE s == decision[b].request
<1>5. /\ s \in Requests /\ request[s].status # "free"
      /\ decision[b].step # "reject" => request[s].endpoint # None
      /\ decision[b].step # "scanned" => decision[b].seen = {}
      /\ \A k \in decision[b].seen : key[k].endpoint = request[s].endpoint
  BY <1>2, <1>3, <1>4 DEF IndInv, DecisionsKnown, Decision
<1>6. \A k \in decision[b].seen : key'[k].endpoint = request'[s].endpoint
  <2>1. TAKE k \in decision[b].seen
  <2>2. k \in Keys  BY <1>4 DEF Decision
  <2>3. decision[b].step = "scanned"
    BY <1>5
  <2>4. Bound(k)  BY <1>5, <2>3 DEF Bound
  <2> QED  BY <1>1, <1>5, <2>2, <2>4
<1> QED  BY <1>1, <1>3, <1>5, <1>6

LEMMA RequestStep ==
  ASSUME IndInv, NEW r \in Requests, NEW row \in RequestRow,
         request' = [request EXCEPT ![r] = row],
         row.status # "free",
         request[r].status # "free" => row.endpoint = request[r].endpoint,
         row.endpoint # None => org[row.endpoint] # None,
         decision' \in [Admins -> Decision], Released,
         UNCHANGED <<key, org, owner, active, post, link>>
  PROVE  IndInv'
<1>1. TypeOK'  BY DEF IndInv, TypeOK
<1>2. DecisionsKnown'  BY RequestKeepsDecisions
<1>3. RowsExist'  BY DEF IndInv, TypeOK, RowsExist, Bound
<1> QED  BY <1>1, <1>2, <1>3 DEF IndInv, KeysExist, StoredWhereBound, ActiveKeysDiffer, Bound

LEMMA RequestReenrolmentStep ==
  ASSUME IndInv, NEW r \in Requests, RequestReenrolment(r)
  PROVE  IndInv'
<1>1. PICK i \in Strong :
        LET e == IF i \in active THEN owner[i] ELSE None
        IN  request' = [request EXCEPT ![r] =
              [FreeRequest EXCEPT !.status = "PENDING", !.endpoint = e,
                                  !.org = IF e = None THEN NoOrg ELSE org[e]]]
  BY DEF RequestReenrolment
<1>2. /\ request[r].status = "free"
      /\ UNCHANGED <<key, org, owner, active, post, decision, link>>
  BY DEF RequestReenrolment
<1> DEFINE e == IF i \in active THEN owner[i] ELSE None
           o == IF e = None THEN NoOrg ELSE org[e]
           row == [FreeRequest EXCEPT !.status = "PENDING", !.endpoint = e, !.org = o]
<1>3. e \in Endpoints \cup {None} /\ (e # None => org[e] # None)
  BY DEF IndInv, TypeOK, RowsExist
<1>4. o \in AnyOrg  BY <1>3 DEF IndInv, TypeOK, AnyOrg
<1>5. row \in RequestRow /\ row.status = "PENDING" /\ row.endpoint = e
  BY <1>3, <1>4 DEF RequestRow, FreeRequest
<1>6. request' = [request EXCEPT ![r] = row]  BY <1>1
<1>7. decision' \in [Admins -> Decision] /\ Released
  BY <1>2 DEF IndInv, TypeOK, Released
<1> HIDE DEF row, e, o
<1> QED  BY <1>2, <1>3, <1>5, <1>6, <1>7, RequestStep

LEMMA ExpireStep ==
  ASSUME IndInv, NEW r \in Requests, Expire(r)
  PROVE  IndInv'
<1> DEFINE row == [request[r] EXCEPT !.expired = TRUE]
<1>1. request[r] \in RequestRow  BY DEF IndInv, TypeOK
<1>2. /\ row \in RequestRow /\ row.status = request[r].status
      /\ row.endpoint = request[r].endpoint
  BY <1>1 DEF RequestRow
<1>3. /\ request' = [request EXCEPT ![r] = row] /\ request[r].status = "PENDING"
      /\ UNCHANGED <<key, org, owner, active, post, decision, link>>
  BY DEF Expire, IndInv, TypeOK
<1>4. row.endpoint # None => org[row.endpoint] # None
  BY <1>2 DEF IndInv, RowsExist
<1>5. decision' \in [Admins -> Decision] /\ Released
  BY <1>3 DEF IndInv, TypeOK, Released
<1> HIDE DEF row
<1> QED  BY <1>2, <1>3, <1>4, <1>5, RequestStep

LEMMA CommitRejectStep ==
  ASSUME IndInv, NEW a \in Admins, CommitReject(a)
  PROVE  IndInv'
<1> DEFINE r == decision[a].request
           row == [request[r] EXCEPT !.status = "REJECTED"]
<1>1. /\ decision[a].step = "reject"
      /\ decision' = [decision EXCEPT ![a] = Undecided]
      /\ UNCHANGED <<key, org, owner, active, post, link>>
  BY DEF CommitReject
<1>2. r \in Requests
  BY <1>1 DEF IndInv, TypeOK, Decision, DecisionsKnown
<1>3. request[r] \in RequestRow  BY <1>2 DEF IndInv, TypeOK
<1>4. /\ row \in RequestRow /\ row.status = "REJECTED"
      /\ row.endpoint = request[r].endpoint
  BY <1>3 DEF RequestRow
<1>5. request' = [request EXCEPT ![r] = row]
  BY <1>2 DEF CommitReject, IndInv, TypeOK
<1>6. row.endpoint # None => org[row.endpoint] # None
  BY <1>2, <1>4 DEF IndInv, RowsExist
<1>7. decision' \in [Admins -> Decision] /\ Released
  BY <1>1 DEF IndInv, TypeOK, Released, Undecided, Decision
<1> HIDE DEF row, r
<1> QED  BY <1>1, <1>2, <1>4, <1>5, <1>6, <1>7, RequestStep

(* The index admits a new key only if every other working key of the        *)
(* endpoint is among those that are revoked in the same step.               *)
LEMMA CommitApproveStep ==
  ASSUME IndInv, NEW a \in Admins, CommitApprove(a)
  PROVE  IndInv'
<1> DEFINE r == decision[a].request
           e == request[r].endpoint
           seen == decision[a].seen
<1>1. PICK k \in Keys :
        /\ key[k].status = "free"
        /\ IndexAdmits(e, k, seen)
        /\ key' = [n \in Keys |->
             IF n = k THEN [status |-> "ACTIVE", endpoint |-> e, org |-> request[r].org]
             ELSE IF n \in seen THEN [key[n] EXCEPT !.status = "REVOKED"]
             ELSE key[n]]
        /\ request' = [request EXCEPT ![r].status = "APPROVED", ![r].key = k]
  BY DEF CommitApprove
<1>2. /\ decision[a].step = "scanned"
      /\ decision' = [decision EXCEPT ![a] = Undecided]
      /\ UNCHANGED <<org, owner, active, post, link>>
  BY DEF CommitApprove
<1>3. /\ r \in Requests /\ request[r].status # "free"
      /\ e \in Endpoints /\ org[e] # None /\ request[r] \in RequestRow
  BY <1>2 DEF IndInv, TypeOK, Decision, DecisionsKnown, RequestRow, RowsExist
<1>4. \A n \in Keys : key[n] \in KeyRow  BY DEF IndInv, TypeOK
<1>5. key' \in [Keys -> KeyRow]
  <2>1. [status |-> "ACTIVE", endpoint |-> e, org |-> request[r].org] \in KeyRow
    BY <1>3 DEF KeyRow, RequestRow
  <2>2. \A n \in Keys : [key[n] EXCEPT !.status = "REVOKED"] \in KeyRow
    BY <1>4 DEF KeyRow
  <2> QED  BY <1>1, <1>4, <2>1, <2>2
<1>6. key'[k].status = "ACTIVE" /\ key'[k].endpoint = e
  BY <1>1
<1>7. \A n \in Keys \ {k} :
        /\ key'[n].endpoint = key[n].endpoint
        /\ n \in seen => key'[n].status = "REVOKED"
        /\ n \notin seen => key'[n].status = key[n].status
  BY <1>1, <1>4 DEF KeyRow
<1>8. ~ Bound(k)  BY <1>1 DEF IndInv, KeysExist
<1>9. \A n \in Keys : Bound(n) => key'[n].endpoint = key[n].endpoint
  BY <1>7, <1>8
<1> DEFINE row == [[request[r] EXCEPT !.status = "APPROVED"] EXCEPT !.key = k]
<1>10. /\ row \in RequestRow /\ row.status = "APPROVED"
       /\ row.endpoint = e
       /\ request' = [request EXCEPT ![r] = row]
  <2>1. row \in RequestRow /\ row.status = "APPROVED" /\ row.endpoint = e
    BY <1>3 DEF RequestRow
  <2>2. request' = [request EXCEPT ![r] = row]
    BY <1>1, <1>3 DEF IndInv, TypeOK
  <2> QED  BY <2>1, <2>2
<1>11. decision' \in [Admins -> Decision] /\ Released
  BY <1>2 DEF IndInv, TypeOK, Released, Undecided, Decision
<1>12. TypeOK'
  BY <1>2, <1>5, <1>10, <1>11 DEF IndInv, TypeOK
<1>13. DecisionsKnown'
  <2> HIDE DEF row
  <2> QED  BY <1>3, <1>9, <1>10, <1>11, RequestKeepsDecisions
<1>14. RowsExist'
  <2>1. \A n \in Keys : Bound(n)' => org'[key'[n].endpoint] # None
    BY <1>2, <1>3, <1>6, <1>7 DEF IndInv, RowsExist, Bound
  <2>2. \A s \in Requests : request'[s].endpoint = request[s].endpoint
    BY <1>10 DEF IndInv, TypeOK
  <2> QED  BY <1>2, <2>1, <2>2 DEF IndInv, RowsExist
<1>15. \A p \in Posts : post[p].by # Shared => post[p].by \in Keys
  BY DEF IndInv, TypeOK, PostState
<1>16. KeysExist'
  <2>1. \A n \in Keys : key[n].status # "free" => key'[n].status # "free"
    BY <1>6, <1>7
  <2>2. \A n \in Keys : key'[n].status = "free" => ~ Bound(n)'
    BY <1>6, <1>7 DEF IndInv, KeysExist, Bound
  <2> QED  BY <1>2, <1>15, <2>1, <2>2 DEF IndInv, KeysExist
<1>17. StoredWhereBound'
  BY <1>1, <1>2, <1>7, <1>15 DEF IndInv, StoredWhereBound, KeysExist
<1>18. ActiveKeysDiffer'
  <2>1. \A n \in Keys \ {k} :
          key'[n].status = "ACTIVE" => key[n].status = "ACTIVE" /\ key'[n].endpoint # e
    <3> SUFFICES ASSUME NEW n \in Keys \ {k}, key'[n].status = "ACTIVE"
                 PROVE  key[n].status = "ACTIVE" /\ key'[n].endpoint # e
      OBVIOUS
    <3>1. n \notin seen /\ key[n].status = "ACTIVE"  BY <1>7
    <3>2. n \notin ActiveKeys(e)  BY <1>1, <3>1 DEF IndexAdmits
    <3> QED  BY <1>7, <3>1, <3>2 DEF ActiveKeys
  <2> QED  BY <1>6, <1>7, <2>1 DEF IndInv, ActiveKeysDiffer, Bound
<1> QED  BY SMTT(30), <1>12, <1>13, <1>14, <1>16, <1>17, <1>18 DEF IndInv

-----------------------------------------------------------------------------
(* Steps of a link. *)

LEMMA LinkStep ==
  ASSUME IndInv, NEW l \in Linkers, LoadLink(l) \/ CommitLink(l)
  PROVE  IndInv'
<1>1. UNCHANGED <<key, owner, active, post, request, decision>>
  BY DEF LoadLink, CommitLink
<1>2. link' \in [Linkers -> Link] /\ org' \in [Endpoints -> AnyOrg \cup {None}]
  <2>1. CASE LoadLink(l)
    <3>1. PICK e \in Endpoints, o \in Orgs :
            /\ org[e] # None
            /\ link' = [link EXCEPT ![l] = [endpoint |-> e, org |-> o, was |-> org[e]]]
      BY <2>1 DEF LoadLink
    <3>2. [endpoint |-> e, org |-> o, was |-> org[e]] \in Link
      BY <3>1 DEF IndInv, TypeOK, Link, AnyOrg
    <3> QED  BY <2>1, <3>1, <3>2 DEF LoadLink, IndInv, TypeOK
  <2>2. CASE CommitLink(l)
    <3>1. link[l].endpoint \in Endpoints \cup {None} /\ link[l].org \in AnyOrg
      BY DEF IndInv, TypeOK, Link
    <3>2. Unlinked \in Link  BY DEF Unlinked, Link, AnyOrg
    <3> QED  BY <2>2, <3>1, <3>2 DEF CommitLink, IndInv, TypeOK
  <2> QED  BY <2>1, <2>2
<1>3. TypeOK'  BY <1>1, <1>2 DEF IndInv, TypeOK
<1>4. \A f \in Endpoints : org[f] # None => org'[f] # None
  <2>1. link[l].org \in AnyOrg  BY DEF IndInv, TypeOK, Link
  <2> QED  BY <2>1 DEF LoadLink, CommitLink, IndInv, TypeOK, AnyOrg
<1>5. RowsExist'
  <2>1. /\ \A k \in Keys : key[k].endpoint \in Endpoints \cup {None}
        /\ \A p \in Posts : post[p].endpoint \in Endpoints \cup {None}
        /\ \A r \in Requests : request[r].endpoint \in Endpoints \cup {None}
        /\ owner \in [Ids -> Endpoints \cup {None}]
    BY DEF IndInv, TypeOK, KeyRow, PostState, RequestRow
  <2> QED  BY <1>1, <1>4, <2>1 DEF IndInv, RowsExist, Bound
<1> QED
  BY <1>1, <1>3, <1>5
  DEF IndInv, KeysExist, StoredWhereBound, ActiveKeysDiffer, DecisionsKnown, Bound

-----------------------------------------------------------------------------
LEMMA Invariance == Spec => []IndInv
<1>1. Init => IndInv
  BY DEF Init, IndInv, TypeOK, KeyRow, PostState, RequestRow, Decision, Link, AnyOrg,
     FreeKey, Unsent, FreeRequest, Undecided, Unlinked,
     RowsExist, KeysExist, StoredWhereBound, ActiveKeysDiffer, DecisionsKnown, Bound
<1>2. IndInv /\ [Next]_vars => IndInv'
  <2> SUFFICES ASSUME IndInv, [Next]_vars PROVE IndInv'  OBVIOUS
  <2>1. CASE UNCHANGED vars
    BY <2>1 DEF vars, IndInv, TypeOK, RowsExist, KeysExist, StoredWhereBound,
       ActiveKeysDiffer, DecisionsKnown, Bound
  <2>2. ASSUME NEW p \in Posts,
               \/ Authenticate(p) \/ Refuse(p)
               \/ StoreKnown(p) \/ StoreNew(p) \/ StoreRepeated(p)
        PROVE  IndInv'
    BY <2>2, AuthenticateStep, RefuseStep, StoreKnownStep, StoreNewStep, StoreRepeatedStep
  <2>3. ASSUME NEW a \in Admins,
               \/ CreateKey(a) \/ RevokeKey(a)
               \/ LoadApprove(a) \/ ScanKeys(a) \/ CommitApprove(a) \/ FailApprove(a)
               \/ LoadReject(a) \/ CommitReject(a)
        PROVE  IndInv'
    BY <2>3, CreateKeyStep, RevokeKeyStep, LoadStep, ScanKeysStep, CommitApproveStep,
       FailApproveStep, CommitRejectStep
  <2>4. ASSUME NEW r \in Requests, RequestReenrolment(r) \/ Expire(r)
        PROVE  IndInv'
    BY <2>4, RequestReenrolmentStep, ExpireStep
  <2>5. ASSUME NEW l \in Linkers, LoadLink(l) \/ CommitLink(l)
        PROVE  IndInv'
    BY <2>5, LinkStep
  <2> QED  BY <2>1, <2>2, <2>3, <2>4, <2>5 DEF Next
<1> QED  BY <1>1, <1>2, PTL DEF Spec

(* Every reachable state is of the declared types (the rows of auth.py,      *)
(* normalizer.py and their tables).                                          *)
THEOREM TypeCorrect == Spec => []TypeOK
BY Invariance, PTL DEF IndInv

(* At most one working key is bound to an endpoint, whatever approvals,      *)
(* first inventories and revocations overlap.                                *)
THEOREM OneKey == Spec => []OneKeyPerEndpoint
<1>1. IndInv => OneKeyPerEndpoint
  <2> SUFFICES ASSUME IndInv, NEW e \in Endpoints
               PROVE  Cardinality(ActiveKeys(e)) <= 1
    BY DEF OneKeyPerEndpoint
  <2>1. CASE ActiveKeys(e) = {}  BY <2>1, FS_EmptySet
  <2>2. CASE ActiveKeys(e) # {}
    <3>1. PICK k : k \in ActiveKeys(e)  BY <2>2
    <3>2. ActiveKeys(e) = {k}
      BY <3>1 DEF ActiveKeys, IndInv, ActiveKeysDiffer, Bound
    <3> QED  BY <3>2, FS_Singleton
  <2> QED  BY <2>1, <2>2
<1> QED  BY <1>1, Invariance, PTL

(* All that was stored with one key was stored for one endpoint.             *)
THEOREM KeyReportsForOneEndpoint == Spec => []KeyReportsForOne
<1>1. IndInv => KeyReportsForOne
  BY DEF IndInv, StoredWhereBound, KeyReportsForOne
<1> QED  BY <1>1, Invariance, PTL

(* An inventory is not stored once its key is revoked, whenever it was       *)
(* authenticated.                                                            *)
THEOREM RevokedKeyWritesNothing == Spec => RevokedWritesNothing
<1>1. TypeOK /\ [Next]_vars =>
        [\A p \in Posts :
           post[p].step # "stored" /\ post'[p].step = "stored" /\ post[p].by # Shared =>
             key[post[p].by].status = "ACTIVE"]_vars
  <2> SUFFICES ASSUME TypeOK, Next, NEW p \in Posts, post[p].step # "stored",
                      post'[p].step = "stored", post[p].by # Shared
               PROVE  key[post[p].by].status = "ACTIVE"
    BY DEF vars
  <2>1. \/ \E q \in Posts : \/ Authenticate(q) \/ Refuse(q)
                            \/ StoreKnown(q) \/ StoreNew(q) \/ StoreRepeated(q)
        \/ UNCHANGED post
    BY DEF Next, CreateKey, RevokeKey, LoadApprove, ScanKeys, CommitApprove, FailApprove,
       LoadReject, CommitReject, RequestReenrolment, Expire, LoadLink, CommitLink
  <2>2. PICK q \in Posts : \/ Authenticate(q) \/ Refuse(q)
                           \/ StoreKnown(q) \/ StoreNew(q) \/ StoreRepeated(q)
    BY <2>1
  <2>3. \A n \in Posts : post[n] \in PostState  BY DEF TypeOK
  <2>4. CASE Authenticate(q) \/ Refuse(q)
    <3>1. \E row \in PostState : row.step # "stored" /\ post' = [post EXCEPT ![q] = row]
      <4>1. CASE Authenticate(q)
        <5>1. PICK k \in Keys \cup {Shared}, ids \in SUBSET Ids :
                post' = [post EXCEPT ![q] = [@ EXCEPT !.step = "authenticated",
                                                      !.by = k, !.ids = ids]]
          BY <4>1 DEF Authenticate, Observable
        <5> DEFINE row == [post[q] EXCEPT !.step = "authenticated", !.by = k, !.ids = ids]
        <5>2. row \in PostState /\ row.step = "authenticated"  BY <2>3 DEF PostState
        <5>3. post' = [post EXCEPT ![q] = row]  BY <5>1
        <5> HIDE DEF row
        <5> QED  BY <5>2, <5>3
      <4>2. CASE Refuse(q)
        <5> DEFINE row == [post[q] EXCEPT !.step = "refused"]
        <5>1. row \in PostState /\ row.step = "refused"  BY <2>3 DEF PostState
        <5>2. post' = [post EXCEPT ![q] = row]  BY <4>2 DEF Refuse, TypeOK
        <5> HIDE DEF row
        <5> QED  BY <5>1, <5>2
      <4> QED  BY <2>4, <4>1, <4>2
    <3> QED  BY <3>1 DEF TypeOK
  <2>5. CASE StoreKnown(q) \/ StoreNew(q) \/ StoreRepeated(q)
    <3>1. \E S : Admitted(post[q].by, S)
      BY <2>5 DEF StoreKnown, StoreNew, StoreRepeated
    <3>2. q = p
      BY <2>5, <2>3 DEF StoreKnown, StoreNew, StoreRepeated, Accept, TypeOK
    <3> QED  BY <3>1, <3>2 DEF Admitted, StillActive
  <2> QED  BY <2>2, <2>4, <2>5
<1>2. Spec => []TypeOK  BY TypeCorrect
<1> QED  BY <1>1, <1>2, PTL DEF Spec, RevokedWritesNothing

(* A decision revokes a working key only together with issuing the next one. *)
THEOREM RotationsAreAtomic == Spec => RotationIsAtomic
<1>1. IndInv /\ [Next]_vars =>
        [\A e \in Endpoints :
           ActiveKeys(e) # {} /\ ActiveKeys(e)' = {} => decision' = decision]_vars
  <2> SUFFICES ASSUME IndInv, Next, NEW e \in Endpoints,
                      ActiveKeys(e) # {}, ActiveKeys(e)' = {}, decision' # decision
               PROVE  FALSE
    BY DEF vars
  <2>1. PICK k : k \in ActiveKeys(e)  OBVIOUS
  <2>2. k \in Keys /\ key[k].status = "ACTIVE" /\ key[k].endpoint = e
    BY SMTT(30), <2>1 DEF ActiveKeys
  <2>3. PICK a \in Admins : \/ LoadApprove(a) \/ ScanKeys(a) \/ CommitApprove(a)
                             \/ FailApprove(a) \/ LoadReject(a) \/ CommitReject(a)
    BY DEF Next, Authenticate, Refuse, StoreKnown, StoreNew, StoreRepeated,
       CreateKey, RevokeKey, RequestReenrolment, Expire, LoadLink, CommitLink
  <2>4. CASE UNCHANGED key
    BY <2>2, <2>4 DEF ActiveKeys
  <2>5. CASE CommitApprove(a)
    <3> DEFINE r == decision[a].request
               seen == decision[a].seen
    <3>1. PICK n \in Keys :
            /\ key[n].status = "free"
            /\ key' = [m \in Keys |->
                 IF m = n THEN [status |-> "ACTIVE", endpoint |-> request[r].endpoint,
                                org |-> request[r].org]
                 ELSE IF m \in seen THEN [key[m] EXCEPT !.status = "REVOKED"]
                 ELSE key[m]]
      BY <2>5 DEF CommitApprove
    <3>2. k \in seen
      BY <2>2, <3>1 DEF ActiveKeys
    <3>3. request[r].endpoint = e
      BY <2>2, <2>5, <3>2 DEF CommitApprove, IndInv, DecisionsKnown
    <3> QED  BY <3>1, <3>3 DEF ActiveKeys
  <2> QED
    BY <2>3, <2>4, <2>5 DEF LoadApprove, ScanKeys, FailApprove, LoadReject, CommitReject
<1> QED  BY <1>1, Invariance, PTL DEF Spec, RotationIsAtomic

-----------------------------------------------------------------------------
(* Organizations, when links do not overlap. *)

(* What TenantInv says of an endpoint stands as long as endpoints keep the  *)
(* organization they have, keys keep their row or get a matching one, and   *)
(* requests keep theirs.                                                    *)
LEMMA TenantKept ==
  ASSUME TenantInv, IndInv',
         \A f \in Endpoints : org[f] # None => org'[f] = org[f],
         \A k \in Keys : \/ key'[k].org = key[k].org /\ key'[k].endpoint = key[k].endpoint
                         \/ key'[k].org # NoOrg /\ key'[k].endpoint # None =>
                              org'[key'[k].endpoint] = key'[k].org,
         \A r \in Requests :
           \/ request'[r].org = request[r].org /\ request'[r].endpoint = request[r].endpoint
           \/ request'[r].org # NoOrg =>
                request'[r].endpoint # None /\ org'[request'[r].endpoint] = request'[r].org,
         UNCHANGED link
  PROVE  TenantInv'
<1>1. /\ \A k \in Keys : key[k] \in KeyRow
      /\ \A r \in Requests : request[r] \in RequestRow
      /\ \A l \in Linkers : link[l] \in Link
  BY DEF TenantInv, IndInv, TypeOK
<1>2. KeysStayInTenant'
  BY <1>1 DEF TenantInv, IndInv, KeysStayInTenant, RowsExist, Bound, KeyRow
<1>3. RequestsInTenant'
  BY <1>1 DEF TenantInv, IndInv, RequestsInTenant, RowsExist, RequestRow
<1>4. LinksFresh'
  <2>1. \A l \in Linkers : link[l].endpoint # None =>
          link[l].endpoint \in Endpoints /\ link[l].was # None
    BY <1>1 DEF Link, AnyOrg
  <2> QED  BY <2>1 DEF TenantInv, LinksFresh
<1> QED  BY <1>2, <1>3, <1>4 DEF TenantInv

LEMMA TenantStoreStep ==
  ASSUME TenantInv, IndInv', NEW p \in Posts,
         StoreKnown(p) \/ StoreNew(p) \/ StoreRepeated(p)
  PROVE  TenantInv'
<1> DEFINE b == post[p].by
<1>1. IndInv /\ TypeOK /\ post[p] \in PostState  BY DEF TenantInv, IndInv, TypeOK
<1>2. PICK e \in Endpoints :
        /\ Accept(p, e)
        /\ \A f \in Endpoints : org[f] # None => org'[f] = org[f]
        /\ b # Shared /\ key[b].org # NoOrg => org'[e] = key[b].org
  <2>1. CASE StoreKnown(p)
    BY <2>1 DEF StoreKnown, Admitted, InScope
  <2>2. CASE StoreNew(p)
    <3>1. PICK e \in Endpoints :
            /\ org[e] = None
            /\ org' = [org EXCEPT ![e] = IF b = Shared THEN NoOrg ELSE key[b].org]
            /\ Accept(p, e)
      BY <2>2 DEF StoreNew
    <3> QED  BY <1>1, <3>1 DEF TypeOK
  <2>3. CASE StoreRepeated(p)
    <3>1. PICK e \in StoredFor(p) : Admitted(b, {e}) /\ Accept(p, e)
      BY <2>3 DEF StoreRepeated
    <3>2. e \in Endpoints
      BY <1>1 DEF IndInv, TypeOK, PostState, StoredFor, RowsExist
    <3> QED  BY <2>3, <3>1, <3>2 DEF StoreRepeated, Admitted, InScope
  <2> QED  BY <2>1, <2>2, <2>3
<1>3. \A k \in Keys : /\ key'[k].org = key[k].org
                      /\ key'[k].endpoint = IF k = b THEN e ELSE key[k].endpoint
  BY <1>1, <1>2, AcceptEffect
<1>4. UNCHANGED <<request, link>>
  BY DEF StoreKnown, StoreNew, StoreRepeated
<1>5. \A k \in Keys : \/ key'[k].org = key[k].org /\ key'[k].endpoint = key[k].endpoint
                      \/ key'[k].org # NoOrg /\ key'[k].endpoint # None =>
                           org'[key'[k].endpoint] = key'[k].org
  BY <1>2, <1>3
<1> QED  BY <1>2, <1>4, <1>5, TenantKept

LEMMA TenantApproveStep ==
  ASSUME TenantInv, IndInv', NEW a \in Admins, CommitApprove(a)
  PROVE  TenantInv'
<1> DEFINE r == decision[a].request
<1>1. /\ decision[a].step = "scanned" /\ UNCHANGED <<org, link>>
      /\ IndInv /\ r \in Requests
  BY ZenonT(30) DEF CommitApprove, TenantInv, IndInv, TypeOK, Decision, DecisionsKnown
<1>2. PICK k \in Keys :
        /\ key' = [n \in Keys |->
             IF n = k THEN [status |-> "ACTIVE", endpoint |-> request[r].endpoint,
                            org |-> request[r].org]
             ELSE IF n \in decision[a].seen THEN [key[n] EXCEPT !.status = "REVOKED"]
             ELSE key[n]]
        /\ request' = [request EXCEPT ![r].status = "APPROVED", ![r].key = k]
  BY DEF CommitApprove
<1>3. \A n \in Keys : key[n] \in KeyRow  BY <1>1 DEF IndInv, TypeOK
<1>4. \A n \in Keys \ {k} : key'[n].org = key[n].org /\ key'[n].endpoint = key[n].endpoint
  BY <1>2, <1>3 DEF KeyRow
<1>5. key'[k].org = request[r].org /\ key'[k].endpoint = request[r].endpoint
  BY <1>2
<1>6. request[r].org # NoOrg => org[request[r].endpoint] = request[r].org
  BY <1>1 DEF TenantInv, RequestsInTenant
<1>7. \A s \in Requests : /\ request'[s].org = request[s].org
                          /\ request'[s].endpoint = request[s].endpoint
  BY <1>1, <1>2 DEF IndInv, TypeOK, RequestRow
<1> QED  BY <1>1, <1>4, <1>5, <1>6, <1>7, TenantKept

LEMMA TenantOtherStep ==
  ASSUME TenantInv, IndInv',
         \/ \E p \in Posts : Authenticate(p) \/ Refuse(p)
         \/ \E a \in Admins : \/ CreateKey(a) \/ RevokeKey(a)
                              \/ LoadApprove(a) \/ ScanKeys(a) \/ FailApprove(a)
                              \/ LoadReject(a) \/ CommitReject(a)
         \/ \E r \in Requests : RequestReenrolment(r) \/ Expire(r)
  PROVE  TenantInv'
<1>1. UNCHANGED <<org, link>>
  BY DEF Authenticate, Refuse, CreateKey, RevokeKey, LoadApprove, ScanKeys, FailApprove,
     LoadReject, CommitReject, RequestReenrolment, Expire
<1>2. /\ IndInv /\ \A k \in Keys : key[k] \in KeyRow
      /\ \A r \in Requests : request[r] \in RequestRow
  BY DEF TenantInv, IndInv, TypeOK
<1>3. \A k \in Keys : \/ key'[k].org = key[k].org /\ key'[k].endpoint = key[k].endpoint
                      \/ key'[k].org # NoOrg /\ key'[k].endpoint # None =>
                           org'[key'[k].endpoint] = key'[k].org
  <2>1. CASE \E a \in Admins : CreateKey(a)
    <3>1. PICK k \in Keys, o \in AnyOrg :
            key' = [key EXCEPT ![k] = [status |-> "ACTIVE", endpoint |-> None, org |-> o]]
      BY <2>1 DEF CreateKey
    <3> QED  BY <1>2, <3>1 DEF IndInv, TypeOK
  <2>2. CASE \E a \in Admins : RevokeKey(a)
    <3>1. PICK k \in Keys : key' = [key EXCEPT ![k].status = "REVOKED"]
      BY <2>2 DEF RevokeKey
    <3> QED  BY <1>2, <3>1 DEF IndInv, TypeOK, KeyRow
  <2>3. CASE UNCHANGED key  BY <2>3
  <2> QED
    BY <2>1, <2>2, <2>3 DEF Authenticate, Refuse, LoadApprove, ScanKeys, FailApprove,
       LoadReject, CommitReject, RequestReenrolment, Expire
<1>4. \A s \in Requests :
        \/ request'[s].org = request[s].org /\ request'[s].endpoint = request[s].endpoint
        \/ request'[s].org # NoOrg =>
             request'[s].endpoint # None /\ org'[request'[s].endpoint] = request'[s].org
  <2>1. CASE \E r \in Requests : RequestReenrolment(r)
    <3>1. PICK r \in Requests, i \in Strong :
            LET e == IF i \in active THEN owner[i] ELSE None
            IN  request' = [request EXCEPT ![r] =
                  [FreeRequest EXCEPT !.status = "PENDING", !.endpoint = e,
                                      !.org = IF e = None THEN NoOrg ELSE org[e]]]
      BY <2>1 DEF RequestReenrolment
    <3> DEFINE e == IF i \in active THEN owner[i] ELSE None
    <3>2. /\ request'[r].endpoint = e
          /\ request'[r].org = IF e = None THEN NoOrg ELSE org[e]
          /\ \A s \in Requests : s # r => request'[s] = request[s]
      BY <1>2, <3>1 DEF IndInv, TypeOK, FreeRequest
    <3> HIDE DEF e
    <3> QED  BY <1>1, <3>2
  <2>2. CASE \E r \in Requests : Expire(r)
    <3>1. PICK r \in Requests : request' = [request EXCEPT ![r].expired = TRUE]
      BY <2>2 DEF Expire
    <3> QED  BY <1>2, <3>1 DEF IndInv, TypeOK, RequestRow
  <2>3. CASE \E a \in Admins : CommitReject(a)
    <3>1. PICK a \in Admins :
            request' = [request EXCEPT ![decision[a].request].status = "REJECTED"]
      BY <2>3 DEF CommitReject
    <3> DEFINE r == decision[a].request
    <3>2. CASE r \in Requests
      BY <1>2, <3>1, <3>2 DEF IndInv, TypeOK, RequestRow
    <3>3. CASE r \notin Requests
      BY <1>2, <3>1, <3>3 DEF IndInv, TypeOK
    <3> QED  BY <3>2, <3>3
  <2>4. CASE UNCHANGED request  BY <2>4
  <2> QED
    BY <2>1, <2>2, <2>3, <2>4 DEF Authenticate, Refuse, CreateKey, RevokeKey, LoadApprove,
       ScanKeys, FailApprove, LoadReject
<1> QED  BY SMTT(30), <1>1, <1>3, <1>4, TenantKept

LEMMA TenantLinkStep ==
  ASSUME \A l, n \in Linkers : l = n,
         TenantInv, IndInv', NEW l \in Linkers, LoadLink(l) \/ CommitLink(l)
  PROVE  TenantInv'
<1>1. /\ TypeOK /\ IndInv /\ UNCHANGED <<key, owner, active, post, request, decision>>
  BY DEF TenantInv, IndInv, LoadLink, CommitLink
<1>2. CASE LoadLink(l)
  <2>1. PICK e \in Endpoints, o \in Orgs :
          link' = [link EXCEPT ![l] = [endpoint |-> e, org |-> o, was |-> org[e]]]
    BY <1>2 DEF LoadLink
  <2>2. org' = org  BY <1>2 DEF LoadLink
  <2>3. LinksFresh'
    BY <1>1, <2>1, <2>2 DEF LinksFresh, TypeOK
  <2> QED  BY <1>1, <2>2, <2>3 DEF TenantInv, KeysStayInTenant, RequestsInTenant
<1>3. CASE CommitLink(l)
  <2> DEFINE e == link[l].endpoint
  <2>1. /\ e # None
        /\ org' = IF link[l].was = NoOrg THEN [org EXCEPT ![e] = link[l].org] ELSE org
        /\ link' = [link EXCEPT ![l] = Unlinked]
    BY <1>3 DEF CommitLink
  <2>2. link[l].was = org[e] /\ e \in Endpoints
    BY <1>1, <2>1 DEF TenantInv, LinksFresh, TypeOK, Link
  <2>3. \A f \in Endpoints : org[f] # NoOrg => org'[f] = org[f]
    BY <1>1, <2>1, <2>2 DEF TypeOK
  <2>4. LinksFresh'
    BY <1>1, <2>1 DEF LinksFresh, TypeOK, Unlinked
  <2>5. KeysStayInTenant'
    <3>1. \A k \in Keys : key[k].endpoint \in Endpoints \cup {None}
      BY <1>1 DEF TypeOK, KeyRow
    <3> QED  BY <1>1, <2>3, <3>1 DEF TenantInv, KeysStayInTenant
  <2>6. RequestsInTenant'
    <3>1. \A r \in Requests : request[r].endpoint \in Endpoints \cup {None}
      BY <1>1 DEF TypeOK, RequestRow
    <3> QED  BY <1>1, <2>3, <3>1 DEF TenantInv, RequestsInTenant
  <2> QED  BY <2>4, <2>5, <2>6 DEF TenantInv
<1> QED  BY <1>2, <1>3

(* A key of an organization stays with endpoints of that organization, as    *)
(* long as no two links of endpoints overlap.                                *)
THEOREM TenantsAreKept ==
  ASSUME \A l, n \in Linkers : l = n
  PROVE  Spec => []KeysStayInTenant
<1>1. Init => KeysStayInTenant /\ RequestsInTenant /\ LinksFresh
  BY DEF Init, KeysStayInTenant, RequestsInTenant, LinksFresh, FreeKey, FreeRequest, Unlinked
<1>2. TenantInv /\ [Next]_vars /\ IndInv' => TenantInv'
  <2> SUFFICES ASSUME TenantInv, [Next]_vars, IndInv' PROVE TenantInv'  OBVIOUS
  <2>1. CASE UNCHANGED vars
    BY <2>1 DEF vars, TenantInv, KeysStayInTenant, RequestsInTenant, LinksFresh
  <2>2. CASE Next
    BY <2>2, TenantStoreStep, TenantApproveStep, TenantOtherStep, TenantLinkStep DEF Next
  <2> QED  BY <2>1, <2>2
<1>3. Spec => []IndInv  BY Invariance
<1>4. IndInv /\ KeysStayInTenant /\ RequestsInTenant /\ LinksFresh <=> TenantInv
  BY DEF TenantInv
<1> QED  BY <1>1, <1>2, <1>3, <1>4, PTL DEF Spec

=============================================================================
