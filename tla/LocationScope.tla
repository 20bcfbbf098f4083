---------------------------- MODULE LocationScope ----------------------------
(***************************************************************************)
(* Who sees what: users hold grants on buildings, floors and rooms, assets *)
(* stand in rooms, computers are linked to assets.  Every resource is      *)
(* served twice, in a list narrowed by a query and on its own page after a *)
(* check in Python, and the two are written separately for each kind.      *)
(* Administrators change grants, places and links in between requests.     *)
(***************************************************************************)
EXTENDS Naturals, FiniteSets

CONSTANTS
  Users,       \* user accounts
  UserOrg,     \* per user: its organization, or NoOrg
  Rooms, Floors, Buildings,
  FloorOf,     \* per room
  BuildingOf,  \* per floor
  OrgOf,       \* per building: its organization
  Items,       \* assets
  ItemOrg,     \* per asset: its organization
  Devices,     \* endpoints
  NoOrg,
  NoPlace,     \* no room, asset or endpoint
  MaxGrants    \* bound: grants at a time

\* A place is on one level, in one place above it.
ASSUME ScopeAssumption ==
  /\ FloorOf \in [Rooms -> Floors] /\ BuildingOf \in [Floors -> Buildings]
  /\ Rooms \cap Floors = {} /\ Rooms \cap Buildings = {} /\ Floors \cap Buildings = {}
  /\ NoPlace \notin Users \cup Rooms \cup Items \cup Devices
  /\ \A b \in Buildings : OrgOf[b] # NoOrg
  /\ \A i \in Items : ItemOrg[i] # NoOrg

VARIABLES
  role,        \* per user; the two other roles are limited as VIEWER is
  grant,       \* per user and place: the permission, or "none"
  room,        \* per asset: the room it stands in, or NoPlace
  asset,       \* per endpoint: the asset it is linked to, or NoPlace
  deviceOrg,   \* per endpoint: its organization, or NoOrg
  raw          \* the endpoint an inventory was ascribed to, or NoPlace

scopeVars == <<role, grant, room, asset, deviceOrg, raw>>

Places == Rooms \cup Floors \cup Buildings

\* Requests of users and of the holders of the two shared secrets.
Principals ==
  {[user |-> u, role |-> role[u], org |-> UserOrg[u]] : u \in Users} \cup
  {[user |-> NoPlace, role |-> r, org |-> NoOrg] : r \in {"ADMIN", "VIEWER"}}

ScopeInit ==
  /\ role \in [Users -> {"ADMIN", "VIEWER"}]
  /\ grant = [u \in Users |-> [p \in Places |-> "none"]]
  /\ room = [i \in Items |-> NoPlace]
  /\ asset = [d \in Devices |-> NoPlace]
  /\ deviceOrg = [d \in Devices |-> NoOrg]
  /\ raw = NoPlace

-----------------------------------------------------------------------------
(* The rooms a principal may enter. *)

\* Mutant: a floor's grant is looked up among the buildings.
RoomsOfGrant(p) == IF p \in Rooms THEN {p} ELSE {r \in Rooms : BuildingOf[FloorOf[r]] = p}

RoomsUnder(p) ==
  IF p \in Rooms THEN {p}
  ELSE IF p \in Floors THEN {r \in Rooms : FloorOf[r] = p}
  ELSE {r \in Rooms : FloorOf[r] \in {f \in Floors : BuildingOf[f] = p}}

Everywhere(p) == p.role = "ADMIN" \/ p.user = NoPlace

PermittedRooms(p, permissions) ==
  UNION {RoomsUnder(s) : s \in {t \in Places : grant[p.user][t] \in permissions}}

Reading == {"VIEWER", "EDITOR"}

\* require_room_access for reading and for writing.
Enters(p, r) == Everywhere(p) \/ (r # NoPlace /\ r \in PermittedRooms(p, Reading))
Edits(p, r) ==
  /\ p.role = "ADMIN" \/ p.user # NoPlace
  /\ Everywhere(p) \/ (r # NoPlace /\ r \in PermittedRooms(p, {"EDITOR"}))

SameOrg(p, o) == p.org = NoOrg \/ p.org = o

-----------------------------------------------------------------------------
(* Pages of single resources. *)

RoomOrg(r) == OrgOf[BuildingOf[FloorOf[r]]]

OpensRoom(p, r) == SameOrg(p, RoomOrg(r)) /\ Enters(p, r)
OpensAsset(p, i) == SameOrg(p, ItemOrg[i]) /\ Enters(p, room[i])

\* Mutant: an endpoint without an asset is open to everyone.
OpensUnlinked(p, d) ==
  SameOrg(p, deviceOrg[d]) /\ (asset[d] # NoPlace => Enters(p, room[asset[d]]))

\* scoped_endpoint
OpensDevice(p, d) ==
  /\ SameOrg(p, deviceOrg[d])
  /\ IF asset[d] # NoPlace THEN Enters(p, room[asset[d]]) ELSE Everywhere(p)

\* An inventory without an endpoint is open to all principals without an
\* organization.
OpensRaw(p) == IF raw = NoPlace THEN p.org = NoOrg ELSE OpensDevice(p, raw)

-----------------------------------------------------------------------------
(* Lists. *)

ListedAssets(p) ==
  {i \in Items : SameOrg(p, ItemOrg[i])
                 /\ (Everywhere(p) \/ room[i] \in PermittedRooms(p, Reading))}

\* The outer join gives an endpoint without an asset no room.
ListedDevices(p) ==
  {d \in Devices :
     /\ SameOrg(p, deviceOrg[d])
     /\ Everywhere(p) \/ (asset[d] # NoPlace
                          /\ room[asset[d]] \in PermittedRooms(p, Reading))}

\* Changes, incidents and inventories are narrowed to those of endpoints whose
\* asset stands in a permitted room.
ScopedDevices(p) ==
  LET entered == {i \in Items : room[i] \in PermittedRooms(p, Reading)}
  IN  {d \in Devices : SameOrg(p, deviceOrg[d]) /\ (Everywhere(p) \/ asset[d] \in entered)}

ListsRaw(p) ==
  IF raw = NoPlace THEN p.org = NoOrg /\ Everywhere(p) ELSE raw \in ScopedDevices(p)

\* The tree and the list of physical incidents.
ListedRooms(p) ==
  {r \in Rooms : SameOrg(p, RoomOrg(r)) /\ (Everywhere(p) \/ r \in PermittedRooms(p, Reading))}

-----------------------------------------------------------------------------
(* What administrators change. *)

PlaceOrg(s) ==
  IF s \in Rooms THEN RoomOrg(s) ELSE IF s \in Floors THEN OrgOf[BuildingOf[s]] ELSE OrgOf[s]

Granted == {g \in Users \X Places : grant[g[1]][g[2]] # "none"}

MayGrant(u, s) == UserOrg[u] \in {NoOrg, PlaceOrg(s)}

\* A row per user and place is inserted, changed or deleted.
SetGrant(u, s, permission) ==
  /\ permission # "none" =>
       MayGrant(u, s) /\ Cardinality(Granted \ {<<u, s>>}) < MaxGrants
  /\ grant' = [grant EXCEPT ![u][s] = permission]
  /\ UNCHANGED <<role, room, asset, deviceOrg, raw>>

SetRole(u, r) ==
  /\ role' = [role EXCEPT ![u] = r]
  /\ UNCHANGED <<grant, room, asset, deviceOrg, raw>>

PlaceAsset(i, r) ==
  /\ r # NoPlace => RoomOrg(r) = ItemOrg[i]
  /\ room' = [room EXCEPT ![i] = r]
  /\ UNCHANGED <<role, grant, asset, deviceOrg, raw>>

\* A global endpoint takes the organization of its first asset.
LinkDevice(d, i) ==
  /\ deviceOrg[d] \in {NoOrg, ItemOrg[i]}
  /\ asset' = [e \in Devices |-> IF e = d THEN i
                                 ELSE IF asset[e] = i THEN NoPlace ELSE asset[e]]
  /\ deviceOrg' = [deviceOrg EXCEPT ![d] = ItemOrg[i]]
  /\ UNCHANGED <<role, grant, room, raw>>

AscribeRaw(d) ==
  /\ raw = NoPlace
  /\ raw' = d
  /\ UNCHANGED <<role, grant, room, asset, deviceOrg>>

ScopeNext ==
  \/ \E u \in Users : \/ \E s \in Places, p \in Reading \cup {"none"} : SetGrant(u, s, p)
                      \/ \E r \in {"ADMIN", "VIEWER"} : SetRole(u, r)
  \/ \E i \in Items : \/ \E r \in Rooms \cup {NoPlace} : PlaceAsset(i, r)
                      \/ \E d \in Devices : LinkDevice(d, i)
  \/ \E d \in Devices : AscribeRaw(d)

ScopeSpec == ScopeInit /\ [][ScopeNext]_scopeVars

-----------------------------------------------------------------------------
(* Properties *)

ScopeTypeOK ==
  /\ role \in [Users -> {"ADMIN", "VIEWER"}]
  /\ grant \in [Users -> [Places -> Reading \cup {"none"}]]
  /\ room \in [Items -> Rooms \cup {NoPlace}]
  /\ asset \in [Devices -> Items \cup {NoPlace}]
  /\ deviceOrg \in [Devices -> {ItemOrg[i] : i \in Items} \cup {NoOrg}]
  /\ raw \in Devices \cup {NoPlace}

\* Whatever is granted, placed and linked, a list shows a principal just what
\* he can open: no dead links, nothing that is reached by its address alone
\* (admin_assets.py:112-117, 279-347, 957-1007, admin_workflows.py:48-53,
\* resource_scope.py:14-30, admin_inventories.py:45-71, admin_locations.py).
\* An inventory of no endpoint is the exception: a limited user without an
\* organization opens it by its address and is not shown it.
ListsMatchPages ==
  \A p \in Principals :
    /\ ListedAssets(p) = {i \in Items : OpensAsset(p, i)}
    /\ ListedDevices(p) = {d \in Devices : OpensDevice(p, d)}
    /\ ScopedDevices(p) = ListedDevices(p)
    /\ ListedRooms(p) = {r \in Rooms : OpensRoom(p, r)}
    /\ ListsRaw(p) => OpensRaw(p)
    /\ OpensRaw(p) /\ raw # NoPlace => ListsRaw(p)

\* A limited user reads or edits a room only through a grant on the room, its
\* floor or its building, never on a place of another organization, and who
\* edits a room also reads it.
GrantsReachDown ==
  \A p \in Principals : p.role # "ADMIN" /\ p.user # NoPlace =>
    \A r \in Rooms :
      LET above == {r, FloorOf[r], BuildingOf[FloorOf[r]]}
      IN  /\ OpensRoom(p, r) <=>
               \E s \in above : grant[p.user][s] # "none"
          /\ Edits(p, r) <=> \E s \in above : grant[p.user][s] = "EDITOR"

\* Grants name places of the user's own organization.
GrantsAtHome ==
  \A u \in Users, s \in Places : grant[u][s] # "none" => UserOrg[u] \in {NoOrg, PlaceOrg(s)}

ScopeInv == ScopeTypeOK /\ GrantsAtHome

=============================================================================
