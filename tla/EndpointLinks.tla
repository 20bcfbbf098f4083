---------------------------- MODULE EndpointLinks ----------------------------
(***************************************************************************)
(* Linking reporting computers to assets of the register: a request reads  *)
(* the endpoint, then the endpoints linked to the asset, and commits all   *)
(* changes at once.  Nothing is locked, no index keeps an asset to one     *)
(* endpoint, and a session writes only columns it changed.                 *)
(***************************************************************************)
EXTENDS Naturals, Sequences

CONSTANTS
  Endpoints,   \* rows of managed_endpoints
  Assets,      \* individually tracked IT assets of one organization
  NoAsset,
  Linkers,     \* administrators' requests
  MaxLinks     \* bound: links committed

ASSUME LinkAssumption == NoAsset \notin Assets /\ MaxLinks \in Nat

VARIABLES
  link,        \* per endpoint: asset_id
  linking,     \* per request: what it loaded
  linked       \* the links in commit order: what each named and unlinked, and
               \* how many there were when its request began to read

linkVars == <<link, linking, linked>>

NotLinking == [step |-> "idle", endpoint |-> NoAsset, asset |-> NoAsset,
               was |-> NoAsset, priors |-> {}, since |-> 0]

LinkInit ==
  /\ link = [e \in Endpoints |-> NoAsset]
  /\ linking = [l \in Linkers |-> NotLinking]
  /\ linked = <<>>

LoadEndpoint(l) ==
  /\ linking[l].step = "idle"
  /\ Len(linked) < MaxLinks
  /\ \E e \in Endpoints, a \in Assets :
       linking' = [linking EXCEPT ![l] =
         [step |-> "endpoint", endpoint |-> e, asset |-> a, was |-> link[e],
          priors |-> {}, since |-> Len(linked)]]
  /\ UNCHANGED <<link, linked>>

\* Mutant: only an endpoint that is not linked yet unlinks the others.
PriorsOfNew(w) ==
  IF w.was = NoAsset THEN {e \in Endpoints \ {w.endpoint} : link[e] = w.asset} ELSE {}

PriorsOf(w) == {e \in Endpoints \ {w.endpoint} : link[e] = w.asset}

LoadPriors(l) ==
  /\ linking[l].step = "endpoint"
  /\ linking' = [linking EXCEPT ![l].step = "priors", ![l].priors = PriorsOf(linking[l])]
  /\ UNCHANGED <<link, linked>>

CommitLink(l) ==
  LET w == linking[l]
  IN  /\ w.step = "priors"
      /\ Len(linked) < MaxLinks
      /\ link' = [e \in Endpoints |->
                    IF e = w.endpoint /\ w.was # w.asset THEN w.asset
                    ELSE IF e \in w.priors THEN NoAsset ELSE link[e]]
      /\ linking' = [linking EXCEPT ![l] = NotLinking]
      /\ linked' = Append(linked, [endpoint |-> w.endpoint, asset |-> w.asset,
                                   priors |-> w.priors, since |-> w.since])

LinkNext == \E l \in Linkers : LoadEndpoint(l) \/ LoadPriors(l) \/ CommitLink(l)

LinkSpec == LinkInit /\ [][LinkNext]_linkVars

-----------------------------------------------------------------------------
(* Properties *)

LinkTypeOK ==
  /\ link \in [Endpoints -> Assets \cup {NoAsset}]
  /\ linking \in
       [Linkers -> [step : {"idle", "endpoint", "priors"},
                    endpoint : Endpoints \cup {NoAsset}, asset : Assets \cup {NoAsset},
                    was : Assets \cup {NoAsset}, priors : SUBSET Endpoints,
                    since : Nat]]
  /\ linked \in Seq([endpoint : Endpoints, asset : Assets, priors : SUBSET Endpoints,
                     since : Nat])
  /\ \A l \in Linkers : linking[l].since \in 0..Len(linked)

Links == 1..Len(linked)

\* The link j asks of endpoint e, one it names or unlinks; 0 stands for the
\* state before the first.
Concerns(j, e) == j # 0 => e = linked[j].endpoint \/ e \in linked[j].priors
LinkBy(j, e) == IF j # 0 /\ e = linked[j].endpoint THEN linked[j].asset ELSE NoAsset

\* A request for this endpoint and asset wants another link of e than a.
Disputes(endpoint, asset, e, a) == IF e = endpoint THEN a # asset ELSE a = asset

\* The later links that want another one are of requests that had begun to
\* read before j was committed.
Undisputed(j, e) ==
  \A k \in Links :
    j < k /\ Disputes(linked[k].endpoint, linked[k].asset, e, link[e]) => linked[k].since < j

\* Overlapping requests can leave two endpoints on one asset, or none, and each
\* page shows another computer.  However they overlap, every endpoint is linked
\* as a request asked that no later one against it had seen.  So two endpoints
\* share an asset only if their requests overlapped, and a request by itself
\* leaves the asset with the endpoint it names alone, whatever it found
\* (admin_assets.py:1010-1053).
LinksStand ==
  \A e \in Endpoints : \E j \in {0} \cup Links :
    Concerns(j, e) /\ link[e] = LinkBy(j, e) /\ Undisputed(j, e)

\* What every step keeps: a request that is to leave a link it disputes has
\* read the endpoint, or looked for prior ones, before that link.
Spares(w, e) ==
  /\ w.step # "idle" /\ Disputes(w.endpoint, w.asset, e, link[e])
  /\ IF e = w.endpoint THEN w.was # link[e] ELSE w.step = "priors" /\ e \notin w.priors

LinksHeld ==
  \A e \in Endpoints : \E j \in {0} \cup Links :
    /\ Concerns(j, e) /\ link[e] = LinkBy(j, e) /\ Undisputed(j, e)
    /\ \A l \in Linkers : Spares(linking[l], e) => linking[l].since < j

\* What a request names are an endpoint and an asset, and the endpoint is not
\* one of those it unlinks.
RequestsSound ==
  \A l \in Linkers :
    linking[l].step # "idle" => /\ linking[l].endpoint \in Endpoints
                                /\ linking[l].asset \in Assets
                                /\ linking[l].endpoint \notin linking[l].priors

LinkInv == LinkTypeOK /\ RequestsSound /\ LinksHeld

=============================================================================
