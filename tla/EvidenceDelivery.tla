-------------------------- MODULE EvidenceDelivery --------------------------
(* What the Windows agent promises about the hardware reports it captures    *)
(* (docs/features/agent-continuous-inventory.md, ADR-008), with no files,    *)
(* cycles, locks or retries: a captured report is held until the server has  *)
(* it or it is set aside for diagnosis, and reports reach the server in the  *)
(* order in which they were captured.  AgentQueue is shown to implement it.  *)
EXTENDS Naturals

CONSTANT Reports                    \* report numbers, in order of capture

VARIABLES captured,                 \* every report ever captured
          held,                     \* reports the agent still keeps to send
          delivered,                \* reports the server has received
          setAside                  \* reports kept for diagnosis, not sent

vars == <<captured, held, delivered, setAside>>

Init == captured = {} /\ held = {} /\ delivered = {} /\ setAside = {}

(* A new report, younger than every earlier one, is held.                    *)
Capture(r) ==
    /\ \A q \in captured : q < r
    /\ captured' = captured \cup {r}
    /\ held' = held \cup {r}
    /\ UNCHANGED <<delivered, setAside>>

(* The server receives the oldest report it does not have yet.  A late copy  *)
(* of a report that was set aside meanwhile may arrive out of order.         *)
Deliver(r) ==
    /\ \/ r \in held /\ \A q \in held : q < r => q \in delivered
       \/ r \in setAside
    /\ delivered' = delivered \cup {r}
    /\ UNCHANGED <<captured, held, setAside>>

(* Only a report the server has may be forgotten.                            *)
Release(r) ==
    /\ r \in held \cap delivered
    /\ held' = held \ {r}
    /\ UNCHANGED <<captured, delivered, setAside>>

SetAside(r) ==
    /\ r \in held
    /\ held' = held \ {r}
    /\ setAside' = setAside \cup {r}
    /\ UNCHANGED <<captured, delivered>>

Next == \E r \in Reports : Capture(r) \/ Deliver(r) \/ Release(r) \/ SetAside(r)

Spec == Init /\ [][Next]_vars
=============================================================================
