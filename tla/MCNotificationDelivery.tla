---- MODULE MCNotificationDelivery ----
(* Instances of NotificationDelivery for TLC.  The run checks liveness, so   *)
(* it declares no symmetry.                                                  *)
EXTENDS NotificationDelivery, TLC

====
