------------------------- MODULE MCNotificationHub -------------------------
(***************************************************************************)
(* Instances of NotificationHub for TLC.                                   *)
(***************************************************************************)
EXTENDS NotificationHub

CONSTANTS c1, c2, n1, n2

=============================================================================
