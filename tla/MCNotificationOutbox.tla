------------------------ MODULE MCNotificationOutbox ------------------------
(* Instances of NotificationOutbox for TLC.                                *)
EXTENDS NotificationOutbox, TLC

Symmetry == Permutations(Workers)
=============================================================================
