--------------------------- MODULE MCNotification ---------------------------
(* Operations are only compared; liveness is checked, so without symmetry. *)
EXTENDS Notification

=============================================================================
