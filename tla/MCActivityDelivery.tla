------------------------- MODULE MCActivityDelivery -------------------------
(* Small instances of ActivityDelivery for TLC. *)
EXTENDS ActivityDelivery

CONSTANTS p1, p2, none
=============================================================================
