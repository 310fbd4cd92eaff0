------------------------- MODULE MCInventoryService -------------------------
(* InventoryService for TLC: requests, reservations and locations are       *)
(* interchangeable.                                                         *)
EXTENDS InventoryService, TLC

Symmetry == Permutations(Requests) \cup Permutations(Reservations) \cup Permutations(Locations)
=============================================================================
