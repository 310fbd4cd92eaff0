--------------------------- MODULE MCPurchaseOrders ---------------------------
(* PurchaseOrders for TLC: the slots of requests are interchangeable, and so *)
(* are the lines of the order, whose products and locations are chosen.      *)
EXTENDS PurchaseOrders, TLC

Symmetry == Permutations(Requests) \cup Permutations(Clerks) \cup Permutations(Lines)
=============================================================================
