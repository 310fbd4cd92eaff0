----------------------------- MODULE LotProfiles -----------------------------
(***************************************************************************)
(* The lots of an inventory row as one cumulative profile: u[e] is the     *)
(* number of units on hand in lots received at or before e.  Units leave a *)
(* row oldest lot first, which in a profile needs no loop.  FifoLots has   *)
(* the lots one by one, and checks these operators against the loop.       *)
(***************************************************************************)
EXTENDS Integers

CONSTANT LastEpoch   \* lots are dated received_at \in 1..LastEpoch

ASSUME EpochAssumption == LastEpoch \in Nat \ {0}

Epochs == 1..LastEpoch

Profile == [Epochs -> Nat]

LotsTotal(u) == u[LastEpoch]

\* A lot of q units received at e is added.
AddLot(u, e, q) == [f \in Epochs |-> IF f >= e THEN u[f] + q ELSE u[f]]

\* Variant: the loop stops at the first lot.
TakenFromFirst(u, q) == [e \in Epochs |-> IF u[1] > q THEN q ELSE u[1]]

\* Variant: child lots are dated when they are made.
TakenAsNew(u, q) ==
    [e \in Epochs |-> IF e < LastEpoch THEN 0 ELSE IF u[e] > q THEN q ELSE u[e]]

\* What stays of u, and what is taken from it, when q units leave.
KeptLots(u, q) == [e \in Epochs |-> IF u[e] > q THEN u[e] - q ELSE 0]
TakenLots(u, q) == [e \in Epochs |-> IF u[e] > q THEN q ELSE u[e]]

\* Child lots keep received_at, so profiles add up pointwise.
MergeLots(u, v) == [e \in Epochs |-> u[e] + v[e]]
=============================================================================
