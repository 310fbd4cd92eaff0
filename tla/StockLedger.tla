----------------------------- MODULE StockLedger -----------------------------
(***************************************************************************)
(* What the inventory operations promise to whoever calls them: each is    *)
(* one indivisible entry in a ledger of units on hand and units held, and  *)
(* it is made only if enough units are free at that instant.               *)
(* InventoryService, where a request reads, checks and writes in different *)
(* steps, implements it.                                                   *)
(***************************************************************************)
EXTENDS Integers

CONSTANTS Products, Locations, Quantities

VARIABLES
    onHand,    \* units of a product at a location
    held,      \* those of them that are promised
    received,  \* units of a product ever received
    sold       \* units of a product ever sold

vars == <<onHand, held, received, sold>>

Free(p, l) == onHand[<<p, l>>] - held[<<p, l>>]

Init ==
    /\ onHand = [r \in Products \X Locations |-> 0]
    /\ held = [r \in Products \X Locations |-> 0]
    /\ received = [p \in Products |-> 0]
    /\ sold = [p \in Products |-> 0]

Receive(p, l, q) ==
    /\ onHand' = [onHand EXCEPT ![<<p, l>>] = @ + q]
    /\ received' = [received EXCEPT ![p] = @ + q]
    /\ UNCHANGED <<held, sold>>

Sell(p, l, q) ==
    /\ Free(p, l) >= q
    /\ onHand' = [onHand EXCEPT ![<<p, l>>] = @ - q]
    /\ sold' = [sold EXCEPT ![p] = @ + q]
    /\ UNCHANGED <<held, received>>

Transfer(p, from, to, q) ==
    /\ from # to
    /\ Free(p, from) >= q
    /\ onHand' = [onHand EXCEPT ![<<p, from>>] = @ - q, ![<<p, to>>] = @ + q]
    /\ UNCHANGED <<held, received, sold>>

Hold(p, l, q) ==
    /\ Free(p, l) >= q
    /\ held' = [held EXCEPT ![<<p, l>>] = @ + q]
    /\ UNCHANGED <<onHand, received, sold>>

Unhold(p, l, q) ==
    /\ held[<<p, l>>] >= q
    /\ held' = [held EXCEPT ![<<p, l>>] = @ - q]
    /\ UNCHANGED <<onHand, received, sold>>

Next ==
    \E p \in Products, l \in Locations, q \in Quantities :
        \/ Receive(p, l, q)
        \/ Sell(p, l, q)
        \/ \E to \in Locations : Transfer(p, l, to, q)
        \/ Hold(p, l, q)
        \/ Unhold(p, l, q)

Spec == Init /\ [][Next]_vars
=============================================================================
