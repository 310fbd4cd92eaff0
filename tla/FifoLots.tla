------------------------------ MODULE FifoLots ------------------------------
(***************************************************************************)
(* The loops of transferStockBetweenLocations and sellStock over the lots  *)
(* of an inventory row, one iteration a step, for one product.  One        *)
(* operation runs at a time: what overlaps in time is serialised by the    *)
(* conditional update of the aggregate row (InventoryService).             *)
(***************************************************************************)
EXTENDS LotProfiles, Sequences, Functions

CONSTANTS
    Locations,
    Quantities,
    MaxLots      \* bound of the model: rows of InventoryLot ever created

ASSUME LotBounds == Quantities \subseteq Nat \ {0} /\ MaxLots \in Nat

VARIABLES
    table,   \* InventoryLot rows in the order of created_at
    sold,    \* units sold out of each lot
    job      \* the operation in progress and its loop variables

vars == <<table, sold, job>>

NoJob == [op |-> "none"]
NoParent == 0

Lot ==
    [location : Locations, received : Epochs, quantityReceived : Nat,
     onHand : Nat, parent : 0..MaxLots]

\* Variant: by created_at only.
BeforeAsCreated(t, i, j) == i < j

\* The order of the query: by received_at, then by created_at.
Before(t, i, j) == t[i].received < t[j].received \/ (t[i].received = t[j].received /\ i < j)

First(t, S) == CHOOSE i \in S : \A j \in S \ {i} : Before(t, i, j)

\* Variant: child lots are left out.
QueueOfReceipts(t, l) == {i \in DOMAIN t : t[i].location = l /\ t[i].onHand > 0 /\ t[i].parent = NoParent}

\* The lots the query returns: those with units left.  The loop takes the
\* first of those it has not come to.
Queue(t, l) == {i \in DOMAIN t : t[i].location = l /\ t[i].onHand > 0}

UnitsIn(t, S) == SumFunctionOnSet([i \in DOMAIN t |-> t[i].onHand], S)

OnHandAt(t, l) == UnitsIn(t, {i \in DOMAIN t : t[i].location = l})

Init ==
    /\ table = <<>>
    /\ sold = <<>>
    /\ job = NoJob

Receive(l, e, q) ==
    /\ job = NoJob
    /\ Len(table) < MaxLots
    /\ table' = Append(table, [location |-> l, received |-> e, quantityReceived |-> q,
                               onHand |-> q, parent |-> NoParent])
    /\ sold' = Append(sold, 0)
    /\ UNCHANGED job

\* The aggregate row, which equals the lots, has been checked.
Start(op, from, to, q) ==
    /\ job = NoJob
    /\ op = "transfer" <=> from # to
    /\ OnHandAt(table, from) >= q
    /\ job' = [op |-> op, from |-> from, to |-> to, quantity |-> q, remaining |-> q,
               queue |-> Queue(table, from), before |-> table]
    /\ UNCHANGED <<table, sold>>

\* Variant: the child takes the parent of its parent.
ChildLotOfParent(i, to, units) ==
    [table[i] EXCEPT !.location = to, !.quantityReceived = units, !.onHand = units]

\* The lot at the destination keeps received_at and names where it came from.
ChildLot(i, to, units) ==
    [table[i] EXCEPT !.location = to, !.quantityReceived = units, !.onHand = units, !.parent = i]

\* Lot.quantity_reserved is never written: a lot is available as a whole.
TakeFromLot ==
    LET i == First(table, job.queue)
        lot == table[i]
        taken == IF lot.onHand < job.remaining THEN lot.onHand ELSE job.remaining
        less == [table EXCEPT ![i].onHand = @ - taken]
    IN  /\ job # NoJob
        /\ job.remaining > 0
        /\ job.queue # {}
        /\ IF job.op = "transfer"
             THEN /\ Len(table) < MaxLots
                  /\ table' = Append(less, ChildLot(i, job.to, taken))
                  /\ sold' = Append(sold, 0)
             ELSE /\ table' = less
                  /\ sold' = [sold EXCEPT ![i] = @ + taken]
        /\ job' = [job EXCEPT !.remaining = @ - taken, !.queue = @ \ {i}]

Finish ==
    /\ job # NoJob
    /\ job.remaining = 0
    /\ job' = NoJob
    /\ UNCHANGED <<table, sold>>

Next ==
    \/ \E l \in Locations, q \in Quantities :
           \/ \E e \in Epochs : Receive(l, e, q)
           \/ \E to \in Locations, op \in {"transfer", "sell"} : Start(op, l, to, q)
    \/ TakeFromLot
    \/ Finish

Spec == Init /\ [][Next]_vars

-----------------------------------------------------------------------------
(* Correctness *)

TypeOK ==
    /\ table \in Seq(Lot)
    /\ Len(sold) = Len(table)
    /\ \A i \in DOMAIN sold : sold[i] \in Nat

ProfileOf(t, l) ==
    [e \in Epochs |-> UnitsIn(t, {i \in DOMAIN t : t[i].location = l /\ t[i].received <= e})]

\* The loop never runs out of lots with units still to take, and when it has none
\* left to take it has done to the lots of both locations what the profile
\* operators say: oldest units first, ages kept.
LoopIsProfile ==
    job # NoJob /\ (job.remaining = 0 \/ job.queue = {}) =>
        LET u == ProfileOf(job.before, job.from)
            v == ProfileOf(job.before, job.to)
        IN  /\ job.remaining = 0
            /\ ProfileOf(table, job.from) = KeptLots(u, job.quantity)
            /\ job.op = "transfer" =>
                   ProfileOf(table, job.to) = MergeLots(v, TakenLots(u, job.quantity))

Roots(t) == {i \in DOMAIN t : t[i].parent = NoParent}

\* The receipt a lot descends from, by parent_lot_id.
RootOf(t, i) ==
    LET root[j \in DOMAIN t] == IF t[j].parent = NoParent THEN j ELSE root[t[j].parent]
    IN  root[i]

Family(t, r) == {i \in DOMAIN t : RootOf(t, i) = r}

\* Lineage accounts for every unit: what a receipt brought in is on hand in
\* its descendants, all of its date, or was sold out of one of them.
LineageAccounts ==
    \A r \in Roots(table) :
        /\ table[r].quantityReceived =
               UnitsIn(table, Family(table, r)) + SumFunctionOnSet(sold, Family(table, r))
        /\ \A i \in Family(table, r) : table[i].received = table[r].received

\* No younger lot is drawn from while an older one of the location has units.
OldestFirst ==
    [][\A i, j \in DOMAIN table :
          table'[j].onHand < table[j].onHand
          /\ table[i].location = table[j].location
          /\ table[i].received < table[j].received => table[i].onHand = 0]_vars
=============================================================================
