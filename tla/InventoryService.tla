-------------------------- MODULE InventoryService --------------------------
(***************************************************************************)
(* The stock ledger of LeanStock: src/services/inventoryService.js over    *)
(* PostgreSQL, with the location and warehouse updates that race with it.  *)
(*                                                                         *)
(* A request is a transaction.  Its Begin action makes the reads and the   *)
(* checks on them; its Commit action evaluates the WHERE clauses of the    *)
(* conditional updates and makes all the writes.  The writes are one step  *)
(* because row locks (READ COMMITTED) or the snapshot (Serializable) hide  *)
(* them from every other transaction until the commit.  A transaction that *)
(* fails for any reason rolls back: Abort.                                 *)
(*                                                                         *)
(* Redis locks are left out on purpose: acquireLock returns a token when   *)
(* the key is already held (module RedisLock), so a lock orders nothing,   *)
(* and what is shown here is shown without it.                             *)
(***************************************************************************)
EXTENDS Integers, FiniteSetsExt, LotProfiles

CONSTANTS
    Products,
    Warehouses,
    Locations,
    Requests,        \* requests and worker jobs in flight at the same time
    Reservations,    \* ids of InventoryReservation rows
    None,            \* an absent reservation id
    Quantities,      \* quantities a request body may carry
    Capacities,      \* values of Location.capacity_units
    PatchedVolumes,  \* values of current_volume a location PATCH may carry
    MaxIncoming      \* bound of the model: units ever received of a product

ASSUME QuantitiesAssumption == Quantities \subseteq Nat \ {0}
ASSUME CapacitiesAssumption == Capacities \subseteq Nat
ASSUME PatchedVolumesAssumption == PatchedVolumes \subseteq Nat
ASSUME BoundAssumption == MaxIncoming \in Nat
ASSUME NoneAssumption == None \notin Reservations
ASSUME TablesAssumption == \A T \in {Products, Locations, Reservations} : IsFiniteSet(T)

VARIABLES
    inv,          \* Inventory rows; an absent row is a row of zeros
    lots,         \* lots[<<p, l>>][e]: units in lots of p at l with received_at <= e
    volume,       \* Location.current_volume
    capacity,     \* Location.capacity_units
    home,         \* Location.warehouse_id
    warehouse,    \* Warehouse.status and is_hidden
    reservation,  \* InventoryReservation rows
    incoming,     \* quantities of the INCOMING movements of a product, summed
    sold,         \* Product.sold_count
    call,         \* the request a slot is serving
    seen,         \* what its transaction has read and will use at the commit
    stale         \* a row it will write was written since its snapshot

stock == <<inv, lots, volume, incoming, sold>>
places == <<capacity, home, warehouse>>
requests == <<call, seen, stale>>
vars == <<stock, places, reservation, requests>>

-----------------------------------------------------------------------------
(* Data *)

\* Inventory is unique by product_id and location_id.
Rows == Products \X Locations
InventoryRecord == [onHand : Nat, reserved : Nat]

Status == {"ACTIVE", "CLOSED", "HIDDEN"}

Reservation ==
    [status : {"ACTIVE", "RELEASED", "EXPIRED"}, product : Products,
     location : Locations, quantity : Quantities]

NoReservation == [status |-> "NONE"]

Serializable == {"transfer", "sell"}
Operations == Serializable \cup {"receive", "reserve", "release", "expire"}

Call ==
    [op : Operations, product : Products, from : Locations, to : Locations,
     quantity : Quantities, id : Reservations \cup {None}]

NoCall == [op |-> "none"]

\* row: the inventory row at "from"; capacity: that of "to"; found: the
\* ACTIVE reservation has been read, its quantity is in the call.
Seen == [row : InventoryRecord, capacity : Nat, found : BOOLEAN]

NothingSeen == [row |-> [onHand |-> 0, reserved |-> 0], capacity |-> 0, found |-> FALSE]

\* Variant: reserved units are on hand too.
AvailableOnHand(row) == row.onHand

Available(row) == row.onHand - row.reserved

\* assertOperationalLocation, and the scope of reserve and release.
Operational(l) == warehouse[home[l]] = "ACTIVE"
Visible(l) == warehouse[home[l]] # "HIDDEN"

-----------------------------------------------------------------------------
(* Transactions *)

InventoryRow(p, l) == <<"Inventory", p, l>>
LocationRow(l) == <<"Location", l>>
ProductRow(p) == <<"Product", p>>

\* The rows the transaction of a call updates.  Lot rows are left out: who
\* updates a lot updates the inventory row it belongs to.
Writes(k) ==
    LET source == InventoryRow(k.product, k.from)
    IN  CASE k.op = "transfer" ->
                 {source, InventoryRow(k.product, k.to), LocationRow(k.from), LocationRow(k.to)}
          [] k.op = "receive" -> {source, LocationRow(k.to)}
          [] k.op = "sell" -> {source, LocationRow(k.from), ProductRow(k.product)}
          [] OTHER -> {source}

\* Variant: every transaction at the default isolation level.
InvalidatedNone(rows) == {}

\* The open Serializable transactions that would update one of rows: once
\* another has, PostgreSQL lets none of them commit (first updater wins).
Invalidated(rows) ==
    {d \in Requests :
        /\ call[d] # NoCall
        /\ call[d].op \in Serializable
        /\ Writes(call[d]) \cap rows # {}}

Open(c, k, s) ==
    /\ call' = [call EXCEPT ![c] = k]
    /\ seen' = [seen EXCEPT ![c] = s]
    /\ stale' = [stale EXCEPT ![c] = FALSE]

Close(c, rows) ==
    /\ call' = [call EXCEPT ![c] = NoCall]
    /\ seen' = [seen EXCEPT ![c] = NothingSeen]
    /\ stale' = [d \in Requests |-> IF d = c THEN FALSE ELSE stale[d] \/ d \in Invalidated(rows)]

Idle(c) == call[c] = NoCall
Running(c, op) == call[c] # NoCall /\ call[c].op = op

Init ==
    /\ inv = [row \in Rows |-> [onHand |-> 0, reserved |-> 0]]
    /\ lots = [row \in Rows |-> [e \in Epochs |-> 0]]
    /\ volume = [l \in Locations |-> 0]
    /\ capacity \in [Locations -> Capacities]
    /\ home \in [Locations -> Warehouses]
    /\ warehouse = [w \in Warehouses |-> "ACTIVE"]
    /\ reservation = [r \in Reservations |-> NoReservation]
    /\ incoming = [p \in Products |-> 0]
    /\ sold = [p \in Products |-> 0]
    /\ call = [c \in Requests |-> NoCall]
    /\ seen = [c \in Requests |-> NothingSeen]
    /\ stale = [c \in Requests |-> FALSE]

-----------------------------------------------------------------------------
(* transferStockBetweenLocations *)

BeginTransfer(c, p, from, to, q) ==
    /\ Idle(c)
    /\ from # to
    /\ Operational(from)
    /\ Operational(to)
    /\ Available(inv[<<p, from>>]) >= q
    /\ volume[to] + q <= capacity[to]
    /\ Open(c, [op |-> "transfer", product |-> p, from |-> from, to |-> to, quantity |-> q, id |-> None],
               [row |-> inv[<<p, from>>], capacity |-> capacity[to], found |-> FALSE])
    /\ UNCHANGED <<stock, places, reservation>>

\* Variant: the source row is forgotten.
CommitTransferOneSided(c) ==
    LET k == call[c]
    IN  /\ Running(c, "transfer")
        /\ ~stale[c]
        /\ inv' = [inv EXCEPT ![<<k.product, k.to>>].onHand = @ + k.quantity]
        /\ volume' = [volume EXCEPT ![k.from] = @ - k.quantity, ![k.to] = @ + k.quantity]
        /\ Close(c, Writes(k))
        /\ UNCHANGED <<lots, places, reservation, incoming, sold>>

CommitTransfer(c) ==
    LET k == call[c]
        p == k.product
        q == k.quantity
    IN  /\ Running(c, "transfer")
        /\ ~stale[c]
        /\ inv[<<p, k.from>>] = seen[c].row
        /\ LotsTotal(lots[<<p, k.from>>]) >= q
        /\ volume[k.to] <= seen[c].capacity - q
        /\ inv' = [inv EXCEPT ![<<p, k.from>>].onHand = @ - q, ![<<p, k.to>>].onHand = @ + q]
        /\ lots' = [lots EXCEPT ![<<p, k.from>>] = KeptLots(@, q),
                                ![<<p, k.to>>] = MergeLots(@, TakenLots(lots[<<p, k.from>>], q))]
        /\ volume' = [volume EXCEPT ![k.from] = @ - q, ![k.to] = @ + q]
        /\ Close(c, Writes(k))
        /\ UNCHANGED <<places, reservation, incoming, sold>>

-----------------------------------------------------------------------------
(* receiveStock, at the default isolation level: nothing it read before the *)
(* conditional update is protected.                                         *)

BeginReceive(c, p, l, q) ==
    /\ Idle(c)
    /\ Operational(l)
    /\ volume[l] + q <= capacity[l]
    /\ Open(c, [op |-> "receive", product |-> p, from |-> l, to |-> l, quantity |-> q, id |-> None],
               [row |-> NothingSeen.row, capacity |-> capacity[l], found |-> FALSE])
    /\ UNCHANGED <<stock, places, reservation>>

\* Variant: the volume is compared with the capacity at the start only.
CommitReceiveUnconditional(c, e) ==
    LET k == call[c]
    IN  /\ Running(c, "receive")
        /\ incoming[k.product] + k.quantity <= MaxIncoming
        /\ volume' = [volume EXCEPT ![k.to] = @ + k.quantity]
        /\ inv' = [inv EXCEPT ![<<k.product, k.to>>].onHand = @ + k.quantity]
        /\ lots' = [lots EXCEPT ![<<k.product, k.to>>] = AddLot(@, e, k.quantity)]
        /\ incoming' = [incoming EXCEPT ![k.product] = @ + k.quantity]
        /\ Close(c, Writes(k))
        /\ UNCHANGED <<places, reservation, sold>>

\* received_at is the clock of the process that serves the request: two
\* receipts may carry the same date, or dates in the other order.
CommitReceive(c, e) ==
    LET k == call[c]
        p == k.product
        q == k.quantity
    IN  /\ Running(c, "receive")
        /\ incoming[p] + q <= MaxIncoming
        /\ volume[k.to] <= seen[c].capacity - q
        /\ volume' = [volume EXCEPT ![k.to] = @ + q]
        /\ inv' = [inv EXCEPT ![<<p, k.to>>].onHand = @ + q]
        /\ lots' = [lots EXCEPT ![<<p, k.to>>] = AddLot(@, e, q)]
        /\ incoming' = [incoming EXCEPT ![p] = @ + q]
        /\ Close(c, Writes(k))
        /\ UNCHANGED <<places, reservation, sold>>

-----------------------------------------------------------------------------
(* sellStock *)

BeginSell(c, p, l, q) ==
    /\ Idle(c)
    /\ Operational(l)
    /\ Available(inv[<<p, l>>]) >= q
    /\ Open(c, [op |-> "sell", product |-> p, from |-> l, to |-> l, quantity |-> q, id |-> None],
               [row |-> inv[<<p, l>>], capacity |-> 0, found |-> FALSE])
    /\ UNCHANGED <<stock, places, reservation>>

CommitSell(c) ==
    LET k == call[c]
        p == k.product
        q == k.quantity
    IN  /\ Running(c, "sell")
        /\ ~stale[c]
        /\ inv[<<p, k.from>>] = seen[c].row
        /\ LotsTotal(lots[<<p, k.from>>]) >= q
        /\ volume[k.from] >= q
        /\ inv' = [inv EXCEPT ![<<p, k.from>>].onHand = @ - q]
        /\ lots' = [lots EXCEPT ![<<p, k.from>>] = KeptLots(@, q)]
        /\ volume' = [volume EXCEPT ![k.from] = @ - q]
        /\ sold' = [sold EXCEPT ![p] = @ + q]
        /\ Close(c, Writes(k))
        /\ UNCHANGED <<places, reservation, incoming>>

-----------------------------------------------------------------------------
(* reserveInventory and releaseReservation, both at READ COMMITTED *)

BeginReserve(c, p, l, q) ==
    /\ Idle(c)
    /\ Visible(l)
    /\ Available(inv[<<p, l>>]) >= q
    /\ Open(c, [op |-> "reserve", product |-> p, from |-> l, to |-> l, quantity |-> q, id |-> None],
               [row |-> inv[<<p, l>>], capacity |-> 0, found |-> FALSE])
    /\ UNCHANGED <<stock, places, reservation>>

\* Variant: the update names the row by its id alone.
CommitReserveUnconditional(c, r) ==
    LET k == call[c]
    IN  /\ Running(c, "reserve")
        /\ reservation[r] = NoReservation
        /\ inv' = [inv EXCEPT ![<<k.product, k.from>>].reserved = @ + k.quantity]
        /\ reservation' = [reservation EXCEPT ![r] =
               [status |-> "ACTIVE", product |-> k.product, location |-> k.from, quantity |-> k.quantity]]
        /\ Close(c, Writes(k))
        /\ UNCHANGED <<places, lots, volume, incoming, sold>>

CommitReserve(c, r) ==
    LET k == call[c]
    IN  /\ Running(c, "reserve")
        /\ inv[<<k.product, k.from>>] = seen[c].row
        /\ reservation[r] = NoReservation
        /\ inv' = [inv EXCEPT ![<<k.product, k.from>>].reserved = @ + k.quantity]
        /\ reservation' = [reservation EXCEPT ![r] =
               [status |-> "ACTIVE", product |-> k.product, location |-> k.from, quantity |-> k.quantity]]
        /\ Close(c, Writes(k))
        /\ UNCHANGED <<places, lots, volume, incoming, sold>>

\* The body names a quantity, and may name a reservation.
BeginRelease(c, p, l, q, id) ==
    /\ Idle(c)
    /\ Visible(l)
    /\ inv[<<p, l>>].reserved >= q
    /\ Open(c, [op |-> "release", product |-> p, from |-> l, to |-> l, quantity |-> q, id |-> id],
               [row |-> inv[<<p, l>>], capacity |-> 0, found |-> FALSE])
    /\ UNCHANGED <<stock, places, reservation>>

ActiveOn(r, p, l) ==
    /\ reservation[r].status = "ACTIVE"
    /\ reservation[r].product = p
    /\ reservation[r].location = l

\* Variant: the quantity of the body is kept.
FindReservationOnly(c) ==
    LET k == call[c]
    IN  /\ Running(c, "release")
        /\ k.id # None
        /\ ~seen[c].found
        /\ ActiveOn(k.id, k.product, k.from)
        /\ Open(c, k, [seen[c] EXCEPT !.found = TRUE])
        /\ UNCHANGED <<stock, places, reservation>>

\* The second read; the quantity of the reservation replaces the body's.
FindReservation(c) ==
    LET k == call[c]
    IN  /\ Running(c, "release")
        /\ k.id # None
        /\ ~seen[c].found
        /\ ActiveOn(k.id, k.product, k.from)
        /\ Open(c, [k EXCEPT !.quantity = reservation[k.id].quantity], [seen[c] EXCEPT !.found = TRUE])
        /\ UNCHANGED <<stock, places, reservation>>

\* The reservation is marked whatever became of it since it was read, and
\* the CHECK of the Inventory table refuses a negative quantity_reserved.
CommitRelease(c) ==
    LET k == call[c]
        row == inv[<<k.product, k.from>>]
    IN  /\ Running(c, "release")
        /\ k.id = None \/ seen[c].found
        /\ row.reserved = seen[c].row.reserved
        /\ row.reserved >= k.quantity
        /\ inv' = [inv EXCEPT ![<<k.product, k.from>>].reserved = @ - k.quantity]
        /\ reservation' = [r \in Reservations |->
               IF r = k.id THEN [reservation[r] EXCEPT !.status = "RELEASED"] ELSE reservation[r]]
        /\ Close(c, Writes(k))
        /\ UNCHANGED <<places, lots, volume, incoming, sold>>

-----------------------------------------------------------------------------
(* One reservation of releaseExpiredReservations; ReservationExpiry has the *)
(* loop.  expires_at may have passed for any ACTIVE reservation.            *)

BeginExpire(c, r) ==
    /\ Idle(c)
    /\ reservation[r].status = "ACTIVE"
    /\ Open(c, [op |-> "expire", product |-> reservation[r].product, from |-> reservation[r].location,
                to |-> reservation[r].location, quantity |-> reservation[r].quantity, id |-> r],
               NothingSeen)
    /\ UNCHANGED <<stock, places, reservation>>

\* Variant: no CHECK on quantity_reserved.
CommitExpireUnchecked(c) ==
    LET k == call[c]
    IN  /\ Running(c, "expire")
        /\ inv' = [inv EXCEPT ![<<k.product, k.from>>].reserved = @ - k.quantity]
        /\ reservation' = [reservation EXCEPT ![k.id].status = "EXPIRED"]
        /\ Close(c, Writes(k))
        /\ UNCHANGED <<places, lots, volume, incoming, sold>>

CommitExpire(c) ==
    LET k == call[c]
    IN  /\ Running(c, "expire")
        /\ inv[<<k.product, k.from>>].reserved >= k.quantity
        /\ inv' = [inv EXCEPT ![<<k.product, k.from>>].reserved = @ - k.quantity]
        /\ reservation' = [reservation EXCEPT ![k.id].status = "EXPIRED"]
        /\ Close(c, Writes(k))
        /\ UNCHANGED <<places, lots, volume, incoming, sold>>

-----------------------------------------------------------------------------
(* Every error path: a WHERE clause that matches no row, a check, a CHECK   *)
(* of the database, a serialization failure, the timeout, a crash.          *)

Abort(c) ==
    /\ ~Idle(c)
    /\ Close(c, {})
    /\ UNCHANGED <<stock, places, reservation>>

-----------------------------------------------------------------------------
(* warehouseService: a read and its checks, then an update by id; not a     *)
(* transaction.                                                             *)

\* updateWarehouse with a status, and closeWarehouse (s = "CLOSED").
SetWarehouseStatus(w, s) ==
    /\ warehouse[w] \notin {"HIDDEN", s}
    /\ warehouse' = [warehouse EXCEPT ![w] = s]
    /\ UNCHANGED <<stock, capacity, home, reservation, requests>>

HideWarehouse(w) ==
    /\ warehouse[w] # "HIDDEN"
    /\ warehouse' = [warehouse EXCEPT ![w] = "HIDDEN"]
    /\ UNCHANGED <<stock, capacity, home, reservation, requests>>

\* updateLocation hands the body to the database as it came.  It checks the
\* warehouses first, but they may be closed or hidden between the check and
\* the update: as every warehouse was ACTIVE once, the update may come at any
\* time.  The same race cannot undo is_hidden, so it changes nothing above.
UpdateLocation(l, cap, vol, w) ==
    /\ <<cap, vol, w>> # <<capacity[l], volume[l], home[l]>>
    /\ capacity' = [capacity EXCEPT ![l] = cap]
    /\ volume' = [volume EXCEPT ![l] = vol]
    /\ home' = [home EXCEPT ![l] = w]
    /\ stale' = [d \in Requests |-> stale[d] \/ d \in Invalidated({LocationRow(l)})]
    /\ UNCHANGED <<inv, lots, incoming, sold, warehouse, reservation, call, seen>>

-----------------------------------------------------------------------------

Next ==
    \/ \E c \in Requests, p \in Products, q \in Quantities, l \in Locations :
           \/ \E to \in Locations : BeginTransfer(c, p, l, to, q)
           \/ BeginReceive(c, p, l, q)
           \/ BeginSell(c, p, l, q)
           \/ BeginReserve(c, p, l, q)
           \/ \E id \in Reservations \cup {None} : BeginRelease(c, p, l, q, id)
    \/ \E c \in Requests :
           \/ CommitTransfer(c)
           \/ \E e \in Epochs : CommitReceive(c, e)
           \/ CommitSell(c)
           \/ \E r \in Reservations : CommitReserve(c, r) \/ BeginExpire(c, r)
           \/ FindReservation(c)
           \/ CommitRelease(c)
           \/ CommitExpire(c)
           \/ Abort(c)
    \/ \E w \in Warehouses :
           \/ \E s \in {"ACTIVE", "CLOSED"} : SetWarehouseStatus(w, s)
           \/ HideWarehouse(w)
    \/ \E l \in Locations, cap \in Capacities, w \in Warehouses :
           \E vol \in PatchedVolumes \cup {volume[l]} : UpdateLocation(l, cap, vol, w)

Spec == Init /\ [][Next]_vars

-----------------------------------------------------------------------------
(* Correctness *)

TypeOK ==
    /\ inv \in [Rows -> InventoryRecord]
    /\ lots \in [Rows -> Profile]
    /\ volume \in [Locations -> Int]
    /\ capacity \in [Locations -> Capacities]
    /\ home \in [Locations -> Warehouses]
    /\ warehouse \in [Warehouses -> Status]
    /\ reservation \in [Reservations -> Reservation \cup {NoReservation}]
    /\ incoming \in [Products -> Nat]
    /\ sold \in [Products -> Nat]
    /\ call \in [Requests -> Call \cup {NoCall}]
    /\ seen \in [Requests -> Seen]
    /\ stale \in [Requests -> BOOLEAN]

\* No oversell: whatever requests interleave, no more units of a product are
\* promised at a location than are there.  The checks of available stock are
\* made before the conditional updates, on values read earlier.
NoOversell ==
    \A row \in Rows : inv[row].reserved <= inv[row].onHand

\* The aggregate row and the lots under it always hold the same units, though
\* each is updated by a statement of its own.
LotsMatchAggregate ==
    \A row \in Rows : LotsTotal(lots[row]) = inv[row].onHand

\* Transfers neither make nor lose units: what was received of a product and
\* was not sold is on hand somewhere.
UnitsReconcile ==
    \A p \in Products :
        incoming[p] = sold[p] + SumFunction([l \in Locations |-> inv[<<p, l>>].onHand])

HeldBy(p, l) ==
    SumFunction([r \in Reservations |-> IF ActiveOn(r, p, l) THEN reservation[r].quantity ELSE 0])

\* Every reserved unit can be released: an ACTIVE reservation stands for it.
NoLeakedHold ==
    \A p \in Products, l \in Locations : inv[<<p, l>>].reserved <= HeldBy(p, l)

StockAt(l) == SumFunction([p \in Products |-> inv[<<p, l>>].onHand])

\* A request moves the volume of a location with its stock, by as many units
\* and in the same step; only updateLocation can set them apart.
VolumeFollowsStock ==
    [][call' # call =>
          \A l \in Locations : volume'[l] - volume[l] = StockAt(l)' - StockAt(l)]_vars

\* A transfer never fills its destination beyond the capacity the location has
\* when the transfer commits, which is not the one it was checked against if an
\* update of the location came between.
TransferFits ==
    [][\A l \in Locations :
          incoming' = incoming /\ StockAt(l)' > StockAt(l) => volume'[l] <= capacity[l]]_vars

\* Receipts run at READ COMMITTED and compare the volume twice.  However many
\* of them overlap, together they fill a location beyond its capacity only if
\* that was lowered while one of them was open.
ReceiptsFitTogether ==
    [][\A l \in Locations :
          incoming' # incoming /\ StockAt(l)' > StockAt(l) =>
              \/ volume'[l] <= capacity[l]
              \/ \E c \in Requests :
                     Running(c, "receive") /\ call[c].to = l /\ seen[c].capacity > capacity[l]]_vars

UnitsAsOld(p, e) == SumFunction([l \in Locations |-> lots[<<p, l>>][e]])

\* Child lots keep the age of the lots they come from: the units of a product,
\* counted by received_at over all locations, change with a receipt or a sale
\* and never with a transfer.
AgesConserved ==
    [][\A p \in Products :
          incoming'[p] = incoming[p] /\ sold'[p] = sold[p] =>
              \A e \in Epochs : UnitsAsOld(p, e)' = UnitsAsOld(p, e)]_vars

\* What an ACTIVE reservation holds is set aside: its units are reserved.
ReservationsBacked ==
    \A p \in Products, l \in Locations : HeldBy(p, l) <= inv[<<p, l>>].reserved

\* Each request that succeeds is one entry of the abstract ledger, made at its
\* commit and allowed by the stock of that instant.
Ledger ==
    INSTANCE StockLedger WITH
        onHand <- [row \in Rows |-> inv[row].onHand],
        held <- [row \in Rows |-> inv[row].reserved],
        received <- incoming

ImplementsLedger == Ledger!Spec
=============================================================================
