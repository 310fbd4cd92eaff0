----------------------------- MODULE StockProofs -----------------------------
(***************************************************************************)
(* Theorems of InventoryService, of the job that runs beside its requests  *)
(* and of the orders whose receipts share the stock with them, for every   *)
(* value of their constants.                                               *)
(***************************************************************************)
EXTENDS ReservationExpiry, PurchaseOrders, SumLemmas, TLAPS

\* What a request has checked at its Begin still bounds what it will take at
\* its Commit: the WHERE clause compares the row with the one that was checked.
Admitted(k, s) ==
    /\ k.op \in {"transfer", "sell", "reserve"} => Available(s.row) >= k.quantity
    /\ k.op = "transfer" => k.from # k.to
    /\ k.op = "expire" => k.id \in Reservations /\ reservation[k.id] # NoReservation
    /\ s.found => k.id \in Reservations /\ reservation[k.id] # NoReservation

ChecksHold == \A c \in Requests : call[c] # NoCall => Admitted(call[c], seen[c])

IInv == TypeOK /\ NoOversell /\ LotsMatchAggregate /\ ChecksHold

\* The inductive invariant in two halves: the rows of the ledger, and the
\* requests in flight with the rows they point to.
StockInv ==
    /\ inv \in [Rows -> InventoryRecord]
    /\ lots \in [Rows -> Profile]
    /\ volume \in [Locations -> Int]
    /\ incoming \in [Products -> Nat]
    /\ sold \in [Products -> Nat]
    /\ NoOversell
    /\ LotsMatchAggregate

RequestInv ==
    /\ reservation \in [Reservations -> Reservation \cup {NoReservation}]
    /\ call \in [Requests -> Call \cup {NoCall}]
    /\ seen \in [Requests -> Seen]
    /\ stale \in [Requests -> BOOLEAN]
    /\ ChecksHold

PlacesInv ==
    /\ capacity \in [Locations -> Capacities]
    /\ home \in [Locations -> Warehouses]
    /\ warehouse \in [Warehouses -> Status]

\* The invariant is its three parts together, before and after a step.
LEMMA Halves == IInv <=> StockInv /\ RequestInv /\ PlacesInv
  BY DEF IInv, TypeOK, StockInv, RequestInv, PlacesInv

LEMMA HalvesNext == StockInv' /\ RequestInv' /\ PlacesInv' => IInv'
  BY DEF IInv, TypeOK, StockInv, RequestInv, PlacesInv

\* Lots: a receipt, a sale and a transfer keep profiles well formed and move
\* exactly q units.
LEMMA LotsLemma ==
    ASSUME NEW u \in Profile, NEW q \in Nat
    PROVE  /\ \A e \in Epochs : /\ AddLot(u, e, q) \in Profile
                                /\ LotsTotal(AddLot(u, e, q)) = LotsTotal(u) + q
           /\ KeptLots(u, q) \in Profile
           /\ TakenLots(u, q) \in Profile
           /\ LotsTotal(u) >= q => /\ LotsTotal(KeptLots(u, q)) = LotsTotal(u) - q
                                   /\ LotsTotal(TakenLots(u, q)) = q
           /\ LotsTotal(u) \in Nat
  BY EpochAssumption DEF Profile, Epochs, AddLot, KeptLots, TakenLots, LotsTotal

\* Lots that arrive by transfer are added to those that are there.
LEMMA MergeLemma ==
    ASSUME NEW u \in Profile, NEW v \in Profile
    PROVE  /\ MergeLots(u, v) \in Profile
           /\ LotsTotal(MergeLots(u, v)) = LotsTotal(u) + LotsTotal(v)
  BY EpochAssumption DEF Profile, Epochs, MergeLots, LotsTotal

\* An empty stock satisfies the invariant.
LEMMA InitInv == Init => IInv
  <1> SUFFICES ASSUME Init PROVE IInv
    OBVIOUS
  <1>1. TypeOK
    BY EpochAssumption DEF Init, TypeOK, InventoryRecord, Profile, Status, Call, Seen,
       NothingSeen, NoCall, NoReservation, Epochs
  <1>2. NoOversell
    BY DEF Init, NoOversell
  <1>3. LotsMatchAggregate
    BY EpochAssumption DEF Init, LotsMatchAggregate, LotsTotal, Epochs
  <1>4. ChecksHold
    BY DEF Init, ChecksHold
  <1>5. QED
    BY <1>1, <1>2, <1>3, <1>4 DEF IInv

-----------------------------------------------------------------------------
(* Opening and closing a transaction *)

\* Rows and calls that are there are not the absent ones.
LEMMA CallShape ==
    /\ \A k \in Call : k # NoCall
    /\ \A r \in Reservation : r # NoReservation
    /\ NothingSeen \in Seen
  BY DEF Call, NoCall, Operations, Serializable, Reservation, NoReservation, NothingSeen, Seen, InventoryRecord

\* A request opens, or reads again, with checks that hold.
LEMMA OpenInv ==
    ASSUME RequestInv, NEW c \in Requests, NEW k \in Call, NEW s \in Seen,
           Open(c, k, s), Admitted(k, s), UNCHANGED reservation
    PROVE  RequestInv'
  <1>1. /\ call' \in [Requests -> Call \cup {NoCall}]
        /\ seen' \in [Requests -> Seen]
        /\ stale' \in [Requests -> BOOLEAN]
    BY DEF RequestInv, Open
  <1>2. ASSUME NEW d \in Requests, call'[d] # NoCall
        PROVE  Admitted(call[d], seen[d])'
    <2>1. CASE d = c
      <3>1. call'[d] = k /\ seen'[d] = s
        BY <2>1 DEF RequestInv, Open
      <3>2. QED
        BY <3>1 DEF Admitted, Available
    <2>2. CASE d # c
      <3>1. call'[d] = call[d] /\ seen'[d] = seen[d]
        BY <2>2 DEF RequestInv, Open
      <3>2. QED
        BY <1>2, <3>1 DEF RequestInv, ChecksHold, Admitted, Available
    <2>3. QED
      BY <2>1, <2>2
  <1>3. QED
    BY <1>1, <1>2 DEF RequestInv, ChecksHold

\* A commit may write reservations as long as it removes none.
LEMMA CloseInv ==
    ASSUME RequestInv, NEW c \in Requests, NEW rows, Close(c, rows),
           reservation' \in [Reservations -> Reservation \cup {NoReservation}],
           \A r \in Reservations : reservation[r] # NoReservation => reservation'[r] # NoReservation
    PROVE  RequestInv'
  <1>1. /\ call' \in [Requests -> Call \cup {NoCall}]
        /\ seen' \in [Requests -> Seen]
        /\ stale' \in [Requests -> BOOLEAN]
    BY CallShape DEF RequestInv, Close
  <1>2. ASSUME NEW d \in Requests, call'[d] # NoCall
        PROVE  Admitted(call[d], seen[d])'
    <2>1. d # c /\ call'[d] = call[d] /\ seen'[d] = seen[d]
      BY <1>2 DEF RequestInv, Close
    <2>2. QED
      BY <1>2, <2>1 DEF RequestInv, ChecksHold, Admitted, Available
  <1>3. QED
    BY <1>1, <1>2 DEF RequestInv, ChecksHold

\* Each part holds after a step that does not write what it is about.
LEMMA StockStutter == StockInv /\ UNCHANGED stock => StockInv'
  BY DEF StockInv, stock, NoOversell, LotsMatchAggregate

LEMMA PlacesStutter == PlacesInv /\ UNCHANGED places => PlacesInv'
  BY DEF PlacesInv, places

LEMMA RequestsStutter == RequestInv /\ UNCHANGED <<requests, reservation>> => RequestInv'
  BY DEF RequestInv, requests, ChecksHold, Admitted, Available

-----------------------------------------------------------------------------
(* Begin actions: only the request half changes *)

\* transferStockBetweenLocations has checked what is available at the source.
LEMMA BeginTransferInv ==
    ASSUME StockInv, RequestInv, PlacesInv,
           NEW c \in Requests, NEW p \in Products, NEW l \in Locations,
           NEW to \in Locations, NEW q \in Quantities, BeginTransfer(c, p, l, to, q)
    PROVE  RequestInv'
  <1> DEFINE k == [op |-> "transfer", product |-> p, from |-> l, to |-> to, quantity |-> q, id |-> None]
             s == [row |-> inv[<<p, l>>], capacity |-> capacity[to], found |-> FALSE]
  <1>1. k \in Call
    BY DEF Call, Operations, Serializable
  <1>2. s \in Seen
    BY CapacitiesAssumption DEF Seen, StockInv, PlacesInv, Rows
  <1>3. Admitted(k, s)
    BY DEF Admitted, BeginTransfer
  <1>4. Open(c, k, s) /\ UNCHANGED reservation
    BY DEF BeginTransfer
  <1>5. QED
    BY <1>1, <1>2, <1>3, <1>4, OpenInv

\* receiveStock checks nothing that the stock rests on.
LEMMA BeginReceiveInv ==
    ASSUME StockInv, RequestInv, PlacesInv,
           NEW c \in Requests, NEW p \in Products, NEW l \in Locations,
           NEW q \in Quantities, BeginReceive(c, p, l, q)
    PROVE  RequestInv'
  <1> DEFINE k == [op |-> "receive", product |-> p, from |-> l, to |-> l, quantity |-> q, id |-> None]
             s == [row |-> NothingSeen.row, capacity |-> capacity[l], found |-> FALSE]
  <1>1. k \in Call
    BY DEF Call, Operations, Serializable
  <1>2. s \in Seen
    BY CapacitiesAssumption, CallShape DEF Seen, StockInv, PlacesInv, Rows
  <1>3. Admitted(k, s)
    BY DEF Admitted
  <1>4. Open(c, k, s) /\ UNCHANGED reservation
    BY DEF BeginReceive
  <1>5. QED
    BY <1>1, <1>2, <1>3, <1>4, OpenInv

\* sellStock has checked what is available.
LEMMA BeginSellInv ==
    ASSUME StockInv, RequestInv,
           NEW c \in Requests, NEW p \in Products, NEW l \in Locations,
           NEW q \in Quantities, BeginSell(c, p, l, q)
    PROVE  RequestInv'
  <1> DEFINE k == [op |-> "sell", product |-> p, from |-> l, to |-> l, quantity |-> q, id |-> None]
             s == [row |-> inv[<<p, l>>], capacity |-> 0, found |-> FALSE]
  <1>1. k \in Call
    BY DEF Call, Operations, Serializable
  <1>2. s \in Seen
    BY DEF Seen, StockInv, Rows
  <1>3. Admitted(k, s)
    BY DEF Admitted, BeginSell
  <1>4. Open(c, k, s) /\ UNCHANGED reservation
    BY DEF BeginSell
  <1>5. QED
    BY <1>1, <1>2, <1>3, <1>4, OpenInv

\* reserveInventory has checked what is available.
LEMMA BeginReserveInv ==
    ASSUME StockInv, RequestInv,
           NEW c \in Requests, NEW p \in Products, NEW l \in Locations,
           NEW q \in Quantities, BeginReserve(c, p, l, q)
    PROVE  RequestInv'
  <1> DEFINE k == [op |-> "reserve", product |-> p, from |-> l, to |-> l, quantity |-> q, id |-> None]
             s == [row |-> inv[<<p, l>>], capacity |-> 0, found |-> FALSE]
  <1>1. k \in Call
    BY DEF Call, Operations, Serializable
  <1>2. s \in Seen
    BY DEF Seen, StockInv, Rows
  <1>3. Admitted(k, s)
    BY DEF Admitted, BeginReserve
  <1>4. Open(c, k, s) /\ UNCHANGED reservation
    BY DEF BeginReserve
  <1>5. QED
    BY <1>1, <1>2, <1>3, <1>4, OpenInv

\* releaseReservation opens without a reservation, which it may find later.
LEMMA BeginReleaseInv ==
    ASSUME StockInv, RequestInv,
           NEW c \in Requests, NEW p \in Products, NEW l \in Locations,
           NEW q \in Quantities, NEW id \in Reservations \cup {None},
           BeginRelease(c, p, l, q, id)
    PROVE  RequestInv'
  <1> DEFINE k == [op |-> "release", product |-> p, from |-> l, to |-> l, quantity |-> q, id |-> id]
             s == [row |-> inv[<<p, l>>], capacity |-> 0, found |-> FALSE]
  <1>1. k \in Call
    BY DEF Call, Operations, Serializable
  <1>2. s \in Seen
    BY DEF Seen, StockInv, Rows
  <1>3. Admitted(k, s)
    BY DEF Admitted
  <1>4. Open(c, k, s) /\ UNCHANGED reservation
    BY DEF BeginRelease
  <1>5. QED
    BY <1>1, <1>2, <1>3, <1>4, OpenInv

\* ... and what it finds is a reservation that is there.
LEMMA FindReservationInv ==
    ASSUME RequestInv, NEW c \in Requests, FindReservation(c)
    PROVE  RequestInv'
  <1> DEFINE k == call[c]
             r == reservation[k.id]
             j == [k EXCEPT !.quantity = r.quantity]
             s == [seen[c] EXCEPT !.found = TRUE]
  <1>1. k \in Call /\ k.op = "release" /\ k.id \in Reservations /\ seen[c] \in Seen
    BY DEF FindReservation, Running, RequestInv, Call
  <1>2. r \in Reservation
    BY <1>1 DEF FindReservation, ActiveOn, RequestInv, NoReservation
  <1>3. j \in Call
    BY <1>1, <1>2 DEF Call, Reservation
  <1>4. s \in Seen
    BY <1>1 DEF Seen
  <1>5. j.op = "release" /\ j.id = k.id
    BY <1>1 DEF Call
  <1>6. Admitted(j, s)
    BY <1>1, <1>2, <1>5, CallShape DEF Admitted
  <1>7. Open(c, j, s) /\ UNCHANGED reservation
    BY DEF FindReservation
  <1>8. QED
    BY <1>3, <1>4, <1>6, <1>7, OpenInv

\* The expiry of a reservation opens with the reservation it was read from.
LEMMA BeginExpireInv ==
    ASSUME RequestInv, NEW c \in Requests, NEW r \in Reservations, BeginExpire(c, r)
    PROVE  RequestInv'
  <1> DEFINE k == [op |-> "expire", product |-> reservation[r].product, from |-> reservation[r].location,
                   to |-> reservation[r].location, quantity |-> reservation[r].quantity, id |-> r]
  <1>1. reservation[r] \in Reservation
    BY DEF BeginExpire, RequestInv, NoReservation
  <1>2. k \in Call
    BY <1>1 DEF Call, Operations, Reservation
  <1>3. Admitted(k, NothingSeen)
    BY <1>1, CallShape DEF Admitted, NothingSeen
  <1>4. Open(c, k, NothingSeen) /\ UNCHANGED reservation
    BY DEF BeginExpire
  <1>5. QED
    BY <1>2, <1>3, <1>4, CallShape, OpenInv

-----------------------------------------------------------------------------
(* Commit actions *)

\* Quantities are positive.
LEMMA QuantityLemma == \A q \in Quantities : q \in Nat /\ q > 0
  BY QuantitiesAssumption

\* What a running request is known to be.
LEMMA RunningCall ==
    ASSUME RequestInv, NEW c \in Requests, call[c] # NoCall
    PROVE  /\ call[c] \in Call
           /\ call[c].product \in Products
           /\ call[c].from \in Locations
           /\ call[c].to \in Locations
           /\ call[c].quantity \in Nat
           /\ call[c].quantity > 0
           /\ call[c].quantity \in Quantities
           /\ seen[c] \in Seen
           /\ Admitted(call[c], seen[c])
  <1>1. call[c] \in Call /\ seen[c] \in Seen /\ Admitted(call[c], seen[c])
    BY DEF RequestInv, ChecksHold
  <1>2. /\ call[c].product \in Products
        /\ call[c].from \in Locations
        /\ call[c].to \in Locations
        /\ call[c].quantity \in Quantities
    BY <1>1 DEF Call
  <1>3. call[c].quantity \in Nat /\ call[c].quantity > 0
    BY <1>2, QuantityLemma
  <1>4. QED
    BY <1>1, <1>2, <1>3

\* The units of a row, and of its lots, after the three ways stock moves.
LEMMA Taken ==
    ASSUME StockInv, NEW src \in Rows, NEW q \in Nat,
           inv[src].onHand - inv[src].reserved >= q,
           LotsTotal(lots[src]) >= q,
           inv' = [inv EXCEPT ![src].onHand = @ - q],
           lots' = [lots EXCEPT ![src] = KeptLots(@, q)],
           volume' \in [Locations -> Int],
           incoming' \in [Products -> Nat],
           sold' \in [Products -> Nat]
    PROVE  StockInv'
  <1>1. /\ KeptLots(lots[src], q) \in Profile
        /\ LotsTotal(KeptLots(lots[src], q)) = LotsTotal(lots[src]) - q
    BY LotsLemma DEF StockInv
  <1>2. lots' \in [Rows -> Profile]
    BY <1>1 DEF StockInv
  <1>3. inv' \in [Rows -> InventoryRecord]
    BY DEF StockInv, InventoryRecord
  <1>4. ASSUME NEW row \in Rows
        PROVE  inv'[row].reserved <= inv'[row].onHand /\ LotsTotal(lots'[row]) = inv'[row].onHand
    BY <1>1 DEF StockInv, InventoryRecord, NoOversell, LotsMatchAggregate
  <1>5. NoOversell'
    BY <1>4 DEF NoOversell
  <1>6. LotsMatchAggregate'
    BY <1>4 DEF LotsMatchAggregate, LotsTotal
  <1>7. QED
    BY <1>2, <1>3, <1>5, <1>6 DEF StockInv

\* A receipt, in one row.
LEMMA Added ==
    ASSUME StockInv, NEW dst \in Rows, NEW q \in Nat, NEW e \in Epochs,
           inv' = [inv EXCEPT ![dst].onHand = @ + q],
           lots' = [lots EXCEPT ![dst] = AddLot(@, e, q)],
           volume' \in [Locations -> Int],
           incoming' \in [Products -> Nat],
           sold' \in [Products -> Nat]
    PROVE  StockInv'
  <1>1. /\ AddLot(lots[dst], e, q) \in Profile
        /\ LotsTotal(AddLot(lots[dst], e, q)) = LotsTotal(lots[dst]) + q
    BY LotsLemma DEF StockInv
  <1>2. lots' \in [Rows -> Profile]
    BY <1>1 DEF StockInv
  <1>3. inv' \in [Rows -> InventoryRecord]
    BY DEF StockInv, InventoryRecord
  <1>4. ASSUME NEW row \in Rows
        PROVE  inv'[row].reserved <= inv'[row].onHand /\ LotsTotal(lots'[row]) = inv'[row].onHand
    BY <1>1 DEF StockInv, InventoryRecord, NoOversell, LotsMatchAggregate
  <1>5. NoOversell'
    BY <1>4 DEF NoOversell
  <1>6. LotsMatchAggregate'
    BY <1>4 DEF LotsMatchAggregate, LotsTotal
  <1>7. QED
    BY <1>2, <1>3, <1>5, <1>6 DEF StockInv

\* A transfer, from one row to another.
LEMMA Moved ==
    ASSUME StockInv, NEW src \in Rows, NEW dst \in Rows, src # dst, NEW q \in Nat,
           inv[src].onHand - inv[src].reserved >= q,
           LotsTotal(lots[src]) >= q,
           inv' = [inv EXCEPT ![src].onHand = @ - q, ![dst].onHand = @ + q],
           lots' = [lots EXCEPT ![src] = KeptLots(@, q),
                                ![dst] = MergeLots(@, TakenLots(lots[src], q))],
           volume' \in [Locations -> Int],
           incoming' \in [Products -> Nat],
           sold' \in [Products -> Nat]
    PROVE  StockInv'
  <1> DEFINE moved == MergeLots(lots[dst], TakenLots(lots[src], q))
  <1>1. lots[src] \in Profile /\ lots[dst] \in Profile
    BY DEF StockInv
  <1>2. /\ KeptLots(lots[src], q) \in Profile
        /\ LotsTotal(KeptLots(lots[src], q)) = LotsTotal(lots[src]) - q
        /\ TakenLots(lots[src], q) \in Profile
        /\ LotsTotal(TakenLots(lots[src], q)) = q
    BY <1>1, LotsLemma
  <1>3. moved \in Profile /\ LotsTotal(moved) = LotsTotal(lots[dst]) + q
    BY <1>1, <1>2, MergeLemma
  <1>4. lots' = [lots EXCEPT ![src] = KeptLots(lots[src], q), ![dst] = moved]
    BY DEF StockInv
  <1> HIDE DEF moved
  <1>5. lots' \in [Rows -> Profile]
    BY <1>2, <1>3, <1>4 DEF StockInv
  <1>6. inv' \in [Rows -> InventoryRecord]
    <2> DEFINE less == [inv[src] EXCEPT !.onHand = @ - q]
               more == [inv[dst] EXCEPT !.onHand = @ + q]
    <2>1. less \in InventoryRecord /\ more \in InventoryRecord
      BY DEF StockInv, InventoryRecord
    <2>2. inv' = [inv EXCEPT ![src] = less, ![dst] = more]
      BY DEF StockInv
    <2> HIDE DEF less, more
    <2>3. QED
      BY <2>1, <2>2 DEF StockInv
  <1>7. ASSUME NEW row \in Rows
        PROVE  inv'[row].reserved <= inv'[row].onHand /\ LotsTotal(lots'[row]) = inv'[row].onHand
    BY <1>2, <1>3, <1>4 DEF StockInv, InventoryRecord, NoOversell, LotsMatchAggregate
  <1>8. NoOversell'
    BY <1>7 DEF NoOversell
  <1>9. LotsMatchAggregate'
    BY <1>7 DEF LotsMatchAggregate, LotsTotal
  <1>10. QED
    BY <1>5, <1>6, <1>8, <1>9 DEF StockInv

\* A hold taken or given back: only the reserved quantity of a row changes.
LEMMA Held ==
    ASSUME StockInv, NEW row \in Rows, NEW n \in Nat, n <= inv[row].onHand,
           inv' = [inv EXCEPT ![row].reserved = n],
           UNCHANGED <<lots, volume, incoming, sold>>
    PROVE  StockInv'
  <1>1. inv' \in [Rows -> InventoryRecord]
    BY DEF StockInv, InventoryRecord
  <1>2. ASSUME NEW r \in Rows
        PROVE  inv'[r].reserved <= inv'[r].onHand /\ LotsTotal(lots'[r]) = inv'[r].onHand
    BY DEF StockInv, InventoryRecord, NoOversell, LotsMatchAggregate
  <1>3. NoOversell' /\ LotsMatchAggregate'
    BY <1>2 DEF NoOversell, LotsMatchAggregate, LotsTotal
  <1>4. QED
    BY <1>1, <1>3 DEF StockInv

\* transferStockBetweenLocations takes no more than is available: the row is as it was read.
LEMMA CommitTransferInv ==
    ASSUME StockInv, RequestInv, NEW c \in Requests, CommitTransfer(c)
    PROVE  StockInv' /\ RequestInv'
  <1> DEFINE k == call[c]
             src == <<k.product, k.from>>
             dst == <<k.product, k.to>>
  <1>1. /\ src \in Rows /\ dst \in Rows /\ src # dst
        /\ k.quantity \in Nat /\ k.from \in Locations /\ k.to \in Locations
        /\ Available(seen[c].row) >= k.quantity
    BY RunningCall DEF CommitTransfer, Running, Admitted, Rows
  <1>2. /\ inv[src].onHand - inv[src].reserved >= k.quantity
        /\ LotsTotal(lots[src]) >= k.quantity
    BY <1>1 DEF CommitTransfer, Available
  <1>3. /\ volume' \in [Locations -> Int]
        /\ incoming' \in [Products -> Nat]
        /\ sold' \in [Products -> Nat]
    BY <1>1 DEF CommitTransfer, StockInv
  <1>4. /\ inv' = [inv EXCEPT ![src].onHand = @ - k.quantity, ![dst].onHand = @ + k.quantity]
        /\ lots' = [lots EXCEPT ![src] = KeptLots(@, k.quantity),
                                ![dst] = MergeLots(@, TakenLots(lots[src], k.quantity))]
    BY DEF CommitTransfer
  <1>5. RequestInv'
    BY CloseInv DEF CommitTransfer, RequestInv
  <1> HIDE DEF k, src, dst
  <1>6. StockInv'
    BY <1>1, <1>2, <1>3, <1>4, Moved
  <1>7. QED
    BY <1>5, <1>6

\* receiveStock adds a lot and its units.
LEMMA CommitReceiveInv ==
    ASSUME StockInv, RequestInv, NEW c \in Requests, NEW e \in Epochs, CommitReceive(c, e)
    PROVE  StockInv' /\ RequestInv'
  <1> DEFINE k == call[c]
             dst == <<k.product, k.to>>
  <1>1. dst \in Rows /\ k.product \in Products /\ k.to \in Locations /\ k.quantity \in Nat
    BY RunningCall DEF CommitReceive, Running, Rows
  <1>2. /\ volume' \in [Locations -> Int]
        /\ incoming' \in [Products -> Nat]
        /\ sold' \in [Products -> Nat]
    BY <1>1 DEF CommitReceive, StockInv
  <1>3. /\ inv' = [inv EXCEPT ![dst].onHand = @ + k.quantity]
        /\ lots' = [lots EXCEPT ![dst] = AddLot(@, e, k.quantity)]
    BY DEF CommitReceive
  <1>4. RequestInv'
    BY CloseInv DEF CommitReceive, RequestInv
  <1> HIDE DEF k, dst
  <1>5. StockInv'
    BY <1>1, <1>2, <1>3, Added
  <1>6. QED
    BY <1>4, <1>5

\* sellStock takes no more than is available.
LEMMA CommitSellInv ==
    ASSUME StockInv, RequestInv, NEW c \in Requests, CommitSell(c)
    PROVE  StockInv' /\ RequestInv'
  <1> DEFINE k == call[c]
             src == <<k.product, k.from>>
  <1>1. /\ src \in Rows /\ k.product \in Products /\ k.from \in Locations /\ k.quantity \in Nat
        /\ Available(seen[c].row) >= k.quantity
    BY RunningCall DEF CommitSell, Running, Admitted, Rows
  <1>2. /\ inv[src].onHand - inv[src].reserved >= k.quantity
        /\ LotsTotal(lots[src]) >= k.quantity
    BY <1>1 DEF CommitSell, Available
  <1>3. /\ volume' \in [Locations -> Int]
        /\ incoming' \in [Products -> Nat]
        /\ sold' \in [Products -> Nat]
    BY <1>1 DEF CommitSell, StockInv
  <1>4. /\ inv' = [inv EXCEPT ![src].onHand = @ - k.quantity]
        /\ lots' = [lots EXCEPT ![src] = KeptLots(@, k.quantity)]
    BY DEF CommitSell
  <1>5. RequestInv'
    BY CloseInv DEF CommitSell, RequestInv
  <1> HIDE DEF k, src
  <1>6. StockInv'
    BY <1>1, <1>2, <1>3, <1>4, Taken
  <1>7. QED
    BY <1>5, <1>6

\* reserveInventory sets aside no more than is available.
LEMMA CommitReserveInv ==
    ASSUME StockInv, RequestInv, NEW c \in Requests, NEW r \in Reservations, CommitReserve(c, r)
    PROVE  StockInv' /\ RequestInv'
  <1> DEFINE k == call[c]
             row == <<k.product, k.from>>
             made == [status |-> "ACTIVE", product |-> k.product, location |-> k.from, quantity |-> k.quantity]
  <1>1. /\ row \in Rows /\ k.quantity \in Nat
        /\ Available(seen[c].row) >= k.quantity
        /\ made \in Reservation
    BY RunningCall DEF CommitReserve, Running, Admitted, Rows, Reservation
  <1>2. reservation' = [reservation EXCEPT ![r] = made]
    BY DEF CommitReserve
  <1>3. /\ reservation' \in [Reservations -> Reservation \cup {NoReservation}]
        /\ \A i \in Reservations : reservation[i] # NoReservation => reservation'[i] # NoReservation
    <2> HIDE DEF made
    <2>1. QED
      BY <1>1, <1>2, CallShape DEF RequestInv
  <1>4. RequestInv'
    BY <1>3, CloseInv DEF CommitReserve
  <1>5. /\ inv[row] \in InventoryRecord
        /\ inv[row].onHand - inv[row].reserved >= k.quantity
        /\ UNCHANGED <<lots, volume, incoming, sold>>
    BY <1>1 DEF CommitReserve, Available, StockInv
  <1>6. inv' = [inv EXCEPT ![row].reserved = inv[row].reserved + k.quantity]
    BY DEF CommitReserve
  <1>7. /\ inv[row].reserved + k.quantity \in Nat
        /\ inv[row].reserved + k.quantity <= inv[row].onHand
    BY <1>1, <1>5 DEF InventoryRecord
  <1> HIDE DEF k, row
  <1>8. StockInv'
    BY <1>1, <1>5, <1>6, <1>7, Held
  <1>9. QED
    BY <1>4, <1>8

\* releaseReservation gives back what is reserved at least.
LEMMA CommitReleaseInv ==
    ASSUME StockInv, RequestInv, NEW c \in Requests, CommitRelease(c)
    PROVE  StockInv' /\ RequestInv'
  <1> DEFINE k == call[c]
             row == <<k.product, k.from>>
  <1>1. /\ row \in Rows /\ k.quantity \in Nat
        /\ k.id # None => k.id \in Reservations /\ reservation[k.id] # NoReservation
    BY RunningCall DEF CommitRelease, Running, Admitted, Rows
  <1>2. ASSUME NEW r \in Reservations
        PROVE  /\ reservation'[r] \in Reservation \cup {NoReservation}
               /\ reservation[r] # NoReservation => reservation'[r] # NoReservation
    <2>1. CASE r = k.id
      <3>1. reservation[r] \in Reservation
        BY <1>1, <2>1, NoneAssumption DEF RequestInv
      <3>2. reservation'[r] = [reservation[r] EXCEPT !.status = "RELEASED"]
        BY <2>1 DEF CommitRelease
      <3>3. QED
        BY <3>1, <3>2, CallShape DEF Reservation
    <2>2. CASE r # k.id
      BY <2>2 DEF CommitRelease, RequestInv
    <2>3. QED
      BY <2>1, <2>2
  <1>3. reservation' \in [Reservations -> Reservation \cup {NoReservation}]
    BY <1>2 DEF CommitRelease
  <1>4. RequestInv'
    BY <1>2, <1>3, CloseInv DEF CommitRelease
  <1>5. /\ inv[row] \in InventoryRecord
        /\ inv[row].reserved >= k.quantity
        /\ inv[row].reserved <= inv[row].onHand
        /\ UNCHANGED <<lots, volume, incoming, sold>>
    BY <1>1 DEF CommitRelease, StockInv, NoOversell
  <1>6. inv' = [inv EXCEPT ![row].reserved = inv[row].reserved - k.quantity]
    BY DEF CommitRelease
  <1>7. /\ inv[row].reserved - k.quantity \in Nat
        /\ inv[row].reserved - k.quantity <= inv[row].onHand
    BY <1>1, <1>5 DEF InventoryRecord
  <1> HIDE DEF k, row
  <1>8. StockInv'
    BY <1>1, <1>5, <1>6, <1>7, Held
  <1>9. QED
    BY <1>4, <1>8

\* So does the expiry, by the CHECK of the table.
LEMMA CommitExpireInv ==
    ASSUME StockInv, RequestInv, NEW c \in Requests, CommitExpire(c)
    PROVE  StockInv' /\ RequestInv'
  <1> DEFINE k == call[c]
             row == <<k.product, k.from>>
             done == [reservation[k.id] EXCEPT !.status = "EXPIRED"]
  <1>1. /\ row \in Rows /\ k.quantity \in Nat
        /\ k.id \in Reservations /\ reservation[k.id] # NoReservation
    BY RunningCall DEF CommitExpire, Running, Admitted, Rows
  <1>2. done \in Reservation /\ reservation' = [reservation EXCEPT ![k.id] = done]
    BY <1>1 DEF CommitExpire, RequestInv, Reservation
  <1>3. /\ reservation' \in [Reservations -> Reservation \cup {NoReservation}]
        /\ \A r \in Reservations : reservation[r] # NoReservation => reservation'[r] # NoReservation
    <2> HIDE DEF done
    <2>1. QED
      BY <1>1, <1>2, CallShape DEF RequestInv
  <1>4. RequestInv'
    BY <1>3, CloseInv DEF CommitExpire
  <1>5. /\ inv[row] \in InventoryRecord
        /\ inv[row].reserved >= k.quantity
        /\ inv[row].reserved <= inv[row].onHand
        /\ UNCHANGED <<lots, volume, incoming, sold>>
    BY <1>1 DEF CommitExpire, StockInv, NoOversell
  <1>6. inv' = [inv EXCEPT ![row].reserved = inv[row].reserved - k.quantity]
    BY DEF CommitExpire
  <1>7. /\ inv[row].reserved - k.quantity \in Nat
        /\ inv[row].reserved - k.quantity <= inv[row].onHand
    BY <1>1, <1>5 DEF InventoryRecord
  <1> HIDE DEF k, row
  <1>8. StockInv'
    BY <1>1, <1>5, <1>6, <1>7, Held
  <1>9. QED
    BY <1>4, <1>8

-----------------------------------------------------------------------------
(* The rest of the next-state relation, and the theorems *)

\* A request that ends without a write.
LEMMA AbortInv ==
    ASSUME StockInv, RequestInv, NEW c \in Requests, Abort(c)
    PROVE  StockInv' /\ RequestInv'
  <1>1. StockInv'
    BY StockStutter DEF Abort
  <1>2. RequestInv'
    BY CloseInv DEF Abort, RequestInv
  <1>3. QED
    BY <1>1, <1>2

\* The updates of a warehouse leave the stock alone.
LEMMA WarehouseInv ==
    ASSUME IInv, NEW w \in Warehouses, NEW s \in {"ACTIVE", "CLOSED"},
           SetWarehouseStatus(w, s) \/ HideWarehouse(w)
    PROVE  IInv'
  <1>1. StockInv /\ RequestInv /\ PlacesInv
    BY Halves
  <1>2. UNCHANGED stock /\ UNCHANGED <<requests, reservation>>
    BY DEF SetWarehouseStatus, HideWarehouse
  <1>3. PlacesInv'
    BY <1>1 DEF SetWarehouseStatus, HideWarehouse, PlacesInv, Status
  <1>4. QED
    BY <1>1, <1>2, <1>3, StockStutter, RequestsStutter, HalvesNext

\* So does the update of a location, its volume apart.
LEMMA UpdateLocationInv ==
    ASSUME IInv, NEW l \in Locations, NEW cap \in Capacities, NEW w \in Warehouses,
           NEW vol \in PatchedVolumes \cup {volume[l]}, UpdateLocation(l, cap, vol, w)
    PROVE  IInv'
  <1>1. StockInv /\ RequestInv /\ PlacesInv
    BY Halves
  <1>2. vol \in Int
    BY <1>1, PatchedVolumesAssumption DEF StockInv
  <1>3. StockInv'
    BY <1>1, <1>2 DEF UpdateLocation, StockInv, NoOversell, LotsMatchAggregate
  <1>4. stale' \in [Requests -> BOOLEAN]
    BY <1>1 DEF UpdateLocation, RequestInv
  <1>5. RequestInv'
    BY <1>1, <1>4 DEF UpdateLocation, RequestInv, ChecksHold, Admitted, Available
  <1>6. PlacesInv'
    BY <1>1 DEF UpdateLocation, PlacesInv
  <1>7. QED
    BY <1>3, <1>5, <1>6, HalvesNext

\* Every step keeps the invariant.
LEMMA NextInv == IInv /\ [Next]_vars => IInv'
  <1> SUFFICES ASSUME IInv, [Next]_vars PROVE IInv'
    OBVIOUS
  <1>1. StockInv /\ RequestInv /\ PlacesInv
    BY Halves
  <1>2. ASSUME NEW c \in Requests, NEW p \in Products, NEW q \in Quantities, NEW l \in Locations,
               \/ \E to \in Locations : BeginTransfer(c, p, l, to, q)
               \/ BeginReceive(c, p, l, q)
               \/ BeginSell(c, p, l, q)
               \/ BeginReserve(c, p, l, q)
               \/ \E id \in Reservations \cup {None} : BeginRelease(c, p, l, q, id)
        PROVE  IInv'
    <2>1. RequestInv'
      BY <1>1, <1>2, BeginTransferInv, BeginReceiveInv, BeginSellInv, BeginReserveInv, BeginReleaseInv
    <2>2. UNCHANGED stock /\ UNCHANGED places
      BY <1>2 DEF BeginTransfer, BeginReceive, BeginSell, BeginReserve, BeginRelease
    <2>3. QED
      BY <1>1, <2>1, <2>2, StockStutter, PlacesStutter, HalvesNext
  <1>3. ASSUME NEW c \in Requests, FindReservation(c) \/ (\E r \in Reservations : BeginExpire(c, r))
        PROVE  IInv'
    <2>1. RequestInv'
      BY <1>1, <1>3, FindReservationInv, BeginExpireInv
    <2>2. UNCHANGED stock /\ UNCHANGED places
      BY <1>3 DEF FindReservation, BeginExpire
    <2>3. QED
      BY <1>1, <2>1, <2>2, StockStutter, PlacesStutter, HalvesNext
  <1>4. ASSUME NEW c \in Requests,
               \/ CommitTransfer(c)
               \/ \E e \in Epochs : CommitReceive(c, e)
               \/ CommitSell(c)
               \/ \E r \in Reservations : CommitReserve(c, r)
               \/ CommitRelease(c)
               \/ CommitExpire(c)
               \/ Abort(c)
        PROVE  IInv'
    <2>1. StockInv' /\ RequestInv'
      BY <1>1, <1>4, CommitTransferInv, CommitReceiveInv, CommitSellInv, CommitReserveInv,
         CommitReleaseInv, CommitExpireInv, AbortInv
    <2>2. UNCHANGED places
      BY <1>4 DEF CommitTransfer, CommitReceive, CommitSell, CommitReserve, CommitRelease, CommitExpire, Abort
    <2>3. QED
      BY <1>1, <2>1, <2>2, PlacesStutter, HalvesNext
  <1>5. ASSUME NEW w \in Warehouses,
               (\E s \in {"ACTIVE", "CLOSED"} : SetWarehouseStatus(w, s)) \/ HideWarehouse(w)
        PROVE  IInv'
    BY <1>5, WarehouseInv
  <1>6. ASSUME NEW l \in Locations, NEW cap \in Capacities, NEW w \in Warehouses,
               \E vol \in PatchedVolumes \cup {volume[l]} : UpdateLocation(l, cap, vol, w)
        PROVE  IInv'
    BY <1>6, UpdateLocationInv
  <1>7. CASE UNCHANGED vars
    <2>1. UNCHANGED stock /\ UNCHANGED places /\ UNCHANGED <<requests, reservation>>
      BY <1>7 DEF vars
    <2>2. QED
      BY <1>1, <2>1, StockStutter, PlacesStutter, RequestsStutter, HalvesNext
  <1>8. QED
    BY <1>2, <1>3, <1>4, <1>5, <1>6, <1>7 DEF Next

\* The inductive invariant: the stock, its lots, and what each request in
\* flight has checked hold together in every reachable state.
THEOREM Invariance == Spec => []IInv
  BY InitInv, NextInv, PTL DEF Spec

\* The types of InventoryService: every row, request and reservation stays in
\* its domain, the quantities the database constrains never negative.
THEOREM TypeCorrect == Spec => []TypeOK
  <1>1. IInv => TypeOK
    BY DEF IInv
  <1>2. QED
    BY <1>1, Invariance, PTL

\* No interleaving of requests promises more units than are on hand.
THEOREM NeverOversold == Spec => []NoOversell
  <1>1. IInv => NoOversell
    BY DEF IInv
  <1>2. QED
    BY <1>1, Invariance, PTL

\* The aggregate row and its lots agree in every reachable state.
THEOREM LotsAlwaysMatch == Spec => []LotsMatchAggregate
  <1>1. IInv => LotsMatchAggregate
    BY DEF IInv
  <1>2. QED
    BY <1>1, Invariance, PTL

-----------------------------------------------------------------------------
(* InventoryService implements StockLedger: a commit is one ledger entry,  *)
(* every other step is a stutter.                                         *)

OnHand == [row \in Rows |-> inv[row].onHand]
Reserved == [row \in Rows |-> inv[row].reserved]

\* A step that writes no row of the ledger is a stutter of it.
LEMMA LedgerStutter == UNCHANGED <<inv, incoming, sold>> => UNCHANGED Ledger!vars
  BY DEF Ledger!vars

\* Each commit is the entry of its kind in the ledger.
LEMMA TransferEntry ==
    ASSUME StockInv, RequestInv, NEW c \in Requests, CommitTransfer(c)
    PROVE  Ledger!Transfer(call[c].product, call[c].from, call[c].to, call[c].quantity)
  <1> DEFINE k == call[c]
             src == <<k.product, k.from>>
             dst == <<k.product, k.to>>
  <1>1. /\ src \in Rows /\ dst \in Rows /\ src # dst /\ k.from # k.to
        /\ k.quantity \in Nat
        /\ Available(seen[c].row) >= k.quantity
    BY RunningCall DEF CommitTransfer, Running, Admitted, Rows
  <1>2. inv[src].onHand - inv[src].reserved >= k.quantity
    BY <1>1 DEF CommitTransfer, Available
  <1>3. inv' = [inv EXCEPT ![src].onHand = @ - k.quantity, ![dst].onHand = @ + k.quantity]
    BY DEF CommitTransfer
  <1>4. UNCHANGED <<incoming, sold>>
    BY DEF CommitTransfer
  <1>5. /\ OnHand' = [OnHand EXCEPT ![src] = @ - k.quantity, ![dst] = @ + k.quantity]
        /\ Reserved' = Reserved
    <2> HIDE DEF k, src, dst
    <2>1. QED
      BY <1>1, <1>3 DEF OnHand, Reserved, StockInv, InventoryRecord
  <1>6. QED
    BY <1>1, <1>2, <1>4, <1>5 DEF Ledger!Transfer, Ledger!Free, OnHand, Reserved, Rows

LEMMA ReceiveEntry ==
    ASSUME StockInv, RequestInv, NEW c \in Requests, NEW e \in Epochs, CommitReceive(c, e)
    PROVE  Ledger!Receive(call[c].product, call[c].to, call[c].quantity)
  <1> DEFINE k == call[c]
             dst == <<k.product, k.to>>
  <1>1. dst \in Rows /\ k.quantity \in Nat
    BY RunningCall DEF CommitReceive, Running, Rows
  <1>2. inv' = [inv EXCEPT ![dst].onHand = @ + k.quantity]
    BY DEF CommitReceive
  <1>3. incoming' = [incoming EXCEPT ![k.product] = @ + k.quantity] /\ UNCHANGED sold
    BY DEF CommitReceive
  <1>4. OnHand' = [OnHand EXCEPT ![dst] = @ + k.quantity] /\ Reserved' = Reserved
    <2> HIDE DEF k, dst
    <2>1. QED
      BY <1>1, <1>2 DEF OnHand, Reserved, StockInv, InventoryRecord
  <1>5. QED
    BY <1>3, <1>4 DEF Ledger!Receive, OnHand, Reserved, Rows

LEMMA SellEntry ==
    ASSUME StockInv, RequestInv, NEW c \in Requests, CommitSell(c)
    PROVE  Ledger!Sell(call[c].product, call[c].from, call[c].quantity)
  <1> DEFINE k == call[c]
             src == <<k.product, k.from>>
  <1>1. src \in Rows /\ k.quantity \in Nat /\ Available(seen[c].row) >= k.quantity
    BY RunningCall DEF CommitSell, Running, Admitted, Rows
  <1>2. inv[src].onHand - inv[src].reserved >= k.quantity
    BY <1>1 DEF CommitSell, Available
  <1>3. inv' = [inv EXCEPT ![src].onHand = @ - k.quantity]
    BY DEF CommitSell
  <1>4. sold' = [sold EXCEPT ![k.product] = @ + k.quantity] /\ UNCHANGED incoming
    BY DEF CommitSell
  <1>5. OnHand' = [OnHand EXCEPT ![src] = @ - k.quantity] /\ Reserved' = Reserved
    <2> HIDE DEF k, src
    <2>1. QED
      BY <1>1, <1>3 DEF OnHand, Reserved, StockInv, InventoryRecord
  <1>6. QED
    BY <1>1, <1>2, <1>4, <1>5 DEF Ledger!Sell, Ledger!Free, OnHand, Reserved, Rows

LEMMA ReserveEntry ==
    ASSUME StockInv, RequestInv, NEW c \in Requests, NEW r \in Reservations, CommitReserve(c, r)
    PROVE  Ledger!Hold(call[c].product, call[c].from, call[c].quantity)
  <1> DEFINE k == call[c]
             row == <<k.product, k.from>>
  <1>1. row \in Rows /\ k.quantity \in Nat /\ Available(seen[c].row) >= k.quantity
    BY RunningCall DEF CommitReserve, Running, Admitted, Rows
  <1>2. inv[row].onHand - inv[row].reserved >= k.quantity
    BY <1>1 DEF CommitReserve, Available
  <1>3. inv' = [inv EXCEPT ![row].reserved = @ + k.quantity] /\ UNCHANGED <<incoming, sold>>
    BY DEF CommitReserve
  <1>4. Reserved' = [Reserved EXCEPT ![row] = @ + k.quantity] /\ OnHand' = OnHand
    <2> HIDE DEF k, row
    <2>1. QED
      BY <1>1, <1>3 DEF OnHand, Reserved, StockInv, InventoryRecord
  <1>5. QED
    BY <1>1, <1>2, <1>3, <1>4 DEF Ledger!Hold, Ledger!Free, OnHand, Reserved, Rows

\* A release by its holder and an expiry are the same entry.
LEMMA ReleaseEntry ==
    ASSUME StockInv, RequestInv, NEW c \in Requests, CommitRelease(c) \/ CommitExpire(c)
    PROVE  Ledger!Unhold(call[c].product, call[c].from, call[c].quantity)
  <1> DEFINE k == call[c]
             row == <<k.product, k.from>>
  <1>1. row \in Rows /\ k.quantity \in Nat
    BY RunningCall DEF CommitRelease, CommitExpire, Running, Rows
  <1>2. inv[row].reserved >= k.quantity
    BY DEF CommitRelease, CommitExpire
  <1>3. inv' = [inv EXCEPT ![row].reserved = @ - k.quantity] /\ UNCHANGED <<incoming, sold>>
    BY DEF CommitRelease, CommitExpire
  <1>4. Reserved' = [Reserved EXCEPT ![row] = @ - k.quantity] /\ OnHand' = OnHand
    <2> HIDE DEF k, row
    <2>1. QED
      BY <1>1, <1>3 DEF OnHand, Reserved, StockInv, InventoryRecord
  <1>5. QED
    BY <1>1, <1>2, <1>3, <1>4 DEF Ledger!Unhold, OnHand, Reserved, Rows

\* The ledger is empty at first.
LEMMA InitEntry == Init => Ledger!Init
  BY DEF Init, Ledger!Init, Rows

\* Every step is an entry of the ledger or a stutter of it.
LEMMA StepEntry == IInv /\ [Next]_vars => [Ledger!Next]_(Ledger!vars)
  <1> SUFFICES ASSUME IInv, [Next]_vars PROVE [Ledger!Next]_(Ledger!vars)
    OBVIOUS
  <1>1. StockInv /\ RequestInv
    BY Halves
  <1>2. ASSUME NEW c \in Requests,
               \/ CommitTransfer(c)
               \/ \E e \in Epochs : CommitReceive(c, e)
               \/ CommitSell(c)
               \/ \E r \in Reservations : CommitReserve(c, r)
               \/ CommitRelease(c)
               \/ CommitExpire(c)
        PROVE  Ledger!Next
    <2>1. call[c] # NoCall
      BY <1>2 DEF CommitTransfer, CommitReceive, CommitSell, CommitReserve, CommitRelease, CommitExpire, Running
    <2>2. /\ call[c].product \in Products /\ call[c].from \in Locations
          /\ call[c].to \in Locations /\ call[c].quantity \in Quantities
      BY <1>1, <2>1, RunningCall
    <2>3. CASE CommitTransfer(c)
      <3>1. Ledger!Transfer(call[c].product, call[c].from, call[c].to, call[c].quantity)
        BY <1>1, <2>3, TransferEntry
      <3>2. QED
        BY <2>2, <3>1 DEF Ledger!Next, Ledger!Transfer
    <2>4. CASE \E e \in Epochs : CommitReceive(c, e)
      <3>1. Ledger!Receive(call[c].product, call[c].to, call[c].quantity)
        BY <1>1, <2>4, ReceiveEntry
      <3>2. QED
        BY <2>2, <3>1 DEF Ledger!Next, Ledger!Receive
    <2>5. CASE CommitSell(c)
      <3>1. Ledger!Sell(call[c].product, call[c].from, call[c].quantity)
        BY <1>1, <2>5, SellEntry
      <3>2. QED
        BY <2>2, <3>1 DEF Ledger!Next, Ledger!Sell
    <2>6. CASE \E r \in Reservations : CommitReserve(c, r)
      <3>1. Ledger!Hold(call[c].product, call[c].from, call[c].quantity)
        BY <1>1, <2>6, ReserveEntry
      <3>2. QED
        BY <2>2, <3>1 DEF Ledger!Next, Ledger!Hold
    <2>7. CASE CommitRelease(c) \/ CommitExpire(c)
      <3>1. Ledger!Unhold(call[c].product, call[c].from, call[c].quantity)
        BY <1>1, <2>7, ReleaseEntry
      <3>2. QED
        BY <2>2, <3>1 DEF Ledger!Next, Ledger!Unhold
    <2>8. QED
      BY <1>2, <2>3, <2>4, <2>5, <2>6, <2>7
  <1>3. ASSUME NEW c \in Requests, NEW p \in Products, NEW q \in Quantities, NEW l \in Locations,
               \/ \E to \in Locations : BeginTransfer(c, p, l, to, q)
               \/ BeginReceive(c, p, l, q)
               \/ BeginSell(c, p, l, q)
               \/ BeginReserve(c, p, l, q)
               \/ \E id \in Reservations \cup {None} : BeginRelease(c, p, l, q, id)
        PROVE  UNCHANGED <<inv, incoming, sold>>
    BY <1>3 DEF BeginTransfer, BeginReceive, BeginSell, BeginReserve, BeginRelease, stock
  <1>4. ASSUME NEW c \in Requests,
               FindReservation(c) \/ (\E r \in Reservations : BeginExpire(c, r)) \/ Abort(c)
        PROVE  UNCHANGED <<inv, incoming, sold>>
    BY <1>4 DEF FindReservation, BeginExpire, Abort, stock
  <1>5. ASSUME NEW w \in Warehouses,
               (\E s \in {"ACTIVE", "CLOSED"} : SetWarehouseStatus(w, s)) \/ HideWarehouse(w)
        PROVE  UNCHANGED <<inv, incoming, sold>>
    BY <1>5 DEF SetWarehouseStatus, HideWarehouse, stock
  <1>6. ASSUME NEW l \in Locations, NEW cap \in Capacities, NEW w \in Warehouses,
               \E vol \in PatchedVolumes \cup {volume[l]} : UpdateLocation(l, cap, vol, w)
        PROVE  UNCHANGED <<inv, incoming, sold>>
    BY <1>6 DEF UpdateLocation
  <1>7. CASE UNCHANGED vars
    BY <1>7, LedgerStutter DEF vars, stock
  <1>8. QED
    BY <1>2, <1>3, <1>4, <1>5, <1>6, <1>7, LedgerStutter DEF Next

\* Every behaviour of the inventory service is one of the ledger: what a
\* request checked on values it read earlier is still so when it commits.
THEOREM Refinement == Spec => ImplementsLedger
  <1>1. Init => Ledger!Init
    BY InitEntry
  <1>2. IInv /\ [Next]_vars => [Ledger!Next]_(Ledger!vars)
    BY StepEntry
  <1>3. QED
    BY <1>1, <1>2, Invariance, PTL DEF Spec, ImplementsLedger, Ledger!Spec

-----------------------------------------------------------------------------
(* Sums over the rows of the stock *)

\* The units h of the rows of a product, and of the rows of a location.
OfProduct(h, p) == SumFunction([l \in Locations |-> h[<<p, l>>]])
AtLocation(h, l) == SumFunction([p \in Products |-> h[<<p, l>>]])

\* Sums are over finite tables.
LEMMA FiniteTables == IsFiniteSet(Products) /\ IsFiniteSet(Locations) /\ IsFiniteSet(Reservations)
  BY TablesAssumption

\* The units d are the units h but for the row of r at m.
OneRow(h, d, r, m) ==
    /\ h \in [Rows -> Int]
    /\ d \in [Rows -> Int]
    /\ \A row \in Rows \ {<<r, m>>} : d[row] = h[row]

\* The units d are the units h with q of them moved from m to n.
TwoRows(h, d, r, m, n, q) ==
    /\ h \in [Rows -> Int]
    /\ d \in [Rows -> Int]
    /\ m # n
    /\ d[<<r, m>>] = h[<<r, m>>] - q
    /\ d[<<r, n>>] = h[<<r, n>>] + q
    /\ \A row \in Rows \ {<<r, m>>, <<r, n>>} : d[row] = h[row]

\* Sums of rows are integers.
LEMMA RowSumTypes ==
    ASSUME NEW h \in [Rows -> Int]
    PROVE  /\ \A p \in Products : OfProduct(h, p) \in Int
           /\ \A l \in Locations : AtLocation(h, l) \in Int
  <1>1. ASSUME NEW p \in Products PROVE OfProduct(h, p) \in Int
    <2>1. [l \in Locations |-> h[<<p, l>>]] \in [Locations -> Int]
      BY DEF Rows
    <2>2. QED
      BY <2>1, FiniteTables, SumFunctionType DEF OfProduct
  <1>2. ASSUME NEW l \in Locations PROVE AtLocation(h, l) \in Int
    <2>1. [p \in Products |-> h[<<p, l>>]] \in [Products -> Int]
      BY DEF Rows
    <2>2. QED
      BY <2>1, FiniteTables, SumFunctionType DEF AtLocation
  <1>3. QED
    BY <1>1, <1>2

\* What one row changes by, its product and its location change by.
LEMMA RowSums ==
    ASSUME NEW h, NEW d, NEW r \in Products, NEW m \in Locations, OneRow(h, d, r, m)
    PROVE  /\ OfProduct(d, r) = OfProduct(h, r) + d[<<r, m>>] - h[<<r, m>>]
           /\ AtLocation(d, m) = AtLocation(h, m) + d[<<r, m>>] - h[<<r, m>>]
  <1>1. OfProduct(d, r) = OfProduct(h, r) + d[<<r, m>>] - h[<<r, m>>]
    <2> DEFINE f == [l \in Locations |-> h[<<r, l>>]]
               g == [l \in Locations |-> d[<<r, l>>]]
    <2>1. f \in [Locations -> Int] /\ g \in [Locations -> Int]
      BY DEF OneRow, Rows
    <2>2. \A l \in Locations \ {m} : g[l] = f[l]
      BY DEF OneRow, Rows
    <2>3. g[m] = d[<<r, m>>] /\ f[m] = h[<<r, m>>]
      OBVIOUS
    <2>4. OfProduct(d, r) = SumFunction(g) /\ OfProduct(h, r) = SumFunction(f)
      BY DEF OfProduct
    <2> HIDE DEF f, g
    <2>5. SumFunction(g) = SumFunction(f) + g[m] - f[m]
      BY <2>1, <2>2, FiniteTables, SumFunctionChange
    <2>6. QED
      BY <2>3, <2>4, <2>5
  <1>2. AtLocation(d, m) = AtLocation(h, m) + d[<<r, m>>] - h[<<r, m>>]
    <2> DEFINE f == [p \in Products |-> h[<<p, m>>]]
               g == [p \in Products |-> d[<<p, m>>]]
    <2>1. f \in [Products -> Int] /\ g \in [Products -> Int]
      BY DEF OneRow, Rows
    <2>2. \A p \in Products \ {r} : g[p] = f[p]
      BY DEF OneRow, Rows
    <2>3. g[r] = d[<<r, m>>] /\ f[r] = h[<<r, m>>]
      OBVIOUS
    <2>4. AtLocation(d, m) = SumFunction(g) /\ AtLocation(h, m) = SumFunction(f)
      BY DEF AtLocation
    <2> HIDE DEF f, g
    <2>5. SumFunction(g) = SumFunction(f) + g[r] - f[r]
      BY <2>1, <2>2, FiniteTables, SumFunctionChange
    <2>6. QED
      BY <2>3, <2>4, <2>5
  <1>3. QED
    BY <1>1, <1>2

\* No other product or location changes with it.
LEMMA OtherProducts ==
    ASSUME NEW h, NEW d, NEW r \in Products, NEW m \in Locations, OneRow(h, d, r, m),
           NEW p \in Products, p # r
    PROVE  OfProduct(d, p) = OfProduct(h, p)
  <1>1. [l \in Locations |-> d[<<p, l>>]] = [l \in Locations |-> h[<<p, l>>]]
    BY DEF OneRow, Rows
  <1>2. QED
    BY <1>1 DEF OfProduct

\* ... nor does any other location.
LEMMA OtherLocations ==
    ASSUME NEW h, NEW d, NEW r \in Products, NEW m \in Locations, OneRow(h, d, r, m),
           NEW l \in Locations, l # m
    PROVE  AtLocation(d, l) = AtLocation(h, l)
  <1>1. [p \in Products |-> d[<<p, l>>]] = [p \in Products |-> h[<<p, l>>]]
    BY DEF OneRow, Rows
  <1>2. QED
    BY <1>1 DEF AtLocation

\* Units moved between two locations, as two changes of one row.
LEMMA MoveInTwo ==
    ASSUME NEW h, NEW d, NEW r \in Products, NEW m \in Locations, NEW n \in Locations, NEW q \in Int,
           TwoRows(h, d, r, m, n, q)
    PROVE  \E e : OneRow(h, e, r, m) /\ OneRow(e, d, r, n)
  <1>1. <<r, m>> \in Rows /\ <<r, n>> \in Rows /\ <<r, m>> # <<r, n>>
    BY DEF Rows, TwoRows
  <1>2. PICK e : e = [h EXCEPT ![<<r, m>>] = d[<<r, m>>]]
    OBVIOUS
  <1>3. OneRow(h, e, r, m) /\ OneRow(e, d, r, n)
    BY <1>1, <1>2 DEF OneRow, TwoRows
  <1>4. QED
    BY <1>3

\* What a move takes from the location it leaves,
LEMMA MoveFrom ==
    ASSUME NEW h, NEW d, NEW r \in Products, NEW m \in Locations, NEW n \in Locations, NEW q \in Int,
           TwoRows(h, d, r, m, n, q)
    PROVE  AtLocation(d, m) = AtLocation(h, m) - q
  <1>1. PICK e : OneRow(h, e, r, m) /\ OneRow(e, d, r, n)
    BY MoveInTwo
  <1>2. m # n /\ h \in [Rows -> Int] /\ <<r, m>> \in Rows /\ <<r, m>> # <<r, n>>
    BY DEF TwoRows, Rows
  <1>3. AtLocation(e, m) = AtLocation(h, m) + e[<<r, m>>] - h[<<r, m>>]
    BY <1>1, RowSums
  <1>4. AtLocation(d, m) = AtLocation(e, m)
    BY <1>1, <1>2, OtherLocations
  <1>5. AtLocation(h, m) \in Int
    BY <1>2, RowSumTypes
  <1>6. h[<<r, m>>] \in Int /\ e[<<r, m>>] = h[<<r, m>>] - q
    BY <1>1, <1>2 DEF OneRow, TwoRows
  <1>7. QED
    BY <1>3, <1>4, <1>5, <1>6

\* what it adds to the one it goes to,
LEMMA MoveTo ==
    ASSUME NEW h, NEW d, NEW r \in Products, NEW m \in Locations, NEW n \in Locations, NEW q \in Int,
           TwoRows(h, d, r, m, n, q)
    PROVE  AtLocation(d, n) = AtLocation(h, n) + q
  <1>1. PICK e : OneRow(h, e, r, m) /\ OneRow(e, d, r, n)
    BY MoveInTwo
  <1>2. m # n /\ h \in [Rows -> Int] /\ <<r, n>> \in Rows /\ <<r, m>> # <<r, n>>
    BY DEF TwoRows, Rows
  <1>3. AtLocation(d, n) = AtLocation(e, n) + d[<<r, n>>] - e[<<r, n>>]
    BY <1>1, RowSums
  <1>4. AtLocation(e, n) = AtLocation(h, n)
    BY <1>1, <1>2, OtherLocations
  <1>5. AtLocation(h, n) \in Int
    BY <1>2, RowSumTypes
  <1>6. e[<<r, n>>] \in Int /\ d[<<r, n>>] = e[<<r, n>>] + q
    BY <1>1, <1>2 DEF OneRow, TwoRows
  <1>7. QED
    BY <1>3, <1>4, <1>5, <1>6

\* and that nothing else changes: no other location,
LEMMA MoveOthers ==
    ASSUME NEW h, NEW d, NEW r \in Products, NEW m \in Locations, NEW n \in Locations, NEW q \in Int,
           TwoRows(h, d, r, m, n, q), NEW l \in Locations, l # m, l # n
    PROVE  AtLocation(d, l) = AtLocation(h, l)
  <1>1. PICK e : OneRow(h, e, r, m) /\ OneRow(e, d, r, n)
    BY MoveInTwo
  <1>2. AtLocation(e, l) = AtLocation(h, l) /\ AtLocation(d, l) = AtLocation(e, l)
    BY <1>1, OtherLocations
  <1>3. QED
    BY <1>2

\* and no product, over all locations.
LEMMA MoveProducts ==
    ASSUME NEW h, NEW d, NEW r \in Products, NEW m \in Locations, NEW n \in Locations, NEW q \in Int,
           TwoRows(h, d, r, m, n, q), NEW p \in Products
    PROVE  OfProduct(d, p) = OfProduct(h, p)
  <1>1. PICK e : OneRow(h, e, r, m) /\ OneRow(e, d, r, n)
    BY MoveInTwo
  <1>2. CASE p = r
    <2>1. h \in [Rows -> Int] /\ <<r, m>> \in Rows /\ <<r, n>> \in Rows /\ <<r, m>> # <<r, n>>
      BY DEF TwoRows, Rows
    <2>2. OfProduct(e, r) = OfProduct(h, r) + e[<<r, m>>] - h[<<r, m>>]
      BY <1>1, RowSums
    <2>3. OfProduct(d, r) = OfProduct(e, r) + d[<<r, n>>] - e[<<r, n>>]
      BY <1>1, RowSums
    <2>4. OfProduct(h, r) \in Int
      BY <2>1, RowSumTypes
    <2>5. /\ h[<<r, m>>] \in Int /\ e[<<r, n>>] \in Int
          /\ e[<<r, m>>] = h[<<r, m>>] - q /\ d[<<r, n>>] = e[<<r, n>>] + q
      BY <1>1, <2>1 DEF OneRow, TwoRows
    <2>6. QED
      BY <1>2, <2>2, <2>3, <2>4, <2>5
  <1>3. CASE p # r
    BY <1>1, <1>3, OtherProducts
  <1>4. QED
    BY <1>2, <1>3

-----------------------------------------------------------------------------
(* What the ledger adds up to *)

\* The units on hand, row by row, before and after a step.
LEMMA OnHandRows ==
    ASSUME StockInv
    PROVE  /\ OnHand \in [Rows -> Nat]
           /\ \A row \in Rows : OnHand[row] = inv[row].onHand
  BY DEF StockInv, OnHand, InventoryRecord

LEMMA OnHandRowsNext ==
    ASSUME StockInv'
    PROVE  /\ OnHand' \in [Rows -> Nat]
           /\ \A row \in Rows : OnHand'[row] = inv'[row].onHand
  BY DEF StockInv, OnHand, InventoryRecord

\* The ledger is balanced: what was received of a product and was not sold is
\* in its rows.
Balanced(onHand, received, gone) == \A p \in Products : received[p] = gone[p] + OfProduct(onHand, p)

\* That units reconcile is that the ledger is balanced.
LEMMA ReconcileIsBalanced == StockInv => (UnitsReconcile <=> Balanced(OnHand, incoming, sold))
  <1> SUFFICES ASSUME StockInv
               PROVE  UnitsReconcile <=> Balanced(OnHand, incoming, sold)
    OBVIOUS
  <1>1. ASSUME NEW p \in Products
        PROVE  [l \in Locations |-> inv[<<p, l>>].onHand] = [l \in Locations |-> OnHand[<<p, l>>]]
    BY OnHandRows DEF Rows
  <1>2. QED
    BY <1>1 DEF UnitsReconcile, Balanced, OfProduct

\* An empty ledger is balanced.
LEMMA InitBalanced == Init => Balanced(OnHand, incoming, sold)
  <1> SUFFICES ASSUME Init, NEW p \in Products
               PROVE  incoming[p] = sold[p] + OfProduct(OnHand, p)
    BY DEF Balanced
  <1>1. \A l \in Locations : OnHand[<<p, l>>] = 0
    BY DEF Init, OnHand, Rows
  <1>2. OfProduct(OnHand, p) = 0
    BY <1>1, FiniteTables, SumOfZeros DEF OfProduct
  <1>3. QED
    BY <1>2 DEF Init

\* Every entry leaves the ledger balanced.
LEMMA EntryBalances ==
    ASSUME NEW h \in [Rows -> Int], NEW d \in [Rows -> Int],
           NEW rec \in [Products -> Int], NEW gone \in [Products -> Int], Balanced(h, rec, gone),
           NEW r \in Products, NEW m \in Locations, NEW q \in Int
    PROVE  /\ OneRow(h, d, r, m) /\ d[<<r, m>>] = h[<<r, m>>] + q
                 => Balanced(d, [rec EXCEPT ![r] = @ + q], gone)
           /\ OneRow(h, d, r, m) /\ d[<<r, m>>] = h[<<r, m>>] - q
                 => Balanced(d, rec, [gone EXCEPT ![r] = @ + q])
           /\ \A n \in Locations : TwoRows(h, d, r, m, n, q) => Balanced(d, rec, gone)
  <1>1. /\ \A p \in Products : OfProduct(h, p) \in Int
        /\ <<r, m>> \in Rows
    BY RowSumTypes DEF Rows
  <1>2. ASSUME OneRow(h, d, r, m)
        PROVE  /\ OfProduct(d, r) = OfProduct(h, r) + d[<<r, m>>] - h[<<r, m>>]
               /\ \A p \in Products \ {r} : OfProduct(d, p) = OfProduct(h, p)
    BY <1>2, RowSums, OtherProducts
  <1>3. ASSUME OneRow(h, d, r, m), d[<<r, m>>] = h[<<r, m>>] + q
        PROVE  Balanced(d, [rec EXCEPT ![r] = @ + q], gone)
    BY <1>1, <1>2, <1>3 DEF Balanced
  <1>4. ASSUME OneRow(h, d, r, m), d[<<r, m>>] = h[<<r, m>>] - q
        PROVE  Balanced(d, rec, [gone EXCEPT ![r] = @ + q])
    BY <1>1, <1>2, <1>4 DEF Balanced
  <1>5. ASSUME NEW n \in Locations, TwoRows(h, d, r, m, n, q)
        PROVE  Balanced(d, rec, gone)
    BY <1>5, MoveProducts DEF Balanced
  <1>6. QED
    BY <1>3, <1>4, <1>5

\* The rows that an entry of the ledger changes.
LEMMA EntryRows ==
    ASSUME StockInv, StockInv', NEW r \in Products, NEW m \in Locations, NEW q \in Int
    PROVE  /\ OnHand' = [OnHand EXCEPT ![<<r, m>>] = @ + q]
                 => OneRow(OnHand, OnHand', r, m) /\ OnHand'[<<r, m>>] = OnHand[<<r, m>>] + q
           /\ OnHand' = [OnHand EXCEPT ![<<r, m>>] = @ - q]
                 => OneRow(OnHand, OnHand', r, m) /\ OnHand'[<<r, m>>] = OnHand[<<r, m>>] - q
           /\ \A n \in Locations :
                 m # n /\ OnHand' = [OnHand EXCEPT ![<<r, m>>] = @ - q, ![<<r, n>>] = @ + q]
                 => TwoRows(OnHand, OnHand', r, m, n, q)
  <1>1. OnHand \in [Rows -> Int] /\ OnHand' \in [Rows -> Int]
    BY OnHandRows, OnHandRowsNext
  <1>2. QED
    BY <1>1 DEF OneRow, TwoRows, Rows

\* So every step that is an entry, or none, keeps it balanced.
LEMMA StepBalances ==
    ASSUME StockInv, StockInv', Balanced(OnHand, incoming, sold), [Ledger!Next]_(Ledger!vars)
    PROVE  Balanced(OnHand, incoming, sold)'
  <1> DEFINE Done == Balanced(OnHand', incoming', sold')
  <1>1. /\ OnHand \in [Rows -> Int] /\ OnHand' \in [Rows -> Int]
        /\ incoming \in [Products -> Int] /\ sold \in [Products -> Int]
    BY OnHandRows, OnHandRowsNext DEF StockInv
  <1>2. ASSUME NEW r \in Products, NEW m \in Locations, NEW q \in Quantities, Ledger!Receive(r, m, q)
        PROVE  Done
    <2>1. /\ OnHand' = [OnHand EXCEPT ![<<r, m>>] = @ + q]
          /\ incoming' = [incoming EXCEPT ![r] = @ + q] /\ sold' = sold
      BY <1>2 DEF Ledger!Receive, OnHand
    <2>2. q \in Int
      BY QuantityLemma
    <2>3. OneRow(OnHand, OnHand', r, m) /\ OnHand'[<<r, m>>] = OnHand[<<r, m>>] + q
      BY <2>1, <2>2, EntryRows
    <2>4. Balanced(OnHand', [incoming EXCEPT ![r] = @ + q], sold)
      BY <1>1, <2>2, <2>3, EntryBalances
    <2>5. QED
      BY <2>1, <2>4
  <1>3. ASSUME NEW r \in Products, NEW m \in Locations, NEW q \in Quantities, Ledger!Sell(r, m, q)
        PROVE  Done
    <2>1. /\ OnHand' = [OnHand EXCEPT ![<<r, m>>] = @ - q]
          /\ sold' = [sold EXCEPT ![r] = @ + q] /\ incoming' = incoming
      BY <1>3 DEF Ledger!Sell, OnHand
    <2>2. q \in Int
      BY QuantityLemma
    <2>3. OneRow(OnHand, OnHand', r, m) /\ OnHand'[<<r, m>>] = OnHand[<<r, m>>] - q
      BY <2>1, <2>2, EntryRows
    <2>4. Balanced(OnHand', incoming, [sold EXCEPT ![r] = @ + q])
      BY <1>1, <2>2, <2>3, EntryBalances
    <2>5. QED
      BY <2>1, <2>4
  <1>4. ASSUME NEW r \in Products, NEW m \in Locations, NEW n \in Locations, NEW q \in Quantities,
               Ledger!Transfer(r, m, n, q)
        PROVE  Done
    <2>1. /\ m # n /\ OnHand' = [OnHand EXCEPT ![<<r, m>>] = @ - q, ![<<r, n>>] = @ + q]
          /\ incoming' = incoming /\ sold' = sold
      BY <1>4 DEF Ledger!Transfer, OnHand
    <2>2. q \in Int
      BY QuantityLemma
    <2>3. TwoRows(OnHand, OnHand', r, m, n, q)
      BY <2>1, <2>2, EntryRows
    <2>4. Balanced(OnHand', incoming, sold)
      BY <1>1, <2>2, <2>3, EntryBalances
    <2>5. QED
      BY <2>1, <2>4
  <1>5. ASSUME UNCHANGED <<OnHand, incoming, sold>>
        PROVE  Done
    BY <1>5
  <1>6. ASSUME NEW r \in Products, NEW m \in Locations, NEW q \in Quantities,
               Ledger!Hold(r, m, q) \/ Ledger!Unhold(r, m, q)
        PROVE  Done
    BY <1>5, <1>6 DEF Ledger!Hold, Ledger!Unhold, OnHand
  <1>7. ASSUME UNCHANGED Ledger!vars
        PROVE  Done
    BY <1>5, <1>7 DEF Ledger!vars, OnHand
  <1>8. Done
    <2> HIDE DEF Done
    <2>1. QED
      BY <1>2, <1>3, <1>4, <1>6, <1>7 DEF Ledger!Next
  <1>9. QED
    BY <1>8 DEF Balanced

\* Units are neither made nor lost: what was received of a product is on hand
\* somewhere or was sold.
THEOREM AlwaysReconciled == Spec => []UnitsReconcile
  <1>1. Init => Balanced(OnHand, incoming, sold)
    BY InitBalanced
  <1>2. IInv /\ IInv' /\ Balanced(OnHand, incoming, sold) /\ [Next]_vars
            => Balanced(OnHand, incoming, sold)'
    <2>1. IInv => StockInv
      BY Halves
    <2>2. IInv' => StockInv'
      BY DEF IInv, StockInv, TypeOK
    <2>3. QED
      BY <2>1, <2>2, StepEntry, StepBalances
  <1>3. IInv /\ Balanced(OnHand, incoming, sold) => UnitsReconcile
    BY Halves, ReconcileIsBalanced
  <1>4. QED
    BY <1>1, <1>2, <1>3, Invariance, PTL DEF Spec

-----------------------------------------------------------------------------
(* What a request has read of places and reservations *)

\* As long as nothing it writes has been written, the destination of a transfer
\* has the capacity that was read: an update of the location makes it stale.
SnapshotsHold ==
    \A c \in Requests :
        Running(c, "transfer") /\ ~stale[c] => seen[c].capacity = capacity[call[c].to]

\* A call carries what its reservation says, which no update changes.
Carries(k, r) == r.product = k.product /\ r.location = k.from /\ r.quantity = k.quantity

HoldsRead ==
    \A c \in Requests :
        call[c] # NoCall /\ (call[c].op = "expire" \/ seen[c].found) => Carries(call[c], reservation[call[c].id])

ReadInv == SnapshotsHold /\ HoldsRead

\* Nothing has been read at first.
LEMMA InitReads == Init => ReadInv
  BY DEF Init, ReadInv, SnapshotsHold, HoldsRead, Running

\* A request that opens with what it has just read.
LEMMA OpenReads ==
    ASSUME RequestInv, ReadInv, NEW c \in Requests, NEW k, NEW s, Open(c, k, s),
           UNCHANGED <<reservation, capacity>>,
           k.op = "transfer" => s.capacity = capacity[k.to],
           k.op = "expire" \/ s.found => Carries(k, reservation[k.id])
    PROVE  ReadInv'
  <1>1. /\ call'[c] = k /\ seen'[c] = s
        /\ \A d \in Requests \ {c} : call'[d] = call[d] /\ seen'[d] = seen[d] /\ stale'[d] = stale[d]
    BY DEF Open, RequestInv
  <1>2. SnapshotsHold'
    BY <1>1 DEF ReadInv, SnapshotsHold, Running
  <1>3. HoldsRead'
    BY <1>1 DEF ReadInv, HoldsRead, Carries
  <1>4. QED
    BY <1>2, <1>3 DEF ReadInv

\* A request that ends, and makes others stale by what it writes.
LEMMA CloseReads ==
    ASSUME RequestInv, ReadInv, NEW c \in Requests, NEW rows, Close(c, rows), UNCHANGED capacity,
           \A r \in Reservations : reservation[r] # NoReservation =>
               /\ reservation'[r].product = reservation[r].product
               /\ reservation'[r].location = reservation[r].location
               /\ reservation'[r].quantity = reservation[r].quantity
    PROVE  ReadInv'
  <1>1. /\ call'[c] = NoCall
        /\ \A d \in Requests \ {c} : call'[d] = call[d] /\ seen'[d] = seen[d] /\ (stale[d] => stale'[d])
    BY DEF Close, RequestInv
  <1>2. SnapshotsHold'
    BY <1>1 DEF ReadInv, SnapshotsHold, Running
  <1>3. ASSUME NEW d \in Requests, call'[d] # NoCall, call'[d].op = "expire" \/ seen'[d].found
        PROVE  Carries(call'[d], reservation'[call'[d].id])
    <2>1. d # c /\ call'[d] = call[d] /\ seen'[d] = seen[d]
      BY <1>1, <1>3
    <2>2. Carries(call[d], reservation[call[d].id])
      BY <1>3, <2>1 DEF ReadInv, HoldsRead
    <2>3. call[d].id \in Reservations /\ reservation[call[d].id] # NoReservation
      BY <1>3, <2>1 DEF RequestInv, ChecksHold, Admitted
    <2>4. QED
      BY <2>1, <2>2, <2>3 DEF Carries
  <1>4. HoldsRead'
    BY <1>3 DEF HoldsRead
  <1>5. QED
    BY <1>2, <1>4 DEF ReadInv

\* The five requests read the rows as they are.
LEMMA BeginReads ==
    ASSUME RequestInv, ReadInv, NEW c \in Requests, NEW p, NEW q, NEW l, NEW to, NEW id,
           \/ BeginTransfer(c, p, l, to, q)
           \/ BeginReceive(c, p, l, q)
           \/ BeginSell(c, p, l, q)
           \/ BeginReserve(c, p, l, q)
           \/ BeginRelease(c, p, l, q, id)
    PROVE  ReadInv'
  <1>1. CASE BeginTransfer(c, p, l, to, q)
    <2> DEFINE k == [op |-> "transfer", product |-> p, from |-> l, to |-> to, quantity |-> q, id |-> None]
               s == [row |-> inv[<<p, l>>], capacity |-> capacity[to], found |-> FALSE]
    <2>1. Open(c, k, s) /\ UNCHANGED <<reservation, capacity>>
      BY <1>1 DEF BeginTransfer, places
    <2>2. k.op = "transfer" /\ ~s.found /\ s.capacity = capacity[k.to]
      OBVIOUS
    <2> HIDE DEF k, s
    <2>3. QED
      BY <2>1, <2>2, OpenReads
  <1>2. ASSUME NEW op \in {"receive", "sell", "reserve", "release"}, NEW j, NEW cap, NEW row,
               Open(c, [op |-> op, product |-> p, from |-> l, to |-> l, quantity |-> q, id |-> j],
                       [row |-> row, capacity |-> cap, found |-> FALSE]),
               UNCHANGED <<reservation, capacity>>
        PROVE  ReadInv'
    <2> DEFINE k == [op |-> op, product |-> p, from |-> l, to |-> l, quantity |-> q, id |-> j]
               s == [row |-> row, capacity |-> cap, found |-> FALSE]
    <2>1. Open(c, k, s) /\ k.op # "transfer" /\ k.op # "expire" /\ ~s.found
      BY <1>2
    <2> HIDE DEF k, s
    <2>2. QED
      BY <1>2, <2>1, OpenReads
  <1>3. CASE BeginReceive(c, p, l, q)
    BY <1>2, <1>3 DEF BeginReceive, places
  <1>4. CASE BeginSell(c, p, l, q)
    BY <1>2, <1>4 DEF BeginSell, places
  <1>5. CASE BeginReserve(c, p, l, q)
    BY <1>2, <1>5 DEF BeginReserve, places
  <1>6. CASE BeginRelease(c, p, l, q, id)
    BY <1>2, <1>6 DEF BeginRelease, places
  <1>7. QED
    BY <1>1, <1>3, <1>4, <1>5, <1>6

\* The second read of releaseReservation takes over what the reservation says.
LEMMA FindReservationReads ==
    ASSUME RequestInv, ReadInv, NEW c \in Requests, FindReservation(c)
    PROVE  ReadInv'
  <1> DEFINE k == call[c]
             r == reservation[k.id]
             j == [k EXCEPT !.quantity = r.quantity]
             s == [seen[c] EXCEPT !.found = TRUE]
  <1>1. k \in Call /\ k.op = "release"
    BY DEF FindReservation, Running, RequestInv
  <1>2. r.product = k.product /\ r.location = k.from
    BY DEF FindReservation, ActiveOn
  <1>3. /\ j.op = "release" /\ j.id = k.id /\ j.product = k.product /\ j.from = k.from
        /\ j.quantity = r.quantity
    BY <1>1 DEF Call
  <1>4. Carries(j, reservation[j.id])
    BY <1>2, <1>3 DEF Carries
  <1>5. Open(c, j, s) /\ UNCHANGED <<reservation, capacity>>
    BY DEF FindReservation, places
  <1> HIDE DEF k, r, j, s
  <1>6. QED
    BY <1>3, <1>4, <1>5, OpenReads

\* The expiry takes it over at once.
LEMMA BeginExpireReads ==
    ASSUME RequestInv, ReadInv, NEW c \in Requests, NEW r \in Reservations, BeginExpire(c, r)
    PROVE  ReadInv'
  <1> DEFINE k == [op |-> "expire", product |-> reservation[r].product, from |-> reservation[r].location,
                   to |-> reservation[r].location, quantity |-> reservation[r].quantity, id |-> r]
  <1>1. Open(c, k, NothingSeen) /\ UNCHANGED <<reservation, capacity>>
    BY DEF BeginExpire, places
  <1>2. k.op # "transfer" /\ Carries(k, reservation[k.id])
    BY DEF Carries
  <1> HIDE DEF k
  <1>3. QED
    BY <1>1, <1>2, OpenReads

\* No commit changes what a reservation says but its status.
LEMMA CommitReads ==
    ASSUME RequestInv, ReadInv, NEW c \in Requests,
           \/ CommitTransfer(c)
           \/ \E e \in Epochs : CommitReceive(c, e)
           \/ CommitSell(c)
           \/ \E r \in Reservations : CommitReserve(c, r)
           \/ CommitRelease(c)
           \/ CommitExpire(c)
           \/ Abort(c)
    PROVE  ReadInv'
  <1> DEFINE Keep == \A r \in Reservations : reservation[r] # NoReservation =>
                         /\ reservation'[r].product = reservation[r].product
                         /\ reservation'[r].location = reservation[r].location
                         /\ reservation'[r].quantity = reservation[r].quantity
  <1>1. \A r \in Reservations : reservation[r] # NoReservation => reservation[r] \in Reservation
    BY DEF RequestInv
  <1>2. ASSUME UNCHANGED reservation
        PROVE  Keep
    BY <1>2
  <1>3. ASSUME NEW r \in Reservations, CommitReserve(c, r)
        PROVE  Keep
    <2>1. /\ reservation[r] = NoReservation
          /\ \A x \in Reservations \ {r} : reservation'[x] = reservation[x]
      BY <1>3 DEF CommitReserve, RequestInv
    <2>2. QED
      BY <2>1
  <1>4. ASSUME CommitRelease(c)
        PROVE  Keep
    <2>1. \A x \in Reservations :
              \/ reservation'[x] = reservation[x]
              \/ reservation'[x] = [reservation[x] EXCEPT !.status = "RELEASED"]
      BY <1>4 DEF CommitRelease
    <2>2. QED
      BY <1>1, <2>1 DEF Reservation
  <1>5. ASSUME CommitExpire(c)
        PROVE  Keep
    <2>1. \A x \in Reservations :
              \/ reservation'[x] = reservation[x]
              \/ reservation'[x] = [reservation[x] EXCEPT !.status = "EXPIRED"]
      BY <1>5 DEF CommitExpire, RequestInv
    <2>2. QED
      BY <1>1, <2>1 DEF Reservation
  <1>6. Keep
    <2> HIDE DEF Keep
    <2>1. QED
      BY <1>2, <1>3, <1>4, <1>5 DEF CommitTransfer, CommitReceive, CommitSell, Abort
  <1>7. UNCHANGED capacity
    BY DEF CommitTransfer, CommitReceive, CommitSell, CommitReserve, CommitRelease, CommitExpire, Abort, places
  <1>8. PICK rows : Close(c, rows)
    BY DEF CommitTransfer, CommitReceive, CommitSell, CommitReserve, CommitRelease, CommitExpire, Abort
  <1>9. QED
    BY <1>6, <1>7, <1>8, CloseReads

\* An update of a location makes the transfers to it stale.
LEMMA UpdateLocationReads ==
    ASSUME RequestInv, PlacesInv, ReadInv, NEW l, NEW cap, NEW vol, NEW w, UpdateLocation(l, cap, vol, w)
    PROVE  ReadInv'
  <1>1. ASSUME NEW d \in Requests, Running(d, "transfer"), ~stale'[d]
        PROVE  seen[d].capacity = capacity'[call[d].to]
    <2>1. ~stale[d] /\ d \notin Invalidated({LocationRow(l)})
      BY <1>1 DEF UpdateLocation
    <2>2. LocationRow(call[d].to) \in Writes(call[d])
      BY <1>1 DEF Running, Writes
    <2>3. call[d].to # l
      BY <1>1, <2>1, <2>2 DEF Invalidated, Running, Serializable
    <2>4. call[d].to \in Locations
      BY <1>1, RunningCall DEF Running
    <2>5. capacity'[call[d].to] = capacity[call[d].to]
      BY <2>3, <2>4 DEF UpdateLocation, PlacesInv
    <2>6. QED
      BY <1>1, <2>1, <2>5 DEF ReadInv, SnapshotsHold
  <1>2. UNCHANGED <<call, seen, reservation>>
    BY DEF UpdateLocation
  <1>3. SnapshotsHold'
    BY <1>1, <1>2 DEF SnapshotsHold, Running
  <1>4. HoldsRead'
    BY <1>2 DEF ReadInv, HoldsRead
  <1>5. QED
    BY <1>3, <1>4 DEF ReadInv

\* Every step keeps what the open requests have read.
LEMMA NextReads == IInv /\ ReadInv /\ [Next]_vars => ReadInv'
  <1> SUFFICES ASSUME IInv, ReadInv, [Next]_vars PROVE ReadInv'
    OBVIOUS
  <1>1. RequestInv /\ PlacesInv
    BY Halves
  <1>2. ASSUME UNCHANGED <<requests, reservation, capacity>>
        PROVE  ReadInv'
    BY <1>2 DEF requests, ReadInv, SnapshotsHold, HoldsRead, Running
  <1>3. ASSUME NEW c \in Requests, NEW p \in Products, NEW q \in Quantities, NEW l \in Locations,
               \/ \E to \in Locations : BeginTransfer(c, p, l, to, q)
               \/ BeginReceive(c, p, l, q)
               \/ BeginSell(c, p, l, q)
               \/ BeginReserve(c, p, l, q)
               \/ \E id \in Reservations \cup {None} : BeginRelease(c, p, l, q, id)
        PROVE  ReadInv'
    BY <1>1, <1>3, BeginReads
  <1>4. ASSUME NEW c \in Requests,
               \/ CommitTransfer(c)
               \/ \E e \in Epochs : CommitReceive(c, e)
               \/ CommitSell(c)
               \/ \E r \in Reservations : CommitReserve(c, r)
               \/ CommitRelease(c)
               \/ CommitExpire(c)
               \/ Abort(c)
        PROVE  ReadInv'
    BY <1>1, <1>4, CommitReads
  <1>5. ASSUME NEW c \in Requests, FindReservation(c) \/ (\E r \in Reservations : BeginExpire(c, r))
        PROVE  ReadInv'
    BY <1>1, <1>5, FindReservationReads, BeginExpireReads
  <1>6. ASSUME NEW w \in Warehouses,
               (\E s \in {"ACTIVE", "CLOSED"} : SetWarehouseStatus(w, s)) \/ HideWarehouse(w)
        PROVE  ReadInv'
    BY <1>2, <1>6 DEF SetWarehouseStatus, HideWarehouse
  <1>7. ASSUME NEW l \in Locations, NEW cap \in Capacities, NEW w \in Warehouses,
               \E vol \in PatchedVolumes \cup {volume[l]} : UpdateLocation(l, cap, vol, w)
        PROVE  ReadInv'
    BY <1>1, <1>7, UpdateLocationReads
  <1>8. CASE UNCHANGED vars
    BY <1>2, <1>8 DEF vars, places
  <1>9. QED
    BY <1>3, <1>4, <1>5, <1>6, <1>7, <1>8 DEF Next

\* What the open requests have read holds in every state.
LEMMA ReadsHold == Spec => []ReadInv
  BY InitReads, NextReads, Invariance, PTL DEF Spec

-----------------------------------------------------------------------------
(* What ACTIVE reservations hold *)

\* The units that each reservation of res holds of p at l, and their sum.
HoldsOf(res, p, l) ==
    [r \in Reservations |->
        IF res[r].status = "ACTIVE" /\ res[r].product = p /\ res[r].location = l THEN res[r].quantity ELSE 0]

HeldIn(res, p, l) == SumFunction(HoldsOf(res, p, l))

ReservationTable == [Reservations -> Reservation \cup {NoReservation}]

\* Every reserved unit of held is held by a reservation of res.
NoneLeaked(held, res) == \A p \in Products, l \in Locations : held[<<p, l>>] <= HeldIn(res, p, l)

\* No hold is leaked when the reserved units of each row have reservations.
LEMMA LeakIsNoneLeaked == NoLeakedHold <=> NoneLeaked(Reserved, reservation)
  <1>1. ASSUME NEW p \in Products, NEW l \in Locations
        PROVE  /\ HeldBy(p, l) = HeldIn(reservation, p, l)
               /\ inv[<<p, l>>].reserved = Reserved[<<p, l>>]
    BY DEF HeldBy, HeldIn, HoldsOf, ActiveOn, Reserved, Rows
  <1>2. QED
    BY <1>1 DEF NoLeakedHold, NoneLeaked

\* The units reservations hold are integers, each of them and together.
LEMMA HoldsType ==
    ASSUME NEW res \in ReservationTable, NEW p, NEW l
    PROVE  /\ HoldsOf(res, p, l) \in [Reservations -> Int]
           /\ HeldIn(res, p, l) \in Int
  <1>1. ASSUME NEW r \in Reservations
        PROVE  HoldsOf(res, p, l)[r] \in Int
    <2>1. CASE res[r] = NoReservation
      BY <2>1 DEF HoldsOf, NoReservation
    <2>2. CASE res[r] \in Reservation
      <3>1. res[r].quantity \in Int
        <4>1. res[r].quantity \in Quantities
          BY <2>2 DEF Reservation
        <4>2. QED
          BY <4>1, QuantityLemma
      <3>2. QED
        BY <3>1 DEF HoldsOf
    <2>3. QED
      BY <2>1, <2>2 DEF ReservationTable
  <1>2. HoldsOf(res, p, l) \in [Reservations -> Int]
    BY <1>1 DEF HoldsOf
  <1>3. QED
    BY <1>2, FiniteTables, SumFunctionType DEF HeldIn

\* A reservation that changes, changes what is held by as much.
LEMMA HeldChange ==
    ASSUME NEW res \in ReservationTable, NEW new \in ReservationTable, NEW r \in Reservations,
           \A x \in Reservations \ {r} : new[x] = res[x]
    PROVE  \A p, l : HeldIn(new, p, l) = HeldIn(res, p, l) + HoldsOf(new, p, l)[r] - HoldsOf(res, p, l)[r]
  <1> TAKE p, l
  <1> DEFINE f == HoldsOf(res, p, l)
             g == HoldsOf(new, p, l)
  <1>1. f \in [Reservations -> Int] /\ g \in [Reservations -> Int]
    BY HoldsType
  <1>2. \A x \in Reservations \ {r} : g[x] = f[x]
    BY DEF HoldsOf
  <1> HIDE DEF f, g
  <1>3. SumFunction(g) = SumFunction(f) + g[r] - f[r]
    BY <1>1, <1>2, FiniteTables, SumFunctionChange
  <1>4. QED
    BY <1>3 DEF f, g, HeldIn

\* A new reservation and its hold.
LEMMA ReserveKeeps ==
    ASSUME NEW held \in [Rows -> Nat], NEW after \in [Rows -> Nat],
           NEW res \in ReservationTable, NEW new \in ReservationTable, NoneLeaked(held, res),
           NEW r \in Reservations, NEW k, NEW q \in Nat, NEW m \in Products, NEW n \in Locations,
           res[r] = NoReservation,
           new[r].status = "ACTIVE", new[r].product = m, new[r].location = n, new[r].quantity = q,
           \A x \in Reservations \ {r} : new[x] = res[x],
           after[<<m, n>>] = held[<<m, n>>] + q,
           \A row \in Rows \ {<<m, n>>} : after[row] = held[row]
    PROVE  NoneLeaked(after, new)
  <1> SUFFICES ASSUME NEW p \in Products, NEW l \in Locations
               PROVE  after[<<p, l>>] <= HeldIn(new, p, l)
    BY DEF NoneLeaked
  <1>1. HeldIn(new, p, l) = HeldIn(res, p, l) + HoldsOf(new, p, l)[r] - HoldsOf(res, p, l)[r]
    BY HeldChange
  <1>2. HoldsOf(res, p, l)[r] = 0
    BY DEF HoldsOf, NoReservation
  <1>3. /\ p = m /\ l = n => HoldsOf(new, p, l)[r] = q
        /\ ~(p = m /\ l = n) => HoldsOf(new, p, l)[r] = 0
    BY DEF HoldsOf
  <1>4. <<p, l>> \in Rows /\ <<m, n>> \in Rows /\ (<<p, l>> = <<m, n>> <=> p = m /\ l = n)
    BY DEF Rows
  <1>5. held[<<p, l>>] <= HeldIn(res, p, l) /\ HeldIn(res, p, l) \in Int
    BY HoldsType DEF NoneLeaked
  <1>6. held[<<p, l>>] \in Nat
    BY <1>4
  <1>7. CASE p = m /\ l = n
    BY <1>1, <1>2, <1>3, <1>4, <1>5, <1>6, <1>7
  <1>8. CASE ~(p = m /\ l = n)
    BY <1>1, <1>2, <1>3, <1>4, <1>5, <1>6, <1>8
  <1>9. QED
    BY <1>7, <1>8

\* A reservation that ends: its units leave the row that it named.
LEMMA UnholdKeeps ==
    ASSUME NEW held \in [Rows -> Nat], NEW after \in [Rows -> Nat],
           NEW res \in ReservationTable, NEW new \in ReservationTable, NoneLeaked(held, res),
           NEW r \in Reservations, NEW q \in Nat, NEW m \in Products, NEW n \in Locations,
           res[r].product = m, res[r].location = n, res[r].quantity = q,
           new[r].status # "ACTIVE",
           \A x \in Reservations \ {r} : new[x] = res[x],
           after[<<m, n>>] = held[<<m, n>>] - q,
           \A row \in Rows \ {<<m, n>>} : after[row] = held[row]
    PROVE  NoneLeaked(after, new)
  <1> SUFFICES ASSUME NEW p \in Products, NEW l \in Locations
               PROVE  after[<<p, l>>] <= HeldIn(new, p, l)
    BY DEF NoneLeaked
  <1>1. HeldIn(new, p, l) = HeldIn(res, p, l) + HoldsOf(new, p, l)[r] - HoldsOf(res, p, l)[r]
    BY HeldChange
  <1>2. HoldsOf(new, p, l)[r] = 0
    BY DEF HoldsOf
  <1>3. /\ p = m /\ l = n => HoldsOf(res, p, l)[r] \in {0, q}
        /\ ~(p = m /\ l = n) => HoldsOf(res, p, l)[r] = 0
    BY DEF HoldsOf
  <1>4. <<p, l>> \in Rows /\ <<m, n>> \in Rows /\ (<<p, l>> = <<m, n>> <=> p = m /\ l = n)
    BY DEF Rows
  <1>5. held[<<p, l>>] <= HeldIn(res, p, l) /\ HeldIn(res, p, l) \in Int
    BY HoldsType DEF NoneLeaked
  <1>6. held[<<p, l>>] \in Nat
    BY <1>4
  <1>7. CASE p = m /\ l = n
    BY <1>1, <1>2, <1>3, <1>4, <1>5, <1>6, <1>7
  <1>8. CASE ~(p = m /\ l = n)
    BY <1>1, <1>2, <1>3, <1>4, <1>5, <1>6, <1>8
  <1>9. QED
    BY <1>7, <1>8

-----------------------------------------------------------------------------

\* The reserved units, row by row, before and after a step.
LEMMA ReservedRows ==
    ASSUME StockInv
    PROVE  /\ Reserved \in [Rows -> Nat]
           /\ \A row \in Rows : Reserved[row] = inv[row].reserved
  BY DEF StockInv, Reserved, InventoryRecord

LEMMA ReservedRowsNext ==
    ASSUME StockInv'
    PROVE  Reserved' \in [Rows -> Nat]
  BY DEF StockInv, Reserved, InventoryRecord

\* Nothing is reserved at first.
LEMMA InitLeak == Init => NoneLeaked(Reserved, reservation)
  <1> SUFFICES ASSUME Init, NEW p \in Products, NEW l \in Locations
               PROVE  Reserved[<<p, l>>] <= HeldIn(reservation, p, l)
    BY DEF NoneLeaked
  <1>1. Reserved[<<p, l>>] = 0
    BY DEF Init, Reserved, Rows
  <1>2. \A r \in Reservations : HoldsOf(reservation, p, l)[r] = 0
    BY DEF Init, HoldsOf, NoReservation
  <1>3. HeldIn(reservation, p, l) = 0
    BY <1>2, FiniteTables, SumOfZeros DEF HeldIn, HoldsOf
  <1>4. QED
    BY <1>1, <1>3

\* reserveInventory reserves what its reservation holds.
LEMMA ReserveLeak ==
    ASSUME StockInv, RequestInv, StockInv', RequestInv', NEW c \in Requests, NEW r \in Reservations,
           CommitReserve(c, r), NoneLeaked(Reserved, reservation)
    PROVE  NoneLeaked(Reserved', reservation')
  <1> DEFINE k == call[c]
  <1>1. k.product \in Products /\ k.from \in Locations /\ k.quantity \in Nat
    BY RunningCall DEF CommitReserve, Running
  <1>2. Reserved' = [Reserved EXCEPT ![<<k.product, k.from>>] = @ + k.quantity]
    BY ReserveEntry DEF Ledger!Hold, Reserved
  <1>3. /\ reservation[r] = NoReservation
        /\ reservation'[r].status = "ACTIVE" /\ reservation'[r].product = k.product
        /\ reservation'[r].location = k.from /\ reservation'[r].quantity = k.quantity
        /\ \A x \in Reservations \ {r} : reservation'[x] = reservation[x]
    BY DEF CommitReserve, RequestInv
  <1>4. reservation \in ReservationTable /\ reservation' \in ReservationTable
    BY DEF RequestInv, ReservationTable
  <1>5. Reserved \in [Rows -> Nat] /\ Reserved' \in [Rows -> Nat]
    BY ReservedRows, ReservedRowsNext
  <1> HIDE DEF k
  <1>6. /\ Reserved'[<<k.product, k.from>>] = Reserved[<<k.product, k.from>>] + k.quantity
        /\ \A row \in Rows \ {<<k.product, k.from>>} : Reserved'[row] = Reserved[row]
    BY <1>1, <1>2, <1>5 DEF Rows
  <1>7. QED
    BY <1>1, <1>3, <1>4, <1>5, <1>6, ReserveKeeps

\* A release and an expiry give back what the reservation says, if they end
\* one; without one a release only lowers what is reserved.
LEMMA ReleaseLeak ==
    ASSUME StockInv, RequestInv, ReadInv, StockInv', RequestInv', NEW c \in Requests,
           CommitRelease(c) \/ CommitExpire(c), NoneLeaked(Reserved, reservation)
    PROVE  NoneLeaked(Reserved', reservation')
  <1> DEFINE k == call[c]
  <1>1. k \in Call /\ k.product \in Products /\ k.from \in Locations /\ k.quantity \in Nat
    BY RunningCall DEF CommitRelease, CommitExpire, Running
  <1>2. Reserved' = [Reserved EXCEPT ![<<k.product, k.from>>] = @ - k.quantity]
    BY ReleaseEntry DEF Ledger!Unhold, Reserved
  <1>3. reservation \in ReservationTable /\ reservation' \in ReservationTable
    BY DEF RequestInv, ReservationTable
  <1>4. Reserved \in [Rows -> Nat] /\ Reserved' \in [Rows -> Nat]
    BY ReservedRows, ReservedRowsNext
  <1>5. CASE k.id = None
    <2>1. ~CommitExpire(c)
      BY <1>1, <1>5, NoneAssumption DEF CommitExpire, Running, RequestInv, ChecksHold, Admitted
    <2>2. \A x \in Reservations : reservation'[x] = reservation[x]
      BY <1>5, <2>1, NoneAssumption DEF CommitRelease
    <2>3. reservation' = reservation
      BY <1>3, <2>2 DEF ReservationTable
    <2>4. ASSUME NEW p \in Products, NEW l \in Locations
          PROVE  Reserved'[<<p, l>>] <= HeldIn(reservation, p, l)
      <3>1. <<p, l>> \in Rows
        BY DEF Rows
      <3>2. Reserved'[<<p, l>>] <= Reserved[<<p, l>>]
        <4> HIDE DEF k
        <4>1. QED
          BY <1>1, <1>2, <1>4, <3>1
      <3>3. Reserved[<<p, l>>] <= HeldIn(reservation, p, l) /\ HeldIn(reservation, p, l) \in Int
        BY <1>3, HoldsType DEF NoneLeaked
      <3>4. QED
        BY <1>4, <3>1, <3>2, <3>3
    <2>5. QED
      BY <2>3, <2>4 DEF NoneLeaked
  <1>6. CASE k.id # None
    <2>1. k.id \in Reservations /\ reservation[k.id] \in Reservation
      BY <1>6 DEF CommitRelease, CommitExpire, Running, RequestInv, ChecksHold, Admitted
    <2>2. Carries(k, reservation[k.id])
      BY <1>6 DEF CommitRelease, CommitExpire, Running, ReadInv, HoldsRead
    <2>3. \/ reservation'[k.id] = [reservation[k.id] EXCEPT !.status = "RELEASED"]
          \/ reservation'[k.id] = [reservation[k.id] EXCEPT !.status = "EXPIRED"]
      BY <2>1 DEF CommitRelease, CommitExpire, RequestInv
    <2>4. reservation'[k.id].status # "ACTIVE"
      BY <2>1, <2>3 DEF Reservation
    <2>5. \A x \in Reservations \ {k.id} : reservation'[x] = reservation[x]
      BY DEF CommitRelease, CommitExpire, RequestInv
    <2> HIDE DEF k
    <2>6. /\ Reserved'[<<k.product, k.from>>] = Reserved[<<k.product, k.from>>] - k.quantity
          /\ \A row \in Rows \ {<<k.product, k.from>>} : Reserved'[row] = Reserved[row]
      BY <1>1, <1>2, <1>4 DEF Rows
    <2>7. QED
      BY <1>1, <1>3, <1>4, <2>1, <2>2, <2>4, <2>5, <2>6, UnholdKeeps DEF Carries
  <1>7. QED
    BY <1>5, <1>6

\* Every step leaves a reservation behind every reserved unit.
LEMMA StepLeak ==
    IInv /\ IInv' /\ ReadInv /\ NoneLeaked(Reserved, reservation) /\ [Next]_vars
        => NoneLeaked(Reserved, reservation)'
  <1> SUFFICES ASSUME IInv, IInv', ReadInv, NoneLeaked(Reserved, reservation), [Next]_vars
               PROVE  NoneLeaked(Reserved', reservation')
    BY DEF NoneLeaked
  <1> DEFINE Done == NoneLeaked(Reserved', reservation')
  <1>1. StockInv /\ RequestInv
    BY Halves
  <1>2. StockInv' /\ RequestInv'
    BY DEF IInv, TypeOK, StockInv, RequestInv
  <1>3. ASSUME UNCHANGED <<Reserved, reservation>>
        PROVE  Done
    BY <1>3
  <1>4. ASSUME UNCHANGED <<inv, reservation>>
        PROVE  Done
    BY <1>4 DEF Reserved
  <1>5. ASSUME NEW c \in Requests, CommitTransfer(c)
        PROVE  Done
    BY <1>1, <1>3, <1>5, TransferEntry DEF Ledger!Transfer, Reserved, CommitTransfer
  <1>6. ASSUME NEW c \in Requests, NEW e \in Epochs, CommitReceive(c, e)
        PROVE  Done
    BY <1>1, <1>3, <1>6, ReceiveEntry DEF Ledger!Receive, Reserved, CommitReceive
  <1>7. ASSUME NEW c \in Requests, CommitSell(c)
        PROVE  Done
    BY <1>1, <1>3, <1>7, SellEntry DEF Ledger!Sell, Reserved, CommitSell
  <1>8. ASSUME NEW c \in Requests, NEW r \in Reservations, CommitReserve(c, r)
        PROVE  Done
    BY <1>1, <1>2, <1>8, ReserveLeak
  <1>9. ASSUME NEW c \in Requests, CommitRelease(c) \/ CommitExpire(c)
        PROVE  Done
    BY <1>1, <1>2, <1>9, ReleaseLeak
  <1>10. ASSUME NEW c \in Requests, NEW p \in Products, NEW q \in Quantities, NEW l \in Locations,
                \/ \E to \in Locations : BeginTransfer(c, p, l, to, q)
                \/ BeginReceive(c, p, l, q)
                \/ BeginSell(c, p, l, q)
                \/ BeginReserve(c, p, l, q)
                \/ \E id \in Reservations \cup {None} : BeginRelease(c, p, l, q, id)
         PROVE  Done
    BY <1>4, <1>10 DEF BeginTransfer, BeginReceive, BeginSell, BeginReserve, BeginRelease, stock
  <1>11. ASSUME NEW c \in Requests,
                FindReservation(c) \/ (\E r \in Reservations : BeginExpire(c, r)) \/ Abort(c)
         PROVE  Done
    BY <1>4, <1>11 DEF FindReservation, BeginExpire, Abort, stock
  <1>12. ASSUME NEW w \in Warehouses,
                (\E s \in {"ACTIVE", "CLOSED"} : SetWarehouseStatus(w, s)) \/ HideWarehouse(w)
         PROVE  Done
    BY <1>4, <1>12 DEF SetWarehouseStatus, HideWarehouse, stock
  <1>13. ASSUME NEW l \in Locations, NEW cap \in Capacities, NEW w \in Warehouses,
                \E vol \in PatchedVolumes \cup {volume[l]} : UpdateLocation(l, cap, vol, w)
         PROVE  Done
    BY <1>4, <1>13 DEF UpdateLocation
  <1>14. ASSUME UNCHANGED vars
         PROVE  Done
    BY <1>4, <1>14 DEF vars, stock
  <1> HIDE DEF Done
  <1>15. Done
    BY <1>5, <1>6, <1>7, <1>8, <1>9, <1>10, <1>11, <1>12, <1>13, <1>14 DEF Next
  <1>16. QED
    BY <1>15 DEF Done

\* No hold leaks: every unit that is reserved is held by an ACTIVE reservation,
\* so a client or the expiry job can give it back.
THEOREM NeverLeaked == Spec => []NoLeakedHold
  <1>1. Init => NoneLeaked(Reserved, reservation)
    BY InitLeak
  <1>2. IInv /\ IInv' /\ ReadInv /\ NoneLeaked(Reserved, reservation) /\ [Next]_vars
            => NoneLeaked(Reserved, reservation)'
    BY StepLeak
  <1>3. NoneLeaked(Reserved, reservation) => NoLeakedHold
    BY LeakIsNoneLeaked
  <1>4. QED
    BY <1>1, <1>2, <1>3, Invariance, ReadsHold, PTL DEF Spec

-----------------------------------------------------------------------------
(* What one step may do to locations and to the ages of stock *)

\* A step moves stock by a transfer, a receipt or a sale, or not at all; and
\* then a request does not touch the volumes either.
LEMMA StepKinds ==
    ASSUME IInv, IInv', [Next]_vars
    PROVE  \/ \E c \in Requests : CommitTransfer(c)
           \/ \E c \in Requests, e \in Epochs : CommitReceive(c, e)
           \/ \E c \in Requests : CommitSell(c)
           \/ UNCHANGED <<OnHand, lots, incoming, sold>> /\ (UNCHANGED volume \/ UNCHANGED call)
  <1> DEFINE Done == UNCHANGED <<OnHand, lots, incoming, sold>> /\ (UNCHANGED volume \/ UNCHANGED call)
  <1>1. StockInv /\ RequestInv
    BY Halves
  <1>2. ASSUME UNCHANGED <<inv, lots, incoming, sold>>, UNCHANGED volume \/ UNCHANGED call
        PROVE  Done
    BY <1>2 DEF OnHand
  <1>3. ASSUME NEW c \in Requests,
               (\E r \in Reservations : CommitReserve(c, r)) \/ CommitRelease(c) \/ CommitExpire(c)
        PROVE  Done
    <2>1. UNCHANGED <<lots, incoming, sold, volume>>
      BY <1>3 DEF CommitReserve, CommitRelease, CommitExpire
    <2>2. OnHand' = OnHand
      BY <1>1, <1>3, ReserveEntry, ReleaseEntry DEF Ledger!Hold, Ledger!Unhold, OnHand
    <2>3. QED
      BY <2>1, <2>2
  <1>4. ASSUME NEW c \in Requests, NEW p \in Products, NEW q \in Quantities, NEW l \in Locations,
               \/ \E to \in Locations : BeginTransfer(c, p, l, to, q)
               \/ BeginReceive(c, p, l, q)
               \/ BeginSell(c, p, l, q)
               \/ BeginReserve(c, p, l, q)
               \/ \E id \in Reservations \cup {None} : BeginRelease(c, p, l, q, id)
        PROVE  Done
    BY <1>2, <1>4 DEF BeginTransfer, BeginReceive, BeginSell, BeginReserve, BeginRelease, stock
  <1>5. ASSUME NEW c \in Requests,
               FindReservation(c) \/ (\E r \in Reservations : BeginExpire(c, r)) \/ Abort(c)
        PROVE  Done
    BY <1>2, <1>5 DEF FindReservation, BeginExpire, Abort, stock
  <1>6. ASSUME NEW w \in Warehouses,
               (\E s \in {"ACTIVE", "CLOSED"} : SetWarehouseStatus(w, s)) \/ HideWarehouse(w)
        PROVE  Done
    BY <1>2, <1>6 DEF SetWarehouseStatus, HideWarehouse, stock
  <1>7. ASSUME NEW l \in Locations, NEW cap \in Capacities, NEW w \in Warehouses,
               \E vol \in PatchedVolumes \cup {volume[l]} : UpdateLocation(l, cap, vol, w)
        PROVE  Done
    BY <1>2, <1>7 DEF UpdateLocation
  <1>8. ASSUME UNCHANGED vars
        PROVE  Done
    BY <1>2, <1>8 DEF vars, stock
  <1>9. \/ \E c \in Requests : CommitTransfer(c)
        \/ \E c \in Requests, e \in Epochs : CommitReceive(c, e)
        \/ \E c \in Requests : CommitSell(c)
        \/ Done
    <2> HIDE DEF Done
    <2>1. QED
      BY <1>3, <1>4, <1>5, <1>6, <1>7, <1>8 DEF Next
  <1>10. QED
    BY <1>9

\* The stock of the locations after each kind of entry.
LEMMA EntryLocations ==
    ASSUME StockInv, StockInv', NEW r \in Products, NEW m \in Locations, NEW q \in Int
    PROVE  /\ OnHand' = [OnHand EXCEPT ![<<r, m>>] = @ + q]
                 => /\ AtLocation(OnHand', m) = AtLocation(OnHand, m) + q
                    /\ \A l \in Locations \ {m} : AtLocation(OnHand', l) = AtLocation(OnHand, l)
           /\ OnHand' = [OnHand EXCEPT ![<<r, m>>] = @ - q]
                 => /\ AtLocation(OnHand', m) = AtLocation(OnHand, m) - q
                    /\ \A l \in Locations \ {m} : AtLocation(OnHand', l) = AtLocation(OnHand, l)
           /\ \A n \in Locations :
                 m # n /\ OnHand' = [OnHand EXCEPT ![<<r, m>>] = @ - q, ![<<r, n>>] = @ + q]
                 => /\ AtLocation(OnHand', m) = AtLocation(OnHand, m) - q
                    /\ AtLocation(OnHand', n) = AtLocation(OnHand, n) + q
                    /\ \A l \in Locations \ {m, n} : AtLocation(OnHand', l) = AtLocation(OnHand, l)
  <1>1. AtLocation(OnHand, m) \in Int /\ OnHand[<<r, m>>] \in Int
    <2>1. OnHand \in [Rows -> Int]
      BY OnHandRows
    <2>2. QED
      BY <2>1, RowSumTypes DEF Rows
  <1>2. ASSUME OneRow(OnHand, OnHand', r, m)
        PROVE  /\ AtLocation(OnHand', m) = AtLocation(OnHand, m) + OnHand'[<<r, m>>] - OnHand[<<r, m>>]
               /\ \A l \in Locations \ {m} : AtLocation(OnHand', l) = AtLocation(OnHand, l)
    <2>1. AtLocation(OnHand', m) = AtLocation(OnHand, m) + OnHand'[<<r, m>>] - OnHand[<<r, m>>]
      BY <1>2, RowSums
    <2>2. \A l \in Locations \ {m} : AtLocation(OnHand', l) = AtLocation(OnHand, l)
      BY <1>2, OtherLocations
    <2>3. QED
      BY <2>1, <2>2
  <1>3. ASSUME OnHand' = [OnHand EXCEPT ![<<r, m>>] = @ + q]
        PROVE  /\ AtLocation(OnHand', m) = AtLocation(OnHand, m) + q
               /\ \A l \in Locations \ {m} : AtLocation(OnHand', l) = AtLocation(OnHand, l)
    <2>1. OneRow(OnHand, OnHand', r, m) /\ OnHand'[<<r, m>>] = OnHand[<<r, m>>] + q
      BY <1>3, EntryRows
    <2>2. QED
      BY <1>1, <1>2, <2>1
  <1>4. ASSUME OnHand' = [OnHand EXCEPT ![<<r, m>>] = @ - q]
        PROVE  /\ AtLocation(OnHand', m) = AtLocation(OnHand, m) - q
               /\ \A l \in Locations \ {m} : AtLocation(OnHand', l) = AtLocation(OnHand, l)
    <2>1. OneRow(OnHand, OnHand', r, m) /\ OnHand'[<<r, m>>] = OnHand[<<r, m>>] - q
      BY <1>4, EntryRows
    <2>2. QED
      BY <1>1, <1>2, <2>1
  <1>5. ASSUME NEW n \in Locations, m # n,
               OnHand' = [OnHand EXCEPT ![<<r, m>>] = @ - q, ![<<r, n>>] = @ + q]
        PROVE  /\ AtLocation(OnHand', m) = AtLocation(OnHand, m) - q
               /\ AtLocation(OnHand', n) = AtLocation(OnHand, n) + q
               /\ \A l \in Locations \ {m, n} : AtLocation(OnHand', l) = AtLocation(OnHand, l)
    <2>1. TwoRows(OnHand, OnHand', r, m, n, q)
      BY <1>5, EntryRows
    <2>2. /\ AtLocation(OnHand', m) = AtLocation(OnHand, m) - q
          /\ AtLocation(OnHand', n) = AtLocation(OnHand, n) + q
      BY <2>1, MoveFrom, MoveTo
    <2>3. \A l \in Locations \ {m, n} : AtLocation(OnHand', l) = AtLocation(OnHand, l)
      BY <2>1, MoveOthers
    <2>4. QED
      BY <2>2, <2>3
  <1>6. QED
    BY <1>3, <1>4, <1>5

\* A transfer moves as much volume as stock.
LEMMA TransferMoves ==
    ASSUME StockInv, RequestInv, StockInv', NEW c \in Requests, CommitTransfer(c)
    PROVE  /\ call[c].from # call[c].to /\ call[c].quantity \in Nat
           /\ call[c].from \in Locations /\ call[c].to \in Locations
           /\ AtLocation(OnHand', call[c].from) = AtLocation(OnHand, call[c].from) - call[c].quantity
           /\ AtLocation(OnHand', call[c].to) = AtLocation(OnHand, call[c].to) + call[c].quantity
           /\ \A l \in Locations \ {call[c].from, call[c].to} : AtLocation(OnHand', l) = AtLocation(OnHand, l)
           /\ volume'[call[c].from] = volume[call[c].from] - call[c].quantity
           /\ volume'[call[c].to] = volume[call[c].to] + call[c].quantity
           /\ \A l \in Locations \ {call[c].from, call[c].to} : volume'[l] = volume[l]
  <1> DEFINE k == call[c]
  <1>1. k.product \in Products /\ k.from \in Locations /\ k.to \in Locations /\ k.quantity \in Nat
    BY RunningCall DEF CommitTransfer, Running
  <1>2. /\ k.from # k.to
        /\ OnHand' = [OnHand EXCEPT ![<<k.product, k.from>>] = @ - k.quantity,
                                    ![<<k.product, k.to>>] = @ + k.quantity]
    BY TransferEntry DEF Ledger!Transfer, OnHand
  <1>3. volume' = [volume EXCEPT ![k.from] = @ - k.quantity, ![k.to] = @ + k.quantity]
    BY DEF CommitTransfer
  <1>4. volume \in [Locations -> Int]
    BY DEF StockInv
  <1> HIDE DEF k
  <1>5. k.quantity \in Int
    BY <1>1
  <1>6. /\ AtLocation(OnHand', k.from) = AtLocation(OnHand, k.from) - k.quantity
        /\ AtLocation(OnHand', k.to) = AtLocation(OnHand, k.to) + k.quantity
        /\ \A l \in Locations \ {k.from, k.to} : AtLocation(OnHand', l) = AtLocation(OnHand, l)
    BY <1>1, <1>2, <1>5, EntryLocations
  <1>7. /\ volume'[k.from] = volume[k.from] - k.quantity
        /\ volume'[k.to] = volume[k.to] + k.quantity
        /\ \A l \in Locations \ {k.from, k.to} : volume'[l] = volume[l]
    BY <1>1, <1>2, <1>3, <1>4
  <1>8. QED
    BY <1>1, <1>2, <1>6, <1>7 DEF k

\* A receipt adds as much volume as stock, and to incoming.
LEMMA ReceiptAdds ==
    ASSUME StockInv, RequestInv, StockInv', NEW c \in Requests, NEW e \in Epochs, CommitReceive(c, e)
    PROVE  /\ call[c].to \in Locations /\ call[c].quantity \in Nat /\ incoming' # incoming
           /\ AtLocation(OnHand', call[c].to) = AtLocation(OnHand, call[c].to) + call[c].quantity
           /\ \A l \in Locations \ {call[c].to} : AtLocation(OnHand', l) = AtLocation(OnHand, l)
           /\ volume'[call[c].to] = volume[call[c].to] + call[c].quantity
           /\ \A l \in Locations \ {call[c].to} : volume'[l] = volume[l]
  <1> DEFINE k == call[c]
  <1>1. k.product \in Products /\ k.to \in Locations /\ k.quantity \in Nat /\ k.quantity > 0
    BY RunningCall DEF CommitReceive, Running
  <1>2. /\ OnHand' = [OnHand EXCEPT ![<<k.product, k.to>>] = @ + k.quantity]
        /\ incoming' = [incoming EXCEPT ![k.product] = @ + k.quantity]
    BY ReceiveEntry DEF Ledger!Receive, OnHand
  <1>3. volume' = [volume EXCEPT ![k.to] = @ + k.quantity]
    BY DEF CommitReceive
  <1>4. volume \in [Locations -> Int] /\ incoming \in [Products -> Nat]
    BY DEF StockInv
  <1> HIDE DEF k
  <1>5. k.quantity \in Int
    BY <1>1
  <1>6. /\ AtLocation(OnHand', k.to) = AtLocation(OnHand, k.to) + k.quantity
        /\ \A l \in Locations \ {k.to} : AtLocation(OnHand', l) = AtLocation(OnHand, l)
    BY <1>1, <1>2, <1>5, EntryLocations
  <1>7. /\ volume'[k.to] = volume[k.to] + k.quantity
        /\ \A l \in Locations \ {k.to} : volume'[l] = volume[l]
    BY <1>1, <1>3, <1>4
  <1>8. incoming'[k.product] # incoming[k.product]
    BY <1>1, <1>2, <1>4
  <1>9. QED
    BY <1>1, <1>6, <1>7, <1>8 DEF k

\* A sale takes as much volume as stock.
LEMMA SaleTakes ==
    ASSUME StockInv, RequestInv, StockInv', NEW c \in Requests, CommitSell(c)
    PROVE  /\ call[c].from \in Locations /\ call[c].quantity \in Nat
           /\ AtLocation(OnHand', call[c].from) = AtLocation(OnHand, call[c].from) - call[c].quantity
           /\ \A l \in Locations \ {call[c].from} : AtLocation(OnHand', l) = AtLocation(OnHand, l)
           /\ volume'[call[c].from] = volume[call[c].from] - call[c].quantity
           /\ \A l \in Locations \ {call[c].from} : volume'[l] = volume[l]
  <1> DEFINE k == call[c]
  <1>1. k.product \in Products /\ k.from \in Locations /\ k.quantity \in Nat
    BY RunningCall DEF CommitSell, Running
  <1>2. OnHand' = [OnHand EXCEPT ![<<k.product, k.from>>] = @ - k.quantity]
    BY SellEntry DEF Ledger!Sell, OnHand
  <1>3. volume' = [volume EXCEPT ![k.from] = @ - k.quantity]
    BY DEF CommitSell
  <1>4. volume \in [Locations -> Int]
    BY DEF StockInv
  <1> HIDE DEF k
  <1>5. k.quantity \in Int
    BY <1>1
  <1>6. /\ AtLocation(OnHand', k.from) = AtLocation(OnHand, k.from) - k.quantity
        /\ \A l \in Locations \ {k.from} : AtLocation(OnHand', l) = AtLocation(OnHand, l)
    BY <1>1, <1>2, <1>5, EntryLocations
  <1>7. /\ volume'[k.from] = volume[k.from] - k.quantity
        /\ \A l \in Locations \ {k.from} : volume'[l] = volume[l]
    BY <1>1, <1>3, <1>4
  <1>8. QED
    BY <1>1, <1>6, <1>7 DEF k

\* The stock at a location is the sum of its rows, before and after a step.
LEMMA StockAtRows ==
    ASSUME StockInv, StockInv'
    PROVE  \A l \in Locations :
               /\ StockAt(l) = AtLocation(OnHand, l)
               /\ StockAt(l)' = AtLocation(OnHand', l)
               /\ AtLocation(OnHand, l) \in Int
               /\ AtLocation(OnHand', l) \in Int
               /\ volume[l] \in Int /\ volume'[l] \in Int
  <1> TAKE l \in Locations
  <1>1. OnHand \in [Rows -> Int] /\ OnHand' \in [Rows -> Int]
    BY OnHandRows, OnHandRowsNext
  <1>2. [p \in Products |-> inv[<<p, l>>].onHand] = [p \in Products |-> OnHand[<<p, l>>]]
    BY OnHandRows DEF Rows
  <1>3. [p \in Products |-> inv'[<<p, l>>].onHand] = [p \in Products |-> OnHand'[<<p, l>>]]
    BY OnHandRowsNext DEF Rows
  <1>4. StockAt(l) = AtLocation(OnHand, l)
    BY <1>2 DEF StockAt, AtLocation
  <1>5. StockAt(l)' = AtLocation(OnHand', l)
    BY <1>3 DEF StockAt, AtLocation
  <1>6. AtLocation(OnHand, l) \in Int
    BY <1>1, RowSumTypes
  <1>7. AtLocation(OnHand', l) \in Int
    BY <1>1, RowSumTypes
  <1>8. volume[l] \in Int /\ volume'[l] \in Int
    BY DEF StockInv
  <1>9. QED
    BY <1>4, <1>5, <1>6, <1>7, <1>8

\* The volumes of a step: they move with the stock, unless the step is an
\* update of a location.
LEMMA StepVolumes ==
    ASSUME IInv, IInv', [Next]_vars, call' # call, NEW l \in Locations
    PROVE  volume'[l] - volume[l] = AtLocation(OnHand', l) - AtLocation(OnHand, l)
  <1> DEFINE Done == volume'[l] - volume[l] = AtLocation(OnHand', l) - AtLocation(OnHand, l)
  <1>1. StockInv /\ RequestInv /\ StockInv'
    BY Halves DEF IInv, TypeOK, StockInv
  <1>2. /\ volume[l] \in Int /\ volume'[l] \in Int
        /\ AtLocation(OnHand, l) \in Int /\ AtLocation(OnHand', l) \in Int
    BY <1>1, StockAtRows
  <1>3. ASSUME NEW c \in Requests, CommitTransfer(c)
        PROVE  Done
    <2>1. /\ call[c].from # call[c].to /\ call[c].quantity \in Nat
          /\ AtLocation(OnHand', call[c].from) = AtLocation(OnHand, call[c].from) - call[c].quantity
          /\ AtLocation(OnHand', call[c].to) = AtLocation(OnHand, call[c].to) + call[c].quantity
          /\ \A n \in Locations \ {call[c].from, call[c].to} : AtLocation(OnHand', n) = AtLocation(OnHand, n)
          /\ volume'[call[c].from] = volume[call[c].from] - call[c].quantity
          /\ volume'[call[c].to] = volume[call[c].to] + call[c].quantity
          /\ \A n \in Locations \ {call[c].from, call[c].to} : volume'[n] = volume[n]
      BY <1>1, <1>3, TransferMoves
    <2>2. CASE l = call[c].from
      BY <1>2, <2>1, <2>2
    <2>3. CASE l = call[c].to
      BY <1>2, <2>1, <2>3
    <2>4. CASE l \notin {call[c].from, call[c].to}
      BY <1>2, <2>1, <2>4
    <2>5. QED
      BY <2>2, <2>3, <2>4
  <1>4. ASSUME NEW c \in Requests, NEW e \in Epochs, CommitReceive(c, e)
        PROVE  Done
    <2>1. /\ call[c].quantity \in Nat
          /\ AtLocation(OnHand', call[c].to) = AtLocation(OnHand, call[c].to) + call[c].quantity
          /\ \A n \in Locations \ {call[c].to} : AtLocation(OnHand', n) = AtLocation(OnHand, n)
          /\ volume'[call[c].to] = volume[call[c].to] + call[c].quantity
          /\ \A n \in Locations \ {call[c].to} : volume'[n] = volume[n]
      BY <1>1, <1>4, ReceiptAdds
    <2>2. CASE l = call[c].to
      BY <1>2, <2>1, <2>2
    <2>3. CASE l # call[c].to
      BY <1>2, <2>1, <2>3
    <2>4. QED
      BY <2>2, <2>3
  <1>5. ASSUME NEW c \in Requests, CommitSell(c)
        PROVE  Done
    <2>1. /\ call[c].quantity \in Nat
          /\ AtLocation(OnHand', call[c].from) = AtLocation(OnHand, call[c].from) - call[c].quantity
          /\ \A n \in Locations \ {call[c].from} : AtLocation(OnHand', n) = AtLocation(OnHand, n)
          /\ volume'[call[c].from] = volume[call[c].from] - call[c].quantity
          /\ \A n \in Locations \ {call[c].from} : volume'[n] = volume[n]
      BY <1>1, <1>5, SaleTakes
    <2>2. CASE l = call[c].from
      BY <1>2, <2>1, <2>2
    <2>3. CASE l # call[c].from
      BY <1>2, <2>1, <2>3
    <2>4. QED
      BY <2>2, <2>3
  <1>6. ASSUME UNCHANGED <<OnHand, volume>>
        PROVE  Done
    BY <1>2, <1>6
  <1> HIDE DEF Done
  <1>7. Done
    BY <1>3, <1>4, <1>5, <1>6, StepKinds
  <1>8. QED
    BY <1>7 DEF Done

\* Volume and stock of a location move together: a request that moves one moves
\* the other by as much, in the same step.
THEOREM VolumeAlwaysFollows == Spec => VolumeFollowsStock
  <1>1. IInv /\ IInv' /\ [Next]_vars
            => [call' # call =>
                  \A l \in Locations : volume'[l] - volume[l] = StockAt(l)' - StockAt(l)]_vars
    <2> SUFFICES ASSUME IInv, IInv', [Next]_vars, call' # call, NEW l \in Locations
                 PROVE  volume'[l] - volume[l] = StockAt(l)' - StockAt(l)
      OBVIOUS
    <2>1. StockInv /\ StockInv'
      BY Halves DEF IInv, TypeOK, StockInv
    <2>2. StockAt(l) = AtLocation(OnHand, l) /\ StockAt(l)' = AtLocation(OnHand', l)
      BY <2>1, StockAtRows
    <2>3. volume'[l] - volume[l] = AtLocation(OnHand', l) - AtLocation(OnHand, l)
      BY StepVolumes
    <2>4. QED
      BY <2>2, <2>3
  <1>2. QED
    BY <1>1, Invariance, PTL DEF Spec, VolumeFollowsStock

-----------------------------------------------------------------------------
(* Capacity *)

\* Capacities are natural numbers.
LEMMA CapacityLemma ==
    ASSUME PlacesInv
    PROVE  \A l \in Locations : capacity[l] \in Int
  <1>1. \A x \in Capacities : x \in Int
    BY CapacitiesAssumption
  <1>2. QED
    BY <1>1 DEF PlacesInv

\* A transfer fits its destination: the capacity it was checked against is the
\* one the location still has, for the transfer is not stale.
LEMMA TransferFitsStep ==
    ASSUME IInv, IInv', ReadInv, [Next]_vars, NEW l \in Locations,
           incoming' = incoming, AtLocation(OnHand', l) > AtLocation(OnHand, l)
    PROVE  volume'[l] <= capacity[l]
  <1>1. StockInv /\ RequestInv /\ StockInv' /\ PlacesInv
    BY Halves DEF IInv, TypeOK, StockInv
  <1>2. /\ volume[l] \in Int /\ volume'[l] \in Int
        /\ AtLocation(OnHand, l) \in Int /\ AtLocation(OnHand', l) \in Int
    BY <1>1, StockAtRows
  <1>3. ASSUME NEW c \in Requests, CommitTransfer(c)
        PROVE  volume'[l] <= capacity[l]
    <2>1. /\ call[c].quantity \in Nat
          /\ AtLocation(OnHand', call[c].from) = AtLocation(OnHand, call[c].from) - call[c].quantity
          /\ \A n \in Locations \ {call[c].from, call[c].to} : AtLocation(OnHand', n) = AtLocation(OnHand, n)
          /\ volume'[call[c].to] = volume[call[c].to] + call[c].quantity
      BY <1>1, <1>3, TransferMoves
    <2>2. l # call[c].from
      BY <1>2, <2>1
    <2>3. l = call[c].to
      BY <1>2, <2>1, <2>2
    <2>4. seen[c].capacity = capacity[l]
      BY <1>3, <2>3 DEF CommitTransfer, ReadInv, SnapshotsHold
    <2>5. volume[l] <= seen[c].capacity - call[c].quantity
      BY <1>3, <2>3 DEF CommitTransfer
    <2>6. capacity[l] \in Int
      BY <1>1, CapacityLemma
    <2>7. QED
      BY <1>2, <2>1, <2>3, <2>4, <2>5, <2>6
  <1>4. ASSUME NEW c \in Requests, NEW e \in Epochs, CommitReceive(c, e)
        PROVE  FALSE
    BY <1>1, <1>4, ReceiptAdds
  <1>5. ASSUME NEW c \in Requests, CommitSell(c)
        PROVE  FALSE
    <2>1. /\ call[c].quantity \in Nat
          /\ AtLocation(OnHand', call[c].from) = AtLocation(OnHand, call[c].from) - call[c].quantity
          /\ \A n \in Locations \ {call[c].from} : AtLocation(OnHand', n) = AtLocation(OnHand, n)
      BY <1>1, <1>5, SaleTakes
    <2>2. QED
      BY <1>2, <2>1
  <1>6. ~ UNCHANGED OnHand
    BY <1>2
  <1>7. QED
    BY <1>3, <1>4, <1>5, <1>6, StepKinds

\* No transfer fills its destination beyond the capacity it has at the commit,
\* whatever updates of the location come between the check and the write.
THEOREM TransfersAlwaysFit == Spec => TransferFits
  <1>1. IInv /\ IInv' /\ ReadInv /\ [Next]_vars
            => [\A l \in Locations :
                   incoming' = incoming /\ StockAt(l)' > StockAt(l) => volume'[l] <= capacity[l]]_vars
    <2> SUFFICES ASSUME IInv, IInv', ReadInv, [Next]_vars, NEW l \in Locations,
                        incoming' = incoming, StockAt(l)' > StockAt(l)
                 PROVE  volume'[l] <= capacity[l]
      OBVIOUS
    <2>1. StockInv /\ StockInv'
      BY Halves DEF IInv, TypeOK, StockInv
    <2>2. StockAt(l) = AtLocation(OnHand, l) /\ StockAt(l)' = AtLocation(OnHand', l)
      BY <2>1, StockAtRows
    <2>3. QED
      BY <2>2, TransferFitsStep
  <1>2. QED
    BY <1>1, Invariance, ReadsHold, PTL DEF Spec, TransferFits

\* Receipts check the volume again when they write: what they fill beyond the
\* capacity was lowered while they were open.
LEMMA ReceiptFitsStep ==
    ASSUME IInv, IInv', [Next]_vars, NEW l \in Locations,
           incoming' # incoming, AtLocation(OnHand', l) > AtLocation(OnHand, l)
    PROVE  \/ volume'[l] <= capacity[l]
           \/ \E c \in Requests :
                  Running(c, "receive") /\ call[c].to = l /\ seen[c].capacity > capacity[l]
  <1>1. StockInv /\ RequestInv /\ StockInv' /\ PlacesInv
    BY Halves DEF IInv, TypeOK, StockInv
  <1>2. /\ volume[l] \in Int /\ volume'[l] \in Int
        /\ AtLocation(OnHand, l) \in Int /\ AtLocation(OnHand', l) \in Int
    BY <1>1, StockAtRows
  <1>3. PICK c \in Requests : \E e \in Epochs : CommitReceive(c, e)
    <2>1. ASSUME NEW c \in Requests, CommitTransfer(c) \/ CommitSell(c)
          PROVE  FALSE
      BY <2>1 DEF CommitTransfer, CommitSell
    <2>2. QED
      BY <2>1, StepKinds
  <1>4. /\ call[c].quantity \in Nat
        /\ \A n \in Locations \ {call[c].to} : AtLocation(OnHand', n) = AtLocation(OnHand, n)
        /\ volume'[call[c].to] = volume[call[c].to] + call[c].quantity
    BY <1>1, <1>3, ReceiptAdds
  <1>5. l = call[c].to
    BY <1>2, <1>4
  <1>6. volume[l] <= seen[c].capacity - call[c].quantity /\ Running(c, "receive")
    BY <1>3, <1>5 DEF CommitReceive
  <1>7. capacity[l] \in Int
    BY <1>1, CapacityLemma
  <1>8. seen[c].capacity \in Int
    BY <1>1 DEF RequestInv, Seen
  <1>9. QED
    BY <1>2, <1>4, <1>5, <1>6, <1>7, <1>8

\* Receipts that overlap, none of them Serializable, fill a location beyond its
\* capacity only if that was lowered while one of them was open.
THEOREM ReceiptsAlwaysFit == Spec => ReceiptsFitTogether
  <1>1. IInv /\ IInv' /\ [Next]_vars
            => [\A l \in Locations :
                   incoming' # incoming /\ StockAt(l)' > StockAt(l) =>
                       \/ volume'[l] <= capacity[l]
                       \/ \E c \in Requests :
                              Running(c, "receive") /\ call[c].to = l /\ seen[c].capacity > capacity[l]]_vars
    <2> SUFFICES ASSUME IInv, IInv', [Next]_vars, NEW l \in Locations,
                        incoming' # incoming, StockAt(l)' > StockAt(l)
                 PROVE  \/ volume'[l] <= capacity[l]
                        \/ \E c \in Requests :
                               Running(c, "receive") /\ call[c].to = l /\ seen[c].capacity > capacity[l]
      OBVIOUS
    <2>1. StockInv /\ StockInv'
      BY Halves DEF IInv, TypeOK, StockInv
    <2>2. StockAt(l) = AtLocation(OnHand, l) /\ StockAt(l)' = AtLocation(OnHand', l)
      BY <2>1, StockAtRows
    <2>3. QED
      BY <2>2, ReceiptFitsStep
  <1>2. QED
    BY <1>1, Invariance, PTL DEF Spec, ReceiptsFitTogether

-----------------------------------------------------------------------------
(* Ages *)

\* The units of every row that are as old as e.
AsOld(profiles, e) == [row \in Rows |-> profiles[row][e]]

\* The units of an age, over all locations, as a sum of rows.
LEMMA UnitsAsOldRows ==
    \A p \in Products, e \in Epochs :
        /\ UnitsAsOld(p, e) = OfProduct(AsOld(lots, e), p)
        /\ UnitsAsOld(p, e)' = OfProduct(AsOld(lots', e), p)
  <1> TAKE p \in Products, e \in Epochs
  <1>1. [l \in Locations |-> lots[<<p, l>>][e]] = [l \in Locations |-> AsOld(lots, e)[<<p, l>>]]
    BY DEF AsOld, Rows
  <1>2. [l \in Locations |-> lots'[<<p, l>>][e]] = [l \in Locations |-> AsOld(lots', e)[<<p, l>>]]
    BY DEF AsOld, Rows
  <1>3. UnitsAsOld(p, e) = OfProduct(AsOld(lots, e), p)
    BY <1>1 DEF UnitsAsOld, OfProduct
  <1>4. UnitsAsOld(p, e)' = OfProduct(AsOld(lots', e), p)
    BY <1>2 DEF UnitsAsOld, OfProduct
  <1>5. QED
    BY <1>3, <1>4

\* The rows of that sum are integers.
LEMMA AsOldType ==
    ASSUME NEW u \in [Rows -> Profile], NEW e \in Epochs
    PROVE  /\ AsOld(u, e) \in [Rows -> Int]
           /\ \A row \in Rows : AsOld(u, e)[row] = u[row][e]
  <1>1. \A row \in Rows : u[row][e] \in Int
    BY DEF Profile
  <1>2. QED
    BY <1>1 DEF AsOld

\* The lots a transfer takes are the lots it adds, at every age.
LEMMA TransferKeepsAges ==
    ASSUME StockInv, RequestInv, StockInv', NEW c \in Requests, CommitTransfer(c),
           NEW p \in Products, NEW e \in Epochs
    PROVE  OfProduct(AsOld(lots', e), p) = OfProduct(AsOld(lots, e), p)
  <1> DEFINE k == call[c]
             m == k.from
             n == k.to
             r == k.product
             u == lots[<<r, m>>]
             v == lots[<<r, n>>]
             q == TakenLots(u, k.quantity)[e]
             h == AsOld(lots, e)
             d == AsOld(lots', e)
  <1>1. r \in Products /\ m \in Locations /\ n \in Locations /\ k.quantity \in Nat
    BY RunningCall DEF CommitTransfer, Running
  <1>2. m # n
    BY TransferEntry DEF Ledger!Transfer
  <1>3. lots' = [lots EXCEPT ![<<r, m>>] = KeptLots(@, k.quantity),
                             ![<<r, n>>] = MergeLots(@, TakenLots(u, k.quantity))]
    BY DEF CommitTransfer
  <1>4. lots \in [Rows -> Profile] /\ lots' \in [Rows -> Profile]
    BY DEF StockInv
  <1>5. <<r, m>> \in Rows /\ <<r, n>> \in Rows /\ <<r, m>> # <<r, n>>
    BY <1>1, <1>2 DEF Rows
  <1>6. u \in Profile /\ v \in Profile
    BY <1>4, <1>5
  <1>7. /\ lots'[<<r, m>>] = KeptLots(u, k.quantity)
        /\ lots'[<<r, n>>] = MergeLots(v, TakenLots(u, k.quantity))
        /\ \A row \in Rows \ {<<r, m>>, <<r, n>>} : lots'[row] = lots[row]
    <2> HIDE DEF k, m, n, r
    <2>1. QED
      BY <1>3, <1>4, <1>5
  <1> HIDE DEF k, m, n, r, u, v
  <1>8. /\ q \in Int
        /\ KeptLots(u, k.quantity)[e] = u[e] - q
        /\ MergeLots(v, TakenLots(u, k.quantity))[e] = v[e] + q
    BY <1>1, <1>6 DEF KeptLots, TakenLots, MergeLots, Profile
  <1> HIDE DEF q
  <1>9. h \in [Rows -> Int] /\ d \in [Rows -> Int]
    BY <1>4, AsOldType
  <1>10. /\ d[<<r, m>>] = h[<<r, m>>] - q
         /\ d[<<r, n>>] = h[<<r, n>>] + q
         /\ \A row \in Rows \ {<<r, m>>, <<r, n>>} : d[row] = h[row]
    BY <1>4, <1>5, <1>7, <1>8, AsOldType DEF u, v
  <1> HIDE DEF h, d
  <1>11. TwoRows(h, d, r, m, n, q)
    BY <1>2, <1>9, <1>10 DEF TwoRows
  <1>12. OfProduct(d, p) = OfProduct(h, p)
    BY <1>1, <1>8, <1>11, MoveProducts
  <1>13. QED
    BY <1>12 DEF h, d

\* A receipt and a sale change the ages of one product, and its total.
LEMMA OneProductAges ==
    ASSUME StockInv, RequestInv, StockInv', NEW c \in Requests,
           (\E f \in Epochs : CommitReceive(c, f)) \/ CommitSell(c),
           NEW p \in Products, incoming'[p] = incoming[p], sold'[p] = sold[p], NEW e \in Epochs
    PROVE  OfProduct(AsOld(lots', e), p) = OfProduct(AsOld(lots, e), p)
  <1> DEFINE k == call[c]
  <1>1. k.product \in Products /\ k.quantity \in Nat /\ k.quantity > 0
    BY RunningCall DEF CommitReceive, CommitSell, Running
  <1>2. \/ incoming' = [incoming EXCEPT ![k.product] = @ + k.quantity]
        \/ sold' = [sold EXCEPT ![k.product] = @ + k.quantity]
    BY DEF CommitReceive, CommitSell
  <1>3. incoming \in [Products -> Nat] /\ sold \in [Products -> Nat]
    BY DEF StockInv
  <1>4. \E l, w : lots' = [lots EXCEPT ![<<k.product, l>>] = w]
    BY DEF CommitReceive, CommitSell
  <1> HIDE DEF k
  <1>5. p # k.product
    BY <1>1, <1>2, <1>3
  <1>6. lots \in [Rows -> Profile]
    BY DEF StockInv
  <1>7. \A l \in Locations : lots'[<<p, l>>] = lots[<<p, l>>]
    BY <1>4, <1>5, <1>6 DEF Rows
  <1>8. [l \in Locations |-> AsOld(lots', e)[<<p, l>>]] = [l \in Locations |-> AsOld(lots, e)[<<p, l>>]]
    BY <1>7 DEF AsOld, Rows
  <1>9. QED
    BY <1>8 DEF OfProduct

\* Stock keeps its age: only receipts and sales change how many units of a
\* product are as old as a date.
THEOREM AgesAlwaysConserved == Spec => AgesConserved
  <1>1. IInv /\ IInv' /\ [Next]_vars
            => [\A p \in Products :
                   incoming'[p] = incoming[p] /\ sold'[p] = sold[p] =>
                       \A e \in Epochs : UnitsAsOld(p, e)' = UnitsAsOld(p, e)]_vars
    <2> SUFFICES ASSUME IInv, IInv', [Next]_vars, NEW p \in Products,
                        incoming'[p] = incoming[p], sold'[p] = sold[p], NEW e \in Epochs
                 PROVE  UnitsAsOld(p, e)' = UnitsAsOld(p, e)
      OBVIOUS
    <2>1. StockInv /\ RequestInv /\ StockInv'
      BY Halves DEF IInv, TypeOK, StockInv
    <2>2. OfProduct(AsOld(lots', e), p) = OfProduct(AsOld(lots, e), p)
      BY <2>1, StepKinds, TransferKeepsAges, OneProductAges
    <2>3. QED
      BY <2>2, UnitsAsOldRows
  <1>2. QED
    BY <1>1, Invariance, PTL DEF Spec, AgesConserved

-----------------------------------------------------------------------------
(* The expiry of reservations *)

\* The job takes the steps that any request may take: it implements the
\* specification of the requests, whatever its batch holds.
THEOREM ExpiryIsRequests == ExpirySpec => Spec
  <1>1. ExpiryInit => Init
    BY DEF ExpiryInit
  <1>2. [ExpiryNext]_expiryVars => [Next]_vars
    <2> SUFFICES ASSUME ExpiryNext PROVE Next \/ UNCHANGED vars
      BY DEF expiryVars
    <2>1. ASSUME NEW c \in Requests, Request(c) PROVE Next
      BY <2>1 DEF Request, Next
    <2>2. ASSUME NEW r \in Reservations, Lapse(r) PROVE UNCHANGED vars
      BY <2>2 DEF Lapse
    <2>3. CASE StartJob \/ Skip
      BY <2>3 DEF StartJob, Skip
    <2>4. CASE Visit
      BY <2>4, WorkerAssumption DEF Visit, Next
    <2>5. CASE Expire \/ FailJob
      BY <2>5, WorkerAssumption DEF Expire, FailJob, Next
    <2>6. QED
      BY <2>1, <2>2, <2>3, <2>4, <2>5 DEF ExpiryNext
  <1>3. QED
    BY <1>1, <1>2, PTL DEF ExpirySpec, Spec

\* Beside the job, too, no stock is oversold and no reserved unit is left that
\* nothing can release (releaseExpiredReservations).
THEOREM ExpiryKeepsStock == ExpirySpec => [](NoOversell /\ NoLeakedHold)
  BY ExpiryIsRequests, NeverOversold, NeverLeaked, PTL

-----------------------------------------------------------------------------
(* Orders                                                                   *)
(*                                                                          *)
(* The status of an order against what was received of its lines, for any   *)
(* number of lines, requests and units, beside any requests on the stock;   *)
(* and what its receipts do to the stock that they share with them.         *)

all == <<vars, orderVars>>

\* The rows of the lines, and requests, are there once the row of the order is.
Shape ==
    /\ order = [status |-> order.status, approved |-> order.approved]
    /\ order.approved \in BOOLEAN
    /\ DOMAIN line = Lines
    /\ order = NoOrder =>
           (\A n \in Lines : line[n] = NoLine) /\ (\A c \in Clerks : form[c] = NoForm)
    /\ order # NoOrder =>
           \A n \in Lines :
               line[n] = [product |-> line[n].product, location |-> line[n].location,
                          ordered |-> line[n].ordered, received |-> line[n].received]
    /\ DOMAIN form = Clerks
    /\ outdated \in [Clerks -> BOOLEAN]

\* Whoever may receive goods has that from an approval, and no change of
\* status takes the approval back.
ApprovalKept ==
    /\ order.status \in {"APPROVED", "RECEIVED"} => order.approved
    /\ \A c \in Clerks : form[c].op = "receive" => order.approved
    /\ order # NoOrder => \A n \in Lines : line[n].received = 0 \/ order.approved

\* The transaction of a receipt that is not refused still sees the lines as
\* they are: whoever writes a line also writes the row of the order.
SnapshotCurrent ==
    \A c \in Clerks : OpenReceipt(c) /\ ~outdated[c] => form[c].snapshot = line

OrderInv ==
    /\ Shape
    /\ ApprovalKept
    /\ SnapshotCurrent
    /\ ReceivedMeansComplete

-----------------------------------------------------------------------------
(* Steps *)

\* There is no order and no request on it at first.
LEMMA InitOrderInv == OrdersInit => OrderInv
<1> SUFFICES ASSUME OrdersInit PROVE OrderInv
  OBVIOUS
<1>1. Shape
  BY DEF OrdersInit, Shape, NoOrder
<1>2. ApprovalKept
  BY DEF OrdersInit, ApprovalKept, NoOrder, NoForm
<1>3. SnapshotCurrent
  BY DEF OrdersInit, SnapshotCurrent, OpenReceipt, NoForm
<1>4. ReceivedMeansComplete
  BY DEF OrdersInit, ReceivedMeansComplete, NoOrder
<1>5. QED
  BY <1>1, <1>2, <1>3, <1>4 DEF OrderInv

\* createPurchaseOrder writes lines of which nothing was received.
LEMMA CreateKeeps ==
  ASSUME OrderInv,
         NEW rows \in [Lines -> [product : Products, location : Locations,
                                 ordered : Quantities, received : {0}]],
         CreateOrder(rows)
  PROVE  OrderInv'
<1>1. /\ order = NoOrder
      /\ order' = [status |-> "DRAFT", approved |-> FALSE]
      /\ line' = rows /\ form' = form /\ outdated' = outdated
  BY DEF CreateOrder
<1>2. \A n \in Lines :
        /\ rows[n] = [product |-> rows[n].product, location |-> rows[n].location,
                      ordered |-> rows[n].ordered, received |-> rows[n].received]
        /\ rows[n].received = 0
  OBVIOUS
<1>3. order' # NoOrder /\ order'.status = "DRAFT" /\ order'.approved = FALSE
  BY <1>1 DEF NoOrder
<1>4. \A c \in Clerks : form[c].op # "receive"
  BY <1>1 DEF OrderInv, Shape, NoForm
<1>5. Shape'
  BY <1>1, <1>2, <1>3 DEF OrderInv, Shape
<1>6. ApprovalKept'
  BY <1>1, <1>2, <1>3, <1>4 DEF ApprovalKept
<1>7. SnapshotCurrent'
  BY <1>1, <1>4 DEF SnapshotCurrent, OpenReceipt
<1>8. ReceivedMeansComplete'
  BY <1>3 DEF ReceivedMeansComplete
<1>9. QED
  BY <1>5, <1>6, <1>7, <1>8 DEF OrderInv

\* A request that ends, or one that is about to begin, without a write.
LEMMA FormKeeps ==
  ASSUME OrderInv, NEW c \in Clerks, NEW f, File(c, f),
         UNCHANGED <<order, line>>,
         order = NoOrder => f = NoForm,
         f.op = "receive" => order.approved,
         ~OpenReceipt(c)',
         outdated' \in [Clerks -> BOOLEAN],
         \A d \in Clerks \ {c} : outdated[d] => outdated'[d]
  PROVE  OrderInv'
<1>1. /\ form' = [form EXCEPT ![c] = f] /\ DOMAIN form = Clerks
      /\ \A d \in Clerks \ {c} : form'[d] = form[d]
      /\ form'[c] = f
  BY DEF OrderInv, Shape, File
<1>2. Shape'
  BY <1>1 DEF OrderInv, Shape
<1>3. ApprovalKept'
  BY <1>1 DEF OrderInv, ApprovalKept
<1>4. SnapshotCurrent'
  <2> SUFFICES ASSUME NEW d \in Clerks, OpenReceipt(d)', ~outdated'[d]
               PROVE  form'[d].snapshot = line'
    BY DEF SnapshotCurrent
  <2>1. d # c
    OBVIOUS
  <2>2. OpenReceipt(d) /\ ~outdated[d]
    BY <1>1, <2>1 DEF OpenReceipt
  <2>3. QED
    BY <1>1, <2>1, <2>2 DEF OrderInv, SnapshotCurrent
<1>5. ReceivedMeansComplete'
  BY DEF OrderInv, ReceivedMeansComplete
<1>6. QED
  BY <1>2, <1>3, <1>4, <1>5 DEF OrderInv

\* Outdated transactions stay outdated.
LEMMA OutdateGrows ==
  ASSUME outdated \in [Clerks -> BOOLEAN], NEW rows
  PROVE  /\ Outdate(rows) \in [Clerks -> BOOLEAN]
         /\ \A d \in Clerks : outdated[d] => Outdate(rows)[d]
BY DEF Outdate

\* An order that was approved stays so, whatever status overwrites which.
LEMMA UpdateKeeps == ASSUME OrderInv, NEW c \in Clerks, UpdateOrder(c) PROVE OrderInv'
<1> DEFINE op == form[c].op
<1>1. /\ op \in {"EDIT", "SUBMITTED", "APPROVED", "CANCELLED"}
      /\ order' = IF op = "EDIT" THEN order
                  ELSE [status |-> op, approved |-> order.approved \/ op = "APPROVED"]
      /\ form' = [form EXCEPT ![c] = NoForm]
      /\ outdated' = Outdate({OrderRow})
      /\ line' = line
  BY DEF UpdateOrder, Allowed, File
<1>2. order # NoOrder
  BY <1>1 DEF OrderInv, Shape, NoForm
<1>3. order'.status \in {order.status, "SUBMITTED", "APPROVED", "CANCELLED"}
  BY <1>1
<1>4. /\ order'.approved \in BOOLEAN
      /\ order.approved => order'.approved
      /\ order' = order \/ (order'.status = op /\ (op = "APPROVED" => order'.approved))
      /\ order' = [status |-> order'.status, approved |-> order'.approved]
  BY <1>1 DEF OrderInv, Shape
<1>5. order' # NoOrder
  BY <1>1, <1>2 DEF NoOrder
<1>6. /\ \A d \in Clerks \ {c} : form'[d] = form[d]
      /\ form'[c].op = "none" /\ ~OpenReceipt(c)'
      /\ DOMAIN form' = Clerks
  BY <1>1 DEF OrderInv, Shape, NoForm, OpenReceipt
<1>7. /\ outdated' \in [Clerks -> BOOLEAN]
      /\ \A d \in Clerks : outdated[d] => outdated'[d]
  BY <1>1, OutdateGrows DEF OrderInv, Shape
<1> HIDE DEF op
<1>8. Shape'
  BY <1>1, <1>2, <1>4, <1>5, <1>6, <1>7 DEF OrderInv, Shape
<1>9. ApprovalKept'
  <2>1. order'.status \in {"APPROVED", "RECEIVED"} => order'.approved
    BY <1>1, <1>4 DEF OrderInv, ApprovalKept
  <2>2. \A d \in Clerks : form'[d].op = "receive" => order'.approved
    BY <1>4, <1>6 DEF OrderInv, ApprovalKept
  <2>3. \A n \in Lines : line'[n].received = 0 \/ order'.approved
    BY <1>1, <1>2, <1>4 DEF OrderInv, ApprovalKept
  <2>4. QED
    BY <2>1, <2>2, <2>3 DEF ApprovalKept
<1>10. SnapshotCurrent'
  <2> SUFFICES ASSUME NEW d \in Clerks, OpenReceipt(d)', ~outdated'[d]
               PROVE  form'[d].snapshot = line'
    BY DEF SnapshotCurrent
  <2>1. d # c
    BY <1>6
  <2>2. OpenReceipt(d) /\ ~outdated[d]
    BY <1>6, <1>7, <2>1 DEF OpenReceipt
  <2>3. QED
    BY <1>1, <1>6, <2>1, <2>2 DEF OrderInv, SnapshotCurrent
<1>11. ReceivedMeansComplete'
  BY <1>1, <1>4 DEF OrderInv, ReceivedMeansComplete
<1>12. QED
  BY <1>8, <1>9, <1>10, <1>11 DEF OrderInv

\* The commit of a receipt: what it brings in is added to the lines of its
\* snapshot, which are the lines there are, and the status says what they say.
LEMMA CommitFacts ==
  ASSUME OrderInv, NEW c \in Clerks, NEW e \in Epochs, CommitReceipt(c, e)
  PROVE  /\ order # NoOrder /\ order.approved
         /\ order'.approved = order.approved
         /\ order' = [status |-> order'.status, approved |-> order'.approved]
         /\ order'.status \in {"RECEIVED", "APPROVED"}
         /\ (order'.status = "RECEIVED") <=> \A n \in Lines : line'[n].received >= line'[n].ordered
         /\ DOMAIN line' = Lines
         /\ \A n \in Lines :
               line'[n] = [product |-> line'[n].product, location |-> line'[n].location,
                           ordered |-> line'[n].ordered, received |-> line'[n].received]
<1> DEFINE f == form[c]
           units(n) == UnitsFor(f.body, {n})
<1>1. /\ OpenReceipt(c) /\ ~outdated[c]
      /\ line' = Counted(f)
      /\ order' = [order EXCEPT !.status = IF Complete(f) THEN "RECEIVED" ELSE "APPROVED"]
  BY DEF CommitReceipt
<1>2. f.op = "receive" /\ f.snapshot = line
  BY <1>1 DEF OrderInv, SnapshotCurrent, OpenReceipt
<1>3. order # NoOrder /\ order.approved
  BY <1>2 DEF OrderInv, Shape, ApprovalKept, NoForm
<1>4. /\ order'.approved = order.approved
      /\ order'.status = IF Complete(f) THEN "RECEIVED" ELSE "APPROVED"
      /\ order' = [status |-> order'.status, approved |-> order'.approved]
  BY <1>1 DEF OrderInv, Shape
<1>5. /\ DOMAIN line' = Lines
      /\ \A n \in Lines : line'[n] = [line[n] EXCEPT !.received = @ + units(n)]
  BY <1>1 DEF Counted
<1>6. \A n \in Lines :
         /\ line'[n].ordered = line[n].ordered
         /\ line'[n].received = line[n].received + units(n)
         /\ line'[n] = [product |-> line'[n].product, location |-> line'[n].location,
                        ordered |-> line'[n].ordered, received |-> line'[n].received]
  <2> SUFFICES ASSUME NEW n \in Lines
               PROVE  /\ line'[n].ordered = line[n].ordered
                      /\ line'[n].received = line[n].received + units(n)
                      /\ line'[n] = [product |-> line'[n].product, location |-> line'[n].location,
                                     ordered |-> line'[n].ordered, received |-> line'[n].received]
    OBVIOUS
  <2>1. line[n] = [product |-> line[n].product, location |-> line[n].location,
                   ordered |-> line[n].ordered, received |-> line[n].received]
    BY <1>3 DEF OrderInv, Shape
  <2>2. line'[n] = [line[n] EXCEPT !.received = @ + units(n)]
    BY <1>5
  <2> HIDE DEF units
  <2>3. QED
    BY <2>1, <2>2
<1>7. Complete(f) <=> \A n \in Lines : line'[n].received >= line'[n].ordered
  BY <1>2, <1>6 DEF Complete
<1> HIDE DEF f
<1>8. QED
  BY <1>3, <1>4, <1>5, <1>6, <1>7

\* A receipt keeps the invariant; it outdates every other one that is open,
\* since each of them is going to write the row of the order.
LEMMA CommitKeeps ==
  ASSUME OrderInv, NEW c \in Clerks, NEW e \in Epochs, CommitReceipt(c, e)
  PROVE  OrderInv'
<1> DEFINE rows == ReceiptWrites(form[c].body)
<1>1. /\ form' = [form EXCEPT ![c] = NoForm]
      /\ outdated' = [Outdate(rows) EXCEPT ![c] = FALSE]
  BY DEF CommitReceipt, File
<1>2. OrderRow \in rows
  BY DEF ReceiptWrites
<1> HIDE DEF rows
<1>3. /\ \A d \in Clerks \ {c} : form'[d] = form[d]
      /\ form'[c].op = "none" /\ ~OpenReceipt(c)'
      /\ DOMAIN form' = Clerks
  BY <1>1 DEF OrderInv, Shape, NoForm, OpenReceipt
<1>4. outdated' \in [Clerks -> BOOLEAN]
  BY <1>1, OutdateGrows DEF OrderInv, Shape
<1>5. ASSUME NEW d \in Clerks \ {c}, OpenReceipt(d) PROVE outdated'[d]
  <2>1. outdated'[d] = Outdate(rows)[d]
    BY <1>1 DEF Outdate
  <2>2. ReceiptWrites(form[d].body) \cap rows # {}
    BY <1>2 DEF ReceiptWrites
  <2>3. QED
    BY <1>5, <2>1, <2>2 DEF Outdate
<1>6. order' # NoOrder
  BY CommitFacts DEF NoOrder
<1>7. Shape'
  BY <1>3, <1>4, <1>6, CommitFacts DEF OrderInv, Shape
<1>8. ApprovalKept'
  BY CommitFacts DEF ApprovalKept
<1>9. SnapshotCurrent'
  <2> SUFFICES ASSUME NEW d \in Clerks, OpenReceipt(d)', ~outdated'[d] PROVE FALSE
    BY DEF SnapshotCurrent
  <2>1. d # c
    BY <1>3
  <2>2. OpenReceipt(d)
    BY <1>3, <2>1 DEF OpenReceipt
  <2>3. QED
    BY <1>5, <2>1, <2>2
<1>10. ReceivedMeansComplete'
  BY CommitFacts DEF ReceivedMeansComplete
<1>11. QED
  BY <1>7, <1>8, <1>9, <1>10 DEF OrderInv

\* The transaction of a receipt begins with the lines there are.
LEMMA BeginKeeps == ASSUME OrderInv, NEW c \in Clerks, BeginReceipt(c) PROVE OrderInv'
<1>1. /\ form[c].op = "receive" /\ order' = order /\ line' = line
      /\ DOMAIN form' = Clerks
      /\ \A d \in Clerks \ {c} : form'[d] = form[d] /\ outdated'[d] = outdated[d]
      /\ form'[c].op = "receive" /\ form'[c].snapshot = line
      /\ outdated' \in [Clerks -> BOOLEAN]
  BY DEF BeginReceipt, File, OrderInv, Shape
<1>2. order # NoOrder
  BY <1>1 DEF OrderInv, Shape, NoForm
<1>3. Shape'
  BY <1>1, <1>2 DEF OrderInv, Shape
<1>4. ApprovalKept'
  BY <1>1 DEF OrderInv, ApprovalKept
<1>5. SnapshotCurrent'
  <2> SUFFICES ASSUME NEW d \in Clerks, OpenReceipt(d)', ~outdated'[d]
               PROVE  form'[d].snapshot = line'
    BY DEF SnapshotCurrent
  <2>1. CASE d = c
    BY <1>1, <2>1
  <2>2. CASE d # c
    <3>1. OpenReceipt(d) /\ ~outdated[d]
      BY <1>1, <2>2 DEF OpenReceipt
    <3>2. QED
      BY <1>1, <2>2, <3>1 DEF OrderInv, SnapshotCurrent
  <2>3. QED
    BY <2>1, <2>2
<1>6. ReceivedMeansComplete'
  BY <1>1 DEF OrderInv, ReceivedMeansComplete
<1>7. QED
  BY <1>3, <1>4, <1>5, <1>6 DEF OrderInv

\* A request on the stock leaves the order alone; it may outdate a receipt.
LEMMA InventoryKeeps == ASSUME OrderInv, Inventory PROVE OrderInv'
<1>1. PICK rows : outdated' = Outdate(rows) /\ UNCHANGED <<order, line, form>>
  BY DEF Inventory
<1>2. /\ outdated' \in [Clerks -> BOOLEAN]
      /\ \A d \in Clerks : outdated[d] => outdated'[d]
  BY <1>1, OutdateGrows DEF OrderInv, Shape
<1>3. QED
  BY <1>1, <1>2 DEF OrderInv, Shape, ApprovalKept, SnapshotCurrent, OpenReceipt, ReceivedMeansComplete

\* Every step of an order keeps the invariant.
LEMMA NextOrderInv == OrderInv /\ [OrdersNext]_all => OrderInv'
<1> SUFFICES ASSUME OrderInv, [OrdersNext]_all PROVE OrderInv'
  OBVIOUS
<1>0. DOMAIN form = Clerks /\ outdated \in [Clerks -> BOOLEAN]
  BY DEF OrderInv, Shape
<1>1. ASSUME NEW c \in Clerks, NEW op \in DOMAIN Allowed, ReadOrder(c, op) PROVE OrderInv'
  <2>1. File(c, [op |-> op]) /\ UNCHANGED <<order, line, outdated>>
    BY <1>1 DEF ReadOrder
  <2>2. op # "receive" /\ order # NoOrder
    BY <1>1 DEF ReadOrder, Allowed, NoOrder
  <2>3. ~OpenReceipt(c)'
    BY <1>0, <2>1, <2>2 DEF OpenReceipt, File
  <2>4. QED
    BY <1>0, <2>1, <2>2, <2>3, FormKeeps
<1>2. ASSUME NEW c \in Clerks, NEW body \in Bodies, ReadForReceipt(c, body) PROVE OrderInv'
  <2> DEFINE f == [op |-> "receive", open |-> FALSE, body |-> body, read |-> line]
  <2>1. /\ File(c, f) /\ UNCHANGED <<order, line, outdated>>
        /\ order.status \in {"APPROVED", "RECEIVED"}
    BY <1>2 DEF ReadForReceipt
  <2>2. order # NoOrder /\ order.approved
    BY <2>1 DEF NoOrder, OrderInv, ApprovalKept
  <2>3. ~OpenReceipt(c)'
    BY <1>0, <2>1 DEF OpenReceipt, File
  <2> HIDE DEF f
  <2>4. QED
    BY <1>0, <2>1, <2>2, <2>3, FormKeeps
<1>3. ASSUME NEW c \in Clerks, GiveUp(c) PROVE OrderInv'
  <2>1. File(c, NoForm) /\ UNCHANGED <<order, line>> /\ outdated' = [outdated EXCEPT ![c] = FALSE]
    BY <1>3 DEF GiveUp
  <2>2. NoForm.op # "receive"
    BY DEF NoForm
  <2>3. ~OpenReceipt(c)'
    BY <1>0, <2>1 DEF OpenReceipt, File, NoForm
  <2>4. /\ outdated' \in [Clerks -> BOOLEAN]
        /\ \A d \in Clerks \ {c} : outdated[d] => outdated'[d]
    BY <1>0, <2>1
  <2>5. QED
    BY <2>1, <2>2, <2>3, <2>4, FormKeeps
<1>4. CASE UNCHANGED all
  BY <1>4 DEF all, orderVars, OrderInv, Shape, ApprovalKept, SnapshotCurrent, OpenReceipt,
              ReceivedMeansComplete
<1>5. QED
  BY <1>1, <1>2, <1>3, <1>4, CreateKeeps, UpdateKeeps, BeginKeeps, CommitKeeps, InventoryKeeps
     DEF OrdersNext

\* The invariant holds in every state of an order.
LEMMA AlwaysOrderInv == OrdersSpec => []OrderInv
<1>1. OrdersSpec => OrdersInit /\ [][OrdersNext]_all
  BY DEF OrdersSpec, all
<1>2. QED
  BY <1>1, InitOrderInv, NextOrderInv, PTL

-----------------------------------------------------------------------------
(* The theorems *)

\* purchaseOrderService.js, receivePurchaseOrder: only an order that was
\* approved brings stock in, whatever changes of status overtake each other.
THEOREM ApprovedBeforeReceivedHolds == OrdersSpec => []ApprovedBeforeReceived
<1>1. OrderInv => ApprovedBeforeReceived
  BY DEF OrderInv, Shape, ApprovalKept, ApprovedBeforeReceived
<1>2. QED
  BY AlwaysOrderInv, <1>1, PTL

\* The status RECEIVED is never ahead of the lines: no edit, no other status
\* and no concurrent receipt leaves a line short of what was ordered.
THEOREM ReceivedMeansCompleteHolds == OrdersSpec => []ReceivedMeansComplete
<1>1. OrderInv => ReceivedMeansComplete
  BY DEF OrderInv
<1>2. QED
  BY AlwaysOrderInv, <1>1, PTL

\* ... nor behind them: the receipt that completes the order says so, because
\* two that overlap both write the row of the order and one is refused.
THEOREM CompletionNoticedHolds == OrdersSpec => CompletionNoticed
<1> DEFINE Noticed ==
      order # NoOrder /\ line' # line =>
          (order'.status = "RECEIVED") = (\A n \in Lines : line'[n].received >= line'[n].ordered)
<1>1. OrderInv /\ [OrdersNext]_all => [Noticed]_all
  <2> SUFFICES ASSUME OrderInv, OrdersNext, order # NoOrder, line' # line
               PROVE  (order'.status = "RECEIVED")
                      = (\A n \in Lines : line'[n].received >= line'[n].ordered)
    OBVIOUS
  <2>1. PICK c \in Clerks, e \in Epochs : CommitReceipt(c, e)
    BY DEF OrdersNext, CreateOrder, ReadOrder, UpdateOrder, ReadForReceipt, BeginReceipt, GiveUp,
           Inventory
  <2>2. QED
    BY <2>1, CommitFacts
<1>2. QED
  BY AlwaysOrderInv, <1>1, PTL DEF OrdersSpec, CompletionNoticed, all

-----------------------------------------------------------------------------
(* The units a body brings in *)

\* What each entry of a body brings in of the lines in S.
Brings(body, S) == [i \in DOMAIN body |-> IF body[i].line \in S THEN body[i].quantity ELSE 0]

\* A body has finitely many entries, each of some units of a line.
LEMMA BodyFacts ==
    ASSUME NEW body \in Bodies
    PROVE  /\ IsFiniteSet(DOMAIN body)
           /\ \A i \in DOMAIN body : body[i].line \in Lines /\ body[i].quantity \in Nat
  <1>1. PICK n \in 1..MaxEntries : body \in [1..n -> Entry]
    BY DEF Bodies
  <1>2. n \in Nat /\ DOMAIN body = 1..n
    BY <1>1, EntriesAssumption
  <1>3. IsFiniteSet(1..n)
    BY <1>2, FS_Interval
  <1>4. \A i \in DOMAIN body : body[i].line \in Lines /\ body[i].quantity \in Quantities
    BY <1>1, <1>2 DEF Entry
  <1>5. QED
    BY <1>2, <1>3, <1>4, QuantityLemma

\* The units of a body are natural numbers.
LEMMA UnitsType ==
    ASSUME NEW body \in Bodies, NEW S
    PROVE  /\ Brings(body, S) \in [DOMAIN body -> Nat]
           /\ UnitsFor(body, S) = SumFunction(Brings(body, S))
           /\ UnitsFor(body, S) \in Nat
  <1>1. Brings(body, S) \in [DOMAIN body -> Nat]
    BY BodyFacts DEF Brings
  <1>2. UnitsFor(body, S) = SumFunction(Brings(body, S))
    BY DEF UnitsFor, Brings
  <1>3. QED
    BY <1>1, <1>2, BodyFacts, SumOfNaturals

\* A body that brings in units of some lines names one of them.
LEMMA UnitsNamed ==
    ASSUME NEW body \in Bodies, NEW S, UnitsFor(body, S) # 0
    PROVE  \E i \in DOMAIN body : body[i].line \in S
  <1> SUFFICES ASSUME \A i \in DOMAIN body : body[i].line \notin S
               PROVE  UnitsFor(body, S) = 0
    OBVIOUS
  <1>1. DOMAIN Brings(body, S) = DOMAIN body /\ \A i \in DOMAIN body : Brings(body, S)[i] = 0
    BY DEF Brings
  <1>2. QED
    BY <1>1, BodyFacts, UnitsType, SumOfZeros

\* A line that is named once gets what its entry says.
LEMMA UnitsOnce ==
    ASSUME NEW body \in Bodies, NEW i \in DOMAIN body,
           \A j \in DOMAIN body : j # i => body[j].line # body[i].line
    PROVE  UnitsFor(body, {body[i].line}) = body[i].quantity
  <1> DEFINE f == Brings(body, {body[i].line})
  <1>1. f \in [DOMAIN body -> Int] /\ UnitsFor(body, {body[i].line}) = SumFunction(f)
    BY UnitsType
  <1>2. f[i] = body[i].quantity /\ \A j \in DOMAIN body \ {i} : f[j] = 0
    BY DEF Brings
  <1> HIDE DEF f
  <1>3. SumFunction(f) = f[i]
    BY <1>1, <1>2, BodyFacts, SumOfOne
  <1>4. QED
    BY <1>1, <1>2, <1>3

\* The units of some lines are the units of each of them, summed.
LEMMA UnitsByLine ==
    ASSUME NEW body \in Bodies, NEW S, IsFiniteSet(S)
    PROVE  UnitsFor(body, S) = SumFunction([n \in S |-> UnitsFor(body, {n})])
  <1> DEFINE D == DOMAIN body
             q == [i \in D |-> body[i].quantity]
             key == [i \in D |-> body[i].line]
  <1>1. IsFiniteSet(D) /\ q \in [D -> Int]
    BY BodyFacts
  <1>2. SumFunction(KeyedIn(D, q, key, S)) = SumFunction([n \in S |-> SumFunction(Keyed(D, q, key, n))])
    <2> HIDE DEF D, q, key
    <2>1. QED
      BY <1>1, SumByKey
  <1>3. KeyedIn(D, q, key, S) = Brings(body, S)
    BY DEF KeyedIn, Brings
  <1>4. \A n \in S : Keyed(D, q, key, n) = Brings(body, {n})
    BY DEF Keyed, Brings
  <1> HIDE DEF D, q, key
  <1>5. [n \in S |-> SumFunction(Keyed(D, q, key, n))] = [n \in S |-> UnitsFor(body, {n})]
    BY <1>4, UnitsType
  <1>6. QED
    BY <1>2, <1>3, <1>5, UnitsType

-----------------------------------------------------------------------------
(* The lines and bodies there are, and what an open receipt has checked *)

LineRow == [product : Products, location : Locations, ordered : Quantities, received : Nat]

OrderTypes ==
    /\ order # NoOrder => line \in [Lines -> LineRow]
    /\ \A c \in Clerks : form[c].op = "receive" => form[c].body \in Bodies

\* A receipt that is not refused still fits where its snapshot had room: who
\* writes a location makes it outdated.
ChecksCurrent ==
    \A c \in Clerks : OpenReceipt(c) =>
        /\ Remains(form[c])
        /\ ~outdated[c] => Fits(form[c].body)

\* The units of a product are those of its lines at each location.
LEMMA UnitsByPlace ==
    ASSUME OrderTypes, order # NoOrder, NEW body \in Bodies, NEW p
    PROVE  UnitsFor(body, LinesOf(p)) = SumFunction([l \in Locations |-> UnitsFor(body, LinesInto(p, l))])
  <1> DEFINE D == DOMAIN body
             q == Brings(body, LinesOf(p))
             key == [i \in D |-> line[body[i].line].location]
  <1>1. IsFiniteSet(D) /\ q \in [D -> Int]
    BY BodyFacts, UnitsType
  <1>2. SumFunction(KeyedIn(D, q, key, Locations))
          = SumFunction([l \in Locations |-> SumFunction(Keyed(D, q, key, l))])
    <2> HIDE DEF D, q, key
    <2>1. QED
      BY <1>1, FiniteTables, SumByKey
  <1>3. \A i \in D : key[i] \in Locations
    BY BodyFacts DEF OrderTypes, LineRow
  <1>4. KeyedIn(D, q, key, Locations) = q
    BY <1>1, <1>3 DEF KeyedIn
  <1>5. \A l \in Locations : Keyed(D, q, key, l) = Brings(body, LinesInto(p, l))
    BY DEF Keyed, Brings, LinesOf, LinesInto
  <1> HIDE DEF D, q, key
  <1>6. [l \in Locations |-> SumFunction(Keyed(D, q, key, l))]
          = [l \in Locations |-> UnitsFor(body, LinesInto(p, l))]
    BY <1>5, UnitsType
  <1>7. QED
    BY <1>2, <1>4, <1>6, UnitsType DEF q

-----------------------------------------------------------------------------
(* Steps of the receipts *)

ReceiptInv == OrderTypes /\ ChecksCurrent

\* There is nothing to receive at first.
LEMMA InitReceipts == OrdersInit => ReceiptInv
  BY DEF OrdersInit, ReceiptInv, OrderTypes, ChecksCurrent, OpenReceipt, NoOrder, NoForm

\* A request on the order that is opened or ended without a write to the lines.
LEMMA FormReceipts ==
    ASSUME OrderInv, ReceiptInv, NEW c \in Clerks, NEW f, File(c, f),
           UNCHANGED <<line, volume, capacity>>,
           order' = order \/ order # NoOrder,
           f.op = "receive" => f.body \in Bodies,
           ~OpenReceipt(c)',
           \A d \in Clerks \ {c} : outdated[d] => outdated'[d]
    PROVE  ReceiptInv'
  <1>1. /\ form'[c] = f
        /\ \A d \in Clerks \ {c} : form'[d] = form[d]
    BY DEF OrderInv, Shape, File
  <1>2. OrderTypes'
    BY <1>1 DEF ReceiptInv, OrderTypes
  <1>3. ASSUME NEW d \in Clerks, OpenReceipt(d)'
        PROVE  /\ Remains(form'[d])
               /\ ~outdated'[d] => Fits(form[d].body) /\ form'[d] = form[d]
    BY <1>1, <1>3 DEF ReceiptInv, ChecksCurrent, OpenReceipt
  <1>4. ChecksCurrent'
    BY <1>3 DEF ChecksCurrent, Fits, LinesAt, Remains
  <1>5. QED
    BY <1>2, <1>4 DEF ReceiptInv

\* createPurchaseOrder: no request on the order is open yet.
LEMMA CreateReceipts ==
    ASSUME OrderInv,
           NEW rows \in [Lines -> [product : Products, location : Locations,
                                   ordered : Quantities, received : {0}]],
           CreateOrder(rows)
    PROVE  ReceiptInv'
  <1>1. \A c \in Clerks : form'[c].op = "none"
    BY DEF CreateOrder, OrderInv, Shape, NoForm
  <1>2. line' \in [Lines -> LineRow]
    BY DEF CreateOrder, LineRow
  <1>3. QED
    BY <1>1, <1>2 DEF ReceiptInv, OrderTypes, ChecksCurrent, OpenReceipt

\* The snapshot is taken after the checks on what remains and what fits.
LEMMA BeginReceipts ==
    ASSUME OrderInv, ReceiptInv, NEW c \in Clerks, BeginReceipt(c)
    PROVE  ReceiptInv'
  <1>1. /\ UNCHANGED <<order, line, volume, capacity>>
        /\ form[c].op = "receive" /\ Remains(form[c]) /\ Fits(form[c].body)
        /\ form'[c].body = form[c].body /\ form'[c].read = form[c].read
        /\ \A d \in Clerks \ {c} : form'[d] = form[d] /\ outdated'[d] = outdated[d]
    BY DEF BeginReceipt, File, OrderInv, Shape, vars, stock, places
  <1>2. OrderTypes'
    BY <1>1 DEF ReceiptInv, OrderTypes
  <1>3. ASSUME NEW d \in Clerks, OpenReceipt(d)'
        PROVE  Remains(form'[d]) /\ (~outdated'[d] => Fits(form'[d].body))
    <2>1. CASE d = c
      <3>1. Remains(form'[c])
        BY <1>1 DEF Remains
      <3>2. QED
        BY <1>1, <2>1, <3>1
    <2>2. CASE d # c
      BY <1>1, <1>3, <2>2 DEF ReceiptInv, ChecksCurrent, OpenReceipt
    <2>3. QED
      BY <2>1, <2>2
  <1>4. ChecksCurrent'
    BY <1>1, <1>3 DEF ChecksCurrent, Fits, LinesAt, Remains
  <1>5. QED
    BY <1>2, <1>4 DEF ReceiptInv

\* The lines after a receipt, and the other receipts, which it makes outdated.
LEMMA CommitReceipts ==
    ASSUME OrderInv, ReceiptInv, NEW c \in Clerks, NEW e \in Epochs, CommitReceipt(c, e)
    PROVE  ReceiptInv'
  <1> DEFINE f == form[c]
  <1>1. /\ OpenReceipt(c) /\ f.body \in Bodies /\ order # NoOrder
        /\ line' = Counted(f)
    BY CommitFacts DEF CommitReceipt, ReceiptInv, OrderTypes, OpenReceipt
  <1>2. /\ \A d \in Clerks \ {c} : form'[d] = form[d]
        /\ form'[c].op = "none"
        /\ outdated' = [Outdate(ReceiptWrites(f.body)) EXCEPT ![c] = FALSE]
    BY DEF CommitReceipt, File, OrderInv, Shape, NoForm
  <1>3. ASSUME NEW n \in Lines
        PROVE  line'[n] \in LineRow
    <2>1. line[n] \in LineRow
      BY <1>1 DEF ReceiptInv, OrderTypes
    <2>2. UnitsFor(f.body, {n}) \in Nat
      BY <1>1, UnitsType
    <2>3. line'[n] = [line[n] EXCEPT !.received = @ + UnitsFor(f.body, {n})]
      BY <1>1 DEF Counted
    <2> HIDE DEF f
    <2>4. QED
      BY <2>1, <2>2, <2>3 DEF LineRow
  <1>4. line' \in [Lines -> LineRow]
    BY <1>1, <1>3 DEF Counted
  <1>5. OrderTypes'
    BY <1>2, <1>4 DEF ReceiptInv, OrderTypes
  <1>6. ASSUME NEW d \in Clerks, OpenReceipt(d)'
        PROVE  Remains(form[d]) /\ form'[d] = form[d] /\ outdated'[d]
    <2>1. d # c
      BY <1>2, <1>6 DEF OpenReceipt
    <2>2. OpenReceipt(d) /\ form'[d] = form[d]
      BY <1>2, <1>6, <2>1 DEF OpenReceipt
    <2>3. ReceiptWrites(form[d].body) \cap ReceiptWrites(f.body) # {}
      BY DEF ReceiptWrites
    <2> HIDE DEF f
    <2>4. outdated'[d] = Outdate(ReceiptWrites(f.body))[d]
      BY <1>2, <2>1 DEF Outdate
    <2>5. outdated'[d]
      BY <2>2, <2>3, <2>4 DEF Outdate
    <2>6. QED
      BY <2>2, <2>5 DEF ReceiptInv, ChecksCurrent
  <1>7. ChecksCurrent'
    BY <1>6 DEF ChecksCurrent, Remains
  <1>8. QED
    BY <1>5, <1>7 DEF ReceiptInv

\* A request on the stock that changes a location makes the receipts into it
\* outdated.
LEMMA InventoryReceipts == ASSUME ReceiptInv, Inventory PROVE ReceiptInv'
  <1> DEFINE moved == {m \in Locations :
            <<capacity[m], volume[m], home[m]>>' # <<capacity[m], volume[m], home[m]>>}
  <1>1. UNCHANGED <<order, line, form>>
    BY DEF Inventory
  <1> DEFINE kept == {InventoryRow(row[1], row[2]) : row \in {r \in Rows : inv'[r] # inv[r]}}
             rows == kept \cup {LocationRow(m) : m \in moved}
  <1>2. outdated' = Outdate(rows)
    BY DEF Inventory
  <1>3. \A m \in moved : LocationRow(m) \in rows
    OBVIOUS
  <1> HIDE DEF kept, rows
  <1>4. OrderTypes'
    BY <1>1 DEF ReceiptInv, OrderTypes
  <1>5. ASSUME NEW d \in Clerks, OpenReceipt(d), ~outdated'[d], NEW l \in Locations,
               UnitsFor(form[d].body, LinesAt(l)) > 0
        PROVE  volume'[l] + UnitsFor(form[d].body, LinesAt(l)) <= capacity'[l]
    <2>1. form[d].body \in Bodies
      BY <1>5 DEF ReceiptInv, OrderTypes, OpenReceipt
    <2>2. ~outdated[d] /\ ReceiptWrites(form[d].body) \cap rows = {}
      BY <1>2, <1>5 DEF Outdate
    <2>3. PICK i \in DOMAIN form[d].body : form[d].body[i].line \in LinesAt(l)
      BY <1>5, <2>1, UnitsNamed
    <2>4. LocationRow(l) \in ReceiptWrites(form[d].body)
      BY <2>3 DEF ReceiptWrites, LinesAt
    <2>5. l \notin moved
      BY <1>3, <2>2, <2>4
    <2>6. volume'[l] = volume[l] /\ capacity'[l] = capacity[l]
      BY <2>5
    <2>7. volume[l] + UnitsFor(form[d].body, LinesAt(l)) <= capacity[l]
      BY <1>5, <2>2 DEF ReceiptInv, ChecksCurrent, Fits
    <2>8. QED
      BY <2>6, <2>7
  <1>6. ASSUME NEW d \in Clerks, OpenReceipt(d)
        PROVE  Remains(form[d])
    BY <1>6 DEF ReceiptInv, ChecksCurrent
  <1>7. ChecksCurrent'
    BY <1>1, <1>5, <1>6 DEF ChecksCurrent, Fits, LinesAt, Remains, OpenReceipt
  <1>8. QED
    BY <1>4, <1>7 DEF ReceiptInv

\* Every step of an order keeps what its receipts have checked.
LEMMA NextReceipts == OrderInv /\ ReceiptInv /\ [OrdersNext]_all => ReceiptInv'
  <1> SUFFICES ASSUME OrderInv, ReceiptInv, [OrdersNext]_all PROVE ReceiptInv'
    OBVIOUS
  <1>1. /\ DOMAIN form = Clerks /\ outdated \in [Clerks -> BOOLEAN]
        /\ order = NoOrder => \A c \in Clerks : form[c] = NoForm
    BY DEF OrderInv, Shape
  <1>2. ASSUME NEW c \in Clerks, NEW op \in DOMAIN Allowed, ReadOrder(c, op) PROVE ReceiptInv'
    <2>1. File(c, [op |-> op]) /\ UNCHANGED <<order, line, volume, capacity, outdated>>
      BY <1>2 DEF ReadOrder, vars, stock, places
    <2>2. op # "receive"
      BY DEF Allowed
    <2>3. ~OpenReceipt(c)'
      BY <1>1, <2>1, <2>2 DEF OpenReceipt, File
    <2>4. QED
      BY <2>1, <2>2, <2>3, FormReceipts
  <1>3. ASSUME NEW c \in Clerks, UpdateOrder(c) PROVE ReceiptInv'
    <2>1. /\ File(c, NoForm) /\ UNCHANGED <<line, volume, capacity>>
          /\ form[c].op # "none"
          /\ outdated' = Outdate({OrderRow})
      BY <1>3 DEF UpdateOrder, Allowed, vars, stock, places
    <2>2. order # NoOrder
      BY <1>1, <2>1 DEF NoForm
    <2>3. NoForm.op # "receive" /\ ~OpenReceipt(c)'
      BY <1>1, <2>1 DEF OpenReceipt, File, NoForm
    <2>4. \A d \in Clerks : outdated[d] => outdated'[d]
      BY <1>1, <2>1, OutdateGrows
    <2>5. QED
      BY <2>1, <2>2, <2>3, <2>4, FormReceipts
  <1>4. ASSUME NEW c \in Clerks, NEW body \in Bodies, ReadForReceipt(c, body) PROVE ReceiptInv'
    <2> DEFINE f == [op |-> "receive", open |-> FALSE, body |-> body, read |-> line]
    <2>1. File(c, f) /\ UNCHANGED <<order, line, volume, capacity, outdated>>
      BY <1>4 DEF ReadForReceipt, vars, stock, places
    <2>2. f.body \in Bodies /\ ~OpenReceipt(c)'
      BY <1>1, <2>1 DEF OpenReceipt, File
    <2> HIDE DEF f
    <2>3. QED
      BY <2>1, <2>2, FormReceipts
  <1>5. ASSUME NEW c \in Clerks, GiveUp(c) PROVE ReceiptInv'
    <2>1. /\ File(c, NoForm) /\ UNCHANGED <<order, line, volume, capacity>>
          /\ outdated' = [outdated EXCEPT ![c] = FALSE]
      BY <1>5 DEF GiveUp, vars, stock, places
    <2>2. NoForm.op # "receive" /\ ~OpenReceipt(c)'
      BY <1>1, <2>1 DEF OpenReceipt, File, NoForm
    <2>3. \A d \in Clerks \ {c} : outdated[d] => outdated'[d]
      BY <1>1, <2>1
    <2>4. QED
      BY <2>1, <2>2, <2>3, FormReceipts
  <1>6. CASE UNCHANGED all
    <2>1. UNCHANGED <<order, line, form, outdated, volume, capacity>>
      BY <1>6 DEF all, orderVars, vars, stock, places
    <2>2. QED
      BY <2>1 DEF ReceiptInv, OrderTypes, ChecksCurrent, OpenReceipt, Remains, Fits, LinesAt
  <1>7. QED
    BY <1>2, <1>3, <1>4, <1>5, <1>6, CreateReceipts, BeginReceipts, CommitReceipts, InventoryReceipts
       DEF OrdersNext

LEMMA ReceiptsHold == OrdersSpec => []ReceiptInv
  <1>1. OrdersSpec => OrdersInit /\ [][OrdersNext]_all
    BY DEF OrdersSpec, all
  <1>2. QED
    BY <1>1, InitReceipts, NextReceipts, AlwaysOrderInv, PTL

-----------------------------------------------------------------------------
(* The stock, which receipts of an order write beside the other requests *)

\* The receipt of an order adds units to any number of rows and their lots.
LEMMA ReceiptStock ==
    ASSUME StockInv, OrderInv, ReceiptInv, NEW c \in Clerks, NEW e \in Epochs, CommitReceipt(c, e)
    PROVE  StockInv'
  <1> DEFINE units(row) == UnitsFor(form[c].body, LinesInto(row[1], row[2]))
  <1>1. form[c].body \in Bodies
    BY DEF CommitReceipt, OpenReceipt, ReceiptInv, OrderTypes
  <1>2. /\ inv' = [row \in Rows |-> [inv[row] EXCEPT !.onHand = @ + units(row)]]
        /\ lots' = [row \in Rows |-> AddLot(lots[row], e, units(row))]
    BY DEF CommitReceipt
  <1>3. \A row \in Rows : units(row) \in Nat
    BY <1>1, UnitsType
  <1>4. incoming' \in [Products -> Nat]
    <2>1. incoming' = [p \in Products |-> incoming[p] + UnitsFor(form[c].body, LinesOf(p))]
      BY DEF CommitReceipt
    <2>2. \A p \in Products : UnitsFor(form[c].body, LinesOf(p)) \in Nat
      BY <1>1, UnitsType
    <2>3. QED
      BY <2>1, <2>2 DEF StockInv
  <1>5. volume' \in [Locations -> Int]
    <2>1. volume' = [l \in Locations |-> volume[l] + UnitsFor(form[c].body, LinesAt(l))]
      BY DEF CommitReceipt
    <2>2. \A l \in Locations : UnitsFor(form[c].body, LinesAt(l)) \in Nat
      BY <1>1, UnitsType
    <2>3. QED
      BY <2>1, <2>2 DEF StockInv
  <1>6. sold' \in [Products -> Nat]
    BY DEF CommitReceipt, StockInv
  <1> HIDE DEF units
  <1>7. ASSUME NEW row \in Rows
        PROVE  /\ inv'[row] \in InventoryRecord /\ lots'[row] \in Profile
               /\ inv'[row].reserved <= inv'[row].onHand /\ LotsTotal(lots'[row]) = inv'[row].onHand
    <2>1. /\ inv[row] \in InventoryRecord /\ lots[row] \in Profile
          /\ inv[row].reserved <= inv[row].onHand /\ LotsTotal(lots[row]) = inv[row].onHand
      BY DEF StockInv, NoOversell, LotsMatchAggregate
    <2>2. units(row) \in Nat
      BY <1>3
    <2>3. /\ AddLot(lots[row], e, units(row)) \in Profile
          /\ LotsTotal(AddLot(lots[row], e, units(row))) = LotsTotal(lots[row]) + units(row)
      BY <2>1, <2>2, LotsLemma
    <2>4. inv'[row] = [inv[row] EXCEPT !.onHand = @ + units(row)]
      BY <1>2
    <2>5. lots'[row] = AddLot(lots[row], e, units(row))
      BY <1>2
    <2>6. inv'[row] \in InventoryRecord
      BY <2>1, <2>2, <2>4 DEF InventoryRecord
    <2>7. inv'[row].onHand = inv[row].onHand + units(row) /\ inv'[row].reserved = inv[row].reserved
      BY <2>1, <2>4 DEF InventoryRecord
    <2>8. inv[row].onHand \in Nat /\ inv[row].reserved \in Nat
      BY <2>1 DEF InventoryRecord
    <2>9. LotsTotal(lots'[row]) = inv'[row].onHand
      BY <2>1, <2>3, <2>5, <2>7
    <2>10. QED
      BY <2>1, <2>2, <2>3, <2>5, <2>6, <2>7, <2>8, <2>9
  <1>8. inv' \in [Rows -> InventoryRecord]
    BY <1>2, <1>7
  <1>9. lots' \in [Rows -> Profile]
    BY <1>2, <1>7
  <1>10. NoOversell' /\ LotsMatchAggregate'
    BY <1>7 DEF NoOversell, LotsMatchAggregate, LotsTotal
  <1>11. QED
    BY <1>4, <1>5, <1>6, <1>8, <1>9, <1>10 DEF StockInv

\* The invariant of the stock holds under the steps of an order too.
LEMMA OrdersKeepStock == IInv /\ OrderInv /\ ReceiptInv /\ [OrdersNext]_all => IInv'
  <1> SUFFICES ASSUME IInv, OrderInv, ReceiptInv, [OrdersNext]_all PROVE IInv'
    OBVIOUS
  <1>1. CASE [Next]_vars
    BY <1>1, NextInv
  <1>2. ASSUME NEW c \in Clerks, NEW e \in Epochs, CommitReceipt(c, e) PROVE IInv'
    <2>1. StockInv /\ RequestInv /\ PlacesInv
      BY Halves
    <2>2. StockInv'
      BY <1>2, <2>1, ReceiptStock
    <2>3. UNCHANGED <<capacity, home, warehouse, reservation, call, seen>>
      BY <1>2 DEF CommitReceipt, places
    <2>4. stale' \in [Requests -> BOOLEAN]
      BY <1>2, <2>1 DEF CommitReceipt, RequestInv
    <2>5. RequestInv'
      BY <2>1, <2>3, <2>4 DEF RequestInv, ChecksHold, Admitted, Available
    <2>6. PlacesInv'
      BY <2>1, <2>3 DEF PlacesInv
    <2>7. QED
      BY <2>2, <2>5, <2>6, HalvesNext
  <1>3. QED
    BY <1>1, <1>2 DEF OrdersNext, CreateOrder, ReadOrder, UpdateOrder, ReadForReceipt, BeginReceipt,
                      GiveUp, Inventory, all

LEMMA AlwaysStock == OrdersSpec => []IInv
  <1>1. OrdersSpec => OrdersInit /\ [][OrdersNext]_all
    BY DEF OrdersSpec, all
  <1>2. OrdersInit => IInv
    BY InitInv DEF OrdersInit
  <1>3. QED
    BY <1>1, <1>2, OrdersKeepStock, AlwaysOrderInv, ReceiptsHold, PTL

-----------------------------------------------------------------------------
(* The theorems on the stock *)

\* The requests on the stock and the receipts of orders, in any order, promise
\* no more units of a product than are there.
THEOREM OrdersNeverOversell == OrdersSpec => []NoOversell
  <1>1. IInv => NoOversell
    BY DEF IInv
  <1>2. QED
    BY <1>1, AlwaysStock, PTL

\* The receipt of an order, which makes one lot for each entry of its body,
\* leaves the aggregate rows and the lots under them equal.
THEOREM OrdersKeepLots == OrdersSpec => []LotsMatchAggregate
  <1>1. IInv => LotsMatchAggregate
    BY DEF IInv
  <1>2. QED
    BY <1>1, AlwaysStock, PTL

\* What a receipt brings in of a product is what it adds to its rows.
LEMMA ReceiptBalances ==
    ASSUME StockInv, StockInv', OrderInv, ReceiptInv, Balanced(OnHand, incoming, sold),
           NEW c \in Clerks, NEW e \in Epochs, CommitReceipt(c, e)
    PROVE  Balanced(OnHand, incoming, sold)'
  <1> DEFINE units(p, l) == UnitsFor(form[c].body, LinesInto(p, l))
  <1>1. OrderTypes /\ order # NoOrder /\ form[c].body \in Bodies
    BY CommitFacts DEF CommitReceipt, OpenReceipt, ReceiptInv, OrderTypes
  <1>2. ASSUME NEW p \in Products
        PROVE  incoming'[p] = sold'[p] + OfProduct(OnHand', p)
    <2> DEFINE before == [l \in Locations |-> OnHand[<<p, l>>]]
               after == [l \in Locations |-> OnHand'[<<p, l>>]]
               more == [l \in Locations |-> units(p, l)]
    <2>1. /\ incoming'[p] = incoming[p] + UnitsFor(form[c].body, LinesOf(p))
          /\ sold'[p] = sold[p]
      BY DEF CommitReceipt
    <2>2. /\ OnHand \in [Rows -> Nat] /\ OnHand' \in [Rows -> Nat]
          /\ \A row \in Rows : OnHand[row] = inv[row].onHand /\ OnHand'[row] = inv'[row].onHand
      BY OnHandRows, OnHandRowsNext
    <2>3. \A l \in Locations : units(p, l) \in Nat
      BY <1>1, UnitsType
    <2>4. ASSUME NEW l \in Locations
          PROVE  after[l] = before[l] + more[l]
      <3>1. <<p, l>> \in Rows
        BY DEF Rows
      <3>2. inv'[<<p, l>>] = [inv[<<p, l>>] EXCEPT !.onHand = @ + units(p, l)]
        BY <3>1 DEF CommitReceipt
      <3>3. inv[<<p, l>>] \in InventoryRecord
        BY <3>1 DEF StockInv
      <3> HIDE DEF units
      <3>4. inv'[<<p, l>>].onHand = inv[<<p, l>>].onHand + units(p, l)
        BY <3>2, <3>3 DEF InventoryRecord
      <3>5. QED
        BY <2>2, <3>1, <3>4
    <2>5. before \in [Locations -> Int] /\ after \in [Locations -> Int] /\ more \in [Locations -> Int]
      <3> HIDE DEF units
      <3>1. QED
        BY <2>2, <2>3 DEF Rows
    <2>6. /\ OfProduct(OnHand, p) = SumFunction(before)
          /\ OfProduct(OnHand', p) = SumFunction(after)
      BY DEF OfProduct
    <2>7. UnitsFor(form[c].body, LinesOf(p)) = SumFunction(more)
      BY <1>1, UnitsByPlace
    <2> HIDE DEF before, after, more
    <2>8. SumFunction(after) = SumFunction(before) + SumFunction(more)
      BY <2>4, <2>5, FiniteTables, SumOfSums
    <2>9. SumFunction(before) \in Int /\ SumFunction(more) \in Int
      BY <2>5, FiniteTables, SumFunctionType
    <2>10. incoming[p] = sold[p] + OfProduct(OnHand, p) /\ sold[p] \in Int
      BY DEF Balanced, StockInv
    <2>11. QED
      BY <2>1, <2>6, <2>7, <2>8, <2>9, <2>10
  <1>3. QED
    BY <1>2 DEF Balanced

\* Receipts of orders and of receiveStock together account for every unit that
\* is on hand or was sold.
THEOREM OrdersReconciled == OrdersSpec => []UnitsReconcile
  <1>1. OrdersSpec => OrdersInit /\ [][OrdersNext]_all
    BY DEF OrdersSpec, all
  <1>2. OrdersInit => Balanced(OnHand, incoming, sold)
    BY InitBalanced DEF OrdersInit
  <1>3. IInv /\ IInv' /\ OrderInv /\ ReceiptInv /\ Balanced(OnHand, incoming, sold) /\ [OrdersNext]_all
            => Balanced(OnHand, incoming, sold)'
    <2> SUFFICES ASSUME IInv, IInv', OrderInv, ReceiptInv, Balanced(OnHand, incoming, sold), [OrdersNext]_all
                 PROVE  Balanced(OnHand, incoming, sold)'
      OBVIOUS
    <2>1. StockInv /\ StockInv'
      BY DEF IInv, StockInv, TypeOK
    <2>2. CASE [Next]_vars
      BY <2>1, <2>2, StepEntry, StepBalances
    <2>3. CASE \E c \in Clerks, e \in Epochs : CommitReceipt(c, e)
      BY <2>1, <2>3, ReceiptBalances
    <2>4. QED
      BY <2>2, <2>3 DEF OrdersNext, CreateOrder, ReadOrder, UpdateOrder, ReadForReceipt, BeginReceipt,
                        GiveUp, Inventory, all
  <1>4. IInv /\ Balanced(OnHand, incoming, sold) => UnitsReconcile
    BY Halves, ReconcileIsBalanced
  <1>5. QED
    BY <1>1, <1>2, <1>3, <1>4, AlwaysOrderInv, ReceiptsHold, AlwaysStock, PTL

-----------------------------------------------------------------------------
(* The theorems on the lines *)

\* Only the commit of a receipt changes lines that are there.
LEMMA WhoWritesLines ==
    ASSUME OrderInv, OrdersNext, line' # line
    PROVE  \/ \E c \in Clerks, e \in Epochs : CommitReceipt(c, e)
           \/ order = NoOrder /\ UNCHANGED <<vars, form>>
  BY DEF OrdersNext, CreateOrder, ReadOrder, UpdateOrder, ReadForReceipt, BeginReceipt, GiveUp, Inventory

\* What the commit of a receipt adds to a line.
LEMMA LineGrows ==
    ASSUME OrderInv, ReceiptInv, NEW c \in Clerks, NEW e \in Epochs, CommitReceipt(c, e), NEW n \in Lines
    PROVE  /\ line[n].received \in Nat /\ line[n].ordered \in Nat
           /\ UnitsFor(form[c].body, {n}) \in Nat
           /\ line'[n].received = line[n].received + UnitsFor(form[c].body, {n})
  <1> DEFINE units == UnitsFor(form[c].body, {n})
  <1>1. order # NoOrder /\ form[c].body \in Bodies /\ line[n] \in LineRow
    BY CommitFacts DEF CommitReceipt, OpenReceipt, ReceiptInv, OrderTypes
  <1>2. units \in Nat
    BY <1>1, UnitsType
  <1>3. line'[n] = [line[n] EXCEPT !.received = @ + units]
    BY DEF CommitReceipt, Counted
  <1> HIDE DEF units
  <1>4. line[n].received \in Nat /\ line[n].ordered \in Quantities
    BY <1>1 DEF LineRow
  <1>5. line'[n].received = line[n].received + units
    BY <1>1, <1>3 DEF LineRow
  <1>6. QED
    BY <1>2, <1>4, <1>5, QuantityLemma DEF units

\* What the lines of a product gain is what came into stock of it, whichever
\* receipts ran at the same time.
THEOREM LinesAlwaysFollow == OrdersSpec => LinesFollowStock
  <1> DEFINE Follow ==
        order # NoOrder /\ line' # line =>
            \A p \in Products :
                incoming'[p] - incoming[p]
                = SumFunction([n \in LinesOf(p) |-> line'[n].received - line[n].received])
  <1>1. IInv /\ OrderInv /\ ReceiptInv /\ [OrdersNext]_all => [Follow]_all
    <2> SUFFICES ASSUME IInv, OrderInv, ReceiptInv, OrdersNext, order # NoOrder, line' # line,
                        NEW p \in Products
                 PROVE  incoming'[p] - incoming[p]
                        = SumFunction([n \in LinesOf(p) |-> line'[n].received - line[n].received])
      OBVIOUS
    <2>1. PICK c \in Clerks, e \in Epochs : CommitReceipt(c, e)
      BY WhoWritesLines
    <2>2. form[c].body \in Bodies
      BY <2>1 DEF CommitReceipt, OpenReceipt, ReceiptInv, OrderTypes
    <2>3. IsFiniteSet(LinesOf(p))
      BY LinesAssumption, FS_Subset DEF LinesOf
    <2>4. UnitsFor(form[c].body, LinesOf(p))
            = SumFunction([n \in LinesOf(p) |-> UnitsFor(form[c].body, {n})])
      BY <2>2, <2>3, UnitsByLine
    <2>5. ASSUME NEW n \in LinesOf(p)
          PROVE  line'[n].received - line[n].received = UnitsFor(form[c].body, {n})
      <3>1. n \in Lines
        BY DEF LinesOf
      <3>2. /\ line[n].received \in Nat /\ UnitsFor(form[c].body, {n}) \in Nat
            /\ line'[n].received = line[n].received + UnitsFor(form[c].body, {n})
        BY <2>1, <3>1, LineGrows
      <3>3. QED
        BY <3>2
    <2>6. [n \in LinesOf(p) |-> line'[n].received - line[n].received]
            = [n \in LinesOf(p) |-> UnitsFor(form[c].body, {n})]
      BY <2>5
    <2>7. incoming'[p] = incoming[p] + UnitsFor(form[c].body, LinesOf(p))
      BY <2>1 DEF CommitReceipt
    <2>8. incoming[p] \in Nat /\ UnitsFor(form[c].body, LinesOf(p)) \in Nat
      BY <2>2, UnitsType DEF IInv, TypeOK
    <2>9. incoming'[p] - incoming[p] = UnitsFor(form[c].body, LinesOf(p))
      BY <2>7, <2>8
    <2>10. QED
      BY <2>4, <2>6, <2>9
  <1>2. QED
    BY <1>1, AlwaysOrderInv, ReceiptsHold, AlwaysStock, PTL DEF OrdersSpec, LinesFollowStock, all

\* The receipt of an order keeps to the capacity its locations have when it
\* commits, although it made that check before: a receipt that has missed an
\* update of one of them is refused.
THEOREM OrderReceiptsFit == OrdersSpec => OrderReceiptFits
  <1> DEFINE FitStep ==
        line' # line => \A l \in Locations : volume'[l] > volume[l] => volume'[l] <= capacity[l]
  <1>1. IInv /\ OrderInv /\ ReceiptInv /\ [OrdersNext]_all => [FitStep]_all
    <2> SUFFICES ASSUME IInv, OrderInv, ReceiptInv, OrdersNext, line' # line,
                        NEW l \in Locations, volume'[l] > volume[l]
                 PROVE  volume'[l] <= capacity[l]
      OBVIOUS
    <2>1. volume[l] \in Int
      BY DEF IInv, TypeOK
    <2>2. PICK c \in Clerks, e \in Epochs : CommitReceipt(c, e)
      BY <2>1, WhoWritesLines DEF vars, stock
    <2>3. OpenReceipt(c) /\ ~outdated[c]
      BY <2>2 DEF CommitReceipt
    <2>4. form[c].body \in Bodies /\ Fits(form[c].body)
      BY <2>3 DEF ReceiptInv, OrderTypes, ChecksCurrent, OpenReceipt
    <2>5. volume'[l] = volume[l] + UnitsFor(form[c].body, LinesAt(l))
      BY <2>2 DEF CommitReceipt
    <2>6. UnitsFor(form[c].body, LinesAt(l)) \in Nat
      BY <2>4, UnitsType
    <2>7. UnitsFor(form[c].body, LinesAt(l)) > 0
      BY <2>1, <2>5, <2>6
    <2>8. QED
      BY <2>4, <2>5, <2>7 DEF Fits
  <1>2. QED
    BY <1>1, AlwaysOrderInv, ReceiptsHold, AlwaysStock, PTL DEF OrdersSpec, OrderReceiptFits, all

\* More than was ordered of a line comes in only if another receipt of the line
\* committed after this one had read the order, or the body names it twice.
THEOREM OverReceiptsOverlap == OrdersSpec => OverReceiptNeedsOverlap
  <1> DEFINE Overlap ==
        \A c \in Clerks, n \in Lines :
            /\ Committing(c)
            /\ line'[n].received > line[n].received
            /\ line'[n].received > line[n].ordered
            => \/ form[c].read[n] # line[n]
               \/ \E i, j \in DOMAIN form[c].body :
                     i # j /\ form[c].body[i].line = n /\ form[c].body[j].line = n
  <1>1. OrderInv /\ ReceiptInv /\ [OrdersNext]_all => [Overlap]_all
    <2> SUFFICES ASSUME OrderInv, ReceiptInv, OrdersNext, NEW c \in Clerks, NEW n \in Lines,
                        Committing(c),
                        line'[n].received > line[n].received,
                        form[c].read[n] = line[n],
                        \A i, j \in DOMAIN form[c].body :
                            i # j => form[c].body[i].line # n \/ form[c].body[j].line # n,
                        line'[n].received > line[n].ordered
                 PROVE  FALSE
      OBVIOUS
    <2>1. OpenReceipt(c) /\ form'[c] = NoForm /\ form[c] # NoForm
      BY DEF Committing, OpenReceipt, NoForm
    <2>2. CASE line' = line
      <3>1. order # NoOrder
        BY <2>1 DEF OrderInv, Shape
      <3>2. line[n].received \in Nat
        BY <3>1 DEF ReceiptInv, OrderTypes, LineRow
      <3>3. QED
        BY <2>2, <3>2
    <2>3. CASE line' # line
      <3>1. PICK d \in Clerks, e \in Epochs : CommitReceipt(d, e)
        BY <2>1, <2>3, WhoWritesLines
      <3>2. d = c
        BY <2>1, <3>1 DEF CommitReceipt, File, OrderInv, Shape
      <3>3. /\ line[n].received \in Nat /\ line[n].ordered \in Nat
            /\ UnitsFor(form[c].body, {n}) \in Nat
            /\ line'[n].received = line[n].received + UnitsFor(form[c].body, {n})
        BY <3>1, <3>2, LineGrows
      <3>4. form[c].body \in Bodies /\ Remains(form[c])
        BY <2>1 DEF ReceiptInv, OrderTypes, ChecksCurrent, OpenReceipt
      <3>5. PICK i \in DOMAIN form[c].body : form[c].body[i].line = n
        <4>1. UnitsFor(form[c].body, {n}) # 0
          BY <3>3
        <4>2. QED
          BY <3>4, <4>1, UnitsNamed
      <3>6. UnitsFor(form[c].body, {n}) = form[c].body[i].quantity
        BY <3>4, <3>5, UnitsOnce
      <3>7. form[c].body[i].quantity <= line[n].ordered - line[n].received
        BY <3>4, <3>5 DEF Remains
      <3>8. QED
        BY <3>3, <3>6, <3>7
    <2>4. QED
      BY <2>2, <2>3
  <1>2. QED
    BY <1>1, AlwaysOrderInv, ReceiptsHold, PTL DEF OrdersSpec, OverReceiptNeedsOverlap, all
=============================================================================
