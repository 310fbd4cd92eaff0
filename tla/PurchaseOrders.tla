---------------------------- MODULE PurchaseOrders ----------------------------
(***************************************************************************)
(* One purchase order of src/services/purchaseOrderService.js beside the   *)
(* requests of InventoryService, with which its receipts share the stock.  *)
(*                                                                         *)
(* A request on the order reads it outside of any transaction, decides,    *)
(* and acts on what it read: a change of status by an unconditional        *)
(* update, a receipt by a Serializable transaction that it opens later.    *)
(***************************************************************************)
EXTENDS InventoryService

CONSTANTS
    Clerks,       \* requests on the order in flight at the same time
    Lines,        \* ids of PurchaseOrderLine rows
    MaxEntries    \* bound of the model: entries of the body of a receipt

ASSUME LinesAssumption == IsFiniteSet(Lines)
ASSUME EntriesAssumption == MaxEntries \in Nat \ {0}

VARIABLES
    order,        \* the PurchaseOrder row
    line,         \* its PurchaseOrderLine rows
    form,         \* the request a clerk's slot is serving, and what it has read
    outdated      \* a row the receipt will write was written since its snapshot

orderVars == <<order, line, form, outdated>>

OrderStatus == {"DRAFT", "SUBMITTED", "APPROVED", "RECEIVED", "CANCELLED"}

NoOrder == [status |-> "NONE", approved |-> FALSE]
NoLine == [product |-> None]
NoForm == [op |-> "none"]

\* What a request may make of the order, and from which statuses; "EDIT"
\* stands for updateDraftPurchaseOrder, which leaves the status alone.
Allowed ==
    [EDIT |-> {"DRAFT"}, SUBMITTED |-> {"DRAFT"}, APPROVED |-> {"SUBMITTED"},
     CANCELLED |-> {"DRAFT", "SUBMITTED", "APPROVED"}]

\* Bodies of a receipt: a line may be named more than once.
Entry == [line : Lines, quantity : Quantities]
Bodies == UNION {[1..n -> Entry] : n \in 1..MaxEntries}

\* The units a body brings in of the lines in S.
UnitsFor(body, S) ==
    SumFunction([i \in DOMAIN body |-> IF body[i].line \in S THEN body[i].quantity ELSE 0])

LinesInto(p, l) == {n \in Lines : line[n] # NoLine /\ line[n].product = p /\ line[n].location = l}
LinesAt(l) == {n \in Lines : line[n] # NoLine /\ line[n].location = l}
LinesOf(p) == {n \in Lines : line[n] # NoLine /\ line[n].product = p}

OrderRow == <<"PurchaseOrder">>

\* The rows a receipt updates; who updates a line updates the order too.
ReceiptWrites(body) ==
    {OrderRow}
    \cup {InventoryRow(line[body[i].line].product, line[body[i].line].location) : i \in DOMAIN body}
    \cup {LocationRow(line[body[i].line].location) : i \in DOMAIN body}

OpenReceipt(c) == form[c].op = "receive" /\ form[c].open

\* Variant: READ COMMITTED, no receipt is refused for what it has missed.
OutdateNone(rows) == outdated

\* First updater wins, as for the Serializable requests of InventoryService.
Outdate(rows) ==
    [c \in Clerks |-> outdated[c] \/ (OpenReceipt(c) /\ ReceiptWrites(form[c].body) \cap rows # {})]

File(c, f) == form' = [form EXCEPT ![c] = f]

OrdersInit ==
    /\ Init
    /\ order = NoOrder
    /\ line = [n \in Lines |-> NoLine]
    /\ form = [c \in Clerks |-> NoForm]
    /\ outdated = [c \in Clerks |-> FALSE]

-----------------------------------------------------------------------------
(* createPurchaseOrder, and the changes of status *)

CreateOrder(rows) ==
    /\ order = NoOrder
    /\ \A n \in Lines : Visible(rows[n].location)
    /\ order' = [status |-> "DRAFT", approved |-> FALSE]
    /\ line' = rows
    /\ UNCHANGED <<vars, form, outdated>>

ReadOrder(c, op) ==
    /\ form[c] = NoForm
    /\ order.status \in Allowed[op]
    /\ File(c, [op |-> op])
    /\ UNCHANGED <<vars, order, line, outdated>>

\* The update names the order by its id alone.
UpdateOrder(c) ==
    LET op == form[c].op
    IN  /\ op \in DOMAIN Allowed
        /\ order' = IF op = "EDIT" THEN order
                    ELSE [status |-> op, approved |-> order.approved \/ op = "APPROVED"]
        /\ File(c, NoForm)
        /\ outdated' = Outdate({OrderRow})
        /\ UNCHANGED <<vars, line>>

-----------------------------------------------------------------------------
(* receivePurchaseOrder *)

\* Variant: a submitted order may be received too.
ReadForReceiptEarly(c, body) ==
    /\ form[c] = NoForm
    /\ order.status \in {"SUBMITTED", "APPROVED", "RECEIVED"}
    /\ File(c, [op |-> "receive", open |-> FALSE, body |-> body, read |-> line])
    /\ UNCHANGED <<vars, order, line, outdated>>

\* getPurchaseOrder, before the locks and the transaction.
ReadForReceipt(c, body) ==
    /\ form[c] = NoForm
    /\ order.status \in {"APPROVED", "RECEIVED"}
    /\ File(c, [op |-> "receive", open |-> FALSE, body |-> body, read |-> line])
    /\ UNCHANGED <<vars, order, line, outdated>>

\* Variant: entries are compared with what was ordered.
RemainsOrdered(f) ==
    \A i \in DOMAIN f.body : f.body[i].quantity <= f.read[f.body[i].line].ordered

\* Each entry is compared with what remained of its line in the copy read
\* before the transaction.
Remains(f) ==
    \A i \in DOMAIN f.body :
        LET n == f.read[f.body[i].line] IN f.body[i].quantity <= n.ordered - n.received

\* Variant: entries are compared with the capacity one by one.
FitsOneByOne(body) ==
    \A i \in DOMAIN body :
        LET l == line[body[i].line].location IN volume[l] + body[i].quantity <= capacity[l]

\* A location is read again for each entry, with what the entries before it
\* have added.
Fits(body) ==
    \A l \in Locations :
        LET units == UnitsFor(body, LinesAt(l)) IN units > 0 => volume[l] + units <= capacity[l]

\* The transaction takes its snapshot.
BeginReceipt(c) ==
    LET f == form[c]
    IN  /\ f.op = "receive"
        /\ ~f.open
        /\ Remains(f)
        /\ Fits(f.body)
        /\ File(c, [op |-> "receive", open |-> TRUE, body |-> f.body, read |-> f.read, snapshot |-> line])
        /\ outdated' = [outdated EXCEPT ![c] = FALSE]
        /\ UNCHANGED <<vars, order, line>>

\* Variant: the sum is made from the copy, not by the database.
CountedFromCopy(f) ==
    [n \in Lines |-> IF UnitsFor(f.body, {n}) = 0 THEN line[n]
                     ELSE [line[n] EXCEPT !.received = f.read[n].received + UnitsFor(f.body, {n})]]

Counted(f) ==
    [n \in Lines |-> [line[n] EXCEPT !.received = @ + UnitsFor(f.body, {n})]]

\* Variant: only the lines of the body are looked at.
CompleteByBody(f) ==
    \A n \in Lines : UnitsFor(f.body, {n}) > 0 =>
        f.snapshot[n].received + UnitsFor(f.body, {n}) >= f.snapshot[n].ordered

\* freshLines: the lines of the snapshot with the transaction's increments.
Complete(f) ==
    \A n \in Lines : f.snapshot[n].received + UnitsFor(f.body, {n}) >= f.snapshot[n].ordered

CommitReceipt(c, e) ==
    LET f == form[c]
        units(row) == UnitsFor(f.body, LinesInto(row[1], row[2]))
    IN  /\ OpenReceipt(c)
        /\ ~outdated[c]
        /\ \A p \in Products : incoming[p] + UnitsFor(f.body, LinesOf(p)) <= MaxIncoming
        /\ inv' = [row \in Rows |-> [inv[row] EXCEPT !.onHand = @ + units(row)]]
        /\ lots' = [row \in Rows |-> AddLot(lots[row], e, units(row))]
        /\ incoming' = [p \in Products |-> incoming[p] + UnitsFor(f.body, LinesOf(p))]
        /\ volume' = [l \in Locations |-> volume[l] + UnitsFor(f.body, LinesAt(l))]
        /\ line' = Counted(f)
        /\ order' = [order EXCEPT !.status = IF Complete(f) THEN "RECEIVED" ELSE "APPROVED"]
        /\ stale' = [d \in Requests |-> stale[d] \/ d \in Invalidated(ReceiptWrites(f.body))]
        /\ File(c, NoForm)
        /\ outdated' = [Outdate(ReceiptWrites(f.body)) EXCEPT ![c] = FALSE]
        /\ UNCHANGED <<places, reservation, sold, call, seen>>

\* Any error, a serialization failure, the timeout, a crash.
GiveUp(c) ==
    /\ form[c] # NoForm
    /\ File(c, NoForm)
    /\ outdated' = [outdated EXCEPT ![c] = FALSE]
    /\ UNCHANGED <<vars, order, line>>

-----------------------------------------------------------------------------

\* A request of InventoryService; what it writes outdates open receipts.
Inventory ==
    /\ Next
    /\ LET rows == {InventoryRow(row[1], row[2]) : row \in {r \in Rows : inv'[r] # inv[r]}}
                   \cup {LocationRow(l) : l \in {m \in Locations :
                            <<capacity[m], volume[m], home[m]>>' # <<capacity[m], volume[m], home[m]>>}}
       IN  outdated' = Outdate(rows)
    /\ UNCHANGED <<order, line, form>>

OrdersNext ==
    \/ \E rows \in [Lines -> [product : Products, location : Locations, ordered : Quantities, received : {0}]] :
           CreateOrder(rows)
    \/ \E c \in Clerks :
           \/ \E op \in DOMAIN Allowed : ReadOrder(c, op)
           \/ UpdateOrder(c)
           \/ \E body \in Bodies : ReadForReceipt(c, body)
           \/ BeginReceipt(c)
           \/ \E e \in Epochs : CommitReceipt(c, e)
           \/ GiveUp(c)
    \/ Inventory

OrdersSpec == OrdersInit /\ [][OrdersNext]_<<vars, orderVars>>

-----------------------------------------------------------------------------
(* Correctness *)

\* Only an order that was approved brings stock in, whatever changes of
\* status overtake each other.
ApprovedBeforeReceived ==
    \A n \in Lines : line[n] # NoLine /\ line[n].received > 0 => order.approved

\* RECEIVED means all of it: every line has what was ordered.
ReceivedMeansComplete ==
    order.status = "RECEIVED" => \A n \in Lines : line[n].received >= line[n].ordered

\* A receipt that makes the order complete says so: of two that complete it
\* together, neither overlooks what the other brought.
CompletionNoticed ==
    [][order # NoOrder /\ line' # line =>
          (order'.status = "RECEIVED") = (\A n \in Lines : line'[n].received >= line'[n].ordered)]_<<vars, orderVars>>

\* What the lines say was received is what came into stock for them: no
\* receipt hides the units of another that ran at the same time.
LinesFollowStock ==
    [][order # NoOrder /\ line' # line =>
          \A p \in Products :
              incoming'[p] - incoming[p]
              = SumFunction([n \in LinesOf(p) |-> line'[n].received - line[n].received])]_<<vars, orderVars>>

\* A receipt of an order, unlike receiveStock, keeps to the capacity the
\* location has at the commit.
OrderReceiptFits ==
    [][line' # line => \A l \in Locations : volume'[l] > volume[l] => volume'[l] <= capacity[l]]_<<vars, orderVars>>

Committing(c) == OpenReceipt(c) /\ form'[c] = NoForm

\* More than was ordered of a line comes in for two reasons only: another
\* receipt of the line committed after this one had read the order, or the
\* body names the line twice.  Receipts one after the other, each started when
\* the one before has ended, never exceed an order.
OverReceiptNeedsOverlap ==
    [][\A c \in Clerks, n \in Lines :
          /\ Committing(c)
          /\ line'[n].received > line[n].received
          /\ line'[n].received > line[n].ordered
          => \/ form[c].read[n] # line[n]
             \/ \E i, j \in DOMAIN form[c].body :
                   i # j /\ form[c].body[i].line = n /\ form[c].body[j].line = n]_<<vars, orderVars>>
=============================================================================
