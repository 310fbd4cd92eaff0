-------------------------------- MODULE Catalog --------------------------------
(***************************************************************************)
(* The tables behind the lists of the API, and the handlers that read and  *)
(* change them: products, suppliers, warehouses and locations in full;     *)
(* companies, users, stock and orders as far as lists show them (their     *)
(* protocols are AuthService, InventoryService and PurchaseOrders).        *)
(*                                                                         *)
(* A table is a function from the ids in use to rows, and a database is a  *)
(* record of tables.  Of names, prices, quantities and the like a row      *)
(* keeps n, how often they were changed.                                   *)
(*                                                                         *)
(* A handler reads and refuses (Checked), then writes (Written), each in a *)
(* statement of its own; in between other requests run, and what the       *)
(* database enforces (Enforced) is all that holds at the write.            *)
(***************************************************************************)
EXTENDS Naturals, FiniteSets, SequencesExt

CONSTANTS
    Ids,    \* the ids there are; a new row may get any that is free
    Times,  \* when a movement may be made
    None

ASSUME IdsAssumption == Ids \subseteq Nat \ {0} /\ IsFiniteSet(Ids) /\ None \notin Ids
ASSUME TimesAssumption == Times \subseteq Nat

Changed(table, id) == [table EXCEPT ![id].n = @ + 1]
Created(table, id, row) == [i \in DOMAIN table \union {id} |-> IF i \in DOMAIN table THEN table[i] ELSE row]
Deleted(table, id) == Restrict(table, DOMAIN table \ {id})

\* The columns of each table, and what holds of the tables at any time: a row refers
\* to rows that are there (a foreign key), and where goods came from or went to there
\* is a row of stock, unless the place was deleted since.
Columns ==
    [tenant |-> {"active"}, user |-> {"tenant"},
     product |-> {"tenant", "discontinued", "n", "sold", "decayed"},
     supplier |-> {"tenant", "active", "n"},
     warehouse |-> {"tenant", "hidden", "active", "n"},
     location |-> {"warehouse", "n"},
     inventory |-> {"product", "location", "n"},
     movement |-> {"product", "from", "to", "at"},
     order |-> {"tenant", "supplier", "product", "location", "n"},
     audit |-> {"product"}]

Shaped(db) ==
    /\ DOMAIN db = DOMAIN Columns
    /\ \A t \in DOMAIN db : \A i \in DOMAIN db[t] :
           i \in Ids /\ db[t][i] = [c \in Columns[t] |-> db[t][i][c]]
    /\ \A i \in DOMAIN db.movement : db.movement[i].at \in Times

StockedPlaces(db) == {db.inventory[i].location : i \in DOMAIN db.inventory}

References(db) ==
    /\ \A i \in DOMAIN db.location : db.location[i].warehouse \in DOMAIN db.warehouse
    /\ \A i \in DOMAIN db.order : db.order[i].supplier \in DOMAIN db.supplier
    /\ \A i \in DOMAIN db.movement :
           {db.movement[i].from, db.movement[i].to} \subseteq StockedPlaces(db) \union {None}

-----------------------------------------------------------------------------
(* Scope                                                                    *)

\* tenantWhere: the companies whose rows u sees.
tenantWhere(u, db) ==
    IF u.role = "SYSTEM_ADMIN" /\ u.tenant = None THEN DOMAIN db.tenant ELSE {u.tenant}

\* tenantIdForWrite: not even a system admin creates without a company.
tenantIdForWrite(u) == u.tenant # None

Scoped(table, u, db) == {i \in DOMAIN table : table[i].tenant \in tenantWhere(u, db)}

WarehousesOf(u, db) == {w \in Scoped(db.warehouse, u, db) : ~db.warehouse[w].hidden}
LocationsOf(u, db) == {l \in DOMAIN db.location : db.location[l].warehouse \in WarehousesOf(u, db)}
InventoryOf(u, db) ==
    {i \in DOMAIN db.inventory : /\ db.inventory[i].product \in Scoped(db.product, u, db)
                                 /\ db.inventory[i].location \in LocationsOf(u, db)}
OfProducts(table, u, db) == {i \in DOMAIN table : table[i].product \in Scoped(db.product, u, db)}

Operational(w, db) == ~db.warehouse[w].hidden /\ db.warehouse[w].active

-----------------------------------------------------------------------------
(* Lists: the rows a query q of the user u is about                         *)

listProducts(q, u, db) == {i \in Scoped(db.product, u, db) : q.open => ~db.product[i].discontinued}
listSuppliers(q, u, db) == {i \in Scoped(db.supplier, u, db) : q.open => db.supplier[i].active}
listWarehouses(u, db) == WarehousesOf(u, db)
listLocations(u, db) == LocationsOf(u, db)
listInventory(u, db) == InventoryOf(u, db)
listStockMovements(u, db) == OfProducts(db.movement, u, db)
listPurchaseOrders(u, db) == Scoped(db.order, u, db)
listUsers(u, db) ==
    {i \in DOMAIN db.user \ {u.id} : u.role = "SYSTEM_ADMIN" \/ db.user[i].tenant = u.tenant}
listTenants(db) == DOMAIN db.tenant
\* Which of its lots are old enough, and not decayed lately, is DecayService's.
getDeadStockReport(u, db) ==
    {i \in InventoryOf(u, db) : /\ ~db.product[db.inventory[i].product].discontinued
                               /\ Operational(db.location[db.inventory[i].location].warehouse, db)}

Rows(q, u, db) ==
    CASE q.route = "GET /products" -> listProducts(q, u, db)
      [] q.route = "GET /suppliers" -> listSuppliers(q, u, db)
      [] q.route = "GET /warehouses" -> listWarehouses(u, db)
      [] q.route = "GET /locations" -> listLocations(u, db)
      [] q.route \in {"GET /inventory", "GET /reports/low-stock", "GET /reports/reorder-forecast"} ->
             listInventory(u, db)
      [] q.route = "GET /inventory/:id" -> listInventory(u, db) \intersect {1}
      [] q.route = "GET /stock-movements" -> listStockMovements(u, db)
      [] q.route = "GET /purchase-orders" -> listPurchaseOrders(u, db)
      [] q.route = "GET /users" -> listUsers(u, db)
      [] q.route = "GET /admin/tenants" -> listTenants(db)
      [] q.route = "GET /admin/tenants/:id" -> listTenants(db) \intersect {1}
      [] q.route = "GET /reports/dead-stock" -> getDeadStockReport(u, db)
      [] q.route = "GET /reports/decay-history" -> OfProducts(db.audit, u, db)
      [] q.route = "GET /jobs/:id" -> {}

\* Details of a row that is not there, or not visible, are a 404.
Missing(q, u, db) == q.route \in {"GET /inventory/:id", "GET /admin/tenants/:id"} /\ Rows(q, u, db) = {}

Count(table, column, id) == Cardinality({i \in DOMAIN table : table[i][column] = id})

\* What an answer says of row i: its own columns, and what it includes.
Row(q, i, db) ==
    CASE q.route = "GET /products" -> IF q.names THEN db.product[i].n ELSE db.product[i]
      [] q.route = "GET /suppliers" -> db.supplier[i]
      [] q.route = "GET /warehouses" -> <<db.warehouse[i], Count(db.location, "warehouse", i)>>
      [] q.route = "GET /locations" -> <<db.location[i], db.warehouse[db.location[i].warehouse].n>>
      [] q.route \in {"GET /inventory", "GET /inventory/:id", "GET /reports/low-stock",
                      "GET /reports/reorder-forecast"} ->
             <<db.inventory[i], db.product[db.inventory[i].product].n,
               db.location[db.inventory[i].location].n>>
      [] q.route = "GET /reports/dead-stock" ->
             <<db.inventory[i], db.product[db.inventory[i].product].decayed>>
      [] q.route = "GET /stock-movements" -> db.movement[i]
      [] q.route = "GET /purchase-orders" -> <<db.order[i], db.supplier[db.order[i].supplier].n>>
      [] q.route = "GET /users" -> <<db.user[i], db.tenant[db.user[i].tenant]>>
      [] q.route \in {"GET /admin/tenants", "GET /admin/tenants/:id"} ->
             <<db.tenant[i], Count(db.user, "tenant", i), Count(db.warehouse, "tenant", i),
               Count(db.product, "tenant", i)>>
      [] q.route = "GET /reports/decay-history" -> db.audit[i]

\* Movements come newest first, every other list by id.
Precedes(q, i, j, db) ==
    IF q.route = "GET /stock-movements"
    THEN \/ db.movement[i].at > db.movement[j].at
         \/ db.movement[i].at = db.movement[j].at /\ i > j
    ELSE i < j

\* Variant: a cursor of movements has the time alone.
BeyondByTime(q, i, after, db) ==
    after # 0 => IF q.route = "GET /stock-movements"
                 THEN db.movement[after].at > db.movement[i].at ELSE after < i

\* The filter a cursor adds; 0 is no cursor.
Beyond(q, i, after, db) == after # 0 => Precedes(q, after, i, db)

-----------------------------------------------------------------------------
(* Pages of a list: findMany takes limit + 1 rows, one more than the page   *)
(* shows, to know whether there is another page                             *)

FirstRows(q, rows, limit, db) ==
    {i \in rows : Cardinality({j \in rows : Precedes(q, j, i, db)}) < limit}

buildPaginationResponse(q, items, limit, db) ==
    LET data == FirstRows(q, items, limit, db)
    IN  [data |-> [i \in data |-> Row(q, i, db)],
         next |-> IF Cardinality(items) > limit
                  THEN CHOOSE i \in data : \A j \in data \ {i} : Precedes(q, j, i, db)
                  ELSE None]

Answer(q, u, after, limit, db) ==
    LET rows == {i \in Rows(q, u, db) : Beyond(q, i, after, db)}
    IN  buildPaginationResponse(q, FirstRows(q, rows, limit + 1, db), limit, db)

-----------------------------------------------------------------------------
(* Changes.  A request m names a row (id), the row it makes (new), and what *)
(* it concerns: a product, a place or owner (of), the place goods go (to),  *)
(* a time (at) or a status (active).                                        *)

Form(route, ids, new, of, to, products, times, status) ==
    [route: {route}, id: ids, new: new, of: of, to: to, product: products, at: times,
     active: status]
Naming(route, ids, new, of) == Form(route, ids, new, of, {None}, {None}, {None}, {None})

UserRequests ==
    Naming("POST /auth/register", Ids, Ids, {None}) \union Naming("POST /auth/signup", {None}, Ids, {None})
    \union UNION {Naming(r, Ids, {None}, {None}) :
                     r \in {"PATCH /admin/tenants/:id/activate", "PATCH /admin/tenants/:id/deactivate"}}
ProductRequests ==
    Naming("POST /products", {None}, Ids, {None})
    \union UNION {Naming(r, Ids, {None}, {None}) :
                     r \in {"PATCH /products/:id", "POST /products/:id/discontinue"}}
SupplierRequests ==
    Naming("POST /suppliers", {None}, Ids, {None})
    \union UNION {Naming(r, Ids, {None}, {None}) :
                     r \in {"PATCH /suppliers/:id", "DELETE /suppliers/:id"}}
WarehouseRequests ==
    Naming("POST /warehouses", {None}, Ids, {None})
    \union Form("PATCH /warehouses/:id", Ids, {None}, {None}, {None}, {None}, {None}, BOOLEAN)
    \union UNION {Naming(r, Ids, {None}, {None}) : r \in {"POST /warehouses/:id/close", "DELETE /warehouses/:id"}}
LocationRequests ==
    Naming("POST /locations", {None}, Ids, Ids)
    \union Naming("PATCH /locations/:id", Ids, {None}, Ids \union {None})
    \union Naming("DELETE /locations/:id", Ids, {None}, {None})
Moving(route, from, to) == Form(route, {None}, Ids, from, to, Ids, Times, {None})
StockRequests ==
    Moving("POST /inventory/receive", {None}, Ids)
    \union Moving("POST /inventory/transfer", Ids, Ids)
    \union Moving("POST /inventory/sell", Ids, {None})
    \union UNION {Naming(r, Ids, {None}, {None}) :
                     r \in {"POST /inventory/:id/reserve", "POST /inventory/:id/release-reservation"}}
OrderRequests ==
    Form("POST /purchase-orders", Ids, Ids, {None}, Ids, Ids, {None}, {None})
    \union Form("POST /purchase-orders/:id/receive", Ids, Ids, {None}, {None}, {None}, Times, {None})
    \union UNION {Naming(r, Ids, {None}, {None}) :
                     r \in {"PATCH /purchase-orders/:id", "POST /purchase-orders/:id/submit",
                            "POST /purchase-orders/:id/approve", "POST /purchase-orders/:id/cancel"}}
DecayRequests == Naming("POST /reports/trigger-decay", Ids \union {None}, Ids, {None})

-----------------------------------------------------------------------------
(* What a handler reads and refuses by.  The states of orders, lots and     *)
(* reservations refuse more: see the modules about them.                    *)

\* Transfers and sales find stock at the place they take it from.
StockAt(product, place, db) ==
    {i \in DOMAIN db.inventory : db.inventory[i].product = product /\ db.inventory[i].location = place}
OperationalPlace(l, u, db) == l \in LocationsOf(u, db) /\ Operational(db.location[l].warehouse, db)

UserChecked(m, u, db) ==
    CASE m.route = "POST /auth/signup" -> TRUE
      [] m.route = "POST /auth/register" ->
             /\ m.id \in DOMAIN db.tenant /\ db.tenant[m.id].active
             /\ u.role # "SYSTEM_ADMIN" => m.id = u.tenant
      [] OTHER -> m.id \in DOMAIN db.tenant
ProductChecked(m, u, db) ==
    IF m.route = "POST /products" THEN tenantIdForWrite(u) ELSE m.id \in Scoped(db.product, u, db)
SupplierChecked(m, u, db) ==
    /\ m.route \in {"POST /suppliers", "PATCH /suppliers/:id"} => tenantIdForWrite(u)
    /\ m.route # "POST /suppliers" => m.id \in Scoped(db.supplier, u, db)
WarehouseChecked(m, u, db) ==
    CASE m.route = "POST /warehouses" -> tenantIdForWrite(u)
      [] m.route = "DELETE /warehouses/:id" -> m.id \in Scoped(db.warehouse, u, db)
      [] OTHER -> m.id \in WarehousesOf(u, db)
LocationChecked(m, u, db) ==
    /\ m.route # "POST /locations" => m.id \in LocationsOf(u, db)
    /\ m.of # None => m.of \in Scoped(db.warehouse, u, db) /\ Operational(m.of, db)
    /\ m.route = "DELETE /locations/:id" => Count(db.inventory, "location", m.id) = 0
StockChecked(m, u, db) ==
    /\ m.id # None => m.id \in InventoryOf(u, db)
    /\ m.product # None => m.product \in Scoped(db.product, u, db)
    /\ m.of # None => OperationalPlace(m.of, u, db) /\ StockAt(m.product, m.of, db) # {}
    /\ m.to # None => OperationalPlace(m.to, u, db) /\ m.to # m.of
OrderChecked(m, u, db) ==
    IF m.route = "POST /purchase-orders"
    THEN /\ m.id \in Scoped(db.supplier, u, db) /\ db.supplier[m.id].active
         /\ m.product \in DOMAIN db.product /\ db.product[m.product].tenant = db.supplier[m.id].tenant
         /\ m.to \in DOMAIN db.location
         /\ LET w == db.warehouse[db.location[m.to].warehouse]
            IN  w.tenant = db.supplier[m.id].tenant /\ ~w.hidden
    ELSE m.id \in Scoped(db.order, u, db)
\* Decay finds a product with stock to discount, or none, or is left to the worker.
DecayChecked(m, u, db) ==
    m.id # None => \E i \in getDeadStockReport(u, db) : db.inventory[i].product = m.id

-----------------------------------------------------------------------------
(* What it writes                                                           *)

WithUser(m, db) ==
    CASE m.route = "POST /auth/signup" ->
             [db EXCEPT !.tenant = Created(@, m.new, [active |-> FALSE]),
                        !.user = Created(@, m.new, [tenant |-> m.new])]
      [] m.route = "POST /auth/register" -> [db EXCEPT !.user = Created(@, m.new, [tenant |-> m.id])]
      [] OTHER -> [db EXCEPT !.tenant[m.id].active = (m.route = "PATCH /admin/tenants/:id/activate")]

WithProduct(m, u, db) ==
    CASE m.route = "POST /products" ->
             [db EXCEPT !.product = Created(@, m.new,
                 [tenant |-> u.tenant, discontinued |-> FALSE, n |-> 0, sold |-> 0, decayed |-> 0])]
      [] m.route = "PATCH /products/:id" -> [db EXCEPT !.product = Changed(@, m.id)]
      [] OTHER -> [db EXCEPT !.product[m.id].discontinued = TRUE]

WithSupplier(m, u, db) ==
    CASE m.route = "POST /suppliers" ->
             [db EXCEPT !.supplier = Created(@, m.new, [tenant |-> u.tenant, active |-> TRUE, n |-> 0])]
      [] m.route = "PATCH /suppliers/:id" -> [db EXCEPT !.supplier = Changed(@, m.id)]
      [] OTHER -> [db EXCEPT !.supplier[m.id].active = FALSE]

WithWarehouse(m, u, db) ==
    CASE m.route = "POST /warehouses" ->
             [db EXCEPT !.warehouse = Created(@, m.new,
                 [tenant |-> u.tenant, hidden |-> FALSE, active |-> TRUE, n |-> 0])]
      [] m.route = "PATCH /warehouses/:id" ->
             [db EXCEPT !.warehouse = [Changed(@, m.id) EXCEPT ![m.id].active = m.active]]
      [] m.route = "POST /warehouses/:id/close" -> [db EXCEPT !.warehouse[m.id].active = FALSE]
      [] OTHER -> [db EXCEPT !.warehouse[m.id].active = FALSE, !.warehouse[m.id].hidden = TRUE]

Moved(locations, id, warehouse) ==
    [Changed(locations, id) EXCEPT ![id].warehouse = IF warehouse = None THEN @ ELSE warehouse]
\* A location takes its name out of the movements it was part of (ON DELETE SET NULL).
Cleared(movements, location) ==
    [i \in DOMAIN movements |->
        [movements[i] EXCEPT !.from = IF @ = location THEN None ELSE @,
                             !.to = IF @ = location THEN None ELSE @]]

WithLocation(m, db) ==
    CASE m.route = "POST /locations" ->
             [db EXCEPT !.location = Created(@, m.new, [warehouse |-> m.of, n |-> 0])]
      [] m.route = "PATCH /locations/:id" -> [db EXCEPT !.location = Moved(@, m.id, m.of)]
      [] OTHER ->
             [db EXCEPT !.location = Deleted(@, m.id), !.movement = Cleared(@, m.id)]

Took(inventory, product, place) ==
    [i \in DOMAIN inventory |->
        IF inventory[i].product = product /\ inventory[i].location = place
        THEN [inventory[i] EXCEPT !.n = @ + 1] ELSE inventory[i]]
Stored(inventory, product, place, new) ==
    IF \E i \in DOMAIN inventory : inventory[i].product = product /\ inventory[i].location = place
    THEN Took(inventory, product, place)
    ELSE Created(inventory, new, [product |-> product, location |-> place, n |-> 0])

WithStock(m, db) ==
    IF m.id # None THEN [db EXCEPT !.inventory = Changed(@, m.id)]
    ELSE LET left == IF m.of = None THEN db.inventory ELSE Took(db.inventory, m.product, m.of)
         IN  [db EXCEPT
                 !.inventory = IF m.to = None THEN left ELSE Stored(left, m.product, m.to, m.new),
                 !.product[m.product].sold = IF m.to = None THEN @ + 1 ELSE @,
                 !.movement = Created(@, m.new,
                     [product |-> m.product, from |-> m.of, to |-> m.to, at |-> m.at])]

WithOrder(m, db) ==
    CASE m.route = "POST /purchase-orders" ->
             [db EXCEPT !.order = Created(@, m.new,
                 [tenant |-> db.supplier[m.id].tenant, supplier |-> m.id, product |-> m.product,
                  location |-> m.to, n |-> 0])]
      [] m.route = "POST /purchase-orders/:id/receive" ->
             LET line == db.order[m.id]
             IN  [db EXCEPT
                     !.order = Changed(@, m.id),
                     !.inventory = Stored(@, line.product, line.location, m.new),
                     !.movement = Created(@, m.new,
                         [product |-> line.product, from |-> None, to |-> line.location, at |-> m.at])]
      [] OTHER -> [db EXCEPT !.order = Changed(@, m.id)]

WithDecay(m, db) ==
    IF m.id = None THEN db
    ELSE [db EXCEPT !.product[m.id].decayed = @ + 1, !.audit = Created(@, m.new, [product |-> m.id])]

-----------------------------------------------------------------------------
(* What the database enforces at the write: an update or a delete needs its *)
(* row, a reference what it refers to, and a location stays while stock or  *)
(* an order line refers to it (ON DELETE RESTRICT)                          *)

RowsNeeded(m, db) ==
    /\ m.route \in {"PATCH /locations/:id", "DELETE /locations/:id"} => m.id \in DOMAIN db.location
    /\ m.to # None => m.to \in DOMAIN db.location
    /\ m.product # None /\ m.of # None => m.of \in DOMAIN db.location

\* Variant: stock does not keep the location it is at.
UnreferencedByOrders(location, db) == Count(db.order, "location", location) = 0

Unreferenced(location, db) ==
    /\ Count(db.inventory, "location", location) = 0
    /\ Count(db.order, "location", location) = 0

\* A new row gets an id of its own.
Fresh(m, db) == \A t \in DOMAIN db : m.new \notin DOMAIN db[t]

Enforced(m, db) ==
    /\ Fresh(m, db)
    /\ RowsNeeded(m, db)
    /\ m.route = "DELETE /locations/:id" => Unreferenced(m.id, db)

-----------------------------------------------------------------------------
(* All handlers                                                             *)

RoutesOf(requests) == {m.route : m \in requests}
OfUsers == RoutesOf(UserRequests)
OfProductTable == RoutesOf(ProductRequests)
OfSuppliers == RoutesOf(SupplierRequests)
OfWarehouses == RoutesOf(WarehouseRequests)
OfLocations == RoutesOf(LocationRequests)
OfStock == RoutesOf(StockRequests)
OfOrders == RoutesOf(OrderRequests)

Checked(m, u, db) ==
    CASE m.route \in OfUsers -> UserChecked(m, u, db)
      [] m.route \in OfProductTable -> ProductChecked(m, u, db)
      [] m.route \in OfSuppliers -> SupplierChecked(m, u, db)
      [] m.route \in OfWarehouses -> WarehouseChecked(m, u, db)
      [] m.route \in OfLocations -> LocationChecked(m, u, db)
      [] m.route \in OfStock -> StockChecked(m, u, db)
      [] m.route \in OfOrders -> OrderChecked(m, u, db)
      [] OTHER -> DecayChecked(m, u, db)

Written(m, u, db) ==
    CASE m.route \in OfUsers -> WithUser(m, db)
      [] m.route \in OfProductTable -> WithProduct(m, u, db)
      [] m.route \in OfSuppliers -> WithSupplier(m, u, db)
      [] m.route \in OfWarehouses -> WithWarehouse(m, u, db)
      [] m.route \in OfLocations -> WithLocation(m, db)
      [] m.route \in OfStock -> WithStock(m, db)
      [] m.route \in OfOrders -> WithOrder(m, db)
      [] OTHER -> WithDecay(m, db)

Requests ==
    UserRequests \union ProductRequests \union SupplierRequests \union WarehouseRequests
    \union LocationRequests \union StockRequests \union OrderRequests \union DecayRequests

=============================================================================
