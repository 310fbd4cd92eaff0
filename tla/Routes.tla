-------------------------------- MODULE Routes --------------------------------
(***************************************************************************)
(* The seam between the web client and the API, table by table: whom the   *)
(* API admits to a route (src/routes, rbac.middleware.js) and the form of  *)
(* its answers (src/controllers), the form in which the client reads them  *)
(* (frontend/src/api/leanstock.ts), and the pages (frontend/src/App.tsx,   *)
(* frontend/src/pages): the queries each of them opens, the changes it     *)
(* offers to a role, and which queries it asks again after a change.       *)
(*                                                                         *)
(* There is no state here: Pages runs what the tables say.                 *)
(***************************************************************************)
EXTENDS SequencesExt

Roles == {"SYSTEM_ADMIN", "COMPANY_ADMIN", "MANAGER", "WAREHOUSE_OPERATOR", "AUDITOR"}

\* The aliases of requireRole.
isAdmin == {"SYSTEM_ADMIN"}
isCompanyAdmin == {"COMPANY_ADMIN"} \union isAdmin
isManager == {"MANAGER"} \union isCompanyAdmin
isOperator == {"WAREHOUSE_OPERATOR"} \union isManager
isAuditor == {"AUDITOR"} \union isOperator

AuthRoutes ==
    {"POST /auth/signup", "GET /auth/me", "POST /auth/change-password"} \X Roles
    \union {"POST /auth/register"} \X isCompanyAdmin
AdminRoutes ==
    {"GET /admin/tenants", "GET /admin/tenants/:id", "PATCH /admin/tenants/:id/activate",
     "PATCH /admin/tenants/:id/deactivate"} \X isAdmin
UserRoutes ==
    {"GET /users"} \X isCompanyAdmin
InventoryRoutes ==
    {"GET /inventory", "GET /inventory/:id"} \X isAuditor
    \union {"POST /inventory/transfer", "POST /inventory/receive", "POST /inventory/sell",
            "POST /inventory/:id/reserve",
            "POST /inventory/:id/release-reservation"} \X isOperator
StockMovementRoutes ==
    {"GET /stock-movements", "GET /stock-movements/:id"} \X isAuditor
ProductRoutes ==
    {"GET /products", "GET /products/:id"} \X isAuditor
    \union {"POST /products", "PATCH /products/:id",
            "POST /products/:id/discontinue"} \X isManager
SupplierRoutes ==
    {"GET /suppliers", "GET /suppliers/:id"} \X isAuditor
    \union {"POST /suppliers", "PATCH /suppliers/:id", "DELETE /suppliers/:id"} \X isManager
PurchaseOrderRoutes ==
    {"GET /purchase-orders", "GET /purchase-orders/:id"} \X isAuditor
    \union {"POST /purchase-orders", "PATCH /purchase-orders/:id",
            "POST /purchase-orders/:id/submit", "POST /purchase-orders/:id/approve",
            "POST /purchase-orders/:id/receive", "POST /purchase-orders/:id/cancel"} \X isManager
WarehouseRoutes ==
    {"GET /warehouses", "GET /warehouses/:id"} \X isAuditor
    \union {"POST /warehouses", "PATCH /warehouses/:id", "DELETE /warehouses/:id",
            "POST /warehouses/:id/close"} \X isManager
LocationRoutes ==
    {"GET /locations", "GET /locations/:id"} \X isAuditor
    \union {"POST /locations", "PATCH /locations/:id", "DELETE /locations/:id"} \X isManager
ReportRoutes ==
    {"GET /reports/dead-stock", "GET /reports/decay-history", "GET /reports/low-stock",
     "GET /reports/reorder-forecast"} \X isAuditor
    \union {"POST /reports/trigger-decay"} \X isManager
JobRoutes ==
    {"GET /jobs/:id"} \X isManager

\* The roles the API admits to a route.
Admitted ==
    UNION {AuthRoutes, AdminRoutes, UserRoutes, InventoryRoutes, StockMovementRoutes, ProductRoutes,
           SupplierRoutes, PurchaseOrderRoutes, WarehouseRoutes, LocationRoutes, ReportRoutes, JobRoutes}
Allowed == [r \in {a[1] : a \in Admitted} |-> {role \in Roles : <<r, role>> \in Admitted}]

-----------------------------------------------------------------------------
(* The client's own idea of the roles (lib/roles.ts) *)

canManageProducts == {"SYSTEM_ADMIN", "COMPANY_ADMIN", "MANAGER"}
canManageWarehouses == {"SYSTEM_ADMIN", "COMPANY_ADMIN", "MANAGER"}
canOperateStock == {"SYSTEM_ADMIN", "COMPANY_ADMIN", "MANAGER", "WAREHOUSE_OPERATOR"}
canTriggerDecay == {"SYSTEM_ADMIN", "COMPANY_ADMIN", "MANAGER"}

-----------------------------------------------------------------------------
(* Answers: a page of a list with its cursor, a value, or nothing (204)     *)

ListAnswers ==
    {"GET /products", "GET /suppliers", "GET /warehouses", "GET /locations", "GET /inventory",
     "GET /stock-movements", "GET /purchase-orders", "GET /users", "GET /admin/tenants"}
EmptyAnswers == {"DELETE /locations/:id"}
AnswerOf(route) ==
    IF route \in ListAnswers THEN "page" ELSE IF route \in EmptyAnswers THEN "nothing" ELSE "value"

\* The client unwraps the data of a value, and takes a page as it comes.
AccountCalls ==
    {"GET /auth/me", "POST /auth/change-password", "POST /auth/register",
     "GET /admin/tenants/:id", "PATCH /admin/tenants/:id/activate",
     "PATCH /admin/tenants/:id/deactivate"} \X {"value"}
    \union {"GET /admin/tenants", "GET /users", "GET /products", "GET /warehouses",
            "GET /locations"} \X {"page"}
    \union {"GET /products/:id", "POST /products", "PATCH /products/:id",
            "POST /products/:id/discontinue", "GET /warehouses/:id", "POST /warehouses",
            "PATCH /warehouses/:id", "POST /warehouses/:id/close", "DELETE /warehouses/:id",
            "GET /locations/:id", "POST /locations", "PATCH /locations/:id"} \X {"value"}
    \union {"DELETE /locations/:id"} \X {"nothing"}
StockCalls ==
    {"GET /inventory", "GET /stock-movements", "GET /suppliers",
     "GET /purchase-orders"} \X {"page"}
    \union {"GET /inventory/:id", "POST /inventory/receive", "POST /inventory/transfer",
            "POST /inventory/sell", "POST /inventory/:id/reserve",
            "POST /inventory/:id/release-reservation", "GET /stock-movements/:id",
            "GET /suppliers/:id", "POST /suppliers", "PATCH /suppliers/:id",
            "DELETE /suppliers/:id", "GET /purchase-orders/:id", "POST /purchase-orders",
            "POST /purchase-orders/:id/submit", "POST /purchase-orders/:id/approve",
            "POST /purchase-orders/:id/receive", "POST /purchase-orders/:id/cancel",
            "GET /reports/dead-stock", "GET /reports/low-stock", "GET /reports/reorder-forecast",
            "GET /reports/decay-history", "POST /reports/trigger-decay",
            "GET /jobs/:id"} \X {"value"}
Reads(route, form) == <<route, form>> \in AccountCalls \union StockCalls

-----------------------------------------------------------------------------
(* Pages: the queries a page opens, and the changes it offers.  A query     *)
(* that walks has a cursor, which is the last part of its key; an option    *)
(* list shows names only; an open one leaves out what is closed.            *)

When(condition, set) == IF condition THEN set ELSE {}

Query(key, route) == [key |-> key, route |-> route, walks |-> FALSE, open |-> FALSE, names |-> FALSE]
Walk(key, route) == [Query(key, route) EXCEPT !.walks = TRUE]
Options(key, route) == [Query(key, route) EXCEPT !.names = TRUE]
Open(query) == [query EXCEPT !.open = TRUE]

\* An id as part of a key, and the row whose details a page shows.
IdText(id) == ToString(id)
Selected == IdText(1)

DashboardPage(role) ==
    [queries |-> {Query(<<"products", "dashboard">>, "GET /products"),
                  Query(<<"warehouses", "dashboard">>, "GET /warehouses"),
                  Query(<<"inventory", "dashboard">>, "GET /inventory"),
                  Query(<<"reports", "low-stock">>, "GET /reports/low-stock")}
                 \union When(role = "SYSTEM_ADMIN",
                             {Query(<<"admin", "tenants", "dashboard">>, "GET /admin/tenants")}),
     offers |-> {}]

UserCreateForm == {"POST /auth/register"}

CompaniesPage(role) ==
    [queries |-> {Walk(<<"admin", "tenants", "list">>, "GET /admin/tenants"),
                  Query(<<"admin", "tenant", Selected>>, "GET /admin/tenants/:id")},
     offers |-> UserCreateForm \union
                {"PATCH /admin/tenants/:id/activate", "PATCH /admin/tenants/:id/deactivate"}]

\* Variant: the list of companies is asked for whoever looks at the users.
UsersPageAlways(role) ==
    [queries |-> {Walk(<<"users", "list">>, "GET /users"),
                  Query(<<"admin", "tenants", "users-page">>, "GET /admin/tenants")},
     offers |-> UserCreateForm]

UsersPage(role) ==
    [queries |-> {Walk(<<"users", "list">>, "GET /users")}
                 \union When(role = "SYSTEM_ADMIN",
                             {Query(<<"admin", "tenants", "users-page">>, "GET /admin/tenants")}),
     offers |-> UserCreateForm]

WarehouseForm == {"POST /warehouses", "PATCH /warehouses/:id"}
LocationForm == {"POST /locations", "PATCH /locations/:id"}

WarehousesPage(role) ==
    [queries |-> {Walk(<<"warehouses", "list">>, "GET /warehouses"),
                  Walk(<<"locations", "list">>, "GET /locations")},
     offers |-> When(role \in canManageWarehouses,
                     WarehouseForm \union LocationForm \union
                     {"POST /warehouses/:id/close", "DELETE /warehouses/:id", "DELETE /locations/:id"})]

ProductForm == {"POST /products", "PATCH /products/:id"}

ProductsPage(role) ==
    [queries |-> {Walk(<<"products", "list">>, "GET /products")},
     offers |-> When(role \in canManageProducts, ProductForm \union {"POST /products/:id/discontinue"})]

InventoryPage(role) ==
    [queries |-> {Options(<<"products", "inventory-options">>, "GET /products"),
                  Options(<<"locations", "inventory-options">>, "GET /locations"),
                  Walk(<<"inventory", "list">>, "GET /inventory"),
                  Query(<<"inventory", "detail", Selected>>, "GET /inventory/:id")},
     offers |-> When(role \in canOperateStock,
                     {"POST /inventory/:id/reserve", "POST /inventory/:id/release-reservation"})]

MovementsPage(role) ==
    [queries |-> {Options(<<"products", "movement-options">>, "GET /products"),
                  Options(<<"locations", "movement-options">>, "GET /locations"),
                  Walk(<<"stock-movements", "list">>, "GET /stock-movements")},
     offers |-> {"POST /inventory/receive", "POST /inventory/transfer", "POST /inventory/sell"}]

\* The one page that offers what it has to whoever looks at it.
OrdersPage(role) ==
    [queries |-> {Open(Query(<<"suppliers">>, "GET /suppliers")),
                  Open(Options(<<"products", "po">>, "GET /products")),
                  Options(<<"locations", "po">>, "GET /locations"),
                  Query(<<"purchase-orders">>, "GET /purchase-orders")},
     offers |-> {"POST /suppliers", "POST /purchase-orders", "POST /purchase-orders/:id/submit",
                 "POST /purchase-orders/:id/approve", "POST /purchase-orders/:id/receive",
                 "POST /purchase-orders/:id/cancel"}]

\* The state of a job is asked for as soon as its id is typed in, by whoever types it.
ReportsPage(role) ==
    [queries |-> {Options(<<"products", "report-options">>, "GET /products"),
                  Options(<<"locations", "report-options">>, "GET /locations"),
                  Query(<<"reports", "low-stock">>, "GET /reports/low-stock"),
                  Query(<<"reports", "reorder-forecast">>, "GET /reports/reorder-forecast"),
                  Query(<<"reports", "dead-stock">>, "GET /reports/dead-stock"),
                  Query(<<"reports", "decay-history">>, "GET /reports/decay-history"),
                  Query(<<"jobs", Selected>>, "GET /jobs/:id")},
     offers |-> When(role \in canTriggerDecay, {"POST /reports/trigger-decay"})]

ProfilePage(role) == [queries |-> {}, offers |-> {"POST /auth/change-password"}]

\* The pages of App.tsx with their gates.
Gate ==
    [p \in {"/dashboard", "/companies", "/users", "/warehouses", "/products", "/inventory", "/movements",
            "/orders", "/reports", "/profile"} |->
        CASE p = "/companies" -> {"SYSTEM_ADMIN"}
          [] p = "/users" -> {"SYSTEM_ADMIN", "COMPANY_ADMIN"}
          [] p = "/movements" -> {"SYSTEM_ADMIN", "COMPANY_ADMIN", "MANAGER", "WAREHOUSE_OPERATOR"}
          [] OTHER -> Roles]

Page(path, role) ==
    CASE path = "/dashboard" -> DashboardPage(role)
      [] path = "/companies" -> CompaniesPage(role)
      [] path = "/users" -> UsersPage(role)
      [] path = "/warehouses" -> WarehousesPage(role)
      [] path = "/products" -> ProductsPage(role)
      [] path = "/inventory" -> InventoryPage(role)
      [] path = "/movements" -> MovementsPage(role)
      [] path = "/orders" -> OrdersPage(role)
      [] path = "/reports" -> ReportsPage(role)
      [] path = "/profile" -> ProfilePage(role)

-----------------------------------------------------------------------------
(* After a change                                                           *)

AfterAccount(path, change) ==
    CASE path = "/companies" /\ change.route = "POST /auth/register" -> {<<"admin", "tenant", Selected>>}
      [] path = "/users" -> {<<"users">>, <<"admin", "tenants">>}
      [] OTHER -> {<<"admin", "tenants">>, <<"admin", "tenant", IdText(change.id)>>}

AfterWarehouse(change) ==
    CASE change.route \in LocationForm -> {<<"locations">>, <<"warehouses">>}
      [] change.route = "DELETE /locations/:id" -> {<<"locations">>}
      [] OTHER -> {<<"warehouses">>}

AfterOrder(change) ==
    CASE change.route = "POST /suppliers" -> {<<"suppliers">>}
      [] change.route = "POST /purchase-orders" -> {<<"purchase-orders">>}
      [] OTHER -> {<<"purchase-orders">>, <<"inventory">>}

\* The prefixes of the keys a page invalidates once a change of its own succeeded.
Invalidates(path, change) ==
    CASE path \in {"/companies", "/users"} -> AfterAccount(path, change)
      [] path = "/warehouses" -> AfterWarehouse(change)
      [] path = "/products" -> {<<"products">>}
      [] path = "/inventory" -> {<<"inventory">>}
      [] path = "/movements" -> {<<"inventory">>, <<"reports">>, <<"stock-movements">>}
      [] path = "/orders" -> AfterOrder(change)
      [] OTHER -> {}

\* The queries it asks again by name, and whether it goes back to the first page.
Refetches(path, change) ==
    When(path = "/reports", {<<"reports", "dead-stock">>, <<"reports", "decay-history">>})
Rewinds(path) == path = "/movements"

=============================================================================
