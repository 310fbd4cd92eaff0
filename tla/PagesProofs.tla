----------------------------- MODULE PagesProofs -----------------------------
(***************************************************************************)
(* What the pages of the web client show, for any tables, page size,       *)
(* viewers and changes: they fit the API, a walk shows every row once,     *)
(* what its user has changed is shown, and history is kept.                *)
(*                                                                         *)
(* Client is what every step keeps: somebody admitted is at the page       *)
(* (Seated), the tables are sound and only grow where it matters           *)
(* (Standing), and the cache and the requests have their forms (Typed,     *)
(* Followed).  On top of it, Admits is what PagesFitApi needs; Kept and    *)
(* Walked, the past of the list and the pages taken from it, are what      *)
(* EveryRowOnce needs; Dues, what has to be shown and where it is under    *)
(* way, is what OwnChangesShow needs.  The lemmas before them say what the *)
(* tables of Routes hold, what a page of an ordered list is, and what each *)
(* change does to the tables and to the lists made of them.                *)
(***************************************************************************)
EXTENDS Pages, SumLemmas

-----------------------------------------------------------------------------
(* The tables of routes and pages *)

LEMMA AllowedByPairs ==
    ASSUME NEW r, NEW role \in Roles, <<r, role>> \in Admitted
    PROVE  r \in DOMAIN Allowed /\ role \in Allowed[r]
  <1>1. <<r, role>>[1] = r
    OBVIOUS
  <1>2. r \in {a[1] : a \in Admitted}
    BY <1>1
  <1>3. QED
    BY <1>2 DEF Allowed

\* Whatever everybody reads.
CommonReads ==
    {"GET /inventory", "GET /inventory/:id", "GET /stock-movements", "GET /products",
     "GET /suppliers", "GET /purchase-orders", "GET /warehouses", "GET /locations",
     "GET /reports/dead-stock", "GET /reports/decay-history", "GET /reports/low-stock",
     "GET /reports/reorder-forecast"}

LEMMA AllowedReads ==
    ASSUME NEW role \in Roles
    PROVE  /\ \A r \in CommonReads : role \in Allowed[r]
           /\ role \in isCompanyAdmin => role \in Allowed["GET /users"]
           /\ role \in isAdmin => \A r \in {"GET /admin/tenants", "GET /admin/tenants/:id"} : role \in Allowed[r]
  <1>1. role \in isAuditor
    BY DEF Roles, isAuditor, isOperator, isManager, isCompanyAdmin, isAdmin
  <1>2. \A r \in CommonReads : <<r, role>> \in Admitted
    BY <1>1 DEF Admitted, CommonReads, InventoryRoutes, StockMovementRoutes, ProductRoutes, SupplierRoutes,
       PurchaseOrderRoutes, WarehouseRoutes, LocationRoutes, ReportRoutes
  <1>3. role \in isCompanyAdmin => <<"GET /users", role>> \in Admitted
    BY DEF Admitted, UserRoutes
  <1>4. role \in isAdmin => \A r \in {"GET /admin/tenants", "GET /admin/tenants/:id"} : <<r, role>> \in Admitted
    BY DEF Admitted, AdminRoutes
  <1>5. QED
    BY <1>2, <1>3, <1>4, AllowedByPairs

ManagerRoutes ==
    {"POST /products", "PATCH /products/:id", "POST /products/:id/discontinue", "POST /warehouses",
     "PATCH /warehouses/:id", "DELETE /warehouses/:id", "POST /warehouses/:id/close", "POST /locations",
     "PATCH /locations/:id", "DELETE /locations/:id", "POST /reports/trigger-decay"}
OperatorRoutes ==
    {"POST /inventory/transfer", "POST /inventory/receive", "POST /inventory/sell",
     "POST /inventory/:id/reserve", "POST /inventory/:id/release-reservation"}
TenantRoutes == {"PATCH /admin/tenants/:id/activate", "PATCH /admin/tenants/:id/deactivate"}

LEMMA AllowedChanges ==
    ASSUME NEW role \in Roles
    PROVE  /\ role \in isManager => \A r \in ManagerRoutes : role \in Allowed[r]
           /\ role \in isOperator => \A r \in OperatorRoutes : role \in Allowed[r]
           /\ role \in isCompanyAdmin => role \in Allowed["POST /auth/register"]
           /\ role \in Allowed["POST /auth/change-password"]
           /\ role \in isAdmin => \A r \in TenantRoutes : role \in Allowed[r]
  <1>1. role \in isManager => \A r \in ManagerRoutes : <<r, role>> \in Admitted
    BY DEF Admitted, ManagerRoutes, ProductRoutes, WarehouseRoutes, LocationRoutes, ReportRoutes
  <1>2. role \in isOperator => \A r \in OperatorRoutes : <<r, role>> \in Admitted
    BY DEF Admitted, OperatorRoutes, InventoryRoutes
  <1>3. <<"POST /auth/change-password", role>> \in Admitted
    BY DEF Admitted, AuthRoutes
  <1>4. role \in isCompanyAdmin => <<"POST /auth/register", role>> \in Admitted
    BY DEF Admitted, AuthRoutes
  <1>5. role \in isAdmin => \A r \in TenantRoutes : <<r, role>> \in Admitted
    BY DEF Admitted, AdminRoutes, TenantRoutes
  <1>6. QED
    BY <1>1, <1>2, <1>3, <1>4, <1>5, AllowedByPairs

Paths ==
    {"/dashboard", "/companies", "/users", "/warehouses", "/products", "/inventory", "/movements",
     "/orders", "/reports", "/profile"}

LEMMA GateFacts ==
    /\ DOMAIN Gate = Paths
    /\ Gate["/companies"] = {"SYSTEM_ADMIN"}
    /\ Gate["/users"] = {"SYSTEM_ADMIN", "COMPANY_ADMIN"}
    /\ Gate["/movements"] = {"SYSTEM_ADMIN", "COMPANY_ADMIN", "MANAGER", "WAREHOUSE_OPERATOR"}
  BY DEF Gate, Paths

LEMMA PageFacts ==
    ASSUME NEW role
    PROVE  /\ Page("/dashboard", role) = DashboardPage(role)
           /\ Page("/companies", role) = CompaniesPage(role)
           /\ Page("/users", role) = UsersPage(role)
           /\ Page("/warehouses", role) = WarehousesPage(role)
           /\ Page("/products", role) = ProductsPage(role)
           /\ Page("/inventory", role) = InventoryPage(role)
           /\ Page("/movements", role) = MovementsPage(role)
           /\ Page("/orders", role) = OrdersPage(role)
           /\ Page("/reports", role) = ReportsPage(role)
           /\ Page("/profile", role) = ProfilePage(role)
  BY DEF Page

\* The queries of each page: their routes, whether they walk, and the keys of those
\* that a change of the page invalidates.
LEMMA DashboardQueries ==
    ASSUME NEW role, NEW q \in DashboardPage(role).queries
    PROVE  \/ q.route = "GET /products" /\ ~q.walks
           \/ q.route = "GET /warehouses" /\ ~q.walks
           \/ q.route = "GET /inventory" /\ ~q.walks
           \/ q.route = "GET /reports/low-stock" /\ ~q.walks
           \/ q.route = "GET /admin/tenants" /\ ~q.walks /\ role = "SYSTEM_ADMIN"
  <1>1. \/ q = Query(<<"products", "dashboard">>, "GET /products")
        \/ q = Query(<<"warehouses", "dashboard">>, "GET /warehouses")
        \/ q = Query(<<"inventory", "dashboard">>, "GET /inventory")
        \/ q = Query(<<"reports", "low-stock">>, "GET /reports/low-stock")
        \/ q = Query(<<"admin", "tenants", "dashboard">>, "GET /admin/tenants") /\ role = "SYSTEM_ADMIN"
    BY DEF DashboardPage, When
  <1>2. CASE q = Query(<<"products", "dashboard">>, "GET /products")
    BY <1>2 DEF Query
  <1>3. CASE q = Query(<<"warehouses", "dashboard">>, "GET /warehouses")
    BY <1>3 DEF Query
  <1>4. CASE q = Query(<<"inventory", "dashboard">>, "GET /inventory")
    BY <1>4 DEF Query
  <1>5. CASE q = Query(<<"reports", "low-stock">>, "GET /reports/low-stock")
    BY <1>5 DEF Query
  <1>6. CASE q = Query(<<"admin", "tenants", "dashboard">>, "GET /admin/tenants") /\ role = "SYSTEM_ADMIN"
    BY <1>6 DEF Query
  <1>7. QED
    BY <1>1, <1>2, <1>3, <1>4, <1>5, <1>6

LEMMA CompaniesQueries ==
    ASSUME NEW role, NEW q \in CompaniesPage(role).queries
    PROVE  \/ q.route = "GET /admin/tenants" /\ q.key = <<"admin", "tenants", "list">> /\ q.walks
           \/ q.route = "GET /admin/tenants/:id" /\ q.key = <<"admin", "tenant", Selected>> /\ ~q.walks
  <1>1. \/ q = Walk(<<"admin", "tenants", "list">>, "GET /admin/tenants")
        \/ q = Query(<<"admin", "tenant", Selected>>, "GET /admin/tenants/:id")
    BY DEF CompaniesPage
  <1>2. CASE q = Walk(<<"admin", "tenants", "list">>, "GET /admin/tenants")
    BY <1>2 DEF Walk, Query
  <1>3. CASE q = Query(<<"admin", "tenant", Selected>>, "GET /admin/tenants/:id")
    BY <1>3 DEF Query
  <1>4. QED
    BY <1>1, <1>2, <1>3

LEMMA UsersQueries ==
    ASSUME NEW role, NEW q \in UsersPage(role).queries
    PROVE  \/ q.route = "GET /users" /\ q.key = <<"users", "list">> /\ q.walks
           \/ /\ q.route = "GET /admin/tenants" /\ q.key = <<"admin", "tenants", "users-page">>
              /\ ~q.walks /\ role = "SYSTEM_ADMIN"
  <1>1. \/ q = Walk(<<"users", "list">>, "GET /users")
        \/ q = Query(<<"admin", "tenants", "users-page">>, "GET /admin/tenants") /\ role = "SYSTEM_ADMIN"
    BY DEF UsersPage, When
  <1>2. CASE q = Walk(<<"users", "list">>, "GET /users")
    BY <1>2 DEF Walk, Query
  <1>3. CASE q = Query(<<"admin", "tenants", "users-page">>, "GET /admin/tenants") /\ role = "SYSTEM_ADMIN"
    BY <1>3 DEF Query
  <1>4. QED
    BY <1>1, <1>2, <1>3

LEMMA WarehousesQueries ==
    ASSUME NEW role, NEW q \in WarehousesPage(role).queries
    PROVE  \/ q.route = "GET /warehouses" /\ q.key = <<"warehouses", "list">> /\ q.walks
           \/ q.route = "GET /locations" /\ q.key = <<"locations", "list">> /\ q.walks
  <1>1. \/ q = Walk(<<"warehouses", "list">>, "GET /warehouses")
        \/ q = Walk(<<"locations", "list">>, "GET /locations")
    BY DEF WarehousesPage
  <1>2. CASE q = Walk(<<"warehouses", "list">>, "GET /warehouses")
    BY <1>2 DEF Walk, Query
  <1>3. CASE q = Walk(<<"locations", "list">>, "GET /locations")
    BY <1>3 DEF Walk, Query
  <1>4. QED
    BY <1>1, <1>2, <1>3

LEMMA ProductsQueries ==
    ASSUME NEW role, NEW q \in ProductsPage(role).queries
    PROVE  q.route = "GET /products" /\ q.key = <<"products", "list">> /\ q.walks
  <1>1. q = Walk(<<"products", "list">>, "GET /products")
    BY DEF ProductsPage
  <1>2. QED
    BY <1>1 DEF Walk, Query

LEMMA InventoryQueries ==
    ASSUME NEW role, NEW q \in InventoryPage(role).queries
    PROVE  \/ q.route = "GET /products" /\ q.names /\ ~q.walks
           \/ q.route = "GET /locations" /\ ~q.walks
           \/ q.route = "GET /inventory" /\ q.key = <<"inventory", "list">> /\ q.walks
           \/ q.route = "GET /inventory/:id" /\ q.key = <<"inventory", "detail", Selected>> /\ ~q.walks
  <1>1. \/ q = Options(<<"products", "inventory-options">>, "GET /products")
        \/ q = Options(<<"locations", "inventory-options">>, "GET /locations")
        \/ q = Walk(<<"inventory", "list">>, "GET /inventory")
        \/ q = Query(<<"inventory", "detail", Selected>>, "GET /inventory/:id")
    BY DEF InventoryPage
  <1>2. CASE q = Options(<<"products", "inventory-options">>, "GET /products")
    BY <1>2 DEF Options, Query
  <1>3. CASE q = Options(<<"locations", "inventory-options">>, "GET /locations")
    BY <1>3 DEF Options, Query
  <1>4. CASE q = Walk(<<"inventory", "list">>, "GET /inventory")
    BY <1>4 DEF Walk, Query
  <1>5. CASE q = Query(<<"inventory", "detail", Selected>>, "GET /inventory/:id")
    BY <1>5 DEF Query
  <1>6. QED
    BY <1>1, <1>2, <1>3, <1>4, <1>5

LEMMA MovementsQueries ==
    ASSUME NEW role, NEW q \in MovementsPage(role).queries
    PROVE  \/ q.route = "GET /products" /\ q.names /\ ~q.walks
           \/ q.route = "GET /locations" /\ ~q.walks
           \/ q.route = "GET /stock-movements" /\ q.key = <<"stock-movements", "list">> /\ q.walks
  <1>1. \/ q = Options(<<"products", "movement-options">>, "GET /products")
        \/ q = Options(<<"locations", "movement-options">>, "GET /locations")
        \/ q = Walk(<<"stock-movements", "list">>, "GET /stock-movements")
    BY DEF MovementsPage
  <1>2. CASE q = Options(<<"products", "movement-options">>, "GET /products")
    BY <1>2 DEF Options, Query
  <1>3. CASE q = Options(<<"locations", "movement-options">>, "GET /locations")
    BY <1>3 DEF Options, Query
  <1>4. CASE q = Walk(<<"stock-movements", "list">>, "GET /stock-movements")
    BY <1>4 DEF Walk, Query
  <1>5. QED
    BY <1>1, <1>2, <1>3, <1>4

LEMMA OrdersQueries ==
    ASSUME NEW role, NEW q \in OrdersPage(role).queries
    PROVE  \/ q.route = "GET /suppliers" /\ q.key = <<"suppliers">> /\ ~q.walks
           \/ q.route = "GET /products" /\ q.names /\ ~q.walks
           \/ q.route = "GET /locations" /\ ~q.walks
           \/ q.route = "GET /purchase-orders" /\ q.key = <<"purchase-orders">> /\ ~q.walks
  <1>1. \/ q = Open(Query(<<"suppliers">>, "GET /suppliers"))
        \/ q = Open(Options(<<"products", "po">>, "GET /products"))
        \/ q = Options(<<"locations", "po">>, "GET /locations")
        \/ q = Query(<<"purchase-orders">>, "GET /purchase-orders")
    BY DEF OrdersPage
  <1>2. CASE q = Open(Query(<<"suppliers">>, "GET /suppliers"))
    BY <1>2 DEF Open, Query
  <1>3. CASE q = Open(Options(<<"products", "po">>, "GET /products"))
    BY <1>3 DEF Open, Options, Query
  <1>4. CASE q = Options(<<"locations", "po">>, "GET /locations")
    BY <1>4 DEF Options, Query
  <1>5. CASE q = Query(<<"purchase-orders">>, "GET /purchase-orders")
    BY <1>5 DEF Query
  <1>6. QED
    BY <1>1, <1>2, <1>3, <1>4, <1>5

LEMMA ReportsQueries ==
    ASSUME NEW role, NEW q \in ReportsPage(role).queries
    PROVE  \/ q.route = "GET /products" /\ q.names /\ ~q.walks
           \/ q.route = "GET /locations" /\ ~q.walks
           \/ q.route = "GET /reports/low-stock" /\ ~q.walks
           \/ q.route = "GET /reports/reorder-forecast" /\ ~q.walks
           \/ q.route = "GET /reports/dead-stock" /\ q.key = <<"reports", "dead-stock">> /\ ~q.walks
           \/ q.route = "GET /reports/decay-history" /\ q.key = <<"reports", "decay-history">> /\ ~q.walks
           \/ q.route = "GET /jobs/:id" /\ ~q.walks
  <1>1. \/ q = Options(<<"products", "report-options">>, "GET /products")
        \/ q = Options(<<"locations", "report-options">>, "GET /locations")
        \/ q = Query(<<"reports", "low-stock">>, "GET /reports/low-stock")
        \/ q = Query(<<"reports", "reorder-forecast">>, "GET /reports/reorder-forecast")
        \/ q = Query(<<"reports", "dead-stock">>, "GET /reports/dead-stock")
        \/ q = Query(<<"reports", "decay-history">>, "GET /reports/decay-history")
        \/ q = Query(<<"jobs", Selected>>, "GET /jobs/:id")
    BY DEF ReportsPage
  <1>2. CASE q = Options(<<"products", "report-options">>, "GET /products")
    BY <1>2 DEF Options, Query
  <1>3. CASE q = Options(<<"locations", "report-options">>, "GET /locations")
    BY <1>3 DEF Options, Query
  <1>4. CASE q = Query(<<"reports", "low-stock">>, "GET /reports/low-stock")
    BY <1>4 DEF Query
  <1>5. CASE q = Query(<<"reports", "reorder-forecast">>, "GET /reports/reorder-forecast")
    BY <1>5 DEF Query
  <1>6. CASE q = Query(<<"reports", "dead-stock">>, "GET /reports/dead-stock")
    BY <1>6 DEF Query
  <1>7. CASE q = Query(<<"reports", "decay-history">>, "GET /reports/decay-history")
    BY <1>7 DEF Query
  <1>8. CASE q = Query(<<"jobs", Selected>>, "GET /jobs/:id")
    BY <1>8 DEF Query
  <1>9. QED
    BY <1>1, <1>2, <1>3, <1>4, <1>5, <1>6, <1>7, <1>8

\* What a page that somebody may open asks for is admitted, save the job of the
\* reports page, and answered in the form it is read.
LEMMA QueriesFit ==
    ASSUME NEW p \in DOMAIN Gate, NEW role \in Roles, role \in Gate[p], NEW q \in Page(p, role).queries
    PROVE  /\ role \in Allowed[q.route] \/ (p = "/reports" /\ q.route = "GET /jobs/:id")
           /\ Reads(q.route, AnswerOf(q.route))
           /\ q.walks => AnswerOf(q.route) = "page"
  <1> DEFINE Listed == {"GET /products", "GET /suppliers", "GET /warehouses", "GET /locations", "GET /inventory",
                        "GET /stock-movements", "GET /purchase-orders", "GET /users", "GET /admin/tenants"}
             Valued == {"GET /admin/tenants/:id", "GET /inventory/:id", "GET /reports/low-stock",
                        "GET /reports/reorder-forecast", "GET /reports/dead-stock", "GET /reports/decay-history",
                        "GET /jobs/:id"}
  <1>1. \A r \in Listed : AnswerOf(r) = "page" /\ Reads(r, "page")
    BY DEF AnswerOf, ListAnswers, Reads, AccountCalls, StockCalls
  <1>2. \A r \in Valued : AnswerOf(r) = "value" /\ Reads(r, "value")
    BY DEF AnswerOf, ListAnswers, EmptyAnswers, Reads, AccountCalls, StockCalls
  <1>3. \/ q.route \in CommonReads
        \/ q.route = "GET /users" /\ role \in isCompanyAdmin
        \/ q.route \in {"GET /admin/tenants", "GET /admin/tenants/:id"} /\ role \in isAdmin
        \/ p = "/reports" /\ q.route = "GET /jobs/:id"
    <2>1. p \in Paths
      BY GateFacts
    <2>2. CASE p = "/dashboard"
      BY <2>2, PageFacts, DashboardQueries DEF CommonReads, isAdmin
    <2>3. CASE p = "/companies"
      BY <2>3, PageFacts, CompaniesQueries, GateFacts DEF isAdmin
    <2>4. CASE p = "/users"
      BY <2>4, PageFacts, UsersQueries, GateFacts DEF isAdmin, isCompanyAdmin
    <2>5. CASE p = "/warehouses"
      BY <2>5, PageFacts, WarehousesQueries DEF CommonReads
    <2>6. CASE p = "/products"
      BY <2>6, PageFacts, ProductsQueries DEF CommonReads
    <2>7. CASE p = "/inventory"
      BY <2>7, PageFacts, InventoryQueries DEF CommonReads
    <2>8. CASE p = "/movements"
      BY <2>8, PageFacts, MovementsQueries DEF CommonReads
    <2>9. CASE p = "/orders"
      BY <2>9, PageFacts, OrdersQueries DEF CommonReads
    <2>10. CASE p = "/reports"
      BY <2>10, PageFacts, ReportsQueries DEF CommonReads
    <2>11. CASE p = "/profile"
      <3>1. q \in ProfilePage(role).queries
        BY <2>11, PageFacts
      <3>2. QED
        BY <3>1 DEF ProfilePage
    <2>12. QED
      BY <2>1, <2>2, <2>3, <2>4, <2>5, <2>6, <2>7, <2>8, <2>9, <2>10, <2>11 DEF Paths
  <1>4. q.route \in Listed \union Valued
    BY <1>3 DEF CommonReads
  <1>5. q.walks => q.route \in Listed
    <2>1. p \in Paths
      BY GateFacts
    <2>2. CASE p = "/dashboard"
      BY <2>2, PageFacts, DashboardQueries
    <2>3. CASE p = "/companies"
      BY <2>3, PageFacts, CompaniesQueries
    <2>4. CASE p = "/users"
      BY <2>4, PageFacts, UsersQueries
    <2>5. CASE p = "/warehouses"
      BY <2>5, PageFacts, WarehousesQueries
    <2>6. CASE p = "/products"
      BY <2>6, PageFacts, ProductsQueries
    <2>7. CASE p = "/inventory"
      BY <2>7, PageFacts, InventoryQueries
    <2>8. CASE p = "/movements"
      BY <2>8, PageFacts, MovementsQueries
    <2>9. CASE p = "/orders"
      BY <2>9, PageFacts, OrdersQueries
    <2>10. CASE p = "/reports"
      BY <2>10, PageFacts, ReportsQueries
    <2>11. CASE p = "/profile"
      <3>1. q \in ProfilePage(role).queries
        BY <2>11, PageFacts
      <3>2. QED
        BY <3>1 DEF ProfilePage
    <2>12. QED
      BY <2>1, <2>2, <2>3, <2>4, <2>5, <2>6, <2>7, <2>8, <2>9, <2>10, <2>11 DEF Paths
  <1>6. \/ p = "/reports" /\ q.route = "GET /jobs/:id"
        \/ role \in Allowed[q.route]
    BY <1>3, AllowedReads
  <1>7. QED
    BY <1>1, <1>2, <1>4, <1>5, <1>6

\* The changes of each page.
OfferedOn(p) ==
    CASE p = "/companies" -> TenantRoutes \union {"POST /auth/register"}
      [] p = "/users" -> {"POST /auth/register"}
      [] p = "/warehouses" ->
             {"POST /warehouses", "PATCH /warehouses/:id", "POST /locations", "PATCH /locations/:id",
              "POST /warehouses/:id/close", "DELETE /warehouses/:id", "DELETE /locations/:id"}
      [] p = "/products" -> {"POST /products", "PATCH /products/:id", "POST /products/:id/discontinue"}
      [] p = "/inventory" -> {"POST /inventory/:id/reserve", "POST /inventory/:id/release-reservation"}
      [] p = "/movements" -> {"POST /inventory/receive", "POST /inventory/transfer", "POST /inventory/sell"}
      [] p = "/orders" ->
             {"POST /suppliers", "POST /purchase-orders", "POST /purchase-orders/:id/submit",
              "POST /purchase-orders/:id/approve", "POST /purchase-orders/:id/receive",
              "POST /purchase-orders/:id/cancel"}
      [] p = "/reports" -> {"POST /reports/trigger-decay"}
      [] p = "/profile" -> {"POST /auth/change-password"}
      [] OTHER -> {}

LEMMA Offers ==
    ASSUME NEW p \in DOMAIN Gate, NEW role
    PROVE  /\ Page(p, role).offers \subseteq OfferedOn(p)
           /\ p \in {"/warehouses", "/products", "/reports"} /\ Page(p, role).offers # {} => role \in isManager
           /\ p = "/inventory" /\ Page(p, role).offers # {} => role \in isOperator
  <1>1. p \in Paths
    BY GateFacts
  <1>2. CASE p = "/warehouses"
    <2>1. Page(p, role).offers = WarehousesPage(role).offers /\ OfferedOn(p) = OfferedOn("/warehouses")
      BY <1>2, PageFacts
    <2>2. WarehousesPage(role).offers \subseteq OfferedOn("/warehouses")
      BY DEF WarehousesPage, When, canManageWarehouses, WarehouseForm, LocationForm, OfferedOn
    <2>3. WarehousesPage(role).offers # {} => role \in isManager
      BY DEF WarehousesPage, When, canManageWarehouses, isManager, isCompanyAdmin, isAdmin
    <2>4. QED
      BY <1>2, <2>1, <2>2, <2>3
  <1>3. CASE p = "/products"
    <2>1. Page(p, role).offers = ProductsPage(role).offers /\ OfferedOn(p) = OfferedOn("/products")
      BY <1>3, PageFacts
    <2>2. ProductsPage(role).offers \subseteq OfferedOn("/products")
      BY DEF ProductsPage, When, canManageProducts, ProductForm, OfferedOn
    <2>3. ProductsPage(role).offers # {} => role \in isManager
      BY DEF ProductsPage, When, canManageProducts, isManager, isCompanyAdmin, isAdmin
    <2>4. QED
      BY <1>3, <2>1, <2>2, <2>3
  <1>4. CASE p = "/reports"
    <2>1. Page(p, role).offers = ReportsPage(role).offers /\ OfferedOn(p) = OfferedOn("/reports")
      BY <1>4, PageFacts
    <2>2. ReportsPage(role).offers \subseteq OfferedOn("/reports")
      BY DEF ReportsPage, When, canTriggerDecay, OfferedOn
    <2>3. ReportsPage(role).offers # {} => role \in isManager
      BY DEF ReportsPage, When, canTriggerDecay, isManager, isCompanyAdmin, isAdmin
    <2>4. QED
      BY <1>4, <2>1, <2>2, <2>3
  <1>5. CASE p = "/inventory"
    <2>1. Page(p, role).offers = InventoryPage(role).offers /\ OfferedOn(p) = OfferedOn("/inventory")
      BY <1>5, PageFacts
    <2>2. InventoryPage(role).offers \subseteq OfferedOn("/inventory")
      BY DEF InventoryPage, When, canOperateStock, OfferedOn
    <2>3. InventoryPage(role).offers # {} => role \in isOperator
      BY DEF InventoryPage, When, canOperateStock, isOperator, isManager, isCompanyAdmin, isAdmin
    <2>4. QED
      BY <1>5, <2>1, <2>2, <2>3
  <1>6. CASE p = "/dashboard"
    <2>1. Page(p, role).offers = DashboardPage(role).offers /\ OfferedOn(p) = OfferedOn("/dashboard")
      BY <1>6, PageFacts
    <2>2. DashboardPage(role).offers \subseteq OfferedOn("/dashboard")
      BY DEF DashboardPage, OfferedOn
    <2>3. QED
      BY <1>6, <2>1, <2>2
  <1>7. CASE p = "/companies"
    <2>1. Page(p, role).offers = CompaniesPage(role).offers /\ OfferedOn(p) = OfferedOn("/companies")
      BY <1>7, PageFacts
    <2>2. CompaniesPage(role).offers \subseteq OfferedOn("/companies")
      BY DEF CompaniesPage, UserCreateForm, TenantRoutes, OfferedOn
    <2>3. QED
      BY <1>7, <2>1, <2>2
  <1>8. CASE p = "/users"
    <2>1. Page(p, role).offers = UsersPage(role).offers /\ OfferedOn(p) = OfferedOn("/users")
      BY <1>8, PageFacts
    <2>2. UsersPage(role).offers \subseteq OfferedOn("/users")
      BY DEF UsersPage, UserCreateForm, OfferedOn
    <2>3. QED
      BY <1>8, <2>1, <2>2
  <1>9. CASE p = "/movements"
    <2>1. Page(p, role).offers = MovementsPage(role).offers /\ OfferedOn(p) = OfferedOn("/movements")
      BY <1>9, PageFacts
    <2>2. MovementsPage(role).offers \subseteq OfferedOn("/movements")
      BY DEF MovementsPage, OfferedOn
    <2>3. QED
      BY <1>9, <2>1, <2>2
  <1>10. CASE p = "/orders"
    <2>1. Page(p, role).offers = OrdersPage(role).offers /\ OfferedOn(p) = OfferedOn("/orders")
      BY <1>10, PageFacts
    <2>2. OrdersPage(role).offers \subseteq OfferedOn("/orders")
      BY DEF OrdersPage, OfferedOn
    <2>3. QED
      BY <1>10, <2>1, <2>2
  <1>11. CASE p = "/profile"
    <2>1. Page(p, role).offers = ProfilePage(role).offers /\ OfferedOn(p) = OfferedOn("/profile")
      BY <1>11, PageFacts
    <2>2. ProfilePage(role).offers \subseteq OfferedOn("/profile")
      BY DEF ProfilePage, OfferedOn
    <2>3. QED
      BY <1>11, <2>1, <2>2
  <1>12. QED
    BY <1>1, <1>2, <1>3, <1>4, <1>5, <1>6, <1>7, <1>8, <1>9, <1>10, <1>11 DEF Paths

\* What it offers is admitted, save on the orders page, and answered in the form it
\* is read.
LEMMA OffersFit ==
    ASSUME NEW p \in DOMAIN Gate, NEW role \in Roles, role \in Gate[p], NEW r \in Page(p, role).offers
    PROVE  /\ p = "/orders" \/ role \in Allowed[r]
           /\ Reads(r, AnswerOf(r))
  <1>1. p \in Paths
    BY GateFacts
  <1>2. r \in OfferedOn(p)
    BY Offers
  <1>3. p = "/orders" \/ role \in Allowed[r]
    <2>1. CASE p \in {"/warehouses", "/products", "/reports"}
      BY <2>1, <1>2, Offers, AllowedChanges DEF OfferedOn, ManagerRoutes
    <2>2. CASE p = "/inventory"
      BY <2>2, <1>2, Offers, AllowedChanges DEF OfferedOn, OperatorRoutes
    <2>3. CASE p = "/movements"
      <3>1. role \in isOperator
        BY <2>3, GateFacts DEF isOperator, isManager, isCompanyAdmin, isAdmin
      <3>2. QED
        BY <2>3, <1>2, <3>1, AllowedChanges DEF OfferedOn, OperatorRoutes
    <2>4. CASE p \in {"/companies", "/users"}
      BY <2>4, <1>2, GateFacts, AllowedChanges DEF OfferedOn, TenantRoutes, isCompanyAdmin, isAdmin
    <2>5. CASE p \in {"/profile", "/dashboard"}
      BY <2>5, <1>2, AllowedChanges DEF OfferedOn
    <2>6. QED
      BY <1>1, <2>1, <2>2, <2>3, <2>4, <2>5 DEF Paths
  <1>4. \/ r = "DELETE /locations/:id"
        \/ r \in ManagerRoutes \union OperatorRoutes \union TenantRoutes
        \/ r \in {"POST /auth/register", "POST /auth/change-password"} \union OfferedOn("/orders")
    BY <1>1, <1>2 DEF OfferedOn, Paths, ManagerRoutes, OperatorRoutes, TenantRoutes
  <1>5. CASE r = "DELETE /locations/:id"
    <2>1. AnswerOf(r) = "nothing"
      BY <1>5 DEF AnswerOf, ListAnswers, EmptyAnswers
    <2>2. <<r, "nothing">> \in AccountCalls
      BY <1>5 DEF AccountCalls
    <2>3. QED
      BY <1>3, <2>1, <2>2 DEF Reads
  <1>6. CASE r # "DELETE /locations/:id"
    <2>1. AnswerOf(r) = "value"
      BY <1>4, <1>6 DEF AnswerOf, ListAnswers, EmptyAnswers, ManagerRoutes, OperatorRoutes, TenantRoutes, OfferedOn
    <2>2. <<r, "value">> \in AccountCalls \union StockCalls
      BY <1>4, <1>6 DEF AccountCalls, StockCalls, ManagerRoutes, OperatorRoutes, TenantRoutes, OfferedOn
    <2>3. QED
      BY <1>3, <2>1, <2>2 DEF Reads
  <1>7. QED
    BY <1>5, <1>6

-----------------------------------------------------------------------------
(* Pages of an ordered list *)

\* R orders S.
Orders(R, S) ==
    /\ \A x \in S : <<x, x>> \notin R
    /\ \A x, y \in S : x # y => <<x, y>> \in R \/ <<y, x>> \in R
    /\ \A x, y, z \in S : <<x, y>> \in R /\ <<y, z>> \in R => <<x, z>> \in R

Before(R, S, x) == {y \in S : <<y, x>> \in R}
Firsts(R, S, n) == {x \in S : Cardinality(Before(R, S, x)) < n}

LEMMA Fewer ==
    ASSUME NEW S, IsFiniteSet(S), NEW T \in SUBSET S, T # S
    PROVE  Cardinality(T) < Cardinality(S)
  <1>1. Cardinality(T) <= Cardinality(S) /\ Cardinality(T) # Cardinality(S) /\ IsFiniteSet(T)
    BY FS_Subset
  <1>2. Cardinality(T) \in Nat /\ Cardinality(S) \in Nat
    BY <1>1, FS_CardinalityType
  <1>3. QED
    BY <1>1, <1>2

\* What comes before something is less than what comes after it.
LEMMA BeforeGrows ==
    ASSUME NEW R, NEW S, Orders(R, S), IsFiniteSet(S), NEW x \in S, NEW y \in S, <<x, y>> \in R
    PROVE  /\ Before(R, S, x) \subseteq Before(R, S, y)
           /\ Cardinality(Before(R, S, x)) < Cardinality(Before(R, S, y))
  <1>1. Before(R, S, x) \subseteq Before(R, S, y)
    BY DEF Orders, Before
  <1>2. x \in Before(R, S, y) /\ x \notin Before(R, S, x)
    BY DEF Orders, Before
  <1>3. IsFiniteSet(Before(R, S, y))
    BY FS_Subset DEF Before
  <1>4. Cardinality(Before(R, S, x)) < Cardinality(Before(R, S, y))
    BY <1>1, <1>2, <1>3, Fewer
  <1>5. QED
    BY <1>1, <1>4

LEMMA BeforeCounted ==
    ASSUME NEW R, NEW S, IsFiniteSet(S), NEW x
    PROVE  IsFiniteSet(Before(R, S, x)) /\ Cardinality(Before(R, S, x)) \in Nat
  BY FS_Subset, FS_CardinalityType DEF Before

\* A part of the list that is not empty has a first and a last.
LEMMA FirstAndLast ==
    ASSUME NEW R, NEW S, Orders(R, S), IsFiniteSet(S), NEW T \in SUBSET S, T # {}
    PROVE  /\ \E x \in T : \A y \in T \ {x} : <<x, y>> \in R
           /\ \E x \in T : \A y \in T \ {x} : <<y, x>> \in R
  <1> DEFINE C(x) == Cardinality(Before(R, S, x))
             N == {C(x) : x \in T}
             M == {Cardinality(S) - C(x) : x \in T}
  <1>1. \A x \in T : C(x) \in Nat /\ Cardinality(S) - C(x) \in Nat
    <2>1. ASSUME NEW x \in T
          PROVE  C(x) \in Nat /\ Cardinality(S) \in Nat /\ C(x) <= Cardinality(S)
      BY FS_Subset, FS_CardinalityType DEF Before
    <2>2. QED
      BY <2>1
  <1>2. \A x, y \in T : <<x, y>> \in R => C(x) < C(y)
    BY BeforeGrows
  <1> HIDE DEF C
  <1>3. \E x \in T : \A y \in T \ {x} : <<x, y>> \in R
    <2>1. N \in SUBSET Nat /\ N # {}
      BY <1>1
    <2>2. PICK n \in N : \A k \in N : n <= k
      BY <2>1, LeastNatural
    <2>3. PICK x \in T : n = C(x)
      BY <2>2
    <2>4. ASSUME NEW y \in T \ {x}
          PROVE  <<x, y>> \in R
      <3>1. ~(C(y) < C(x))
        BY <1>1, <2>2, <2>3
      <3>2. QED
        BY <1>2, <3>1 DEF Orders
    <2>5. QED
      BY <2>4
  <1>4. \E x \in T : \A y \in T \ {x} : <<y, x>> \in R
    <2>1. M \in SUBSET Nat /\ M # {}
      BY <1>1
    <2>2. PICK n \in M : \A k \in M : n <= k
      BY <2>1, LeastNatural
    <2>3. PICK x \in T : n = Cardinality(S) - C(x)
      BY <2>2
    <2>4. ASSUME NEW y \in T \ {x}
          PROVE  <<y, x>> \in R
      <3>1. Cardinality(S) - C(x) <= Cardinality(S) - C(y)
        BY <2>2, <2>3
      <3>2. Cardinality(S) \in Nat
        BY FS_CardinalityType
      <3>3. ~(C(x) < C(y))
        BY <1>1, <3>1, <3>2
      <3>4. QED
        BY <1>2, <3>3 DEF Orders
    <2>5. QED
      BY <2>4
  <1>5. QED
    BY <1>3, <1>4

\* The first rows of the first rows: L + 1 are read to show L.  Either these are
\* all there are, or the last one shown tells those that are shown from the rest.
LEMMA ReadAndShown ==
    ASSUME NEW R, NEW S, Orders(R, S), IsFiniteSet(S), NEW L \in Nat \ {0}
    PROVE  LET items == Firsts(R, S, L + 1)
               data  == Firsts(R, items, L)
               next  == CHOOSE x \in data : \A y \in data \ {x} : <<y, x>> \in R
           IN  IF Cardinality(items) > L
               THEN next \in data /\ data = {x \in S : <<next, x>> \notin R}
               ELSE data = S
  <1> DEFINE items == Firsts(R, S, L + 1)
             data  == Firsts(R, items, L)
             next  == CHOOSE x \in data : \A y \in data \ {x} : <<y, x>> \in R
  <1>1. items \subseteq S /\ data \subseteq items
    BY DEF Firsts
  <1>2. IsFiniteSet(items) /\ Orders(R, items)
    BY <1>1, FS_Subset DEF Orders
  <1>3. \A x \in items, y \in S : <<y, x>> \in R => y \in items
    <2>1. ASSUME NEW x \in items, NEW y \in S, <<y, x>> \in R
          PROVE  y \in items
      <3>1. Cardinality(Before(R, S, y)) < Cardinality(Before(R, S, x))
        BY <1>1, <2>1, BeforeGrows
      <3>2. Cardinality(Before(R, S, x)) < L + 1
        BY DEF Firsts
      <3>3. Cardinality(Before(R, S, x)) \in Nat /\ Cardinality(Before(R, S, y)) \in Nat
        BY BeforeCounted
      <3>4. Cardinality(Before(R, S, y)) < L + 1
        BY <3>1, <3>2, <3>3
      <3>5. QED
        BY <3>4 DEF Firsts
    <2>2. QED
      BY <2>1
  <1>4. \A x \in data, y \in S : <<y, x>> \in R => y \in data
    <2>1. ASSUME NEW x \in data, NEW y \in S, <<y, x>> \in R
          PROVE  y \in data
      <3>0. y \in items
        BY <1>1, <1>3, <2>1
      <3>1. Cardinality(Before(R, items, y)) < Cardinality(Before(R, items, x))
        BY <1>1, <1>2, <2>1, <3>0, BeforeGrows
      <3>2. Cardinality(Before(R, items, x)) < L
        BY DEF Firsts
      <3>3. Cardinality(Before(R, items, x)) \in Nat /\ Cardinality(Before(R, items, y)) \in Nat
        BY <1>2, BeforeCounted
      <3>4. Cardinality(Before(R, items, y)) < L
        BY <3>1, <3>2, <3>3
      <3>5. QED
        BY <3>0, <3>4 DEF Firsts
    <2>2. QED
      BY <2>1
  <1>5. ASSUME Cardinality(items) > L
        PROVE  next \in data /\ data = {x \in S : <<next, x>> \notin R}
    <2>1. items # {}
      BY <1>5, FS_EmptySet
    <2>2. PICK x \in items : \A y \in items \ {x} : <<x, y>> \in R
      BY <1>2, <2>1, FirstAndLast
    <2>3. Before(R, items, x) = {}
      BY <1>2, <2>2 DEF Before, Orders
    <2>4. x \in data
      <3>1. Cardinality(Before(R, items, x)) = 0
        BY <2>3, FS_EmptySet
      <3>2. QED
        BY <3>1 DEF Firsts
    <2>5. \E z \in data : \A y \in data \ {z} : <<y, z>> \in R
      BY <1>1, <1>2, <2>4, FirstAndLast
    <2>6. next \in data /\ \A y \in data \ {next} : <<y, next>> \in R
      BY <2>5
    <2> HIDE DEF next
    <2>7. ASSUME NEW y \in data
          PROVE  <<next, y>> \notin R
      BY <1>1, <2>6 DEF Orders
    <2>8. ASSUME NEW y \in S, <<next, y>> \notin R
          PROVE  y \in data
      BY <1>1, <1>4, <2>6, <2>8 DEF Orders
    <2>9. QED
      BY <1>1, <2>6, <2>7, <2>8
  <1>6. ASSUME ~(Cardinality(items) > L)
        PROVE  data = S
    <2>0. Cardinality(items) \in Nat /\ Cardinality(items) <= L
      BY <1>2, <1>6, FS_CardinalityType
    <2>1. ASSUME NEW B, B \subseteq items
          PROVE  Cardinality(B) \in Nat /\ Cardinality(B) <= L
      BY <1>2, <2>0, <2>1, FS_Subset, FS_CardinalityType
    <2>2. S \subseteq items
      <3>1. SUFFICES ASSUME S \ items # {} PROVE FALSE
        OBVIOUS
      <3>2. PICK x \in S \ items : \A y \in (S \ items) \ {x} : <<x, y>> \in R
        <4> DEFINE T == S \ items
        <4>1. T \in SUBSET S /\ T # {}
          BY <3>1
        <4> HIDE DEF T
        <4>2. \E x \in T : \A y \in T \ {x} : <<x, y>> \in R
          BY <4>1, FirstAndLast
        <4>3. QED
          BY <4>2 DEF T
      <3>3. Before(R, S, x) \subseteq items
        BY <3>2 DEF Before, Orders
      <3>4. Cardinality(Before(R, S, x)) < L + 1
        BY <2>1, <3>3
      <3>5. QED
        BY <3>2, <3>4 DEF Firsts
    <2>3. ASSUME NEW x \in items
          PROVE  x \in data
      <3>1. x \notin Before(R, items, x) /\ Before(R, items, x) \subseteq items
        BY <1>2 DEF Before, Orders
      <3>2. Cardinality(Before(R, items, x)) < Cardinality(items)
        BY <1>2, <3>1, Fewer
      <3>3. Cardinality(Before(R, items, x)) < L
        BY <1>2, <2>0, <3>2, BeforeCounted
      <3>4. QED
        BY <3>3 DEF Firsts
    <2>4. QED
      BY <1>1, <2>2, <2>3
  <1>7. QED
    BY <1>5, <1>6

-----------------------------------------------------------------------------
(* Pages of an answer *)

\* The rows a list of the query q may ever have: of movements those that were made.
RankedIn(q, tables) ==
    IF q.route = "GET /stock-movements" THEN DOMAIN tables.movement ELSE Ids

OrderOf(q, tables) ==
    {pair \in RankedIn(q, tables) \X RankedIn(q, tables) : Precedes(q, pair[1], pair[2], tables)}

LEMMA OrderPairs ==
    ASSUME NEW q, NEW tables, NEW i \in RankedIn(q, tables), NEW j \in RankedIn(q, tables)
    PROVE  <<i, j>> \in OrderOf(q, tables) <=> Precedes(q, i, j, tables)
  BY DEF OrderOf

LEMMA MovementFacts ==
    ASSUME NEW tables, Shaped(tables)
    PROVE  \A i \in DOMAIN tables.movement : i \in Ids /\ tables.movement[i].at \in Times
  <1>1. "movement" \in DOMAIN tables
    BY DEF Shaped, Columns
  <1>2. QED
    BY <1>1 DEF Shaped

LEMMA RankedFinite ==
    ASSUME NEW q, NEW tables, Shaped(tables)
    PROVE  RankedIn(q, tables) \subseteq Ids /\ IsFiniteSet(RankedIn(q, tables))
  <1>0. DOMAIN tables.movement \subseteq Ids
    BY MovementFacts
  <1>1. RankedIn(q, tables) \subseteq Ids
    BY <1>0 DEF RankedIn
  <1>2. QED
    BY <1>1, IdsAssumption, FS_Subset

LEMMA PrecedesOrders ==
    ASSUME NEW q, NEW tables, Shaped(tables), NEW S \in SUBSET RankedIn(q, tables)
    PROVE  Orders(OrderOf(q, tables), S)
  <1>0. S \subseteq Nat
    BY RankedFinite, IdsAssumption
  <1>1. \A x, y \in S : <<x, y>> \in OrderOf(q, tables) <=> Precedes(q, x, y, tables)
    BY OrderPairs
  <1>2. CASE q.route = "GET /stock-movements"
    <2> DEFINE At(x) == tables.movement[x].at
    <2>0. S \subseteq DOMAIN tables.movement
      BY <1>2 DEF RankedIn
    <2>1. \A x \in S : At(x) \in Nat
      BY <2>0, MovementFacts, TimesAssumption
    <2>2. \A x, y \in S : Precedes(q, x, y, tables) <=> At(x) > At(y) \/ (At(x) = At(y) /\ x > y)
      BY <1>2 DEF Precedes
    <2> HIDE DEF At
    <2>3. QED
      BY <1>0, <1>1, <2>1, <2>2 DEF Orders
  <1>3. CASE q.route # "GET /stock-movements"
    <2>1. \A x, y \in S : Precedes(q, x, y, tables) <=> x < y
      BY <1>3 DEF Precedes
    <2>2. QED
      BY <1>0, <1>1, <2>1 DEF Orders
  <1>4. QED
    BY <1>2, <1>3

LEMMA FirstRowsFirsts ==
    ASSUME NEW q, NEW tables, NEW S \in SUBSET RankedIn(q, tables), NEW L
    PROVE  FirstRows(q, S, L, tables) = Firsts(OrderOf(q, tables), S, L)
  <1>1. \A i \in S : {j \in S : Precedes(q, j, i, tables)} = Before(OrderOf(q, tables), S, i)
    BY OrderPairs DEF Before
  <1>2. QED
    BY <1>1 DEF FirstRows, Firsts

\* A page that follows one has the rows beyond it up to the last one shown, a last
\* page all of them.
LEMMA AnswerPages ==
    ASSUME NEW q, NEW u, NEW tables, Shaped(tables), Rows(q, u, tables) \subseteq RankedIn(q, tables),
           NEW c, NEW L \in Nat \ {0}
    PROVE  LET a == Answer(q, u, c, L, tables)
           IN  /\ DOMAIN a.data = {i \in Rows(q, u, tables) :
                      Beyond(q, i, c, tables) /\ (a.next # None => ~Precedes(q, a.next, i, tables))}
               /\ a.next # None => a.next \in DOMAIN a.data
  <1> DEFINE S == {i \in Rows(q, u, tables) : Beyond(q, i, c, tables)}
             R == OrderOf(q, tables)
             items == Firsts(R, S, L + 1)
             data == Firsts(R, items, L)
             next == CHOOSE x \in data : \A y \in data \ {x} : <<y, x>> \in R
             a == Answer(q, u, c, L, tables)
  <1>1. S \subseteq RankedIn(q, tables) /\ IsFiniteSet(S) /\ Orders(R, S)
    BY RankedFinite, FS_Subset, PrecedesOrders
  <1>2. items \subseteq S /\ data \subseteq items
    BY DEF Firsts
  <1>3. FirstRows(q, S, L + 1, tables) = items /\ FirstRows(q, items, L, tables) = data
    BY <1>1, <1>2, FirstRowsFirsts
  <1>4. next = CHOOSE x \in data : \A y \in data \ {x} : Precedes(q, y, x, tables)
    <2>1. \A x \in data : (\A y \in data \ {x} : <<y, x>> \in R) <=> (\A y \in data \ {x} : Precedes(q, y, x, tables))
      BY <1>1, <1>2, OrderPairs
    <2> HIDE DEF data, R
    <2>2. QED
      BY <2>1
  <1>5. a = buildPaginationResponse(q, items, L, tables)
    BY <1>3 DEF Answer
  <1>6. DOMAIN a.data = data /\ a.next = IF Cardinality(items) > L THEN next ELSE None
    <2> HIDE DEF items, data, next, a
    <2>1. QED
      BY <1>3, <1>4, <1>5 DEF buildPaginationResponse
  <1>7. IF Cardinality(items) > L
        THEN next \in data /\ data = {x \in S : <<next, x>> \notin R}
        ELSE data = S
    BY <1>1, ReadAndShown
  <1>8. None \notin data
    BY <1>1, <1>2, RankedFinite, IdsAssumption
  <1> HIDE DEF items, data, next, a, R
  <1>9. CASE Cardinality(items) > L
    <2>1. a.next = next /\ a.next # None /\ a.next \in data
      BY <1>6, <1>7, <1>8, <1>9
    <2>2. \A x \in S : <<next, x>> \in R <=> Precedes(q, next, x, tables)
      BY <1>1, <1>2, <2>1, OrderPairs DEF R
    <2>3. data = {x \in S : ~Precedes(q, next, x, tables)}
      BY <1>7, <1>9, <2>2
    <2>4. DOMAIN a.data = {i \in Rows(q, u, tables) :
                      Beyond(q, i, c, tables) /\ (a.next # None => ~Precedes(q, a.next, i, tables))}
      BY <1>6, <2>1, <2>3
    <2>5. QED
      BY <1>6, <2>1, <2>4 DEF a
  <1>10. CASE ~(Cardinality(items) > L)
    <2>1. a.next = None /\ DOMAIN a.data = S
      BY <1>6, <1>7, <1>10
    <2>2. QED
      BY <2>1 DEF a
  <1>11. QED
    BY <1>9, <1>10

-----------------------------------------------------------------------------
(* Tables *)

\* What Shaped says of one table.
IsRow(row, name) == row = [c \in Columns[name] |-> row[c]]
TableOK(name, table) ==
    \A i \in DOMAIN table :
        i \in Ids /\ IsRow(table[i], name) /\ (name = "movement" => table[i].at \in Times)

LEMMA ColumnFacts ==
    /\ DOMAIN Columns = {"tenant", "user", "product", "supplier", "warehouse", "location", "inventory",
                         "movement", "order", "audit"}
    /\ Columns["tenant"] = {"active"}
    /\ Columns["user"] = {"tenant"}
    /\ Columns["product"] = {"tenant", "discontinued", "n", "sold", "decayed"}
    /\ Columns["supplier"] = {"tenant", "active", "n"}
    /\ Columns["warehouse"] = {"tenant", "hidden", "active", "n"}
    /\ Columns["location"] = {"warehouse", "n"}
    /\ Columns["inventory"] = {"product", "location", "n"}
    /\ Columns["movement"] = {"product", "from", "to", "at"}
    /\ Columns["order"] = {"tenant", "supplier", "product", "location", "n"}
    /\ Columns["audit"] = {"product"}
  BY DEF Columns

LEMMA ShapedTables ==
    ASSUME NEW t
    PROVE  Shaped(t) <=> /\ DOMAIN t = DOMAIN Columns
                         /\ \A name \in DOMAIN Columns : TableOK(name, t[name])
  <1>1. "movement" \in DOMAIN Columns /\ t.movement = t["movement"]
    BY ColumnFacts
  <1>2. QED
    BY <1>1 DEF Shaped, TableOK, IsRow

LEMMA ShapedWith ==
    ASSUME NEW t, Shaped(t), NEW name \in DOMAIN Columns, NEW table, TableOK(name, table)
    PROVE  Shaped([t EXCEPT ![name] = table])
  BY ShapedTables

LEMMA RowColumns ==
    ASSUME NEW name, NEW row, IsRow(row, name)
    PROVE  DOMAIN row = Columns[name]
  BY DEF IsRow

LEMMA RowWith ==
    ASSUME NEW name, NEW row, IsRow(row, name), NEW c, NEW v
    PROVE  IsRow([row EXCEPT ![c] = v], name)
  BY DEF IsRow

LEMMA CreatedOK ==
    ASSUME NEW name, NEW table, TableOK(name, table), NEW id \in Ids, NEW row, IsRow(row, name),
           name = "movement" => row.at \in Times
    PROVE  TableOK(name, Created(table, id, row))
  BY DEF TableOK, Created

LEMMA RowChangedOK ==
    ASSUME NEW name, name # "movement", NEW table, TableOK(name, table), NEW id, NEW row,
           id \in DOMAIN table => IsRow(row, name)
    PROVE  TableOK(name, [table EXCEPT ![id] = row])
  BY DEF TableOK

LEMMA ColumnChangedOK ==
    ASSUME NEW name, name # "movement", NEW table, TableOK(name, table), NEW id, NEW c, NEW v
    PROVE  TableOK(name, [table EXCEPT ![id] = [table[id] EXCEPT ![c] = v]])
  <1>1. id \in DOMAIN table => IsRow([table[id] EXCEPT ![c] = v], name)
    BY RowWith DEF TableOK
  <1>2. QED
    BY <1>1, RowChangedOK

LEMMA ChangedOK ==
    ASSUME NEW name, name # "movement", NEW table, TableOK(name, table), NEW id
    PROVE  TableOK(name, Changed(table, id))
  BY ColumnChangedOK DEF Changed

LEMMA TookOK ==
    ASSUME NEW table, TableOK("inventory", table), NEW product, NEW place
    PROVE  TableOK("inventory", Took(table, product, place))
  <1>1. \A i \in DOMAIN table : IsRow([table[i] EXCEPT !.n = @ + 1], "inventory")
    BY RowWith DEF TableOK
  <1>2. QED
    BY <1>1 DEF TableOK, Took

LEMMA StoredOK ==
    ASSUME NEW table, TableOK("inventory", table), NEW product, NEW place, NEW new \in Ids
    PROVE  TableOK("inventory", Stored(table, product, place, new))
  <1>1. IsRow([product |-> product, location |-> place, n |-> 0], "inventory")
    BY ColumnFacts DEF IsRow
  <1>2. TableOK("inventory", Created(table, new, [product |-> product, location |-> place, n |-> 0]))
    BY <1>1, CreatedOK
  <1>3. QED
    BY <1>2, TookOK DEF Stored

LEMMA CreatedRows ==
    ASSUME NEW table, NEW id, NEW row
    PROVE  /\ DOMAIN Created(table, id, row) = DOMAIN table \union {id}
           /\ \A i \in DOMAIN table : Created(table, id, row)[i] = table[i]
           /\ id \notin DOMAIN table => Created(table, id, row)[id] = row
  BY DEF Created

Places(inventory) == {inventory[i].location : i \in DOMAIN inventory}

LEMMA InventoryColumns ==
    ASSUME NEW table, TableOK("inventory", table), NEW i \in DOMAIN table, NEW v
    PROVE  /\ [table[i] EXCEPT !.n = v].location = table[i].location
           /\ [table[i] EXCEPT !.n = v].product = table[i].product
  <1>1. DOMAIN table[i] = {"product", "location", "n"}
    BY RowColumns, ColumnFacts DEF TableOK
  <1>2. QED
    BY <1>1

LEMMA TookRows ==
    ASSUME NEW table, TableOK("inventory", table), NEW product, NEW place
    PROVE  /\ DOMAIN Took(table, product, place) = DOMAIN table
           /\ Places(Took(table, product, place)) = Places(table)
  <1> DEFINE took == Took(table, product, place)
  <1>1. DOMAIN took = DOMAIN table
    BY DEF Took
  <1>2. ASSUME NEW i \in DOMAIN table
        PROVE  took[i].location = table[i].location
    <2>1. took[i] = IF table[i].product = product /\ table[i].location = place
                    THEN [table[i] EXCEPT !.n = @ + 1] ELSE table[i]
      BY DEF Took
    <2> HIDE DEF took
    <2>2. QED
      BY <2>1, InventoryColumns
  <1> HIDE DEF took
  <1>3. Places(took) = Places(table)
    BY <1>1, <1>2 DEF Places
  <1>4. QED
    BY <1>1, <1>3 DEF took

LEMMA StoredRows ==
    ASSUME NEW table, TableOK("inventory", table), NEW product, NEW place, NEW new, new \notin DOMAIN table
    PROVE  Places(Stored(table, product, place, new)) = Places(table) \union {place}
  <1> DEFINE row == [product |-> product, location |-> place, n |-> 0]
  <1>1. CASE \E i \in DOMAIN table : table[i].product = product /\ table[i].location = place
    <2>1. place \in Places(table)
      BY <1>1 DEF Places
    <2>2. Stored(table, product, place, new) = Took(table, product, place)
      BY <1>1 DEF Stored
    <2>3. QED
      BY <2>1, <2>2, TookRows
  <1>2. CASE ~\E i \in DOMAIN table : table[i].product = product /\ table[i].location = place
    <2>1. Stored(table, product, place, new) = Created(table, new, row)
      BY <1>2 DEF Stored
    <2>2. row.location = place
      OBVIOUS
    <2> HIDE DEF row
    <2> DEFINE created == Created(table, new, row)
    <2>3. /\ DOMAIN created = DOMAIN table \union {new}
          /\ \A i \in DOMAIN table : created[i].location = table[i].location
          /\ created[new].location = place
      BY <2>2 DEF Created
    <2> HIDE DEF created
    <2>4. Places(created) = Places(table) \union {place}
      BY <2>3 DEF Places
    <2>5. QED
      BY <2>1, <2>4 DEF created
  <1>3. QED
    BY <1>1, <1>2

-----------------------------------------------------------------------------
(* Requests *)

StockChanges ==
    {"POST /inventory/receive", "POST /inventory/transfer", "POST /inventory/sell",
     "POST /inventory/:id/reserve", "POST /inventory/:id/release-reservation"}
OrderChanges ==
    {"POST /purchase-orders", "POST /purchase-orders/:id/receive", "PATCH /purchase-orders/:id",
     "POST /purchase-orders/:id/submit", "POST /purchase-orders/:id/approve",
     "POST /purchase-orders/:id/cancel"}

\* What there is in the requests of each kind, as far as a change uses it.
LEMMA UserRequestFacts ==
    ASSUME NEW m \in UserRequests
    PROVE  /\ m.route \in {"POST /auth/register", "POST /auth/signup"} \union TenantRoutes
           /\ m.route \in {"POST /auth/register", "POST /auth/signup"} => m.new \in Ids
  <1>1. \/ m \in Naming("POST /auth/register", Ids, Ids, {None})
        \/ m \in Naming("POST /auth/signup", {None}, Ids, {None})
        \/ \E r \in {"PATCH /admin/tenants/:id/activate", "PATCH /admin/tenants/:id/deactivate"} :
               m \in Naming(r, Ids, {None}, {None})
    BY DEF UserRequests
  <1>2. CASE m \in Naming("POST /auth/register", Ids, Ids, {None})
    <2>1. m.route = "POST /auth/register" /\ m.new \in Ids
      BY <1>2 DEF Naming, Form
    <2>2. QED
      BY <2>1, IdsAssumption DEF TenantRoutes
  <1>3. CASE m \in Naming("POST /auth/signup", {None}, Ids, {None})
    <2>1. m.route = "POST /auth/signup" /\ m.new \in Ids
      BY <1>3 DEF Naming, Form
    <2>2. QED
      BY <2>1, IdsAssumption DEF TenantRoutes
  <1>4. CASE \E r \in {"PATCH /admin/tenants/:id/activate", "PATCH /admin/tenants/:id/deactivate"} :
                  m \in Naming(r, Ids, {None}, {None})
    <2>1. PICK r \in {"PATCH /admin/tenants/:id/activate", "PATCH /admin/tenants/:id/deactivate"} :
                   m \in Naming(r, Ids, {None}, {None})
      BY <1>4
    <2>2. m.route = r /\ m.id \in Ids
      BY <2>1 DEF Naming, Form
    <2>3. QED
      BY <2>2, IdsAssumption DEF TenantRoutes
  <1>5. QED
    BY <1>1, <1>2, <1>3, <1>4

LEMMA ProductRequestFacts ==
    ASSUME NEW m \in ProductRequests
    PROVE  /\ m.route \in {"POST /products", "PATCH /products/:id", "POST /products/:id/discontinue"}
           /\ m.route = "POST /products" => m.new \in Ids
  <1>1. \/ m \in Naming("POST /products", {None}, Ids, {None})
        \/ \E r \in {"PATCH /products/:id", "POST /products/:id/discontinue"} : m \in Naming(r, Ids, {None}, {None})
    BY DEF ProductRequests
  <1>2. CASE m \in Naming("POST /products", {None}, Ids, {None})
    <2>1. m.route = "POST /products" /\ m.new \in Ids
      BY <1>2 DEF Naming, Form
    <2>2. QED
      BY <2>1, IdsAssumption
  <1>3. CASE \E r \in {"PATCH /products/:id", "POST /products/:id/discontinue"} : m \in Naming(r, Ids, {None}, {None})
    <2>1. PICK r \in {"PATCH /products/:id", "POST /products/:id/discontinue"} : m \in Naming(r, Ids, {None}, {None})
      BY <1>3
    <2>2. m.route = r /\ m.id \in Ids
      BY <2>1 DEF Naming, Form
    <2>3. QED
      BY <2>2, IdsAssumption
  <1>4. QED
    BY <1>1, <1>2, <1>3

LEMMA SupplierRequestFacts ==
    ASSUME NEW m \in SupplierRequests
    PROVE  /\ m.route \in {"POST /suppliers", "PATCH /suppliers/:id", "DELETE /suppliers/:id"}
           /\ m.route = "POST /suppliers" => m.new \in Ids
  <1>1. \/ m \in Naming("POST /suppliers", {None}, Ids, {None})
        \/ \E r \in {"PATCH /suppliers/:id", "DELETE /suppliers/:id"} : m \in Naming(r, Ids, {None}, {None})
    BY DEF SupplierRequests
  <1>2. CASE m \in Naming("POST /suppliers", {None}, Ids, {None})
    <2>1. m.route = "POST /suppliers" /\ m.new \in Ids
      BY <1>2 DEF Naming, Form
    <2>2. QED
      BY <2>1, IdsAssumption
  <1>3. CASE \E r \in {"PATCH /suppliers/:id", "DELETE /suppliers/:id"} : m \in Naming(r, Ids, {None}, {None})
    <2>1. PICK r \in {"PATCH /suppliers/:id", "DELETE /suppliers/:id"} : m \in Naming(r, Ids, {None}, {None})
      BY <1>3
    <2>2. m.route = r /\ m.id \in Ids
      BY <2>1 DEF Naming, Form
    <2>3. QED
      BY <2>2, IdsAssumption
  <1>4. QED
    BY <1>1, <1>2, <1>3

LEMMA WarehouseRequestFacts ==
    ASSUME NEW m \in WarehouseRequests
    PROVE  /\ m.route \in {"POST /warehouses", "PATCH /warehouses/:id", "POST /warehouses/:id/close",
                           "DELETE /warehouses/:id"}
           /\ m.route = "POST /warehouses" => m.new \in Ids
  <1>1. \/ m \in Naming("POST /warehouses", {None}, Ids, {None})
        \/ m \in Form("PATCH /warehouses/:id", Ids, {None}, {None}, {None}, {None}, {None}, BOOLEAN)
        \/ \E r \in {"POST /warehouses/:id/close", "DELETE /warehouses/:id"} : m \in Naming(r, Ids, {None}, {None})
    BY DEF WarehouseRequests
  <1>2. CASE m \in Naming("POST /warehouses", {None}, Ids, {None})
    <2>1. m.route = "POST /warehouses" /\ m.new \in Ids
      BY <1>2 DEF Naming, Form
    <2>2. QED
      BY <2>1
  <1>3. CASE m \in Form("PATCH /warehouses/:id", Ids, {None}, {None}, {None}, {None}, {None}, BOOLEAN)
    <2>1. m.route = "PATCH /warehouses/:id"
      BY <1>3 DEF Form
    <2>2. QED
      BY <2>1
  <1>4. CASE \E r \in {"POST /warehouses/:id/close", "DELETE /warehouses/:id"} : m \in Naming(r, Ids, {None}, {None})
    <2>1. PICK r \in {"POST /warehouses/:id/close", "DELETE /warehouses/:id"} : m \in Naming(r, Ids, {None}, {None})
      BY <1>4
    <2>2. m.route = r
      BY <2>1 DEF Naming, Form
    <2>3. QED
      BY <2>2
  <1>5. QED
    BY <1>1, <1>2, <1>3, <1>4

LEMMA LocationRequestFacts ==
    ASSUME NEW m \in LocationRequests
    PROVE  /\ m.route \in {"POST /locations", "PATCH /locations/:id", "DELETE /locations/:id"}
           /\ m.route = "POST /locations" => m.new \in Ids /\ m.of \in Ids
  <1>1. \/ m \in Naming("POST /locations", {None}, Ids, Ids)
        \/ m \in Naming("PATCH /locations/:id", Ids, {None}, Ids \union {None})
        \/ m \in Naming("DELETE /locations/:id", Ids, {None}, {None})
    BY DEF LocationRequests
  <1>2. CASE m \in Naming("POST /locations", {None}, Ids, Ids)
    <2>1. m.route = "POST /locations" /\ m.new \in Ids /\ m.of \in Ids
      BY <1>2 DEF Naming, Form
    <2>2. QED
      BY <2>1, IdsAssumption
  <1>3. CASE m \in Naming("PATCH /locations/:id", Ids, {None}, Ids \union {None})
    <2>1. m.route = "PATCH /locations/:id"
      BY <1>3 DEF Naming, Form
    <2>2. QED
      BY <2>1, IdsAssumption
  <1>4. CASE m \in Naming("DELETE /locations/:id", Ids, {None}, {None})
    <2>1. m.route = "DELETE /locations/:id"
      BY <1>4 DEF Naming, Form
    <2>2. QED
      BY <2>1, IdsAssumption
  <1>5. QED
    BY <1>1, <1>2, <1>3, <1>4

LEMMA StockRequestFacts ==
    ASSUME NEW m \in StockRequests
    PROVE  /\ m.route \in StockChanges
           /\ m.id = None => /\ m.new \in Ids /\ m.at \in Times /\ m.product \in Ids
                             /\ m.of # None => m.route \in {"POST /inventory/transfer", "POST /inventory/sell"}
           /\ m.id # None => m.route \in {"POST /inventory/:id/reserve", "POST /inventory/:id/release-reservation"}
           /\ m.route \in {"POST /inventory/transfer", "POST /inventory/sell"} => m.of \in Ids /\ m.product \in Ids
  <1>1. \/ m \in Moving("POST /inventory/receive", {None}, Ids)
        \/ m \in Moving("POST /inventory/transfer", Ids, Ids)
        \/ m \in Moving("POST /inventory/sell", Ids, {None})
        \/ \E r \in {"POST /inventory/:id/reserve", "POST /inventory/:id/release-reservation"} :
               m \in Naming(r, Ids, {None}, {None})
    BY DEF StockRequests
  <1>2. CASE m \in Moving("POST /inventory/receive", {None}, Ids)
    <2>1. /\ m.route = "POST /inventory/receive" /\ m.id = None /\ m.new \in Ids /\ m.of \in {None}
          /\ m.product \in Ids /\ m.at \in Times
      BY <1>2 DEF Moving, Form
    <2>2. QED
      BY <2>1 DEF StockChanges
  <1>3. CASE m \in Moving("POST /inventory/transfer", Ids, Ids)
    <2>1. /\ m.route = "POST /inventory/transfer" /\ m.id = None /\ m.new \in Ids /\ m.of \in Ids
          /\ m.product \in Ids /\ m.at \in Times
      BY <1>3 DEF Moving, Form
    <2>2. QED
      BY <2>1 DEF StockChanges
  <1>4. CASE m \in Moving("POST /inventory/sell", Ids, {None})
    <2>1. /\ m.route = "POST /inventory/sell" /\ m.id = None /\ m.new \in Ids /\ m.of \in Ids
          /\ m.product \in Ids /\ m.at \in Times
      BY <1>4 DEF Moving, Form
    <2>2. QED
      BY <2>1 DEF StockChanges
  <1>5. CASE \E r \in {"POST /inventory/:id/reserve", "POST /inventory/:id/release-reservation"} :
               m \in Naming(r, Ids, {None}, {None})
    <2>1. PICK r \in {"POST /inventory/:id/reserve", "POST /inventory/:id/release-reservation"} :
               m \in Naming(r, Ids, {None}, {None})
      BY <1>5
    <2>2. m.route = r /\ m.id \in Ids
      BY <2>1 DEF Naming, Form
    <2>3. QED
      BY <2>2, IdsAssumption DEF StockChanges
  <1>6. QED
    BY <1>1, <1>2, <1>3, <1>4, <1>5

LEMMA OrderRequestFacts ==
    ASSUME NEW m \in OrderRequests
    PROVE  /\ m.route \in OrderChanges
           /\ m.route \in {"POST /purchase-orders", "POST /purchase-orders/:id/receive"} => m.new \in Ids
           /\ m.route = "POST /purchase-orders/:id/receive" => m.at \in Times
  <1> DEFINE Others == {"PATCH /purchase-orders/:id", "POST /purchase-orders/:id/submit",
                        "POST /purchase-orders/:id/approve", "POST /purchase-orders/:id/cancel"}
  <1>1. \/ m \in Form("POST /purchase-orders", Ids, Ids, {None}, Ids, Ids, {None}, {None})
        \/ m \in Form("POST /purchase-orders/:id/receive", Ids, Ids, {None}, {None}, {None}, Times, {None})
        \/ \E r \in Others : m \in Naming(r, Ids, {None}, {None})
    BY DEF OrderRequests
  <1>2. CASE m \in Form("POST /purchase-orders", Ids, Ids, {None}, Ids, Ids, {None}, {None})
    <2>1. m.route = "POST /purchase-orders" /\ m.new \in Ids
      BY <1>2 DEF Form
    <2>2. QED
      BY <2>1 DEF OrderChanges
  <1>3. CASE m \in Form("POST /purchase-orders/:id/receive", Ids, Ids, {None}, {None}, {None}, Times, {None})
    <2>1. m.route = "POST /purchase-orders/:id/receive" /\ m.new \in Ids /\ m.at \in Times
      BY <1>3 DEF Form
    <2>2. QED
      BY <2>1 DEF OrderChanges
  <1>4. CASE \E r \in Others : m \in Naming(r, Ids, {None}, {None})
    <2>1. PICK r \in Others : m \in Naming(r, Ids, {None}, {None})
      BY <1>4
    <2>2. m.route = r
      BY <2>1 DEF Naming, Form
    <2>3. QED
      BY <2>2 DEF OrderChanges
  <1>5. QED
    BY <1>1, <1>2, <1>3, <1>4

LEMMA DecayRequestFacts ==
    ASSUME NEW m \in DecayRequests
    PROVE  m.route = "POST /reports/trigger-decay" /\ m.new \in Ids
  BY DEF DecayRequests, Naming, Form

\* The kinds of requests share no route, so a request is written as one of its kind.
LEMMA KindsApart ==
    /\ OfUsers \subseteq {"POST /auth/register", "POST /auth/signup"} \union TenantRoutes
    /\ OfProductTable \subseteq {"POST /products", "PATCH /products/:id", "POST /products/:id/discontinue"}
    /\ OfSuppliers \subseteq {"POST /suppliers", "PATCH /suppliers/:id", "DELETE /suppliers/:id"}
    /\ OfWarehouses \subseteq {"POST /warehouses", "PATCH /warehouses/:id", "POST /warehouses/:id/close",
                               "DELETE /warehouses/:id"}
    /\ OfLocations \subseteq {"POST /locations", "PATCH /locations/:id", "DELETE /locations/:id"}
    /\ OfStock \subseteq StockChanges
    /\ OfOrders \subseteq OrderChanges
  <1>1. OfUsers \subseteq {"POST /auth/register", "POST /auth/signup"} \union TenantRoutes
    BY UserRequestFacts DEF OfUsers, RoutesOf
  <1>2. OfProductTable \subseteq {"POST /products", "PATCH /products/:id", "POST /products/:id/discontinue"}
    BY ProductRequestFacts DEF OfProductTable, RoutesOf
  <1>3. OfSuppliers \subseteq {"POST /suppliers", "PATCH /suppliers/:id", "DELETE /suppliers/:id"}
    BY SupplierRequestFacts DEF OfSuppliers, RoutesOf
  <1>4. OfWarehouses \subseteq {"POST /warehouses", "PATCH /warehouses/:id", "POST /warehouses/:id/close",
                               "DELETE /warehouses/:id"}
    BY WarehouseRequestFacts DEF OfWarehouses, RoutesOf
  <1>5. OfLocations \subseteq {"POST /locations", "PATCH /locations/:id", "DELETE /locations/:id"}
    BY LocationRequestFacts DEF OfLocations, RoutesOf
  <1>6. OfStock \subseteq StockChanges
    BY StockRequestFacts DEF OfStock, RoutesOf
  <1>7. OfOrders \subseteq OrderChanges
    BY OrderRequestFacts DEF OfOrders, RoutesOf
  <1>8. QED
    BY <1>1, <1>2, <1>3, <1>4, <1>5, <1>6, <1>7

LEMMA WrittenByKind ==
    ASSUME NEW m, NEW u, NEW t
    PROVE  /\ m \in UserRequests => Written(m, u, t) = WithUser(m, t)
           /\ m \in ProductRequests => Written(m, u, t) = WithProduct(m, u, t)
           /\ m \in SupplierRequests => Written(m, u, t) = WithSupplier(m, u, t)
           /\ m \in WarehouseRequests => Written(m, u, t) = WithWarehouse(m, u, t)
           /\ m \in LocationRequests => Written(m, u, t) = WithLocation(m, t)
           /\ m \in StockRequests => Written(m, u, t) = WithStock(m, t)
           /\ m \in OrderRequests => Written(m, u, t) = WithOrder(m, t)
           /\ m \in DecayRequests => Written(m, u, t) = WithDecay(m, t)
  <1>1. ASSUME m \in UserRequests PROVE Written(m, u, t) = WithUser(m, t)
    <2>1. m.route \in OfUsers
      BY <1>1 DEF OfUsers, RoutesOf
    <2>2. QED
      BY <2>1, KindsApart DEF Written, TenantRoutes, StockChanges, OrderChanges
  <1>2. ASSUME m \in ProductRequests PROVE Written(m, u, t) = WithProduct(m, u, t)
    <2>1. m.route \in OfProductTable
      BY <1>2 DEF OfProductTable, RoutesOf
    <2>2. QED
      BY <2>1, KindsApart DEF Written, TenantRoutes, StockChanges, OrderChanges
  <1>3. ASSUME m \in SupplierRequests PROVE Written(m, u, t) = WithSupplier(m, u, t)
    <2>1. m.route \in OfSuppliers
      BY <1>3 DEF OfSuppliers, RoutesOf
    <2>2. QED
      BY <2>1, KindsApart DEF Written, TenantRoutes, StockChanges, OrderChanges
  <1>4. ASSUME m \in WarehouseRequests PROVE Written(m, u, t) = WithWarehouse(m, u, t)
    <2>1. m.route \in OfWarehouses
      BY <1>4 DEF OfWarehouses, RoutesOf
    <2>2. QED
      BY <2>1, KindsApart DEF Written, TenantRoutes, StockChanges, OrderChanges
  <1>5. ASSUME m \in LocationRequests PROVE Written(m, u, t) = WithLocation(m, t)
    <2>1. m.route \in OfLocations
      BY <1>5 DEF OfLocations, RoutesOf
    <2>2. QED
      BY <2>1, KindsApart DEF Written, TenantRoutes, StockChanges, OrderChanges
  <1>6. ASSUME m \in StockRequests PROVE Written(m, u, t) = WithStock(m, t)
    <2>1. m.route \in OfStock
      BY <1>6 DEF OfStock, RoutesOf
    <2>2. QED
      BY <2>1, KindsApart DEF Written, TenantRoutes, StockChanges, OrderChanges
  <1>7. ASSUME m \in OrderRequests PROVE Written(m, u, t) = WithOrder(m, t)
    <2>1. m.route \in OfOrders
      BY <1>7 DEF OfOrders, RoutesOf
    <2>2. QED
      BY <2>1, KindsApart DEF Written, TenantRoutes, StockChanges, OrderChanges
  <1>8. ASSUME m \in DecayRequests PROVE Written(m, u, t) = WithDecay(m, t)
    <2>1. m.route = "POST /reports/trigger-decay"
      BY <1>8, DecayRequestFacts
    <2>2. QED
      BY <2>1, KindsApart DEF Written, TenantRoutes, StockChanges, OrderChanges
  <1>9. QED
    BY <1>1, <1>2, <1>3, <1>4, <1>5, <1>6, <1>7, <1>8

-----------------------------------------------------------------------------
(* What a change does to the tables *)

Sound(t) == Shaped(t) /\ References(t)

\* What stays of the tables t in the tables s, after changes.
Grows(t, s) ==
    /\ \A i \in DOMAIN t.movement : i \in DOMAIN s.movement /\ s.movement[i] = t.movement[i]
    /\ DOMAIN t.warehouse \subseteq DOMAIN s.warehouse
    /\ DOMAIN t.supplier \subseteq DOMAIN s.supplier
    /\ StockedPlaces(t) \subseteq StockedPlaces(s)

LEMMA GrowsOn ==
    ASSUME NEW r, NEW s, NEW t, Grows(r, s), Grows(s, t)
    PROVE  Grows(r, t)
  BY DEF Grows

LEMMA TableOf ==
    ASSUME NEW t, Shaped(t), NEW name \in DOMAIN Columns, NEW table
    PROVE  /\ DOMAIN t = DOMAIN Columns
           /\ TableOK(name, t[name])
           /\ [t EXCEPT ![name] = table][name] = table
           /\ \A o \in DOMAIN Columns \ {name} : [t EXCEPT ![name] = table][o] = t[o]
  BY ShapedTables

\* A change of one table.
LEMMA TableWritten ==
    ASSUME NEW t, Sound(t), NEW name \in DOMAIN Columns, NEW table, TableOK(name, table),
           name \in {"supplier", "warehouse"} => DOMAIN t[name] \subseteq DOMAIN table,
           name = "location" => \A i \in DOMAIN table : table[i].warehouse \in DOMAIN t.warehouse,
           name = "order" => \A i \in DOMAIN table : table[i].supplier \in DOMAIN t.supplier,
           name = "inventory" => Places(t.inventory) \subseteq Places(table),
           name = "movement" =>
               /\ \A i \in DOMAIN t.movement : i \in DOMAIN table /\ table[i] = t.movement[i]
               /\ \A i \in DOMAIN table \ DOMAIN t.movement :
                      {table[i].from, table[i].to} \subseteq StockedPlaces(t) \union {None}
    PROVE  LET s == [t EXCEPT ![name] = table]
           IN  Sound(s) /\ Grows(t, s)
  <1> DEFINE s == [t EXCEPT ![name] = table]
  <1>1. Shaped(s)
    BY ShapedWith DEF Sound
  <1>2. s[name] = table /\ \A o \in DOMAIN Columns \ {name} : s[o] = t[o]
    BY TableOf DEF Sound
  <1>3. /\ s.supplier = IF name = "supplier" THEN table ELSE t.supplier
        /\ s.warehouse = IF name = "warehouse" THEN table ELSE t.warehouse
        /\ s.location = IF name = "location" THEN table ELSE t.location
        /\ s.order = IF name = "order" THEN table ELSE t.order
        /\ s.inventory = IF name = "inventory" THEN table ELSE t.inventory
        /\ s.movement = IF name = "movement" THEN table ELSE t.movement
    <2> HIDE DEF s
    <2>1. QED
      BY <1>2, ColumnFacts
  <1> HIDE DEF s
  <1>4. StockedPlaces(t) \subseteq StockedPlaces(s)
    <2>1. StockedPlaces(t) = Places(t.inventory) /\ StockedPlaces(s) = Places(s.inventory)
      BY DEF StockedPlaces, Places
    <2>2. QED
      BY <1>3, <2>1
  <1>5. DOMAIN t.warehouse \subseteq DOMAIN s.warehouse /\ DOMAIN t.supplier \subseteq DOMAIN s.supplier
    BY <1>3
  <1>6. \A i \in DOMAIN t.movement : i \in DOMAIN s.movement /\ s.movement[i] = t.movement[i]
    BY <1>3
  <1>7. Grows(t, s)
    BY <1>4, <1>5, <1>6 DEF Grows
  <1>8. \A i \in DOMAIN s.location : s.location[i].warehouse \in DOMAIN s.warehouse
    <2>1. \A i \in DOMAIN s.location : s.location[i].warehouse \in DOMAIN t.warehouse
      BY <1>3 DEF Sound, References
    <2>2. QED
      BY <1>5, <2>1
  <1>9. \A i \in DOMAIN s.order : s.order[i].supplier \in DOMAIN s.supplier
    <2>1. \A i \in DOMAIN s.order : s.order[i].supplier \in DOMAIN t.supplier
      BY <1>3 DEF Sound, References
    <2>2. QED
      BY <1>5, <2>1
  <1>10. \A i \in DOMAIN s.movement :
             {s.movement[i].from, s.movement[i].to} \subseteq StockedPlaces(s) \union {None}
    <2>1. ASSUME NEW i \in DOMAIN s.movement
          PROVE  {s.movement[i].from, s.movement[i].to} \subseteq StockedPlaces(t) \union {None}
      <3>1. CASE i \in DOMAIN t.movement
        BY <1>6, <3>1 DEF Sound, References
      <3>2. CASE i \notin DOMAIN t.movement
        BY <1>3, <3>2
      <3>3. QED
        BY <3>1, <3>2
    <2>2. QED
      BY <1>4, <2>1
  <1>11. QED
    BY <1>1, <1>7, <1>8, <1>9, <1>10 DEF Sound, References, s

\* Of the tables other rows do not depend on, any rows may change.
LEMMA PlainWritten ==
    ASSUME NEW t, Sound(t), NEW name \in {"tenant", "user", "product", "audit"},
           NEW table, TableOK(name, table)
    PROVE  LET s == [t EXCEPT ![name] = table]
           IN  Sound(s) /\ Grows(t, s)
  <1>1. name \in DOMAIN Columns
    BY ColumnFacts
  <1>2. QED
    BY <1>1, TableWritten

LEMMA FreshRows ==
    ASSUME NEW m, NEW t, Fresh(m, t), Shaped(t), NEW name \in DOMAIN Columns
    PROVE  m.new \notin DOMAIN t[name]
  BY DEF Fresh, Shaped

LEMMA UsersWritten ==
    ASSUME NEW m \in UserRequests, NEW t, Sound(t)
    PROVE  Sound(WithUser(m, t)) /\ Grows(t, WithUser(m, t))
  <1>1. TableOK("tenant", t["tenant"]) /\ TableOK("user", t["user"])
    BY TableOf, ColumnFacts DEF Sound
  <1>2. \A x : IsRow([tenant |-> x], "user")
    BY ColumnFacts DEF IsRow
  <1>3. CASE m.route = "POST /auth/signup"
    <2> DEFINE r == [t EXCEPT !["tenant"] = Created(t["tenant"], m.new, [active |-> FALSE])]
               s == [r EXCEPT !["user"] = Created(r["user"], m.new, [tenant |-> m.new])]
    <2>0. m.new \in Ids
      BY <1>3, UserRequestFacts
    <2>1. IsRow([active |-> FALSE], "tenant")
      BY ColumnFacts DEF IsRow
    <2>2. TableOK("tenant", Created(t["tenant"], m.new, [active |-> FALSE]))
      BY <1>1, <2>0, <2>1, CreatedOK
    <2>3. Sound(r) /\ Grows(t, r)
      BY <2>2, PlainWritten
    <2>4. r["user"] = t["user"]
      BY TableOf, ColumnFacts DEF Sound
    <2> HIDE DEF r
    <2>5. TableOK("user", Created(r["user"], m.new, [tenant |-> m.new]))
      BY <1>1, <1>2, <2>0, <2>4, CreatedOK
    <2>6. Sound(s) /\ Grows(r, s)
      BY <2>3, <2>5, PlainWritten
    <2>7. WithUser(m, t) = s
      BY <1>3 DEF WithUser, r
    <2>8. QED
      BY <2>3, <2>6, <2>7, GrowsOn
  <1>4. CASE m.route = "POST /auth/register"
    <2>0. m.new \in Ids
      BY <1>4, UserRequestFacts
    <2>1. WithUser(m, t) = [t EXCEPT !["user"] = Created(t["user"], m.new, [tenant |-> m.id])]
      BY <1>4 DEF WithUser
    <2>2. TableOK("user", Created(t["user"], m.new, [tenant |-> m.id]))
      BY <1>1, <1>2, <2>0, CreatedOK
    <2>3. /\ Sound([t EXCEPT !["user"] = Created(t["user"], m.new, [tenant |-> m.id])])
          /\ Grows(t, [t EXCEPT !["user"] = Created(t["user"], m.new, [tenant |-> m.id])])
      BY <2>2, PlainWritten
    <2>4. QED
      BY <2>1, <2>3
  <1>5. CASE m.route \in TenantRoutes
    <2> DEFINE active == m.route = "PATCH /admin/tenants/:id/activate"
               table == [t["tenant"] EXCEPT ![m.id] = [t["tenant"][m.id] EXCEPT !["active"] = active]]
    <2>1. WithUser(m, t) = [t EXCEPT !["tenant"] = table]
      BY <1>5 DEF WithUser, TenantRoutes
    <2>2. TableOK("tenant", table)
      BY <1>1, ColumnChangedOK
    <2>3. Sound([t EXCEPT !["tenant"] = table]) /\ Grows(t, [t EXCEPT !["tenant"] = table])
      BY <2>2, PlainWritten
    <2>4. QED
      BY <2>1, <2>3
  <1>6. QED
    BY <1>3, <1>4, <1>5, UserRequestFacts

LEMMA ProductsWritten ==
    ASSUME NEW m \in ProductRequests, NEW u, NEW t, Sound(t)
    PROVE  Sound(WithProduct(m, u, t)) /\ Grows(t, WithProduct(m, u, t))
  <1>1. TableOK("product", t["product"])
    BY TableOf, ColumnFacts DEF Sound
  <1>2. CASE m.route = "POST /products"
    <2> DEFINE row == [tenant |-> u.tenant, discontinued |-> FALSE, n |-> 0, sold |-> 0, decayed |-> 0]
    <2>0. m.new \in Ids
      BY <1>2, ProductRequestFacts
    <2>1. IsRow(row, "product")
      BY ColumnFacts DEF IsRow
    <2>2. WithProduct(m, u, t) = [t EXCEPT !["product"] = Created(t["product"], m.new, row)]
      BY <1>2 DEF WithProduct
    <2> HIDE DEF row
    <2>3. TableOK("product", Created(t["product"], m.new, row))
      BY <1>1, <2>0, <2>1, CreatedOK
    <2>4. /\ Sound([t EXCEPT !["product"] = Created(t["product"], m.new, row)])
          /\ Grows(t, [t EXCEPT !["product"] = Created(t["product"], m.new, row)])
      BY <2>3, PlainWritten
    <2>5. QED
      BY <2>2, <2>4
  <1>3. CASE m.route = "PATCH /products/:id"
    <2>1. WithProduct(m, u, t) = [t EXCEPT !["product"] = Changed(t["product"], m.id)]
      BY <1>3 DEF WithProduct
    <2>2. TableOK("product", Changed(t["product"], m.id))
      BY <1>1, ChangedOK
    <2>3. /\ Sound([t EXCEPT !["product"] = Changed(t["product"], m.id)])
          /\ Grows(t, [t EXCEPT !["product"] = Changed(t["product"], m.id)])
      BY <2>2, PlainWritten
    <2>4. QED
      BY <2>1, <2>3
  <1>4. CASE m.route = "POST /products/:id/discontinue"
    <2> DEFINE table == [t["product"] EXCEPT ![m.id] = [t["product"][m.id] EXCEPT !["discontinued"] = TRUE]]
    <2>1. WithProduct(m, u, t) = [t EXCEPT !["product"] = table]
      BY <1>4 DEF WithProduct
    <2>2. TableOK("product", table)
      BY <1>1, ColumnChangedOK
    <2>3. Sound([t EXCEPT !["product"] = table]) /\ Grows(t, [t EXCEPT !["product"] = table])
      BY <2>2, PlainWritten
    <2>4. QED
      BY <2>1, <2>3
  <1>5. QED
    BY <1>2, <1>3, <1>4, ProductRequestFacts

LEMMA SuppliersWritten ==
    ASSUME NEW m \in SupplierRequests, NEW u, NEW t, Sound(t)
    PROVE  Sound(WithSupplier(m, u, t)) /\ Grows(t, WithSupplier(m, u, t))
  <1>1. TableOK("supplier", t["supplier"])
    BY TableOf, ColumnFacts DEF Sound
  <1>2. ASSUME NEW table, TableOK("supplier", table), DOMAIN t["supplier"] \subseteq DOMAIN table,
               WithSupplier(m, u, t) = [t EXCEPT !["supplier"] = table]
        PROVE  Sound(WithSupplier(m, u, t)) /\ Grows(t, WithSupplier(m, u, t))
    <2>1. Sound([t EXCEPT !["supplier"] = table]) /\ Grows(t, [t EXCEPT !["supplier"] = table])
      BY <1>2, TableWritten, ColumnFacts
    <2>2. QED
      BY <1>2, <2>1
  <1>3. CASE m.route = "POST /suppliers"
    <2> DEFINE row == [tenant |-> u.tenant, active |-> TRUE, n |-> 0]
    <2>0. m.new \in Ids
      BY <1>3, SupplierRequestFacts
    <2>1. IsRow(row, "supplier")
      BY ColumnFacts DEF IsRow
    <2>2. WithSupplier(m, u, t) = [t EXCEPT !["supplier"] = Created(t["supplier"], m.new, row)]
      BY <1>3 DEF WithSupplier
    <2> HIDE DEF row
    <2>3. TableOK("supplier", Created(t["supplier"], m.new, row))
      BY <1>1, <2>0, <2>1, CreatedOK
    <2>4. DOMAIN t["supplier"] \subseteq DOMAIN Created(t["supplier"], m.new, row)
      BY DEF Created
    <2>5. QED
      BY <1>2, <2>2, <2>3, <2>4
  <1>4. CASE m.route = "PATCH /suppliers/:id"
    <2>1. WithSupplier(m, u, t) = [t EXCEPT !["supplier"] = Changed(t["supplier"], m.id)]
      BY <1>4 DEF WithSupplier
    <2>2. TableOK("supplier", Changed(t["supplier"], m.id))
      BY <1>1, ChangedOK
    <2>3. DOMAIN Changed(t["supplier"], m.id) = DOMAIN t["supplier"]
      BY DEF Changed
    <2>4. QED
      BY <1>2, <2>1, <2>2, <2>3
  <1>5. CASE m.route = "DELETE /suppliers/:id"
    <2> DEFINE table == [t["supplier"] EXCEPT ![m.id] = [t["supplier"][m.id] EXCEPT !["active"] = FALSE]]
    <2>1. WithSupplier(m, u, t) = [t EXCEPT !["supplier"] = table]
      BY <1>5 DEF WithSupplier
    <2>2. TableOK("supplier", table)
      BY <1>1, ColumnChangedOK
    <2>3. DOMAIN table = DOMAIN t["supplier"]
      OBVIOUS
    <2>4. QED
      BY <1>2, <2>1, <2>2, <2>3
  <1>6. QED
    BY <1>3, <1>4, <1>5, SupplierRequestFacts

LEMMA WarehousesWritten ==
    ASSUME NEW m \in WarehouseRequests, NEW u, NEW t, Sound(t)
    PROVE  Sound(WithWarehouse(m, u, t)) /\ Grows(t, WithWarehouse(m, u, t))
  <1> DEFINE old == t["warehouse"]
  <1>1. TableOK("warehouse", old)
    BY TableOf, ColumnFacts DEF Sound
  <1>2. ASSUME NEW table, TableOK("warehouse", table), DOMAIN old \subseteq DOMAIN table,
               WithWarehouse(m, u, t) = [t EXCEPT !["warehouse"] = table]
        PROVE  Sound(WithWarehouse(m, u, t)) /\ Grows(t, WithWarehouse(m, u, t))
    <2>1. Sound([t EXCEPT !["warehouse"] = table]) /\ Grows(t, [t EXCEPT !["warehouse"] = table])
      BY <1>2, TableWritten, ColumnFacts
    <2>2. QED
      BY <1>2, <2>1
  <1>3. CASE m.route = "POST /warehouses"
    <2> DEFINE row == [tenant |-> u.tenant, hidden |-> FALSE, active |-> TRUE, n |-> 0]
    <2>0. m.new \in Ids
      BY <1>3, WarehouseRequestFacts
    <2>1. IsRow(row, "warehouse")
      BY ColumnFacts DEF IsRow
    <2>2. WithWarehouse(m, u, t) = [t EXCEPT !["warehouse"] = Created(old, m.new, row)]
      BY <1>3 DEF WithWarehouse
    <2> HIDE DEF row
    <2>3. TableOK("warehouse", Created(old, m.new, row))
      BY <1>1, <2>0, <2>1, CreatedOK
    <2>4. DOMAIN old \subseteq DOMAIN Created(old, m.new, row)
      BY DEF Created
    <2>5. QED
      BY <1>2, <2>2, <2>3, <2>4
  <1>4. CASE m.route = "PATCH /warehouses/:id"
    <2> DEFINE once == Changed(old, m.id)
               table == [once EXCEPT ![m.id] = [once[m.id] EXCEPT !["active"] = m.active]]
    <2>1. WithWarehouse(m, u, t) = [t EXCEPT !["warehouse"] = table]
      BY <1>4 DEF WithWarehouse
    <2>2. TableOK("warehouse", once) /\ DOMAIN once = DOMAIN old
      BY <1>1, ChangedOK DEF Changed
    <2> HIDE DEF once
    <2>3. TableOK("warehouse", table)
      BY <2>2, ColumnChangedOK
    <2>4. DOMAIN table = DOMAIN old
      BY <2>2
    <2>5. QED
      BY <1>2, <2>1, <2>3, <2>4
  <1>5. CASE m.route = "POST /warehouses/:id/close"
    <2> DEFINE table == [old EXCEPT ![m.id] = [old[m.id] EXCEPT !["active"] = FALSE]]
    <2>1. WithWarehouse(m, u, t) = [t EXCEPT !["warehouse"] = table]
      BY <1>5 DEF WithWarehouse
    <2>2. TableOK("warehouse", table)
      BY <1>1, ColumnChangedOK
    <2>3. DOMAIN table = DOMAIN old
      OBVIOUS
    <2>4. QED
      BY <1>2, <2>1, <2>2, <2>3
  <1>6. CASE m.route = "DELETE /warehouses/:id"
    <2> DEFINE once == [old EXCEPT ![m.id] = [old[m.id] EXCEPT !["active"] = FALSE]]
               table == [once EXCEPT ![m.id] = [once[m.id] EXCEPT !["hidden"] = TRUE]]
    <2>1. WithWarehouse(m, u, t) = [t EXCEPT !["warehouse"] = table]
      <3>1. "warehouse" \in DOMAIN t
        BY TableOf, ColumnFacts DEF Sound
      <3>2. QED
        BY <1>6, <3>1 DEF WithWarehouse
    <2>2. TableOK("warehouse", once) /\ DOMAIN once = DOMAIN old
      BY <1>1, ColumnChangedOK
    <2> HIDE DEF once
    <2>3. TableOK("warehouse", table)
      BY <2>2, ColumnChangedOK
    <2>4. DOMAIN table = DOMAIN old
      BY <2>2
    <2>5. QED
      BY <1>2, <2>1, <2>3, <2>4
  <1>7. QED
    BY <1>3, <1>4, <1>5, <1>6, WarehouseRequestFacts

\* What a request found when it was checked, and needs when it is written.  It is
\* there still: no warehouse, supplier or stock is taken away.
Backed(m, t) ==
    /\ m.route \in {"POST /locations", "PATCH /locations/:id"} /\ m.of # None => m.of \in DOMAIN t.warehouse
    /\ m.route = "POST /purchase-orders" => m.id \in DOMAIN t.supplier
    /\ m.route \in {"POST /inventory/transfer", "POST /inventory/sell"} => m.of \in StockedPlaces(t)

LEMMA BackedStays ==
    ASSUME NEW m, NEW s, NEW t, Backed(m, s), Grows(s, t)
    PROVE  Backed(m, t)
  BY DEF Backed, Grows

LEMMA NoneCounted ==
    ASSUME NEW name, NEW table, TableOK(name, table), NEW column, NEW id, Count(table, column, id) = 0
    PROVE  \A i \in DOMAIN table : table[i][column] # id
  <1> DEFINE S == {i \in DOMAIN table : table[i][column] = id}
  <1>1. S \subseteq Ids
    BY DEF TableOK
  <1>2. IsFiniteSet(S)
    BY <1>1, IdsAssumption, FS_Subset
  <1>3. Cardinality(S) = 0
    BY DEF Count
  <1>4. S = {}
    BY <1>2, <1>3, FS_EmptySet
  <1>5. QED
    BY <1>4

LEMMA LocationsWritten ==
    ASSUME NEW m \in LocationRequests, NEW t, Sound(t), Backed(m, t), Enforced(m, t)
    PROVE  Sound(WithLocation(m, t)) /\ Grows(t, WithLocation(m, t))
  <1> DEFINE old == t["location"]
  <1>1. TableOK("location", old)
    BY TableOf, ColumnFacts DEF Sound
  <1>2. ASSUME NEW table, TableOK("location", table),
               \A i \in DOMAIN table : table[i].warehouse \in DOMAIN t.warehouse
        PROVE  Sound([t EXCEPT !["location"] = table]) /\ Grows(t, [t EXCEPT !["location"] = table])
    BY <1>2, TableWritten, ColumnFacts
  <1>3. \A i \in DOMAIN old : old[i].warehouse \in DOMAIN t.warehouse
    BY DEF Sound, References
  <1>4. CASE m.route = "POST /locations"
    <2> DEFINE row == [warehouse |-> m.of, n |-> 0]
    <2>0. m.new \in Ids /\ m.of \in DOMAIN t.warehouse
      BY <1>4, LocationRequestFacts, IdsAssumption DEF Backed
    <2>1. IsRow(row, "location") /\ row.warehouse = m.of
      BY ColumnFacts DEF IsRow
    <2>2. WithLocation(m, t) = [t EXCEPT !["location"] = Created(old, m.new, row)]
      BY <1>4 DEF WithLocation
    <2> HIDE DEF row
    <2>3. TableOK("location", Created(old, m.new, row))
      BY <1>1, <2>0, <2>1, CreatedOK
    <2>4. \A i \in DOMAIN Created(old, m.new, row) :
              Created(old, m.new, row)[i].warehouse \in DOMAIN t.warehouse
      BY <1>3, <2>0, <2>1 DEF Created
    <2>5. QED
      BY <1>2, <2>2, <2>3, <2>4
  <1>5. CASE m.route = "PATCH /locations/:id"
    <2> DEFINE once == Changed(old, m.id)
               to == IF m.of = None THEN once[m.id].warehouse ELSE m.of
               table == [once EXCEPT ![m.id] = [once[m.id] EXCEPT !["warehouse"] = to]]
    <2>0. Moved(old, m.id, m.of) = table
      BY DEF Moved
    <2>1. WithLocation(m, t) = [t EXCEPT !["location"] = table]
      <3>1. WithLocation(m, t) = [t EXCEPT !["location"] = Moved(old, m.id, m.of)]
        BY <1>5 DEF WithLocation
      <3>2. QED
        BY <3>1, <2>0
    <2>2. TableOK("location", once) /\ DOMAIN once = DOMAIN old
      BY <1>1, ChangedOK DEF Changed
    <2>3. ASSUME NEW i \in DOMAIN old
          PROVE  once[i].warehouse = old[i].warehouse
      <3>1. DOMAIN old[i] = {"warehouse", "n"}
        BY <1>1, RowColumns, ColumnFacts DEF TableOK
      <3>2. once[i] = IF i = m.id THEN [old[i] EXCEPT !.n = @ + 1] ELSE old[i]
        BY DEF Changed
      <3> HIDE DEF once
      <3>3. QED
        BY <3>1, <3>2
    <2> HIDE DEF once
    <2>4. TableOK("location", table)
      BY <2>2, ColumnChangedOK
    <2>5. ASSUME NEW i \in DOMAIN table
          PROVE  table[i].warehouse \in DOMAIN t.warehouse
      <3>0. DOMAIN once[i] = {"warehouse", "n"} /\ i \in DOMAIN old
        BY <2>2, RowColumns, ColumnFacts DEF TableOK
      <3>1. once[i].warehouse \in DOMAIN t.warehouse
        BY <1>3, <2>3, <3>0
      <3>2. m.of # None => m.of \in DOMAIN t.warehouse
        BY <1>5 DEF Backed
      <3>3. QED
        BY <3>0, <3>1, <3>2
    <2>6. QED
      BY <1>2, <2>1, <2>4, <2>5
  <1>6. CASE m.route = "DELETE /locations/:id"
    <2> DEFINE r == [t EXCEPT !["location"] = Deleted(old, m.id)]
               movement == [i \in DOMAIN r["movement"] |->
                               [r["movement"][i] EXCEPT !.from = IF @ = m.id THEN None ELSE @,
                                                        !.to = IF @ = m.id THEN None ELSE @]]
    <2>1. WithLocation(m, t) = [r EXCEPT !["movement"] = movement]
      <3>1. "movement" \in DOMAIN t /\ "location" \in DOMAIN t
        BY TableOf, ColumnFacts DEF Sound
      <3>2. WithLocation(m, t) =
                [t EXCEPT !["location"] = Deleted(old, m.id), !["movement"] = Cleared(t["movement"], m.id)]
        BY <1>6 DEF WithLocation
      <3>3. r["movement"] = t["movement"]
        BY <3>1
      <3>4. movement = Cleared(t["movement"], m.id)
        BY <3>3 DEF Cleared
      <3>5. QED
        BY <3>2, <3>4
    <2>2. /\ DOMAIN Deleted(old, m.id) \subseteq DOMAIN old
          /\ \A i \in DOMAIN Deleted(old, m.id) : Deleted(old, m.id)[i] = old[i]
      BY DEF Deleted, Restrict
    <2>3. TableOK("location", Deleted(old, m.id))
      BY <1>1, <2>2 DEF TableOK
    <2>4. Sound(r) /\ Grows(t, r)
      BY <1>2, <1>3, <2>2, <2>3
    <2>5. TableOK("movement", r["movement"]) /\ r["movement"] = t["movement"] /\ r["inventory"] = t["inventory"]
      BY <2>4, TableOf, ColumnFacts DEF Sound
    <2> HIDE DEF r
    <2>6. m.id \notin StockedPlaces(r)
      <3>1. Count(t["inventory"], "location", m.id) = 0
        BY <1>6 DEF Enforced, Unreferenced
      <3>2. TableOK("inventory", t["inventory"])
        BY TableOf, ColumnFacts DEF Sound
      <3>3. \A i \in DOMAIN t["inventory"] : t["inventory"][i]["location"] # m.id
        BY <3>1, <3>2, NoneCounted
      <3>4. QED
        BY <2>5, <3>3 DEF StockedPlaces
    <2>7. ASSUME NEW i \in DOMAIN r.movement, m.id # None
          PROVE  r.movement[i].from # m.id /\ r.movement[i].to # m.id
      BY <2>4, <2>6, <2>7 DEF Sound, References
    <2>8. ASSUME NEW i \in DOMAIN r.movement
          PROVE  movement[i] = r.movement[i]
      <3>1. IsRow(r.movement[i], "movement")
        BY <2>5 DEF TableOK
      <3>2. r.movement[i] = [c \in {"product", "from", "to", "at"} |-> r.movement[i][c]]
        BY <3>1, ColumnFacts DEF IsRow
      <3>3. /\ (IF r.movement[i].from = m.id THEN None ELSE r.movement[i].from) = r.movement[i].from
            /\ (IF r.movement[i].to = m.id THEN None ELSE r.movement[i].to) = r.movement[i].to
        BY <2>7
      <3>4. movement[i] = [r.movement[i] EXCEPT !.from = r.movement[i].from, !.to = r.movement[i].to]
        BY <3>2, <3>3
      <3> HIDE DEF movement
      <3>5. QED
        BY <3>2, <3>4
    <2>9. DOMAIN movement = DOMAIN r.movement
      OBVIOUS
    <2> HIDE DEF movement
    <2>10. TableOK("movement", movement)
      BY <2>5, <2>8, <2>9 DEF TableOK
    <2>11. Sound([r EXCEPT !["movement"] = movement]) /\ Grows(r, [r EXCEPT !["movement"] = movement])
      BY <2>4, <2>8, <2>9, <2>10, TableWritten, ColumnFacts
    <2>12. QED
      BY <2>1, <2>4, <2>11, GrowsOn
  <1>7. QED
    BY <1>4, <1>5, <1>6, LocationRequestFacts

LEMMA FreshInAll ==
    ASSUME NEW m, NEW t, Sound(t), Enforced(m, t)
    PROVE  \A name \in DOMAIN Columns : m.new \notin DOMAIN t[name]
  BY FreshRows DEF Enforced, Sound

LEMMA InventoryWritten ==
    ASSUME NEW t, Sound(t), NEW table, TableOK("inventory", table), Places(t.inventory) \subseteq Places(table)
    PROVE  LET s == [t EXCEPT !["inventory"] = table]
           IN  Sound(s) /\ Grows(t, s) /\ StockedPlaces(s) = Places(table)
  <1> DEFINE s == [t EXCEPT !["inventory"] = table]
  <1>1. Sound(s) /\ Grows(t, s)
    BY TableWritten, ColumnFacts
  <1>2. s.inventory = table
    BY TableOf, ColumnFacts DEF Sound
  <1> HIDE DEF s
  <1>3. StockedPlaces(s) = Places(table)
    BY <1>2 DEF StockedPlaces, Places
  <1>4. QED
    BY <1>1, <1>3 DEF s

LEMMA MovementWritten ==
    ASSUME NEW t, Sound(t), NEW id \in Ids, id \notin DOMAIN t.movement, NEW product, NEW at \in Times,
           NEW from \in StockedPlaces(t) \union {None}, NEW to \in StockedPlaces(t) \union {None}
    PROVE  LET row == [product |-> product, from |-> from, to |-> to, at |-> at]
               s == [t EXCEPT !["movement"] = Created(t["movement"], id, row)]
           IN  Sound(s) /\ Grows(t, s)
  <1> DEFINE row == [product |-> product, from |-> from, to |-> to, at |-> at]
             table == Created(t["movement"], id, row)
  <1>1. IsRow(row, "movement")
    BY ColumnFacts DEF IsRow
  <1>2. row.from = from /\ row.to = to /\ row.at = at
    OBVIOUS
  <1> HIDE DEF row
  <1>3. TableOK("movement", t["movement"])
    BY TableOf, ColumnFacts DEF Sound
  <1>4. TableOK("movement", table)
    BY <1>1, <1>2, <1>3, CreatedOK
  <1>5. /\ \A i \in DOMAIN t.movement : i \in DOMAIN table /\ table[i] = t.movement[i]
        /\ \A i \in DOMAIN table \ DOMAIN t.movement : table[i] = row
    BY DEF Created
  <1> HIDE DEF table
  <1>6. \A i \in DOMAIN table \ DOMAIN t.movement :
            {table[i].from, table[i].to} \subseteq StockedPlaces(t) \union {None}
    BY <1>2, <1>5
  <1>7. Sound([t EXCEPT !["movement"] = table]) /\ Grows(t, [t EXCEPT !["movement"] = table])
    BY <1>4, <1>5, <1>6, TableWritten, ColumnFacts
  <1>8. QED
    BY <1>7 DEF row, table

LEMMA InventoryChanged ==
    ASSUME NEW table, TableOK("inventory", table), NEW id
    PROVE  TableOK("inventory", Changed(table, id)) /\ Places(table) \subseteq Places(Changed(table, id))
  <1>1. TableOK("inventory", Changed(table, id)) /\ DOMAIN Changed(table, id) = DOMAIN table
    BY ChangedOK DEF Changed
  <1>2. ASSUME NEW i \in DOMAIN table
        PROVE  Changed(table, id)[i].location = table[i].location
    <2>1. Changed(table, id)[i] = IF i = id THEN [table[i] EXCEPT !.n = @ + 1] ELSE table[i]
      BY DEF Changed
    <2>2. QED
      BY <2>1, InventoryColumns
  <1>3. QED
    BY <1>1, <1>2 DEF Places

LEMMA StockWritten ==
    ASSUME NEW m \in StockRequests, NEW t, Sound(t), Backed(m, t), Enforced(m, t)
    PROVE  Sound(WithStock(m, t)) /\ Grows(t, WithStock(m, t))
  <1>1. TableOK("inventory", t["inventory"]) /\ TableOK("product", t["product"])
    BY TableOf, ColumnFacts DEF Sound
  <1>2. CASE m.id # None
    <2>1. WithStock(m, t) = [t EXCEPT !["inventory"] = Changed(t["inventory"], m.id)]
      BY <1>2 DEF WithStock
    <2> DEFINE table == Changed(t["inventory"], m.id)
    <2>2. TableOK("inventory", table) /\ Places(t.inventory) \subseteq Places(table)
      BY <1>1, InventoryChanged
    <2> HIDE DEF table
    <2>3. Sound([t EXCEPT !["inventory"] = table]) /\ Grows(t, [t EXCEPT !["inventory"] = table])
      BY <2>2, InventoryWritten
    <2>4. QED
      BY <2>1, <2>3 DEF table
  <1>3. CASE m.id = None
    <2> DEFINE left == IF m.of = None THEN t.inventory ELSE Took(t.inventory, m.product, m.of)
               table == IF m.to = None THEN left ELSE Stored(left, m.product, m.to, m.new)
               r == [t EXCEPT !["inventory"] = table]
               sold == IF m.to = None THEN r["product"][m.product].sold + 1 ELSE r["product"][m.product].sold
               products == [r["product"] EXCEPT ![m.product] = [r["product"][m.product] EXCEPT !["sold"] = sold]]
               s == [r EXCEPT !["product"] = products]
               row == [product |-> m.product, from |-> m.of, to |-> m.to, at |-> m.at]
    <2>1. /\ m.new \in Ids /\ m.at \in Times
          /\ m.new \notin DOMAIN t["inventory"] /\ m.new \notin DOMAIN t["movement"]
      BY <1>3, StockRequestFacts, FreshInAll, ColumnFacts
    <2>2. WithStock(m, t) = [s EXCEPT !["movement"] = Created(s["movement"], m.new, row)]
      BY <1>3 DEF WithStock
    <2>3. TableOK("inventory", left) /\ Places(left) = Places(t.inventory) /\ DOMAIN left = DOMAIN t.inventory
      BY <1>1, TookOK, TookRows
    <2> HIDE DEF left
    <2>4. /\ TableOK("inventory", table)
          /\ Places(t.inventory) \subseteq Places(table)
          /\ m.to # None => m.to \in Places(table)
      <3>1. CASE m.to = None
        BY <2>3, <3>1
      <3>2. CASE m.to # None
        BY <2>1, <2>3, <3>2, StoredOK, StoredRows
      <3>3. QED
        BY <3>1, <3>2
    <2> HIDE DEF table
    <2>5. Sound(r) /\ Grows(t, r) /\ StockedPlaces(r) = Places(table)
      BY <2>4, InventoryWritten
    <2>6. r["product"] = t["product"] /\ r["movement"] = t["movement"]
      BY TableOf, ColumnFacts DEF Sound
    <2> HIDE DEF r, sold
    <2>7. TableOK("product", products)
      BY <1>1, <2>6, ColumnChangedOK
    <2> HIDE DEF products
    <2>8. Sound(s) /\ Grows(r, s)
      BY <2>5, <2>7, PlainWritten
    <2>9. s["movement"] = t["movement"]
      BY <2>5, <2>6, TableOf, ColumnFacts DEF Sound
    <2> HIDE DEF s
    <2>10. StockedPlaces(r) \subseteq StockedPlaces(s) /\ StockedPlaces(t) \subseteq StockedPlaces(s)
      BY <2>5, <2>8 DEF Grows
    <2>11. m.to \in StockedPlaces(s) \union {None}
      BY <2>4, <2>5, <2>10
    <2>12. m.of \in StockedPlaces(s) \union {None}
      BY <1>3, <2>10, StockRequestFacts DEF Backed
    <2>13. LET w == [s EXCEPT !["movement"] = Created(s["movement"], m.new, row)]
           IN  Sound(w) /\ Grows(s, w)
      BY <2>1, <2>8, <2>9, <2>11, <2>12, MovementWritten
    <2>14. QED
      BY <2>2, <2>5, <2>8, <2>13, GrowsOn
  <1>4. QED
    BY <1>2, <1>3

LEMMA OrderChanged ==
    ASSUME NEW t, Sound(t), NEW id
    PROVE  LET s == [t EXCEPT !["order"] = Changed(t["order"], id)]
           IN  Sound(s) /\ Grows(t, s)
  <1> DEFINE table == Changed(t["order"], id)
  <1>1. TableOK("order", t["order"])
    BY TableOf, ColumnFacts DEF Sound
  <1>2. TableOK("order", table) /\ DOMAIN table = DOMAIN t["order"]
    BY <1>1, ChangedOK DEF Changed
  <1>3. ASSUME NEW i \in DOMAIN table
        PROVE  table[i].supplier \in DOMAIN t.supplier
    <2>1. DOMAIN t["order"][i] = {"tenant", "supplier", "product", "location", "n"}
      BY <1>1, <1>2, RowColumns, ColumnFacts DEF TableOK
    <2>2. table[i] = IF i = id THEN [t["order"][i] EXCEPT !.n = @ + 1] ELSE t["order"][i]
      BY <1>2 DEF Changed
    <2> HIDE DEF table
    <2>3. table[i].supplier = t["order"][i].supplier
      BY <2>1, <2>2
    <2>4. QED
      BY <1>2, <2>3 DEF Sound, References
  <1> HIDE DEF table
  <1>4. Sound([t EXCEPT !["order"] = table]) /\ Grows(t, [t EXCEPT !["order"] = table])
    BY <1>2, <1>3, TableWritten, ColumnFacts
  <1>5. QED
    BY <1>4 DEF table

LEMMA OrdersWritten ==
    ASSUME NEW m \in OrderRequests, NEW t, Sound(t), Backed(m, t), Enforced(m, t)
    PROVE  Sound(WithOrder(m, t)) /\ Grows(t, WithOrder(m, t))
  <1>1. TableOK("order", t["order"])
    BY TableOf, ColumnFacts DEF Sound
  <1>2. CASE m.route = "POST /purchase-orders"
    <2> DEFINE row == [tenant |-> t.supplier[m.id].tenant, supplier |-> m.id, product |-> m.product,
                       location |-> m.to, n |-> 0]
               table == Created(t["order"], m.new, row)
    <2>1. m.new \in Ids /\ m.id \in DOMAIN t.supplier
      BY <1>2, OrderRequestFacts DEF Backed
    <2>2. IsRow(row, "order") /\ row.supplier = m.id
      BY ColumnFacts DEF IsRow
    <2>3. WithOrder(m, t) = [t EXCEPT !["order"] = table]
      BY <1>2 DEF WithOrder
    <2> HIDE DEF row
    <2>4. TableOK("order", table)
      BY <1>1, <2>1, <2>2, CreatedOK
    <2>5. \A i \in DOMAIN table : table[i].supplier \in DOMAIN t.supplier
      <3>1. \A i \in DOMAIN t["order"] : t["order"][i].supplier \in DOMAIN t.supplier
        BY DEF Sound, References
      <3>2. QED
        BY <2>1, <2>2, <3>1 DEF Created
    <2> HIDE DEF table
    <2>6. Sound([t EXCEPT !["order"] = table]) /\ Grows(t, [t EXCEPT !["order"] = table])
      BY <2>4, <2>5, TableWritten, ColumnFacts
    <2>7. QED
      BY <2>3, <2>6
  <1>3. CASE m.route = "POST /purchase-orders/:id/receive"
    <2> DEFINE line == t.order[m.id]
               r == [t EXCEPT !["order"] = Changed(t["order"], m.id)]
               table == Stored(r["inventory"], line.product, line.location, m.new)
               s == [r EXCEPT !["inventory"] = table]
               row == [product |-> line.product, from |-> None, to |-> line.location, at |-> m.at]
    <2>1. /\ m.new \in Ids /\ m.at \in Times
          /\ m.new \notin DOMAIN t["inventory"] /\ m.new \notin DOMAIN t["movement"]
      BY <1>3, OrderRequestFacts, FreshInAll, ColumnFacts
    <2>2. WithOrder(m, t) = [s EXCEPT !["movement"] = Created(s["movement"], m.new, row)]
      BY <1>3 DEF WithOrder
    <2>3. Sound(r) /\ Grows(t, r)
      BY OrderChanged
    <2>4. r["inventory"] = t["inventory"] /\ r["movement"] = t["movement"]
      BY TableOf, ColumnFacts DEF Sound
    <2>5. TableOK("inventory", r["inventory"])
      BY <2>3, TableOf, ColumnFacts DEF Sound
    <2> HIDE DEF r, line
    <2>6. TableOK("inventory", table) /\ Places(table) = Places(r["inventory"]) \union {line.location}
      BY <2>1, <2>4, <2>5, StoredOK, StoredRows
    <2> HIDE DEF table
    <2>7. Sound(s) /\ Grows(r, s) /\ StockedPlaces(s) = Places(table)
      BY <2>3, <2>6, InventoryWritten
    <2>8. s["movement"] = t["movement"]
      BY <2>3, <2>4, TableOf, ColumnFacts DEF Sound
    <2> HIDE DEF s
    <2>9. line.location \in StockedPlaces(s)
      BY <2>6, <2>7
    <2>10. LET w == [s EXCEPT !["movement"] = Created(s["movement"], m.new, row)]
           IN  Sound(w) /\ Grows(s, w)
      BY <2>1, <2>7, <2>8, <2>9, MovementWritten
    <2>11. QED
      BY <2>2, <2>3, <2>7, <2>10, GrowsOn
  <1>4. CASE m.route \notin {"POST /purchase-orders", "POST /purchase-orders/:id/receive"}
    <2>1. WithOrder(m, t) = [t EXCEPT !["order"] = Changed(t["order"], m.id)]
      BY <1>4 DEF WithOrder
    <2> DEFINE s == [t EXCEPT !["order"] = Changed(t["order"], m.id)]
    <2>2. Sound(s) /\ Grows(t, s)
      BY OrderChanged
    <2> HIDE DEF s
    <2>3. QED
      BY <2>1, <2>2 DEF s
  <1>5. QED
    BY <1>2, <1>3, <1>4

LEMMA DecayWritten ==
    ASSUME NEW m \in DecayRequests, NEW t, Sound(t)
    PROVE  Sound(WithDecay(m, t)) /\ Grows(t, WithDecay(m, t))
  <1>1. CASE m.id = None
    BY <1>1 DEF WithDecay, Grows
  <1>2. CASE m.id # None
    <2> DEFINE decayed == t["product"][m.id].decayed + 1
               products == [t["product"] EXCEPT ![m.id] = [t["product"][m.id] EXCEPT !["decayed"] = decayed]]
               r == [t EXCEPT !["product"] = products]
               table == Created(r["audit"], m.new, [product |-> m.id])
    <2>1. m.new \in Ids
      BY DecayRequestFacts
    <2>2. TableOK("product", t["product"])
      BY TableOf, ColumnFacts DEF Sound
    <2>3. WithDecay(m, t) = [r EXCEPT !["audit"] = table]
      BY <1>2 DEF WithDecay
    <2> HIDE DEF decayed
    <2>4. TableOK("product", products)
      BY <2>2, ColumnChangedOK
    <2> HIDE DEF products
    <2>5. Sound(r) /\ Grows(t, r)
      BY <2>4, PlainWritten
    <2>6. TableOK("audit", r["audit"])
      BY <2>5, TableOf, ColumnFacts DEF Sound
    <2>7. IsRow([product |-> m.id], "audit")
      BY ColumnFacts DEF IsRow
    <2> HIDE DEF r
    <2>8. TableOK("audit", table)
      BY <2>1, <2>6, <2>7, CreatedOK
    <2> HIDE DEF table
    <2>9. Sound([r EXCEPT !["audit"] = table]) /\ Grows(r, [r EXCEPT !["audit"] = table])
      BY <2>5, <2>8, PlainWritten
    <2>10. QED
      BY <2>3, <2>5, <2>9, GrowsOn
  <1>3. QED
    BY <1>1, <1>2

\* Every change leaves sound tables sound, and keeps what Grows says.
LEMMA ChangesSound ==
    ASSUME NEW m \in Requests, NEW u, NEW t, Sound(t), Backed(m, t), Enforced(m, t)
    PROVE  Sound(Written(m, u, t)) /\ Grows(t, Written(m, u, t))
  <1>1. \/ m \in UserRequests \/ m \in ProductRequests \/ m \in SupplierRequests \/ m \in WarehouseRequests
        \/ m \in LocationRequests \/ m \in StockRequests \/ m \in OrderRequests \/ m \in DecayRequests
    BY DEF Requests
  <1>2. QED
    BY <1>1, WrittenByKind, UsersWritten, ProductsWritten, SuppliersWritten, WarehousesWritten,
       LocationsWritten, StockWritten, OrdersWritten, DecayWritten

-----------------------------------------------------------------------------
(* What a page asks for and offers is admitted and read *)

\* Who looks at what.
Seated ==
    /\ viewer \in Viewers
    /\ path \in DOMAIN Gate /\ viewer.role \in Gate[path]
    /\ query \in Page(path, viewer.role).queries

LEMMA Seats ==
    ASSUME [Next]_vars
    PROVE  viewer' = viewer /\ path' = path /\ query' = query
  <1>1. CASE UNCHANGED vars
    BY <1>1 DEF vars
  <1>2. CASE Next
    BY <1>2 DEF Next, OpenPage, LeavePage, LoadMore, Serve, Receive, Fail, Ask, WriteOwn, Confirm, Refused,
       AskOther, WriteOther
  <1>3. QED
    BY <1>1, <1>2

LEMMA AlwaysSeated == Spec => []Seated
  <1>1. Init => Seated
    BY DEF Init, Seated
  <1>2. Seated /\ [Next]_vars => Seated'
    BY Seats DEF Seated
  <1>3. QED
    BY <1>1, <1>2, PTL DEF Spec

IsEntry(e) == e = [answer |-> e.answer, read |-> e.read, stale |-> e.stale, failed |-> e.failed]
States == {"idle", "sent", "forbidden", "missing", "answered"}

\* The cache and the requests, and the change of the viewer's own, as far as types go.
Typed ==
    /\ after \in Cursors
    /\ DOMAIN cache = Cursors /\ \A c \in Cursors : IsEntry(cache[c])
    /\ DOMAIN fetch = Cursors
    /\ \A c \in Cursors : fetch[c].at \in States /\ (fetch[c].at = "idle" => fetch[c] = Idle)

\* What one step may do to the entry of a cursor and to the request for it.
Same(e, f) == e.answer = f.answer /\ e.read = f.read /\ e.failed = f.failed
Steps(c) ==
    \/ /\ \/ Same(cache'[c], cache[c])
          \/ fetch[c] = Idle /\ cache'[c] = NoEntry /\ fetch'[c] = Sent
       /\ fetch'[c] = fetch[c] \/ (fetch'[c] = Sent /\ c \in {0, after, after'})
    \/ Serve(c) \/ Receive(c) \/ Fail(c)

LEMMA NeedsFacts ==
    ASSUME NEW c \in Cursors, NEW entries, NEW requests, Needs(c, entries, requests),
           DOMAIN entries = Cursors, DOMAIN requests = Cursors,
           \A d \in Cursors : IsEntry(entries[d])
    PROVE  /\ DOMAIN cache' = Cursors /\ DOMAIN fetch' = Cursors
           /\ \A d \in Cursors \ {c} : cache'[d] = entries[d] /\ fetch'[d] = requests[d]
           /\ \/ cache'[c] = entries[c]
              \/ requests[c] = Idle /\ cache'[c] = NoEntry
           /\ \/ fetch'[c] = requests[c]
              \/ requests[c] = Idle /\ fetch'[c] = Sent
           /\ requests[c] = Idle /\ cache'[c].answer = None => fetch'[c] = Sent
  <1>1. PICK entry \in {entries[c]} \union When(requests[c] = Idle, {NoEntry}), aged \in BOOLEAN :
            /\ cache' = [entries EXCEPT ![c] = entry]
            /\ fetch' = IF requests[c] = Idle /\ (entry.answer = None \/ entry.stale \/ aged)
                        THEN [requests EXCEPT ![c] = Sent] ELSE requests
    BY DEF Needs
  <1>2. entry = entries[c] \/ (requests[c] = Idle /\ entry = NoEntry)
    BY DEF When
  <1>3. QED
    BY <1>1, <1>2

LEMMA InvalidatedFacts ==
    ASSUME Typed
    PROVE  /\ DOMAIN Invalidated = Cursors
           /\ \A d \in Cursors : IsEntry(Invalidated[d]) /\ Same(Invalidated[d], cache[d])
  BY DEF Typed, Invalidated, IsEntry, Same

LEMMA AskedFacts ==
    ASSUME Typed, NEW c \in Cursors
    PROVE  /\ DOMAIN Asked(c) = Cursors
           /\ \A d \in Cursors : Asked(c)[d] = fetch[d] \/ (d = c /\ Asked(c)[d] = Sent)
           /\ Asked(c)[c] # Idle
           /\ cache[c].answer # None => Asked(c)[c] = Sent
  BY DEF Typed, Asked, Idle, Sent

LEMMA RefreshedFacts ==
    ASSUME Typed, NEW m
    PROVE  /\ DOMAIN Refreshed(m) = Cursors
           /\ \A d \in Cursors : Refreshed(m)[d] = fetch[d] \/ (d = after /\ Refreshed(m)[d] = Sent)
  BY AskedFacts DEF Refreshed, Typed

LEMMA NoEntryFacts == IsEntry(NoEntry) /\ NoEntry.answer = None /\ NoEntry.read = 0
  BY DEF IsEntry, NoEntry

LEMMA StateFacts == /\ Idle.at = "idle" /\ Sent.at = "sent" /\ Idle # Sent
  <1>1. Idle.at = "idle" /\ Sent.at = "sent"
    BY DEF Idle, Sent
  <1>2. QED
    BY <1>1

-----------------------------------------------------------------------------
(* What is checked is backed, and the tables stay sound *)

LEMMA CheckedBacked ==
    ASSUME NEW m \in Requests, NEW u, NEW t, Checked(m, u, t)
    PROVE  Backed(m, t)
  <1>1. CASE m.route \in {"POST /locations", "PATCH /locations/:id"}
    <2>1. m \in LocationRequests
      BY <1>1, UserRequestFacts, ProductRequestFacts, SupplierRequestFacts, WarehouseRequestFacts,
         StockRequestFacts, OrderRequestFacts, DecayRequestFacts
         DEF Requests, TenantRoutes, StockChanges, OrderChanges
    <2>2. m.route \in OfLocations
      BY <2>1 DEF OfLocations, RoutesOf
    <2>3. LocationChecked(m, u, t)
      BY <1>1, <2>2, KindsApart DEF Checked, TenantRoutes, StockChanges, OrderChanges
    <2>4. QED
      BY <1>1, <2>3 DEF Backed, LocationChecked, Scoped
  <1>2. CASE m.route = "POST /purchase-orders"
    <2>1. m \in OrderRequests
      BY <1>2, UserRequestFacts, ProductRequestFacts, SupplierRequestFacts, WarehouseRequestFacts,
         StockRequestFacts, LocationRequestFacts, DecayRequestFacts
         DEF Requests, TenantRoutes, StockChanges, OrderChanges
    <2>2. m.route \in OfOrders
      BY <2>1 DEF OfOrders, RoutesOf
    <2>3. OrderChecked(m, u, t)
      BY <1>2, <2>2, KindsApart DEF Checked, TenantRoutes, StockChanges, OrderChanges
    <2>4. QED
      BY <1>2, <2>3 DEF Backed, OrderChecked, Scoped
  <1>3. CASE m.route \in {"POST /inventory/transfer", "POST /inventory/sell"}
    <2>1. m \in StockRequests
      BY <1>3, UserRequestFacts, ProductRequestFacts, SupplierRequestFacts, WarehouseRequestFacts,
         OrderRequestFacts, LocationRequestFacts, DecayRequestFacts
         DEF Requests, TenantRoutes, StockChanges, OrderChanges
    <2>2. m.route \in OfStock
      BY <2>1 DEF OfStock, RoutesOf
    <2>3. StockChecked(m, u, t)
      BY <1>3, <2>2, KindsApart DEF Checked, TenantRoutes, StockChanges, OrderChanges
    <2>4. m.of # None
      BY <1>3, <2>1, StockRequestFacts, IdsAssumption
    <2>5. PICK i \in DOMAIN t.inventory : t.inventory[i].location = m.of
      BY <2>3, <2>4 DEF StockChecked, StockAt
    <2>6. QED
      BY <1>3, <2>5 DEF Backed, StockedPlaces
  <1>4. QED
    BY <1>1, <1>2, <1>3 DEF Backed

\* The tables are sound, and a change under way passed the checks of its handler.
Standing ==
    /\ Sound(db)
    /\ own # Idle => own.request \in Requests
    /\ own.at = "checked" => Backed(own.request, db)
    /\ other.at = "checked" => other.request \in Requests /\ Backed(other.request, db)

LEMMA WritesSound ==
    ASSUME NEW m \in Requests, NEW u, Writes(m, u), Sound(db), Backed(m, db)
    PROVE  Sound(db') /\ Grows(db, db')
  BY ChangesSound DEF Writes

LEMMA GrowsSame == ASSUME NEW t PROVE Grows(t, t)
  BY DEF Grows

LEMMA StandingStep ==
    ASSUME Standing, [Next]_vars, Seated
    PROVE  Standing' /\ Grows(db, db')
  <1>0. /\ viewer.role \in Roles
        /\ \A r \in DOMAIN Wanted : \A m \in Wanted[r] : m \in Requests
        /\ \A m \in Meanwhile[viewer.role] : m \in Requests
    BY ViewersAssumption, ChangesAssumption DEF Seated
  <1>1. ASSUME UNCHANGED <<db, own, other>>
        PROVE  Standing' /\ Grows(db, db')
    BY <1>1, GrowsSame DEF Standing, Sound, Backed
  <1>2. ASSUME UNCHANGED <<db, other>>, own' = Idle
        PROVE  Standing' /\ Grows(db, db')
    BY <1>2, GrowsSame, StateFacts DEF Standing, Sound, Backed
  <1>3. ASSUME NEW r \in DOMAIN Wanted, NEW m \in Wanted[r], Ask(m)
        PROVE  Standing' /\ Grows(db, db')
    <2>1. db' = db /\ other' = other
      BY <1>3 DEF Ask
    <2>2. \/ own' = [at |-> "forbidden", request |-> m]
          \/ Checked(m, viewer, db) /\ own' = [at |-> "checked", request |-> m]
      BY <1>3 DEF Ask
    <2>3. own'.request = m /\ (own'.at = "checked" => Backed(m, db))
      BY <1>0, <2>2, CheckedBacked
    <2>4. QED
      BY <1>0, <2>1, <2>3, GrowsSame DEF Standing, Sound, Backed
  <1>4. CASE WriteOwn
    <2>1. own.at = "checked" /\ other' = other /\ own'.at = "written" /\ own'.request = own.request
      BY <1>4 DEF WriteOwn
    <2>2. own.request \in Requests /\ Backed(own.request, db) /\ Sound(db)
      BY <2>1, StateFacts DEF Standing
    <2>3. Sound(db') /\ Grows(db, db')
      BY <1>4, <2>2, WritesSound DEF WriteOwn
    <2>4. other.at = "checked" => Backed(other.request, db')
      BY <2>3, BackedStays DEF Standing
    <2>5. QED
      BY <2>1, <2>2, <2>3, <2>4 DEF Standing, Sound, Backed
  <1>5. ASSUME NEW m \in Meanwhile[viewer.role], NEW u, AskOther(m, u)
        PROVE  Standing' /\ Grows(db, db')
    <2>1. db' = db /\ own' = own /\ other'.request = m /\ Checked(m, u, db)
      BY <1>5 DEF AskOther
    <2>2. m \in Requests /\ Backed(m, db)
      BY <1>0, <2>1, CheckedBacked
    <2>3. QED
      BY <2>1, <2>2, GrowsSame DEF Standing, Sound, Backed
  <1>6. CASE WriteOther
    <2>1. other.at = "checked" /\ other' = Idle /\ own' = own
      BY <1>6 DEF WriteOther
    <2>2. Sound(db') /\ Grows(db, db')
      BY <1>6, <2>1, WritesSound DEF WriteOther, Standing
    <2>3. own.at = "checked" => Backed(own.request, db')
      BY <2>2, BackedStays DEF Standing
    <2>4. QED
      BY <2>1, <2>2, <2>3, StateFacts DEF Standing, Sound, Backed
  <1>7. CASE Confirm \/ Refused
    <2>1. UNCHANGED <<db, other>> /\ own' = Idle
      BY <1>7 DEF Confirm, Refused
    <2>2. QED
      BY <1>2, <2>1
  <1>8. CASE UNCHANGED vars \/ OpenPage \/ LeavePage \/ LoadMore \/ \E c \in Cursors : Serve(c) \/ Receive(c) \/ Fail(c)
    <2>1. UNCHANGED <<db, own, other>>
      BY <1>8 DEF vars, server, OpenPage, LeavePage, LoadMore, Serve, Receive, Fail
    <2>2. QED
      BY <1>1, <2>1
  <1>9. QED
    BY <1>3, <1>4, <1>5, <1>6, <1>7, <1>8 DEF Next

LEMMA AlwaysStanding == Spec => [](Seated /\ Standing)
  <1>1. Init => Seated /\ Standing
    BY StartAssumption, StateFacts DEF Init, Seated, Standing, Sound
  <1>2. Seated /\ Standing /\ [Next]_vars => (Seated /\ Standing)'
    BY Seats, StandingStep DEF Seated
  <1>3. QED
    BY <1>1, <1>2, PTL DEF Spec

\* No step changes or removes a movement: the goods a place gets between the check of
\* a delete and the delete keep the place (the foreign key of the stock), and the
\* places a movement names had stock when it was made.
THEOREM HistoryIsKept == Spec => HistoryKept
  <1> DEFINE Keeps == \A i \in DOMAIN db.movement : i \in DOMAIN db'.movement /\ db'.movement[i] = db.movement[i]
  <1>1. Seated /\ Standing /\ [Next]_vars => [Keeps]_vars
    BY StandingStep DEF Grows
  <1>2. QED
    BY <1>1, AlwaysStanding, PTL DEF Spec, HistoryKept

-----------------------------------------------------------------------------
(* Types of the client *)

\* The routes that lists are read from.
ListRoutes ==
    {"GET /products", "GET /suppliers", "GET /warehouses", "GET /locations", "GET /inventory",
     "GET /inventory/:id", "GET /stock-movements", "GET /purchase-orders", "GET /users", "GET /admin/tenants",
     "GET /admin/tenants/:id", "GET /reports/dead-stock", "GET /reports/decay-history",
     "GET /reports/low-stock", "GET /reports/reorder-forecast", "GET /jobs/:id"}

LEMMA QueryRoutes ==
    ASSUME NEW p \in DOMAIN Gate, NEW role, NEW q \in Page(p, role).queries
    PROVE  q.route \in ListRoutes
  <1>1. CASE p = "/dashboard"
    <2>1. q \in DashboardPage(role).queries
      BY <1>1, PageFacts
    <2>2. QED
      BY <2>1, DashboardQueries DEF ListRoutes
  <1>2. CASE p = "/companies"
    <2>1. q \in CompaniesPage(role).queries
      BY <1>2, PageFacts
    <2>2. QED
      BY <2>1, CompaniesQueries DEF ListRoutes
  <1>3. CASE p = "/users"
    <2>1. q \in UsersPage(role).queries
      BY <1>3, PageFacts
    <2>2. QED
      BY <2>1, UsersQueries DEF ListRoutes
  <1>4. CASE p = "/warehouses"
    <2>1. q \in WarehousesPage(role).queries
      BY <1>4, PageFacts
    <2>2. QED
      BY <2>1, WarehousesQueries DEF ListRoutes
  <1>5. CASE p = "/products"
    <2>1. q \in ProductsPage(role).queries
      BY <1>5, PageFacts
    <2>2. QED
      BY <2>1, ProductsQueries DEF ListRoutes
  <1>6. CASE p = "/inventory"
    <2>1. q \in InventoryPage(role).queries
      BY <1>6, PageFacts
    <2>2. QED
      BY <2>1, InventoryQueries DEF ListRoutes
  <1>7. CASE p = "/movements"
    <2>1. q \in MovementsPage(role).queries
      BY <1>7, PageFacts
    <2>2. QED
      BY <2>1, MovementsQueries DEF ListRoutes
  <1>8. CASE p = "/orders"
    <2>1. q \in OrdersPage(role).queries
      BY <1>8, PageFacts
    <2>2. QED
      BY <2>1, OrdersQueries DEF ListRoutes
  <1>9. CASE p = "/reports"
    <2>1. q \in ReportsPage(role).queries
      BY <1>9, PageFacts
    <2>2. QED
      BY <2>1, ReportsQueries DEF ListRoutes
  <1>10. CASE p = "/profile"
    <2>1. q \in ProfilePage(role).queries
      BY <1>10, PageFacts
    <2>2. QED
      BY <2>1 DEF ProfilePage
  <1>11. QED
    BY <1>1, <1>2, <1>3, <1>4, <1>5, <1>6, <1>7, <1>8, <1>9, <1>10, GateFacts DEF Paths

LEMMA TablesOfIds ==
    ASSUME NEW t, Shaped(t), NEW name \in DOMAIN Columns
    PROVE  DOMAIN t[name] \subseteq Ids
  BY ShapedTables DEF TableOK

LEMMA RowsRanked ==
    ASSUME NEW q, q.route \in ListRoutes, NEW u, NEW t, Shaped(t)
    PROVE  Rows(q, u, t) \subseteq RankedIn(q, t)
  <1>1. /\ DOMAIN t.product \subseteq Ids /\ DOMAIN t.supplier \subseteq Ids
        /\ DOMAIN t.warehouse \subseteq Ids /\ DOMAIN t.location \subseteq Ids
        /\ DOMAIN t.inventory \subseteq Ids /\ DOMAIN t.order \subseteq Ids
        /\ DOMAIN t.user \subseteq Ids /\ DOMAIN t.tenant \subseteq Ids /\ DOMAIN t.audit \subseteq Ids
    BY TablesOfIds, ColumnFacts
  <1>2. CASE q.route \in {"GET /products", "GET /suppliers", "GET /warehouses", "GET /locations", "GET /inventory"}
    BY <1>1, <1>2 DEF Rows, RankedIn, listProducts, listSuppliers, listWarehouses, listLocations, listInventory,
       Scoped, WarehousesOf, LocationsOf, InventoryOf
  <1>3. CASE q.route \in {"GET /reports/low-stock", "GET /reports/reorder-forecast", "GET /inventory/:id",
                          "GET /reports/dead-stock"}
    BY <1>1, <1>3 DEF Rows, RankedIn, listInventory, getDeadStockReport, InventoryOf
  <1>4. CASE q.route = "GET /stock-movements"
    BY <1>4 DEF Rows, RankedIn, listStockMovements, OfProducts
  <1>5. CASE q.route \in {"GET /purchase-orders", "GET /users", "GET /admin/tenants", "GET /admin/tenants/:id",
                          "GET /reports/decay-history", "GET /jobs/:id"}
    BY <1>1, <1>5 DEF Rows, RankedIn, listPurchaseOrders, listUsers, listTenants, OfProducts, Scoped
  <1>6. QED
    BY <1>2, <1>3, <1>4, <1>5 DEF ListRoutes

Continues(a) == query.walks => a.next \in Ids \union {None}

\* What is kept of answers: those that follow lead to rows.
Followed ==
    \A c \in Cursors : /\ cache[c].answer # None => Continues(cache[c].answer)
                       /\ fetch[c].at = "answered" => Continues(fetch[c].answer)

LEMMA AnswerContinues ==
    ASSUME Seated, Standing, NEW c
    PROVE  Continues(Answer(query, viewer, c, Limit, db))
  <1> SUFFICES ASSUME query.walks
               PROVE  Answer(query, viewer, c, Limit, db).next \in Ids \union {None}
    BY DEF Continues
  <1>1. Limit \in Nat \ {0}
    BY PageSizeAssumption DEF Limit
  <1>2. query.route \in ListRoutes
    BY QueryRoutes DEF Seated
  <1>3. Rows(query, viewer, db) \subseteq RankedIn(query, db) /\ Shaped(db)
    BY <1>2, RowsRanked DEF Standing, Sound
  <1>4. RankedIn(query, db) \subseteq Ids
    BY <1>3, RankedFinite
  <1>5. QED
    BY <1>1, <1>3, <1>4, AnswerPages

LEMMA SameIs == ASSUME NEW e PROVE Same(e, e)
  BY DEF Same

LEMMA NeededSteps ==
    ASSUME Typed, NEW c \in Cursors, NEW entries, NEW requests, Needs(c, entries, requests),
           DOMAIN entries = Cursors, DOMAIN requests = Cursors,
           \A d \in Cursors : IsEntry(entries[d]) /\ Same(entries[d], cache[d]),
           \A d \in Cursors : requests[d] = fetch[d] \/ (d = after /\ requests[d] = Sent),
           c \in {0, after'}
    PROVE  /\ \A d \in Cursors : Steps(d)
           /\ DOMAIN cache' = Cursors /\ \A d \in Cursors : IsEntry(cache'[d])
           /\ DOMAIN fetch' = Cursors
  <1>1. /\ DOMAIN cache' = Cursors /\ DOMAIN fetch' = Cursors
        /\ \A d \in Cursors \ {c} : cache'[d] = entries[d] /\ fetch'[d] = requests[d]
        /\ \/ cache'[c] = entries[c]
           \/ requests[c] = Idle /\ cache'[c] = NoEntry
        /\ \/ fetch'[c] = requests[c]
           \/ requests[c] = Idle /\ fetch'[c] = Sent
        /\ requests[c] = Idle /\ cache'[c].answer = None => fetch'[c] = Sent
    BY NeedsFacts
  <1>2. ASSUME NEW d \in Cursors \ {c}
        PROVE  Steps(d) /\ IsEntry(cache'[d])
    BY <1>1 DEF Steps
  <1>3. IsEntry(cache'[c])
    BY <1>1, NoEntryFacts
  <1>4. Steps(c)
    <2>1. requests[c] = Idle => fetch[c] = Idle
      BY StateFacts
    <2>2. fetch'[c] = fetch[c] \/ (fetch'[c] = Sent /\ c \in {0, after, after'})
      BY <1>1, <2>1
    <2>3. CASE cache'[c] = entries[c]
      BY <2>2, <2>3 DEF Steps
    <2>4. CASE requests[c] = Idle /\ cache'[c] = NoEntry
      BY <1>1, <2>1, <2>2, <2>4, NoEntryFacts DEF Steps
    <2>5. QED
      BY <1>1, <2>3, <2>4
  <1>5. QED
    BY <1>1, <1>2, <1>3, <1>4

LEMMA TypedRequests ==
    ASSUME Typed, \A d \in Cursors : Steps(d), NEW d \in Cursors
    PROVE  fetch'[d].at \in States /\ (fetch'[d].at = "idle" => fetch'[d] = Idle)
  <1>1. CASE fetch'[d] = fetch[d] \/ fetch'[d] = Sent
    BY <1>1, StateFacts DEF Typed, States
  <1>2. CASE Serve(d)
    <2>1. \/ fetch'[d] = [at |-> "forbidden"]
          \/ fetch'[d] = [at |-> "missing"]
          \/ fetch'[d] = [at |-> "answered", read |-> Len(history), answer |-> Answer(query, viewer, d, Limit, db)]
      BY <1>2 DEF Serve, Typed
    <2>2. fetch'[d].at \in {"forbidden", "missing", "answered"}
      BY <2>1
    <2>3. QED
      BY <2>2 DEF States
  <1>3. CASE Receive(d) \/ Fail(d)
    <2>1. fetch'[d] = Idle
      BY <1>3 DEF Receive, Fail, Typed
    <2>2. QED
      BY <2>1, StateFacts DEF States
  <1>4. QED
    BY <1>1, <1>2, <1>3 DEF Steps

\* Every action of the client and its surroundings does one of these to each entry.
LEMMA ClientSteps ==
    ASSUME Typed, Followed, [Next]_vars
    PROVE  Typed' /\ \A d \in Cursors : Steps(d)
  <1> SUFFICES /\ after' \in Cursors
               /\ DOMAIN cache' = Cursors /\ \A d \in Cursors : IsEntry(cache'[d])
               /\ DOMAIN fetch' = Cursors /\ \A d \in Cursors : Steps(d)
    BY TypedRequests DEF Typed, IsEntry
  <1>1. CASE UNCHANGED <<after, cache, fetch>>
    BY <1>1, SameIs DEF Typed, Steps
  <1>2. CASE OpenPage
    <2>1. Needs(0, cache, fetch) /\ after' = 0 /\ 0 \in Cursors
      BY <1>2 DEF OpenPage, Cursors
    <2>2. QED
      BY <2>1, NeededSteps, SameIs DEF Typed
  <1>3. CASE LoadMore
    <2>1. Needs(after', cache, fetch) /\ after' = cache[after].answer.next /\ query.walks
          /\ cache[after].answer # None /\ cache[after].answer.next # None
      BY <1>3 DEF LoadMore, Displayed, HasData, Entry
    <2>2. after' \in Cursors
      BY <2>1 DEF Followed, Continues, Typed, Cursors
    <2>3. QED
      BY <2>1, <2>2, NeededSteps, SameIs DEF Typed
  <1>4. ASSUME NEW c \in Cursors, Serve(c) \/ Receive(c) \/ Fail(c)
        PROVE  /\ after' \in Cursors
               /\ DOMAIN cache' = Cursors /\ \A d \in Cursors : IsEntry(cache'[d])
               /\ DOMAIN fetch' = Cursors /\ \A d \in Cursors : Steps(d)
    <2>1. after' = after
      BY <1>4 DEF Serve, Receive, Fail, page
    <2>2. /\ DOMAIN cache' = Cursors /\ DOMAIN fetch' = Cursors
          /\ \A d \in Cursors \ {c} : cache'[d] = cache[d] /\ fetch'[d] = fetch[d]
      BY <1>4 DEF Serve, Receive, Fail, Typed
    <2>3. IsEntry(cache'[c])
      BY <1>4 DEF Serve, Receive, Fail, Typed, IsEntry
    <2>4. QED
      BY <1>4, <2>1, <2>2, <2>3, SameIs DEF Typed, Steps
  <1>5. CASE Confirm
    <2> DEFINE m == own.request
               entries == IF Matches(m) THEN Invalidated ELSE cache
               back == shown /\ Rewinds(path) /\ after # 0
    <2>1. IF back THEN Needs(0, entries, Refreshed(m)) /\ after' = 0
          ELSE cache' = entries /\ fetch' = Refreshed(m) /\ after' = after
      BY <1>5 DEF Confirm
    <2>2. DOMAIN entries = Cursors /\ \A d \in Cursors : IsEntry(entries[d]) /\ Same(entries[d], cache[d])
      BY InvalidatedFacts, SameIs DEF Typed
    <2>3. DOMAIN Refreshed(m) = Cursors /\ \A d \in Cursors : Refreshed(m)[d] = fetch[d] \/ (d = after /\ Refreshed(m)[d] = Sent)
      BY RefreshedFacts
    <2>4. 0 \in Cursors
      BY DEF Cursors
    <2> HIDE DEF entries, back, m
    <2>5. CASE back
      BY <2>1, <2>2, <2>3, <2>4, <2>5, NeededSteps
    <2>6. CASE ~back
      BY <2>1, <2>2, <2>3, <2>6 DEF Steps, Typed
    <2>7. QED
      BY <2>5, <2>6
  <1>6. CASE UNCHANGED vars \/ LeavePage \/ WriteOwn \/ Refused \/ WriteOther
             \/ \E m : Ask(m) \/ \E u : AskOther(m, u)
    <2>1. UNCHANGED <<after, cache, fetch>>
      BY <1>6 DEF vars, page, LeavePage, WriteOwn, Refused, WriteOther, Ask, AskOther
    <2>2. QED
      BY <1>1, <2>1
  <1>7. QED
    BY <1>2, <1>3, <1>4, <1>5, <1>6 DEF Next

LEMMA FollowedStep ==
    ASSUME Typed, Followed, Seated, Standing, [Next]_vars
    PROVE  Followed'
  <1> SUFFICES ASSUME NEW c \in Cursors
               PROVE  /\ cache'[c].answer # None => Continues(cache'[c].answer)
                      /\ fetch'[c].at = "answered" => Continues(fetch'[c].answer)
    BY Seats DEF Followed, Continues
  <1>1. /\ cache[c].answer # None => Continues(cache[c].answer)
        /\ fetch[c].at = "answered" => Continues(fetch[c].answer)
    BY DEF Followed
  <1>2. CASE /\ \/ Same(cache'[c], cache[c])
                \/ fetch[c] = Idle /\ cache'[c] = NoEntry /\ fetch'[c] = Sent
             /\ fetch'[c] = fetch[c] \/ fetch'[c] = Sent
    BY <1>1, <1>2, NoEntryFacts, StateFacts DEF Same
  <1>3. CASE Serve(c)
    <2>1. cache' = cache
      BY <1>3 DEF Serve
    <2>2. \/ fetch'[c] = [at |-> "forbidden"]
          \/ fetch'[c] = [at |-> "missing"]
          \/ fetch'[c] = [at |-> "answered", read |-> Len(history), answer |-> Answer(query, viewer, c, Limit, db)]
      BY <1>3 DEF Serve, Typed
    <2>3. fetch'[c].at = "answered" => fetch'[c].answer = Answer(query, viewer, c, Limit, db)
      BY <2>2
    <2>4. QED
      BY <1>1, <2>1, <2>3, AnswerContinues
  <1>4. CASE Receive(c)
    <2>1. cache'[c].answer = fetch[c].answer /\ fetch'[c] = Idle /\ fetch[c].at = "answered"
      BY <1>4 DEF Receive, Typed
    <2>2. QED
      BY <1>1, <2>1, StateFacts
  <1>5. CASE Fail(c)
    <2>1. cache'[c].answer = cache[c].answer /\ fetch'[c] = Idle
      BY <1>5 DEF Fail, Typed, IsEntry
    <2>2. QED
      BY <1>1, <2>1, StateFacts
  <1>6. QED
    BY <1>2, <1>3, <1>4, <1>5, ClientSteps DEF Steps

Client == Seated /\ Standing /\ Typed /\ Followed

LEMMA AlwaysClient == Spec => []Client
  <1>1. Init => Typed /\ Followed
    <2> SUFFICES ASSUME Init PROVE Typed /\ Followed
      OBVIOUS
    <2>1. \A c \in Cursors : cache[c] = NoEntry /\ fetch[c] = Idle
      BY DEF Init
    <2>2. after \in Cursors /\ DOMAIN cache = Cursors /\ DOMAIN fetch = Cursors
      BY DEF Init, Cursors
    <2>3. QED
      BY <2>1, <2>2, StateFacts, NoEntryFacts DEF Typed, Followed, States
  <1>2. Client /\ [Next]_vars => Typed' /\ Followed'
    BY ClientSteps, FollowedStep DEF Client
  <1>3. QED
    BY <1>1, <1>2, AlwaysStanding, PTL DEF Spec, Client

-----------------------------------------------------------------------------
(* Pages and the API fit *)

\* Only who is not admitted is turned away, and only what a page offers is asked for.
Admits ==
    /\ \A c \in Cursors : fetch[c].at = "forbidden" => viewer.role \notin Allowed[query.route]
    /\ own # Idle => own.request.route \in Page(path, viewer.role).offers
    /\ own.at = "forbidden" => viewer.role \notin Allowed[own.request.route]

LEMMA AdmitsStep ==
    ASSUME Client, Admits, [Next]_vars
    PROVE  Admits'
  <1>0. viewer' = viewer /\ path' = path /\ query' = query
    BY Seats
  <1>1. ASSUME NEW c \in Cursors, fetch'[c].at = "forbidden"
        PROVE  viewer.role \notin Allowed[query.route]
    <2>1. CASE fetch'[c] = fetch[c] \/ fetch'[c] = Sent
      BY <1>1, <2>1, StateFacts DEF Admits
    <2>2. CASE Serve(c)
      <3>1. viewer.role \in Allowed[query.route] =>
                \/ fetch'[c] = [at |-> "missing"]
                \/ fetch'[c] = [at |-> "answered", read |-> Len(history), answer |-> Answer(query, viewer, c, Limit, db)]
        BY <2>2 DEF Serve, Client, Typed
      <3>2. QED
        BY <1>1, <3>1
    <2>3. CASE Receive(c) \/ Fail(c)
      <3>1. fetch'[c] = Idle
        BY <2>3 DEF Receive, Fail, Client, Typed
      <3>2. QED
        BY <1>1, <3>1, StateFacts
    <2>4. QED
      BY <2>1, <2>2, <2>3, ClientSteps DEF Steps, Client
  <1>2. /\ own' # Idle => own'.request.route \in Page(path, viewer.role).offers
        /\ own'.at = "forbidden" => viewer.role \notin Allowed[own'.request.route]
    <2>1. ASSUME NEW r \in Page(path, viewer.role).offers \intersect DOMAIN Wanted, NEW m \in Wanted[r], Ask(m)
          PROVE  /\ own'.request.route \in Page(path, viewer.role).offers
                 /\ own'.at = "forbidden" => viewer.role \notin Allowed[own'.request.route]
      <3>1. m.route = r
        BY ChangesAssumption
      <3>2. \/ own' = [at |-> "forbidden", request |-> m] /\ viewer.role \notin Allowed[m.route]
            \/ own' = [at |-> "checked", request |-> m]
        BY <2>1 DEF Ask
      <3>3. own'.request = m /\ (own'.at = "forbidden" => viewer.role \notin Allowed[m.route])
        BY <3>2
      <3>4. QED
        BY <3>1, <3>3
    <2>2. CASE WriteOwn
      <3>1. own.at = "checked" /\ own'.request = own.request /\ own'.at = "written"
        BY <2>2 DEF WriteOwn
      <3>2. own # Idle
        BY <3>1, StateFacts
      <3>3. QED
        BY <3>1, <3>2 DEF Admits
    <2>3. CASE own' = Idle
      BY <2>3, StateFacts
    <2>4. CASE own' = own
      BY <2>4 DEF Admits
    <2>5. CASE UNCHANGED vars \/ OpenPage \/ LeavePage \/ LoadMore \/ WriteOther \/ Confirm \/ Refused
               \/ (\E c \in Cursors : Serve(c) \/ Receive(c) \/ Fail(c)) \/ (\E m, u : AskOther(m, u))
      <3>1. own' = own \/ own' = Idle
        BY <2>5 DEF vars, server, OpenPage, LeavePage, LoadMore, WriteOther, Confirm, Refused, Serve, Receive, Fail,
           AskOther
      <3>2. QED
        BY <3>1, <2>3, <2>4
    <2>6. QED
      BY <2>1, <2>2, <2>5 DEF Next
  <1>3. QED
    BY <1>0, <1>1, <1>2 DEF Admits

\* What a page asks for, and what it offers, the API admits its viewer's role to, but
\* for the buttons of the orders page and the field for the id of a job; and the
\* client reads each answer in the form the API gives it.
THEOREM PagesAlwaysFit == Spec => []PagesFitApi
  <1>1. Init => Admits
    <2> SUFFICES ASSUME Init PROVE Admits
      OBVIOUS
    <2>1. own = Idle /\ \A c \in Cursors : fetch[c] = Idle
      BY DEF Init
    <2>2. QED
      BY <2>1, StateFacts DEF Admits
  <1>2. Client /\ Admits /\ [Next]_vars => Admits'
    BY AdmitsStep
  <1>3. Client /\ Admits => PagesFitApi
    <2> SUFFICES ASSUME Client, Admits
                 PROVE  PagesFitApi
      OBVIOUS
    <2>1. /\ path \in DOMAIN Gate /\ viewer.role \in Roles /\ viewer.role \in Gate[path]
          /\ query \in Page(path, viewer.role).queries
      BY ViewersAssumption DEF Client, Seated
    <2>2. /\ viewer.role \in Allowed[query.route] \/ (path = "/reports" /\ query.route = "GET /jobs/:id")
          /\ Reads(query.route, AnswerOf(query.route))
          /\ query.walks => AnswerOf(query.route) = "page"
      BY <2>1, QueriesFit
    <2>3. <<path, query.route>> \notin Unguarded => \A c \in Cursors : fetch[c].at # "forbidden"
      BY <2>2 DEF Admits, Unguarded
    <2>4. own # Idle => /\ path = "/orders" \/ viewer.role \in Allowed[own.request.route]
                        /\ Reads(own.request.route, AnswerOf(own.request.route))
      BY <2>1, OffersFit DEF Admits
    <2>5. own.at = "forbidden" => <<path, own.request.route>> \in Unguarded
      <3>1. ASSUME own.at = "forbidden"
            PROVE  <<path, own.request.route>> \in Unguarded
        <4>1. path = "/orders" /\ own.request.route \in Page(path, viewer.role).offers
          BY <2>4, <3>1, StateFacts DEF Admits
        <4>2. Page("/orders", viewer.role).offers = Page("/orders", "AUDITOR").offers
          BY PageFacts DEF OrdersPage
        <4>3. own.request.route \in Page("/orders", "AUDITOR").offers
          BY <4>1, <4>2
        <4>4. QED
          BY <4>1, <4>3 DEF Unguarded
      <3>2. QED
        BY <3>1
    <2>6. own.at = "written" => Reads(own.request.route, AnswerOf(own.request.route))
      BY <2>4, StateFacts
    <2>7. QED
      BY <2>2, <2>3, <2>5, <2>6 DEF PagesFitApi
  <1>4. QED
    BY <1>1, <1>2, <1>3, AlwaysClient, PTL DEF Spec

-----------------------------------------------------------------------------
(* The past: a list never loses what it was *)

IsSeq(s) == s \in Seq({s[k] : k \in DOMAIN s})

LEMMA AppendFacts ==
    ASSUME NEW s, IsSeq(s), NEW e
    PROVE  /\ IsSeq(Append(s, e))
           /\ Len(s) \in Nat /\ Len(Append(s, e)) = Len(s) + 1
           /\ DOMAIN s = 1..Len(s) /\ DOMAIN Append(s, e) = 1..(Len(s) + 1)
           /\ \A k \in 1..Len(s) : Append(s, e)[k] = s[k]
           /\ Append(s, e)[Len(s) + 1] = e
  <1> DEFINE S == {s[k] : k \in DOMAIN s}
             t == Append(s, e)
  <1>1. s \in Seq(S \union {e})
    BY DEF IsSeq
  <1> HIDE DEF S
  <1>2. /\ t \in Seq(S \union {e})
        /\ Len(s) \in Nat /\ Len(t) = Len(s) + 1
        /\ DOMAIN s = 1..Len(s) /\ DOMAIN t = 1..(Len(s) + 1)
        /\ \A k \in 1..Len(s) : t[k] = s[k]
        /\ t[Len(s) + 1] = e
    BY <1>1
  <1> HIDE DEF t
  <1>3. IsSeq(t)
    <2>1. Len(t) \in Nat /\ t = [k \in 1..Len(t) |-> t[k]] /\ DOMAIN t = 1..Len(t)
      BY <1>2
    <2>2. t \in [1..Len(t) -> {t[k] : k \in DOMAIN t}]
      BY <2>1
    <2>3. QED
      BY <2>1, <2>2 DEF IsSeq, Seq
  <1>4. QED
    BY <1>2, <1>3 DEF t

\* The list as it was after each change, the last as it is.
Kept ==
    /\ IsSeq(history) /\ history # <<>>
    /\ history[Len(history)] = List(db)
    /\ \A k \in 1..Len(history) : DOMAIN history[k] \subseteq RankedIn(query, db)

Longer(h, g) == Len(h) <= Len(g) /\ \A k \in 1..Len(h) : g[k] = h[k]

LEMMA KeptLength ==
    ASSUME Kept
    PROVE  Len(history) \in Nat \ {0} /\ DOMAIN history = 1..Len(history)
  BY DEF Kept, IsSeq

\* A step writes, and adds a list to the past, or leaves the tables and the past.
LEMMA ServerSteps ==
    ASSUME [Next]_vars
    PROVE  \/ UNCHANGED <<db, history>>
           \/ history' = Append(history, List(db'))
  BY DEF Next, OpenPage, LeavePage, LoadMore, Serve, Receive, Fail, Ask, WriteOwn, Writes, Confirm, Refused,
       AskOther, WriteOther, vars, server

LEMMA RankedGrow ==
    ASSUME NEW q, NEW s, NEW t, Grows(s, t)
    PROVE  RankedIn(q, s) \subseteq RankedIn(q, t)
  BY DEF Grows, RankedIn

LEMMA KeptStep ==
    ASSUME Seated, Standing, Kept, [Next]_vars
    PROVE  Kept' /\ Longer(history, history')
  <1>1. Grows(db, db') /\ Standing'
    BY StandingStep
  <1>2. RankedIn(query, db) \subseteq RankedIn(query, db')
    BY <1>1, RankedGrow
  <1>3. query' = query /\ viewer' = viewer
    BY Seats
  <1>4. CASE UNCHANGED <<db, history>>
    BY <1>2, <1>3, <1>4, KeptLength DEF Kept, List, Longer
  <1>5. CASE history' = Append(history, List(db'))
    <2> DEFINE new == List(db')
    <2>1. DOMAIN new \subseteq RankedIn(query, db')
      <3>1. DOMAIN new = Rows(query, viewer, db')
        BY DEF List
      <3>2. query.route \in ListRoutes
        BY QueryRoutes DEF Seated
      <3>3. QED
        BY <1>1, <3>1, <3>2, RowsRanked DEF Standing, Sound
    <2>2. List(db)' = new
      BY <1>3 DEF List
    <2> HIDE DEF new
    <2>3. /\ IsSeq(history') /\ Len(history) \in Nat \ {0} /\ Len(history') = Len(history) + 1
          /\ \A k \in 1..Len(history) : history'[k] = history[k]
          /\ history'[Len(history) + 1] = new
      BY <1>5, AppendFacts, KeptLength DEF Kept, new
    <2>4. \A k \in 1..Len(history') : DOMAIN history'[k] \subseteq RankedIn(query, db')
      BY <1>2, <2>1, <2>3 DEF Kept
    <2>5. history' # <<>>
      BY <2>3
    <2>6. QED
      BY <1>3, <2>2, <2>3, <2>4, <2>5 DEF Kept, Longer
  <1>6. QED
    BY <1>4, <1>5, ServerSteps

LEMMA AlwaysKept == Spec => [](Client /\ Kept)
  <1>1. Init => Kept
    <2> SUFFICES ASSUME Init PROVE Kept
      OBVIOUS
    <2>1. history = <<List(db)>> /\ Seated /\ Sound(db)
      BY StartAssumption DEF Init, Seated, Sound, List
    <2>2. DOMAIN List(db) \subseteq RankedIn(query, db)
      <3>1. DOMAIN List(db) = Rows(query, viewer, db)
        BY DEF List
      <3>2. QED
        BY <2>1, <3>1, QueryRoutes, RowsRanked DEF Seated, Sound
    <2> DEFINE new == List(db)
    <2> HIDE DEF new
    <2>3. IsSeq(<<new>>) /\ Len(<<new>>) = 1 /\ <<new>>[1] = new /\ <<new>> # <<>>
      BY DEF IsSeq
    <2>4. QED
      BY <2>1, <2>2, <2>3 DEF Kept, new
  <1>2. Client /\ Kept /\ [Next]_vars => Kept'
    BY KeptStep DEF Client
  <1>3. QED
    BY <1>1, <1>2, AlwaysClient, PTL DEF Spec

-----------------------------------------------------------------------------
(* The pages of a walk *)

\* The page that begins at c, of the list that h has at read: it ends before next.
PageOf(q, t, h, c, rows, next, read) ==
    /\ c = 0 \/ c \in RankedIn(q, t)
    /\ read \in 1..Len(h)
    /\ rows = {i \in DOMAIN h[read] : Beyond(q, i, c, t) /\ (next # None => ~Precedes(q, next, i, t))}
    /\ next # None => next \in rows

\* The pages w were left behind at these stops.
Route(q, t, h, w, stops) ==
    /\ Len(stops) = Len(w) + 1 /\ stops[1] = 0
    /\ \A k \in 1..Len(w) : /\ stops[k + 1] \in RankedIn(q, t)
                            /\ PageOf(q, t, h, stops[k], w[k].rows, stops[k + 1], w[k].read)

\* What is kept and what is under way are such pages, and so are those of the walk.
Walked ==
    /\ \A c \in Cursors :
           /\ cache[c].answer # None =>
                  PageOf(query, db, history, c, DOMAIN cache[c].answer.data, cache[c].answer.next, cache[c].read)
           /\ fetch[c].at = "answered" =>
                  PageOf(query, db, history, c, DOMAIN fetch[c].answer.data, fetch[c].answer.next, fetch[c].read)
           /\ fetch[c] = Sent => c = 0 \/ c \in RankedIn(query, db)
    /\ IsSeq(walk)
    /\ \E stops \in Seq(Cursors) :
           Route(query, db, history, walk, stops) /\ stops[Len(walk) + 1] = after

\* An order of rows that are there does not change.
LEMMA OrderStays ==
    ASSUME NEW q, NEW s, NEW t, Grows(s, t), NEW i \in RankedIn(q, s), NEW j \in RankedIn(q, s)
    PROVE  Precedes(q, i, j, s) <=> Precedes(q, i, j, t)
  <1>1. CASE q.route = "GET /stock-movements"
    <2>1. i \in DOMAIN s.movement /\ j \in DOMAIN s.movement
      BY <1>1 DEF RankedIn
    <2>2. s.movement[i] = t.movement[i] /\ s.movement[j] = t.movement[j]
      BY <2>1 DEF Grows
    <2>3. QED
      BY <1>1, <2>2 DEF Precedes
  <1>2. CASE q.route # "GET /stock-movements"
    BY <1>2 DEF Precedes
  <1>3. QED
    BY <1>1, <1>2

LEMMA PageStays ==
    ASSUME NEW q, NEW s, NEW t, Grows(s, t), NEW h, NEW g, Longer(h, g), Len(h) \in Nat, Len(g) \in Nat,
           \A k \in 1..Len(h) : DOMAIN h[k] \subseteq RankedIn(q, s),
           NEW c, NEW rows, NEW next, NEW read, PageOf(q, s, h, c, rows, next, read)
    PROVE  PageOf(q, t, g, c, rows, next, read)
  <1>1. c = 0 \/ c \in RankedIn(q, t)
    BY RankedGrow DEF PageOf
  <1>2. read \in 1..Len(h) /\ read \in 1..Len(g) /\ g[read] = h[read]
    BY DEF PageOf, Longer
  <1>3. ASSUME NEW i \in DOMAIN h[read]
        PROVE  /\ Beyond(q, i, c, s) <=> Beyond(q, i, c, t)
               /\ next # None => (Precedes(q, next, i, s) <=> Precedes(q, next, i, t))
    <2>1. i \in RankedIn(q, s)
      BY <1>2, <1>3
    <2>2. Beyond(q, i, c, s) <=> Beyond(q, i, c, t)
      BY <2>1, OrderStays DEF PageOf, Beyond
    <2>3. next # None => next \in RankedIn(q, s)
      BY <1>2 DEF PageOf
    <2>4. QED
      BY <2>1, <2>2, <2>3, OrderStays
  <1>4. QED
    BY <1>1, <1>2, <1>3 DEF PageOf

LEMMA RouteStays ==
    ASSUME NEW q, NEW s, NEW t, Grows(s, t), NEW h, NEW g, Longer(h, g), Len(h) \in Nat, Len(g) \in Nat,
           \A k \in 1..Len(h) : DOMAIN h[k] \subseteq RankedIn(q, s),
           NEW w, NEW stops, Route(q, s, h, w, stops)
    PROVE  Route(q, t, g, w, stops)
  <1>1. ASSUME NEW k \in 1..Len(w)
        PROVE  /\ stops[k + 1] \in RankedIn(q, t)
               /\ PageOf(q, t, g, stops[k], w[k].rows, stops[k + 1], w[k].read)
    <2>1. stops[k + 1] \in RankedIn(q, s) /\ PageOf(q, s, h, stops[k], w[k].rows, stops[k + 1], w[k].read)
      BY DEF Route
    <2>2. QED
      BY <2>1, PageStays, RankedGrow
  <1>2. QED
    BY <1>1 DEF Route

\* A further page left behind.
LEMMA RouteOn ==
    ASSUME NEW q, NEW t, NEW h, NEW w, NEW stops, Route(q, t, h, w, stops), Len(w) \in Nat,
           NEW rows, NEW read, NEW next \in RankedIn(q, t),
           PageOf(q, t, h, stops[Len(w) + 1], rows, next, read),
           NEW v, Len(v) = Len(w) + 1, \A k \in 1..Len(w) : v[k] = w[k],
           v[Len(w) + 1].rows = rows, v[Len(w) + 1].read = read,
           NEW ends, Len(ends) = Len(w) + 2, \A k \in 1..(Len(w) + 1) : ends[k] = stops[k],
           ends[Len(w) + 2] = next
    PROVE  Route(q, t, h, v, ends)
  <1>1. ASSUME NEW k \in 1..Len(v)
        PROVE  /\ ends[k + 1] \in RankedIn(q, t)
               /\ PageOf(q, t, h, ends[k], v[k].rows, ends[k + 1], v[k].read)
    <2>1. CASE k \in 1..Len(w)
      <3>1. ends[k] = stops[k] /\ ends[k + 1] = stops[k + 1] /\ v[k] = w[k]
        BY <2>1
      <3>2. QED
        BY <2>1, <3>1 DEF Route
    <2>2. CASE k = Len(w) + 1
      <3>1. ends[k] = stops[Len(w) + 1] /\ ends[k + 1] = next /\ v[k].rows = rows /\ v[k].read = read
        BY <2>2
      <3>2. QED
        BY <3>1
    <2>3. QED
      BY <2>1, <2>2
  <1>2. ends[1] = 0
    BY DEF Route
  <1>3. QED
    BY <1>1, <1>2 DEF Route

LEMMA EndRanked ==
    ASSUME NEW q, NEW t, NEW h, NEW w, IsSeq(w), NEW stops, Route(q, t, h, w, stops)
    PROVE  stops[Len(w) + 1] = 0 \/ stops[Len(w) + 1] \in RankedIn(q, t)
  <1>1. Len(w) \in Nat
    BY AppendFacts
  <1>2. CASE Len(w) = 0
    BY <1>2 DEF Route
  <1>3. CASE Len(w) # 0
    BY <1>1, <1>3 DEF Route
  <1>4. QED
    BY <1>2, <1>3

LEMMA NoRoute ==
    ASSUME NEW q, NEW t, NEW h
    PROVE  /\ IsSeq(<<>>)
           /\ \E stops \in Seq(Cursors) : Route(q, t, h, <<>>, stops) /\ stops[Len(<<>>) + 1] = 0
  <1>1. <<0>> \in Seq(Cursors) /\ Len(<<0>>) = 1 /\ <<0>>[1] = 0
    BY DEF Cursors
  <1>2. IsSeq(<<>>) /\ Len(<<>>) = 0
    BY DEF IsSeq
  <1>3. Route(q, t, h, <<>>, <<0>>)
    BY <1>1, <1>2 DEF Route
  <1>4. <<0>>[Len(<<>>) + 1] = 0
    BY <1>1, <1>2
  <1>5. QED
    BY <1>1, <1>2, <1>3, <1>4

LEMMA RouteStep ==
    ASSUME Client, Kept, query.walks, Walked, [Next]_vars
    PROVE  /\ IsSeq(walk')
           /\ \E stops \in Seq(Cursors) :
                  Route(query, db', history', walk', stops) /\ stops[Len(walk') + 1] = after'
  <1>1. Grows(db, db') /\ Longer(history, history') /\ Len(history) \in Nat /\ Len(history') \in Nat
    BY StandingStep, KeptStep, KeptLength DEF Client, Kept, IsSeq
  <1>2. \A k \in 1..Len(history) : DOMAIN history[k] \subseteq RankedIn(query, db)
    BY DEF Kept
  <1>3. PICK stops \in Seq(Cursors) : Route(query, db, history, walk, stops) /\ stops[Len(walk) + 1] = after
    BY DEF Walked
  <1>4. CASE walk' = <<>> /\ after' = 0
    BY <1>4, NoRoute
  <1>5. CASE UNCHANGED <<walk, after>>
    BY <1>1, <1>2, <1>3, <1>5, RouteStays DEF Walked
  <1>6. CASE LoadMore
    <2> DEFINE p == [rows |-> DOMAIN Entry.answer.data, read |-> Entry.read]
               next == Entry.answer.next
    <2>1. /\ after' = next /\ next # None /\ Entry.answer # None
          /\ walk' = Append(walk, p)
          /\ db' = db /\ history' = history
      BY <1>6 DEF LoadMore, Displayed, HasData, server
    <2>2. after \in Cursors
      BY DEF Client, Typed
    <2>3. PageOf(query, db, history, after, p.rows, next, p.read)
      BY <2>1, <2>2 DEF Walked, Entry
    <2>4. next \in RankedIn(query, db) /\ next \in Cursors
      <3>1. next \in DOMAIN history[p.read] /\ p.read \in 1..Len(history)
        BY <2>1, <2>3 DEF PageOf
      <3>2. RankedIn(query, db) \subseteq Ids
        BY RankedFinite DEF Client, Standing, Sound
      <3>3. QED
        BY <1>2, <3>1, <3>2 DEF Cursors
    <2> HIDE DEF p, next
    <2>5. /\ IsSeq(walk') /\ Len(walk) \in Nat /\ Len(walk') = Len(walk) + 1
          /\ \A k \in 1..Len(walk) : walk'[k] = walk[k]
          /\ walk'[Len(walk) + 1] = p
      BY <2>1, AppendFacts DEF Walked
    <2>6. PICK ends : ends = Append(stops, next)
      OBVIOUS
    <2>7. Len(stops) = Len(walk) + 1
      BY <1>3 DEF Route
    <2>8. /\ ends \in Seq(Cursors) /\ Len(ends) = Len(walk) + 2
          /\ \A k \in 1..(Len(walk) + 1) : ends[k] = stops[k]
          /\ ends[Len(walk) + 2] = next
      BY <2>4, <2>5, <2>6, <2>7
    <2>9. PageOf(query, db, history, stops[Len(walk) + 1], p.rows, next, p.read)
      BY <1>3, <2>3
    <2>10. Route(query, db, history, walk', ends)
      BY <1>3, <2>4, <2>5, <2>8, <2>9, RouteOn
    <2>11. QED
      BY <2>1, <2>5, <2>8, <2>10
  <1>7. (walk' = <<>> /\ after' = 0) \/ UNCHANGED <<walk, after>> \/ LoadMore
    BY DEF Next, OpenPage, LeavePage, Serve, Receive, Fail, Ask, WriteOwn, Confirm, Refused, AskOther, WriteOther,
       vars, page
  <1>8. QED
    BY <1>4, <1>5, <1>6, <1>7

\* What is answered is a page.
LEMMA ServedPage ==
    ASSUME Client, Kept, query.walks, NEW c, c = 0 \/ c \in RankedIn(query, db)
    PROVE  LET a == Answer(query, viewer, c, Limit, db)
           IN  PageOf(query, db, history, c, DOMAIN a.data, a.next, Len(history))
  <1> DEFINE a == Answer(query, viewer, c, Limit, db)
  <1>1. Limit \in Nat \ {0}
    BY PageSizeAssumption DEF Limit
  <1>2. Shaped(db) /\ Rows(query, viewer, db) \subseteq RankedIn(query, db)
    BY QueryRoutes, RowsRanked DEF Client, Seated, Standing, Sound
  <1>3. /\ DOMAIN a.data = {i \in Rows(query, viewer, db) :
               Beyond(query, i, c, db) /\ (a.next # None => ~Precedes(query, a.next, i, db))}
        /\ a.next # None => a.next \in DOMAIN a.data
    BY <1>1, <1>2, AnswerPages
  <1>4. DOMAIN history[Len(history)] = Rows(query, viewer, db)
    BY DEF Kept, List
  <1>5. Len(history) \in 1..Len(history)
    BY KeptLength
  <1> HIDE DEF a
  <1>6. QED
    BY <1>3, <1>4, <1>5 DEF PageOf, a

LEMMA WalkedStep ==
    ASSUME Client, Kept, query.walks, Walked, [Next]_vars
    PROVE  Walked'
  <1>0. query' = query /\ viewer' = viewer
    BY Seats DEF Client
  <1>1. Grows(db, db') /\ Longer(history, history') /\ Len(history) \in Nat /\ Len(history') \in Nat
    BY StandingStep, KeptStep, KeptLength DEF Client, Kept, IsSeq
  <1>2. \A k \in 1..Len(history) : DOMAIN history[k] \subseteq RankedIn(query, db)
    BY DEF Kept
  <1>3. /\ IsSeq(walk')
        /\ \E stops \in Seq(Cursors) :
               Route(query, db', history', walk', stops) /\ stops[Len(walk') + 1] = after'
    BY RouteStep
  <1>4. after' = 0 \/ after' \in RankedIn(query, db')
    BY <1>3, EndRanked
  <1>5. after = 0 \/ after \in RankedIn(query, db')
    <2>1. after = 0 \/ after \in RankedIn(query, db)
      BY EndRanked DEF Walked
    <2>2. QED
      BY <1>1, <2>1, RankedGrow
  <1>6. ASSUME NEW c \in Cursors
        PROVE  /\ cache'[c].answer # None =>
                      PageOf(query, db', history', c, DOMAIN cache'[c].answer.data, cache'[c].answer.next,
                             cache'[c].read)
               /\ fetch'[c].at = "answered" =>
                      PageOf(query, db', history', c, DOMAIN fetch'[c].answer.data, fetch'[c].answer.next,
                             fetch'[c].read)
               /\ fetch'[c] = Sent => c = 0 \/ c \in RankedIn(query, db')
    <2>0. ASSUME NEW rows, NEW next, NEW read, PageOf(query, db, history, c, rows, next, read)
          PROVE  PageOf(query, db', history', c, rows, next, read)
      BY <1>1, <1>2, <2>0, PageStays
    <2>1. cache[c].answer # None =>
              PageOf(query, db', history', c, DOMAIN cache[c].answer.data, cache[c].answer.next, cache[c].read)
      BY <2>0 DEF Walked
    <2>2. fetch[c].at = "answered" =>
              PageOf(query, db', history', c, DOMAIN fetch[c].answer.data, fetch[c].answer.next, fetch[c].read)
      BY <2>0 DEF Walked
    <2>3. fetch[c] = Sent => c = 0 \/ c \in RankedIn(query, db')
      BY <1>1, RankedGrow DEF Walked
    <2>4. CASE /\ \/ Same(cache'[c], cache[c])
                  \/ fetch[c] = Idle /\ cache'[c] = NoEntry /\ fetch'[c] = Sent
               /\ fetch'[c] = fetch[c] \/ (fetch'[c] = Sent /\ c \in {0, after, after'})
      <3>1. cache'[c].answer # None => cache'[c].answer = cache[c].answer /\ cache'[c].read = cache[c].read
        BY <2>4, NoEntryFacts DEF Same
      <3>2. fetch'[c].at = "answered" => fetch'[c] = fetch[c]
        BY <2>4, StateFacts
      <3>3. fetch'[c] = Sent => c = 0 \/ c \in RankedIn(query, db')
        BY <1>4, <1>5, <2>3, <2>4
      <3>4. QED
        BY <2>1, <2>2, <3>1, <3>2, <3>3
    <2>5. CASE Serve(c)
      <3>1. cache' = cache /\ db' = db /\ history' = history /\ fetch[c] = Sent
        BY <2>5 DEF Serve, server
      <3>2. \/ fetch'[c] = [at |-> "forbidden"]
            \/ fetch'[c] = [at |-> "missing"]
            \/ fetch'[c] = [at |-> "answered", read |-> Len(history), answer |-> Answer(query, viewer, c, Limit, db)]
        BY <2>5 DEF Serve, Client, Typed
      <3>3. /\ fetch'[c] # Sent
            /\ fetch'[c].at = "answered" =>
                   fetch'[c].answer = Answer(query, viewer, c, Limit, db) /\ fetch'[c].read = Len(history)
        BY <3>2, StateFacts
      <3>4. LET a == Answer(query, viewer, c, Limit, db)
            IN  PageOf(query, db, history, c, DOMAIN a.data, a.next, Len(history))
        BY <3>1, ServedPage DEF Walked
      <3>5. QED
        BY <2>1, <3>1, <3>3, <3>4
    <2>6. CASE Receive(c)
      <3>1. /\ cache'[c].answer = fetch[c].answer /\ cache'[c].read = fetch[c].read
            /\ fetch'[c] = Idle /\ fetch[c].at = "answered"
        BY <2>6 DEF Receive, Client, Typed
      <3>2. QED
        BY <2>2, <3>1, StateFacts
    <2>7. CASE Fail(c)
      <3>1. cache'[c].answer = cache[c].answer /\ cache'[c].read = cache[c].read /\ fetch'[c] = Idle
        BY <2>7 DEF Fail, Client, Typed, IsEntry
      <3>2. QED
        BY <2>1, <3>1, StateFacts
    <2>8. QED
      BY <2>4, <2>5, <2>6, <2>7, ClientSteps DEF Steps, Client
  <1>7. QED
    BY <1>0, <1>3, <1>6 DEF Walked

-----------------------------------------------------------------------------
(* A walk that has come to the end shows every row once *)

\* The first and the last of some reads.
LEMMA Extremes ==
    ASSUME NEW h \in Nat, NEW R \in SUBSET (1..h), R # {}
    PROVE  /\ (CHOOSE r \in R : \A s \in R : r <= s) \in R
           /\ \A s \in R : (CHOOSE r \in R : \A x \in R : r <= x) <= s
           /\ (CHOOSE r \in R : \A s \in R : r >= s) \in R
           /\ \A s \in R : (CHOOSE r \in R : \A x \in R : r >= x) >= s
  <1>1. \E r \in R : \A s \in R : r <= s
    BY LeastNatural
  <1>2. \E r \in R : \A s \in R : r >= s
    <2> DEFINE U == {x \in Nat : \A s \in R : s <= x}
    <2>1. h \in U
      OBVIOUS
    <2>2. PICK x \in U : \A y \in U : x <= y
      BY <2>1, LeastNatural
    <2>3. x \in R
      <3>1. SUFFICES ASSUME x \notin R PROVE FALSE
        OBVIOUS
      <3>2. \A s \in R : s <= x - 1
        BY <2>2, <3>1
      <3>3. x - 1 \in Nat
        <4>1. PICK s \in R : TRUE
          OBVIOUS
        <4>2. QED
          BY <2>2, <4>1
      <3>4. x - 1 \in U
        BY <3>2, <3>3
      <3>5. QED
        BY <2>2, <3>4
    <2>4. QED
      BY <2>2, <2>3
  <1>3. QED
    BY <1>1, <1>2

\* Of stops that come one after the other, a row lies beyond the first ones; so it is
\* on the page that begins at the last of those.
LEMMA OnePage ==
    ASSUME NEW n \in Nat \ {0}, NEW B \in SUBSET (1..n), 1 \in B,
           \A k \in 1..(n - 1) : k + 1 \in B => k \in B
    PROVE  \E K \in 1..n : {k \in 1..n : k \in B /\ (k = n \/ k + 1 \notin B)} = {K}
  <1> DEFINE Out == {k \in Nat \ {0} : k \notin B}
  <1>1. n + 1 \in Out
    OBVIOUS
  <1>2. PICK top \in Out : \A k \in Out : top <= k
    BY <1>1, LeastNatural
  <1>3. top \in 2..(n + 1)
    BY <1>1, <1>2
  <1>4. \A k \in 1..(top - 1) : k \in B
    BY <1>2, <1>3
  <1>5. \A k \in B : k < top
    <2> DEFINE Over == {k \in B : k >= top}
    <2>1. SUFFICES ASSUME Over # {} PROVE FALSE
      BY <1>3
    <2>2. PICK k \in Over : \A j \in Over : k <= j
      <3>1. \A x \in Over : x \in Nat
        OBVIOUS
      <3>2. QED
        BY <2>1, <3>1, LeastNatural
    <2>3. k # top
      BY <1>2
    <2>4. k - 1 \in 1..(n - 1) /\ k - 1 >= top
      BY <1>3, <2>2, <2>3
    <2>5. k - 1 \in B
      BY <2>2, <2>4
    <2>6. QED
      BY <2>2, <2>4, <2>5
  <1>6. \A k \in 1..n : k \in B /\ (k = n \/ k + 1 \notin B) <=> k = top - 1
    <2>1. \A k \in 1..n : k \in B <=> k < top
      BY <1>3, <1>4, <1>5
    <2> HIDE DEF Out
    <2>2. ASSUME NEW k \in 1..n
          PROVE  k \in B /\ (k = n \/ k + 1 \notin B) <=> k = top - 1
      <3>1. k # n => (k + 1 \in B <=> k + 1 < top)
        BY <2>1
      <3>2. QED
        BY <1>3, <2>1, <3>1
    <2>3. QED
      BY <2>2
  <1>7. QED
    BY <1>3, <1>6

\* The pages of v that row i is on, and that it is in the lists they come from.
PagesWith(v, n, i) == {k \in 1..n : i \in v[k].rows}
Throughout(h, v, n, i) == \A k \in 1..n : i \in DOMAIN h[v[k].read]

\* The n pages v, of which all but the last were left behind at these stops.
Ended(q, t, h, w, stops, v, n) ==
    /\ \A k \in 1..Len(h) : DOMAIN h[k] \subseteq RankedIn(q, t)
    /\ Len(w) \in Nat /\ n = Len(w) + 1
    /\ Route(q, t, h, w, stops) /\ PageOf(q, t, h, stops[n], v[n].rows, None, v[n].read)
    /\ \A k \in 1..Len(w) : v[k] = w[k]

LEMMA WalkSeesOnce ==
    ASSUME NEW q, NEW t, Shaped(t), NEW h, NEW w, NEW stops, NEW v, NEW n, Ended(q, t, h, w, stops, v, n),
           NEW i, Throughout(h, v, n, i)
    PROVE  Cardinality(PagesWith(v, n, i)) = 1
  <1>0. /\ \A k \in 1..Len(h) : DOMAIN h[k] \subseteq RankedIn(q, t)
        /\ Len(w) \in Nat /\ n = Len(w) + 1
        /\ Route(q, t, h, w, stops) /\ PageOf(q, t, h, stops[n], v[n].rows, None, v[n].read)
        /\ \A k \in 1..Len(w) : v[k] = w[k]
    BY DEF Ended
  <1> DEFINE B == {k \in 1..n : Beyond(q, i, stops[k], t)}
  <1>1. i \in RankedIn(q, t) /\ RankedIn(q, t) \subseteq Ids
    BY <1>0, RankedFinite DEF PageOf, Throughout
  <1>2. ASSUME NEW k \in 1..Len(w)
        PROVE  /\ stops[k + 1] \in RankedIn(q, t) /\ stops[k + 1] # None /\ stops[k + 1] # 0
               /\ PageOf(q, t, h, stops[k], v[k].rows, stops[k + 1], v[k].read)
    BY <1>0, <1>1, IdsAssumption DEF Route
  <1>3. ASSUME NEW k \in 1..Len(w)
        PROVE  /\ i \in v[k].rows <=> Beyond(q, i, stops[k], t) /\ ~Beyond(q, i, stops[k + 1], t)
               /\ Beyond(q, i, stops[k + 1], t) => Beyond(q, i, stops[k], t)
    <2>1. i \in v[k].rows <=> Beyond(q, i, stops[k], t) /\ ~Precedes(q, stops[k + 1], i, t)
      BY <1>0, <1>2 DEF PageOf, Throughout
    <2>2. Beyond(q, i, stops[k + 1], t) <=> Precedes(q, stops[k + 1], i, t)
      BY <1>2 DEF Beyond
    <2>3. ASSUME Precedes(q, stops[k + 1], i, t), stops[k] # 0
          PROVE  Precedes(q, stops[k], i, t)
      <3>1. stops[k] \in RankedIn(q, t) /\ stops[k + 1] \in v[k].rows
        BY <1>2, <2>3 DEF PageOf
      <3>2. Precedes(q, stops[k], stops[k + 1], t)
        BY <1>2, <2>3, <3>1 DEF PageOf, Beyond
      <3>3. Orders(OrderOf(q, t), RankedIn(q, t))
        BY PrecedesOrders
      <3>4. <<stops[k], stops[k + 1]>> \in OrderOf(q, t) /\ <<stops[k + 1], i>> \in OrderOf(q, t)
        BY <1>1, <1>2, <2>3, <3>1, <3>2, OrderPairs
      <3>5. <<stops[k], i>> \in OrderOf(q, t)
        BY <1>1, <1>2, <3>1, <3>3, <3>4 DEF Orders
      <3>6. QED
        BY <1>1, <3>1, <3>5, OrderPairs
    <2>4. QED
      BY <2>1, <2>2, <2>3 DEF Beyond
  <1>4. i \in v[n].rows <=> Beyond(q, i, stops[n], t)
    BY <1>0 DEF PageOf, Throughout
  <1>5. 1 \in B
    BY <1>0 DEF Route, Beyond
  <1>6. \A k \in 1..(n - 1) : k + 1 \in B => k \in B
    BY <1>0, <1>3
  <1>7. \A k \in 1..n : i \in v[k].rows <=> k \in B /\ (k = n \/ k + 1 \notin B)
    <2>1. ASSUME NEW k \in 1..n, k # n
          PROVE  i \in v[k].rows <=> k \in B /\ k + 1 \notin B
      BY <1>0, <1>3, <2>1
    <2>2. i \in v[n].rows <=> n \in B
      BY <1>0, <1>4
    <2>3. QED
      BY <2>1, <2>2
  <1>8. n \in Nat \ {0} /\ B \in SUBSET (1..n)
    BY <1>0
  <1> HIDE DEF B
  <1>9. PICK K \in 1..n : {k \in 1..n : k \in B /\ (k = n \/ k + 1 \notin B)} = {K}
    BY <1>5, <1>6, <1>8, OnePage
  <1>10. {k \in 1..n : i \in v[k].rows} = {K}
    BY <1>7, <1>9
  <1>11. QED
    BY <1>10, FS_Singleton DEF PagesWith

LEMMA SeenOnce ==
    ASSUME Client, Kept, query.walks => Walked
    PROVE  EveryRowOnce
  <1> SUFFICES ASSUME Displayed, query.walks, Entry.answer.next = None
               PROVE  LET pages == Append(walk, [rows |-> DOMAIN Entry.answer.data, read |-> Entry.read])
                          reads == {pages[k].read : k \in DOMAIN pages}
                      IN  \A i \in Steady(CHOOSE r \in reads : \A s \in reads : r <= s,
                                           CHOOSE r \in reads : \A s \in reads : r >= s) :
                              Cardinality({k \in DOMAIN pages : i \in pages[k].rows}) = 1
    BY DEF EveryRowOnce
  <1> DEFINE last == [rows |-> DOMAIN Entry.answer.data, read |-> Entry.read]
             pages == Append(walk, last)
             reads == {pages[k].read : k \in DOMAIN pages}
             from == CHOOSE r \in reads : \A s \in reads : r <= s
             to == CHOOSE r \in reads : \A s \in reads : r >= s
  <1>1. PICK stops \in Seq(Cursors) :
            Route(query, db, history, walk, stops) /\ stops[Len(walk) + 1] = after
    BY DEF Walked
  <1>2. /\ Len(walk) \in Nat /\ DOMAIN pages = 1..(Len(walk) + 1)
        /\ \A k \in 1..Len(walk) : pages[k] = walk[k]
        /\ pages[Len(walk) + 1] = last
    BY AppendFacts DEF Walked
  <1>3. PageOf(query, db, history, after, last.rows, None, last.read)
    <2>1. after \in Cursors /\ cache[after].answer # None /\ cache[after].answer.next = None
      BY DEF Client, Typed, Displayed, HasData, Entry
    <2>2. QED
      BY <2>1 DEF Walked, Entry
  <1> HIDE DEF pages, last
  <1>4. \A k \in 1..(Len(walk) + 1) : pages[k].read \in 1..Len(history)
    <2>1. \A k \in 1..Len(walk) : walk[k].read \in 1..Len(history)
      BY <1>1 DEF Route, PageOf
    <2>2. last.read \in 1..Len(history)
      BY <1>3 DEF PageOf
    <2>3. QED
      BY <1>2, <2>1, <2>2
  <1>5. /\ from \in Nat /\ to \in Nat
        /\ \A k \in 1..(Len(walk) + 1) : from <= pages[k].read /\ pages[k].read <= to
    <2>1. reads \in SUBSET (1..Len(history)) /\ Len(history) \in Nat
      BY <1>2, <1>4, KeptLength
    <2>2. \A k \in 1..(Len(walk) + 1) : pages[k].read \in reads
      BY <1>2
    <2>3. reads # {}
      <3>1. Len(walk) + 1 \in 1..(Len(walk) + 1)
        BY <1>2
      <3>2. QED
        BY <2>2, <3>1
    <2> HIDE DEF reads
    <2>4. from \in reads /\ to \in reads /\ \A s \in reads : from <= s /\ to >= s
      BY <2>1, <2>3, Extremes
    <2> HIDE DEF from, to
    <2>5. from \in 1..Len(history) /\ to \in 1..Len(history)
      BY <2>1, <2>4
    <2>6. ASSUME NEW k \in 1..(Len(walk) + 1)
          PROVE  from <= pages[k].read /\ pages[k].read <= to
      <3>1. pages[k].read \in reads /\ pages[k].read \in 1..Len(history)
        BY <1>4, <2>2
      <3>2. from <= pages[k].read /\ to >= pages[k].read
        BY <2>4, <3>1
      <3>3. QED
        BY <2>5, <3>1, <3>2
    <2>7. QED
      BY <2>1, <2>5, <2>6
  <1> HIDE DEF from, to
  <1>6. ASSUME NEW i \in Steady(from, to)
        PROVE  Cardinality({k \in DOMAIN pages : i \in pages[k].rows}) = 1
    <2>1. Throughout(history, pages, Len(walk) + 1, i)
      <3>1. ASSUME NEW k \in 1..(Len(walk) + 1)
            PROVE  pages[k].read \in from..to
        <4>1. pages[k].read \in Int /\ from <= pages[k].read /\ pages[k].read <= to
          BY <1>4, <1>5
        <4>2. QED
          BY <1>5, <4>1
      <3>2. QED
        BY <1>6, <3>1 DEF Steady, Throughout
    <2>2. Ended(query, db, history, walk, stops, pages, Len(walk) + 1)
      <3>1. \A k \in 1..Len(history) : DOMAIN history[k] \subseteq RankedIn(query, db)
        BY DEF Kept
      <3>2. PageOf(query, db, history, stops[Len(walk) + 1], pages[Len(walk) + 1].rows, None,
                   pages[Len(walk) + 1].read)
        BY <1>1, <1>2, <1>3
      <3>3. QED
        BY <1>1, <1>2, <3>1, <3>2 DEF Ended
    <2>3. Shaped(db)
      BY DEF Client, Standing, Sound
    <2>4. Cardinality(PagesWith(pages, Len(walk) + 1, i)) = 1
      BY <2>1, <2>2, <2>3, WalkSeesOnce
    <2>5. {k \in DOMAIN pages : i \in pages[k].rows} = PagesWith(pages, Len(walk) + 1, i)
      BY <1>2 DEF PagesWith
    <2>6. QED
      BY <2>4, <2>5
  <1>7. QED
    BY <1>6 DEF pages, last, from, to

\* Whoever has come to the last page of a list has seen every row that was in it all
\* the while exactly once: the pages of a walk begin where the one before ended, in an
\* order that no change of the tables disturbs.
THEOREM RowsSeenOnce == Spec => []EveryRowOnce
  <1> DEFINE Inv == Client /\ Kept /\ (query.walks => Walked)
  <1>1. Init => (query.walks => Walked)
    <2> SUFFICES ASSUME Init PROVE Walked
      OBVIOUS
    <2>1. \A c \in Cursors : cache[c] = NoEntry /\ fetch[c] = Idle
      BY DEF Init
    <2>2. walk = <<>> /\ after = 0
      BY DEF Init
    <2>3. /\ IsSeq(walk)
          /\ \E stops \in Seq(Cursors) :
                 Route(query, db, history, walk, stops) /\ stops[Len(walk) + 1] = after
      BY <2>2, NoRoute
    <2>4. QED
      BY <2>1, <2>3, NoEntryFacts, StateFacts DEF Walked
  <1>2. Client /\ Kept /\ (query.walks => Walked) /\ [Next]_vars => (query.walks => Walked)'
    <2> SUFFICES ASSUME Client, Kept, query.walks => Walked, [Next]_vars, query'.walks
                 PROVE  Walked'
      OBVIOUS
    <2>1. query' = query
      BY Seats
    <2>2. QED
      BY <2>1, WalkedStep
  <1>3. QED
    BY <1>1, <1>2, AlwaysKept, SeenOnce, PTL DEF Spec

-----------------------------------------------------------------------------
(* Changes a page does not ask its queries about leave their lists alone *)

\* The rows of s are those of t, as far as lists of other tables show them.
SameProducts(s, t) ==
    /\ DOMAIN s.product = DOMAIN t.product
    /\ \A i \in DOMAIN t.product : /\ s.product[i].tenant = t.product[i].tenant
                                   /\ s.product[i].discontinued = t.product[i].discontinued
                                   /\ s.product[i].n = t.product[i].n
SameWarehouses(s, t) ==
    /\ DOMAIN t.warehouse \subseteq DOMAIN s.warehouse
    /\ \A i \in DOMAIN t.warehouse : /\ s.warehouse[i].tenant = t.warehouse[i].tenant
                                     /\ s.warehouse[i].hidden = t.warehouse[i].hidden
                                     /\ s.warehouse[i].n = t.warehouse[i].n
SameSuppliers(s, t) ==
    /\ DOMAIN t.supplier \subseteq DOMAIN s.supplier
    /\ \A i \in DOMAIN t.supplier : s.supplier[i].n = t.supplier[i].n

ListOf(q, u, t) == [i \in Rows(q, u, t) |-> Row(q, i, t)]

LEMMA ListsEqual ==
    ASSUME NEW q, NEW u, NEW s, NEW t, Rows(q, u, s) = Rows(q, u, t),
           \A i \in Rows(q, u, t) : Row(q, i, s) = Row(q, i, t)
    PROVE  ListOf(q, u, s) = ListOf(q, u, t)
  BY DEF ListOf

LEMMA ScopeStays ==
    ASSUME NEW u, NEW s, NEW t, DOMAIN s.tenant = DOMAIN t.tenant
    PROVE  tenantWhere(u, s) = tenantWhere(u, t)
  BY DEF tenantWhere

LEMMA PlacesStay ==
    ASSUME NEW u, NEW s, NEW t, References(t), DOMAIN s.tenant = DOMAIN t.tenant, s.location = t.location,
           SameWarehouses(s, t)
    PROVE  LocationsOf(u, s) = LocationsOf(u, t)
  <1>1. tenantWhere(u, s) = tenantWhere(u, t)
    BY ScopeStays
  <1>2. \A l \in DOMAIN t.location : t.location[l].warehouse \in DOMAIN t.warehouse
    BY DEF References
  <1>3. \A w \in DOMAIN t.warehouse : w \in WarehousesOf(u, s) <=> w \in WarehousesOf(u, t)
    BY <1>1 DEF WarehousesOf, Scoped, SameWarehouses
  <1>4. QED
    BY <1>2, <1>3 DEF LocationsOf

LEMMA LocationsStay ==
    ASSUME NEW q, q.route = "GET /locations", NEW u, NEW s, NEW t, References(t),
           DOMAIN s.tenant = DOMAIN t.tenant, s.location = t.location, SameWarehouses(s, t)
    PROVE  ListOf(q, u, s) = ListOf(q, u, t)
  <1>1. LocationsOf(u, s) = LocationsOf(u, t)
    BY PlacesStay
  <1>2. Rows(q, u, s) = LocationsOf(u, s) /\ Rows(q, u, t) = LocationsOf(u, t)
    BY DEF Rows, listLocations
  <1>3. ASSUME NEW i \in LocationsOf(u, t)
        PROVE  Row(q, i, s) = Row(q, i, t)
    <2>1. t.location[i].warehouse \in DOMAIN t.warehouse
      BY DEF References, LocationsOf
    <2>2. s.warehouse[s.location[i].warehouse].n = t.warehouse[t.location[i].warehouse].n
      BY <2>1 DEF SameWarehouses
    <2>3. Row(q, i, s) = <<s.location[i], s.warehouse[s.location[i].warehouse].n>>
      BY DEF Row
    <2>4. Row(q, i, t) = <<t.location[i], t.warehouse[t.location[i].warehouse].n>>
      BY DEF Row
    <2>5. QED
      BY <2>2, <2>3, <2>4
  <1>4. QED
    BY <1>1, <1>2, <1>3, ListsEqual

LEMMA ProductsStay ==
    ASSUME NEW q, q.route = "GET /products", q.names, NEW u, NEW s, NEW t,
           DOMAIN s.tenant = DOMAIN t.tenant, SameProducts(s, t)
    PROVE  ListOf(q, u, s) = ListOf(q, u, t)
  <1>1. tenantWhere(u, s) = tenantWhere(u, t)
    BY ScopeStays
  <1>2. Rows(q, u, s) = listProducts(q, u, s) /\ Rows(q, u, t) = listProducts(q, u, t)
    BY DEF Rows
  <1>3. listProducts(q, u, s) = listProducts(q, u, t)
    BY <1>1 DEF listProducts, Scoped, SameProducts
  <1>4. ASSUME NEW i \in listProducts(q, u, t)
        PROVE  Row(q, i, s) = Row(q, i, t)
    BY DEF Row, listProducts, Scoped, SameProducts
  <1>5. QED
    BY <1>2, <1>3, <1>4, ListsEqual

LEMMA SuppliersStay ==
    ASSUME NEW q, q.route = "GET /suppliers", NEW u, NEW s, NEW t,
           DOMAIN s.tenant = DOMAIN t.tenant, s.supplier = t.supplier
    PROVE  ListOf(q, u, s) = ListOf(q, u, t)
  <1>1. tenantWhere(u, s) = tenantWhere(u, t)
    BY ScopeStays
  <1>2. Rows(q, u, s) = listSuppliers(q, u, s) /\ Rows(q, u, t) = listSuppliers(q, u, t)
    BY DEF Rows
  <1>3. listSuppliers(q, u, s) = listSuppliers(q, u, t)
    BY <1>1 DEF listSuppliers, Scoped
  <1>4. ASSUME NEW i PROVE Row(q, i, s) = Row(q, i, t)
    BY DEF Row
  <1>5. QED
    BY <1>2, <1>3, <1>4, ListsEqual

LEMMA OrdersStay ==
    ASSUME NEW q, q.route = "GET /purchase-orders", NEW u, NEW s, NEW t, References(t),
           DOMAIN s.tenant = DOMAIN t.tenant, s.order = t.order, SameSuppliers(s, t)
    PROVE  ListOf(q, u, s) = ListOf(q, u, t)
  <1>1. tenantWhere(u, s) = tenantWhere(u, t)
    BY ScopeStays
  <1>2. Rows(q, u, s) = listPurchaseOrders(u, s) /\ Rows(q, u, t) = listPurchaseOrders(u, t)
    BY DEF Rows
  <1>3. listPurchaseOrders(u, s) = listPurchaseOrders(u, t)
    BY <1>1 DEF listPurchaseOrders, Scoped
  <1>4. ASSUME NEW i \in listPurchaseOrders(u, t)
        PROVE  Row(q, i, s) = Row(q, i, t)
    <2>1. t.order[i].supplier \in DOMAIN t.supplier
      BY DEF References, listPurchaseOrders, Scoped
    <2>2. s.supplier[s.order[i].supplier].n = t.supplier[t.order[i].supplier].n
      BY <2>1 DEF SameSuppliers
    <2>3. Row(q, i, s) = <<s.order[i], s.supplier[s.order[i].supplier].n>>
      BY DEF Row
    <2>4. Row(q, i, t) = <<t.order[i], t.supplier[t.order[i].supplier].n>>
      BY DEF Row
    <2>5. QED
      BY <2>2, <2>3, <2>4
  <1>5. QED
    BY <1>2, <1>3, <1>4, ListsEqual

LEMMA InventoryStays ==
    ASSUME NEW q, q.route = "GET /reports/low-stock" \/ q.route = "GET /reports/reorder-forecast",
           NEW u, NEW s, NEW t, References(t), DOMAIN s.tenant = DOMAIN t.tenant, s.location = t.location,
           SameWarehouses(s, t), s.inventory = t.inventory, SameProducts(s, t)
    PROVE  ListOf(q, u, s) = ListOf(q, u, t)
  <1>1. LocationsOf(u, s) = LocationsOf(u, t) /\ tenantWhere(u, s) = tenantWhere(u, t)
    BY PlacesStay, ScopeStays
  <1>2. Rows(q, u, s) = InventoryOf(u, s) /\ Rows(q, u, t) = InventoryOf(u, t)
    BY DEF Rows, listInventory
  <1>3. Scoped(s.product, u, s) = Scoped(t.product, u, t)
    BY <1>1 DEF Scoped, SameProducts
  <1>4. InventoryOf(u, s) = InventoryOf(u, t)
    BY <1>1, <1>3 DEF InventoryOf
  <1>5. ASSUME NEW i \in InventoryOf(u, t)
        PROVE  Row(q, i, s) = Row(q, i, t)
    <2>1. t.inventory[i].product \in DOMAIN t.product
      BY DEF InventoryOf, Scoped
    <2>2. s.product[s.inventory[i].product].n = t.product[t.inventory[i].product].n
      BY <2>1 DEF SameProducts
    <2>3. Row(q, i, s) = <<s.inventory[i], s.product[s.inventory[i].product].n, s.location[s.inventory[i].location].n>>
      BY DEF Row
    <2>4. Row(q, i, t) = <<t.inventory[i], t.product[t.inventory[i].product].n, t.location[t.inventory[i].location].n>>
      BY DEF Row
    <2>5. QED
      BY <2>2, <2>3, <2>4
  <1>6. QED
    BY <1>2, <1>4, <1>5, ListsEqual

\* The details of company 1.
LEMMA CompanyStays ==
    ASSUME NEW q, q.route = "GET /admin/tenants/:id", NEW u, NEW s, NEW t, DOMAIN s.tenant = DOMAIN t.tenant,
           1 \in DOMAIN t.tenant => s.tenant[1] = t.tenant[1],
           s.user = t.user, s.warehouse = t.warehouse, s.product = t.product
    PROVE  ListOf(q, u, s) = ListOf(q, u, t)
  <1>1. Rows(q, u, s) = DOMAIN t.tenant \intersect {1} /\ Rows(q, u, t) = DOMAIN t.tenant \intersect {1}
    BY DEF Rows, listTenants
  <1>2. ASSUME NEW i \in DOMAIN t.tenant \intersect {1}
        PROVE  Row(q, i, s) = Row(q, i, t)
    <2>1. Row(q, i, s) = <<s.tenant[i], Count(s.user, "tenant", i), Count(s.warehouse, "tenant", i),
                           Count(s.product, "tenant", i)>>
      BY DEF Row
    <2>2. Row(q, i, t) = <<t.tenant[i], Count(t.user, "tenant", i), Count(t.warehouse, "tenant", i),
                           Count(t.product, "tenant", i)>>
      BY DEF Row
    <2>3. QED
      BY <2>1, <2>2
  <1>3. QED
    BY <1>1, <1>2, ListsEqual

LEMMA JobsStay ==
    ASSUME NEW q, q.route = "GET /jobs/:id", NEW u, NEW s, NEW t
    PROVE  ListOf(q, u, s) = ListOf(q, u, t)
  <1>1. Rows(q, u, s) = {} /\ Rows(q, u, t) = {}
    BY DEF Rows
  <1>2. QED
    BY <1>1, ListsEqual

\* A change of what lists of products do not show of a product.
LEMMA ProductColumns ==
    ASSUME NEW t, Shaped(t), NEW id, NEW c, c \notin {"tenant", "discontinued", "n"}, NEW v,
           NEW s, s["product"] = [t["product"] EXCEPT ![id] = [t["product"][id] EXCEPT ![c] = v]]
    PROVE  SameProducts(s, t)
  <1>1. TableOK("product", t["product"])
    BY TableOf, ColumnFacts
  <1>2. \A i \in DOMAIN t["product"] : DOMAIN t["product"][i] = {"tenant", "discontinued", "n", "sold", "decayed"}
    BY <1>1, RowColumns, ColumnFacts DEF TableOK
  <1>3. DOMAIN s["product"] = DOMAIN t["product"]
    OBVIOUS
  <1>4. ASSUME NEW i \in DOMAIN t["product"], NEW d \in {"tenant", "discontinued", "n"}
        PROVE  s["product"][i][d] = t["product"][i][d]
    <2>1. CASE i = id
      <3>1. s["product"][i] = [t["product"][i] EXCEPT ![c] = v]
        BY <2>1
      <3>2. d \in DOMAIN t["product"][i] /\ d # c
        BY <1>2
      <3>3. QED
        BY <3>1, <3>2
    <2>2. CASE i # id
      BY <2>2
    <2>3. QED
      BY <2>1, <2>2
  <1>5. QED
    BY <1>3, <1>4 DEF SameProducts

LEMMA SameTables ==
    ASSUME NEW s, NEW t
    PROVE  /\ s["product"] = t["product"] => SameProducts(s, t)
           /\ s["warehouse"] = t["warehouse"] => SameWarehouses(s, t)
           /\ s["supplier"] = t["supplier"] => SameSuppliers(s, t)
  BY DEF SameProducts, SameWarehouses, SameSuppliers

\* What the changes of each kind leave as it was.
Other(names) == DOMAIN Columns \ names
Leaving(names, s, t) == \A name \in Other(names) : s[name] = t[name]

LEMMA StockLeaves ==
    ASSUME NEW m \in StockRequests, NEW t, Shaped(t)
    PROVE  LET s == WithStock(m, t)
           IN  /\ \A name \in Other({"inventory", "product", "movement"}) : s[name] = t[name]
               /\ SameProducts(s, t)
  <1> DEFINE s == WithStock(m, t)
  <1>0. DOMAIN t = DOMAIN Columns
    BY DEF Shaped
  <1>1. CASE m.id # None
    <2>1. s = [t EXCEPT !["inventory"] = Changed(t["inventory"], m.id)]
      BY <1>1 DEF WithStock
    <2> HIDE DEF s
    <2>2. \A name \in Other({"inventory"}) : s[name] = t[name]
      BY <1>0, <2>1 DEF Other
    <2>3. QED
      BY <2>2, SameTables, ColumnFacts DEF Other, s
  <1>2. CASE m.id = None
    <2> DEFINE left == IF m.of = None THEN t.inventory ELSE Took(t.inventory, m.product, m.of)
               table == IF m.to = None THEN left ELSE Stored(left, m.product, m.to, m.new)
               sold == IF m.to = None THEN t["product"][m.product].sold + 1 ELSE t["product"][m.product].sold
               products == [t["product"] EXCEPT ![m.product] = [t["product"][m.product] EXCEPT !["sold"] = sold]]
               row == [product |-> m.product, from |-> m.of, to |-> m.to, at |-> m.at]
    <2>1. s = [t EXCEPT !["inventory"] = table, !["product"] = products,
                        !["movement"] = Created(t["movement"], m.new, row)]
      BY <1>2 DEF WithStock
    <2> DEFINE moves == Created(t["movement"], m.new, row)
    <2>2. s = [t EXCEPT !["inventory"] = table, !["product"] = products, !["movement"] = moves]
      BY <2>1
    <2> HIDE DEF s, left, table, products, moves, row
    <2>3. \A name \in Other({"inventory", "product", "movement"}) : s[name] = t[name]
      BY <1>0, <2>2 DEF Other
    <2>4. s["product"] = products
      BY <1>0, <2>2, ColumnFacts
    <2>5. SameProducts(s, t)
      <3> HIDE DEF sold
      <3>1. s["product"] = [t["product"] EXCEPT ![m.product] = [t["product"][m.product] EXCEPT !["sold"] = sold]]
        BY <2>4 DEF products
      <3>2. QED
        BY <3>1, ProductColumns
    <2>6. QED
      BY <2>3, <2>5 DEF s
  <1>3. QED
    BY <1>1, <1>2

LEMMA OrderLeaves ==
    ASSUME NEW m \in OrderRequests, NEW t, Shaped(t)
    PROVE  \A name \in Other({"order", "inventory", "movement"}) : WithOrder(m, t)[name] = t[name]
  <1> DEFINE s == WithOrder(m, t)
  <1>0. DOMAIN t = DOMAIN Columns
    BY DEF Shaped
  <1>1. CASE m.route = "POST /purchase-orders"
    <2> DEFINE row == [tenant |-> t.supplier[m.id].tenant, supplier |-> m.id, product |-> m.product,
                       location |-> m.to, n |-> 0]
               table == Created(t["order"], m.new, row)
    <2>1. s = [t EXCEPT !["order"] = table]
      BY <1>1 DEF WithOrder
    <2> HIDE DEF s, table
    <2>2. QED
      BY <1>0, <2>1 DEF Other, s
  <1>2. CASE m.route = "POST /purchase-orders/:id/receive"
    <2> DEFINE line == t.order[m.id]
               orders == Changed(t["order"], m.id)
               table == Stored(t["inventory"], line.product, line.location, m.new)
               row == [product |-> line.product, from |-> None, to |-> line.location, at |-> m.at]
               moves == Created(t["movement"], m.new, row)
    <2>1. s = [t EXCEPT !["order"] = orders, !["inventory"] = table, !["movement"] = moves]
      BY <1>2 DEF WithOrder
    <2> HIDE DEF s, orders, table, moves
    <2>2. QED
      BY <1>0, <2>1 DEF Other, s
  <1>3. CASE m.route \notin {"POST /purchase-orders", "POST /purchase-orders/:id/receive"}
    <2> DEFINE orders == Changed(t["order"], m.id)
    <2>1. s = [t EXCEPT !["order"] = orders]
      BY <1>3 DEF WithOrder
    <2> HIDE DEF s, orders
    <2>2. QED
      BY <1>0, <2>1 DEF Other, s
  <1>4. QED
    BY <1>1, <1>2, <1>3

LEMMA DecayLeaves ==
    ASSUME NEW m, NEW t, Shaped(t)
    PROVE  LET s == WithDecay(m, t)
           IN  (\A name \in Other({"product", "audit"}) : s[name] = t[name]) /\ SameProducts(s, t)
  <1> DEFINE s == WithDecay(m, t)
  <1>0. DOMAIN t = DOMAIN Columns
    BY DEF Shaped
  <1>1. CASE m.id = None
    <2>1. s = t
      BY <1>1 DEF WithDecay
    <2>2. QED
      BY <2>1, SameTables
  <1>2. CASE m.id # None
    <2> DEFINE decayed == t["product"][m.id].decayed + 1
               products == [t["product"] EXCEPT ![m.id] = [t["product"][m.id] EXCEPT !["decayed"] = decayed]]
               audits == Created(t["audit"], m.new, [product |-> m.id])
    <2>1. s = [t EXCEPT !["product"] = products, !["audit"] = audits]
      BY <1>2 DEF WithDecay
    <2> HIDE DEF s, products, audits, decayed
    <2>2. \A name \in Other({"product", "audit"}) : s[name] = t[name]
      BY <1>0, <2>1 DEF Other
    <2>3. s["product"] = products
      BY <1>0, <2>1, ColumnFacts
    <2>4. s["product"] = [t["product"] EXCEPT ![m.id] = [t["product"][m.id] EXCEPT !["decayed"] = decayed]]
      BY <2>3 DEF products
    <2>5. SameProducts(s, t)
      BY <2>4, ProductColumns
    <2>6. QED
      BY <2>2, <2>5 DEF s
  <1>3. QED
    BY <1>1, <1>2

\* A new supplier.
LEMMA SupplierLeaves ==
    ASSUME NEW m, m.route = "POST /suppliers", NEW u, NEW t, Shaped(t)
    PROVE  LET s == WithSupplier(m, u, t)
           IN  (\A name \in Other({"supplier"}) : s[name] = t[name]) /\ SameSuppliers(s, t)
  <1> DEFINE s == WithSupplier(m, u, t)
             row == [tenant |-> u.tenant, active |-> TRUE, n |-> 0]
             table == Created(t["supplier"], m.new, row)
  <1>0. DOMAIN t = DOMAIN Columns
    BY DEF Shaped
  <1>1. s = [t EXCEPT !["supplier"] = table]
    BY DEF WithSupplier
  <1>2. DOMAIN t["supplier"] \subseteq DOMAIN table /\ \A i \in DOMAIN t["supplier"] : table[i] = t["supplier"][i]
    <2> HIDE DEF row
    <2>1. QED
      BY DEF Created
  <1> HIDE DEF s, table
  <1>3. s["supplier"] = table
    BY <1>0, <1>1, ColumnFacts
  <1>4. SameSuppliers(s, t)
    BY <1>2, <1>3 DEF SameSuppliers
  <1>5. \A name \in Other({"supplier"}) : s[name] = t[name]
    BY <1>0, <1>1 DEF Other
  <1>6. QED
    BY <1>4, <1>5 DEF s

\* A new warehouse, or one that is closed.
LEMMA WarehouseLeaves ==
    ASSUME NEW m, m.route = "POST /warehouses" \/ m.route = "POST /warehouses/:id/close", NEW u, NEW t, Shaped(t)
    PROVE  /\ Leaving({"warehouse"}, WithWarehouse(m, u, t), t)
           /\ SameWarehouses(WithWarehouse(m, u, t), t)
  <1> DEFINE s == WithWarehouse(m, u, t)
             old == t["warehouse"]
  <1>0. DOMAIN t = DOMAIN Columns
    BY DEF Shaped
  <1>1. CASE m.route = "POST /warehouses"
    <2> DEFINE row == [tenant |-> u.tenant, hidden |-> FALSE, active |-> TRUE, n |-> 0]
               table == Created(old, m.new, row)
    <2>1. s = [t EXCEPT !["warehouse"] = table]
      BY <1>1 DEF WithWarehouse
    <2>2. DOMAIN old \subseteq DOMAIN table /\ \A i \in DOMAIN old : table[i] = old[i]
      <3> HIDE DEF row
      <3>1. QED
        BY DEF Created
    <2> HIDE DEF s, table
    <2>3. s["warehouse"] = table
      BY <1>0, <2>1, ColumnFacts
    <2>4. SameWarehouses(s, t)
      BY <2>2, <2>3 DEF SameWarehouses
    <2>5. Leaving({"warehouse"}, s, t)
      BY <1>0, <2>1 DEF Other, Leaving
    <2>6. QED
      BY <2>4, <2>5 DEF s
  <1>2. CASE m.route = "POST /warehouses/:id/close"
    <2> DEFINE table == [old EXCEPT ![m.id] = [old[m.id] EXCEPT !["active"] = FALSE]]
    <2>1. s = [t EXCEPT !["warehouse"] = table]
      BY <1>2 DEF WithWarehouse
    <2>2. \A i \in DOMAIN old : DOMAIN old[i] = {"tenant", "hidden", "active", "n"}
      <3>1. TableOK("warehouse", old)
        BY TableOf, ColumnFacts
      <3>2. QED
        BY <3>1, RowColumns, ColumnFacts DEF TableOK
    <2>3. ASSUME NEW i \in DOMAIN old
          PROVE  table[i].tenant = old[i].tenant /\ table[i].hidden = old[i].hidden /\ table[i].n = old[i].n
      BY <2>2
    <2>4. DOMAIN table = DOMAIN old
      OBVIOUS
    <2> HIDE DEF s, table
    <2>5. s["warehouse"] = table
      BY <1>0, <2>1, ColumnFacts
    <2>6. SameWarehouses(s, t)
      BY <2>3, <2>4, <2>5 DEF SameWarehouses
    <2>7. Leaving({"warehouse"}, s, t)
      BY <1>0, <2>1 DEF Other, Leaving
    <2>8. QED
      BY <2>6, <2>7 DEF s
  <1>3. QED
    BY <1>1, <1>2

\* A company that is activated or deactivated, and no other.
OneTenant(id, s, t) ==
    /\ DOMAIN s.tenant = DOMAIN t.tenant
    /\ \A i \in DOMAIN t.tenant : i # id => s.tenant[i] = t.tenant[i]

LEMMA TenantLeaves ==
    ASSUME NEW m, m.route \in TenantRoutes, NEW t, Shaped(t)
    PROVE  Leaving({"tenant"}, WithUser(m, t), t) /\ OneTenant(m.id, WithUser(m, t), t)
  <1> DEFINE s == WithUser(m, t)
             active == (m.route = "PATCH /admin/tenants/:id/activate")
             table == [t["tenant"] EXCEPT ![m.id] = [t["tenant"][m.id] EXCEPT !["active"] = active]]
  <1>0. DOMAIN t = DOMAIN Columns
    BY DEF Shaped
  <1>1. s = [t EXCEPT !["tenant"] = table]
    BY DEF WithUser, TenantRoutes
  <1>2. DOMAIN table = DOMAIN t["tenant"] /\ \A i \in DOMAIN t["tenant"] : i # m.id => table[i] = t["tenant"][i]
    OBVIOUS
  <1> HIDE DEF s, table
  <1>3. s["tenant"] = table
    BY <1>0, <1>1, ColumnFacts
  <1>4. Leaving({"tenant"}, s, t)
    BY <1>0, <1>1 DEF Other, Leaving
  <1>5. QED
    BY <1>2, <1>3, <1>4 DEF s, OneTenant

-----------------------------------------------------------------------------
(* A page asks again for every list that a change of its own may change *)

LEMMA PrefixOfOne == ASSUME NEW a, NEW k, k = <<a>> PROVE IsPrefix(<<a>>, k)
  BY DEF IsPrefix

LEMMA PrefixOfTwo == ASSUME NEW a, NEW b, NEW k, k = <<a, b>> PROVE IsPrefix(<<a>>, k)
  BY DEF IsPrefix

LEMMA PrefixesOfThree ==
    ASSUME NEW a, NEW b, NEW c, NEW k, k = <<a, b, c>>
    PROVE  IsPrefix(<<a>>, k) /\ IsPrefix(<<a, b>>, k) /\ IsPrefix(<<a, b, c>>, k)
  BY DEF IsPrefix

\* A request with a route of one kind is of that kind.
LEMMA KindOf ==
    ASSUME NEW m \in Requests
    PROVE  /\ m.route \in TenantRoutes \union {"POST /auth/register"} => m \in UserRequests
           /\ m.route = "POST /suppliers" => m \in SupplierRequests
           /\ m.route \in {"POST /warehouses", "POST /warehouses/:id/close"} => m \in WarehouseRequests
           /\ m.route \in StockChanges => m \in StockRequests
           /\ m.route \in OrderChanges => m \in OrderRequests
           /\ m.route = "POST /reports/trigger-decay" => m \in DecayRequests
  BY UserRequestFacts, ProductRequestFacts, SupplierRequestFacts, WarehouseRequestFacts, LocationRequestFacts,
     StockRequestFacts, OrderRequestFacts, DecayRequestFacts DEF Requests, TenantRoutes, StockChanges, OrderChanges

Hits(p, q, m) == \E prefix \in Invalidates(p, m) : IsPrefix(prefix, q.key)
Covers(p, q, m) ==
    Hits(p, q, m) \/ q.key \in Refetches(p, m) \/ <<p, m.route, q.route>> \in Forgotten
Leaves(q, u, m, t) == ListOf(q, u, Written(m, u, t)) = ListOf(q, u, t)

LEMMA HitBy ==
    ASSUME NEW p, NEW q, NEW m, NEW prefix \in Invalidates(p, m), IsPrefix(prefix, q.key)
    PROVE  Covers(p, q, m)
  BY DEF Covers, Hits

\* Which tables a change of each kind writes.
LEMMA StockChange ==
    ASSUME NEW m \in Requests, m.route \in StockChanges, NEW u, NEW t, Sound(t), NEW q
    PROVE  /\ q.route = "GET /products" /\ q.names => Leaves(q, u, m, t)
           /\ q.route = "GET /locations" => Leaves(q, u, m, t)
  <1> DEFINE s == Written(m, u, t)
  <1>1. s = WithStock(m, t) /\ m \in StockRequests
    BY KindOf, WrittenByKind
  <1>2. (\A name \in Other({"inventory", "product", "movement"}) : s[name] = t[name]) /\ SameProducts(s, t)
    BY <1>1, StockLeaves DEF Sound
  <1> HIDE DEF s
  <1>3. ListOf(q, u, s) = ListOf(q, u, t) => Leaves(q, u, m, t)
    BY DEF Leaves, s
  <1>4. s.tenant = t.tenant /\ s.location = t.location /\ s.warehouse = t.warehouse
    BY <1>2, ColumnFacts DEF Other
  <1>5. SameWarehouses(s, t)
    BY <1>4, SameTables
  <1>6. DOMAIN s.tenant = DOMAIN t.tenant /\ References(t)
    BY <1>4 DEF Sound
  <1>7. QED
    <2>1. ASSUME q.route = "GET /products", q.names PROVE Leaves(q, u, m, t)
      <3>1. ListOf(q, u, s) = ListOf(q, u, t)
        BY <1>2, <1>4, <1>5, <1>6, <2>1, ProductsStay
      <3>2. QED
        BY <1>3, <3>1
    <2>2. ASSUME q.route = "GET /locations" PROVE Leaves(q, u, m, t)
      <3>1. ListOf(q, u, s) = ListOf(q, u, t)
        BY <1>2, <1>4, <1>5, <1>6, <2>2, LocationsStay
      <3>2. QED
        BY <1>3, <3>1
    <2>3. QED
      BY <2>1, <2>2

LEMMA OrderChange ==
    ASSUME NEW m \in Requests, m.route \in OrderChanges, NEW u, NEW t, Sound(t), NEW q
    PROVE  /\ q.route = "GET /products" /\ q.names => Leaves(q, u, m, t)
           /\ q.route = "GET /locations" => Leaves(q, u, m, t)
           /\ q.route = "GET /suppliers" => Leaves(q, u, m, t)
  <1> DEFINE s == Written(m, u, t)
  <1>1. s = WithOrder(m, t) /\ m \in OrderRequests
    BY KindOf, WrittenByKind
  <1>2. \A name \in Other({"order", "inventory", "movement"}) : s[name] = t[name]
    BY <1>1, OrderLeaves DEF Sound
  <1> HIDE DEF s
  <1>3. ListOf(q, u, s) = ListOf(q, u, t) => Leaves(q, u, m, t)
    BY DEF Leaves, s
  <1>4. /\ s.tenant = t.tenant /\ s.location = t.location /\ s.warehouse = t.warehouse
        /\ s.product = t.product /\ s.supplier = t.supplier
    BY <1>2, ColumnFacts DEF Other
  <1>5. SameWarehouses(s, t) /\ SameProducts(s, t)
    BY <1>4, SameTables
  <1>6. DOMAIN s.tenant = DOMAIN t.tenant /\ References(t)
    BY <1>4 DEF Sound
  <1>7. QED
    <2>1. ASSUME q.route = "GET /products", q.names PROVE Leaves(q, u, m, t)
      <3>1. ListOf(q, u, s) = ListOf(q, u, t)
        BY <1>2, <1>4, <1>5, <1>6, <2>1, ProductsStay
      <3>2. QED
        BY <1>3, <3>1
    <2>2. ASSUME q.route = "GET /locations" PROVE Leaves(q, u, m, t)
      <3>1. ListOf(q, u, s) = ListOf(q, u, t)
        BY <1>2, <1>4, <1>5, <1>6, <2>2, LocationsStay
      <3>2. QED
        BY <1>3, <3>1
    <2>3. ASSUME q.route = "GET /suppliers" PROVE Leaves(q, u, m, t)
      <3>1. ListOf(q, u, s) = ListOf(q, u, t)
        BY <1>2, <1>4, <1>5, <1>6, <2>3, SuppliersStay
      <3>2. QED
        BY <1>3, <3>1
    <2>4. QED
      BY <2>1, <2>2, <2>3

LEMMA SupplierChange ==
    ASSUME NEW m \in Requests, m.route = "POST /suppliers", NEW u, NEW t, Sound(t), NEW q
    PROVE  /\ q.route = "GET /products" /\ q.names => Leaves(q, u, m, t)
           /\ q.route = "GET /locations" => Leaves(q, u, m, t)
           /\ q.route = "GET /purchase-orders" => Leaves(q, u, m, t)
  <1> DEFINE s == Written(m, u, t)
  <1>1. s = WithSupplier(m, u, t)
    BY KindOf, WrittenByKind
  <1> HIDE DEF s
  <1>2. (\A name \in Other({"supplier"}) : s[name] = t[name]) /\ SameSuppliers(s, t)
    <2> DEFINE w == WithSupplier(m, u, t)
    <2>1. (\A name \in Other({"supplier"}) : w[name] = t[name]) /\ SameSuppliers(w, t)
      BY SupplierLeaves DEF Sound
    <2> HIDE DEF w
    <2>2. s = w
      BY <1>1 DEF w
    <2>3. QED
      BY <2>1, <2>2
  <1>3. ListOf(q, u, s) = ListOf(q, u, t) => Leaves(q, u, m, t)
    BY DEF Leaves, s
  <1>4. /\ s.tenant = t.tenant /\ s.location = t.location /\ s.warehouse = t.warehouse
        /\ s.product = t.product /\ s.order = t.order
    BY <1>2, ColumnFacts DEF Other
  <1>5. SameWarehouses(s, t) /\ SameProducts(s, t)
    BY <1>4, SameTables
  <1>6. DOMAIN s.tenant = DOMAIN t.tenant /\ References(t)
    BY <1>4 DEF Sound
  <1>7. QED
    <2>1. ASSUME q.route = "GET /products", q.names PROVE Leaves(q, u, m, t)
      <3>1. ListOf(q, u, s) = ListOf(q, u, t)
        BY <1>2, <1>4, <1>5, <1>6, <2>1, ProductsStay
      <3>2. QED
        BY <1>3, <3>1
    <2>2. ASSUME q.route = "GET /locations" PROVE Leaves(q, u, m, t)
      <3>1. ListOf(q, u, s) = ListOf(q, u, t)
        BY <1>2, <1>4, <1>5, <1>6, <2>2, LocationsStay
      <3>2. QED
        BY <1>3, <3>1
    <2>3. ASSUME q.route = "GET /purchase-orders" PROVE Leaves(q, u, m, t)
      <3>1. ListOf(q, u, s) = ListOf(q, u, t)
        BY <1>2, <1>4, <1>5, <1>6, <2>3, OrdersStay
      <3>2. QED
        BY <1>3, <3>1
    <2>4. QED
      BY <2>1, <2>2, <2>3

LEMMA WarehouseChange ==
    ASSUME NEW m \in Requests, m.route \in {"POST /warehouses", "POST /warehouses/:id/close"},
           NEW u, NEW t, Sound(t), NEW q, q.route = "GET /locations"
    PROVE  Leaves(q, u, m, t)
  <1> DEFINE s == Written(m, u, t)
  <1>1. s = WithWarehouse(m, u, t)
    BY KindOf, WrittenByKind
  <1> HIDE DEF s
  <1>2. Leaving({"warehouse"}, s, t) /\ SameWarehouses(s, t)
    BY <1>1, WarehouseLeaves DEF Sound
  <1>3. ListOf(q, u, s) = ListOf(q, u, t) => Leaves(q, u, m, t)
    BY DEF Leaves, s
  <1>4. s.tenant = t.tenant /\ s.location = t.location
    BY <1>2, ColumnFacts DEF Other, Leaving
  <1>5. QED
    BY <1>3, <1>2, <1>4, LocationsStay DEF Sound

LEMMA CompanyChange ==
    ASSUME NEW m \in Requests, m.route \in TenantRoutes, m.id # 1, NEW u, NEW t, Sound(t), NEW q,
           q.route = "GET /admin/tenants/:id"
    PROVE  Leaves(q, u, m, t)
  <1> DEFINE s == Written(m, u, t)
  <1>1. s = WithUser(m, t)
    BY KindOf, WrittenByKind
  <1> HIDE DEF s
  <1>2. Leaving({"tenant"}, s, t) /\ OneTenant(m.id, s, t)
    BY <1>1, TenantLeaves DEF Sound
  <1>3. ListOf(q, u, s) = ListOf(q, u, t) => Leaves(q, u, m, t)
    BY DEF Leaves, s
  <1>4. s.user = t.user /\ s.warehouse = t.warehouse /\ s.product = t.product
    BY <1>2, ColumnFacts DEF Other, Leaving
  <1>5. QED
    BY <1>3, <1>2, <1>4, CompanyStays DEF OneTenant

LEMMA DecayChange ==
    ASSUME NEW m \in Requests, m.route = "POST /reports/trigger-decay", NEW u, NEW t, Sound(t), NEW q
    PROVE  /\ q.route = "GET /products" /\ q.names => Leaves(q, u, m, t)
           /\ q.route = "GET /locations" => Leaves(q, u, m, t)
           /\ q.route \in {"GET /reports/low-stock", "GET /reports/reorder-forecast"} => Leaves(q, u, m, t)
  <1> DEFINE s == Written(m, u, t)
  <1>1. s = WithDecay(m, t)
    BY KindOf, WrittenByKind
  <1>2. (\A name \in Other({"product", "audit"}) : s[name] = t[name]) /\ SameProducts(s, t)
    BY <1>1, DecayLeaves DEF Sound
  <1> HIDE DEF s
  <1>3. ListOf(q, u, s) = ListOf(q, u, t) => Leaves(q, u, m, t)
    BY DEF Leaves, s
  <1>4. /\ s.tenant = t.tenant /\ s.location = t.location /\ s.warehouse = t.warehouse
        /\ s.inventory = t.inventory
    BY <1>2, ColumnFacts DEF Other
  <1>5. SameWarehouses(s, t)
    BY <1>4, SameTables
  <1>6. DOMAIN s.tenant = DOMAIN t.tenant /\ References(t)
    BY <1>4 DEF Sound
  <1>7. QED
    <2>1. ASSUME q.route = "GET /products", q.names PROVE Leaves(q, u, m, t)
      <3>1. ListOf(q, u, s) = ListOf(q, u, t)
        BY <1>2, <1>4, <1>5, <1>6, <2>1, ProductsStay
      <3>2. QED
        BY <1>3, <3>1
    <2>2. ASSUME q.route = "GET /locations" PROVE Leaves(q, u, m, t)
      <3>1. ListOf(q, u, s) = ListOf(q, u, t)
        BY <1>2, <1>4, <1>5, <1>6, <2>2, LocationsStay
      <3>2. QED
        BY <1>3, <3>1
    <2>3. ASSUME q.route \in {"GET /reports/low-stock", "GET /reports/reorder-forecast"} PROVE Leaves(q, u, m, t)
      <3>1. ListOf(q, u, s) = ListOf(q, u, t)
        BY <1>2, <1>4, <1>5, <1>6, <2>3, InventoryStays
      <3>2. QED
        BY <1>3, <3>1
    <2>4. QED
      BY <2>1, <2>2, <2>3

-----------------------------------------------------------------------------
LEMMA CompaniesCovered ==
    ASSUME NEW u, NEW q \in CompaniesPage(u.role).queries, NEW m \in Requests,
           m.route \in OfferedOn("/companies"), NEW t, Sound(t)
    PROVE  Covers("/companies", q, m) \/ Leaves(q, u, m, t)
  <1>1. m.route \in TenantRoutes \/ m.route = "POST /auth/register"
    BY DEF OfferedOn
  <1>2. CASE q.route = "GET /admin/tenants" /\ q.key = <<"admin", "tenants", "list">>
    <2>1. CASE m.route = "POST /auth/register"
      BY <1>2, <2>1 DEF Covers, Forgotten
    <2>2. CASE m.route \in TenantRoutes
      <3>1. <<"admin", "tenants">> \in Invalidates("/companies", m)
        BY <2>2 DEF Invalidates, AfterAccount, TenantRoutes
      <3>2. IsPrefix(<<"admin", "tenants">>, q.key)
        BY <1>2, PrefixesOfThree
      <3>3. QED
        BY <3>1, <3>2, HitBy
    <2>3. QED
      BY <1>1, <2>1, <2>2
  <1>3. CASE q.route = "GET /admin/tenants/:id" /\ q.key = <<"admin", "tenant", Selected>>
    <2>0. IsPrefix(<<"admin", "tenant", Selected>>, q.key)
      BY <1>3, PrefixesOfThree
    <2>1. CASE m.route = "POST /auth/register"
      <3>1. <<"admin", "tenant", Selected>> \in Invalidates("/companies", m)
        BY <2>1 DEF Invalidates, AfterAccount
      <3>2. QED
        BY <2>0, <3>1, HitBy
    <2>2. CASE m.route \in TenantRoutes /\ m.id = 1
      <3>1. <<"admin", "tenant", IdText(m.id)>> \in Invalidates("/companies", m)
        BY <2>2 DEF Invalidates, AfterAccount, TenantRoutes
      <3>2. IdText(m.id) = Selected
        BY <2>2 DEF Selected
      <3>3. QED
        BY <2>0, <3>1, <3>2, HitBy
    <2>3. CASE m.route \in TenantRoutes /\ m.id # 1
      BY <1>3, <2>3, CompanyChange
    <2>4. QED
      BY <1>1, <2>1, <2>2, <2>3
  <1>4. QED
    BY <1>2, <1>3, CompaniesQueries

LEMMA UsersCovered ==
    ASSUME NEW u, NEW q \in UsersPage(u.role).queries, NEW m, NEW t
    PROVE  Covers("/users", q, m) \/ Leaves(q, u, m, t)
  <1>1. <<"users">> \in Invalidates("/users", m) /\ <<"admin", "tenants">> \in Invalidates("/users", m)
    BY DEF Invalidates, AfterAccount
  <1>2. IsPrefix(<<"users">>, q.key) \/ IsPrefix(<<"admin", "tenants">>, q.key)
    BY UsersQueries, PrefixOfTwo, PrefixesOfThree
  <1>3. QED
    BY <1>1, <1>2, HitBy

LEMMA WarehousesCovered ==
    ASSUME NEW u, NEW q \in WarehousesPage(u.role).queries, NEW m \in Requests,
           m.route \in OfferedOn("/warehouses"), NEW t, Sound(t)
    PROVE  Covers("/warehouses", q, m) \/ Leaves(q, u, m, t)
  <1>0. Invalidates("/warehouses", m) = AfterWarehouse(m)
    BY DEF Invalidates
  <1>1. m.route \in {"POST /warehouses", "PATCH /warehouses/:id", "POST /locations", "PATCH /locations/:id",
                     "POST /warehouses/:id/close", "DELETE /warehouses/:id", "DELETE /locations/:id"}
    BY DEF OfferedOn
  <1>2. CASE q.route = "GET /warehouses" /\ q.key = <<"warehouses", "list">>
    <2>1. CASE m.route = "DELETE /locations/:id"
      BY <1>2, <2>1 DEF Covers, Forgotten
    <2>2. CASE m.route # "DELETE /locations/:id"
      <3>1. <<"warehouses">> \in AfterWarehouse(m)
        BY <2>2 DEF AfterWarehouse
      <3>2. IsPrefix(<<"warehouses">>, q.key)
        BY <1>2, PrefixOfTwo
      <3>3. QED
        BY <1>0, <3>1, <3>2, HitBy
    <2>3. QED
      BY <2>1, <2>2
  <1>3. CASE q.route = "GET /locations" /\ q.key = <<"locations", "list">>
    <2>1. CASE m.route \in {"POST /locations", "PATCH /locations/:id", "DELETE /locations/:id"}
      <3>1. <<"locations">> \in AfterWarehouse(m)
        BY <2>1 DEF AfterWarehouse, LocationForm
      <3>2. IsPrefix(<<"locations">>, q.key)
        BY <1>3, PrefixOfTwo
      <3>3. QED
        BY <1>0, <3>1, <3>2, HitBy
    <2>2. CASE m.route \in {"PATCH /warehouses/:id", "DELETE /warehouses/:id"}
      BY <1>3, <2>2 DEF Covers, Forgotten
    <2>3. CASE m.route \in {"POST /warehouses", "POST /warehouses/:id/close"}
      BY <1>3, <2>3, WarehouseChange
    <2>4. QED
      BY <1>1, <2>1, <2>2, <2>3
  <1>4. QED
    BY <1>2, <1>3, WarehousesQueries

LEMMA ProductsCovered ==
    ASSUME NEW u, NEW q \in ProductsPage(u.role).queries, NEW m, NEW t
    PROVE  Covers("/products", q, m) \/ Leaves(q, u, m, t)
  <1>1. <<"products">> \in Invalidates("/products", m)
    BY DEF Invalidates
  <1>2. IsPrefix(<<"products">>, q.key)
    BY ProductsQueries, PrefixOfTwo
  <1>3. QED
    BY <1>1, <1>2, HitBy

LEMMA InventoryCovered ==
    ASSUME NEW u, NEW q \in InventoryPage(u.role).queries, NEW m \in Requests,
           m.route \in OfferedOn("/inventory"), NEW t, Sound(t)
    PROVE  Covers("/inventory", q, m) \/ Leaves(q, u, m, t)
  <1>1. m.route \in StockChanges
    BY DEF OfferedOn, StockChanges
  <1>2. <<"inventory">> \in Invalidates("/inventory", m)
    BY DEF Invalidates
  <1>3. CASE q.key \in {<<"inventory", "list">>, <<"inventory", "detail", Selected>>}
    <2>1. IsPrefix(<<"inventory">>, q.key)
      BY <1>3, PrefixOfTwo, PrefixesOfThree
    <2>2. QED
      BY <1>2, <2>1, HitBy
  <1>4. QED
    BY <1>1, <1>3, InventoryQueries, StockChange

LEMMA MovementsCovered ==
    ASSUME NEW u, NEW q \in MovementsPage(u.role).queries, NEW m \in Requests,
           m.route \in OfferedOn("/movements"), NEW t, Sound(t)
    PROVE  Covers("/movements", q, m) \/ Leaves(q, u, m, t)
  <1>1. m.route \in StockChanges
    BY DEF OfferedOn, StockChanges
  <1>2. <<"stock-movements">> \in Invalidates("/movements", m)
    BY DEF Invalidates
  <1>3. CASE q.key = <<"stock-movements", "list">>
    <2>1. IsPrefix(<<"stock-movements">>, q.key)
      BY <1>3, PrefixOfTwo
    <2>2. QED
      BY <1>2, <2>1, HitBy
  <1>4. QED
    BY <1>1, <1>3, MovementsQueries, StockChange

LEMMA OrdersCovered ==
    ASSUME NEW u, NEW q \in OrdersPage(u.role).queries, NEW m \in Requests,
           m.route \in OfferedOn("/orders"), NEW t, Sound(t)
    PROVE  Covers("/orders", q, m) \/ Leaves(q, u, m, t)
  <1>0. Invalidates("/orders", m) = AfterOrder(m)
    BY DEF Invalidates
  <1>1. m.route = "POST /suppliers" \/ m.route \in OrderChanges
    BY DEF OfferedOn, OrderChanges
  <1>2. CASE m.route = "POST /suppliers"
    <2>1. CASE q.key = <<"suppliers">>
      <3>1. <<"suppliers">> \in AfterOrder(m)
        BY <1>2 DEF AfterOrder
      <3>2. IsPrefix(<<"suppliers">>, q.key)
        BY <2>1, PrefixOfOne
      <3>3. QED
        BY <1>0, <3>1, <3>2, HitBy
    <2>2. QED
      BY <1>2, <2>1, OrdersQueries, SupplierChange
  <1>3. CASE m.route \in OrderChanges
    <2>1. CASE q.key = <<"purchase-orders">>
      <3>1. <<"purchase-orders">> \in AfterOrder(m)
        BY <1>3 DEF AfterOrder, OrderChanges
      <3>2. IsPrefix(<<"purchase-orders">>, q.key)
        BY <2>1, PrefixOfOne
      <3>3. QED
        BY <1>0, <3>1, <3>2, HitBy
    <2>2. QED
      BY <1>3, <2>1, OrdersQueries, OrderChange
  <1>4. QED
    BY <1>1, <1>2, <1>3

LEMMA ReportsCovered ==
    ASSUME NEW u, NEW q \in ReportsPage(u.role).queries, NEW m \in Requests,
           m.route \in OfferedOn("/reports"), NEW t, Sound(t)
    PROVE  Covers("/reports", q, m) \/ Leaves(q, u, m, t)
  <1>1. m.route = "POST /reports/trigger-decay"
    BY DEF OfferedOn
  <1>2. CASE q.key \in {<<"reports", "dead-stock">>, <<"reports", "decay-history">>}
    BY <1>2 DEF Covers, Refetches, When
  <1>3. CASE q.route = "GET /jobs/:id"
    BY <1>3, JobsStay DEF Leaves
  <1>4. QED
    BY <1>1, <1>2, <1>3, ReportsQueries, DecayChange

\* Of the lists on a page, a change the page offers leaves those as they were that the
\* page does not ask for again, nor forgets to.
LEMMA Coverage ==
    ASSUME Seated, NEW m \in Requests, m.route \in Page(path, viewer.role).offers, NEW t, Sound(t)
    PROVE  Covers(path, query, m) \/ Leaves(query, viewer, m, t)
  <1>1. path \in Paths /\ m.route \in OfferedOn(path) /\ query \in Page(path, viewer.role).queries
    BY Offers, GateFacts DEF Seated
  <1>2. CASE path = "/companies"
    BY <1>1, <1>2, PageFacts, CompaniesCovered
  <1>3. CASE path = "/users"
    BY <1>1, <1>3, PageFacts, UsersCovered
  <1>4. CASE path = "/warehouses"
    BY <1>1, <1>4, PageFacts, WarehousesCovered
  <1>5. CASE path = "/products"
    BY <1>1, <1>5, PageFacts, ProductsCovered
  <1>6. CASE path = "/inventory"
    BY <1>1, <1>6, PageFacts, InventoryCovered
  <1>7. CASE path = "/movements"
    BY <1>1, <1>7, PageFacts, MovementsCovered
  <1>8. CASE path = "/orders"
    BY <1>1, <1>8, PageFacts, OrdersCovered
  <1>9. CASE path = "/reports"
    BY <1>1, <1>9, PageFacts, ReportsCovered
  <1>10. CASE path = "/dashboard"
    <2>1. OfferedOn("/dashboard") = {}
      BY DEF OfferedOn
    <2>2. QED
      BY <1>1, <1>10, <2>1
  <1>11. CASE path = "/profile"
    <2>1. query \in ProfilePage(viewer.role).queries
      BY <1>1, <1>11, PageFacts
    <2>2. QED
      BY <2>1 DEF ProfilePage
  <1>12. \/ path = "/dashboard" \/ path = "/companies" \/ path = "/users" \/ path = "/warehouses"
         \/ path = "/products" \/ path = "/inventory" \/ path = "/movements" \/ path = "/orders"
         \/ path = "/reports" \/ path = "/profile"
    BY <1>1 DEF Paths
  <1>13. QED
    BY <1>2, <1>3, <1>4, <1>5, <1>6, <1>7, <1>8, <1>9, <1>10, <1>11, <1>12

-----------------------------------------------------------------------------
(* A confirmed change of the viewer's own is on the page *)

\* A change that is written is a step of the past, and where it changed the list the
\* page asks for it again, or forgets to.  What a page has to show is in the past; an
\* answer under way shows it, and so does what is kept while nothing is under way.
Dues ==
    /\ own.at = "written" =>
           /\ own.as \in 2..Len(history)
           /\ history[own.as] # history[own.as - 1] => Covers(path, query, own.request)
    /\ DOMAIN due = Cursors
    /\ \A c \in Cursors :
           /\ due[c] \in 0..Len(history)
           /\ fetch[c].at = "answered" => fetch[c].read \in due[c]..Len(history)
           /\ cache[c].answer # None /\ ~cache[c].failed /\ fetch[c] = Idle => cache[c].read >= due[c]

LEMMA OwnSteps ==
    ASSUME [Next]_vars
    PROVE  own' = own \/ own' = Idle \/ WriteOwn
           \/ \E m : own' = [at |-> "forbidden", request |-> m] \/ own' = [at |-> "checked", request |-> m]
  BY DEF Next, OpenPage, LeavePage, LoadMore, Serve, Receive, Fail, Ask, Confirm, Refused, AskOther, WriteOther,
     vars, server

LEMMA DueSteps ==
    ASSUME [Next]_vars
    PROVE  due' = due \/ Confirm
  BY DEF Next, OpenPage, LeavePage, LoadMore, Serve, Receive, Fail, Ask, WriteOwn, Refused, AskOther, WriteOther,
     vars

LEMMA WrittenStep ==
    ASSUME Client, Admits, Kept, Dues, [Next]_vars
    PROVE  own'.at = "written" =>
               /\ own'.as \in 2..Len(history')
               /\ history'[own'.as] # history'[own'.as - 1] => Covers(path, query, own'.request)
  <1>0. Longer(history, history') /\ Len(history) \in Nat \ {0} /\ Kept'
    BY KeptStep, KeptLength DEF Client
  <1>1. CASE own' = own
    <2> SUFFICES ASSUME own.at = "written"
                 PROVE  /\ own.as \in 2..Len(history')
                        /\ history'[own.as] # history'[own.as - 1] => Covers(path, query, own.request)
      BY <1>1
    <2>1. /\ own.as \in 2..Len(history)
          /\ history[own.as] # history[own.as - 1] => Covers(path, query, own.request)
      BY DEF Dues
    <2>2. Len(history') \in Nat
      BY <1>0 DEF Kept, IsSeq
    <2>3. history'[own.as] = history[own.as] /\ history'[own.as - 1] = history[own.as - 1]
      BY <1>0, <2>1 DEF Longer
    <2>4. QED
      BY <1>0, <2>1, <2>2, <2>3 DEF Longer
  <1>2. CASE WriteOwn
    <2> DEFINE m == own.request
               n == Len(history)
               was == List(db)
               is == List(db')
    <2>1. /\ own.at = "checked" /\ own' = [at |-> "written", request |-> m, as |-> Len(history')]
          /\ history' = Append(history, is) /\ db' = Written(m, viewer, db)
      BY <1>2 DEF WriteOwn, Writes
    <2>2. own'.as = Len(history') /\ own'.request = m
      BY <2>1
    <2>3. own # Idle
      BY <2>1, StateFacts
    <2>4. m \in Requests /\ m.route \in Page(path, viewer.role).offers /\ Sound(db) /\ Seated
      BY <2>3 DEF Client, Standing, Admits
    <2>5. Covers(path, query, m) \/ Leaves(query, viewer, m, db)
      BY <2>4, Coverage
    <2>6. Leaves(query, viewer, m, db) => is = was
      BY <2>1 DEF Leaves, ListOf, List
    <2>7. history[n] = was
      BY DEF Kept
    <2> HIDE DEF m, is, was
    <2>8. Len(history') = n + 1 /\ history'[n] = history[n] /\ history'[n + 1] = is
      BY <1>0, <2>1, AppendFacts DEF Kept
    <2>9. (n + 1) - 1 = n /\ n + 1 \in 2..Len(history')
      BY <1>0, <2>8
    <2> HIDE DEF n
    <2>10. QED
      BY <2>2, <2>5, <2>6, <2>7, <2>8, <2>9
  <1>3. CASE own' = Idle \/ \E m : own' = [at |-> "forbidden", request |-> m] \/ own' = [at |-> "checked", request |-> m]
    BY <1>3, StateFacts
  <1>4. QED
    BY <1>1, <1>2, <1>3, OwnSteps

\* Where a change adds to what a page has to show, its list is asked for anew.
LEMMA ConfirmStep ==
    ASSUME Client, Dues, Confirm, due' # due
    PROVE  /\ due' = [due EXCEPT ![after] = own.as] /\ own.as \in 2..Len(history)
           /\ after \in Cursors /\ fetch'[after] = Sent
  <1> DEFINE m == own.request
             entries == IF Matches(m) THEN Invalidated ELSE cache
             back == shown /\ Rewinds(path) /\ after # 0
  <1>1. /\ own.at = "written"
        /\ due' = [due EXCEPT ![after] = own.as]
        /\ Displayed /\ history[own.as] # history[own.as - 1]
        /\ <<path, m.route, query.route>> \notin Forgotten
    BY DEF Confirm
  <1>2. IF back THEN Needs(0, entries, Refreshed(m)) ELSE fetch' = Refreshed(m)
    BY DEF Confirm
  <1>3. own.as \in 2..Len(history) /\ Covers(path, query, m)
    BY <1>1 DEF Dues
  <1>4. shown /\ (Matches(m) \/ query.key \in Refetches(path, m))
    BY <1>1, <1>3 DEF Covers, Hits, Matches, Displayed
  <1>5. Refreshed(m) = Asked(after)
    BY <1>4 DEF Refreshed
  <1>6. after \in Cursors /\ cache[after].answer # None
    BY <1>1 DEF Client, Typed, Displayed, HasData, Entry
  <1>7. Refreshed(m)[after] = Sent
    BY <1>5, <1>6, AskedFacts DEF Client
  <1>8. DOMAIN entries = Cursors /\ \A d \in Cursors : IsEntry(entries[d])
    BY InvalidatedFacts DEF Client, Typed
  <1>9. DOMAIN Refreshed(m) = Cursors
    BY RefreshedFacts DEF Client
  <1>10. 0 \in Cursors
    BY DEF Cursors
  <1> HIDE DEF entries, m
  <1>11. back => fetch'[after] = Refreshed(m)[after]
    BY <1>2, <1>6, <1>8, <1>9, <1>10, NeedsFacts
  <1>12. QED
    BY <1>1, <1>2, <1>3, <1>6, <1>7, <1>11

LEMMA DuesStep ==
    ASSUME Client, Admits, Kept, Dues, [Next]_vars
    PROVE  Dues'
  <1>0. Longer(history, history') /\ Len(history) \in Nat /\ Len(history') \in Nat /\ Len(history) <= Len(history')
    <2>1. Kept' /\ Longer(history, history')
      BY KeptStep DEF Client
    <2>2. QED
      BY <2>1, KeptLength DEF Kept, IsSeq, Longer
  <1>1. viewer' = viewer /\ path' = path /\ query' = query
    BY Seats
  <1>2. \/ due' = due
        \/ /\ due' = [due EXCEPT ![after] = own.as] /\ own.as \in 2..Len(history)
           /\ after \in Cursors /\ fetch'[after] = Sent
    BY DueSteps, ConfirmStep
  <1>3. DOMAIN due' = Cursors /\ \A c \in Cursors : due'[c] \in 0..Len(history')
    BY <1>0, <1>2 DEF Dues
  <1>4. \A c \in Cursors : due'[c] = due[c] \/ fetch'[c] = Sent
    BY <1>2 DEF Dues
  <1>5. ASSUME NEW c \in Cursors
        PROVE  /\ fetch'[c].at = "answered" => fetch'[c].read \in due'[c]..Len(history')
               /\ cache'[c].answer # None /\ ~cache'[c].failed /\ fetch'[c] = Idle => cache'[c].read >= due'[c]
    <2>1. CASE fetch'[c] = Sent
      BY <2>1, StateFacts
    <2>2. CASE fetch'[c] # Sent
      <3>0. due'[c] = due[c] /\ due[c] \in 0..Len(history)
        BY <1>4, <2>2 DEF Dues
      <3>1. /\ fetch[c].at = "answered" => fetch[c].read \in due[c]..Len(history)
            /\ cache[c].answer # None /\ ~cache[c].failed /\ fetch[c] = Idle => cache[c].read >= due[c]
        BY DEF Dues
      <3>2. CASE Same(cache'[c], cache[c]) /\ fetch'[c] = fetch[c]
        BY <1>0, <3>0, <3>1, <3>2 DEF Same
      <3>3. CASE Serve(c)
        <4>1. UNCHANGED <<cache, history>> /\ fetch[c] = Sent
          BY <3>3 DEF Serve, server
        <4>2. \/ fetch'[c] = [at |-> "forbidden"]
              \/ fetch'[c] = [at |-> "missing"]
              \/ fetch'[c] = [at |-> "answered", read |-> Len(history), answer |-> Answer(query, viewer, c, Limit, db)]
          BY <3>3 DEF Serve, Client, Typed
        <4>3. /\ fetch'[c].at # "idle"
              /\ fetch'[c].at = "answered" => fetch'[c].read = Len(history)
          BY <4>2
        <4>4. QED
          BY <1>0, <3>0, <4>1, <4>3, StateFacts
      <3>4. CASE Receive(c)
        <4>1. cache'[c].read = fetch[c].read /\ fetch'[c] = Idle /\ fetch[c].at = "answered"
          BY <3>4 DEF Receive, Client, Typed
        <4>2. QED
          BY <1>0, <3>0, <3>1, <4>1, StateFacts
      <3>5. CASE Fail(c)
        <4>1. cache'[c].failed /\ fetch'[c] = Idle
          BY <3>5 DEF Fail, Client, Typed, IsEntry
        <4>2. QED
          BY <4>1, StateFacts
      <3>6. QED
        BY <2>2, <3>2, <3>3, <3>4, <3>5, ClientSteps DEF Client, Steps
    <2>3. QED
      BY <2>1, <2>2
  <1>6. own'.at = "written" =>
            /\ own'.as \in 2..Len(history')
            /\ history'[own'.as] # history'[own'.as - 1] => Covers(path, query, own'.request)
    BY WrittenStep
  <1>7. QED
    BY <1>1, <1>3, <1>5, <1>6 DEF Dues

\* A list that was on the page when a change of its viewer's own was confirmed comes,
\* once nothing is asked for any more, from a read after that change; the four changes
\* aside whose lists the pages forget to ask for.
THEOREM OwnChangesAlwaysShow == Spec => []OwnChangesShow
  <1>1. Init => Admits /\ Dues
    <2> SUFFICES ASSUME Init PROVE Admits /\ Dues
      OBVIOUS
    <2>1. /\ own = Idle /\ \A c \in Cursors : fetch[c] = Idle /\ cache[c] = NoEntry /\ due[c] = 0
          /\ DOMAIN due = Cursors /\ Len(history) = 1
      BY DEF Init
    <2>2. QED
      BY <2>1, StateFacts, NoEntryFacts DEF Admits, Dues
  <1>2. Client /\ Kept /\ Admits /\ Dues /\ [Next]_vars => (Admits /\ Dues)'
    BY AdmitsStep, DuesStep
  <1>3. Client /\ Dues => OwnChangesShow
    <2> SUFFICES ASSUME Client, Dues, Displayed, ~Fetching
                 PROVE  Entry.read >= due[after]
      BY DEF OwnChangesShow
    <2>1. after \in Cursors /\ fetch[after] = Idle
      BY DEF Client, Typed, Fetching
    <2>2. cache[after].answer # None /\ ~cache[after].failed
      BY DEF Displayed, HasData, Entry
    <2>3. QED
      BY <2>1, <2>2 DEF Dues, Entry
  <1>4. QED
    BY <1>1, <1>2, <1>3, AlwaysKept, PTL DEF Spec
=============================================================================
