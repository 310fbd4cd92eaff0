------------------------------- MODULE MCPages -------------------------------
EXTENDS Pages

\* The user at the page; nothing else has that id.
Me == 5

Person(role, tenant) == [id |-> Me, role |-> role, tenant |-> tenant]
MCViewers == {Person("SYSTEM_ADMIN", None)}
             \union {Person(r, 1) : r \in {"COMPANY_ADMIN", "MANAGER", "WAREHOUSE_OPERATOR", "AUDITOR"}}
MCColleagues == {Person("MANAGER", 1)}

\* Two rows of everything that is listed, and an id between them for a new one.
Two(row) == (1 :> row) @@ (3 :> row)
MCStart ==
    [tenant |-> Two([active |-> TRUE]),
     user |-> Two([tenant |-> 1]) @@ (Me :> [tenant |-> 1]),
     product |-> Two([tenant |-> 1, discontinued |-> FALSE, n |-> 0, sold |-> 0, decayed |-> 0]),
     supplier |-> Two([tenant |-> 1, active |-> TRUE, n |-> 0]),
     warehouse |-> Two([tenant |-> 1, hidden |-> FALSE, active |-> TRUE, n |-> 0]),
     location |-> (1 :> [warehouse |-> 1, n |-> 0]) @@ (3 :> [warehouse |-> 3, n |-> 0]),
     inventory |-> (1 :> [product |-> 1, location |-> 1, n |-> 0]) @@ (3 :> [product |-> 3, location |-> 1, n |-> 0]),
     movement |-> (1 :> [product |-> 1, from |-> None, to |-> 1, at |-> 1])
                  @@ (3 :> [product |-> 3, from |-> None, to |-> 1, at |-> 1]),
     order |-> Two([tenant |-> 1, supplier |-> 1, product |-> 1, location |-> 1, n |-> 0]),
     audit |-> Two([product |-> 1])]

\* Goods are product 1, taken from place 1 and brought to place 3, where there is no
\* stock.  An order goes through its states once.  One warehouse is renamed, the other
\* closed, either may go; one location is renamed or moved, the other may go.
Wants(m) ==
    /\ Me \notin {m.id, m.new, m.of, m.to, m.product}
    /\ m.product # 3 /\ m.to # 1
    /\ m \in OrderRequests /\ m.route # "POST /purchase-orders/:id/receive" => m.id = 1
    /\ m.route = "PATCH /warehouses/:id" => m.id = 1 /\ m.active
    /\ m.route = "POST /warehouses/:id/close" => m.id = 3
    /\ m.route = "POST /locations" => m.of = 1
    /\ m.route = "PATCH /locations/:id" => m.id = 1 /\ m.of \in {None, 3}
MCWanted == [r \in RoutesOf(Requests) |-> {m \in Requests : m.route = r /\ Wants(m)}]

\* A manager has every page but the companies and the users; meanwhile goods arrive, a
\* product is added, a warehouse goes.  An admin without a company sees a company sign up.
MCMeanwhile == [r \in Roles |->
    {m \in Requests :
        IF r = "SYSTEM_ADMIN" THEN m.route = "POST /auth/signup" /\ m.new # Me
        ELSE /\ r = "MANAGER" /\ m.new # Me
             /\ \/ m.route = "POST /products"
                \/ m.route = "DELETE /warehouses/:id" /\ m.id = 1
                \/ m.route = "POST /inventory/receive" /\ m.product = 1 /\ m.to = 3}]

=============================================================================
