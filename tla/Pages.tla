--------------------------------- MODULE Pages ---------------------------------
(***************************************************************************)
(* A page of the web client before the API: somebody opens it, walks its   *)
(* lists with "Load more", changes something, leaves and returns, while    *)
(* other people change the same tables.  In between stands the cache of    *)
(* the client (@tanstack/react-query, set up in frontend/src/main.tsx).    *)
(*                                                                         *)
(* The cache is followed for one query of one page, whichever it is:       *)
(* entries of different keys do not touch each other, and an invalidation  *)
(* asks for each entry by itself whether its key begins with the prefix.   *)
(* An entry is data for one cursor of that query.                          *)
(*                                                                         *)
(* Left out: filters and search, a second change sent before the first was *)
(* answered, the one retry of a query (that makes losing an answer rarer). *)
(***************************************************************************)
EXTENDS Catalog, Routes

CONSTANTS
    Viewers,    \* who may sit at the page: their id, role and tenant
    Colleagues, \* who else there is
    Wanted,     \* bound: what a viewer may want to change
    Meanwhile,  \* bound, of each role: what others may change before its viewer's eyes
    Start,      \* the tables as they are found
    PageSize,   \* rows a walked list shows at a time
    MaxOwn,     \* bound: changes a viewer makes
    MaxOther,   \* bound: changes others make meanwhile
    MaxVisits   \* bound: times the page is opened or "Load more" is pressed; one
                \* less where there is nothing to walk

ASSUME ViewersAssumption == \A u \in Viewers : u.role \in Roles
ASSUME ChangesAssumption ==
    /\ \A r \in DOMAIN Wanted : \A m \in Wanted[r] : m \in Requests /\ m.route = r
    /\ \A r \in Roles : Meanwhile[r] \subseteq Requests
ASSUME StartAssumption == Shaped(Start) /\ References(Start)
ASSUME PageSizeAssumption == PageSize \in Nat \ {0}

VARIABLES
    viewer, path, query, \* who looks at which page, and the query that is followed
    shown,    \* whether the page is open
    after,    \* its cursor
    cache,    \* of each cursor, the entry of the cache
    fetch,    \* of each cursor, the request for it that is under way
    own,      \* the change the viewer has under way
    other,    \* the change a colleague has under way
    db,
    history,  \* ghost: the whole list as it was after every change
    walk,     \* ghost: the pages left behind with "Load more"
    due,      \* ghost: of each cursor, the change its page has to show
    visits,   \* counts towards MaxVisits
    changes   \* counts towards MaxOwn and MaxOther

page == <<shown, after, walk, visits>>
server == <<own, other, db, history, changes>>
vars == <<viewer, path, query, page, cache, fetch, server, due>>

Cursors == Ids \union {0}
NoEntry == [answer |-> None, read |-> 0, stale |-> FALSE, failed |-> FALSE]
Idle == [at |-> "idle"]
Sent == [at |-> "sent"]

Limit == IF query.walks THEN PageSize ELSE Cardinality(Ids)
List(tables) == [i \in Rows(query, viewer, tables) |-> Row(query, i, tables)]

Init ==
    /\ viewer \in Viewers
    /\ path \in {p \in DOMAIN Gate : viewer.role \in Gate[p]}
    /\ query \in Page(path, viewer.role).queries
    /\ shown = FALSE /\ after = 0 /\ walk = <<>> /\ visits = 0
    /\ cache = [c \in Cursors |-> NoEntry]
    /\ fetch = [c \in Cursors |-> Idle]
    /\ own = Idle /\ other = Idle
    /\ db = Start
    /\ history = <<List(Start)>>
    /\ due = [c \in Cursors |-> 0]
    /\ changes = [own |-> 0, other |-> 0]

-----------------------------------------------------------------------------
(* The page                                                                 *)

Entry == cache[after]
HasData == Entry.answer # None
\* DataTable shows rows unless there are none yet or the last request for them failed.
Displayed == shown /\ HasData /\ ~Entry.failed
Fetching == fetch[after].at # "idle"

\* A page that comes to need an entry finds it, unless nobody needed it for five
\* minutes, and asks for it if it is missing, invalidated, or older than 30 seconds.
Needs(c, entries, requests) ==
    \E entry \in {entries[c]} \union When(requests[c] = Idle, {NoEntry}), aged \in BOOLEAN :
        /\ cache' = [entries EXCEPT ![c] = entry]
        /\ fetch' = IF requests[c] = Idle /\ (entry.answer = None \/ entry.stale \/ aged)
                    THEN [requests EXCEPT ![c] = Sent] ELSE requests

OpenPage ==
    /\ ~shown /\ visits < IF query.walks THEN MaxVisits ELSE MaxVisits - 1
    /\ shown' = TRUE /\ after' = 0 /\ walk' = <<>> /\ visits' = visits + 1
    /\ Needs(0, cache, fetch)
    /\ UNCHANGED <<viewer, path, query, server, due>>

LeavePage ==
    /\ shown
    /\ shown' = FALSE
    /\ UNCHANGED <<viewer, path, query, after, walk, visits, cache, fetch, server, due>>

LoadMore ==
    /\ Displayed /\ ~Fetching /\ visits < MaxVisits
    /\ query.walks /\ Entry.answer.next # None
    /\ after' = Entry.answer.next
    /\ walk' = Append(walk, [rows |-> DOMAIN Entry.answer.data, read |-> Entry.read])
    /\ visits' = visits + 1
    /\ Needs(after', cache, fetch)
    /\ UNCHANGED <<viewer, path, query, shown, server, due>>

-----------------------------------------------------------------------------
(* A request for rows                                                       *)

Serve(c) ==
    /\ fetch[c] = Sent
    /\ fetch' = [fetch EXCEPT ![c] =
           IF viewer.role \notin Allowed[query.route] THEN [at |-> "forbidden"]
           ELSE IF Missing(query, viewer, db) THEN [at |-> "missing"]
           ELSE [at |-> "answered", read |-> Len(history), answer |-> Answer(query, viewer, c, Limit, db)]]
    /\ UNCHANGED <<viewer, path, query, page, cache, server, due>>

\* Data that arrives settles its entry, whatever invalidated it in the meantime.
Receive(c) ==
    /\ fetch[c].at = "answered"
    /\ cache' = [cache EXCEPT ![c] = [answer |-> fetch[c].answer, read |-> fetch[c].read,
                                      stale |-> FALSE, failed |-> FALSE]]
    /\ fetch' = [fetch EXCEPT ![c] = Idle]
    /\ UNCHANGED <<viewer, path, query, page, server, due>>

\* An error takes the place of the rows; it comes from the API, or the answer is lost.
Fail(c) ==
    /\ fetch[c].at \in {"answered", "forbidden", "missing"}
    /\ cache' = [cache EXCEPT ![c].failed = TRUE, ![c].stale = TRUE]
    /\ fetch' = [fetch EXCEPT ![c] = Idle]
    /\ UNCHANGED <<viewer, path, query, page, server, due>>

-----------------------------------------------------------------------------
(* A change                                                                 *)

\* Its details are what a page reserves stock for or adds users to.
Concerned(m) ==
    \/ IdText(m.id) = Selected
    \/ path # "/inventory" /\ ~(path = "/companies" /\ m.route = "POST /auth/register")

Ask(m) ==
    /\ Concerned(m)
    /\ IF viewer.role \notin Allowed[m.route]
       THEN own' = [at |-> "forbidden", request |-> m]
       ELSE Checked(m, viewer, db) /\ own' = [at |-> "checked", request |-> m]
    /\ changes' = [changes EXCEPT !.own = @ + 1]
    /\ UNCHANGED <<viewer, path, query, page, cache, fetch, other, db, history, due>>

Writes(m, u) ==
    /\ Enforced(m, db)
    /\ db' = Written(m, u, db)
    /\ history' = Append(history, List(db'))

WriteOwn ==
    /\ own.at = "checked"
    /\ Writes(own.request, viewer)
    /\ own' = [at |-> "written", request |-> own.request, as |-> Len(history')]
    /\ UNCHANGED <<viewer, path, query, page, cache, fetch, other, changes, due>>

\* invalidateQueries: each entry under the prefix is invalidated, and the one on the
\* page asked for anew.  A request already under way is given up for a new one if
\* there is data to show meanwhile; without any, its answer will do.
Matches(m) == \E prefix \in Invalidates(path, m) : IsPrefix(prefix, query.key)
Invalidated == [c \in Cursors |-> [cache[c] EXCEPT !.stale = @ \/ cache[c].answer # None]]

\* Variant: a request under way is never given up.
AskedOnce(c) == IF fetch[c] = Idle THEN [fetch EXCEPT ![c] = Sent] ELSE fetch

Asked(c) == IF fetch[c] = Idle \/ cache[c].answer # None THEN [fetch EXCEPT ![c] = Sent] ELSE fetch
Refreshed(m) ==
    IF (shown /\ Matches(m)) \/ query.key \in Refetches(path, m) THEN Asked(after) ELSE fetch

\* Changes that OwnChangesShow leaves aside, because the pages lack an invalidation:
\* hiding or renaming a warehouse changes the list of locations, deleting a location
\* the number of them in the list of warehouses, and a new user of a company the
\* number of them in the list of companies.
Forgotten ==
    {<<"/warehouses", "DELETE /warehouses/:id", "GET /locations">>,
     <<"/warehouses", "PATCH /warehouses/:id", "GET /locations">>,
     <<"/warehouses", "DELETE /locations/:id", "GET /warehouses">>,
     <<"/companies", "POST /auth/register", "GET /admin/tenants">>}

\* onSuccess of a page that was left runs all the same.
Confirm ==
    /\ own.at = "written"
    /\ LET m == own.request
           entries == IF Matches(m) THEN Invalidated ELSE cache
           back == shown /\ Rewinds(path) /\ after # 0
       IN  /\ IF back THEN Needs(0, entries, Refreshed(m)) /\ after' = 0 /\ walk' = <<>>
              ELSE cache' = entries /\ fetch' = Refreshed(m) /\ UNCHANGED <<after, walk>>
           /\ due' = IF Displayed /\ history[own.as] # history[own.as - 1]
                        /\ <<path, m.route, query.route>> \notin Forgotten
                     THEN [due EXCEPT ![after] = own.as] ELSE due
    /\ own' = Idle
    /\ UNCHANGED <<viewer, path, query, shown, visits, other, db, history, changes>>

\* The database or the state of an order refuses, or the answer is lost.
Refused ==
    /\ own # Idle
    /\ own' = Idle
    /\ UNCHANGED <<viewer, path, query, page, cache, fetch, other, db, history, changes, due>>

AskOther(m, u) ==
    /\ u.role \in Allowed[m.route] /\ Checked(m, u, db)
    /\ other' = [at |-> "checked", request |-> m, by |-> u]
    /\ changes' = [changes EXCEPT !.other = @ + 1]
    /\ UNCHANGED <<viewer, path, query, page, cache, fetch, own, db, history, due>>

WriteOther ==
    /\ other.at = "checked"
    /\ Writes(other.request, other.by)
    /\ other' = Idle
    /\ UNCHANGED <<viewer, path, query, page, cache, fetch, own, changes, due>>

Next ==
    \/ OpenPage \/ LeavePage \/ LoadMore
    \/ \E c \in Cursors : Serve(c) \/ Receive(c) \/ Fail(c)
    \/ /\ shown /\ own = Idle /\ changes.own < MaxOwn
       /\ \E r \in Page(path, viewer.role).offers \intersect DOMAIN Wanted : \E m \in Wanted[r] : Ask(m)
    \/ WriteOwn \/ Confirm \/ Refused
    \/ /\ other = Idle /\ changes.other < MaxOther
       /\ \E m \in Meanwhile[viewer.role], u \in Colleagues : AskOther(m, u)
    \/ WriteOther

Spec == Init /\ [][Next]_vars

-----------------------------------------------------------------------------
(* Properties                                                               *)

Steady(from, to) == {i \in Ids : \A k \in from..to : i \in DOMAIN history[k]}

\* Whoever has come to the last page of a list has seen every row on exactly one
\* page, of the rows that were in the list from the first to the last of the reads
\* those pages come from: whatever was created, hidden or deleted around them, and
\* though each page comes from a read of its own, some out of the cache
\* (paginator.js, stockMovementService.js addCursorFilter).
EveryRowOnce ==
    (Displayed /\ query.walks /\ Entry.answer.next = None) =>
        LET pages == Append(walk, [rows |-> DOMAIN Entry.answer.data, read |-> Entry.read])
            reads == {pages[k].read : k \in DOMAIN pages}
        IN  \A i \in Steady(CHOOSE r \in reads : \A s \in reads : r <= s,
                             CHOOSE r \in reads : \A s \in reads : r >= s) :
                Cardinality({k \in DOMAIN pages : i \in pages[k].rows}) = 1

\* A list that was on the page when a change of its viewer's own was confirmed is
\* not left there as it was before the change: once nothing is asked for any more,
\* it comes from a read after the change.  The answer to a request sent before the
\* change may still be on its way when the change is confirmed (the pages' onSuccess).
OwnChangesShow ==
    Displayed /\ ~Fetching => Entry.read >= due[after]

\* What a page asks for, and what it offers, the API admits its viewer's role to, and
\* it answers in the form the client reads ("Frontend route gates mirror backend role
\* checks", RolesPage.tsx).  The orders page offers its buttons to everybody, and the
\* field for the id of a job takes one from everybody.
Unguarded == {"/orders"} \X Page("/orders", "AUDITOR").offers \union {<<"/reports", "GET /jobs/:id">>}
PagesFitApi ==
    /\ <<path, query.route>> \notin Unguarded => \A c \in Cursors : fetch[c].at # "forbidden"
    /\ own.at = "forbidden" => <<path, own.request.route>> \in Unguarded
    /\ own.at = "written" => Reads(own.request.route, AnswerOf(own.request.route))
    /\ Displayed => /\ Reads(query.route, AnswerOf(query.route))
                    /\ query.walks => AnswerOf(query.route) = "page"

\* No step changes a movement that was made, or takes one away: the check that a
\* location has no stock is made before the delete (warehouseService.js:152), goods may
\* arrive in between, and a delete sets the references of movements to it to NULL.
HistoryKept ==
    [][\A i \in DOMAIN db.movement : i \in DOMAIN db'.movement /\ db'.movement[i] = db.movement[i]]_vars

=============================================================================
