----------------------------- MODULE DecayService -----------------------------
(***************************************************************************)
(* Dead stock decay: applyDeadStockDecay of src/services/decayService.js,  *)
(* run by the schedule, by managers and by retries, at the same time and   *)
(* over the same lots.  Lots are numbered in the order of created_at; each *)
(* is of a product of its own.                                             *)
(***************************************************************************)
EXTENDS Integers, FiniteSets, Sequences

CONSTANTS
    Lots,        \* InventoryLot rows, as numbers
    Companies,   \* the lots of each company
    Calls,       \* calls of applyDeadStockDecay in progress
    Daily,       \* those the schedule makes, the others managers
    Threshold,   \* DEAD_STOCK_THRESHOLD_DAYS
    Thresholds,  \* values of thresholdDays
    Window,      \* the 72 hours between two decays of a lot
    Cap,         \* maxDiscount
    Limit,       \* lots one call looks at
    Discounts,   \* values of Product.discount_percentage
    MaxTime      \* bound of the model: the clock stops

ASSUME LotsAssumption == Lots \subseteq Nat /\ Companies \subseteq SUBSET Lots
ASSUME CallsAssumption == Daily \subseteq Calls
ASSUME TimesAssumption ==
    {Window, MaxTime} \subseteq Nat /\ Thresholds \subseteq Nat /\ Threshold \in Thresholds
ASSUME DiscountsAssumption == {Cap} \cup Discounts \subseteq Nat

VARIABLES
    now,
    catalog,    \* discount_percentage of the product of each lot
    stocked,    \* quantity_on_hand of each lot is positive
    offered,    \* its product is not discontinued, its warehouse ACTIVE and not hidden
    received,   \* received_at
    last,       \* last_decay_applied_at
    job,        \* the candidates a call has still to visit, as it read them
    audits      \* dates of the DecayAudit rows of each lot

decayVars == <<now, catalog, stocked, offered, received, last, job, audits>>
rows == <<catalog, stocked, offered, received>>

Never == 0 - Window
NotYet == MaxTime + 1

DecayInit ==
    /\ now = 0
    /\ catalog \in [Lots -> Discounts]
    /\ stocked = [l \in Lots |-> FALSE]
    /\ offered \in [Lots -> BOOLEAN]
    /\ received = [l \in Lots |-> NotYet]
    /\ last = [l \in Lots |-> Never]
    /\ job = [j \in Calls |-> {}]
    /\ audits = [l \in Lots |-> <<>>]

-----------------------------------------------------------------------------

\* The options of a call: the lots of one company or of all (tenantId), and how old a
\* lot has to be.  The schedule gives none.
Options == [lots : {Lots} \cup Companies, threshold : Thresholds]
Scheduled == [lots |-> Lots, threshold |-> Threshold]

\* Variant: null is not below any date.
StaleAgain(options) ==
    {l \in options.lots : /\ stocked[l] /\ offered[l]
                          /\ received[l] <= now - options.threshold /\ last[l] \in 0..now - Window}

\* The lots the query of findDeadStockCandidates selects.
Stale(options) ==
    {l \in options.lots : /\ stocked[l] /\ offered[l]
                          /\ received[l] <= now - options.threshold /\ last[l] <= now - Window}

\* The order it returns them in.
Before(k, l) == received[k] < received[l] \/ (received[k] = received[l] /\ k < l)

\* It returns the first of them.
Candidates(options) ==
    LET stale == Stale(options)
    IN  {l \in stale : Cardinality({k \in stale : Before(k, l)}) < Limit}

Scan(j, options) ==
    /\ job[j] = {}
    /\ j \in Daily => options = Scheduled
    /\ job' = [job EXCEPT ![j] =
           {[lot |-> l, last |-> last[l], discount |-> catalog[l]] : l \in Candidates(options)}]
    /\ UNCHANGED <<now, rows, last, audits>>

\* The loop leaves its next candidate behind.
Visit(j, c) ==
    /\ \A d \in job[j] : ~Before(d.lot, c.lot)
    /\ job' = [job EXCEPT ![j] = @ \ {c}]

\* A lot whose product has all the discount there may be is passed over.
PassOver(j, c) ==
    /\ Visit(j, c)
    /\ c.discount >= Cap
    /\ UNCHANGED <<now, rows, last, audits>>

\* Variant: the update names the lot by its id alone.
UnchangedSinceAny(c) == TRUE

UnchangedSince(c) == last[c.lot] = c.last

\* The transaction of a lot.  The discount it records, and the rows of
\* PriceHistory, are left out.
Decay(j, c) ==
    /\ Visit(j, c)
    /\ c.discount < Cap
    /\ IF UnchangedSince(c)
         THEN /\ last' = [last EXCEPT ![c.lot] = now]
              /\ audits' = [audits EXCEPT ![c.lot] = Append(@, now)]
         ELSE UNCHANGED <<last, audits>>
    /\ UNCHANGED <<now, rows>>

\* A transaction that fails is rolled back and the loop goes on.
Fail(j, c) ==
    /\ Visit(j, c)
    /\ UNCHANGED <<now, rows, last, audits>>

\* The worker stops.
Stop(j) ==
    /\ job[j] # {}
    /\ job' = [job EXCEPT ![j] = {}]
    /\ UNCHANGED <<now, rows, last, audits>>

-----------------------------------------------------------------------------
(* What goes on beside the calls *)

Tick ==
    /\ now < MaxTime
    /\ now' = now + 1
    /\ UNCHANGED <<rows, last, job, audits>>

\* A lot comes by a receipt, or by a transfer, with the date it had before.
Arrive(l, date) ==
    /\ received[l] = NotYet
    /\ received' = [received EXCEPT ![l] = date]
    /\ stocked' = [stocked EXCEPT ![l] = TRUE]
    /\ UNCHANGED <<now, catalog, offered, last, job, audits>>

\* A lot is sold out, or taken by a transfer.
Deplete(l) ==
    /\ stocked[l]
    /\ stocked' = [stocked EXCEPT ![l] = FALSE]
    /\ UNCHANGED <<now, catalog, offered, received, last, job, audits>>

\* Its product is discontinued, its warehouse closed, opened again or hidden, or its
\* location moved to another warehouse.
Offer(l, offer) ==
    /\ offered[l] # offer
    /\ offered' = [offered EXCEPT ![l] = offer]
    /\ UNCHANGED <<now, catalog, stocked, received, last, job, audits>>

\* The discount of its product is updated.
Reprice(l, discount) ==
    /\ catalog[l] # discount
    /\ catalog' = [catalog EXCEPT ![l] = discount]
    /\ UNCHANGED <<now, stocked, offered, received, last, job, audits>>

-----------------------------------------------------------------------------

DecayNext ==
    \/ \E j \in Calls :
           \/ \E options \in Options : Scan(j, options)
           \/ \E c \in job[j] : PassOver(j, c) \/ Decay(j, c) \/ Fail(j, c)
           \/ Stop(j)
    \/ \E l \in Lots :
           \/ \E date \in 0..now : Arrive(l, date)
           \/ Deplete(l)
           \/ \E offer \in BOOLEAN : Offer(l, offer)
           \/ \E discount \in Discounts : Reprice(l, discount)
    \/ Tick

\* A call gets as far as the transaction of a lot, and it does not fail.
Process(j, l) == \E c \in job[j] : c.lot = l /\ (PassOver(j, c) \/ Decay(j, c))

\* Time passes, the schedule makes its calls, and they neither stop nor fail every time
\* at the same lot.  Nothing is asked of the calls of managers.
DecaySpec ==
    /\ DecayInit /\ [][DecayNext]_decayVars
    /\ WF_decayVars(Tick)
    /\ \A j \in Daily :
           /\ WF_decayVars(Scan(j, Scheduled))
           /\ \A l \in Lots : SF_decayVars(Process(j, l))

-----------------------------------------------------------------------------
(* Correctness *)

\* A lot is not decayed twice within the window, though two calls may have
\* read it as a candidate and one of them is late.
OncePerWindow ==
    \A l \in Lots : \A i \in 1..Len(audits[l]) - 1 :
        audits[l][i + 1] - audits[l][i] >= Window

\* A lot that is on offer, dead stock, and was not decayed within the window.
Waiting(l) ==
    /\ stocked[l] /\ offered[l] /\ received[l] <= now - Threshold
    /\ \A i \in DOMAIN audits[l] : audits[l][i] <= now - Window

\* No lot whose product has room for a discount waits for ever with less than a batch
\* of lots waiting before it, though calls overlap, stop and fail, and other lots come and go.
StaleLotsDecay ==
    \A l \in Lots :
        ~<>[](/\ Waiting(l) /\ catalog[l] < Cap
              /\ Cardinality({k \in Lots : Waiting(k) /\ Before(k, l)}) < Limit)
=============================================================================
