-------------------------- MODULE ReservationExpiry --------------------------
(***************************************************************************)
(* The job that ends expired reservations: the schedule that queues it     *)
(* every five minutes, and the loop of releaseExpiredReservations in the   *)
(* worker, beside the requests of InventoryService.  Transfers, sales and  *)
(* changes of places touch neither reservations nor reserved quantities    *)
(* and are left out of the next-state relation.                            *)
(***************************************************************************)
EXTENDS InventoryService, SequencesExt

CONSTANTS
    Worker,   \* the slot of the worker's transactions
    Limit     \* reservations one job looks at

ASSUME WorkerAssumption == Worker \in Requests
ASSUME LimitAssumption == Limit \in Nat \ {0}

VARIABLES
    lapsed,   \* reservations past their expires_at, in that order
    batch     \* those the running job has still to visit

expiryVars == <<vars, lapsed, batch>>

Active(r) == reservation[r].status = "ACTIVE"

\* Variant: the query does not ask for status ACTIVE.
ScanAny == SubSeq(lapsed, 1, IF Len(lapsed) < Limit THEN Len(lapsed) ELSE Limit)

\* findMany: ACTIVE and expired, by expires_at, take limit.
Scan ==
    LET found == SelectSeq(lapsed, Active)
    IN  SubSeq(found, 1, IF Len(found) < Limit THEN Len(found) ELSE Limit)

ExpiryInit == Init /\ lapsed = <<>> /\ batch = <<>>

Lapse(r) ==
    /\ Active(r)
    /\ r \notin ToSet(lapsed)
    /\ lapsed' = Append(lapsed, r)
    /\ UNCHANGED <<vars, batch>>

\* A worker without a job takes the next one the schedule has queued.
StartJob ==
    /\ batch = <<>>
    /\ batch' = Scan
    /\ UNCHANGED <<vars, lapsed>>

\* The transaction of a reservation reads it again.
Visit ==
    /\ batch # <<>>
    /\ Idle(Worker)
    /\ \E r \in Reservations : r = Head(batch) /\ BeginExpire(Worker, r)
    /\ UNCHANGED <<lapsed, batch>>

Skip ==
    /\ batch # <<>>
    /\ Idle(Worker)
    /\ ~Active(Head(batch))
    /\ batch' = Tail(batch)
    /\ UNCHANGED <<vars, lapsed>>

Expire ==
    /\ CommitExpire(Worker)
    /\ batch' = Tail(batch)
    /\ UNCHANGED lapsed

\* A transaction that fails throws out of the loop: the job fails, and its
\* retry or the next one starts from a new scan.
FailJob ==
    /\ Abort(Worker)
    /\ batch' = <<>>
    /\ UNCHANGED lapsed

Request(c) ==
    /\ \/ \E p \in Products, l \in Locations, q \in Quantities :
              \/ BeginReceive(c, p, l, q)
              \/ BeginReserve(c, p, l, q)
              \/ \E id \in Reservations \cup {None} : BeginRelease(c, p, l, q, id)
       \/ \E e \in Epochs : CommitReceive(c, e)
       \/ \E r \in Reservations : CommitReserve(c, r)
       \/ FindReservation(c)
       \/ CommitRelease(c)
       \/ Abort(c)
    /\ UNCHANGED <<lapsed, batch>>

ExpiryNext ==
    \/ \E c \in Requests \ {Worker} : Request(c)
    \/ \E r \in Reservations : Lapse(r)
    \/ StartJob \/ Visit \/ Skip \/ Expire \/ FailJob

\* Time passes, the schedule and the worker go on, and a transaction that
\* could commit again and again does so some time.  Requests owe nothing.
ExpirySpec ==
    /\ ExpiryInit /\ [][ExpiryNext]_expiryVars
    /\ \A r \in Reservations : WF_expiryVars(Lapse(r))
    /\ WF_expiryVars(StartJob)
    /\ WF_expiryVars(Visit)
    /\ WF_expiryVars(Skip)
    /\ WF_expiryVars(FailJob)
    /\ SF_expiryVars(Expire)

-----------------------------------------------------------------------------
(* Correctness *)

\* A reservation that is not released expires.
EveryReservationEnds ==
    \A r \in Reservations : Active(r) ~> ~Active(r)

\* As long as reserved quantities cover the ACTIVE reservations, one failing
\* or contended reservation does not keep the others from expiring.
BackedReservationsEnd ==
    []ReservationsBacked => EveryReservationEnds
=============================================================================
