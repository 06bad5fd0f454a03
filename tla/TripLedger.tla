------------------------------- MODULE TripLedger -------------------------------
(***************************************************************************)
(* The trips of delivery_service and the fuel they book.                   *)
(*                                                                         *)
(* A trip that departs takes its planned litres from the stock, one that   *)
(* completes books the difference between plan and fact, and one that is   *)
(* cancelled on its way returns the litres; each booking is a row of       *)
(* fuel_transactions, guarded by a look for a row of the same note, and a  *)
(* delta on the stored stock, under SELECT FOR UPDATE of the stock row.    *)
(*                                                                         *)
(* The handlers read the trip WITHOUT a lock, decide on its status, and    *)
(* only their UPDATE waits for the lock of the trip row.  So each handler  *)
(* is a Begin (the read) and a Commit (the UPDATE, what is looked up after *)
(* it, and the commit).  complete_trip has one step more: it keeps the     *)
(* trip locked, and the stock too if it books a difference, while it asks  *)
(* order_service to accept the delivery.  There is one fuel type.          *)
(***************************************************************************)
EXTENDS Integers, Sequences, FiniteSets, Functions

CONSTANTS
    Orders,      \* ids of orders
    Trips,       \* ids of trips
    Handlers,    \* database sessions of delivery_service
    Planned,     \* litres a trip may be planned for
    Actual,      \* litres a driver may report
    Deltas,      \* signed litres of arrivals, expenses and adjustments by hand
    StockBound,  \* bound: the journal entries by hand stay within it
    Ops          \* operations the environment asks for: names the bound

TripStatuses == {"planned", "in_transit", "completed", "cancelled"}
Notes        == {"trip_planned", "trip_adjustment", "trip_cancelled"}

ASSUME LitresAssumption == /\ Planned \subseteq Nat \ {0} /\ Planned # {}
                           /\ Actual \subseteq Nat \ {0}
                           /\ Deltas \subseteq Int /\ StockBound \in Nat
                           /\ IsFiniteSet(Trips)

VARIABLES
    trips,       \* the trips table
    ledger,      \* fuel_transactions of each trip, in the order they were booked
    byHand,      \* the sum of the fuel_transactions that belong to no trip
    stock,       \* fuel_stock.current_volume
    handler      \* what each session has read and means to do

ledgerVars == <<trips, ledger, byHand, stock, handler>>

Idle == [op |-> "idle"]

Trip == [status: TripStatuses \cup {"none", "purged"}, order: Orders, planned: Planned,
         actual: Actual \cup {0}, tracked: BOOLEAN]

HandlerState ==
    {Idle}
    \cup [op: {"called", "auto"}, order: Orders, litres: Planned]
    \cup [op: {"start"}, trip: Trips]
    \cup [op: {"complete"}, trip: Trips, litres: Actual]
    \cup [op: {"completing"}, trip: Trips, litres: Actual, stockRead: Int]
    \cup [op: {"cancel"}, trip: Trips, read: TripStatuses]
    \cup [op: {"reconcile"}, litres: Int]
    \cup [op: {"purge"}, order: Orders, seen: BOOLEAN, owed: Int]

LedgerInit ==
    /\ \E o \in Orders, v \in Planned :
         trips = [t \in Trips |-> [status |-> "none", order |-> o, planned |-> v,
                                   actual |-> 0, tracked |-> FALSE]]
    /\ ledger = [t \in Trips |-> << >>]
    /\ byHand = 0 /\ stock = 0
    /\ handler = [h \in Handlers |-> Idle]

-----------------------------------------------------------------------------
(* Rows, sums and locks *)

Booked(t, note) == \E i \in DOMAIN ledger[t] : ledger[t][i].note = note

RowsTotal(rows) == SumFunctionOnSet([i \in DOMAIN rows |-> rows[i].litres], DOMAIN rows)

BookedLitres == [t \in Trips |-> RowsTotal(ledger[t])]

\* The signed sum of fuel_transactions.
LedgerTotal == byHand + SumFunctionOnSet(BookedLitres, Trips)

Real(t) == trips[t].status \in TripStatuses

Active(o) == {t \in Trips : trips[t].order = o /\ trips[t].status \in {"planned", "in_transit"}}

\* Mutant: the difference is taken the wrong way round.
DifferenceSwapped(t, litres) ==
    IF trips[t].tracked /\ ~Booked(t, "trip_adjustment") THEN litres - trips[t].planned ELSE 0

\* What completing trip t with so many litres books: nothing for a trip that is
\* not tracked, for no difference, or when the difference is booked already.
Difference(t, litres) ==
    IF trips[t].tracked /\ ~Booked(t, "trip_adjustment") THEN trips[t].planned - litres ELSE 0

\* Mutant: complete_trip does not flush before it calls order_service.
TripFreeUnflushed(t) == TRUE

\* Nobody holds the row lock of the trip, or of the stock, between two steps.
TripFree(t) == \A h \in Handlers : handler[h].op = "completing" => handler[h].trip # t

\* Mutant: _upsert_stock reads the stock without FOR UPDATE.
StockFreeIgnored == TRUE

StockFree == \A h \in Handlers :
    handler[h].op = "completing" => Difference(handler[h].trip, handler[h].litres) = 0

\* Mutant: the look for a booking of the same note is left out.
BookTwice(t, note, litres) ==
    /\ StockFree
    /\ ledger' = [ledger EXCEPT ![t] = Append(@, [note |-> note, litres |-> litres])]
    /\ stock' = stock + litres

\* A booking of a tracked trip: at most one per note, and the stock goes with it.
Book(t, note, litres) ==
    IF Booked(t, note)
    THEN UNCHANGED <<ledger, stock>>
    ELSE /\ StockFree
         /\ ledger' = [ledger EXCEPT ![t] = Append(@, [note |-> note, litres |-> litres])]
         /\ stock' = stock + litres

Opens(h, state) == /\ handler[h] = Idle
                   /\ handler' = [handler EXCEPT ![h] = state]

Ends(h) == handler' = [handler EXCEPT ![h] = Idle]

-----------------------------------------------------------------------------
(* auto_create_and_start: the call of order_service when an order is delivered *)

AutoCall(h, o, litres) ==
    /\ Opens(h, [op |-> "called", order |-> o, litres |-> litres])
    /\ UNCHANGED <<trips, ledger, byHand, stock>>

\* No trip of the order is planned or on its way: one is to be created.
AutoBegin(h) ==
    /\ handler[h].op = "called"
    /\ Active(handler[h].order) = {}
    /\ handler' = [handler EXCEPT ![h].op = "auto"]
    /\ UNCHANGED <<trips, ledger, byHand, stock>>

\* Exactly one is: it is returned as it is, and the caller is told 201.
AutoFound(h) ==
    /\ handler[h].op = "called"
    /\ Cardinality(Active(handler[h].order)) = 1
    /\ Ends(h)
    /\ UNCHANGED <<trips, ledger, byHand, stock>>

AutoCommit(h, t) ==
    /\ handler[h].op = "auto"
    /\ trips[t].status = "none"
    /\ trips' = [trips EXCEPT ![t] =
          [status |-> "in_transit", order |-> handler[h].order, planned |-> handler[h].litres,
           actual |-> 0, tracked |-> TRUE]]
    /\ Book(t, "trip_planned", -handler[h].litres)
    /\ Ends(h)
    /\ UNCHANGED byHand

-----------------------------------------------------------------------------
(* create_trip, start_trip, complete_trip, cancel_trip *)

\* create_trip: a driver or a manager, for any order, whatever trips it has.
CreateTrip(t, o, litres, tracked) ==
    /\ trips[t].status = "none"
    /\ trips' = [trips EXCEPT ![t] =
          [status |-> "planned", order |-> o, planned |-> litres, actual |-> 0, tracked |-> tracked]]
    /\ UNCHANGED <<ledger, byHand, stock, handler>>

StartBegin(h, t) ==
    /\ trips[t].status = "planned"
    /\ Opens(h, [op |-> "start", trip |-> t])
    /\ UNCHANGED <<trips, ledger, byHand, stock>>

StartCommit(h) ==
    LET t == handler[h].trip IN
    /\ handler[h].op = "start"
    /\ Real(t) /\ TripFree(t)
    /\ trips' = [trips EXCEPT ![t].status = "in_transit"]
    /\ IF trips[t].tracked THEN Book(t, "trip_planned", -trips[t].planned)
                           ELSE UNCHANGED <<ledger, stock>>
    /\ Ends(h)
    /\ UNCHANGED byHand

\* The driver may report at most 5 % more than the plan.
CompleteBegin(h, t, litres) ==
    /\ trips[t].status = "in_transit"
    /\ 100 * litres <= 105 * trips[t].planned
    /\ Opens(h, [op |-> "complete", trip |-> t, litres |-> litres])
    /\ UNCHANGED <<trips, ledger, byHand, stock>>

\* The UPDATE of the trip and the booking of the difference are flushed, not
\* committed; order_service is asked for the transition.
CompleteWrite(h) ==
    LET t == handler[h].trip IN
    /\ handler[h].op = "complete"
    /\ Real(t) /\ TripFree(t)
    /\ Difference(t, handler[h].litres) # 0 => StockFree
    /\ handler' = [handler EXCEPT ![h] =
          [op |-> "completing", trip |-> t, litres |-> @.litres, stockRead |-> stock]]
    /\ UNCHANGED <<trips, ledger, byHand, stock>>

\* Mutant: the difference is stored as the fact.
CompleteCommitStoresDifference(h) ==
    LET t      == handler[h].trip
        litres == Difference(t, handler[h].litres)
    IN
    /\ handler[h].op = "completing"
    /\ trips' = [trips EXCEPT ![t].status = "completed", ![t].actual = litres]
    /\ ledger' = IF litres = 0 THEN ledger ELSE
          [ledger EXCEPT ![t] = Append(@, [note |-> "trip_adjustment", litres |-> litres])]
    /\ stock' = IF litres = 0 THEN stock ELSE handler[h].stockRead + litres
    /\ Ends(h)
    /\ UNCHANGED byHand

CompleteCommit(h) ==
    LET t      == handler[h].trip
        litres == Difference(t, handler[h].litres)
    IN
    /\ handler[h].op = "completing"
    /\ trips' = [trips EXCEPT ![t].status = "completed", ![t].actual = handler[h].litres]
    /\ ledger' = IF litres = 0 THEN ledger ELSE
          [ledger EXCEPT ![t] = Append(@, [note |-> "trip_adjustment", litres |-> litres])]
    /\ stock' = IF litres = 0 THEN stock ELSE handler[h].stockRead + litres
    /\ Ends(h)
    /\ UNCHANGED byHand

CancelBegin(h, t) ==
    /\ Real(t) /\ trips[t].status # "completed"
    /\ Opens(h, [op |-> "cancel", trip |-> t, read |-> trips[t].status])
    /\ UNCHANGED <<trips, ledger, byHand, stock>>

\* Mutant: the litres of a trip that never departed are returned too.
CancelCommitAlways(h) ==
    LET t == handler[h].trip IN
    /\ handler[h].op = "cancel"
    /\ Real(t) /\ TripFree(t)
    /\ trips' = [trips EXCEPT ![t].status = "cancelled"]
    /\ IF trips[t].tracked THEN Book(t, "trip_cancelled", trips[t].planned)
                           ELSE UNCHANGED <<ledger, stock>>
    /\ Ends(h)
    /\ UNCHANGED byHand

\* The litres are returned when the trip was read as being on its way.  A status
\* that was read as cancelled is not dirty, and nothing is written.
CancelCommit(h) ==
    LET t == handler[h].trip IN
    /\ handler[h].op = "cancel"
    /\ handler[h].read # "cancelled" => Real(t) /\ TripFree(t)
    /\ trips' = IF handler[h].read = "cancelled" THEN trips
                ELSE [trips EXCEPT ![t].status = "cancelled"]
    /\ IF handler[h].read = "in_transit" /\ trips[t].tracked
       THEN Book(t, "trip_cancelled", trips[t].planned)
       ELSE UNCHANGED <<ledger, stock>>
    /\ Ends(h)
    /\ UNCHANGED byHand

-----------------------------------------------------------------------------
(* The journal by hand, the recount and the purge of a deleted order *)

\* record_arrival, record_adjustment, record_expense.
EntryByHand(delta) ==
    /\ byHand + delta \in -StockBound..StockBound
    /\ StockFree
    /\ byHand' = byHand + delta
    /\ stock' = stock + delta
    /\ UNCHANGED <<trips, ledger, handler>>

\* reconcile_stock: the sum is taken first and the stock row locked after it.
ReconcileBegin(h) ==
    /\ Opens(h, [op |-> "reconcile", litres |-> LedgerTotal])
    /\ UNCHANGED <<trips, ledger, byHand, stock>>

ReconcileCommit(h) ==
    /\ handler[h].op = "reconcile"
    /\ StockFree
    /\ stock' = handler[h].litres
    /\ Ends(h)
    /\ UNCHANGED <<trips, ledger, byHand>>

Of(o) == {t \in Trips : trips[t].order = o /\ trips[t].status # "none" /\ ledger[t] # << >>}

Litres(o) == SumFunctionOnSet(BookedLitres, Of(o))

\* handle_order_deleted: the rows of the order are read, without a lock.
PurgeBegin(h, o) ==
    /\ Opens(h, [op |-> "purge", order |-> o, seen |-> Of(o) # {}, owed |-> Litres(o)])
    /\ UNCHANGED <<trips, ledger, byHand, stock>>

\* What was read is given back to the stock, which is locked now; the rows there
\* are by then are deleted, when some were seen, and the trips always.
PurgeCommit(h) ==
    LET o == handler[h].order IN
    /\ handler[h].op = "purge"
    /\ \A t \in Trips : trips[t].order = o => TripFree(t)
    /\ IF handler[h].seen
       THEN /\ StockFree
            /\ stock' = stock - handler[h].owed
            /\ ledger' = [t \in Trips |-> IF t \in Of(o) THEN << >> ELSE ledger[t]]
       ELSE UNCHANGED <<stock, ledger>>
    /\ trips' = [t \in Trips |-> IF trips[t].order = o /\ Real(t)
                                 THEN [trips[t] EXCEPT !.status = "purged"] ELSE trips[t]]
    /\ Ends(h)
    /\ UNCHANGED byHand

\* An exception, a deadlock that the database breaks, a row that is gone, or the
\* end of the process: the transaction is rolled back, its locks are released.
Abort(h) ==
    /\ handler[h] # Idle
    /\ Ends(h)
    /\ UNCHANGED <<trips, ledger, byHand, stock>>

-----------------------------------------------------------------------------
TripRequest(h) ==
    \/ \E t \in Trips : \/ "start" \in Ops /\ StartBegin(h, t)
                        \/ "complete" \in Ops /\ \E v \in Actual : CompleteBegin(h, t, v)
                        \/ "cancel" \in Ops /\ CancelBegin(h, t)
    \/ "reconcile" \in Ops /\ ReconcileBegin(h)

TripStep(h) ==
    \/ AutoBegin(h) \/ AutoFound(h) \/ \E t \in Trips : AutoCommit(h, t)
    \/ StartCommit(h) \/ CompleteWrite(h) \/ CancelCommit(h)
    \/ ReconcileCommit(h) \/ PurgeCommit(h)

ByStaff ==
    \/ \E t \in Trips, o \in Orders, v \in Planned, tracked \in BOOLEAN :
         "create" \in Ops /\ CreateTrip(t, o, v, tracked)
    \/ \E delta \in Deltas : EntryByHand(delta)

\* delivery_service alone: order_service may answer a completion either way.
LedgerNext ==
    \/ ByStaff
    \/ \E h \in Handlers :
         \/ \E o \in Orders, v \in Planned : "auto" \in Ops /\ AutoCall(h, o, v)
         \/ \E o \in Orders : "purge" \in Ops /\ PurgeBegin(h, o)
         \/ TripRequest(h) \/ TripStep(h)
         \/ CompleteCommit(h) \/ Abort(h)

LedgerSpec == LedgerInit /\ [][LedgerNext]_ledgerVars

-----------------------------------------------------------------------------
(* What the handlers keep true under every interleaving *)

\* Every trip, row and open session is of its type.
LedgerTypeOK ==
    /\ trips \in [Trips -> Trip]
    /\ ledger \in [Trips -> Seq([note: Notes, litres: Int])]
    /\ byHand \in Int /\ stock \in Int
    /\ handler \in [Handlers -> HandlerState]

\* No trip is booked twice for one reason, though the starts, completions and
\* cancellations that overlap have all read a status that allowed them: the look
\* for an earlier booking comes after the UPDATE that waits for the trip's lock.
OneRowPerNote ==
    \A t \in Trips, note \in Notes :
        Cardinality({i \in DOMAIN ledger[t] : ledger[t][i].note = note}) <= 1

\* A tracked trip on its way or completed has taken its litres, and nothing is
\* returned or adjusted that was not taken: the rows begin with the departure.
DepartureFirst ==
    \A t \in Trips :
        /\ trips[t].tracked /\ trips[t].status \in {"in_transit", "completed"}
             => ledger[t] # << >>
        /\ ledger[t] # << >> =>
             /\ ledger[t][1] = [note |-> "trip_planned", litres |-> -trips[t].planned]
             /\ trips[t].tracked

\* Every trip and row is of its type, no trip is booked twice for one reason, and what
\* corrects or takes back a departure comes after it (record_departure_on_start,
\* record_departure_adjustment, record_reversal_for_cancelled_trip).
LedgerOK == LedgerTypeOK /\ OneRowPerNote /\ DepartureFirst

\* No overlap of bookings loses a delta: the stock goes with the journal in every
\* step but the recount, and the purge of an order that was booked for after the
\* purge had read its rows.  Only these two change how far they are apart.
StockFollowsJournal ==
    [][\/ \E h \in Handlers : ReconcileCommit(h)
       \/ \E h \in Handlers : PurgeCommit(h) /\ handler[h].owed # Litres(handler[h].order)
       \/ stock' - LedgerTotal' = stock - LedgerTotal]_ledgerVars

\* The trip of a completion that waits for order_service stays as it is.
CompletingTripStable ==
    [][\A h \in Handlers :
         handler[h].op = "completing" /\ handler'[h] = handler[h]
           => /\ trips'[handler[h].trip] = trips[handler[h].trip]
              /\ ledger'[handler[h].trip] = ledger[handler[h].trip]]_ledgerVars
=============================================================================
