------------------------------- MODULE Fulfilment -------------------------------
(***************************************************************************)
(* An order, its delivery and its trips: order_service and                 *)
(* delivery_service together.                                              *)
(*                                                                         *)
(*  - The delivery of an order keeps the order row locked and asks         *)
(*    delivery_service to create and start a trip; the order commits when  *)
(*    the answer is 201, and rolls back on any other answer or after 10 s. *)
(*  - The completion of a trip keeps the trip locked and asks              *)
(*    order_service to deliver the order, which asks delivery_service in   *)
(*    its turn; the trip commits when the answer is 200, and rolls back on *)
(*    any other answer or after 5 s.                                       *)
(*  - A rollback on one side does not stop the other: a request that was   *)
(*    sent is served, and its answer goes nowhere.                         *)
(*  - A deleted order is announced by a Redis message, which may be lost.  *)
(***************************************************************************)
EXTENDS OrderService

CONSTANTS Trips, Handlers, NoHandler,
          Ops          \* operations on trips the environment asks for

ASSUME NoHandlerAssumption == NoHandler \notin Handlers
ASSUME TripsAssumption == IsFiniteSet(Trips)

VARIABLES
    trips, ledger, byHand, stock, handler,   \* of TripLedger
    caller,     \* the session that waits for the auto-start a handler serves
    confirmed,  \* the sessions whose auto-start was answered 201
    asker,      \* the completing handler that waits for the delivery of a session
    verdict,    \* how far the request of a completing handler has come
    deleted     \* orders whose order_deleted message is on its way

fuelVars == <<trips, ledger, byHand, stock, handler>>
linkVars == <<caller, confirmed, asker, verdict>>
allVars  == <<orderVars, fuelVars, linkVars, deleted>>

Fuel == INSTANCE TripLedger
            WITH Planned <- Volumes, Actual <- Volumes, Deltas <- {}, StockBound <- 0

FulfilmentInit ==
    /\ OrderInit /\ Fuel!LedgerInit
    /\ caller = [h \in Handlers |-> NoSession]
    /\ confirmed = {}
    /\ asker = [s \in Sessions |-> NoHandler]
    /\ verdict = [h \in Handlers |-> "none"]
    /\ deleted = {}

-----------------------------------------------------------------------------
(* The delivery of an order *)

\* transition_status to DELIVERED, up to the call of auto-start.
CallsAutoStart(s, o, d, k, v) ==
    /\ DeliverBegin(s, o, d, k, v)
    /\ \E h \in Handlers : Fuel!AutoCall(h, o, v) /\ caller' = [caller EXCEPT ![h] = s]

\* The driver presses "delivered" in the app.
Deliver(s, o, d, k, v) ==
    /\ CallsAutoStart(s, o, d, k, v)
    /\ UNCHANGED <<confirmed, asker, verdict, deleted>>

Answered(h) ==
    /\ confirmed' = IF caller[h] = NoSession THEN confirmed ELSE confirmed \cup {caller[h]}
    /\ caller' = [caller EXCEPT ![h] = NoSession]
    /\ UNCHANGED <<orderVars, asker, verdict, deleted>>

AutoStart(h) ==
    \/ Fuel!AutoBegin(h) /\ UNCHANGED <<orderVars, linkVars, deleted>>
    \/ /\ Fuel!AutoFound(h) \/ \E t \in Trips : Fuel!AutoCommit(h, t)
       /\ Answered(h)

\* Mutant: an answer other than 201 delivers the order as well (fail-open).
DeliveredUnconfirmed(s) ==
    /\ DeliverCommit(s)
    /\ confirmed' = confirmed \ {s}
    /\ asker' = [asker EXCEPT ![s] = NoHandler]
    /\ verdict' = [h \in Handlers |-> IF asker[s] = h THEN "accepted" ELSE verdict[h]]
    /\ caller' = [h \in Handlers |-> IF caller[h] = s THEN NoSession ELSE caller[h]]
    /\ UNCHANGED <<fuelVars, deleted>>

Delivered(s) ==
    /\ s \in confirmed
    /\ DeliverCommit(s)
    /\ confirmed' = confirmed \ {s}
    /\ asker' = [asker EXCEPT ![s] = NoHandler]
    /\ verdict' = [h \in Handlers |-> IF asker[s] = h THEN "accepted" ELSE verdict[h]]
    /\ UNCHANGED <<caller, fuelVars, deleted>>

\* The call failed, 10 s are over, or the process ends: the row is rolled back and
\* the auto-start, if it runs, goes on.
NotDelivered(s) ==
    /\ RollBack(s)
    /\ confirmed' = confirmed \ {s}
    /\ caller' = [h \in Handlers |-> IF caller[h] = s THEN NoSession ELSE caller[h]]
    /\ asker' = [asker EXCEPT ![s] = NoHandler]
    /\ verdict' = [h \in Handlers |-> IF asker[s] = h THEN "refused" ELSE verdict[h]]
    /\ UNCHANGED <<fuelVars, deleted>>

-----------------------------------------------------------------------------
(* The completion of a trip *)

CompleteTrip(h) ==
    /\ Fuel!CompleteWrite(h)
    /\ verdict' = [verdict EXCEPT ![h] = "asked"]
    /\ UNCHANGED <<orderVars, caller, confirmed, asker, deleted>>

TripOrder(h) == trips[handler[h].trip].order

\* order_service serves the request: a delivery from stock asks for auto-start, a
\* transport order is delivered at once.
ServeCompletion(h) ==
    /\ verdict[h] = "asked"
    /\ \/ \E s \in Sessions, d \in Drivers :
            /\ CallsAutoStart(s, TripOrder(h), d, NoKey, handler[h].litres)
            /\ asker' = [asker EXCEPT ![s] = h]
            /\ verdict' = [verdict EXCEPT ![h] = "served"]
            /\ UNCHANGED <<confirmed, deleted>>
       \/ \E d \in Drivers :
            /\ TransitionStatus(TripOrder(h), d, "delivered", NoKey)
            /\ verdict' = [verdict EXCEPT ![h] = "accepted"]
            /\ UNCHANGED <<fuelVars, caller, confirmed, asker, deleted>>

\* Mutant: the trip does not wait for the answer.
CompletedAnyway(h) ==
    /\ verdict[h] # "none"
    /\ Fuel!CompleteCommit(h)
    /\ verdict' = [verdict EXCEPT ![h] = "none"]
    /\ UNCHANGED <<orderVars, caller, confirmed, asker, deleted>>

Completed(h) ==
    /\ verdict[h] = "accepted"
    /\ Fuel!CompleteCommit(h)
    /\ verdict' = [verdict EXCEPT ![h] = "none"]
    /\ UNCHANGED <<orderVars, caller, confirmed, asker, deleted>>

\* Mutant: the call of order_service has no time limit.
NotCompletedUnlimited(h) ==
    /\ verdict[h] \in {"none", "refused"}
    /\ Fuel!Abort(h)
    /\ caller' = [caller EXCEPT ![h] = NoSession]
    /\ asker' = [s \in Sessions |-> IF asker[s] = h THEN NoHandler ELSE asker[s]]
    /\ verdict' = [verdict EXCEPT ![h] = "none"]
    /\ UNCHANGED <<orderVars, confirmed, deleted>>

\* The request of a handler ends without a commit: refused, 5 s over, a database
\* error.  A session that serves its request goes on.
NotCompleted(h) ==
    /\ Fuel!Abort(h)
    /\ caller' = [caller EXCEPT ![h] = NoSession]
    /\ asker' = [s \in Sessions |-> IF asker[s] = h THEN NoHandler ELSE asker[s]]
    /\ verdict' = [verdict EXCEPT ![h] = "none"]
    /\ UNCHANGED <<orderVars, confirmed, deleted>>

-----------------------------------------------------------------------------
(* Everything else *)

\* cancel_trip asks order_service to take the order back to ACCEPTED; the status
\* machine allows that to a driver, of a NEW order.  The answer is not looked at.
CancelTrip(h) ==
    LET o == TripOrder(h) IN
    /\ Fuel!CancelCommit(h)
    /\ \/ UNCHANGED orderVars
       \/ handler[h].read = "in_transit" /\ \E d \in Drivers : TransitionStatus(o, d, "accepted", NoKey)
    /\ UNCHANGED <<linkVars, deleted>>

\* The message is published after the commit, and may be lost.
DeleteOrder(o) ==
    /\ "delete" \in Requests /\ HardDeleteOrder(o)
    /\ deleted' \in {deleted, deleted \cup {o}}
    /\ UNCHANGED <<fuelVars, linkVars>>

PurgeOrder(h, o) ==
    /\ o \in deleted
    /\ Fuel!PurgeBegin(h, o)
    /\ deleted' = deleted \ {o}
    /\ UNCHANGED <<orderVars, linkVars>>

OrderAlone(o) ==
    /\ \/ CreateOrder(o)
       \/ \E d \in Drivers : "claim" \in Requests /\ ClaimOrder(o, d)
       \/ \E a \in Actors, to \in Statuses, k \in Keys \cup {NoKey} : TransitionStatus(o, a, to, k)
    /\ UNCHANGED <<fuelVars, linkVars, deleted>>

TripsAlone ==
    /\ \/ Fuel!ByStaff
       \/ \E h \in Handlers : Fuel!TripRequest(h) \/ Fuel!StartCommit(h) \/ Fuel!PurgeCommit(h)
    /\ UNCHANGED <<orderVars, linkVars, deleted>>

FulfilmentNext ==
    \/ \E s \in Sessions, o \in Orders, d \in Drivers, k \in Keys \cup {NoKey}, v \in Volumes :
         Deliver(s, o, d, k, v)
    \/ \E s \in Sessions : Delivered(s) \/ NotDelivered(s)
    \/ \E h \in Handlers : \/ AutoStart(h) \/ CompleteTrip(h) \/ ServeCompletion(h)
                           \/ Completed(h) \/ NotCompleted(h) \/ CancelTrip(h)
    \/ \E o \in Orders : OrderAlone(o) \/ DeleteOrder(o) \/ \E h \in Handlers : PurgeOrder(h, o)
    \/ TripsAlone

FulfilmentSpec == FulfilmentInit /\ [][FulfilmentNext]_allVars

\* What the services do by themselves.  Row locks are granted in turn, so a
\* handler that waits for one is served (strong fairness); an auto-start that
\* finds two active trips fails; the call of a completion is given up after 5 s.
\* Of the session that delivers only the reaction to an answer is assumed, not
\* its own time limit, and of the environment nothing.
TwoActive(h) == handler[h].op = "called" /\ Cardinality(Fuel!Active(handler[h].order)) > 1

Refused(s) == s \notin confirmed /\ \A h \in Handlers : caller[h] # s

Fairness ==
    /\ \A h \in Handlers :
         /\ SF_allVars(AutoStart(h) \/ (TwoActive(h) /\ NotCompleted(h)))
         /\ WF_allVars(handler[h].op = "completing" /\ NotCompleted(h))
    /\ \A s \in Sessions : WF_allVars(Delivered(s) \/ (Refused(s) /\ NotDelivered(s)))

FairFulfilmentSpec == FulfilmentSpec /\ Fairness

-----------------------------------------------------------------------------
(* Safety of the two services together *)

\* The links are of their types, and each points to somebody who waits.
LinksOK ==
    /\ caller \in [Handlers -> Sessions \cup {NoSession}]
    /\ confirmed \subseteq Sessions
    /\ asker \in [Sessions -> Handlers \cup {NoHandler}]
    /\ verdict \in [Handlers -> {"none", "asked", "served", "accepted", "refused"}]
    /\ deleted \subseteq Orders
    /\ \A s \in Sessions :
         /\ s \in confirmed \/ asker[s] # NoHandler => session[s].op = "deliver"
         /\ asker[s] # NoHandler => verdict[asker[s]] = "served"
    /\ \A h \in Handlers : verdict[h] # "none" => handler[h].op = "completing"

\* A trip is completed only for an order that is delivered (or was deleted since):
\* a refusal, a timeout or a rollback of order_service never leaves a completed
\* trip behind, and no later transition takes the order back.
CompletedImpliesDelivered ==
    \A t \in Trips : trips[t].status = "completed" =>
        orders[trips[t].order].status \in {"delivered", "deleted"}

\* The litres a completed trip has taken are those its driver reported and its
\* order records, though completions of one trip may overlap.
FactIsBooked ==
    \A t \in Trips : trips[t].status = "completed" /\ ~Fuel!Booked(t, "trip_cancelled") =>
        /\ trips[t].tracked => Fuel!RowsTotal(ledger[t]) = -trips[t].actual
        /\ Exists(trips[t].order) => orders[trips[t].order].kind = "transport"
                                     \/ orders[trips[t].order].delivered = trips[t].actual

\* An order delivered from stock has a trip: without the confirmation of
\* delivery_service the delivery does not commit (fail-closed).
DeliveredHasTrip ==
    \A o \in Orders : orders[o].status = "delivered" /\ orders[o].kind # "transport" =>
        \E t \in Trips : trips[t].order = o /\ Fuel!Real(t)

\* A delivery in flight ends, and gives the row lock up, though the services can
\* wait for each other in a circle: the delivery holds the order row while its
\* auto-start waits for the stock row, which a completion of a trip of the same
\* order holds while it waits for the order row.  (Unless all the trip ids of the
\* model are used up.)
DeliveryEnds ==
    \A s \in Sessions :
        session[s].op = "deliver" ~>
            session[s] = Idle \/ \A t \in Trips : trips[t].status # "none"

-----------------------------------------------------------------------------
(* What the repository says of them *)

\* "The trip stays IN_TRANSIT and the driver tries again" (the comment in
\* complete_trip): when a completion that order_service has served is given up,
\* because its answer came late, the order can still be delivered.
RetryPossible ==
    [][\A h \in Handlers :
         verdict[h] = "accepted" /\ NotCompleted(h)
           => orders[TripOrder(h)].status # "delivered"]_allVars
=============================================================================
