------------------------------ MODULE MCFulfilment ------------------------------
(* order_service and delivery_service together, one order, for TLC. *)
EXTENDS Fulfilment, TLC

NoEdits == {}

\* Sessions, handlers and trips are interchangeable; every property of the runs
\* that use this is a safety property.
Interchangeable == Permutations(Sessions) \cup Permutations(Handlers) \cup Permutations(Trips)

(* Who waits for whom is consistent; a completed trip has a delivered order, and an
   order delivered from stock a trip (complete_trip and transition_status, which
   each ask the other service before they commit).                               *)
TripsMatchOrders == LinksOK /\ CompletedImpliesDelivered /\ DeliveredHasTrip
=============================================================================
