------------------------------ MODULE MCTripLedger ------------------------------
(* delivery_service alone, for TLC: the trips and the ledger of the stock, the GPS    *)
(* trackers, the delivery zones.  What they keep has nothing in common, so that each  *)
(* run of the service is a run of each of them: the focus, chosen at first, says      *)
(* which of them moves.                                                               *)
EXTENDS TripLedger, Fleet, TLC

VARIABLE deliveryFocus

deliveryVars == <<ledgerVars, fleetVars, deliveryFocus>>

OneLitre == {1}
NoClaimOrMidnight == {-1, 0}

\* Squares of a map: a triangle drawn either way round, a slanted one, a quadrilateral, and one
\* with a dent.
OnTheMap == {<<lat, lon>> : lat \in 0..3, lon \in 0..3}
Drawn    == {<< <<0, 0>>, <<0, 2>>, <<2, 2>> >>,
             << <<1, 3>>, <<0, 0>>, <<3, 1>> >>,
             << <<1, 0>>, <<3, 1>>, <<2, 3>>, <<0, 2>> >>,
             << <<0, 0>>, <<1, 3>>, <<1, 1>>, <<3, 0>> >>}

DeliveryInit ==
    /\ deliveryFocus \in {"trips", "trackers", "zones"}
    /\ LedgerInit /\ FleetInit

DeliveryNext ==
    /\ \/ deliveryFocus = "trips" /\ LedgerNext /\ UNCHANGED fleetVars
       \/ deliveryFocus = "trackers" /\ TrackersNext /\ UNCHANGED <<ledgerVars, zones>>
       \/ deliveryFocus = "zones" /\ ZonesNext /\ UNCHANGED <<ledgerVars, gpsVars>>
    /\ UNCHANGED deliveryFocus

DeliverySpec == DeliveryInit /\ [][DeliveryNext]_deliveryVars

\* Trips, or the numbers of trackers, and requests are interchangeable; every property of this
\* run is a safety property.
Interchangeable == Permutations(Trips) \cup Permutations(Handlers)
=============================================================================
