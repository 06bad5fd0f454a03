--------------------------- MODULE MCTransportOrders ---------------------------
(* Transport orders beside all other requests, one order row, for TLC. *)
EXTENDS TransportOrders, TLC

NoEdits == {}

Interchangeable == Permutations(Drivers) \cup Permutations(Sessions)
=============================================================================
