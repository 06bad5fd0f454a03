----------------------------- MODULE MCOrderService -----------------------------
(* order_service alone, one order row, for TLC. *)
EXTENDS OrderService, TLC

\* Rows are independent, so one order shows every race on a row.
RowEdits == {{"volume"}, {"driver"}}

\* Drivers and sessions are interchangeable; every property of the runs that use
\* this is a safety property.
Interchangeable == Permutations(Drivers) \cup Permutations(Sessions)
=============================================================================
