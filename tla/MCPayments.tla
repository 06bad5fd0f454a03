------------------------------- MODULE MCPayments -------------------------------
(* The payments of one order, for TLC. *)
EXTENDS Payments, TLC

\* Sessions and keys are interchangeable; every property of the runs that use
\* this is a safety property.
Interchangeable == Permutations(Sessions) \cup Permutations(Keys)

(* Rows are of their types, and a key of the outbox pays once (record_payment). *)
PaymentsOK == PayTypeOK /\ KeyPaysOnce
=============================================================================
