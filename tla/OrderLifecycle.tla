----------------------------- MODULE OrderLifecycle -----------------------------
(***************************************************************************)
(* What order_service promises about the status of an order, without its   *)
(* requests, sessions, locks and drivers: an order is created NEW or       *)
(* waiting for the manager, moves along the status machine of              *)
(* core/status_machine.py one transition at a time, is never revived from  *)
(* a terminal status, and may be deleted for good at any moment.           *)
(***************************************************************************)
CONSTANT Orders

VARIABLE status

Successors(st) ==
    CASE st = "awaiting_manager" -> {"new", "cancelled"}
      [] st = "new"              -> {"accepted", "cancelled"}
      [] st = "accepted"         -> {"delivered", "cancelled"}
      [] OTHER                   -> {}

Live == {"awaiting_manager", "new", "accepted", "delivered", "cancelled"}

Init == status = [o \in Orders |-> "absent"]

Create(o) == /\ status[o] = "absent"
             /\ \E st \in {"new", "awaiting_manager"} : status' = [status EXCEPT ![o] = st]

Move(o) == \E st \in Successors(status[o]) : status' = [status EXCEPT ![o] = st]

Delete(o) == status[o] \in Live /\ status' = [status EXCEPT ![o] = "deleted"]

Next == \E o \in Orders : Create(o) \/ Move(o) \/ Delete(o)

Spec == Init /\ [][Next]_status
=============================================================================
