---------------------------- MODULE TransportOrders ----------------------------
(***************************************************************************)
(* The two requests of transport_service that write order rows, beside all *)
(* those of OrderService (create_transport_order is its CreateOrder).      *)
(*                                                                         *)
(* deliver_transport_order reads the order without a lock, writes the      *)
(* route, and calls transition_status in the SAME database session.  The   *)
(* session keeps the object it has loaded: the SELECT FOR UPDATE of        *)
(* transition_status waits for the row and filters on its committed        *)
(* columns, but hands back the object of the first read (no query of the   *)
(* service asks for populate_existing), so what follows decides on the     *)
(* status and the driver of that first read.                               *)
(***************************************************************************)
EXTENDS OrderService

VARIABLE route    \* deliver_transport_order per session: what its first read saw

transportVars == <<orders, statusLog, idemKeys, session, rowLock, route>>

TransportInit == OrderInit /\ route = [s \in Sessions |-> Idle]

\* get_transport_order: staff and the order's own driver, no lock.
TransportReadable(o, a) ==
    /\ Exists(o) /\ ~orders[o].archived
    /\ orders[o].kind = "transport"
    /\ a \in Staff \/ orders[o].driver = a

\* update_transport_order: staff may change any field at any status; the UPDATE is
\* the UpdateCommit of an edit.
UpdateTransportBegin(s, o, a, d, v) ==
    /\ route[s] = Idle
    /\ a \in Staff
    /\ TransportReadable(o, a)
    /\ Opened(s, "edit", o, a, [orders[o] EXCEPT !.driver = d, !.volume = v])
    /\ UNCHANGED route

\* deliver_transport_order up to its first write.
DeliverTransportBegin(s, o, d, k) ==
    /\ session[s] = Idle /\ route[s] = Idle
    /\ TransportReadable(o, d)
    /\ route' = [route EXCEPT ![s] =
          [op |-> "route", order |-> o, driver |-> d, key |-> k, snap |-> orders[o]]]
    /\ UNCHANGED orderVars

\* transition_status under the row lock.  Whether there is such an order, and
\* whether it is archived, the query sees in the committed row; the status and the
\* driver it checks are those of the object in the session.
DeliverTransportCommit(s) ==
    LET o == route[s].order
        seen == route[s].snap IN
    /\ route[s] # Idle
    /\ Unlocked(o)
    /\ KeyFree(route[s].key)
    /\ Exists(o) /\ ~orders[o].archived
    /\ "driver" \in RolesAllowed(seen.status, "delivered")
    /\ seen.driver = route[s].driver
    /\ \E v \in Volumes :
         orders' = [orders EXCEPT ![o].status = "delivered", ![o].delivered = v]
    /\ Logged(o, seen.status, "delivered", route[s].key)
    /\ idemKeys' = idemKeys \cup KeyRow(route[s].key, o)
    /\ route' = [route EXCEPT ![s] = Idle]
    /\ UNCHANGED <<session, rowLock>>

\* The request is refused, is the repetition of a key, or fails: of what the order
\* rows are modelled by, nothing is written.
DeliverTransportEnd(s) ==
    /\ route[s] # Idle
    /\ route' = [route EXCEPT ![s] = Idle]
    /\ UNCHANGED orderVars

TransportNext ==
    \/ OrderNext /\ UNCHANGED route
    \/ \E s \in Sessions, o \in Orders, a \in Staff, d \in Drivers, v \in Volumes :
         UpdateTransportBegin(s, o, a, d, v)
    \/ \E s \in Sessions, o \in Orders, d \in Drivers, k \in Keys \cup {NoKey} :
         DeliverTransportBegin(s, o, d, k)
    \/ \E s \in Sessions : DeliverTransportCommit(s) \/ DeliverTransportEnd(s)

TransportSpec == TransportInit /\ [][TransportNext]_transportVars

\* "Two requests do not pass validate_transition on one state" (the comment on FOR
\* UPDATE in get_order): in the status log, each transition leaves the status that
\* the one before it reached.
TransitionsSerial ==
    \A o \in Orders : \A i \in 2..Len(statusLog[o]) :
        statusLog[o][i].from = statusLog[o][i-1].to
=============================================================================
