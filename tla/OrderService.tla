------------------------------ MODULE OrderService ------------------------------
(***************************************************************************)
(* The order rows of order_service and the requests that write them.       *)
(*                                                                         *)
(* Every HTTP request is one database session and one READ COMMITTED       *)
(* transaction (database.get_db).  Two kinds of handler share a row:       *)
(*   - claim and the status transitions read it FOR UPDATE, so nothing     *)
(*     happens to it between their read and their commit;                  *)
(*   - update_order, reschedule_order, ack_changes and archive_order read  *)
(*     it WITHOUT a lock, decide, and write later.  The ORM writes only    *)
(*     the columns whose value differs from the one that was read, and the *)
(*     UPDATE waits for the row lock but checks nothing again.             *)
(* A handler of the second kind is two actions, a Begin and the commit, so *)
(* that any other request may fall between them.  The delivery of an order *)
(* is two actions as well: it keeps the row lock while it calls            *)
(* delivery_service over HTTP, and commits or rolls back on the answer.    *)
(* The requests of transport_service that write order rows, one of which   *)
(* gets round the lock, are in TransportOrders.                            *)
(***************************************************************************)
EXTENDS Integers, Sequences, FiniteSets

CONSTANTS
    Orders,      \* ids of orders
    Drivers,     \* drivers
    Sessions,    \* database sessions of requests that are in progress
    Keys,        \* idempotency keys of the drivers' offline outbox
    Volumes,     \* litres an order may ask for
    EditSets,    \* sets of fields one edit request may carry
    NewKinds,    \* kinds of the orders that are created
    Requests,    \* request kinds the environment issues: names the bound
    NoDriver, NoSession, NoKey

Statuses == {"awaiting_manager", "new", "accepted", "delivered", "cancelled"}
Kinds    == {"regular", "ttn_l", "transport"}
Staff    == {"manager", "admin"}
Fields   == {"volume", "driver", "address", "desired_date", "organization"}

\* Drivers are told from the other actors, and an order always asks for litres.
ASSUME ActorsAssumption == Drivers \cap (Staff \cup {"client"}) = {}
ASSUME NullsAssumption  == /\ NoDriver \notin Drivers
                           /\ NoSession \notin Sessions
                           /\ NoKey \notin Keys
ASSUME VolumesAssumption == Volumes # {} /\ Volumes \subseteq Nat \ {0}
ASSUME KindsAssumption == NewKinds \subseteq Kinds
ASSUME EditSetsAssumption == EditSets \subseteq (SUBSET Fields) \ {{}}

VARIABLES
    orders,      \* the orders table
    statusLog,   \* order_status_logs: the entries that change the status, with
                 \* the idempotency key of the request that wrote them
    idemKeys,    \* idempotency_keys: pairs <<key, order>>
    session,     \* what each session has read and means to write
    rowLock      \* who holds the row lock across an HTTP call

orderVars == <<orders, statusLog, idemKeys, session, rowLock>>

Actors == Drivers \cup Staff \cup {"client"}

Role(a) == IF a \in Drivers THEN "driver" ELSE a

OrderRow == [status: Statuses \cup {"absent", "deleted"}, kind: Kinds,
             driver: Drivers \cup {NoDriver}, volume: Volumes, delivered: Volumes \cup {0},
             pendingAck: BOOLEAN, changedFields: SUBSET Fields, archived: BOOLEAN]

LogEntry == [from: Statuses \cup {"none"}, to: Statuses, key: Keys \cup {NoKey}]

Idle == [op |-> "idle"]

SessionState == {Idle} \cup
    [op: {"deliver", "edit", "ack", "archive"}, order: Orders, byDriver: BOOLEAN,
     key: Keys \cup {NoKey}, snap: OrderRow, draft: OrderRow]

NoRow(status) == [status |-> status, kind |-> "regular", driver |-> NoDriver,
                  volume |-> CHOOSE v \in Volumes : TRUE, delivered |-> 0,
                  pendingAck |-> FALSE, changedFields |-> {}, archived |-> FALSE]

OrderInit ==
    /\ orders = [o \in Orders |-> NoRow("absent")]
    /\ statusLog = [o \in Orders |-> << >>]
    /\ idemKeys = {}
    /\ session = [s \in Sessions |-> Idle]
    /\ rowLock = [o \in Orders |-> NoSession]

-----------------------------------------------------------------------------
(* What an actor may see and do *)

Exists(o) == orders[o].status \in Statuses

\* A driver sees an internal or a transport order only when it is his, and any
\* other order when it is his or is a free NEW one.
Visible(row, a) ==
    /\ a = "client" => row.kind # "transport"
    /\ a \in Drivers =>
         \/ row.driver = a
         \/ row.kind = "regular" /\ row.status = "new" /\ row.driver = NoDriver

\* Mutant: the lookup forgets is_archived.
ReadableArchived(o, a) == Exists(o) /\ Visible(orders[o], a)

Readable(o, a) == Exists(o) /\ ~orders[o].archived /\ Visible(orders[o], a)

\* Mutant: staff may cancel an order that was delivered.
RolesAllowedReopened(from, to) ==
    CASE to = "cancelled" /\ from # "cancelled"  -> Staff
      [] from = "awaiting_manager" /\ to = "new" -> Staff
      [] from = "new" /\ to = "accepted"         -> {"driver"}
      [] from = "accepted" /\ to = "delivered"   -> {"driver"}
      [] OTHER                                   -> {}

\* The roles that may move an order from one status to another; none when the
\* move is not in the status machine.
RolesAllowed(from, to) ==
    CASE from = "awaiting_manager" /\ to \in {"new", "cancelled"} -> Staff
      [] from \in {"new", "accepted"} /\ to = "cancelled"         -> Staff
      [] from = "new" /\ to = "accepted"                          -> {"driver"}
      [] from = "accepted" /\ to = "delivered"                    -> {"driver"}
      [] OTHER                                                    -> {}

Closed(row) == row.status \in {"delivered", "cancelled"}

\* Who may edit which fields: staff anything, with the exceptions of a closed
\* order; the client and the driver of the order their own fields while it is open.
MayEdit(row, a, fields) ==
    CASE a = "client"   -> ~Closed(row) /\ fields \subseteq {"volume", "address", "desired_date", "organization"}
      [] a \in Drivers  -> ~Closed(row) /\ row.driver = a
                                        /\ fields \subseteq {"volume", "address", "desired_date"}
      [] OTHER          -> Closed(row) => /\ a = "admin" \/ fields \subseteq {"organization"}
                                          /\ "volume" \notin fields

\* Mutant: the lookup forgets FOR UPDATE.
UnlockedIgnored(o) == TRUE

Unlocked(o) == rowLock[o] = NoSession

\* Mutant: the conflict on the key is not looked at.
KeyFreeUnchecked(k) == TRUE

\* A key is free when no committed row has it and no transaction in progress has
\* inserted it: the unique index makes a duplicate wait for that transaction.
KeyFree(k) == k # NoKey =>
    /\ \A o \in Orders : <<k, o>> \notin idemKeys
    /\ \A s \in Sessions : session[s].op = "deliver" => session[s].key # k

KeyRow(k, o) == IF k = NoKey THEN {} ELSE {<<k, o>>}

Logged(o, from, to, k) ==
    statusLog' = [statusLog EXCEPT ![o] = Append(@, [from |-> from, to |-> to, key |-> k])]

-----------------------------------------------------------------------------
(* Handlers whose read and write nothing separates *)

\* create_order and create_transport_order.  Whether a client's order waits for
\* the manager depends on the client type, the volume and the delivery zone.
CreateOrder(o) ==
    /\ orders[o].status = "absent"
    /\ \E a \in Staff \cup {"client"}, kind \in NewKinds, d \in Drivers \cup {NoDriver},
          v \in Volumes, status \in {"new", "awaiting_manager"} :
         /\ a = "client" => kind = "regular" /\ d = NoDriver
         /\ kind = "ttn_l" => d # NoDriver
         /\ status = "awaiting_manager" => a = "client"
         /\ orders' = [orders EXCEPT ![o] =
                [NoRow(status) EXCEPT !.kind = kind, !.driver = d, !.volume = v]]
         /\ Logged(o, "none", status, NoKey)
    /\ UNCHANGED <<idemKeys, session, rowLock>>

\* claim_order: the lookup itself is FOR UPDATE and carries the conditions.
ClaimOrder(o, d) ==
    /\ Unlocked(o)
    /\ orders[o].status = "new" /\ ~orders[o].archived
    /\ orders[o].driver = NoDriver /\ orders[o].kind # "ttn_l"
    /\ orders' = [orders EXCEPT ![o].driver = d, ![o].status = "accepted"]
    /\ Logged(o, "new", "accepted", NoKey)
    /\ UNCHANGED <<idemKeys, session, rowLock>>

\* transition_status where no other service is asked: every transition but the
\* delivery of an order from the company's own stock.
TransitionStatus(o, a, to, k) ==
    /\ Unlocked(o)
    /\ KeyFree(k)
    /\ Readable(o, a)
    /\ Role(a) \in RolesAllowed(orders[o].status, to)
    /\ to = "delivered" => orders[o].kind = "transport" /\ orders[o].driver = a
    /\ \E v \in IF to = "delivered" THEN Volumes ELSE {0} :
         orders' = [orders EXCEPT ![o].status = to, ![o].delivered = v]
    /\ Logged(o, orders[o].status, to, k)
    /\ idemKeys' = idemKeys \cup KeyRow(k, o)
    /\ UNCHANGED <<session, rowLock>>

\* hard_delete_order: the row, its log and its keys go in one transaction.
HardDeleteOrder(o) ==
    /\ Unlocked(o)
    /\ Exists(o)
    /\ orders' = [orders EXCEPT ![o] = NoRow("deleted")]
    /\ statusLog' = [statusLog EXCEPT ![o] = << >>]
    /\ idemKeys' = {p \in idemKeys : p[2] # o}
    /\ UNCHANGED <<session, rowLock>>

-----------------------------------------------------------------------------
(* The delivery of an order from stock: the row lock is held over an HTTP call *)

\* transition_status to DELIVERED up to the call of _auto_record_delivery.
DeliverBegin(s, o, d, k, v) ==
    /\ session[s] = Idle /\ Unlocked(o)
    /\ KeyFree(k)
    /\ Readable(o, d)
    /\ Role(d) \in RolesAllowed(orders[o].status, "delivered")
    /\ orders[o].driver = d /\ orders[o].kind # "transport"
    /\ session' = [session EXCEPT ![s] =
          [op |-> "deliver", order |-> o, byDriver |-> TRUE, key |-> k, snap |-> orders[o],
           draft |-> [orders[o] EXCEPT !.status = "delivered", !.delivered = v]]]
    /\ rowLock' = [rowLock EXCEPT ![o] = s]
    /\ UNCHANGED <<orders, statusLog, idemKeys>>

\* delivery_service answered 2xx: the session commits row, log entry and key.
DeliverCommit(s) ==
    LET o == session[s].order IN
    /\ session[s].op = "deliver"
    /\ orders' = [orders EXCEPT ![o] = session[s].draft]
    /\ Logged(o, session[s].snap.status, "delivered", session[s].key)
    /\ idemKeys' = idemKeys \cup KeyRow(session[s].key, o)
    /\ session' = [session EXCEPT ![s] = Idle]
    /\ rowLock' = [rowLock EXCEPT ![o] = NoSession]

-----------------------------------------------------------------------------
(* Handlers that read without a lock, decide, and write later *)

\* An edit of an accepted order by anybody but a driver asks the driver to
\* acknowledge it and adds to the fields he has not acknowledged.
AskDriver(row, a, fields) ==
    IF row.status = "accepted" /\ a \notin Drivers
    THEN [row EXCEPT !.pendingAck = TRUE, !.changedFields = @ \cup fields]
    ELSE row

\* Mutant: a changed volume is reset instead of set.
EditDraftResetsVolume(row, a, fields, v, d) ==
    AskDriver([row EXCEPT !.volume = IF "volume" \in fields THEN 0 ELSE @], a, fields)

EditDraft(row, a, fields, v, d) ==
    LET edited == [row EXCEPT !.volume = IF "volume" \in fields THEN v ELSE @,
                              !.driver = IF "driver" \in fields THEN d ELSE @]
    IN  AskDriver(edited, a, fields)

Opened(s, op, o, a, draft) ==
    /\ session[s] = Idle
    /\ session' = [session EXCEPT ![s] =
          [op |-> op, order |-> o, byDriver |-> a \in Drivers, key |-> NoKey,
           snap |-> orders[o], draft |-> draft]]
    /\ UNCHANGED <<orders, statusLog, idemKeys, rowLock>>

\* update_order: the permission check on the status that was read.
UpdateBegin(s, o, a, fields, v, d) ==
    /\ Readable(o, a)
    /\ MayEdit(orders[o], a, fields)
    /\ Opened(s, "edit", o, a, EditDraft(orders[o], a, fields, v, d))

\* reschedule_order: any status, a new date and, by staff, a new driver.
RescheduleBegin(s, o, a, fields, d) ==
    /\ fields \subseteq {"desired_date", "driver"}
    /\ Readable(o, a)
    /\ "driver" \in fields => a \in Staff
    /\ Opened(s, "edit", o, a, EditDraft(orders[o], a, fields, orders[o].volume, d))

\* ack_changes: the driver has seen the changes.
AckBegin(s, o, d) ==
    /\ Readable(o, d)
    /\ Opened(s, "ack", o, d,
              [orders[o] EXCEPT !.pendingAck = FALSE, !.changedFields = {}])

\* archive_order.
ArchiveBegin(s, o, a) ==
    /\ Exists(o) /\ ~orders[o].archived
    /\ Opened(s, "archive", o, a, [orders[o] EXCEPT !.archived = TRUE])

\* Mutant: the UPDATE writes every column of the object.
WriteBackWholeRow(cur, snap, draft) == draft

\* The UPDATE of the unit of work: only the columns the handler changed.
WriteBack(cur, snap, draft) ==
    LET Column(c, old, new) == IF new = old THEN c ELSE new IN
    [status        |-> cur.status,
     kind          |-> cur.kind,
     driver        |-> Column(cur.driver, snap.driver, draft.driver),
     volume        |-> Column(cur.volume, snap.volume, draft.volume),
     delivered     |-> cur.delivered,
     pendingAck    |-> Column(cur.pendingAck, snap.pendingAck, draft.pendingAck),
     changedFields |-> Column(cur.changedFields, snap.changedFields, draft.changedFields),
     archived      |-> Column(cur.archived, snap.archived, draft.archived)]

\* The flush waits for the row lock; it fails when the row is gone.
UpdateCommit(s) ==
    LET o == session[s].order IN
    /\ session[s].op \in {"edit", "ack", "archive"}
    /\ Unlocked(o)
    /\ Exists(o)
    /\ orders' = [orders EXCEPT ![o] = WriteBack(@, session[s].snap, session[s].draft)]
    /\ session' = [session EXCEPT ![s] = Idle]
    /\ UNCHANGED <<statusLog, idemKeys, rowLock>>

\* An exception in the handler, or the end of the process: get_db rolls back,
\* the row lock and the inserted key go with the transaction.
RollBack(s) ==
    /\ session[s] # Idle
    /\ session' = [session EXCEPT ![s] = Idle]
    /\ rowLock' = [o \in Orders |-> IF rowLock[o] = s THEN NoSession ELSE rowLock[o]]
    /\ UNCHANGED <<orders, statusLog, idemKeys>>

-----------------------------------------------------------------------------
LockedRequest(o) ==
    \/ CreateOrder(o)
    \/ \E d \in Drivers : "claim" \in Requests /\ ClaimOrder(o, d)
    \/ \E a \in Actors, to \in Statuses, k \in Keys \cup {NoKey} : TransitionStatus(o, a, to, k)
    \/ "delete" \in Requests /\ HardDeleteOrder(o)

UnlockedRequest(s, o) ==
    \/ \E a \in Actors, fields \in EditSets, v \in Volumes, d \in Drivers :
         \/ "update" \in Requests /\ UpdateBegin(s, o, a, fields, v, d)
         \/ "reschedule" \in Requests /\ RescheduleBegin(s, o, a, fields, d)
    \/ \E d \in Drivers : "ack" \in Requests /\ AckBegin(s, o, d)
    \/ \E a \in Staff : "archive" \in Requests /\ ArchiveBegin(s, o, a)

\* order_service alone: delivery_service may answer a delivery either way.
OrderNext ==
    \/ \E o \in Orders : LockedRequest(o)
    \/ \E s \in Sessions, o \in Orders : UnlockedRequest(s, o)
    \/ \E s \in Sessions, o \in Orders, d \in Drivers, k \in Keys \cup {NoKey}, v \in Volumes :
         DeliverBegin(s, o, d, k, v)
    \/ \E s \in Sessions : DeliverCommit(s) \/ UpdateCommit(s) \/ RollBack(s)

OrderSpec == OrderInit /\ [][OrderNext]_orderVars

-----------------------------------------------------------------------------
(* What the handlers keep true under every interleaving *)

\* Every row, log entry, key and open session is of its type.
TypeOK ==
    /\ orders \in [Orders -> OrderRow]
    /\ statusLog \in [Orders -> Seq(LogEntry)]
    /\ idemKeys \subseteq Keys \X Orders
    /\ session \in [Sessions -> SessionState]
    /\ rowLock \in [Orders -> Sessions \cup {NoSession}]

\* A delivery in flight and the lock of its row go together, and the row is as the
\* delivery read it: accepted, not archived.  (What the other proofs rest on.)
DeliveryHoldsLock ==
    /\ \A s \in Sessions : session[s].op = "deliver" =>
         LET o == session[s].order IN
         /\ rowLock[o] = s
         /\ session[s].snap = orders[o]
         /\ orders[o].status = "accepted" /\ ~orders[o].archived
         /\ session[s].draft.status = "delivered" /\ ~session[s].draft.archived
    /\ \A o \in Orders : rowLock[o] # NoSession =>
         session[rowLock[o]].op = "deliver" /\ session[rowLock[o]].order = o

\* A log that starts at a creation, moves along the status machine and ends at st.
WalkTo(log, st) ==
    /\ log # << >>
    /\ log[1].from = "none"
    /\ log[Len(log)].to = st
    /\ \A i \in 2..Len(log) : log[i].from = log[i-1].to /\ RolesAllowed(log[i].from, log[i].to) # {}

\* The status log of an order is a walk through the status machine that starts
\* at its creation and ends at its status, whatever requests overlap: no
\* transition is decided on a status that another request has already left, and
\* no unlocked handler puts an old status back.
StatusTrail == \A o \in Orders : Exists(o) => WalkTo(statusLog[o], orders[o].status)

\* A key is recorded exactly when one transition was committed under it: a
\* retry of the outbox is swallowed only if the first attempt took effect, and
\* no two transitions were made for one key.
KeyMeansApplied ==
    \A o \in Orders, k \in Keys :
        LET applied == {i \in DOMAIN statusLog[o] : statusLog[o][i].key = k} IN
        IF <<k, o>> \in idemKeys
        THEN /\ Cardinality(applied) = 1
             /\ \A p \in Orders : <<k, p>> \in idemKeys => p = o
        ELSE applied = {}

\* Nothing changes the row of an order while its delivery waits for
\* delivery_service, so the trip is booked for the driver and litres that commit.
LockedRowStable ==
    [][\A o \in Orders : rowLock[o] # NoSession /\ rowLock'[o] = rowLock[o]
                            => orders'[o] = orders[o]]_orderVars

\* An archived order is out of the lifecycle: its status moves no more, though
\* archiving itself takes no lock.
ArchivedKeepsStatus ==
    [][\A o \in Orders : orders[o].archived
                            => orders'[o].status \in {orders[o].status, "deleted"}]_orderVars

Lifecycle == INSTANCE OrderLifecycle WITH status <- [o \in Orders |-> orders[o].status]

\* Every behaviour of the rows is a behaviour of the abstract lifecycle: requests
\* may overlap, but each order moves along the status machine one transition at
\* a time and is never revived.
ImplementsLifecycle == Lifecycle!Spec

=============================================================================
