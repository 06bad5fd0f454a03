---------------------------- MODULE FulfilmentProofs ----------------------------
(***************************************************************************)
(* Proofs about OrderService, and about Fulfilment, which composes it with *)
(* TripLedger, for any number of orders, drivers, sessions, keys, volumes, *)
(* trips and handlers.  The proofs of the ledger are those of              *)
(* TripLedgerProofs, instantiated.                                         *)
(***************************************************************************)
EXTENDS MCFulfilment, FiniteSums

-----------------------------------------------------------------------------
(* Types of what the handlers build *)

\* The default row of an order that does not exist is a row.
LEMMA NoRowType ==
    ASSUME NEW st \in Statuses \cup {"absent", "deleted"}
    PROVE  /\ NoRow(st) \in OrderRow
           /\ NoRow(st).status = st
           /\ ~NoRow(st).archived
  <1> DEFINE v0 == CHOOSE v \in Volumes : TRUE
  <1>1. v0 \in Volumes
    BY VolumesAssumption
  <1>2. NoRow(st) = [status |-> st, kind |-> "regular", driver |-> NoDriver,
                     volume |-> v0, delivered |-> 0,
                     pendingAck |-> FALSE, changedFields |-> {}, archived |-> FALSE]
    BY DEF NoRow
  <1> HIDE DEF v0
  <1> QED BY <1>1, <1>2 DEF OrderRow, Kinds

\* The row an edit means to write is a row with the status it was read with.
LEMMA EditDraftType ==
    ASSUME NEW row \in OrderRow, NEW a, NEW fields \in SUBSET Fields,
           NEW v \in Volumes, NEW d \in Drivers
    PROVE  EditDraft(row, a, fields, v, d) \in OrderRow
  BY DEF EditDraft, AskDriver, OrderRow

\* What the unit of work leaves in the table is a row whose status, kind and
\* delivered litres are those of the table, not those that were read.
LEMMA WriteBackType ==
    ASSUME NEW cur \in OrderRow, NEW snap \in OrderRow, NEW draft \in OrderRow
    PROVE  /\ WriteBack(cur, snap, draft) \in OrderRow
           /\ WriteBack(cur, snap, draft).status = cur.status
  BY DEF WriteBack, OrderRow

\* A key is entered with the order it was applied to.
LEMMA KeyRowType ==
    ASSUME NEW k \in Keys \cup {NoKey}, NEW o \in Orders
    PROVE  KeyRow(k, o) \subseteq Keys \X Orders
  BY DEF KeyRow

\* A session that is open is one of the four handlers that last.
LEMMA OpenSession ==
    ASSUME TypeOK, NEW s \in Sessions, session[s].op # "idle"
    PROVE  /\ session[s].op \in {"deliver", "edit", "ack", "archive"}
           /\ session[s].order \in Orders
           /\ session[s].key \in Keys \cup {NoKey}
           /\ session[s].snap \in OrderRow
           /\ session[s].draft \in OrderRow
  BY DEF TypeOK, SessionState, Idle

-----------------------------------------------------------------------------
(* Type correctness *)

\* Every step keeps the types of the tables and of the sessions.
LEMMA TypeStep == TypeOK /\ DeliveryHoldsLock /\ [OrderNext]_orderVars => TypeOK'
  <1> SUFFICES ASSUME TypeOK, DeliveryHoldsLock, [OrderNext]_orderVars PROVE TypeOK'
    OBVIOUS
  <1>1. ASSUME NEW o \in Orders, CreateOrder(o) PROVE TypeOK'
    <2> PICK a \in Staff \cup {"client"}, kind \in NewKinds, d \in Drivers \cup {NoDriver},
             v \in Volumes, st \in {"new", "awaiting_manager"} :
               /\ a = "client" => kind = "regular" /\ d = NoDriver
               /\ kind = "ttn_l" => d # NoDriver
               /\ st = "awaiting_manager" => a = "client"
               /\ orders' = [orders EXCEPT ![o] =
                      [NoRow(st) EXCEPT !.kind = kind, !.driver = d, !.volume = v]]
               /\ Logged(o, "none", st, NoKey)
      BY <1>1, Zenon DEF CreateOrder
    <2>1. NoRow(st) \in OrderRow
      BY NoRowType DEF Statuses
    <2>2. [NoRow(st) EXCEPT !.kind = kind, !.driver = d, !.volume = v] \in OrderRow
      BY <2>1, KindsAssumption DEF OrderRow
    <2>3. [from |-> "none", to |-> st, key |-> NoKey] \in LogEntry
      BY DEF LogEntry, Statuses
    <2> QED BY <1>1, <2>2, <2>3 DEF CreateOrder, Logged, TypeOK
  <1>2. ASSUME NEW o \in Orders, NEW d \in Drivers, ClaimOrder(o, d) PROVE TypeOK'
    <2>1. [orders[o] EXCEPT !.driver = d, !.status = "accepted"] \in OrderRow
      BY DEF OrderRow, Statuses, TypeOK
    <2>2. [from |-> "new", to |-> "accepted", key |-> NoKey] \in LogEntry
      BY DEF LogEntry, Statuses
    <2> QED BY <1>2, <2>1, <2>2 DEF ClaimOrder, Logged, TypeOK
  <1>3. ASSUME NEW o \in Orders, NEW a \in Actors, NEW to \in Statuses,
               NEW k \in Keys \cup {NoKey}, TransitionStatus(o, a, to, k)
        PROVE TypeOK'
    <2> PICK v \in Volumes \cup {0} :
               orders' = [orders EXCEPT ![o].status = to, ![o].delivered = v]
      BY <1>3 DEF TransitionStatus
    <2>1. [orders[o] EXCEPT !.status = to, !.delivered = v] \in OrderRow
      BY DEF OrderRow, TypeOK
    <2>2. [from |-> orders[o].status, to |-> to, key |-> k] \in LogEntry
      BY <1>3 DEF LogEntry, TransitionStatus, Readable, Exists
    <2>3. statusLog' \in [Orders -> Seq(LogEntry)]
      BY <1>3, <2>2 DEF TransitionStatus, Logged, TypeOK
    <2> QED BY <1>3, <2>1, <2>3, KeyRowType DEF TransitionStatus, TypeOK
  <1>4. ASSUME NEW o \in Orders, HardDeleteOrder(o) PROVE TypeOK'
    <2>1. NoRow("deleted") \in OrderRow
      BY NoRowType
    <2> QED BY <1>4, <2>1 DEF HardDeleteOrder, TypeOK
  <1>5. ASSUME NEW s \in Sessions, NEW o \in Orders, NEW d \in Drivers,
               NEW k \in Keys \cup {NoKey}, NEW v \in Volumes, DeliverBegin(s, o, d, k, v)
        PROVE TypeOK'
    <2> DEFINE draft == [orders[o] EXCEPT !.status = "delivered", !.delivered = v]
    <2>1. orders[o] \in OrderRow /\ draft \in OrderRow
      BY DEF OrderRow, Statuses, TypeOK
    <2>2. [op |-> "deliver", order |-> o, byDriver |-> TRUE, key |-> k, snap |-> orders[o],
           draft |-> draft] \in SessionState
      BY <2>1 DEF SessionState
    <2> QED BY <1>5, <2>2 DEF DeliverBegin, TypeOK
  <1>6. ASSUME NEW s \in Sessions, DeliverCommit(s) PROVE TypeOK'
    <2>1. session[s].order \in Orders /\ session[s].snap \in OrderRow
          /\ session[s].draft \in OrderRow /\ session[s].key \in Keys \cup {NoKey}
      BY <1>6, OpenSession DEF DeliverCommit
    <2>2. session[s].snap.status = "accepted"
      BY <1>6, <2>1 DEF DeliverCommit, DeliveryHoldsLock
    <2>3. [from |-> session[s].snap.status, to |-> "delivered", key |-> session[s].key] \in LogEntry
      BY <2>1, <2>2 DEF LogEntry, Statuses
    <2>4. statusLog' \in [Orders -> Seq(LogEntry)]
      BY <1>6, <2>1, <2>3 DEF DeliverCommit, Logged, TypeOK
    <2>5. idemKeys' \subseteq Keys \X Orders
      BY <1>6, <2>1, KeyRowType DEF DeliverCommit, TypeOK
    <2>6. Idle \in SessionState
      BY DEF SessionState
    <2> QED BY <1>6, <2>1, <2>4, <2>5, <2>6 DEF DeliverCommit, TypeOK
  <1>7. ASSUME NEW s \in Sessions, NEW o \in Orders, UnlockedRequest(s, o) PROVE TypeOK'
    <2>0. orders[o] \in OrderRow
      BY DEF TypeOK
    <2>1. ASSUME NEW op \in {"edit", "ack", "archive"}, NEW a, NEW draft \in OrderRow,
                 Opened(s, op, o, a, draft)
          PROVE  TypeOK'
      <3>1. [op |-> op, order |-> o, byDriver |-> a \in Drivers, key |-> NoKey,
             snap |-> orders[o], draft |-> draft] \in SessionState
        BY <2>0, <2>1 DEF SessionState
      <3> QED BY <2>1, <3>1 DEF Opened, TypeOK
    <2>2. ASSUME NEW a \in Actors, NEW fields \in EditSets, NEW v \in Volumes, NEW d \in Drivers,
                 UpdateBegin(s, o, a, fields, v, d)
          PROVE  TypeOK'
      BY <2>0, <2>1, <2>2, EditDraftType, EditSetsAssumption DEF UpdateBegin
    <2>3. ASSUME NEW a \in Actors, NEW fields \in EditSets, NEW d \in Drivers,
                 RescheduleBegin(s, o, a, fields, d)
          PROVE  TypeOK'
      <3>1. orders[o].volume \in Volumes
        BY <2>0 DEF OrderRow
      <3> QED BY <2>0, <2>1, <2>3, <3>1, EditDraftType, EditSetsAssumption DEF RescheduleBegin
    <2>4. ASSUME NEW d \in Drivers, AckBegin(s, o, d) PROVE TypeOK'
      <3>1. [orders[o] EXCEPT !.pendingAck = FALSE, !.changedFields = {}] \in OrderRow
        BY <2>0 DEF OrderRow
      <3> QED BY <2>1, <2>4, <3>1 DEF AckBegin
    <2>5. ASSUME NEW a \in Staff, ArchiveBegin(s, o, a) PROVE TypeOK'
      <3>1. [orders[o] EXCEPT !.archived = TRUE] \in OrderRow
        BY <2>0 DEF OrderRow
      <3> QED BY <2>1, <2>5, <3>1 DEF ArchiveBegin
    <2> QED BY <1>7, <2>2, <2>3, <2>4, <2>5 DEF UnlockedRequest
  <1>8. ASSUME NEW s \in Sessions, UpdateCommit(s) PROVE TypeOK'
    <2>1. session[s].order \in Orders /\ session[s].snap \in OrderRow /\ session[s].draft \in OrderRow
      BY <1>8, OpenSession DEF UpdateCommit
    <2>2. WriteBack(orders[session[s].order], session[s].snap, session[s].draft) \in OrderRow
      BY <2>1, WriteBackType DEF TypeOK
    <2>3. Idle \in SessionState
      BY DEF SessionState
    <2> QED BY <1>8, <2>1, <2>2, <2>3 DEF UpdateCommit, TypeOK
  <1>9. ASSUME NEW s \in Sessions, RollBack(s) PROVE TypeOK'
    <2>1. Idle \in SessionState
      BY DEF SessionState
    <2> QED BY <1>9, <2>1 DEF RollBack, TypeOK
  <1>10. CASE UNCHANGED orderVars
    BY <1>10 DEF orderVars, TypeOK
  <1> QED BY <1>1, <1>2, <1>3, <1>4, <1>5, <1>6, <1>7, <1>8, <1>9, <1>10
          DEF OrderNext, LockedRequest

-----------------------------------------------------------------------------
(* The lock of a delivery in flight *)

\* A session that reads without a lock takes no lock and writes no row.
LEMMA UnlockedRequestOpens ==
    ASSUME TypeOK, NEW s \in Sessions, NEW o \in Orders, UnlockedRequest(s, o)
    PROVE  /\ UNCHANGED <<orders, statusLog, idemKeys, rowLock>>
           /\ session[s] = Idle
           /\ session' = [session EXCEPT ![s] = session'[s]]
           /\ session'[s].op \in {"edit", "ack", "archive"}
  <1>1. ASSUME NEW op \in {"edit", "ack", "archive"}, NEW a, NEW draft, Opened(s, op, o, a, draft)
        PROVE  /\ UNCHANGED <<orders, statusLog, idemKeys, rowLock>>
               /\ session[s] = Idle
               /\ session' = [session EXCEPT ![s] = session'[s]]
               /\ session'[s].op \in {"edit", "ack", "archive"}
    BY <1>1 DEF Opened, TypeOK
  <1> QED BY <1>1 DEF UnlockedRequest, UpdateBegin, RescheduleBegin, AckBegin, ArchiveBegin

\* Every step keeps the delivery in flight and the lock of its row together.
LEMMA LockStep == TypeOK /\ DeliveryHoldsLock /\ [OrderNext]_orderVars => DeliveryHoldsLock'
  <1> SUFFICES ASSUME TypeOK, DeliveryHoldsLock, [OrderNext]_orderVars PROVE DeliveryHoldsLock'
    OBVIOUS
  <1> USE NullsAssumption DEF Unlocked
  \* A step that takes no lock and opens no delivery, and writes only unlocked rows.
  <1>0. ASSUME UNCHANGED <<session, rowLock>>,
               NEW o \in Orders, rowLock[o] = NoSession,
               \A p \in Orders \ {o} : orders'[p] = orders[p]
        PROVE  DeliveryHoldsLock'
    <2>1. ASSUME NEW s \in Sessions, session[s].op = "deliver"
          PROVE  orders'[session[s].order] = orders[session[s].order]
      <3>1. rowLock[session[s].order] = s
        BY <2>1 DEF DeliveryHoldsLock
      <3>2. session[s].order \in Orders
        BY <2>1, OpenSession DEF Idle
      <3> QED BY <1>0, <3>1, <3>2
    <2> QED BY <1>0, <2>1 DEF DeliveryHoldsLock
  <1>1. ASSUME NEW o \in Orders, CreateOrder(o) PROVE DeliveryHoldsLock'
    <2>1. rowLock[o] = NoSession
      BY <1>1 DEF CreateOrder, DeliveryHoldsLock, TypeOK
    <2> QED BY <1>0, <1>1, <2>1 DEF CreateOrder, TypeOK
  <1>2. ASSUME NEW o \in Orders, NEW d \in Drivers, ClaimOrder(o, d) PROVE DeliveryHoldsLock'
    BY <1>0, <1>2 DEF ClaimOrder, TypeOK
  <1>3. ASSUME NEW o \in Orders, NEW a \in Actors, NEW to \in Statuses,
               NEW k \in Keys \cup {NoKey}, TransitionStatus(o, a, to, k)
        PROVE DeliveryHoldsLock'
    BY <1>0, <1>3 DEF TransitionStatus, TypeOK
  <1>4. ASSUME NEW o \in Orders, HardDeleteOrder(o) PROVE DeliveryHoldsLock'
    BY <1>0, <1>4 DEF HardDeleteOrder, TypeOK
  <1>5. ASSUME NEW s \in Sessions, NEW o \in Orders, NEW d \in Drivers,
               NEW k \in Keys \cup {NoKey}, NEW v \in Volumes, DeliverBegin(s, o, d, k, v)
        PROVE DeliveryHoldsLock'
    <2> DEFINE draft == [orders[o] EXCEPT !.status = "delivered", !.delivered = v]
    <2>1. draft.status = "delivered" /\ draft.archived = orders[o].archived
      BY DEF TypeOK, OrderRow
    <2>2. orders[o].status = "accepted" /\ ~orders[o].archived
      BY <1>5 DEF DeliverBegin, Readable, RolesAllowed, Role
    <2>3. /\ UNCHANGED orders
          /\ session[s] = Idle /\ rowLock[o] = NoSession
          /\ rowLock' = [rowLock EXCEPT ![o] = s]
          /\ \A t \in Sessions \ {s} : session'[t] = session[t]
          /\ session'[s].op = "deliver" /\ session'[s].order = o
          /\ session'[s].snap = orders[o] /\ session'[s].draft = draft
      BY <1>5 DEF DeliverBegin, TypeOK
    <2>4. ASSUME NEW t \in Sessions \ {s}, session[t].op = "deliver"
          PROVE  session[t].order \in Orders \ {o} /\ rowLock'[session[t].order] = t
      <3>1. session[t].order \in Orders /\ rowLock[session[t].order] = t
        BY <2>4, OpenSession DEF DeliveryHoldsLock, Idle
      <3> QED BY <2>3, <3>1 DEF TypeOK
    <2>5. ASSUME NEW p \in Orders \ {o}, rowLock[p] # NoSession
          PROVE  rowLock'[p] = rowLock[p] /\ rowLock[p] # s
      BY <2>3, <2>5 DEF DeliveryHoldsLock, TypeOK, Idle
    <2> HIDE DEF draft
    <2>6. ASSUME NEW t \in Sessions, session'[t].op = "deliver"
          PROVE  /\ rowLock'[session'[t].order] = t
                 /\ session'[t].snap = orders'[session'[t].order]
                 /\ orders'[session'[t].order].status = "accepted"
                 /\ ~orders'[session'[t].order].archived
                 /\ session'[t].draft.status = "delivered" /\ ~session'[t].draft.archived
      <3>1. CASE t = s
        BY <2>1, <2>2, <2>3, <3>1 DEF TypeOK
      <3>2. CASE t # s
        BY <2>3, <2>4, <2>6, <3>2 DEF DeliveryHoldsLock
      <3> QED BY <3>1, <3>2
    <2>7. ASSUME NEW p \in Orders, rowLock'[p] # NoSession
          PROVE  session'[rowLock'[p]].op = "deliver" /\ session'[rowLock'[p]].order = p
      <3>1. CASE p = o
        BY <2>3, <3>1 DEF TypeOK
      <3>2. CASE p # o
        BY <2>3, <2>5, <2>7, <3>2 DEF DeliveryHoldsLock, TypeOK
      <3> QED BY <3>1, <3>2
    <2> QED BY <2>6, <2>7 DEF DeliveryHoldsLock
  <1>6. ASSUME NEW s \in Sessions, DeliverCommit(s) PROVE DeliveryHoldsLock'
    BY <1>6, OpenSession DEF DeliverCommit, DeliveryHoldsLock, TypeOK, Idle
  <1>7. ASSUME NEW s \in Sessions, NEW o \in Orders, UnlockedRequest(s, o) PROVE DeliveryHoldsLock'
    <2>1. /\ UNCHANGED <<orders, rowLock>>
          /\ session[s] = Idle
          /\ session' = [session EXCEPT ![s] = session'[s]]
          /\ session'[s].op # "deliver"
      BY <1>7, UnlockedRequestOpens
    <2>2. \A t \in Sessions \ {s} : session'[t] = session[t]
      BY <2>1 DEF TypeOK
    <2>3. ASSUME NEW p \in Orders, rowLock[p] # NoSession
          PROVE  rowLock[p] \in Sessions \ {s}
      BY <2>1, <2>3 DEF DeliveryHoldsLock, TypeOK, Idle
    <2> QED BY <2>1, <2>2, <2>3 DEF DeliveryHoldsLock
  <1>8. ASSUME NEW s \in Sessions, UpdateCommit(s) PROVE DeliveryHoldsLock'
    BY <1>8, OpenSession DEF UpdateCommit, DeliveryHoldsLock, TypeOK, Idle
  <1>9. ASSUME NEW s \in Sessions, RollBack(s) PROVE DeliveryHoldsLock'
    BY <1>9, OpenSession DEF RollBack, DeliveryHoldsLock, TypeOK, Idle
  <1>10. CASE UNCHANGED orderVars
    BY <1>10 DEF orderVars, DeliveryHoldsLock
  <1> QED BY <1>1, <1>2, <1>3, <1>4, <1>5, <1>6, <1>7, <1>8, <1>9, <1>10
          DEF OrderNext, LockedRequest

\* Before the first request there are no orders and no locks.
LEMMA InitHolds == OrderInit => TypeOK /\ DeliveryHoldsLock
  <1> SUFFICES ASSUME OrderInit PROVE TypeOK /\ DeliveryHoldsLock
    OBVIOUS
  <1>1. NoRow("absent") \in OrderRow
    BY NoRowType
  <1>2. Idle \in SessionState
    BY DEF SessionState
  <1>3. TypeOK
    BY <1>1, <1>2 DEF OrderInit, TypeOK
  <1>4. DeliveryHoldsLock
    BY DEF OrderInit, DeliveryHoldsLock, Unlocked, Idle
  <1> QED BY <1>3, <1>4

\* The tables and the sessions keep their types, and a delivery in flight holds
\* the lock of a row that is as it read it.
THEOREM TypeCorrect == OrderSpec => [](TypeOK /\ DeliveryHoldsLock)
  <1>1. TypeOK /\ DeliveryHoldsLock /\ [OrderNext]_orderVars => (TypeOK /\ DeliveryHoldsLock)'
    BY TypeStep, LockStep
  <1> QED BY InitHolds, <1>1, PTL DEF OrderSpec

-----------------------------------------------------------------------------
(* What one step does to the rows *)

\* One request writes the row and the log of one order.
OneRow(o) == \A p \in Orders \ {o} : orders'[p] = orders[p] /\ statusLog'[p] = statusLog[p]

Appended(o, from, key) ==
    statusLog'[o] = Append(statusLog[o], [from |-> from, to |-> orders'[o].status, key |-> key])

Created(o) == /\ orders[o].status = "absent" /\ Unlocked(o)
              /\ orders'[o].status \in {"new", "awaiting_manager"} /\ ~orders'[o].archived
              /\ Appended(o, "none", NoKey)

Moved(o) == /\ RolesAllowed(orders[o].status, orders'[o].status) # {}
            /\ orders'[o].status \in Statuses
            /\ ~orders[o].archived
            /\ rowLock'[o] = NoSession
            /\ \E k \in Keys \cup {NoKey} : Appended(o, orders[o].status, k)

Removed(o) == /\ Exists(o) /\ Unlocked(o)
              /\ orders'[o].status = "deleted" /\ statusLog'[o] = << >>

Edited(o) == /\ Exists(o) /\ Unlocked(o)
             /\ orders'[o].status = orders[o].status /\ statusLog'[o] = statusLog[o]

\* Every step creates, moves, removes or edits one row, or leaves all alone; only
\* a move may write a row that was locked, and it gives the lock up.
LEMMA RowStep ==
    ASSUME TypeOK, DeliveryHoldsLock, [OrderNext]_orderVars
    PROVE  \/ UNCHANGED <<orders, statusLog>>
           \/ \E o \in Orders : OneRow(o) /\ (Created(o) \/ Moved(o) \/ Removed(o) \/ Edited(o))
  <1> DEFINE Goal == \/ UNCHANGED <<orders, statusLog>>
                     \/ \E o \in Orders : OneRow(o) /\ (Created(o) \/ Moved(o) \/ Removed(o) \/ Edited(o))
  <1> HIDE DEF Goal
  <1> SUFFICES Goal
    BY DEF Goal
  <1>1. ASSUME NEW o \in Orders, CreateOrder(o) PROVE Goal
    <2>1. rowLock[o] = NoSession
      BY <1>1 DEF CreateOrder, DeliveryHoldsLock, Unlocked, TypeOK
    <2>2. PICK a \in Staff \cup {"client"}, kind \in NewKinds, d \in Drivers \cup {NoDriver},
               v \in Volumes, status \in {"new", "awaiting_manager"} :
             /\ a = "client" => kind = "regular" /\ d = NoDriver
             /\ kind = "ttn_l" => d # NoDriver
             /\ status = "awaiting_manager" => a = "client"
             /\ orders' = [orders EXCEPT ![o] =
                    [NoRow(status) EXCEPT !.kind = kind, !.driver = d, !.volume = v]]
             /\ Logged(o, "none", status, NoKey)
      BY <1>1, Zenon DEF CreateOrder
    <2>3. orders'[o].status = status /\ ~orders'[o].archived
      <3> DEFINE row == [NoRow(status) EXCEPT !.kind = kind, !.driver = d, !.volume = v]
      <3>1. row.status = status /\ row.archived = FALSE
        BY DEF NoRow
      <3>2. orders'[o] = row
        BY <2>2 DEF TypeOK
      <3> QED BY <3>1, <3>2
    <2>4. OneRow(o) /\ Created(o)
      BY <1>1, <2>1, <2>2, <2>3 DEF CreateOrder, Created, OneRow, Appended, Logged, Unlocked, TypeOK
    <2> QED BY <2>4 DEF Goal
  <1>2. ASSUME NEW o \in Orders, NEW d \in Drivers, ClaimOrder(o, d) PROVE Goal
    <2>1. /\ orders'[o].status = "accepted"
          /\ orders[o].status = "new" /\ ~orders[o].archived
          /\ OneRow(o) /\ rowLock'[o] = NoSession
      BY <1>2 DEF ClaimOrder, OneRow, Logged, Unlocked, TypeOK, OrderRow
    <2>2. Appended(o, "new", NoKey)
      BY <1>2, <2>1 DEF ClaimOrder, Logged, Appended, TypeOK
    <2>3. Moved(o)
      BY <2>1, <2>2 DEF Moved, RolesAllowed, Statuses
    <2> QED BY <2>1, <2>3 DEF Goal
  <1>3. ASSUME NEW o \in Orders, NEW a \in Actors, NEW to \in Statuses,
               NEW k \in Keys \cup {NoKey}, TransitionStatus(o, a, to, k)
        PROVE Goal
    <2>1. PICK v : orders' = [orders EXCEPT ![o].status = to, ![o].delivered = v]
      BY <1>3, Zenon DEF TransitionStatus
    <2>2. /\ orders'[o].status = to
          /\ \A p \in Orders \ {o} : orders'[p] = orders[p]
      BY <2>1 DEF TypeOK, OrderRow
    <2>3. /\ RolesAllowed(orders[o].status, to) # {}
          /\ ~orders[o].archived
          /\ rowLock'[o] = NoSession
          /\ statusLog' = [statusLog EXCEPT ![o] =
                Append(@, [from |-> orders[o].status, to |-> to, key |-> k])]
      BY <1>3 DEF TransitionStatus, Readable, Unlocked, Logged
    <2>4. OneRow(o) /\ Moved(o)
      BY <2>2, <2>3 DEF OneRow, Moved, Appended, TypeOK
    <2> QED BY <2>4 DEF Goal
  <1>4. ASSUME NEW o \in Orders, HardDeleteOrder(o) PROVE Goal
    <2>1. OneRow(o) /\ Removed(o)
      BY <1>4 DEF HardDeleteOrder, OneRow, Removed, NoRow, TypeOK
    <2> QED BY <2>1 DEF Goal
  <1>5. ASSUME NEW s \in Sessions, NEW o \in Orders, NEW d \in Drivers,
               NEW k \in Keys \cup {NoKey}, NEW v \in Volumes, DeliverBegin(s, o, d, k, v)
        PROVE Goal
    BY <1>5 DEF DeliverBegin, Goal
  <1>6. ASSUME NEW s \in Sessions, DeliverCommit(s) PROVE Goal
    <2> DEFINE o == session[s].order
    <2>1. o \in Orders /\ session[s].key \in Keys \cup {NoKey}
      BY <1>6, OpenSession DEF DeliverCommit
    <2>2. /\ session[s].snap.status = "accepted" /\ orders[o].status = "accepted"
          /\ ~orders[o].archived
          /\ session[s].draft.status = "delivered"
      BY <1>6 DEF DeliverCommit, DeliveryHoldsLock
    <2>3. /\ orders' = [orders EXCEPT ![o] = session[s].draft]
          /\ statusLog' = [statusLog EXCEPT ![o] =
                Append(@, [from |-> "accepted", to |-> "delivered", key |-> session[s].key])]
          /\ rowLock' = [rowLock EXCEPT ![o] = NoSession]
      BY <1>6, <2>2 DEF DeliverCommit, Logged
    <2> HIDE DEF o
    <2>4. OneRow(o) /\ Moved(o)
      BY <2>1, <2>2, <2>3 DEF OneRow, Moved, Appended, RolesAllowed, Statuses, TypeOK
    <2> QED BY <2>1, <2>4 DEF Goal
  <1>7. ASSUME NEW s \in Sessions, NEW o \in Orders, UnlockedRequest(s, o) PROVE Goal
    BY <1>7, UnlockedRequestOpens DEF Goal
  <1>8. ASSUME NEW s \in Sessions, UpdateCommit(s) PROVE Goal
    <2> DEFINE o == session[s].order
    <2>1. o \in Orders
      BY <1>8, OpenSession DEF UpdateCommit
    <2>2. OneRow(o) /\ Edited(o)
      BY <1>8, <2>1 DEF UpdateCommit, WriteBack, OneRow, Edited, TypeOK
    <2> QED BY <2>1, <2>2 DEF Goal
  <1>9. ASSUME NEW s \in Sessions, RollBack(s) PROVE Goal
    BY <1>9 DEF RollBack, Goal
  <1>10. CASE UNCHANGED orderVars
    BY <1>10 DEF orderVars, Goal
  <1> QED BY <1>1, <1>2, <1>3, <1>4, <1>5, <1>6, <1>7, <1>8, <1>9, <1>10
          DEF OrderNext, LockedRequest

\* An order that was not created yet has a blank row and no log.
BlankBeforeCreation ==
    \A o \in Orders : orders[o].status = "absent" => ~orders[o].archived /\ statusLog[o] = << >>

\* The strengthening the safety properties are proved from.
Inductive == TypeOK /\ DeliveryHoldsLock /\ BlankBeforeCreation /\ StatusTrail
\* A walk stays a walk when a move from its end is appended.
LEMMA WalkAppend ==
    ASSUME NEW log \in Seq(LogEntry), NEW e \in LogEntry,
           WalkTo(log, e.from), RolesAllowed(e.from, e.to) # {}
    PROVE  WalkTo(Append(log, e), e.to)
  <1> DEFINE longer == Append(log, e)
  <1>1. Len(log) \in Nat \ {0}
    BY DEF WalkTo
  <1>2. /\ longer # << >>
        /\ Len(longer) = Len(log) + 1
        /\ \A i \in 1..Len(log) : longer[i] = log[i]
        /\ longer[Len(log) + 1] = e
    BY <1>1
  <1> HIDE DEF longer
  <1>3. ASSUME NEW i \in 2..Len(longer)
        PROVE  longer[i].from = longer[i-1].to /\ RolesAllowed(longer[i].from, longer[i].to) # {}
    <2>1. CASE i = Len(log) + 1
      <3>1. longer[i] = e /\ longer[i-1] = log[Len(log)]
        BY <1>1, <1>2, <2>1
      <3> QED BY <3>1 DEF WalkTo
    <2>2. CASE i \in 2..Len(log)
      <3>1. longer[i] = log[i] /\ longer[i-1] = log[i-1]
        BY <1>1, <1>2, <2>2
      <3> QED BY <2>2, <3>1 DEF WalkTo
    <2> QED BY <1>1, <1>2, <2>1, <2>2
  <1>4. longer[1].from = "none" /\ longer[Len(longer)].to = e.to
    BY <1>1, <1>2 DEF WalkTo
  <1>5. WalkTo(longer, e.to)
    BY <1>2, <1>3, <1>4 DEF WalkTo
  <1> QED BY <1>5 DEF longer

\* The strengthening is inductive.
LEMMA InductiveStep == Inductive /\ [OrderNext]_orderVars => Inductive'
  <1> SUFFICES ASSUME Inductive, [OrderNext]_orderVars PROVE Inductive'
    OBVIOUS
  <1>1. TypeOK' /\ DeliveryHoldsLock'
    BY TypeStep, LockStep DEF Inductive
  <1>2. CASE UNCHANGED <<orders, statusLog>>
    BY <1>1, <1>2 DEF Inductive, BlankBeforeCreation, StatusTrail, Exists
  <1>3. ASSUME NEW o \in Orders, OneRow(o), Created(o) \/ Moved(o) \/ Removed(o) \/ Edited(o)
        PROVE  Inductive'
    <2>1. BlankBeforeCreation'
      BY <1>3 DEF Inductive, BlankBeforeCreation, OneRow, Created, Moved, Removed, Edited,
                  Exists, Statuses
    <2>2. ASSUME NEW p \in Orders, Exists(p) PROVE WalkTo(statusLog[p], orders[p].status)
      BY <2>2 DEF Inductive, StatusTrail
    <2>3. ASSUME Created(o) PROVE WalkTo(statusLog'[o], orders'[o].status)
      <3> DEFINE e == [from |-> "none", to |-> orders'[o].status, key |-> NoKey]
      <3>1. statusLog[o] = << >> /\ statusLog'[o] = Append(statusLog[o], e)
        BY <2>3 DEF Created, Appended, Inductive, BlankBeforeCreation
      <3>2. e.from = "none" /\ e.to = orders'[o].status
        OBVIOUS
      <3> HIDE DEF e
      <3>3. /\ statusLog'[o] # << >> /\ Len(statusLog'[o]) = 1 /\ statusLog'[o][1] = e
            /\ 2..1 = {}
        BY <3>1
      <3> QED BY <3>2, <3>3 DEF WalkTo
    <2>4. ASSUME Moved(o) PROVE WalkTo(statusLog'[o], orders'[o].status)
      <3>1. Exists(o) /\ RolesAllowed(orders[o].status, orders'[o].status) # {}
        BY <2>4 DEF Moved, RolesAllowed, Exists, Statuses
      <3>2. PICK k \in Keys \cup {NoKey} : Appended(o, orders[o].status, k)
        BY <2>4 DEF Moved
      <3> DEFINE e == [from |-> orders[o].status, to |-> orders'[o].status, key |-> k]
      <3>3. e \in LogEntry /\ e.from = orders[o].status /\ e.to = orders'[o].status
        BY <2>4, <3>1 DEF Moved, LogEntry, Exists
      <3>4. statusLog[o] \in Seq(LogEntry) /\ statusLog'[o] = Append(statusLog[o], e)
        BY <3>2 DEF Appended, Inductive, TypeOK
      <3> HIDE DEF e
      <3> QED BY <2>2, <3>1, <3>3, <3>4, WalkAppend
    <2>5. ASSUME Edited(o) PROVE WalkTo(statusLog'[o], orders'[o].status)
      BY <2>2, <2>5 DEF Edited
    <2>6. ASSUME Exists(o)' PROVE WalkTo(statusLog'[o], orders'[o].status)
      BY <1>3, <2>3, <2>4, <2>5, <2>6 DEF Removed, Exists, Statuses
    <2>7. \A p \in Orders : Exists(p)' => WalkTo(statusLog'[p], orders'[p].status)
      BY <1>3, <2>2, <2>6 DEF OneRow, Exists
    <2>8. StatusTrail'
      BY <2>7 DEF StatusTrail
    <2> QED BY <1>1, <2>1, <2>8 DEF Inductive
  <1> QED BY <1>2, <1>3, RowStep DEF Inductive

\* The inductive invariant holds at the start.
LEMMA InductiveInit == OrderInit => Inductive
  <1> SUFFICES ASSUME OrderInit PROVE Inductive
    OBVIOUS
  <1>1. TypeOK /\ DeliveryHoldsLock
    BY InitHolds
  <1>2. \A o \in Orders : orders[o].status = "absent" /\ ~orders[o].archived
                          /\ statusLog[o] = << >>
    BY DEF OrderInit, NoRow
  <1>3. BlankBeforeCreation /\ StatusTrail
    BY <1>2 DEF BlankBeforeCreation, StatusTrail, Exists, Statuses
  <1> QED BY <1>1, <1>3 DEF Inductive

\* The status log of every order is a walk through the status machine that ends
\* at its status, for every number of orders, drivers, sessions and keys.
THEOREM TrailHolds == OrderSpec => []StatusTrail
  <1>1. Inductive => StatusTrail
    BY DEF Inductive
  <1> QED BY InductiveInit, InductiveStep, <1>1, PTL DEF OrderSpec

\* No step changes the row of an order while its delivery is in flight.
THEOREM LockedRowStays == OrderSpec => LockedRowStable
  <1> DEFINE Stable == \A o \in Orders : rowLock[o] # NoSession /\ rowLock'[o] = rowLock[o]
                                            => orders'[o] = orders[o]
  <1>1. TypeOK /\ DeliveryHoldsLock /\ [OrderNext]_orderVars => Stable
    BY RowStep DEF OneRow, Created, Moved, Removed, Edited, Unlocked
  <1>2. TypeOK /\ DeliveryHoldsLock /\ [OrderNext]_orderVars => [Stable]_orderVars
    BY <1>1
  <1> QED BY TypeCorrect, <1>2, PTL DEF OrderSpec, LockedRowStable

\* The status of an archived order moves no more, except that the order may be
\* deleted for good.
THEOREM ArchivedStays == OrderSpec => ArchivedKeepsStatus
  <1> DEFINE Kept == \A o \in Orders : orders[o].archived
                                         => orders'[o].status \in {orders[o].status, "deleted"}
  <1>1. Inductive /\ [OrderNext]_orderVars => Kept
    BY RowStep DEF Inductive, BlankBeforeCreation, OneRow, Created, Moved, Removed, Edited
  <1>2. Inductive /\ [OrderNext]_orderVars => [Kept]_orderVars
    BY <1>1
  <1> QED BY InductiveInit, InductiveStep, <1>2, PTL DEF OrderSpec, ArchivedKeepsStatus

\* The rows implement the abstract lifecycle: each step creates, moves or deletes
\* one order, or leaves every status alone.
THEOREM RefinesLifecycle == OrderSpec => ImplementsLifecycle
  <1> DEFINE abstract == [o \in Orders |-> orders[o].status]
  <1>1. OrderInit => Lifecycle!Init
    BY DEF OrderInit, NoRow, Lifecycle!Init
  <1>2. ASSUME TypeOK, DeliveryHoldsLock, [OrderNext]_orderVars
        PROVE  Lifecycle!Next \/ UNCHANGED abstract
    <2>1. CASE UNCHANGED <<orders, statusLog>>
      BY <2>1
    <2>2. ASSUME NEW o \in Orders, OneRow(o), Created(o) \/ Moved(o) \/ Removed(o) \/ Edited(o)
          PROVE  Lifecycle!Next \/ UNCHANGED abstract
      <3>1. abstract' = [abstract EXCEPT ![o] = orders'[o].status] /\ abstract[o] = orders[o].status
        BY <2>2 DEF OneRow
      <3>2. CASE Created(o)
        BY <3>1, <3>2 DEF Created, Lifecycle!Next, Lifecycle!Create
      <3>3. CASE Moved(o)
        <4>1. orders'[o].status \in Lifecycle!Successors(orders[o].status)
          BY <3>3 DEF Moved, RolesAllowed, Lifecycle!Successors
        <4> QED BY <3>1, <4>1 DEF Lifecycle!Next, Lifecycle!Move
      <3>4. CASE Removed(o)
        BY <3>1, <3>4 DEF Removed, Exists, Statuses, Lifecycle!Next, Lifecycle!Delete, Lifecycle!Live
      <3>5. CASE Edited(o)
        BY <2>2, <3>5 DEF Edited, OneRow
      <3> QED BY <2>2, <3>2, <3>3, <3>4, <3>5
    <2> QED BY <1>2, <2>1, <2>2, RowStep
  <1>3. TypeOK /\ DeliveryHoldsLock /\ [OrderNext]_orderVars => [Lifecycle!Next]_abstract
    BY <1>2
  <1> QED BY <1>1, <1>3, TypeCorrect, PTL DEF OrderSpec, ImplementsLifecycle, Lifecycle!Spec

-----------------------------------------------------------------------------
(* The keys of the outbox *)

Applied(o, k) == {i \in DOMAIN statusLog[o] : statusLog[o][i].key = k}

\* A key that nothing was committed under and that no delivery in flight has inserted.
Unclaimed(k, s) ==
    /\ \A o \in Orders : <<k, o>> \notin idemKeys
    /\ \A x \in Sessions \ {s} : session[x].op = "deliver" => session[x].key # k

\* Keys and log agree, and a key that a delivery in flight has inserted is its own.
KeysAgree ==
    /\ \A o \in Orders, k \in Keys :
           /\ <<k, o>> \in idemKeys => \E n : Applied(o, k) = {n}
           /\ <<k, o>> \notin idemKeys => Applied(o, k) = {}
    /\ \A k \in Keys, o, p \in Orders : <<k, o>> \in idemKeys /\ <<k, p>> \in idemKeys => o = p
    /\ \A s \in Sessions : session[s].op = "deliver" /\ session[s].key # NoKey =>
           Unclaimed(session[s].key, s)

\* One entry more in a log is one entry more of its key.
LEMMA AppliedGrows ==
    ASSUME TypeOK, NEW o \in Orders, NEW from \in Statuses \cup {"none"}, NEW to \in Statuses,
           NEW key \in Keys \cup {NoKey}, Logged(o, from, to, key)
    PROVE  /\ \A k \in Keys \ {key} : Applied(o, k)' = Applied(o, k)
           /\ Applied(o, key) = {} => \E n : Applied(o, key)' = {n}
           /\ \A p \in Orders \ {o}, k \in Keys : Applied(p, k)' = Applied(p, k)
  <1> DEFINE e   == [from |-> from, to |-> to, key |-> key]
             old == statusLog[o]
             new == Append(old, e)
  <1>1. old \in Seq(LogEntry) /\ e \in LogEntry /\ e.key = key
    BY DEF TypeOK, LogEntry
  <1>2. /\ Len(old) \in Nat /\ DOMAIN old = 1..Len(old) /\ DOMAIN new = 1..(Len(old) + 1)
        /\ \A i \in 1..Len(old) : new[i] = old[i]
        /\ new[Len(old) + 1] = e
    BY <1>1
  <1>3. /\ statusLog'[o] = new
        /\ \A p \in Orders \ {o} : statusLog'[p] = statusLog[p]
    BY DEF Logged, TypeOK
  <1> HIDE DEF e, old, new
  <1>4. \A k \in Keys \ {key} : {i \in DOMAIN new : new[i].key = k} = {i \in DOMAIN old : old[i].key = k}
    BY <1>1, <1>2
  <1>5. {i \in DOMAIN old : old[i].key = key} = {} => {i \in DOMAIN new : new[i].key = key} = {Len(old) + 1}
    BY <1>1, <1>2
  <1> QED BY <1>3, <1>4, <1>5 DEF Applied, old

\* A transition that is committed under a key of its own, or under none.
LEMMA KeyCommits ==
    ASSUME TypeOK, KeysAgree, NEW s, NEW o \in Orders, NEW from \in Statuses \cup {"none"},
           NEW to \in Statuses, NEW key \in Keys \cup {NoKey}, Logged(o, from, to, key),
           idemKeys' = idemKeys \cup KeyRow(key, o),
           key # NoKey => Unclaimed(key, s),
           \A x \in Sessions : \/ session'[x] = session[x] /\ x # s
                               \/ session'[x].op # "deliver"
    PROVE  KeysAgree'
  <1>1. /\ \A k \in Keys \ {key} : Applied(o, k)' = Applied(o, k)
        /\ Applied(o, key) = {} => \E n : Applied(o, key)' = {n}
        /\ \A p \in Orders \ {o}, k \in Keys : Applied(p, k)' = Applied(p, k)
    BY AppliedGrows
  <1>2. \A p \in Orders, k \in Keys : <<k, p>> \in idemKeys' <=> (<<k, p>> \in idemKeys \/ (k = key /\ p = o))
    <2>1. \A k \in Keys, p \in Orders : <<k, p>> \in KeyRow(key, o) <=> k = key /\ p = o
      BY NullsAssumption DEF KeyRow
    <2> QED BY <2>1
  <1>3. key # NoKey => key \in Keys /\ Applied(o, key) = {} /\ \A p \in Orders : <<key, p>> \notin idemKeys
    BY DEF KeysAgree, Unclaimed
  <1>4. ASSUME NEW p \in Orders, NEW k \in Keys
        PROVE  /\ <<k, p>> \in idemKeys' => \E n : Applied(p, k)' = {n}
               /\ <<k, p>> \notin idemKeys' => Applied(p, k)' = {}
    <2>1. CASE k = key /\ p = o
      BY <1>1, <1>2, <1>3, <2>1, NullsAssumption
    <2>2. CASE ~(k = key /\ p = o)
      <3>1. <<k, p>> \in idemKeys' <=> <<k, p>> \in idemKeys
        BY <1>2, <2>2
      <3>2. Applied(p, k)' = Applied(p, k)
        BY <1>1, <2>2
      <3>3. /\ <<k, p>> \in idemKeys => \E n : Applied(p, k) = {n}
            /\ <<k, p>> \notin idemKeys => Applied(p, k) = {}
        BY DEF KeysAgree
      <3> QED BY <3>1, <3>2, <3>3
    <2> QED BY <2>1, <2>2
  <1>5. \A k \in Keys, p, q \in Orders : <<k, p>> \in idemKeys' /\ <<k, q>> \in idemKeys' => p = q
    BY <1>2, <1>3, NullsAssumption DEF KeysAgree
  <1>6. ASSUME NEW x \in Sessions, session'[x].op = "deliver", session'[x].key # NoKey
        PROVE  Unclaimed(session[x].key, x)' /\ session'[x] = session[x]
    <2>1. session'[x] = session[x] /\ x # s /\ Unclaimed(session[x].key, x)
      BY <1>6 DEF KeysAgree
    <2>2. key # NoKey => session[x].key # key
      BY <1>6, <2>1 DEF Unclaimed
    <2>3. session[x].key \in Keys
      BY <1>6, <2>1, OpenSession
    <2>4. \A y \in Sessions \ {x} : session'[y].op = "deliver" => session'[y].key # session[x].key
      BY <2>1 DEF Unclaimed
    <2> QED BY <1>2, <2>1, <2>2, <2>3, <2>4, NullsAssumption DEF Unclaimed
  <1> QED BY <1>4, <1>5, <1>6 DEF KeysAgree

\* A step that touches neither log nor keys, and opens no delivery.
LEMMA KeysStay ==
    ASSUME TypeOK, KeysAgree, UNCHANGED <<statusLog, idemKeys>>,
           \A x \in Sessions : session'[x] = session[x] \/ session'[x].op # "deliver"
    PROVE  KeysAgree'
  <1>1. \A p \in Orders, k \in Keys : Applied(p, k)' = Applied(p, k)
    BY DEF Applied
  <1>2. ASSUME NEW x \in Sessions, session'[x].op = "deliver", session'[x].key # NoKey
        PROVE  Unclaimed(session[x].key, x)' /\ session'[x] = session[x]
    BY <1>2 DEF KeysAgree, Unclaimed
  <1> QED BY <1>1, <1>2 DEF KeysAgree

\* Every step keeps keys and log in agreement.
LEMMA KeyStep == TypeOK /\ DeliveryHoldsLock /\ KeysAgree /\ [OrderNext]_orderVars => KeysAgree'
  <1> SUFFICES ASSUME TypeOK, DeliveryHoldsLock, KeysAgree, [OrderNext]_orderVars PROVE KeysAgree'
    OBVIOUS
  <1>0. NoSession \notin Sessions
    BY NullsAssumption
  <1>1. ASSUME NEW o \in Orders, CreateOrder(o) PROVE KeysAgree'
    <2>1. PICK st \in {"new", "awaiting_manager"} : Logged(o, "none", st, NoKey)
      BY <1>1, Zenon DEF CreateOrder
    <2>2. st \in Statuses /\ UNCHANGED <<idemKeys, session>> /\ KeyRow(NoKey, o) = {}
      BY <1>1 DEF CreateOrder, Statuses, KeyRow
    <2> QED BY <1>0, <2>1, <2>2, KeyCommits
  <1>2. ASSUME NEW o \in Orders, NEW d \in Drivers, ClaimOrder(o, d) PROVE KeysAgree'
    <2>1. Logged(o, "new", "accepted", NoKey) /\ UNCHANGED <<idemKeys, session>> /\ KeyRow(NoKey, o) = {}
      BY <1>2 DEF ClaimOrder, KeyRow
    <2> QED BY <1>0, <2>1, KeyCommits DEF Statuses
  <1>3. ASSUME NEW o \in Orders, NEW a \in Actors, NEW to \in Statuses,
               NEW k \in Keys \cup {NoKey}, TransitionStatus(o, a, to, k)
        PROVE KeysAgree'
    <2>1. k # NoKey => Unclaimed(k, NoSession)
      BY <1>3 DEF TransitionStatus, KeyFree, Unclaimed
    <2>2. /\ Logged(o, orders[o].status, to, k) /\ orders[o].status \in Statuses
          /\ idemKeys' = idemKeys \cup KeyRow(k, o) /\ UNCHANGED session
      BY <1>3 DEF TransitionStatus, Readable, Exists
    <2> QED BY <1>0, <2>1, <2>2, KeyCommits
  <1>4. ASSUME NEW o \in Orders, HardDeleteOrder(o) PROVE KeysAgree'
    <2>1. /\ UNCHANGED session
          /\ statusLog'[o] = << >> /\ \A p \in Orders \ {o} : statusLog'[p] = statusLog[p]
          /\ \A p \in Orders, k \in Keys : <<k, p>> \in idemKeys' <=> <<k, p>> \in idemKeys /\ p # o
      BY <1>4 DEF HardDeleteOrder, TypeOK
    <2>2. /\ \A k \in Keys : Applied(o, k)' = {}
          /\ \A p \in Orders \ {o}, k \in Keys : Applied(p, k)' = Applied(p, k)
      BY <2>1 DEF Applied
    <2>3. ASSUME NEW x \in Sessions, session'[x].op = "deliver", session'[x].key # NoKey
          PROVE  Unclaimed(session[x].key, x)'
      <3>1. Unclaimed(session[x].key, x) /\ session[x].key \in Keys
        BY <2>1, <2>3, OpenSession DEF KeysAgree
      <3> QED BY <2>1, <3>1 DEF Unclaimed
    <2>4. ASSUME NEW p \in Orders, NEW k \in Keys
          PROVE  /\ <<k, p>> \in idemKeys' => \E n : Applied(p, k)' = {n}
                 /\ <<k, p>> \notin idemKeys' => Applied(p, k)' = {}
      <3>1. CASE p = o
        BY <2>1, <2>2, <3>1
      <3>2. CASE p # o
        <4>1. Applied(p, k)' = Applied(p, k) /\ (<<k, p>> \in idemKeys' <=> <<k, p>> \in idemKeys)
          BY <2>1, <2>2, <3>2
        <4>2. /\ <<k, p>> \in idemKeys => \E n : Applied(p, k) = {n}
              /\ <<k, p>> \notin idemKeys => Applied(p, k) = {}
          BY DEF KeysAgree
        <4> QED BY <4>1, <4>2
      <3> QED BY <3>1, <3>2
    <2>5. \A k \in Keys, p, q \in Orders : <<k, p>> \in idemKeys' /\ <<k, q>> \in idemKeys' => p = q
      BY <2>1 DEF KeysAgree
    <2> QED BY <2>3, <2>4, <2>5 DEF KeysAgree
  <1>5. ASSUME NEW s \in Sessions, NEW o \in Orders, NEW d \in Drivers,
               NEW k \in Keys \cup {NoKey}, NEW v \in Volumes, DeliverBegin(s, o, d, k, v)
        PROVE KeysAgree'
    <2>1. /\ session'[s].op = "deliver" /\ session'[s].key = k
          /\ \A x \in Sessions \ {s} : session'[x] = session[x]
          /\ UNCHANGED <<statusLog, idemKeys>> /\ KeyFree(k)
      BY <1>5 DEF DeliverBegin, TypeOK
    <2>2. \A p \in Orders, j \in Keys : Applied(p, j)' = Applied(p, j)
      BY <2>1 DEF Applied
    <2>3. ASSUME NEW x \in Sessions, session'[x].op = "deliver", session'[x].key # NoKey
          PROVE  Unclaimed(session[x].key, x)'
      <3>1. CASE x = s
        BY <2>1, <2>3, <3>1 DEF Unclaimed, KeyFree
      <3>2. CASE x # s
        BY <2>1, <2>3, <3>2 DEF Unclaimed, KeyFree, KeysAgree
      <3> QED BY <3>1, <3>2
    <2>4. ASSUME NEW p \in Orders, NEW j \in Keys
          PROVE  /\ <<j, p>> \in idemKeys' => \E n : Applied(p, j)' = {n}
                 /\ <<j, p>> \notin idemKeys' => Applied(p, j)' = {}
      <3>1. Applied(p, j)' = Applied(p, j) /\ idemKeys' = idemKeys
        BY <2>1, <2>2
      <3>2. /\ <<j, p>> \in idemKeys => \E n : Applied(p, j) = {n}
            /\ <<j, p>> \notin idemKeys => Applied(p, j) = {}
        BY DEF KeysAgree
      <3> QED BY <3>1, <3>2
    <2>5. \A j \in Keys, p, q \in Orders : <<j, p>> \in idemKeys' /\ <<j, q>> \in idemKeys' => p = q
      BY <2>1 DEF KeysAgree
    <2> QED BY <2>3, <2>4, <2>5 DEF KeysAgree
  <1>6. ASSUME NEW s \in Sessions, DeliverCommit(s) PROVE KeysAgree'
    <2> DEFINE o == session[s].order
               k == session[s].key
    <2>1. o \in Orders /\ k \in Keys \cup {NoKey} /\ session[s].snap.status = "accepted"
      BY <1>6, OpenSession DEF DeliverCommit, DeliveryHoldsLock
    <2>2. /\ Logged(o, "accepted", "delivered", k) /\ idemKeys' = idemKeys \cup KeyRow(k, o)
          /\ session'[s].op = "idle" /\ \A x \in Sessions \ {s} : session'[x] = session[x]
      BY <1>6, <2>1 DEF DeliverCommit, TypeOK, Idle
    <2>3. k # NoKey => Unclaimed(k, s)
      BY <1>6 DEF DeliverCommit, KeysAgree
    <2> HIDE DEF o, k
    <2> QED BY <2>1, <2>2, <2>3, KeyCommits DEF Statuses
  <1>7. ASSUME NEW s \in Sessions, NEW o \in Orders, UnlockedRequest(s, o) PROVE KeysAgree'
    <2>1. /\ UNCHANGED <<statusLog, idemKeys>> /\ session'[s].op # "deliver"
          /\ \A x \in Sessions \ {s} : session'[x] = session[x]
      BY <1>7, UnlockedRequestOpens DEF TypeOK
    <2> QED BY <2>1, KeysStay
  <1>8. ASSUME NEW s \in Sessions, UpdateCommit(s) \/ RollBack(s) PROVE KeysAgree'
    <2>1. /\ UNCHANGED <<statusLog, idemKeys>> /\ session'[s].op = "idle"
          /\ \A x \in Sessions \ {s} : session'[x] = session[x]
      BY <1>8 DEF UpdateCommit, RollBack, TypeOK, Idle
    <2> QED BY <2>1, KeysStay
  <1>9. CASE UNCHANGED orderVars
    BY <1>9, KeysStay DEF orderVars
  <1> QED BY <1>1, <1>2, <1>3, <1>4, <1>5, <1>6, <1>7, <1>8, <1>9
          DEF OrderNext, LockedRequest

\* The tables and the sessions keep their types.
THEOREM TablesTyped == OrderSpec => []TypeOK
  BY TypeCorrect, PTL

\* A key of the outbox is recorded exactly when one transition was committed under
\* it, for any number of keys and of deliveries in flight.
THEOREM KeysAreApplied == OrderSpec => []KeyMeansApplied
  <1>1. OrderInit => KeysAgree
    <2> SUFFICES ASSUME OrderInit PROVE KeysAgree
      OBVIOUS
    <2>1. /\ \A o \in Orders : statusLog[o] = << >>
          /\ idemKeys = {} /\ \A s \in Sessions : session[s].op = "idle"
      BY DEF OrderInit, Idle
    <2> QED BY <2>1 DEF KeysAgree, Applied
  <1>2. ASSUME KeysAgree PROVE KeyMeansApplied
    <2> SUFFICES ASSUME NEW o \in Orders, NEW k \in Keys
                 PROVE  IF <<k, o>> \in idemKeys
                        THEN /\ Cardinality(Applied(o, k)) = 1
                             /\ \A p \in Orders : <<k, p>> \in idemKeys => p = o
                        ELSE Applied(o, k) = {}
      BY DEF KeyMeansApplied, Applied
    <2>1. ASSUME NEW n, Applied(o, k) = {n} PROVE Cardinality(Applied(o, k)) = 1
      BY <2>1, FS_Singleton
    <2> QED BY <1>2, <2>1 DEF KeysAgree
  <1> QED BY <1>1, <1>2, TypeCorrect, KeyStep, PTL DEF OrderSpec

-----------------------------------------------------------------------------
(* The order and its trips: the proofs of the ledger, of this instance of it *)

FP == INSTANCE TripLedgerProofs
          WITH Planned <- Volumes, Actual <- Volumes, Deltas <- {}, StockBound <- 0

\* What the ledger assumes of its constants holds of this instance.
LEMMA LedgerConstants ==
    /\ Volumes \subseteq Nat \ {0} /\ Volumes # {}
    /\ Volumes \subseteq Nat \ {0}
    /\ {} \subseteq Int /\ 0 \in Nat
    /\ FP!IsFiniteSet(Trips)
  <1>1. FP!IsFiniteSet(Trips)
    BY TripsAssumption DEF IsFiniteSet, FP!IsFiniteSet
  <1>2. Volumes \subseteq Nat \ {0} /\ Volumes # {}
    BY VolumesAssumption
  <1> QED BY <1>1, <1>2

\* The ledger of the two services starts as the ledger alone does.
LEMMA LedgerStarts == Fuel!LedgerInit => FP!LedgerInv
  <1>1. Fuel!LedgerInit => FP!LedgerInit
    BY DEF Fuel!LedgerInit, FP!LedgerInit, Fuel!Idle, FP!Idle
  <1> QED BY <1>1, LedgerConstants, FP!InitHolds

\* The steps of the ledger that the two services take, of whatever kind.
FuelMove ==
    \/ Fuel!ByStaff
    \/ \E h \in Handlers :
         \/ \E o \in Orders, v \in Volumes : Fuel!AutoCall(h, o, v)
         \/ \E o \in Orders : Fuel!PurgeBegin(h, o)
         \/ Fuel!TripRequest(h) \/ Fuel!TripStep(h) \/ Fuel!CompleteCommit(h) \/ Fuel!Abort(h)
    \/ UNCHANGED fuelVars

\* They keep what was proved of the ledger alone.
LEMMA FuelStep == FP!LedgerInv /\ FuelMove => FP!LedgerInv'
  <1> SUFFICES ASSUME FP!LedgerInv, FuelMove PROVE FP!LedgerInv'
    OBVIOUS
  <1>1. CASE Fuel!ByStaff
    <2>1. FP!ByStaff
      BY <1>1 DEF Fuel!ByStaff, FP!ByStaff, Fuel!CreateTrip, FP!CreateTrip
    <2> QED BY <2>1, LedgerConstants, FP!LedgerStep DEF FP!LedgerNext
  <1>2. ASSUME NEW h \in Handlers, NEW o \in Orders, NEW v \in Volumes, Fuel!AutoCall(h, o, v)
        PROVE  FP!LedgerInv'
    <2>1. FP!AutoCall(h, o, v)
      BY <1>2 DEF Fuel!AutoCall, FP!AutoCall, Fuel!Opens, FP!Opens, Fuel!Idle, FP!Idle
    <2> QED BY <2>1, LedgerConstants, FP!RequestKeeps
  <1>3. ASSUME NEW h \in Handlers, NEW o \in Orders, Fuel!PurgeBegin(h, o)
        PROVE  FP!LedgerInv'
    <2>1. FP!PurgeBegin(h, o)
      BY <1>3 DEF Fuel!PurgeBegin, FP!PurgeBegin, Fuel!Opens, FP!Opens, Fuel!Idle, FP!Idle,
         Fuel!Of, FP!Of, Fuel!Litres, FP!Litres, Fuel!BookedLitres, FP!BookedLitres,
         Fuel!RowsTotal, FP!RowsTotal, Fuel!SumFunctionOnSet, FP!SumFunctionOnSet,
         Fuel!FoldFunctionOnSet, FP!FoldFunctionOnSet, Fuel!MapThenFoldSet, FP!MapThenFoldSet
    <2> QED BY <2>1, LedgerConstants, FP!RequestKeeps
  <1>4. ASSUME NEW h \in Handlers, Fuel!TripRequest(h)
        PROVE  FP!LedgerInv'
    <2>1. FP!TripRequest(h)
      BY <1>4 DEF Fuel!TripRequest, FP!TripRequest, Fuel!StartBegin, FP!StartBegin,
         Fuel!CompleteBegin, FP!CompleteBegin, Fuel!CancelBegin, FP!CancelBegin,
         Fuel!ReconcileBegin, FP!ReconcileBegin, Fuel!LedgerTotal, FP!LedgerTotal,
         Fuel!Opens, FP!Opens, Fuel!Idle, FP!Idle, Fuel!Real, FP!Real,
         Fuel!TripStatuses, FP!TripStatuses, Fuel!BookedLitres, FP!BookedLitres,
         Fuel!RowsTotal, FP!RowsTotal, Fuel!SumFunctionOnSet, FP!SumFunctionOnSet,
         Fuel!FoldFunctionOnSet, FP!FoldFunctionOnSet, Fuel!MapThenFoldSet, FP!MapThenFoldSet
    <2> QED BY <2>1, LedgerConstants, FP!RequestKeeps
  <1>5. ASSUME NEW h \in Handlers, Fuel!TripStep(h)
        PROVE  FP!LedgerInv'
    <2>1. FP!TripStep(h)
      BY <1>5 DEF Fuel!TripStep, FP!TripStep, Fuel!AutoBegin, FP!AutoBegin, Fuel!AutoFound, FP!AutoFound,
         Fuel!AutoCommit, FP!AutoCommit, Fuel!StartCommit, FP!StartCommit,
         Fuel!CompleteWrite, FP!CompleteWrite, Fuel!CancelCommit, FP!CancelCommit,
         Fuel!ReconcileCommit, FP!ReconcileCommit, Fuel!PurgeCommit, FP!PurgeCommit,
         Fuel!Active, FP!Active, Fuel!Ends, FP!Ends, Fuel!Idle, FP!Idle, Fuel!Real, FP!Real,
         Fuel!TripStatuses, FP!TripStatuses, Fuel!Book, FP!Book, Fuel!Booked, FP!Booked,
         Fuel!StockFree, FP!StockFree, Fuel!Difference, FP!Difference, Fuel!TripFree, FP!TripFree,
         Fuel!Of, FP!Of, Fuel!Cardinality, FP!Cardinality
    <2> QED BY <2>1, LedgerConstants, FP!LedgerStep DEF FP!LedgerNext
  <1>6. ASSUME NEW h \in Handlers, Fuel!CompleteCommit(h) \/ Fuel!Abort(h)
        PROVE  FP!LedgerInv'
    <2>1. FP!CompleteCommit(h) \/ FP!Abort(h)
      BY <1>6 DEF Fuel!CompleteCommit, FP!CompleteCommit, Fuel!Abort, FP!Abort, Fuel!Ends, FP!Ends,
         Fuel!Idle, FP!Idle, Fuel!Difference, FP!Difference, Fuel!Booked, FP!Booked
    <2> QED BY <2>1, LedgerConstants, FP!LedgerStep DEF FP!LedgerNext
  <1>7. CASE UNCHANGED fuelVars
    BY <1>7, LedgerConstants, FP!NothingWritten DEF fuelVars
  <1> QED BY <1>1, <1>2, <1>3, <1>4, <1>5, <1>6, <1>7 DEF FuelMove

\* Of the ledger, what the proofs below use.
LEMMA LedgerFacts ==
    ASSUME FP!LedgerInv
    PROVE  /\ trips \in [Trips -> Fuel!Trip]
           /\ ledger \in [Trips -> Seq([note: Fuel!Notes, litres: Int])]
           /\ handler = [h \in Handlers |-> handler[h]]
           /\ \A t \in Trips : trips[t].status = "none" => ledger[t] = << >>
           /\ \A h \in Handlers : handler[h].op \in {"called", "auto"} => handler[h].order \in Orders
           /\ \A h \in Handlers : handler[h].op \in {"complete", "cancel", "start"} => handler[h].trip \in Trips
           /\ \A h \in Handlers : handler[h].op = "completing" =>
                  /\ handler[h].trip \in Trips /\ handler[h].litres \in Volumes
                  /\ Fuel!Real(handler[h].trip)
                  /\ trips[handler[h].trip].tracked => ledger[handler[h].trip] # << >>
           /\ \A t \in Trips : ledger[t] # << >> =>
                  ledger[t][1] = [note |-> "trip_planned", litres |-> -trips[t].planned]
           /\ \A t \in Trips : \A i, j \in DOMAIN ledger[t] : ledger[t][i].note = ledger[t][j].note => i = j
  <1> USE DEF FP!LedgerInv, Fuel!Real, FP!Real, Fuel!TripStatuses, FP!TripStatuses
  <1>1. /\ trips \in [Trips -> Fuel!Trip]
        /\ ledger \in [Trips -> Seq([note: Fuel!Notes, litres: Int])]
        /\ handler = [h \in Handlers |-> handler[h]]
    BY DEF FP!RowsOK, FP!Trip, Fuel!Trip, FP!Entry, FP!Notes, Fuel!Notes
  <1>2. /\ \A h \in Handlers : handler[h].op \in {"called", "auto"} => handler[h].order \in Orders
        /\ \A h \in Handlers : handler[h].op \in {"complete", "cancel", "start"} => handler[h].trip \in Trips
    BY DEF FP!RowsOK, FP!SessionOK
  <1>3. \A h \in Handlers : handler[h].op = "completing" =>
                  /\ handler[h].trip \in Trips /\ handler[h].litres \in Volumes
                  /\ Fuel!Real(handler[h].trip)
                  /\ trips[handler[h].trip].tracked => ledger[handler[h].trip] # << >>
    BY DEF FP!RowsOK, FP!SessionOK, FP!TripHeld, FP!ReadDeparted, FP!ReadOnItsWay, FP!Departed
  <1>4. /\ \A t \in Trips : trips[t].status = "none" => ledger[t] = << >>
        /\ \A t \in Trips : ledger[t] # << >> =>
                  ledger[t][1] = [note |-> "trip_planned", litres |-> -trips[t].planned]
        /\ \A t \in Trips : \A i, j \in DOMAIN ledger[t] : ledger[t][i].note = ledger[t][j].note => i = j
    BY DEF FP!NoneYet, FP!DepartureFirst, FP!NotesDiffer
  <1> QED BY <1>1, <1>2, <1>3, <1>4

\* What a session of auto_create_and_start keeps.
LEMMA LedgerSession ==
    ASSUME FP!LedgerInv, NEW h \in Handlers, handler[h].op = "called"
    PROVE  handler[h] \in [op: {"called", "auto"}, order: Orders, litres: Volumes]
  BY DEF FP!LedgerInv, FP!RowsOK, FP!SessionOK

-----------------------------------------------------------------------------
(* Steps of the two services are steps of each *)

\* The order that a completion asks for is one, and its litres are too.
LEMMA AskedFor ==
    ASSUME FP!LedgerInv, LinksOK, NEW h \in Handlers,
           verdict[h] # "none" \/ handler[h].op \in {"completing", "cancel"}
    PROVE  /\ handler[h].trip \in Trips /\ TripOrder(h) \in Orders
           /\ handler[h].op = "completing" => handler[h].litres \in Volumes
           /\ verdict[h] # "none" => handler[h].op = "completing"
  <1>1. verdict[h] # "none" => handler[h].op = "completing"
    BY DEF LinksOK
  <1>2. handler[h].trip \in Trips /\ (handler[h].op = "completing" => handler[h].litres \in Volumes)
    BY <1>1, LedgerFacts
  <1>3. trips[handler[h].trip] \in Fuel!Trip
    BY <1>2, LedgerFacts
  <1>4. TripOrder(h) \in Orders
    BY <1>3 DEF Fuel!Trip, TripOrder
  <1> QED BY <1>1, <1>2, <1>4

\* A step of the two services is a step of order_service alone, or none of its rows.
LEMMA OrderSide ==
    ASSUME FP!LedgerInv, LinksOK, [FulfilmentNext]_allVars
    PROVE  [OrderNext]_orderVars
  <1> DEFINE Goal == [OrderNext]_orderVars
  <1>1. ASSUME NEW s \in Sessions, NEW o \in Orders, NEW d \in Drivers, NEW k \in Keys \cup {NoKey},
               NEW v \in Volumes, CallsAutoStart(s, o, d, k, v)
        PROVE  Goal
    BY <1>1 DEF OrderNext, CallsAutoStart
  <1>2. ASSUME NEW s \in Sessions, DeliverCommit(s) \/ RollBack(s) PROVE Goal
    BY <1>2 DEF OrderNext
  <1>3. ASSUME NEW o \in Orders, NEW a \in Actors, NEW to \in Statuses, NEW k \in Keys \cup {NoKey},
               TransitionStatus(o, a, to, k)
        PROVE  Goal
    BY <1>3 DEF OrderNext, LockedRequest
  <1>4. ASSUME UNCHANGED orderVars PROVE Goal
    BY <1>4
  <1>5. ASSUME NEW o \in Orders, OrderAlone(o) \/ DeleteOrder(o) PROVE Goal
    BY <1>5 DEF OrderAlone, DeleteOrder, OrderNext, LockedRequest
  <1> HIDE DEF Goal
  <1>6. ASSUME NEW h \in Handlers, ServeCompletion(h) PROVE Goal
    <2>1. TripOrder(h) \in Orders /\ handler[h].litres \in Volumes
      BY <1>6, AskedFor DEF ServeCompletion
    <2> QED BY <1>1, <1>3, <1>6, <2>1 DEF ServeCompletion, Actors, Statuses
  <1>7. ASSUME NEW h \in Handlers, CancelTrip(h) PROVE Goal
    <2>1. TripOrder(h) \in Orders
      BY <1>7, AskedFor DEF CancelTrip, Fuel!CancelCommit
    <2> QED BY <1>3, <1>4, <1>7, <2>1 DEF CancelTrip, Actors, Statuses
  <1>8. ASSUME NEW h \in Handlers,
               AutoStart(h) \/ CompleteTrip(h) \/ Completed(h) \/ NotCompleted(h)
        PROVE  UNCHANGED orderVars
    BY <1>8 DEF AutoStart, Answered, CompleteTrip, Completed, NotCompleted
  <1>9. CASE TripsAlone \/ \E h \in Handlers, o \in Orders : PurgeOrder(h, o)
    <2>1. UNCHANGED orderVars
      BY <1>9 DEF TripsAlone, PurgeOrder
    <2> QED BY <1>4, <2>1
  <1>10. CASE UNCHANGED allVars
    BY <1>4, <1>10 DEF allVars
  <1> QED BY <1>1, <1>2, <1>4, <1>5, <1>6, <1>7, <1>8, <1>9, <1>10
          DEF FulfilmentNext, Deliver, Delivered, NotDelivered, Goal

\* It is a step of the ledger as well, or none of its rows.
LEMMA FuelSide ==
    ASSUME FP!LedgerInv, LinksOK, [FulfilmentNext]_allVars
    PROVE  FuelMove
  <1>1. ASSUME NEW s \in Sessions, NEW o \in Orders, NEW d, NEW k,
               NEW v \in Volumes, CallsAutoStart(s, o, d, k, v)
        PROVE  FuelMove
    BY <1>1 DEF CallsAutoStart, FuelMove
  <1>2. ASSUME UNCHANGED fuelVars PROVE FuelMove
    BY <1>2 DEF FuelMove
  <1>3. ASSUME NEW h \in Handlers, ServeCompletion(h) PROVE FuelMove
    <2>1. TripOrder(h) \in Orders /\ handler[h].litres \in Volumes
      BY <1>3, AskedFor DEF ServeCompletion
    <2> QED BY <1>1, <1>2, <1>3, <2>1 DEF ServeCompletion
  <1>4. ASSUME NEW h \in Handlers,
               AutoStart(h) \/ CompleteTrip(h) \/ Completed(h) \/ NotCompleted(h) \/ CancelTrip(h)
        PROVE  FuelMove
    <2>1. Fuel!TripStep(h) \/ Fuel!CompleteCommit(h) \/ Fuel!Abort(h)
      BY <1>4 DEF AutoStart, CompleteTrip, Completed, NotCompleted, CancelTrip, Fuel!TripStep
    <2> QED BY <2>1 DEF FuelMove
  <1>5. CASE TripsAlone
    <2>1. Fuel!ByStaff \/ \E h \in Handlers : Fuel!TripRequest(h) \/ Fuel!TripStep(h)
      BY <1>5 DEF TripsAlone, Fuel!TripStep
    <2> QED BY <2>1 DEF FuelMove
  <1>6. ASSUME NEW h \in Handlers, NEW o \in Orders, PurgeOrder(h, o) PROVE FuelMove
    BY <1>6 DEF PurgeOrder, FuelMove
  <1>7. CASE UNCHANGED allVars
    BY <1>2, <1>7 DEF allVars
  <1>8. ASSUME NEW o \in Orders, OrderAlone(o) \/ DeleteOrder(o) PROVE UNCHANGED fuelVars
    BY <1>8 DEF OrderAlone, DeleteOrder
  <1>9. ASSUME NEW s \in Sessions, Delivered(s) \/ NotDelivered(s) PROVE UNCHANGED fuelVars
    BY <1>9 DEF Delivered, NotDelivered
  <1> QED BY <1>1, <1>2, <1>3, <1>4, <1>5, <1>6, <1>7, <1>8, <1>9 DEF FulfilmentNext, Deliver

-----------------------------------------------------------------------------
(* The inductive invariant of the two services *)

Settled(o) == orders[o].status \in {"delivered", "deleted"}

\* Trip t has its fact, or had it before it was started again or cancelled.
Fulfilled(t) == trips[t].status = "completed" \/ Fuel!Booked(t, "trip_adjustment")

\* Who waits for an auto-start waits for the delivery it belongs to, alone.
CallersWait ==
    \A h \in Handlers : caller[h] # NoSession =>
        /\ handler[h].op \in {"called", "auto"}
        /\ session[caller[h]].op = "deliver"
        /\ session[caller[h]].order = handler[h].order
        /\ caller[h] \notin confirmed
        /\ \A x \in Handlers \ {h} : caller[x] # caller[h]

\* A completion waits for the delivery of its own order and litres.
AskersWait ==
    \A s \in Sessions : asker[s] # NoHandler =>
        /\ session[s].order = TripOrder(asker[s])
        /\ session[s].draft.delivered = handler[asker[s]].litres

\* A delivery that may commit has its trip.
ConfirmedHasTrip ==
    \A s \in confirmed : \E t \in Trips : trips[t].order = session[s].order /\ Fuel!Real(t)

\* Only deleted orders are purged.
DeletedGone ==
    /\ \A o \in deleted : orders[o].status = "deleted"
    /\ \A h \in Handlers : handler[h].op = "purge" =>
           handler[h].order \in Orders /\ orders[handler[h].order].status = "deleted"

\* An accepted completion is the only one its order had and will have, and the
\* order records its litres.
AcceptedAlone(h) ==
    verdict[h] = "accepted" =>
        /\ Settled(TripOrder(h))
        /\ orders[TripOrder(h)].status = "delivered" /\ orders[TripOrder(h)].kind # "transport"
               => orders[TripOrder(h)].delivered = handler[h].litres
        /\ \A t \in Trips : trips[t].order = TripOrder(h) => ~Fulfilled(t)
        /\ \A x \in Handlers \ {h} : verdict[x] = "accepted" => TripOrder(x) # TripOrder(h)

AcceptedOnce == \A h \in Handlers : AcceptedAlone(h)

FulfilledSettled == \A t \in Trips : Fulfilled(t) => Settled(trips[t].order)

LinksInv == LinksOK /\ CallersWait /\ AskersWait /\ ConfirmedHasTrip /\ DeletedGone

FactsInv == AcceptedOnce /\ FulfilledSettled /\ FactIsBooked /\ DeliveredHasTrip

ServicesInv == TypeOK /\ DeliveryHoldsLock /\ FP!LedgerInv

-----------------------------------------------------------------------------
(* What most steps leave alone *)

\* Of an order that is delivered or deleted only the deletion is left, and none is
\* delivered from stock.
OrdersStay ==
    \A o \in Orders :
        /\ Settled(o) => \/ orders'[o].status = "deleted"
                         \/ /\ orders'[o].status = orders[o].status /\ orders'[o].kind = orders[o].kind
                            /\ orders'[o].delivered = orders[o].delivered
        /\ orders'[o].status = "delivered" /\ orders'[o].kind # "transport" =>
               orders[o].status = "delivered" /\ orders[o].kind # "transport"

\* Trips stay with their orders and none is completed; one goes only with its order.
TripsStay ==
    \A t \in Trips :
        /\ trips[t].status # "none" => trips'[t].order = trips[t].order
        /\ Fuel!Real(t) => Fuel!Real(t)' \/ orders[trips[t].order].status = "deleted"
        /\ trips'[t].status = "completed" => trips'[t] = trips[t] /\ ledger'[t] = ledger[t]
        /\ Fuel!Booked(t, "trip_adjustment")' => Fuel!Booked(t, "trip_adjustment")

\* A session of delivery_service that others wait for, or that purges, goes on as before.
HandlerStays(h) ==
    /\ handler[h].op = "completing" => handler'[h] = handler[h]
    /\ handler[h].op \in {"called", "auto"} =>
           handler'[h].op \in {"called", "auto"} /\ handler'[h].order = handler[h].order
    /\ handler'[h].op = "purge" => handler'[h] = handler[h]

\* A request of order_service that asks nobody, other than a delivery from stock.
LEMMA OrdersStayPut ==
    ASSUME TypeOK,
           \/ UNCHANGED orders
           \/ \E o \in Orders : \/ CreateOrder(o) \/ HardDeleteOrder(o)
                                \/ \E d \in Drivers : ClaimOrder(o, d)
                                \/ \E a \in Actors, to \in Statuses, k \in Keys \cup {NoKey} :
                                       TransitionStatus(o, a, to, k)
    PROVE  OrdersStay
  <1>1. CASE UNCHANGED orders
    BY <1>1 DEF OrdersStay
  <1>2. ASSUME NEW o \in Orders, CreateOrder(o) PROVE OrdersStay
    <2>1. PICK a \in Staff \cup {"client"}, kind \in NewKinds, d \in Drivers \cup {NoDriver},
               v \in Volumes, st \in {"new", "awaiting_manager"} :
               /\ a = "client" => kind = "regular" /\ d = NoDriver
               /\ kind = "ttn_l" => d # NoDriver
               /\ st = "awaiting_manager" => a = "client"
               /\ orders' = [orders EXCEPT ![o] =
                      [NoRow(st) EXCEPT !.kind = kind, !.driver = d, !.volume = v]]
               /\ Logged(o, "none", st, NoKey)
      BY <1>2, Zenon DEF CreateOrder
    <2>3. NoRow(st) \in OrderRow /\ NoRow(st).status = st
      BY NoRowType DEF Statuses
    <2>2. /\ orders'[o].status = st /\ \A p \in Orders \ {o} : orders'[p] = orders[p]
          /\ orders[o].status = "absent"
      BY <1>2, <2>1, <2>3 DEF CreateOrder, TypeOK, OrderRow
    <2> QED BY <2>2 DEF OrdersStay, Settled
  <1>3. ASSUME NEW o \in Orders, HardDeleteOrder(o) PROVE OrdersStay
    <2>1. orders'[o].status = "deleted" /\ \A p \in Orders \ {o} : orders'[p] = orders[p]
      BY <1>3, NoRowType DEF HardDeleteOrder, TypeOK
    <2> QED BY <2>1 DEF OrdersStay
  <1>4. ASSUME NEW o \in Orders, NEW d \in Drivers, ClaimOrder(o, d) PROVE OrdersStay
    <2>1. /\ orders'[o].status = "accepted" /\ orders[o].status = "new"
          /\ \A p \in Orders \ {o} : orders'[p] = orders[p]
      BY <1>4 DEF ClaimOrder, TypeOK, OrderRow
    <2> QED BY <2>1 DEF OrdersStay, Settled
  <1>5. ASSUME NEW o \in Orders, NEW a \in Actors, NEW to \in Statuses, NEW k \in Keys \cup {NoKey},
               TransitionStatus(o, a, to, k)
        PROVE  OrdersStay
    <2>1. /\ orders'[o].status = to /\ orders'[o].kind = orders[o].kind
          /\ \A p \in Orders \ {o} : orders'[p] = orders[p]
      BY <1>5 DEF TransitionStatus, TypeOK, OrderRow
    <2>2. orders[o].status \notin {"delivered", "deleted"}
      BY <1>5 DEF TransitionStatus, RolesAllowed, Readable, Exists, Statuses
    <2>3. to = "delivered" => orders[o].kind = "transport"
      BY <1>5 DEF TransitionStatus
    <2> QED BY <2>1, <2>2, <2>3 DEF OrdersStay, Settled
  <1> QED BY <1>1, <1>2, <1>3, <1>4, <1>5

\* Neither trips nor rows are written.
LEMMA TripsUnwritten == ASSUME UNCHANGED <<trips, ledger>> PROVE TripsStay
  BY DEF TripsStay, Fuel!Real, Fuel!Booked

\* A departure or a return is booked for a trip that is not completed by the step.
LEMMA TripsBooked ==
    ASSUME FP!LedgerInv, NEW t \in Trips, NEW note \in {"trip_planned", "trip_cancelled"}, NEW litres,
           Fuel!Book(t, note, litres) \/ UNCHANGED ledger,
           \A x \in Trips \ {t} : trips'[x] = trips[x],
           trips[t].status # "none" => trips'[t].order = trips[t].order,
           Fuel!Real(t)', trips'[t].status # "completed"
    PROVE  TripsStay
  <1>1. /\ \A x \in Trips \ {t} : ledger'[x] = ledger[x]
        /\ \/ ledger'[t] = ledger[t]
           \/ ledger'[t] = Append(ledger[t], [note |-> note, litres |-> litres])
    BY LedgerFacts DEF Fuel!Book
  <1>2. ASSUME Fuel!Booked(t, "trip_adjustment")' PROVE Fuel!Booked(t, "trip_adjustment")
    <2>1. CASE ledger'[t] = ledger[t]
      BY <1>2, <2>1 DEF Fuel!Booked
    <2>2. CASE ledger'[t] = Append(ledger[t], [note |-> note, litres |-> litres])
      <3> DEFINE rows == ledger[t]
                 e == [note |-> note, litres |-> litres]
                 more == Append(rows, e)
      <3>1. rows \in Seq([note: Fuel!Notes, litres: Int])
        BY LedgerFacts
      <3>2. /\ Len(rows) \in Nat /\ DOMAIN rows = 1..Len(rows) /\ DOMAIN more = 1..(Len(rows) + 1)
            /\ \A i \in 1..Len(rows) : more[i] = rows[i]
            /\ more[Len(rows) + 1] = e
        BY <3>1
      <3>3. PICK i \in DOMAIN more : more[i].note = "trip_adjustment"
        BY <1>2, <2>2 DEF Fuel!Booked
      <3>4. e.note # "trip_adjustment"
        OBVIOUS
      <3> HIDE DEF more, e
      <3>5. i \in 1..Len(rows)
        BY <3>2, <3>3, <3>4
      <3> QED BY <3>2, <3>3, <3>5 DEF Fuel!Booked
    <2> QED BY <1>1, <2>1, <2>2
  <1> QED BY <1>1, <1>2 DEF TripsStay, Fuel!Real, Fuel!Booked


\* What the handlers of delivery_service leave of the trips, but the end of a completion.
LEMMA TripsStayPut ==
    ASSUME FP!LedgerInv, DeletedGone,
           \/ Fuel!ByStaff
           \/ \E h \in Handlers :
                \/ \E o, v : Fuel!AutoCall(h, o, v)
                \/ \E o : Fuel!PurgeBegin(h, o)
                \/ Fuel!TripRequest(h) \/ Fuel!TripStep(h) \/ Fuel!Abort(h)
           \/ UNCHANGED fuelVars
    PROVE  TripsStay
  <1>1. CASE Fuel!ByStaff
    <2>1. CASE UNCHANGED <<trips, ledger>>
      BY <2>1, TripsUnwritten
    <2>2. ASSUME NEW t \in Trips, NEW o, NEW v, NEW tracked, Fuel!CreateTrip(t, o, v, tracked)
          PROVE  TripsStay
      <3>1. /\ UNCHANGED ledger /\ trips[t].status = "none" /\ trips'[t].status = "planned"
            /\ \A x \in Trips \ {t} : trips'[x] = trips[x]
        BY <2>2, LedgerFacts DEF Fuel!CreateTrip
      <3>2. Fuel!Real(t)' /\ trips'[t].status # "completed"
        BY <3>1 DEF Fuel!Real, Fuel!TripStatuses
      <3> QED BY <3>1, <3>2, TripsBooked
    <2> QED BY <1>1, <2>1, <2>2 DEF Fuel!ByStaff, Fuel!EntryByHand
  <1>2. ASSUME NEW h \in Handlers,
               \/ \E o, v : Fuel!AutoCall(h, o, v)
               \/ \E o : Fuel!PurgeBegin(h, o)
               \/ Fuel!TripRequest(h) \/ Fuel!Abort(h)
               \/ Fuel!AutoBegin(h) \/ Fuel!AutoFound(h) \/ Fuel!CompleteWrite(h)
               \/ Fuel!ReconcileCommit(h)
        PROVE  TripsStay
    <2>1. UNCHANGED <<trips, ledger>>
      BY <1>2 DEF Fuel!AutoCall, Fuel!PurgeBegin, Fuel!TripRequest, Fuel!StartBegin,
         Fuel!CompleteBegin, Fuel!CancelBegin, Fuel!ReconcileBegin, Fuel!Abort, Fuel!AutoBegin,
         Fuel!AutoFound, Fuel!CompleteWrite, Fuel!ReconcileCommit
    <2> QED BY <2>1, TripsUnwritten
  <1>3. ASSUME NEW h \in Handlers, NEW t \in Trips, Fuel!AutoCommit(h, t) PROVE TripsStay
    <2>1. /\ trips[t].status = "none" /\ trips'[t].status = "in_transit"
          /\ \A x \in Trips \ {t} : trips'[x] = trips[x]
          /\ Fuel!Book(t, "trip_planned", -handler[h].litres)
      BY <1>3, LedgerFacts DEF Fuel!AutoCommit
    <2>2. Fuel!Real(t)' /\ trips'[t].status # "completed"
      BY <2>1 DEF Fuel!Real, Fuel!TripStatuses
    <2> QED BY <2>1, <2>2, TripsBooked
  <1>4. ASSUME NEW h \in Handlers, Fuel!StartCommit(h) PROVE TripsStay
    <2>0. PICK t \in Trips : t = handler[h].trip
      BY <1>4, LedgerFacts DEF Fuel!StartCommit
    <2>1. /\ trips'[t].order = trips[t].order /\ trips'[t].status = "in_transit"
          /\ \A x \in Trips \ {t} : trips'[x] = trips[x]
          /\ Fuel!Book(t, "trip_planned", -trips[t].planned) \/ UNCHANGED ledger
      BY <1>4, <2>0, LedgerFacts DEF Fuel!StartCommit, Fuel!Trip
    <2>2. Fuel!Real(t)' /\ trips'[t].status # "completed"
      BY <2>1 DEF Fuel!Real, Fuel!TripStatuses
    <2> QED BY <2>0, <2>1, <2>2, TripsBooked
  <1>5. ASSUME NEW h \in Handlers, Fuel!CancelCommit(h) PROVE TripsStay
    <2>0. PICK t \in Trips : t = handler[h].trip
      BY <1>5, LedgerFacts DEF Fuel!CancelCommit
    <2>1. CASE handler[h].read = "cancelled"
      <3>1. UNCHANGED <<trips, ledger>>
        BY <1>5, <2>1 DEF Fuel!CancelCommit
      <3> QED BY <3>1, TripsUnwritten
    <2>2. CASE handler[h].read # "cancelled"
      <3>1. /\ trips'[t].order = trips[t].order /\ trips'[t].status = "cancelled"
            /\ \A x \in Trips \ {t} : trips'[x] = trips[x]
            /\ Fuel!Book(t, "trip_cancelled", trips[t].planned) \/ UNCHANGED ledger
        BY <1>5, <2>0, <2>2, LedgerFacts DEF Fuel!CancelCommit, Fuel!Trip
      <3>2. Fuel!Real(t)' /\ trips'[t].status # "completed"
        BY <3>1 DEF Fuel!Real, Fuel!TripStatuses
      <3> QED BY <2>0, <3>1, <3>2, TripsBooked
    <2> QED BY <2>1, <2>2
  <1>6. ASSUME NEW h \in Handlers, Fuel!PurgeCommit(h) PROVE TripsStay
    <2> DEFINE o == handler[h].order
    <2>1. orders[o].status = "deleted"
      BY <1>6 DEF DeletedGone, Fuel!PurgeCommit
    <2>2. ASSUME NEW t \in Trips
          PROVE  /\ trips'[t].order = trips[t].order
                 /\ \/ trips'[t] = trips[t]
                    \/ trips[t].order = o /\ trips'[t].status = "purged"
                 /\ \/ ledger'[t] = ledger[t]
                    \/ ledger'[t] = << >> /\ t \in Fuel!Of(o)
      <3>1. trips[t] \in Fuel!Trip
        BY LedgerFacts
      <3> QED BY <1>6, <3>1, LedgerFacts DEF Fuel!PurgeCommit, Fuel!Trip
    <2>3. ASSUME NEW t \in Trips
          PROVE  Fuel!Real(t) => Fuel!Real(t)' \/ orders[trips[t].order].status = "deleted"
      BY <2>1, <2>2 DEF Fuel!Real
    <2>4. ASSUME NEW t \in Trips
          PROVE  Fuel!Booked(t, "trip_adjustment")' => Fuel!Booked(t, "trip_adjustment")
      BY <2>2 DEF Fuel!Booked
    <2>5. ASSUME NEW t \in Trips, trips'[t].status = "completed"
          PROVE  trips'[t] = trips[t] /\ ledger'[t] = ledger[t]
      <3>1. trips'[t] = trips[t]
        BY <2>2, <2>5
      <3>2. ~(Fuel!Real(t) /\ trips[t].order = o)
        BY <1>6, <2>5, <3>1, LedgerFacts DEF Fuel!PurgeCommit, Fuel!Trip
      <3>3. Fuel!Real(t)
        BY <2>5, <3>1 DEF Fuel!Real, Fuel!TripStatuses
      <3>4. t \notin Fuel!Of(o)
        BY <3>2, <3>3 DEF Fuel!Of
      <3>5. ledger'[t] = ledger[t]
        BY <1>6, <3>4, LedgerFacts DEF Fuel!PurgeCommit
      <3> QED BY <3>1, <3>5
    <2> QED BY <2>2, <2>3, <2>4, <2>5 DEF TripsStay
  <1>7. CASE UNCHANGED fuelVars
    BY <1>7, TripsUnwritten DEF fuelVars
  <1> QED BY <1>1, <1>2, <1>3, <1>4, <1>5, <1>6, <1>7 DEF Fuel!TripStep

\* A handler that works on its own request leaves the others as they are.
LEMMA HandlersStayPut ==
    ASSUME FP!LedgerInv, NEW h \in Handlers,
           handler' = [handler EXCEPT ![h] = handler'[h]]
    PROVE  \A x \in Handlers \ {h} : HandlerStays(x)
  BY LedgerFacts DEF HandlerStays


-----------------------------------------------------------------------------
(* The facts of the trips, where nothing is completed and nothing delivered from stock *)

\* The order of a trip is one.
LEMMA OrderOf ==
    ASSUME FP!LedgerInv, NEW t \in Trips
    PROVE  trips[t].order \in Orders
  <1>1. trips[t] \in Fuel!Trip
    BY LedgerFacts
  <1> QED BY <1>1 DEF Fuel!Trip

\* A trip with a fact is not one that is still to come.
LEMMA FulfilledIsThere ==
    ASSUME FP!LedgerInv, NEW t \in Trips, Fulfilled(t)
    PROVE  trips[t].status # "none"
  <1>1. trips[t].status = "none" => ledger[t] = << >>
    BY LedgerFacts
  <1> QED BY <1>1 DEF Fulfilled, Fuel!Booked

\* What is fulfilled after such a step was it before, of the same order.
LEMMA FulfilledBefore ==
    ASSUME FP!LedgerInv, TripsStay, NEW t \in Trips, Fulfilled(t)'
    PROVE  Fulfilled(t) /\ trips'[t].order = trips[t].order
  <1>1. Fulfilled(t)
    BY DEF Fulfilled, TripsStay
  <1> QED BY <1>1, FulfilledIsThere DEF TripsStay

\* An order that is settled stays so.
LEMMA SettledAfter ==
    ASSUME OrdersStay, NEW o \in Orders, Settled(o)
    PROVE  Settled(o)'
  BY DEF OrdersStay, Settled

\* If orders and trips go on, a completed trip keeps its settled order.
LEMMA FulfilledStaysSettled ==
    ASSUME FP!LedgerInv, FulfilledSettled, OrdersStay, TripsStay
    PROVE  FulfilledSettled'
  <1> SUFFICES ASSUME NEW t \in Trips, Fulfilled(t)' PROVE Settled(trips[t].order)'
    BY DEF FulfilledSettled
  <1>1. Fulfilled(t) /\ trips'[t].order = trips[t].order
    BY FulfilledBefore
  <1>2. PICK o \in Orders : o = trips[t].order
    BY OrderOf
  <1>3. Settled(o)
    BY <1>1, <1>2 DEF FulfilledSettled
  <1>4. Settled(o)'
    BY <1>3, SettledAfter
  <1> QED BY <1>1, <1>2, <1>4 DEF Settled

\* If orders and trips go on, the litres of the completed trips stay booked as their orders have them.
LEMMA FactStays ==
    ASSUME FP!LedgerInv, FulfilledSettled, FactIsBooked, OrdersStay, TripsStay
    PROVE  FactIsBooked'
  <1> SUFFICES ASSUME NEW t \in Trips, trips'[t].status = "completed", ~Fuel!Booked(t, "trip_cancelled")'
               PROVE  /\ trips'[t].tracked => Fuel!RowsTotal(ledger'[t]) = -trips'[t].actual
                      /\ Exists(trips[t].order)' => orders'[trips'[t].order].kind = "transport"
                             \/ orders'[trips'[t].order].delivered = trips'[t].actual
    BY DEF FactIsBooked
  <1>1. trips'[t] = trips[t] /\ ledger'[t] = ledger[t]
    BY DEF TripsStay
  <1>2. trips[t].status = "completed" /\ ~Fuel!Booked(t, "trip_cancelled")
    BY <1>1 DEF Fuel!Booked
  <1>3. PICK o \in Orders : o = trips[t].order
    BY OrderOf
  <1>4. /\ trips[t].tracked => Fuel!RowsTotal(ledger[t]) = -trips[t].actual
        /\ Exists(o) => orders[o].kind = "transport" \/ orders[o].delivered = trips[t].actual
    BY <1>2, <1>3 DEF FactIsBooked
  <1>5. Settled(o)
    BY <1>2, <1>3 DEF FulfilledSettled, Fulfilled
  <1>6. Exists(o)' => Exists(o) /\ orders'[o].kind = orders[o].kind /\ orders'[o].delivered = orders[o].delivered
    BY <1>5 DEF OrdersStay, Settled, Exists, Statuses
  <1>7. Exists(o)' => orders'[o].kind = "transport" \/ orders'[o].delivered = trips[t].actual
    BY <1>4, <1>6
  <1>8. Exists(trips[t].order)' <=> Exists(o)'
    BY <1>1, <1>3 DEF Exists
  <1> QED BY <1>1, <1>3, <1>4, <1>7, <1>8

\* If orders and trips go on, a delivered order keeps its trip.
LEMMA DeliveredStays ==
    ASSUME DeliveredHasTrip, OrdersStay, TripsStay
    PROVE  DeliveredHasTrip'
  <1> SUFFICES ASSUME NEW o \in Orders, orders'[o].status = "delivered", orders'[o].kind # "transport"
               PROVE  \E t \in Trips : trips'[t].order = o /\ Fuel!Real(t)'
    BY DEF DeliveredHasTrip
  <1>1. orders[o].status = "delivered" /\ orders[o].kind # "transport"
    BY DEF OrdersStay
  <1>2. PICK t \in Trips : trips[t].order = o /\ Fuel!Real(t)
    BY <1>1 DEF DeliveredHasTrip
  <1>3. trips[t].status # "none"
    BY <1>2 DEF Fuel!Real, Fuel!TripStatuses
  <1> QED BY <1>1, <1>2, <1>3 DEF TripsStay

\* A completion that goes on keeps its trip, and the trip its order.
LEMMA TripOrderStays ==
    ASSUME FP!LedgerInv, LinksOK, TripsStay, NEW h \in Handlers,
           handler[h].op = "completing", handler'[h] = handler[h]
    PROVE  TripOrder(h) \in Orders /\ TripOrder(h)' = TripOrder(h)
  <1>1. handler[h].trip \in Trips /\ Fuel!Real(handler[h].trip) /\ TripOrder(h) \in Orders
    BY LedgerFacts, AskedFor
  <1>2. trips[handler[h].trip].status # "none"
    BY <1>1 DEF Fuel!Real, Fuel!TripStatuses
  <1> QED BY <1>1, <1>2 DEF TripsStay, TripOrder

\* An accepted completion whose session goes on is accepted as before.
LEMMA AcceptedStays ==
    ASSUME FP!LedgerInv, LinksOK, AcceptedOnce, OrdersStay, TripsStay,
           \A h \in Handlers : verdict'[h] = "accepted" =>
               verdict[h] = "accepted" /\ handler'[h] = handler[h]
    PROVE  AcceptedOnce'
  <1>1. ASSUME NEW h \in Handlers, verdict'[h] = "accepted"
        PROVE  /\ verdict[h] = "accepted" /\ handler'[h] = handler[h]
               /\ TripOrder(h) \in Orders /\ TripOrder(h)' = TripOrder(h)
    <2>1. verdict[h] = "accepted" /\ handler'[h] = handler[h] /\ handler[h].op = "completing"
      BY <1>1 DEF LinksOK
    <2> QED BY <2>1, TripOrderStays
  <1> SUFFICES ASSUME NEW h \in Handlers, verdict'[h] = "accepted" PROVE AcceptedAlone(h)'
    BY DEF AcceptedOnce, AcceptedAlone
  <1>2. PICK o \in Orders : o = TripOrder(h) /\ o = TripOrder(h)'
    BY <1>1
  <1>3. verdict[h] = "accepted" /\ handler'[h] = handler[h]
    BY <1>1
  <1>4. /\ Settled(o)
        /\ orders[o].status = "delivered" /\ orders[o].kind # "transport"
               => orders[o].delivered = handler[h].litres
        /\ \A t \in Trips : trips[t].order = o => ~Fulfilled(t)
        /\ \A x \in Handlers \ {h} : verdict[x] = "accepted" => TripOrder(x) # o
    BY <1>2, <1>3 DEF AcceptedOnce, AcceptedAlone
  <1>5. Settled(o)'
    BY <1>4, SettledAfter
  <1>6. orders'[o].status = "delivered" /\ orders'[o].kind # "transport"
            => orders'[o].delivered = handler'[h].litres
    BY <1>3, <1>4 DEF OrdersStay
  <1>7. \A t \in Trips : trips'[t].order = o => ~Fulfilled(t)'
    BY <1>4, FulfilledBefore
  <1>8. \A x \in Handlers \ {h} : verdict'[x] = "accepted" => TripOrder(x)' # o
    BY <1>1, <1>4
  <1> QED BY <1>2, <1>5, <1>6, <1>7, <1>8 DEF AcceptedAlone, Settled

\* The facts after a step that leaves orders and trips alone.
LEMMA FactsStay ==
    ASSUME FP!LedgerInv, LinksOK, FactsInv, OrdersStay, TripsStay,
           \A h \in Handlers : verdict'[h] = "accepted" =>
               verdict[h] = "accepted" /\ handler'[h] = handler[h]
    PROVE  FactsInv'
  BY AcceptedStays, DeliveredStays, FactStays, FulfilledStaysSettled DEF FactsInv

-----------------------------------------------------------------------------
(* The links, where none is made *)

\* A delivery in flight is of an order that is not deleted.
LEMMA DeliversAccepted ==
    ASSUME TypeOK, DeliveryHoldsLock, NEW s \in Sessions, session[s].op = "deliver"
    PROVE  /\ session[s].order \in Orders
           /\ rowLock[session[s].order] = s
           /\ orders[session[s].order].status = "accepted"
  BY OpenSession DEF DeliveryHoldsLock

\* No two deliveries are asked for by one completion: each has the lock of its order.
LEMMA AskersDiffer ==
    ASSUME TypeOK, DeliveryHoldsLock, LinksOK, AskersWait,
           NEW s \in Sessions, asker[s] # NoHandler, NEW x \in Sessions, asker[x] = asker[s]
    PROVE  x = s
  <1>1. session[s].op = "deliver" /\ session[x].op = "deliver"
    BY DEF LinksOK
  <1>2. session[s].order = session[x].order
    BY DEF AskersWait
  <1> QED BY <1>1, <1>2, DeliversAccepted

\* The trip of a delivery that may commit stays, for its order is not deleted.
LEMMA ConfirmedStays ==
    ASSUME TypeOK, DeliveryHoldsLock, LinksOK, ConfirmedHasTrip, TripsStay, NEW s \in confirmed
    PROVE  \E t \in Trips : trips'[t].order = session[s].order /\ Fuel!Real(t)'
  <1>1. s \in Sessions /\ session[s].op = "deliver"
    BY DEF LinksOK
  <1>2. PICK t \in Trips : trips[t].order = session[s].order /\ Fuel!Real(t)
    BY <1>1 DEF ConfirmedHasTrip
  <1>3. trips[t].status # "none" /\ orders[trips[t].order].status = "accepted"
    BY <1>1, <1>2, DeliversAccepted DEF Fuel!Real, Fuel!TripStatuses
  <1> QED BY <1>1, <1>2, <1>3 DEF TripsStay

\* Some links are cut, and those who wait go on waiting.
LEMMA LinksCut ==
    ASSUME TypeOK, DeliveryHoldsLock, FP!LedgerInv, LinksInv, OrdersStay, TripsStay,
           caller' \in [Handlers -> Sessions \cup {NoSession}],
           asker' \in [Sessions -> Handlers \cup {NoHandler}],
           verdict' \in [Handlers -> {"none", "asked", "served", "accepted", "refused"}],
           \A h \in Handlers : caller'[h] # NoSession =>
               /\ caller'[h] = caller[h] /\ session'[caller[h]] = session[caller[h]]
               /\ handler'[h].op \in {"called", "auto"} /\ handler'[h].order = handler[h].order,
           \A s \in confirmed' : s \in confirmed /\ session'[s] = session[s],
           \A s \in Sessions : asker'[s] # NoHandler =>
               /\ asker'[s] = asker[s] /\ session'[s] = session[s] /\ verdict'[asker[s]] = "served",
           \A h \in Handlers : verdict'[h] # "none" =>
               handler[h].op = "completing" /\ handler'[h] = handler[h],
           deleted' \subseteq Orders, \A o \in deleted' : orders'[o].status = "deleted",
           \A h \in Handlers : handler'[h].op = "purge" =>
               handler'[h].order \in Orders /\ orders'[handler'[h].order].status = "deleted"
    PROVE  LinksInv'
  <1> USE DEF LinksInv
  <1>1. LinksOK'
    BY DEF LinksOK
  <1>2. CallersWait'
    BY DEF CallersWait
  <1>3. AskersWait'
    <2> SUFFICES ASSUME NEW s \in Sessions, asker'[s] # NoHandler
                 PROVE  /\ session'[s].order = TripOrder(asker[s])'
                        /\ session'[s].draft.delivered = handler'[asker'[s]].litres
      BY DEF AskersWait
    <2>1. PICK h \in Handlers : h = asker[s] /\ h = asker'[s]
      BY DEF LinksOK
    <2>2. session'[s] = session[s] /\ handler[h].op = "completing" /\ handler'[h] = handler[h]
      BY <2>1
    <2>3. session[s].order = TripOrder(h) /\ session[s].draft.delivered = handler[h].litres
      BY <2>1 DEF AskersWait
    <2> QED BY <2>1, <2>2, <2>3, TripOrderStays DEF TripOrder
  <1>4. ConfirmedHasTrip'
    BY ConfirmedStays DEF ConfirmedHasTrip
  <1>5. DeletedGone'
    BY DEF DeletedGone
  <1> QED BY <1>1, <1>2, <1>3, <1>4, <1>5


-----------------------------------------------------------------------------
(* The steps that make no link *)

FulfilmentInv == ServicesInv /\ LinksInv /\ FactsInv

\* An order that is deleted stays so.
LEMMA DeletedForGood ==
    ASSUME OrdersStay, NEW o \in Orders, orders[o].status = "deleted"
    PROVE  orders'[o].status = "deleted"
  BY DEF OrdersStay, Settled

\* A step around the links: nobody who waits, or is waited for, is touched.
LEMMA StepAround ==
    ASSUME FulfilmentInv, OrdersStay, TripsStay, UNCHANGED <<session, linkVars>>,
           \A h \in Handlers :
               /\ handler[h].op = "completing" => handler'[h] = handler[h]
               /\ handler[h].op \in {"called", "auto"} =>
                      handler'[h].op \in {"called", "auto"} /\ handler'[h].order = handler[h].order
               /\ handler'[h].op = "purge" =>
                      handler'[h] = handler[h] \/ handler'[h].order \in deleted,
           deleted' \subseteq Orders,
           \A o \in deleted' : o \in deleted \/ orders'[o].status = "deleted"
    PROVE  LinksInv' /\ FactsInv'
  <1> USE DEF FulfilmentInv, ServicesInv, LinksInv
  <1>1. UNCHANGED <<caller, confirmed, asker, verdict>>
    BY DEF linkVars
  <1>2. \A h \in Handlers : verdict[h] # "none" =>
            handler[h].op = "completing" /\ handler'[h] = handler[h]
    BY DEF LinksOK
  <1>3. \A h \in Handlers : caller[h] # NoSession =>
            handler'[h].op \in {"called", "auto"} /\ handler'[h].order = handler[h].order
    BY DEF CallersWait
  <1>4. \A o \in deleted' : orders'[o].status = "deleted"
    BY DeletedForGood DEF DeletedGone
  <1>5. \A h \in Handlers : handler'[h].op = "purge" =>
            handler'[h].order \in Orders /\ orders'[handler'[h].order].status = "deleted"
    <2> SUFFICES ASSUME NEW h \in Handlers, handler'[h].op = "purge"
                 PROVE  handler'[h].order \in Orders /\ orders'[handler'[h].order].status = "deleted"
      OBVIOUS
    <2>1. handler'[h].order \in Orders /\ orders[handler'[h].order].status = "deleted"
      BY DEF DeletedGone, LinksOK
    <2> QED BY <2>1, DeletedForGood
  <1>6. /\ caller' \in [Handlers -> Sessions \cup {NoSession}]
        /\ asker' \in [Sessions -> Handlers \cup {NoHandler}]
        /\ verdict' \in [Handlers -> {"none", "asked", "served", "accepted", "refused"}]
        /\ \A s \in Sessions : asker[s] # NoHandler => verdict[asker[s]] = "served"
    BY <1>1 DEF LinksOK
  <1>7. LinksInv'
    BY <1>1, <1>2, <1>3, <1>4, <1>5, <1>6, LinksCut
  <1>8. FactsInv'
    BY <1>1, <1>2, FactsStay
  <1> QED BY <1>7, <1>8

\* A request of order_service that asks nobody leaves the links and the facts right.
LEMMA OrderAloneKeeps ==
    ASSUME FulfilmentInv, NEW o \in Orders, OrderAlone(o) \/ DeleteOrder(o)
    PROVE  LinksInv' /\ FactsInv'
  <1>1. OrdersStay
    <2>1. TypeOK
      BY DEF FulfilmentInv, ServicesInv
    <2> QED BY <2>1, OrdersStayPut DEF OrderAlone, DeleteOrder
  <1>2. UNCHANGED <<session, linkVars>> /\ UNCHANGED fuelVars
    BY DEF OrderAlone, DeleteOrder, CreateOrder, ClaimOrder, TransitionStatus, HardDeleteOrder
  <1>3. UNCHANGED <<trips, ledger, handler>>
    BY <1>2 DEF fuelVars
  <1>4. TripsStay
    BY <1>3, TripsUnwritten
  <1>5. deleted \subseteq Orders
    BY DEF FulfilmentInv, LinksInv, LinksOK
  <1>6. deleted' \subseteq Orders /\ \A p \in deleted' : p \in deleted \/ orders'[p].status = "deleted"
    <2>1. CASE OrderAlone(o)
      BY <1>5, <2>1 DEF OrderAlone
    <2>2. CASE DeleteOrder(o)
      <3>1. orders'[o].status = "deleted"
        BY <2>2, NoRowType DEF DeleteOrder, HardDeleteOrder, FulfilmentInv, ServicesInv, TypeOK
      <3> QED BY <1>5, <2>2, <3>1 DEF DeleteOrder
    <2> QED BY <2>1, <2>2
  <1> QED BY <1>1, <1>2, <1>3, <1>4, <1>6, StepAround

\* So does a request of delivery_service that asks nobody.
LEMMA TripsAloneKeep ==
    ASSUME FulfilmentInv, TripsAlone
    PROVE  LinksInv' /\ FactsInv'
  <1> USE DEF FulfilmentInv, ServicesInv, LinksInv
  <1>1. UNCHANGED <<session, linkVars>> /\ UNCHANGED <<orders, deleted>>
    BY DEF TripsAlone, orderVars
  <1>2. OrdersStay
    BY <1>1, OrdersStayPut
  <1>3. TripsStay
    BY TripsStayPut DEF TripsAlone, Fuel!TripStep
  <1>4. ASSUME NEW h \in Handlers
        PROVE  /\ handler[h].op = "completing" => handler'[h] = handler[h]
               /\ handler[h].op \in {"called", "auto"} =>
                      handler'[h].op \in {"called", "auto"} /\ handler'[h].order = handler[h].order
               /\ handler'[h].op = "purge" => handler'[h] = handler[h]
    <2>1. CASE Fuel!ByStaff
      BY <2>1 DEF Fuel!ByStaff, Fuel!CreateTrip, Fuel!EntryByHand
    <2>2. ASSUME NEW x \in Handlers, Fuel!TripRequest(x)
          PROVE  /\ handler[h].op = "completing" => handler'[h] = handler[h]
                 /\ handler[h].op \in {"called", "auto"} =>
                        handler'[h].op \in {"called", "auto"} /\ handler'[h].order = handler[h].order
                 /\ handler'[h].op = "purge" => handler'[h] = handler[h]
      BY <2>2, LedgerFacts DEF Fuel!TripRequest, Fuel!StartBegin, Fuel!CompleteBegin, Fuel!CancelBegin,
         Fuel!ReconcileBegin, Fuel!Opens, Fuel!Idle
    <2>3. ASSUME NEW x \in Handlers, Fuel!StartCommit(x) \/ Fuel!PurgeCommit(x)
          PROVE  /\ handler[h].op = "completing" => handler'[h] = handler[h]
                 /\ handler[h].op \in {"called", "auto"} =>
                        handler'[h].op \in {"called", "auto"} /\ handler'[h].order = handler[h].order
                 /\ handler'[h].op = "purge" => handler'[h] = handler[h]
      BY <2>3, LedgerFacts DEF Fuel!StartCommit, Fuel!PurgeCommit, Fuel!Ends, Fuel!Idle
    <2> QED BY <2>1, <2>2, <2>3 DEF TripsAlone
  <1>5. deleted \subseteq Orders
    BY DEF LinksOK
  <1> QED BY <1>1, <1>2, <1>3, <1>4, <1>5, StepAround

\* So does the purge on order_deleted: its order is gone.
LEMMA PurgeOrderKeeps ==
    ASSUME FulfilmentInv, NEW h \in Handlers, NEW o \in Orders, PurgeOrder(h, o)
    PROVE  LinksInv' /\ FactsInv'
  <1> USE DEF FulfilmentInv, ServicesInv, LinksInv
  <1>1. UNCHANGED <<session, linkVars>> /\ UNCHANGED orders /\ deleted' = deleted \ {o} /\ o \in deleted
    BY DEF PurgeOrder, orderVars
  <1>2. OrdersStay
    BY <1>1, OrdersStayPut
  <1>3. TripsStay
    BY TripsStayPut DEF PurgeOrder
  <1>4. ASSUME NEW x \in Handlers
        PROVE  /\ handler[x].op = "completing" => handler'[x] = handler[x]
               /\ handler[x].op \in {"called", "auto"} =>
                      handler'[x].op \in {"called", "auto"} /\ handler'[x].order = handler[x].order
               /\ handler'[x].op = "purge" => handler'[x] = handler[x] \/ handler'[x].order \in deleted
    BY <1>1, LedgerFacts DEF PurgeOrder, Fuel!PurgeBegin, Fuel!Opens, Fuel!Idle
  <1>5. deleted \subseteq Orders
    BY DEF LinksOK
  <1> QED BY <1>1, <1>2, <1>3, <1>4, <1>5, StepAround

\* So does a cancellation, which moves the order back only if that is still NEW.
LEMMA CancelTripKeeps ==
    ASSUME FulfilmentInv, NEW h \in Handlers, CancelTrip(h)
    PROVE  LinksInv' /\ FactsInv'
  <1> USE DEF FulfilmentInv, ServicesInv, LinksInv
  <1>1. Fuel!CancelCommit(h) /\ UNCHANGED <<session, linkVars, deleted>>
    BY DEF CancelTrip, TransitionStatus, orderVars
  <1>2. OrdersStay
    <2>1. TripOrder(h) \in Orders
      BY <1>1, AskedFor DEF Fuel!CancelCommit
    <2>2. \/ UNCHANGED orders
          \/ \E d \in Drivers : TransitionStatus(TripOrder(h), d, "accepted", NoKey)
      BY DEF CancelTrip, orderVars
    <2> QED BY <2>1, <2>2, OrdersStayPut DEF Actors, Statuses
  <1>3. TripsStay
    BY <1>1, TripsStayPut DEF Fuel!TripStep
  <1>4. ASSUME NEW x \in Handlers
        PROVE  /\ handler[x].op = "completing" => handler'[x] = handler[x]
               /\ handler[x].op \in {"called", "auto"} =>
                      handler'[x].op \in {"called", "auto"} /\ handler'[x].order = handler[x].order
               /\ handler'[x].op = "purge" => handler'[x] = handler[x]
    BY <1>1, LedgerFacts DEF Fuel!CancelCommit, Fuel!Ends, Fuel!Idle
  <1>5. deleted \subseteq Orders
    BY DEF LinksOK
  <1> QED BY <1>1, <1>2, <1>3, <1>4, <1>5, StepAround


\* A request of delivery_service ends: whoever it waited for goes on.
LEMMA NotCompletedKeeps ==
    ASSUME FulfilmentInv, NEW h \in Handlers, NotCompleted(h)
    PROVE  LinksInv' /\ FactsInv'
  <1> USE NoHandlerAssumption, NullsAssumption DEF FulfilmentInv, ServicesInv, LinksInv
  <1>1. /\ Fuel!Abort(h) /\ UNCHANGED <<orders, session, confirmed, deleted>>
        /\ caller' = [caller EXCEPT ![h] = NoSession]
        /\ asker' = [s \in Sessions |-> IF asker[s] = h THEN NoHandler ELSE asker[s]]
        /\ verdict' = [verdict EXCEPT ![h] = "none"]
    BY DEF NotCompleted, orderVars
  <1>2. OrdersStay
    BY <1>1, OrdersStayPut
  <1>3. TripsStay
    BY <1>1, TripsStayPut
  <1>4. /\ handler'[h].op = "idle"
        /\ \A x \in Handlers \ {h} : handler'[x] = handler[x]
    BY <1>1, LedgerFacts DEF Fuel!Abort, Fuel!Ends, Fuel!Idle
  <1>5. /\ caller \in [Handlers -> Sessions \cup {NoSession}]
        /\ asker \in [Sessions -> Handlers \cup {NoHandler}]
        /\ verdict \in [Handlers -> {"none", "asked", "served", "accepted", "refused"}]
        /\ confirmed \subseteq Sessions /\ deleted \subseteq Orders
        /\ \A s \in Sessions : asker[s] # NoHandler => verdict[asker[s]] = "served"
        /\ \A x \in Handlers : verdict[x] # "none" => handler[x].op = "completing"
    BY DEF LinksOK
  <1>6. /\ caller' \in [Handlers -> Sessions \cup {NoSession}]
        /\ asker' \in [Sessions -> Handlers \cup {NoHandler}]
        /\ verdict' \in [Handlers -> {"none", "asked", "served", "accepted", "refused"}]
    BY <1>1, <1>5
  <1>7. \A x \in Handlers : verdict'[x] # "none" =>
            /\ x # h /\ verdict'[x] = verdict[x]
            /\ handler[x].op = "completing" /\ handler'[x] = handler[x]
    BY <1>1, <1>4, <1>5
  <1>8. \A x \in Handlers : caller'[x] # NoSession =>
            /\ caller'[x] = caller[x] /\ session'[caller[x]] = session[caller[x]]
            /\ handler'[x].op \in {"called", "auto"} /\ handler'[x].order = handler[x].order
    BY <1>1, <1>4, <1>5 DEF CallersWait
  <1>9. \A s \in Sessions : asker'[s] # NoHandler =>
            /\ asker'[s] = asker[s] /\ session'[s] = session[s] /\ verdict'[asker[s]] = "served"
    BY <1>1, <1>5
  <1>10. \A o \in deleted' : orders'[o].status = "deleted"
    BY <1>1 DEF DeletedGone
  <1>11. \A x \in Handlers : handler'[x].op = "purge" =>
            handler'[x].order \in Orders /\ orders'[handler'[x].order].status = "deleted"
    BY <1>1, <1>4 DEF DeletedGone
  <1>12. LinksInv'
    BY <1>1, <1>2, <1>3, <1>5, <1>6, <1>7, <1>8, <1>9, <1>10, <1>11, LinksCut
  <1>13. FactsInv'
    BY <1>2, <1>3, <1>7, FactsStay
  <1> QED BY <1>12, <1>13

\* A delivery is given up: what it asked for goes on, and who asked for it is refused.
LEMMA NotDeliveredKeeps ==
    ASSUME FulfilmentInv, NEW s \in Sessions, NotDelivered(s)
    PROVE  LinksInv' /\ FactsInv'
  <1> USE NoHandlerAssumption, NullsAssumption DEF FulfilmentInv, ServicesInv, LinksInv
  <1>1. /\ UNCHANGED <<orders, deleted>> /\ UNCHANGED <<trips, ledger, handler>>
        /\ confirmed' = confirmed \ {s}
        /\ caller' = [h \in Handlers |-> IF caller[h] = s THEN NoSession ELSE caller[h]]
        /\ asker' = [asker EXCEPT ![s] = NoHandler]
        /\ verdict' = [h \in Handlers |-> IF asker[s] = h THEN "refused" ELSE verdict[h]]
        /\ \A x \in Sessions \ {s} : session'[x] = session[x]
    BY DEF NotDelivered, RollBack, fuelVars, TypeOK
  <1>2. OrdersStay
    BY <1>1, OrdersStayPut
  <1>3. TripsStay
    BY <1>1, TripsUnwritten
  <1>5. /\ caller \in [Handlers -> Sessions \cup {NoSession}]
        /\ asker \in [Sessions -> Handlers \cup {NoHandler}]
        /\ verdict \in [Handlers -> {"none", "asked", "served", "accepted", "refused"}]
        /\ confirmed \subseteq Sessions /\ deleted \subseteq Orders
        /\ \A x \in Sessions : asker[x] # NoHandler => verdict[asker[x]] = "served"
        /\ \A x \in Handlers : verdict[x] # "none" => handler[x].op = "completing"
    BY DEF LinksOK
  <1>6. /\ caller' \in [Handlers -> Sessions \cup {NoSession}]
        /\ asker' \in [Sessions -> Handlers \cup {NoHandler}]
        /\ verdict' \in [Handlers -> {"none", "asked", "served", "accepted", "refused"}]
    BY <1>1, <1>5
  <1>7. \A x \in Handlers : verdict'[x] # "none" => handler[x].op = "completing" /\ handler'[x] = handler[x]
    BY <1>1, <1>5
  <1>8. \A x \in Handlers : caller'[x] # NoSession =>
            /\ caller'[x] = caller[x] /\ session'[caller[x]] = session[caller[x]]
            /\ handler'[x].op \in {"called", "auto"} /\ handler'[x].order = handler[x].order
    BY <1>1, <1>5 DEF CallersWait
  <1>9. ASSUME NEW x \in Sessions, asker'[x] # NoHandler
        PROVE  /\ asker'[x] = asker[x] /\ session'[x] = session[x] /\ verdict'[asker[x]] = "served"
    <2>1. x # s /\ asker'[x] = asker[x] /\ session'[x] = session[x] /\ asker[x] \in Handlers
      BY <1>1, <1>5, <1>9
    <2>2. asker[s] # asker[x]
      BY <1>5, <2>1, AskersDiffer, <1>9
    <2> QED BY <1>1, <1>5, <1>9, <2>1, <2>2
  <1>10. \A o \in deleted' : orders'[o].status = "deleted"
    BY <1>1 DEF DeletedGone
  <1>11. \A x \in Handlers : handler'[x].op = "purge" =>
            handler'[x].order \in Orders /\ orders'[handler'[x].order].status = "deleted"
    BY <1>1 DEF DeletedGone
  <1>15. (\A x \in confirmed' : x \in confirmed /\ session'[x] = session[x]) /\ deleted' \subseteq Orders
    BY <1>1, <1>5
  <1>16. \A x \in Sessions : asker'[x] # NoHandler =>
            /\ asker'[x] = asker[x] /\ session'[x] = session[x] /\ verdict'[asker[x]] = "served"
    BY <1>9
  <1>12. LinksInv'
    BY <1>2, <1>3, <1>6, <1>7, <1>8, <1>10, <1>11, <1>15, <1>16, LinksCut
  <1>13. \A x \in Handlers : verdict'[x] = "accepted" => verdict[x] = "accepted" /\ handler'[x] = handler[x]
    BY <1>1, <1>5
  <1>14. FactsInv'
    BY <1>2, <1>3, <1>13, FactsStay
  <1> QED BY <1>12, <1>14


-----------------------------------------------------------------------------
(* The steps that make a link *)

\* The trip is written and order_service is asked: nobody waited for the handler before.
LEMMA CompleteTripKeeps ==
    ASSUME FulfilmentInv, NEW h \in Handlers, CompleteTrip(h)
    PROVE  LinksInv' /\ FactsInv'
  <1> USE NoHandlerAssumption, NullsAssumption DEF FulfilmentInv, ServicesInv, LinksInv
  <1>1. /\ UNCHANGED <<orders, session, caller, confirmed, asker, deleted>>
        /\ UNCHANGED <<trips, ledger>>
        /\ verdict' = [verdict EXCEPT ![h] = "asked"]
    BY DEF CompleteTrip, Fuel!CompleteWrite, orderVars
  <1>2. /\ handler[h].op = "complete" /\ handler'[h].op = "completing"
        /\ \A x \in Handlers \ {h} : handler'[x] = handler[x]
    BY LedgerFacts DEF CompleteTrip, Fuel!CompleteWrite
  <1>3. OrdersStay /\ TripsStay
    BY <1>1, OrdersStayPut, TripsUnwritten
  <1>4. /\ caller \in [Handlers -> Sessions \cup {NoSession}]
        /\ asker \in [Sessions -> Handlers \cup {NoHandler}]
        /\ verdict \in [Handlers -> {"none", "asked", "served", "accepted", "refused"}]
        /\ confirmed \subseteq Sessions /\ deleted \subseteq Orders
        /\ \A s \in Sessions : /\ s \in confirmed \/ asker[s] # NoHandler => session[s].op = "deliver"
                               /\ asker[s] # NoHandler => verdict[asker[s]] = "served"
        /\ \A x \in Handlers : verdict[x] # "none" => handler[x].op = "completing"
    BY DEF LinksOK
  <1>5. \A s \in Sessions : asker[s] # NoHandler =>
            asker[s] \in Handlers \ {h} /\ handler[asker[s]].op = "completing"
    BY <1>2, <1>4
  <1>6. LinksOK'
    BY <1>1, <1>2, <1>4, <1>5 DEF LinksOK
  <1>7. CallersWait'
    BY <1>1, <1>2 DEF CallersWait
  <1>8. AskersWait'
    <2> SUFFICES ASSUME NEW s \in Sessions, asker'[s] # NoHandler
                 PROVE  /\ session'[s].order = TripOrder(asker[s])'
                        /\ session'[s].draft.delivered = handler'[asker'[s]].litres
      BY DEF AskersWait
    <2>1. PICK x \in Handlers : x = asker[s] /\ x = asker'[s]
      BY <1>1, <1>5
    <2>2. handler[x].op = "completing" /\ handler'[x] = handler[x] /\ session'[s] = session[s]
      BY <1>1, <1>2, <1>5, <2>1
    <2>3. session[s].order = TripOrder(x) /\ session[s].draft.delivered = handler[x].litres
      BY <1>1, <2>1 DEF AskersWait
    <2> QED BY <1>3, <2>1, <2>2, <2>3, TripOrderStays DEF TripOrder
  <1>9. ConfirmedHasTrip' /\ DeletedGone'
    BY <1>1, <1>2 DEF ConfirmedHasTrip, DeletedGone, Fuel!Real
  <1>10. \A x \in Handlers : verdict'[x] = "accepted" => verdict[x] = "accepted" /\ handler'[x] = handler[x]
    BY <1>1, <1>2, <1>4
  <1> QED BY <1>3, <1>6, <1>7, <1>8, <1>9, <1>10, FactsStay

\* auto-start ends: the order has a trip, and the delivery that called is confirmed,
\* if it still waits.
LEMMA AnsweredKeeps ==
    ASSUME FulfilmentInv, NEW h \in Handlers,
           Fuel!AutoFound(h) \/ \E t \in Trips : Fuel!AutoCommit(h, t), Answered(h)
    PROVE  LinksInv' /\ FactsInv'
  <1> USE NoHandlerAssumption, NullsAssumption DEF FulfilmentInv, ServicesInv, LinksInv
  <1>1. /\ UNCHANGED <<orders, session, asker, verdict, deleted>>
        /\ confirmed' = IF caller[h] = NoSession THEN confirmed ELSE confirmed \cup {caller[h]}
        /\ caller' = [caller EXCEPT ![h] = NoSession]
    BY DEF Answered, orderVars
  <1>2. /\ handler[h].op \in {"called", "auto"} /\ handler'[h].op = "idle"
        /\ \A x \in Handlers \ {h} : handler'[x] = handler[x]
    BY LedgerFacts DEF Fuel!AutoFound, Fuel!AutoCommit, Fuel!Ends, Fuel!Idle
  <1>3. OrdersStay /\ TripsStay
    <2>1. TripsStay
      BY TripsStayPut DEF Fuel!TripStep
    <2> QED BY <1>1, <2>1, OrdersStayPut
  <1>4. /\ caller \in [Handlers -> Sessions \cup {NoSession}]
        /\ asker \in [Sessions -> Handlers \cup {NoHandler}]
        /\ verdict \in [Handlers -> {"none", "asked", "served", "accepted", "refused"}]
        /\ confirmed \subseteq Sessions /\ deleted \subseteq Orders
        /\ \A s \in Sessions : /\ s \in confirmed \/ asker[s] # NoHandler => session[s].op = "deliver"
                               /\ asker[s] # NoHandler => verdict[asker[s]] = "served"
        /\ \A x \in Handlers : verdict[x] # "none" => handler[x].op = "completing"
    BY DEF LinksOK
  <1>5. \A s \in Sessions : asker[s] # NoHandler =>
            asker[s] \in Handlers \ {h} /\ handler[asker[s]].op = "completing"
    BY <1>2, <1>4
  <1>6. caller[h] # NoSession => caller[h] \in Sessions /\ session[caller[h]].op = "deliver"
                                 /\ session[caller[h]].order = handler[h].order
    BY <1>4 DEF CallersWait
  <1>7. LinksOK'
    BY <1>1, <1>2, <1>4, <1>5, <1>6 DEF LinksOK
  <1>8. CallersWait'
    BY <1>1, <1>2, <1>4 DEF CallersWait
  <1>9. AskersWait'
    <2> SUFFICES ASSUME NEW s \in Sessions, asker'[s] # NoHandler
                 PROVE  /\ session'[s].order = TripOrder(asker[s])'
                        /\ session'[s].draft.delivered = handler'[asker'[s]].litres
      BY DEF AskersWait
    <2>1. PICK x \in Handlers : x = asker[s] /\ x = asker'[s]
      BY <1>1, <1>5
    <2>2. handler[x].op = "completing" /\ handler'[x] = handler[x] /\ session'[s] = session[s]
      BY <1>1, <1>2, <1>5, <2>1
    <2>3. session[s].order = TripOrder(x) /\ session[s].draft.delivered = handler[x].litres
      BY <1>1, <2>1 DEF AskersWait
    <2> QED BY <1>3, <2>1, <2>2, <2>3, TripOrderStays DEF TripOrder
  <1>10. \E t \in Trips : trips'[t].order = handler[h].order /\ Fuel!Real(t)'
    <2>1. CASE Fuel!AutoFound(h)
      <3>1. Fuel!Active(handler[h].order) # {}
        <4>1. Fuel!Cardinality({}) = 0
          BY FS_EmptySet DEF Fuel!Cardinality, Cardinality
        <4> QED BY <2>1, <4>1 DEF Fuel!AutoFound
      <3>2. PICK t \in Trips : trips[t].order = handler[h].order /\ trips[t].status \in {"planned", "in_transit"}
        BY <3>1 DEF Fuel!Active
      <3>3. UNCHANGED trips
        BY <2>1 DEF Fuel!AutoFound
      <3> QED BY <3>2, <3>3 DEF Fuel!Real, Fuel!TripStatuses
    <2>2. ASSUME NEW t \in Trips, Fuel!AutoCommit(h, t)
          PROVE  trips'[t].order = handler[h].order /\ Fuel!Real(t)'
      BY <2>2, LedgerFacts DEF Fuel!AutoCommit, Fuel!Real, Fuel!TripStatuses
    <2> QED BY <2>1, <2>2
  <1>11. ConfirmedHasTrip'
    <2> SUFFICES ASSUME NEW s \in confirmed'
                 PROVE  \E t \in Trips : trips'[t].order = session[s].order /\ Fuel!Real(t)'
      BY <1>1 DEF ConfirmedHasTrip
    <2>1. s \in confirmed \/ (caller[h] # NoSession /\ s = caller[h])
      BY <1>1
    <2> QED BY <1>3, <1>6, <1>10, <2>1, ConfirmedStays
  <1>12. DeletedGone'
    BY <1>1, <1>2 DEF DeletedGone
  <1>13. \A x \in Handlers : verdict'[x] = "accepted" => verdict[x] = "accepted" /\ handler'[x] = handler[x]
    BY <1>1, <1>2, <1>4
  <1> QED BY <1>3, <1>7, <1>8, <1>9, <1>11, <1>12, <1>13, FactsStay

\* auto-start finds no trip and makes one: its session goes on.
LEMMA AutoBeginKeepsLinks ==
    ASSUME FulfilmentInv, NEW h \in Handlers,
           Fuel!AutoBegin(h), UNCHANGED <<orderVars, linkVars, deleted>>
    PROVE  LinksInv' /\ FactsInv'
  <1> USE DEF FulfilmentInv, ServicesInv, LinksInv
  <1>1. UNCHANGED <<session, linkVars, orders, deleted>>
    BY DEF orderVars
  <1>2. OrdersStay /\ TripsStay
    <2>1. TripsStay
      BY TripsStayPut DEF Fuel!TripStep
    <2> QED BY <1>1, <2>1, OrdersStayPut
  <1>3. handler[h].op = "called" /\ handler'[h].op = "auto" /\ handler'[h].order = handler[h].order
        /\ \A x \in Handlers \ {h} : handler'[x] = handler[x]
    BY LedgerFacts, LedgerSession DEF Fuel!AutoBegin
  <1>4. deleted \subseteq Orders
    BY DEF LinksOK
  <1> QED BY <1>1, <1>2, <1>3, <1>4, StepAround


\* A delivery calls auto-start, for a driver or for a completion that has asked: the
\* session and the handler of the call are new, so nobody waited for either.
LEMMA CallKeeps ==
    ASSUME FulfilmentInv, NEW s \in Sessions, NEW o \in Orders, NEW d \in Drivers,
           NEW k \in Keys \cup {NoKey}, NEW v \in Volumes, CallsAutoStart(s, o, d, k, v),
           UNCHANGED <<confirmed, deleted>>,
           \/ UNCHANGED <<asker, verdict>>
           \/ \E x \in Handlers :
                /\ verdict[x] = "asked" /\ TripOrder(x) = o /\ handler[x].litres = v
                /\ asker' = [asker EXCEPT ![s] = x]
                /\ verdict' = [verdict EXCEPT ![x] = "served"]
    PROVE  LinksInv' /\ FactsInv'
  <1> USE NoHandlerAssumption, NullsAssumption DEF FulfilmentInv, ServicesInv, LinksInv
  <1>1. PICK h \in Handlers : Fuel!AutoCall(h, o, v) /\ caller' = [caller EXCEPT ![h] = s]
    BY DEF CallsAutoStart
  <1>2. /\ UNCHANGED orders /\ session[s].op = "idle"
        /\ session'[s].op = "deliver" /\ session'[s].order = o /\ session'[s].draft.delivered = v
        /\ \A x \in Sessions \ {s} : session'[x] = session[x]
    BY DEF CallsAutoStart, DeliverBegin, Idle, TypeOK, OrderRow
  <1>3. /\ UNCHANGED <<trips, ledger>> /\ handler[h].op = "idle"
        /\ handler'[h].op = "called" /\ handler'[h].order = o
        /\ \A x \in Handlers \ {h} : handler'[x] = handler[x]
    BY <1>1, LedgerFacts DEF Fuel!AutoCall, Fuel!Opens, Fuel!Idle
  <1>4. OrdersStay /\ TripsStay
    BY <1>2, <1>3, OrdersStayPut, TripsUnwritten
  <1>5. /\ caller \in [Handlers -> Sessions \cup {NoSession}]
        /\ asker \in [Sessions -> Handlers \cup {NoHandler}]
        /\ verdict \in [Handlers -> {"none", "asked", "served", "accepted", "refused"}]
        /\ confirmed \subseteq Sessions /\ deleted \subseteq Orders
        /\ \A x \in Sessions : /\ x \in confirmed \/ asker[x] # NoHandler => session[x].op = "deliver"
                               /\ asker[x] # NoHandler => verdict[asker[x]] = "served"
        /\ \A x \in Handlers : verdict[x] # "none" => handler[x].op = "completing"
    BY DEF LinksOK
  <1>6. /\ s \notin confirmed /\ asker[s] = NoHandler
        /\ \A x \in Handlers : caller[x] # s
        /\ verdict[h] = "none"
    BY <1>2, <1>3, <1>5 DEF CallersWait
  <1>7. /\ asker' \in [Sessions -> Handlers \cup {NoHandler}]
        /\ verdict' \in [Handlers -> {"none", "asked", "served", "accepted", "refused"}]
        /\ \A x \in Sessions \ {s} : asker'[x] = asker[x]
        /\ asker'[s] # NoHandler => /\ asker'[s] \in Handlers /\ verdict[asker'[s]] = "asked"
                                    /\ TripOrder(asker'[s]) = o /\ handler[asker'[s]].litres = v
                                    /\ verdict'[asker'[s]] = "served"
        /\ \A x \in Handlers : \/ verdict'[x] = verdict[x]
                               \/ verdict[x] = "asked" /\ verdict'[x] = "served"
    BY <1>5, <1>6
  <1>8. \A x \in Handlers : verdict'[x] # "none" =>
            handler[x].op = "completing" /\ handler'[x] = handler[x]
    BY <1>3, <1>5, <1>6, <1>7
  <1>9. \A x \in Sessions : asker'[x] # NoHandler => verdict'[asker'[x]] = "served"
    BY <1>5, <1>7
  <1>10. LinksOK'
    <2>1. \A x \in Sessions : x \in confirmed \/ asker'[x] # NoHandler => session'[x].op = "deliver"
      BY <1>2, <1>5, <1>6, <1>7
    <2>2. caller' \in [Handlers -> Sessions \cup {NoSession}]
      BY <1>1, <1>5
    <2>3. \A x \in Handlers : verdict'[x] # "none" => handler'[x].op = "completing"
      BY <1>8
    <2> QED BY <1>5, <1>7, <1>9, <2>1, <2>2, <2>3 DEF LinksOK
  <1>11. CallersWait'
    <2>1. caller'[h] = s /\ \A x \in Handlers \ {h} : caller'[x] = caller[x]
      BY <1>1, <1>5
    <2>2. \A x \in Handlers \ {h} : caller[x] # NoSession => caller[x] \in Sessions \ {s}
      BY <1>5, <1>6
    <2> SUFFICES ASSUME NEW x \in Handlers, caller'[x] # NoSession
                 PROVE  /\ handler'[x].op \in {"called", "auto"}
                        /\ session'[caller'[x]].op = "deliver"
                        /\ session'[caller'[x]].order = handler'[x].order
                        /\ caller'[x] \notin confirmed'
                        /\ \A y \in Handlers \ {x} : caller'[y] # caller'[x]
      BY DEF CallersWait
    <2>3. CASE x = h
      BY <1>2, <1>3, <1>6, <2>1, <2>3
    <2>4. CASE x # h
      <3>1. caller'[x] = caller[x] /\ caller[x] \in Sessions \ {s} /\ handler'[x] = handler[x]
            /\ session'[caller[x]] = session[caller[x]]
        BY <1>2, <1>3, <2>1, <2>2, <2>4
      <3> QED BY <2>1, <3>1 DEF CallersWait
    <2> QED BY <2>3, <2>4
  <1>12. AskersWait'
    <2> SUFFICES ASSUME NEW x \in Sessions, asker'[x] # NoHandler
                 PROVE  /\ session'[x].order = TripOrder(asker[x])'
                        /\ session'[x].draft.delivered = handler'[asker'[x]].litres
      BY DEF AskersWait
    <2>1. PICK y \in Handlers : y = asker'[x] /\ handler'[y] = handler[y] /\ handler[y].op = "completing"
      BY <1>7, <1>8, <1>9
    <2>2. TripOrder(y)' = TripOrder(y)
      BY <1>4, <2>1, TripOrderStays
    <2>3. session'[x].order = TripOrder(y) /\ session'[x].draft.delivered = handler[y].litres
      <3>1. CASE x = s
        BY <1>2, <1>7, <2>1, <3>1
      <3>2. CASE x # s
        BY <1>2, <1>7, <2>1, <3>2 DEF AskersWait
      <3> QED BY <3>1, <3>2
    <2> QED BY <2>1, <2>2, <2>3 DEF TripOrder
  <1>13. ConfirmedHasTrip'
    <2>1. \A x \in confirmed : session'[x] = session[x]
      BY <1>2, <1>5, <1>6
    <2> QED BY <1>4, <2>1, ConfirmedStays DEF ConfirmedHasTrip
  <1>14. DeletedGone'
    BY <1>2, <1>3 DEF DeletedGone
  <1>15. \A x \in Handlers : verdict'[x] = "accepted" => verdict[x] = "accepted" /\ handler'[x] = handler[x]
    BY <1>7, <1>8
  <1> QED BY <1>4, <1>10, <1>11, <1>12, <1>13, <1>14, <1>15, FactsStay

-----------------------------------------------------------------------------
(* The steps that deliver and complete *)

\* A completion is accepted: its order is delivered, it had no other and has none now.
LEMMA AcceptedNow ==
    ASSUME FulfilmentInv, NEW o \in Orders, orders[o].status = "accepted",
           orders'[o].status = "delivered",
           \A p \in Orders \ {o} : orders'[p] = orders[p],
           UNCHANGED <<trips, ledger, handler>>,
           \A h \in Handlers : verdict'[h] = "accepted" =>
               \/ verdict[h] = "accepted"
               \/ /\ handler[h].op = "completing" /\ TripOrder(h) = o
                  /\ orders'[o].kind # "transport" => orders'[o].delivered = handler[h].litres
                  /\ \A x \in Handlers \ {h} : verdict'[x] # verdict[x] => verdict'[x] # "accepted"
    PROVE  AcceptedOnce' /\ FulfilledSettled' /\ FactIsBooked'
  <1> USE DEF FulfilmentInv, ServicesInv, LinksInv, FactsInv
  <1>1. TripsStay
    BY TripsUnwritten
  <1>2. ~Settled(o) /\ \A p \in Orders : Settled(p) => p # o /\ orders'[p] = orders[p]
    BY DEF Settled
  <1>3. \A t \in Trips : trips[t].order \in Orders
    BY OrderOf
  <1>4. \A t \in Trips : Fulfilled(t) => trips[t].order # o
    BY <1>2 DEF FulfilledSettled
  <1>5. \A t \in Trips : (Fulfilled(t)' <=> Fulfilled(t))
    BY DEF Fulfilled, Fuel!Booked
  <1>6. FulfilledSettled'
    BY <1>2, <1>3, <1>5 DEF FulfilledSettled, Settled
  <1>7. FactIsBooked'
    <2> SUFFICES ASSUME NEW t \in Trips, trips[t].status = "completed", ~Fuel!Booked(t, "trip_cancelled")'
                 PROVE  /\ trips[t].tracked => Fuel!RowsTotal(ledger[t]) = -trips[t].actual
                        /\ Exists(trips[t].order)' => orders'[trips[t].order].kind = "transport"
                               \/ orders'[trips[t].order].delivered = trips[t].actual
      BY DEF FactIsBooked
    <2>1. ~Fuel!Booked(t, "trip_cancelled") /\ Fulfilled(t)
      BY DEF Fuel!Booked, Fulfilled
    <2>2. orders'[trips[t].order] = orders[trips[t].order]
      BY <1>3, <1>4, <2>1
    <2> QED BY <2>1, <2>2 DEF FactIsBooked, Exists
  <1>8. \A h \in Handlers : TripOrder(h)' = TripOrder(h)
    BY DEF TripOrder
  <1>9. ASSUME NEW h \in Handlers, verdict[h] = "accepted"
        PROVE  TripOrder(h) \in Orders /\ Settled(TripOrder(h))
    BY <1>9, AskedFor DEF AcceptedOnce, AcceptedAlone
  <1>10. AcceptedOnce'
    <2> SUFFICES ASSUME NEW h \in Handlers, verdict'[h] = "accepted" PROVE AcceptedAlone(h)'
      BY DEF AcceptedOnce, AcceptedAlone
    <2>1. CASE verdict[h] = "accepted"
      <3>1. PICK p \in Orders : p = TripOrder(h) /\ p = TripOrder(h)' /\ Settled(p)
        BY <1>8, <1>9, <2>1
      <3>2. p # o /\ orders'[p] = orders[p]
        BY <1>2, <3>1
      <3>3. \A x \in Handlers \ {h} : verdict'[x] = "accepted" => TripOrder(x)' # p
        BY <1>8, <2>1, <3>1, <3>2 DEF AcceptedOnce, AcceptedAlone
      <3>4. /\ orders[p].status = "delivered" /\ orders[p].kind # "transport"
                   => orders[p].delivered = handler[h].litres
            /\ \A t \in Trips : trips[t].order = p => ~Fulfilled(t)
        BY <2>1, <3>1 DEF AcceptedOnce, AcceptedAlone
      <3>5. \A t \in Trips : trips'[t].order = p => ~Fulfilled(t)'
        BY <1>5, <3>4
      <3> QED BY <3>1, <3>2, <3>3, <3>4, <3>5 DEF AcceptedAlone, Settled
    <2>2. CASE verdict[h] # "accepted"
      <3>1. /\ TripOrder(h) = o /\ TripOrder(h)' = o
            /\ orders'[o].kind # "transport" => orders'[o].delivered = handler[h].litres
            /\ \A x \in Handlers \ {h} : verdict'[x] # verdict[x] => verdict'[x] # "accepted"
        BY <1>8, <2>2
      <3>2. \A x \in Handlers \ {h} : verdict'[x] = "accepted" => TripOrder(x)' # o
        BY <1>2, <1>8, <1>9, <3>1
      <3> QED BY <1>4, <1>5, <3>1, <3>2 DEF AcceptedAlone, Settled
    <2> QED BY <2>1, <2>2
  <1> QED BY <1>6, <1>7, <1>10


\* order_service delivers a transport order at once for the completion that asks.
LEMMA ServedAtOnceKeeps ==
    ASSUME FulfilmentInv, NEW h \in Handlers, verdict[h] = "asked",
           NEW d \in Drivers, TransitionStatus(TripOrder(h), d, "delivered", NoKey),
           verdict' = [verdict EXCEPT ![h] = "accepted"],
           UNCHANGED <<fuelVars, caller, confirmed, asker, deleted>>
    PROVE  LinksInv' /\ FactsInv'
  <1> USE NoHandlerAssumption, NullsAssumption DEF FulfilmentInv, ServicesInv, LinksInv
  <1>0. PICK o \in Orders : o = TripOrder(h)
    BY AskedFor
  <1>1. /\ orders'[o].status = "delivered" /\ orders'[o].kind = "transport"
        /\ \A p \in Orders \ {o} : orders'[p] = orders[p]
        /\ UNCHANGED session
    BY <1>0 DEF TransitionStatus, TypeOK, OrderRow
  <1>2. orders[o].status = "accepted"
    BY <1>0 DEF TransitionStatus, RolesAllowed, Role
  <1>3. UNCHANGED <<trips, ledger, handler>>
    BY DEF fuelVars
  <1>4. OrdersStay /\ TripsStay
    BY <1>0, <1>3, OrdersStayPut, TripsUnwritten DEF Actors, Statuses
  <1>5. /\ verdict' \in [Handlers -> {"none", "asked", "served", "accepted", "refused"}]
        /\ \A x \in Handlers \ {h} : verdict'[x] = verdict[x]
        /\ \A x \in Sessions : asker[x] # NoHandler => asker[x] \in Handlers \ {h}
        /\ handler[h].op = "completing"
    BY DEF LinksOK
  <1>6. LinksOK'
    BY <1>1, <1>3, <1>5 DEF LinksOK
  <1>7. CallersWait' /\ AskersWait'
    BY <1>1, <1>3 DEF CallersWait, AskersWait, TripOrder
  <1>8. ConfirmedHasTrip'
    BY <1>1, <1>3 DEF ConfirmedHasTrip, Fuel!Real
  <1>9. DeletedGone'
    BY <1>3, <1>4, DeletedForGood DEF DeletedGone, LinksOK
  <1>10. AcceptedOnce' /\ FulfilledSettled' /\ FactIsBooked'
    <2>1. \A x \in Handlers : verdict'[x] = "accepted" =>
            \/ verdict[x] = "accepted"
            \/ /\ handler[x].op = "completing" /\ TripOrder(x) = o
               /\ orders'[o].kind # "transport" => orders'[o].delivered = handler[x].litres
               /\ \A y \in Handlers \ {x} : verdict'[y] # verdict[y] => verdict'[y] # "accepted"
      BY <1>0, <1>1, <1>5
    <2> QED BY <1>1, <1>2, <1>3, <2>1, AcceptedNow
  <1>11. DeliveredHasTrip'
    BY <1>4, DeliveredStays DEF FactsInv
  <1> QED BY <1>6, <1>7, <1>8, <1>9, <1>10, <1>11 DEF FactsInv

\* The delivery commits: it has its trip, and the completion that asked for it, if
\* one still waits, is accepted.
LEMMA DeliveredKeeps ==
    ASSUME FulfilmentInv, NEW s \in Sessions, Delivered(s)
    PROVE  LinksInv' /\ FactsInv'
  <1> USE NoHandlerAssumption, NullsAssumption DEF FulfilmentInv, ServicesInv, LinksInv
  <1>0. session[s].op = "deliver" /\ s \in confirmed /\ session[s].draft \in OrderRow
    BY OpenSession DEF Delivered, DeliverCommit
  <1>1. PICK o \in Orders : o = session[s].order /\ orders[o].status = "accepted"
    BY <1>0, DeliversAccepted
  <1>2. /\ orders'[o].status = "delivered" /\ orders'[o].delivered = session[s].draft.delivered
        /\ \A p \in Orders \ {o} : orders'[p] = orders[p]
        /\ session'[s].op = "idle" /\ \A x \in Sessions \ {s} : session'[x] = session[x]
    BY <1>0, <1>1 DEF Delivered, DeliverCommit, DeliveryHoldsLock, TypeOK, Idle
  <1>3. /\ UNCHANGED <<trips, ledger, handler>> /\ UNCHANGED <<caller, deleted>>
        /\ confirmed' = confirmed \ {s}
        /\ asker' = [asker EXCEPT ![s] = NoHandler]
        /\ verdict' = [h \in Handlers |-> IF asker[s] = h THEN "accepted" ELSE verdict[h]]
    BY DEF Delivered, fuelVars
  <1>4. TripsStay
    BY <1>3, TripsUnwritten
  <1>5. /\ asker \in [Sessions -> Handlers \cup {NoHandler}]
        /\ verdict \in [Handlers -> {"none", "asked", "served", "accepted", "refused"}]
        /\ confirmed \subseteq Sessions /\ deleted \subseteq Orders
        /\ caller \in [Handlers -> Sessions \cup {NoSession}]
        /\ \A x \in Sessions : /\ x \in confirmed \/ asker[x] # NoHandler => session[x].op = "deliver"
                               /\ asker[x] # NoHandler => verdict[asker[x]] = "served"
        /\ \A x \in Handlers : verdict[x] # "none" => handler[x].op = "completing"
    BY DEF LinksOK
  <1>6. \A x \in Sessions : asker'[x] # NoHandler =>
            x # s /\ asker'[x] = asker[x] /\ asker[x] # asker[s]
    BY <1>3, <1>5, AskersDiffer
  <1>7. \A x \in Handlers : caller[x] # s
    BY <1>0 DEF CallersWait
  <1>8. LinksOK'
    <2>1. /\ asker' \in [Sessions -> Handlers \cup {NoHandler}]
          /\ verdict' \in [Handlers -> {"none", "asked", "served", "accepted", "refused"}]
      BY <1>3, <1>5
    <2>2. \A x \in Sessions : /\ x \in confirmed' \/ asker'[x] # NoHandler => session'[x].op = "deliver"
                              /\ asker'[x] # NoHandler => verdict'[asker'[x]] = "served"
      BY <1>2, <1>3, <1>5, <1>6
    <2>3. \A x \in Handlers : verdict'[x] # "none" => handler'[x].op = "completing"
      BY <1>3, <1>5
    <2> QED BY <1>3, <1>5, <2>1, <2>2, <2>3 DEF LinksOK
  <1>9. CallersWait'
    <2>1. \A x \in Handlers : caller[x] # NoSession => caller[x] \in Sessions \ {s}
      BY <1>5, <1>7
    <2> QED BY <1>2, <1>3, <2>1 DEF CallersWait
  <1>10. AskersWait'
    BY <1>2, <1>3, <1>6 DEF AskersWait, TripOrder
  <1>11. ConfirmedHasTrip'
    BY <1>2, <1>3, <1>5 DEF ConfirmedHasTrip, Fuel!Real
  <1>12. DeletedGone'
    <2>1. \A p \in Orders : orders[p].status = "deleted" => orders'[p].status = "deleted"
      BY <1>1, <1>2
    <2> QED BY <1>3, <1>5, <2>1 DEF DeletedGone
  <1>13. AcceptedOnce' /\ FulfilledSettled' /\ FactIsBooked'
    <2>1. ASSUME NEW x \in Handlers, verdict'[x] = "accepted", verdict[x] # "accepted"
          PROVE  /\ handler[x].op = "completing" /\ TripOrder(x) = o
                 /\ orders'[o].delivered = handler[x].litres
                 /\ \A y \in Handlers \ {x} : verdict'[y] = verdict[y]
      <3>1. asker[s] = x
        BY <1>3, <2>1
      <3>2. handler[x].op = "completing" /\ TripOrder(x) = o /\ session[s].draft.delivered = handler[x].litres
        BY <1>1, <1>5, <3>1 DEF AskersWait
      <3> QED BY <1>2, <1>3, <3>1, <3>2
    <2>2. \A x \in Handlers : verdict'[x] = "accepted" =>
            \/ verdict[x] = "accepted"
            \/ /\ handler[x].op = "completing" /\ TripOrder(x) = o
               /\ orders'[o].kind # "transport" => orders'[o].delivered = handler[x].litres
               /\ \A y \in Handlers \ {x} : verdict'[y] # verdict[y] => verdict'[y] # "accepted"
      BY <2>1
    <2> QED BY <1>1, <1>2, <1>3, <2>2, AcceptedNow
  <1>14. DeliveredHasTrip'
    <2> SUFFICES ASSUME NEW p \in Orders, orders'[p].status = "delivered", orders'[p].kind # "transport"
                 PROVE  \E t \in Trips : trips'[t].order = p /\ Fuel!Real(t)'
      BY DEF DeliveredHasTrip
    <2>1. CASE p = o
      BY <1>0, <1>1, <1>4, <2>1, ConfirmedStays
    <2>2. CASE p # o
      BY <1>2, <1>3, <2>2 DEF DeliveredHasTrip, FactsInv, Fuel!Real
    <2> QED BY <2>1, <2>2
  <1> QED BY <1>8, <1>9, <1>10, <1>11, <1>12, <1>13, <1>14 DEF FactsInv


\* The rows of a trip that departed, and was neither adjusted nor cancelled, are its
\* departure; an adjustment adds the difference.
LEMMA DepartureOnly ==
    ASSUME FP!LedgerInv, NEW t \in Trips, ledger[t] # << >>,
           ~Fuel!Booked(t, "trip_adjustment"), ~Fuel!Booked(t, "trip_cancelled"), NEW litres \in Nat
    PROVE  /\ Fuel!RowsTotal(ledger[t]) = -trips[t].planned
           /\ Fuel!RowsTotal(Append(ledger[t], [note |-> "trip_adjustment",
                                                litres |-> trips[t].planned - litres])) = -litres
  <1> DEFINE Row == [note: Fuel!Notes, litres: Int]
  <1>0. PICK rows \in Seq(Row) : rows = ledger[t]
    BY LedgerFacts
  <1>1. PICK planned \in Nat : planned = trips[t].planned
    <2>1. trips[t] \in Fuel!Trip
      BY LedgerFacts
    <2>2. \A v \in Volumes : v \in Nat
      BY VolumesAssumption
    <2> QED BY <2>1, <2>2 DEF Fuel!Trip
  <1>2. /\ rows # << >> /\ rows[1] = [note |-> "trip_planned", litres |-> -planned]
        /\ \A i, j \in DOMAIN rows : rows[i].note = rows[j].note => i = j
        /\ \A i \in DOMAIN rows : rows[i].note \notin {"trip_adjustment", "trip_cancelled"}
    BY <1>0, <1>1, LedgerFacts DEF Fuel!Booked
  <1>3. \A i \in DOMAIN rows : rows[i].note = "trip_planned"
    <2>1. \A i \in DOMAIN rows : rows[i] \in Row
      <3> HIDE DEF Row
      <3> QED OBVIOUS
    <2> QED BY <1>2, <2>1 DEF Fuel!Notes
  <1>4. Len(rows) \in Nat /\ DOMAIN rows = 1..Len(rows) /\ Len(rows) >= 1
    BY <1>2
  <1>5. Len(rows) = 1
    <2>1. 1 \in DOMAIN rows /\ Len(rows) \in DOMAIN rows
      BY <1>4
    <2> QED BY <1>2, <1>3, <2>1
  <1> DEFINE departure == [note |-> "trip_planned", litres |-> -planned]
  <1>6. rows = Append(<< >>, departure)
    BY <1>2, <1>4, <1>5
  <1> DEFINE difference == [note |-> "trip_adjustment", litres |-> planned - litres]
  <1>7. departure \in FP!Entry /\ difference \in FP!Entry /\ << >> \in Seq(FP!Entry) /\ rows \in Seq(FP!Entry)
    BY DEF FP!Entry, FP!Notes, Fuel!Notes
  <1>8. departure.litres = -planned /\ difference.litres = planned - litres
    OBVIOUS
  <1> HIDE DEF departure, difference
  <1>9. /\ FP!RowsTotal(<< >>) = 0
        /\ FP!RowsTotal(Append(<< >>, departure)) = FP!RowsTotal(<< >>) + departure.litres
        /\ FP!RowsTotal(Append(rows, difference)) = FP!RowsTotal(rows) + difference.litres
    BY <1>7, LedgerConstants, FP!SumOfRows, FP!SumOfNone
  <1>10. FP!RowsTotal(rows) = -planned
    BY <1>6, <1>8, <1>9
  <1>11. FP!RowsTotal(Append(rows, difference)) = -litres
    BY <1>8, <1>9, <1>10
  <1>12. /\ Fuel!RowsTotal(rows) = FP!RowsTotal(rows)
         /\ Fuel!RowsTotal(Append(rows, difference)) = FP!RowsTotal(Append(rows, difference))
    BY DEF Fuel!RowsTotal, FP!RowsTotal, Fuel!SumFunctionOnSet, FP!SumFunctionOnSet,
       Fuel!FoldFunctionOnSet, FP!FoldFunctionOnSet, Fuel!MapThenFoldSet, FP!MapThenFoldSet
  <1> QED BY <1>0, <1>1, <1>10, <1>11, <1>12 DEF difference

\* An accepted completion commits: its order is settled with its litres, no other
\* completion of the order is accepted, and the trip has its departure and the difference.
LEMMA CompletedKeeps ==
    ASSUME FulfilmentInv, NEW h \in Handlers, Completed(h)
    PROVE  LinksInv' /\ FactsInv'
  <1> USE NoHandlerAssumption, NullsAssumption DEF FulfilmentInv, ServicesInv, LinksInv, FactsInv
  <1>0. verdict[h] = "accepted" /\ Fuel!CompleteCommit(h) /\ handler[h].op = "completing"
    BY DEF Completed, LinksOK
  <1>1. PICK t \in Trips : /\ t = handler[h].trip /\ Fuel!Real(t)
                           /\ trips[t].tracked => ledger[t] # << >>
    BY <1>0, LedgerFacts
  <1>2. PICK o \in Orders : o = TripOrder(h) /\ o = trips[t].order
    BY <1>1, OrderOf DEF TripOrder
  <1>3. PICK litres \in Volumes : litres = handler[h].litres
    BY <1>0, LedgerFacts
  <1>4. /\ Settled(o)
        /\ orders[o].status = "delivered" /\ orders[o].kind # "transport" => orders[o].delivered = litres
        /\ \A x \in Trips : trips[x].order = o => ~Fulfilled(x)
        /\ \A x \in Handlers \ {h} : verdict[x] = "accepted" => TripOrder(x) # o
    BY <1>0, <1>2, <1>3 DEF AcceptedOnce, AcceptedAlone
  <1>5. /\ trips'[t].status = "completed" /\ trips'[t].actual = litres
        /\ trips'[t].order = o /\ trips'[t].tracked = trips[t].tracked
        /\ \A x \in Trips \ {t} : trips'[x] = trips[x]
    BY <1>0, <1>1, <1>2, <1>3, LedgerFacts DEF Fuel!CompleteCommit, Fuel!Trip
  <1>6. /\ \A x \in Trips \ {t} : ledger'[x] = ledger[x]
        /\ ledger'[t] = IF Fuel!Difference(t, litres) = 0 THEN ledger[t]
                        ELSE Append(ledger[t], [note |-> "trip_adjustment",
                                                litres |-> Fuel!Difference(t, litres)])
    BY <1>0, <1>1, <1>3, LedgerFacts DEF Fuel!CompleteCommit
  <1>7. handler'[h].op = "idle" /\ \A x \in Handlers \ {h} : handler'[x] = handler[x]
    BY <1>0, LedgerFacts DEF Fuel!CompleteCommit, Fuel!Ends, Fuel!Idle
  <1>8. /\ UNCHANGED <<orders, session, caller, confirmed, asker, deleted>>
        /\ verdict' = [verdict EXCEPT ![h] = "none"]
    BY DEF Completed, orderVars
  <1>9. \A x \in Trips : trips'[x].order = trips[x].order /\ (Fuel!Real(x) => Fuel!Real(x)')
    BY <1>2, <1>5 DEF Fuel!Real, Fuel!TripStatuses
  <1>10. /\ caller \in [Handlers -> Sessions \cup {NoSession}]
         /\ asker \in [Sessions -> Handlers \cup {NoHandler}]
         /\ verdict \in [Handlers -> {"none", "asked", "served", "accepted", "refused"}]
         /\ \A x \in Sessions : asker[x] # NoHandler => asker[x] \in Handlers \ {h}
         /\ \A x \in Handlers : verdict[x] # "none" => handler[x].op = "completing"
    BY <1>0 DEF LinksOK
  <1>11. LinksOK'
    BY <1>7, <1>8, <1>10 DEF LinksOK
  <1>12. CallersWait'
    BY <1>0, <1>7, <1>8 DEF CallersWait
  <1>13. AskersWait'
    <2> SUFFICES ASSUME NEW s \in Sessions, asker'[s] # NoHandler
                 PROVE  /\ session'[s].order = TripOrder(asker[s])'
                        /\ session'[s].draft.delivered = handler'[asker'[s]].litres
      BY DEF AskersWait
    <2>1. PICK x \in Handlers \ {h} : x = asker[s] /\ x = asker'[s] /\ handler'[x] = handler[x]
      BY <1>7, <1>8, <1>10
    <2>2. handler[x].trip \in Trips
      BY <1>8, <2>1, AskedFor DEF LinksOK
    <2> QED BY <1>8, <1>9, <2>1, <2>2 DEF AskersWait, TripOrder
  <1>14. ConfirmedHasTrip' /\ DeletedGone'
    BY <1>7, <1>8, <1>9 DEF ConfirmedHasTrip, DeletedGone
  <1>15. \A x \in Trips \ {t} : (Fulfilled(x)' <=> Fulfilled(x))
    BY <1>5, <1>6 DEF Fulfilled, Fuel!Booked
  <1>16. FulfilledSettled'
    <2> SUFFICES ASSUME NEW x \in Trips, Fulfilled(x)' PROVE Settled(trips[x].order)'
      BY DEF FulfilledSettled
    <2>1. Settled(trips[x].order)
      BY <1>2, <1>4, <1>15 DEF FulfilledSettled
    <2> QED BY <1>8, <1>9, <2>1 DEF Settled
  <1>17. AcceptedOnce'
    <2> SUFFICES ASSUME NEW x \in Handlers, verdict'[x] = "accepted" PROVE AcceptedAlone(x)'
      BY DEF AcceptedOnce, AcceptedAlone
    <2>1. \A y \in Handlers : verdict'[y] = "accepted" =>
              /\ y # h /\ verdict[y] = "accepted" /\ handler'[y] = handler[y]
              /\ handler[y].trip \in Trips
      BY <1>7, <1>8, <1>10, AskedFor
    <2>2. \A y \in Handlers : verdict'[y] = "accepted" => TripOrder(y)' = TripOrder(y)
      BY <1>9, <2>1 DEF TripOrder
    <2>3. PICK p : p = TripOrder(x) /\ p = TripOrder(x)' /\ p # o
      BY <1>4, <2>1, <2>2
    <2>4. /\ Settled(p)
          /\ orders[p].status = "delivered" /\ orders[p].kind # "transport"
                 => orders[p].delivered = handler[x].litres
          /\ \A y \in Trips : trips[y].order = p => ~Fulfilled(y)
          /\ \A y \in Handlers \ {x} : verdict[y] = "accepted" => TripOrder(y) # p
      BY <2>1, <2>3 DEF AcceptedOnce, AcceptedAlone
    <2>5. \A y \in Trips : trips'[y].order = p => ~Fulfilled(y)'
      BY <1>2, <1>9, <1>15, <2>3, <2>4
    <2>6. \A y \in Handlers \ {x} : verdict'[y] = "accepted" => TripOrder(y)' # p
      BY <2>1, <2>2, <2>4
    <2> QED BY <1>8, <2>1, <2>3, <2>4, <2>5, <2>6 DEF AcceptedAlone, Settled
  <1>18. ASSUME ~Fuel!Booked(t, "trip_cancelled")', trips[t].tracked
         PROVE  Fuel!RowsTotal(ledger'[t]) = -litres
    <2>1. ~Fuel!Booked(t, "trip_adjustment")
      BY <1>2, <1>4 DEF Fulfilled
    <2>2. PICK planned \in Nat : planned = trips[t].planned
      <3>1. trips[t] \in Fuel!Trip
        BY LedgerFacts
      <3>2. \A v \in Volumes : v \in Nat
        BY VolumesAssumption
      <3> QED BY <3>1, <3>2 DEF Fuel!Trip
    <2>3. litres \in Nat
      BY VolumesAssumption
    <2>4. Fuel!Difference(t, litres) = planned - litres
      BY <1>18, <2>1, <2>2 DEF Fuel!Difference
    <2>5. ~Fuel!Booked(t, "trip_cancelled")
      <3> DEFINE e == [note |-> "trip_adjustment", litres |-> Fuel!Difference(t, litres)]
      <3>1. ledger[t] \in Seq([note: Fuel!Notes, litres: Int])
        BY LedgerFacts
      <3>2. \A i \in DOMAIN ledger[t] : i \in DOMAIN Append(ledger[t], e) /\ Append(ledger[t], e)[i] = ledger[t][i]
        BY <3>1
      <3>3. \A i \in DOMAIN ledger[t] : i \in DOMAIN ledger'[t] /\ ledger'[t][i] = ledger[t][i]
        BY <1>6, <3>2
      <3> QED BY <1>18, <3>3 DEF Fuel!Booked
    <2>6. /\ Fuel!RowsTotal(ledger[t]) = -planned
          /\ Fuel!RowsTotal(Append(ledger[t], [note |-> "trip_adjustment",
                                               litres |-> planned - litres])) = -litres
      BY <1>1, <1>18, <2>1, <2>2, <2>3, <2>5, DepartureOnly
    <2>7. CASE planned - litres = 0
      <3>1. planned = litres
        BY <2>2, <2>3, <2>7
      <3> QED BY <1>6, <2>4, <2>6, <2>7, <3>1
    <2>8. CASE planned - litres # 0
      BY <1>6, <2>4, <2>6, <2>8
    <2> QED BY <2>7, <2>8
  <1>19. FactIsBooked'
    <2> SUFFICES ASSUME NEW x \in Trips, trips'[x].status = "completed", ~Fuel!Booked(x, "trip_cancelled")'
                 PROVE  /\ trips'[x].tracked => Fuel!RowsTotal(ledger'[x]) = -trips'[x].actual
                        /\ Exists(trips[x].order)' => orders[trips'[x].order].kind = "transport"
                               \/ orders[trips'[x].order].delivered = trips'[x].actual
      BY <1>8 DEF FactIsBooked
    <2>1. CASE x = t
      <3>1. trips'[x].tracked => Fuel!RowsTotal(ledger'[x]) = -trips'[x].actual
        BY <1>5, <1>18, <2>1
      <3>2. Exists(trips[x].order)' => orders[o].status = "delivered"
        BY <1>4, <1>5, <1>8, <2>1 DEF Exists, Settled, Statuses
      <3> QED BY <1>4, <1>5, <2>1, <3>1, <3>2
    <2>2. CASE x # t
      <3>1. trips'[x] = trips[x] /\ ledger'[x] = ledger[x]
        BY <1>5, <1>6, <2>2
      <3>2. ~Fuel!Booked(x, "trip_cancelled") /\ (Exists(trips[x].order)' <=> Exists(trips[x].order))
        BY <1>8, <3>1 DEF Fuel!Booked, Exists
      <3> QED BY <3>1, <3>2 DEF FactIsBooked
    <2> QED BY <2>1, <2>2
  <1>20. DeliveredHasTrip'
    BY <1>8, <1>9 DEF DeliveredHasTrip
  <1> QED BY <1>11, <1>12, <1>13, <1>14, <1>16, <1>17, <1>19, <1>20

-----------------------------------------------------------------------------
(* The two services together *)

LEMMA FulfilmentStart == FulfilmentInit => FulfilmentInv
  <1> SUFFICES ASSUME FulfilmentInit PROVE FulfilmentInv
    OBVIOUS
  <1>1. ServicesInv
    BY InitHolds, LedgerStarts DEF FulfilmentInit, ServicesInv
  <1>2. /\ \A h \in Handlers : handler[h].op = "idle"
        /\ \A t \in Trips : trips[t].status = "none" /\ ledger[t] = << >>
        /\ \A s \in Sessions : session[s].op = "idle"
        /\ \A o \in Orders : orders[o].status = "absent"
    BY DEF FulfilmentInit, Fuel!LedgerInit, Fuel!Idle, OrderInit, Idle, NoRow
  <1>3. LinksOK
    BY DEF FulfilmentInit, LinksOK
  <1>4. CallersWait /\ AskersWait /\ ConfirmedHasTrip /\ DeletedGone
    BY <1>2 DEF FulfilmentInit, CallersWait, AskersWait, ConfirmedHasTrip, DeletedGone
  <1>5. \A t \in Trips : ~Fulfilled(t)
    BY <1>2 DEF Fulfilled, Fuel!Booked
  <1>6. FactsInv
    BY <1>2, <1>5 DEF FulfilmentInit, FactsInv, AcceptedOnce, AcceptedAlone, FulfilledSettled,
       FactIsBooked, DeliveredHasTrip
  <1> QED BY <1>1, <1>3, <1>4, <1>6 DEF FulfilmentInv, LinksInv

\* Every step of the two services keeps the invariant: those of order_service, of the ledger, and their calls.
LEMMA FulfilmentStep == FulfilmentInv /\ [FulfilmentNext]_allVars => FulfilmentInv'
  <1> SUFFICES ASSUME FulfilmentInv, [FulfilmentNext]_allVars PROVE FulfilmentInv'
    OBVIOUS
  <1>1. ServicesInv'
    <2>1. [OrderNext]_orderVars /\ FuelMove
      BY OrderSide, FuelSide DEF FulfilmentInv, ServicesInv, LinksInv
    <2> QED BY <2>1, TypeStep, LockStep, FuelStep DEF FulfilmentInv, ServicesInv
  <1>2. ASSUME NEW s \in Sessions, NEW o \in Orders, NEW d \in Drivers, NEW k \in Keys \cup {NoKey},
               NEW v \in Volumes, Deliver(s, o, d, k, v)
        PROVE  LinksInv' /\ FactsInv'
    BY <1>2, CallKeeps DEF Deliver
  <1>3. ASSUME NEW h \in Handlers, AutoStart(h) PROVE LinksInv' /\ FactsInv'
    BY <1>3, AnsweredKeeps, AutoBeginKeepsLinks DEF AutoStart
  <1>4. ASSUME NEW h \in Handlers, ServeCompletion(h) PROVE LinksInv' /\ FactsInv'
    <2>1. /\ verdict[h] = "asked" /\ TripOrder(h) \in Orders /\ handler[h].litres \in Volumes
          /\ NoKey \in Keys \cup {NoKey}
      BY <1>4, AskedFor DEF ServeCompletion, FulfilmentInv, ServicesInv, LinksInv
    <2>2. ASSUME NEW s \in Sessions, NEW d \in Drivers,
                 CallsAutoStart(s, TripOrder(h), d, NoKey, handler[h].litres),
                 asker' = [asker EXCEPT ![s] = h], verdict' = [verdict EXCEPT ![h] = "served"],
                 UNCHANGED <<confirmed, deleted>>
          PROVE  LinksInv' /\ FactsInv'
      BY <2>1, <2>2, CallKeeps
    <2> QED BY <1>4, <2>1, <2>2, ServedAtOnceKeeps DEF ServeCompletion
  <1>5. ASSUME UNCHANGED allVars PROVE LinksInv' /\ FactsInv'
    <2>1. UNCHANGED <<orders, session, trips, ledger, handler, deleted>> /\ UNCHANGED linkVars
      BY <1>5 DEF allVars, orderVars, fuelVars
    <2>2. OrdersStay /\ TripsStay
      BY <2>1, OrdersStayPut, TripsUnwritten DEF FulfilmentInv, ServicesInv
    <2>3. deleted \subseteq Orders
      BY DEF FulfilmentInv, LinksInv, LinksOK
    <2> QED BY <2>1, <2>2, <2>3, StepAround
  <1>6. LinksInv' /\ FactsInv'
    <2>1. ASSUME NEW s \in Sessions, Delivered(s) \/ NotDelivered(s) PROVE LinksInv' /\ FactsInv'
      BY <2>1, DeliveredKeeps, NotDeliveredKeeps
    <2>2. ASSUME NEW h \in Handlers, CompleteTrip(h) \/ Completed(h) \/ NotCompleted(h) \/ CancelTrip(h)
          PROVE  LinksInv' /\ FactsInv'
      BY <2>2, CompleteTripKeeps, CompletedKeeps, NotCompletedKeeps, CancelTripKeeps
    <2>3. ASSUME NEW o \in Orders, OrderAlone(o) \/ DeleteOrder(o) \/ \E h \in Handlers : PurgeOrder(h, o)
          PROVE  LinksInv' /\ FactsInv'
      BY <2>3, OrderAloneKeeps, PurgeOrderKeeps
    <2>4. CASE TripsAlone
      BY <2>4, TripsAloneKeep
    <2> QED BY <1>2, <1>3, <1>4, <1>5, <2>1, <2>2, <2>3, <2>4 DEF FulfilmentNext
  <1> QED BY <1>1, <1>6 DEF FulfilmentInv

\* So the invariant holds of every behaviour of the two services.
LEMMA FulfilmentHolds == FulfilmentSpec => []FulfilmentInv
  BY FulfilmentStart, FulfilmentStep, PTL DEF FulfilmentSpec

\* Who waits for whom is consistent, a completed trip has a delivered order and an
\* order delivered from stock a trip, whatever is lost, refused or late.
THEOREM TripsGoWithOrders == FulfilmentSpec => []TripsMatchOrders
  <1>1. FulfilmentInv => TripsMatchOrders
    BY DEF FulfilmentInv, LinksInv, FactsInv, FulfilledSettled, Fulfilled, Settled,
       TripsMatchOrders, CompletedImpliesDelivered
  <1> QED BY <1>1, FulfilmentHolds, PTL

\* The litres a completed trip has taken are those of the order and of the driver.
THEOREM FactsAreBooked == FulfilmentSpec => []FactIsBooked
  <1>1. FulfilmentInv => FactIsBooked
    BY DEF FulfilmentInv, FactsInv
  <1> QED BY <1>1, FulfilmentHolds, PTL

\* What order_service does in the company of delivery_service is what it does alone:
\* all that is proved of OrderSpec above holds of the two together.
THEOREM OrdersAmongTrips == FulfilmentSpec => OrderSpec
  <1>1. FulfilmentInit => OrderInit
    BY DEF FulfilmentInit
  <1>2. FulfilmentInv /\ [FulfilmentNext]_allVars => [OrderNext]_orderVars
    BY OrderSide DEF FulfilmentInv, ServicesInv, LinksInv
  <1> QED BY <1>1, <1>2, FulfilmentHolds, PTL DEF FulfilmentSpec, OrderSpec
=============================================================================
