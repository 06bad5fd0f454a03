-------------------------------- MODULE Payments --------------------------------
(***************************************************************************)
(* The payments of an order and the payment status stored with it.         *)
(*                                                                         *)
(* orders.payment_status is a cached value: it is computed from the sum of *)
(* the PAID payments and from the amount the order is due, and written     *)
(* with the order.  Three kinds of request write it:                       *)
(*   - record_payment locks the order FOR UPDATE, and the pending invoice  *)
(*     it settles, before it sums the payments;                            *)
(*   - cancel_payment reads payment and order without a lock; its UPDATE   *)
(*     of the payment is flushed by the sum, the order is written last;    *)
(*   - update_order reads the order without a lock, too.                   *)
(* The other writers of the amounts (the delivery of the order, the        *)
(* override of the shipment) leave the status as it is.                    *)
(*                                                                         *)
(* Staff may record a payment of any order; what a driver may record is    *)
(* among that, so the actor is left out.  A null amount is 0.              *)
(***************************************************************************)
EXTENDS Integers, FiniteSets, FiniteSetsExt, Functions

CONSTANTS
    Orders,       \* ids of orders
    PaymentIds,   \* ids of payments, in the order of their creation
    Sessions,     \* database sessions of requests that are in progress
    Keys,         \* idempotency keys of the drivers' offline outbox
    Prices,       \* amounts an order may be due
    Amounts,      \* amounts a payment may be recorded with
    Overrides,    \* values of shipment_override in use
    NoKey, NoPayment,
    Ops           \* request kinds the environment issues: names the bound

ASSUME PaymentIdsAssumption == PaymentIds \subseteq Nat /\ IsFiniteSet(PaymentIds)
ASSUME NoPaymentAssumption  == NoPayment \notin PaymentIds
ASSUME OrdersAssumption     == Orders # {}
ASSUME AmountsAssumption    == Amounts \subseteq Nat \ {0} /\ Prices \subseteq Nat \ {0}
ASSUME OverridesAssumption  == "auto" \in Overrides /\ Overrides \subseteq {"auto", "allow", "hold"}
ASSUME NoKeyAssumption      == NoKey \notin Keys

VARIABLES
    due,       \* the columns of the orders table that payments depend on
    payments,  \* the payments table, and the key a payment was recorded under
    session    \* what each session has read and means to write

payVars == <<due, payments, session>>

PaymentStatuses == {"unpaid", "partially_paid", "paid", "overpaid"}

Due == [expected: Prices \cup {0}, final: Prices \cup {0}, delivered: BOOLEAN,
        status: PaymentStatuses, override: Overrides]

\* The columns that recompute_and_save writes.
Cached == [status: PaymentStatuses, override: Overrides]

Payment ==
    [state: {"none"}, order: Orders, amount: {0}, key: {NoKey}]
    \cup [state: {"pending", "paid", "cancelled"}, order: Orders, amount: Amounts \cup Prices,
          key: Keys \cup {NoKey}]

Idle == [op |-> "idle"]

SessionState ==
    {Idle}
    \cup [op: {"record"}, order: Orders, amount: Amounts, key: Keys \cup {NoKey},
          pick: PaymentIds \cup {NoPayment}]
    \cup [op: {"recorded"}, order: Orders, amount: Amounts, key: Keys \cup {NoKey},
          pick: PaymentIds \cup {NoPayment}, draft: Cached]
    \cup [op: {"cancel"}, order: Orders, payment: PaymentIds, snap: Due]
    \cup [op: {"cancelled"}, order: Orders, payment: PaymentIds, snap: Cached, draft: Cached]
    \cup [op: {"final"}, order: Orders, snap: Due, price: Prices]

PayInit ==
    /\ due \in [Orders -> [expected: Prices \cup {0}, final: {0}, delivered: {FALSE},
                           status: {"unpaid"}, override: Overrides \ {"allow"}]]
    /\ payments = [p \in PaymentIds |->
          [state |-> "none", order |-> CHOOSE o \in Orders : TRUE, amount |-> 0, key |-> NoKey]]
    /\ session = [s \in Sessions |-> Idle]

-----------------------------------------------------------------------------
(* Sums and the status they make *)

\* The amount of a payment as far as the sum of the PAID payments goes.
PaidAmount(p) == IF payments[p].state = "paid" THEN payments[p].amount ELSE 0

PaidFor(o) == [p \in PaymentIds |-> IF payments[p].order = o THEN PaidAmount(p) ELSE 0]

PaidTotal(o) == SumFunctionOnSet(PaidFor(o), PaymentIds)

\* The fact goes before the plan.
Target(row) == IF row.final # 0 THEN row.final ELSE row.expected

ComputePaymentStatus(total, row) ==
    CASE total = 0           -> "unpaid"
      [] total # 0 /\ Target(row) = 0 -> "paid"
      [] 0 < total /\ total < Target(row) -> "partially_paid"
      [] total > Target(row) /\ Target(row) # 0 -> "overpaid"
      [] OTHER               -> "paid"

\* recompute_and_save: a hold by hand is lifted when the money has come.
Recomputed(total, row) ==
    LET status == ComputePaymentStatus(total, row) IN
    [status   |-> status,
     override |-> IF status \in {"paid", "overpaid"} /\ row.override = "hold"
                  THEN "auto" ELSE row.override]

Current(row) == [status |-> row.status, override |-> row.override]

Agrees(o) == due[o].status = ComputePaymentStatus(PaidTotal(o), due[o])

-----------------------------------------------------------------------------
(* Locks, keys and the unit of work *)

\* Mutant: record_payment reads the order without FOR UPDATE.
OrderFreeIgnored(o) == TRUE

\* Nobody has the order FOR UPDATE.
OrderFree(o) == \A s \in Sessions : session[s].op \in {"record", "recorded"} => session[s].order # o

\* No other session has the row of the payment locked.
PaymentFree(me, p) == \A s \in Sessions \ {me} :
    /\ session[s].op \in {"record", "recorded"} => session[s].pick # p
    /\ session[s].op = "cancelled" => session[s].payment # p

\* Mutant: the conflict on the key is not looked at.
KeyFreeUnchecked(k) == TRUE

\* No payment is recorded under the key, and no request in progress has claimed it.
KeyFree(k) == k # NoKey =>
    /\ \A p \in PaymentIds : payments[p].key # k
    /\ \A s \in Sessions : session[s].op \in {"record", "recorded"} => session[s].key # k

\* Mutant: the look-up of the invoice takes payments that were made as well.
PendingOrPaid(o) ==
    {p \in PaymentIds : payments[p].order = o /\ payments[p].state \in {"pending", "paid"}}

Pending(o) == {p \in PaymentIds : payments[p].order = o /\ payments[p].state = "pending"}

IsNext(p) == /\ payments[p].state = "none"
             /\ \A q \in PaymentIds : payments[q].state = "none" => p <= q

Opens(s, state) == /\ session[s] = Idle
                   /\ session' = [session EXCEPT ![s] = state]

Goes(s, state) == session' = [session EXCEPT ![s] = state]

\* Of the cached columns only those whose value differs from the one that was
\* read are written.
WriteBack(row, read, draft) ==
    [row EXCEPT !.status = IF draft.status = read.status THEN @ ELSE draft.status,
                !.override = IF draft.override = read.override THEN @ ELSE draft.override]

-----------------------------------------------------------------------------
\* Mutant: an invoice over an amount that was never computed.
CreateInvoiceUnpriced(o, p, basis) ==
    LET amount == IF basis = "delivered" THEN due[o].final ELSE due[o].expected IN
    /\ OrderFree(o) /\ IsNext(p)
    /\ due[o].delivered <=> basis = "delivered"
    /\ payments' = [payments EXCEPT ![p] =
          [state |-> "pending", order |-> o, amount |-> amount, key |-> NoKey]]
    /\ UNCHANGED <<due, session>>

\* create_invoice: a pending payment.  (Its row refers to the order, so it waits
\* for a FOR UPDATE.)
CreateInvoice(o, p, basis) ==
    LET amount == IF basis = "delivered" THEN due[o].final ELSE due[o].expected IN
    /\ OrderFree(o) /\ IsNext(p)
    /\ due[o].delivered <=> basis = "delivered"
    /\ amount # 0
    /\ payments' = [payments EXCEPT ![p] =
          [state |-> "pending", order |-> o, amount |-> amount, key |-> NoKey]]
    /\ UNCHANGED <<due, session>>

\* record_payment: the key is claimed and the order locked; the latest pending
\* invoice is asked for, FOR UPDATE.
RecordBegin(s, o, amount, k) ==
    /\ KeyFree(k) /\ OrderFree(o)
    /\ Opens(s, [op |-> "record", order |-> o, amount |-> amount, key |-> k,
                 pick |-> IF Pending(o) = {} THEN NoPayment ELSE Max(Pending(o))])
    /\ UNCHANGED <<due, payments>>

\* The status as the record of the session will leave it.
RecordedWith(me, pick) ==
    [op |-> "recorded", order |-> me.order, amount |-> me.amount, key |-> me.key, pick |-> pick,
     draft |-> Recomputed(PaidTotal(me.order) + me.amount, due[me.order])]

\* The invoice is settled, or a payment is added when there is none (any more),
\* and the status computed from what is committed and this.
RecordSum(s) ==
    LET me == session[s]
        pick == IF me.pick # NoPayment /\ me.pick \in Pending(me.order) THEN me.pick ELSE NoPayment
    IN
    /\ me.op = "record"
    /\ me.pick # NoPayment => PaymentFree(s, me.pick)
    /\ Goes(s, RecordedWith(me, pick))
    /\ UNCHANGED <<due, payments>>

RecordCommit(s) ==
    LET me == session[s] IN
    /\ me.op = "recorded"
    /\ \E p \in PaymentIds :
         /\ IF me.pick = NoPayment THEN IsNext(p) ELSE p = me.pick
         /\ payments' = [payments EXCEPT ![p] =
               [state |-> "paid", order |-> me.order, amount |-> me.amount, key |-> me.key]]
    /\ due' = [due EXCEPT ![me.order] = WriteBack(@, Current(@), me.draft)]
    /\ Goes(s, Idle)

\* cancel_payment: reads payment and order.
CancelBegin(s, p) ==
    LET o == payments[p].order IN
    /\ payments[p].state \in {"pending", "paid"}
    /\ Opens(s, [op |-> "cancel", order |-> o, payment |-> p, snap |-> due[o]])
    /\ UNCHANGED <<due, payments>>

\* The sum flushes the UPDATE of the payment, which waits for the row.
CancelSum(s) ==
    LET me == session[s] IN
    /\ me.op = "cancel"
    /\ PaymentFree(s, me.payment)
    /\ Goes(s, [op |-> "cancelled", order |-> me.order, payment |-> me.payment,
                snap |-> Current(me.snap),
                draft |-> Recomputed(PaidTotal(me.order) - PaidAmount(me.payment), me.snap)])
    /\ UNCHANGED <<due, payments>>

CancelCommit(s) ==
    LET me == session[s] IN
    /\ me.op = "cancelled"
    /\ OrderFree(me.order)
    /\ payments' = [payments EXCEPT ![me.payment].state = "cancelled"]
    /\ due' = [due EXCEPT ![me.order] = WriteBack(@, me.snap, me.draft)]
    /\ Goes(s, Idle)

\* update_order with a final amount: the status is computed again.
EditFinal(s, o, amount) ==
    /\ Opens(s, [op |-> "final", order |-> o, snap |-> due[o], price |-> amount])
    /\ UNCHANGED <<due, payments>>

\* The amount goes with the columns that the sum has changed.
Edited(row, me, draft) ==
    [WriteBack(row, Current(me.snap), draft) EXCEPT
        !.final = IF me.price = me.snap.final THEN @ ELSE me.price]

EditFinalCommit(s) ==
    LET me == session[s]
        draft == Recomputed(PaidTotal(me.order), [me.snap EXCEPT !.final = me.price])
    IN
    /\ me.op = "final"
    /\ OrderFree(me.order)
    /\ due' = [due EXCEPT ![me.order] = Edited(@, me, draft)]
    /\ Goes(s, Idle)
    /\ UNCHANGED payments

\* update_order with an expected amount (by hand, or computed again for another
\* volume, or reset for want of a tariff), set_shipment_override: each writes one
\* column, with a value that depends on nothing it has read, so one step does.
SetExpected(o, amount) ==
    /\ OrderFree(o)
    /\ due' = [due EXCEPT ![o].expected = amount]
    /\ UNCHANGED <<payments, session>>

SetOverride(o, mode) ==
    /\ OrderFree(o)
    /\ due' = [due EXCEPT ![o].override = mode]
    /\ UNCHANGED <<payments, session>>

\* transition_status to DELIVERED: the final amount is the planned one, or is
\* computed from the litres delivered, or stays null for want of a tariff.
Deliver(o) ==
    /\ OrderFree(o) /\ ~due[o].delivered
    /\ \E a \in Prices \cup {due[o].final} :
         /\ a \notin Prices => due[o].expected = 0
         /\ due' = [due EXCEPT ![o].delivered = TRUE, ![o].final = a]
    /\ UNCHANGED <<payments, session>>

\* An exception, a deadlock that the database breaks, or the end of the process.
RollBack(s) ==
    /\ session[s] # Idle
    /\ Goes(s, Idle)
    /\ UNCHANGED <<due, payments>>

PayNext ==
    \/ \E o \in Orders, p \in PaymentIds, basis \in {"requested", "delivered"} :
         CreateInvoice(o, p, basis)
    \/ \E s \in Sessions, o \in Orders, a \in Amounts, k \in Keys \cup {NoKey} :
         RecordBegin(s, o, a, k)
    \/ \E s \in Sessions, p \in PaymentIds : "cancel" \in Ops /\ CancelBegin(s, p)
    \/ \E o \in Orders :
         /\ "edit" \in Ops
         /\ \/ \E s \in Sessions, a \in Prices : EditFinal(s, o, a)
            \/ \E a \in Prices \cup {0} : SetExpected(o, a)
            \/ \E m \in Overrides : SetOverride(o, m)
    \/ \E o \in Orders : "deliver" \in Ops /\ Deliver(o)
    \/ \E s \in Sessions : \/ RecordSum(s) \/ RecordCommit(s) \/ CancelSum(s)
                           \/ CancelCommit(s) \/ EditFinalCommit(s) \/ RollBack(s)

PaySpec == PayInit /\ [][PayNext]_payVars

-----------------------------------------------------------------------------
(* What the handlers keep true under every interleaving *)

\* Every row and open session is of its type; a payment is over an amount.
PayTypeOK ==
    /\ due \in [Orders -> Due]
    /\ payments \in [PaymentIds -> Payment]
    /\ session \in [Sessions -> SessionState]

\* A key of the outbox is good for one payment, however often it is sent and
\* whatever became of that payment.
KeyPaysOnce ==
    \A k \in Keys : Cardinality({p \in PaymentIds : payments[p].key = k}) <= 1

\* Money that was recorded is not recorded over: a paid payment keeps its amount
\* and its key until it is cancelled, and a cancelled one never comes back, though
\* records and cancellations of one invoice overlap.  (A record that waits for an
\* invoice and the cancellation that holds it wait for each other: one is aborted.)
PaidIsKept ==
    [][\A p \in PaymentIds :
         /\ payments[p].state = "paid" =>
              \/ payments'[p] = payments[p]
              \/ payments'[p] = [payments[p] EXCEPT !.state = "cancelled"]
         /\ payments[p].state = "cancelled" => payments'[p] = payments[p]]_payVars

\* After a payment is recorded, the stored status is that of the payments, and a
\* paid order is not held back, whatever was stored before and whatever else is in
\* progress: records of one order do not overlap, and what a record has read of the
\* order and summed of its payments is still so when it commits.
RecordSettles ==
    [][\A s \in Sessions, o \in Orders :
         session[s].op = "recorded" /\ session[s].order = o /\ RecordCommit(s) =>
           /\ Agrees(o)'
           /\ due'[o].status \in {"paid", "overpaid"} => due'[o].override # "hold"]_payVars
=============================================================================
