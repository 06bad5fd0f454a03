----------------------------- MODULE PaymentsProofs -----------------------------
(***************************************************************************)
(* Proofs about Payments for any number of orders, payments, sessions and  *)
(* keys and any amounts.  PayInv is about the locks of the rows and the    *)
(* claims of the keys; SettleInv, on top of it, about the types and about  *)
(* what a record has read, so about the sums of the payments of an order.  *)
(***************************************************************************)
EXTENDS MCPayments, FiniteSums

-----------------------------------------------------------------------------
(* The inductive invariant *)

PaymentRow(r) == r = [state |-> r.state, order |-> r.order, amount |-> r.amount, key |-> r.key]

TablesOK ==
    /\ payments = [p \in PaymentIds |-> payments[p]]
    /\ \A p \in PaymentIds : PaymentRow(payments[p])
    /\ session = [s \in Sessions |-> session[s]]

Recording(s) == session[s].op \in {"record", "recorded"}

\* The invoice that a record has locked is pending, and nobody else has it locked.
InvoiceHeld ==
    \A s \in Sessions : session[s].op = "recorded" /\ session[s].pick # NoPayment =>
        /\ session[s].pick \in PaymentIds
        /\ payments[session[s].pick].state = "pending"
        /\ \A x \in Sessions \ {s} :
               /\ session[x].op = "recorded"  => session[x].pick # session[s].pick
               /\ session[x].op = "cancelled" => session[x].payment # session[s].pick

\* What is being cancelled has been there since it was read.
CancelsRow ==
    \A s \in Sessions : session[s].op \in {"cancel", "cancelled"} =>
        session[s].payment \in PaymentIds /\ payments[session[s].payment].state # "none"

\* A key is on one payment, or claimed by one session, and not both.
KeysApart ==
    /\ \A p, q \in PaymentIds : payments[p].key = payments[q].key /\ payments[p].key # NoKey => p = q
    /\ \A s \in Sessions : Recording(s) /\ session[s].key # NoKey =>
           /\ \A p \in PaymentIds : payments[p].key # session[s].key
           /\ \A x \in Sessions \ {s} : Recording(x) => session[x].key # session[s].key

PayInv == TablesOK /\ InvoiceHeld /\ CancelsRow /\ KeysApart

\* The property of PaidIsKept, of one step.
Kept ==
    \A p \in PaymentIds :
        /\ payments[p].state = "paid" =>
             \/ payments'[p] = payments[p]
             \/ payments'[p] = [payments[p] EXCEPT !.state = "cancelled"]
        /\ payments[p].state = "cancelled" => payments'[p] = payments[p]

-----------------------------------------------------------------------------
(* The shapes of a step *)

\* A step that writes no payment, and moves one session.
LEMMA SessionMoves ==
    ASSUME PayInv, NEW s \in Sessions, UNCHANGED payments,
           session' = [session EXCEPT ![s] = session'[s]],
           session'[s].op = "recorded" /\ session'[s].pick # NoPayment =>
               /\ session'[s].pick \in PaymentIds
               /\ payments[session'[s].pick].state = "pending"
               /\ PaymentFree(s, session'[s].pick),
           session'[s].op \in {"cancel", "cancelled"} =>
               /\ session'[s].payment \in PaymentIds
               /\ payments[session'[s].payment].state # "none",
           session'[s].op = "cancelled" => PaymentFree(s, session'[s].payment),
           session'[s].op \in {"record", "recorded"} =>
               \/ Recording(s) /\ session'[s].key = session[s].key
               \/ KeyFree(session'[s].key)
    PROVE  PayInv' /\ Kept
  <1>1. \A x \in Sessions \ {s} : session'[x] = session[x]
    BY DEF PayInv, TablesOK
  <1>2. TablesOK'
    BY DEF PayInv, TablesOK, PaymentRow
  <1>3. InvoiceHeld'
    BY <1>1 DEF PayInv, InvoiceHeld, PaymentFree
  <1>4. CancelsRow'
    BY <1>1 DEF PayInv, CancelsRow
  <1>5. KeysApart'
    <2> SUFFICES ASSUME NEW x \in Sessions, Recording(x)', session'[x].key # NoKey
                 PROVE  /\ \A p \in PaymentIds : payments[p].key # session'[x].key
                        /\ \A y \in Sessions \ {x} : Recording(y)' => session'[y].key # session'[x].key
      BY DEF PayInv, KeysApart, Recording
    <2>1. CASE x = s
      BY <1>1, <2>1 DEF PayInv, KeysApart, Recording, KeyFree
    <2>2. CASE x # s
      BY <1>1, <2>2 DEF PayInv, KeysApart, Recording, KeyFree
    <2> QED BY <2>1, <2>2
  <1>6. Kept
    BY DEF Kept
  <1> QED BY <1>2, <1>3, <1>4, <1>5, <1>6 DEF PayInv

\* A step that writes no payment, and closes sessions or leaves them as they are.
LEMMA NothingRecorded ==
    ASSUME PayInv, UNCHANGED payments,
           \/ UNCHANGED session
           \/ \E s \in Sessions : Goes(s, Idle)
    PROVE  PayInv' /\ Kept
  <1>1. CASE UNCHANGED session
    BY <1>1 DEF PayInv, TablesOK, PaymentRow, InvoiceHeld, CancelsRow, KeysApart, Recording, Kept
  <1>2. ASSUME NEW s \in Sessions, Goes(s, Idle) PROVE PayInv' /\ Kept
    <2>1. session' = [session EXCEPT ![s] = session'[s]] /\ session'[s].op = "idle"
      BY <1>2 DEF Goes, Idle, PayInv, TablesOK
    <2> QED BY <2>1, SessionMoves
  <1> QED BY <1>1, <1>2

\* A step that writes one payment, and closes the session that wrote it.
LEMMA PaymentMoves ==
    ASSUME PayInv, NEW p \in PaymentIds, PaymentRow(payments'[p]),
           payments' = [payments EXCEPT ![p] = payments'[p]],
           session' = [x \in Sessions |-> session'[x]],
           \A x \in Sessions : session'[x] \in {session[x], Idle},
           payments[p].state # "none" => payments'[p].state # "none",
           \A x \in Sessions : session'[x].op = "recorded" => session[x].pick # p,
           \/ payments'[p].key \in {payments[p].key, NoKey}
           \/ \E s \in Sessions : Recording(s) /\ session[s].key = payments'[p].key /\ session'[s] = Idle,
           payments[p].state = "paid" => payments'[p] = [payments[p] EXCEPT !.state = "cancelled"],
           payments[p].state = "cancelled" => payments'[p] = payments[p]
    PROVE  PayInv' /\ Kept
  <1>1. \A q \in PaymentIds \ {p} : payments'[q] = payments[q]
    BY DEF PayInv, TablesOK
  <1>2. \A x \in Sessions : session'[x].op # "idle" => session'[x] = session[x]
    BY DEF Idle
  <1>3. TablesOK'
    <2>1. payments' = [q \in PaymentIds |-> payments'[q]]
      BY DEF PayInv, TablesOK
    <2>2. \A q \in PaymentIds : PaymentRow(payments'[q])
      BY <1>1 DEF PayInv, TablesOK, PaymentRow
    <2> QED BY <2>1, <2>2 DEF TablesOK, PaymentRow
  <1>4. InvoiceHeld'
    BY <1>1, <1>2 DEF PayInv, InvoiceHeld
  <1>5. CancelsRow'
    BY <1>1, <1>2 DEF PayInv, CancelsRow
  <1>6. KeysApart'
    <2>1. ASSUME payments'[p].key \in {payments[p].key, NoKey} PROVE KeysApart'
      <3>1. \A q \in PaymentIds : payments'[q].key \in {payments[q].key, NoKey}
        BY <1>1, <2>1
      <3>2. \A x \in Sessions : Recording(x)' => session'[x] = session[x] /\ Recording(x)
        BY <1>2 DEF Recording
      <3>3. \A q, r \in PaymentIds : payments'[q].key = payments'[r].key /\ payments'[q].key # NoKey => q = r
        BY <3>1 DEF PayInv, KeysApart
      <3>4. ASSUME NEW x \in Sessions, Recording(x)', session'[x].key # NoKey
            PROVE  /\ \A q \in PaymentIds : payments'[q].key # session'[x].key
                   /\ \A y \in Sessions \ {x} : Recording(y)' => session'[y].key # session'[x].key
        BY <3>1, <3>2, <3>4 DEF PayInv, KeysApart
      <3> QED BY <3>3, <3>4 DEF KeysApart, Recording
    <2>2. ASSUME NEW s \in Sessions, Recording(s), session[s].key = payments'[p].key, session'[s] = Idle
          PROVE  KeysApart'
      <3>1. session'[s].op = "idle"
        BY <2>2 DEF Idle
      <3>2. CASE session[s].key = NoKey
        BY <2>1, <2>2, <3>2
      <3>3. CASE session[s].key # NoKey
        <4>1. /\ \A q \in PaymentIds : payments[q].key # payments'[p].key
              /\ \A x \in Sessions \ {s} : Recording(x) => session[x].key # payments'[p].key
          BY <2>2, <3>3 DEF PayInv, KeysApart
        <4> QED BY <1>1, <1>2, <2>2, <3>1, <4>1 DEF PayInv, KeysApart, Recording
      <3> QED BY <3>2, <3>3
    <2> QED BY <2>1, <2>2
  <1>7. Kept
    BY <1>1 DEF Kept
  <1> QED BY <1>3, <1>4, <1>5, <1>6, <1>7 DEF PayInv

-----------------------------------------------------------------------------
(* The actions *)

\* Before the first request there are no payments and no keys.
LEMMA InitHolds == PayInit => PayInv
  <1> SUFFICES ASSUME PayInit PROVE PayInv
    OBVIOUS
  <1> DEFINE o == CHOOSE x \in Orders : TRUE
  <1>1. payments = [p \in PaymentIds |-> [state |-> "none", order |-> o, amount |-> 0, key |-> NoKey]]
    BY DEF PayInit
  <1>2. session = [s \in Sessions |-> Idle] /\ \A s \in Sessions : session[s].op = "idle"
    BY DEF PayInit, Idle
  <1> HIDE DEF o
  <1> QED BY <1>1, <1>2 DEF PayInv, TablesOK, PaymentRow, InvoiceHeld, CancelsRow, KeysApart, Recording

\* An invoice is a new payment without a key.
LEMMA CreateInvoiceKeeps ==
    ASSUME PayInv, NEW o \in Orders, NEW p \in PaymentIds, NEW basis, CreateInvoice(o, p, basis)
    PROVE  PayInv' /\ Kept
  <1> DEFINE amount == IF basis = "delivered" THEN due[o].final ELSE due[o].expected
  <1>1. payments'[p] = [state |-> "pending", order |-> o, amount |-> amount, key |-> NoKey]
    BY DEF CreateInvoice, PayInv, TablesOK
  <1>2. payments' = [payments EXCEPT ![p] = payments'[p]] /\ UNCHANGED session /\ payments[p].state = "none"
    BY <1>1 DEF CreateInvoice, IsNext
  <1> HIDE DEF amount
  <1>3. PaymentRow(payments'[p]) /\ payments'[p].state = "pending" /\ payments'[p].key = NoKey
    BY <1>1 DEF PaymentRow
  <1>4. \A x \in Sessions : session'[x].op = "recorded" => session[x].pick # p
    BY <1>2, NoPaymentAssumption DEF PayInv, InvoiceHeld
  <1>5. session' = [x \in Sessions |-> session'[x]] /\ \A x \in Sessions : session'[x] \in {session[x], Idle}
    BY <1>2 DEF PayInv, TablesOK
  <1> QED BY <1>2, <1>3, <1>4, <1>5, PaymentMoves

\* A request that begins has read a payment that is there, or claims a key of its own.
LEMMA BeginKeeps ==
    ASSUME PayInv, NEW s \in Sessions,
           \/ \E o \in Orders, a \in Amounts, k \in Keys \cup {NoKey} : RecordBegin(s, o, a, k)
           \/ \E p \in PaymentIds : CancelBegin(s, p)
           \/ \E o \in Orders, a \in Prices : EditFinal(s, o, a)
    PROVE  PayInv' /\ Kept
  <1>0. session = [x \in Sessions |-> session[x]]
    BY DEF PayInv, TablesOK
  <1>1. ASSUME NEW o \in Orders, NEW a \in Amounts, NEW k \in Keys \cup {NoKey}, RecordBegin(s, o, a, k)
        PROVE  PayInv' /\ Kept
    <2>1. /\ session' = [session EXCEPT ![s] = session'[s]] /\ UNCHANGED payments
          /\ session'[s].op = "record" /\ session'[s].key = k /\ KeyFree(k)
      BY <1>0, <1>1 DEF RecordBegin, Opens
    <2> QED BY <2>1, SessionMoves
  <1>2. ASSUME NEW p \in PaymentIds, CancelBegin(s, p)
        PROVE  PayInv' /\ Kept
    <2>1. /\ session' = [session EXCEPT ![s] = session'[s]] /\ UNCHANGED payments
          /\ session'[s].op = "cancel" /\ session'[s].payment = p /\ payments[p].state # "none"
      BY <1>0, <1>2 DEF CancelBegin, Opens
    <2> QED BY <2>1, SessionMoves
  <1>3. ASSUME NEW o \in Orders, NEW a \in Prices, EditFinal(s, o, a)
        PROVE  PayInv' /\ Kept
    <2>1. /\ session' = [session EXCEPT ![s] = session'[s]] /\ UNCHANGED payments
          /\ session'[s].op = "final"
      BY <1>0, <1>3 DEF EditFinal, Opens
    <2> QED BY <2>1, SessionMoves
  <1> QED BY <1>1, <1>2, <1>3

\* The flush of a record takes the lock of a pending invoice that nobody holds.
LEMMA RecordSumKeeps ==
    ASSUME PayInv, NEW s \in Sessions, RecordSum(s)
    PROVE  PayInv' /\ Kept
  <1> DEFINE me   == session[s]
             pick == IF me.pick # NoPayment /\ me.pick \in Pending(me.order) THEN me.pick ELSE NoPayment
  <1>1. /\ session' = [session EXCEPT ![s] = session'[s]] /\ UNCHANGED payments
        /\ session'[s] = RecordedWith(me, pick)
        /\ Recording(s) /\ (me.pick # NoPayment => PaymentFree(s, me.pick))
    BY DEF RecordSum, Goes, Recording, PayInv, TablesOK
  <1>2. session'[s].op = "recorded" /\ session'[s].key = me.key /\ session'[s].pick = pick
    BY <1>1 DEF RecordedWith
  <1>3. pick # NoPayment => /\ pick \in PaymentIds /\ payments[pick].state = "pending"
                            /\ PaymentFree(s, pick)
    BY <1>1 DEF Pending
  <1> HIDE DEF pick
  <1> QED BY <1>1, <1>2, <1>3, SessionMoves

\* The flush of a cancellation takes the lock of its payment.
LEMMA CancelSumKeeps ==
    ASSUME PayInv, NEW s \in Sessions, CancelSum(s)
    PROVE  PayInv' /\ Kept
  <1>1. /\ session' = [session EXCEPT ![s] = session'[s]] /\ UNCHANGED payments
        /\ session'[s].op = "cancelled" /\ session'[s].payment = session[s].payment
        /\ PaymentFree(s, session[s].payment) /\ session[s].op = "cancel"
    BY DEF CancelSum, Goes, PayInv, TablesOK
  <1>2. session[s].payment \in PaymentIds /\ payments[session[s].payment].state # "none"
    BY <1>1 DEF PayInv, CancelsRow
  <1> QED BY <1>1, <1>2, SessionMoves

\* A session that closes leaves the others as they are.
LEMMA Closed ==
    ASSUME PayInv, NEW s \in Sessions, Goes(s, Idle)
    PROVE  /\ session' = [x \in Sessions |-> session'[x]] /\ session'[s] = Idle /\ session'[s].op = "idle"
           /\ \A x \in Sessions \ {s} : session'[x] = session[x]
           /\ \A x \in Sessions : session'[x] \in {session[x], Idle}
  BY DEF PayInv, TablesOK, Goes, Idle

\* The record settles the invoice that it holds, or adds a payment.
LEMMA RecordCommitKeeps ==
    ASSUME PayInv, NEW s \in Sessions, RecordCommit(s)
    PROVE  PayInv' /\ Kept
  <1> DEFINE me == session[s]
  <1>1. PICK p \in PaymentIds :
            /\ IF me.pick = NoPayment THEN IsNext(p) ELSE p = me.pick
            /\ payments' = [payments EXCEPT ![p] =
                   [state |-> "paid", order |-> me.order, amount |-> me.amount, key |-> me.key]]
    BY DEF RecordCommit
  <1>2. me.op = "recorded" /\ Goes(s, Idle) /\ Recording(s)
    BY DEF RecordCommit, Recording
  <1>3. payments'[p] = [state |-> "paid", order |-> me.order, amount |-> me.amount, key |-> me.key]
    BY <1>1 DEF PayInv, TablesOK
  <1>4. PaymentRow(payments'[p]) /\ payments'[p].state = "paid" /\ payments'[p].key = me.key
    BY <1>3 DEF PaymentRow
  <1>5. payments[p].state \in {"none", "pending"}
    BY <1>1, <1>2 DEF IsNext, PayInv, InvoiceHeld
  <1>6. \A x \in Sessions : session'[x].op = "recorded" => session[x].pick # p
    <2>1. CASE me.pick = NoPayment
      <3>1. payments[p].state = "none"
        BY <1>1, <2>1 DEF IsNext
      <3> QED BY <1>2, <3>1, Closed, NoPaymentAssumption DEF PayInv, InvoiceHeld
    <2>2. CASE me.pick # NoPayment
      BY <1>1, <1>2, <2>2, Closed DEF PayInv, InvoiceHeld
    <2> QED BY <2>1, <2>2
  <1>7. payments' = [payments EXCEPT ![p] = payments'[p]]
    BY <1>1, <1>3
  <1> QED BY <1>2, <1>4, <1>5, <1>6, <1>7, Closed, PaymentMoves

\* A cancellation writes its own payment, which it holds.
LEMMA CancelCommitKeeps ==
    ASSUME PayInv, NEW s \in Sessions, CancelCommit(s)
    PROVE  PayInv' /\ Kept
  <1> DEFINE p == session[s].payment
  <1>1. /\ session[s].op = "cancelled" /\ Goes(s, Idle)
        /\ payments' = [payments EXCEPT ![p].state = "cancelled"]
    BY DEF CancelCommit
  <1>2. p \in PaymentIds /\ PaymentRow(payments[p])
    BY <1>1 DEF PayInv, CancelsRow, TablesOK
  <1>3. payments'[p] = [payments[p] EXCEPT !.state = "cancelled"] /\ payments' = [payments EXCEPT ![p] = payments'[p]]
    BY <1>1, <1>2 DEF PayInv, TablesOK
  <1>4. /\ PaymentRow(payments'[p]) /\ payments'[p].state = "cancelled" /\ payments'[p].key = payments[p].key
        /\ payments[p].state = "cancelled" => payments'[p] = payments[p]
    BY <1>2, <1>3 DEF PaymentRow
  <1>5. \A x \in Sessions : session'[x].op = "recorded" => session[x].pick # p
    BY <1>1, <1>2, Closed, NoPaymentAssumption DEF PayInv, InvoiceHeld
  <1> HIDE DEF p
  <1> QED BY <1>1, <1>2, <1>3, <1>4, <1>5, Closed, PaymentMoves

\* Every step keeps the invariant and what was paid.
LEMMA PayStep == PayInv /\ [PayNext]_payVars => PayInv' /\ Kept
  <1> SUFFICES ASSUME PayInv, [PayNext]_payVars PROVE PayInv' /\ Kept
    OBVIOUS
  <1>1. ASSUME NEW s \in Sessions,
               \/ RecordSum(s) \/ RecordCommit(s) \/ CancelSum(s)
               \/ CancelCommit(s) \/ EditFinalCommit(s) \/ RollBack(s)
        PROVE  PayInv' /\ Kept
    <2>1. CASE EditFinalCommit(s) \/ RollBack(s)
      BY <2>1, NothingRecorded DEF EditFinalCommit, RollBack
    <2> QED BY <1>1, <2>1, RecordSumKeeps, RecordCommitKeeps, CancelSumKeeps, CancelCommitKeeps
  <1>2. ASSUME NEW o \in Orders,
               \/ \E a \in Prices \cup {0} : SetExpected(o, a)
               \/ \E m \in Overrides : SetOverride(o, m)
               \/ Deliver(o)
        PROVE  PayInv' /\ Kept
    BY <1>2, NothingRecorded DEF SetExpected, SetOverride, Deliver
  <1>3. CASE UNCHANGED payVars
    BY <1>3, NothingRecorded DEF payVars
  <1> QED BY <1>1, <1>2, <1>3, CreateInvoiceKeeps, BeginKeeps DEF PayNext

-----------------------------------------------------------------------------
(* The invariant of the status: types, and what a record has read *)

\* Records of one order do not overlap.
OneRecord ==
    \A s, x \in Sessions :
        Recording(s) /\ Recording(x) /\ session[s].order = session[x].order => s = x

\* A cancellation and a record are of the order of their payment.
OrdersFit ==
    \A s \in Sessions :
        /\ session[s].op \in {"cancel", "cancelled"} =>
               session[s].order = payments[session[s].payment].order
        /\ session[s].op = "recorded" /\ session[s].pick # NoPayment =>
               session[s].order = payments[session[s].pick].order

\* What a record means to write is what the payments and the order say now.
DraftCurrent ==
    \A s \in Sessions : session[s].op = "recorded" =>
        session[s].draft =
            Recomputed(PaidTotal(session[s].order) + session[s].amount, due[session[s].order])

SettleInv == PayTypeOK /\ OneRecord /\ OrdersFit /\ DraftCurrent

\* The status is one of four, and a hold is not made by computing it.
LEMMA RecomputedType ==
    ASSUME NEW total, NEW row, row.override \in Overrides
    PROVE  Recomputed(total, row) \in Cached
  <1>1. ComputePaymentStatus(total, row) \in PaymentStatuses
    BY DEF ComputePaymentStatus, PaymentStatuses
  <1>2. "auto" \in Overrides
    BY OverridesAssumption
  <1> QED BY <1>1, <1>2 DEF Recomputed, Cached

\* Writing the cached columns leaves the amounts alone.
LEMMA WriteBackType ==
    ASSUME NEW row \in Due, NEW read, NEW draft \in Cached
    PROVE  /\ WriteBack(row, read, draft) \in Due
           /\ WriteBack(row, read, draft).final = row.final
           /\ WriteBack(row, read, draft).expected = row.expected
           /\ WriteBack(row, Current(row), draft).status = draft.status
           /\ WriteBack(row, Current(row), draft).override = draft.override
  BY DEF WriteBack, Due, Cached, Current

\* A payment that is there is of an order and over an amount.
LEMMA RowFields ==
    ASSUME NEW r \in Payment
    PROVE  /\ r.order \in Orders /\ r.amount \in Nat
           /\ r.state \in {"none", "pending", "paid", "cancelled"}
           /\ r.key \in Keys \cup {NoKey}
           /\ r.state # "none" => r.amount \in Amounts \cup Prices
  <1>0. Amounts \subseteq Nat /\ Prices \subseteq Nat
    BY AmountsAssumption
  <1>1. CASE r \in [state: {"none"}, order: Orders, amount: {0}, key: {NoKey}]
    BY <1>1
  <1>2. CASE r \in [state: {"pending", "paid", "cancelled"}, order: Orders,
                    amount: Amounts \cup Prices, key: Keys \cup {NoKey}]
    BY <1>0, <1>2
  <1> QED BY <1>1, <1>2 DEF Payment

\* What the type of a payment says of its fields.
LEMMA PaymentFields ==
    ASSUME PayTypeOK, NEW p \in PaymentIds
    PROVE  /\ payments[p] \in Payment /\ payments[p].order \in Orders /\ payments[p].amount \in Nat
           /\ payments[p].state \in {"none", "pending", "paid", "cancelled"}
           /\ payments[p].key \in Keys \cup {NoKey}
           /\ payments[p].state # "none" => payments[p].amount \in Amounts \cup Prices
           /\ PaidAmount(p) \in Nat
  <1>1. payments[p] \in Payment
    BY DEF PayTypeOK
  <1> QED BY <1>1, RowFields DEF PaidAmount

\* The fields of a session of each kind.
LEMMA SessionFields ==
    ASSUME PayTypeOK, NEW s \in Sessions
    PROVE  /\ session[s] \in SessionState
           /\ session[s].op \in {"idle", "record", "recorded", "cancel", "cancelled", "final"}
           /\ session[s].op = "idle" <=> session[s] = Idle
           /\ session[s] # Idle => session[s].order \in Orders
           /\ Recording(s) => /\ session[s].amount \in Amounts /\ session[s].key \in Keys \cup {NoKey}
                              /\ session[s].pick \in PaymentIds \cup {NoPayment}
           /\ session[s].op = "recorded" => session[s].draft \in Cached
           /\ session[s].op \in {"cancel", "cancelled"} => session[s].payment \in PaymentIds
           /\ session[s].op \in {"cancel", "final"} => session[s].snap \in Due
           /\ session[s].op = "cancelled" => session[s].snap \in Cached /\ session[s].draft \in Cached
           /\ session[s].op = "final" => session[s].price \in Prices
  <1>1. session[s] \in SessionState
    BY DEF PayTypeOK
  <1>2. CASE session[s] = Idle
    BY <1>1, <1>2 DEF Idle, Recording
  <1>3. CASE session[s] # Idle
    <2>1. session[s].op \in {"record", "recorded", "cancel", "cancelled", "final"}
      BY <1>1, <1>3 DEF SessionState
    <2>2. session[s].op = "record" \/ session[s].op = "recorded" =>
              /\ session[s].order \in Orders
              /\ session[s].amount \in Amounts /\ session[s].key \in Keys \cup {NoKey}
              /\ session[s].pick \in PaymentIds \cup {NoPayment}
      BY <1>1, <1>3 DEF SessionState
    <2>3. session[s].op = "recorded" => session[s].draft \in Cached
      BY <1>1, <1>3 DEF SessionState
    <2>4. session[s].op \in {"cancel", "cancelled"} =>
              session[s].order \in Orders /\ session[s].payment \in PaymentIds
      BY <1>1, <1>3 DEF SessionState
    <2>5. session[s].op = "cancel" => session[s].snap \in Due
      BY <1>1, <1>3 DEF SessionState
    <2>6. session[s].op = "cancelled" => session[s].snap \in Cached /\ session[s].draft \in Cached
      BY <1>1, <1>3 DEF SessionState
    <2>7. session[s].op = "final" =>
              session[s].order \in Orders /\ session[s].price \in Prices /\ session[s].snap \in Due
      BY <1>1, <1>3 DEF SessionState
    <2> QED BY <1>1, <1>3, <2>1, <2>2, <2>3, <2>4, <2>5, <2>6, <2>7 DEF Recording, Idle
  <1> QED BY <1>2, <1>3

\* The sum of the payments of an order that nobody has written is what it was.
LEMMA TotalKept ==
    ASSUME NEW o, \A p \in PaymentIds :
               \/ payments'[p] = payments[p]
               \/ /\ payments[p].order # o \/ payments[p].state # "paid"
                  /\ payments'[p].order # o
    PROVE  PaidTotal(o)' = PaidTotal(o)
  <1>1. PaidFor(o)' = PaidFor(o)
    <2>1. \A p \in PaymentIds : (IF payments'[p].order = o THEN PaidAmount(p)' ELSE 0)
                              = (IF payments[p].order = o THEN PaidAmount(p) ELSE 0)
      BY DEF PaidAmount
    <2> QED BY <2>1 DEF PaidFor
  <1> QED BY <1>1 DEF PaidTotal

\* A payment of the order that was not paid and is now adds its amount to the sum.
LEMMA TotalGrows ==
    ASSUME PayTypeOK, NEW p \in PaymentIds, NEW row \in Payment, row.state = "paid",
           payments[p].state # "paid", payments' = [payments EXCEPT ![p] = row]
    PROVE  PaidTotal(row.order)' = PaidTotal(row.order) + row.amount
  <1> DEFINE f == [q \in PaymentIds |-> IF payments[q].order = row.order THEN PaidAmount(q) ELSE 0]
             g == [q \in PaymentIds |-> IF payments'[q].order = row.order THEN PaidAmount(q)' ELSE 0]
  <1>1. /\ payments'[p] = row
        /\ \A q \in PaymentIds \ {p} : payments'[q] = payments[q]
    BY DEF PayTypeOK
  <1>2. \A q \in PaymentIds : PaidAmount(q) \in Nat
    BY PaymentFields
  <1>3. PaidAmount(p)' = row.amount /\ row.amount \in Nat /\ PaidAmount(p) = 0
    BY <1>1, RowFields DEF PaidAmount
  <1>4. \A q \in PaymentIds \ {p} : PaidAmount(q)' = PaidAmount(q)
    BY <1>1 DEF PaidAmount
  <1>5. \A q \in PaymentIds : f[q] \in Int /\ g[q] \in Int
    BY <1>2, <1>3, <1>4
  <1>6. \A q \in PaymentIds \ {p} : f[q] = g[q]
    BY <1>1, <1>4
  <1>7. f[p] = 0 /\ g[p] = row.amount
    BY <1>1, <1>3
  <1>8. PaidTotal(row.order) = SumFunctionOnSet(f, PaymentIds) /\ PaidTotal(row.order)' = SumFunctionOnSet(g, PaymentIds)
    BY DEF PaidTotal, PaidFor
  <1> HIDE DEF f, g
  <1>9. SumFunctionOnSet(g, PaymentIds) = SumFunctionOnSet(f, PaymentIds) + (g[p] - f[p])
    BY <1>5, <1>6, SumMoves, PaymentIdsAssumption
  <1>10. SumFunctionOnSet(f, PaymentIds) \in Int
    BY <1>5, SumType, PaymentIdsAssumption
  <1> QED BY <1>3, <1>7, <1>8, <1>9, <1>10

\* The same of the next state, one record at a time.
LEMMA DraftCurrentNext ==
    ASSUME \A x \in Sessions : \A q : session'[x].op = "recorded" /\ q = session'[x].order =>
               session'[x].draft = Recomputed(PaidTotal(q)' + session'[x].amount, due'[q])
    PROVE  DraftCurrent'
  BY DEF DraftCurrent, PaidTotal, PaidFor, PaidAmount, Recomputed, ComputePaymentStatus, Target

\* The records that go on are of orders that the step leaves alone.
LEMMA DraftsKept ==
    ASSUME SettleInv, NEW o,
           \A q \in Orders \ {o} : due'[q] = due[q],
           \A p \in PaymentIds : \/ payments'[p] = payments[p]
                                 \/ /\ payments[p].order = o \/ payments[p].state # "paid"
                                    /\ payments'[p].order = o,
           \A x \in Sessions : session'[x].op = "recorded" =>
               session'[x] = session[x] /\ session[x].order # o
    PROVE  DraftCurrent'
  <1>1. ASSUME NEW x \in Sessions, session'[x].op = "recorded", NEW q, q = session'[x].order
        PROVE  session'[x].draft = Recomputed(PaidTotal(q)' + session'[x].amount, due'[q])
    <2>1. session'[x] = session[x] /\ session[x].op = "recorded" /\ q = session[x].order /\ q # o
      BY <1>1
    <2>2. q \in Orders
      BY <2>1, SessionFields DEF SettleInv, Idle
    <2>3. PaidTotal(q)' = PaidTotal(q) /\ due'[q] = due[q]
      BY <2>1, <2>2, TotalKept
    <2>4. session[x].draft = Recomputed(PaidTotal(q) + session[x].amount, due[q])
      BY <2>1 DEF SettleInv, DraftCurrent
    <2> QED BY <2>1, <2>3, <2>4
  <1> QED BY <1>1, DraftCurrentNext

\* A step that writes neither table, and moves one session.
LEMMA ReadKeeps ==
    ASSUME SettleInv, NEW s \in Sessions, NEW st \in SessionState, Goes(s, st),
           UNCHANGED <<due, payments>>,
           st.op \in {"record", "recorded"} =>
               \/ Recording(s) /\ st.order = session[s].order
               \/ OrderFree(st.order),
           st.op \in {"cancel", "cancelled"} => st.order = payments[st.payment].order,
           st.op = "recorded" =>
               /\ st.pick # NoPayment => st.order = payments[st.pick].order
               /\ st.draft = Recomputed(PaidTotal(st.order) + st.amount, due[st.order])
    PROVE  SettleInv'
  <1>1. session'[s] = st /\ \A x \in Sessions \ {s} : session'[x] = session[x]
    BY DEF SettleInv, PayTypeOK, Goes
  <1>2. PayTypeOK'
    BY DEF SettleInv, PayTypeOK, Goes
  <1>3. OneRecord'
    BY <1>1 DEF SettleInv, OneRecord, Recording, OrderFree
  <1>4. OrdersFit'
    BY <1>1 DEF SettleInv, OrdersFit
  <1>5. DraftCurrent'
    <2>1. \A q : PaidTotal(q)' = PaidTotal(q)
      BY TotalKept
    <2>2. ASSUME NEW x \in Sessions, NEW q, session'[x].op = "recorded", q = session'[x].order
          PROVE  session'[x].draft = Recomputed(PaidTotal(q)' + session'[x].amount, due'[q])
      <3>1. CASE x = s
        BY <1>1, <2>1, <2>2, <3>1
      <3>2. CASE x # s
        BY <1>1, <2>1, <2>2, <3>2 DEF SettleInv, DraftCurrent
      <3> QED BY <3>1, <3>2
    <2> QED BY <2>2, DraftCurrentNext
  <1> QED BY <1>2, <1>3, <1>4, <1>5 DEF SettleInv

\* A step that writes the row or the payments of an order that no record goes on with.
LEMMA WriteKeeps ==
    ASSUME PayInv, SettleInv, NEW o \in Orders,
           due' \in [Orders -> Due], payments' \in [PaymentIds -> Payment],
           \A q \in Orders \ {o} : due'[q] = due[q],
           \A p \in PaymentIds : \/ payments'[p] = payments[p]
                                 \/ /\ payments[p].order = o \/ payments[p].state = "none"
                                    /\ payments'[p].order = o,
           session' = [x \in Sessions |-> session'[x]],
           \A x \in Sessions : session'[x] \in {session[x], Idle},
           \A x \in Sessions : session'[x].op = "recorded" => session[x].order # o
    PROVE  SettleInv'
  <1>1. \A x \in Sessions : session'[x].op # "idle" => session'[x] = session[x]
    BY DEF Idle
  <1>2. PayTypeOK'
    BY DEF SettleInv, PayTypeOK, SessionState
  <1>3. OneRecord'
    BY <1>1 DEF SettleInv, OneRecord, Recording
  <1>4. OrdersFit'
    <2>1. \A p \in PaymentIds : payments[p].state # "none" => payments'[p].order = payments[p].order
      OBVIOUS
    <2> QED BY <1>1, <2>1 DEF PayInv, CancelsRow, InvoiceHeld, SettleInv, OrdersFit
  <1>5. DraftCurrent'
    BY <1>1, DraftsKept
  <1> QED BY <1>2, <1>3, <1>4, <1>5 DEF SettleInv

\* Before the first request nothing is stored but the orders.
LEMMA SettleInit == PayInit => SettleInv
  <1> SUFFICES ASSUME PayInit PROVE SettleInv
    OBVIOUS
  <1> DEFINE o == CHOOSE x \in Orders : TRUE
  <1>1. o \in Orders
    BY OrdersAssumption
  <1>2. payments = [p \in PaymentIds |-> [state |-> "none", order |-> o, amount |-> 0, key |-> NoKey]]
    BY DEF PayInit
  <1> HIDE DEF o
  <1>3. session = [s \in Sessions |-> Idle] /\ \A s \in Sessions : session[s].op = "idle"
    BY DEF PayInit, Idle
  <1>4. due \in [Orders -> Due]
    BY DEF PayInit, Due, PaymentStatuses
  <1>5. PayTypeOK
    BY <1>1, <1>2, <1>3, <1>4 DEF PayTypeOK, Payment, SessionState
  <1> QED BY <1>3, <1>5 DEF SettleInv, OneRecord, OrdersFit, DraftCurrent, Recording

\* What a request reads, and what it sums.
LEMMA SettleReads ==
    ASSUME PayInv, SettleInv, NEW s \in Sessions,
           \/ \E o \in Orders, a \in Amounts, k \in Keys \cup {NoKey} : RecordBegin(s, o, a, k)
           \/ \E p \in PaymentIds : CancelBegin(s, p)
           \/ \E o \in Orders, a \in Prices : EditFinal(s, o, a)
           \/ RecordSum(s) \/ CancelSum(s) \/ RollBack(s)
    PROVE  SettleInv'
  <1>1. ASSUME NEW o \in Orders, NEW a \in Amounts, NEW k \in Keys \cup {NoKey}, RecordBegin(s, o, a, k)
        PROVE  SettleInv'
    <2> DEFINE pick == IF Pending(o) = {} THEN NoPayment ELSE Max(Pending(o))
               st   == [op |-> "record", order |-> o, amount |-> a, key |-> k, pick |-> pick]
    <2>1. pick \in PaymentIds \cup {NoPayment}
      <3>1. Pending(o) \in SUBSET PaymentIds
        BY DEF Pending
      <3>2. ASSUME Pending(o) # {} PROVE Max(Pending(o)) \in Pending(o)
        <4>1. \E n \in Pending(o) : \A m \in Pending(o) : n >= m
          BY <3>1, <3>2, Greatest, PaymentIdsAssumption, FS_Subset
        <4> QED BY <4>1 DEF Max
      <3> QED BY <3>1, <3>2
    <2> HIDE DEF pick
    <2>2. st \in SessionState /\ st.op = "record" /\ st.order = o
      BY <2>1 DEF SessionState
    <2>3. Goes(s, st) /\ OrderFree(o) /\ UNCHANGED <<due, payments>>
      BY <1>1 DEF RecordBegin, Opens, Goes, pick
    <2> HIDE DEF st
    <2> QED BY <2>2, <2>3, ReadKeeps
  <1>2. ASSUME NEW p \in PaymentIds, CancelBegin(s, p) PROVE SettleInv'
    <2> DEFINE o  == payments[p].order
               st == [op |-> "cancel", order |-> o, payment |-> p, snap |-> due[o]]
    <2>1. o \in Orders /\ due[o] \in Due
      BY PaymentFields DEF SettleInv, PayTypeOK
    <2>2. st \in SessionState /\ st.op = "cancel" /\ st.order = payments[st.payment].order
      BY <2>1 DEF SessionState
    <2>3. Goes(s, st) /\ UNCHANGED <<due, payments>>
      BY <1>2 DEF CancelBegin, Opens, Goes
    <2> HIDE DEF st
    <2> QED BY <2>2, <2>3, ReadKeeps
  <1>3. ASSUME NEW o \in Orders, NEW a \in Prices, EditFinal(s, o, a) PROVE SettleInv'
    <2> DEFINE st == [op |-> "final", order |-> o, snap |-> due[o], price |-> a]
    <2>1. st \in SessionState /\ st.op = "final"
      BY DEF SessionState, SettleInv, PayTypeOK
    <2>2. Goes(s, st) /\ UNCHANGED <<due, payments>>
      BY <1>3 DEF EditFinal, Opens, Goes
    <2> HIDE DEF st
    <2> QED BY <2>1, <2>2, ReadKeeps
  <1>4. ASSUME RecordSum(s) PROVE SettleInv'
    <2> DEFINE me   == session[s]
               pick == IF me.pick # NoPayment /\ me.pick \in Pending(me.order) THEN me.pick ELSE NoPayment
               st   == RecordedWith(me, pick)
    <2>1. me.op = "record" /\ Goes(s, st) /\ UNCHANGED <<due, payments>> /\ Recording(s)
      BY <1>4 DEF RecordSum, Recording
    <2>2. /\ me.order \in Orders /\ me.amount \in Amounts /\ me.key \in Keys \cup {NoKey}
          /\ pick \in PaymentIds \cup {NoPayment} /\ due[me.order] \in Due
      <3>1. me.order \in Orders /\ me.amount \in Amounts /\ me.key \in Keys \cup {NoKey}
            /\ me.pick \in PaymentIds \cup {NoPayment}
        BY <2>1, SessionFields DEF SettleInv, Idle
      <3> QED BY <3>1 DEF SettleInv, PayTypeOK
    <2>3. pick # NoPayment => payments[pick].order = me.order
      BY DEF Pending
    <2> HIDE DEF pick
    <2>4. Recomputed(PaidTotal(me.order) + me.amount, due[me.order]) \in Cached
      BY <2>2, RecomputedType DEF Due
    <2>5. st \in SessionState
      BY <2>2, <2>4 DEF SessionState, RecordedWith
    <2>6. /\ st.op = "recorded" /\ st.order = me.order /\ st.pick = pick /\ st.amount = me.amount
          /\ st.draft = Recomputed(PaidTotal(me.order) + me.amount, due[me.order])
      BY DEF RecordedWith
    <2> HIDE DEF st
    <2> QED BY <2>1, <2>3, <2>5, <2>6, ReadKeeps
  <1>5. ASSUME CancelSum(s) PROVE SettleInv'
    <2> DEFINE me == session[s]
               draft == Recomputed(PaidTotal(me.order) - PaidAmount(me.payment), me.snap)
               st == [op |-> "cancelled", order |-> me.order, payment |-> me.payment,
                      snap |-> Current(me.snap), draft |-> draft]
    <2>1. me.op = "cancel" /\ Goes(s, st) /\ UNCHANGED <<due, payments>>
      BY <1>5 DEF CancelSum
    <2>2. me.order \in Orders /\ me.payment \in PaymentIds /\ me.snap \in Due
      BY <2>1, SessionFields DEF SettleInv, Idle
    <2>3. draft \in Cached /\ Current(me.snap) \in Cached
      BY <2>2, RecomputedType DEF Due, Current, Cached
    <2> HIDE DEF draft
    <2>4. st \in SessionState /\ st.op = "cancelled" /\ st.order = me.order /\ st.payment = me.payment
      BY <2>2, <2>3 DEF SessionState
    <2>5. st.order = payments[st.payment].order
      BY <2>1, <2>4 DEF SettleInv, OrdersFit
    <2> HIDE DEF st
    <2> QED BY <2>1, <2>4, <2>5, ReadKeeps
  <1>6. ASSUME RollBack(s) PROVE SettleInv'
    <2>1. Idle \in SessionState /\ Idle.op = "idle"
      BY DEF SessionState, Idle
    <2> QED BY <1>6, <2>1, ReadKeeps DEF RollBack
  <1> QED BY <1>1, <1>2, <1>3, <1>4, <1>5, <1>6

\* What the tables say after a record: the status of the sum, and no hold if paid.
LEMMA RecordCommitSettles ==
    ASSUME PayInv, SettleInv, NEW s \in Sessions, RecordCommit(s)
    PROVE  /\ SettleInv'
           /\ \A o \in Orders : o = session[s].order =>
                  /\ Agrees(o)'
                  /\ due'[o].status \in {"paid", "overpaid"} => due'[o].override # "hold"
  <1> DEFINE me == session[s]
  <1>1. PICK p \in PaymentIds :
            /\ IF me.pick = NoPayment THEN IsNext(p) ELSE p = me.pick
            /\ payments' = [payments EXCEPT ![p] =
                   [state |-> "paid", order |-> me.order, amount |-> me.amount, key |-> me.key]]
    BY DEF RecordCommit
  <1>2. me.op = "recorded" /\ Goes(s, Idle) /\ Recording(s)
        /\ due' = [due EXCEPT ![me.order] = WriteBack(@, Current(@), me.draft)]
    BY DEF RecordCommit, Recording
  <1>3. PICK o \in Orders : o = me.order
    BY <1>2, SessionFields DEF SettleInv, Idle
  <1>4. me.amount \in Amounts /\ me.key \in Keys \cup {NoKey} /\ me.draft \in Cached
    BY <1>2, SessionFields DEF SettleInv
  <1>5. PICK row : row = [state |-> "paid", order |-> o, amount |-> me.amount, key |-> me.key]
    OBVIOUS
  <1>6. /\ row \in Payment /\ row.state = "paid" /\ row.order = o /\ row.amount = me.amount
        /\ payments' = [payments EXCEPT ![p] = row]
    BY <1>1, <1>3, <1>4, <1>5 DEF Payment
  <1>7. due[o] \in Due /\ due'[o] = WriteBack(due[o], Current(due[o]), me.draft) /\ due'[o] \in Due
        /\ due' \in [Orders -> Due] /\ \A q \in Orders \ {o} : due'[q] = due[q]
    <2>1. due[o] \in Due /\ WriteBack(due[o], Current(due[o]), me.draft) \in Due
      BY <1>4, WriteBackType DEF SettleInv, PayTypeOK
    <2> QED BY <1>2, <1>3, <2>1 DEF SettleInv, PayTypeOK
  <1>8. \/ payments[p].state = "none"
        \/ payments[p].state = "pending" /\ payments[p].order = o
    BY <1>1, <1>2, <1>3 DEF IsNext, PayInv, InvoiceHeld, SettleInv, OrdersFit
  <1>9. SettleInv'
    <2>1. payments' \in [PaymentIds -> Payment]
      BY <1>6 DEF SettleInv, PayTypeOK
    <2>2. \A q \in PaymentIds : \/ payments'[q] = payments[q]
                                \/ /\ payments[q].order = o \/ payments[q].state = "none"
                                   /\ payments'[q].order = o
      BY <1>6, <1>8 DEF SettleInv, PayTypeOK
    <2>3. \A x \in Sessions : session'[x].op = "recorded" => session[x].order # o
      BY <1>2, <1>3, Closed DEF SettleInv, OneRecord, Recording
    <2> QED BY <1>2, <1>7, <2>1, <2>2, <2>3, Closed, WriteKeeps
  <1>10. PaidTotal(o)' = PaidTotal(o) + me.amount
    BY <1>6, <1>8, TotalGrows DEF SettleInv
  <1>11. me.draft = Recomputed(PaidTotal(o) + me.amount, due[o])
    BY <1>2, <1>3 DEF SettleInv, DraftCurrent
  <1>12. /\ due'[o].status = me.draft.status /\ due'[o].override = me.draft.override
         /\ due'[o].final = due[o].final /\ due'[o].expected = due[o].expected
    BY <1>4, <1>7, WriteBackType
  <1>13. due'[o].status = ComputePaymentStatus(PaidTotal(o)', due'[o])
    BY <1>10, <1>11, <1>12 DEF Recomputed, ComputePaymentStatus, Target
  <1>14. due'[o].status \in {"paid", "overpaid"} => due'[o].override # "hold"
    BY <1>11, <1>12 DEF Recomputed
  <1>15. Agrees(o)'
    BY <1>13 DEF Agrees, ComputePaymentStatus, Target
  <1> QED BY <1>3, <1>9, <1>14, <1>15

\* A cancellation that commits finds no record of its order in progress.
LEMMA CancelCommitSettles ==
    ASSUME PayInv, SettleInv, NEW s \in Sessions, CancelCommit(s)
    PROVE  SettleInv'
  <1> DEFINE p == session[s].payment
             o == session[s].order
  <1>1. /\ session[s].op = "cancelled" /\ Goes(s, Idle) /\ OrderFree(o)
        /\ payments' = [payments EXCEPT ![p].state = "cancelled"]
        /\ due' = [due EXCEPT ![o] = WriteBack(@, session[s].snap, session[s].draft)]
    BY DEF CancelCommit
  <1>2. /\ p \in PaymentIds /\ payments[p].state # "none" /\ payments[p].order = o
        /\ o \in Orders /\ session[s].draft \in Cached
    BY <1>1, SessionFields DEF PayInv, CancelsRow, SettleInv, OrdersFit, Idle
  <1>3. [payments[p] EXCEPT !.state = "cancelled"] \in Payment
    <2>1. payments[p] \in Payment /\ payments[p].state # "none"
      BY <1>2 DEF SettleInv, PayTypeOK
    <2> QED BY <2>1 DEF Payment
  <1>4. /\ payments' \in [PaymentIds -> Payment]
        /\ \A q \in PaymentIds : payments'[q] = payments[q] \/ (payments[q].order = o /\ payments'[q].order = o)
    <2>1. payments'[p] = [payments[p] EXCEPT !.state = "cancelled"] /\ PaymentRow(payments[p])
      BY <1>1, <1>2 DEF SettleInv, PayTypeOK, PayInv, TablesOK
    <2>2. payments'[p].order = o
      BY <1>2, <2>1 DEF PaymentRow
    <2> QED BY <1>1, <1>2, <1>3, <2>2 DEF SettleInv, PayTypeOK
  <1>5. due' \in [Orders -> Due] /\ \A q \in Orders \ {o} : due'[q] = due[q]
    <2>1. WriteBack(due[o], session[s].snap, session[s].draft) \in Due
      BY <1>2, WriteBackType DEF SettleInv, PayTypeOK
    <2> QED BY <1>1, <1>2, <2>1 DEF SettleInv, PayTypeOK
  <1>6. \A x \in Sessions : session'[x].op = "recorded" => session[x].order # o
    BY <1>1, Closed DEF OrderFree
  <1> HIDE DEF p, o
  <1> QED BY <1>1, <1>2, <1>4, <1>5, <1>6, Closed, WriteKeeps

\* An edit of the amount finds none in progress either.
LEMMA EditCommitSettles ==
    ASSUME PayInv, SettleInv, NEW s \in Sessions, EditFinalCommit(s)
    PROVE  SettleInv'
  <1> DEFINE me == session[s]
             o  == me.order
             draft == Recomputed(PaidTotal(o), [me.snap EXCEPT !.final = me.price])
             row == Edited(due[o], me, draft)
  <1>1. me.op = "final" /\ OrderFree(o) /\ Goes(s, Idle) /\ UNCHANGED payments
    BY DEF EditFinalCommit
  <1>2. o \in Orders /\ me.price \in Prices /\ me.snap \in Due /\ due[o] \in Due
    BY <1>1, SessionFields DEF SettleInv, PayTypeOK, Idle
  <1>3. draft \in Cached
    <2>1. [me.snap EXCEPT !.final = me.price].override \in Overrides
      BY <1>2 DEF Due
    <2> QED BY <2>1, RecomputedType
  <1>4. row \in Due
    <2> HIDE DEF draft
    <2>1. WriteBack(due[o], Current(me.snap), draft) \in Due
      BY <1>2, <1>3, WriteBackType
    <2> QED BY <1>2, <2>1 DEF Due, Edited
  <1>5. /\ due'[o] = row /\ \A q \in Orders \ {o} : due'[q] = due[q]
        /\ due' = [q \in Orders |-> due'[q]]
    <2>1. due = [q \in Orders |-> due[q]]
      BY DEF SettleInv, PayTypeOK
    <2> QED BY <1>2, <2>1 DEF EditFinalCommit
  <1> HIDE DEF row
  <1>6. due' \in [Orders -> Due] /\ \A q \in Orders \ {o} : due'[q] = due[q]
    BY <1>2, <1>4, <1>5 DEF SettleInv, PayTypeOK
  <1>7. \A x \in Sessions : session'[x].op = "recorded" => session[x].order # o
    BY <1>1, Closed DEF OrderFree
  <1>8. payments' \in [PaymentIds -> Payment]
    BY <1>1 DEF SettleInv, PayTypeOK
  <1> HIDE DEF o
  <1> QED BY <1>1, <1>2, <1>6, <1>7, <1>8, Closed, WriteKeeps

\* The requests of one step: an invoice, an amount or a mode by hand, the delivery.
LEMMA OneStepSettles ==
    ASSUME PayInv, SettleInv, NEW o \in Orders,
           \/ \E p \in PaymentIds, basis \in {"requested", "delivered"} : CreateInvoice(o, p, basis)
           \/ \E a \in Prices \cup {0} : SetExpected(o, a)
           \/ \E m \in Overrides : SetOverride(o, m)
           \/ Deliver(o)
    PROVE  SettleInv'
  <1>0. due[o] \in Due /\ due \in [Orders -> Due] /\ payments \in [PaymentIds -> Payment]
        /\ session = [x \in Sessions |-> session[x]]
    BY DEF SettleInv, PayTypeOK
  <1>1. UNCHANGED session /\ OrderFree(o)
    BY DEF CreateInvoice, SetExpected, SetOverride, Deliver
  <1>2. \A x \in Sessions : session'[x].op = "recorded" => session[x].order # o
    BY <1>1 DEF OrderFree
  <1>3. ASSUME NEW p \in PaymentIds, NEW basis \in {"requested", "delivered"}, CreateInvoice(o, p, basis)
        PROVE  SettleInv'
    <2> DEFINE amount == IF basis = "delivered" THEN due[o].final ELSE due[o].expected
    <2>1. amount \in Prices
      BY <1>0, <1>3 DEF CreateInvoice, Due
    <2>2. /\ UNCHANGED due /\ payments[p].state = "none"
          /\ payments' = [payments EXCEPT ![p] =
                [state |-> "pending", order |-> o, amount |-> amount, key |-> NoKey]]
      BY <1>3 DEF CreateInvoice, IsNext
    <2> HIDE DEF amount
    <2>3. payments' \in [PaymentIds -> Payment] /\ payments'[p].order = o
          /\ \A q \in PaymentIds \ {p} : payments'[q] = payments[q]
      BY <1>0, <2>1, <2>2 DEF Payment
    <2> QED BY <1>0, <1>1, <1>2, <2>2, <2>3, WriteKeeps
  <1>4. ASSUME UNCHANGED payments, NEW row \in Due, due' = [due EXCEPT ![o] = row] PROVE SettleInv'
    <2>1. due' \in [Orders -> Due] /\ \A q \in Orders \ {o} : due'[q] = due[q]
      BY <1>0, <1>4
    <2> QED BY <1>0, <1>1, <1>2, <1>4, <2>1, WriteKeeps
  <1>5. ASSUME NEW a \in Prices \cup {0}, SetExpected(o, a) PROVE SettleInv'
    <2>1. [due[o] EXCEPT !.expected = a] \in Due
      BY <1>0 DEF Due
    <2> QED BY <1>4, <1>5, <2>1 DEF SetExpected
  <1>6. ASSUME NEW m \in Overrides, SetOverride(o, m) PROVE SettleInv'
    <2>1. [due[o] EXCEPT !.override = m] \in Due
      BY <1>0 DEF Due
    <2> QED BY <1>4, <1>6, <2>1 DEF SetOverride
  <1>7. ASSUME Deliver(o) PROVE SettleInv'
    <2>1. PICK a \in Prices \cup {due[o].final} :
              due' = [due EXCEPT ![o].delivered = TRUE, ![o].final = a]
      BY <1>7 DEF Deliver
    <2> DEFINE row == [due[o] EXCEPT !.delivered = TRUE, !.final = a]
    <2>2. row \in Due
      BY <1>0 DEF Due
    <2>3. due' = [due EXCEPT ![o] = row]
      BY <1>0, <2>1
    <2> HIDE DEF row
    <2> QED BY <1>4, <1>7, <2>2, <2>3 DEF Deliver
  <1> QED BY <1>3, <1>5, <1>6, <1>7

\* The property of RecordSettles, of one step.
Settles ==
    \A s \in Sessions, o \in Orders :
        session[s].op = "recorded" /\ session[s].order = o /\ RecordCommit(s) =>
            /\ Agrees(o)'
            /\ due'[o].status \in {"paid", "overpaid"} => due'[o].override # "hold"

\* Every step keeps the invariant of the status.
LEMMA SettleStep == PayInv /\ SettleInv /\ [PayNext]_payVars => SettleInv'
  <1> SUFFICES ASSUME PayInv, SettleInv, [PayNext]_payVars PROVE SettleInv'
    OBVIOUS
  <1>1. CASE UNCHANGED payVars
    <2>1. PayTypeOK' /\ OneRecord' /\ OrdersFit'
      BY <1>1 DEF SettleInv, PayTypeOK, OneRecord, Recording, OrdersFit, payVars
    <2>2. \A q : PaidTotal(q)' = PaidTotal(q)
      BY <1>1, TotalKept DEF payVars
    <2>3. DraftCurrent'
      BY <1>1, <2>2, DraftCurrentNext DEF payVars, SettleInv, DraftCurrent
    <2> QED BY <2>1, <2>3 DEF SettleInv
  <1>2. ASSUME NEW s \in Sessions,
               \/ RecordSum(s) \/ RecordCommit(s) \/ CancelSum(s)
               \/ CancelCommit(s) \/ EditFinalCommit(s) \/ RollBack(s)
        PROVE  SettleInv'
    BY <1>2, SettleReads, RecordCommitSettles, CancelCommitSettles, EditCommitSettles
  <1>3. ASSUME NEW s \in Sessions, NEW o \in Orders, NEW a \in Amounts, NEW k \in Keys \cup {NoKey},
               RecordBegin(s, o, a, k)
        PROVE  SettleInv'
    BY <1>3, SettleReads
  <1>4. ASSUME NEW s \in Sessions, NEW p \in PaymentIds, CancelBegin(s, p) PROVE SettleInv'
    BY <1>4, SettleReads
  <1>5. ASSUME NEW o \in Orders, NEW s \in Sessions, NEW a \in Prices, EditFinal(s, o, a) PROVE SettleInv'
    BY <1>5, SettleReads
  <1>6. ASSUME NEW o \in Orders, NEW p \in PaymentIds, NEW basis \in {"requested", "delivered"},
               CreateInvoice(o, p, basis)
        PROVE  SettleInv'
    BY <1>6, OneStepSettles
  <1>7. ASSUME NEW o \in Orders, \/ \E a \in Prices \cup {0} : SetExpected(o, a)
                                 \/ \E m \in Overrides : SetOverride(o, m)
                                 \/ Deliver(o)
        PROVE  SettleInv'
    BY <1>7, OneStepSettles
  <1> QED BY <1>1, <1>2, <1>3, <1>4, <1>5, <1>6, <1>7 DEF PayNext

-----------------------------------------------------------------------------
\* A paid payment keeps its amount and key until it is cancelled, and a cancelled one
\* never comes back, however records and cancellations of one invoice overlap.
THEOREM PaidStays == PaySpec => PaidIsKept
  <1>1. PayInv /\ [PayNext]_payVars => [Kept]_payVars
    BY PayStep
  <1>2. PaySpec => [][Kept]_payVars
    BY InitHolds, PayStep, <1>1, PTL DEF PaySpec
  <1> QED BY <1>2 DEF PaidIsKept, Kept

\* A key of the outbox is good for one payment, however often it is sent.
THEOREM KeyIsPaidOnce == PaySpec => []KeyPaysOnce
  <1>1. ASSUME PayInv PROVE KeyPaysOnce
    <2> SUFFICES ASSUME NEW k \in Keys
                 PROVE  Cardinality({p \in PaymentIds : payments[p].key = k}) <= 1
      BY DEF KeyPaysOnce
    <2> DEFINE S == {p \in PaymentIds : payments[p].key = k}
    <2>1. \A p, q \in S : p = q
      BY <1>1, NoKeyAssumption DEF PayInv, KeysApart
    <2> HIDE DEF S
    <2>2. Cardinality(S) <= 1
      <3>1. CASE S = {}
        BY <3>1, FS_EmptySet
      <3>2. CASE S # {}
        <4>1. PICK p \in S : S = {p}
          BY <2>1, <3>2
        <4>2. Cardinality({p}) = 1
          BY FS_Singleton
        <4> QED BY <4>1, <4>2
      <3> QED BY <3>1, <3>2
    <2> QED BY <2>2 DEF S
  <1> QED BY InitHolds, PayStep, <1>1, PTL DEF PaySpec

\* Rows and sessions are of their types, and a key of the outbox pays once.
THEOREM TablesStayOK == PaySpec => []PaymentsOK
  <1>1. PaySpec => []PayTypeOK
    <2>1. SettleInv => PayTypeOK
      BY DEF SettleInv
    <2> QED BY InitHolds, PayStep, SettleInit, SettleStep, <2>1, PTL DEF PaySpec
  <1>2. PayTypeOK /\ KeyPaysOnce => PaymentsOK
    BY DEF PaymentsOK
  <1> QED BY <1>1, <1>2, KeyIsPaidOnce, PTL

\* After a payment is recorded the stored status is that of all the payments of the
\* order, and a paid order is not held back, whatever else was in progress.
THEOREM RecordedIsSettled == PaySpec => RecordSettles
  <1>1. PayInv /\ SettleInv /\ [PayNext]_payVars => [Settles]_payVars
    BY RecordCommitSettles DEF Settles
  <1>2. PaySpec => [][Settles]_payVars
    BY InitHolds, PayStep, SettleInit, SettleStep, <1>1, PTL DEF PaySpec
  <1> QED BY <1>2 DEF RecordSettles, Settles
=============================================================================
