---------------------------- MODULE TripLedgerProofs ----------------------------
(***************************************************************************)
(* Proofs about TripLedger for any number of trips, orders and sessions,   *)
(* any litres and any bound: first what the bookings of one trip and the   *)
(* lock of its row give, then the sums of the journal and the lock of the  *)
(* stock row.                                                              *)
(***************************************************************************)
EXTENDS TripLedger, FiniteSums

-----------------------------------------------------------------------------
(* The inductive invariant *)

Entry == [note: Notes, litres: Int]

\* What a session of each kind has read; of a purge and of a recount only the
\* kind, for what they have read are sums.
SessionOK(s) ==
    /\ s.op \in {"called", "auto"} => s \in [op: {"called", "auto"}, order: Orders, litres: Planned]
    /\ s.op \in {"start", "complete", "completing", "cancel"} => s.trip \in Trips
    /\ s.op = "complete"   => s \in [op: {"complete"}, trip: Trips, litres: Actual]
    /\ s.op = "completing" => s.litres \in Actual
    /\ s.op = "cancel"     => s.read \in TripStatuses

RowsOK ==
    /\ trips \in [Trips -> Trip]
    /\ ledger \in [Trips -> Seq(Entry)]
    /\ DOMAIN handler = Handlers /\ handler = [h \in Handlers |-> handler[h]]
    /\ \A h \in Handlers : SessionOK(handler[h])

\* Two rows of one trip have different notes.
NotesDiffer(rows) == \A i, j \in DOMAIN rows : rows[i].note = rows[j].note => i = j

\* A trip that is not there yet has no rows, and no session works on it.
NoneYet ==
    /\ \A t \in Trips : trips[t].status = "none" => ledger[t] = << >>
    /\ \A h \in Handlers : handler[h].op \in {"start", "complete", "completing", "cancel"} =>
           trips[handler[h].trip].status # "none"

\* What a session has read as on its way has departed, unless it was purged since.
Departed == {t \in Trips : Real(t) /\ trips[t].tracked => ledger[t] # << >>}

ReadOnItsWay(s) ==
    s.op \in {"complete", "completing"} \/ (s.op = "cancel" /\ s.read = "in_transit")

ReadDeparted == \A h \in Handlers : ReadOnItsWay(handler[h]) => handler[h].trip \in Departed

\* A completion that waits for order_service holds its trip alone, and the trip is there.
TripHeld ==
    \A h \in Handlers : handler[h].op = "completing" =>
        /\ Real(handler[h].trip)
        /\ \A x \in Handlers \ {h} : handler[x].op = "completing" => handler[x].trip # handler[h].trip

LedgerInv ==
    /\ RowsOK
    /\ \A t \in Trips : NotesDiffer(ledger[t])
    /\ DepartureFirst
    /\ NoneYet
    /\ ReadDeparted
    /\ TripHeld

\* The property of CompletingTripStable, of one step.
HeldTripStays ==
    \A h \in Handlers :
        handler[h].op = "completing" /\ handler'[h] = handler[h]
          => /\ trips'[handler[h].trip] = trips[handler[h].trip]
             /\ ledger'[handler[h].trip] = ledger[handler[h].trip]

-----------------------------------------------------------------------------
(* The bookings of one trip *)

\* What a booking leaves of the rows of a trip: they grow at the end only.
Grows(t) ==
    /\ ledger' = [ledger EXCEPT ![t] = ledger'[t]]
    /\ ledger'[t] \in Seq(Entry)
    /\ NotesDiffer(ledger'[t])
    /\ ledger[t] # << >> => ledger'[t] # << >> /\ ledger'[t][1] = ledger[t][1]

\* A row of a new note is appended.
LEMMA AppendGrows ==
    ASSUME RowsOK, NEW t \in Trips, NotesDiffer(ledger[t]),
           NEW note \in Notes, NEW litres \in Int, ~Booked(t, note),
           ledger' = [ledger EXCEPT ![t] = Append(@, [note |-> note, litres |-> litres])]
    PROVE  /\ Grows(t)
           /\ ledger'[t] # << >>
           /\ ledger[t] = << >> => ledger'[t][1] = [note |-> note, litres |-> litres]
  <1> DEFINE e == [note |-> note, litres |-> litres]
             old == ledger[t]
             new == Append(old, e)
  <1>1. old \in Seq(Entry) /\ e \in Entry /\ ledger'[t] = new
    BY DEF RowsOK, Entry
  <1>2. /\ new \in Seq(Entry) /\ Len(new) = Len(old) + 1 /\ Len(old) \in Nat
        /\ \A i \in 1..Len(old) : new[i] = old[i]
        /\ new[Len(old) + 1] = e
        /\ DOMAIN new = 1..(Len(old) + 1) /\ DOMAIN old = 1..Len(old)
    BY <1>1
  <1>3. \A i \in 1..Len(old) : old[i].note # note
    BY <1>2 DEF Booked
  <1>4. NotesDiffer(new)
    <2> SUFFICES ASSUME NEW i \in 1..(Len(old) + 1), NEW j \in 1..(Len(old) + 1),
                        new[i].note = new[j].note
                 PROVE  i = j
      BY <1>2 DEF NotesDiffer
    <2>1. e.note = note
      OBVIOUS
    <2>2. CASE i \in 1..Len(old) /\ j \in 1..Len(old)
      <3>1. old[i].note = old[j].note
        BY <1>2, <2>2
      <3> QED BY <1>2, <2>2, <3>1 DEF NotesDiffer
    <2>3. CASE i \in 1..Len(old) /\ j = Len(old) + 1
      BY <1>2, <1>3, <2>1, <2>3
    <2>4. CASE i = Len(old) + 1 /\ j \in 1..Len(old)
      BY <1>2, <1>3, <2>1, <2>4
    <2> QED BY <1>2, <2>2, <2>3, <2>4
  <1>5. new # << >>
    BY <1>2
  <1>6. old # << >> => new[1] = old[1]
    BY <1>1, <1>2
  <1>7. old = << >> => new[1] = e
    BY <1>1, <1>2
  <1>8. ledger' = [ledger EXCEPT ![t] = ledger'[t]]
    BY <1>1 DEF RowsOK
  <1> QED BY <1>1, <1>2, <1>4, <1>5, <1>6, <1>7, <1>8 DEF Grows

\* A booking that the rows have already, or that there is no reason for, changes nothing.
LEMMA SameGrows ==
    ASSUME RowsOK, NEW t \in Trips, NotesDiffer(ledger[t]), UNCHANGED ledger
    PROVE  Grows(t)
  BY DEF Grows, RowsOK

\* After a booking the trip has rows, and the first of them is the one that was first.
LEMMA BookGrows ==
    ASSUME RowsOK, NEW t \in Trips, NotesDiffer(ledger[t]),
           NEW note \in Notes, NEW litres \in Int, Book(t, note, litres)
    PROVE  /\ Grows(t)
           /\ ledger'[t] # << >>
           /\ ledger[t] = << >> => ledger'[t][1] = [note |-> note, litres |-> litres]
  <1>1. CASE Booked(t, note)
    <2>1. ledger[t] # << >>
      BY <1>1 DEF Booked
    <2> QED BY <1>1, <2>1, SameGrows DEF Book
  <1>2. CASE ~Booked(t, note)
    BY <1>2, AppendGrows DEF Book
  <1> QED BY <1>1, <1>2

-----------------------------------------------------------------------------
(* The three shapes of a step *)

\* A step that writes no trip and no row, and moves one session.
LEMMA SessionMoves ==
    ASSUME LedgerInv, NEW h \in Handlers, UNCHANGED <<trips, ledger>>,
           handler' = [handler EXCEPT ![h] = handler'[h]],
           SessionOK(handler'[h]),
           handler'[h].op \in {"start", "complete", "completing", "cancel"} =>
               trips[handler'[h].trip].status # "none",
           ReadOnItsWay(handler'[h]) => handler'[h].trip \in Departed,
           handler'[h].op = "completing" =>
               Real(handler'[h].trip) /\ TripFree(handler'[h].trip)
    PROVE  LedgerInv' /\ HeldTripStays
  <1>1. /\ DOMAIN handler' = Handlers /\ handler' = [x \in Handlers |-> handler'[x]]
        /\ \A x \in Handlers \ {h} : handler'[x] = handler[x]
    BY DEF LedgerInv, RowsOK
  <1>2. RowsOK'
    BY <1>1 DEF LedgerInv, RowsOK, SessionOK
  <1>3. (\A t \in Trips : NotesDiffer(ledger[t]))' /\ DepartureFirst'
    BY DEF LedgerInv, NotesDiffer, DepartureFirst
  <1>4. NoneYet'
    BY <1>1 DEF LedgerInv, NoneYet
  <1>5. ReadDeparted'
    <2>1. Departed' = Departed
      BY DEF Departed, Real
    <2> QED BY <1>1, <2>1 DEF LedgerInv, ReadDeparted, ReadOnItsWay
  <1>6. TripHeld'
    BY <1>1 DEF LedgerInv, TripHeld, TripFree, Real
  <1>7. HeldTripStays
    BY DEF HeldTripStays
  <1> QED BY <1>2, <1>3, <1>4, <1>5, <1>6, <1>7 DEF LedgerInv

\* A step that writes one trip, which nobody else holds, and closes sessions.
LEMMA TripMoves ==
    ASSUME LedgerInv, NEW t \in Trips,
           trips' = [trips EXCEPT ![t] = trips'[t]],
           trips'[t] \in Trip, trips'[t].status \in TripStatuses,
           Grows(t),
           DOMAIN handler' = Handlers, handler' = [x \in Handlers |-> handler'[x]],
           \A x \in Handlers : handler'[x] \in {handler[x], Idle},
           \A x \in Handlers : handler'[x].op = "completing" => handler[x].trip # t,
           \/ trips[t].status = "none"
           \/ Real(t) /\ trips'[t].tracked = trips[t].tracked,
           trips'[t].tracked /\ trips'[t].status \in {"in_transit", "completed"} => ledger'[t] # << >>,
           ledger'[t] # << >> =>
               /\ ledger'[t][1] = [note |-> "trip_planned", litres |-> -trips'[t].planned]
               /\ trips'[t].tracked
    PROVE  LedgerInv' /\ HeldTripStays
  <1>1. \A p \in Trips \ {t} : trips'[p] = trips[p] /\ ledger'[p] = ledger[p]
    BY DEF LedgerInv, RowsOK, Grows
  <1>2. \A x \in Handlers : handler'[x].op # "idle" => handler'[x] = handler[x]
    BY DEF Idle
  <1>3. RowsOK'
    <2>1. trips' \in [Trips -> Trip]
      BY DEF LedgerInv, RowsOK
    <2>2. ledger' \in [Trips -> Seq(Entry)]
      BY DEF LedgerInv, RowsOK, Grows
    <2>3. \A x \in Handlers : SessionOK(handler'[x])
      BY DEF LedgerInv, RowsOK, SessionOK, Idle
    <2> QED BY <2>1, <2>2, <2>3 DEF RowsOK, SessionOK
  <1>4. (\A p \in Trips : NotesDiffer(ledger[p]))'
    BY <1>1 DEF LedgerInv, NotesDiffer, Grows
  <1>5. DepartureFirst'
    BY <1>1 DEF LedgerInv, DepartureFirst
  <1>6. NoneYet'
    <2>1. trips'[t].status # "none"
      BY DEF TripStatuses
    <2>2. \A x \in Handlers : handler'[x].op \in {"start", "complete", "completing", "cancel"} =>
              handler'[x] = handler[x] /\ handler[x].trip \in Trips
      BY <1>2 DEF LedgerInv, RowsOK, SessionOK
    <2> QED BY <1>1, <2>1, <2>2 DEF LedgerInv, NoneYet
  <1>7. ReadDeparted'
    <2> SUFFICES ASSUME NEW x \in Handlers, ReadOnItsWay(handler'[x])
                 PROVE  handler'[x].trip \in Departed'
      BY DEF ReadDeparted, ReadOnItsWay
    <2>1. handler'[x] = handler[x] /\ handler[x].trip \in Trips
      BY <1>2 DEF LedgerInv, RowsOK, SessionOK, ReadOnItsWay
    <2>2. handler[x].trip \in Departed /\ trips[handler[x].trip].status # "none"
      BY <2>1 DEF LedgerInv, ReadDeparted, NoneYet, ReadOnItsWay
    <2>3. CASE handler[x].trip = t
      BY <2>1, <2>2, <2>3 DEF Departed, Grows
    <2>4. CASE handler[x].trip # t
      BY <1>1, <2>1, <2>2, <2>4 DEF Departed, Real
    <2> QED BY <2>3, <2>4
  <1>8. TripHeld'
    BY <1>1, <1>2 DEF LedgerInv, TripHeld, Real, RowsOK, SessionOK
  <1>9. HeldTripStays
    BY <1>1 DEF HeldTripStays, LedgerInv, RowsOK, SessionOK
  <1> QED BY <1>3, <1>4, <1>5, <1>6, <1>7, <1>8, <1>9 DEF LedgerInv

-----------------------------------------------------------------------------
(* The invariant *)

\* Before the first request there are no trips and no rows.
LEMMA InitHolds == LedgerInit => LedgerInv
  <1> SUFFICES ASSUME LedgerInit PROVE LedgerInv
    OBVIOUS
  <1>1. PICK o \in Orders, v \in Planned :
            trips = [t \in Trips |-> [status |-> "none", order |-> o, planned |-> v,
                                       actual |-> 0, tracked |-> FALSE]]
    BY DEF LedgerInit
  <1>2. /\ ledger = [t \in Trips |-> << >>]
        /\ \A h \in Handlers : handler[h].op = "idle"
        /\ handler = [h \in Handlers |-> Idle]
    BY DEF LedgerInit, Idle
  <1>3. RowsOK
    BY <1>1, <1>2 DEF RowsOK, SessionOK, Trip
  <1>4. \A t \in Trips : NotesDiffer(ledger[t])
    BY <1>2 DEF NotesDiffer
  <1>5. DepartureFirst /\ NoneYet
    BY <1>1, <1>2 DEF DepartureFirst, NoneYet
  <1>6. ReadDeparted /\ TripHeld
    BY <1>2 DEF ReadDeparted, ReadOnItsWay, TripHeld
  <1> QED BY <1>3, <1>4, <1>5, <1>6 DEF LedgerInv

\* The read of each handler: a session is opened, nothing is written.
LEMMA RequestKeeps ==
    ASSUME LedgerInv, NEW h \in Handlers,
           \/ \E o \in Orders, v \in Planned : AutoCall(h, o, v)
           \/ \E o \in Orders : PurgeBegin(h, o)
           \/ TripRequest(h)
    PROVE  LedgerInv' /\ HeldTripStays
  <1> USE DEF Opens
  <1>0. RowsOK /\ handler = [x \in Handlers |-> handler[x]]
    BY DEF LedgerInv, RowsOK
  <1>1. ASSUME NEW o \in Orders, NEW v \in Planned, AutoCall(h, o, v)
        PROVE  LedgerInv' /\ HeldTripStays
    <2>1. handler'[h] = [op |-> "called", order |-> o, litres |-> v]
      BY <1>0, <1>1 DEF AutoCall
    <2>2. SessionOK(handler'[h]) /\ ~ReadOnItsWay(handler'[h])
      BY <2>1 DEF SessionOK, ReadOnItsWay
    <2> QED BY <1>0, <1>1, <2>1, <2>2, SessionMoves DEF AutoCall
  <1>2. ASSUME NEW o \in Orders, PurgeBegin(h, o)
        PROVE  LedgerInv' /\ HeldTripStays
    <2>1. handler'[h].op = "purge"
      BY <1>0, <1>2 DEF PurgeBegin
    <2>2. SessionOK(handler'[h]) /\ ~ReadOnItsWay(handler'[h])
      BY <2>1 DEF SessionOK, ReadOnItsWay
    <2>3. handler' = [handler EXCEPT ![h] = handler'[h]]
      BY <1>0, <1>2 DEF PurgeBegin
    <2> QED BY <1>2, <2>1, <2>2, <2>3, SessionMoves DEF PurgeBegin
  <1>3. ASSUME NEW t \in Trips, StartBegin(h, t)
        PROVE  LedgerInv' /\ HeldTripStays
    <2>1. handler'[h] = [op |-> "start", trip |-> t]
      BY <1>0, <1>3 DEF StartBegin
    <2>2. SessionOK(handler'[h]) /\ ~ReadOnItsWay(handler'[h])
      BY <2>1 DEF SessionOK, ReadOnItsWay
    <2> QED BY <1>0, <1>3, <2>1, <2>2, SessionMoves DEF StartBegin
  <1>4. ASSUME NEW t \in Trips, NEW v \in Actual, CompleteBegin(h, t, v)
        PROVE  LedgerInv' /\ HeldTripStays
    <2>1. handler'[h] = [op |-> "complete", trip |-> t, litres |-> v]
      BY <1>0, <1>4 DEF CompleteBegin
    <2>2. SessionOK(handler'[h])
      BY <2>1 DEF SessionOK
    <2>3. t \in Departed
      BY <1>4 DEF LedgerInv, DepartureFirst, CompleteBegin, Departed
    <2> QED BY <1>0, <1>4, <2>1, <2>2, <2>3, SessionMoves DEF CompleteBegin
  <1>5. ASSUME NEW t \in Trips, CancelBegin(h, t)
        PROVE  LedgerInv' /\ HeldTripStays
    <2>1. handler'[h] = [op |-> "cancel", trip |-> t, read |-> trips[t].status]
      BY <1>0, <1>5 DEF CancelBegin
    <2>2. SessionOK(handler'[h]) /\ trips[t].status # "none"
      BY <1>5, <2>1 DEF SessionOK, CancelBegin, Real, TripStatuses
    <2>3. trips[t].status = "in_transit" => t \in Departed
      BY DEF LedgerInv, DepartureFirst, Departed
    <2>4. ReadOnItsWay(handler'[h]) => trips[t].status = "in_transit"
      BY <2>1 DEF ReadOnItsWay
    <2> QED BY <1>0, <1>5, <2>1, <2>2, <2>3, <2>4, SessionMoves DEF CancelBegin
  <1>6. ASSUME ReconcileBegin(h)
        PROVE  LedgerInv' /\ HeldTripStays
    <2>1. handler'[h].op = "reconcile"
      BY <1>0, <1>6 DEF ReconcileBegin
    <2>2. SessionOK(handler'[h]) /\ ~ReadOnItsWay(handler'[h])
      BY <2>1 DEF SessionOK, ReadOnItsWay
    <2>3. handler' = [handler EXCEPT ![h] = handler'[h]]
      BY <1>0, <1>6 DEF ReconcileBegin
    <2> QED BY <1>6, <2>1, <2>2, <2>3, SessionMoves DEF ReconcileBegin
  <1> QED BY <1>1, <1>2, <1>3, <1>4, <1>5, <1>6 DEF TripRequest

\* The steps that end a session, or move it on, without writing a trip.
LEMMA SessionEnds ==
    ASSUME LedgerInv, NEW h \in Handlers, UNCHANGED <<trips, ledger>>, Ends(h)
    PROVE  LedgerInv' /\ HeldTripStays
  <1>1. handler'[h] = Idle /\ handler' = [handler EXCEPT ![h] = handler'[h]]
    BY DEF Ends, LedgerInv, RowsOK
  <1>2. SessionOK(handler'[h]) /\ ~ReadOnItsWay(handler'[h]) /\ handler'[h].op = "idle"
    BY <1>1 DEF SessionOK, ReadOnItsWay, Idle
  <1> QED BY <1>1, <1>2, SessionMoves

\* An auto-start begins without a trip.
LEMMA AutoBeginKeeps ==
    ASSUME LedgerInv, NEW h \in Handlers, AutoBegin(h)
    PROVE  LedgerInv' /\ HeldTripStays
  <1>1. handler[h] \in [op: {"called", "auto"}, order: Orders, litres: Planned]
    BY DEF AutoBegin, LedgerInv, RowsOK, SessionOK
  <1>2. handler'[h] = [handler[h] EXCEPT !.op = "auto"] /\ handler' = [handler EXCEPT ![h] = handler'[h]]
    BY DEF AutoBegin, LedgerInv, RowsOK
  <1>3. handler'[h] \in [op: {"called", "auto"}, order: Orders, litres: Planned] /\ handler'[h].op = "auto"
    BY <1>1, <1>2
  <1>4. SessionOK(handler'[h]) /\ ~ReadOnItsWay(handler'[h])
    BY <1>3 DEF SessionOK, ReadOnItsWay
  <1> QED BY <1>2, <1>3, <1>4, SessionMoves DEF AutoBegin

\* The UPDATE of a completion takes the lock of its trip.
LEMMA CompleteWriteKeeps ==
    ASSUME LedgerInv, NEW h \in Handlers, CompleteWrite(h)
    PROVE  LedgerInv' /\ HeldTripStays
  <1>1. handler[h] \in [op: {"complete"}, trip: Trips, litres: Actual]
    BY DEF CompleteWrite, LedgerInv, RowsOK, SessionOK
  <1>2. /\ handler'[h] = [op |-> "completing", trip |-> handler[h].trip,
                          litres |-> handler[h].litres, stockRead |-> stock]
        /\ handler' = [handler EXCEPT ![h] = handler'[h]]
    BY DEF CompleteWrite, LedgerInv, RowsOK
  <1>3. SessionOK(handler'[h])
    BY <1>1, <1>2 DEF SessionOK
  <1>4. handler[h].trip \in Departed
    BY <1>1 DEF LedgerInv, ReadDeparted, ReadOnItsWay
  <1>5. Real(handler[h].trip) /\ TripFree(handler[h].trip) /\ trips[handler[h].trip].status # "none"
    BY DEF CompleteWrite, Real, TripStatuses
  <1>6. /\ handler'[h].trip = handler[h].trip
        /\ UNCHANGED <<trips, ledger>>
    BY <1>2 DEF CompleteWrite
  <1> QED BY <1>2, <1>3, <1>4, <1>5, <1>6, SessionMoves

-----------------------------------------------------------------------------
(* The commits *)

\* Closing one session leaves the others as they are; who is completing then has
\* not been closed.
LEMMA Closes ==
    ASSUME LedgerInv, NEW h \in Handlers, Ends(h)
    PROVE  /\ DOMAIN handler' = Handlers /\ handler' = [x \in Handlers |-> handler'[x]]
           /\ \A x \in Handlers : handler'[x] \in {handler[x], Idle}
           /\ \A x \in Handlers : handler'[x].op = "completing" => x # h /\ handler'[x] = handler[x]
  BY DEF LedgerInv, RowsOK, Ends, Idle

\* A trip that is created has no rows yet.
LEMMA CreateTripKeeps ==
    ASSUME LedgerInv, NEW t \in Trips, NEW o \in Orders, NEW v \in Planned,
           NEW tracked \in BOOLEAN, CreateTrip(t, o, v, tracked)
    PROVE  LedgerInv' /\ HeldTripStays
  <1>1. trips'[t] = [status |-> "planned", order |-> o, planned |-> v, actual |-> 0, tracked |-> tracked]
        /\ trips' = [trips EXCEPT ![t] = trips'[t]]
    BY DEF CreateTrip, LedgerInv, RowsOK
  <1>2. trips'[t] \in Trip /\ trips'[t].status = "planned" /\ trips'[t].status \in TripStatuses
    BY <1>1 DEF Trip, TripStatuses
  <1>3. UNCHANGED <<ledger, handler>> /\ trips[t].status = "none"
    BY DEF CreateTrip
  <1>4. ledger[t] = << >> /\ ledger'[t] = << >>
    BY <1>3 DEF LedgerInv, NoneYet
  <1>5. Grows(t)
    BY <1>3, SameGrows DEF LedgerInv
  <1>6. \A x \in Handlers : handler'[x].op = "completing" => handler[x].trip # t
    BY <1>3 DEF LedgerInv, NoneYet
  <1>7. /\ DOMAIN handler' = Handlers /\ handler' = [x \in Handlers |-> handler'[x]]
        /\ \A x \in Handlers : handler'[x] \in {handler[x], Idle}
    BY <1>3 DEF LedgerInv, RowsOK
  <1> QED BY <1>1, <1>2, <1>3, <1>4, <1>5, <1>6, <1>7, TripMoves

\* An auto-start books the departure of its own new trip.
LEMMA AutoCommitKeeps ==
    ASSUME LedgerInv, NEW h \in Handlers, NEW t \in Trips, AutoCommit(h, t)
    PROVE  LedgerInv' /\ HeldTripStays
  <1> DEFINE litres == handler[h].litres
  <1>1. litres \in Planned /\ handler[h].order \in Orders /\ litres \in Int
    BY LitresAssumption DEF AutoCommit, LedgerInv, RowsOK, SessionOK
  <1>2. /\ trips'[t] = [status |-> "in_transit", order |-> handler[h].order, planned |-> litres,
                        actual |-> 0, tracked |-> TRUE]
        /\ trips' = [trips EXCEPT ![t] = trips'[t]]
    BY DEF AutoCommit, LedgerInv, RowsOK
  <1>3. trips'[t] \in Trip /\ trips'[t].status \in TripStatuses
        /\ trips'[t].tracked /\ trips'[t].planned = litres
    BY <1>1, <1>2 DEF Trip, TripStatuses
  <1>4. trips[t].status = "none" /\ ledger[t] = << >>
    BY DEF AutoCommit, LedgerInv, NoneYet
  <1>5. /\ Grows(t) /\ ledger'[t] # << >>
        /\ ledger'[t][1] = [note |-> "trip_planned", litres |-> -litres]
    <2>1. Book(t, "trip_planned", -litres) /\ -litres \in Int
      BY <1>1 DEF AutoCommit
    <2>2. "trip_planned" \in Notes /\ RowsOK /\ NotesDiffer(ledger[t])
      BY DEF Notes, LedgerInv
    <2> HIDE DEF litres
    <2> QED BY <1>4, <2>1, <2>2, BookGrows
  <1>6. \A x \in Handlers : handler'[x].op = "completing" => handler[x].trip # t
    BY <1>4, Closes DEF AutoCommit, LedgerInv, NoneYet
  <1>7. Ends(h)
    BY DEF AutoCommit
  <1> QED BY <1>2, <1>3, <1>4, <1>5, <1>6, <1>7, Closes, TripMoves

\* A handler whose UPDATE got the lock of the trip finds nobody completing it.
LEMMA LockedAlone ==
    ASSUME LedgerInv, NEW h \in Handlers, NEW t \in Trips, Ends(h),
           \/ TripFree(t)
           \/ handler[h].op = "completing" /\ handler[h].trip = t
    PROVE  \A x \in Handlers : handler'[x].op = "completing" => handler[x].trip # t
  BY Closes DEF LedgerInv, TripHeld, TripFree

\* A start books the departure unless it is booked already.
LEMMA StartCommitKeeps ==
    ASSUME LedgerInv, NEW h \in Handlers, StartCommit(h)
    PROVE  LedgerInv' /\ HeldTripStays
  <1> DEFINE t == handler[h].trip
  <1>1. t \in Trips /\ Real(t) /\ TripFree(t) /\ Ends(h)
    BY DEF StartCommit, LedgerInv, RowsOK, SessionOK
  <1>2. trips[t] \in Trip /\ trips[t].planned \in Int /\ trips[t].tracked \in BOOLEAN
    BY <1>1, LitresAssumption DEF LedgerInv, RowsOK, Trip
  <1>3. trips' = [trips EXCEPT ![t] = trips'[t]] /\ trips'[t] = [trips[t] EXCEPT !.status = "in_transit"]
    BY <1>1 DEF StartCommit, LedgerInv, RowsOK
  <1>4. /\ trips'[t] \in Trip /\ trips'[t].status \in TripStatuses
        /\ trips'[t].planned = trips[t].planned /\ trips'[t].tracked = trips[t].tracked
    BY <1>2, <1>3 DEF Trip, TripStatuses
  <1>5. /\ ledger[t] # << >> => /\ ledger[t][1] = [note |-> "trip_planned", litres |-> -trips[t].planned]
                               /\ trips[t].tracked
        /\ RowsOK /\ NotesDiffer(ledger[t])
    BY <1>1 DEF LedgerInv, DepartureFirst
  <1>6. CASE trips[t].tracked
    <2>1. Book(t, "trip_planned", -trips[t].planned) /\ -trips[t].planned \in Int /\ "trip_planned" \in Notes
      BY <1>2, <1>6 DEF StartCommit, Notes
    <2>2. /\ Grows(t) /\ ledger'[t] # << >>
          /\ ledger[t] = << >> => ledger'[t][1] = [note |-> "trip_planned", litres |-> -trips[t].planned]
      <3> HIDE DEF t
      <3> QED BY <1>1, <1>5, <2>1, BookGrows
    <2>3. ledger'[t][1] = [note |-> "trip_planned", litres |-> -trips'[t].planned]
      BY <1>4, <1>5, <2>2 DEF Grows
    <2> HIDE DEF t
    <2> QED BY <1>1, <1>3, <1>4, <1>6, <2>2, <2>3, Closes, LockedAlone, TripMoves
  <1>7. CASE ~trips[t].tracked
    <2>1. UNCHANGED ledger
      BY <1>7 DEF StartCommit
    <2>2. Grows(t) /\ ledger'[t] = << >>
      BY <1>1, <1>5, <1>7, <2>1, SameGrows
    <2> HIDE DEF t
    <2> QED BY <1>1, <1>3, <1>4, <1>7, <2>2, Closes, LockedAlone, TripMoves
  <1> QED BY <1>6, <1>7

\* A completion adjusts a trip that it holds and that has departed.
LEMMA CompleteCommitKeeps ==
    ASSUME LedgerInv, NEW h \in Handlers, CompleteCommit(h)
    PROVE  LedgerInv' /\ HeldTripStays
  <1> DEFINE t == handler[h].trip
             litres == Difference(t, handler[h].litres)
  <1>1. t \in Trips /\ Real(t) /\ Ends(h) /\ handler[h].op = "completing" /\ handler[h].litres \in Actual
    BY DEF CompleteCommit, LedgerInv, RowsOK, SessionOK, TripHeld
  <1>2. /\ trips[t] \in Trip /\ trips[t].planned \in Int /\ trips[t].tracked \in BOOLEAN
        /\ handler[h].litres \in Int
    BY <1>1, LitresAssumption DEF LedgerInv, RowsOK, Trip
  <1>3. /\ trips' = [trips EXCEPT ![t] = trips'[t]]
        /\ trips'[t] = [trips[t] EXCEPT !.status = "completed", !.actual = handler[h].litres]
    BY <1>1 DEF CompleteCommit, LedgerInv, RowsOK
  <1>4. /\ trips'[t] \in Trip /\ trips'[t].status \in TripStatuses
        /\ trips'[t].planned = trips[t].planned /\ trips'[t].tracked = trips[t].tracked
    BY <1>1, <1>2, <1>3 DEF Trip, TripStatuses
  <1>5. /\ ledger[t] # << >> => /\ ledger[t][1] = [note |-> "trip_planned", litres |-> -trips[t].planned]
                               /\ trips[t].tracked
        /\ RowsOK /\ NotesDiffer(ledger[t])
    BY <1>1 DEF LedgerInv, DepartureFirst
  <1>6. trips[t].tracked => ledger[t] # << >>
    BY <1>1 DEF LedgerInv, ReadDeparted, ReadOnItsWay, Departed
  <1>7. Grows(t) /\ (trips[t].tracked <=> ledger'[t] # << >>)
    <2>1. CASE litres = 0
      BY <1>1, <1>5, <1>6, <2>1, SameGrows DEF CompleteCommit
    <2>2. CASE litres # 0
      <3>1. /\ trips[t].tracked /\ ~Booked(t, "trip_adjustment")
            /\ litres \in Int /\ "trip_adjustment" \in Notes
        BY <1>2, <2>2 DEF Difference, Notes
      <3>2. ledger' = [ledger EXCEPT ![t] = Append(@, [note |-> "trip_adjustment", litres |-> litres])]
        BY <2>2 DEF CompleteCommit
      <3> HIDE DEF t, litres
      <3> QED BY <1>1, <1>5, <3>1, <3>2, AppendGrows
    <2> QED BY <2>1, <2>2
  <1>8. ledger'[t] # << >> => /\ ledger'[t][1] = [note |-> "trip_planned", litres |-> -trips'[t].planned]
                             /\ trips'[t].tracked
    BY <1>4, <1>5, <1>6, <1>7 DEF Grows
  <1> HIDE DEF t, litres
  <1>9. \A x \in Handlers : handler'[x].op = "completing" => handler[x].trip # t
    BY <1>1, LockedAlone DEF t
  <1> QED BY <1>1, <1>3, <1>4, <1>7, <1>8, <1>9, Closes, TripMoves

\* A cancellation gives back what had departed when it read the trip.
LEMMA CancelCommitKeeps ==
    ASSUME LedgerInv, NEW h \in Handlers, CancelCommit(h)
    PROVE  LedgerInv' /\ HeldTripStays
  <1> DEFINE t == handler[h].trip
  <1>1. t \in Trips /\ Ends(h) /\ RowsOK /\ NotesDiffer(ledger[t])
    BY DEF CancelCommit, LedgerInv, RowsOK, SessionOK
  <1>2. CASE handler[h].read = "cancelled"
    BY <1>1, <1>2, SessionEnds DEF CancelCommit
  <1>3. CASE handler[h].read # "cancelled"
    <2>1. Real(t) /\ TripFree(t)
      BY <1>3 DEF CancelCommit
    <2>2. trips[t] \in Trip /\ trips[t].planned \in Int /\ trips[t].tracked \in BOOLEAN
      BY <1>1, LitresAssumption DEF RowsOK, Trip
    <2>3. trips' = [trips EXCEPT ![t] = trips'[t]] /\ trips'[t] = [trips[t] EXCEPT !.status = "cancelled"]
      BY <1>1, <1>3 DEF CancelCommit, RowsOK
    <2>4. /\ trips'[t] \in Trip /\ trips'[t].status = "cancelled" /\ trips'[t].status \in TripStatuses
          /\ trips'[t].planned = trips[t].planned /\ trips'[t].tracked = trips[t].tracked
      BY <2>2, <2>3 DEF Trip, TripStatuses
    <2>5. ledger[t] # << >> => /\ ledger[t][1] = [note |-> "trip_planned", litres |-> -trips[t].planned]
                             /\ trips[t].tracked
      BY <1>1 DEF LedgerInv, DepartureFirst
    <2>6. Grows(t) /\ (ledger'[t] # << >> => ledger[t] # << >>)
      <3>1. CASE handler[h].read = "in_transit" /\ trips[t].tracked
        <4>1. ledger[t] # << >>
          BY <2>1, <3>1 DEF CancelCommit, LedgerInv, ReadDeparted, ReadOnItsWay, Departed
        <4>2. Book(t, "trip_cancelled", trips[t].planned) /\ "trip_cancelled" \in Notes
          BY <3>1 DEF CancelCommit, Notes
        <4> HIDE DEF t
        <4> QED BY <1>1, <2>2, <4>1, <4>2, BookGrows
      <3>2. CASE ~(handler[h].read = "in_transit" /\ trips[t].tracked)
        <4>1. UNCHANGED ledger
          BY <3>2 DEF CancelCommit
        <4> QED BY <1>1, <4>1, SameGrows
      <3> QED BY <3>1, <3>2
    <2>7. ledger'[t] # << >> => /\ ledger'[t][1] = [note |-> "trip_planned", litres |-> -trips'[t].planned]
                               /\ trips'[t].tracked
      BY <2>4, <2>5, <2>6 DEF Grows
    <2> HIDE DEF t
    <2> QED BY <1>1, <2>1, <2>3, <2>4, <2>6, <2>7, Closes, LockedAlone, TripMoves
  <1> QED BY <1>2, <1>3

\* The purge writes the trips and the rows of one order, when it finds them all free.
LEMMA PurgeCommitKeeps ==
    ASSUME LedgerInv, NEW h \in Handlers, PurgeCommit(h)
    PROVE  LedgerInv' /\ HeldTripStays
  <1> DEFINE o == handler[h].order
  <1>1. Ends(h) /\ RowsOK
    BY DEF PurgeCommit, LedgerInv
  <1>2. \A t \in Trips :
            \/ trips'[t] = trips[t]
            \/ trips'[t] = [trips[t] EXCEPT !.status = "purged"] /\ Real(t)
    BY DEF PurgeCommit
  <1>3. \A t \in Trips :
            \/ ledger'[t] = ledger[t]
            \/ ledger'[t] = << >> /\ trips[t].order = o /\ trips[t].status # "none"
    <2>1. CASE handler[h].seen
      <3>1. ledger' = [t \in Trips |-> IF t \in Of(o) THEN << >> ELSE ledger[t]]
        BY <2>1 DEF PurgeCommit
      <3> HIDE DEF o
      <3> QED BY <3>1 DEF Of
    <2>2. CASE ~handler[h].seen
      BY <2>2 DEF PurgeCommit
    <2> QED BY <2>1, <2>2
  <1>4. \A t \in Trips : trips[t].order = o => TripFree(t)
    BY DEF PurgeCommit
  <1>5. \A t \in Trips : ledger'[t] # ledger[t] => ~Real(t)'
    <2> SUFFICES ASSUME NEW t \in Trips, ledger'[t] # ledger[t] PROVE ~Real(t)'
      OBVIOUS
    <2>1. trips[t].order = o
      BY <1>3
    <2>2. trips[t] \in Trip
      BY <1>1 DEF RowsOK
    <2>3. CASE Real(t)
      <3>1. trips'[t] = [trips[t] EXCEPT !.status = "purged"]
        BY <2>1, <2>3 DEF PurgeCommit
      <3> QED BY <2>2, <3>1 DEF Real, Trip, TripStatuses
    <2>4. CASE ~Real(t)
      BY <1>2, <2>4 DEF Real
    <2> QED BY <2>3, <2>4
  <1>6. ASSUME NEW t \in Trips
        PROVE  /\ trips'[t].tracked = trips[t].tracked /\ trips'[t].planned = trips[t].planned
               /\ trips'[t].status \in {trips[t].status, "purged"} /\ trips'[t] \in Trip
    <2>1. trips[t] \in Trip
      BY <1>1 DEF RowsOK
    <2>2. CASE trips'[t] = trips[t]
      BY <2>1, <2>2 DEF Trip
    <2>3. CASE trips'[t] = [trips[t] EXCEPT !.status = "purged"]
      BY <2>1, <2>3 DEF Trip
    <2> QED BY <1>2, <2>2, <2>3
  <1>7. /\ DOMAIN handler' = Handlers /\ handler' = [x \in Handlers |-> handler'[x]]
        /\ \A x \in Handlers : handler'[x] = handler[x] \/ handler'[x].op = "idle"
    BY <1>1 DEF RowsOK, Ends, Idle
  <1> HIDE DEF o
  <1>8. RowsOK'
    <2>1. trips' \in [Trips -> Trip]
      BY <1>6 DEF PurgeCommit
    <2>2. ledger' \in [Trips -> Seq(Entry)]
      <3>1. /\ \A t \in Trips : ledger[t] \in Seq(Entry)
            /\ << >> \in Seq(Entry)
        BY <1>1 DEF RowsOK
      <3>2. \A t \in Trips : ledger'[t] \in Seq(Entry)
        BY <1>3, <3>1
      <3>3. DOMAIN ledger' = Trips /\ ledger' = [t \in Trips |-> ledger'[t]]
        <4>1. CASE handler[h].seen
          BY <4>1 DEF PurgeCommit
        <4>2. CASE ~handler[h].seen
          BY <1>1, <4>2 DEF PurgeCommit, RowsOK
        <4> QED BY <4>1, <4>2
      <3> QED BY <3>2, <3>3
    <2>3. \A x \in Handlers : SessionOK(handler'[x])
      BY <1>7 DEF LedgerInv, RowsOK, SessionOK
    <2> QED BY <1>7, <2>1, <2>2, <2>3 DEF RowsOK, SessionOK
  <1>9. (\A t \in Trips : NotesDiffer(ledger[t]))'
    BY <1>3 DEF LedgerInv, NotesDiffer
  <1>10. DepartureFirst'
    <2> SUFFICES ASSUME NEW t \in Trips
                 PROVE  /\ trips'[t].tracked /\ trips'[t].status \in {"in_transit", "completed"}
                              => ledger'[t] # << >>
                        /\ ledger'[t] # << >> =>
                              /\ ledger'[t][1] = [note |-> "trip_planned", litres |-> -trips'[t].planned]
                              /\ trips'[t].tracked
      BY DEF DepartureFirst
    <2>1. /\ trips[t].tracked /\ trips[t].status \in {"in_transit", "completed"} => ledger[t] # << >>
          /\ ledger[t] # << >> =>
                /\ ledger[t][1] = [note |-> "trip_planned", litres |-> -trips[t].planned]
                /\ trips[t].tracked
      BY DEF LedgerInv, DepartureFirst
    <2>2. CASE ledger'[t] = ledger[t]
      BY <1>6, <2>1, <2>2
    <2>3. CASE ledger'[t] # ledger[t]
      BY <1>3, <1>5, <2>3 DEF Real, TripStatuses
    <2> QED BY <2>2, <2>3
  <1>11. NoneYet'
    <2>1. \A t \in Trips : trips'[t].status = "none" <=> trips[t].status = "none"
      BY <1>1, <1>2 DEF RowsOK, Trip, Real, TripStatuses
    <2>2. \A x \in Handlers : handler'[x].op \in {"start", "complete", "completing", "cancel"} =>
              handler'[x] = handler[x] /\ handler[x].trip \in Trips
      BY <1>7 DEF LedgerInv, RowsOK, SessionOK
    <2> QED BY <1>3, <2>1, <2>2 DEF LedgerInv, NoneYet
  <1>12. ReadDeparted'
    <2>1. Departed \subseteq Departed'
      BY <1>5, <1>6 DEF Departed, Real, TripStatuses
    <2>2. \A x \in Handlers : ReadOnItsWay(handler'[x]) => handler'[x] = handler[x]
      BY <1>7 DEF ReadOnItsWay
    <2> QED BY <2>1, <2>2 DEF LedgerInv, ReadDeparted, ReadOnItsWay
  <1>13. ASSUME NEW x \in Handlers, handler[x].op = "completing"
         PROVE  /\ trips'[handler[x].trip] = trips[handler[x].trip]
                /\ ledger'[handler[x].trip] = ledger[handler[x].trip]
    <2>1. handler[x].trip \in Trips /\ trips[handler[x].trip].order # o
      BY <1>4, <1>13 DEF TripFree, LedgerInv, RowsOK, SessionOK
    <2>2. trips'[handler[x].trip] = trips[handler[x].trip]
      BY <2>1 DEF PurgeCommit, o
    <2> QED BY <1>3, <2>1, <2>2
  <1>14. TripHeld'
    BY <1>7, <1>13 DEF LedgerInv, TripHeld, Real
  <1>15. HeldTripStays
    BY <1>13 DEF HeldTripStays
  <1> QED BY <1>8, <1>9, <1>10, <1>11, <1>12, <1>14, <1>15 DEF LedgerInv

\* An entry by hand, and a step that changes nothing, leave all that is above as it is.
LEMMA NothingWritten ==
    ASSUME LedgerInv, UNCHANGED <<trips, ledger, handler>>
    PROVE  LedgerInv' /\ HeldTripStays
  BY DEF LedgerInv, RowsOK, NotesDiffer, DepartureFirst, NoneYet, ReadDeparted, ReadOnItsWay,
         Departed, TripHeld, Real, SessionOK, HeldTripStays

\* Every step keeps the invariant and the trip of a completion.
LEMMA LedgerStep == LedgerInv /\ [LedgerNext]_ledgerVars => LedgerInv' /\ HeldTripStays
  <1> SUFFICES ASSUME LedgerInv, [LedgerNext]_ledgerVars PROVE LedgerInv' /\ HeldTripStays
    OBVIOUS
  <1>1. CASE ByStaff
    BY <1>1, CreateTripKeeps, NothingWritten DEF ByStaff, EntryByHand
  <1>2. ASSUME NEW h \in Handlers,
               \/ \E o \in Orders, v \in Planned : AutoCall(h, o, v)
               \/ \E o \in Orders : PurgeBegin(h, o)
               \/ TripRequest(h)
        PROVE  LedgerInv' /\ HeldTripStays
    BY <1>2, RequestKeeps
  <1>3. ASSUME NEW h \in Handlers, TripStep(h)
        PROVE  LedgerInv' /\ HeldTripStays
    <2>1. CASE AutoFound(h) \/ ReconcileCommit(h)
      BY <2>1, SessionEnds DEF AutoFound, ReconcileCommit
    <2> QED BY <1>3, <2>1, AutoBeginKeeps, AutoCommitKeeps, StartCommitKeeps, CompleteWriteKeeps,
               CancelCommitKeeps, PurgeCommitKeeps DEF TripStep
  <1>4. ASSUME NEW h \in Handlers, CompleteCommit(h) \/ Abort(h)
        PROVE  LedgerInv' /\ HeldTripStays
    BY <1>4, CompleteCommitKeeps, SessionEnds DEF Abort
  <1>5. CASE UNCHANGED ledgerVars
    BY <1>5, NothingWritten DEF ledgerVars
  <1> QED BY <1>1, <1>2, <1>3, <1>4, <1>5 DEF LedgerNext

-----------------------------------------------------------------------------
(* The litres of the journal *)

\* The rows of one trip have a sum, and a row more adds its litres.
LEMMA SumOfRows ==
    ASSUME NEW rows \in Seq(Entry)
    PROVE  /\ RowsTotal(rows) \in Int
           /\ \A e \in Entry : RowsTotal(Append(rows, e)) = RowsTotal(rows) + e.litres
  <1> DEFINE f == [i \in DOMAIN rows |-> rows[i].litres]
  <1>0. DOMAIN rows = 1..Len(rows) /\ Len(rows) \in Nat /\ \A i \in DOMAIN rows : rows[i] \in Entry
    OBVIOUS
  <1>1. /\ DOMAIN rows = 1..Len(rows) /\ Len(rows) \in Nat
        /\ \A i \in DOMAIN rows : rows[i].litres \in Int
    BY <1>0 DEF Entry
  <1>2. IsFiniteSet(DOMAIN rows)
    BY <1>1, FS_Interval
  <1>3. \A i \in DOMAIN rows : f[i] \in Int
    BY <1>1
  <1>4. RowsTotal(rows) = SumFunctionOnSet(f, DOMAIN rows)
    BY DEF RowsTotal
  <1>5. RowsTotal(rows) \in Int
    <2> HIDE DEF f
    <2> QED BY <1>2, <1>3, <1>4, SumType
  <1>6. ASSUME NEW e \in Entry PROVE RowsTotal(Append(rows, e)) = RowsTotal(rows) + e.litres
    <2> DEFINE new == Append(rows, e)
               last == Len(rows) + 1
               g == [i \in DOMAIN new |-> new[i].litres]
    <2>1. /\ DOMAIN new = (1..Len(rows)) \cup {last} /\ last \notin 1..Len(rows)
          /\ \A i \in 1..Len(rows) : new[i] = rows[i]
          /\ new[last] = e /\ e.litres \in Int
      BY <1>1 DEF Entry
    <2>2. /\ \A i \in DOMAIN rows : g[i] = f[i]
          /\ g[last] = e.litres
      BY <1>1, <2>1
    <2>3. \A i \in DOMAIN new : g[i] \in Int
      BY <1>1, <1>3, <2>1, <2>2
    <2>4. RowsTotal(new) = SumFunctionOnSet(g, DOMAIN new)
      BY DEF RowsTotal
    <2>9. DOMAIN new = DOMAIN rows \cup {last} /\ last \notin DOMAIN rows
      BY <1>1, <2>1
    <2>5. /\ IsFiniteSet(DOMAIN new) /\ last \in DOMAIN new
          /\ DOMAIN new \ {last} = DOMAIN rows
      <3> HIDE DEF new, last
      <3> QED BY <1>2, <2>9, FS_AddElement
    <2> HIDE DEF f, g, new, last
    <2>6. SumFunctionOnSet(g, DOMAIN new) = g[last] + SumFunctionOnSet(g, DOMAIN new \ {last})
      BY <2>3, <2>5, SumWithout
    <2>7. SumFunctionOnSet(g, DOMAIN rows) = SumFunctionOnSet(f, DOMAIN rows)
      BY <1>2, <2>2, SumSame
    <2>8. RowsTotal(new) = e.litres + RowsTotal(rows)
      BY <1>4, <2>2, <2>4, <2>5, <2>6, <2>7
    <2> QED BY <1>5, <2>1, <2>8 DEF new
  <1> QED BY <1>5, <1>6

\* No rows, no litres.
LEMMA SumOfNone == RowsTotal(<< >>) = 0
  <1>1. DOMAIN << >> = {}
    OBVIOUS
  <1> QED BY <1>1, SumEmpty DEF RowsTotal

\* The litres of every trip, and of the journal, are numbers.
LEMMA TotalsTyped ==
    ASSUME LedgerTypeOK
    PROVE  /\ \A t \in Trips : BookedLitres[t] \in Int
           /\ LedgerTotal \in Int
           /\ \A o : Litres(o) \in Int
           /\ \A o : Of(o) = {} => Litres(o) = 0
  <1>1. \A t \in Trips : BookedLitres[t] \in Int
    BY SumOfRows DEF BookedLitres, LedgerTypeOK, Entry
  <1>2. \A S \in SUBSET Trips : SumFunctionOnSet(BookedLitres, S) \in Int
    BY <1>1, SumType, LitresAssumption, FS_Subset
  <1>3. LedgerTotal \in Int
    BY <1>2 DEF LedgerTotal, LedgerTypeOK
  <1>4. \A o : Of(o) \in SUBSET Trips
    BY DEF Of
  <1>5. \A o : Of(o) = {} => Litres(o) = 0
    BY SumEmpty DEF Litres
  <1> QED BY <1>1, <1>2, <1>3, <1>4, <1>5 DEF Litres

\* A booking moves the journal by its litres.
LEMMA TotalAppends ==
    ASSUME LedgerTypeOK, NEW t \in Trips, NEW note \in Notes, NEW litres \in Int,
           ledger' = [ledger EXCEPT ![t] = Append(@, [note |-> note, litres |-> litres])],
           UNCHANGED byHand
    PROVE  LedgerTotal' = LedgerTotal + litres
  <1> DEFINE f == [p \in Trips |-> RowsTotal(ledger[p])]
             g == [p \in Trips |-> RowsTotal(ledger'[p])]
             e == [note |-> note, litres |-> litres]
  <1>1. e \in Entry /\ e.litres = litres /\ ledger[t] \in Seq(Entry)
        /\ \A p \in Trips : ledger[p] \in Seq(Entry)
    BY DEF Entry, LedgerTypeOK
  <1>2. /\ ledger'[t] = Append(ledger[t], e)
        /\ \A p \in Trips \ {t} : ledger'[p] = ledger[p]
    BY DEF LedgerTypeOK
  <1> HIDE DEF e
  <1>3. /\ \A p \in Trips : f[p] \in Int
        /\ g[t] = f[t] + litres
        /\ \A p \in Trips \ {t} : g[p] = f[p]
    BY <1>1, <1>2, SumOfRows
  <1>4. \A p \in Trips : f[p] \in Int /\ g[p] \in Int
    BY <1>3
  <1>5. LedgerTotal = byHand + SumFunctionOnSet(f, Trips) /\ LedgerTotal' = byHand + SumFunctionOnSet(g, Trips)
    BY DEF LedgerTotal, BookedLitres
  <1> HIDE DEF f, g
  <1>6. SumFunctionOnSet(g, Trips) = SumFunctionOnSet(f, Trips) + (g[t] - f[t])
    BY <1>3, <1>4, SumMoves, LitresAssumption
  <1>7. SumFunctionOnSet(f, Trips) \in Int /\ byHand \in Int
    BY <1>4, SumType, LitresAssumption DEF LedgerTypeOK
  <1>8. f[t] \in Int
    BY <1>3
  <1> QED BY <1>3, <1>5, <1>6, <1>7, <1>8

\* The rows of an order that go away take their litres with them.
LEMMA TotalPurged ==
    ASSUME LedgerTypeOK, NEW o,
           ledger' = [t \in Trips |-> IF t \in Of(o) THEN << >> ELSE ledger[t]],
           UNCHANGED byHand
    PROVE  LedgerTotal' = LedgerTotal - Litres(o)
  <1> DEFINE f == [p \in Trips |-> RowsTotal(ledger[p])]
             g == [p \in Trips |-> RowsTotal(ledger'[p])]
             P == Of(o)
  <1>1. P \in SUBSET Trips /\ IsFiniteSet(P) /\ IsFiniteSet(Trips) /\ IsFiniteSet(Trips \ P)
    BY LitresAssumption, FS_Subset DEF Of
  <1>2. /\ \A p \in Trips : f[p] \in Int
        /\ \A p \in P : g[p] = 0
        /\ \A p \in Trips \ P : g[p] = f[p]
    BY <1>1, SumOfRows, SumOfNone DEF LedgerTypeOK, Entry
  <1>4. /\ LedgerTotal = byHand + SumFunctionOnSet(f, Trips)
        /\ LedgerTotal' = byHand + SumFunctionOnSet(g, Trips)
        /\ Litres(o) = SumFunctionOnSet(f, P)
    BY DEF LedgerTotal, BookedLitres, Litres
  <1> HIDE DEF f, g, P
  <1>3. \A p \in Trips : g[p] \in Int
    BY <1>2
  <1>5. SumFunctionOnSet(g, P) = 0
    BY <1>1, <1>2, SumOfZeros
  <1>6. /\ SumFunctionOnSet(f, Trips) = SumFunctionOnSet(f, P) + SumFunctionOnSet(f, Trips \ P)
        /\ SumFunctionOnSet(g, Trips) = SumFunctionOnSet(g, P) + SumFunctionOnSet(g, Trips \ P)
    BY <1>1, <1>2, <1>3, SumSplits
  <1>7. SumFunctionOnSet(f, Trips \ P) = SumFunctionOnSet(g, Trips \ P)
    BY <1>1, <1>2, SumSame
  <1>8. SumFunctionOnSet(f, Trips \ P) \in Int /\ SumFunctionOnSet(f, P) \in Int /\ byHand \in Int
    BY <1>1, <1>2, SumType DEF LedgerTypeOK
  <1> QED BY <1>4, <1>5, <1>6, <1>7, <1>8

-----------------------------------------------------------------------------
(* The stock and the journal *)

\* The session has read the stock row, and holds it locked until it commits.
StockTaken(h) ==
    handler[h].op = "completing" /\ Difference(handler[h].trip, handler[h].litres) # 0

\* Nobody but its holder writes the stock meanwhile: what the holder read is still there.
HeldStock ==
    \A h \in Handlers : StockTaken(h) =>
        /\ handler[h].stockRead = stock
        /\ \A x \in Handlers \ {h} : ~StockTaken(x)

StockInv == LedgerInv /\ LedgerTypeOK /\ HeldStock

\* The property of StockFollowsJournal, of one step.
JournalStep ==
    \/ \E h \in Handlers : ReconcileCommit(h)
    \/ \E h \in Handlers : PurgeCommit(h) /\ handler[h].owed # Litres(handler[h].order)
    \/ stock' - LedgerTotal' = stock - LedgerTotal

StockKept == LedgerTypeOK' /\ HeldStock' /\ JournalStep

\* A session stays of its type when one of them is given another state.
LEMMA SessionsTyped ==
    ASSUME LedgerTypeOK, NEW h \in Handlers, NEW s \in HandlerState,
           handler' = [handler EXCEPT ![h] = s]
    PROVE  handler' \in [Handlers -> HandlerState] /\ handler'[h] = s
  BY DEF LedgerTypeOK

\* The tables are of their type when the litres and the sessions are.
LEMMA TypedAgain ==
    ASSUME RowsOK', byHand' \in Int, stock' \in Int, handler' \in [Handlers -> HandlerState]
    PROVE  LedgerTypeOK'
  BY DEF RowsOK, LedgerTypeOK, Entry

\* A session that holds the stock goes on holding it, and alone, when no other begins to
\* complete, and the stock is written only while nobody holds it.
LEMMA HeldOn ==
    ASSUME LedgerInv, HeldStock, HeldTripStays,
           \A x \in Handlers : handler'[x].op = "completing" => handler'[x] = handler[x],
           StockFree \/ stock' = stock
    PROVE  HeldStock'
  <1>1. ASSUME NEW x \in Handlers, StockTaken(x)'
        PROVE  StockTaken(x) /\ handler'[x] = handler[x]
    <2>1. handler'[x].op = "completing" /\ handler'[x] = handler[x]
      BY <1>1 DEF StockTaken
    <2>2. trips'[handler[x].trip] = trips[handler[x].trip] /\ ledger'[handler[x].trip] = ledger[handler[x].trip]
      BY <2>1 DEF HeldTripStays
    <2> QED BY <1>1, <2>1, <2>2 DEF StockTaken, Difference, Booked
  <1>2. ASSUME NEW x \in Handlers, StockTaken(x)'
        PROVE  handler'[x].stockRead = stock'
    <2>1. StockTaken(x) /\ handler'[x] = handler[x]
      BY <1>1, <1>2
    <2>2. ~StockFree
      BY <2>1 DEF StockFree, StockTaken
    <2> QED BY <2>1, <2>2 DEF HeldStock
  <1>3. ASSUME NEW x \in Handlers, NEW y \in Handlers \ {x}, StockTaken(x)', StockTaken(y)'
        PROVE  FALSE
    BY <1>1, <1>3 DEF HeldStock
  <1>4. \A x \in Handlers : StockTaken(x)' => handler'[x].stockRead = stock'
    BY <1>2
  <1>5. \A x \in Handlers : StockTaken(x)' => \A y \in Handlers \ {x} : ~StockTaken(y)'
    BY <1>3
  <1> QED BY <1>4, <1>5 DEF HeldStock

\* A step that writes no litres.
LEMMA NoLitres ==
    ASSUME StockInv, UNCHANGED <<ledger, byHand, stock>>
    PROVE  byHand' \in Int /\ stock' \in Int /\ JournalStep
  <1>1. LedgerTotal' = LedgerTotal
    BY DEF LedgerTotal, BookedLitres
  <1> QED BY <1>1 DEF StockInv, LedgerTypeOK, JournalStep

\* The read of a handler writes nothing and takes no lock.
LEMMA OpensKeepsStock ==
    ASSUME StockInv, LedgerInv', HeldTripStays, UNCHANGED <<ledger, byHand, stock>>,
           NEW h \in Handlers, NEW s \in HandlerState, s.op # "completing",
           handler' = [handler EXCEPT ![h] = s]
    PROVE  StockKept
  <1>1. handler' \in [Handlers -> HandlerState] /\ handler'[h] = s
    BY SessionsTyped DEF StockInv
  <1>2. \A x \in Handlers : handler'[x].op = "completing" => handler'[x] = handler[x]
    BY <1>1 DEF StockInv, LedgerTypeOK
  <1>3. HeldStock'
    BY <1>2, HeldOn DEF StockInv
  <1> QED BY <1>1, <1>3, NoLitres, TypedAgain DEF StockKept, LedgerInv

\* A booking moves the stock and the journal together, and no lock is in its way.
LEMMA BookMoves ==
    ASSUME LedgerTypeOK, NEW t \in Trips, NEW note \in Notes, NEW litres \in Int,
           Book(t, note, litres), UNCHANGED byHand
    PROVE  /\ byHand' \in Int /\ stock' \in Int
           /\ stock' - LedgerTotal' = stock - LedgerTotal
           /\ StockFree \/ stock' = stock
  <1>0. byHand' \in Int /\ stock \in Int /\ LedgerTotal \in Int
    BY TotalsTyped DEF LedgerTypeOK
  <1>1. CASE Booked(t, note)
    <2>1. UNCHANGED <<ledger, stock, byHand>>
      BY <1>1 DEF Book
    <2>2. LedgerTotal' = LedgerTotal
      BY <2>1 DEF LedgerTotal, BookedLitres
    <2> QED BY <1>0, <2>1, <2>2
  <1>2. CASE ~Booked(t, note)
    <2>1. /\ ledger' = [ledger EXCEPT ![t] = Append(@, [note |-> note, litres |-> litres])]
          /\ stock' = stock + litres /\ StockFree
      BY <1>2 DEF Book
    <2>2. LedgerTotal' = LedgerTotal + litres
      BY <2>1, TotalAppends
    <2> QED BY <1>0, <2>1, <2>2
  <1> QED BY <1>1, <1>2

\* A handler that ends having written no litres, or those of one booking.
LEMMA EndsKeepsStock ==
    ASSUME StockInv, LedgerInv', HeldTripStays, NEW h \in Handlers, Ends(h), UNCHANGED byHand,
           \/ UNCHANGED <<ledger, stock>>
           \/ \E t \in Trips, note \in Notes, litres \in Int : Book(t, note, litres)
    PROVE  StockKept
  <1>1. handler' \in [Handlers -> HandlerState] /\ handler'[h] = Idle
    BY SessionsTyped DEF StockInv, Ends, HandlerState
  <1>2. \A x \in Handlers : handler'[x].op = "completing" => handler'[x] = handler[x]
    BY Closes DEF StockInv
  <1>3. /\ byHand' \in Int /\ stock' \in Int /\ JournalStep
        /\ StockFree \/ stock' = stock
    <2>1. CASE UNCHANGED <<ledger, stock>>
      BY <2>1, NoLitres
    <2>2. CASE \E t \in Trips, note \in Notes, litres \in Int : Book(t, note, litres)
      BY <2>2, BookMoves DEF StockInv, JournalStep
    <2> QED BY <2>1, <2>2
  <1>4. HeldStock'
    BY <1>2, <1>3, HeldOn DEF StockInv
  <1> QED BY <1>1, <1>3, <1>4, TypedAgain DEF StockKept, LedgerInv

\* The reads of the handlers.
LEMMA RequestKeepsStock ==
    ASSUME StockInv, LedgerInv', HeldTripStays, NEW h \in Handlers,
           \/ \E o \in Orders, v \in Planned : AutoCall(h, o, v)
           \/ \E o \in Orders : PurgeBegin(h, o)
           \/ TripRequest(h)
           \/ AutoBegin(h)
    PROVE  StockKept
  <1> USE DEF Opens
  <1>1. ASSUME NEW o \in Orders, NEW v \in Planned, AutoCall(h, o, v) PROVE StockKept
    <2> DEFINE s == [op |-> "called", order |-> o, litres |-> v]
    <2>1. s \in HandlerState /\ s.op # "completing"
      BY DEF HandlerState
    <2> QED BY <1>1, <2>1, OpensKeepsStock DEF AutoCall
  <1>2. ASSUME NEW o \in Orders, PurgeBegin(h, o) PROVE StockKept
    <2>1. PICK s : s = [op |-> "purge", order |-> o, seen |-> Of(o) # {}, owed |-> Litres(o)]
      OBVIOUS
    <2>2. Litres(o) \in Int
      BY TotalsTyped DEF StockInv
    <2>3. s \in HandlerState /\ s.op # "completing"
      BY <2>1, <2>2 DEF HandlerState
    <2>4. handler' = [handler EXCEPT ![h] = s] /\ UNCHANGED <<ledger, byHand, stock>>
      BY <1>2, <2>1 DEF PurgeBegin
    <2> QED BY <2>3, <2>4, OpensKeepsStock
  <1>3. ASSUME NEW t \in Trips, StartBegin(h, t) PROVE StockKept
    <2> DEFINE s == [op |-> "start", trip |-> t]
    <2>1. s \in HandlerState /\ s.op # "completing"
      BY DEF HandlerState
    <2> QED BY <1>3, <2>1, OpensKeepsStock DEF StartBegin
  <1>4. ASSUME NEW t \in Trips, NEW v \in Actual, CompleteBegin(h, t, v) PROVE StockKept
    <2> DEFINE s == [op |-> "complete", trip |-> t, litres |-> v]
    <2>1. s \in HandlerState /\ s.op # "completing"
      BY DEF HandlerState
    <2> QED BY <1>4, <2>1, OpensKeepsStock DEF CompleteBegin
  <1>5. ASSUME NEW t \in Trips, CancelBegin(h, t) PROVE StockKept
    <2>1. PICK s : s = [op |-> "cancel", trip |-> t, read |-> trips[t].status]
      OBVIOUS
    <2>2. s \in HandlerState /\ s.op # "completing"
      BY <1>5, <2>1 DEF HandlerState, CancelBegin, Real
    <2> QED BY <1>5, <2>1, <2>2, OpensKeepsStock DEF CancelBegin
  <1>6. ASSUME ReconcileBegin(h) PROVE StockKept
    <2>1. PICK s : s = [op |-> "reconcile", litres |-> LedgerTotal]
      OBVIOUS
    <2>2. s \in HandlerState /\ s.op # "completing"
      <3>1. LedgerTotal \in Int
        BY TotalsTyped DEF StockInv
      <3> QED BY <2>1, <3>1 DEF HandlerState
    <2>3. handler' = [handler EXCEPT ![h] = s] /\ UNCHANGED <<ledger, byHand, stock>>
      BY <1>6, <2>1 DEF ReconcileBegin
    <2> QED BY <2>2, <2>3, OpensKeepsStock
  <1>7. ASSUME AutoBegin(h) PROVE StockKept
    <2>1. PICK s : s = [handler[h] EXCEPT !.op = "auto"]
      OBVIOUS
    <2>2. handler[h] \in [op: {"called", "auto"}, order: Orders, litres: Planned]
      BY <1>7 DEF AutoBegin, StockInv, LedgerInv, RowsOK, SessionOK
    <2>3. s \in HandlerState /\ s.op # "completing"
      BY <2>1, <2>2 DEF HandlerState
    <2>4. handler' = [handler EXCEPT ![h] = s] /\ UNCHANGED <<ledger, byHand, stock>>
      BY <1>7, <2>1 DEF AutoBegin
    <2> QED BY <2>3, <2>4, OpensKeepsStock
  <1> QED BY <1>1, <1>2, <1>3, <1>4, <1>5, <1>6, <1>7 DEF TripRequest

\* The commits that end their session and book at most once.
LEMMA CommitKeepsStock ==
    ASSUME StockInv, LedgerInv', HeldTripStays, NEW h \in Handlers,
           \/ \E t \in Trips : AutoCommit(h, t)
           \/ StartCommit(h) \/ CancelCommit(h) \/ AutoFound(h) \/ Abort(h)
    PROVE  StockKept
  <1>0. /\ "trip_planned" \in Notes /\ "trip_cancelled" \in Notes
        /\ \A t \in Trips : trips[t] \in Trip /\ trips[t].planned \in Int /\ -trips[t].planned \in Int
    <2>1. \A t \in Trips : trips[t] \in Trip
      BY DEF StockInv, LedgerTypeOK
    <2>2. \A t \in Trips : trips[t].planned \in Planned
      BY <2>1 DEF Trip
    <2>3. \A v \in Planned : v \in Int /\ -v \in Int
      BY LitresAssumption
    <2> QED BY <2>1, <2>2, <2>3 DEF Notes
  <1>1. ASSUME NEW t \in Trips, AutoCommit(h, t) PROVE StockKept
    <2>1. handler[h].litres \in Planned
      BY <1>1 DEF AutoCommit, StockInv, LedgerInv, RowsOK, SessionOK
    <2>2. \A v \in Planned : -v \in Int
      BY LitresAssumption
    <2>3. Book(t, "trip_planned", -handler[h].litres) /\ Ends(h) /\ UNCHANGED byHand
      BY <1>1 DEF AutoCommit
    <2> QED BY <1>0, <2>1, <2>2, <2>3, EndsKeepsStock
  <1>2. ASSUME StartCommit(h) PROVE StockKept
    <2>1. handler[h].trip \in Trips
      BY <1>2 DEF StartCommit, StockInv, LedgerInv, RowsOK, SessionOK
    <2>2. /\ Ends(h) /\ UNCHANGED byHand
          /\ \/ UNCHANGED <<ledger, stock>>
             \/ Book(handler[h].trip, "trip_planned", -trips[handler[h].trip].planned)
      BY <1>2 DEF StartCommit
    <2> QED BY <1>0, <2>1, <2>2, EndsKeepsStock
  <1>3. ASSUME CancelCommit(h) PROVE StockKept
    <2>1. handler[h].trip \in Trips
      BY <1>3 DEF CancelCommit, StockInv, LedgerInv, RowsOK, SessionOK
    <2>2. /\ Ends(h) /\ UNCHANGED byHand
          /\ \/ UNCHANGED <<ledger, stock>>
             \/ Book(handler[h].trip, "trip_cancelled", trips[handler[h].trip].planned)
      BY <1>3 DEF CancelCommit
    <2> QED BY <1>0, <2>1, <2>2, EndsKeepsStock
  <1>4. ASSUME AutoFound(h) \/ Abort(h) PROVE StockKept
    <2>1. Ends(h) /\ UNCHANGED <<ledger, stock, byHand>>
      BY <1>4 DEF AutoFound, Abort
    <2> QED BY <2>1, EndsKeepsStock
  <1> QED BY <1>1, <1>2, <1>3, <1>4

\* The write of a completion takes the stock only if nobody holds it, and reads it then.
LEMMA CompleteWriteKeepsStock ==
    ASSUME StockInv, LedgerInv', HeldTripStays, NEW h \in Handlers, CompleteWrite(h)
    PROVE  StockKept
  <1>1. handler[h] \in [op: {"complete"}, trip: Trips, litres: Actual]
    BY DEF CompleteWrite, StockInv, LedgerInv, RowsOK, SessionOK
  <1>2. PICK s : s = [op |-> "completing", trip |-> handler[h].trip,
                      litres |-> handler[h].litres, stockRead |-> stock]
    OBVIOUS
  <1>3. s \in HandlerState
    BY <1>1, <1>2 DEF HandlerState, StockInv, LedgerTypeOK
  <1>4. handler' = [handler EXCEPT ![h] = s] /\ UNCHANGED <<trips, ledger, byHand, stock>>
    BY <1>2 DEF CompleteWrite
  <1>5. handler' \in [Handlers -> HandlerState] /\ handler'[h] = s
    BY <1>3, <1>4, SessionsTyped DEF StockInv
  <1>6. \A x \in Handlers \ {h} : handler'[x] = handler[x]
    BY <1>4 DEF StockInv, LedgerTypeOK
  <1>7. \A x \in Handlers \ {h} : StockTaken(x)' <=> StockTaken(x)
    BY <1>4, <1>6 DEF StockTaken, Difference, Booked
  <1>8. StockTaken(h)' => \A x \in Handlers : ~StockTaken(x)
    <2>1. ASSUME StockTaken(h)' PROVE StockFree
      <3>1. Difference(handler[h].trip, handler[h].litres) # 0
        BY <1>2, <1>4, <1>5, <2>1 DEF StockTaken, Difference, Booked
      <3> QED BY <3>1 DEF CompleteWrite
    <2> QED BY <2>1 DEF StockFree, StockTaken
  <1>9. handler'[h].stockRead = stock'
    BY <1>2, <1>4, <1>5
  <1>10. ~StockTaken(h)
    BY <1>1 DEF StockTaken
  <1>11. HeldStock'
    BY <1>4, <1>6, <1>7, <1>8, <1>9, <1>10 DEF HeldStock, StockInv
  <1> QED BY <1>4, <1>5, <1>11, NoLitres, TypedAgain DEF StockKept, LedgerInv

\* The commit of a completion writes the stock that it read and holds.
LEMMA CompleteCommitKeepsStock ==
    ASSUME StockInv, LedgerInv', HeldTripStays, NEW h \in Handlers, CompleteCommit(h)
    PROVE  StockKept
  <1> DEFINE t == handler[h].trip
             litres == Difference(t, handler[h].litres)
  <1>1. t \in Trips /\ handler[h].op = "completing" /\ handler[h].litres \in Actual
    BY DEF CompleteCommit, StockInv, LedgerInv, RowsOK, SessionOK
  <1>2. Ends(h) /\ UNCHANGED byHand
    BY DEF CompleteCommit
  <1>3. CASE litres = 0
    <2>1. UNCHANGED <<ledger, stock>>
      BY <1>3 DEF CompleteCommit
    <2> QED BY <1>2, <2>1, EndsKeepsStock
  <1>4. CASE litres # 0
    <2>1. /\ ledger' = [ledger EXCEPT ![t] = Append(@, [note |-> "trip_adjustment", litres |-> litres])]
          /\ stock' = handler[h].stockRead + litres
      BY <1>4 DEF CompleteCommit
    <2>2. StockTaken(h)
      BY <1>1, <1>4 DEF StockTaken
    <2>3. handler[h].stockRead = stock /\ \A x \in Handlers \ {h} : ~StockTaken(x)
      BY <2>2 DEF StockInv, HeldStock
    <2>4. litres \in Int
      <3>1. trips[t].planned \in Planned /\ handler[h].litres \in Actual
        BY <1>1 DEF StockInv, LedgerTypeOK, Trip
      <3>2. \A v \in Planned, w \in Actual : v - w \in Int
        BY LitresAssumption
      <3> QED BY <3>1, <3>2 DEF Difference
    <2>5. LedgerTotal' = LedgerTotal + litres
      <3>1. "trip_adjustment" \in Notes
        BY DEF Notes
      <3> HIDE DEF t, litres
      <3> QED BY <1>1, <1>2, <2>1, <2>4, <3>1, TotalAppends DEF StockInv
    <2>6. byHand' \in Int /\ stock' \in Int /\ JournalStep
      <3>1. stock \in Int /\ byHand' \in Int /\ LedgerTotal \in Int
        BY <1>2, TotalsTyped DEF StockInv, LedgerTypeOK
      <3>2. stock' = stock + litres
        BY <2>1, <2>3
      <3> HIDE DEF litres, t
      <3>3. stock' - LedgerTotal' = stock - LedgerTotal
        BY <2>4, <2>5, <3>1, <3>2
      <3> QED BY <2>4, <3>1, <3>2, <3>3 DEF JournalStep
    <2>7. handler' \in [Handlers -> HandlerState] /\ handler'[h] = Idle
      BY <1>2, SessionsTyped DEF StockInv, Ends, HandlerState
    <2>8. \A x \in Handlers : handler'[x].op = "completing" => x # h /\ handler'[x] = handler[x]
      BY <1>2, Closes DEF StockInv
    <2>9. \A x \in Handlers : ~StockTaken(x)'
      <3> SUFFICES ASSUME NEW x \in Handlers, StockTaken(x)' PROVE FALSE
        OBVIOUS
      <3>1. x # h /\ handler'[x] = handler[x] /\ handler[x].op = "completing"
        BY <2>8 DEF StockTaken
      <3>2. trips'[handler[x].trip] = trips[handler[x].trip] /\ ledger'[handler[x].trip] = ledger[handler[x].trip]
        BY <3>1 DEF HeldTripStays
      <3>3. StockTaken(x)
        BY <3>1, <3>2 DEF StockTaken, Difference, Booked
      <3> QED BY <2>3, <3>1, <3>3
    <2>10. HeldStock'
      BY <2>9 DEF HeldStock
    <2> QED BY <2>6, <2>7, <2>10, TypedAgain DEF StockKept, LedgerInv
  <1> QED BY <1>3, <1>4

\* The recount sets the stock while nobody holds it.
LEMMA ReconcileKeepsStock ==
    ASSUME StockInv, LedgerInv', HeldTripStays, NEW h \in Handlers, ReconcileCommit(h)
    PROVE  StockKept
  <1>1. Ends(h) /\ StockFree /\ UNCHANGED byHand /\ stock' = handler[h].litres
    BY DEF ReconcileCommit
  <1>2. handler[h] \in HandlerState /\ handler[h].op = "reconcile"
    BY DEF ReconcileCommit, StockInv, LedgerTypeOK
  <1>3. handler[h].litres \in Int
    BY <1>2, LitresAssumption DEF HandlerState, Idle
  <1>4. handler' \in [Handlers -> HandlerState]
    BY <1>1, SessionsTyped DEF StockInv, Ends, HandlerState
  <1>5. HeldStock'
    BY <1>1, Closes, HeldOn DEF StockInv
  <1>6. byHand' \in Int /\ stock' \in Int
    BY <1>1, <1>3 DEF StockInv, LedgerTypeOK
  <1> QED BY <1>4, <1>5, <1>6, TypedAgain DEF StockKept, LedgerInv, JournalStep

\* The purge gives back the litres of the rows it deletes, when it had read them all.
LEMMA PurgeKeepsStock ==
    ASSUME StockInv, LedgerInv', HeldTripStays, NEW h \in Handlers, PurgeCommit(h)
    PROVE  StockKept
  <1> DEFINE o == handler[h].order
  <1>1. Ends(h) /\ UNCHANGED byHand /\ handler[h].op = "purge"
    BY DEF PurgeCommit
  <1>2. handler[h] \in HandlerState
    BY DEF StockInv, LedgerTypeOK
  <1>3. handler[h].owed \in Int
    BY <1>1, <1>2 DEF HandlerState, Idle
  <1>4. handler' \in [Handlers -> HandlerState]
    BY <1>1, SessionsTyped DEF StockInv, Ends, HandlerState
  <1>5. CASE ~handler[h].seen
    <2>1. UNCHANGED <<ledger, stock>>
      BY <1>5 DEF PurgeCommit
    <2> QED BY <1>1, <2>1, EndsKeepsStock
  <1>6. CASE handler[h].seen
    <2>1. /\ StockFree /\ stock' = stock - handler[h].owed
          /\ ledger' = [t \in Trips |-> IF t \in Of(o) THEN << >> ELSE ledger[t]]
      BY <1>6 DEF PurgeCommit
    <2>2. byHand' \in Int /\ stock \in Int /\ LedgerTotal \in Int
      BY <1>1, TotalsTyped DEF StockInv, LedgerTypeOK
    <2>3. JournalStep
      <3>1. CASE handler[h].owed # Litres(o)
        BY <3>1 DEF JournalStep
      <3>2. CASE handler[h].owed = Litres(o)
        <4>1. LedgerTotal' = LedgerTotal - Litres(o)
          <5> HIDE DEF o
          <5> QED BY <1>1, <2>1, TotalPurged DEF StockInv
        <4>2. stock' - LedgerTotal' = stock - LedgerTotal
          BY <1>3, <2>1, <2>2, <3>2, <4>1
        <4> QED BY <4>2 DEF JournalStep
      <3> QED BY <3>1, <3>2
    <2>4. HeldStock'
      BY <1>1, <2>1, Closes, HeldOn DEF StockInv
    <2>5. stock' \in Int
      BY <1>3, <2>1, <2>2
    <2> QED BY <1>4, <2>2, <2>3, <2>4, <2>5, TypedAgain DEF StockKept, LedgerInv
  <1> QED BY <1>5, <1>6

\* The staff: a trip more, or an entry by hand, which locks the stock.
LEMMA StaffKeepsStock ==
    ASSUME StockInv, LedgerInv', HeldTripStays, ByStaff
    PROVE  StockKept
  <1>1. ASSUME NEW t \in Trips, NEW o \in Orders, NEW v \in Planned, NEW tracked \in BOOLEAN,
               CreateTrip(t, o, v, tracked)
        PROVE  StockKept
    <2>1. UNCHANGED <<ledger, byHand, stock, handler>>
      BY <1>1 DEF CreateTrip
    <2>2. HeldStock'
      BY <2>1, HeldOn DEF StockInv
    <2>3. handler' \in [Handlers -> HandlerState]
      BY <2>1 DEF StockInv, LedgerTypeOK
    <2> QED BY <2>1, <2>2, <2>3, NoLitres, TypedAgain DEF StockKept, LedgerInv
  <1>2. ASSUME NEW delta \in Deltas, EntryByHand(delta) PROVE StockKept
    <2>1. /\ StockFree /\ byHand' = byHand + delta /\ stock' = stock + delta
          /\ UNCHANGED <<ledger, handler>>
      BY <1>2 DEF EntryByHand
    <2>2. delta \in Int /\ byHand \in Int /\ stock \in Int
      BY LitresAssumption DEF StockInv, LedgerTypeOK
    <2>3. HeldStock'
      BY <2>1, HeldOn DEF StockInv
    <2>4. handler' \in [Handlers -> HandlerState]
      BY <2>1 DEF StockInv, LedgerTypeOK
    <2>5. stock' - LedgerTotal' = stock - LedgerTotal
      <3>1. PICK n : n = SumFunctionOnSet(BookedLitres, Trips)
        OBVIOUS
      <3>2. n \in Int
        BY <3>1, TotalsTyped, SumType, LitresAssumption DEF StockInv
      <3>3. LedgerTotal = byHand + n /\ LedgerTotal' = byHand' + n
        BY <2>1, <3>1 DEF LedgerTotal, BookedLitres
      <3> QED BY <2>1, <2>2, <3>2, <3>3
    <2> QED BY <2>1, <2>2, <2>3, <2>4, <2>5, TypedAgain DEF StockKept, LedgerInv, JournalStep
  <1> QED BY <1>1, <1>2 DEF ByStaff

\* Every step keeps the types and the held stock, and moves the stock with the journal.
LEMMA StockStep == StockInv /\ [LedgerNext]_ledgerVars => StockInv' /\ [JournalStep]_ledgerVars
  <1> SUFFICES ASSUME StockInv, [LedgerNext]_ledgerVars PROVE StockInv' /\ [JournalStep]_ledgerVars
    OBVIOUS
  <1>0. LedgerInv' /\ HeldTripStays
    BY LedgerStep DEF StockInv
  <1>1. CASE ByStaff
    BY <1>0, <1>1, StaffKeepsStock DEF StockInv, StockKept
  <1>2. ASSUME NEW h \in Handlers,
               \/ \E o \in Orders, v \in Planned : AutoCall(h, o, v)
               \/ \E o \in Orders : PurgeBegin(h, o)
               \/ TripRequest(h)
        PROVE  StockKept
    BY <1>0, <1>2, RequestKeepsStock
  <1>3. ASSUME NEW h \in Handlers, TripStep(h) PROVE StockKept
    BY <1>0, <1>3, RequestKeepsStock, CommitKeepsStock, CompleteWriteKeepsStock,
       ReconcileKeepsStock, PurgeKeepsStock DEF TripStep
  <1>4. ASSUME NEW h \in Handlers, CompleteCommit(h) \/ Abort(h) PROVE StockKept
    BY <1>0, <1>4, CompleteCommitKeepsStock, CommitKeepsStock
  <1>5. CASE UNCHANGED ledgerVars
    <2>1. UNCHANGED <<ledger, byHand, stock, handler>>
      BY <1>5 DEF ledgerVars
    <2>2. HeldStock'
      BY <1>0, <2>1, HeldOn DEF StockInv
    <2>3. handler' \in [Handlers -> HandlerState]
      BY <2>1 DEF StockInv, LedgerTypeOK
    <2>4. StockKept
      BY <1>0, <2>1, <2>2, <2>3, NoLitres, TypedAgain DEF StockKept, LedgerInv
    <2> QED BY <1>0, <2>4 DEF StockKept, StockInv
  <1> QED BY <1>0, <1>1, <1>2, <1>3, <1>4, <1>5 DEF LedgerNext, StockKept, StockInv

\* Nothing is held before the first request.
LEMMA StockStart == LedgerInit => StockInv
  <1> SUFFICES ASSUME LedgerInit PROVE StockInv
    OBVIOUS
  <1>1. LedgerInv
    BY InitHolds
  <1>2. byHand \in Int /\ stock \in Int /\ handler = [h \in Handlers |-> Idle]
    BY DEF LedgerInit
  <1>3. handler \in [Handlers -> HandlerState]
    BY <1>2 DEF HandlerState
  <1>4. LedgerTypeOK
    BY <1>1, <1>2, <1>3 DEF LedgerInv, RowsOK, LedgerTypeOK, Entry
  <1>5. HeldStock
    BY <1>2 DEF HeldStock, StockTaken, Idle
  <1> QED BY <1>1, <1>4, <1>5 DEF StockInv
-----------------------------------------------------------------------------
(* What the handlers keep true, for any number of them *)

\* The litres of a tracked trip are taken before anything is returned or adjusted,
\* however the starts, completions, cancellations and purges overlap.
THEOREM DepartureComesFirst == LedgerSpec => []DepartureFirst
  <1>1. LedgerInv => DepartureFirst
    BY DEF LedgerInv
  <1> QED BY InitHolds, LedgerStep, <1>1, PTL DEF LedgerSpec

\* No trip is booked twice for one reason.
THEOREM NoteIsBookedOnce == LedgerSpec => []OneRowPerNote
  <1>1. ASSUME LedgerInv PROVE OneRowPerNote
    <2> SUFFICES ASSUME NEW t \in Trips, NEW note \in Notes
                 PROVE  Cardinality({i \in DOMAIN ledger[t] : ledger[t][i].note = note}) <= 1
      BY DEF OneRowPerNote
    <2> DEFINE S == {i \in DOMAIN ledger[t] : ledger[t][i].note = note}
    <2>1. \A i, j \in S : i = j
      BY <1>1 DEF LedgerInv, NotesDiffer
    <2> HIDE DEF S
    <2>2. Cardinality(S) <= 1
      <3>1. CASE S = {}
        BY <3>1, FS_EmptySet
      <3>2. CASE S # {}
        <4>1. PICK i \in S : S = {i}
          BY <2>1, <3>2
        <4>2. Cardinality({i}) = 1
          BY FS_Singleton
        <4> QED BY <4>1, <4>2
      <3> QED BY <3>1, <3>2
    <2> QED BY <2>2 DEF S
  <1> QED BY InitHolds, LedgerStep, <1>1, PTL DEF LedgerSpec

\* The trip of a completion that waits for order_service stays as it is, whatever the
\* other sessions do meanwhile.
THEOREM CompletingTripStays == LedgerSpec => CompletingTripStable
  <1>1. LedgerInv /\ [LedgerNext]_ledgerVars => [HeldTripStays]_ledgerVars
    BY LedgerStep
  <1>2. LedgerSpec => [][HeldTripStays]_ledgerVars
    BY InitHolds, LedgerStep, <1>1, PTL DEF LedgerSpec
  <1> QED BY <1>2 DEF CompletingTripStable, HeldTripStays

\* However the bookings overlap, the stock goes with the journal: a completion that waits for
\* order_service has read the stock under its lock, and nobody else writes it meanwhile.
THEOREM StockGoesWithJournal == LedgerSpec => StockFollowsJournal
  <1>1. LedgerSpec => [][JournalStep]_ledgerVars
    BY StockStart, StockStep, PTL DEF LedgerSpec
  <1> QED BY <1>1 DEF StockFollowsJournal, JournalStep

\* The ledger of the service: everything is of its type, no trip is booked twice for one
\* reason, and what corrects or takes back a departure comes after it.
THEOREM LedgerStaysOK == LedgerSpec => []LedgerOK
  <1>1. LedgerSpec => []LedgerTypeOK
    <2>1. StockInv => LedgerTypeOK
      BY DEF StockInv
    <2> QED BY StockStart, StockStep, <2>1, PTL DEF LedgerSpec
  <1>2. LedgerTypeOK /\ OneRowPerNote /\ DepartureFirst => LedgerOK
    BY DEF LedgerOK
  <1> QED BY NoteIsBookedOnce, DepartureComesFirst, <1>1, <1>2, PTL
=============================================================================
