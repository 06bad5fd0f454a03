--------------------------------- MODULE Tanks ---------------------------------
(***************************************************************************)
(* The storage tanks of delivery_service: the litres in a tank, the meter  *)
(* of its pump, which turns over at Modulus, and its journal.              *)
(*                                                                         *)
(* Every operation on one tank reads and writes it under FOR UPDATE, so it *)
(* is one step that waits for the tank to be free.  Two requests take more *)
(* locks, one after another, and are sessions: a transfer, and the purge   *)
(* of a deleted order, which reads the rows of the order before it locks   *)
(* their tanks, and deletes them after that.                               *)
(*                                                                         *)
(* A row carries its litres with their sign, which the table leaves to the *)
(* kind (and, for a correction, to its notes).  A row that was purged      *)
(* stays as "gone", so that the order of the others can be talked about.   *)
(* The stock of the fuel, which record_expense and the purge change in the *)
(* same transaction, is in TripLedger; names, fuels and the mark of hidden *)
(* tanks, which no operation looks at, are left out.                       *)
(***************************************************************************)
EXTENDS Integers, Sequences, FiniteSets, Functions

CONSTANTS
    Tanks,         \* ids of tanks: numbers, for the order of their strings
    Orders,        \* ids of orders fuel is issued for
    Sessions,      \* requests that hold more than one lock
    Modulus,       \* TANK_COUNTER_MODULUS, 1 000 000 in the code
    Amounts,       \* litres of an arrival, an expense or a transfer
    Levels,        \* volumes a tank is created with or corrected to
    FirstReadings, \* readings a tank is created with
    MaxRows,       \* bound: rows of all journals
    NoOrder, NoTank

ASSUME TanksAssumption   == Tanks \subseteq Nat /\ IsFiniteSet(Tanks) /\ NoTank \notin Tanks
ASSUME ModulusAssumption == Modulus \in Nat /\ Modulus > 1
ASSUME AmountsAssumption == Amounts \subseteq Nat \ {0} /\ Levels \subseteq Int
ASSUME ReadingsAssumption == FirstReadings \subseteq 0..Modulus - 1
ASSUME NoOrderAssumption == NoOrder \notin Orders /\ MaxRows \in Nat

VARIABLES
    tanks,     \* the fuel_tanks table
    journal,   \* the rows of tank_transactions, by tank
    session    \* what each session has read and holds

tankVars == <<tanks, journal, session>>

Readings == 0..Modulus - 1

Tank == [state: {"none", "live", "deleted"}, volume: Int, counter: Readings]

TankTxKind == {"arrival", "issue", "transfer_in", "transfer_out", "adjust", "expense"}

Row == [kind: TankTxKind \cup {"gone"}, litres: Int, before: Readings, after: Readings,
        order: Orders \cup {NoOrder}, peer: Tanks \cup {NoTank}]

Idle == [op |-> "idle"]

SessionState ==
    {Idle}
    \cup [op: {"transfer"}, from: Tanks, to: Tanks, volume: Amounts, held: SUBSET Tanks]
    \cup [op: {"purge"}, order: Orders, seen: SUBSET (Tanks \X (1..MaxRows)), held: SUBSET Tanks]

TanksInit ==
    /\ tanks = [t \in Tanks |-> [state |-> "none", volume |-> 0, counter |-> 0]]
    /\ journal = [t \in Tanks |-> << >>]
    /\ session = [s \in Sessions |-> Idle]

-----------------------------------------------------------------------------
(* The meter, the locks and the journal *)

\* Mutant: the turn of the meter is counted from its last reading.
CounterDeltaShort(before, after) ==
    IF after >= before THEN after - before ELSE Modulus - 1 - before + after

CounterDelta(before, after) ==
    IF after >= before THEN after - before ELSE Modulus - before + after

Live(t) == tanks[t].state = "live"

Holds(s, t) == session[s].op # "idle" /\ t \in session[s].held

Free(t) == \A s \in Sessions : ~Holds(s, t)

Entry(t, kind, litres, reading) ==
    [kind |-> kind, litres |-> litres, before |-> tanks[t].counter, after |-> reading,
     order |-> NoOrder, peer |-> NoTank]

Room(n) == FoldFunction(LAMBDA a, b : a + b, 0, [t \in Tanks |-> Len(journal[t])]) + n <= MaxRows

\* The tank and its journal after one more row.
Moved(t, row) == [tanks[t] EXCEPT !.volume = @ + row.litres, !.counter = row.after]

Posts(t, row) ==
    /\ Room(1)
    /\ tanks' = [tanks EXCEPT ![t] = Moved(t, row)]
    /\ journal' = [journal EXCEPT ![t] = Append(@, row)]

Litres(t) == [i \in DOMAIN journal[t] |-> journal[t][i].litres]

Total(t) == SumFunctionOnSet(Litres(t), {i \in DOMAIN journal[t] : journal[t][i].kind # "gone"})

-----------------------------------------------------------------------------
(* Operations on one tank *)

\* A tank that begins empty begins without a row.
CreateTank(t, level, reading) ==
    /\ tanks[t].state = "none" /\ level >= 0 /\ Room(1)
    /\ tanks' = [tanks EXCEPT ![t] = [state |-> "live", volume |-> level, counter |-> reading]]
    /\ journal' = [journal EXCEPT ![t] =
          IF level = 0 THEN << >>
          ELSE <<[Entry(t, "adjust", level, reading) EXCEPT !.before = reading]>>]
    /\ UNCHANGED session

\* Mutant: a tank that fuel was only transferred to may be deleted.
DeleteTankSupplied(t) ==
    /\ Live(t) /\ Free(t)
    /\ \A i \in DOMAIN journal[t] :
          journal[t][i].kind \notin {"issue", "expense", "transfer_out"}
    /\ tanks' = [tanks EXCEPT ![t] = [state |-> "deleted", volume |-> 0, counter |-> 0]]
    /\ journal' = [journal EXCEPT ![t] = << >>]
    /\ UNCHANGED session

\* A tank without issues, expenses and transfers; its other rows go with it.
DeleteTank(t) ==
    /\ Live(t) /\ Free(t)
    /\ \A i \in DOMAIN journal[t] :
          journal[t][i].kind \notin {"issue", "expense", "transfer_in", "transfer_out"}
    /\ tanks' = [tanks EXCEPT ![t] = [state |-> "deleted", volume |-> 0, counter |-> 0]]
    /\ journal' = [journal EXCEPT ![t] = << >>]
    /\ UNCHANGED session

\* Mutant: the reading is allowed to be the modulus.
AdjustTankBeyond(t, level, reading) ==
    /\ Live(t) /\ Free(t)
    /\ Posts(t, Entry(t, "adjust", level - tanks[t].volume, reading + 1))
    /\ UNCHANGED session

\* The level, the reading or both are set: what is not given stays.
AdjustTank(t, level, reading) ==
    /\ Live(t) /\ Free(t)
    /\ Posts(t, Entry(t, "adjust", level - tanks[t].volume, reading))
    /\ UNCHANGED session

RecordArrival(t, litres) ==
    /\ Live(t) /\ Free(t)
    /\ Posts(t, Entry(t, "arrival", litres, tanks[t].counter))
    /\ UNCHANGED session

\* The driver enters the new reading; its distance is what was issued.
RecordIssue(t, reading, order) ==
    LET litres == CounterDelta(tanks[t].counter, reading) IN
    /\ Live(t) /\ Free(t)
    /\ litres > 0
    /\ Posts(t, [Entry(t, "issue", -litres, reading) EXCEPT !.order = order])
    /\ UNCHANGED session

\* The litres are those entered, whatever the meter says; it may not have been
\* read at all, and then stays.
RecordExpense(t, litres, reading) ==
    /\ Live(t) /\ Free(t)
    /\ Posts(t, Entry(t, "expense", -litres, reading))
    /\ UNCHANGED session

-----------------------------------------------------------------------------
(* Requests that take several locks *)

\* Mutant: the source is locked first.
AskedUnsorted(s) ==
    LET me == session[s] IN
    CASE me.op = "transfer" -> IF me.from \notin me.held THEN {me.from} ELSE {me.to} \ me.held
      [] me.op = "purge"    -> {seen[1] : seen \in me.seen} \ me.held
      [] OTHER              -> {}

\* The tanks of which the session locks one next: a transfer takes the lower id
\* first, a purge takes them as the rows come.
Asked(s) ==
    LET me == session[s] IN
    CASE me.op = "transfer" -> {t \in {me.from, me.to} \ me.held :
                                   \A u \in {me.from, me.to} \ me.held : t <= u}
      [] me.op = "purge"    -> {seen[1] : seen \in me.seen} \ me.held
      [] OTHER              -> {}

Goes(s, state) == session' = [session EXCEPT ![s] = state]

TransferBegin(s, from, to, litres) ==
    /\ session[s] = Idle /\ from # to
    /\ Goes(s, [op |-> "transfer", from |-> from, to |-> to, volume |-> litres, held |-> {}])
    /\ UNCHANGED <<tanks, journal>>

\* handle_order_deleted: the rows of the order are read.
PurgeBegin(s, o) ==
    /\ session[s] = Idle
    /\ \A r \in Sessions : session[r].op = "purge" => session[r].order # o
    /\ Goes(s, [op |-> "purge", order |-> o, held |-> {},
                seen |-> {at \in Tanks \X (1..MaxRows) :
                    /\ at[2] <= Len(journal[at[1]])
                    /\ journal[at[1]][at[2]].order = o
                    /\ journal[at[1]][at[2]].kind # "gone"}])
    /\ UNCHANGED <<tanks, journal>>

\* A row that is gone cannot be locked: the transfer is refused then, see RollBack.
Lock(s, t) ==
    /\ t \in Asked(s)
    /\ Free(t) /\ Live(t)
    /\ Goes(s, [session[s] EXCEPT !.held = @ \cup {t}])
    /\ UNCHANGED <<tanks, journal>>

TransferCommit(s) ==
    LET me  == session[s]
        out == [Entry(me.from, "transfer_out", -me.volume, tanks[me.from].counter) EXCEPT !.peer = me.to]
        in  == [Entry(me.to, "transfer_in", me.volume, tanks[me.to].counter) EXCEPT !.peer = me.from]
    IN
    /\ me.op = "transfer" /\ Asked(s) = {}
    /\ Room(2)
    /\ tanks' = [tanks EXCEPT ![me.from] = Moved(me.from, out), ![me.to] = Moved(me.to, in)]
    /\ journal' = [journal EXCEPT ![me.from] = Append(@, out), ![me.to] = Append(@, in)]
    /\ Goes(s, Idle)

\* The litres of the rows of a tank that were read.
Seen(me, t) == SumFunctionOnSet(Litres(t), {i \in DOMAIN journal[t] : <<t, i>> \in me.seen})

\* DELETE: the rows the order has by now, if any had been read.
WithoutOrder(me) ==
    [t \in Tanks |-> [i \in DOMAIN journal[t] |->
        IF me.seen # {} /\ journal[t][i].order = me.order
        THEN [journal[t][i] EXCEPT !.kind = "gone"] ELSE journal[t][i]]]

\* Mutant: the rows are given back as if an issue had filled the tank.
PurgeCommitIncoming(s) ==
    LET me == session[s] IN
    /\ me.op = "purge" /\ Asked(s) = {}
    /\ tanks' = [t \in Tanks |-> [tanks[t] EXCEPT !.volume = @ + Seen(me, t)]]
    /\ journal' = WithoutOrder(me)
    /\ Goes(s, Idle)

\* What was read is given back, under the locks, and the rows deleted.
PurgeCommit(s) ==
    LET me == session[s] IN
    /\ me.op = "purge" /\ Asked(s) = {}
    /\ tanks' = [t \in Tanks |-> [tanks[t] EXCEPT !.volume = @ - Seen(me, t)]]
    /\ journal' = WithoutOrder(me)
    /\ Goes(s, Idle)

\* A tank that is not there, an exception, a deadlock that the database breaks or
\* the end of the process.  The event of a purge is lost with it.
RollBack(s) ==
    /\ session[s] # Idle
    /\ Goes(s, Idle)
    /\ UNCHANGED <<tanks, journal>>

TanksNext ==
    \/ \E t \in Tanks :
         \/ \E level \in Levels, reading \in FirstReadings : CreateTank(t, level, reading)
         \/ DeleteTank(t)
         \/ \E level \in Levels \cup {tanks[t].volume}, reading \in Readings : AdjustTank(t, level, reading)
         \/ \E litres \in Amounts : RecordArrival(t, litres)
         \/ \E reading \in Readings, o \in Orders \cup {NoOrder} : RecordIssue(t, reading, o)
         \/ \E litres \in Amounts, reading \in Readings : RecordExpense(t, litres, reading)
    \/ \E s \in Sessions :
         \/ \E t, u \in Tanks, litres \in Amounts : TransferBegin(s, t, u, litres)
         \/ \E o \in Orders : PurgeBegin(s, o)
         \/ \E t \in Tanks : Lock(s, t)
         \/ TransferCommit(s) \/ PurgeCommit(s) \/ RollBack(s)

TanksSpec == TanksInit /\ [][TanksNext]_tankVars

-----------------------------------------------------------------------------
(* What the handlers keep true under every interleaving *)

\* Every tank, row and session is of its type: the meter stays below its modulus.
TanksTypeOK ==
    /\ tanks \in [Tanks -> Tank]
    /\ \A t \in Tanks : journal[t] \in Seq(Row)
    /\ session \in [Sessions -> SessionState]

\* The readings of a tank's journal follow one another up to the tank's own, with
\* none skipped or used twice, and an issue has taken what the meter has turned.
ReadingsChain ==
    \A t \in Tanks :
        /\ \A i \in DOMAIN journal[t] :
             journal[t][i].after = IF i = Len(journal[t]) THEN tanks[t].counter
                                   ELSE journal[t][i + 1].before
        /\ \A i \in DOMAIN journal[t] : journal[t][i].kind = "issue" =>
             /\ -journal[t][i].litres \in 1..Modulus - 1
             /\ (journal[t][i].before - journal[t][i].litres) % Modulus = journal[t][i].after

\* Each litre that left one tank for another arrived there: the rows of the two
\* journals are the same in the same order, whoever transfers the other way.
Moves(t, kind, peer) ==
    {i \in DOMAIN journal[t] : journal[t][i].kind = kind /\ journal[t][i].peer = peer}

PlaceIn(moves, i) == Cardinality({j \in moves : j < i})

TransfersPair ==
    \A t, u \in Tanks :
        LET out == Moves(t, "transfer_out", u)
            in  == Moves(u, "transfer_in", t)
        IN /\ Cardinality(out) = Cardinality(in)
           /\ \A i \in out, j \in in : PlaceIn(out, i) = PlaceIn(in, j) =>
                 journal[t][i].litres + journal[u][j].litres = 0

\* Transfers never wait for one another in a circle (a purge, which takes its
\* locks in another order, may be part of one).
NoTransferCircle ==
    \A Circle \in SUBSET {s \in Sessions : session[s].op = "transfer"} :
        Circle # {} => \E s \in Circle : \A r \in Circle, t \in Asked(s) : ~Holds(r, t)

\* The volume goes with the journal in every step but the purge of an order fuel
\* was issued for after the purge had read the rows.
VolumeFollowsJournal ==
    [][\/ \E s \in Sessions : /\ PurgeCommit(s)
                              /\ \E t \in Tanks : \E i \in DOMAIN journal[t] :
                                   /\ journal[t][i].kind # "gone"
                                   /\ journal[t][i].order = session[s].order
                                   /\ <<t, i>> \notin session[s].seen
       \/ \A t \in Tanks : tanks'[t].state = "live" =>
            tanks'[t].volume - Total(t)' = tanks[t].volume - Total(t)]_tankVars
=============================================================================
