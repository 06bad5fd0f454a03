----------------------------- MODULE TanksFleetProofs -----------------------------
(***************************************************************************)
(* Proofs about Tanks for any finite set of tanks, any sessions, litres    *)
(* and modulus:                                                            *)
(*   - transfers do not wait for one another in a circle, because each     *)
(*     takes the lower of its tanks first;                                 *)
(*   - the readings of every journal follow one another up to the tank's   *)
(*     own, and an issue has taken what the meter has turned;              *)
(*   - the volume of a tank goes with its journal in every step but the    *)
(*     purge of an order that fuel was issued for after the purge had read *)
(*     its rows, because what a purge has read still stands when it        *)
(*     commits;                                                            *)
(*   - each transfer has its two rows, in the same place of both journals. *)
(*                                                                         *)
(* Then proofs about Fleet for any trackers, vehicles, secrets, limits and *)
(* polygons:                                                               *)
(*   - points that are on their way to the table are as honest and as far  *)
(*     from one another as those in it, because the handler decides on     *)
(*     them, and counts them, before it waits;                             *)
(*   - the test of a place against the edges of a polygon is exact for a   *)
(*     triangle, and adds up when a polygon is cut in two.                 *)
(***************************************************************************)
EXTENDS MCTanks, Fleet, FiniteSums, SequenceTheorems

-----------------------------------------------------------------------------
(* The invariant *)

\* What a session holds beside what it asks for next.
SessionsOK == session \in [Sessions -> SessionState]

\* A transfer holds no tank but its own two, and none above one it still needs.
LowerFirst ==
    \A s \in Sessions : session[s].op = "transfer" =>
        LET me == session[s] IN
        /\ me.held \subseteq {me.from, me.to}
        /\ \A t \in me.held, u \in {me.from, me.to} \ me.held : t < u

TanksInv == SessionsOK /\ LowerFirst

\* Before the first request no session holds a tank.
LEMMA InitHolds == TanksInit => TanksInv
  BY DEF TanksInit, TanksInv, SessionsOK, SessionState, LowerFirst, Idle

\* A session that goes to a state of the kind keeps the invariant.
LEMMA GoesKeeps ==
    ASSUME TanksInv, NEW s \in Sessions, NEW state \in SessionState, Goes(s, state),
           state.op = "transfer" =>
               /\ state.held \subseteq {state.from, state.to}
               /\ \A t \in state.held, u \in {state.from, state.to} \ state.held : t < u
    PROVE  TanksInv'
  <1>1. session' = [session EXCEPT ![s] = state] /\ session \in [Sessions -> SessionState]
    BY DEF Goes, TanksInv, SessionsOK
  <1>2. SessionsOK'
    BY <1>1 DEF SessionsOK
  <1>3. LowerFirst'
    <2> SUFFICES ASSUME NEW r \in Sessions, session'[r].op = "transfer"
                 PROVE  /\ session'[r].held \subseteq {session'[r].from, session'[r].to}
                        /\ \A t \in session'[r].held,
                              u \in {session'[r].from, session'[r].to} \ session'[r].held : t < u
      BY DEF LowerFirst
    <2>1. CASE r = s
      <3>1. session'[r] = state
        BY <1>1, <2>1
      <3> QED BY <3>1
    <2>2. CASE r # s
      <3>1. session'[r] = session[r]
        BY <1>1, <2>2
      <3> QED BY <3>1 DEF TanksInv, LowerFirst
    <2> QED BY <2>1, <2>2
  <1> QED BY <1>2, <1>3 DEF TanksInv

\* A session that ends lets its tanks go.
LEMMA IdleKeeps ==
    ASSUME TanksInv, NEW s \in Sessions, Goes(s, Idle)
    PROVE  TanksInv'
  <1>1. Idle \in SessionState /\ Idle.op # "transfer"
    BY DEF Idle, SessionState
  <1> QED BY <1>1, GoesKeeps

-----------------------------------------------------------------------------
(* The steps *)

\* A transfer that begins holds nothing.
LEMMA BeginKeeps ==
    ASSUME TanksInv, NEW s \in Sessions, NEW from \in Tanks, NEW to \in Tanks,
           NEW litres \in Amounts, TransferBegin(s, from, to, litres)
    PROVE  TanksInv'
  <1> DEFINE state == [op |-> "transfer", from |-> from, to |-> to, volume |-> litres, held |-> {}]
  <1>1. state \in SessionState
    BY DEF SessionState
  <1>2. Goes(s, state) /\ state.held = {}
    BY DEF TransferBegin
  <1> HIDE DEF state
  <1> QED BY <1>1, <1>2, GoesKeeps

\* A purge that begins is no transfer.
LEMMA PurgeBeginKeeps ==
    ASSUME TanksInv, NEW s \in Sessions, NEW o \in Orders, PurgeBegin(s, o)
    PROVE  TanksInv'
  <1> DEFINE rows == {at \in Tanks \X (1..MaxRows) :
                         /\ at[2] <= Len(journal[at[1]])
                         /\ journal[at[1]][at[2]].order = o
                         /\ journal[at[1]][at[2]].kind # "gone"}
             state == [op |-> "purge", order |-> o, held |-> {}, seen |-> rows]
  <1>1. rows \in SUBSET (Tanks \X (1..MaxRows))
    OBVIOUS
  <1>2. Goes(s, state)
    BY DEF PurgeBegin
  <1> HIDE DEF rows
  <1>3. state \in SessionState /\ state.op # "transfer"
    BY <1>1 DEF SessionState
  <1> HIDE DEF state
  <1> QED BY <1>2, <1>3, GoesKeeps

\* A transfer takes the lower of the tanks it still needs: that is below the other.
LEMMA LockKeeps ==
    ASSUME TanksInv, NEW s \in Sessions, NEW t \in Tanks, Lock(s, t)
    PROVE  TanksInv'
  <1> DEFINE me == session[s]
             state == [me EXCEPT !.held = @ \cup {t}]
  <1>1. Goes(s, state) /\ t \in Asked(s)
    BY DEF Lock
  <1>2. me \in SessionState
    BY DEF TanksInv, SessionsOK
  <1>3. CASE me = Idle
    BY <1>1, <1>3 DEF Asked, Idle
  <1>4. CASE me \in [op: {"transfer"}, from: Tanks, to: Tanks, volume: Amounts, held: SUBSET Tanks]
    <2>1. state \in SessionState
      BY <1>4 DEF SessionState
    <2>2. /\ t \in {me.from, me.to} \ me.held
          /\ \A u \in {me.from, me.to} \ me.held : t <= u
      BY <1>1, <1>4 DEF Asked
    <2>3. /\ me.held \subseteq {me.from, me.to}
          /\ \A v \in me.held, u \in {me.from, me.to} \ me.held : v < u
      BY <1>4 DEF TanksInv, LowerFirst
    <2>4. state.from = me.from /\ state.to = me.to /\ state.held = me.held \cup {t}
      BY <1>4
    <2>5. me.from \in Nat /\ me.to \in Nat /\ t \in Nat
      BY <1>4, TanksAssumption
    <2> HIDE DEF state, me
    <2>6. \A v \in state.held, u \in {state.from, state.to} \ state.held : v < u
      <3> SUFFICES ASSUME NEW v \in state.held, NEW u \in {state.from, state.to} \ state.held
                   PROVE  v < u
        OBVIOUS
      <3>1. u \in {me.from, me.to} \ me.held /\ u # t /\ u \in Nat
        BY <2>4, <2>5
      <3>2. CASE v = t
        BY <2>2, <2>5, <3>1, <3>2
      <3>3. CASE v \in me.held
        BY <2>3, <3>1, <3>3
      <3> QED BY <2>4, <3>2, <3>3
    <2>7. state.held \subseteq {state.from, state.to}
      BY <2>2, <2>3, <2>4
    <2> QED BY <1>1, <2>1, <2>6, <2>7, GoesKeeps
  <1>5. CASE me \in [op: {"purge"}, order: Orders, seen: SUBSET (Tanks \X (1..MaxRows)), held: SUBSET Tanks]
    <2>1. state \in SessionState /\ state.op # "transfer"
      BY <1>5 DEF SessionState
    <2> HIDE DEF state, me
    <2> QED BY <1>1, <2>1, GoesKeeps
  <1> QED BY <1>2, <1>3, <1>4, <1>5 DEF SessionState

\* Every step keeps the invariant: only a transfer that locks needs an argument.
LEMMA TanksStep == TanksInv /\ [TanksNext]_tankVars => TanksInv'
  <1> SUFFICES ASSUME TanksInv, [TanksNext]_tankVars
               PROVE  TanksInv'
    OBVIOUS
  <1>1. ASSUME UNCHANGED session PROVE TanksInv'
    BY <1>1 DEF TanksInv, SessionsOK, LowerFirst
  <1>2. ASSUME NEW t \in Tanks, NEW level, NEW reading, CreateTank(t, level, reading) PROVE TanksInv'
    BY <1>1, <1>2 DEF CreateTank
  <1>3. ASSUME NEW t \in Tanks, DeleteTank(t) PROVE TanksInv'
    BY <1>1, <1>3 DEF DeleteTank
  <1>4. ASSUME NEW t \in Tanks, NEW level, NEW reading, AdjustTank(t, level, reading) PROVE TanksInv'
    BY <1>1, <1>4 DEF AdjustTank
  <1>5. ASSUME NEW t \in Tanks, NEW litres, RecordArrival(t, litres) PROVE TanksInv'
    BY <1>1, <1>5 DEF RecordArrival
  <1>6. ASSUME NEW t \in Tanks, NEW reading, NEW o, RecordIssue(t, reading, o) PROVE TanksInv'
    BY <1>1, <1>6 DEF RecordIssue
  <1>7. ASSUME NEW t \in Tanks, NEW litres, NEW reading, RecordExpense(t, litres, reading) PROVE TanksInv'
    BY <1>1, <1>7 DEF RecordExpense
  <1>8. ASSUME NEW s \in Sessions, TransferCommit(s) \/ PurgeCommit(s) \/ RollBack(s) PROVE TanksInv'
    <2>1. Goes(s, Idle)
      BY <1>8 DEF TransferCommit, PurgeCommit, RollBack
    <2> QED BY <2>1, IdleKeeps
  <1>9. CASE UNCHANGED tankVars
    BY <1>1, <1>9 DEF tankVars
  <1>10. CASE TanksNext
    BY <1>2, <1>3, <1>4, <1>5, <1>6, <1>7, <1>8, <1>10, BeginKeeps, PurgeBeginKeeps, LockKeeps
    DEF TanksNext
  <1> QED BY <1>9, <1>10

-----------------------------------------------------------------------------
(* No circle *)

\* Where every transfer of a set waits for another of the set, the one that waits
\* for the highest tank waits for one that waits for a tank above that.
LEMMA NoCircle == TanksInv => NoTransferCircle
  <1> SUFFICES ASSUME TanksInv,
                      NEW Circle \in SUBSET {s \in Sessions : session[s].op = "transfer"},
                      Circle # {},
                      \A s \in Circle : \E r \in Circle, t \in Asked(s) : Holds(r, t)
               PROVE  FALSE
    BY DEF NoTransferCircle
  <1> DEFINE Awaited == {t \in Tanks : \E s, r \in Circle : t \in Asked(s) /\ Holds(r, t)}
  <1>1. \A s \in Circle : Asked(s) \subseteq {session[s].from, session[s].to} \ session[s].held
    BY DEF Asked
  <1>2. \A s \in Circle : session[s].from \in Tanks /\ session[s].to \in Tanks
    BY DEF TanksInv, SessionsOK, SessionState, Idle
  <1>3. \A s \in Circle : \E r \in Circle, t \in Awaited : t \in Asked(s) /\ Holds(r, t)
    BY <1>1, <1>2
  <1>4. Awaited # {} /\ Awaited \in SUBSET Nat /\ IsFiniteSet(Awaited)
    BY <1>3, TanksAssumption, FS_Subset
  <1>5. PICK top \in Awaited : \A t \in Awaited : top >= t
    <2> HIDE DEF Awaited
    <2> QED BY <1>4, Greatest
  <1>6. PICK r \in Circle : Holds(r, top)
    BY <1>5
  <1>7. PICK next \in Awaited : next \in Asked(r)
    BY <1>3
  <1>8. top < next
    BY <1>1, <1>6, <1>7 DEF Holds, TanksInv, LowerFirst
  <1>9. top \in Nat /\ next \in Nat /\ top >= next
    BY <1>4, <1>5, <1>7
  <1> QED BY <1>8, <1>9

\* However many transfers run at once, they never wait for one another in a circle
\* (tank_service.transfer locks the lower id first).
THEOREM TransfersGoOn == TanksSpec => []NoTransferCircle
  BY InitHolds, TanksStep, NoCircle, PTL DEF TanksSpec
-----------------------------------------------------------------------------
(* The meters and the journals *)

\* An issue has taken what the meter has turned.
IssueOK(row) ==
    row.kind = "issue" =>
        /\ -row.litres \in 1..Modulus - 1
        /\ (row.before - row.litres) % Modulus = row.after

\* A tank and its rows: the readings follow one another up to the tank's own, only an issue
\* is for an order, and a tank that is not there has no rows, and never had litres if it
\* was never there.
Sound(tank, rows) ==
    /\ tank \in Tank /\ rows \in Seq(Row)
    /\ \A i \in DOMAIN rows : rows[i].after = IF i = Len(rows) THEN tank.counter
                                              ELSE rows[i + 1].before
    /\ \A i \in DOMAIN rows : IssueOK(rows[i])
    /\ \A i \in DOMAIN rows : rows[i].order # NoOrder => rows[i].kind \in {"issue", "gone"}
    /\ tank.state # "live" => rows = << >>
    /\ tank.state = "none" => tank.volume = 0

TanksSound ==
    /\ tanks \in [Tanks -> Tank] /\ DOMAIN journal = Tanks
    /\ \A t \in Tanks : Sound(tanks[t], journal[t])

\* What is held is there: nobody deletes it meanwhile.
HeldLive == \A s \in Sessions : session[s].op # "idle" => \A t \in session[s].held : Live(t)

\* What a purge has read still stands: another purge of the same order waits, and a tank
\* that issued fuel is not deleted.
SeenStands ==
    \A s \in Sessions : session[s].op = "purge" =>
        \A t \in Tanks, i \in 1..MaxRows : <<t, i>> \in session[s].seen =>
            /\ i \in DOMAIN journal[t]
            /\ journal[t][i].order = session[s].order
            /\ journal[t][i].kind # "gone"

OnePurge ==
    \A s, r \in Sessions :
        session[s].op = "purge" /\ session[r].op = "purge" /\ session[s].order = session[r].order
            => s = r

TwoTanks == \A s \in Sessions : session[s].op = "transfer" => session[s].from # session[s].to

MeterInv == SessionsOK /\ TanksSound /\ HeldLive /\ SeenStands /\ OnePurge /\ TwoTanks


\* A row that begins where the meter stands may follow.
LEMMA AppendSound ==
    ASSUME NEW tank, NEW rows, Sound(tank, rows), tank.state = "live",
           NEW row \in Row, row.before = tank.counter, IssueOK(row),
           row.order # NoOrder => row.kind = "issue",
           NEW after \in Tank, after.state = "live", after.counter = row.after
    PROVE  Sound(after, Append(rows, row))
  <1> DEFINE more == Append(rows, row)
  <1>0. tank \in Tank /\ rows \in Seq(Row)
    BY DEF Sound
  <1>3. /\ more \in Seq(Row) /\ Len(more) = Len(rows) + 1 /\ Len(rows) \in Nat
        /\ DOMAIN rows = 1..Len(rows) /\ DOMAIN more = 1..Len(rows) + 1
        /\ \A i \in DOMAIN rows : more[i] = rows[i]
        /\ more[Len(rows) + 1] = row
    BY <1>0
  <1> HIDE DEF more
  <1>4. \A i \in DOMAIN more : i \in DOMAIN rows \/ i = Len(rows) + 1
    BY <1>3
  <1>5. \A i \in DOMAIN more : IssueOK(more[i]) /\ (more[i].order # NoOrder => more[i].kind \in {"issue", "gone"})
    BY <1>3, <1>4 DEF Sound
  <1>6. \A i \in DOMAIN more : more[i].after = IF i = Len(more) THEN after.counter ELSE more[i + 1].before
    <2> SUFFICES ASSUME NEW i \in 1..(Len(rows) + 1)
                 PROVE  more[i].after = IF i = Len(more) THEN after.counter ELSE more[i + 1].before
      BY <1>3
    <2>1. CASE i = Len(rows) + 1
      BY <1>3, <2>1
    <2>2. CASE i \in DOMAIN rows
      <3>1. rows[i].after = IF i = Len(rows) THEN tank.counter ELSE rows[i + 1].before
        BY <2>2 DEF Sound
      <3>2. CASE i = Len(rows)
        <4>2. i + 1 = Len(rows) + 1 /\ i # Len(more)
          <5>1. Len(more) = Len(rows) + 1 /\ Len(rows) \in Nat
            BY <1>3
          <5>2. i = Len(rows)
            BY <3>2
          <5> QED BY <5>1, <5>2
        <4>1. i # Len(more) /\ more[i + 1] = row /\ more[i] = rows[i]
          BY <1>3, <2>2, <4>2
        <4>3. rows[i].after = tank.counter /\ row.before = tank.counter
          BY <3>1, <3>2
        <4> QED BY <4>1, <4>3
      <3>3. CASE i # Len(rows)
        <4>1. i + 1 \in DOMAIN rows /\ i # Len(more)
          BY <1>3, <2>2, <3>3
        <4> QED BY <1>3, <2>2, <3>1, <3>3, <4>1
      <3> QED BY <3>2, <3>3
    <2> QED BY <1>4, <2>1, <2>2
  <1>7. Sound(after, more)
    BY <1>3, <1>5, <1>6 DEF Sound
  <1> QED BY <1>7 DEF more

\* The distance of two readings is what the meter has turned.
LEMMA MeterTurns ==
    ASSUME NEW before \in Readings, NEW after \in Readings, CounterDelta(before, after) > 0
    PROVE  /\ CounterDelta(before, after) \in 1..Modulus - 1
           /\ (before + CounterDelta(before, after)) % Modulus = after
  <1>1. before \in Nat /\ after \in Nat /\ before < Modulus /\ after < Modulus /\ Modulus \in Nat /\ Modulus > 1
    BY ModulusAssumption DEF Readings
  <1>2. after % Modulus = after
    BY <1>1
  <1>3. (Modulus + after) % Modulus = after
    BY <1>1
  <1>4. CASE after >= before
    <2>1. CounterDelta(before, after) = after - before
      BY <1>4 DEF CounterDelta
    <2>2. before + (after - before) = after
      BY <1>1
    <2> QED BY <1>1, <1>2, <2>1, <2>2
  <1>5. CASE ~(after >= before)
    <2>1. CounterDelta(before, after) = Modulus - before + after
      BY <1>5 DEF CounterDelta
    <2>2. before + (Modulus - before + after) = Modulus + after
      BY <1>1
    <2> QED BY <1>1, <1>3, <1>5, <2>1, <2>2
  <1> QED BY <1>4, <1>5

\* A step of the sessions alone.
LEMMA SessionMoves ==
    ASSUME MeterInv, SessionsOK', UNCHANGED <<tanks, journal>>,
           NEW s \in Sessions, NEW state \in SessionState, Goes(s, state),
           state.op # "idle" => \A t \in state.held : Live(t),
           state.op = "transfer" => state.from # state.to,
           state.op = "purge" =>
               /\ \A t \in Tanks, i \in 1..MaxRows : <<t, i>> \in state.seen =>
                     /\ i \in DOMAIN journal[t]
                     /\ journal[t][i].order = state.order
                     /\ journal[t][i].kind # "gone"
               /\ \A r \in Sessions \ {s} : session[r].op = "purge" => session[r].order # state.order
    PROVE  MeterInv'
  <1>1. session'[s] = state /\ \A r \in Sessions \ {s} : session'[r] = session[r]
    BY DEF Goes, MeterInv, SessionsOK
  <1>2. TanksSound'
    BY DEF MeterInv, TanksSound
  <1>3. HeldLive'
    BY <1>1 DEF MeterInv, HeldLive, Live
  <1>4. SeenStands'
    BY <1>1 DEF MeterInv, SeenStands
  <1>5. OnePurge'
    BY <1>1 DEF MeterInv, OnePurge
  <1>6. TwoTanks'
    BY <1>1 DEF MeterInv, TwoTanks
  <1> QED BY <1>2, <1>3, <1>4, <1>5, <1>6 DEF MeterInv

\* A step that writes tanks and rows keeps what the sessions hold and have read, when it
\* deletes no tank that is held and leaves alone the rows that stand for an order.
LEMMA TanksMove ==
    ASSUME MeterInv, SessionsOK', TanksSound',
           \A r \in Sessions : session'[r] = session[r] \/ session'[r].op = "idle",
           \A t \in Tanks : Live(t) => Live(t)' \/ Free(t),
           \A t \in Tanks : \A i \in DOMAIN journal[t] :
               journal[t][i].order \in Orders /\ journal[t][i].kind # "gone" =>
                   \/ i \in DOMAIN journal'[t] /\ journal'[t][i] = journal[t][i]
                   \/ \A r \in Sessions : session'[r].op = "purge" =>
                         session'[r].order # journal[t][i].order
    PROVE  MeterInv'
  <1>1. HeldLive'
    BY DEF MeterInv, HeldLive, Live, Free, Holds, SessionsOK, SessionState, Idle
  <1>2. SeenStands'
    <2> SUFFICES ASSUME NEW s \in Sessions, session'[s].op = "purge",
                        NEW t \in Tanks, NEW i \in 1..MaxRows, <<t, i>> \in session'[s].seen
                 PROVE  /\ i \in DOMAIN journal'[t]
                        /\ journal'[t][i].order = session'[s].order
                        /\ journal'[t][i].kind # "gone"
      BY DEF SeenStands
    <2>1. session'[s] = session[s] /\ session'[s].order \in Orders
      BY DEF SessionsOK, SessionState, Idle
    <2>2. /\ i \in DOMAIN journal[t] /\ journal[t][i].order = session[s].order
          /\ journal[t][i].kind # "gone"
      BY <2>1 DEF MeterInv, SeenStands
    <2> QED BY <2>1, <2>2
  <1>3. OnePurge'
    BY DEF MeterInv, OnePurge
  <1>4. TwoTanks'
    BY DEF MeterInv, TwoTanks
  <1> QED BY <1>1, <1>2, <1>3, <1>4 DEF MeterInv


-----------------------------------------------------------------------------
(* Steps of one tank *)

\* A tank of the service, as the invariant knows it.
LEMMA TankKnown ==
    ASSUME MeterInv, NEW t \in Tanks
    PROVE  /\ tanks[t] \in Tank /\ journal[t] \in Seq(Row) /\ Sound(tanks[t], journal[t])
           /\ tanks[t].volume \in Int /\ tanks[t].counter \in Readings
  <1>1. Sound(tanks[t], journal[t])
    BY DEF MeterInv, TanksSound
  <1>2. tanks[t] \in Tank /\ journal[t] \in Seq(Row)
    BY <1>1 DEF Sound
  <1> QED BY <1>1, <1>2 DEF Tank

\* One tank is written, with its journal, and both are sound after it.
LEMMA OneTankMoves ==
    ASSUME MeterInv, SessionsOK', UNCHANGED session, NEW t \in Tanks,
           tanks' = [tanks EXCEPT ![t] = tanks'[t]], journal' = [journal EXCEPT ![t] = journal'[t]],
           Sound(tanks'[t], journal'[t]),
           Live(t) => tanks'[t].state = "live" \/ Free(t),
           \A i \in DOMAIN journal[t] : journal[t][i].order \in Orders /\ journal[t][i].kind # "gone" =>
               i \in DOMAIN journal'[t] /\ journal'[t][i] = journal[t][i]
    PROVE  MeterInv'
  <1>1. \A p \in Tanks \ {t} : tanks'[p] = tanks[p] /\ journal'[p] = journal[p]
    BY DEF MeterInv, TanksSound
  <1>2. TanksSound'
    <2>1. \A p \in Tanks : Sound(tanks[p], journal[p])
      BY DEF MeterInv, TanksSound
    <2>2. \A p \in Tanks : Sound(tanks'[p], journal'[p])
      BY <1>1, <2>1
    <2>3. tanks' \in [Tanks -> Tank] /\ DOMAIN journal' = Tanks
      <3>1. tanks \in [Tanks -> Tank] /\ tanks'[t] \in Tank
        BY DEF MeterInv, TanksSound, Sound
      <3> QED BY <3>1 DEF MeterInv, TanksSound
    <2> QED BY <2>2, <2>3 DEF TanksSound
  <1>3. \A p \in Tanks : Live(p) => Live(p)' \/ Free(p)
    BY <1>1 DEF Live
  <1>4. \A p \in Tanks : \A i \in DOMAIN journal[p] :
            journal[p][i].order \in Orders /\ journal[p][i].kind # "gone" =>
                i \in DOMAIN journal'[p] /\ journal'[p][i] = journal[p][i]
    BY <1>1
  <1> QED BY <1>2, <1>3, <1>4, TanksMove

\* A row that may follow the rows of a tank.
Fits(t, row) ==
    /\ row.before = tanks[t].counter /\ row.kind \notin {"gone", "transfer_in", "transfer_out"}
    /\ IssueOK(row)
    /\ row.order # NoOrder => row.kind = "issue"

\* What the operations on one tank do.
PostsRow(t) == \E row \in Row : Fits(t, row) /\ Live(t) /\ Posts(t, row) /\ UNCHANGED session

\* A tank that is there may take a row that begins where its meter stands.
LEMMA RowSound ==
    ASSUME MeterInv, NEW t \in Tanks, Live(t),
           NEW row \in Row, row.before = tanks[t].counter, IssueOK(row),
           row.order # NoOrder => row.kind = "issue"
    PROVE  /\ Sound(Moved(t, row), Append(journal[t], row))
           /\ Moved(t, row).state = "live"
           /\ Moved(t, row).volume = tanks[t].volume + row.litres
  <1>1. Sound(tanks[t], journal[t]) /\ tanks[t].state = "live"
    BY TankKnown DEF Live
  <1>2. PICK after : after = Moved(t, row)
    OBVIOUS
  <1>3. /\ after \in Tank /\ after.state = "live" /\ after.counter = row.after
        /\ after.volume = tanks[t].volume + row.litres
    <2>1. PICK litres : litres = tanks[t].volume + row.litres
      OBVIOUS
    <2>2. tanks[t] \in Tank /\ tanks[t].volume \in Int /\ row.litres \in Int /\ row.after \in Readings
      BY TankKnown DEF Row
    <2>3. litres \in Int
      BY <2>1, <2>2
    <2>4. after = [tanks[t] EXCEPT !.volume = litres, !.counter = row.after]
      BY <1>2, <2>1 DEF Moved
    <2>5. after \in Tank /\ after.state = "live" /\ after.counter = row.after /\ after.volume = litres
      BY <1>1, <2>2, <2>3, <2>4 DEF Tank
    <2> QED BY <2>1, <2>5
  <1>4. Sound(after, Append(journal[t], row))
    BY <1>1, <1>3, AppendSound
  <1> QED BY <1>2, <1>3, <1>4

\* A row is posted on a tank that is there.
LEMMA RowPosted ==
    ASSUME MeterInv, SessionsOK', NEW t \in Tanks, PostsRow(t)
    PROVE  MeterInv'
  <1>0. PICK row \in Row : Fits(t, row) /\ Live(t) /\ Posts(t, row) /\ UNCHANGED session
    BY DEF PostsRow
  <1>1. /\ tanks'[t] = Moved(t, row) /\ journal'[t] = Append(journal[t], row)
        /\ tanks' = [tanks EXCEPT ![t] = tanks'[t]] /\ journal' = [journal EXCEPT ![t] = journal'[t]]
    BY <1>0 DEF Posts, MeterInv, TanksSound
  <1>2. Sound(tanks'[t], journal'[t]) /\ tanks'[t].state = "live"
    BY <1>0, <1>1, RowSound DEF Fits
  <1>3. \A i \in DOMAIN journal[t] : i \in DOMAIN journal'[t] /\ journal'[t][i] = journal[t][i]
    <2>1. journal[t] \in Seq(Row)
      BY TankKnown
    <2> QED BY <1>1, <2>1
  <1> QED BY <1>0, <1>1, <1>2, <1>3, OneTankMoves

\* The rows of the requests are rows.
LEMMA EntryTyped ==
    ASSUME MeterInv, NEW t \in Tanks, NEW kind \in TankTxKind, NEW litres \in Int, NEW reading \in Readings
    PROVE  /\ Entry(t, kind, litres, reading) \in Row
           /\ Entry(t, kind, litres, reading) =
                 [kind |-> kind, litres |-> litres, before |-> tanks[t].counter, after |-> reading,
                  order |-> NoOrder, peer |-> NoTank]
  <1>1. tanks[t].counter \in Readings
    BY TankKnown
  <1> QED BY <1>1 DEF Entry, Row

\* A tank begins with the row of its first litres, or without one.
LEMMA CreateTankKeeps ==
    ASSUME MeterInv, SessionsOK', NEW t \in Tanks, NEW level \in Levels,
           NEW reading \in FirstReadings, CreateTank(t, level, reading)
    PROVE  MeterInv'
  <1>1. level \in Int /\ reading \in Readings
    BY AmountsAssumption, ReadingsAssumption DEF Readings
  <1>2. /\ tanks'[t] = [state |-> "live", volume |-> level, counter |-> reading]
        /\ tanks' = [tanks EXCEPT ![t] = tanks'[t]] /\ journal' = [journal EXCEPT ![t] = journal'[t]]
        /\ UNCHANGED session /\ tanks[t].state = "none"
    BY DEF CreateTank, MeterInv, TanksSound
  <1>3. PICK row : row = [Entry(t, "adjust", level, reading) EXCEPT !.before = reading]
    OBVIOUS
  <1>4. /\ row \in Row /\ row.after = reading /\ row.kind = "adjust" /\ row.order = NoOrder
    BY <1>1, <1>3, EntryTyped DEF Row, TankTxKind
  <1>5. journal'[t] = << >> \/ journal'[t] = <<row>>
    BY <1>3 DEF CreateTank, MeterInv, TanksSound
  <1>6. tanks'[t] \in Tank /\ tanks'[t].state = "live" /\ tanks'[t].counter = reading
    BY <1>1, <1>2 DEF Tank
  <1>7. Sound(tanks'[t], journal'[t])
    <2>1. CASE journal'[t] = << >>
      BY <1>6, <2>1 DEF Sound
    <2>2. CASE journal'[t] = <<row>>
      <3>1. <<row>> \in Seq(Row) /\ Len(<<row>>) = 1 /\ DOMAIN <<row>> = {1} /\ <<row>>[1] = row
        BY <1>4
      <3> QED BY <1>4, <1>6, <2>2, <3>1 DEF Sound, IssueOK
    <2> QED BY <1>5, <2>1, <2>2
  <1>8. journal[t] = << >> /\ ~Live(t)
    BY <1>2, TankKnown DEF Live, Sound
  <1> QED BY <1>2, <1>7, <1>8, OneTankMoves

\* A tank that is deleted is not held, and fuel was issued from it for nobody.
LEMMA DeleteTankKeeps ==
    ASSUME MeterInv, SessionsOK', NEW t \in Tanks, DeleteTank(t)
    PROVE  MeterInv'
  <1>1. /\ tanks'[t] = [state |-> "deleted", volume |-> 0, counter |-> 0] /\ journal'[t] = << >>
        /\ tanks' = [tanks EXCEPT ![t] = tanks'[t]] /\ journal' = [journal EXCEPT ![t] = journal'[t]]
        /\ UNCHANGED session /\ Free(t)
    BY DEF DeleteTank, MeterInv, TanksSound
  <1>2. 0 \in Readings
    BY ModulusAssumption DEF Readings
  <1>3. Sound(tanks'[t], journal'[t])
    BY <1>1, <1>2 DEF Sound, Tank
  <1>4. \A i \in DOMAIN journal[t] : ~(journal[t][i].order \in Orders /\ journal[t][i].kind # "gone")
    BY TankKnown, NoOrderAssumption DEF DeleteTank, Sound
  <1> QED BY <1>1, <1>3, <1>4, OneTankMoves

\* A correction goes from the meter to the reading it sets.
LEMMA AdjustTankPosts ==
    ASSUME MeterInv, NEW t \in Tanks, NEW level \in Levels \cup {tanks[t].volume},
           NEW reading \in Readings, AdjustTank(t, level, reading)
    PROVE  PostsRow(t)
  <1>1. PICK litres : litres = level - tanks[t].volume
    OBVIOUS
  <1>2. litres \in Int
    <2>1. level \in Int /\ tanks[t].volume \in Int
      BY TankKnown, AmountsAssumption
    <2> QED BY <1>1, <2>1
  <1>3. PICK row : row = Entry(t, "adjust", litres, reading)
    OBVIOUS
  <1>4. row \in Row /\ row.before = tanks[t].counter /\ row.kind = "adjust" /\ row.order = NoOrder
    BY <1>2, <1>3, EntryTyped DEF TankTxKind
  <1>5. Posts(t, row) /\ Live(t) /\ UNCHANGED session
    BY <1>1, <1>3 DEF AdjustTank
  <1> QED BY <1>4, <1>5 DEF PostsRow, Fits, IssueOK

\* An arrival leaves the meter where it is.
LEMMA RecordArrivalPosts ==
    ASSUME MeterInv, NEW t \in Tanks, NEW litres \in Amounts, RecordArrival(t, litres)
    PROVE  PostsRow(t)
  <1>1. PICK row : row = Entry(t, "arrival", litres, tanks[t].counter)
    OBVIOUS
  <1>2. row \in Row /\ row.before = tanks[t].counter /\ row.kind = "arrival" /\ row.order = NoOrder
    <2>1. litres \in Int /\ tanks[t].counter \in Readings
      BY TankKnown, AmountsAssumption
    <2> QED BY <1>1, <2>1, EntryTyped DEF TankTxKind
  <1>3. Posts(t, row) /\ Live(t) /\ UNCHANGED session
    BY <1>1 DEF RecordArrival
  <1> QED BY <1>2, <1>3 DEF PostsRow, Fits, IssueOK

\* An issue takes what the meter has turned.
LEMMA RecordIssuePosts ==
    ASSUME MeterInv, NEW t \in Tanks, NEW reading \in Readings,
           NEW o \in Orders \cup {NoOrder}, RecordIssue(t, reading, o)
    PROVE  PostsRow(t)
  <1>1. PICK litres : litres = CounterDelta(tanks[t].counter, reading)
    OBVIOUS
  <1>2. litres > 0 /\ tanks[t].counter \in Readings
    BY <1>1, TankKnown DEF RecordIssue
  <1>3. litres \in 1..Modulus - 1 /\ (tanks[t].counter + litres) % Modulus = reading
    BY <1>1, <1>2, MeterTurns
  <1>4. PICK less : less = -litres
    OBVIOUS
  <1>5. /\ less \in Int /\ -less = litres
        /\ tanks[t].counter \in Int /\ tanks[t].counter - less = tanks[t].counter + litres
    <2>1. litres \in Int /\ tanks[t].counter \in Int
      BY <1>2, <1>3, ModulusAssumption DEF Readings
    <2> QED BY <1>4, <2>1
  <1>6. PICK row : row = [Entry(t, "issue", less, reading) EXCEPT !.order = o]
    OBVIOUS
  <1>7. /\ row \in Row /\ row.before = tanks[t].counter /\ row.kind = "issue"
        /\ row.litres = less /\ row.after = reading
    BY <1>5, <1>6, EntryTyped DEF Row, TankTxKind
  <1>8. Posts(t, row) /\ Live(t) /\ UNCHANGED session
    BY <1>1, <1>4, <1>6 DEF RecordIssue
  <1>9. IssueOK(row)
    <2>1. -row.litres \in 1..Modulus - 1
      BY <1>3, <1>5, <1>7
    <2>2. row.before - row.litres = tanks[t].counter + litres
      BY <1>5, <1>7
    <2> QED BY <1>3, <1>7, <2>1, <2>2 DEF IssueOK
  <1> QED BY <1>7, <1>8, <1>9 DEF PostsRow, Fits

\* An expense goes from the meter to the reading that was entered.
LEMMA RecordExpensePosts ==
    ASSUME MeterInv, NEW t \in Tanks, NEW litres \in Amounts,
           NEW reading \in Readings, RecordExpense(t, litres, reading)
    PROVE  PostsRow(t)
  <1>1. PICK less : less = -litres
    OBVIOUS
  <1>2. less \in Int
    BY <1>1, AmountsAssumption
  <1>3. PICK row : row = Entry(t, "expense", less, reading)
    OBVIOUS
  <1>4. row \in Row /\ row.before = tanks[t].counter /\ row.kind = "expense" /\ row.order = NoOrder
    BY <1>2, <1>3, EntryTyped DEF TankTxKind
  <1>5. Posts(t, row) /\ Live(t) /\ UNCHANGED session
    BY <1>1, <1>3 DEF RecordExpense
  <1> QED BY <1>4, <1>5 DEF PostsRow, Fits, IssueOK


-----------------------------------------------------------------------------
(* Steps of the sessions *)

\* A transfer or a purge that begins holds nothing; a purge reads the rows that stand.
LEMMA BeginKeepsMeter ==
    ASSUME MeterInv, SessionsOK', NEW s \in Sessions,
           \/ \E t, u \in Tanks, litres \in Amounts : TransferBegin(s, t, u, litres)
           \/ \E o \in Orders : PurgeBegin(s, o)
    PROVE  MeterInv'
  <1>1. ASSUME NEW t \in Tanks, NEW u \in Tanks, NEW litres \in Amounts, TransferBegin(s, t, u, litres)
        PROVE  MeterInv'
    <2>1. PICK state : state = [op |-> "transfer", from |-> t, to |-> u, volume |-> litres, held |-> {}]
      OBVIOUS
    <2>2. /\ state \in SessionState /\ state.op = "transfer" /\ state.held = {}
          /\ state.from # state.to
      BY <1>1, <2>1 DEF SessionState, TransferBegin
    <2>3. Goes(s, state) /\ UNCHANGED <<tanks, journal>>
      BY <1>1, <2>1 DEF TransferBegin
    <2> QED BY <2>2, <2>3, SessionMoves
  <1>2. ASSUME NEW o \in Orders, PurgeBegin(s, o)
        PROVE  MeterInv'
    <2>1. PICK rows : rows = {at \in Tanks \X (1..MaxRows) :
                                 /\ at[2] <= Len(journal[at[1]])
                                 /\ journal[at[1]][at[2]].order = o
                                 /\ journal[at[1]][at[2]].kind # "gone"}
      OBVIOUS
    <2>2. rows \in SUBSET (Tanks \X (1..MaxRows))
      BY <2>1
    <2>3. PICK state : state = [op |-> "purge", order |-> o, held |-> {}, seen |-> rows]
      OBVIOUS
    <2>4. /\ state \in SessionState /\ state.op = "purge" /\ state.held = {}
          /\ state.order = o /\ state.seen = rows
      BY <2>2, <2>3 DEF SessionState
    <2>5. Goes(s, state) /\ UNCHANGED <<tanks, journal>>
      BY <1>2, <2>1, <2>3 DEF PurgeBegin
    <2>6. \A r \in Sessions \ {s} : session[r].op = "purge" => session[r].order # o
      BY <1>2 DEF PurgeBegin
    <2>7. ASSUME NEW t \in Tanks, NEW i \in 1..MaxRows, <<t, i>> \in rows
          PROVE  /\ i \in DOMAIN journal[t] /\ journal[t][i].order = o /\ journal[t][i].kind # "gone"
      <3>1. i <= Len(journal[t]) /\ journal[t][i].order = o /\ journal[t][i].kind # "gone"
        BY <2>1, <2>7
      <3>2. journal[t] \in Seq(Row) /\ i \in Nat /\ i >= 1
        BY TankKnown, NoOrderAssumption
      <3>3. i \in DOMAIN journal[t]
        <4>1. DOMAIN journal[t] = 1..Len(journal[t]) /\ Len(journal[t]) \in Nat
          BY <3>2
        <4> QED BY <3>1, <3>2, <4>1
      <3> QED BY <3>1, <3>3
    <2> QED BY <2>4, <2>5, <2>6, <2>7, SessionMoves
  <1> QED BY <1>1, <1>2

\* What is locked is there.
LEMMA LockKeepsMeter ==
    ASSUME MeterInv, SessionsOK, SessionsOK', NEW s \in Sessions, NEW t \in Tanks, Lock(s, t)
    PROVE  MeterInv'
  <1>1. PICK me : me = session[s]
    OBVIOUS
  <1>2. PICK state : state = [me EXCEPT !.held = @ \cup {t}]
    OBVIOUS
  <1>3. Goes(s, state) /\ UNCHANGED <<tanks, journal>> /\ Live(t) /\ me.op \in {"transfer", "purge"}
    BY <1>1, <1>2 DEF Lock, Asked
  <1>4. me \in SessionState
    BY <1>1 DEF SessionsOK
  <1>5. /\ state \in SessionState /\ state.op = me.op /\ state.held = me.held \cup {t}
        /\ me.op = "transfer" => state.from = me.from /\ state.to = me.to
        /\ me.op = "purge" => state.order = me.order /\ state.seen = me.seen
    <2>1. CASE me.op = "transfer"
      <3>1. me \in [op: {"transfer"}, from: Tanks, to: Tanks, volume: Amounts, held: SUBSET Tanks]
        BY <1>4, <2>1 DEF SessionState, Idle
      <3> QED BY <1>2, <2>1, <3>1 DEF SessionState
    <2>2. CASE me.op = "purge"
      <3>1. me \in [op: {"purge"}, order: Orders, seen: SUBSET (Tanks \X (1..MaxRows)), held: SUBSET Tanks]
        BY <1>4, <2>2 DEF SessionState, Idle
      <3> QED BY <1>2, <2>2, <3>1 DEF SessionState
    <2> QED BY <1>3, <2>1, <2>2
  <1>6. \A u \in me.held : Live(u)
    BY <1>1, <1>3 DEF MeterInv, HeldLive
  <1>7. /\ me.op = "transfer" => me.from # me.to
        /\ me.op = "purge" =>
              /\ \A u \in Tanks, i \in 1..MaxRows : <<u, i>> \in me.seen =>
                    /\ i \in DOMAIN journal[u]
                    /\ journal[u][i].order = me.order
                    /\ journal[u][i].kind # "gone"
              /\ \A r \in Sessions \ {s} : session[r].op = "purge" => session[r].order # me.order
    BY <1>1 DEF MeterInv, TwoTanks, SeenStands, OnePurge
  <1> QED BY <1>3, <1>5, <1>6, <1>7, SessionMoves

\* A session that ends holds nothing.
LEMMA RollBackKeepsMeter ==
    ASSUME MeterInv, SessionsOK', NEW s \in Sessions, RollBack(s)
    PROVE  MeterInv'
  <1>1. Goes(s, Idle) /\ UNCHANGED <<tanks, journal>> /\ Idle \in SessionState /\ Idle.op = "idle"
    BY DEF RollBack, Idle, SessionState
  <1> QED BY <1>1, SessionMoves

\* A transfer that asks for nothing more holds its two tanks, which are there.
LEMMA TransferReady ==
    ASSUME MeterInv, SessionsOK, NEW s \in Sessions, session[s].op = "transfer", Asked(s) = {}
    PROVE  /\ session[s].from \in Tanks /\ session[s].to \in Tanks /\ session[s].from # session[s].to
           /\ Live(session[s].from) /\ Live(session[s].to)
           /\ session[s].volume \in Amounts
  <1>1. session[s] \in [op: {"transfer"}, from: Tanks, to: Tanks, volume: Amounts, held: SUBSET Tanks]
    BY DEF SessionsOK, SessionState, Idle
  <1>2. PICK a, b, held : a = session[s].from /\ b = session[s].to /\ held = session[s].held
    OBVIOUS
  <1>3. a \in Nat /\ b \in Nat /\ a # b
    BY <1>1, <1>2, TanksAssumption DEF MeterInv, TwoTanks
  <1>4. \A t \in {a, b} \ held : \E u \in {a, b} \ held : ~(t <= u)
    BY <1>2 DEF Asked
  <1>5. a \in held /\ b \in held
    BY <1>3, <1>4
  <1>6. Live(a) /\ Live(b)
    BY <1>2, <1>5 DEF MeterInv, HeldLive
  <1> QED BY <1>1, <1>2, <1>3, <1>6

\* What a transfer writes: a row in each of the two journals, and the litres with them.
LEMMA TransferWrites ==
    ASSUME MeterInv, SessionsOK, NEW s \in Sessions, TransferCommit(s)
    PROVE  \E a, b \in Tanks, out, in \in Row :
             /\ a # b /\ Live(a) /\ Live(b)
             /\ out.before = tanks[a].counter /\ out.kind = "transfer_out" /\ out.order = NoOrder
             /\ in.before = tanks[b].counter /\ in.kind = "transfer_in" /\ in.order = NoOrder
             /\ out.peer = b /\ in.peer = a /\ out.litres + in.litres = 0
             /\ tanks' = [tanks EXCEPT ![a] = Moved(a, out), ![b] = Moved(b, in)]
             /\ journal' = [journal EXCEPT ![a] = Append(@, out), ![b] = Append(@, in)]
  <1>0. session[s].op = "transfer" /\ Asked(s) = {}
    BY DEF TransferCommit
  <1>1. PICK a \in Tanks, b \in Tanks : a = session[s].from /\ b = session[s].to
    BY <1>0, TransferReady
  <1>2. a # b /\ Live(a) /\ Live(b) /\ session[s].volume \in Amounts
    BY <1>0, <1>1, TransferReady
  <1>3. PICK litres : litres = session[s].volume
    OBVIOUS
  <1>11. PICK less : less = -litres
    OBVIOUS
  <1>4. litres \in Int /\ less \in Int
    <2>2. \A v \in Amounts : v \in Int
      BY AmountsAssumption
    <2>1. litres \in Int
      BY <1>2, <1>3, <2>2
    <2> QED BY <1>11, <2>1
  <1>5. tanks[a].counter \in Readings /\ tanks[b].counter \in Readings
    BY TankKnown
  <1>6. PICK out : out = [Entry(a, "transfer_out", less, tanks[a].counter) EXCEPT !.peer = b]
    OBVIOUS
  <1>7. PICK in : in = [Entry(b, "transfer_in", litres, tanks[b].counter) EXCEPT !.peer = a]
    OBVIOUS
  <1>8. /\ out \in Row /\ out.before = tanks[a].counter /\ out.kind = "transfer_out" /\ out.order = NoOrder
        /\ out.peer = b /\ out.litres = less
    <2>1. "transfer_out" \in TankTxKind
      BY DEF TankTxKind
    <2> QED BY <1>4, <1>5, <1>6, <2>1, EntryTyped DEF Row
  <1>9. /\ in \in Row /\ in.before = tanks[b].counter /\ in.kind = "transfer_in" /\ in.order = NoOrder
        /\ in.peer = a /\ in.litres = litres
    <2>1. "transfer_in" \in TankTxKind
      BY DEF TankTxKind
    <2> QED BY <1>4, <1>5, <1>7, <2>1, EntryTyped DEF Row
  <1>10. /\ tanks' = [tanks EXCEPT ![a] = Moved(a, out), ![b] = Moved(b, in)]
         /\ journal' = [journal EXCEPT ![a] = Append(@, out), ![b] = Append(@, in)]
    BY <1>1, <1>3, <1>6, <1>7, <1>11 DEF TransferCommit
  <1>12. out.litres + in.litres = 0
    <2>1. less + litres = 0
      BY <1>4, <1>11
    <2> QED BY <1>8, <1>9, <2>1
  <1> QED BY <1>2, <1>8, <1>9, <1>10, <1>12

\* The two tanks of a transfer go on as one tank of another request does.
LEMMA TransferCommitKeepsMeter ==
    ASSUME MeterInv, SessionsOK, SessionsOK', NEW s \in Sessions, TransferCommit(s)
    PROVE  MeterInv'
  <1>1. PICK a \in Tanks, b \in Tanks, out \in Row, in \in Row :
             /\ a # b /\ Live(a) /\ Live(b)
             /\ out.before = tanks[a].counter /\ out.kind = "transfer_out" /\ out.order = NoOrder
             /\ in.before = tanks[b].counter /\ in.kind = "transfer_in" /\ in.order = NoOrder
             /\ tanks' = [tanks EXCEPT ![a] = Moved(a, out), ![b] = Moved(b, in)]
             /\ journal' = [journal EXCEPT ![a] = Append(@, out), ![b] = Append(@, in)]
    BY TransferWrites
  <1>2. /\ tanks'[a] = Moved(a, out) /\ journal'[a] = Append(journal[a], out)
        /\ tanks'[b] = Moved(b, in) /\ journal'[b] = Append(journal[b], in)
        /\ \A p \in Tanks \ {a, b} : tanks'[p] = tanks[p] /\ journal'[p] = journal[p]
        /\ DOMAIN tanks' = Tanks /\ DOMAIN journal' = Tanks
    BY <1>1 DEF MeterInv, TanksSound
  <1>3. /\ Sound(tanks'[a], journal'[a]) /\ Sound(tanks'[b], journal'[b])
        /\ tanks'[a].state = "live" /\ tanks'[b].state = "live"
    BY <1>1, <1>2, RowSound DEF IssueOK
  <1>4. TanksSound'
    <2>1. \A p \in Tanks : Sound(tanks[p], journal[p])
      BY DEF MeterInv, TanksSound
    <2>2. \A p \in Tanks : Sound(tanks'[p], journal'[p])
      BY <1>2, <1>3, <2>1
    <2>3. tanks' \in [Tanks -> Tank]
      <3>1. Moved(a, out) \in Tank /\ Moved(b, in) \in Tank
        BY <1>2, <1>3 DEF Sound
      <3> QED BY <1>1, <3>1 DEF MeterInv, TanksSound
    <2> QED BY <1>2, <2>2, <2>3 DEF TanksSound
  <1>5. \A p \in Tanks : Live(p) => Live(p)'
    BY <1>2, <1>3 DEF Live
  <1>6. \A p \in Tanks : \A i \in DOMAIN journal[p] :
            i \in DOMAIN journal'[p] /\ journal'[p][i] = journal[p][i]
    <2> SUFFICES ASSUME NEW p \in Tanks, NEW i \in DOMAIN journal[p]
                 PROVE  i \in DOMAIN journal'[p] /\ journal'[p][i] = journal[p][i]
      OBVIOUS
    <2>1. journal[p] \in Seq(Row)
      BY TankKnown
    <2>2. \A row \in Row : /\ i \in DOMAIN Append(journal[p], row)
                          /\ Append(journal[p], row)[i] = journal[p][i]
      BY <2>1
    <2> QED BY <1>1, <1>2, <2>2
  <1>7. \A r \in Sessions : session'[r] = session[r] \/ session'[r].op = "idle"
    BY DEF TransferCommit, Goes, SessionsOK, Idle
  <1> QED BY <1>4, <1>5, <1>6, <1>7, TanksMove


\* The litres a purge has read in a tank are a number, and none where there are no rows.
LEMMA SeenTyped ==
    ASSUME MeterInv, NEW me, NEW t \in Tanks
    PROVE  Seen(me, t) \in Int /\ (journal[t] = << >> => Seen(me, t) = 0)
  <1> DEFINE f == [i \in DOMAIN journal[t] |-> journal[t][i].litres]
             S == {i \in DOMAIN journal[t] : <<t, i>> \in me.seen}
  <1>1. journal[t] \in Seq(Row)
    BY TankKnown
  <1>2. IsFiniteSet(DOMAIN journal[t]) /\ \A i \in DOMAIN journal[t] : journal[t][i].litres \in Int
    <2>1. DOMAIN journal[t] = 1..Len(journal[t]) /\ Len(journal[t]) \in Nat
          /\ \A i \in DOMAIN journal[t] : journal[t][i] \in Row
      BY <1>1
    <2>2. IsFiniteSet(1..Len(journal[t]))
      BY <2>1, FS_Interval
    <2> QED BY <2>1, <2>2 DEF Row
  <1>3. IsFiniteSet(S) /\ \A i \in S : f[i] \in Int
    BY <1>2, FS_Subset
  <1>4. Seen(me, t) = SumFunctionOnSet(f, S)
    BY DEF Seen, Litres
  <1>5. journal[t] = << >> => S = {}
    OBVIOUS
  <1> HIDE DEF f, S
  <1> QED BY <1>3, <1>4, <1>5, SumType, SumEmpty

\* The rows a purge deletes stay where they are, as "gone"; the others are left alone.
LEMMA RowsPurged ==
    ASSUME MeterInv, SessionsOK, NEW s \in Sessions, PurgeCommit(s), NEW t \in Tanks
    PROVE  /\ journal'[t] \in Seq(Row) /\ DOMAIN journal'[t] = DOMAIN journal[t]
           /\ Len(journal'[t]) = Len(journal[t])
           /\ \A i \in DOMAIN journal[t] :
                 /\ journal'[t][i].litres = journal[t][i].litres
                 /\ journal'[t][i].before = journal[t][i].before
                 /\ journal'[t][i].after = journal[t][i].after
                 /\ journal'[t][i].order = journal[t][i].order
                 /\ IF session[s].seen # {} /\ journal[t][i].order = session[s].order
                    THEN journal'[t][i].kind = "gone"
                    ELSE journal'[t][i] = journal[t][i]
  <1>1. PICK seen, o : seen = session[s].seen /\ o = session[s].order
    OBVIOUS
  <1>2. PICK rows : rows = journal[t]
    OBVIOUS
  <1>3. rows \in Seq(Row)
    BY <1>2, TankKnown
  <1>4. journal'[t] = [i \in DOMAIN rows |-> IF seen # {} /\ rows[i].order = o
                                             THEN [rows[i] EXCEPT !.kind = "gone"] ELSE rows[i]]
    BY <1>1, <1>2 DEF PurgeCommit, WithoutOrder
  <1>5. DOMAIN rows = 1..Len(rows) /\ Len(rows) \in Nat /\ \A i \in DOMAIN rows : rows[i] \in Row
    BY <1>3
  <1>6. \A row \in Row : LET gone == [row EXCEPT !.kind = "gone"]
                         IN  /\ gone \in Row /\ gone.litres = row.litres /\ gone.before = row.before
                             /\ gone.after = row.after /\ gone.order = row.order /\ gone.kind = "gone"
    BY DEF Row
  <1>7. \A i \in DOMAIN rows :
            /\ journal'[t][i] \in Row
            /\ journal'[t][i].litres = rows[i].litres
            /\ journal'[t][i].before = rows[i].before
            /\ journal'[t][i].after = rows[i].after
            /\ journal'[t][i].order = rows[i].order
            /\ IF seen # {} /\ rows[i].order = o
               THEN journal'[t][i].kind = "gone"
               ELSE journal'[t][i] = rows[i]
    BY <1>4, <1>5, <1>6
  <1>8. journal'[t] \in [1..Len(rows) -> Row] /\ DOMAIN journal'[t] = DOMAIN rows
    BY <1>4, <1>5, <1>7
  <1>9. journal'[t] \in Seq(Row) /\ Len(journal'[t]) = Len(rows)
    BY <1>5, <1>8
  <1> QED BY <1>1, <1>2, <1>7, <1>8, <1>9

\* A purge changes no reading, and the orders of other purges not at all.
LEMMA PurgeCommitKeepsMeter ==
    ASSUME MeterInv, SessionsOK, SessionsOK', NEW s \in Sessions, PurgeCommit(s)
    PROVE  MeterInv'
  <1>1. session[s].op = "purge" /\ Goes(s, Idle)
    BY DEF PurgeCommit
  <1>2. ASSUME NEW t \in Tanks
        PROVE  /\ tanks'[t] \in Tank /\ tanks'[t].state = tanks[t].state
               /\ tanks'[t].counter = tanks[t].counter
               /\ tanks'[t].volume = tanks[t].volume - Seen(session[s], t)
    <2>1. PICK seen : seen = Seen(session[s], t)
      OBVIOUS
    <2>2. seen \in Int /\ tanks[t] \in Tank /\ tanks[t].volume \in Int
      BY <2>1, SeenTyped, TankKnown
    <2>3. PICK level : level = tanks[t].volume - seen
      OBVIOUS
    <2>4. level \in Int
      BY <2>2, <2>3
    <2>5. tanks'[t] = [tanks[t] EXCEPT !.volume = level]
      BY <2>1, <2>3 DEF PurgeCommit
    <2> QED BY <2>1, <2>2, <2>3, <2>4, <2>5 DEF Tank
  <1>3. ASSUME NEW t \in Tanks PROVE Sound(tanks'[t], journal'[t])
    <2>1. Sound(tanks[t], journal[t])
      BY TankKnown
    <2>2. \A i \in DOMAIN journal[t] : i + 1 \in DOMAIN journal[t] \/ i = Len(journal[t])
      <3>1. DOMAIN journal[t] = 1..Len(journal[t]) /\ Len(journal[t]) \in Nat
        BY TankKnown
      <3> QED BY <3>1
    <2>3. \A i \in DOMAIN journal'[t] :
              journal'[t][i].after = IF i = Len(journal'[t]) THEN tanks'[t].counter
                                     ELSE journal'[t][i + 1].before
      BY <1>2, <2>1, <2>2, RowsPurged DEF Sound
    <2>4. \A i \in DOMAIN journal'[t] :
              /\ IssueOK(journal'[t][i])
              /\ journal'[t][i].order # NoOrder => journal'[t][i].kind \in {"issue", "gone"}
      BY <2>1, RowsPurged DEF Sound, IssueOK
    <2>5. journal[t] = << >> => journal'[t] = << >>
      BY RowsPurged
    <2>6. tanks'[t].state = "none" => tanks'[t].volume = 0
      BY <1>2, <2>1, SeenTyped DEF Sound
    <2>7. tanks'[t].state # "live" => journal'[t] = << >>
      BY <1>2, <2>1, <2>5 DEF Sound
    <2> QED BY <1>2, <2>3, <2>4, <2>6, <2>7, RowsPurged DEF Sound
  <1>4. tanks' \in [Tanks -> Tank] /\ DOMAIN journal' = Tanks
    <2>1. /\ tanks' = [t \in Tanks |-> [tanks[t] EXCEPT !.volume = @ - Seen(session[s], t)]]
          /\ DOMAIN journal' = Tanks
      BY DEF PurgeCommit, WithoutOrder
    <2>2. tanks' = [t \in Tanks |-> tanks'[t]]
      BY <2>1
    <2> QED BY <1>2, <2>1, <2>2
  <1>5. TanksSound'
    BY <1>3, <1>4 DEF TanksSound
  <1>6. \A t \in Tanks : Live(t) => Live(t)'
    BY <1>2 DEF Live
  <1>7. /\ session'[s].op = "idle"
        /\ \A r \in Sessions \ {s} : session'[r] = session[r]
    BY <1>1 DEF Goes, SessionsOK, Idle
  <1>8. \A r \in Sessions : session'[r].op = "purge" => session'[r].order # session[s].order
    BY <1>1, <1>7 DEF MeterInv, OnePurge
  <1>9. \A t \in Tanks : \A i \in DOMAIN journal[t] :
            \/ i \in DOMAIN journal'[t] /\ journal'[t][i] = journal[t][i]
            \/ \A r \in Sessions : session'[r].op = "purge" => session'[r].order # journal[t][i].order
    BY <1>8, RowsPurged
  <1> QED BY <1>5, <1>6, <1>7, <1>9, TanksMove

\* Every step keeps the meters.
LEMMA MeterStep == TanksInv /\ MeterInv /\ [TanksNext]_tankVars => MeterInv'
  <1> SUFFICES ASSUME TanksInv, MeterInv, [TanksNext]_tankVars
               PROVE  MeterInv'
    OBVIOUS
  <1>0. SessionsOK /\ SessionsOK'
    BY TanksStep DEF TanksInv
  <1>1. ASSUME NEW t \in Tanks,
               \/ \E level \in Levels, reading \in FirstReadings : CreateTank(t, level, reading)
               \/ DeleteTank(t)
               \/ \E level \in Levels \cup {tanks[t].volume}, reading \in Readings :
                     AdjustTank(t, level, reading)
               \/ \E litres \in Amounts : RecordArrival(t, litres)
               \/ \E reading \in Readings, o \in Orders \cup {NoOrder} : RecordIssue(t, reading, o)
               \/ \E litres \in Amounts, reading \in Readings : RecordExpense(t, litres, reading)
        PROVE  MeterInv'
    BY <1>0, <1>1, CreateTankKeeps, DeleteTankKeeps, RowPosted, AdjustTankPosts,
       RecordArrivalPosts, RecordIssuePosts, RecordExpensePosts
  <1>2. ASSUME NEW s \in Sessions,
               \/ \E t, u \in Tanks, litres \in Amounts : TransferBegin(s, t, u, litres)
               \/ \E o \in Orders : PurgeBegin(s, o)
               \/ \E t \in Tanks : Lock(s, t)
               \/ TransferCommit(s) \/ PurgeCommit(s) \/ RollBack(s)
        PROVE  MeterInv'
    BY <1>0, <1>2, BeginKeepsMeter, LockKeepsMeter, TransferCommitKeepsMeter, PurgeCommitKeepsMeter,
       RollBackKeepsMeter
  <1>3. CASE UNCHANGED tankVars
    <2>1. UNCHANGED <<tanks, journal, session>>
      BY <1>3 DEF tankVars
    <2>2. TanksSound'
      BY <2>1 DEF MeterInv, TanksSound
    <2> QED BY <1>0, <2>1, <2>2, TanksMove DEF Live
  <1> QED BY <1>1, <1>2, <1>3 DEF TanksNext

\* Before the first request there are no tanks.
LEMMA MeterStart == TanksInit => MeterInv
  <1> SUFFICES ASSUME TanksInit PROVE MeterInv
    OBVIOUS
  <1>1. SessionsOK
    BY InitHolds DEF TanksInv
  <1>2. \A s \in Sessions : session[s].op = "idle"
    BY DEF TanksInit, Idle
  <1>3. 0 \in Readings
    BY ModulusAssumption DEF Readings
  <1>4. \A t \in Tanks : /\ tanks[t] = [state |-> "none", volume |-> 0, counter |-> 0]
                         /\ journal[t] = << >>
    BY DEF TanksInit
  <1>5. TanksSound
    <2>1. PICK empty : empty = [state |-> "none", volume |-> 0, counter |-> 0]
      OBVIOUS
    <2>2. empty \in Tank /\ empty.state = "none" /\ empty.volume = 0
      BY <1>3, <2>1 DEF Tank
    <2>3. Sound(empty, << >>)
      BY <2>2 DEF Sound
    <2>4. tanks = [t \in Tanks |-> empty]
      BY <2>1 DEF TanksInit
    <2>5. tanks \in [Tanks -> Tank] /\ DOMAIN journal = Tanks
      BY <2>2, <2>4 DEF TanksInit
    <2>6. \A t \in Tanks : tanks[t] = empty /\ journal[t] = << >>
      BY <1>4, <2>1
    <2> QED BY <2>3, <2>5, <2>6 DEF TanksSound
  <1> QED BY <1>1, <1>2, <1>5 DEF MeterInv, HeldLive, SeenStands, OnePurge, TwoTanks

\* Tanks are of their types, and the readings of a journal follow one another up to the tank's
\* own, over every turn of the meter (issue_from_tank, adjust_tank).
THEOREM MetersChain == TanksSpec => []MeterOK
  <1>1. MeterInv => MeterOK
    <2> SUFFICES ASSUME MeterInv PROVE MeterOK
      OBVIOUS
    <2>1. \A t \in Tanks : Sound(tanks[t], journal[t])
      BY DEF MeterInv, TanksSound
    <2>2. tanks \in [Tanks -> Tank]
      BY DEF MeterInv, TanksSound
    <2>3. TanksTypeOK
      BY <2>1, <2>2 DEF TanksTypeOK, Sound, MeterInv, SessionsOK
    <2>4. ReadingsChain
      BY <2>1 DEF ReadingsChain, Sound, IssueOK
    <2> QED BY <2>3, <2>4 DEF MeterOK
  <1> QED BY <1>1, InitHolds, TanksStep, MeterStart, MeterStep, PTL DEF TanksSpec

-----------------------------------------------------------------------------
(* The litres of the journals *)

\* The litres of the rows of a journal that stand.
TotalOf(rows) ==
    SumFunctionOnSet([i \in DOMAIN rows |-> rows[i].litres],
                     {i \in DOMAIN rows : rows[i].kind # "gone"})

\* The volume of a tank goes with its journal.
Follows(t) == tanks'[t].volume - Total(t)' = tanks[t].volume - Total(t)

\* The rows of a journal are finitely many, and their litres numbers.
LEMMA RowsFinite ==
    ASSUME NEW rows \in Seq(Row)
    PROVE  /\ DOMAIN rows = 1..Len(rows) /\ Len(rows) \in Nat /\ IsFiniteSet(DOMAIN rows)
           /\ \A i \in DOMAIN rows : rows[i] \in Row /\ rows[i].litres \in Int
  <1>1. DOMAIN rows = 1..Len(rows) /\ Len(rows) \in Nat /\ \A i \in DOMAIN rows : rows[i] \in Row
    OBVIOUS
  <1>2. IsFiniteSet(1..Len(rows))
    BY <1>1, FS_Interval
  <1> QED BY <1>1, <1>2 DEF Row

\* The total is a number, and nothing without rows.
LEMMA TotalTyped ==
    ASSUME NEW rows \in Seq(Row)
    PROVE  TotalOf(rows) \in Int /\ (rows = << >> => TotalOf(rows) = 0)
  <1> DEFINE f == [i \in DOMAIN rows |-> rows[i].litres]
             S == {i \in DOMAIN rows : rows[i].kind # "gone"}
  <1>1. IsFiniteSet(S) /\ \A i \in S : f[i] \in Int
    BY RowsFinite, FS_Subset
  <1>2. TotalOf(rows) = SumFunctionOnSet(f, S)
    BY DEF TotalOf
  <1>3. rows = << >> => S = {}
    OBVIOUS
  <1> HIDE DEF f, S
  <1> QED BY <1>1, <1>2, <1>3, SumType, SumEmpty

\* One more row is as many litres more.
LEMMA TotalAppend ==
    ASSUME NEW rows \in Seq(Row), NEW row \in Row, row.kind # "gone"
    PROVE  TotalOf(Append(rows, row)) = TotalOf(rows) + row.litres
  <1>1. PICK more : more = Append(rows, row)
    OBVIOUS
  <1>2. PICK n : n = Len(rows) + 1
    OBVIOUS
  <1>3. /\ more \in Seq(Row) /\ Len(more) = Len(rows) + 1 /\ Len(rows) \in Nat
        /\ DOMAIN rows = 1..Len(rows) /\ DOMAIN more = 1..Len(rows) + 1
        /\ \A i \in DOMAIN rows : more[i] = rows[i]
        /\ more[Len(rows) + 1] = row
    BY <1>1
  <1>4. /\ n \in DOMAIN more /\ n \notin DOMAIN rows /\ more[n] = row
        /\ \A i \in DOMAIN more : i \in DOMAIN rows \/ i = n
        /\ \A i \in DOMAIN rows : i \in DOMAIN more
    BY <1>2, <1>3
  <1> DEFINE f == [i \in DOMAIN rows |-> rows[i].litres]
             S == {i \in DOMAIN rows : rows[i].kind # "gone"}
             g == [i \in DOMAIN more |-> more[i].litres]
             T == {i \in DOMAIN more : more[i].kind # "gone"}
  <1>5. n \in T /\ g[n] = row.litres
    BY <1>4
  <1>6. T \ {n} = S
    BY <1>3, <1>4
  <1>7. \A i \in S : g[i] = f[i]
    BY <1>3, <1>4
  <1>8. IsFiniteSet(T) /\ \A i \in T : g[i] \in Int
    BY <1>3, RowsFinite, FS_Subset
  <1>9. IsFiniteSet(S) /\ \A i \in S : f[i] \in Int
    BY RowsFinite, FS_Subset
  <1>10. TotalOf(rows) = SumFunctionOnSet(f, S) /\ TotalOf(more) = SumFunctionOnSet(g, T)
    BY DEF TotalOf
  <1> HIDE DEF f, g, S, T
  <1>11. SumFunctionOnSet(g, T) = g[n] + SumFunctionOnSet(g, T \ {n})
    BY <1>5, <1>8, SumWithout
  <1>12. SumFunctionOnSet(g, S) = SumFunctionOnSet(f, S)
    BY <1>7, <1>9, SumSame
  <1>13. SumFunctionOnSet(f, S) \in Int /\ row.litres \in Int
    BY <1>9, SumType DEF Row
  <1>14. TotalOf(more) = row.litres + TotalOf(rows) /\ TotalOf(rows) \in Int
    BY <1>5, <1>6, <1>10, <1>11, <1>12, <1>13
  <1>15. TotalOf(more) = TotalOf(rows) + row.litres
    BY <1>13, <1>14
  <1> QED BY <1>1, <1>15

\* The totals of the model are those of its rows.
LEMMA TotalIs ==
    ASSUME NEW t \in Tanks
    PROVE  Total(t) = TotalOf(journal[t]) /\ Total(t)' = TotalOf(journal'[t])
  BY DEF Total, Litres, TotalOf

\* Where a row follows and the volume with it, or nothing happens, the volume goes with the journal.
LEMMA RowFollows ==
    ASSUME MeterInv, NEW t \in Tanks, NEW row \in Row, row.kind # "gone",
           tanks'[t].volume = tanks[t].volume + row.litres, journal'[t] = Append(journal[t], row)
    PROVE  Follows(t)
  <1>1. Total(t)' = Total(t) + row.litres /\ Total(t) \in Int
    BY TankKnown, TotalIs, TotalAppend, TotalTyped
  <1>2. row.litres \in Int /\ tanks[t].volume \in Int
    BY TankKnown DEF Row
  <1> QED BY <1>1, <1>2 DEF Follows

\* A tank that nothing happens to.
LEMMA NothingFollows ==
    ASSUME NEW t \in Tanks, tanks'[t] = tanks[t], journal'[t] = journal[t]
    PROVE  Follows(t)
  BY TotalIs DEF Follows

\* The operations on one tank post a row with its litres.
LEMMA PostsFollow ==
    ASSUME MeterInv, NEW t \in Tanks, PostsRow(t)
    PROVE  \A p \in Tanks : Follows(p)
  <1>1. PICK row \in Row : Fits(t, row) /\ Live(t) /\ Posts(t, row)
    BY DEF PostsRow
  <1>2. /\ tanks'[t] = Moved(t, row) /\ journal'[t] = Append(journal[t], row)
        /\ \A p \in Tanks \ {t} : tanks'[p] = tanks[p] /\ journal'[p] = journal[p]
    BY <1>1 DEF Posts, MeterInv, TanksSound
  <1>3. Follows(t)
    BY <1>1, <1>2, RowSound, RowFollows DEF Fits
  <1> QED BY <1>2, <1>3, NothingFollows

\* A tank begins with the row of its first litres, or with neither.
LEMMA CreateTankFollows ==
    ASSUME MeterInv, NEW t \in Tanks, NEW level \in Levels, NEW reading \in FirstReadings,
           CreateTank(t, level, reading)
    PROVE  \A p \in Tanks : Follows(p)
  <1>1. level \in Int /\ reading \in Readings
    BY AmountsAssumption, ReadingsAssumption DEF Readings
  <1>2. PICK row : row = [Entry(t, "adjust", level, reading) EXCEPT !.before = reading]
    OBVIOUS
  <1>3. row \in Row /\ row.kind = "adjust" /\ row.litres = level
    BY <1>1, <1>2, EntryTyped DEF Row, TankTxKind
  <1>4. /\ tanks'[t].volume = level /\ tanks[t].state = "none"
        /\ journal'[t] = IF level = 0 THEN << >> ELSE <<row>>
        /\ \A p \in Tanks \ {t} : tanks'[p] = tanks[p] /\ journal'[p] = journal[p]
    BY <1>2 DEF CreateTank, MeterInv, TanksSound
  <1>5. tanks[t].volume = 0 /\ journal[t] = << >> /\ journal[t] \in Seq(Row)
    BY <1>4, TankKnown DEF Sound
  <1>6. Follows(t)
    <2>1. CASE level = 0
      BY <1>4, <1>5, <2>1, TotalIs DEF Follows
    <2>2. CASE level # 0
      <3>1. <<row>> = Append(journal[t], row)
        BY <1>3, <1>5
      <3>2. tanks'[t].volume = tanks[t].volume + row.litres
        BY <1>1, <1>3, <1>4, <1>5
      <3> QED BY <1>3, <1>4, <2>2, <3>1, <3>2, RowFollows
    <2> QED BY <2>1, <2>2
  <1> QED BY <1>4, <1>6, NothingFollows

\* A transfer posts a row in each of its tanks.
LEMMA TransferFollows ==
    ASSUME MeterInv, SessionsOK, NEW s \in Sessions, TransferCommit(s)
    PROVE  \A p \in Tanks : Follows(p)
  <1>1. PICK a \in Tanks, b \in Tanks, out \in Row, in \in Row :
             /\ a # b /\ Live(a) /\ Live(b)
             /\ out.before = tanks[a].counter /\ out.kind = "transfer_out" /\ out.order = NoOrder
             /\ in.before = tanks[b].counter /\ in.kind = "transfer_in" /\ in.order = NoOrder
             /\ tanks' = [tanks EXCEPT ![a] = Moved(a, out), ![b] = Moved(b, in)]
             /\ journal' = [journal EXCEPT ![a] = Append(@, out), ![b] = Append(@, in)]
    BY TransferWrites
  <1>2. /\ tanks'[a] = Moved(a, out) /\ journal'[a] = Append(journal[a], out)
        /\ tanks'[b] = Moved(b, in) /\ journal'[b] = Append(journal[b], in)
        /\ \A p \in Tanks \ {a, b} : tanks'[p] = tanks[p] /\ journal'[p] = journal[p]
    BY <1>1 DEF MeterInv, TanksSound
  <1>3. Follows(a)
    BY <1>1, <1>2, RowSound, RowFollows DEF IssueOK
  <1>4. Follows(b)
    BY <1>1, <1>2, RowSound, RowFollows DEF IssueOK
  <1> QED BY <1>2, <1>3, <1>4, NothingFollows

\* A purge that has read every row of the order gives back what it deletes.
LEMMA PurgeFollows ==
    ASSUME MeterInv, SessionsOK, NEW s \in Sessions, PurgeCommit(s), NEW t \in Tanks,
           \A i \in DOMAIN journal[t] :
               journal[t][i].kind # "gone" /\ journal[t][i].order = session[s].order =>
                   <<t, i>> \in session[s].seen
    PROVE  Follows(t)
  <1>1. PICK rows, after : rows = journal[t] /\ after = journal'[t]
    OBVIOUS
  <1>2. PICK seen, o : seen = session[s].seen /\ o = session[s].order
    OBVIOUS
  <1>3. rows \in Seq(Row) /\ after \in Seq(Row) /\ DOMAIN after = DOMAIN rows
        /\ \A i \in DOMAIN rows :
              /\ after[i].litres = rows[i].litres
              /\ IF seen # {} /\ rows[i].order = o THEN after[i].kind = "gone" ELSE after[i] = rows[i]
    BY <1>1, <1>2, TankKnown, RowsPurged
  <1>4. \A i \in DOMAIN rows : <<t, i>> \in seen => rows[i].order = o /\ rows[i].kind # "gone"
    <2>1. session[s].op = "purge" /\ session[s] \in SessionState
      BY DEF PurgeCommit, SessionsOK
    <2>2. seen \in SUBSET (Tanks \X (1..MaxRows))
      BY <1>2, <2>1 DEF SessionState, Idle
    <2>3. \A i : <<t, i>> \in seen => i \in 1..MaxRows
      BY <2>2
    <2> QED BY <1>1, <1>2, <2>1, <2>3 DEF MeterInv, SeenStands
  <1> DEFINE f == [i \in DOMAIN rows |-> rows[i].litres]
             S == {i \in DOMAIN rows : rows[i].kind # "gone"}
             Q == {i \in DOMAIN rows : <<t, i>> \in seen}
             g == [i \in DOMAIN after |-> after[i].litres]
             T == {i \in DOMAIN after : after[i].kind # "gone"}
  <1>5. Q \in SUBSET S
    BY <1>4
  <1>6. T = S \ Q
    <2>1. ASSUME NEW i \in DOMAIN rows PROVE i \in T <=> i \in S \ Q
      <3>1. CASE seen = {}
        BY <1>3, <3>1
      <3>2. CASE seen # {} /\ rows[i].order = o
        BY <1>1, <1>2, <1>3, <3>2
      <3>3. CASE rows[i].order # o
        BY <1>3, <1>4, <3>3
      <3> QED BY <3>1, <3>2, <3>3
    <2> QED BY <1>3, <2>1
  <1>7. \A i \in T : g[i] = f[i]
    BY <1>3
  <1>8. IsFiniteSet(S) /\ IsFiniteSet(T) /\ IsFiniteSet(Q) /\ \A i \in S : f[i] \in Int
    BY <1>3, RowsFinite, FS_Subset
  <1>9. /\ Total(t) = SumFunctionOnSet(f, S) /\ Total(t)' = SumFunctionOnSet(g, T)
        /\ Seen(session[s], t) = SumFunctionOnSet(f, Q)
    BY <1>1, <1>2 DEF Total, Litres, Seen
  <1>10. tanks'[t].volume = tanks[t].volume - Seen(session[s], t) /\ tanks[t].volume \in Int
    <2>1. PICK litres : litres = tanks[t].volume - Seen(session[s], t)
      OBVIOUS
    <2>2. tanks'[t] = [tanks[t] EXCEPT !.volume = litres]
      BY <2>1 DEF PurgeCommit
    <2>3. tanks[t] \in Tank /\ tanks[t].volume \in Int
      BY TankKnown
    <2> QED BY <2>1, <2>2, <2>3 DEF Tank
  <1> HIDE DEF f, g, S, T, Q
  <1>11. SumFunctionOnSet(f, S) = SumFunctionOnSet(f, Q) + SumFunctionOnSet(f, S \ Q)
    BY <1>5, <1>8, SumSplits
  <1>12. SumFunctionOnSet(g, T) = SumFunctionOnSet(f, T)
    BY <1>7, <1>8, SumSame
  <1>13. SumFunctionOnSet(f, Q) \in Int /\ SumFunctionOnSet(f, T) \in Int
    BY <1>5, <1>6, <1>8, SumType
  <1> QED BY <1>6, <1>9, <1>10, <1>11, <1>12, <1>13 DEF Follows

\* Every step but the purge that came too late.
LEMMA FollowsStep ==
    ASSUME TanksInv, MeterInv, TanksNext
    PROVE  \/ \E s \in Sessions : /\ PurgeCommit(s)
                                  /\ \E t \in Tanks : \E i \in DOMAIN journal[t] :
                                       /\ journal[t][i].kind # "gone"
                                       /\ journal[t][i].order = session[s].order
                                       /\ <<t, i>> \notin session[s].seen
           \/ \A t \in Tanks : tanks'[t].state = "live" => Follows(t)
  <1>0. SessionsOK
    BY DEF TanksInv
  <1>1. ASSUME NEW t \in Tanks,
               \/ \E level \in Levels, reading \in FirstReadings : CreateTank(t, level, reading)
               \/ DeleteTank(t)
               \/ \E level \in Levels \cup {tanks[t].volume}, reading \in Readings :
                     AdjustTank(t, level, reading)
               \/ \E litres \in Amounts : RecordArrival(t, litres)
               \/ \E reading \in Readings, o \in Orders \cup {NoOrder} : RecordIssue(t, reading, o)
               \/ \E litres \in Amounts, reading \in Readings : RecordExpense(t, litres, reading)
        PROVE  \A p \in Tanks : tanks'[p].state = "live" => Follows(p)
    <2>1. CASE DeleteTank(t)
      <3>1. /\ tanks'[t].state = "deleted"
            /\ \A p \in Tanks \ {t} : tanks'[p] = tanks[p] /\ journal'[p] = journal[p]
        BY <2>1 DEF DeleteTank, MeterInv, TanksSound
      <3> QED BY <3>1, NothingFollows
    <2>2. CASE \E level \in Levels, reading \in FirstReadings : CreateTank(t, level, reading)
      BY <2>2, CreateTankFollows
    <2>3. CASE PostsRow(t)
      BY <2>3, PostsFollow
    <2> QED BY <1>1, <2>1, <2>2, <2>3, AdjustTankPosts, RecordArrivalPosts, RecordIssuePosts,
               RecordExpensePosts
  <1>2. ASSUME NEW s \in Sessions,
               \/ \E t, u \in Tanks, litres \in Amounts : TransferBegin(s, t, u, litres)
               \/ \E o \in Orders : PurgeBegin(s, o)
               \/ \E t \in Tanks : Lock(s, t)
               \/ RollBack(s)
        PROVE  \A p \in Tanks : Follows(p)
    <2>1. UNCHANGED <<tanks, journal>>
      BY <1>2 DEF TransferBegin, PurgeBegin, Lock, RollBack
    <2> QED BY <2>1, NothingFollows
  <1>3. ASSUME NEW s \in Sessions, TransferCommit(s)
        PROVE  \A p \in Tanks : Follows(p)
    BY <1>0, <1>3, TransferFollows
  <1>4. ASSUME NEW s \in Sessions, PurgeCommit(s),
               ~ \E t \in Tanks : \E i \in DOMAIN journal[t] :
                    /\ journal[t][i].kind # "gone"
                    /\ journal[t][i].order = session[s].order
                    /\ <<t, i>> \notin session[s].seen
        PROVE  \A p \in Tanks : Follows(p)
    BY <1>0, <1>4, PurgeFollows
  <1> QED BY <1>1, <1>2, <1>3, <1>4 DEF TanksNext

\* In every step but the purge of an order that fuel was issued for after the purge had read
\* the rows, what a tank holds changes by what its journal says: a transfer, a turn of the
\* meter, a correction and a purge included (handle_order_deleted, issue_from_tank).
THEOREM VolumeGoesWithJournal == TanksSpec => VolumeFollowsJournal
  <1>1. ASSUME TanksInv, MeterInv, TanksNext
        PROVE  \/ \E s \in Sessions : /\ PurgeCommit(s)
                                      /\ \E t \in Tanks : \E i \in DOMAIN journal[t] :
                                           /\ journal[t][i].kind # "gone"
                                           /\ journal[t][i].order = session[s].order
                                           /\ <<t, i>> \notin session[s].seen
               \/ \A t \in Tanks : tanks'[t].state = "live" =>
                    tanks'[t].volume - Total(t)' = tanks[t].volume - Total(t)
    BY <1>1, FollowsStep DEF Follows
  <1> QED BY <1>1, InitHolds, TanksStep, MeterStart, MeterStep, PTL DEF TanksSpec, VolumeFollowsJournal
-----------------------------------------------------------------------------
(* The two journals of a transfer *)

\* The rows of a kind of transfer, in a journal.
MovesOf(rows, kind, peer) == {i \in DOMAIN rows : rows[i].kind = kind /\ rows[i].peer = peer}

Transfer == {"transfer_in", "transfer_out"}

\* They are finitely many, and each has its number.
LEMMA MovesFinite ==
    ASSUME NEW rows \in Seq(Row), NEW kind, NEW peer
    PROVE  /\ IsFiniteSet(MovesOf(rows, kind, peer)) /\ Cardinality(MovesOf(rows, kind, peer)) \in Nat
           /\ MovesOf(rows, kind, peer) \subseteq 1..Len(rows) /\ Len(rows) \in Nat
  <1>1. DOMAIN rows = 1..Len(rows) /\ Len(rows) \in Nat /\ 1 \in Int /\ Len(rows) \in Int
    OBVIOUS
  <1>2. IsFiniteSet(1..Len(rows))
    BY <1>1, FS_Interval
  <1>3. MovesOf(rows, kind, peer) \subseteq 1..Len(rows)
    BY <1>1 DEF MovesOf
  <1> QED BY <1>1, <1>2, <1>3, FS_Subset, FS_CardinalityType

\* A journal with a row more.
Longer(rows, row) == Append(rows, row)

\* A set of rows with the row of a number more.
Also(rows, number) == rows \cup {number}

\* A row more is one of the kind or is not.
LEMMA MovesAppend ==
    ASSUME NEW rows \in Seq(Row), NEW row \in Row, NEW kind, NEW peer
    PROVE  /\ (row.kind = kind /\ row.peer = peer) =>
                 MovesOf(Longer(rows, row), kind, peer) = Also(MovesOf(rows, kind, peer), Len(rows) + 1)
           /\ (row.kind # kind \/ row.peer # peer) =>
                 MovesOf(Longer(rows, row), kind, peer) = MovesOf(rows, kind, peer)
           /\ \A i \in MovesOf(rows, kind, peer) : Longer(rows, row)[i] = rows[i]
           /\ Longer(rows, row)[Len(rows) + 1] = row
  <1>1. PICK more : more = Append(rows, row)
    OBVIOUS
  <1>2. /\ DOMAIN rows = 1..Len(rows) /\ Len(rows) \in Nat /\ DOMAIN more = 1..Len(rows) + 1
        /\ \A i \in 1..Len(rows) : more[i] = rows[i]
        /\ more[Len(rows) + 1] = row
    <2>1. Len(rows) \in Nat /\ DOMAIN rows = 1..Len(rows)
      OBVIOUS
    <2>2. more \in Seq(Row) /\ Len(more) = Len(rows) + 1
      BY <1>1, AppendProperties
    <2>3. ASSUME NEW i \in 1..Len(rows) PROVE more[i] = rows[i]
      BY <1>1, AppendProperties
    <2>4. more[Len(rows) + 1] = row
      BY <1>1, AppendProperties
    <2>5. DOMAIN more = 1..Len(more)
      BY <2>2
    <2> QED BY <2>1, <2>2, <2>3, <2>4, <2>5
  <1>3. \A i : i \in 1..Len(rows) + 1 <=> (i \in 1..Len(rows) \/ i = Len(rows) + 1)
    BY <1>2
  <1>4. MovesOf(more, kind, peer) =
           MovesOf(rows, kind, peer)
           \cup (IF row.kind = kind /\ row.peer = peer THEN {Len(rows) + 1} ELSE {})
    BY <1>2, <1>3 DEF MovesOf
  <1>5. \A i \in MovesOf(rows, kind, peer) : more[i] = rows[i]
    BY <1>2 DEF MovesOf
  <1>6. more = Longer(rows, row)
    BY <1>1 DEF Longer
  <1> QED BY <1>2, <1>4, <1>5, <1>6 DEF Also

\* The place of a row among those of its kind does not change when one follows, which has the
\* last place.
LEMMA PlaceOfNext ==
    ASSUME NEW n \in Nat, NEW moves \in SUBSET (1..n)
    PROVE  /\ PlaceIn(moves \cup {n + 1}, n + 1) = Cardinality(moves)
           /\ \A i \in moves : /\ PlaceIn(moves \cup {n + 1}, i) = PlaceIn(moves, i)
                               /\ PlaceIn(moves, i) # Cardinality(moves)
           /\ Cardinality(moves \cup {n + 1}) = Cardinality(moves) + 1
  <1>1. IsFiniteSet(1..n) /\ IsFiniteSet(moves) /\ Cardinality(moves) \in Nat
    <2>1. 1 \in Int /\ n \in Int
      OBVIOUS
    <2> QED BY <2>1, FS_Interval, FS_Subset, FS_CardinalityType
  <1>2. {j \in moves \cup {n + 1} : j < n + 1} = moves
    <2>1. \A j \in moves : j \in Int /\ j < n + 1
      OBVIOUS
    <2>2. ~(n + 1 < n + 1)
      OBVIOUS
    <2> QED BY <2>1, <2>2
  <1>3. ASSUME NEW i \in moves
        PROVE  PlaceIn(moves \cup {n + 1}, i) = PlaceIn(moves, i) /\ PlaceIn(moves, i) # Cardinality(moves)
    <2>1. {j \in moves \cup {n + 1} : j < i} = {j \in moves : j < i}
      OBVIOUS
    <2>2. {j \in moves : j < i} \subseteq moves \ {i}
      OBVIOUS
    <2> DEFINE before == {j \in moves : j < i}
    <2> HIDE DEF before
    <2>3. Cardinality(before) \in Nat /\ Cardinality(before) <= Cardinality(moves) - 1
      BY <1>1, <2>2, CountDrops DEF before
    <2>4. Cardinality(before) # Cardinality(moves)
      BY <1>1, <2>3
    <2> QED BY <2>1, <2>4 DEF PlaceIn, before
  <1>4. n + 1 \notin moves
    OBVIOUS
  <1>5. Cardinality(moves \cup {n + 1}) = Cardinality(moves) + 1
    BY <1>1, <1>4, FS_AddElement
  <1> QED BY <1>2, <1>3, <1>5 DEF PlaceIn

\* What one pair of tanks says.
PairOf(out, in, sender, receiver) ==
    /\ Cardinality(out) = Cardinality(in)
    /\ \A i \in out, j \in in : PlaceIn(out, i) = PlaceIn(in, j) =>
          sender[i].litres + receiver[j].litres = 0

\* What the transfers of any two tanks are to each other, in these words.
LEMMA PairsAre ==
    TransfersPair <=> \A t, u \in Tanks : PairOf(MovesOf(journal[t], "transfer_out", u),
                                                 MovesOf(journal[u], "transfer_in", t), journal[t], journal[u])
  BY DEF TransfersPair, PairOf, Moves, MovesOf

\* The rows of the transfers stay what they are.
LEMMA PairsStay ==
    ASSUME TransfersPair,
           \A t, u \in Tanks : \A kind \in Transfer :
              /\ MovesOf(journal'[t], kind, u) = MovesOf(journal[t], kind, u)
              /\ \A i \in MovesOf(journal[t], kind, u) : journal'[t][i].litres = journal[t][i].litres
    PROVE  TransfersPair'
  <1>1. ASSUME NEW t \in Tanks, NEW u \in Tanks
        PROVE  PairOf(MovesOf(journal'[t], "transfer_out", u), MovesOf(journal'[u], "transfer_in", t),
                      journal'[t], journal'[u])
    <2> DEFINE out == MovesOf(journal[t], "transfer_out", u)
               in  == MovesOf(journal[u], "transfer_in", t)
    <2>1. /\ MovesOf(journal'[t], "transfer_out", u) = out /\ MovesOf(journal'[u], "transfer_in", t) = in
          /\ \A i \in out : journal'[t][i].litres = journal[t][i].litres
          /\ \A j \in in : journal'[u][j].litres = journal[u][j].litres
      BY DEF Transfer
    <2>2. PairOf(out, in, journal[t], journal[u])
      BY PairsAre
    <2> HIDE DEF out, in
    <2> QED BY <2>1, <2>2 DEF PairOf
  <1> QED BY <1>1 DEF TransfersPair, PairOf, Moves, MovesOf, PlaceIn

\* A row that is no transfer's.
LEMMA OtherRow ==
    ASSUME MeterInv, TransfersPair, NEW t \in Tanks, PostsRow(t)
    PROVE  TransfersPair'
  <1>1. PICK row \in Row : Fits(t, row) /\ Posts(t, row)
    BY DEF PostsRow
  <1>2. ASSUME NEW p \in Tanks, NEW u \in Tanks, NEW kind \in Transfer
        PROVE  /\ MovesOf(journal'[p], kind, u) = MovesOf(journal[p], kind, u)
               /\ \A i \in MovesOf(journal[p], kind, u) : journal'[p][i] = journal[p][i]
    <2>1. CASE p # t
      <3>1. journal'[p] = journal[p]
        BY <1>1, <2>1 DEF Posts, MeterInv, TanksSound
      <3> QED BY <3>1
    <2>2. CASE p = t
      <3>1. journal'[t] = Longer(journal[t], row) /\ journal[t] \in Seq(Row) /\ row.kind # kind
        BY <1>1, TankKnown DEF Posts, MeterInv, TanksSound, Fits, Transfer, Longer
      <3>2. /\ MovesOf(Longer(journal[t], row), kind, u) = MovesOf(journal[t], kind, u)
            /\ \A i \in MovesOf(journal[t], kind, u) : Longer(journal[t], row)[i] = journal[t][i]
        BY <3>1, MovesAppend
      <3> QED BY <2>2, <3>1, <3>2
    <2> QED BY <2>1, <2>2
  <1> QED BY <1>2, PairsStay

\* A tank begins and ends without rows of transfers.
LEMMA TankComesOrGoes ==
    ASSUME MeterInv, TransfersPair, NEW t \in Tanks,
           \/ \E level \in Levels, reading \in FirstReadings : CreateTank(t, level, reading)
           \/ DeleteTank(t)
    PROVE  TransfersPair'
  <1>1. \A p \in Tanks \ {t} : journal'[p] = journal[p]
    BY DEF CreateTank, DeleteTank, MeterInv, TanksSound
  <1>2. \A i \in DOMAIN journal[t] : journal[t][i].kind \notin Transfer
    <2>1. CASE DeleteTank(t)
      BY <2>1 DEF DeleteTank, Transfer
    <2>2. CASE tanks[t].state = "none"
      BY <2>2, TankKnown DEF Sound
    <2> QED BY <2>1, <2>2 DEF CreateTank
  <1>3. \A i \in DOMAIN journal'[t] : journal'[t][i].kind \notin Transfer
    <2>1. CASE DeleteTank(t)
      <3>1. journal'[t] = << >>
        BY <2>1 DEF DeleteTank, MeterInv, TanksSound
      <3> QED BY <3>1
    <2>2. ASSUME NEW level \in Levels, NEW reading \in FirstReadings, CreateTank(t, level, reading)
          PROVE  \A i \in DOMAIN journal'[t] : journal'[t][i].kind = "adjust"
      <3>1. PICK row : row = [Entry(t, "adjust", level, reading) EXCEPT !.before = reading]
        OBVIOUS
      <3>2. row.kind = "adjust"
        BY <3>1 DEF Entry
      <3>3. journal'[t] = << >> \/ journal'[t] = <<row>>
        BY <2>2, <3>1 DEF CreateTank, MeterInv, TanksSound
      <3> QED BY <3>2, <3>3
    <2> QED BY <2>1, <2>2 DEF Transfer
  <1>4. ASSUME NEW p \in Tanks, NEW u \in Tanks, NEW kind \in Transfer
        PROVE  /\ MovesOf(journal'[p], kind, u) = MovesOf(journal[p], kind, u)
               /\ \A i \in MovesOf(journal[p], kind, u) : journal'[p][i] = journal[p][i]
    <2>1. CASE p # t
      BY <1>1, <2>1
    <2>2. CASE p = t
      BY <1>2, <1>3, <2>2 DEF MovesOf
    <2> QED BY <2>1, <2>2
  <1> QED BY <1>4, PairsStay

\* A purge deletes the rows of an order, and no transfer is for one.
LEMMA PurgeLeavesTransfers ==
    ASSUME MeterInv, SessionsOK, TransfersPair, NEW s \in Sessions, PurgeCommit(s)
    PROVE  TransfersPair'
  <1>1. session[s].order \in Orders
    BY DEF PurgeCommit, SessionsOK, SessionState, Idle
  <1>2. ASSUME NEW p \in Tanks, NEW u \in Tanks, NEW kind \in Transfer
        PROVE  /\ MovesOf(journal'[p], kind, u) = MovesOf(journal[p], kind, u)
               /\ \A i \in MovesOf(journal[p], kind, u) : journal'[p][i].litres = journal[p][i].litres
    <2>1. \A i \in DOMAIN journal[p] : journal[p][i].order # NoOrder => journal[p][i].kind \in {"issue", "gone"}
      BY TankKnown DEF Sound
    <2>2. \A i \in DOMAIN journal[p] :
             \/ journal'[p][i] = journal[p][i]
             \/ journal'[p][i].kind = "gone" /\ journal[p][i].order = session[s].order
      BY RowsPurged
    <2>3. \A i \in DOMAIN journal[p] :
             journal[p][i].order = session[s].order => journal[p][i].kind \notin Transfer
      BY <1>1, <2>1, NoOrderAssumption DEF Transfer
    <2>4. "gone" \notin Transfer
      BY DEF Transfer
    <2>5. DOMAIN journal'[p] = DOMAIN journal[p]
      BY RowsPurged
    <2> QED BY <2>2, <2>3, <2>4, <2>5 DEF MovesOf
  <1> QED BY <1>2, PairsStay

\* A transfer writes a row in each of the two journals, in the same place.
LEMMA TransferPairs ==
    ASSUME MeterInv, SessionsOK, TransfersPair, NEW s \in Sessions, TransferCommit(s)
    PROVE  TransfersPair'
  <1>1. PICK a \in Tanks, b \in Tanks, out \in Row, in \in Row :
             /\ a # b
             /\ out.kind = "transfer_out" /\ in.kind = "transfer_in"
             /\ out.peer = b /\ in.peer = a /\ out.litres + in.litres = 0
             /\ journal' = [journal EXCEPT ![a] = Append(@, out), ![b] = Append(@, in)]
    BY TransferWrites
  <1>2. /\ journal'[a] = Append(journal[a], out) /\ journal'[b] = Append(journal[b], in)
        /\ \A p \in Tanks \ {a, b} : journal'[p] = journal[p]
    BY <1>1 DEF MeterInv, TanksSound
  <1>3. \A p \in Tanks : journal[p] \in Seq(Row)
    BY TankKnown
  <1>4. ASSUME NEW p \in Tanks, NEW u \in Tanks
        PROVE  /\ MovesOf(journal'[p], "transfer_out", u) =
                     MovesOf(journal[p], "transfer_out", u)
                     \cup (IF p = a /\ u = b THEN {Len(journal[a]) + 1} ELSE {})
               /\ MovesOf(journal'[p], "transfer_in", u) =
                     MovesOf(journal[p], "transfer_in", u)
                     \cup (IF p = b /\ u = a THEN {Len(journal[b]) + 1} ELSE {})
               /\ \A kind \in Transfer : \A i \in MovesOf(journal[p], kind, u) : journal'[p][i] = journal[p][i]
    <2>1. CASE p \notin {a, b}
      BY <1>2, <2>1
    <2>2. CASE p = a
      <3>1. /\ journal[a] \in Seq(Row) /\ out \in Row
            /\ journal'[a] = Longer(journal[a], out)
        BY <1>2, <1>3 DEF Longer
      <3>2. ASSUME NEW kind
            PROVE  /\ (out.kind = kind /\ out.peer = u) =>
                        MovesOf(journal'[a], kind, u) = MovesOf(journal[a], kind, u) \cup {Len(journal[a]) + 1}
                   /\ (out.kind # kind \/ out.peer # u) =>
                        MovesOf(journal'[a], kind, u) = MovesOf(journal[a], kind, u)
                   /\ \A i \in MovesOf(journal[a], kind, u) : journal'[a][i] = journal[a][i]
        <4>1. /\ (out.kind = kind /\ out.peer = u) =>
                    MovesOf(Longer(journal[a], out), kind, u) =
                       MovesOf(journal[a], kind, u) \cup {Len(journal[a]) + 1}
              /\ (out.kind # kind \/ out.peer # u) =>
                    MovesOf(Longer(journal[a], out), kind, u) = MovesOf(journal[a], kind, u)
              /\ \A i \in MovesOf(journal[a], kind, u) : Longer(journal[a], out)[i] = journal[a][i]
          <5>1. journal[a] \in Seq(Row) /\ out \in Row
            BY <3>1
          <5>2. (out.kind = kind /\ out.peer = u) =>
                   MovesOf(Longer(journal[a], out), kind, u) =
                      Also(MovesOf(journal[a], kind, u), Len(journal[a]) + 1)
            BY <5>1, MovesAppend
          <5>3. /\ (out.kind # kind \/ out.peer # u) =>
                      MovesOf(Longer(journal[a], out), kind, u) = MovesOf(journal[a], kind, u)
                /\ \A i \in MovesOf(journal[a], kind, u) : Longer(journal[a], out)[i] = journal[a][i]
            BY <5>1, MovesAppend
          <5> QED BY <5>2, <5>3 DEF Also
        <4> QED BY <3>1, <4>1
      <3> QED BY <1>1, <2>2, <3>2
    <2>3. CASE p = b
      <3>1. /\ journal[b] \in Seq(Row) /\ in \in Row
            /\ journal'[b] = Longer(journal[b], in)
        BY <1>2, <1>3 DEF Longer
      <3>2. ASSUME NEW kind
            PROVE  /\ (in.kind = kind /\ in.peer = u) =>
                        MovesOf(journal'[b], kind, u) = MovesOf(journal[b], kind, u) \cup {Len(journal[b]) + 1}
                   /\ (in.kind # kind \/ in.peer # u) =>
                        MovesOf(journal'[b], kind, u) = MovesOf(journal[b], kind, u)
                   /\ \A i \in MovesOf(journal[b], kind, u) : journal'[b][i] = journal[b][i]
        <4>1. /\ (in.kind = kind /\ in.peer = u) =>
                    MovesOf(Longer(journal[b], in), kind, u) =
                       MovesOf(journal[b], kind, u) \cup {Len(journal[b]) + 1}
              /\ (in.kind # kind \/ in.peer # u) =>
                    MovesOf(Longer(journal[b], in), kind, u) = MovesOf(journal[b], kind, u)
              /\ \A i \in MovesOf(journal[b], kind, u) : Longer(journal[b], in)[i] = journal[b][i]
          <5>1. journal[b] \in Seq(Row) /\ in \in Row
            BY <3>1
          <5>2. (in.kind = kind /\ in.peer = u) =>
                   MovesOf(Longer(journal[b], in), kind, u) =
                      Also(MovesOf(journal[b], kind, u), Len(journal[b]) + 1)
            BY <5>1, MovesAppend
          <5>3. /\ (in.kind # kind \/ in.peer # u) =>
                      MovesOf(Longer(journal[b], in), kind, u) = MovesOf(journal[b], kind, u)
                /\ \A i \in MovesOf(journal[b], kind, u) : Longer(journal[b], in)[i] = journal[b][i]
            BY <5>1, MovesAppend
          <5> QED BY <5>2, <5>3 DEF Also
        <4> QED BY <3>1, <4>1
      <3> QED BY <1>1, <2>3, <3>2
    <2> QED BY <2>1, <2>2, <2>3
  <1>5. journal'[a][Len(journal[a]) + 1] = out /\ journal'[b][Len(journal[b]) + 1] = in
    BY <1>2, <1>3, AppendProperties
  <1>6. ASSUME NEW t \in Tanks, NEW u \in Tanks
        PROVE  PairOf(MovesOf(journal'[t], "transfer_out", u), MovesOf(journal'[u], "transfer_in", t),
                      journal'[t], journal'[u])
    <2> DEFINE sent == MovesOf(journal[t], "transfer_out", u)
               got  == MovesOf(journal[u], "transfer_in", t)
    <2>1. PairOf(sent, got, journal[t], journal[u])
      BY PairsAre
    <2>2. /\ \A i \in sent : journal'[t][i] = journal[t][i]
          /\ \A j \in got : journal'[u][j] = journal[u][j]
      BY <1>4 DEF Transfer
    <2>3. /\ sent \in SUBSET (1..Len(journal[t])) /\ got \in SUBSET (1..Len(journal[u]))
          /\ Len(journal[t]) \in Nat /\ Len(journal[u]) \in Nat
      BY <1>3, MovesFinite
    <2>4. CASE t = a /\ u = b
      <3> DEFINE n == Len(journal[t])
                 m == Len(journal[u])
      <3>1. /\ MovesOf(journal'[t], "transfer_out", u) = sent \cup {n + 1}
            /\ MovesOf(journal'[u], "transfer_in", t) = got \cup {m + 1}
            /\ journal'[t][n + 1] = out /\ journal'[u][m + 1] = in
        BY <1>4, <1>5, <2>4
      <3>0. n \in Nat /\ m \in Nat /\ sent \in SUBSET (1..n) /\ got \in SUBSET (1..m)
        BY <2>3
      <3> HIDE DEF sent, got, n, m
      <3>2. /\ PlaceIn(sent \cup {n + 1}, n + 1) = Cardinality(sent)
            /\ \A i \in sent : /\ PlaceIn(sent \cup {n + 1}, i) = PlaceIn(sent, i)
                               /\ PlaceIn(sent, i) # Cardinality(sent)
            /\ Cardinality(sent \cup {n + 1}) = Cardinality(sent) + 1
        BY <3>0, PlaceOfNext
      <3>3. /\ PlaceIn(got \cup {m + 1}, m + 1) = Cardinality(got)
            /\ \A i \in got : /\ PlaceIn(got \cup {m + 1}, i) = PlaceIn(got, i)
                              /\ PlaceIn(got, i) # Cardinality(got)
            /\ Cardinality(got \cup {m + 1}) = Cardinality(got) + 1
        BY <3>0, PlaceOfNext
      <3>4. /\ Cardinality(sent) = Cardinality(got)
            /\ \A i \in sent, j \in got : PlaceIn(sent, i) = PlaceIn(got, j) =>
                  journal[t][i].litres + journal[u][j].litres = 0
        BY <2>1 DEF PairOf
      <3>5. ASSUME NEW i \in sent \cup {n + 1}, NEW j \in got \cup {m + 1},
                   PlaceIn(sent \cup {n + 1}, i) = PlaceIn(got \cup {m + 1}, j)
            PROVE  journal'[t][i].litres + journal'[u][j].litres = 0
        <4>1. CASE i \in sent /\ j \in got
          BY <2>2, <3>2, <3>3, <3>4, <3>5, <4>1
        <4>2. CASE i = n + 1 /\ j = m + 1
          BY <1>1, <3>1, <4>2
        <4>3. CASE i \in sent /\ j = m + 1
          BY <3>2, <3>3, <3>4, <3>5, <4>3
        <4>4. CASE i = n + 1 /\ j \in got
          BY <3>2, <3>3, <3>4, <3>5, <4>4
        <4> QED BY <4>1, <4>2, <4>3, <4>4
      <3>6. Cardinality(sent \cup {n + 1}) = Cardinality(got \cup {m + 1})
        BY <3>2, <3>3, <3>4
      <3> QED BY <3>1, <3>5, <3>6 DEF PairOf
    <2>5. CASE ~(t = a /\ u = b)
      <3>1. MovesOf(journal'[t], "transfer_out", u) = sent /\ MovesOf(journal'[u], "transfer_in", t) = got
        <4>1. /\ MovesOf(journal'[t], "transfer_out", u) = sent \cup {}
              /\ MovesOf(journal'[u], "transfer_in", t) = got \cup {}
          <5>1. MovesOf(journal'[t], "transfer_out", u) = sent \cup {}
            BY <1>4, <2>5
          <5>2. MovesOf(journal'[u], "transfer_in", t) = got \cup {}
            BY <1>4, <2>5
          <5> QED BY <5>1, <5>2
        <4> QED BY <4>1
      <3> HIDE DEF sent, got
      <3> QED BY <2>1, <2>2, <3>1 DEF PairOf
    <2> QED BY <2>4, <2>5
  <1> QED BY <1>6 DEF TransfersPair, PairOf, Moves, MovesOf, PlaceIn

\* Every step keeps the transfers paired.
LEMMA PairsStep == TanksInv /\ MeterInv /\ TransfersPair /\ [TanksNext]_tankVars => TransfersPair'
  <1> SUFFICES ASSUME TanksInv, MeterInv, TransfersPair, [TanksNext]_tankVars
               PROVE  TransfersPair'
    OBVIOUS
  <1>0. SessionsOK
    BY DEF TanksInv
  <1>1. ASSUME UNCHANGED journal PROVE TransfersPair'
    BY <1>1, PairsStay
  <1>2. ASSUME NEW t \in Tanks,
               \/ \E level \in Levels, reading \in FirstReadings : CreateTank(t, level, reading)
               \/ DeleteTank(t)
               \/ \E level \in Levels \cup {tanks[t].volume}, reading \in Readings :
                     AdjustTank(t, level, reading)
               \/ \E litres \in Amounts : RecordArrival(t, litres)
               \/ \E reading \in Readings, o \in Orders \cup {NoOrder} : RecordIssue(t, reading, o)
               \/ \E litres \in Amounts, reading \in Readings : RecordExpense(t, litres, reading)
        PROVE  TransfersPair'
    BY <1>2, TankComesOrGoes, OtherRow, AdjustTankPosts, RecordArrivalPosts, RecordIssuePosts,
       RecordExpensePosts
  <1>3. ASSUME NEW s \in Sessions,
               \/ \E t, u \in Tanks, litres \in Amounts : TransferBegin(s, t, u, litres)
               \/ \E o \in Orders : PurgeBegin(s, o)
               \/ \E t \in Tanks : Lock(s, t)
               \/ RollBack(s)
        PROVE  TransfersPair'
    BY <1>1, <1>3 DEF TransferBegin, PurgeBegin, Lock, RollBack
  <1>4. ASSUME NEW s \in Sessions, TransferCommit(s) \/ PurgeCommit(s) PROVE TransfersPair'
    BY <1>0, <1>4, TransferPairs, PurgeLeavesTransfers
  <1>5. CASE UNCHANGED tankVars
    BY <1>1, <1>5 DEF tankVars
  <1> QED BY <1>2, <1>3, <1>4, <1>5 DEF TanksNext

\* No tank has a transfer at first.
LEMMA PairsStart == TanksInit => TransfersPair
  <1> SUFFICES ASSUME TanksInit PROVE TransfersPair
    OBVIOUS
  <1>1. \A t \in Tanks : \A kind, u : MovesOf(journal[t], kind, u) = {}
    BY DEF TanksInit, MovesOf
  <1> QED BY <1>1, PairsAre DEF PairOf

\* Each litre that left one tank for another arrived there: the rows of the two journals are the
\* same in the same order, whoever transfers the other way (transfer).
THEOREM TransfersStayPaired == TanksSpec => []TransfersPair
  BY InitHolds, TanksStep, MeterStart, MeterStep, PairsStart, PairsStep, PTL DEF TanksSpec

-----------------------------------------------------------------------------
(* Trackers: the invariant *)

Requests == [step: {"count", "register"}, number: Numbers]
            \cup [step: {"store"}, number: Numbers, id: Ids, point: Point]
            \cup [step: {"bind"}, number: Numbers, id: 0..MaxIssued,
                  vehicle: Vehicles \cup {NoVehicle, "kept"},
                  change: {"kept", "totp", "token", "drop", "switch", "confirm"}, free: BOOLEAN]

\* The table: an id is of one row, and of one that was made.
RowsOK ==
    /\ trackers \in [Numbers -> TrackerRow \cup {Missing}] /\ garage \subseteq Vehicles
    /\ issuedIds \in 0..MaxIssued /\ gpsClock \in 0..MaxTime /\ abreast \in Nat
    /\ \A n \in Numbers : Registered(n) => trackers[n].id <= issuedIds /\ trackers[n].since <= gpsClock
    /\ \A n, m \in Numbers : Registered(n) /\ trackers[m].id = trackers[n].id => m = n

OnItsWay == {q \in GpsRequests : Awaiting(q, "store")}

\* What the requests have read: the row of a point that is on its way may have gone meanwhile, but
\* its id is of no other number; and a vehicle is only bound that was free.
RequestsOK ==
    /\ gps \in [GpsRequests -> Requests \cup {Resting}]
    /\ \A q \in OnItsWay :
          /\ gps[q].point.device = gps[q].id /\ gps[q].id <= issuedIds
          /\ gps[q].point.passed <= gpsClock
          /\ \A n \in Numbers : trackers[n].id = gps[q].id => n = gps[q].number
    /\ \A q \in GpsRequests : Awaiting(q, "bind") /\ gps[q].vehicle \in Vehicles => gps[q].free

PointsOK ==
    /\ DOMAIN points \subseteq Point
    /\ \A p \in DOMAIN points : points[p] \in Nat \ {0} /\ p.passed <= gpsClock

\* What the process remembers.
MemoryOK ==
    /\ \A d \in DOMAIN lastPoint : lastPoint[d] \in 0..gpsClock
    /\ wrong \in [Ids -> Seq(0..MaxTime)]
    /\ \A d \in Ids : Cardinality(Recent(d)) <= MaxWrong

\* A point has proved the secret that its tracker has, or was let pass before it was changed.
Honest(p) ==
    \A n \in Numbers : p.device = trackers[n].id /\ p.passed > trackers[n].since =>
        /\ trackers[n].totp # NoSecret => p.proof = trackers[n].totp
        /\ trackers[n].totp = NoSecret /\ trackers[n].token # NoSecret => p.proof = trackers[n].token

AllHonest == /\ \A p \in DOMAIN points : Honest(p)
             /\ \A q \in OnItsWay : Honest(gps[q].point)

\* The limiter knows of a point, or it is long ago.
Known(p) == \/ gpsClock - p.passed >= MinInterval
            \/ p.device \in DOMAIN lastPoint /\ p.passed <= lastPoint[p.device]

Watched(p) == p.device \notin forgotten

\* Of the points that are kept or on their way none is too near to another of its tracker.
Spaced ==
    /\ \A p \in DOMAIN points : Watched(p) => Known(p)
    /\ \A q \in OnItsWay : Watched(gps[q].point) => Known(gps[q].point)
    /\ \A p, r \in DOMAIN points :
          p.device = r.device /\ Watched(p) /\ (p = r => points[p] > 1) => Apart(p, r)
    /\ \A q \in OnItsWay : \A p \in DOMAIN points :
          p.device = gps[q].point.device /\ Watched(p) => Apart(p, gps[q].point)
    /\ \A q, o \in OnItsWay :
          q # o /\ gps[o].point.device = gps[q].point.device /\ Watched(gps[q].point) =>
              Apart(gps[o].point, gps[q].point)

TrackersInv == /\ RowsOK /\ RequestsOK /\ PointsOK /\ MemoryOK /\ AllHonest /\ Spaced
               /\ PointsHaveTracker /\ CeilingHolds /\ OneTrackerEach

-----------------------------------------------------------------------------
(* Trackers: what the steps have in common *)

\* The assumption on the constants, number by number.
LEMMA TrackerBounds ==
    /\ MaxAuto \in Nat /\ MinInterval \in Nat /\ MaxWrong \in Nat /\ WrongWindow \in Nat /\ Skew \in Nat
    /\ Retention \in Nat /\ MaxTime \in Nat /\ MaxIssued \in Nat /\ MaxGpsReqs \in Nat
    /\ Claims \subseteq Int /\ MaxEntries \in Nat /\ IsFiniteSet(Numbers)
    /\ NoVehicle \notin Vehicles /\ "kept" \notin Vehicles /\ NoVehicle # "kept"
  BY TrackersAssumption

\* What a number has in the table: nothing, or a row with an id.
LEMMA RowKnown ==
    ASSUME RowsOK, NEW n \in Numbers
    PROVE  /\ trackers[n].id \in 0..MaxIssued
           /\ Registered(n) <=> trackers[n] \in TrackerRow
           /\ Registered(n) <=> trackers[n].id # 0
           /\ trackers[n].id # 0 =>
                /\ trackers[n].id \in Ids /\ trackers[n].id <= issuedIds
                /\ trackers[n].auto \in BOOLEAN /\ trackers[n].active \in BOOLEAN
                /\ trackers[n].totp \in 0..MaxIssued /\ trackers[n].token \in 0..MaxIssued
                /\ trackers[n].vehicle \in Vehicles \cup {NoVehicle}
                /\ trackers[n].since \in 0..MaxTime /\ trackers[n].since <= gpsClock
  <1>1. trackers[n] \in TrackerRow \/ trackers[n] = Missing
    BY DEF RowsOK
  <1>2. ASSUME trackers[n] \in TrackerRow
        PROVE  /\ trackers[n].id \in Ids /\ trackers[n].id # 0 /\ trackers[n] # Missing
               /\ trackers[n].auto \in BOOLEAN /\ trackers[n].active \in BOOLEAN
               /\ trackers[n].totp \in 0..MaxIssued /\ trackers[n].token \in 0..MaxIssued
               /\ trackers[n].vehicle \in Vehicles \cup {NoVehicle}
               /\ trackers[n].since \in 0..MaxTime
    BY <1>2, TrackerBounds DEF TrackerRow, Missing, Ids
  <1>3. Missing.id = 0
    BY DEF Missing
  <1>4. Ids \subseteq 0..MaxIssued /\ 0 \in 0..MaxIssued
    BY TrackerBounds DEF Ids
  <1> QED BY <1>1, <1>2, <1>3, <1>4 DEF RowsOK, Registered

\* What a request in progress has read.
LEMMA RequestKnown ==
    ASSUME RequestsOK, NEW q \in GpsRequests, gps[q] # Resting
    PROVE  /\ gps[q].number \in Numbers
           /\ gps[q].step \in {"count", "register", "store", "bind"}
           /\ gps[q].step \in {"store", "bind"} => gps[q].id \in 0..MaxIssued
           /\ gps[q].step = "store" => gps[q].id \in Ids /\ gps[q].point \in Point
           /\ gps[q].step = "bind" =>
                /\ gps[q].vehicle \in Vehicles \cup {NoVehicle, "kept"} /\ gps[q].free \in BOOLEAN
                /\ gps[q].change \in {"kept", "totp", "token", "drop", "switch", "confirm"}
  <1>1. gps[q] \in Requests
    BY DEF RequestsOK
  <1>2. CASE gps[q] \in [step: {"count", "register"}, number: Numbers]
    BY <1>2
  <1>3. CASE gps[q] \in [step: {"store"}, number: Numbers, id: Ids, point: Point]
    BY <1>3, TrackerBounds DEF Ids
  <1>4. CASE gps[q] \in [step: {"bind"}, number: Numbers, id: 0..MaxIssued,
                         vehicle: Vehicles \cup {NoVehicle, "kept"},
                         change: {"kept", "totp", "token", "drop", "switch", "confirm"}, free: BOOLEAN]
    BY <1>4
  <1> QED BY <1>1, <1>2, <1>3, <1>4 DEF Requests

\* What a point says.
LEMMA PointKnown ==
    ASSUME NEW p \in Point
    PROVE  /\ p.device \in Ids /\ p.device \in Nat \ {0} /\ p.passed \in Nat /\ p.proof \in Int
  BY TrackerBounds DEF Point, Ids, Wrong

\* A row takes the place of another: a row that was there keeps its id, a new one has the next.
LEMMA RowsStay ==
    ASSUME RowsOK, NEW n \in Numbers, NEW row, trackers' = [trackers EXCEPT ![n] = row],
           \/ row = Missing
           \/ /\ row \in TrackerRow /\ row.since <= gpsClock
              /\ \/ Registered(n) /\ row.id = trackers[n].id
                 \/ row.id = issuedIds + 1 /\ row.id <= issuedIds',
           issuedIds' \in issuedIds..MaxIssued, gpsClock' = gpsClock, garage' = garage, abreast' \in Nat
    PROVE  /\ RowsOK'
           /\ \A m \in Numbers : \/ trackers'[m].id = trackers[m].id /\ (m # n => trackers'[m] = trackers[m])
                                 \/ trackers'[m].id = 0
                                 \/ trackers'[m].id > issuedIds
  <1>1. trackers' \in [Numbers -> TrackerRow \cup {Missing}]
    BY DEF RowsOK
  <1>2. \A m \in Numbers : trackers'[m] = IF m = n THEN row ELSE trackers[m]
    BY DEF RowsOK
  <1>3. \A m \in Numbers : (trackers'[m] # Missing <=> trackers'[m].id # 0)
    <2>1. \A r \in TrackerRow : r.id # 0 /\ r # Missing
      BY TrackerBounds DEF TrackerRow, Ids, Missing
    <2>2. Missing.id = 0
      BY DEF Missing
    <2> QED BY <1>1, <2>1, <2>2
  <1>4. issuedIds \in Nat /\ issuedIds' \in Nat /\ issuedIds <= issuedIds' /\ MaxIssued \in Nat
    BY TrackerBounds DEF RowsOK
  <1>5. ASSUME NEW m \in Numbers, trackers'[m] # Missing
        PROVE  trackers'[m].id <= issuedIds' /\ trackers'[m].since <= gpsClock'
    <2>1. CASE m = n
      <3>1. trackers'[m] = row /\ row # Missing
        BY <1>2, <1>5, <2>1
      <3>2. Registered(n) => trackers[n].id \in Nat /\ trackers[n].id <= issuedIds
        BY RowKnown, TrackerBounds DEF Ids
      <3> QED BY <1>4, <3>1, <3>2
    <2>2. CASE m # n
      <3>1. trackers'[m] = trackers[m] /\ Registered(m)
        BY <1>2, <1>5, <2>2 DEF Registered
      <3>2. trackers[m].id \in Nat /\ trackers[m].id <= issuedIds /\ trackers[m].since <= gpsClock
        BY <3>1, RowKnown, TrackerBounds DEF Ids
      <3> QED BY <1>4, <3>1, <3>2
    <2> QED BY <2>1, <2>2
  <1>6. ASSUME NEW m \in Numbers, NEW k \in Numbers, trackers'[m] # Missing, trackers'[k].id = trackers'[m].id
        PROVE  k = m
    <2>1. trackers'[k] # Missing /\ trackers'[k].id # 0
      BY <1>3, <1>6
    <2>2. \A x \in Numbers : trackers[x].id \in Nat /\ trackers[x].id <= issuedIds
      BY <1>4, RowKnown, TrackerBounds DEF Ids
    <2>3. row = Missing => row.id = 0
      BY DEF Missing
    <2>4. \A x, y \in Numbers : trackers[x].id # 0 /\ trackers[y].id = trackers[x].id => y = x
      BY RowKnown DEF RowsOK
    <2>5. ASSUME NEW x \in Numbers, x # n, row.id = trackers[x].id PROVE row.id = 0
      <3>1. CASE row.id = trackers[n].id
        BY <2>4, <2>5, <3>1
      <3>2. CASE row.id = issuedIds + 1
        <4>1. trackers[x].id \in Nat /\ trackers[x].id <= issuedIds /\ trackers[x].id = issuedIds + 1
          BY <2>2, <2>5, <3>2
        <4> QED BY <1>4, <4>1
      <3> QED BY <2>3, <3>1, <3>2
    <2>6. CASE m = n /\ k # n
      BY <1>2, <1>6, <2>1, <2>5, <2>6
    <2>7. CASE m # n /\ k = n
      BY <1>2, <1>6, <2>1, <2>5, <2>7
    <2>8. CASE m # n /\ k # n
      BY <1>2, <1>6, <2>1, <2>4, <2>8
    <2> QED BY <2>6, <2>7, <2>8
  <1>7. RowsOK'
    <2>1. garage' \subseteq Vehicles /\ issuedIds' \in 0..MaxIssued /\ gpsClock' \in 0..MaxTime
      BY <1>4 DEF RowsOK
    <2> QED BY <1>1, <1>5, <1>6, <2>1 DEF RowsOK, Registered
  <1>8. ASSUME NEW m \in Numbers
        PROVE  \/ trackers'[m].id = trackers[m].id /\ (m # n => trackers'[m] = trackers[m])
               \/ trackers'[m].id = 0
               \/ trackers'[m].id > issuedIds
    <2>1. row = Missing => row.id = 0
      BY DEF Missing
    <2> QED BY <1>2, <1>4, <2>1
  <1> QED BY <1>7, <1>8

\* A request goes on, and its point, if it has one, is of a row whose id is of no other number.
LEMMA RequestsStay ==
    ASSUME RowsOK, RequestsOK, NEW q \in GpsRequests, NEW row \in Requests \cup {Resting},
           gps' = [gps EXCEPT ![q] = row],
           row # Resting /\ row.step = "store" =>
               /\ row.point.device = row.id /\ row.id <= issuedIds' /\ row.point.passed <= gpsClock
               /\ \A n \in Numbers : trackers'[n].id = row.id => n = row.number,
           row # Resting /\ row.step = "bind" /\ row.vehicle \in Vehicles => row.free,
           \A n \in Numbers : \/ trackers'[n].id = trackers[n].id \/ trackers'[n].id = 0
                              \/ trackers'[n].id > issuedIds,
           issuedIds' \in Nat, issuedIds <= issuedIds', gpsClock' = gpsClock
    PROVE  RequestsOK'
  <1>1. /\ gps' \in [GpsRequests -> Requests \cup {Resting}]
        /\ \A r \in GpsRequests : gps'[r] = IF r = q THEN row ELSE gps[r]
    BY DEF RequestsOK
  <1>2. issuedIds \in Nat /\ gpsClock \in Nat
    BY TrackerBounds DEF RowsOK
  <1>3. ASSUME NEW r \in GpsRequests, gps'[r] # Resting, gps'[r].step = "store"
        PROVE  /\ gps'[r].point.device = gps'[r].id /\ gps'[r].id <= issuedIds'
               /\ gps'[r].point.passed <= gpsClock'
               /\ \A n \in Numbers : trackers'[n].id = gps'[r].id => n = gps'[r].number
    <2>1. CASE r = q
      BY <1>1, <1>3, <2>1
    <2>2. CASE r # q
      <3>1. gps'[r] = gps[r] /\ r \in OnItsWay
        BY <1>1, <1>3, <2>2 DEF OnItsWay, Awaiting
      <3>2. /\ gps[r].point.device = gps[r].id /\ gps[r].id <= issuedIds /\ gps[r].point.passed <= gpsClock
            /\ \A n \in Numbers : trackers[n].id = gps[r].id => n = gps[r].number
        BY <3>1 DEF RequestsOK
      <3>3. gps[r].id \in Ids
        BY <1>3, <3>1, RequestKnown
      <3>4. gps[r].id \in Nat /\ gps[r].id # 0
        BY <3>3, TrackerBounds DEF Ids
      <3>5. \A n \in Numbers : trackers'[n].id = gps[r].id => trackers[n].id = gps[r].id
        BY <1>2, <3>2, <3>4
      <3> QED BY <1>2, <3>1, <3>2, <3>4, <3>5
    <2> QED BY <2>1, <2>2
  <1>4. ASSUME NEW r \in GpsRequests, gps'[r] # Resting, gps'[r].step = "bind", gps'[r].vehicle \in Vehicles
        PROVE  gps'[r].free
    BY <1>1, <1>4 DEF RequestsOK, Awaiting
  <1> QED BY <1>1, <1>3, <1>4 DEF RequestsOK, OnItsWay, Awaiting

\* No request goes on.
LEMMA RequestsWait ==
    ASSUME RowsOK, RequestsOK, gps' = gps,
           \A n \in Numbers : \/ trackers'[n].id = trackers[n].id \/ trackers'[n].id = 0
                              \/ trackers'[n].id > issuedIds,
           issuedIds' = issuedIds, gpsClock' \in Nat, gpsClock <= gpsClock'
    PROVE  RequestsOK'
  <1>1. gps' \in [GpsRequests -> Requests \cup {Resting}]
    BY DEF RequestsOK
  <1>2. issuedIds \in Nat /\ gpsClock \in Nat
    BY TrackerBounds DEF RowsOK
  <1>3. ASSUME NEW r \in OnItsWay
        PROVE  /\ gps[r].point.device = gps[r].id /\ gps[r].id <= issuedIds'
               /\ gps[r].point.passed <= gpsClock'
               /\ \A n \in Numbers : trackers'[n].id = gps[r].id => n = gps[r].number
      <3>1. r \in GpsRequests /\ gps[r] # Resting /\ gps[r].step = "store"
        BY <1>3 DEF OnItsWay, Awaiting
      <3>2. /\ gps[r].point.device = gps[r].id /\ gps[r].id <= issuedIds /\ gps[r].point.passed <= gpsClock
            /\ \A n \in Numbers : trackers[n].id = gps[r].id => n = gps[r].number
        BY <1>3 DEF RequestsOK
      <3>3. gps[r].id \in Ids /\ gps[r].point \in Point
        BY <3>1, RequestKnown
      <3>4. gps[r].id \in Nat /\ gps[r].id # 0 /\ gps[r].point.passed \in Nat
        BY <3>3, PointKnown, TrackerBounds DEF Ids
      <3>5. \A n \in Numbers : trackers'[n].id = gps[r].id => trackers[n].id = gps[r].id
        BY <1>2, <3>2, <3>4
      <3> QED BY <1>2, <3>2, <3>4, <3>5
  <1>4. OnItsWay' = OnItsWay
    BY DEF OnItsWay, Awaiting
  <1>5. \A q \in GpsRequests : Awaiting(q, "bind")' /\ gps'[q].vehicle \in Vehicles => gps'[q].free
    BY DEF RequestsOK, Awaiting
  <1> QED BY <1>1, <1>3, <1>4, <1>5 DEF RequestsOK

\* Some points go.
Fewer == /\ DOMAIN points' \subseteq DOMAIN points
         /\ \A p \in DOMAIN points' : points'[p] = points[p]

\* Points that only go stay what they are.
LEMMA PointsStay ==
    ASSUME RowsOK, PointsOK, Fewer, gpsClock' \in Nat, gpsClock <= gpsClock'
    PROVE  PointsOK'
  <1>1. gpsClock \in Nat
    BY TrackerBounds DEF RowsOK
  <1>2. ASSUME NEW p \in DOMAIN points'
        PROVE  p \in Point /\ points'[p] \in Nat \ {0} /\ p.passed <= gpsClock'
    <2>1. p \in Point /\ p \in DOMAIN points /\ points'[p] = points[p]
      BY <1>2 DEF Fewer, PointsOK
    <2>2. p.passed \in Nat /\ p.passed <= gpsClock /\ points[p] \in Nat \ {0}
      BY <2>1, PointKnown DEF PointsOK
    <2> QED BY <1>1, <2>1, <2>2
  <1> QED BY <1>2 DEF PointsOK

\* No point comes, and the row of none goes.
LEMMA OwnersStay ==
    ASSUME PointsHaveTracker, Fewer,
           \A p \in DOMAIN points' : \A n \in Numbers :
              trackers[n].id = p.device => trackers'[n].id = p.device
    PROVE  PointsHaveTracker'
  <1> SUFFICES ASSUME NEW p \in DOMAIN points' PROVE \E n \in Numbers : trackers'[n].id = p.device
    BY DEF PointsHaveTracker, NumberOf
  <1>1. PICK n \in Numbers : trackers[n].id = p.device
    BY DEF PointsHaveTracker, NumberOf, Fewer
  <1> QED BY <1>1

\* No more wrong codes.
LEMMA MemoryStays ==
    ASSUME RowsOK, MemoryOK, wrong' = wrong, gpsClock' \in Nat, gpsClock <= gpsClock',
           \A d \in DOMAIN lastPoint' : lastPoint'[d] \in 0..gpsClock'
    PROVE  MemoryOK'
  <1>1. gpsClock \in Nat /\ WrongWindow \in Nat /\ MaxWrong \in Nat /\ MaxTime \in Nat
    BY TrackerBounds DEF RowsOK
  <1>2. ASSUME NEW d \in Ids PROVE Cardinality(Recent(d)') <= MaxWrong
    <2>1. wrong[d] \in Seq(0..MaxTime)
      BY DEF MemoryOK
    <2>2. DOMAIN wrong[d] = 1..Len(wrong[d]) /\ Len(wrong[d]) \in Nat
          /\ \A i \in 1..Len(wrong[d]) : wrong[d][i] \in Int
      BY <1>1, <2>1
    <2>3. Recent(d)' \subseteq Recent(d)
      BY <1>1, <2>2 DEF Recent
    <2>4. IsFiniteSet(Recent(d))
      <3>1. IsFiniteSet(1..Len(wrong[d]))
        <4>1. 1 \in Int /\ Len(wrong[d]) \in Int
          BY <2>2
        <4> QED BY <4>1, FS_Interval
      <3> QED BY <2>2, <3>1, FS_Subset DEF Recent
    <2>5. Cardinality(Recent(d)') \in Nat /\ Cardinality(Recent(d)') <= Cardinality(Recent(d))
          /\ Cardinality(Recent(d)) \in Nat
      BY <2>3, <2>4, CountWithin, FS_CardinalityType
    <2>6. Cardinality(Recent(d)) <= MaxWrong
      BY DEF MemoryOK
    <2> QED BY <1>1, <2>5, <2>6
  <1> QED BY <1>2 DEF MemoryOK

\* What a row says of its secrets stays, or it says it from now on.
SecretsStay(n) ==
    \/ /\ trackers'[n].id = trackers[n].id /\ trackers'[n].since = trackers[n].since
       /\ trackers'[n].totp = trackers[n].totp /\ trackers'[n].token = trackers[n].token
    \/ trackers'[n].id = 0
    \/ trackers'[n].since = gpsClock

\* A point that was honest stays so when no secret changes, or changes now.
LEMMA HonestStays ==
    ASSUME RowsOK, NEW p \in Point, p.passed <= gpsClock, Honest(p), \A n \in Numbers : SecretsStay(n)
    PROVE  Honest(p)'
  <1> SUFFICES ASSUME NEW n \in Numbers, p.device = trackers'[n].id, p.passed > trackers'[n].since
               PROVE  /\ trackers'[n].totp # NoSecret => p.proof = trackers'[n].totp
                      /\ trackers'[n].totp = NoSecret /\ trackers'[n].token # NoSecret => p.proof = trackers'[n].token
    BY DEF Honest, NoSecret
  <1>1. p.device # 0 /\ p.passed \in Nat /\ gpsClock \in Nat
    BY PointKnown, TrackerBounds DEF RowsOK
  <1>2. SecretsStay(n)
    OBVIOUS
  <1>3. CASE trackers'[n].id = 0
    BY <1>1, <1>3
  <1>4. CASE trackers'[n].since = gpsClock
    BY <1>1, <1>4
  <1>5. CASE /\ trackers'[n].id = trackers[n].id /\ trackers'[n].since = trackers[n].since
             /\ trackers'[n].totp = trackers[n].totp /\ trackers'[n].token = trackers[n].token
    BY <1>5 DEF Honest
  <1> QED BY <1>2, <1>3, <1>4, <1>5 DEF SecretsStay

\* What an interleaving may do to the points that are on their way.
LEMMA OnItsWayKnown ==
    ASSUME RequestsOK, NEW q \in OnItsWay
    PROVE  /\ q \in GpsRequests /\ gps[q] # Resting /\ gps[q].step = "store"
           /\ gps[q].point \in Point /\ gps[q].point.passed <= gpsClock
           /\ gps[q].point.device = gps[q].id /\ gps[q].id \in Ids /\ gps[q].number \in Numbers
  <1>1. q \in GpsRequests /\ gps[q] # Resting /\ gps[q].step = "store"
    BY DEF OnItsWay, Awaiting
  <1> QED BY <1>1, RequestKnown DEF RequestsOK

\* All points stay honest when a new one is.
LEMMA AllHonestStays ==
    ASSUME RowsOK, RequestsOK, PointsOK, AllHonest, RequestsOK',
           \A p \in DOMAIN points' : p \in DOMAIN points \/ \E q \in OnItsWay : p = gps[q].point,
           \A q \in OnItsWay' : \/ q \in OnItsWay /\ gps'[q] = gps[q]
                                \/ \A p \in Point : p = gps'[q].point => Honest(p)',
           \A n \in Numbers : SecretsStay(n)
    PROVE  AllHonest'
  <1>1. ASSUME NEW p, p \in DOMAIN points \/ \E q \in OnItsWay : p = gps[q].point
        PROVE  p \in Point /\ Honest(p)'
    <2>1. p \in Point /\ p.passed <= gpsClock /\ Honest(p)
      BY <1>1, OnItsWayKnown DEF PointsOK, AllHonest
    <2> QED BY <2>1, HonestStays
  <1>2. \A p \in DOMAIN points' : Honest(p)'
    BY <1>1
  <1>3. ASSUME NEW q \in OnItsWay' PROVE \A p \in Point : p = gps'[q].point => Honest(p)'
    BY <1>1, <1>3
  <1>4. ASSUME NEW q \in OnItsWay' PROVE gps'[q].point \in Point
    <2>1. q \in GpsRequests /\ gps'[q] # Resting /\ gps'[q].step = "store" /\ gps'[q] \in Requests
      BY <1>4 DEF OnItsWay, Awaiting, RequestsOK
    <2> QED BY <2>1 DEF Requests
  <1>5. \A q \in OnItsWay' : \E p \in Point : p = gps'[q].point /\ Honest(p)'
    BY <1>3, <1>4
  <1>6. \A q \in OnItsWay' : Honest(gps[q].point)'
    BY <1>5 DEF Honest
  <1> QED BY <1>2, <1>6 DEF AllHonest

\* What the limiter forgets of those it lets pass is written down.
Remembers(d) ==
    \/ d \in DOMAIN lastPoint' /\ lastPoint'[d] >= lastPoint[d]
    \/ gpsClock' - lastPoint[d] >= MinInterval
    \/ d \in forgotten'

\* What the limiter knows of a point it knows later, or writes down that it forgot.
LEMMA KnownStays ==
    ASSUME RowsOK, MemoryOK, NEW p \in Point, p.passed <= gpsClock, Watched(p) => Known(p),
           Watched(p)', gpsClock' \in Nat, gpsClock <= gpsClock', forgotten \subseteq forgotten',
           \A d \in DOMAIN lastPoint : Remembers(d), \A d \in DOMAIN lastPoint' : lastPoint'[d] \in Nat
    PROVE  Known(p)'
  <1>1. p.passed \in Nat /\ gpsClock \in Nat /\ MinInterval \in Nat
    BY PointKnown, TrackerBounds DEF RowsOK
  <1>2. p.device \notin forgotten' /\ Known(p)
    BY DEF Watched
  <1>3. CASE gpsClock - p.passed >= MinInterval
    BY <1>1, <1>3 DEF Known
  <1>4. CASE p.device \in DOMAIN lastPoint /\ p.passed <= lastPoint[p.device]
    <2>1. Remembers(p.device) /\ lastPoint[p.device] \in Nat
      BY <1>1, <1>4 DEF MemoryOK
    <2>2. CASE p.device \in DOMAIN lastPoint' /\ lastPoint'[p.device] >= lastPoint[p.device]
      BY <1>1, <1>4, <2>1, <2>2 DEF Known
    <2>3. CASE gpsClock' - lastPoint[p.device] >= MinInterval
      BY <1>1, <1>4, <2>1, <2>3 DEF Known
    <2> QED BY <1>2, <2>1, <2>2, <2>3 DEF Remembers
  <1> QED BY <1>2, <1>3, <1>4 DEF Known

\* A point that the limiter lets pass keeps its distance to all of its tracker.
Distant(p, others) == \A r \in others : r.device = p.device /\ Watched(p) => Apart(r, p)

PointsOf(Q) == {gps[q].point : q \in Q}

\* Of the requests one at most has a new point.
LEMMA SpacedStays ==
    ASSUME RowsOK, RequestsOK, PointsOK, MemoryOK, Spaced, RequestsOK', Fewer,
           NEW Q \in SUBSET GpsRequests, \A q, r \in Q : q = r,
           \A r \in OnItsWay' : r \notin Q => r \in OnItsWay /\ gps'[r] = gps[r],
           \A q \in OnItsWay' : q \in Q => \A p \in Point : p = gps'[q].point =>
               Known(p)' /\ Distant(p, DOMAIN points \cup PointsOf(OnItsWay \ Q)),
           gpsClock' \in Nat, gpsClock <= gpsClock', forgotten \subseteq forgotten',
           \A d \in DOMAIN lastPoint : Remembers(d), \A d \in DOMAIN lastPoint' : lastPoint'[d] \in Nat
    PROVE  Spaced'
  <1>1. ASSUME NEW p, p \in DOMAIN points \/ \E q \in OnItsWay : p = gps[q].point, Watched(p)'
        PROVE  Known(p)'
    <2>1. p \in Point /\ p.passed <= gpsClock /\ (Watched(p) => Known(p))
      BY <1>1, OnItsWayKnown DEF PointsOK, Spaced
    <2> QED BY <1>1, <2>1, KnownStays
  <1>2. ASSUME NEW q \in OnItsWay' PROVE gps'[q].point \in Point
    <2>1. q \in GpsRequests /\ gps'[q] # Resting /\ gps'[q].step = "store" /\ gps'[q] \in Requests
      BY <1>2 DEF OnItsWay, Awaiting, RequestsOK
    <2> QED BY <2>1 DEF Requests
  <1>3. \A p \in DOMAIN points' : Watched(p)' => Known(p)'
    BY <1>1 DEF Fewer
  <1>4. \A q \in OnItsWay' : \A p \in Point : p = gps'[q].point /\ Watched(p)' => Known(p)'
    BY <1>1
  <1>5. \A q \in OnItsWay' : Watched(gps[q].point)' => Known(gps[q].point)'
    <2>1. \A q \in OnItsWay' : \E p \in Point : p = gps'[q].point /\ (Watched(p)' => Known(p)')
      BY <1>2, <1>4
    <2> QED BY <2>1 DEF Known, Watched
  <1>6. \A p : Watched(p)' => Watched(p)
    BY DEF Watched
  <1>7. \A p, r \in DOMAIN points' :
          p.device = r.device /\ Watched(p)' /\ (p = r => points'[p] > 1) => Apart(p, r)
    BY <1>6 DEF Fewer, Spaced
  <1>8. \A p, r : Apart(p, r) => Apart(r, p)
    BY DEF Apart
  <1>9. ASSUME NEW q \in OnItsWay', NEW p \in DOMAIN points', p.device = gps'[q].point.device, Watched(p)'
        PROVE  Apart(p, gps'[q].point)
    <2>1. p \in DOMAIN points /\ Watched(p)
      BY <1>6, <1>9 DEF Fewer
    <2>2. CASE q \in Q
      <3> DEFINE r == gps'[q].point
      <3>1. r \in Point /\ Distant(r, DOMAIN points \cup PointsOf(OnItsWay \ Q))
        BY <1>2, <1>9, <2>2
      <3>2. Watched(r)
        BY <1>9, <2>1 DEF Watched
      <3> HIDE DEF r
      <3>3. p.device = r.device
        BY <1>9 DEF r
      <3> QED BY <2>1, <3>1, <3>2, <3>3 DEF Distant, r
    <2>3. CASE q \notin Q
      BY <1>9, <2>1, <2>3 DEF Spaced
    <2> QED BY <2>2, <2>3
  <1>10. ASSUME NEW q \in OnItsWay', NEW o \in OnItsWay', q # o, gps'[o].point.device = gps'[q].point.device,
                gps'[q].point.device \notin forgotten'
         PROVE  Apart(gps'[o].point, gps'[q].point)
    <2>1. ASSUME NEW x \in OnItsWay', NEW y \in OnItsWay', x \in Q, y \notin Q,
                 gps'[y].point.device = gps'[x].point.device, gps'[x].point.device \notin forgotten'
          PROVE  Apart(gps'[y].point, gps'[x].point)
      <3> DEFINE r == gps'[x].point
                 p == gps'[y].point
      <3>1. r \in Point /\ Distant(r, DOMAIN points \cup PointsOf(OnItsWay \ Q))
        BY <1>2, <2>1
      <3>2. p \in PointsOf(OnItsWay \ Q)
        BY <2>1 DEF PointsOf
      <3>3. Watched(r) /\ p.device = r.device
        BY <2>1 DEF Watched
      <3> HIDE DEF r, p
      <3>4. Apart(p, r)
        BY <3>1, <3>2, <3>3 DEF Distant
      <3> QED BY <3>4 DEF r, p
    <2>2. CASE q \in Q /\ o \notin Q
      BY <1>10, <2>1, <2>2
    <2>3. CASE q \notin Q /\ o \in Q
      <3>1. Apart(gps'[q].point, gps'[o].point)
        BY <1>10, <2>1, <2>3
      <3> QED BY <1>8, <3>1
    <2>4. CASE q \notin Q /\ o \notin Q
      <3>1. q \in OnItsWay /\ o \in OnItsWay /\ gps'[q] = gps[q] /\ gps'[o] = gps[o]
        BY <1>10, <2>4
      <3>2. Watched(gps[q].point)
        BY <1>10, <3>1 DEF Watched
      <3>3. gps[o].point.device = gps[q].point.device
        BY <1>10, <3>1
      <3>4. Apart(gps[o].point, gps[q].point)
        BY <1>10, <3>1, <3>2, <3>3 DEF Spaced
      <3> QED BY <3>1, <3>4
    <2> QED BY <1>10, <2>2, <2>3, <2>4
  <1>11. \A q \in OnItsWay' : \A p \in DOMAIN points' :
            p.device = gps'[q].point.device /\ Watched(p)' => Apart(p, gps'[q].point)
    BY <1>9
  <1>12. \A q, o \in OnItsWay' :
            q # o /\ gps'[o].point.device = gps'[q].point.device /\ Watched(gps[q].point)' =>
              Apart(gps'[o].point, gps'[q].point)
    BY <1>10 DEF Watched
  <1> QED BY <1>3, <1>5, <1>7, <1>11, <1>12 DEF Spaced, Apart

-----------------------------------------------------------------------------
(* Trackers: a message is decided on *)

\* One more wrong code, where there were fewer than the limit.
LEMMA OneMoreWrong ==
    ASSUME RowsOK, MemoryOK, NEW e \in Ids, ~TooMany(e), wrong' = [wrong EXCEPT ![e] = Append(@, gpsClock)],
           gpsClock' = gpsClock
    PROVE  /\ wrong' \in [Ids -> Seq(0..MaxTime)]
           /\ \A d \in Ids : Cardinality(Recent(d)') <= MaxWrong
  <1>1. gpsClock \in Nat /\ gpsClock \in 0..MaxTime /\ MaxWrong \in Nat
    BY TrackerBounds DEF RowsOK
  <1>2. \A d \in Ids : wrong[d] \in Seq(0..MaxTime)
    BY DEF MemoryOK
  <1>3. wrong' \in [Ids -> Seq(0..MaxTime)]
    <2>1. Append(wrong[e], gpsClock) \in Seq(0..MaxTime)
      BY <1>1, <1>2
    <2> QED BY <2>1 DEF MemoryOK
  <1>4. ASSUME NEW d \in Ids PROVE Cardinality(Recent(d)') <= MaxWrong
    <2>1. CASE d # e
      <3>1. wrong'[d] = wrong[d]
        BY <2>1 DEF MemoryOK
      <3>2. Recent(d)' = Recent(d)
        BY <3>1 DEF Recent
      <3> QED BY <3>2 DEF MemoryOK
    <2>2. CASE d = e
      <3> DEFINE s == wrong[e]
      <3>1. wrong'[d] = Append(s, gpsClock)
        BY <2>2 DEF MemoryOK
      <3>2. s \in Seq(0..MaxTime) /\ Len(s) \in Nat /\ DOMAIN s = 1..Len(s)
        BY <1>2
      <3>3. /\ DOMAIN Append(s, gpsClock) = 1..Len(s) + 1
            /\ \A i \in 1..Len(s) : Append(s, gpsClock)[i] = s[i]
        BY <1>1, <3>2
      <3>4. Recent(d)' \subseteq Recent(d) \cup {Len(s) + 1}
        <4>1. ASSUME NEW i \in Recent(d)', i # Len(s) + 1 PROVE i \in Recent(d)
          <5>1. i \in DOMAIN wrong'[d] /\ gpsClock' - wrong'[d][i] < WrongWindow
            BY <4>1 DEF Recent
          <5> HIDE DEF s
          <5>2. i \in 1..Len(s)
            BY <3>1, <3>2, <3>3, <4>1, <5>1
          <5>3. wrong'[d][i] = s[i] /\ i \in DOMAIN s
            BY <3>1, <3>2, <3>3, <5>2
          <5>4. gpsClock - s[i] < WrongWindow
            BY <5>1, <5>3
          <5> QED BY <2>2, <5>3, <5>4 DEF Recent, s
        <4> QED BY <4>1
      <3>5. IsFiniteSet(Recent(d))
        <4>1. 1 \in Int /\ Len(s) \in Int
          BY <3>2
        <4>2. IsFiniteSet(1..Len(s))
          BY <4>1, FS_Interval
        <4> QED BY <2>2, <3>2, <4>2, FS_Subset DEF Recent
      <3>6. Cardinality(Recent(d)) < MaxWrong /\ Cardinality(Recent(d)) \in Nat
        <4>1. Cardinality(Recent(d)) \in Nat
          BY <3>5, FS_CardinalityType
        <4> QED BY <1>1, <2>2, <4>1 DEF TooMany
      <3> HIDE DEF s
      <3>7. Cardinality(Recent(d)') \in Nat /\ Cardinality(Recent(d)') <= Cardinality(Recent(d)) + 1
        BY <3>4, <3>5, CountGrows
      <3> QED BY <1>1, <3>6, <3>7
    <2> QED BY <2>1, <2>2
  <1> QED BY <1>3, <1>4

\* A device is let pass: what is forgotten for it is written down.
LEMMA PassedRemembers ==
    ASSUME RowsOK, MemoryOK, NEW d, Passed(d), gpsClock' = gpsClock
    PROVE  /\ forgotten \subseteq forgotten' /\ \A e \in DOMAIN lastPoint : Remembers(e)
           /\ \A e \in DOMAIN lastPoint' : lastPoint'[e] \in 0..gpsClock'
           /\ d \in DOMAIN lastPoint' /\ lastPoint'[d] = gpsClock
  <1> DEFINE kept == (DOMAIN lastPoint \ Evicted(d)) \cup {d}
  <1>1. /\ lastPoint' = [x \in kept |-> IF x = d THEN gpsClock ELSE lastPoint[x]]
        /\ forgotten' = forgotten \cup {x \in Evicted(d) : gpsClock - lastPoint[x] < MinInterval}
    BY DEF Passed
  <1>2. gpsClock \in Nat /\ MinInterval \in Nat
    BY TrackerBounds DEF RowsOK
  <1>3. \A x \in DOMAIN lastPoint : lastPoint[x] \in Nat /\ lastPoint[x] <= gpsClock
    BY <1>2 DEF MemoryOK
  <1>4. ASSUME NEW e \in DOMAIN lastPoint PROVE Remembers(e)
    <2>1. CASE e \in Evicted(d) /\ e # d
      BY <1>1, <1>2, <1>3, <2>1 DEF Remembers
    <2>2. CASE e \notin Evicted(d) \/ e = d
      <3>1. e \in kept
        BY <2>2
      <3>2. e \in DOMAIN lastPoint' /\ lastPoint'[e] = IF e = d THEN gpsClock ELSE lastPoint[e]
        BY <1>1, <3>1
      <3> QED BY <1>2, <1>3, <3>2 DEF Remembers
    <2> QED BY <2>1, <2>2
  <1>5. \A e \in DOMAIN lastPoint' : lastPoint'[e] \in 0..gpsClock'
    BY <1>1, <1>2, <1>3
  <1>6. d \in DOMAIN lastPoint' /\ lastPoint'[d] = gpsClock
    BY <1>1
  <1> HIDE DEF kept
  <1> QED BY <1>1, <1>4, <1>5, <1>6

\* A tracker may pass: its points are far from now.
LEMMA PassingIsDistant ==
    ASSUME RowsOK, RequestsOK, PointsOK, MemoryOK, Spaced, NEW p \in Point, MayPass(p.device),
           p.passed = gpsClock
    PROVE  Distant(p, DOMAIN points \cup PointsOf(OnItsWay))
  <1> SUFFICES ASSUME NEW r \in DOMAIN points \cup PointsOf(OnItsWay), r.device = p.device, Watched(p)
               PROVE  Apart(r, p)
    BY DEF Distant
  <1>1. r \in Point /\ r.passed <= gpsClock /\ (Watched(r) => Known(r))
    <2>1. CASE r \in DOMAIN points
      BY <2>1 DEF PointsOK, Spaced
    <2>2. CASE r \in PointsOf(OnItsWay)
      <3>1. PICK q \in OnItsWay : r = gps[q].point
        BY <2>2 DEF PointsOf
      <3> QED BY <3>1, OnItsWayKnown DEF Spaced
    <2> QED BY <2>1, <2>2
  <1>2. Known(r)
    BY <1>1 DEF Watched
  <1>3. r.passed \in Nat /\ gpsClock \in Nat /\ MinInterval \in Nat
    BY <1>1, PointKnown, TrackerBounds DEF RowsOK
  <1>4. gpsClock - r.passed >= MinInterval
    <2>1. CASE r.device \in DOMAIN lastPoint /\ r.passed <= lastPoint[r.device]
      <3>1. gpsClock - lastPoint[r.device] >= MinInterval /\ lastPoint[r.device] \in Nat
        BY <1>3, <2>1 DEF MayPass, MemoryOK
      <3> QED BY <1>3, <2>1, <3>1
    <2> QED BY <1>2, <2>1 DEF Known
  <1> QED BY <1>4 DEF Apart

\* What the handler decides on a row without a pause: the request ends, or has a point that has
\* proved the row's secret, and that the limiter lets pass and knows from now on.
LEMMA Decided ==
    ASSUME RowsOK, RequestsOK, PointsOK, MemoryOK, Spaced, NEW q \in GpsRequests, NEW n \in Numbers,
           NEW row \in TrackerRow, Decide(q, n, row), gpsClock' = gpsClock,
           trackers'[n] = row, \A m \in Numbers : trackers'[m].id = row.id => m = n,
           row.id <= issuedIds'
    PROVE  /\ MemoryOK'
           /\ \E r \in Requests \cup {Resting} :
                 /\ gps' = [gps EXCEPT ![q] = r]
                 /\ r # Resting =>
                       /\ r.step = "store" /\ r.point.device = r.id /\ r.id <= issuedIds'
                       /\ r.point.passed <= gpsClock
                       /\ \A m \in Numbers : trackers'[m].id = r.id => m = r.number
           /\ q \in OnItsWay' => \A p \in Point : p = gps'[q].point =>
                 Honest(p)' /\ Known(p)' /\ Distant(p, DOMAIN points \cup PointsOf(OnItsWay))
           /\ forgotten \subseteq forgotten' /\ \A d \in DOMAIN lastPoint : Remembers(d)
           /\ \A d \in DOMAIN lastPoint' : lastPoint'[d] \in Nat
  <1> DEFINE point(claimed, proof) == [device |-> row.id, vehicle |-> row.vehicle, at |-> RecordedAt(claimed),
                                       passed |-> gpsClock, proof |-> proof]
             store(claimed, proof) == [step |-> "store", number |-> n, id |-> row.id,
                                       point |-> point(claimed, proof)]
  <1>1. PICK claimed \in Claims, proof \in {Nothing, Wrong, row.totp, row.token} :
          /\ wrong' = IF WrongCode(row, proof) THEN [wrong EXCEPT ![row.id] = Append(@, gpsClock)] ELSE wrong
          /\ IF Proved(row, proof) /\ row.active /\ MayPass(row.id)
             THEN Passed(row.id) /\ gps' = [gps EXCEPT ![q] = store(claimed, proof)]
             ELSE gps' = [gps EXCEPT ![q] = Resting] /\ UNCHANGED <<lastPoint, forgotten>>
    BY DEF Decide
  <1>2. /\ row.id \in Ids /\ row.vehicle \in Vehicles \cup {NoVehicle}
        /\ row.totp \in 0..MaxIssued /\ row.token \in 0..MaxIssued
    BY DEF TrackerRow
  <1>3. gpsClock \in 0..MaxTime /\ gpsClock \in Nat /\ claimed \in Int /\ MaxIssued \in Nat /\ MaxTime \in Nat
        /\ MinInterval \in Nat
    BY TrackerBounds DEF RowsOK
  <1>4. point(claimed, proof) \in Point
    <2>1. RecordedAt(claimed) \in Nat
      <3>1. claimed = -1 \/ claimed \in Nat
        BY TrackersAssumption
      <3> QED BY <1>3, <3>1 DEF RecordedAt
    <2>2. proof \in Wrong..MaxIssued
      BY <1>2, <1>3 DEF Nothing, Wrong
    <2> QED BY <1>2, <1>3, <2>1, <2>2 DEF Point
  <1>5. store(claimed, proof) \in Requests /\ store(claimed, proof) # Resting
    <2>1. store(claimed, proof) \in [step: {"store"}, number: Numbers, id: Ids, point: Point]
      BY <1>2, <1>4
    <2>2. store(claimed, proof).step # Resting.step
      BY DEF Resting
    <2> QED BY <2>1, <2>2 DEF Requests
  <1>6. gps \in [GpsRequests -> Requests \cup {Resting}]
    BY DEF RequestsOK
  <1>7. /\ wrong' \in [Ids -> Seq(0..MaxTime)]
        /\ \A d \in Ids : Cardinality(Recent(d)') <= MaxWrong
    <2>1. CASE WrongCode(row, proof)
      BY <1>1, <1>2, <2>1, OneMoreWrong DEF WrongCode
    <2>2. CASE ~WrongCode(row, proof)
      BY <1>1, <2>2 DEF MemoryOK, Recent
    <2> QED BY <2>1, <2>2
  <1>8. CASE Proved(row, proof) /\ row.active /\ MayPass(row.id)
    <2>1. Passed(row.id) /\ gps' = [gps EXCEPT ![q] = store(claimed, proof)]
      BY <1>1, <1>8
    <2>2. /\ forgotten \subseteq forgotten' /\ \A d \in DOMAIN lastPoint : Remembers(d)
          /\ \A e \in DOMAIN lastPoint' : lastPoint'[e] \in 0..gpsClock'
          /\ row.id \in DOMAIN lastPoint' /\ lastPoint'[row.id] = gpsClock
      BY <2>1, PassedRemembers
    <2>3. MemoryOK'
      BY <1>7, <2>2 DEF MemoryOK
    <2>4. gps'[q].point = point(claimed, proof)
      BY <1>6, <2>1
    <2>5. ASSUME NEW p \in Point, p = point(claimed, proof)
          PROVE  Honest(p)' /\ Known(p)' /\ Distant(p, DOMAIN points \cup PointsOf(OnItsWay))
      <3>1. p.device = row.id /\ p.passed = gpsClock /\ p.proof = proof
        BY <2>5
      <3>2. Known(p)'
        BY <1>3, <2>2, <3>1 DEF Known
      <3>3. Distant(p, DOMAIN points \cup PointsOf(OnItsWay))
        BY <1>8, <3>1, PassingIsDistant
      <3>4. Honest(p)'
        <4>1. /\ row.totp # NoSecret => proof = row.totp
              /\ row.totp = NoSecret /\ row.token # NoSecret => proof = row.token
          BY <1>8 DEF Proved
        <4>2. ASSUME NEW m \in Numbers, p.device = trackers'[m].id PROVE trackers'[m] = row
          BY <3>1, <4>2
        <4> QED BY <3>1, <4>1, <4>2 DEF Honest, NoSecret
      <3> QED BY <3>2, <3>3, <3>4
    <2>6. /\ store(claimed, proof).step = "store"
          /\ store(claimed, proof).point.device = store(claimed, proof).id
          /\ store(claimed, proof).id = row.id /\ store(claimed, proof).number = n
          /\ store(claimed, proof).point.passed <= gpsClock
      BY <1>3
    <2>7. \A d \in DOMAIN lastPoint' : lastPoint'[d] \in Nat
      BY <1>3, <2>2
    <2> HIDE DEF point, store
    <2>8. \E r \in Requests \cup {Resting} :
                 /\ gps' = [gps EXCEPT ![q] = r]
                 /\ r # Resting =>
                       /\ r.step = "store" /\ r.point.device = r.id /\ r.id <= issuedIds'
                       /\ r.point.passed <= gpsClock
                       /\ \A m \in Numbers : trackers'[m].id = r.id => m = r.number
      BY <1>5, <2>1, <2>6
    <2> QED BY <2>2, <2>3, <2>4, <2>5, <2>7, <2>8
  <1>9. CASE ~(Proved(row, proof) /\ row.active /\ MayPass(row.id))
    <2>1. gps' = [gps EXCEPT ![q] = Resting] /\ lastPoint' = lastPoint /\ forgotten' = forgotten
      BY <1>1, <1>9
    <2>2. MemoryOK'
      BY <1>7, <2>1 DEF MemoryOK
    <2>3. q \notin OnItsWay'
      BY <1>6, <2>1 DEF OnItsWay, Awaiting
    <2>4. \A d \in DOMAIN lastPoint : lastPoint[d] \in Nat /\ Remembers(d)
      <3>1. \A d \in DOMAIN lastPoint : lastPoint[d] \in Nat
        BY <1>3 DEF MemoryOK
      <3> QED BY <2>1, <3>1 DEF Remembers
    <2> QED BY <2>1, <2>2, <2>3, <2>4
  <1> QED BY <1>8, <1>9

-----------------------------------------------------------------------------
(* Trackers: the steps *)

\* There are finitely many trackers to count.
LEMMA AutosFinite == IsFiniteSet(Autos) /\ Cardinality(Autos) \in Nat /\ \A v : IsFiniteSet(BoundTo(v))
  <1>1. Autos \subseteq Numbers /\ \A v : BoundTo(v) \subseteq Numbers
    BY DEF Autos, BoundTo
  <1> QED BY <1>1, TrackerBounds, FS_Subset, FS_CardinalityType

\* No tracker more counts as one that registered itself.
LEMMA CeilingStays ==
    ASSUME RowsOK, CeilingHolds, Autos' \subseteq Autos, abreast' = abreast
    PROVE  CeilingHolds'
  <1>1. Cardinality(Autos') \in Nat /\ Cardinality(Autos') <= Cardinality(Autos) /\ Cardinality(Autos) \in Nat
    BY AutosFinite, CountWithin
  <1>2. abreast \in Nat /\ MaxAuto \in Nat
    BY TrackerBounds DEF RowsOK
  <1> QED BY <1>1, <1>2 DEF CeilingHolds

\* A vehicle has no tracker more, or no other than one.
LEMMA BindingStays ==
    ASSUME OneTrackerEach, twiceBound \subseteq twiceBound', NEW n,
           \A v \in Vehicles \ twiceBound' : BoundTo(v)' \subseteq BoundTo(v) \/ BoundTo(v)' \subseteq {n}
    PROVE  OneTrackerEach'
  <1> SUFFICES ASSUME NEW v \in Vehicles \ twiceBound' PROVE Cardinality(BoundTo(v)') <= 1
    BY DEF OneTrackerEach
  <1>1. IsFiniteSet(BoundTo(v)) /\ IsFiniteSet({n})
    BY AutosFinite, FS_Singleton
  <1>2. \A x, y \in BoundTo(v) : x = y
    <2>1. Cardinality(BoundTo(v)) <= 1
      BY DEF OneTrackerEach
    <2> QED BY <1>1, <2>1, CountOne
  <1>3. \A x, y \in BoundTo(v)' : x = y
    BY <1>2
  <1>4. IsFiniteSet(BoundTo(v)')
    BY <1>1, FS_Subset
  <1> QED BY <1>3, <1>4, CountOne

\* The table stays as it is, but for vehicles that go.
LEMMA TableStays ==
    ASSUME TrackersInv, trackers' = trackers, issuedIds' = issuedIds, abreast' = abreast,
           twiceBound' = twiceBound, garage' \subseteq garage, gpsClock' \in gpsClock..MaxTime
    PROVE  /\ RowsOK' /\ CeilingHolds' /\ OneTrackerEach'
           /\ gpsClock' \in Nat /\ gpsClock <= gpsClock' /\ issuedIds' \in Nat /\ issuedIds <= issuedIds'
           /\ \A n \in Numbers : SecretsStay(n) /\ trackers'[n].id = trackers[n].id
  <1>1. gpsClock \in Nat /\ issuedIds \in Nat /\ MaxTime \in Nat
    BY TrackerBounds DEF TrackersInv, RowsOK
  <1>2. \A n \in Numbers : SecretsStay(n) /\ trackers'[n].id = trackers[n].id
    BY DEF SecretsStay
  <1>3. Autos' = Autos /\ \A v : BoundTo(v)' = BoundTo(v)
    BY DEF Autos, BoundTo, Registered
  <1>4. CeilingHolds' /\ OneTrackerEach'
    <2>1. RowsOK /\ CeilingHolds /\ OneTrackerEach
      BY DEF TrackersInv
    <2>2. CeilingHolds'
      BY <1>3, <2>1, CeilingStays
    <2>3. OneTrackerEach'
      BY <1>3, <2>1, BindingStays
    <2> QED BY <2>2, <2>3
  <1>5. ASSUME NEW n \in Numbers, Registered(n)'
        PROVE  trackers'[n].id <= issuedIds' /\ trackers'[n].since <= gpsClock'
    <2>1. Registered(n) /\ RowsOK
      BY <1>5 DEF Registered, TrackersInv
    <2>2. trackers[n].since \in Nat /\ trackers[n].since <= gpsClock /\ trackers[n].id <= issuedIds
      BY <1>1, <2>1, RowKnown
    <2> QED BY <1>1, <2>2
  <1>6. RowsOK'
    <2>1. /\ trackers' \in [Numbers -> TrackerRow \cup {Missing}] /\ garage' \subseteq Vehicles
          /\ issuedIds' \in 0..MaxIssued /\ gpsClock' \in 0..MaxTime /\ abreast' \in Nat
      BY <1>1 DEF TrackersInv, RowsOK
    <2>2. \A n, m \in Numbers : Registered(n)' /\ trackers'[m].id = trackers'[n].id => m = n
      BY DEF TrackersInv, RowsOK, Registered
    <2> QED BY <1>5, <2>1, <2>2 DEF RowsOK
  <1> QED BY <1>1, <1>2, <1>4, <1>6

\* A request goes on, or ends, without a point on its way: it changes nothing else.
LEMMA RequestOnly ==
    ASSUME TrackersInv, NEW q \in GpsRequests, NEW row \in Requests \cup {Resting},
           gps' = [gps EXCEPT ![q] = row], row # Resting => row.step # "store",
           row # Resting /\ row.step = "bind" /\ row.vehicle \in Vehicles => row.free,
           UNCHANGED <<trackers, garage, points, lastPoint, wrong, gpsClock, issuedIds, abreast,
                       twiceBound, forgotten>>
    PROVE  TrackersInv'
  <1>0. /\ RowsOK /\ RequestsOK /\ PointsOK /\ MemoryOK /\ AllHonest /\ Spaced /\ PointsHaveTracker
    BY DEF TrackersInv
  <1>1. gpsClock \in Nat /\ gpsClock \in 0..MaxTime /\ MaxTime \in Nat
    BY TrackerBounds DEF TrackersInv, RowsOK
  <1>2. gpsClock' \in gpsClock..MaxTime
    BY <1>1
  <1>3. /\ RowsOK' /\ CeilingHolds' /\ OneTrackerEach' /\ issuedIds' \in Nat /\ issuedIds <= issuedIds'
        /\ \A n \in Numbers : SecretsStay(n) /\ trackers'[n].id = trackers[n].id
    BY <1>2, TableStays
  <1>4. RequestsOK'
    BY <1>0, <1>3, RequestsStay
  <1>5. Fewer
    BY DEF Fewer
  <1>6. PointsOK' /\ PointsHaveTracker'
    <2>1. PointsOK'
      BY <1>0, <1>1, <1>5, PointsStay
    <2>2. PointsHaveTracker'
      BY <1>0, <1>5, OwnersStay
    <2> QED BY <2>1, <2>2
  <1>7. /\ \A d \in DOMAIN lastPoint : Remembers(d) /\ lastPoint[d] \in 0..gpsClock /\ lastPoint[d] \in Nat
    BY <1>0, <1>1 DEF MemoryOK, Remembers
  <1>8. MemoryOK'
    BY <1>0, <1>1, <1>7, MemoryStays
  <1>9. \A r \in OnItsWay' : r \in OnItsWay /\ gps'[r] = gps[r]
    <2>1. ASSUME NEW r \in GpsRequests, gps'[r] # Resting, gps'[r].step = "store"
          PROVE  gps'[r] = gps[r]
      BY <1>0, <2>1 DEF RequestsOK
    <2> QED BY <2>1 DEF OnItsWay, Awaiting
  <1>10. AllHonest'
    BY <1>0, <1>3, <1>4, <1>9, AllHonestStays
  <1>11. Spaced'
    <2>1. {} \in SUBSET GpsRequests
      OBVIOUS
    <2>2. forgotten \subseteq forgotten' /\ gpsClock' \in Nat /\ gpsClock <= gpsClock'
          /\ \A d \in DOMAIN lastPoint' : lastPoint'[d] \in Nat
      BY <1>1, <1>7
    <2> QED BY <1>0, <1>4, <1>5, <1>7, <1>9, <2>1, <2>2, SpacedStays
  <1> QED BY <1>3, <1>4, <1>6, <1>8, <1>10, <1>11 DEF TrackersInv

\* Counting the trackers only moves the request on.
LEMMA CountAutosKeeps == ASSUME TrackersInv, NEW q \in GpsRequests, CountAutos(q) PROVE TrackersInv'
  <1>1. gps[q] # Resting /\ gps[q].step = "count" /\ RequestsOK
    BY DEF CountAutos, Awaiting, TrackersInv
  <1>2. CASE gps' = [gps EXCEPT ![q].step = "register"]
    <2> DEFINE row == [gps[q] EXCEPT !.step = "register"]
    <2>1. gps[q] \in Requests
      BY <1>1 DEF RequestsOK
    <2>2. gps[q] \in [step: {"count", "register"}, number: Numbers]
      BY <1>1, <2>1 DEF Requests
    <2>3. row \in [step: {"count", "register"}, number: Numbers] /\ row.step = "register"
      BY <2>2
    <2>4. row \in Requests
      BY <2>3 DEF Requests
    <2>5. gps' = [gps EXCEPT ![q] = row]
      BY <1>2
    <2> HIDE DEF row
    <2> QED BY <2>3, <2>4, <2>5, RequestOnly DEF CountAutos
  <1>3. CASE gps' = [gps EXCEPT ![q] = Resting]
    BY <1>3, RequestOnly DEF CountAutos
  <1> QED BY <1>2, <1>3 DEF CountAutos

\* A request that fails leaves no trace.
LEMMA GpsFailsKeeps == ASSUME TrackersInv, NEW q \in GpsRequests, GpsFails(q) PROVE TrackersInv'
  BY RequestOnly DEF GpsFails

\* A request to bind reads the row, and goes on only with a free vehicle.
LEMMA BindBeginKeeps ==
    ASSUME TrackersInv, NEW q \in GpsRequests, NEW n \in Numbers,
           NEW v \in Vehicles \cup {NoVehicle, "kept"},
           NEW change \in {"kept", "totp", "token", "drop", "switch", "confirm"}, BindBegin(q, n, v, change)
    PROVE  TrackersInv'
  <1> DEFINE row == [step |-> "bind", number |-> n, id |-> trackers[n].id, vehicle |-> v,
                     change |-> change, free |-> BoundTo(v) \subseteq {n}]
  <1>1. trackers[n].id \in 0..MaxIssued
    BY RowKnown DEF TrackersInv
  <1>2. row \in Requests /\ row.step = "bind" /\ row.vehicle = v /\ (row.free <=> BoundTo(v) \subseteq {n})
    BY <1>1 DEF Requests
  <1>3. v \in Vehicles => row.free
    BY <1>2, TrackerBounds DEF BindBegin, VehicleFree
  <1>4. gps' = [gps EXCEPT ![q] = row]
    BY DEF BindBegin
  <1> HIDE DEF row
  <1> QED BY <1>2, <1>3, <1>4, RequestOnly DEF BindBegin

\* No request goes on, no point comes, no tracker and no secret changes, and the process forgets
\* nothing that it does not write down.
LEMMA NothingNew ==
    ASSUME TrackersInv, RowsOK', CeilingHolds', OneTrackerEach', RequestsOK', Fewer,
           \A n \in Numbers : SecretsStay(n),
           \A p \in DOMAIN points' : \A n \in Numbers :
              trackers[n].id = p.device => trackers'[n].id = p.device,
           \A q \in OnItsWay' : q \in OnItsWay /\ gps'[q] = gps[q],
           gpsClock' \in Nat, gpsClock <= gpsClock', forgotten \subseteq forgotten',
           \A d \in DOMAIN lastPoint : Remembers(d), \A d \in DOMAIN lastPoint' : lastPoint'[d] \in Nat,
           MemoryOK'
    PROVE  TrackersInv'
  <1>1. /\ RowsOK /\ RequestsOK /\ PointsOK /\ MemoryOK /\ AllHonest /\ Spaced /\ PointsHaveTracker
    BY DEF TrackersInv
  <1>2. PointsOK'
    BY <1>1, PointsStay
  <1>3. PointsHaveTracker'
    BY <1>1, OwnersStay
  <1>4. AllHonest'
    BY <1>1, AllHonestStays DEF Fewer
  <1>5. Spaced'
    <2>1. {} \in SUBSET GpsRequests
      OBVIOUS
    <2> QED BY <1>1, <2>1, SpacedStays
  <1> QED BY <1>2, <1>3, <1>4, <1>5 DEF TrackersInv

\* With a tracker go its points; one that is on its way finds no row any more.
LEMMA DeleteTrackerKeeps == ASSUME TrackersInv, NEW n \in Numbers, DeleteTracker(n) PROVE TrackersInv'
  <1>1. /\ RowsOK /\ RequestsOK /\ PointsOK /\ MemoryOK /\ CeilingHolds /\ OneTrackerEach
    BY DEF TrackersInv
  <1>2. /\ trackers' = [trackers EXCEPT ![n] = Missing] /\ points' = WithoutPoints(trackers[n].id)
        /\ UNCHANGED <<garage, lastPoint, wrong, gps, gpsClock, issuedIds, begunGps, abreast,
                       twiceBound, forgotten>>
    BY DEF DeleteTracker
  <1>3. /\ gpsClock \in Nat /\ issuedIds \in Nat /\ issuedIds' \in issuedIds..MaxIssued /\ abreast' \in Nat
    BY <1>1, <1>2, TrackerBounds DEF RowsOK
  <1>4. /\ RowsOK'
        /\ \A m \in Numbers : \/ trackers'[m].id = trackers[m].id /\ (m # n => trackers'[m] = trackers[m])
                              \/ trackers'[m].id = 0
                              \/ trackers'[m].id > issuedIds
    BY <1>1, <1>2, <1>3, RowsStay
  <1>5. \A m \in Numbers : trackers'[m] = IF m = n THEN Missing ELSE trackers[m]
    BY <1>1, <1>2 DEF RowsOK
  <1>6. Missing.id = 0
    BY DEF Missing
  <1>7. RequestsOK'
    BY <1>1, <1>2, <1>3, <1>4, RequestsWait
  <1>8. Fewer
    BY <1>2 DEF Fewer, WithoutPoints
  <1>9. \A m \in Numbers : SecretsStay(m)
    BY <1>5, <1>6 DEF SecretsStay
  <1>10. \A p \in DOMAIN points' : \A m \in Numbers :
            trackers[m].id = p.device => trackers'[m].id = p.device
    BY <1>2, <1>5 DEF WithoutPoints
  <1>11. CeilingHolds'
    <2>1. Autos' \subseteq Autos
      BY <1>5 DEF Autos, Registered
    <2> QED BY <1>1, <1>2, <2>1, CeilingStays
  <1>12. OneTrackerEach'
    <2>1. \A v : BoundTo(v)' \subseteq BoundTo(v)
      BY <1>5 DEF BoundTo, Registered
    <2> QED BY <1>1, <1>2, <2>1, BindingStays
  <1>13. \A q \in OnItsWay' : q \in OnItsWay /\ gps'[q] = gps[q]
    BY <1>2 DEF OnItsWay, Awaiting
  <1>14. \A d \in DOMAIN lastPoint : Remembers(d) /\ lastPoint[d] \in 0..gpsClock /\ lastPoint[d] \in Nat
    BY <1>1, <1>2, <1>3 DEF MemoryOK, Remembers
  <1>15. MemoryOK'
    BY <1>1, <1>2, <1>3, <1>14, MemoryStays
  <1>16. /\ gpsClock' \in Nat /\ gpsClock <= gpsClock' /\ forgotten \subseteq forgotten'
         /\ \A d \in DOMAIN lastPoint' : lastPoint'[d] \in Nat
    BY <1>2, <1>3, <1>14
  <1> QED BY <1>4, <1>7, <1>8, <1>9, <1>10, <1>11, <1>12, <1>13, <1>14, <1>15, <1>16, NothingNew

\* A vehicle is archived, old points are purged, or time goes on.
LEMMA QuietKeeps ==
    ASSUME TrackersInv, garage' \subseteq garage, Fewer, gpsClock' \in gpsClock..MaxTime,
           UNCHANGED <<trackers, lastPoint, wrong, gps, issuedIds, abreast, twiceBound, forgotten>>
    PROVE  TrackersInv'
  <1>1. RowsOK /\ RequestsOK /\ MemoryOK
    BY DEF TrackersInv
  <1>2. gpsClock \in Nat /\ MaxTime \in Nat /\ MinInterval \in Nat
    BY <1>1, TrackerBounds DEF RowsOK
  <1>3. /\ RowsOK' /\ CeilingHolds' /\ OneTrackerEach' /\ gpsClock' \in Nat /\ gpsClock <= gpsClock'
        /\ \A n \in Numbers : SecretsStay(n) /\ trackers'[n].id = trackers[n].id
    BY TableStays
  <1>4. RequestsOK'
    BY <1>1, <1>3, RequestsWait
  <1>5. \A q \in OnItsWay' : q \in OnItsWay /\ gps'[q] = gps[q]
    BY DEF OnItsWay, Awaiting
  <1>6. \A d \in DOMAIN lastPoint : Remembers(d) /\ lastPoint[d] \in 0..gpsClock' /\ lastPoint[d] \in Nat
    <2>1. \A d \in DOMAIN lastPoint : lastPoint[d] \in Nat /\ lastPoint[d] <= gpsClock
      BY <1>1, <1>2 DEF MemoryOK
    <2> QED BY <1>2, <1>3, <2>1 DEF Remembers
  <1>7. MemoryOK'
    BY <1>1, <1>3, <1>6, MemoryStays
  <1>8. forgotten \subseteq forgotten' /\ \A d \in DOMAIN lastPoint' : lastPoint'[d] \in Nat
    BY <1>6
  <1> QED BY <1>3, <1>4, <1>5, <1>6, <1>7, <1>8, NothingNew

\* Trackers stay on a vehicle that is archived.
LEMMA ArchiveKeeps == ASSUME TrackersInv, NEW v \in Vehicles, ArchiveVehicle(v) PROVE TrackersInv'
  <1>1. gpsClock' \in gpsClock..MaxTime
    BY TrackerBounds DEF ArchiveVehicle, TrackersInv, RowsOK
  <1> QED BY <1>1, QuietKeeps DEF ArchiveVehicle, Fewer

\* Old points go.
LEMMA PurgePointsKeeps == ASSUME TrackersInv, PurgePoints PROVE TrackersInv'
  <1>1. gpsClock' \in gpsClock..MaxTime
    BY TrackerBounds DEF PurgePoints, TrackersInv, RowsOK
  <1> QED BY <1>1, QuietKeeps DEF PurgePoints, Fewer

\* Time that passes brings points no nearer to each other.
LEMMA GpsTickKeeps == ASSUME TrackersInv, GpsTick PROVE TrackersInv'
  <1>1. gpsClock' \in gpsClock..MaxTime
    BY TrackerBounds DEF GpsTick, TrackersInv, RowsOK
  <1> QED BY <1>1, QuietKeeps DEF GpsTick, Fewer

\* A process that starts again has no request on its way, and what it forgot too early is written
\* down.
LEMMA RestartGpsKeeps == ASSUME TrackersInv, RestartGps PROVE TrackersInv'
  <1>1. RowsOK /\ MemoryOK
    BY DEF TrackersInv
  <1>2. gpsClock \in Nat /\ MaxTime \in Nat /\ MinInterval \in Nat /\ MaxWrong \in Nat
        /\ gpsClock' \in gpsClock..MaxTime
    BY <1>1, TrackerBounds DEF RowsOK, RestartGps
  <1>3. /\ RowsOK' /\ CeilingHolds' /\ OneTrackerEach' /\ gpsClock' \in Nat /\ gpsClock <= gpsClock'
        /\ \A n \in Numbers : SecretsStay(n) /\ trackers'[n].id = trackers[n].id
    BY <1>2, TableStays DEF RestartGps
  <1>4. OnItsWay' = {} /\ RequestsOK'
    <2>1. gps' = [q \in GpsRequests |-> Resting]
      BY DEF RestartGps
    <2> QED BY <2>1 DEF RequestsOK, OnItsWay, Awaiting
  <1>5. Fewer
    BY DEF Fewer, RestartGps
  <1>6. forgotten \subseteq forgotten' /\ \A d \in DOMAIN lastPoint : Remembers(d)
    <2>1. \A d \in DOMAIN lastPoint : lastPoint[d] \in Nat
      BY <1>1, <1>2 DEF MemoryOK
    <2> QED BY <1>2, <2>1 DEF Remembers, RestartGps
  <1>7. DOMAIN lastPoint' = {}
    BY DEF RestartGps
  <1>8. MemoryOK'
    <2>1. wrong' = [d \in Ids |-> << >>]
      BY DEF RestartGps
    <2>2. \A d \in Ids : Recent(d)' = {}
      BY <2>1 DEF Recent
    <2>3. Cardinality({}) = 0
      BY FS_EmptySet
    <2>4. << >> \in Seq(0..MaxTime)
      OBVIOUS
    <2> QED BY <1>2, <1>7, <2>1, <2>2, <2>3, <2>4 DEF MemoryOK
  <1>9. UNCHANGED trackers
    BY DEF RestartGps
  <1> QED BY <1>3, <1>4, <1>5, <1>6, <1>7, <1>8, <1>9, NothingNew

\* A message is decided on, where the table is as it was but for the tracker's own new row.
LEMMA DecidedKeeps ==
    ASSUME TrackersInv, NEW q \in GpsRequests, NEW n \in Numbers, NEW row \in TrackerRow,
           Decide(q, n, row), UNCHANGED <<points, gpsClock>>,
           trackers'[n] = row, \A m \in Numbers : trackers'[m].id = row.id => m = n, row.id <= issuedIds',
           RowsOK', CeilingHolds', OneTrackerEach', issuedIds' \in Nat, issuedIds <= issuedIds',
           \A m \in Numbers : /\ SecretsStay(m)
                              /\ \/ trackers'[m].id = trackers[m].id \/ trackers'[m].id = 0
                                 \/ trackers'[m].id > issuedIds,
           \A p \in DOMAIN points : \A m \in Numbers :
              trackers[m].id = p.device => trackers'[m].id = p.device
    PROVE  TrackersInv'
  <1>1. /\ RowsOK /\ RequestsOK /\ PointsOK /\ MemoryOK /\ AllHonest /\ Spaced /\ PointsHaveTracker
    BY DEF TrackersInv
  <1>2. gpsClock' = gpsClock /\ points' = points
    OBVIOUS
  <1>3. /\ MemoryOK'
        /\ \E r \in Requests \cup {Resting} :
              /\ gps' = [gps EXCEPT ![q] = r]
              /\ r # Resting =>
                    /\ r.step = "store" /\ r.point.device = r.id /\ r.id <= issuedIds'
                    /\ r.point.passed <= gpsClock
                    /\ \A m \in Numbers : trackers'[m].id = r.id => m = r.number
        /\ q \in OnItsWay' => \A p \in Point : p = gps'[q].point =>
              Honest(p)' /\ Known(p)' /\ Distant(p, DOMAIN points \cup PointsOf(OnItsWay))
        /\ forgotten \subseteq forgotten' /\ \A d \in DOMAIN lastPoint : Remembers(d)
        /\ \A d \in DOMAIN lastPoint' : lastPoint'[d] \in Nat
    BY <1>1, <1>2, Decided
  <1>4. PICK r \in Requests \cup {Resting} :
           /\ gps' = [gps EXCEPT ![q] = r]
           /\ r # Resting =>
                 /\ r.step = "store" /\ r.point.device = r.id /\ r.id <= issuedIds'
                 /\ r.point.passed <= gpsClock
                 /\ \A m \in Numbers : trackers'[m].id = r.id => m = r.number
    BY <1>3
  <1>5. RequestsOK'
    <2>1. ~(r # Resting /\ r.step = "bind")
      BY <1>4
    <2> QED BY <1>1, <1>2, <1>4, <2>1, RequestsStay
  <1>6. Fewer
    BY <1>2 DEF Fewer
  <1>7. gpsClock \in Nat /\ gpsClock' \in Nat /\ gpsClock <= gpsClock'
    BY <1>1, <1>2, TrackerBounds DEF RowsOK
  <1>8. PointsOK'
    BY <1>1, <1>6, <1>7, PointsStay
  <1>9. PointsHaveTracker'
    BY <1>1, <1>2, <1>6, OwnersStay
  <1>10. \A o \in OnItsWay' : o # q => o \in OnItsWay /\ gps'[o] = gps[o]
    <2>1. \A o \in GpsRequests : o # q => gps'[o] = gps[o]
      BY <1>1, <1>4 DEF RequestsOK
    <2> QED BY <2>1 DEF OnItsWay, Awaiting
  <1>11. AllHonest'
    <2>1. \A o \in OnItsWay' : \/ o \in OnItsWay /\ gps'[o] = gps[o]
                               \/ \A p \in Point : p = gps'[o].point => Honest(p)'
      BY <1>3, <1>10
    <2> QED BY <1>1, <1>2, <1>5, <2>1, AllHonestStays
  <1>12. Spaced'
    <2>1. {q} \in SUBSET GpsRequests /\ \A x, y \in {q} : x = y
      OBVIOUS
    <2>2. \A o \in OnItsWay' : o \notin {q} => o \in OnItsWay /\ gps'[o] = gps[o]
      BY <1>10
    <2>3. \A o \in OnItsWay' : o \in {q} => \A p \in Point : p = gps'[o].point =>
             Known(p)' /\ Distant(p, DOMAIN points \cup PointsOf(OnItsWay \ {q}))
      <3>1. PointsOf(OnItsWay \ {q}) \subseteq PointsOf(OnItsWay)
        BY DEF PointsOf
      <3>2. \A p : Distant(p, DOMAIN points \cup PointsOf(OnItsWay)) =>
                   Distant(p, DOMAIN points \cup PointsOf(OnItsWay \ {q}))
        BY <3>1 DEF Distant
      <3> QED BY <1>3, <3>2
    <2> QED BY <1>1, <1>3, <1>5, <1>6, <1>7, <2>1, <2>2, <2>3, SpacedStays
  <1> QED BY <1>3, <1>5, <1>8, <1>9, <1>11, <1>12 DEF TrackersInv

\* A message of a tracker that is known is decided on at once.
LEMMA IngestKeeps ==
    ASSUME TrackersInv, NEW q \in GpsRequests, NEW n \in Numbers, Ingest(q, n)
    PROVE  TrackersInv'
  <1>1. CASE ~Registered(n)
    <2> DEFINE row == [step |-> "count", number |-> n]
    <2>1. row \in Requests /\ row.step = "count"
      BY DEF Requests
    <2>2. gps' = [gps EXCEPT ![q] = row]
      BY <1>1 DEF Ingest
    <2> HIDE DEF row
    <2> QED BY <1>1, <2>1, <2>2, RequestOnly DEF Ingest
  <1>2. CASE Registered(n)
    <2>1. /\ RowsOK /\ RequestsOK /\ PointsOK /\ MemoryOK /\ AllHonest /\ Spaced /\ PointsHaveTracker
      BY DEF TrackersInv
    <2>2. /\ Decide(q, n, trackers[n])
          /\ UNCHANGED <<trackers, garage, points, gpsClock, issuedIds, abreast, twiceBound>>
      BY <1>2 DEF Ingest
    <2>3. trackers[n] \in TrackerRow /\ trackers[n].id \in Ids /\ trackers[n].id <= issuedIds
      BY <1>2, <2>1, RowKnown
    <2>4. \A m \in Numbers : trackers[m].id = trackers[n].id => m = n
      BY <1>2, <2>1 DEF RowsOK
    <2>5. gpsClock' \in gpsClock..MaxTime
      BY <2>1, <2>2, TrackerBounds DEF RowsOK
    <2>6. /\ RowsOK' /\ CeilingHolds' /\ OneTrackerEach' /\ gpsClock' \in Nat /\ gpsClock <= gpsClock'
          /\ issuedIds' \in Nat /\ issuedIds <= issuedIds'
          /\ \A m \in Numbers : SecretsStay(m) /\ trackers'[m].id = trackers[m].id
      BY <2>2, <2>5, TableStays
    <2> QED BY <2>1, <2>2, <2>3, <2>4, <2>6, DecidedKeeps
  <1> QED BY <1>1, <1>2

\* A tracker that registers itself takes the next id, and is counted when others were.
LEMMA RegisterKeeps == ASSUME TrackersInv, NEW q \in GpsRequests, Register(q) PROVE TrackersInv'
  <1> DEFINE n == gps[q].number
             row == [id |-> issuedIds + 1, auto |-> TRUE, active |-> TRUE, totp |-> NoSecret,
                     token |-> NoSecret, vehicle |-> NoVehicle, since |-> gpsClock]
  <1>1. /\ RowsOK /\ RequestsOK /\ PointsOK /\ MemoryOK /\ AllHonest /\ Spaced /\ PointsHaveTracker
        /\ CeilingHolds /\ OneTrackerEach
    BY DEF TrackersInv
  <1>2. gps[q] # Resting /\ UNCHANGED <<garage, points, gpsClock, begunGps, twiceBound>>
    BY DEF Register, Awaiting
  <1>3. n \in Numbers
    BY <1>1, <1>2, RequestKnown
  <1>4. gpsClock \in Nat /\ gpsClock \in 0..MaxTime /\ issuedIds \in Nat /\ abreast \in Nat
        /\ MaxTime \in Nat /\ MaxIssued \in Nat /\ MaxAuto \in Nat
    BY <1>1, TrackerBounds DEF RowsOK
  <1>5. CASE Registered(n)
    <2>1. Decide(q, n, trackers[n]) /\ UNCHANGED <<trackers, issuedIds, abreast>>
      BY <1>5 DEF Register
    <2> HIDE DEF n
    <2>3. trackers[n] \in TrackerRow /\ trackers[n].id \in Ids /\ trackers[n].id <= issuedIds
      BY <1>1, <1>3, <1>5, RowKnown
    <2>4. \A m \in Numbers : trackers[m].id = trackers[n].id => m = n
      BY <1>1, <1>3, <1>5 DEF RowsOK
    <2>5. gpsClock' \in gpsClock..MaxTime
      BY <1>2, <1>4
    <2>6. /\ RowsOK' /\ CeilingHolds' /\ OneTrackerEach' /\ gpsClock' \in Nat /\ gpsClock <= gpsClock'
          /\ issuedIds' \in Nat /\ issuedIds <= issuedIds'
          /\ \A m \in Numbers : SecretsStay(m) /\ trackers'[m].id = trackers[m].id
      BY <1>2, <2>1, <2>5, TableStays
    <2> QED BY <1>2, <1>3, <2>1, <2>3, <2>4, <2>6, DecidedKeeps
  <1>6. CASE ~Registered(n)
    <2>1. /\ issuedIds < MaxIssued /\ trackers' = [trackers EXCEPT ![n] = row]
          /\ issuedIds' = issuedIds + 1 /\ Decide(q, n, row)
          /\ abreast' = IF BelowCeiling THEN abreast ELSE abreast + 1
      BY <1>6 DEF Register
    <2>2. row \in TrackerRow /\ row.since = gpsClock /\ row.id = issuedIds + 1 /\ row.vehicle = NoVehicle
      BY <1>4, <2>1 DEF TrackerRow, Ids, NoSecret
    <2> HIDE DEF n, row
    <2>3. issuedIds' \in issuedIds..MaxIssued /\ abreast' \in Nat /\ gpsClock' = gpsClock /\ garage' = garage
      BY <1>2, <1>4, <2>1
    <2>4. /\ RowsOK'
          /\ \A m \in Numbers : \/ trackers'[m].id = trackers[m].id /\ (m # n => trackers'[m] = trackers[m])
                                \/ trackers'[m].id = 0
                                \/ trackers'[m].id > issuedIds
      <3>1. row.since <= gpsClock /\ row.id <= issuedIds'
        BY <1>4, <2>1, <2>2
      <3> QED BY <1>1, <1>3, <2>1, <2>2, <2>3, <3>1, RowsStay
    <2>5. \A m \in Numbers : trackers'[m] = IF m = n THEN row ELSE trackers[m]
      BY <1>1, <2>1 DEF RowsOK
    <2>6. \A m \in Numbers : SecretsStay(m)
      BY <2>2, <2>5 DEF SecretsStay
    <2>7. \A m \in Numbers : trackers'[m].id = row.id => m = n
      <3>1. \A m \in Numbers : trackers[m].id \in Nat /\ trackers[m].id <= issuedIds
        BY <1>1, <1>4, RowKnown
      <3>2. ASSUME NEW m \in Numbers, m # n, trackers'[m].id = row.id PROVE FALSE
        <4>1. trackers[m].id = issuedIds + 1
          BY <2>2, <2>5, <3>2
        <4>2. trackers[m].id \in Nat /\ trackers[m].id <= issuedIds
          BY <3>1
        <4> QED BY <1>4, <4>1, <4>2
      <3> QED BY <3>2
    <2>8. \A p \in DOMAIN points : \A m \in Numbers : trackers[m].id = p.device => trackers'[m].id = p.device
      <3>1. trackers[n].id = 0
        BY <1>1, <1>3, <1>6, RowKnown
      <3>2. \A p \in DOMAIN points : p.device # 0
        BY <1>1, PointKnown DEF PointsOK
      <3> QED BY <2>5, <3>1, <3>2
    <2>9. CeilingHolds'
      <3>1. Autos' \subseteq Autos \cup {n}
        BY <2>5 DEF Autos, Registered
      <3>2. IsFiniteSet(Autos) /\ Cardinality(Autos) \in Nat
        BY AutosFinite
      <3>3. Cardinality(Autos') \in Nat /\ Cardinality(Autos') <= Cardinality(Autos) + 1
        BY <3>1, <3>2, CountGrows
      <3>4. Cardinality(Autos) <= MaxAuto + abreast
        BY <1>1 DEF CeilingHolds
      <3>5. CASE BelowCeiling
        <4>1. Cardinality(Autos) < MaxAuto /\ abreast' = abreast
          BY <2>1, <3>5 DEF BelowCeiling
        <4>2. Cardinality(Autos') <= MaxAuto + abreast'
          BY <1>4, <3>2, <3>3, <4>1
        <4> QED BY <4>2 DEF CeilingHolds
      <3>6. CASE ~BelowCeiling
        <4>1. abreast' = abreast + 1
          BY <2>1, <3>6
        <4>2. Cardinality(Autos') <= MaxAuto + abreast'
          BY <1>4, <3>2, <3>3, <3>4, <4>1
        <4> QED BY <4>2 DEF CeilingHolds
      <3> QED BY <3>5, <3>6
    <2>10. OneTrackerEach'
      <3>1. \A v \in Vehicles : BoundTo(v)' \subseteq BoundTo(v)
        BY <2>2, <2>5, TrackerBounds DEF BoundTo, Registered
      <3>2. twiceBound' = twiceBound
        BY <1>2
      <3> QED BY <1>1, <3>1, <3>2, BindingStays
    <2>11. issuedIds' \in Nat /\ issuedIds <= issuedIds' /\ row.id <= issuedIds'
      BY <1>4, <2>1, <2>2
    <2>12. Decide(q, n, row) /\ trackers'[n] = row /\ UNCHANGED <<points, gpsClock>>
      BY <1>2, <1>3, <2>1, <2>5
    <2> QED BY <1>3, <2>2, <2>4, <2>6, <2>7, <2>8, <2>9, <2>10, <2>11, <2>12, DecidedKeeps
  <1> QED BY <1>5, <1>6

\* The point that was on its way is kept: it is far from those that are.
LEMMA StorePointKeeps == ASSUME TrackersInv, NEW q \in GpsRequests, StorePoint(q) PROVE TrackersInv'
  <1> DEFINE point == gps[q].point
  <1>1. /\ RowsOK /\ RequestsOK /\ PointsOK /\ MemoryOK /\ AllHonest /\ Spaced /\ PointsHaveTracker
    BY DEF TrackersInv
  <1>2. /\ q \in OnItsWay /\ StillThere(q) /\ points' = OneMore(point)
        /\ gps' = [gps EXCEPT ![q] = Resting]
        /\ UNCHANGED <<trackers, garage, lastPoint, wrong, gpsClock, issuedIds, begunGps, abreast,
                       twiceBound, forgotten>>
    BY DEF StorePoint, OnItsWay
  <1>3. /\ point \in Point /\ point.passed <= gpsClock
        /\ point.device = gps[q].id /\ gps[q].number \in Numbers /\ gps[q].id \in Ids
    BY <1>1, <1>2, OnItsWayKnown
  <1>4. Honest(point) /\ (Watched(point) => Known(point))
        /\ \A p \in DOMAIN points : p.device = point.device /\ Watched(p) => Apart(p, point)
    BY <1>1, <1>2 DEF AllHonest, Spaced
  <1>5. gpsClock \in Nat /\ gpsClock' \in gpsClock..MaxTime
    BY <1>1, <1>2, TrackerBounds DEF RowsOK
  <1>6. /\ RowsOK' /\ CeilingHolds' /\ OneTrackerEach' /\ gpsClock' \in Nat /\ gpsClock <= gpsClock'
        /\ issuedIds' \in Nat /\ issuedIds <= issuedIds'
        /\ \A m \in Numbers : SecretsStay(m) /\ trackers'[m].id = trackers[m].id
    BY <1>2, <1>5, TableStays
  <1>7. OnItsWay' \subseteq OnItsWay \ {q} /\ \A o \in OnItsWay' : gps'[o] = gps[o]
    <2>1. gps'[q] = Resting /\ \A o \in GpsRequests : o # q => gps'[o] = gps[o]
      BY <1>1, <1>2 DEF RequestsOK
    <2> QED BY <2>1 DEF OnItsWay, Awaiting
  <1>8. RequestsOK'
    <2>1. Resting \in Requests \cup {Resting}
      OBVIOUS
    <2>2. gpsClock' = gpsClock
      BY <1>2
    <2> QED BY <1>1, <1>2, <1>6, <2>1, <2>2, RequestsStay
  <1>9. PICK s \in Point : s = point
    BY <1>3
  <1>10. /\ DOMAIN points' = DOMAIN points \cup {s}
         /\ \A p \in DOMAIN points' :
               points'[p] = (IF p \in DOMAIN points THEN points[p] ELSE 0) + (IF p = s THEN 1 ELSE 0)
    BY <1>2, <1>9 DEF OneMore
  <1>11. /\ s.passed <= gpsClock /\ (Watched(s) => Known(s)) /\ s.device = gps[q].id
         /\ \A p \in DOMAIN points : p.device = s.device /\ Watched(p) => Apart(p, s)
    BY <1>3, <1>4, <1>9
  <1>12. \A p \in DOMAIN points : points[p] \in Nat \ {0} /\ p \in Point /\ p.passed <= gpsClock
    BY <1>1 DEF PointsOK
  <1> HIDE DEF point
  <1>13. PointsOK'
    <2>1. \A p \in DOMAIN points' : p \in Point /\ points'[p] \in Nat \ {0} /\ p.passed <= gpsClock'
      BY <1>2, <1>9, <1>10, <1>11, <1>12
    <2> QED BY <2>1 DEF PointsOK
  <1>14. PointsHaveTracker'
    <2>1. trackers[gps[q].number].id = s.device
      BY <1>2, <1>11 DEF StillThere
    <2> QED BY <1>1, <1>2, <1>3, <1>10, <2>1 DEF PointsHaveTracker, NumberOf
  <1>15. MemoryOK'
    <2>1. \A d \in DOMAIN lastPoint' : lastPoint'[d] \in 0..gpsClock'
      BY <1>1, <1>2 DEF MemoryOK
    <2> QED BY <1>1, <1>2, <1>6, <2>1, MemoryStays
  <1>16. AllHonest'
    <2>1. \A p \in DOMAIN points' : p \in DOMAIN points \/ \E o \in OnItsWay : p = gps[o].point
      BY <1>2, <1>9, <1>10 DEF point
    <2>2. \A o \in OnItsWay' : o \in OnItsWay /\ gps'[o] = gps[o]
      BY <1>7
    <2> QED BY <1>1, <1>6, <1>8, <2>1, <2>2, AllHonestStays
  <1>17. Spaced'
    <2>1. \A p : (Watched(p)' <=> Watched(p)) /\ (Known(p)' <=> Known(p))
      BY <1>2 DEF Watched, Known
    <2>2. \A p \in DOMAIN points' : Watched(p)' => Known(p)'
      BY <1>1, <1>10, <1>11, <2>1 DEF Spaced
    <2>3. \A o \in OnItsWay' : Watched(gps[o].point)' => Known(gps[o].point)'
      <3>1. ASSUME NEW o \in OnItsWay' PROVE gps'[o] = gps[o] /\ (Watched(gps[o].point) => Known(gps[o].point))
        BY <1>1, <1>7, <3>1 DEF Spaced
      <3> QED BY <1>2, <3>1 DEF Watched, Known
    <2>4. \A p, r : Apart(p, r) => Apart(r, p)
      BY DEF Apart
    <2>5. ASSUME NEW p \in DOMAIN points', NEW r \in DOMAIN points', p.device = r.device, Watched(p),
                 p = r => points'[p] > 1
          PROVE  Apart(p, r)
      <3>1. CASE p = s /\ r = s
        <4>1. s \in DOMAIN points
          BY <1>10, <2>5, <3>1
        <4> QED BY <1>11, <2>5, <3>1, <4>1
      <3>2. CASE p = s /\ r # s
        <4>1. r \in DOMAIN points /\ Watched(r)
          BY <1>10, <2>5, <3>2 DEF Watched
        <4> QED BY <1>11, <2>4, <2>5, <3>2, <4>1
      <3>3. CASE p # s /\ r = s
        BY <1>10, <1>11, <2>5, <3>3
      <3>4. CASE p # s /\ r # s
        <4>1. p \in DOMAIN points /\ r \in DOMAIN points /\ (p = r => points[p] > 1)
          BY <1>10, <1>12, <2>5, <3>4
        <4> QED BY <1>1, <2>5, <4>1 DEF Spaced
      <3> QED BY <3>1, <3>2, <3>3, <3>4
    <2>6. ASSUME NEW o \in OnItsWay', NEW p \in DOMAIN points', p.device = gps[o].point.device, Watched(p)
          PROVE  Apart(p, gps[o].point)
      <3>1. o \in OnItsWay /\ o # q
        BY <1>7
      <3>2. CASE p \in DOMAIN points
        BY <1>1, <2>6, <3>1, <3>2 DEF Spaced
      <3>3. CASE p = s
        <4>1. Apart(gps[o].point, gps[q].point) \/ Apart(gps[q].point, gps[o].point)
          BY <1>1, <1>2, <1>9, <2>6, <3>1, <3>3 DEF Spaced, point, Watched
        <4>2. Apart(gps[q].point, gps[o].point)
          BY <2>4, <4>1
        <4> QED BY <1>9, <3>3, <4>2 DEF point
      <3> QED BY <1>10, <3>2, <3>3
    <2>7. \A o \in OnItsWay' : \A p \in DOMAIN points' :
            p.device = gps'[o].point.device /\ Watched(p)' => Apart(p, gps'[o].point)
      BY <1>7, <2>1, <2>6
    <2>8. \A p, r \in DOMAIN points' :
            p.device = r.device /\ Watched(p)' /\ (p = r => points'[p] > 1) => Apart(p, r)
      BY <2>1, <2>5
    <2>9. \A x, y \in OnItsWay' :
            x # y /\ gps'[y].point.device = gps'[x].point.device /\ gps'[x].point.device \notin forgotten' =>
              Apart(gps'[y].point, gps'[x].point)
      <3>1. ASSUME NEW x \in OnItsWay', NEW y \in OnItsWay'
            PROVE  x \in OnItsWay /\ y \in OnItsWay /\ gps'[x] = gps[x] /\ gps'[y] = gps[y]
        BY <1>7, <3>1
      <3>2. \A x, y \in OnItsWay :
              x # y /\ gps[y].point.device = gps[x].point.device /\ gps[x].point.device \notin forgotten =>
                Apart(gps[y].point, gps[x].point)
        BY <1>1 DEF Spaced, Watched
      <3> QED BY <1>2, <3>1, <3>2
    <2> QED BY <2>2, <2>3, <2>7, <2>8, <2>9 DEF Spaced, Watched, Apart
  <1> QED BY <1>6, <1>8, <1>13, <1>14, <1>15, <1>16, <1>17 DEF TrackersInv

\* The staff's write: a row that was there keeps its id, and its secrets where they are not changed.
LEMMA ChangedRow ==
    ASSUME RowsOK, NEW q, NEW row \in TrackerRow, NEW no \in 0..MaxIssued,
           gps[q].vehicle \in Vehicles \cup {NoVehicle, "kept"}
    PROVE  /\ Changed(row, q, no) \in TrackerRow /\ Changed(row, q, no).id = row.id
           /\ Changed(row, q, no).auto => row.auto
           /\ Changed(row, q, no).vehicle = IF gps[q].vehicle = "kept" THEN row.vehicle ELSE gps[q].vehicle
           /\ \/ Changed(row, q, no).since = gpsClock
              \/ /\ Changed(row, q, no).since = row.since /\ Changed(row, q, no).totp = row.totp
                 /\ Changed(row, q, no).token = row.token
  <1> DEFINE new == Changed(row, q, no)
             change == gps[q].change
  <1>1. /\ row.id \in Ids /\ row.auto \in BOOLEAN /\ row.active \in BOOLEAN
        /\ row.totp \in 0..MaxIssued /\ row.token \in 0..MaxIssued
        /\ row.vehicle \in Vehicles \cup {NoVehicle} /\ row.since \in 0..MaxTime
    BY DEF TrackerRow
  <1>2. NoSecret \in 0..MaxIssued /\ gpsClock \in 0..MaxTime
    BY TrackerBounds DEF NoSecret, RowsOK
  <1>3. DOMAIN row = {"id", "auto", "active", "totp", "token", "vehicle", "since"}
    BY DEF TrackerRow
  <1>4. /\ new.id = row.id /\ new.active = (IF change = "switch" THEN ~row.active ELSE row.active)
        /\ new.vehicle = (IF gps[q].vehicle = "kept" THEN row.vehicle ELSE gps[q].vehicle)
        /\ new.totp = (IF change = "totp" THEN no ELSE IF change = "drop" THEN NoSecret ELSE row.totp)
        /\ new.token = (IF change = "token" THEN no ELSE IF change = "drop" THEN NoSecret ELSE row.token)
        /\ new.auto = (row.auto /\ change # "confirm")
        /\ new.since = (IF Issues(q) \/ change = "drop" THEN gpsClock ELSE row.since)
    BY <1>3 DEF Changed
  <1> HIDE DEF new
  <1>6. /\ new.id \in Ids /\ new.auto \in BOOLEAN /\ new.active \in BOOLEAN
        /\ new.totp \in 0..MaxIssued /\ new.token \in 0..MaxIssued
        /\ new.vehicle \in Vehicles \cup {NoVehicle} /\ new.since \in 0..MaxTime
    BY <1>1, <1>2, <1>4
  <1>7. new \in TrackerRow
    <2>1. new = [row EXCEPT !.vehicle = new.vehicle, !.totp = new.totp, !.token = new.token,
                            !.active = new.active, !.auto = new.auto, !.since = new.since]
      <3>1. \A v, a, b, c, d, e :
              LET r == [row EXCEPT !.vehicle = v, !.totp = a, !.token = b, !.active = c, !.auto = d, !.since = e]
              IN r = [row EXCEPT !.vehicle = r.vehicle, !.totp = r.totp, !.token = r.token,
                                 !.active = r.active, !.auto = r.auto, !.since = r.since]
        BY <1>3
      <3> QED BY <3>1 DEF new, Changed
    <2> QED BY <1>6, <2>1 DEF TrackerRow
  <1>8. ~Issues(q) => change # "totp" /\ change # "token"
    BY DEF Issues
  <1> QED BY <1>1, <1>4, <1>7, <1>8 DEF new

\* A bind that was decided on another state of the table is written down as such.
LEMMA BindCommitKeeps == ASSUME TrackersInv, NEW q \in GpsRequests, BindCommit(q) PROVE TrackersInv'
  <1> DEFINE n == gps[q].number
             new == [id |-> issuedIds + 1, auto |-> FALSE, active |-> TRUE, totp |-> NoSecret,
                     token |-> NoSecret, vehicle |-> NoVehicle, since |-> gpsClock]
             next == IF gps[q].id = 0 THEN issuedIds + 1 ELSE issuedIds
             no == next + 1
             old == IF gps[q].id = 0 THEN new ELSE trackers[n]
             row == Changed(old, q, no)
  <1>1. /\ RowsOK /\ RequestsOK /\ PointsOK /\ MemoryOK /\ AllHonest /\ Spaced /\ PointsHaveTracker
        /\ CeilingHolds /\ OneTrackerEach
    BY DEF TrackersInv
  <1>2. /\ gps[q] # Resting /\ gps[q].step = "bind" /\ StillThere(q)
        /\ (IF Issues(q) THEN no ELSE next) <= MaxIssued
        /\ issuedIds' = IF Issues(q) THEN no ELSE next
        /\ twiceBound' = IF gps[q].vehicle \in Vehicles /\ gps[q].free /\ ~(BoundTo(gps[q].vehicle) \subseteq {n})
                         THEN twiceBound \cup {gps[q].vehicle} ELSE twiceBound
        /\ gps' = [gps EXCEPT ![q] = Resting]
        /\ UNCHANGED <<garage, points, lastPoint, wrong, gpsClock, begunGps, abreast, forgotten>>
    BY DEF BindCommit, Awaiting
  <1>3. trackers' = [trackers EXCEPT ![n] = row]
    BY DEF BindCommit
  <1>4. /\ n \in Numbers /\ gps[q].id \in 0..MaxIssued /\ gps[q].free \in BOOLEAN
        /\ gps[q].vehicle \in Vehicles \cup {NoVehicle, "kept"}
        /\ gps[q].change \in {"kept", "totp", "token", "drop", "switch", "confirm"}
        /\ (gps[q].vehicle \in Vehicles => gps[q].free)
    BY <1>1, <1>2, RequestKnown DEF RequestsOK, Awaiting
  <1>5. gpsClock \in Nat /\ gpsClock \in 0..MaxTime /\ issuedIds \in Nat /\ abreast \in Nat
        /\ MaxTime \in Nat /\ MaxIssued \in Nat /\ trackers[n].id = gps[q].id
    BY <1>1, <1>2, TrackerBounds DEF RowsOK, StillThere
  <1>6. /\ old \in TrackerRow /\ old.since <= gpsClock
        /\ \/ gps[q].id # 0 /\ Registered(n) /\ old = trackers[n] /\ old.id = trackers[n].id
           \/ /\ gps[q].id = 0 /\ ~Registered(n) /\ old.id = issuedIds + 1 /\ ~old.auto
              /\ old.vehicle = NoVehicle /\ old.since = gpsClock
    <2>1. CASE gps[q].id = 0
      <3>1. issuedIds + 1 <= MaxIssued
        BY <1>2, <1>5, <2>1
      <3>2. new \in TrackerRow /\ new.id = issuedIds + 1 /\ ~new.auto /\ new.vehicle = NoVehicle
            /\ new.since = gpsClock
        BY <1>5, <3>1 DEF TrackerRow, Ids, NoSecret
      <3>3. ~Registered(n)
        BY <1>1, <1>4, <1>5, <2>1, RowKnown
      <3> QED BY <1>5, <2>1, <3>2, <3>3
    <2>2. CASE gps[q].id # 0
      BY <1>1, <1>4, <1>5, <2>2, RowKnown
    <2> QED BY <2>1, <2>2
  <1>7. issuedIds' \in issuedIds..MaxIssued /\ (gps[q].id = 0 => issuedIds + 1 <= issuedIds')
        /\ issuedIds' \in Nat /\ issuedIds <= issuedIds'
    BY <1>2, <1>5
  <1> HIDE DEF old, new
  <1>8. /\ row \in TrackerRow /\ row.id = old.id /\ (row.auto => old.auto)
        /\ row.vehicle = (IF gps[q].vehicle = "kept" THEN old.vehicle ELSE gps[q].vehicle)
        /\ \/ row.since = gpsClock
           \/ row.since = old.since /\ row.totp = old.totp /\ row.token = old.token
    <2>1. CASE Issues(q)
      <3>1. no \in 0..MaxIssued
        BY <1>2, <1>5, <2>1
      <3> QED BY <1>1, <1>4, <1>6, <3>1, ChangedRow
    <2>2. CASE ~Issues(q)
      \* The number of a secret that is not issued is in nothing that is written.
      <3>1. Changed(old, q, no) = Changed(old, q, 0)
        BY <2>2 DEF Changed, Issues
      <3>2. 0 \in 0..MaxIssued
        BY <1>5
      <3>3. /\ Changed(old, q, 0) \in TrackerRow /\ Changed(old, q, 0).id = old.id
            /\ (Changed(old, q, 0).auto => old.auto)
            /\ Changed(old, q, 0).vehicle = (IF gps[q].vehicle = "kept" THEN old.vehicle ELSE gps[q].vehicle)
            /\ \/ Changed(old, q, 0).since = gpsClock
               \/ /\ Changed(old, q, 0).since = old.since /\ Changed(old, q, 0).totp = old.totp
                  /\ Changed(old, q, 0).token = old.token
        BY <1>1, <1>4, <1>6, <3>2, ChangedRow
      <3> QED BY <3>1, <3>3
    <2> QED BY <2>1, <2>2
  <1> HIDE DEF row, no, next, n
  <1>9. /\ RowsOK'
        /\ \A m \in Numbers : \/ trackers'[m].id = trackers[m].id /\ (m # n => trackers'[m] = trackers[m])
                              \/ trackers'[m].id = 0
                              \/ trackers'[m].id > issuedIds
    <2>1. row.since <= gpsClock
      BY <1>5, <1>6, <1>8
    <2>2. \/ Registered(n) /\ row.id = trackers[n].id
          \/ row.id = issuedIds + 1 /\ row.id <= issuedIds'
      BY <1>6, <1>7, <1>8
    <2>3. gpsClock' = gpsClock /\ garage' = garage /\ abreast' \in Nat
      BY <1>2, <1>5
    <2> QED BY <1>1, <1>3, <1>4, <1>7, <1>8, <2>1, <2>2, <2>3, RowsStay
  <1>10. \A m \in Numbers : trackers'[m] = IF m = n THEN row ELSE trackers[m]
    BY <1>1, <1>3 DEF RowsOK
  <1>11. \A m \in Numbers : SecretsStay(m)
    <2>1. ASSUME NEW m \in Numbers PROVE SecretsStay(m)
      <3>1. CASE m # n
        BY <1>10, <3>1 DEF SecretsStay
      <3>2. CASE m = n /\ row.since = gpsClock
        BY <1>10, <3>2 DEF SecretsStay
      <3>3. CASE m = n /\ row.since # gpsClock
        <4>1. row.since = old.since /\ row.totp = old.totp /\ row.token = old.token
          BY <1>8, <3>3
        <4>2. old = trackers[n]
          BY <1>6, <3>3, <4>1
        <4>3. trackers'[m] = row /\ row.id = trackers[m].id
          BY <1>8, <1>10, <3>3, <4>2
        <4> QED BY <3>3, <4>1, <4>2, <4>3 DEF SecretsStay
      <3> QED BY <3>1, <3>2, <3>3
    <2> QED BY <2>1
  <1>12. \A p \in DOMAIN points : \A m \in Numbers : trackers[m].id = p.device => trackers'[m].id = p.device
    <2>1. \A p \in DOMAIN points : p.device # 0
      BY <1>1, PointKnown DEF PointsOK
    <2>2. trackers[n].id # 0 => row.id = trackers[n].id
      BY <1>5, <1>6, <1>8
    <2> QED BY <1>10, <2>1, <2>2
  <1>13. CeilingHolds'
    <2>1. row.auto => Registered(n) /\ trackers[n].auto
      BY <1>6, <1>8
    <2>2. Autos' \subseteq Autos
      BY <1>10, <2>1 DEF Autos, Registered
    <2>3. abreast' = abreast
      BY <1>2
    <2> QED BY <1>1, <2>2, <2>3, CeilingStays
  <1>14. OneTrackerEach'
    <2>1. twiceBound \subseteq twiceBound'
      BY <1>2
    <2>2. ASSUME NEW v \in Vehicles \ twiceBound' PROVE BoundTo(v)' \subseteq BoundTo(v) \/ BoundTo(v)' \subseteq {n}
      <3>1. CASE gps[q].vehicle = v
        <4>1. BoundTo(v) \subseteq {n}
          BY <1>2, <1>4, <2>2, <3>1
        <4>2. BoundTo(v)' \subseteq BoundTo(v) \cup {n}
          BY <1>10 DEF BoundTo, Registered
        <4> QED BY <4>1, <4>2
      <3>2. CASE gps[q].vehicle # v
        <4>1. row.vehicle = v => Registered(n) /\ trackers[n].vehicle = v
          BY <1>6, <1>8, <2>2, <3>2, TrackerBounds
        <4> QED BY <1>10, <4>1 DEF BoundTo, Registered
      <3> QED BY <3>1, <3>2
    <2> QED BY <1>1, <2>1, <2>2, BindingStays
  <1>15. RequestsOK'
    <2>1. Resting \in Requests \cup {Resting} /\ gpsClock' = gpsClock
      BY <1>2
    <2> QED BY <1>1, <1>2, <1>7, <1>9, <2>1, RequestsStay
  <1>16. \A o \in OnItsWay' : o \in OnItsWay /\ gps'[o] = gps[o]
    <2>1. gps'[q] = Resting /\ \A o \in GpsRequests : o # q => gps'[o] = gps[o]
      BY <1>1, <1>2 DEF RequestsOK
    <2> QED BY <2>1 DEF OnItsWay, Awaiting
  <1>17. Fewer
    BY <1>2 DEF Fewer
  <1>18. /\ gpsClock' \in Nat /\ gpsClock <= gpsClock' /\ forgotten \subseteq forgotten'
         /\ \A d \in DOMAIN lastPoint : Remembers(d) /\ lastPoint[d] \in Nat
         /\ \A d \in DOMAIN lastPoint' : lastPoint'[d] \in 0..gpsClock' /\ lastPoint'[d] \in Nat
    BY <1>1, <1>2, <1>5 DEF MemoryOK, Remembers
  <1>19. MemoryOK'
    BY <1>1, <1>2, <1>18, MemoryStays
  <1>20. \A p \in DOMAIN points' : \A m \in Numbers : trackers[m].id = p.device => trackers'[m].id = p.device
    BY <1>2, <1>12
  <1> QED BY <1>9, <1>11, <1>13, <1>14, <1>15, <1>16, <1>17, <1>18, <1>19, <1>20, NothingNew

\* An empty table satisfies the invariant.
LEMMA TrackersStart == TrackersInit => TrackersInv
  <1> SUFFICES ASSUME TrackersInit PROVE TrackersInv
    OBVIOUS
  <1>1. /\ trackers = [n \in Numbers |-> Missing] /\ garage = Vehicles /\ DOMAIN points = {}
        /\ DOMAIN lastPoint = {} /\ wrong = [d \in Ids |-> << >>] /\ gps = [q \in GpsRequests |-> Resting]
        /\ gpsClock = 0 /\ issuedIds = 0 /\ abreast = 0
    BY DEF TrackersInit
  <1>2. \A n \in Numbers : trackers[n] = Missing
    BY <1>1
  <1>3. Autos = {} /\ \A v : BoundTo(v) = {}
    BY <1>2 DEF Autos, BoundTo, Registered
  <1>4. Cardinality({}) = 0
    BY FS_EmptySet
  <1>5. RowsOK
    BY <1>1, <1>2, TrackerBounds DEF RowsOK, Registered
  <1>6. RequestsOK /\ OnItsWay = {}
    BY <1>1 DEF RequestsOK, OnItsWay, Awaiting
  <1>7. MemoryOK
    <2>1. \A d \in Ids : Recent(d) = {}
      BY <1>1 DEF Recent
    <2>2. << >> \in Seq(0..MaxTime)
      OBVIOUS
    <2>3. wrong \in [Ids -> Seq(0..MaxTime)]
      BY <1>1, <2>2
    <2>4. \A d \in Ids : Cardinality(Recent(d)) = 0
      BY <1>4, <2>1
    <2>5. 0 <= MaxWrong
      BY TrackerBounds
    <2> QED BY <1>1, <2>3, <2>4, <2>5 DEF MemoryOK
  <1>8. CeilingHolds /\ OneTrackerEach
    <2>1. Cardinality(Autos) = 0 /\ \A v : Cardinality(BoundTo(v)) = 0
      BY <1>3, <1>4
    <2>2. 0 <= MaxAuto + 0
      BY TrackerBounds
    <2> QED BY <1>1, <2>1, <2>2 DEF CeilingHolds, OneTrackerEach
  <1>9. PointsOK /\ AllHonest /\ Spaced /\ PointsHaveTracker
    BY <1>1, <1>6 DEF PointsOK, AllHonest, Spaced, PointsHaveTracker
  <1> QED BY <1>5, <1>6, <1>7, <1>8, <1>9 DEF TrackersInv

\* Every step of the trackers keeps the invariant.
LEMMA TrackersStep == TrackersInv /\ TrackersNext => TrackersInv'
  <1> SUFFICES ASSUME TrackersInv, TrackersNext PROVE TrackersInv'
    OBVIOUS
  <1>1. ASSUME NEW q \in GpsRequests, NEW n \in Numbers, Ingest(q, n) PROVE TrackersInv'
    BY <1>1, IngestKeeps
  <1>2. ASSUME NEW q \in GpsRequests, NEW n \in Numbers, NEW v \in Vehicles \cup {NoVehicle},
               BindBegin(q, n, v, "kept")
        PROVE  TrackersInv'
    <2>1. v \in Vehicles \cup {NoVehicle, "kept"}
          /\ "kept" \in {"kept", "totp", "token", "drop", "switch", "confirm"}
      OBVIOUS
    <2> QED BY <1>2, <2>1, BindBeginKeeps
  <1>3. ASSUME NEW q \in GpsRequests, NEW n \in Numbers,
               NEW change \in {"totp", "token", "drop", "switch", "confirm"}, BindBegin(q, n, "kept", change)
        PROVE  TrackersInv'
    <2>1. "kept" \in Vehicles \cup {NoVehicle, "kept"}
          /\ change \in {"kept", "totp", "token", "drop", "switch", "confirm"}
      OBVIOUS
    <2> QED BY <1>3, <2>1, BindBeginKeeps
  <1>4. ASSUME NEW q \in GpsRequests,
               CountAutos(q) \/ Register(q) \/ StorePoint(q) \/ BindCommit(q) \/ GpsFails(q)
        PROVE  TrackersInv'
    BY <1>4, CountAutosKeeps, RegisterKeeps, StorePointKeeps, BindCommitKeeps, GpsFailsKeeps
  <1>5. ASSUME NEW n \in Numbers, DeleteTracker(n) PROVE TrackersInv'
    BY <1>5, DeleteTrackerKeeps
  <1>6. ASSUME NEW v \in Vehicles, ArchiveVehicle(v) PROVE TrackersInv'
    BY <1>6, ArchiveKeeps
  <1>7. CASE PurgePoints \/ RestartGps \/ GpsTick
    BY <1>7, PurgePointsKeeps, RestartGpsKeeps, GpsTickKeeps
  <1> QED BY <1>1, <1>2, <1>3, <1>4, <1>5, <1>6, <1>7 DEF TrackersNext

\* So does a step of the zones.
LEMMA TrackersIdle == TrackersInv /\ UNCHANGED gpsVars => TrackersInv'
  <1> SUFFICES ASSUME TrackersInv, UNCHANGED gpsVars PROVE TrackersInv'
    OBVIOUS
  <1>1. gpsClock' \in gpsClock..MaxTime
    BY TrackerBounds DEF gpsVars, TrackersInv, RowsOK
  <1> QED BY <1>1, QuietKeeps DEF gpsVars, Fewer

\* What the trackers keep follows from the invariant.
LEMMA TrackersAreOK ==
    TrackersInv => /\ TrackersTypeOK /\ PointsHaveTracker /\ SecretsCutOff
                   /\ TrackersLimited /\ CeilingHolds /\ OneTrackerEach
  <1> SUFFICES ASSUME TrackersInv
               PROVE  /\ TrackersTypeOK /\ PointsHaveTracker /\ SecretsCutOff
                      /\ TrackersLimited /\ CeilingHolds /\ OneTrackerEach
    OBVIOUS
  <1>1. TrackersTypeOK
    <2>1. ASSUME NEW n \in Numbers, Registered(n)
          PROVE  trackers[n] \in TrackerRow /\ NumberOf(trackers[n].id) = {n}
      <3>1. trackers[n] \in TrackerRow
        BY <2>1, RowKnown DEF TrackersInv
      <3>2. \A m \in Numbers : trackers[m].id = trackers[n].id => m = n
        BY <2>1 DEF TrackersInv, RowsOK
      <3> QED BY <3>1, <3>2 DEF NumberOf
    <2> QED BY <2>1 DEF TrackersTypeOK, TrackersInv, PointsOK, RowsOK
  <1>2. SecretsCutOff
    BY DEF SecretsCutOff, TrackersInv, AllHonest, Honest
  <1>3. TrackersLimited
    BY DEF TrackersLimited, TrackersInv, Spaced, MemoryOK, Watched
  <1> QED BY <1>1, <1>2, <1>3 DEF TrackersInv
-----------------------------------------------------------------------------
(* Zones: the ray and the edges *)

\* A product has the sign of its factors.
LEMMA SignOfProduct ==
    ASSUME NEW x \in Int, NEW y \in Int
    PROVE  /\ x * y \in Int
           /\ x * y > 0 <=> (x > 0 /\ y > 0) \/ (x < 0 /\ y < 0)
           /\ x * y < 0 <=> (x > 0 /\ y < 0) \/ (x < 0 /\ y > 0)
           /\ x * y = 0 <=> x = 0 \/ y = 0
  <1> DEFINE z == x * y
  <1>1. z \in Int
    OBVIOUS
  <1>2. x > 0 /\ y > 0 => z > 0
    OBVIOUS
  <1>3. x < 0 /\ y < 0 => z > 0
    OBVIOUS
  <1>4. x > 0 /\ y < 0 => z < 0
    OBVIOUS
  <1>5. x < 0 /\ y > 0 => z < 0
    OBVIOUS
  <1>6. x = 0 \/ y = 0 => z = 0
    OBVIOUS
  <1>7. /\ z \in Int
        /\ z > 0 <=> (x > 0 /\ y > 0) \/ (x < 0 /\ y < 0)
        /\ z < 0 <=> (x > 0 /\ y < 0) \/ (x < 0 /\ y > 0)
        /\ z = 0 <=> x = 0 \/ y = 0
    <2> HIDE DEF z
    <2>1. /\ x > 0 \/ x < 0 \/ x = 0
          /\ y > 0 \/ y < 0 \/ y = 0
      OBVIOUS
    <2>2. CASE x = 0 \/ y = 0
      BY <1>1, <1>6, <2>2
    <2>3. CASE x > 0 /\ y # 0
      BY <1>1, <1>2, <1>4, <2>1, <2>3
    <2>4. CASE x < 0 /\ y # 0
      BY <1>1, <1>3, <1>5, <2>1, <2>4
    <2> QED BY <2>1, <2>2, <2>3, <2>4
  <1> QED BY <1>7

\* The two edges at a corner that lies on another side of the ray than the other two corners: u are
\* the heights of the corners over the ray, t the turns about the edges after them.
LEMMA TwoEdges ==
    ASSUME NEW u1 \in Int, NEW u2 \in Int, NEW u3 \in Int,
           NEW t1 \in Int, NEW t2 \in Int, NEW t3 \in Int,
           t2 * u1 + t3 * u2 + t1 * u3 = 0,
           (u1 > 0) # (u2 > 0), (u1 > 0) # (u3 > 0)
    PROVE  LET x12 == IF u2 > u1 THEN t1 < 0 ELSE t1 > 0
               x31 == IF u1 > u3 THEN t3 < 0 ELSE t3 > 0
           IN /\ (t1 > 0 /\ t2 > 0 /\ t3 > 0) \/ (t1 < 0 /\ t2 < 0 /\ t3 < 0) => x12 # x31
              /\ t1 + t2 + t3 > 0 /\ (t1 < 0 \/ t2 < 0 \/ t3 < 0) => (x12 <=> x31)
              /\ t1 + t2 + t3 < 0 /\ (t1 > 0 \/ t2 > 0 \/ t3 > 0) => (x12 <=> x31)
  <1> DEFINE a == t2 * u1
             b == t3 * u2
             c == t1 * u3
  <1>1. /\ a \in Int /\ b \in Int /\ c \in Int /\ a + b + c = 0
        /\ a > 0 <=> (t2 > 0 /\ u1 > 0) \/ (t2 < 0 /\ u1 < 0)
        /\ a < 0 <=> (t2 > 0 /\ u1 < 0) \/ (t2 < 0 /\ u1 > 0)
        /\ b > 0 <=> (t3 > 0 /\ u2 > 0) \/ (t3 < 0 /\ u2 < 0)
        /\ b < 0 <=> (t3 > 0 /\ u2 < 0) \/ (t3 < 0 /\ u2 > 0)
        /\ c > 0 <=> (t1 > 0 /\ u3 > 0) \/ (t1 < 0 /\ u3 < 0)
        /\ c < 0 <=> (t1 > 0 /\ u3 < 0) \/ (t1 < 0 /\ u3 > 0)
    BY SignOfProduct
  <1> HIDE DEF a, b, c
  <1>2. CASE u1 > 0
    BY <1>1, <1>2
  <1>3. CASE ~(u1 > 0)
    BY <1>1, <1>3
  <1> QED BY <1>2, <1>3

\* The turns at the three edges of a triangle, of which some say one thing of the point.
LEMMA Turns ==
    ASSUME NEW a \in Int \X Int, NEW b \in Int \X Int, NEW c \in Int \X Int, NEW p \in Int \X Int
    PROVE  /\ Turn(a, b, p) \in Int /\ Turn(b, c, p) \in Int /\ Turn(c, a, p) \in Int
           /\ Turn(a, b, c) = Turn(a, b, p) + Turn(b, c, p) + Turn(c, a, p)
           /\ Turn(b, c, p) * (Lat(a) - Lat(p)) + Turn(c, a, p) * (Lat(b) - Lat(p))
                 + Turn(a, b, p) * (Lat(c) - Lat(p)) = 0
           /\ Lat(a) = Lat(p) /\ Lat(b) = Lat(p) => Turn(a, b, p) = 0
  <1>1. PICK a1 \in Int, a2 \in Int : a = <<a1, a2>>
    OBVIOUS
  <1>2. PICK b1 \in Int, b2 \in Int : b = <<b1, b2>>
    OBVIOUS
  <1>3. PICK c1 \in Int, c2 \in Int : c = <<c1, c2>>
    OBVIOUS
  <1>4. PICK p1 \in Int, p2 \in Int : p = <<p1, p2>>
    OBVIOUS
  <1>5. /\ Turn(a, b, p) = (b1 - a1) * (p2 - a2) - (b2 - a2) * (p1 - a1)
        /\ Turn(b, c, p) = (c1 - b1) * (p2 - b2) - (c2 - b2) * (p1 - b1)
        /\ Turn(c, a, p) = (a1 - c1) * (p2 - c2) - (a2 - c2) * (p1 - c1)
        /\ Turn(a, b, c) = (b1 - a1) * (c2 - a2) - (b2 - a2) * (c1 - a1)
    BY <1>1, <1>2, <1>3, <1>4 DEF Turn, Lat, Lon
  <1>6. Turn(a, b, c) = Turn(a, b, p) + Turn(b, c, p) + Turn(c, a, p)
    BY <1>5
  <1>7. Turn(b, c, p) * (a1 - p1) + Turn(c, a, p) * (b1 - p1) + Turn(a, b, p) * (c1 - p1) = 0
    BY <1>5
  <1>8. a1 = p1 /\ b1 = p1 => Turn(a, b, p) = 0
    BY <1>5
  <1>9. Turn(a, b, p) \in Int /\ Turn(b, c, p) \in Int /\ Turn(c, a, p) \in Int
    BY <1>5
  <1> QED BY <1>1, <1>2, <1>3, <1>4, <1>6, <1>7, <1>8, <1>9 DEF Lat, Lon

\* What an edge counts for, in terms of the turn about it; it counts as much from its other end.
LEMMA CrossingIsTurn ==
    ASSUME NEW a \in Int \X Int, NEW b \in Int \X Int, NEW p \in Int \X Int
    PROVE  /\ Crosses(p, a, b) <=>
                 /\ (Lat(a) - Lat(p) > 0) # (Lat(b) - Lat(p) > 0)
                 /\ IF Lat(b) - Lat(p) > Lat(a) - Lat(p) THEN Turn(a, b, p) < 0 ELSE Turn(a, b, p) > 0
           /\ Crosses(p, a, b) <=> Crosses(p, b, a)
  <1>1. PICK a1 \in Int, a2 \in Int : a = <<a1, a2>>
    OBVIOUS
  <1>2. PICK b1 \in Int, b2 \in Int : b = <<b1, b2>>
    OBVIOUS
  <1>4. PICK p1 \in Int, p2 \in Int : p = <<p1, p2>>
    OBVIOUS
  <1> DEFINE x == (p2 - a2) * (b1 - a1)
             y == (b2 - a2) * (p1 - a1)
             u == (p2 - b2) * (a1 - b1)
             v == (a2 - b2) * (p1 - b1)
  <1>5. x \in Int /\ y \in Int /\ u \in Int /\ v \in Int
    OBVIOUS
  <1>6. x - y = v - u
    OBVIOUS
  <1>7. Turn(a, b, p) = x - y /\ Turn(b, a, p) = u - v
    BY <1>1, <1>2, <1>4 DEF Turn, Lat, Lon
  <1>8. /\ Crosses(p, a, b) <=> (((a1 > p1) # (b1 > p1)) /\ (IF b1 > a1 THEN x < y ELSE x > y))
        /\ Crosses(p, b, a) <=> (((b1 > p1) # (a1 > p1)) /\ (IF a1 > b1 THEN u < v ELSE u > v))
    BY <1>1, <1>2, <1>4 DEF Crosses, Lat, Lon
  <1>9. Lat(a) = a1 /\ Lat(b) = b1 /\ Lat(p) = p1
    BY <1>1, <1>2, <1>4 DEF Lat
  <1> HIDE DEF x, y, u, v
  <1> QED BY <1>5, <1>6, <1>7, <1>8, <1>9

\* A member of a sequence.
LEMMA CornerOf == ASSUME NEW A, NEW s \in Seq(A), NEW i \in 1..Len(s) PROVE s[i] \in A
  OBVIOUS

\* The edge of a polygon that ends in its i-th corner, and whether the ray crosses it.
EdgeCrossed(p, polygon, i) == Crosses(p, polygon[i], polygon[IF i = 1 THEN Len(polygon) ELSE i - 1])
CrossedEdges(p, polygon) == {i \in 1..Len(polygon) : EdgeCrossed(p, polygon, i)}

\* A place is in a polygon when the ray from it crosses an odd number of edges.
LEMMA InsideIsOdd ==
    ASSUME NEW polygon \in Seq(Int \X Int), NEW p \in Int \X Int
    PROVE  /\ IsFiniteSet(CrossedEdges(p, polygon)) /\ Cardinality(CrossedEdges(p, polygon)) \in Nat
           /\ Inside(p, polygon) <=> Cardinality(CrossedEdges(p, polygon)) % 2 = 1
  <1>1. IsFiniteSet(1..Len(polygon))
    BY FS_Interval
  <1>2. CrossedEdges(p, polygon) \subseteq 1..Len(polygon)
    BY DEF CrossedEdges
  <1> QED BY <1>1, <1>2, CountWithin DEF CrossedEdges, EdgeCrossed, Inside

\* One member more turns an even number odd and an odd one even.
LEMMA ParityTurns ==
    ASSUME NEW S, IsFiniteSet(S), NEW x
    PROVE  /\ IsFiniteSet(S \cap {x}) /\ IsFiniteSet(S \ {x})
           /\ (Cardinality(S) % 2 = 1) <=> ((Cardinality(S \ {x}) % 2 = 1) # (x \in S))
  <1>1. /\ IsFiniteSet(S \ {x}) /\ IsFiniteSet(S \cap {x})
        /\ Cardinality(S) \in Nat /\ Cardinality(S \ {x}) \in Nat
        /\ Cardinality(S \ {x}) = IF x \in S THEN Cardinality(S) - 1 ELSE Cardinality(S)
    BY FS_RemoveElement, FS_CardinalityType, FS_Subset
  <1> QED BY <1>1

\* Of three edges one is crossed, or three, or an even number.
LEMMA OddOfThree ==
    ASSUME NEW S, S \subseteq 1..3
    PROVE  (Cardinality(S) % 2 = 1) <=> (((1 \in S) # (2 \in S)) # (3 \in S))
  <1> DEFINE A == S \ {1}
             B == A \ {2}
             C == B \ {3}
  <1>1. IsFiniteSet(S) /\ IsFiniteSet(A) /\ IsFiniteSet(B) /\ C = {}
    <2>1. S \subseteq 1..3 /\ A \subseteq 1..3 /\ B \subseteq 1..3 /\ C = {}
      OBVIOUS
    <2>2. IsFiniteSet(1..3)
      <3>1. 1 \in Int /\ 3 \in Int
        OBVIOUS
      <3> QED BY <3>1, FS_Interval
    <2> HIDE DEF A, B, C
    <2> QED BY <2>1, <2>2, CountWithin
  <1>2. /\ (Cardinality(S) % 2 = 1) <=> ((Cardinality(A) % 2 = 1) # (1 \in S))
        /\ (Cardinality(A) % 2 = 1) <=> ((Cardinality(B) % 2 = 1) # (2 \in A))
        /\ (Cardinality(B) % 2 = 1) <=> ((Cardinality(C) % 2 = 1) # (3 \in B))
    BY <1>1, ParityTurns
  <1>3. Cardinality(C) = 0 /\ 0 % 2 # 1
    <2> HIDE DEF C
    <2> QED BY <1>1, FS_EmptySet
  <1>4. (2 \in A <=> 2 \in S) /\ (3 \in B <=> 3 \in S)
    OBVIOUS
  <1> QED BY <1>2, <1>3, <1>4

\* A triangle, drawn either way round.
LEMMA TriangleExact ==
    ASSUME NEW t \in Seq(Int \X Int), Len(t) = 3, NEW p \in Int \X Int
    PROVE  TriangleIsExact(t, p)
  <1> DEFINE u1 == Lat(t[1]) - Lat(p)
             u2 == Lat(t[2]) - Lat(p)
             u3 == Lat(t[3]) - Lat(p)
             t1 == Turn(t[1], t[2], p)
             t2 == Turn(t[2], t[3], p)
             t3 == Turn(t[3], t[1], p)
             x1 == IF u2 > u1 THEN t1 < 0 ELSE t1 > 0
             x2 == IF u3 > u2 THEN t2 < 0 ELSE t2 > 0
             x3 == IF u1 > u3 THEN t3 < 0 ELSE t3 > 0
             c1 == ((u1 > 0) # (u2 > 0)) /\ x1
             c2 == ((u2 > 0) # (u3 > 0)) /\ x2
             c3 == ((u3 > 0) # (u1 > 0)) /\ x3
             around == t1 + t2 + t3
  <1>1. t[1] \in Int \X Int /\ t[2] \in Int \X Int /\ t[3] \in Int \X Int
    <2>1. 1 \in 1..Len(t) /\ 2 \in 1..Len(t) /\ 3 \in 1..Len(t)
      OBVIOUS
    <2> QED BY <2>1, CornerOf
  <1>2. u1 \in Int /\ u2 \in Int /\ u3 \in Int
    BY <1>1 DEF Lat
  <1>3. /\ t1 \in Int /\ t2 \in Int /\ t3 \in Int
        /\ Turn(t[1], t[2], t[3]) = around
        /\ t2 * u1 + t3 * u2 + t1 * u3 = 0
        /\ u1 = 0 /\ u2 = 0 => t1 = 0
    <2>1. u1 = 0 /\ u2 = 0 => Lat(t[1]) = Lat(p) /\ Lat(t[2]) = Lat(p)
      BY <1>1 DEF Lat
    <2> QED BY <1>1, <2>1, Turns
  <1>4. /\ Crosses(p, t[1], t[2]) <=> c1
        /\ Crosses(p, t[2], t[1]) <=> c1
        /\ Crosses(p, t[2], t[3]) <=> c2
        /\ Crosses(p, t[3], t[2]) <=> c2
        /\ Crosses(p, t[3], t[1]) <=> c3
        /\ Crosses(p, t[1], t[3]) <=> c3
    BY <1>1, CrossingIsTurn
  <1>0. c1 \in BOOLEAN /\ c2 \in BOOLEAN /\ c3 \in BOOLEAN
    OBVIOUS
  <1>5. Inside(p, t) <=> ((c1 # c2) # c3)
    <2>1. /\ EdgeCrossed(p, t, 1) <=> Crosses(p, t[1], t[3])
          /\ EdgeCrossed(p, t, 2) <=> Crosses(p, t[2], t[1])
          /\ EdgeCrossed(p, t, 3) <=> Crosses(p, t[3], t[2])
      BY DEF EdgeCrossed
    <2>2. /\ 1 \in CrossedEdges(p, t) <=> c3
          /\ 2 \in CrossedEdges(p, t) <=> c1
          /\ 3 \in CrossedEdges(p, t) <=> c2
          /\ CrossedEdges(p, t) \subseteq 1..3
      <3>1. 1 \in 1..3 /\ 2 \in 1..3 /\ 3 \in 1..3
        OBVIOUS
      <3> HIDE DEF c1, c2, c3
      <3> QED BY <1>4, <2>1, <3>1 DEF CrossedEdges
    <2> HIDE DEF c1, c2, c3
    <2>3. Inside(p, t) <=> (Cardinality(CrossedEdges(p, t)) % 2 = 1)
      BY InsideIsOdd
    <2>4. (Cardinality(CrossedEdges(p, t)) % 2 = 1)
            <=> (((1 \in CrossedEdges(p, t)) # (2 \in CrossedEdges(p, t))) # (3 \in CrossedEdges(p, t)))
      BY <2>2, OddOfThree
    <2> QED BY <1>0, <2>2, <2>3, <2>4
  <1> HIDE DEF u1, u2, u3, t1, t2, t3
  <1>6. /\ (t1 > 0 /\ t2 > 0 /\ t3 > 0) \/ (t1 < 0 /\ t2 < 0 /\ t3 < 0) => ((c1 # c2) # c3)
        /\ around > 0 /\ (t1 < 0 \/ t2 < 0 \/ t3 < 0) => ~((c1 # c2) # c3)
        /\ around < 0 /\ (t1 > 0 \/ t2 > 0 \/ t3 > 0) => ~((c1 # c2) # c3)
    <2>1. CASE ((u1 > 0) # (u2 > 0)) /\ ((u1 > 0) # (u3 > 0))
      BY <1>2, <1>3, <2>1, TwoEdges
    <2>2. CASE ((u2 > 0) # (u3 > 0)) /\ ((u2 > 0) # (u1 > 0))
      <3>1. t3 * u2 + t1 * u3 + t2 * u1 = 0
        BY <1>2, <1>3
      <3> QED BY <1>2, <1>3, <2>2, <3>1, TwoEdges
    <2>3. CASE ((u3 > 0) # (u1 > 0)) /\ ((u3 > 0) # (u2 > 0))
      <3>1. t1 * u3 + t2 * u1 + t3 * u2 = 0
        BY <1>2, <1>3
      <3> QED BY <1>2, <1>3, <2>3, <3>1, TwoEdges
    <2>4. CASE ((u1 > 0) <=> (u2 > 0)) /\ ((u2 > 0) <=> (u3 > 0))
      <3>1. ~c1 /\ ~c2 /\ ~c3
        BY <2>4
      <3>2. ASSUME (t1 > 0 /\ t2 > 0 /\ t3 > 0) \/ (t1 < 0 /\ t2 < 0 /\ t3 < 0)
            PROVE  FALSE
        <4> DEFINE a == t2 * u1
                   b == t3 * u2
                   c == t1 * u3
        <4>1. /\ a \in Int /\ b \in Int /\ c \in Int /\ a + b + c = 0
              /\ a > 0 <=> (t2 > 0 /\ u1 > 0) \/ (t2 < 0 /\ u1 < 0)
              /\ a < 0 <=> (t2 > 0 /\ u1 < 0) \/ (t2 < 0 /\ u1 > 0)
              /\ b > 0 <=> (t3 > 0 /\ u2 > 0) \/ (t3 < 0 /\ u2 < 0)
              /\ b < 0 <=> (t3 > 0 /\ u2 < 0) \/ (t3 < 0 /\ u2 > 0)
              /\ c > 0 <=> (t1 > 0 /\ u3 > 0) \/ (t1 < 0 /\ u3 < 0)
              /\ c < 0 <=> (t1 > 0 /\ u3 < 0) \/ (t1 < 0 /\ u3 > 0)
          BY <1>2, <1>3, SignOfProduct
        <4> HIDE DEF a, b, c
        <4>2. u1 = 0 /\ u2 = 0
          BY <1>2, <1>3, <2>4, <3>2, <4>1
        <4> QED BY <1>3, <3>2, <4>2
      <3> QED BY <3>1, <3>2
    <2> QED BY <2>1, <2>2, <2>3, <2>4
  <1>7. ASSUME NEW around0 \in Int, around0 # 0, NEW x \in Int
        PROVE  /\ x * around0 > 0 => (x > 0 /\ around0 > 0) \/ (x < 0 /\ around0 < 0)
               /\ x * around0 < 0 => (x > 0 /\ around0 < 0) \/ (x < 0 /\ around0 > 0)
    BY <1>7, SignOfProduct
  <1> HIDE DEF c1, c2, c3
  <1>8. ASSUME around # 0
        PROVE  /\ (\A x \in {t1, t2, t3} : x * around > 0) => Inside(p, t)
               /\ (\E x \in {t1, t2, t3} : x * around < 0) => ~Inside(p, t)
    <2>1. around \in Int
      BY <1>3
    <2>2. /\ t1 * around > 0 => (t1 > 0 /\ around > 0) \/ (t1 < 0 /\ around < 0)
          /\ t2 * around > 0 => (t2 > 0 /\ around > 0) \/ (t2 < 0 /\ around < 0)
          /\ t3 * around > 0 => (t3 > 0 /\ around > 0) \/ (t3 < 0 /\ around < 0)
          /\ t1 * around < 0 => (t1 > 0 /\ around < 0) \/ (t1 < 0 /\ around > 0)
          /\ t2 * around < 0 => (t2 > 0 /\ around < 0) \/ (t2 < 0 /\ around > 0)
          /\ t3 * around < 0 => (t3 > 0 /\ around < 0) \/ (t3 < 0 /\ around > 0)
      <3> HIDE DEF around
      <3> QED BY <1>3, <1>7, <1>8, <2>1
    <2> HIDE DEF around
    <2>3. (\A x \in {t1, t2, t3} : x * around > 0) => Inside(p, t)
      <3>1. (\A x \in {t1, t2, t3} : x * around > 0)
               => t1 * around > 0 /\ t2 * around > 0 /\ t3 * around > 0
        OBVIOUS
      <3> QED BY <1>0, <1>3, <1>5, <1>6, <2>1, <2>2, <3>1
    <2>4. (\E x \in {t1, t2, t3} : x * around < 0) => ~Inside(p, t)
      <3>1. (\E x \in {t1, t2, t3} : x * around < 0)
               => t1 * around < 0 \/ t2 * around < 0 \/ t3 * around < 0
        OBVIOUS
      <3> QED BY <1>0, <1>3, <1>5, <1>6, <2>1, <2>2, <3>1
    <2> QED BY <2>3, <2>4
  <1> HIDE DEF around
  <1> QED BY <1>3, <1>8 DEF TriangleIsExact, t1, t2, t3

\* The sizes of two parts that have nothing in common.
LEMMA PartsAddUp ==
    ASSUME NEW A, NEW B, IsFiniteSet(A), IsFiniteSet(B), A \cap B = {}
    PROVE  IsFiniteSet(A \cup B) /\ Cardinality(A \cup B) = Cardinality(A) + Cardinality(B)
  <1>1. /\ IsFiniteSet(A \cup B)
        /\ Cardinality(A \cup B) = Cardinality(A) + Cardinality(B) - Cardinality(A \cap B)
    BY FS_Union
  <1>2. Cardinality(A \cap B) = 0 /\ Cardinality(A) \in Nat /\ Cardinality(B) \in Nat
    BY FS_EmptySet, FS_CardinalityType
  <1> QED BY <1>1, <1>2

\* The places of some numbers, counted from another beginning, are as many.
LEMMA ShiftedCount ==
    ASSUME NEW S, IsFiniteSet(S), S \subseteq Int, NEW d \in Int
    PROVE  /\ IsFiniteSet({i - d : i \in S})
           /\ Cardinality({i - d : i \in S}) = Cardinality(S)
  <1> DEFINE T == {i - d : i \in S}
             f == [i \in S |-> i - d]
  <1>1. f \in Bijection(S, T)
    <2>1. f \in [S -> T] /\ \A i, j \in S : f[i] = f[j] => i = j
      OBVIOUS
    <2>2. \A y \in T : \E i \in S : f[i] = y
      OBVIOUS
    <2> HIDE DEF T, f
    <2> QED BY <2>1, <2>2 DEF Bijection, Injection, Surjection, IsInjective
  <1>2. ExistsBijection(S, T)
    <2> HIDE DEF f
    <2> QED BY <1>1 DEF ExistsBijection
  <1> HIDE DEF T
  <1>3. IsFiniteSet(T) /\ Cardinality(T) = Cardinality(S)
    BY <1>2, FS_Bijection
  <1> QED BY <1>3 DEF T

\* A part of a sequence, and a sequence with one more member before it.
LEMMA PartOf ==
    ASSUME NEW A, NEW s \in Seq(A), NEW m \in 1..Len(s), NEW q \in m..Len(s)
    PROVE  /\ SubSeq(s, m, q) \in Seq(A) /\ Len(SubSeq(s, m, q)) = q - m + 1
           /\ \A i \in 1..q - m + 1 : SubSeq(s, m, q)[i] = s[m + i - 1]
  <1>1. m \in Int /\ q \in Int /\ m <= q
    OBVIOUS
  <1>2. \A i \in m..q : s[i] \in A
    <2>1. \A i \in m..q : i \in 1..Len(s)
      OBVIOUS
    <2> QED BY <2>1, CornerOf
  <1> QED BY <1>1, <1>2, SubSeqProperties

\* A sequence with a member before the others.
LEMMA BeforeOthers ==
    ASSUME NEW A, NEW s \in Seq(A), NEW x \in A
    PROVE  /\ <<x>> \o s \in Seq(A) /\ Len(<<x>> \o s) = Len(s) + 1
           /\ (<<x>> \o s)[1] = x
           /\ \A i \in 2..Len(s) + 1 : (<<x>> \o s)[i] = s[i - 1]
  <1>1. <<x>> \in Seq(A) /\ Len(<<x>>) = 1 /\ <<x>>[1] = x /\ Len(s) \in Nat
    OBVIOUS
  <1> DEFINE first == <<x>>
  <1> HIDE DEF first
  <1>2. /\ first \o s \in Seq(A) /\ Len(first \o s) = 1 + Len(s)
        /\ \A i \in 1..1 + Len(s) : (first \o s)[i] = IF i <= 1 THEN first[i] ELSE s[i - 1]
    <2>1. first \in Seq(A) /\ Len(first) = 1
      BY <1>1 DEF first
    <2>2. /\ first \o s \in Seq(A) /\ Len(first \o s) = Len(first) + Len(s)
          /\ \A i \in 1..Len(first) + Len(s) :
                (first \o s)[i] = IF i <= Len(first) THEN first[i] ELSE s[i - Len(first)]
      BY <2>1, ConcatProperties
    <2> QED BY <2>1, <2>2
  <1>3. (first \o s)[1] = x /\ \A i \in 2..Len(s) + 1 : (first \o s)[i] = s[i - 1]
    <2>1. first[1] = x
      BY <1>1 DEF first
    <2> QED BY <1>1, <1>2, <2>1
  <1>4. Len(first \o s) = Len(s) + 1
    BY <1>1, <1>2
  <1> QED BY <1>2, <1>3, <1>4 DEF first

\* Twice a number makes no difference to what is odd.
LEMMA OddSum ==
    ASSUME NEW a \in Nat, NEW b \in Nat, NEW c \in Nat, NEW e \in Nat, a + b = e + 2 * c
    PROVE  (e % 2 = 1) <=> ((a % 2 = 1) # (b % 2 = 1))
  <1>1. \A x \in Nat : x % 2 = 0 \/ x % 2 = 1
    OBVIOUS
  <1>2. (a + b) % 2 = e % 2
    OBVIOUS
  <1>3. (a + b) % 2 = ((a % 2) + (b % 2)) % 2
    OBVIOUS
  <1>4. 0 % 2 = 0 /\ 1 % 2 = 1 /\ 2 % 2 = 0
    OBVIOUS
  <1> QED BY <1>1, <1>2, <1>3, <1>4

\* The same for the edges before, along and after a cut, which has the cut itself on both sides.
LEMMA OddCut ==
    \A f, m, l, c \in Nat :
        ((f + m + l) % 2 = 1) <=> (((c + m) % 2 = 1) # ((f + l + c) % 2 = 1))
  <1> TAKE f, m, l, c \in Nat
  <1> DEFINE a == c + m
             b == f + l + c
             e == f + m + l
  <1>1. a \in Nat /\ b \in Nat /\ e \in Nat /\ a + b = e + 2 * c
    OBVIOUS
  <1> HIDE DEF a, b, e
  <1>2. (e % 2 = 1) <=> ((a % 2 = 1) # (b % 2 = 1))
    BY <1>1, OddSum
  <1> QED BY <1>2 DEF a, b, e

\* A polygon that is cut in two along a line from its first corner: the cut counts in both parts.
LEMMA CutsExact ==
    ASSUME NEW polygon \in Seq(Int \X Int), NEW p \in Int \X Int
    PROVE  CutsAddUp(polygon, p)
  <1> SUFFICES ASSUME NEW k \in 3..Len(polygon) - 1
               PROVE  LET left  == SubSeq(polygon, 1, k)
                          right == <<polygon[1]>> \o SubSeq(polygon, k, Len(polygon))
                      IN Inside(p, polygon) <=> (Inside(p, left) # Inside(p, right))
    BY DEF CutsAddUp
  <1> DEFINE n == Len(polygon)
             left == SubSeq(polygon, 1, k)
             rest == SubSeq(polygon, k, n)
             right == <<polygon[1]>> \o rest
             E == CrossedEdges(p, polygon)
             First == E \cap {1}
             Mid == E \cap 2..k
             Last == E \cap k + 1..n
             Shifted == {i - (k - 2) : i \in Last}
             Cut == IF Crosses(p, polygon[1], polygon[k]) THEN {1} ELSE {}
             Second == IF Crosses(p, polygon[1], polygon[k]) THEN {2} ELSE {}
  <1>1. n \in Nat /\ k \in Nat /\ k >= 3 /\ k < n
    OBVIOUS
  <1>2. /\ left \in Seq(Int \X Int) /\ Len(left) = k
        /\ \A i \in 1..k : left[i] = polygon[i]
    <2>1. 1 \in 1..Len(polygon) /\ k \in 1..Len(polygon)
      BY <1>1
    <2>2. /\ left \in Seq(Int \X Int) /\ Len(left) = k - 1 + 1
          /\ \A i \in 1..k - 1 + 1 : left[i] = polygon[1 + i - 1]
      BY <2>1, PartOf
    <2> HIDE DEF left
    <2> QED BY <1>1, <2>2
  <1>3. /\ rest \in Seq(Int \X Int) /\ Len(rest) = n - k + 1
        /\ \A i \in 1..n - k + 1 : rest[i] = polygon[k + i - 1]
    <2>1. k \in 1..Len(polygon) /\ n \in k..Len(polygon)
      BY <1>1
    <2> QED BY <2>1, PartOf
  <1>4. /\ right \in Seq(Int \X Int) /\ Len(right) = n - k + 2
        /\ right[1] = polygon[1]
        /\ \A i \in 2..n - k + 2 : right[i] = polygon[k + i - 2]
    <2>1. polygon[1] \in Int \X Int
      BY <1>1, CornerOf
    <2>6. rest \in Seq(Int \X Int)
      BY <1>3
    <2> HIDE DEF rest
    <2>2. /\ right \in Seq(Int \X Int) /\ Len(right) = Len(rest) + 1
          /\ right[1] = polygon[1]
          /\ \A i \in 2..Len(rest) + 1 : right[i] = rest[i - 1]
      BY <2>1, <2>6, BeforeOthers
    <2>5. Len(rest) + 1 = n - k + 2
      <3> HIDE DEF n
      <3> QED BY <1>1, <1>3
    <2> HIDE DEF right, n
    <2>3. \A i \in 2..n - k + 2 : i - 1 \in 1..n - k + 1 /\ k + (i - 1) - 1 = k + i - 2
      BY <1>1
    <2>4. \A i \in 2..n - k + 2 : right[i] = polygon[k + i - 2]
      <3> TAKE i \in 2..n - k + 2
      <3>1. right[i] = rest[i - 1]
        BY <2>2, <2>5
      <3>2. rest[i - 1] = polygon[k + (i - 1) - 1]
        BY <1>3, <2>3
      <3> QED BY <2>3, <3>1, <3>2
    <2> QED BY <2>2, <2>4, <2>5
  <1> HIDE DEF left, rest, right, n
  <1>5. /\ E \subseteq 1..n /\ IsFiniteSet(E)
        /\ \A i \in 1..n : i \in E <=> EdgeCrossed(p, polygon, i)
    BY InsideIsOdd DEF CrossedEdges, n
  <1>6. /\ E = (First \cup Mid) \cup Last
        /\ First \cap Mid = {} /\ (First \cup Mid) \cap Last = {}
        /\ IsFiniteSet(First) /\ IsFiniteSet(Mid) /\ IsFiniteSet(Last)
    <2>1. E \subseteq {1} \cup (2..k) \cup (k + 1..n)
      <3> HIDE DEF E
      <3> QED BY <1>1, <1>5
    <2>2. \A i \in 2..k : i # 1 /\ i \notin k + 1..n
      BY <1>1
    <2>3. 1 \notin k + 1..n
      BY <1>1
    <2>4. IsFiniteSet(First) /\ IsFiniteSet(Mid) /\ IsFiniteSet(Last)
      <3> HIDE DEF E
      <3> QED BY <1>5, CountWithin
    <2> HIDE DEF E
    <2> QED BY <2>1, <2>2, <2>3, <2>4
  <1>20. /\ First \subseteq {1} /\ (1 \in First <=> 1 \in E)
         /\ Mid \subseteq 2..k /\ \A i \in 2..k : i \in Mid <=> i \in E
         /\ Last \subseteq k + 1..n /\ \A i \in k + 1..n : i \in Last <=> i \in E
         /\ Cut \subseteq {1} /\ (1 \in Cut <=> Crosses(p, polygon[1], polygon[k]))
         /\ Second \subseteq {2} /\ (2 \in Second <=> Crosses(p, polygon[1], polygon[k]))
    OBVIOUS
  <1>21. /\ IsFiniteSet(Cut) /\ IsFiniteSet(Second)
         /\ Cardinality(Cut) \in Nat /\ Cardinality(Second) = Cardinality(Cut)
    <2>1. /\ IsFiniteSet({1}) /\ IsFiniteSet({2}) /\ IsFiniteSet({})
          /\ Cardinality({1}) = 1 /\ Cardinality({2}) = 1 /\ Cardinality({}) = 0
      BY FS_Singleton, FS_EmptySet
    <2>2. CASE Crosses(p, polygon[1], polygon[k])
      <3>1. Cut = {1} /\ Second = {2}
        BY <2>2
      <3> QED BY <2>1, <3>1
    <2>3. CASE ~Crosses(p, polygon[1], polygon[k])
      <3>1. Cut = {} /\ Second = {}
        BY <2>3
      <3> QED BY <2>1, <3>1
    <2> QED BY <2>2, <2>3
  <1> HIDE DEF First, Mid, Last, Cut, Second, E
  <1>22. Shifted \subseteq 3..n - k + 2 /\ \A i \in 3..n - k + 2 : i \in Shifted <=> i + (k - 2) \in Last
    <2>1. ASSUME NEW x \in Last PROVE x - (k - 2) \in 3..n - k + 2
      <3>1. x \in k + 1..n
        BY <1>20
      <3> QED BY <1>1, <3>1
    <2>2. ASSUME NEW i \in 3..n - k + 2 PROVE i \in Shifted <=> i + (k - 2) \in Last
      <3>1. \A x \in Last : x \in Int /\ (x - (k - 2) = i <=> x = i + (k - 2))
        BY <1>1, <1>20
      <3>2. (i + (k - 2)) - (k - 2) = i
        BY <1>1
      <3> QED BY <3>1, <3>2
    <2> QED BY <2>1, <2>2
  <1>23. 1 \notin 2..k /\ 1 \notin 3..n - k + 2 /\ 2 \notin 3..n - k + 2
    OBVIOUS
  <1>7. CrossedEdges(p, left) = Cut \cup Mid
    <2>1. /\ CrossedEdges(p, left) \subseteq 1..k
          /\ \A i \in 1..k : i \in CrossedEdges(p, left)
                            <=> Crosses(p, left[i], left[IF i = 1 THEN k ELSE i - 1])
      BY <1>2 DEF CrossedEdges, EdgeCrossed
    <2>2. 1 \in CrossedEdges(p, left) <=> 1 \in Cut
      <3>1. 1 \in 1..k /\ k \in 1..k
        BY <1>1
      <3>2. 1 \in CrossedEdges(p, left) <=> Crosses(p, left[1], left[k])
        BY <2>1, <3>1
      <3> QED BY <1>2, <1>20, <3>1, <3>2
    <2>3. ASSUME NEW i \in 2..k PROVE i \in CrossedEdges(p, left) <=> i \in Mid
      <3>1. i \in 1..k /\ i # 1 /\ i - 1 \in 1..k /\ i \in 1..n
        BY <1>1
      <3>2. i \in CrossedEdges(p, left) <=> Crosses(p, polygon[i], polygon[i - 1])
        BY <1>2, <2>1, <3>1
      <3> QED BY <1>5, <1>20, <3>1, <3>2 DEF EdgeCrossed
    <2>4. 1..k \subseteq {1} \cup (2..k)
      BY <1>1
    <2> HIDE DEF CrossedEdges
    <2> QED BY <1>20, <1>23, <2>1, <2>2, <2>3, <2>4
  <1>8. CrossedEdges(p, right) = (First \cup Shifted) \cup Second
    <2>1. /\ CrossedEdges(p, right) \subseteq 1..n - k + 2
          /\ \A i \in 1..n - k + 2 : i \in CrossedEdges(p, right)
                            <=> Crosses(p, right[i], right[IF i = 1 THEN n - k + 2 ELSE i - 1])
      BY <1>4 DEF CrossedEdges, EdgeCrossed
    <2>2. 1 \in CrossedEdges(p, right) <=> 1 \in First
      <3>1. 1 \in 1..n - k + 2 /\ n - k + 2 \in 2..n - k + 2 /\ k + (n - k + 2) - 2 = n /\ 1 \in 1..n
        BY <1>1
      <3>2. right[n - k + 2] = polygon[n]
        BY <1>4, <3>1
      <3>3. 1 \in CrossedEdges(p, right) <=> Crosses(p, polygon[1], polygon[n])
        BY <1>4, <2>1, <3>1, <3>2
      <3> QED BY <1>5, <1>20, <3>1, <3>3 DEF EdgeCrossed, n
    <2>3. 2 \in CrossedEdges(p, right) <=> 2 \in Second
      <3>1. 2 \in 1..n - k + 2 /\ 2 \in 2..n - k + 2 /\ 2 # 1 /\ 2 - 1 = 1 /\ k + 2 - 2 = k
        BY <1>1
      <3>2. right[2] = polygon[k]
        BY <1>4, <3>1
      <3>3. 2 \in CrossedEdges(p, right) <=> Crosses(p, polygon[k], polygon[1])
        <4>1. 2 \in CrossedEdges(p, right) <=> Crosses(p, right[2], right[1])
          BY <2>1, <3>1
        <4> QED BY <1>4, <3>2, <4>1
      <3>4. Crosses(p, polygon[k], polygon[1]) <=> Crosses(p, polygon[1], polygon[k])
        <4>1. 1 \in 1..Len(polygon) /\ k \in 1..Len(polygon)
          BY <1>1
        <4> QED BY <4>1, CornerOf, CrossingIsTurn
      <3> QED BY <1>20, <3>3, <3>4
    <2>4. ASSUME NEW i \in 3..n - k + 2 PROVE i \in CrossedEdges(p, right) <=> i \in Shifted
      <3> DEFINE j == i + (k - 2)
      <3>1. /\ i \in 1..n - k + 2 /\ i # 1 /\ i \in 2..n - k + 2 /\ i - 1 \in 2..n - k + 2
            /\ k + i - 2 = j /\ k + (i - 1) - 2 = j - 1 /\ j \in k + 1..n /\ j \in 1..n /\ j # 1
        BY <1>1
      <3>2. right[i] = polygon[j] /\ right[i - 1] = polygon[j - 1]
        BY <1>4, <3>1
      <3>3. i \in CrossedEdges(p, right) <=> Crosses(p, polygon[j], polygon[j - 1])
        <4>1. i \in CrossedEdges(p, right) <=> Crosses(p, right[i], right[i - 1])
          BY <2>1, <3>1
        <4> QED BY <3>2, <4>1
      <3> HIDE DEF Shifted
      <3>4. i \in Shifted <=> j \in E
        BY <1>20, <1>22, <3>1
      <3>5. j \in E <=> Crosses(p, polygon[j], polygon[j - 1])
        <4> HIDE DEF j
        <4> QED BY <1>5, <3>1 DEF EdgeCrossed
      <3> QED BY <3>3, <3>4, <3>5
    <2>5. 1..n - k + 2 \subseteq {1} \cup {2} \cup (3..n - k + 2)
      BY <1>1
    <2> HIDE DEF Shifted
    <2> QED BY <1>20, <1>22, <1>23, <2>1, <2>2, <2>3, <2>4, <2>5
  <1>10. /\ IsFiniteSet(Shifted) /\ Cardinality(Shifted) = Cardinality(Last)
         /\ Cut \cap Mid = {}
         /\ First \cap Shifted = {} /\ (First \cup Shifted) \cap Second = {}
    <2>1. Last \subseteq Int /\ k - 2 \in Int
      BY <1>1, <1>20
    <2>4. IsFiniteSet(Shifted) /\ Cardinality(Shifted) = Cardinality(Last)
      BY <1>6, <2>1, ShiftedCount
    <2> HIDE DEF Shifted
    <2>5. Cut \cap Mid = {}
      BY <1>20, <1>23
    <2>6. First \cap Shifted = {}
      BY <1>20, <1>22, <1>23
    <2>7. First \cap Second = {} /\ Shifted \cap Second = {}
      <3>1. 1 # 2
        OBVIOUS
      <3> QED BY <1>20, <1>22, <1>23, <3>1
    <2>8. (First \cup Shifted) \cap Second = {}
      BY <2>7
    <2> QED BY <2>4, <2>5, <2>6, <2>8
  <1> HIDE DEF Shifted
  <1> DEFINE f == Cardinality(First)
             m == Cardinality(Mid)
             l == Cardinality(Last)
             c == Cardinality(Cut)
  <1>11. f \in Nat /\ m \in Nat /\ l \in Nat /\ c \in Nat
    BY <1>6, <1>21, FS_CardinalityType
  <1>12. Cardinality(E) = f + m + l
    <2>1. IsFiniteSet(First \cup Mid) /\ Cardinality(First \cup Mid) = f + m
      BY <1>6, PartsAddUp
    <2>2. Cardinality((First \cup Mid) \cup Last) = Cardinality(First \cup Mid) + l
      BY <1>6, <2>1, PartsAddUp
    <2> QED BY <1>6, <2>1, <2>2
  <1>13. Cardinality(CrossedEdges(p, left)) = c + m
    <2>1. Cardinality(Cut \cup Mid) = c + m
      BY <1>6, <1>10, <1>21, PartsAddUp
    <2> QED BY <1>7, <2>1
  <1>14. Cardinality(CrossedEdges(p, right)) = f + l + c
    <2>1. IsFiniteSet(First \cup Shifted) /\ Cardinality(First \cup Shifted) = f + Cardinality(Shifted)
      BY <1>6, <1>10, PartsAddUp
    <2>2. Cardinality((First \cup Shifted) \cup Second) = Cardinality(First \cup Shifted) + Cardinality(Second)
      BY <1>10, <1>21, <2>1, PartsAddUp
    <2> QED BY <1>8, <1>10, <1>21, <2>1, <2>2
  <1> HIDE DEF f, m, l, c
  <1>15. ((f + m + l) % 2 = 1) <=> (((c + m) % 2 = 1) # ((f + l + c) % 2 = 1))
    <2>1. f \in Nat /\ m \in Nat /\ l \in Nat /\ c \in Nat
      BY <1>11
    <2>3. \A x, y, z \in Nat : ((f + x + y) % 2 = 1) <=> (((z + x) % 2 = 1) # ((f + y + z) % 2 = 1))
      BY <2>1, OddCut
    <2>4. \A y, z \in Nat : ((f + m + y) % 2 = 1) <=> (((z + m) % 2 = 1) # ((f + y + z) % 2 = 1))
      BY <2>1, <2>3
    <2>5. \A z \in Nat : ((f + m + l) % 2 = 1) <=> (((z + m) % 2 = 1) # ((f + l + z) % 2 = 1))
      BY <2>1, <2>4
    <2> QED BY <2>1, <2>5
  <1>16. /\ Inside(p, polygon) <=> (Cardinality(E) % 2 = 1)
         /\ Inside(p, left) <=> (Cardinality(CrossedEdges(p, left)) % 2 = 1)
         /\ Inside(p, right) <=> (Cardinality(CrossedEdges(p, right)) % 2 = 1)
    BY <1>2, <1>4, InsideIsOdd DEF E
  <1>17. Inside(p, polygon) <=> (Inside(p, left) # Inside(p, right))
    <2>1. Inside(p, left) \in BOOLEAN /\ Inside(p, right) \in BOOLEAN /\ Inside(p, polygon) \in BOOLEAN
      BY DEF Inside
    <2> QED BY <1>12, <1>13, <1>14, <1>15, <1>16, <2>1
  <1> QED BY <1>17 DEF left, right, rest, n

-----------------------------------------------------------------------------
(* Zones: the invariant *)

ZoneRow == [polygon: Polygons, fee: ZoneFees \cup {NoFee}, active: BOOLEAN]
ZonesInv == zones \in Seq(ZoneRow)

\* No zone is drawn at first.
LEMMA ZonesStart == ZonesInit => ZonesInv
  BY DEF ZonesInit, ZonesInv

\* A step of the zones changes one row, or adds one.
LEMMA ZonesStep == ZonesInv /\ ZonesNext => ZonesInv'
  <1> SUFFICES ASSUME ZonesInv, ZonesNext PROVE ZonesInv'
    OBVIOUS
  <1>1. ASSUME NEW polygon \in Polygons, NEW fee \in ZoneFees \cup {NoFee}, CreateZone(polygon, fee)
        PROVE  ZonesInv'
    <2>1. [polygon |-> polygon, fee |-> fee, active |-> TRUE] \in ZoneRow
      BY DEF ZoneRow
    <2> QED BY <1>1, <2>1 DEF CreateZone, ZonesInv
  <1>2. ASSUME NEW i \in DOMAIN zones, NEW row \in ZoneRow, zones' = [zones EXCEPT ![i] = row]
        PROVE  ZonesInv'
    BY <1>2 DEF ZonesInv
  <1>3. ASSUME NEW i \in DOMAIN zones
        PROVE  zones[i] \in ZoneRow /\ zones[i] = [polygon |-> zones[i].polygon, fee |-> zones[i].fee,
                                                   active |-> zones[i].active]
    <2>1. zones[i] \in ZoneRow
      BY <1>3 DEF ZonesInv
    <2> QED BY <2>1 DEF ZoneRow
  <1>4. ASSUME NEW i \in DOMAIN zones, NEW polygon \in Polygons, NEW fee \in ZoneFees \cup {NoFee},
               NEW active \in BOOLEAN, UpdateZone(i, polygon, fee, active)
        PROVE  ZonesInv'
    <2> DEFINE row == [zones[i] EXCEPT !.polygon = polygon, !.fee = IF fee = NoFee THEN @ ELSE fee,
                                       !.active = active]
    <2>1. row \in ZoneRow
      BY <1>3 DEF ZoneRow
    <2>2. zones' = [zones EXCEPT ![i] = row]
      BY <1>4 DEF UpdateZone, ZonesInv
    <2> QED BY <1>2, <2>1, <2>2
  <1>5. ASSUME NEW i \in DOMAIN zones, DeleteZone(i) PROVE ZonesInv'
    <2> DEFINE row == [zones[i] EXCEPT !.active = FALSE]
    <2>1. row \in ZoneRow
      BY <1>3 DEF ZoneRow
    <2>2. zones' = [zones EXCEPT ![i] = row]
      BY <1>5 DEF DeleteZone, ZonesInv
    <2> QED BY <1>2, <2>1, <2>2
  <1> QED BY <1>1, <1>4, <1>5 DEF ZonesNext

\* The zone that is found is the first active one the place is in.
LEMMA ZonesAreOK == ZonesInv => ZonesOK
  <1> SUFFICES ASSUME ZonesInv, NEW p \in Places
               PROVE  /\ \A i \in DOMAIN zones :
                            /\ Len(zones[i].polygon) = 3 => TriangleIsExact(zones[i].polygon, p)
                            /\ CutsAddUp(zones[i].polygon, p)
                      /\ Resolved(p) # 0 =>
                            /\ zones[Resolved(p)].active
                            /\ \A i \in 1..Resolved(p) - 1 : ~zones[i].active \/ ~Inside(p, zones[i].polygon)
    BY DEF ZonesOK
  <1>1. p \in Int \X Int
    BY PolygonsAssumption
  <1>2. ASSUME NEW i \in DOMAIN zones
        PROVE  zones[i].polygon \in Seq(Int \X Int) /\ zones[i].active \in BOOLEAN
    <2>1. zones[i] \in ZoneRow
      BY <1>2 DEF ZonesInv
    <2>2. zones[i].polygon \in Polygons /\ zones[i].active \in BOOLEAN
      BY <2>1 DEF ZoneRow
    <2> QED BY <2>2, PolygonsAssumption
  <1>3. \A i \in DOMAIN zones : /\ Len(zones[i].polygon) = 3 => TriangleIsExact(zones[i].polygon, p)
                                /\ CutsAddUp(zones[i].polygon, p)
    BY <1>1, <1>2, TriangleExact, CutsExact
  <1>4. ASSUME Resolved(p) # 0
        PROVE  /\ zones[Resolved(p)].active
               /\ \A i \in 1..Resolved(p) - 1 : ~zones[i].active \/ ~Inside(p, zones[i].polygon)
    <2>1. DOMAIN zones = 1..Len(zones) /\ Len(zones) \in Nat
      BY DEF ZonesInv
    <2>2. ActiveAt(p) # {} /\ ActiveAt(p) \in SUBSET Nat
      BY <1>4, <2>1 DEF Resolved, ActiveAt
    <2>3. \E i \in ActiveAt(p) : \A j \in ActiveAt(p) : i <= j
      BY <2>2, Least
    <2>4. Resolved(p) \in ActiveAt(p) /\ \A j \in ActiveAt(p) : Resolved(p) <= j
      BY <2>2, <2>3 DEF Resolved
    <2>5. Resolved(p) \in DOMAIN zones /\ zones[Resolved(p)].active
      BY <2>4 DEF ActiveAt
    <2>6. ASSUME NEW i \in 1..Resolved(p) - 1 PROVE i \notin ActiveAt(p) /\ i \in DOMAIN zones
      BY <2>1, <2>4, <2>5
    <2> QED BY <2>5, <2>6 DEF ActiveAt
  <1> QED BY <1>3, <1>4

-----------------------------------------------------------------------------
(* The fleet *)

FleetInv == TrackersInv /\ ZonesInv

\* The trackers and the zones of delivery_service under every interleaving of the trackers'
\* messages, the staff's requests and the edits of the zones: types, no point without its
\* tracker, none proved with a secret that had been replaced before it came, the limits of each
\* tracker, the ceiling on those that register themselves, one tracker on a vehicle; a zone is
\* found by a geometry that is exact on triangles and adds up over cuts (FleetOK: ingest_point,
\* update_device, resolve, point_in_polygon).
THEOREM FleetStaysOK == FleetSpec => []FleetOK
  <1>1. FleetInit => FleetInv
    BY TrackersStart, ZonesStart DEF FleetInit, FleetInv
  <1>2. FleetInv /\ [FleetNext]_fleetVars => FleetInv'
    <2> SUFFICES ASSUME FleetInv, [FleetNext]_fleetVars PROVE FleetInv'
      OBVIOUS
    <2>1. ASSUME UNCHANGED zones PROVE ZonesInv'
      BY <2>1 DEF FleetInv, ZonesInv
    <2>2. CASE TrackersNext /\ UNCHANGED zones
      BY <2>1, <2>2, TrackersStep DEF FleetInv
    <2>3. CASE ZonesNext /\ UNCHANGED gpsVars
      BY <2>3, ZonesStep, TrackersIdle DEF FleetInv
    <2>4. CASE UNCHANGED fleetVars
      <3>1. UNCHANGED gpsVars /\ UNCHANGED zones
        BY <2>4 DEF fleetVars
      <3> QED BY <2>1, <3>1, TrackersIdle DEF FleetInv
    <2> QED BY <2>2, <2>3, <2>4 DEF FleetNext
  <1>3. FleetInv => FleetOK
    BY TrackersAreOK, ZonesAreOK DEF FleetInv, FleetOK
  <1> QED BY <1>1, <1>2, <1>3, PTL DEF FleetSpec
=============================================================================
