------------------------------ MODULE IdentityProofs ------------------------------
(***************************************************************************)
(* Proofs about the parts of MCIdentity: the access tokens for any roles   *)
(* and lifetimes, the throttle of the logins, the one-time codes, the      *)
(* rotation of the refresh tokens, and the people, for any number of       *)
(* requests, devices, tokens and users.                                    *)
(***************************************************************************)
EXTENDS MCIdentity, FiniteSums

-----------------------------------------------------------------------------
(* Access tokens: the longest lifetime *)

\* The mark of a revocation lives as long as a token of any role.
LEMMA MarkOutlives == MarkLife \in Nat /\ \A r \in Roles : MarkLife >= Lifetime[r]
  <1> DEFINE S == {Lifetime[r] : r \in Roles}
  <1>1. S \in SUBSET Nat /\ S # {}
    BY AccessAssumption
  <1>2. IsFiniteSet(S)
    <2> DEFINE f == [r \in Roles |-> Lifetime[r]]
    <2>1. f \in Surjection(Roles, S)
      BY DEF Surjection
    <2> HIDE DEF f, S
    <2> QED BY <2>1, FS_Surjection, AccessAssumption
  <1>3. \E n \in S : \A m \in S : n >= m
    <2> HIDE DEF S
    <2> QED BY <1>1, <1>2, Greatest
  <1>4. \E n \in S : \A r \in Roles : n >= Lifetime[r]
    BY <1>3
  <1>5. MarkLife = CHOOSE n \in S : \A r \in Roles : n >= Lifetime[r]
    BY DEF MarkLife
  <1>6. MarkLife \in S /\ \A r \in Roles : MarkLife >= Lifetime[r]
    <2> HIDE DEF S
    <2> QED BY <1>4, <1>5
  <1> QED BY <1>1, <1>6

-----------------------------------------------------------------------------
(* Access tokens: the inductive invariant *)

Issued(t) == t.iat \in Nat /\ t.iat <= second /\ t.role \in Roles

\* A token that was cut off is older than the mark, and the mark outlives it.
CutByMark(t) ==
    /\ mark # NoMark /\ t.iat < mark.at
    /\ t.iat + Lifetime[t.role] <= mark.ends

AccessInv ==
    /\ second \in Nat /\ role \in Roles
    /\ mark = NoMark \/ mark \in [at: 0..second, ends: Nat]
    /\ \A t \in tokens : Issued(t)
    /\ refused \subseteq tokens
    /\ \A t \in refused : CutByMark(t)

\* Before the first step nothing is issued and nothing revoked.
LEMMA AccessStart == AccessInit => AccessInv
  BY AccessAssumption DEF AccessInit, AccessInv

\* A revocation that writes its mark writes a later one than the mark that was there.
LEMMA RevokedKeeps ==
    ASSUME AccessInv, NEW m \in {mark, NewMark}, Revoked(m),
           UNCHANGED <<second, tokens>>, role' \in Roles
    PROVE  AccessInv'
  <1>1. CASE m = mark
    <2>1. UNCHANGED <<mark, refused>>
      BY <1>1 DEF Revoked
    <2> QED BY <2>1 DEF AccessInv, Issued, CutByMark
  <1>2. CASE m = NewMark
    <2>1. mark' = [at |-> second, ends |-> second + MarkLife]
      BY <1>2 DEF Revoked, NewMark
    <2>2. mark' \in [at: 0..second, ends: Nat] /\ mark' # NoMark
      <3>1. mark' \in [at: 0..second, ends: Nat]
        BY <2>1, MarkOutlives DEF AccessInv
      <3>2. mark'.at # NoMark.at
        BY <2>1 DEF AccessInv, NoMark
      <3> QED BY <3>1, <3>2
    <2>3. \A t \in refused : t.iat < second
      BY DEF AccessInv, CutByMark, Issued
    <2>4. ASSUME NEW t \in refused' PROVE CutByMark(t)'
      <3>1. t \in tokens /\ Issued(t) /\ t.iat < second
        BY <1>2, <2>3 DEF Revoked, NewMark, AccessInv
      <3>2. Lifetime[t.role] \in Nat /\ Lifetime[t.role] <= MarkLife /\ MarkLife \in Nat
        BY <3>1, MarkOutlives, AccessAssumption DEF Issued
      <3>3. t.iat + Lifetime[t.role] <= second + MarkLife
        BY <3>1, <3>2 DEF Issued, AccessInv
      <3> QED BY <2>1, <2>2, <3>1, <3>3 DEF CutByMark
    <2>5. refused' \subseteq tokens
      BY DEF Revoked, AccessInv
    <2> QED BY <2>2, <2>4, <2>5 DEF AccessInv, Issued
  <1> QED BY <1>1, <1>2

\* Every step keeps the invariant.
LEMMA AccessStep == AccessInv /\ [AccessNext]_accessVars => AccessInv'
  <1> SUFFICES ASSUME AccessInv, [AccessNext]_accessVars PROVE AccessInv'
    OBVIOUS
  <1>1. CASE IssueAccess
    <2>1. Issued([iat |-> second, role |-> role])
      BY DEF Issued, AccessInv
    <2> QED BY <1>1, <2>1 DEF IssueAccess, AccessInv, Issued, CutByMark
  <1>2. CASE DisableMark
    <2>1. PICK m \in {mark, NewMark} : Revoked(m)
      BY <1>2 DEF DisableMark
    <2> QED BY <1>2, <2>1, RevokedKeeps DEF DisableMark, AccessInv
  <1>3. CASE DisableCommit \/ Enable \/ UNCHANGED accessVars
    BY <1>3 DEF DisableCommit, Enable, accessVars, AccessInv, Issued, CutByMark
  <1>4. CASE SecondPasses
    <2>1. second' = second + 1 /\ UNCHANGED <<role, mark, tokens, refused>>
      BY <1>4 DEF SecondPasses
    <2>2. mark = NoMark \/ mark \in [at: 0..second', ends: Nat]
      BY <2>1 DEF AccessInv
    <2>3. \A t \in tokens : t.iat <= second'
      BY <2>1 DEF AccessInv, Issued
    <2> QED BY <2>1, <2>2, <2>3 DEF AccessInv, Issued, CutByMark
  <1>5. ASSUME NEW newRole \in Roles, RevokeTokens(newRole) PROVE AccessInv'
    <2>1. PICK m \in {mark, NewMark} : Revoked(m)
      BY <1>5 DEF RevokeTokens
    <2> QED BY <1>5, <2>1, RevokedKeeps DEF RevokeTokens
  <1> QED BY <1>1, <1>2, <1>3, <1>4, <1>5 DEF AccessNext

-----------------------------------------------------------------------------
\* What was cut off is behind the mark, and expires with it.
LEMMA AccessHolds == AccessInv => CutOffStaysCutOff
  <1> SUFFICES ASSUME AccessInv, NEW t \in refused, Decodes(t) PROVE IsTokenRevoked(t)
    BY DEF CutOffStaysCutOff, AcceptedByAuth, AcceptedElsewhere
  <1>1. CutByMark(t) /\ Issued(t) /\ second \in Nat
    BY DEF AccessInv
  <1>2. mark.ends \in Nat /\ Lifetime[t.role] \in Nat
    BY <1>1, AccessAssumption DEF AccessInv, CutByMark, Issued
  <1>3. second < mark.ends
    BY <1>1, <1>2 DEF Decodes, CutByMark, Issued
  <1> QED BY <1>1, <1>3 DEF IsTokenRevoked, CutByMark

\* A token that a logout, a change of the password or the role, or a deactivation has
\* cut off is accepted by no service ever after: when its mark is gone it has expired.
THEOREM CutOffForGood == AccessSpec => []CutOffStaysCutOff
  BY AccessStart, AccessStep, AccessHolds, PTL DEF AccessSpec
-----------------------------------------------------------------------------
(* Logins by password: the inductive invariant *)

LoginSteps == {"idle", "compare", "expire", "block"}

ThrottleTyped ==
    /\ failures \in Nat /\ ends \in BOOLEAN /\ block \in 0..Len(Thresholds)
    /\ open \in Nat /\ lost \in Nat
    /\ logins \in [Logins -> [at: LoginSteps, n: Nat]]

\* Logins that are about to set a block.
Blocking == {l \in Logins : logins[l].at \in {"expire", "block"} /\ logins[l].n >= Thresholds[1]}

\* A failure since the last block is below the first threshold, or its login is about
\* to set a block, or was lost.
FailuresCounted ==
    /\ open <= failures + Cardinality(Blocking) + lost
    /\ open <= Thresholds[1] - 1 + Cardinality(Blocking) + lost

ThrottleInv == ThrottleTyped /\ FailuresCounted /\ CounterEnds

\* The first threshold is the lowest, and a login that has counted so many blocks.
LEMMA FirstThreshold ==
    /\ Thresholds[1] \in Nat \ {0}
    /\ \A n \in Nat : BlockFor(n) \in 0..Len(Thresholds) /\ (BlockFor(n) = 0 <=> n < Thresholds[1])
  <1>1. /\ Len(Thresholds) \in Nat /\ 1 \in DOMAIN Thresholds
        /\ DOMAIN Thresholds = 1..Len(Thresholds)
        /\ \A i \in DOMAIN Thresholds : Thresholds[i] \in Nat \ {0}
    BY ThrottleAssumption
  <1>2. \A i \in DOMAIN Thresholds : Thresholds[1] <= Thresholds[i]
    BY <1>1, ThrottleAssumption
  <1>3. ASSUME NEW n \in Nat
        PROVE  BlockFor(n) \in 0..Len(Thresholds) /\ (BlockFor(n) = 0 <=> n < Thresholds[1])
    <2> DEFINE crossed == {i \in DOMAIN Thresholds : n >= Thresholds[i]}
    <2>1. BlockFor(n) = IF crossed = {} THEN 0 ELSE Max(crossed)
      BY DEF BlockFor
    <2>2. crossed = {} <=> n < Thresholds[1]
      BY <1>1, <1>2
    <2>3. ASSUME crossed # {} PROVE Max(crossed) \in crossed
      <3>0. crossed \subseteq 1..Len(Thresholds)
        BY <1>1
      <3>1. crossed \in SUBSET Nat /\ IsFiniteSet(crossed)
        <4>1. IsFiniteSet(1..Len(Thresholds))
          BY <1>1, FS_Interval
        <4>2. 1..Len(Thresholds) \in SUBSET Nat
          BY <1>1
        <4> HIDE DEF crossed
        <4>3. crossed \in SUBSET (1..Len(Thresholds))
          BY <3>0
        <4>4. IsFiniteSet(crossed)
          BY <4>1, <4>3, FS_Subset
        <4> QED BY <4>2, <4>3, <4>4
      <3>2. Max(crossed) = CHOOSE x \in crossed : \A y \in crossed : x >= y
        BY DEF Max
      <3> HIDE DEF crossed
      <3>3. \E x \in crossed : \A y \in crossed : x >= y
        BY <2>3, <3>1, Greatest
      <3> QED BY <3>2, <3>3
    <2> QED BY <1>1, <2>1, <2>2, <2>3
  <1> QED BY <1>1, <1>3

\* Before the first login no attempt is counted.
LEMMA ThrottleStart == ThrottleInit => ThrottleInv
  <1> SUFFICES ASSUME ThrottleInit PROVE ThrottleInv
    OBVIOUS
  <1>1. ThrottleTyped
    <2>1. 0 \in 0..Len(Thresholds)
      BY FirstThreshold
    <2>2. logins \in [Logins -> [at: LoginSteps, n: Nat]]
      BY DEF ThrottleInit, LoginSteps, LoginAt
    <2>3. ends \in BOOLEAN
      BY Zenon DEF ThrottleInit
    <2>4. failures \in Nat /\ block \in 0..Len(Thresholds) /\ open \in Nat /\ lost \in Nat
      BY <2>1 DEF ThrottleInit
    <2> QED BY <2>2, <2>3, <2>4 DEF ThrottleTyped
  <1>2. Cardinality(Blocking) = 0
    <2>1. Blocking = {}
      BY DEF Blocking, ThrottleInit, LoginAt
    <2> QED BY <2>1, FS_EmptySet
  <1>3. FailuresCounted
    BY <1>2, FirstThreshold DEF FailuresCounted, ThrottleInit
  <1> QED BY <1>1, <1>3 DEF ThrottleInv, CounterEnds, ThrottleInit

\* The logins that are about to block, after one login has moved.
LEMMA BlockingAfter ==
    ASSUME ThrottleTyped, NEW l \in Logins, NEW step, NEW n \in Nat, Moves(l, step, n)
    PROVE  Blocking' = IF step \in {"expire", "block"} /\ n >= Thresholds[1]
                       THEN Blocking \cup {l} ELSE Blocking \ {l}
  <1>1. logins' = [logins EXCEPT ![l] = [at |-> step, n |-> n]]
    BY DEF Moves, LoginAt
  <1>2. /\ logins'[l] = [at |-> step, n |-> n]
        /\ \A k \in Logins \ {l} : logins'[k] = logins[k]
    BY <1>1 DEF ThrottleTyped
  <1> QED BY <1>2 DEF Blocking

\* There are finitely many of them.
LEMMA BlockingCounts ==
    /\ IsFiniteSet(Blocking) /\ Cardinality(Blocking) \in Nat
    /\ IsFiniteSet(Blocking') /\ Cardinality(Blocking') \in Nat
  <1>1. Blocking \subseteq Logins /\ Blocking' \subseteq Logins
    BY DEF Blocking
  <1> QED BY <1>1, ThrottleAssumption, CountWithin

\* A move to a step keeps the logins as they are typed.
LEMMA LoginsMove ==
    ASSUME ThrottleTyped, NEW l \in Logins, NEW step \in LoginSteps, NEW n \in Nat,
           Moves(l, step, n)
    PROVE  logins' \in [Logins -> [at: LoginSteps, n: Nat]]
  BY DEF ThrottleTyped, Moves, LoginAt

\* A password that is wrong is counted.
LEMMA RecordFailureKeeps ==
    ASSUME ThrottleInv, NEW l \in Logins, RecordFailure(l)
    PROVE  ThrottleInv'
  <1> DEFINE step == IF failures = 0 THEN "expire" ELSE "block"
             n == failures + 1
  <1>1. ThrottleTyped /\ step \in LoginSteps /\ step \in {"expire", "block"} /\ n \in Nat
    BY DEF ThrottleInv, ThrottleTyped, LoginSteps
  <1>2. Moves(l, step, n)
    BY DEF RecordFailure
  <1>3. failures' = n /\ open' = open + 1 /\ ends' = ends /\ block' = block /\ lost' = lost
    BY DEF RecordFailure
  <1>4. l \notin Blocking
    BY DEF Blocking, RecordFailure
  <1>5. ThrottleTyped'
    <2>1. logins' \in [Logins -> [at: LoginSteps, n: Nat]]
      BY <1>1, <1>2, LoginsMove
    <2> QED BY <1>1, <1>3, <2>1 DEF ThrottleTyped
  <1>6. FailuresCounted'
    <2>1. /\ Cardinality(Blocking) \in Nat /\ Cardinality(Blocking') \in Nat
          /\ n < Thresholds[1] => Cardinality(Blocking') = Cardinality(Blocking)
          /\ n >= Thresholds[1] => Cardinality(Blocking') = Cardinality(Blocking) + 1
      <3> HIDE DEF step, n
      <3>1. Blocking' = IF n >= Thresholds[1] THEN Blocking \cup {l} ELSE Blocking \ {l}
        BY <1>1, <1>2, BlockingAfter
      <3>2. ASSUME n < Thresholds[1] PROVE Blocking' = Blocking
        <4>1. Thresholds[1] \in Nat
          BY FirstThreshold
        <4>2. ~(n >= Thresholds[1])
          BY <1>1, <3>2, <4>1
        <4>3. Blocking \ {l} = Blocking
          BY <1>4
        <4> QED BY <3>1, <4>2, <4>3
      <3>3. ASSUME n >= Thresholds[1] PROVE Cardinality(Blocking') = Cardinality(Blocking) + 1
        <4>1. Blocking' = Blocking \cup {l}
          BY <3>1, <3>3
        <4> QED BY <1>4, <4>1, BlockingCounts, FS_AddElement
      <3> QED BY <3>2, <3>3, BlockingCounts
    <2>2. /\ open \in Nat /\ failures \in Nat /\ lost \in Nat /\ Thresholds[1] \in Nat
          /\ open <= failures + Cardinality(Blocking) + lost
          /\ open <= Thresholds[1] - 1 + Cardinality(Blocking) + lost
      BY <1>1, FirstThreshold DEF ThrottleInv, ThrottleTyped, FailuresCounted
    <2>3. open + 1 <= n + Cardinality(Blocking') + lost
      BY <2>1, <2>2
    <2>4. open + 1 <= Thresholds[1] - 1 + Cardinality(Blocking') + lost
      BY <2>1, <2>2
    <2> QED BY <1>3, <2>3, <2>4 DEF FailuresCounted
  <1>7. CounterEnds'
    <2>1. logins' = [logins EXCEPT ![l] = [at |-> step, n |-> n]]
      BY <1>2 DEF Moves, LoginAt
    <2>2. CASE failures = 0
      <3>1. logins'[l].at = "expire"
        BY <1>1, <2>1, <2>2 DEF ThrottleTyped
      <3> QED BY <3>1 DEF CounterEnds
    <2>3. CASE failures # 0
      <3>1. \A k \in Logins : logins[k].at = "expire" => logins'[k].at = "expire"
        BY <1>1, <2>1 DEF ThrottleTyped, RecordFailure
      <3>2. failures > 0 /\ lost \in Nat
        BY <2>3, <1>1 DEF ThrottleTyped
      <3>3. CounterEnds
        BY DEF ThrottleInv
      <3> QED BY <1>3, <3>1, <3>2, <3>3 DEF CounterEnds
    <2> QED BY <2>2, <2>3
  <1> QED BY <1>5, <1>6, <1>7 DEF ThrottleInv

\* The block of the number that was counted: from the first threshold on there is one.
LEMMA SetBlockKeeps ==
    ASSUME ThrottleInv, NEW l \in Logins, SetBlock(l)
    PROVE  ThrottleInv'
  <1> DEFINE b == BlockFor(logins[l].n)
  <1>1. ThrottleTyped /\ logins[l].n \in Nat /\ "idle" \in LoginSteps /\ logins[l].at = "block"
    BY DEF ThrottleInv, ThrottleTyped, LoginSteps, SetBlock
  <1>2. b \in 0..Len(Thresholds) /\ (b = 0 <=> logins[l].n < Thresholds[1])
    BY <1>1, FirstThreshold
  <1>3. /\ Moves(l, "idle", 0) /\ block' = (IF b = 0 THEN block ELSE b)
        /\ open' = (IF b = 0 THEN open ELSE 0)
        /\ failures' = failures /\ ends' = ends /\ lost' = lost
    BY DEF SetBlock
  <1> HIDE DEF b
  <1>4. ThrottleTyped'
    <2>1. logins' \in [Logins -> [at: LoginSteps, n: Nat]]
      BY <1>1, <1>3, LoginsMove
    <2> QED BY <1>1, <1>2, <1>3, <2>1 DEF ThrottleTyped
  <1>5. /\ open \in Nat /\ failures \in Nat /\ lost \in Nat /\ Thresholds[1] \in Nat \ {0}
        /\ open <= failures + Cardinality(Blocking) + lost
        /\ open <= Thresholds[1] - 1 + Cardinality(Blocking) + lost
    BY <1>1, FirstThreshold DEF ThrottleInv, ThrottleTyped, FailuresCounted
  <1>6. FailuresCounted'
    <2>1. CASE b = 0
      <3>1. Blocking' = Blocking
        <4>1. l \notin Blocking
          <5>1. ~(logins[l].n >= Thresholds[1])
            BY <1>1, <1>2, <1>5, <2>1
          <5> QED BY <5>1 DEF Blocking
        <4>2. Blocking' = Blocking \ {l}
          <5>1. Blocking' = IF "idle" \in {"expire", "block"} /\ 0 >= Thresholds[1]
                            THEN Blocking \cup {l} ELSE Blocking \ {l}
            BY <1>1, <1>3, BlockingAfter
          <5> QED BY <5>1
        <4> QED BY <4>1, <4>2
      <3>2. open' = open
        BY <1>3, <2>1
      <3> QED BY <1>3, <1>5, <3>1, <3>2 DEF FailuresCounted
    <2>2. CASE b # 0
      <3>1. Cardinality(Blocking') \in Nat
        BY BlockingCounts
      <3>2. open' = 0
        BY <1>3, <2>2
      <3> QED BY <1>3, <1>5, <3>1, <3>2 DEF FailuresCounted
    <2> QED BY <2>1, <2>2
  <1>7. CounterEnds'
    <2>1. \A k \in Logins : logins[k].at = "expire" => logins'[k].at = "expire"
      BY <1>1, <1>3 DEF ThrottleTyped, Moves
    <2>2. CounterEnds
      BY DEF ThrottleInv
    <2> QED BY <1>3, <2>1, <2>2 DEF CounterEnds
  <1> QED BY <1>4, <1>6, <1>7 DEF ThrottleInv

\* The other steps count nothing.
LEMMA ThrottleStep == ThrottleInv /\ [ThrottleNext]_throttleVars => ThrottleInv'
  <1> SUFFICES ASSUME ThrottleInv, [ThrottleNext]_throttleVars PROVE ThrottleInv'
    OBVIOUS
  <1>0. /\ ThrottleTyped /\ CounterEnds
        /\ open \in Nat /\ failures \in Nat /\ lost \in Nat /\ Thresholds[1] \in Nat \ {0}
        /\ open <= failures + Cardinality(Blocking) + lost
        /\ open <= Thresholds[1] - 1 + Cardinality(Blocking) + lost
    BY FirstThreshold DEF ThrottleInv, ThrottleTyped, FailuresCounted
  <1>00. Cardinality(Blocking) \in Nat
    BY BlockingCounts
  <1>1. ASSUME NEW l \in Logins, CheckBlocked(l) PROVE ThrottleInv'
    <2>1. Moves(l, "compare", 0) /\ UNCHANGED <<failures, ends, block, open, lost>>
          /\ logins[l].at = "idle"
      BY <1>1 DEF CheckBlocked
    <2>2. ThrottleTyped'
      BY <1>0, <2>1, LoginsMove DEF ThrottleTyped, LoginSteps
    <2>3. Blocking' = Blocking
      BY <1>0, <2>1, FirstThreshold DEF Blocking, Moves, LoginAt, ThrottleTyped
    <2>4. FailuresCounted'
      BY <1>0, <2>1, <2>3 DEF FailuresCounted
    <2>5. \A k \in Logins : logins[k].at = "expire" => logins'[k].at = "expire"
      BY <1>0, <2>1 DEF ThrottleTyped, Moves
    <2> QED BY <1>0, <2>1, <2>2, <2>4, <2>5 DEF ThrottleInv, CounterEnds
  <1>2. ASSUME NEW l \in Logins, SetExpiry(l) PROVE ThrottleInv'
    <2>1. /\ Moves(l, "block", logins[l].n) /\ UNCHANGED <<failures, block, open, lost>>
          /\ logins[l].at = "expire" /\ ends' = (failures > 0) /\ logins[l].n \in Nat
      BY <1>0, <1>2 DEF SetExpiry, ThrottleTyped
    <2>2. ThrottleTyped'
      <3>1. logins' \in [Logins -> [at: LoginSteps, n: Nat]]
        BY <1>0, <2>1, LoginsMove DEF LoginSteps
      <3>2. ends' \in BOOLEAN
        BY <2>1
      <3> QED BY <1>0, <2>1, <3>1, <3>2 DEF ThrottleTyped
    <2>3. Blocking' = Blocking
      BY <1>0, <2>1 DEF Blocking, Moves, LoginAt, ThrottleTyped
    <2>4. FailuresCounted'
      BY <1>0, <2>1, <2>3 DEF FailuresCounted
    <2>5. CounterEnds'
      BY <2>1 DEF CounterEnds
    <2> QED BY <2>2, <2>4, <2>5 DEF ThrottleInv
  <1>3. ASSUME NEW l \in Logins, ThrottleReset(l) PROVE ThrottleInv'
    <2>1. /\ Moves(l, "idle", 0) /\ lost' = lost
          /\ failures' = 0 /\ ends' = FALSE /\ block' = 0 /\ open' = 0
      BY <1>3 DEF ThrottleReset
    <2>2. ThrottleTyped'
      <3>1. logins' \in [Logins -> [at: LoginSteps, n: Nat]]
        BY <1>0, <2>1, LoginsMove DEF LoginSteps
      <3>2. 0 \in 0..Len(Thresholds)
        BY FirstThreshold
      <3>3. ends' \in BOOLEAN
        BY <2>1, Zenon
      <3>4. failures' \in Nat /\ block' \in 0..Len(Thresholds) /\ open' \in Nat /\ lost' \in Nat
        BY <1>0, <2>1, <3>2
      <3> QED BY <3>1, <3>3, <3>4 DEF ThrottleTyped
    <2>4. FailuresCounted'
      <3>1. 0 <= 0 + Cardinality(Blocking') + lost
        BY <1>0, BlockingCounts
      <3>2. 0 <= Thresholds[1] - 1 + Cardinality(Blocking') + lost
        BY <1>0, BlockingCounts
      <3> QED BY <2>1, <3>1, <3>2 DEF FailuresCounted
    <2> QED BY <2>1, <2>2, <2>4 DEF ThrottleInv, CounterEnds
  <1>4. ASSUME NEW l \in Logins, LoginLost(l) PROVE ThrottleInv'
    <2>1. /\ Moves(l, "idle", 0) /\ lost' = lost + 1
          /\ UNCHANGED <<failures, ends, block, open>>
      BY <1>4 DEF LoginLost
    <2>2. ThrottleTyped'
      BY <1>0, <2>1, LoginsMove DEF ThrottleTyped, LoginSteps
    <2>3. Cardinality(Blocking') \in Nat /\ Cardinality(Blocking) <= Cardinality(Blocking') + 1
      <3>1. Blocking \subseteq Blocking' \cup {l}
        BY <1>0, <2>1 DEF Blocking, Moves, LoginAt, ThrottleTyped
      <3> QED BY <3>1, BlockingCounts, CountGrows
    <2>4. FailuresCounted'
      BY <1>0, <1>00, <2>1, <2>3 DEF FailuresCounted
    <2>5. lost' > 0
      BY <1>0, <2>1
    <2> QED BY <2>2, <2>4, <2>5 DEF ThrottleInv, CounterEnds
  <1>5. CASE BlockEnds
    <2>1. block' = 0 /\ UNCHANGED <<failures, ends, logins, open, lost>>
      BY <1>5 DEF BlockEnds
    <2>2. ThrottleTyped' /\ Blocking' = Blocking
      BY <1>0, <2>1, ThrottleAssumption DEF ThrottleTyped, Blocking
    <2> QED BY <1>0, <2>1, <2>2 DEF ThrottleInv, FailuresCounted, CounterEnds
  <1>6. CASE FailuresEnd
    <2>1. failures' = 0 /\ ends' = FALSE /\ open' = 0 /\ UNCHANGED <<block, logins, lost>>
      BY <1>6 DEF FailuresEnd
    <2>2. ThrottleTyped' /\ Blocking' = Blocking
      BY <1>0, <2>1 DEF ThrottleTyped, Blocking
    <2> QED BY <1>0, <1>00, <2>1, <2>2 DEF ThrottleInv, FailuresCounted, CounterEnds
  <1>7. CASE UNCHANGED throttleVars
    BY <1>7 DEF throttleVars, ThrottleInv, ThrottleTyped, FailuresCounted, Blocking, CounterEnds
  <1> QED BY <1>1, <1>2, <1>3, <1>4, <1>5, <1>6, <1>7, RecordFailureKeeps, SetBlockKeeps
          DEF ThrottleNext

\* The attempts between two blocks stay within their bound.
LEMMA ThrottleHolds == ThrottleInv => AttemptsBounded /\ CounterEnds
  <1> SUFFICES ASSUME ThrottleInv PROVE AttemptsBounded
    BY DEF ThrottleInv
  <1>1. /\ Cardinality(Blocking) \in Nat /\ Cardinality(Blocking) <= Cardinality(Logins)
        /\ Cardinality(Logins) \in Nat
    <2>1. Blocking \subseteq Logins
      BY DEF Blocking
    <2> QED BY <2>1, ThrottleAssumption, CountWithin, FS_CardinalityType
  <1>2. /\ Thresholds[1] \in Nat /\ open \in Nat /\ lost \in Nat
        /\ open <= Thresholds[1] - 1 + Cardinality(Blocking) + lost
    BY FirstThreshold DEF ThrottleInv, ThrottleTyped, FailuresCounted
  <1>3. open <= Thresholds[1] - 1 + Cardinality(Logins) + lost
    BY <1>1, <1>2
  <1> QED BY <1>3 DEF AttemptsBounded

-----------------------------------------------------------------------------
(* One-time codes: the inductive invariant *)

Askers(step) == {c \in CodeRequests : codeReqs[c].at = step}

CodeSteps == {"hour", "store", "read", "drop", "hit", "miss", "clear"}

Asking(last) == {IdleReq} \cup [at: CodeSteps, guess: 0..last]

CodesTyped ==
    /\ code \in 0..lastCode /\ lastCode \in Nat /\ sends \in Nat /\ fails \in Nat /\ misses \in Nat
    /\ forgiven \in BOOLEAN /\ recent \in BOOLEAN
    /\ codeReqs \in [CodeRequests -> Asking(lastCode)]

\* Sends that were permitted count against the cap.
SendsCounted == sends + Cardinality(Askers("store")) <= HourCap + Overlap

\* The misses of the code in place are counted, or about to be; guesses that were
\* permitted count against the limit.
MissesCounted ==
    code # NoCode /\ ~forgiven =>
        /\ misses <= fails + Cardinality(Askers("miss"))
        /\ misses + Cardinality(Askers("read")) <= MaxMisses + Overlap

\* A code that was accepted, or is about to be, was stored once.
UsedWereStored ==
    /\ code \notin used /\ used \subseteq 1..lastCode
    /\ \A c \in CodeRequests : codeReqs[c].at = "hit" => codeReqs[c].guess # NoCode

CodesInv == CodesTyped /\ SendsCounted /\ MissesCounted /\ UsedWereStored

\* The bounds, and the numbers of the requests at a step.
LEMMA CodeNumbers ==
    /\ HourCap \in Nat /\ MaxMisses \in Nat
    /\ Overlap \in Nat /\ Cardinality(CodeRequests) = Overlap + 1
  <1>1. Cardinality(CodeRequests) \in Nat /\ Cardinality(CodeRequests) # 0
    BY CodesAssumption, FS_CardinalityType, FS_EmptySet
  <1> QED BY <1>1, CodesAssumption DEF Overlap

\* The requests that are at one step are finitely many, and at most all of them.
LEMMA AskersCount ==
    ASSUME NEW step
    PROVE  /\ IsFiniteSet(Askers(step)) /\ Cardinality(Askers(step)) \in Nat
           /\ IsFiniteSet(Askers(step)') /\ Cardinality(Askers(step)') \in Nat
           /\ Cardinality(Askers(step)) <= Overlap + 1
  <1>1. Askers(step) \subseteq CodeRequests /\ Askers(step)' \subseteq CodeRequests
    BY DEF Askers
  <1> QED BY <1>1, CodesAssumption, CodeNumbers, CountWithin

\* Requests at two steps are two requests.
LEMMA AskersDiffer ==
    ASSUME NEW step, NEW other, step # other, NEW c \in CodeRequests,
           c \notin Askers(step), c \notin Askers(other)
    PROVE  Cardinality(Askers(step)) + Cardinality(Askers(other)) <= Overlap
  <1> DEFINE A == Askers(step) B == Askers(other)
  <1>1. /\ A \cap B = {} /\ A \cup B \subseteq CodeRequests \ {c}
        /\ IsFiniteSet(A) /\ Cardinality(A) \in Nat /\ IsFiniteSet(B) /\ Cardinality(B) \in Nat
    BY AskersCount DEF Askers
  <1> HIDE DEF A, B
  <1>2. IsFiniteSet(A \cup B) /\ Cardinality(A \cup B) = Cardinality(A) + Cardinality(B) - 0
    <2>1. Cardinality(A \cap B) = 0
      BY <1>1, FS_EmptySet
    <2> QED BY <1>1, <2>1, FS_Union
  <1>3. Cardinality(A \cup B) <= Cardinality(CodeRequests) - 1
    BY <1>1, CodesAssumption, CountDrops
  <1>4. Cardinality(A) + Cardinality(B) <= Overlap
    BY <1>1, <1>2, <1>3, CodeNumbers
  <1> QED BY <1>4 DEF A, B

\* How they change when one request has moved.
LEMMA AskersMove ==
    ASSUME CodesTyped, NEW c \in CodeRequests, NEW q, NEW step,
           codeReqs' = [codeReqs EXCEPT ![c] = q]
    PROVE  /\ codeReqs[c].at = step /\ q.at # step =>
                 Cardinality(Askers(step)') = Cardinality(Askers(step)) - 1
           /\ codeReqs[c].at # step /\ q.at = step =>
                 Cardinality(Askers(step)') = Cardinality(Askers(step)) + 1
           /\ (codeReqs[c].at = step <=> q.at = step) =>
                 Cardinality(Askers(step)') = Cardinality(Askers(step))
           /\ q.at # step => Cardinality(Askers(step)') <= Cardinality(Askers(step))
  <1>1. codeReqs'[c] = q /\ \A k \in CodeRequests \ {c} : codeReqs'[k] = codeReqs[k]
    BY DEF CodesTyped
  <1>2. Askers(step)' = IF q.at = step THEN Askers(step) \cup {c} ELSE Askers(step) \ {c}
    BY <1>1 DEF Askers
  <1>3. c \in Askers(step) <=> codeReqs[c].at = step
    BY DEF Askers
  <1>4. ASSUME codeReqs[c].at = step, q.at # step
        PROVE  Cardinality(Askers(step)') = Cardinality(Askers(step)) - 1
    <2>1. Askers(step)' = Askers(step) \ {c}
      BY <1>2, <1>4
    <2> QED BY <1>3, <1>4, <2>1, AskersCount, FS_RemoveElement
  <1>5. ASSUME codeReqs[c].at # step, q.at = step
        PROVE  Cardinality(Askers(step)') = Cardinality(Askers(step)) + 1
    <2>1. Askers(step)' = Askers(step) \cup {c}
      BY <1>2, <1>5
    <2> QED BY <1>3, <1>5, <2>1, AskersCount, FS_AddElement
  <1>6. ASSUME codeReqs[c].at = step <=> q.at = step PROVE Askers(step)' = Askers(step)
    BY <1>2, <1>3, <1>6
  <1>7. (codeReqs[c].at = step <=> q.at = step) => Cardinality(Askers(step)') = Cardinality(Askers(step))
    BY <1>6
  <1>8. q.at # step => Cardinality(Askers(step)') <= Cardinality(Askers(step))
    BY <1>4, <1>7, AskersCount
  <1> QED BY <1>4, <1>5, <1>7, <1>8

\* A request that has moved is of its type.
LEMMA AskersTyped ==
    ASSUME CodesTyped, NEW c \in CodeRequests, lastCode' \in Nat, lastCode <= lastCode',
           NEW q \in Asking(lastCode'), codeReqs' = [codeReqs EXCEPT ![c] = q]
    PROVE  codeReqs' \in [CodeRequests -> Asking(lastCode')]
  <1>1. Asking(lastCode) \subseteq Asking(lastCode')
    BY DEF Asking, CodesTyped
  <1> QED BY <1>1 DEF CodesTyped

\* A request that is not idle has a guess.
LEMMA AskerHasGuess ==
    ASSUME CodesTyped, NEW c \in CodeRequests, codeReqs[c].at # "idle"
    PROVE  codeReqs[c].guess \in 0..lastCode
  <1>1. codeReqs[c] \in {IdleReq} \cup [at: CodeSteps, guess: 0..lastCode]
    BY DEF CodesTyped, Asking
  <1>2. codeReqs[c] # IdleReq
    BY DEF IdleReq
  <1> QED BY <1>1, <1>2

\* Before the first message no code is stored or guessed at.
LEMMA CodesStart == CodesInit => CodesInv
  <1> SUFFICES ASSUME CodesInit PROVE CodesInv
    OBVIOUS
  <1>1. CodesTyped
    <2>1. forgiven \in BOOLEAN /\ recent \in BOOLEAN
      BY Zenon DEF CodesInit
    <2> QED BY <2>1 DEF CodesInit, CodesTyped, Asking, NoCode
  <1>2. Askers("store") = {}
    BY DEF CodesInit, Askers, IdleReq
  <1>3. SendsCounted
    <2>1. Cardinality(Askers("store")) = 0 /\ sends = 0
      BY <1>2, FS_EmptySet DEF CodesInit
    <2> QED BY <2>1, CodeNumbers DEF SendsCounted
  <1>4. MissesCounted
    BY DEF MissesCounted, CodesInit
  <1>5. UsedWereStored
    BY DEF UsedWereStored, CodesInit, IdleReq
  <1> QED BY <1>1, <1>3, <1>4, <1>5 DEF CodesInv

\* A request that moves, and touches no more than the misses, the drop of the code
\* and what the history has of it.
LEMMA MoveKeeps ==
    ASSUME CodesInv, NEW c \in CodeRequests, NEW q \in Asking(lastCode),
           codeReqs' = [codeReqs EXCEPT ![c] = q], UNCHANGED <<recent, sends, lastCode>>,
           code' \in {code, NoCode}, used' = used,
           fails' \in Nat, misses' \in Nat, forgiven' \in BOOLEAN,
           q.at = "store" => sends < HourCap, q.at = "hit" => q.guess # NoCode,
           MissesCounted'
    PROVE  CodesInv'
  <1>0. CodesTyped /\ sends \in Nat
    BY DEF CodesInv, CodesTyped
  <1>1. CodesTyped'
    <2>1. codeReqs' \in [CodeRequests -> Asking(lastCode')]
      BY <1>0, AskersTyped DEF CodesTyped
    <2>2. code' \in 0..lastCode' /\ lastCode' \in Nat /\ sends' \in Nat
      BY <1>0 DEF CodesTyped, NoCode
    <2>3. recent' \in BOOLEAN
      BY <1>0, Zenon DEF CodesTyped
    <2> QED BY <2>1, <2>2, <2>3 DEF CodesTyped
  <1>2. SendsCounted'
    <2>1. CASE q.at = "store"
      <3>1. Cardinality(Askers("store")') <= Overlap + 1
        <4>1. Askers("store")' \subseteq CodeRequests
          BY DEF Askers
        <4> QED BY <4>1, CodesAssumption, CodeNumbers, CountWithin
      <3>2. Cardinality(Askers("store")') \in Nat
        BY AskersCount
      <3>3. sends' = sends /\ sends < HourCap
        BY <2>1
      <3>4. sends + Cardinality(Askers("store")') <= HourCap + Overlap
        BY <1>0, <3>1, <3>2, <3>3, CodeNumbers
      <3> QED BY <3>3, <3>4 DEF SendsCounted
    <2>2. CASE q.at # "store"
      <3>1. Cardinality(Askers("store")') <= Cardinality(Askers("store"))
        BY <1>0, <2>2, AskersMove, Zenon
      <3>2. sends + Cardinality(Askers("store")) <= HourCap + Overlap
        BY DEF CodesInv, SendsCounted
      <3> QED BY <1>0, <3>1, <3>2, CodeNumbers, AskersCount DEF SendsCounted
    <2> QED BY <2>1, <2>2
  <1>3. UsedWereStored'
    <2>1. code \notin used /\ used \subseteq 1..lastCode
          /\ \A k \in CodeRequests : codeReqs[k].at = "hit" => codeReqs[k].guess # NoCode
      BY DEF CodesInv, UsedWereStored
    <2>2. NoCode \notin 1..lastCode
      BY <1>0 DEF NoCode, CodesTyped
    <2>3. code' \notin used'
      BY <2>1, <2>2
    <2>4. \A k \in CodeRequests : codeReqs'[k].at = "hit" => codeReqs'[k].guess # NoCode
      BY <1>0, <2>1 DEF CodesTyped
    <2> QED BY <2>1, <2>3, <2>4 DEF UsedWereStored
  <1> QED BY <1>1, <1>2, <1>3 DEF CodesInv

\* A request that moves between other steps than those that count, and touches nothing.
LEMMA QuietMove ==
    ASSUME CodesInv, NEW c \in CodeRequests, NEW q \in Asking(lastCode),
           codeReqs' = [codeReqs EXCEPT ![c] = q],
           UNCHANGED <<recent, sends, lastCode, used, fails, misses>>,
           code' \in {code, NoCode},
           forgiven' \in BOOLEAN, forgiven => forgiven',
           codeReqs[c].at = "miss" => forgiven' \/ code' = NoCode,
           q.at \notin {"miss", "read"},
           q.at = "store" => sends < HourCap, q.at = "hit" => q.guess # NoCode
    PROVE  CodesInv'
  <1>0. CodesTyped /\ fails \in Nat /\ misses \in Nat /\ forgiven \in BOOLEAN
    BY DEF CodesInv, CodesTyped
  <1>1. ASSUME code' # NoCode, ~forgiven'
        PROVE  /\ misses <= fails + Cardinality(Askers("miss")')
               /\ misses + Cardinality(Askers("read")') <= MaxMisses + Overlap
    <2>1. /\ misses <= fails + Cardinality(Askers("miss"))
          /\ misses + Cardinality(Askers("read")) <= MaxMisses + Overlap
      BY <1>1 DEF CodesInv, MissesCounted
    <2>2. Cardinality(Askers("miss")') = Cardinality(Askers("miss"))
      <3>1. codeReqs[c].at # "miss" /\ q.at # "miss"
        BY <1>1
      <3> QED BY <1>0, <3>1, AskersMove, Zenon
    <2>3. Cardinality(Askers("read")') <= Cardinality(Askers("read"))
      <3>1. q.at # "read"
        OBVIOUS
      <3> QED BY <1>0, <3>1, AskersMove, Zenon
    <2> QED BY <1>0, <2>1, <2>2, <2>3, AskersCount, CodeNumbers
  <1>2. MissesCounted'
    BY <1>1 DEF MissesCounted
  <1>3. fails' \in Nat /\ misses' \in Nat /\ used' = used
    BY <1>0
  <1> QED BY <1>2, <1>3, MoveKeeps

\* Guesses that pass, when the counter of the misses is read, are within the limit.
LEMMA VerifyBeginKeeps ==
    ASSUME CodesInv, NEW c \in CodeRequests, NEW guess \in 0..lastCode, VerifyBegin(c, guess)
    PROVE  CodesInv'
  <1> DEFINE q == ReqAt(IF fails >= MaxMisses THEN "drop" ELSE "read", guess)
  <1>0. CodesTyped /\ fails \in Nat /\ misses \in Nat /\ forgiven \in BOOLEAN
    BY DEF CodesInv, CodesTyped
  <1>1. /\ q \in Asking(lastCode) /\ q.at \in {"drop", "read"}
        /\ q.at = "read" <=> fails < MaxMisses
    BY <1>0, CodeNumbers DEF Asking, CodeSteps, ReqAt
  <1>2. /\ codeReqs[c].at = "idle" /\ codeReqs' = [codeReqs EXCEPT ![c] = q]
        /\ UNCHANGED <<code, recent, sends, fails, lastCode, used, misses, forgiven>>
    BY DEF VerifyBegin, At
  <1> HIDE DEF q
  <1>3. CASE q.at = "drop"
    BY <1>0, <1>1, <1>2, <1>3, QuietMove
  <1>4. CASE q.at = "read"
    <2>1. ASSUME code # NoCode, ~forgiven
          PROVE  /\ misses <= fails + Cardinality(Askers("miss")')
                 /\ misses + Cardinality(Askers("read")') <= MaxMisses + Overlap
      <3>1. misses <= fails + Cardinality(Askers("miss"))
        BY <2>1 DEF CodesInv, MissesCounted
      <3>2. Cardinality(Askers("miss")') = Cardinality(Askers("miss"))
        <4>1. codeReqs[c].at # "miss" /\ q.at # "miss"
          BY <1>2, <1>4
        <4> QED BY <1>0, <1>2, <4>1, AskersMove, Zenon
      <3>3. Cardinality(Askers("read")') = Cardinality(Askers("read")) + 1
        <4>1. codeReqs[c].at # "read"
          BY <1>2
        <4> QED BY <1>0, <1>2, <1>4, <4>1, AskersMove, Zenon
      <3>4. Cardinality(Askers("miss")) + Cardinality(Askers("read")) <= Overlap
        <4>1. c \notin Askers("miss") /\ c \notin Askers("read")
          BY <1>2 DEF Askers
        <4> QED BY <4>1, AskersDiffer
      <3>5. Cardinality(Askers("miss")) \in Nat /\ Cardinality(Askers("read")) \in Nat
        BY AskersCount
      <3>6. fails <= MaxMisses - 1
        BY <1>0, <1>1, <1>4, CodeNumbers
      <3> QED BY <1>0, <3>1, <3>2, <3>3, <3>4, <3>5, <3>6, CodeNumbers
    <2>2. MissesCounted'
      BY <1>2, <2>1 DEF MissesCounted
    <2>3. fails' \in Nat /\ misses' \in Nat /\ forgiven' \in BOOLEAN /\ code' \in {code, NoCode}
      BY <1>0, <1>2
    <2> QED BY <1>1, <1>2, <1>4, <2>2, <2>3, MoveKeeps
  <1> QED BY <1>1, <1>3, <1>4

\* A guess that misses the code in place has been permitted, and is about to be counted.
LEMMA VerifyCompareKeeps ==
    ASSUME CodesInv, NEW c \in CodeRequests, VerifyCompare(c)
    PROVE  CodesInv'
  <1>0. CodesTyped /\ fails \in Nat /\ misses \in Nat /\ forgiven \in BOOLEAN
    BY DEF CodesInv, CodesTyped
  <1>1. /\ codeReqs[c].at = "read" /\ codeReqs[c].guess \in 0..lastCode
        /\ UNCHANGED <<code, recent, sends, fails, lastCode, used, forgiven>>
    BY <1>0, AskerHasGuess DEF VerifyCompare, At
  <1>2. CASE code \in {NoCode, codeReqs[c].guess}
    <2> DEFINE q == IF code = NoCode THEN IdleReq ELSE ReqAt("hit", codeReqs[c].guess)
    <2>1. codeReqs' = [codeReqs EXCEPT ![c] = q] /\ misses' = misses
      BY <1>0, <1>2 DEF VerifyCompare, Ends, Goto
    <2>2. /\ q \in Asking(lastCode) /\ q.at \notin {"miss", "read", "store"}
          /\ q.at = "hit" => q.guess # NoCode
      BY <1>1, <1>2 DEF Asking, CodeSteps, ReqAt, IdleReq
    <2> HIDE DEF q
    <2> QED BY <1>0, <1>1, <2>1, <2>2, QuietMove
  <1>3. CASE code \notin {NoCode, codeReqs[c].guess}
    <2> DEFINE q == ReqAt("miss", codeReqs[c].guess)
    <2>1. codeReqs' = [codeReqs EXCEPT ![c] = q] /\ misses' = misses + 1
      BY <1>0, <1>3 DEF VerifyCompare, Ends, Goto
    <2>2. q \in Asking(lastCode) /\ q.at = "miss"
      BY <1>1 DEF Asking, CodeSteps, ReqAt
    <2> HIDE DEF q
    <2>3. ASSUME code # NoCode, ~forgiven
          PROVE  /\ misses + 1 <= fails + Cardinality(Askers("miss")')
                 /\ misses + 1 + Cardinality(Askers("read")') <= MaxMisses + Overlap
      <3>1. /\ misses <= fails + Cardinality(Askers("miss"))
            /\ misses + Cardinality(Askers("read")) <= MaxMisses + Overlap
        BY <2>3 DEF CodesInv, MissesCounted
      <3>2. Cardinality(Askers("miss")') = Cardinality(Askers("miss")) + 1
        <4>1. codeReqs[c].at # "miss"
          BY <1>1
        <4> QED BY <1>0, <2>1, <2>2, <4>1, AskersMove, Zenon
      <3>3. Cardinality(Askers("read")') = Cardinality(Askers("read")) - 1
        <4>1. q.at # "read"
          BY <2>2
        <4> QED BY <1>0, <1>1, <2>1, <4>1, AskersMove, Zenon
      <3>4. Cardinality(Askers("miss")) \in Nat /\ Cardinality(Askers("read")) \in Nat
        BY AskersCount
      <3> QED BY <1>0, <3>1, <3>2, <3>3, <3>4, CodeNumbers
    <2>4. MissesCounted'
      BY <1>1, <2>1, <2>3 DEF MissesCounted
    <2>5. fails' \in Nat /\ misses' \in Nat /\ forgiven' \in BOOLEAN /\ code' \in {code, NoCode}
      BY <1>0, <1>1, <2>1
    <2> QED BY <1>1, <2>1, <2>2, <2>4, <2>5, MoveKeeps
  <1> QED BY <1>2, <1>3

\* A wrong guess is counted, and its request ends.
LEMMA VerifyMissKeeps ==
    ASSUME CodesInv, NEW c \in CodeRequests, VerifyMiss(c)
    PROVE  CodesInv'
  <1>0. CodesTyped /\ fails \in Nat /\ misses \in Nat /\ forgiven \in BOOLEAN
    BY DEF CodesInv, CodesTyped
  <1>1. /\ codeReqs[c].at = "miss" /\ codeReqs' = [codeReqs EXCEPT ![c] = IdleReq]
        /\ fails' = fails + 1
        /\ UNCHANGED <<code, recent, sends, lastCode, used, misses, forgiven>>
    BY DEF VerifyMiss, At, Ends
  <1>2. IdleReq \in Asking(lastCode) /\ IdleReq.at = "idle"
    BY DEF Asking, IdleReq
  <1>3. ASSUME code # NoCode, ~forgiven
        PROVE  /\ misses <= fails + 1 + Cardinality(Askers("miss")')
               /\ misses + Cardinality(Askers("read")') <= MaxMisses + Overlap
    <2>1. /\ misses <= fails + Cardinality(Askers("miss"))
          /\ misses + Cardinality(Askers("read")) <= MaxMisses + Overlap
      BY <1>3 DEF CodesInv, MissesCounted
    <2>2. Cardinality(Askers("miss")') = Cardinality(Askers("miss")) - 1
      <3>1. IdleReq.at # "miss"
        BY <1>2
      <3> QED BY <1>0, <1>1, <3>1, AskersMove, Zenon
    <2>3. Cardinality(Askers("read")') = Cardinality(Askers("read"))
      <3>1. IdleReq.at # "read" /\ codeReqs[c].at # "read"
        BY <1>1, <1>2
      <3> QED BY <1>0, <1>1, <3>1, AskersMove, Zenon
    <2>4. Cardinality(Askers("miss")) \in Nat /\ Cardinality(Askers("read")) \in Nat
      BY AskersCount
    <2> QED BY <1>0, <2>1, <2>2, <2>3, <2>4, CodeNumbers
  <1>4. MissesCounted'
    BY <1>1, <1>3 DEF MissesCounted
  <1>5. fails' \in Nat /\ misses' \in Nat /\ forgiven' \in BOOLEAN /\ code' \in {code, NoCode}
    BY <1>0, <1>1
  <1>6. ~(IdleReq.at = "store") /\ ~(IdleReq.at = "hit")
    BY <1>2
  <1> QED BY <1>1, <1>2, <1>4, <1>5, <1>6, MoveKeeps

\* A right guess resets the counter, whichever code it was counted for.
LEMMA VerifyClearKeeps ==
    ASSUME CodesInv, NEW c \in CodeRequests, VerifyClear(c)
    PROVE  CodesInv'
  <1>0. CodesTyped /\ fails \in Nat /\ misses \in Nat /\ forgiven \in BOOLEAN
    BY DEF CodesInv, CodesTyped
  <1>1. /\ codeReqs' = [codeReqs EXCEPT ![c] = IdleReq]
        /\ fails' = 0 /\ forgiven' = (forgiven \/ code # NoCode)
        /\ UNCHANGED <<code, recent, sends, lastCode, used, misses>>
    BY DEF VerifyClear, Ends
  <1>2. IdleReq \in Asking(lastCode) /\ IdleReq.at = "idle"
    BY DEF Asking, IdleReq
  <1>3. MissesCounted'
    BY <1>1 DEF MissesCounted
  <1>4. fails' \in Nat /\ misses' \in Nat /\ code' \in {code, NoCode}
    BY <1>0, <1>1
  <1>5. forgiven' \in BOOLEAN
    BY <1>1, Zenon
  <1>6. ~(IdleReq.at = "store") /\ ~(IdleReq.at = "hit")
    BY <1>2
  <1> QED BY <1>1, <1>2, <1>3, <1>4, <1>5, <1>6, MoveKeeps

\* A new code: nothing has missed it yet, and it is none that was used.
LEMMA SendStoreKeeps ==
    ASSUME CodesInv, NEW c \in CodeRequests, SendStore(c)
    PROVE  CodesInv'
  <1>0. CodesTyped /\ lastCode \in Nat /\ sends \in Nat /\ fails \in Nat
    BY DEF CodesInv, CodesTyped
  <1>1. /\ codeReqs[c].at = "store" /\ codeReqs' = [codeReqs EXCEPT ![c] = IdleReq]
        /\ code' = lastCode + 1 /\ lastCode' = lastCode + 1 /\ recent' = TRUE
        /\ sends' = sends + 1 /\ misses' = 0 /\ forgiven' = FALSE /\ UNCHANGED <<fails, used>>
    BY DEF SendStore, At, Ends
  <1>2. IdleReq \in Asking(lastCode') /\ IdleReq.at = "idle"
    BY DEF Asking, IdleReq
  <1>3. CodesTyped'
    <2>1. codeReqs' \in [CodeRequests -> Asking(lastCode')]
      <3>1. lastCode' \in Nat /\ lastCode <= lastCode'
        BY <1>0, <1>1
      <3>2. IdleReq \in Asking(lastCode') /\ codeReqs' = [codeReqs EXCEPT ![c] = IdleReq]
        BY <1>1, <1>2
      <3> QED BY <1>0, <3>1, <3>2, AskersTyped
    <2>2. recent' \in BOOLEAN /\ forgiven' \in BOOLEAN
      BY <1>1, Zenon
    <2> QED BY <1>0, <1>1, <2>1, <2>2 DEF CodesTyped
  <1>4. SendsCounted'
    <2>1. Cardinality(Askers("store")') = Cardinality(Askers("store")) - 1
      <3>1. IdleReq.at # "store"
        BY <1>2
      <3> QED BY <1>0, <1>1, <3>1, AskersMove, Zenon
    <2>2. sends + Cardinality(Askers("store")) <= HourCap + Overlap
      BY DEF CodesInv, SendsCounted
    <2>3. Cardinality(Askers("store")) \in Nat
      BY AskersCount
    <2>4. (sends + 1) + Cardinality(Askers("store")') <= HourCap + Overlap
      BY <1>0, <2>1, <2>2, <2>3, CodeNumbers
    <2> QED BY <1>1, <2>4 DEF SendsCounted
  <1>5. MissesCounted'
    <2>1. Cardinality(Askers("read")') <= Overlap
      <3>1. Askers("read")' \subseteq CodeRequests \ {c}
        BY <1>0, <1>1, <1>2 DEF Askers, CodesTyped
      <3> QED BY <3>1, CodesAssumption, CountDrops, CodeNumbers
    <2>2. Cardinality(Askers("read")') \in Nat /\ Cardinality(Askers("miss")') \in Nat
      BY AskersCount
    <2>3. /\ 0 <= fails + Cardinality(Askers("miss")')
          /\ 0 + Cardinality(Askers("read")') <= MaxMisses + Overlap
      BY <1>0, <2>1, <2>2, CodeNumbers
    <2> QED BY <1>1, <2>3 DEF MissesCounted
  <1>6. UsedWereStored'
    <2>1. used \subseteq 1..lastCode
          /\ \A k \in CodeRequests : codeReqs[k].at = "hit" => codeReqs[k].guess # NoCode
      BY DEF CodesInv, UsedWereStored
    <2>2. used \subseteq 1..(lastCode + 1) /\ lastCode + 1 \notin used
      BY <1>0, <2>1
    <2>3. \A k \in CodeRequests : codeReqs'[k].at = "hit" => codeReqs'[k].guess # NoCode
      BY <1>0, <1>1, <1>2, <2>1 DEF CodesTyped
    <2> QED BY <1>1, <2>2, <2>3 DEF UsedWereStored
  <1> QED BY <1>3, <1>4, <1>5, <1>6 DEF CodesInv

\* A code that was guessed is deleted as it becomes a used one.
LEMMA VerifyHitSafe ==
    ASSUME CodesInv, NEW c \in CodeRequests, VerifyHit(c)
    PROVE  CodesInv'
  <1>0. CodesTyped
    BY DEF CodesInv
  <1>1. /\ codeReqs[c].at = "hit" /\ code' = NoCode
        /\ codeReqs[c].guess \in 1..lastCode
        /\ codeReqs' = [codeReqs EXCEPT ![c] = ReqAt("clear", codeReqs[c].guess)]
        /\ used' = used \cup {codeReqs[c].guess}
        /\ UNCHANGED <<recent, sends, fails, lastCode, misses, forgiven>>
    <2>1. codeReqs[c].at = "hit"
      BY DEF VerifyHit, At
    <2>2. codeReqs[c].guess \in 0..lastCode /\ codeReqs[c].guess # NoCode
      BY <1>0, <2>1, AskerHasGuess DEF CodesInv, UsedWereStored
    <2>3. codeReqs[c].guess \in 1..lastCode
      BY <1>0, <2>2 DEF NoCode, CodesTyped
    <2> QED BY <2>1, <2>3 DEF VerifyHit, Goto
  <1> DEFINE q == ReqAt("clear", codeReqs[c].guess)
  <1>2. q \in Asking(lastCode') /\ q.at = "clear"
    BY <1>1 DEF Asking, ReqAt, CodeSteps
  <1>3. CodesTyped'
    <2>1. codeReqs' \in [CodeRequests -> Asking(lastCode')]
      <3> HIDE DEF q
      <3>1. codeReqs' = [codeReqs EXCEPT ![c] = q] /\ lastCode' = lastCode /\ lastCode \in Nat
        BY <1>0, <1>1 DEF CodesTyped, q
      <3>2. lastCode' \in Nat /\ lastCode <= lastCode'
        BY <3>1
      <3> QED BY <1>0, <1>2, <3>1, <3>2, AskersTyped
    <2>2. recent' \in BOOLEAN /\ forgiven' \in BOOLEAN
      BY <1>0, <1>1, Zenon DEF CodesTyped
    <2> QED BY <1>0, <1>1, <2>1, <2>2 DEF CodesTyped, NoCode
  <1>4. SendsCounted'
    <2>1. Cardinality(Askers("store")') = Cardinality(Askers("store"))
      <3>1. q.at # "store" /\ codeReqs[c].at # "store"
        BY <1>1, <1>2
      <3> HIDE DEF q
      <3>2. codeReqs' = [codeReqs EXCEPT ![c] = q]
        BY <1>1 DEF q
      <3> QED BY <1>0, <3>1, <3>2, AskersMove, Zenon
    <2> QED BY <1>1, <2>1 DEF CodesInv, SendsCounted
  <1>5. MissesCounted'
    BY <1>1 DEF MissesCounted
  <1>6. UsedWereStored'
    <2>1. used \subseteq 1..lastCode
          /\ \A k \in CodeRequests : codeReqs[k].at = "hit" => codeReqs[k].guess # NoCode
      BY DEF CodesInv, UsedWereStored
    <2>2. used' \subseteq 1..lastCode' /\ NoCode \notin used'
      <3>1. used' \subseteq 1..lastCode /\ lastCode' = lastCode /\ lastCode \in Nat
        BY <1>0, <1>1, <2>1 DEF CodesTyped
      <3>2. NoCode \notin 1..lastCode
        BY <3>1 DEF NoCode
      <3> QED BY <3>1, <3>2
    <2>3. \A k \in CodeRequests : codeReqs'[k].at = "hit" => codeReqs'[k].guess # NoCode
      BY <1>0, <1>1, <1>2, <2>1 DEF CodesTyped
    <2> QED BY <1>1, <2>2, <2>3 DEF UsedWereStored
  <1> QED BY <1>3, <1>4, <1>5, <1>6 DEF CodesInv

\* The steps of time: a code goes when it is due, and the misses of no code in place.
LEMMA CodeTimeKeeps ==
    ASSUME CodesInv, MinutePasses \/ CodeExpires \/ FailsExpire \/ HourEnds
    PROVE  CodesInv'
  <1>0. CodesTyped /\ SendsCounted /\ MissesCounted /\ UsedWereStored
    BY DEF CodesInv
  <1>1. /\ UNCHANGED <<lastCode, codeReqs, used, misses, forgiven>>
        /\ code' \in {code, NoCode} /\ recent' \in {recent, FALSE}
        /\ sends' \in {sends, 0} /\ fails' \in {fails, 0}
        /\ fails' # fails => code' = NoCode \/ misses = 0
    BY DEF MinutePasses, CodeExpires, FailsExpire, HourEnds
  <1>2. \A step : Askers(step)' = Askers(step)
    BY <1>1 DEF Askers
  <1>3. CodesTyped'
    <2>1. recent' \in BOOLEAN /\ forgiven' \in BOOLEAN
      BY <1>0, <1>1, Zenon DEF CodesTyped
    <2>2. code' \in 0..lastCode /\ sends' \in Nat /\ fails' \in Nat
      BY <1>0, <1>1 DEF CodesTyped, NoCode
    <2> QED BY <1>0, <1>1, <2>1, <2>2 DEF CodesTyped
  <1>4. SendsCounted'
    <2>1. sends' <= sends
      BY <1>0, <1>1 DEF CodesTyped
    <2>2. Askers("store")' = Askers("store")
      BY <1>2
    <2>3. Cardinality(Askers("store")) \in Nat /\ sends' \in Nat /\ sends \in Nat
      BY <1>0, <1>3, AskersCount DEF CodesTyped
    <2> QED BY <1>0, <2>1, <2>2, <2>3, CodeNumbers DEF SendsCounted
  <1>5. MissesCounted'
    <2>1. Askers("miss")' = Askers("miss") /\ Askers("read")' = Askers("read")
      BY <1>2
    <2>2. Cardinality(Askers("miss")) \in Nat /\ fails' \in Nat /\ misses \in Nat
      BY <1>0, <1>3, AskersCount DEF CodesTyped
    <2>3. code' # NoCode => code # NoCode /\ (fails' = fails \/ misses = 0)
      BY <1>1
    <2>4. ASSUME code' # NoCode, ~forgiven
          PROVE  /\ misses <= fails' + Cardinality(Askers("miss"))
                 /\ misses + Cardinality(Askers("read")) <= MaxMisses + Overlap
      BY <1>0, <2>2, <2>3, <2>4 DEF MissesCounted
    <2> QED BY <1>1, <2>1, <2>4 DEF MissesCounted
  <1>6. UsedWereStored'
    <2>1. NoCode \notin 1..lastCode
      BY <1>0 DEF NoCode, CodesTyped
    <2> QED BY <1>0, <1>1, <2>1 DEF UsedWereStored
  <1> QED BY <1>3, <1>4, <1>5, <1>6 DEF CodesInv

\* Every command of Redis keeps the invariant of the codes.
LEMMA CodesStep == CodesInv /\ [CodesNext]_codeVars => CodesInv'
  <1> SUFFICES ASSUME CodesInv, [CodesNext]_codeVars PROVE CodesInv'
    OBVIOUS
  <1>0. CodesTyped /\ fails \in Nat /\ misses \in Nat /\ forgiven \in BOOLEAN /\ sends \in Nat
        /\ NoCode \in 0..lastCode
    BY DEF CodesInv, CodesTyped, NoCode
  <1>1. /\ IdleReq \in Asking(lastCode) /\ IdleReq.at = "idle"
        /\ \A step \in CodeSteps, guess \in 0..lastCode :
             ReqAt(step, guess) \in Asking(lastCode) /\ ReqAt(step, guess).at = step
    BY DEF Asking, IdleReq, ReqAt
  <1>2. ASSUME NEW c \in CodeRequests, SendBegin(c) PROVE CodesInv'
    <2> DEFINE q == ReqAt("hour", NoCode)
    <2>1. q \in Asking(lastCode) /\ q.at = "hour"
      BY <1>0, <1>1 DEF CodeSteps
    <2>2. /\ codeReqs[c].at = "idle" /\ codeReqs' = [codeReqs EXCEPT ![c] = q]
          /\ UNCHANGED <<code, recent, sends, fails, lastCode, used, misses, forgiven>>
      BY <1>2 DEF SendBegin, At
    <2> HIDE DEF q
    <2> QED BY <1>0, <2>1, <2>2, QuietMove
  <1>3. ASSUME NEW c \in CodeRequests, SendHour(c) PROVE CodesInv'
    <2> DEFINE q == IF sends >= HourCap THEN IdleReq ELSE ReqAt("store", codeReqs[c].guess)
    <2>1. /\ codeReqs[c].at = "hour" /\ codeReqs' = [codeReqs EXCEPT ![c] = q]
          /\ UNCHANGED <<code, recent, sends, fails, lastCode, used, misses, forgiven>>
      BY <1>3 DEF SendHour, At, Ends, Goto
    <2>2. /\ q \in Asking(lastCode) /\ q.at \in {"idle", "store"}
          /\ q.at = "store" => sends < HourCap
      <3>1. codeReqs[c].guess \in 0..lastCode
        BY <1>0, <2>1, AskerHasGuess
      <3> QED BY <1>0, <1>1, <3>1, CodeNumbers DEF CodeSteps
    <2> HIDE DEF q
    <2> QED BY <1>0, <2>1, <2>2, QuietMove
  <1>4. ASSUME NEW c \in CodeRequests, VerifyDrop(c) PROVE CodesInv'
    <2>1. /\ codeReqs[c].at = "drop" /\ codeReqs' = [codeReqs EXCEPT ![c] = IdleReq]
          /\ code' = NoCode
          /\ UNCHANGED <<recent, sends, fails, lastCode, used, misses, forgiven>>
      BY <1>4 DEF VerifyDrop, At, Ends
    <2> QED BY <1>0, <1>1, <2>1, QuietMove
  <1>5. ASSUME NEW c \in CodeRequests, ReqFails(c) PROVE CodesInv'
    <2>1. /\ codeReqs' = [codeReqs EXCEPT ![c] = IdleReq]
          /\ forgiven' = (forgiven \/ codeReqs[c].at = "miss")
          /\ UNCHANGED <<code, recent, sends, fails, lastCode, used, misses>>
      BY <1>5 DEF ReqFails, At, Ends
    <2>2. forgiven' \in BOOLEAN /\ (forgiven => forgiven') /\ (codeReqs[c].at = "miss" => forgiven')
      BY <2>1, Zenon
    <2> QED BY <1>0, <1>1, <2>1, <2>2, QuietMove
  <1>6. CASE UNCHANGED codeVars
    BY <1>6 DEF codeVars, CodesInv, CodesTyped, SendsCounted, MissesCounted, UsedWereStored, Askers
  <1> QED BY <1>2, <1>3, <1>4, <1>5, <1>6, VerifyBeginKeeps, VerifyCompareKeeps, VerifyMissKeeps,
             VerifyClearKeeps, SendStoreKeeps, VerifyHitSafe, CodeTimeKeeps
          DEF CodesNext

\* The limits of the codes follow.
LEMMA CodesHold == CodesInv => HourCapHolds /\ GuessesBounded /\ UsedCodeIsGone
  <1> SUFFICES ASSUME CodesInv PROVE HourCapHolds /\ GuessesBounded /\ UsedCodeIsGone
    OBVIOUS
  <1>0. sends \in Nat /\ misses \in Nat
    BY DEF CodesInv, CodesTyped
  <1>1. HourCapHolds
    <2>1. Cardinality(Askers("store")) \in Nat
      BY AskersCount
    <2> QED BY <1>0, <2>1, CodeNumbers DEF CodesInv, SendsCounted, HourCapHolds
  <1>2. GuessesBounded
    <2>1. Cardinality(Askers("read")) \in Nat
      BY AskersCount
    <2> QED BY <1>0, <2>1, CodeNumbers DEF CodesInv, MissesCounted, GuessesBounded
  <1> QED BY <1>1, <1>2 DEF CodesInv, UsedWereStored, UsedCodeIsGone

-----------------------------------------------------------------------------
(* Refresh tokens: the inductive invariant *)

InProgress(r) == refreshing[r] # NoRefresh

\* Rows that are not issued yet are as they were made, and requests and devices speak
\* of tokens that are issued.
TokensInOrder ==
    /\ \A t \in Tokens : t > issued => ~tokenRows[t].revoked /\ tokenRows[t].rotatedTo = NoToken
    /\ \A r \in Refreshes : InProgress(r) => refreshing[r].raw <= issued

\* A token has one device, and a token is the successor of one token.
NothingShared ==
    /\ \A d, e \in Devices : devices[d].held = devices[e].held /\ devices[d].held # NoToken => d = e
    /\ \A t, u \in Tokens : tokenRows[t].rotatedTo = tokenRows[u].rotatedTo
                            /\ tokenRows[t].rotatedTo # NoToken => t = u

\* A device waits for one request, about the token that it holds; a request about a
\* token that is held is of the device that holds it.
RequestsFit ==
    /\ \A r \in Refreshes : InProgress(r) /\ refreshing[r].heard =>
          devices[refreshing[r].device].held = refreshing[r].raw
    /\ \A r, q \in Refreshes : InProgress(r) /\ InProgress(q) /\ refreshing[r].heard /\ refreshing[q].heard
          /\ refreshing[r].device = refreshing[q].device => r = q
    /\ \A r \in Refreshes, d \in Devices :
          InProgress(r) /\ refreshing[r].raw = devices[d].held => refreshing[r].device = d

\* Nobody knows the token: no device holds it and no request presents it.
Unseen(t) == /\ \A d \in Devices : devices[d].held # t
             /\ \A r \in Refreshes : InProgress(r) => refreshing[r].raw # t

\* No request about the token goes on without its device.
NoneLeft(t) == \A r \in Refreshes : InProgress(r) /\ refreshing[r].raw = t => refreshing[r].heard

\* The token is as it was issued, but for one request at most that goes on without
\* the device, and every request about it will rotate it.
StillGood(t, missed) ==
    /\ ~tokenRows[t].revoked
    /\ missed = 0 => NoneLeft(t)
    /\ \A r, q \in Refreshes :
         /\ InProgress(r) /\ refreshing[r].raw = t => refreshing[r].branch = "rotate"
         /\ InProgress(r) /\ InProgress(q) /\ refreshing[r].raw = t /\ refreshing[q].raw = t
            /\ ~refreshing[r].heard /\ ~refreshing[q].heard => r = q

\* The answer with its successor was lost, and the successor is as it was issued.
AnswerLost(t, missed) ==
    LET next == tokenRows[t].rotatedTo IN
    /\ missed = 1
    /\ tokenRows[t].revoked /\ next # NoToken /\ ~tokenRows[next].revoked
    /\ Unseen(next) /\ NoneLeft(t)

HeldIsGood ==
    \A d \in Devices : devices[d].held # NoToken =>
        \/ StillGood(devices[d].held, devices[d].missed)
        \/ AnswerLost(devices[d].held, devices[d].missed)

\* A request that is about to revoke a successor is the only one about its token, and
\* no device holds that successor.
LostIsAlone ==
    \A r \in Refreshes : InProgress(r) /\ refreshing[r].branch = "lost" =>
        /\ tokenRows[refreshing[r].raw].rotatedTo # NoToken
        /\ \A d \in Devices : devices[d].held # tokenRows[refreshing[r].raw].rotatedTo
        /\ \A q \in Refreshes \ {r} : InProgress(q) => refreshing[q].raw # refreshing[r].raw

\* While nothing but the rotation has touched the sessions.
Orderly ==
    /\ usable /\ \A t \in Tokens : ~tokenRows[t].expired
    /\ \A r \in Refreshes : InProgress(r) => refreshing[r].branch \in {"rotate", "grace", "lost"}
    /\ \A d \in Devices : devices[d].missed < 2
    /\ NothingShared /\ RequestsFit /\ HeldIsGood /\ LostIsAlone

\* In any case rows, requests and devices are of their types, and links go forward.
SessionsSound == SessionsTypeOK /\ LinksForward /\ TokensInOrder

SessionsInv ==
    /\ SessionsSound
    /\ ~changed /\ ~missedTwice => Orderly

-----------------------------------------------------------------------------
(* Refresh tokens: rows, requests and devices in any case *)

\* A request in progress has its fields.
LEMMA RequestFields ==
    ASSUME SessionsTypeOK, NEW r \in Refreshes, InProgress(r)
    PROVE  /\ refreshing[r] \in [branch: Branches, raw: Tokens, device: Devices, heard: BOOLEAN]
           /\ refreshing[r].branch \in Branches /\ refreshing[r].raw \in Tokens
           /\ refreshing[r].device \in Devices /\ refreshing[r].heard \in BOOLEAN
  <1>1. refreshing[r] \in {NoRefresh} \cup [branch: Branches, raw: Tokens, device: Devices, heard: BOOLEAN]
    BY DEF SessionsTypeOK, RefreshState
  <1>2. refreshing[r] \in [branch: Branches, raw: Tokens, device: Devices, heard: BOOLEAN]
    BY <1>1 DEF InProgress
  <1> QED BY <1>2

\* Tokens are numbers from 1 on, and those that are issued come first.
LEMMA TokenNumbers ==
    /\ MaxToken \in Nat /\ Tokens \subseteq Nat /\ NoToken \notin Tokens
    /\ \A t : t \in Tokens <=> t \in Nat /\ 1 <= t /\ t <= MaxToken
  BY SessionsAssumption DEF Tokens, NoToken

\* The parts of a row, a device and the counters.
LEMMA SessionFields ==
    ASSUME SessionsSound
    PROVE  /\ issued \in Nat /\ issued <= MaxToken
           /\ \A t \in Tokens : /\ tokenRows[t].rotatedTo \in Tokens \cup {NoToken}
                                /\ tokenRows[t].revoked \in BOOLEAN /\ tokenRows[t].fresh \in BOOLEAN
                                /\ tokenRows[t].expired \in BOOLEAN
                                /\ tokenRows[t].rotatedTo # NoToken =>
                                     tokenRows[t].rotatedTo \in Tokens /\ tokenRows[t].rotatedTo <= issued
           /\ \A d \in Devices : /\ devices[d].held \in Tokens \cup {NoToken}
                                 /\ devices[d].held \in Nat /\ devices[d].held <= issued
                                 /\ devices[d].missed \in 0..2
           /\ tokenRows \in [Tokens -> TokenRow] /\ devices \in [Devices -> Device]
           /\ refreshing \in [Refreshes -> RefreshState]
  <1>0. SessionsTypeOK /\ LinksForward
    BY DEF SessionsSound
  <1>1. issued \in Nat /\ issued <= MaxToken
    BY <1>0, TokenNumbers DEF SessionsTypeOK
  <1>2. ASSUME NEW t \in Tokens
        PROVE  /\ tokenRows[t].rotatedTo \in Tokens \cup {NoToken}
               /\ tokenRows[t].revoked \in BOOLEAN /\ tokenRows[t].fresh \in BOOLEAN
               /\ tokenRows[t].expired \in BOOLEAN
               /\ tokenRows[t].rotatedTo # NoToken =>
                    tokenRows[t].rotatedTo \in Tokens /\ tokenRows[t].rotatedTo <= issued
    <2>1. tokenRows[t] \in TokenRow
      BY <1>0 DEF SessionsTypeOK
    <2>2. tokenRows[t].rotatedTo # NoToken => tokenRows[t].rotatedTo \in 1..issued
      BY <1>0 DEF LinksForward, Known
    <2> QED BY <1>1, <2>1, <2>2 DEF TokenRow
  <1>3. ASSUME NEW d \in Devices
        PROVE  /\ devices[d].held \in Tokens \cup {NoToken}
               /\ devices[d].held \in Nat /\ devices[d].held <= issued
               /\ devices[d].missed \in 0..2
    <2>1. devices[d] \in Device /\ devices[d].held <= issued
      BY <1>0 DEF SessionsTypeOK
    <2> QED BY <2>1, TokenNumbers DEF Device, NoToken
  <1> QED BY <1>0, <1>1, <1>2, <1>3 DEF SessionsTypeOK

\* At first no token is issued, and no device holds one.
LEMMA SessionsStart == SessionsInit => SessionsInv
  <1> SUFFICES ASSUME SessionsInit PROVE SessionsInv
    OBVIOUS
  <1>1. SessionsTypeOK
    <2>1. tokenRows \in [Tokens -> TokenRow] /\ devices \in [Devices -> Device]
      BY DEF SessionsInit, TokenRow, Device
    <2>2. issued \in 0..MaxToken /\ \A d \in Devices : devices[d].held <= issued
      BY TokenNumbers DEF SessionsInit, NoToken
    <2>3. usable \in BOOLEAN /\ changed \in BOOLEAN /\ missedTwice \in BOOLEAN
      BY Zenon DEF SessionsInit
    <2> QED BY <2>1, <2>2, <2>3 DEF SessionsTypeOK, SessionsInit, RefreshState
  <1>2. \A r \in Refreshes : ~InProgress(r)
    BY DEF SessionsInit, InProgress
  <1>3. LinksForward /\ TokensInOrder
    BY <1>2 DEF LinksForward, TokensInOrder, SessionsInit
  <1>4. Orderly
    <2>1. \A d \in Devices : devices[d].held = NoToken /\ devices[d].missed = 0
      BY DEF SessionsInit
    <2>2. \A t \in Tokens : tokenRows[t].rotatedTo = NoToken /\ ~tokenRows[t].expired
      BY DEF SessionsInit
    <2>3. usable
      BY DEF SessionsInit
    <2>4. NothingShared /\ RequestsFit
      BY <1>2, <2>1, <2>2 DEF NothingShared, RequestsFit
    <2>5. HeldIsGood /\ LostIsAlone
      BY <1>2, <2>1 DEF HeldIsGood, LostIsAlone
    <2> QED BY <1>2, <2>1, <2>2, <2>3, <2>4, <2>5 DEF Orderly
  <1> QED BY <1>1, <1>3, <1>4 DEF SessionsInv, SessionsSound

\* Rows that only age, and keep their links.
LEMMA RowsAge ==
    ASSUME SessionsSound, tokenRows' \in [Tokens -> TokenRow],
           \A t \in Tokens : /\ tokenRows'[t].rotatedTo = tokenRows[t].rotatedTo
                             /\ tokenRows[t].revoked => tokenRows'[t].revoked
                             /\ t > issued => tokenRows'[t].revoked = tokenRows[t].revoked,
           issued' \in 0..MaxToken, issued <= issued'
    PROVE  LinksForward' /\ \A t \in Tokens : t > issued' => ~tokenRows'[t].revoked
                                                          /\ tokenRows'[t].rotatedTo = NoToken
  <1>0. issued \in Nat /\ issued' \in Nat /\ Tokens \subseteq Nat
    BY SessionFields, TokenNumbers
  <1>1. LinksForward'
    <2>1. \A t \in Tokens : tokenRows[t].rotatedTo # NoToken =>
             tokenRows[t].revoked /\ tokenRows[t].rotatedTo > t /\ tokenRows[t].rotatedTo \in 1..issued
      BY DEF SessionsSound, LinksForward, Known
    <2>2. 1..issued \subseteq 1..issued'
      BY <1>0
    <2> QED BY <2>1, <2>2 DEF LinksForward, Known
  <1>2. \A t \in Tokens : t > issued' => t > issued
    BY <1>0
  <1>3. \A t \in Tokens : t > issued => ~tokenRows[t].revoked /\ tokenRows[t].rotatedTo = NoToken
    BY DEF SessionsSound, TokensInOrder
  <1> QED BY <1>1, <1>2, <1>3

\* Devices and requests after an answer that carries a token that is issued, or none.
LEMMA AnswerSound ==
    ASSUME SessionsSound, NEW r \in Refreshes, InProgress(r), NEW token \in 0..issued',
           Hears(r, token), issued' \in 0..MaxToken, issued <= issued'
    PROVE  /\ devices' \in [Devices -> Device] /\ \A d \in Devices : devices'[d].held <= issued'
           /\ refreshing' \in [Refreshes -> RefreshState]
           /\ \A q \in Refreshes : InProgress(q)' => refreshing'[q].raw <= issued'
  <1>0. /\ issued \in Nat /\ issued' \in Nat /\ issued' <= MaxToken
        /\ token \in Tokens \cup {NoToken} /\ token <= issued' /\ token \in Nat
    BY SessionFields, TokenNumbers DEF NoToken
  <1>1. /\ devices \in [Devices -> Device] /\ refreshing \in [Refreshes -> RefreshState]
        /\ \A d \in Devices : devices[d].held \in Nat /\ devices[d].held <= issued
    BY SessionFields
  <1>2. refreshing[r].device \in Devices
    BY RequestFields DEF SessionsSound
  <1>3. [held |-> token, missed |-> 0] \in Device
    BY <1>0 DEF Device
  <1>4. devices' \in [Devices -> Device]
    BY <1>1, <1>3 DEF Hears
  <1>5. \A d \in Devices : devices'[d].held \in {devices[d].held, token}
    BY <1>1 DEF Hears
  <1>6. \A d \in Devices : devices'[d].held <= issued'
    BY <1>0, <1>1, <1>5
  <1>7. refreshing' = [refreshing EXCEPT ![r] = NoRefresh]
    BY DEF Hears
  <1>8. refreshing' \in [Refreshes -> RefreshState]
    BY <1>1, <1>7 DEF RefreshState
  <1>9. ASSUME NEW q \in Refreshes, InProgress(q)' PROVE refreshing'[q].raw <= issued'
    <2>1. q # r /\ refreshing'[q] = refreshing[q]
      BY <1>1, <1>7, <1>9 DEF InProgress
    <2>2. InProgress(q)
      BY <1>9, <2>1 DEF InProgress
    <2>3. refreshing[q].raw <= issued /\ refreshing[q].raw \in Nat
      BY <2>2, RequestFields, TokenNumbers DEF SessionsSound, TokensInOrder
    <2> QED BY <1>0, <2>1, <2>3
  <1> QED BY <1>4, <1>6, <1>8, <1>9

\* To revoke all tokens is to age their rows.
LEMMA RevokeAllAges ==
    ASSUME SessionsSound, NEW rows, rows = RevokeAll(tokenRows)
    PROVE  /\ rows \in [Tokens -> TokenRow]
           /\ \A u \in Tokens : /\ rows[u].rotatedTo = tokenRows[u].rotatedTo
                                /\ tokenRows[u].revoked => rows[u].revoked
                                /\ u > issued => rows[u].revoked = tokenRows[u].revoked
  <1>1. tokenRows \in [Tokens -> TokenRow] /\ issued \in Nat
    BY SessionFields
  <1>2. rows = [t \in Tokens |-> IF t \in Known /\ ~tokenRows[t].revoked
                                THEN [tokenRows[t] EXCEPT !.revoked = TRUE] ELSE tokenRows[t]]
    BY DEF RevokeAll
  <1>3. ASSUME NEW u \in Tokens
        PROVE  /\ rows[u] \in TokenRow
               /\ rows[u].rotatedTo = tokenRows[u].rotatedTo
               /\ tokenRows[u].revoked => rows[u].revoked
               /\ u > issued => rows[u].revoked = tokenRows[u].revoked
    <2>1. tokenRows[u] \in TokenRow
      BY <1>1
    <2>2. u > issued => u \notin Known
      <3>1. u \in Nat
        BY TokenNumbers
      <3> QED BY <1>1, <3>1 DEF Known
    <2>3. CASE u \in Known /\ ~tokenRows[u].revoked
      <3>1. rows[u] = [tokenRows[u] EXCEPT !.revoked = TRUE]
        BY <1>2, <2>3
      <3>2. rows[u] \in TokenRow /\ rows[u].rotatedTo = tokenRows[u].rotatedTo /\ rows[u].revoked
        BY <2>1, <3>1 DEF TokenRow
      <3> QED BY <2>2, <2>3, <3>2
    <2>4. CASE ~(u \in Known /\ ~tokenRows[u].revoked)
      BY <1>2, <2>1, <2>4
    <2> QED BY <2>3, <2>4
  <1> QED BY <1>2, <1>3

\* Every step keeps rows, requests and devices sound.
LEMMA SoundStep ==
    ASSUME SessionsSound, SessionsNext
    PROVE  SessionsSound'
  <1>0. /\ SessionsTypeOK /\ LinksForward /\ TokensInOrder
        /\ issued \in Nat /\ issued <= MaxToken /\ MaxToken \in Nat /\ issued \in 0..MaxToken
        /\ tokenRows \in [Tokens -> TokenRow] /\ devices \in [Devices -> Device]
        /\ refreshing \in [Refreshes -> RefreshState]
        /\ usable \in BOOLEAN /\ changed \in BOOLEAN /\ missedTwice \in BOOLEAN
    BY SessionFields, TokenNumbers, Zenon DEF SessionsSound, SessionsTypeOK
  <1>00. /\ \A d \in Devices : devices[d].held \in Nat /\ devices[d].held <= issued
         /\ \A r \in Refreshes : InProgress(r) => refreshing[r].raw <= issued
    BY <1>0, SessionFields DEF TokensInOrder
  <1>1. ASSUME NEW d \in Devices, Login(d) PROVE SessionsSound'
    <2>1. /\ issued < MaxToken /\ issued' = issued + 1
          /\ devices' = [devices EXCEPT ![d] = [held |-> issued + 1, missed |-> 0]]
          /\ UNCHANGED <<tokenRows, usable, refreshing, changed, missedTwice>>
      BY <1>1 DEF Login
    <2>2. issued' \in 0..MaxToken /\ issued' \in Nat /\ issued' <= MaxToken /\ issued + 1 \in Tokens
      BY <1>0, <2>1, TokenNumbers
    <2>3. devices' \in [Devices -> Device] /\ \A e \in Devices : devices'[e].held <= issued'
      <3>1. [held |-> issued + 1, missed |-> 0] \in Device
        BY <2>2 DEF Device
      <3> QED BY <1>0, <1>00, <2>1, <3>1
    <2>4. \A r \in Refreshes : InProgress(r)' => refreshing'[r].raw <= issued'
      <3> SUFFICES ASSUME NEW r \in Refreshes, InProgress(r) PROVE refreshing[r].raw <= issued + 1
        BY <2>1 DEF InProgress
      <3> QED BY <1>0, <1>00, RequestFields, TokenNumbers
    <2>5. LinksForward' /\ \A t \in Tokens : t > issued' => ~tokenRows'[t].revoked
                                                          /\ tokenRows'[t].rotatedTo = NoToken
      BY <1>0, <2>1, <2>2, RowsAge
    <2> QED BY <1>0, <2>1, <2>2, <2>3, <2>4, <2>5 DEF SessionsSound, SessionsTypeOK, TokensInOrder
  <1>2. ASSUME NEW d \in Devices, NEW r \in Refreshes, RefreshBegin(d, r) PROVE SessionsSound'
    <2>1. /\ devices[d].held # NoToken
          /\ refreshing' = [refreshing EXCEPT ![r] =
                [branch |-> Branch(devices[d].held), raw |-> devices[d].held,
                 device |-> d, heard |-> TRUE]]
          /\ UNCHANGED <<tokenRows, issued, usable, devices, changed, missedTwice>>
      BY <1>2 DEF RefreshBegin
    <2>2. devices[d].held \in Tokens /\ Branch(devices[d].held) \in Branches
      <3>1. devices[d].held \in Tokens
        BY <2>1, SessionFields
      <3>2. Branch(devices[d].held) \in Branches
        BY DEF Branch, Branches
      <3> QED BY <3>1, <3>2
    <2>3. refreshing' \in [Refreshes -> RefreshState]
      BY <1>0, <2>1, <2>2 DEF RefreshState
    <2>4. \A q \in Refreshes : InProgress(q)' => refreshing'[q].raw <= issued'
      BY <1>0, <1>00, <2>1 DEF InProgress
    <2> QED BY <1>0, <2>1, <2>3, <2>4 DEF SessionsSound, SessionsTypeOK, LinksForward, Known, TokensInOrder
  <1>3. ASSUME NEW d \in Devices, GiveUp(d) PROVE SessionsSound'
    <2>1. PICK r \in Refreshes : InProgress(r) /\ refreshing' = [refreshing EXCEPT ![r].heard = FALSE]
      BY <1>3 DEF GiveUp, InProgress
    <2>2. /\ devices[d].missed < 2 /\ devices' = [devices EXCEPT ![d].missed = @ + 1]
          /\ missedTwice' = (missedTwice \/ devices[d].missed = 1)
          /\ UNCHANGED <<tokenRows, issued, usable, changed>>
      BY <1>3 DEF GiveUp
    <2>3. refreshing' \in [Refreshes -> RefreshState]
      BY <1>0, <2>1, RequestFields DEF RefreshState
    <2>4. devices' \in [Devices -> Device]
      BY <1>0, <2>2, SessionFields DEF Device
    <2>5. \A e \in Devices : devices'[e].held = devices[e].held
      BY <1>0, <2>2 DEF Device
    <2>6. \A q \in Refreshes : InProgress(q)' => refreshing'[q].raw <= issued'
      BY <1>0, <1>00, <2>1, <2>2, RequestFields DEF InProgress
    <2>7. missedTwice' \in BOOLEAN
      BY <2>2, Zenon
    <2>8. \A e \in Devices : devices'[e].held <= issued'
      BY <1>00, <2>2, <2>5
    <2> QED BY <1>0, <2>2, <2>3, <2>4, <2>6, <2>7, <2>8
            DEF SessionsSound, SessionsTypeOK, LinksForward, Known, TokensInOrder
  <1>4. ASSUME NEW d \in Devices, Logout(d) PROVE SessionsSound'
    <2> DEFINE t == devices[d].held
    <2>1. /\ t # NoToken /\ tokenRows' = [tokenRows EXCEPT ![t].revoked = TRUE]
          /\ devices' = [devices EXCEPT ![d] = [held |-> NoToken, missed |-> 0]]
          /\ refreshing' = [r \in Refreshes |->
                IF refreshing[r] # NoRefresh /\ refreshing[r].device = d
                THEN [refreshing[r] EXCEPT !.heard = FALSE] ELSE refreshing[r]]
          /\ UNCHANGED <<issued, usable, changed, missedTwice>>
      BY <1>4 DEF Logout
    <2>2. t \in Tokens /\ t <= issued
      BY <2>1, SessionFields
    <2>3. tokenRows' \in [Tokens -> TokenRow]
      BY <1>0, <2>1, <2>2 DEF TokenRow
    <2>4. LinksForward' /\ \A u \in Tokens : u > issued' => ~tokenRows'[u].revoked
                                                          /\ tokenRows'[u].rotatedTo = NoToken
      <3>1. \A u \in Tokens : /\ tokenRows'[u].rotatedTo = tokenRows[u].rotatedTo
                              /\ tokenRows[u].revoked => tokenRows'[u].revoked
                              /\ u > issued => tokenRows'[u].revoked = tokenRows[u].revoked
        <4>1. \A u \in Tokens : u > issued => u # t
          BY <1>0, <2>2, TokenNumbers
        <4> QED BY <1>0, <2>1, <2>2, <4>1 DEF TokenRow
      <3>2. issued' \in 0..MaxToken /\ issued <= issued'
        BY <1>0, <2>1
      <3> QED BY <2>3, <3>1, <3>2, RowsAge
    <2>5. devices' \in [Devices -> Device] /\ \A e \in Devices : devices'[e].held <= issued'
      <3>1. [held |-> NoToken, missed |-> 0] \in Device /\ NoToken <= issued
        BY <1>0 DEF Device, NoToken
      <3> QED BY <1>0, <1>00, <2>1, <3>1
    <2>6. ASSUME NEW r \in Refreshes
          PROVE  refreshing'[r] \in RefreshState /\ (InProgress(r)' => refreshing'[r].raw <= issued')
      <3>1. CASE InProgress(r)
        <4>1. refreshing[r] \in [branch: Branches, raw: Tokens, device: Devices, heard: BOOLEAN]
          BY <1>0, <3>1, RequestFields
        <4>2. refreshing'[r] \in {refreshing[r], [refreshing[r] EXCEPT !.heard = FALSE]}
          BY <2>1
        <4>3. refreshing'[r] \in [branch: Branches, raw: Tokens, device: Devices, heard: BOOLEAN]
          BY <4>1, <4>2
        <4>4. refreshing'[r].raw = refreshing[r].raw
          BY <4>1, <4>2
        <4> QED BY <1>00, <2>1, <3>1, <4>3, <4>4 DEF RefreshState
      <3>2. CASE ~InProgress(r)
        BY <2>1, <3>2 DEF InProgress, RefreshState
      <3> QED BY <3>1, <3>2
    <2>7. refreshing' \in [Refreshes -> RefreshState]
      BY <2>1, <2>6
    <2> HIDE DEF t
    <2> QED BY <1>0, <2>1, <2>3, <2>4, <2>5, <2>6, <2>7 DEF SessionsSound, SessionsTypeOK, TokensInOrder
  <1>5. ASSUME NEW r \in Refreshes, Rotate(r) \/ AnswerAgain(r) \/ AnswerInstead(r)
        PROVE  SessionsSound'
    <2>1. /\ InProgress(r) /\ issued < MaxToken /\ issued' = issued + 1 /\ Hears(r, issued + 1)
          /\ UNCHANGED <<usable, changed, missedTwice>>
      BY <1>5 DEF Rotate, AnswerAgain, AnswerInstead, Served, InProgress
    <2>2. /\ issued' \in 0..MaxToken /\ issued <= issued' /\ issued + 1 \in 0..issued'
          /\ issued + 1 \in Tokens
      BY <1>0, <2>1, TokenNumbers
    <2>3. /\ devices' \in [Devices -> Device] /\ \A d \in Devices : devices'[d].held <= issued'
          /\ refreshing' \in [Refreshes -> RefreshState]
          /\ \A q \in Refreshes : InProgress(q)' => refreshing'[q].raw <= issued'
      BY <2>1, <2>2, AnswerSound
    <2>4. refreshing[r].raw \in Tokens /\ refreshing[r].raw <= issued
      BY <1>0, <1>00, <2>1, RequestFields
    <2>5. /\ tokenRows' \in [Tokens -> TokenRow] /\ LinksForward'
          /\ \A t \in Tokens : t > issued' => ~tokenRows'[t].revoked /\ tokenRows'[t].rotatedTo = NoToken
      <3>1. CASE Rotate(r)
        <4> DEFINE raw == refreshing[r].raw
        <4>1. tokenRows' = [tokenRows EXCEPT ![raw] =
                 [@ EXCEPT !.revoked = TRUE, !.fresh = TRUE, !.rotatedTo = issued + 1]]
          BY <3>1 DEF Rotate
        <4>2. tokenRows' \in [Tokens -> TokenRow]
          BY <1>0, <2>2, <2>4, <4>1 DEF TokenRow
        <4>3. /\ tokenRows'[raw].revoked /\ tokenRows'[raw].rotatedTo = issued + 1
              /\ \A t \in Tokens \ {raw} : tokenRows'[t] = tokenRows[t]
          BY <1>0, <2>4, <4>1 DEF TokenRow
        <4> HIDE DEF raw
        <4>4. raw \in Tokens /\ raw <= issued /\ raw \in Nat
          BY <2>4, TokenNumbers DEF raw
        <4>5. LinksForward'
          <5>1. \A t \in Tokens : tokenRows[t].rotatedTo # NoToken =>
                   tokenRows[t].revoked /\ tokenRows[t].rotatedTo > t /\ tokenRows[t].rotatedTo \in 1..issued
            BY <1>0 DEF LinksForward, Known
          <5>2. 1..issued \subseteq 1..issued' /\ issued + 1 \in 1..issued' /\ issued + 1 > raw
            BY <1>0, <2>1, <4>4
          <5>3. ASSUME NEW t \in Tokens, tokenRows'[t].rotatedTo # NoToken
                PROVE  /\ tokenRows'[t].revoked /\ tokenRows'[t].rotatedTo > t
                       /\ tokenRows'[t].rotatedTo \in 1..issued'
            BY <4>3, <5>1, <5>2, <5>3
          <5> QED BY <5>3 DEF LinksForward, Known
        <4>6. \A t \in Tokens : t > issued' => t > issued /\ t # raw
          BY <1>0, <2>1, <4>4, TokenNumbers
        <4> QED BY <1>0, <4>2, <4>3, <4>5, <4>6 DEF TokensInOrder
      <3>2. CASE AnswerAgain(r)
        <4>1. tokenRows' = tokenRows
          BY <3>2 DEF AnswerAgain
        <4> QED BY <1>0, <2>2, <4>1, RowsAge
      <3>3. CASE AnswerInstead(r)
        <4> DEFINE t == tokenRows[refreshing[r].raw].rotatedTo
        <4>1. tokenRows' = [tokenRows EXCEPT ![t] = [@ EXCEPT !.revoked = TRUE]]
          BY <3>3 DEF AnswerInstead
        <4>2. t \in Tokens => t <= issued
          BY <2>4, SessionFields, TokenNumbers
        <4> HIDE DEF t
        <4>3. tokenRows' \in [Tokens -> TokenRow]
          BY <1>0, <4>1 DEF TokenRow
        <4>4. \A u \in Tokens : /\ tokenRows'[u].rotatedTo = tokenRows[u].rotatedTo
                                /\ tokenRows[u].revoked => tokenRows'[u].revoked
                                /\ u > issued => tokenRows'[u].revoked = tokenRows[u].revoked
          <5>1. \A u \in Tokens : u > issued => u # t
            BY <1>0, <4>2, TokenNumbers
          <5> QED BY <1>0, <4>1, <5>1 DEF TokenRow
        <4> QED BY <2>2, <4>3, <4>4, RowsAge
      <3> QED BY <1>5, <3>1, <3>2, <3>3
    <2> QED BY <1>0, <2>1, <2>2, <2>3, <2>5 DEF SessionsSound, SessionsTypeOK, TokensInOrder
  <1>6. ASSUME NEW r \in Refreshes, Reuse(r) \/ Refuse(r) PROVE SessionsSound'
    <2>1. /\ InProgress(r) /\ Hears(r, NoToken) /\ UNCHANGED <<issued, usable, changed, missedTwice>>
          /\ tokenRows' \in {tokenRows, RevokeAll(tokenRows)}
      BY <1>6 DEF Reuse, Refuse, Served, InProgress
    <2>2. NoToken \in 0..issued' /\ issued' \in 0..MaxToken /\ issued <= issued'
      BY <1>0, <2>1 DEF NoToken
    <2>3. /\ devices' \in [Devices -> Device] /\ \A d \in Devices : devices'[d].held <= issued'
          /\ refreshing' \in [Refreshes -> RefreshState]
          /\ \A q \in Refreshes : InProgress(q)' => refreshing'[q].raw <= issued'
      BY <2>1, <2>2, AnswerSound
    <2>4. /\ tokenRows' \in [Tokens -> TokenRow]
          /\ \A u \in Tokens : /\ tokenRows'[u].rotatedTo = tokenRows[u].rotatedTo
                               /\ tokenRows[u].revoked => tokenRows'[u].revoked
                               /\ u > issued => tokenRows'[u].revoked = tokenRows[u].revoked
      <3>1. CASE tokenRows' = tokenRows
        BY <1>0, <3>1
      <3>2. CASE tokenRows' = RevokeAll(tokenRows)
        BY <3>2, RevokeAllAges
      <3> QED BY <2>1, <3>1, <3>2
    <2>5. LinksForward' /\ \A t \in Tokens : t > issued' => ~tokenRows'[t].revoked
                                                          /\ tokenRows'[t].rotatedTo = NoToken
      BY <2>2, <2>4, RowsAge
    <2> QED BY <1>0, <2>1, <2>2, <2>3, <2>4, <2>5 DEF SessionsSound, SessionsTypeOK, TokensInOrder
  <1>7. ASSUME NEW r \in Refreshes, RefreshFails(r) PROVE SessionsSound'
    <2>1. /\ refreshing' = [refreshing EXCEPT ![r] = NoRefresh]
          /\ UNCHANGED <<tokenRows, issued, usable, devices, changed, missedTwice>>
      BY <1>7 DEF RefreshFails
    <2>2. refreshing' \in [Refreshes -> RefreshState]
      BY <1>0, <2>1 DEF RefreshState
    <2>3. \A q \in Refreshes : InProgress(q)' => refreshing'[q].raw <= issued'
      BY <1>0, <1>00, <2>1 DEF InProgress
    <2> QED BY <1>0, <2>1, <2>2, <2>3 DEF SessionsSound, SessionsTypeOK, LinksForward, Known, TokensInOrder
  <1>8. ASSUME NEW t \in Tokens, ChangePassword \/ (\E active \in BOOLEAN : SetUsable(active))
                                 \/ GraceEnds(t) \/ Expire(t)
        PROVE  SessionsSound'
    <2>1. UNCHANGED <<issued, devices, refreshing, missedTwice>> /\ usable' \in BOOLEAN /\ changed' \in BOOLEAN
      <3>1. UNCHANGED <<issued, devices, refreshing, missedTwice>>
        BY <1>8 DEF ChangePassword, SetUsable, GraceEnds, Expire
      <3>2. usable' \in BOOLEAN /\ changed' \in BOOLEAN
        BY <1>0, <1>8, Zenon DEF ChangePassword, SetUsable, GraceEnds, Expire
      <3> QED BY <3>1, <3>2
    <2>2. /\ tokenRows' \in [Tokens -> TokenRow]
          /\ \A u \in Tokens : /\ tokenRows'[u].rotatedTo = tokenRows[u].rotatedTo
                               /\ tokenRows[u].revoked => tokenRows'[u].revoked
                               /\ u > issued => tokenRows'[u].revoked = tokenRows[u].revoked
      <3>1. CASE ChangePassword
        BY <3>1, RevokeAllAges DEF ChangePassword
      <3>2. CASE \E active \in BOOLEAN : SetUsable(active)
        BY <1>0, <3>2 DEF SetUsable
      <3>3. CASE GraceEnds(t)
        BY <1>0, <3>3 DEF GraceEnds, TokenRow
      <3>4. CASE Expire(t)
        BY <1>0, <3>4 DEF Expire, TokenRow
      <3> QED BY <1>8, <3>1, <3>2, <3>3, <3>4
    <2>3. LinksForward' /\ \A u \in Tokens : u > issued' => ~tokenRows'[u].revoked
                                                          /\ tokenRows'[u].rotatedTo = NoToken
      <3>1. issued' \in 0..MaxToken /\ issued <= issued'
        BY <1>0, <2>1
      <3> QED BY <2>2, <3>1, RowsAge
    <2> QED BY <1>0, <1>00, <2>1, <2>2, <2>3 DEF SessionsSound, SessionsTypeOK, TokensInOrder, InProgress
  <1>9. ASSUME ChangePassword \/ (\E active \in BOOLEAN : SetUsable(active)) PROVE SessionsSound'
    <2>1. 1 \in Tokens
      BY SessionsAssumption DEF Tokens
    <2> QED BY <1>8, <1>9, <2>1
  <1> QED BY <1>1, <1>2, <1>3, <1>4, <1>5, <1>6, <1>7, <1>8, <1>9 DEF SessionsNext

-----------------------------------------------------------------------------
(* Refresh tokens: while nothing but the rotation has touched the sessions *)

\* The parts of the invariant, for a state that nothing else has touched.
LEMMA OrderlyParts ==
    ASSUME SessionsInv, ~changed, ~missedTwice
    PROVE  /\ SessionsSound /\ SessionsTypeOK
           /\ usable /\ \A t \in Tokens : ~tokenRows[t].expired
           /\ \A r \in Refreshes : InProgress(r) => refreshing[r].branch \in {"rotate", "grace", "lost"}
           /\ \A d \in Devices : devices[d].missed < 2
           /\ NothingShared /\ RequestsFit /\ HeldIsGood /\ LostIsAlone
  BY DEF SessionsInv, Orderly, SessionsSound

\* The branch of a token that a device holds: nobody is thrown out.
LEMMA HeldBranch ==
    ASSUME SessionsInv, ~changed, ~missedTwice, NEW d \in Devices, devices[d].held # NoToken
    PROVE  LET t == devices[d].held IN
           /\ t \in Tokens /\ t <= issued
           /\ Branch(t) \in {"rotate", "grace", "lost"}
           /\ StillGood(t, devices[d].missed) => Branch(t) = "rotate"
  <1> DEFINE t == devices[d].held
             next == tokenRows[t].rotatedTo
  <1>1. t \in Tokens /\ t <= issued
    BY SessionFields DEF SessionsInv
  <1>2. usable /\ ~tokenRows[t].expired
    BY <1>1, OrderlyParts
  <1>3. StillGood(t, devices[d].missed) \/ AnswerLost(t, devices[d].missed)
    BY OrderlyParts DEF HeldIsGood
  <1>4. ASSUME StillGood(t, devices[d].missed) PROVE Branch(t) = "rotate"
    BY <1>2, <1>4 DEF StillGood, Branch
  <1>5. ASSUME AnswerLost(t, devices[d].missed) PROVE Branch(t) \in {"grace", "lost"}
    <2>1. tokenRows[t].revoked /\ next # NoToken /\ ~tokenRows[next].revoked
      BY <1>5 DEF AnswerLost
    <2>2. next \in Tokens /\ next \in Known
      BY <1>1, <2>1, SessionFields DEF SessionsInv, SessionsSound, LinksForward
    <2>3. Live(next)
      BY <2>1, <2>2, OrderlyParts DEF Live
    <2> QED BY <1>2, <2>1, <2>3 DEF Branch
  <1> QED BY <1>1, <1>3, <1>4, <1>5

\* The token that is issued next is nobody's and nothing's.
LEMMA NextToken ==
    ASSUME SessionsSound, issued < MaxToken, NEW n, n = issued + 1
    PROVE  /\ n \in Tokens /\ n > issued /\ n # NoToken
           /\ \A e \in Devices : devices[e].held # n
           /\ \A r \in Refreshes : InProgress(r) => refreshing[r].raw # n
           /\ \A t \in Tokens : tokenRows[t].rotatedTo # n
           /\ ~tokenRows[n].revoked
  <1>1. issued \in Nat /\ n \in Nat /\ n \in Tokens /\ n > issued /\ n # NoToken
    BY SessionFields, TokenNumbers
  <1>2. \A e \in Devices : devices[e].held \in Nat /\ devices[e].held <= issued
    BY SessionFields
  <1>3. \A r \in Refreshes : InProgress(r) => refreshing[r].raw \in Nat /\ refreshing[r].raw <= issued
    BY RequestFields, TokenNumbers DEF SessionsSound, TokensInOrder
  <1>4. \A t \in Tokens : tokenRows[t].rotatedTo \in Nat /\ tokenRows[t].rotatedTo <= issued
    BY <1>1, SessionFields, TokenNumbers DEF NoToken
  <1>5. ~tokenRows[n].revoked
    BY <1>1 DEF SessionsSound, TokensInOrder
  <1> QED BY <1>1, <1>2, <1>3, <1>4, <1>5

\* A login: the new token is nobody else's.
LEMMA LoginOrderly ==
    ASSUME SessionsInv, ~changed, ~missedTwice, NEW d \in Devices, Login(d)
    PROVE  Orderly'
  <1> DEFINE n == issued + 1
  <1>0. /\ n \in Tokens /\ n > issued
        /\ devices' = [devices EXCEPT ![d] = [held |-> n, missed |-> 0]]
        /\ UNCHANGED <<tokenRows, usable, refreshing, changed, missedTwice>>
    BY SessionFields, TokenNumbers DEF Login, SessionsInv
  <1> HIDE DEF n
  <1>1. /\ devices'[d] = [held |-> n, missed |-> 0]
        /\ \A e \in Devices \ {d} : devices'[e] = devices[e]
    BY <1>0, SessionFields DEF SessionsInv
  <1>2. /\ \A e \in Devices : devices[e].held # n
        /\ \A r \in Refreshes : InProgress(r) => refreshing[r].raw # n
        /\ \A t \in Tokens : tokenRows[t].rotatedTo # n
        /\ ~tokenRows[n].revoked
        /\ n # NoToken
    <2>1. SessionsSound /\ issued < MaxToken
      BY DEF Login, SessionsInv
    <2> QED BY <2>1, NextToken DEF n
  <1>3. usable' /\ \A t \in Tokens : ~tokenRows'[t].expired
    BY <1>0, OrderlyParts
  <1>4. \A r \in Refreshes : InProgress(r)' => refreshing'[r].branch \in {"rotate", "grace", "lost"}
    BY <1>0, OrderlyParts DEF InProgress
  <1>5. \A e \in Devices : devices'[e].missed < 2
    BY <1>1, OrderlyParts
  <1>6. NothingShared'
    BY <1>0, <1>1, <1>2, OrderlyParts DEF NothingShared
  <1>7. RequestsFit'
    <2>1. devices[d].held = NoToken
      BY DEF Login
    <2>2. \A r \in Refreshes : InProgress(r) => refreshing[r].raw # NoToken
      BY RequestFields, TokenNumbers DEF SessionsInv, SessionsSound
    <2>3. \A r \in Refreshes : InProgress(r) /\ refreshing[r].heard => refreshing[r].device # d
      BY <2>1, <2>2, OrderlyParts DEF RequestsFit
    <2>4. \A r \in Refreshes : InProgress(r) => refreshing[r].device \in Devices
      BY RequestFields DEF SessionsInv, SessionsSound
    <2> QED BY <1>0, <1>1, <1>2, <2>3, <2>4, OrderlyParts DEF RequestsFit, InProgress
  <1>8. HeldIsGood'
    <2> SUFFICES ASSUME NEW e \in Devices, devices'[e].held # NoToken
                 PROVE  \/ StillGood(devices[e].held, devices[e].missed)'
                        \/ AnswerLost(devices[e].held, devices[e].missed)'
      BY DEF HeldIsGood
    <2>1. CASE e = d
      <3>1. \A r \in Refreshes : InProgress(r)' => refreshing'[r].raw # n
        BY <1>0, <1>2 DEF InProgress
      <3> QED BY <1>0, <1>1, <1>2, <2>1, <3>1 DEF StillGood, NoneLeft
    <2>2. CASE e # d
      <3>1. devices'[e] = devices[e]
        BY <1>1, <2>2
      <3>2. CASE StillGood(devices[e].held, devices[e].missed)
        BY <1>0, <3>1, <3>2 DEF StillGood, NoneLeft, InProgress
      <3>3. CASE AnswerLost(devices[e].held, devices[e].missed)
        <4>1. devices[e].held \in Tokens
          BY <3>1, SessionFields DEF SessionsInv
        <4>2. tokenRows[devices[e].held].rotatedTo # n
          BY <1>2, <4>1
        <4> QED BY <1>0, <1>1, <3>1, <3>3, <4>2 DEF AnswerLost, NoneLeft, Unseen, InProgress
      <3> QED BY <3>1, <3>2, <3>3, OrderlyParts DEF HeldIsGood
    <2> QED BY <2>1, <2>2
  <1>9. LostIsAlone'
    <2>1. \A r \in Refreshes : InProgress(r) => tokenRows[refreshing[r].raw].rotatedTo # n
      BY <1>2, RequestFields DEF SessionsInv, SessionsSound
    <2> QED BY <1>0, <1>1, <2>1, OrderlyParts DEF LostIsAlone, InProgress
  <1> QED BY <1>3, <1>4, <1>5, <1>6, <1>7, <1>8, <1>9 DEF Orderly

\* What the three answers write to the rows, by the branch of the request.
LEMMA AnswerRows ==
    ASSUME SessionsInv, ~changed, ~missedTwice, NEW r \in Refreshes, NEW n, n = issued + 1,
           Rotate(r) \/ AnswerAgain(r) \/ AnswerInstead(r)
    PROVE  LET raw == refreshing[r].raw
               rotates == refreshing[r].branch = "rotate"
               drops(t) == refreshing[r].branch = "lost" /\ t = tokenRows[raw].rotatedTo
           IN  \A t \in Tokens :
                 /\ tokenRows'[t].expired = tokenRows[t].expired
                 /\ t = raw /\ rotates => tokenRows'[t].revoked /\ tokenRows'[t].rotatedTo = n
                 /\ ~(t = raw /\ rotates) => tokenRows'[t].rotatedTo = tokenRows[t].rotatedTo
                 /\ ~(t = raw /\ rotates) /\ ~drops(t) => tokenRows'[t].revoked = tokenRows[t].revoked
  <1> DEFINE raw == refreshing[r].raw
  <1>1. tokenRows \in [Tokens -> TokenRow]
    BY SessionFields DEF SessionsInv
  <1>2. raw \in Tokens
    BY RequestFields DEF SessionsInv, SessionsSound, Rotate, AnswerAgain, AnswerInstead, Served, InProgress
  <1> HIDE DEF raw
  <1>3. CASE Rotate(r)
    <2>1. /\ refreshing[r].branch = "rotate"
          /\ tokenRows' = [tokenRows EXCEPT ![raw] =
                [@ EXCEPT !.revoked = TRUE, !.fresh = TRUE, !.rotatedTo = n]]
      BY <1>3 DEF Rotate, Served, raw
    <2> QED BY <1>1, <1>2, <2>1 DEF TokenRow, raw
  <1>4. CASE AnswerAgain(r)
    BY <1>4 DEF AnswerAgain, Served
  <1>5. CASE AnswerInstead(r)
    <2> DEFINE target == tokenRows[raw].rotatedTo
    <2>1. /\ refreshing[r].branch = "lost"
          /\ tokenRows' = [tokenRows EXCEPT ![target] = [@ EXCEPT !.revoked = TRUE]]
      BY <1>5 DEF AnswerInstead, Served, raw
    <2> HIDE DEF target
    <2>2. \A t \in Tokens : /\ tokenRows'[t].expired = tokenRows[t].expired
                            /\ tokenRows'[t].rotatedTo = tokenRows[t].rotatedTo
                            /\ t # target => tokenRows'[t].revoked = tokenRows[t].revoked
      BY <1>1, <2>1 DEF TokenRow
    <2> QED BY <2>1, <2>2 DEF target, raw
  <1> QED BY <1>3, <1>4, <1>5

\* An answer with a new token.
LEMMA AnswerOrderly ==
    ASSUME SessionsInv, ~changed, ~missedTwice, NEW r \in Refreshes,
           Rotate(r) \/ AnswerAgain(r) \/ AnswerInstead(r)
    PROVE  Orderly'
  <1> DEFINE n == issued + 1
             raw == refreshing[r].raw
             d == refreshing[r].device
             rotates == refreshing[r].branch = "rotate"
             drops(t) == refreshing[r].branch = "lost" /\ t = tokenRows[raw].rotatedTo
  <1>1. /\ InProgress(r) /\ issued < MaxToken /\ Hears(r, n) /\ usable' = usable
        /\ refreshing[r].branch \in {"rotate", "grace", "lost"}
        /\ rotates \/ refreshing[r].branch \in {"grace", "lost"}
    BY DEF Rotate, AnswerAgain, AnswerInstead, Served, InProgress
  <1>2. /\ SessionsSound /\ SessionsTypeOK /\ raw \in Tokens /\ raw # NoToken /\ d \in Devices
        /\ refreshing[r].heard \in BOOLEAN
    BY <1>1, RequestFields, TokenNumbers DEF SessionsInv, SessionsSound
  <1>3. /\ n \in Tokens /\ n > issued /\ n # NoToken
        /\ \A e \in Devices : devices[e].held # n
        /\ \A q \in Refreshes : InProgress(q) => refreshing[q].raw # n
        /\ \A t \in Tokens : tokenRows[t].rotatedTo # n
        /\ ~tokenRows[n].revoked
    BY <1>1, <1>2, NextToken
  <1>4. \A t \in Tokens :
          /\ tokenRows'[t].expired = tokenRows[t].expired
          /\ t = raw /\ rotates => tokenRows'[t].revoked /\ tokenRows'[t].rotatedTo = n
          /\ ~(t = raw /\ rotates) => tokenRows'[t].rotatedTo = tokenRows[t].rotatedTo
          /\ ~(t = raw /\ rotates) /\ ~drops(t) => tokenRows'[t].revoked = tokenRows[t].revoked
    BY AnswerRows
  <1> HIDE DEF n
  <1>5. \A q \in Refreshes : InProgress(q)' => q # r /\ InProgress(q) /\ refreshing'[q] = refreshing[q]
    BY <1>1, <1>2 DEF Hears, InProgress, SessionsTypeOK
  <1>6. /\ refreshing[r].heard => devices'[d] = [held |-> n, missed |-> 0]
        /\ \A e \in Devices : e # d \/ ~refreshing[r].heard => devices'[e] = devices[e]
    BY <1>1, <1>2 DEF Hears, SessionsTypeOK
  <1>7. /\ usable /\ \A t \in Tokens : ~tokenRows[t].expired
        /\ \A q \in Refreshes : InProgress(q) => refreshing[q].branch \in {"rotate", "grace", "lost"}
        /\ \A e \in Devices : devices[e].missed < 2
        /\ NothingShared /\ RequestsFit /\ HeldIsGood /\ LostIsAlone
    BY OrderlyParts
  <1>8. \A q \in Refreshes : InProgress(q) => refreshing[q].raw \in Tokens /\ refreshing[q].device \in Devices
    BY <1>2, RequestFields
  <1>9. \A e \in Devices : devices[e].held # NoToken => devices[e].held \in Tokens
    BY <1>2, SessionFields
  <1> HIDE DEF raw, d
  <1>10. drops(n) = FALSE /\ ~tokenRows'[n].revoked
    <2>1. tokenRows[raw].rotatedTo # n
      BY <1>2, <1>3
    <2>2. n # raw
      BY <1>1, <1>3 DEF raw
    <2> QED BY <1>3, <1>4, <2>1, <2>2
  <1>11. NothingShared'
    <2>1. \A e, f \in Devices : devices'[e].held = devices'[f].held /\ devices'[e].held # NoToken => e = f
      BY <1>3, <1>6, <1>7 DEF NothingShared
    <2>2. \A t, u \in Tokens : tokenRows'[t].rotatedTo = tokenRows'[u].rotatedTo
                               /\ tokenRows'[t].rotatedTo # NoToken => t = u
      BY <1>3, <1>4, <1>7 DEF NothingShared
    <2> QED BY <2>1, <2>2 DEF NothingShared
  <1>12. RequestsFit'
    <2>1. ASSUME NEW q \in Refreshes, InProgress(q)', refreshing'[q].heard
          PROVE  devices'[refreshing'[q].device].held = refreshing'[q].raw
      <3>1. q # r /\ InProgress(q) /\ refreshing'[q] = refreshing[q]
        BY <1>5, <2>1
      <3>2. refreshing[q].device # d \/ ~refreshing[r].heard
        BY <1>1, <1>7, <2>1, <3>1 DEF RequestsFit, d
      <3> QED BY <1>6, <1>7, <1>8, <2>1, <3>1, <3>2 DEF RequestsFit
    <2>2. ASSUME NEW q \in Refreshes, NEW p \in Refreshes, InProgress(q)', InProgress(p)',
                 refreshing'[q].heard, refreshing'[p].heard, refreshing'[q].device = refreshing'[p].device
          PROVE  q = p
      BY <1>5, <1>7, <2>2 DEF RequestsFit
    <2>3. ASSUME NEW q \in Refreshes, NEW e \in Devices, InProgress(q)',
                 refreshing'[q].raw = devices'[e].held
          PROVE  refreshing'[q].device = e
      BY <1>3, <1>5, <1>6, <1>7, <2>3 DEF RequestsFit
    <2> QED BY <2>1, <2>2, <2>3 DEF RequestsFit
  <1>13. HeldIsGood'
    <2> SUFFICES ASSUME NEW e \in Devices, devices'[e].held # NoToken
                 PROVE  \/ StillGood(devices[e].held, devices[e].missed)'
                        \/ AnswerLost(devices[e].held, devices[e].missed)'
      BY DEF HeldIsGood
    <2>1. CASE e = d /\ refreshing[r].heard
      <3>1. \A q \in Refreshes : InProgress(q)' => refreshing'[q].raw # n
        BY <1>3, <1>5
      <3> QED BY <1>6, <1>10, <2>1, <3>1 DEF StillGood, NoneLeft
    <2>2. CASE ~(e = d /\ refreshing[r].heard)
      <3> DEFINE t == devices[e].held
                 m == devices[e].missed
      <3>1. devices'[e] = devices[e] /\ t \in Tokens
        BY <1>6, <1>9, <2>2
      <3>2. StillGood(t, m) \/ AnswerLost(t, m)
        BY <1>7, <3>1 DEF HeldIsGood
      <3>3. ASSUME raw = t PROVE AnswerLost(devices[e].held, devices[e].missed)'
        <4>1. d = e /\ ~refreshing[r].heard
          BY <1>1, <1>7, <2>2, <3>3 DEF RequestsFit, raw, d
        <4>2. ~NoneLeft(t)
          BY <1>1, <3>3, <4>1 DEF NoneLeft, raw
        <4>3. StillGood(t, m) /\ m # 0
          BY <3>2, <4>2 DEF AnswerLost, StillGood
        <4>4. m = 1
          <5>1. m \in 0..2 /\ m < 2
            BY <1>2, <1>7, SessionFields
          <5> QED BY <4>3, <5>1
        <4>5. rotates
          BY <1>1, <3>3, <4>3 DEF StillGood, raw
        <4>6. tokenRows'[t].revoked /\ tokenRows'[t].rotatedTo = n
          BY <1>4, <3>1, <3>3, <4>5
        <4>7. devices' = devices
          BY <1>1, <4>1 DEF Hears
        <4>8. /\ \A f \in Devices : devices'[f].held # n
              /\ \A q \in Refreshes : InProgress(q)' => refreshing'[q].raw # n
          BY <1>3, <1>5, <4>7
        <4>9. \A q \in Refreshes : InProgress(q)' /\ refreshing'[q].raw = t => refreshing'[q].heard
          <5> SUFFICES ASSUME NEW q \in Refreshes, InProgress(q)', refreshing'[q].raw = t, ~refreshing'[q].heard
                       PROVE  FALSE
            BY <1>5, RequestFields
          <5>1. q # r /\ InProgress(q) /\ refreshing[q].raw = t /\ ~refreshing[q].heard
            BY <1>5
          <5> QED BY <1>1, <3>3, <4>1, <4>3, <5>1 DEF StillGood, raw
        <4> QED BY <1>3, <1>10, <3>1, <4>4, <4>6, <4>7, <4>8, <4>9 DEF AnswerLost, NoneLeft, Unseen
      <3>4. ASSUME raw # t, StillGood(t, m) PROVE StillGood(devices[e].held, devices[e].missed)'
        <4>1. ~drops(t)
          BY <1>1, <1>7 DEF LostIsAlone, raw
        <4>2. tokenRows'[t].revoked = tokenRows[t].revoked
          BY <1>4, <3>1, <3>4, <4>1
        <4> QED BY <1>5, <3>1, <3>4, <4>2 DEF StillGood, NoneLeft
      <3>5. ASSUME raw # t, AnswerLost(t, m) PROVE AnswerLost(devices[e].held, devices[e].missed)'
        <4> DEFINE next == tokenRows[t].rotatedTo
        <4>1. /\ m = 1 /\ tokenRows[t].revoked /\ next # NoToken /\ ~tokenRows[next].revoked
              /\ Unseen(next) /\ NoneLeft(t)
          BY <3>5 DEF AnswerLost
        <4>2. next \in Tokens /\ next # n
          BY <1>2, <1>3, <3>1, <4>1, SessionFields
        <4>3. tokenRows'[t].revoked /\ tokenRows'[t].rotatedTo = next
          <5>1. ~drops(t)
            BY <1>1, <1>7 DEF LostIsAlone, raw
          <5> QED BY <1>4, <3>1, <3>5, <4>1, <5>1
        <4>4. ~tokenRows'[next].revoked
          <5>1. next # raw
            BY <1>1, <4>1 DEF Unseen, raw
          <5>2. ~drops(next)
            <6>1. next = tokenRows[raw].rotatedTo => t = raw
              BY <1>2, <1>7, <3>1, <4>1 DEF NothingShared
            <6> QED BY <3>5, <6>1
          <5> QED BY <1>4, <4>1, <4>2, <5>1, <5>2
        <4>5. /\ \A f \in Devices : devices'[f].held # next
              /\ \A q \in Refreshes : InProgress(q)' => refreshing'[q].raw # next
          BY <1>5, <1>6, <4>1, <4>2 DEF Unseen
        <4>6. \A q \in Refreshes : InProgress(q)' /\ refreshing'[q].raw = t => refreshing'[q].heard
          BY <1>5, <4>1 DEF NoneLeft
        <4> HIDE DEF next
        <4> QED BY <3>1, <4>1, <4>2, <4>3, <4>4, <4>5, <4>6 DEF AnswerLost, NoneLeft, Unseen
      <3> QED BY <3>2, <3>3, <3>4, <3>5
    <2> QED BY <2>1, <2>2
  <1>14. LostIsAlone'
    <2> SUFFICES ASSUME NEW q \in Refreshes, InProgress(q)', refreshing'[q].branch = "lost"
                 PROVE  /\ tokenRows'[refreshing'[q].raw].rotatedTo # NoToken
                        /\ \A e \in Devices : devices'[e].held # tokenRows'[refreshing'[q].raw].rotatedTo
                        /\ \A p \in Refreshes \ {q} : InProgress(p)' => refreshing'[p].raw # refreshing'[q].raw
      BY DEF LostIsAlone
    <2> DEFINE other == refreshing[q].raw
    <2>1. q # r /\ InProgress(q) /\ refreshing'[q] = refreshing[q] /\ other \in Tokens
      BY <1>5, <1>8
    <2>2. /\ tokenRows[other].rotatedTo # NoToken
          /\ \A e \in Devices : devices[e].held # tokenRows[other].rotatedTo
          /\ \A p \in Refreshes \ {q} : InProgress(p) => refreshing[p].raw # other
      BY <1>7, <2>1 DEF LostIsAlone
    <2>3. other # raw
      BY <1>1, <2>1, <2>2 DEF raw
    <2>4. tokenRows'[other].rotatedTo = tokenRows[other].rotatedTo /\ tokenRows[other].rotatedTo # n
      BY <1>3, <1>4, <2>1, <2>3
    <2>5. \A e \in Devices : devices'[e].held # tokenRows[other].rotatedTo
      BY <1>6, <2>2, <2>4
    <2>6. \A p \in Refreshes \ {q} : InProgress(p)' => refreshing'[p].raw # other
      BY <1>5, <2>2
    <2> QED BY <2>1, <2>2, <2>4, <2>5, <2>6
  <1>15. usable' /\ \A t \in Tokens : ~tokenRows'[t].expired
    BY <1>1, <1>4, <1>7
  <1>16. \A q \in Refreshes : InProgress(q)' => refreshing'[q].branch \in {"rotate", "grace", "lost"}
    BY <1>5, <1>7
  <1>17. \A e \in Devices : devices'[e].missed < 2
    BY <1>6, <1>7
  <1> QED BY <1>11, <1>12, <1>13, <1>14, <1>15, <1>16, <1>17 DEF Orderly

\* The beginning of a refresh, by a device that waits for no other.
LEMMA BeginOrderly ==
    ASSUME SessionsInv, ~changed, ~missedTwice, NEW d \in Devices, NEW r \in Refreshes,
           RefreshBegin(d, r)
    PROVE  Orderly'
  <1> DEFINE t == devices[d].held
             m == devices[d].missed
             next == tokenRows[t].rotatedTo
  <1>1. /\ t # NoToken /\ ~Waiting(d) /\ ~InProgress(r)
        /\ refreshing' = [refreshing EXCEPT ![r] =
              [branch |-> Branch(t), raw |-> t, device |-> d, heard |-> TRUE]]
        /\ UNCHANGED <<tokenRows, issued, usable, devices, changed, missedTwice>>
    BY DEF RefreshBegin, InProgress
  <1>2. /\ t \in Tokens /\ t <= issued /\ Branch(t) \in {"rotate", "grace", "lost"}
        /\ StillGood(t, m) => Branch(t) = "rotate"
    BY <1>1, HeldBranch
  <1>3. /\ SessionsSound /\ refreshing \in [Refreshes -> RefreshState]
        /\ usable /\ \A u \in Tokens : ~tokenRows[u].expired
        /\ \A q \in Refreshes : InProgress(q) => refreshing[q].branch \in {"rotate", "grace", "lost"}
        /\ \A e \in Devices : devices[e].missed < 2
        /\ NothingShared /\ RequestsFit /\ HeldIsGood /\ LostIsAlone
    BY OrderlyParts, SessionFields
  <1>4. StillGood(t, m) \/ AnswerLost(t, m)
    BY <1>1, <1>3 DEF HeldIsGood
  <1> HIDE DEF t, m
  <1>5. /\ refreshing'[r].branch = Branch(t) /\ refreshing'[r].raw = t
        /\ refreshing'[r].device = d /\ refreshing'[r].heard
        /\ \A q \in Refreshes \ {r} : refreshing'[q] = refreshing[q]
    BY <1>1, <1>3
  <1>6. \A q \in Refreshes \ {r} : InProgress(q)' <=> InProgress(q)
    BY <1>5 DEF InProgress
  \* No other request about the token is in progress, but for one that the device has
  \* given up, and that one rotates it.
  <1>7. \A q \in Refreshes : InProgress(q) /\ refreshing[q].raw = t =>
           StillGood(t, m) /\ ~refreshing[q].heard
    <2> SUFFICES ASSUME NEW q \in Refreshes, InProgress(q), refreshing[q].raw = t
                 PROVE  StillGood(t, m) /\ ~refreshing[q].heard
      OBVIOUS
    <2>1. refreshing[q].device = d
      BY <1>3 DEF RequestsFit, t
    <2>2. ~refreshing[q].heard
      BY <1>1, <2>1 DEF Waiting, InProgress
    <2>3. ~AnswerLost(t, m)
      BY <2>2 DEF AnswerLost, NoneLeft
    <2> QED BY <1>4, <2>2, <2>3
  <1>8. RequestsFit'
    <2>1. ASSUME NEW q \in Refreshes, InProgress(q)', refreshing'[q].heard
          PROVE  devices'[refreshing'[q].device].held = refreshing'[q].raw
      BY <1>1, <1>3, <1>5, <1>6, <2>1 DEF RequestsFit, t
    <2>2. ASSUME NEW q \in Refreshes, NEW p \in Refreshes, InProgress(q)', InProgress(p)',
                 refreshing'[q].heard, refreshing'[p].heard, refreshing'[q].device = refreshing'[p].device
          PROVE  q = p
      <3>1. \A x \in Refreshes \ {r} : InProgress(x) /\ refreshing[x].heard => refreshing[x].device # d
        BY <1>1 DEF Waiting, InProgress
      <3> QED BY <1>3, <1>5, <1>6, <2>2, <3>1 DEF RequestsFit
    <2>3. ASSUME NEW q \in Refreshes, NEW e \in Devices, InProgress(q)',
                 refreshing'[q].raw = devices'[e].held
          PROVE  refreshing'[q].device = e
      BY <1>1, <1>3, <1>5, <1>6, <2>3 DEF RequestsFit, NothingShared, t
    <2> QED BY <2>1, <2>2, <2>3 DEF RequestsFit
  <1>9. HeldIsGood'
    <2> SUFFICES ASSUME NEW e \in Devices, devices[e].held # NoToken
                 PROVE  \/ StillGood(devices[e].held, devices[e].missed)'
                        \/ AnswerLost(devices[e].held, devices[e].missed)'
      BY <1>1 DEF HeldIsGood
    <2> DEFINE u == devices[e].held
               k == devices[e].missed
    <2>1. devices' = devices /\ tokenRows' = tokenRows
      BY <1>1
    <2>2. ASSUME StillGood(u, k) PROVE StillGood(devices[e].held, devices[e].missed)'
      <3>1. u = t => e = d
        BY <1>1, <1>3 DEF NothingShared, t
      <3>2. u = t => Branch(t) = "rotate"
        BY <1>2, <2>2, <3>1 DEF t, m
      <3> QED BY <1>5, <1>6, <2>1, <2>2, <3>2 DEF StillGood, NoneLeft
    <2>3. ASSUME AnswerLost(u, k) PROVE AnswerLost(devices[e].held, devices[e].missed)'
      <3>1. tokenRows[u].rotatedTo # t
        BY <2>3 DEF AnswerLost, Unseen, t
      <3> QED BY <1>5, <1>6, <2>1, <2>3, <3>1 DEF AnswerLost, NoneLeft, Unseen
    <2> QED BY <1>3, <2>2, <2>3 DEF HeldIsGood
  <1>10. LostIsAlone'
    <2> SUFFICES ASSUME NEW q \in Refreshes, InProgress(q)', refreshing'[q].branch = "lost"
                 PROVE  /\ tokenRows[refreshing'[q].raw].rotatedTo # NoToken
                        /\ \A e \in Devices : devices[e].held # tokenRows[refreshing'[q].raw].rotatedTo
                        /\ \A p \in Refreshes \ {q} : InProgress(p)' => refreshing'[p].raw # refreshing'[q].raw
      BY <1>1 DEF LostIsAlone
    <2>1. CASE q = r
      <3>1. AnswerLost(t, m) /\ ~StillGood(t, m)
        BY <1>2, <1>4, <1>5, <2>1
      <3>2. \A p \in Refreshes \ {r} : InProgress(p) => refreshing[p].raw # t
        BY <1>7, <3>1
      <3>3. next # NoToken /\ \A e \in Devices : devices[e].held # next
        BY <3>1 DEF AnswerLost, Unseen, t
      <3> QED BY <1>5, <1>6, <2>1, <3>2, <3>3
    <2>2. CASE q # r
      <3>1. InProgress(q) /\ refreshing'[q] = refreshing[q]
        BY <1>5, <1>6, <2>2
      <3>2. refreshing[q].raw # t
        BY <1>7, <3>1 DEF StillGood
      <3> QED BY <1>3, <1>5, <1>6, <3>1, <3>2 DEF LostIsAlone
    <2> QED BY <2>1, <2>2
  <1>11. NothingShared'
    BY <1>1, <1>3 DEF NothingShared
  <1>12. \A q \in Refreshes : InProgress(q)' => refreshing'[q].branch \in {"rotate", "grace", "lost"}
    BY <1>2, <1>3, <1>5, <1>6
  <1> QED BY <1>1, <1>3, <1>8, <1>9, <1>10, <1>11, <1>12 DEF Orderly

\* A request that ends without an answer leaves the others as they are.
LEMMA FailsOrderly ==
    ASSUME SessionsInv, ~changed, ~missedTwice, NEW r \in Refreshes, RefreshFails(r)
    PROVE  Orderly'
  <1>1. /\ refreshing' = [refreshing EXCEPT ![r] = NoRefresh]
        /\ UNCHANGED <<tokenRows, issued, usable, devices>>
    BY DEF RefreshFails
  <1>2. /\ usable /\ \A u \in Tokens : ~tokenRows[u].expired
        /\ \A q \in Refreshes : InProgress(q) => refreshing[q].branch \in {"rotate", "grace", "lost"}
        /\ \A e \in Devices : devices[e].missed < 2
        /\ NothingShared /\ RequestsFit /\ HeldIsGood /\ LostIsAlone
        /\ refreshing \in [Refreshes -> RefreshState]
    BY OrderlyParts, SessionFields
  <1>3. \A q \in Refreshes : InProgress(q)' => InProgress(q) /\ refreshing'[q] = refreshing[q]
    BY <1>1, <1>2 DEF InProgress
  <1>4. NothingShared' /\ RequestsFit'
    BY <1>1, <1>2, <1>3 DEF NothingShared, RequestsFit
  <1>5. HeldIsGood'
    <2> SUFFICES ASSUME NEW e \in Devices, devices[e].held # NoToken
                 PROVE  \/ StillGood(devices[e].held, devices[e].missed)'
                        \/ AnswerLost(devices[e].held, devices[e].missed)'
      BY <1>1 DEF HeldIsGood
    <2>1. CASE StillGood(devices[e].held, devices[e].missed)
      BY <1>1, <1>3, <2>1 DEF StillGood, NoneLeft
    <2>2. CASE AnswerLost(devices[e].held, devices[e].missed)
      BY <1>1, <1>3, <2>2 DEF AnswerLost, NoneLeft, Unseen
    <2> QED BY <1>2, <2>1, <2>2 DEF HeldIsGood
  <1>6. LostIsAlone'
    BY <1>1, <1>2, <1>3 DEF LostIsAlone
  <1> QED BY <1>1, <1>2, <1>3, <1>4, <1>5, <1>6 DEF Orderly

\* A device that gives up for the first time; a second time is noted in missedTwice.
LEMMA GiveUpOrderly ==
    ASSUME SessionsInv, ~changed, ~missedTwice, NEW d \in Devices, GiveUp(d), ~missedTwice'
    PROVE  Orderly'
  <1>0. /\ SessionsSound /\ usable /\ \A u \in Tokens : ~tokenRows[u].expired
        /\ \A q \in Refreshes : InProgress(q) => refreshing[q].branch \in {"rotate", "grace", "lost"}
        /\ \A e \in Devices : devices[e].missed < 2
        /\ NothingShared /\ RequestsFit /\ HeldIsGood /\ LostIsAlone
    BY OrderlyParts
  <1>00. refreshing \in [Refreshes -> RefreshState] /\ devices \in [Devices -> Device]
    BY <1>0, SessionFields
  <1>1. PICK r \in Refreshes : /\ InProgress(r) /\ refreshing[r].heard /\ refreshing[r].device = d
                               /\ refreshing' = [refreshing EXCEPT ![r].heard = FALSE]
    BY DEF GiveUp, InProgress
  <1>2. /\ devices' = [devices EXCEPT ![d].missed = @ + 1]
        /\ UNCHANGED <<tokenRows, issued, usable>> /\ devices[d].missed # 1
    BY DEF GiveUp
  <1> DEFINE t == devices[d].held
  <1>3. devices[d].missed = 0 /\ t = refreshing[r].raw /\ t # NoToken
    <2>1. devices[d].missed \in 0..2 /\ devices[d].missed < 2
      BY <1>0, SessionFields
    <2>2. refreshing[r].raw \in Tokens /\ NoToken \notin Tokens
      BY <1>0, <1>1, RequestFields, TokenNumbers DEF SessionsSound
    <2> QED BY <1>0, <1>1, <1>2, <2>1, <2>2 DEF RequestsFit
  <1>4. /\ \A e \in Devices : devices'[e].held = devices[e].held
        /\ \A e \in Devices \ {d} : devices'[e] = devices[e]
        /\ devices'[d].missed = 1
    BY <1>00, <1>2, <1>3 DEF Device
  <1>5. /\ InProgress(r)' /\ ~refreshing'[r].heard
        /\ refreshing'[r].raw = refreshing[r].raw /\ refreshing'[r].branch = refreshing[r].branch
        /\ refreshing'[r].device = refreshing[r].device
        /\ \A q \in Refreshes \ {r} : refreshing'[q] = refreshing[q] /\ (InProgress(q)' <=> InProgress(q))
    <2>1. refreshing[r] \in [branch: Branches, raw: Tokens, device: Devices, heard: BOOLEAN]
      BY <1>0, <1>1, RequestFields DEF SessionsSound
    <2>2. refreshing'[r] = [refreshing[r] EXCEPT !.heard = FALSE]
      BY <1>00, <1>1
    <2>3. refreshing'[r].raw = refreshing[r].raw /\ refreshing'[r].branch = refreshing[r].branch
          /\ refreshing'[r].device = refreshing[r].device /\ ~refreshing'[r].heard
      BY <2>1, <2>2
    <2>4. refreshing'[r] # NoRefresh
      BY <2>1, <2>2 DEF NoRefresh
    <2> QED BY <1>00, <1>1, <2>3, <2>4 DEF InProgress
  <1> HIDE DEF t
  <1>6. RequestsFit' /\ NothingShared' /\ LostIsAlone'
    <2>1. NothingShared'
      BY <1>0, <1>2, <1>4 DEF NothingShared
    <2>2. RequestsFit'
      <3>1. \A q \in Refreshes : InProgress(q)' =>
               /\ InProgress(q) /\ refreshing'[q].raw = refreshing[q].raw
               /\ refreshing'[q].device = refreshing[q].device
               /\ refreshing'[q].heard => refreshing[q].heard
        BY <1>1, <1>5
      <3>2. \A q \in Refreshes : InProgress(q) => refreshing[q].device \in Devices
        BY <1>0, RequestFields DEF SessionsSound
      <3> QED BY <1>0, <1>4, <3>1, <3>2 DEF RequestsFit
    <2>3. LostIsAlone'
      BY <1>0, <1>1, <1>2, <1>4, <1>5 DEF LostIsAlone
    <2> QED BY <2>1, <2>2, <2>3
  <1>7. HeldIsGood'
    <2> SUFFICES ASSUME NEW e \in Devices, devices'[e].held # NoToken
                 PROVE  \/ StillGood(devices[e].held, devices[e].missed)'
                        \/ AnswerLost(devices[e].held, devices[e].missed)'
      BY DEF HeldIsGood
    <2>1. CASE e = d
      <3>1. StillGood(t, 0)
        BY <1>0, <1>3 DEF HeldIsGood, AnswerLost, t
      <3>2. \A q \in Refreshes : InProgress(q) /\ refreshing[q].raw = t => refreshing[q].heard
        BY <3>1 DEF StillGood, NoneLeft
      <3>3. \A q \in Refreshes : InProgress(q)' /\ refreshing'[q].raw = t =>
               /\ refreshing'[q].branch = "rotate"
               /\ ~refreshing'[q].heard => q = r
        BY <1>1, <1>5, <3>1, <3>2 DEF StillGood
      <3>4. devices'[e].held = t /\ devices'[e].missed = 1 /\ ~tokenRows'[t].revoked
        BY <1>2, <1>4, <2>1, <3>1 DEF StillGood, t
      <3> QED BY <3>3, <3>4 DEF StillGood
    <2>2. CASE e # d
      <3>1. devices'[e] = devices[e] /\ devices[e].held # t /\ devices[e].held # NoToken
        BY <1>0, <1>4, <2>2 DEF NothingShared, t
      <3>2. CASE StillGood(devices[e].held, devices[e].missed)
        BY <1>1, <1>2, <1>3, <1>5, <3>1, <3>2 DEF StillGood, NoneLeft
      <3>3. CASE AnswerLost(devices[e].held, devices[e].missed)
        <4> DEFINE u == devices[e].held
                   next == tokenRows[u].rotatedTo
        <4>1. /\ devices[e].missed = 1 /\ tokenRows[u].revoked /\ next # NoToken /\ ~tokenRows[next].revoked
              /\ \A f \in Devices : devices[f].held # next
              /\ \A q \in Refreshes : InProgress(q) => refreshing[q].raw # next
              /\ \A q \in Refreshes : InProgress(q) /\ refreshing[q].raw = u => refreshing[q].heard
          BY <3>3 DEF AnswerLost, Unseen, NoneLeft
        <4>2. /\ \A f \in Devices : devices'[f].held # next
              /\ \A q \in Refreshes : InProgress(q)' => refreshing'[q].raw # next
              /\ \A q \in Refreshes : InProgress(q)' /\ refreshing'[q].raw = u => refreshing'[q].heard
          BY <1>1, <1>3, <1>4, <1>5, <3>1, <4>1
        <4> QED BY <1>2, <3>1, <4>1, <4>2 DEF AnswerLost, Unseen, NoneLeft
      <3> QED BY <1>0, <3>1, <3>2, <3>3 DEF HeldIsGood
    <2> QED BY <2>1, <2>2
  <1>8. \A q \in Refreshes : InProgress(q)' => refreshing'[q].branch \in {"rotate", "grace", "lost"}
    BY <1>0, <1>1, <1>5
  <1>9. \A e \in Devices : devices'[e].missed < 2
    BY <1>0, <1>4
  <1> QED BY <1>0, <1>2, <1>6, <1>7, <1>8, <1>9 DEF Orderly

\* A logout: the token is revoked, and what the device has asked goes on without it.
LEMMA LogoutOrderly ==
    ASSUME SessionsInv, ~changed, ~missedTwice, NEW d \in Devices, Logout(d)
    PROVE  Orderly'
  <1>0. /\ SessionsSound /\ usable /\ \A u \in Tokens : ~tokenRows[u].expired
        /\ \A q \in Refreshes : InProgress(q) => refreshing[q].branch \in {"rotate", "grace", "lost"}
        /\ \A e \in Devices : devices[e].missed < 2
        /\ NothingShared /\ RequestsFit /\ HeldIsGood /\ LostIsAlone
    BY OrderlyParts
  <1>00. /\ refreshing \in [Refreshes -> RefreshState] /\ devices \in [Devices -> Device]
         /\ tokenRows \in [Tokens -> TokenRow]
    BY <1>0, SessionFields
  <1> DEFINE t == devices[d].held
  <1>1. /\ t # NoToken /\ tokenRows' = [tokenRows EXCEPT ![t].revoked = TRUE]
        /\ devices' = [devices EXCEPT ![d] = [held |-> NoToken, missed |-> 0]]
        /\ refreshing' = [r \in Refreshes |->
              IF refreshing[r] # NoRefresh /\ refreshing[r].device = d
              THEN [refreshing[r] EXCEPT !.heard = FALSE] ELSE refreshing[r]]
        /\ UNCHANGED <<issued, usable>>
    BY DEF Logout
  <1>2. t \in Tokens
    BY <1>0, <1>1, SessionFields
  <1> HIDE DEF t
  <1>3. /\ devices'[d].held = NoToken /\ devices'[d].missed = 0
        /\ \A e \in Devices \ {d} : devices'[e] = devices[e]
    BY <1>00, <1>1
  <1>4. \A u \in Tokens : /\ tokenRows'[u].rotatedTo = tokenRows[u].rotatedTo
                          /\ tokenRows'[u].expired = tokenRows[u].expired
                          /\ tokenRows[u].revoked => tokenRows'[u].revoked
                          /\ u # t => tokenRows'[u].revoked = tokenRows[u].revoked
    BY <1>00, <1>1, <1>2 DEF TokenRow
  <1>5. ASSUME NEW q \in Refreshes, InProgress(q)'
        PROVE  /\ InProgress(q) /\ refreshing'[q].raw = refreshing[q].raw
               /\ refreshing'[q].device = refreshing[q].device
               /\ refreshing'[q].branch = refreshing[q].branch
               /\ refreshing[q].device = d => ~refreshing'[q].heard
               /\ refreshing[q].device # d => refreshing'[q].heard = refreshing[q].heard
               /\ refreshing[q].device \in Devices /\ refreshing[q].raw \in Tokens
    <2>1. CASE InProgress(q)
      <3>1. refreshing[q] \in [branch: Branches, raw: Tokens, device: Devices, heard: BOOLEAN]
        BY <1>0, <2>1, RequestFields DEF SessionsSound
      <3>2. refreshing'[q] = IF refreshing[q].device = d THEN [refreshing[q] EXCEPT !.heard = FALSE]
                             ELSE refreshing[q]
        BY <1>1, <2>1 DEF InProgress
      <3> QED BY <2>1, <3>1, <3>2
    <2>2. CASE ~InProgress(q)
      BY <1>1, <1>5, <2>2 DEF InProgress
    <2> QED BY <2>1, <2>2
  <1>6. NothingShared'
    BY <1>0, <1>3, <1>4 DEF NothingShared
  <1>7. RequestsFit'
    <2>1. ASSUME NEW q \in Refreshes, InProgress(q)', refreshing'[q].heard
          PROVE  devices'[refreshing'[q].device].held = refreshing'[q].raw
      BY <1>0, <1>3, <1>5, <2>1 DEF RequestsFit
    <2>2. ASSUME NEW q \in Refreshes, NEW p \in Refreshes, InProgress(q)', InProgress(p)',
                 refreshing'[q].heard, refreshing'[p].heard, refreshing'[q].device = refreshing'[p].device
          PROVE  q = p
      BY <1>0, <1>5, <2>2 DEF RequestsFit
    <2>3. ASSUME NEW q \in Refreshes, NEW e \in Devices, InProgress(q)',
                 refreshing'[q].raw = devices'[e].held
          PROVE  refreshing'[q].device = e
      <3>1. e # d
        BY <1>3, <1>5, <2>3, TokenNumbers
      <3> QED BY <1>0, <1>3, <1>5, <2>3, <3>1 DEF RequestsFit
    <2> QED BY <2>1, <2>2, <2>3 DEF RequestsFit
  <1>8. HeldIsGood'
    <2> SUFFICES ASSUME NEW e \in Devices, devices'[e].held # NoToken
                 PROVE  \/ StillGood(devices[e].held, devices[e].missed)'
                        \/ AnswerLost(devices[e].held, devices[e].missed)'
      BY DEF HeldIsGood
    <2> DEFINE u == devices[e].held
    <2>1. e # d /\ devices'[e] = devices[e] /\ u # t /\ u # NoToken /\ u \in Tokens
      BY <1>0, <1>1, <1>3, SessionFields DEF NothingShared, t
    <2>2. \A q \in Refreshes : InProgress(q)' /\ refreshing'[q].raw = u =>
             InProgress(q) /\ refreshing[q].raw = u /\ refreshing'[q].heard = refreshing[q].heard
      BY <1>0, <1>5, <2>1 DEF RequestsFit
    <2>3. CASE StillGood(devices[e].held, devices[e].missed)
      BY <1>4, <1>5, <2>1, <2>2, <2>3 DEF StillGood, NoneLeft
    <2>4. CASE AnswerLost(devices[e].held, devices[e].missed)
      <3> DEFINE next == tokenRows[u].rotatedTo
      <3>1. /\ devices[e].missed = 1 /\ tokenRows[u].revoked /\ next # NoToken /\ ~tokenRows[next].revoked
            /\ \A f \in Devices : devices[f].held # next
            /\ \A q \in Refreshes : InProgress(q) => refreshing[q].raw # next
            /\ \A q \in Refreshes : InProgress(q) /\ refreshing[q].raw = u => refreshing[q].heard
        BY <2>4 DEF AnswerLost, Unseen, NoneLeft
      <3>2. next # t /\ next \in Tokens
        BY <1>0, <2>1, <3>1, SessionFields DEF t
      <3>3. /\ \A f \in Devices : devices'[f].held # next
            /\ \A q \in Refreshes : InProgress(q)' => refreshing'[q].raw # next
            /\ \A q \in Refreshes : InProgress(q)' /\ refreshing'[q].raw = u => refreshing'[q].heard
        BY <1>3, <1>5, <2>2, <3>1
      <3>4. tokenRows'[u].rotatedTo = next /\ tokenRows'[u].revoked /\ ~tokenRows'[next].revoked
        BY <1>4, <2>1, <3>1, <3>2
      <3> HIDE DEF next
      <3> QED BY <2>1, <3>1, <3>3, <3>4 DEF AnswerLost, Unseen, NoneLeft
    <2> QED BY <1>0, <2>1, <2>3, <2>4 DEF HeldIsGood
  <1>9. LostIsAlone'
    <2> SUFFICES ASSUME NEW q \in Refreshes, InProgress(q)', refreshing'[q].branch = "lost"
                 PROVE  /\ tokenRows'[refreshing'[q].raw].rotatedTo # NoToken
                        /\ \A e \in Devices : devices'[e].held # tokenRows'[refreshing'[q].raw].rotatedTo
                        /\ \A p \in Refreshes \ {q} : InProgress(p)' => refreshing'[p].raw # refreshing'[q].raw
      BY DEF LostIsAlone
    <2>1. InProgress(q) /\ refreshing[q].branch = "lost" /\ refreshing[q].raw \in Tokens
          /\ refreshing'[q].raw = refreshing[q].raw
      BY <1>5
    <2>2. /\ tokenRows[refreshing[q].raw].rotatedTo # NoToken
          /\ \A e \in Devices : devices[e].held # tokenRows[refreshing[q].raw].rotatedTo
          /\ \A p \in Refreshes \ {q} : InProgress(p) => refreshing[p].raw # refreshing[q].raw
      BY <1>0, <2>1 DEF LostIsAlone
    <2>3. tokenRows'[refreshing'[q].raw].rotatedTo = tokenRows[refreshing[q].raw].rotatedTo
      BY <1>4, <2>1
    <2>4. \A p \in Refreshes \ {q} : InProgress(p)' => refreshing'[p].raw # refreshing'[q].raw
      BY <1>5, <2>1, <2>2
    <2> QED BY <1>3, <2>2, <2>3, <2>4
  <1>10. \A q \in Refreshes : InProgress(q)' => refreshing'[q].branch \in {"rotate", "grace", "lost"}
    BY <1>0, <1>5
  <1>11. usable' /\ (\A u \in Tokens : ~tokenRows'[u].expired) /\ \A e \in Devices : devices'[e].missed < 2
    BY <1>0, <1>1, <1>3, <1>4
  <1> QED BY <1>6, <1>7, <1>8, <1>9, <1>10, <1>11 DEF Orderly

\* The end of a grace period: only the answer to a later refresh depends on it.
LEMMA GraceOrderly ==
    ASSUME SessionsInv, ~changed, ~missedTwice, NEW t \in Tokens, GraceEnds(t)
    PROVE  Orderly'
  <1>0. /\ SessionsSound /\ usable /\ \A u \in Tokens : ~tokenRows[u].expired
        /\ \A q \in Refreshes : InProgress(q) => refreshing[q].branch \in {"rotate", "grace", "lost"}
        /\ \A e \in Devices : devices[e].missed < 2
        /\ NothingShared /\ RequestsFit /\ HeldIsGood /\ LostIsAlone
    BY OrderlyParts
  <1>1. /\ tokenRows' = [tokenRows EXCEPT ![t].fresh = FALSE]
        /\ UNCHANGED <<issued, usable, devices, refreshing>>
    BY DEF GraceEnds
  <1>2. \A u \in Tokens : /\ tokenRows'[u].rotatedTo = tokenRows[u].rotatedTo
                          /\ tokenRows'[u].expired = tokenRows[u].expired
                          /\ tokenRows'[u].revoked = tokenRows[u].revoked
    BY <1>0, <1>1, SessionFields DEF TokenRow
  <1>3. /\ \A q \in Refreshes : InProgress(q)' <=> InProgress(q)
        /\ \A q \in Refreshes : InProgress(q) => refreshing[q].raw \in Tokens
    BY <1>0, <1>1, RequestFields DEF InProgress, SessionsSound
  <1>4. NothingShared' /\ RequestsFit' /\ LostIsAlone'
    BY <1>0, <1>1, <1>2, <1>3 DEF NothingShared, RequestsFit, LostIsAlone
  <1>5. HeldIsGood'
    <2> SUFFICES ASSUME NEW e \in Devices, devices[e].held # NoToken
                 PROVE  \/ StillGood(devices[e].held, devices[e].missed)'
                        \/ AnswerLost(devices[e].held, devices[e].missed)'
      BY <1>1 DEF HeldIsGood
    <2> DEFINE u == devices[e].held
               next == tokenRows[u].rotatedTo
    <2>1. u \in Tokens /\ (next # NoToken => next \in Tokens)
      BY <1>0, SessionFields
    <2>2. CASE StillGood(u, devices[e].missed)
      BY <1>1, <1>2, <1>3, <2>1, <2>2 DEF StillGood, NoneLeft
    <2>3. CASE AnswerLost(u, devices[e].missed)
      <3>1. /\ devices[e].missed = 1 /\ tokenRows[u].revoked /\ next # NoToken /\ ~tokenRows[next].revoked
            /\ \A f \in Devices : devices[f].held # next
            /\ \A q \in Refreshes : InProgress(q) => refreshing[q].raw # next
            /\ \A q \in Refreshes : InProgress(q) /\ refreshing[q].raw = u => refreshing[q].heard
        BY <2>3 DEF AnswerLost, Unseen, NoneLeft
      <3>2. tokenRows'[u].rotatedTo = next /\ tokenRows'[u].revoked /\ ~tokenRows'[next].revoked
        BY <1>2, <2>1, <3>1
      <3> HIDE DEF next
      <3> QED BY <1>1, <1>3, <3>1, <3>2 DEF AnswerLost, Unseen, NoneLeft
    <2> QED BY <1>0, <2>2, <2>3 DEF HeldIsGood
  <1> QED BY <1>0, <1>1, <1>2, <1>3, <1>4, <1>5 DEF Orderly

\* Every step keeps the invariant.
LEMMA SessionsStep == SessionsInv /\ [SessionsNext]_sessionVars => SessionsInv'
  <1> SUFFICES ASSUME SessionsInv, [SessionsNext]_sessionVars PROVE SessionsInv'
    OBVIOUS
  <1>1. CASE UNCHANGED sessionVars
    <2>1. SessionsSound'
      BY <1>1 DEF sessionVars, SessionsInv, SessionsSound, SessionsTypeOK, LinksForward, Known,
                  TokensInOrder, InProgress
    <2>2. Orderly => Orderly'
      BY <1>1 DEF sessionVars, Orderly, NothingShared, RequestsFit, HeldIsGood, LostIsAlone,
                  StillGood, AnswerLost, NoneLeft, Unseen, InProgress
    <2> QED BY <1>1, <2>1, <2>2 DEF SessionsInv, sessionVars
  <1>2. CASE SessionsNext
    <2>1. SessionsSound'
      BY <1>2, SoundStep DEF SessionsInv
    <2>2. ASSUME ~changed', ~missedTwice' PROVE Orderly'
      <3>1. ~changed /\ ~missedTwice /\ ~ChangePassword /\ (\A active \in BOOLEAN : ~SetUsable(active))
            /\ \A t \in Tokens : ~Expire(t)
        <4>1. ~ChangePassword /\ (\A active \in BOOLEAN : ~SetUsable(active))
              /\ \A t \in Tokens : ~Expire(t)
          BY <2>2 DEF ChangePassword, SetUsable, Expire
        <4>2. ~changed /\ ~missedTwice
          <5>1. changed => changed'
            BY <1>2 DEF SessionsNext, Login, GiveUp, Logout, RefreshBegin, Rotate, AnswerAgain,
               AnswerInstead, Reuse, Refuse, RefreshFails, ChangePassword, SetUsable, GraceEnds, Expire
          <5>2. missedTwice => missedTwice'
            BY <1>2 DEF SessionsNext, Login, GiveUp, Logout, RefreshBegin, Rotate, AnswerAgain,
               AnswerInstead, Reuse, Refuse, RefreshFails, ChangePassword, SetUsable, GraceEnds, Expire
          <5> QED BY <2>2, <5>1, <5>2
        <4> QED BY <4>1, <4>2
      <3>2. \A r \in Refreshes : ~Reuse(r) /\ ~Refuse(r)
        BY <3>1, OrderlyParts DEF Reuse, Refuse, Served, InProgress
      <3> QED BY <1>2, <2>2, <3>1, <3>2, LoginOrderly, GiveUpOrderly, LogoutOrderly, BeginOrderly,
                 AnswerOrderly, FailsOrderly, GraceOrderly DEF SessionsNext
    <2> QED BY <2>1, <2>2 DEF SessionsInv
  <1> QED BY <1>1, <1>2

\* What the invariant says of the rotation.
LEMMA SessionsHold == SessionsInv => SessionsTypeOK /\ HeldTokenWorks /\ LinksForward
  <1> SUFFICES ASSUME SessionsInv PROVE SessionsTypeOK /\ HeldTokenWorks /\ LinksForward
    OBVIOUS
  <1>1. HeldTokenWorks
    BY HeldBranch DEF HeldTokenWorks
  <1> QED BY <1>1 DEF SessionsInv, SessionsSound


-----------------------------------------------------------------------------
(* Users and organizations: the inductive invariant *)

InsertKinds == {"register", "one_off", "created"}
OrgKinds == {"add", "remove", "set_owner"}

\* What a request that may write has read is of its type, and speaks of users and rows
\* that are there or once were.
RequestTyped(req) ==
    /\ req.kind \in {"none"} \cup UserKinds \cup OrgKinds
    /\ req.kind \in UserKinds => req.user \in UserIds
    /\ req.kind \in InsertKinds =>
         /\ req.row \in User /\ req.row.phone \in Phones
         /\ req.row.exists /\ ~req.row.archived
    /\ req.kind \in UserKinds \ InsertKinds => users[req.user].exists
    /\ req.kind = "phone" => req.phone \in Phones
    /\ req.kind = "active" => req.active \in BOOLEAN
    /\ req.kind \in OrgKinds => orgState # "none"
    /\ req.kind = "add" =>
         /\ req.row \in Member /\ req.row.role = "member"
         /\ req.row.status = "active" <=> req.row.user # NoUser
         /\ req.row.status = "active" <=> req.row.invite = "none"
         /\ req.row.user # NoUser => users[req.row.user].exists
    /\ req.kind \in {"remove", "set_owner"} => req.member \in MemberIds /\ req.member <= inserted
    /\ req.kind = "set_owner" =>
         /\ req.previous \subseteq MemberIds
         /\ \A m \in req.previous \cup {req.member} :
              m <= inserted /\ (members[m] # NoMember => Active(m))

\* What the database, and the index, keep true whatever overlaps.
AccountsSound ==
    /\ AccountsTypeOK
    /\ accReqs = [r \in AccountReqs |-> accReqs[r]]
    /\ \A r \in AccountReqs : RequestTyped(accReqs[r])
    /\ MemberRows # {} => orgState # "none"
    /\ \A m \in MemberRows : members[m].user # NoUser => users[members[m].user].exists
    /\ \A u, v \in Existing : u # v /\ users[u].phone = users[v].phone => users[u].phone = NoPhone
    /\ ~owned => Owners = {}

\* What a request has found out about the users still holds.
UsersStillAs(req) ==
    /\ req.kind \in InsertKinds =>
         /\ ~users[req.user].exists /\ WithNumber(req.row.phone.number) = {}
         /\ req.row.inn => \A v \in Present : ~users[v].inn
    /\ req.kind \in UserKinds \ InsertKinds => req.user \in Present
    /\ req.kind = "phone" => PhoneFree(req.phone, req.user)
    /\ req.kind = "archive" => ~users[req.user].active

UsersAgree ==
    /\ NumberOnce /\ ArchivedIsGone
    /\ \A r \in AccountReqs : UsersStillAs(accReqs[r])

\* What a request has found out about the organization still holds.
OrgStillAs(req) ==
    /\ req.kind = "add" =>
         /\ req.row.user # NoUser => RowsOf(req.row.user) = {}
         /\ req.row.user = NoUser => InvitesOf(req.row.invite) = {}
    /\ req.kind \in {"remove", "set_owner"} => members[req.member].role # "owner"
    /\ req.kind = "set_owner" => req.previous = Owners

OrgAgrees ==
    /\ owned => Owners # {} /\ \A m, n \in Owners : m = n
    /\ \A u \in UserIds : \A m, n \in RowsOf(u) : m = n
    /\ \A number \in Numbers : \A m, n \in InvitesOf(number) : m = n
    /\ \A r \in AccountReqs : OrgStillAs(accReqs[r])

AccountsInv ==
    /\ AccountsSound
    /\ ~racedUsers => UsersAgree
    /\ ~racedOrg => OrgAgrees

-----------------------------------------------------------------------------
(* Requests that begin and end *)

\* At first there are no users, no members and no requests.
LEMMA AccountsStart == AccountsInit => AccountsInv
  <1> SUFFICES ASSUME AccountsInit PROVE AccountsInv
    OBVIOUS
  <1>1. /\ \A u \in UserIds : ~users[u].exists
        /\ \A m \in MemberIds : members[m] = NoMember
        /\ \A r \in AccountReqs : accReqs[r].kind = "none"
        /\ orgState = "none" /\ inserted = 0
        /\ racedUsers = FALSE /\ racedOrg = FALSE /\ owned = FALSE
    BY DEF AccountsInit, NoReq, NoUserRow
  <1>2. Existing = {} /\ MemberRows = {} /\ Owners = {}
    BY <1>1 DEF Existing, MemberRows, Owners
  <1>3. AccountsTypeOK
    <2>1. users \in [UserIds -> User] /\ members \in [MemberIds -> Member \cup {NoMember}]
      BY DEF AccountsInit, User, NoUserRow
    <2>2. racedUsers \in BOOLEAN /\ racedOrg \in BOOLEAN /\ owned \in BOOLEAN
      BY <1>1, Zenon
    <2>3. inserted \in 0..MaxMember
      BY <1>1, AccountsAssumption
    <2> QED BY <1>1, <1>2, <2>1, <2>2, <2>3 DEF AccountsTypeOK
  <1>4. \A r \in AccountReqs : RequestTyped(accReqs[r])
    BY <1>1 DEF RequestTyped, UserKinds, OrgKinds, InsertKinds
  <1>5. AccountsSound
    BY <1>1, <1>2, <1>3, <1>4 DEF AccountsSound, AccountsInit
  <1>6. UsersAgree
    BY <1>1, <1>2 DEF UsersAgree, UsersStillAs, NumberOnce, ArchivedIsGone, UserKinds, InsertKinds
  <1>7. OrgAgrees
    BY <1>1, <1>2 DEF OrgAgrees, OrgStillAs, RowsOf, InvitesOf
  <1> QED BY <1>5, <1>6, <1>7 DEF AccountsInv

\* One request moves, and the others stay.
LEMMA OneRequest ==
    ASSUME AccountsSound, NEW r \in AccountReqs, NEW req, accReqs' = [accReqs EXCEPT ![r] = req]
    PROVE  /\ accReqs'[r] = req
           /\ \A s \in AccountReqs \ {r} : accReqs'[s] = accReqs[s]
           /\ accReqs' = [s \in AccountReqs |-> accReqs'[s]]
  BY Zenon DEF AccountsSound

\* A step in which nothing but a request changes.
LEMMA AskedKeeps ==
    ASSUME AccountsInv, NothingWritten, NEW r \in AccountReqs,
           \A s \in AccountReqs \ {r} : accReqs'[s] = accReqs[s],
           accReqs' = [s \in AccountReqs |-> accReqs'[s]],
           RequestTyped(accReqs[r])',
           ~racedUsers => UsersStillAs(accReqs[r])',
           ~racedOrg => OrgStillAs(accReqs[r])'
    PROVE  AccountsInv'
  <1>1. /\ users' = users /\ orgState' = orgState /\ members' = members /\ inserted' = inserted
        /\ racedUsers' = racedUsers /\ racedOrg' = racedOrg /\ owned' = owned
    BY DEF NothingWritten
  <1>2. /\ Existing' = Existing /\ Present' = Present /\ MemberRows' = MemberRows /\ Owners' = Owners
        /\ \A m : Active(m)' <=> Active(m)
        /\ \A n : WithNumber(n)' = WithNumber(n)
        /\ \A u : RowsOf(u)' = RowsOf(u)
        /\ \A n : InvitesOf(n)' = InvitesOf(n)
    BY <1>1 DEF Existing, Present, MemberRows, Owners, Active, WithNumber, RowsOf, InvitesOf
  <1>3. \A s \in AccountReqs : RequestTyped(accReqs[s])'
    <2> SUFFICES ASSUME NEW s \in AccountReqs \ {r} PROVE RequestTyped(accReqs[s])'
      OBVIOUS
    <2>1. RequestTyped(accReqs[s]) /\ accReqs'[s] = accReqs[s]
      BY DEF AccountsInv, AccountsSound
    <2> QED BY <1>1, <2>1 DEF RequestTyped, Active
  <1>4. AccountsSound'
    <2>1. AccountsTypeOK'
      BY <1>1, <1>2 DEF AccountsInv, AccountsSound, AccountsTypeOK
    <2> QED BY <1>1, <1>2, <1>3, <2>1 DEF AccountsInv, AccountsSound
  <1>5. ASSUME ~racedUsers' PROVE UsersAgree'
    <2>1. UsersAgree
      BY <1>1, <1>5 DEF AccountsInv
    <2>2. NumberOnce' /\ ArchivedIsGone'
      BY <1>1, <1>2, <2>1 DEF UsersAgree, NumberOnce, ArchivedIsGone
    <2>3. ASSUME NEW s \in AccountReqs \ {r} PROVE UsersStillAs(accReqs[s])'
      <3>1. UsersStillAs(accReqs[s]) /\ accReqs'[s] = accReqs[s]
        BY <2>1 DEF UsersAgree
      <3> QED BY <1>1, <3>1 DEF UsersStillAs, Present, Existing, WithNumber, PhoneFree
    <2> QED BY <1>1, <1>5, <2>2, <2>3 DEF UsersAgree
  <1>6. ASSUME ~racedOrg' PROVE OrgAgrees'
    <2>1. OrgAgrees
      BY <1>1, <1>6 DEF AccountsInv
    <2>3. ASSUME NEW s \in AccountReqs \ {r} PROVE OrgStillAs(accReqs[s])'
      <3>1. OrgStillAs(accReqs[s]) /\ accReqs'[s] = accReqs[s]
        BY <2>1 DEF OrgAgrees
      <3> QED BY <1>1, <3>1 DEF OrgStillAs, RowsOf, InvitesOf, Owners, MemberRows, Active
    <2> QED BY <1>1, <1>2, <1>6, <2>1, <2>3 DEF OrgAgrees
  <1> QED BY <1>4, <1>5, <1>6 DEF AccountsInv

\* No request, which is what remains of one that has ended.
LEMMA NoRequestLeft ==
    ASSUME NEW r \in AccountReqs, accReqs'[r] = NoReq
    PROVE  RequestTyped(accReqs[r])' /\ UsersStillAs(accReqs[r])' /\ OrgStillAs(accReqs[r])'
  BY DEF RequestTyped, UsersStillAs, OrgStillAs, NoReq, UserKinds, InsertKinds, OrgKinds

\* An insert that was decided: the number is nobody's, and the INN too.
LEMMA InsertBeginKeeps ==
    ASSUME AccountsInv, NEW r \in AccountReqs, NEW kind \in InsertKinds, NEW u \in UserIds,
           NEW phone \in Phones, NEW oneOff \in BOOLEAN, NEW inn \in BOOLEAN,
           Begin(r, [kind |-> kind, user |-> u, row |-> NewUser(phone, oneOff, inn)]),
           NothingWritten, ~users[u].exists,
           ~racedUsers => WithNumber(phone.number) = {} /\ (inn => InnFree(u))
    PROVE  AccountsInv'
  <1> DEFINE new == NewUser(phone, oneOff, inn)
             req == [kind |-> kind, user |-> u, row |-> new]
  <1>1. /\ new \in User /\ new.phone = phone /\ new.inn = inn
        /\ new.exists /\ ~new.archived
    BY DEF NewUser, User
  <1>2. /\ accReqs'[r] = req
        /\ \A s \in AccountReqs \ {r} : accReqs'[s] = accReqs[s]
        /\ accReqs' = [s \in AccountReqs |-> accReqs'[s]]
    BY OneRequest DEF Begin, AccountsInv
  <1>3. accReqs'[r].kind = kind /\ accReqs'[r].user = u /\ accReqs'[r].row = new
    BY <1>2
  <1> HIDE DEF new, req
  <1>4. RequestTyped(accReqs[r])'
    BY <1>1, <1>3 DEF RequestTyped, UserKinds, InsertKinds, OrgKinds
  <1>5. ASSUME ~racedUsers PROVE UsersStillAs(accReqs[r])'
    <2>1. UNCHANGED users
      BY DEF NothingWritten
    <2>2. WithNumber(phone.number) = {} /\ ~users[u].exists /\ (inn => \A v \in Present : ~users[v].inn)
      BY <1>5 DEF InnFree, Present, Existing
    <2> QED BY <1>1, <1>3, <2>1, <2>2
            DEF UsersStillAs, UserKinds, InsertKinds, WithNumber, Present, Existing
  <1>6. OrgStillAs(accReqs[r])'
    BY <1>3 DEF OrgStillAs, InsertKinds
  <1> QED BY <1>2, <1>4, <1>5, <1>6, AskedKeeps

\* The numbers that are free, by the two ways in which the code looks.
LEMMA RegisterBeginKeeps ==
    ASSUME AccountsInv, NEW r \in AccountReqs, NEW u \in UserIds, NEW phone \in Phones,
           NEW inn \in BOOLEAN, RegisterBegin(r, u, phone, inn)
    PROVE  AccountsInv'
  <1>1. WithNumber(phone.number) = {}
    BY DEF RegisterBegin, PhoneFree, WithNumber, Existing
  <1> QED BY <1>1, InsertBeginKeeps DEF RegisterBegin, InsertKinds

\* A creation by staff begins: nothing is written yet, and its number is free.
LEMMA CreateByAdminBeginKeeps ==
    ASSUME AccountsInv, NEW r \in AccountReqs, NEW u \in UserIds, NEW phone \in Phones,
           CreateByAdminBegin(r, u, phone)
    PROVE  AccountsInv'
  <1>1. WithNumber(phone.number) = {}
    BY DEF CreateByAdminBegin, PhoneFree, WithNumber, Existing
  <1> QED BY <1>1, InsertBeginKeeps DEF CreateByAdminBegin, InsertKinds

\* A one-off client begins: its number is nobody's who is there.
LEMMA OneOffBeginKeeps ==
    ASSUME AccountsInv, NEW r \in AccountReqs, NEW u \in UserIds, NEW phone \in Phones,
           OneOffBegin(r, u, phone)
    PROVE  AccountsInv'
  <1>1. ASSUME ~racedUsers PROVE WithNumber(phone.number) = {}
    <2>1. ArchivedIsGone
      BY <1>1 DEF AccountsInv, UsersAgree
    <2>2. \A v \in WithNumber(phone.number) : v \in Present
      BY <1>1, <2>1, AccountsAssumption DEF ArchivedIsGone, WithNumber, Present, Existing
    <2> QED BY <2>2 DEF OneOffBegin
  <1> QED BY <1>1, InsertBeginKeeps DEF OneOffBegin, InsertKinds

\* A change of number begins: nothing is written yet, and the number is free.
LEMMA UpdatePhoneBeginKeeps ==
    ASSUME AccountsInv, NEW r \in AccountReqs, NEW u \in UserIds, NEW phone \in Phones,
           UpdatePhoneBegin(r, u, phone)
    PROVE  AccountsInv'
  <1>1. /\ accReqs'[r] = [kind |-> "phone", user |-> u, phone |-> phone]
        /\ \A s \in AccountReqs \ {r} : accReqs'[s] = accReqs[s]
        /\ accReqs' = [s \in AccountReqs |-> accReqs'[s]]
    BY OneRequest DEF UpdatePhoneBegin, Begin, AccountsInv
  <1>2. /\ u \in Present /\ PhoneFree(phone, u) /\ NothingWritten /\ UNCHANGED users
    BY DEF UpdatePhoneBegin, NothingWritten
  <1>3. RequestTyped(accReqs[r])'
    BY <1>1, <1>2 DEF RequestTyped, UserKinds, InsertKinds, OrgKinds, Present, Existing
  <1>4. UsersStillAs(accReqs[r])'
    BY <1>1, <1>2 DEF UsersStillAs, UserKinds, InsertKinds, Present, Existing, PhoneFree, WithNumber
  <1>5. OrgStillAs(accReqs[r])'
    BY <1>1 DEF OrgStillAs
  <1> QED BY <1>1, <1>2, <1>3, <1>4, <1>5, AskedKeeps

\* A block or its end begins: nothing is written yet.
LEMMA UpdateActiveBeginKeeps ==
    ASSUME AccountsInv, NEW r \in AccountReqs, NEW u \in UserIds, NEW active \in BOOLEAN,
           UpdateActiveBegin(r, u, active)
    PROVE  AccountsInv'
  <1>1. /\ accReqs'[r] = [kind |-> "active", user |-> u, active |-> active]
        /\ \A s \in AccountReqs \ {r} : accReqs'[s] = accReqs[s]
        /\ accReqs' = [s \in AccountReqs |-> accReqs'[s]]
    BY OneRequest DEF UpdateActiveBegin, Begin, AccountsInv
  <1>2. u \in Present /\ NothingWritten /\ UNCHANGED users
    BY DEF UpdateActiveBegin, NothingWritten
  <1>3. RequestTyped(accReqs[r])'
    BY <1>1, <1>2 DEF RequestTyped, UserKinds, InsertKinds, OrgKinds, Present, Existing
  <1>4. UsersStillAs(accReqs[r])'
    BY <1>1, <1>2 DEF UsersStillAs, UserKinds, InsertKinds, Present, Existing
  <1>5. OrgStillAs(accReqs[r])'
    BY <1>1 DEF OrgStillAs
  <1> QED BY <1>1, <1>2, <1>3, <1>4, <1>5, AskedKeeps

\* An archiving begins: nothing is written yet, and the user is blocked.
LEMMA ArchiveBeginKeeps ==
    ASSUME AccountsInv, NEW r \in AccountReqs, NEW u \in UserIds, ArchiveBegin(r, u)
    PROVE  AccountsInv'
  <1>1. /\ accReqs'[r] = [kind |-> "archive", user |-> u]
        /\ \A s \in AccountReqs \ {r} : accReqs'[s] = accReqs[s]
        /\ accReqs' = [s \in AccountReqs |-> accReqs'[s]]
    BY OneRequest DEF ArchiveBegin, Begin, AccountsInv
  <1>2. u \in Present /\ ~users[u].active /\ NothingWritten /\ UNCHANGED users
    BY DEF ArchiveBegin, NothingWritten
  <1>3. RequestTyped(accReqs[r])'
    BY <1>1, <1>2 DEF RequestTyped, UserKinds, InsertKinds, OrgKinds, Present, Existing
  <1>4. UsersStillAs(accReqs[r])'
    BY <1>1, <1>2 DEF UsersStillAs, UserKinds, InsertKinds, Present, Existing
  <1>5. OrgStillAs(accReqs[r])'
    BY <1>1 DEF OrgStillAs
  <1> QED BY <1>1, <1>2, <1>3, <1>4, <1>5, AskedKeeps

\* A member that is added has no row yet, and a number that is invited no invitation.
LEMMA AddMemberBeginKeeps ==
    ASSUME AccountsInv, NEW r \in AccountReqs, NEW actor, NEW number \in Numbers,
           AddMemberBegin(r, actor, number)
    PROVE  AccountsInv'
  <1>0. /\ NothingWritten /\ orgState # "none"
        /\ users' = users /\ members' = members /\ orgState' = orgState
    BY DEF AddMemberBegin, NothingWritten, MayAdmin
  <1>1. PICK row : /\ Begin(r, [kind |-> "add", row |-> row])
                   /\ \/ \E u \in Usable : /\ RowsOf(u) = {}
                                           /\ row = NewMember(u, "none", "member", "active")
                      \/ /\ InvitesOf(number) = {}
                         /\ row = NewMember(NoUser, number, "member", "pending")
    BY DEF AddMemberBegin, MayJoin
  <1>2. /\ accReqs'[r] = [kind |-> "add", row |-> row]
        /\ \A s \in AccountReqs \ {r} : accReqs'[s] = accReqs[s]
        /\ accReqs' = [s \in AccountReqs |-> accReqs'[s]]
    BY <1>1, OneRequest DEF Begin, AccountsInv
  <1>3. number # "none" /\ NoUser \notin UserIds
    BY AccountsAssumption DEF Numbers, NoPhone
  <1>4. CASE \E u \in Usable : /\ RowsOf(u) = {}
                               /\ row = NewMember(u, "none", "member", "active")
    <2>1. PICK u \in Usable : RowsOf(u) = {} /\ row = NewMember(u, "none", "member", "active")
      BY <1>4
    <2>2. u \in UserIds /\ users[u].exists /\ u # NoUser
      BY <1>3 DEF Usable, Present, Existing
    <2>3. /\ row \in Member /\ row.role = "member" /\ row.status = "active"
          /\ row.user = u /\ row.invite = "none"
      BY <2>1, <2>2 DEF NewMember, Member
    <2>4. RequestTyped(accReqs[r])'
      BY <1>0, <1>2, <2>2, <2>3 DEF RequestTyped, UserKinds, InsertKinds, OrgKinds
    <2>5. UsersStillAs(accReqs[r])'
      BY <1>2 DEF UsersStillAs, UserKinds, InsertKinds
    <2>6. OrgStillAs(accReqs[r])'
      BY <1>0, <1>2, <2>1, <2>2, <2>3 DEF OrgStillAs, RowsOf, MemberRows, Active
    <2> QED BY <1>0, <1>2, <2>4, <2>5, <2>6, AskedKeeps
  <1>5. CASE InvitesOf(number) = {} /\ row = NewMember(NoUser, number, "member", "pending")
    <2>3. /\ row \in Member /\ row.role = "member" /\ row.status = "pending"
          /\ row.user = NoUser /\ row.invite = number /\ row.invite # "none"
      BY <1>3, <1>5 DEF NewMember, Member
    <2>4. RequestTyped(accReqs[r])'
      BY <1>0, <1>2, <2>3 DEF RequestTyped, UserKinds, InsertKinds, OrgKinds
    <2>5. UsersStillAs(accReqs[r])'
      BY <1>2 DEF UsersStillAs, UserKinds, InsertKinds
    <2>6. OrgStillAs(accReqs[r])'
      BY <1>0, <1>2, <1>5, <2>3 DEF OrgStillAs, InvitesOf, MemberRows, Active
    <2> QED BY <1>0, <1>2, <2>4, <2>5, <2>6, AskedKeeps
  <1> QED BY <1>1, <1>4, <1>5

\* There are finitely many rows.
LEMMA RowsAreFinite ==
    /\ \A S \in SUBSET MemberIds : IsFiniteSet(S)
    /\ \A u : RowsOf(u) \subseteq MemberIds
    /\ \A n : InvitesOf(n) \subseteq MemberIds
    /\ MemberRows \subseteq MemberIds /\ Owners \subseteq MemberIds
  <1>1. IsFiniteSet(MemberIds)
    BY AccountsAssumption, FS_Interval DEF MemberIds
  <1> QED BY <1>1, FS_Subset DEF RowsOf, InvitesOf, Owners, MemberRows

\* Whom one may remove is no owner, as there is only one.
LEMMA RemoveMemberBeginKeeps ==
    ASSUME AccountsInv, NEW r \in AccountReqs, NEW actor, NEW m \in MemberIds,
           RemoveMemberBegin(r, actor, m)
    PROVE  AccountsInv'
  <1>0. /\ NothingWritten /\ orgState # "none" /\ m \in MemberRows /\ Removable(m)
        /\ members' = members /\ orgState' = orgState /\ inserted' = inserted
    BY DEF RemoveMemberBegin, NothingWritten, MayAdmin
  <1>1. /\ accReqs'[r] = [kind |-> "remove", member |-> m]
        /\ \A s \in AccountReqs \ {r} : accReqs'[s] = accReqs[s]
        /\ accReqs' = [s \in AccountReqs |-> accReqs'[s]]
    BY OneRequest DEF RemoveMemberBegin, Begin, AccountsInv
  <1>2. m <= inserted
    BY <1>0 DEF AccountsInv, AccountsSound, AccountsTypeOK
  <1>3. RequestTyped(accReqs[r])'
    BY <1>0, <1>1, <1>2 DEF RequestTyped, UserKinds, InsertKinds, OrgKinds
  <1>4. UsersStillAs(accReqs[r])'
    BY <1>1 DEF UsersStillAs, UserKinds, InsertKinds
  <1>5. ASSUME ~racedOrg PROVE OrgStillAs(accReqs[r])'
    <2>1. members[m].role # "owner"
      <3>1. SUFFICES ASSUME members[m].role = "owner" PROVE FALSE
        OBVIOUS
      <3>2. m \in Owners
        BY <1>0, <3>1 DEF Owners, AccountsInv, AccountsSound, AccountsTypeOK
      <3>3. \A x, y \in Owners : x = y
        BY <1>5, <3>2 DEF AccountsInv, AccountsSound, OrgAgrees
      <3>4. Cardinality(Owners) \in Nat /\ Cardinality(Owners) <= 1
        BY <3>3, RowsAreFinite, CountOne
      <3> QED BY <1>0, <3>1, <3>4 DEF Removable
    <2> QED BY <1>0, <1>1, <2>1 DEF OrgStillAs
  <1> QED BY <1>0, <1>1, <1>3, <1>4, <1>5, AskedKeeps

\* A handing over begins: it has read the owners, and nothing is written yet.
LEMMA SetOwnerBeginKeeps ==
    ASSUME AccountsInv, NEW r \in AccountReqs, NEW m \in MemberIds, SetOwnerBegin(r, m)
    PROVE  AccountsInv'
  <1>0. /\ NothingWritten /\ m \in MemberRows /\ Active(m) /\ members[m].role = "member"
        /\ members' = members /\ orgState' = orgState /\ inserted' = inserted
    BY DEF SetOwnerBegin, NothingWritten
  <1>1. /\ accReqs'[r] = [kind |-> "set_owner", member |-> m, previous |-> Owners]
        /\ \A s \in AccountReqs \ {r} : accReqs'[s] = accReqs[s]
        /\ accReqs' = [s \in AccountReqs |-> accReqs'[s]]
    BY OneRequest DEF SetOwnerBegin, Begin, AccountsInv
  <1>2. /\ orgState # "none"
        /\ \A x \in MemberRows : x <= inserted
    BY <1>0 DEF AccountsInv, AccountsSound, AccountsTypeOK
  <1>3. /\ accReqs'[r].kind = "set_owner" /\ accReqs'[r].member = m
        /\ accReqs'[r].previous = Owners
    BY <1>1
  <1>4. \A x \in Owners \cup {m} : x \in MemberRows /\ Active(x)
    BY <1>0 DEF Owners
  <1>5. RequestTyped(accReqs[r])'
    <2>1. Owners \subseteq MemberIds
      BY RowsAreFinite
    <2> QED BY <1>0, <1>2, <1>3, <1>4, <2>1
            DEF RequestTyped, UserKinds, InsertKinds, OrgKinds, Active
  <1>6. UsersStillAs(accReqs[r])'
    BY <1>3 DEF UsersStillAs, UserKinds, InsertKinds
  <1>7. OrgStillAs(accReqs[r])'
    BY <1>0, <1>3 DEF OrgStillAs, Owners, MemberRows, Active
  <1> QED BY <1>0, <1>1, <1>5, <1>6, <1>7, AskedKeeps

\* A request that fails leaves the rows as they are.
LEMMA RequestFailsKeeps ==
    ASSUME AccountsInv, NEW r \in AccountReqs, RequestFails(r)
    PROVE  AccountsInv'
  <1>1. /\ accReqs'[r] = NoReq
        /\ \A s \in AccountReqs \ {r} : accReqs'[s] = accReqs[s]
        /\ accReqs' = [s \in AccountReqs |-> accReqs'[s]]
    BY OneRequest DEF RequestFails, Finish, AccountsInv
  <1> QED BY <1>1, NoRequestLeft, AskedKeeps DEF RequestFails

-----------------------------------------------------------------------------
(* Writes to the users *)

\* Nobody who was there disappears, and no row comes back or turns pending.
RowsGoOn ==
    /\ \A u \in UserIds : users[u].exists => users'[u].exists
    /\ orgState # "none" => orgState' # "none"
    /\ inserted \in Nat /\ inserted' \in Nat /\ inserted <= inserted'
    /\ \A m \in MemberIds : m <= inserted /\ members'[m] # NoMember =>
         members[m] # NoMember /\ (members[m].status = "active" => members'[m].status = "active")

\* If the rows only go on, what the other requests have read stays of its type.
LEMMA RequestsStay ==
    ASSUME AccountsSound, RowsGoOn, NEW r \in AccountReqs,
           \A s \in AccountReqs \ {r} : accReqs'[s] = accReqs[s], RequestTyped(accReqs[r])'
    PROVE  \A s \in AccountReqs : RequestTyped(accReqs[s])'
  <1> SUFFICES ASSUME NEW s \in AccountReqs \ {r} PROVE RequestTyped(accReqs[s])'
    OBVIOUS
  <1>1. RequestTyped(accReqs[s]) /\ accReqs'[s] = accReqs[s]
    BY DEF AccountsSound
  <1>2. \A m \in MemberIds : m \in Int
    BY AccountsAssumption DEF MemberIds
  <1>3. \A m \in MemberIds : m <= inserted => m <= inserted'
    BY <1>2 DEF RowsGoOn
  <1>4. /\ \A u \in UserIds : users[u].exists => users'[u].exists
        /\ orgState # "none" => orgState' # "none"
        /\ \A m \in MemberIds : m <= inserted /\ members'[m] # NoMember =>
             members[m] # NoMember /\ (Active(m) => members'[m].status = "active")
    BY DEF RowsGoOn, Active
  <1>5. accReqs'[s].kind \in UserKinds \ InsertKinds => users'[accReqs'[s].user].exists
    BY <1>1, <1>4 DEF RequestTyped
  <1>6. accReqs'[s].kind = "add" /\ accReqs'[s].row.user # NoUser => users'[accReqs'[s].row.user].exists
    BY <1>1, <1>4 DEF RequestTyped, Member
  <1>7. accReqs'[s].kind \in {"remove", "set_owner"} =>
          accReqs'[s].member \in MemberIds /\ accReqs'[s].member <= inserted'
    BY <1>1, <1>3 DEF RequestTyped
  <1>8. accReqs'[s].kind = "set_owner" =>
         /\ accReqs'[s].previous \subseteq MemberIds
         /\ \A m \in accReqs'[s].previous \cup {accReqs'[s].member} :
              m <= inserted' /\ (members'[m] # NoMember => members'[m].status = "active")
    BY <1>1, <1>3, <1>4 DEF RequestTyped
  <1> QED BY <1>1, <1>4, <1>5, <1>6, <1>7, <1>8 DEF RequestTyped, Active

\* What the rows of the members say, when they stay.
LEMMA MembersStay ==
    ASSUME UNCHANGED members
    PROVE  /\ MemberRows' = MemberRows /\ Owners' = Owners
           /\ \A m : Active(m)' <=> Active(m)
           /\ \A u : RowsOf(u)' = RowsOf(u)
           /\ \A n : InvitesOf(n)' = InvitesOf(n)
  BY DEF MemberRows, Owners, Active, RowsOf, InvitesOf

\* A user is written and the organization is not.
LEMMA UserWritten ==
    ASSUME AccountsSound, UNCHANGED <<orgState, members, inserted, racedOrg, owned>>,
           NEW u \in UserIds, NEW row \in User, row.exists, users[u].exists,
           users' = [users EXCEPT ![u] = row],
           row.phone = users[u].phone \/ IndexAllows(u, row.phone),
           NEW r \in AccountReqs, Finish(r), MarkUsers(r)
    PROVE  AccountsSound'
  <1>1. /\ accReqs'[r] = NoReq
        /\ \A s \in AccountReqs \ {r} : accReqs'[s] = accReqs[s]
        /\ accReqs' = [s \in AccountReqs |-> accReqs'[s]]
    BY OneRequest DEF Finish
  <1>2. users \in [UserIds -> User] /\ inserted \in Nat
    BY DEF AccountsSound, AccountsTypeOK
  <1>3. /\ users' \in [UserIds -> User] /\ users'[u] = row
        /\ \A v \in UserIds \ {u} : users'[v] = users[v]
        /\ \A v \in UserIds : users'[v].exists <=> users[v].exists
    BY <1>2
  <1>4. RowsGoOn
    BY <1>2, <1>3 DEF RowsGoOn
  <1>5. \A s \in AccountReqs : RequestTyped(accReqs[s])'
    BY <1>1, <1>4, NoRequestLeft, RequestsStay
  <1>6. AccountsTypeOK'
    <2>1. racedUsers' \in BOOLEAN
      BY Zenon DEF MarkUsers
    <2>2. racedOrg' \in BOOLEAN /\ owned' \in BOOLEAN
      BY DEF AccountsSound, AccountsTypeOK
    <2> QED BY <1>3, <2>1, <2>2, MembersStay DEF AccountsSound, AccountsTypeOK
  <1>7. Existing' = Existing
    BY <1>3 DEF Existing
  <1>8. (\A a, b \in Existing : a # b /\ users[a].phone = users[b].phone => users[a].phone = NoPhone)'
    BY <1>2, <1>3, <1>7 DEF AccountsSound, IndexAllows, Existing
  <1>9. (\A m \in MemberRows : members[m].user # NoUser => users[members[m].user].exists)'
    <2> SUFFICES ASSUME NEW m \in MemberRows, members[m].user # NoUser
                 PROVE  users'[members[m].user].exists
      BY MembersStay
    <2>1. members[m].user \in UserIds
      BY DEF MemberRows, AccountsSound, AccountsTypeOK, Member
    <2> QED BY <1>3, <2>1 DEF AccountsSound
  <1> QED BY <1>1, <1>5, <1>6, <1>8, <1>9, MembersStay DEF AccountsSound

\* What a request has found out about the organization is not about the users.
LEMMA OrgStays ==
    ASSUME AccountsInv, UNCHANGED <<members, racedOrg, owned>>, NEW r \in AccountReqs,
           Finish(r)
    PROVE  ~racedOrg' => OrgAgrees'
  <1> SUFFICES ASSUME ~racedOrg PROVE OrgAgrees'
    OBVIOUS
  <1>1. /\ accReqs'[r] = NoReq
        /\ \A s \in AccountReqs \ {r} : accReqs'[s] = accReqs[s]
    BY OneRequest DEF Finish, AccountsInv
  <1>2. OrgAgrees
    BY DEF AccountsInv
  <1>3. ASSUME NEW s \in AccountReqs PROVE OrgStillAs(accReqs[s])'
    <2>1. CASE s = r
      BY <1>1, <2>1, NoRequestLeft
    <2>2. CASE s # r
      <3>1. OrgStillAs(accReqs[s]) /\ accReqs'[s] = accReqs[s]
        BY <1>1, <1>2, <2>2 DEF OrgAgrees
      <3> QED BY <3>1 DEF OrgStillAs, RowsOf, InvitesOf, Owners, MemberRows, Active
    <2> QED BY <2>1, <2>2
  <1> QED BY <1>2, <1>3, MembersStay DEF OrgAgrees

\* Who writes users while nobody else decides about them is the last of them.
LEMMA LastOfUsers ==
    ASSUME AccountsInv, NEW r \in AccountReqs, Finish(r), MarkUsers(r), ~racedUsers'
    PROVE  /\ UsersAgree /\ UsersStillAs(accReqs[r])
           /\ \A s \in AccountReqs : UsersStillAs(accReqs[s])'
  <1>1. /\ accReqs'[r] = NoReq
        /\ \A s \in AccountReqs \ {r} : accReqs'[s] = accReqs[s]
    BY OneRequest DEF Finish, AccountsInv
  <1>2. ~racedUsers /\ \A s \in AccountReqs \ {r} : accReqs[s].kind \notin UserKinds
    BY DEF MarkUsers, Others
  <1>3. UsersAgree
    BY <1>2 DEF AccountsInv
  <1>4. ASSUME NEW s \in AccountReqs PROVE UsersStillAs(accReqs[s])'
    <2>1. accReqs'[s].kind \notin UserKinds
      BY <1>1, <1>2 DEF NoReq, UserKinds
    <2> QED BY <2>1 DEF UsersStillAs, UserKinds, InsertKinds
  <1> QED BY <1>3, <1>4 DEF UsersAgree

\* A change of number or of a block commits over whatever the row is by then.
LEMMA UpdateUserCommitKeeps ==
    ASSUME AccountsInv, NEW r \in AccountReqs, UpdateUserCommit(r)
    PROVE  AccountsInv'
  <1> DEFINE req == accReqs[r]
             u == req.user
  <1>0. /\ Finish(r) /\ MarkUsers(r) /\ UNCHANGED <<orgState, members, inserted, racedOrg, owned>>
        /\ req.kind \in {"phone", "active"}
    BY DEF UpdateUserCommit
  <1>1. users \in [UserIds -> User] /\ u \in UserIds /\ users[u].exists
    BY <1>0 DEF AccountsInv, AccountsSound, AccountsTypeOK, RequestTyped, UserKinds, InsertKinds
  <1> DEFINE row == IF req.kind = "phone" THEN [users[u] EXCEPT !.phone = req.phone]
                    ELSE [users[u] EXCEPT !.active = req.active]
  <1>2. /\ row \in User /\ row.exists /\ row.archived = users[u].archived /\ row.inn = users[u].inn
        /\ row.phone = IF req.kind = "phone" THEN req.phone ELSE users[u].phone
        /\ req.kind = "phone" => req.phone \in Phones /\ IndexAllows(u, req.phone)
    BY <1>0, <1>1 DEF AccountsInv, AccountsSound, RequestTyped, User, UpdateUserCommit
  <1>3. users' = [users EXCEPT ![u] = row]
    BY <1>0, <1>1 DEF UpdateUserCommit, User
  <1> HIDE DEF row
  <1>4. AccountsSound'
    <2>1. row.phone = users[u].phone \/ IndexAllows(u, row.phone)
      BY <1>2
    <2> QED BY <1>0, <1>1, <1>2, <1>3, <2>1, UserWritten DEF AccountsInv
  <1>5. ASSUME ~racedUsers' PROVE UsersAgree'
    <2>1. /\ UsersAgree /\ UsersStillAs(req)
          /\ \A s \in AccountReqs : UsersStillAs(accReqs[s])'
      BY <1>0, <1>5, LastOfUsers
    <2>2. ~racedUsers
      BY <1>0, <1>5 DEF MarkUsers
    <2>3. u \in Present /\ (req.kind = "phone" => PhoneFree(req.phone, u))
      BY <1>0, <2>1 DEF UsersStillAs, UserKinds, InsertKinds
    <2>4. /\ users'[u] = row /\ \A v \in UserIds \ {u} : users'[v] = users[v]
          /\ Existing' = Existing /\ Present' = Present
      BY <1>1, <1>2, <1>3 DEF Existing, Present
    <2>5. NumberOnce
      BY <2>1 DEF UsersAgree
    <2>6. NumberOnce'
      <3> SUFFICES ASSUME NEW a \in Existing, NEW b \in Existing, a # b
                   PROVE  /\ users'[a].phone.number = users'[b].phone.number =>
                               users'[a].phone = NoPhone
                          /\ ~(users'[a].inn /\ users'[b].inn /\ {a, b} \subseteq Present)
        BY <1>5, <2>4 DEF NumberOnce
      <3>0. a \in UserIds /\ b \in UserIds
        BY DEF Existing
      <3>1. ~(users'[a].inn /\ users'[b].inn /\ {a, b} \subseteq Present)
        BY <1>2, <2>2, <2>4, <2>5, <3>0 DEF NumberOnce
      <3>2. \A v \in Existing \ {u} : row.phone.number = users[v].phone.number =>
              users[v].phone = NoPhone /\ row.phone = NoPhone
        <4>1. CASE req.kind = "phone"
          BY <1>2, <2>3, <4>1 DEF PhoneFree, WithNumber
        <4>2. CASE req.kind # "phone"
          BY <1>2, <2>2, <2>3, <2>5, <4>2 DEF NumberOnce, Present
        <4> QED BY <4>1, <4>2
      <3>3. users'[a].phone.number = users'[b].phone.number => users'[a].phone = NoPhone
        BY <2>2, <2>4, <2>5, <3>0, <3>2 DEF NumberOnce
      <3> QED BY <3>1, <3>3
    <2>7. ArchivedIsGone'
      BY <1>2, <2>1, <2>2, <2>3, <2>4 DEF UsersAgree, ArchivedIsGone, Present, Existing
    <2> QED BY <2>1, <2>6, <2>7 DEF UsersAgree
  <1> QED BY <1>0, <1>4, <1>5, OrgStays DEF AccountsInv

\* The number is nobody's any more.
LEMMA ArchiveKeeps ==
    ASSUME AccountsInv, NEW r \in AccountReqs, ArchiveCommit(r)
    PROVE  AccountsInv'
  <1> DEFINE req == accReqs[r]
             u == req.user
  <1>0. /\ Finish(r) /\ MarkUsers(r) /\ UNCHANGED <<orgState, members, inserted, racedOrg, owned>>
        /\ req.kind = "archive"
    BY DEF ArchiveCommit
  <1>1. users \in [UserIds -> User] /\ u \in UserIds /\ users[u].exists
    BY <1>0 DEF AccountsInv, AccountsSound, AccountsTypeOK, RequestTyped, UserKinds, InsertKinds
  <1> DEFINE row == [users[u] EXCEPT !.archived = TRUE, !.phone = NoPhone]
  <1>2. /\ row \in User /\ row.exists /\ row.archived /\ row.active = users[u].active
        /\ row.phone = NoPhone
    BY <1>1 DEF User
  <1>3. users' = [users EXCEPT ![u] = row]
    BY <1>1 DEF ArchiveCommit
  <1> HIDE DEF row
  <1>4. AccountsSound'
    <2>1. IndexAllows(u, row.phone)
      BY <1>2 DEF IndexAllows
    <2> QED BY <1>0, <1>1, <1>2, <1>3, <2>1, UserWritten DEF AccountsInv
  <1>5. ASSUME ~racedUsers' PROVE UsersAgree'
    <2>1. /\ UsersAgree /\ UsersStillAs(req)
          /\ \A s \in AccountReqs : UsersStillAs(accReqs[s])'
      BY <1>0, <1>5, LastOfUsers
    <2>2. ~racedUsers
      BY <1>0, <1>5 DEF MarkUsers
    <2>3. ~users[u].active
      BY <1>0, <2>1 DEF UsersStillAs
    <2>4. /\ users'[u] = row /\ \A v \in UserIds \ {u} : users'[v] = users[v]
          /\ Existing' = Existing /\ Present' = Present \ {u}
      BY <1>1, <1>2, <1>3 DEF Existing, Present
    <2>5. NumberOnce
      BY <2>1 DEF UsersAgree
    <2>6. NumberOnce'
      <3> SUFFICES ASSUME NEW a \in Existing, NEW b \in Existing, a # b
                   PROVE  /\ users'[a].phone.number = users'[b].phone.number =>
                               users'[a].phone = NoPhone
                          /\ ~(users'[a].inn /\ users'[b].inn /\ {a, b} \subseteq Present')
        BY <1>5, <2>4 DEF NumberOnce
      <3>0. a \in UserIds /\ b \in UserIds
        BY DEF Existing
      <3>1. ~(users'[a].inn /\ users'[b].inn /\ {a, b} \subseteq Present')
        BY <1>2, <2>2, <2>4, <2>5, <3>0 DEF NumberOnce
      <3>2. \A v \in UserIds : users[v].phone.number = NoPhone.number => users[v].phone = NoPhone
        BY <1>1, AccountsAssumption DEF User
      <3>3. users'[a].phone.number = users'[b].phone.number => users'[a].phone = NoPhone
        BY <1>2, <2>2, <2>4, <2>5, <3>0, <3>2 DEF NumberOnce
      <3> QED BY <3>1, <3>3
    <2>7. ArchivedIsGone'
      BY <1>2, <2>1, <2>2, <2>3, <2>4 DEF UsersAgree, ArchivedIsGone, Present, Existing
    <2> QED BY <2>1, <2>6, <2>7 DEF UsersAgree
  <1> QED BY <1>0, <1>4, <1>5, OrgStays DEF AccountsInv

\* A linked row is an account now, and the invitations of other numbers stay.
LEMMA LinkedRows ==
    ASSUME AccountsSound, NEW r \in AccountReqs,
           accReqs[r].user \in UserIds, accReqs[r].row.phone \in Phones,
           members' = IF accReqs[r].kind = "register"
                      THEN Linked(accReqs[r].user, accReqs[r].row.phone) ELSE members
    PROVE  /\ members' \in [MemberIds -> Member \cup {NoMember}]
           /\ MemberRows' = MemberRows /\ Owners' = Owners
           /\ \A m \in MemberRows : members'[m].role = members[m].role
           /\ \A m \in MemberRows :
                \/ members'[m] = members[m]
                \/ /\ accReqs[r].kind = "register" /\ m \in InvitesOf(accReqs[r].row.phone.number)
                   /\ members'[m].user = accReqs[r].user /\ members'[m].invite = "none"
                   /\ members'[m].status = "active"
           /\ \A m \in MemberIds \ MemberRows : members'[m] = NoMember
  <1> DEFINE kind == accReqs[r].kind
             u == accReqs[r].user
             phone == accReqs[r].row.phone
  <1>0. members' = IF kind = "register" THEN Linked(u, phone) ELSE members
    OBVIOUS
  <1>1. /\ members \in [MemberIds -> Member \cup {NoMember}] /\ NoUser \notin UserIds
        /\ \A m \in MemberIds : m \notin MemberRows => members[m] = NoMember
        /\ \A m \in MemberRows : m \in MemberIds /\ members[m] \in Member
        /\ \A m \in MemberRows : members[m].status # "active" => members[m].role = "member"
    BY AccountsAssumption DEF AccountsSound, AccountsTypeOK, MemberRows, Active
  <1>2. /\ \A n : InvitesOf(n) \subseteq MemberRows
        /\ \A m \in InvitesOf(phone.number) : members[m].status # "active"
    BY DEF InvitesOf, Active
  <1>3. ASSUME NEW m \in MemberIds
        PROVE  /\ members'[m] \in Member \cup {NoMember}
               /\ members'[m] # NoMember <=> members[m] # NoMember
               /\ \/ members'[m] = members[m]
                  \/ /\ m \in InvitesOf(phone.number) /\ kind = "register"
                     /\ members'[m].user = u /\ members'[m].invite = "none"
                     /\ members'[m].status = "active" /\ members'[m].role = members[m].role
    <2>1. CASE kind = "register" /\ m \in InvitesOf(phone.number)
      <3>1. members[m] \in Member
        BY <1>1, <1>2, <2>1
      <3>2. members'[m] = [members[m] EXCEPT !.user = u, !.status = "active", !.invite = "none"]
        BY <2>1 DEF Linked
      <3>3. members'[m] \in Member
        BY <3>1, <3>2 DEF Member
      <3>4. /\ members'[m].user = u /\ members'[m].invite = "none"
            /\ members'[m].status = "active" /\ members'[m].role = members[m].role
        BY <3>1, <3>2 DEF Member
      <3>5. members'[m] # NoMember /\ members[m] # NoMember
        BY <1>1, <1>2, <2>1, <3>4 DEF NoMember, MemberRows
      <3> QED BY <2>1, <3>3, <3>4, <3>5
    <2>2. CASE ~(kind = "register" /\ m \in InvitesOf(phone.number))
      <3>1. members'[m] = members[m]
        BY <2>2 DEF Linked
      <3> QED BY <1>1, <3>1
    <2> QED BY <2>1, <2>2
  <1>4. members' \in [MemberIds -> Member \cup {NoMember}]
    <2>1. members' = [m \in MemberIds |-> members'[m]]
      BY <1>1 DEF Linked
    <2> QED BY <1>3, <2>1
  <1>5. MemberRows' = MemberRows
    BY <1>3 DEF MemberRows
  <1>6. Owners' = Owners
    BY <1>1, <1>2, <1>3, <1>5 DEF Owners, Active
  <1> QED BY <1>1, <1>3, <1>4, <1>5, <1>6

\* The row of a new user keeps users and members of their types.
LEMMA InsertIsSound ==
    ASSUME AccountsSound, NEW r \in AccountReqs, InsertUser(r)
    PROVE  AccountsSound'
  <1> DEFINE req == accReqs[r]
             u == req.user
             row == req.row
  <1>0. /\ Finish(r) /\ MarkUsers(r) /\ UNCHANGED <<orgState, inserted, owned>>
        /\ req.kind \in InsertKinds /\ ~users[u].exists /\ IndexAllows(u, row.phone)
        /\ users' = [users EXCEPT ![u] = row]
        /\ members' = IF req.kind = "register" THEN Linked(u, row.phone) ELSE members
        /\ racedOrg' = (racedOrg \/ Others(r, {"add"}))
    BY DEF InsertUser, InsertKinds
  <1>1. /\ u \in UserIds /\ row \in User /\ row.phone \in Phones /\ row.exists /\ ~row.archived
    BY <1>0 DEF AccountsSound, RequestTyped, UserKinds, InsertKinds
  <1>2. /\ accReqs'[r] = NoReq
        /\ \A s \in AccountReqs \ {r} : accReqs'[s] = accReqs[s]
        /\ accReqs' = [s \in AccountReqs |-> accReqs'[s]]
    BY <1>0, OneRequest DEF Finish
  <1>3. users \in [UserIds -> User] /\ inserted \in Nat
    BY DEF AccountsSound, AccountsTypeOK
  <1>4. /\ users' \in [UserIds -> User] /\ users'[u] = row
        /\ \A v \in UserIds \ {u} : users'[v] = users[v]
        /\ \A v \in UserIds : users[v].exists => users'[v].exists
    BY <1>0, <1>1, <1>3
  <1>5. /\ members' \in [MemberIds -> Member \cup {NoMember}]
        /\ MemberRows' = MemberRows /\ Owners' = Owners
        /\ \A m \in MemberRows : members'[m].role = members[m].role
        /\ \A m \in MemberRows :
             \/ members'[m] = members[m]
             \/ /\ members'[m].user = u /\ members'[m].invite = "none"
                /\ members'[m].status = "active"
        /\ \A m \in MemberIds \ MemberRows : members'[m] = NoMember
    BY <1>0, <1>1, LinkedRows
  <1> HIDE DEF u, row, req
  <1>6. RowsGoOn
    <2>1. ASSUME NEW m \in MemberIds, members'[m] # NoMember
          PROVE  members[m] # NoMember /\ (members[m].status = "active" => members'[m].status = "active")
      BY <1>5, <2>1 DEF MemberRows
    <2> QED BY <1>0, <1>3, <1>4, <2>1 DEF RowsGoOn
  <1>7. \A s \in AccountReqs : RequestTyped(accReqs[s])'
    BY <1>2, <1>6, NoRequestLeft, RequestsStay
  <1>8. AccountsTypeOK'
    <2>1. racedUsers' \in BOOLEAN /\ racedOrg' \in BOOLEAN
      BY <1>0, Zenon DEF MarkUsers
    <2>2. owned' \in BOOLEAN /\ orgState' \in {"none", "open", "archived"} /\ inserted' \in 0..MaxMember
      BY <1>0 DEF AccountsSound, AccountsTypeOK
    <2>3. ASSUME NEW m \in MemberRows
          PROVE  /\ m <= inserted'
                 /\ members'[m].status = "active" <=> members'[m].user # NoUser
                 /\ members'[m].status = "active" <=> members'[m].invite = "none"
                 /\ members'[m].status # "active" => members'[m].role = "member"
      BY <1>0, <1>1, <1>5, AccountsAssumption DEF AccountsSound, AccountsTypeOK, Active
    <2> QED BY <1>4, <1>5, <2>1, <2>2, <2>3 DEF AccountsTypeOK, Active
  <1>9. (\A a, b \in Existing : a # b /\ users[a].phone = users[b].phone => users[a].phone = NoPhone)'
    <2>1. Existing' = Existing \cup {u}
      BY <1>1, <1>4 DEF Existing
    <2> QED BY <1>0, <1>3, <1>4, <2>1 DEF AccountsSound, IndexAllows, Existing
  <1>10. (\A m \in MemberRows : members[m].user # NoUser => users[members[m].user].exists)'
    <2> SUFFICES ASSUME NEW m \in MemberRows, members'[m].user # NoUser
                 PROVE  users'[members'[m].user].exists
      BY <1>5
    <2>1. CASE members'[m] = members[m]
      <3>1. members[m].user \in UserIds /\ users[members[m].user].exists
        BY <2>1 DEF MemberRows, AccountsSound, AccountsTypeOK, Member
      <3> QED BY <1>4, <2>1, <3>1
    <2>2. CASE members'[m].user = u
      BY <1>1, <1>4, <2>2
    <2> QED BY <1>5, <2>1, <2>2
  <1> QED BY <1>0, <1>2, <1>5, <1>7, <1>8, <1>9, <1>10 DEF AccountsSound

\* So the number of a new user is its own, unless requests have raced.
LEMMA InsertUserKeeps ==
    ASSUME AccountsInv, NEW r \in AccountReqs, InsertUser(r)
    PROVE  AccountsInv'
  <1> DEFINE req == accReqs[r]
             u == req.user
             row == req.row
  <1>0. /\ Finish(r) /\ MarkUsers(r) /\ owned' = owned
        /\ req.kind \in InsertKinds /\ ~users[u].exists
        /\ users' = [users EXCEPT ![u] = row]
        /\ members' = IF req.kind = "register" THEN Linked(u, row.phone) ELSE members
        /\ racedOrg' = (racedOrg \/ Others(r, {"add"}))
    BY DEF InsertUser, InsertKinds
  <1>1. /\ u \in UserIds /\ row \in User /\ row.phone \in Phones /\ row.exists /\ ~row.archived
        /\ users \in [UserIds -> User]
        /\ AccountsSound
    BY <1>0 DEF AccountsInv, AccountsSound, AccountsTypeOK, RequestTyped, UserKinds, InsertKinds
  <1>2. /\ accReqs'[r] = NoReq
        /\ \A s \in AccountReqs \ {r} : accReqs'[s] = accReqs[s]
    BY <1>0, OneRequest DEF Finish, AccountsInv
  <1>3. AccountsSound'
    BY InsertIsSound DEF AccountsInv
  <1>4. ASSUME ~racedUsers' PROVE UsersAgree'
    <2>1. /\ UsersAgree /\ UsersStillAs(req) /\ ~racedUsers
          /\ \A s \in AccountReqs : UsersStillAs(accReqs[s])'
      BY <1>0, <1>4, LastOfUsers DEF MarkUsers
    <2>2. WithNumber(row.phone.number) = {} /\ (row.inn => \A v \in Present : ~users[v].inn)
      BY <1>0, <2>1 DEF UsersStillAs
    <2>3. /\ users'[u] = row /\ \A v \in UserIds \ {u} : users'[v] = users[v]
          /\ Existing' = Existing \cup {u} /\ Present' = Present \cup {u} /\ u \notin Existing
      BY <1>0, <1>1 DEF Existing, Present
    <2>4. NumberOnce /\ ArchivedIsGone
      BY <2>1 DEF UsersAgree
    <2>5. NumberOnce'
      <3> SUFFICES ASSUME NEW a \in Existing \cup {u}, NEW b \in Existing \cup {u}, a # b
                   PROVE  /\ users'[a].phone.number = users'[b].phone.number =>
                               users'[a].phone = NoPhone
                          /\ ~(users'[a].inn /\ users'[b].inn /\ {a, b} \subseteq Present')
        BY <1>4, <2>3 DEF NumberOnce
      <3>0. a \in UserIds /\ b \in UserIds
        BY <1>1 DEF Existing
      <3>1. ~(users'[a].inn /\ users'[b].inn /\ {a, b} \subseteq Present')
        BY <2>1, <2>2, <2>3, <2>4, <3>0 DEF NumberOnce
      <3>2. \A v \in Existing : users[v].phone.number # row.phone.number
        BY <2>2 DEF WithNumber
      <3>3. users'[a].phone.number = users'[b].phone.number => users'[a].phone = NoPhone
        BY <2>1, <2>3, <2>4, <3>0, <3>2 DEF NumberOnce
      <3> QED BY <3>1, <3>3
    <2>6. ArchivedIsGone'
      BY <1>1, <2>1, <2>3, <2>4 DEF ArchivedIsGone, Existing
    <2> QED BY <2>1, <2>5, <2>6 DEF UsersAgree
  <1>5. ASSUME ~racedOrg' PROVE OrgAgrees'
    <2>1. ~racedOrg /\ \A s \in AccountReqs \ {r} : accReqs[s].kind # "add"
      BY <1>0, <1>5 DEF Others
    <2>2. OrgAgrees
      BY <2>1 DEF AccountsInv
    <2>3. /\ MemberRows' = MemberRows /\ Owners' = Owners
          /\ \A m \in MemberRows : members'[m].role = members[m].role
          /\ \A m \in MemberRows :
               \/ members'[m] = members[m]
               \/ /\ m \in InvitesOf(row.phone.number) /\ req.kind = "register"
                  /\ members'[m].user = u /\ members'[m].invite = "none"
                  /\ members'[m].status = "active"
          /\ \A m \in MemberIds \ MemberRows : members'[m] = NoMember
      BY <1>0, <1>1, LinkedRows
    <2>4. RowsOf(u) = {}
      BY <1>0, <1>1, AccountsAssumption DEF RowsOf, AccountsSound
    <2>6. \A m \in MemberRows : members'[m].user = u /\ members'[m].status = "active" =>
            m \in InvitesOf(row.phone.number)
      BY <2>3, <2>4 DEF RowsOf, Active
    <2>7. \A n \in Numbers : InvitesOf(n)' \subseteq InvitesOf(n)
      BY <2>3 DEF InvitesOf, Active
    <2>8. (\A v \in UserIds : \A m, n \in RowsOf(v) : m = n)'
      <3>1. row.phone.number \in Numbers
        BY <1>1 DEF Numbers
      <3>2. ASSUME NEW v \in UserIds, NEW m \in MemberRows, NEW n \in MemberRows,
                   members'[m].user = v, members'[m].status = "active",
                   members'[n].user = v, members'[n].status = "active"
            PROVE  m = n
        <4>1. CASE v = u
          <5>1. m \in InvitesOf(row.phone.number) /\ n \in InvitesOf(row.phone.number)
            BY <2>6, <3>2, <4>1
          <5> QED BY <2>2, <3>1, <5>1 DEF OrgAgrees
        <4>2. CASE v # u
          <5>1. m \in RowsOf(v) /\ n \in RowsOf(v)
            BY <2>3, <3>2, <4>2 DEF RowsOf, Active
          <5> QED BY <2>2, <5>1 DEF OrgAgrees
        <4> QED BY <4>1, <4>2
      <3> QED BY <2>3, <3>2 DEF RowsOf, Active
    <2>9. (\A number \in Numbers : \A m, n \in InvitesOf(number) : m = n)'
      BY <2>2, <2>7 DEF OrgAgrees
    <2>10. ASSUME NEW s \in AccountReqs PROVE OrgStillAs(accReqs[s])'
      <3>1. CASE s = r
        BY <1>2, <3>1, NoRequestLeft
      <3>2. CASE s # r
        <4>1. OrgStillAs(accReqs[s]) /\ accReqs'[s] = accReqs[s] /\ accReqs[s].kind # "add"
          BY <1>2, <2>1, <2>2, <3>2 DEF OrgAgrees
        <4>2. accReqs[s].kind \in {"remove", "set_owner"} => accReqs[s].member \in MemberIds
          BY <1>1 DEF AccountsSound, RequestTyped
        <4>3. \A m \in MemberIds : members'[m].role = members[m].role
          BY <2>3 DEF MemberRows
        <4> QED BY <2>3, <4>1, <4>2, <4>3 DEF OrgStillAs
      <3> QED BY <3>1, <3>2
    <2> QED BY <1>0, <2>2, <2>3, <2>8, <2>9, <2>10 DEF OrgAgrees
  <1> QED BY <1>3, <1>4, <1>5 DEF AccountsInv

-----------------------------------------------------------------------------
(* Writes to the organization *)

\* The rows of the members are written, and the users are not.
LEMMA RowsWritten ==
    ASSUME AccountsSound, UNCHANGED <<users, orgState, racedUsers>>, orgState # "none",
           RowsGoOn, inserted' \in 0..MaxMember,
           members' \in [MemberIds -> Member \cup {NoMember}],
           \A m \in MemberRows' :
             /\ m <= inserted'
             /\ members'[m].status = "active" <=> members'[m].user # NoUser
             /\ members'[m].status = "active" <=> members'[m].invite = "none"
             /\ members'[m].status # "active" => members'[m].role = "member"
             /\ members'[m].user # NoUser => users[members'[m].user].exists,
           owned' \in BOOLEAN, ~owned' => Owners' = {},
           NEW r \in AccountReqs, Finish(r), MarkOrg(r)
    PROVE  AccountsSound'
  <1>1. /\ accReqs'[r] = NoReq
        /\ \A s \in AccountReqs \ {r} : accReqs'[s] = accReqs[s]
        /\ accReqs' = [s \in AccountReqs |-> accReqs'[s]]
    BY OneRequest DEF Finish
  <1>2. \A s \in AccountReqs : RequestTyped(accReqs[s])'
    BY <1>1, NoRequestLeft, RequestsStay
  <1>3. racedOrg' \in BOOLEAN
    BY Zenon DEF MarkOrg
  <1>4. AccountsTypeOK'
    BY <1>3 DEF AccountsSound, AccountsTypeOK, Active
  <1>5. Existing' = Existing
    BY DEF Existing
  <1>6. (\A u, v \in Existing : u # v /\ users[u].phone = users[v].phone => users[u].phone = NoPhone)'
    BY <1>5 DEF AccountsSound
  <1> QED BY <1>1, <1>2, <1>4, <1>6 DEF AccountsSound

\* What a request has found out about the users is not about the members.
LEMMA UsersStay ==
    ASSUME AccountsInv, UNCHANGED <<users, racedUsers>>, NEW r \in AccountReqs, Finish(r)
    PROVE  ~racedUsers' => UsersAgree'
  <1> SUFFICES ASSUME ~racedUsers PROVE UsersAgree'
    OBVIOUS
  <1>1. /\ accReqs'[r] = NoReq
        /\ \A s \in AccountReqs \ {r} : accReqs'[s] = accReqs[s]
    BY OneRequest DEF Finish, AccountsInv
  <1>2. UsersAgree
    BY DEF AccountsInv
  <1>3. ASSUME NEW s \in AccountReqs PROVE UsersStillAs(accReqs[s])'
    <2>1. CASE s = r
      BY <1>1, <2>1, NoRequestLeft
    <2>2. CASE s # r
      <3>1. UsersStillAs(accReqs[s]) /\ accReqs'[s] = accReqs[s]
        BY <1>1, <1>2, <2>2 DEF UsersAgree
      <3> QED BY <3>1 DEF UsersStillAs, Present, Existing, WithNumber, PhoneFree
    <2> QED BY <2>1, <2>2
  <1>4. NumberOnce' /\ ArchivedIsGone'
    BY <1>2 DEF UsersAgree, NumberOnce, ArchivedIsGone, Existing, Present
  <1> QED BY <1>3, <1>4 DEF UsersAgree

\* Who writes members while nobody else decides about them is the last of them.
LEMMA LastOfOrg ==
    ASSUME AccountsInv, NEW r \in AccountReqs, Finish(r), MarkOrg(r), ~racedOrg'
    PROVE  /\ OrgAgrees /\ OrgStillAs(accReqs[r])
           /\ \A s \in AccountReqs : OrgStillAs(accReqs[s])'
  <1>1. /\ accReqs'[r] = NoReq
        /\ \A s \in AccountReqs \ {r} : accReqs'[s] = accReqs[s]
    BY OneRequest DEF Finish, AccountsInv
  <1>2. ~racedOrg /\ \A s \in AccountReqs \ {r} : accReqs[s].kind \notin OrgKinds
    BY DEF MarkOrg, Others, OrgKinds
  <1>3. OrgAgrees
    BY <1>2 DEF AccountsInv
  <1>4. ASSUME NEW s \in AccountReqs PROVE OrgStillAs(accReqs[s])'
    <2>1. accReqs'[s].kind \notin OrgKinds
      BY <1>1, <1>2 DEF NoReq, OrgKinds
    <2> QED BY <2>1 DEF OrgStillAs, OrgKinds
  <1> QED BY <1>3, <1>4 DEF OrgAgrees

\* An inserted row is the next one.
LEMMA RowInserted ==
    ASSUME AccountsSound, NEW row \in Member, members' = [members EXCEPT ![inserted + 1] = row],
           inserted < MaxMember, inserted' = inserted + 1
    PROVE  /\ inserted + 1 \in MemberIds /\ inserted + 1 \notin MemberRows
           /\ members' \in [MemberIds -> Member \cup {NoMember}]
           /\ MemberRows' = MemberRows \cup {inserted + 1}
           /\ members'[inserted + 1] = row
           /\ \A m \in MemberIds \ {inserted + 1} : members'[m] = members[m]
           /\ inserted' \in 0..MaxMember
           /\ \A m \in MemberIds : m <= inserted => m # inserted + 1 /\ m <= inserted'
  <1>1. /\ inserted \in 0..MaxMember /\ MaxMember \in Nat
        /\ members \in [MemberIds -> Member \cup {NoMember}]
        /\ \A m \in MemberRows : m <= inserted
    BY AccountsAssumption DEF AccountsSound, AccountsTypeOK
  <1>2. /\ inserted + 1 \in MemberIds /\ inserted' \in 0..MaxMember
        /\ \A m \in MemberIds : m <= inserted => m # inserted + 1 /\ m <= inserted'
    BY <1>1 DEF MemberIds
  <1>3. inserted + 1 \notin MemberRows
    BY <1>1, <1>2
  <1>4. /\ members' \in [MemberIds -> Member \cup {NoMember}]
        /\ members'[inserted + 1] = row
        /\ \A m \in MemberIds \ {inserted + 1} : members'[m] = members[m]
    BY <1>1, <1>2
  <1>5. row # NoMember
    BY DEF Member, NoMember
  <1>6. MemberRows' = MemberRows \cup {inserted + 1}
    BY <1>2, <1>4, <1>5 DEF MemberRows
  <1> QED BY <1>2, <1>3, <1>4, <1>6

\* A member is added: once, unless requests about the organization have raced.
LEMMA AddMemberCommitKeeps ==
    ASSUME AccountsInv, NEW r \in AccountReqs, AddMemberCommit(r)
    PROVE  AccountsInv'
  <1> DEFINE row == accReqs[r].row
             new == inserted + 1
  <1>0. /\ Finish(r) /\ MarkOrg(r) /\ UNCHANGED <<users, orgState, racedUsers, owned>>
        /\ accReqs[r].kind = "add" /\ inserted < MaxMember /\ inserted' = inserted + 1
        /\ members' = [members EXCEPT ![new] = row]
        /\ AccountsSound
    BY DEF AddMemberCommit, Insert, AccountsInv
  <1>1. /\ orgState # "none" /\ row \in Member /\ row.role = "member"
        /\ row.status = "active" <=> row.user # NoUser
        /\ row.status = "active" <=> row.invite = "none"
        /\ row.user # NoUser => users[row.user].exists
    BY <1>0 DEF AccountsSound, RequestTyped, OrgKinds
  <1>2. /\ new \in MemberIds /\ new \notin MemberRows
        /\ members' \in [MemberIds -> Member \cup {NoMember}]
        /\ MemberRows' = MemberRows \cup {new}
        /\ members'[new] = row
        /\ \A m \in MemberIds \ {new} : members'[m] = members[m]
        /\ inserted' \in 0..MaxMember
        /\ \A m \in MemberIds : m <= inserted => m # new /\ m <= inserted'
    BY <1>0, <1>1, RowInserted
  <1>3. /\ inserted \in Nat /\ new \in Nat /\ new <= inserted'
        /\ \A m \in MemberRows : m <= inserted /\ m \in MemberIds
    BY <1>0 DEF AccountsSound, AccountsTypeOK, MemberRows
  <1> HIDE DEF row, new
  <1>4. RowsGoOn
    BY <1>0, <1>2, <1>3 DEF RowsGoOn
  <1>5. Owners' = Owners
    BY <1>1, <1>2, <1>3 DEF Owners, Active
  <1>6. ASSUME NEW m \in MemberRows'
        PROVE  /\ m <= inserted'
               /\ members'[m].status = "active" <=> members'[m].user # NoUser
               /\ members'[m].status = "active" <=> members'[m].invite = "none"
               /\ members'[m].status # "active" => members'[m].role = "member"
               /\ members'[m].user # NoUser => users[members'[m].user].exists
    <2>1. CASE m = new
      BY <1>1, <1>2, <1>3, <2>1
    <2>2. CASE m # new
      <3>1. m \in MemberRows /\ members'[m] = members[m] /\ m <= inserted'
        BY <1>2, <1>3, <2>2
      <3> QED BY <1>0, <3>1 DEF AccountsSound, AccountsTypeOK, Active
    <2> QED BY <2>1, <2>2
  <1>7. AccountsSound'
    <2>1. owned' \in BOOLEAN /\ (~owned' => Owners' = {})
      BY <1>0, <1>5 DEF AccountsSound, AccountsTypeOK
    <2> QED BY <1>0, <1>1, <1>2, <1>4, <1>6, <2>1, RowsWritten
  <1>8. ASSUME ~racedOrg' PROVE OrgAgrees'
    <2>1. /\ OrgAgrees /\ OrgStillAs(accReqs[r])
          /\ \A s \in AccountReqs : OrgStillAs(accReqs[s])'
      BY <1>0, <1>8, LastOfOrg
    <2>2. /\ row.user # NoUser => RowsOf(row.user) = {}
          /\ row.user = NoUser => InvitesOf(row.invite) = {}
      BY <1>0, <2>1 DEF OrgStillAs, row
    <2>3. ASSUME NEW u \in UserIds, NEW m \in MemberRows', NEW n \in MemberRows',
                 members'[m].user = u, members'[m].status = "active",
                 members'[n].user = u, members'[n].status = "active"
          PROVE  m = n
      <3>1. u # NoUser
        BY AccountsAssumption
      <3>2. \A x \in MemberRows' : x = new \/ (x \in MemberRows /\ members'[x] = members[x])
        BY <1>2, <1>3
      <3>3. \A x \in RowsOf(u) : row.user # u
        BY <2>2, <3>1
      <3> QED BY <1>2, <2>1, <2>3, <3>2, <3>3 DEF OrgAgrees, RowsOf, Active
    <2>4. ASSUME NEW number \in Numbers, NEW m \in MemberRows', NEW n \in MemberRows',
                 members'[m].invite = number, members'[m].status # "active",
                 members'[n].invite = number, members'[n].status # "active"
          PROVE  m = n
      <3>2. \A x \in MemberRows' : x = new \/ (x \in MemberRows /\ members'[x] = members[x])
        BY <1>2, <1>3
      <3>3. \A x \in InvitesOf(number) : row.user = NoUser => row.invite # number
        BY <2>2
      <3> QED BY <1>1, <1>2, <2>1, <2>4, <3>2, <3>3 DEF OrgAgrees, InvitesOf, Active
    <2> QED BY <1>0, <1>5, <2>1, <2>3, <2>4 DEF OrgAgrees, RowsOf, InvitesOf, Active
  <1> QED BY <1>0, <1>7, <1>8, UsersStay DEF AccountsInv

\* A member is removed: never the owner, unless requests have raced.
LEMMA RemoveMemberCommitKeeps ==
    ASSUME AccountsInv, NEW r \in AccountReqs, RemoveMemberCommit(r)
    PROVE  AccountsInv'
  <1> DEFINE x == accReqs[r].member
  <1>0. /\ Finish(r) /\ MarkOrg(r) /\ UNCHANGED <<users, orgState, inserted, racedUsers, owned>>
        /\ accReqs[r].kind = "remove" /\ x \in MemberRows
        /\ members' = [members EXCEPT ![x] = NoMember]
        /\ AccountsSound
    BY DEF RemoveMemberCommit, AccountsInv
  <1>1. /\ orgState # "none" /\ inserted \in Nat /\ inserted \in 0..MaxMember
        /\ members \in [MemberIds -> Member \cup {NoMember}]
    BY <1>0 DEF AccountsSound, AccountsTypeOK
  <1> HIDE DEF x
  <1>2. /\ members' \in [MemberIds -> Member \cup {NoMember}]
        /\ MemberRows' = MemberRows \ {x} /\ MemberRows \subseteq MemberIds
        /\ \A m \in MemberIds \ {x} : members'[m] = members[m]
        /\ members'[x] = NoMember
    BY <1>0, <1>1 DEF MemberRows
  <1>3. Owners' = Owners \ {x}
    BY <1>2 DEF Owners, Active
  <1>4. AccountsSound'
    <2>1. RowsGoOn
      BY <1>0, <1>1, <1>2 DEF RowsGoOn
    <2>2. owned' \in BOOLEAN /\ (~owned' => Owners' = {})
      BY <1>0, <1>3 DEF AccountsSound, AccountsTypeOK
    <2>3. ASSUME NEW m \in MemberRows'
          PROVE  /\ m <= inserted'
                 /\ members'[m].status = "active" <=> members'[m].user # NoUser
                 /\ members'[m].status = "active" <=> members'[m].invite = "none"
                 /\ members'[m].status # "active" => members'[m].role = "member"
                 /\ members'[m].user # NoUser => users[members'[m].user].exists
      <3>1. m \in MemberRows /\ members'[m] = members[m]
        BY <1>2
      <3> QED BY <1>0, <3>1 DEF AccountsSound, AccountsTypeOK, Active
    <2> QED BY <1>0, <1>1, <1>2, <2>1, <2>2, <2>3, RowsWritten
  <1>5. ASSUME ~racedOrg' PROVE OrgAgrees'
    <2>1. /\ OrgAgrees /\ OrgStillAs(accReqs[r])
          /\ \A s \in AccountReqs : OrgStillAs(accReqs[s])'
      BY <1>0, <1>5, LastOfOrg
    <2>2. x \notin Owners
      BY <1>0, <2>1 DEF OrgStillAs, Owners, x
    <2>3. /\ \A u \in UserIds : RowsOf(u)' \subseteq RowsOf(u)
          /\ \A n \in Numbers : InvitesOf(n)' \subseteq InvitesOf(n)
      BY <1>2 DEF RowsOf, InvitesOf, Active
    <2> QED BY <1>0, <1>3, <2>1, <2>2, <2>3 DEF OrgAgrees
  <1> QED BY <1>0, <1>4, <1>5, UsersStay DEF AccountsInv

\* The organization is handed over: one owner, unless requests have raced.
LEMMA SetOwnerCommitKeeps ==
    ASSUME AccountsInv, NEW r \in AccountReqs, SetOwnerCommit(r)
    PROVE  AccountsInv'
  <1> DEFINE x == accReqs[r].member
             previous == accReqs[r].previous
  <1>0. /\ Finish(r) /\ MarkOrg(r) /\ UNCHANGED <<users, orgState, inserted, racedUsers>>
        /\ accReqs[r].kind = "set_owner" /\ owned' = TRUE
        /\ previous \cup {x} \subseteq MemberRows
        /\ members' = [m \in MemberIds |->
              IF m = x THEN [members[m] EXCEPT !.role = "owner"]
              ELSE IF m \in previous THEN [members[m] EXCEPT !.role = "member"]
              ELSE members[m]]
        /\ AccountsSound
    BY DEF SetOwnerCommit, AccountsInv
  <1>1. /\ orgState # "none" /\ inserted \in Nat /\ inserted \in 0..MaxMember
        /\ members \in [MemberIds -> Member \cup {NoMember}]
        /\ x \in MemberIds
        /\ \A m \in previous \cup {x} : members[m] \in Member /\ members[m].status = "active"
        /\ MemberRows \subseteq MemberIds
    BY <1>0 DEF AccountsSound, AccountsTypeOK, RequestTyped, MemberRows, Active
  <1> HIDE DEF x, previous
  <1>2. ASSUME NEW m \in MemberIds
        PROVE  /\ members'[m] \in Member \cup {NoMember}
               /\ members'[m] # NoMember <=> members[m] # NoMember
               /\ members'[m].user = members[m].user /\ members'[m].invite = members[m].invite
               /\ members'[m].status = members[m].status
               /\ members'[m].role = IF m = x THEN "owner" ELSE IF m \in previous THEN "member"
                                     ELSE members[m].role
    <2>1. CASE m = x \/ m \in previous
      <3>1. members[m] \in Member
        BY <1>1, <2>1
      <3>2. members'[m] = IF m = x THEN [members[m] EXCEPT !.role = "owner"]
                          ELSE [members[m] EXCEPT !.role = "member"]
        BY <1>0, <2>1
      <3>3. /\ members'[m] \in Member
            /\ members'[m].user = members[m].user /\ members'[m].invite = members[m].invite
            /\ members'[m].status = members[m].status
            /\ members'[m].role = IF m = x THEN "owner" ELSE "member"
        BY <3>1, <3>2 DEF Member
      <3>4. members[m] # NoMember /\ members'[m] # NoMember
        BY <3>1, <3>3 DEF Member, NoMember
      <3> QED BY <2>1, <3>3, <3>4
    <2>2. CASE ~(m = x \/ m \in previous)
      <3>1. members'[m] = members[m]
        BY <1>0, <2>2
      <3> QED BY <1>1, <2>2, <3>1
    <2> QED BY <2>1, <2>2
  <1>3. members' \in [MemberIds -> Member \cup {NoMember}] /\ MemberRows' = MemberRows
    <2>1. members' = [m \in MemberIds |-> members'[m]]
      BY <1>0
    <2>2. members' \in [MemberIds -> Member \cup {NoMember}]
      BY <1>2, <2>1
    <2> QED BY <1>2, <2>2 DEF MemberRows
  <1>4. AccountsSound'
    <2>1. RowsGoOn
      <3>1. \A m \in MemberIds : members'[m] # NoMember =>
              members[m] # NoMember /\ members'[m].status = members[m].status
        BY <1>2
      <3> QED BY <1>0, <1>1, <3>1 DEF RowsGoOn
    <2>2. owned' \in BOOLEAN /\ (~owned' => Owners' = {})
      BY <1>0
    <2>3. ASSUME NEW m \in MemberRows'
          PROVE  /\ m <= inserted'
                 /\ members'[m].status = "active" <=> members'[m].user # NoUser
                 /\ members'[m].status = "active" <=> members'[m].invite = "none"
                 /\ members'[m].status # "active" => members'[m].role = "member"
                 /\ members'[m].user # NoUser => users[members'[m].user].exists
      <3>1. m \in MemberRows /\ m \in MemberIds
        BY <1>1, <1>3
      <3>2. /\ m <= inserted
            /\ members[m].status = "active" <=> members[m].user # NoUser
            /\ members[m].status = "active" <=> members[m].invite = "none"
            /\ members[m].status # "active" => members[m].role = "member"
            /\ members[m].user # NoUser => users[members[m].user].exists
        BY <1>0, <3>1 DEF AccountsSound, AccountsTypeOK, Active
      <3> QED BY <1>0, <1>1, <1>2, <3>1, <3>2
    <2> QED BY <1>0, <1>1, <1>3, <2>1, <2>2, <2>3, RowsWritten
  <1>5. ASSUME ~racedOrg' PROVE OrgAgrees'
    <2>1. /\ OrgAgrees /\ OrgStillAs(accReqs[r])
          /\ \A s \in AccountReqs : OrgStillAs(accReqs[s])'
      BY <1>0, <1>5, LastOfOrg
    <2>2. previous = Owners
      BY <1>0, <2>1 DEF OrgStillAs, previous
    <2>3. \A m \in Owners' : m = x
      BY <1>1, <1>2, <1>3, <2>2 DEF Owners, Active
    <2>4. x \in Owners'
      BY <1>0, <1>1, <1>2, <1>3 DEF Owners, Active
    <2>5. /\ \A u \in UserIds : RowsOf(u)' = RowsOf(u)
          /\ \A n \in Numbers : InvitesOf(n)' = InvitesOf(n)
      BY <1>1, <1>2, <1>3 DEF RowsOf, InvitesOf, Active
    <2> QED BY <2>1, <2>3, <2>4, <2>5 DEF OrgAgrees
  <1> QED BY <1>0, <1>4, <1>5, UsersStay DEF AccountsInv

\* The first owner, when an organization is made: nobody is in it yet.
LEMMA CreateOrganizationKeeps ==
    ASSUME AccountsInv, NEW actor, NEW owner \in UserIds \cup {NoUser},
           CreateOrganization(actor, owner)
    PROVE  AccountsInv'
  <1>0. /\ orgState = "none" /\ orgState' = "open" /\ owned' = (owner # NoUser)
        /\ UNCHANGED <<users, accReqs, racedUsers, racedOrg>>
        /\ AccountsSound
    BY DEF CreateOrganization, AccountsInv
  <1>1. /\ MemberRows = {} /\ inserted \in 0..MaxMember /\ MaxMember \in Nat
        /\ members \in [MemberIds -> Member \cup {NoMember}]
        /\ users \in [UserIds -> User]
    BY <1>0, AccountsAssumption DEF AccountsSound, AccountsTypeOK
  <1>2. \A m \in MemberIds : m <= inserted => m <= inserted + 1 /\ m # inserted + 1
    BY <1>1 DEF MemberIds
  <1> DEFINE row == NewMember(owner, "none", "owner", "active")
  <1>3. \/ /\ owner = NoUser /\ members' = members /\ inserted' = inserted
           /\ MemberRows' = {} /\ inserted' \in 0..MaxMember
        \/ /\ owner # NoUser /\ owner \in Existing
           /\ inserted + 1 \in MemberIds /\ inserted' = inserted + 1 /\ inserted' \in 0..MaxMember
           /\ members' \in [MemberIds -> Member \cup {NoMember}]
           /\ MemberRows' = {inserted + 1} /\ members'[inserted + 1] = row
           /\ \A m \in MemberIds \ {inserted + 1} : members'[m] = members[m]
    <2>1. CASE owner = NoUser
      BY <1>1, <2>1 DEF CreateOrganization, MemberRows
    <2>2. CASE owner # NoUser
      <3>1. row \in Member
        BY <2>2 DEF NewMember, Member
      <3>2. /\ owner \in Existing /\ inserted < MaxMember /\ inserted' = inserted + 1
            /\ members' = [members EXCEPT ![inserted + 1] = row]
        BY <2>2 DEF CreateOrganization, Insert
      <3> HIDE DEF row
      <3> QED BY <1>0, <1>1, <2>2, <3>1, <3>2, RowInserted
    <2> QED BY <2>1, <2>2
  <1>4. row.user = owner /\ row.invite = "none" /\ row.role = "owner" /\ row.status = "active"
    BY DEF NewMember
  <1> HIDE DEF row
  <1>5. RowsGoOn
    <2>1. \A m \in MemberIds : m <= inserted => members'[m] = members[m]
      BY <1>2, <1>3
    <2>2. inserted \in Nat /\ inserted' \in Nat /\ inserted <= inserted'
      BY <1>1, <1>3
    <2> QED BY <1>0, <2>1, <2>2 DEF RowsGoOn
  <1>6. ASSUME NEW m \in MemberRows' PROVE owner # NoUser /\ owner \in Existing /\ m = inserted' /\ members'[m] = row
    BY <1>1, <1>3
  <1>7. ASSUME NEW s \in AccountReqs PROVE RequestTyped(accReqs[s])'
    <2>1. RequestTyped(accReqs[s]) /\ accReqs'[s] = accReqs[s] /\ accReqs[s].kind \notin OrgKinds
      BY <1>0 DEF AccountsSound, RequestTyped
    <2> QED BY <1>0, <2>1 DEF RequestTyped, OrgKinds
  <1>8. AccountsSound'
    <2>1. owned' \in BOOLEAN
      BY <1>0
    <2>2. members' \in [MemberIds -> Member \cup {NoMember}] /\ inserted' \in 0..MaxMember
      BY <1>1, <1>3
    <2>3. AccountsTypeOK'
      <3>1. \A m \in MemberRows' :
               /\ m <= inserted'
               /\ members'[m].status = "active" <=> members'[m].user # NoUser
               /\ members'[m].status = "active" <=> members'[m].invite = "none"
               /\ members'[m].status # "active" => members'[m].role = "member"
        BY <1>4, <1>6, <2>2
      <3>2. /\ users' \in [UserIds -> User] /\ orgState' \in {"none", "open", "archived"}
            /\ racedUsers' \in BOOLEAN /\ racedOrg' \in BOOLEAN
        BY <1>0 DEF AccountsSound, AccountsTypeOK
      <3> QED BY <2>1, <2>2, <3>1, <3>2 DEF AccountsTypeOK, Active
    <2>4. Existing' = Existing
      BY <1>0 DEF Existing
    <2>5. (\A m \in MemberRows : members[m].user # NoUser => users[members[m].user].exists)'
      BY <1>0, <1>4, <1>6 DEF Existing
    <2>6. ~owned' => Owners' = {}
      BY <1>0, <1>6 DEF Owners
    <2>7. (\A u, v \in Existing : u # v /\ users[u].phone = users[v].phone => users[u].phone = NoPhone)'
      BY <1>0, <2>4 DEF AccountsSound
    <2>8. accReqs' = [s \in AccountReqs |-> accReqs'[s]]
      BY <1>0 DEF AccountsSound
    <2> QED BY <1>0, <1>7, <2>3, <2>5, <2>6, <2>7, <2>8 DEF AccountsSound
  <1>9. ASSUME ~racedUsers' PROVE UsersAgree'
    <2>1. UsersAgree
      BY <1>0, <1>9 DEF AccountsInv
    <2>2. ASSUME NEW s \in AccountReqs PROVE UsersStillAs(accReqs[s])'
      BY <1>0, <2>1 DEF UsersAgree, UsersStillAs, Present, Existing, WithNumber, PhoneFree
    <2>3. NumberOnce' /\ ArchivedIsGone'
      BY <1>0, <2>1 DEF UsersAgree, NumberOnce, ArchivedIsGone, Existing, Present
    <2> QED BY <2>2, <2>3 DEF UsersAgree
  <1>10. OrgAgrees'
    <2>1. \A m, n \in MemberRows' : m = n
      BY <1>6
    <2>2. owned' => Owners' # {}
      <3>1. SUFFICES ASSUME owner # NoUser PROVE Owners' # {}
        BY <1>0
      <3>2. inserted + 1 \in Owners'
        BY <1>3, <1>4, <3>1 DEF Owners, Active
      <3> QED BY <3>2
    <2>3. ASSUME NEW s \in AccountReqs PROVE OrgStillAs(accReqs[s])'
      <3>1. accReqs'[s] = accReqs[s] /\ accReqs[s].kind \notin OrgKinds
        BY <1>0 DEF AccountsSound, RequestTyped
      <3> QED BY <3>1 DEF OrgStillAs, OrgKinds
    <2> QED BY <2>1, <2>2, <2>3 DEF OrgAgrees, Owners, RowsOf, InvitesOf
  <1> QED BY <1>8, <1>9, <1>10 DEF AccountsInv

\* The organization is archived: users and members stay as they are.
LEMMA ArchiveOrganizationKeeps ==
    ASSUME AccountsInv, NEW actor, ArchiveOrganization(actor)
    PROVE  AccountsInv'
  <1>0. /\ orgState' = "archived" /\ orgState = "open"
        /\ UNCHANGED <<users, members, inserted, accReqs, racedUsers, racedOrg, owned>>
    BY DEF ArchiveOrganization
  <1>1. Existing' = Existing /\ Present' = Present
    BY <1>0 DEF Existing, Present
  <1>2. AccountsSound'
    <2>1. ASSUME NEW s \in AccountReqs PROVE RequestTyped(accReqs[s])'
      BY <1>0 DEF AccountsInv, AccountsSound, RequestTyped, Active
    <2>2. AccountsTypeOK'
      BY <1>0, MembersStay DEF AccountsInv, AccountsSound, AccountsTypeOK
    <2> QED BY <1>0, <1>1, <2>1, <2>2, MembersStay DEF AccountsInv, AccountsSound
  <1>3. ASSUME ~racedUsers' PROVE UsersAgree'
    <2>1. UsersAgree
      BY <1>0, <1>3 DEF AccountsInv
    <2>2. ASSUME NEW s \in AccountReqs PROVE UsersStillAs(accReqs[s])'
      BY <1>0, <2>1 DEF UsersAgree, UsersStillAs, Present, Existing, WithNumber, PhoneFree
    <2>3. NumberOnce' /\ ArchivedIsGone'
      BY <1>0, <2>1 DEF UsersAgree, NumberOnce, ArchivedIsGone, Existing, Present
    <2> QED BY <2>2, <2>3 DEF UsersAgree
  <1>4. ASSUME ~racedOrg' PROVE OrgAgrees'
    <2>1. OrgAgrees
      BY <1>0, <1>4 DEF AccountsInv
    <2>2. ASSUME NEW s \in AccountReqs PROVE OrgStillAs(accReqs[s])'
      BY <1>0, <2>1 DEF OrgAgrees, OrgStillAs, RowsOf, InvitesOf, Owners, MemberRows, Active
    <2> QED BY <1>0, <2>1, <2>2, MembersStay DEF OrgAgrees
  <1> QED BY <1>2, <1>3, <1>4 DEF AccountsInv

-----------------------------------------------------------------------------
(* Every step, and what the invariant says *)

\* Every request about users and the organization keeps the invariant.
LEMMA AccountsStep == AccountsInv /\ [AccountsNext]_accountVars => AccountsInv'
  <1> SUFFICES ASSUME AccountsInv, [AccountsNext]_accountVars PROVE AccountsInv'
    OBVIOUS
  <1>1. CASE UNCHANGED accountVars
    <2>1. UNCHANGED <<users, orgState, members, inserted, accReqs, racedUsers, racedOrg, owned>>
      BY <1>1 DEF accountVars
    <2>2. Existing' = Existing
      BY <2>1 DEF Existing
    <2>3. AccountsSound'
      <3>1. ASSUME NEW s \in AccountReqs PROVE RequestTyped(accReqs[s])'
        BY <2>1 DEF AccountsInv, AccountsSound, RequestTyped, Active
      <3>2. AccountsTypeOK'
        BY <2>1, MembersStay DEF AccountsInv, AccountsSound, AccountsTypeOK
      <3> QED BY <2>1, <2>2, <3>1, <3>2, MembersStay DEF AccountsInv, AccountsSound
    <2>4. UsersAgree' <=> UsersAgree
      <3>1. ASSUME NEW s \in AccountReqs
            PROVE  UsersStillAs(accReqs[s])' <=> UsersStillAs(accReqs[s])
        BY <2>1 DEF UsersStillAs, Present, Existing, WithNumber, PhoneFree
      <3>2. (NumberOnce' <=> NumberOnce) /\ (ArchivedIsGone' <=> ArchivedIsGone)
        BY <2>1 DEF NumberOnce, ArchivedIsGone, Existing, Present
      <3> QED BY <3>1, <3>2 DEF UsersAgree
    <2>5. OrgAgrees' <=> OrgAgrees
      <3>1. ASSUME NEW s \in AccountReqs
            PROVE  OrgStillAs(accReqs[s])' <=> OrgStillAs(accReqs[s])
        BY <2>1 DEF OrgStillAs, RowsOf, InvitesOf, Owners, MemberRows, Active
      <3> QED BY <2>1, <3>1, MembersStay DEF OrgAgrees
    <2> QED BY <2>1, <2>3, <2>4, <2>5 DEF AccountsInv
  <1>2. CASE AccountsNext
    BY <1>2, RegisterBeginKeeps, OneOffBeginKeeps, CreateByAdminBeginKeeps, UpdatePhoneBeginKeeps,
       UpdateActiveBeginKeeps, ArchiveBeginKeeps, InsertUserKeeps, UpdateUserCommitKeeps,
       ArchiveKeeps, AddMemberBeginKeeps, RemoveMemberBeginKeeps, AddMemberCommitKeeps,
       RemoveMemberCommitKeeps, SetOwnerBeginKeeps, SetOwnerCommitKeeps, RequestFailsKeeps,
       CreateOrganizationKeeps, ArchiveOrganizationKeeps
       DEF AccountsNext
  <1> QED BY <1>1, <1>2

\* Numbers, owners and memberships.
LEMMA AccountsHold == AccountsInv => AccountsTypeOK /\ PeopleOK /\ ContextAgrees
  <1> SUFFICES ASSUME AccountsInv PROVE AccountsTypeOK /\ PeopleOK /\ ContextAgrees
    OBVIOUS
  <1>0. AccountsSound /\ AccountsTypeOK
    BY DEF AccountsInv, AccountsSound
  <1>1. NumberOnce
    <2>1. CASE racedUsers
      BY <1>0, <2>1 DEF AccountsSound, NumberOnce
    <2>2. CASE ~racedUsers
      BY <2>2 DEF AccountsInv, UsersAgree
    <2> QED BY <2>1, <2>2
  <1>2. ArchivedIsGone
    BY DEF AccountsInv, UsersAgree, ArchivedIsGone
  <1>3. ASSUME owned, ~racedOrg PROVE Cardinality(Owners) = 1
    BY <1>3, RowsAreFinite, CountOne DEF AccountsInv, OrgAgrees
  <1>4. ASSUME ~racedOrg, NEW u \in UserIds PROVE Cardinality(RowsOf(u)) <= 1
    BY <1>4, RowsAreFinite, CountOne DEF AccountsInv, OrgAgrees
  <1>5. ASSUME ~racedOrg, NEW n \in Numbers PROVE Cardinality(InvitesOf(n)) <= 1
    BY <1>5, RowsAreFinite, CountOne DEF AccountsInv, OrgAgrees
  <1>6. PeopleOK
    BY <1>1, <1>2, <1>3, <1>4, <1>5 DEF PeopleOK, OneOwner, OneMembership
  <1>7. ContextAgrees
    <2> SUFFICES ASSUME ~racedOrg
                 PROVE  /\ \A u \in UserIds : SeesOrders(u) => ContextGiven(u)
                        /\ \A u \in ContractOwners : ContextGiven(u)
      BY DEF ContextAgrees
    <2>1. ASSUME NEW u \in UserIds, RowsOf(u) # {} PROVE ContextGiven(u)
      <3>1. PICK m \in RowsOf(u) : TRUE
        BY <2>1
      <3>2. m \in MemberRows /\ members[m].user = u /\ u # NoUser
        BY <3>1, AccountsAssumption DEF RowsOf
      <3>3. orgState # "none" /\ u \in Existing
        BY <1>0, <3>2 DEF AccountsSound, Existing
      <3>4. Cardinality(RowsOf(u)) = 1
        BY <2>1, RowsAreFinite, CountOne DEF AccountsInv, OrgAgrees
      <3> QED BY <3>3, <3>4 DEF ContextGiven, IsMember
    <2>2. ASSUME NEW u \in ContractOwners PROVE u \in UserIds /\ RowsOf(u) # {}
      <3>1. \E m \in MemberRows : Active(m) /\ members[m].user = u
        BY DEF ContractOwners, Owners, MemberRows
      <3>2. PICK m \in MemberRows : Active(m) /\ members[m].user = u
        BY <3>1
      <3>3. u \in UserIds
        BY <1>0, <3>2 DEF AccountsTypeOK, MemberRows, Member
      <3> QED BY <3>2, <3>3 DEF RowsOf
    <2> QED BY <2>1, <2>2 DEF SeesOrders
  <1> QED BY <1>0, <1>6, <1>7

-----------------------------------------------------------------------------
(* auth_service *)

\* The parts share no variable: a step of one leaves the others as they are.
IdentityInv == SessionsInv /\ AccessInv /\ CodesInv /\ ThrottleInv /\ AccountsInv

\* The invariants of the five components hold at first.
LEMMA IdentityStart == IdentityInit => IdentityInv
  BY SessionsStart, AccessStart, CodesStart, ThrottleStart, AccountsStart
     DEF IdentityInit, IdentityInv

\* A step moves one component, and so keeps all the invariants.
LEMMA IdentityStep ==
    IdentityInv /\ [IdentityNext]_<<identityFocus, sessionVars, accessVars, codeVars,
                                    throttleVars, accountVars>> => IdentityInv'
  <1> SUFFICES ASSUME IdentityInv,
                      [IdentityNext]_<<identityFocus, sessionVars, accessVars, codeVars,
                                       throttleVars, accountVars>>
               PROVE  IdentityInv'
    OBVIOUS
  <1>1. /\ [SessionsNext]_sessionVars /\ [AccessNext]_accessVars /\ [CodesNext]_codeVars
        /\ [ThrottleNext]_throttleVars /\ [AccountsNext]_accountVars
    BY DEF IdentityNext
  <1> QED BY <1>1, SessionsStep, AccessStep, CodesStep, ThrottleStep, AccountsStep
          DEF IdentityInv

\* Every row, counter and request of the logins and of the people is of its type, and
\* the row of a member is an account or an invitation.
THEOREM IdentityTyped == IdentitySpec => []IdentityTypeOK
  <1>1. IdentityInv => IdentityTypeOK
    BY SessionsHold, AccountsHold DEF IdentityInv, IdentityTypeOK
  <1> QED BY <1>1, IdentityStart, IdentityStep, PTL DEF IdentitySpec

\* A device that keeps what refresh last gave it can go on, whatever it asks at once and
\* whichever answers are lost; links of rotation point forward; what was cut off stays so.
THEOREM RotationIsSafe == IdentitySpec => []RotationSafe
  <1>1. IdentityInv => RotationSafe
    BY SessionsHold, AccessHolds DEF IdentityInv, RotationSafe
  <1> QED BY <1>1, IdentityStart, IdentityStep, PTL DEF IdentitySpec

\* Messages, guesses and passwords keep to the limits of the one-time codes and of the
\* login throttle in every interleaving of the commands of Redis.
THEOREM LimitsAlwaysHold == IdentitySpec => []LimitsHold
  <1>1. IdentityInv => LimitsHold
    BY CodesHold, ThrottleHolds DEF IdentityInv, LimitsHold
  <1> QED BY <1>1, IdentityStart, IdentityStep, PTL DEF IdentitySpec

\* A number leads to one user, an organization has one owner and nobody twice, and an
\* archived user is out, as long as no request writes while another decides.
THEOREM PeopleStayInOrder == IdentitySpec => []PeopleOK
  <1>1. IdentityInv => PeopleOK
    BY AccountsHold DEF IdentityInv
  <1> QED BY <1>1, IdentityStart, IdentityStep, PTL DEF IdentitySpec

\* Who sees the orders of the organization can order for it, and its contracts are made
\* with one who can.
THEOREM SeeingIsOrdering == IdentitySpec => []ContextAgrees
  <1>1. IdentityInv => ContextAgrees
    BY AccountsHold DEF IdentityInv
  <1> QED BY <1>1, IdentityStart, IdentityStep, PTL DEF IdentitySpec
=============================================================================
