--------------------------------- MODULE Throttle ---------------------------------
(***************************************************************************)
(* The login by password (auth_service.login) and its backoff in Redis     *)
(* (login_throttle) for one identifier.  A login checks the block, then    *)
(* compares the password, then writes: INCR, EXPIRE for the first failure, *)
(* SET of the block by the number of failures; or DEL of both keys.  Each  *)
(* command is a step, and logins overlap.                                  *)
(***************************************************************************)
EXTENDS Integers, FiniteSets, Sequences, FiniteSetsExt

CONSTANTS
    Logins,       \* logins that may be in progress at once
    Thresholds,   \* _BACKOFF: the failures from which each block applies, ascending
    MaxFailures,  \* bound: failures that are counted
    MaxLost       \* bound: logins that end between two commands

ASSUME ThrottleAssumption ==
    /\ Thresholds \in Seq(Nat \ {0}) /\ Len(Thresholds) > 0
    /\ \A i, j \in DOMAIN Thresholds : i < j => Thresholds[i] < Thresholds[j]
    /\ IsFiniteSet(Logins) /\ MaxFailures \in Nat /\ MaxLost \in Nat

VARIABLES
    failures,    \* login_fail:{identifier}
    ends,        \* that key has a time to live
    block,       \* login_block:{identifier}: the threshold that set it, or 0
    logins,      \* where each login is, and the number it has counted
    open,        \* history: failures counted since a block was set, or the count began
    lost         \* history: logins that ended between two commands

throttleVars == <<failures, ends, block, logins, open, lost>>

LoginAt(step, n) == [at |-> step, n |-> n]

ThrottleInit ==
    /\ failures = 0 /\ ends = FALSE /\ block = 0
    /\ logins = [l \in Logins |-> LoginAt("idle", 0)]
    /\ open = 0 /\ lost = 0

Moves(l, step, n) == logins' = [logins EXCEPT ![l] = LoginAt(step, n)]

\* Mutant: the threshold itself does not block yet.
BlockForAfter(n) ==
    LET crossed == {i \in DOMAIN Thresholds : n > Thresholds[i]} IN
    IF crossed = {} THEN 0 ELSE Max(crossed)

\* The longest matching threshold (the first of the reversed _BACKOFF).
BlockFor(n) ==
    LET crossed == {i \in DOMAIN Thresholds : n >= Thresholds[i]} IN
    IF crossed = {} THEN 0 ELSE Max(crossed)

CheckBlocked(l) ==
    /\ logins[l].at = "idle" /\ block = 0
    /\ Moves(l, "compare", 0)
    /\ UNCHANGED <<failures, ends, block, open, lost>>

\* No such user, a wrong password, an archived or an inactive user: all alike.
RecordFailure(l) ==
    /\ logins[l].at = "compare" /\ failures < MaxFailures
    /\ failures' = failures + 1
    /\ open' = open + 1
    /\ Moves(l, IF failures = 0 THEN "expire" ELSE "block", failures + 1)
    /\ UNCHANGED <<ends, block, lost>>

\* Mutant: the counter is not given its time to live.
SetExpirySkipped(l) ==
    /\ logins[l].at = "expire"
    /\ Moves(l, "block", logins[l].n)
    /\ UNCHANGED <<failures, ends, block, open, lost>>

\* EXPIRE of a key that is gone does nothing.
SetExpiry(l) ==
    /\ logins[l].at = "expire"
    /\ ends' = (failures > 0)
    /\ Moves(l, "block", logins[l].n)
    /\ UNCHANGED <<failures, block, open, lost>>

\* The block of the number that this login has counted, whatever block is set.
SetBlock(l) ==
    LET b == BlockFor(logins[l].n) IN
    /\ logins[l].at = "block"
    /\ block' = IF b = 0 THEN block ELSE b
    /\ open' = IF b = 0 THEN open ELSE 0
    /\ Moves(l, "idle", 0)
    /\ UNCHANGED <<failures, ends, lost>>

\* The password is right: the state is cleared and the tokens issued (Sessions).
ThrottleReset(l) ==
    /\ logins[l].at = "compare"
    /\ failures' = 0 /\ ends' = FALSE /\ block' = 0 /\ open' = 0
    /\ Moves(l, "idle", 0)
    /\ UNCHANGED lost

LoginLost(l) ==
    /\ logins[l].at \in {"expire", "block"} /\ lost < MaxLost
    /\ lost' = lost + 1
    /\ Moves(l, "idle", 0)
    /\ UNCHANGED <<failures, ends, block, open>>

BlockEnds ==
    /\ block # 0 /\ block' = 0
    /\ UNCHANGED <<failures, ends, logins, open, lost>>

FailuresEnd ==
    /\ ends
    /\ failures' = 0 /\ ends' = FALSE /\ open' = 0
    /\ UNCHANGED <<block, logins, lost>>

ThrottleNext ==
    \/ \E l \in Logins : \/ CheckBlocked(l) \/ RecordFailure(l) \/ SetExpiry(l) \/ SetBlock(l)
                         \/ ThrottleReset(l) \/ LoginLost(l)
    \/ BlockEnds \/ FailuresEnd

ThrottleSpec == ThrottleInit /\ [][ThrottleNext]_throttleVars

-----------------------------------------------------------------------------
\* Between two blocks no more passwords are tried than the first threshold, those
\* that overlap with the one that blocks, and one for each login that was lost.
AttemptsBounded == open <= Thresholds[1] - 1 + Cardinality(Logins) + lost

\* A counter ends by itself, or is about to be given its end; only a login that
\* was lost in between leaves one that stays.
CounterEnds ==
    failures > 0 /\ ~ends => lost > 0 \/ \E l \in Logins : logins[l].at = "expire"
=============================================================================
