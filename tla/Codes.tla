---------------------------------- MODULE Codes ----------------------------------
(***************************************************************************)
(* One-time codes of auth_service (otp_service) for one phone and purpose. *)
(*                                                                         *)
(* Four keys of Redis: the code (300 s), the time of the last send (looked *)
(* at for 60 s), the sends of the hour (3600 s from the last one) and the  *)
(* misses (300 s from the last one).  issue_code and verify_code read and  *)
(* write them in separate commands, so every command is a step and several *)
(* requests may be between their commands.  Codes are numbered in the      *)
(* order they are stored; the guess 0 is a number that is no code.         *)
(***************************************************************************)
EXTENDS Integers, FiniteSets

CONSTANTS
    CodeRequests,  \* requests that may be in progress at once
    HourCap,       \* _RL_HOUR_CAP
    MaxMisses,     \* _MAX_VERIFY_ATTEMPTS
    MaxCode        \* bound: codes that are stored

ASSUME CodesAssumption ==
    /\ HourCap \in Nat /\ MaxMisses \in Nat /\ MaxCode \in Nat
    /\ IsFiniteSet(CodeRequests) /\ CodeRequests # {}

NoCode == 0
Codes  == 1..MaxCode

VARIABLES
    code,       \* otp:{purpose}:{phone}
    recent,     \* otp:rl:last is less than _RL_MIN_INTERVAL old
    sends,      \* otp:rl:hour
    fails,      \* otp:fail
    lastCode,   \* the number of codes that have been stored
    codeReqs,   \* where each request is
    used,       \* history: the codes that a verification has accepted and deleted
    misses,     \* history: wrong guesses that were compared with the code in place
    forgiven    \* history: a miss of the code in place was forgotten, or never counted

codeVars == <<code, recent, sends, fails, lastCode, codeReqs, used, misses, forgiven>>

IdleReq == [at |-> "idle"]

ReqAt(step, guess) == [at |-> step, guess |-> guess]

CodesInit ==
    /\ code = NoCode /\ recent = FALSE /\ sends = 0 /\ fails = 0 /\ lastCode = 0
    /\ codeReqs = [c \in CodeRequests |-> IdleReq]
    /\ used = {} /\ misses = 0 /\ forgiven = FALSE

At(c, step) == codeReqs[c].at = step

Goto(c, step) == codeReqs' = [codeReqs EXCEPT ![c] = ReqAt(step, codeReqs[c].guess)]

Ends(c) == codeReqs' = [codeReqs EXCEPT ![c] = IdleReq]

-----------------------------------------------------------------------------
(* issue_code *)

\* The minimum interval.
SendBegin(c) ==
    /\ At(c, "idle") /\ ~recent
    /\ codeReqs' = [codeReqs EXCEPT ![c] = ReqAt("hour", NoCode)]
    /\ UNCHANGED <<code, recent, sends, fails, lastCode, used, misses, forgiven>>

\* Mutant: one send too many.
SendHourOneMore(c) ==
    /\ At(c, "hour")
    /\ IF sends > HourCap THEN Ends(c) ELSE Goto(c, "store")
    /\ UNCHANGED <<code, recent, sends, fails, lastCode, used, misses, forgiven>>

\* The cap of the hour.
SendHour(c) ==
    /\ At(c, "hour")
    /\ IF sends >= HourCap THEN Ends(c) ELSE Goto(c, "store")
    /\ UNCHANGED <<code, recent, sends, fails, lastCode, used, misses, forgiven>>

\* The transaction that stores the code with its marks; the misses are left alone.
SendStore(c) ==
    /\ At(c, "store") /\ lastCode < MaxCode
    /\ code' = lastCode + 1 /\ lastCode' = lastCode + 1
    /\ recent' = TRUE /\ sends' = sends + 1
    /\ misses' = 0 /\ forgiven' = FALSE
    /\ Ends(c)
    /\ UNCHANGED <<fails, used>>

-----------------------------------------------------------------------------
(* verify_code *)

\* Mutant: one guess too many.
VerifyBeginOneMore(c, guess) ==
    /\ At(c, "idle")
    /\ codeReqs' = [codeReqs EXCEPT ![c] = ReqAt(IF fails > MaxMisses THEN "drop" ELSE "read", guess)]
    /\ UNCHANGED <<code, recent, sends, fails, lastCode, used, misses, forgiven>>

\* The misses are read.
VerifyBegin(c, guess) ==
    /\ At(c, "idle")
    /\ codeReqs' = [codeReqs EXCEPT ![c] = ReqAt(IF fails >= MaxMisses THEN "drop" ELSE "read", guess)]
    /\ UNCHANGED <<code, recent, sends, fails, lastCode, used, misses, forgiven>>

\* Too many: whatever code is there is deleted.
VerifyDrop(c) ==
    /\ At(c, "drop")
    /\ code' = NoCode
    /\ Ends(c)
    /\ UNCHANGED <<recent, sends, fails, lastCode, used, misses, forgiven>>

\* The code is read and compared.
VerifyCompare(c) ==
    /\ At(c, "read")
    /\ IF code = NoCode THEN Ends(c)
       ELSE Goto(c, IF code = codeReqs[c].guess THEN "hit" ELSE "miss")
    /\ misses' = misses + (IF code \in {NoCode, codeReqs[c].guess} THEN 0 ELSE 1)
    /\ UNCHANGED <<code, recent, sends, fails, lastCode, used, forgiven>>

VerifyMiss(c) ==
    /\ At(c, "miss")
    /\ fails' = fails + 1
    /\ Ends(c)
    /\ UNCHANGED <<code, recent, sends, lastCode, used, misses, forgiven>>

\* Mutant: the code is left to expire.
VerifyHitKeeps(c) ==
    /\ At(c, "hit")
    /\ used' = used \cup {codeReqs[c].guess}
    /\ Goto(c, "clear")
    /\ UNCHANGED <<code, recent, sends, fails, lastCode, misses, forgiven>>

\* Right: whatever code is there now is deleted...
VerifyHit(c) ==
    /\ At(c, "hit")
    /\ code' = NoCode
    /\ used' = used \cup {codeReqs[c].guess}
    /\ Goto(c, "clear")
    /\ UNCHANGED <<recent, sends, fails, lastCode, misses, forgiven>>

\* ... and then the misses.
VerifyClear(c) ==
    /\ At(c, "clear")
    /\ fails' = 0
    /\ forgiven' = (forgiven \/ code # NoCode)
    /\ Ends(c)
    /\ UNCHANGED <<code, recent, sends, lastCode, used, misses>>

\* Redis or the process fails between two commands (bound: one miss of a code is lost).
ReqFails(c) ==
    /\ ~At(c, "idle") /\ ~(At(c, "miss") /\ forgiven)
    /\ forgiven' = (forgiven \/ At(c, "miss"))
    /\ Ends(c)
    /\ UNCHANGED <<code, recent, sends, fails, lastCode, used, misses>>

-----------------------------------------------------------------------------
(* Time *)

MinutePasses ==
    /\ recent /\ recent' = FALSE
    /\ UNCHANGED <<code, sends, fails, lastCode, codeReqs, used, misses, forgiven>>

CodeExpires ==
    /\ code # NoCode /\ ~recent
    /\ code' = NoCode
    /\ UNCHANGED <<recent, sends, fails, lastCode, codeReqs, used, misses, forgiven>>

\* Mutant: the counter does not live as long as the code.
FailsExpireEarly ==
    /\ fails > 0
    /\ fails' = 0
    /\ UNCHANGED <<code, recent, sends, lastCode, codeReqs, used, misses, forgiven>>

\* 300 s after the last miss: a code that has been missed since it was stored is gone.
FailsExpire ==
    /\ fails > 0 /\ (code = NoCode \/ misses = 0)
    /\ fails' = 0
    /\ UNCHANGED <<code, recent, sends, lastCode, codeReqs, used, misses, forgiven>>

\* 3600 s after the last send.
HourEnds ==
    /\ sends > 0 /\ ~recent /\ code = NoCode /\ fails = 0
    /\ sends' = 0
    /\ UNCHANGED <<code, recent, fails, lastCode, codeReqs, used, misses, forgiven>>

CodesNext ==
    \/ \E c \in CodeRequests :
         \/ SendBegin(c) \/ SendHour(c) \/ SendStore(c)
         \/ \E guess \in 0..lastCode : VerifyBegin(c, guess)
         \/ VerifyDrop(c) \/ VerifyCompare(c) \/ VerifyMiss(c) \/ VerifyHit(c) \/ VerifyClear(c)
         \/ ReqFails(c)
    \/ MinutePasses \/ CodeExpires \/ FailsExpire \/ HourEnds

CodesSpec == CodesInit /\ [][CodesNext]_codeVars

-----------------------------------------------------------------------------
(* What the limits and the codes promise, although nothing is locked *)

Overlap == Cardinality(CodeRequests) - 1

\* The cap of the hour is overshot by no more than the requests that passed the
\* check before another's send was counted.
HourCapHolds == sends <= HourCap + Overlap

\* A code stands no more wrong guesses than the limit and those that overlap; the
\* exceptions are a verification of an earlier code that clears the counter late,
\* and a request that ends before it counts.
GuessesBounded == code # NoCode /\ ~forgiven => misses <= MaxMisses + Overlap

\* A code that was accepted and deleted is not in place again: the same code is
\* accepted a second time only by a request that had already compared it.
UsedCodeIsGone == code \notin used
=============================================================================
