-------------------------------- MODULE Sessions --------------------------------
(***************************************************************************)
(* The refresh tokens of one user of auth_service and the devices that     *)
(* hold them.                                                              *)
(*                                                                         *)
(* A refresh revokes the token it is given and issues a successor; the     *)
(* row keeps the successor's id (rotated_to_id).  A revoked token that is  *)
(* presented again is answered with a new pair when it was rotated a       *)
(* moment ago, or when its successor is still unused (the answer was       *)
(* lost); otherwise every token of the user is revoked.  The token is read *)
(* WITHOUT a lock, so a refresh is a Begin (the reads and the branch) and  *)
(* a Commit (the rows it writes, and the answer).                          *)
(*                                                                         *)
(* A device keeps one pair and has one refresh on its way at a time        *)
(* (_refreshInFlight); it gives up after its time limit, and the request   *)
(* goes on without it.  A call reaches the server before the device gives  *)
(* up, or never.  The rows are numbered in the order they are issued.      *)
(***************************************************************************)
EXTENDS Integers, FiniteSets, FiniteSetsExt

CONSTANTS
    Devices,     \* installations of the application, and browsers, of the user
    Refreshes,   \* database sessions that serve /auth/refresh
    MaxToken     \* bound: refresh tokens that are issued

ASSUME SessionsAssumption == MaxToken \in Nat \ {0}

Tokens  == 1..MaxToken
NoToken == 0

VARIABLES
    tokenRows,   \* the refresh_tokens table
    issued,      \* the number of rows in it
    usable,      \* the user is active and not archived
    devices,     \* what each device holds
    refreshing,  \* what each request in progress has read
    changed,     \* history: something but the rotation may have ended sessions
    missedTwice  \* history: a device has missed two answers running

sessionVars == <<tokenRows, issued, usable, devices, refreshing, changed, missedTwice>>

\* fresh: rotated within refresh_rotation_grace_seconds (only a rotation is looked at).
TokenRow == [revoked: BOOLEAN, fresh: BOOLEAN, expired: BOOLEAN, rotatedTo: Tokens \cup {NoToken}]

Branches == {"rotate", "grace", "lost", "reuse", "refuse"}

NoRefresh == [branch |-> "none"]

Device == [held: Tokens \cup {NoToken}, missed: 0..2]

RefreshState == {NoRefresh} \cup [branch: Branches, raw: Tokens, device: Devices, heard: BOOLEAN]

SessionsInit ==
    /\ tokenRows = [t \in Tokens |->
          [revoked |-> FALSE, fresh |-> FALSE, expired |-> FALSE, rotatedTo |-> NoToken]]
    /\ issued = 0 /\ usable = TRUE /\ changed = FALSE /\ missedTwice = FALSE
    /\ devices = [d \in Devices |-> [held |-> NoToken, missed |-> 0]]
    /\ refreshing = [r \in Refreshes |-> NoRefresh]

-----------------------------------------------------------------------------
(* Tokens that exist *)

Known == 1..issued

Live(t) == t \in Known /\ ~tokenRows[t].revoked /\ ~tokenRows[t].expired

\* The device waits for an answer.
Waiting(d) == \E r \in Refreshes : refreshing[r] # NoRefresh /\ refreshing[r].heard
                                                             /\ refreshing[r].device = d

\* logout_all and change_password: the tokens that are not revoked are, and
\* rotated_to_id is left alone.
RevokeAll(rows) ==
    [t \in Tokens |-> IF t \in Known /\ ~rows[t].revoked
                      THEN [rows[t] EXCEPT !.revoked = TRUE] ELSE rows[t]]

\* Mutant: a successor is not looked for, as before the lost answers were handled.
BranchNoLost(t) ==
    LET row == tokenRows[t] IN
    IF row.revoked
    THEN IF row.rotatedTo # NoToken /\ row.fresh
         THEN IF usable THEN "grace" ELSE "refuse"
         ELSE "reuse"
    ELSE IF row.expired \/ ~usable THEN "refuse" ELSE "rotate"

\* The branch that refresh_tokens takes for the token it is given.
Branch(t) ==
    LET row == tokenRows[t] IN
    IF row.revoked
    THEN IF row.rotatedTo # NoToken /\ row.fresh
         THEN IF usable THEN "grace" ELSE "refuse"
         ELSE IF row.rotatedTo # NoToken /\ ~row.expired /\ Live(row.rotatedTo)
              THEN IF usable THEN "lost" ELSE "refuse"
              ELSE "reuse"
    ELSE IF row.expired \/ ~usable THEN "refuse" ELSE "rotate"

-----------------------------------------------------------------------------
(* login, refresh, logout *)

\* Mutant: the token is not stored.
LoginNotStored(d) ==
    /\ usable /\ devices[d].held = NoToken /\ issued < MaxToken
    /\ devices' = [devices EXCEPT ![d] = [held |-> issued + 1, missed |-> 0]]
    /\ UNCHANGED <<tokenRows, issued, usable, refreshing, changed, missedTwice>>

\* login, and the SMS code login: a new row, whatever rows there are.
Login(d) ==
    /\ usable /\ devices[d].held = NoToken /\ issued < MaxToken
    /\ issued' = issued + 1
    /\ devices' = [devices EXCEPT ![d] = [held |-> issued + 1, missed |-> 0]]
    /\ UNCHANGED <<tokenRows, usable, refreshing, changed, missedTwice>>

RefreshBegin(d, r) ==
    /\ devices[d].held # NoToken /\ ~Waiting(d)
    /\ refreshing[r] = NoRefresh
    /\ refreshing' = [refreshing EXCEPT ![r] =
          [branch |-> Branch(devices[d].held), raw |-> devices[d].held,
           device |-> d, heard |-> TRUE]]
    /\ UNCHANGED <<tokenRows, issued, usable, devices, changed, missedTwice>>

\* The answer reaches the device if it still waits for it.
Hears(r, token) ==
    /\ devices' = IF refreshing[r].heard
                  THEN [devices EXCEPT ![refreshing[r].device] = [held |-> token, missed |-> 0]]
                  ELSE devices
    /\ refreshing' = [refreshing EXCEPT ![r] = NoRefresh]

Served(r, branch) == refreshing[r] # NoRefresh /\ refreshing[r].branch = branch

\* Mutant: the token is linked to its successor and stays valid.
RotateStaysValid(r) ==
    /\ Served(r, "rotate") /\ issued < MaxToken
    /\ issued' = issued + 1
    /\ tokenRows' = [tokenRows EXCEPT ![refreshing[r].raw].rotatedTo = issued + 1]
    /\ Hears(r, issued + 1)
    /\ UNCHANGED <<usable, changed, missedTwice>>

\* The token that was read as live is revoked and linked, whatever has become of it.
Rotate(r) ==
    /\ Served(r, "rotate") /\ issued < MaxToken
    /\ issued' = issued + 1
    /\ tokenRows' = [tokenRows EXCEPT ![refreshing[r].raw] =
          [@ EXCEPT !.revoked = TRUE, !.fresh = TRUE, !.rotatedTo = issued + 1]]
    /\ Hears(r, issued + 1)
    /\ UNCHANGED <<usable, changed, missedTwice>>

\* A parallel refresh: a new pair, and nothing is revoked.
AnswerAgain(r) ==
    /\ Served(r, "grace") /\ issued < MaxToken
    /\ issued' = issued + 1
    /\ Hears(r, issued + 1)
    /\ UNCHANGED <<tokenRows, usable, changed, missedTwice>>

\* A lost answer: the successor that nobody has used is revoked, a new pair issued.
\* The link of the token that was presented is not moved to it.
AnswerInstead(r) ==
    /\ Served(r, "lost") /\ issued < MaxToken
    /\ issued' = issued + 1
    /\ tokenRows' = [tokenRows EXCEPT ![tokenRows[refreshing[r].raw].rotatedTo] =
          [@ EXCEPT !.revoked = TRUE]]
    /\ Hears(r, issued + 1)
    /\ UNCHANGED <<usable, changed, missedTwice>>

\* A token that should not be seen any more: all sessions are ended, 401.
Reuse(r) ==
    /\ Served(r, "reuse")
    /\ tokenRows' = RevokeAll(tokenRows)
    /\ Hears(r, NoToken)
    /\ UNCHANGED <<issued, usable, changed, missedTwice>>

Refuse(r) ==
    /\ Served(r, "refuse")
    /\ Hears(r, NoToken)
    /\ UNCHANGED <<tokenRows, issued, usable, changed, missedTwice>>

\* An exception or the end of the process: rolled back; no 401, so the device stays.
RefreshFails(r) ==
    /\ refreshing[r] # NoRefresh
    /\ refreshing' = [refreshing EXCEPT ![r] = NoRefresh]
    /\ UNCHANGED <<tokenRows, issued, usable, devices, changed, missedTwice>>

\* The time limit of the client, or a lost answer: the session is kept and the
\* refresh tried again, with the token that is held.
GiveUp(d) ==
    /\ devices[d].missed < 2 /\ ~missedTwice /\ (devices[d].missed = 1 => ~changed)
    /\ \E r \in Refreshes :
         /\ refreshing[r] # NoRefresh /\ refreshing[r].heard /\ refreshing[r].device = d
         /\ refreshing' = [refreshing EXCEPT ![r].heard = FALSE]
    /\ devices' = [devices EXCEPT ![d].missed = @ + 1]
    /\ missedTwice' = (missedTwice \/ devices[d].missed = 1)
    /\ UNCHANGED <<tokenRows, issued, usable, changed>>

\* logout: the token that the device holds is revoked, not rotated; an answer that
\* is on its way belongs to a session of the past (TokenStorage.generation).
Logout(d) ==
    LET t == devices[d].held IN
    /\ t # NoToken
    /\ tokenRows' = [tokenRows EXCEPT ![t].revoked = TRUE]
    /\ devices' = [devices EXCEPT ![d] = [held |-> NoToken, missed |-> 0]]
    /\ refreshing' = [r \in Refreshes |->
          IF refreshing[r] # NoRefresh /\ refreshing[r].device = d
          THEN [refreshing[r] EXCEPT !.heard = FALSE] ELSE refreshing[r]]
    /\ UNCHANGED <<issued, usable, changed, missedTwice>>

-----------------------------------------------------------------------------
(* What ends sessions from outside, and time *)

\* Bound: one such change, or one device that misses two answers, in a behaviour.
Undisturbed == ~changed /\ ~missedTwice

\* change_password, and password_reset with a code.
ChangePassword ==
    /\ usable /\ Undisturbed
    /\ tokenRows' = RevokeAll(tokenRows)
    /\ changed' = TRUE
    /\ UNCHANGED <<issued, usable, devices, refreshing, missedTwice>>

\* update_user (is_active) and archive_user.
SetUsable(active) ==
    /\ usable # active /\ (active \/ Undisturbed)
    /\ usable' = active
    /\ changed' = TRUE
    /\ UNCHANGED <<tokenRows, issued, devices, refreshing, missedTwice>>

GraceEnds(t) ==
    /\ tokenRows[t].fresh
    /\ tokenRows' = [tokenRows EXCEPT ![t].fresh = FALSE]
    /\ UNCHANGED <<issued, usable, devices, refreshing, changed, missedTwice>>

\* refresh_token_expire_days have passed; tokens that were issued before have too.
Expire(t) ==
    /\ t \in Known /\ ~tokenRows[t].expired /\ Undisturbed
    /\ tokenRows' = [u \in Tokens |-> IF u <= t THEN [tokenRows[u] EXCEPT !.expired = TRUE]
                                      ELSE tokenRows[u]]
    /\ changed' = TRUE
    /\ UNCHANGED <<issued, usable, devices, refreshing, missedTwice>>

SessionsNext ==
    \/ \E d \in Devices : \/ Login(d) \/ GiveUp(d) \/ Logout(d)
                          \/ \E r \in Refreshes : RefreshBegin(d, r)
    \/ \E r \in Refreshes : \/ Rotate(r) \/ AnswerAgain(r) \/ AnswerInstead(r)
                            \/ Reuse(r) \/ Refuse(r) \/ RefreshFails(r)
    \/ ChangePassword
    \/ \E active \in BOOLEAN : SetUsable(active)
    \/ \E t \in Tokens : GraceEnds(t) \/ Expire(t)

SessionsSpec == SessionsInit /\ [][SessionsNext]_sessionVars

-----------------------------------------------------------------------------
(* What the rotation keeps true *)

\* What a device holds is in the table.
SessionsTypeOK ==
    /\ tokenRows \in [Tokens -> TokenRow]
    /\ issued \in 0..MaxToken /\ usable \in BOOLEAN /\ changed \in BOOLEAN /\ missedTwice \in BOOLEAN
    /\ devices \in [Devices -> Device]
    /\ \A d \in Devices : devices[d].held <= issued
    /\ refreshing \in [Refreshes -> RefreshState]

\* The rotation alone throws nobody out: as long as no password is changed, nobody
\* is deactivated, nothing expires, and no device misses two answers running, the
\* pair that a device holds gets it the next one, whatever refreshes overlap and
\* whichever single answers are lost.
HeldTokenWorks ==
    ~changed /\ ~missedTwice => \A d \in Devices :
        devices[d].held # NoToken => Branch(devices[d].held) \in {"rotate", "grace", "lost"}

\* A rotated token points forward to a row that exists, so that following the links
\* ends, and a successor is never issued before the token that it replaces.
LinksForward ==
    \A t \in Tokens : tokenRows[t].rotatedTo # NoToken =>
        tokenRows[t].revoked /\ tokenRows[t].rotatedTo > t /\ tokenRows[t].rotatedTo \in Known
=============================================================================
