------------------------------- MODULE MCIdentity -------------------------------
(* auth_service: the parts of the login, and the people and organizations.  They
   share no row and no key, so a behaviour is about one of them at a time.        *)
EXTENDS Sessions, AccessTokens, Codes, Throttle, Accounts, TLC

VARIABLE identityFocus   \* the part that a behaviour is about

MCThresholds == <<2, 4>>
MCLifetime   == [staff |-> 3, client |-> 1]
MCPhones == {[number |-> "n1", format |-> "+7"], [number |-> "n1", format |-> "8"],
             [number |-> "n2", format |-> "+7"]}

\* The parts never meet, so their values are the same model values in the
\* configuration: Devices and UserIds, Refreshes, CodeRequests and AccountReqs.
\* One group of permutations then serves all of them.
IdentitySymmetry == Permutations(UserIds) \cup Permutations(Refreshes)

IdentityInit ==
    /\ identityFocus \in {"sessions", "access", "codes", "throttle", "accounts"}
    /\ SessionsInit /\ AccessInit /\ CodesInit /\ ThrottleInit /\ AccountsInit

IdentityNext ==
    /\ UNCHANGED identityFocus
    /\ \/ /\ identityFocus = "sessions" /\ SessionsNext
          /\ UNCHANGED <<accessVars, codeVars, throttleVars, accountVars>>
       \/ /\ identityFocus = "access"   /\ AccessNext
          /\ UNCHANGED <<sessionVars, codeVars, throttleVars, accountVars>>
       \/ /\ identityFocus = "codes"    /\ CodesNext
          /\ UNCHANGED <<sessionVars, accessVars, throttleVars, accountVars>>
       \/ /\ identityFocus = "throttle" /\ ThrottleNext
          /\ UNCHANGED <<sessionVars, accessVars, codeVars, accountVars>>
       \/ /\ identityFocus = "accounts" /\ AccountsNext
          /\ UNCHANGED <<sessionVars, accessVars, codeVars, throttleVars>>

IdentitySpec ==
    IdentityInit /\ [][IdentityNext]_<<identityFocus, sessionVars, accessVars, codeVars,
                                       throttleVars, accountVars>>

(* Every row and every ghost of the sessions and of the accounts is of its type. *)
IdentityTypeOK == SessionsTypeOK /\ AccountsTypeOK

(* auth_service.refresh, logout, token_revocation: a device that keeps what it
   last received can go on, rotation links are never turned back, and a token
   that was cut off stays so for as long as it could be used.                     *)
RotationSafe == HeldTokenWorks /\ LinksForward /\ CutOffStaysCutOff

(* otp_service, login_throttle: whatever the interleaving of the commands of
   Redis, messages, guesses and passwords keep to their limits, a code works once,
   and every counter ends some time.                                              *)
LimitsHold == HourCapHolds /\ GuessesBounded /\ UsedCodeIsGone /\ AttemptsBounded /\ CounterEnds

(* user_service, organization_service: a number in any format leads to one user,
   an organization has its one owner and nobody twice, and an archived user is
   out of everything.                                                             *)
PeopleOK == NumberOnce /\ OneOwner /\ OneMembership /\ ArchivedIsGone
=============================================================================
