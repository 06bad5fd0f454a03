------------------------------- MODULE AccessTokens -------------------------------
(***************************************************************************)
(* The access tokens of one user and the mark in Redis that revokes them   *)
(* (security, token_revocation, dependencies).                             *)
(*                                                                         *)
(* A token carries the second it was issued in and lives as long as the    *)
(* role's lifetime.  revoke_user_tokens writes the second of the           *)
(* revocation, with a time to live of its own; a token issued in an        *)
(* earlier second is refused.  auth_service also looks at the user's row;  *)
(* the other services trust the token.  The mark is written before the     *)
(* transaction that deactivates the user commits.                          *)
(***************************************************************************)
EXTENDS Integers, FiniteSets

CONSTANTS
    Lifetime,   \* role -> seconds: staff_access_token_expire_minutes, access_token_expire_minutes
    MaxSecond   \* bound: the clock

Roles == DOMAIN Lifetime

ASSUME AccessAssumption ==
    /\ MaxSecond \in Nat /\ Roles # {} /\ IsFiniteSet(Roles)
    /\ \A role \in Roles : Lifetime[role] \in Nat \ {0}

NoMark == [at |-> -1, ends |-> -1]

VARIABLES
    second,    \* the clock, in whole seconds
    role,      \* the user's role
    enabled,   \* is_active, as committed
    disabling, \* a deactivation has marked and not yet committed
    mark,      \* revoked_after:{user}
    tokens,    \* access tokens that were issued
    refused    \* history: the tokens that a revocation has cut off

accessVars == <<second, role, enabled, disabling, mark, tokens, refused>>

AccessInit ==
    /\ second = 0 /\ role = (CHOOSE r \in Roles : TRUE) /\ enabled = TRUE /\ disabling = FALSE
    /\ mark = NoMark /\ tokens = {} /\ refused = {}

\* decode_access_token: the expiry.
Decodes(t) == second < t.iat + Lifetime[t.role]

\* is_token_revoked: by whole seconds, and only while the mark is there.
IsTokenRevoked(t) == mark # NoMark /\ second < mark.ends /\ t.iat < mark.at

\* get_current_user of auth_service.
AcceptedByAuth(t) == Decodes(t) /\ ~IsTokenRevoked(t) /\ enabled

\* get_current_user of the services that know no users.
AcceptedElsewhere(t) == Decodes(t) /\ ~IsTokenRevoked(t)

\* Mutant: the mark lives as long as a token of the shortest life.
MarkLifeShort == CHOOSE n \in {Lifetime[r] : r \in Roles} : \A r \in Roles : n <= Lifetime[r]

\* The longest life of a token; the minute that is added is less than a second here.
MarkLife == CHOOSE n \in {Lifetime[r] : r \in Roles} : \A r \in Roles : n >= Lifetime[r]

-----------------------------------------------------------------------------
\* create_access_token, by a login or a refresh of a user whose row is enabled.
IssueAccess ==
    /\ enabled
    /\ tokens' = tokens \cup {[iat |-> second, role |-> role]}
    /\ UNCHANGED <<second, role, enabled, disabling, mark, refused>>

\* revoke_user_tokens; a mark that is not written, for Redis is away, is logged only.
Revoked(m) ==
    /\ mark' = m
    /\ refused' = refused \cup {t \in tokens : m # mark /\ t.iat < m.at}

NewMark == [at |-> second, ends |-> second + MarkLife]

\* logout, logout_all, change_password, a change of the role.
RevokeTokens(newRole) ==
    /\ enabled
    /\ \E m \in {mark, NewMark} : Revoked(m)
    /\ role' = newRole
    /\ UNCHANGED <<second, enabled, disabling, tokens>>

\* update_user (is_active) and archive_user: the mark, and then the commit.
DisableMark ==
    /\ enabled /\ ~disabling
    /\ \E m \in {mark, NewMark} : Revoked(m)
    /\ disabling' = TRUE
    /\ UNCHANGED <<second, role, enabled, tokens>>

DisableCommit ==
    /\ disabling
    /\ disabling' = FALSE /\ enabled' = FALSE
    /\ UNCHANGED <<second, role, mark, tokens, refused>>

Enable ==
    /\ ~enabled
    /\ enabled' = TRUE
    /\ UNCHANGED <<second, role, disabling, mark, tokens, refused>>

SecondPasses ==
    /\ second < MaxSecond
    /\ second' = second + 1
    /\ UNCHANGED <<role, enabled, disabling, mark, tokens, refused>>

AccessNext ==
    \/ IssueAccess \/ DisableMark \/ DisableCommit \/ Enable \/ SecondPasses
    \/ \E newRole \in Roles : RevokeTokens(newRole)

AccessSpec == AccessInit /\ [][AccessNext]_accessVars

-----------------------------------------------------------------------------
\* A token that a revocation has cut off is accepted by nobody ever after: the mark
\* outlives every token that it stands for, of whatever role it was issued.
CutOffStaysCutOff == \A t \in refused : ~AcceptedByAuth(t) /\ ~AcceptedElsewhere(t)
=============================================================================
