-------------------------------- MODULE Devices --------------------------------
(* The phones notification_service pushes to: one row of device_tokens for each token, owned by
   who registered it last. A phone registers its token when its user signs in and whenever the
   application starts, and removes it when he signs out; a push reads the tokens of its user
   and deletes the dead ones when it has been to all of them. *)
EXTENDS Integers, FiniteSets

CONSTANTS
    Phones,          \* devices, each with one token
    PhoneUsers,      \* people
    MaxPhones,       \* the devices a person may have (10 in the code)
    MaxPhoneSteps,   \* bound: applications that start and pushes that are sent
    NoOwner          \* no row, no request, nobody signed in

ASSUME DeviceAssumption ==
    /\ MaxPhones \in Nat \ {0} /\ MaxPhoneSteps \in Nat
    /\ NoOwner \notin PhoneUsers /\ IsFiniteSet(Phones)

VARIABLES
    signedIn,    \* who uses each phone
    tokens,      \* the table device_tokens: owner and updated_at for each token
    register,    \* the request of each phone to register its token
    pushing,     \* pushes under way: their user, and the phones whose tokens they have read
    unsettled,   \* ghost: phones with a lost or overtaken request
    together,    \* ghost: people of whom two registrations overlapped
    phoneSteps   \* steps so far

deviceVars == <<signedIn, tokens, register, pushing, unsettled, together, phoneSteps>>

NoRow == [user |-> NoOwner, at |-> 0]
NoRequest == [user |-> NoOwner, stage |-> "none", at |-> 0, how |-> "leave", stale |-> {}]

DevicesInit ==
    /\ signedIn = [d \in Phones |-> NoOwner]
    /\ tokens = [d \in Phones |-> NoRow]
    /\ register = [d \in Phones |-> NoRequest]
    /\ pushing = {} /\ unsettled = {} /\ together = {}
    /\ phoneSteps = 0

PhoneStep == phoneSteps < MaxPhoneSteps /\ phoneSteps' = phoneSteps + 1

--------------------------------------------------------------------------------
\* One request of a phone to register its token is under way at a time.

Ask(d, u) == register' = [register EXCEPT ![d] = [NoRequest EXCEPT !.user = u, !.stage = "sent"]]

SignIn(d, u) ==
    /\ signedIn[d] = NoOwner /\ register[d] = NoRequest
    /\ PhoneStep
    /\ signedIn' = [signedIn EXCEPT ![d] = u]
    /\ Ask(d, u)
    /\ UNCHANGED <<pushing, tokens, unsettled, together>>

\* The application starts again.
Restart(d) ==
    /\ signedIn[d] # NoOwner /\ register[d] = NoRequest
    /\ PhoneStep
    /\ Ask(d, signedIn[d])
    /\ UNCHANGED <<pushing, signedIn, tokens, unsettled, together>>

\* A row that is written with what it holds is not written at all: updated_at stays.
HowTo(d) == CASE tokens[d] = NoRow -> "insert"
              [] tokens[d].user = register[d].user -> "leave"
              [] OTHER -> "update"
Stamps == {tokens[e].at : e \in Phones} \cup {register[e].at : e \in Phones}
Stamp(d) == IF HowTo(d) = "leave" THEN tokens[d].at ELSE 1 + CHOOSE t \in Stamps : \A o \in Stamps : o <= t

\* The rows beyond the limit are kept as well (a mutant of Beyond).
BeyondPlusOne(rows, at) == {e \in rows : Cardinality({f \in rows : at[f] > at[e]}) > MaxPhones}
\* The rows that have as many newer ones as a person may have.
Beyond(rows, at) == {e \in rows : Cardinality({f \in rows : at[f] > at[e]}) >= MaxPhones}

RegisterRead(d) ==
    LET u == register[d].user
        rows == {e \in Phones : tokens[e].user = u} \cup {d}
        at == [e \in Phones |-> IF e = d THEN Stamp(d) ELSE tokens[e].at] IN
    /\ register[d].stage = "sent"
    /\ register' = [register EXCEPT ![d] =
                      [@ EXCEPT !.stage = "read", !.at = Stamp(d), !.how = HowTo(d), !.stale = Beyond(rows, at)]]
    /\ together' = IF \E e \in Phones \ {d} : register[e].stage = "read" /\ register[e].user = u
                   THEN together \cup {u} ELSE together
    /\ UNCHANGED <<pushing, signedIn, tokens, unsettled, phoneSteps>>

\* The row of a phone keeps its owner (a mutant of Registered).
RegisteredBefore(d) ==
    [e \in Phones |-> IF e \in register[d].stale THEN NoRow
                      ELSE IF e = d /\ register[d].how = "insert"
                           THEN [user |-> register[d].user, at |-> register[d].at]
                      ELSE tokens[e]]
\* The row of the phone goes to who asks; the rows found too old go, whoever has them now. A row
\* to be updated that is no longer there fails the request.
Registered(d) ==
    IF register[d].how = "update" /\ tokens[d] = NoRow THEN tokens
    ELSE [e \in Phones |-> IF e \in register[d].stale THEN NoRow
                           ELSE IF e = d /\ register[d].how # "leave"
                                THEN [user |-> register[d].user, at |-> register[d].at]
                           ELSE tokens[e]]

RegisterCommit(d) ==
    /\ register[d].stage = "read"
    /\ tokens' = Registered(d)
    /\ register' = [register EXCEPT ![d] = NoRequest]
    /\ unsettled' = IF signedIn[d] = register[d].user THEN unsettled \ {d} ELSE unsettled
    /\ UNCHANGED <<pushing, signedIn, together, phoneSteps>>

RegisterLost(d) ==
    /\ register[d].stage = "sent"
    /\ register' = [register EXCEPT ![d] = NoRequest]
    /\ UNCHANGED <<pushing, signedIn, tokens, unsettled, together, phoneSteps>>

\* The token is removed if it is the user's own; the request may be lost, or pass another.
SignOut(d) ==
    /\ signedIn[d] # NoOwner
    /\ signedIn' = [signedIn EXCEPT ![d] = NoOwner]
    /\ \/ /\ tokens' = IF tokens[d].user = signedIn[d] THEN [tokens EXCEPT ![d] = NoRow] ELSE tokens
          /\ unsettled' = IF register[d] # NoRequest THEN unsettled \cup {d} ELSE unsettled
       \/ unsettled' = unsettled \cup {d} /\ UNCHANGED tokens
    /\ UNCHANGED <<pushing, register, together, phoneSteps>>

\* A push reads the tokens of its user, goes to each, and deletes those that are dead.
PushBegin(u) ==
    /\ PhoneStep
    /\ pushing' = pushing \cup {[user |-> u, left |-> {d \in Phones : tokens[d].user = u}]}
    /\ UNCHANGED <<signedIn, tokens, register, unsettled, together>>

\* FCM says of any of the tokens that it is not registered.
Verdicts(p) == SUBSET p.left

PushEnd(p) ==
    /\ p \in pushing
    /\ pushing' = pushing \ {p}
    /\ \E dead \in Verdicts(p) : tokens' = [d \in Phones |-> IF d \in dead THEN NoRow ELSE tokens[d]]
    /\ UNCHANGED <<signedIn, register, unsettled, together, phoneSteps>>

DevicesNext ==
    \/ \E d \in Phones : \/ Restart(d) \/ RegisterRead(d) \/ RegisterCommit(d) \/ RegisterLost(d) \/ SignOut(d)
                         \/ \E u \in PhoneUsers : SignIn(d, u)
    \/ \E u \in PhoneUsers : PushBegin(u)
    \/ \E p \in pushing : PushEnd(p)

DevicesSpec == DevicesInit /\ [][DevicesNext]_deviceVars

--------------------------------------------------------------------------------
DevicesTypeOK ==
    /\ \A d \in Phones : /\ tokens[d].user \in PhoneUsers \cup {NoOwner}
                         /\ register[d].stale \subseteq Phones
    /\ \A p \in pushing : p.left \subseteq Phones
    /\ phoneSteps \in 0..MaxPhoneSteps

\* A token belongs to who uses the phone, unless a request of the phone was lost or passed by
\* another; and nobody has more phones than allowed, unless two registrations overlapped.
PhonesOK ==
    /\ \A d \in Phones : register[d] = NoRequest /\ d \notin unsettled
                         => tokens[d].user \in {signedIn[d], NoOwner}
    /\ \A u \in PhoneUsers \ together : Cardinality({d \in Phones : tokens[d].user = u}) <= MaxPhones
=============================================================================
