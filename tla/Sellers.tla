-------------------------------- MODULE Sellers --------------------------------
(***************************************************************************)
(* The versions of the seller's requisites (legal_entity_service,          *)
(* routers/legal_entity): the open version is the one that the documents   *)
(* take.  A change closes it and opens the next in one transaction; the    *)
(* time is taken before the open version is read, and nothing is locked.   *)
(***************************************************************************)
EXTENDS Naturals, FiniteSets

CONSTANTS
    Requisites,   \* what a version may say
    SellerReqs,
    MaxVersion    \* bound: changes that begin

ASSUME SellersAssumption == MaxVersion \in Nat

Times     == 1..MaxVersion
StillOpen == 0
NoVersion == [state |-> "none"]
NoChange  == [step |-> "idle"]

VARIABLES
    versions,    \* effective_from -> the version that begins then
    sellerReqs,  \* request -> what it works on
    sellerClock, \* the last time that was taken
    raced        \* history: two changes at a time

sellerVars == <<versions, sellerReqs, sellerClock, raced>>

Version == [says: Requisites, to: Times \cup {StillOpen}]

SellersInit ==
    /\ versions = [t \in Times |-> NoVersion]
    /\ sellerReqs = [q \in SellerReqs |-> NoChange]
    /\ sellerClock = 0 /\ raced = FALSE

\* get_history.
Recorded == {t \in Times : versions[t] # NoVersion}
OpenVersions == {t \in Recorded : versions[t].to = StillOpen}

\* get_active: the newest open version, if there is one; get_seller_snapshot, get_seller_vat_rate.
Active == {t \in OpenVersions : \A u \in OpenVersions : u <= t}

InFlight == {q \in SellerReqs : sellerReqs[q] # NoChange}

-----------------------------------------------------------------------------
\* create_version: the time, ...
ChangeBegin(q, says) ==
    /\ sellerReqs[q] = NoChange /\ sellerClock < MaxVersion
    /\ sellerClock' = sellerClock + 1
    /\ sellerReqs' = [sellerReqs EXCEPT ![q] = [step |-> "read", now |-> sellerClock + 1, says |-> says, current |-> {}]]
    /\ raced' = (raced \/ InFlight # {})
    /\ UNCHANGED versions

\* ... the open version, which is the answer if it says the same, ...
ChangeRead(q) ==
    LET r == sellerReqs[q] IN
    /\ r # NoChange /\ r.step = "read"
    /\ sellerReqs' = [sellerReqs EXCEPT ![q] =
           IF \E t \in Active : versions[t].says = r.says THEN NoChange
           ELSE [r EXCEPT !.step = "write", !.current = Active]]
    /\ UNCHANGED <<versions, sellerClock, raced>>

\* Mutant: the open version is not closed.
OpenedOnly(r) == [versions EXCEPT ![r.now] = [says |-> r.says, to |-> StillOpen]]

\* The version that was read ends where the new one begins.
Replaced(r) ==
    [t \in Times |-> IF t = r.now THEN [says |-> r.says, to |-> StillOpen]
                     ELSE IF t \in r.current THEN [versions[t] EXCEPT !.to = r.now] ELSE versions[t]]

\* ... and the two rows, in one commit; or it fails.
ChangeCommit(q) ==
    LET r == sellerReqs[q] IN
    /\ r # NoChange /\ r.step = "write"
    /\ versions' = Replaced(r)
    /\ sellerReqs' = [sellerReqs EXCEPT ![q] = NoChange]
    /\ UNCHANGED <<sellerClock, raced>>

ChangeFails(q) ==
    /\ sellerReqs[q] # NoChange
    /\ sellerReqs' = [sellerReqs EXCEPT ![q] = NoChange]
    /\ UNCHANGED <<versions, sellerClock, raced>>

SellersNext ==
    \E q \in SellerReqs :
        \/ \E says \in Requisites : ChangeBegin(q, says)
        \/ ChangeRead(q) \/ ChangeCommit(q) \/ ChangeFails(q)

SellersSpec == SellersInit /\ [][SellersNext]_sellerVars

-----------------------------------------------------------------------------
\* The rows keep the shape of models/legal_entity.py.
SellersTypeOK == versions \in [Times -> Version \cup {NoVersion}] /\ sellerClock \in 0..MaxVersion

\* create_version: once there are requisites the documents have a seller, and the history has no
\* gap: what ended was followed at that moment, whatever changes cross.
HistoryIsWhole ==
    /\ Recorded # {} => OpenVersions # {}
    /\ \A t \in Recorded : versions[t].to # StillOpen => versions[t].to \in Recorded

\* create_version: there is one open version, unless two changes were made at a time.
OneOpenVersion == ~raced => Cardinality(OpenVersions) <= 1
=============================================================================
