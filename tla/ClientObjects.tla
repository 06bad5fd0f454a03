----------------------------- MODULE ClientObjects -----------------------------
(***************************************************************************)
(* The addresses that order_service remembers for a client                 *)
(* (client_object_service, routers/client_objects): one row per client and *)
(* address, written by the client and, in passing, by every order.         *)
(*                                                                         *)
(* A request looks for the row, counts the client's rows and writes when   *)
(* it commits.  Nothing is locked; (client_id, delivery_address) is unique.*)
(***************************************************************************)
EXTENDS Naturals, FiniteSets

CONSTANTS
    Owners, Addresses, Contacts,
    Cap,           \* _CAP
    ObjectReqs,
    MaxObjectReqs  \* bound: requests that begin

ASSUME ObjectsAssumption == Cap \in Nat /\ MaxObjectReqs \in Nat

NoContact == "nobody"
NoObject  == [state |-> "none"]
Unused    == [kind |-> "unused"]

VARIABLES
    objects,     \* owner, address -> the row
    objectReqs,  \* request -> what it has read and will write
    begunObjs,   \* how many requests have begun
    told,        \* history: owner, address -> the last contact an order gave since the row is there
    racedOwners  \* history: the owners whose rows a request wrote after another had changed them

objectVars == <<objects, objectReqs, begunObjs, told, racedOwners>>

ObjectRow == [contact: Contacts \cup {NoContact}, named: BOOLEAN]

ObjectsInit ==
    /\ objects = [k \in Owners |-> [a \in Addresses |-> NoObject]]
    /\ objectReqs = [q \in ObjectReqs |-> Unused]
    /\ begunObjs = 0 /\ racedOwners = {}
    /\ told = [k \in Owners |-> [a \in Addresses |-> NoContact]]

\* list_objects.
Saved(k) == {a \in Addresses : objects[k][a] # NoObject}

\* Mutant: the limit is not looked at.
RoomAlways(k) == TRUE

\* The count of the client's rows against _CAP.
RoomFor(k) == Cardinality(Saved(k)) < Cap

-----------------------------------------------------------------------------
BeginObject(q, kind, k, a, contact) ==
    /\ objectReqs[q] = Unused /\ begunObjs < MaxObjectReqs
    /\ begunObjs' = begunObjs + 1
    /\ objectReqs' = [objectReqs EXCEPT ![q] =
           [kind |-> kind, owner |-> k, address |-> a, contact |-> contact, seen |-> objects[k]]]
    /\ UNCHANGED <<objects, told, racedOwners>>

\* _upsert_object of an order that is created or edited: a new address needs room, or is not
\* remembered; create_object: or is refused.
RememberBegin(q, k, a, contact) ==
    /\ a \in Saved(k) \/ RoomFor(k)
    /\ BeginObject(q, "order", k, a, contact)

CreateObjectBegin(q, k, a) ==
    /\ a \in Saved(k) \/ RoomFor(k)
    /\ BeginObject(q, "create", k, a, NoContact)

\* Mutant: an order without a contact clears it.
ContactOf(r, row) == r.contact

\* An empty contact does not wipe the one that was saved.
KeptContact(r, row) == IF r.contact # NoContact THEN r.contact ELSE row.contact

NewAddress(r) == r.seen[r.address] = NoObject

\* What the commit leaves: a row that has been inserted meanwhile is left to the order's savepoint,
\* and is read again by create_object; a row that has been deleted meanwhile is not updated.
RowAfter(r, now) ==
    CASE NewAddress(r) /\ now = NoObject ->
            [contact |-> KeptContact(r, [contact |-> NoContact]), named |-> r.kind = "create"]
      [] NewAddress(r) /\ now # NoObject ->
            IF r.kind = "create" THEN [now EXCEPT !.named = TRUE] ELSE now
      [] ~NewAddress(r) /\ now # NoObject ->
            [contact |-> KeptContact(r, now), named |-> now.named \/ r.kind = "create"]
      [] OTHER -> NoObject

CommitObject(q) ==
    LET r == objectReqs[q]
        k == r.owner
        a == r.address IN
    /\ r # Unused
    /\ objects' = [objects EXCEPT ![k][a] = RowAfter(r, @)]
    /\ told' = [told EXCEPT ![k][a] = IF r.contact # NoContact THEN r.contact ELSE @]
    /\ racedOwners' = IF r.seen # objects[k] THEN racedOwners \cup {k} ELSE racedOwners
    /\ objectReqs' = [objectReqs EXCEPT ![q] = Unused]
    /\ UNCHANGED begunObjs

\* The order's transaction is rolled back, and the object with it.
ObjectFails(q) ==
    /\ objectReqs[q] # Unused
    /\ objectReqs' = [objectReqs EXCEPT ![q] = Unused]
    /\ UNCHANGED <<objects, begunObjs, told, racedOwners>>

DeleteObject(k, a) ==
    /\ a \in Saved(k) /\ begunObjs < MaxObjectReqs
    /\ objects' = [objects EXCEPT ![k][a] = NoObject]
    /\ told' = [told EXCEPT ![k][a] = NoContact]
    /\ begunObjs' = begunObjs + 1
    /\ UNCHANGED <<objectReqs, racedOwners>>

ObjectsNext ==
    \/ \E q \in ObjectReqs, k \in Owners, a \in Addresses :
            \/ CreateObjectBegin(q, k, a)
            \/ \E contact \in Contacts \cup {NoContact} : RememberBegin(q, k, a, contact)
    \/ \E q \in ObjectReqs : CommitObject(q) \/ ObjectFails(q)
    \/ \E k \in Owners, a \in Addresses : DeleteObject(k, a)

ObjectsSpec == ObjectsInit /\ [][ObjectsNext]_objectVars

-----------------------------------------------------------------------------
\* The rows keep the shape of models/client_object.py.
ObjectsTypeOK ==
    /\ objects \in [Owners -> [Addresses -> ObjectRow \cup {NoObject}]]
    /\ begunObjs \in 0..MaxObjectReqs /\ racedOwners \subseteq Owners

\* create_object, remember_from_order: a client has at most _CAP addresses, unless a request wrote
\* after another had changed what it counted.
CapHolds == \A k \in Owners \ racedOwners : Cardinality(Saved(k)) <= Cap

\* remember_from_order: who receives at an address is the contact of the last order that named one,
\* whatever orders without a contact and edits of the directory came after it.
ContactKept == \A k \in Owners \ racedOwners : \A a \in Saved(k) : objects[k][a].contact = told[k][a]
=============================================================================
