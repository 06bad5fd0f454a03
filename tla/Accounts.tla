--------------------------------- MODULE Accounts ---------------------------------
(***************************************************************************)
(* Users, an organization and its members (user_service,                   *)
(* organization_service, and what routers/internal answers from them).     *)
(*                                                                         *)
(* A request reads and checks, and writes at its commit; nothing is locked *)
(* in between, and the only unique index that matters here is that of the  *)
(* phone as it was typed.  A request that writes is therefore a Begin and  *)
(* a Commit.  One organization stands for all: no query relates two.       *)
(***************************************************************************)
EXTENDS Integers, FiniteSets

CONSTANTS
    UserIds,      \* ids of the users that are clients
    Phones,       \* phones as they are typed: [number, format]
    AccountReqs,  \* requests that may be in progress at once
    MaxMember     \* bound: rows of organization_members that are inserted

Numbers == {p.number : p \in Phones}      \* normalize_phone: the last ten digits
NoPhone == [number |-> "none", format |-> "none"]
NoUser  == "no user"
Staff   == "staff"                         \* an admin, for whom no rule below makes a difference
MemberIds == 1..MaxMember

\* A user's id is none of the two marks, and a phone that was typed has its digits.
ASSUME AccountsAssumption ==
    /\ MaxMember \in Nat
    /\ NoUser \notin UserIds /\ Staff \notin UserIds
    /\ \A p \in Phones : p.number # NoPhone.number

VARIABLES
    users,      \* the users table, with the profile's is_one_off and inn
    orgState,   \* "none", "open" or "archived"
    members,    \* the organization_members table
    inserted,   \* rows that were ever inserted in it
    accReqs,    \* what each request has read and decided
    racedUsers, \* history: a request wrote users while another was deciding
    racedOrg,   \* history: likewise for the organization
    owned       \* history: the organization has had an owner

accountVars == <<users, orgState, members, inserted, accReqs, racedUsers, racedOrg, owned>>

User   == [exists: BOOLEAN, phone: Phones \cup {NoPhone}, oneOff: BOOLEAN, inn: BOOLEAN,
           active: BOOLEAN, archived: BOOLEAN]
Member == [user: UserIds \cup {NoUser}, invite: Numbers \cup {"none"}, role: {"owner", "member"},
           status: {"active", "pending"}]
NoMember == [user |-> NoUser, invite |-> "none", role |-> "none", status |-> "none"]
NoUserRow == [exists |-> FALSE, phone |-> NoPhone, oneOff |-> FALSE,
              inn |-> FALSE, active |-> FALSE, archived |-> FALSE]
NoReq    == [kind |-> "none"]

AccountsInit ==
    /\ users = [u \in UserIds |-> NoUserRow]
    /\ orgState = "none" /\ members = [m \in MemberIds |-> NoMember] /\ inserted = 0
    /\ accReqs = [r \in AccountReqs |-> NoReq]
    /\ racedUsers = FALSE /\ racedOrg = FALSE /\ owned = FALSE

-----------------------------------------------------------------------------
(* Queries *)

Existing == {u \in UserIds : users[u].exists}
Present  == {u \in Existing : ~users[u].archived}      \* get_user_by_id finds it
Usable   == {u \in Present : users[u].active}

WithNumber(n) == {u \in Existing : users[u].phone.number = n}

MemberRows   == {m \in MemberIds : members[m] # NoMember}
Active(m)  == members[m].status = "active"
RowsOf(u)  == {m \in MemberRows : members[m].user = u /\ Active(m)}
Owners     == {m \in MemberRows : members[m].role = "owner" /\ Active(m)}
InvitesOf(n) == {m \in MemberRows : members[m].invite = n /\ ~Active(m)}

\* get_membership: scalar_one_or_none, an error when there are two rows.
IsMember(u) == Cardinality(RowsOf(u)) = 1
RowOf(u)    == CHOOSE m \in RowsOf(u) : TRUE

\* _require_org_admin, behind the check that the user may still log in.
MayAdmin(actor) ==
    /\ orgState # "none"
    /\ \/ actor = Staff
       \/ actor \in Usable /\ IsMember(actor) /\ members[RowOf(actor)].role = "owner"

\* _load_member_org: a member, or someone who needs no membership, of whom an
\* archived organization is kept.
ContextGiven(u) ==
    /\ orgState # "none" /\ u \in Existing
    /\ \/ IsMember(u)
       \/ RowsOf(u) = {} /\ users[u].oneOff /\ orgState = "open"

\* Mutant: invitations are counted as memberships.
SeesOrdersAll(u) == orgState = "open" /\ \E m \in MemberRows : members[m].user = u \/
    (u \in Existing /\ members[m].invite = users[u].phone.number)

\* get_user_organization_ids: whose orders the user sees.
SeesOrders(u) == orgState = "open" /\ RowsOf(u) # {}

\* get_contract_target: the owner, or else any active member.
ContractOwners ==
    LET owners == {members[m].user : m \in Owners} IN
    IF owners # {} THEN owners ELSE {members[m].user : m \in {n \in MemberRows : Active(n)}}

-----------------------------------------------------------------------------
(* Requests *)

\* Bound: when two requests have decided at once, none begins any more.
Idle(r) == accReqs[r] = NoReq /\ ~racedUsers /\ ~racedOrg
Begin(r, req) == accReqs' = [accReqs EXCEPT ![r] = req]
Finish(r) == accReqs' = [accReqs EXCEPT ![r] = NoReq]

UserKinds == {"register", "one_off", "created", "phone", "active", "archive"}
Others(r, kinds) == \E s \in AccountReqs \ {r} : accReqs[s].kind \in kinds

\* A request writes while others of its kind are still deciding.
MarkUsers(r) == racedUsers' = (racedUsers \/ Others(r, UserKinds))
MarkOrg(r)   == racedOrg' = (racedOrg \/ Others(r, {"add", "remove", "set_owner", "register"}))

NothingWritten == UNCHANGED <<users, orgState, members, inserted, racedUsers, racedOrg, owned>>

\* The unique index of users.phone.
IndexAllows(u, phone) == \A v \in Existing \ {u} : phone # NoPhone => users[v].phone # phone

\* Mutant: the phone is compared as it was typed.
PhoneFreeRaw(phone, u) == \A v \in Existing \ {u} : users[v].phone # phone

\* _check_phone_unique: by number, and of archived users too (they have none).
PhoneFree(phone, u) == WithNumber(phone.number) \subseteq {u}

\* _check_inn_unique: of users who are not archived.
InnFree(u) == \A v \in Present \ {u} : ~users[v].inn

-----------------------------------------------------------------------------
(* Users *)

NewUser(phone, oneOff, inn) ==
    [exists |-> TRUE, phone |-> phone, oneOff |-> oneOff, inn |-> inn,
     active |-> TRUE, archived |-> FALSE]

\* register_individual and register_company (inn).
RegisterBegin(r, u, phone, inn) ==
    /\ Idle(r) /\ ~users[u].exists
    /\ PhoneFree(phone, u) /\ (inn => InnFree(u))
    /\ Begin(r, [kind |-> "register", user |-> u, row |-> NewUser(phone, FALSE, inn)])
    /\ NothingWritten

\* get_or_create_one_off_client: a client with that number is used again.
OneOffBegin(r, u, phone) ==
    /\ Idle(r) /\ ~users[u].exists
    /\ WithNumber(phone.number) \cap Present = {}
    /\ Begin(r, [kind |-> "one_off", user |-> u, row |-> NewUser(phone, TRUE, FALSE)])
    /\ NothingWritten

\* create_user_by_admin: the number alone is looked at, and no invitation is linked.
CreateByAdminBegin(r, u, phone) ==
    /\ Idle(r) /\ ~users[u].exists
    /\ PhoneFree(phone, u)
    /\ Begin(r, [kind |-> "created", user |-> u, row |-> NewUser(phone, FALSE, FALSE)])
    /\ NothingWritten

\* Mutant: the number is left in the row.
LinkedStillInvited(u, phone) ==
    [m \in MemberIds |-> IF m \in InvitesOf(phone.number)
        THEN [members[m] EXCEPT !.user = u, !.status = "active"]
        ELSE members[m]]

\* link_pending_invites: in the transaction of a registration only.
Linked(u, phone) ==
    [m \in MemberIds |-> IF m \in InvitesOf(phone.number)
        THEN [members[m] EXCEPT !.user = u, !.status = "active", !.invite = "none"]
        ELSE members[m]]

InsertUser(r) ==
    LET req == accReqs[r] IN
    /\ req.kind \in {"register", "one_off", "created"}
    /\ ~users[req.user].exists
    /\ IndexAllows(req.user, req.row.phone)
    /\ users' = [users EXCEPT ![req.user] = req.row]
    /\ members' = IF req.kind = "register" THEN Linked(req.user, req.row.phone) ELSE members
    /\ MarkUsers(r) /\ racedOrg' = (racedOrg \/ Others(r, {"add"}))
    /\ Finish(r)
    /\ UNCHANGED <<orgState, inserted, owned>>

\* update_user: the phone, or is_active.
UpdatePhoneBegin(r, u, phone) ==
    /\ Idle(r) /\ u \in Present /\ users[u].phone # phone
    /\ PhoneFree(phone, u)
    /\ Begin(r, [kind |-> "phone", user |-> u, phone |-> phone])
    /\ NothingWritten

UpdateActiveBegin(r, u, active) ==
    /\ Idle(r) /\ u \in Present /\ users[u].active # active
    /\ Begin(r, [kind |-> "active", user |-> u, active |-> active])
    /\ NothingWritten

UpdateUserCommit(r) ==
    LET req == accReqs[r] IN
    /\ \/ /\ req.kind = "phone" /\ IndexAllows(req.user, req.phone)
          /\ users' = [users EXCEPT ![req.user].phone = req.phone]
       \/ /\ req.kind = "active"
          /\ users' = [users EXCEPT ![req.user].active = req.active]
    /\ MarkUsers(r)
    /\ Finish(r)
    /\ UNCHANGED <<orgState, members, inserted, racedOrg, owned>>

\* archive_user: only after a deactivation.
ArchiveBegin(r, u) ==
    /\ Idle(r) /\ u \in Present /\ ~users[u].active
    /\ Begin(r, [kind |-> "archive", user |-> u])
    /\ NothingWritten

\* Mutant: the phone is kept with the archived user.
ArchiveCommitKeeps(r) ==
    LET req == accReqs[r] IN
    /\ req.kind = "archive"
    /\ users' = [users EXCEPT ![req.user] = [@ EXCEPT !.archived = TRUE]]
    /\ MarkUsers(r)
    /\ Finish(r)
    /\ UNCHANGED <<orgState, members, inserted, racedOrg, owned>>

\* The phone is given free.  is_active was read as false, so it is not written.
ArchiveCommit(r) ==
    LET req == accReqs[r] IN
    /\ req.kind = "archive"
    /\ users' = [users EXCEPT ![req.user] = [@ EXCEPT !.archived = TRUE, !.phone = NoPhone]]
    /\ MarkUsers(r)
    /\ Finish(r)
    /\ UNCHANGED <<orgState, members, inserted, racedOrg, owned>>

-----------------------------------------------------------------------------
(* The organization *)

NewMember(user, invite, role, status) ==
    [user |-> user, invite |-> invite, role |-> role, status |-> status]

Insert(row) ==
    /\ inserted < MaxMember
    /\ inserted' = inserted + 1
    /\ members' = [members EXCEPT ![inserted + 1] = row]

\* create_organization: by a client for itself, by staff for a client or for nobody.
CreateOrganization(actor, owner) ==
    /\ orgState = "none"
    /\ actor = Staff \/ (actor \in Usable /\ owner = actor)
    /\ orgState' = "open"
    /\ IF owner = NoUser THEN UNCHANGED <<members, inserted>>
       ELSE owner \in Existing /\ Insert(NewMember(owner, "none", "owner", "active"))
    /\ owned' = (owner # NoUser)
    /\ UNCHANGED <<users, accReqs, racedUsers, racedOrg>>

ArchiveOrganization(actor) ==
    /\ MayAdmin(actor) /\ orgState = "open"
    /\ orgState' = "archived"
    /\ UNCHANGED <<users, members, inserted, accReqs, racedUsers, racedOrg, owned>>

\* Mutant: a member is added again.
MayJoinAgain(u) == TRUE

MayJoin(u) == RowsOf(u) = {}

\* add_member: a usable user becomes a member, any other number an invitation.
AddMemberBegin(r, actor, number) ==
    LET found == WithNumber(number) \cap Usable IN
    /\ Idle(r) /\ MayAdmin(actor)
    /\ \/ \E u \in found :
            /\ MayJoin(u)
            /\ Begin(r, [kind |-> "add", row |-> NewMember(u, "none", "member", "active")])
       \/ /\ found = {} /\ InvitesOf(number) = {}
          /\ Begin(r, [kind |-> "add", row |-> NewMember(NoUser, number, "member", "pending")])
    /\ NothingWritten

AddMemberCommit(r) ==
    /\ accReqs[r].kind = "add"
    /\ Insert(accReqs[r].row)
    /\ MarkOrg(r) /\ Finish(r)
    /\ UNCHANGED <<users, orgState, racedUsers, owned>>

\* Mutant: the owners are not counted.
RemovableAny(m) == TRUE

\* The last owner stays.
Removable(m) == members[m].role = "owner" => Cardinality(Owners) > 1

RemoveMemberBegin(r, actor, m) ==
    /\ Idle(r) /\ MayAdmin(actor) /\ m \in MemberRows
    /\ Removable(m)
    /\ Begin(r, [kind |-> "remove", member |-> m])
    /\ NothingWritten

RemoveMemberCommit(r) ==
    LET m == accReqs[r].member IN
    /\ accReqs[r].kind = "remove"
    /\ m \in MemberRows
    /\ members' = [members EXCEPT ![m] = NoMember]
    /\ MarkOrg(r) /\ Finish(r)
    /\ UNCHANGED <<users, orgState, inserted, racedUsers, owned>>

\* set_owner, by staff: the owners that were read, and the member that becomes one.
SetOwnerBegin(r, m) ==
    /\ Idle(r) /\ m \in MemberRows /\ Active(m) /\ members[m].role = "member"
    /\ Begin(r, [kind |-> "set_owner", member |-> m, previous |-> Owners])
    /\ NothingWritten

\* An UPDATE of a row that is gone fails, and with it the request.
SetOwnerCommit(r) ==
    LET req == accReqs[r] IN
    /\ req.kind = "set_owner"
    /\ req.previous \cup {req.member} \subseteq MemberRows
    /\ members' = [m \in MemberIds |->
          IF m = req.member THEN [members[m] EXCEPT !.role = "owner"]
          ELSE IF m \in req.previous THEN [members[m] EXCEPT !.role = "member"]
          ELSE members[m]]
    /\ owned' = TRUE
    /\ MarkOrg(r) /\ Finish(r)
    /\ UNCHANGED <<users, orgState, inserted, racedUsers>>

\* A refusal of the database, an exception, the end of the process.
RequestFails(r) ==
    /\ accReqs[r] # NoReq
    /\ Finish(r)
    /\ NothingWritten

AccountsNext ==
    \/ \E r \in AccountReqs :
         \/ \E u \in UserIds :
              \/ \E phone \in Phones : \/ \E inn \in BOOLEAN : RegisterBegin(r, u, phone, inn)
                                       \/ OneOffBegin(r, u, phone)
                                       \/ CreateByAdminBegin(r, u, phone)
                                       \/ UpdatePhoneBegin(r, u, phone)
              \/ \E active \in BOOLEAN : UpdateActiveBegin(r, u, active)
              \/ ArchiveBegin(r, u)
         \/ InsertUser(r) \/ UpdateUserCommit(r) \/ ArchiveCommit(r)
         \/ \E actor \in UserIds \cup {Staff} :
              \/ \E number \in Numbers : AddMemberBegin(r, actor, number)
              \/ \E m \in MemberIds : RemoveMemberBegin(r, actor, m)
         \/ AddMemberCommit(r) \/ RemoveMemberCommit(r)
         \/ \E m \in MemberIds : SetOwnerBegin(r, m)
         \/ SetOwnerCommit(r) \/ RequestFails(r)
    \/ \E actor \in UserIds \cup {Staff} :
         \/ \E owner \in UserIds \cup {NoUser} : CreateOrganization(actor, owner)
         \/ ArchiveOrganization(actor)

AccountsSpec == AccountsInit /\ [][AccountsNext]_accountVars

-----------------------------------------------------------------------------
(* What the checks keep true as long as requests do not overlap, and what the    *)
(* index keeps true in any case                                                  *)

\* A row of a member is an account or an invitation, never both nor neither, and an
\* invitation owns nothing.
AccountsTypeOK ==
    /\ users \in [UserIds -> User]
    /\ orgState \in {"none", "open", "archived"} /\ inserted \in 0..MaxMember
    /\ members \in [MemberIds -> Member \cup {NoMember}]
    /\ \A m \in MemberRows :
         /\ m <= inserted
         /\ Active(m) <=> members[m].user # NoUser
         /\ Active(m) <=> members[m].invite = "none"
         /\ ~Active(m) => members[m].role = "member"
    /\ racedUsers \in BOOLEAN /\ racedOrg \in BOOLEAN /\ owned \in BOOLEAN

\* A number leads the login to one user: the same phone is never stored twice, and the
\* same number, or INN, in two forms only when two requests decided at once.
NumberOnce ==
    \A u, v \in Existing : u # v =>
        /\ users[u].phone = users[v].phone => users[u].phone = NoPhone
        /\ ~racedUsers /\ users[u].phone.number = users[v].phone.number => users[u].phone = NoPhone
        /\ ~racedUsers => ~(users[u].inn /\ users[v].inn /\ {u, v} \subseteq Present)

\* An organization that has had an owner has one, and one only, whatever is added,
\* removed, handed over, deactivated and archived.
OneOwner == owned /\ ~racedOrg => Cardinality(Owners) = 1

\* A user is not a member twice and a number not invited twice: get_membership and
\* add_member would fail for good.
OneMembership ==
    ~racedOrg => /\ \A u \in UserIds : Cardinality(RowsOf(u)) <= 1
                 /\ \A n \in Numbers : Cardinality(InvitesOf(n)) <= 1

\* An archived user gives its number free and stays as it is.
ArchivedIsGone ==
    ~racedUsers => \A u \in Existing : users[u].archived =>
        users[u].phone = NoPhone /\ ~users[u].active

\* A client that sees the orders of the organization can order for it, and the contract
\* is made with one who can.
ContextAgrees ==
    ~racedOrg =>
        /\ \A u \in UserIds : SeesOrders(u) => ContextGiven(u)
        /\ \A u \in ContractOwners : ContextGiven(u)
=============================================================================
