--------------------------------- MODULE Chats ---------------------------------
(* The conversations of chat_service: who gets one, who may enter it, the groups of the staff,
   and what is left of the chat of an order that was deleted.

   A look-up and the insertion that follows it are two steps. Entering a chat leaves a row in
   conversation_participants, which is a read mark for every kind but the private group,
   where the same row is the membership. No code path archives one of these conversations. *)
EXTENDS Integers, FiniteSets

CONSTANTS
    ConvIds,        \* identities of conversations
    ChatUsers,      \* people
    ChatRole,       \* the role in the token of each of them
    ChatOrders,     \* orders, each with a client and a driver
    ChatRequests,   \* requests that overlap
    Pairs,          \* <<who, whom>> of the personal chats that are started
    Teams,          \* sets of people that a group is made of
    MaxChatCalls,   \* bound: requests in a behaviour
    Nobody          \* an empty column

Roles == {"admin", "manager", "driver", "client"}

ASSUME ChatAssumption ==
    /\ ChatRole \in [ChatUsers -> Roles]
    /\ Pairs \subseteq ChatUsers \X ChatUsers /\ \A p \in Pairs : p[1] # p[2]
    /\ Teams \subseteq SUBSET ChatUsers
    /\ MaxChatCalls \in Nat
    /\ Nobody \notin ChatUsers \cup ChatOrders

VARIABLES
    chats,        \* the table conversations, with the participants of each row
    staffGroups,  \* the preset groups that exist
    chatQueue,    \* requests between their look-up and their write
    chatFiles,    \* conversations with files in their directory of attachments
    goneOrders,   \* orders whose deletion was announced
    sweeping,     \* chats deleted with their order whose directory is still to be removed
    swept,        \* chats whose directory was removed with their order
    screens,      \* <<chat, user>>: the chat is open in the user's application
    expelled,     \* ghost: <<chat, user>> removed from a group and not put back
    lingered,     \* ghost: expelled, but the open application marked the chat as read
    replaced,     \* ghost: <<chat, driver>> whose order was given to another driver
    crossed,      \* ghost: keys that two requests looked up before either had inserted
    lateFiles,    \* ghost: chats with an upload under way when they were deleted
    chatCalls     \* requests so far

chatVars == <<chats, staffGroups, chatQueue, chatFiles, goneOrders, sweeping, swept, screens, expelled,
              lingered, replaced, crossed, lateFiles, chatCalls>>
ghostsOfChats == <<expelled, lingered, replaced, crossed, lateFiles>>

ManagerRoles == {"admin", "manager"}
StaffGroupAccess(role) ==
    IF role \in ManagerRoles THEN {"work", "accounting"} ELSE IF role = "driver" THEN {"work"} ELSE {}
ClientKinds == {"client_manager", "client_accountant"}
Kinds == ClientKinds \cup {"client_driver_order", "direct", "private_group", "staff_group"}

ChatRow == [kind: Kinds \cup {"unused", "gone"}, client: ChatUsers \cup {Nobody},
            driver: ChatUsers \cup {Nobody}, order: ChatOrders \cup {Nobody},
            group: {"work", "accounting", Nobody}, owner: ChatUsers \cup {Nobody},
            members: SUBSET ChatUsers]
BlankChat == [kind |-> "unused", client |-> Nobody, driver |-> Nobody, order |-> Nobody,
              group |-> Nobody, owner |-> Nobody, members |-> {}]

StaffGroup(code) == [BlankChat EXCEPT !.kind = "staff_group", !.group = code]
ClientChat(kind, client) == [BlankChat EXCEPT !.kind = kind, !.client = client]
OrderChat(o, client, driver) ==
    [BlankChat EXCEPT !.kind = "client_driver_order", !.order = o, !.client = client, !.driver = driver]
DirectChat(u, v) == [BlankChat EXCEPT !.kind = "direct", !.client = u, !.driver = v]
Group(u, team) == [BlankChat EXCEPT !.kind = "private_group", !.owner = u, !.members = team \cup {u}]

Idle == [op |-> "none", chat |-> BlankChat, at |-> Nobody]

ChatsInit ==
    /\ chats = [c \in ConvIds |-> BlankChat]
    /\ staffGroups = {"work", "accounting"}
    /\ chatQueue = [q \in ChatRequests |-> Idle]
    /\ chatFiles = {} /\ goneOrders = {} /\ sweeping = {} /\ swept = {} /\ screens = {}
    /\ expelled = {} /\ lingered = {} /\ replaced = {} /\ crossed = {} /\ lateFiles = {}
    /\ chatCalls = 0

Exists(c) == chats[c].kind \in Kinds
Unused == {c \in ConvIds : chats[c].kind = "unused"}
ClientsOnly == {u \in ChatUsers : ChatRole[u] = "client"}
DriversOnly == {u \in ChatUsers : ChatRole[u] = "driver"}

--------------------------------------------------------------------------------
\* Who may enter, and who is shown a chat: the check of every operation on one conversation,
\* and the condition of the queries that list and search them.

CheckAccess(chat, u) ==
    \/ chat.kind = "direct" /\ u \in {chat.client, chat.driver}
    \/ chat.kind = "private_group" /\ (ChatRole[u] = "admin" \/ u \in chat.members)
    \/ chat.kind = "staff_group" /\ chat.group \in StaffGroupAccess(ChatRole[u])
    \/ chat.kind \in ClientKinds \cup {"client_driver_order"} /\ ChatRole[u] \in ManagerRoles
    \/ chat.kind \in ClientKinds /\ u = chat.client
    \/ chat.kind = "client_driver_order" /\ u \in {chat.client, chat.driver}

\* A query that forgets that a private group is for its members (a mutant of Visible).
VisibleToStaff(chat, u) ==
    \/ chat.kind = "private_group" /\ ChatRole[u] \in ManagerRoles
    \/ chat.kind = "staff_group" /\ chat.group \in StaffGroupAccess(ChatRole[u])
    \/ chat.kind \in ClientKinds \cup {"client_driver_order"}
       /\ (ChatRole[u] \in ManagerRoles \/ u \in {chat.client, chat.driver})
    \/ chat.kind = "direct" /\ u \in {chat.client, chat.driver}

VisibleByRole(chat, u) ==
    \/ /\ ChatRole[u] = "client" /\ chat.client = u
       /\ chat.kind \in ClientKinds \cup {"client_driver_order"}
    \/ /\ ChatRole[u] = "driver"
       /\ \/ chat.kind = "staff_group" /\ chat.group = "work"
          \/ chat.kind = "client_driver_order" /\ chat.driver = u
    \/ /\ ChatRole[u] \in ManagerRoles
       /\ \/ chat.kind = "staff_group" /\ chat.group \in StaffGroupAccess(ChatRole[u])
          \/ chat.kind \in ClientKinds \cup {"client_driver_order"}

Visible(chat, u) ==
    \/ VisibleByRole(chat, u)
    \/ chat.kind = "direct" /\ u \in {chat.client, chat.driver}
    \/ chat.kind = "private_group" /\ (ChatRole[u] = "admin" \/ u \in chat.members)

\* The rows a list or a search draws from, the preset groups among them.
Conversations == {chats[c] : c \in {d \in ConvIds : Exists(d)}} \cup {StaffGroup(g) : g \in staffGroups}
ListOf(u) == {chat \in Conversations : Visible(chat, u)}

\* The people a new message in the chat is announced to: who has entered it, and its two sides.
RecipientsOf(c) == (chats[c].members \cup {chats[c].client, chats[c].driver}) \ {Nobody}

--------------------------------------------------------------------------------
\* Create or return.

\* What a look-up compares: the order, or the two people in either order.
KeyOf(chat) == <<chat.kind, chat.order,
                 IF chat.kind = "client_driver_order" THEN {} ELSE {chat.client, chat.driver}>>
FoundFor(chat) == {c \in ConvIds : Exists(c) /\ KeyOf(chats[c]) = KeyOf(chat)}
\* The unique indexes of the table: a client's chat with the managers, the chat of an order.
UniqueKinds == {"client_manager", "client_driver_order"}

ChatCall == chatCalls < MaxChatCalls /\ chatCalls' = chatCalls + 1

\* Nothing is found: the row is to be inserted. Two rows found make the look-up fail.
LookUp(q, chat) ==
    /\ chatQueue[q] = Idle /\ FoundFor(chat) = {}
    /\ ChatCall
    /\ chatQueue' = [chatQueue EXCEPT ![q] = [op |-> "insert", chat |-> chat, at |-> Nobody]]
    /\ crossed' = IF \E r \in ChatRequests : chatQueue[r].op = "insert"
                                             /\ KeyOf(chatQueue[r].chat) = KeyOf(chat)
                  THEN crossed \cup {KeyOf(chat)} ELSE crossed
    /\ UNCHANGED <<chats, staffGroups, chatFiles, goneOrders, sweeping, swept, screens, expelled, lingered,
                   replaced, lateFiles>>

\* A client opens the list of chats, or a manager the chat with a client.
EnsureClientManager(q) == \E u \in ClientsOnly : LookUp(q, ClientChat("client_manager", u))
EnsureClientAccountant(q) == \E u \in ClientsOnly : LookUp(q, ClientChat("client_accountant", u))
EnsureDirect(q) == \E p \in Pairs : LookUp(q, DirectChat(p[1], p[2]))
EnsureClientDriver(q) ==
    \E o \in ChatOrders \ goneOrders, u \in ClientsOnly, d \in DriversOnly : LookUp(q, OrderChat(o, u, d))

\* The order has a chat already, with another driver.
ReplaceDriver ==
    \E o \in ChatOrders \ goneOrders, d \in DriversOnly, c \in ConvIds :
        /\ chats[c].kind = "client_driver_order" /\ chats[c].order = o /\ chats[c].driver # d
        /\ ChatCall
        /\ chats' = [chats EXCEPT ![c].driver = d]
        /\ replaced' = (replaced \cup {<<c, chats[c].driver>>}) \ {<<c, d>>}
        /\ UNCHANGED <<staffGroups, chatQueue, chatFiles, goneOrders, sweeping, swept, screens, expelled,
                       lingered, crossed, lateFiles>>

\* A table without the unique indexes (a mutant of Insert).
InsertAnyway(q) ==
    /\ chatQueue[q].op = "insert"
    /\ \E c \in Unused : chats' = [chats EXCEPT ![c] = chatQueue[q].chat]
    /\ chatQueue' = [chatQueue EXCEPT ![q] = Idle]
    /\ UNCHANGED <<staffGroups, chatFiles, goneOrders, sweeping, swept, screens, ghostsOfChats, chatCalls>>

\* A row with the key of a unique index that is taken is refused.
Insert(q) ==
    /\ chatQueue[q].op = "insert"
    /\ \E c \in Unused :
           chats' = IF chatQueue[q].chat.kind \in UniqueKinds /\ FoundFor(chatQueue[q].chat) # {}
                    THEN chats ELSE [chats EXCEPT ![c] = chatQueue[q].chat]
    /\ chatQueue' = [chatQueue EXCEPT ![q] = Idle]
    /\ UNCHANGED <<staffGroups, chatFiles, goneOrders, sweeping, swept, screens, ghostsOfChats, chatCalls>>

--------------------------------------------------------------------------------
\* The private groups of the staff.

CreateGroup ==
    \E u \in ChatUsers, team \in Teams, c \in Unused :
        /\ ChatRole[u] \in ManagerRoles
        /\ ChatCall
        /\ chats' = [chats EXCEPT ![c] = Group(u, team)]
        /\ UNCHANGED <<staffGroups, chatQueue, chatFiles, goneOrders, sweeping, swept, screens, ghostsOfChats>>

\* The people who left are not deleted (a mutant of Compose).
ComposeKeeps(c, people) ==
    /\ chats' = [chats EXCEPT ![c].members = @ \cup people]
    /\ expelled' = (expelled \ {<<c, u>> : u \in people})
                     \cup {<<c, u>> : u \in chats[c].members \ people}
    /\ lingered' = lingered \ {<<c, u>> : u \in people}
    /\ UNCHANGED <<staffGroups, chatQueue, chatFiles, goneOrders, sweeping, swept, screens, replaced,
                   crossed, lateFiles>>

\* The people of a group are changed: who leaves is expelled, who comes is no longer.
Compose(c, people) ==
    /\ chats' = [chats EXCEPT ![c].members = people]
    /\ expelled' = (expelled \ {<<c, u>> : u \in people})
                     \cup {<<c, u>> : u \in chats[c].members \ people}
    /\ lingered' = lingered \ {<<c, u>> : u \in people}
    /\ UNCHANGED <<staffGroups, chatQueue, chatFiles, goneOrders, sweeping, swept, screens, replaced, crossed,
                   lateFiles>>

\* Any member of the staff who is in the group; the owner and the one who asks remain.
SetMembers ==
    \E u \in ChatUsers, c \in ConvIds, team \in Teams :
        /\ chats[c].kind = "private_group"
        /\ ChatRole[u] \in ManagerRoles /\ u \in chats[c].members
        /\ ChatCall
        /\ Compose(c, team \cup {u, chats[c].owner})

ManagesGroup(u, c) ==
    /\ chats[c].kind = "private_group"
    /\ \/ ChatRole[u] = "admin"
       \/ ChatRole[u] \in ManagerRoles /\ u = chats[c].owner

AddMember ==
    \E u, v \in ChatUsers, c \in ConvIds :
        /\ ManagesGroup(u, c) /\ v \notin chats[c].members
        /\ ChatCall
        /\ Compose(c, chats[c].members \cup {v})

RemoveMember ==
    \E u, v \in ChatUsers, c \in ConvIds :
        /\ ManagesGroup(u, c) /\ v # chats[c].owner /\ v \in chats[c].members
        /\ ChatCall
        /\ Compose(c, chats[c].members \ {v})

--------------------------------------------------------------------------------
\* Entering and reading. The access is checked where the chat is opened, not where it is
\* marked as read: an application that has it open goes on marking it.

Enter(u, c) ==
    /\ CheckAccess(chats[c], u)
    /\ ChatCall
    /\ chats' = [chats EXCEPT ![c].members = @ \cup {u}]
    /\ screens' = screens \cup {<<c, u>>}
    /\ UNCHANGED <<staffGroups, chatQueue, chatFiles, goneOrders, sweeping, swept, ghostsOfChats>>

MarkRead(u, c) ==
    /\ Exists(c) /\ <<c, u>> \in screens /\ u \notin chats[c].members
    /\ ChatCall
    /\ chats' = [chats EXCEPT ![c].members = @ \cup {u}]
    /\ lingered' = IF <<c, u>> \in expelled THEN lingered \cup {<<c, u>>} ELSE lingered
    /\ UNCHANGED <<staffGroups, chatQueue, chatFiles, goneOrders, sweeping, swept, screens, expelled, replaced,
                   crossed, lateFiles>>

\* The application leaves the chat.
Leave(u, c) ==
    /\ <<c, u>> \in screens
    /\ screens' = screens \ {<<c, u>>}
    /\ UNCHANGED <<chats, staffGroups, chatQueue, chatFiles, goneOrders, sweeping, swept, ghostsOfChats, chatCalls>>

\* A message of the staff enrols its sender; the recipients are those of RecipientsOf.
Say(u, c) ==
    /\ CheckAccess(chats[c], u) /\ ChatRole[u] \in ManagerRoles /\ u \notin chats[c].members
    /\ ChatCall
    /\ chats' = [chats EXCEPT ![c].members = @ \cup {u}]
    /\ UNCHANGED <<staffGroups, chatQueue, chatFiles, goneOrders, sweeping, swept, screens, ghostsOfChats>>

--------------------------------------------------------------------------------
\* Attachments, and the end of a chat.

\* The access is checked, then the file is received in pieces and written.
UploadBegin(q, u, c) ==
    /\ chatQueue[q] = Idle /\ CheckAccess(chats[c], u)
    /\ ChatCall
    /\ chatQueue' = [chatQueue EXCEPT ![q] = [op |-> "upload", chat |-> BlankChat, at |-> c]]
    /\ UNCHANGED <<chats, staffGroups, chatFiles, goneOrders, sweeping, swept, screens, ghostsOfChats>>

UploadEnd(q) ==
    /\ chatQueue[q].op = "upload"
    /\ chatFiles' = chatFiles \cup {chatQueue[q].at}
    /\ chatQueue' = [chatQueue EXCEPT ![q] = Idle]
    /\ UNCHANGED <<chats, staffGroups, goneOrders, sweeping, swept, screens, ghostsOfChats, chatCalls>>

\* A manager sets the picture of a chat he may enter.
UploadAvatar(q, u, c) == ChatRole[u] \in ManagerRoles /\ UploadBegin(q, u, c)

\* A message with a file is forwarded: the copy is in the directory of the other chat before
\* anyone asks whether that chat is there.
ForwardFile(u, c, d) ==
    /\ CheckAccess(chats[c], u) /\ c \in chatFiles /\ c # d /\ chats[d].kind # "unused"
    /\ ChatCall
    /\ chatFiles' = chatFiles \cup {d}
    /\ lateFiles' = IF Exists(d) THEN lateFiles ELSE lateFiles \cup {d}
    /\ UNCHANGED <<chats, staffGroups, chatQueue, goneOrders, sweeping, swept, screens, expelled,
                   lingered, replaced, crossed>>

\* A file that is too large or empty is removed again; one whose directory goes meanwhile is lost.
UploadRefused(q) ==
    /\ chatQueue[q].op = "upload"
    /\ chatQueue' = [chatQueue EXCEPT ![q] = Idle]
    /\ UNCHANGED <<chats, staffGroups, chatFiles, goneOrders, sweeping, swept, screens, ghostsOfChats, chatCalls>>

Drop(gone) == [c \in ConvIds |-> IF c \in gone THEN [BlankChat EXCEPT !.kind = "gone"] ELSE chats[c]]
UnderWay(cs) == {c \in cs : \E q \in ChatRequests : chatQueue[q].op = "upload" /\ chatQueue[q].at = c}

\* order_deleted: the rows are committed before the directories are removed.
OrderDeleted ==
    \E o \in ChatOrders \ goneOrders :
        LET ofOrder == {c \in ConvIds : Exists(c) /\ chats[c].order = o}
            inserting == {q \in ChatRequests : chatQueue[q].op = "insert" /\ chatQueue[q].chat.order = o} IN
        /\ ChatCall
        /\ goneOrders' = goneOrders \cup {o}
        /\ chats' = Drop(ofOrder)
        /\ sweeping' = sweeping \cup ofOrder
        /\ screens' = {s \in screens : s[1] \notin ofOrder}
        /\ lateFiles' = lateFiles \cup UnderWay(ofOrder)
        /\ crossed' = crossed \cup {KeyOf(chatQueue[q].chat) : q \in inserting}
        /\ UNCHANGED <<staffGroups, chatQueue, chatFiles, swept, expelled, lingered, replaced>>

RemoveAttachments ==
    \E c \in sweeping :
        /\ sweeping' = sweeping \ {c}
        /\ swept' = swept \cup {c}
        /\ chatFiles' = chatFiles \ {c}
        /\ UNCHANGED <<chats, staffGroups, chatQueue, goneOrders, screens, ghostsOfChats, chatCalls>>

\* The administrator deletes a chat: its rows go, its directory stays.
DeleteChat ==
    /\ \E u \in ChatUsers : ChatRole[u] = "admin"
    /\ ChatCall
    /\ \/ \E c \in ConvIds :
              /\ Exists(c)
              /\ chats' = Drop({c})
              /\ screens' = {s \in screens : s[1] # c}
              /\ UNCHANGED staffGroups
       \/ \E g \in staffGroups :
              /\ staffGroups' = staffGroups \ {g}
              /\ UNCHANGED <<chats, screens>>
    /\ UNCHANGED <<chatQueue, chatFiles, goneOrders, sweeping, swept, ghostsOfChats>>

\* The service starts again: it puts the preset groups back, and what it was doing is lost.
EnsureStaffGroups ==
    /\ ChatCall
    /\ staffGroups' = {"work", "accounting"}
    /\ chatQueue' = [q \in ChatRequests |-> Idle]
    /\ sweeping' = {}
    /\ UNCHANGED <<chats, chatFiles, goneOrders, swept, screens, ghostsOfChats>>

ChatsNext ==
    \/ \E q \in ChatRequests :
          \/ EnsureClientManager(q) \/ EnsureClientAccountant(q) \/ EnsureDirect(q)
          \/ EnsureClientDriver(q) \/ Insert(q) \/ UploadEnd(q) \/ UploadRefused(q)
          \/ \E u \in ChatUsers, c \in ConvIds : UploadBegin(q, u, c) \/ UploadAvatar(q, u, c)
    \/ ReplaceDriver \/ CreateGroup \/ SetMembers \/ AddMember \/ RemoveMember
    \/ \E u \in ChatUsers, c \in ConvIds : Enter(u, c) \/ MarkRead(u, c) \/ Leave(u, c) \/ Say(u, c)
    \/ \E u \in ChatUsers, c, d \in ConvIds : ForwardFile(u, c, d)
    \/ OrderDeleted \/ RemoveAttachments \/ DeleteChat \/ EnsureStaffGroups

ChatsSpec == ChatsInit /\ [][ChatsNext]_chatVars

--------------------------------------------------------------------------------
ChatsTypeOK ==
    /\ chats \in [ConvIds -> ChatRow]
    /\ staffGroups \subseteq {"work", "accounting"}
    /\ \A q \in ChatRequests : chatQueue[q].op \in {"none", "insert", "upload"}
    /\ chatFiles \cup sweeping \cup swept \cup lateFiles \subseteq ConvIds
    /\ goneOrders \subseteq ChatOrders
    /\ screens \cup expelled \cup lingered \cup replaced \subseteq ConvIds \X ChatUsers
    /\ chatCalls \in 0..MaxChatCalls

\* A second chat of the same people, or of the same order, comes only of two requests that
\* looked before either had inserted; and where an index guards the key, never.
OneChatPer ==
    \A a, b \in ConvIds :
        a # b /\ Exists(a) /\ Exists(b) /\ KeyOf(chats[a]) = KeyOf(chats[b])
              /\ chats[a].kind # "private_group"
        => KeyOf(chats[a]) \in crossed /\ chats[a].kind \notin UniqueKinds

\* The lists and the search show a person exactly the chats that every other operation lets in.
AccessAgrees ==
    \A chat \in Conversations, u \in ChatUsers : CheckAccess(chat, u) <=> chat \in ListOf(u)

\* Who was removed from a group stays out, unless an application that had it open marked it
\* as read after the removal; the administrator sees every group.
RemovedIsOut ==
    \A out \in expelled \ lingered :
        Exists(out[1]) /\ ChatRole[out[2]] # "admin" => ~CheckAccess(chats[out[1]], out[2])

\* A message is announced to those who may read it, and to the driver the order was taken from.
ToldHaveAccess ==
    \A c \in ConvIds, u \in ChatUsers :
        Exists(c) /\ u \in RecipientsOf(c) => CheckAccess(chats[c], u) \/ <<c, u>> \in replaced

\* A deleted order has no chat, unless its creation was under way at the deletion; and the
\* directory removed with it is not there again, unless an upload was, or a file was forwarded
\* to the chat that was no longer there.
OrderChatGone ==
    /\ \A c \in ConvIds : Exists(c) /\ chats[c].order \in goneOrders => KeyOf(chats[c]) \in crossed
    /\ swept \cap chatFiles \subseteq lateFiles

ChatsOK == OneChatPer /\ AccessAgrees /\ RemovedIsOut /\ ToldHaveAccess /\ OrderChatGone
=============================================================================
