SPECIFICATION MessagingSpec
CONSTANTS
    ConvIds = {x1, x2}
    ChatUsers <- MCUsers
    ChatRole <- MCRole
    ChatOrders = {o1}
    ChatRequests = {q1, q2}
    Pairs <- MCPairs
    Teams <- MCTeams
    MaxChatCalls = 4
    Nobody = Nobody
    Texts = {x1, x2}
    Talkers = {u1, u2}
    Managing = {u1}
    System = System
    TalkRequests = {q1, q2}
    MaxTalk = 4
    Sockets = {1, 2, 3}
    OwnerOf <- MCOwnerOf
    Listeners = {t1, t2, t3}
    NoTask = NoTask
    MaxRedisFaults = 1
    CallIds = {x1, x2}
    Caller = u1
    Callee = u2
    CallRequests = {q1, q2}
    MaxCallSteps = 4
    MaxLostHooks = 1
    Notified <- MCNotified
    Purchaser = "carl"
    StaffPeople <- MCStaff
    Dialler = "mia"
    NoticeOrders = {o1}
    NoticeCalls = {k1}
    Handlers = {q1, q2}
    MaxNotices = 3
    NoOne = NoOne
    Phones = {x1, x2}
    PhoneUsers = {u1, u2}
    MaxPhones = 1
    MaxPhoneSteps = 4
    NoOwner = NoOne
SYMMETRY MessagingSymmetry
INVARIANTS MessagingTypeOK    
 
CHECK_DEADLOCK FALSE
