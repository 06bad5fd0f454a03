-------------------------------- MODULE Messages --------------------------------
(* The messages of one conversation, the read marks of the people in it, and what the lists
   make of both: the badge of unread messages and the ticks beside one's own.

   A message bears the time its transaction began and is seen when it commits. A mark is
   taken at the beginning of a request and written at its end, over the row that was found or
   into a new one: nothing keeps two rows of one person out of the table, and every request
   that finds two of them fails. *)
EXTENDS Integers, FiniteSets

CONSTANTS
    Texts,        \* messages
    Talkers,      \* the people who may enter the conversation
    Managing,     \* those of them who are managers or administrators
    TalkRequests, \* requests that overlap
    System,       \* the sender of the messages of other services
    MaxTalk       \* bound: requests in a behaviour

ASSUME MessagesAssumption == System \notin Talkers /\ Managing \subseteq Talkers /\ MaxTalk \in Nat

Never == -1

VARIABLES
    texts,       \* the table messages
    marks,       \* the table conversation_participants: number of rows, and the marks of a person
    talk,        \* requests under way
    now,         \* the clock: it advances with each request
    overlapping  \* ghost: people two of whose requests were under way together

messageVars == <<texts, marks, talk, now, overlapping>>

TextRow == [state: {"none", "sending", "shown", "archived", "cleared"}, by: Talkers \cup {System}, at: Nat, pinned: BOOLEAN]
MarkRow == [rows: 0..2, read: Int, delivered: Int]
Silent == [kind |-> "none"]

MessagesInit ==
    /\ texts = [m \in Texts |-> [state |-> "none"]]
    /\ marks = [u \in Talkers |-> [rows |-> 0, read |-> Never, delivered |-> Never]]
    /\ talk = [q \in TalkRequests |-> Silent]
    /\ now = 0
    /\ overlapping = {}

\* The time at which a request begins.
Begin == now < MaxTalk /\ now' = now + 1
Shown == {m \in Texts : texts[m].state = "shown"}
ActsFor(q, u) == talk[q] # Silent /\ talk[q].who = u
Overlap(u) == IF \E q \in TalkRequests : ActsFor(q, u) THEN overlapping \cup {u} ELSE overlapping

--------------------------------------------------------------------------------
\* What is read.

\* The latest marks of the other people.
Others(u) == Talkers \ {u}
PeerRead(u, t) == \E v \in Others(u) : marks[v].rows > 0 /\ t <= marks[v].read
PeerDelivered(u, t) == \E v \in Others(u) : marks[v].rows > 0 /\ t <= marks[v].delivered

\* The tick beside a message: 2 read, 1 delivered, 0 sent.
Tick(m) ==
    IF PeerRead(texts[m].by, texts[m].at) THEN 2
    ELSE IF PeerDelivered(texts[m].by, texts[m].at) THEN 1 ELSE 0

--------------------------------------------------------------------------------
\* Sending. A manager's first message enrols him, with everything so far read.

SendBegin(q, u) ==
    /\ talk[q] = Silent
    /\ Begin
    /\ \E m \in Texts :
           /\ texts[m].state = "none"
           /\ texts' = [texts EXCEPT ![m] = [state |-> "sending", by |-> u, at |-> now + 1,
                                             pinned |-> FALSE]]
           /\ talk' = [talk EXCEPT ![q] =
                         [kind |-> "send", who |-> u, text |-> m, at |-> now + 1,
                          rows |-> IF u \in Managing THEN marks[u].rows ELSE 1,
                          delivered |-> Never]]
    /\ overlapping' = Overlap(u)
    /\ UNCHANGED marks

\* Another service posts a message: it is committed by the request itself.
SystemText ==
    /\ Begin
    /\ \E m \in Texts :
           /\ texts[m].state = "none"
           /\ texts' = [texts EXCEPT ![m] = [state |-> "shown", by |-> System, at |-> now + 1,
                                             pinned |-> FALSE]]
    /\ UNCHANGED <<marks, talk, overlapping>>

--------------------------------------------------------------------------------
\* Marking. Opening the conversation enrols, fetching its messages marks them as delivered,
\* reading marks them as read, and pinning the chat enrols without a mark.

Visits == {"open", "read", "fetch", "pin"}

VisitBegin(q, u, kind) ==
    /\ talk[q] = Silent /\ marks[u].rows < 2
    /\ Begin
    /\ talk' = [talk EXCEPT ![q] = [kind |-> kind, who |-> u, at |-> now + 1,
                                    rows |-> marks[u].rows, delivered |-> marks[u].delivered]]
    /\ overlapping' = Overlap(u)
    /\ UNCHANGED <<texts, marks>>

\* A new row for a person who has none.
Enrolled(r) ==
    [rows |-> marks[r.who].rows + 1,
     read |-> CASE r.kind \in {"open", "read", "send"} -> r.at [] OTHER -> Never,
     delivered |-> CASE r.kind \in {"read", "fetch"} -> r.at [] OTHER -> Never]

\* What is written over the row that was found.
Marked(r) ==
    CASE r.kind = "read" ->
           [marks[r.who] EXCEPT !.read = r.at, !.delivered = IF r.delivered < r.at THEN r.at ELSE @]
      [] r.kind = "fetch" -> [marks[r.who] EXCEPT !.delivered = r.at]
      [] OTHER -> marks[r.who]

\* Every request adds a row (a mutant of WriteMark).
WriteAlways(r) == Enrolled(r)

\* A request that puts a row of its own in place of the one there is (a mutant of WriteMark).
WriteAnew(r) == [Enrolled(r) EXCEPT !.rows = 1]

\* The first row stays the one that the marks are read from; a second one blocks the person.
WriteMark(r) ==
    IF r.rows = 1 THEN Marked(r)
    ELSE IF marks[r.who].rows = 0 THEN Enrolled(r)
    ELSE [marks[r.who] EXCEPT !.rows = 2]

VisitEnd(q) ==
    /\ talk[q] # Silent
    /\ marks' = [marks EXCEPT ![talk[q].who] = WriteMark(talk[q])]
    /\ texts' = IF talk[q].kind = "send" /\ texts[talk[q].text].state = "sending"
                THEN [texts EXCEPT ![talk[q].text].state = "shown"] ELSE texts
    /\ talk' = [talk EXCEPT ![q] = Silent]
    /\ UNCHANGED <<now, overlapping>>

\* The list of chats marks everything as delivered for who has a row.
ListChats(u) ==
    /\ marks[u].rows > 0
    /\ Begin
    /\ marks' = [marks EXCEPT ![u].delivered = now + 1]
    /\ overlapping' = Overlap(u)
    /\ UNCHANGED <<texts, talk>>

--------------------------------------------------------------------------------
\* Deleting, pinning and clearing.

\* The sender, or a manager.
DeleteText(u, m) ==
    /\ m \in Shown /\ (texts[m].by = u \/ u \in Managing)
    /\ Begin
    /\ texts' = [texts EXCEPT ![m].state = "archived"]
    /\ UNCHANGED <<marks, talk, overlapping>>

PinText(u, m) ==
    /\ m \in Shown
    /\ Begin
    /\ texts' = [texts EXCEPT ![m].pinned = ~@]
    /\ UNCHANGED <<marks, talk, overlapping>>

\* The history is cleared: the rows that are committed go.
Clear ==
    /\ Managing # {} /\ Shown # {}
    /\ Begin
    /\ texts' = [m \in Texts |-> IF texts[m].state \in {"shown", "archived"}
                                 THEN [texts[m] EXCEPT !.state = "cleared"] ELSE texts[m]]
    /\ UNCHANGED <<marks, talk, overlapping>>

MessagesNext ==
    \/ \E q \in TalkRequests, u \in Talkers :
          SendBegin(q, u) \/ \E kind \in Visits : VisitBegin(q, u, kind)
    \/ \E q \in TalkRequests : VisitEnd(q)
    \/ \E u \in Talkers : ListChats(u) \/ \E m \in Texts : DeleteText(u, m) \/ PinText(u, m)
    \/ SystemText \/ Clear

MessagesSpec == MessagesInit /\ [][MessagesNext]_messageVars

--------------------------------------------------------------------------------
MessagesTypeOK ==
    /\ \A m \in Texts : texts[m].state # "none" => texts[m] \in TextRow
    /\ marks \in [Talkers -> MarkRow]
    /\ now \in 0..MaxTalk
    /\ overlapping \subseteq Talkers

\* A person has one row, unless two of his first requests overlapped. With two rows he can
\* neither open the conversation nor mark it any more.
OneMarkEach == \A u \in Talkers \ overlapping : marks[u].rows < 2

\* A tick never goes back, unless two requests of one of the others overlapped.
TicksOnlyAdvance ==
    [][\A m \in Texts :
           (m \in Shown /\ m \in Shown' /\ Others(texts[m].by) \cap overlapping' = {})
           => Tick(m)' >= Tick(m)]_messageVars
=============================================================================
