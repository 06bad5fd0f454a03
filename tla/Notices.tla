-------------------------------- MODULE Notices --------------------------------
(* notification_service: the events it hears on Redis, the notices, letters and signals it makes
   of them, and the signals of calls.

   Every event is handled by a task of its own, so that two events of one order or of one call
   overlap. A notice is committed before a letter or a push is scheduled for it; the signal to
   the open applications comes last. A rescheduled order is told like a change of its status. *)
EXTENDS Integers, FiniteSets

CONSTANTS
    Notified,        \* people
    Purchaser,       \* the client of the orders, who is called as well
    StaffPeople,     \* the managers and administrators
    Dialler,         \* who starts the calls
    NoticeOrders, NoticeCalls, Handlers,
    MaxNotices,      \* bound: events in a behaviour
    NoOne            \* an idle task

ASSUME NoticeAssumption ==
    /\ Purchaser \in Notified /\ StaffPeople \subseteq Notified /\ Dialler \in Notified
    /\ MaxNotices \in Nat
    /\ NoOne \notin Notified

VARIABLES
    noticeTasks,    \* the task of each handler
    notices,     \* the table notifications
    letters,     \* letters and pushes scheduled: <<user, kind, about>>
    announced,   \* calls that were announced: none, started, ended
    invited,     \* participants of each call other than the one who started it
    ringing,     \* <<call, user>>: the application of the user shows an incoming call
    hungUp,      \* <<call, user>>: the end of the call reached the user's application
    erased,      \* orders whose deletion was announced
    atHand,      \* ghost: orders with a task under way when their deletion was announced
    overtaken,   \* ghost: <<call, user>> told of the call after they were told of its end
    standIns,    \* ghost: <<call, user>> rung because the call had no other participant
    unheard,     \* ghost: <<call, user>> whom the end of the call did not reach
    noticeSteps  \* events so far

noticeVars == <<noticeTasks, notices, letters, announced, invited, ringing, hungUp, erased, atHand, overtaken,
                standIns, unheard, noticeSteps>>


AtEase == [kind |-> NoOne, about |-> NoOne, to |-> {}, phase |-> "idle"]

NoticesInit ==
    /\ noticeTasks = [h \in Handlers |-> AtEase]
    /\ notices = {} /\ letters = {} /\ ringing = {} /\ hungUp = {} /\ erased = {}
    /\ announced = [k \in NoticeCalls |-> "none"]
    /\ invited = [k \in NoticeCalls |-> {}]
    /\ atHand = {} /\ overtaken = {} /\ standIns = {} /\ unheard = {}
    /\ noticeSteps = 0

Count == noticeSteps < MaxNotices /\ noticeSteps' = noticeSteps + 1
UnderWayFor(x) == {h \in Handlers : noticeTasks[h].about = x /\ noticeTasks[h].phase # "idle"}
OrderKinds == {"order_created", "order_status", "order_large_volume"}

--------------------------------------------------------------------------------
\* Events arrive, in the order they were published. Who a notice is for is known at once, or
\* the staff are asked for in auth_service.

Take(h, kind, about, to, phase) ==
    /\ noticeTasks[h] = AtEase
    /\ Count
    /\ noticeTasks' = [noticeTasks EXCEPT ![h] = [kind |-> kind, about |-> about, to |-> to, phase |-> phase]]

OrderEvent(h) ==
    /\ \E o \in NoticeOrders \ erased :
          \/ Take(h, "order_created", o, {Purchaser}, "ask")
          \/ Take(h, "order_large_volume", o, {}, "ask")
          \/ Take(h, "order_status", o, {Purchaser}, "store")
    /\ UNCHANGED <<notices, letters, announced, invited, ringing, hungUp, erased, atHand, overtaken,
                   standIns, unheard>>

OrderErased(h) ==
    \E o \in NoticeOrders \ erased :
        /\ Take(h, "order_deleted", o, {}, "erase")
        /\ erased' = erased \cup {o}
        /\ atHand' = IF UnderWayFor(o) # {} THEN atHand \cup {o} ELSE atHand
        /\ UNCHANGED <<notices, letters, announced, invited, ringing, hungUp, overtaken, standIns, unheard>>

\* A call nobody else takes part in rings at the staff.
CallStarted(h) ==
    \E k \in NoticeCalls, to \in {{Purchaser}, {}} :
        /\ announced[k] = "none"
        /\ Take(h, "call_initiated", k, to, IF to = {} THEN "ask" ELSE "store")
        /\ announced' = [announced EXCEPT ![k] = "started"]
        /\ invited' = [invited EXCEPT ![k] = to]
        /\ UNCHANGED <<notices, letters, ringing, hungUp, erased, atHand, overtaken, standIns, unheard>>

\* The end is told to the one who started the call only (a mutant of EndedTo).
EndedToDialler(k) == {Dialler}
\* The participants of a call.
EndedTo(k) == invited[k] \cup {Dialler}

CallOver(h) ==
    \E k \in NoticeCalls :
        /\ announced[k] # "none"
        /\ Take(h, "call_ended", k, EndedTo(k), "tell")
        /\ announced' = [announced EXCEPT ![k] = "ended"]
        /\ UNCHANGED <<notices, letters, invited, ringing, hungUp, erased, atHand, overtaken, standIns,
                       unheard>>

CallMissed(h) ==
    /\ \E k \in NoticeCalls :
           announced[k] = "ended" /\ invited[k] # {} /\ Take(h, "call_missed", k, invited[k], "store")
    /\ UNCHANGED <<notices, letters, announced, invited, ringing, hungUp, erased, atHand, overtaken,
                   standIns, unheard>>

\* auth_service answers with the staff, or not at all.
Recipients(h) ==
    /\ noticeTasks[h].phase = "ask"
    /\ \E found \in {StaffPeople, {}} :
           LET to == IF noticeTasks[h].kind = "call_initiated" THEN found \ {Dialler}
                     ELSE noticeTasks[h].to \cup found IN
           /\ noticeTasks' = [noticeTasks EXCEPT ![h] = IF to = {} THEN AtEase
                                                  ELSE [@ EXCEPT !.to = to, !.phase = "store"]]
           /\ standIns' = IF noticeTasks[h].kind = "call_initiated"
                          THEN standIns \cup {<<noticeTasks[h].about, u>> : u \in to} ELSE standIns
    /\ UNCHANGED <<notices, letters, announced, invited, ringing, hungUp, erased, atHand, overtaken, unheard, noticeSteps>>

--------------------------------------------------------------------------------
\* What a task does once it knows whom to tell.

RowsOf(t) == {[user |-> u, kind |-> t.kind, about |-> t.about, read |-> FALSE] : u \in t.to}
LettersOf(t) == {<<u, t.kind, t.about>> : u \in t.to}

\* The letters are scheduled before the commit (a mutant of Store).
StoreLate(h) ==
    /\ noticeTasks[h].phase = "store"
    /\ letters' = letters \cup LettersOf(noticeTasks[h])
    /\ \/ /\ notices' = notices \cup RowsOf(noticeTasks[h])
          /\ noticeTasks' = [noticeTasks EXCEPT ![h].phase = "tell"]
       \/ noticeTasks' = [noticeTasks EXCEPT ![h] = AtEase] /\ UNCHANGED notices
    /\ UNCHANGED <<announced, invited, ringing, hungUp, erased, atHand, overtaken, standIns, unheard, noticeSteps>>

\* Commit, then schedule letters and pushes; or fail, and do none of it.
Store(h) ==
    /\ noticeTasks[h].phase = "store"
    /\ \/ /\ notices' = notices \cup RowsOf(noticeTasks[h])
          /\ letters' = letters \cup LettersOf(noticeTasks[h])
          /\ noticeTasks' = [noticeTasks EXCEPT ![h].phase = "tell"]
       \/ noticeTasks' = [noticeTasks EXCEPT ![h] = AtEase] /\ UNCHANGED <<notices, letters>>
    /\ UNCHANGED <<announced, invited, ringing, hungUp, erased, atHand, overtaken, standIns, unheard, noticeSteps>>

Told(h, u) ==
    LET t == noticeTasks[h] IN
    [noticeTasks EXCEPT ![h] = IF t.to = {u} THEN AtEase ELSE [t EXCEPT !.to = t.to \ {u}]]

\* A signal reaches the open application of one person.
Tell(h, u) ==
    LET t == noticeTasks[h] IN
    /\ t.phase = "tell" /\ u \in t.to
    /\ noticeTasks' = Told(h, u)
    /\ ringing' = CASE t.kind = "call_initiated" -> ringing \cup {<<t.about, u>>}
                    [] t.kind = "call_ended" -> ringing \ {<<t.about, u>>}
                    [] OTHER -> ringing
    /\ hungUp' = IF t.kind = "call_ended" THEN hungUp \cup {<<t.about, u>>} ELSE hungUp
    /\ overtaken' = IF t.kind = "call_initiated" /\ <<t.about, u>> \in hungUp
                    THEN overtaken \cup {<<t.about, u>>} ELSE overtaken
    /\ UNCHANGED <<notices, letters, announced, invited, erased, atHand, standIns, unheard,
                   noticeSteps>>

\* Nobody listens on the channel, or the end of a call cannot be published to this one.
Missed(h, u) ==
    LET t == noticeTasks[h] IN
    /\ t.phase = "tell" /\ u \in t.to
    /\ noticeTasks' = Told(h, u)
    /\ unheard' = IF t.kind = "call_ended" THEN unheard \cup {<<t.about, u>>} ELSE unheard
    /\ UNCHANGED <<notices, letters, announced, invited, ringing, hungUp, erased, atHand, overtaken, standIns, noticeSteps>>

\* Redis fails: the others are not told of what was committed.
GiveUp(h) ==
    /\ noticeTasks[h].phase = "tell" /\ noticeTasks[h].kind # "call_ended"
    /\ noticeTasks' = [noticeTasks EXCEPT ![h] = AtEase]
    /\ UNCHANGED <<notices, letters, announced, invited, ringing, hungUp, erased, atHand, overtaken, standIns,
                   unheard, noticeSteps>>

\* Only what the client has not read goes (a mutant of OfOrder).
UnreadOfOrder(o) == {n \in notices : n.kind \in OrderKinds /\ n.about = o /\ ~n.read}
OfOrder(o) == {n \in notices : n.kind \in OrderKinds /\ n.about = o}

Erase(h) ==
    /\ noticeTasks[h].phase = "erase"
    /\ notices' = notices \ OfOrder(noticeTasks[h].about)
    /\ noticeTasks' = [noticeTasks EXCEPT ![h] = AtEase]
    /\ UNCHANGED <<letters, announced, invited, ringing, hungUp, erased, atHand, overtaken, standIns, unheard, noticeSteps>>

ReadAll(u) ==
    /\ \E n \in notices : n.user = u /\ ~n.read
    /\ notices' = {IF n.user = u THEN [n EXCEPT !.read = TRUE] ELSE n : n \in notices}
    /\ UNCHANGED <<noticeTasks, letters, announced, invited, ringing, hungUp, erased, atHand, overtaken, standIns,
                   unheard, noticeSteps>>

NoticesNext ==
    \/ \E h \in Handlers :
          \/ OrderEvent(h) \/ OrderErased(h) \/ CallStarted(h) \/ CallOver(h) \/ CallMissed(h)
          \/ Recipients(h) \/ Store(h) \/ GiveUp(h) \/ Erase(h)
          \/ \E u \in Notified : Tell(h, u) \/ Missed(h, u)
    \/ \E u \in Notified : ReadAll(u)

NoticesSpec == NoticesInit /\ [][NoticesNext]_noticeVars

--------------------------------------------------------------------------------
NoticesTypeOK ==
    /\ \A h \in Handlers : noticeTasks[h].to \subseteq Notified
    /\ \A n \in notices : n.user \in Notified
    /\ ringing \cup hungUp \subseteq NoticeCalls \X Notified
    /\ noticeSteps \in 0..MaxNotices

\* A deleted order has no notices, unless one of its events was being handled at the deletion.
NoOrphanNotices ==
    \A n \in notices : n.kind \in OrderKinds /\ n.about \in erased /\ n.about \notin atHand
                       => \E h \in Handlers : noticeTasks[h].phase = "erase" /\ noticeTasks[h].about = n.about

\* A letter or a push has the notice it was written for, for as long as its order is there.
LettersHaveNotices ==
    \A l \in letters : l[3] \notin erased
        => \E n \in notices : n.user = l[1] /\ n.kind = l[2] /\ n.about = l[3]

\* When a call is over, nobody's application rings any more: but where the end overtook the
\* start, did not get through, or was not meant for the staff who were rung instead.
RingingStops ==
    \A rung \in ringing :
        announced[rung[1]] = "ended" /\ UnderWayFor(rung[1]) = {}
        => rung \in overtaken \cup unheard \cup standIns

NoticesOK == NoOrphanNotices /\ LettersHaveNotices /\ RingingStops
=============================================================================
