---------------------------- MODULE MessagingProofs ----------------------------
(***************************************************************************)
(* Proofs about chat_service, call_service and notification_service, for   *)
(* any number of people, conversations, calls, sockets, phones, requests.  *)
(*                                                                         *)
(* Messages: who does one thing at a time has one read mark, and never     *)
(* takes a tick back.  Chats: a row about to be inserted has its key to    *)
(* itself, or the crossing is noted; who has entered may read.  Listener:  *)
(* what is on its way to Redis says who is there.  Calls: who makes a call *)
(* is alone with it until its row is there.  Notices: the end of a call is *)
(* on its way to whoever still rings.  Devices: a phone's token is its     *)
(* user's or nobody's, and a registration that has read counted the phones *)
(* that it will leave.                                                     *)
(***************************************************************************)
EXTENDS MCMessaging, FiniteSums

-----------------------------------------------------------------------------
(* Messages: the inductive invariant *)

TalkRow ==
    [kind: {"send"}, who: Talkers, text: Texts, at: 0..now, rows: 0..2, delivered: Int]
    \cup [kind: Visits, who: Talkers, at: 0..now, rows: 0..2, delivered: Int]

TablesOK ==
    /\ now \in Nat
    /\ texts = [m \in Texts |-> texts[m]]
    /\ \A m \in Texts : texts[m].state # "none" => texts[m] \in TextRow
    /\ marks \in [Talkers -> MarkRow]
    /\ talk = [q \in TalkRequests |-> talk[q]]
    /\ \A q \in TalkRequests : talk[q] = Silent \/ talk[q] \in TalkRow

\* No mark is later than the clock.
MarksPast == \A u \in Talkers : marks[u].read <= now /\ marks[u].delivered <= now

\* Who never had two requests under way has one at most, and it began after his marks.
Alone ==
    \A q \in TalkRequests : talk[q] # Silent /\ talk[q].who \notin overlapping =>
        /\ marks[talk[q].who].read <= talk[q].at /\ marks[talk[q].who].delivered <= talk[q].at
        /\ \A x \in TalkRequests \ {q} : ~ActsFor(x, talk[q].who)

TalkInv == TablesOK /\ MarksPast /\ Alone

\* The row and the marks of a person do not go back.
MarksGrow(u) ==
    marks[u].rows > 0 => /\ marks'[u].rows > 0
                         /\ marks'[u].read >= marks[u].read
                         /\ marks'[u].delivered >= marks[u].delivered

\* A message that stays in the conversation keeps its sender and its time.
SameText(m) ==
    m \in Shown /\ m \in Shown' => texts'[m].by = texts[m].by /\ texts'[m].at = texts[m].at

\* What one step does.
Advances ==
    /\ overlapping \subseteq overlapping'
    /\ \A u \in Talkers \ overlapping' : MarksGrow(u)
    /\ \A m \in Texts : SameText(m)

-----------------------------------------------------------------------------
(* Messages: requests that begin *)

\* Before the first request there are no messages and no marks.
LEMMA InitHolds == MessagesInit => TalkInv
  <1> SUFFICES ASSUME MessagesInit PROVE TalkInv
    OBVIOUS
  <1>1. TablesOK
    BY DEF MessagesInit, TablesOK, MarkRow, Never
  <1>2. MarksPast
    BY DEF MessagesInit, MarksPast, Never
  <1>3. Alone
    BY DEF MessagesInit, Alone
  <1> QED BY <1>1, <1>2, <1>3 DEF TalkInv

\* A request that is open when the clock moves is still a request of the past.
LEMMA LaterRow ==
    ASSUME now \in Nat, now' \in Nat, now <= now', NEW r \in TalkRow
    PROVE  r \in TalkRow'
  <1>1. 0..now \subseteq 0..now'
    OBVIOUS
  <1> QED BY <1>1 DEF TalkRow

\* A request that begins leaves the marks; if its person has another under way, he overlaps.
LEMMA BeginKeeps ==
    ASSUME TalkInv, NEW q \in TalkRequests, NEW u \in Talkers,
           talk[q] = Silent, Begin, UNCHANGED marks, overlapping' = Overlap(u),
           talk' = [talk EXCEPT ![q] = talk'[q]],
           talk'[q] \in TalkRow', talk'[q].who = u, talk'[q].at = now + 1,
           texts' = [m \in Texts |-> texts'[m]],
           \A m \in Texts : texts'[m].state # "none" => texts'[m] \in TextRow,
           \A m \in Texts : SameText(m)
    PROVE  TalkInv' /\ Advances
  <1>1. now \in Nat /\ now' = now + 1 /\ \A x \in TalkRequests \ {q} : talk'[x] = talk[x]
    BY DEF Begin, TalkInv, TablesOK
  <1>2. TablesOK'
    <2>1. \A x \in TalkRequests : talk'[x] = Silent \/ talk'[x] \in TalkRow'
      BY <1>1, LaterRow DEF TalkInv, TablesOK
    <2>2. talk' = [x \in TalkRequests |-> talk'[x]]
      BY DEF TalkInv, TablesOK
    <2> QED BY <1>1, <2>1, <2>2 DEF TalkInv, TablesOK, TextRow, MarkRow
  <1>3. MarksPast'
    BY <1>1 DEF TalkInv, MarksPast, TablesOK, MarkRow
  <1>4. overlapping \subseteq overlapping'
    BY DEF Overlap
  <1>5. Alone'
    <2> SUFFICES ASSUME NEW x \in TalkRequests, talk'[x] # Silent, talk'[x].who \notin overlapping'
                 PROVE  /\ marks[talk'[x].who].read <= talk'[x].at
                        /\ marks[talk'[x].who].delivered <= talk'[x].at
                        /\ \A y \in TalkRequests \ {x} : ~(talk'[y] # Silent /\ talk'[y].who = talk'[x].who)
      BY DEF Alone, ActsFor
    <2>1. CASE x = q
      <3>1. \A y \in TalkRequests : ~ActsFor(y, u)
        BY <2>1 DEF Overlap
      <3>2. marks[u].read <= now + 1 /\ marks[u].delivered <= now + 1
        BY <1>1 DEF TalkInv, MarksPast, TablesOK, MarkRow
      <3> QED BY <1>1, <2>1, <3>1, <3>2 DEF ActsFor
    <2>2. CASE x # q
      <3>1. talk'[x] = talk[x] /\ talk[x].who \notin overlapping
        BY <1>1, <1>4, <2>2
      <3>2. talk[x].who # u
        BY <3>1 DEF Overlap, ActsFor
      <3> QED BY <1>1, <3>1, <3>2 DEF TalkInv, Alone, ActsFor
    <2> QED BY <2>1, <2>2
  <1>6. Advances
    BY <1>4 DEF Advances, MarksGrow, TalkInv, TablesOK, MarkRow
  <1> QED BY <1>2, <1>3, <1>5, <1>6 DEF TalkInv

\* A text whose row is as it was, or was not shown before, or is not shown any more.
LEMMA OneText ==
    ASSUME TalkInv, NEW m \in Texts, texts' = [texts EXCEPT ![m] = texts'[m]],
           texts'[m] \in TextRow,
           \/ texts[m].state # "shown"
           \/ texts'[m].state # "shown"
           \/ texts'[m].by = texts[m].by /\ texts'[m].at = texts[m].at
    PROVE  /\ texts' = [x \in Texts |-> texts'[x]]
           /\ \A x \in Texts : texts'[x].state # "none" => texts'[x] \in TextRow
           /\ \A x \in Texts : SameText(x)
  BY DEF TalkInv, TablesOK, SameText, Shown

\* A step that leaves the messages alone takes nothing from them.
LEMMA SameTexts ==
    ASSUME TalkInv, UNCHANGED texts
    PROVE  /\ texts' = [x \in Texts |-> texts'[x]]
           /\ \A x \in Texts : texts'[x].state # "none" => texts'[x] \in TextRow
           /\ \A x \in Texts : SameText(x)
  BY DEF TalkInv, TablesOK, SameText, Shown

\* A message begins at the time of its request.
LEMMA SendBeginKeeps ==
    ASSUME TalkInv, NEW q \in TalkRequests, NEW u \in Talkers, SendBegin(q, u)
    PROVE  TalkInv' /\ Advances
  <1>1. PICK m \in Texts :
            /\ texts[m].state = "none"
            /\ texts' = [texts EXCEPT ![m] = [state |-> "sending", by |-> u, at |-> now + 1, pinned |-> FALSE]]
            /\ talk' = [talk EXCEPT ![q] =
                  [kind |-> "send", who |-> u, text |-> m, at |-> now + 1,
                   rows |-> IF u \in Managing THEN marks[u].rows ELSE 1, delivered |-> Never]]
    BY DEF SendBegin
  <1>2. now \in Nat /\ now' = now + 1 /\ marks[u].rows \in 0..2
    BY DEF SendBegin, Begin, TalkInv, TablesOK, MarkRow
  <1>3. /\ texts'[m] = [state |-> "sending", by |-> u, at |-> now + 1, pinned |-> FALSE]
        /\ texts' = [texts EXCEPT ![m] = texts'[m]]
    BY <1>1 DEF TalkInv, TablesOK
  <1>4. texts'[m] \in TextRow
    BY <1>2, <1>3 DEF TextRow
  <1>5. /\ talk'[q] = [kind |-> "send", who |-> u, text |-> m, at |-> now + 1,
                      rows |-> IF u \in Managing THEN marks[u].rows ELSE 1, delivered |-> Never]
        /\ talk' = [talk EXCEPT ![q] = talk'[q]]
    BY <1>1 DEF TalkInv, TablesOK
  <1>6. talk'[q] \in TalkRow'
    BY <1>2, <1>5 DEF TalkRow, Never
  <1>7. talk'[q].who = u /\ talk'[q].at = now + 1
    BY <1>5
  <1> QED BY <1>1, <1>3, <1>4, <1>5, <1>6, <1>7, OneText, BeginKeeps DEF SendBegin

\* A visit begins after the marks of the visitor, and writes none yet.
LEMMA VisitBeginKeeps ==
    ASSUME TalkInv, NEW q \in TalkRequests, NEW u \in Talkers, NEW kind \in Visits,
           VisitBegin(q, u, kind)
    PROVE  TalkInv' /\ Advances
  <1>1. now \in Nat /\ now' = now + 1 /\ marks[u].rows \in 0..2 /\ marks[u].delivered \in Int
    BY DEF VisitBegin, Begin, TalkInv, TablesOK, MarkRow
  <1>2. /\ talk'[q] = [kind |-> kind, who |-> u, at |-> now + 1,
                      rows |-> marks[u].rows, delivered |-> marks[u].delivered]
        /\ talk' = [talk EXCEPT ![q] = talk'[q]]
    BY DEF VisitBegin, TalkInv, TablesOK
  <1>3. talk'[q] \in TalkRow'
    BY <1>1, <1>2 DEF TalkRow
  <1>4. talk'[q].who = u /\ talk'[q].at = now + 1
    BY <1>2
  <1> QED BY <1>2, <1>3, <1>4, SameTexts, BeginKeeps DEF VisitBegin

-----------------------------------------------------------------------------
(* Messages: marks that are written *)

\* What a request of a person who overlaps with nobody writes is not before what was there.
LEMMA WriteGrows ==
    ASSUME NEW r \in TalkRow, now \in Nat, marks \in [Talkers -> MarkRow]
    PROVE  /\ WriteMark(r) \in MarkRow
           /\ marks[r.who].read <= r.at /\ marks[r.who].delivered <= r.at =>
                  /\ WriteMark(r).read <= r.at /\ WriteMark(r).delivered <= r.at
                  /\ marks[r.who].rows > 0 =>
                        /\ WriteMark(r).rows > 0
                        /\ WriteMark(r).read >= marks[r.who].read
                        /\ WriteMark(r).delivered >= marks[r.who].delivered
           /\ WriteMark(r).read \in {marks[r.who].read, r.at, Never}
           /\ WriteMark(r).delivered \in {marks[r.who].delivered, r.at, Never}
  <1> DEFINE old == marks[r.who]
  <1>1. old \in MarkRow /\ r.at \in 0..now /\ r.who \in Talkers
    BY DEF TalkRow
  <1>2. CASE r.rows = 1
    <2>1. CASE r.kind = "read"
      <3>1. PICK d \in {old.delivered, r.at} :
                WriteMark(r) = [old EXCEPT !.read = r.at, !.delivered = d]
        BY <1>2, <2>1 DEF WriteMark, Marked
      <3>2. WriteMark(r) = [rows |-> old.rows, read |-> r.at, delivered |-> d]
        BY <1>1, <3>1 DEF MarkRow
      <3> HIDE DEF old
      <3> QED BY <1>1, <3>2 DEF MarkRow, old
    <2>2. CASE r.kind = "fetch"
      BY <1>1, <1>2, <2>2 DEF WriteMark, Marked, MarkRow
    <2>3. CASE r.kind \notin {"read", "fetch"}
      BY <1>1, <1>2, <2>3 DEF WriteMark, Marked, MarkRow
    <2> QED BY <2>1, <2>2, <2>3
  <1>3. CASE r.rows # 1 /\ old.rows = 0
    <2>1. WriteMark(r) = Enrolled(r)
      BY <1>3 DEF WriteMark
    <2>2. /\ Enrolled(r).rows = 1
          /\ Enrolled(r).read \in {r.at, Never} /\ Enrolled(r).delivered \in {r.at, Never}
          /\ Enrolled(r) = [rows |-> Enrolled(r).rows, read |-> Enrolled(r).read,
                            delivered |-> Enrolled(r).delivered]
      BY <1>1, <1>3 DEF Enrolled, MarkRow
    <2>3. Never \in Int /\ Never <= r.at
      BY <1>1 DEF Never
    <2>4. Enrolled(r) \in MarkRow
      BY <1>1, <2>2, <2>3 DEF MarkRow
    <2> QED BY <1>1, <1>3, <2>1, <2>2, <2>3, <2>4
  <1>4. CASE r.rows # 1 /\ old.rows # 0
    BY <1>1, <1>4 DEF WriteMark, MarkRow
  <1> QED BY <1>2, <1>3, <1>4

\* A step that writes no mark and opens no request.
LEMMA TextsKeep ==
    ASSUME TalkInv, now' \in {now, now + 1}, UNCHANGED <<marks, talk, overlapping>>,
           texts' = [m \in Texts |-> texts'[m]],
           \A m \in Texts : texts'[m].state # "none" => texts'[m] \in TextRow,
           \A m \in Texts : SameText(m)
    PROVE  TalkInv' /\ Advances
  <1>1. now \in Nat /\ now' \in Nat /\ now <= now'
    BY DEF TalkInv, TablesOK
  <1>2. \A q \in TalkRequests : talk'[q] = Silent \/ talk'[q] \in TalkRow'
    BY <1>1, LaterRow DEF TalkInv, TablesOK
  <1>3. TablesOK'
    BY <1>1, <1>2 DEF TalkInv, TablesOK, TextRow, MarkRow
  <1>4. MarksPast'
    BY <1>1 DEF TalkInv, MarksPast, TablesOK, MarkRow
  <1>5. Alone'
    BY DEF TalkInv, Alone, ActsFor
  <1>6. Advances
    BY DEF Advances, MarksGrow, TalkInv, TablesOK, MarkRow
  <1> QED BY <1>3, <1>4, <1>5, <1>6 DEF TalkInv

\* The end of a request writes the marks of its person, and shows what it sent.
LEMMA VisitEndKeeps ==
    ASSUME TalkInv, NEW q \in TalkRequests, VisitEnd(q)
    PROVE  TalkInv' /\ Advances
  <1> DEFINE r == talk[q]
             u == talk[q].who
  <1>1. /\ r \in TalkRow /\ u \in Talkers /\ r.at \in 0..now /\ r # Silent /\ now \in Nat
        /\ marks \in [Talkers -> MarkRow] /\ UNCHANGED <<now, overlapping>>
    BY DEF VisitEnd, TalkInv, TablesOK, TalkRow
  <1>2. /\ marks' = [marks EXCEPT ![u] = WriteMark(r)]
        /\ talk' = [talk EXCEPT ![q] = Silent]
    BY DEF VisitEnd
  <1>3. /\ marks'[u] = WriteMark(r) /\ \A v \in Talkers \ {u} : marks'[v] = marks[v]
        /\ DOMAIN marks' = Talkers
        /\ talk'[q] = Silent /\ \A x \in TalkRequests \ {q} : talk'[x] = talk[x]
        /\ talk' = [x \in TalkRequests |-> talk'[x]]
    BY <1>1, <1>2 DEF TalkInv, TablesOK
  <1>4. /\ texts' = [m \in Texts |-> texts'[m]]
        /\ \A m \in Texts : texts'[m].state # "none" => texts'[m] \in TextRow
        /\ \A m \in Texts : SameText(m)
    <2>1. CASE r.kind = "send" /\ texts[r.text].state = "sending"
      <3>1. r.text \in Texts
        BY <1>1, <2>1 DEF TalkRow, Visits
      <3>2. /\ texts'[r.text] = [texts[r.text] EXCEPT !.state = "shown"]
            /\ texts' = [texts EXCEPT ![r.text] = texts'[r.text]]
        BY <2>1, <3>1 DEF VisitEnd, TalkInv, TablesOK
      <3>3. texts'[r.text] \in TextRow
        BY <2>1, <3>1, <3>2 DEF TalkInv, TablesOK, TextRow
      <3> QED BY <2>1, <3>1, <3>2, <3>3, OneText
    <2>2. CASE ~(r.kind = "send" /\ texts[r.text].state = "sending")
      BY <2>2, SameTexts DEF VisitEnd
    <2> QED BY <2>1, <2>2
  <1>5. WriteMark(r) \in MarkRow
    BY <1>1, WriteGrows
  <1>6. WriteMark(r).read <= now /\ WriteMark(r).delivered <= now
    <2>1. /\ WriteMark(r).read \in {marks[u].read, r.at, Never}
          /\ WriteMark(r).delivered \in {marks[u].delivered, r.at, Never}
      BY <1>1, WriteGrows
    <2>2. Never <= now /\ r.at <= now /\ marks[u].read <= now /\ marks[u].delivered <= now
      BY <1>1 DEF Never, TalkInv, MarksPast
    <2> HIDE DEF r, u
    <2> QED BY <2>1, <2>2
  <1> HIDE DEF r, u
  <1>7. TablesOK'
    <2>1. \A v \in Talkers : marks'[v] \in MarkRow
      BY <1>1, <1>3, <1>5
    <2>2. marks' \in [Talkers -> MarkRow]
      BY <1>1, <1>2, <1>5
    <2>3. \A x \in TalkRequests : talk'[x] = Silent \/ talk'[x] \in TalkRow'
      BY <1>1, <1>3 DEF TalkInv, TablesOK, TalkRow
    <2> QED BY <1>1, <1>3, <1>4, <2>2, <2>3 DEF TablesOK, TextRow, MarkRow
  <1>8. MarksPast'
    BY <1>1, <1>3, <1>6 DEF TalkInv, MarksPast
  <1>9. Alone'
    <2> SUFFICES ASSUME NEW x \in TalkRequests, talk'[x] # Silent, talk'[x].who \notin overlapping'
                 PROVE  /\ marks'[talk'[x].who].read <= talk'[x].at
                        /\ marks'[talk'[x].who].delivered <= talk'[x].at
                        /\ \A y \in TalkRequests \ {x} : ~(talk'[y] # Silent /\ talk'[y].who = talk'[x].who)
      BY DEF Alone, ActsFor
    <2>1. x # q /\ talk'[x] = talk[x] /\ talk[x].who \notin overlapping /\ talk[x].who \in Talkers
      BY <1>1, <1>3 DEF TalkInv, TablesOK, TalkRow
    <2>2. talk[x].who # u
      BY <1>1, <2>1 DEF TalkInv, Alone, ActsFor, r, u
    <2> QED BY <1>3, <2>1, <2>2 DEF TalkInv, Alone, ActsFor
  <1>10. \A v \in Talkers \ overlapping : MarksGrow(v)
    <2> SUFFICES ASSUME NEW v \in Talkers \ overlapping PROVE MarksGrow(v)
      OBVIOUS
    <2>1. CASE v = u
      <3>1. marks[u].read <= r.at /\ marks[u].delivered <= r.at
        BY <1>1, <2>1 DEF TalkInv, Alone, r, u
      <3>2. u = r.who
        BY DEF r, u
      <3> QED BY <1>1, <1>3, <2>1, <3>1, <3>2, WriteGrows DEF MarksGrow
    <2>2. CASE v # u
      BY <1>1, <1>3, <2>2 DEF MarksGrow, MarkRow
    <2> QED BY <2>1, <2>2
  <1> QED BY <1>1, <1>4, <1>7, <1>8, <1>9, <1>10 DEF TalkInv, Advances

\* The list of chats writes the mark at once; who has a request under way overlaps.
LEMMA ListChatsKeeps ==
    ASSUME TalkInv, NEW u \in Talkers, ListChats(u)
    PROVE  TalkInv' /\ Advances
  <1>1. /\ now \in Nat /\ now' = now + 1 /\ UNCHANGED <<texts, talk>> /\ overlapping \subseteq overlapping'
        /\ marks[u] \in MarkRow
    BY DEF ListChats, Begin, Overlap, TalkInv, TablesOK
  <1>2. /\ marks'[u] = [marks[u] EXCEPT !.delivered = now + 1]
        /\ \A v \in Talkers \ {u} : marks'[v] = marks[v]
    BY DEF ListChats, TalkInv, TablesOK
  <1>3. /\ marks'[u] \in MarkRow /\ marks'[u].rows = marks[u].rows
        /\ marks'[u].read = marks[u].read /\ marks'[u].delivered = now + 1
    BY <1>1, <1>2 DEF MarkRow
  <1>4. TablesOK'
    <2>1. marks' \in [Talkers -> MarkRow]
      BY <1>2, <1>3 DEF ListChats, TalkInv, TablesOK
    <2>2. \A q \in TalkRequests : talk'[q] = Silent \/ talk'[q] \in TalkRow'
      BY <1>1, LaterRow DEF TalkInv, TablesOK
    <2> QED BY <1>1, <2>1, <2>2 DEF TalkInv, TablesOK, TextRow, MarkRow
  <1>5. \A v \in Talkers : marks[v] \in MarkRow /\ marks[v].read <= now /\ marks[v].delivered <= now
    BY DEF TalkInv, TablesOK, MarksPast
  <1>6. MarksPast'
    BY <1>1, <1>2, <1>3, <1>5 DEF MarksPast, MarkRow
  <1>7. Alone'
    <2> SUFFICES ASSUME NEW x \in TalkRequests, talk[x] # Silent, talk[x].who \notin overlapping'
                 PROVE  /\ marks'[talk[x].who].read <= talk[x].at
                        /\ marks'[talk[x].who].delivered <= talk[x].at
                        /\ \A y \in TalkRequests \ {x} : ~(talk[y] # Silent /\ talk[y].who = talk[x].who)
      BY <1>1 DEF Alone, ActsFor
    <2>1. talk[x].who # u
      BY DEF ListChats, Overlap, ActsFor
    <2>2. talk[x].who \in Talkers
      BY DEF TalkInv, TablesOK, TalkRow
    <2> QED BY <1>1, <1>2, <2>1, <2>2 DEF TalkInv, Alone, ActsFor
  <1>8. Advances
    <2>1. MarksGrow(u)
      BY <1>1, <1>3, <1>5 DEF MarksGrow, MarkRow
    <2>2. \A v \in Talkers \ {u} : MarksGrow(v)
      BY <1>2, <1>5 DEF MarksGrow, MarkRow
    <2> QED BY <1>1, <2>1, <2>2, SameTexts DEF Advances
  <1> QED BY <1>4, <1>6, <1>7, <1>8 DEF TalkInv

-----------------------------------------------------------------------------
(* Messages: sent by services, deleted, pinned and cleared *)

\* A message that is edited or removed keeps its sender and its time.
LEMMA TextStepKeeps ==
    ASSUME TalkInv,
           \/ \E u \in Talkers, m \in Texts : DeleteText(u, m) \/ PinText(u, m)
           \/ SystemText \/ Clear
    PROVE  TalkInv' /\ Advances
  <1>0. now \in Nat /\ now' \in {now, now + 1} /\ UNCHANGED <<marks, talk, overlapping>>
    BY DEF DeleteText, PinText, SystemText, Clear, Begin, TalkInv, TablesOK
  <1>1. ASSUME NEW u \in Talkers, NEW m \in Texts, DeleteText(u, m) PROVE TalkInv' /\ Advances
    <2>1. /\ texts[m] \in TextRow
          /\ texts'[m] = [texts[m] EXCEPT !.state = "archived"]
          /\ texts' = [texts EXCEPT ![m] = texts'[m]]
      BY <1>1 DEF DeleteText, Shown, TalkInv, TablesOK
    <2>2. texts'[m] \in TextRow /\ texts'[m].state # "shown"
      BY <2>1 DEF TextRow
    <2> QED BY <1>0, <2>1, <2>2, OneText, TextsKeep
  <1>2. ASSUME NEW u \in Talkers, NEW m \in Texts, PinText(u, m) PROVE TalkInv' /\ Advances
    <2>1. texts[m] \in TextRow /\ texts[m].pinned \in BOOLEAN
      BY <1>2 DEF PinText, Shown, TalkInv, TablesOK, TextRow
    <2>2. /\ texts'[m] = [texts[m] EXCEPT !.pinned = ~texts[m].pinned]
          /\ texts' = [texts EXCEPT ![m] = texts'[m]]
      BY <1>2 DEF PinText, TalkInv, TablesOK
    <2>3. texts'[m] \in TextRow /\ texts'[m].by = texts[m].by /\ texts'[m].at = texts[m].at
      BY <2>1, <2>2 DEF TextRow
    <2> QED BY <1>0, <2>2, <2>3, OneText, TextsKeep
  <1>3. CASE SystemText
    <2>1. PICK m \in Texts :
              /\ texts[m].state = "none"
              /\ texts' = [texts EXCEPT ![m] = [state |-> "shown", by |-> System, at |-> now + 1, pinned |-> FALSE]]
      BY <1>3 DEF SystemText
    <2>2. /\ texts'[m] = [state |-> "shown", by |-> System, at |-> now + 1, pinned |-> FALSE]
          /\ texts' = [texts EXCEPT ![m] = texts'[m]]
      BY <2>1 DEF TalkInv, TablesOK
    <2>3. texts'[m] \in TextRow
      BY <1>0, <2>2 DEF TextRow
    <2> QED BY <1>0, <2>1, <2>2, <2>3, OneText, TextsKeep
  <1>4. CASE Clear
    <2>1. \A m \in Texts : \/ texts'[m] = texts[m]
                           \/ /\ texts[m] \in TextRow
                              /\ texts'[m] = [texts[m] EXCEPT !.state = "cleared"]
      BY <1>4 DEF Clear, TalkInv, TablesOK
    <2>2. texts' = [m \in Texts |-> texts'[m]]
      BY <1>4 DEF Clear
    <2>3. ASSUME NEW m \in Texts
          PROVE  /\ texts'[m].state # "none" => texts'[m] \in TextRow
                 /\ SameText(m)
      <3>1. CASE texts'[m] = texts[m]
        BY <3>1 DEF TalkInv, TablesOK, SameText
      <3>2. CASE texts[m] \in TextRow /\ texts'[m] = [texts[m] EXCEPT !.state = "cleared"]
        BY <3>2 DEF TextRow, SameText
      <3> QED BY <2>1, <3>1, <3>2
    <2> QED BY <1>0, <2>2, <2>3, TextsKeep
  <1> QED BY <1>1, <1>2, <1>3, <1>4

\* Every step keeps the invariant and takes no tick back.
LEMMA TalkStep == TalkInv /\ [MessagesNext]_messageVars => TalkInv' /\ Advances
  <1> SUFFICES ASSUME TalkInv, [MessagesNext]_messageVars PROVE TalkInv' /\ Advances
    OBVIOUS
  <1>1. CASE UNCHANGED messageVars
    BY <1>1, SameTexts, TextsKeep DEF messageVars
  <1>2. ASSUME NEW q \in TalkRequests, NEW u \in Talkers,
               SendBegin(q, u) \/ \E kind \in Visits : VisitBegin(q, u, kind)
        PROVE  TalkInv' /\ Advances
    BY <1>2, SendBeginKeeps, VisitBeginKeeps
  <1> QED BY <1>1, <1>2, VisitEndKeeps, ListChatsKeeps, TextStepKeeps DEF MessagesNext

-----------------------------------------------------------------------------
(* Messages: one read mark for a person *)

\* Who never had two requests under way has one row at most, and what his request found is still
\* what there is; the message of a client asks for no row.
RowsFound ==
    /\ OneMarkEach
    /\ \A q \in TalkRequests : talk[q] # Silent /\ talk[q].who \notin overlapping =>
          talk[q].rows = marks[talk[q].who].rows \/ talk[q].rows = 1

ClockOK == now \in 0..MaxTalk /\ overlapping \subseteq Talkers

MessagesInv == TalkInv /\ RowsFound /\ ClockOK

\* At first nobody has a mark.
LEMMA MessagesStart == MessagesInit => MessagesInv
  <1> SUFFICES ASSUME MessagesInit PROVE MessagesInv
    OBVIOUS
  <1>1. RowsFound
    BY DEF MessagesInit, RowsFound, OneMarkEach
  <1>2. ClockOK
    BY MessagesAssumption DEF MessagesInit, ClockOK
  <1> QED BY <1>1, <1>2, InitHolds DEF MessagesInv

\* The invariant says what the properties do.
LEMMA MessagesAreOK == MessagesInv => MessagesTypeOK /\ OneMarkEach
  BY DEF MessagesInv, TalkInv, TablesOK, RowsFound, ClockOK, MessagesTypeOK

\* The clock stops at its bound, and who overlaps is one of the people.
LEMMA ClockStep == ASSUME MessagesInv, [MessagesNext]_messageVars PROVE ClockOK'
  <1>1. now \in 0..MaxTalk /\ MaxTalk \in Nat /\ overlapping \subseteq Talkers
    BY MessagesAssumption DEF MessagesInv, ClockOK
  <1>2. now' = now \/ Begin
    BY DEF MessagesNext, messageVars, SendBegin, VisitBegin, VisitEnd, ListChats, DeleteText, PinText, SystemText,
      Clear
  <1>3. overlapping' = overlapping \/ \E u \in Talkers : overlapping' = Overlap(u)
    BY DEF MessagesNext, messageVars, SendBegin, VisitBegin, VisitEnd, ListChats, DeleteText, PinText, SystemText,
      Clear
  <1>4. now' \in 0..MaxTalk
    BY <1>1, <1>2 DEF Begin
  <1>5. overlapping' \subseteq Talkers
    BY <1>1, <1>3 DEF Overlap
  <1> QED BY <1>4, <1>5 DEF ClockOK

\* A request that begins notes the rows it found.
LEMMA RowsBegin ==
    ASSUME MessagesInv, NEW q \in TalkRequests, NEW u \in Talkers, UNCHANGED marks, overlapping' = Overlap(u),
           talk' = [talk EXCEPT ![q] = talk'[q]], talk'[q].who = u, talk'[q].rows \in {marks[u].rows, 1}
    PROVE  RowsFound'
  <1>1. \A x \in TalkRequests \ {q} : talk'[x] = talk[x]
    BY DEF MessagesInv, TalkInv, TablesOK
  <1>2. overlapping \subseteq overlapping'
    BY DEF Overlap
  <1>3. OneMarkEach'
    BY <1>2 DEF MessagesInv, RowsFound, OneMarkEach
  <1>4. \A x \in TalkRequests : talk'[x] # Silent /\ talk'[x].who \notin overlapping' =>
            talk'[x].rows = marks[talk'[x].who].rows \/ talk'[x].rows = 1
    BY <1>1, <1>2 DEF MessagesInv, RowsFound
  <1> QED BY <1>3, <1>4 DEF RowsFound

\* A request that ends leaves one row, if it found what there is.
LEMMA RowsEnd == ASSUME MessagesInv, NEW q \in TalkRequests, VisitEnd(q) PROVE RowsFound'
  <1> DEFINE r == talk[q]
             u == talk[q].who
  <1>1. /\ r # Silent /\ r \in TalkRow /\ u \in Talkers /\ r.rows \in 0..2 /\ overlapping' = overlapping
        /\ marks' = [marks EXCEPT ![u] = WriteMark(r)] /\ talk' = [talk EXCEPT ![q] = Silent]
        /\ marks \in [Talkers -> MarkRow]
    BY DEF VisitEnd, MessagesInv, TalkInv, TablesOK, TalkRow
  <1>2. /\ marks'[u] = WriteMark(r) /\ \A v \in Talkers \ {u} : marks'[v] = marks[v]
        /\ talk'[q] = Silent /\ \A x \in TalkRequests \ {q} : talk'[x] = talk[x]
    BY <1>1 DEF MessagesInv, TalkInv, TablesOK
  <1>3. u \notin overlapping => WriteMark(r).rows < 2
    <2> SUFFICES ASSUME u \notin overlapping PROVE WriteMark(r).rows < 2
      OBVIOUS
    <2>1. marks[u].rows \in 0..2 /\ marks[u].rows < 2 /\ (r.rows = marks[u].rows \/ r.rows = 1)
             /\ marks[u] \in MarkRow
      BY <1>1 DEF MessagesInv, RowsFound, OneMarkEach, MarkRow
    <2>2. CASE r.rows = 1
      <3>1. Marked(r).rows = marks[u].rows
        BY <2>1 DEF Marked, MarkRow
      <3> QED BY <2>1, <2>2, <3>1 DEF WriteMark
    <2>3. CASE r.rows = marks[u].rows /\ r.rows # 1
      BY <2>1, <2>3 DEF WriteMark, Enrolled
    <2> QED BY <2>1, <2>2, <2>3
  <1>4. \A x \in TalkRequests \ {q} : talk[x] # Silent /\ talk[x].who \notin overlapping
              => talk[x].who # u /\ talk[x].who \in Talkers
    BY <1>1 DEF MessagesInv, TalkInv, Alone, ActsFor, TablesOK, TalkRow
  <1> HIDE DEF r, u
  <1>5. OneMarkEach'
    BY <1>1, <1>2, <1>3 DEF MessagesInv, RowsFound, OneMarkEach
  <1>6. \A x \in TalkRequests : talk'[x] # Silent /\ talk'[x].who \notin overlapping' =>
            talk'[x].rows = marks'[talk'[x].who].rows \/ talk'[x].rows = 1
    BY <1>1, <1>2, <1>4 DEF MessagesInv, RowsFound
  <1> QED BY <1>5, <1>6 DEF RowsFound

\* The list of chats adds no row.
LEMMA RowsListed == ASSUME MessagesInv, NEW u \in Talkers, ListChats(u) PROVE RowsFound'
  <1>1. /\ marks' = [marks EXCEPT ![u].delivered = now + 1] /\ overlapping' = Overlap(u) /\ talk' = talk
        /\ marks \in [Talkers -> MarkRow]
    BY DEF ListChats, MessagesInv, TalkInv, TablesOK
  <1>2. \A v \in Talkers : marks'[v].rows = marks[v].rows
    BY <1>1 DEF MarkRow
  <1>3. overlapping \subseteq overlapping'
    BY <1>1 DEF Overlap
  <1>4. \A x \in TalkRequests : talk[x] # Silent => talk[x].who \in Talkers
    BY DEF MessagesInv, TalkInv, TablesOK, TalkRow
  <1> QED BY <1>1, <1>2, <1>3, <1>4 DEF MessagesInv, RowsFound, OneMarkEach

\* Every step keeps one row for each.
LEMMA MessagesStep == MessagesInv /\ [MessagesNext]_messageVars => MessagesInv'
  <1> SUFFICES ASSUME MessagesInv, [MessagesNext]_messageVars PROVE MessagesInv'
    OBVIOUS
  <1>1. TalkInv' /\ ClockOK'
    BY TalkStep, ClockStep DEF MessagesInv
  <1>2. ASSUME UNCHANGED <<marks, talk, overlapping>> PROVE RowsFound'
    BY <1>2 DEF MessagesInv, RowsFound, OneMarkEach
  <1>3. ASSUME NEW q \in TalkRequests, NEW u \in Talkers, SendBegin(q, u) PROVE RowsFound'
    <2>1. PICK m \in Texts : talk' = [talk EXCEPT ![q] =
                [kind |-> "send", who |-> u, text |-> m, at |-> now + 1,
                 rows |-> IF u \in Managing THEN marks[u].rows ELSE 1, delivered |-> Never]]
      BY <1>3 DEF SendBegin
    <2>2. /\ talk'[q] = [kind |-> "send", who |-> u, text |-> m, at |-> now + 1,
                         rows |-> IF u \in Managing THEN marks[u].rows ELSE 1, delivered |-> Never]
          /\ talk' = [talk EXCEPT ![q] = talk'[q]]
      BY <2>1 DEF MessagesInv, TalkInv, TablesOK
    <2>3. talk'[q].who = u /\ talk'[q].rows \in {marks[u].rows, 1}
      BY <2>2
    <2> QED BY <1>3, <2>2, <2>3, RowsBegin DEF SendBegin
  <1>4. ASSUME NEW q \in TalkRequests, NEW u \in Talkers, NEW kind \in Visits, VisitBegin(q, u, kind) PROVE RowsFound'
    <2>1. /\ talk'[q] = [kind |-> kind, who |-> u, at |-> now + 1, rows |-> marks[u].rows,
                     delivered |-> marks[u].delivered]
          /\ talk' = [talk EXCEPT ![q] = talk'[q]]
      BY <1>4 DEF VisitBegin, MessagesInv, TalkInv, TablesOK
    <2>2. talk'[q].who = u /\ talk'[q].rows \in {marks[u].rows, 1}
      BY <2>1
    <2> QED BY <1>4, <2>1, <2>2, RowsBegin DEF VisitBegin
  <1>5. RowsFound'
    <2>1. CASE UNCHANGED messageVars
      BY <1>2, <2>1 DEF messageVars, MessagesInv
    <2>2. CASE \E u \in Talkers, m \in Texts : DeleteText(u, m) \/ PinText(u, m)
      BY <1>2, <2>2 DEF DeleteText, PinText, MessagesInv
    <2>3. CASE SystemText \/ Clear
      BY <1>2, <2>3 DEF SystemText, Clear, MessagesInv
    <2> QED BY <1>3, <1>4, <2>1, <2>2, <2>3, RowsEnd, RowsListed DEF MessagesNext
  <1> QED BY <1>1, <1>5 DEF MessagesInv

-----------------------------------------------------------------------------
(* Messages: the ticks *)

\* The tick beside a message never goes back, whatever the other people do, as long as
\* none of them has two requests under way at once.
THEOREM TicksAdvance == MessagesSpec => TicksOnlyAdvance
  <1> DEFINE Kept == \A m \in Texts :
                 (m \in Shown /\ m \in Shown' /\ Others(texts[m].by) \cap overlapping' = {})
                 => Tick(m)' >= Tick(m)
  <1>1. ASSUME TalkInv, [MessagesNext]_messageVars PROVE Kept
    <2> SUFFICES ASSUME NEW m \in Texts, m \in Shown, m \in Shown',
                        Others(texts[m].by) \cap overlapping' = {}
                 PROVE  Tick(m)' >= Tick(m)
      OBVIOUS
    <2>1. Advances
      BY <1>1, TalkStep
    <2>2. texts'[m].by = texts[m].by /\ texts'[m].at = texts[m].at
      BY <2>1 DEF Advances, SameText
    <2>3. \A v \in Others(texts[m].by) : v \in Talkers /\ MarksGrow(v)
      BY <2>1 DEF Advances, Others
    <2>4. texts[m].at \in Int /\ \A v \in Talkers : marks[v] \in MarkRow /\ marks'[v] \in MarkRow
      BY <1>1, TalkStep DEF TalkInv, TablesOK, Shown, TextRow, MarkRow
    <2>5. PeerRead(texts[m].by, texts[m].at) => PeerRead(texts[m].by, texts[m].at)'
      BY <2>2, <2>3, <2>4 DEF PeerRead, Others, MarksGrow, MarkRow
    <2>6. PeerDelivered(texts[m].by, texts[m].at) => PeerDelivered(texts[m].by, texts[m].at)'
      BY <2>2, <2>3, <2>4 DEF PeerDelivered, Others, MarksGrow, MarkRow
    <2> QED BY <2>5, <2>6 DEF Tick
  <1>2. TalkInv /\ [MessagesNext]_messageVars => [Kept]_messageVars
    BY <1>1
  <1>3. MessagesSpec => [][Kept]_messageVars
    BY InitHolds, TalkStep, <1>2, PTL DEF MessagesSpec
  <1> QED BY <1>3 DEF TicksOnlyAdvance

-----------------------------------------------------------------------------
(* Chats: the inductive invariant *)

LookedUp == {"client_manager", "client_accountant", "direct", "client_driver_order"}

\* The columns of a row are those of its kind.
ChatFits(chat) ==
    /\ chat.kind \in ClientKinds => chat.client \in ClientsOnly /\ chat.driver = Nobody /\ chat.order = Nobody
    /\ chat.kind = "client_driver_order" => chat.client \in ClientsOnly /\ chat.driver \in DriversOnly
    /\ chat.kind = "direct" => chat.client \in ChatUsers /\ chat.driver \in ChatUsers /\ chat.order = Nobody
    /\ chat.kind = "private_group" => chat.client = Nobody /\ chat.driver = Nobody /\ chat.order = Nobody
          /\ chat.owner \in ChatUsers
    /\ chat.kind # "staff_group"

NewChats == {chat \in ChatRow : ChatFits(chat) /\ chat.kind \in LookedUp /\ chat.members = {}}
QueueRow == [op: {"insert"}, chat: NewChats, at: {Nobody}] \cup [op: {"upload"}, chat: {BlankChat}, at: ConvIds]

ChatTypes ==
    /\ ChatsTypeOK
    /\ chatQueue \in [ChatRequests -> QueueRow \cup {Idle}]
    /\ \A c \in ConvIds : ChatFits(chats[c])

\* A row about to be inserted has a key of its own, unless the key is one that was crossed; and
\* it is of no deleted order then.
QueuedKey(q) == KeyOf(chatQueue[q].chat)
KeysQueued ==
    \A q \in ChatRequests : chatQueue[q].op = "insert" /\ QueuedKey(q) \notin crossed =>
        /\ FoundFor(chatQueue[q].chat) = {}
        /\ \A r \in ChatRequests : chatQueue[r].op = "insert" /\ QueuedKey(r) = QueuedKey(q) => r = q
        /\ chatQueue[q].chat.order \notin goneOrders

OrderRowsGone == \A c \in ConvIds : Exists(c) /\ chats[c].order \in goneOrders => KeyOf(chats[c]) \in crossed

KeysPart == KeysQueued /\ OneChatPer /\ OrderRowsGone

\* A directory that is removed with its order belongs to a chat that is gone, and what is being
\* uploaded to it is known to be late.
FilesPart ==
    /\ \A c \in sweeping \cup swept : chats[c].kind = "gone"
    /\ \A q \in ChatRequests : chatQueue[q].op = "upload" /\ chatQueue[q].at \in sweeping \cup swept
             => chatQueue[q].at \in lateFiles
    /\ swept \cap chatFiles \subseteq lateFiles

\* Who entered a chat may read it, or lost it to another driver; so does who has it open. Who was
\* expelled from a group is not in it.
MayRead(c, u) == CheckAccess(chats[c], u) \/ <<c, u>> \in replaced
PeoplePart ==
    /\ \A c \in ConvIds : Exists(c) => \A u \in chats[c].members : MayRead(c, u)
    /\ \A x \in screens : Exists(x[1]) /\ (chats[x[1]].kind # "private_group" => MayRead(x[1], x[2]))
    /\ \A x \in expelled : chats[x[1]].kind \in {"private_group", "gone"}
    /\ \A x \in expelled \ lingered : chats[x[1]].kind = "private_group" /\ ChatRole[x[2]] # "admin"
             => x[2] \notin chats[x[1]].members

ChatsInv == ChatTypes /\ KeysPart /\ FilesPart /\ PeoplePart

\* The rows that are blank or gone, and the places in the queue.
LEMMA ChatRowsAre ==
    /\ BlankChat \in ChatRow /\ BlankChat.kind = "unused" /\ Idle.op = "none"
    /\ [BlankChat EXCEPT !.kind = "gone"] \in ChatRow /\ [BlankChat EXCEPT !.kind = "gone"].kind = "gone"
    /\ ChatFits(BlankChat) /\ ChatFits([BlankChat EXCEPT !.kind = "gone"])
    /\ \A r \in QueueRow : r # Idle /\ r.op \in {"insert", "upload"}
    /\ \A r \in QueueRow : r.op = "insert" => r.chat \in NewChats
    /\ \A r \in QueueRow : r.op = "upload" => r.at \in ConvIds
    /\ "unused" \notin Kinds /\ "gone" \notin Kinds
  BY DEF BlankChat, ChatRow, Idle, ChatFits, QueueRow, Kinds, ClientKinds

\* At first there are no chats.
LEMMA ChatsStart == ChatsInit => ChatsInv
  <1> SUFFICES ASSUME ChatsInit PROVE ChatsInv
    OBVIOUS
  <1>1. /\ \A c \in ConvIds : chats[c] = BlankChat /\ ~Exists(c)
        /\ \A q \in ChatRequests : chatQueue[q].op = "none"
    BY ChatRowsAre DEF ChatsInit, Exists
  <1>2. ChatTypes
    <2>1. chats \in [ConvIds -> ChatRow] /\ chatQueue \in [ChatRequests -> QueueRow \cup {Idle}]
             /\ chatCalls \in 0..MaxChatCalls
      BY ChatRowsAre, ChatAssumption DEF ChatsInit
    <2>2. ChatsTypeOK
      BY <1>1, <2>1 DEF ChatsInit, ChatsTypeOK
    <2> QED BY <1>1, <2>1, <2>2, ChatRowsAre DEF ChatTypes
  <1>3. KeysPart
    BY <1>1 DEF KeysPart, KeysQueued, OneChatPer, OrderRowsGone
  <1>4. FilesPart /\ PeoplePart
    BY <1>1 DEF ChatsInit, FilesPart, PeoplePart
  <1> QED BY <1>2, <1>3, <1>4 DEF ChatsInv

-----------------------------------------------------------------------------
(* Chats: who may read *)

\* The sides of a chat may read it.
LEMMA SidesMayRead ==
    ASSUME NEW chat \in ChatRow, ChatFits(chat), chat.kind \in Kinds
    PROVE  /\ chat.client # Nobody => CheckAccess(chat, chat.client)
           /\ chat.driver # Nobody => CheckAccess(chat, chat.driver)
  BY DEF ChatFits, CheckAccess, Kinds, ClientKinds

\* Membership lets into private groups only, and does.
LEMMA MembersAccess ==
    ASSUME NEW a \in ChatRow, NEW b \in ChatRow, b.kind = a.kind, b.client = a.client, b.driver = a.driver,
           b.group = a.group, NEW u
    PROVE  /\ a.kind # "private_group" => (CheckAccess(b, u) <=> CheckAccess(a, u))
           /\ a.kind = "private_group" => (CheckAccess(b, u) <=> ChatRole[u] = "admin" \/ u \in b.members)
  BY DEF CheckAccess, ClientKinds

\* The lists show what the check lets in.
LEMMA VisibleIsAccess ==
    ASSUME NEW chat \in ChatRow, ChatFits(chat) \/ \E g \in {"work", "accounting"} : chat = StaffGroup(g),
           chat.kind \in Kinds, NEW u \in ChatUsers
    PROVE  CheckAccess(chat, u) <=> Visible(chat, u)
  <1>1. ChatRole[u] \in Roles /\ u # Nobody
    BY ChatAssumption
  <1>2. CASE ChatFits(chat) /\ chat.kind \in ClientKinds
    BY <1>1, <1>2 DEF ChatFits, CheckAccess, Visible, VisibleByRole, ClientKinds, ManagerRoles, ClientsOnly, Roles
  <1>3. CASE ChatFits(chat) /\ chat.kind = "client_driver_order"
    BY <1>1, <1>3 DEF ChatFits, CheckAccess, Visible, VisibleByRole, ClientKinds, ManagerRoles, ClientsOnly,
      DriversOnly, Roles
  <1>4. CASE ChatFits(chat) /\ chat.kind \in {"direct", "private_group"}
    BY <1>1, <1>4 DEF ChatFits, CheckAccess, Visible, VisibleByRole, ClientKinds, ManagerRoles, Roles
  <1>5. CASE \E g \in {"work", "accounting"} : chat = StaffGroup(g)
    <2>1. chat.kind = "staff_group" /\ chat.group \in {"work", "accounting"}
      BY <1>5 DEF StaffGroup, BlankChat
    <2> QED BY <1>1, <2>1 DEF CheckAccess, Visible, VisibleByRole, ClientKinds, ManagerRoles, Roles, StaffGroupAccess
  <1> QED BY <1>2, <1>3, <1>4, <1>5 DEF ChatFits, Kinds

\* The invariant says what the property does.
LEMMA ChatsAreOK == ChatsInv => ChatsTypeOK /\ ChatsOK
  <1> SUFFICES ASSUME ChatsInv PROVE ChatsTypeOK /\ ChatsOK
    OBVIOUS
  <1>1. ChatsTypeOK
    BY DEF ChatsInv, ChatTypes
  <1>2. chats \in [ConvIds -> ChatRow] /\ staffGroups \subseteq {"work", "accounting"}
           /\ \A c \in ConvIds : ChatFits(chats[c])
    BY DEF ChatsInv, ChatTypes, ChatsTypeOK
  <1>3. AccessAgrees
    <2> SUFFICES ASSUME NEW chat \in Conversations, NEW u \in ChatUsers
                 PROVE  CheckAccess(chat, u) <=> Visible(chat, u)
      BY DEF AccessAgrees, ListOf
    <2>1. CASE \E c \in ConvIds : chat = chats[c] /\ Exists(c)
      <3>1. chat \in ChatRow /\ ChatFits(chat) /\ chat.kind \in Kinds
        BY <1>2, <2>1 DEF Exists
      <3> QED BY <3>1, VisibleIsAccess
    <2>2. CASE \E g \in {"work", "accounting"} : chat = StaffGroup(g)
      <3>1. chat \in ChatRow /\ chat.kind \in Kinds
        BY <2>2 DEF StaffGroup, BlankChat, ChatRow, Kinds
      <3> QED BY <2>2, <3>1, VisibleIsAccess
    <2> QED BY <1>2, <2>1, <2>2 DEF Conversations
  <1>4. RemovedIsOut
    <2> SUFFICES ASSUME NEW x \in expelled \ lingered, Exists(x[1]), ChatRole[x[2]] # "admin"
                 PROVE  ~CheckAccess(chats[x[1]], x[2])
      BY DEF RemovedIsOut
    <2>1. x[1] \in ConvIds /\ chats[x[1]] \in ChatRow /\ chats[x[1]].kind = "private_group"
             /\ x[2] \notin chats[x[1]].members
      BY <1>2, ChatRowsAre DEF ChatsInv, ChatTypes, ChatsTypeOK, PeoplePart, Exists
    <2> QED BY <2>1, MembersAccess
  <1>5. ToldHaveAccess
    <2> SUFFICES ASSUME NEW c \in ConvIds, NEW u \in ChatUsers, Exists(c), u \in RecipientsOf(c) PROVE MayRead(c, u)
      BY DEF ToldHaveAccess, MayRead
    <2>1. u \in chats[c].members \/ u = chats[c].client \/ u = chats[c].driver
      BY DEF RecipientsOf
    <2>2. u # Nobody
      BY ChatAssumption
    <2> QED BY <1>2, <2>1, <2>2, SidesMayRead DEF MayRead, Exists, ChatsInv, PeoplePart
  <1>6. OneChatPer /\ OrderChatGone
    BY DEF ChatsInv, KeysPart, OrderRowsGone, FilesPart, OrderChatGone
  <1> QED BY <1>1, <1>3, <1>4, <1>5, <1>6 DEF ChatsOK

-----------------------------------------------------------------------------
(* Chats: what a step leaves alone *)

\* A look-up finds no more than before, when no row comes and none changes its key.
SameKeys ==
    \A c \in ConvIds : Exists(c)' => /\ Exists(c) /\ KeyOf(chats'[c]) = KeyOf(chats[c])
                                     /\ chats'[c].kind = chats[c].kind /\ chats'[c].order = chats[c].order

\* A key has its chat to itself after a step that brings no row and no request about to insert one.
LEMMA KeysStay ==
    ASSUME ChatsInv, SameKeys, \A q \in ChatRequests : chatQueue'[q].op = "insert" => chatQueue'[q] = chatQueue[q],
           crossed' = crossed, goneOrders' = goneOrders
    PROVE  KeysPart'
  <1>1. KeysQueued'
    <2> SUFFICES ASSUME NEW q \in ChatRequests, chatQueue'[q].op = "insert", KeyOf(chatQueue'[q].chat) \notin crossed
                 PROVE  /\ \A c \in ConvIds : Exists(c)' => KeyOf(chats'[c]) # KeyOf(chatQueue'[q].chat)
                        /\ \A r \in ChatRequests : chatQueue'[r].op = "insert"
                              /\ KeyOf(chatQueue'[r].chat) = KeyOf(chatQueue'[q].chat) => r = q
                        /\ chatQueue'[q].chat.order \notin goneOrders
      BY DEF KeysQueued, QueuedKey, FoundFor, KeyOf, Exists
    <2>1. chatQueue'[q] = chatQueue[q]
      OBVIOUS
    <2>2. /\ \A c \in ConvIds : Exists(c) => KeyOf(chats[c]) # KeyOf(chatQueue[q].chat)
          /\ \A r \in ChatRequests : chatQueue[r].op = "insert"
                /\ KeyOf(chatQueue[r].chat) = KeyOf(chatQueue[q].chat) => r = q
          /\ chatQueue[q].chat.order \notin goneOrders
      BY <2>1 DEF ChatsInv, KeysPart, KeysQueued, QueuedKey, FoundFor
    <2> QED BY <2>1, <2>2 DEF SameKeys
  <1>2. OneChatPer'
    <2> SUFFICES ASSUME NEW a \in ConvIds, NEW b \in ConvIds, a # b, Exists(a)', Exists(b)',
                        KeyOf(chats'[a]) = KeyOf(chats'[b]), chats'[a].kind # "private_group"
                 PROVE  KeyOf(chats'[a]) \in crossed /\ chats'[a].kind \notin UniqueKinds
      BY DEF OneChatPer, KeyOf
    <2> QED BY DEF ChatsInv, KeysPart, OneChatPer, SameKeys
  <1>3. OrderRowsGone'
    <2> SUFFICES ASSUME NEW a \in ConvIds, Exists(a)', chats'[a].order \in goneOrders
                 PROVE  KeyOf(chats'[a]) \in crossed
      BY DEF OrderRowsGone, KeyOf
    <2> QED BY DEF ChatsInv, KeysPart, OrderRowsGone, SameKeys
  <1> QED BY <1>1, <1>2, <1>3 DEF KeysPart

\* Nothing comes back to a directory, when no file comes and a chat that is gone stays so.
LEMMA FilesStay ==
    ASSUME ChatsInv, \A c \in ConvIds : chats[c].kind = "gone" => chats'[c].kind = "gone",
           \A q \in ChatRequests : chatQueue'[q].op = "upload"
                 => chatQueue'[q] = chatQueue[q] \/ Exists(chatQueue'[q].at),
           chatFiles' = chatFiles, sweeping' \subseteq sweeping, swept' = swept, lateFiles' = lateFiles
    PROVE  FilesPart'
  <1>1. \A c \in sweeping \cup swept : c \in ConvIds /\ ~Exists(c) /\ chats[c].kind = "gone"
    BY ChatRowsAre DEF ChatsInv, ChatTypes, ChatsTypeOK, FilesPart, Exists
  <1> QED BY <1>1 DEF ChatsInv, FilesPart

\* Who has entered stays as entitled, when no row changes.
LEMMA PeopleStay ==
    ASSUME ChatsInv, chats' = chats, screens' \subseteq screens, UNCHANGED <<expelled, lingered, replaced>>
    PROVE  PeoplePart'
  BY DEF ChatsInv, PeoplePart, MayRead, CheckAccess, Exists

\* A row loses or gains members.
LEMMA MembersMove ==
    ASSUME ChatsInv, NEW c \in ConvIds, NEW people \in SUBSET ChatUsers, chats' = [chats EXCEPT ![c].members = people]
    PROVE  /\ chats' \in [ConvIds -> ChatRow] /\ (\A d \in ConvIds : ChatFits(chats'[d])) /\ SameKeys
           /\ chats'[c].members = people /\ \A d \in ConvIds \ {c} : chats'[d] = chats[d]
           /\ \A d \in ConvIds : /\ Exists(d)' <=> Exists(d)
                                 /\ chats'[d].kind = chats[d].kind /\ chats'[d].client = chats[d].client
                                 /\ chats'[d].driver = chats[d].driver /\ chats'[d].group = chats[d].group
  <1>1. /\ chats'[c].owner = chats[c].owner
        /\ chats' \in [ConvIds -> ChatRow] /\ chats'[c].members = people
        /\ \A d \in ConvIds \ {c} : chats'[d] = chats[d]
        /\ chats'[c].kind = chats[c].kind /\ chats'[c].client = chats[c].client /\ chats'[c].driver = chats[c].driver
        /\ chats'[c].group = chats[c].group /\ chats'[c].order = chats[c].order
    BY DEF ChatsInv, ChatTypes, ChatsTypeOK, ChatRow
  <1>2. \A d \in ConvIds : /\ chats'[d].kind = chats[d].kind /\ chats'[d].client = chats[d].client
                           /\ chats'[d].driver = chats[d].driver
                           /\ chats'[d].group = chats[d].group /\ chats'[d].order = chats[d].order
                           /\ chats'[d].owner = chats[d].owner
    BY <1>1
  <1>3. \A d \in ConvIds : ChatFits(chats[d])
    BY DEF ChatsInv, ChatTypes
  <1>4. \A d \in ConvIds : ChatFits(chats'[d])
    BY <1>2, <1>3 DEF ChatFits
  <1>5. \A d \in ConvIds : (Exists(d)' <=> Exists(d)) /\ KeyOf(chats'[d]) = KeyOf(chats[d])
    BY <1>2 DEF Exists, KeyOf
  <1> QED BY <1>1, <1>2, <1>4, <1>5 DEF SameKeys

\* The rest of the types.
OtherTypes ==
    /\ staffGroups' \subseteq {"work", "accounting"} /\ chatQueue' \in [ChatRequests -> QueueRow \cup {Idle}]
    /\ chatFiles' \cup sweeping' \cup swept' \cup lateFiles' \subseteq ConvIds /\ goneOrders' \subseteq ChatOrders
    /\ screens' \cup expelled' \cup lingered' \cup replaced' \subseteq ConvIds \X ChatUsers
    /\ chatCalls' \in 0..MaxChatCalls

\* The types hold after a step whose rows fit and whose other columns do.
LEMMA TypesStay ==
    ASSUME chats' \in [ConvIds -> ChatRow], \A d \in ConvIds : ChatFits(chats'[d]), OtherTypes
    PROVE  ChatTypes'
  <1>1. \A q \in ChatRequests : chatQueue'[q].op \in {"none", "insert", "upload"}
    BY ChatRowsAre DEF OtherTypes
  <1>2. ChatsTypeOK'
    BY <1>1 DEF OtherTypes, ChatsTypeOK
  <1>3. \A d \in ConvIds : ChatFits(chats[d])'
    BY DEF ChatFits
  <1> QED BY <1>2, <1>3 DEF ChatTypes, OtherTypes

\* The types that hold now.
LEMMA TypesNow ==
    ASSUME ChatsInv
    PROVE  /\ chats \in [ConvIds -> ChatRow] /\ \A d \in ConvIds : ChatFits(chats[d])
           /\ staffGroups \subseteq {"work", "accounting"} /\ chatQueue \in [ChatRequests -> QueueRow \cup {Idle}]
           /\ chatFiles \cup sweeping \cup swept \cup lateFiles \subseteq ConvIds /\ goneOrders \subseteq ChatOrders
           /\ screens \cup expelled \cup lingered \cup replaced \subseteq ConvIds \X ChatUsers
           /\ chatCalls \in 0..MaxChatCalls
           /\ ChatCall => chatCalls' \in 0..MaxChatCalls
  <1>1. chatCalls \in 0..MaxChatCalls
    BY DEF ChatsInv, ChatTypes, ChatsTypeOK
  <1>2. ChatCall => chatCalls' \in 0..MaxChatCalls
    BY <1>1, ChatAssumption DEF ChatCall
  <1> QED BY <1>1, <1>2 DEF ChatsInv, ChatTypes, ChatsTypeOK

-----------------------------------------------------------------------------
(* Chats: members come and go *)

\* The people of a group are changed: who is expelled is not among them.
LEMMA ComposeStays ==
    ASSUME ChatsInv, NEW c \in ConvIds, NEW people \in SUBSET ChatUsers, chats[c].kind = "private_group", ChatCall,
           Compose(c, people)
    PROVE  ChatsInv'
  <1>1. /\ chats' = [chats EXCEPT ![c].members = people]
        /\ expelled' = (expelled \ {<<c, u>> : u \in people}) \cup {<<c, u>> : u \in chats[c].members \ people}
        /\ lingered' = lingered \ {<<c, u>> : u \in people}
        /\ UNCHANGED <<staffGroups, chatQueue, chatFiles, goneOrders, sweeping, swept, screens, replaced, crossed,
                       lateFiles>>
    BY DEF Compose
  <1>2. /\ chats' \in [ConvIds -> ChatRow] /\ (\A d \in ConvIds : ChatFits(chats'[d])) /\ SameKeys
        /\ chats'[c].members = people /\ \A d \in ConvIds \ {c} : chats'[d] = chats[d]
        /\ \A d \in ConvIds : /\ Exists(d)' <=> Exists(d)
                              /\ chats'[d].kind = chats[d].kind /\ chats'[d].client = chats[d].client
                              /\ chats'[d].driver = chats[d].driver /\ chats'[d].group = chats[d].group
    BY <1>1, MembersMove
  <1>3. chats[c].members \subseteq ChatUsers
    BY TypesNow DEF ChatRow
  <1>4. ChatTypes'
    <2>1. expelled' \cup lingered' \subseteq ConvIds \X ChatUsers
      BY <1>1, <1>3, TypesNow
    <2>2. OtherTypes
      BY <1>1, <2>1, TypesNow DEF OtherTypes
    <2> QED BY <1>2, <2>2, TypesStay
  <1>5. KeysPart'
    BY <1>1, <1>2, KeysStay
  <1>6. FilesPart'
    BY <1>1, <1>2, FilesStay
  <1>7. \A d \in ConvIds : \A u : chats[d].kind # "private_group" => MayRead(d, u) = MayRead(d, u)'
    BY <1>1, <1>2, TypesNow DEF MayRead, CheckAccess
  <1>8. \A u \in people : MayRead(c, u)'
    BY <1>2 DEF MayRead, CheckAccess
  <1>9. PeoplePart'
    <2>1. \A d \in ConvIds : Exists(d)' => \A u \in chats'[d].members : MayRead(d, u)'
      <3> SUFFICES ASSUME NEW d \in ConvIds, d # c, Exists(d), NEW u \in chats[d].members PROVE MayRead(d, u)'
        BY <1>2, <1>8
      <3>1. chats'[d] = chats[d]
        BY <1>2
      <3>2. MayRead(d, u)
        BY DEF ChatsInv, PeoplePart
      <3> QED BY <1>1, <3>1, <3>2 DEF MayRead, CheckAccess
    <2>2. \A x \in screens : x[1] \in ConvIds
      BY TypesNow
    <2>3. \A x \in screens' : Exists(x[1])' /\ (chats'[x[1]].kind # "private_group" => MayRead(x[1], x[2])')
      BY <1>1, <1>2, <1>7, <2>2 DEF ChatsInv, PeoplePart
    <2>4. \A x \in expelled' : x[1] \in ConvIds /\ chats'[x[1]].kind \in {"private_group", "gone"}
      BY <1>1, <1>2, TypesNow DEF ChatsInv, PeoplePart
    <2>5. ASSUME NEW x \in expelled' \ lingered', chats'[x[1]].kind = "private_group", ChatRole[x[2]] # "admin"
          PROVE  x[2] \notin chats'[x[1]].members
      <3>1. x = <<x[1], x[2]>> /\ x[1] \in ConvIds
        BY <1>1, <1>3, TypesNow
      <3>2. CASE x[1] = c
        BY <1>1, <1>2, <3>1, <3>2
      <3>3. CASE x[1] # c
        <4>1. x \in expelled \ lingered /\ chats'[x[1]] = chats[x[1]]
          BY <1>1, <1>2, <3>1, <3>3
        <4> QED BY <2>5, <4>1 DEF ChatsInv, PeoplePart
      <3> QED BY <3>2, <3>3
    <2> QED BY <2>1, <2>3, <2>4, <2>5 DEF PeoplePart
  <1> QED BY <1>4, <1>5, <1>6, <1>9 DEF ChatsInv

\* A group is given other people: by its members of the staff, or by who manages it.
LEMMA GroupKeeps ==
    ASSUME ChatsInv, SetMembers \/ AddMember \/ RemoveMember
    PROVE  ChatsInv'
  <1>1. PICK c \in ConvIds, people \in SUBSET ChatUsers : chats[c].kind = "private_group" /\ ChatCall
           /\ Compose(c, people)
    <2>1. \A c \in ConvIds : chats[c].members \subseteq ChatUsers
             /\ (chats[c].kind = "private_group" => chats[c].owner \in ChatUsers)
      BY TypesNow DEF ChatRow, ChatFits
    <2>2. CASE AddMember
      BY <2>1, <2>2 DEF AddMember, ManagesGroup
    <2>3. CASE RemoveMember
      BY <2>1, <2>3 DEF RemoveMember, ManagesGroup
    <2>4. CASE SetMembers
      <3>1. PICK u \in ChatUsers, c \in ConvIds, team \in Teams :
               chats[c].kind = "private_group" /\ ChatCall /\ Compose(c, team \cup {u, chats[c].owner})
        BY <2>4 DEF SetMembers
      <3>2. team \cup {u, chats[c].owner} \in SUBSET ChatUsers
        BY <2>1, <3>1, ChatAssumption
      <3> QED BY <3>1, <3>2
    <2> QED BY <2>2, <2>3, <2>4
  <1> QED BY <1>1, ComposeStays

\* Someone who may read a chat, or has it open, becomes one of its participants.
Joins(c, u) ==
    /\ chats' = [chats EXCEPT ![c].members = chats[c].members \cup {u}]
    /\ screens' \subseteq screens \cup {<<c, u>>} /\ expelled' = expelled /\ replaced' = replaced
    /\ lingered \subseteq lingered' /\ lingered' \subseteq lingered \cup {<<c, u>>}
    /\ UNCHANGED <<staffGroups, chatQueue, chatFiles, goneOrders, sweeping, swept, crossed, lateFiles>>

\* Who becomes a participant may read, or was counted as lingering.
LEMMA JoinsKeeps ==
    ASSUME ChatsInv, NEW c \in ConvIds, NEW u \in ChatUsers, ChatCall, Joins(c, u), Exists(c),
           chats[c].kind # "private_group" => MayRead(c, u),
           <<c, u>> \in expelled /\ ChatRole[u] # "admin" => <<c, u>> \in lingered'
    PROVE  ChatsInv'
  <1>1. /\ chats' \in [ConvIds -> ChatRow] /\ (\A d \in ConvIds : ChatFits(chats'[d])) /\ SameKeys
        /\ chats'[c].members = chats[c].members \cup {u} /\ \A d \in ConvIds \ {c} : chats'[d] = chats[d]
        /\ \A d \in ConvIds : /\ Exists(d)' <=> Exists(d)
                              /\ chats'[d].kind = chats[d].kind /\ chats'[d].client = chats[d].client
                              /\ chats'[d].driver = chats[d].driver /\ chats'[d].group = chats[d].group
    <2>1. chats[c].members \cup {u} \in SUBSET ChatUsers
      BY TypesNow DEF ChatRow
    <2> QED BY <2>1, MembersMove DEF Joins
  <1>2. ChatTypes'
    <2>1. OtherTypes
      BY TypesNow DEF OtherTypes, Joins
    <2> QED BY <1>1, <2>1, TypesStay
  <1>3. KeysPart'
    BY <1>1, KeysStay DEF Joins
  <1>4. FilesPart'
    BY <1>1, FilesStay DEF Joins
  <1>5. \A d \in ConvIds : \A v : MayRead(d, v) => MayRead(d, v)'
    BY <1>1, TypesNow DEF MayRead, CheckAccess, Joins
  <1>6. chats[c].kind = "private_group" => MayRead(c, u)'
    BY <1>1 DEF MayRead, CheckAccess
  <1>7. PeoplePart'
    <2>1. \A d \in ConvIds : Exists(d)' => \A v \in chats'[d].members : MayRead(d, v)'
      <3> SUFFICES ASSUME NEW d \in ConvIds, Exists(d), NEW v \in chats'[d].members PROVE MayRead(d, v)'
        BY <1>1
      <3>1. (d = c /\ v = u) \/ v \in chats[d].members
        BY <1>1
      <3>2. v \in chats[d].members => MayRead(d, v)
        BY DEF ChatsInv, PeoplePart
      <3> QED BY <1>5, <1>6, <3>1, <3>2
    <2>2. ASSUME NEW x \in screens'
          PROVE  Exists(x[1])' /\ (chats'[x[1]].kind # "private_group" => MayRead(x[1], x[2])')
      <3>1. CASE x = <<c, u>>
        <4>1. x[1] = c /\ x[2] = u
          BY <3>1
        <4> QED BY <1>1, <1>5, <4>1
      <3>2. CASE x \in screens
        <4>1. x[1] \in ConvIds /\ Exists(x[1]) /\ (chats[x[1]].kind # "private_group" => MayRead(x[1], x[2]))
          BY <3>2, TypesNow DEF ChatsInv, PeoplePart
        <4>2. MayRead(x[1], x[2]) => MayRead(x[1], x[2])'
          BY <1>5, <4>1
        <4> QED BY <1>1, <4>1, <4>2
      <3> QED BY <3>1, <3>2 DEF Joins
    <2>3. \A x \in expelled' : x[1] \in ConvIds /\ chats'[x[1]].kind \in {"private_group", "gone"}
      BY <1>1, TypesNow DEF ChatsInv, PeoplePart, Joins
    <2>4. ASSUME NEW x \in expelled' \ lingered', chats'[x[1]].kind = "private_group", ChatRole[x[2]] # "admin"
          PROVE  x[2] \notin chats'[x[1]].members
      <3>1. x \in expelled \ lingered /\ x[1] \in ConvIds /\ x = <<x[1], x[2]>>
        BY TypesNow DEF Joins
      <3>2. x[2] \notin chats[x[1]].members
        BY <1>1, <2>4, <3>1 DEF ChatsInv, PeoplePart
      <3>3. ~(x[1] = c /\ x[2] = u)
        BY <2>4, <3>1
      <3> QED BY <1>1, <3>1, <3>2, <3>3
    <2> QED BY <2>1, <2>2, <2>3, <2>4 DEF PeoplePart
  <1> QED BY <1>2, <1>3, <1>4, <1>7 DEF ChatsInv

\* A chat is entered, or written to, by who passes the check.
LEMMA EnterKeeps ==
    ASSUME ChatsInv, NEW u \in ChatUsers, NEW c \in ConvIds, Enter(u, c) \/ Say(u, c)
    PROVE  ChatsInv'
  <1>1. /\ CheckAccess(chats[c], u) /\ ChatCall
        /\ chats' = [chats EXCEPT ![c].members = @ \cup {u}] /\ screens' \subseteq screens \cup {<<c, u>>}
        /\ UNCHANGED <<staffGroups, chatQueue, chatFiles, goneOrders, sweeping, swept, ghostsOfChats>>
    BY DEF Enter, Say
  <1>2. Joins(c, u)
    BY <1>1 DEF Joins, ghostsOfChats
  <1>3. Exists(c) /\ MayRead(c, u)
    BY <1>1 DEF CheckAccess, Exists, Kinds, ClientKinds, MayRead
  <1>4. <<c, u>> \in expelled /\ ChatRole[u] # "admin" => <<c, u>> \in lingered'
    <2> SUFFICES ASSUME <<c, u>> \in expelled, ChatRole[u] # "admin" PROVE <<c, u>> \in lingered
      BY <1>1 DEF ghostsOfChats
    <2>1. chats[c].kind \in {"private_group", "gone"}
      BY DEF ChatsInv, PeoplePart
    <2>2. chats[c].kind = "private_group" /\ u \in chats[c].members
      BY <1>1, <2>1 DEF CheckAccess, ClientKinds
    <2> QED BY <2>2 DEF ChatsInv, PeoplePart
  <1> QED BY <1>1, <1>2, <1>3, <1>4, JoinsKeeps

\* A chat that is open is marked as read without the check: who was expelled lingers.
LEMMA MarkReadKeeps == ASSUME ChatsInv, NEW u \in ChatUsers, NEW c \in ConvIds, MarkRead(u, c) PROVE ChatsInv'
  <1>1. /\ Exists(c) /\ <<c, u>> \in screens /\ ChatCall
        /\ chats' = [chats EXCEPT ![c].members = @ \cup {u}]
        /\ lingered' = IF <<c, u>> \in expelled THEN lingered \cup {<<c, u>>} ELSE lingered
        /\ UNCHANGED <<staffGroups, chatQueue, chatFiles, goneOrders, sweeping, swept, screens, expelled, replaced,
                       crossed, lateFiles>>
    BY DEF MarkRead
  <1>2. Joins(c, u)
    BY <1>1 DEF Joins
  <1>3. chats[c].kind # "private_group" => MayRead(c, u)
    <2>1. <<c, u>>[1] = c /\ <<c, u>>[2] = u
      OBVIOUS
    <2> QED BY <1>1, <2>1 DEF ChatsInv, PeoplePart
  <1> QED BY <1>1, <1>2, <1>3, JoinsKeeps

-----------------------------------------------------------------------------
(* Chats: rows come *)

\* What is made by the look-ups.
LEMMA NewChatsAre ==
    /\ \A u \in ClientsOnly : ClientChat("client_manager", u) \in NewChats
          /\ ClientChat("client_accountant", u) \in NewChats
    /\ \A p \in Pairs : DirectChat(p[1], p[2]) \in NewChats
    /\ \A o \in ChatOrders, u \in ClientsOnly, d \in DriversOnly : OrderChat(o, u, d) \in NewChats
    /\ \A u \in ClientsOnly : /\ ClientChat("client_manager", u).order = Nobody
                              /\ ClientChat("client_accountant", u).order = Nobody
    /\ \A p \in Pairs : DirectChat(p[1], p[2]).order = Nobody
    /\ \A o \in ChatOrders : \A u, d : OrderChat(o, u, d).order = o
  <1>1. \A u \in ClientsOnly : ClientChat("client_manager", u) \in NewChats
           /\ ClientChat("client_accountant", u) \in NewChats
    BY DEF ClientsOnly, ClientChat, BlankChat, NewChats, ChatRow, ChatFits, LookedUp, ClientKinds, Kinds
  <1>2. \A p \in Pairs : DirectChat(p[1], p[2]) \in NewChats
    <2>1. \A p \in Pairs : p[1] \in ChatUsers /\ p[2] \in ChatUsers
      BY ChatAssumption
    <2> QED BY <2>1 DEF DirectChat, BlankChat, NewChats, ChatRow, ChatFits, LookedUp, ClientKinds, Kinds
  <1>3. \A o \in ChatOrders, u \in ClientsOnly, d \in DriversOnly : OrderChat(o, u, d) \in NewChats
    BY DEF ClientsOnly, DriversOnly, OrderChat, BlankChat, NewChats, ChatRow, ChatFits, LookedUp, ClientKinds, Kinds
  <1> QED BY <1>1, <1>2, <1>3 DEF ClientChat, DirectChat, OrderChat, BlankChat

\* A look-up that finds nothing.
LEMMA LookUpKeeps ==
    ASSUME ChatsInv, NEW q \in ChatRequests, NEW chat \in NewChats, chat.order \notin goneOrders, LookUp(q, chat)
    PROVE  ChatsInv'
  <1> DEFINE r == [op |-> "insert", chat |-> chat, at |-> Nobody]
  <1>1. /\ chatQueue[q] = Idle /\ FoundFor(chat) = {} /\ ChatCall /\ chatQueue' = [chatQueue EXCEPT ![q] = r]
        /\ crossed' = IF \E x \in ChatRequests : chatQueue[x].op = "insert" /\ KeyOf(chatQueue[x].chat) = KeyOf(chat)
                      THEN crossed \cup {KeyOf(chat)} ELSE crossed
        /\ UNCHANGED <<chats, staffGroups, chatFiles, goneOrders, sweeping, swept, screens, expelled, lingered,
                       replaced, lateFiles>>
    BY DEF LookUp
  <1>2. r \in QueueRow /\ r.op = "insert" /\ r.chat = chat
    BY DEF QueueRow
  <1> HIDE DEF r
  <1>3. /\ chatQueue' \in [ChatRequests -> QueueRow \cup {Idle}] /\ chatQueue'[q] = r
        /\ \A x \in ChatRequests \ {q} : chatQueue'[x] = chatQueue[x]
    BY <1>1, <1>2, TypesNow
  <1>4. ChatTypes'
    <2>1. OtherTypes
      BY <1>1, <1>3, TypesNow DEF OtherTypes
    <2> QED BY <1>1, <2>1, TypesNow, TypesStay
  <1>5. FilesPart'
    BY <1>1, <1>2, <1>3, FilesStay
  <1>6. PeoplePart'
    BY <1>1, PeopleStay
  <1>7. \A c \in ConvIds : (Exists(c)' <=> Exists(c)) /\ chats'[c] = chats[c]
    BY <1>1 DEF Exists
  <1>8. KeysQueued'
    <2> SUFFICES ASSUME NEW x \in ChatRequests, chatQueue'[x].op = "insert", KeyOf(chatQueue'[x].chat) \notin crossed'
                 PROVE  /\ \A c \in ConvIds : Exists(c) => KeyOf(chats[c]) # KeyOf(chatQueue'[x].chat)
                        /\ \A y \in ChatRequests : chatQueue'[y].op = "insert"
                              /\ KeyOf(chatQueue'[y].chat) = KeyOf(chatQueue'[x].chat) => y = x
                        /\ chatQueue'[x].chat.order \notin goneOrders
      BY <1>1, <1>7 DEF KeysQueued, QueuedKey, FoundFor, KeyOf
    <2>1. CASE x = q
      <3>1. \A y \in ChatRequests : ~(chatQueue[y].op = "insert" /\ KeyOf(chatQueue[y].chat) = KeyOf(chat))
        BY <1>1, <1>2, <1>3, <2>1
      <3> QED BY <1>1, <1>2, <1>3, <2>1, <3>1 DEF FoundFor
    <2>2. CASE x # q
      <3>1. chatQueue'[x] = chatQueue[x] /\ KeyOf(chatQueue[x].chat) \notin crossed
        BY <1>1, <1>3, <2>2
      <3>2. /\ \A c \in ConvIds : Exists(c) => KeyOf(chats[c]) # KeyOf(chatQueue[x].chat)
            /\ \A y \in ChatRequests : chatQueue[y].op = "insert"
                  /\ KeyOf(chatQueue[y].chat) = KeyOf(chatQueue[x].chat) => y = x
            /\ chatQueue[x].chat.order \notin goneOrders
        BY <3>1 DEF ChatsInv, KeysPart, KeysQueued, QueuedKey, FoundFor
      <3>3. KeyOf(chatQueue[x].chat) # KeyOf(chat)
        BY <1>1, <3>1
      <3> QED BY <1>2, <1>3, <3>1, <3>2, <3>3
    <2> QED BY <2>1, <2>2
  <1>9. OneChatPer' /\ OrderRowsGone'
    BY <1>1, <1>7 DEF ChatsInv, KeysPart, OneChatPer, OrderRowsGone, KeyOf
  <1> QED BY <1>4, <1>5, <1>6, <1>8, <1>9 DEF ChatsInv, KeysPart

\* The four look-ups that precede an insertion.
LEMMA EnsureKeeps ==
    ASSUME ChatsInv, NEW q \in ChatRequests,
           EnsureClientManager(q) \/ EnsureClientAccountant(q) \/ EnsureDirect(q) \/ EnsureClientDriver(q)
    PROVE  ChatsInv'
  <1>1. Nobody \notin goneOrders
    BY ChatAssumption, TypesNow
  <1>2. PICK chat \in NewChats : chat.order \notin goneOrders /\ LookUp(q, chat)
    BY <1>1, NewChatsAre DEF EnsureClientManager, EnsureClientAccountant, EnsureDirect, EnsureClientDriver
  <1> QED BY <1>2, LookUpKeeps

\* A row comes where there was none: nobody is in it but its own members.
LEMMA RowComes ==
    ASSUME ChatsInv, NEW c \in Unused, NEW chat \in ChatRow, ChatFits(chat), chat.kind \in Kinds,
           chats' = [chats EXCEPT ![c] = chat],
           chat.kind # "private_group" => chat.members = {},
           UNCHANGED <<chatFiles, sweeping, swept, screens, expelled, lingered, replaced, lateFiles>>,
           \A q \in ChatRequests : chatQueue'[q].op = "upload" => chatQueue'[q] = chatQueue[q]
    PROVE  /\ chats' \in [ConvIds -> ChatRow] /\ (\A d \in ConvIds : ChatFits(chats'[d])) /\ FilesPart' /\ PeoplePart'
           /\ chats'[c] = chat /\ \A d \in ConvIds \ {c} : chats'[d] = chats[d]
           /\ \A d \in ConvIds : Exists(d)' <=> Exists(d) \/ d = c
  <1>1. c \in ConvIds /\ chats[c].kind = "unused" /\ ~Exists(c)
    BY ChatRowsAre DEF Unused, Exists
  <1>2. /\ chats' \in [ConvIds -> ChatRow] /\ chats'[c] = chat /\ \A d \in ConvIds \ {c} : chats'[d] = chats[d]
    BY <1>1, TypesNow
  <1>3. \A d \in ConvIds : ChatFits(chats'[d])
    BY <1>2, TypesNow
  <1>4. \A d \in ConvIds : Exists(d)' <=> Exists(d) \/ d = c
    BY <1>2 DEF Exists
  <1>5. FilesPart'
    BY <1>1, <1>2, FilesStay
  <1>6. \A d \in ConvIds \ {c} : \A u : MayRead(d, u) = MayRead(d, u)'
    BY <1>2 DEF MayRead, CheckAccess
  <1>7. PeoplePart'
    <2>1. \A d \in ConvIds : Exists(d)' => \A u \in chats'[d].members : MayRead(d, u)'
      <3>1. \A u \in chat.members : MayRead(c, u)'
        BY <1>2 DEF MayRead, CheckAccess
      <3>2. \A d \in ConvIds \ {c} : Exists(d) => \A u \in chats[d].members : MayRead(d, u)
        BY DEF ChatsInv, PeoplePart
      <3> QED BY <1>2, <1>4, <1>6, <3>1, <3>2
    <2>2. ASSUME NEW x \in screens
          PROVE  Exists(x[1])' /\ (chats'[x[1]].kind # "private_group" => MayRead(x[1], x[2])')
      <3>1. x[1] \in ConvIds \ {c} /\ Exists(x[1]) /\ (chats[x[1]].kind # "private_group" => MayRead(x[1], x[2]))
        BY <1>1, TypesNow DEF ChatsInv, PeoplePart
      <3>2. MayRead(x[1], x[2]) => MayRead(x[1], x[2])'
        BY <1>6, <3>1
      <3> QED BY <1>2, <1>4, <3>1, <3>2
    <2>3. \A x \in expelled : x[1] \in ConvIds \ {c} /\ chats[x[1]].kind \in {"private_group", "gone"}
      BY <1>1, TypesNow DEF ChatsInv, PeoplePart
    <2>4. \A x \in expelled \ lingered : chats'[x[1]].kind = "private_group" /\ ChatRole[x[2]] # "admin"
                => x[2] \notin chats'[x[1]].members
      BY <1>2, <2>3 DEF ChatsInv, PeoplePart
    <2> QED BY <1>2, <2>1, <2>2, <2>3, <2>4 DEF PeoplePart
  <1> QED BY <1>2, <1>3, <1>4, <1>5, <1>7

\* A group is made: its key is none of those that are looked for.
LEMMA CreateGroupKeeps == ASSUME ChatsInv, CreateGroup PROVE ChatsInv'
  <1>1. PICK u \in ChatUsers, team \in Teams, c \in Unused :
             /\ ChatCall /\ chats' = [chats EXCEPT ![c] = Group(u, team)]
             /\ UNCHANGED <<staffGroups, chatQueue, chatFiles, goneOrders, sweeping, swept, screens, ghostsOfChats>>
    BY DEF CreateGroup
  <1> DEFINE chat == Group(u, team)
  <1>2. chat \in ChatRow /\ ChatFits(chat) /\ chat.kind = "private_group" /\ chat.order = Nobody
           /\ chat.kind \in Kinds
    <2>1. team \subseteq ChatUsers
      BY ChatAssumption
    <2> QED BY <2>1 DEF Group, BlankChat, ChatRow, ChatFits, Kinds, ClientKinds
  <1> HIDE DEF chat
  <1>3. UNCHANGED <<chatQueue, chatFiles, goneOrders, sweeping, swept, screens, expelled, lingered, replaced, crossed,
                    lateFiles, staffGroups>>
    BY <1>1 DEF ghostsOfChats
  <1>4. /\ chats' \in [ConvIds -> ChatRow] /\ (\A d \in ConvIds : ChatFits(chats'[d])) /\ FilesPart' /\ PeoplePart'
        /\ chats'[c] = chat /\ (\A d \in ConvIds \ {c} : chats'[d] = chats[d])
              /\ \A d \in ConvIds : Exists(d)' <=> Exists(d) \/ d = c
    <2>1. chats' = [chats EXCEPT ![c] = chat]
      BY <1>1 DEF chat
    <2> QED BY <1>2, <1>3, <2>1, RowComes
  <1>5. ChatTypes'
    <2>1. OtherTypes
      BY <1>1, <1>3, TypesNow DEF OtherTypes
    <2> QED BY <1>4, <2>1, TypesStay
  <1>6. \A q \in ChatRequests : chatQueue[q].op = "insert" => chatQueue[q].chat.kind \in LookedUp
    BY ChatRowsAre, TypesNow DEF NewChats
  <1>7. \A x, y : KeyOf(x) = KeyOf(y) => x.kind = y.kind
    BY DEF KeyOf
  <1>8. KeysQueued'
    <2> SUFFICES ASSUME NEW q \in ChatRequests, chatQueue[q].op = "insert", KeyOf(chatQueue[q].chat) \notin crossed
                 PROVE  /\ \A d \in ConvIds : Exists(d)' => KeyOf(chats'[d]) # KeyOf(chatQueue[q].chat)
                        /\ \A r \in ChatRequests : chatQueue[r].op = "insert"
                              /\ KeyOf(chatQueue[r].chat) = KeyOf(chatQueue[q].chat) => r = q
                        /\ chatQueue[q].chat.order \notin goneOrders
      BY <1>3 DEF KeysQueued, QueuedKey, FoundFor, KeyOf
    <2>1. /\ \A d \in ConvIds : Exists(d) => KeyOf(chats[d]) # KeyOf(chatQueue[q].chat)
          /\ \A r \in ChatRequests : chatQueue[r].op = "insert"
                /\ KeyOf(chatQueue[r].chat) = KeyOf(chatQueue[q].chat) => r = q
          /\ chatQueue[q].chat.order \notin goneOrders
      BY DEF ChatsInv, KeysPart, KeysQueued, QueuedKey, FoundFor
    <2>2. KeyOf(chat) # KeyOf(chatQueue[q].chat)
      BY <1>2, <1>6, <1>7 DEF LookedUp
    <2> QED BY <1>4, <2>1, <2>2
  <1>9. OneChatPer'
    <2> SUFFICES ASSUME NEW a \in ConvIds, NEW b \in ConvIds, a # b, Exists(a)', Exists(b)',
                        KeyOf(chats'[a]) = KeyOf(chats'[b]), chats'[a].kind # "private_group"
                 PROVE  KeyOf(chats'[a]) \in crossed /\ chats'[a].kind \notin UniqueKinds
      BY <1>3 DEF OneChatPer, KeyOf
    <2>1. a # c /\ b # c
      BY <1>2, <1>4, <1>7
    <2> QED BY <1>4, <2>1 DEF ChatsInv, KeysPart, OneChatPer
  <1>10. OrderRowsGone'
    <2> SUFFICES ASSUME NEW a \in ConvIds, Exists(a)', chats'[a].order \in goneOrders
                 PROVE  KeyOf(chats'[a]) \in crossed
      BY <1>3 DEF OrderRowsGone, KeyOf
    <2>1. a # c
      BY <1>2, <1>4, ChatAssumption, TypesNow
    <2> QED BY <1>4, <2>1 DEF ChatsInv, KeysPart, OrderRowsGone
  <1> QED BY <1>4, <1>5, <1>8, <1>9, <1>10 DEF ChatsInv, KeysPart

\* A row is inserted: its key was found free when it was looked for and still is, or was crossed.
LEMMA InsertKeeps == ASSUME ChatsInv, NEW q \in ChatRequests, Insert(q) PROVE ChatsInv'
  <1> DEFINE chat == chatQueue[q].chat
  <1>1. PICK c \in Unused : chats' = IF chat.kind \in UniqueKinds /\ FoundFor(chat) # {} THEN chats
                                        ELSE [chats EXCEPT ![c] = chat]
    BY DEF Insert
  <1>2. /\ chatQueue[q].op = "insert" /\ chatQueue' = [chatQueue EXCEPT ![q] = Idle]
        /\ UNCHANGED <<staffGroups, chatFiles, goneOrders, sweeping, swept, screens, expelled, lingered, replaced,
                       crossed, lateFiles, chatCalls>>
    BY DEF Insert, ghostsOfChats
  <1>3. /\ chatQueue' \in [ChatRequests -> QueueRow \cup {Idle}] /\ chatQueue'[q] = Idle
        /\ \A x \in ChatRequests \ {q} : chatQueue'[x] = chatQueue[x]
    BY <1>2, TypesNow
  <1>4. \A x \in ChatRequests : chatQueue'[x].op # "none" => x # q /\ chatQueue'[x] = chatQueue[x]
    BY <1>3, ChatRowsAre
  <1>5. chat \in NewChats /\ chat \in ChatRow /\ ChatFits(chat) /\ chat.kind \in LookedUp /\ chat.members = {}
           /\ chat.kind \in Kinds
    BY <1>2, ChatRowsAre, TypesNow DEF NewChats, LookedUp, Kinds, ClientKinds
  <1>6. OtherTypes
    BY <1>2, <1>3, TypesNow DEF OtherTypes
  <1>7. CASE chats' = chats
    <2>1. ChatTypes'
      BY <1>6, <1>7, TypesNow, TypesStay
    <2>2. SameKeys
      BY <1>7 DEF SameKeys, Exists
    <2>3. KeysPart'
      BY <1>2, <1>4, <2>2, KeysStay
    <2>4. FilesPart' /\ PeoplePart'
      BY <1>2, <1>4, <1>7, FilesStay, PeopleStay
    <2> QED BY <2>1, <2>3, <2>4 DEF ChatsInv
  <1>8. CASE chats' = [chats EXCEPT ![c] = chat] /\ (chat.kind \in UniqueKinds => FoundFor(chat) = {})
    <2>1. /\ chats' \in [ConvIds -> ChatRow] /\ (\A d \in ConvIds : ChatFits(chats'[d])) /\ FilesPart' /\ PeoplePart'
          /\ chats'[c] = chat /\ (\A d \in ConvIds \ {c} : chats'[d] = chats[d])
                /\ \A d \in ConvIds : Exists(d)' <=> Exists(d) \/ d = c
      <3>1. \A x \in ChatRequests : chatQueue'[x].op = "upload" => chatQueue'[x] = chatQueue[x]
        BY <1>4
      <3> HIDE DEF chat
      <3> QED BY <1>2, <1>5, <1>8, <3>1, RowComes
    <2>2. ChatTypes'
      BY <1>6, <2>1, TypesStay
    <2>3. \A d \in ConvIds : Exists(d) /\ KeyOf(chats[d]) = KeyOf(chat)
                => KeyOf(chat) \in crossed /\ chat.kind \notin UniqueKinds
      <3>1. KeyOf(chat) \notin crossed => FoundFor(chat) = {}
        BY <1>2 DEF ChatsInv, KeysPart, KeysQueued, QueuedKey
      <3> QED BY <1>8, <3>1 DEF FoundFor
    <2>4. c \in ConvIds /\ ~Exists(c)
      BY ChatRowsAre DEF Unused, Exists
    <2>5. KeysQueued'
      <3> SUFFICES ASSUME NEW x \in ChatRequests, chatQueue'[x].op = "insert",
                          KeyOf(chatQueue'[x].chat) \notin crossed
                   PROVE  /\ \A d \in ConvIds : Exists(d)' => KeyOf(chats'[d]) # KeyOf(chatQueue'[x].chat)
                          /\ \A r \in ChatRequests : chatQueue'[r].op = "insert"
                                /\ KeyOf(chatQueue'[r].chat) = KeyOf(chatQueue'[x].chat) => r = x
                          /\ chatQueue'[x].chat.order \notin goneOrders
        BY <1>2 DEF KeysQueued, QueuedKey, FoundFor, KeyOf
      <3>1. x # q /\ chatQueue'[x] = chatQueue[x]
        BY <1>4
      <3>2. /\ \A d \in ConvIds : Exists(d) => KeyOf(chats[d]) # KeyOf(chatQueue[x].chat)
            /\ \A r \in ChatRequests : chatQueue[r].op = "insert"
                  /\ KeyOf(chatQueue[r].chat) = KeyOf(chatQueue[x].chat) => r = x
            /\ chatQueue[x].chat.order \notin goneOrders
        BY <3>1 DEF ChatsInv, KeysPart, KeysQueued, QueuedKey, FoundFor
      <3>3. KeyOf(chat) # KeyOf(chatQueue[x].chat)
        BY <1>2, <3>1, <3>2
      <3> HIDE DEF chat
      <3> QED BY <1>4, <2>1, <3>1, <3>2, <3>3
    <2>6. OneChatPer'
      <3> SUFFICES ASSUME NEW a \in ConvIds, NEW b \in ConvIds, a # b, Exists(a)', Exists(b)',
                          KeyOf(chats'[a]) = KeyOf(chats'[b]), chats'[a].kind # "private_group"
                   PROVE  KeyOf(chats'[a]) \in crossed /\ chats'[a].kind \notin UniqueKinds
        BY <1>2 DEF OneChatPer, KeyOf
      <3>1. \A x, y : KeyOf(x) = KeyOf(y) => x.kind = y.kind
        BY DEF KeyOf
      <3> HIDE DEF chat
      <3>2. CASE a = c
        BY <2>1, <2>3, <3>2
      <3>3. CASE b = c
        BY <2>1, <2>3, <3>1, <3>3
      <3>4. CASE a # c /\ b # c
        BY <2>1, <3>4 DEF ChatsInv, KeysPart, OneChatPer
      <3> QED BY <3>2, <3>3, <3>4
    <2>7. OrderRowsGone'
      <3> SUFFICES ASSUME NEW a \in ConvIds, Exists(a)', chats'[a].order \in goneOrders
                   PROVE  KeyOf(chats'[a]) \in crossed
        BY <1>2 DEF OrderRowsGone, KeyOf
      <3>1. CASE a = c
        BY <1>2, <2>1, <3>1 DEF ChatsInv, KeysPart, KeysQueued, QueuedKey
      <3>2. CASE a # c
        BY <2>1, <3>2 DEF ChatsInv, KeysPart, OrderRowsGone
      <3> QED BY <3>1, <3>2
    <2> QED BY <2>1, <2>2, <2>5, <2>6, <2>7 DEF ChatsInv, KeysPart
  <1> QED BY <1>1, <1>7, <1>8

-----------------------------------------------------------------------------
(* Chats: files, the end of a chat, and the rest *)

\* No row changes, and no request is about to insert another.
LEMMA QuietKeeps ==
    ASSUME ChatsInv, chats' = chats, OtherTypes,
           \A q \in ChatRequests : chatQueue'[q].op = "insert" => chatQueue'[q] = chatQueue[q],
           UNCHANGED <<crossed, goneOrders, expelled, lingered, replaced>>, screens' \subseteq screens, FilesPart'
    PROVE  ChatsInv'
  <1>1. ChatTypes'
    BY TypesNow, TypesStay
  <1>2. SameKeys
    BY DEF SameKeys, Exists
  <1>3. KeysPart' /\ PeoplePart'
    BY <1>2, KeysStay, PeopleStay
  <1> QED BY <1>1, <1>3 DEF ChatsInv

\* A place in the queue is taken by an upload, or given back.
LEMMA QueueMoves ==
    ASSUME ChatsInv, NEW q \in ChatRequests, NEW r \in QueueRow \cup {Idle}, r.op # "insert",
           chatQueue' = [chatQueue EXCEPT ![q] = r]
    PROVE  /\ chatQueue' \in [ChatRequests -> QueueRow \cup {Idle}]
           /\ chatQueue'[q] = r /\ \A x \in ChatRequests \ {q} : chatQueue'[x] = chatQueue[x]
           /\ \A x \in ChatRequests : chatQueue'[x].op = "insert" => chatQueue'[x] = chatQueue[x]
  <1>1. chatQueue' \in [ChatRequests -> QueueRow \cup {Idle}] /\ chatQueue'[q] = r
           /\ \A x \in ChatRequests \ {q} : chatQueue'[x] = chatQueue[x]
    BY TypesNow
  <1> QED BY <1>1

\* An upload begins at a chat that exists, whose directory is not being removed.
LEMMA UploadBeginKeeps ==
    ASSUME ChatsInv, NEW q \in ChatRequests, NEW u \in ChatUsers, NEW c \in ConvIds, UploadBegin(q, u, c)
    PROVE  ChatsInv'
  <1> DEFINE r == [op |-> "upload", chat |-> BlankChat, at |-> c]
  <1>1. /\ CheckAccess(chats[c], u) /\ ChatCall /\ chatQueue' = [chatQueue EXCEPT ![q] = r]
        /\ UNCHANGED <<chats, staffGroups, chatFiles, goneOrders, sweeping, swept, screens, expelled, lingered,
                       replaced, crossed, lateFiles>>
    BY DEF UploadBegin, ghostsOfChats
  <1>2. r \in QueueRow /\ r.op = "upload" /\ r.at = c
    BY DEF QueueRow
  <1> HIDE DEF r
  <1>3. Exists(c)
    BY <1>1 DEF CheckAccess, Exists, Kinds, ClientKinds
  <1>4. /\ chatQueue' \in [ChatRequests -> QueueRow \cup {Idle}]
        /\ chatQueue'[q] = r /\ \A x \in ChatRequests \ {q} : chatQueue'[x] = chatQueue[x]
        /\ \A x \in ChatRequests : chatQueue'[x].op = "insert" => chatQueue'[x] = chatQueue[x]
    BY <1>1, <1>2, QueueMoves
  <1>5. OtherTypes
    BY <1>1, <1>4, TypesNow DEF OtherTypes
  <1>6. FilesPart'
    <2>1. \A x \in ChatRequests : chatQueue'[x].op = "upload"
                => chatQueue'[x] = chatQueue[x] \/ Exists(chatQueue'[x].at)
      BY <1>2, <1>3, <1>4
    <2> QED BY <1>1, <2>1, FilesStay
  <1> QED BY <1>1, <1>4, <1>5, <1>6, QuietKeeps

\* An upload ends: at a chat that has gone meanwhile it was counted as late.
LEMMA UploadEndKeeps == ASSUME ChatsInv, NEW q \in ChatRequests, UploadEnd(q) \/ UploadRefused(q) PROVE ChatsInv'
  <1>1. /\ chatQueue[q].op = "upload" /\ chatQueue' = [chatQueue EXCEPT ![q] = Idle]
        /\ chatFiles' \in {chatFiles, chatFiles \cup {chatQueue[q].at}}
        /\ UNCHANGED <<chats, staffGroups, goneOrders, sweeping, swept, screens, expelled, lingered, replaced,
                       crossed, lateFiles, chatCalls>>
    BY DEF UploadEnd, UploadRefused, ghostsOfChats
  <1>2. chatQueue[q].at \in ConvIds
    BY <1>1, ChatRowsAre, TypesNow
  <1>3. /\ chatQueue' \in [ChatRequests -> QueueRow \cup {Idle}]
        /\ chatQueue'[q] = Idle /\ \A x \in ChatRequests \ {q} : chatQueue'[x] = chatQueue[x]
        /\ \A x \in ChatRequests : chatQueue'[x].op = "insert" => chatQueue'[x] = chatQueue[x]
    BY <1>1, ChatRowsAre, QueueMoves
  <1>4. OtherTypes
    BY <1>1, <1>2, <1>3, TypesNow DEF OtherTypes
  <1>5. FilesPart'
    <2>1. \A x \in ChatRequests : chatQueue'[x].op = "upload" => chatQueue'[x] = chatQueue[x]
      BY <1>3, ChatRowsAre
    <2>2. chatQueue[q].at \in swept => chatQueue[q].at \in lateFiles
      BY <1>1 DEF ChatsInv, FilesPart
    <2>3. \A c \in sweeping \cup swept : chats[c].kind = "gone"
      BY DEF ChatsInv, FilesPart
    <2>4. \A x \in ChatRequests : chatQueue'[x].op = "upload" /\ chatQueue'[x].at \in sweeping \cup swept
                => chatQueue'[x].at \in lateFiles
      BY <2>1 DEF ChatsInv, FilesPart
    <2>5. swept \cap chatFiles' \subseteq lateFiles
      BY <1>1, <2>2 DEF ChatsInv, FilesPart
    <2> QED BY <1>1, <2>3, <2>4, <2>5 DEF FilesPart
  <1> QED BY <1>1, <1>3, <1>4, <1>5, QuietKeeps

\* A file is forwarded to a chat that exists, or is counted as late.
LEMMA ForwardKeeps ==
    ASSUME ChatsInv, NEW u \in ChatUsers, NEW c \in ConvIds, NEW d \in ConvIds, ForwardFile(u, c, d)
    PROVE  ChatsInv'
  <1>1. /\ ChatCall /\ chatFiles' = chatFiles \cup {d} /\ lateFiles' = IF Exists(d) THEN lateFiles
                                                                          ELSE lateFiles \cup {d}
        /\ UNCHANGED <<chats, staffGroups, chatQueue, goneOrders, sweeping, swept, screens, expelled, lingered,
                       replaced, crossed>>
    BY DEF ForwardFile
  <1>2. OtherTypes
    BY <1>1, TypesNow DEF OtherTypes
  <1>3. Exists(d) => d \notin swept
    BY ChatRowsAre DEF ChatsInv, FilesPart, Exists
  <1>4. FilesPart'
    BY <1>1, <1>3 DEF ChatsInv, FilesPart
  <1> QED BY <1>1, <1>2, <1>4, QuietKeeps

\* The directory of a deleted chat is removed; or the service starts again, and forgets what it was
\* doing.
LEMMA SweepKeeps == ASSUME ChatsInv, RemoveAttachments \/ EnsureStaffGroups PROVE ChatsInv'
  <1>1. CASE RemoveAttachments
    <2>1. PICK c \in sweeping :
             /\ sweeping' = sweeping \ {c} /\ swept' = swept \cup {c} /\ chatFiles' = chatFiles \ {c}
             /\ UNCHANGED <<chats, staffGroups, chatQueue, goneOrders, screens, expelled, lingered, replaced, crossed,
                            lateFiles, chatCalls>>
      BY <1>1 DEF RemoveAttachments, ghostsOfChats
    <2>2. OtherTypes
      BY <2>1, TypesNow DEF OtherTypes
    <2>3. FilesPart'
      BY <2>1 DEF ChatsInv, FilesPart
    <2> QED BY <2>1, <2>2, <2>3, QuietKeeps
  <1>2. CASE EnsureStaffGroups
    <2>1. /\ ChatCall /\ staffGroups' = {"work", "accounting"} /\ chatQueue' = [q \in ChatRequests |-> Idle]
          /\ sweeping' = {}
          /\ UNCHANGED <<chats, chatFiles, goneOrders, swept, screens, expelled, lingered, replaced, crossed,
                         lateFiles>>
      BY <1>2 DEF EnsureStaffGroups, ghostsOfChats
    <2>2. \A q \in ChatRequests : chatQueue'[q].op = "none"
      BY <2>1, ChatRowsAre
    <2>3. OtherTypes
      BY <2>1, TypesNow DEF OtherTypes
    <2>4. FilesPart'
      BY <2>1, <2>2, FilesStay
    <2> QED BY <2>1, <2>2, <2>3, <2>4, QuietKeeps
  <1> QED BY <1>1, <1>2

\* What is dropped: its rows are gone, and nobody has it open.
LEMMA Dropped ==
    ASSUME ChatsInv, NEW gone \in SUBSET ConvIds, \A c \in gone : Exists(c), chats' = Drop(gone),
           screens' = {s \in screens : s[1] \notin gone},
           UNCHANGED <<expelled, lingered, replaced>>
    PROVE  /\ chats' \in [ConvIds -> ChatRow] /\ (\A d \in ConvIds : ChatFits(chats'[d])) /\ SameKeys /\ PeoplePart'
           /\ (\A d \in gone : chats'[d].kind = "gone") /\ \A d \in ConvIds \ gone : chats'[d] = chats[d]
           /\ \A d \in ConvIds : Exists(d)' <=> Exists(d) /\ d \notin gone
  <1> DEFINE none == [BlankChat EXCEPT !.kind = "gone"]
  <1>1. none \in ChatRow /\ none.kind = "gone" /\ ChatFits(none) /\ none.kind \notin Kinds
    BY ChatRowsAre
  <1>2. \A d \in ConvIds : chats'[d] = IF d \in gone THEN none ELSE chats[d]
    BY DEF Drop
  <1>3. chats' \in [ConvIds -> ChatRow]
    <2>1. \A d \in ConvIds : (IF d \in gone THEN none ELSE chats[d]) \in ChatRow
      BY <1>1, TypesNow
    <2> QED BY <2>1 DEF Drop
  <1> HIDE DEF none
  <1>4. \A d \in ConvIds : ChatFits(chats'[d])
    BY <1>1, <1>2, TypesNow
  <1>5. (\A d \in gone : chats'[d].kind = "gone") /\ \A d \in ConvIds \ gone : chats'[d] = chats[d]
    BY <1>1, <1>2
  <1>6. \A d \in ConvIds : Exists(d)' <=> Exists(d) /\ d \notin gone
    BY <1>1, <1>2, <1>5 DEF Exists
  <1>7. SameKeys
    BY <1>5, <1>6 DEF SameKeys
  <1>8. \A d \in ConvIds \ gone : \A u : MayRead(d, u) = MayRead(d, u)'
    BY <1>5 DEF MayRead, CheckAccess
  <1>9. PeoplePart'
    <2>1. \A d \in ConvIds : Exists(d)' => \A u \in chats'[d].members : MayRead(d, u)'
      BY <1>5, <1>6, <1>8 DEF ChatsInv, PeoplePart
    <2>2. ASSUME NEW x \in screens'
          PROVE  Exists(x[1])' /\ (chats'[x[1]].kind # "private_group" => MayRead(x[1], x[2])')
      <3>1. x[1] \in ConvIds \ gone /\ Exists(x[1]) /\ (chats[x[1]].kind # "private_group" => MayRead(x[1], x[2]))
        BY TypesNow DEF ChatsInv, PeoplePart
      <3>2. MayRead(x[1], x[2]) => MayRead(x[1], x[2])'
        BY <1>8, <3>1
      <3> QED BY <1>5, <1>6, <3>1, <3>2
    <2>3. \A x \in expelled : x[1] \in ConvIds /\ chats[x[1]].kind \in {"private_group", "gone"}
      BY TypesNow DEF ChatsInv, PeoplePart
    <2>4. \A x \in expelled : chats'[x[1]].kind \in {"private_group", "gone"}
      BY <1>5, <2>3
    <2>5. ASSUME NEW x \in expelled \ lingered, chats'[x[1]].kind = "private_group", ChatRole[x[2]] # "admin"
          PROVE  x[2] \notin chats'[x[1]].members
      BY <1>5, <2>3, <2>5 DEF ChatsInv, PeoplePart
    <2> QED BY <2>1, <2>2, <2>4, <2>5 DEF PeoplePart
  <1> QED BY <1>3, <1>4, <1>5, <1>6, <1>7, <1>9

\* A chat is deleted by the administrator.
LEMMA DeleteChatKeeps == ASSUME ChatsInv, DeleteChat PROVE ChatsInv'
  <1>1. /\ ChatCall
        /\ UNCHANGED <<chatQueue, chatFiles, goneOrders, sweeping, swept, expelled, lingered, replaced, crossed,
                       lateFiles>>
    BY DEF DeleteChat, ghostsOfChats
  <1>2. CASE \E c \in ConvIds : /\ Exists(c) /\ chats' = Drop({c}) /\ screens' = {s \in screens : s[1] # c}
                                /\ UNCHANGED staffGroups
    <2>1. PICK gone \in SUBSET ConvIds : /\ \A c \in gone : Exists(c)
                                         /\ chats' = Drop(gone) /\ screens' = {s \in screens : s[1] \notin gone}
      <3>1. PICK c \in ConvIds : Exists(c) /\ chats' = Drop({c}) /\ screens' = {s \in screens : s[1] # c}
        BY <1>2
      <3>2. screens' = {s \in screens : s[1] \notin {c}}
        BY <3>1
      <3> QED BY <3>1, <3>2
    <2>2. /\ chats' \in [ConvIds -> ChatRow] /\ (\A d \in ConvIds : ChatFits(chats'[d])) /\ SameKeys /\ PeoplePart'
          /\ (\A d \in gone : chats'[d].kind = "gone") /\ \A d \in ConvIds \ gone : chats'[d] = chats[d]
      BY <1>1, <2>1, Dropped
    <2>3. OtherTypes
      BY <1>1, <1>2, <2>1, TypesNow DEF OtherTypes
    <2>4. ChatTypes'
      BY <2>2, <2>3, TypesStay
    <2>5. KeysPart'
      BY <1>1, <2>2, KeysStay
    <2>6. \A c \in ConvIds : chats[c].kind = "gone" => chats'[c].kind = "gone"
      BY <2>2
    <2>7. FilesPart'
      BY <1>1, <2>6, FilesStay
    <2> QED BY <2>2, <2>4, <2>5, <2>7 DEF ChatsInv
  <1>3. CASE \E g \in staffGroups : staffGroups' = staffGroups \ {g} /\ UNCHANGED <<chats, screens>>
    <2>1. OtherTypes
      BY <1>1, <1>3, TypesNow DEF OtherTypes
    <2>2. FilesPart'
      BY <1>1, <1>3, FilesStay
    <2> QED BY <1>1, <1>3, <2>1, <2>2, QuietKeeps
  <1> QED BY <1>2, <1>3 DEF DeleteChat

\* The chats of an order are deleted: what is being inserted for it, or uploaded to them, is noted.
LEMMA OrderDeletedKeeps == ASSUME ChatsInv, OrderDeleted PROVE ChatsInv'
  <1>1. PICK o \in ChatOrders \ goneOrders :
            LET ofOrder == {c \in ConvIds : Exists(c) /\ chats[c].order = o}
                inserting == {q \in ChatRequests : chatQueue[q].op = "insert" /\ chatQueue[q].chat.order = o} IN
            /\ ChatCall /\ goneOrders' = goneOrders \cup {o} /\ chats' = Drop(ofOrder)
            /\ sweeping' = sweeping \cup ofOrder
            /\ screens' = {s \in screens : s[1] \notin ofOrder} /\ lateFiles' = lateFiles \cup UnderWay(ofOrder)
            /\ crossed' = crossed \cup {KeyOf(chatQueue[q].chat) : q \in inserting}
            /\ UNCHANGED <<staffGroups, chatQueue, chatFiles, swept, expelled, lingered, replaced>>
    BY DEF OrderDeleted
  <1> DEFINE ofOrder == {c \in ConvIds : Exists(c) /\ chats[c].order = o}
             inserting == {q \in ChatRequests : chatQueue[q].op = "insert" /\ chatQueue[q].chat.order = o}
  <1>2. /\ ChatCall /\ goneOrders' = goneOrders \cup {o} /\ chats' = Drop(ofOrder)
        /\ sweeping' = sweeping \cup ofOrder
        /\ screens' = {s \in screens : s[1] \notin ofOrder} /\ lateFiles' = lateFiles \cup UnderWay(ofOrder)
        /\ crossed' = crossed \cup {KeyOf(chatQueue[q].chat) : q \in inserting}
        /\ UNCHANGED <<staffGroups, chatQueue, chatFiles, swept, expelled, lingered, replaced>>
    BY <1>1
  <1>3. /\ ofOrder \in SUBSET ConvIds /\ \A c \in ofOrder : Exists(c)
        /\ \A c \in ConvIds : Exists(c) /\ chats[c].order = o => c \in ofOrder
    OBVIOUS
  <1>4. /\ crossed \subseteq crossed'
        /\ \A q \in ChatRequests : chatQueue[q].op = "insert" /\ chatQueue[q].chat.order = o
                 => KeyOf(chatQueue[q].chat) \in crossed'
    BY <1>2
  <1>5. UnderWay(ofOrder) \subseteq ConvIds /\ lateFiles \subseteq lateFiles'
        /\ \A q \in ChatRequests : chatQueue[q].op = "upload" /\ chatQueue[q].at \in ofOrder
                 => chatQueue[q].at \in lateFiles'
    BY <1>2, <1>3 DEF UnderWay
  <1> HIDE DEF ofOrder, inserting
  <1>6. /\ chats' \in [ConvIds -> ChatRow] /\ (\A d \in ConvIds : ChatFits(chats'[d])) /\ SameKeys /\ PeoplePart'
        /\ (\A d \in ofOrder : chats'[d].kind = "gone") /\ (\A d \in ConvIds \ ofOrder : chats'[d] = chats[d])
        /\ \A d \in ConvIds : Exists(d)' <=> Exists(d) /\ d \notin ofOrder
    BY <1>2, <1>3, Dropped
  <1>7. ChatTypes'
    <2>1. OtherTypes
      BY <1>2, <1>3, <1>5, TypesNow DEF OtherTypes
    <2> QED BY <1>6, <2>1, TypesStay
  <1>8. KeysQueued'
    <2> SUFFICES ASSUME NEW q \in ChatRequests, chatQueue[q].op = "insert", KeyOf(chatQueue[q].chat) \notin crossed'
                 PROVE  /\ \A c \in ConvIds : Exists(c)' => KeyOf(chats'[c]) # KeyOf(chatQueue[q].chat)
                        /\ \A r \in ChatRequests : chatQueue[r].op = "insert"
                              /\ KeyOf(chatQueue[r].chat) = KeyOf(chatQueue[q].chat) => r = q
                        /\ chatQueue[q].chat.order \notin goneOrders'
      BY <1>2 DEF KeysQueued, QueuedKey, FoundFor, KeyOf, Exists
    <2>1. /\ \A c \in ConvIds : Exists(c) => KeyOf(chats[c]) # KeyOf(chatQueue[q].chat)
          /\ \A r \in ChatRequests : chatQueue[r].op = "insert"
                /\ KeyOf(chatQueue[r].chat) = KeyOf(chatQueue[q].chat) => r = q
          /\ chatQueue[q].chat.order \notin goneOrders
      BY <1>4 DEF ChatsInv, KeysPart, KeysQueued, QueuedKey, FoundFor
    <2>2. chatQueue[q].chat.order # o
      BY <1>4
    <2> QED BY <1>2, <1>6, <2>1, <2>2 DEF SameKeys
  <1>9. OneChatPer'
    <2> SUFFICES ASSUME NEW a \in ConvIds, NEW b \in ConvIds, a # b, Exists(a)', Exists(b)',
                        KeyOf(chats'[a]) = KeyOf(chats'[b]), chats'[a].kind # "private_group"
                 PROVE  KeyOf(chats'[a]) \in crossed' /\ chats'[a].kind \notin UniqueKinds
      BY DEF OneChatPer, KeyOf
    <2> QED BY <1>4, <1>6 DEF ChatsInv, KeysPart, OneChatPer, SameKeys
  <1>10. OrderRowsGone'
    <2> SUFFICES ASSUME NEW a \in ConvIds, Exists(a)', chats'[a].order \in goneOrders'
                 PROVE  KeyOf(chats'[a]) \in crossed'
      BY DEF OrderRowsGone, KeyOf
    <2>1. Exists(a) /\ a \notin ofOrder /\ chats'[a] = chats[a]
      BY <1>6
    <2>2. chats[a].order \in goneOrders
      BY <1>2, <1>3, <2>1
    <2> QED BY <1>4, <2>1, <2>2 DEF ChatsInv, KeysPart, OrderRowsGone
  <1>11. FilesPart'
    <2>1. \A c \in sweeping' \cup swept' : chats'[c].kind = "gone"
      <3>1. \A c \in sweeping \cup swept : c \in ConvIds /\ ~Exists(c) /\ chats[c].kind = "gone"
        BY ChatRowsAre, TypesNow DEF ChatsInv, FilesPart, Exists
      <3> QED BY <1>2, <1>3, <1>6, <3>1
    <2>2. \A q \in ChatRequests : chatQueue[q].op = "upload" /\ chatQueue[q].at \in sweeping' \cup swept'
                => chatQueue[q].at \in lateFiles'
      BY <1>2, <1>5 DEF ChatsInv, FilesPart
    <2>3. swept \cap chatFiles \subseteq lateFiles'
      BY <1>5 DEF ChatsInv, FilesPart
    <2> QED BY <1>2, <2>1, <2>2, <2>3 DEF FilesPart
  <1> QED BY <1>6, <1>7, <1>8, <1>9, <1>10, <1>11 DEF ChatsInv, KeysPart

\* The order is given to another driver: the key is as it was, and the one who loses it is noted.
LEMMA ReplaceDriverKeeps == ASSUME ChatsInv, ReplaceDriver PROVE ChatsInv'
  <1>1. PICK o \in ChatOrders, d \in DriversOnly, c \in ConvIds :
            /\ chats[c].kind = "client_driver_order" /\ chats[c].driver # d /\ ChatCall
            /\ chats' = [chats EXCEPT ![c].driver = d]
            /\ replaced' = (replaced \cup {<<c, chats[c].driver>>}) \ {<<c, d>>}
            /\ UNCHANGED <<staffGroups, chatQueue, chatFiles, goneOrders, sweeping, swept, screens, expelled,
                           lingered, crossed, lateFiles>>
    BY DEF ReplaceDriver
  <1>2. d \in ChatUsers /\ chats[c] \in ChatRow /\ ChatFits(chats[c]) /\ chats[c].driver \in ChatUsers
    BY <1>1, TypesNow DEF DriversOnly, ChatFits
  <1>3. /\ chats' \in [ConvIds -> ChatRow] /\ (\A x \in ConvIds \ {c} : chats'[x] = chats[x])
        /\ chats'[c].kind = chats[c].kind /\ chats'[c].client = chats[c].client /\ chats'[c].driver = d
        /\ chats'[c].group = chats[c].group
        /\ chats'[c].order = chats[c].order /\ chats'[c].owner = chats[c].owner
        /\ chats'[c].members = chats[c].members
    <2>1. chats'[c] = [chats[c] EXCEPT !.driver = d] /\ \A x \in ConvIds \ {c} : chats'[x] = chats[x]
      BY <1>1, TypesNow
    <2>2. [chats[c] EXCEPT !.driver = d] \in ChatRow
      BY <1>2 DEF ChatRow
    <2>3. chats' \in [ConvIds -> ChatRow]
      <3>1. chats' = [chats EXCEPT ![c] = chats'[c]]
        BY <1>1, <2>1, TypesNow
      <3> QED BY <2>1, <2>2, <3>1, TypesNow
    <2> QED BY <1>2, <2>1, <2>3 DEF ChatRow
  <1>4. \A x \in ConvIds : ChatFits(chats'[x])
    <2>1. ChatFits(chats'[c])
      BY <1>1, <1>2, <1>3 DEF ChatFits, ClientKinds
    <2> QED BY <1>3, <2>1, TypesNow
  <1>5. SameKeys /\ \A x \in ConvIds : Exists(x)' <=> Exists(x)
    BY <1>1, <1>3 DEF SameKeys, KeyOf, Exists
  <1>6. ChatTypes'
    <2>1. replaced' \subseteq ConvIds \X ChatUsers
      BY <1>1, <1>2, TypesNow
    <2>2. OtherTypes
      BY <1>1, <2>1, TypesNow DEF OtherTypes
    <2> QED BY <1>3, <1>4, <2>2, TypesStay
  <1>7. KeysPart'
    BY <1>1, <1>5, KeysStay
  <1>8. FilesPart'
    <2>1. \A x \in ConvIds : chats[x].kind = "gone" => chats'[x].kind = "gone"
      BY <1>3
    <2> QED BY <1>1, <2>1, FilesStay
  <1>9. \A x \in ConvIds : \A u : MayRead(x, u) => MayRead(x, u)'
    <2> SUFFICES ASSUME NEW x \in ConvIds, NEW u, MayRead(x, u)
                 PROVE  CheckAccess(chats'[x], u) \/ <<x, u>> \in replaced'
      BY DEF MayRead, CheckAccess
    <2>1. CASE x # c
      <3>1. <<x, u>> # <<c, d>>
        BY <2>1
      <3> QED BY <1>1, <1>3, <2>1, <3>1 DEF MayRead
    <2>2. CASE x = c /\ u = d
      BY <1>1, <1>3, <2>2 DEF CheckAccess
    <2>3. CASE x = c /\ u # d
      <3>1. <<x, u>> # <<c, d>>
        BY <2>3
      <3>2. <<c, u>> \in replaced => <<c, u>> \in replaced'
        BY <1>1, <2>3, <3>1
      <3>3. u = chats[c].driver => <<c, u>> \in replaced'
        BY <1>1, <2>3, <3>1
      <3>4. CheckAccess(chats[c], u) => CheckAccess(chats'[c], u) \/ u = chats[c].driver
        BY <1>1, <1>3 DEF CheckAccess, ClientKinds
      <3> QED BY <2>3, <3>2, <3>3, <3>4 DEF MayRead
    <2> QED BY <2>1, <2>2, <2>3
  <1>10. PeoplePart'
    <2>1. \A x \in ConvIds : chats'[x].members = chats[x].members /\ chats'[x].kind = chats[x].kind
      BY <1>3
    <2>2. \A x \in ConvIds : Exists(x)' => \A u \in chats'[x].members : MayRead(x, u)'
      BY <1>5, <1>9, <2>1 DEF ChatsInv, PeoplePart
    <2>3. \A x \in screens : x[1] \in ConvIds
      BY TypesNow
    <2>4. \A x \in screens : Exists(x[1])' /\ (chats'[x[1]].kind # "private_group" => MayRead(x[1], x[2])')
      BY <1>5, <1>9, <2>1, <2>3 DEF ChatsInv, PeoplePart
    <2>5. \A x \in expelled : x[1] \in ConvIds
      BY TypesNow
    <2>6. /\ \A x \in expelled : chats'[x[1]].kind \in {"private_group", "gone"}
          /\ \A x \in expelled \ lingered : chats'[x[1]].kind = "private_group" /\ ChatRole[x[2]] # "admin"
                   => x[2] \notin chats'[x[1]].members
      BY <2>1, <2>5 DEF ChatsInv, PeoplePart
    <2> QED BY <1>1, <2>2, <2>4, <2>6 DEF PeoplePart
  <1> QED BY <1>6, <1>7, <1>8, <1>10 DEF ChatsInv

\* The application leaves a chat, or nothing happens.
LEMMA LeaveKeeps ==
    ASSUME ChatsInv, (\E u \in ChatUsers, c \in ConvIds : Leave(u, c)) \/ UNCHANGED chatVars
    PROVE  ChatsInv'
  <1>1. /\ screens' \subseteq screens
        /\ UNCHANGED <<chats, staffGroups, chatQueue, chatFiles, goneOrders, sweeping, swept, expelled, lingered,
                       replaced, crossed, lateFiles, chatCalls>>
    BY DEF Leave, chatVars, ghostsOfChats
  <1>2. OtherTypes
    BY <1>1, TypesNow DEF OtherTypes
  <1>3. FilesPart'
    BY <1>1, FilesStay
  <1> QED BY <1>1, <1>2, <1>3, QuietKeeps

\* Every step keeps the invariant.
LEMMA ChatsStep == ChatsInv /\ [ChatsNext]_chatVars => ChatsInv'
  <1> SUFFICES ASSUME ChatsInv, [ChatsNext]_chatVars PROVE ChatsInv'
    OBVIOUS
  <1>1. ASSUME NEW q \in ChatRequests,
               \/ EnsureClientManager(q) \/ EnsureClientAccountant(q) \/ EnsureDirect(q)
               \/ EnsureClientDriver(q) \/ Insert(q) \/ UploadEnd(q) \/ UploadRefused(q)
        PROVE  ChatsInv'
    BY <1>1, EnsureKeeps, InsertKeeps, UploadEndKeeps
  <1>2. ASSUME NEW q \in ChatRequests, NEW u \in ChatUsers, NEW c \in ConvIds,
               UploadBegin(q, u, c) \/ UploadAvatar(q, u, c)
        PROVE  ChatsInv'
    BY <1>2, UploadBeginKeeps DEF UploadAvatar
  <1>3. ASSUME NEW u \in ChatUsers, NEW c \in ConvIds, Enter(u, c) \/ MarkRead(u, c) \/ Leave(u, c) \/ Say(u, c)
        PROVE  ChatsInv'
    BY <1>3, EnterKeeps, MarkReadKeeps, LeaveKeeps
  <1>4. CASE ReplaceDriver \/ CreateGroup \/ SetMembers \/ AddMember \/ RemoveMember
    BY <1>4, ReplaceDriverKeeps, CreateGroupKeeps, GroupKeeps
  <1>5. CASE OrderDeleted \/ RemoveAttachments \/ DeleteChat \/ EnsureStaffGroups
    BY <1>5, OrderDeletedKeeps, SweepKeeps, DeleteChatKeeps
  <1>6. CASE \E u \in ChatUsers, c, d \in ConvIds : ForwardFile(u, c, d)
    BY <1>6, ForwardKeeps
  <1> QED BY <1>1, <1>2, <1>3, <1>4, <1>5, <1>6, LeaveKeeps DEF ChatsNext

-----------------------------------------------------------------------------
(* Listener: the inductive invariant *)

\* A conversation without an entry has no open socket.
EntryStands == ~entry => Connections = {}

\* The writes of a person whose writes have not crossed: one at most, and it says what is so.
WriteOf(u) ==
    /\ \A x, y \in sent : x[1] = u /\ y[1] = u => x = y
    /\ \A x \in sent : x[1] = u /\ u \notin leaked => (x[3] = "set" <=> ConnectionsOf(u) # {})

WritesTell == \A u \in People \ faded : WriteOf(u)

ListenerInv == ListenerTypeOK /\ ListenerOK /\ EntryStands /\ WritesTell

\* What the sets of sockets and tasks are made of.
LEMMA SocketSets ==
    /\ \A w \in Sockets : OwnerOf[w] \in People
    /\ \A u \in People : ConnectionsOf(u) \subseteq Sockets /\ IsFiniteSet(ConnectionsOf(u))
          /\ Cardinality(ConnectionsOf(u)) \in Nat
    /\ \A u \in People : Cardinality(ConnectionsOf(u)) = 0 <=> ConnectionsOf(u) = {}
  <1>1. \A u \in People : ConnectionsOf(u) \subseteq Sockets
    BY DEF ConnectionsOf
  <1>2. \A u \in People : IsFiniteSet(ConnectionsOf(u)) /\ Cardinality(ConnectionsOf(u)) \in Nat
    BY <1>1, ListenerAssumption, CountWithin
  <1> QED BY <1>1, <1>2, FS_EmptySet DEF People

\* At first nobody is there.
LEMMA ListenerStart == ListenerInit => ListenerInv
  <1> SUFFICES ASSUME ListenerInit PROVE ListenerInv
    OBVIOUS
  <1>1. Connections = {} /\ \A u \in People : ConnectionsOf(u) = {}
    BY DEF ListenerInit, Connections, ConnectionsOf
  <1>2. ListenerTypeOK
    <2>1. marker \in [People -> BOOLEAN] /\ counts \in [People -> Nat]
      BY DEF ListenerInit
    <2>2. deaf \subseteq Connections /\ faults \in 0..MaxRedisFaults
      BY ListenerAssumption DEF ListenerInit
    <2> QED BY <2>1, <2>2 DEF ListenerInit, ListenerTypeOK
  <1>3. OneListener /\ NobodyIsDeaf /\ EntryStands /\ WritesTell
    BY <1>1 DEF ListenerInit, OneListener, NobodyIsDeaf, EntryStands, WritesTell, WriteOf, Running
  <1>4. PresenceOK
    BY <1>1, SocketSets DEF ListenerInit, PresenceOK, IsOnline
  <1> QED BY <1>2, <1>3, <1>4 DEF ListenerInv, ListenerOK

-----------------------------------------------------------------------------
(* Listener: steps that leave presence alone *)

\* Presence rests on who has a socket, and on the writes.
LEMMA PresenceStays ==
    ASSUME ListenerInv, \A u \in People : ConnectionsOf(u)' = ConnectionsOf(u),
           UNCHANGED <<counts, marker, sent, faded, leaked>>
    PROVE  PresenceOK' /\ WritesTell'
  BY DEF ListenerInv, ListenerOK, PresenceOK, IsOnline, WritesTell, WriteOf

\* A socket is let in, or given up.
LEMMA SocketMoves ==
    ASSUME ListenerInv, NEW w \in Sockets, NEW s \in {"new", "checked", "open", "dead", "closed"},
           socket' = [socket EXCEPT ![w] = s]
    PROVE  /\ socket' \in [Sockets -> {"new", "checked", "open", "dead", "closed"}]
           /\ socket'[w] = s /\ \A v \in Sockets \ {w} : socket'[v] = socket[v]
           /\ Connections' = IF s = "open" THEN Connections \cup {w} ELSE Connections \ {w}
           /\ \A u \in People : ConnectionsOf(u)' = IF u # OwnerOf[w] THEN ConnectionsOf(u)
                                ELSE IF s \in {"open", "dead"} THEN ConnectionsOf(u) \cup {w}
                                        ELSE ConnectionsOf(u) \ {w}
  <1>1. /\ socket' \in [Sockets -> {"new", "checked", "open", "dead", "closed"}]
        /\ socket'[w] = s /\ \A v \in Sockets \ {w} : socket'[v] = socket[v]
    BY DEF ListenerInv, ListenerTypeOK
  <1>2. Connections' = IF s = "open" THEN Connections \cup {w} ELSE Connections \ {w}
    BY <1>1 DEF Connections
  <1>3. \A u \in People : ConnectionsOf(u)' = IF u # OwnerOf[w] THEN ConnectionsOf(u)
                                ELSE IF s \in {"open", "dead"} THEN ConnectionsOf(u) \cup {w}
                                        ELSE ConnectionsOf(u) \ {w}
    BY <1>1 DEF ConnectionsOf
  <1> QED BY <1>1, <1>2, <1>3

\* A socket is let in, or refused: nobody is there for it yet.
LEMMA AcceptKeeps == ASSUME ListenerInv, NEW w \in Sockets, Accept(w) PROVE ListenerInv'
  <1>1. PICK s \in {"checked", "closed"} : socket' = [socket EXCEPT ![w] = s]
    BY DEF Accept
  <1>2. /\ socket[w] = "new"
        /\ UNCHANGED <<entry, listener, subscription, counts, marker, sent, deaf, faded, leaked, faults>>
    BY DEF Accept
  <1>3. w \notin Connections /\ \A u \in People : w \notin ConnectionsOf(u)
    BY <1>2 DEF Connections, ConnectionsOf
  <1>4. Connections' = Connections /\ \A u \in People : ConnectionsOf(u)' = ConnectionsOf(u)
    <2>1. s \in {"new", "checked", "open", "dead", "closed"} /\ s \notin {"open", "dead"}
      OBVIOUS
    <2>2. Connections' = Connections \ {w} /\ \A u \in People : ConnectionsOf(u)' = ConnectionsOf(u)
             \/ ConnectionsOf(u)' = ConnectionsOf(u) \ {w}
      BY <1>1, <2>1, SocketMoves
    <2> QED BY <1>3, <2>2
  <1>5. ListenerTypeOK'
    BY <1>1, <1>2, <1>4, SocketMoves DEF ListenerInv, ListenerTypeOK
  <1>6. OneListener' /\ NobodyIsDeaf' /\ EntryStands'
    BY <1>2, <1>4 DEF ListenerInv, ListenerOK, OneListener, NobodyIsDeaf, EntryStands, Hears, Running
  <1> QED BY <1>2, <1>4, <1>5, <1>6, PresenceStays DEF ListenerInv, ListenerOK

\* A task moves, and no socket does.
LEMMA TaskSteps ==
    ASSUME ListenerInv, NEW t \in Listeners, Subscribe(t) \/ Fail(t) \/ Unsubscribe(t)
    PROVE  ListenerInv'
  <1>1. PICK s \in {"listening", "closing", "done"} : listener' = [listener EXCEPT ![t] = s]
    BY DEF Subscribe, Fail, Unsubscribe
  <1>2. UNCHANGED <<socket, entry, counts, marker, sent, faded, leaked>>
    BY DEF Subscribe, Fail, Unsubscribe
  <1>3. /\ listener' \in [Listeners -> {"new", "subscribing", "listening", "closing", "done"}]
        /\ listener'[t] = s /\ \A x \in Listeners \ {t} : listener'[x] = listener[x]
    BY <1>1 DEF ListenerInv, ListenerTypeOK
  <1>4. Connections' = Connections /\ \A u \in People : ConnectionsOf(u)' = ConnectionsOf(u)
    BY <1>2 DEF Connections, ConnectionsOf
  <1>5. ListenerTypeOK'
    BY <1>2, <1>3, <1>4, ListenerAssumption DEF ListenerInv, ListenerTypeOK, Subscribe, Fail, Unsubscribe
  <1>6. Running(t) /\ (\A x \in Listeners \ {t} : Running(x)' <=> Running(x)) /\ (Running(t)' <=> s # "done")
    BY <1>3 DEF Running, Subscribe, Fail, Unsubscribe
  <1>7. OneListener'
    <2> SUFFICES ASSUME NEW x \in Listeners, Running(x)' PROVE subscription' = x
      BY DEF OneListener
    <2>1. subscription = t /\ (Running(x) => subscription = x)
      BY <1>6 DEF ListenerInv, ListenerOK, OneListener
    <2>2. x = t /\ s # "done"
      BY <1>6, <2>1
    <2>3. subscription' = subscription
      BY <1>1, <1>3, <2>2 DEF Subscribe, Fail, Unsubscribe
    <2> QED BY <2>1, <2>2, <2>3
  <1>8. NobodyIsDeaf'
    <2>1. CASE Subscribe(t)
      BY <1>3, <2>1 DEF Subscribe, NobodyIsDeaf, Hears
    <2>2. CASE Fail(t)
      BY <1>4, <2>2 DEF Fail, NobodyIsDeaf
    <2>3. CASE Unsubscribe(t)
      BY <1>3, <1>4, <2>3 DEF Unsubscribe, ListenerInv, ListenerOK, NobodyIsDeaf, Hears
    <2> QED BY <2>1, <2>2, <2>3
  <1>9. EntryStands'
    BY <1>2, <1>4 DEF ListenerInv, EntryStands
  <1> QED BY <1>2, <1>4, <1>5, <1>7, <1>8, <1>9, PresenceStays DEF ListenerInv, ListenerOK

\* The listener gives a dead socket up, and closes with the last one.
LEMMA DiscardKeeps ==
    ASSUME ListenerInv, NEW t \in Listeners, NEW w \in Sockets, Discard(t, w)
    PROVE  ListenerInv'
  <1>1. /\ listener[t] = "listening" /\ w \in Connections /\ socket' = [socket EXCEPT ![w] = "dead"]
        /\ deaf' = deaf \ {w}
        /\ listener' = IF Connections = {w} THEN [listener EXCEPT ![t] = "closing"] ELSE listener
        /\ UNCHANGED <<entry, subscription, counts, marker, sent, faded, leaked, faults>>
    BY DEF Discard
  <1>2. w \in ConnectionsOf(OwnerOf[w])
    BY <1>1 DEF Connections, ConnectionsOf
  <1>3. Connections' = Connections \ {w} /\ \A u \in People : ConnectionsOf(u)' = ConnectionsOf(u)
    <2>1. /\ Connections' = Connections \ {w}
          /\ \A u \in People : ConnectionsOf(u)' = IF u # OwnerOf[w] THEN ConnectionsOf(u)
                                                      ELSE ConnectionsOf(u) \cup {w}
      BY <1>1, SocketMoves
    <2> QED BY <1>2, <2>1
  <1>4. /\ listener' \in [Listeners -> {"new", "subscribing", "listening", "closing", "done"}]
        /\ \A x \in Listeners : Running(x)' <=> Running(x)
    BY <1>1 DEF ListenerInv, ListenerTypeOK, Running
  <1>5. ListenerTypeOK'
    BY <1>1, <1>3, <1>4, SocketMoves DEF ListenerInv, ListenerTypeOK
  <1>6. OneListener' /\ EntryStands'
    BY <1>1, <1>3, <1>4 DEF ListenerInv, ListenerOK, OneListener, EntryStands
  <1>7. NobodyIsDeaf'
    BY <1>1, <1>3 DEF ListenerInv, ListenerOK, NobodyIsDeaf, Hears
  <1> QED BY <1>1, <1>3, <1>5, <1>6, <1>7, PresenceStays DEF ListenerInv, ListenerOK

-----------------------------------------------------------------------------
(* Listener: steps that write, or deliver, the presence marker *)

\* A write of one person's marker that fits what is so then.
LEMMA PersonWrites ==
    ASSUME ListenerInv, NEW u \in People, NEW w, NEW what \in {"set", "delete"}, Write(u, w, what),
           \A v \in People \ {u} : ConnectionsOf(v)' = ConnectionsOf(v) /\ counts'[v] = counts[v],
           u \notin leaked => /\ counts'[u] = Cardinality(ConnectionsOf(u)')
                              /\ what = "set" <=> ConnectionsOf(u)' # {},
           UNCHANGED <<marker, leaked>>
    PROVE  PresenceOK' /\ WritesTell'
  <1>1. /\ sent' = sent \cup {<<u, w, what>>} /\ faded \subseteq faded' /\ faded' \subseteq faded \cup {u}
        /\ u \in faded' \/ \A x \in sent : x[1] # u
    BY DEF Write
  <1>2. WritesTell'
    <2> SUFFICES ASSUME NEW v \in People \ faded' PROVE WriteOf(v)'
      BY DEF WritesTell
    <2>1. CASE v = u
      BY <1>1, <2>1 DEF WriteOf
    <2>2. CASE v # u
      BY <1>1, <2>2 DEF ListenerInv, WritesTell, WriteOf
    <2> QED BY <2>1, <2>2
  <1>3. PresenceOK'
    <2> SUFFICES ASSUME NEW v \in People \ leaked
                 PROVE  /\ counts'[v] = Cardinality(ConnectionsOf(v)')
                        /\ v \notin faded' /\ (\A x \in sent' : x[1] # v) => (marker[v] <=> ConnectionsOf(v)' # {})
      BY DEF PresenceOK, IsOnline
    <2>1. CASE v = u
      <3>1. <<u, w, what>> \in sent' /\ <<u, w, what>>[1] = u
        BY <1>1
      <3> QED BY <2>1, <3>1
    <2>2. CASE v # u
      <3>1. v \notin faded' /\ (\A x \in sent' : x[1] # v) => v \notin faded /\ \A x \in sent : x[1] # v
        BY <1>1
      <3>2. /\ counts[v] = Cardinality(ConnectionsOf(v))
            /\ v \notin faded /\ (\A x \in sent : x[1] # v) => (marker[v] <=> ConnectionsOf(v) # {})
        BY DEF ListenerInv, ListenerOK, PresenceOK, IsOnline
      <3> QED BY <2>2, <3>1, <3>2
    <2> QED BY <2>1, <2>2
  <1> QED BY <1>2, <1>3

\* A socket is registered: its user is there, and the conversation has a listener.
LEMMA RegisterKeeps == ASSUME ListenerInv, NEW w \in Sockets, Register(w) PROVE ListenerInv'
  <1> DEFINE u == OwnerOf[w]
  <1>1. /\ socket[w] = "checked" /\ socket' = [socket EXCEPT ![w] = "open"] /\ entry'
        /\ counts' = [counts EXCEPT ![u] = @ + 1] /\ Write(u, w, "set") /\ UNCHANGED <<marker, leaked, faults>>
    BY DEF Register
  <1>2. u \in People /\ w \notin Connections /\ \A v \in People : w \notin ConnectionsOf(v)
    BY <1>1, SocketSets DEF Connections, ConnectionsOf
  <1>3. /\ socket' \in [Sockets -> {"new", "checked", "open", "dead", "closed"}]
        /\ Connections' = Connections \cup {w} /\ ConnectionsOf(u)' = ConnectionsOf(u) \cup {w}
        /\ \A v \in People \ {u} : ConnectionsOf(v)' = ConnectionsOf(v)
    BY <1>1, <1>2, SocketMoves
  <1>4. counts' \in [People -> Nat] /\ counts'[u] = counts[u] + 1 /\ \A v \in People \ {u} : counts'[v] = counts[v]
    BY <1>1, <1>2 DEF ListenerInv, ListenerTypeOK
  <1>5. PresenceOK' /\ WritesTell'
    <2>1. Cardinality(ConnectionsOf(u) \cup {w}) = Cardinality(ConnectionsOf(u)) + 1
      BY <1>2, SocketSets, FS_AddElement
    <2>2. u \notin leaked => counts[u] = Cardinality(ConnectionsOf(u))
      BY <1>2 DEF ListenerInv, ListenerOK, PresenceOK
    <2> QED BY <1>1, <1>2, <1>3, <1>4, <2>1, <2>2, PersonWrites
  <1>6. sent' \subseteq People \X Sockets \X {"set", "delete"} /\ faded' \subseteq People
    BY <1>1, <1>2 DEF ListenerInv, ListenerTypeOK, Write
  <1>7. /\ listener' \in [Listeners -> {"new", "subscribing", "listening", "closing", "done"}]
        /\ subscription' \in Listeners \cup {NoTask} /\ deaf' \subseteq Connections'
        /\ OneListener' /\ NobodyIsDeaf'
    <2>1. CASE NeedsListener /\ \E t \in Listeners : listener[t] = "new"
             /\ listener' = [listener EXCEPT ![t] = "subscribing"] /\ subscription' = t /\ deaf' = {}
      <3>1. PICK t \in Listeners : listener[t] = "new" /\ listener' = [listener EXCEPT ![t] = "subscribing"]
               /\ subscription' = t
        BY <2>1
      <3>2. /\ listener' \in [Listeners -> {"new", "subscribing", "listening", "closing", "done"}]
            /\ listener'[t] = "subscribing" /\ \A x \in Listeners \ {t} : listener'[x] = listener[x]
        BY <3>1 DEF ListenerInv, ListenerTypeOK
      <3>3. \A x \in Listeners : ~Running(x)
        BY <2>1 DEF NeedsListener, ListenerInv, ListenerOK, OneListener
      <3>4. OneListener'
        BY <3>1, <3>2, <3>3 DEF OneListener, Running
      <3> QED BY <2>1, <3>1, <3>2, <3>4 DEF NobodyIsDeaf, Hears
    <2>2. CASE /\ ~NeedsListener /\ UNCHANGED <<listener, subscription>>
               /\ deaf' = IF listener[subscription] = "closing" THEN deaf \cup {w} ELSE deaf
      <3>1. deaf \subseteq Connections /\ listener \in [Listeners -> {"new", "subscribing", "listening", "closing",
                    "done"}] /\ subscription \in Listeners \cup {NoTask}
        BY DEF ListenerInv, ListenerTypeOK
      <3>2. OneListener'
        BY <2>2 DEF ListenerInv, ListenerOK, OneListener, Running
      <3>3. NobodyIsDeaf'
        <4>1. CASE listener[subscription] = "closing"
          BY <1>2, <1>3, <2>2, <4>1 DEF ListenerInv, ListenerOK, NobodyIsDeaf, Hears
        <4>2. CASE listener[subscription] # "closing"
          BY <2>2, <4>2 DEF NeedsListener, NobodyIsDeaf, Hears, Running
        <4> QED BY <4>1, <4>2
      <3> QED BY <1>3, <2>2, <3>1, <3>2, <3>3
    <2> QED BY <2>1, <2>2 DEF Register
  <1>8. ListenerTypeOK'
    BY <1>1, <1>3, <1>4, <1>6, <1>7 DEF ListenerInv, ListenerTypeOK
  <1> QED BY <1>1, <1>5, <1>7, <1>8 DEF ListenerInv, ListenerOK, EntryStands

\* A socket disconnects: with the last one of its user he is no longer there, and with the last of
\* all the listener goes.
LEMMA DisconnectKeeps == ASSUME ListenerInv, NEW w \in Sockets, Disconnect(w) PROVE ListenerInv'
  <1> DEFINE u == OwnerOf[w]
  <1>1. /\ w \in ConnectionsOf(u) /\ socket' = [socket EXCEPT ![w] = "closed"]
        /\ counts' = [counts EXCEPT ![u] = IF @ > 1 THEN @ - 1 ELSE 0]
        /\ IF LastOf(u) THEN Write(u, w, "delete") ELSE UNCHANGED <<sent, faded>>
        /\ deaf' = deaf \ {w} /\ entry' = (Connections \ {w} # {})
        /\ listener' = IF Connections \ {w} = {} /\ ~NeedsListener
                       THEN [listener EXCEPT ![subscription] = IF @ = "listening" THEN "closing" ELSE "done"]
                                                                  ELSE listener
        /\ UNCHANGED <<subscription, marker, leaked, faults>>
    BY DEF Disconnect
  <1>2. u \in People
    BY SocketSets
  <1>3. /\ socket' \in [Sockets -> {"new", "checked", "open", "dead", "closed"}]
        /\ Connections' = Connections \ {w} /\ ConnectionsOf(u)' = ConnectionsOf(u) \ {w}
        /\ \A v \in People \ {u} : ConnectionsOf(v)' = ConnectionsOf(v)
    BY <1>1, <1>2, SocketMoves
  <1>4. counts' \in [People -> Nat] /\ counts'[u] = (IF counts[u] > 1 THEN counts[u] - 1 ELSE 0) /\ counts[u] \in Nat
        /\ \A v \in People \ {u} : counts'[v] = counts[v]
    BY <1>1, <1>2 DEF ListenerInv, ListenerTypeOK
  <1>5. u \notin leaked => /\ counts'[u] = Cardinality(ConnectionsOf(u)') /\ (LastOf(u) <=> ConnectionsOf(u)' = {})
    <2>1. /\ Cardinality(ConnectionsOf(u) \ {w}) = Cardinality(ConnectionsOf(u)) - 1
          /\ Cardinality(ConnectionsOf(u)) \in Nat /\ Cardinality(ConnectionsOf(u)) # 0
          /\ IsFiniteSet(ConnectionsOf(u) \ {w}) /\ Cardinality(ConnectionsOf(u) \ {w}) \in Nat
      BY <1>1, <1>2, SocketSets, FS_RemoveElement, FS_CardinalityType
    <2>2. u \notin leaked => counts[u] = Cardinality(ConnectionsOf(u))
      BY <1>2 DEF ListenerInv, ListenerOK, PresenceOK
    <2>3. Cardinality(ConnectionsOf(u) \ {w}) = 0 <=> ConnectionsOf(u) \ {w} = {}
      BY <2>1, FS_EmptySet
    <2> QED BY <1>3, <1>4, <2>1, <2>2, <2>3 DEF LastOf
  <1>6. PresenceOK' /\ WritesTell'
    <2>1. CASE LastOf(u)
      BY <1>1, <1>2, <1>3, <1>4, <1>5, <2>1, PersonWrites
    <2>2. CASE ~LastOf(u)
      <3>1. UNCHANGED <<sent, faded, marker, leaked>>
        BY <1>1, <2>2
      <3>2. ConnectionsOf(u) # {} /\ (u \notin leaked => ConnectionsOf(u)' # {})
        BY <1>1, <1>5, <2>2
      <3>3. WritesTell'
        BY <1>2, <1>3, <3>1, <3>2 DEF ListenerInv, WritesTell, WriteOf
      <3>4. PresenceOK'
        <4> SUFFICES ASSUME NEW v \in People \ leaked
                     PROVE  /\ counts'[v] = Cardinality(ConnectionsOf(v)')
                            /\ v \notin faded /\ (\A x \in sent : x[1] # v) => (marker[v] <=> ConnectionsOf(v)' # {})
          BY <3>1 DEF PresenceOK, IsOnline
        <4>1. /\ counts[v] = Cardinality(ConnectionsOf(v))
              /\ v \notin faded /\ (\A x \in sent : x[1] # v) => (marker[v] <=> ConnectionsOf(v) # {})
          BY DEF ListenerInv, ListenerOK, PresenceOK, IsOnline
        <4>2. CASE v = u
          BY <1>5, <3>2, <4>1, <4>2
        <4>3. CASE v # u
          BY <1>3, <1>4, <4>1, <4>3
        <4> QED BY <4>2, <4>3
      <3> QED BY <3>3, <3>4
    <2> QED BY <2>1, <2>2
  <1>7. sent' \subseteq People \X Sockets \X {"set", "delete"} /\ faded' \subseteq People
    BY <1>1, <1>2 DEF ListenerInv, ListenerTypeOK, Write
  <1>8. /\ listener' \in [Listeners -> {"new", "subscribing", "listening", "closing", "done"}]
        /\ \A t \in Listeners : Running(t)' => Running(t)
        /\ Connections' # {} => listener' = listener
    <2>1. CASE Connections \ {w} = {} /\ ~NeedsListener
      <3>1. subscription \in Listeners /\ Running(subscription)
        BY <2>1 DEF NeedsListener
      <3>2. listener' = [listener EXCEPT ![subscription] = IF @ = "listening" THEN "closing" ELSE "done"]
        BY <1>1, <2>1
      <3> QED BY <1>3, <2>1, <3>1, <3>2 DEF ListenerInv, ListenerTypeOK, Running
    <2>2. CASE ~(Connections \ {w} = {} /\ ~NeedsListener)
      <3>1. listener' = listener
        BY <1>1, <2>2
      <3> QED BY <3>1 DEF ListenerInv, ListenerTypeOK, Running
    <2> QED BY <2>1, <2>2
  <1>9. ListenerTypeOK'
    BY <1>1, <1>3, <1>4, <1>7, <1>8 DEF ListenerInv, ListenerTypeOK
  <1>10. OneListener' /\ EntryStands'
    BY <1>1, <1>3, <1>8 DEF ListenerInv, ListenerOK, OneListener, EntryStands
  <1>11. NobodyIsDeaf'
    BY <1>1, <1>3, <1>8 DEF ListenerInv, ListenerOK, NobodyIsDeaf, Hears
  <1> QED BY <1>6, <1>9, <1>10, <1>11 DEF ListenerInv, ListenerOK

\* A socket whose conversation has no entry any more disconnects: its user is counted as leaked.
LEMMA DisconnectFailsKeeps == ASSUME ListenerInv, NEW w \in Sockets, DisconnectFails(w) PROVE ListenerInv'
  <1> DEFINE u == OwnerOf[w]
  <1>1. /\ ~entry /\ w \in ConnectionsOf(u) /\ socket' = [socket EXCEPT ![w] = "closed"] /\ leaked' = leaked \cup {u}
        /\ UNCHANGED <<entry, listener, subscription, counts, marker, sent, deaf, faded, faults>>
    BY DEF DisconnectFails
  <1>2. u \in People /\ Connections = {}
    BY <1>1, SocketSets DEF ListenerInv, EntryStands
  <1>3. /\ socket' \in [Sockets -> {"new", "checked", "open", "dead", "closed"}] /\ Connections' = {}
        /\ \A v \in People \ {u} : ConnectionsOf(v)' = ConnectionsOf(v)
    <2>1. /\ socket' \in [Sockets -> {"new", "checked", "open", "dead", "closed"}] /\ Connections' = Connections \ {w}
          /\ \A v \in People \ {u} : ConnectionsOf(v)' = ConnectionsOf(v)
      BY <1>1, SocketMoves
    <2> QED BY <1>2, <2>1
  <1>4. ListenerTypeOK'
    BY <1>1, <1>2, <1>3 DEF ListenerInv, ListenerTypeOK
  <1>5. OneListener' /\ NobodyIsDeaf' /\ EntryStands'
    BY <1>1, <1>2, <1>3 DEF ListenerInv, ListenerOK, OneListener, NobodyIsDeaf, EntryStands, Running
  <1>6. PresenceOK' /\ WritesTell'
    BY <1>1, <1>3 DEF ListenerInv, ListenerOK, PresenceOK, IsOnline, WritesTell, WriteOf
  <1> QED BY <1>4, <1>5, <1>6 DEF ListenerInv, ListenerOK

\* The marker: a write arrives, or five minutes pass.
LEMMA MarkerKeeps ==
    ASSUME ListenerInv, (\E x \in sent : Arrive(x)) \/ \E u \in People : Expire(u)
    PROVE  ListenerInv'
  <1>1. UNCHANGED <<socket, entry, listener, subscription, counts, deaf, leaked, faults>>
    BY DEF Arrive, Expire
  <1>2. Connections' = Connections /\ \A u \in People : ConnectionsOf(u)' = ConnectionsOf(u)
    BY <1>1 DEF Connections, ConnectionsOf
  <1>3. OneListener' /\ NobodyIsDeaf' /\ EntryStands'
    BY <1>1, <1>2 DEF ListenerInv, ListenerOK, OneListener, NobodyIsDeaf, EntryStands, Hears, Running
  <1>4. ASSUME NEW x \in sent, Arrive(x) PROVE ListenerInv'
    <2>1. x[1] \in People
      BY DEF ListenerInv, ListenerTypeOK
    <2>2. /\ sent' = sent \ {x} /\ marker' \in [People -> BOOLEAN] /\ marker'[x[1]] = (x[3] = "set")
          /\ (\A u \in People \ {x[1]} : marker'[u] = marker[u]) /\ faded' = faded
      BY <1>4, <2>1 DEF ListenerInv, ListenerTypeOK, Arrive
    <2>3. ListenerTypeOK'
      BY <1>1, <1>2, <2>2 DEF ListenerInv, ListenerTypeOK
    <2>4. WritesTell'
      BY <1>1, <1>2, <2>2 DEF ListenerInv, WritesTell, WriteOf
    <2>5. PresenceOK'
      <3> SUFFICES ASSUME NEW u \in People \ leaked
                   PROVE  /\ counts[u] = Cardinality(ConnectionsOf(u))
                          /\ u \notin faded /\ (\A y \in sent' : y[1] # u) => (marker'[u] <=> ConnectionsOf(u) # {})
        BY <1>1, <1>2, <2>2 DEF PresenceOK, IsOnline
      <3>1. counts[u] = Cardinality(ConnectionsOf(u))
        BY DEF ListenerInv, ListenerOK, PresenceOK
      <3>2. CASE u = x[1]
        BY <2>2, <3>1, <3>2 DEF ListenerInv, WritesTell, WriteOf
      <3>3. CASE u # x[1]
        <4>1. (\A y \in sent' : y[1] # u) => \A y \in sent : y[1] # u
          BY <2>2, <3>3
        <4> QED BY <2>2, <3>1, <3>3, <4>1 DEF ListenerInv, ListenerOK, PresenceOK, IsOnline
      <3> QED BY <3>2, <3>3
    <2> QED BY <1>3, <2>3, <2>4, <2>5 DEF ListenerInv, ListenerOK
  <1>5. ASSUME NEW u \in People, Expire(u) PROVE ListenerInv'
    <2>1. /\ marker' \in [People -> BOOLEAN] /\ (\A v \in People \ {u} : marker'[v] = marker[v]) /\ sent' = sent
                /\ faded' = faded \cup {u}
      BY <1>5 DEF ListenerInv, ListenerTypeOK, Expire
    <2>2. ListenerTypeOK'
      BY <1>1, <1>2, <2>1 DEF ListenerInv, ListenerTypeOK
    <2>3. WritesTell' /\ PresenceOK'
      BY <1>1, <1>2, <2>1 DEF ListenerInv, ListenerOK, PresenceOK, IsOnline, WritesTell, WriteOf
    <2> QED BY <1>3, <2>2, <2>3 DEF ListenerInv, ListenerOK
  <1> QED BY <1>4, <1>5

\* Every step keeps the invariant.
LEMMA ListenerStep == ASSUME ListenerInv, [ListenerNext]_listenerVars PROVE ListenerInv'
  <1>1. CASE UNCHANGED listenerVars
    <2>1. UNCHANGED <<socket, entry, listener, subscription, counts, marker, sent, deaf, faded, leaked, faults>>
      BY <1>1 DEF listenerVars
    <2>2. Connections' = Connections /\ \A u \in People : ConnectionsOf(u)' = ConnectionsOf(u)
      BY <2>1 DEF Connections, ConnectionsOf
    <2>3. ListenerTypeOK' /\ OneListener' /\ NobodyIsDeaf' /\ EntryStands'
      BY <2>1, <2>2 DEF ListenerInv, ListenerOK, ListenerTypeOK, OneListener, NobodyIsDeaf, EntryStands, Hears,
        Running
    <2> QED BY <2>1, <2>2, <2>3, PresenceStays DEF ListenerInv, ListenerOK
  <1>2. CASE ListenerNext
    <2>1. \A w \in Sockets : Accept(w) \/ Register(w) \/ Disconnect(w) \/ DisconnectFails(w) => ListenerInv'
      BY AcceptKeeps, RegisterKeeps, DisconnectKeeps, DisconnectFailsKeeps
    <2>2. \A t \in Listeners : Subscribe(t) \/ Fail(t) \/ Unsubscribe(t) \/ (\E w \in Sockets : Discard(t, w))
                => ListenerInv'
      BY TaskSteps, DiscardKeeps
    <2> QED BY <1>2, <2>1, <2>2, MarkerKeeps DEF ListenerNext
  <1> QED BY <1>1, <1>2

-----------------------------------------------------------------------------
(* Calls: the inductive invariant *)

HandlerRow ==
    [op: {"start", "roomed", "token", "end", "joined", "finished"}, call: CallIds, who: Guests, seen: CallRow]

HookRow == ({"joined"} \X CallIds \X Guests) \cup ({"finished"} \X CallIds)

CallTypes ==
    /\ CallsTypeOK
    /\ handling \in [CallRequests -> HandlerRow \cup {AtRest}]
    /\ hooks \subseteq HookRow
    /\ \A c \in CallIds : calls[c].status = "none" => calls[c] = NoCall

Starting(r) == r.op \in {"start", "roomed"}

\* A call that is being made has no row and no other handler, and its room once that is made.
StartsAlone ==
    \A q \in CallRequests : Starting(handling[q]) =>
        /\ calls[handling[q].call] = NoCall /\ handling[q].seen = NoCall
        /\ \A x \in CallRequests \ {q} : handling[x] # AtRest => handling[x].call # handling[q].call
        /\ handling[q].op = "roomed" => handling[q].call \in rooms

\* The other handlers have read a row; what they saw ended stays so, unless it was written over.
OthersSaw ==
    \A q \in CallRequests : handling[q] # AtRest /\ ~Starting(handling[q]) =>
        /\ handling[q].seen.status \in CallStatus
        /\ handling[q].seen.status = "ended" /\ handling[q].call \notin mixed
                 => calls[handling[q].call].status = "ended"

\* Nothing is announced of a call before its end.
ToldAfterwards == \A c \in CallIds \ mixed : ~Closed(c) => told[c] = 0

CallsInv ==
    /\ CallTypes /\ StartsAlone /\ OthersSaw /\ ToldAfterwards
    /\ OneOpenCall /\ OpenCallHasRoom /\ VerdictFits /\ AnnouncedOnce

\* A request that has begun is not one at rest.
LEMMA HandlerIsThere ==
    /\ \A r \in HandlerRow : r # AtRest /\ r.op # "none"
    /\ AtRest.op = "none" /\ AtRest.call = NoCall /\ ~Starting(AtRest)
    /\ NoCall \in CallRow /\ NoCall.status = "none" /\ ~NoCall.answered /\ ~NoCall.over
  BY DEF HandlerRow, AtRest, NoCall, CallRow, CallStatus, Guests, Starting

\* At first there are no calls.
LEMMA CallsStart == CallsInit => CallsInv
  <1> SUFFICES ASSUME CallsInit PROVE CallsInv
    OBVIOUS
  <1>1. CallTypes
    BY HandlerIsThere, CallsAssumption DEF CallsInit, CallTypes, CallsTypeOK
  <1>2. (\A q \in CallRequests : handling[q] = AtRest) /\ \A c \in CallIds : calls[c] = NoCall /\ told[c] = 0
    BY DEF CallsInit
  <1>3. \A c \in CallIds : ~Open(c) /\ ~Closed(c)
    BY <1>2, HandlerIsThere DEF Open, Closed
  <1>4. StartsAlone /\ OthersSaw
    BY <1>2, HandlerIsThere DEF StartsAlone, OthersSaw
  <1>5. OneOpenCall /\ OpenCallHasRoom /\ VerdictFits /\ AnnouncedOnce /\ ToldAfterwards
    BY <1>2, <1>3, HandlerIsThere DEF OneOpenCall, OpenCallHasRoom, VerdictFits, AnnouncedOnce, ToldAfterwards
  <1> QED BY <1>1, <1>4, <1>5 DEF CallsInv

-----------------------------------------------------------------------------
(* Calls: handlers read, and LiveKit acts *)

\* A handler that reads a call: the row is there, or the call is new and nobody else's. The webhook
\* it answers is no longer on its way.
LEMMA CallReadKeeps ==
    ASSUME CallsInv, NEW q \in CallRequests, NEW r \in HandlerRow, handling[q] = AtRest,
           handling' = [handling EXCEPT ![q] = r], r.seen = calls[r.call],
           \/ r.op = "start" /\ calls[r.call] = NoCall /\ \A x \in CallRequests : handling[x].call # r.call
           \/ r.op \notin {"start", "roomed"} /\ calls[r.call].status \in CallStatus,
           hooks' \subseteq hooks, \A c \in CallIds \ {r.call} : <<"finished", c>> \in hooks
                 => <<"finished", c>> \in hooks',
           <<"finished", r.call>> \in hooks => <<"finished", r.call>> \in hooks' \/ r.op = "finished",
           UNCHANGED <<calls, rooms, present, passes, told, mixed, lostHooks>>, callSteps' \in 0..MaxCallSteps
    PROVE  CallsInv'
  <1>1. /\ handling' \in [CallRequests -> HandlerRow \cup {AtRest}] /\ handling'[q] = r
        /\ \A x \in CallRequests \ {q} : handling'[x] = handling[x]
    BY DEF CallsInv, CallTypes
  <1>2. CallTypes'
    BY <1>1 DEF CallsInv, CallTypes, CallsTypeOK
  <1>3. r.call \in CallIds /\ r # AtRest
    BY HandlerIsThere DEF HandlerRow
  <1>4. \A c \in CallIds : Open(c)' = Open(c) /\ Closed(c)' = Closed(c)
    BY DEF Open, Closed
  <1>5. StartsAlone'
    <2> SUFFICES ASSUME NEW x \in CallRequests, Starting(handling'[x])
                 PROVE  /\ calls[handling'[x].call] = NoCall /\ handling'[x].seen = NoCall
                        /\ \A y \in CallRequests \ {x} : handling'[y] # AtRest
                                 => handling'[y].call # handling'[x].call
                        /\ handling'[x].op = "roomed" => handling'[x].call \in rooms
      BY DEF StartsAlone
    <2>1. CASE x = q
      BY <1>1, <2>1 DEF Starting
    <2>2. CASE x # q
      <3>1. Starting(handling[x]) /\ calls[handling[x].call] = NoCall
        BY <1>1, <2>2 DEF CallsInv, StartsAlone
      <3>2. r.call # handling[x].call
        BY <3>1, HandlerIsThere DEF CallStatus
      <3> QED BY <1>1, <2>2, <3>1, <3>2 DEF CallsInv, StartsAlone
    <2> QED BY <2>1, <2>2
  <1>6. OthersSaw'
    BY <1>1, <1>3 DEF CallsInv, OthersSaw, Starting
  <1>7. OpenCallHasRoom'
    <2> SUFFICES ASSUME NEW c \in CallIds \ mixed, Open(c), lostHooks = 0
                 PROVE  \/ c \in rooms \/ <<"finished", c>> \in hooks'
                        \/ \E x \in CallRequests : handling'[x].op \in {"end", "finished"} /\ handling'[x].call = c
      BY <1>4 DEF OpenCallHasRoom
    <2>1. CASE \E x \in CallRequests : handling[x].op \in {"end", "finished"} /\ handling[x].call = c
      <3>1. PICK x \in CallRequests : handling[x].op \in {"end", "finished"} /\ handling[x].call = c
        BY <2>1
      <3>2. x # q
        BY <3>1, HandlerIsThere
      <3> QED BY <1>1, <3>1, <3>2
    <2>2. CASE c \in rooms \/ <<"finished", c>> \in hooks
      BY <1>1, <2>2
    <2> QED BY <2>1, <2>2 DEF CallsInv, OpenCallHasRoom
  <1>8. OneOpenCall' /\ VerdictFits' /\ AnnouncedOnce' /\ ToldAfterwards'
    BY <1>4 DEF CallsInv, OneOpenCall, VerdictFits, AnnouncedOnce, ToldAfterwards
  <1> QED BY <1>2, <1>5, <1>6, <1>7, <1>8 DEF CallsInv

\* A start that finds no open call, and takes an identity that nobody has.
LEMMA StartBeginKeeps == ASSUME CallsInv, NEW q \in CallRequests, StartBegin(q) PROVE CallsInv'
  <1>1. PICK c \in CallIds, u \in Guests : calls[c] = NoCall /\ (\A x \in CallRequests : handling[x].call # c)
                                           /\ Read(q, "start", c, u)
    BY DEF StartBegin
  <1>2. PICK r \in HandlerRow : r = [op |-> "start", call |-> c, who |-> u, seen |-> calls[c]]
    BY DEF HandlerRow, CallsInv, CallTypes, CallsTypeOK
  <1>3. callSteps' \in 0..MaxCallSteps
    BY CallsAssumption DEF StartBegin, StepCall, CallsInv, CallTypes, CallsTypeOK
  <1> QED BY <1>1, <1>2, <1>3, CallReadKeeps DEF StartBegin, Read

\* Somebody asks for a token of a call that he may still join.
LEMMA TokenBeginKeeps == ASSUME CallsInv, NEW q \in CallRequests, TokenBegin(q) PROVE CallsInv'
  <1>1. PICK c \in CallIds, u \in Guests : calls[c].status \in CallStatus /\ Read(q, "token", c, u)
    BY DEF TokenBegin
  <1>2. PICK r \in HandlerRow : r = [op |-> "token", call |-> c, who |-> u, seen |-> calls[c]]
    BY DEF HandlerRow, CallsInv, CallTypes, CallsTypeOK
  <1>3. callSteps' \in 0..MaxCallSteps
    BY CallsAssumption DEF TokenBegin, StepCall, CallsInv, CallTypes, CallsTypeOK
  <1> QED BY <1>1, <1>2, <1>3, CallReadKeeps DEF TokenBegin, Read

\* Somebody hangs up on a call that is there.
LEMMA EndBeginKeeps == ASSUME CallsInv, NEW q \in CallRequests, EndBegin(q) PROVE CallsInv'
  <1>1. PICK c \in CallIds : calls[c] # NoCall /\ Read(q, "end", c, Caller)
    BY DEF EndBegin
  <1>2. PICK r \in HandlerRow : r = [op |-> "end", call |-> c, who |-> Caller, seen |-> calls[c]]
    BY DEF HandlerRow, CallsInv, CallTypes, CallsTypeOK, Guests
  <1>3. callSteps' \in 0..MaxCallSteps
    BY CallsAssumption DEF EndBegin, StepCall, CallsInv, CallTypes, CallsTypeOK
  <1>4. calls[c].status \in CallStatus
    BY <1>1 DEF CallsInv, CallTypes, CallsTypeOK, CallRow
  <1> QED BY <1>1, <1>2, <1>3, <1>4, CallReadKeeps DEF EndBegin, Read

\* A webhook arrives: of a call that is not there it is ignored, of another it is read.
LEMMA HookBeginKeeps ==
    ASSUME CallsInv, NEW q \in CallRequests, NEW h \in hooks, HookBegin(q, h) PROVE CallsInv'
  <1>1. h \in HookRow
    BY DEF CallsInv, CallTypes
  <1>2. h[2] \in CallIds /\ (h[1] = "joined" => h[3] \in Guests) /\ h[1] \in {"joined", "finished"}
    BY <1>1 DEF HookRow
  <1>3. \A c \in CallIds : <<"finished", c>> \in hooks
              => <<"finished", c>> \in hooks' \/ (h[1] = "finished" /\ h[2] = c)
    BY DEF HookBegin
  <1>4. CASE calls[h[2]] = NoCall
    <2>1. UNCHANGED <<calls, rooms, present, passes, told, mixed, callSteps, lostHooks, handling>>
             /\ hooks' \subseteq hooks
      BY <1>4 DEF HookBegin
    <2>2. \A c \in CallIds : Open(c)' = Open(c) /\ Closed(c)' = Closed(c)
      BY <2>1 DEF Open, Closed
    <2>3. OpenCallHasRoom'
      BY <1>3, <1>4, <2>1, <2>2, HandlerIsThere DEF CallsInv, OpenCallHasRoom, Open
    <2>4. CallTypes' /\ StartsAlone' /\ OthersSaw' /\ ToldAfterwards'
      BY <2>1, <2>2 DEF CallsInv, CallTypes, CallsTypeOK, StartsAlone, OthersSaw, ToldAfterwards
    <2> QED BY <2>1, <2>2, <2>3, <2>4 DEF CallsInv, OneOpenCall, VerdictFits, AnnouncedOnce
  <1>5. CASE calls[h[2]] # NoCall
    <2> DEFINE u == IF h[1] = "joined" THEN h[3] ELSE Caller
    <2>1. u \in Guests
      BY <1>2 DEF Guests
    <2>2. PICK r \in HandlerRow : r = [op |-> h[1], call |-> h[2], who |-> u, seen |-> calls[h[2]]]
      BY <1>2, <2>1 DEF HandlerRow, CallsInv, CallTypes, CallsTypeOK
    <2>3. calls[h[2]].status \in CallStatus
      BY <1>2, <1>5 DEF CallsInv, CallTypes, CallsTypeOK, CallRow
    <2>4. handling[q] = AtRest /\ handling' = [handling EXCEPT ![q] = r]
      BY <1>5, <2>2 DEF HookBegin, Read
    <2>5. r.call = h[2] /\ r.op = h[1] /\ r.seen = calls[h[2]]
      BY <2>2
    <2>6. UNCHANGED <<calls, rooms, present, passes, told, mixed, lostHooks>> /\ callSteps' \in 0..MaxCallSteps
             /\ hooks' \subseteq hooks
      BY DEF HookBegin, CallsInv, CallTypes, CallsTypeOK
    <2> HIDE DEF u
    <2> QED BY <1>2, <1>3, <2>3, <2>4, <2>5, <2>6, CallReadKeeps
  <1> QED BY <1>4, <1>5

\* LiveKit makes and ends rooms, and a webhook is lost: rows and handlers stay.
LEMMA RoomsKeep ==
    ASSUME CallsInv, UNCHANGED <<calls, passes, handling, told, mixed>>, hooks' \subseteq HookRow,
           rooms' \subseteq CallIds, present' \subseteq CallIds \X Guests,
           callSteps' \in 0..MaxCallSteps, lostHooks' \in 0..MaxLostHooks,
           \A q \in CallRequests : handling[q].op = "roomed" /\ handling[q].call \in rooms
                 => handling[q].call \in rooms',
           lostHooks' = 0 => /\ lostHooks = 0
                             /\ \A c \in CallIds : c \in rooms => c \in rooms' \/ <<"finished", c>> \in hooks'
                             /\ \A c \in CallIds : <<"finished", c>> \in hooks => <<"finished", c>> \in hooks'
    PROVE  CallsInv'
  <1>1. \A c \in CallIds : Open(c)' = Open(c) /\ Closed(c)' = Closed(c)
    BY DEF Open, Closed
  <1>2. CallTypes' /\ OthersSaw' /\ ToldAfterwards'
    BY <1>1 DEF CallsInv, CallTypes, CallsTypeOK, OthersSaw, ToldAfterwards
  <1>3. StartsAlone'
    BY DEF CallsInv, StartsAlone
  <1>4. OpenCallHasRoom'
    BY <1>1 DEF CallsInv, OpenCallHasRoom
  <1> QED BY <1>1, <1>2, <1>3, <1>4 DEF CallsInv, OneOpenCall, VerdictFits, AnnouncedOnce

\* Entering, leaving, the end of an empty room, and the loss of a webhook.
LEMMA LiveKitKeeps ==
    ASSUME CallsInv,
           \/ \E h \in hooks : LoseHook(h)
           \/ \E c \in CallIds : Finish(c) \/ \E u \in Guests : Join(c, u) \/ Quit(c, u)
    PROVE  CallsInv'
  <1>1. /\ hooks \subseteq HookRow /\ rooms \subseteq CallIds /\ present \subseteq CallIds \X Guests
        /\ callSteps \in 0..MaxCallSteps /\ lostHooks \in 0..MaxLostHooks /\ MaxLostHooks \in Nat
        /\ MaxCallSteps \in Nat
    BY CallsAssumption DEF CallsInv, CallTypes, CallsTypeOK
  <1>2. \A c \in CallIds : <<"finished", c>> \in HookRow /\ \A u \in Guests : <<"joined", c, u>> \in HookRow
    BY DEF HookRow
  <1>3. ASSUME NEW h \in hooks, LoseHook(h) PROVE CallsInv'
    <2>1. lostHooks' \in 0..MaxLostHooks /\ lostHooks' # 0
      BY <1>1, <1>3 DEF LoseHook
    <2> QED BY <1>1, <1>3, <2>1, RoomsKeep DEF LoseHook
  <1>4. ASSUME NEW c \in CallIds, Finish(c) PROVE CallsInv'
    <2>1. UNCHANGED <<calls, passes, handling, told, mixed, callSteps, lostHooks, present>>
      BY <1>4 DEF Finish
    <2>2. rooms' = rooms \ {c} /\ hooks' = hooks \cup {<<"finished", c>>}
      BY <1>4 DEF Finish
    <2>3. \A q \in CallRequests : handling[q].op = "roomed" => handling[q].call # c
      BY <1>4 DEF Finish
    <2>4. /\ hooks' \subseteq HookRow /\ rooms' \subseteq CallIds
          /\ \A d \in CallIds : d \in rooms => d \in rooms' \/ <<"finished", d>> \in hooks'
      BY <1>1, <1>2, <2>2
    <2> QED BY <1>1, <2>1, <2>2, <2>3, <2>4, RoomsKeep
  <1>5. ASSUME NEW c \in CallIds, NEW u \in Guests, Join(c, u) PROVE CallsInv'
    <2>1. UNCHANGED <<calls, passes, handling, told, mixed, lostHooks>>
      BY <1>5 DEF Join
    <2>2. rooms' = rooms \cup {c} /\ present' = present \cup {<<c, u>>} /\ hooks' = hooks \cup {<<"joined", c, u>>}
      BY <1>5 DEF Join
    <2>3. callSteps' \in 0..MaxCallSteps
      BY <1>1, <1>5 DEF Join, StepCall
    <2>4. <<"joined", c, u>> \in HookRow /\ <<c, u>> \in CallIds \X Guests
      BY <1>2
    <2>5. hooks' \subseteq HookRow /\ rooms' \subseteq CallIds /\ present' \subseteq CallIds \X Guests
      BY <1>1, <2>2, <2>4
    <2> QED BY <1>1, <2>1, <2>2, <2>3, <2>5, RoomsKeep
  <1>6. ASSUME NEW c \in CallIds, NEW u \in Guests, Quit(c, u) PROVE CallsInv'
    <2>1. UNCHANGED <<calls, passes, handling, told, mixed, lostHooks, rooms, hooks, callSteps>>
             /\ present' \subseteq present
      BY <1>6 DEF Quit
    <2> QED BY <1>1, <2>1, RoomsKeep
  <1> QED BY <1>3, <1>4, <1>5, <1>6

-----------------------------------------------------------------------------
(* Calls: handlers write *)

\* What the row of a call says of itself and of the announcements of its end.
CallRowFits(row, n) ==
    /\ row.over <=> row.status \in {"ended", "missed"}
    /\ row.status \in {"ended", "missed"} => (row.answered <=> row.status = "ended") /\ n >= 1
    /\ row.status = "ended" => n = 1
    /\ row.status \in {"ringing", "active"} => (row.answered <=> row.status = "active")
    /\ row.status \notin {"ended", "missed"} => n = 0

\* The invariant says it of every call that no two handlers wrote over each other.
LEMMA CallRowsFit == ASSUME CallsInv PROVE \A c \in CallIds \ mixed : CallRowFits(calls[c], told[c])
  BY DEF CallsInv, VerdictFits, AnnouncedOnce, ToldAfterwards, CallRowFits, Open, Closed

\* A handler ends, and writes at most the row of its own call.
CallWrote(q, c, row, n) ==
    /\ handling[q] # AtRest /\ handling[q].call = c /\ handling' = [handling EXCEPT ![q] = AtRest]
    /\ calls' = [calls EXCEPT ![c] = row] /\ told' = [told EXCEPT ![c] = n]
    /\ mixed \subseteq mixed' /\ mixed' \subseteq mixed \cup {c}
    /\ UNCHANGED <<callSteps, lostHooks>>

\* The row fits, and is not reopened unnoticed.
CallMayStand(c, row, n) ==
    /\ row.status = "none" => row = NoCall
    /\ c \notin mixed' => CallRowFits(row, n) /\ (calls[c].status = "ended" => row.status = "ended")
    /\ row.status \in {"ringing", "active"} => Open(c) \/ c \in mixed' \/ \A d \in CallIds : ~Open(d)

\* A call that is open afterwards has its room, or its end is on the way; other rooms stay.
RoomsStand(q, c, row) ==
    /\ row.status \in {"ringing", "active"} /\ c \notin mixed' /\ lostHooks = 0 =>
           \/ c \in rooms' \/ <<"finished", c>> \in hooks'
           \/ \E x \in CallRequests \ {q} : handling[x].op \in {"end", "finished"} /\ handling[x].call = c
    /\ \A d \in CallIds \ {c} : d \in rooms => d \in rooms'
    /\ hooks \subseteq hooks' /\ rooms' \subseteq CallIds /\ hooks' \subseteq HookRow
    /\ present' \subseteq CallIds \X Guests /\ passes' \subseteq CallIds \X Guests

\* Such an end keeps the invariant.
LEMMA CallWriteKeeps ==
    ASSUME CallsInv, NEW q \in CallRequests, NEW c \in CallIds, NEW row \in CallRow, NEW n \in Nat,
           CallWrote(q, c, row, n), CallMayStand(c, row, n), RoomsStand(q, c, row)
    PROVE  CallsInv'
  <1>1. /\ handling' \in [CallRequests -> HandlerRow \cup {AtRest}] /\ handling'[q] = AtRest
        /\ \A x \in CallRequests \ {q} : handling'[x] = handling[x]
    BY DEF CallsInv, CallTypes, CallWrote
  <1>2. /\ calls' \in [CallIds -> CallRow] /\ calls'[c] = row /\ \A d \in CallIds \ {c} : calls'[d] = calls[d]
        /\ told' \in [CallIds -> Nat] /\ told'[c] = n /\ \A d \in CallIds \ {c} : told'[d] = told[d]
    BY DEF CallsInv, CallTypes, CallsTypeOK, CallWrote
  <1>3. CallTypes'
    BY <1>1, <1>2 DEF CallsInv, CallTypes, CallsTypeOK, CallWrote, CallMayStand, RoomsStand
  <1>4. StartsAlone'
    <2> SUFFICES ASSUME NEW x \in CallRequests, Starting(handling'[x])
                 PROVE  /\ calls'[handling'[x].call] = NoCall /\ handling'[x].seen = NoCall
                        /\ \A y \in CallRequests \ {x} : handling'[y] # AtRest
                                 => handling'[y].call # handling'[x].call
                        /\ handling'[x].op = "roomed" => handling'[x].call \in rooms'
      BY DEF StartsAlone
    <2>1. x # q /\ handling'[x] = handling[x] /\ Starting(handling[x])
      BY <1>1, HandlerIsThere
    <2>2. /\ calls[handling[x].call] = NoCall /\ handling[x].seen = NoCall
          /\ \A y \in CallRequests \ {x} : handling[y] # AtRest => handling[y].call # handling[x].call
          /\ handling[x].op = "roomed" => handling[x].call \in rooms
      BY <2>1 DEF CallsInv, StartsAlone
    <2>3. handling[x].call \in CallIds \ {c}
      BY <2>1, <2>2, HandlerIsThere DEF CallsInv, CallTypes, HandlerRow, CallWrote
    <2>4. \A y \in CallRequests \ {x} : handling'[y] # AtRest => handling'[y].call # handling[x].call
      BY <1>1, <2>1, <2>2
    <2> QED BY <1>2, <2>1, <2>2, <2>3, <2>4 DEF RoomsStand
  <1>5. OthersSaw'
    <2> SUFFICES ASSUME NEW x \in CallRequests, handling'[x] # AtRest, ~Starting(handling'[x])
                 PROVE  /\ handling'[x].seen.status \in CallStatus
                        /\ handling'[x].seen.status = "ended" /\ handling'[x].call \notin mixed'
                                 => calls'[handling'[x].call].status = "ended"
      BY DEF OthersSaw
    <2>1. x # q /\ handling'[x] = handling[x]
      BY <1>1
    <2>2. handling[x].call \in CallIds
      BY <1>1, <2>1 DEF CallsInv, CallTypes, HandlerRow
    <2> QED BY <1>2, <2>1, <2>2 DEF CallsInv, OthersSaw, CallWrote, CallMayStand
  <1>6. \A d \in CallIds \ mixed' : CallRowFits(calls'[d], told'[d])
    BY <1>2, CallRowsFit DEF CallWrote, CallMayStand
  <1>7. ToldAfterwards' /\ VerdictFits' /\ AnnouncedOnce'
    BY <1>6 DEF ToldAfterwards, VerdictFits, AnnouncedOnce, CallRowFits, Open, Closed
  <1>8. \A d \in CallIds : Open(d)' <=> IF d = c THEN row.status \in {"ringing", "active"} ELSE Open(d)
    BY <1>2 DEF Open
  <1>9. OneOpenCall'
    BY <1>8 DEF OneOpenCall, CallsInv, CallWrote, CallMayStand
  <1>10. OpenCallHasRoom'
    <2> SUFFICES ASSUME NEW d \in CallIds \ mixed', Open(d)', lostHooks = 0
                 PROVE  \/ d \in rooms' \/ <<"finished", d>> \in hooks'
                        \/ \E x \in CallRequests : handling'[x].op \in {"end", "finished"} /\ handling'[x].call = d
      BY DEF OpenCallHasRoom, CallWrote
    <2>1. CASE d = c
      BY <1>1, <1>8, <2>1 DEF RoomsStand
    <2>2. CASE d # c
      <3>1. d \notin mixed /\ Open(d)
        BY <1>8, <2>2 DEF CallWrote
      <3>2. \/ d \in rooms \/ <<"finished", d>> \in hooks
            \/ \E x \in CallRequests : handling[x].op \in {"end", "finished"} /\ handling[x].call = d
        BY <3>1 DEF CallsInv, OpenCallHasRoom
      <3>3. CASE d \in rooms
        BY <2>2, <3>3 DEF RoomsStand
      <3>4. CASE <<"finished", d>> \in hooks
        BY <3>4 DEF RoomsStand
      <3>5. CASE \E x \in CallRequests : handling[x].op \in {"end", "finished"} /\ handling[x].call = d
        <4>1. PICK x \in CallRequests : handling[x].op \in {"end", "finished"} /\ handling[x].call = d
          BY <3>5
        <4>2. x # q
          BY <2>2, <4>1 DEF CallWrote
        <4> QED BY <1>1, <4>1, <4>2
      <3> QED BY <3>2, <3>3, <3>4, <3>5
    <2> QED BY <2>1, <2>2
  <1> QED BY <1>3, <1>4, <1>5, <1>7, <1>9, <1>10 DEF CallsInv

\* What a handler that is under way is about.
LEMMA HandlerFacts ==
    ASSUME CallsInv, NEW q \in CallRequests, handling[q].op # "none"
    PROVE  /\ handling[q] \in HandlerRow /\ handling[q] # AtRest /\ handling[q].call \in CallIds
           /\ handling[q].who \in Guests
           /\ handling[q].seen \in CallRow
           /\ calls[handling[q].call] \in CallRow /\ told[handling[q].call] \in Nat
           /\ rooms \subseteq CallIds /\ hooks \subseteq HookRow /\ present \cup passes \subseteq CallIds \X Guests
  BY HandlerIsThere DEF CallsInv, CallTypes, CallsTypeOK, HandlerRow

\* A handler that ends without writing the row.
LEMMA CallsQuiet ==
    ASSUME CallsInv, NEW q \in CallRequests, handling[q].op # "none",
           handling' = [handling EXCEPT ![q] = AtRest], UNCHANGED <<calls, told, mixed, callSteps, lostHooks>>,
           Open(handling[q].call) /\ handling[q].call \notin mixed =>
               handling[q].op \notin {"end", "finished"} /\ UNCHANGED rooms,
           \A d \in CallIds \ {handling[q].call} : d \in rooms => d \in rooms',
           rooms' \subseteq CallIds, hooks \subseteq hooks', hooks' \subseteq HookRow,
           present' \subseteq CallIds \X Guests, passes' \subseteq CallIds \X Guests
    PROVE  CallsInv'
  <1>1. PICK c \in CallIds : c = handling[q].call /\ handling[q] # AtRest
    BY HandlerFacts
  <1>2. PICK row \in CallRow, n \in Nat : row = calls[c] /\ n = told[c]
    BY DEF CallsInv, CallTypes, CallsTypeOK
  <1>3. /\ calls' = [calls EXCEPT ![c] = row] /\ told' = [told EXCEPT ![c] = n]
        /\ row.status = "none" => row = NoCall
    BY <1>2 DEF CallsInv, CallTypes, CallsTypeOK
  <1>4. c \notin mixed => CallRowFits(row, n)
    BY <1>2, CallRowsFit
  <1>5. row.status \in {"ringing", "active"} => Open(c)
    BY <1>2 DEF Open
  <1>6. row.status \in {"ringing", "active"} /\ c \notin mixed' /\ lostHooks = 0 =>
               \/ c \in rooms' \/ <<"finished", c>> \in hooks'
               \/ \E x \in CallRequests \ {q} : handling[x].op \in {"end", "finished"} /\ handling[x].call = c
    BY <1>1, <1>5 DEF CallsInv, OpenCallHasRoom
  <1>7. CallWrote(q, c, row, n) /\ CallMayStand(c, row, n)
    BY <1>1, <1>2, <1>3, <1>4, <1>5 DEF CallWrote, CallMayStand
  <1>8. RoomsStand(q, c, row)
    BY <1>1, <1>6 DEF RoomsStand
  <1> QED BY <1>7, <1>8, CallWriteKeeps

\* The room is made, or cannot be.
LEMMA RoomMadeKeeps ==
    ASSUME CallsInv, NEW q \in CallRequests, MakeRoom(q) \/ NoRoom(q) PROVE CallsInv'
  <1>1. CASE MakeRoom(q)
    <2> DEFINE c == handling[q].call
    <2>1. PICK r \in HandlerRow : r = [handling[q] EXCEPT !.op = "roomed"]
      BY <1>1, HandlerFacts DEF MakeRoom, HandlerRow
    <2>2. /\ r.op = "roomed" /\ r.call = c /\ r.seen = handling[q].seen /\ Starting(handling[q])
          /\ handling[q].op = "start" /\ c \in CallIds
      BY <1>1, <2>1, HandlerFacts DEF MakeRoom, Starting, HandlerRow
    <2>3. /\ UNCHANGED <<calls, present, passes, hooks, told, mixed, callSteps, lostHooks>>
          /\ rooms' = rooms \cup {c} /\ handling' = [handling EXCEPT ![q] = r]
      BY <1>1, <2>1 DEF MakeRoom
    <2>4. /\ handling' \in [CallRequests -> HandlerRow \cup {AtRest}] /\ handling'[q] = r
          /\ \A x \in CallRequests \ {q} : handling'[x] = handling[x]
      BY <2>3 DEF CallsInv, CallTypes
    <2> HIDE DEF c
    <2>5. CallTypes'
      BY <2>2, <2>3, <2>4 DEF CallsInv, CallTypes, CallsTypeOK
    <2>6. StartsAlone'
      <3> SUFFICES ASSUME NEW x \in CallRequests, Starting(handling'[x])
                   PROVE  /\ calls[handling'[x].call] = NoCall /\ handling'[x].seen = NoCall
                          /\ \A y \in CallRequests \ {x} : handling'[y] # AtRest
                                   => handling'[y].call # handling'[x].call
                          /\ handling'[x].op = "roomed" => handling'[x].call \in rooms'
        BY <2>3 DEF StartsAlone
      <3>1. Starting(handling[x]) /\ handling'[x].call = handling[x].call /\ handling'[x].seen = handling[x].seen
        BY <2>2, <2>4 DEF c
      <3>2. \A y \in CallRequests : handling'[y].call = handling[y].call
               /\ (handling'[y] # AtRest => handling[y] # AtRest)
        BY <2>2, <2>4, HandlerIsThere DEF c
      <3>3. handling'[x].op = "roomed" => x = q \/ handling[x].op = "roomed"
        BY <2>4
      <3> QED BY <2>2, <2>3, <3>1, <3>2, <3>3 DEF CallsInv, StartsAlone, c
    <2>7. OthersSaw'
      BY <2>2, <2>3, <2>4 DEF CallsInv, OthersSaw, Starting
    <2>8. \A d \in CallIds : Open(d)' = Open(d) /\ Closed(d)' = Closed(d)
      BY <2>3 DEF Open, Closed
    <2>9. OpenCallHasRoom'
      BY <2>2, <2>3, <2>4, <2>8 DEF CallsInv, OpenCallHasRoom
    <2> QED BY <2>3, <2>5, <2>6, <2>7, <2>8, <2>9 DEF CallsInv, OneOpenCall, VerdictFits, AnnouncedOnce,
                 ToldAfterwards
  <1>2. CASE NoRoom(q)
    <2>1. handling[q].op = "start"
      BY <1>2 DEF NoRoom
    <2>2. calls[handling[q].call] = NoCall
      BY <2>1 DEF CallsInv, StartsAlone, Starting
    <2>3. UNCHANGED <<calls, rooms, present, passes, hooks, told, mixed, callSteps, lostHooks>>
          /\ handling' = [handling EXCEPT ![q] = AtRest]
      BY <1>2 DEF NoRoom, Done
    <2>4. ~Open(handling[q].call)
      BY <2>2, HandlerIsThere DEF Open
    <2> QED BY <2>1, <2>3, <2>4, HandlerFacts, CallsQuiet
  <1> QED BY <1>1, <1>2

\* The row of a new call is committed, or refused by the index.
LEMMA StartCommitKeeps == ASSUME CallsInv, NEW q \in CallRequests, StartCommit(q) PROVE CallsInv'
  <1> DEFINE c == handling[q].call
  <1>1. handling[q].op = "roomed" /\ handling' = [handling EXCEPT ![q] = AtRest] /\ c \in CallIds
    BY HandlerFacts DEF StartCommit, Done
  <1>2. calls[c] = NoCall /\ c \in rooms /\ handling[q].seen = NoCall
    BY <1>1 DEF CallsInv, StartsAlone, Starting
  <1>3. UNCHANGED <<rooms, present, hooks, told, callSteps, lostHooks>>
    BY DEF StartCommit
  <1>4. c \notin mixed => CallRowFits(NoCall, told[c]) /\ told[c] = 0
    BY <1>1, <1>2, CallRowsFit, HandlerIsThere DEF CallRowFits
  <1>5. CASE \E d \in CallIds : Open(d)
    <2>1. UNCHANGED <<calls, passes, mixed>>
      BY <1>5 DEF StartCommit
    <2>2. ~Open(c)
      BY <1>2, HandlerIsThere DEF Open
    <2> QED BY <1>1, <1>3, <2>1, <2>2, HandlerFacts, CallsQuiet
  <1>6. CASE \A d \in CallIds : ~Open(d)
    <2>1. PICK row \in CallRow :
              row = [status |-> "ringing", by |-> handling[q].who, answered |-> FALSE, over |-> FALSE]
      BY <1>1, HandlerFacts DEF CallRow, CallStatus
    <2>2. calls' = [calls EXCEPT ![c] = row] /\ UNCHANGED mixed /\ passes' = passes \cup {<<c, handling[q].who>>}
      BY <1>2, <1>6, <2>1 DEF StartCommit, Put
    <2>3. row.status = "ringing" /\ ~row.answered /\ ~row.over
      BY <2>1
    <2>4. told[c] = 0 => CallRowFits(row, told[c])
      BY <2>3 DEF CallRowFits
    <2>5. calls[c].status # "ended"
      BY <1>2, HandlerIsThere
    <2>6. PICK n \in Nat : n = told[c]
      BY <1>1, HandlerFacts
    <2>7. told' = [told EXCEPT ![c] = n]
      BY <1>3, <2>6 DEF CallsInv, CallTypes, CallsTypeOK
    <2>8. /\ rooms' \subseteq CallIds /\ hooks' \subseteq HookRow /\ present' \subseteq CallIds \X Guests
          /\ passes' \subseteq CallIds \X Guests /\ handling[q] # AtRest
      BY <1>1, <1>3, <2>2, HandlerFacts
    <2> HIDE DEF c
    <2>9. CallWrote(q, c, row, n)
      BY <1>1, <1>3, <2>2, <2>7, <2>8 DEF CallWrote, c
    <2>10. CallMayStand(c, row, n)
      BY <1>4, <1>6, <2>2, <2>3, <2>4, <2>5, <2>6 DEF CallMayStand
    <2>11. RoomsStand(q, c, row)
      BY <1>2, <1>3, <2>8 DEF RoomsStand
    <2> QED BY <1>1, <2>9, <2>10, <2>11, CallWriteKeeps
  <1> QED BY <1>5, <1>6

\* An answer: the call that was seen ringing becomes active, over whatever it is by now.
LEMMA CallAnswerKeeps ==
    ASSUME CallsInv, NEW q \in CallRequests, handling[q].op \in {"token", "joined"}, Done(q),
           LET r == handling[q] IN
           IF Answered(calls[r.call], r.seen, r.who) # calls[r.call]
           THEN Put(q, Answered(calls[r.call], r.seen, r.who)) ELSE UNCHANGED <<calls, mixed>>,
           passes \subseteq passes', passes' \subseteq CallIds \X Guests,
           UNCHANGED <<rooms, present, hooks, told, callSteps, lostHooks>>
    PROVE  CallsInv'
  <1> DEFINE c == handling[q].call
             s == handling[q].seen
  <1>1. /\ handling' = [handling EXCEPT ![q] = AtRest] /\ c \in CallIds /\ s.status # "none" /\ s \in CallRow
        /\ calls[c] \in CallRow /\ ~Starting(handling[q]) /\ handling[q] # AtRest
    BY HandlerFacts, HandlerIsThere DEF Done, CallsInv, OthersSaw, Starting, CallStatus
  <1>2. c \notin mixed => CallRowFits(calls[c], told[c])
    BY <1>1, CallRowsFit
  <1>3. Open(c) /\ c \notin mixed /\ lostHooks = 0 =>
               \/ c \in rooms \/ <<"finished", c>> \in hooks
               \/ \E x \in CallRequests \ {q} : handling[x].op \in {"end", "finished"} /\ handling[x].call = c
    BY <1>1 DEF CallsInv, OpenCallHasRoom
  <1>4. calls[c].status \in {"ringing", "active"} <=> Open(c)
    BY DEF Open
  <1>5. CASE Answered(calls[c], s, handling[q].who) = calls[c]
    <2>1. UNCHANGED <<calls, mixed>>
      BY <1>5
    <2>2. rooms' \subseteq CallIds /\ hooks' \subseteq HookRow /\ present' \subseteq CallIds \X Guests
      BY HandlerFacts
    <2> QED BY <1>1, <2>1, <2>2, CallsQuiet
  <1>6. CASE Answered(calls[c], s, handling[q].who) # calls[c]
    <2>1. PICK row \in CallRow : row = [calls[c] EXCEPT !.status = "active", !.answered = TRUE]
      BY <1>1 DEF CallRow, CallStatus
    <2>2. Answered(calls[c], s, handling[q].who) = row /\ s.status = "ringing"
      BY <1>6, <2>1 DEF Answered
    <2>3. /\ calls' = [calls EXCEPT ![c] = row]
          /\ mixed' = IF calls[c] # s THEN mixed \cup {c} ELSE mixed
      BY <1>6, <2>2 DEF Put
    <2>4. row.status = "active" /\ row.answered /\ row.over = calls[c].over
      BY <1>1, <2>1 DEF CallRow
    <2>5. c \notin mixed' => calls[c] = s /\ c \notin mixed
      BY <2>3
    <2>6. c \notin mixed' => CallRowFits(row, told[c]) /\ calls[c].status = "ringing"
      BY <1>2, <2>2, <2>4, <2>5 DEF CallRowFits
    <2>7. c \in mixed' \/ Open(c)
      BY <2>2, <2>5 DEF Open
    <2>8. mixed \subseteq mixed' /\ mixed' \subseteq mixed \cup {c}
      BY <2>3
    <2>9. PICK n \in Nat : n = told[c]
      BY <1>1, HandlerFacts
    <2>10. told' = [told EXCEPT ![c] = n]
      BY <2>9 DEF CallsInv, CallTypes, CallsTypeOK
    <2>11. rooms' \subseteq CallIds /\ hooks' \subseteq HookRow /\ present' \subseteq CallIds \X Guests
      BY HandlerFacts
    <2>12. c \notin mixed' /\ lostHooks = 0 =>
               \/ c \in rooms' \/ <<"finished", c>> \in hooks'
               \/ \E x \in CallRequests \ {q} : handling[x].op \in {"end", "finished"} /\ handling[x].call = c
      BY <1>3, <2>5, <2>7
    <2> HIDE DEF c, s
    <2>13. CallWrote(q, c, row, n)
      BY <1>1, <2>3, <2>8, <2>10 DEF CallWrote, c
    <2>14. CallMayStand(c, row, n)
      BY <2>4, <2>6, <2>7, <2>9 DEF CallMayStand
    <2>15. RoomsStand(q, c, row)
      BY <2>11, <2>12 DEF RoomsStand
    <2> QED BY <1>1, <2>13, <2>14, <2>15, CallWriteKeeps
  <1> QED BY <1>5, <1>6

\* An end: what was read decides between ended and missed, and it is announced; the room may go.
LEMMA CallCloseKeeps ==
    ASSUME CallsInv, NEW q \in CallRequests, handling[q].op \in {"end", "finished"}, Done(q), Close(q),
           rooms' \subseteq rooms, \A d \in CallIds \ {handling[q].call} : d \in rooms => d \in rooms',
           present' \subseteq present, hooks \subseteq hooks', hooks' \subseteq HookRow,
           UNCHANGED <<passes, callSteps, lostHooks>>
    PROVE  CallsInv'
  <1> DEFINE c == handling[q].call
             s == handling[q].seen
  <1>1. /\ handling' = [handling EXCEPT ![q] = AtRest] /\ c \in CallIds /\ s.status # "none" /\ s \in CallRow
        /\ calls[c] \in CallRow /\ told[c] \in Nat
        /\ s.status = "ended" /\ c \notin mixed => calls[c].status = "ended"
        /\ handling[q] # AtRest
    BY HandlerFacts, HandlerIsThere DEF Done, CallsInv, OthersSaw, Starting, CallStatus
  <1>2. c \notin mixed => CallRowFits(calls[c], told[c])
    BY <1>1, CallRowsFit
  <1>3. s # NoCall
    BY <1>1, HandlerIsThere
  <1>4. rooms' \subseteq CallIds /\ present' \subseteq CallIds \X Guests /\ passes' \subseteq CallIds \X Guests
    BY HandlerFacts
  <1>5. CASE s.status = "ended"
    <2>1. UNCHANGED <<calls, mixed, told>>
      BY <1>5 DEF Close, StillToEnd
    <2>2. Open(c) => c \in mixed
      BY <1>1, <1>5 DEF Open
    <2> QED BY <1>1, <1>4, <2>1, <2>2, CallsQuiet
  <1>6. CASE s.status # "ended"
    <2>1. PICK row \in CallRow :
               row = [calls[c] EXCEPT !.status = IF s.answered THEN "ended" ELSE "missed", !.over = TRUE]
      BY <1>1 DEF CallRow, CallStatus
    <2>2. Verdict(calls[c], s) = row
      BY <2>1 DEF Verdict
    <2>3. PICK n \in Nat : n = told[c] + 1
      BY <1>1
    <2>4. /\ calls' = [calls EXCEPT ![c] = row] /\ told' = [told EXCEPT ![c] = n]
          /\ mixed' = IF calls[c] # s THEN mixed \cup {c} ELSE mixed
      BY <1>3, <1>6, <2>2, <2>3 DEF Close, StillToEnd, Put
    <2>5. row.status = (IF s.answered THEN "ended" ELSE "missed") /\ row.answered = calls[c].answered /\ row.over
      BY <1>1, <2>1 DEF CallRow
    <2>6. c \notin mixed' => calls[c] = s /\ c \notin mixed
      BY <2>4
    <2>7. c \notin mixed' /\ s.answered => told[c] = 0
      BY <1>1, <1>2, <1>6, <2>6 DEF CallRowFits
    <2>8. c \notin mixed' => CallRowFits(row, n) /\ calls[c].status # "ended"
      BY <1>1, <1>6, <2>3, <2>5, <2>6, <2>7 DEF CallRowFits
    <2>9. row.status \in {"ended", "missed"}
      BY <2>5
    <2>10. mixed \subseteq mixed' /\ mixed' \subseteq mixed \cup {c}
      BY <2>4
    <2> HIDE DEF c, s
    <2>11. CallWrote(q, c, row, n)
      BY <1>1, <2>4, <2>10 DEF CallWrote, c
    <2>12. CallMayStand(c, row, n)
      BY <2>8, <2>9 DEF CallMayStand
    <2>13. RoomsStand(q, c, row)
      BY <1>4, <2>9 DEF RoomsStand, c
    <2> QED BY <1>1, <2>11, <2>12, <2>13, CallWriteKeeps
  <1> QED BY <1>5, <1>6

\* Every step of the calls keeps the invariant.
LEMMA CallsStep == CallsInv /\ [CallsNext]_callVars => CallsInv'
  <1> SUFFICES ASSUME CallsInv, [CallsNext]_callVars PROVE CallsInv'
    OBVIOUS
  <1>1. ASSUME NEW q \in CallRequests, TokenCommit(q) PROVE CallsInv'
    <2>1. handling[q].op = "token" /\ passes' = passes \cup {<<handling[q].call, handling[q].who>>}
      BY <1>1 DEF TokenCommit
    <2>2. passes' \subseteq CallIds \X Guests
      BY <2>1, HandlerFacts
    <2> QED BY <1>1, <2>1, <2>2, CallAnswerKeeps DEF TokenCommit
  <1>2. ASSUME NEW q \in CallRequests, JoinedCommit(q) PROVE CallsInv'
    <2>1. handling[q].op = "joined" /\ UNCHANGED passes
      BY <1>2 DEF JoinedCommit
    <2>2. passes' \subseteq CallIds \X Guests
      BY <2>1, HandlerFacts
    <2> QED BY <1>2, <2>1, <2>2, CallAnswerKeeps DEF JoinedCommit
  <1>3. ASSUME NEW q \in CallRequests, EndCommit(q) PROVE CallsInv'
    <2>1. handling[q].op = "end" /\ Done(q) /\ Close(q) /\ UNCHANGED <<passes, callSteps, lostHooks>>
      BY <1>3 DEF EndCommit
    <2>2. <<"finished", handling[q].call>> \in HookRow /\ hooks \subseteq HookRow
      BY <2>1, HandlerFacts DEF HookRow
    <2>3. CASE UNCHANGED <<rooms, present, hooks>>
      BY <2>1, <2>2, <2>3, CallCloseKeeps
    <2>4. CASE /\ rooms' = rooms \ {handling[q].call} /\ present' = {p \in present : p[1] # handling[q].call}
               /\ hooks' = hooks \cup {<<"finished", handling[q].call>>}
      BY <2>1, <2>2, <2>4, CallCloseKeeps
    <2> QED BY <1>3, <2>3, <2>4 DEF EndCommit
  <1>4. ASSUME NEW q \in CallRequests, FinishedCommit(q) PROVE CallsInv'
    <2>1. handling[q].op = "finished" /\ hooks \subseteq HookRow
      BY <1>4, HandlerFacts DEF FinishedCommit
    <2> QED BY <1>4, <2>1, CallCloseKeeps DEF FinishedCommit
  <1>5. ASSUME UNCHANGED callVars PROVE CallsInv'
    <2>1. \A c \in CallIds : Open(c)' = Open(c) /\ Closed(c)' = Closed(c)
      BY <1>5 DEF callVars, Open, Closed
    <2>2. UNCHANGED <<calls, rooms, present, passes, hooks, handling, told, mixed, callSteps, lostHooks>>
      BY <1>5 DEF callVars
    <2>3. CallTypes' /\ StartsAlone' /\ OthersSaw' /\ ToldAfterwards'
      BY <2>1, <2>2 DEF CallsInv, CallTypes, CallsTypeOK, StartsAlone, OthersSaw, ToldAfterwards
    <2> QED BY <2>1, <2>2, <2>3 DEF CallsInv, OneOpenCall, OpenCallHasRoom, VerdictFits, AnnouncedOnce
  <1>6. CASE CallsNext
    <2>1. ASSUME NEW q \in CallRequests,
                 \/ StartBegin(q) \/ MakeRoom(q) \/ NoRoom(q) \/ StartCommit(q) \/ TokenBegin(q) \/ EndBegin(q)
                 \/ \E h \in hooks : HookBegin(q, h)
          PROVE  CallsInv'
      BY <2>1, StartBeginKeeps, RoomMadeKeeps, StartCommitKeeps, TokenBeginKeeps, EndBeginKeeps, HookBeginKeeps
    <2> QED BY <1>1, <1>2, <1>3, <1>4, <1>6, <2>1, LiveKitKeeps DEF CallsNext
  <1> QED BY <1>5, <1>6

\* The invariant says what the properties do.
LEMMA CallsAreOK == CallsInv => CallsTypeOK /\ CallsOK
  BY DEF CallsInv, CallTypes, CallsOK

-----------------------------------------------------------------------------
(* Notices: the inductive invariant *)

NoticeKinds == OrderKinds \cup {"order_deleted", "call_initiated", "call_ended", "call_missed"}
TaskRow == [kind: NoticeKinds, about: NoticeOrders \cup NoticeCalls, to: SUBSET Notified, phase: {"ask", "store",
        "tell", "erase"}]
NoticeRow == [user: Notified, kind: NoticeKinds, about: NoticeOrders \cup NoticeCalls, read: BOOLEAN]

\* A task is about what its kind says, and comes to the phases of its kind.
TaskFits(t) ==
    /\ t.kind \in {"call_initiated", "call_ended", "call_missed"} => t.about \in NoticeCalls
    /\ t.kind = "call_ended" => t.phase = "tell"
    /\ t.phase = "erase" <=> t.kind = "order_deleted"

NoticeTypes ==
    /\ NoticesTypeOK
    /\ noticeTasks \in [Handlers -> TaskRow \cup {AtEase}]
    /\ \A h \in Handlers : noticeTasks[h] # AtEase => TaskFits(noticeTasks[h])
    /\ notices \subseteq NoticeRow
    /\ announced \in [NoticeCalls -> {"none", "started", "ended"}]
    /\ invited \in [NoticeCalls -> SUBSET Notified]

\* No event of a deleted order is being handled, unless one was at its deletion.
ErasedAlone ==
    \A h \in Handlers : noticeTasks[h] # AtEase =>
        /\ noticeTasks[h].kind \in OrderKinds => noticeTasks[h].about \notin erased \ atHand
        /\ noticeTasks[h].kind = "order_deleted" => noticeTasks[h].about \in erased

\* Who is told of a call takes part in it, or was rung instead; a call not announced has nobody.
InvitedOnly(t) == \A u \in t.to : u \in invited[t.about] \/ <<t.about, u>> \in standIns
OnlyThoseRing ==
    /\ \A k \in NoticeCalls : announced[k] = "none" => invited[k] = {}
    /\ \A x \in ringing : x[2] \in invited[x[1]] \/ x \in standIns
    /\ \A h \in Handlers : noticeTasks[h] # AtEase /\ noticeTasks[h].kind = "call_initiated"
          /\ noticeTasks[h].phase # "ask"
                           => InvitedOnly(noticeTasks[h])

\* The end of the call is on its way to a person.
EndOnItsWay(k, u) ==
    \E h \in Handlers : /\ noticeTasks[h] # AtEase /\ noticeTasks[h].kind = "call_ended"
                        /\ noticeTasks[h].about = k /\ u \in noticeTasks[h].to

\* The end of a call has reached, or passed, or is on its way to everyone who takes part.
EndReaches ==
    \A k \in NoticeCalls : announced[k] = "ended" =>
        \A u \in invited[k] : <<k, u>> \in hungUp \cup unheard \/ EndOnItsWay(k, u)

\* Who still rings has the end on its way, or is one of the exceptions.
RingingEnds ==
    \A x \in ringing : announced[x[1]] = "ended" =>
        x \in overtaken \cup unheard \cup standIns \/ EndOnItsWay(x[1], x[2])

OrderPart == ErasedAlone /\ NoOrphanNotices /\ LettersHaveNotices
CallPart == OnlyThoseRing /\ EndReaches /\ RingingEnds

NoticesInv == NoticeTypes /\ OrderPart /\ CallPart

\* A handler at rest, and one that is not.
LEMMA TasksAtEase ==
    /\ AtEase.phase = "idle" /\ AtEase.to = {}
    /\ \A t \in TaskRow : t # AtEase /\ t.phase # "idle" /\ t.kind \in NoticeKinds
    /\ \A t \in TaskRow \cup {AtEase} : t.phase # "idle" => t \in TaskRow /\ t # AtEase
  BY DEF AtEase, TaskRow

\* At first there is nothing to tell.
LEMMA NoticesStart == NoticesInit => NoticesInv
  <1> SUFFICES ASSUME NoticesInit PROVE NoticesInv
    OBVIOUS
  <1>1. \A h \in Handlers : noticeTasks[h] = AtEase
    BY DEF NoticesInit
  <1>2. NoticeTypes
    BY <1>1, TasksAtEase, NoticeAssumption DEF NoticesInit, NoticeTypes, NoticesTypeOK
  <1>3. OrderPart
    BY <1>1 DEF NoticesInit, OrderPart, ErasedAlone, NoOrphanNotices, LettersHaveNotices
  <1>4. CallPart
    BY <1>1 DEF NoticesInit, CallPart, OnlyThoseRing, EndReaches, RingingEnds
  <1> QED BY <1>2, <1>3, <1>4 DEF NoticesInv

-----------------------------------------------------------------------------
(* Notices: one task moves *)

TaskMoves(h, t) == noticeTasks' = [noticeTasks EXCEPT ![h] = t]

\* One handler moves, the others stand.
LEMMA OneTaskMoves ==
    ASSUME NoticesInv, NEW h \in Handlers, NEW t \in TaskRow \cup {AtEase}, TaskMoves(h, t)
    PROVE  /\ noticeTasks' \in [Handlers -> TaskRow \cup {AtEase}] /\ noticeTasks'[h] = t
           /\ \A x \in Handlers \ {h} : noticeTasks'[x] = noticeTasks[x]
  BY DEF NoticesInv, NoticeTypes, TaskMoves

\* A task is what its row says.
LEMMA TaskFacts ==
    ASSUME NoticesInv, NEW h \in Handlers, noticeTasks[h].phase # "idle"
    PROVE  /\ noticeTasks[h] \in TaskRow /\ noticeTasks[h] # AtEase /\ TaskFits(noticeTasks[h])
           /\ noticeTasks[h].to \subseteq Notified /\ noticeTasks[h].kind \in NoticeKinds
           /\ noticeTasks[h].about \in NoticeOrders \cup NoticeCalls
  BY TasksAtEase DEF NoticesInv, NoticeTypes, TaskRow

\* Types, when one task moves.
LEMMA TaskTypes ==
    ASSUME NoticesInv, NEW h \in Handlers, NEW t \in TaskRow \cup {AtEase}, TaskMoves(h, t),
           t # AtEase => TaskFits(t),
           notices' \subseteq NoticeRow, ringing' \cup hungUp' \subseteq NoticeCalls \X Notified,
           noticeSteps' \in 0..MaxNotices,
           announced' \in [NoticeCalls -> {"none", "started", "ended"}], invited' \in [NoticeCalls -> SUBSET Notified]
    PROVE  NoticeTypes'
  <1>1. /\ noticeTasks' \in [Handlers -> TaskRow \cup {AtEase}] /\ noticeTasks'[h] = t
        /\ \A x \in Handlers \ {h} : noticeTasks'[x] = noticeTasks[x]
    BY OneTaskMoves
  <1>2. \A r \in TaskRow \cup {AtEase} : r.to \subseteq Notified
    BY TasksAtEase DEF TaskRow
  <1>3. \A x \in Handlers : noticeTasks'[x] # AtEase => TaskFits(noticeTasks'[x])
    BY <1>1 DEF NoticesInv, NoticeTypes
  <1>4. NoticesTypeOK'
    BY <1>1, <1>2 DEF NoticesTypeOK, NoticeRow
  <1> QED BY <1>1, <1>3, <1>4 DEF NoticeTypes, TaskFits

\* The orders are not touched: no deletion is under way in this task, and it takes no deleted order.
LEMMA OrderPartStays ==
    ASSUME NoticesInv, NEW h \in Handlers, NEW t \in TaskRow \cup {AtEase}, TaskMoves(h, t),
           noticeTasks[h].phase # "erase",
           t # AtEase => /\ t.kind # "order_deleted"
                         /\ t.kind \in OrderKinds => \/ t.about \notin erased
                                                     \/ noticeTasks[h] # AtEase /\ noticeTasks[h].kind = t.kind
                                                           /\ noticeTasks[h].about = t.about,
           UNCHANGED <<notices, letters, erased, atHand>>
    PROVE  OrderPart'
  <1>1. /\ noticeTasks'[h] = t /\ \A x \in Handlers \ {h} : noticeTasks'[x] = noticeTasks[x]
    BY OneTaskMoves
  <1>2. ErasedAlone'
    BY <1>1 DEF NoticesInv, OrderPart, ErasedAlone
  <1>3. NoOrphanNotices'
    <2> SUFFICES ASSUME NEW n \in notices, n.kind \in OrderKinds, n.about \in erased, n.about \notin atHand
                 PROVE  \E x \in Handlers : noticeTasks'[x].phase = "erase" /\ noticeTasks'[x].about = n.about
      BY DEF NoOrphanNotices
    <2>1. PICK x \in Handlers : noticeTasks[x].phase = "erase" /\ noticeTasks[x].about = n.about
      BY DEF NoticesInv, OrderPart, NoOrphanNotices
    <2> QED BY <1>1, <2>1
  <1>4. LettersHaveNotices'
    BY DEF NoticesInv, OrderPart, LettersHaveNotices
  <1> QED BY <1>2, <1>3, <1>4 DEF OrderPart

\* The calls are not touched: the task told nobody of an end, and tells those it may of a call.
LEMMA CallPartStays ==
    ASSUME NoticesInv, NEW h \in Handlers, NEW t \in TaskRow \cup {AtEase}, TaskMoves(h, t),
           noticeTasks[h] # AtEase => noticeTasks[h].kind # "call_ended" \/ t = noticeTasks[h],
           t # AtEase /\ t.kind = "call_initiated" /\ t.phase # "ask"
                 => \A u \in t.to : u \in invited[t.about] \/ <<t.about, u>> \in standIns',
           standIns \subseteq standIns', unheard \subseteq unheard',
           UNCHANGED <<announced, invited, ringing, hungUp, overtaken>>
    PROVE  CallPart'
  <1>1. /\ noticeTasks'[h] = t /\ \A x \in Handlers \ {h} : noticeTasks'[x] = noticeTasks[x]
    BY OneTaskMoves
  <1>2. \A k, u : EndOnItsWay(k, u) => EndOnItsWay(k, u)'
    <2> SUFFICES ASSUME NEW k, NEW u, EndOnItsWay(k, u) PROVE EndOnItsWay(k, u)'
      OBVIOUS
    <2>1. PICK x \in Handlers : noticeTasks[x] # AtEase /\ noticeTasks[x].kind = "call_ended"
             /\ noticeTasks[x].about = k /\ u \in noticeTasks[x].to
      BY DEF EndOnItsWay
    <2>2. noticeTasks'[x] = noticeTasks[x]
      BY <1>1, <2>1
    <2> QED BY <2>1, <2>2 DEF EndOnItsWay
  <1>3. OnlyThoseRing'
    <2>1. \A x \in Handlers : noticeTasks'[x] # AtEase /\ noticeTasks'[x].kind = "call_initiated"
             /\ noticeTasks'[x].phase # "ask"
                              => InvitedOnly(noticeTasks[x])' \/ x = h
      BY <1>1 DEF NoticesInv, CallPart, OnlyThoseRing, InvitedOnly
    <2> QED BY <1>1, <2>1 DEF NoticesInv, CallPart, OnlyThoseRing, InvitedOnly
  <1>4. EndReaches' /\ RingingEnds'
    BY <1>2 DEF NoticesInv, CallPart, EndReaches, RingingEnds
  <1> QED BY <1>3, <1>4 DEF CallPart

-----------------------------------------------------------------------------
(* Notices: events arrive *)

\* What a handler knows of the event it takes up.
LEMMA TakeFacts ==
    ASSUME NoticesInv, NEW h \in Handlers, NEW kind \in NoticeKinds, NEW about \in NoticeOrders \cup NoticeCalls,
           NEW to \in SUBSET Notified, NEW phase \in {"ask", "store", "tell", "erase"}, Take(h, kind, about, to,
                   phase)
    PROVE  /\ [kind |-> kind, about |-> about, to |-> to, phase |-> phase] \in TaskRow
           /\ [kind |-> kind, about |-> about, to |-> to, phase |-> phase] # AtEase
           /\ noticeTasks[h] = AtEase /\ noticeTasks[h].phase = "idle" /\ noticeSteps' \in 0..MaxNotices
           /\ TaskMoves(h, [kind |-> kind, about |-> about, to |-> to, phase |-> phase])
  <1>1. [kind |-> kind, about |-> about, to |-> to, phase |-> phase] \in TaskRow
    BY DEF TaskRow
  <1>2. noticeSteps' \in 0..MaxNotices
    BY NoticeAssumption DEF Take, Count, NoticesInv, NoticeTypes, NoticesTypeOK
  <1> QED BY <1>1, <1>2, TasksAtEase DEF Take, TaskMoves

\* An event of an order, or a missed call.
LEMMA EventKeeps ==
    ASSUME NoticesInv, NEW h \in Handlers, OrderEvent(h) \/ CallMissed(h)
    PROVE  NoticesInv'
  <1>1. PICK kind \in {"order_created", "order_large_volume", "order_status", "call_missed"},
             about \in NoticeOrders \cup NoticeCalls, to \in SUBSET Notified, phase \in {"ask", "store"} :
             /\ Take(h, kind, about, to, phase)
             /\ kind = "call_missed" => about \in NoticeCalls
             /\ kind # "call_missed" => about \in NoticeOrders \ erased
    <2>1. CASE OrderEvent(h)
      <3>1. {Purchaser} \in SUBSET Notified /\ {} \in SUBSET Notified
        BY NoticeAssumption
      <3> QED BY <2>1, <3>1 DEF OrderEvent
    <2>2. CASE CallMissed(h)
      <3>1. PICK k \in NoticeCalls : Take(h, "call_missed", k, invited[k], "store")
        BY <2>2 DEF CallMissed
      <3>2. invited[k] \in SUBSET Notified
        BY DEF NoticesInv, NoticeTypes
      <3> QED BY <3>1, <3>2
    <2> QED BY <2>1, <2>2
  <1> DEFINE t == [kind |-> kind, about |-> about, to |-> to, phase |-> phase]
  <1>2. UNCHANGED <<notices, letters, announced, invited, ringing, hungUp, erased, atHand, overtaken, standIns,
                    unheard>>
    BY DEF OrderEvent, CallMissed
  <1>3. /\ t \in TaskRow /\ t # AtEase /\ noticeTasks[h] = AtEase /\ noticeTasks[h].phase = "idle"
        /\ noticeSteps' \in 0..MaxNotices /\ TaskMoves(h, t)
    <2>1. /\ kind \in NoticeKinds /\ about \in NoticeOrders \cup NoticeCalls /\ to \in SUBSET Notified
          /\ phase \in {"ask", "store", "tell", "erase"} /\ Take(h, kind, about, to, phase)
      BY <1>1 DEF NoticeKinds, OrderKinds
    <2> QED BY <2>1, TakeFacts
  <1>4. /\ TaskFits(t) /\ t.kind \notin {"order_deleted", "call_ended", "call_initiated"}
        /\ t.kind \in OrderKinds => t.about \notin erased
    BY <1>1 DEF TaskFits, OrderKinds
  <1> HIDE DEF t
  <1>5. NoticeTypes'
    BY <1>2, <1>3, <1>4, TaskTypes DEF NoticesInv, NoticeTypes, NoticesTypeOK
  <1>6. OrderPart'
    BY <1>2, <1>3, <1>4, OrderPartStays
  <1>7. CallPart'
    BY <1>2, <1>3, <1>4, CallPartStays
  <1> QED BY <1>5, <1>6, <1>7 DEF NoticesInv

\* An order is deleted: who is handling an event of it is noted.
LEMMA OrderErasedKeeps == ASSUME NoticesInv, NEW h \in Handlers, OrderErased(h) PROVE NoticesInv'
  <1>1. PICK o \in NoticeOrders \ erased :
             /\ Take(h, "order_deleted", o, {}, "erase") /\ erased' = erased \cup {o}
             /\ atHand' = (IF UnderWayFor(o) # {} THEN atHand \cup {o} ELSE atHand)
             /\ UNCHANGED <<notices, letters, announced, invited, ringing, hungUp, overtaken, standIns, unheard>>
    BY DEF OrderErased
  <1> DEFINE t == [kind |-> "order_deleted", about |-> o, to |-> {}, phase |-> "erase"]
  <1>2. /\ t \in TaskRow /\ t # AtEase /\ noticeTasks[h] = AtEase
        /\ noticeSteps' \in 0..MaxNotices /\ TaskMoves(h, t)
    <2>1. "order_deleted" \in NoticeKinds /\ {} \in SUBSET Notified
      BY DEF NoticeKinds
    <2> QED BY <1>1, <2>1, TakeFacts
  <1>3. TaskFits(t) /\ t.kind = "order_deleted" /\ t.about = o /\ t.phase = "erase" /\ t.kind \notin OrderKinds
    BY DEF TaskFits, OrderKinds
  <1> HIDE DEF t
  <1>4. NoticeTypes'
    BY <1>1, <1>2, <1>3, TaskTypes DEF NoticesInv, NoticeTypes, NoticesTypeOK
  <1>5. CallPart'
    BY <1>1, <1>2, <1>3, CallPartStays
  <1>6. /\ noticeTasks'[h] = t /\ \A x \in Handlers \ {h} : noticeTasks'[x] = noticeTasks[x]
    BY <1>2, OneTaskMoves
  <1>7. ErasedAlone'
    <2> SUFFICES ASSUME NEW x \in Handlers, noticeTasks'[x] # AtEase
                 PROVE  /\ noticeTasks'[x].kind \in OrderKinds => noticeTasks'[x].about \notin erased' \ atHand'
                        /\ noticeTasks'[x].kind = "order_deleted" => noticeTasks'[x].about \in erased'
      BY DEF ErasedAlone
    <2>1. CASE x = h
      BY <1>1, <1>3, <1>6, <2>1
    <2>2. CASE x # h
      <3>1. /\ noticeTasks[x] # AtEase /\ noticeTasks[x].phase # "idle" /\ noticeTasks'[x] = noticeTasks[x]
            /\ noticeTasks[x].kind \in OrderKinds => noticeTasks[x].about \notin erased \ atHand
            /\ noticeTasks[x].kind = "order_deleted" => noticeTasks[x].about \in erased
        BY <1>6, <2>2, TasksAtEase DEF NoticesInv, NoticeTypes, OrderPart, ErasedAlone
      <3>2. noticeTasks[x].about = o => o \in atHand'
        BY <1>1, <3>1 DEF UnderWayFor
      <3> QED BY <1>1, <3>1, <3>2
    <2> QED BY <2>1, <2>2
  <1>8. NoOrphanNotices'
    <2> SUFFICES ASSUME NEW n \in notices, n.kind \in OrderKinds, n.about \in erased', n.about \notin atHand'
                 PROVE  \E x \in Handlers : noticeTasks'[x].phase = "erase" /\ noticeTasks'[x].about = n.about
      BY <1>1 DEF NoOrphanNotices
    <2>1. CASE n.about = o
      BY <1>3, <1>6, <2>1
    <2>2. CASE n.about # o
      <3>1. n.about \in erased /\ n.about \notin atHand
        BY <1>1, <2>2
      <3>2. PICK x \in Handlers : noticeTasks[x].phase = "erase" /\ noticeTasks[x].about = n.about
        BY <3>1 DEF NoticesInv, OrderPart, NoOrphanNotices
      <3>3. x # h
        BY <1>2, <3>2, TasksAtEase
      <3> QED BY <1>6, <3>2, <3>3
    <2> QED BY <2>1, <2>2
  <1>9. LettersHaveNotices'
    BY <1>1 DEF NoticesInv, OrderPart, LettersHaveNotices
  <1> QED BY <1>4, <1>5, <1>7, <1>8, <1>9 DEF NoticesInv, OrderPart

\* A call is announced: whoever it names takes part in it from now on.
LEMMA CallStartedKeeps == ASSUME NoticesInv, NEW h \in Handlers, CallStarted(h) PROVE NoticesInv'
  <1>1. PICK k \in NoticeCalls, to \in {{Purchaser}, {}} :
             /\ announced[k] = "none"
             /\ Take(h, "call_initiated", k, to, IF to = {} THEN "ask" ELSE "store")
             /\ announced' = [announced EXCEPT ![k] = "started"] /\ invited' = [invited EXCEPT ![k] = to]
             /\ UNCHANGED <<notices, letters, ringing, hungUp, erased, atHand, overtaken, standIns, unheard>>
    BY DEF CallStarted
  <1>2. PICK phase \in {"ask", "store"} : Take(h, "call_initiated", k, to, phase)
    BY <1>1
  <1> DEFINE t == [kind |-> "call_initiated", about |-> k, to |-> to, phase |-> phase]
  <1>3. to \in SUBSET Notified
    BY NoticeAssumption
  <1>4. /\ t \in TaskRow /\ t # AtEase /\ noticeTasks[h] = AtEase /\ noticeTasks[h].phase = "idle"
        /\ noticeSteps' \in 0..MaxNotices /\ TaskMoves(h, t)
    <2>1. "call_initiated" \in NoticeKinds /\ k \in NoticeOrders \cup NoticeCalls
             /\ phase \in {"ask", "store", "tell", "erase"}
      BY <1>2 DEF NoticeKinds
    <2>2. ASSUME NEW kind \in NoticeKinds, NEW about \in NoticeOrders \cup NoticeCalls, NEW who \in SUBSET Notified,
                 NEW p \in {"ask", "store", "tell", "erase"}, Take(h, kind, about, who, p)
          PROVE  /\ [kind |-> kind, about |-> about, to |-> who, phase |-> p] \in TaskRow
                 /\ [kind |-> kind, about |-> about, to |-> who, phase |-> p] # AtEase
                 /\ noticeTasks[h] = AtEase /\ noticeTasks[h].phase = "idle" /\ noticeSteps' \in 0..MaxNotices
                 /\ TaskMoves(h, [kind |-> kind, about |-> about, to |-> who, phase |-> p])
      BY <2>2, TakeFacts
    <2>3. Take(h, "call_initiated", k, to, phase)
      BY <1>2
    <2> QED BY <1>3, <2>1, <2>2, <2>3
  <1>5. TaskFits(t) /\ t.kind = "call_initiated" /\ t.about = k /\ t.to = to /\ t.kind \notin OrderKinds
    BY DEF TaskFits, OrderKinds
  <1> HIDE DEF t
  <1>6. /\ announced' \in [NoticeCalls -> {"none", "started", "ended"}]
        /\ invited' \in [NoticeCalls -> SUBSET Notified]
        /\ announced'[k] = "started" /\ invited'[k] = to /\ invited[k] = {}
        /\ \A c \in NoticeCalls \ {k} : announced'[c] = announced[c] /\ invited'[c] = invited[c]
    BY <1>1, <1>3 DEF NoticesInv, NoticeTypes, CallPart, OnlyThoseRing
  <1>7. NoticeTypes'
    BY <1>1, <1>4, <1>5, <1>6, TaskTypes DEF NoticesInv, NoticeTypes, NoticesTypeOK
  <1>8. OrderPart'
    BY <1>1, <1>4, <1>5, OrderPartStays
  <1>9. /\ noticeTasks'[h] = t /\ \A x \in Handlers \ {h} : noticeTasks'[x] = noticeTasks[x]
    BY <1>4, OneTaskMoves
  <1>10. \A c, u : EndOnItsWay(c, u) => EndOnItsWay(c, u)'
    <2> SUFFICES ASSUME NEW c, NEW u, EndOnItsWay(c, u) PROVE EndOnItsWay(c, u)'
      OBVIOUS
    <2>1. PICK x \in Handlers : noticeTasks[x] # AtEase /\ noticeTasks[x].kind = "call_ended"
             /\ noticeTasks[x].about = c /\ u \in noticeTasks[x].to
      BY DEF EndOnItsWay
    <2>2. noticeTasks'[x] = noticeTasks[x]
      BY <1>4, <1>9, <2>1
    <2> QED BY <2>1, <2>2 DEF EndOnItsWay
  <1>11. \A x \in ringing : x[1] \in NoticeCalls /\ invited[x[1]] \subseteq invited'[x[1]]
            /\ (announced'[x[1]] = "ended" => announced[x[1]] = "ended")
    BY <1>6 DEF NoticesInv, NoticeTypes, NoticesTypeOK
  <1>12. OnlyThoseRing'
    <2>1. \A c \in NoticeCalls : announced'[c] = "none" => invited'[c] = {}
      BY <1>6 DEF NoticesInv, CallPart, OnlyThoseRing
    <2>2. \A x \in ringing' : x[2] \in invited'[x[1]] \/ x \in standIns'
      BY <1>1, <1>11 DEF NoticesInv, CallPart, OnlyThoseRing
    <2>3. ASSUME NEW x \in Handlers, noticeTasks'[x] # AtEase, noticeTasks'[x].kind = "call_initiated",
                 noticeTasks'[x].phase # "ask",
                 NEW u \in noticeTasks'[x].to
          PROVE  u \in invited'[noticeTasks'[x].about] \/ <<noticeTasks'[x].about, u>> \in standIns'
      <3>1. CASE x = h
        BY <1>5, <1>6, <1>9, <2>3, <3>1
      <3>2. CASE x # h
        <4>1. /\ noticeTasks'[x] = noticeTasks[x] /\ noticeTasks[x].about \in NoticeCalls
              /\ u \in invited[noticeTasks[x].about] \/ <<noticeTasks[x].about, u>> \in standIns
          BY <1>9, <2>3, <3>2 DEF NoticesInv, NoticeTypes, TaskFits, CallPart, OnlyThoseRing, InvitedOnly
        <4> QED BY <1>1, <1>6, <4>1
      <3> QED BY <3>1, <3>2
    <2> QED BY <2>1, <2>2, <2>3 DEF OnlyThoseRing, InvitedOnly
  <1>13. EndReaches'
    BY <1>1, <1>6, <1>10 DEF NoticesInv, CallPart, EndReaches
  <1>14. RingingEnds'
    BY <1>1, <1>10, <1>11 DEF NoticesInv, CallPart, RingingEnds
  <1> QED BY <1>7, <1>8, <1>12, <1>13, <1>14 DEF NoticesInv, CallPart

\* The end of a call is announced: from now on it is on its way to everyone who takes part.
LEMMA CallOverKeeps == ASSUME NoticesInv, NEW h \in Handlers, CallOver(h) PROVE NoticesInv'
  <1>1. PICK k \in NoticeCalls :
             /\ announced[k] # "none" /\ Take(h, "call_ended", k, EndedTo(k), "tell")
             /\ announced' = [announced EXCEPT ![k] = "ended"]
             /\ UNCHANGED <<notices, letters, invited, ringing, hungUp, erased, atHand, overtaken, standIns, unheard>>
    BY DEF CallOver
  <1> DEFINE t == [kind |-> "call_ended", about |-> k, to |-> EndedTo(k), phase |-> "tell"]
  <1>2. /\ t \in TaskRow /\ t # AtEase /\ noticeTasks[h] = AtEase /\ noticeTasks[h].phase = "idle"
        /\ noticeSteps' \in 0..MaxNotices /\ TaskMoves(h, t)
    <2>1. "call_ended" \in NoticeKinds /\ EndedTo(k) \in SUBSET Notified
      BY NoticeAssumption DEF NoticeKinds, EndedTo, NoticesInv, NoticeTypes
    <2> QED BY <1>1, <2>1, TakeFacts
  <1>3. TaskFits(t) /\ t.kind = "call_ended" /\ t.about = k /\ t.kind \notin OrderKinds /\ invited[k] \subseteq t.to
    BY DEF TaskFits, OrderKinds, EndedTo
  <1> HIDE DEF t
  <1>4. /\ announced' \in [NoticeCalls -> {"none", "started", "ended"}] /\ announced'[k] = "ended"
        /\ \A c \in NoticeCalls \ {k} : announced'[c] = announced[c]
    BY <1>1 DEF NoticesInv, NoticeTypes
  <1>5. NoticeTypes'
    BY <1>1, <1>2, <1>3, <1>4, TaskTypes DEF NoticesInv, NoticeTypes, NoticesTypeOK
  <1>6. OrderPart'
    BY <1>1, <1>2, <1>3, OrderPartStays
  <1>7. /\ noticeTasks'[h] = t /\ \A x \in Handlers \ {h} : noticeTasks'[x] = noticeTasks[x]
    BY <1>2, OneTaskMoves
  <1>8. /\ \A c, u : EndOnItsWay(c, u) => EndOnItsWay(c, u)'
        /\ \A u \in invited[k] : EndOnItsWay(k, u)'
    <2>1. ASSUME NEW c, NEW u, EndOnItsWay(c, u) PROVE EndOnItsWay(c, u)'
      <3>1. PICK x \in Handlers : noticeTasks[x] # AtEase /\ noticeTasks[x].kind = "call_ended"
               /\ noticeTasks[x].about = c /\ u \in noticeTasks[x].to
        BY <2>1 DEF EndOnItsWay
      <3>2. noticeTasks'[x] = noticeTasks[x]
        BY <1>2, <1>7, <3>1
      <3> QED BY <3>1, <3>2 DEF EndOnItsWay
    <2>2. \A u \in invited[k] : EndOnItsWay(k, u)'
      BY <1>2, <1>3, <1>7 DEF EndOnItsWay
    <2> QED BY <2>1, <2>2
  <1>9. OnlyThoseRing'
    <2>1. \A c \in NoticeCalls : announced'[c] = "none" => announced[c] = "none"
      BY <1>4
    <2> QED BY <1>1, <1>2, <1>3, <1>7, <2>1 DEF NoticesInv, CallPart, OnlyThoseRing, InvitedOnly
  <1>10. EndReaches'
    <2> SUFFICES ASSUME NEW c \in NoticeCalls, announced'[c] = "ended", NEW u \in invited[c]
                 PROVE  <<c, u>> \in hungUp \cup unheard \/ EndOnItsWay(c, u)'
      BY <1>1 DEF EndReaches
    <2> QED BY <1>4, <1>8 DEF NoticesInv, CallPart, EndReaches
  <1>11. RingingEnds'
    <2> SUFFICES ASSUME NEW x \in ringing, announced'[x[1]] = "ended"
                 PROVE  x \in overtaken \cup unheard \cup standIns \/ EndOnItsWay(x[1], x[2])'
      BY <1>1 DEF RingingEnds
    <2>1. x[1] \in NoticeCalls /\ (x[2] \in invited[x[1]] \/ x \in standIns)
      BY DEF NoticesInv, NoticeTypes, NoticesTypeOK, CallPart, OnlyThoseRing
    <2>2. CASE x[1] = k
      BY <1>8, <2>1, <2>2
    <2>3. CASE x[1] # k
      BY <1>4, <1>8, <2>1, <2>3 DEF NoticesInv, CallPart, RingingEnds
    <2> QED BY <2>2, <2>3
  <1> QED BY <1>5, <1>6, <1>9, <1>10, <1>11 DEF NoticesInv, CallPart

-----------------------------------------------------------------------------
(* Notices: a task goes on *)

\* A task that goes on without writing a notice.
LEMMA AsksOrGivesUp ==
    ASSUME NoticesInv, NEW h \in Handlers, Recipients(h) \/ GiveUp(h)
    PROVE  NoticesInv'
  <1>1. /\ noticeTasks[h].phase \in {"ask", "tell"}
        /\ UNCHANGED <<notices, letters, announced, invited, ringing, hungUp, erased, atHand, overtaken, unheard,
                       noticeSteps>>
    BY DEF Recipients, GiveUp
  <1>2. /\ noticeTasks[h] \in TaskRow /\ noticeTasks[h] # AtEase /\ TaskFits(noticeTasks[h])
        /\ noticeTasks[h].kind # "order_deleted" /\ noticeTasks[h].kind # "call_ended"
    BY <1>1, TaskFacts DEF TaskFits, GiveUp, Recipients
  <1>3. PICK t \in TaskRow \cup {AtEase} :
             /\ TaskMoves(h, t) /\ standIns \subseteq standIns'
             /\ t # AtEase => /\ t.kind = noticeTasks[h].kind /\ t.about = noticeTasks[h].about /\ t.phase = "store"
                              /\ t.kind = "call_initiated" => \A u \in t.to : <<t.about, u>> \in standIns'
    <2>1. CASE GiveUp(h)
      BY <2>1 DEF GiveUp, TaskMoves
    <2>2. CASE Recipients(h)
      <3>1. PICK found \in {StaffPeople, {}} :
               LET to == IF noticeTasks[h].kind = "call_initiated" THEN found \ {Dialler}
                            ELSE noticeTasks[h].to \cup found IN
               /\ noticeTasks' = [noticeTasks EXCEPT ![h] = IF to = {} THEN AtEase
                                                               ELSE [@ EXCEPT !.to = to, !.phase = "store"]]
               /\ standIns' = IF noticeTasks[h].kind = "call_initiated"
                              THEN standIns \cup {<<noticeTasks[h].about, u>> : u \in to} ELSE standIns
        BY <2>2 DEF Recipients
      <3> DEFINE to == IF noticeTasks[h].kind = "call_initiated" THEN found \ {Dialler}
                          ELSE noticeTasks[h].to \cup found
                 t == [noticeTasks[h] EXCEPT !.to = to, !.phase = "store"]
      <3>2. to \in SUBSET Notified
        BY <1>2, NoticeAssumption DEF TaskRow
      <3>3. /\ noticeTasks' = [noticeTasks EXCEPT ![h] = IF to = {} THEN AtEase ELSE t]
            /\ standIns' = IF noticeTasks[h].kind = "call_initiated"
                           THEN standIns \cup {<<noticeTasks[h].about, u>> : u \in to} ELSE standIns
        BY <1>2, <3>1 DEF NoticesInv, NoticeTypes
      <3> HIDE DEF to
      <3>4. /\ t \in TaskRow /\ t.kind = noticeTasks[h].kind /\ t.about = noticeTasks[h].about /\ t.phase = "store"
            /\ t.to = to
        BY <1>2, <3>2 DEF TaskRow
      <3> HIDE DEF t
      <3>5. CASE to = {}
        BY <3>3, <3>5 DEF TaskMoves
      <3>6. CASE to # {}
        BY <3>3, <3>4, <3>6 DEF TaskMoves
      <3> QED BY <3>5, <3>6
    <2> QED BY <2>1, <2>2
  <1>4. t # AtEase => /\ TaskFits(t) /\ t.kind # "order_deleted" /\ t.kind # "call_ended"
    BY <1>2, <1>3 DEF TaskFits
  <1>5. NoticeTypes'
    BY <1>1, <1>3, <1>4, TaskTypes DEF NoticesInv, NoticeTypes, NoticesTypeOK
  <1>6. OrderPart'
    BY <1>1, <1>2, <1>3, <1>4, OrderPartStays
  <1>7. CallPart'
    BY <1>1, <1>2, <1>3, <1>4, CallPartStays
  <1> QED BY <1>5, <1>6, <1>7 DEF NoticesInv

\* The notices are written with their letters, or neither is.
LEMMA StoreKeeps == ASSUME NoticesInv, NEW h \in Handlers, Store(h) PROVE NoticesInv'
  <1> DEFINE r == noticeTasks[h]
             t == [r EXCEPT !.phase = "tell"]
  <1>1. /\ r.phase = "store"
        /\ UNCHANGED <<announced, invited, ringing, hungUp, erased, atHand, overtaken, standIns, unheard,
                       noticeSteps>>
        /\ \/ notices' = notices \cup RowsOf(r) /\ letters' = letters \cup LettersOf(r)
                 /\ noticeTasks' = [noticeTasks EXCEPT ![h].phase = "tell"]
           \/ noticeTasks' = [noticeTasks EXCEPT ![h] = AtEase] /\ UNCHANGED <<notices, letters>>
    BY DEF Store
  <1>2. r \in TaskRow /\ r # AtEase /\ TaskFits(r) /\ r.kind \notin {"order_deleted", "call_ended"}
    BY <1>1, TaskFacts DEF TaskFits
  <1>3. t \in TaskRow /\ t # AtEase /\ TaskFits(t) /\ t.kind = r.kind /\ t.about = r.about /\ t.to = r.to
           /\ t.phase = "tell"
    <2>1. t \in TaskRow /\ t.kind = r.kind /\ t.about = r.about /\ t.to = r.to /\ t.phase = "tell"
      BY <1>2 DEF TaskRow
    <2> HIDE DEF t
    <2> QED BY <1>1, <1>2, <2>1, TasksAtEase DEF TaskFits
  <1>4. CASE noticeTasks' = [noticeTasks EXCEPT ![h] = AtEase] /\ UNCHANGED <<notices, letters>>
    <2>1. TaskMoves(h, AtEase)
      BY <1>4 DEF TaskMoves
    <2>2. NoticeTypes'
      BY <1>1, <1>4, <2>1, TaskTypes DEF NoticesInv, NoticeTypes, NoticesTypeOK
    <2>3. OrderPart'
      BY <1>1, <1>4, <2>1, OrderPartStays
    <2>4. CallPart'
      BY <1>1, <1>2, <1>4, <2>1, CallPartStays
    <2> QED BY <2>2, <2>3, <2>4 DEF NoticesInv
  <1>5. CASE notices' = notices \cup RowsOf(r) /\ letters' = letters \cup LettersOf(r)
           /\ noticeTasks' = [noticeTasks EXCEPT ![h].phase = "tell"]
    <2>1. TaskMoves(h, t)
      BY <1>5 DEF TaskMoves, NoticesInv, NoticeTypes
    <2>2. /\ noticeTasks'[h] = t /\ \A x \in Handlers \ {h} : noticeTasks'[x] = noticeTasks[x]
      BY <1>3, <2>1, OneTaskMoves
    <2> HIDE DEF t
    <2>3. RowsOf(r) \subseteq NoticeRow
      <3>1. r.kind \in NoticeKinds /\ r.about \in NoticeOrders \cup NoticeCalls /\ r.to \subseteq Notified
        BY <1>2 DEF TaskRow
      <3>2. \A u \in r.to : [user |-> u, kind |-> r.kind, about |-> r.about, read |-> FALSE] \in NoticeRow
        BY <3>1 DEF NoticeRow
      <3> QED BY <3>2 DEF RowsOf
    <2>4. NoticeTypes'
      BY <1>1, <1>3, <1>5, <2>1, <2>3, TaskTypes DEF NoticesInv, NoticeTypes, NoticesTypeOK
    <2>5. CallPart'
      <3>1. t.kind = "call_initiated" => \A u \in t.to : u \in invited[t.about] \/ <<t.about, u>> \in standIns
        BY <1>1, <1>2, <1>3 DEF NoticesInv, CallPart, OnlyThoseRing, InvitedOnly
      <3> QED BY <1>1, <1>2, <1>3, <2>1, <3>1, CallPartStays
    <2>6. ErasedAlone'
      BY <1>1, <1>2, <1>3, <2>2 DEF NoticesInv, OrderPart, ErasedAlone
    <2>7. NoOrphanNotices'
      <3> SUFFICES ASSUME NEW n \in notices', n.kind \in OrderKinds, n.about \in erased, n.about \notin atHand
                   PROVE  \E x \in Handlers : noticeTasks'[x].phase = "erase" /\ noticeTasks'[x].about = n.about
        BY <1>1 DEF NoOrphanNotices
      <3>1. n \notin RowsOf(r)
        <4>1. r.kind \in OrderKinds => r.about \notin erased \ atHand
          BY <1>2 DEF NoticesInv, OrderPart, ErasedAlone
        <4> QED BY <4>1 DEF RowsOf
      <3>2. PICK x \in Handlers : noticeTasks[x].phase = "erase" /\ noticeTasks[x].about = n.about
        BY <1>5, <3>1 DEF NoticesInv, OrderPart, NoOrphanNotices
      <3> QED BY <1>1, <2>2, <3>2
    <2>8. LettersHaveNotices'
      <3> SUFFICES ASSUME NEW l \in letters', l[3] \notin erased
                   PROVE  \E n \in notices' : n.user = l[1] /\ n.kind = l[2] /\ n.about = l[3]
        BY <1>1 DEF LettersHaveNotices
      <3>1. CASE l \in letters
        BY <1>5, <3>1 DEF NoticesInv, OrderPart, LettersHaveNotices
      <3>2. CASE l \in LettersOf(r)
        <4>1. PICK u \in r.to : l = <<u, r.kind, r.about>>
          BY <3>2 DEF LettersOf
        <4>2. [user |-> u, kind |-> r.kind, about |-> r.about, read |-> FALSE] \in notices'
          BY <1>5, <4>1 DEF RowsOf
        <4> QED BY <4>1, <4>2
      <3> QED BY <1>5, <3>1, <3>2
    <2> QED BY <2>4, <2>5, <2>6, <2>7, <2>8 DEF NoticesInv, OrderPart
  <1> QED BY <1>1, <1>4, <1>5

\* The notices of a deleted order are deleted.
LEMMA EraseKeeps == ASSUME NoticesInv, NEW h \in Handlers, Erase(h) PROVE NoticesInv'
  <1> DEFINE o == noticeTasks[h].about
  <1>1. /\ noticeTasks[h].phase = "erase" /\ notices' = notices \ OfOrder(o) /\ TaskMoves(h, AtEase)
        /\ UNCHANGED <<letters, announced, invited, ringing, hungUp, erased, atHand, overtaken, standIns, unheard,
                       noticeSteps>>
    BY DEF Erase, TaskMoves
  <1>2. noticeTasks[h] # AtEase /\ noticeTasks[h].kind = "order_deleted" /\ o \in erased
    BY <1>1, TaskFacts DEF TaskFits, NoticesInv, OrderPart, ErasedAlone
  <1>3. /\ noticeTasks'[h] = AtEase /\ \A x \in Handlers \ {h} : noticeTasks'[x] = noticeTasks[x]
    BY <1>1, OneTaskMoves
  <1>4. NoticeTypes'
    BY <1>1, TaskTypes DEF NoticesInv, NoticeTypes, NoticesTypeOK
  <1>5. CallPart'
    BY <1>1, <1>2, CallPartStays
  <1>6. ErasedAlone'
    BY <1>1, <1>3 DEF NoticesInv, OrderPart, ErasedAlone
  <1>7. NoOrphanNotices'
    <2> SUFFICES ASSUME NEW n \in notices \ OfOrder(o), n.kind \in OrderKinds, n.about \in erased,
                        n.about \notin atHand
                 PROVE  \E x \in Handlers : noticeTasks'[x].phase = "erase" /\ noticeTasks'[x].about = n.about
      BY <1>1 DEF NoOrphanNotices
    <2>1. PICK x \in Handlers : noticeTasks[x].phase = "erase" /\ noticeTasks[x].about = n.about
      BY DEF NoticesInv, OrderPart, NoOrphanNotices
    <2>2. x # h
      BY <2>1 DEF OfOrder
    <2> QED BY <1>3, <2>1, <2>2
  <1>8. LettersHaveNotices'
    <2> SUFFICES ASSUME NEW l \in letters, l[3] \notin erased
                 PROVE  \E n \in notices' : n.user = l[1] /\ n.kind = l[2] /\ n.about = l[3]
      BY <1>1 DEF LettersHaveNotices
    <2>1. PICK n \in notices : n.user = l[1] /\ n.kind = l[2] /\ n.about = l[3]
      BY DEF NoticesInv, OrderPart, LettersHaveNotices
    <2>2. n \notin OfOrder(o)
      BY <1>2, <2>1 DEF OfOrder
    <2> QED BY <1>1, <2>1, <2>2
  <1> QED BY <1>4, <1>5, <1>6, <1>7, <1>8 DEF NoticesInv, OrderPart

\* Someone reads his notices.
LEMMA ReadAllKeeps == ASSUME NoticesInv, NEW u \in Notified, ReadAll(u) PROVE NoticesInv'
  <1> DEFINE seen(n) == IF n.user = u THEN [n EXCEPT !.read = TRUE] ELSE n
  <1>1. /\ notices' = {seen(n) : n \in notices}
        /\ UNCHANGED <<noticeTasks, letters, announced, invited, ringing, hungUp, erased, atHand, overtaken, standIns,
                       unheard, noticeSteps>>
    BY DEF ReadAll
  <1>2. \A n \in notices : n \in NoticeRow /\ seen(n) \in NoticeRow /\ seen(n).user = n.user
           /\ seen(n).kind = n.kind /\ seen(n).about = n.about
    BY DEF NoticesInv, NoticeTypes, NoticeRow
  <1> HIDE DEF seen
  <1>3. NoticeTypes'
    <2>1. notices' \subseteq NoticeRow /\ \A n \in notices' : n.user \in Notified
      BY <1>1, <1>2 DEF NoticeRow
    <2> QED BY <1>1, <2>1 DEF NoticesInv, NoticeTypes, NoticesTypeOK, TaskFits
  <1>4. CallPart'
    BY <1>1 DEF NoticesInv, CallPart, OnlyThoseRing, InvitedOnly, EndReaches, RingingEnds, EndOnItsWay
  <1>5. ErasedAlone' /\ NoOrphanNotices'
    BY <1>1, <1>2 DEF NoticesInv, OrderPart, ErasedAlone, NoOrphanNotices
  <1>6. LettersHaveNotices'
    <2> SUFFICES ASSUME NEW l \in letters, l[3] \notin erased
                 PROVE  \E n \in notices' : n.user = l[1] /\ n.kind = l[2] /\ n.about = l[3]
      BY <1>1 DEF LettersHaveNotices
    <2>1. PICK n \in notices : n.user = l[1] /\ n.kind = l[2] /\ n.about = l[3]
      BY DEF NoticesInv, OrderPart, LettersHaveNotices
    <2>2. seen(n) \in notices'
      BY <1>1
    <2> QED BY <1>2, <2>1, <2>2
  <1> QED BY <1>3, <1>4, <1>5, <1>6 DEF NoticesInv, OrderPart

-----------------------------------------------------------------------------
(* Notices: a signal reaches one person, or does not *)

\* What is left of a task when one person more has been told.
LEMMA ToldFacts ==
    ASSUME NoticesInv, NEW h \in Handlers, noticeTasks[h].phase = "tell", NEW u \in noticeTasks[h].to,
           noticeTasks' = Told(h, u)
    PROVE  \E t \in TaskRow \cup {AtEase} :
             /\ TaskMoves(h, t) /\ noticeTasks[h] # AtEase
             /\ t # AtEase => /\ t.kind = noticeTasks[h].kind /\ t.about = noticeTasks[h].about /\ t.phase = "tell"
                   /\ t.to = noticeTasks[h].to \ {u}
                              /\ TaskFits(t) /\ t.kind # "order_deleted"
             /\ t = AtEase => noticeTasks[h].to = {u}
  <1> DEFINE r == noticeTasks[h]
             t == [r EXCEPT !.to = r.to \ {u}]
  <1>1. r \in TaskRow /\ r # AtEase /\ TaskFits(r) /\ r.kind # "order_deleted"
    BY TaskFacts DEF TaskFits
  <1>2. t \in TaskRow /\ t.kind = r.kind /\ t.about = r.about /\ t.phase = "tell" /\ t.to = r.to \ {u}
    BY <1>1 DEF TaskRow
  <1>3. noticeTasks' = [noticeTasks EXCEPT ![h] = IF r.to = {u} THEN AtEase ELSE t]
    BY DEF Told
  <1> HIDE DEF t
  <1>4. TaskFits(t) /\ t # AtEase
    BY <1>1, <1>2, TasksAtEase DEF TaskFits
  <1>5. CASE r.to = {u}
    BY <1>1, <1>3, <1>5 DEF TaskMoves
  <1>6. CASE r.to # {u}
    <2>1. TaskMoves(h, t)
      BY <1>3, <1>6 DEF TaskMoves
    <2> QED BY <1>1, <1>2, <1>4, <2>1
  <1> QED BY <1>5, <1>6

\* A signal about anything but the end of a call: who is called rings, and if the end was there before,
\* he is one of the exceptions; or the end is still to come.
LEMMA TellKeeps ==
    ASSUME NoticesInv, NEW h \in Handlers, NEW u \in Notified, Tell(h, u) \/ Missed(h, u),
           noticeTasks[h].kind # "call_ended"
    PROVE  NoticesInv'
  <1> DEFINE r == noticeTasks[h]
             x == <<r.about, u>>
  <1>1. /\ r.phase = "tell" /\ u \in r.to /\ noticeTasks' = Told(h, u)
        /\ UNCHANGED <<notices, letters, announced, invited, hungUp, erased, atHand, standIns, unheard, noticeSteps>>
        /\ \/ UNCHANGED <<ringing, overtaken>>
           \/ /\ r.kind = "call_initiated" /\ ringing' = ringing \cup {x}
              /\ overtaken' = IF x \in hungUp THEN overtaken \cup {x} ELSE overtaken
    BY DEF Tell, Missed
  <1>2. r \in TaskRow /\ r # AtEase /\ TaskFits(r) /\ r.kind \in NoticeKinds
    BY <1>1, TaskFacts
  <1>3. PICK t \in TaskRow \cup {AtEase} :
             /\ TaskMoves(h, t)
             /\ t # AtEase => /\ t.kind = r.kind /\ t.about = r.about /\ t.phase = "tell" /\ t.to = r.to \ {u}
                              /\ TaskFits(t) /\ t.kind # "order_deleted"
    BY <1>1, ToldFacts
  <1>4. OrderPart'
    BY <1>1, <1>2, <1>3, OrderPartStays
  <1>5. CASE UNCHANGED <<ringing, overtaken>>
    <2>1. NoticeTypes'
      BY <1>1, <1>3, <1>5, TaskTypes DEF NoticesInv, NoticeTypes, NoticesTypeOK
    <2>2. CallPart'
      <3>1. r.kind = "call_initiated" => \A v \in r.to : v \in invited[r.about] \/ <<r.about, v>> \in standIns
        BY <1>1, <1>2 DEF NoticesInv, CallPart, OnlyThoseRing, InvitedOnly
      <3> QED BY <1>1, <1>2, <1>3, <1>5, <3>1, CallPartStays
    <2> QED BY <1>4, <2>1, <2>2 DEF NoticesInv
  <1>6. CASE /\ r.kind = "call_initiated" /\ ringing' = ringing \cup {x}
             /\ overtaken' = IF x \in hungUp THEN overtaken \cup {x} ELSE overtaken
    <2>1. r.about \in NoticeCalls /\ (u \in invited[r.about] \/ x \in standIns)
      BY <1>1, <1>2, <1>6 DEF TaskFits, NoticesInv, CallPart, OnlyThoseRing, InvitedOnly
    <2>2. NoticeTypes'
      BY <1>1, <1>3, <1>6, <2>1, TaskTypes DEF NoticesInv, NoticeTypes, NoticesTypeOK
    <2>3. /\ noticeTasks'[h] = t /\ \A y \in Handlers \ {h} : noticeTasks'[y] = noticeTasks[y]
      BY <1>3, OneTaskMoves
    <2>4. \A k, v : EndOnItsWay(k, v) => EndOnItsWay(k, v)'
      <3> SUFFICES ASSUME NEW k, NEW v, EndOnItsWay(k, v) PROVE EndOnItsWay(k, v)'
        OBVIOUS
      <3>1. PICK y \in Handlers : noticeTasks[y] # AtEase /\ noticeTasks[y].kind = "call_ended"
               /\ noticeTasks[y].about = k /\ v \in noticeTasks[y].to
        BY DEF EndOnItsWay
      <3>2. noticeTasks'[y] = noticeTasks[y]
        BY <2>3, <3>1
      <3> QED BY <3>1, <3>2 DEF EndOnItsWay
    <2>5. OnlyThoseRing'
      <3>1. \A y \in ringing' : y[2] \in invited[y[1]] \/ y \in standIns
        BY <1>6, <2>1 DEF NoticesInv, CallPart, OnlyThoseRing
      <3>2. ASSUME NEW y \in Handlers, noticeTasks'[y] # AtEase, noticeTasks'[y].kind = "call_initiated",
                   noticeTasks'[y].phase # "ask",
                   NEW v \in noticeTasks'[y].to
            PROVE  v \in invited[noticeTasks'[y].about] \/ <<noticeTasks'[y].about, v>> \in standIns
        <4>1. CASE y = h
          <5>1. v \in r.to /\ noticeTasks'[y].about = r.about
            BY <1>3, <2>3, <3>2, <4>1
          <5> QED BY <1>1, <1>2, <1>6, <5>1 DEF NoticesInv, CallPart, OnlyThoseRing, InvitedOnly
        <4>2. CASE y # h
          BY <2>3, <3>2, <4>2 DEF NoticesInv, CallPart, OnlyThoseRing, InvitedOnly
        <4> QED BY <4>1, <4>2
      <3> QED BY <1>1, <3>1, <3>2 DEF OnlyThoseRing, InvitedOnly, NoticesInv, CallPart
    <2>6. EndReaches'
      BY <1>1, <2>4 DEF NoticesInv, CallPart, EndReaches
    <2>7. RingingEnds'
      <3> SUFFICES ASSUME NEW y \in ringing', announced[y[1]] = "ended"
                   PROVE  y \in overtaken' \cup unheard \cup standIns \/ EndOnItsWay(y[1], y[2])'
        BY <1>1 DEF RingingEnds
      <3>1. CASE y = x
        <4>1. x \in hungUp \cup unheard \/ EndOnItsWay(r.about, u) \/ x \in standIns
          BY <2>1, <3>1 DEF NoticesInv, CallPart, EndReaches
        <4>2. y[1] = r.about /\ y[2] = u
          BY <3>1
        <4>3. EndOnItsWay(r.about, u) => EndOnItsWay(y[1], y[2])'
          <5>1. EndOnItsWay(y[1], y[2]) => EndOnItsWay(y[1], y[2])'
            BY <2>4
          <5> QED BY <4>2, <5>1
        <4> QED BY <1>6, <3>1, <4>1, <4>3
      <3>2. CASE y # x
        <4>1. y \in overtaken \cup unheard \cup standIns \/ EndOnItsWay(y[1], y[2])
          BY <1>6, <3>2 DEF NoticesInv, CallPart, RingingEnds
        <4> QED BY <1>6, <2>4, <4>1
      <3> QED BY <3>1, <3>2
    <2> QED BY <1>4, <2>2, <2>5, <2>6, <2>7 DEF NoticesInv, CallPart
  <1> QED BY <1>1, <1>5, <1>6

\* The end of a call reaches one person, or does not: the others are still to be told.
LEMMA EndTold ==
    ASSUME NoticesInv, NEW h \in Handlers, NEW u \in Notified, Tell(h, u) \/ Missed(h, u),
           noticeTasks[h].kind = "call_ended"
    PROVE  NoticesInv'
  <1> DEFINE r == noticeTasks[h]
             x == <<r.about, u>>
  <1>1. /\ r.phase = "tell" /\ u \in r.to /\ noticeTasks' = Told(h, u)
        /\ UNCHANGED <<notices, letters, announced, invited, erased, atHand, overtaken, standIns, noticeSteps>>
        /\ \/ ringing' = ringing \ {x} /\ hungUp' = hungUp \cup {x} /\ unheard' = unheard
           \/ UNCHANGED <<ringing, hungUp>> /\ unheard' = unheard \cup {x}
    BY DEF Tell, Missed
  <1>2. r \in TaskRow /\ r # AtEase /\ TaskFits(r) /\ r.about \in NoticeCalls
    BY <1>1, TaskFacts DEF TaskFits
  <1>3. PICK t \in TaskRow \cup {AtEase} :
             /\ TaskMoves(h, t)
             /\ t # AtEase => /\ t.kind = r.kind /\ t.about = r.about /\ t.phase = "tell" /\ t.to = r.to \ {u}
                              /\ TaskFits(t) /\ t.kind # "order_deleted"
             /\ t = AtEase => r.to = {u}
    BY <1>1, ToldFacts
  <1>4. OrderPart'
    <2>1. r.phase # "erase" /\ (t # AtEase => t.kind # "order_deleted" /\ t.kind \notin OrderKinds)
      BY <1>1, <1>3 DEF OrderKinds
    <2> QED BY <1>1, <1>3, <2>1, OrderPartStays
  <1>5. NoticeTypes'
    BY <1>1, <1>2, <1>3, TaskTypes DEF NoticesInv, NoticeTypes, NoticesTypeOK
  <1>6. /\ noticeTasks'[h] = t /\ \A y \in Handlers \ {h} : noticeTasks'[y] = noticeTasks[y]
    BY <1>3, OneTaskMoves
  <1>7. \A k, v : EndOnItsWay(k, v) /\ ~(k = r.about /\ v = u) => EndOnItsWay(k, v)'
    <2> SUFFICES ASSUME NEW k, NEW v, EndOnItsWay(k, v), ~(k = r.about /\ v = u) PROVE EndOnItsWay(k, v)'
      OBVIOUS
    <2>1. PICK y \in Handlers : noticeTasks[y] # AtEase /\ noticeTasks[y].kind = "call_ended"
             /\ noticeTasks[y].about = k /\ v \in noticeTasks[y].to
      BY DEF EndOnItsWay
    <2>2. noticeTasks'[y] # AtEase /\ noticeTasks'[y].kind = "call_ended" /\ noticeTasks'[y].about = k
             /\ v \in noticeTasks'[y].to
      <3>1. CASE y = h
        <4>1. k = r.about /\ v # u /\ v \in r.to
          BY <2>1, <3>1
        <4>2. t # AtEase
          BY <1>3, <4>1
        <4> QED BY <1>3, <1>6, <2>1, <3>1, <4>1, <4>2
      <3>2. CASE y # h
        BY <1>6, <2>1, <3>2
      <3> QED BY <3>1, <3>2
    <2> QED BY <2>2 DEF EndOnItsWay
  <1>8. OnlyThoseRing'
    BY <1>1, <1>3, <1>6 DEF NoticesInv, CallPart, OnlyThoseRing, InvitedOnly
  <1>9. EndReaches'
    <2> SUFFICES ASSUME NEW k \in NoticeCalls, announced[k] = "ended", NEW v \in invited[k]
                 PROVE  <<k, v>> \in hungUp' \cup unheard' \/ EndOnItsWay(k, v)'
      BY <1>1 DEF EndReaches
    <2>1. <<k, v>> \in hungUp \cup unheard \/ EndOnItsWay(k, v)
      BY DEF NoticesInv, CallPart, EndReaches
    <2>2. EndOnItsWay(k, v) => EndOnItsWay(k, v)' \/ <<k, v>> = x
      BY <1>7
    <2> QED BY <1>1, <2>1, <2>2
  <1>10. RingingEnds'
    <2> SUFFICES ASSUME NEW y \in ringing', announced[y[1]] = "ended"
                 PROVE  y \in overtaken \cup unheard' \cup standIns \/ EndOnItsWay(y[1], y[2])'
      BY <1>1 DEF RingingEnds
    <2>1. y \in ringing /\ y = <<y[1], y[2]>>
      BY <1>1 DEF NoticesInv, NoticeTypes, NoticesTypeOK
    <2>2. y \in overtaken \cup unheard \cup standIns \/ EndOnItsWay(y[1], y[2])
      BY <2>1 DEF NoticesInv, CallPart, RingingEnds
    <2>3. CASE y = x
      BY <1>1, <2>3
    <2>4. CASE y # x
      <3>1. EndOnItsWay(y[1], y[2]) => EndOnItsWay(y[1], y[2])'
        BY <1>7, <2>1, <2>4
      <3> QED BY <1>1, <2>2, <3>1
    <2> QED BY <2>3, <2>4
  <1> QED BY <1>4, <1>5, <1>8, <1>9, <1>10 DEF NoticesInv, CallPart

\* Every step keeps the invariant.
LEMMA NoticesStep == ASSUME NoticesInv, [NoticesNext]_noticeVars PROVE NoticesInv'
  <1>1. CASE UNCHANGED noticeVars
    <2>1. UNCHANGED <<noticeTasks, notices, letters, announced, invited, ringing, hungUp, erased, atHand, overtaken,
                      standIns, unheard, noticeSteps>>
      BY <1>1 DEF noticeVars
    <2>2. NoticeTypes'
      BY <2>1 DEF NoticesInv, NoticeTypes, NoticesTypeOK, TaskFits
    <2>3. OrderPart'
      BY <2>1 DEF NoticesInv, OrderPart, ErasedAlone, NoOrphanNotices, LettersHaveNotices
    <2>4. CallPart'
      BY <2>1 DEF NoticesInv, CallPart, OnlyThoseRing, InvitedOnly, EndReaches, RingingEnds, EndOnItsWay
    <2> QED BY <2>2, <2>3, <2>4 DEF NoticesInv
  <1>2. CASE NoticesNext
    <2>1. ASSUME NEW h \in Handlers, NEW u \in Notified, Tell(h, u) \/ Missed(h, u) PROVE NoticesInv'
      BY <2>1, TellKeeps, EndTold
    <2> QED BY <1>2, <2>1, EventKeeps, OrderErasedKeeps, CallStartedKeeps, CallOverKeeps, AsksOrGivesUp, StoreKeeps,
                 EraseKeeps, ReadAllKeeps
          DEF NoticesNext
  <1> QED BY <1>1, <1>2

\* The invariant says what the property does: the end on its way is a task about the call.
LEMMA NoticesAreOK == NoticesInv => NoticesTypeOK /\ NoticesOK
  <1> SUFFICES ASSUME NoticesInv PROVE RingingStops
    BY DEF NoticesInv, NoticeTypes, OrderPart, NoticesOK
  <1> SUFFICES ASSUME NEW x \in ringing, announced[x[1]] = "ended", UnderWayFor(x[1]) = {}
               PROVE  x \in overtaken \cup unheard \cup standIns
    BY DEF RingingStops
  <1>1. ~EndOnItsWay(x[1], x[2])
    <2> SUFFICES ASSUME NEW h \in Handlers, noticeTasks[h] # AtEase, noticeTasks[h].about = x[1] PROVE FALSE
      BY DEF EndOnItsWay
    <2>1. noticeTasks[h].phase # "idle"
      BY TasksAtEase DEF NoticesInv, NoticeTypes
    <2> QED BY <2>1 DEF UnderWayFor
  <1> QED BY <1>1 DEF NoticesInv, CallPart, RingingEnds

-----------------------------------------------------------------------------
(* Devices: the inductive invariant *)

TokenRow == [user: PhoneUsers \cup {NoOwner}, at: Nat]
RegisterRow ==
    [user: PhoneUsers, stage: {"sent", "read"}, at: Nat, how: {"insert", "leave", "update"}, stale: SUBSET Phones]

DeviceTypes ==
    /\ DevicesTypeOK
    /\ signedIn \in [Phones -> PhoneUsers \cup {NoOwner}]
    /\ tokens \in [Phones -> TokenRow]
    /\ register \in [Phones -> RegisterRow \cup {NoRequest}]
    /\ \A d \in Phones : /\ tokens[d].user \in PhoneUsers => tokens[d].at # 0
                         /\ register[d].stage = "read" => register[d].at # 0

\* A token is the signed-in user's or nobody's, and so is the request under way; unless a request
\* was lost or passed. A request that leaves the row as it is found it its own.
TokensSettled ==
    \A d \in Phones :
        /\ d \notin unsettled => tokens[d].user \in {signedIn[d], NoOwner}
        /\ register[d] # NoRequest /\ d \notin unsettled => register[d].user = signedIn[d]
        /\ register[d].stage = "read" /\ register[d].how = "leave" => tokens[d].user \in {register[d].user, NoOwner}

\* No two phones have one stamp.
StampsApart ==
    \A e, f \in Phones : e # f =>
        /\ tokens[e].at # 0 => tokens[e].at # tokens[f].at /\ tokens[e].at # register[f].at
        /\ register[e].at # 0 => register[e].at # register[f].at

PhonesOf(u) == {e \in Phones : tokens[e].user = u}

\* Nobody has too many phones, and none too many when the registration that has read is written.
FewPhones ==
    \A u \in PhoneUsers \ together :
        /\ Cardinality(PhonesOf(u)) <= MaxPhones
        /\ \A d \in Phones : register[d].stage = "read" /\ register[d].user = u =>
              /\ Cardinality((PhonesOf(u) \cup {d}) \ register[d].stale) <= MaxPhones
              /\ \A e \in Phones : register[e].stage = "read" /\ register[e].user = u => e = d

DevicesInv == DeviceTypes /\ TokensSettled /\ StampsApart /\ FewPhones

\* The rows that are not there, and the requests that are not.
LEMMA EmptyPhones ==
    /\ NoRow \in TokenRow /\ NoRow.user = NoOwner /\ NoRow.at = 0
    /\ NoRequest.user = NoOwner /\ NoRequest.stage = "none" /\ NoRequest.at = 0 /\ NoRequest.stale = {}
    /\ \A r \in RegisterRow : r # NoRequest /\ r.stage \in {"sent", "read"}
  BY DEF NoRow, NoRequest, TokenRow, RegisterRow

\* The phones are finitely many.
LEMMA PhoneSets ==
    ASSUME NEW A, A \subseteq Phones
    PROVE  /\ IsFiniteSet(A) /\ Cardinality(A) \in Nat
           /\ \A B : B \subseteq A => Cardinality(B) <= Cardinality(A) /\ Cardinality(B) \in Nat
  <1>1. IsFiniteSet(A) /\ Cardinality(A) \in Nat
    BY DeviceAssumption, CountWithin
  <1> QED BY <1>1, CountWithin

\* At first nobody has signed in.
LEMMA DevicesStart == DevicesInit => DevicesInv
  <1> SUFFICES ASSUME DevicesInit PROVE DevicesInv
    OBVIOUS
  <1>1. \A d \in Phones : signedIn[d] = NoOwner /\ tokens[d] = NoRow /\ register[d] = NoRequest
    BY DEF DevicesInit
  <1>2. DeviceTypes
    <2>1. DevicesTypeOK
      BY <1>1, EmptyPhones, DeviceAssumption DEF DevicesInit, DevicesTypeOK
    <2>2. \A d \in Phones : tokens[d].user \notin PhoneUsers
      BY <1>1, EmptyPhones, DeviceAssumption
    <2> QED BY <2>1, <2>2, EmptyPhones DEF DevicesInit, DeviceTypes
  <1>3. TokensSettled /\ StampsApart
    BY <1>1, EmptyPhones DEF TokensSettled, StampsApart
  <1>4. FewPhones
    <2> SUFFICES ASSUME NEW u \in PhoneUsers PROVE Cardinality(PhonesOf(u)) <= MaxPhones
      BY <1>1, EmptyPhones DEF FewPhones
    <2>1. PhonesOf(u) = {}
      BY <1>1, EmptyPhones, DeviceAssumption DEF PhonesOf
    <2> QED BY <2>1, FS_EmptySet, DeviceAssumption
  <1> QED BY <1>2, <1>3, <1>4 DEF DevicesInv

-----------------------------------------------------------------------------
(* Devices: the rows that a registration keeps *)

\* Of rows with stamps of their own, those with fewer newer ones than a person may have are no more
\* than that: take the oldest of them.
LEMMA KeptAreFew ==
    ASSUME NEW rows, rows \subseteq Phones, NEW at, \A e \in rows : at[e] \in Nat,
           \A e, f \in rows : at[e] = at[f] => e = f
    PROVE  Cardinality(rows \ Beyond(rows, at)) <= MaxPhones
  <1> DEFINE K == rows \ Beyond(rows, at)
             newer(e) == {f \in rows : at[f] > at[e]}
  <1>1. K \subseteq Phones /\ \A e \in K : ~(Cardinality(newer(e)) >= MaxPhones)
    BY DEF Beyond
  <1>2. CASE K = {}
    BY <1>2, FS_EmptySet, DeviceAssumption
  <1>3. CASE K # {}
    <2>1. {at[e] : e \in K} \in SUBSET Nat /\ {at[e] : e \in K} # {}
      BY <1>3
    <2>2. PICK k \in {at[e] : e \in K} : \A j \in {at[e] : e \in K} : k <= j
      BY <2>1, Least
    <2>3. PICK e \in K : \A f \in K : at[e] <= at[f]
      BY <2>2
    <2>4. K \ {e} \subseteq newer(e) /\ newer(e) \subseteq Phones
      BY <2>3
    <2> HIDE DEF K, newer
    <2>5. Cardinality(K \ {e}) <= Cardinality(newer(e)) /\ Cardinality(K \ {e}) \in Nat
             /\ Cardinality(newer(e)) \in Nat
      BY <2>4, PhoneSets
    <2>6. Cardinality(K \ {e}) = Cardinality(K) - 1 /\ Cardinality(K) \in Nat
      BY <1>1, <2>3, PhoneSets, FS_RemoveElement
    <2>7. ~(Cardinality(newer(e)) >= MaxPhones)
      BY <1>1, <2>3
    <2> QED BY <2>5, <2>6, <2>7, DeviceAssumption DEF K
  <1> QED BY <1>2, <1>3

\* A function takes finitely many values on a finite set.
LEMMA FiniteImage ==
    ASSUME NEW S, IsFiniteSet(S), NEW f
    PROVE  IsFiniteSet({f[x] : x \in S})
  <1> DEFINE T == {f[x] : x \in S}
             g == [x \in S |-> f[x]]
  <1>1. g \in Surjection(S, T)
    BY DEF Surjection
  <1> HIDE DEF g
  <1> QED BY <1>1, FS_Surjection

\* The stamp of a registration is no other phone's.
LEMMA StampIsNew ==
    ASSUME DevicesInv, NEW d \in Phones, register[d] \in RegisterRow
    PROVE  /\ Stamp(d) \in Nat /\ Stamp(d) # 0 /\ HowTo(d) \in {"insert", "leave", "update"}
           /\ HowTo(d) = "leave" => tokens[d].user = register[d].user
           /\ \A e \in Phones \ {d} : Stamp(d) # tokens[e].at /\ Stamp(d) # register[e].at
  <1>0. tokens \in [Phones -> TokenRow] /\ \A e \in Phones : tokens[e].at \in Nat /\ register[e].at \in Nat
    BY EmptyPhones DEF DevicesInv, DeviceTypes, TokenRow, RegisterRow
  <1>1. PICK t \in Stamps : \A o \in Stamps : o <= t
    <2> DEFINE f == [e \in Phones |-> tokens[e].at]
               g == [e \in Phones |-> register[e].at]
    <2>1. IsFiniteSet({f[e] : e \in Phones}) /\ IsFiniteSet({g[e] : e \in Phones})
      BY DeviceAssumption, FiniteImage
    <2>2. {f[e] : e \in Phones} = {tokens[e].at : e \in Phones}
             /\ {g[e] : e \in Phones} = {register[e].at : e \in Phones}
      OBVIOUS
    <2>3. IsFiniteSet(Stamps)
      <3>1. Stamps = {f[e] : e \in Phones} \cup {g[e] : e \in Phones}
        BY <2>2 DEF Stamps
      <3> HIDE DEF f, g
      <3> QED BY <2>1, <3>1, FS_Union
    <2>4. Stamps \in SUBSET Nat /\ Stamps # {}
      BY <1>0 DEF Stamps
    <2>5. \E n \in Stamps : \A m \in Stamps : n >= m
      BY <2>3, <2>4, Greatest
    <2> QED BY <2>4, <2>5
  <1>2. \A e \in Phones : tokens[e].at \in Stamps /\ register[e].at \in Stamps
    BY DEF Stamps
  <1> DEFINE top == CHOOSE n \in Stamps : \A o \in Stamps : o <= n
  <1>3. top \in Stamps /\ \A o \in Stamps : o <= top
    BY <1>1
  <1>4. top \in Nat
    BY <1>0, <1>3 DEF Stamps
  <1> HIDE DEF top
  <1>5. \A e \in Phones : 1 + top # tokens[e].at /\ 1 + top # register[e].at
    BY <1>0, <1>2, <1>3, <1>4
  <1>6. CASE HowTo(d) = "leave"
    <2>1. Stamp(d) = tokens[d].at /\ tokens[d].user = register[d].user
      BY <1>6 DEF Stamp, HowTo
    <2>2. tokens[d].at # 0
      BY <2>1 DEF DevicesInv, DeviceTypes, RegisterRow
    <2> QED BY <1>0, <1>6, <2>1, <2>2 DEF DevicesInv, StampsApart
  <1>7. CASE HowTo(d) # "leave"
    <2>1. Stamp(d) = 1 + top /\ HowTo(d) \in {"insert", "leave", "update"}
      BY <1>7 DEF Stamp, HowTo, top
    <2> QED BY <1>4, <1>5, <1>7, <2>1
  <1> QED BY <1>6, <1>7

-----------------------------------------------------------------------------
(* Devices: steps that write no row *)

\* What is said of the rows holds as long as they and the registrations that have read stand.
LEMMA FewStay ==
    ASSUME DevicesInv, tokens' = tokens, together' = together,
           \A d \in Phones : register'[d].stage = "read" => register'[d] = register[d]
    PROVE  FewPhones'
  <1>1. \A u \in PhoneUsers : PhonesOf(u)' = PhonesOf(u)
    BY DEF PhonesOf
  <1> SUFFICES ASSUME NEW u \in PhoneUsers \ together
               PROVE  /\ Cardinality(PhonesOf(u)) <= MaxPhones
                      /\ \A d \in Phones : register'[d].stage = "read" /\ register'[d].user = u =>
                            /\ Cardinality((PhonesOf(u) \cup {d}) \ register'[d].stale) <= MaxPhones
                            /\ \A e \in Phones : register'[e].stage = "read" /\ register'[e].user = u => e = d
    BY <1>1 DEF FewPhones
  <1>2. /\ Cardinality(PhonesOf(u)) <= MaxPhones
        /\ \A d \in Phones : register[d].stage = "read" /\ register[d].user = u =>
              /\ Cardinality((PhonesOf(u) \cup {d}) \ register[d].stale) <= MaxPhones
              /\ \A e \in Phones : register[e].stage = "read" /\ register[e].user = u => e = d
    BY DEF DevicesInv, FewPhones
  <1> QED BY <1>2

\* A phone asks: its user's name is on the request.
LEMMA RegisterAskKeeps ==
    ASSUME DevicesInv, NEW d \in Phones, NEW u \in PhoneUsers, register[d] = NoRequest, Ask(d, u),
           signedIn' = [signedIn EXCEPT ![d] = u], signedIn[d] \in {u, NoOwner}, PhoneStep,
           UNCHANGED <<pushing, tokens, unsettled, together>>
    PROVE  DevicesInv'
  <1> DEFINE r == [NoRequest EXCEPT !.user = u, !.stage = "sent"]
  <1>1. r \in RegisterRow /\ r.user = u /\ r.at = 0 /\ r.stage = "sent" /\ r # NoRequest
    BY DEF NoRequest, RegisterRow
  <1>2. register' = [register EXCEPT ![d] = r]
    BY DEF Ask
  <1> HIDE DEF r
  <1>3. /\ register' \in [Phones -> RegisterRow \cup {NoRequest}] /\ register'[d] = r
        /\ \A e \in Phones \ {d} : register'[e] = register[e]
    BY <1>1, <1>2 DEF DevicesInv, DeviceTypes
  <1>4. /\ signedIn' \in [Phones -> PhoneUsers \cup {NoOwner}] /\ signedIn'[d] = u
        /\ \A e \in Phones \ {d} : signedIn'[e] = signedIn[e]
    BY DEF DevicesInv, DeviceTypes
  <1>5. DeviceTypes'
    BY <1>1, <1>3, <1>4, EmptyPhones, DeviceAssumption DEF DevicesInv, DeviceTypes, DevicesTypeOK, PhoneStep,
      RegisterRow
  <1>6. TokensSettled'
    BY <1>1, <1>3, <1>4 DEF DevicesInv, TokensSettled
  <1>7. StampsApart'
    BY <1>1, <1>3, EmptyPhones DEF DevicesInv, StampsApart
  <1>8. FewPhones'
    BY <1>1, <1>3, FewStay
  <1> QED BY <1>5, <1>6, <1>7, <1>8 DEF DevicesInv

\* Someone signs in, or the application starts again: the phone asks to be registered.
LEMMA SignInKeeps ==
    ASSUME DevicesInv, NEW d \in Phones, (\E u \in PhoneUsers : SignIn(d, u)) \/ Restart(d)
    PROVE  DevicesInv'
  <1>1. ASSUME NEW u \in PhoneUsers, SignIn(d, u) PROVE DevicesInv'
    BY <1>1, RegisterAskKeeps DEF SignIn
  <1>2. CASE Restart(d)
    <2>1. signedIn[d] \in PhoneUsers /\ signedIn' = [signedIn EXCEPT ![d] = signedIn[d]]
      BY <1>2 DEF Restart, DevicesInv, DeviceTypes
    <2> QED BY <1>2, <2>1, RegisterAskKeeps DEF Restart
  <1> QED BY <1>1, <1>2

\* A registration reads the rows.
LEMMA RegisterReadKeeps == ASSUME DevicesInv, NEW d \in Phones, RegisterRead(d) PROVE DevicesInv'
  <1> DEFINE u == register[d].user
             rows == PhonesOf(u) \cup {d}
             at == [e \in Phones |-> IF e = d THEN Stamp(d) ELSE tokens[e].at]
             r == [register[d] EXCEPT !.stage = "read", !.at = Stamp(d), !.how = HowTo(d), !.stale = Beyond(rows, at)]
  <1>1. /\ register[d].stage = "sent" /\ register' = [register EXCEPT ![d] = r]
        /\ together' = IF \E e \in Phones \ {d} : register[e].stage = "read" /\ register[e].user = u
                       THEN together \cup {u} ELSE together
        /\ UNCHANGED <<pushing, signedIn, tokens, unsettled, phoneSteps>>
    BY DEF RegisterRead, PhonesOf
  <1>2. register[d] \in RegisterRow /\ u \in PhoneUsers /\ register[d] # NoRequest
    BY <1>1, EmptyPhones DEF DevicesInv, DeviceTypes, RegisterRow
  <1>3. /\ Stamp(d) \in Nat /\ Stamp(d) # 0 /\ HowTo(d) \in {"insert", "leave", "update"}
        /\ HowTo(d) = "leave" => tokens[d].user = u
        /\ \A e \in Phones \ {d} : Stamp(d) # tokens[e].at /\ Stamp(d) # register[e].at
    BY <1>2, StampIsNew
  <1>4. rows \subseteq Phones /\ Beyond(rows, at) \subseteq Phones
    BY DEF PhonesOf, Beyond
  <1>5. /\ r \in RegisterRow /\ r.user = u /\ r.stage = "read" /\ r.at = Stamp(d) /\ r.how = HowTo(d)
        /\ r.stale = Beyond(rows, at) /\ r # NoRequest
    <2> HIDE DEF rows, at
    <2> QED BY <1>2, <1>3, <1>4, EmptyPhones DEF RegisterRow
  <1>6. Cardinality(rows \ Beyond(rows, at)) <= MaxPhones
    <2>1. \A e \in rows : at[e] \in Nat
      BY <1>3, <1>4 DEF DevicesInv, DeviceTypes, TokenRow
    <2>2. ASSUME NEW e \in rows, NEW f \in rows, at[e] = at[f], e # f PROVE FALSE
      <3>1. \A x \in rows \ {d} : tokens[x].at # 0 /\ at[x] = tokens[x].at /\ x \in Phones
        BY <1>2 DEF PhonesOf, DevicesInv, DeviceTypes
      <3>2. at[d] = Stamp(d)
        OBVIOUS
      <3> HIDE DEF at, rows
      <3>3. CASE e = d
        BY <1>3, <2>2, <3>1, <3>2, <3>3
      <3>4. CASE f = d
        BY <1>3, <2>2, <3>1, <3>2, <3>4
      <3>5. CASE e # d /\ f # d
        BY <2>2, <3>1, <3>5 DEF DevicesInv, StampsApart
      <3> QED BY <3>3, <3>4, <3>5
    <2> HIDE DEF at, rows
    <2> QED BY <1>4, <2>1, <2>2, KeptAreFew
  <1> HIDE DEF r, at
  <1>7. /\ register' \in [Phones -> RegisterRow \cup {NoRequest}] /\ register'[d] = r
        /\ \A e \in Phones \ {d} : register'[e] = register[e]
    BY <1>1, <1>5 DEF DevicesInv, DeviceTypes
  <1>8. DeviceTypes'
    <2>1. \A e \in Phones : register'[e].stale \subseteq Phones
             /\ (register'[e].stage = "read" => register'[e].at # 0)
      BY <1>3, <1>5, <1>7 DEF DevicesInv, DeviceTypes, DevicesTypeOK, RegisterRow
    <2> QED BY <1>1, <1>7, <2>1 DEF DevicesInv, DeviceTypes, DevicesTypeOK
  <1>9. TokensSettled'
    BY <1>1, <1>2, <1>3, <1>5, <1>7 DEF DevicesInv, TokensSettled
  <1>10. StampsApart'
    <2> SUFFICES ASSUME NEW e \in Phones, NEW f \in Phones, e # f
                 PROVE  /\ tokens[e].at # 0 => tokens[e].at # tokens[f].at /\ tokens[e].at # register'[f].at
                        /\ register'[e].at # 0 => register'[e].at # register'[f].at
      BY <1>1 DEF StampsApart
    <2>1. /\ tokens[e].at # 0 => tokens[e].at # tokens[f].at /\ tokens[e].at # register[f].at
          /\ register[e].at # 0 => register[e].at # register[f].at
      BY DEF DevicesInv, StampsApart
    <2> QED BY <1>3, <1>5, <1>7, <2>1
  <1>11. FewPhones'
    <2> SUFFICES ASSUME NEW v \in PhoneUsers \ together'
                 PROVE  /\ Cardinality(PhonesOf(v)) <= MaxPhones
                        /\ \A e \in Phones : register'[e].stage = "read" /\ register'[e].user = v =>
                              /\ Cardinality((PhonesOf(v) \cup {e}) \ register'[e].stale) <= MaxPhones
                              /\ \A f \in Phones : register'[f].stage = "read" /\ register'[f].user = v => f = e
      BY <1>1 DEF FewPhones, PhonesOf
    <2>1. /\ v \notin together /\ Cardinality(PhonesOf(v)) <= MaxPhones
          /\ \A e \in Phones : register[e].stage = "read" /\ register[e].user = v =>
                /\ Cardinality((PhonesOf(v) \cup {e}) \ register[e].stale) <= MaxPhones
                /\ \A f \in Phones : register[f].stage = "read" /\ register[f].user = v => f = e
      BY <1>1 DEF DevicesInv, FewPhones
    <2>2. CASE v = u
      <3>1. \A e \in Phones \ {d} : ~(register[e].stage = "read" /\ register[e].user = u)
        BY <1>1, <2>2
      <3> QED BY <1>5, <1>6, <1>7, <2>1, <2>2, <3>1
    <2>3. CASE v # u
      BY <1>5, <1>7, <2>1, <2>3
    <2> QED BY <2>2, <2>3
  <1> QED BY <1>8, <1>9, <1>10, <1>11 DEF DevicesInv

-----------------------------------------------------------------------------
(* Devices: steps that write rows *)

\* Rows go, and no registration reads: what was said of the rest stands.
LEMMA PhonesGo ==
    ASSUME DevicesInv, tokens' \in [Phones -> TokenRow],
           \A e \in Phones : tokens'[e] = tokens[e] \/ tokens'[e] = NoRow,
           register' = register, together' = together
    PROVE  StampsApart' /\ FewPhones' /\ \A e \in Phones : tokens'[e].user \in PhoneUsers => tokens'[e].at # 0
  <1>1. \A e \in Phones : tokens'[e].at \in {tokens[e].at, 0} /\ tokens'[e].user \in {tokens[e].user, NoOwner}
    BY EmptyPhones
  <1>2. StampsApart'
    BY <1>1 DEF DevicesInv, StampsApart
  <1>3. \A u \in PhoneUsers : PhonesOf(u)' \subseteq PhonesOf(u) /\ PhonesOf(u) \subseteq Phones
    BY <1>1, DeviceAssumption DEF PhonesOf
  <1>4. FewPhones'
    <2> SUFFICES ASSUME NEW u \in PhoneUsers \ together
                 PROVE  /\ Cardinality(PhonesOf(u)') <= MaxPhones
                        /\ \A d \in Phones : register[d].stage = "read" /\ register[d].user = u =>
                              /\ Cardinality((PhonesOf(u)' \cup {d}) \ register[d].stale) <= MaxPhones
                              /\ \A e \in Phones : register[e].stage = "read" /\ register[e].user = u => e = d
      BY DEF FewPhones
    <2>1. /\ Cardinality(PhonesOf(u)) <= MaxPhones
          /\ \A d \in Phones : register[d].stage = "read" /\ register[d].user = u =>
                /\ Cardinality((PhonesOf(u) \cup {d}) \ register[d].stale) <= MaxPhones
                /\ \A e \in Phones : register[e].stage = "read" /\ register[e].user = u => e = d
      BY DEF DevicesInv, FewPhones
    <2>2. Cardinality(PhonesOf(u)') <= MaxPhones
      <3>1. Cardinality(PhonesOf(u)') <= Cardinality(PhonesOf(u)) /\ Cardinality(PhonesOf(u)') \in Nat
               /\ Cardinality(PhonesOf(u)) \in Nat
        BY <1>3, PhoneSets
      <3> QED BY <2>1, <3>1, DeviceAssumption
    <2>3. ASSUME NEW d \in Phones, register[d].stage = "read", register[d].user = u
          PROVE  Cardinality((PhonesOf(u)' \cup {d}) \ register[d].stale) <= MaxPhones
      <3> DEFINE A == (PhonesOf(u)' \cup {d}) \ register[d].stale
                 B == (PhonesOf(u) \cup {d}) \ register[d].stale
      <3>1. A \subseteq B /\ B \subseteq Phones
        BY <1>3
      <3>2. Cardinality(B) <= MaxPhones
        BY <2>1, <2>3
      <3> HIDE DEF A, B
      <3>3. Cardinality(A) <= Cardinality(B) /\ Cardinality(A) \in Nat /\ Cardinality(B) \in Nat
        BY <3>1, PhoneSets
      <3>4. Cardinality(A) <= MaxPhones
        BY <3>2, <3>3, DeviceAssumption
      <3> QED BY <3>4 DEF A
    <2> QED BY <2>1, <2>2, <2>3
  <1>5. \A e \in Phones : tokens'[e].user \in PhoneUsers => tokens'[e].at # 0
    BY EmptyPhones, DeviceAssumption DEF DevicesInv, DeviceTypes
  <1> QED BY <1>2, <1>4, <1>5

\* Someone signs out.
LEMMA SignOutKeeps == ASSUME DevicesInv, NEW d \in Phones, SignOut(d) PROVE DevicesInv'
  <1>1. /\ signedIn' = [signedIn EXCEPT ![d] = NoOwner] /\ UNCHANGED <<pushing, register, together, phoneSteps>>
        /\ \/ /\ tokens' = IF tokens[d].user = signedIn[d] THEN [tokens EXCEPT ![d] = NoRow] ELSE tokens
              /\ unsettled' = IF register[d] # NoRequest THEN unsettled \cup {d} ELSE unsettled
           \/ unsettled' = unsettled \cup {d} /\ tokens' = tokens
    BY DEF SignOut
  <1>2. /\ tokens' \in [Phones -> TokenRow] /\ \A e \in Phones \ {d} : tokens'[e] = tokens[e]
        /\ tokens'[d] \in {tokens[d], NoRow}
        /\ (d \notin unsettled' /\ tokens[d].user = signedIn[d] => tokens'[d] = NoRow)
    BY <1>1, EmptyPhones DEF DevicesInv, DeviceTypes
  <1>3. /\ signedIn' \in [Phones -> PhoneUsers \cup {NoOwner}] /\ signedIn'[d] = NoOwner
        /\ \A e \in Phones \ {d} : signedIn'[e] = signedIn[e]
    BY <1>1 DEF DevicesInv, DeviceTypes
  <1>4. (\A e \in Phones \ {d} : e \in unsettled' <=> e \in unsettled)
           /\ (d \notin unsettled' => d \notin unsettled /\ register[d] = NoRequest)
    BY <1>1
  <1>5. StampsApart' /\ FewPhones' /\ \A e \in Phones : tokens'[e].user \in PhoneUsers => tokens'[e].at # 0
    BY <1>1, <1>2, PhonesGo
  <1>6. TokensSettled'
    <2> SUFFICES ASSUME NEW e \in Phones
                 PROVE  /\ e \notin unsettled' => tokens'[e].user \in {signedIn'[e], NoOwner}
                        /\ register[e] # NoRequest /\ e \notin unsettled' => register[e].user = signedIn'[e]
                        /\ register[e].stage = "read" /\ register[e].how = "leave"
                                 => tokens'[e].user \in {register[e].user, NoOwner}
      BY <1>1 DEF TokensSettled
    <2>1. /\ e \notin unsettled => tokens[e].user \in {signedIn[e], NoOwner}
          /\ register[e] # NoRequest /\ e \notin unsettled => register[e].user = signedIn[e]
          /\ register[e].stage = "read" /\ register[e].how = "leave" => tokens[e].user \in {register[e].user, NoOwner}
      BY DEF DevicesInv, TokensSettled
    <2>2. CASE e = d
      BY <1>2, <1>3, <1>4, <2>1, <2>2, EmptyPhones
    <2>3. CASE e # d
      BY <1>2, <1>3, <1>4, <2>1, <2>3
    <2> QED BY <2>2, <2>3
  <1>7. DeviceTypes'
    <2>1. DevicesTypeOK'
      BY <1>1, <1>2 DEF DevicesInv, DeviceTypes, DevicesTypeOK, TokenRow
    <2> QED BY <1>1, <1>2, <1>3, <1>5, <2>1 DEF DevicesInv, DeviceTypes
  <1> QED BY <1>5, <1>6, <1>7 DEF DevicesInv

\* A push begins, or ends with some of its tokens dead; a registration is lost.
LEMMA PushKeeps ==
    ASSUME DevicesInv, (\E u \in PhoneUsers : PushBegin(u)) \/ \E p \in pushing : PushEnd(p)
    PROVE  DevicesInv'
  <1>1. /\ tokens' \in [Phones -> TokenRow] /\ (\A e \in Phones : tokens'[e] = tokens[e] \/ tokens'[e] = NoRow)
        /\ phoneSteps' \in 0..MaxPhoneSteps /\ \A p \in pushing' : p.left \subseteq Phones
    <2>1. ASSUME NEW u \in PhoneUsers, PushBegin(u)
          PROVE  /\ tokens' = tokens /\ phoneSteps' \in 0..MaxPhoneSteps
                 /\ \A p \in pushing' : p.left \subseteq Phones
      BY <2>1, DeviceAssumption DEF PushBegin, PhoneStep, DevicesInv, DeviceTypes, DevicesTypeOK
    <2>2. ASSUME NEW p \in pushing, PushEnd(p)
          PROVE  /\ tokens' \in [Phones -> TokenRow] /\ \A e \in Phones : tokens'[e] = tokens[e] \/ tokens'[e] = NoRow
                 /\ phoneSteps' = phoneSteps /\ pushing' \subseteq pushing
      BY <2>2, EmptyPhones DEF PushEnd, DevicesInv, DeviceTypes
    <2> QED BY <2>1, <2>2 DEF DevicesInv, DeviceTypes, DevicesTypeOK
  <1>2. UNCHANGED <<signedIn, register, unsettled, together>>
    BY DEF PushBegin, PushEnd
  <1>3. StampsApart' /\ FewPhones' /\ \A e \in Phones : tokens'[e].user \in PhoneUsers => tokens'[e].at # 0
    BY <1>1, <1>2, PhonesGo
  <1>4. \A e \in Phones : tokens'[e].user \in {tokens[e].user, NoOwner}
    BY <1>1, EmptyPhones
  <1>5. TokensSettled'
    BY <1>2, <1>4 DEF DevicesInv, TokensSettled
  <1>6. DevicesTypeOK'
    BY <1>1, <1>2 DEF DevicesInv, DeviceTypes, DevicesTypeOK, TokenRow
  <1>7. DeviceTypes'
    BY <1>1, <1>2, <1>3, <1>6 DEF DevicesInv, DeviceTypes
  <1> QED BY <1>3, <1>5, <1>7 DEF DevicesInv

\* A request is over.
LEMMA RequestOver ==
    ASSUME DevicesInv, NEW d \in Phones, register' = [register EXCEPT ![d] = NoRequest]
    PROVE  /\ register' \in [Phones -> RegisterRow \cup {NoRequest}] /\ register'[d] = NoRequest
           /\ \A e \in Phones \ {d} : register'[e] = register[e]
  BY DEF DevicesInv, DeviceTypes

\* A registration is lost: the row is as it was.
LEMMA RegisterLostKeeps == ASSUME DevicesInv, NEW d \in Phones, RegisterLost(d) PROVE DevicesInv'
  <1>1. /\ register' = [register EXCEPT ![d] = NoRequest]
        /\ UNCHANGED <<pushing, signedIn, tokens, unsettled, together, phoneSteps>>
    BY DEF RegisterLost
  <1>2. /\ register' \in [Phones -> RegisterRow \cup {NoRequest}] /\ register'[d] = NoRequest
        /\ \A e \in Phones \ {d} : register'[e] = register[e]
    BY <1>1, RequestOver
  <1>3. DeviceTypes'
    BY <1>1, <1>2, EmptyPhones DEF DevicesInv, DeviceTypes, DevicesTypeOK
  <1>4. TokensSettled' /\ StampsApart'
    BY <1>1, <1>2, EmptyPhones DEF DevicesInv, TokensSettled, StampsApart
  <1>5. FewPhones'
    BY <1>1, <1>2, EmptyPhones, FewStay
  <1> QED BY <1>3, <1>4, <1>5 DEF DevicesInv

\* A registration writes: the row is the asker's, and the stale ones are gone.
LEMMA RegisterCommitKeeps == ASSUME DevicesInv, NEW d \in Phones, RegisterCommit(d) PROVE DevicesInv'
  <1> DEFINE r == register[d]
  <1>1. /\ r.stage = "read" /\ tokens' = Registered(d) /\ register' = [register EXCEPT ![d] = NoRequest]
        /\ unsettled' = (IF signedIn[d] = r.user THEN unsettled \ {d} ELSE unsettled)
        /\ UNCHANGED <<pushing, signedIn, together, phoneSteps>>
    BY DEF RegisterCommit
  <1>2. r \in RegisterRow /\ r.user \in PhoneUsers /\ r # NoRequest
    BY <1>1, EmptyPhones DEF DevicesInv, DeviceTypes, RegisterRow
  <1>3. /\ register' \in [Phones -> RegisterRow \cup {NoRequest}] /\ register'[d] = NoRequest
        /\ \A e \in Phones \ {d} : register'[e] = register[e]
    BY <1>1, RequestOver
  <1> DEFINE row == [user |-> r.user, at |-> r.at]
  <1>4. /\ tokens' \in [Phones -> TokenRow]
        /\ \A e \in Phones \ {d} : tokens'[e] = tokens[e] \/ tokens'[e] = NoRow
        /\ \/ tokens'[d] \in {NoRow, row}
           \/ tokens'[d] = tokens[d] /\ r.how = "leave"
        /\ tokens' = tokens \/ \A e \in r.stale : tokens'[e] = NoRow
    <2>1. row \in TokenRow
      BY <1>2 DEF TokenRow, RegisterRow
    <2>2. CASE r.how = "update" /\ tokens[d] = NoRow
      <3>1. tokens' = tokens
        BY <1>1, <2>2 DEF Registered
      <3>2. tokens \in [Phones -> TokenRow]
        BY DEF DevicesInv, DeviceTypes
      <3> HIDE DEF row
      <3> QED BY <2>2, <3>1, <3>2
    <2>3. CASE ~(r.how = "update" /\ tokens[d] = NoRow)
      <3>1. tokens' = [e \in Phones |-> IF e \in r.stale THEN NoRow ELSE IF e = d /\ r.how # "leave" THEN row
                                           ELSE tokens[e]]
        BY <1>1, <2>3 DEF Registered
      <3>2. r.stale \subseteq Phones /\ tokens \in [Phones -> TokenRow]
        BY <1>2 DEF DevicesInv, DeviceTypes, RegisterRow
      <3> HIDE DEF row
      <3>3. \A e \in Phones : tokens'[e] = IF e \in r.stale THEN NoRow ELSE IF e = d /\ r.how # "leave" THEN row
                                              ELSE tokens[e]
        BY <3>1
      <3>4. \A e \in Phones : tokens'[e] \in TokenRow
        BY <2>1, <3>2, <3>3, EmptyPhones
      <3>5. tokens' \in [Phones -> TokenRow]
        BY <3>1, <3>4
      <3> QED BY <3>2, <3>3, <3>5
    <2> QED BY <2>2, <2>3
  <1>5. r.at # 0 /\ r.at \in Nat /\ row.user = r.user /\ row.at = r.at
    BY <1>1, <1>2 DEF DevicesInv, DeviceTypes, RegisterRow
  <1> HIDE DEF row
  <1>6. DeviceTypes'
    <2>1. DevicesTypeOK'
      BY <1>1, <1>3, <1>4, EmptyPhones DEF DevicesInv, DeviceTypes, DevicesTypeOK, TokenRow
    <2>2. \A e \in Phones : tokens'[e].user \in PhoneUsers => tokens'[e].at # 0
      BY <1>4, <1>5, EmptyPhones, DeviceAssumption DEF DevicesInv, DeviceTypes
    <2> QED BY <1>1, <1>3, <1>4, <2>1, <2>2, EmptyPhones DEF DevicesInv, DeviceTypes
  <1>7. TokensSettled'
    <2> SUFFICES ASSUME NEW e \in Phones
                 PROVE  /\ e \notin unsettled' => tokens'[e].user \in {signedIn[e], NoOwner}
                        /\ register'[e] # NoRequest /\ e \notin unsettled' => register'[e].user = signedIn[e]
                        /\ register'[e].stage = "read" /\ register'[e].how = "leave"
                                 => tokens'[e].user \in {register'[e].user, NoOwner}
      BY <1>1 DEF TokensSettled
    <2>1. /\ e \notin unsettled => tokens[e].user \in {signedIn[e], NoOwner}
          /\ register[e] # NoRequest /\ e \notin unsettled => register[e].user = signedIn[e]
          /\ register[e].stage = "read" /\ register[e].how = "leave" => tokens[e].user \in {register[e].user, NoOwner}
      BY DEF DevicesInv, TokensSettled
    <2>2. CASE e = d
      <3>1. tokens'[d].user \in {r.user, NoOwner}
        BY <1>1, <1>4, <1>5, <2>1, <2>2, EmptyPhones
      <3>2. e \notin unsettled' => signedIn[d] = r.user
        BY <1>1, <1>2, <2>1, <2>2
      <3> QED BY <1>3, <2>2, <3>1, <3>2, EmptyPhones
    <2>3. CASE e # d
      BY <1>1, <1>3, <1>4, <2>1, <2>3, EmptyPhones
    <2> QED BY <2>2, <2>3
  <1>8. StampsApart'
    <2> SUFFICES ASSUME NEW e \in Phones, NEW f \in Phones, e # f
                 PROVE  /\ tokens'[e].at # 0 => tokens'[e].at # tokens'[f].at /\ tokens'[e].at # register'[f].at
                        /\ register'[e].at # 0 => register'[e].at # register'[f].at
      BY DEF StampsApart
    <2>1. \A x \in Phones : tokens'[x].at \in {tokens[x].at, 0, register[x].at}
             /\ register'[x].at \in {register[x].at, 0}
      BY <1>3, <1>4, <1>5, EmptyPhones
    <2>2. /\ tokens[e].at # 0 => tokens[e].at # tokens[f].at /\ tokens[e].at # register[f].at
          /\ tokens[f].at # 0 => tokens[f].at # register[e].at
          /\ register[e].at # 0 => register[e].at # register[f].at
      BY DEF DevicesInv, StampsApart
    <2> QED BY <2>1, <2>2
  <1>9. FewPhones'
    <2> SUFFICES ASSUME NEW u \in PhoneUsers \ together
                 PROVE  /\ Cardinality(PhonesOf(u)') <= MaxPhones
                        /\ \A e \in Phones : register'[e].stage = "read" /\ register'[e].user = u =>
                              /\ Cardinality((PhonesOf(u)' \cup {e}) \ register'[e].stale) <= MaxPhones
                              /\ \A f \in Phones : register'[f].stage = "read" /\ register'[f].user = u => f = e
      BY <1>1 DEF FewPhones
    <2>1. /\ Cardinality(PhonesOf(u)) <= MaxPhones
          /\ \A e \in Phones : register[e].stage = "read" /\ register[e].user = u =>
                /\ Cardinality((PhonesOf(u) \cup {e}) \ register[e].stale) <= MaxPhones
                /\ \A f \in Phones : register[f].stage = "read" /\ register[f].user = u => f = e
      BY DEF DevicesInv, FewPhones
    <2>2. CASE u = r.user
      <3>1. \A e \in Phones : ~(register'[e].stage = "read" /\ register'[e].user = u)
        BY <1>1, <1>3, <2>1, <2>2, EmptyPhones
      <3>2. PhonesOf(u)' \subseteq (PhonesOf(u) \cup {d}) \ r.stale \/ PhonesOf(u)' \subseteq PhonesOf(u)
        BY <1>4, EmptyPhones, DeviceAssumption DEF PhonesOf
      <3>3. Cardinality(PhonesOf(u)') <= MaxPhones
        <4> DEFINE A == (PhonesOf(u) \cup {d}) \ r.stale
                   B == PhonesOf(u)'
        <4>1. A \subseteq Phones /\ PhonesOf(u) \subseteq Phones /\ Cardinality(A) <= MaxPhones
                 /\ Cardinality(PhonesOf(u)) <= MaxPhones
          BY <1>1, <2>1, <2>2 DEF PhonesOf
        <4>2. B \subseteq A \/ B \subseteq PhonesOf(u)
          BY <3>2
        <4> HIDE DEF A, B
        <4>3. Cardinality(B) <= MaxPhones
          <5>1. CASE B \subseteq A
            <6>1. Cardinality(B) <= Cardinality(A) /\ Cardinality(B) \in Nat /\ Cardinality(A) \in Nat
              BY <4>1, <5>1, PhoneSets
            <6> QED BY <4>1, <6>1, DeviceAssumption
          <5>2. CASE B \subseteq PhonesOf(u)
            <6>1. Cardinality(B) <= Cardinality(PhonesOf(u)) /\ Cardinality(B) \in Nat
                     /\ Cardinality(PhonesOf(u)) \in Nat
              BY <4>1, <5>2, PhoneSets
            <6> QED BY <4>1, <6>1, DeviceAssumption
          <5> QED BY <4>2, <5>1, <5>2
        <4> QED BY <4>3 DEF B
      <3> QED BY <3>1, <3>3
    <2>3. CASE u # r.user
      <3>1. PhonesOf(u)' \subseteq PhonesOf(u) /\ PhonesOf(u) \subseteq Phones
        BY <1>4, <1>5, <2>3, EmptyPhones, DeviceAssumption DEF PhonesOf
      <3>2. Cardinality(PhonesOf(u)') <= MaxPhones
        <4>1. Cardinality(PhonesOf(u)') <= Cardinality(PhonesOf(u)) /\ Cardinality(PhonesOf(u)') \in Nat
                 /\ Cardinality(PhonesOf(u)) \in Nat
          BY <3>1, PhoneSets
        <4> QED BY <2>1, <4>1, DeviceAssumption
      <3>3. ASSUME NEW e \in Phones, register'[e].stage = "read", register'[e].user = u
            PROVE  /\ Cardinality((PhonesOf(u)' \cup {e}) \ register'[e].stale) <= MaxPhones
                   /\ \A f \in Phones : register'[f].stage = "read" /\ register'[f].user = u => f = e
        <4>1. e # d /\ register'[e] = register[e]
          BY <1>3, <3>3, EmptyPhones
        <4> DEFINE A == (PhonesOf(u)' \cup {e}) \ register[e].stale
                   B == (PhonesOf(u) \cup {e}) \ register[e].stale
        <4>2. A \subseteq B /\ B \subseteq Phones /\ Cardinality(B) <= MaxPhones
          BY <2>1, <3>1, <3>3, <4>1
        <4> HIDE DEF A, B
        <4>3. Cardinality(A) <= Cardinality(B) /\ Cardinality(A) \in Nat /\ Cardinality(B) \in Nat
          BY <4>2, PhoneSets
        <4>4. Cardinality(A) <= MaxPhones
          BY <4>2, <4>3, DeviceAssumption
        <4>5. \A f \in Phones : register'[f].stage = "read" /\ register'[f].user = u => f = e
          BY <1>3, <2>1, <3>3, <4>1, EmptyPhones
        <4> QED BY <4>1, <4>4, <4>5 DEF A
      <3> QED BY <3>2, <3>3
    <2> QED BY <2>2, <2>3
  <1> QED BY <1>6, <1>7, <1>8, <1>9 DEF DevicesInv

\* Every step keeps the invariant.
LEMMA DevicesStep == ASSUME DevicesInv, [DevicesNext]_deviceVars PROVE DevicesInv'
  <1>1. CASE UNCHANGED deviceVars
    <2>1. UNCHANGED <<signedIn, tokens, register, pushing, unsettled, together, phoneSteps>>
      BY <1>1 DEF deviceVars
    <2>2. FewPhones'
      BY <2>1, FewStay
    <2> QED BY <2>1, <2>2 DEF DevicesInv, DeviceTypes, DevicesTypeOK, TokensSettled, StampsApart
  <1>2. CASE DevicesNext
    BY <1>2, SignInKeeps, RegisterReadKeeps, RegisterCommitKeeps, RegisterLostKeeps, SignOutKeeps,
      PushKeeps DEF DevicesNext
  <1> QED BY <1>1, <1>2

\* The invariant says what the property does.
LEMMA PhonesAreOK == DevicesInv => DevicesTypeOK /\ PhonesOK
  BY DEF DevicesInv, DeviceTypes, TokensSettled, FewPhones, PhonesOK, PhonesOf

-----------------------------------------------------------------------------
(* The three services: a step of them is a step of each part, or leaves it as it is *)

\* Every step of the three services is one that the proofs of their parts know.
LEMMA MessagingSteps ==
    ASSUME [MessagingNext]_messagingVars
    PROVE  /\ [ChatsNext]_chatVars /\ [MessagesNext]_messageVars /\ [ListenerNext]_listenerVars
           /\ [CallsNext]_callVars /\ [NoticesNext]_noticeVars /\ [DevicesNext]_deviceVars
  <1>1. CASE MessagingNext
    BY <1>1 DEF MessagingNext
  <1>2. CASE UNCHANGED messagingVars
    BY <1>2 DEF messagingVars
  <1> QED BY <1>1, <1>2

\* conversation_service and message_service: the same people have one chat, unless two requests had
\* looked for it before either inserted it; a list shows a chat to whom every operation lets in; who was
\* removed from a group stays out, but for an open application; a message is announced to those who may
\* read it; a deleted order keeps neither chat nor files, but for what was under way; and a person has
\* one read mark, unless two of his requests overlapped.
THEOREM TalkStaysOK == MessagingSpec => []TalkOK
  <1> DEFINE Inv == ChatsInv /\ MessagesInv
  <1>1. MessagingInit => Inv
    BY ChatsStart, MessagesStart DEF MessagingInit
  <1>2. Inv /\ [MessagingNext]_messagingVars => Inv'
    BY MessagingSteps, ChatsStep, MessagesStep
  <1>3. Inv => TalkOK
    BY ChatsAreOK, MessagesAreOK DEF TalkOK
  <1> QED BY <1>1, <1>2, <1>3, PTL DEF MessagingSpec

\* ws_manager and redis_subscriber: a conversation has one listener at a time, and the entry names it;
\* open sockets have one, but for those that took a departing listener for a live one or whose listener
\* Redis failed; and a person is online while one of his sockets is open, once his writes have arrived,
\* in their order.
THEOREM ListenerStaysOK == MessagingSpec => []ListenerOK
  <1>1. MessagingInit => ListenerInv
    BY ListenerStart DEF MessagingInit
  <1>2. ListenerInv /\ [MessagingNext]_messagingVars => ListenerInv'
    BY MessagingSteps, ListenerStep
  <1>3. ListenerInv => ListenerOK
    BY DEF ListenerInv
  <1> QED BY <1>1, <1>2, <1>3, PTL DEF MessagingSpec

\* call_service: a conversation has one open call, which has a room or is about to be closed; its row
\* says one thing of how it ended; and the end of an answered call is announced once: all this but for
\* calls two of whose handlers crossed, and lost webhooks.
THEOREM CallsStayOK == MessagingSpec => []CallsOK
  <1>1. MessagingInit => CallsInv
    BY CallsStart DEF MessagingInit
  <1>2. CallsInv /\ [MessagingNext]_messagingVars => CallsInv'
    BY MessagingSteps, CallsStep
  <1>3. CallsInv => CallsOK
    BY CallsAreOK
  <1> QED BY <1>1, <1>2, <1>3, PTL DEF MessagingSpec

\* notification_service and the tokens of the phones: a deleted order has no notices, unless an event of
\* it was being handled; a letter has its notice; nobody's application rings after a call but for the
\* exceptions that are counted; a token is that of the phone's user, and nobody has too many of them.
THEOREM ToldStaysOK == MessagingSpec => []ToldOK
  <1> DEFINE Inv == NoticesInv /\ DevicesInv
  <1>1. MessagingInit => Inv
    BY NoticesStart, DevicesStart DEF MessagingInit
  <1>2. Inv /\ [MessagingNext]_messagingVars => Inv'
    BY MessagingSteps, NoticesStep, DevicesStep
  <1>3. Inv => ToldOK
    BY NoticesAreOK, PhonesAreOK DEF ToldOK
  <1> QED BY <1>1, <1>2, <1>3, PTL DEF MessagingSpec

\* The rows of the three services keep their types.
THEOREM MessagingIsTyped == MessagingSpec => []MessagingTypeOK
  <1> DEFINE Inv == ChatsInv /\ MessagesInv /\ ListenerInv /\ CallsInv /\ NoticesInv /\ DevicesInv
  <1>1. MessagingInit => Inv
    BY ChatsStart, MessagesStart, ListenerStart, CallsStart, NoticesStart, DevicesStart DEF MessagingInit
  <1>2. Inv /\ [MessagingNext]_messagingVars => Inv'
    BY MessagingSteps, ChatsStep, MessagesStep, ListenerStep, CallsStep, NoticesStep, DevicesStep
  <1>3. Inv => MessagingTypeOK
    BY ChatsAreOK, MessagesAreOK, CallsAreOK, NoticesAreOK, PhonesAreOK DEF MessagingTypeOK, ListenerInv
  <1> QED BY <1>1, <1>2, <1>3, PTL DEF MessagingSpec
=============================================================================
