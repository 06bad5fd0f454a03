--------------------------------- MODULE Calls ---------------------------------
(* The calls of one conversation in call_service: starting, joining and ending them, and the
   webhooks of LiveKit, which reports who joined and that a room is finished.

   Every handler reads the call, decides on what it read, and writes the columns that it
   changed; two handlers may have read the same row. LiveKit makes a room for whoever
   presents a token, and ends an empty one. *)
EXTENDS Integers, FiniteSets

CONSTANTS
    CallIds,       \* calls, each with its room
    Caller,        \* the people of the conversation
    Callee,
    CallRequests,  \* handlers that overlap
    MaxCallSteps,  \* bound: requests in a behaviour
    MaxLostHooks   \* bound: webhooks that do not arrive

ASSUME CallsAssumption == Caller # Callee /\ MaxCallSteps \in Nat /\ MaxLostHooks \in Nat

Guests == {Caller, Callee}

VARIABLES
    calls,      \* the table calls
    rooms,      \* rooms of LiveKit
    present,    \* <<call, person>> in a room
    passes,     \* <<call, person>>: tokens that were issued
    hooks,      \* webhooks on their way: <<"joined", call, person>> or <<"finished", call>>
    handling,   \* handlers between their read and their write
    told,       \* per call: how often its end was announced
    mixed,      \* ghost: calls that a handler wrote over a state it had not read
    callSteps,  \* requests so far
    lostHooks   \* webhooks lost so far

callVars == <<calls, rooms, present, passes, hooks, handling, told, mixed, callSteps, lostHooks>>

CallStatus == {"ringing", "active", "ended", "missed"}
CallRow == [status: CallStatus \cup {"none"}, by: Guests, answered: BOOLEAN, over: BOOLEAN]
NoCall == [status |-> "none", by |-> Caller, answered |-> FALSE, over |-> FALSE]
AtRest == [op |-> "none", call |-> NoCall, who |-> Caller, seen |-> NoCall]

CallsInit ==
    /\ calls = [c \in CallIds |-> NoCall]
    /\ rooms = {} /\ present = {} /\ passes = {} /\ hooks = {}
    /\ handling = [q \in CallRequests |-> AtRest]
    /\ told = [c \in CallIds |-> 0]
    /\ mixed = {} /\ callSteps = 0 /\ lostHooks = 0

Open(c) == calls[c].status \in {"ringing", "active"}
Closed(c) == calls[c].status \in {"ended", "missed"}
StepCall == callSteps < MaxCallSteps /\ callSteps' = callSteps + 1

\* A handler reads call c.
Read(q, op, c, u) ==
    /\ handling[q] = AtRest
    /\ handling' = [handling EXCEPT ![q] = [op |-> op, call |-> c, who |-> u, seen |-> calls[c]]]
Done(q) == handling' = [handling EXCEPT ![q] = AtRest]

\* The handler writes the row; the ghost tells whether it is the row that it read.
Put(q, row) ==
    LET c == handling[q].call IN
    /\ calls' = [calls EXCEPT ![c] = row]
    /\ mixed' = IF calls[c] # handling[q].seen THEN mixed \cup {c} ELSE mixed

--------------------------------------------------------------------------------
\* Starting: no call is open, the room is made, then the row is committed.

StartBegin(q) ==
    /\ StepCall
    /\ \A c \in CallIds : ~Open(c)
    /\ \E c \in CallIds, u \in Guests :
           /\ calls[c] = NoCall /\ \A r \in CallRequests : handling[r].call # c
           /\ Read(q, "start", c, u)
    /\ UNCHANGED <<calls, rooms, present, passes, hooks, told, mixed, lostHooks>>

\* The room is made after the commit, and may not be (a mutant of MakeRoom).
MakeRoomLater(q) ==
    /\ handling[q].op = "start"
    /\ handling' = [handling EXCEPT ![q].op = "roomed"]
    /\ UNCHANGED <<calls, rooms, present, passes, hooks, told, mixed, callSteps, lostHooks>>

MakeRoom(q) ==
    /\ handling[q].op = "start"
    /\ rooms' = rooms \cup {handling[q].call}
    /\ handling' = [handling EXCEPT ![q].op = "roomed"]
    /\ UNCHANGED <<calls, present, passes, hooks, told, mixed, callSteps, lostHooks>>

\* LiveKit cannot be reached: nothing is committed.
NoRoom(q) ==
    /\ handling[q].op = "start"
    /\ Done(q)
    /\ UNCHANGED <<calls, rooms, present, passes, hooks, told, mixed, callSteps, lostHooks>>

\* The unique index refuses a second open call; the room of the one refused stays behind.
StartCommit(q) ==
    LET c == handling[q].call
        u == handling[q].who IN
    /\ handling[q].op = "roomed"
    /\ Done(q)
    /\ IF \E d \in CallIds : Open(d) THEN UNCHANGED <<calls, passes, mixed>>
       ELSE /\ Put(q, [status |-> "ringing", by |-> u, answered |-> FALSE, over |-> FALSE])
            /\ passes' = passes \cup {<<c, u>>}
    /\ UNCHANGED <<rooms, present, hooks, told, callSteps, lostHooks>>

--------------------------------------------------------------------------------
\* Joining. Only a call that is ended is refused: one that was missed is not.

TokenBegin(q) ==
    /\ StepCall
    /\ \E c \in CallIds, u \in Guests :
           /\ calls[c].status \in CallStatus \ {"ended"}
           /\ Read(q, "token", c, u)
    /\ UNCHANGED <<calls, rooms, present, passes, hooks, told, mixed, lostHooks>>

\* The first to answer makes the call active; only the changed columns are written.
Answered(row, seen, u) ==
    IF seen.status = "ringing" /\ u # seen.by
    THEN [row EXCEPT !.status = "active", !.answered = TRUE] ELSE row

TokenCommit(q) ==
    LET r == handling[q] IN
    /\ r.op = "token"
    /\ Done(q)
    /\ IF Answered(calls[r.call], r.seen, r.who) # calls[r.call]
       THEN Put(q, Answered(calls[r.call], r.seen, r.who)) ELSE UNCHANGED <<calls, mixed>>
    /\ passes' = passes \cup {<<r.call, r.who>>}
    /\ UNCHANGED <<rooms, present, hooks, told, callSteps, lostHooks>>

--------------------------------------------------------------------------------
\* Ending: by a person, or by the webhook of a room that is finished.

\* A call that is closed is ended again (a mutant of StillToEnd).
StillToEndAlways(row) == row # NoCall
StillToEnd(row) == row # NoCall /\ row.status # "ended"

\* What nobody answered is missed.
Verdict(row, seen) ==
    [row EXCEPT !.status = IF seen.answered THEN "ended" ELSE "missed", !.over = TRUE]

\* What the handler does to the call: nothing when it was ended as it read it.
Close(q) ==
    LET r == handling[q] IN
    IF StillToEnd(r.seen)
    THEN /\ Put(q, Verdict(calls[r.call], r.seen))
         /\ told' = [told EXCEPT ![r.call] = @ + 1]
    ELSE UNCHANGED <<calls, mixed, told>>

EndBegin(q) ==
    /\ StepCall
    /\ \E c \in CallIds : calls[c] # NoCall /\ Read(q, "end", c, Caller)
    /\ UNCHANGED <<calls, rooms, present, passes, hooks, told, mixed, lostHooks>>

\* The room is deleted after the commit, which puts everyone out, unless LiveKit fails.
EndCommit(q) ==
    LET c == handling[q].call IN
    /\ handling[q].op = "end"
    /\ Done(q)
    /\ Close(q)
    /\ \/ /\ c \in rooms
          /\ rooms' = rooms \ {c}
          /\ present' = {p \in present : p[1] # c}
          /\ hooks' = hooks \cup {<<"finished", c>>}
       \/ UNCHANGED <<rooms, present, hooks>>
    /\ UNCHANGED <<passes, callSteps, lostHooks>>

--------------------------------------------------------------------------------
\* LiveKit, and its webhooks.

\* Whoever presents a token enters; a room that is gone is made again.
Join(c, u) ==
    /\ <<c, u>> \in passes /\ <<c, u>> \notin present
    /\ StepCall
    /\ rooms' = rooms \cup {c}
    /\ present' = present \cup {<<c, u>>}
    /\ hooks' = hooks \cup {<<"joined", c, u>>}
    /\ UNCHANGED <<calls, passes, handling, told, mixed, lostHooks>>

Quit(c, u) ==
    /\ <<c, u>> \in present
    /\ present' = present \ {<<c, u>>}
    /\ UNCHANGED <<calls, rooms, passes, hooks, handling, told, mixed, callSteps, lostHooks>>

\* A room that nobody is in comes to its end. That of a call under way to be committed does
\* not: its empty_timeout is two minutes.
Finish(c) ==
    /\ c \in rooms /\ \A u \in Guests : <<c, u>> \notin present
    /\ \A q \in CallRequests : ~(handling[q].op \in {"start", "roomed"} /\ handling[q].call = c)
    /\ rooms' = rooms \ {c}
    /\ hooks' = hooks \cup {<<"finished", c>>}
    /\ UNCHANGED <<calls, present, passes, handling, told, mixed, callSteps, lostHooks>>

LoseHook(h) ==
    /\ h \in hooks /\ lostHooks < MaxLostHooks
    /\ lostHooks' = lostHooks + 1
    /\ hooks' = hooks \ {h}
    /\ UNCHANGED <<calls, rooms, present, passes, handling, told, mixed, callSteps>>

\* The webhook of a room that has no call is ignored.
HookBegin(q, h) ==
    /\ h \in hooks
    /\ hooks' = hooks \ {h}
    /\ IF calls[h[2]] = NoCall THEN UNCHANGED handling
       ELSE Read(q, h[1], h[2], IF h[1] = "joined" THEN h[3] ELSE Caller)
    /\ UNCHANGED <<calls, rooms, present, passes, told, mixed, callSteps, lostHooks>>

JoinedCommit(q) ==
    LET r == handling[q] IN
    /\ r.op = "joined"
    /\ Done(q)
    /\ IF Answered(calls[r.call], r.seen, r.who) # calls[r.call]
       THEN Put(q, Answered(calls[r.call], r.seen, r.who)) ELSE UNCHANGED <<calls, mixed>>
    /\ UNCHANGED <<rooms, present, passes, hooks, told, callSteps, lostHooks>>

FinishedCommit(q) ==
    /\ handling[q].op = "finished"
    /\ Done(q)
    /\ Close(q)
    /\ UNCHANGED <<rooms, present, passes, hooks, callSteps, lostHooks>>

CallsNext ==
    \/ \E q \in CallRequests :
          \/ StartBegin(q) \/ MakeRoom(q) \/ NoRoom(q) \/ StartCommit(q)
          \/ TokenBegin(q) \/ TokenCommit(q) \/ EndBegin(q) \/ EndCommit(q)
          \/ JoinedCommit(q) \/ FinishedCommit(q)
          \/ \E h \in hooks : HookBegin(q, h)
    \/ \E h \in hooks : LoseHook(h)
    \/ \E c \in CallIds : Finish(c) \/ \E u \in Guests : Join(c, u) \/ Quit(c, u)

CallsSpec == CallsInit /\ [][CallsNext]_callVars

--------------------------------------------------------------------------------
CallsTypeOK ==
    /\ calls \in [CallIds -> CallRow]
    /\ rooms \subseteq CallIds /\ mixed \subseteq CallIds
    /\ present \cup passes \subseteq CallIds \X Guests
    /\ told \in [CallIds -> Nat]
    /\ callSteps \in 0..MaxCallSteps /\ lostHooks \in 0..MaxLostHooks

\* A conversation has one open call, whatever two starts and the late answers do; unless a
\* late answer reopened a call that had been closed meanwhile.
OneOpenCall ==
    \A c, d \in CallIds : c # d /\ Open(c) /\ Open(d) => {c, d} \cap mixed # {}

\* An open call has a room, or its end is on its way; no conversation is kept busy by a call
\* whose room was never made. A lost webhook, or two handlers of one call, may leave one.
OpenCallHasRoom ==
    \A c \in CallIds \ mixed :
        Open(c) /\ lostHooks = 0 =>
            \/ c \in rooms \/ <<"finished", c>> \in hooks
            \/ \E q \in CallRequests : handling[q].op \in {"end", "finished"} /\ handling[q].call = c

\* What the row says fits together, but where two handlers of one call crossed.
VerdictFits ==
    \A c \in CallIds \ mixed :
        /\ calls[c].over <=> Closed(c)
        /\ Closed(c) => (calls[c].answered <=> calls[c].status = "ended")
        /\ Open(c) => (calls[c].answered <=> calls[c].status = "active")

\* The end of a call that was answered is announced once. That of a missed one is announced
\* by who hung up and again by the webhook of the room that he had deleted.
AnnouncedOnce ==
    \A c \in CallIds \ mixed :
        /\ Closed(c) => told[c] >= 1
        /\ calls[c].status = "ended" => told[c] = 1

CallsOK == OneOpenCall /\ OpenCallHasRoom /\ VerdictFits /\ AnnouncedOnce
=============================================================================
