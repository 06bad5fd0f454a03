-------------------------------- MODULE Listener --------------------------------
(* The sockets of one conversation in one process of chat_service, the task that listens to
   Redis for them, and the presence marker of the people behind them.

   The process runs one step at a time, between two awaits. The lock of _ensure_subscription
   is never held across an await. A task that is cancelled is not done until its finally block
   has awaited the unsubscription. *)
EXTENDS Integers, FiniteSets

CONSTANTS
    Sockets,        \* connections, each made once
    OwnerOf,        \* the person behind each socket
    Listeners,      \* tasks, each started once
    NoTask,         \* no entry in _subscriptions
    MaxRedisFaults  \* bound: how often Redis fails a listener

ASSUME ListenerAssumption ==
    /\ NoTask \notin Listeners
    /\ IsFiniteSet(Sockets)
    /\ MaxRedisFaults \in Nat

People == {OwnerOf[w] : w \in Sockets}

VARIABLES
    socket,        \* state of each socket: new, checked, open, dead (given up by the listener), closed
    entry,         \* the conversation is a key of _connections
    listener,      \* state of each task: new, subscribing, listening, closing, done
    subscription,  \* the entry of the conversation in _subscriptions
    counts,        \* _user_connections
    marker,        \* ws:online:<user> in Redis: there or not
    sent,          \* writes of the marker on their way: <<user, socket, "set" or "delete">>
    deaf,          \* ghost: sockets that found a listener that was going away, or lost theirs
    faded,         \* ghost: people whose marker expired, or whose writes crossed
    leaked,        \* ghost: people with a socket that found no entry when it closed
    faults         \* failures of Redis so far

listenerVars == <<socket, entry, listener, subscription, counts, marker, sent, deaf, faded, leaked, faults>>

ListenerInit ==
    /\ socket = [w \in Sockets |-> "new"]
    /\ listener = [t \in Listeners |-> "new"]
    /\ subscription = NoTask
    /\ counts = [u \in People |-> 0]
    /\ marker = [u \in People |-> FALSE]
    /\ entry = FALSE
    /\ sent = {} /\ deaf = {} /\ faded = {} /\ leaked = {} /\ faults = 0

Connections == {w \in Sockets : socket[w] = "open"}
ConnectionsOf(u) == {w \in Sockets : OwnerOf[w] = u /\ socket[w] \in {"open", "dead"}}
Running(t) == listener[t] \in {"subscribing", "listening", "closing"}
Hears == \E t \in Listeners : listener[t] \in {"subscribing", "listening"}

\* Accepted, the first frame holds a token, and the conversation lets its owner in; or not.
Accept(w) ==
    /\ socket[w] = "new"
    /\ \E verdict \in {"checked", "closed"} : socket' = [socket EXCEPT ![w] = verdict]
    /\ UNCHANGED <<entry, listener, subscription, counts, marker, sent, deaf, faded, leaked, faults>>

\* Write the presence marker: two writes for one person may arrive in either order.
Write(u, w, what) ==
    /\ sent' = sent \cup {<<u, w, what>>}
    /\ faded' = IF \E x \in sent : x[1] = u THEN faded \cup {u} ELSE faded

\* A task that is closing is taken for finished (a mutant of NeedsListener).
NeedsListenerUnlessListening == subscription \notin {t \in Listeners : listener[t] = "listening"}
\* Any task that is not done will do.
NeedsListener == subscription \notin {t \in Listeners : Running(t)}

\* Register the socket, start a listener if there is none, mark the person as online.
Register(w) ==
    /\ socket[w] = "checked"
    /\ socket' = [socket EXCEPT ![w] = "open"]
    /\ entry' = TRUE
    /\ counts' = [counts EXCEPT ![OwnerOf[w]] = @ + 1]
    /\ \/ /\ NeedsListener
          /\ \E t \in Listeners :
                 /\ listener[t] = "new"
                 /\ listener' = [listener EXCEPT ![t] = "subscribing"]
                 /\ subscription' = t
          /\ deaf' = {}
       \/ /\ ~NeedsListener
          /\ UNCHANGED <<listener, subscription>>
          /\ deaf' = IF listener[subscription] = "closing" THEN deaf \cup {w} ELSE deaf
    /\ Write(OwnerOf[w], w, "set")
    /\ UNCHANGED <<marker, leaked, faults>>

\* The count is not kept: any socket that closes takes the marker away (a mutant of LastOf).
AnyOf(u) == TRUE
\* The connection that closes is the last one of its owner.
LastOf(u) == counts[u] = 1

\* The socket closes. The last one of the conversation removes the entry and cancels the task:
\* one that has not come to its loop ends at once, one that is closing ends without removing
\* its own entry.
Disconnect(w) ==
    LET u == OwnerOf[w] IN
    /\ entry /\ w \in ConnectionsOf(u)
    /\ socket' = [socket EXCEPT ![w] = "closed"]
    /\ counts' = [counts EXCEPT ![u] = IF @ > 1 THEN @ - 1 ELSE 0]
    /\ IF LastOf(u) THEN Write(u, w, "delete") ELSE UNCHANGED <<sent, faded>>
    /\ deaf' = deaf \ {w}
    /\ entry' = (Connections \ {w} # {})
    /\ listener' =
         IF Connections \ {w} = {} /\ ~NeedsListener
         THEN [listener EXCEPT ![subscription] = IF @ = "listening" THEN "closing" ELSE "done"]
         ELSE listener
    /\ UNCHANGED <<subscription, marker, leaked, faults>>

\* Another socket, given up like this one, has removed the entry: the handler fails at its
\* first line, before the owner is counted down.
DisconnectFails(w) ==
    /\ ~entry /\ w \in ConnectionsOf(OwnerOf[w])
    /\ socket' = [socket EXCEPT ![w] = "closed"]
    /\ leaked' = leaked \cup {OwnerOf[w]}
    /\ UNCHANGED <<entry, listener, subscription, counts, marker, sent, deaf, faded, faults>>

--------------------------------------------------------------------------------
Subscribe(t) ==
    /\ listener[t] = "subscribing"
    /\ listener' = [listener EXCEPT ![t] = "listening"]
    /\ UNCHANGED <<socket, entry, subscription, counts, marker, sent, deaf, faded, leaked, faults>>

\* A message cannot be sent to a socket: the listener gives it up, and stops with the last one.
Discard(t, w) ==
    /\ listener[t] = "listening" /\ w \in Connections
    /\ socket' = [socket EXCEPT ![w] = "dead"]
    /\ deaf' = deaf \ {w}
    /\ listener' = IF Connections = {w} THEN [listener EXCEPT ![t] = "closing"] ELSE listener
    /\ UNCHANGED <<entry, subscription, counts, marker, sent, faded, leaked, faults>>

\* Redis fails the listener: nobody starts another for the sockets that are open.
Fail(t) ==
    /\ listener[t] = "listening" /\ faults < MaxRedisFaults
    /\ faults' = faults + 1
    /\ listener' = [listener EXCEPT ![t] = "closing"]
    /\ deaf' = deaf \cup Connections
    /\ UNCHANGED <<socket, entry, subscription, counts, marker, sent, faded, leaked>>

\* The end of the finally block.
Unsubscribe(t) ==
    /\ listener[t] = "closing"
    /\ listener' = [listener EXCEPT ![t] = "done"]
    /\ subscription' = NoTask
    /\ UNCHANGED <<socket, entry, counts, marker, sent, deaf, faded, leaked, faults>>

--------------------------------------------------------------------------------
\* What notification_service asks before it writes an e-mail about a message.
IsOnline(u) == marker[u]

\* A write of the marker arrives; it fails silently when Redis does.
Arrive(x) ==
    /\ x \in sent
    /\ sent' = sent \ {x}
    /\ marker' = [marker EXCEPT ![x[1]] = (x[3] = "set")]
    /\ UNCHANGED <<socket, entry, listener, subscription, counts, deaf, faded, leaked, faults>>

\* Five minutes pass. Nothing renews the marker of a connection that lasts.
Expire(u) ==
    /\ marker[u]
    /\ marker' = [marker EXCEPT ![u] = FALSE]
    /\ faded' = faded \cup {u}
    /\ UNCHANGED <<socket, entry, listener, subscription, counts, sent, deaf, leaked, faults>>

ListenerNext ==
    \/ \E w \in Sockets : Accept(w) \/ Register(w) \/ Disconnect(w) \/ DisconnectFails(w)
    \/ \E t \in Listeners :
          Subscribe(t) \/ Fail(t) \/ Unsubscribe(t) \/ \E w \in Sockets : Discard(t, w)
    \/ \E x \in sent : Arrive(x)
    \/ \E u \in People : Expire(u)

ListenerSpec == ListenerInit /\ [][ListenerNext]_listenerVars

--------------------------------------------------------------------------------
ListenerTypeOK ==
    /\ socket \in [Sockets -> {"new", "checked", "open", "dead", "closed"}]
    /\ listener \in [Listeners -> {"new", "subscribing", "listening", "closing", "done"}]
    /\ subscription \in Listeners \cup {NoTask}
    /\ counts \in [People -> Nat] /\ marker \in [People -> BOOLEAN]
    /\ sent \subseteq People \X Sockets \X {"set", "delete"}
    /\ deaf \subseteq Connections /\ faded \cup leaked \subseteq People /\ entry \in BOOLEAN
    /\ faults \in 0..MaxRedisFaults

\* One task at a time serves the conversation, so that no message is delivered twice; and the
\* entry names it, so that the task whose finally block removes the entry removes its own.
OneListener ==
    \A t \in Listeners : Running(t) => subscription = t

\* Every open socket is listened for, but for those that took a listener that was going away
\* for a live one and those whose listener Redis failed.
NobodyIsDeaf == Connections \ deaf # {} => Hears

\* A person is counted as often as his sockets are open, and when his writes have arrived in
\* order and have not expired, he is online exactly as long as one of them is; but for those
\* whose socket closed after the entry had gone.
PresenceOK ==
    \A u \in People \ leaked :
        /\ counts[u] = Cardinality(ConnectionsOf(u))
        /\ u \notin faded /\ (\A x \in sent : x[1] # u) => (IsOnline(u) <=> ConnectionsOf(u) # {})

ListenerOK == OneListener /\ NobodyIsDeaf /\ PresenceOK
=============================================================================
