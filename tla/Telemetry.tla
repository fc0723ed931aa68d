------------------------------ MODULE Telemetry ------------------------------
(***************************************************************************)
(* The telemetry sockets of the dashboard: ConnectionManager and           *)
(* _telemetry_stream.  A handler holds a place while it authenticates and  *)
(* looks its scan up, then an entry in the manager; broadcasts go through  *)
(* a copy of the entries, and await each send.                             *)
(***************************************************************************)
EXTENDS Naturals, FiniteSets

CONSTANTS
    Socket,     \* connections a client may open
    Topic,      \* scan identifiers
    Caster,     \* tasks that broadcast
    Wanted,     \* Wanted[s]: the scan s follows, or All
    All,        \* the stream of every scan
    Places      \* how many may be held: 32

VARIABLES
    current,        \* the session is neither expired nor replaced
    handler,        \* what the handler of a socket does
    pending,        \* places held by handshakes
    active,         \* active_connections
    sessions,       \* sockets whose token is kept
    subscriptions,  \* sockets whose scan is kept
    cast,           \* cast[c]: the broadcast of c, [topic, left]
    received        \* received[s]: the scans whose events s was sent

tmVars == <<current, handler, pending, active, sessions, subscriptions, cast, received>>

Waiting == {"handshake", "lookup"}
Init ==
    /\ current = TRUE
    /\ handler = [s \in Socket |-> "none"]
    /\ pending = 0
    /\ active = {} /\ sessions = {} /\ subscriptions = {}
    /\ cast = [c \in Caster |-> [topic |-> All, left |-> {}]]
    /\ received = [s \in Socket |-> {}]

-----------------------------------------------------------------------------
Stays == UNCHANGED <<current, cast, received>>
Becomes(s, state) == handler' = [handler EXCEPT ![s] = state]
Untracked == UNCHANGED <<active, sessions, subscriptions>>

\* (mutant) the token of a closed connection is kept
DisconnectKeepsToken(s) ==
    /\ active' = active \ {s}
    /\ subscriptions' = subscriptions \ {s}
    /\ UNCHANGED sessions
\* ConnectionManager.disconnect
Disconnect(s) ==
    /\ sessions' = sessions \ {s}
    /\ subscriptions' = subscriptions \ {s}
    /\ active' = active \ {s}

\* A connection takes a place, or is closed when none is left.
Connect(s) ==
    /\ handler[s] = "none"
    /\ IF Cardinality(active) + pending >= Places
         THEN Becomes(s, "closed") /\ UNCHANGED pending
       ELSE Becomes(s, "handshake") /\ pending' = pending + 1
    /\ Untracked /\ Stays

\* Whatever ends a handshake but admission gives its place back: a bad or late
\* token, a session that is over, a scan that is not found, a lost connection.
GiveUp(s) ==
    /\ handler[s] \in Waiting
    /\ pending' = pending - 1
    /\ Becomes(s, "closed")
    /\ Untracked /\ Stays

Authenticated(s) ==
    /\ handler[s] = "handshake" /\ current /\ Wanted[s] # All
    /\ Becomes(s, "lookup")
    /\ UNCHANGED pending /\ Untracked /\ Stays

\* The place becomes an entry without an await in between.
Admit(s) ==
    /\ \/ handler[s] = "handshake" /\ current /\ Wanted[s] = All
       \/ handler[s] = "lookup"
    /\ pending' = pending - 1
    /\ active' = active \cup {s}
    /\ sessions' = sessions \cup {s}
    /\ subscriptions' = subscriptions \cup {s}
    /\ Becomes(s, "open")
    /\ Stays

\* The loop of a handler: it looks at the session before each wait for the
\* client, at most 30 seconds; the client may leave at any time.
LoopEnds(s) ==
    /\ handler[s] = "open" /\ ~current
    /\ Becomes(s, "closed") /\ Disconnect(s)
    /\ UNCHANGED pending /\ Stays
Leave(s) ==
    /\ handler[s] = "open"
    /\ Becomes(s, "closed") /\ Disconnect(s)
    /\ UNCHANGED pending /\ Stays

-----------------------------------------------------------------------------
Begin(c, topic) ==
    /\ cast[c].left = {} /\ active # {}
    /\ cast' = [cast EXCEPT ![c] = [topic |-> topic, left |-> active]]
    /\ UNCHANGED <<current, handler, pending, active, sessions, subscriptions, received>>

\* One connection of the copy: passed over by its subscription, closed without a
\* valid token, or sent the event; a send that fails or takes two seconds
\* removes the entry and leaves the handler where it is.
Passed(c, s) == s \in subscriptions /\ Wanted[s] \notin {All, cast[c].topic}
Trusted(s) == current /\ s \in sessions
Left(c, s) == cast' = [cast EXCEPT ![c].left = @ \ {s}]

Skip(c, s) ==
    /\ Passed(c, s)
    /\ UNCHANGED received /\ Untracked
Expel(c, s) ==
    /\ ~Passed(c, s) /\ ~Trusted(s)
    /\ Disconnect(s) /\ UNCHANGED received
Deliver(c, s) ==
    /\ ~Passed(c, s) /\ Trusted(s)
    /\ received' = [received EXCEPT ![s] = @ \cup {cast[c].topic}]
    /\ Untracked \/ Disconnect(s)

Broadcast(c) ==
    \E s \in cast[c].left :
        /\ Left(c, s)
        /\ Skip(c, s) \/ Expel(c, s) \/ Deliver(c, s)
        /\ UNCHANGED <<current, handler, pending>>

SessionEnds ==
    /\ current /\ current' = FALSE
    /\ UNCHANGED <<handler, pending, active, sessions, subscriptions, cast, received>>

Serves(s) == GiveUp(s) \/ Authenticated(s) \/ Admit(s) \/ LoopEnds(s)
tmNext ==
    \/ \E s \in Socket : Connect(s) \/ Serves(s) \/ Leave(s)
    \/ \E c \in Caster : Broadcast(c) \/ \E topic \in Topic : Begin(c, topic)
    \/ SessionEnds

\* A handler goes on: a handshake has five seconds, a lookup ends, and the loop
\* turns at least every 30 seconds.
tmFair == \A s \in Socket : WF_tmVars(Serves(s))

-----------------------------------------------------------------------------
(***************************************************************************)
(* Properties.                                                             *)
(***************************************************************************)
tmTypeOK ==
    /\ current \in BOOLEAN
    /\ handler \in [Socket -> {"none", "open", "closed"} \cup Waiting]
    /\ pending \in 0 .. Places
    /\ active \subseteq Socket /\ sessions \subseteq Socket /\ subscriptions \subseteq Socket
    /\ cast \in [Caster -> [topic : Topic \cup {All}, left : SUBSET Socket]]
    /\ received \in [Socket -> SUBSET Topic]

\* Places are held by exactly the handshakes under way, entries by handlers that
\* run, and both together never exceed the limit.
PlacesExact ==
    /\ pending = Cardinality({s \in Socket : handler[s] \in Waiting})
    /\ Cardinality(active) + pending <= Places
    /\ active \cup sessions \subseteq {s \in Socket : handler[s] = "open"}

\* A socket of one scan is sent the events of that scan only
\* (websocket_scan_telemetry), also by a broadcast that copied the entries
\* before the socket left.
OwnEventsOnly == \A s \in Socket : Wanted[s] # All => received[s] \subseteq {Wanted[s]}

\* Nothing is sent to a socket whose handler has ended, or on an ended session.
SentWhileOpen ==
    \A s \in Socket : received'[s] # received[s] => current /\ handler[s] = "open"

\* When the session ends every handler ends, and with them the entries.
StreamsEnd == ~current ~> \A s \in Socket : handler[s] \in {"none", "closed"} /\ s \notin active

\* The types, places, entries, contents and ends of the telemetry sockets.
TelemetryKept == [](tmTypeOK /\ PlacesExact /\ OwnEventsOnly) /\ [][SentWhileOpen]_tmVars /\ StreamsEnd
==============================================================================
