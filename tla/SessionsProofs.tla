---------------------------- MODULE SessionsProofs ----------------------------
(***************************************************************************)
(* Safety of the long-lived work of the dashboard that keeps no rows: the  *)
(* telemetry sockets, for any number of sockets, scans, broadcasts and     *)
(* places, the capture proxy, for any number of clients, origins and       *)
(* limits, and the live logs, for any number of streams and any limits.    *)
(* They share no state; each has its own invariant.                        *)
(*                                                                         *)
(* The three collections of the manager of the sockets name the same       *)
(* sockets, and each of these has a handler that is open: so the places    *)
(* are counted exactly, and a broadcast that works on an old copy meets a  *)
(* socket that has left as one without a token.                            *)
(***************************************************************************)
EXTENDS Telemetry, CaptureProxy, LogStream, FiniteSetTheorems, SequenceTheorems,
        WellFoundedInduction, TLAPS

telemetrySpec == Init /\ [][tmNext]_tmVars

\* What a dashboard is given: its limit, and the scan that a socket asks for.
TelemetryGiven == IsFiniteSet(Socket) /\ Places \in Nat /\ Wanted \in [Socket -> Topic \cup {All}]

HandshakesOf(handlers) == {s \in Socket : handlers[s] \in Waiting}

\* A place counted twice would let active and pending drift apart from the
\* handlers, and one collection that outlives another would let a broadcast
\* send to a socket without a subscription.
TelemetryInv ==
    /\ tmTypeOK /\ PlacesExact /\ OwnEventsOnly
    /\ active = sessions /\ subscriptions = sessions
    /\ \A c \in Caster : cast[c].left # {} => cast[c].topic \in Topic

-----------------------------------------------------------------------------
\* A handler that leaves, enters or stays outside the handshake changes their
\* number by one, or not at all.
LEMMA Counted ==
    ASSUME IsFiniteSet(Socket), NEW s \in Socket, NEW to,
           handler \in [Socket -> {"none", "open", "closed"} \cup Waiting], Becomes(s, to)
    PROVE  /\ Cardinality(HandshakesOf(handler)) \in Nat
           /\ handler[s] \in Waiting => Cardinality(HandshakesOf(handler)) > 0
           /\ handler[s] \in Waiting /\ to \notin Waiting =>
                Cardinality(HandshakesOf(handler')) = Cardinality(HandshakesOf(handler)) - 1
           /\ handler[s] \notin Waiting /\ to \in Waiting =>
                Cardinality(HandshakesOf(handler')) = Cardinality(HandshakesOf(handler)) + 1
           /\ (handler[s] \in Waiting <=> to \in Waiting) =>
                HandshakesOf(handler') = HandshakesOf(handler)
<1> DEFINE before == HandshakesOf(handler)
<1>1. IsFiniteSet(before) /\ Cardinality(before) \in Nat
  BY FS_Subset, FS_CardinalityType DEF HandshakesOf
<1>2. handler[s] \in Waiting => Cardinality(before) > 0
  BY <1>1, FS_EmptySet DEF HandshakesOf
<1>3. ASSUME handler[s] \in Waiting, to \notin Waiting
      PROVE  Cardinality(HandshakesOf(handler')) = Cardinality(before) - 1
  <2>1. HandshakesOf(handler') = before \ {s} /\ s \in before
    BY <1>3 DEF HandshakesOf, Becomes
  <2> QED BY <1>1, <2>1, FS_RemoveElement
<1>4. ASSUME handler[s] \notin Waiting, to \in Waiting
      PROVE  Cardinality(HandshakesOf(handler')) = Cardinality(before) + 1
  <2>1. HandshakesOf(handler') = before \cup {s} /\ s \notin before
    BY <1>4 DEF HandshakesOf, Becomes
  <2> QED BY <1>1, <2>1, FS_AddElement
<1>5. (handler[s] \in Waiting <=> to \in Waiting) => HandshakesOf(handler') = before
  BY DEF HandshakesOf, Becomes
<1> QED BY <1>1, <1>2, <1>3, <1>4, <1>5

LEMMA InitTelemetryInv == TelemetryGiven /\ Init => TelemetryInv
<1> SUFFICES ASSUME TelemetryGiven, Init PROVE TelemetryInv
  OBVIOUS
<1>1. {s \in Socket : handler[s] \in Waiting} = {}
  BY DEF Init, Waiting
<1>2. Cardinality(active) = 0 /\ Cardinality({s \in Socket : handler[s] \in Waiting}) = 0 /\ pending = 0
  BY <1>1, FS_EmptySet DEF Init
<1>3. tmTypeOK
  BY DEF TelemetryGiven, Init, tmTypeOK
<1>4. PlacesExact
  <2>1. \A s \in active : handler[s] = "open"
    BY DEF Init
  <2> QED BY <1>2, <2>1 DEF TelemetryGiven, Init, PlacesExact
<1>5. OwnEventsOnly /\ (\A c \in Caster : cast[c].left # {} => cast[c].topic \in Topic)
  BY DEF Init, OwnEventsOnly
<1> QED BY <1>3, <1>4, <1>5 DEF TelemetryInv, Init

\* What is left to show of a step of one handler: its places and its entries.
LEMMA HandlerTelemetryInv ==
    ASSUME TelemetryGiven, TelemetryInv, NEW s \in Socket, NEW to \in {"none", "open", "closed"} \cup Waiting,
           Becomes(s, to), UNCHANGED <<current, cast, received>>,
           active' \subseteq Socket, sessions' = active', subscriptions' = active',
           pending' \in Nat, pending' = Cardinality(HandshakesOf(handler')),
           Cardinality(active') + pending' <= Places,
           \A x \in active' : handler'[x] = "open"
    PROVE  TelemetryInv'
<1>1. Cardinality(active') \in Nat
  BY FS_Subset, FS_CardinalityType DEF TelemetryGiven
<1>2. tmTypeOK'
  BY <1>1 DEF TelemetryGiven, TelemetryInv, tmTypeOK, Becomes
<1>3. PlacesExact'
  BY DEF PlacesExact, HandshakesOf
<1>4. OwnEventsOnly' /\ \A c \in Caster : cast'[c].left # {} => cast'[c].topic \in Topic
  BY DEF TelemetryInv, OwnEventsOnly
<1> QED BY <1>2, <1>3, <1>4 DEF TelemetryInv

\* The numbers that a step of one handler starts from.
LEMMA Numbers ==
    ASSUME TelemetryGiven, TelemetryInv
    PROVE  /\ IsFiniteSet(active) /\ Cardinality(active) \in Nat /\ pending \in Nat
           /\ pending = Cardinality(HandshakesOf(handler))
           /\ Cardinality(active) + pending <= Places
           /\ active \subseteq Socket /\ \A x \in active : handler[x] = "open"
           /\ handler \in [Socket -> {"none", "open", "closed"} \cup Waiting]
           /\ IsFiniteSet(Socket) /\ Places \in Nat
           /\ sessions = active /\ subscriptions = active
<1>1. active \subseteq Socket /\ pending \in Nat
  BY DEF TelemetryGiven, TelemetryInv, tmTypeOK
<1>2. IsFiniteSet(active) /\ Cardinality(active) \in Nat
  BY <1>1, FS_Subset, FS_CardinalityType DEF TelemetryGiven
<1> QED BY <1>1, <1>2 DEF TelemetryGiven, TelemetryInv, tmTypeOK, PlacesExact, HandshakesOf

\* A handler that takes a place, gives it back or turns it into an entry.
LEMMA ConnectTelemetryInv ==
    ASSUME TelemetryGiven, TelemetryInv, NEW s \in Socket, Connect(s)
    PROVE  TelemetryInv'
<1>1. /\ handler[s] = "none" /\ s \notin active
      /\ UNCHANGED <<active, sessions, subscriptions, current, cast, received>>
  BY Numbers DEF Connect, Untracked, Stays
<1>2. CASE Cardinality(active) + pending >= Places
  <2>1. Becomes(s, "closed") /\ pending' = pending
    BY <1>2 DEF Connect
  <2>2. HandshakesOf(handler') = HandshakesOf(handler)
    BY <1>1, <2>1, Numbers, Counted DEF Waiting
  <2>3. \A x \in active' : handler'[x] = "open"
    BY <1>1, <2>1, Numbers DEF Becomes
  <2> QED BY <1>1, <2>1, <2>2, <2>3, Numbers, HandlerTelemetryInv
<1>3. CASE ~(Cardinality(active) + pending >= Places)
  <2>1. Becomes(s, "handshake") /\ pending' = pending + 1
    BY <1>3 DEF Connect
  <2>2. Cardinality(HandshakesOf(handler')) = pending + 1
    BY <1>1, <2>1, Numbers, Counted DEF Waiting
  <2>3. \A x \in active' : handler'[x] = "open"
    BY <1>1, <2>1, Numbers DEF Becomes
  <2>4. Cardinality(active') + pending' <= Places /\ pending' \in Nat
    BY <1>1, <1>3, <2>1, Numbers
  <2> QED BY <1>1, <2>1, <2>2, <2>3, <2>4, Numbers, HandlerTelemetryInv DEF Waiting
<1> QED BY <1>2, <1>3

\* A place is given back by whoever is in the handshake.
LEMMA Returned ==
    ASSUME TelemetryGiven, TelemetryInv, NEW s \in Socket, handler[s] \in Waiting,
           NEW to, to \notin Waiting, Becomes(s, to), pending' = pending - 1
    PROVE  pending' \in Nat /\ pending' = Cardinality(HandshakesOf(handler'))
<1>1. pending > 0 /\ Cardinality(HandshakesOf(handler')) = pending - 1
  BY Numbers, Counted
<1> QED BY <1>1, Numbers

LEMMA GiveUpTelemetryInv ==
    ASSUME TelemetryGiven, TelemetryInv, NEW s \in Socket, GiveUp(s)
    PROVE  TelemetryInv'
<1>1. /\ handler[s] \in Waiting /\ s \notin active
      /\ Becomes(s, "closed") /\ pending' = pending - 1
      /\ UNCHANGED <<active, sessions, subscriptions, current, cast, received>>
  BY Numbers DEF GiveUp, Untracked, Stays, Waiting
<1>2. pending' \in Nat /\ pending' = Cardinality(HandshakesOf(handler'))
  BY <1>1, Returned DEF Waiting
<1>3. \A x \in active' : handler'[x] = "open"
  BY <1>1, Numbers DEF Becomes
<1>4. Cardinality(active') + pending' <= Places
  BY <1>1, Numbers
<1> QED BY <1>1, <1>2, <1>3, <1>4, Numbers, HandlerTelemetryInv

LEMMA AdmitTelemetryInv ==
    ASSUME TelemetryGiven, TelemetryInv, NEW s \in Socket, Admit(s)
    PROVE  TelemetryInv'
<1>1. /\ handler[s] \in Waiting
      /\ Becomes(s, "open") /\ pending' = pending - 1
      /\ active' = active \cup {s} /\ sessions' = active' /\ subscriptions' = active'
      /\ UNCHANGED <<current, cast, received>>
  BY Numbers DEF Admit, Stays, Waiting
<1>2. pending' \in Nat /\ pending' = Cardinality(HandshakesOf(handler'))
  BY <1>1, Returned DEF Waiting
<1>3. active' \subseteq Socket /\ \A x \in active' : handler'[x] = "open"
  BY <1>1, Numbers DEF Becomes
<1>4. Cardinality(active \cup {s}) = Cardinality(active) + 1
  <2>1. s \notin active
    BY <1>1, Numbers DEF Waiting
  <2> QED BY <2>1, Numbers, FS_AddElement
<1>5. Cardinality(active') + pending' <= Places
  BY <1>1, <1>4, Numbers
<1> QED BY <1>1, <1>2, <1>3, <1>5, HandlerTelemetryInv

LEMMA AuthenticatedTelemetryInv ==
    ASSUME TelemetryGiven, TelemetryInv, NEW s \in Socket, Authenticated(s)
    PROVE  TelemetryInv'
<1>1. /\ handler[s] = "handshake" /\ s \notin active /\ Becomes(s, "lookup")
      /\ UNCHANGED <<pending, active, sessions, subscriptions, current, cast, received>>
  BY Numbers DEF Authenticated, Untracked, Stays
<1>2. HandshakesOf(handler') = HandshakesOf(handler)
  BY <1>1, Numbers, Counted DEF Waiting
<1>3. \A x \in active' : handler'[x] = "open"
  BY <1>1, Numbers DEF Becomes
<1> QED BY <1>1, <1>2, <1>3, Numbers, HandlerTelemetryInv DEF Waiting

-----------------------------------------------------------------------------
\* An entry that goes makes room, and takes its token and scan along.
LEMMA Room ==
    ASSUME TelemetryGiven, TelemetryInv, NEW s \in Socket, Disconnect(s)
    PROVE  /\ Cardinality(active') \in Nat /\ Cardinality(active') <= Cardinality(active)
           /\ active' = active \ {s} /\ sessions' = active' /\ subscriptions' = active'
<1>1. active' = active \ {s} /\ sessions' = active' /\ subscriptions' = active'
  BY Numbers DEF Disconnect
<1>2. Cardinality(active \ {s}) \in Nat /\ Cardinality(active \ {s}) <= Cardinality(active)
  <2>1. IsFiniteSet(active) /\ Cardinality(active) \in Nat
    BY Numbers
  <2>2. IsFiniteSet(active \ {s})
    BY <2>1, FS_RemoveElement
  <2>3. Cardinality(active \ {s}) \in Nat
    BY <2>2, FS_CardinalityType
  <2>4. Cardinality(active \ {s}) <= Cardinality(active)
    BY <2>1, FS_Subset
  <2> QED BY <2>3, <2>4
<1> QED BY <1>1, <1>2

\* The end of a handler by its session or its client.
LEMMA EndTelemetryInv ==
    ASSUME TelemetryGiven, TelemetryInv, NEW s \in Socket, LoopEnds(s) \/ Leave(s)
    PROVE  TelemetryInv'
<1>1. /\ handler[s] = "open" /\ Becomes(s, "closed") /\ Disconnect(s)
      /\ UNCHANGED <<pending, current, cast, received>>
  BY DEF LoopEnds, Leave, Stays
<1>2. HandshakesOf(handler') = HandshakesOf(handler)
  BY <1>1, Numbers, Counted DEF Waiting
<1>3. active' \subseteq Socket /\ \A x \in active' : handler'[x] = "open"
  BY <1>1, Room, Numbers DEF Becomes
<1>4. Cardinality(active') + pending' <= Places
  BY <1>1, Room, Numbers
<1> QED BY <1>1, <1>2, <1>3, <1>4, Room, Numbers, HandlerTelemetryInv

LEMMA BeginTelemetryInv ==
    ASSUME TelemetryGiven, TelemetryInv, NEW c \in Caster, NEW topic \in Topic, Begin(c, topic)
    PROVE  TelemetryInv'
  BY DEF TelemetryGiven, TelemetryInv, tmTypeOK, PlacesExact, OwnEventsOnly, Begin

\* A broadcast handles a socket that is still in its copy.
LEMMA BroadcastTelemetryInv ==
    ASSUME TelemetryGiven, TelemetryInv, NEW c \in Caster, Broadcast(c)
    PROVE  TelemetryInv'
<1>1. PICK s \in cast[c].left :
        /\ Left(c, s)
        /\ Skip(c, s) \/ Expel(c, s) \/ Deliver(c, s)
        /\ UNCHANGED <<current, handler, pending>>
  BY DEF Broadcast
<1>2. s \in Socket
  BY <1>1 DEF TelemetryInv, tmTypeOK
<1>3. /\ cast' \in [Caster -> [topic : Topic \cup {All}, left : SUBSET Socket]]
      /\ \A d \in Caster : cast'[d].left # {} => cast'[d].topic \in Topic
  BY <1>1 DEF TelemetryInv, tmTypeOK, Left
<1>4. cast[c].topic \in Topic
  BY <1>1 DEF TelemetryInv
<1>5. /\ received' \in [Socket -> SUBSET Topic]
      /\ OwnEventsOnly'
  <2>1. CASE UNCHANGED received
    BY <2>1 DEF TelemetryInv, tmTypeOK, OwnEventsOnly
  <2>2. CASE Deliver(c, s)
    BY <1>2, <1>4, <2>2 DEF TelemetryInv, tmTypeOK, OwnEventsOnly, Deliver, Passed, Trusted
  <2> QED BY <1>1, <2>1, <2>2 DEF Skip, Expel
<1>6. Untracked \/ Disconnect(s)
  BY <1>1 DEF Skip, Expel, Deliver
<1>7. /\ active' \subseteq active /\ sessions' = active' /\ subscriptions' = active'
      /\ Cardinality(active') \in Nat /\ Cardinality(active') <= Cardinality(active)
  BY <1>2, <1>6, Room, Numbers DEF Untracked
<1>8. Cardinality(active') + pending' <= Places
  BY <1>1, <1>7, Numbers
<1>9. PlacesExact'
  BY <1>1, <1>7, <1>8, Numbers DEF PlacesExact, HandshakesOf
<1>10. tmTypeOK'
  BY <1>1, <1>3, <1>5, <1>7, Numbers DEF TelemetryInv, tmTypeOK
<1> QED BY <1>3, <1>5, <1>7, <1>9, <1>10 DEF TelemetryInv

LEMMA NextTelemetryInv == TelemetryGiven /\ TelemetryInv /\ [tmNext]_tmVars => TelemetryInv'
<1> SUFFICES ASSUME TelemetryGiven, TelemetryInv, [tmNext]_tmVars PROVE TelemetryInv'
  OBVIOUS
<1>1. CASE UNCHANGED tmVars
  BY <1>1 DEF tmVars, TelemetryInv, tmTypeOK, PlacesExact, OwnEventsOnly
<1>2. ASSUME NEW s \in Socket, Connect(s) \/ Serves(s) \/ Leave(s) PROVE TelemetryInv'
  BY <1>2, ConnectTelemetryInv, GiveUpTelemetryInv, AuthenticatedTelemetryInv, AdmitTelemetryInv, EndTelemetryInv DEF Serves
<1>3. ASSUME NEW c \in Caster, Broadcast(c) PROVE TelemetryInv'
  BY <1>3, BroadcastTelemetryInv
<1>4. ASSUME NEW c \in Caster, NEW topic \in Topic, Begin(c, topic) PROVE TelemetryInv'
  BY <1>4, BeginTelemetryInv
<1>5. CASE SessionEnds
  BY <1>5 DEF SessionEnds, TelemetryInv, tmTypeOK, PlacesExact, OwnEventsOnly
<1> QED BY <1>1, <1>2, <1>3, <1>4, <1>5 DEF tmNext

-----------------------------------------------------------------------------
LEMMA TelemetryInvariance ==
    ASSUME TelemetryGiven PROVE telemetrySpec => []TelemetryInv
<1>1. Init => TelemetryInv
  BY InitTelemetryInv
<1>2. TelemetryInv /\ [tmNext]_tmVars => TelemetryInv'
  BY NextTelemetryInv
<1> QED BY <1>1, <1>2, PTL DEF telemetrySpec

\* The places are held by exactly the handshakes under way, entries by handlers
\* that run, and both together stay within the limit (ConnectionManager).
THEOREM PlacesAreExact ==
    ASSUME TelemetryGiven PROVE telemetrySpec => [](tmTypeOK /\ PlacesExact)
<1>1. TelemetryInv => tmTypeOK /\ PlacesExact
  BY DEF TelemetryInv
<1> QED BY <1>1, TelemetryInvariance, PTL

\* No socket is ever sent the event of a scan it does not follow
\* (ConnectionManager.broadcast).
THEOREM OwnScanOnly ==
    ASSUME TelemetryGiven PROVE telemetrySpec => []OwnEventsOnly
<1>1. TelemetryInv => OwnEventsOnly
  BY DEF TelemetryInv
<1> QED BY <1>1, TelemetryInvariance, PTL

LEMMA SendIsOpen == TelemetryInv /\ [tmNext]_tmVars => [SentWhileOpen]_tmVars
<1> SUFFICES ASSUME TelemetryInv, tmNext, NEW s \in Socket, received'[s] # received[s]
             PROVE  current /\ handler[s] = "open"
  BY DEF SentWhileOpen
<1>1. PICK c \in Caster : Broadcast(c)
  BY DEF tmNext, Connect, Serves, GiveUp, Authenticated, Admit, LoopEnds, Leave, Begin,
         SessionEnds, Stays
<1>2. PICK w \in cast[c].left : Deliver(c, w)
  BY <1>1 DEF Broadcast, Skip, Expel
<1>3. w = s /\ Trusted(s)
  BY <1>2 DEF Deliver, TelemetryInv, tmTypeOK
<1> QED BY <1>3 DEF Trusted, TelemetryInv, PlacesExact

\* No socket is sent anything after its handler ended or on an ended session,
\* though a broadcast goes through a copy taken earlier (ConnectionManager.broadcast).
THEOREM NothingAfterTheEnd ==
    ASSUME TelemetryGiven PROVE telemetrySpec => [][SentWhileOpen]_tmVars
  BY TelemetryInvariance, SendIsOpen, PTL DEF telemetrySpec

-----------------------------------------------------------------------------
(***************************************************************************)
(* The capture proxy.  A connection takes its place in the step that finds *)
(* one free and gives it back when it is gone or never (a client cancelled *)
(* while it closes); and the proxy has a scope from its first start on,    *)
(* which later starts keep.                                                *)
(***************************************************************************)
captureSpec == cpInit /\ [][cpNext]_cpVars

CaptureGiven == IsFiniteSet(Client) /\ MaxClients \in Nat

States == {"none", "reading", "upstream", "responding", "closing", "gone"}

\* ClientsExact does not say that a scope is there when the port is opened, and
\* without it a start that overlaps could still set one.
CaptureInv ==
    /\ client \in [Client -> States] /\ clients \subseteq Client
    /\ ClientsExact
    /\ server # "closed" => scope # {}

LEMMA InitCaptureInv ==
    ASSUME CaptureGiven PROVE cpInit => CaptureInv
<1> SUFFICES ASSUME cpInit PROVE CaptureInv
  OBVIOUS
<1>1. Cardinality(clients) = 0
  BY FS_EmptySet DEF cpInit
<1>2. {k \in Client : Live(k)} = {}
  BY DEF cpInit, Live
<1>3. running <=> (server \in {"listening", "closing", "cancelling"})
  BY DEF cpInit
<1>4. Cardinality(clients) <= MaxClients
  BY <1>1 DEF CaptureGiven
<1>5. server = "closed" /\ clients = {} /\ client \in [Client -> States]
  BY DEF cpInit, States
<1> QED BY <1>2, <1>3, <1>4, <1>5 DEF CaptureInv, ClientsExact

-----------------------------------------------------------------------------
\* A policy that is saved, and a server that starts or goes down.
LEMMA ServerCaptureInv ==
    ASSUME CaptureGiven, CaptureInv,
           (\E origins \in Scopes : SavePolicy(origins)) \/ Start \/ Opened \/ Stop
    PROVE  CaptureInv'
<1>1. UNCHANGED <<client, clients>>
  BY DEF SavePolicy, Start, Opened, Stop, Clients
<1>2. running' <=> (server' \in {"listening", "closing", "cancelling"})
  <2>1. CASE UNCHANGED <<running, server>>
    BY <2>1 DEF CaptureInv, ClientsExact
  <2>2. CASE server = "closed" /\ server' = "opening" /\ UNCHANGED running
    BY <2>2 DEF CaptureInv, ClientsExact
  <2>3. CASE server = "opening" /\ server' = "closed" /\ UNCHANGED running
    BY <2>3 DEF CaptureInv, ClientsExact
  <2>4. CASE server' = "listening" /\ running' = TRUE
    BY <2>4
  <2>5. CASE server = "listening" /\ server' = "closing" /\ UNCHANGED running
    BY <2>5 DEF CaptureInv, ClientsExact
  <2> QED BY <2>1, <2>2, <2>3, <2>4, <2>5 DEF SavePolicy, Start, Opened, Stop
<1>3. server' # "closed" => scope' # {}
  BY DEF SavePolicy, Start, Opened, Stop, CaptureInv
<1> QED BY <1>1, <1>2, <1>3 DEF CaptureInv, ClientsExact, Live

\* A stop cancels whoever is there; none of them is served twice.
LEMMA CancelCaptureInv ==
    ASSUME CaptureGiven, CaptureInv, StopCancels \/ StopAgain
    PROVE  CaptureInv'
<1>1. /\ Cancelled /\ UNCHANGED <<clients, running, scope>>
      /\ server \in {"closing", "cancelling"} /\ server' = "cancelling"
  BY DEF StopCancels, StopAgain
<1>2. /\ DOMAIN client' = Client /\ client' = [k \in Client |-> client'[k]]
      /\ \A k \in Client : client'[k] \in {"gone", "closing", client[k]}
  BY <1>1 DEF Cancelled
<1>3. client' \in [Client -> States]
  BY <1>2 DEF CaptureInv, States
<1>4. \A k \in Client : client[k] \in {"none", "gone"} => client'[k] = client[k]
  BY <1>1 DEF Cancelled
<1>5. \A k \in Client : Live(k)' => Live(k)
  BY <1>4 DEF Live
<1> QED BY <1>1, <1>3, <1>5 DEF CaptureInv, ClientsExact

LEMMA StopDoneCaptureInv ==
    ASSUME CaptureGiven, CaptureInv, StopDone
    PROVE  CaptureInv'
<1>1. running' <=> (server' \in {"listening", "closing", "cancelling"})
  BY DEF StopDone
<1>2. UNCHANGED <<client, clients>> /\ server' = "closed"
  BY DEF StopDone, Clients
<1> QED BY <1>1, <1>2 DEF CaptureInv, ClientsExact, Live

\* A connection takes a place only where one is left.
LEMMA AcceptCaptureInv ==
    ASSUME CaptureGiven, CaptureInv, NEW k \in Client, Accepts(k)
    PROVE  CaptureInv'
<1>1. /\ client' = [client EXCEPT ![k] = "reading"] /\ clients' = clients \cup {k}
      /\ Cardinality(clients) < MaxClients
      /\ UNCHANGED <<server, running, scope>>
  BY DEF Accepts, Turns, Quiet
<1>2. IsFiniteSet(clients) /\ Cardinality(clients) \in Nat
  BY FS_Subset, FS_CardinalityType DEF CaptureGiven, CaptureInv
<1>3. Cardinality(clients \cup {k}) \in {Cardinality(clients), Cardinality(clients) + 1}
  BY <1>2, FS_AddElement
<1>4. Cardinality(clients') <= MaxClients
  BY <1>1, <1>2, <1>3 DEF CaptureGiven
<1> QED BY <1>1, <1>4 DEF CaptureInv, ClientsExact, Live, States

\* A connection that is served keeps its place until it is gone.
LEMMA HandlesCaptureInv ==
    ASSUME CaptureGiven, CaptureInv, NEW k \in Client,
           Handles(k) \/ \E origin \in Origin : Forward(k, origin)
    PROVE  CaptureInv'
<1>1. UNCHANGED <<server, running, scope>>
  BY DEF Handles, Serve, Refuse, Close, Discard, Answer, Forward, Quiet
<1>2. CASE Discard(k)
  <2>1. client' = [client EXCEPT ![k] = "gone"] /\ clients' = clients \ {k}
    BY <1>2 DEF Discard, Turns
  <2>2. IsFiniteSet(clients) /\ Cardinality(clients) \in Nat /\ Cardinality(clients') \in Nat
    BY <2>1, FS_Subset, FS_CardinalityType DEF CaptureGiven, CaptureInv
  <2>3. Cardinality(clients') <= Cardinality(clients)
    BY <2>1, <2>2, FS_Subset
  <2> QED BY <1>1, <2>1, <2>2, <2>3 DEF CaptureGiven, CaptureInv, ClientsExact, Live, States
<1>3. CASE ~Discard(k)
  <2>1. PICK turn \in {"upstream", "responding", "closing"} :
          client' = [client EXCEPT ![k] = turn]
    BY <1>3 DEF Handles, Serve, Refuse, Close, Answer, Forward, Turns
  <2>2. client[k] \in {"reading", "upstream", "responding"} /\ clients' = clients
    BY <1>3 DEF Handles, Serve, Refuse, Close, Answer, Forward
  <2> QED BY <1>1, <2>1, <2>2 DEF CaptureInv, ClientsExact, Live, States
<1> QED BY <1>2, <1>3

LEMMA NextCaptureInv ==
    ASSUME CaptureGiven PROVE CaptureInv /\ [cpNext]_cpVars => CaptureInv'
<1> SUFFICES ASSUME CaptureInv, [cpNext]_cpVars PROVE CaptureInv'
  OBVIOUS
<1>1. CASE UNCHANGED cpVars
  BY <1>1 DEF cpVars, CaptureInv, ClientsExact, Live
<1>2. CASE (\E origins \in Scopes : SavePolicy(origins)) \/ Start \/ Opened \/ Stop
  BY <1>2, ServerCaptureInv
<1>3. CASE StopCancels \/ StopAgain
  BY <1>3, CancelCaptureInv
<1>4. CASE StopDone
  BY <1>4, StopDoneCaptureInv
<1>5. ASSUME NEW k \in Client,
             Accepts(k) \/ Handles(k) \/ \E origin \in Origin : Forward(k, origin)
      PROVE  CaptureInv'
  BY <1>5, AcceptCaptureInv, HandlesCaptureInv
<1> QED BY <1>1, <1>2, <1>3, <1>4, <1>5 DEF cpNext, Control

LEMMA CaptureInvariance ==
    ASSUME CaptureGiven PROVE captureSpec => []CaptureInv
  BY InitCaptureInv, NextCaptureInv, PTL DEF captureSpec

-----------------------------------------------------------------------------
\* Whoever is served has a place, there are no more of them than the limit, and
\* the flag tells what holds the port, in whatever order starts, stops and
\* connections overlap (AsyncMITMProxy).
THEOREM ClientsAreExact ==
    ASSUME CaptureGiven PROVE captureSpec => []ClientsExact
<1>1. CaptureInv => ClientsExact
  BY DEF CaptureInv
<1> QED BY <1>1, CaptureInvariance, PTL

LEMMA ScopeStep == CaptureInv /\ [cpNext]_cpVars => [ScopeStays]_cpVars
<1> SUFFICES ASSUME CaptureInv, cpNext, server \notin {"closed", "opening"} PROVE scope' = scope
  BY DEF ScopeStays
<1>1. CASE Start
  BY <1>1 DEF Start, CaptureInv
<1>2. CASE ~Start
  BY <1>2 DEF cpNext, SavePolicy, Control, Opened, Stop, StopCancels, StopAgain, StopDone,
         Accepts, Handles, Serve, Refuse, Close, Discard, Answer, Forward, Quiet
<1> QED BY <1>1, <1>2

\* While the proxy serves, no start or saved policy changes what is in scope
\* (the routes that start and stop the proxy).
THEOREM ScopeIsKept ==
    ASSUME CaptureGiven PROVE captureSpec => [][ScopeStays]_cpVars
  BY CaptureInvariance, ScopeStep, PTL DEF captureSpec

-----------------------------------------------------------------------------
(***************************************************************************)
(* The buffer of the capture proxy.  Its bytes are counted as pairs, so    *)
(* that what one transaction adds and what the oldest take with them       *)
(* follows from the cardinality of finite sets; the oldest that must go    *)
(* are the fewest, which exist by the least-number principle.              *)
(***************************************************************************)
\* What the buffer is given: transactions that take some bytes, and its limits.
BufferGiven == Sizes \subseteq Nat /\ MaxStored \in Nat \ {0} /\ MaxBytes \in Nat

\* What a transaction that is kept may take.
Kept == 0 .. MaxBytes

\* The least-number principle for a set: no induction is taken through a formula.
LEMMA Least ==
    ASSUME NEW T \in SUBSET Nat, T # {}
    PROVE  \E n \in T : \A m \in T : n <= m
<1>1. IsWellFoundedOn(OpToRel(<, Nat), Nat)
  BY NatLessThanWellFounded
<1>2. PICK n \in T : \A m \in T : <<m, n>> \notin OpToRel(<, Nat)
  BY <1>1, WFMin
<1>3. \A m \in T : ~(m < n)
  BY <1>2 DEF OpToRel
<1> QED BY <1>3

\* The bytes of transactions none of which exceeds the buffer can be counted.
LEMMA BytesFinite ==
    ASSUME BufferGiven, NEW sizes \in Seq(Kept)
    PROVE  /\ IsFiniteSet(Bytes(sizes)) /\ Total(sizes) \in Nat
           /\ \A p \in Bytes(sizes) :
                p = <<p[1], p[2]>> /\ p[1] \in 1 .. Len(sizes) /\ p[2] \in 1 .. sizes[p[1]]
           /\ \A i \in 1 .. Len(sizes) : \A j \in 1 .. sizes[i] : <<i, j>> \in Bytes(sizes)
<1>1. DOMAIN sizes = 1 .. Len(sizes) /\ Len(sizes) \in Nat /\ \A i \in 1 .. Len(sizes) : sizes[i] \in Kept
  BY LenProperties
<1>2. \A p \in Bytes(sizes) : p = <<p[1], p[2]>> /\ p[1] \in 1 .. Len(sizes) /\ p[2] \in 1 .. sizes[p[1]]
  BY <1>1 DEF Bytes
<1>3. \A i \in 1 .. Len(sizes) : \A j \in 1 .. sizes[i] : <<i, j>> \in Bytes(sizes)
  BY <1>1 DEF Bytes
<1>4. IsFiniteSet((1 .. Len(sizes)) \X (1 .. MaxBytes))
  <2>1. IsFiniteSet(1 .. Len(sizes)) /\ IsFiniteSet(1 .. MaxBytes)
    BY <1>1, FS_Interval DEF BufferGiven
  <2> QED BY <2>1, FS_Product
<1>5. Bytes(sizes) \in SUBSET ((1 .. Len(sizes)) \X (1 .. MaxBytes))
  <2> SUFFICES ASSUME NEW p \in Bytes(sizes) PROVE p \in (1 .. Len(sizes)) \X (1 .. MaxBytes)
    OBVIOUS
  <2>1. p = <<p[1], p[2]>> /\ p[1] \in 1 .. Len(sizes) /\ p[2] \in 1 .. sizes[p[1]]
    BY <1>2
  <2>2. sizes[p[1]] \in Nat /\ sizes[p[1]] <= MaxBytes
    BY <1>1, <2>1 DEF Kept, BufferGiven
  <2>3. p[2] \in 1 .. MaxBytes
    BY <2>1, <2>2 DEF BufferGiven
  <2> QED BY <2>1, <2>3
<1>6. IsFiniteSet(Bytes(sizes))
  BY <1>4, <1>5, FS_Subset
<1> QED BY <1>2, <1>3, <1>6, FS_CardinalityType DEF Total

\* One more transaction adds its bytes.
LEMMA TotalOfAppend ==
    ASSUME BufferGiven, NEW sizes \in Seq(Kept), NEW size \in Kept
    PROVE  Total(Append(sizes, size)) = Total(sizes) + size
<1> DEFINE longer == Append(sizes, size)
           new == {Len(sizes) + 1} \X (1 .. size)
<1>1. /\ longer \in Seq(Kept) /\ Len(longer) = Len(sizes) + 1 /\ Len(sizes) \in Nat
      /\ \A i \in 1 .. Len(sizes) : longer[i] = sizes[i]
      /\ longer[Len(sizes) + 1] = size
  BY AppendProperties, LenProperties
<1>2. IsFiniteSet(new) /\ Cardinality(new) = size
  <2>0. size \in Nat /\ size \in Int /\ 1 \in Int
    BY DEF Kept, BufferGiven
  <2>a. IsFiniteSet(1 .. size) /\ Cardinality(1 .. size) = IF 1 > size THEN 0 ELSE size - 1 + 1
    BY <2>0, FS_Interval
  <2>1. IsFiniteSet(1 .. size) /\ Cardinality(1 .. size) = size
    BY <2>0, <2>a
  <2>2. IsFiniteSet({Len(sizes) + 1}) /\ Cardinality({Len(sizes) + 1}) = 1
    BY FS_Singleton
  <2>3. IsFiniteSet(new) /\ Cardinality(new) = 1 * size
    BY <2>1, <2>2, FS_Product
  <2> QED BY <2>0, <2>3
<1> HIDE DEF longer
<1>3. Bytes(longer) = Bytes(sizes) \cup new
  <2>1. ASSUME NEW p \in Bytes(longer) PROVE p \in Bytes(sizes) \cup new
    <3>1. p = <<p[1], p[2]>> /\ p[1] \in 1 .. Len(longer) /\ p[2] \in 1 .. longer[p[1]]
      BY <1>1, BytesFinite
    <3>2. CASE p[1] = Len(sizes) + 1
      BY <1>1, <3>1, <3>2
    <3>3. CASE p[1] \in 1 .. Len(sizes)
      BY <1>1, <3>1, <3>3, BytesFinite
    <3> QED BY <1>1, <3>1, <3>2, <3>3
  <2>2. ASSUME NEW p \in Bytes(sizes) PROVE p \in Bytes(longer)
    <3>1. p = <<p[1], p[2]>> /\ p[1] \in 1 .. Len(sizes) /\ p[2] \in 1 .. sizes[p[1]]
      BY BytesFinite
    <3>2. p[1] \in 1 .. Len(longer) /\ longer[p[1]] = sizes[p[1]]
      BY <1>1, <3>1
    <3> QED BY <1>1, <3>1, <3>2, BytesFinite
  <2>3. ASSUME NEW p \in new PROVE p \in Bytes(longer)
    <3>1. p = <<Len(sizes) + 1, p[2]>> /\ p[2] \in 1 .. size
      OBVIOUS
    <3>2. Len(sizes) + 1 \in 1 .. Len(longer)
      BY <1>1
    <3> QED BY <1>1, <3>1, <3>2, BytesFinite
  <2> HIDE DEF new
  <2> QED BY <2>1, <2>2, <2>3
<1>4. Bytes(sizes) \cap new = {}
  <2> SUFFICES ASSUME NEW p \in Bytes(sizes), p \in new PROVE FALSE
    OBVIOUS
  <2>1. p[1] \in 1 .. Len(sizes)
    BY BytesFinite
  <2> QED BY <1>1, <2>1
<1>5. IsFiniteSet(Bytes(sizes)) /\ Total(sizes) \in Nat /\ size \in Nat
  BY BytesFinite DEF Kept, BufferGiven
<1> HIDE DEF new
<1>6. Cardinality(Bytes(longer)) = Cardinality(Bytes(sizes)) + Cardinality(new) - Cardinality(Bytes(sizes) \cap new)
  BY <1>2, <1>3, <1>5, FS_Union
<1>7. Cardinality(Bytes(sizes) \cap new) = 0
  BY <1>4, FS_EmptySet
<1> QED BY <1>2, <1>5, <1>6, <1>7 DEF Total, longer

\* Some of the newest.
Newest(sizes, n) == SubSeq(sizes, n + 1, Len(sizes))

LEMMA NewestIs ==
    ASSUME NEW S, NEW sizes \in Seq(S), NEW n \in 0 .. Len(sizes)
    PROVE  /\ Newest(sizes, n) \in Seq(S)
           /\ Len(Newest(sizes, n)) = Len(sizes) - n /\ Len(sizes) \in Nat
           /\ \A i \in 1 .. Len(sizes) - n : Newest(sizes, n)[i] = sizes[i + n]
           /\ SubSeq(sizes, 1, n) \in Seq(S) /\ Len(SubSeq(sizes, 1, n)) = n
           /\ \A i \in 1 .. n : SubSeq(sizes, 1, n)[i] = sizes[i]
<1>1. Len(sizes) \in Nat /\ n \in Nat /\ n <= Len(sizes) /\ \A i \in 1 .. Len(sizes) : sizes[i] \in S
  BY LenProperties
<1>2. \A i \in n + 1 .. Len(sizes) : sizes[i] \in S
  BY <1>1
<1>3. \A i \in 1 .. n : sizes[i] \in S
  BY <1>1
<1>4. /\ SubSeq(sizes, 1, n) \in Seq(S) /\ Len(SubSeq(sizes, 1, n)) = IF 1 <= n THEN n - 1 + 1 ELSE 0
      /\ \A i \in 1 .. n - 1 + 1 : SubSeq(sizes, 1, n)[i] = sizes[1 + i - 1]
  BY <1>1, <1>3, SubSeqProperties
<1>5. /\ Newest(sizes, n) \in Seq(S)
      /\ Len(Newest(sizes, n)) = IF n + 1 <= Len(sizes) THEN Len(sizes) - (n + 1) + 1 ELSE 0
      /\ \A i \in 1 .. Len(sizes) - (n + 1) + 1 : Newest(sizes, n)[i] = sizes[n + 1 + i - 1]
  BY <1>1, <1>2, SubSeqProperties DEF Newest
<1>6. \A i \in 1 .. Len(sizes) - n : i \in 1 .. Len(sizes) - (n + 1) + 1 /\ n + 1 + i - 1 = i + n
  BY <1>1
<1>7. \A i \in 1 .. n : i \in 1 .. n - 1 + 1 /\ 1 + i - 1 = i
  BY <1>1
<1>8. Len(Newest(sizes, n)) = Len(sizes) - n /\ Len(SubSeq(sizes, 1, n)) = n
  BY <1>1, <1>4, <1>5
<1>9. \A i \in 1 .. Len(sizes) - n : Newest(sizes, n)[i] = sizes[i + n]
  BY <1>5, <1>6
<1>10. \A i \in 1 .. n : SubSeq(sizes, 1, n)[i] = sizes[i]
  BY <1>4, <1>7
<1> QED BY <1>1, <1>4, <1>5, <1>8, <1>9, <1>10

\* What is left of the bytes when the oldest go.
LEMMA TotalOfNewest ==
    ASSUME BufferGiven, NEW sizes \in Seq(Kept), NEW n \in 0 .. Len(sizes)
    PROVE  Total(Newest(sizes, n)) = Total(sizes) - Total(SubSeq(sizes, 1, n))
<1> DEFINE old == SubSeq(sizes, 1, n)
           late == Newest(sizes, n)
           rest == Bytes(sizes) \ Bytes(old)
           f == [p \in rest |-> <<p[1] - n, p[2]>>]
<1>1. /\ late \in Seq(Kept) /\ Len(late) = Len(sizes) - n /\ Len(sizes) \in Nat
      /\ \A i \in 1 .. Len(sizes) - n : late[i] = sizes[i + n]
      /\ old \in Seq(Kept) /\ Len(old) = n
      /\ \A i \in 1 .. n : old[i] = sizes[i]
  BY NewestIs
<1>2. n \in Nat /\ n <= Len(sizes)
  BY <1>1
<1> HIDE DEF old, late
<1>3. Bytes(old) \subseteq Bytes(sizes)
  <2> SUFFICES ASSUME NEW p \in Bytes(old) PROVE p \in Bytes(sizes)
    OBVIOUS
  <2>1. p = <<p[1], p[2]>> /\ p[1] \in 1 .. n /\ p[2] \in 1 .. old[p[1]]
    BY <1>1, BytesFinite
  <2>2. p[1] \in 1 .. Len(sizes) /\ p[2] \in 1 .. sizes[p[1]]
    BY <1>1, <1>2, <2>1
  <2> QED BY <2>1, <2>2, BytesFinite
<1>4. ASSUME NEW p \in rest
      PROVE  p = <<p[1], p[2]>> /\ p[1] \in n + 1 .. Len(sizes) /\ p[2] \in 1 .. sizes[p[1]]
  <2>1. p = <<p[1], p[2]>> /\ p[1] \in 1 .. Len(sizes) /\ p[2] \in 1 .. sizes[p[1]]
    BY BytesFinite
  <2>2. p[1] \notin 1 .. n
    <3> SUFFICES ASSUME p[1] \in 1 .. n PROVE FALSE
      OBVIOUS
    <3>1. p[2] \in 1 .. old[p[1]]
      BY <1>1, <2>1
    <3>2. <<p[1], p[2]>> \in Bytes(old)
      BY <1>1, <3>1, BytesFinite
    <3> QED BY <2>1, <3>2
  <2>3. p[1] \in n + 1 .. Len(sizes)
    BY <1>1, <1>2, <2>1, <2>2
  <2> QED BY <2>1, <2>3
<1>5. ASSUME NEW p \in rest
      PROVE  <<p[1] - n, p[2]>> \in Bytes(late)
  <2>1. p[1] - n \in 1 .. Len(sizes) - n /\ p[1] - n + n = p[1]
    BY <1>1, <1>2, <1>4
  <2>2. p[1] - n \in 1 .. Len(late) /\ late[p[1] - n] = sizes[p[1]]
    BY <1>1, <2>1
  <2> QED BY <1>1, <1>4, <2>2, BytesFinite
<1>6. ASSUME NEW q \in Bytes(late)
      PROVE  /\ q = <<q[1], q[2]>> /\ q[1] \in Int
             /\ <<q[1] + n, q[2]>> \in rest
  <2>1. q = <<q[1], q[2]>> /\ q[1] \in 1 .. Len(late) /\ q[2] \in 1 .. late[q[1]]
    BY <1>1, BytesFinite
  <2>2. q[1] + n \in n + 1 .. Len(sizes) /\ q[1] + n \in 1 .. Len(sizes) /\ q[1] \in 1 .. Len(sizes) - n
    BY <1>1, <1>2, <2>1
  <2>3. late[q[1]] = sizes[q[1] + n]
    BY <1>1, <2>2
  <2>4. <<q[1] + n, q[2]>> \in Bytes(sizes)
    BY <2>1, <2>2, <2>3, BytesFinite
  <2>5. <<q[1] + n, q[2]>> \notin Bytes(old)
    <3>1. q[1] + n \notin 1 .. Len(old)
      BY <1>1, <1>2, <2>2
    <3> QED BY <1>1, <3>1, BytesFinite
  <2> QED BY <2>1, <2>4, <2>5
<1>7. f \in Bijection(rest, Bytes(late))
  <2>1. f \in [rest -> Bytes(late)]
    BY <1>5
  <2>2. ASSUME NEW p \in rest, NEW q \in rest, f[p] = f[q] PROVE p = q
    <3>1. p[1] - n = q[1] - n /\ p[2] = q[2]
      BY <2>2
    <3>2. p[1] \in Int /\ q[1] \in Int
      BY <1>4
    <3>3. p[1] = q[1]
      BY <1>2, <3>1, <3>2
    <3> QED BY <1>4, <3>1, <3>3
  <2>3. ASSUME NEW q \in Bytes(late) PROVE \E p \in rest : f[p] = q
    <3>a. \A a \in Int : a + n - n = a
      BY <1>2
    <3>b. q = <<q[1], q[2]>> /\ q[1] \in Int
      BY <1>6
    <3>1. q[1] + n - n = q[1]
      BY <3>a, <3>b
    <3>2. <<q[1] + n, q[2]>> \in rest
      BY <1>6
    <3>3. \A p \in rest : f[p] = <<p[1] - n, p[2]>>
      OBVIOUS
    <3> DEFINE p == <<q[1] + n, q[2]>>
    <3>4. p[1] = q[1] + n /\ p[2] = q[2] /\ p \in rest
      BY <3>2
    <3> HIDE DEF p, f, rest
    <3>5. f[p] = <<p[1] - n, p[2]>>
      BY <3>3, <3>4
    <3>6. p[1] - n = q[1]
      <4>1. p[1] = q[1] + n
        BY <3>4
      <4>2. q[1] \in Int /\ n \in Int
        BY <1>2, <3>b
      <4>3. \A x, y : x = y + n /\ y \in Int => x - n = y
        BY <4>2
      <4> QED BY <4>1, <4>2, <4>3
    <3>7. f[p] = q
      BY <3>b, <3>4, <3>5, <3>6
    <3> QED BY <3>4, <3>7
  <2> HIDE DEF f, rest
  <2>4. f \in Injection(rest, Bytes(late))
    BY <2>1, <2>2 DEF Injection, IsInjective
  <2>5. f \in Surjection(rest, Bytes(late))
    BY <2>1, <2>3 DEF Surjection
  <2> QED BY <2>4, <2>5 DEF Bijection
<1>8. IsFiniteSet(Bytes(sizes)) /\ IsFiniteSet(Bytes(old))
      /\ Total(sizes) \in Nat /\ Total(old) \in Nat
  BY <1>1, BytesFinite
<1>9. Bytes(sizes) \cap Bytes(old) = Bytes(old)
  BY <1>3
<1>10. IsFiniteSet(rest) /\ Cardinality(rest) = Total(sizes) - Total(old)
  BY <1>8, <1>9, FS_Difference DEF Total
<1> HIDE DEF rest, f
<1>11. ExistsBijection(rest, Bytes(late))
  BY <1>7 DEF ExistsBijection
<1>12. Cardinality(Bytes(late)) = Cardinality(rest)
  BY <1>10, <1>11, FS_Bijection
<1> QED BY <1>10, <1>12 DEF Total, old, late

\* The newest of what was offered, when one more is.
LEMMA NewestOfAppend ==
    ASSUME NEW S, NEW sizes \in Seq(S), NEW size \in S, NEW n \in 0 .. Len(sizes)
    PROVE  Newest(Append(sizes, size), n) = Append(Newest(sizes, n), size)
<1> DEFINE longer == Append(sizes, size)
           right == Append(Newest(sizes, n), size)
<1>1. /\ longer \in Seq(S) /\ Len(longer) = Len(sizes) + 1 /\ Len(sizes) \in Nat
      /\ \A i \in 1 .. Len(sizes) : longer[i] = sizes[i]
      /\ longer[Len(sizes) + 1] = size
  BY AppendProperties, LenProperties
<1>2. /\ Newest(sizes, n) \in Seq(S) /\ Len(Newest(sizes, n)) = Len(sizes) - n
      /\ \A i \in 1 .. Len(sizes) - n : Newest(sizes, n)[i] = sizes[i + n]
  BY NewestIs
<1>3. /\ right \in Seq(S) /\ Len(right) = Len(sizes) - n + 1
      /\ \A i \in 1 .. Len(sizes) - n : right[i] = sizes[i + n]
      /\ right[Len(sizes) - n + 1] = size
  BY <1>2, AppendProperties
<1> HIDE DEF longer, right
<1>4. n \in 0 .. Len(longer)
  BY <1>1
<1>5. /\ Newest(longer, n) \in Seq(S) /\ Len(Newest(longer, n)) = Len(longer) - n
      /\ \A i \in 1 .. Len(longer) - n : Newest(longer, n)[i] = longer[i + n]
  BY <1>1, <1>4, NewestIs
<1>6. Len(Newest(longer, n)) = Len(right)
  BY <1>1, <1>3, <1>5
<1>7. ASSUME NEW i \in 1 .. Len(right) PROVE Newest(longer, n)[i] = right[i]
  <2>1. i \in 1 .. Len(longer) - n /\ i \in Int
    BY <1>1, <1>3
  <2>2. CASE i = Len(sizes) - n + 1
    BY <1>1, <1>3, <1>5, <2>1, <2>2
  <2>3. CASE i \in 1 .. Len(sizes) - n
    <3>1. i + n \in 1 .. Len(sizes)
      BY <1>1, <2>3
    <3> QED BY <1>1, <1>3, <1>5, <2>1, <2>3, <3>1
  <2>4. i = Len(sizes) - n + 1 \/ i \in 1 .. Len(sizes) - n
    BY <1>1, <2>1
  <2> QED BY <2>2, <2>3, <2>4
<1>8. Newest(longer, n) = right
  BY <1>3, <1>5, <1>6, <1>7, SeqEqual
<1> QED BY <1>8 DEF longer, right

\* Forgetting twice is forgetting as many at once.
LEMMA NewestOfNewest ==
    ASSUME NEW S, NEW sizes \in Seq(S), NEW n \in 0 .. Len(sizes), NEW k \in 0 .. Len(sizes) - n
    PROVE  Newest(Newest(sizes, n), k) = Newest(sizes, n + k)
<1>1. Len(sizes) \in Nat /\ n \in Nat /\ k \in Nat /\ n + k \in 0 .. Len(sizes)
  BY LenProperties
<1> DEFINE late == Newest(sizes, n)
<1>2. /\ late \in Seq(S) /\ Len(late) = Len(sizes) - n
      /\ \A i \in 1 .. Len(sizes) - n : late[i] = sizes[i + n]
  BY NewestIs
<1> HIDE DEF late
<1>3. /\ Newest(late, k) \in Seq(S) /\ Len(Newest(late, k)) = Len(sizes) - n - k
      /\ \A i \in 1 .. Len(late) - k : Newest(late, k)[i] = late[i + k]
  <2>1. k \in 0 .. Len(late)
    BY <1>2
  <2>2. /\ Newest(late, k) \in Seq(S) /\ Len(Newest(late, k)) = Len(late) - k
        /\ \A i \in 1 .. Len(late) - k : Newest(late, k)[i] = late[i + k]
    BY <1>2, <2>1, NewestIs
  <2> QED BY <1>2, <2>2
<1>4. /\ Newest(sizes, n + k) \in Seq(S) /\ Len(Newest(sizes, n + k)) = Len(sizes) - (n + k)
      /\ \A i \in 1 .. Len(sizes) - (n + k) : Newest(sizes, n + k)[i] = sizes[i + (n + k)]
  BY <1>1, NewestIs
<1>5. Len(Newest(late, k)) = Len(Newest(sizes, n + k))
  <2>1. Len(sizes) - n - k = Len(sizes) - (n + k)
    BY <1>1
  <2> QED BY <1>3, <1>4, <2>1
<1>6. ASSUME NEW i \in 1 .. Len(Newest(late, k)) PROVE Newest(late, k)[i] = Newest(sizes, n + k)[i]
  <2>1. /\ i \in 1 .. Len(late) - k /\ i \in 1 .. Len(sizes) - (n + k) /\ i \in Int
        /\ i + k \in 1 .. Len(sizes) - n /\ i + k + n = i + (n + k)
    BY <1>1, <1>2, <1>3
  <2> QED BY <1>2, <1>3, <1>4, <2>1
<1>7. Newest(late, k) = Newest(sizes, n + k)
  BY <1>3, <1>4, <1>5, <1>6, SeqEqual
<1> QED BY <1>7 DEF late

\* The oldest are forgotten exactly until the new one has room.
LEMMA TooOldIs ==
    ASSUME BufferGiven, NEW sizes \in Seq(Kept), NEW size \in Kept
    PROVE  LET n == TooOld([sizes |-> sizes, bytes |-> Total(sizes)], size)
           IN /\ n \in 0 .. Len(sizes)
              /\ Len(sizes) - n < MaxStored /\ Total(Newest(sizes, n)) + size <= MaxBytes
              /\ \A m \in 0 .. (n - 1) :
                   ~(Len(sizes) - m < MaxStored /\ Total(Newest(sizes, m)) + size <= MaxBytes)
<1> DEFINE fits(n) == /\ Len(sizes) - n < MaxStored
                      /\ Total(sizes) - Total(SubSeq(sizes, 1, n)) + size <= MaxBytes
           T == {n \in 0 .. Len(sizes) : fits(n)}
           n0 == CHOOSE n \in 0 .. Len(sizes) : fits(n) /\ \A m \in 0 .. Len(sizes) : fits(m) => n <= m
<1>1. Len(sizes) \in Nat /\ Total(sizes) \in Nat /\ size \in Nat /\ size <= MaxBytes
      /\ MaxBytes \in Nat /\ MaxStored \in Nat /\ MaxStored > 0
  BY LenProperties, BytesFinite DEF Kept, BufferGiven
<1>2. \A n \in 0 .. Len(sizes) :
        fits(n) <=> Len(sizes) - n < MaxStored /\ Total(Newest(sizes, n)) + size <= MaxBytes
  BY TotalOfNewest
<1>3. fits(Len(sizes))
  <2>1. SubSeq(sizes, 1, Len(sizes)) = sizes
    BY SubSeqFull
  <2>2. Total(sizes) - Total(SubSeq(sizes, 1, Len(sizes))) + size = size
    <3>1. Total(SubSeq(sizes, 1, Len(sizes))) = Total(sizes)
      BY <2>1
    <3>2. \A t \in Nat : t - t + size = size
      BY <1>1
    <3> QED BY <1>1, <3>1, <3>2
  <2>3. Len(sizes) - Len(sizes) < MaxStored
    BY <1>1
  <2> QED BY <1>1, <2>2, <2>3
<1> HIDE DEF fits
<1>4. T \in SUBSET Nat /\ T # {}
  BY <1>1, <1>3
<1>5. \E n \in T : \A m \in T : n <= m
  <2> HIDE DEF T
  <2> QED BY <1>4, Least
<1>6. \E n \in 0 .. Len(sizes) : fits(n) /\ \A m \in 0 .. Len(sizes) : fits(m) => n <= m
  BY <1>5
<1>7. n0 \in 0 .. Len(sizes) /\ fits(n0) /\ \A m \in 0 .. Len(sizes) : fits(m) => n0 <= m
  BY <1>6
<1>8. TooOld([sizes |-> sizes, bytes |-> Total(sizes)], size) = n0
  BY DEF TooOld, fits
<1> HIDE DEF n0, T
<1>9. \A m \in 0 .. (n0 - 1) : m \in 0 .. Len(sizes) /\ ~(n0 <= m)
  BY <1>1, <1>7
<1> QED BY <1>2, <1>7, <1>8, <1>9

\* The sizes that are ever kept.
Held == Sizes \cap Kept

\* What is kept is the longest run of the newest that fits: a shorter run could
\* be followed by a step after which a longer one fits.
BufferInv ==
    /\ stored \in Seq(Held) /\ offered \in Seq(Held)
    /\ BufferExact

\* The same of given values, so that it can be said of those of the next state.
Exact(o, s, b) ==
    /\ b = Total(s) /\ Fits(s)
    /\ \E n \in 0 .. Len(o) : s = Newest(o, n) /\ \A m \in 0 .. (n - 1) : ~Fits(Newest(o, m))

LEMMA ExactIs ==
    /\ BufferExact <=> Exact(offered, stored, bytes)
    /\ BufferExact' <=> Exact(offered', stored', bytes')
<1>1. BufferExact <=> Exact(offered, stored, bytes)
  BY DEF BufferExact, Exact, Suffix, Newest
<1>2. BufferExact' <=> Exact(offered', stored', bytes')
  BY DEF BufferExact, Exact, Suffix, Newest, Fits, Total, Bytes
<1> QED BY <1>1, <1>2

LEMMA HeldKept == Seq(Held) \subseteq Seq(Kept)
  BY SeqMonotonic DEF Held

\* A transaction that is kept: what it drives out is gone for good, and what
\* was too much before it is too much with it.
LEMMA RecordBufferInv ==
    ASSUME BufferGiven, BufferInv, NEW size \in Sizes, Record(size)
    PROVE  BufferInv'
<1>1. CASE size > MaxBytes
  BY <1>1, ExactIs DEF Record, BufferInv
<1>2. CASE ~(size > MaxBytes)
  <2> DEFINE n == TooOld([sizes |-> stored, bytes |-> Total(stored)], size)
  <2>1. /\ size \in Kept /\ size \in Held /\ size \in Nat
        /\ stored \in Seq(Held) /\ offered \in Seq(Held)
        /\ stored \in Seq(Kept) /\ offered \in Seq(Kept)
        /\ bytes = Total(stored) /\ MaxBytes \in Nat /\ MaxStored \in Nat
        /\ Len(stored) \in Nat /\ Len(offered) \in Nat
    BY <1>2, HeldKept, LenProperties DEF BufferInv, BufferExact, BufferGiven, Held, Kept
  <2>2. /\ n \in 0 .. Len(stored)
        /\ Len(stored) - n < MaxStored /\ Total(Newest(stored, n)) + size <= MaxBytes
        /\ \A m \in 0 .. (n - 1) :
             ~(Len(stored) - m < MaxStored /\ Total(Newest(stored, m)) + size <= MaxBytes)
    BY <2>1, TooOldIs
  <2>3. /\ stored' = Append(Newest(stored, n), size)
        /\ bytes' = Total(stored) - Total(SubSeq(stored, 1, n)) + size
        /\ offered' = Append(offered, size)
    BY <1>2, <2>1 DEF Record, Evict, Newest
  <2> HIDE DEF n
  <2>4. n \in Nat /\ n <= Len(stored)
    BY <2>1, <2>2
  <2>5. /\ Newest(stored, n) \in Seq(Held) /\ Newest(stored, n) \in Seq(Kept)
        /\ Len(Newest(stored, n)) = Len(stored) - n
    BY <2>1, <2>2, HeldKept, NewestIs
  <2>6. /\ stored' \in Seq(Held) /\ offered' \in Seq(Held)
        /\ Len(stored') = Len(stored) - n + 1 /\ Len(offered') = Len(offered) + 1
    BY <2>1, <2>3, <2>5, AppendProperties
  <2>7. Total(stored') = Total(Newest(stored, n)) + size
    BY <2>1, <2>3, <2>5, TotalOfAppend
  <2>8. bytes' = Total(stored')
    BY <2>1, <2>2, <2>3, <2>7, TotalOfNewest
  <2>9. Len(stored') <= MaxStored /\ Total(stored') <= MaxBytes
    BY <2>1, <2>2, <2>4, <2>6, <2>7
  <2>10. PICK k \in 0 .. Len(offered) :
           stored = Newest(offered, k) /\ \A m \in 0 .. (k - 1) : ~Fits(Newest(offered, m))
    BY DEF BufferInv, BufferExact, Suffix, Newest
  <2>11. k \in Nat /\ k <= Len(offered) /\ Len(stored) = Len(offered) - k
    BY <2>1, <2>10, NewestIs
  <2>12. k + n \in 0 .. Len(offered) /\ k + n \in 0 .. Len(offered') /\ n \in 0 .. Len(offered) - k
    BY <2>1, <2>4, <2>6, <2>11
  <2>13. \A m \in 0 .. Len(offered) : Newest(offered', m) = Append(Newest(offered, m), size)
    BY <2>1, <2>3, NewestOfAppend
  <2>14. stored' = Newest(offered', k + n)
    <3>1. Newest(stored, n) = Newest(offered, k + n)
      BY <2>1, <2>10, <2>12, NewestOfNewest
    <3> QED BY <2>3, <2>12, <2>13, <3>1
  <2>15. ASSUME NEW m \in 0 .. (k + n - 1)
         PROVE  ~(Len(Newest(offered', m)) <= MaxStored /\ Total(Newest(offered', m)) <= MaxBytes)
    <3>1. m \in Nat /\ m \in 0 .. Len(offered) /\ m < k + n
      BY <2>1, <2>4, <2>11, <2>12
    <3>2. /\ Newest(offered, m) \in Seq(Held) /\ Newest(offered, m) \in Seq(Kept)
          /\ Len(Newest(offered, m)) = Len(offered) - m
      BY <2>1, <3>1, HeldKept, NewestIs
    <3>3. /\ Len(Newest(offered', m)) = Len(offered) - m + 1
          /\ Total(Newest(offered', m)) = Total(Newest(offered, m)) + size
          /\ Total(Newest(offered, m)) \in Nat
      <4>1. Newest(offered', m) = Append(Newest(offered, m), size)
        BY <2>13, <3>1
      <4> QED BY <2>1, <3>2, <4>1, AppendProperties, TotalOfAppend, BytesFinite
    <3>4. CASE m < k
      <4>1. ~Fits(Newest(offered, m))
        BY <2>10, <2>11, <3>1, <3>4
      <4> QED BY <2>1, <3>1, <3>2, <3>3, <4>1 DEF Fits
    <3>5. CASE k <= m
      <4> DEFINE j == m - k
      <4>1. j \in 0 .. (n - 1) /\ j \in 0 .. Len(offered) - k /\ k + j = m
        BY <2>1, <2>4, <2>11, <3>1, <3>5
      <4>2. Newest(stored, j) = Newest(offered, m)
        <5> HIDE DEF j
        <5> QED BY <2>1, <2>10, <4>1, NewestOfNewest
      <4>3. ~(Len(stored) - j < MaxStored /\ Total(Newest(offered, m)) + size <= MaxBytes)
        <5> HIDE DEF j
        <5> QED BY <2>2, <4>1, <4>2
      <4>4. Len(stored) - j = Len(offered) - m
        BY <2>1, <2>11, <3>1
      <4> HIDE DEF j
      <4>5. Len(offered) - m < MaxStored <=> Len(offered) - m + 1 <= MaxStored
        BY <2>1, <3>1
      <4> QED BY <3>3, <4>3, <4>4, <4>5
    <3> QED BY <2>11, <3>1, <3>4, <3>5
  <2>16. BufferExact'
    <3>1. \A m \in 0 .. (k + n - 1) : ~Fits(Newest(offered', m))
      BY <2>15 DEF Fits
    <3>2. Exact(offered', stored', bytes')
      BY <2>8, <2>9, <2>12, <2>14, <3>1 DEF Exact, Fits
    <3> QED BY <3>2, ExactIs
  <2> QED BY <2>6, <2>16 DEF BufferInv
<1> QED BY <1>1, <1>2

LEMMA InitBufferInv == ASSUME BufferGiven PROVE cpInit => BufferInv
<1> SUFFICES ASSUME cpInit PROVE BufferInv
  OBVIOUS
<1>1. stored = <<>> /\ offered = <<>> /\ bytes = 0
  BY DEF cpInit
<1>2. <<>> \in Seq(Held) /\ Len(<<>>) = 0
  BY EmptySeq
<1>3. Total(<<>>) = 0
  <2>1. Bytes(<<>>) = {}
    <3>1. DOMAIN <<>> = {}
      OBVIOUS
    <3> QED BY <3>1 DEF Bytes
  <2> QED BY <2>1, FS_EmptySet DEF Total
<1>4. Fits(<<>>)
  BY <1>2, <1>3 DEF Fits, BufferGiven
<1>5. Suffix(0) = <<>>
  BY <1>1, <1>2, SubSeqFull DEF Suffix
<1>6. 0 \in 0 .. Len(offered) /\ 0 .. (0 - 1) = {}
  BY <1>1, <1>2
<1> QED BY <1>1, <1>2, <1>3, <1>4, <1>5, <1>6 DEF BufferInv, BufferExact

LEMMA NextBufferInv == ASSUME BufferGiven PROVE BufferInv /\ [cpNext]_cpVars => BufferInv'
<1> SUFFICES ASSUME BufferInv, [cpNext]_cpVars PROVE BufferInv'
  OBVIOUS
<1>1. CASE \E k \in Client, size \in Sizes : Answer(k, size)
  BY <1>1, RecordBufferInv DEF Answer
<1>2. CASE UNCHANGED <<stored, bytes, offered>>
  BY <1>2, ExactIs DEF BufferInv
<1>3. UNCHANGED <<stored, bytes, offered>> \/ \E k \in Client, size \in Sizes : Answer(k, size)
  BY DEF cpNext, cpVars, Buffer, SavePolicy, Start, Stop, StopAgain, Control, Opened, StopCancels,
         StopDone, Accepts, Handles, Serve, Refuse, Close, Discard, Forward
<1> QED BY <1>1, <1>2, <1>3

LEMMA BufferInvariance == ASSUME BufferGiven PROVE captureSpec => []BufferInv
  BY InitBufferInv, NextBufferInv, PTL DEF captureSpec

CaptureTypes ==
    /\ saved \in Scopes \cup {{}} /\ scope \in Scopes \cup {{}} /\ shown \in Scopes \cup {{}}
    /\ server \in {"closed", "opening", "listening", "closing", "cancelling"}
    /\ running \in BOOLEAN

LEMMA TypesInvariance == captureSpec => []CaptureTypes
<1>1. cpInit => CaptureTypes
  BY DEF cpInit, CaptureTypes
<1>2. CaptureTypes /\ [cpNext]_cpVars => CaptureTypes'
  <2> SUFFICES ASSUME CaptureTypes, [cpNext]_cpVars PROVE CaptureTypes'
    OBVIOUS
  <2>1. CASE \E origins \in Scopes : SavePolicy(origins)
    BY <2>1 DEF SavePolicy, CaptureTypes
  <2>2. CASE Start
    BY <2>2 DEF Start, CaptureTypes
  <2>3. CASE Stop \/ StopAgain \/ Control
    BY <2>3 DEF Stop, StopAgain, Control, Opened, StopCancels, StopDone, CaptureTypes
  <2>4. CASE UNCHANGED <<saved, scope, shown, server, running>>
    BY <2>4 DEF CaptureTypes
  <2> QED BY <2>1, <2>2, <2>3, <2>4
        DEF cpNext, cpVars, Accepts, Handles, Serve, Refuse, Close, Discard, Answer, Forward, Quiet
<1> QED BY <1>1, <1>2, PTL DEF captureSpec

\* The buffer holds the longest run of the newest transactions that its limits
\* allow and counts exactly their bytes, however the exchanges overlap and
\* whatever is stopped and started (record_transaction of AsyncMITMProxy).
THEOREM BufferIsExact ==
    ASSUME CaptureGiven, BufferGiven PROVE captureSpec => [](cpTypeOK /\ BufferExact)
<1>1. BufferInv => BufferExact /\ stored \in Seq(Sizes) /\ offered \in Seq(Sizes) /\ bytes \in Nat
  <2> SUFFICES ASSUME BufferInv
               PROVE  BufferExact /\ stored \in Seq(Sizes) /\ offered \in Seq(Sizes) /\ bytes \in Nat
    OBVIOUS
  <2>1. stored \in Seq(Kept) /\ bytes = Total(stored) /\ BufferExact
    BY HeldKept DEF BufferInv, BufferExact
  <2>2. Held \subseteq Sizes
    BY DEF Held
  <2> QED BY <2>1, <2>2, BytesFinite, SeqMonotonic DEF BufferInv
<1>2. BufferInv /\ CaptureTypes /\ CaptureInv => cpTypeOK /\ BufferExact
  BY <1>1 DEF cpTypeOK, CaptureTypes, CaptureInv, States
<1> QED BY <1>2, BufferInvariance, TypesInvariance, CaptureInvariance, PTL

-----------------------------------------------------------------------------
(***************************************************************************)
(* The live logs: a stream has its logcat process from the start to its    *)
(* cleanup, through which every end leads, and room for a record until it  *)
(* has yielded the last.                                                   *)
(***************************************************************************)
\* A live log: at least one record and one record a second.
LogsGiven == MaxLines \in Nat \ {0} /\ MaxRate \in Nat \ {0}
logSpec == lsInit /\ [][lsNext]_lsVars

\* Until it has yielded its last record a stream has room for another.
LogInv ==
    /\ lsTypeOK
    /\ NoStrayLogcat
    /\ \A s \in Stream :
         state[s] \in {"none", "pidof", "read", "sleep", "yield"} => lines[s] < MaxLines

\* A step of one stream, to a state in which its processes and counts belong.
LogStep(s, to, process, count, rate) ==
    /\ state' = [state EXCEPT ![s] = to]
    /\ logcat' = [logcat EXCEPT ![s] = process]
    /\ lines' = [lines EXCEPT ![s] = count]
    /\ window' = [window EXCEPT ![s] = rate]
    /\ granted' = granted /\ sent' \subseteq Stream
    /\ pidof' \in [Stream -> {"none", "alive", "dead"}]

LogFits(to, process, count, rate) ==
    /\ to \in {"none", "yield", "ending", "closed"} \cup Running
    /\ process \in {"none", "alive", "dead"} /\ count \in 0 .. MaxLines /\ rate \in 0 .. MaxRate
    /\ process = "alive" <=> to \in Running \cup {"yield", "ending"}
    /\ to \in {"none", "pidof", "read", "sleep", "yield"} => count < MaxLines

LEMMA LogStepKeeps ==
    ASSUME LogInv, NEW s \in Stream, NEW to, NEW process, NEW count, NEW rate,
           LogStep(s, to, process, count, rate), LogFits(to, process, count, rate)
    PROVE  LogInv'
<1>1. \A r \in Stream : /\ state'[r] = IF r = s THEN to ELSE state[r]
                        /\ logcat'[r] = IF r = s THEN process ELSE logcat[r]
                        /\ lines'[r] = IF r = s THEN count ELSE lines[r]
  BY DEF LogStep, LogInv, lsTypeOK
<1>2. lsTypeOK'
  BY DEF LogStep, LogFits, LogInv, lsTypeOK
<1>3. NoStrayLogcat'
  BY <1>1 DEF LogFits, LogInv, NoStrayLogcat
<1>4. \A r \in Stream :
        state'[r] \in {"none", "pidof", "read", "sleep", "yield"} => lines'[r] < MaxLines
  BY <1>1 DEF LogFits, LogInv
<1> QED BY <1>2, <1>3, <1>4 DEF LogInv

\* What is known of a stream before its step.
LEMMA LogKnown ==
    ASSUME LogsGiven, LogInv, NEW s \in Stream
    PROVE  LogFits(state[s], logcat[s], lines[s], window[s])
  BY DEF LogInv, lsTypeOK, NoStrayLogcat, LogFits

\* A step that neither counts nor touches logcat.
LEMMA LogMoves ==
    ASSUME LogsGiven, LogInv, NEW s \in Stream, NEW to, Moves(s, to), Uncounted, logcat' = logcat,
           state[s] \in Running \cup {"yield"}, granted' = granted, sent' \subseteq Stream,
           pidof' \in [Stream -> {"none", "alive", "dead"}],
           to \in {"read", "sleep", "yield", "send", "ending"},
           to \in {"read", "sleep", "yield"} => lines[s] < MaxLines
    PROVE  LogInv'
<1>1. LogFits(state[s], logcat[s], lines[s], window[s])
  BY LogKnown
<1>2. LogFits(to, logcat[s], lines[s], window[s])
  BY <1>1 DEF LogFits, Running
<1>3. LogStep(s, to, logcat[s], lines[s], window[s])
  BY DEF LogStep, Moves, Uncounted, LogInv, lsTypeOK
<1> QED BY <1>2, <1>3, LogStepKeeps

LEMMA OpenLog ==
    ASSUME LogsGiven, LogInv, NEW s \in Stream, Open(s)
    PROVE  LogInv'
<1>1. LogFits(state[s], logcat[s], lines[s], window[s]) /\ state[s] = "none" /\ logcat[s] # "alive"
  BY LogKnown DEF Open, LogInv, NoStrayLogcat, Running
<1>2. CASE granted
  <2>1. LogStep(s, "pidof", "alive", lines[s], window[s])
    BY <1>2 DEF Open, LogStep, Moves, Still, Uncounted, LogInv, lsTypeOK
  <2>2. LogFits("pidof", "alive", lines[s], window[s])
    BY <1>1 DEF LogFits, Running
  <2> QED BY <2>1, <2>2, LogStepKeeps
<1>3. CASE ~granted
  <2>1. LogStep(s, "closed", logcat[s], lines[s], window[s])
    BY <1>3 DEF Open, LogStep, Moves, Still, Uncounted, Processes, LogInv, lsTypeOK
  <2>2. LogFits("closed", logcat[s], lines[s], window[s])
    BY <1>1 DEF LogFits, Running
  <2> QED BY <2>1, <2>2, LogStepKeeps
<1> QED BY <1>2, <1>3

LEMMA ReadsLog ==
    ASSUME LogsGiven, LogInv, NEW s \in Stream,
           Resolved(s) \/ Skipped(s) \/ Awake(s) \/ Sent(s) \/ Expire(s)
    PROVE  LogInv'
<1>1. LogFits(state[s], logcat[s], lines[s], window[s])
  BY LogKnown
<1>2. Uncounted /\ logcat' = logcat /\ granted' = granted /\ sent' \subseteq Stream
  BY DEF Resolved, Skipped, Awake, Sent, Expire, Still, Processes
<1>3. pidof' \in [Stream -> {"none", "alive", "dead"}]
  BY DEF Resolved, Skipped, Awake, Sent, Expire, Processes, LogInv, lsTypeOK
<1>4. state[s] \in Running
  BY DEF Resolved, Skipped, Awake, Sent, Expire, Running
<1>5. CASE UNCHANGED state
  BY <1>2, <1>3, <1>5 DEF LogInv, lsTypeOK, NoStrayLogcat, Uncounted
<1>6. CASE \E to \in {"read", "yield", "ending"} :
             Moves(s, to) /\ (to # "ending" => lines[s] < MaxLines)
  <2>1. PICK to \in {"read", "yield", "ending"} :
          Moves(s, to) /\ (to # "ending" => lines[s] < MaxLines)
    BY <1>6
  <2> QED BY <1>2, <1>3, <1>4, <2>1, LogMoves
<1>7. UNCHANGED state \/ \E to \in {"read", "yield", "ending"} :
             Moves(s, to) /\ (to # "ending" => lines[s] < MaxLines)
  BY <1>1 DEF Resolved, Skipped, Awake, Sent, Expire, LogFits
<1> QED BY <1>5, <1>6, <1>7

LEMMA TakenLog ==
    ASSUME LogsGiven, LogInv, NEW s \in Stream, Taken(s)
    PROVE  LogInv'
<1>1. LogFits(state[s], logcat[s], lines[s], window[s]) /\ state[s] = "read"
  BY LogKnown DEF Taken
<1>2. PICK count \in {0, window[s]} :
        IF ~granted THEN Moves(s, "ending") /\ Uncounted
        ELSE /\ Moves(s, IF count >= MaxRate THEN "sleep" ELSE "yield")
             /\ window' = [window EXCEPT ![s] = IF count >= MaxRate THEN 1 ELSE count + 1]
             /\ UNCHANGED lines
  BY DEF Taken
<1>3. CASE ~granted
  <2>1. Moves(s, "ending") /\ Uncounted /\ logcat' = logcat /\ granted' = granted /\ sent' \subseteq Stream
        /\ pidof' = pidof
    BY <1>2, <1>3 DEF Taken, Still, Processes
  <2> QED BY <1>1, <2>1, LogMoves DEF LogInv, lsTypeOK, Running
<1>4. CASE granted
  <2> DEFINE to == IF count >= MaxRate THEN "sleep" ELSE "yield"
             rate == IF count >= MaxRate THEN 1 ELSE count + 1
  <2>1. LogStep(s, to, logcat[s], lines[s], rate)
    BY <1>2, <1>4 DEF Taken, LogStep, Moves, Still, Processes, LogInv, lsTypeOK
  <2>2. count \in Nat /\ rate \in 0 .. MaxRate /\ to \in {"sleep", "yield"}
    BY <1>1 DEF LogFits, LogsGiven
  <2> HIDE DEF to, rate
  <2>3. LogFits(to, logcat[s], lines[s], rate)
    BY <1>1, <2>2 DEF LogFits, Running
  <2> QED BY <2>1, <2>3, LogStepKeeps
<1> QED BY <1>3, <1>4

LEMMA HandleLog ==
    ASSUME LogsGiven, LogInv, NEW s \in Stream, Handle(s)
    PROVE  LogInv'
<1>1. LogFits(state[s], logcat[s], lines[s], window[s]) /\ state[s] = "yield"
  BY LogKnown DEF Handle
<1> DEFINE to == IF granted THEN "send" ELSE "ending"
<1>2. LogStep(s, to, logcat[s], lines[s] + 1, window[s])
  BY DEF Handle, LogStep, Moves, Processes, LogInv, lsTypeOK
<1>3. to \in {"send", "ending"} /\ lines[s] + 1 \in 0 .. MaxLines
  BY <1>1 DEF LogFits, LogsGiven
<1> HIDE DEF to
<1>4. LogFits(to, logcat[s], lines[s] + 1, window[s])
  BY <1>1, <1>3 DEF LogFits, Running
<1> QED BY <1>2, <1>4, LogStepKeeps

LEMMA CleanupLog ==
    ASSUME LogsGiven, LogInv, NEW s \in Stream, Cleanup(s)
    PROVE  LogInv'
<1>1. LogFits(state[s], logcat[s], lines[s], window[s])
  BY LogKnown
<1>2. LogStep(s, "closed", "dead", lines[s], window[s])
  BY DEF Cleanup, LogStep, Moves, Still, Uncounted, LogInv, lsTypeOK
<1>3. LogFits("closed", "dead", lines[s], window[s])
  BY <1>1 DEF LogFits, Running
<1> QED BY <1>2, <1>3, LogStepKeeps

LEMMA LogInvariant ==
    ASSUME LogsGiven
    PROVE  logSpec => []LogInv
<1>1. lsInit => LogInv
  BY DEF lsInit, LogInv, lsTypeOK, NoStrayLogcat, LogsGiven, Running
<1>2. ASSUME LogInv, [lsNext]_lsVars
      PROVE  LogInv'
  <2>1. CASE UNCHANGED lsVars
    BY <1>2, <2>1 DEF lsVars, LogInv, lsTypeOK, NoStrayLogcat
  <2>2. CASE Revoke
    BY <1>2, <2>2 DEF Revoke, LogInv, lsTypeOK, NoStrayLogcat
  <2>3. ASSUME NEW s \in Stream, PidofEnds(s)
        PROVE  LogInv'
    BY <1>2, <2>3 DEF PidofEnds, Still, Uncounted, LogInv, lsTypeOK, NoStrayLogcat
  <2> QED BY <1>2, <2>1, <2>2, <2>3, OpenLog, ReadsLog, TakenLog, HandleLog, CleanupLog
          DEF lsNext, Goes
<1> QED BY <1>1, <1>2, PTL DEF logSpec

\* However a stream of logs ends, no logcat process survives its socket, and
\* none yields more than its limits (LogcatStreamer.stream).
THEOREM NoLogcatLeft ==
    ASSUME LogsGiven
    PROVE  logSpec => [](lsTypeOK /\ NoStrayLogcat)
<1>1. LogInv => lsTypeOK /\ NoStrayLogcat
  BY DEF LogInv
<1> QED BY <1>1, LogInvariant, PTL

\* No record is sent on a grant that has ended, also when the stream slept over
\* it: the handler of ws_logcat_stream looks again.
THEOREM SentOnGrantOnly == logSpec => [][SentOnGrant]_lsVars
<1>1. [lsNext]_lsVars => [SentOnGrant]_lsVars
  BY DEF lsNext, lsVars, SentOnGrant, Goes, Open, Resolved, Skipped, Taken, Awake, Handle, Sent,
         Expire, Cleanup, PidofEnds, Revoke, Still
<1> QED BY <1>1, PTL DEF logSpec

=============================================================================
