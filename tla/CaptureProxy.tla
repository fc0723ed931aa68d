----------------------------- MODULE CaptureProxy -----------------------------
(***************************************************************************)
(* The HTTP capture proxy: AsyncMITMProxy and the routes that start and    *)
(* stop it.  Clients are served concurrently; what they exchange is kept   *)
(* in a buffer that forgets the oldest.                                    *)
(***************************************************************************)
EXTENDS Naturals, Sequences, FiniteSets

CONSTANTS
    Client,         \* connections, each made once
    Scopes,         \* the origins of the policies an operator may save
    Sizes,          \* what a transaction takes in the buffer
    MaxClients,     \* 16
    MaxStored,      \* MAX_TRANSACTIONS
    MaxBytes        \* MAX_CAPTURE_BYTES, and here MAX_TRANSACTION_BYTES

Origin == UNION Scopes

VARIABLES
    saved,      \* the origins of the policy
    scope,      \* allowed_origins of the proxy, {} before there is one
    shown,      \* the origins the last start answered with
    server,     \* "closed", "opening", "listening", "closing" or "cancelling"
    running,    \* _is_running
    client,     \* what each connection does
    clients,    \* _clients
    stored,     \* _transaction_sizes
    bytes,      \* _capture_bytes
    offered     \* every size that was accepted, in order

cpVars == <<saved, scope, shown, server, running, client, clients, stored, bytes, offered>>

cpInit ==
    /\ saved = {} /\ scope = {} /\ shown = {}
    /\ server = "closed" /\ running = FALSE
    /\ client = [k \in Client |-> "none"]
    /\ clients = {}
    /\ stored = <<>> /\ bytes = 0 /\ offered = <<>>

-----------------------------------------------------------------------------
\* The bytes of the transactions, each byte with the transaction it belongs to.
Bytes(sizes) == UNION {{i} \X (1 .. sizes[i]) : i \in DOMAIN sizes}
Total(sizes) == Cardinality(Bytes(sizes))

\* How many of the oldest must go for the new one to have room.
TooOld(buffer, size) ==
    LET fits(n) ==
          /\ Len(buffer.sizes) - n < MaxStored
          /\ buffer.bytes - Total(SubSeq(buffer.sizes, 1, n)) + size <= MaxBytes
    IN CHOOSE n \in 0 .. Len(buffer.sizes) :
         fits(n) /\ \A m \in 0 .. Len(buffer.sizes) : fits(m) => n <= m

\* (mutant) the bytes of what is forgotten stay counted
EvictUncounted(buffer, size) ==
    [buffer EXCEPT !.sizes = SubSeq(@, TooOld(buffer, size) + 1, Len(@))]
Evict(buffer, size) ==
    LET n == TooOld(buffer, size)
    IN [sizes |-> SubSeq(buffer.sizes, n + 1, Len(buffer.sizes)),
        bytes |-> buffer.bytes - Total(SubSeq(buffer.sizes, 1, n))]

\* record_transaction: one that exceeds the buffer on its own is only counted.
Record(size) ==
    IF size > MaxBytes THEN UNCHANGED <<stored, bytes, offered>>
    ELSE LET buffer == Evict([sizes |-> stored, bytes |-> bytes], size)
         IN /\ stored' = Append(buffer.sizes, size)
            /\ bytes' = buffer.bytes + size
            /\ offered' = Append(offered, size)

Buffer == UNCHANGED <<stored, bytes, offered>>
Clients == UNCHANGED <<client, clients>>

-----------------------------------------------------------------------------
SavePolicy(origins) ==
    /\ saved # origins /\ saved' = origins
    /\ UNCHANGED <<scope, shown, server, running>> /\ Clients /\ Buffer

\* POST /start: the first one makes the proxy with the origins of the policy; a
\* later one keeps it, and while it runs only with the same origins.  One that
\* finds the proxy running is told so, also when a stop is under way; of two
\* that open the port, the second fails.
Start ==
    /\ saved # {}
    /\ ~(running /\ scope # saved)
    /\ scope' = IF scope = {} THEN saved ELSE scope
    /\ shown' = saved
    /\ \/ running /\ UNCHANGED server
       \/ ~running /\ server = "closed" /\ server' = "opening"
    /\ UNCHANGED <<saved, running>> /\ Clients /\ Buffer

\* start_server returns, or the port is taken or the token is missing.
Opened ==
    /\ server = "opening"
    /\ \/ server' = "listening" /\ running' = TRUE
       \/ server' = "closed" /\ UNCHANGED running
    /\ UNCHANGED <<saved, scope, shown>> /\ Clients /\ Buffer

\* POST /stop: no new connection is accepted; wait_closed may or may not wait
\* for those there are, then the ones left are cancelled and awaited.  A second
\* stop cancels again, and one that is cancelled while it closes does not leave
\* _clients.
Live(k) == client[k] \notin {"none", "gone"}
Cancelled ==
    client' = [k \in Client |->
                 CASE client[k] = "closing" -> "gone"
                   [] client[k] \in {"reading", "upstream", "responding"} -> "closing"
                   [] OTHER -> client[k]]

Stop ==
    /\ server = "listening" /\ server' = "closing"
    /\ UNCHANGED <<saved, scope, shown, running>> /\ Clients /\ Buffer
StopCancels ==
    /\ server = "closing" /\ server' = "cancelling"
    /\ Cancelled
    /\ UNCHANGED <<saved, scope, shown, running, clients>> /\ Buffer
StopAgain ==
    /\ server = "cancelling" /\ \E k \in Client : Live(k)
    /\ Cancelled
    /\ UNCHANGED <<saved, scope, shown, server, running, clients>> /\ Buffer
StopDone ==
    /\ server = "cancelling" /\ \A k \in Client : ~Live(k)
    /\ server' = "closed" /\ running' = FALSE
    /\ UNCHANGED <<saved, scope, shown>> /\ Clients /\ Buffer

-----------------------------------------------------------------------------
Quiet == UNCHANGED <<saved, scope, shown, server, running>>
Turns(k, state) == client' = [client EXCEPT ![k] = state]

\* A connection beyond the limit is closed at once.
Accepts(k) ==
    /\ server = "listening" /\ client[k] = "none"
    /\ Cardinality(clients) < MaxClients
    /\ Turns(k, "reading") /\ clients' = clients \cup {k}
    /\ Quiet /\ Buffer

\* A request that authenticates and is in scope goes upstream; one that does not
\* is refused, and what is malformed or late is dropped.
Forward(k, origin) ==
    /\ client[k] = "reading" /\ origin \in scope
    /\ Turns(k, "upstream")
    /\ Quiet /\ Buffer /\ UNCHANGED clients
Refuse(k) ==
    /\ client[k] \in {"reading", "upstream"}
    /\ Turns(k, "responding")
    /\ Quiet /\ Buffer /\ UNCHANGED clients
Answer(k, size) ==
    /\ client[k] = "upstream"
    /\ Record(size) /\ Turns(k, "responding")
    /\ Quiet /\ UNCHANGED clients
Close(k) ==
    /\ client[k] \in {"reading", "upstream", "responding"}
    /\ Turns(k, "closing")
    /\ Quiet /\ Buffer /\ UNCHANGED clients
Discard(k) ==
    /\ client[k] = "closing"
    /\ Turns(k, "gone") /\ clients' = clients \ {k}
    /\ Quiet /\ Buffer

Serve(k) == Refuse(k) \/ Close(k) \/ \E size \in Sizes : Answer(k, size)
Handles(k) == Serve(k) \/ Discard(k)
Control == Opened \/ StopCancels \/ StopDone
cpNext ==
    \/ \E origins \in Scopes : SavePolicy(origins)
    \/ Start \/ Stop \/ StopAgain \/ Control
    \/ \E k \in Client : Accepts(k) \/ Handles(k) \/ \E origin \in Origin : Forward(k, origin)

\* The 15 seconds of a connection end the serving of it, but not the closing of
\* its socket, which has no limit and which a client that reads nothing can hold
\* up.  A stop that waits for the connections goes on when they are gone: it is
\* before it cancels them.
Awaited == Opened \/ StopDone \/ (StopCancels /\ \A k \in Client : ~Live(k))
cpFair == WF_cpVars(Awaited) /\ \A k \in Client : WF_cpVars(Serve(k))

-----------------------------------------------------------------------------
(***************************************************************************)
(* Properties.                                                             *)
(***************************************************************************)
cpTypeOK ==
    /\ saved \in Scopes \cup {{}} /\ scope \in Scopes \cup {{}} /\ shown \in Scopes \cup {{}}
    /\ server \in {"closed", "opening", "listening", "closing", "cancelling"}
    /\ running \in BOOLEAN
    /\ client \in [Client -> {"none", "reading", "upstream", "responding", "closing", "gone"}]
    /\ clients \subseteq Client
    /\ stored \in Seq(Sizes) /\ offered \in Seq(Sizes) /\ bytes \in Nat

\* The buffer holds the longest run of the newest transactions that its limits
\* allow, and its count of bytes is theirs, in whatever order they are answered.
Suffix(n) == SubSeq(offered, n + 1, Len(offered))
Fits(sizes) == Len(sizes) <= MaxStored /\ Total(sizes) <= MaxBytes
BufferExact ==
    /\ bytes = Total(stored) /\ Fits(stored)
    /\ \E n \in 0 .. Len(offered) :
         stored = Suffix(n) /\ \A m \in 0 .. (n - 1) : ~Fits(Suffix(m))

\* Whoever is served has a place, and there are no more than the limit, and the
\* flag tells what holds the port, also while a stop and starts overlap.
ClientsExact ==
    /\ {k \in Client : Live(k)} \subseteq clients
    /\ Cardinality(clients) <= MaxClients
    /\ running <=> (server \in {"listening", "closing", "cancelling"})

\* While the proxy serves, its scope does not change.
ScopeStays == server \notin {"closed", "opening"} => scope' = scope

\* Every stop comes to its end, whatever else the clients do, if no socket takes
\* for ever to close.
SocketsClose == \A k \in Client : []<>(client[k] # "closing")
StopEnds == SocketsClose => (server \in {"closing", "cancelling"} ~> server = "closed")

\* The types, the buffer of the proxy, its clients and its stops.
CaptureKept == [](cpTypeOK /\ BufferExact /\ ClientsExact) /\ [][ScopeStays]_cpVars /\ StopEnds
===============================================================================
