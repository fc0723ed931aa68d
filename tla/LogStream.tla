------------------------------ MODULE LogStream -------------------------------
(***************************************************************************)
(* Live logs over a socket: ws_logcat_stream and LogcatStreamer.stream.    *)
(* The stream starts logcat, asks for the processes of the package, and    *)
(* yields records to the handler that sends them; session and scope are    *)
(* looked at in between, and may end while either of them awaits.          *)
(***************************************************************************)
EXTENDS Naturals, FiniteSets

CONSTANTS
    Stream,     \* sockets
    MaxLines,   \* MAX_STREAM_LINES
    MaxRate     \* MAX_LINES_PER_SECOND

VARIABLES
    granted,    \* session, device, package and action are in order
    state,      \* what a stream does
    logcat,     \* its logcat process: "none", "alive" or "dead"
    pidof,      \* its pidof process
    lines,      \* records yielded
    window,     \* records yielded in this second
    sent        \* the stream whose handler sends in this step

lsVars == <<granted, state, logcat, pidof, lines, window, sent>>

lsInit ==
    /\ granted = TRUE
    /\ state = [s \in Stream |-> "none"]
    /\ logcat = [s \in Stream |-> "none"]
    /\ pidof = [s \in Stream |-> "none"]
    /\ lines = [s \in Stream |-> 0]
    /\ window = [s \in Stream |-> 0]
    /\ sent = {}

-----------------------------------------------------------------------------
Moves(s, to) == state' = [state EXCEPT ![s] = to]
Still == sent' = {} /\ UNCHANGED granted
Uncounted == UNCHANGED <<lines, window>>
Processes == UNCHANGED <<logcat, pidof>>

\* The route and the stream look at the scope, then logcat is started.
Open(s) ==
    /\ state[s] = "none"
    /\ IF granted THEN Moves(s, "pidof") /\ logcat' = [logcat EXCEPT ![s] = "alive"]
                       /\ pidof' = [pidof EXCEPT ![s] = "alive"]
       ELSE Moves(s, "closed") /\ Processes
    /\ Still /\ Uncounted

\* pidof answers within three seconds, or is left alone.
Resolved(s) ==
    /\ state[s] = "pidof"
    /\ \/ /\ pidof' = [pidof EXCEPT ![s] = "dead"]
          /\ Moves(s, IF granted THEN "read" ELSE "ending")
       \/ Moves(s, "ending") /\ UNCHANGED pidof
    /\ Still /\ Uncounted /\ UNCHANGED logcat

\* A line that is no record is passed over without a look at the scope; a
\* second without a line, or a record of another process, is not.
Skipped(s) ==
    /\ state[s] = "read"
    /\ \/ UNCHANGED state
       \/ Moves(s, IF granted THEN "read" ELSE "ending")
    /\ Still /\ Processes /\ Uncounted
\* A record: beyond the rate of a second the stream sleeps before it yields it.
Taken(s) ==
    /\ state[s] = "read"
    /\ \E count \in {0, window[s]} :
         IF ~granted THEN Moves(s, "ending") /\ Uncounted
         ELSE /\ Moves(s, IF count >= MaxRate THEN "sleep" ELSE "yield")
              /\ window' = [window EXCEPT ![s] = IF count >= MaxRate THEN 1 ELSE count + 1]
              /\ UNCHANGED lines
    /\ Still /\ Processes
Awake(s) ==
    /\ state[s] = "sleep" /\ Moves(s, "yield")
    /\ Still /\ Uncounted /\ Processes

\* (mutant) the handler relies on the look of the stream
HandleUnasked(s) ==
    /\ state[s] = "yield"
    /\ lines' = [lines EXCEPT ![s] = @ + 1]
    /\ Moves(s, "send") /\ sent' = {s}
    /\ UNCHANGED <<granted, window>> /\ Processes
\* The handler looks again, and sends or closes.
Handle(s) ==
    /\ state[s] = "yield"
    /\ lines' = [lines EXCEPT ![s] = @ + 1]
    /\ IF granted THEN Moves(s, "send") /\ sent' = {s}
       ELSE Moves(s, "ending") /\ sent' = {}
    /\ UNCHANGED <<granted, window>> /\ Processes
Sent(s) ==
    /\ state[s] = "send"
    /\ Moves(s, IF lines[s] < MaxLines THEN "read" ELSE "ending")
    /\ Still /\ Uncounted /\ Processes

\* The device goes away, the client leaves, 300 seconds have passed.
Running == {"pidof", "read", "sleep", "send"}
Expire(s) ==
    /\ state[s] \in Running
    /\ Moves(s, "ending")
    /\ Still /\ Uncounted /\ Processes

\* However it ends, logcat is killed and reaped.
Cleanup(s) ==
    /\ state[s] = "ending"
    /\ Moves(s, "closed")
    /\ logcat' = [logcat EXCEPT ![s] = "dead"]
    /\ Still /\ Uncounted /\ UNCHANGED pidof

PidofEnds(s) ==
    /\ pidof[s] = "alive" /\ state[s] \in {"ending", "closed"}
    /\ pidof' = [pidof EXCEPT ![s] = "dead"]
    /\ Still /\ Uncounted /\ UNCHANGED <<state, logcat>>

Revoke ==
    /\ granted /\ granted' = FALSE /\ sent' = {}
    /\ UNCHANGED <<state, logcat, pidof, lines, window>>

Goes(s) == Resolved(s) \/ Awake(s) \/ Handle(s) \/ Sent(s) \/ Cleanup(s)
lsNext ==
    \/ \E s \in Stream :
         Open(s) \/ Goes(s) \/ Skipped(s) \/ Taken(s) \/ Expire(s) \/ PidofEnds(s)
    \/ Revoke
\* Awaited sleeps and sends end, and so do the 300 seconds.
lsFair == \A s \in Stream : WF_lsVars(Goes(s)) /\ WF_lsVars(Expire(s))

-----------------------------------------------------------------------------
(***************************************************************************)
(* Properties.                                                             *)
(***************************************************************************)
lsTypeOK ==
    /\ granted \in BOOLEAN
    /\ state \in [Stream -> {"none", "yield", "ending", "closed"} \cup Running]
    /\ logcat \in [Stream -> {"none", "alive", "dead"}]
    /\ pidof \in [Stream -> {"none", "alive", "dead"}]
    /\ lines \in [Stream -> 0 .. MaxLines] /\ window \in [Stream -> 0 .. MaxRate]
    /\ sent \subseteq Stream

\* No record is sent on a grant that ended while the stream slept over it.
SentOnGrant == sent' # {} => granted

\* A logcat process belongs to a stream that runs: none survives its socket,
\* whether the client left, the time was over or the scope was withdrawn.
NoStrayLogcat ==
    \A s \in Stream : logcat[s] = "alive" <=> state[s] \in Running \cup {"yield", "ending"}

\* When the scope ends, every logcat process ends, also on a device that writes
\* only lines that are no records.
LogsEnd == ~granted ~> \A s \in Stream : logcat[s] # "alive"

\* The types, what is sent, and the process that must not be left behind.
LogsKept == [](lsTypeOK /\ NoStrayLogcat) /\ [][SentOnGrant]_lsVars /\ LogsEnd
===============================================================================
