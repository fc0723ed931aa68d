------------------------------ MODULE MCSessions ------------------------------
(***************************************************************************)
(* The long-lived work of the dashboard, in parts that share no state and  *)
(* are checked in one run: the authorized automation of devices, the       *)
(* telemetry sockets, the capture proxy and the log streams.  The parts    *)
(* whose turn it is not stay where they start, and are owed no progress.   *)
(***************************************************************************)
EXTENDS MCAutomationRun

CONSTANTS w1, w2, w3, s1, s2, b1, all, Part

VARIABLES
    part,
    current, handler, pending, active, sessions, subscriptions, cast, received,
    saved, scope, shown, server, running, client, clients, stored, bytes, offered,
    granted, state, logcat, pidof, lines, window, sent

\* Two sockets that follow a scan and one that follows all, for two places.
Sockets == {w1, w2, w3}
T == INSTANCE Telemetry
     WITH Socket <- Sockets, Topic <- {s1, s2}, Caster <- {b1}, All <- all,
          Wanted <- (w1 :> s1) @@ (w2 :> s2) @@ (w3 :> all), Places <- 2

\* Three clients for two places; transactions that need one, two or three of
\* four units, or more than there are.
C == INSTANCE CaptureProxy
     WITH Client <- Sockets, Scopes <- {{s1}, {s2}}, Sizes <- {1, 2, 3, 5},
          MaxClients <- 2, MaxStored <- 2, MaxBytes <- 4
L == INSTANCE LogStream
     WITH Stream <- {w1, w2}, MaxLines <- 2, MaxRate <- 1

-----------------------------------------------------------------------------
telemetryVars == <<current, handler, pending, active, sessions, subscriptions, cast, received>>
captureVars == <<saved, scope, shown, server, running, client, clients, stored, bytes, offered>>
logVars == <<granted, state, logcat, pidof, lines, window, sent>>

PartsInit == part \in Part /\ Init /\ T!Init /\ C!cpInit /\ L!lsInit
PartsNext ==
    \/ part = "automation" /\ Next /\ UNCHANGED <<part, telemetryVars, captureVars, logVars>>
    \/ part = "telemetry" /\ T!tmNext /\ UNCHANGED <<part, vars, captureVars, logVars>>
    \/ part = "capture" /\ C!cpNext /\ UNCHANGED <<part, vars, telemetryVars, logVars>>
    \/ part = "logs" /\ L!lsNext /\ UNCHANGED <<part, vars, telemetryVars, captureVars>>

\* The fairness of each part, where its module says why.
PartsFair ==
    /\ \A c \in Coroutines : WF_vars(part = "automation" /\ up /\ Batch(c))
    /\ WF_vars(part = "automation" /\ ~up /\ ((\E r \in Runs : Recover(r)) \/ Serve))
    /\ \A s \in Sockets :
         /\ WF_telemetryVars(part = "telemetry" /\ T!Serves(s))
         /\ WF_captureVars(part = "capture" /\ C!Serve(s))
         /\ WF_logVars(part = "logs" /\ s # w3 /\ L!Goes(s))
         /\ WF_logVars(part = "logs" /\ s # w3 /\ L!Expire(s))
    /\ WF_captureVars(part = "capture" /\ C!Awaited)
PartsSpec == PartsInit /\ [][PartsNext]_<<part, vars, telemetryVars, captureVars, logVars>> /\ PartsFair

-----------------------------------------------------------------------------
\* Places, entries, contents and ends of the telemetry sockets
\* (ConnectionManager, _telemetry_stream).
TelemetryKept == T!TelemetryKept

\* The buffer of the capture proxy, its clients and its stops (AsyncMITMProxy).
CaptureKept == C!CaptureKept

\* What a log stream sends, and the process it must not leave behind
\* (LogcatStreamer.stream, ws_logcat_stream).
LogsKept == L!LogsKept
===============================================================================
