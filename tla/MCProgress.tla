------------------------------ MODULE MCProgress ------------------------------
(***************************************************************************)
(* What must end: the scans of the service and the guided assessments, two *)
(* parts that are checked one at a time.  The other part stays where it    *)
(* starts, and is owed no progress.                                        *)
(***************************************************************************)
EXTENDS ScanService, GuidedAssessment, TLC

CONSTANTS a1, a2, p1

VARIABLE part

Ids == 1 .. NScans

\* Two assessments, the second without options; scopes that grant everything,
\* only the device, or nothing.
Assessments == {a1, a2}
Chosen == (a1 :> {{"api"}, {"install", "dast", "launch"}, {"llm", "secondary"}}) @@ (a2 :> {{}})
Scopes == {[a \in Assessments |-> "all"], (a1 :> "device") @@ (a2 :> "all"),
           (a1 :> "none") @@ (a2 :> "none")}

-----------------------------------------------------------------------------
PartsInit ==
    /\ part \in {"scan", "assessment"}
    /\ Init /\ gaInit
    /\ part = "assessment" => \A s \in Scans : worker[s] = "none"
PartsNext ==
    \/ part = "scan" /\ Next /\ UNCHANGED <<part, gaVars>>
    \/ part = "assessment" /\ gaNext /\ UNCHANGED <<part, vars>>

\* The fairness of the two specifications, each for its own part.
PartsFair ==
    /\ \A s \in Scans : WF_vars(part = "scan" /\ up /\ Task(s))
    /\ WF_vars(part = "scan" /\ ~up /\ ((\E s \in Scans : RecoverRow(s)) \/ Serve))
    /\ \A a \in Assessments : WF_gaVars(part = "assessment" /\ Runs(a))

PartsSpec == PartsInit /\ [][PartsNext]_<<part, vars, gaVars>> /\ PartsFair
===============================================================================
