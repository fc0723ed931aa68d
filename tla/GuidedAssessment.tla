------------------------- MODULE GuidedAssessment -------------------------
(***************************************************************************)
(* The guided assessment: one approved run over an uploaded application,   *)
(* static scan, API cases, device mapping and an optional model review, in *)
(* a background task that persists its document as it goes; the routes     *)
(* that create, cancel and read it, import paired evidence, and run the    *)
(* authorization probe afterwards.  A coroutine runs from one await to the *)
(* next in one step.  Everything between two awaits is persisted before    *)
(* the second, so the task's document is the stored row at every await,    *)
(* but for the cancellation flag, which every save takes from the row.     *)
(***************************************************************************)
EXTENDS Naturals, Sequences, FiniteSets

CONSTANTS
    Assessment,   \* identifiers of assessments
    Choices,      \* Choices[a]: what the operator may select for a
    Grants,       \* the scopes that may be saved: what each still grants
    Pairs,        \* imported authorization pairs
    PairLimit,    \* how many a document may hold
    Restarts      \* how often the server may stop

VARIABLES
    row,          \* the assessments table
    task,         \* task[a]: the coroutine of create, then of run
    tasks,        \* AssessmentService.tasks
    grant,        \* grant[a]: what the saved policy grants of the scope of a
    told,         \* the assessments whose scan is in CANCELLED
    probe,        \* probe[a]: the coroutine of run_authorization_probe
    sent,         \* sent[a]: requests the probes of a ever sent
    stops         \* how often the server stopped; odd while it is down

gaVars == <<row, task, tasks, grant, told, probe, sent, stops>>

Stages == {"sast", "api", "dast", "llm"}
Options == {"api", "install", "dast", "launch", "llm", "secondary"}
NoAssessment == [status |-> "none", chosen |-> {}, stage |-> [s \in Stages |-> "not_selected"],
          cancel |-> FALSE, scan |-> FALSE, logs |-> "none",
          attempts |-> 0, pairs |-> {}, compared |-> FALSE]
NoTask == [at |-> "none", chosen |-> {}, live |-> FALSE, todo |-> <<>>]
NoProbe == [at |-> "none", live |-> FALSE, left |-> 0, pairs |-> {}]
ServerUp == stops % 2 = 0

gaInit ==
    /\ row = [a \in Assessment |-> NoAssessment]
    /\ task = [a \in Assessment |-> NoTask]
    /\ tasks = {}
    /\ grant = [a \in Assessment |-> "none"]
    /\ told = {}
    /\ probe = [a \in Assessment |-> NoProbe]
    /\ sent = [a \in Assessment |-> 0]
    /\ stops = 0

-----------------------------------------------------------------------------
\* What a run awaits, in this order.  Commands that follow each other under
\* the same guard and in the same exception handler are one await.
Awaits(chosen) ==
    LET with(option, part) == IF option \in chosen THEN part ELSE <<>>
    IN <<"hash", "trigger", "scan", "rehash">>
         \o with("api", <<"case", "case">>)
         \o with("install", <<"present", "install">>)
         \o with("dast", <<"identity", "package">>)
         \o with("launch", <<"launch">>)
         \o with("dast", <<"baseline", "discover", "settle", "logs">>)
         \o with("llm", <<"review">>)
         \o with("secondary", <<"fallback">>)

\* The stage an await opens.
Opens == [trigger |-> "sast", case |-> "api", present |-> "dast",
          identity |-> "dast", review |-> "llm"]

Selected(chosen) ==
    [s \in Stages |-> IF s = "sast" \/ s \in chosen THEN "queued" ELSE "not_selected"]

\* AssessmentService.guard: the session, the stored cancellation, the scope.
guard(a, live) ==
    IF ~live THEN "denied"
    ELSE IF row[a].cancel THEN "cancelled"
    ELSE IF grant[a] # "all" THEN "denied" ELSE "ok"

\* The handlers around the permission snapshot and the two log dumps re-raise
\* a denied scope and swallow everything else, a cancellation included.
Swallows == {"package", "baseline", "settle", "logs"}
\* (mutant) an API case runs under the check of the stage
AdmitsCases(a, x, live) == IF x \in {"scan", "settle", "case"} THEN "ok" ELSE guard(a, live)
\* AutomationService.create checks the session and the device scope only; the
\* scan goes on without a check once it is linked, and the sleep needs none.
Admits(a, x, live) ==
    IF x \in {"scan", "settle"} THEN "ok"
    ELSE IF x = "discover" THEN (IF live /\ grant[a] # "none" THEN "ok" ELSE "denied")
    ELSE guard(a, live)

\* These check it themselves, before they look at what came of the operation.
GuardsItself == {"scan", "install", "identity", "launch", "review", "fallback"}

\* What may come of an await, besides what is needed to go on: a boundary that
\* does not hold, a failure the code looks at, one it does not, a lost save.
Otherwise(x) ==
    CASE x = "settle" -> {}
      [] x \in {"hash", "rehash"} -> {"refused", "raised"}
      [] x = "trigger" -> {"raised", "unsaved"}
      [] x = "scan" -> {"refused", "partial", "raised", "unsaved"}
      [] x = "case" -> {"refused", "fails", "unsaved"}
      [] x = "identity" -> {"refused", "unsaved"}
      [] x = "discover" -> {"noscreens", "raised", "unsaved"}
      [] x \in Swallows -> {"fails", "unsaved"}
      [] x \in {"review", "fallback"} -> {"limited", "fails", "refused"}
      [] OTHER -> {"fails"}

\* How the run goes on after it: it pauses at a boundary that does not hold,
\* and ends in an error where an operation it needs did not succeed.
Verdict(x, came) ==
    IF came = "refused" THEN "paused"
    ELSE IF \/ came \in {"raised", "unsaved", "partial"}
            \/ came = "fails" /\ x \in {"case", "present", "install", "launch"} THEN "error"
    ELSE "on"

\* What the document keeps of it.
Noted(r, x, came, rest) ==
    LET stage(s, value) == [r EXCEPT !.stage[s] = value]
        last == rest = <<>> \/ Head(rest) # x
    IN CASE came = "raised" -> r
         [] x = "trigger" -> [r EXCEPT !.scan = TRUE]
         [] x = "scan" -> stage("sast", IF came = "partial" THEN "partial" ELSE "completed")
         [] x = "case" /\ last /\ came \in {"good", "unsaved"} -> stage("api", "completed_with_observations")
         [] x = "discover" -> stage("dast", IF came = "noscreens" THEN "paused"
                                            ELSE "awaiting_action_review")
         [] x \in {"settle", "logs"} ->
              [r EXCEPT !.logs = IF came = "fails" THEN "unavailable"
                                 ELSE IF x = "logs" THEN "observed" ELSE @]
         [] x \in {"review", "fallback"} /\ came # "refused" ->
              IF came = "limited" /\ rest # <<>> THEN r
              ELSE stage("llm", IF came \in {"limited", "fails"} THEN "error" ELSE "completed")
         [] OTHER -> r

\* (mutant) the stages stay as they were
SettledNot(r) == r
\* A stage that did not run, or did not finish, says so when the task ends.
Settled(r) ==
    [r EXCEPT !.stage = [s \in Stages |->
        IF @[s] = "queued" THEN "not_executed"
        ELSE IF @[s] = "running" THEN "incomplete" ELSE @[s]]]

\* The status of a run that got to its end.
Finished(r) ==
    IF "dast" \notin r.chosen THEN "completed"
    ELSE IF r.stage["dast"] = "paused" THEN "paused" ELSE "awaiting_action_review"

\* guided_coverage, as every report computes it: the stages selected leave a gap
\* unless they did all that they can do, and the scan's own record may have one.
Gaps(r) ==
    {s \in Stages : r.stage[s] \notin {"not_selected", "completed", "completed_with_observations"}}
      \cup {s \in {"api", "dast"} : r.stage[s] # "not_selected"}
guided_coverage(r) ==
    IF \A s \in Stages : r.stage[s] = "not_selected" THEN "unknown"
    ELSE IF Gaps(r) # {} THEN "partial" ELSE "bounded_static_only"

\* guided_runtime_surface_ledger: what was observed, by its receipt.
runtime_surfaces(r) ==
    (IF r.logs = "observed" THEN {"startup_ui_logcat"} ELSE {})
      \cup (IF r.stage["dast"] = "awaiting_action_review" THEN {"ui_navigation_mapping"} ELSE {})
      \cup (IF r.compared THEN {"api_authorization_pair"} ELSE {})

-----------------------------------------------------------------------------
\* create: two awaits for validation, and everything checked again after them.
CreateStart(a, chosen) ==
    /\ ServerUp
    /\ row[a] = NoAssessment /\ task[a] = NoTask
    /\ tasks = {}
    /\ task' = [task EXCEPT ![a] = [NoTask EXCEPT !.at = "validating", !.live = TRUE,
                                                  !.chosen = chosen]]
    /\ UNCHANGED <<row, tasks, grant, told, probe, sent, stops>>

CreateValidated(a) ==
    /\ task[a].at = "validating"
    /\ task' = [task EXCEPT ![a] = IF task[a].live THEN [@ EXCEPT !.at = "hashing"] ELSE NoTask]
    /\ UNCHANGED <<row, tasks, grant, told, probe, sent, stops>>

CreateRefused(a) ==
    /\ task[a].at \in {"validating", "hashing"}
    /\ task' = [task EXCEPT ![a] = NoTask]
    /\ UNCHANGED <<row, tasks, grant, told, probe, sent, stops>>

Created(chosen) ==
    [NoAssessment EXCEPT !.status = "running", !.chosen = chosen, !.stage = Selected(chosen)]

\* (mutant) the limit is checked on arrival only
CreateDoneUnchecked(a) ==
    /\ task[a].at = "hashing"
    /\ task[a].live
    /\ row' = [row EXCEPT ![a] = Created(task[a].chosen)]
    /\ grant' \in {g \in Grants : g[a] = "all"}
    /\ tasks' = tasks \cup {a}
    /\ task' = [task EXCEPT ![a] = [@ EXCEPT !.at = "begin", !.todo = Awaits(task[a].chosen)]]
    /\ UNCHANGED <<told, probe, sent, stops>>
\* The row, the policy and the task, in this order and in one step.
CreateDone(a) ==
    /\ task[a].at = "hashing"
    /\ task[a].live /\ tasks = {}
    /\ row' = [row EXCEPT ![a] = Created(task[a].chosen)]
    /\ grant' \in {g \in Grants : g[a] = "all"}
    /\ tasks' = tasks \cup {a}
    /\ task' = [task EXCEPT ![a] = [@ EXCEPT !.at = "begin", !.todo = Awaits(task[a].chosen)]]
    /\ UNCHANGED <<told, probe, sent, stops>>

\* The policy cannot be saved: the row says running, and nothing runs.
CreateLost(a) ==
    /\ task[a].at = "hashing"
    /\ task[a].live /\ tasks = {}
    /\ row' = [row EXCEPT ![a] = Created(task[a].chosen)]
    /\ task' = [task EXCEPT ![a] = NoTask]
    /\ UNCHANGED <<tasks, grant, told, probe, sent, stops>>

-----------------------------------------------------------------------------
\* The end of run: the last save may fail, the slot is given back in any case.
End(a, r, status) ==
    /\ task' = [task EXCEPT ![a] = NoTask]
    /\ \/ row' = [row EXCEPT ![a] = [Settled(r) EXCEPT !.status = status]]
       \/ row' = row
    /\ tasks' = tasks \ {a}

EndOf(verdict) == IF verdict = "denied" THEN "paused" ELSE verdict

\* (mutant) a run without live stages is not checked at its end
AtEndUnchecked(a, x) == "ok"
\* The check behind the API part, which a run passes with or without one.
AtEnd(a, x) == IF x \in {"rehash", "case"} THEN guard(a, task[a].live) ELSE "ok"

\* Go on after x with the awaits that are left: the next one unless it is
\* refused, or the end.
Onward(a, x, r, rest) ==
    LET next == Head(rest)
        admitted == IF rest # <<>> THEN Admits(a, next, task[a].live)
                    ELSE AtEnd(a, x)
        opened == IF next \in DOMAIN Opens /\ r.stage[Opens[next]] = "queued"
                  THEN [r EXCEPT !.stage[Opens[next]] = "running"] ELSE r
    IN IF admitted # "ok" THEN End(a, r, EndOf(admitted))
       ELSE IF rest = <<>> THEN End(a, r, Finished(r))
       ELSE /\ row' = [row EXCEPT ![a] = opened]
            /\ task' = [task EXCEPT ![a] = [@ EXCEPT !.at = "await", !.todo = rest]]
            /\ tasks' = tasks

Begin(a) ==
    /\ task[a].at = "begin"
    /\ Onward(a, "begin", row[a], task[a].todo)
    /\ UNCHANGED <<grant, told, probe, sent, stops>>

\* What is left to await: a sleep that was cut short leaves the logs out, and
\* the second provider is asked only when the first one is over its rate.
Left(x, came, rest) ==
    IF x = "settle" /\ came = "fails" THEN Tail(rest)
    ELSE IF x = "review" /\ came # "limited" THEN <<>>
    ELSE rest

Return(a) ==
    LET x == Head(task[a].todo)
        checked == guard(a, task[a].live)
    IN /\ task[a].at = "await"
       /\ \E came \in {"good"} \cup Otherwise(x) :
            LET held == x \in Swallows /\ checked = "cancelled"
                got == IF held THEN "fails" ELSE came
                rest == Left(x, got, Tail(task[a].todo))
                r == Noted(row[a], x, got, rest)
            IN IF x \in GuardsItself /\ came # "raised" /\ checked # "ok"
               THEN End(a, row[a], EndOf(checked))
               ELSE IF x \in Swallows /\ checked = "denied" THEN End(a, row[a], "paused")
               ELSE IF Verdict(x, got) # "on" THEN End(a, r, Verdict(x, got))
               ELSE Onward(a, x, r, rest)
    /\ UNCHANGED <<grant, told, probe, sent, stops>>

\* The budget of the whole run is over; the operation it awaits is abandoned.
Budget(a) ==
    /\ task[a].at = "await"
    /\ End(a, row[a], "error")
    /\ UNCHANGED <<grant, told, probe, sent, stops>>

-----------------------------------------------------------------------------
\* cancel tells the scan as well, once the document is linked to it.
CancelAssessment(a) ==
    /\ ServerUp
    /\ row[a].status = "running"
    /\ row' = [row EXCEPT ![a].cancel = TRUE]
    /\ told' = IF row[a].scan THEN told \cup {a} ELSE told
    /\ UNCHANGED <<task, tasks, grant, probe, sent, stops>>

\* record_authorization_pair: evidence for an API case that was run.
RecordPair(a, p) ==
    /\ ServerUp
    /\ guard(a, TRUE) = "ok"
    /\ a \notin tasks /\ row[a].status \notin {"none", "running"}
    /\ row[a].stage["api"] \in {"completed_with_observations", "running", "incomplete"}
    /\ Cardinality(row[a].pairs) < PairLimit /\ p \notin row[a].pairs
    /\ row' = [row EXCEPT ![a].pairs = @ \cup {p}]
    /\ UNCHANGED <<task, tasks, grant, told, probe, sent, stops>>

\* run_authorization_probe reads the document and stores its one attempt before
\* the first of its three requests; each waits, under the guard.
ProbeStart(a) ==
    /\ ServerUp
    /\ guard(a, TRUE) = "ok"
    /\ a \notin tasks /\ row[a].status \notin {"none", "running", "cancelled", "interrupted"}
    /\ row[a].stage["api"] = "completed_with_observations"
    /\ probe[a] = NoProbe
    /\ row[a].attempts = 0
    /\ row' = [row EXCEPT ![a].attempts = 1]
    /\ probe' = [probe EXCEPT ![a] =
           [at |-> "sleep", live |-> TRUE, left |-> 3, pairs |-> row[a].pairs]]
    /\ UNCHANGED <<task, tasks, grant, told, sent, stops>>

ProbeSend(a) ==
    /\ probe[a].at = "sleep"
    /\ IF guard(a, probe[a].live) = "ok"
       THEN /\ probe' = [probe EXCEPT ![a].at = "request", ![a].left = @ - 1]
            /\ sent' = [sent EXCEPT ![a] = @ + 1]
       ELSE /\ probe' = [probe EXCEPT ![a] = NoProbe]
            /\ sent' = sent
    /\ UNCHANGED <<row, task, tasks, grant, told, stops>>

\* After the third answer the document read at the start is stored, with the
\* comparison: what was recorded in between is gone.
ProbeAnswered(a) ==
    /\ probe[a].at = "request"
    /\ IF probe[a].left > 0
       THEN /\ probe' = [probe EXCEPT ![a] =
                   IF guard(a, @.live) = "ok" THEN [@ EXCEPT !.at = "sleep"] ELSE NoProbe]
            /\ row' = row
       ELSE /\ probe' = [probe EXCEPT ![a] = NoProbe]
            /\ row' = [row EXCEPT ![a].pairs = probe[a].pairs, ![a].compared = TRUE]
    /\ UNCHANGED <<task, tasks, grant, told, sent, stops>>

\* The transport or the last save raises.
ProbeFails(a) ==
    /\ probe[a].at = "request"
    /\ probe' = [probe EXCEPT ![a] = NoProbe]
    /\ UNCHANGED <<row, task, tasks, grant, told, sent, stops>>

-----------------------------------------------------------------------------
SaveScope(g) ==
    /\ ServerUp
    /\ grant # g
    /\ grant' = g
    /\ UNCHANGED <<row, task, tasks, told, probe, sent, stops>>

\* The session ends; requests that arrive later belong to a new one.
Expire ==
    /\ \E a \in Assessment : task[a].live \/ probe[a].live
    /\ task' = [a \in Assessment |-> [task[a] EXCEPT !.live = FALSE]]
    /\ probe' = [a \in Assessment |-> [probe[a] EXCEPT !.live = FALSE]]
    /\ UNCHANGED <<row, tasks, grant, told, sent, stops>>

\* The server stops: a shutdown that cancels the tasks, each of which stores
\* that it was interrupted if it can, or a crash.
Stop ==
    /\ ServerUp /\ stops < 2 * Restarts
    /\ \E told_ \in SUBSET tasks :
          row' = [a \in Assessment |->
                    IF a \in told_ THEN [Settled(row[a]) EXCEPT !.status = "interrupted"]
                    ELSE row[a]]
    /\ task' = [a \in Assessment |-> NoTask]
    /\ probe' = [a \in Assessment |-> NoProbe]
    /\ tasks' = {} /\ told' = {}
    /\ stops' = stops + 1
    /\ UNCHANGED <<grant, sent>>

\* recover, before the first request.
Recover ==
    /\ ~ServerUp
    /\ row' = [a \in Assessment |->
                 IF row[a].status = "running" THEN [row[a] EXCEPT !.status = "interrupted"]
                 ELSE row[a]]
    /\ stops' = stops + 1
    /\ UNCHANGED <<task, tasks, grant, told, probe, sent>>

Runs(a) == Begin(a) \/ Return(a) \/ Budget(a)
gaNext ==
    \/ \E a \in Assessment :
         \/ \E chosen \in Choices[a] : CreateStart(a, chosen)
         \/ CreateValidated(a) \/ CreateRefused(a) \/ CreateDone(a) \/ CreateLost(a)
         \/ Runs(a) \/ CancelAssessment(a)
         \/ \E p \in Pairs : RecordPair(a, p)
         \/ ProbeStart(a) \/ ProbeSend(a) \/ ProbeAnswered(a) \/ ProbeFails(a)
    \/ \E g \in Grants : SaveScope(g)
    \/ Expire \/ Stop \/ Recover

\* Every await of a run ends: the whole run has a budget of 480 s.
gaFair == \A a \in Assessment : WF_gaVars(Runs(a))
gaSpec == gaInit /\ [][gaNext]_gaVars /\ gaFair

-----------------------------------------------------------------------------
\* Types; the slot is held exactly while the coroutine of the run exists.
gaTypeOK ==
    /\ \A a \in Assessment :
         /\ row[a].status \in {"none", "running", "completed", "awaiting_action_review",
                               "paused", "error", "cancelled", "interrupted"}
         /\ row[a].cancel \in BOOLEAN /\ row[a].compared \in BOOLEAN
         /\ row[a].attempts \in 0..1
         /\ row[a].pairs \subseteq Pairs
         /\ task[a].at \in {"none", "validating", "hashing", "begin", "await"}
         /\ task[a].at = "await" => task[a].todo # <<>>
         /\ probe[a].at \in {"none", "sleep", "request"} /\ probe[a].left \in 0..3
         /\ sent[a] \in Nat
         /\ a \in tasks <=> task[a].at \in {"begin", "await"}
    /\ tasks \subseteq Assessment
    /\ told \subseteq Assessment
    /\ stops \in 0 .. 2 * Restarts

\* One assessment runs at a time, however many creates wait for their archive
\* and its hash: they would replace each other's policy.
OneAssessment == Cardinality(tasks) <= 1

\* A stored end is the truth about the stages: none is left waiting or open,
\* and a run that says it got to its end did every stage that was selected.
\* Only a restart leaves an interrupted run with open stages.  Its coverage is
\* static only when a scan was made and no live stage selected, and a surface that is
\* called observed has a receipt that only the finished steps can have left.
StagesTruthful ==
    \A a \in Assessment :
        LET r == row[a]
            open == {s \in Stages : r.stage[s] \in {"queued", "running"}}
        IN /\ r.status \notin {"none", "running", "interrupted"} => open = {}
           /\ r.status \in {"completed", "awaiting_action_review"} =>
                /\ r.stage["sast"] = "completed"
                /\ "api" \in r.chosen => r.stage["api"] = "completed_with_observations"
                /\ "dast" \in r.chosen => r.stage["dast"] = "awaiting_action_review"
                /\ "llm" \in r.chosen => r.stage["llm"] \in {"completed", "error"}
           /\ guided_coverage(r) = "bounded_static_only" =>
                r.chosen \cap {"api", "dast"} = {} /\ r.scan
           /\ "startup_ui_logcat" \in runtime_surfaces(r) =>
                "dast" \in r.chosen /\ r.stage["sast"] = "completed" /\ r.stage["dast"] \in {"paused", "awaiting_action_review"}
           /\ "api_authorization_pair" \in runtime_surfaces(r) =>
                r.attempts = 1 /\ sent[a] = 3 /\ r.stage["api"] = "completed_with_observations"

\* A run whose cancellation was accepted does not end as if it had not been,
\* unless the last thing it did was to look at the logs, whose handler swallows
\* the cancellation and notes that there are none.
CancelExplained ==
    \A a \in Assessment :
        row[a].cancel /\ row[a].status \in {"completed", "awaiting_action_review"} =>
            row[a].logs = "unavailable" /\ "llm" \notin row[a].chosen

\* Nothing of an assessment starts without a live session and the whole scope
\* it was approved with, or once its cancellation is stored, with two holes:
\* the scan that has just been linked, and the discovery of screens, which asks
\* only for the device scope after a swallowed cancellation.  The three requests
\* of the probe are all that is ever sent, over restarts and repeated calls.
NothingStartsOutside ==
    /\ [](\A a \in Assessment : sent[a] <= 3)
    /\ [][\A a \in Assessment :
            /\ LET x == Head(task'[a].todo)
                   starts == /\ task'[a].at = "await"
                             /\ task[a].at # "await" \/ task'[a].todo # task[a].todo
               IN starts /\ x \notin {"scan", "settle"} =>
                    /\ task[a].live
                    /\ x # "discover" => grant[a] = "all" /\ ~row[a].cancel
                    /\ grant[a] # "none"
            /\ sent'[a] # sent[a] => probe[a].live /\ grant[a] = "all" /\ ~row[a].cancel]_gaVars

\* Every run gives the one slot back, in time and whatever fails.
SlotReturned == \A a \in Assessment : a \in tasks ~> a \notin tasks

\* The slot: what holds it is consistent, it is held once, and it is returned.
SlotKept == [](gaTypeOK /\ OneAssessment) /\ SlotReturned
=============================================================================
