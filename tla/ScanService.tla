---------------------------- MODULE ScanService ----------------------------
(***************************************************************************)
(* The scan lifecycle of src/mobileag/web/app.py and web/jobs.py over the  *)
(* tables of ScanStore: one event loop (a step is the code between two     *)
(* awaits), the thread pool that runs repository calls, one isolated       *)
(* worker process per running scan, the operator's requests, and restarts. *)
(*                                                                         *)
(* Scans are numbered in the order trigger_scan creates them, which is the *)
(* insertion order of the dictionary ACTIVE_SCANS.                         *)
(***************************************************************************)
EXTENDS ScanStore, FiniteSets

CONSTANTS NScans,      \* bound: scans triggered over a run
          MaxRunning,  \* running entries of ACTIVE_SCANS (2 in the code)
          MaxTracked,  \* entries of ACTIVE_SCANS before eviction (100)
          Requests,    \* list or detail requests in flight
          MaxRestarts  \* bound: crashes of the server

ASSUME ServiceAssumption ==
  /\ NScans \in Nat /\ Scans = 1 .. NScans
  /\ MaxRunning \in Nat /\ MaxTracked \in Nat /\ MaxRestarts \in Nat

VARIABLES
  up,         \* the application serves requests (start-up has finished)
  worker,     \* phase of each scan's background task
  live,       \* status in the dictionary its task mutates ("none": no task)
  tracked,    \* ACTIVE_SCANS: NoRow, LiveRef (the task's dictionary) or a document
  cancelled,  \* jobs.CANCELLED
  snapshot,   \* a progress save copied the document and has yet to commit
  file,       \* status in <output>/<scan>/dashboard.json ("none": no file)
  erasing,    \* purged scans whose directory is being removed
  returning,  \* committed triages whose handler has yet to resume
  request,    \* list and detail requests
  restarts

taskVars == <<worker, live, tracked, cancelled, snapshot>>
vars == <<storeVars, up, taskVars, file, erasing, returning, request, restarts>>

\* How isolated_analysis ends: with a result, with an error or the wall-clock
\* timeout, because CANCELLED holds the scan, or as its own task is cancelled.
Outcomes == {"ok", "failed", "stopped", "abandoned"}
Phases == {"none", "reserved", "queued", "analysing", "reporting", "saving",
           "unwinding", "dumping", "done", "lost", "gone"} \cup Outcomes

LiveRef == Blank("live")
LiveDocument(s) == Blank(live[s])
Tracked(s) == tracked[s] # NoRow
Shown(s) == IF tracked[s] = LiveRef THEN live[s] ELSE tracked[s].status
Running == {s \in Scans : Tracked(s) /\ Shown(s) = "running"}
Processes == {s \in Scans : worker[s] \in {"analysing"} \cup Outcomes}

Idle == [pc |-> "idle", visited |-> {}, refs |-> {}, scan |-> 0, doc |-> NoRow]

TypeOK ==
  /\ StoreTypeOK
  /\ up \in BOOLEAN
  /\ worker \in [Scans -> Phases]
  /\ live \in [Scans -> Active \cup Final \cup {"none"}]
  /\ tracked \in [Scans -> Row \cup {LiveRef}]
  /\ cancelled \in SUBSET Scans
  /\ snapshot \in [Scans -> BOOLEAN]
  /\ file \in [Scans -> Active \cup Final \cup {"none"}]
  /\ erasing \in SUBSET Scans
  /\ returning \in SUBSET (Scans \X Document)
  /\ request \in [Requests ->
       [pc: {"idle", "import", "importing", "saving", "copied"},
        visited: SUBSET Scans, refs: SUBSET (Scans \X (Row \cup {LiveRef})),
        scan: Scans \cup {0}, doc: Row]]
  /\ restarts \in 0 .. MaxRestarts

\* Some identifiers are legacy: a dashboard.json written before there was a
\* database, whose scan ended long ago.
Init ==
  /\ StoreInit
  /\ up = TRUE
  /\ \E legacy \in SUBSET Scans :
       /\ worker = [s \in Scans |-> IF s \in legacy THEN "gone" ELSE "none"]
       /\ file = [s \in Scans |-> IF s \in legacy THEN "completed" ELSE "none"]
  /\ live = [s \in Scans |-> "none"]
  /\ tracked = [s \in Scans |-> NoRow]
  /\ cancelled = {}
  /\ snapshot = [s \in Scans |-> FALSE]
  /\ erasing = {}
  /\ returning = {}
  /\ request = [q \in Requests |-> Idle]
  /\ restarts = 0

Enter(s, phase) == worker' = [worker EXCEPT ![s] = phase]
Leave(s, status) ==   \* the task sets its final status, then saves
  /\ live' = [live EXCEPT ![s] = status]
  /\ Enter(s, "saving")

-----------------------------------------------------------------------------
(* trigger_scan and the background task                                     *)

First(s, S) == s \in S /\ \A t \in S : s <= t

Without(S) == [s \in Scans |-> IF First(s, S) THEN NoRow ELSE tracked[s]]
Full == Cardinality({s \in Scans : Tracked(s)}) >= MaxTracked

\* Entries left when a new scan finds the dictionary full: the oldest entry
\* that is not running makes room, and none does when all are running.
EvictOldest == IF Full THEN Without({s \in Scans : Tracked(s)}) ELSE tracked

Evicted == IF Full THEN Without({s \in Scans : Tracked(s)} \ Running) ELSE tracked

\* After the awaited validation and hash: the capacity check, the eviction and
\* the reservation are one step of the event loop.
Trigger(s) ==
  /\ worker[s] = "none"
  /\ \A t \in 1 .. s - 1 : worker[t] # "none"
  /\ Cardinality(Running) < MaxRunning
  /\ tracked' = [Evicted EXCEPT ![s] = LiveRef]
  /\ live' = [live EXCEPT ![s] = "running"]
  /\ Enter(s, "reserved")
  /\ UNCHANGED <<storeVars, up, cancelled, snapshot, file, erasing, returning,
                 request, restarts>>

taskRest == <<up, tracked, snapshot, erasing, returning, request, restarts>>

TriggerSaved(s) ==
  /\ worker[s] = "reserved"
  /\ Save(s, LiveDocument(s))
  /\ Enter(s, "queued")
  /\ UNCHANGED <<taskRest, live, cancelled, file>>

\* The save raises, or the awaiting request is cancelled while its thread goes
\* on to commit: the handler ends before add_task.
TriggerLost(s) ==
  /\ worker[s] = "reserved"
  /\ Save(s, LiveDocument(s)) \/ UNCHANGED storeVars
  /\ Enter(s, "lost")
  /\ UNCHANGED <<taskRest, live, cancelled, file>>

WorkerStart(s) ==
  /\ worker[s] = "queued"
  /\ Enter(s, "analysing")
  /\ UNCHANGED <<storeVars, taskRest, live, cancelled, file>>

FailureStatus(s) == IF s \in cancelled THEN "cancelled" ELSE "error"

\* Validation or settings fail before isolated_analysis is entered, or it
\* fails before it has a process, when its finally clears CANCELLED first.
WorkerFailsEarly(s) ==
  /\ worker[s] = "queued"
  /\ \/ Leave(s, FailureStatus(s)) /\ UNCHANGED cancelled
     \/ Leave(s, "error") /\ cancelled' = cancelled \ {s}
  /\ UNCHANGED <<storeVars, taskRest, file>>

\* A progress line: the thread has copied the document, still running, and
\* waits to commit it.  The next line is read only after that commit.
ProgressCopy(s) ==
  /\ worker[s] = "analysing"
  /\ ~snapshot[s]
  /\ snapshot' = [snapshot EXCEPT ![s] = TRUE]
  /\ UNCHANGED <<storeVars, up, worker, live, tracked, cancelled, file, erasing,
                 returning, request, restarts>>

\* Cancelling the reader task does not stop a thread that has started.
ProgressCommit(s) ==
  /\ snapshot[s]
  /\ Save(s, Blank("running"))
  /\ snapshot' = [snapshot EXCEPT ![s] = FALSE]
  /\ UNCHANGED <<up, worker, live, tracked, cancelled, file, erasing, returning,
                 request, restarts>>

WorkerExitUnchecked(s, outcome) ==
  /\ worker[s] = "analysing"
  /\ outcome = "stopped" => s \in cancelled
  /\ Enter(s, outcome)
  /\ UNCHANGED <<storeVars, taskRest, live, cancelled, file>>

\* The process has exited or is killed, reader and watcher are cancelled, and
\* CANCELLED is looked at for the last time before a result is accepted.
WorkerExit(s, outcome) ==
  /\ worker[s] = "analysing"
  /\ outcome = "ok" => s \notin cancelled
  /\ outcome = "stopped" => s \in cancelled
  /\ Enter(s, outcome)
  /\ UNCHANGED <<storeVars, taskRest, live, cancelled, file>>

CleanupKeepingStatus(s) ==
  /\ worker[s] \in Outcomes
  /\ cancelled' = cancelled \ {s}
  /\ \/ worker[s] = "ok" /\ Enter(s, "reporting") /\ UNCHANGED live
     \/ worker[s] = "failed" /\ Enter(s, "saving") /\ UNCHANGED live
     \/ worker[s] = "stopped" /\ Leave(s, "cancelled")
     \/ worker[s] = "abandoned" /\ Enter(s, "unwinding") /\ UNCHANGED live
  /\ UNCHANGED <<storeVars, taskRest, file>>

\* After the awaited scope stop: PROCESSES and CANCELLED forget the scan, and
\* the task goes on with the result or its except clause.
Cleanup(s) ==
  /\ worker[s] \in Outcomes
  /\ cancelled' = cancelled \ {s}
  /\ \/ worker[s] = "ok" /\ Enter(s, "reporting") /\ UNCHANGED live
     \/ worker[s] = "failed" /\ Leave(s, "error")
     \/ worker[s] = "stopped" /\ Leave(s, "cancelled")
     \/ worker[s] = "abandoned" /\ Enter(s, "unwinding") /\ UNCHANGED live
  /\ UNCHANGED <<storeVars, taskRest, file>>

Report(s) ==
  /\ worker[s] = "reporting"
  /\ \E st \in {"completed", "partial", "error"} : Leave(s, st)
  /\ UNCHANGED <<storeVars, taskRest, cancelled, file>>

ReportFails(s) ==
  /\ worker[s] = "reporting"
  /\ Leave(s, FailureStatus(s))
  /\ UNCHANGED <<storeVars, taskRest, cancelled, file>>

\* A guided assessment awaits the task under its own 480 s budget.  Its
\* CancelledError passes the except clause, so the finally saves the document
\* with the status it has: running.
TaskCancelled(s) ==
  /\ worker[s] \in {"queued", "reporting"}
  /\ Enter(s, "unwinding")
  /\ UNCHANGED <<storeVars, taskRest, live, cancelled, file>>

FinalSaveStamped(s) ==
  /\ worker[s] \in {"saving", "unwinding"}
  /\ Save(s, [LiveDocument(s) EXCEPT !.rev = scans[s].rev])
  /\ Enter(s, "dumping")
  /\ UNCHANGED <<taskRest, live, cancelled, file>>

FinalSave(s) ==
  /\ worker[s] \in {"saving", "unwinding"}
  /\ Save(s, LiveDocument(s))
  /\ Enter(s, "dumping")
  /\ UNCHANGED <<taskRest, live, cancelled, file>>

\* A document over the storage limits, or a database locked for 10 s: the
\* finally clause ends here.
FinalSaveFails(s) ==
  /\ worker[s] \in {"saving", "unwinding"}
  /\ Enter(s, "done")
  /\ UNCHANGED <<storeVars, taskRest, live, cancelled, file>>

\* private_write creates the directory if it is missing.
Dump(s) ==
  /\ worker[s] = "dumping"
  /\ Enter(s, "done")
  /\ file' \in {file, [file EXCEPT ![s] = live[s]]}
  /\ UNCHANGED <<storeVars, taskRest, live, cancelled>>

-----------------------------------------------------------------------------
(* The operator's requests                                                  *)

CancelMarkingStatus(s) ==
  /\ s \in Running
  /\ cancelled' = cancelled \cup {s}
  /\ live' = [live EXCEPT ![s] = "cancelling"]
  /\ UNCHANGED <<storeVars, taskRest, worker, file>>

Cancel(s) ==
  /\ s \in Running
  /\ cancelled' = cancelled \cup {s}
  /\ UNCHANGED <<storeVars, taskRest, worker, live, file>>

operatorRest == <<up, worker, live, cancelled, snapshot, request, restarts>>

TriageCommit(s, expected) ==
  /\ Triage(s, expected)
  /\ returning' = returning \cup {<<s, Triaged(s)>>}
  /\ UNCHANGED <<operatorRest, tracked, file, erasing>>

TriageReturn(s, doc) ==
  /\ <<s, doc>> \in returning
  /\ returning' = returning \ {<<s, doc>>}
  /\ tracked' = IF Tracked(s) THEN [tracked EXCEPT ![s] = doc] ELSE tracked
  /\ UNCHANGED <<storeVars, operatorRest, file, erasing>>

\* The transaction and the removal from ACTIVE_SCANS are one step; the
\* directory, when there is one, goes in a thread.
PurgeScan(s) ==
  /\ s \notin Running
  /\ Purge(s, scans[s].rev)
  /\ tracked' = [tracked EXCEPT ![s] = NoRow]
  /\ erasing' \in {erasing \cup {s}} \cup (IF file[s] = "none" THEN {erasing} ELSE {})
  /\ UNCHANGED <<operatorRest, file, returning>>

Erase(s) ==
  /\ s \in erasing
  /\ erasing' = erasing \ {s}
  /\ file' = [file EXCEPT ![s] = "none"]
  /\ UNCHANGED <<storeVars, operatorRest, tracked, returning>>

\* list_scans takes references to the tracked dictionaries, then its thread
\* imports dashboard.json files and saves what the references now hold.
requestRest == <<up, taskVars, file, erasing, returning, restarts>>
Become(q, state) == request' = [request EXCEPT ![q] = state]

ListStart(q) ==
  /\ request[q].pc = "idle"
  /\ Become(q, [Idle EXCEPT !.pc = "import",
                  !.refs = {<<s, tracked[s]>> : s \in {t \in Scans : Tracked(t)}}])
  /\ UNCHANGED <<storeVars, requestRest>>

\* get_scan_details imports the one scan it was asked for.
DetailsStart(q, s) ==
  /\ request[q].pc = "idle"
  /\ s \notin Running
  /\ Become(q, [Idle EXCEPT !.pc = "import", !.visited = Scans \ {s}])
  /\ UNCHANGED <<storeVars, requestRest>>

ImportCheck(q, s) ==
  /\ request[q].pc = "import"
  /\ s \notin request[q].visited
  /\ file[s] # "none"
  /\ Importable(s)
  /\ Become(q, [request[q] EXCEPT !.pc = "importing", !.visited = @ \cup {s},
                                  !.scan = s, !.doc = Blank(file[s])])
  /\ UNCHANGED <<storeVars, requestRest>>

ImportSave(q) ==
  /\ request[q].pc = "importing"
  /\ Save(request[q].scan, request[q].doc)
  /\ Become(q, [request[q] EXCEPT !.pc = "import", !.scan = 0, !.doc = NoRow])
  /\ UNCHANGED requestRest

ImportDone(q) ==
  /\ request[q].pc = "import"
  /\ Become(q, IF request[q].refs = {} THEN Idle
               ELSE [request[q] EXCEPT !.pc = "saving", !.visited = {}])
  /\ UNCHANGED <<storeVars, requestRest>>

ListCopy(q) ==
  /\ request[q].pc = "saving"
  /\ \E ref \in request[q].refs :
       /\ First(ref[1], {r[1] : r \in request[q].refs})
       /\ Become(q, [request[q] EXCEPT !.pc = "copied", !.refs = @ \ {ref}, !.scan = ref[1],
                       !.doc = IF ref[2] = LiveRef THEN LiveDocument(ref[1]) ELSE ref[2]])
  /\ UNCHANGED <<storeVars, requestRest>>

ListCommit(q) ==
  /\ request[q].pc = "copied"
  /\ Save(request[q].scan, request[q].doc)
  /\ Become(q, IF request[q].refs = {} THEN Idle
               ELSE [request[q] EXCEPT !.pc = "saving", !.scan = 0, !.doc = NoRow])
  /\ UNCHANGED requestRest

-----------------------------------------------------------------------------
(* A crash loses everything in memory, kills the workers and leaves the     *)
(* tables and files; start-up closes the running rows one by one, before    *)
(* any request is served.                                                   *)
Crash ==
  /\ restarts < MaxRestarts
  /\ restarts' = restarts + 1
  /\ up' = FALSE
  /\ worker' = [s \in Scans |-> IF worker[s] = "none" THEN "none" ELSE "gone"]
  /\ live' = [s \in Scans |-> "none"]
  /\ tracked' = [s \in Scans |-> NoRow]
  /\ cancelled' = {}
  /\ snapshot' = [s \in Scans |-> FALSE]
  /\ erasing' = {}
  /\ returning' = {}
  /\ request' = [q \in Requests |-> Idle]
  /\ UNCHANGED <<storeVars, file>>

RecoverRowUnsaved(s) ==
  /\ scans[s].status \in Active
  /\ UNCHANGED vars

RecoverRow(s) ==
  /\ scans[s].status \in Active
  /\ Save(s, [scans[s] EXCEPT !.status = "interrupted"])
  /\ UNCHANGED <<up, taskVars, file, erasing, returning, request, restarts>>

ServeAtOnce ==
  /\ up' = TRUE
  /\ UNCHANGED <<storeVars, taskVars, file, erasing, returning, request, restarts>>

Serve ==
  /\ \A s \in Scans : scans[s].status \notin Active
  /\ up' = TRUE
  /\ UNCHANGED <<storeVars, taskVars, file, erasing, returning, request, restarts>>

-----------------------------------------------------------------------------
Task(s) ==
  \/ TriggerSaved(s) \/ TriggerLost(s) \/ WorkerStart(s) \/ WorkerFailsEarly(s)
  \/ \E outcome \in Outcomes : WorkerExit(s, outcome)
  \/ Cleanup(s) \/ Report(s) \/ ReportFails(s) \/ TaskCancelled(s)
  \/ FinalSave(s) \/ FinalSaveFails(s) \/ Dump(s)

Operator(s) ==
  \/ Trigger(s) \/ Cancel(s) \/ PurgeScan(s)
  \/ \E expected \in {-1, scans[s].rev} : TriageCommit(s, expected)

Request(q) ==
  \/ ListStart(q) \/ ImportSave(q) \/ ImportDone(q) \/ ListCopy(q) \/ ListCommit(q)
  \/ \E s \in Scans : DetailsStart(q, s) \/ ImportCheck(q, s)

Serving ==
  \/ \E s \in Scans : Task(s) \/ Operator(s) \/ ProgressCopy(s) \/ ProgressCommit(s)
                        \/ Erase(s)
  \/ \E r \in returning : TriageReturn(r[1], r[2])
  \/ \E q \in Requests : Request(q)

Next ==
  \/ up /\ Serving
  \/ ~up /\ ((\E s \in Scans : RecoverRow(s)) \/ Serve)
  \/ Crash

Spec == Init /\ [][Next]_vars

\* The event loop runs every ready task, subprocesses end within the 360 s
\* wall-clock budget, and a start-up that is not interrupted finishes.
Fairness ==
  /\ \A s \in Scans : WF_vars(up /\ Task(s))
  /\ WF_vars(~up /\ ((\E s \in Scans : RecoverRow(s)) \/ Serve))

FairSpec == Spec /\ Fairness
-----------------------------------------------------------------------------
(* Every document that some part of the service holds outside a transaction *)
(* and that carries a decision; start-up holds the running rows it read.    *)
Held ==
  {<<s, tracked[s]>> : s \in Scans}
    \cup (UNION {request[q].refs \cup {<<request[q].scan, request[q].doc>>} : q \in Requests})
    \cup returning
    \cup {<<s, scans[s]>> : s \in IF up THEN {} ELSE Scans}

Repo == INSTANCE ScanRepository WITH
  copies <- {<<h[1], [rev |-> h[2].rev, decided |-> h[2].decided]>> :
               h \in {g \in Held : g[2].rev > 0}},
  planCopies <- {},
  accepted <- [s \in Scans |-> {}]

(* The service uses the repository only in the ways ScanRepository allows:  *)
(* whatever the task, its orphaned threads, the requests and the start-up   *)
(* save is a new document or one read before with its decisions untouched,  *)
(* so the durability of decisions carries over to the whole service.        *)
ImplementsRepository == Repo!Spec

(* No interleaving of saves, imports, triages and restarts loses a decision *)
(* of a scan that was not purged, and no decision is applied to the row     *)
(* without its place in the history.                                        *)
DecisionsSurvive == Repo!DecisionsDurable

(* Every worker process belongs to an entry of ACTIVE_SCANS that counts as  *)
(* running, so the capacity check of trigger_scan bounds the processes even *)
(* after evictions, cancellations, timeouts and restarts (app.py:3757-3766, *)
(* jobs.py:182-199).                                                        *)
SlotSafety ==
  /\ Processes \subseteq {s \in Running : tracked[s] = LiveRef}
  /\ Cardinality(Processes) <= MaxRunning

(* While requests are served, a row that says running belongs to a task of  *)
(* this run of the server: none is left over from before a restart          *)
(* (app.py:564-573).                                                        *)
RunningRowsOwned ==
  \A s \in Scans : up /\ scans[s].status \in Active => live[s] # "none"

(* A scan whose task was launched reaches a final status, unless the server *)
(* stops or the task itself is cancelled.                                   *)
LaunchedScanEnds ==
  \A s \in Scans :
    worker[s] = "queued" ~> live[s] # "running" \/ worker[s] \in {"unwinding", "gone"}

(* A cancellation accepted while the worker process runs is honoured: the   *)
(* scan never goes on to report a result (jobs.py:148-152,167).             *)
CancelTakesEffect ==
  \A s \in Scans :
    worker[s] = "analysing" /\ s \in cancelled
      ~> live[s] \in {"cancelled", "error"} \/ worker[s] \in {"unwinding", "gone"}

(* A restart, however often it is interrupted, ends with no running row and *)
(* the service available.                                                   *)
RestartRecovers == ~up ~> up

(* "Transactional authoritative metadata; preserve an original final        *)
(* snapshot" (app.py:3732), and worker snapshots do not overwrite what is   *)
(* newer: once a scan's stored status is final it does not return to        *)
(* running.                                                                 *)
FinalStatusSticks ==
  [][\A s \in Scans : scans[s].status \in Final => scans'[s].status \notin Active]_vars

(* "A stale preserved legacy snapshot cannot resurrect a purged record"     *)
(* (tests/test_transformation_regressions.py:144): a purged identifier has  *)
(* no row again.                                                            *)
PurgedStaysPurged == \A s \in tombstones : ~HasRow(s)

(* "deletes: scan output" (app.py:1878): when a purge request has finished, *)
(* no dashboard.json of the scan is on disk.                                *)
PurgedOutputGone == \A s \in tombstones \ erasing : file[s] = "none"
=============================================================================
