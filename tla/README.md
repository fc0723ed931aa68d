# A TLA+ verification of MobileAg

MobileAg (`src/mobileag`, Python, FastAPI) is a local-first workbench for reviewing mobile
applications: an operator uploads an archive, an isolated worker analyses it, an analyst triages the
findings, and dedicated devices may be driven through explicitly approved actions. Two things are hard to
test in it. One is state that requests, background tasks, threads, worker processes and restarts all change:
scans, decisions, plans, runs, sockets, devices. The other is what the sequential analysis says of itself: it stops at
limits, passes files over and survives failures, and its statuses must not claim more than it did. These modules
model both.

## 1. Inventory

| component | state | operations | hard behaviours | module |
|---|---|---|---|---|
| scan repository (`web/repository.py`) | SQLite tables scans, decisions, test_plans, tombstones | save, get, page, triage, history, get/save_test_plan, purge | read-modify-write by callers that keep documents; concurrent editors; purge across tables | `ScanStore`, `ScanRepository` |
| scan service (`web/app.py`, `web/jobs.py`) | `ACTIVE_SCANS`, `PROCESSES`, `CANCELLED`, one background task and worker process per scan, `<output>/<scan>/dashboard.json` | run, retry, cancel, list, details, feedback, purge, start-up recovery | event loop against thread pool, orphaned threads, cancellation against exit, crash, two worker slots, eviction | `ScanService` |
| automation (`automation/`) | run documents in SQLite, `busy` devices, one task per executing run | create, observe, import captures, execute, cancel, recover | whole documents written back after awaiting a device; one driver per device; cancellation; interruption | `AutomationRun` |
| guided assessment (`assessments/`) | assessment document, one task at a time, saved policy | create, run (static, API, device, model stages), cancel, pairs, probe, recover | a 480 s budget that cancels whatever it awaits; handlers that swallow; a probe that may send three requests, ever | `GuidedAssessment` |
| device routes and jobs (`web/app.py`, `web/console_routes.py`, `dast/`, `web/security.py`, `web/policy.py`) | policy, session, `DAST_JOBS`, settings and files of a device | some forty diagnostics, dynamic assessments | scope withdrawn between two commands; two requests on one device; failure half way | `DevicePrograms`, `DeviceAccess` |
| telemetry (`web/app.py`) | places, entries, tokens, subscriptions | connect, authenticate, broadcast, leave | limits checked around awaits, broadcast over a copy | `Telemetry` |
| capture proxy (`dast/mitm_proxy.py`) | clients, bounded buffer, listening port | start, stop, serve, record | stop while clients run, start during stop | `CaptureProxy` |
| live logs (`dast/logcat_stream.py`) | one logcat process per socket | stream, handle, end | scope that ends while the stream sleeps or sends | `LogStream` |
| orchestrator, coverage ledger (`core/`, `reporting/coverage.py`) | scan state, engine map, coverage records | stages, two dozen analyzers, ledger, artifacts | one of many steps fails or stops at a limit | `StaticCoverage` |
| smali taint (`analysis/call_graph.py`) | worklists, facts, limits | fixed points over methods and registers | order of visits, limits, joins | `SmaliFlow`, `RegisterFlow` |
| source taint (`analysis/taint_engine.py`, `java_ast_taint.py`) | bindings, summaries of methods | read, summarise, parse, prune | nested bindings, rounds, limits | `SourceTaint` |
| filters, votes (`filters/`, `llm/consensus.py`, `llm/router.py`) | stages and scores of a candidate | four heuristics, routing, vote, ranking | heuristics that are off or fail, told apart by words | `CandidateReview` |
| model broker (`llm/broker.py`) | attempts of one review | review with one fallback | throttled, revoked, cancelled between attempts | `ModelBroker` |
| extraction (`ingestion/`, `security/archives.py`) | digest, tool logs, class inventory | hash, validate, two tools, count, compare | the file changes between steps; logs in chunks; limits | `Extraction` |
| iOS review (`analysis/ios_analyzer.py`, `macho_parser.py`, `privacy_manifest_auditor.py`) | parsed executable, manifests, frameworks | unpack, parse, compare | limits, universal files, manifests of several bundles | `IosReview` |
| the rest | see section 7 | | | |

How they interact. `app.py` runs one event loop. A request handler is interleaved with others only at an
`await`; `asyncio.to_thread` runs repository calls in threads, which go on when the awaiting coroutine is
cancelled. `trigger_scan` reserves an entry of `ACTIVE_SCANS`, saves it and adds the background task; the
task and `ACTIVE_SCANS` share one dictionary, which every progress event and every list request hands to
`ScanRepository.save`. The task awaits `isolated_analysis`, which runs a process and two reader tasks; in it the
orchestrator extracts the archive, runs the analyzers side by side, ranks, generates and writes, and `result.json` is all
that comes back. The assessment service calls the scan service, the automation service and the broker in-process, under its own time
budget, and its creation replaces the scope policy that the device routes consult. `lifespan` recovers all three stores before the first request.

What makes each correct: decisions and plan edits survive every interleaving (repository); the row of a scan
tells the truth about its task, at most two workers run, a cancellation is honoured, purged means gone
(service); one driver per device, no input after a cancellation, evidence kept (automation); stages tell what was done and
nothing starts outside session, scope and consent (assessment, device routes, logs); limits are exact and given back
(jobs, sockets, buffers); a status, digest, rank or receipt claims no more than the work behind it (everything in the
worker). `PROJECT.json` lists every component with its status and every hazard at its line.

## 2. Modules

| module | models | source |
|---|---|---|
| `ScanStore` | the tables and transactions, one operator per transaction | `repository.py` |
| `ScanRepository` | **abstract specification**: `ScanStore` used by arbitrary callers that hold copies of documents (`copies`) and plans (`planCopies`) for as long as they like | `repository.py` |
| `ScanRepositoryProofs` | its theorems | |
| `ScanService` | the lifecycle over `ScanStore`: task, threads, worker, requests, crash, start-up | `app.py`, `jobs.py` |
| `ScanServiceProofs` | its types, slots and running rows for every instance; that it implements `ScanRepository` | |
| `AutomationRun` | runs, devices, coroutines, shutdown, start-up | `automation/`, its call by `assessments/service.py` |
| `AutomationRunProofs` | its safety for every instance | |
| `GuidedAssessment` | create, the run as a list of awaits with their failures, cancel, pairs, probe, restart | `assessments/`, `reporting/coverage.py` |
| `GuidedAssessmentProofs` | its safety for every instance | |
| `DevicePrograms` | what each diagnostic does to a device, as a program of commands | `dast/` |
| `DeviceAccess` | the routes, their guard, jobs, commands and what they leave behind | `app.py`, `console_routes.py`, `security.py`, `policy.py` |
| `DeviceAccessProofs` | its types, jobs, scope and leftovers for every instance | |
| `Telemetry`, `CaptureProxy`, `LogStream` | one protocol each | `app.py`, `mitm_proxy.py`, `logcat_stream.py` |
| `SessionsProofs` | the safety of the three for every instance | |
| `StaticCoverage` | the static scan: analyzers with their troubles, engines, coverage, phase, files, result, ledger | `core/`, `analysis/`, `reporting/coverage.py` |
| `SmaliFlow` | the fixed point over methods | `call_graph.py` |
| `RegisterFlow` | the fixed point inside one method | `call_graph.py` |
| `SourceTaint` | taint in Java and Kotlin files, lexical and parsed | `taint_engine.py`, `java_ast_taint.py` |
| `CandidateReview` | filters, votes, ranking | `filters/`, `llm/` |
| `ModelBroker` | a review by a model | `llm/broker.py` |
| `Extraction` | APK extraction and bundle inventory | `ingestion/` |
| `IosReview` | the review of an iOS archive | `ios_analyzer.py`, `macho_parser.py`, `privacy_manifest_auditor.py` |
| `Evidence` | `Extraction`, `SourceTaint` and `IosReview` side by side, as they share nothing: `EvidenceHonest` | |
| `EvidenceProofs` | the truth of the three records for every instance | |
| `Analysis` | all parts of the analysis of a scan side by side: `which` says whose turn it is | |
| `AnalysisProofs` | the safety of `SmaliFlow`, `RegisterFlow`, `StaticCoverage`, `ModelBroker`, `CandidateReview` and of `Analysis` as a whole, for every instance | |
| `MCScanRepository`, `MCScanService`, `MCAutomationRun`, `MCDeviceAccess`, `MCAnalysis` | values of the constants | |
| `MCProgress`, `MCSessions` | several components that share no state, side by side in one run: a variable says whose turn it is, and the others stay where they start | |

Correspondence. Every writing method of the repository opens `BEGIN IMMEDIATE` (or writes a single row), so
each is one operator of `ScanStore`. A document keeps three things: status, revision, and the set of
decisions whose verdicts its findings carry (`decided`); this tells apart any two documents the code treats
differently. Findings, notes and evidence are data; the sizes and redaction of a document are left out except
that a save may fail where the failure changes the control flow (`FinalSaveFails`, `TriggerLost`).
A test plan keeps its revision and whose edits it contains; the artifact and package binding of a plan,
and its retest baseline, only refuse more and are left out. `EditPlan` therefore allows more than the code.

In `ScanService` the variable `worker[s]` is the program counter of the task of scan `s`, `live[s]` the status
in the dictionary it mutates, `tracked` is `ACTIVE_SCANS` (`LiveRef` when the entry is that dictionary, a
document when a triage replaced it), `snapshot[s]` a progress save that has copied and not yet committed,
`request[q]` a list or detail request, `returning` the triages whose handler has not resumed, `erasing` the
directory removals. Scans are numbered in the order of `trigger_scan`, which is the insertion order that eviction
uses; a retry is a trigger under a new number. Some numbers may be legacy scans, known from a
`dashboard.json` only. A step is the code between two awaits, with two refinements: a repository call in a thread is split where
it copies the caller's dictionary from where it commits, because the dictionary may change in between, and
the import's read of row and tombstone is split from its save, because the code uses several transactions.
An orderly shutdown adds every process to `CANCELLED` and then stops; it is a sequence of `Cancel` steps and a
`Crash`.

In `AutomationRun` every coroutine has a record in `job`: what it is, its run, the document it holds, where it is
in the batch. `Persisted` is `persist`, which overwrites the stored document with that copy and takes over only the
cancellation flag. Revisions are left out, because each comparison is made in the event-loop step that
reads the stored document (`persist` even reads the expected revision itself): they refuse an operator whose
page is stale and order nothing between coroutines. Budgets (steps, requests, 120 s) appear as choices: a
batch may pass over cases, turn to the cases early, or stop. The 1 MiB limit of a run document is assumed not
to be reached, so that the `persist` in the task's `finally` does not raise.

In `GuidedAssessment` a run is the list of what it still awaits (`todo`), because everything between two awaits is
persisted before the second; `Otherwise` says what may come of an await, `Verdict` how the run goes on, `Noted` what the
document keeps, `Admits` which check precedes it, `Swallows` which handlers turn everything but a denied scope into an
observation that is missing. `sent` counts the requests of the authorization probe over the life of an assessment.

In `DevicePrograms` a diagnostic is a sequence of commands, each with how far the method goes on when it is done
and when it failed (`Then`, `Need`, `Find`, `Until`, `Either`); loops over what a device lists are cut to one round, since
more rounds issue the same commands under the same guard. `DeviceAccess` runs such a program: a step is a check and the
command it admits, or a command's end with all that the handler computes up to its next check. The texts of commands are
abstracted to what they change: a proxy setting, the dump file, a temporary certificate, or nothing that outlives them.

In `StaticCoverage` an analyzer is the ordered list of clauses that decide its status, with what it loses silently; a scan is
which troubles are met, and its status follows. That keeps what the ledger, the engine map, the phase and the result make of
it, and abstracts what each analyzer looks for. `SmaliFlow` takes from a method the edges from places to places that one run of it
finds; `RegisterFlow` is how it finds them. `SourceTaint` keeps the bindings of variables by block, the summaries of methods and
the limits; which texts are sources and sinks is data. Its last part says, without stacks or copies, what executions of
a method do (`Execution`): a variable is a name with the declaration in whose scope it stands (`Home`), and an execution leaves out a set of blocks. `CandidateReview` keeps of a reason whether it contains one of the words
the pipeline looks for, scores are in thousandths. `Extraction` and `IosReview` take a file as the sequence of what their readers
distinguish: classes, directives, log chunks, load commands, names, manifest entries. What their loops compute is said as sets and functions
of the positions read: the cuts that one chunk makes in a log (`Cuts`), the classes that only one side has (`Missing`, `Extra`), the names of
a list as a function from where they stand, in the order of reading (`Before`), cut where the limit is reached (`Cut`). A loop's
early exit is then a condition on how much lies before a position, which is what the properties and the proofs need of it.

Operators named for a defect (`SaveUnconditionally`, `EvictOldest`, ...) are not used by any action. Each is a
plausible mistake in the definition that follows it, and substituting it makes the property named in
`PROJECT.json` fail: that is how we know that the property depends on the code.

## 3. Runs

| run | instance | what it shows |
|---|---|---|
| `repository` | 1 scan, 2 editors (symmetric), 3 revisions | `DecisionsDurable`, `PlanEditsKept`, `NothingOutlivesTheRow` for callers with any copies |
| `service` | 1 scan, 2 requests, 2 decisions, 1 crash | `DecisionsSurvive`, `RunningRowsOwned`, and that the service **refines** `ScanRepository` (`ImplementsRepository`) |
| `slots` | 3 scans, 2 slots, `ACTIVE_SCANS` of 2 | `SlotSafety` |
| `progress` | part scan: 1 scan, 1 request, 1 crash. Part assessment: 2 assessments with several selections, 3 scopes, 1 restart. Fairness | `LaunchedScanEnds`, `CancelTakesEffect`, `RestartRecovers`; `StagesTruthful`, `CancelExplained`, `NothingStartsOutside`, `SlotKept` |
| `automation` | part automation: 2 runs on 1 device, 2 coroutines, 1 restart; parts telemetry, capture and logs. Fairness | `DeviceExclusive`, `RunningRunOwned`, `NothingIssuedAfterCancel`, `NothingRepeated`, `EvidenceKept`, `BatchEnds`; `TelemetryKept`, `CaptureKept`, `LogsKept` |
| `device` | every route beside a second request that dumps the screen, sets the proxy or runs a job; 2 devices, 1 package, 2 policies, 1 job. Fairness | `JobSlotExact`, `CommandsInScope`, `LeftoversExplained`, `RequestsEnd` |
| `analysis` | eight parts: scan, flow, registers, review, broker, source, extract, ios | `LedgerHonest`, `PhaseTellsTruth`, `FlowsClosed`, `NoWayForgotten`, `RankedByEvidence`, `EgressAccounted`, `SourcesFollowed`, `EvidenceHonest` |
| `final_status`, `purged_row`, `purged_output`, `imports`, `device_limit` | small instances of the above | five disagreements between code and its own comments, tests or limits (section 6) |

Each run also checks the types of its modules (`TypeOK`, `AnalysisTypeOK`; for assessments, telemetry, capture and logs as a
conjunct of `SlotKept`, `TelemetryKept`, `CaptureKept`, `LogsKept`).

Why the bounds are enough. Scans do not share state except through the slots and the eviction, so one scan
shows every interleaving of saves, triages, purges and imports on a row, and the three scans of `slots` show
a third waiting for two slots with an `ACTIVE_SCANS` that has to evict. The theorems of section 4 hold for any number of them, as those about the other components do for their constants. Two requests allow one to hold a stale document while the
other imports or saves; three revisions allow a stale copy to be two behind. `slots` leaves out decisions,
requests and progress saves (state constraint `SlotsOnly`): a triage replaces an entry by a document, and why that
never takes the entry of a worker away is part of the theorem `SlotsBounded`, which has all of them. Two coroutines are what one device needs for a
conflict, and a third device with a third coroutine is what the device limit needs. One crash suffices since the
state after a recovery is a state before a crash.

Two assessments compete for the one slot; the first may select every stage, among them the second provider, and the scope
may keep everything, only the device or nothing. Two device requests are what a leftover or a foreign screen needs, and one
of them takes every route; one job place with two jobs shows the limit, two devices that a job does not release another's.
Telemetry has three sockets for two places beside one broadcaster; the proxy three clients, each once, for two places, a buffer of two
transactions and four units, transactions of one, two, three and five units (so that one forgets two, and one never fits);
two log streams of two lines, one per second. A scan meets at most two troubles (`TroubleLimit`): a status is decided by
one trouble and hidden by at most one other, since a ledger entry and an engine each look at one clause at a time.
`flow` has all applications of three methods whose edges are subsets of eleven, with methods that have no body or are too large, five facts, three flows and
twelve runs, so that each limit is reached; `registers` all methods of six instructions with a branch, two of twelve moves, one of five results, a sink and one of six
ends, among them a loop; the property looks at ways of up to sixteen steps (`MaxWay`), after fourteen of which no way of these methods carries anything new. `review` has five settings and two candidates; `broker` two reviewers and two providers;
`source` some thousand files of one or two blocks and of up to four methods that call each other, five summaries and two
rounds. In `extract` lines are two bytes, logs four, chunks three, class lists and walks three entries, and one replacement of the
file may happen at any point; in `ios` the limits are three symbols, two names, three entries, two manifests, three bytes of manifests, two categories of a
manifest and of a walk, two frameworks and four bytes of frameworks, with up to three frameworks, so that each is below, at and above its limit. These
limits stand for the code's 20 000 instructions, 2 000 symbols and the like, which are compared in the same places.

Deadlock is checked in `repository` and `service` and the runs of section 6 about scans. It is not in the others, which really come to rest: `slots` has no
requests and no restart; a batch, assessment, socket, device request or analysis ends and nothing follows.

Fairness. Weak fairness of each scan task: the loop runs ready tasks, every await of the task ends (a
subprocess is killed after 360 s, SQLite waits 10 s). Weak fairness of start-up. Nothing is assumed of the
operator, requests, orphaned threads or progress events. In `AutomationRun`, weak fairness of each executing
coroutine, because each device call has its timeout and the batch one of 120 s, and of start-up. In `GuidedAssessment`, of each run, whose
budget of 480 s ends every await. In `DeviceAccess`, of each request's handler, because every command has a time limit. In
`Telemetry`, of each handler (five seconds for a handshake, 30 for a turn of its loop), not of clients or broadcasts. In `CaptureProxy`,
of serving clients, which 15 s end, and of the steps of start and stop, not of requests to start or stop. Nothing is assumed of the closing of a
client's socket, which has no time limit, nor that a stop reaches its cancellation while clients are there, because since Python 3.12
`server.wait_closed` waits for them: that a stop ends is promised if the sockets close (`SocketsClose`). In
`LogStream`, of awaited sleeps and sends and of the time limit of 300 s. In the composed runs each is
conditioned on its part. The analysis has no liveness property: it is sequential, and its loops are bounded by limits that the types state.

## 4. Proofs

`ScanRepositoryProofs` proves for every set of scans, every set of editors and every bound: `TypeCorrect`,
`Durability`, `NoLostEdit`, `PurgeIsComplete` and `VerdictsStay`. The only assumption is
`MaxRevAssumption` (`MaxRev \in Nat`).

`DecisionsDurable` is not inductive: a save of a copy could bring any verdicts. The strengthening `IInv` adds
`CopiesFaithful`: a held copy of revision *n* carries exactly the decisions 1..*n* and is never newer than the row;
therefore when `save` accepts a copy (its revision is at least the stored one) it is equal to the row in its decisions.
`PlanEditsKept` needs `PlanCopiesFaithful`: an open plan with the stored revision has the stored edits, so that
replacing the plan by base plus one edit is the same as adding the edit. The proof has one lemma per action and
part (`SaveKeepsDecisions`, `DecideEffect`, `RowStep`, `PlanStep`) and `Inductive` collects them. `IInv` was model-checked
before it was proved.

`ScanServiceProofs` is about the scan lifecycle for every number of scans, slots, tracked entries, requests and
restarts, under `ServiceAssumption` (the bounds are naturals and the scans are 1..`NScans`):

- `TypeCorrect`. `TInv` adds `LiveOwned`: as long as a task, an entry of `ACTIVE_SCANS` or a reference held by a
  request refers to a dictionary, the dictionary exists.
- `SlotsBounded` (`SlotSafety`). `SInv` says of a scan that was never triggered that nothing in the service knows it
  (`Unknown`), and of one whose task still needs its slot (`Busy`) that its entry is its own dictionary, which says
  running, as does its row and everything requests hold of it (`Owned`). So it is not evicted (eviction takes
  entries that are not running), not triaged (the row is active, hence no triage replaces the entry), not purged and
  not imported (it has no file). `Settled` says that entries replaced by a triage never count as running. The size
  of `Running` is bounded because only `Trigger` adds to it, by one, after its check in the same step.
- `RunningRowsStayOwned` (`RunningRowsOwned`). `RInv` traces each possible source of a running row: progress
  saves belong to a task of this run; a request only holds the document of a dictionary or of a triage; a
  `dashboard.json` that says running was written after a final save, hence its scan has a row or a tombstone and is not
  imported.

The last part of the module proves `RepositoryRefined`: `Spec => ImplementsRepository`. The mapping takes as `copies`
every document with a decision that some part of the service holds (`Held`). `FInv` says that documents of revision 0
carry no verdict, so that saving one is saving a new document. `Saves` maps each save, `Reads` each step that
only passes documents on, and there is one lemma per group of actions. From it and `Durability`, instantiated with the
mapping, follows `DecisionsNeverLost`: the decisions of the whole service are as durable as those of the abstract one.

The invariants `SInv` and `RInv` were model-checked on the instances of the runs before they were proved.

`AutomationRunProofs` is about the automation for every number of runs, devices, coroutines, actions, captures and restarts. `Typed`,
`DevicesExclusive` and `RunningRunsOwned` follow from `IInv == TypeOK /\ DeviceExclusive /\ AllWork /\ RunningRunOwned`. `AllWork` is
why whole documents may be written back: whoever drives a device holds it alone, and the document it works on has recorded
exactly what the stored one has (`Works`), for a batch even everything but the cancellation flag. A step begins a coroutine, lets it go on,
ends it, edits a resting document, or stops or starts the server; there is one lemma for each of the first three (`Begins`,
`GoesOn`, `Ends`). From the same invariant follow the action properties: `CancelStops` (no input or request once a cancellation
is stored), `NeverRepeated` and `EvidenceIsKept`.

`DeviceAccessProofs` is about the device routes for every number of requests, devices, packages and policies, under `ScopeAssumption`.
`JobSlotsAreExact` (`JobSlotExact`) follows from `IInv`, which says per request what the property says of the whole set: who holds a
device is in `DAST_JOBS`, every device in it has a holder, and no two requests hold one; so the request that ends gives away its own. There is
one lemma for a request that holds nothing (`OtherIInv`), one for an assessment that goes on or ends (`JobIInv`) and one for its
acceptance. `NothingOutOfScope` (`CommandsInScope`) shows that the only steps that start a command have just passed the guard
(`IssueGuarded`), and that the guard covers what the property asks (`GuardCovers`). The guard lets the action *connect* through without looking at
devices, so it takes the table of routes: none that connects names a device (`ConnectOnHost`).

`NothingLeftUnexplained` (`LeftoversExplained`) and `RequestsTyped` (`TypeOK`) rest on a second invariant, `LInv`, that says of each device and of
the host who is responsible for what is on them. For a request under way it names the commands it may still have before it
(`Typed`, `TodoOf`), so that what is left to do is known whatever failed before. For a device `ProxyInv` says that a request that lost its
scope or met a failure explains its settings, or else that they are all three, none, or as far as the changes under way say
(`Progress`); `DumpInv` says that the hierarchy file belongs to a request that has still to remove it, or could not.

`GuidedAssessmentProofs` is about guided assessments for every number of assessments, selections and restarts. The list `todo` of what a run still
awaits is always a tail of the list it began with, in a fixed order (`Order`); `IInv` says of a document what lies behind
(`Behind`: every selected stage before the current one ended and how), of a document that has ended that no stage is open (`Ended`),
of the probe that attempts, requests sent and the result of the comparison agree (`Probed`), and that the slot is held exactly while
the coroutine of a run exists (`Tasked`). From it follow `StagesTold` (`StagesTruthful`), `CancelRespected` (`CancelExplained`) and `NothingOutside`
(`NothingStartsOutside`, which is stated of what a run turns to next, whatever that is, but for the scan it has linked and the
bookkeeping at its end). `SlotHeldOnce` gives the safety part of `SlotKept`; it takes `Restarts \in Nat`.

`SessionsProofs` has three parts. For the telemetry sockets, for every finite set of sockets and every number of scans, broadcasts and
places: `PlacesAreExact`, `OwnScanOnly` and `NothingAfterTheEnd`, the safety part of `TelemetryKept`. The invariant adds that the three
collections of the manager name the same sockets; without it a broadcast that took its copy earlier could meet a token
without a subscription. For the capture proxy `ClientsAreExact`, `ScopeIsKept` and `BufferIsExact`, the safety part of `CaptureKept`, for every finite set of
clients, all limits (at least one transaction) and any sizes: the invariant adds that a proxy whose port is being opened has its scope. The
bytes in the buffer are counted as the set of pairs of a transaction and one of its bytes, hence what a transaction adds (`TotalOfAppend`)
and what the oldest take with them (`TotalOfNewest`) follow from theorems on finite sets; that a fewest number of transactions to forget
exists (`TooOldIs`) is the least-number principle, and that the run kept is again the longest one follows from both limits being monotone. For the live logs `NoLogcatLeft` and
`SentOnGrantOnly`, the safety part of `LogsKept`, for any streams and limits of at least one: `LogInv` adds that a stream which has not yielded its last
record has room for another.

`AnalysisProofs` takes five parts of the analysis one by one, and then the whole.

- `SmaliFlow`. `FlowsAreClosed` (`FlowsClosed`) for every application, whatever the limits and in whatever order
  methods are taken from the worklist: a call graph that says *bounded* has nothing left to find. The invariant says that a method off the
  worklist has passed on all it can, unless a limit was reached or it was skipped. `HeldWithinLimits` (`sfTypeOK`): for finite
  applications (`GraphGiven`) no more is held than the limits allow; `HeldInv` adds that what is held is finite.
- `StaticCoverage`. `LedgerTold` (`LedgerHonest`) and `PhaseTold` (`PhaseTellsTruth`), for any `TroubleLimit`: the runs let a scan meet two
  troubles, the theorems any number. `CoverageInv` has three parts: `Looked` relates the coverage record of each analyzer to the troubles it
  met, through the order of its clauses; `Told` says that an engine says what the record says and that who raised is in the errors;
  `Kept` relates phase, files and result.
- `ModelBroker`. `EgressNamed` (`EgressAccounted`), for any number of reviews: `BrokerInv` knows the only two shapes of a review that
  waits (`Waits`), one request and no attempt recorded, or two requests and the first recorded as throttled.
- `RegisterFlow`. `NoWayIsForgotten` (`NoWayForgotten`), for every method (`BodiesAreCode`: what makes a list of instructions a method) and every bound
  `MaxWay` on the length of ways. `FlowInv`: every instruction reached is on the queue, or all that its last visit leaves is known at each of its
  successors and noted. The proof then has two halves. The effect of an instruction is monotone in what the registers hold (`PutsGrow`,
  `NotesGrow`), but for the reading of array elements, which is where `Hidden` is needed. And what a way carries is below what is stored before each of its
  instructions, by induction over the way. The induction theorems of the library cannot be used with an operator as argument, so it goes
  by the least index at which the claim fails (`Least`, from the well-foundedness of `<` on the naturals).
- `CandidateReview`. `EveryCandidateRanked` (`RankedByEvidence` and `crTypeOK`), for any number of candidates and any settings. `ReviewInv` says of the
  candidate under review what the property says of the one ranked last, and that routes and questions stay within the providers that have a key, are
  approved, and exist only online.

- `Analysis`. `AnalysisTrue` says of the composition what the run `analysis` checks of it, `AnalysisTypeOK` and the eight properties together. Its
  invariant `AnalysisInv` is the conjunction of those above and of `EvidenceInv`; a step of one part leaves the others' variables alone, so each conjunct is kept by
  the lemma of its own part. `AnalysisGiven` asks for finite applications, methods that are code, two limits that are naturals, and
  that there is a method, a directory, a package and an archive to begin with.

`FlowInv`, whose proof is the longest of these, was model-checked on all methods of the run before it was proved.

`EvidenceProofs` is about the extraction, the sources and the iOS review, for all inputs and all limits; `ExtractionInputs`,
`SourceInputs` and `ArchiveInputs` only say what kind of data they are (logs, class lists, statements and names are sequences of any length,
limits are naturals, no block of a file is closed that was not opened, a line has room for one byte, a file that is
not universal is one slice). `EvidenceTrue` (`EvidenceHonest`, `SourcesFollowed`) and `EvidenceTyped` (`evTypeOK`) combine what is proved of each:

- `Extraction`: `ExtractionTrue` and `ExtractionTyped`. What is recorded at the end depends on all that was read before, so `ExtractionInv` has one
  part for each reader. `PipeHonest`: between two chunks the reader of a log stands at an end of a line or inside a line too long for its
  limit, and what it has passed without a mark contains no marked line of the whole log, wherever the chunks were cut
  (`ClassifiedPart`). `FilesHonest`: the file is replaced at most once, hence a digest that agrees twice means that nobody between
  saw the other one. `RecordHonest`: what was counted was counted of that file. Two lemmas on functions between finite sets then give what the
  statuses mean: equal numbers of distinct names, with nothing missing and nothing extra, is a one-to-one match
  (`Represented`), and a mismatch names an entry that has none.
- `IosReview`: `ReviewTrue` and `ReviewTyped`. The parser's results are not built step by step but computed at once, so most of the proof is what
  they say of the file. `CutIs`: a list that is cut holds as many names as the limit, or all of them; it goes by the least position at which
  the limit is exceeded. `JoinedIs`, `MergedList`: the list of a universal file has the names of its slices, which is why a list filled by two slices
  together is not told. `SymbolsTold`, `SwiftTold` and `ThinTold` say what each status of a slice means, `ThinHonest` and `FatHonest` the same of
  a file, and `FrameworkAudited` that the manifests behind a framework that is called analyzed are all its own, read in full. `RootKept` says what becomes of the
  application's manifest: what is kept of it is declared, and within the limits on categories all of it is kept. `IosInv` says what the steps add: until an error or a limit is noted,
  there is one row for each framework met, and it is the row of that framework.
- `SourceTaint`: `SourcesTrue` (`SourcesFollowed`). The property compares what the two readings compute with the executions that the file has, so
  most of the proof relates one to the other, statement by statement.
  *Statements in order.* Of the stack of each variable: every binding was made by a statement whose block is still open, and what such a statement gave is
  still bound (`Founded`); a declaration whose block is open is bound or lies under all that is, and above the first binding there are only declarations (`Layered`, broken
  by a declaration without a value, hence `HiddenUnvalued`); bindings in blocks are declarations (`Outer`, from `FirstOutside`). Then what is in sight
  (`Now`) is what the execution of every block holds (`Is`), not only at the present depth but at every smaller one, since that is what comes to light when blocks end
  (`Sound`, `Complete`).
  *Tree.* What it takes for tainted, some execution holds (`TreeSound`), and the other way round (`TreeComplete`). The environment at the end of a block is
  joined with the one before its beginning, so the induction is over all earlier statements, and it speaks of the executions in which no block that is left out is still open
  (`Free`): leaving the ended block out gives what was before it, executing it gives what was at its end.
  *Summaries.* A round adds only what is carried (every set that has the direct carriers and is closed under calls has it), and a round that adds
  nothing, and for which there was room, has found a closed set (`FixedIsClosed`). The code passes over calls of a method by itself (taint_engine.py:1083), which
  costs nothing unless parameters change places in them (`Turns`).
  `SourceInv` carries this through the steps: while no limit is noted, the summaries of the file that is read are carried ones and contain the direct ones, they
  are closed when its statements are read, and every file before it is followed. All inductions over positions go through the least
  position at which a claim fails, as in `RegisterFlow`.

These invariants were model-checked on the inputs of the run `analysis` before they were proved. Stating the review for the proof
also corrected its property: the symbols of a file were said to be among those of each slice's last table, which is false of a
table that is followed by one cut off at the end of the command region; the property now says *of any table*, and only a
complete parse speaks of the last one.

The first statement of `SourcesFollowed` was corrected in the same way, by a proof that did not go through: it promised to find what overshadowed
names and parameters that change places in a method's call of itself carry, which the code does not follow; section 5 names both.

Only model-checked: all liveness, since fairness and ENABLED are out of the prover's reach.
`NothingRepeated` and `EvidenceKept` are proved of recorded steps; that a step is recorded is `EvidenceKept`'s subject only from then on.
That the models are faithful to the code is a matter of review, with the line numbers in `PROJECT.json`.

## 5. What is promised, and the exceptions

`DecisionsDurable` and `PlanEditsKept` exclude scans with a tombstone. This is not a
convenience: because of the run `purged_row` a purged identifier may have a row again, from a stale copy whose decisions
are gone from the history.

Where the code is known to do less than a reader would expect, the property names the exception instead of leaving the case out of the
model, so that it holds of everything else and fails when the exception grows:

- `LedgerHonest`: losses in `Unreported` (listings cut off, sources without index or parser, what a native library hides), and
  a manifest audit that raised takes its backup inventory along without the ledger missing it.
- `PhaseTellsTruth`: SARIF and SBOM that fail are only logged; a result too large is a failure although the phase says complete.
- `FlowsClosed`: says nothing of a status that is not *bounded*; a single method without a body ends the call graph, as the
  method's analysis returns two lists where six values are unpacked.
- `NoWayForgotten`: reading a tainted element of an array that also carries taint itself, or into the register of the array, whose elements the
  code drops (call_graph.py:964) before it looks for them (:967) (`Hidden`).
- `SourcesFollowed`: not found are variables that get their first value in a block, results of methods that are stored, calls among overloads and
  parameters that change places in a method's call of itself (taint_engine.py:1083); read wrongly are names hidden by a declaration without a
  value, and, in the tree, names declared in a block after it assigned them. The tree's status is that of the last file.
- `RankedByEvidence`: a score that a failed vote or an unparsed answer imputes, and words in a model's answer that make evidence count as missing.
- `EgressAccounted`: a review that its guard or a cancellation ends records no attempt, though it may have made one or two.
- `EvidenceHonest`: counts from a walk that its limit ended; markers in lines longer than the limit; a full list of symbols of a universal
  file; a root manifest with unreadable entries counts as parsed (ios_analyzer.py:668), and so does one whose categories, or those of all the manifests of the
  application, exceed the limits of 128 and 512 (privacy_manifest_auditor.py:293, :306): what it declares beyond them is reported as undeclared by a
  review called analyzed, and only the status of all the manifests, which is then never *parsed*, tells of it.
- `CancelExplained` and `NothingStartsOutside`: a cancellation swallowed while logs are read; the scan just linked; the discovery of screens.
- `LeftoversExplained`: leftovers of a request that overlapped another, lost its scope or whose command failed.
- `LaunchedScanEnds`: a scan task cancelled by the budget of an assessment saves *running*.
- `TelemetryKept`: a socket whose send failed loses its entry while its handler stays, hence open sockets may exceed the entries.
- `CaptureKept`: a client cancelled while it closes stays in the set of clients, so a place is lost (never one too many given);
  a proxy started again keeps the scope it was made with; and a stop may wait for ever for a client that never lets its socket close.

## 6. Disagreements found

1. `final_status`: a progress save whose reader was cancelled commits *running* after the final save; both
   have revision 0, and `save` lets an equal revision through. The row then refuses triage and purge until a restart.
2. `purged_row`: `list_scans` saves references it took before its thread started, and `save` does not look at
   the tombstones; `repository_import_legacy` checks row and tombstone in other transactions than it saves.
3. `purged_output`: the final save makes the scan purgeable before `dashboard.json` is written; the write
   recreates the purged directory.
4. `imports`: `persist` compares with the revision it has just read, hence never conflicts; captures accepted while
   `observe` awaits the device are overwritten.
5. `device_limit`: `observe` does not check the limit of two devices.

## 7. Not modelled

- Which texts are sources, sinks, sanitizers, secrets or dangerous calls (most lines of `analysis/`): a question of detection
  quality, not of state. What the model keeps of these analyzers is when they stop, what they pass over and what they say then.
- How each filter arrives at its score, and the requests of each model provider.
- The ZIP format and the limits of the archive validator; the text of commands, logs and screens; HTTP parsing in the capture proxy.
- Rendering of reports, generators, version diff, knowledge base, plugins and the command line: pure functions of one document, or one process with one command.
- The interactive session of `dast/shell_session.py`, `llm/fallback.py` and `ConnectionManager.connect`: nothing in the application calls them; their unit
  tests do, but there is no behaviour of the program to model. Of the shell session the console calls `run_one`, which is a program of `DevicePrograms`.
- When the 180 s of a job end during a crawl, one more command: the guarded removal of the file the crawl has made (ui_crawler.py:74-81),
  which has a name of its own and which no other request reads.
- `studio/jobs.py` and `dashboard/`: one flag and one count around a single awaited operation each. `reporting/artifact_writer.py`: a
  publication by rename is one step of the modules that write.
- Settings and policies tables (the last write wins) and headers, origins and tokens as text.
