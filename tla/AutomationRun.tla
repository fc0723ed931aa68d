--------------------------- MODULE AutomationRun ---------------------------
(***************************************************************************)
(* Authorized automation (src/mobileag/automation): an operator creates a  *)
(* run for one device, reviews what was observed, and approves a batch of  *)
(* exact actions and API cases that a task then executes.  Every coroutine *)
(* works on a copy of the run document and awaits the device between       *)
(* steps; a step here is the code between two awaits.  Revisions are left   *)
(* out: each is compared in the step that reads it, so a comparison only   *)
(* refuses an operator whose page is stale.                                *)
(***************************************************************************)
EXTENDS Naturals, FiniteSets

CONSTANTS Runs, Devices, DeviceOf,
          Coroutines,    \* bound: request handlers and tasks alive at once
          Actions,       \* unblocked controls found on the device
          Captures,      \* imported requests, each with one API case
          MaxBusy,       \* devices in use at once (2 in the code)
          MaxRestarts    \* bound: stops of the server

ASSUME AutomationAssumption ==
  /\ DeviceOf \in [Runs -> Devices]
  /\ MaxBusy \in Nat /\ MaxRestarts \in Nat
  /\ "back" \notin Actions \cup Captures

VARIABLES up, runs, targets, busy, job, restarts

vars == <<up, runs, targets, busy, job, restarts>>

Resting == {"awaiting_review", "paused", "completed", "cancelled", "interrupted", "error"}
Executable == {"awaiting_review", "paused", "completed", "interrupted"}
Controlling == {"running", "discovering"}

\* `done` is what the document records as executed: actions in steps, cases in
\* results.
Document == [status: Resting \cup Controlling, cancel: BOOLEAN,
             done: SUBSET (Actions \cup Captures), captures: SUBSET Captures]
NoRun == [status |-> "absent", cancel |-> FALSE, done |-> {}, captures |-> {}]

Idle == [kind |-> "idle", run |-> "none", doc |-> NoRun,
         pc |-> "none", todo |-> {}, op |-> "none", stack |-> 0]

TypeOK ==
  /\ up \in BOOLEAN
  /\ runs \in [Runs -> Document \cup {NoRun}]
  /\ targets \in SUBSET (Runs \X Captures)
  /\ busy \in SUBSET Devices
  /\ job \in [Coroutines ->
       [kind: {"idle", "create", "observe", "execute"}, run: Runs \cup {"none"},
        doc: Document \cup {NoRun}, pc: {"none", "ui", "api", "issued"},
        todo: SUBSET (Actions \cup Captures),
        op: Actions \cup Captures \cup {"none", "back"}, stack: Nat]]
  /\ restarts \in 0 .. MaxRestarts

Init ==
  /\ up = TRUE
  /\ runs = [r \in Runs |-> NoRun]
  /\ targets = {}
  /\ busy = {}
  /\ job = [c \in Coroutines |-> Idle]
  /\ restarts = 0

-----------------------------------------------------------------------------
Live(c) == job[c].kind # "idle"
Executing(c) == job[c].kind = "execute"
Free(r) == DeviceOf[r] \notin busy
Begin(c, r, state) ==
  /\ ~Live(c)
  /\ job' = [job EXCEPT ![c] = state]
  /\ busy' = busy \cup {DeviceOf[r]}
End(c) ==
  /\ job' = [job EXCEPT ![c] = Idle]
  /\ busy' = busy \ {DeviceOf[job[c].run]}

\* persist replaces the stored document by the caller's copy; the cancellation
\* flag alone is taken over from the stored one.
Persisted(r, doc) == [runs EXCEPT ![r] = [doc EXCEPT !.cancel = runs[r].cancel]]

rest == <<up, targets, restarts>>

CreateRun(c, r) ==
  /\ runs[r].status = "absent"
  /\ Free(r)
  /\ Cardinality(busy) < MaxBusy
  /\ \E imported \in SUBSET Captures :
       LET doc == [NoRun EXCEPT !.status = "discovering", !.captures = imported]
       IN  /\ Begin(c, r, [Idle EXCEPT !.kind = "create", !.run = r, !.doc = doc])
           /\ runs' = [runs EXCEPT ![r] = doc]
           /\ targets' = targets \cup ({r} \X imported)
  /\ UNCHANGED <<up, restarts>>

CreateDone(c) ==
  /\ job[c].kind = "create"
  /\ \E st \in {"awaiting_review", "paused"} :
       runs' = Persisted(job[c].run, [job[c].doc EXCEPT !.status = st])
  /\ End(c)
  /\ UNCHANGED rest

\* A guided assessment that is cancelled or out of time cancels the create it
\* awaits: only the device is given back.
CreateAbandoned(c) ==
  /\ job[c].kind = "create"
  /\ End(c)
  /\ UNCHANGED <<runs, rest>>

ObserveStartAnyTime(c, r) ==
  /\ runs[r].status \in Resting
  /\ Begin(c, r, [Idle EXCEPT !.kind = "observe", !.run = r, !.doc = runs[r]])
  /\ UNCHANGED <<runs, rest>>

ObserveStart(c, r) ==
  /\ runs[r].status \in Resting
  /\ Free(r)
  /\ Begin(c, r, [Idle EXCEPT !.kind = "observe", !.run = r, !.doc = runs[r]])
  /\ UNCHANGED <<runs, rest>>

ObserveDone(c) ==
  /\ job[c].kind = "observe"
  /\ runs' = Persisted(job[c].run, [job[c].doc EXCEPT !.status = "awaiting_review"])
  /\ End(c)
  /\ UNCHANGED rest

ObserveFails(c) ==
  /\ job[c].kind = "observe"
  /\ End(c)
  /\ UNCHANGED <<runs, rest>>

\* Importing a capture the run already has refreshes its URL, kept in memory.
ImportCapture(r, k) ==
  /\ runs[r].status \in Resting
  /\ runs' = [runs EXCEPT ![r].captures = @ \cup {k}]
  /\ targets' = targets \cup {<<r, k>>}
  /\ UNCHANGED <<up, busy, job, restarts>>

Claim(c, r, todo) ==
  LET doc == [runs[r] EXCEPT !.status = "running", !.cancel = FALSE]
  IN  /\ runs[r].status \in Executable
      /\ todo \cap Captures \subseteq runs[r].captures
      /\ {r} \X (todo \cap Captures) \subseteq targets
      /\ \A q \in Runs \ {r} : DeviceOf[q] = DeviceOf[r] => runs[q].status \notin Controlling
      /\ Begin(c, r, [Idle EXCEPT !.kind = "execute", !.run = r, !.doc = doc,
                                  !.pc = "ui", !.todo = todo])
      /\ runs' = [runs EXCEPT ![r] = doc]

ExecuteWhileBusy(c, r, todo) ==
  /\ Claim(c, r, todo)
  /\ UNCHANGED rest

Execute(c, r, todo) ==
  /\ Free(r)
  /\ Cardinality(busy) < MaxBusy
  /\ Claim(c, r, todo)
  /\ UNCHANGED rest

-----------------------------------------------------------------------------
(* The task of an execution.  Before it acts on the device or the network   *)
(* it reads the flag afresh; that, the check of session and scope and the   *)
(* issuing of the operation are one step.                                   *)

GuardPasses(c) == ~runs[job[c].run].cancel
At(c, pc) == Executing(c) /\ job[c].pc = pc
Issue(c, op) == job' = [job EXCEPT ![c].pc = "issued", ![c].op = op]

InputAgain(c, a) ==
  /\ At(c, "ui")
  /\ a \in job[c].todo \cap Actions
  /\ GuardPasses(c)
  /\ Issue(c, a)
  /\ UNCHANGED <<runs, busy, rest>>

Input(c, a) ==
  /\ At(c, "ui")
  /\ a \in (job[c].todo \cap Actions) \ job[c].doc.done
  /\ GuardPasses(c)
  /\ Issue(c, a)
  /\ UNCHANGED <<runs, busy, rest>>

Back(c) ==
  /\ At(c, "ui")
  /\ job[c].stack > 0
  /\ GuardPasses(c)
  /\ Issue(c, "back")
  /\ UNCHANGED <<runs, busy, rest>>

CasesLeft(c, doc) == (job[c].todo \cap Captures) \ doc.done

\* The batch turns to the API cases that are left, passing over those beyond
\* the request budget or without their test credential; with none to wait for
\* it is over, and the flag is not looked at again after the last one.
ToCases(c, doc) ==
  \E left \in SUBSET CasesLeft(c, doc) :
    IF left = {}
    THEN /\ CasesLeft(c, doc) = {} \/ GuardPasses(c)
         /\ \E st \in {"completed", "awaiting_review"} :
              runs' = Persisted(job[c].run, [doc EXCEPT !.status = st])
         /\ End(c)
    ELSE /\ runs' = Persisted(job[c].run, doc)
         /\ job' = [job EXCEPT ![c].pc = "api", ![c].op = "none",
                               ![c].doc = doc, ![c].todo = left]
         /\ UNCHANGED busy

\* The screen after an input is observed, under the guard, before the input is
\* recorded; if that fails the run stops with the input unrecorded.  The step
\* budget may then be spent.
Observed(c) ==
  /\ At(c, "issued")
  /\ job[c].op \in Actions \cup {"back"}
  /\ GuardPasses(c)
  /\ LET doc == [job[c].doc EXCEPT !.done = @ \cup ({job[c].op} \ {"back"})]
     IN  \/ /\ runs' = Persisted(job[c].run, doc)
            /\ \E stack \in IF job[c].op = "back" THEN {job[c].stack - 1}
                            ELSE {job[c].stack, job[c].stack + 1} :
                 job' = [job EXCEPT ![c].pc = "ui", ![c].op = "none",
                                    ![c].doc = doc, ![c].stack = stack]
            /\ UNCHANGED busy
         \/ ToCases(c, doc)
  /\ UNCHANGED rest

\* Nothing approved is left on the screen just observed; or the step budget was
\* spent by earlier batches and no screen is looked at.
UiDone(c) ==
  /\ At(c, "ui")
  /\ GuardPasses(c) \/ job[c].doc.done \cap Actions # {}
  /\ ToCases(c, job[c].doc)
  /\ UNCHANGED rest

\* After the interval between requests.
RequestUnguarded(c, k) ==
  /\ At(c, "api")
  /\ k \in CasesLeft(c, job[c].doc)
  /\ Issue(c, k)
  /\ UNCHANGED <<runs, busy, rest>>

Request(c, k) ==
  /\ At(c, "api")
  /\ k \in CasesLeft(c, job[c].doc)
  /\ GuardPasses(c)
  /\ Issue(c, k)
  /\ UNCHANGED <<runs, busy, rest>>

Answered(c) ==
  /\ At(c, "issued")
  /\ job[c].op \in Captures
  /\ ToCases(c, [job[c].doc EXCEPT !.done = @ \cup {job[c].op}])
  /\ UNCHANGED rest

FinishUnpersisted(c, st) ==
  /\ End(c)
  /\ UNCHANGED <<runs, rest>>

Finish(c, st) ==
  /\ runs' = Persisted(job[c].run, [job[c].doc EXCEPT !.status = st])
  /\ End(c)
  /\ UNCHANGED rest

\* A guard sees the cancellation; scope, session, screen, transport or the
\* 120 s budget fails; or the adapter does.
BatchStops(c) ==
  /\ Executing(c)
  /\ \E st \in {"cancelled", "paused", "error"} :
       /\ st = "cancelled" => ~GuardPasses(c)
       /\ Finish(c, st)

Cancel(r) ==
  /\ runs[r].status = "running"
  /\ runs' = [runs EXCEPT ![r].cancel = TRUE]
  /\ UNCHANGED <<up, targets, busy, job, restarts>>

-----------------------------------------------------------------------------
\* The server stops.  An orderly stop cancels the tasks, and each records that
\* it was interrupted, or cancelled if the unwinding meets the flag first; a
\* crash, or a task stopped before its first step, leaves the run as stored.
Stop ==
  /\ restarts < MaxRestarts
  /\ restarts' = restarts + 1
  /\ up' = FALSE
  /\ \E end \in [Runs -> {"running", "interrupted", "cancelled"}] :
       LET ended == {r \in Runs : end[r] # "running"
                                 /\ \E c \in Coroutines : Executing(c) /\ job[c].run = r}
       IN  runs' = [r \in Runs |-> IF r \in ended
                                   THEN [runs[r] EXCEPT !.status = end[r], !.cancel = TRUE]
                                   ELSE runs[r]]
  /\ job' = [c \in Coroutines |-> Idle]
  /\ busy' = {}
  /\ targets' = {}

RecoverAsStopped(r) ==
  /\ runs[r].status \in Controlling
  /\ runs' = [runs EXCEPT ![r].status = "stopped"]
  /\ UNCHANGED <<up, targets, busy, job, restarts>>

Recover(r) ==
  /\ runs[r].status \in Controlling
  /\ runs' = [runs EXCEPT ![r].status = "interrupted"]
  /\ UNCHANGED <<up, targets, busy, job, restarts>>

Serve ==
  /\ \A r \in Runs : runs[r].status \notin Controlling
  /\ up' = TRUE
  /\ UNCHANGED <<runs, targets, busy, job, restarts>>

-----------------------------------------------------------------------------
Batch(c) ==
  \/ \E a \in Actions : Input(c, a)
  \/ \E k \in Captures : Request(c, k)
  \/ Back(c) \/ Observed(c) \/ UiDone(c) \/ Answered(c) \/ BatchStops(c)

Next ==
  \/ /\ up
     /\ \/ \E c \in Coroutines :
             \/ CreateDone(c) \/ CreateAbandoned(c) \/ ObserveDone(c) \/ ObserveFails(c)
             \/ Batch(c)
             \/ \E r \in Runs : CreateRun(c, r) \/ ObserveStart(c, r)
             \/ \E r \in Runs, todo \in SUBSET (Actions \cup Captures) : Execute(c, r, todo)
        \/ \E r \in Runs : Cancel(r) \/ \E k \in Captures : ImportCapture(r, k)
        \/ Stop
  \/ ~up /\ ((\E r \in Runs : Recover(r)) \/ Serve)

Spec == Init /\ [][Next]_vars

\* Every await of the task has a timeout, and the whole batch one of 120 s.
FairSpec ==
  /\ Spec
  /\ \A c \in Coroutines : WF_vars(up /\ Batch(c))
  /\ WF_vars(~up /\ ((\E r \in Runs : Recover(r)) \/ Serve))

-----------------------------------------------------------------------------
(* No two coroutines drive one device, and a device is marked busy exactly  *)
(* while one drives it, whichever way each ends (engine.py:115,128-146,     *)
(* 149-155,164-165,215-218).                                                *)
DeviceExclusive ==
  /\ \A c, d \in Coroutines :
       Live(c) /\ Live(d) /\ c # d => DeviceOf[job[c].run] # DeviceOf[job[d].run]
  /\ busy = {DeviceOf[job[c].run] : c \in {d \in Coroutines : Live(d)}}

(* While a batch executes, its stored document changes only through its own *)
(* task and the cancellation flag, so persist, which writes the task's copy *)
(* whatever is stored, overwrites nothing; and a run stored as running has  *)
(* its task (engine.py:52-55,156-167, store.py:48-58).                      *)
RunningRunOwned ==
  up => \A r \in Runs : runs[r].status = "running" =>
          \E c \in Coroutines : Executing(c) /\ job[c].run = r
                                /\ [job[c].doc EXCEPT !.cancel = runs[r].cancel] = runs[r]

Issues(c) == job'[c].pc = "issued" /\ job[c].pc # "issued"

(* "Cannot undo an already-issued input; future guards stop"                *)
(* (API_SECURITY_MATRIX.md:13): once a cancellation is stored the run       *)
(* issues no further input and no further request.                          *)
NothingIssuedAfterCancel ==
  [][\A c \in Coroutines : Issues(c) => ~runs[job[c].run].cancel]_vars

(* What the document records as executed is not executed again by a later   *)
(* batch, also after an interruption (engine.py:169).                       *)
NothingRepeated ==
  [][\A c \in Coroutines : Issues(c) => job'[c].op \notin runs[job[c].run].done]_vars

(* Recorded receipts are never lost, although every coroutine writes back a *)
(* whole document it read before it awaited the device.                     *)
EvidenceKept == [][\A r \in Runs : runs[r].done \subseteq runs'[r].done]_vars

(* Every batch ends, and the stored run says so, also across restarts.      *)
BatchEnds == \A r \in Runs : runs[r].status = "running" ~> runs[r].status # "running"

(* "Private CAS run state" (store.py:1): an import that was acknowledged is *)
(* not overwritten by a coroutine that read the document before it.         *)
ImportsKept == [][\A r \in Runs : runs[r].captures \subseteq runs'[r].captures]_vars

(* "concurrent_devices: 2" (routes.py:43).                                  *)
DevicesLimited == Cardinality(busy) <= MaxBusy
=============================================================================
