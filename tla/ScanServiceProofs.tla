------------------------- MODULE ScanServiceProofs -------------------------
(***************************************************************************)
(* Proofs about ScanService for any number of scans, worker slots,         *)
(* requests and restarts, and that it implements ScanRepository.           *)
(***************************************************************************)
EXTENDS ScanService, FiniteSetTheorems, TLAPS

\* What makes the types inductive: the dictionary a task mutates exists as
\* long as its task, its entry of ACTIVE_SCANS and any reference a request took
\* to it.
LiveOwned ==
  /\ \A s \in Scans :
       /\ worker[s] \notin {"none", "gone"} => live[s] # "none"
       /\ tracked[s] = LiveRef => live[s] # "none"
  /\ \A q \in Requests : \A ref \in request[q].refs :
       ref[2] = LiveRef => live[ref[1]] # "none"

Statuses == Active \cup Final
TInv == TypeOK /\ LiveOwned

-----------------------------------------------------------------------------
\* The kinds of step, by what they may touch.
LEMMA NextCases ==
  ASSUME [Next]_vars
  PROVE  \/ \E s \in Scans : up /\ Task(s)
         \/ \E s \in Scans : up /\ Operator(s)
         \/ \E s \in Scans : up /\ (ProgressCopy(s) \/ ProgressCommit(s) \/ Erase(s))
         \/ \E r \in returning : up /\ TriageReturn(r[1], r[2])
         \/ \E q \in Requests : up /\ Request(q)
         \/ \E s \in Scans : ~up /\ RecoverRow(s)
         \/ ~up /\ Serve
         \/ Crash
         \/ UNCHANGED vars
BY DEF Next, Serving

\* A save puts a document or a missing row in the table, and only of its scan.
LEMMA SaveTypes ==
  ASSUME StoreTypeOK, NEW s, NEW doc \in Row, Save(s, doc)
  PROVE  StoreTypeOK'
BY DEF StoreTypeOK, Save

LEMMA Documents ==
  /\ \A st \in Statuses : Blank(st) \in Row /\ Blank(st) \in Document
  /\ NoRow \in Row
  /\ LiveRef # NoRow /\ LiveRef \notin Row
BY DEF Blank, Row, Document, NoRow, LiveRef, Statuses, Active, Final

\* A task whose phase is not none or gone mutates a dictionary with a status.
LEMMA LiveStatus ==
  ASSUME TInv, NEW s \in Scans, live[s] # "none"
  PROVE  live[s] \in Statuses /\ LiveDocument(s) \in Row /\ LiveDocument(s) \in Document
BY Documents DEF TInv, TypeOK, LiveDocument, Statuses

-----------------------------------------------------------------------------
LEMMA TaskTypes ==
  ASSUME TInv, NEW s \in Scans, Task(s)
  PROVE  TInv'
<1> USE DEF TInv, TypeOK, taskRest
<1>0. \A p \in Outcomes : p \in Phases
  BY DEF Phases
<1>1. ASSUME worker[s] \notin {"none", "gone"}, Save(s, LiveDocument(s)), NEW p \in Phases \ {"none", "gone"},
             Enter(s, p), UNCHANGED <<taskRest, live, cancelled>>, UNCHANGED file
      PROVE  TInv'
  <2>1. StoreTypeOK'
    BY <1>1, LiveStatus, SaveTypes DEF LiveOwned
  <2>2. LiveOwned'
    BY <1>1 DEF Enter, LiveOwned
  <2> QED BY <1>1, <2>1, <2>2 DEF Enter
<1>2. ASSUME worker[s] \notin {"none", "gone"}, NEW p \in Phases \ {"none", "gone"}, Enter(s, p),
             UNCHANGED <<storeVars, taskRest>>, cancelled' \in SUBSET Scans,
             live' = live \/ \E st \in Statuses : live' = [live EXCEPT ![s] = st],
             UNCHANGED file \/ file' = [file EXCEPT ![s] = live[s]]
      PROVE  TInv'
  <2>1. live[s] \in Statuses
    BY <1>2, LiveStatus DEF LiveOwned
  <2>2. live' \in [Scans -> Active \cup Final \cup {"none"}]
    BY <1>2 DEF Statuses
  <2>3. \A t \in Scans : live[t] # "none" => live'[t] # "none"
    BY <1>2, <2>1 DEF Statuses, Active, Final
  <2>4. LiveOwned'
    <3>1. \A t \in Scans : /\ worker'[t] \notin {"none", "gone"} => live'[t] # "none"
                           /\ tracked'[t] = LiveRef => live'[t] # "none"
      BY <1>2, <2>1, <2>3 DEF Enter, LiveOwned
    <3>2. \A q \in Requests : \A ref \in request[q].refs : ref[1] \in Scans
      OBVIOUS
    <3> QED BY <1>2, <2>3, <3>1, <3>2 DEF LiveOwned
  <2>5. StoreTypeOK'
    BY <1>2 DEF StoreTypeOK, storeVars
  <2>6. file' \in [Scans -> Active \cup Final \cup {"none"}]
    BY <1>2, <2>1 DEF Statuses
  <2> QED BY <1>2, <2>2, <2>4, <2>5, <2>6 DEF Enter
<1>3. {"queued", "lost", "analysing", "reporting", "saving", "unwinding", "dumping", "done"}
        \subseteq Phases \ {"none", "gone"}
      /\ Outcomes \subseteq Phases \ {"none", "gone"}
  BY DEF Phases, Outcomes
<1>4. {"completed", "partial", "error", "cancelled"} \subseteq Statuses
      /\ FailureStatus(s) \in Statuses
  BY DEF Statuses, Final, FailureStatus
<1>5. ASSUME TriggerSaved(s) \/ TriggerLost(s) PROVE TInv'
  <2>1. CASE Save(s, LiveDocument(s))
    BY <1>1, <1>3, <1>5, <2>1 DEF TriggerSaved, TriggerLost
  <2>2. CASE ~Save(s, LiveDocument(s))
    BY <1>2, <1>3, <1>5, <2>2 DEF TriggerSaved, TriggerLost
  <2> QED BY <2>1, <2>2
<1>6. ASSUME WorkerStart(s) \/ WorkerFailsEarly(s) PROVE TInv'
  <2>1. CASE WorkerStart(s)
    BY <1>2, <1>3, <2>1 DEF WorkerStart
  <2>2. CASE WorkerFailsEarly(s)
    BY <1>2, <1>3, <1>4, <2>2 DEF WorkerFailsEarly, Leave
  <2> QED BY <1>6, <2>1, <2>2
<1>7. ASSUME NEW outcome \in Outcomes, WorkerExit(s, outcome) PROVE TInv'
  BY <1>2, <1>3, <1>7 DEF WorkerExit
<1>8. ASSUME Cleanup(s) PROVE TInv'
  BY <1>2, <1>3, <1>4, <1>8 DEF Cleanup, Leave, Outcomes
<1>9. ASSUME Report(s) \/ ReportFails(s) PROVE TInv'
  BY <1>2, <1>3, <1>4, <1>9 DEF Report, ReportFails, Leave
<1>10. ASSUME TaskCancelled(s) \/ FinalSaveFails(s) PROVE TInv'
  BY <1>2, <1>3, <1>10 DEF TaskCancelled, FinalSaveFails
<1>11. ASSUME FinalSave(s) PROVE TInv'
  BY <1>1, <1>3, <1>11 DEF FinalSave
<1>12. ASSUME Dump(s) PROVE TInv'
  BY <1>2, <1>3, <1>12 DEF Dump
<1> QED
  BY <1>5, <1>6, <1>7, <1>8, <1>9, <1>10, <1>11, <1>12 DEF Task

LEMMA OperatorTypes ==
  ASSUME TInv, NEW s \in Scans,
         Operator(s) \/ ProgressCopy(s) \/ ProgressCommit(s) \/ Erase(s)
  PROVE  TInv'
<1> USE DEF TInv, TypeOK, operatorRest, taskRest
<1>1. ASSUME Trigger(s) PROVE TInv'
  <2>1. Evicted \in [Scans -> Row \cup {LiveRef}]
        /\ \A t \in Scans : Evicted[t] = LiveRef => tracked[t] = LiveRef
    BY Documents DEF Evicted, Without
  <2>2. "running" \in Statuses /\ "running" # "none" /\ "reserved" \in Phases
    BY DEF Statuses, Active, Phases
  <2>3. LiveOwned'
    BY <1>1, <2>1, <2>2 DEF Trigger, Enter, LiveOwned
  <2>4. StoreTypeOK'
    BY <1>1 DEF Trigger, storeVars, StoreTypeOK
  <2> QED BY <1>1, <2>1, <2>2, <2>3, <2>4 DEF Trigger, Enter, Statuses
<1>2. ASSUME Cancel(s) PROVE TInv'
  BY <1>2 DEF Cancel, storeVars, StoreTypeOK, LiveOwned
<1>3. ASSUME PurgeScan(s) PROVE TInv'
  <2>1. StoreTypeOK'
    BY <1>3, Documents DEF PurgeScan, Purge, StoreTypeOK, NoPlan, Plan
  <2>2. LiveOwned'
    BY <1>3, Documents DEF PurgeScan, LiveOwned
  <2> QED BY <1>3, <2>1, <2>2, Documents DEF PurgeScan
<1>4. ASSUME NEW expected, TriageCommit(s, expected) PROVE TInv'
  <2>1. scans[s] \in Document
    BY <1>4 DEF TriageCommit, Triage, HasRow, StoreTypeOK, Row, NoRow, Blank
  <2>2. Triaged(s) \in Document /\ Triaged(s) \in Row
    BY <2>1 DEF Triaged, Document, Row
  <2>3. scans[s].rev + 1 \in Nat
    BY <2>1 DEF Document
  <2>4. StoreTypeOK'
    BY <1>4, <2>2, <2>3 DEF TriageCommit, Triage, StoreTypeOK
  <2>5. LiveOwned'
    BY <1>4 DEF TriageCommit, LiveOwned
  <2> QED BY <1>4, <2>2, <2>4, <2>5 DEF TriageCommit
<1>5. ASSUME ProgressCopy(s) PROVE TInv'
  BY <1>5 DEF ProgressCopy, storeVars, StoreTypeOK, LiveOwned
<1>6. ASSUME ProgressCommit(s) PROVE TInv'
  <2>1. StoreTypeOK'
    BY <1>6, SaveTypes, Documents DEF ProgressCommit, Statuses, Active
  <2> QED BY <1>6, <2>1 DEF ProgressCommit, LiveOwned
<1>7. ASSUME Erase(s) PROVE TInv'
  BY <1>7 DEF Erase, storeVars, StoreTypeOK, LiveOwned
<1> QED
  BY <1>1, <1>2, <1>3, <1>4, <1>5, <1>6, <1>7 DEF Operator

LEMMA RequestTypes ==
  ASSUME TInv, NEW q \in Requests, Request(q)
  PROVE  TInv'
<1> USE DEF TInv, TypeOK, requestRest, taskVars
<1> DEFINE State == [pc: {"idle", "import", "importing", "saving", "copied"},
                     visited: SUBSET Scans, refs: SUBSET (Scans \X (Row \cup {LiveRef})),
                     scan: Scans \cup {0}, doc: Row]
\* A request that goes on leaves everything but itself, and at most the row it
\* saves, alone; it takes references to what is tracked only.
<1>1. ASSUME StoreTypeOK', NEW state \in State, Become(q, state), UNCHANGED requestRest,
             \A ref \in state.refs : ref \in request[q].refs \/ ref[2] = tracked[ref[1]]
      PROVE  TInv'
  <2>1. \A ref \in state.refs : ref[1] \in Scans
    OBVIOUS
  <2>2. \A ref \in state.refs : ref[2] = LiveRef => live[ref[1]] # "none"
    BY <1>1, <2>1 DEF LiveOwned
  <2>3. LiveOwned'
    BY <1>1, <2>2 DEF Become, LiveOwned
  <2>4. request' \in [Requests -> State]
    BY <1>1 DEF Become
  <2> QED BY <1>1, <2>3, <2>4
<1>2. UNCHANGED storeVars => StoreTypeOK'
  BY DEF storeVars, StoreTypeOK
<1>3. Idle \in State /\ Idle.refs = {}
  BY Documents DEF Idle
<1>4. request[q] \in State
  OBVIOUS
<1> HIDE DEF State
<1>5. ASSUME ListStart(q) PROVE TInv'
  <2> DEFINE refs == {<<s, tracked[s]>> : s \in {t \in Scans : Tracked(t)}}
             state == [Idle EXCEPT !.pc = "import", !.refs = refs]
  <2>1. refs \in SUBSET (Scans \X (Row \cup {LiveRef}))
    OBVIOUS
  <2>2. state \in State /\ state.refs = refs
    BY <2>1, Documents DEF Idle, State
  <2>3. \A ref \in refs : ref[2] = tracked[ref[1]]
    OBVIOUS
  <2>4. Become(q, state) /\ UNCHANGED <<storeVars, requestRest>>
    BY <1>5 DEF ListStart
  <2> HIDE DEF state, refs
  <2> QED BY <1>1, <1>2, <2>2, <2>3, <2>4
<1>6. ASSUME NEW s \in Scans, DetailsStart(q, s) PROVE TInv'
  <2> DEFINE state == [Idle EXCEPT !.pc = "import", !.visited = Scans \ {s}]
  <2>1. state \in State /\ state.refs = {}
    BY Documents DEF Idle, State
  <2> HIDE DEF state
  <2> QED BY <1>1, <1>2, <1>6, <2>1 DEF DetailsStart, state
<1>7. ASSUME NEW s \in Scans, ImportCheck(q, s) PROVE TInv'
  <2> DEFINE state == [request[q] EXCEPT !.pc = "importing", !.visited = @ \cup {s},
                                         !.scan = s, !.doc = Blank(file[s])]
  <2>1. Blank(file[s]) \in Row
    BY <1>7, Documents DEF ImportCheck, Statuses
  <2>2. state \in State /\ state.refs = request[q].refs
    BY <1>4, <2>1 DEF State
  <2> HIDE DEF state
  <2> QED BY <1>1, <1>2, <1>7, <2>2 DEF ImportCheck, state
<1>8. ASSUME ImportSave(q) PROVE TInv'
  <2> DEFINE state == [request[q] EXCEPT !.pc = "import", !.scan = 0, !.doc = NoRow]
  <2>1. state \in State /\ state.refs = request[q].refs
    BY <1>4, Documents DEF State
  <2>2. StoreTypeOK'
    BY <1>8, SaveTypes DEF ImportSave
  <2> HIDE DEF state
  <2> QED BY <1>1, <1>8, <2>1, <2>2 DEF ImportSave, state
<1>9. ASSUME ImportDone(q) PROVE TInv'
  <2> DEFINE state == [request[q] EXCEPT !.pc = "saving", !.visited = {}]
  <2>1. state \in State /\ state.refs = request[q].refs
    BY <1>4 DEF State
  <2> HIDE DEF state
  <2> QED BY <1>1, <1>2, <1>3, <1>9, <2>1 DEF ImportDone, state
<1>10. ASSUME ListCopy(q) PROVE TInv'
  <2>1. PICK ref \in request[q].refs :
          Become(q, [request[q] EXCEPT !.pc = "copied", !.refs = @ \ {ref}, !.scan = ref[1],
                       !.doc = IF ref[2] = LiveRef THEN LiveDocument(ref[1]) ELSE ref[2]])
    BY <1>10 DEF ListCopy
  <2> DEFINE doc == IF ref[2] = LiveRef THEN LiveDocument(ref[1]) ELSE ref[2]
             state == [request[q] EXCEPT !.pc = "copied", !.refs = @ \ {ref},
                                         !.scan = ref[1], !.doc = doc]
  <2>2. ref[1] \in Scans /\ ref[2] \in Row \cup {LiveRef}
    OBVIOUS
  <2>3. doc \in Row
    BY <2>2, LiveStatus DEF LiveOwned
  <2> HIDE DEF doc
  <2>4. state \in State /\ state.refs \subseteq request[q].refs
    BY <1>4, <2>2, <2>3 DEF State
  <2>5. Become(q, state)
    BY <2>1 DEF doc
  <2> HIDE DEF state
  <2> QED BY <1>1, <1>2, <1>10, <2>4, <2>5 DEF ListCopy
<1>11. ASSUME ListCommit(q) PROVE TInv'
  <2> DEFINE state == [request[q] EXCEPT !.pc = "saving", !.scan = 0, !.doc = NoRow]
  <2>1. state \in State /\ state.refs = request[q].refs
    BY <1>4, Documents DEF State
  <2>2. StoreTypeOK'
    BY <1>11, SaveTypes DEF ListCommit
  <2> HIDE DEF state
  <2> QED BY <1>1, <1>3, <1>11, <2>1, <2>2 DEF ListCommit, state
<1> QED
  BY <1>5, <1>6, <1>7, <1>8, <1>9, <1>10, <1>11 DEF Request

LEMMA TypeStep == TInv /\ [Next]_vars => TInv'
<1> SUFFICES ASSUME TInv, [Next]_vars PROVE TInv'
  OBVIOUS
<1>1. ASSUME NEW r \in returning, TriageReturn(r[1], r[2]) PROVE TInv'
  <2>1. r[1] \in Scans /\ r[2] \in Row /\ r[2] # LiveRef
    BY Documents DEF TInv, TypeOK, Row
  <2>2. TypeOK'
    BY <1>1, <2>1 DEF TriageReturn, TInv, TypeOK, operatorRest, storeVars, StoreTypeOK
  <2>3. LiveOwned'
    BY <1>1, <2>1 DEF TriageReturn, TInv, TypeOK, operatorRest, LiveOwned
  <2> QED BY <2>2, <2>3 DEF TInv
<1>2. ASSUME NEW s \in Scans, RecoverRow(s) PROVE TInv'
  <2>1. [scans[s] EXCEPT !.status = "interrupted"] \in Row
    BY <1>2, Documents
       DEF RecoverRow, TInv, TypeOK, StoreTypeOK, Row, Document, NoRow, Blank, Active, Final
  <2>2. StoreTypeOK'
    BY <1>2, <2>1, SaveTypes DEF RecoverRow, TInv, TypeOK
  <2> QED BY <1>2, <2>2 DEF RecoverRow, TInv, TypeOK, taskVars, LiveOwned
<1>3. ASSUME Serve PROVE TInv'
  BY <1>3 DEF Serve, TInv, TypeOK, storeVars, StoreTypeOK, taskVars, LiveOwned
<1>4. ASSUME Crash PROVE TInv'
  <2>1. StoreTypeOK'
    BY <1>4 DEF Crash, TInv, TypeOK, storeVars, StoreTypeOK
  <2>2. LiveOwned'
    BY <1>4, Documents DEF Crash, TInv, TypeOK, LiveOwned, Idle
  <2>3. worker' \in [Scans -> Phases]
    BY <1>4 DEF Crash, Phases
  <2>4. restarts' \in 0 .. MaxRestarts
    BY <1>4, ServiceAssumption DEF Crash, TInv, TypeOK
  <2>5. Idle \in [pc: {"idle", "import", "importing", "saving", "copied"},
                  visited: SUBSET Scans, refs: SUBSET (Scans \X (Row \cup {LiveRef})),
                  scan: Scans \cup {0}, doc: Row]
    BY Documents DEF Idle
  <2>6. /\ request' \in [Requests ->
             [pc: {"idle", "import", "importing", "saving", "copied"},
              visited: SUBSET Scans, refs: SUBSET (Scans \X (Row \cup {LiveRef})),
              scan: Scans \cup {0}, doc: Row]]
        /\ tracked' \in [Scans -> Row \cup {LiveRef}]
    BY <1>4, <2>5, Documents DEF Crash
  <2> QED BY <1>4, <2>1, <2>2, <2>3, <2>4, <2>6 DEF Crash, TInv, TypeOK
<1>5. UNCHANGED vars => TInv'
  BY DEF vars, taskVars, storeVars, TInv, TypeOK, StoreTypeOK, LiveOwned
<1> QED
  BY <1>1, <1>2, <1>3, <1>4, <1>5, NextCases, TaskTypes, OperatorTypes, RequestTypes

LEMMA TypeInit == Init => TInv
<1> SUFFICES ASSUME Init PROVE TInv
  OBVIOUS
<1> USE DEF Init
<1>1. StoreTypeOK
  BY Documents DEF StoreInit, StoreTypeOK, NoPlan, Plan
<1>2. Idle \in [pc: {"idle", "import", "importing", "saving", "copied"},
                visited: SUBSET Scans, refs: SUBSET (Scans \X (Row \cup {LiveRef})),
                scan: Scans \cup {0}, doc: Row]
  BY Documents DEF Idle
<1>3. worker \in [Scans -> Phases] /\ file \in [Scans -> Active \cup Final \cup {"none"}]
  BY DEF Phases, Final
<1>4. TypeOK
  BY <1>1, <1>2, <1>3, Documents, ServiceAssumption DEF TypeOK
<1>5. LiveOwned
  BY Documents DEF LiveOwned, Idle
<1> QED BY <1>4, <1>5 DEF TInv

(* The state of the service keeps its types for any number of scans, slots, *)
(* requests and restarts; in particular no step saves the dictionary of a   *)
(* task that is gone.                                                       *)
THEOREM TypeCorrect == Spec => []TypeOK
<1>1. TInv => TypeOK
  BY DEF TInv
<1> QED BY <1>1, TypeInit, TypeStep, PTL DEF Spec
-----------------------------------------------------------------------------
\* A task that still needs its worker slot.
Busy(s) == worker[s] \in {"reserved", "queued", "analysing", "reporting"} \cup Outcomes

\* Before it is triggered, nothing in the service has heard of a scan.
Unknown(s) ==
  /\ scans[s].status = "absent" /\ file[s] = "none" /\ ~snapshot[s]
  /\ tracked[s] = NoRow
  /\ \A r \in returning : r[1] # s
  /\ \A q \in Requests : request[q].scan # s /\ \A ref \in request[q].refs : ref[1] # s

\* While it needs its slot, its entry is its dictionary, which says running,
\* and so does whatever else knows of it: it can be neither triaged, purged,
\* imported nor evicted.
Owned(s) ==
  /\ tracked[s] = LiveRef /\ live[s] = "running"
  /\ scans[s].status \in {"absent", "running"} /\ file[s] = "none"
  /\ \A r \in returning : r[1] # s
  /\ \A q \in Requests :
       /\ request[q].scan = s => request[q].doc.status = "running"
       /\ \A ref \in request[q].refs : ref[1] = s => ref[2] = LiveRef

Placed(s) ==
  /\ worker[s] = "none" => Unknown(s)
  /\ Busy(s) => Owned(s)

\* Documents that replaced a dictionary, or are about to, were triaged.
Settled ==
  /\ \A s \in Scans : tracked[s] # LiveRef => tracked[s].status \notin Active
  /\ \A r \in returning : r[2].status \notin Active

SInv ==
  /\ \A s \in Scans : Placed(s)
  /\ Settled
  /\ ~up => \A s \in Scans : ~Busy(s)
  /\ Cardinality(Running) <= MaxRunning

\* Sets of scans are finite, and smaller sets have fewer members.
LEMMA FewerRunning ==
  ASSUME NEW S \in SUBSET Scans, NEW T \in SUBSET S
  PROVE  /\ IsFiniteSet(S) /\ Cardinality(S) \in Nat
         /\ Cardinality(T) \in Nat /\ Cardinality(T) <= Cardinality(S)
<1>1. IsFiniteSet(Scans)
  BY ServiceAssumption, FS_Interval
<1>2. IsFiniteSet(S) /\ IsFiniteSet(T)
  BY <1>1, FS_Subset
<1> QED BY <1>2, FS_Subset, FS_CardinalityType

LEMMA RunningIs ==
  ASSUME TInv, Settled, NEW s \in Scans
  PROVE  s \in Running <=> tracked[s] = LiveRef /\ live[s] = "running"
<1>1. LiveRef # NoRow
  BY Documents
<1>2. CASE tracked[s] = LiveRef
  BY <1>1, <1>2 DEF Running, Tracked, Shown
<1>3. CASE tracked[s] # LiveRef
  BY <1>3 DEF Running, Tracked, Shown, Settled, Active
<1> QED BY <1>2, <1>3

\* A step that lets no scan count as running that did not before.
LEMMA RunningShrinks ==
  ASSUME SInv, Running' \subseteq Running
  PROVE  Cardinality(Running') <= MaxRunning
<1>1. Running \in SUBSET Scans
  BY DEF Running
<1> QED BY <1>1, FewerRunning, ServiceAssumption DEF SInv

LEMMA TaskSlots ==
  ASSUME TInv, SInv, NEW s \in Scans, Task(s), up
  PROVE  SInv'
<1> USE DEF taskRest
<1>0. worker[s] # "none" /\ worker \in [Scans -> Phases] /\ live \in [Scans -> Statuses \cup {"none"}]
  BY DEF Task, TriggerSaved, TriggerLost, WorkerStart, WorkerFailsEarly, WorkerExit, Cleanup,
         Report, ReportFails, TaskCancelled, FinalSave, FinalSaveFails, Dump, Outcomes,
         TInv, TypeOK, Statuses
<1>1. UNCHANGED <<up, tracked, snapshot, returning, request>>
  BY DEF Task, TriggerSaved, TriggerLost, WorkerStart, WorkerFailsEarly, WorkerExit, Cleanup,
         Report, ReportFails, TaskCancelled, FinalSave, FinalSaveFails, Dump
<1>2. \E p \in Phases \ {"none"} : Enter(s, p)
  BY DEF Task, TriggerSaved, TriggerLost, WorkerStart, WorkerFailsEarly, WorkerExit, Cleanup,
         Report, ReportFails, TaskCancelled, FinalSave, FinalSaveFails, Dump, Leave, Phases, Outcomes
<1>3. live' = live \/ \E st \in Final : Leave(s, st)
  <2>1. FailureStatus(s) \in Final /\ {"completed", "partial", "error", "cancelled"} \subseteq Final
    BY DEF FailureStatus, Final
  <2> QED
    BY <2>1 DEF Task, TriggerSaved, TriggerLost, WorkerStart, WorkerFailsEarly, WorkerExit, Cleanup,
         Report, ReportFails, TaskCancelled, FinalSave, FinalSaveFails, Dump
<1>4. UNCHANGED scans \/ Save(s, LiveDocument(s))
  BY DEF Task, TriggerSaved, TriggerLost, WorkerStart, WorkerFailsEarly, WorkerExit, Cleanup,
         Report, ReportFails, TaskCancelled, FinalSave, FinalSaveFails, Dump, storeVars
<1>5. file' = file \/ (~Busy(s)' /\ file' = [file EXCEPT ![s] = live[s]])
  <2>1. Dump(s) => ~Busy(s)'
    BY <1>0 DEF Dump, Busy, Enter, Outcomes
  <2>2. CASE Dump(s)
    BY <2>1, <2>2 DEF Dump
  <2>3. CASE ~Dump(s)
    BY <2>3 DEF Task, TriggerSaved, TriggerLost, WorkerStart, WorkerFailsEarly, WorkerExit, Cleanup,
           Report, ReportFails, TaskCancelled, FinalSave, FinalSaveFails
  <2> QED BY <2>2, <2>3
<1>6. Busy(s)' => Busy(s) /\ live' = live
  BY <1>0 DEF Task, TriggerSaved, TriggerLost, WorkerStart, WorkerFailsEarly, WorkerExit, Cleanup,
         Report, ReportFails, TaskCancelled, FinalSave, FinalSaveFails, Dump, Leave, Enter, Busy, Outcomes
<1>7. ASSUME NEW t \in Scans PROVE Placed(t)'
  <2>1. CASE t # s
    <3>1. worker'[t] = worker[t] /\ live'[t] = live[t] /\ file'[t] = file[t]
      BY <1>0, <1>2, <1>3, <1>5, <2>1 DEF Enter, Leave, TInv, TypeOK
    <3>2. scans'[t] = scans[t]
      BY <1>4, <2>1 DEF Save, TInv, TypeOK, StoreTypeOK
    <3> QED BY <1>1, <3>1, <3>2 DEF SInv, Placed, Busy, Unknown, Owned
  <2>2. CASE t = s
    <3>1. worker'[s] # "none"
      BY <1>0, <1>2 DEF Enter
    <3>2. ASSUME Busy(s)' PROVE Owned(s)'
      <4>1. Busy(s) /\ Owned(s) /\ live' = live /\ file' = file
        BY <1>5, <1>6, <3>2 DEF SInv, Placed
      <4>2. scans'[s].status \in {"absent", "running"}
        BY <1>4, <4>1 DEF Save, LiveDocument, Blank, Owned, TInv, TypeOK, StoreTypeOK
      <4> QED BY <1>1, <4>1, <4>2 DEF Owned
    <3> QED BY <2>2, <3>1, <3>2 DEF Placed
  <2> QED BY <2>1, <2>2
<1>8. Settled'
  BY <1>1 DEF SInv, Settled
<1>9. Running' \subseteq Running
  <2>1. \A t \in Scans : live'[t] = "running" => live[t] = "running"
    BY <1>0, <1>3 DEF Leave, Final
  <2> QED BY <1>1, <2>1 DEF Running, Tracked, Shown
<1> QED BY <1>1, <1>7, <1>8, <1>9, RunningShrinks DEF SInv

LEMMA TriggerSlots ==
  ASSUME TInv, SInv, NEW s \in Scans, Trigger(s), up
  PROVE  SInv'
<1> USE DEF Trigger
<1>1. /\ worker' = [worker EXCEPT ![s] = "reserved"]
      /\ live' = [live EXCEPT ![s] = "running"]
      /\ tracked' = [Evicted EXCEPT ![s] = LiveRef]
      /\ UNCHANGED <<scans, up, snapshot, file, returning, request>>
      /\ worker \in [Scans -> Phases] /\ live \in [Scans -> Statuses \cup {"none"}]
  BY DEF Enter, storeVars, TInv, TypeOK, Statuses
<1>2. Unknown(s)
  BY DEF SInv, Placed
<1>3. \A t \in Scans : Evicted[t] \in {NoRow, tracked[t]} /\ (t \in Running => Evicted[t] = tracked[t])
  BY DEF Evicted, Without, First
<1>4. \A t \in Scans \ {s} : tracked'[t] = Evicted[t]
  BY <1>1 DEF Evicted, Without, TInv, TypeOK
<1>5. tracked'[s] = LiveRef
  BY <1>1 DEF Evicted, Without, TInv, TypeOK
<1>6. ASSUME NEW t \in Scans PROVE Placed(t)'
  <2>1. CASE t = s
    BY <1>1, <1>2, <1>5, <2>1 DEF Placed, Unknown, Owned
  <2>2. CASE t # s
    <3>1. worker'[t] = worker[t] /\ live'[t] = live[t]
      BY <1>1, <2>2
    <3>2. worker[t] = "none" => Unknown(t)'
      BY <1>1, <1>3, <1>4, <2>2 DEF SInv, Placed, Unknown
    <3>3. ASSUME Busy(t) PROVE Owned(t)'
      <4>1. Owned(t) /\ t \in Running
        BY <3>3, RunningIs DEF SInv, Placed, Owned
      <4>2. tracked'[t] = tracked[t]
        BY <1>3, <1>4, <2>2, <4>1
      <4> QED BY <1>1, <3>1, <4>1, <4>2 DEF Owned
    <3> QED BY <3>1, <3>2, <3>3 DEF Placed, Busy
  <2> QED BY <2>1, <2>2
<1>7. Settled'
  <2>1. NoRow.status \notin Active
    BY DEF NoRow, Blank, Active
  <2>2. ASSUME NEW t \in Scans, tracked'[t] # LiveRef PROVE tracked'[t].status \notin Active
    BY <1>3, <1>4, <1>5, <2>1, <2>2 DEF SInv, Settled
  <2> QED BY <1>1, <2>2 DEF SInv, Settled
<1>8. Cardinality(Running') <= MaxRunning
  <2>1. Running' \subseteq Running \cup {s}
    <3>1. ASSUME NEW t \in Scans, t # s, t \in Running' PROVE t \in Running
      <4>1. tracked'[t] = tracked[t] /\ live'[t] = live[t]
        BY <1>1, <1>3, <1>4, <3>1 DEF Running, Tracked
      <4> QED BY <3>1, <4>1 DEF Running, Tracked, Shown
    <3> QED BY <3>1 DEF Running
  <2>2. Running \in SUBSET Scans /\ Running \cup {s} \in SUBSET Scans
    BY DEF Running
  <2>3. IsFiniteSet(Running) /\ Cardinality(Running) \in Nat
    BY <2>2, FewerRunning
  <2>4. Cardinality(Running \cup {s}) \in {Cardinality(Running), Cardinality(Running) + 1}
    <3>1. Cardinality(Running \cup {s})
            = IF s \in Running THEN Cardinality(Running) ELSE Cardinality(Running) + 1
      BY <2>3, FS_AddElement, Zenon
    <3> QED BY <3>1
  <2>5. /\ Cardinality(Running') <= Cardinality(Running \cup {s})
        /\ Cardinality(Running') \in Nat /\ Cardinality(Running \cup {s}) \in Nat
    BY <2>1, <2>2, FewerRunning
  <2>6. Cardinality(Running) < MaxRunning
    OBVIOUS
  <2> QED BY <2>3, <2>4, <2>5, <2>6, ServiceAssumption
<1> QED BY <1>1, <1>6, <1>7, <1>8 DEF SInv

\* The other steps that concern one scan leave its task where it is.
LEMMA OperatorSlots ==
  ASSUME TInv, SInv, NEW s \in Scans, up,
         Operator(s) \/ ProgressCopy(s) \/ ProgressCommit(s) \/ Erase(s)
  PROVE  SInv'
<1> USE DEF operatorRest, taskRest
<1>1. ASSUME UNCHANGED <<up, worker, live, tracked, returning, request, file>>,
             snapshot' = snapshot \/ Busy(s),
             snapshot' = snapshot \/ \E b \in BOOLEAN : snapshot' = [snapshot EXCEPT ![s] = b],
             scans' = scans
      PROVE  SInv'
  <2>1. ASSUME NEW t \in Scans PROVE Placed(t)'
    <3>1. worker[t] = "none" => snapshot'[t] = snapshot[t]
      <4>1. Busy(s) => worker[s] # "none"
        BY DEF Busy, Outcomes
      <4> QED BY <1>1, <4>1 DEF TInv, TypeOK
    <3> QED BY <1>1, <3>1 DEF SInv, Placed, Busy, Unknown, Owned
  <2>2. Settled' /\ Running' = Running
    BY <1>1 DEF SInv, Settled, Running, Tracked, Shown
  <2> QED BY <1>1, <2>1, <2>2 DEF SInv, Busy
<1>2. CASE Trigger(s)
  BY <1>2, TriggerSlots
<1>3. CASE Cancel(s)
  BY <1>1, <1>3 DEF Cancel, storeVars
<1>4. CASE ProgressCopy(s)
  BY <1>1, <1>4 DEF ProgressCopy, storeVars, Busy
<1>5. CASE ProgressCommit(s)
  <2>1. worker[s] # "none"
    BY <1>5 DEF ProgressCommit, SInv, Placed, Unknown
  <2>2. ASSUME NEW t \in Scans PROVE Placed(t)'
    <3>1. t # s => scans'[t] = scans[t] /\ snapshot'[t] = snapshot[t]
      BY <1>5 DEF ProgressCommit, Save, TInv, TypeOK, StoreTypeOK
    <3>2. scans'[s].status \in {scans[s].status, "running"}
      BY <1>5 DEF ProgressCommit, Save, Blank, TInv, TypeOK, StoreTypeOK
    <3>3. worker[t] = "none" => Unknown(t)'
      BY <1>5, <2>1, <3>1 DEF ProgressCommit, SInv, Placed, Unknown
    <3>4. Busy(t) => Owned(t)'
      BY <1>5, <3>1, <3>2 DEF ProgressCommit, SInv, Placed, Owned
    <3> QED BY <1>5, <3>3, <3>4 DEF ProgressCommit, Placed, Busy
  <2>3. Settled' /\ Running' = Running
    BY <1>5 DEF ProgressCommit, SInv, Settled, Running, Tracked, Shown
  <2> QED BY <1>5, <2>2, <2>3 DEF ProgressCommit, SInv, Busy
<1>6. CASE Erase(s)
  <2>1. \A t \in Scans : file'[t] = file[t] \/ file'[t] = "none"
    BY <1>6 DEF Erase, TInv, TypeOK
  <2>2. \A t \in Scans : Placed(t)'
    BY <1>6, <2>1 DEF Erase, storeVars, SInv, Placed, Busy, Unknown, Owned
  <2>3. Settled' /\ Running' = Running
    BY <1>6 DEF Erase, SInv, Settled, Running, Tracked, Shown
  <2> QED BY <1>6, <2>2, <2>3 DEF Erase, SInv, Busy
\* A scan with a task that needs its slot counts as running: it is not purged.
<1>7. CASE PurgeScan(s)
  <2>1. worker[s] # "none" /\ ~Busy(s)
    <3>1. Busy(s) => s \in Running
      BY RunningIs DEF SInv, Placed, Owned
    <3>2. scans[s].status # "absent"
      BY <1>7 DEF PurgeScan, Purge, HasRow
    <3> QED BY <1>7, <3>1, <3>2 DEF PurgeScan, SInv, Placed, Unknown
  <2>2. \A t \in Scans \ {s} : scans'[t] = scans[t] /\ tracked'[t] = tracked[t]
    BY <1>7 DEF PurgeScan, Purge, TInv, TypeOK, StoreTypeOK
  <2>3. \A t \in Scans : Placed(t)'
    BY <1>7, <2>1, <2>2 DEF PurgeScan, SInv, Placed, Busy, Unknown, Owned
  <2>4. tracked'[s] = NoRow /\ NoRow.status \notin Active
    BY <1>7 DEF PurgeScan, TInv, TypeOK, NoRow, Blank, Active
  <2>5. Settled'
    BY <1>7, <2>2, <2>4 DEF PurgeScan, SInv, Settled
  <2>6. Running' \subseteq Running
    BY <1>7, <2>2, <2>4 DEF PurgeScan, Running, Tracked, Shown
  <2> QED BY <1>7, <2>3, <2>5, <2>6, RunningShrinks DEF PurgeScan, SInv, Busy
\* Nor is it triaged: its row is missing or says running.
<1>8. ASSUME NEW expected, TriageCommit(s, expected) PROVE SInv'
  <2>1. scans[s].status \notin {"absent", "running"}
    BY <1>8 DEF TriageCommit, Triage, HasRow, Active
  <2>2. worker[s] # "none" /\ ~Busy(s)
    BY <2>1 DEF SInv, Placed, Unknown, Owned
  <2>3. \A t \in Scans \ {s} : scans'[t] = scans[t]
    BY <1>8 DEF TriageCommit, Triage, TInv, TypeOK, StoreTypeOK
  <2>4. Triaged(s).status \notin Active
    BY <1>8 DEF TriageCommit, Triage, Triaged
  <2>5. \A r \in returning' : r \in returning \/ r = <<s, Triaged(s)>>
    BY <1>8 DEF TriageCommit
  <2>6. \A t \in Scans : Placed(t)'
    <3>1. ASSUME NEW t \in Scans, t # s PROVE \A r \in returning' : r[1] = t => r \in returning
      BY <2>5, <3>1
    <3> QED BY <1>8, <2>2, <2>3, <3>1 DEF TriageCommit, SInv, Placed, Busy, Unknown, Owned
  <2>7. Settled'
    BY <1>8, <2>4, <2>5 DEF TriageCommit, SInv, Settled
  <2>8. Running' = Running
    BY <1>8 DEF TriageCommit, Running, Tracked, Shown
  <2> QED BY <1>8, <2>6, <2>7, <2>8 DEF TriageCommit, SInv, Busy
<1> QED BY <1>2, <1>3, <1>4, <1>5, <1>6, <1>7, <1>8 DEF Operator

\* Requests learn of a scan from its entry or its file, and what they hold of
\* one that needs its slot says running.
LEMMA RequestSlots ==
  ASSUME TInv, SInv, NEW q \in Requests, Request(q), up
  PROVE  SInv'
<1> USE DEF requestRest, taskVars
<1> DEFINE Harmless(state) ==
      \A t \in Scans :
        /\ worker[t] = "none" => state.scan # t /\ \A ref \in state.refs : ref[1] # t
        /\ Busy(t) => /\ state.scan = t => state.doc.status = "running"
                      /\ \A ref \in state.refs : ref[1] = t => ref[2] = LiveRef
    RowsKept ==
      \A t \in Scans :
        /\ worker[t] = "none" => scans'[t] = scans[t]
        /\ Busy(t) => scans'[t].status \in {"absent", "running"}
<1>1. ASSUME NEW state, Harmless(state), RowsKept, Become(q, state), UNCHANGED requestRest
      PROVE  SInv'
  <2>1. ASSUME NEW t \in Scans, worker[t] = "none" PROVE Unknown(t)'
    <3>1. \A p \in Requests : request'[p] = request[p] \/ request'[p] = state
      BY <1>1 DEF Become, TInv, TypeOK
    <3> QED BY <1>1, <2>1, <3>1 DEF SInv, Placed, Unknown
  <2>2. ASSUME NEW t \in Scans, Busy(t) PROVE Owned(t)'
    <3>1. \A p \in Requests : request'[p] = request[p] \/ request'[p] = state
      BY <1>1 DEF Become, TInv, TypeOK
    <3> QED BY <1>1, <2>2, <3>1 DEF SInv, Placed, Owned
  <2>3. \A t \in Scans : Placed(t)'
    BY <1>1, <2>1, <2>2 DEF Placed, Busy
  <2>4. Settled' /\ Running' = Running
    BY <1>1 DEF SInv, Settled, Running, Tracked, Shown
  <2> QED BY <1>1, <2>3, <2>4 DEF SInv, Busy
<1>2. UNCHANGED storeVars => RowsKept
  BY DEF storeVars, SInv, Placed, Owned
<1>3. ASSUME Save(request[q].scan, request[q].doc) PROVE RowsKept
  <2>1. \A t \in Scans : scans'[t] = scans[t] \/ (request[q].scan = t /\ scans'[t] = request[q].doc)
    BY <1>3 DEF Save, TInv, TypeOK, StoreTypeOK
  <2> QED BY <2>1 DEF SInv, Placed, Unknown, Owned
<1>4. Harmless(request[q])
  BY DEF SInv, Placed, Unknown, Owned
<1>5. Harmless(Idle)
  BY ServiceAssumption DEF Idle
<1>6. request[q] \in [pc: {"idle", "import", "importing", "saving", "copied"},
                      visited: SUBSET Scans, refs: SUBSET (Scans \X (Row \cup {LiveRef})),
                      scan: Scans \cup {0}, doc: Row]
  BY DEF TInv, TypeOK
<1>7. 0 \notin Scans
  BY ServiceAssumption
<1> HIDE DEF RowsKept
<1>8. CASE ListStart(q)
  <2> DEFINE refs == {<<s, tracked[s]>> : s \in {t \in Scans : Tracked(t)}}
             state == [Idle EXCEPT !.pc = "import", !.refs = refs]
  <2>1. state.scan = 0 /\ state.refs = refs
    BY DEF Idle
  <2>2. ASSUME NEW ref \in refs, NEW t \in Scans, ref[1] = t
        PROVE  worker[t] # "none" /\ (Busy(t) => ref[2] = LiveRef)
    <3>1. ref[2] = tracked[t] /\ Tracked(t)
      BY <2>2
    <3> QED BY <3>1 DEF Tracked, SInv, Placed, Unknown, Owned
  <2>3. Become(q, state) /\ UNCHANGED <<storeVars, requestRest>>
    BY <1>8 DEF ListStart
  <2> HIDE DEF state, refs
  <2>4. Harmless(state)
    BY <1>7, <2>1, <2>2
  <2> QED BY <1>1, <1>2, <2>3, <2>4
<1>9. ASSUME NEW s \in Scans, DetailsStart(q, s) PROVE SInv'
  <2> DEFINE state == [Idle EXCEPT !.pc = "import", !.visited = Scans \ {s}]
  <2>1. state.scan = 0 /\ state.refs = {}
    BY DEF Idle
  <2> HIDE DEF state
  <2>2. Harmless(state)
    BY <1>7, <2>1
  <2> QED BY <1>1, <1>2, <1>9, <2>2 DEF DetailsStart, state
<1>10. ASSUME NEW s \in Scans, ImportCheck(q, s) PROVE SInv'
  <2> DEFINE state == [request[q] EXCEPT !.pc = "importing", !.visited = @ \cup {s},
                                         !.scan = s, !.doc = Blank(file[s])]
  <2>1. state.scan = s /\ state.refs = request[q].refs
    BY <1>6
  <2>2. worker[s] # "none" /\ ~Busy(s)
    BY <1>10 DEF ImportCheck, SInv, Placed, Unknown, Owned
  <2> HIDE DEF state
  <2>3. Harmless(state)
    BY <1>4, <2>1, <2>2
  <2> QED BY <1>1, <1>2, <1>10, <2>3 DEF ImportCheck, state
<1>11. CASE ImportSave(q)
  <2> DEFINE state == [request[q] EXCEPT !.pc = "import", !.scan = 0, !.doc = NoRow]
  <2>1. state.scan = 0 /\ state.refs = request[q].refs
    BY <1>6
  <2> HIDE DEF state
  <2>2. Harmless(state)
    BY <1>4, <1>7, <2>1
  <2> QED BY <1>1, <1>3, <1>11, <2>2 DEF ImportSave, state
<1>12. CASE ImportDone(q)
  <2> DEFINE state == [request[q] EXCEPT !.pc = "saving", !.visited = {}]
  <2>1. state.scan = request[q].scan /\ state.refs = request[q].refs /\ state.doc = request[q].doc
    BY <1>6
  <2>2. Become(q, Idle) \/ Become(q, state)
    BY <1>12 DEF ImportDone
  <2> HIDE DEF state
  <2>3. Harmless(state)
    BY <1>4, <2>1
  <2> QED BY <1>1, <1>2, <1>5, <1>12, <2>2, <2>3 DEF ImportDone
<1>13. CASE ListCopy(q)
  <2>1. PICK ref \in request[q].refs :
          Become(q, [request[q] EXCEPT !.pc = "copied", !.refs = @ \ {ref}, !.scan = ref[1],
                       !.doc = IF ref[2] = LiveRef THEN LiveDocument(ref[1]) ELSE ref[2]])
    BY <1>13 DEF ListCopy
  <2> DEFINE doc == IF ref[2] = LiveRef THEN LiveDocument(ref[1]) ELSE ref[2]
             state == [request[q] EXCEPT !.pc = "copied", !.refs = @ \ {ref},
                                         !.scan = ref[1], !.doc = doc]
  <2>2. ref[1] \in Scans
    BY <1>6
  <2>3. Busy(ref[1]) => doc.status = "running"
    BY <1>4, <2>2 DEF SInv, Placed, Owned, LiveDocument, Blank
  <2>4. state.scan = ref[1] /\ state.refs \subseteq request[q].refs /\ state.doc = doc
    BY <1>6
  <2>5. Become(q, state)
    BY <2>1
  <2> HIDE DEF doc, state
  <2>6. Harmless(state)
    BY <1>4, <2>3, <2>4
  <2> QED BY <1>1, <1>2, <1>13, <2>5, <2>6 DEF ListCopy
<1>14. CASE ListCommit(q)
  <2> DEFINE state == [request[q] EXCEPT !.pc = "saving", !.scan = 0, !.doc = NoRow]
  <2>1. state.scan = 0 /\ state.refs = request[q].refs
    BY <1>6
  <2>2. Become(q, Idle) \/ Become(q, state)
    BY <1>14 DEF ListCommit
  <2> HIDE DEF state
  <2>3. Harmless(state)
    BY <1>4, <1>7, <2>1
  <2> QED BY <1>1, <1>3, <1>5, <1>14, <2>2, <2>3 DEF ListCommit
<1> QED
  BY <1>8, <1>9, <1>10, <1>11, <1>12, <1>13, <1>14 DEF Request

LEMMA SlotStep == TInv /\ SInv /\ [Next]_vars => SInv'
<1> SUFFICES ASSUME TInv, SInv, [Next]_vars PROVE SInv'
  OBVIOUS
\* What a triage returns replaces the entry of a scan without a slot.
<1>1. ASSUME NEW r \in returning, TriageReturn(r[1], r[2]), up PROVE SInv'
  <2>1. /\ r[1] \in Scans /\ r = <<r[1], r[2]>>
        /\ r[2].status \notin Active
    BY DEF TInv, TypeOK, SInv, Settled
  <2>2. ~Busy(r[1]) /\ worker[r[1]] # "none"
    BY <2>1 DEF SInv, Placed, Unknown, Owned
  <2>3. \A t \in Scans \ {r[1]} : tracked'[t] = tracked[t]
    BY <1>1 DEF TriageReturn, TInv, TypeOK
  <2>4. tracked'[r[1]] = tracked[r[1]] \/ tracked'[r[1]] = r[2]
    BY <1>1, <2>1 DEF TriageReturn, TInv, TypeOK
  <2>5. \A t \in Scans : Placed(t)'
    BY <1>1, <2>2, <2>3
       DEF TriageReturn, operatorRest, storeVars, SInv, Placed, Busy, Unknown, Owned
  <2>6. Settled'
    BY <1>1, <2>1, <2>3, <2>4 DEF TriageReturn, SInv, Settled
  <2>7. Running' \subseteq Running
    <3>1. r[1] \notin Running'
      <4>1. CASE tracked'[r[1]] = tracked[r[1]]
        <5>1. tracked[r[1]] = NoRow \/ tracked[r[1]] = r[2]
          BY <1>1, <2>1, <4>1 DEF TriageReturn, Tracked, TInv, TypeOK
        <5>2. r[2] # LiveRef
          BY Documents DEF TInv, TypeOK, Row
        <5> QED BY <2>1, <4>1, <5>1, <5>2 DEF Running, Tracked, Shown, Active
      <4>2. CASE tracked'[r[1]] = r[2]
        <5>1. r[2] # LiveRef
          BY Documents DEF TInv, TypeOK, Row
        <5> QED BY <2>1, <4>2, <5>1 DEF Running, Shown, Active
      <4> QED BY <2>4, <4>1, <4>2
    <3>2. ASSUME NEW t \in Scans \ {r[1]}, t \in Running' PROVE t \in Running
      BY <1>1, <2>3, <3>2 DEF TriageReturn, operatorRest, Running, Tracked, Shown
    <3> QED BY <3>1, <3>2 DEF Running
  <2> QED BY <1>1, <2>5, <2>6, <2>7, RunningShrinks DEF TriageReturn, operatorRest, SInv
\* No task is busy before the server is up.
<1>2. ASSUME NEW s \in Scans, RecoverRow(s), ~up PROVE SInv'
  <2>1. \A t \in Scans : ~Busy(t)
    BY <1>2 DEF SInv
  <2>2. worker[s] # "none"
    BY <1>2 DEF RecoverRow, SInv, Placed, Unknown, Active
  <2>3. \A t \in Scans \ {s} : scans'[t] = scans[t]
    BY <1>2 DEF RecoverRow, Save, TInv, TypeOK, StoreTypeOK
  <2>4. \A t \in Scans : Placed(t)'
    BY <1>2, <2>1, <2>2, <2>3 DEF RecoverRow, taskVars, SInv, Placed, Busy, Unknown
  <2>5. Settled' /\ Running' = Running
    BY <1>2 DEF RecoverRow, taskVars, SInv, Settled, Running, Tracked, Shown
  <2> QED BY <1>2, <2>4, <2>5 DEF RecoverRow, taskVars, SInv, Busy
<1>3. ASSUME Serve PROVE SInv'
  <2>1. \A t \in Scans : Placed(t)'
    BY <1>3 DEF Serve, storeVars, taskVars, SInv, Placed, Busy, Unknown, Owned
  <2>2. Settled' /\ Running' = Running
    BY <1>3 DEF Serve, taskVars, SInv, Settled, Running, Tracked, Shown
  <2> QED BY <1>3, <2>1, <2>2 DEF Serve, SInv
<1>4. ASSUME Crash PROVE SInv'
  <2>1. \A t \in Scans : ~Busy(t)'
    BY <1>4 DEF Crash, Busy, Outcomes
  <2>2. ASSUME NEW t \in Scans, worker'[t] = "none" PROVE Unknown(t)'
    <3>1. worker[t] = "none"
      BY <1>4, <2>2 DEF Crash
    <3> QED BY <1>4, <3>1, ServiceAssumption DEF Crash, storeVars, SInv, Placed, Unknown, Idle
  <2>3. Settled' /\ Running' = {}
    BY <1>4 DEF Crash, Settled, Running, Tracked, NoRow, Blank, Active
  <2>4. Cardinality(Running') <= MaxRunning
    BY <2>3, FS_EmptySet, ServiceAssumption
  <2> QED BY <2>1, <2>2, <2>3, <2>4 DEF SInv, Placed
<1>5. UNCHANGED vars => SInv'
  <2> SUFFICES ASSUME UNCHANGED vars PROVE SInv'
    OBVIOUS
  <2>1. \A t \in Scans : Placed(t)'
    BY DEF vars, storeVars, taskVars, SInv, Placed, Busy, Unknown, Owned
  <2>2. Settled' /\ Running' = Running /\ up' = up /\ worker' = worker
    BY DEF vars, taskVars, SInv, Settled, Running, Tracked, Shown
  <2> QED BY <2>1, <2>2 DEF SInv, Busy
<1> QED
  BY <1>1, <1>2, <1>3, <1>4, <1>5, NextCases, TaskSlots, OperatorSlots, RequestSlots

LEMMA SlotInit == Init => SInv
<1> SUFFICES ASSUME Init PROVE SInv
  OBVIOUS
<1>1. \A s \in Scans : Placed(s)
  BY ServiceAssumption DEF Init, StoreInit, Placed, Busy, Unknown, Outcomes, NoRow, Blank, Idle
<1>2. Settled /\ Running = {} /\ up
  BY DEF Init, Settled, Running, Tracked, NoRow, Blank, Active
<1>3. Cardinality(Running) <= MaxRunning
  BY <1>2, FS_EmptySet, ServiceAssumption
<1> QED BY <1>1, <1>2, <1>3 DEF SInv

(* However many scans, slots, requests and restarts there are: every worker *)
(* process belongs to an entry of ACTIVE_SCANS that counts as running, and  *)
(* there are never more of them than slots.                                 *)
THEOREM SlotsBounded == Spec => []SlotSafety
<1>1. TInv /\ SInv => SlotSafety
  <2> SUFFICES ASSUME TInv, SInv PROVE SlotSafety
    OBVIOUS
  <2>1. ASSUME NEW s \in Processes PROVE s \in Running /\ tracked[s] = LiveRef
    <3>1. s \in Scans /\ Busy(s)
      BY DEF Processes, Busy
    <3> QED BY <3>1, RunningIs DEF SInv, Placed, Owned
  <2>2. Processes \subseteq Running /\ Running \in SUBSET Scans
    BY <2>1 DEF Running
  <2>3. /\ Cardinality(Processes) <= Cardinality(Running)
        /\ Cardinality(Processes) \in Nat /\ Cardinality(Running) \in Nat
    BY <2>2, FewerRunning
  <2>4. Cardinality(Processes) <= MaxRunning
    BY <2>3, ServiceAssumption DEF SInv
  <2> QED BY <2>1, <2>4 DEF SlotSafety
<1> QED BY <1>1, TypeInit, TypeStep, SlotInit, SlotStep, PTL DEF Spec
-----------------------------------------------------------------------------
\* Why no running row outlives its task.  A running document comes from the
\* dictionary of a task, or from a dashboard.json written by one; but a scan
\* whose task wrote its file has a row or a tombstone, so the file of one that
\* has neither is a legacy file and says completed.
Recorded(s) == HasRow(s) \/ s \in tombstones

Sourced(state) ==
  /\ state.pc \in {"importing", "copied"} =>
       /\ state.scan \in Scans
       /\ state.doc.status # "absent"
       /\ state.doc.status \in Active => live[state.scan] # "none"
  /\ \A ref \in state.refs : ref[2] # NoRow /\ ref[2].status \notin Active

RInv ==
  /\ RunningRowsOwned
  /\ \A s \in Scans : snapshot[s] => live[s] # "none"
  /\ \A s \in Scans : file[s] \in Active \/ worker[s] = "dumping" => Recorded(s)
  /\ \A q \in Requests : Sourced(request[q])

\* The parts of the invariant follow when the dictionaries and what is recorded
\* stay, and running rows, copies and running files are not new.
LEMMA RowsKept ==
  ASSUME TInv, RInv,
         \A s \in Scans : live[s] # "none" => live'[s] # "none",
         \A s \in Scans : Recorded(s) => Recorded(s)',
         \A s \in Scans : up' /\ scans'[s].status \in Active =>
                            (up /\ scans[s].status \in Active) \/ live[s] # "none",
         \A s \in Scans : snapshot'[s] => snapshot[s] \/ live[s] # "none",
         \A s \in Scans : file'[s] \in Active \/ worker'[s] = "dumping" =>
                            file[s] \in Active \/ worker[s] = "dumping" \/ Recorded(s)',
         \A q \in Requests : request'[q] = request[q] \/ Sourced(request[q])'
  PROVE  RInv'
<1>1. \A s \in Scans : up' /\ scans'[s].status \in Active => live'[s] # "none"
  BY DEF RInv, RunningRowsOwned
<1>2. \A s \in Scans : snapshot'[s] => live'[s] # "none"
  BY DEF RInv
<1>3. \A s \in Scans : file'[s] \in Active \/ worker'[s] = "dumping" => Recorded(s)'
  BY DEF RInv
<1>4. \A q \in Requests : Sourced(request[q])'
  BY DEF RInv, Sourced
<1> QED BY <1>1, <1>2, <1>3, <1>4 DEF RInv, RunningRowsOwned

\* A save of a document that exists leaves a row, with its status or the one
\* the row had.
LEMMA SaveRow ==
  ASSUME TInv, NEW s \in Scans, NEW doc \in Row, doc.status # "absent", Save(s, doc)
  PROVE  /\ HasRow(s)' /\ tombstones' = tombstones
         /\ scans'[s].status \in {scans[s].status, doc.status}
         /\ \A t \in Scans \ {s} : scans'[t] = scans[t]
         /\ \A t \in Scans : Recorded(t) => Recorded(t)'
BY DEF Save, HasRow, Recorded, TInv, TypeOK, StoreTypeOK

LEMMA TaskRows ==
  ASSUME TInv, RInv, NEW s \in Scans, Task(s)
  PROVE  RInv'
<1> USE DEF taskRest
<1>1. worker \in [Scans -> Phases] /\ live \in [Scans -> Statuses \cup {"none"}]
      /\ file \in [Scans -> Statuses \cup {"none"}]
  BY DEF TInv, TypeOK, Statuses
<1>2. worker[s] \notin {"none", "gone"}
  BY DEF Task, TriggerSaved, TriggerLost, WorkerStart, WorkerFailsEarly, WorkerExit, Cleanup,
         Report, ReportFails, TaskCancelled, FinalSave, FinalSaveFails, Dump, Outcomes
<1>3. live[s] # "none" /\ live[s] \in Statuses /\ LiveDocument(s) \in Row
      /\ LiveDocument(s).status # "absent"
  BY <1>2, LiveStatus DEF TInv, LiveOwned, LiveDocument, Blank, Statuses, Active, Final
<1>4. UNCHANGED <<up, snapshot, request>>
  BY DEF Task, TriggerSaved, TriggerLost, WorkerStart, WorkerFailsEarly, WorkerExit, Cleanup,
         Report, ReportFails, TaskCancelled, FinalSave, FinalSaveFails, Dump
<1>5. live' = live \/ \E st \in Final : Leave(s, st)
  <2>1. FailureStatus(s) \in Final /\ {"completed", "partial", "error", "cancelled"} \subseteq Final
    BY DEF FailureStatus, Final
  <2> QED
    BY <2>1 DEF Task, TriggerSaved, TriggerLost, WorkerStart, WorkerFailsEarly, WorkerExit, Cleanup,
         Report, ReportFails, TaskCancelled, FinalSave, FinalSaveFails, Dump
<1>6. \A t \in Scans : live[t] # "none" => live'[t] # "none"
  BY <1>1, <1>5 DEF Leave, Final
<1>7. UNCHANGED storeVars \/ Save(s, LiveDocument(s))
  BY DEF Task, TriggerSaved, TriggerLost, WorkerStart, WorkerFailsEarly, WorkerExit, Cleanup,
         Report, ReportFails, TaskCancelled, FinalSave, FinalSaveFails, Dump
<1>8. /\ \A t \in Scans : Recorded(t) => Recorded(t)'
      /\ \A t \in Scans : scans'[t].status \in Active =>
                            scans[t].status \in Active \/ live[t] # "none"
  <2>1. CASE UNCHANGED storeVars
    BY <2>1 DEF storeVars, Recorded, HasRow
  <2>2. CASE Save(s, LiveDocument(s))
    BY <1>3, <2>2, SaveRow
  <2> QED BY <1>7, <2>1, <2>2
<1>9. ASSUME NEW t \in Scans, file'[t] \in Active \/ worker'[t] = "dumping"
      PROVE  file[t] \in Active \/ worker[t] = "dumping" \/ Recorded(t)'
  <2>1. CASE FinalSave(s)
    <3>1. Recorded(s)'
      BY <1>3, <2>1, SaveRow DEF FinalSave, Recorded
    <3> QED BY <1>1, <1>9, <2>1, <3>1 DEF FinalSave, Enter
  <2>2. CASE Dump(s)
    BY <1>1, <1>9, <2>2 DEF Dump, Enter
  <2>3. CASE ~FinalSave(s) /\ ~Dump(s)
    <3>1. file' = file
      BY <2>3 DEF Task, TriggerSaved, TriggerLost, WorkerStart, WorkerFailsEarly, WorkerExit, Cleanup,
             Report, ReportFails, TaskCancelled, FinalSaveFails
    <3>2. \E p \in Phases \ {"dumping"} : Enter(s, p)
      BY <2>3 DEF Task, TriggerSaved, TriggerLost, WorkerStart, WorkerFailsEarly, WorkerExit, Cleanup,
             Report, ReportFails, TaskCancelled, FinalSaveFails, Leave, Phases, Outcomes
    <3> QED BY <1>1, <1>9, <3>1, <3>2 DEF Enter
  <2> QED BY <2>1, <2>2, <2>3
<1> QED BY <1>3, <1>4, <1>6, <1>8, <1>9, RowsKept

LEMMA OperatorRows ==
  ASSUME TInv, RInv, NEW s \in Scans, up,
         Operator(s) \/ ProgressCopy(s) \/ ProgressCommit(s) \/ Erase(s)
  PROVE  RInv'
<1> USE DEF operatorRest, taskRest
<1>1. worker \in [Scans -> Phases] /\ live \in [Scans -> Statuses \cup {"none"}]
      /\ file \in [Scans -> Statuses \cup {"none"}]
  BY DEF TInv, TypeOK, Statuses
<1>2. CASE Trigger(s) \/ Cancel(s)
  <2>1. /\ UNCHANGED <<storeVars, up, snapshot, file, request>>
        /\ worker' = worker \/ Enter(s, "reserved")
        /\ live' = live \/ live' = [live EXCEPT ![s] = "running"]
    BY <1>2 DEF Trigger, Cancel
  <2>2. \A t \in Scans : live[t] # "none" => live'[t] # "none"
    BY <1>1, <2>1
  <2>3. \A t \in Scans : Recorded(t) => Recorded(t)'
    BY <2>1 DEF storeVars, Recorded, HasRow
  <2>4. \A t \in Scans : worker'[t] = "dumping" => worker[t] = "dumping"
    BY <1>1, <2>1 DEF Enter
  <2> QED BY <2>1, <2>2, <2>3, <2>4, RowsKept DEF storeVars
<1>3. CASE ProgressCopy(s)
  <2>1. live[s] # "none"
    BY <1>3 DEF ProgressCopy, TInv, LiveOwned
  <2>2. \A t \in Scans : snapshot'[t] => snapshot[t] \/ live[t] # "none"
    BY <1>3, <2>1 DEF ProgressCopy, TInv, TypeOK
  <2>3. \A t \in Scans : Recorded(t) => Recorded(t)'
    BY <1>3 DEF ProgressCopy, storeVars, Recorded, HasRow
  <2> QED BY <1>3, <2>2, <2>3, RowsKept DEF ProgressCopy, storeVars
<1>4. CASE ProgressCommit(s)
  <2>1. live[s] # "none"
    BY <1>4 DEF ProgressCommit, RInv
  <2>2. Blank("running") \in Row /\ Blank("running").status # "absent"
    BY Documents DEF Statuses, Active, Blank
  <2>3. /\ \A t \in Scans : Recorded(t) => Recorded(t)'
        /\ \A t \in Scans : scans'[t].status \in Active =>
                              scans[t].status \in Active \/ live[t] # "none"
    BY <1>4, <2>1, <2>2, SaveRow DEF ProgressCommit
  <2>4. \A t \in Scans : snapshot'[t] => snapshot[t]
    BY <1>4 DEF ProgressCommit, TInv, TypeOK
  <2> QED BY <1>4, <2>3, <2>4, RowsKept DEF ProgressCommit
<1>5. CASE Erase(s)
  <2>1. \A t \in Scans : file'[t] \in Active => file[t] \in Active
    BY <1>1, <1>5 DEF Erase, Active
  <2>2. \A t \in Scans : Recorded(t) => Recorded(t)'
    BY <1>5 DEF Erase, storeVars, Recorded, HasRow
  <2> QED BY <1>5, <2>1, <2>2, RowsKept DEF Erase, storeVars
\* A purge leaves a tombstone where it removes a row.
<1>6. CASE PurgeScan(s)
  <2>1. \A t \in Scans : scans'[t] = IF t = s THEN NoRow ELSE scans[t]
    BY <1>6 DEF PurgeScan, Purge, TInv, TypeOK, StoreTypeOK
  <2>2. \A t \in Scans : Recorded(t) => Recorded(t)'
    BY <1>6, <2>1 DEF PurgeScan, Purge, Recorded, HasRow
  <2>3. \A t \in Scans : scans'[t].status \in Active => scans[t].status \in Active
    BY <2>1 DEF NoRow, Blank, Active
  <2> QED BY <1>6, <2>2, <2>3, RowsKept DEF PurgeScan
<1>7. ASSUME NEW expected, TriageCommit(s, expected) PROVE RInv'
  <2>1. \A t \in Scans : scans'[t].status = scans[t].status
    BY <1>7 DEF TriageCommit, Triage, Triaged, TInv, TypeOK, StoreTypeOK
  <2>2. \A t \in Scans : Recorded(t) => Recorded(t)'
    BY <1>7, <2>1 DEF TriageCommit, Triage, Recorded, HasRow
  <2> QED BY <1>7, <2>1, <2>2, RowsKept DEF TriageCommit
<1> QED BY <1>2, <1>3, <1>4, <1>5, <1>6, <1>7 DEF Operator

LEMMA RequestRows ==
  ASSUME TInv, RInv, Settled, NEW q \in Requests, Request(q)
  PROVE  RInv'
<1> USE DEF requestRest, taskVars
<1> DEFINE RowsSourced ==
      \A t \in Scans : /\ Recorded(t) => Recorded(t)'
                       /\ scans'[t].status \in Active =>
                            scans[t].status \in Active \/ live[t] # "none"
<1>1. ASSUME NEW state, Sourced(state), RowsSourced, Become(q, state), UNCHANGED requestRest
      PROVE  RInv'
  <2>1. \A p \in Requests : request'[p] = request[p] \/ request'[p] = state
    BY <1>1 DEF Become, TInv, TypeOK
  <2>2. Sourced(state)'
    BY <1>1 DEF Sourced
  <2>3. \A p \in Requests : request'[p] = request[p] \/ Sourced(request[p])'
    BY <1>1, <2>1 DEF Sourced
  <2> QED BY <1>1, <2>3, RowsKept
<1>2. UNCHANGED storeVars => RowsSourced
  BY DEF storeVars, Recorded, HasRow
<1>3. ASSUME Save(request[q].scan, request[q].doc), request[q].pc \in {"importing", "copied"}
      PROVE  RowsSourced
  <2>1. Sourced(request[q]) /\ request[q].doc \in Row
    BY DEF RInv, TInv, TypeOK
  <2> QED BY <1>3, <2>1, SaveRow DEF Sourced
<1>4. request[q] \in [pc: {"idle", "import", "importing", "saving", "copied"},
                      visited: SUBSET Scans, refs: SUBSET (Scans \X (Row \cup {LiveRef})),
                      scan: Scans \cup {0}, doc: Row]
      /\ \A ref \in request[q].refs : ref[2] # NoRow /\ ref[2].status \notin Active
  BY DEF TInv, TypeOK, RInv, Sourced
<1>5. Sourced(Idle)
  BY DEF Idle, Sourced
<1> HIDE DEF RowsSourced
<1>6. CASE ListStart(q)
  <2> DEFINE refs == {<<s, tracked[s]>> : s \in {t \in Scans : Tracked(t)}}
             state == [Idle EXCEPT !.pc = "import", !.refs = refs]
  <2>1. state.pc = "import" /\ state.refs = refs
    BY DEF Idle
  <2>2. ASSUME NEW ref \in refs PROVE ref[2] # NoRow /\ ref[2].status \notin Active
    <3>1. PICK s \in Scans : ref[2] = tracked[s] /\ Tracked(s)
      OBVIOUS
    <3> QED BY <3>1 DEF Tracked, Settled, LiveRef, Blank, Active
  <2>3. Become(q, state) /\ UNCHANGED <<storeVars, requestRest>>
    BY <1>6 DEF ListStart
  <2> HIDE DEF state, refs
  <2> QED BY <1>1, <1>2, <2>1, <2>2, <2>3 DEF Sourced
<1>7. ASSUME NEW s \in Scans, DetailsStart(q, s) PROVE RInv'
  <2> DEFINE state == [Idle EXCEPT !.pc = "import", !.visited = Scans \ {s}]
  <2>1. state.pc = "import" /\ state.refs = {}
    BY DEF Idle
  <2> HIDE DEF state
  <2> QED BY <1>1, <1>2, <1>7, <2>1 DEF DetailsStart, Sourced, state
\* A file is imported only when its scan has no row and no tombstone.
<1>8. ASSUME NEW s \in Scans, ImportCheck(q, s) PROVE RInv'
  <2> DEFINE state == [request[q] EXCEPT !.pc = "importing", !.visited = @ \cup {s},
                                         !.scan = s, !.doc = Blank(file[s])]
  <2>1. state.scan = s /\ state.refs = request[q].refs /\ state.doc = Blank(file[s])
    BY <1>4
  <2>2. file[s] \notin Active
    BY <1>8 DEF ImportCheck, Importable, RInv, Recorded
  <2>3. file[s] # "absent"
    BY DEF TInv, TypeOK, Active, Final
  <2> HIDE DEF state
  <2>4. Sourced(state)
    BY <1>4, <2>1, <2>2, <2>3 DEF Sourced, Blank
  <2> QED BY <1>1, <1>2, <1>8, <2>4 DEF ImportCheck, state
<1>9. CASE ImportSave(q)
  <2> DEFINE state == [request[q] EXCEPT !.pc = "import", !.scan = 0, !.doc = NoRow]
  <2>1. state.pc = "import" /\ state.refs = request[q].refs
    BY <1>4
  <2> HIDE DEF state
  <2>2. Sourced(state)
    BY <1>4, <2>1 DEF Sourced
  <2> QED BY <1>1, <1>3, <1>9, <2>2 DEF ImportSave, state
<1>10. CASE ImportDone(q)
  <2> DEFINE state == [request[q] EXCEPT !.pc = "saving", !.visited = {}]
  <2>1. state.pc = "saving" /\ state.refs = request[q].refs
    BY <1>4
  <2>2. Become(q, Idle) \/ Become(q, state)
    BY <1>10 DEF ImportDone
  <2> HIDE DEF state
  <2>3. Sourced(state)
    BY <1>4, <2>1 DEF Sourced
  <2> QED BY <1>1, <1>2, <1>5, <1>10, <2>2, <2>3 DEF ImportDone
<1>11. CASE ListCopy(q)
  <2>1. PICK ref \in request[q].refs :
          Become(q, [request[q] EXCEPT !.pc = "copied", !.refs = @ \ {ref}, !.scan = ref[1],
                       !.doc = IF ref[2] = LiveRef THEN LiveDocument(ref[1]) ELSE ref[2]])
    BY <1>11 DEF ListCopy
  <2> DEFINE doc == IF ref[2] = LiveRef THEN LiveDocument(ref[1]) ELSE ref[2]
             state == [request[q] EXCEPT !.pc = "copied", !.refs = @ \ {ref},
                                         !.scan = ref[1], !.doc = doc]
  <2>2. ref[1] \in Scans /\ ref[2] \in Row \cup {LiveRef} /\ ref[2] # NoRow
    BY <1>4
  <2>3. doc.status # "absent" /\ (doc.status \in Active => live[ref[1]] # "none")
    <3>1. CASE ref[2] = LiveRef
      <4>1. live[ref[1]] # "none" /\ live[ref[1]] \in Statuses
        BY <2>2, <3>1, LiveStatus DEF TInv, LiveOwned
      <4> QED BY <3>1, <4>1 DEF LiveDocument, Blank, Statuses, Active, Final
    <3>2. CASE ref[2] # LiveRef
      <4>1. ref[2] \in Document /\ ref[2].status \notin Active
        BY <1>4, <2>2, <3>2 DEF Row
      <4> QED BY <3>2, <4>1 DEF Document, Active, Final
    <3> QED BY <3>1, <3>2
  <2>4. state.scan = ref[1] /\ state.refs \subseteq request[q].refs /\ state.doc = doc
    BY <1>4
  <2>5. Become(q, state)
    BY <2>1
  <2> HIDE DEF doc, state
  <2>6. Sourced(state)
    BY <1>4, <2>2, <2>3, <2>4 DEF Sourced
  <2> QED BY <1>1, <1>2, <1>11, <2>5, <2>6 DEF ListCopy
<1>12. CASE ListCommit(q)
  <2> DEFINE state == [request[q] EXCEPT !.pc = "saving", !.scan = 0, !.doc = NoRow]
  <2>1. state.pc = "saving" /\ state.refs = request[q].refs
    BY <1>4
  <2>2. Become(q, Idle) \/ Become(q, state)
    BY <1>12 DEF ListCommit
  <2> HIDE DEF state
  <2>3. Sourced(state)
    BY <1>4, <2>1 DEF Sourced
  <2> QED BY <1>1, <1>3, <1>5, <1>12, <2>2, <2>3 DEF ListCommit
<1> QED
  BY <1>6, <1>7, <1>8, <1>9, <1>10, <1>11, <1>12 DEF Request

LEMMA RowStep == TInv /\ SInv /\ RInv /\ [Next]_vars => RInv'
<1> SUFFICES ASSUME TInv, SInv, RInv, [Next]_vars PROVE RInv'
  OBVIOUS
<1>1. ASSUME NEW r \in returning, TriageReturn(r[1], r[2]) PROVE RInv'
  <2>1. \A t \in Scans : Recorded(t) => Recorded(t)'
    BY <1>1 DEF TriageReturn, storeVars, Recorded, HasRow
  <2> QED BY <1>1, <2>1, RowsKept DEF TriageReturn, operatorRest, storeVars
<1>2. ASSUME NEW s \in Scans, RecoverRow(s), ~up PROVE RInv'
  <2>1. [scans[s] EXCEPT !.status = "interrupted"] \in Row
        /\ [scans[s] EXCEPT !.status = "interrupted"].status # "absent"
    BY <1>2 DEF RecoverRow, TInv, TypeOK, StoreTypeOK, Row, Document, NoRow, Blank, Active, Final
  <2>2. \A t \in Scans : Recorded(t) => Recorded(t)'
    BY <1>2, <2>1, SaveRow DEF RecoverRow
  <2> QED BY <1>2, <2>2, RowsKept DEF RecoverRow, taskVars
<1>3. ASSUME Serve PROVE RInv'
  <2>1. \A t \in Scans : Recorded(t) => Recorded(t)'
    BY <1>3 DEF Serve, storeVars, Recorded, HasRow
  <2> QED BY <1>3, <2>1, RowsKept DEF Serve, storeVars, taskVars
<1>4. ASSUME Crash PROVE RInv'
  <2>1. \A t \in Scans : worker'[t] # "dumping" /\ ~snapshot'[t] /\ file'[t] = file[t]
    BY <1>4 DEF Crash
  <2>2. \A t \in Scans : Recorded(t) => Recorded(t)'
    BY <1>4 DEF Crash, storeVars, Recorded, HasRow
  <2>3. \A q \in Requests : Sourced(request[q])'
    BY <1>4 DEF Crash, Sourced, Idle
  <2> QED BY <1>4, <2>1, <2>2, <2>3 DEF Crash, RInv, RunningRowsOwned
<1>5. ASSUME UNCHANGED vars PROVE RInv'
  <2>1. \A t \in Scans : Recorded(t) => Recorded(t)'
    BY <1>5 DEF vars, storeVars, Recorded, HasRow
  <2> QED BY <1>5, <2>1, RowsKept DEF vars, storeVars, taskVars
<1> QED
  BY <1>1, <1>2, <1>3, <1>4, <1>5, NextCases, TaskRows, OperatorRows, RequestRows DEF SInv

LEMMA RowInit == Init => RInv
<1> SUFFICES ASSUME Init PROVE RInv
  OBVIOUS
<1>1. RunningRowsOwned
  BY DEF Init, StoreInit, RunningRowsOwned, NoRow, Blank, Active
<1>2. \A q \in Requests : Sourced(request[q])
  BY DEF Init, Sourced, Idle
<1> QED BY <1>1, <1>2 DEF Init, RInv, Active

(* Whenever requests are served, a row that says running belongs to a task  *)
(* of this run of the server: neither a request that holds an old document, *)
(* nor a late progress save, nor an imported file brings back a running row *)
(* that start-up has closed.                                                *)
THEOREM RunningRowsStayOwned == Spec => []RunningRowsOwned
<1>1. RInv => RunningRowsOwned
  BY DEF RInv
<1> QED
  BY <1>1, TypeInit, TypeStep, SlotInit, SlotStep, RowInit, RowStep, PTL DEF Spec

-----------------------------------------------------------------------------
(***************************************************************************)
(* The scan lifecycle uses the repository only in the ways ScanRepository  *)
(* allows.  Every save of the service maps to a save of a new document or  *)
(* of a copy read before; a crash, a start-up and the requests' handling   *)
(* of documents map to reads; triages and purges to themselves.            *)
(***************************************************************************)
\* The copy that a held document is.
Abs(h) == <<h[1], [rev |-> h[2].rev, decided |-> h[2].decided]>>

Kept(h) == \E g \in Held : g[2].rev > 0 /\ Abs(g) = Abs(h)

\* A document of revision 0 was never triaged: saving it is saving a new one.
Pristine(doc) == doc.rev \in Nat /\ (doc.rev = 0 => doc.decided = {})

FInv ==
  /\ \A s \in Scans : Pristine(scans[s])
  /\ \A h \in Held : Pristine(h[2])

\* What a step may come to hold: what was held, new documents, and `new`.
HeldFrom(new) ==
  \A h \in Held' : h \in Held \/ (h[2].rev = 0 /\ Pristine(h[2])) \/ h \in new

LEMMA HeldCases ==
  ASSUME NEW h \in Held'
  PROVE  \/ \E s \in Scans : h = <<s, tracked'[s]>>
         \/ \E q \in Requests : h \in request'[q].refs \/ h = <<request'[q].scan, request'[q].doc>>
         \/ h \in returning'
         \/ \E s \in Scans : ~up' /\ h = <<s, scans'[s]>>
<1>1. \/ h \in {<<s, tracked'[s]>> : s \in Scans}
      \/ h \in UNION {request'[q].refs \cup {<<request'[q].scan, request'[q].doc>>} : q \in Requests}
      \/ h \in returning'
      \/ h \in {<<s, scans'[s]>> : s \in IF up' THEN {} ELSE Scans}
  BY DEF Held
<1> QED BY <1>1

LEMMA HeldNow ==
  /\ \A s \in Scans : <<s, tracked[s]>> \in Held
  /\ \A q \in Requests : /\ request[q].refs \subseteq Held
                         /\ <<request[q].scan, request[q].doc>> \in Held
  /\ returning \subseteq Held
  /\ \A s \in Scans : ~up => <<s, scans[s]>> \in Held
<1>1. \A s \in Scans : <<s, tracked[s]>> \in Held
  BY DEF Held
<1>2. ASSUME NEW q \in Requests
      PROVE  request[q].refs \cup {<<request[q].scan, request[q].doc>>} \subseteq Held
  BY DEF Held
<1>3. returning \subseteq Held
  BY DEF Held
<1>4. ASSUME NEW s \in Scans, ~up PROVE <<s, scans[s]>> \in Held
  <2>1. <<s, scans[s]>> \in {<<t, scans[t]>> : t \in IF up THEN {} ELSE Scans}
    BY <1>4
  <2> QED BY <2>1 DEF Held
<1> QED BY <1>1, <1>2, <1>3, <1>4

LEMMA Blanks ==
  /\ \A st : Blank(st).rev = 0 /\ Pristine(Blank(st))
  /\ NoRow.rev = 0 /\ Pristine(NoRow) /\ LiveRef.rev = 0 /\ Pristine(LiveRef)
BY DEF Blank, NoRow, LiveRef, Pristine

\* What is held after a step that comes to hold `new` are copies held before
\* and those of `new`.
LEMMA Keeps ==
  ASSUME NEW STATE new, HeldFrom(new), NEW h \in Held', h[2].rev > 0
  PROVE  Kept(h) \/ h \in new
BY DEF HeldFrom, Kept

\* A step that saves nothing is a read.
LEMMA Reads ==
  ASSUME NEW STATE new, HeldFrom(new), UNCHANGED storeVars,
         \A h \in new : Kept(h) \/ \E s \in Scans : HasRow(s) /\ h = <<s, scans[s]>>
  PROVE  Repo!Next
<1> DEFINE read == {<<s, Repo!CopyOf(scans[s])>> : s \in {t \in Scans : HasRow(t)}}
<1>1. ASSUME NEW h \in Held', h[2].rev > 0
      PROVE  Abs(h) \in {Abs(g) : g \in {f \in Held : f[2].rev > 0}} \cup read
  <2>1. Kept(h) \/ h \in new
    BY <1>1, Keeps
  <2>2. CASE Kept(h)
    BY <2>2 DEF Kept
  <2>3. ASSUME NEW s \in Scans, HasRow(s), h = <<s, scans[s]>> PROVE Abs(h) \in read
    BY <2>3 DEF Abs, Repo!CopyOf
  <2> HIDE DEF read
  <2> QED BY <2>1, <2>2, <2>3
<1> HIDE DEF read
<1>2. Repo!Keep(read)
  BY <1>1 DEF Repo!Keep, Abs
<1> QED BY <1>2 DEF Repo!Next, Repo!Read, Repo!storeVars, Repo!planVars, storeVars, read, HasRow, Repo!HasRow

\* A save of a new document, or of one that is held with any status, is a save
\* of a copy.
LEMMA Saves ==
  ASSUME NEW STATE new, HeldFrom(new), \A h \in new : Kept(h),
         NEW s \in Scans, NEW STATE doc, doc \in Document, Pristine(doc),
         doc.rev = 0 \/ Kept(<<s, doc>>), Save(s, doc)
  PROVE  Repo!Next
<1> DEFINE copy == [rev |-> doc.rev, decided |-> doc.decided]
<1>1. ASSUME NEW h \in Held', h[2].rev > 0
      PROVE  Abs(h) \in {Abs(g) : g \in {f \in Held : f[2].rev > 0}}
  BY <1>1, Keeps DEF Kept
<1>2. Repo!Keep({})
  BY <1>1 DEF Repo!Keep, Abs
<1>3. <<s, copy>> \in {Abs(g) : g \in {f \in Held : f[2].rev > 0}} \cup (Scans \X {Repo!NewCopy})
  <2>1. CASE Kept(<<s, doc>>)
    BY <2>1 DEF Kept, Abs
  <2>2. CASE doc.rev = 0
    BY <2>2 DEF Pristine, Repo!NewCopy
  <2> QED BY <2>1, <2>2 DEF Pristine
<1>4. Repo!As(copy, doc.status) = doc
  BY DEF Repo!As, Document
<1>5. copy = Repo!NewCopy \/ <<s, copy>> \in {Abs(g) : g \in {f \in Held : f[2].rev > 0}}
  BY <1>3
<1>6. Repo!Save(s, doc)
  BY DEF Save, Repo!Save, HasRow, Repo!HasRow, Newer, Repo!Newer
<1>7. Repo!SaveCopy(s, copy, doc.status)
  <2> HIDE DEF copy
  <2> QED BY <1>2, <1>4, <1>5, <1>6 DEF Repo!SaveCopy, Repo!planVars, Abs
<1>8. doc.status \in Active \cup Final
  BY DEF Document
<1>9. <<s, copy>>[1] = s /\ <<s, copy>>[2] = copy
  OBVIOUS
<1> HIDE DEF copy
<1> QED BY <1>3, <1>7, <1>8, <1>9 DEF Repo!Next, Abs, Repo!Active, Repo!Final, Active, Final

\* What is held stays pristine.
LEMMA HeldPristine ==
  ASSUME FInv, NEW STATE new, HeldFrom(new), \A h \in new : Pristine(h[2]),
         \A s \in Scans : Pristine(scans'[s])
  PROVE  FInv'
<1>1. ASSUME NEW h \in Held' PROVE Pristine(h[2])
  BY DEF HeldFrom, FInv
<1> QED BY <1>1 DEF FInv, Pristine

LEMMA ReadStep ==
  ASSUME FInv, HeldFrom({}), UNCHANGED storeVars
  PROVE  FInv' /\ Repo!Next
<1>1. \A s \in Scans : Pristine(scans'[s])
  BY DEF storeVars, FInv
<1> QED BY <1>1, HeldPristine, Reads

LEMMA SaveStep ==
  ASSUME TInv, FInv, HeldFrom({}), NEW s \in Scans, NEW STATE doc, doc \in Document, Pristine(doc),
         doc.rev = 0 \/ Kept(<<s, doc>>), Save(s, doc)
  PROVE  FInv' /\ Repo!Next
<1>1. \A t \in Scans : scans'[t] = scans[t] \/ scans'[t] = doc
  BY DEF Save, TInv, TypeOK, StoreTypeOK
<1>2. \A t \in Scans : Pristine(scans'[t])
  BY <1>1 DEF FInv
<1> QED BY <1>2, HeldPristine, Saves

LEMMA HeldSame ==
  ASSUME up, UNCHANGED <<up, tracked, request, returning>>
  PROVE  HeldFrom({})
<1>1. Held' = Held
  BY DEF Held
<1> QED BY <1>1 DEF HeldFrom

\* Entries of ACTIVE_SCANS are dropped, new, or taken from what is held.
LEMMA HeldTracked ==
  ASSUME up, up', UNCHANGED request, returning' \subseteq returning,
         \A s \in Scans : tracked'[s] \in {tracked[s], NoRow, LiveRef}
                            \/ <<s, tracked'[s]>> \in returning
  PROVE  HeldFrom({})
<1>1. ASSUME NEW h \in Held'
      PROVE  h \in Held \/ (h[2].rev = 0 /\ Pristine(h[2]))
  <2>1. ASSUME NEW s \in Scans, h = <<s, tracked'[s]>>
        PROVE  h \in Held \/ (h[2].rev = 0 /\ Pristine(h[2]))
    <3>1. CASE tracked'[s] = tracked[s] \/ <<s, tracked'[s]>> \in returning
      BY <2>1, <3>1, HeldNow
    <3>2. CASE tracked'[s] = NoRow \/ tracked'[s] = LiveRef
      BY <2>1, <3>2, Blanks
    <3> QED BY <3>1, <3>2
  <2>2. ASSUME NEW q \in Requests, h \in request'[q].refs \/ h = <<request'[q].scan, request'[q].doc>>
        PROVE  h \in Held
    BY <2>2, HeldNow
  <2>3. h \in returning' => h \in Held
    BY HeldNow
  <2> QED BY <2>1, <2>2, <2>3, HeldCases
<1> QED BY <1>1 DEF HeldFrom

LEMMA TaskRefines ==
  ASSUME TInv, FInv, NEW s \in Scans, Task(s), up
  PROVE  FInv' /\ Repo!Next
<1>1. UNCHANGED <<up, tracked, request, returning>>
  BY DEF Task, TriggerSaved, TriggerLost, WorkerStart, WorkerFailsEarly, WorkerExit, Cleanup,
         Report, ReportFails, TaskCancelled, FinalSave, FinalSaveFails, Dump, taskRest
<1>2. UNCHANGED storeVars \/ Save(s, LiveDocument(s))
  BY DEF Task, TriggerSaved, TriggerLost, WorkerStart, WorkerFailsEarly, WorkerExit, Cleanup,
         Report, ReportFails, TaskCancelled, FinalSave, FinalSaveFails, Dump
<1>3. LiveDocument(s) \in Document
  <2>1. worker[s] \notin {"none", "gone"}
    BY DEF Task, TriggerSaved, TriggerLost, WorkerStart, WorkerFailsEarly, WorkerExit, Cleanup,
           Report, ReportFails, TaskCancelled, FinalSave, FinalSaveFails, Dump, Outcomes
  <2> QED BY <2>1, LiveStatus DEF TInv, LiveOwned
<1>4. LiveDocument(s).rev = 0 /\ Pristine(LiveDocument(s))
  BY Blanks DEF LiveDocument
<1>5. HeldFrom({})
  BY <1>1, HeldSame
<1>6. CASE UNCHANGED storeVars
  BY <1>5, <1>6, ReadStep
<1>7. CASE Save(s, LiveDocument(s))
  BY <1>3, <1>4, <1>5, <1>7, SaveStep
<1> QED BY <1>2, <1>6, <1>7

LEMMA OperatorRefines ==
  ASSUME TInv, FInv, NEW s \in Scans, up,
         Operator(s) \/ ProgressCopy(s) \/ ProgressCommit(s) \/ Erase(s)
  PROVE  FInv' /\ Repo!Next
<1> USE DEF operatorRest, taskRest
<1>1. CASE Cancel(s) \/ ProgressCopy(s) \/ Erase(s)
  <2>1. UNCHANGED <<storeVars, up, tracked, request, returning>>
    BY <1>1 DEF Cancel, ProgressCopy, Erase
  <2> QED BY <2>1, HeldSame, ReadStep
<1>2. CASE ProgressCommit(s)
  <2>1. UNCHANGED <<up, tracked, request, returning>> /\ Save(s, Blank("running"))
    BY <1>2 DEF ProgressCommit
  <2>2. Blank("running") \in Document
    BY Documents DEF Statuses, Active
  <2>3. Blank("running").rev = 0 /\ Pristine(Blank("running"))
    BY Blanks
  <2> QED BY <2>1, <2>2, <2>3, HeldSame, SaveStep
<1>3. CASE Trigger(s)
  <2>1. \A t \in Scans : tracked'[t] \in {tracked[t], NoRow, LiveRef}
    BY <1>3 DEF Trigger, Evicted, Without, TInv, TypeOK
  <2>2. UNCHANGED <<storeVars, up, request, returning>>
    BY <1>3 DEF Trigger
  <2>3. HeldFrom({})
    BY <2>1, <2>2, HeldTracked
  <2> QED BY <2>2, <2>3, ReadStep
<1>4. CASE PurgeScan(s)
  <2>1. \A t \in Scans : tracked'[t] \in {tracked[t], NoRow}
    BY <1>4 DEF PurgeScan, TInv, TypeOK
  <2>2. UNCHANGED <<up, request, returning>> /\ Purge(s, scans[s].rev)
    BY <1>4 DEF PurgeScan
  <2>3. HeldFrom({})
    BY <2>1, <2>2, HeldTracked
  <2>4. \A t \in Scans : Pristine(scans'[t])
    BY <2>2, Blanks DEF Purge, FInv, TInv, TypeOK, StoreTypeOK
  <2>5. FInv'
    BY <2>3, <2>4, HeldPristine
  <2>6. ASSUME NEW h \in Held', h[2].rev > 0
        PROVE  Abs(h) \in {Abs(g) : g \in {f \in Held : f[2].rev > 0}}
    BY <2>3, <2>6, Keeps DEF Kept
  <2>7. Repo!Keep({})
    BY <2>6 DEF Repo!Keep, Abs
  <2>8. Repo!Purge(s, scans[s].rev)
    BY <2>2 DEF Purge, Repo!Purge, HasRow, Repo!HasRow, NoRow, Repo!NoRow, Blank, Repo!Blank,
                NoPlan, Repo!NoPlan, Active, Repo!Active
  <2>9. Repo!PurgeScan(s, scans[s].rev)
    BY <2>7, <2>8 DEF Repo!PurgeScan
  <2> QED BY <2>5, <2>9 DEF Repo!Next
<1>5. ASSUME NEW expected \in {-1, scans[s].rev}, TriageCommit(s, expected)
      PROVE  FInv' /\ Repo!Next
  <2> DEFINE new == {<<s, Triaged(s)>>}
  <2>1. UNCHANGED <<up, tracked, request>> /\ returning' = returning \cup new /\ Triage(s, expected)
    BY <1>5 DEF TriageCommit
  <2>2. Triaged(s).rev = scans[s].rev + 1 /\ scans[s].rev \in Nat
    BY DEF Triaged, FInv, Pristine
  <2>3. Pristine(Triaged(s))
    BY <2>2 DEF Pristine
  <2>4. HeldFrom(new)
    BY <2>1, HeldCases, HeldNow DEF HeldFrom
  <2>5. \A t \in Scans : Pristine(scans'[t])
    BY <2>1, <2>3 DEF Triage, FInv, TInv, TypeOK, StoreTypeOK
  <2>6. FInv'
    <3>1. \A h \in new : Pristine(h[2])
      BY <2>3
    <3> HIDE DEF new
    <3> QED BY <2>4, <2>5, <3>1, HeldPristine
  <2>7. ASSUME NEW h \in Held', h[2].rev > 0
        PROVE  Abs(h) \in {Abs(g) : g \in {f \in Held : f[2].rev > 0}}
                            \cup {<<s, Repo!CopyOf(Repo!Triaged(s))>>}
    <3>1. Kept(h) \/ h \in new
      <4> HIDE DEF new
      <4> QED BY <2>4, <2>7, Keeps
    <3>2. Abs(<<s, Triaged(s)>>) = <<s, Repo!CopyOf(Repo!Triaged(s))>>
      BY DEF Abs, Repo!CopyOf, Repo!Triaged, Triaged
    <3> QED BY <3>1, <3>2 DEF Kept
  <2>8. Repo!Keep({<<s, Repo!CopyOf(Repo!Triaged(s))>>})
    BY <2>7 DEF Repo!Keep, Abs
  <2>9. Repo!Triage(s, expected)
    BY <2>1 DEF Triage, Repo!Triage, HasRow, Repo!HasRow, Triaged, Repo!Triaged, Active, Repo!Active
  <2>10. Repo!Decide(s, expected)
    BY <2>8, <2>9 DEF Repo!Decide, Repo!planVars
  <2> QED BY <2>6, <2>10 DEF Repo!Next
<1> QED BY <1>1, <1>2, <1>3, <1>4, <1>5 DEF Operator

\* What a request comes to hold it takes from what is held, or makes new.
LEMMA HeldRequest ==
  ASSUME TInv, up, NEW q \in Requests, NEW STATE state, Become(q, state), UNCHANGED requestRest,
         \A ref \in state.refs : ref \in Held,
         <<state.scan, state.doc>> \in Held
           \/ (state.doc.rev = 0 /\ Pristine(state.doc))
  PROVE  HeldFrom({})
<1>1. UNCHANGED <<up, tracked, returning>>
  BY DEF requestRest, taskVars
<1>2. \A p \in Requests : request'[p] = request[p] \/ request'[p] = state
  BY DEF Become, TInv, TypeOK
<1>3. ASSUME NEW h \in Held'
      PROVE  h \in Held \/ (h[2].rev = 0 /\ Pristine(h[2]))
  <2>1. ASSUME NEW s \in Scans, h = <<s, tracked'[s]>> PROVE h \in Held
    BY <1>1, <2>1, HeldNow
  <2>2. ASSUME NEW p \in Requests, h \in request'[p].refs \/ h = <<request'[p].scan, request'[p].doc>>
        PROVE  h \in Held \/ (h[2].rev = 0 /\ Pristine(h[2]))
    <3>1. CASE request'[p] = request[p]
      BY <2>2, <3>1, HeldNow
    <3>2. CASE request'[p] = state
      BY <2>2, <3>2
    <3> QED BY <1>2, <3>1, <3>2
  <2>3. h \in returning' => h \in Held
    BY <1>1, HeldNow
  <2> QED BY <1>1, <2>1, <2>2, <2>3, HeldCases
<1> QED BY <1>3 DEF HeldFrom

LEMMA RequestRefines ==
  ASSUME TInv, RInv, FInv, NEW q \in Requests, Request(q), up
  PROVE  FInv' /\ Repo!Next
<1>1. request[q] \in [pc: {"idle", "import", "importing", "saving", "copied"},
                      visited: SUBSET Scans, refs: SUBSET (Scans \X (Row \cup {LiveRef})),
                      scan: Scans \cup {0}, doc: Row]
  BY DEF TInv, TypeOK
<1>2. \A ref \in request[q].refs : ref \in Held
  BY HeldNow
<1>3. ASSUME NEW STATE state, Become(q, state), UNCHANGED requestRest,
             \A ref \in state.refs : ref \in Held,
             <<state.scan, state.doc>> \in Held \/ (state.doc.rev = 0 /\ Pristine(state.doc)),
             \/ UNCHANGED storeVars
             \/ request[q].pc \in {"importing", "copied"} /\ Save(request[q].scan, request[q].doc)
      PROVE  FInv' /\ Repo!Next
  <2>1. HeldFrom({})
    BY <1>3, HeldRequest
  <2>2. CASE UNCHANGED storeVars
    BY <2>1, <2>2, ReadStep
  <2>3. CASE request[q].pc \in {"importing", "copied"} /\ Save(request[q].scan, request[q].doc)
    <3>1. request[q].scan \in Scans /\ request[q].doc \in Document
      <4>1. Sourced(request[q])
        BY DEF RInv
      <4> QED BY <1>1, <2>3, <4>1 DEF Sourced, Row, NoRow, Blank
    <3>2. <<request[q].scan, request[q].doc>> \in Held /\ Pristine(request[q].doc)
      <4>1. <<request[q].scan, request[q].doc>> \in Held
        BY HeldNow
      <4> QED BY <4>1 DEF FInv
    <3>3. request[q].doc.rev = 0 \/ Kept(<<request[q].scan, request[q].doc>>)
      BY <3>2 DEF Pristine, Kept
    <3> QED BY <2>1, <2>3, <3>1, <3>2, <3>3, SaveStep
  <2> QED BY <1>3, <2>2, <2>3
<1> USE Blanks
<1>4. /\ Idle.refs = {} /\ Idle.doc.rev = 0 /\ Pristine(Idle.doc)
  BY DEF Idle
<1>5. <<request[q].scan, request[q].doc>> \in Held
  BY HeldNow
<1>6. CASE ListStart(q)
  <2> DEFINE refs == {<<s, tracked[s]>> : s \in {t \in Scans : Tracked(t)}}
             state == [Idle EXCEPT !.pc = "import", !.refs = refs]
  <2>1. state.refs = refs /\ state.doc = NoRow
    BY DEF Idle
  <2>2. \A ref \in refs : ref \in Held
    BY HeldNow
  <2>3. Become(q, state) /\ UNCHANGED <<storeVars, requestRest>>
    BY <1>6 DEF ListStart
  <2> HIDE DEF state, refs
  <2> QED BY <1>3, <2>1, <2>2, <2>3
<1>7. ASSUME NEW s \in Scans, DetailsStart(q, s) PROVE FInv' /\ Repo!Next
  <2> DEFINE state == [Idle EXCEPT !.pc = "import", !.visited = Scans \ {s}]
  <2>1. state.doc = NoRow /\ state.refs = {}
    BY DEF Idle
  <2>2. Become(q, state) /\ UNCHANGED <<storeVars, requestRest>>
    BY <1>7 DEF DetailsStart
  <2> HIDE DEF state
  <2> QED BY <1>3, <2>1, <2>2
<1>8. ASSUME NEW s \in Scans, ImportCheck(q, s) PROVE FInv' /\ Repo!Next
  <2> DEFINE state == [request[q] EXCEPT !.pc = "importing", !.visited = @ \cup {s},
                                         !.scan = s, !.doc = Blank(file[s])]
  <2>1. state.refs = request[q].refs /\ state.doc = Blank(file[s])
    BY <1>1
  <2>2. Become(q, state) /\ UNCHANGED <<storeVars, requestRest>>
    BY <1>8 DEF ImportCheck
  <2> HIDE DEF state
  <2> QED BY <1>2, <1>3, <2>1, <2>2
<1>9. CASE ImportSave(q)
  <2> DEFINE state == [request[q] EXCEPT !.pc = "import", !.scan = 0, !.doc = NoRow]
  <2>1. state.refs = request[q].refs /\ state.doc = NoRow
    BY <1>1
  <2>2. Become(q, state) /\ UNCHANGED requestRest /\ request[q].pc = "importing"
        /\ Save(request[q].scan, request[q].doc)
    BY <1>9 DEF ImportSave
  <2> HIDE DEF state
  <2> QED BY <1>2, <1>3, <2>1, <2>2
<1>10. CASE ImportDone(q)
  <2> DEFINE state == [request[q] EXCEPT !.pc = "saving", !.visited = {}]
  <2>1. state.refs = request[q].refs /\ state.scan = request[q].scan /\ state.doc = request[q].doc
    BY <1>1
  <2>2. (Become(q, Idle) \/ Become(q, state)) /\ UNCHANGED <<storeVars, requestRest>>
    BY <1>10 DEF ImportDone
  <2> HIDE DEF state
  <2>3. CASE Become(q, Idle)
    BY <1>3, <1>4, <2>2, <2>3
  <2>4. CASE Become(q, state)
    BY <1>2, <1>3, <1>5, <2>1, <2>2, <2>4
  <2> QED BY <2>2, <2>3, <2>4
<1>11. CASE ListCopy(q)
  <2>1. PICK ref \in request[q].refs :
          Become(q, [request[q] EXCEPT !.pc = "copied", !.refs = @ \ {ref}, !.scan = ref[1],
                       !.doc = IF ref[2] = LiveRef THEN LiveDocument(ref[1]) ELSE ref[2]])
    BY <1>11 DEF ListCopy
  <2> DEFINE doc == IF ref[2] = LiveRef THEN LiveDocument(ref[1]) ELSE ref[2]
             state == [request[q] EXCEPT !.pc = "copied", !.refs = @ \ {ref},
                                         !.scan = ref[1], !.doc = doc]
  <2>2. ref \in Held /\ ref = <<ref[1], ref[2]>>
    BY <1>1, <1>2
  <2>3. <<ref[1], doc>> \in Held \/ (doc.rev = 0 /\ Pristine(doc))
    BY <2>2 DEF LiveDocument
  <2>4. state.refs \subseteq request[q].refs /\ state.scan = ref[1] /\ state.doc = doc
    BY <1>1
  <2>5. Become(q, state) /\ UNCHANGED <<storeVars, requestRest>>
    BY <1>11, <2>1 DEF ListCopy
  <2> HIDE DEF doc, state
  <2> QED BY <1>2, <1>3, <2>3, <2>4, <2>5
<1>12. CASE ListCommit(q)
  <2> DEFINE state == [request[q] EXCEPT !.pc = "saving", !.scan = 0, !.doc = NoRow]
  <2>1. state.refs = request[q].refs /\ state.doc = NoRow
    BY <1>1
  <2>2. (Become(q, Idle) \/ Become(q, state)) /\ UNCHANGED requestRest /\ request[q].pc = "copied"
        /\ Save(request[q].scan, request[q].doc)
    BY <1>12 DEF ListCommit
  <2> HIDE DEF state
  <2>3. CASE Become(q, Idle)
    BY <1>3, <1>4, <2>2, <2>3
  <2>4. CASE Become(q, state)
    BY <1>2, <1>3, <2>1, <2>2, <2>4
  <2> QED BY <2>2, <2>3, <2>4
<1> QED
  BY <1>6, <1>7, <1>8, <1>9, <1>10, <1>11, <1>12 DEF Request

\* Start-up writes the rows it read with another status.
LEMMA RecoverRefines ==
  ASSUME TInv, FInv, NEW s \in Scans, RecoverRow(s), ~up
  PROVE  FInv' /\ Repo!Next
<1> DEFINE doc == [scans[s] EXCEPT !.status = "interrupted"]
           new == {h \in {<<s, doc>>} : scans[s].rev > 0}
<1>1. scans[s] \in Document
  BY DEF RecoverRow, TInv, TypeOK, StoreTypeOK, Row, NoRow, Blank, Active
<1>2. doc \in Document /\ doc.rev = scans[s].rev /\ doc.decided = scans[s].decided
  BY <1>1 DEF Document, Final
<1>3. Pristine(doc)
  BY <1>2 DEF FInv, Pristine
<1>4. <<s, scans[s]>> \in Held /\ Abs(<<s, scans[s]>>) = Abs(<<s, doc>>)
  BY <1>2, HeldNow DEF Abs
<1>5. scans[s].rev > 0 => Kept(<<s, doc>>)
  <2> HIDE DEF doc
  <2> QED BY <1>4 DEF Kept
<1>6. doc.rev = 0 \/ Kept(<<s, doc>>)
  BY <1>2, <1>3, <1>5 DEF Pristine
<1>7. Save(s, doc) /\ UNCHANGED <<up, tracked, request, returning>>
  BY DEF RecoverRow, taskVars
<1> HIDE DEF doc
<1>8. /\ scans' = [scans EXCEPT ![s] = doc]
      /\ scans \in [Scans -> Row]
  <2>1. ~Newer(s, doc)
    BY <1>1, <1>2 DEF Newer, Document
  <2> QED BY <1>7, <2>1 DEF Save, TInv, TypeOK, StoreTypeOK
<1>9. HeldFrom(new)
  <2>1. ASSUME NEW h \in Held'
        PROVE  h \in Held \/ (h[2].rev = 0 /\ Pristine(h[2])) \/ h \in new
    <3>1. ASSUME NEW t \in Scans, h = <<t, scans'[t]>>
          PROVE  h \in Held \/ (h[2].rev = 0 /\ Pristine(h[2])) \/ h \in new
      <4>1. CASE t = s
        BY <1>2, <1>3, <1>8, <3>1, <4>1 DEF Pristine
      <4>2. CASE t # s
        BY <1>8, <3>1, <4>2, HeldNow
      <4> QED BY <4>1, <4>2
    <3>2. ASSUME NEW t \in Scans, h = <<t, tracked'[t]>> PROVE h \in Held
      BY <1>7, <3>2, HeldNow
    <3>3. ASSUME NEW q \in Requests, h \in request'[q].refs \/ h = <<request'[q].scan, request'[q].doc>>
          PROVE  h \in Held
      BY <1>7, <3>3, HeldNow
    <3>4. h \in returning' => h \in Held
      BY <1>7, HeldNow
    <3> QED BY <3>1, <3>2, <3>3, <3>4, HeldCases
  <2> QED BY <2>1 DEF HeldFrom
<1>10. \A h \in new : Kept(h) /\ Pristine(h[2])
  BY <1>3, <1>5
<1> HIDE DEF new
<1>11. Repo!Next
  BY <1>2, <1>3, <1>6, <1>7, <1>9, <1>10, Saves
<1>12. \A t \in Scans : Pristine(scans'[t])
  BY <1>3, <1>8 DEF FInv
<1> QED BY <1>9, <1>10, <1>11, <1>12, HeldPristine

\* After a crash only the rows are known, and start-up reads the running ones.
LEMMA CrashRefines ==
  ASSUME TInv, FInv, Crash
  PROVE  FInv' /\ Repo!Next
<1> DEFINE new == {<<s, scans[s]>> : s \in {t \in Scans : HasRow(t)}}
<1>1. ASSUME NEW h \in Held'
      PROVE  (h[2].rev = 0 /\ Pristine(h[2])) \/ h \in new
  <2>1. ASSUME NEW s \in Scans, h = <<s, scans'[s]>>
        PROVE  (h[2].rev = 0 /\ Pristine(h[2])) \/ h \in new
    <3>1. scans[s] = NoRow \/ HasRow(s)
      BY DEF TInv, TypeOK, StoreTypeOK, Row, Document, HasRow, Active, Final
    <3>2. h = <<s, scans[s]>>
      BY <2>1 DEF Crash, storeVars
    <3> QED BY <3>1, <3>2, Blanks
  <2>2. ASSUME NEW s \in Scans, h = <<s, tracked'[s]>> PROVE h[2].rev = 0 /\ Pristine(h[2])
    BY <2>2, Blanks DEF Crash
  <2>3. ASSUME NEW q \in Requests, h \in request'[q].refs \/ h = <<request'[q].scan, request'[q].doc>>
        PROVE  h[2].rev = 0 /\ Pristine(h[2])
    BY <2>3, Blanks DEF Crash, Idle
  <2>4. h \notin returning'
    BY DEF Crash
  <2> QED BY <2>1, <2>2, <2>3, <2>4, HeldCases
<1>2. HeldFrom(new)
  BY <1>1 DEF HeldFrom
<1>3. /\ \A h \in new : \E s \in Scans : HasRow(s) /\ h = <<s, scans[s]>>
      /\ \A h \in new : Pristine(h[2])
  BY DEF FInv
<1>4. UNCHANGED storeVars
  BY DEF Crash
<1>5. \A s \in Scans : Pristine(scans'[s])
  BY <1>4 DEF storeVars, FInv
<1> HIDE DEF new
<1> QED BY <1>2, <1>3, <1>4, <1>5, Reads, HeldPristine

LEMMA StepRefines == TInv /\ RInv /\ FInv /\ [Next]_vars => FInv' /\ [Repo!Next]_(Repo!vars)
<1> SUFFICES ASSUME TInv, RInv, FInv, [Next]_vars PROVE FInv' /\ Repo!Next
  OBVIOUS
<1>1. ASSUME NEW r \in returning, TriageReturn(r[1], r[2]), up PROVE FInv' /\ Repo!Next
  <2>1. \A s \in Scans : tracked'[s] = tracked[s] \/ <<s, tracked'[s]>> \in returning
    BY <1>1 DEF TriageReturn, TInv, TypeOK
  <2>2. UNCHANGED <<storeVars, up, request>> /\ returning' \subseteq returning
    BY <1>1 DEF TriageReturn, operatorRest
  <2> QED BY <1>1, <2>1, <2>2, HeldTracked, ReadStep
<1>2. ASSUME Serve \/ UNCHANGED vars PROVE FInv' /\ Repo!Next
  <2>1. UNCHANGED <<storeVars, tracked, request, returning>> /\ (up' \/ up' = up)
    BY <1>2 DEF Serve, vars, taskVars
  <2>2. ASSUME NEW h \in Held' PROVE h \in Held
    <3>1. ASSUME NEW s \in Scans, h = <<s, tracked'[s]>> PROVE h \in Held
      BY <2>1, <3>1, HeldNow
    <3>2. ASSUME NEW q \in Requests, h \in request'[q].refs \/ h = <<request'[q].scan, request'[q].doc>>
          PROVE  h \in Held
      BY <2>1, <3>2, HeldNow
    <3>3. h \in returning' => h \in Held
      BY <2>1, HeldNow
    <3>4. ASSUME NEW s \in Scans, ~up', h = <<s, scans'[s]>> PROVE h \in Held
      BY <2>1, <3>4, HeldNow DEF storeVars
    <3> QED BY <3>1, <3>2, <3>3, <3>4, HeldCases
  <2>3. HeldFrom({})
    BY <2>2 DEF HeldFrom
  <2> QED BY <2>1, <2>3, ReadStep
<1> QED
  BY <1>1, <1>2, NextCases, TaskRefines, OperatorRefines, RequestRefines, RecoverRefines, CrashRefines

LEMMA InitRefines == Init => FInv /\ Repo!Init
<1> SUFFICES ASSUME Init PROVE FInv /\ Repo!Init
  OBVIOUS
<1>1. ASSUME NEW h \in Held PROVE h[2].rev = 0 /\ Pristine(h[2])
  <2>1. \/ \E s \in Scans : h = <<s, NoRow>>
        \/ \E q \in Requests : h = <<0, NoRow>>
    BY DEF Held, Init, Idle
  <2> QED BY <2>1, Blanks
<1>2. \A s \in Scans : Pristine(scans[s])
  BY Blanks DEF Init, StoreInit
<1>3. {Abs(g) : g \in {f \in Held : f[2].rev > 0}} = {}
  BY <1>1
<1>4. Repo!StoreInit
  BY DEF Init, StoreInit, Repo!StoreInit, NoRow, Repo!NoRow, Blank, Repo!Blank, NoPlan, Repo!NoPlan
<1> QED BY <1>1, <1>2, <1>3, <1>4 DEF FInv, Repo!Init, Abs

(* The whole service - tasks and their orphaned threads, progress saves,    *)
(* list and detail requests, imports, triages, purges, crashes and start-up *)
(* - only uses the repository as ScanRepository allows: whatever it saves   *)
(* is a new document or one it read, with its decisions as it read them.    *)
THEOREM RepositoryRefined == Spec => ImplementsRepository
<1>1. TInv /\ RInv /\ FInv /\ [Next]_vars => FInv' /\ [Repo!Next]_(Repo!vars)
  BY StepRefines
<1> QED
  BY <1>1, TypeInit, TypeStep, SlotInit, SlotStep, RowInit, RowStep, InitRefines, PTL
     DEF Spec, ImplementsRepository, Repo!Spec

\* The theorems about the repository, for the copies the service holds.
Promised == INSTANCE ScanRepositoryProofs WITH
  copies <- {Abs(h) : h \in {g \in Held : g[2].rev > 0}},
  planCopies <- {},
  accepted <- [s \in Scans |-> {}]

(* No interleaving of saves, imports, triages and restarts loses a decision *)
(* of a scan that was not purged.  (Repo and Promised are one module with   *)
(* one substitution: the first three steps only unfold the two names.)      *)
THEOREM DecisionsNeverLost == Spec => []DecisionsSurvive
<1>1. Repo!Init => Promised!Init
  BY DEF Repo!Init, Promised!Init, Repo!StoreInit, Promised!StoreInit, Repo!NoRow, Promised!NoRow,
         Repo!Blank, Promised!Blank, Repo!NoPlan, Promised!NoPlan, Abs
<1>2. Repo!Next => Promised!Next
  BY DEF Repo!Next, Promised!Next, Repo!Read, Promised!Read, Repo!SaveCopy, Promised!SaveCopy,
         Repo!Decide, Promised!Decide, Repo!OpenPlan, Promised!OpenPlan, Repo!EditPlan,
         Promised!EditPlan, Repo!PurgeScan, Promised!PurgeScan, Repo!Keep, Promised!Keep,
         Repo!planVars, Promised!planVars, Repo!storeVars, Promised!storeVars,
         Repo!CopyOf, Promised!CopyOf, Repo!NewCopy, Promised!NewCopy, Repo!As, Promised!As,
         Repo!Save, Promised!Save, Repo!Newer, Promised!Newer, Repo!HasRow, Promised!HasRow,
         Repo!Triage, Promised!Triage, Repo!Triaged, Promised!Triaged, Repo!Purge, Promised!Purge,
         Repo!SaveTestPlan, Promised!SaveTestPlan, Repo!NoRow, Promised!NoRow, Repo!Blank,
         Promised!Blank, Repo!NoPlan, Promised!NoPlan, Repo!Active, Promised!Active,
         Repo!Final, Promised!Final, Abs
<1>3. UNCHANGED Repo!vars => UNCHANGED Promised!vars
  BY DEF Repo!vars, Promised!vars, Repo!storeVars, Promised!storeVars, Abs
<1>4. Promised!DecisionsDurable => DecisionsSurvive
  BY DEF Promised!DecisionsDurable, DecisionsSurvive, Repo!DecisionsDurable
<1>5. Promised!Spec => []Promised!DecisionsDurable
  BY Promised!Durability, MaxRevAssumption
<1> QED
  BY <1>1, <1>2, <1>3, <1>4, <1>5, RepositoryRefined, PTL
     DEF ImplementsRepository, Repo!Spec, Promised!Spec
=============================================================================
