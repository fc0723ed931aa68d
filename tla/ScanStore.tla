------------------------------ MODULE ScanStore ------------------------------
(***************************************************************************)
(* The transactional part of src/mobileag/web/repository.py: the four      *)
(* SQLite tables of ScanRepository and the transactions on them.  Every    *)
(* writing method opens BEGIN IMMEDIATE before it reads, so each is one     *)
(* atomic step.  A scan document is abstracted to the three things the     *)
(* code decides on: its status, its revision, and which analyst decisions  *)
(* are applied to its findings.                                            *)
(***************************************************************************)
EXTENDS Integers

CONSTANTS Scans,      \* scan identifiers
          Editors,    \* clients that write a manual test plan
          MaxRev      \* bound: analyst decisions per scan

ASSUME MaxRevAssumption == MaxRev \in Nat

VARIABLES scans,       \* table scans: the row of each scan
          decisions,   \* table decisions: revisions recorded for each scan
          test_plans,  \* table test_plans: the plan of each scan
          tombstones   \* table tombstones: purged identifiers

storeVars == <<scans, decisions, test_plans, tombstones>>

Active == {"running"}   \* 'queued' and 'cancelling' are never assigned
Final  == {"completed", "partial", "error", "cancelled", "interrupted"}

\* A document as the callers hold it.  `decided` is the set of decisions
\* whose verdicts its findings carry, named by the revision each produced.
Document == [status: Active \cup Final, rev: Nat, decided: SUBSET Nat]
Blank(st) == [status |-> st, rev |-> 0, decided |-> {}]

NoRow == Blank("absent")
Row == Document \cup {NoRow}
HasRow(s) == scans[s].status # "absent"

\* A plan carries the edits of the clients whose saves it builds on.
\* Revision -1 is a missing plan, and an expected revision of None.
Plan == [rev: Int, edits: SUBSET Editors]
NoPlan == [rev |-> -1, edits |-> {}]

StoreTypeOK ==
  /\ scans \in [Scans -> Row]
  /\ decisions \in [Scans -> SUBSET Nat]
  /\ test_plans \in [Scans -> Plan]
  /\ tombstones \in SUBSET Scans

StoreInit ==
  /\ scans = [s \in Scans |-> NoRow]
  /\ decisions = [s \in Scans |-> {}]
  /\ test_plans = [s \in Scans |-> NoPlan]
  /\ tombstones = {}

\* A stored revision newer than the caller's wins; any other save replaces the
\* row.  The tombstone table is not consulted.
Newer(s, doc) == scans[s].rev > doc.rev

\* The operators named for a defect (this one and a few others in these
\* modules) are variants no action uses: substituting one for the definition
\* it precedes shows which property notices.
SaveUnconditionally(s, doc) ==
  /\ scans' = [scans EXCEPT ![s] = doc]
  /\ UNCHANGED <<decisions, test_plans, tombstones>>

Save(s, doc) ==
  /\ scans' = [scans EXCEPT ![s] = IF HasRow(s) /\ Newer(s, doc) THEN @ ELSE doc]
  /\ UNCHANGED <<decisions, test_plans, tombstones>>

\* One analyst decision: the finding, the revision and the history row change
\* in one transaction, on the document as it is stored now.  The caller may
\* name the revision it saw; an expected revision of None (-1) names none.
TriagedWithoutStatus(s) ==
  LET r == scans[s].rev + 1
  IN  [status |-> "unknown", rev |-> r, decided |-> scans[s].decided \cup {r}]

Triaged(s) ==
  LET r == scans[s].rev + 1
  IN  [status |-> scans[s].status, rev |-> r, decided |-> scans[s].decided \cup {r}]

Triage(s, expected) ==
  /\ HasRow(s)
  /\ expected \in {-1, scans[s].rev}
  /\ scans[s].status \notin Active
  /\ scans[s].rev < MaxRev
  /\ scans' = [scans EXCEPT ![s] = Triaged(s)]
  /\ decisions' = [decisions EXCEPT ![s] = @ \cup {scans[s].rev + 1}]
  /\ UNCHANGED <<test_plans, tombstones>>

\* A plan binds to a completed scan and replaces the plan the editor read.
SavePlanBlindly(s, e, base) ==
  /\ scans[s].status = "completed"
  /\ test_plans' = [test_plans EXCEPT ![s] =
                      [rev |-> @.rev + 1, edits |-> base.edits \cup {e}]]
  /\ UNCHANGED <<scans, decisions, tombstones>>

SaveTestPlan(s, e, base) ==
  /\ scans[s].status = "completed"
  /\ base.rev = test_plans[s].rev
  /\ test_plans' = [test_plans EXCEPT ![s] =
                      [rev |-> @.rev + 1, edits |-> base.edits \cup {e}]]
  /\ UNCHANGED <<scans, decisions, tombstones>>

\* The revision the operator previewed must still be the stored one, and the
\* scan must not be active; then everything recorded about it goes at once.
PurgeKeepingPlan(s, rev) ==
  /\ HasRow(s)
  /\ scans[s].rev = rev
  /\ scans[s].status \notin Active
  /\ scans' = [scans EXCEPT ![s] = NoRow]
  /\ decisions' = [decisions EXCEPT ![s] = {}]
  /\ tombstones' = tombstones \cup {s}
  /\ UNCHANGED test_plans

Purge(s, rev) ==
  /\ HasRow(s)
  /\ scans[s].rev = rev
  /\ scans[s].status \notin Active
  /\ scans' = [scans EXCEPT ![s] = NoRow]
  /\ decisions' = [decisions EXCEPT ![s] = {}]
  /\ test_plans' = [test_plans EXCEPT ![s] = NoPlan]
  /\ tombstones' = tombstones \cup {s}

\* What an importer of dashboard.json files reads before it saves: a missing
\* row and no tombstone.  The reads and the save are separate transactions.
Importable(s) == ~HasRow(s) /\ s \notin tombstones
=============================================================================
