--------------------------- MODULE ScanRepository ---------------------------
(***************************************************************************)
(* What ScanRepository promises to any callers whatever: callers obtain     *)
(* documents, keep them for as long as they like, change their status and  *)
(* save them back, while analysts record decisions, editors revise the     *)
(* test plan and the operator purges.  `copies` is every document some     *)
(* caller still holds, with its status left out because a caller may set   *)
(* it to anything; `planCopies` every plan an editor still has open.       *)
(***************************************************************************)
EXTENDS ScanStore

VARIABLES copies,      \* documents held by callers
          planCopies,  \* plans open in an editor
          accepted     \* history: editors whose plan save was accepted

vars == <<storeVars, copies, planCopies, accepted>>

Copy == [rev: Nat, decided: SUBSET Nat]
CopyOf(doc) == [rev |-> doc.rev, decided |-> doc.decided]
NewCopy == [rev |-> 0, decided |-> {}]
As(copy, st) == [status |-> st, rev |-> copy.rev, decided |-> copy.decided]

TypeOK ==
  /\ StoreTypeOK
  /\ copies \in SUBSET (Scans \X Copy)
  /\ planCopies \in SUBSET (Scans \X Plan)
  /\ accepted \in [Scans -> SUBSET Editors]

Init ==
  /\ StoreInit
  /\ copies = {}
  /\ planCopies = {}
  /\ accepted = [s \in Scans |-> {}]

\* A caller may drop copies at any step.
Keep(new) == copies' \in SUBSET (copies \cup new)
planVars == <<planCopies, accepted>>

\* get reads one row, page and the start-up recovery several; a caller that
\* drops copies without reading takes this step too.
Read ==
  /\ Keep({<<s, CopyOf(scans[s])>> : s \in {t \in Scans : HasRow(t)}})
  /\ UNCHANGED <<storeVars, planVars>>

\* trigger_scan composes a document of revision 0 for a new identifier, and a
\* dashboard.json is such a document; every other save is of a copy read before.
SaveCopy(s, copy, st) ==
  /\ copy = NewCopy \/ <<s, copy>> \in copies
  /\ Save(s, As(copy, st))
  /\ Keep({})
  /\ UNCHANGED planVars

Decide(s, expected) ==
  /\ Triage(s, expected)
  /\ Keep({<<s, CopyOf(Triaged(s))>>})
  /\ UNCHANGED planVars

OpenPlan(s) ==
  /\ planCopies' = planCopies \cup {<<s, test_plans[s]>>}
  /\ UNCHANGED <<storeVars, copies, accepted>>

\* Each editor contributes one edit, so that a lost edit can be told apart.
EditPlan(s, e, base) ==
  /\ <<s, base>> \in planCopies
  /\ e \notin accepted[s]
  /\ SaveTestPlan(s, e, base)
  /\ accepted' = [accepted EXCEPT ![s] = @ \cup {e}]
  /\ UNCHANGED <<copies, planCopies>>

PurgeScan(s, rev) ==
  /\ Purge(s, rev)
  /\ accepted' = [accepted EXCEPT ![s] = {}]
  /\ Keep({})
  /\ UNCHANGED planCopies

Next ==
  \/ Read
  \/ \E held \in copies \cup (Scans \X {NewCopy}), st \in Active \cup Final :
       SaveCopy(held[1], held[2], st)
  \/ \E s \in Scans : \E expected \in {-1, scans[s].rev} : Decide(s, expected)
  \/ \E s \in Scans : OpenPlan(s)
  \/ \E open \in planCopies, e \in Editors : EditPlan(open[1], e, open[2])
  \/ \E s \in Scans : PurgeScan(s, scans[s].rev)

Spec == Init /\ [][Next]_vars

-----------------------------------------------------------------------------
(* Every decision in the history is carried by the stored document, and the *)
(* revision counts them: no save of a document read earlier, by a worker, a *)
(* list request or an importer, undoes a verdict (repository.py:119-126,    *)
(* 161-175).  Nothing is promised of an identifier that was purged.         *)
DecisionsDurable ==
  \A s \in Scans \ tombstones :
    /\ scans[s].decided = decisions[s]
    /\ decisions[s] = 1 .. scans[s].rev

(* A verdict once applied to the stored document stays applied until the    *)
(* scan is purged, whatever is saved in between.                            *)
NoDecisionUndone ==
  [][\A s \in Scans : s \notin tombstones' =>
        scans[s].decided \subseteq scans'[s].decided]_vars

(* Editors who save from the same plan do not overwrite one another: the    *)
(* stored plan contains every accepted edit (repository.py:239-247).        *)
PlanEditsKept ==
  \A s \in Scans \ tombstones : test_plans[s].edits = accepted[s]

(* The history and the plan of a scan go with its row: neither outlives it, *)
(* so a purge leaves nothing an analyst wrote (repository.py:291-295).      *)
NothingOutlivesTheRow ==
  \A s \in Scans : ~HasRow(s) => decisions[s] = {} /\ test_plans[s] = NoPlan
=============================================================================
