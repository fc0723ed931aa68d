------------------------ MODULE ScanRepositoryProofs ------------------------
(***************************************************************************)
(* Proofs about ScanRepository for any set of scans and editors and any    *)
(* bound on revisions.                                                     *)
(***************************************************************************)
EXTENDS ScanRepository, TLAPS

\* What makes the revision check of Save sound: a copy names exactly the
\* decisions up to its revision, and is never newer than what is stored.
CopiesFaithful ==
  \A h \in copies : h[1] \notin tombstones =>
    /\ h[2].decided = 1 .. h[2].rev
    /\ h[2].rev <= scans[h[1]].rev

\* The same for plans: two plans of one scan with one revision are equal.
PlanCopiesFaithful ==
  \A h \in planCopies : h[1] \notin tombstones =>
    /\ h[2].rev <= test_plans[h[1]].rev
    /\ h[2].rev = test_plans[h[1]].rev => h[2].edits = test_plans[h[1]].edits

IInv ==
  /\ DecisionsDurable
  /\ CopiesFaithful
  /\ NothingOutlivesTheRow
  /\ PlanEditsKept
  /\ PlanCopiesFaithful

Statuses == Active \cup Final

-----------------------------------------------------------------------------
\* A step is one operation with well-typed arguments, or a stutter.
LEMMA NextCases ==
  ASSUME TypeOK, [Next]_vars
  PROVE  \/ Read
         \/ \E s \in Scans, copy \in Copy, st \in Statuses : SaveCopy(s, copy, st)
         \/ \E s \in Scans : \E expected \in {-1, scans[s].rev} : Decide(s, expected)
         \/ \E s \in Scans : OpenPlan(s)
         \/ \E s \in Scans, e \in Editors, base \in Plan : EditPlan(s, e, base)
         \/ \E s \in Scans : PurgeScan(s, scans[s].rev)
         \/ UNCHANGED vars
<1>1. NewCopy \in Copy
  BY DEF NewCopy, Copy
<1>2. ASSUME NEW held \in copies \cup (Scans \X {NewCopy}), NEW st \in Statuses,
             SaveCopy(held[1], held[2], st)
      PROVE  \E s \in Scans, copy \in Copy, t \in Statuses : SaveCopy(s, copy, t)
  <2>1. held[1] \in Scans /\ held[2] \in Copy
    BY <1>1 DEF TypeOK
  <2> QED BY <1>2, <2>1
<1>3. ASSUME NEW open \in planCopies, NEW e \in Editors, EditPlan(open[1], e, open[2])
      PROVE  \E s \in Scans, d \in Editors, base \in Plan : EditPlan(s, d, base)
  <2>1. open[1] \in Scans /\ open[2] \in Plan
    BY DEF TypeOK
  <2> QED BY <1>3, <2>1
<1> QED BY <1>2, <1>3 DEF Next, Statuses

-----------------------------------------------------------------------------
LEMMA TypeStep == TypeOK /\ [Next]_vars => TypeOK'
<1> SUFFICES ASSUME TypeOK, [Next]_vars PROVE TypeOK'
  OBVIOUS
<1> USE DEF TypeOK, StoreTypeOK, Keep, planVars, storeVars
<1>1. \A s \in Scans : scans[s] \in Row
  OBVIOUS
<1>2. \A s \in Scans : HasRow(s) => scans[s] \in Document /\ CopyOf(scans[s]) \in Copy
  BY DEF HasRow, Row, NoRow, Blank, CopyOf, Document, Copy
<1>3. \A s \in Scans : HasRow(s) => Triaged(s) \in Document /\ CopyOf(Triaged(s)) \in Copy
  BY <1>2 DEF Triaged, Document, CopyOf, Copy
<1>4. Read => TypeOK'
  BY <1>2 DEF Read
<1>5. ASSUME NEW s \in Scans, NEW copy \in Copy, NEW st \in Statuses, SaveCopy(s, copy, st)
      PROVE  TypeOK'
  <2>1. As(copy, st) \in Row
    BY DEF As, Copy, Row, Document, Statuses
  <2> QED BY <1>5, <2>1 DEF SaveCopy, Save
<1>6. ASSUME NEW s \in Scans, NEW expected \in {-1, scans[s].rev}, Decide(s, expected)
      PROVE  TypeOK'
  <2>1. HasRow(s) /\ scans[s].rev + 1 \in Nat
    BY <1>2, <1>6 DEF Decide, Triage, Document
  <2>2. scans' \in [Scans -> Row]
    BY <1>3, <1>6, <2>1 DEF Decide, Triage, Row
  <2>3. decisions' \in [Scans -> SUBSET Nat]
    BY <1>6, <2>1 DEF Decide, Triage
  <2> QED BY <1>3, <1>6, <2>1, <2>2, <2>3 DEF Decide, Triage
<1>7. ASSUME NEW s \in Scans, OpenPlan(s)
      PROVE  TypeOK'
  BY <1>7 DEF OpenPlan
<1>8. ASSUME NEW s \in Scans, NEW e \in Editors, NEW base \in Plan, EditPlan(s, e, base)
      PROVE  TypeOK'
  <2>1. [rev |-> test_plans[s].rev + 1, edits |-> base.edits \cup {e}] \in Plan
    BY DEF Plan
  <2> QED BY <1>8, <2>1 DEF EditPlan, SaveTestPlan
<1>9. ASSUME NEW s \in Scans, PurgeScan(s, scans[s].rev)
      PROVE  TypeOK'
  <2>1. NoRow \in Row /\ NoPlan \in Plan
    BY DEF Row, NoPlan, Plan
  <2> QED BY <1>9, <2>1 DEF PurgeScan, Purge
<1>10. UNCHANGED vars => TypeOK'
  BY DEF vars
<1> QED
  BY <1>4, <1>5, <1>6, <1>7, <1>8, <1>9, <1>10, NextCases

(* The tables, the callers' copies and the history keep their types, for    *)
(* any number of scans and editors (repository.py:109-295).                 *)
THEOREM TypeCorrect == Spec => []TypeOK
<1>1. Init => TypeOK
  BY DEF Init, StoreInit, TypeOK, StoreTypeOK, NoRow, Row, NoPlan, Plan
<1> QED
  BY <1>1, TypeStep, PTL DEF Spec
-----------------------------------------------------------------------------
\* What a save leaves in the table when the copy is a faithful one: the stored
\* document, or one with the same revision and decisions.
LEMMA SaveKeepsDecisions ==
  ASSUME TypeOK, DecisionsDurable, CopiesFaithful,
         NEW s \in Scans, NEW copy \in Copy, NEW st \in Statuses,
         SaveCopy(s, copy, st),
         NEW t \in Scans, t \notin tombstones
  PROVE  scans'[t].rev = scans[t].rev /\ scans'[t].decided = scans[t].decided
<1>1. CASE t # s \/ (HasRow(s) /\ Newer(s, As(copy, st)))
  BY <1>1 DEF SaveCopy, Save, TypeOK, StoreTypeOK
<1>2. CASE t = s /\ ~(HasRow(s) /\ Newer(s, As(copy, st)))
  <2>1. scans'[t] = As(copy, st)
    BY <1>2 DEF SaveCopy, Save, TypeOK, StoreTypeOK
  <2>2. scans[s].rev \in Nat /\ copy.rev \in Nat
    BY DEF TypeOK, StoreTypeOK, Row, Document, NoRow, Blank, Copy
  <2>3. scans[s].rev <= copy.rev
    <3>1. CASE HasRow(s)
      BY <1>2, <2>2, <3>1 DEF Newer, As
    <3>2. CASE ~HasRow(s)
      BY <2>2, <3>2 DEF HasRow, TypeOK, StoreTypeOK, Row, Document, NoRow, Blank,
                        Active, Final
    <3> QED BY <3>1, <3>2
  <2>4. copy.decided = 1 .. copy.rev /\ copy.rev <= scans[s].rev
    <3>1. CASE copy = NewCopy
      BY <2>2, <2>3, <3>1 DEF NewCopy
    <3>2. CASE <<s, copy>> \in copies
      BY <1>2, <3>2 DEF CopiesFaithful
    <3> QED BY <3>1, <3>2 DEF SaveCopy
  <2>5. copy.rev = scans[s].rev
    BY <2>2, <2>3, <2>4
  <2>6. scans[s].decided = 1 .. scans[s].rev
    BY <1>2 DEF DecisionsDurable
  <2> QED BY <1>2, <2>1, <2>4, <2>5, <2>6 DEF As
<1> QED BY <1>1, <1>2

\* A decision is accepted only by an existing row, and moves it one on.
LEMMA DecideEffect ==
  ASSUME TypeOK, NEW s \in Scans, NEW expected, Decide(s, expected)
  PROVE  /\ HasRow(s)
         /\ scans[s].rev \in Nat
         /\ scans' = [scans EXCEPT ![s] = Triaged(s)]
         /\ Triaged(s).rev = scans[s].rev + 1
         /\ Triaged(s).status = scans[s].status
         /\ Triaged(s).decided = scans[s].decided \cup {scans[s].rev + 1}
         /\ decisions' = [decisions EXCEPT ![s] = @ \cup {scans[s].rev + 1}]
         /\ UNCHANGED <<test_plans, tombstones>>
BY DEF Decide, Triage, Triaged, TypeOK, StoreTypeOK, Row, Document, NoRow, Blank

LEMMA DecisionsStep ==
  ASSUME TypeOK, DecisionsDurable, CopiesFaithful, [Next]_vars
  PROVE  DecisionsDurable' /\ CopiesFaithful'
<1> USE DEF TypeOK, StoreTypeOK, storeVars, planVars
<1>0. \A s \in Scans : scans[s].rev \in Nat
  BY DEF Row, Document, NoRow, Blank
<1>1. ASSUME Read
      PROVE  DecisionsDurable' /\ CopiesFaithful'
  <2>1. DecisionsDurable'
    BY <1>1 DEF Read, DecisionsDurable
  <2>2. ASSUME NEW h \in copies', h[1] \notin tombstones'
        PROVE  h[2].decided = 1 .. h[2].rev /\ h[2].rev <= scans'[h[1]].rev
    <3>1. CASE h \in copies
      BY <1>1, <2>2, <3>1 DEF Read, CopiesFaithful
    <3>2. CASE \E s \in Scans : h = <<s, CopyOf(scans[s])>>
      BY <1>0, <1>1, <2>2, <3>2 DEF Read, DecisionsDurable, CopyOf
    <3> QED BY <1>1, <3>1, <3>2 DEF Read, Keep
  <2> QED BY <2>1, <2>2 DEF CopiesFaithful
<1>2. ASSUME NEW s \in Scans, NEW copy \in Copy, NEW st \in Statuses, SaveCopy(s, copy, st)
      PROVE  DecisionsDurable' /\ CopiesFaithful'
  <2>1. \A t \in Scans \ tombstones :
          scans'[t].rev = scans[t].rev /\ scans'[t].decided = scans[t].decided
    BY <1>2, SaveKeepsDecisions
  <2>2. UNCHANGED <<decisions, tombstones>> /\ copies' \subseteq copies
    BY <1>2 DEF SaveCopy, Save, Keep
  <2>3. \A h \in copies : h[1] \in Scans
    OBVIOUS
  <2>4. DecisionsDurable'
    BY <2>1, <2>2 DEF DecisionsDurable
  <2>5. CopiesFaithful'
    BY <2>1, <2>2, <2>3 DEF CopiesFaithful
  <2> QED BY <2>4, <2>5
<1>3. ASSUME NEW s \in Scans, NEW expected \in {-1, scans[s].rev}, Decide(s, expected)
      PROVE  DecisionsDurable' /\ CopiesFaithful'
  <2> USE <1>0, <1>3, DecideEffect
  <2>1. DecisionsDurable'
    <3> SUFFICES ASSUME NEW t \in Scans, t \notin tombstones'
                 PROVE  scans'[t].decided = decisions'[t] /\ decisions'[t] = 1 .. scans'[t].rev
      BY DEF DecisionsDurable
    <3>1. scans[t].decided = decisions[t] /\ decisions[t] = 1 .. scans[t].rev
      BY DEF DecisionsDurable
    <3>2. CASE t = s
      <4>1. scans'[s] = Triaged(s) /\ decisions'[s] = decisions[s] \cup {scans[s].rev + 1}
        OBVIOUS
      <4>2. (1 .. scans[s].rev) \cup {scans[s].rev + 1} = 1 .. scans[s].rev + 1
        OBVIOUS
      <4> QED BY <3>1, <3>2, <4>1, <4>2
    <3>3. CASE t # s
      BY <3>1, <3>3
    <3> QED BY <3>2, <3>3
  <2>2. ASSUME NEW h \in copies', h[1] \notin tombstones'
        PROVE  h[2].decided = 1 .. h[2].rev /\ h[2].rev <= scans'[h[1]].rev
    <3>1. CASE h \in copies
      <4>1. h[1] \in Scans /\ h[2] \in Copy
        BY <3>1
      <4>2. h[2].decided = 1 .. h[2].rev /\ h[2].rev <= scans[h[1]].rev
        BY <2>2, <3>1 DEF CopiesFaithful
      <4> QED BY <4>1, <4>2 DEF Copy
    <3>2. CASE h = <<s, CopyOf(Triaged(s))>>
      BY <2>1, <2>2, <3>2 DEF CopyOf, DecisionsDurable
    <3> QED BY <3>1, <3>2 DEF Decide, Keep
  <2> QED BY <2>1, <2>2 DEF CopiesFaithful
<1>4. ASSUME NEW s \in Scans, PurgeScan(s, scans[s].rev)
      PROVE  DecisionsDurable' /\ CopiesFaithful'
  <2>1. /\ tombstones' = tombstones \cup {s}
        /\ copies' \subseteq copies
        /\ \A t \in Scans \ {s} : scans'[t] = scans[t] /\ decisions'[t] = decisions[t]
    BY <1>4 DEF PurgeScan, Purge, Keep
  <2>2. \A h \in copies : h[1] \in Scans
    OBVIOUS
  <2>3. DecisionsDurable'
    BY <2>1 DEF DecisionsDurable
  <2>4. CopiesFaithful'
    BY <2>1, <2>2 DEF CopiesFaithful
  <2> QED BY <2>3, <2>4
<1>5. ASSUME UNCHANGED <<scans, decisions, tombstones, copies>>
      PROVE  DecisionsDurable' /\ CopiesFaithful'
  BY <1>5 DEF DecisionsDurable, CopiesFaithful
<1>6. \A s \in Scans : OpenPlan(s) => UNCHANGED <<scans, decisions, tombstones, copies>>
  BY DEF OpenPlan
<1>7. \A s \in Scans, e \in Editors, base \in Plan :
        EditPlan(s, e, base) => UNCHANGED <<scans, decisions, tombstones, copies>>
  BY DEF EditPlan, SaveTestPlan
<1>8. UNCHANGED vars => UNCHANGED <<scans, decisions, tombstones, copies>>
  BY DEF vars
<1> QED
  BY <1>1, <1>2, <1>3, <1>4, <1>5, <1>6, <1>7, <1>8, NextCases
-----------------------------------------------------------------------------
LEMMA RowStep ==
  ASSUME TypeOK, NothingOutlivesTheRow, [Next]_vars
  PROVE  NothingOutlivesTheRow'
<1> USE DEF TypeOK, StoreTypeOK, NothingOutlivesTheRow, HasRow
<1>1. Read => NothingOutlivesTheRow'
  BY DEF Read, storeVars
<1>2. ASSUME NEW s \in Scans, NEW copy \in Copy, NEW st \in Statuses, SaveCopy(s, copy, st)
      PROVE  NothingOutlivesTheRow'
  <2>1. As(copy, st).status # "absent"
    BY DEF As, Statuses, Active, Final
  <2> QED BY <1>2, <2>1 DEF SaveCopy, Save
<1>3. ASSUME NEW s \in Scans, NEW expected \in {-1, scans[s].rev}, Decide(s, expected)
      PROVE  NothingOutlivesTheRow'
  BY <1>3, DecideEffect
<1>4. \A s \in Scans : OpenPlan(s) => NothingOutlivesTheRow'
  BY DEF OpenPlan, storeVars
<1>5. ASSUME NEW s \in Scans, NEW e \in Editors, NEW base \in Plan, EditPlan(s, e, base)
      PROVE  NothingOutlivesTheRow'
  BY <1>5 DEF EditPlan, SaveTestPlan
<1>6. ASSUME NEW s \in Scans, PurgeScan(s, scans[s].rev)
      PROVE  NothingOutlivesTheRow'
  BY <1>6 DEF PurgeScan, Purge
<1>7. UNCHANGED vars => NothingOutlivesTheRow'
  BY DEF vars, storeVars
<1> QED
  BY <1>1, <1>2, <1>3, <1>4, <1>5, <1>6, <1>7, NextCases

-----------------------------------------------------------------------------
LEMMA PlanStep ==
  ASSUME TypeOK, PlanEditsKept, PlanCopiesFaithful, [Next]_vars
  PROVE  PlanEditsKept' /\ PlanCopiesFaithful'
<1> USE DEF TypeOK, StoreTypeOK, planVars
<1>0. \A s \in Scans : test_plans[s] \in Plan /\ test_plans[s].rev \in Int
  BY DEF Plan
<1>1. ASSUME NEW s \in Scans, OpenPlan(s)
      PROVE  PlanEditsKept' /\ PlanCopiesFaithful'
  <2>1. PlanEditsKept'
    BY <1>1 DEF OpenPlan, storeVars, PlanEditsKept
  <2>2. ASSUME NEW h \in planCopies', h[1] \notin tombstones'
        PROVE  /\ h[2].rev <= test_plans'[h[1]].rev
               /\ h[2].rev = test_plans'[h[1]].rev => h[2].edits = test_plans'[h[1]].edits
    <3>1. CASE h \in planCopies
      BY <1>1, <2>2, <3>1 DEF OpenPlan, storeVars, PlanCopiesFaithful
    <3>2. CASE h = <<s, test_plans[s]>>
      BY <1>0, <1>1, <3>2 DEF OpenPlan, storeVars
    <3> QED BY <1>1, <3>1, <3>2 DEF OpenPlan
  <2> QED BY <2>1, <2>2 DEF PlanCopiesFaithful
<1>2. ASSUME NEW s \in Scans, NEW e \in Editors, NEW base \in Plan, EditPlan(s, e, base)
      PROVE  PlanEditsKept' /\ PlanCopiesFaithful'
  <2> DEFINE new == [rev |-> test_plans[s].rev + 1, edits |-> base.edits \cup {e}]
  <2>1. /\ <<s, base>> \in planCopies
        /\ base.rev = test_plans[s].rev
        /\ test_plans' = [test_plans EXCEPT ![s] = new]
        /\ accepted' = [accepted EXCEPT ![s] = @ \cup {e}]
        /\ UNCHANGED <<tombstones, planCopies>>
    BY <1>2 DEF EditPlan, SaveTestPlan
  <2>2. ASSUME s \notin tombstones
        PROVE  base.edits = test_plans[s].edits
    BY <2>1, <2>2 DEF PlanCopiesFaithful
  <2>3. PlanEditsKept'
    <3> SUFFICES ASSUME NEW t \in Scans, t \notin tombstones'
                 PROVE  test_plans'[t].edits = accepted'[t]
      BY DEF PlanEditsKept
    <3>1. test_plans[t].edits = accepted[t]
      BY <2>1 DEF PlanEditsKept
    <3> QED BY <2>1, <2>2, <3>1
  <2>4. ASSUME NEW h \in planCopies', h[1] \notin tombstones'
        PROVE  /\ h[2].rev <= test_plans'[h[1]].rev
               /\ h[2].rev = test_plans'[h[1]].rev => h[2].edits = test_plans'[h[1]].edits
    <3>1. /\ h[1] \in Scans
          /\ h[2] \in Plan
          /\ h[2].rev <= test_plans[h[1]].rev
          /\ h[2].rev = test_plans[h[1]].rev => h[2].edits = test_plans[h[1]].edits
      BY <2>1, <2>4 DEF PlanCopiesFaithful
    <3>2. h[2].rev \in Int
      BY <3>1 DEF Plan
    <3>3. CASE h[1] = s
      BY <1>0, <2>1, <3>1, <3>2, <3>3
    <3>4. CASE h[1] # s
      BY <2>1, <3>1, <3>4
    <3> QED BY <3>3, <3>4
  <2> QED BY <2>3, <2>4 DEF PlanCopiesFaithful
<1>3. ASSUME NEW s \in Scans, PurgeScan(s, scans[s].rev)
      PROVE  PlanEditsKept' /\ PlanCopiesFaithful'
  <2>1. /\ tombstones' = tombstones \cup {s}
        /\ planCopies' = planCopies
        /\ \A t \in Scans \ {s} : test_plans'[t] = test_plans[t] /\ accepted'[t] = accepted[t]
    BY <1>3 DEF PurgeScan, Purge
  <2>2. \A h \in planCopies : h[1] \in Scans
    OBVIOUS
  <2>3. PlanEditsKept'
    BY <2>1 DEF PlanEditsKept
  <2>4. PlanCopiesFaithful'
    BY <2>1, <2>2 DEF PlanCopiesFaithful
  <2> QED BY <2>3, <2>4
<1>4. ASSUME UNCHANGED <<test_plans, tombstones, planCopies, accepted>>
      PROVE  PlanEditsKept' /\ PlanCopiesFaithful'
  BY <1>4 DEF PlanEditsKept, PlanCopiesFaithful
<1>5. Read => UNCHANGED <<test_plans, tombstones, planCopies, accepted>>
  BY DEF Read, storeVars
<1>6. \A s \in Scans, copy \in Copy, st \in Statuses :
        SaveCopy(s, copy, st) => UNCHANGED <<test_plans, tombstones, planCopies, accepted>>
  BY DEF SaveCopy, Save
<1>7. \A s \in Scans : \A expected \in {-1, scans[s].rev} :
        Decide(s, expected) => UNCHANGED <<test_plans, tombstones, planCopies, accepted>>
  BY DEF Decide, Triage
<1>8. UNCHANGED vars => UNCHANGED <<test_plans, tombstones, planCopies, accepted>>
  BY DEF vars, storeVars
<1> QED
  BY <1>1, <1>2, <1>3, <1>4, <1>5, <1>6, <1>7, <1>8, NextCases

-----------------------------------------------------------------------------
LEMMA Inductive == Spec => [](TypeOK /\ IInv)
<1>1. Init => TypeOK /\ IInv
  <2> SUFFICES ASSUME Init PROVE TypeOK /\ IInv
    OBVIOUS
  <2>1. TypeOK
    BY DEF Init, StoreInit, TypeOK, StoreTypeOK, NoRow, Row, NoPlan, Plan
  <2>2. DecisionsDurable
    <3>1. 1 .. 0 = {}
      OBVIOUS
    <3> QED BY <3>1 DEF Init, StoreInit, NoRow, Blank, DecisionsDurable
  <2>3. CopiesFaithful /\ PlanCopiesFaithful
    BY DEF Init, CopiesFaithful, PlanCopiesFaithful
  <2>4. NothingOutlivesTheRow /\ PlanEditsKept
    BY DEF Init, StoreInit, NothingOutlivesTheRow, PlanEditsKept, NoPlan
  <2> QED BY <2>1, <2>2, <2>3, <2>4 DEF IInv
<1>2. (TypeOK /\ IInv) /\ [Next]_vars => (TypeOK /\ IInv)'
  BY TypeStep, DecisionsStep, RowStep, PlanStep DEF IInv
<1> QED
  BY <1>1, <1>2, PTL DEF Spec

(* No save of a document read earlier, by any number of callers in any      *)
(* order, loses an accepted decision or applies one that is not in the      *)
(* history (repository.py:119-126, 161-175).                                *)
THEOREM Durability == Spec => []DecisionsDurable
<1>1. IInv => DecisionsDurable
  BY DEF IInv
<1> QED BY <1>1, Inductive, PTL

(* Concurrent editors of one plan, however many, lose no accepted edit      *)
(* (repository.py:239-247).                                                 *)
THEOREM NoLostEdit == Spec => []PlanEditsKept
<1>1. IInv => PlanEditsKept
  BY DEF IInv
<1> QED BY <1>1, Inductive, PTL

(* A purge leaves no decision and no plan behind, and nothing writes them   *)
(* for a scan without a row afterwards (repository.py:285-295).             *)
THEOREM PurgeIsComplete == Spec => []NothingOutlivesTheRow
<1>1. IInv => NothingOutlivesTheRow
  BY DEF IInv
<1> QED BY <1>1, Inductive, PTL

(* No step takes a verdict off the stored document of a scan that is not    *)
(* purged by it or before it.                                               *)
THEOREM VerdictsStay == Spec => NoDecisionUndone
<1>1. ASSUME TypeOK, IInv, [Next]_vars, NEW s \in Scans, s \notin tombstones'
      PROVE  scans[s].decided \subseteq scans'[s].decided
  <2>1. Read => scans' = scans
    BY DEF Read, storeVars
  <2>2. ASSUME NEW t \in Scans, NEW copy \in Copy, NEW st \in Statuses, SaveCopy(t, copy, st)
        PROVE  scans[s].decided \subseteq scans'[s].decided
    <3>1. s \notin tombstones
      BY <1>1, <2>2 DEF SaveCopy, Save
    <3> QED BY <1>1, <2>2, <3>1, SaveKeepsDecisions DEF IInv
  <2>3. ASSUME NEW t \in Scans, NEW expected \in {-1, scans[t].rev}, Decide(t, expected)
        PROVE  scans[s].decided \subseteq scans'[s].decided
    <3>1. scans[t].decided \subseteq Triaged(t).decided /\ scans' = [scans EXCEPT ![t] = Triaged(t)]
      BY <1>1, <2>3, DecideEffect
    <3> QED BY <1>1, <3>1 DEF TypeOK, StoreTypeOK
  <2>4. \A t \in Scans : OpenPlan(t) => scans' = scans
    BY DEF OpenPlan, storeVars
  <2>5. \A t \in Scans, e \in Editors, base \in Plan : EditPlan(t, e, base) => scans' = scans
    BY DEF EditPlan, SaveTestPlan
  <2>6. ASSUME NEW t \in Scans, PurgeScan(t, scans[t].rev)
        PROVE  scans[s].decided \subseteq scans'[s].decided
    <3>1. t # s /\ scans'[s] = scans[s]
      BY <1>1, <2>6 DEF PurgeScan, Purge, TypeOK, StoreTypeOK
    <3> QED BY <3>1
  <2>7. UNCHANGED vars => scans' = scans
    BY DEF vars, storeVars
  <2>8. scans' = scans => scans[s].decided \subseteq scans'[s].decided
    OBVIOUS
  <2> QED
    BY <1>1, <2>1, <2>2, <2>3, <2>4, <2>5, <2>6, <2>7, <2>8, NextCases
<1>2. TypeOK /\ IInv /\ [Next]_vars =>
        [\A s \in Scans : s \notin tombstones' =>
           scans[s].decided \subseteq scans'[s].decided]_vars
  BY <1>1
<1> QED
  BY <1>2, Inductive, PTL DEF Spec, NoDecisionUndone
=============================================================================
