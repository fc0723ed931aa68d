------------------------ MODULE AutomationRunProofs ------------------------
(***************************************************************************)
(* Safety of AutomationRun, for any number of runs, devices, coroutines,   *)
(* actions and captures.  The invariant says that whoever drives a device  *)
(* holds it alone, and that the document it works on has recorded exactly  *)
(* what the stored one has; so writing a whole document back loses nothing *)
(* but what was imported meanwhile.  A step either begins a coroutine,     *)
(* lets one go on, ends one, edits a resting document, or stops or starts  *)
(* the server: one lemma for each of the first three.                      *)
(***************************************************************************)
EXTENDS AutomationRun, TLAPS

Jobs == [kind: {"idle", "create", "observe", "execute"}, run: Runs \cup {"none"},
         doc: Document \cup {NoRun}, pc: {"none", "ui", "api", "issued"},
         todo: SUBSET (Actions \cup Captures),
         op: Actions \cup Captures \cup {"none", "back"}, stack: Nat]

Works(c) ==
  /\ up
  /\ job[c].run \in Runs
  /\ job[c].doc \in Document
  /\ runs[job[c].run] \in Document
  /\ runs[job[c].run].done = job[c].doc.done
  /\ Executing(c) =>
       /\ runs[job[c].run].status = "running"
       /\ runs[job[c].run] = [job[c].doc EXCEPT !.cancel = runs[job[c].run].cancel]
       /\ job[c].op = "back" => job[c].stack > 0

AllWork == \A c \in Coroutines : Live(c) => Works(c)

IInv == TypeOK /\ DeviceExclusive /\ AllWork /\ RunningRunOwned

LEMMA NoRunIsNoDocument == NoRun \notin Document
  BY DEF NoRun, Document, Resting, Controlling

\* A coroutine that ends gives back its device, and leaves its run resting or
\* as it was.
LEMMA Ends ==
  ASSUME IInv, NEW c \in Coroutines, Live(c), End(c), UNCHANGED rest,
         NEW STATE d, d \in Document, runs' = [runs EXCEPT ![job[c].run] = d],
         d.status # "running" \/ (~Executing(c) /\ d = runs[job[c].run])
  PROVE  IInv'
<1>. DEFINE r == job[c].run
<1>1. TypeOK /\ DeviceExclusive /\ AllWork /\ RunningRunOwned
  BY DEF IInv
<1>2. Works(c) /\ r \in Runs
  BY <1>1 DEF AllWork, Works
<1>3. Idle.kind = "idle" /\ Idle \in Jobs
  BY DEF Idle, Jobs, Document, NoRun
<1>4. /\ job \in [Coroutines -> Jobs] /\ runs \in [Runs -> Document \cup {NoRun}]
      /\ busy \in SUBSET Devices /\ DeviceOf \in [Runs -> Devices]
  BY <1>1, AutomationAssumption DEF TypeOK, Jobs
<1>5. job' = [job EXCEPT ![c] = Idle] /\ busy' = busy \ {DeviceOf[r]}
  BY DEF End
<1>6. /\ job'[c] = Idle /\ ~Live(c)'
      /\ \A e \in Coroutines \ {c} : job'[e] = job[e] /\ (Live(e)' <=> Live(e))
  BY <1>3, <1>4, <1>5 DEF Live
<1>7. \A e \in Coroutines \ {c} : Live(e) => job[e].run \in Runs /\ DeviceOf[job[e].run] # DeviceOf[r]
  BY <1>1 DEF DeviceExclusive, AllWork, Works
<1>8. /\ runs' \in [Runs -> Document \cup {NoRun}] /\ runs'[r] = d
      /\ \A q \in Runs \ {r} : runs'[q] = runs[q]
  BY <1>2, <1>4
<1>9. TypeOK'
  <2>1. job' \in [Coroutines -> Jobs] /\ busy' \in SUBSET Devices
    BY <1>3, <1>4, <1>5
  <2>. QED  BY <1>1, <1>8, <2>1 DEF TypeOK, rest, Jobs
<1>10. DeviceExclusive'
  <2>1. busy = {DeviceOf[job[e].run] : e \in {g \in Coroutines : Live(g)}}
    BY <1>1 DEF DeviceExclusive
  <2>2. {g \in Coroutines : Live(g)'} = {g \in Coroutines : Live(g)} \ {c}
    BY <1>6
  <2>3. busy' = {DeviceOf[job'[e].run] : e \in {g \in Coroutines : Live(g)'}}
    BY <1>5, <1>6, <1>7, <2>1, <2>2
  <2>4. \A e, g \in Coroutines : Live(e)' /\ Live(g)' /\ e # g
             => DeviceOf[job'[e].run] # DeviceOf[job'[g].run]
    BY <1>1, <1>6 DEF DeviceExclusive
  <2>. QED  BY <2>3, <2>4 DEF DeviceExclusive
<1>11. AllWork'
  <2>. SUFFICES ASSUME NEW e \in Coroutines, Live(e)'
                PROVE  Works(e)'
    BY DEF AllWork
  <2>1. e # c /\ job'[e] = job[e] /\ Works(e) /\ job[e].run # r
    BY <1>1, <1>6, <1>7 DEF AllWork
  <2>. QED  BY <1>8, <2>1 DEF Works, Executing, rest
<1>12. RunningRunOwned'
  <2>. SUFFICES ASSUME NEW q \in Runs, runs'[q].status = "running", up'
                PROVE  \E e \in Coroutines : Executing(e)' /\ job'[e].run = q
                         /\ [job'[e].doc EXCEPT !.cancel = runs'[q].cancel] = runs'[q]
    BY DEF RunningRunOwned
  <2>1. up /\ runs'[q] = runs[q]
    BY <1>8 DEF rest
  <2>2. PICK e \in Coroutines : Executing(e) /\ job[e].run = q
                         /\ [job[e].doc EXCEPT !.cancel = runs[q].cancel] = runs[q]
    BY <1>1, <2>1 DEF RunningRunOwned
  <2>3. e # c
    BY <1>8, <2>2
  <2>. QED  BY <1>6, <2>1, <2>2, <2>3 DEF Executing
<1>. QED  BY <1>9, <1>10, <1>11, <1>12 DEF IInv

\* The batch of a run goes on, and writes back the document it works on.
LEMMA GoesOn ==
  ASSUME IInv, NEW c \in Coroutines, Executing(c), UNCHANGED <<busy, rest>>,
         NEW STATE x, x \in Jobs, job' = [job EXCEPT ![c] = x],
         x.kind = "execute", x.run = job[c].run, x.doc \in Document, x.doc.status = "running",
         x.op = "back" => x.stack > 0,
         runs' = Persisted(job[c].run, x.doc)
  PROVE  IInv'
<1>. DEFINE r == job[c].run
<1>1. TypeOK /\ DeviceExclusive /\ AllWork /\ RunningRunOwned
  BY DEF IInv
<1>2. Live(c) /\ Works(c) /\ r \in Runs
  BY <1>1 DEF AllWork, Works, Live, Executing
<1>4. /\ job \in [Coroutines -> Jobs] /\ runs \in [Runs -> Document \cup {NoRun}]
  BY <1>1 DEF TypeOK, Jobs
<1>6. /\ job'[c] = x /\ Live(c)' /\ Executing(c)'
      /\ \A e \in Coroutines \ {c} : job'[e] = job[e] /\ (Live(e)' <=> Live(e))
                                     /\ (Executing(e)' <=> Executing(e))
  BY <1>4 DEF Live, Executing
<1>7. \A e \in Coroutines \ {c} : Live(e) => job[e].run # r
  BY <1>1, <1>2 DEF DeviceExclusive
<1>8. /\ runs' = [runs EXCEPT ![r] = [x.doc EXCEPT !.cancel = runs[r].cancel]]
      /\ runs[r] \in Document
  BY <1>2 DEF Persisted, Works
<1>9. /\ [x.doc EXCEPT !.cancel = runs[r].cancel] \in Document
      /\ [x.doc EXCEPT !.cancel = runs[r].cancel].status = "running"
      /\ [x.doc EXCEPT !.cancel = runs[r].cancel].done = x.doc.done
      /\ [x.doc EXCEPT !.cancel = runs[r].cancel].cancel = runs[r].cancel
  BY <1>8 DEF Document
<1>10. /\ runs' \in [Runs -> Document \cup {NoRun}]
       /\ runs'[r] = [x.doc EXCEPT !.cancel = runs[r].cancel]
       /\ \A q \in Runs \ {r} : runs'[q] = runs[q]
  BY <1>2, <1>4, <1>8, <1>9
<1>11. TypeOK'
  <2>1. job' \in [Coroutines -> Jobs]
    BY <1>4
  <2>. QED  BY <1>1, <1>10, <2>1 DEF TypeOK, rest, Jobs
<1>12. DeviceExclusive'
  <2>1. \A e \in Coroutines : job'[e].run = job[e].run
    BY <1>6
  <2>2. {g \in Coroutines : Live(g)'} = {g \in Coroutines : Live(g)}
    BY <1>2, <1>6
  <2>. QED  BY <1>1, <1>6, <1>2, <2>1, <2>2 DEF DeviceExclusive
<1>13. AllWork'
  <2>. SUFFICES ASSUME NEW e \in Coroutines, Live(e)'
                PROVE  Works(e)'
    BY DEF AllWork
  <2>1. CASE e = c
    <3>1. up' /\ job'[c].run = r /\ job'[c].doc = x.doc
      BY <1>2, <1>6 DEF Works, rest
    <3>2. /\ runs'[r] \in Document /\ runs'[r].done = x.doc.done
          /\ runs'[r].status = "running" /\ runs'[r].cancel = runs[r].cancel
      BY <1>9, <1>10
    <3>3. runs'[r] = [x.doc EXCEPT !.cancel = runs'[r].cancel]
      BY <1>10, <3>2
    <3>. QED  BY <1>2, <2>1, <3>1, <3>2, <3>3 DEF Works
  <2>2. CASE e # c
    <3>1. job'[e] = job[e] /\ Works(e) /\ job[e].run # r
      BY <1>1, <1>6, <1>7, <2>2 DEF AllWork
    <3>. QED  BY <1>10, <3>1 DEF Works, Executing, rest
  <2>. QED  BY <2>1, <2>2
<1>14. RunningRunOwned'
  <2>. SUFFICES ASSUME NEW q \in Runs, runs'[q].status = "running", up'
                PROVE  \E e \in Coroutines : Executing(e)' /\ job'[e].run = q
                         /\ [job'[e].doc EXCEPT !.cancel = runs'[q].cancel] = runs'[q]
    BY DEF RunningRunOwned
  <2>1. CASE q = r
    BY <1>6, <1>9, <1>10, <2>1
  <2>2. CASE q # r
    <3>1. up /\ runs'[q] = runs[q]
      BY <1>10, <2>2 DEF rest
    <3>2. PICK e \in Coroutines : Executing(e) /\ job[e].run = q
                         /\ [job[e].doc EXCEPT !.cancel = runs[q].cancel] = runs[q]
      BY <1>1, <3>1 DEF RunningRunOwned
    <3>3. e # c
      BY <2>2, <3>2
    <3>. QED  BY <1>6, <3>1, <3>2, <3>3
  <2>. QED  BY <2>1, <2>2
<1>. QED  BY <1>11, <1>12, <1>13, <1>14 DEF IInv

\* A coroutine begins on a device that is free, with the document it stores.
LEMMA Begins ==
  ASSUME IInv, up, UNCHANGED <<up, restarts>>, NEW c \in Coroutines, NEW r \in Runs, Free(r),
         targets' \in SUBSET (Runs \X Captures),
         NEW STATE x, x \in Jobs, Begin(c, r, x), x.kind # "idle", x.run = r, x.doc \in Document,
         x.op = "none",
         runs' = [runs EXCEPT ![r] = x.doc],
         x.kind = "execute" <=> x.doc.status = "running"
  PROVE  IInv'
<1>1. TypeOK /\ DeviceExclusive /\ AllWork /\ RunningRunOwned
  BY DEF IInv
<1>2. /\ job \in [Coroutines -> Jobs] /\ runs \in [Runs -> Document \cup {NoRun}]
      /\ busy \in SUBSET Devices /\ DeviceOf \in [Runs -> Devices]
  BY <1>1, AutomationAssumption DEF TypeOK, Jobs
<1>3. ~Live(c) /\ job' = [job EXCEPT ![c] = x] /\ busy' = busy \cup {DeviceOf[r]}
  BY DEF Begin
<1>4. /\ job'[c] = x /\ Live(c)'
      /\ \A e \in Coroutines \ {c} : job'[e] = job[e] /\ (Live(e)' <=> Live(e))
                                     /\ (Executing(e)' <=> Executing(e))
  BY <1>2, <1>3 DEF Live, Executing
<1>5. busy = {DeviceOf[job[e].run] : e \in {g \in Coroutines : Live(g)}}
  BY <1>1 DEF DeviceExclusive
<1>6. \A e \in Coroutines \ {c} :
        Live(e) => job[e].run \in Runs /\ DeviceOf[job[e].run] # DeviceOf[r] /\ job[e].run # r
  BY <1>1, <1>5 DEF Free, AllWork, Works
<1>7. /\ runs' \in [Runs -> Document \cup {NoRun}] /\ runs'[r] = x.doc
      /\ \A q \in Runs \ {r} : runs'[q] = runs[q]
  BY <1>2
<1>8. TypeOK'
  <2>1. job' \in [Coroutines -> Jobs] /\ busy' \in SUBSET Devices
    BY <1>2, <1>3
  <2>. QED  BY <1>1, <1>7, <2>1 DEF TypeOK, Jobs
<1>9. DeviceExclusive'
  <2>1. {g \in Coroutines : Live(g)'} = {g \in Coroutines : Live(g)} \cup {c}
    BY <1>4
  <2>2. \A g \in Coroutines : Live(g) => job'[g].run = job[g].run
    BY <1>3, <1>4
  <2>3. {DeviceOf[job'[e].run] : e \in {g \in Coroutines : Live(g)'}}
          = {DeviceOf[job[e].run] : e \in {g \in Coroutines : Live(g)}} \cup {DeviceOf[r]}
    BY <1>4, <2>1, <2>2
  <2>4. \A e, g \in Coroutines : Live(e)' /\ Live(g)' /\ e # g
             => DeviceOf[job'[e].run] # DeviceOf[job'[g].run]
    <3>. TAKE e, g \in Coroutines
    <3>. HAVE Live(e)' /\ Live(g)' /\ e # g
    <3>1. CASE e = c
      BY <1>4, <1>6, <3>1
    <3>2. CASE g = c
      BY <1>4, <1>6, <3>2
    <3>3. CASE e # c /\ g # c
      BY <1>1, <1>4, <3>3 DEF DeviceExclusive
    <3>. QED  BY <3>1, <3>2, <3>3
  <2>. QED  BY <1>3, <1>5, <2>3, <2>4 DEF DeviceExclusive
<1>10. AllWork'
  <2>. SUFFICES ASSUME NEW e \in Coroutines, Live(e)'
                PROVE  Works(e)'
    BY DEF AllWork
  <2>1. CASE e = c
    <3>1. [x.doc EXCEPT !.cancel = x.doc.cancel] = x.doc
      BY DEF Document
    <3>. QED  BY <1>4, <1>7, <2>1, <3>1 DEF Works, Executing
  <2>2. CASE e # c
    <3>1. job'[e] = job[e] /\ Works(e) /\ job[e].run # r
      BY <1>1, <1>4, <1>6, <2>2 DEF AllWork
    <3>. QED  BY <1>7, <3>1 DEF Works, Executing
  <2>. QED  BY <2>1, <2>2
<1>11. RunningRunOwned'
  <2>. SUFFICES ASSUME NEW q \in Runs, runs'[q].status = "running", up'
                PROVE  \E e \in Coroutines : Executing(e)' /\ job'[e].run = q
                         /\ [job'[e].doc EXCEPT !.cancel = runs'[q].cancel] = runs'[q]
    BY DEF RunningRunOwned
  <2>1. CASE q = r
    <3>1. [x.doc EXCEPT !.cancel = x.doc.cancel] = x.doc
      BY DEF Document
    <3>2. Executing(c)' /\ job'[c] = x /\ runs'[q] = x.doc
      BY <1>4, <1>7, <2>1 DEF Executing
    <3>. QED  BY <2>1, <3>1, <3>2
  <2>2. CASE q # r
    <3>1. runs'[q] = runs[q]
      BY <1>7, <2>2
    <3>2. PICK e \in Coroutines : Executing(e) /\ job[e].run = q
                         /\ [job[e].doc EXCEPT !.cancel = runs[q].cancel] = runs[q]
      BY <1>1, <3>1 DEF RunningRunOwned
    <3>3. e # c
      BY <1>3, <3>2 DEF Live, Executing
    <3>. QED  BY <1>4, <3>1, <3>2, <3>3
  <2>. QED  BY <2>1, <2>2
<1>. QED  BY <1>8, <1>9, <1>10, <1>11 DEF IInv

\* Where an operator edits the document of one run, its task, if it has one,
\* must still find its own but for the flag.
LEMMA Edits ==
  ASSUME IInv, NEW r \in Runs, NEW STATE d, d \in Document, runs' = [runs EXCEPT ![r] = d],
         UNCHANGED <<up, busy, job, restarts>>, targets' \in SUBSET (Runs \X Captures),
         d.done = runs[r].done,
         runs[r] \in Document,
         \/ /\ runs[r].status = "running"
            /\ d = [runs[r] EXCEPT !.cancel = TRUE]
         \/ runs[r].status # "running" /\ d.status # "running"
         \/ ~up /\ d.status # "running"
  PROVE  IInv'
<1>1. TypeOK /\ DeviceExclusive /\ AllWork /\ RunningRunOwned
  BY DEF IInv
<1>2. /\ runs' \in [Runs -> Document \cup {NoRun}] /\ runs'[r] = d
      /\ \A q \in Runs \ {r} : runs'[q] = runs[q]
  BY <1>1 DEF TypeOK
<1>3. TypeOK'
  BY <1>1, <1>2 DEF TypeOK
<1>4. DeviceExclusive'
  BY <1>1 DEF DeviceExclusive, Live
<1>5. \A e \in Coroutines : (Live(e)' <=> Live(e)) /\ (Executing(e)' <=> Executing(e))
  BY DEF Live, Executing
<1>6. ASSUME NEW e \in Coroutines, Executing(e), up, job[e].run = r, Works(e),
             d = [runs[r] EXCEPT !.cancel = TRUE]
      PROVE  [job[e].doc EXCEPT !.cancel = d.cancel] = d
  BY <1>6 DEF Works, Document
<1>7. AllWork'
  <2>. SUFFICES ASSUME NEW e \in Coroutines, Live(e)
                PROVE  Works(e)'
    BY <1>5 DEF AllWork
  <2>1. Works(e) /\ up
    BY <1>1 DEF AllWork, Works
  <2>2. CASE job[e].run # r
    BY <1>2, <1>5, <2>1, <2>2 DEF Works
  <2>3. CASE job[e].run = r /\ ~Executing(e)
    BY <1>2, <1>5, <2>1, <2>3 DEF Works
  <2>4. CASE job[e].run = r /\ Executing(e)
    <3>1. d = [runs[r] EXCEPT !.cancel = TRUE] /\ d.status = "running"
      BY <2>1, <2>4 DEF Works, Document
    <3>. QED  BY <1>2, <1>5, <1>6, <2>1, <2>4, <3>1 DEF Works
  <2>. QED  BY <2>2, <2>3, <2>4
<1>8. RunningRunOwned'
  <2>. SUFFICES ASSUME NEW q \in Runs, runs'[q].status = "running", up
                PROVE  \E e \in Coroutines : Executing(e) /\ job[e].run = q
                         /\ [job[e].doc EXCEPT !.cancel = runs'[q].cancel] = runs'[q]
    BY <1>5 DEF RunningRunOwned
  <2>1. runs[q].status = "running"
    BY <1>2
  <2>2. PICK e \in Coroutines : Executing(e) /\ job[e].run = q
                         /\ [job[e].doc EXCEPT !.cancel = runs[q].cancel] = runs[q]
    BY <1>1, <2>1 DEF RunningRunOwned
  <2>3. CASE q # r
    BY <1>2, <2>2, <2>3
  <2>4. CASE q = r
    <3>1. Works(e) /\ d = [runs[r] EXCEPT !.cancel = TRUE]
      BY <1>1, <1>2, <2>1, <2>2, <2>4 DEF AllWork, Live, Executing
    <3>. QED  BY <1>2, <1>6, <2>2, <2>4, <3>1
  <2>. QED  BY <2>3, <2>4
<1>. QED  BY <1>3, <1>4, <1>7, <1>8 DEF IInv

\* The end of a phase of a batch: the run rests, or goes on with the cases left.
LEMMA TurnsToCases ==
  ASSUME IInv, NEW c \in Coroutines, Executing(c), UNCHANGED rest,
         NEW STATE doc, doc \in Document, doc.status = "running", ToCases(c, doc)
  PROVE  IInv'
<1>1. job \in [Coroutines -> Jobs] /\ Live(c) /\ Works(c) /\ job[c] \in Jobs
  BY DEF IInv, TypeOK, Jobs, AllWork, Live, Executing
<1>2. PICK left \in SUBSET CasesLeft(c, doc) :
    IF left = {}
    THEN /\ CasesLeft(c, doc) = {} \/ GuardPasses(c)
         /\ \E st \in {"completed", "awaiting_review"} :
              runs' = Persisted(job[c].run, [doc EXCEPT !.status = st])
         /\ End(c)
    ELSE /\ runs' = Persisted(job[c].run, doc)
         /\ job' = [job EXCEPT ![c].pc = "api", ![c].op = "none",
                               ![c].doc = doc, ![c].todo = left]
         /\ UNCHANGED busy
  BY DEF ToCases
<1>3. CASE left = {}
  <2>1. PICK st \in {"completed", "awaiting_review"} :
              runs' = Persisted(job[c].run, [doc EXCEPT !.status = st])
    BY <1>2, <1>3
  <2>2. End(c)
    BY <1>2, <1>3
  <2>. DEFINE d == [[doc EXCEPT !.status = st] EXCEPT !.cancel = runs[job[c].run].cancel]
  <2>3. d \in Document /\ d.status # "running"
    BY <1>1 DEF Works, Document, Resting
  <2>4. runs' = [runs EXCEPT ![job[c].run] = d]
    BY <2>1 DEF Persisted
  <2>. HIDE DEF d
  <2>. QED  BY <1>1, <2>2, <2>3, <2>4, Ends
<1>4. CASE left # {}
  <2>. DEFINE x == [job[c] EXCEPT !.pc = "api", !.op = "none", !.doc = doc, !.todo = left]
  <2>1. left \in SUBSET (Actions \cup Captures)
    BY <1>1 DEF CasesLeft, Jobs
  <2>2. x \in Jobs /\ x.kind = "execute" /\ x.run = job[c].run /\ x.doc = doc /\ x.op = "none"
    BY <1>1, <2>1 DEF Jobs, Executing
  <2>3. job' = [job EXCEPT ![c] = x] /\ runs' = Persisted(job[c].run, doc) /\ UNCHANGED busy
    BY <1>1, <1>2, <1>4
  <2>. HIDE DEF x
  <2>. QED  BY <2>2, <2>3, GoesOn
<1>. QED  BY <1>3, <1>4

\* An operation is issued: the stored document is not written.
LEMMA Issued ==
  ASSUME IInv, NEW c \in Coroutines, Executing(c), UNCHANGED <<runs, busy, rest>>,
         NEW op \in Actions \cup Captures \cup {"back"}, Issue(c, op),
         op = "back" => job[c].stack > 0
  PROVE  IInv'
<1>1. /\ job \in [Coroutines -> Jobs] /\ Works(c) /\ job[c] \in Jobs
      /\ runs \in [Runs -> Document \cup {NoRun}]
  BY DEF IInv, TypeOK, Jobs, AllWork, Live, Executing
<1>. DEFINE x == [job[c] EXCEPT !.pc = "issued", !.op = op]
<1>2. x \in Jobs /\ x.kind = "execute" /\ x.run = job[c].run /\ x.doc = job[c].doc
      /\ (x.op = "back" => x.stack > 0)
  BY <1>1 DEF Jobs, Executing
<1>3. job' = [job EXCEPT ![c] = x]
  BY <1>1 DEF Issue
<1>4. job[c].doc.status = "running"
  BY <1>1 DEF Works, Document, Executing
<1>5. runs' = Persisted(job[c].run, x.doc)
  BY <1>1, <1>2 DEF Persisted, Works
<1>. HIDE DEF x
<1>. QED  BY <1>1, <1>2, <1>3, <1>4, <1>5, GoesOn DEF Works

\* A coroutine that drives a device writes its document in a resting state and
\* ends.
LEMMA Settles ==
  ASSUME IInv, NEW c \in Coroutines, Live(c), UNCHANGED rest, End(c),
         NEW st \in Resting, runs' = Persisted(job[c].run, [job[c].doc EXCEPT !.status = st])
  PROVE  IInv'
<1>1. Works(c)
  BY DEF IInv, AllWork
<1>. DEFINE d == [[job[c].doc EXCEPT !.status = st] EXCEPT !.cancel = runs[job[c].run].cancel]
<1>2. d \in Document /\ d.status # "running"
  BY <1>1 DEF Works, Document, Resting
<1>3. runs' = [runs EXCEPT ![job[c].run] = d]
  BY DEF Persisted
<1>. HIDE DEF d
<1>. QED  BY <1>2, <1>3, Ends

\* A coroutine that gives up an observation or a creation writes nothing.
LEMMA Drops ==
  ASSUME IInv, NEW c \in Coroutines, Live(c), ~Executing(c), UNCHANGED <<runs, rest>>, End(c)
  PROVE  IInv'
<1>1. Works(c) /\ runs \in [Runs -> Document \cup {NoRun}]
  BY DEF IInv, AllWork, TypeOK
<1>. DEFINE d == runs[job[c].run]
<1>2. d \in Document /\ runs' = [runs EXCEPT ![job[c].run] = d]
  BY <1>1 DEF Works
<1>. HIDE DEF d
<1>3. d = runs[job[c].run]
  BY DEF d
<1>. QED  BY <1>2, <1>3, Ends

LEMMA Initially == Init => IInv
<1>. SUFFICES ASSUME Init PROVE IInv
  OBVIOUS
<1>1. \A c \in Coroutines : ~Live(c)
  BY DEF Init, Live, Idle
<1>2. TypeOK
  <2>1. Idle \in Jobs
    BY DEF Idle, Jobs
  <2>. QED  BY <2>1, AutomationAssumption DEF Init, TypeOK, Jobs
<1>3. RunningRunOwned
  BY DEF Init, RunningRunOwned, NoRun
<1>. QED  BY <1>1, <1>2, <1>3 DEF IInv, DeviceExclusive, AllWork, Init

LEMMA CreateRunStep ==
  ASSUME IInv, up, NEW c \in Coroutines, NEW r \in Runs, CreateRun(c, r)
  PROVE  IInv'
<1>1. PICK imported \in SUBSET Captures :
       LET doc == [NoRun EXCEPT !.status = "discovering", !.captures = imported]
       IN  /\ Begin(c, r, [Idle EXCEPT !.kind = "create", !.run = r, !.doc = doc])
           /\ runs' = [runs EXCEPT ![r] = doc]
           /\ targets' = targets \cup ({r} \X imported)
  BY DEF CreateRun
<1>. DEFINE doc == [NoRun EXCEPT !.status = "discovering", !.captures = imported]
            x == [Idle EXCEPT !.kind = "create", !.run = r, !.doc = doc]
<1>2. doc \in Document /\ doc.status = "discovering"
  BY DEF NoRun, Document, Controlling
<1>3. x \in Jobs /\ x.kind = "create" /\ x.run = r /\ x.doc = doc /\ x.op = "none"
  BY <1>2 DEF Idle, Jobs
<1>4. targets' \in SUBSET (Runs \X Captures)
  BY <1>1 DEF IInv, TypeOK
<1>5. Begin(c, r, x) /\ runs' = [runs EXCEPT ![r] = doc]
  BY <1>1
<1>. HIDE DEF x, doc
<1>. QED  BY <1>2, <1>3, <1>4, <1>5, Begins DEF CreateRun

LEMMA ObserveStartStep ==
  ASSUME IInv, up, NEW c \in Coroutines, NEW r \in Runs, ObserveStart(c, r)
  PROVE  IInv'
<1>. DEFINE x == [Idle EXCEPT !.kind = "observe", !.run = r, !.doc = runs[r]]
<1>1. /\ runs[r] \in Document /\ runs[r].status # "running"
      /\ runs' = [runs EXCEPT ![r] = runs[r]] /\ targets' \in SUBSET (Runs \X Captures)
  BY DEF IInv, TypeOK, ObserveStart, Resting, NoRun, rest
<1>2. x \in Jobs /\ x.kind = "observe" /\ x.run = r /\ x.doc = runs[r] /\ x.op = "none"
  BY <1>1 DEF Idle, Jobs
<1>3. Begin(c, r, x)
  BY DEF ObserveStart
<1>. HIDE DEF x
<1>. QED  BY <1>1, <1>2, <1>3, Begins DEF ObserveStart, rest

LEMMA ExecuteStep ==
  ASSUME IInv, up, NEW c \in Coroutines, NEW r \in Runs,
         NEW todo \in SUBSET (Actions \cup Captures), Execute(c, r, todo)
  PROVE  IInv'
<1>. DEFINE doc == [runs[r] EXCEPT !.status = "running", !.cancel = FALSE]
            x == [Idle EXCEPT !.kind = "execute", !.run = r, !.doc = doc,
                              !.pc = "ui", !.todo = todo]
<1>1. runs[r] \in Document /\ targets' \in SUBSET (Runs \X Captures)
  BY DEF IInv, TypeOK, Execute, Claim, Executable, NoRun, rest
<1>2. doc \in Document /\ doc.status = "running"
  BY <1>1 DEF Document, Controlling
<1>3. x \in Jobs /\ x.kind = "execute" /\ x.run = r /\ x.doc = doc /\ x.op = "none"
  BY <1>2 DEF Idle, Jobs
<1>4. Begin(c, r, x) /\ runs' = [runs EXCEPT ![r] = doc]
  BY DEF Execute, Claim
<1>. HIDE DEF x, doc
<1>. QED  BY <1>1, <1>2, <1>3, <1>4, Begins DEF Execute, rest

LEMMA ObservedStep ==
  ASSUME IInv, NEW c \in Coroutines, Observed(c)
  PROVE  IInv'
<1>1. /\ Executing(c) /\ Live(c) /\ Works(c) /\ job[c] \in Jobs /\ job \in [Coroutines -> Jobs]
      /\ UNCHANGED rest
  BY DEF IInv, AllWork, TypeOK, Jobs, Observed, At, Live, Executing
<1>. DEFINE doc == [job[c].doc EXCEPT !.done = @ \cup ({job[c].op} \ {"back"})]
<1>2. doc \in Document /\ doc.status = "running"
  BY <1>1 DEF Works, Document, Observed
<1>3. CASE ToCases(c, doc)
  BY <1>1, <1>2, <1>3, TurnsToCases
<1>4. CASE /\ runs' = Persisted(job[c].run, doc)
           /\ \E stack \in IF job[c].op = "back" THEN {job[c].stack - 1}
                            ELSE {job[c].stack, job[c].stack + 1} :
                 job' = [job EXCEPT ![c].pc = "ui", ![c].op = "none",
                                    ![c].doc = doc, ![c].stack = stack]
           /\ UNCHANGED busy
           /\ job[c].op = "back" => job[c].stack > 0
  <2>1. PICK stack \in IF job[c].op = "back" THEN {job[c].stack - 1}
                       ELSE {job[c].stack, job[c].stack + 1} :
               job' = [job EXCEPT ![c].pc = "ui", ![c].op = "none",
                                  ![c].doc = doc, ![c].stack = stack]
    BY <1>4
  <2>2. stack \in Nat
    BY <1>1, <1>4, <2>1 DEF Jobs
  <2>. DEFINE x == [job[c] EXCEPT !.pc = "ui", !.op = "none", !.doc = doc, !.stack = stack]
  <2>3. x \in Jobs /\ x.kind = "execute" /\ x.run = job[c].run /\ x.doc = doc /\ x.op = "none"
    BY <1>1, <1>2, <2>2 DEF Jobs, Executing
  <2>4. job' = [job EXCEPT ![c] = x]
    BY <1>1, <2>1
  <2>. HIDE DEF x, doc
  <2>. QED  BY <1>1, <1>2, <1>4, <2>3, <2>4, GoesOn
<1>5. job[c].op = "back" => job[c].stack > 0
  BY <1>1 DEF Works
<1>. HIDE DEF doc
<1>6. \/ ToCases(c, doc)
      \/ /\ runs' = Persisted(job[c].run, doc)
         /\ \E stack \in IF job[c].op = "back" THEN {job[c].stack - 1}
                            ELSE {job[c].stack, job[c].stack + 1} :
                 job' = [job EXCEPT ![c].pc = "ui", ![c].op = "none",
                                    ![c].doc = doc, ![c].stack = stack]
         /\ UNCHANGED busy
  BY DEF Observed, doc
<1>. QED  BY <1>3, <1>4, <1>5, <1>6

LEMMA AnsweredStep ==
  ASSUME IInv, NEW c \in Coroutines, Answered(c)
  PROVE  IInv'
<1>1. Executing(c) /\ Live(c) /\ Works(c) /\ UNCHANGED rest
  BY DEF IInv, AllWork, Answered, At, Live, Executing
<1>. DEFINE doc == [job[c].doc EXCEPT !.done = @ \cup {job[c].op}]
<1>2. doc \in Document /\ doc.status = "running" /\ ToCases(c, doc)
  BY <1>1 DEF Works, Document, Answered
<1>. HIDE DEF doc
<1>. QED  BY <1>1, <1>2, TurnsToCases

LEMMA StopStep == ASSUME IInv, Stop PROVE IInv'
<1>1. \A c \in Coroutines : ~Live(c)'
  BY DEF Stop, Live, Idle
<1>2. PICK end \in [Runs -> {"running", "interrupted", "cancelled"}] :
       LET ended == {r \in Runs : end[r] # "running"
                                 /\ \E c \in Coroutines : Executing(c) /\ job[c].run = r}
       IN  runs' = [r \in Runs |-> IF r \in ended
                                   THEN [runs[r] EXCEPT !.status = end[r], !.cancel = TRUE]
                                   ELSE runs[r]]
  BY DEF Stop
<1>3. \A r \in Runs : runs'[r] \in Document \cup {NoRun}
  <2>. TAKE r \in Runs
  <2>1. runs[r] \in Document \cup {NoRun}
    BY DEF IInv, TypeOK
  <2>2. CASE end[r] # "running" /\ \E c \in Coroutines : Executing(c) /\ job[c].run = r
    <3>1. runs[r] \in Document
      BY <2>2 DEF IInv, AllWork, Works, Live, Executing
    <3>2. runs'[r] = [runs[r] EXCEPT !.status = end[r], !.cancel = TRUE]
      BY <1>2, <2>2
    <3>3. end[r] \in Resting
      BY <2>2 DEF Resting
    <3>. QED  BY <3>1, <3>2, <3>3 DEF Document
  <2>3. CASE ~(end[r] # "running" /\ \E c \in Coroutines : Executing(c) /\ job[c].run = r)
    <3>1. runs'[r] = runs[r]
      BY <1>2, <2>3
    <3>. QED  BY <2>1, <3>1
  <2>. QED  BY <2>2, <2>3
<1>4. TypeOK'
  <2>1. Idle \in Jobs
    BY DEF Idle, Jobs
  <2>2. restarts' \in 0 .. MaxRestarts
    <3>1. restarts \in 0 .. MaxRestarts /\ restarts < MaxRestarts /\ restarts' = restarts + 1
      BY DEF IInv, TypeOK, Stop
    <3>. QED  BY <3>1, AutomationAssumption
  <2>3. runs' \in [Runs -> Document \cup {NoRun}]
    BY <1>2, <1>3
  <2>. QED  BY <2>1, <2>2, <2>3 DEF Stop, TypeOK, Jobs
<1>5. DeviceExclusive'
  <2>1. busy' = {}
    BY DEF Stop
  <2>. QED  BY <1>1, <2>1 DEF DeviceExclusive
<1>6. AllWork' /\ RunningRunOwned'
  <2>1. ~up'
    BY DEF Stop
  <2>. QED  BY <1>1, <2>1 DEF AllWork, RunningRunOwned
<1>. QED  BY <1>4, <1>5, <1>6 DEF IInv

LEMMA OperatorStep ==
  ASSUME IInv, NEW r \in Runs,
         \/ Cancel(r)
         \/ \E k \in Captures : ImportCapture(r, k)
         \/ ~up /\ Recover(r)
  PROVE  IInv'
<1>1. runs[r] \in Document /\ targets \in SUBSET (Runs \X Captures)
  BY DEF IInv, TypeOK, Cancel, ImportCapture, Recover, Resting, Controlling, NoRun
<1>2. CASE Cancel(r)
  <2>. DEFINE d == [runs[r] EXCEPT !.cancel = TRUE]
  <2>1. d \in Document /\ d.done = runs[r].done /\ runs' = [runs EXCEPT ![r] = d]
    BY <1>1, <1>2 DEF Document, Cancel
  <2>2. d = [runs[r] EXCEPT !.cancel = TRUE]
    OBVIOUS
  <2>. HIDE DEF d
  <2>. QED  BY <1>1, <1>2, <2>1, <2>2, Edits DEF Cancel
<1>3. CASE \E k \in Captures : ImportCapture(r, k)
  <2>1. PICK k \in Captures : ImportCapture(r, k)
    BY <1>3
  <2>. DEFINE d == [runs[r] EXCEPT !.captures = @ \cup {k}]
  <2>2. /\ d \in Document /\ d.done = runs[r].done /\ runs' = [runs EXCEPT ![r] = d]
        /\ runs[r].status # "running" /\ d.status # "running"
    BY <1>1, <2>1 DEF Document, ImportCapture, Resting
  <2>3. targets' \in SUBSET (Runs \X Captures)
    BY <1>1, <2>1 DEF ImportCapture
  <2>. HIDE DEF d
  <2>. QED  BY <1>1, <2>1, <2>2, <2>3, Edits DEF ImportCapture
<1>4. CASE ~up /\ Recover(r)
  <2>. DEFINE d == [runs[r] EXCEPT !.status = "interrupted"]
  <2>1. /\ d \in Document /\ d.done = runs[r].done /\ runs' = [runs EXCEPT ![r] = d]
        /\ d.status # "running"
    BY <1>1, <1>4 DEF Document, Recover, Resting
  <2>. HIDE DEF d
  <2>. QED  BY <1>1, <1>4, <2>1, Edits DEF Recover
<1>. QED  BY <1>2, <1>3, <1>4

LEMMA ServeStep == ASSUME IInv, ~up, Serve PROVE IInv'
<1>1. \A c \in Coroutines : ~Live(c) /\ ~Live(c)'
  BY DEF IInv, AllWork, Works, Serve, Live
<1>2. \A r \in Runs : runs'[r].status # "running"
  BY DEF Serve, Controlling
<1>3. TypeOK' /\ DeviceExclusive'
  BY <1>1 DEF IInv, TypeOK, DeviceExclusive, Serve
<1>. QED  BY <1>1, <1>2, <1>3 DEF IInv, AllWork, RunningRunOwned

LEMMA BatchStep == ASSUME IInv, NEW c \in Coroutines, Batch(c) PROVE IInv'
<1>1. CASE \E a \in Actions : Input(c, a)
  BY <1>1, Issued, AutomationAssumption DEF Input, At, rest
<1>2. CASE \E k \in Captures : Request(c, k)
  BY <1>2, Issued, AutomationAssumption DEF Request, At, rest
<1>3. CASE Back(c)
  BY <1>3, Issued DEF Back, At, rest
<1>4. CASE Observed(c)
  BY <1>4, ObservedStep
<1>5. CASE UiDone(c)
  <2>1. Executing(c) /\ job[c].doc \in Document /\ job[c].doc.status = "running"
    BY <1>5 DEF UiDone, At, IInv, AllWork, Works, Live, Executing, Document
  <2>. QED  BY <1>5, <2>1, TurnsToCases DEF UiDone
<1>6. CASE Answered(c)
  BY <1>6, AnsweredStep
<1>7. CASE BatchStops(c)
  <2>1. PICK st \in {"cancelled", "paused", "error"} : Finish(c, st)
    BY <1>7 DEF BatchStops
  <2>. QED  BY <1>7, <2>1, Settles DEF BatchStops, Finish, Live, Executing, Resting
<1>. QED  BY <1>1, <1>2, <1>3, <1>4, <1>5, <1>6, <1>7 DEF Batch

LEMMA Stepwise == IInv /\ [Next]_vars => IInv'
<1>. SUFFICES ASSUME IInv, [Next]_vars PROVE IInv'
  OBVIOUS
<1>1. CASE UNCHANGED vars
  BY <1>1 DEF vars, IInv, TypeOK, DeviceExclusive, AllWork, Works, RunningRunOwned, Live, Executing
<1>2. ASSUME up, NEW c \in Coroutines,
             CreateDone(c) \/ CreateAbandoned(c) \/ ObserveDone(c) \/ ObserveFails(c)
      PROVE  IInv'
  <2>1. Live(c) /\ ~Executing(c)
    BY <1>2 DEF CreateDone, CreateAbandoned, ObserveDone, ObserveFails, Live, Executing
  <2>2. CASE CreateAbandoned(c) \/ ObserveFails(c)
    BY <2>1, <2>2, Drops DEF CreateAbandoned, ObserveFails
  <2>3. CASE CreateDone(c) \/ ObserveDone(c)
    BY <2>1, <2>3, Settles DEF CreateDone, ObserveDone, Resting
  <2>. QED  BY <1>2, <2>2, <2>3
<1>3. ASSUME up, NEW c \in Coroutines, NEW r \in Runs, CreateRun(c, r) \/ ObserveStart(c, r)
      PROVE  IInv'
  BY <1>3, CreateRunStep, ObserveStartStep
<1>4. CASE Stop
  BY <1>4, StopStep
<1>. QED  BY <1>1, <1>2, <1>3, <1>4, BatchStep, ExecuteStep, OperatorStep, ServeStep DEF Next

-----------------------------------------------------------------------------
\* The invariant holds throughout.
THEOREM Invariance == Spec => []IInv
<1>. QED  BY Initially, Stepwise, PTL DEF Spec

\* Every variable has its type, whatever the interleaving (engine.py, store.py).
THEOREM Typed == Spec => []TypeOK
<1>1. IInv => TypeOK
  BY DEF IInv
<1>. QED  BY <1>1, Invariance, PTL

\* Whichever way the coroutines of any number of runs interleave, fail, are
\* abandoned or stopped, no two drive one device, and a device is busy exactly
\* while one does.
THEOREM DevicesExclusive == Spec => []DeviceExclusive
<1>1. IInv => DeviceExclusive
  BY DEF IInv
<1>. QED  BY <1>1, Invariance, PTL

\* A run stored as running has its task, which holds the stored document up to
\* the cancellation flag.
THEOREM RunningRunsOwned == Spec => []RunningRunOwned
<1>1. IInv => RunningRunOwned
  BY DEF IInv
<1>. QED  BY <1>1, Invariance, PTL

\* Only three actions put a job in the state "issued".
LEMMA WhoIssues ==
  ASSUME IInv, [Next]_vars, NEW c \in Coroutines, Issues(c)
  PROVE  \/ \E a \in Actions : Input(c, a)
         \/ \E k \in Captures : Request(c, k)
         \/ Back(c)
<1>1. job \in [Coroutines -> Jobs]
  BY DEF IInv, TypeOK, Jobs
<1>2. \A e \in Coroutines : job'[e] = job[e] => e # c
  BY DEF Issues
<1>3. ASSUME \/ UNCHANGED vars \/ Stop \/ Serve
             \/ \E r \in Runs : Cancel(r) \/ Recover(r) \/ \E k \in Captures : ImportCapture(r, k)
      PROVE  FALSE
  <2>1. CASE Stop
    BY <2>1 DEF Stop, Issues, Idle
  <2>2. CASE ~Stop
    <3>1. job' = job
      BY <1>3, <2>2 DEF vars, Cancel, Recover, Serve, ImportCapture
    <3>. QED  BY <3>1, <1>2
  <2>. QED  BY <2>1, <2>2
<1>4. ASSUME NEW e \in Coroutines, End(e)
      PROVE  FALSE
  BY <1>1, <1>4 DEF End, Issues, Idle
<1>5. ASSUME NEW e \in Coroutines, NEW r \in Runs,
             \/ CreateRun(e, r) \/ ObserveStart(e, r)
             \/ \E todo \in SUBSET (Actions \cup Captures) : Execute(e, r, todo)
      PROVE  FALSE
  BY <1>1, <1>5 DEF CreateRun, ObserveStart, Execute, Claim, Begin, Issues, Idle
<1>6. ASSUME NEW e \in Coroutines, NEW STATE d, ToCases(e, d)
      PROVE  FALSE
  <2>1. PICK left \in SUBSET CasesLeft(e, d) :
          job' = [job EXCEPT ![e].pc = "api", ![e].op = "none", ![e].doc = d, ![e].todo = left]
    BY <1>4, <1>6 DEF ToCases
  <2>. QED  BY <1>1, <2>1 DEF Issues
<1>7. ASSUME NEW e \in Coroutines, Observed(e) \/ UiDone(e) \/ Answered(e) \/ BatchStops(e)
      PROVE  FALSE
  <2>1. CASE BatchStops(e)
    BY <1>4, <2>1 DEF BatchStops, Finish
  <2>2. CASE UiDone(e)
    BY <1>6, <2>2 DEF UiDone
  <2>3. CASE Answered(e)
    BY <1>6, <2>3 DEF Answered
  <2>4. CASE Observed(e)
    <3>. DEFINE doc == [job[e].doc EXCEPT !.done = @ \cup ({job[e].op} \ {"back"})]
    <3>1. CASE ToCases(e, doc)
      BY <1>6, <3>1
    <3>2. CASE \E stack \in IF job[e].op = "back" THEN {job[e].stack - 1}
                             ELSE {job[e].stack, job[e].stack + 1} :
                 job' = [job EXCEPT ![e].pc = "ui", ![e].op = "none",
                                    ![e].doc = doc, ![e].stack = stack]
      <4>. HIDE DEF doc
      <4>. QED  BY <1>1, <3>2 DEF Issues
    <3>. QED  BY <2>4, <3>1, <3>2 DEF Observed
  <2>. QED  BY <1>7, <2>1, <2>2, <2>3, <2>4
<1>8. ASSUME NEW e \in Coroutines, e # c,
             \/ \E a \in Actions : Input(e, a)
             \/ \E k \in Captures : Request(e, k)
             \/ Back(e)
      PROVE  FALSE
  BY <1>1, <1>8 DEF Input, Request, Back, Issue, Issues
<1>9. ASSUME NEW e \in Coroutines,
             CreateDone(e) \/ CreateAbandoned(e) \/ ObserveDone(e) \/ ObserveFails(e)
      PROVE  FALSE
  BY <1>4, <1>9 DEF CreateDone, CreateAbandoned, ObserveDone, ObserveFails
<1>10. ASSUME NEW e \in Coroutines, Batch(e)
       PROVE  \/ \E a \in Actions : Input(c, a)
              \/ \E k \in Captures : Request(c, k)
              \/ Back(c)
  <2>1. \/ \E a \in Actions : Input(e, a)
        \/ \E k \in Captures : Request(e, k)
        \/ Back(e)
    BY <1>7, <1>10 DEF Batch
  <2>. QED  BY <1>8, <2>1
<1>. QED  BY <1>3, <1>5, <1>9, <1>10 DEF Next

\* Once a cancellation is stored, no input and no request of that run is issued
\* any more, whatever the device and the network do.
THEOREM CancelStops == Spec => NothingIssuedAfterCancel
<1>1. IInv /\ [Next]_vars => [\A c \in Coroutines : Issues(c) => ~runs[job[c].run].cancel]_vars
  BY WhoIssues DEF Input, Request, Back, GuardPasses
<1>. QED  BY <1>1, Invariance, PTL DEF Spec, NothingIssuedAfterCancel

\* Nothing the stored run records as executed is issued again.
THEOREM NeverRepeated == Spec => NothingRepeated
<1>1. ASSUME IInv, [Next]_vars, NEW c \in Coroutines, Issues(c)
      PROVE  job'[c].op \notin runs[job[c].run].done
  <2>1. /\ job \in [Coroutines -> Jobs] /\ Executing(c) /\ Works(c)
        /\ runs[job[c].run].done = job[c].doc.done /\ job[c].doc.done \subseteq Actions \cup Captures
    BY <1>1, WhoIssues DEF IInv, TypeOK, Jobs, AllWork, Works, Live, Executing, At,
                           Input, Request, Back, Document
  <2>2. CASE \E a \in Actions : Input(c, a)
    BY <2>1, <2>2 DEF Input, Issue
  <2>3. CASE \E k \in Captures : Request(c, k)
    BY <2>1, <2>3 DEF Request, Issue, CasesLeft
  <2>4. CASE Back(c)
    BY <2>1, <2>4, AutomationAssumption DEF Back, Issue
  <2>. QED  BY <1>1, <2>2, <2>3, <2>4, WhoIssues
<1>2. IInv /\ [Next]_vars
        => [\A c \in Coroutines : Issues(c) => job'[c].op \notin runs[job[c].run].done]_vars
  BY <1>1
<1>. QED  BY <1>2, Invariance, PTL DEF Spec, NothingRepeated

\* Writing back a document that has recorded no less than the stored one.
LEMMA WriteKeeps ==
  ASSUME IInv, NEW c \in Coroutines, Live(c), NEW STATE d, d.done \in SUBSET (Actions \cup Captures),
         job[c].doc.done \subseteq d.done, runs' = Persisted(job[c].run, d), d \in Document
  PROVE  \A r \in Runs : runs[r].done \subseteq runs'[r].done
<1>1. Works(c) /\ runs \in [Runs -> Document \cup {NoRun}] /\ job[c].run \in Runs
  BY DEF IInv, AllWork, Works, TypeOK
<1>2. runs'[job[c].run] = [d EXCEPT !.cancel = runs[job[c].run].cancel]
  BY <1>1 DEF Persisted
<1>3. runs'[job[c].run].done = d.done
  BY <1>2 DEF Document
<1>4. \A r \in Runs \ {job[c].run} : runs'[r] = runs[r]
  BY <1>1 DEF Persisted
<1>. QED  BY <1>1, <1>3, <1>4 DEF Works

LEMMA TurnKeeps ==
  ASSUME IInv, NEW c \in Coroutines, Live(c), NEW STATE d, d \in Document,
         job[c].doc.done \subseteq d.done, ToCases(c, d)
  PROVE  \A r \in Runs : runs[r].done \subseteq runs'[r].done
<1>1. CASE runs' = Persisted(job[c].run, d)
  BY <1>1, WriteKeeps DEF Document
<1>2. CASE \E st \in {"completed", "awaiting_review"} :
              runs' = Persisted(job[c].run, [d EXCEPT !.status = st])
  <2>1. PICK st \in {"completed", "awaiting_review"} :
              runs' = Persisted(job[c].run, [d EXCEPT !.status = st])
    BY <1>2
  <2>. DEFINE e == [d EXCEPT !.status = st]
  <2>2. e \in Document /\ e.done = d.done
        /\ e.done \in SUBSET (Actions \cup Captures)
    BY DEF Document, Resting
  <2>. HIDE DEF e
  <2>3. runs' = Persisted(job[c].run, e)
    BY <2>1 DEF e
  <2>. QED  BY <2>2, <2>3, WriteKeeps
<1>. QED  BY <1>1, <1>2 DEF ToCases

LEMMA SettleKeeps ==
  ASSUME IInv, NEW c \in Coroutines, Live(c), NEW st \in Resting,
         runs' = Persisted(job[c].run, [job[c].doc EXCEPT !.status = st])
  PROVE  \A r \in Runs : runs[r].done \subseteq runs'[r].done
<1>1. job[c].doc \in Document
  BY DEF IInv, AllWork, Works
<1>. DEFINE e == [job[c].doc EXCEPT !.status = st]
<1>2. e \in Document /\ e.done = job[c].doc.done
      /\ e.done \in SUBSET (Actions \cup Captures)
  BY <1>1 DEF Document
<1>. HIDE DEF e
<1>3. runs' = Persisted(job[c].run, e)
  BY DEF e
<1>. QED  BY <1>2, <1>3, WriteKeeps

\* Every coroutine writes back a whole document it read before it awaited the
\* device; still no receipt of an executed action or case is lost.
THEOREM EvidenceIsKept == Spec => EvidenceKept
<1>1. ASSUME IInv, [Next]_vars
      PROVE  \A r \in Runs : runs[r].done \subseteq runs'[r].done
  <2>1. /\ runs \in [Runs -> Document \cup {NoRun}] /\ job \in [Coroutines -> Jobs]
        /\ \A c \in Coroutines : Live(c) => Works(c)
    BY <1>1 DEF IInv, TypeOK, Jobs, AllWork
  <2>2. CASE runs' = runs
    BY <2>2
  <2>3. ASSUME NEW c \in Coroutines, CreateDone(c) \/ ObserveDone(c) \/ BatchStops(c)
        PROVE  \A r \in Runs : runs[r].done \subseteq runs'[r].done
    <3>1. PICK st \in Resting : runs' = Persisted(job[c].run, [job[c].doc EXCEPT !.status = st])
      BY <2>3 DEF CreateDone, ObserveDone, BatchStops, Finish, Resting
    <3>2. Live(c)
      BY <2>3 DEF CreateDone, ObserveDone, BatchStops, Live, Executing
    <3>. QED  BY <1>1, <3>1, <3>2, SettleKeeps
  <2>4. ASSUME NEW c \in Coroutines, UiDone(c)
        PROVE  \A r \in Runs : runs[r].done \subseteq runs'[r].done
    BY <1>1, <2>1, <2>4, TurnKeeps DEF UiDone, At, Live, Executing, Works
  <2>5. ASSUME NEW c \in Coroutines, Observed(c) \/ Answered(c)
        PROVE  \A r \in Runs : runs[r].done \subseteq runs'[r].done
    <3>1. Live(c) /\ job[c].doc \in Document /\ job[c] \in Jobs
      BY <2>1, <2>5 DEF Observed, Answered, At, Live, Executing, Works
    <3>2. CASE Answered(c)
      <4>. DEFINE d == [job[c].doc EXCEPT !.done = @ \cup {job[c].op}]
      <4>1. d \in Document /\ job[c].doc.done \subseteq d.done /\ ToCases(c, d)
        BY <3>1, <3>2 DEF Answered, Document
      <4>. HIDE DEF d
      <4>. QED  BY <1>1, <3>1, <4>1, TurnKeeps
    <3>3. CASE Observed(c)
      <4>. DEFINE d == [job[c].doc EXCEPT !.done = @ \cup ({job[c].op} \ {"back"})]
      <4>1. d \in Document /\ job[c].doc.done \subseteq d.done
            /\ d.done \in SUBSET (Actions \cup Captures)
        BY <3>1, <3>3 DEF Observed, Document
      <4>2. runs' = Persisted(job[c].run, d) \/ ToCases(c, d)
        BY <3>3 DEF Observed
      <4>. HIDE DEF d
      <4>. QED  BY <1>1, <3>1, <4>1, <4>2, TurnKeeps, WriteKeeps
    <3>. QED  BY <2>5, <3>2, <3>3
  <2>6. ASSUME NEW c \in Coroutines, NEW r \in Runs, CreateRun(c, r)
        PROVE  \A q \in Runs : runs[q].done \subseteq runs'[q].done
    <3>1. runs[r] = NoRun
      BY <2>1, <2>6 DEF CreateRun, Document, Resting, Controlling
    <3>2. \A q \in Runs \ {r} : runs'[q] = runs[q]
      BY <2>1, <2>6 DEF CreateRun
    <3>. QED  BY <3>1, <3>2 DEF NoRun
  <2>7. ASSUME NEW c \in Coroutines, NEW r \in Runs, NEW todo, Execute(c, r, todo)
        PROVE  \A q \in Runs : runs[q].done \subseteq runs'[q].done
    <3>. DEFINE d == [runs[r] EXCEPT !.status = "running", !.cancel = FALSE]
    <3>1. runs[r] \in Document /\ runs' = [runs EXCEPT ![r] = d]
      BY <2>1, <2>7 DEF Execute, Claim, Executable, NoRun
    <3>2. d.done = runs[r].done
      BY <3>1 DEF Document
    <3>. HIDE DEF d
    <3>. QED  BY <2>1, <3>1, <3>2
  <2>8. ASSUME NEW r \in Runs,
               Cancel(r) \/ Recover(r) \/ \E k \in Captures : ImportCapture(r, k)
        PROVE  \A q \in Runs : runs[q].done \subseteq runs'[q].done
    <3>1. runs[r] \in Document
      BY <2>1, <2>8 DEF Cancel, Recover, ImportCapture, Resting, Controlling, NoRun
    <3>. QED  BY <2>1, <2>8, <3>1 DEF Cancel, Recover, ImportCapture, Document
  <2>9. CASE Stop
    <3>1. ASSUME NEW r \in Runs
          PROVE  runs[r].done \subseteq runs'[r].done
      <4>1. runs[r] \in Document \cup {NoRun}
        BY <2>1
      <4>2. PICK st : runs'[r] = runs[r] \/ runs'[r] = [runs[r] EXCEPT !.status = st, !.cancel = TRUE]
        BY <2>9 DEF Stop
      <4>. QED  BY <4>1, <4>2 DEF Document, NoRun
    <3>. QED  BY <3>1
  <2>10. \/ runs' = runs \/ Stop
         \/ \E c \in Coroutines : CreateDone(c) \/ ObserveDone(c) \/ BatchStops(c)
         \/ \E c \in Coroutines : UiDone(c) \/ Observed(c) \/ Answered(c)
         \/ \E c \in Coroutines, r \in Runs : CreateRun(c, r) \/ \E todo : Execute(c, r, todo)
         \/ \E r \in Runs : Cancel(r) \/ Recover(r) \/ \E k \in Captures : ImportCapture(r, k)
    BY <1>1 DEF Next, Batch, vars, CreateAbandoned, ObserveFails, ObserveStart, Input, Request,
                Back, Serve
  <2>. QED  BY <2>2, <2>3, <2>4, <2>5, <2>6, <2>7, <2>8, <2>9, <2>10
<1>2. IInv /\ [Next]_vars => [\A r \in Runs : runs[r].done \subseteq runs'[r].done]_vars
  BY <1>1
<1>. QED  BY <1>2, Invariance, PTL DEF Spec, EvidenceKept
=============================================================================
