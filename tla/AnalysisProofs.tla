--------------------------- MODULE AnalysisProofs ---------------------------
(***************************************************************************)
(* What holds of the parts of an analysis for every application, all       *)
(* limits and any number of troubles, assessments and providers: of the    *)
(* call graph of the smali code, the record of what was looked at, the     *)
(* broker, the registers inside a method, and the filters.  The parts      *)
(* share no state; each has an invariant of its own.                       *)
(***************************************************************************)
EXTENDS Analysis, EvidenceProofs

-----------------------------------------------------------------------------
(***************************************************************************)
(* The call graph: when the worklist is empty and nothing was left out, no *)
(* method has anything more to pass on.  The argument is the one that      *)
(* makes a worklist right: a method that is not on it is registered        *)
(* wherever it looks, so a fact it has not seen puts it back.              *)
(***************************************************************************)
\* A method that is not on the worklist has run, or is noted as skipped; after
\* a run it is registered wherever it looks, and has passed on all that is
\* known now, unless something was left out on the way.
Settled(m) ==
    \/ m \in skipped
    \/ /\ code[m].body = "code"
       /\ \A edge \in code[m].edges :
            Kind(edge.from) \in {"field", "return"} => <<edge.from, m>> \in waiting
       /\ limited \/ Flows(m, taints) \subseteq taints \cup found

\* The strengthening: FlowsClosed alone says nothing before the end.
IInv ==
    /\ WellFormed(code)
    /\ limited \in BOOLEAN
    /\ \A m \in Method : m \notin worklist => Settled(m)
    /\ status = "bounded" => worklist = {} /\ skipped = {} /\ limited = FALSE

\* What a method passes on, fact by fact.
LEMMA FlowsFact ==
    ASSUME NEW m, NEW STATE known, NEW STATE fact
    PROVE  fact \in Flows(m, known) <=>
             \E edge \in code[m].edges : \E trace \in Trace :
                Carries(edge, trace, known) /\ fact = <<edge.to, trace>>
  BY DEF Flows

\* A method that was not woken sees nothing new: every fact it looks at and
\* that is stored now, it knew before.
LEMMA NothingNew ==
    ASSUME WellFormed(code), NEW n \in Method, NEW STATE known, NEW STATE stored, NEW STATE registered,
           n \notin Woken(stored, registered),
           \A edge \in code[n].edges :
              Kind(edge.from) \in {"field", "return"} => <<edge.from, n>> \in registered
    PROVE  Flows(n, known \cup stored) \subseteq Flows(n, known)
<1> SUFFICES ASSUME NEW fact \in Flows(n, known \cup stored)
             PROVE  fact \in Flows(n, known)
  OBVIOUS
<1>0. PICK edge \in code[n].edges, trace \in Trace :
         Carries(edge, trace, known \cup stored) /\ fact = <<edge.to, trace>>
  BY FlowsFact
<1> SUFFICES Carries(edge, trace, known)
  BY <1>0, FlowsFact
<1>1. CASE Kind(edge.from) = "source"
  BY <1>0, <1>1 DEF Carries
<1>2. CASE Kind(edge.from) # "source"
  <2>1. <<edge.from, trace>> \in known \cup stored
    BY <1>0, <1>2 DEF Carries
  <2>2. <<edge.from, trace>> \notin stored
    <3>1. CASE Kind(edge.from) = "param" /\ edge.from[2] = n
      BY <3>1 DEF Woken
    <3>2. CASE Kind(edge.from) \in {"field", "return"}
      BY <3>2 DEF Woken
    <3> QED BY <1>2, <3>1, <3>2 DEF WellFormed
  <2> QED BY <1>2, <2>1, <2>2 DEF Carries
<1> QED BY <1>1, <1>2

LEMMA InitIInv == Init => IInv
  BY ProgramsAssumption DEF Init, IInv

LEMMA RunIInv ==
    ASSUME IInv, NEW m \in Method, Run(m)
    PROVE  IInv'
<1> DEFINE reported == Reported(m, taints) \ found
           new == Passed(m, taints) \ taints
           registered == waiting \cup {<<place, m>> : place \in Watched(m)}
<1>1. /\ waiting' = registered
      /\ UNCHANGED <<code, skipped, status>>
      /\ status = "running" /\ code[m].body = "code"
  BY DEF Run, Going
<1>2. PICK added, stored :
        /\ found' = found \cup added
        /\ taints' = taints \cup stored
        /\ worklist' = (worklist \ {m}) \cup Woken(stored, registered)
        /\ limited' = (limited \/ added # reported \/ stored # new)
  BY DEF Run
<1> HIDE DEF reported, new
<1>3. WellFormed(code)' /\ limited' \in BOOLEAN
  BY <1>1, <1>2 DEF IInv, WellFormed
<1>4. ASSUME NEW n \in Method, n \notin worklist'
      PROVE  Settled(n)'
  <2>1. CASE n # m
    <3>1. n \notin worklist /\ n \notin Woken(stored, registered)
      BY <1>2, <1>4, <2>1
    <3>2. CASE n \in skipped
      BY <1>1, <3>2 DEF Settled
    <3>3. CASE n \notin skipped
      <4>1. /\ code[n].body = "code"
            /\ \A edge \in code[n].edges :
                 Kind(edge.from) \in {"field", "return"} => <<edge.from, n>> \in waiting
            /\ limited \/ Flows(n, taints) \subseteq taints \cup found
        BY <3>1, <3>3 DEF IInv, Settled
      <4>2. Flows(n, taints \cup stored) \subseteq Flows(n, taints)
        BY <3>1, <4>1, NothingNew, Zenon DEF IInv
      <4>3. Flows(n, taints)' = Flows(n, taints \cup stored)
        BY <1>1, <1>2 DEF Flows, Carries
      <4>4. limited' \/ Flows(n, taints)' \subseteq (taints \cup found)'
        BY <1>2, <4>1, <4>2, <4>3
      <4> QED BY <1>1, <4>1, <4>4 DEF Settled
    <3> QED BY <3>2, <3>3
  <2>2. CASE n = m
    <3>1. m \notin Woken(stored, registered)
      BY <1>2, <1>4, <2>2
    <3>2. \A edge \in code[m].edges :
             Kind(edge.from) \in {"field", "return"} => <<edge.from, m>> \in registered
      BY DEF Watched
    <3>3. Flows(m, taints \cup stored) \subseteq Flows(m, taints)
      BY <3>1, <3>2, NothingNew, Zenon DEF IInv
    <3>4. Flows(m, taints) \subseteq reported \cup new \cup taints \cup found
      BY DEF reported, new, Reported, Passed
    <3>5. Flows(m, taints)' = Flows(m, taints \cup stored)
      BY <1>1, <1>2 DEF Flows, Carries
    <3>6. limited' \/ Flows(m, taints)' \subseteq (taints \cup found)'
      BY <1>2, <3>3, <3>4, <3>5
    <3> QED BY <1>1, <2>2, <3>2, <3>6 DEF Settled
  <2> QED BY <2>1, <2>2
<1>5. (status = "bounded" => worklist = {} /\ skipped = {} /\ limited = FALSE)'
  BY <1>1
<1> QED BY <1>3, <1>4, <1>5 DEF IInv

LEMMA SkipIInv ==
    ASSUME IInv, NEW m \in Method, Skip(m)
    PROVE  IInv'
<1>1. /\ worklist' = worklist \ {m} /\ skipped' = skipped \cup {m}
      /\ UNCHANGED <<code, taints, waiting, found, limited, status>> /\ status = "running"
  BY DEF Skip, Going
<1>2. ASSUME NEW n \in Method, n \notin worklist' PROVE Settled(n)'
  BY <1>1, <1>2 DEF IInv, Settled, Flows, Carries
<1> QED BY <1>1, <1>2 DEF IInv, WellFormed

LEMMA FinishIInv ==
    ASSUME IInv, Finish
    PROVE  IInv'
<1>1. UNCHANGED <<code, worklist, taints, waiting, found, limited, skipped>>
  BY DEF Finish
<1>2. (status = "bounded" => worklist = {} /\ skipped = {} /\ limited = FALSE)'
  BY <1>1 DEF Finish, IInv
<1>3. ASSUME NEW n \in Method, n \notin worklist' PROVE Settled(n)'
  BY <1>1, <1>3 DEF IInv, Settled, Flows, Carries
<1> QED BY <1>1, <1>2, <1>3 DEF IInv, WellFormed

LEMMA NextIInv == IInv /\ [sfNext]_sfVars => IInv'
<1> SUFFICES ASSUME IInv, [sfNext]_sfVars PROVE IInv'
  OBVIOUS
<1>1. CASE UNCHANGED sfVars
  <2>1. ASSUME NEW n \in Method, n \notin worklist' PROVE Settled(n)'
    BY <1>1, <2>1 DEF sfVars, IInv, Settled, Flows, Carries
  <2> QED BY <1>1, <2>1 DEF sfVars, IInv, WellFormed
<1>2. ASSUME NEW m \in Method, Run(m) PROVE IInv'
  BY <1>2, RunIInv
<1>3. ASSUME NEW m \in Method, Skip(m) PROVE IInv'
  BY <1>3, SkipIInv
<1>4. ASSUME NEW m \in Method, Raise(m) PROVE IInv'
  <2>1. /\ UNCHANGED <<code, worklist, taints, waiting, found, limited, skipped>>
        /\ status' = "raised"
    BY <1>4 DEF Raise
  <2>2. ASSUME NEW n \in Method, n \notin worklist' PROVE Settled(n)'
    BY <2>1, <2>2 DEF IInv, Settled, Flows, Carries
  <2> QED BY <2>1, <2>2 DEF IInv, WellFormed
<1>5. CASE Finish
  BY <1>5, FinishIInv
<1> QED BY <1>1, <1>2, <1>3, <1>4, <1>5 DEF sfNext

LEMMA IInvFlowsClosed == IInv => FlowsClosed
  BY DEF IInv, FlowsClosed, Settled

\* For every application, every set of methods and all limits: when the call
\* graph claims no more than its bounds, nothing is left to find within them.
THEOREM FlowsAreClosed == sfSpec => []FlowsClosed
  BY InitIInv, NextIInv, IInvFlowsClosed, PTL DEF sfSpec

\* Finite applications, as every one that was parsed is, and limits on what is
\* kept of them.
GraphGiven ==
    /\ IsFiniteSet(Trace)
    /\ \A program \in Programs : \A m \in Method : IsFiniteSet(program[m].edges)
    /\ MaxRuns \in Nat /\ MaxFacts \in Nat /\ MaxFlows \in Nat

\* What is kept is finite, so that it is counted against its limit.
HeldInv ==
    /\ sfTypeOK
    /\ code \in Programs
    /\ IsFiniteSet(taints) /\ IsFiniteSet(found)

LEMMA FlowsFinite ==
    ASSUME GraphGiven, code \in Programs, NEW m \in Method, NEW known
    PROVE  IsFiniteSet(Flows(m, known))
<1> DEFINE edges == code[m].edges
           ends == {edge.to : edge \in edges}
           f == [edge \in edges |-> edge.to]
<1>1. IsFiniteSet(edges) /\ IsFiniteSet(Trace)
  BY DEF GraphGiven
<1>2. f \in Surjection(edges, ends)
  BY DEF Surjection
<1> HIDE DEF ends, f
<1>3. IsFiniteSet(ends)
  BY <1>1, <1>2, FS_Surjection
<1>4. IsFiniteSet(ends \X Trace)
  BY <1>1, <1>3, FS_Product
<1>5. Flows(m, known) \subseteq ends \X Trace
  BY DEF Flows, ends
<1> QED BY <1>4, <1>5, FS_Subset

\* What is kept of something new fits into the room there is.
LEMMA StoredFits ==
    ASSUME NEW new, IsFiniteSet(new), NEW room \in Nat, NEW s \in Stored(new, room)
    PROVE  s \subseteq new /\ IsFiniteSet(s) /\ Cardinality(s) <= room
<1>1. s \subseteq new /\ Cardinality(s) <= room
  <2>1. Cardinality(new) \in Nat
    BY FS_CardinalityType
  <2>2. CASE Cardinality(new) <= room
    BY <2>2 DEF Stored
  <2>3. CASE ~(Cardinality(new) <= room)
    BY <2>3 DEF Stored
  <2> QED BY <2>2, <2>3
<1> QED BY <1>1, FS_Subset

LEMMA KeptWithin ==
    ASSUME NEW old, IsFiniteSet(old), NEW limit \in Nat, Cardinality(old) <= limit,
           NEW new, IsFiniteSet(new), NEW s \in Stored(new, limit - Cardinality(old))
    PROVE  s \subseteq new /\ IsFiniteSet(old \cup s) /\ Cardinality(old \cup s) <= limit
<1>1. Cardinality(old) \in Nat /\ limit - Cardinality(old) \in Nat
  BY FS_CardinalityType
<1>2. s \subseteq new /\ IsFiniteSet(s) /\ Cardinality(s) <= limit - Cardinality(old)
  BY <1>1, StoredFits
<1>3. Cardinality(s) \in Nat /\ IsFiniteSet(old \cap s)
  BY <1>2, FS_CardinalityType, FS_Intersection
<1>4. Cardinality(old \cap s) \in Nat
  BY <1>3, FS_CardinalityType
<1>5. IsFiniteSet(old \cup s)
  BY <1>2, FS_Union
<1>6. Cardinality(old \cup s) = Cardinality(old) + Cardinality(s) - Cardinality(old \cap s)
  BY <1>2, FS_Union
<1> QED BY <1>1, <1>2, <1>3, <1>4, <1>5, <1>6

LEMMA RunHeld ==
    ASSUME GraphGiven, HeldInv, NEW m \in Method, Run(m)
    PROVE  HeldInv'
<1> DEFINE reported == Reported(m, taints) \ found
           new == Passed(m, taints) \ taints
           registered == waiting \cup {<<place, m>> : place \in Watched(m)}
<1>1. /\ UNCHANGED <<code, skipped, status>>
      /\ waiting' = registered /\ runs' = runs + 1 /\ runs < MaxRuns
  BY DEF Run, Going
<1>2. PICK added \in Stored(reported, MaxFlows - Cardinality(found)),
           stored \in Stored(new, MaxFacts - Cardinality(taints)) :
        /\ found' = found \cup added
        /\ taints' = taints \cup stored
        /\ worklist' = (worklist \ {m}) \cup Woken(stored, registered)
        /\ limited' = (limited \/ added # reported \/ stored # new)
  BY DEF Run
<1>3. \A fact \in Flows(m, taints) : fact[2] \in Trace
  BY DEF Flows
<1>4. /\ \A fact \in reported : Kind(fact[1]) = "sink" /\ fact[2] \in Trace
      /\ \A fact \in new : Kind(fact[1]) # "sink" /\ fact[2] \in Trace
  BY <1>3 DEF Reported, Passed
<1>5. IsFiniteSet(reported) /\ IsFiniteSet(new)
  <2>1. IsFiniteSet(Flows(m, taints))
    BY FlowsFinite DEF HeldInv
  <2>2. reported \subseteq Flows(m, taints) /\ new \subseteq Flows(m, taints)
    BY DEF Reported, Passed
  <2> QED BY <2>1, <2>2, FS_Subset
<1>6. \A w \in waiting' : w[2] \in Method
  BY <1>1 DEF HeldInv, sfTypeOK
<1>7. worklist' \subseteq Method /\ limited' \in BOOLEAN
  BY <1>2 DEF HeldInv, sfTypeOK, Woken
<1> HIDE DEF reported, new, registered
<1>8. added \subseteq reported /\ IsFiniteSet(found') /\ Cardinality(found') <= MaxFlows
  BY <1>2, <1>5, KeptWithin DEF HeldInv, sfTypeOK, GraphGiven
<1>9. stored \subseteq new /\ IsFiniteSet(taints') /\ Cardinality(taints') <= MaxFacts
  BY <1>2, <1>5, KeptWithin DEF HeldInv, sfTypeOK, GraphGiven
<1>10. /\ \A fact \in found' : Kind(fact[1]) = "sink" /\ fact[2] \in Trace
       /\ \A fact \in taints' : Kind(fact[1]) # "sink" /\ fact[2] \in Trace
  BY <1>2, <1>4, <1>8, <1>9 DEF HeldInv, sfTypeOK
<1>11. runs' \in 0 .. MaxRuns
  BY <1>1 DEF HeldInv, sfTypeOK, GraphGiven
<1> QED BY <1>1, <1>6, <1>7, <1>8, <1>9, <1>10, <1>11 DEF HeldInv, sfTypeOK, WellFormed

LEMMA SkipHeld ==
    ASSUME GraphGiven, HeldInv, NEW m \in Method, Skip(m)
    PROVE  HeldInv'
<1>1. runs' \in 0 .. MaxRuns
  BY DEF Skip, Going, HeldInv, sfTypeOK, GraphGiven
<1>2. UNCHANGED <<code, taints, waiting, found, limited, status>>
      /\ worklist' \subseteq Method /\ skipped' \subseteq Method
  BY DEF Skip, HeldInv, sfTypeOK
<1> QED BY <1>1, <1>2 DEF HeldInv, sfTypeOK, WellFormed

LEMMA HeldStarts == GraphGiven /\ Init => HeldInv
<1>1. IsFiniteSet({}) /\ Cardinality({}) = 0
  BY FS_EmptySet
<1> SUFFICES ASSUME GraphGiven, Init PROVE HeldInv
  OBVIOUS
<1>2. /\ code \in Programs /\ worklist = Method /\ taints = {} /\ waiting = {}
      /\ found = {} /\ runs = 0 /\ limited = FALSE /\ skipped = {}
      /\ status = "running"
  BY DEF Init
<1>3. WellFormed(code)
  BY <1>2, ProgramsAssumption
<1>4. runs \in 0 .. MaxRuns /\ 0 <= MaxFacts /\ 0 <= MaxFlows
  BY <1>2 DEF GraphGiven
<1>5. Cardinality(taints) <= MaxFacts /\ Cardinality(found) <= MaxFlows
  BY <1>1, <1>2, <1>4
<1>6. sfTypeOK
  BY <1>2, <1>3, <1>4, <1>5 DEF sfTypeOK
<1> QED BY <1>1, <1>2, <1>6 DEF HeldInv

LEMMA HeldStep == GraphGiven /\ HeldInv /\ [sfNext]_sfVars => HeldInv'
<1> SUFFICES ASSUME GraphGiven, HeldInv, [sfNext]_sfVars PROVE HeldInv'
  OBVIOUS
<1>1. CASE UNCHANGED sfVars
  BY <1>1 DEF sfVars, HeldInv, sfTypeOK, WellFormed
<1>2. ASSUME NEW m \in Method, Raise(m)
      PROVE  HeldInv'
  BY <1>2 DEF Raise, HeldInv, sfTypeOK, WellFormed
<1>3. CASE Finish
  BY <1>3 DEF Finish, HeldInv, sfTypeOK, WellFormed
<1> QED BY <1>1, <1>2, <1>3, RunHeld, SkipHeld DEF sfNext

\* However an application is made, and in whatever order its methods run, the
\* call graph holds no more facts and flows than its limits, each of the right
\* kind, and ends within its runs (analyze_interprocedural_flows).
THEOREM HeldWithinLimits ==
    ASSUME GraphGiven
    PROVE  sfSpec => []sfTypeOK
<1>1. Init => HeldInv
  BY HeldStarts
<1>2. HeldInv /\ [sfNext]_sfVars => HeldInv'
  BY HeldStep
<1>3. HeldInv => sfTypeOK
  BY DEF HeldInv
<1> QED BY <1>1, <1>2, <1>3, PTL DEF sfSpec

-----------------------------------------------------------------------------
(***************************************************************************)
(* The record of a scan.  An analyzer records its good status exactly when *)
(* none of its clauses applies, so what it met then is among what it never *)
(* reports; the invariant carries this, and who raised, through the phases.*)
(***************************************************************************)
Troubled == {"partial", "not_analyzed", "incomplete"}
Good == {"completed", "analyzed_heuristically"}

\* Which of three clauses decides.
LEMMA LeastOf ==
    ASSUME NEW hit, hit \subseteq 1 .. 3, hit # {}
    PROVE  \E i \in hit : \A j \in hit : i <= j
<1>1. CASE 1 \in hit
  BY <1>1
<1>2. CASE 1 \notin hit /\ 2 \in hit
  BY <1>2
<1>3. CASE 1 \notin hit /\ 2 \notin hit
  <2>1. \A j \in hit : j = 3
    BY <1>3
  <2>2. PICK i \in hit : TRUE
    OBVIOUS
  <2> QED BY <2>1, <2>2
<1> QED BY <1>1, <1>2, <1>3

\* An analyzer records its good status when no clause applies, and else what a
\* clause that applies says.
LEMMA StatusIs ==
    ASSUME NEW a, NEW troubles, DOMAIN a.clauses \subseteq 1 .. 3
    PROVE  \/ /\ Status(a, troubles) = a.good
              /\ \A i \in DOMAIN a.clauses : a.clauses[i][1] \cap troubles = {}
           \/ \E i \in DOMAIN a.clauses :
                /\ a.clauses[i][1] \cap troubles # {}
                /\ Status(a, troubles) = a.clauses[i][2]
<1> DEFINE hit == {i \in DOMAIN a.clauses : a.clauses[i][1] \cap troubles # {}}
           first == CHOOSE i \in hit : \A j \in hit : i <= j
<1>1. Status(a, troubles) = IF hit = {} THEN a.good ELSE a.clauses[first][2]
  BY DEF Status
<1>2. hit # {} => first \in hit
  <2>1. hit \subseteq 1 .. 3
    OBVIOUS
  <2> HIDE DEF hit
  <2> QED BY <2>1, LeastOf
<1>3. CASE hit = {}
  BY <1>1, <1>3
<1>4. CASE hit # {}
  <2>1. first \in hit
    BY <1>2, <1>4
  <2> HIDE DEF first
  <2> QED BY <1>1, <1>4, <2>1
<1> QED BY <1>3, <1>4

LEMMA SourceInventoryIs ==
    ASSUME NEW stated, NEW lost, NEW a, a = SourceInventory(stated, lost), NEW troubles
    PROVE  /\ MayMeet(a) = Walk \cup stated \cup {"empty"} \cup lost
           /\ \/ /\ Status(a, troubles) = "analyzed_heuristically"
                 /\ troubles \cap (Walk \cup stated \cup {"empty"}) = {}
              \/ Status(a, troubles) \in Troubled
<1>1. /\ a.clauses = << <<Walk \cup stated, "partial">>, <<{"empty"}, "not_analyzed">> >>
      /\ a.good = "analyzed_heuristically" /\ a.lost = lost
  BY DEF SourceInventory, Analyzer
<1>2. /\ DOMAIN a.clauses = 1 .. 2
      /\ a.clauses[1] = <<Walk \cup stated, "partial">> /\ a.clauses[2] = <<{"empty"}, "not_analyzed">>
  BY <1>1
<1>3. MayMeet(a) = Walk \cup stated \cup {"empty"} \cup lost
  BY <1>1, <1>2 DEF MayMeet
<1>4. DOMAIN a.clauses \subseteq 1 .. 3
  BY <1>2
<1>5. \/ /\ Status(a, troubles) = a.good
         /\ \A i \in DOMAIN a.clauses : a.clauses[i][1] \cap troubles = {}
      \/ \E i \in DOMAIN a.clauses :
           /\ a.clauses[i][1] \cap troubles # {}
           /\ Status(a, troubles) = a.clauses[i][2]
  BY <1>4, StatusIs
<1>6. CASE /\ Status(a, troubles) = a.good
           /\ \A i \in DOMAIN a.clauses : a.clauses[i][1] \cap troubles = {}
  <2>1. a.clauses[1][1] \cap troubles = {} /\ a.clauses[2][1] \cap troubles = {}
    BY <1>2, <1>6
  <2>2. (Walk \cup stated) \cap troubles = {} /\ {"empty"} \cap troubles = {}
    BY <1>2, <2>1
  <2> QED BY <1>1, <1>3, <1>6, <2>2
<1>7. CASE \E i \in DOMAIN a.clauses : Status(a, troubles) = a.clauses[i][2]
  BY <1>2, <1>3, <1>7 DEF Troubled
<1> QED BY <1>5, <1>6, <1>7

LEMMA RecordIs ==
    ASSUME NEW stated, NEW lost, NEW a, a = Record(stated, lost), NEW troubles
    PROVE  /\ MayMeet(a) = stated \cup lost
           /\ \/ /\ Status(a, troubles) = "completed"
                 /\ troubles \cap stated = {}
              \/ Status(a, troubles) \in Troubled
<1>1. /\ a.clauses = << <<stated, "incomplete">> >>
      /\ a.good = "completed" /\ a.lost = lost
  BY DEF Record, Analyzer
<1>2. DOMAIN a.clauses = 1 .. 1 /\ a.clauses[1] = <<stated, "incomplete">>
  BY <1>1
<1>3. MayMeet(a) = stated \cup lost
  BY <1>1, <1>2 DEF MayMeet
<1>4. DOMAIN a.clauses \subseteq 1 .. 3
  BY <1>2
<1>5. \/ /\ Status(a, troubles) = a.good
         /\ \A i \in DOMAIN a.clauses : a.clauses[i][1] \cap troubles = {}
      \/ \E i \in DOMAIN a.clauses :
           /\ a.clauses[i][1] \cap troubles # {}
           /\ Status(a, troubles) = a.clauses[i][2]
  BY <1>4, StatusIs
<1>6. CASE /\ Status(a, troubles) = a.good
           /\ \A i \in DOMAIN a.clauses : a.clauses[i][1] \cap troubles = {}
  BY <1>1, <1>2, <1>3, <1>6
<1>7. CASE \E i \in DOMAIN a.clauses : Status(a, troubles) = a.clauses[i][2]
  BY <1>2, <1>3, <1>7 DEF Troubled
<1> QED BY <1>5, <1>6, <1>7


\* The analyzers that speak for a review surface.
Judged == {"manifest", "android_surface", "taint", "provider_path_inventory",
           "backup_rules_inventory", "auth_session", "api_mapping", "crypto_metadata",
           "nsc", "native"}

LEMMA JudgedAre ==
    ASSUME NEW surface \in Surfaces
    PROVE  surface_analyzers[surface] \subseteq Judged /\ surface_analyzers[surface] # {}
  BY DEF Surfaces, surface_analyzers, Judged

LEMMA AllAre ==
    ASSUME NEW deep \in BOOLEAN
    PROVE  /\ DOMAIN Reviewers(deep) = Tasks \cup {"provider_path_inventory", "backup_rules_inventory"}
           /\ Judged \ {"provider_path_inventory", "backup_rules_inventory"} \subseteq Tasks
           /\ {"provider_path_inventory", "backup_rules_inventory", "smali_call_graph"} \cap Tasks = {}
           /\ Reviewers(deep)["provider_path_inventory"] = provider_path_inventory
           /\ Reviewers(deep)["backup_rules_inventory"] = backup_rules_inventory
<1>1. DOMAIN Reviewers(deep) = DOMAIN Reviewers(TRUE)
  BY DEF Reviewers
<1>2. {"provider_path_inventory", "backup_rules_inventory"} \subseteq DOMAIN Reviewers(TRUE)
  BY DEF Reviewers
<1>3. /\ Judged \ {"provider_path_inventory", "backup_rules_inventory"} \subseteq Tasks
      /\ {"provider_path_inventory", "backup_rules_inventory", "smali_call_graph"} \cap Tasks = {}
  BY DEF Tasks, Reviewers, Inventories, Judged
<1>4. /\ Reviewers(deep)["provider_path_inventory"] = provider_path_inventory
      /\ Reviewers(deep)["backup_rules_inventory"] = backup_rules_inventory
  BY DEF Reviewers
<1>5. DOMAIN Reviewers(deep) = Tasks \cup {"provider_path_inventory", "backup_rules_inventory"}
  BY <1>1, <1>2 DEF Tasks, Inventories
<1> QED BY <1>3, <1>4, <1>5

LEMMA GatheredAre ==
    ASSUME NEW deep \in BOOLEAN
    PROVE  /\ Reviewers(deep)["manifest"] = manifest
           /\ Reviewers(deep)["android_surface"] = android_surface
           /\ Reviewers(deep)["taint"] \in {taint, taint_off}
           /\ Reviewers(deep)["auth_session"] = auth_session
           /\ Reviewers(deep)["api_mapping"] = api_mapping
           /\ Reviewers(deep)["crypto_metadata"] = crypto_metadata
           /\ Reviewers(deep)["nsc"] = nsc
           /\ Reviewers(deep)["native"] = native
  BY DEF Reviewers


\* What an analyzer behind the ledger records after these troubles: it says that
\* it looked only when all it met is on the list of what it loses today.
LEMMA JudgedHonest ==
    ASSUME NEW deep \in BOOLEAN, NEW n \in Judged, NEW troubles,
           troubles \subseteq MayMeet(Reviewers(deep)[n])
    PROVE  /\ Status(Reviewers(deep)[n], troubles) # "missing"
           /\ Status(Reviewers(deep)[n], troubles) \in Good =>
                \A t \in troubles : <<n, t>> \in Unreported
<1> DEFINE a == Reviewers(deep)[n]
           Fine == /\ Status(a, troubles) # "missing"
                   /\ Status(a, troubles) \in Good => \A t \in troubles : <<n, t>> \in Unreported
<1> SUFFICES Fine
  OBVIOUS
<1>1. troubles \subseteq MayMeet(a)
  OBVIOUS
<1>a. a = Reviewers(deep)[n]
  OBVIOUS
<1> HIDE DEF a
<1>2. ASSUME NEW stated, NEW lost, a = SourceInventory(stated, lost),
             \A t \in lost \ (stated \cup Walk \cup {"empty"}) : <<n, t>> \in Unreported
      PROVE  Fine
  <2>1. /\ MayMeet(a) = Walk \cup stated \cup {"empty"} \cup lost
        /\ \/ /\ Status(a, troubles) = "analyzed_heuristically"
              /\ troubles \cap (Walk \cup stated \cup {"empty"}) = {}
           \/ Status(a, troubles) \in Troubled
    BY <1>2, SourceInventoryIs
  <2> QED BY <1>1, <1>2, <2>1 DEF Good, Troubled
<1>3. ASSUME NEW stated, NEW lost, a = Record(stated, lost),
             \A t \in lost : <<n, t>> \in Unreported
      PROVE  Fine
  <2>1. /\ MayMeet(a) = stated \cup lost
        /\ \/ Status(a, troubles) = "completed" /\ troubles \cap stated = {}
           \/ Status(a, troubles) \in Troubled
    BY <1>3, RecordIs
  <2> QED BY <1>1, <1>3, <2>1 DEF Good, Troubled
<1>4. CASE n = "manifest"
  BY <1>3, <1>4, <1>a, GatheredAre DEF manifest
<1>5. CASE n = "android_surface"
  BY <1>2, <1>5, <1>a, GatheredAre DEF android_surface, Unreported
<1>6. CASE n = "taint"
  <2>1. a = taint \/ a = taint_off
    BY <1>6, <1>a, GatheredAre
  <2>2. CASE a = taint
    BY <1>2, <1>6, <2>2 DEF taint, Unreported
  <2>3. CASE a = taint_off
    <3>1. a.good = "skipped_disabled" /\ DOMAIN a.clauses = {}
      BY <2>3 DEF taint_off, Analyzer
    <3>2. Status(a, troubles) = "skipped_disabled"
      BY <3>1, StatusIs
    <3> QED BY <3>2 DEF Good
  <2> QED BY <2>1, <2>2, <2>3
<1>7. CASE n = "provider_path_inventory"
  BY <1>3, <1>7, <1>a, AllAre DEF provider_path_inventory, Unreported
<1>8. CASE n = "backup_rules_inventory"
  BY <1>3, <1>8, <1>a, AllAre DEF backup_rules_inventory
<1>9. CASE n = "auth_session"
  BY <1>2, <1>9, <1>a, GatheredAre DEF auth_session
<1>10. CASE n = "api_mapping"
  BY <1>2, <1>10, <1>a, GatheredAre DEF api_mapping
<1>11. CASE n = "crypto_metadata"
  BY <1>2, <1>11, <1>a, GatheredAre DEF crypto_metadata
<1>12. CASE n = "nsc"
  BY <1>2, <1>12, <1>a, GatheredAre DEF nsc, Unreported
<1>13. CASE n = "native"
  BY <1>2, <1>13, <1>a, GatheredAre DEF native, Unreported
<1> QED BY <1>4, <1>5, <1>6, <1>7, <1>8, <1>9, <1>10, <1>11, <1>12, <1>13 DEF Judged


\* Every analyzer records one of the known statuses.
Speaks(a) ==
    /\ a.good \in Statuses
    /\ DOMAIN a.clauses \subseteq 1 .. 3
    /\ \A i \in DOMAIN a.clauses : a.clauses[i][2] \in Statuses

LEMMA Spoken ==
    ASSUME NEW stated, NEW lost
    PROVE  /\ Speaks(SourceInventory(stated, lost)) /\ Speaks(Probe(stated, lost))
           /\ Speaks(Record(stated, lost))
<1>1. ASSUME NEW a, NEW b, NEW c, NEW d, NEW good \in Statuses, b \in Statuses, d \in Statuses
      PROVE  Speaks(Analyzer(<< <<a, b>>, <<c, d>> >>, good, lost))
  BY <1>1 DEF Speaks, Analyzer
<1>2. ASSUME NEW a, NEW b \in Statuses, NEW good \in Statuses
      PROVE  Speaks(Analyzer(<< <<a, b>> >>, good, lost))
  BY <1>2 DEF Speaks, Analyzer
<1>3. {"analyzed_heuristically", "completed", "partial", "not_analyzed", "not_applicable",
       "incomplete"} \subseteq Statuses
  BY DEF Statuses
<1>4. Speaks(SourceInventory(stated, lost))
  BY <1>1, <1>3 DEF SourceInventory
<1>5. Speaks(Probe(stated, lost))
  BY <1>1, <1>3 DEF Probe
<1>6. Speaks(Record(stated, lost))
  BY <1>2, <1>3 DEF Record
<1> QED BY <1>4, <1>5, <1>6

LEMMA AllSpeak ==
    ASSUME NEW deep \in BOOLEAN, NEW n \in Tasks \cup Inventories
    PROVE  Speaks(Reviewers(deep)[n])
<1>1. /\ Speaks(auth_session) /\ Speaks(firebase) /\ Speaks(android_surface)
      /\ Speaks(secrets) /\ Speaks(code_review) /\ Speaks(api_mapping) /\ Speaks(native)
      /\ Speaks(dependencies) /\ Speaks(taint) /\ Speaks(nsc) /\ Speaks(react_native)
      /\ Speaks(pending_intent) /\ Speaks(intent_redirection) /\ Speaks(fileprovider)
      /\ Speaks(crypto_metadata)
  BY Spoken DEF auth_session, firebase, android_surface, secrets, code_review, api_mapping, native,
     dependencies, taint, nsc, react_native, pending_intent, intent_redirection, fileprovider,
     crypto_metadata
<1>2. /\ Speaks(native_jni) /\ Speaks(hermes) /\ Speaks(flutter) /\ Speaks(il2cpp)
      /\ Speaks(manifest) /\ Speaks(signature)
      /\ Speaks(provider_path_inventory) /\ Speaks(backup_rules_inventory)
  BY Spoken DEF native_jni, hermes, flutter, il2cpp, manifest, signature, provider_path_inventory,
     backup_rules_inventory
<1>3. Speaks(taint_off) /\ Speaks(binary_protection) /\ Speaks(data_safety)
  <2>1. Speaks(taint_off)
    BY DEF taint_off, Analyzer, Speaks, Statuses
  <2>2. Speaks(data_safety)
    BY DEF data_safety, Analyzer, Speaks, Statuses
  <2>3. Speaks(binary_protection)
    BY DEF binary_protection, Analyzer, Speaks, Statuses
  <2> QED BY <2>1, <2>2, <2>3
<1>4. CASE n \in Tasks
  <2>1. /\ Reviewers(deep)["auth_session"] = auth_session /\ Reviewers(deep)["firebase"] = firebase
        /\ Reviewers(deep)["android_surface"] = android_surface /\ Reviewers(deep)["manifest"] = manifest
        /\ Reviewers(deep)["secrets"] = secrets /\ Reviewers(deep)["code_review"] = code_review
        /\ Reviewers(deep)["api_mapping"] = api_mapping /\ Reviewers(deep)["native"] = native
        /\ Reviewers(deep)["dependencies"] = dependencies
        /\ Reviewers(deep)["taint"] \in {taint, taint_off}
        /\ Reviewers(deep)["nsc"] = nsc /\ Reviewers(deep)["binary_protection"] = binary_protection
        /\ Reviewers(deep)["react_native"] = react_native
        /\ Reviewers(deep)["pending_intent"] = pending_intent
        /\ Reviewers(deep)["intent_redirection"] = intent_redirection
        /\ Reviewers(deep)["native_jni"] = native_jni /\ Reviewers(deep)["hermes"] = hermes
        /\ Reviewers(deep)["il2cpp"] = il2cpp /\ Reviewers(deep)["flutter"] = flutter
        /\ Reviewers(deep)["fileprovider"] = fileprovider
        /\ Reviewers(deep)["crypto_metadata"] = crypto_metadata
        /\ Reviewers(deep)["data_safety"] = data_safety /\ Reviewers(deep)["signature"] = signature
    BY DEF Reviewers
  <2>3. Tasks = {"auth_session", "firebase", "android_surface", "manifest", "secrets", "code_review",
                 "api_mapping", "native", "dependencies", "taint", "nsc", "binary_protection",
                 "react_native", "pending_intent", "intent_redirection", "native_jni", "hermes",
                 "il2cpp", "flutter", "fileprovider", "crypto_metadata", "data_safety", "signature"}
    BY DEF Tasks, Reviewers, Inventories
  <2>4. Speaks(Reviewers(deep)[n])
    BY <1>1, <1>2, <1>3, <1>4, <2>1, <2>3
  <2> QED BY <2>4
<1>5. CASE n \in Inventories
  BY <1>2, <1>5, AllAre DEF Inventories
<1> QED BY <1>4, <1>5

LEMMA StatusKnown ==
    ASSUME NEW a, Speaks(a), NEW troubles
    PROVE  Status(a, troubles) \in Statuses
  BY StatusIs DEF Speaks


\* Once the analyzers have run.
After == {"analysis", "filtering", "generation", "saved", "partial", "complete"}

\* A scan that has not run its analyzers has met nothing; after that, an analyzer
\* behind the ledger that says it looked met only what it never reports, and one
\* that left no record went with the manifest.
Looked ==
    /\ phase \in {"initialized", "ingestion"} =>
         met = {} /\ \A n \in Inventories : coverage[n] = "missing"
    /\ phase \in After => \A n \in Judged :
         /\ coverage[n] \in Good => \A t \in MetBy(n, met) : <<n, t>> \in Unreported
         /\ coverage[n] = "missing" => n \in Inventories /\ <<"manifest", "raise">> \in met

\* Whatever raised is an error of the state, unless it ends the scan; until then
\* engines and records agree where nothing raised.
Told ==
    /\ phase \in After => \A p \in met : p[2] = "raise" => p[1] \in errors \cup {"sarif", "sbom", "result"}
    /\ phase \in After /\ errors = {} => \A n \in Tasks : engines[n] = coverage[n]
    /\ phase \in After \ {"analysis"} => engines["smali_call_graph"] = coverage["smali_call_graph"]
    /\ phase \in {"initialized", "ingestion"} => engines["smali_call_graph"] = "none"
    /\ phase = "analysis" =>
         engines["smali_call_graph"] \in {"none", coverage["smali_call_graph"]}

\* What is on disk, and in the result, at each phase.
Kept ==
    /\ phase \in {"saved", "partial", "complete"} => {"reports", "guides"} \subseteq files
    /\ phase = "complete" => errors = {} /\ "state" \in files
    /\ "state" \in files => phase \in {"partial", "complete"}
    /\ phase \in {"initialized", "ingestion", "failed"} => files = {}
    /\ phase = "failed" => errors # {}
    /\ result # "none" => phase \in {"partial", "complete", "failed", "escaped"}
    /\ result \in {"complete", "partial", "failed"} => result = phase

CoverageInv ==
    /\ scTypeOK /\ IsFiniteSet(met) /\ \A p \in met : p = <<p[1], p[2]>>
    /\ Looked /\ Told /\ Kept


\* What is met on the way stays within the bound.
LEMMA UpToIs ==
    ASSUME NEW k, NEW S, NEW m \in UpTo(k, S)
    PROVE  m \subseteq S /\ IsFiniteSet(m) /\ Cardinality(m) <= k
<1>1. Cardinality(m) <= k /\ m \in {{}} \cup {{x} : x \in S} \cup {{x, y} : x, y \in S}
  BY DEF UpTo
<1>2. m \subseteq S
  BY <1>1
<1>3. IsFiniteSet(m)
  <2>1. CASE m = {}
    BY <2>1, FS_EmptySet
  <2>2. ASSUME NEW x, NEW y, m = {x, y}
        PROVE  IsFiniteSet(m)
    <3>1. IsFiniteSet({x})
      BY FS_Singleton
    <3>2. IsFiniteSet({x} \cup {y})
      BY <3>1, FS_AddElement
    <3>3. {x} \cup {y} = m
      BY <2>2
    <3> QED BY <3>2, <3>3
  <2>3. CASE \E x : m = {x}
    BY <2>3, FS_Singleton
  <2>4. \/ m = {} \/ (\E q : m = {q}) \/ (\E q, r : m = {q, r})
    BY <1>1
  <2> QED BY <2>1, <2>2, <2>3, <2>4
<1> QED BY <1>1, <1>2, <1>3

LEMMA MetWithin ==
    ASSUME IsFiniteSet(met), Cardinality(met) <= TroubleLimit,
           NEW m, IsFiniteSet(m), Cardinality(m) <= Left
    PROVE  IsFiniteSet(met \cup m) /\ Cardinality(met \cup m) <= TroubleLimit
<1>1. /\ IsFiniteSet(met \cup m)
      /\ Cardinality(met \cup m) = Cardinality(met) + Cardinality(m) - Cardinality(met \cap m)
  BY FS_Union
<1>2. IsFiniteSet(met \cap m)
  BY FS_Intersection
<1>3. Cardinality(met) \in Nat /\ Cardinality(m) \in Nat /\ Cardinality(met \cap m) \in Nat
  BY <1>2, FS_CardinalityType
<1>4. Cardinality(m) <= TroubleLimit - Cardinality(met)
  BY DEF Left
<1> HIDE DEF Left
<1> QED BY <1>1, <1>3, <1>4, LimitAssumption

LEMMA OneMore ==
    ASSUME IsFiniteSet(met), Cardinality(met) <= TroubleLimit, NEW p, Left > 0
    PROVE  IsFiniteSet(met \cup {p}) /\ Cardinality(met \cup {p}) <= TroubleLimit
<1>1. IsFiniteSet({p}) /\ Cardinality({p}) = 1
  BY FS_Singleton
<1>2. Cardinality(met) \in Nat
  BY FS_CardinalityType
<1>3. Cardinality({p}) <= Left
  BY <1>1, <1>2, LimitAssumption DEF Left
<1> QED BY <1>1, <1>3, MetWithin

\* The troubles of the others are not those of an analyzer.
LEMMA OthersMet ==
    ASSUME NEW n, NEW known, NEW m, \A p \in m : p[1] # n
    PROVE  MetBy(n, known \cup m) = MetBy(n, known)
  BY DEF MetBy

\* What an analyzer behind the ledger is known to have met does not change once
\* it has run.
LEMMA LookedLater ==
    ASSUME Looked, phase \notin {"initialized", "ingestion"}, phase' \notin {"initialized", "ingestion"},
           phase' \in After => phase \in After,
           \A n \in Judged : coverage'[n] = coverage[n],
           NEW m, met' = met \cup m, \A p \in m : p[1] \notin Judged
    PROVE  Looked'
<1>1. ASSUME NEW n \in Judged, phase \in After
      PROVE  /\ coverage'[n] \in Good => \A t \in MetBy(n, met') : <<n, t>> \in Unreported
             /\ coverage'[n] = "missing" => n \in Inventories /\ <<"manifest", "raise">> \in met'
  <2>1. MetBy(n, met') = MetBy(n, met)
    BY <1>1, OthersMet
  <2> QED BY <1>1, <2>1 DEF Looked
<1> QED BY <1>1 DEF Looked

LEMMA Elsewhere ==
    /\ Judged \cap {"smali_call_graph", "output", "ingestion", "filing", "filtering", "generation",
                    "reports", "guides", "sarif", "sbom", "state", "result"} = {}
    /\ Judged \subseteq Records /\ Tasks \subseteq Records /\ Tasks \subseteq Names
    /\ Inventories \subseteq Names \cap Records
    /\ "smali_call_graph" \in Records
    /\ Tasks \cap {"smali_call_graph", "output", "ingestion", "filing", "filtering", "generation",
                    "reports", "guides", "sarif", "sbom", "state", "result"} = {}
    /\ Inventories = {"provider_path_inventory", "backup_rules_inventory"}
<1>1. /\ Tasks \cap {"smali_call_graph", "output", "ingestion", "filing", "filtering", "generation",
                    "reports", "guides", "sarif", "sbom", "state", "result"} = {}
      /\ Judged \subseteq Tasks \cup {"provider_path_inventory", "backup_rules_inventory"}
  BY DEF Tasks, Reviewers, Inventories, Judged
<1>2. Inventories = {"provider_path_inventory", "backup_rules_inventory"}
  BY DEF Inventories
<1>3. DOMAIN Reviewers(TRUE) = Tasks \cup Inventories
  BY AllAre, <1>2
<1> QED BY <1>1, <1>2, <1>3 DEF Records, Names, Judged


LEMMA InitCoverageInv == scInit => CoverageInv
<1> SUFFICES ASSUME scInit PROVE CoverageInv
  OBVIOUS
<1>1. /\ phase = "initialized" /\ met = {} /\ errors = {} /\ files = {} /\ result = "none"
      /\ engines = [n \in Tasks \cup {"smali_call_graph"} |-> "none"]
  BY DEF scInit
<1>2. /\ coverage \in [Records -> Statuses]
      /\ \A n \in Inventories : coverage[n] = "missing"
  BY Elsewhere DEF scInit, Statuses
<1>3. engines \in [Tasks \cup {"smali_call_graph"} -> Statuses]
  BY <1>1 DEF Statuses
<1>4. IsFiniteSet(met) /\ Cardinality(met) <= TroubleLimit
  BY <1>1, FS_EmptySet, LimitAssumption
<1>5. scTypeOK
  BY <1>1, <1>2, <1>3, <1>4 DEF scTypeOK
<1>6. Looked /\ Told /\ Kept
  BY <1>1, <1>2, Elsewhere DEF Looked, Told, Kept, After
<1> QED BY <1>1, <1>4, <1>5, <1>6 DEF CoverageInv

\* A scan whose exception nobody catches.
LEMMA EscapesCoverageInv ==
    ASSUME CoverageInv, NEW part \in Names, Escapes(part),
           phase \notin {"partial", "complete", "failed", "escaped"},
           UNCHANGED <<engines, coverage, errors, result>>,
           files' = files \/ files' = files \cup {"reports"}
    PROVE  CoverageInv'
<1>1. phase' = "escaped" /\ met' = met \cup {<<part, "raise">>} /\ Left > 0
  BY DEF Escapes
<1>2. IsFiniteSet(met') /\ Cardinality(met') <= TroubleLimit
  BY <1>1, OneMore DEF CoverageInv, scTypeOK
<1>3. \A p \in met' : p = <<p[1], p[2]>> /\ p[1] \in Names
  BY <1>1 DEF CoverageInv, scTypeOK
<1>4. result = "none" /\ "state" \notin files
  BY DEF CoverageInv, Kept, scTypeOK
<1>5. scTypeOK'
  BY <1>1, <1>2, <1>3 DEF CoverageInv, scTypeOK
<1>6. Looked' /\ Told' /\ Kept'
  BY <1>1, <1>4 DEF Looked, Told, Kept, After
<1> QED BY <1>2, <1>3, <1>5, <1>6 DEF CoverageInv

LEMMA IngestCoverageInv ==
    ASSUME CoverageInv, Ingest
    PROVE  CoverageInv'
<1>1. phase = "initialized" /\ met = {} /\ UNCHANGED <<engines, files, result>>
  BY DEF Ingest, CoverageInv, Looked
<1>2. files = {} /\ result = "none"
  BY <1>1 DEF CoverageInv, Kept, scTypeOK
<1>3. CASE Escapes("output") /\ UNCHANGED <<coverage, errors>>
  <2>1. "output" \in Names
    BY DEF Names
  <2> QED BY <1>1, <1>3, <2>1, EscapesCoverageInv
<1>4. CASE /\ phase' = "ingestion" /\ UNCHANGED <<met, errors>>
           /\ coverage' = [coverage EXCEPT !["android_surface"] = "not_analyzed"]
  <2>1. /\ coverage' \in [Records -> Statuses]
        /\ \A n \in Inventories : coverage'[n] = coverage[n]
    BY <1>4, Elsewhere DEF CoverageInv, scTypeOK, Statuses
  <2>2. scTypeOK' /\ IsFiniteSet(met') /\ \A p \in met' : p = <<p[1], p[2]>>
    BY <1>1, <1>4, <2>1 DEF CoverageInv, scTypeOK
  <2>3. Looked'
    BY <1>1, <1>4, <2>1 DEF CoverageInv, Looked, After
  <2>4. Told' /\ Kept'
    BY <1>1, <1>2, <1>4 DEF CoverageInv, Told, Kept, After
  <2> QED BY <2>2, <2>3, <2>4 DEF CoverageInv
<1>5. CASE /\ Left > 0 /\ met' = {<<"ingestion", "raise">>} /\ errors' = {"ingestion"}
           /\ phase' = "failed" /\ UNCHANGED coverage
  <2>1. met' = met \cup {<<"ingestion", "raise">>}
    BY <1>1, <1>5
  <2>2. IsFiniteSet(met') /\ Cardinality(met') <= TroubleLimit
    BY <1>5, <2>1, OneMore DEF CoverageInv, scTypeOK
  <2>3. (\A p \in met' : p = <<p[1], p[2]>> /\ p[1] \in Names) /\ errors' \subseteq Names
    BY <1>5 DEF Names
  <2>4. scTypeOK'
    BY <1>1, <1>5, <2>2, <2>3 DEF CoverageInv, scTypeOK
  <2>5. Looked' /\ Told' /\ Kept'
    BY <1>1, <1>2, <1>5 DEF Looked, Told, Kept, After
  <2> QED BY <2>2, <2>3, <2>4, <2>5 DEF CoverageInv
<1> QED BY <1>3, <1>4, <1>5 DEF Ingest

LEMMA FilingCoverageInv ==
    ASSUME CoverageInv, FilingFails
    PROVE  CoverageInv'
<1>1. "filing" \in Names
  BY DEF Names
<1> QED BY <1>1, EscapesCoverageInv DEF FilingFails

\* What the analyzers met and recorded, when they are done.
LEMMA AnalysisCoverageInv ==
    ASSUME CoverageInv, RunAnalysis
    PROVE  CoverageInv'
<1>1. phase = "ingestion" /\ phase' = "analysis" /\ UNCHANGED <<files, result>>
  BY DEF RunAnalysis
<1>2. /\ met = {} /\ files = {} /\ result = "none"
      /\ \A n \in Inventories : coverage[n] = "missing"
  BY <1>1 DEF CoverageInv, Looked, Kept, scTypeOK
<1>3. PICK deep \in BOOLEAN :
        LET all == Reviewers(deep)
            possible == (UNION {{<<n, t>> : t \in MayMeet(all[n])} : n \in DOMAIN all})
                          \cup {<<n, "raise">> : n \in Tasks \ (IF deep THEN {} ELSE {"taint"})}
        IN \E m \in UpTo(Left, possible) :
             LET raised == {n \in Tasks : <<n, "raise">> \in m}
                 lost == raised \cup (IF "manifest" \in raised THEN Inventories ELSE {})
                 became == [n \in DOMAIN all |->
                              IF n \in lost THEN RaisedRecord(n) ELSE Status(all[n], MetBy(n, m))]
             IN /\ met' = met \cup m
                /\ coverage' = [n \in Records |->
                                   IF n \in DOMAIN all THEN became[n] ELSE coverage[n]]
                /\ engines' = [n \in DOMAIN engines |->
                                  IF n \in raised THEN "incomplete"
                                  ELSE IF n \in Tasks THEN became[n] ELSE engines[n]]
                /\ errors' = errors \cup raised
  BY DEF RunAnalysis
<1> DEFINE all == Reviewers(deep)
           stated == UNION {{<<n, t>> : t \in MayMeet(all[n])} : n \in DOMAIN all}
           raises == {<<n, "raise">> : n \in Tasks \ (IF deep THEN {} ELSE {"taint"})}
           possible == stated \cup raises
<1>4. PICK m \in UpTo(Left, possible) :
             LET raised == {n \in Tasks : <<n, "raise">> \in m}
                 lost == raised \cup (IF "manifest" \in raised THEN Inventories ELSE {})
                 became == [n \in DOMAIN all |->
                              IF n \in lost THEN RaisedRecord(n) ELSE Status(all[n], MetBy(n, m))]
             IN /\ met' = met \cup m
                /\ coverage' = [n \in Records |->
                                   IF n \in DOMAIN all THEN became[n] ELSE coverage[n]]
                /\ engines' = [n \in DOMAIN engines |->
                                  IF n \in raised THEN "incomplete"
                                  ELSE IF n \in Tasks THEN became[n] ELSE engines[n]]
                /\ errors' = errors \cup raised
  BY <1>3
<1> DEFINE raised == {n \in Tasks : <<n, "raise">> \in m}
           lost == raised \cup (IF "manifest" \in raised THEN Inventories ELSE {})
           Became(n) == IF n \in lost THEN RaisedRecord(n) ELSE Status(all[n], MetBy(n, m))
<1>5. DOMAIN all = Tasks \cup Inventories
  BY AllAre DEF Inventories
<1>6. m \subseteq possible /\ IsFiniteSet(m) /\ Cardinality(m) <= Left
  BY <1>4, UpToIs
<1>7. met' = m /\ errors' = errors \cup raised
  BY <1>2, <1>4
<1>8. coverage' = [n \in Records |-> IF n \in DOMAIN all THEN Became(n) ELSE coverage[n]]
  BY <1>4
<1>9. engines' = [n \in DOMAIN engines |-> IF n \in raised THEN "incomplete"
                                            ELSE IF n \in Tasks THEN Became(n) ELSE engines[n]]
  BY <1>4, <1>5
\* What is met is met by an analyzer, or raised by a task.
<1>10. ASSUME NEW p \in m
       PROVE  /\ p = <<p[1], p[2]>>
              /\ \/ p[1] \in DOMAIN all /\ p[2] \in MayMeet(all[p[1]])
                 \/ p[1] \in Tasks /\ p[2] = "raise"
  <2>1. CASE \E n \in DOMAIN all : p \in {<<n, t>> : t \in MayMeet(all[n])}
    BY <2>1
  <2>2. CASE \E n \in Tasks : p = <<n, "raise">>
    BY <2>2
  <2>3. p \in possible
    BY <1>6
  <2>4. p \in stated \/ p \in raises
    <3> HIDE DEF stated, raises
    <3> QED BY <2>3
  <2>5. p \in raises => \E n \in Tasks : p = <<n, "raise">>
    OBVIOUS
  <2>6. p \in stated => \E n \in DOMAIN all : p \in {<<n, t>> : t \in MayMeet(all[n])}
    OBVIOUS
  <2> QED BY <2>1, <2>2, <2>4, <2>5, <2>6
<1> HIDE DEF all, possible, stated, raises
<1>11. ASSUME NEW n \in DOMAIN all, n \notin raised
       PROVE  MetBy(n, m) \subseteq MayMeet(all[n])
  <2> SUFFICES ASSUME NEW p \in m, p[1] = n PROVE p[2] \in MayMeet(all[n])
    BY DEF MetBy
  <2>1. /\ p = <<p[1], p[2]>>
        /\ (p[2] \in MayMeet(all[p[1]])) \/ (p[1] \in Tasks /\ p[2] = "raise")
    BY <1>10
  <2>2. p[2] = "raise" /\ n \in Tasks => n \in raised
    BY <2>1
  <2> QED BY <1>11, <2>1, <2>2
<1>12. "raise" \notin MayMeet(provider_path_inventory) \cup MayMeet(backup_rules_inventory)
  <2>1. ASSUME NEW known, NEW kind PROVE MayMeet(Record(known, kind)) = known \cup kind
    <3> DEFINE a == Record(known, kind)
    <3>1. a = Record(known, kind)
      OBVIOUS
    <3> HIDE DEF a
    <3>2. MayMeet(a) = known \cup kind
      BY <3>1, RecordIs
    <3> QED BY <3>1, <3>2
  <2> QED BY <2>1 DEF provider_path_inventory, backup_rules_inventory
<1>13. /\ all["provider_path_inventory"] = provider_path_inventory
       /\ all["backup_rules_inventory"] = backup_rules_inventory
  BY AllAre DEF all
<1>14. ASSUME NEW p \in m, p[2] = "raise" PROVE p[1] \in raised
  <2>1. p = <<p[1], p[2]>> /\ p[1] \in DOMAIN all
        /\ (p[2] \in MayMeet(all[p[1]]) \/ p[1] \in Tasks)
    BY <1>5, <1>10
  <2>2. p[1] \in Tasks
    BY <1>5, <1>12, <1>13, <1>14, <2>1, Elsewhere
  <2> QED BY <1>14, <2>1, <2>2
<1>15. ASSUME NEW n \in DOMAIN all
       PROVE  Became(n) \in Statuses
  <2>1. Status(all[n], MetBy(n, m)) \in Statuses
    BY <1>5, <1>15, AllSpeak, StatusKnown DEF all
  <2>2. RaisedRecord(n) \in Statuses
    BY <1>5, <1>15, Elsewhere DEF RaisedRecord, CoverageInv, scTypeOK, Statuses
  <2> QED BY <2>1, <2>2
<1>16. scTypeOK' /\ IsFiniteSet(met') /\ \A p \in met' : p = <<p[1], p[2]>>
  <2>1. coverage' \in [Records -> Statuses]
    BY <1>8, <1>15 DEF CoverageInv, scTypeOK
  <2>2. engines' \in [Tasks \cup {"smali_call_graph"} -> Statuses]
    <3>1. DOMAIN engines = Tasks \cup {"smali_call_graph"}
          /\ \A n \in DOMAIN engines : engines[n] \in Statuses
      BY DEF CoverageInv, scTypeOK
    <3>2. "incomplete" \in Statuses
      BY DEF Statuses
    <3>3. \A n \in Tasks : Became(n) \in Statuses
      BY <1>5, <1>15
    <3> HIDE DEF Became, raised
    <3> QED BY <1>9, <3>1, <3>2, <3>3
  <2>3. IsFiniteSet(met') /\ Cardinality(met') <= TroubleLimit
    <3>1. met' = met \cup m
      BY <1>2, <1>7
    <3> QED BY <1>6, <3>1, MetWithin DEF CoverageInv, scTypeOK
  <2>4. (\A p \in met' : p = <<p[1], p[2]>> /\ p[1] \in Names) /\ errors' \subseteq Names
    BY <1>5, <1>7, <1>10, Elsewhere DEF CoverageInv, scTypeOK
  <2> QED BY <1>1, <2>1, <2>2, <2>3, <2>4 DEF CoverageInv, scTypeOK
<1>17. Looked'
  <2>1. ASSUME NEW n \in Judged
        PROVE  /\ coverage'[n] \in Good => \A t \in MetBy(n, met') : <<n, t>> \in Unreported
               /\ coverage'[n] = "missing" => n \in Inventories /\ <<"manifest", "raise">> \in met'
    <3>1. n \in DOMAIN all /\ n # "signature"
      BY <1>5, Elsewhere, AllAre DEF Judged
    <3>2. coverage'[n] = Became(n)
      BY <1>8, <3>1, Elsewhere
    <3>3. CASE n \in lost
      <4>1. CASE n \in Inventories
        <5>1. coverage'[n] = "missing"
          BY <1>2, <3>2, <3>3, <4>1 DEF RaisedRecord
        <5>2. "manifest" \in raised
          BY <3>3, <4>1, Elsewhere, AllAre
        <5> QED BY <1>7, <4>1, <5>1, <5>2 DEF Good
      <4>2. CASE n \notin Inventories
        <5>1. coverage'[n] = "incomplete"
          BY <3>1, <3>2, <3>3, <4>2 DEF RaisedRecord
        <5> QED BY <5>1 DEF Good
      <4> QED BY <4>1, <4>2
    <3>4. CASE n \notin lost
      <4>1. coverage'[n] = Status(all[n], MetBy(n, m))
        BY <3>2, <3>4
      <4>2. MetBy(n, m) \subseteq MayMeet(all[n])
        BY <1>11, <3>1, <3>4
      <4> QED BY <1>7, <4>1, <4>2, JudgedHonest DEF all
    <3> QED BY <3>3, <3>4
  <2> QED BY <1>1, <2>1 DEF Looked
<1>18. Told'
  <2>1. \A p \in met' : p[2] = "raise" => p[1] \in errors'
    BY <1>7, <1>14
  <2>2. ASSUME errors' = {}, NEW n \in Tasks PROVE engines'[n] = coverage'[n]
    <3>1. raised = {} /\ n \in DOMAIN all /\ n \in Records /\ n \in DOMAIN engines
      BY <1>5, <1>7, <2>2, Elsewhere DEF CoverageInv, scTypeOK
    <3> HIDE DEF Became, raised
    <3> QED BY <1>8, <1>9, <3>1
  <2>3. engines'["smali_call_graph"] = "none"
    <3>1. /\ "smali_call_graph" \in DOMAIN engines /\ "smali_call_graph" \notin Tasks
          /\ engines["smali_call_graph"] = "none"
      BY <1>1, Elsewhere DEF CoverageInv, scTypeOK, Told
    <3> HIDE DEF Became
    <3> QED BY <1>9, <3>1
  <2> QED BY <1>1, <2>1, <2>2, <2>3 DEF Told
<1>19. Kept'
  BY <1>1, <1>2 DEF Kept
<1> QED BY <1>16, <1>17, <1>18, <1>19 DEF CoverageInv


LEMMA CallGraphCoverageInv ==
    ASSUME CoverageInv, RunCallGraph
    PROVE  CoverageInv'
<1> DEFINE cg == "smali_call_graph"
<1>1. phase = "analysis" /\ engines[cg] = "none" /\ UNCHANGED <<phase, files, result>>
  BY DEF RunCallGraph
<1> DEFINE some == {<<cg, t>> : t \in MayMeet(smali_call_graph) \cup {"raise"}}
<1>2. PICK m \in UpTo(Left, some) :
         LET raised == <<cg, "raise">> \in m
             recorded == IF raised THEN "incomplete" ELSE Status(smali_call_graph, MetBy(cg, m))
         IN /\ met' = met \cup m
            /\ engines' = [engines EXCEPT ![cg] = recorded]
            /\ coverage' = [coverage EXCEPT ![cg] = recorded]
            /\ errors' = IF raised THEN errors \cup {cg} ELSE errors
  BY DEF RunCallGraph
<1> DEFINE raised == <<cg, "raise">> \in m
           recorded == IF raised THEN "incomplete" ELSE Status(smali_call_graph, MetBy(cg, m))
<1>3. /\ met' = met \cup m
      /\ engines' = [engines EXCEPT ![cg] = recorded] /\ coverage' = [coverage EXCEPT ![cg] = recorded]
      /\ errors' = IF raised THEN errors \cup {cg} ELSE errors
  BY <1>2
<1>4. m \subseteq some /\ IsFiniteSet(m) /\ Cardinality(m) <= Left
  BY <1>2, UpToIs
<1>5. \A p \in m : p = <<p[1], p[2]>> /\ p[1] = cg
  BY <1>4
<1>6. recorded \in Statuses
  <2>1. Speaks(smali_call_graph)
    BY Spoken DEF smali_call_graph
  <2>2. Status(smali_call_graph, MetBy(cg, m)) \in Statuses
    BY <2>1, StatusKnown
  <2> QED BY <2>2 DEF Statuses
<1>7. (\E p \in m : p[2] = "raise") => raised
  BY <1>5
<1> HIDE DEF raised, recorded, some
<1>8. /\ engines' \in [Tasks \cup {cg} -> Statuses] /\ coverage' \in [Records -> Statuses]
      /\ engines'[cg] = recorded /\ coverage'[cg] = recorded
      /\ \A n \in Tasks : engines'[n] = engines[n] /\ coverage'[n] = coverage[n]
      /\ \A n \in Judged : coverage'[n] = coverage[n]
  BY <1>3, <1>6, Elsewhere DEF CoverageInv, scTypeOK
<1>9. IsFiniteSet(met') /\ Cardinality(met') <= TroubleLimit
  BY <1>3, <1>4, MetWithin DEF CoverageInv, scTypeOK
<1>10. (\A p \in met' : p = <<p[1], p[2]>> /\ p[1] \in Names) /\ errors' \subseteq Names
  BY <1>3, <1>5 DEF CoverageInv, scTypeOK, Names
<1>11. scTypeOK'
  BY <1>1, <1>8, <1>9, <1>10 DEF CoverageInv, scTypeOK
<1>12. Looked'
  <2>1. Looked /\ \A p \in m : p[1] \notin Judged
    BY <1>5, Elsewhere DEF CoverageInv
  <2> QED BY <1>1, <1>3, <1>8, <2>1, LookedLater
<1>13. Told'
  <2>1. \A p \in met' : p[2] = "raise" => p[1] \in errors' \cup {"sarif", "sbom", "result"}
    <3> SUFFICES ASSUME NEW p \in met', p[2] = "raise"
                 PROVE  p[1] \in errors' \cup {"sarif", "sbom", "result"}
      OBVIOUS
    <3>1. CASE p \in met
      BY <1>1, <1>3, <3>1 DEF CoverageInv, Told, After
    <3>2. CASE p \in m
      BY <1>3, <1>5, <1>7, <3>2
    <3> QED BY <1>3, <3>1, <3>2
  <2>2. errors' = {} => \A n \in Tasks : engines'[n] = coverage'[n]
    BY <1>1, <1>3, <1>8 DEF CoverageInv, Told, After
  <2> QED BY <1>1, <1>8, <2>1, <2>2 DEF Told, After
<1>14. Kept'
  <2>1. result = "none" /\ files \cap {"state"} = {}
    BY <1>1 DEF CoverageInv, Kept, scTypeOK
  <2> QED BY <1>1, <2>1 DEF Kept
<1> QED BY <1>9, <1>10, <1>11, <1>12, <1>13, <1>14 DEF CoverageInv

LEMMA FilteringCoverageInv ==
    ASSUME CoverageInv, RunFiltering
    PROVE  CoverageInv'
<1>1. phase = "analysis" /\ engines["smali_call_graph"] # "none"
      /\ UNCHANGED <<engines, coverage, errors, files, result>>
  BY DEF RunFiltering
<1>2. CASE Escapes("filtering")
  <2>1. "filtering" \in Names
    BY DEF Names
  <2> QED BY <1>1, <1>2, <2>1, EscapesCoverageInv
<1>3. CASE phase' = "filtering" /\ UNCHANGED met
  <2>1. scTypeOK' /\ IsFiniteSet(met') /\ \A p \in met' : p = <<p[1], p[2]>>
    BY <1>1, <1>3 DEF CoverageInv, scTypeOK
  <2>2. Looked'
    <3> DEFINE none == {}
    <3>1. met' = met \cup none /\ \A p \in none : p[1] \notin Judged
      BY <1>3
    <3> HIDE DEF none
    <3> QED BY <1>1, <1>3, <3>1, LookedLater DEF CoverageInv, After
  <2>3. Told'
    BY <1>1, <1>3 DEF CoverageInv, Told, After
  <2>4. Kept'
    BY <1>1, <1>3 DEF CoverageInv, Kept, scTypeOK
  <2> QED BY <2>1, <2>2, <2>3, <2>4 DEF CoverageInv
<1> QED BY <1>2, <1>3 DEF RunFiltering

LEMMA GenerationCoverageInv ==
    ASSUME CoverageInv, RunGeneration
    PROVE  CoverageInv'
<1>1. /\ phase = "filtering" /\ phase' = "generation"
      /\ UNCHANGED <<engines, coverage, files, result>>
  BY DEF RunGeneration
<1>2. PICK m :
        /\ met' = met \cup m /\ IsFiniteSet(met') /\ Cardinality(met') <= TroubleLimit
        /\ m \subseteq {<<"generation", "raise">>}
        /\ errors' = errors \cup {p[1] : p \in m}
  <2>1. CASE UNCHANGED <<met, errors>>
    <3>1. /\ met' = met \cup {} /\ errors' = errors \cup {p[1] : p \in {}}
          /\ {} \subseteq {<<"generation", "raise">>}
      BY <2>1
    <3>2. IsFiniteSet(met') /\ Cardinality(met') <= TroubleLimit
      BY <2>1 DEF CoverageInv, scTypeOK
    <3> QED BY <3>1, <3>2
  <2>2. CASE /\ Left > 0 /\ met' = met \cup {<<"generation", "raise">>}
             /\ errors' = errors \cup {"generation"}
    <3> DEFINE one == {<<"generation", "raise">>}
    <3>1. met' = met \cup one /\ one \subseteq {<<"generation", "raise">>}
          /\ errors' = errors \cup {p[1] : p \in one}
      BY <2>2
    <3>2. IsFiniteSet(met') /\ Cardinality(met') <= TroubleLimit
      BY <2>2, OneMore DEF CoverageInv, scTypeOK
    <3> QED BY <3>1, <3>2
  <2> QED BY <2>1, <2>2 DEF RunGeneration
<1>3. scTypeOK' /\ \A p \in met' : p = <<p[1], p[2]>>
  BY <1>1, <1>2 DEF CoverageInv, scTypeOK, Names
<1>4. Looked'
  <2>1. \A p \in m : p[1] \notin Judged
    BY <1>2, Elsewhere
  <2> QED BY <1>1, <1>2, <2>1, LookedLater DEF CoverageInv, After
<1>5. Told'
  <2>1. \A p \in met' : p[2] = "raise" => p[1] \in errors' \cup {"sarif", "sbom", "result"}
    BY <1>1, <1>2 DEF CoverageInv, Told, After
  <2>2. errors' = {} => errors = {}
    BY <1>2
  <2> QED BY <1>1, <2>1, <2>2 DEF CoverageInv, Told, After
<1>6. Kept'
  BY <1>1 DEF CoverageInv, Kept, scTypeOK
<1> QED BY <1>2, <1>3, <1>4, <1>5, <1>6 DEF CoverageInv

LEMMA OutputsCoverageInv ==
    ASSUME CoverageInv, SaveOutputs
    PROVE  CoverageInv'
<1>1. phase = "generation" /\ UNCHANGED <<engines, coverage, errors, result>>
  BY DEF SaveOutputs
<1>2. CASE (Escapes("reports") /\ UNCHANGED files) \/ (Escapes("guides") /\ files' = files \cup {"reports"})
  <2>1. {"reports", "guides"} \subseteq Names
    BY DEF Names
  <2> QED BY <1>1, <1>2, <2>1, EscapesCoverageInv
<1>3. CASE /\ phase' = "saved"
           /\ \E m \in UpTo(Left, {<<"sarif", "raise">>, <<"sbom", "raise">>}) :
                /\ met' = met \cup m
                /\ files' = files \cup ({"reports", "guides", "sarif", "sbom"} \ {p[1] : p \in m})
  <2>1. PICK m \in UpTo(Left, {<<"sarif", "raise">>, <<"sbom", "raise">>}) :
                /\ met' = met \cup m
                /\ files' = files \cup ({"reports", "guides", "sarif", "sbom"} \ {p[1] : p \in m})
    BY <1>3
  <2>2. /\ m \subseteq {<<"sarif", "raise">>, <<"sbom", "raise">>}
        /\ IsFiniteSet(m) /\ Cardinality(m) <= Left
    BY <2>1, UpToIs
  <2>3. IsFiniteSet(met') /\ Cardinality(met') <= TroubleLimit
    BY <2>1, <2>2, MetWithin DEF CoverageInv, scTypeOK
  <2>4. \A p \in m : p = <<p[1], p[2]>> /\ p[1] \in {"sarif", "sbom"}
    BY <2>2
  <2>5. /\ files' \subseteq {"reports", "guides", "sarif", "sbom", "state"}
        /\ {"reports", "guides"} \subseteq files' /\ ("state" \in files' => "state" \in files)
    BY <2>1, <2>4 DEF CoverageInv, scTypeOK
  <2>6. scTypeOK' /\ \A p \in met' : p = <<p[1], p[2]>>
    BY <1>1, <1>3, <2>1, <2>3, <2>4, <2>5 DEF CoverageInv, scTypeOK, Names
  <2>7. Looked'
    <3>1. \A p \in m : p[1] \notin Judged
      BY <2>4, Elsewhere
    <3> QED BY <1>1, <1>3, <2>1, <3>1, LookedLater DEF CoverageInv, After
  <2>8. Told'
    BY <1>1, <1>3, <2>1, <2>4 DEF CoverageInv, Told, After
  <2>9. Kept'
    BY <1>1, <1>3, <2>5 DEF CoverageInv, Kept, scTypeOK
  <2> QED BY <2>3, <2>6, <2>7, <2>8, <2>9 DEF CoverageInv
<1> QED BY <1>2, <1>3 DEF SaveOutputs

LEMMA FinishCoverageInv ==
    ASSUME CoverageInv, FinishScan
    PROVE  CoverageInv'
<1>1. phase = "saved" /\ UNCHANGED <<engines, coverage, errors, result>>
  BY DEF FinishScan
<1>2. CASE Escapes("state") /\ UNCHANGED files
  <2>1. "state" \in Names
    BY DEF Names
  <2> QED BY <1>1, <1>2, <2>1, EscapesCoverageInv
<1>3. CASE /\ phase' = IF errors # {} THEN "partial" ELSE "complete"
           /\ files' = files \cup {"state"} /\ UNCHANGED met
  <2>1. /\ phase' \in {"partial", "complete"} /\ (phase' = "complete" => errors = {})
    BY <1>3
  <2>2. scTypeOK' /\ IsFiniteSet(met') /\ \A p \in met' : p = <<p[1], p[2]>>
    BY <1>1, <1>3, <2>1 DEF CoverageInv, scTypeOK
  <2>3. Looked'
    <3> DEFINE none == {}
    <3>1. met' = met \cup none /\ \A p \in none : p[1] \notin Judged
      BY <1>3
    <3> HIDE DEF none
    <3> QED BY <1>1, <1>3, <2>1, <3>1, LookedLater DEF CoverageInv, After
  <2>4. Told'
    BY <1>1, <1>3, <2>1 DEF CoverageInv, Told, After
  <2>5. Kept'
    BY <1>1, <1>3, <2>1 DEF CoverageInv, Kept, scTypeOK
  <2> QED BY <2>2, <2>3, <2>4, <2>5 DEF CoverageInv
<1> QED BY <1>2, <1>3 DEF FinishScan

LEMMA DeliverCoverageInv ==
    ASSUME CoverageInv, Deliver
    PROVE  CoverageInv'
<1>1. /\ phase \in {"partial", "complete", "failed", "escaped"} /\ result = "none"
      /\ UNCHANGED <<phase, engines, coverage, errors, files>>
      /\ result' \in {"partial", "complete", "failed", "failure"}
      /\ result' = "failure" \/ result' = phase
  BY DEF Deliver
<1>2. PICK m :
        /\ met' = met \cup m /\ IsFiniteSet(met') /\ Cardinality(met') <= TroubleLimit
        /\ m \subseteq {<<"result", "raise">>}
  <2>1. CASE UNCHANGED met
    <3> DEFINE none == {}
    <3>1. met' = met \cup none /\ none \subseteq {<<"result", "raise">>}
      BY <2>1
    <3>2. IsFiniteSet(met') /\ Cardinality(met') <= TroubleLimit
      BY <2>1 DEF CoverageInv, scTypeOK
    <3> HIDE DEF none
    <3> QED BY <3>1, <3>2
  <2>2. CASE Left > 0 /\ met' = met \cup {<<"result", "raise">>}
    <3>1. IsFiniteSet(met') /\ Cardinality(met') <= TroubleLimit
      BY <2>2, OneMore DEF CoverageInv, scTypeOK
    <3> QED BY <2>2, <3>1
  <2> QED BY <2>1, <2>2 DEF Deliver
<1>3. scTypeOK' /\ \A p \in met' : p = <<p[1], p[2]>>
  BY <1>1, <1>2 DEF CoverageInv, scTypeOK, Names
<1>4. Looked'
  <2>1. \A p \in m : p[1] \notin Judged
    BY <1>2, Elsewhere
  <2> QED BY <1>1, <1>2, <2>1, LookedLater DEF CoverageInv, After
<1>5. Told'
  <2>1. \A p \in m : p[1] = "result"
    BY <1>2
  <2> QED BY <1>1, <1>2, <2>1 DEF CoverageInv, Told, After
<1>6. Kept'
  BY <1>1 DEF CoverageInv, Kept
<1> QED BY <1>2, <1>3, <1>4, <1>5, <1>6 DEF CoverageInv

LEMMA NextCoverageInv == CoverageInv /\ [scNext]_scVars => CoverageInv'
<1> SUFFICES ASSUME CoverageInv, [scNext]_scVars PROVE CoverageInv'
  OBVIOUS
<1>1. CASE UNCHANGED scVars
  BY <1>1 DEF scVars, CoverageInv, scTypeOK, Looked, Told, Kept, MetBy
<1> QED BY <1>1, IngestCoverageInv, AnalysisCoverageInv, FilingCoverageInv, CallGraphCoverageInv,
           FilteringCoverageInv, GenerationCoverageInv, OutputsCoverageInv, FinishCoverageInv,
           DeliverCoverageInv DEF scNext

LEMMA LedgerFollows == CoverageInv => LedgerHonest
<1> SUFFICES ASSUME CoverageInv, phase \in After, NEW surface \in Surfaces,
                    analysis_state(surface) = "analyzed"
             PROVE  \/ \A n \in surface_analyzers[surface] :
                         /\ coverage[n] # "missing"
                         /\ \A t \in MetBy(n, met) : <<n, t>> \in Unreported
                    \/ surface = "storage_backup_logging" /\ <<"manifest", "raise">> \in met
  BY DEF LedgerHonest, After
<1> DEFINE statuses == {coverage[n] : n \in surface_analyzers[surface]} \ {"missing"}
<1>1. statuses \subseteq Good /\ ~(statuses \subseteq {"not_started"})
  BY DEF analysis_state, Good
<1>2. \A n \in surface_analyzers[surface] : coverage[n] = "missing" \/ coverage[n] \in Good
  BY <1>1
<1>3. surface_analyzers[surface] \subseteq Judged
  BY JudgedAre
<1>4. CASE \A n \in surface_analyzers[surface] : coverage[n] # "missing"
  BY <1>2, <1>3, <1>4 DEF CoverageInv, Looked
<1>5. ASSUME NEW n \in surface_analyzers[surface], coverage[n] = "missing"
      PROVE  surface = "storage_backup_logging" /\ <<"manifest", "raise">> \in met
  <2>1. n \in Inventories /\ <<"manifest", "raise">> \in met
    BY <1>3, <1>5 DEF CoverageInv, Looked
  <2>2. n \in {"provider_path_inventory", "backup_rules_inventory"}
    BY <2>1, Elsewhere
  <2>3. surface_analyzers[surface] # {n}
    BY <1>1, <1>5
  <2> QED BY <2>1, <2>2, <2>3 DEF Surfaces, surface_analyzers
<1> QED BY <1>4, <1>5

LEMMA PhaseFollows == CoverageInv => PhaseTellsTruth
<1> SUFFICES ASSUME CoverageInv PROVE PhaseTellsTruth
  OBVIOUS
<1>1. ASSUME "complete" \in {phase, result}
      PROVE  /\ {p[1] : p \in {q \in met : q[2] = "raise"}} \subseteq {"sarif", "sbom", "result"}
             /\ {"reports", "guides", "state"} \subseteq files
             /\ \A n \in DOMAIN engines : engines[n] = coverage[n]
  <2>1. phase = "complete"
    BY <1>1 DEF CoverageInv, Kept
  <2>2. errors = {} /\ {"reports", "guides", "state"} \subseteq files
    BY <2>1 DEF CoverageInv, Kept
  <2> QED BY <2>1, <2>2 DEF CoverageInv, Told, After, scTypeOK
<1>2. /\ "state" \in files => {"reports", "guides"} \subseteq files
      /\ phase = "failed" => files = {} /\ errors # {}
      /\ result \in {"complete", "partial", "failed"} => result = phase
  BY DEF CoverageInv, Kept
<1> QED BY <1>1, <1>2 DEF PhaseTellsTruth

\* Whatever the analyzers meet, and however many troubles: a review surface that
\* the ledger calls analyzed was, but for the losses nobody reports
\* (reporting/coverage.py over Orchestrator._run_analysis).
THEOREM LedgerTold == scSpec => [](scTypeOK /\ LedgerHonest)
<1>1. CoverageInv => scTypeOK
  BY DEF CoverageInv
<1> QED BY <1>1, InitCoverageInv, NextCoverageInv, LedgerFollows, PTL DEF scSpec

\* Whatever raises, and where: a scan that says complete lost no analyzer and no
\* artifact it does not name, and a result claims no more than its scan
\* (Orchestrator.scan and isolated_worker.main).
THEOREM PhaseTold == scSpec => []PhaseTellsTruth
  BY InitCoverageInv, NextCoverageInv, PhaseFollows, PTL DEF scSpec

-----------------------------------------------------------------------------
(***************************************************************************)
(* The broker.  A review that waits for an answer has asked the first      *)
(* provider, or the second after the first was throttled, and its list of  *)
(* attempts is one behind; so whatever ends it completes the list.         *)
(***************************************************************************)
mbSpec == mbInit /\ [][mbNext]_mbVars

\* The record of an attempt.
Attempt(provider, outcome) == [provider |-> provider, outcome |-> outcome]

\* What a review promises when it has ended, for one review.
Accounted(v) ==
    /\ Len(v.sent) <= 2 /\ IsInjective(v.sent)
    /\ \A i \in 2 .. Len(v.sent) :
         v.sent[i] = v.secondary
         /\ (v.end \in {"advice", "error"} => v.attempts[i - 1].outcome = "rate_limited")
    /\ v.end \in {"advice", "error"} =>
         /\ Len(v.attempts) = Len(v.sent)
         /\ \A i \in 1 .. Len(v.sent) : v.attempts[i].provider = v.sent[i]
         /\ v.end = "advice" <=> Last(v.attempts).outcome = "completed"
    /\ v.end \in {"refused", "cancelled"} => v.attempts = <<>>
Sends(v) ==
    /\ v.at \in {"idle", "asking", "ended"}
    /\ v.end \in {None, "advice", "error", "refused", "cancelled"}
    /\ v.secondary \in Enabled \cup {None}
    /\ ToSet(v.sent) \subseteq Enabled
\* A review that waits has asked the first provider, or the second after the
\* first was throttled; the record of the attempts is one behind.
Waits(v) ==
    \E p \in Enabled :
       /\ v.end = None /\ v.secondary # p
       /\ \/ v.sent = <<p>> /\ v.attempts = <<>>
          \/ /\ v.secondary # None /\ v.sent = <<p, v.secondary>>
             /\ v.attempts = <<Attempt(p, "rate_limited")>>

BrokerInv ==
    /\ review = [r \in Reviewer |-> review[r]] /\ allowed \in [Reviewer -> BOOLEAN]
    /\ busy \in BOOLEAN
    /\ \A r \in Reviewer :
         /\ Sends(review[r]) /\ Accounted(review[r])
         /\ review[r].at = "asking" => Waits(review[r])
         /\ DOMAIN review[r] = DOMAIN NoReview
    /\ \A r, q \in Reviewer : review[r].at = "asking" /\ review[q].at = "asking" => r = q
    /\ busy <=> \E r \in Reviewer : review[r].at = "asking"

LEMMA Appended ==
    ASSUME NEW S, NEW s \in Seq(S), NEW b \in S, Len(s) = 1,
           NEW t \in Seq(S), Len(t) = 2, t[1] = s[1], t[2] = b
    PROVE  Append(s, b) = t
<1> DEFINE w == Append(s, b)
<1>1. w \in Seq(S)
  BY AppendProperties
<1>2. Len(w) = Len(s) + 1
  BY AppendProperties
<1>3. w[Len(s) + 1] = b
  BY AppendProperties
<1>4. \A i \in 1 .. Len(s) : w[i] = s[i]
  BY AppendProperties
<1> HIDE DEF w
<1>5. Len(w) = Len(t) /\ \A i \in 1 .. Len(w) : w[i] = t[i]
  BY <1>1, <1>2, <1>3, <1>4
<1> QED BY <1>1, <1>5, SeqEqual DEF w

\* Lists of one and of two.
LEMMA OfOne ==
    ASSUME NEW a, NEW s, s = <<a>>
    PROVE  /\ Len(s) = 1 /\ s[1] = a /\ Last(s) = a /\ IsInjective(s) /\ ToSet(s) = {a}
           /\ \A b : Append(s, b) = <<a, b>>
<1>1. Len(s) = 1 /\ s[1] = a /\ Last(s) = a /\ IsInjective(s)
  BY DEF Last, IsInjective
<1>2. ToSet(s) = {a}
  BY DEF ToSet
<1>3. ASSUME NEW b PROVE Append(s, b) = <<a, b>>
  <2> DEFINE S == {a, b}
             t == <<a, b>>
  <2>1. /\ s \in Seq(S) /\ b \in S /\ t \in Seq(S)
        /\ Len(s) = 1 /\ Len(t) = 2 /\ t[1] = s[1] /\ t[2] = b
    OBVIOUS
  <2> HIDE DEF S, t
  <2>2. Append(s, b) = t
    BY <2>1, Appended, Zenon
  <2> QED BY <2>2 DEF t
<1> QED BY <1>1, <1>2, <1>3

LEMMA OfTwo ==
    ASSUME NEW a, NEW b, NEW s, s = <<a, b>>
    PROVE  /\ Len(s) = 2 /\ s[1] = a /\ s[2] = b /\ Last(s) = b
           /\ a # b => IsInjective(s)
           /\ ToSet(s) = {a, b}
<1>1. Len(s) = 2 /\ s[1] = a /\ s[2] = b /\ Last(s) = b
  BY DEF Last
<1>2. a # b => IsInjective(s)
  BY DEF IsInjective
<1>3. ToSet(s) = {a, b}
  BY DEF ToSet
<1> QED BY <1>1, <1>2, <1>3

LEMMA InitBrokerInv == mbInit => BrokerInv
<1> SUFFICES ASSUME mbInit PROVE BrokerInv
  OBVIOUS
<1>1. \A r \in Reviewer : review[r] = NoReview
  BY DEF mbInit
<1>2. Sends(NoReview) /\ Accounted(NoReview) /\ NoReview.at # "asking"
  BY DEF Sends, Accounted, NoReview, None, ToSet, IsInjective
<1>3. busy = FALSE /\ allowed \in [Reviewer -> BOOLEAN] /\ review = [r \in Reviewer |-> review[r]]
  BY DEF mbInit
<1> QED BY <1>1, <1>2, <1>3 DEF BrokerInv

\* The record of the attempts is Append to what is there.
LEMMA AttemptedIs ==
    ASSUME NEW r, NEW outcome
    PROVE  Attempted(r, outcome) = Append(review[r].attempts, Attempt(Last(review[r].sent), outcome))
  BY DEF Attempted, Attempt

\* A review that ends with advice or an error, after one request or two.
Replied(v, w, outcome) ==
    /\ w.end \in {"advice", "error"} /\ (w.end = "advice" <=> outcome = "completed")
    /\ w.sent = v.sent /\ w.secondary = v.secondary
    /\ w.attempts = Append(v.attempts, Attempt(Last(v.sent), outcome))
LEMMA EndAccounted ==
    ASSUME NEW v, Waits(v), NEW w, NEW outcome, Replied(v, w, outcome)
    PROVE  Accounted(w)
<1>1. PICK p \in Enabled :
       /\ v.end = None /\ v.secondary # p
       /\ \/ v.sent = <<p>> /\ v.attempts = <<>>
          \/ /\ v.secondary # None /\ v.sent = <<p, v.secondary>>
             /\ v.attempts = <<Attempt(p, "rate_limited")>>
  BY DEF Waits
<1>0. /\ w.end \in {"advice", "error"} /\ (w.end = "advice" <=> outcome = "completed")
      /\ w.sent = v.sent /\ w.secondary = v.secondary
      /\ w.attempts = Append(v.attempts, Attempt(Last(v.sent), outcome))
  BY DEF Replied
<1>2. CASE v.sent = <<p>> /\ v.attempts = <<>>
  <2> DEFINE a == Attempt(p, outcome)
  <2>1. a.provider = p /\ a.outcome = outcome
    BY DEF Attempt
  <2> HIDE DEF a
  <2>2. Len(w.sent) = 1 /\ IsInjective(w.sent) /\ w.sent[1] = p /\ Last(v.sent) = p
    BY <1>0, <1>2, OfOne
  <2>3. w.attempts = <<a>>
    BY <1>0, <1>2, <2>2 DEF a
  <2>4. Len(w.attempts) = 1 /\ w.attempts[1] = a /\ Last(w.attempts) = a
    BY <2>3, OfOne
  <2> QED BY <1>0, <2>1, <2>2, <2>4 DEF Accounted
<1>3. CASE /\ v.secondary # None /\ v.sent = <<p, v.secondary>>
           /\ v.attempts = <<Attempt(p, "rate_limited")>>
  <2> DEFINE a == Attempt(p, "rate_limited")
             b == Attempt(v.secondary, outcome)
  <2>1. /\ a.provider = p /\ a.outcome = "rate_limited"
        /\ b.provider = v.secondary /\ b.outcome = outcome
    BY DEF Attempt
  <2> HIDE DEF a, b
  <2>2. /\ Len(w.sent) = 2 /\ IsInjective(w.sent) /\ w.sent[1] = p /\ w.sent[2] = v.secondary
        /\ Last(v.sent) = v.secondary
    BY <1>0, <1>1, <1>3, OfTwo
  <2>3. v.attempts = <<a>>
    BY <1>3 DEF a
  <2>4. w.attempts = Append(v.attempts, b)
    BY <1>0, <2>2 DEF b
  <2>5. w.attempts = <<a, b>>
    BY <2>3, <2>4, OfOne
  <2>6. Len(w.attempts) = 2 /\ w.attempts[1] = a /\ w.attempts[2] = b /\ Last(w.attempts) = b
    BY <2>5, OfTwo
  <2> QED BY <1>0, <2>1, <2>2, <2>6 DEF Accounted
<1> QED BY <1>1, <1>2, <1>3

\* A review that waits has sent nothing twice, to nobody unknown.
LEMMA WaitsAccounted ==
    ASSUME NEW v, Waits(v), v.secondary \in Enabled \cup {None}
    PROVE  /\ ToSet(v.sent) \subseteq Enabled /\ Accounted(v)
           /\ \A w : w.sent = v.sent /\ w.secondary = v.secondary /\ w.attempts = <<>>
                     /\ w.end \in {"refused", "cancelled"} => Accounted(w)
<1>1. PICK p \in Enabled :
       /\ v.end = None /\ v.secondary # p
       /\ \/ v.sent = <<p>> /\ v.attempts = <<>>
          \/ /\ v.secondary # None /\ v.sent = <<p, v.secondary>>
             /\ v.attempts = <<Attempt(p, "rate_limited")>>
  BY DEF Waits
<1> DEFINE Asked(w) == /\ Len(w.sent) <= 2 /\ IsInjective(w.sent)
                       /\ \A i \in 2 .. Len(w.sent) : w.sent[i] = w.secondary
<1>2. Asked(v) /\ ToSet(v.sent) \subseteq Enabled
  <2>1. CASE v.sent = <<p>>
    <3>1. Len(v.sent) = 1 /\ IsInjective(v.sent) /\ ToSet(v.sent) = {p}
      BY <2>1, OfOne
    <3> QED BY <3>1
  <2>2. CASE v.secondary # None /\ v.sent = <<p, v.secondary>>
    <3>1. /\ Len(v.sent) = 2 /\ IsInjective(v.sent) /\ ToSet(v.sent) = {p, v.secondary}
          /\ v.sent[2] = v.secondary
      BY <1>1, <2>2, OfTwo
    <3>2. v.secondary \in Enabled
      BY <2>2
    <3> QED BY <3>1, <3>2
  <2> QED BY <1>1, <2>1, <2>2
<1>3. ASSUME NEW w, Asked(w), w.end \notin {"advice", "error"},
             w.end \in {"refused", "cancelled"} => w.attempts = <<>>
      PROVE  Accounted(w)
  BY <1>3 DEF Accounted
<1>4. Accounted(v)
  BY <1>1, <1>2, <1>3 DEF None
<1>5. ASSUME NEW w, w.sent = v.sent, w.secondary = v.secondary, w.attempts = <<>>,
             w.end \in {"refused", "cancelled"}
      PROVE  Accounted(w)
  BY <1>2, <1>3, <1>5
<1> QED BY <1>2, <1>4, <1>5

\* A step of one review.
LEMMA OneReview ==
    ASSUME BrokerInv, NEW r \in Reviewer, NEW w, review' = [review EXCEPT ![r] = w],
           DOMAIN w = DOMAIN NoReview, Sends(w), Accounted(w), w.at = "asking" => Waits(w),
           UNCHANGED allowed, busy' \in BOOLEAN,
           \/ w.at = "asking" /\ review[r].at = "asking" /\ (busy' <=> busy)
           \/ w.at = "asking" /\ ~busy /\ busy'
           \/ w.at # "asking" /\ review[r].at = "asking" /\ ~busy'
           \/ w.at # "asking" /\ review[r].at # "asking" /\ (busy' <=> busy)
    PROVE  BrokerInv'
<1>1. review'[r] = w /\ \A x \in Reviewer \ {r} : review'[x] = review[x]
  BY DEF BrokerInv
<1>2. review' = [x \in Reviewer |-> review'[x]] /\ allowed' \in [Reviewer -> BOOLEAN]
  BY DEF BrokerInv
<1>3. ASSUME NEW x \in Reviewer
      PROVE  /\ Sends(review'[x]) /\ Accounted(review'[x])
             /\ review'[x].at = "asking" => Waits(review'[x])
             /\ DOMAIN review'[x] = DOMAIN NoReview
  BY <1>1 DEF BrokerInv
<1>4. \A x, y \in Reviewer : review'[x].at = "asking" /\ review'[y].at = "asking" => x = y
  BY <1>1 DEF BrokerInv
<1>5. busy' <=> \E x \in Reviewer : review'[x].at = "asking"
  BY <1>1 DEF BrokerInv
<1> QED BY <1>2, <1>3, <1>4, <1>5 DEF BrokerInv

LEMMA BeginBrokerInv ==
    ASSUME BrokerInv, NEW r \in Reviewer, NEW primary, NEW secondary, Begin(r, primary, secondary)
    PROVE  BrokerInv'
<1> DEFINE w == [NoReview EXCEPT !.at = "asking", !.secondary = secondary, !.sent = <<primary>>]
<1>1. /\ review' = [review EXCEPT ![r] = w] /\ ~busy /\ busy' = TRUE /\ UNCHANGED allowed
      /\ primary # secondary /\ primary \in Enabled /\ secondary \in Enabled \cup {None}
  BY DEF Begin
<1>2. /\ w.at = "asking" /\ w.secondary = secondary /\ w.sent = <<primary>> /\ w.attempts = <<>>
      /\ w.end = None /\ DOMAIN w = DOMAIN NoReview
  BY DEF NoReview
<1> HIDE DEF w
<1>3. Waits(w)
  BY <1>1, <1>2 DEF Waits
<1>4. ToSet(w.sent) \subseteq Enabled /\ Accounted(w)
  BY <1>1, <1>2, <1>3, WaitsAccounted
<1>5. Sends(w)
  BY <1>1, <1>2, <1>4 DEF Sends
<1> QED BY <1>1, <1>2, <1>3, <1>4, <1>5, OneReview

LEMMA RefuseBrokerInv ==
    ASSUME BrokerInv, NEW r \in Reviewer, Refuse(r)
    PROVE  BrokerInv'
<1> DEFINE w == [NoReview EXCEPT !.at = "ended", !.end = "refused"]
<1>1. /\ review' = [review EXCEPT ![r] = w] /\ review[r].at = "idle" /\ UNCHANGED <<busy, allowed>>
      /\ busy \in BOOLEAN
  BY DEF Refuse, BrokerInv
<1>2. /\ w.at = "ended" /\ w.secondary = None /\ w.sent = <<>> /\ w.attempts = <<>>
      /\ w.end = "refused" /\ DOMAIN w = DOMAIN NoReview
  BY DEF NoReview
<1> HIDE DEF w
<1>3. Sends(w)
  BY <1>2 DEF Sends, ToSet
<1>4. Accounted(w)
  BY <1>2 DEF Accounted, IsInjective
<1> QED BY <1>1, <1>2, <1>3, <1>4, OneReview

\* The end of a review that waits.
LEMMA EndedBrokerInv ==
    ASSUME BrokerInv, NEW r \in Reviewer, review[r].at = "asking", UNCHANGED allowed,
           NEW attempts, NEW end, Ended(r, attempts, end),
           \/ end \in {"refused", "cancelled"} /\ attempts = <<>>
           \/ \E outcome : /\ end \in {"advice", "error"} /\ (end = "advice" <=> outcome = "completed")
                           /\ attempts = Attempted(r, outcome)
    PROVE  BrokerInv'
<1> DEFINE v == review[r]
           w == [v EXCEPT !.at = "ended", !.attempts = attempts, !.end = end]
<1>1. /\ review' = [review EXCEPT ![r] = w] /\ busy' = FALSE
      /\ Sends(v) /\ Waits(v) /\ DOMAIN v = DOMAIN NoReview
  BY DEF Ended, BrokerInv
<1>2. /\ w.at = "ended" /\ w.secondary = v.secondary /\ w.sent = v.sent /\ w.attempts = attempts
      /\ w.end = end /\ DOMAIN w = DOMAIN NoReview
  BY <1>1 DEF NoReview
<1> HIDE DEF w
<1>3. Sends(w)
  BY <1>1, <1>2 DEF Sends
<1>4. Accounted(w)
  <2>1. CASE end \in {"refused", "cancelled"} /\ attempts = <<>>
    BY <1>1, <1>2, <2>1, WaitsAccounted DEF Sends
  <2>2. ASSUME NEW outcome, end \in {"advice", "error"}, end = "advice" <=> outcome = "completed",
               attempts = Attempted(r, outcome)
        PROVE  Accounted(w)
    <3>1. w.attempts = Append(v.attempts, Attempt(Last(v.sent), outcome))
      BY <1>2, <2>2, AttemptedIs
    <3>2. Replied(v, w, outcome)
      BY <1>2, <2>2, <3>1 DEF Replied
    <3>3. Waits(v)
      BY <1>1
    <3> HIDE DEF v
    <3> QED BY <3>2, <3>3, EndAccounted
  <2> QED BY <2>1, <2>2
<1> QED BY <1>1, <1>2, <1>3, <1>4, OneReview

LEMMA AnswerBrokerInv ==
    ASSUME BrokerInv, NEW r \in Reviewer, Answer(r)
    PROVE  BrokerInv'
<1> DEFINE v == review[r]
<1>1. v.at = "asking" /\ UNCHANGED allowed /\ Sends(v) /\ Waits(v) /\ DOMAIN v = DOMAIN NoReview
  BY DEF Answer, BrokerInv
<1>2. ASSUME NEW outcome \in {"completed", "http_error", "failed", "rate_limited"},
             Ended(r, Attempted(r, outcome), IF outcome = "completed" THEN "advice" ELSE "error")
      PROVE  BrokerInv'
  <2> DEFINE attempts == Attempted(r, outcome)
             end == IF outcome = "completed" THEN "advice" ELSE "error"
  <2>1. /\ end \in {"advice", "error"} /\ (end = "advice" <=> outcome = "completed")
        /\ attempts = Attempted(r, outcome) /\ Ended(r, attempts, end)
    BY <1>2
  <2> HIDE DEF attempts, end
  <2> QED BY <1>1, <2>1, EndedBrokerInv
<1>3. ASSUME v.secondary # None, Len(v.sent) = 1, UNCHANGED busy,
             review' = [review EXCEPT ![r].attempts = Attempted(r, "rate_limited"),
                                      ![r].sent = Append(@, review[r].secondary)]
      PROVE  BrokerInv'
  <2> DEFINE w == [v EXCEPT !.attempts = Attempted(r, "rate_limited"), !.sent = Append(v.sent, v.secondary)]
  <2>1. review' = [review EXCEPT ![r] = w]
    BY <1>3 DEF BrokerInv
  <2>2. /\ w.at = "asking" /\ w.secondary = v.secondary /\ w.sent = Append(v.sent, v.secondary)
        /\ w.attempts = Attempted(r, "rate_limited")
        /\ w.end = v.end /\ DOMAIN w = DOMAIN NoReview
    BY <1>1 DEF NoReview
  <2> HIDE DEF w
  <2>3. PICK p \in Enabled : v.end = None /\ v.secondary # p /\ v.sent = <<p>> /\ v.attempts = <<>>
    <3>1. PICK p \in Enabled :
            /\ v.end = None /\ v.secondary # p
            /\ \/ v.sent = <<p>> /\ v.attempts = <<>>
               \/ v.sent = <<p, v.secondary>>
      BY <1>1 DEF Waits
    <3>2. v.sent # <<p, v.secondary>>
      BY <1>3, OfTwo
    <3> QED BY <3>1, <3>2
  <2>4. Last(v.sent) = p /\ w.sent = <<p, v.secondary>>
    BY <2>2, <2>3, OfOne
  <2>5. w.attempts = <<Attempt(p, "rate_limited")>>
    <3>1. w.attempts = Append(<<>>, Attempt(p, "rate_limited"))
      BY <2>2, <2>3, <2>4, AttemptedIs
    <3> QED BY <3>1
  <2>6. Waits(w)
    BY <1>3, <2>2, <2>3, <2>4, <2>5 DEF Waits
  <2>7. w.secondary \in Enabled \cup {None}
    BY <1>1, <2>2 DEF Sends
  <2>8. ToSet(w.sent) \subseteq Enabled /\ Accounted(w)
    BY <2>6, <2>7, WaitsAccounted
  <2>9. Sends(w)
    BY <1>1, <2>2, <2>7, <2>8 DEF Sends
  <2>10. (busy' <=> busy) /\ busy' \in BOOLEAN
    BY <1>3 DEF BrokerInv
  <2> QED BY <1>1, <2>1, <2>2, <2>6, <2>8, <2>9, <2>10, OneReview
<1> QED BY <1>2, <1>3 DEF Answer

LEMMA NextBrokerInv == BrokerInv /\ [mbNext]_mbVars => BrokerInv'
<1> SUFFICES ASSUME BrokerInv, [mbNext]_mbVars PROVE BrokerInv'
  OBVIOUS
<1>1. CASE UNCHANGED mbVars
  BY <1>1 DEF mbVars, BrokerInv
<1>2. ASSUME NEW r \in Reviewer, AnswerRefused(r) \/ Cancelled(r) PROVE BrokerInv'
  <2>1. CASE AnswerRefused(r)
    BY <2>1, EndedBrokerInv DEF AnswerRefused
  <2>2. CASE Cancelled(r)
    BY <2>2, EndedBrokerInv DEF Cancelled
  <2> QED BY <1>2, <2>1, <2>2
<1>3. ASSUME NEW r \in Reviewer, Revoke(r) PROVE BrokerInv'
  <2>1. allowed' \in [Reviewer -> BOOLEAN] /\ UNCHANGED <<busy, review>>
    BY <1>3 DEF Revoke, BrokerInv
  <2> QED BY <2>1 DEF BrokerInv
<1> QED BY <1>1, <1>2, <1>3, BeginBrokerInv, RefuseBrokerInv, AnswerBrokerInv DEF mbNext

LEMMA EgressFollows == BrokerInv => mbTypeOK /\ EgressAccounted
  BY DEF BrokerInv, Sends, Accounted, mbTypeOK, EgressAccounted

\* Whatever the providers answer, and whenever the scope is revoked or the task
\* cancelled: advice and errors name exactly the providers that were asked, and
\* the broker is busy exactly while one review waits (LLMBroker.review).
THEOREM EgressNamed == mbSpec => [](mbTypeOK /\ EgressAccounted)
BY EgressFollows, InitBrokerInv, NextBrokerInv, PTL DEF mbSpec

-----------------------------------------------------------------------------
(***************************************************************************)
(* Inside a method: the registers kept before an instruction say no less   *)
(* than any way that leads there brings.  An instruction only adds to what *)
(* it is given, unless elements hide an array's value, so what has been    *)
(* passed on once covers every way through it, of any length.              *)
(***************************************************************************)
\* What may be in a register, and in all of them, in each of the four tracks.
EntryLike(e) == e = [k \in Tracks |-> e[k]]
Shaped(regs) == regs = [r \in Slots |-> regs[r]] /\ \A r \in Slots : EntryLike(regs[r])
\* One says no more than the other.
EntryBelow(e, f) == \A k \in Tracks : e[k] \subseteq f[k]
Below(a, b) == \A r \in Slots : EntryBelow(a[r], b[r])
Grows(a, b) == Shaped(a) /\ Shaped(b) /\ Below(a, b)
EntryGrows(e, f) == EntryLike(e) /\ EntryLike(f) /\ EntryBelow(e, f)

\* A change of one register, and of one track of a register.
PutIn(x, a, d, e) == x = [a EXCEPT ![d] = e]
PutTrack(x, a, d, track, S) == x = [a EXCEPT ![d] = [a[d] EXCEPT ![track] = S]]

LEMMA PutGrows ==
    ASSUME NEW a, NEW b, Grows(a, b), NEW e, NEW f, EntryGrows(e, f), NEW d,
           NEW x, NEW y, PutIn(x, a, d, e), PutIn(y, b, d, f)
    PROVE  Grows(x, y)
<1>1. /\ DOMAIN a = Slots /\ DOMAIN b = Slots
      /\ \A r \in Slots : EntryLike(a[r]) /\ EntryLike(b[r]) /\ EntryBelow(a[r], b[r])
      /\ EntryLike(e) /\ EntryLike(f) /\ EntryBelow(e, f)
  BY DEF Grows, EntryGrows, Shaped, Below
<1>2. x = [r \in Slots |-> x[r]] /\ y = [r \in Slots |-> y[r]]
  BY <1>1 DEF PutIn
<1>3. \A r \in Slots : /\ x[r] = IF r = d THEN e ELSE a[r]
                       /\ y[r] = IF r = d THEN f ELSE b[r]
  BY <1>1 DEF PutIn
<1> QED BY <1>1, <1>2, <1>3 DEF Grows, Shaped, Below

LEMMA OnlyGrows ==
    ASSUME NEW track, NEW S, NEW T, S \subseteq T
    PROVE  EntryGrows(Only(track, S), Only(track, T))
  BY DEF EntryGrows, EntryLike, EntryBelow, Only, Clean

LEMMA CleanGrows == EntryGrows(Clean, Clean)
  BY DEF EntryGrows, EntryLike, EntryBelow, Clean

LEMMA TrackGrows ==
    ASSUME NEW e, NEW f, EntryGrows(e, f), NEW track, NEW S, NEW T, S \subseteq T
    PROVE  EntryGrows([e EXCEPT ![track] = S], [f EXCEPT ![track] = T])
  BY DEF EntryGrows, EntryLike, EntryBelow

LEMMA EntriesGrow ==
    ASSUME NEW a, NEW b, Grows(a, b), NEW r \in Slots
    PROVE  /\ EntryGrows(a[r], b[r])
           /\ a[r].value \subseteq b[r].value /\ a[r].array \subseteq b[r].array
           /\ a[r].builder \subseteq b[r].builder /\ a[r].returned \subseteq b[r].returned
  BY DEF Grows, EntryGrows, Shaped, Below, EntryBelow, Tracks

LEMMA PutTrackGrows ==
    ASSUME NEW a, NEW b, Grows(a, b), NEW d \in Slots, NEW track, NEW S, NEW T, S \subseteq T,
           NEW x, NEW y, PutTrack(x, a, d, track, S), PutTrack(y, b, d, track, T)
    PROVE  Grows(x, y)
<1> DEFINE e == [a[d] EXCEPT ![track] = S]
           f == [b[d] EXCEPT ![track] = T]
<1>1. EntryGrows(e, f)
  BY EntriesGrow, TrackGrows
<1>2. PutIn(x, a, d, e) /\ PutIn(y, b, d, f)
  BY DEF PutIn, PutTrack
<1> HIDE DEF e, f
<1> QED BY <1>1, <1>2, PutGrows

\* An array whose elements and own value are both tainted hides the value, and
\* an aget into the register of the array the elements.
Hides(instr, regs) ==
    /\ instr.op = "aget"
    /\ regs[instr.s].array # {}
    /\ regs[instr.s].value # {} \/ instr.d = instr.s

\* What an instruction does from two states is one change of each of them.
Puts(P, Q, a, b, d, e, f) == PutIn(P, a, d, e) /\ PutIn(Q, b, d, f) /\ EntryGrows(e, f)
PutsTrack(P, Q, a, b, d, track, S, T) ==
    PutTrack(P, a, d, track, S) /\ PutTrack(Q, b, d, track, T) /\ S \subseteq T

LEMMA PutsGrow ==
    ASSUME NEW a, NEW b, Grows(a, b), NEW P, NEW Q, NEW d, NEW e, NEW f, Puts(P, Q, a, b, d, e, f)
    PROVE  Grows(P, Q)
  BY PutGrows DEF Puts

LEMMA PutsTrackGrow ==
    ASSUME NEW a, NEW b, Grows(a, b), NEW P, NEW Q, NEW d \in Slots, NEW track, NEW S, NEW T,
           PutsTrack(P, Q, a, b, d, track, S, T)
    PROVE  Grows(P, Q)
  BY PutTrackGrows DEF PutsTrack

LEMMA InvocationGrows ==
    ASSUME NEW instr, instr.d \in Reg, instr.op # "source" => instr.s \in Reg,
           NEW a, NEW b, Grows(a, b)
    PROVE  Grows(Invocation(instr, a), Invocation(instr, b))
<1> DEFINE d == instr.d
           s == instr.s
           op == instr.op
           P == Invocation(instr, a)
           Q == Invocation(instr, b)
<1>1. d \in Slots /\ Pending \in Slots /\ (op # "source" => s \in Slots)
  BY DEF Slots
<1>2. CASE op = "source"
  <2>1. Puts(P, Q, a, b, Pending, Only("value", {s}), Only("value", {s}))
    BY <1>2, OnlyGrows DEF Invocation, Puts, PutIn
  <2> QED BY <2>1, PutsGrow
<1>3. CASE op = "transform"
  <2>1. a[s].value \subseteq b[s].value
    BY <1>1, <1>3, EntriesGrow
  <2>2. EntryGrows(Only("value", a[s].value), Only("value", b[s].value))
    BY <2>1, OnlyGrows
  <2>3. Puts(P, Q, a, b, Pending, Only("value", a[s].value), Only("value", b[s].value))
    BY <1>3, <2>2 DEF Invocation, Puts, PutIn
  <2> QED BY <2>3, PutsGrow
<1>4. CASE op = "read"
  <2>1. a[s].value \subseteq b[s].value /\ a[d].array \subseteq b[d].array
    BY <1>1, <1>4, EntriesGrow
  <2>2. PutsTrack(P, Q, a, b, d, "array", a[d].array \cup a[s].value, b[d].array \cup b[s].value)
    BY <1>4, <2>1 DEF Invocation, PutsTrack, PutTrack
  <2> QED BY <1>1, <2>2, PutsTrackGrow
<1>5. CASE op = "append"
  <2> DEFINE x == a[d].builder \cup a[s].value
             y == b[d].builder \cup b[s].value
             xa == [a EXCEPT ![d] = [a[d] EXCEPT !["builder"] = x]]
             yb == [b EXCEPT ![d] = [b[d] EXCEPT !["builder"] = y]]
  <2>1. a[s].value \subseteq b[s].value /\ a[d].builder \subseteq b[d].builder
    BY <1>1, <1>5, EntriesGrow
  <2>2. PutsTrack(xa, yb, a, b, d, "builder", x, y)
    BY <2>1 DEF PutsTrack, PutTrack
  <2>3. Grows(xa, yb)
    BY <1>1, <2>2, PutsTrackGrow
  <2>4. EntryGrows(Only("builder", x), Only("builder", y))
    BY <2>1, OnlyGrows
  <2>5. P = [xa EXCEPT ![Pending] = Only("builder", x)] /\ Q = [yb EXCEPT ![Pending] = Only("builder", y)]
    BY <1>5 DEF Invocation
  <2>6. Puts(P, Q, xa, yb, Pending, Only("builder", x), Only("builder", y))
    BY <2>4, <2>5 DEF Puts, PutIn
  <2> HIDE DEF xa, yb
  <2> QED BY <2>3, <2>6, PutsGrow
<1>6. CASE op = "to_string"
  <2>1. a[s].builder \subseteq b[s].builder
    BY <1>1, <1>6, EntriesGrow
  <2>2. EntryGrows(Only("value", a[s].builder), Only("value", b[s].builder))
    BY <2>1, OnlyGrows
  <2>3. Puts(P, Q, a, b, Pending, Only("value", a[s].builder), Only("value", b[s].builder))
    BY <1>6, <2>2 DEF Invocation, Puts, PutIn
  <2> QED BY <2>3, PutsGrow
<1>7. CASE op = "call"
  <2> DEFINE o == Only("value", Given["return"])
             e == [o EXCEPT !["returned"] = Given["return"]]
  <2>1. EntryGrows(o, o)
    BY OnlyGrows
  <2>2. EntryGrows(e, e)
    <3> HIDE DEF o
    <3> QED BY <2>1, TrackGrows
  <2>3. Puts(P, Q, a, b, Pending, e, e)
    BY <1>7, <2>2 DEF Invocation, Puts, PutIn
  <2> HIDE DEF e
  <2> QED BY <2>3, PutsGrow
<1>8. CASE op \notin {"source", "transform", "read", "append", "to_string", "call"}
  BY <1>8 DEF Invocation
<1> QED BY <1>2, <1>3, <1>4, <1>5, <1>6, <1>7, <1>8

LEMMA EffectGrows ==
    ASSUME NEW instr, instr.d \in Reg, instr.op # "source" => instr.s \in Reg,
           NEW a, NEW b, Grows(a, b), ~Hides(instr, b)
    PROVE  Grows(Effect(instr, a), Effect(instr, b))
<1> DEFINE d == instr.d
           s == instr.s
           op == instr.op
           P == Effect(instr, a)
           Q == Effect(instr, b)
           x == [a EXCEPT ![Pending] = Clean]
           y == [b EXCEPT ![Pending] = Clean]
<1>1. d \in Slots /\ Pending \in Slots /\ (op # "source" => s \in Slots)
  BY DEF Slots
<1>2. Grows(x, y)
  <2>1. Puts(x, y, a, b, Pending, Clean, Clean)
    BY CleanGrows DEF Puts, PutIn
  <2> HIDE DEF x, y
  <2> QED BY <2>1, PutsGrow
<1> HIDE DEF x, y
<1>3. ASSUME NEW e, NEW f, EntryGrows(e, f), PutIn(P, x, d, e), PutIn(Q, y, d, f)
      PROVE  Grows(P, Q)
  <2>1. Puts(P, Q, x, y, d, e, f)
    BY <1>3 DEF Puts
  <2> QED BY <1>2, <2>1, PutsGrow
<1>4. CASE op = "result"
  <2>1. EntryGrows(a[Pending], b[Pending])
    BY <1>1, EntriesGrow
  <2>2. PutIn(P, x, d, a[Pending]) /\ PutIn(Q, y, d, b[Pending])
    BY <1>4 DEF Effect, x, y, PutIn
  <2> QED BY <1>3, <2>1, <2>2
<1>5. CASE op = "move"
  <2>1. EntryGrows(a[s], b[s])
    BY <1>1, <1>5, EntriesGrow
  <2>2. PutIn(P, x, d, a[s]) /\ PutIn(Q, y, d, b[s])
    BY <1>5 DEF Effect, x, y, PutIn
  <2> QED BY <1>3, <2>1, <2>2
<1>6. CASE op \in {"const", "iget"}
  <2>1. PutIn(P, x, d, Clean) /\ PutIn(Q, y, d, Clean)
    BY <1>6 DEF Effect, x, y, PutIn
  <2> QED BY <1>3, <2>1, CleanGrows
<1>7. CASE op = "arith"
  <2>1. EntryGrows(Only("value", a[s].value), Only("value", b[s].value))
    BY <1>1, <1>7, EntriesGrow, OnlyGrows
  <2>2. PutIn(P, x, d, Only("value", a[s].value)) /\ PutIn(Q, y, d, Only("value", b[s].value))
    BY <1>7 DEF Effect, x, y, PutIn
  <2> QED BY <1>3, <2>1, <2>2
<1>8. CASE op = "sget"
  <2> DEFINE e == Only("value", Given["field"])
  <2>1. EntryGrows(e, e)
    BY OnlyGrows
  <2>2. PutIn(P, x, d, e) /\ PutIn(Q, y, d, e)
    BY <1>8 DEF Effect, x, y, PutIn
  <2> QED BY <1>3, <2>1, <2>2
<1>9. CASE op = "aget"
  <2> DEFINE S == IF s # d /\ a[s].array # {} THEN a[s].array ELSE a[s].value
             T == IF s # d /\ b[s].array # {} THEN b[s].array ELSE b[s].value
  <2>1. a[s].value \subseteq b[s].value /\ a[s].array \subseteq b[s].array
    BY <1>1, <1>9, EntriesGrow
  <2>2. S \subseteq T
    BY <1>9, <2>1 DEF Hides
  <2>3. PutIn(P, x, d, Only("value", S)) /\ PutIn(Q, y, d, Only("value", T))
    BY <1>9 DEF Effect, x, y, PutIn
  <2> HIDE DEF S, T
  <2>4. EntryGrows(Only("value", S), Only("value", T))
    BY <2>2, OnlyGrows
  <2> QED BY <1>3, <2>3, <2>4
<1>10. CASE op = "aput"
  <2>1. a[s].value \subseteq b[s].value /\ x[d].array \subseteq y[d].array
    BY <1>1, <1>2, <1>10, EntriesGrow
  <2>2. PutsTrack(P, Q, x, y, d, "array", x[d].array \cup a[s].value, y[d].array \cup b[s].value)
    BY <1>10, <2>1 DEF Effect, x, y, PutsTrack, PutTrack
  <2> QED BY <1>1, <1>2, <2>2, PutsTrackGrow
<1>11. CASE op = "fill"
  <2>1. PutsTrack(P, Q, x, y, d, "array", {}, {})
    BY <1>11 DEF Effect, x, y, PutsTrack, PutTrack
  <2> QED BY <1>1, <1>2, <2>1, PutsTrackGrow
<1>12. CASE op = "new_filled"
  <2>1. EntryGrows(Only("array", a[s].value), Only("array", b[s].value))
    BY <1>1, <1>12, EntriesGrow, OnlyGrows
  <2>2. Puts(P, Q, x, y, Pending, Only("array", a[s].value), Only("array", b[s].value))
    BY <1>12, <2>1 DEF Effect, x, y, Puts, PutIn
  <2> QED BY <1>2, <2>2, PutsGrow
<1>13. CASE op \notin {"result", "move", "const", "iget", "arith", "sget", "aget", "aput", "fill", "new_filled"}
  <2>1. P = Invocation(instr, x) /\ Q = Invocation(instr, y)
    BY <1>13 DEF Effect, x, y
  <2> QED BY <1>2, <2>1, InvocationGrows
<1> QED BY <1>4, <1>5, <1>6, <1>7, <1>8, <1>9, <1>10, <1>11, <1>12, <1>13

\* What an execution carries past an instruction is no more than the analysis
\* makes of what it has joined there.
LEMMA CarryGrows ==
    ASSUME NEW instr, instr.d \in Reg, instr.op # "source" => instr.s \in Reg,
           NEW a, NEW b, Grows(a, b), ~Hides(instr, b)
    PROVE  Grows(Carry(instr, a), Effect(instr, b))
<1>1. CASE instr.op # "aget"
  BY <1>1, EffectGrows DEF Carry
<1>2. CASE instr.op = "aget"
  <2> DEFINE s == instr.s
             S == a[s].array \cup a[s].value
             T == IF s # instr.d /\ b[s].array # {} THEN b[s].array ELSE b[s].value
             x == [a EXCEPT ![Pending] = Clean]
             y == [b EXCEPT ![Pending] = Clean]
  <2>1. s \in Slots
    BY <1>2 DEF Slots
  <2>2. a[s].value \subseteq b[s].value /\ a[s].array \subseteq b[s].array
    BY <2>1, EntriesGrow
  <2>3. S \subseteq T
    BY <1>2, <2>2 DEF Hides
  <2>4. /\ PutIn(Carry(instr, a), x, instr.d, Only("value", S))
        /\ PutIn(Effect(instr, b), y, instr.d, Only("value", T))
    BY <1>2 DEF Carry, Effect, PutIn
  <2>5. Puts(x, y, a, b, Pending, Clean, Clean)
    BY CleanGrows DEF Puts, PutIn
  <2> HIDE DEF S, T, x, y
  <2>6. EntryGrows(Only("value", S), Only("value", T))
    BY <2>3, OnlyGrows
  <2>7. Grows(x, y)
    BY <2>5, PutsGrow
  <2>8. Puts(Carry(instr, a), Effect(instr, b), x, y, instr.d, Only("value", S), Only("value", T))
    BY <2>4, <2>6 DEF Puts
  <2> QED BY <2>7, <2>8, PutsGrow
<1> QED BY <1>1, <1>2

\* An instruction of a method keeps the shape of the registers, hidden or not.
LEMMA EffectShaped ==
    ASSUME NEW instr, instr.d \in Reg, instr.op # "source" => instr.s \in Reg,
           NEW a, Shaped(a)
    PROVE  Shaped(Effect(instr, a))
<1>1. Grows(a, a)
  BY DEF Grows, Below, EntryBelow
<1>2. CASE ~Hides(instr, a)
  BY <1>1, <1>2, EffectGrows DEF Grows
<1>3. CASE Hides(instr, a)
  <2> DEFINE cleared == [a EXCEPT ![Pending] = Clean]
             e == Only("value", IF instr.s # instr.d /\ a[instr.s].array # {}
                                  THEN a[instr.s].array ELSE a[instr.s].value)
             P == Effect(instr, a)
  <2>1. PutIn(cleared, a, Pending, Clean) /\ EntryGrows(e, e)
    BY OnlyGrows DEF PutIn
  <2>2. Grows(cleared, cleared)
    <3>1. Puts(cleared, cleared, a, a, Pending, Clean, Clean)
      BY <2>1, CleanGrows DEF Puts
    <3> HIDE DEF cleared
    <3> QED BY <1>1, <3>1, PutsGrow
  <2>3. P = [cleared EXCEPT ![instr.d] = e]
    BY <1>3 DEF Hides, Effect
  <2>4. Puts(P, P, cleared, cleared, instr.d, e, e)
    BY <2>1, <2>3 DEF Puts, PutIn
  <2> HIDE DEF cleared, e, P
  <2>5. Grows(P, P)
    BY <2>2, <2>4, PutsGrow
  <2> QED BY <2>5 DEF Grows, P
<1> QED BY <1>2, <1>3

\* More in the registers is more to note.
LEMMA NotesGrow ==
    ASSUME NEW instr, instr.d \in Reg, instr.op # "source" => instr.s \in Reg,
           NEW a, NEW b, Grows(a, b)
    PROVE  Notes(instr, a) \subseteq Notes(instr, b)
<1>1. CASE instr.op \in {"sink", "call", "sput", "return"}
  <2>1. instr.s \in Slots
    BY <1>1 DEF Slots
  <2>2. a[instr.s].value \subseteq b[instr.s].value
    BY <2>1, EntriesGrow
  <2> QED BY <1>1, <2>2 DEF Notes
<1>2. CASE instr.op \notin {"sink", "call", "sput", "return"}
  BY <1>2 DEF Notes
<1> QED BY <1>1, <1>2

\* The join says what either says, and nothing new when it is the first.
LEMMA JoinIs ==
    ASSUME NEW a, NEW b, Shaped(a), Shaped(b)
    PROVE  /\ Shaped(Join(a, b))
           /\ Below(a, Join(a, b)) /\ Below(b, Join(a, b))
           /\ Join(a, b) = a => Below(b, a)
<1>1. /\ Join(a, b) = [r \in Slots |-> Join(a, b)[r]]
      /\ \A r \in Slots : Join(a, b)[r] = [k \in Tracks |-> a[r][k] \cup b[r][k]]
  BY DEF Join
<1> DEFINE j == Join(a, b)
<1> HIDE DEF j
<1>2. Shaped(j)
  BY <1>1 DEF Shaped, EntryLike, j
<1>3. \A r \in Slots : \A k \in Tracks : j[r][k] = a[r][k] \cup b[r][k]
  BY <1>1 DEF j
<1>4. Below(a, j) /\ Below(b, j)
  BY <1>3 DEF Below, EntryBelow
<1> QED BY <1>2, <1>4 DEF j

LEMMA BelowTransitive ==
    ASSUME NEW a, NEW b, NEW c, Below(a, b), Below(b, c)
    PROVE  Below(a, c)
<1>1. ASSUME NEW r \in Slots, NEW k \in Tracks
      PROVE  a[r][k] \subseteq c[r][k]
  <2>1. a[r][k] \subseteq b[r][k] /\ b[r][k] \subseteq c[r][k]
    BY DEF Below, EntryBelow
  <2> QED BY <2>1
<1> QED BY <1>1 DEF Below, EntryBelow

\* At most two instructions follow one, each once, the branch first.
LEMMA InOrderIs ==
    ASSUME NEW D, NEW S, NEW branch, NEW next, S \subseteq D, S \subseteq {branch, next}
    PROVE  /\ InOrder(S, branch, next) \in Seq(D)
           /\ \A x \in S : \E n \in 1..Len(InOrder(S, branch, next)) :
                 InOrder(S, branch, next)[n] = x
<1> DEFINE one == IF branch \in S THEN <<branch>> ELSE <<>>
           two == IF next \in S /\ next # branch THEN <<next>> ELSE <<>>
           both == one \o two
<1>1. InOrder(S, branch, next) = both
  BY DEF InOrder
<1>2. one \in Seq(D) /\ Len(one) \in Nat /\ (branch \in S => Len(one) = 1 /\ one[1] = branch)
  OBVIOUS
<1>3. two \in Seq(D) /\ Len(two) \in Nat
      /\ (next \in S /\ next # branch => Len(two) = 1 /\ two[1] = next)
  OBVIOUS
<1> HIDE DEF one, two
<1>4. both \in Seq(D)
  BY <1>2, <1>3, ConcatProperties
<1>5. Len(both) = Len(one) + Len(two)
  BY <1>2, <1>3, ConcatProperties
<1>6. \A i \in 1..Len(one) + Len(two) :
        both[i] = IF i <= Len(one) THEN one[i] ELSE two[i - Len(one)]
  BY <1>2, <1>3, ConcatProperties
<1> HIDE DEF both
<1>7. ASSUME NEW x \in S
      PROVE  \E n \in 1..Len(both) : both[n] = x
  <2>1. CASE x = branch
    <3>1. Len(one) = 1 /\ one[1] = branch
      BY <1>2, <2>1
    <3>2. 1 \in 1..Len(both) /\ both[1] = one[1]
      BY <1>3, <1>5, <1>6, <3>1
    <3> QED BY <2>1, <3>1, <3>2
  <2>2. CASE x = next /\ x # branch
    <3>1. Len(two) = 1 /\ two[1] = next
      BY <1>3, <2>2
    <3>2. Len(both) \in 1..Len(both) /\ both[Len(both)] = two[1]
      BY <1>2, <1>5, <1>6, <3>1
    <3> QED BY <2>2, <3>1, <3>2
  <2> QED BY <2>1, <2>2
<1> QED BY <1>1, <1>4, <1>7

\* What is put on the queue joins what was waiting behind its head.
Follows(r, q, o) == r = Tail(q) \o o
Keeps(r, q, o) ==
    /\ \A n \in 1..Len(q) : q[n] # Head(q) => \E k \in 1..Len(r) : r[k] = q[n]
    /\ \A n \in 1..Len(o) : \E k \in 1..Len(r) : r[k] = o[n]

LEMMA QueueIs ==
    ASSUME NEW D, NEW q \in Seq(D), q # <<>>, NEW o \in Seq(D), NEW r, Follows(r, q, o)
    PROVE  r \in Seq(D) /\ Keeps(r, q, o)
<1> DEFINE t == Tail(q)
<1>0. r = t \o o
  BY DEF Follows
<1>1. Head(q) \in D /\ Head(q) = q[1]
  BY HeadTailProperties
<1>2. t \in Seq(D)
  BY HeadTailProperties
<1>3. Len(t) = Len(q) - 1 /\ Len(q) \in Nat /\ Len(o) \in Nat
  BY HeadTailProperties, LenProperties
<1>4. \A i \in 1..Len(t) : t[i] = q[i + 1]
  BY HeadTailProperties
<1> HIDE DEF t
<1>5. r \in Seq(D)
  BY <1>0, <1>2, ConcatProperties
<1>6. Len(r) = Len(t) + Len(o)
  BY <1>0, <1>2, ConcatProperties
<1>7. \A i \in 1..Len(t) + Len(o) : r[i] = IF i <= Len(t) THEN t[i] ELSE o[i - Len(t)]
  BY <1>0, <1>2, ConcatProperties
<1>8. Len(t) \in Nat
  BY <1>2, LenProperties
<1>9. ASSUME NEW n \in 1..Len(q), q[n] # Head(q)
      PROVE  \E k \in 1..Len(r) : r[k] = q[n]
  <2>1. n # 1
    BY <1>1, <1>9
  <2>2. n - 1 \in 1..Len(t) /\ n - 1 \in 1..Len(r) /\ (n - 1) + 1 = n
    BY <1>3, <1>6, <1>8, <2>1
  <2>3. r[n - 1] = q[n]
    BY <1>3, <1>4, <1>7, <1>8, <2>2
  <2> QED BY <2>2, <2>3
<1>10. ASSUME NEW n \in 1..Len(o)
       PROVE  \E k \in 1..Len(r) : r[k] = o[n]
  <2>1. Len(t) + n \in 1..Len(r) /\ (Len(t) + n) - Len(t) = n /\ ~(Len(t) + n <= Len(t))
    BY <1>3, <1>6, <1>8
  <2>2. r[Len(t) + n] = o[n]
    BY <1>3, <1>6, <1>7, <1>8, <2>1
  <2> QED BY <2>1, <2>2
<1> QED BY <1>5, <1>9, <1>10 DEF Keeps


-----------------------------------------------------------------------------
\* An instruction waits for a visit, or what its last visit left is what holds:
\* everything after it has heard of it, and what it reaches is noted.
Waiting(i) == \E n \in 1..Len(queue) : queue[n] = i
PassedOn(i) ==
    /\ \A j \in Targets(body, i) : j \in DOMAIN before /\ Below(Effect(body[i], before[i]), before[j])
    /\ Notes(body[i], before[i]) \subseteq noted

FlowInv ==
    /\ body \in Bodies
    /\ before = [i \in DOMAIN before |-> before[i]]
    /\ 1 \in DOMAIN before /\ DOMAIN before \subseteq DOMAIN body
    /\ \A i \in DOMAIN before : Shaped(before[i])
    /\ Below(Entry, before[1])
    /\ queue \in Seq(DOMAIN before)
    /\ \A i \in DOMAIN before : Waiting(i) \/ PassedOn(i)
    /\ verdict = "complete" => queue = <<>>

LEMMA EntryShaped == Shaped(Entry)
<1>1. Entry = [r \in Slots |-> Entry[r]]
      /\ \A r \in Slots : Entry[r] = IF r \in Reg THEN Only("value", Given["param"][r]) ELSE Clean
  BY DEF Entry
<1>2. \A S : EntryLike(Only("value", S))
  BY DEF EntryLike, Only, Clean
<1>3. EntryLike(Clean)
  BY DEF EntryLike, Clean
<1> QED BY <1>1, <1>2, <1>3 DEF Shaped

LEMMA StartFlow ==
    ASSUME BodiesAreCode, rfInit
    PROVE  FlowInv
<1>1. PICK method \in Bodies : Start(method)
  BY DEF rfInit
<1>2. body = method /\ before = [i \in {1} |-> Entry] /\ queue = <<1>> /\ verdict = "running"
  BY <1>1 DEF Start
<1>3. DOMAIN before = {1} /\ before[1] = Entry /\ 1 \in DOMAIN body
  BY <1>2 DEF BodiesAreCode
<1>4. Below(Entry, Entry)
  BY DEF Below, EntryBelow
<1>5. queue \in Seq({1}) /\ Len(queue) = 1 /\ queue[1] = 1
  BY <1>2
<1>6. Waiting(1)
  BY <1>5 DEF Waiting
<1> QED BY <1>2, <1>3, <1>4, <1>5, <1>6, EntryShaped DEF FlowInv

LEMMA VisitFlow ==
    ASSUME BodiesAreCode, FlowInv, Visit
    PROVE  FlowInv'
<1> DEFINE here == Head(queue)
           out == Effect(body[here], before[here])
           goes == Targets(body, here)
           known == DOMAIN before
           reached(j) == IF j \in known THEN Join(before[j], out) ELSE out
           news(j) == j \notin known \/ before[j] # reached(j)
           again == {j \in goes : news(j)}
           order == InOrder(again, body[here].to, here + 1)
<1>1. /\ queue # <<>>
      /\ before' = [j \in known \cup goes |-> IF j \in goes /\ news(j) THEN reached(j) ELSE before[j]]
      /\ queue' = Tail(queue) \o order
      /\ noted' = noted \cup Notes(body[here], before[here])
      /\ body' = body /\ verdict' = verdict /\ verdict = "running"
  BY DEF Visit, Changed
<1>2. here \in known
  BY <1>1, HeadTailProperties DEF FlowInv
<1>3. /\ body[here].d \in Reg /\ (body[here].op # "source" => body[here].s \in Reg)
      /\ Shaped(before[here])
  BY <1>2 DEF FlowInv, BodiesAreCode
<1>4. Shaped(out)
  BY <1>3, EffectShaped
<1>5. goes \subseteq DOMAIN body /\ goes \subseteq {body[here].to, here + 1}
  BY DEF Targets
<1> HIDE DEF out, goes, here
<1>6. DOMAIN before' = known \cup goes
  BY <1>1
<1>7. \A j \in known : Shaped(Join(before[j], out)) /\ Below(before[j], Join(before[j], out))
                       /\ Below(out, Join(before[j], out))
                       /\ (Join(before[j], out) = before[j] => Below(out, before[j]))
  BY <1>4, JoinIs DEF FlowInv
<1>8. \A j : Below(before[j], before[j])
  BY DEF Below, EntryBelow
<1>9. Below(out, out)
  BY DEF Below, EntryBelow
<1>10. \A j \in known \cup goes : Shaped(before'[j])
  BY <1>1, <1>4, <1>7 DEF FlowInv
<1>11. \A j \in known : Below(before[j], before'[j]) /\ (j \notin again => before'[j] = before[j])
  BY <1>1, <1>7, <1>8
<1>12. \A j \in goes : Below(out, before'[j]) /\ (j \notin known => j \in again)
  BY <1>1, <1>7, <1>9
<1>13. again \subseteq known \cup goes /\ again \subseteq {body[here].to, here + 1}
  BY <1>5
<1>14. /\ order \in Seq(known \cup goes)
       /\ \A x \in again : \E n \in 1..Len(order) : order[n] = x
  <2> HIDE DEF again
  <2> QED BY <1>13, InOrderIs
<1> HIDE DEF again, order, reached, news, known
<1>15. queue \in Seq(known \cup goes)
  BY SeqMonotonic DEF FlowInv, known
<1>16. /\ queue' \in Seq(known \cup goes)
       /\ \A n \in 1..Len(queue) : queue[n] # here =>
             \E k \in 1..Len(queue') : queue'[k] = queue[n]
       /\ \A n \in 1..Len(order) : \E k \in 1..Len(queue') : queue'[k] = order[n]
  <2> DEFINE all == known \cup goes
  <2>1. queue # <<>> /\ queue \in Seq(all) /\ order \in Seq(all) /\ Follows(queue', queue, order)
    BY <1>1, <1>14, <1>15 DEF Follows
  <2> HIDE DEF all
  <2>2. queue' \in Seq(all) /\ Keeps(queue', queue, order)
    BY <2>1, QueueIs
  <2> QED BY <2>2 DEF Keeps, here, all
<1>17. \A x \in again : Waiting(x)'
  BY <1>14, <1>16 DEF Waiting
<1>18. ASSUME NEW x \in known \cup goes, x \notin again
       PROVE  Waiting(x)' \/ PassedOn(x)'
  <2>1. x \in known /\ before'[x] = before[x] /\ (\A j \in known : Below(before[j], before'[j]))
    BY <1>11, <1>12, <1>18
  <2>2. CASE x = here
    <3>1. /\ \A j \in Targets(body, x) : j \in DOMAIN before' /\ Below(Effect(body[x], before[x]), before'[j])
          /\ Notes(body[x], before[x]) \subseteq noted'
      BY <1>1, <1>6, <1>12, <2>2 DEF goes, out
    <3> QED BY <1>1, <2>1, <3>1 DEF PassedOn
  <2>3. CASE x # here /\ Waiting(x)
    BY <1>16, <2>3 DEF Waiting
  <2>4. CASE x # here /\ PassedOn(x)
    <3>1. ASSUME NEW j \in Targets(body, x)
          PROVE  j \in DOMAIN before' /\ Below(Effect(body[x], before[x]), before'[j])
      <4>1. j \in known /\ Below(Effect(body[x], before[x]), before[j])
        BY <2>4 DEF PassedOn, known
      <4>2. Below(before[j], before'[j])
        BY <2>1, <4>1
      <4>3. Below(Effect(body[x], before[x]), before'[j])
        BY <4>1, <4>2, BelowTransitive
      <4> QED BY <1>6, <4>1, <4>3
    <3>2. Notes(body[x], before[x]) \subseteq noted'
      BY <1>1, <2>4 DEF PassedOn
    <3> QED BY <1>1, <2>1, <3>1, <3>2 DEF PassedOn
  <2> QED BY <2>1, <2>2, <2>3, <2>4 DEF FlowInv, known
<1>19. Below(Entry, before'[1])
  BY <1>11, BelowTransitive DEF FlowInv, known
<1>20. before' = [j \in DOMAIN before' |-> before'[j]]
  BY <1>1
<1>21. 1 \in DOMAIN before' /\ DOMAIN before' \subseteq DOMAIN body
  BY <1>5, <1>6 DEF FlowInv, known
<1> QED BY <1>1, <1>6, <1>10, <1>16, <1>17, <1>18, <1>19, <1>20, <1>21 DEF FlowInv

LEMMA DoneFlow ==
    ASSUME FlowInv, Done
    PROVE  FlowInv'
  BY DEF FlowInv, Done, Waiting, PassedOn

LEMMA IdleFlow ==
    ASSUME FlowInv, UNCHANGED rfVars
    PROVE  FlowInv'
  BY DEF FlowInv, rfVars, Waiting, PassedOn

LEMMA FlowStep == BodiesAreCode /\ FlowInv /\ [rfNext]_rfVars => FlowInv'
  BY VisitFlow, DoneFlow, IdleFlow DEF rfNext

LEMMA FlowInvariant ==
    ASSUME BodiesAreCode
    PROVE  rfSpec => []FlowInv
<1>1. rfInit => FlowInv
  BY StartFlow
<1>2. FlowInv /\ [rfNext]_rfVars => FlowInv'
  BY FlowStep
<1> QED BY <1>1, <1>2, PTL DEF rfSpec


-----------------------------------------------------------------------------
\* The first steps of the ways through a method.
Steps(method, p, n) ==
    /\ p[0] = Started
    /\ \A k \in Nat : k < n => p[k + 1] = Follow(method, p[k])

LEMMA StepsExist ==
    ASSUME NEW method, NEW n \in Nat
    PROVE  \E p : Steps(method, p, n)
<1> DEFINE none == {k \in Nat : ~\E p : Steps(method, p, k)}
<1> SUFFICES ASSUME none # {}
             PROVE  FALSE
  OBVIOUS
<1>1. PICK k \in none : \A m \in none : k <= m
  BY Least
<1>2. k # 0
  <2>1. Steps(method, [i \in {0} |-> Started], 0)
    BY DEF Steps
  <2> QED BY <1>1, <2>1
<1>3. k \in Nat /\ k - 1 \in Nat /\ k - 1 < k /\ ~(k <= k - 1)
  BY <1>2
<1>4. PICK p : Steps(method, p, k - 1)
  BY <1>1, <1>3
<1> DEFINE q == [i \in Nat |-> IF i = k THEN Follow(method, p[k - 1]) ELSE p[i]]
<1>5. \A i \in Nat : q[i] = IF i = k THEN Follow(method, p[k - 1]) ELSE p[i]
  OBVIOUS
<1> HIDE DEF q
<1>6. q[0] = Started
  BY <1>2, <1>4, <1>5 DEF Steps
<1>7. ASSUME NEW i \in Nat, i < k
      PROVE  q[i + 1] = Follow(method, q[i])
  <2>1. i + 1 \in Nat /\ q[i] = p[i]
    BY <1>3, <1>5, <1>7
  <2>2. CASE i = k - 1
    BY <1>3, <1>5, <2>1, <2>2
  <2>3. CASE i # k - 1
    <3>1. i < k - 1 /\ i + 1 # k
      BY <1>3, <1>7, <2>3
    <3> QED BY <1>4, <1>5, <2>1, <3>1 DEF Steps
  <2> QED BY <2>2, <2>3
<1>8. Steps(method, q, k)
  BY <1>6, <1>7 DEF Steps
<1> QED BY <1>1, <1>8

LEMMA StepsAgree ==
    ASSUME NEW method, NEW n \in Nat, NEW m \in Nat, NEW p, NEW q,
           Steps(method, p, n), Steps(method, q, m), NEW k \in Nat, k <= n, k <= m
    PROVE  p[k] = q[k]
<1> DEFINE odd == {i \in Nat : i <= n /\ i <= m /\ p[i] # q[i]}
<1> SUFFICES ASSUME odd # {}
             PROVE  FALSE
  OBVIOUS
<1>1. PICK i \in odd : \A j \in odd : i <= j
  BY Least
<1>2. i # 0
  BY DEF Steps
<1>3. i \in Nat /\ i - 1 \in Nat /\ (i - 1) + 1 = i /\ i - 1 < n /\ i - 1 < m /\ ~(i <= i - 1)
  BY <1>2
<1>4. p[i - 1] = q[i - 1]
  BY <1>1, <1>3
<1>5. p[(i - 1) + 1] = Follow(method, p[i - 1]) /\ q[(i - 1) + 1] = Follow(method, q[i - 1])
  BY <1>3 DEF Steps
<1> QED BY <1>3, <1>4, <1>5

\* The ways through a method are followed step by step, for any number of steps.
LEMMA WaysAre ==
    ASSUME NEW method
    PROVE  /\ Ways(method)[0] = Started
           /\ \A k \in Nat : Ways(method)[k + 1] = Follow(method, Ways(method)[k])
<1> DEFINE such(n) == CHOOSE p : Steps(method, p, n)
           g == [n \in Nat |-> such(n)[n]]
           w == Ways(method)
<1>1. \A n \in Nat : Steps(method, such(n), n)
  BY StepsExist
<1> HIDE DEF such
<1>2. \A n \in Nat : g[n] = such(n)[n]
  OBVIOUS
<1>3. g[0] = Started
  BY <1>1, <1>2 DEF Steps
<1>4. ASSUME NEW k \in Nat, k # 0
      PROVE  g[k] = Follow(method, g[k - 1])
  <2>1. k - 1 \in Nat /\ (k - 1) + 1 = k /\ k - 1 < k /\ k - 1 <= k /\ k - 1 <= k - 1
    BY <1>4
  <2>2. such(k)[(k - 1) + 1] = Follow(method, such(k)[k - 1])
    BY <1>1, <2>1 DEF Steps
  <2>3. such(k)[k - 1] = such(k - 1)[k - 1]
    BY <1>1, <2>1, StepsAgree
  <2> QED BY <1>2, <2>1, <2>2, <2>3
<1>5. g = [k \in Nat |-> IF k = 0 THEN Started ELSE Follow(method, g[k - 1])]
  <2>1. \A k \in Nat : g[k] = IF k = 0 THEN Started ELSE Follow(method, g[k - 1])
    BY <1>3, <1>4
  <2>2. g = [k \in Nat |-> g[k]]
    OBVIOUS
  <2> HIDE DEF g
  <2> QED BY <2>1, <2>2
<1> HIDE DEF g
<1>6. w = [k \in Nat |-> IF k = 0 THEN Started ELSE Follow(method, w[k - 1])]
  BY <1>5 DEF Ways
<1> HIDE DEF w
<1>7. w[0] = Started
  BY <1>6
<1>8. ASSUME NEW k \in Nat
      PROVE  w[k + 1] = Follow(method, w[k])
  <2>1. k + 1 \in Nat /\ k + 1 # 0 /\ (k + 1) - 1 = k
    OBVIOUS
  <2>2. w[k + 1] = Follow(method, w[(k + 1) - 1])
    BY <1>6, <2>1
  <2> QED BY <2>1, <2>2
<1> QED BY <1>7, <1>8 DEF w


\* What a way brings to an instruction is no more than what is kept there.
Heard(some) ==
    \A x \in some : x[1] \in DOMAIN before /\ Shaped(x[2]) /\ Below(x[2], before[x[1]])
Covered(w) == Heard(w.fresh) /\ Heard(w.seen)

LEMMA FollowHeard ==
    ASSUME BodiesAreCode, FlowInv, verdict = "complete", ~Hidden, NEW w, Covered(w)
    PROVE  Covered(Follow(body, w))
<1> DEFINE v == Follow(body, w)
<1>1. \A i \in DOMAIN before : PassedOn(i)
  <2>1. Len(queue) = 0
    BY EmptySeq DEF FlowInv
  <2> QED BY <2>1 DEF FlowInv, Waiting
<1>2. ASSUME NEW x \in w.fresh, NEW j \in Targets(body, x[1])
      PROVE  /\ j \in DOMAIN before /\ Shaped(Carry(body[x[1]], x[2]))
             /\ Below(Carry(body[x[1]], x[2]), before[j])
  <2> DEFINE i == x[1]
             e == Carry(body[i], x[2])
             f == Effect(body[i], before[i])
  <2>1. i \in DOMAIN before /\ Grows(x[2], before[i])
    BY DEF Covered, Heard, Grows, FlowInv
  <2>2. body[i].d \in Reg /\ (body[i].op # "source" => body[i].s \in Reg)
    BY <2>1 DEF FlowInv, BodiesAreCode
  <2>3. ~Hides(body[i], before[i])
    BY <2>1 DEF Hidden, Hides
  <2>4. Grows(e, f)
    BY <2>1, <2>2, <2>3, CarryGrows
  <2>5. j \in DOMAIN before /\ Below(f, before[j])
    BY <1>1, <2>1 DEF PassedOn
  <2> HIDE DEF e, f
  <2>6. Below(e, before[j])
    BY <2>4, <2>5, BelowTransitive DEF Grows
  <2> QED BY <2>4, <2>5, <2>6 DEF Grows, e
<1>3. ASSUME NEW y \in v.fresh
      PROVE  y[1] \in DOMAIN before /\ Shaped(y[2]) /\ Below(y[2], before[y[1]])
  <2>1. PICK x \in w.fresh : \E j \in Targets(body, x[1]) : y = <<j, Carry(body[x[1]], x[2])>>
    BY DEF Follow
  <2>2. PICK j \in Targets(body, x[1]) : y = <<j, Carry(body[x[1]], x[2])>>
    BY <2>1
  <2>3. y[1] = j /\ y[2] = Carry(body[x[1]], x[2])
    BY <2>2
  <2> QED BY <1>2, <2>3
<1>4. v.seen = w.seen \cup v.fresh
  BY DEF Follow
<1> HIDE DEF v
<1> QED BY <1>3, <1>4 DEF Covered, Heard, v

\* However far a way is followed, the analysis has heard of it.
LEMMA AllHeard ==
    ASSUME BodiesAreCode, FlowInv, verdict = "complete", ~Hidden, NEW n \in Nat
    PROVE  Covered(Ways(body)[n])
<1> DEFINE odd == {k \in Nat : ~Covered(Ways(body)[k])}
<1> SUFFICES ASSUME odd # {}
             PROVE  FALSE
  OBVIOUS
<1>1. PICK k \in odd : \A m \in odd : k <= m
  BY Least
<1>2. k # 0
  <2>1. Covered(Started)
    BY EntryShaped DEF Covered, Heard, Started, FlowInv
  <2>2. Ways(body)[0] = Started
    BY WaysAre
  <2> QED BY <1>1, <2>1, <2>2
<1>3. k - 1 \in Nat /\ (k - 1) + 1 = k /\ ~(k <= k - 1)
  BY <1>2
<1>4. Covered(Ways(body)[k - 1])
  BY <1>1, <1>3
<1>5. Covered(Follow(body, Ways(body)[k - 1]))
  BY <1>4, FollowHeard
<1>6. Ways(body)[(k - 1) + 1] = Follow(body, Ways(body)[k - 1])
  BY <1>3, WaysAre
<1> QED BY <1>1, <1>3, <1>5, <1>6

LEMMA NoneForgotten ==
    ASSUME BodiesAreCode, MaxWay \in Nat, FlowInv
    PROVE  NoWayForgotten
<1> SUFFICES ASSUME verdict = "complete", ~Hidden, NEW way \in Executed
             PROVE  Notes(body[way[1]], way[2]) \subseteq noted
  BY DEF NoWayForgotten
<1> DEFINE i == way[1]
<1>1. i \in DOMAIN before /\ Shaped(way[2]) /\ Below(way[2], before[i])
  <2>1. Heard(Executed)
    BY AllHeard DEF Executed, Covered
  <2> QED BY <2>1 DEF Heard
<1>2. Grows(way[2], before[i])
  BY <1>1 DEF Grows, FlowInv
<1>3. body[i].d \in Reg /\ (body[i].op # "source" => body[i].s \in Reg)
  BY <1>1 DEF FlowInv, BodiesAreCode
<1>4. Notes(body[i], way[2]) \subseteq Notes(body[i], before[i])
  BY <1>2, <1>3, NotesGrow
<1>5. Len(queue) = 0
  BY EmptySeq DEF FlowInv
<1>6. Notes(body[i], before[i]) \subseteq noted
  BY <1>1, <1>5 DEF FlowInv, Waiting, PassedOn
<1> QED BY <1>4, <1>6

\* What the analysis of a method that ran to its end has noted covers every
\* way through the method, of any length, unless elements hide an array's
\* value or are read into the register of their array: the worklist of _analyze_local_register_flows may stop when nothing
\* is new, however the ways into an instruction were joined.
THEOREM NoWayIsForgotten ==
    ASSUME BodiesAreCode, MaxWay \in Nat
    PROVE  rfSpec => []NoWayForgotten
<1>1. FlowInv => NoWayForgotten
  BY NoneForgotten
<1> QED BY <1>1, FlowInvariant, PTL

-----------------------------------------------------------------------------
(***************************************************************************)
(* The filters.  Whatever becomes of a heuristic, its outcome counts       *)
(* exactly when it established or imputed something; the providers it asks *)
(* come from a route, which names only those that are allowed.             *)
(***************************************************************************)
Outcomes == {"none", "evaluated", "unavailable", "failed", "not_run"}
Truths == {"none", "off", "lacking", "imputed", "error", "evidence", "masked"}
\* A heuristic counts exactly when it established something, or imputed it.
Fits(outcome, happened) == outcome = "evaluated" <=> happened \in {"evidence", "imputed"}

ReviewInv ==
    /\ setting \in Setting
    /\ left \in Nat /\ kept \in Nat /\ kept + left = Candidates
    /\ layer \in 1 .. 5
    /\ stage \in [LayerSet -> Outcomes]
    /\ score \in [LayerSet -> 0 .. 1000]
    /\ truth \in [LayerSet -> Truths]
    /\ routed \in Seq(Providers)
    /\ asked \subseteq Providers
    /\ \A l \in LayerSet : Fits(stage[l], truth[l])
    /\ \A l \in LayerSet : Fits(last.stage[l], last.truth[l])
    /\ (\A l \in LayerSet : last.stage[l] # "evaluated") => last.priority = 0

\* Only providers that are allowed and have a key are asked, in any task.
LEMMA OneIs == ASSUME NEW name PROVE One(name) \in Seq(Providers)
  BY DEF One

LEMMA RouteIs ==
    ASSUME NEW task \in {"review", "vote"}
    PROVE  Route(task) \in Seq(Providers)
<1>1. Routing["review"] \in Seq(Providers)
  <2> DEFINE a == One("gemini_pro") \o One("deepseek")
             b == a \o One("claude")
  <2>1. a \in Seq(Providers)
    BY OneIs, ConcatProperties
  <2> HIDE DEF a
  <2>2. b \in Seq(Providers)
    BY <2>1, OneIs, ConcatProperties
  <2> QED BY <2>2 DEF Routing, a
<1>2. Routing["vote"] \in Seq(Providers)
  <2> DEFINE a == One("gemini_pro") \o One("openai")
             b == a \o One("grok")
             c == b \o One("deepseek")
             d == c \o One("claude")
  <2>1. a \in Seq(Providers)
    BY OneIs, ConcatProperties
  <2> HIDE DEF a
  <2>2. b \in Seq(Providers)
    BY <2>1, OneIs, ConcatProperties
  <2> HIDE DEF b
  <2>3. c \in Seq(Providers)
    BY <2>2, OneIs, ConcatProperties
  <2> HIDE DEF c
  <2>4. d \in Seq(Providers)
    BY <2>3, OneIs, ConcatProperties
  <2> QED BY <2>4 DEF Routing, a, b, c
<1>3. Configured \in Seq(Providers)
  <2> DEFINE a == One("gemini_flash") \o One("gemini_pro")
             b == a \o One("openai")
             c == b \o One("deepseek")
             d == c \o One("grok")
             e == d \o One("claude")
  <2>1. a \in Seq(Providers)
    BY OneIs, ConcatProperties
  <2> HIDE DEF a
  <2>2. b \in Seq(Providers)
    BY <2>1, OneIs, ConcatProperties
  <2> HIDE DEF b
  <2>3. c \in Seq(Providers)
    BY <2>2, OneIs, ConcatProperties
  <2> HIDE DEF c
  <2>4. d \in Seq(Providers)
    BY <2>3, OneIs, ConcatProperties
  <2> HIDE DEF d
  <2>5. e \in Seq(Providers)
    BY <2>4, OneIs, ConcatProperties
  <2> QED BY <2>5 DEF Configured, a, b, c, d
<1> QED BY <1>1, <1>2, <1>3 DEF Route

\* A verdict that fits what happened is recorded, and the next heuristic follows.
Concluded(l, outcome, happened) ==
    /\ stage' = [stage EXCEPT ![l] = outcome]
    /\ score' \in [LayerSet -> 0 .. 1000]
    /\ truth' = [truth EXCEPT ![l] = happened]
    /\ layer \in 1 .. 4 /\ layer' = layer + 1
    /\ routed' = <<>>
    /\ UNCHANGED <<setting, left, kept, last>>

LEMMA ConcludedKeeps ==
    ASSUME ReviewInv, NEW l \in LayerSet, NEW outcome \in Outcomes, NEW happened \in Truths,
           Fits(outcome, happened), Concluded(l, outcome, happened), asked' \subseteq Providers
    PROVE  ReviewInv'
<1>1. setting' = setting /\ left' = left /\ kept' = kept /\ last' = last
  BY DEF Concluded
<1>2. Providers' = Providers
  BY <1>1 DEF Providers
<1>3. ASSUME NEW m \in LayerSet
      PROVE  Fits(stage'[m], truth'[m])
  <2>1. /\ stage'[m] = IF m = l THEN outcome ELSE stage[m]
        /\ truth'[m] = IF m = l THEN happened ELSE truth[m]
    BY DEF Concluded, ReviewInv
  <2> QED BY <2>1 DEF ReviewInv
<1>4. stage' \in [LayerSet -> Outcomes] /\ truth' \in [LayerSet -> Truths]
  BY DEF Concluded, ReviewInv
<1>5. layer' \in 1 .. 5
  BY DEF Concluded
<1>7. score' \in [LayerSet -> 0 .. 1000]
  BY DEF Concluded
<1>6. routed' \in Seq(Providers)
  BY EmptySeq DEF Concluded
<1> QED BY <1>1, <1>2, <1>3, <1>4, <1>5, <1>6, <1>7 DEF ReviewInv

\* A score that is read by its words, and an outcome without a score.
LEMMA ScoredConcludes ==
    ASSUME ReviewInv, NEW l \in LayerSet, Here(l), NEW value \in 0 .. 1000, NEW words \in BOOLEAN,
           NEW happened, Scored(l, value, words), Passes(l, happened)
    PROVE  Concluded(l, IF words THEN "unavailable" ELSE "evaluated", happened)
<1>1. layer \in 1 .. 4
  BY DEF ReviewInv, Here, Layers
<1>2. score' \in [LayerSet -> 0 .. 1000]
  <2> DEFINE v == IF words THEN 0 ELSE value
  <2>1. v \in 0 .. 1000 /\ score' = [score EXCEPT ![l] = v]
    BY DEF Scored
  <2> HIDE DEF v
  <2> QED BY <2>1 DEF ReviewInv
<1> QED BY <1>1, <1>2 DEF Concluded, Scored, Passes

LEMMA MarkConcludes ==
    ASSUME ReviewInv, NEW l \in LayerSet, Here(l), NEW outcome, NEW happened,
           Mark(l, outcome), Passes(l, happened)
    PROVE  Concluded(l, outcome, happened)
<1>1. layer \in 1 .. 4
  BY DEF ReviewInv, Here, Layers
<1> QED BY <1>1 DEF Concluded, Mark, Passes, ReviewInv

LEMMA ScoredKeeps ==
    ASSUME ReviewInv, NEW l \in LayerSet, Here(l), NEW value \in 0 .. 1000, NEW words \in BOOLEAN,
           NEW happened \in Truths, Scored(l, value, words), Passes(l, happened),
           words <=> happened \notin {"evidence", "imputed"}, asked' \subseteq Providers
    PROVE  ReviewInv'
<1> DEFINE outcome == IF words THEN "unavailable" ELSE "evaluated"
<1>1. Concluded(l, outcome, happened)
  BY ScoredConcludes
<1>2. outcome \in Outcomes /\ Fits(outcome, happened)
  BY DEF Outcomes, Fits
<1> HIDE DEF outcome
<1> QED BY <1>1, <1>2, ConcludedKeeps

Dropped(l, value, happened) == Scored(l, value, TRUE) /\ Passes(l, happened)
Counts(l, value, happened) == Scored(l, value, FALSE) /\ Passes(l, happened)

LEMMA DroppedKeeps ==
    ASSUME ReviewInv, NEW l \in LayerSet, Here(l), NEW value \in 0 .. 1000,
           NEW happened \in Truths \ {"evidence", "imputed"},
           Dropped(l, value, happened), asked' \subseteq Providers
    PROVE  ReviewInv'
<1>1. PICK words \in BOOLEAN : words = TRUE
  OBVIOUS
<1>2. Scored(l, value, words) /\ Passes(l, happened)
  BY <1>1 DEF Dropped
<1> QED BY <1>1, <1>2, ScoredKeeps

LEMMA CountedKeeps ==
    ASSUME ReviewInv, NEW l \in LayerSet, Here(l), NEW value \in 0 .. 1000,
           NEW happened \in {"evidence", "imputed"},
           Counts(l, value, happened), asked' \subseteq Providers
    PROVE  ReviewInv'
<1>1. PICK words \in BOOLEAN : words = FALSE
  OBVIOUS
<1>2. Scored(l, value, words) /\ Passes(l, happened) /\ happened \in Truths
  BY <1>1 DEF Counts, Truths
<1> QED BY <1>1, <1>2, ScoredKeeps

LEMMA MarkKeeps ==
    ASSUME ReviewInv, NEW l \in LayerSet, Here(l), NEW outcome \in Outcomes \ {"evaluated"},
           NEW happened \in Truths \ {"evidence", "imputed"},
           Mark(l, outcome), Passes(l, happened), asked' \subseteq Providers
    PROVE  ReviewInv'
<1>1. Concluded(l, outcome, happened) /\ Fits(outcome, happened)
  BY MarkConcludes DEF Fits
<1> QED BY <1>1, ConcludedKeeps


LEMMA ReachabilityKeeps ==
    ASSUME ReviewInv, CheckReachability
    PROVE  ReviewInv'
<1> DEFINE l == "reachability"
<1>1. Here(l) /\ l \in LayerSet /\ asked' \subseteq Providers
  BY DEF CheckReachability, ReviewInv, LayerSet
<1>2. CASE Mark(l, "failed") /\ Passes(l, "off")
  BY <1>1, <1>2, MarkKeeps DEF Outcomes, Truths
<1>3. CASE Scored(l, 500, TRUE) /\ Passes(l, "lacking")
  <2>1. Dropped(l, 500, "lacking")
    BY <1>3, Zenon DEF Dropped
  <2>2. 500 \in 0 .. 1000 /\ "lacking" \in Truths \ {"evidence", "imputed"}
    BY DEF Truths
  <2> QED BY <1>1, <2>1, <2>2, DroppedKeeps
<1>4. CASE Scored(l, 500, FALSE) /\ Passes(l, "imputed")
  <2>1. Counts(l, 500, "imputed")
    BY <1>4, Zenon DEF Counts
  <2>2. 500 \in 0 .. 1000 /\ "imputed" \in {"evidence", "imputed"}
    BY DEF Truths
  <2> QED BY <1>1, <2>1, <2>2, CountedKeeps
<1>5. ASSUME NEW words \in BOOLEAN, Scored(l, 500, words),
             Passes(l, IF words THEN "lacking" ELSE "imputed")
      PROVE  ReviewInv'
  <2> DEFINE happened == IF words THEN "lacking" ELSE "imputed"
  <2>1. happened \in Truths /\ (words <=> happened \notin {"evidence", "imputed"})
    BY DEF Truths
  <2> HIDE DEF happened
  <2>2. Passes(l, happened)
    BY <1>5 DEF happened
  <2> QED BY <1>1, <1>5, <2>1, <2>2, ScoredKeeps
<1>6. ASSUME NEW count \in {0, 1, 3, 6}, NEW words \in BOOLEAN,
             Scored(l, ReferenceScore(count), words), Passes(l, Established(words))
      PROVE  ReviewInv'
  <2>1. ReferenceScore(count) \in 0 .. 1000
    BY DEF ReferenceScore
  <2>2. Established(words) \in Truths /\ (words <=> Established(words) \notin {"evidence", "imputed"})
    BY DEF Truths, Established
  <2> QED BY <1>1, <1>6, <2>1, <2>2, ScoredKeeps
<1> QED BY <1>2, <1>3, <1>4, <1>5, <1>6 DEF CheckReachability

LEMMA SanitizerKeeps ==
    ASSUME ReviewInv, CheckSanitizer
    PROVE  ReviewInv'
<1> DEFINE l == "sanitizer"
<1>1. Here(l) /\ l \in LayerSet /\ asked' \subseteq Providers
  BY DEF CheckSanitizer, ReviewInv, LayerSet
<1>2. CASE Scored(l, 600, TRUE) /\ Passes(l, "lacking")
  <2>1. Dropped(l, 600, "lacking")
    BY <1>2, Zenon DEF Dropped
  <2>2. 600 \in 0 .. 1000 /\ "lacking" \in Truths \ {"evidence", "imputed"}
    BY DEF Truths
  <2> QED BY <1>1, <2>1, <2>2, DroppedKeeps
<1>3. ASSUME NEW pattern \in {100, 150, 200, 250}, Scored(l, pattern, FALSE), Passes(l, "evidence")
      PROVE  ReviewInv'
  <2>1. Counts(l, pattern, "evidence")
    BY <1>3, Zenon DEF Counts
  <2>2. pattern \in 0 .. 1000 /\ "evidence" \in {"evidence", "imputed"}
    BY DEF Truths
  <2> QED BY <1>1, <2>1, <2>2, CountedKeeps
<1>4. CASE Scored(l, 560, TRUE) /\ Passes(l, "lacking")
  <2>1. Dropped(l, 560, "lacking")
    BY <1>4, Zenon DEF Dropped
  <2>2. 560 \in 0 .. 1000 /\ "lacking" \in Truths \ {"evidence", "imputed"}
    BY DEF Truths
  <2> QED BY <1>1, <2>1, <2>2, DroppedKeeps
<1>5. CASE /\ routed' = Route("review")
           /\ UNCHANGED <<setting, left, layer, stage, score, kept, truth, asked, last>>
  <2>1. routed' \in Seq(Providers) /\ Providers' = Providers
    BY <1>5, RouteIs DEF Providers
  <2> QED BY <1>5, <2>1 DEF ReviewInv
<1> QED BY <1>2, <1>3, <1>4, <1>5 DEF CheckSanitizer

LEMMA AskKeeps ==
    ASSUME ReviewInv, AskSanitizer
    PROVE  ReviewInv'
<1> DEFINE l == "sanitizer"
<1>1. Here(l) /\ l \in LayerSet /\ routed # <<>>
  BY DEF AskSanitizer, LayerSet
<1>2. routed[1] \in Providers /\ Tail(routed) \in Seq(Providers)
  BY <1>1, HeadTailProperties DEF ReviewInv
<1>3. asked' \subseteq Providers
  BY <1>2 DEF AskSanitizer, ReviewInv
<1>4. CASE /\ routed' = Tail(routed)
           /\ UNCHANGED <<setting, left, layer, stage, score, kept, truth, last>>
  <2>1. routed' \in Seq(Providers) /\ Providers' = Providers
    BY <1>2, <1>4 DEF Providers
  <2> QED BY <1>3, <1>4, <2>1 DEF ReviewInv
<1>5. CASE Scored(l, 560, TRUE) /\ Passes(l, "lacking")
  <2>1. Dropped(l, 560, "lacking")
    BY <1>5, Zenon DEF Dropped
  <2>2. 560 \in 0 .. 1000 /\ "lacking" \in Truths \ {"evidence", "imputed"}
    BY DEF Truths
  <2> QED BY <1>1, <1>3, <2>1, <2>2, DroppedKeeps
<1>6. CASE Mark(l, "failed") /\ Passes(l, "error")
  BY <1>1, <1>3, <1>6, MarkKeeps DEF Outcomes, Truths
<1> DEFINE tries == /\ routed' = Tail(routed)
                    /\ UNCHANGED <<setting, left, layer, stage, score, kept, truth, last>>
           lacks == Scored(l, 560, TRUE) /\ Passes(l, "lacking")
           raises == Mark(l, "failed") /\ Passes(l, "error")
           answers == \E model \in {100, 500, 950} :
                        /\ Scored(l, (500 * 4 + model * 6) \div 10, TRUE)
                        /\ Passes(l, Established(TRUE))
<1>7. CASE answers
  <2>0. PICK model \in {100, 500, 950} :
          Scored(l, (500 * 4 + model * 6) \div 10, TRUE) /\ Passes(l, Established(TRUE))
    BY <1>7
  <2> DEFINE value == (500 * 4 + model * 6) \div 10
  <2>1. value \in 0 .. 1000
    <3>1. model \in Nat /\ model <= 950
      OBVIOUS
    <3> QED BY <3>1
  <2> HIDE DEF value
  <2>2. Dropped(l, value, "masked") /\ "masked" \in Truths \ {"evidence", "imputed"}
    BY <2>0 DEF value, Established, Dropped, Truths
  <2> QED BY <1>1, <1>3, <2>1, <2>2, DroppedKeeps
<1>8. tries \/ lacks \/ raises \/ answers
  BY Zenon DEF AskSanitizer
<1>9. (tries => ReviewInv') /\ (lacks => ReviewInv') /\ (raises => ReviewInv')
  BY <1>4, <1>5, <1>6
<1>10. answers => ReviewInv'
  BY <1>7
<1> HIDE DEF tries, lacks, raises, answers
<1> QED BY <1>8, <1>9, <1>10

LEMMA ConsensusKeeps ==
    ASSUME ReviewInv, CheckConsensus
    PROVE  ReviewInv'
<1> DEFINE l == "consensus"
           voters == {Route("vote")[i] : i \in DOMAIN Route("vote") \cap 1 .. 3}
<1>1. Here(l) /\ l \in LayerSet
  BY DEF CheckConsensus, LayerSet
<1>2. voters \subseteq Providers
  <2>1. Route("vote") \in Seq(Providers)
    BY RouteIs
  <2>2. \A i \in DOMAIN Route("vote") : Route("vote")[i] \in Providers
    BY <2>1, LenProperties, ElementOfSeq
  <2> QED BY <2>2
<1>3. asked' \subseteq Providers
  <2>1. asked' = asked \/ asked' = asked \cup voters
    BY DEF CheckConsensus
  <2> HIDE DEF voters
  <2> QED BY <1>2, <2>1 DEF ReviewInv
<1>4. CASE Mark(l, "not_run") /\ Passes(l, "off")
  BY <1>1, <1>3, <1>4, MarkKeeps DEF Outcomes, Truths
<1>5. CASE Mark(l, "unavailable") /\ Passes(l, "lacking")
  BY <1>1, <1>3, <1>5, MarkKeeps DEF Outcomes, Truths
<1>6. ASSUME NEW yes, NEW no, NEW words \in BOOLEAN,
             Scored(l, VoteScore(Cardinality(yes), Cardinality(yes \cup no)), words),
             Passes(l, Established(words))
      PROVE  ReviewInv'
  <2> DEFINE value == VoteScore(Cardinality(yes), Cardinality(yes \cup no))
  <2>1. value \in 0 .. 1000
    BY DEF VoteScore
  <2>2. Established(words) \in Truths /\ (words <=> Established(words) \notin {"evidence", "imputed"})
    BY DEF Truths, Established
  <2>3. Scored(l, value, words)
    BY <1>6
  <2> HIDE DEF value
  <2> QED BY <1>1, <1>3, <1>6, <2>1, <2>2, <2>3, ScoredKeeps
<1>7. CASE Mark(l, "unavailable") /\ Passes(l, Established(TRUE))
  BY <1>1, <1>3, <1>7, MarkKeeps DEF Outcomes, Truths, Established
<1> HIDE DEF voters
<1>8. \/ Mark(l, "not_run") /\ Passes(l, "off")
      \/ \E yes, no \in SUBSET voters :
            \/ Mark(l, "unavailable") /\ Passes(l, "lacking")
            \/ \E words \in BOOLEAN :
                 /\ Scored(l, VoteScore(Cardinality(yes), Cardinality(yes \cup no)), words)
                 /\ Passes(l, Established(words))
            \/ Mark(l, "unavailable") /\ Passes(l, Established(TRUE))
  BY DEF CheckConsensus, voters
<1> QED BY <1>4, <1>5, <1>6, <1>7, <1>8

LEMMA HistoryKeeps ==
    ASSUME ReviewInv, CheckHistory
    PROVE  ReviewInv'
<1>1. Here("historical") /\ "historical" \in LayerSet /\ asked' \subseteq Providers
  BY DEF CheckHistory, ReviewInv, LayerSet
<1>2. Dropped("historical", 500, "lacking")
  BY Zenon DEF CheckHistory, Dropped
<1>3. 500 \in 0 .. 1000 /\ "lacking" \in Truths \ {"evidence", "imputed"}
  BY DEF Truths
<1> QED BY <1>1, <1>2, <1>3, DroppedKeeps

\* No evidence, no weight, no rank.
LEMMA NothingIsLast ==
    ASSUME \A l \in LayerSet : stage[l] # "evaluated"
    PROVE  Priority = 0
<1>1. \A l \in LayerSet : \A value : Counted(l, value) = 0
  BY DEF Counted
<1>2. \A value : Weighed(value) = 0
  BY <1>1 DEF Weighed, LayerSet
<1> QED BY <1>2 DEF Priority

LEMMA RankKeeps ==
    ASSUME ReviewInv, KeepRanked
    PROVE  ReviewInv'
<1>1. /\ setting' = setting /\ routed' = routed /\ asked' = asked
      /\ left > 0 /\ kept' = kept + 1 /\ left' = left - 1 /\ layer' = 1
      /\ stage' = Fresh /\ score' = NoScore /\ truth' = Fresh
      /\ last' = [priority |-> Priority, stage |-> stage, truth |-> truth]
  BY DEF KeepRanked, Ranked
<1>2. Providers' = Providers
  BY <1>1 DEF Providers
<1>3. left' \in Nat /\ kept' \in Nat /\ kept' + left' = Candidates
  BY <1>1 DEF ReviewInv
<1>4. /\ stage' \in [LayerSet -> Outcomes] /\ truth' \in [LayerSet -> Truths]
      /\ score' \in [LayerSet -> 0 .. 1000] /\ layer' \in 1 .. 5
      /\ \A l \in LayerSet : Fits(stage'[l], truth'[l])
  BY <1>1 DEF Fresh, NoScore, Outcomes, Truths, Fits
<1>5. \A l \in LayerSet : Fits(last'.stage[l], last'.truth[l])
  BY <1>1 DEF ReviewInv
<1>6. (\A l \in LayerSet : last'.stage[l] # "evaluated") => last'.priority = 0
  BY <1>1, NothingIsLast
<1> QED BY <1>1, <1>2, <1>3, <1>4, <1>5, <1>6 DEF ReviewInv

LEMMA StartReview ==
    ASSUME Candidates \in Nat, crInit
    PROVE  ReviewInv
<1>1. /\ stage \in [LayerSet -> Outcomes] /\ truth \in [LayerSet -> Truths]
      /\ score \in [LayerSet -> 0 .. 1000] /\ routed \in Seq(Providers)
      /\ \A l \in LayerSet : Fits(stage[l], truth[l])
      /\ \A l \in LayerSet : Fits(last.stage[l], last.truth[l])
      /\ last.priority = 0
  BY DEF crInit, Fresh, NoScore, Unranked, Outcomes, Truths, Fits
<1>2. left \in Nat /\ kept \in Nat /\ kept + left = Candidates /\ layer \in 1 .. 5
      /\ setting \in Setting /\ asked = {}
  BY DEF crInit
<1> QED BY <1>1, <1>2 DEF ReviewInv

LEMMA ReviewStep == ReviewInv /\ [crNext]_crVars => ReviewInv'
<1> SUFFICES ASSUME ReviewInv, [crNext]_crVars PROVE ReviewInv'
  OBVIOUS
<1>1. CASE UNCHANGED crVars
  BY <1>1 DEF crVars, ReviewInv, Providers
<1> QED BY <1>1, ReachabilityKeeps, SanitizerKeeps, AskKeeps, ConsensusKeeps, HistoryKeeps,
           RankKeeps DEF crNext

LEMMA ReviewFollows == ReviewInv => crTypeOK /\ RankedByEvidence
<1>1. ReviewInv => crTypeOK
  <2> SUFFICES ASSUME ReviewInv
               PROVE  crTypeOK
    OBVIOUS
  <2>1. left \in 0 .. Candidates /\ kept \in 0 .. Candidates /\ layer \in 1 .. Len(Layers) + 1
    BY DEF ReviewInv, Layers
  <2>2. asked \subseteq setting.keys
    BY DEF ReviewInv, Providers
  <2> QED BY <2>1, <2>2 DEF ReviewInv, crTypeOK, Outcomes, Truths
<1>2. ReviewInv => RankedByEvidence
  BY DEF ReviewInv, RankedByEvidence, Providers, Fits
<1> QED BY <1>1, <1>2

reviewSpec == crInit /\ [][crNext]_crVars

\* FilterPipeline.filter_findings keeps every candidate, and ranks each by the
\* heuristics that established something, last when there are none; only
\* providers that are approved have been asked, none offline.
THEOREM EveryCandidateRanked ==
    ASSUME Candidates \in Nat
    PROVE  reviewSpec => [](crTypeOK /\ RankedByEvidence)
<1>1. crInit => ReviewInv
  BY StartReview
<1>2. ReviewInv /\ [crNext]_crVars => ReviewInv'
  BY ReviewStep
<1>3. ReviewInv => crTypeOK /\ RankedByEvidence
  BY ReviewFollows
<1> QED BY <1>1, <1>2, <1>3, PTL DEF reviewSpec

-----------------------------------------------------------------------------
(***************************************************************************)
(* The whole analysis.  The parts share no state: each step is a step of   *)
(* one part and leaves the invariants of the others as they are.           *)
(***************************************************************************)
\* There is something to analyse, and what is counted is finite.
AnalysisGiven ==
    /\ GraphGiven /\ BodiesAreCode /\ MaxWay \in Nat /\ Candidates \in Nat
    /\ Bodies # {} /\ Directories # {} /\ Inputs # {} /\ Archives # {}

AnalysisInv ==
    /\ which \in Part
    /\ IInv /\ HeldInv /\ FlowInv /\ CoverageInv /\ BrokerInv /\ ReviewInv /\ EvidenceInv

LEMMA AnalysisStarts == AnalysisGiven /\ AnalysisInit => AnalysisInv
<1> SUFFICES ASSUME AnalysisGiven, AnalysisInit PROVE AnalysisInv
  OBVIOUS
<1>1. which \in Part /\ scInit /\ Init /\ crInit /\ mbInit
  BY DEF AnalysisInit
<1>2. rfInit
  <2>1. Method1 \in Bodies
    BY DEF Method1, AnalysisGiven
  <2>2. PICK b \in IF which = "registers" THEN Bodies ELSE {Method1} : Start(b)
    BY DEF AnalysisInit
  <2>3. b \in Bodies
    BY <2>1, <2>2
  <2> QED BY <2>2, <2>3 DEF rfInit
<1>3. stInit
  <2>1. Package1 \in Directories
    BY DEF Package1, AnalysisGiven
  <2>2. stInit \/ stStart(Package1)
    BY DEF AnalysisInit
  <2> QED BY <2>1, <2>2 DEF stInit
<1>4. exInit
  <2>1. Input1 \in Inputs
    BY DEF Input1, AnalysisGiven
  <2>2. exInit \/ exStart(Input1)
    BY DEF AnalysisInit
  <2> QED BY <2>1, <2>2 DEF exInit
<1>5. irInit
  <2>1. Archive1 \in Archives
    BY DEF Archive1, AnalysisGiven
  <2>2. irInit \/ irStart(Archive1)
    BY DEF AnalysisInit
  <2> QED BY <2>1, <2>2 DEF irInit
<1>6. GraphGiven /\ BodiesAreCode /\ Candidates \in Nat
  BY DEF AnalysisGiven
<1>7. evInit
  BY <1>3, <1>4, <1>5 DEF evInit
<1> QED BY <1>1, <1>2, <1>6, <1>7, InitIInv, HeldStarts, StartFlow, InitCoverageInv, InitBrokerInv, StartReview,
           EvidenceStarts DEF AnalysisInv

LEMMA AnalysisStep == AnalysisGiven /\ AnalysisInv /\ [AnalysisNext]_AnalysisVars => AnalysisInv'
<1> SUFFICES ASSUME AnalysisGiven, AnalysisInv, [AnalysisNext]_AnalysisVars PROVE AnalysisInv'
  OBVIOUS
<1>1. /\ [sfNext]_sfVars /\ [rfNext]_rfVars /\ [scNext]_scVars /\ [mbNext]_mbVars /\ [crNext]_crVars
      /\ [exNext]_exVars /\ [stNext]_stVars /\ [irNext]_irVars /\ which' = which
  BY DEF AnalysisNext, AnalysisVars, Scan, Flow, Registers, Review, Broker, Files, Extract, Iphone
<1>2. /\ GraphGiven /\ BodiesAreCode /\ which \in Part
      /\ IInv /\ HeldInv /\ FlowInv /\ CoverageInv /\ BrokerInv /\ ReviewInv /\ EvidenceInv
  BY DEF AnalysisGiven, AnalysisInv
<1>3. EvidenceInv'
  BY <1>1, <1>2, ExtractionStep, SourceStep, IosStep DEF EvidenceInv
<1> QED BY <1>1, <1>2, <1>3, NextIInv, HeldStep, FlowStep, NextCoverageInv, NextBrokerInv, ReviewStep DEF AnalysisInv

LEMMA AnalysisFollows ==
    ASSUME AnalysisGiven, AnalysisInv
    PROVE  /\ AnalysisTypeOK
           /\ LedgerHonest /\ PhaseTellsTruth /\ FlowsClosed /\ NoWayForgotten /\ RankedByEvidence /\ EgressAccounted
           /\ SourcesFollowed /\ EvidenceHonest
<1>1. /\ BodiesAreCode /\ MaxWay \in Nat /\ which \in Part
      /\ IInv /\ HeldInv /\ FlowInv /\ CoverageInv /\ BrokerInv /\ ReviewInv /\ ExtractionInv /\ SourceInv /\ IosInv
  BY DEF AnalysisGiven, AnalysisInv, EvidenceInv
<1>2. sfTypeOK /\ scTypeOK
  BY <1>1 DEF HeldInv, CoverageInv
<1>3. evTypeOK
  BY <1>1, IosTyped, SourceTypes DEF ExtractionInv, evTypeOK
<1>4. SourcesFollowed /\ EvidenceHonest
  BY <1>1, HonestAtTheEnd, SourcesAtTheEnd, ReviewHonestAtTheEnd DEF EvidenceHonest
<1>5. NoWayForgotten
  BY <1>1, NoneForgotten
<1>6. LedgerHonest /\ PhaseTellsTruth /\ FlowsClosed
  BY <1>1, LedgerFollows, PhaseFollows, IInvFlowsClosed
<1>7. crTypeOK /\ RankedByEvidence /\ mbTypeOK /\ EgressAccounted
  BY <1>1, ReviewFollows, EgressFollows
<1> QED BY <1>1, <1>2, <1>3, <1>4, <1>5, <1>6, <1>7 DEF AnalysisTypeOK

\* Everything that the analysis of a scan says of itself holds in every one of its parts, and no
\* part disturbs what another has recorded (core/orchestrator.py and what it calls).
THEOREM AnalysisTrue ==
    ASSUME AnalysisGiven
    PROVE  AnalysisSpec =>
             [](/\ AnalysisTypeOK
                /\ LedgerHonest /\ PhaseTellsTruth /\ FlowsClosed /\ NoWayForgotten /\ RankedByEvidence /\ EgressAccounted
                /\ SourcesFollowed /\ EvidenceHonest)
<1>1. AnalysisInit => AnalysisInv
  BY AnalysisStarts
<1>2. AnalysisInv /\ [AnalysisNext]_AnalysisVars => AnalysisInv'
  BY AnalysisStep
<1>3. AnalysisInv => /\ AnalysisTypeOK
                     /\ LedgerHonest /\ PhaseTellsTruth /\ FlowsClosed /\ NoWayForgotten /\ RankedByEvidence /\ EgressAccounted
                     /\ SourcesFollowed /\ EvidenceHonest
  BY AnalysisFollows
<1> QED BY <1>1, <1>2, <1>3, PTL DEF AnalysisSpec
=============================================================================
