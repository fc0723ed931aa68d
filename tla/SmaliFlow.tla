----------------------------- MODULE SmaliFlow -----------------------------
(***************************************************************************)
(* Taint across the methods of an application's smali: the worklist of     *)
(* SmaliCallGraphEngine.build_graph.  Each run of a method takes what is   *)
(* known to reach its parameters, the static fields it reads and the       *)
(* results of the methods it calls, and adds what it passes on; whoever    *)
(* may see a new fact is put back on the worklist.  What one run finds     *)
(* inside a method (module RegisterFlow) is here a set of edges from       *)
(* places to places.                                                       *)
(***************************************************************************)
EXTENDS Naturals, FiniteSets

CONSTANTS
    Method,       \* self.methods: the methods that were parsed
    Trace,        \* the sources: API results and parameters the framework fills
    Programs,     \* the applications: what each method does
    MaxRuns,      \* MAX_INTERPROCEDURAL_METHOD_RUNS
    MaxFacts,     \* MAX_INTERPROCEDURAL_TAINT_FACTS
    MaxFlows      \* how many flows are kept

VARIABLES
    code,         \* the application
    worklist,     \* the methods to run; the order of the deque is left open
    taints,       \* parameter_taints, static_field_taints, method_return_taints
    waiting,      \* static_field_readers and return_callers
    found,        \* local_register_flows: which trace reaches which sink
    runs,         \* interprocedural_runs
    limited,      \* interprocedural_limited
    skipped,      \* local_register_methods_skipped
    status        \* running, or what the coverage says in the end

sfVars == <<code, worklist, taints, waiting, found, runs, limited, skipped, status>>

\* A place is <<"param", method, register>>, <<"field", field>> or
\* <<"return", method>>; an edge leads from a place or a <<"source", trace>>
\* to a place or a <<"sink", sink>>.
Kind(place) == place[1]

\* A method looks at its own parameters, at fields and at results.
WellFormed(program) ==
    \A m \in Method : \A edge \in program[m].edges :
        \/ Kind(edge.from) = "source"
        \/ Kind(edge.from) = "param" /\ edge.from[2] = m
        \/ Kind(edge.from) \in {"field", "return"}

ASSUME ProgramsAssumption == \A program \in Programs : WellFormed(program)

Init ==
    /\ code \in Programs
    /\ worklist = Method
    /\ taints = {}
    /\ waiting = {}
    /\ found = {}
    /\ runs = 0
    /\ limited = FALSE
    /\ skipped = {}
    /\ status = "running"

-----------------------------------------------------------------------------
Carries(edge, trace, known) ==
    IF Kind(edge.from) = "source" THEN edge.from[2] = trace
    ELSE <<edge.from, trace>> \in known

\* _analyze_local_register_flows: everything the method passes on.
Flows(m, known) ==
    UNION {{<<edge.to, trace>> : trace \in {t \in Trace : Carries(edge, t, known)}}
           : edge \in code[m].edges}
Reported(m, known) == {fact \in Flows(m, known) : Kind(fact[1]) = "sink"}
Passed(m, known) == {fact \in Flows(m, known) : Kind(fact[1]) # "sink"}

\* The fields it reads and the methods it calls.
Watched(m) ==
    {edge.from : edge \in {x \in code[m].edges : Kind(x.from) \in {"field", "return"}}}

\* Arguments are stored first, then fields, then results.
Rank(fact) == IF Kind(fact[1]) = "param" THEN 1 ELSE IF Kind(fact[1]) = "field" THEN 2 ELSE 3
\* (mutant) the limits are looked at only when the run begins
StoredFreely(new, room) == {new}
\* All of them, or as many as there is room for.
Stored(new, room) ==
    IF Cardinality(new) <= room THEN {new}
    ELSE {s \in SUBSET new : /\ Cardinality(s) = room
                             /\ \A x \in s, y \in new \ s : Rank(x) <= Rank(y)}

\* Who has to run again: the method whose parameter it is, and who waits for it.
\* (mutant) a result wakes nobody
WokenDeaf(stored, registered) ==
    {n \in Method : \E fact \in stored :
        \/ Kind(fact[1]) = "param" /\ fact[1][2] = n
        \/ Kind(fact[1]) = "field" /\ <<fact[1], n>> \in registered}
Woken(stored, registered) ==
    {n \in Method : \E fact \in stored :
        \/ Kind(fact[1]) = "param" /\ fact[1][2] = n
        \/ <<fact[1], n>> \in registered}

-----------------------------------------------------------------------------
Going == status = "running" /\ runs < MaxRuns

\* One turn of the loop; readers and callers are registered before the facts
\* of the same run are stored, so a method may wake itself.
Run(m) ==
    /\ Going /\ m \in worklist
    /\ code[m].body = "code"
    /\ LET reported == Reported(m, taints) \ found
           new == Passed(m, taints) \ taints
           registered == waiting \cup {<<place, m>> : place \in Watched(m)}
       IN /\ waiting' = registered
          /\ \E kept \in Stored(reported, MaxFlows - Cardinality(found)),
                stored \in Stored(new, MaxFacts - Cardinality(taints)) :
               /\ found' = found \cup kept
               /\ taints' = taints \cup stored
               /\ worklist' = (worklist \ {m}) \cup Woken(stored, registered)
               /\ limited' = (limited \/ kept # reported \/ stored # new)
    /\ runs' = runs + 1
    /\ UNCHANGED <<code, skipped, status>>

\* More than 20000 instructions.
Skip(m) ==
    /\ Going /\ m \in worklist
    /\ code[m].body = "huge"
    /\ worklist' = worklist \ {m}
    /\ skipped' = skipped \cup {m}
    /\ runs' = runs + 1
    /\ UNCHANGED <<code, taints, waiting, found, limited, status>>

\* No instructions, as in an abstract or a native method: two results are
\* returned where six are unpacked, and the exception ends the call graph.
Raise(m) ==
    /\ Going /\ m \in worklist
    /\ code[m].body = "none"
    /\ status' = "raised"
    /\ UNCHANGED <<code, worklist, taints, waiting, found, runs, limited, skipped>>

Finish ==
    /\ status = "running"
    /\ worklist = {} \/ runs = MaxRuns
    /\ status' = IF limited \/ worklist # {} \/ skipped # {} THEN "partial" ELSE "bounded"
    /\ UNCHANGED <<code, worklist, taints, waiting, found, runs, limited, skipped>>

sfNext ==
    \/ \E m \in Method : Run(m) \/ Skip(m) \/ Raise(m)
    \/ Finish

sfSpec == Init /\ [][sfNext]_sfVars

-----------------------------------------------------------------------------
\* Types, and the limits on what the analysis holds in memory.
sfTypeOK ==
    /\ WellFormed(code)
    /\ worklist \subseteq Method /\ skipped \subseteq Method
    /\ \A fact \in taints : Kind(fact[1]) # "sink" /\ fact[2] \in Trace
    /\ \A fact \in found : Kind(fact[1]) = "sink" /\ fact[2] \in Trace
    /\ Cardinality(taints) <= MaxFacts
    /\ Cardinality(found) <= MaxFlows
    /\ \A w \in waiting : w[2] \in Method
    /\ runs \in 0 .. MaxRuns
    /\ limited \in BOOLEAN
    /\ status \in {"running", "raised", "partial", "bounded"}

\* When the coverage claims no more than the bounds of the model, nothing is
\* left to find within them: whatever a method passes on of what is known is
\* known, and every flow into a sink is reported.  That takes an application
\* in which every method has a body, and none too large.
FlowsClosed ==
    status = "bounded" =>
        \A m \in Method :
            /\ Flows(m, taints) \subseteq taints \cup found
            /\ code[m].body = "code"

=============================================================================
