---------------------------- MODULE SourceTaint ----------------------------
(***************************************************************************)
(* Taint in Java and Kotlin sources: TaintEngine.analyze_directory.  A file *)
(* is read twice, statement by statement with a stack of bindings for each *)
(* variable, and, if it is Java and parses, as a tree in which a block may *)
(* or may not be executed.  Methods of the same file are summarised: which *)
(* parameters they carry to a sink, also through each other, and whether   *)
(* they return a source or what they were given.                           *)
(*                                                                         *)
(* A statement is a record: open and close of a block, declare and assign  *)
(* of v from something, sink with v, help (v is passed to the method h),   *)
(* and sink_of (a sink with what h returns for v).  Something is a source, *)
(* clean, another variable, the result of the method h, or, in a           *)
(* declaration, nothing.                                                   *)
(***************************************************************************)
EXTENDS Integers, Sequences, SequencesExt, FiniteSetsExt, Functions

CONSTANTS
    Directories,    \* sequences of files: [java, params, body, methods]
    Var,            \* variables, fields among them
    MaxSummaries,   \* MAX_PARAMETER_SINK_SUMMARIES
    MaxRounds,      \* MAX_PARAMETER_SUMMARY_ROUNDS
    MaxCandidates   \* findings of one application

\* The nesting after i statements, counted from the block of the method.
Depth(body, i) ==
    Cardinality({k \in 1 .. i : body[k].op = "open"})
      - Cardinality({k \in 1 .. i : body[k].op = "close"})

Statement ==
    {s \in [op : {"open", "close", "declare", "assign", "sink", "help", "sink_of"},
            v : STRING, from : STRING, h : Seq(STRING)] :
        /\ s.op \notin {"open", "close"} => s.v \in Var
        /\ s.op = "assign" => s.from # "nothing"}
Call == [name : STRING, arity : Nat, passes : SUBSET (Nat \X Nat)]
MethodDeclaration ==
    {m \in [name : STRING, owner : STRING, arity : Nat, sinks : SUBSET Nat, calls : SUBSET Call,
            returns : {"unknown", "source", "parameter"}] :
        /\ m.sinks \subseteq 1 .. m.arity /\ IsFiniteSet(m.calls)
        /\ \A call \in m.calls : call.passes \subseteq (1 .. m.arity) \X (1 .. call.arity)}
SourceFile ==
    {f \in [java : BOOLEAN, params : SUBSET Var, body : Seq(Statement), methods : Seq(MethodDeclaration)] :
        \A i \in DOMAIN f.body : Depth(f.body, i) >= 0}
ASSUME SourceInputs ==
    /\ Directories \subseteq Seq(SourceFile)
    /\ Var \subseteq STRING \ {"source", "clean", "nothing", "result"}
    /\ MaxSummaries \in Nat /\ MaxRounds \in Nat \ {0} /\ MaxCandidates \in Nat

VARIABLES
    sources,        \* the directory
    number,         \* the file that is read
    step,           \* what is done with it next
    summaries,      \* which parameters of its methods reach a sink
    rounds,
    reports,        \* the findings: <<file, statement>>
    parsed,         \* files the parser read
    limits,         \* limit_reasons
    failures,       \* analysis_failures
    claimed         \* static_status

stVars == <<sources, number, step, summaries, rounds, reports, parsed, limits, failures, claimed>>

stStart(files) ==
    /\ sources = files
    /\ number = 1 /\ step = "read"
    /\ summaries = {} /\ rounds = 0
    /\ reports = {} /\ parsed = {} /\ limits = {} /\ failures = {}
    /\ claimed = "none"
stInit == \E files \in Directories : stStart(files)

-----------------------------------------------------------------------------
(***************************************************************************)
(* Parameters that reach a sink.  A method is [name, owner, arity, sinks,  *)
(* calls, returns]; a call [name, arity, passes] hands on parameters as    *)
(* they are, to a method of the same class.                                *)
(***************************************************************************)
Carrier(m, param) == [name |-> m.name, owner |-> m.owner, arity |-> m.arity, param |-> param]
Callee(m, call, param) ==
    [name |-> call.name, owner |-> m.owner, arity |-> call.arity, param |-> param]

\* Argument types are not resolved: of overloads of the same arity none counts.
Single(methods, e) ==
    \A i, j \in {k \in DOMAIN methods : /\ methods[k].name = e.name
                                        /\ methods[k].owner = e.owner
                                        /\ methods[k].arity = e.arity} : i = j

Direct(methods) == UNION {{Carrier(m, p) : p \in m.sinks} : m \in Range(methods)}

\* What the calls of m add to what is known; a callee of the same name is
\* passed over.
Forwarded(m, known) ==
    UNION {{Carrier(m, pass[1]) : pass \in {p \in call.passes : Callee(m, call, p[2]) \in known}} :
            call \in {c \in m.calls : c.name # m.name}}
\* As many of them as there is room for.
Some(new, room) ==
    IF Cardinality(new) <= room THEN new ELSE CHOOSE some \in SUBSET new : Cardinality(some) = room
RoomFor(new, known) == Some(new, MaxSummaries - Cardinality(known))

Round(methods, known) ==
    LET after[i \in 0 .. Len(methods)] ==
          IF i = 0 THEN known
          ELSE LET all == after[i - 1]
               IN IF Single(methods, methods[i])
                  THEN all \cup RoomFor(Forwarded(methods[i], all) \ all, all) ELSE all
    IN after[Len(methods)]
\* A candidate was left out for want of room.
NoRoom(methods, known) ==
    /\ Cardinality(known) = MaxSummaries
    /\ \E m \in Range(methods) : Single(methods, m) /\ ~(Forwarded(m, known) \subseteq known)

\* What a method returns, when its name is the only one in the file.
Returns(methods, h) ==
    LET named == {i \in DOMAIN methods : methods[i].name = h[1]}
    IN IF Cardinality(named) = 1 /\ \A i \in named : methods[i].owner = h[2]
         THEN methods[CHOOSE i \in named : TRUE].returns
       ELSE "unknown"

-----------------------------------------------------------------------------
(***************************************************************************)
(* The statements in order.  A variable has a stack of bindings of growing *)
(* depth, given by the depths and which of them are tainted.               *)
(***************************************************************************)
Visible(stack) == stack.at # {} /\ Max(stack.at) \in stack.tainted

\* A declaration binds where it stands; an assignment what is bound already,
\* or else where it stands.
Bind(stack, depth, declared, tainted) ==
    LET d == IF declared \/ stack.at = {} THEN depth ELSE Max(stack.at)
    IN [at |-> stack.at \cup {d},
        tainted |-> IF tainted THEN stack.tainted \cup {d} ELSE stack.tainted \ {d}]

\* (mutant) a binding outlives its block
PruneNothing(stack, depth) == stack
Prune(stack, depth) ==
    [at |-> {d \in stack.at : d <= depth}, tainted |-> {d \in stack.tainted : d <= depth}]

Seen(bound, v) == v \in Var /\ Visible(bound[v])
LexicalStep(body, bound, i) ==
    LET s == body[i]
    IN CASE s.op = "close" -> [v \in Var |-> Prune(bound[v], Depth(body, i) + 1)]
         [] s.op \in {"declare", "assign"} /\ s.from # "nothing" ->
              [bound EXCEPT ![s.v] =
                 Bind(@, Depth(body, i) + 1, s.op = "declare", s.from = "source" \/ Seen(bound, s.from))]
         [] OTHER -> bound
\* The bindings after each statement.  Parameters the framework fills are bound
\* outside the body.
Unbound == [at |-> {}, tainted |-> {}]
Filled == [at |-> {0}, tainted |-> {0}]
Bindings(file) ==
    LET after[i \in 0 .. Len(file.body)] ==
          IF i = 0 THEN [v \in Var |-> IF v \in file.params THEN Filled ELSE Unbound]
          ELSE LexicalStep(file.body, after[i - 1], i)
    IN after

\* Whether a sink is reached, by a variable or by what a method returns, and
\* whether a method takes it there.
AtSink(methods, seen, s) ==
    \/ s.op = "sink" /\ seen
    \/ s.op = "sink_of" /\ (Returns(methods, s.h) = "source" \/ (Returns(methods, s.h) = "parameter" /\ seen))
Helper(s) == [name |-> s.h[1], owner |-> s.h[2], arity |-> 1, param |-> 1]
LexicalSites(file, known) ==
    LET bindings == Bindings(file)
    IN {i \in DOMAIN file.body :
          LET s == file.body[i]
              seen == Seen(bindings[i - 1], s.v)
          IN AtSink(file.methods, seen, s) \/ (s.op = "help" /\ seen /\ Helper(s) \in known)}

-----------------------------------------------------------------------------
(***************************************************************************)
(* The tree: a block works on a copy, and what it leaves in the variables  *)
(* known before it is joined with what they had.                           *)
(***************************************************************************)
\* The block that j stands in, or opens, is still open after i.
Around(body, j, i) == \A k \in j .. i : Depth(body, k) >= Depth(body, j)
\* Where the block begins that ends with i, and what it declares.
Opening(body, i) ==
    Max({o \in 1 .. i - 1 : body[o].op = "open" /\ Around(body, o, i - 1)})
DeclaredIn(body, o, i) ==
    {body[j].v : j \in {k \in o .. i : body[k].op = "declare" /\ Depth(body, k) = Depth(body, o)}}

Put(env, v, tainted) ==
    [known |-> env.known \cup {v}, tainted |-> IF tainted THEN env.tainted \cup {v} ELSE env.tainted \ {v}]
TraceFor(env, s) == s.from = "source" \/ s.from \in env.tainted
Merged(body, before, env, i) ==
    [before EXCEPT !.tainted =
       @ \cup ((env.tainted \ DeclaredIn(body, Opening(body, i), i)) \cap before.known)]
Environments(file) ==
    LET body == file.body
        after[i \in 0 .. Len(body)] ==
          IF i = 0 THEN [known |-> file.params, tainted |-> file.params]
          ELSE CASE body[i].op = "close" ->
                      Merged(body, after[Opening(body, i) - 1], after[i - 1], i)
                 [] body[i].op \in {"declare", "assign"} ->
                      Put(after[i - 1], body[i].v, TraceFor(after[i - 1], body[i]))
                 [] OTHER -> after[i - 1]
    IN after
AstSites(file) ==
    LET environments == Environments(file)
    IN {i \in DOMAIN file.body :
          file.body[i].op = "sink" /\ file.body[i].v \in environments[i - 1].tainted}

-----------------------------------------------------------------------------
File == sources[number]

Read ==
    /\ step = "read" /\ number <= Len(sources)
    /\ LET direct == Direct(File.methods)
       IN /\ summaries' = {e \in Some(direct, MaxSummaries) : Single(File.methods, e)}
          /\ rounds' = 0
          /\ IF Cardinality(direct) >= MaxSummaries
               THEN limits' = limits \cup {"summary_count"} /\ step' = "statements"
             ELSE UNCHANGED limits /\ step' = "forward"
    /\ UNCHANGED <<sources, number, reports, parsed, failures, claimed>>

\* As many rounds as there are methods, or the limit: a change in the last one
\* is noted.
Forward ==
    /\ step = "forward"
    /\ LET after == Round(File.methods, summaries)
           last == rounds + 1 >= Min({Len(File.methods), MaxRounds})
           noted == (IF after # summaries /\ last THEN {"summary_rounds"} ELSE {})
                      \cup (IF NoRoom(File.methods, after) THEN {"summary_count"} ELSE {})
       IN /\ summaries' = after
          /\ limits' = limits \cup noted
          /\ step' = IF after = summaries \/ last THEN "statements" ELSE "forward"
    /\ rounds' = rounds + 1
    /\ UNCHANGED <<sources, number, reports, parsed, failures, claimed>>

\* Both readings, their findings as one list, cut at the limit, which ends the
\* directory.  The parser may be missing, or refuse the file.
Analyze(parses) ==
    /\ step = "statements"
    /\ parses => File.java
    /\ LET sites == LexicalSites(File, summaries) \cup (IF parses THEN AstSites(File) ELSE {})
           new == {<<number, i>> : i \in sites}
           room == MaxCandidates - Cardinality(reports)
       IN \E kept \in SUBSET new :
            /\ IF Cardinality(new) < room
                 THEN kept = new /\ number' = number + 1 /\ UNCHANGED limits
               ELSE /\ Cardinality(kept) = room
                    /\ number' = Len(sources) + 1
                    /\ limits' = limits \cup {"candidate_count"}
            /\ reports' = reports \cup kept
    /\ parsed' = IF parses THEN parsed \cup {number} ELSE parsed
    /\ step' = "read"
    /\ UNCHANGED <<sources, summaries, rounds, failures, claimed>>
AnalyzeFile == \E parses \in BOOLEAN : Analyze(parses)

\* An exception anywhere in a file: what was found in it is lost.
FileFails ==
    /\ step = "statements"
    /\ failures' = failures \cup {number}
    /\ number' = number + 1 /\ step' = "read"
    /\ UNCHANGED <<sources, summaries, rounds, reports, parsed, limits, claimed>>

Conclude ==
    /\ step = "read" /\ number > Len(sources) /\ claimed = "none"
    /\ claimed' = IF limits # {} \/ failures # {} THEN "partial" ELSE "analyzed"
    /\ UNCHANGED <<sources, number, step, summaries, rounds, reports, parsed, limits, failures>>

stNext == Read \/ Forward \/ AnalyzeFile \/ FileFails \/ Conclude

stSpec == stInit /\ [][stNext]_stVars

-----------------------------------------------------------------------------
(***************************************************************************)
(* What executions do, without the stacks and copies above.  A variable is *)
(* told by its name and its home, the declaration in whose scope the name  *)
(* stands, or 0 for a parameter or a field.  An execution leaves out some  *)
(* blocks, and holds a set of tainted variables after each statement.      *)
(***************************************************************************)
Home(body, v, i) ==
    Max({0} \cup {j \in 1 .. i : body[j].op = "declare" /\ body[j].v = v /\ Around(body, j, i)})
PassedOver(body, out, i) == \E o \in out : o <= i /\ Around(body, o, i - 1)
Holds(body, held, v, i) == <<v, Home(body, v, i)>> \in held

Tainting(file, held, i) ==
    LET s == file.body[i]
    IN \/ s.from = "source" \/ Holds(file.body, held, s.from, i - 1)
       \/ s.from = "result" /\ Returns(file.methods, s.h) = "source"
Execution(file, out) ==
    LET body == file.body
        after[i \in 0 .. Len(body)] ==
          IF i = 0 THEN file.params \X {0}
          ELSE LET held == after[i - 1]
                   it == <<body[i].v, Home(body, body[i].v, i)>>
               IN IF body[i].op \notin {"declare", "assign"} \/ PassedOver(body, out, i) THEN held
                  ELSE IF Tainting(file, held, i) THEN held \cup {it} ELSE held \ {it}
    IN after

\* The parameters the methods of a class carry to a sink, calls included: they are
\* in every set that has the direct ones and is closed under calls.
Carriers(methods) == UNION {{Carrier(m, p) : p \in 1 .. m.arity} : m \in Range(methods)}
Closed(methods, S) ==
    \A m \in Range(methods) : \A call \in m.calls : \A pass \in call.passes :
        Callee(m, call, pass[2]) \in S => Carrier(m, pass[1]) \in S
Carried(methods, e) ==
    \A S \in SUBSET Carriers(methods) : Direct(methods) \subseteq S /\ Closed(methods, S) => e \in S

\* The statements where tainted data arrives at a sink in some execution.
Arrives(file, held, i) ==
    LET s == file.body[i]
        seen == Holds(file.body, held, s.v, i - 1)
    IN AtSink(file.methods, seen, s) \/ (s.op = "help" /\ seen /\ Carried(file.methods, Helper(s)))
Reached(file, executions) ==
    {i \in DOMAIN file.body :
        \E out \in executions : ~PassedOver(file.body, out, i) /\ Arrives(file, Execution(file, out)[i - 1], i)}
EveryBlock == {{}}
AnyBlocks(body) == SUBSET {i \in DOMAIN body : body[i].op = "open"}

\* A variable without a value, a field or a parameter gets its first value in a
\* block: its binding ends with the block.  A variable that was declared is
\* known to the tree.
InUse(file, v, i, valued) ==
    \/ v \in file.params
    \/ \E j \in 1 .. i : /\ file.body[j].op \in {"declare", "assign"} /\ file.body[j].v = v
                         /\ valued => file.body[j].from # "nothing"
                         /\ Around(file.body, j, i)
FirstOutside(file, valued) ==
    \A i \in DOMAIN file.body :
        file.body[i].op = "assign" /\ Depth(file.body, i) > 0 => InUse(file, file.body[i].v, i - 1, valued)
\* A declaration without a value of a name that is in use: the statements bind
\* nothing, and take the name for the other variable.
HiddenUnvalued(file) ==
    \E i \in DOMAIN file.body :
        file.body[i].op = "declare" /\ file.body[i].from = "nothing" /\ InUse(file, file.body[i].v, i - 1, FALSE)
\* A block that declares a name after it has assigned another variable of that name:
\* the tree takes all it leaves for its own.
HiddenLater(file) ==
    \E j \in DOMAIN file.body : \E i \in 1 .. j :
        /\ file.body[j].op = "declare" /\ Depth(file.body, j) > 0
        /\ file.body[i].op = "assign" /\ file.body[i].v = file.body[j].v
        /\ \A k \in i .. j : Depth(file.body, k) >= Depth(file.body, j)
\* What a method returns is followed into a sink, but not into a variable.
StoresResult(file) == \E i \in DOMAIN file.body : file.body[i].from = "result"
\* Overloads, of which one may hand on to the other, and methods that call themselves
\* with a parameter in another's place.
Overloaded(file) ==
    \E i, j \in DOMAIN file.methods :
        /\ i # j /\ file.methods[i].name = file.methods[j].name
        /\ file.methods[i].owner = file.methods[j].owner
Turns(file) ==
    \E m \in Range(file.methods) : \E call \in m.calls : \E pass \in call.passes :
        call.name = m.name /\ call.arity = m.arity /\ pass[1] # pass[2]

-----------------------------------------------------------------------------
stTypeOK ==
    /\ number \in 1 .. Len(sources) + 1
    /\ step \in {"read", "forward", "statements"}
    /\ Cardinality(summaries) <= MaxSummaries /\ Cardinality(reports) <= MaxCandidates
    /\ rounds \in 0 .. MaxRounds
    /\ parsed \cup failures \subseteq DOMAIN sources /\ parsed \cap failures = {}
    /\ claimed \in {"none", "partial", "analyzed"}

(* Every file whose analysis counts as complete was read for what its         *)
(* statements do: the findings are exactly the sinks that tainted data        *)
(* reaches when every block is executed once ("Straight-line lexical           *)
(* heuristic", taint_engine.py:1502), and, where the parser read it, also     *)
(* those it reaches when any block is left out ("path_insensitive",           *)
(* java_ast_taint.py:373), along calls between the methods of a class of any  *)
(* depth.  A limit or an exception that cost something makes the status       *)
(* partial.  Not found: variables that get their first value in a block, the  *)
(* results of methods that are stored, calls among overloads, and parameters  *)
(* that change places in a call of a method by itself (:1083).  Read wrongly: *)
(* names that are hidden by a declaration without a value, or, in the tree,   *)
(* after they were assigned in its block.  Paths that skip a statement        *)
(* without braces or go round a loop twice are not claimed.                   *)
Followed(file, found, tree) ==
    LET all == Reached(file, EveryBlock)
        some == {i \in Reached(file, AnyBlocks(file.body)) : file.body[i].op = "sink"}
    IN /\ ~HiddenUnvalued(file) => found \subseteq all \cup (IF tree THEN some ELSE {})
       /\ FirstOutside(file, TRUE) /\ ~HiddenUnvalued(file) /\ ~StoresResult(file)
            /\ ~Overloaded(file) /\ ~Turns(file) => all \subseteq found
       /\ tree /\ FirstOutside(file, FALSE) /\ ~HiddenLater(file) /\ ~StoresResult(file) => some \subseteq found
SourcesFollowed ==
    claimed = "analyzed" =>
        \A n \in DOMAIN sources :
            Followed(sources[n], {i \in DOMAIN sources[n].body : <<n, i>> \in reports}, n \in parsed)
=============================================================================
