----------------------------- MODULE MCAnalysis -----------------------------
(***************************************************************************)
(* Values of the constants of Analysis: small applications, methods,       *)
(* settings, sources, packages and archives, with limits that are below,   *)
(* at and above what they need.                                            *)
(***************************************************************************)
EXTENDS Analysis

CONSTANTS m1, m2, m3, t1, t2

\* Methods that read parameters, a field and each other's results, one with a
\* cycle to break, some without a body or too large.
Edge(a, b) == [from |-> a, to |-> b]
Par(m) == <<"param", m, "p0">>
Ret(m) == <<"return", m>>
Fld == <<"field", "f">>
Sink == <<"sink", 1>>
Among(edges) == {[body |-> "code", edges |-> some] : some \in SUBSET edges}
                  \cup {[body |-> b, edges |-> {}] : b \in {"none", "huge"}}
Applications ==
    {(m1 :> x) @@ (m2 :> y) @@ (m3 :> z) :
        x \in Among({Edge(<<"source", t1>>, Par(m2)), Edge(Ret(m2), Sink),
                     Edge(Fld, Ret(m1)), Edge(<<"source", t2>>, Fld)}),
        y \in Among({Edge(Par(m2), Ret(m2)), Edge(Par(m2), Par(m3)),
                     Edge(Ret(m3), Fld), Edge(Ret(m1), Sink)}),
        z \in Among({Edge(Par(m3), Ret(m3)), Edge(Fld, Sink), Edge(Ret(m1), Par(m3))})}

\* Methods of six instructions: a branch, three that move what the parameter v0
\* or a source brings, a sink, and one that may loop, leave or note something.
Op(op, d, s, to) == [op |-> op, d |-> d, s |-> s, to |-> to]
Moves ==
    {Op(op, "v1", "v0", 0) : op \in {"move", "append", "aput"}}
      \cup {Op(op, "v0", "v1", 0) : op \in {"aget", "to_string", "arith"}}
      \cup {Op(op, "v0", "v0", 0) : op \in {"result", "const", "transform", "new_filled"}}
      \cup {Op("sget", "v1", "v1", 0), Op("source", "v0", "t", 0), Op("goto", "v0", "v0", 5)}
Results == {Op("result", "v0", "v0", 0), Op("result", "v1", "v1", 0),
            Op("aget", "v0", "v1", 0), Op("aget", "v1", "v1", 0), Op("fill", "v1", "v1", 0)}
Ends == {Op("if", "v0", "v0", 2), Op("call", "v0", "v0", 0), Op("return", "v0", "v0", 0),
         Op("read", "v1", "v0", 0), Op("sput", "v0", "v1", 0), Op("throw", "v0", "v0", 0)}
Methods ==
    {<<Op("if", "v0", "v0", k), a, b, c, Op("sink", "v0", "v0", 0), e>> :
        k \in {3, 4}, a \in Moves, b \in Moves, c \in Results, e \in Ends}

Brought == [param |-> [v0 |-> {"p"}, v1 |-> {}], field |-> {"f"}, return |-> {"r"}]

\* What the theorem about registers takes for granted is true of these methods.
ASSUME MethodsAreCode == BodiesAreCode

\* Providers with and without keys and approval; a task may find none, some or
\* only one it does not name.
Models == {"gemini_pro", "deepseek", "openai", "grok", "gemini_flash"}
Set(offline, keys, approved, reachability, voting) ==
    [offline |-> offline, keys |-> keys, approved |-> approved,
     reachability |-> reachability, voting |-> voting]
Installed ==
    {Set(TRUE, Models, Models, TRUE, TRUE), Set(FALSE, Models, Models \ {"openai"}, TRUE, TRUE),
     Set(FALSE, {"gemini_flash", "gemini_pro"}, {"gemini_flash"}, FALSE, TRUE), Set(FALSE, {"openai"}, {}, TRUE, TRUE),
     Set(FALSE, {"deepseek"}, Models, TRUE, FALSE)}

\* Files with one or two blocks, where each statement may be the one that binds,
\* cleans or reports; and files of methods that pass their parameters on.
St(op, v, from) == [op |-> op, v |-> v, from |-> from, h |-> <<"f", "A">>]
Declared(v, from) == St("declare", v, from)
Assigned(v, from) == St("assign", v, from)
BlockBegin == St("open", "-", "-")
BlockEnd == St("close", "-", "-")
SinkOf(v) == St("sink", v, "-")
Blocks ==
    {<<a, BlockBegin, b, c, BlockEnd, e, SinkOf("x"), SinkOf("y")>> :
        a \in {Declared("x", f) : f \in {"source", "clean", "nothing"}}
                \cup {Assigned("x", "source"), Declared("y", "source")},
        b \in {Assigned("x", f) : f \in {"source", "clean", "y"}}
                \cup {Declared("y", "source"), Declared("y", "x"), Declared("x", "nothing"), BlockBegin, SinkOf("x")},
        c \in {Assigned("x", f) : f \in {"source", "clean", "y"}}
                \cup {Assigned("y", "x"), Assigned("y", "clean"), Declared("x", "clean")},
        e \in {Assigned("y", "x"), Assigned("x", "y"), BlockEnd, Assigned("x", "clean"), SinkOf("y")}}
Balanced == {b \in Blocks : (b[3] = BlockBegin) = (b[6] = BlockEnd)}
Helping == <<Declared("x", "source"), St("help", "x", "-"), St("help", "y", "-"),
             St("sink_of", "y", "-"), St("sink_of", "x", "-")>>
Storing == <<Assigned("x", "result"), SinkOf("x"), St("help", "x", "-")>>

Calls(name, passes) == [name |-> name, arity |-> 2, passes |-> passes]
Routine(name, owner, arity, sinks, calls, returns) ==
    [name |-> name, owner |-> owner, arity |-> arity, sinks |-> sinks, calls |-> calls, returns |-> returns]
First ==
    {Routine("f", "A", 1, sinks, calls, returns) :
        sinks \in {{}, {1}}, returns \in {"unknown", "source", "parameter"},
        calls \in SUBSET {Calls("g", {<<1, 2>>}), Calls("f", {<<1, 2>>})}}
Second ==
    {Routine(n[1], n[2], 2, sinks, calls, "unknown") :
        n \in {<<"g", "A">>, <<"f", "A">>, <<"g", "B">>}, sinks \in {{}, {2}},
        calls \in {{Calls("h", {p}) : p \in some} :
                      some \in {{}, {<<1, 2>>}, {<<2, 2>>}, {<<2, 1>>}, {<<1, 2>>, <<2, 1>>, <<2, 2>>}}}}
Third ==
    {Routine("h", "A", 2, sinks, calls, "unknown") :
        sinks \in {{}, {2}}, calls \in {{}, {Calls("g", {<<1, 1>>, <<2, 1>>})}, {Calls("h", {<<1, 2>>})}}}
Helpers ==
    {<<a, b, c>> : a \in First, b \in Second, c \in Third}
      \cup {<<a, a>> : a \in First}
      \cup {<<a, b, c, Routine("k", "A", 2, {1, 2}, {}, "unknown")>> :
              a \in {x \in First : x.returns = "unknown"}, b \in {x \in Second : x.owner = "A"}, c \in Third}

Source(java, params, statements, methods) ==
    [java |-> java, params |-> params, body |-> statements, methods |-> methods]
Packages ==
    {<<Source(java, params, b, <<>>)>> : java \in BOOLEAN, params \in {{}, {"y"}}, b \in Balanced}
      \cup {<<Source(FALSE, {}, Storing, methods)>> : methods \in {h \in Helpers : Len(h) = 2 \/ h[2].calls = {}}}
      \cup {<<Source(FALSE, {}, Helping, methods)>> : methods \in Helpers}
      \cup {<<Source(TRUE, {}, Storing, <<m>>)>> : m \in First}
      \cup {<<f, f>> :
              f \in {Source(TRUE, {}, <<Declared("x", "source"), SinkOf("x")>>, <<>>),
                     Source(TRUE, {}, <<Declared("x", "source"), SinkOf("x"), SinkOf("x"), SinkOf("x")>>, <<>>)}}

\* APKs of one or two DEX files with what Apktool may have written, one of them
\* with every short log, some replaced by another or an invalid file; bundles.
Packed(members) == [readable |-> TRUE, members |-> members]
Dex(name, classes) == [name |-> name, header |-> TRUE, classes |-> classes]
Unparsed(d) == [d EXCEPT !.header = FALSE]
Classes == {<<>>, <<"A">>, <<"A", "B">>, <<"A", "A">>, <<"bad">>, <<"A", "B", "C", "D">>}
SomeDex == {Dex("classes.dex", c) : c \in Classes} \cup {Unparsed(Dex("classes.dex", <<"A">>))}
Others == {Dex("classes2.dex", <<"C">>), Dex("classes2.dex", <<"A", "B">>), Dex("classes1.dex", <<"C">>),
           Dex("assets/classes.dex", <<"C">>), Dex("classes.dex", <<"A">>), Unparsed(Dex("classes2.dex", <<"C">>))}
Apks == {<<>>} \cup {<<d>> : d \in SomeDex \cup Others} \cup {<<d, o>> : d \in SomeDex, o \in Others}
Smali(trees, more) == {("smali" :> t) @@ ("smali_classes2" :> u) : t \in trees, u \in more}
Trees ==
    Smali({<<>>, <<<<"A">>>>, <<<<"B">>>>, <<<<"A">>, <<"B">>>>, <<<<"B">>, <<"A">>>>, <<<<"A">>, <<"A">>>>,
           <<<<"A">>, <<"link">>>>, <<<<"A", "B">>>>, <<<<"bad">>>>, <<<<>>>>,
           <<<<"A">>, <<"B">>, <<"C">>, <<"D">>>>},
          {<<<<"C">>>>, <<<<"A">>, <<"B">>>>})
      \cup {[d \in {} |-> <<>>], "smali" :> <<<<"A">>>>, "smali_classes2" :> <<<<"C">>>>}
Quiet == <<"x">>
Texts == (UNION {[1 .. n -> {"n", "x", "e", "h", "t"}] : n \in 0 .. 3})
           \cup {<<"x", "n", "h", "t">>, <<"h", "t", "n", "x">>, <<"x", "x", "x", "x">>, <<"x", "x", "h", "t">>,
                 <<"x", "n", "n", "x", "h", "t">>, <<"x", "h", "x", "x", "e">>}
Input(kind, given, other, tree, apktool, jadx) ==
    [kind |-> kind, given |-> Packed(given), other |-> other, tree |-> tree,
     logs |-> [apktool |-> apktool, jadx |-> jadx]]
Plain == <<Dex("classes.dex", <<"A">>)>>
MemberOf(module, part) == [module |-> module, part |-> part, header |-> TRUE, classes |-> <<"A">>]
Base == <<MemberOf("base", "manifest"), MemberOf("base", "dex")>>
Members == {MemberOf("base", "dex"), Unparsed(MemberOf("base", "dex")), MemberOf("base", "misnamed"),
            MemberOf("feature", "manifest"), MemberOf("feature", "dex"), MemberOf("?", "other"),
            MemberOf("META-INF", "other"), MemberOf("", "other")}
Extractions ==
    {Input("apk", a, Packed(a), t, Quiet, Quiet) : a \in Apks, t \in Trees}
      \cup {Input("apk", Plain, Packed(Plain), "smali" :> <<<<"A">>>>, l, Quiet) : l \in Texts}
      \cup {Input("apk", Plain, o, "smali" :> <<<<"A">>>>, Quiet, l) :
              l \in {Quiet, <<"e", "n">>},
              o \in {Packed(<<Dex("classes.dex", <<"B">>)>>), [readable |-> FALSE, members |-> <<>>]}}
      \cup {Input("bundle", Base \o <<m, o>>, other, <<>>, <<>>, <<>>) :
              m \in Members, o \in Members, other \in {Packed(Base), Packed(<<>>)}}

\* Mach-O files of one or two slices whose commands may be cut, short, outside the
\* file or too many for the limits; archives with up to three frameworks and with
\* manifests that are absent, unreadable, in part unreadable, many or large.
Named(name, fields) == [name |-> name, fields |-> fields]
Section(name, inside, entries) ==
    [type |-> "segment", sized |-> TRUE, name |-> name, inside |-> inside, entries |-> entries]
Segment(name, inside, names) == Section(name, inside, [i \in DOMAIN names |-> Named(names[i], TRUE)])
Table(names) == [type |-> "symtab", sized |-> TRUE, good |-> TRUE, names |-> names]
Library(name) == [type |-> "dylib", sized |-> TRUE, name |-> name]
Stub == [type |-> "stub", sized |-> TRUE]
Segments ==
    {Segment(name, TRUE, names) :
        name \in {"__swift5_types", "__swift5_protos", "__swift5_proto"},
        names \in {<<>>, <<"T">>, <<"T", "T">>, <<"T", "other">>, <<"broken", "T">>, <<"T", "U", "V">>,
                   <<"T", "U", "V", "W">>}}
      \cup {Segment(name, FALSE, <<"T">>) : name \in {"__swift5_types", "__cstring", "__text"}}
      \cup {Section("__swift5_types", TRUE, <<Named("T", FALSE)>>)}
SymbolTables ==
    {Table(names) : names \in {<<>>, <<"s1">>, <<"bad", "s1">>, <<"s2", "s3">>, <<"s1", "s2", "s3">>}}
      \cup {[Table(<<"s1">>) EXCEPT !.good = FALSE]}
Libraries == {Library("l"), Library("bad")}
CutOff == {[Table(<<"s1">>) EXCEPT !.sized = FALSE], Stub}
Slice(cpu, commands) == [bounded |-> TRUE, cpu |-> cpu, entry |-> "arm", region |-> TRUE, cmds |-> commands]
Thin(commands) == [kind |-> "thin64", over |-> FALSE, slices |-> <<Slice("arm", commands)>>]
Fat(slices) == [kind |-> "fat", over |-> FALSE, slices |-> slices]
SingleBinary == {Thin(<<a, b>> \o c) : a \in Segments \cup CutOff, b \in SymbolTables \cup CutOff,
                                 c \in {<<>>} \cup {<<d>> : d \in Libraries \cup {Table(<<"s1">>), Table(<<"s2", "s3">>)} \cup CutOff}}
Slices ==
    {Slice("arm", <<a, b>>) : a \in {x \in Segments : x.name = "__swift5_protos"}, b \in {Table(<<"s1">>)}}
      \cup {Slice("arm", <<b>>) : b \in SymbolTables \cup CutOff} \cup {Slice("x86", <<>>), Slice("none", <<>>)}
      \cup {[Slice("arm", <<Table(<<"s2">>)>>) EXCEPT !.bounded = FALSE],
            [Slice("arm", <<Table(<<"s2">>)>>) EXCEPT !.region = FALSE]}
Small == Thin(<<Table(<<"s1">>)>>)
Binaries ==
    SingleBinary \cup {Fat(<<a, b>>) : a \in Slices, b \in Slices}
      \cup {[Small EXCEPT !.kind = k] : k \in {"thin64be", "thin32", "other"}} \cup {[Small EXCEPT !.over = TRUE], Fat(<<>>)}
Manifest(size, good, entries) == [size |-> size, good |-> good, entries |-> entries]
Absent == Manifest(0, TRUE, <<>>)
Owned == {Absent, Manifest(1, TRUE, <<"A">>), Manifest(1, TRUE, <<"bad", "A">>), Manifest(1, FALSE, <<"A">>),
          Manifest(3, TRUE, <<"B">>), Manifest(1, TRUE, <<"B", "B", "A">>)}
Holdings == {<<>>} \cup {<<m>> : m \in Owned \ {Absent}}
Framework(binary, size, manifests) == [binary |-> binary, size |-> size, manifests |-> manifests]
Embedded ==
    {Framework(b, 1, ms) :
        b \in {Small, Thin(<<Table(<<"s1">>), Stub>>), [Small EXCEPT !.kind = "other"], [Small EXCEPT !.over = TRUE]},
        ms \in Holdings}
      \cup {Framework(Small, 3, ms) : ms \in {<<>>, <<Manifest(1, TRUE, <<"A">>)>>}}
Nested ==
    {Framework(Small, 1, ms) : ms \in {<<Manifest(1, TRUE, <<"B">>), Manifest(1, TRUE, <<"A">>)>>,
                                      <<Manifest(1, TRUE, <<"A", "B">>), Manifest(1, TRUE, <<"C">>)>>,
                                      <<Manifest(1, TRUE, <<"B", "C">>)>>}}
Ios(binary, own, frameworks, reach) ==
    [shape |-> "application", binary |-> binary, manifest |-> own, frameworks |-> frameworks, reach |-> reach]
Bundles ==
    {<<f, g>> : f \in Embedded, g \in Embedded} \cup {<<f>> : f \in Embedded \cup Nested} \cup {<<>>}
      \cup {<<f, g, g>> : f \in Embedded, g \in {Framework(Small, 1, <<>>), Framework(Small, 1, <<Manifest(1, TRUE, <<"A">>)>>)}}
IosArchives ==
    {Ios(Small, m, fs, Len(fs)) : m \in {n \in Owned : n.good}, fs \in Bundles}
      \cup {Ios(Small, m, fs, 0) : m \in Owned, fs \in {<<>>} \cup {<<f>> : f \in Embedded}}
      \cup {[Ios(Small, m, <<>>, 0) EXCEPT !.shape = "other"] : m \in Owned}
      \cup {Ios(b, m, <<>>, 0) : b \in Binaries, m \in {Absent, Manifest(1, TRUE, <<"A">>)}}

Marks == [s1 |-> "A", s2 |-> "B"]
=============================================================================
