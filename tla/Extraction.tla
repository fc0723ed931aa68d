---------------------------- MODULE Extraction ----------------------------
(***************************************************************************)
(* The extraction of one APK (src/mobileag/ingestion/apk_extractor.py) and *)
(* the inventory of one App Bundle (aab_inventory.py).  The file is hashed, *)
(* validated, read by two external tools and counted; it may be replaced   *)
(* once, at any time.  A tool's log arrives in chunks while the tool runs  *)
(* and is read up to a limit.  What the tools write is arbitrary.          *)
(*                                                                         *)
(* Bytes: a class is a name, "bad" where the tables or the encoding of the *)
(* DEX file or the directive give no valid descriptor; a Smali file is the *)
(* sequence of its class directives, Link an entry that is passed over.  A *)
(* log is over "n" (line end), "e" (a word that means an error at the      *)
(* start of a line), "h" "t" (the two halves of a word that means          *)
(* something was skipped, unsupported or omitted) and "x" (anything else). *)
(***************************************************************************)
EXTENDS Integers, Sequences, SequencesExt, FiniteSetsExt, Functions

CONSTANTS
    Inputs,         \* [kind, given, other, tree, logs]: a file, what may replace it,
                    \* and what the tools make of it
    MaxClasses, MaxAllClasses,  \* _MAX_DEX_CLASS_DESCRIPTORS, _MAX_TOTAL_…
    MaxWalk,        \* _MAX_SMALI_WALK_ENTRIES
    MaxLine, MaxScan,           \* _MAX_TOOL_LOG_LINE_BYTES, _SCAN_BYTES
    MaxChunk        \* bound: what one read of the pipe returns

Tools == {"apktool", "jadx"}
Member(kind) ==
    IF kind = "apk" THEN [name : STRING, header : BOOLEAN, classes : Seq(STRING)]
    ELSE [module : STRING, part : STRING, header : BOOLEAN, classes : Seq(STRING)]
ASSUME ExtractionInputs ==
    /\ \A in \in Inputs :
         /\ in.kind \in {"apk", "bundle"}
         /\ \A file \in {in.given, in.other} :
              file.readable \in BOOLEAN /\ file.members \in Seq(Member(in.kind))
         /\ \A dir \in DOMAIN in.tree : in.tree[dir] \in Seq(Seq(STRING))
         /\ \A tool \in Tools : in.logs[tool] \in Seq(STRING)
    /\ MaxClasses \in Nat /\ MaxAllClasses \in Nat /\ MaxWalk \in Nat
    /\ MaxLine \in Nat \ {0} /\ MaxScan \in Nat /\ MaxChunk \in Nat

VARIABLES
    input, now,     \* the input, and which of its files is at the path
    bound,          \* the file whose digest the result carries
    at,             \* the step of extract
    saw,            \* the files each reader has read
    pipe,           \* how far the log of a tool was read, and up to where it was classified
    logs,           \* log_observation of each tool
    report          \* the inventory and the result

exVars == <<input, now, bound, at, saw, pipe, logs, report>>

Link == <<"link">>
Following(tool) == IF tool = "apktool" THEN "jadx" ELSE "check"

-----------------------------------------------------------------------------
(***************************************************************************)
(* The classes the input declares and the classes in what Apktool wrote.   *)
(***************************************************************************)
\* classes.dex and classesN.dex; any other DEX name at the root has none.
Directory == [c \in {"classes.dex", "classes2.dex"} |->
                IF c = "classes.dex" THEN "smali" ELSE "smali_classes2"]
\* The members of a file that are DEX files at its root.
RootDex(file) == {i \in DOMAIN file.members : file.members[i].name # "assets/classes.dex"}

\* _dex_class_definition_count: -1 where the header does not parse or says too many.
DeclaredCount(dex) ==
    IF dex.header /\ Len(dex.classes) <= MaxClasses THEN Len(dex.classes) ELSE -1

\* _read_dex_class_descriptors gives the classes, or nothing.
DexListed(dex) ==
    DeclaredCount(dex) >= 0 /\ ~Contains(dex.classes, "bad") /\ IsInjective(dex.classes)
DexClasses(dex) == ToSet(dex.classes)

Capped(files) == Len(files) > MaxWalk
Regular(files) == {i \in DOMAIN files : i <= MaxWalk /\ files[i] # Link}
\* _count_smali_files: a walk that the limit ends still has a count.
SmaliCount(files) ==
    IF Capped(files) \/ ~Contains(files, Link) THEN Cardinality(Regular(files)) ELSE -1
\* _read_smali_class_descriptors gives the classes, or nothing.
SmaliListed(files) ==
    /\ ~Capped(files) /\ ~Contains(files, Link)
    /\ \A i \in DOMAIN files : Len(files[i]) = 1 /\ files[i] # <<"bad">>
    /\ IsInjective(files)
SmaliClasses(files) == {files[i][1] : i \in DOMAIN files}

\* _archive_inventory.  A directory Apktool did not write is unavailable.
WithDirectory(file) == {i \in RootDex(file) : file.members[i].name \in DOMAIN Directory}
Mapped(file) ==
    /\ WithDirectory(file) = RootDex(file)
    /\ \A i, j \in RootDex(file) : file.members[i].name = file.members[j].name => i = j
Measured(file) == \A i \in RootDex(file) : DeclaredCount(file.members[i]) >= 0
DirOf(dex) == Directory[dex.name]
There(file, tree, i) == DirOf(file.members[i]) \in DOMAIN tree
Written(file, tree, i) == tree[DirOf(file.members[i])]

\* The classes are compared within a budget for the declared and one for the written.
AllDeclared(file) == UNION {{i} \X (1 .. DeclaredCount(file.members[i])) : i \in RootDex(file)}
AllWritten(file, tree, i) ==
    UNION {{j} \X DOMAIN Written(file, tree, j) :
            j \in {k \in RootDex(file) : k <= i /\ There(file, tree, k)}}
CountsTaken(file, tree) ==
    /\ Mapped(file) /\ Measured(file)
    /\ \A i \in RootDex(file) : There(file, tree, i) /\ SmaliCount(Written(file, tree, i)) >= 0
Comparable(file, tree) ==
    /\ Mapped(file) /\ Measured(file) /\ Cardinality(AllDeclared(file)) <= MaxAllClasses
    /\ \A i \in RootDex(file) :
         /\ DexListed(file.members[i])
         /\ There(file, tree, i) /\ SmaliListed(Written(file, tree, i))
         /\ Cardinality(AllWritten(file, tree, i)) <= MaxAllClasses
CountsAgree(file, tree) ==
    \A i \in RootDex(file) : SmaliCount(Written(file, tree, i)) = DeclaredCount(file.members[i])
Missing(file, tree) ==
    UNION {{i} \X (DexClasses(file.members[i]) \ SmaliClasses(Written(file, tree, i))) : i \in RootDex(file)}
Extra(file, tree) ==
    UNION {{i} \X (SmaliClasses(Written(file, tree, i)) \ DexClasses(file.members[i])) : i \in RootDex(file)}

Inventory(file, tree) ==
    IF RootDex(file) = {}
    THEN [extraction |-> "not_applicable", counts |-> "not_measured",
          descriptors |-> "not_measured", missing |-> 0, extra |-> 0]
    ELSE [extraction |-> IF ~Mapped(file) THEN "ambiguous"
                         ELSE IF \A i \in RootDex(file) : There(file, tree, i) THEN "matched" ELSE "mismatch",
          counts |-> IF ~CountsTaken(file, tree) THEN "incomplete"
                     ELSE IF CountsAgree(file, tree) THEN "match" ELSE "mismatch",
          descriptors |-> IF ~Comparable(file, tree) THEN "incomplete"
                          ELSE IF Missing(file, tree) = {} /\ Extra(file, tree) = {}
                               THEN "exact" ELSE "mismatch",
          missing |-> IF Comparable(file, tree) THEN Cardinality(Missing(file, tree)) ELSE 0,
          extra |-> IF Comparable(file, tree) THEN Cardinality(Extra(file, tree)) ELSE 0]

-----------------------------------------------------------------------------
(***************************************************************************)
(* The modules of a bundle: a member is in a module, at the root or in the *)
(* metadata ("META-INF"), or under a name that is no module's ("?").       *)
(***************************************************************************)
Modules(file) == {file.members[i].module : i \in DOMAIN file.members} \ {"", "META-INF", "?"}
In(file, name, part) == {i \in DOMAIN file.members :
                            file.members[i].module = name /\ file.members[i].part = part}
\* The DEX members of a module and how far their headers count.
ModuleRow(file, name) ==
    LET dex == In(file, name, "dex")
        counts == [i \in dex |-> DeclaredCount(file.members[i])]
    IN [name |-> name,
        manifest |-> In(file, name, "manifest") # {},
        dex |-> Cardinality(dex),
        classes |-> IF In(file, name, "misnamed") # {} \/ \E i \in dex : counts[i] < 0
                    THEN "incomplete"
                    ELSE IF dex = {} THEN "not_applicable" ELSE "measured",
        declared |-> Cardinality(UNION {{i} \X (1 .. counts[i]) : i \in dex})]
BundleRows(file) == {ModuleRow(file, name) : name \in Modules(file)}
BundleStatus(file) ==
    IF (\A i \in DOMAIN file.members : file.members[i].module # "?")
       /\ \A row \in BundleRows(file) : row.manifest /\ row.classes # "incomplete"
    THEN "complete" ELSE "partial"
\* _validated_members and validate_archive, validate_android_bundle_archive.
Valid(file, kind) ==
    /\ file.readable
    /\ IF kind = "apk"
       THEN \A i, j \in DOMAIN file.members : file.members[i].name = file.members[j].name => i = j
       ELSE In(file, "base", "manifest") # {}

-----------------------------------------------------------------------------
(***************************************************************************)
(* A tool's log.                                                           *)
(***************************************************************************)
Marked(line) ==
    \/ line # <<>> /\ line[1] = "e"
    \/ \E i \in 1 .. Len(line) - 1 : line[i] = "h" /\ line[i + 1] = "t"

\* What was read of a log is classified up to its limit.
Scanned(read) == Min({read, MaxScan})

\* process_complete_lines over the part of a log that was scanned and not yet
\* classified: it is cut after every line end, and where a line that has no end
\* yet is longer than MaxLine; at the end what is left is a line.
Cuts(log, from, to, final) ==
    LET ends == {i \in from + 1 .. to : log[i] = "n"}
        last == Max({from} \cup ends)
    IN ends \cup {i \in last + 1 .. to :
                    \/ i < to /\ \E k \in 1 .. to : i = last + k * MaxLine
                    \/ i = to /\ final}
\* The line that a cut ends, and how many are marked.
LineTo(log, from, cuts, c) == SubSeq(log, Max({from} \cup {b \in cuts : b < c}) + 1, c)
MarkedLines(log, from, cuts) == Cardinality({c \in cuts : Marked(LineTo(log, from, cuts, c))})

NoPipe == [read |-> 0, cut |-> 0, marks |-> 0, exited |-> FALSE]
NotRecorded == [complete |-> FALSE, marks |-> 0]
AtEnd(tool) == pipe.exited /\ pipe.read = Len(input.logs[tool])

\* _summarize_decompiler_diagnostics.
ReviewState ==
    IF \A t \in Tools : logs[t].complete /\ logs[t].marks = 0 THEN "completed" ELSE "partial"

\* Mutant: the text after the last line end is dropped.
ReadEnded(tool) ==
    /\ at = tool /\ AtEnd(tool)
    /\ logs' = [logs EXCEPT ![tool] = [complete |-> pipe.read <= MaxScan, marks |-> pipe.marks]]
    /\ pipe' = NoPipe /\ at' = Following(tool)
    /\ UNCHANGED <<input, now, bound, saw, report>>

\* _drain_tool_log reads a chunk; past the limit it only counts.
ReadChunk(tool) ==
    /\ at = tool /\ saw[tool] # {}
    /\ \E size \in 1 .. Min({MaxChunk, Len(input.logs[tool]) - pipe.read}) :
         LET log == input.logs[tool]
             read == pipe.read + size
             cuts == Cuts(log, pipe.cut, Scanned(read), FALSE)
         IN pipe' = [pipe EXCEPT !.read = read, !.cut = Max({@} \cup cuts),
                                 !.marks = @ + MarkedLines(log, pipe.cut, cuts)]
    /\ UNCHANGED <<input, now, bound, at, saw, logs, report>>

\* The tool has exited and its pipe is at its end: the rest is classified.
DrainEnds(tool) ==
    /\ at = tool /\ AtEnd(tool)
    /\ LET log == input.logs[tool]
           cuts == Cuts(log, pipe.cut, Scanned(pipe.read), TRUE)
       IN logs' = [logs EXCEPT ![tool] =
                     [complete |-> pipe.read <= MaxScan,
                      marks |-> pipe.marks + MarkedLines(log, pipe.cut, cuts)]]
    /\ pipe' = NoPipe /\ at' = Following(tool)
    /\ UNCHANGED <<input, now, bound, saw, report>>

\* Something keeps the pipe open for two seconds after the tool has exited.
DrainAbandoned(tool) ==
    /\ at = tool /\ pipe.exited
    /\ logs' = [logs EXCEPT ![tool] = NotRecorded]
    /\ pipe' = NoPipe /\ at' = Following(tool)
    /\ UNCHANGED <<input, now, bound, saw, report>>

-----------------------------------------------------------------------------
Present == input[now]
NoReport == [end |-> "none", inventory |-> "none", review |-> "none", status |-> "none", rows |-> {}]
Refused == [NoReport EXCEPT !.end = "refused"]

exStart(in) ==
    /\ input = in /\ now = "given" /\ bound = "none" /\ at = "hash"
    /\ saw = [t \in Tools \cup {"inventory"} |-> {}]
    /\ pipe = NoPipe /\ logs = [t \in Tools |-> NotRecorded]
    /\ report = NoReport
exInit == \E in \in Inputs : exStart(in)

\* Somebody else writes the file; a tool may have read part of either.
Replace ==
    /\ at # "done" /\ now = "given" /\ input.other # input.given
    /\ now' = "other"
    /\ UNCHANGED <<input, bound, at, saw, pipe, logs, report>>

Hash ==
    /\ at = "hash"
    /\ bound' = now /\ at' = "validate"
    /\ UNCHANGED <<input, now, saw, pipe, logs, report>>

Validate ==
    /\ at = "validate"
    /\ IF Valid(Present, input.kind)
       THEN at' = (IF input.kind = "apk" THEN "apktool" ELSE "inventory") /\ UNCHANGED report
       ELSE at' = "done" /\ report' = Refused
    /\ UNCHANGED <<input, now, bound, saw, pipe, logs>>

\* A tool reads the file, then writes its log; it exits when it has done both.
ToolReads(tool) ==
    /\ at = tool /\ ~pipe.exited /\ now \notin saw[tool]
    /\ saw' = [saw EXCEPT ![tool] = @ \cup {now}]
    /\ UNCHANGED <<input, now, bound, at, pipe, logs, report>>

ToolExits(tool) ==
    /\ at = tool /\ saw[tool] # {} /\ ~pipe.exited
    /\ pipe' = [pipe EXCEPT !.exited = TRUE]
    /\ UNCHANGED <<input, now, bound, at, saw, logs, report>>

\* The tool does not start, exits with an error, runs out of time or is killed
\* with the scan that is cancelled.
ToolFails(tool) ==
    /\ at = tool
    /\ at' = "done" /\ report' = Refused /\ pipe' = NoPipe
    /\ UNCHANGED <<input, now, bound, saw, logs>>

\* The digest is compared after the tools, and again after the inventory.
SameDigest(from, to) ==
    /\ at = from
    /\ IF now = bound THEN at' = to /\ UNCHANGED report
       ELSE at' = "done" /\ report' = Refused
    /\ UNCHANGED <<input, now, bound, saw, pipe, logs>>
CheckTools == SameDigest("check", "inventory")
CheckInventory == SameDigest("compare", "record")

\* Reads the file again.
TakeInventory ==
    /\ at = "inventory"
    /\ saw' = [saw EXCEPT !["inventory"] = {now}]
    /\ at' = "compare"
    /\ report' = IF input.kind = "apk"
                 THEN [report EXCEPT !.inventory = Inventory(Present, input.tree), !.review = ReviewState]
                 ELSE [report EXCEPT !.status = BundleStatus(Present), !.rows = BundleRows(Present)]
    /\ UNCHANGED <<input, now, bound, pipe, logs>>

\* The tools are asked for their version; an answer is not needed.
RecordProvenance ==
    /\ at = "record"
    /\ at' = "done" /\ report' = [report EXCEPT !.end = "recorded"]
    /\ UNCHANGED <<input, now, bound, saw, pipe, logs>>

exNext ==
    \/ Replace \/ Hash \/ Validate
    \/ \E tool \in Tools :
         \/ ToolReads(tool) \/ ReadChunk(tool) \/ ToolExits(tool) \/ ToolFails(tool)
         \/ DrainEnds(tool) \/ DrainAbandoned(tool)
    \/ CheckTools \/ TakeInventory \/ CheckInventory \/ RecordProvenance

exSpec == exInit /\ [][exNext]_exVars

-----------------------------------------------------------------------------
exTypeOK ==
    /\ now \in {"given", "other"} /\ bound \in {"none", "given", "other"}
    /\ at \in Tools \cup {"hash", "validate", "check", "inventory", "compare", "record", "done"}
    /\ saw \in [Tools \cup {"inventory"} -> SUBSET {"given", "other"}]
    /\ pipe \in [read : Nat, cut : Nat, marks : Nat, exited : BOOLEAN]
    /\ pipe.cut <= Scanned(pipe.read) /\ Scanned(pipe.read) - pipe.cut <= MaxLine
    /\ logs \in [Tools -> [complete : BOOLEAN, marks : Nat]]
    /\ report.end \in {"none", "recorded", "refused"}

\* The lines of a log, found without its reader.
IsLine(log, i, j) ==
    /\ \A k \in i .. j : log[k] # "n"
    /\ i = 1 \/ log[i - 1] = "n"
    /\ j = Len(log) \/ log[j + 1] = "n"

\* Every class of a DEX file has a file of its own in its directory, and no other is there.
Represented(dex, tree) ==
    /\ dex.header /\ dex.name \in DOMAIN Directory /\ Directory[dex.name] \in DOMAIN tree
    /\ LET files == tree[Directory[dex.name]]
       IN /\ Len(files) = Len(dex.classes)
          /\ \A i \in DOMAIN dex.classes :
               Cardinality({j \in DOMAIN files : files[j] = <<dex.classes[i]>>}) = 1

\* The whole of a log was scanned and no line within the limit is marked.
Unmarked(log) ==
    /\ Len(log) <= MaxScan
    /\ \A i, j \in 1 .. Len(log) :
         IsLine(log, i, j) /\ j - i < MaxLine => ~Marked(SubSeq(log, i, j))

\* What the inventory of a package says, and what a complete bundle says of its members.
InventoryTrue(file, tree, found) ==
    /\ found.descriptors = "exact" =>
         /\ \A i \in RootDex(file) : Represented(file.members[i], tree)
         /\ found.counts = "match" /\ found.extraction = "matched"
    /\ found.descriptors = "mismatch" =>
         /\ found.missing + found.extra > 0
         /\ \E i \in RootDex(file) : ~Represented(file.members[i], tree)
    /\ found.counts = "match" =>
         \A i \in RootDex(file) :
           LET files == Written(file, tree, i)
           IN Capped(files) \/ Len(files) = Len(file.members[i].classes)
BundleTrue(file, rows) ==
    LET here == {i \in DOMAIN file.members : file.members[i].module \notin {"", "META-INF"}}
    IN \A i \in here :
         LET m == file.members[i]
             row == CHOOSE r \in rows : r.name = m.module
         IN /\ m.module # "?" /\ m.part # "misnamed"
            /\ \E j \in here : file.members[j].module = m.module /\ file.members[j].part = "manifest"
            /\ m.part = "dex" => m.header /\ row.classes = "measured" /\ row.declared >= Len(m.classes)

ApkHonest ==
    /\ saw["apktool"] = {bound} /\ saw["jadx"] = {bound}
    /\ InventoryTrue(input[bound], input.tree, report.inventory)
    /\ report.review = "completed" => \A t \in Tools : Unmarked(input.logs[t])
BundleHonest == report.status = "complete" => BundleTrue(input[bound], report.rows)

(* "Input APK changed during extraction; refusing to bind scan evidence to  *)
(* a moving artifact" (apk_extractor.py:696): when an extraction is         *)
(* recorded, both tools and the inventory read the file whose digest it     *)
(* carries and that file was validated, although it may have been replaced  *)
(* between any two steps (once: one that is put back before the comparison  *)
(* goes unseen, and the size recorded at the end is not compared).  An exact *)
(* match of the descriptors means that every root DEX file is represented,  *)
(* class by class, in its own directory; a mismatch that one is not; equal  *)
(* counts that the numbers agree, except in a walk that its limit ended,    *)
(* where a part is counted (:430).  A completed review means that both logs *)
(* were read to their end and no line carries a marker, except lines longer *)
(* than the limit, which are cut wherever a chunk ends (:594).  A bundle is *)
(* complete when every module has its manifest and every DEX member counts. *)
ExtractionHonest ==
    report.end = "recorded" =>
        /\ saw["inventory"] = {bound} /\ Valid(input[bound], input.kind)
        /\ IF input.kind = "apk" THEN ApkHonest ELSE BundleHonest
=============================================================================
