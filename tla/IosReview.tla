----------------------------- MODULE IosReview -----------------------------
(***************************************************************************)
(* The review of an iOS archive in the isolated worker                     *)
(* (src/mobileag/analysis/ios_analyzer.py): it is unpacked, its executable *)
(* parsed (macho_parser.py), its privacy manifests read                    *)
(* (privacy_manifest_auditor.py), and the symbols of the executable and of *)
(* the embedded frameworks are compared with what the manifests declare.   *)
(*                                                                         *)
(* A Mach-O file is its slices (one, unless it is universal), a slice its  *)
(* load commands.  A command is sized when it stays inside the command     *)
(* region.  It holds one section (segment), names (symtab) or the name of  *)
(* a library (dylib), or is too short for what it should hold (stub); a    *)
(* segment of several sections stands as one command for each.  A table is *)
(* good, and a section inside, when it is inside the file and its limits.  *)
(* "bad" is a name that cannot be read.  An entry of a Swift section has a *)
(* name, is "broken", or of a kind nobody asked for ("other"); the fields  *)
(* of a type may be unreadable.  A name in Marker stands for a symbol that *)
(* marks the use of a category of APIs.                                    *)
(*                                                                         *)
(* The frameworks are in the order in which the tree of the application is *)
(* walked, after the files of its root and from the last name to the       *)
(* first; the walk may reach only some of them before its limit.  A        *)
(* framework may hold several manifests, one in each of some directories   *)
(* whose names come before that of the manifest itself; it holds no other  *)
(* framework, and a manifest of the application is its root's or in one.   *)
(* An entry of a manifest is a category, or "bad", which stands for        *)
(* whatever else is malformed in it or over a limit of its own.            *)
(***************************************************************************)
EXTENDS Integers, Sequences, FiniteSetsExt, Functions

CONSTANTS
    Archives,       \* [shape, binary, manifest, frameworks, reach]; a framework
                    \* is its binary, its size and its manifests as they are met
    Marker,         \* symbol |-> category, where a symbol marks one
    MaxSymbols, MaxNames, MaxEntries,   \* 2000, 1000, 10000 in macho_parser.py
    MaxManifests, MaxManifestBytes,     \* of privacy_manifest_auditor.py
    MaxCategories, MaxAllCategories,    \* API categories of one manifest, 128, and of a walk, 512
    MaxFrameworks, MaxFrameworkBytes    \* of ios_analyzer.py

LoadCommand ==
    [type : {"segment"}, sized : BOOLEAN, name : STRING, inside : BOOLEAN,
     entries : Seq([name : STRING, fields : BOOLEAN])]
      \cup [type : {"symtab"}, sized : BOOLEAN, good : BOOLEAN, names : Seq(STRING)]
      \cup [type : {"dylib"}, sized : BOOLEAN, name : STRING] \cup [type : {"stub"}, sized : BOOLEAN]
MachoSlice ==
    [bounded : BOOLEAN, cpu : STRING, entry : STRING, region : BOOLEAN, cmds : Seq(LoadCommand)]
MachoFile ==
    {b \in [kind : {"thin64", "thin64be", "thin32", "fat", "other"}, over : BOOLEAN, slices : Seq(MachoSlice)] :
        b.kind = "fat" \/ Len(b.slices) = 1}
PrivacyManifest == [size : Nat, good : BOOLEAN, entries : Seq(STRING)]
ASSUME ArchiveInputs ==
    /\ \A a \in Archives :
         /\ a.binary \in MachoFile /\ a.manifest \in PrivacyManifest
         /\ a.frameworks \in Seq([binary : MachoFile, size : Nat, manifests : Seq(PrivacyManifest)])
         /\ a.reach \in 0 .. Len(a.frameworks)
    /\ MaxSymbols \in Nat /\ MaxNames \in Nat /\ MaxEntries \in Nat
    /\ MaxManifests \in Nat \ {0} /\ MaxManifestBytes \in Nat
    /\ MaxCategories \in Nat /\ MaxAllCategories \in Nat
    /\ MaxFrameworks \in Nat /\ MaxFrameworkBytes \in Nat

VARIABLES archive, pass, told

irVars == <<archive, pass, told>>

-----------------------------------------------------------------------------
(***************************************************************************)
(* MachoBinaryParser.  A list of names is a function from where they stand *)
(* (their slice, their load command and their place in it) to the names.   *)
(***************************************************************************)
SwiftSections == {"__swift5_types", "__swift5_protos", "__swift5_proto"}

Before(p, q) ==
    \/ p[1] < q[1]
    \/ p[1] = q[1] /\ p[2] < q[2]
    \/ p[1] = q[1] /\ p[2] = q[2] /\ p[3] < q[3]
Upto(places, p) == {q \in places : ~Before(p, q)}
Joined(lists) ==
    [p \in UNION {DOMAIN lists[i] : i \in DOMAIN lists} |-> lists[p[1]][p]]

\* The first n different names, and how many a list has.
NamesUpto(list, p) == {list[q] : q \in Upto(DOMAIN list, p)}
Cut(list, n) == Restrict(list, {p \in DOMAIN list : Cardinality(NamesUpto(list, p)) <= n})
NamesKept(list) == Cardinality(Range(list))

\* The load commands up to the first that is not sized.
LoadCommands(slice) ==
    {c \in DOMAIN slice.cmds : slice.region /\ \A d \in 1 .. c : slice.cmds[d].sized}
OfType(slice, type) == {c \in LoadCommands(slice) : slice.cmds[c].type = type}
OfKind(slice, kind) == {c \in OfType(slice, "segment") : slice.cmds[c].name = kind}

\* The entries of the sections of a kind that are inside the file, one after the
\* other, up to a limit.
EntriesOf(slice, i, kind) ==
    UNION {{i} \X {c} \X DOMAIN slice.cmds[c].entries :
            c \in {d \in OfKind(slice, kind) : slice.cmds[d].inside}}
Examined(places) == {p \in places : Cardinality(Upto(places, p)) <= MaxEntries}
EntryAt(slice, p) == slice.cmds[p[2]].entries[p[3]]

\* An entry that is told when it is met: of a conformance an entry of another kind
\* too, of a type its fields.
Wrong(kind, e) ==
    \/ e.name = "broken"
    \/ kind = "__swift5_proto" /\ e.name = "other"
    \/ kind = "__swift5_types" /\ ~e.fields
SwiftNamesAt(slice, i, kind) ==
    [p \in {q \in Examined(EntriesOf(slice, i, kind)) : EntryAt(slice, q).name \notin {"broken", "other"}}
       |-> EntryAt(slice, p).name]
\* A full list of conformances is told, one of types or protocols is not.
Fullness(kind, list) == kind = "__swift5_proto" /\ NamesKept(list) > MaxNames

\* _extract_swift_type_names, _protocol_names and _conformances.
Swift(slice, i, kind) ==
    [status |->
       IF OfKind(slice, kind) = {} THEN "not_attempted"
       ELSE IF \/ \E c \in OfKind(slice, kind) : ~slice.cmds[c].inside
               \/ Cardinality(EntriesOf(slice, i, kind)) > MaxEntries
               \/ \E p \in Examined(EntriesOf(slice, i, kind)) : Wrong(kind, EntryAt(slice, p))
               \/ Fullness(kind, SwiftNamesAt(slice, i, kind))
            THEN "partial" ELSE "parsed",
     names |-> Cut(SwiftNamesAt(slice, i, kind), MaxNames)]

\* _parse_symbol_table: a name that cannot be read is passed over; the last table
\* counts.
Tables(slice) == OfType(slice, "symtab")
LastGood(slice) == Tables(slice) # {} /\ slice.cmds[Max(Tables(slice))].good
SymbolsAt(slice, i) ==
    IF ~LastGood(slice) THEN <<>>
    ELSE LET c == Max(Tables(slice))
             names == slice.cmds[c].names
         IN [p \in {i} \X {c} \X {k \in DOMAIN names : names[k] # "bad"} |-> names[p[3]]]
Symbols(slice, i) == Cut(SymbolsAt(slice, i), MaxSymbols)

\* _extract_section_contents.
StringsInside(slice) == \A c \in OfKind(slice, "__cstring") : slice.cmds[c].inside

\* _parse_thin_64, _parse_thin_32, over the load commands of a slice.
ReadWhole(slice, i) ==
    /\ slice.region /\ LoadCommands(slice) = DOMAIN slice.cmds
    /\ OfType(slice, "stub") = {} /\ (Tables(slice) # {} => LastGood(slice))
    /\ StringsInside(slice) /\ NamesKept(Symbols(slice, i)) < MaxSymbols
ParseThin(slice, i) ==
    [macho |-> TRUE,
     status |-> IF ReadWhole(slice, i) THEN "complete" ELSE "partial",
     symbols |-> Symbols(slice, i),
     dylibs |-> {slice.cmds[c].name : c \in OfType(slice, "dylib")} \ {"bad"},
     swift |-> [kind \in SwiftSections |-> Swift(slice, i, kind)]]

\* _parse_fat: a slice outside the file, of an unknown format or of another
\* processor than the table says is left out.
Merges(slice) == slice.bounded /\ slice.cpu # "none" /\ slice.cpu = slice.entry
MergeSwift(lists) ==
    LET attempted == {i \in DOMAIN lists : lists[i].status # "not_attempted"}
    IN [status |-> IF attempted = {} THEN "not_attempted"
                   ELSE IF \A i \in attempted : lists[i].status = "parsed"
                        THEN "parsed" ELSE "partial",
        names |-> Cut(Joined([i \in DOMAIN lists |-> lists[i].names]), MaxNames)]
Merge(results, whole) ==
    [macho |-> TRUE,
     status |-> IF whole /\ \A i \in DOMAIN results : results[i].status = "complete"
                THEN "complete" ELSE "partial",
     symbols |-> Cut(Joined([i \in DOMAIN results |-> results[i].symbols]), MaxSymbols),
     dylibs |-> UNION {results[i].dylibs : i \in DOMAIN results},
     swift |-> [kind \in SwiftSections |-> MergeSwift([i \in DOMAIN results |-> results[i].swift[kind]])]]
ParseFat(slices) ==
    LET merged == {i \in DOMAIN slices : Merges(slices[i])}
    IN Merge([i \in merged |-> ParseThin(slices[i], i)], slices # <<>> /\ merged = DOMAIN slices)

\* parse_binary: a file longer than what is read, or with more endpoints than are
\* kept, was parsed in part.
NoMacho == [macho |-> FALSE, status |-> "not_macho", symbols |-> <<>>, dylibs |-> {},
            swift |-> [kind \in SwiftSections |-> [status |-> "not_attempted", names |-> <<>>]]]
Bounded(over, parsed) == IF over THEN [parsed EXCEPT !.status = "partial"] ELSE parsed
ParseBinary(binary) ==
    IF binary.kind = "other" THEN NoMacho
    ELSE Bounded(binary.over,
                 IF binary.kind = "fat" THEN ParseFat(binary.slices) ELSE ParseThin(binary.slices[1], 1))

\* audit_macho_binary: only a thin 64-bit file in this byte order.
Headers(binary) == binary.kind = "thin64"

-----------------------------------------------------------------------------
(***************************************************************************)
(* PrivacyManifestAuditor.                                                 *)
(***************************************************************************)
\* audit_ios_privacy_manifest over the manifests of a tree.  They are found in the
\* order of its walk, as many as the limit allows, and read by name, the root's
\* last, until their bytes are too many.  The i-th of bundle k stands at <<-k, -i, 0>>
\* and its n-th entry at <<-k, -i, n>>: Before is the order in which they are read,
\* and the reverse of that in which they are found.
NoManifest == [size |-> 0, good |-> TRUE, entries |-> <<>>]
Entries(manifest) == Range(manifest.entries) \ {"bad"}
Chosen(found) == {p \in DOMAIN found : Cardinality({q \in DOMAIN found : ~Before(q, p)}) <= MaxManifests}
Bytes(found, some) == Cardinality(UNION {{p} \X (1 .. found[p].size) : p \in some})
Within(found) == {p \in Chosen(found) : Bytes(found, Upto(Chosen(found), p)) <= MaxManifestBytes}
ReadOf(found) == {p \in Within(found) : found[p].good}

\* The entries of a manifest up to its own limit, and the different categories of
\* all that are read up to the limit of the walk.
InLimit(manifest) == {n \in DOMAIN manifest.entries : n <= MaxCategories}
Declarations(found) ==
    LET readable(p) == {n \in InLimit(found[p]) : found[p].entries[n] # "bad"}
    IN [q \in UNION {{p[1]} \X {p[2]} \X readable(p) : p \in ReadOf(found)} |->
          found[<<q[1], q[2], 0>>].entries[q[3]]]
Collected(found) == Range(Cut(Declarations(found), MaxAllCategories))

\* What is kept of one manifest: it is left at the first category there is no room
\* for, and whatever limit ends it is an error of the whole audit.
KeptIn(manifest, collected) ==
    {manifest.entries[n] : n \in {m \in InLimit(manifest) :
        \A l \in 1 .. m : manifest.entries[l] \in collected \cup {"bad"}}} \ {"bad"}
KeptWhole(manifest, collected) ==
    Len(manifest.entries) <= MaxCategories /\ Entries(manifest) \subseteq collected

\* A manifest that does not parse counts as malformed, as does one of its entries.
Malformed(manifest) == ~manifest.good \/ "bad" \in Range(manifest.entries)
ManifestStatus(found, limited) ==
    IF Chosen(found) = {} THEN (IF limited THEN "partial" ELSE "absent")
    ELSE IF ReadOf(found) = {} THEN "invalid"
    ELSE IF limited \/ \E p \in Within(found) : Malformed(found[p]) THEN "partial" ELSE "parsed"
AuditManifests(found, cut) ==
    LET collected == Collected(found)
        whole == /\ Within(found) = DOMAIN found
                 /\ \A p \in ReadOf(found) : KeptWhole(found[p], collected)
    IN [status |-> ManifestStatus(found, cut \/ ~whole), categories |-> collected]

Observed(list) == {Marker[x] : x \in Range(list) \cap DOMAIN Marker}

\* audit_ios_binary_api_symbols.
NotReviewed == [status |-> "not_analyzed", missing |-> {}]
ReviewSymbols(parsed, declared, state) ==
    IF state = "invalid" THEN [NotReviewed EXCEPT !.status = "not_analyzed_manifest"]
    ELSE IF ~parsed.macho THEN [NotReviewed EXCEPT !.status = "not_analyzed_symbols"]
    ELSE IF Range(parsed.symbols) = {} THEN [NotReviewed EXCEPT !.status = "not_analyzed_no_symbols"]
    ELSE [status |-> IF parsed.status # "complete" \/ state = "partial" THEN "partial" ELSE "analyzed",
          missing |-> Observed(parsed.symbols) \ declared]

-----------------------------------------------------------------------------
(***************************************************************************)
(* audit_ipa.                                                              *)
(***************************************************************************)
\* The manifests of some bundles: the application's own root is bundle 0, the
\* frameworks are the others.
Manifests(k) ==
    IF k > 0 THEN archive.frameworks[k].manifests
    ELSE IF archive.manifest = NoManifest THEN <<>> ELSE <<archive.manifest>>
Root == <<0, -1, 0>>
ManifestsOf(some) ==
    [p \in UNION {{<<-k, -i, 0>> : i \in DOMAIN Manifests(k)} : k \in some} |-> Manifests(-p[1])[-p[2]]]
Crowded == archive.reach < Len(archive.frameworks)

NoResult ==
    [macho |-> NoMacho, review |-> NotReviewed, number |-> 1, rows |-> <<>>, bytes |-> 0,
     errors |-> {}, limited |-> FALSE, manifests |-> "none", frameworks |-> "not_analyzed", end |-> "none"]

irStart(a) == archive = a /\ pass = "unpack" /\ told = NoResult
irInit == \E a \in Archives : irStart(a)

\* extract_ipa: one application, an Info.plist that parses and the executable it
\* names; anything else escapes to the worker's handler.
Unpack ==
    /\ pass = "unpack"
    /\ IF archive.shape = "application"
       THEN pass' = "parse" /\ UNCHANGED told
       ELSE pass' = "done" /\ told' = [told EXCEPT !.end = "failure"]
    /\ UNCHANGED archive

\* The header and the strings, then the parser, which may raise and is then left out.
ParseExecutable ==
    /\ pass = "parse"
    /\ pass' = "review"
    /\ \E parsed \in {ParseBinary(archive.binary), NoMacho} :
         told' = [told EXCEPT !.macho = parsed,
                              !.errors = IF Headers(archive.binary) THEN {} ELSE {"executable"}]
    /\ UNCHANGED archive

\* The root's manifest decides, in whatever part its entries were kept.  It is the
\* first that is found and the last that is read.  The summary's own status is that
\* of another audit, of all that was unpacked: what is outside the application adds
\* manifests of its own, limits and errors.
OwnManifests == ManifestsOf(0 .. archive.reach)
OwnAudit == AuditManifests(OwnManifests, Crowded)
ManifestState ==
    IF archive.manifest = NoManifest THEN "absent"
    ELSE IF Root \in ReadOf(OwnManifests) THEN "parsed" ELSE "invalid"
KeptOfRoot == IF ManifestState = "parsed" THEN KeptIn(archive.manifest, OwnAudit.categories) ELSE {}
Summaries(status) ==
    {status, "partial", "invalid"} \cup (IF status = "absent" THEN {"parsed"} ELSE {})
ReviewExecutable ==
    /\ pass = "review"
    /\ pass' = "frameworks"
    /\ \E status \in Summaries(OwnAudit.status) :
         told' = [told EXCEPT !.manifests = status,
                              !.review = ReviewSymbols(told.macho, KeptOfRoot, ManifestState)]
    /\ UNCHANGED archive

\* _audit_ios_framework_api_symbols, one framework: the manifests in it are its own.
FrameworkRow(parsed, audited) ==
    IF ~parsed.macho THEN [NotReviewed EXCEPT !.status = "not_parsed"]
    ELSE ReviewSymbols(parsed, audited.categories, audited.status)
FrameworkTroubles(parsed, audited) ==
    IF ~parsed.macho THEN {"framework"}
    ELSE IF audited.status \in {"invalid", "partial"} THEN {"framework_manifest"} ELSE {}
Reviewed(parsed, audited, size) ==
    [told EXCEPT !.number = @ + 1, !.rows = Append(@, FrameworkRow(parsed, audited)),
                 !.bytes = @ + size, !.errors = @ \cup FrameworkTroubles(parsed, audited)]

WalkEnds == told.limited \/ told.number > archive.reach
TooMany == Len(told.rows) >= MaxFrameworks
TooMuch(f) == ~f.binary.over /\ told.bytes + f.size > MaxFrameworkBytes
ReviewFramework ==
    /\ pass = "frameworks" /\ ~WalkEnds
    /\ LET f == archive.frameworks[told.number]
       IN told' =
            IF TooMany \/ TooMuch(f) THEN [told EXCEPT !.limited = TRUE]
            ELSE IF f.binary.over THEN [told EXCEPT !.number = @ + 1, !.errors = @ \cup {"framework"}]
            ELSE Reviewed(ParseBinary(f.binary), AuditManifests(ManifestsOf({told.number}), FALSE), f.size)
    /\ UNCHANGED <<archive, pass>>

SumUp ==
    /\ pass = "frameworks" /\ WalkEnds
    /\ pass' = "done"
    /\ told' = [told EXCEPT !.end = "result",
         !.frameworks = IF \/ told.limited \/ Crowded \/ told.errors \ {"executable"} # {}
                           \/ \E i \in DOMAIN told.rows : told.rows[i].status # "analyzed"
                        THEN "partial"
                        ELSE IF told.rows # <<>> THEN "analyzed" ELSE "not_analyzed"]
    /\ UNCHANGED archive

\* What the privacy pass raises ends it, with what it has.
PrivacySkipped ==
    /\ pass \in {"review", "frameworks"}
    /\ pass' = "done"
    /\ told' = [told EXCEPT !.end = "result", !.rows = <<>>]
    /\ UNCHANGED archive

irNext ==
    \/ Unpack \/ ParseExecutable \/ ReviewExecutable
    \/ ReviewFramework \/ SumUp \/ PrivacySkipped

irSpec == irInit /\ [][irNext]_irVars

-----------------------------------------------------------------------------
irTypeOK ==
    /\ pass \in {"unpack", "parse", "review", "frameworks", "done"}
    /\ told.number \in 1 .. Len(archive.frameworks) + 1
    /\ NamesKept(told.macho.symbols) <= MaxSymbols
    /\ Len(told.rows) <= MaxFrameworks /\ told.bytes <= MaxFrameworkBytes
    /\ told.errors \subseteq {"executable", "framework", "framework_manifest"}
    /\ told.manifests \in {"none", "absent", "parsed", "partial", "invalid"}
    /\ told.end \in {"none", "result", "failure"}

\* What a Mach-O file holds, read without the parser's loop.
CommandsOf(binary, type) ==
    UNION {{c \in Range(slice.cmds) : c.type = type} : slice \in Range(binary.slices)}
SectionsOf(binary, kind) == {c \in CommandsOf(binary, "segment") : c.name = kind}
LastTable(slice) ==
    {slice.cmds[c] : c \in {d \in DOMAIN slice.cmds :
        slice.cmds[d].type = "symtab" /\ \A e \in DOMAIN slice.cmds : e > d => slice.cmds[e].type # "symtab"}}
SymbolsOf(binary) ==
    (UNION {UNION {Range(c.names) : c \in LastTable(slice)} : slice \in Range(binary.slices)}) \ {"bad"}

\* A section of a kind whose entries were all understood, and whose names are
\* listed unless the list is full.
EntriesListed(section, kind, list) ==
    /\ section.inside
    /\ \A e \in Range(section.entries) :
         /\ e.name # "broken"
         /\ e.name # "other" =>
              /\ kind = "__swift5_types" => e.fields
              /\ e.name \in Range(list) \/ NamesKept(list) = MaxNames

\* A file parsed completely has no part that was passed over, but for names that
\* cannot be read; all its symbols and Swift names are there, unless their list
\* is full: the slices of a universal file share one list and only a slice that
\* fills it alone is said to be partial (macho_parser.py:261-285).
WholeSlice(slice) ==
    /\ slice.region
    /\ \A c \in Range(slice.cmds) : c.sized /\ c.type # "stub"
    /\ \A c \in LastTable(slice) : c.good
ParsedHonestly(parsed, binary) ==
    /\ parsed.status = "complete" =>
         /\ ~binary.over /\ binary.kind # "other"
         /\ \A slice \in Range(binary.slices) : WholeSlice(slice) /\ (binary.kind = "fat" => Merges(slice))
         /\ \A s \in SectionsOf(binary, "__cstring") : s.inside
         /\ Range(parsed.symbols) = SymbolsOf(binary) \/ NamesKept(parsed.symbols) = MaxSymbols
         /\ \A kind \in SwiftSections :
              parsed.swift[kind].status = "parsed" =>
                \A s \in SectionsOf(binary, kind) : EntriesListed(s, kind, parsed.swift[kind].names)
         /\ parsed.dylibs = {c.name : c \in CommandsOf(binary, "dylib")} \ {"bad"}
    /\ Range(parsed.symbols) \subseteq (UNION {Range(c.names) : c \in CommandsOf(binary, "symtab")}) \ {"bad"}

\* The categories a review finds missing are those whose symbols are there and
\* which are not declared; where declarations were cut off, some that are may be
\* among them, and none that is not is left out.
Compared(review, parsed, binary, declared, uncut) ==
    review.status = "analyzed" =>
        /\ parsed.status = "complete"
        /\ Observed(parsed.symbols) \ review.missing \subseteq declared
        /\ uncut =>
             /\ review.missing \cap declared = {}
             /\ NamesKept(parsed.symbols) < MaxSymbols =>
                  review.missing = {Marker[x] : x \in SymbolsOf(binary) \cap DOMAIN Marker} \ declared

\* What the manifests of some bundles declare, and when all of it is within the limits.
DeclaredBy(some) == UNION {UNION {Entries(m) : m \in Range(Manifests(k))} : k \in some}
DeclaredWithin ==
    /\ Len(archive.manifest.entries) <= MaxCategories
    /\ Cardinality(DeclaredBy(0 .. Len(archive.frameworks))) <= MaxAllCategories

FrameworkHonest(row, parsed, i) ==
    /\ ParsedHonestly(parsed, archive.frameworks[i].binary)
    /\ row.status = "analyzed" /\ Compared(row, parsed, archive.frameworks[i].binary, DeclaredBy({i}), TRUE)
    /\ \A m \in Range(Manifests(i)) : m.good /\ "bad" \notin Range(m.entries)

(* The summary of an iOS archive says "partial", "not_analyzed_..." or      *)
(* names an error wherever it passed something over: what it calls parsed   *)
(* completely was, and a category of APIs is reported as undeclared exactly *)
(* when a symbol of that executable marks it and the manifest of its own    *)
(* bundle, not that of another one, lacks it.  The frameworks are called    *)
(* analyzed only when every one of them was, with its manifests read in     *)
(* full, within all limits and with no entry of the tree passed over.       *)
(* Known losses: a full list (above); the root's manifest counts as parsed  *)
(* when some of its entries are unreadable (ios_analyzer.py:668), where the *)
(* same manifest in a framework would make the review partial; and it does  *)
(* when it has more entries than one manifest may, or the manifests of the  *)
(* application more categories than a walk collects.  Categories it         *)
(* declares are then reported as undeclared by a review called analyzed,    *)
(* and only the status of all the manifests, never "parsed", tells of it.   *)
ReviewHonest ==
    told.end = "result" =>
        /\ ParsedHonestly(told.macho, archive.binary)
        /\ "executable" \notin told.errors => archive.binary.kind = "thin64"
        /\ Compared(told.review, ParseBinary(archive.binary), archive.binary, DeclaredBy({0}),
                    DeclaredWithin \/ told.manifests = "parsed")
        /\ told.frameworks = "analyzed" =>
             /\ Len(told.rows) = Len(archive.frameworks)
             /\ \A i \in DOMAIN archive.frameworks :
                  FrameworkHonest(told.rows[i], ParseBinary(archive.frameworks[i].binary), i)
=============================================================================
