-------------------------- MODULE StaticCoverage --------------------------
(***************************************************************************)
(* The static scan of one Android application in the isolated worker: the  *)
(* orchestrator takes it through ingestion, two dozen analyzers run side   *)
(* by side, filtering, generation and output, and says at the end what it  *)
(* did and did not look at.  The analyzers share no state: what counts is  *)
(* which troubles each of them met, and which of these reach the status it *)
(* records, the engine map, the review-surface ledger and the phase.       *)
(*                                                                         *)
(* Troubles: skip (an entry passed over: link, size, race, unreadable),    *)
(* stop (the budget of entries or bytes is spent), empty (nothing to look  *)
(* at), cap (the limit on candidates is reached), cut (a list is cut off), *)
(* form (an input does not parse), odd (a construct is not supported),     *)
(* file (the analysis of one file fails), link, gone (the input is a link, *)
(* or not there), lib (a library is not installed), index, parser (a help  *)
(* the analysis does without), more (a bound on rounds), raise (it raises).*)
(***************************************************************************)
EXTENDS Naturals, Sequences, FiniteSets, TLC

CONSTANTS TroubleLimit   \* how many troubles one scan meets

ASSUME LimitAssumption == TroubleLimit \in Nat

VARIABLES
    phase,      \* state["current_phase"], or where the worker ended
    met,        \* the troubles met: <<analyzer or stage, trouble>>
    engines,    \* coverage["engines"]
    coverage,   \* the static_status each coverage record holds
    errors,     \* state["errors"]: who reported one
    files,      \* what was written to the scan's directory
    result      \* what result.json says

scVars == <<phase, met, engines, coverage, errors, files, result>>

-----------------------------------------------------------------------------
(***************************************************************************)
(* An analyzer: the clauses, in the order of the code, that make it report *)
(* something else than its good status, and what it loses without a word.  *)
(***************************************************************************)
Analyzer(clauses, good, lost) == [clauses |-> clauses, good |-> good, lost |-> lost]

\* SourceInventory.paths and .read: what is passed over is counted, and the
\* status is settled when the generator ends.
Walk == {"skip", "stop"}
SourceInventory(more, lost) ==
    Analyzer(<< <<Walk \cup more, "partial">>, <<{"empty"}, "not_analyzed">> >>,
             "analyzed_heuristically", lost)
\* A probe for a framework: no sign of it means it does not apply.
Probe(noted, lost) ==
    Analyzer(<< <<noted, "partial">>, <<{"empty"}, "not_applicable">> >>,
             "analyzed_heuristically", lost)
Record(noted, lost) == Analyzer(<< <<noted, "incomplete">> >>, "completed", lost)

auth_session == SourceInventory({"cap"}, {})
firebase == SourceInventory({"cap", "form"}, {"cut"})
android_surface == SourceInventory({"cap"}, {"cut"})
manifest == Record({}, {})
provider_path_inventory == Record({"form"}, {"cut"})
backup_rules_inventory == Record({"form"}, {})
secrets == SourceInventory({"cap"}, {})
\* A file whose review raises is logged and passed over.
code_review == SourceInventory({"cap"}, {"file"})
\* (mutant) reaching the limit on endpoints is not recorded
api_mapping_uncapped == SourceInventory({"odd", "form"}, {"cap"})
api_mapping == SourceInventory({"cap", "odd", "form"}, {})
\* A library whose headers or imports do not parse counts as analyzed.
native == SourceInventory({"cap"}, {"form", "cut", "file"})
dependencies == SourceInventory({"cap", "form", "odd", "link"}, {})
taint_off == Analyzer(<<>>, "skipped_disabled", {})
taint == SourceInventory({"cap", "file", "more"}, {"index", "parser"})
\* The walk ends where the file is found: what it passed over before that
\* (search) is in no status; skip and stop are walks that found nothing.
nsc == SourceInventory({"form", "odd", "gone"}, {"search"})
binary_protection ==
    Analyzer(<< <<{"lib"}, "unsupported">>, <<Walk, "partial">>, <<{"empty"}, "not_analyzed">> >>,
             "analyzed_heuristically", {"form"})
react_native == SourceInventory({"cap"}, {"search", "file", "cut"})
pending_intent == SourceInventory({}, {})
intent_redirection == SourceInventory({}, {})
fileprovider == SourceInventory({}, {"form"})
native_jni == Probe(Walk \cup {"cap", "form"}, {"link"})
hermes == Probe({"stop", "cap", "form"}, {})
flutter == Probe(Walk \cup {"cap", "form", "link"}, {})
il2cpp == Probe(Walk \cup {"cap", "form", "link", "odd"}, {})
crypto_metadata == SourceInventory({"form", "odd", "cut"}, {})
data_safety == Analyzer(<< <<Walk \cup {"cap", "form"}, "partial">> >>, "analyzed_heuristically", {})
signature == Record({}, {"form"})
smali_call_graph == SourceInventory({"cap", "more", "odd"}, {"cut"})

\* The analyzers that run together, under the names of their tasks, and the two
\* records the manifest parser prepares and the manifest task files.
Reviewers(deep) ==
    [auth_session |-> auth_session, firebase |-> firebase, android_surface |-> android_surface,
     manifest |-> manifest, secrets |-> secrets, code_review |-> code_review,
     api_mapping |-> api_mapping, native |-> native, dependencies |-> dependencies,
     taint |-> IF deep THEN taint ELSE taint_off, nsc |-> nsc,
     binary_protection |-> binary_protection, react_native |-> react_native,
     pending_intent |-> pending_intent, intent_redirection |-> intent_redirection,
     native_jni |-> native_jni, hermes |-> hermes, il2cpp |-> il2cpp, flutter |-> flutter,
     fileprovider |-> fileprovider, crypto_metadata |-> crypto_metadata,
     data_safety |-> data_safety, signature |-> signature,
     provider_path_inventory |-> provider_path_inventory,
     backup_rules_inventory |-> backup_rules_inventory]
Inventories == {"provider_path_inventory", "backup_rules_inventory"}
Tasks == DOMAIN Reviewers(TRUE) \ Inventories
Records == DOMAIN Reviewers(TRUE) \cup {"smali_call_graph"}

MayMeet(a) == a.lost \cup UNION {a.clauses[i][1] : i \in DOMAIN a.clauses}
MetBy(name, m) == {pair[2] : pair \in {p \in m : p[1] = name}}
\* What an analyzer records after these troubles.
Status(a, troubles) ==
    LET hit == {i \in DOMAIN a.clauses : a.clauses[i][1] \cap troubles # {}}
    IN IF hit = {} THEN a.good
       ELSE a.clauses[CHOOSE i \in hit : \A j \in hit : i <= j][2]

-----------------------------------------------------------------------------
scInit ==
    /\ phase = "initialized"
    /\ met = {}
    /\ engines = [n \in Tasks \cup {"smali_call_graph"} |-> "none"]
    /\ coverage = [n \in Records |->
           IF n \in Inventories \cup
                    {"manifest", "smali_call_graph", "pending_intent", "intent_redirection", "fileprovider"}
             THEN "missing" ELSE "not_started"]
    /\ errors = {}
    /\ files = {}
    /\ result = "none"

UpTo(n, S) == {m \in {{}} \cup {{x} : x \in S} \cup {{x, y} : x, y \in S} : Cardinality(m) <= n}
Left == TroubleLimit - Cardinality(met)

\* A stage whose exception nobody in scan catches: the worker's handler is next.
Escapes(stage) ==
    /\ Left > 0
    /\ met' = met \cup {<<stage, "raise">>}
    /\ phase' = "escaped"

\* Extraction and the manifest: any exception ends the scan as failed.
Ingest ==
    /\ phase = "initialized"
    /\ \/ /\ phase' = "ingestion"
          /\ coverage' = [coverage EXCEPT !["android_surface"] = "not_analyzed"]
          /\ UNCHANGED <<met, errors>>
       \/ /\ Left > 0
          /\ met' = {<<"ingestion", "raise">>}
          /\ errors' = {"ingestion"}
          /\ phase' = "failed"
          /\ UNCHANGED coverage
       \/ Escapes("output") /\ UNCHANGED <<coverage, errors>>
    /\ UNCHANGED <<engines, files, result>>

\* The record of a task that raised; the manifest's inventories go with it,
\* and a signature audit that raised leaves its record as it was.
RaisedRecord(n) ==
    IF n \in Inventories \cup {"signature"} THEN coverage[n] ELSE "incomplete"
\* gather, then one result after the other, in the order of the tasks.
RunAnalysis ==
    /\ phase = "ingestion"
    /\ \E deep \in BOOLEAN :
         LET all == Reviewers(deep)
             possible == (UNION {{<<n, t>> : t \in MayMeet(all[n])} : n \in DOMAIN all})
                           \cup {<<n, "raise">> : n \in Tasks \ (IF deep THEN {} ELSE {"taint"})}
         IN \E m \in UpTo(Left, possible) :
              LET raised == {n \in Tasks : <<n, "raise">> \in m}
                  lost == raised \cup (IF "manifest" \in raised THEN Inventories ELSE {})
                  became == [n \in DOMAIN all |->
                               IF n \in lost THEN RaisedRecord(n) ELSE Status(all[n], MetBy(n, m))]
              IN /\ met' = met \cup m
                 /\ coverage' = [n \in Records |->
                                    IF n \in DOMAIN all THEN became[n] ELSE coverage[n]]
                 /\ engines' = [n \in DOMAIN engines |->
                                   IF n \in raised THEN "incomplete"
                                   ELSE IF n \in Tasks THEN became[n] ELSE engines[n]]
                 /\ errors' = errors \cup raised
    /\ phase' = "analysis"
    /\ UNCHANGED <<files, result>>

\* Filing a result raises: the findings of the signature are read a second time.
FilingFails ==
    /\ phase = "ingestion"
    /\ Escapes("filing")
    /\ UNCHANGED <<engines, coverage, errors, files, result>>

\* The call graph of the smali, after the others, with a handler of its own.
RunCallGraph ==
    /\ phase = "analysis" /\ engines["smali_call_graph"] = "none"
    /\ \E m \in UpTo(Left, {<<"smali_call_graph", t>> : t \in MayMeet(smali_call_graph) \cup {"raise"}}) :
         LET raised == <<"smali_call_graph", "raise">> \in m
             status == IF raised THEN "incomplete"
                       ELSE Status(smali_call_graph, MetBy("smali_call_graph", m))
         IN /\ met' = met \cup m
            /\ engines' = [engines EXCEPT !["smali_call_graph"] = status]
            /\ coverage' = [coverage EXCEPT !["smali_call_graph"] = status]
            /\ errors' = IF raised THEN errors \cup {"smali_call_graph"} ELSE errors
    /\ UNCHANGED <<phase, files, result>>

RunFiltering ==
    /\ phase = "analysis" /\ engines["smali_call_graph"] # "none"
    /\ \/ phase' = "filtering" /\ UNCHANGED met
       \/ Escapes("filtering")
    /\ UNCHANGED <<engines, coverage, errors, files, result>>

\* (mutant) a guide that cannot be generated is logged only
RunGenerationSilent ==
    /\ phase = "filtering"
    /\ phase' = "generation"
    /\ \/ UNCHANGED met
       \/ Left > 0 /\ met' = met \cup {<<"generation", "raise">>}
    /\ UNCHANGED <<engines, coverage, errors, files, result>>
RunGeneration ==
    /\ phase = "filtering"
    /\ phase' = "generation"
    /\ \/ UNCHANGED <<met, errors>>
       \/ /\ Left > 0
          /\ met' = met \cup {<<"generation", "raise">>}
          /\ errors' = errors \cup {"generation"}
    /\ UNCHANGED <<engines, coverage, files, result>>

\* Reports, then guides: an exception escapes.  SARIF and SBOM are only logged.
SaveOutputs ==
    /\ phase = "generation"
    /\ \/ Escapes("reports") /\ UNCHANGED files
       \/ Escapes("guides") /\ files' = files \cup {"reports"}
       \/ \E m \in UpTo(Left, {<<"sarif", "raise">>, <<"sbom", "raise">>}) :
            /\ met' = met \cup m
            /\ files' = files \cup ({"reports", "guides", "sarif", "sbom"} \ {p[1] : p \in m})
            /\ phase' = "saved"
    /\ UNCHANGED <<engines, coverage, errors, result>>

FinishScan ==
    /\ phase = "saved"
    /\ \/ /\ phase' = IF errors # {} THEN "partial" ELSE "complete"
          /\ files' = files \cup {"state"}
          /\ UNCHANGED met
       \/ Escapes("state") /\ UNCHANGED files
    /\ UNCHANGED <<engines, coverage, errors, result>>

\* isolated_worker.main: the state, or the record of a failure when the scan
\* raised or the state is larger than a result may be.
Deliver ==
    /\ phase \in {"partial", "complete", "failed", "escaped"} /\ result = "none"
    /\ \/ /\ phase # "escaped"
          /\ result' = phase
          /\ UNCHANGED met
       \/ /\ phase = "escaped"
          /\ result' = "failure"
          /\ UNCHANGED met
       \/ /\ phase # "escaped" /\ Left > 0
          /\ met' = met \cup {<<"result", "raise">>}
          /\ result' = "failure"
    /\ UNCHANGED <<phase, engines, coverage, errors, files>>

scNext ==
    \/ Ingest
    \/ RunAnalysis
    \/ FilingFails
    \/ RunCallGraph
    \/ RunFiltering
    \/ RunGeneration
    \/ SaveOutputs
    \/ FinishScan
    \/ Deliver

scSpec == scInit /\ [][scNext]_scVars

-----------------------------------------------------------------------------
\* reporting/coverage.py: which records speak for which review surface.
surface_analyzers ==
    [manifest_component_inventory |-> {"manifest"},
     ipc_intent_calls |-> {"android_surface"},
     serialization |-> {"android_surface", "taint"},
     files_uri_grants |-> {"provider_path_inventory"},
     provider_path_configuration |-> {"provider_path_inventory"},
     storage_backup_logging |-> {"backup_rules_inventory", "android_surface"},
     webview_deep_links |-> {"android_surface", "taint"},
     network_api_authentication |-> {"auth_session", "api_mapping"},
     cryptography_native |-> {"crypto_metadata", "nsc", "native"}]
Surfaces == DOMAIN surface_analyzers

\* review_surface_ledger: the records that are there decide.
analysis_state(surface) ==
    LET statuses == {coverage[n] : n \in surface_analyzers[surface]} \ {"missing"}
    IN IF statuses \subseteq {"not_started"} THEN "not_tested"
       ELSE IF statuses \subseteq {"completed", "analyzed_heuristically"} THEN "analyzed"
       ELSE IF statuses = {"not_applicable"} THEN "not_applicable"
       ELSE "incomplete"

-----------------------------------------------------------------------------
Names == Tasks \cup Inventories \cup
         {"smali_call_graph", "output", "ingestion", "filing", "filtering", "generation",
          "reports", "guides", "sarif", "sbom", "state", "result"}
Statuses == {"none", "missing", "not_started", "not_analyzed", "not_applicable", "partial",
             "incomplete", "unsupported", "skipped_disabled", "completed", "analyzed_heuristically"}

\* Types, and the bound on what goes wrong.
scTypeOK ==
    /\ phase \in {"initialized", "ingestion", "analysis", "filtering", "generation", "saved",
                  "partial", "complete", "failed", "escaped"}
    /\ \A p \in met : p[1] \in Names
    /\ Cardinality(met) <= TroubleLimit
    /\ engines \in [Tasks \cup {"smali_call_graph"} -> Statuses]
    /\ coverage \in [Records -> Statuses]
    /\ errors \subseteq Names
    /\ files \subseteq {"reports", "guides", "sarif", "sbom", "state"}
    /\ result \in {"none", "partial", "complete", "failed", "failure"}

\* The losses the analyzers behind the ledger do not report today: listings cut
\* off at their limit, sources the symbol index or the parser did without, and
\* what nobody sees of a walk that ends early or a library that does not parse.
Unreported ==
    {<<"android_surface", "cut">>, <<"provider_path_inventory", "cut">>,
     <<"taint", "index">>, <<"taint", "parser">>, <<"nsc", "search">>,
     <<"native", "form">>, <<"native", "cut">>, <<"native", "file">>}

\* A surface the ledger calls analyzed was: none of the analyzers that speak for
\* it raised, found nothing to look at, passed over an entry or stopped at a
\* limit, but for the losses listed above; and a manifest audit that raised
\* takes its backup inventory with it, which the ledger does not miss.
LedgerHonest ==
    phase \in {"generation", "saved", "partial", "complete"} =>
        \A surface \in Surfaces : analysis_state(surface) = "analyzed" =>
            \/ \A n \in surface_analyzers[surface] :
                 /\ coverage[n] # "missing"
                 /\ \A t \in MetBy(n, met) : <<n, t>> \in Unreported
            \/ surface = "storage_backup_logging" /\ <<"manifest", "raise">> \in met

\* A scan that says complete lost no analyzer and no artifact, but for SARIF and
\* SBOM, which are only logged, and its engine map says what the records say; a
\* state.json stands beside reports and guides, an ingestion that failed left no
\* file, and a result claims no more than the scan it came from.
PhaseTellsTruth ==
    /\ "complete" \in {phase, result} =>
         /\ {p[1] : p \in {q \in met : q[2] = "raise"}} \subseteq {"sarif", "sbom", "result"}
         /\ {"reports", "guides", "state"} \subseteq files
         /\ \A n \in DOMAIN engines : engines[n] = coverage[n]
    /\ "state" \in files => {"reports", "guides"} \subseteq files
    /\ phase = "failed" => files = {} /\ errors # {}
    /\ result \in {"complete", "partial", "failed"} => result = phase

=============================================================================
