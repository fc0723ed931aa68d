-------------------------- MODULE CandidateReview --------------------------
(***************************************************************************)
(* The filter pipeline of a scan (src/mobileag/filters) with the model     *)
(* routing and the vote it rests on (src/mobileag/llm): every candidate    *)
(* passes four heuristics, each of which can be off, lack what it needs or *)
(* fail, and is ranked by the scores of those that were evaluated.         *)
(*                                                                         *)
(* Scores are in thousandths.  Whether a heuristic was evaluated is told   *)
(* by the words of the reason it gives, some of which a model or an        *)
(* exception wrote; a reason is modelled by whether it has one of these    *)
(* words.  `truth`, `asked` and `last` only record what happened.          *)
(***************************************************************************)
EXTENDS Naturals, Sequences, FiniteSets

CONSTANTS Setting,      \* the settings and providers an operator may have
          Candidates,   \* bound: findings of one scan
          Threshold, MinVotes

VARIABLES setting, left, layer, stage, score, routed, kept, truth, asked, last

crVars == <<setting, left, layer, stage, score, routed, kept, truth, asked, last>>

Layers == <<"reachability", "sanitizer", "consensus", "historical">>
LayerSet == {"reachability", "sanitizer", "consensus", "historical"}
Weight == [reachability |-> 15, sanitizer |-> 25, consensus |-> 35, historical |-> 15]
Fresh == [l \in LayerSet |-> "none"]
NoScore == [l \in LayerSet |-> 0]
Unranked == [priority |-> 0, stage |-> Fresh, truth |-> Fresh]

\* The providers of a task in the order they are asked, of those initialised;
\* all of them, as they were configured, when the task names none.
Supported == {"gemini_flash", "gemini_pro", "openai", "deepseek", "grok", "claude"}
Providers == IF setting.offline THEN {} ELSE Supported \cap setting.keys \cap setting.approved
One(name) == IF name \in Providers THEN <<name>> ELSE <<>>
Configured ==
  One("gemini_flash") \o One("gemini_pro") \o One("openai") \o One("deepseek")
    \o One("grok") \o One("claude")
Routing ==
  [review |-> One("gemini_pro") \o One("deepseek") \o One("claude"),
   vote |-> One("gemini_pro") \o One("openai") \o One("grok") \o One("deepseek") \o One("claude")]
Route(task) == IF Routing[task] # <<>> THEN Routing[task] ELSE Configured

crInit ==
  /\ setting \in Setting
  /\ left = Candidates
  /\ layer = 1
  /\ stage = Fresh /\ score = NoScore /\ truth = Fresh
  /\ routed = <<>>
  /\ kept = 0
  /\ asked = {}
  /\ last = Unranked

-----------------------------------------------------------------------------
Here(l) == left > 0 /\ layer <= Len(Layers) /\ Layers[layer] = l

\* A reason with one of the words says the heuristic was unavailable, and its
\* score is dropped.
Scored(l, value, words) ==
  /\ stage' = [stage EXCEPT ![l] = IF words THEN "unavailable" ELSE "evaluated"]
  /\ score' = [score EXCEPT ![l] = IF words THEN 0 ELSE value]

Mark(l, status) ==
  /\ stage' = [stage EXCEPT ![l] = status]
  /\ UNCHANGED score

\* What is really known of the candidate, and on to the next heuristic.
Passes(l, happened) ==
  /\ truth' = [truth EXCEPT ![l] = happened]
  /\ layer' = layer + 1
  /\ routed' = <<>>
  /\ UNCHANGED <<setting, left, kept, last>>

Established(words) == IF words THEN "masked" ELSE "evidence"

ReferenceScore(count) ==
  IF count = 0 THEN 150 ELSE IF count <= 2 THEN 500 ELSE IF count <= 5 THEN 750 ELSE 950

CheckReachability ==
  /\ Here("reachability")
  /\ \/ /\ ~setting.reachability
        /\ Mark("reachability", "failed") /\ Passes("reachability", "off")
     \/ /\ setting.reachability
        /\ \/ Scored("reachability", 500, TRUE) /\ Passes("reachability", "lacking")
           \/ Scored("reachability", 500, FALSE) /\ Passes("reachability", "imputed")
           \/ \E words \in BOOLEAN :
                /\ Scored("reachability", 500, words)
                /\ Passes("reachability", IF words THEN "lacking" ELSE "imputed")
           \/ \E count \in {0, 1, 3, 6}, words \in BOOLEAN :
                Scored("reachability", ReferenceScore(count), words)
                  /\ Passes("reachability", Established(words))
  /\ UNCHANGED asked

\* The patterns around the candidate answer, unless they find no guard; the
\* reason for that has one of the words, and stands before what a model says.
CheckSanitizer ==
  /\ Here("sanitizer") /\ routed = <<>>
  /\ \/ Scored("sanitizer", 600, TRUE) /\ Passes("sanitizer", "lacking") /\ UNCHANGED asked
     \/ /\ \E pattern \in {100, 150, 200, 250} : Scored("sanitizer", pattern, FALSE)
        /\ Passes("sanitizer", "evidence")
        /\ UNCHANGED asked
     \/ /\ Route("review") = <<>>
        /\ Scored("sanitizer", 560, TRUE)
        /\ Passes("sanitizer", "lacking")
        /\ UNCHANGED asked
     \/ /\ Route("review") # <<>>
        /\ routed' = Route("review")
        /\ UNCHANGED <<setting, left, layer, stage, score, kept, truth, asked, last>>

\* The next provider is asked; the first that answers ends the search.  None may
\* answer, or the answer be unreadable; one that is no object raises past the
\* check.
AskSanitizer ==
  /\ Here("sanitizer") /\ routed # <<>>
  /\ asked' = asked \cup {routed[1]}
  /\ \/ /\ Len(routed) > 1
        /\ routed' = Tail(routed)
        /\ UNCHANGED <<setting, left, layer, stage, score, kept, truth, last>>
     \/ Scored("sanitizer", 560, TRUE) /\ Passes("sanitizer", "lacking")
     \/ Mark("sanitizer", "failed") /\ Passes("sanitizer", "error")
     \/ \E model \in {100, 500, 950} :
          /\ Scored("sanitizer", (500 * 4 + model * 6) \div 10, TRUE)
          /\ Passes("sanitizer", Established(TRUE))

\* The score of a vote: its ratio is compared as a fraction.
VoteScore(yes, total) ==
  IF yes >= MinVotes
  THEN IF yes = total THEN 1000 ELSE IF 100 * yes >= 67 * total THEN 800 ELSE 600
  ELSE IF yes = 0 THEN 100 ELSE IF 100 * yes <= 33 * total THEN 250 ELSE 400

\* Up to three providers are asked at once; answers that fail or cannot be read
\* have no vote.  One that opens a fence and breaks no line raises past the
\* reading of them all.
CheckConsensus ==
  /\ Here("consensus")
  /\ IF ~setting.voting \/ setting.offline
     THEN Mark("consensus", "not_run") /\ Passes("consensus", "off") /\ UNCHANGED asked
     ELSE LET voters == {Route("vote")[i] : i \in DOMAIN Route("vote") \cap 1 .. 3}
          IN  /\ asked' = asked \cup voters
              /\ \E yes, no \in SUBSET voters :
                   /\ yes \cap no = {}
                   /\ IF yes \cup no = {}
                      THEN Mark("consensus", "unavailable") /\ Passes("consensus", "lacking")
                      ELSE \/ \E words \in BOOLEAN :
                                /\ Scored("consensus",
                                          VoteScore(Cardinality(yes), Cardinality(yes \cup no)),
                                          words)
                                /\ Passes("consensus", Established(words))
                           \/ /\ yes \cup no # voters
                              /\ Mark("consensus", "unavailable")
                              /\ Passes("consensus", Established(TRUE))

\* No history is configured.
CheckHistory ==
  /\ Here("historical")
  /\ Scored("historical", 500, TRUE)
  /\ Passes("historical", "lacking")
  /\ UNCHANGED asked

-----------------------------------------------------------------------------
\* The mean of the scores that count, by weight, to three places.
Counted(l, value) == IF stage[l] = "evaluated" THEN value[l] * Weight[l] ELSE 0
Weighed(value) ==
  Counted("reachability", value) + Counted("sanitizer", value)
    + Counted("consensus", value) + Counted("historical", value)
Priority ==
  LET total == Weighed([l \in LayerSet |-> 1])
  IN  IF total = 0 THEN 0 ELSE (2 * Weighed(score) + total) \div (2 * total)

Ranked == [priority |-> Priority, stage |-> stage, truth |-> truth]

\* Mutant: a candidate below the threshold is dropped.
KeepAboveOnly ==
  /\ left > 0 /\ layer > Len(Layers)
  /\ kept' = IF Priority < Threshold THEN kept ELSE kept + 1
  /\ last' = Ranked
  /\ left' = left - 1
  /\ layer' = 1
  /\ stage' = Fresh /\ score' = NoScore /\ truth' = Fresh
  /\ UNCHANGED <<setting, routed, asked>>

\* A candidate below the threshold is marked, and stays.
KeepRanked ==
  /\ left > 0 /\ layer > Len(Layers)
  /\ kept' = kept + 1
  /\ last' = Ranked
  /\ left' = left - 1
  /\ layer' = 1
  /\ stage' = Fresh /\ score' = NoScore /\ truth' = Fresh
  /\ UNCHANGED <<setting, routed, asked>>

crNext == CheckReachability \/ CheckSanitizer \/ AskSanitizer \/ CheckConsensus \/ CheckHistory \/ KeepRanked

-----------------------------------------------------------------------------
crTypeOK ==
  /\ setting \in Setting
  /\ left \in 0 .. Candidates /\ layer \in 1 .. Len(Layers) + 1
  /\ stage \in [LayerSet -> {"none", "evaluated", "unavailable", "failed", "not_run"}]
  /\ score \in [LayerSet -> 0 .. 1000]
  /\ truth \in [LayerSet -> {"none", "off", "lacking", "imputed", "error", "evidence", "masked"}]
  /\ routed \in Seq(Providers)
  /\ asked \subseteq setting.keys /\ kept \in 0 .. Candidates

\* Masked, and not ranked although it was established: the references of a class
\* whose own name has one of the words (reachability.py:54-61); what a model says
\* of a guard, always, as the reason of the patterns has one
\* (sanitizer_check.py:112-117,175); a vote whose reasoning has one, or that stands
\* beside an unreadable answer (consensus.py:131,156,184-189).
\* Imputed, and ranked although nothing was established: a name too short to look
\* for, an error whose text has none of the words (reachability.py:45-52).

(* "Missing signals are omitted instead of being imputed as neutral         *)
(* evidence" (confidence.py:22), "Never silently discard an unverified      *)
(* candidate" (pipeline.py:171) and offline nothing leaves the machine:     *)
(* whichever heuristics are off, lack something or fail, a candidate stays  *)
(* and is ranked by those that established something, but for the cases     *)
(* above, and last when none counts; and only approved providers are asked, *)
(* none offline.                                                            *)
RankedByEvidence ==
  /\ kept + left = Candidates
  /\ \A l \in LayerSet :
       last.stage[l] = "evaluated" <=> last.truth[l] \in {"evidence", "imputed"}
  /\ (\A l \in LayerSet : last.stage[l] # "evaluated") => last.priority = 0
  /\ asked \subseteq setting.approved
  /\ setting.offline => asked = {}
=============================================================================
