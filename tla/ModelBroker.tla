---------------------------- MODULE ModelBroker ----------------------------
(***************************************************************************)
(* The broker of the guided assessments (src/mobileag/llm/broker.py): one  *)
(* review at a time sends a summary to a model provider and, on a rate     *)
(* limit and with consent, to a second one, and says in the end whom it    *)
(* asked.  Guard, configuration and request are one step; so are an answer, *)
(* the guard after it and the request to the second provider.  Between a   *)
(* request and its answer the scope may be revoked and the task cancelled. *)
(* `sent` only records what happened.                                      *)
(***************************************************************************)
EXTENDS Naturals, Sequences, SequencesExt

CONSTANTS Enabled,      \* providers the server's owner approved and configured
          Reviewer      \* assessments that share the broker

VARIABLES busy, allowed, review

mbVars == <<busy, allowed, review>>

None == "none"
NoReview == [at |-> "idle", secondary |-> None, sent |-> <<>>, attempts |-> <<>>, end |-> None]

mbInit ==
  /\ busy = FALSE
  /\ allowed = [r \in Reviewer |-> TRUE]
  /\ review = [r \in Reviewer |-> NoReview]

\* Consent and a second provider come together, and it is another one.
Begin(r, primary, secondary) ==
  /\ review[r].at = "idle"
  /\ ~busy
  /\ allowed[r]
  /\ primary # secondary
  /\ {primary, secondary} \subseteq Enabled \cup {None} /\ primary # None
  /\ busy' = TRUE
  /\ review' = [review EXCEPT ![r] = [NoReview EXCEPT !.at = "asking", !.secondary = secondary,
                                                      !.sent = <<primary>>]]
  /\ UNCHANGED allowed

\* The broker does one review at a time; another is turned away.
Refuse(r) ==
  /\ review[r].at = "idle"
  /\ busy \/ ~allowed[r]
  /\ review' = [review EXCEPT ![r] = [NoReview EXCEPT !.at = "ended", !.end = "refused"]]
  /\ UNCHANGED <<busy, allowed>>

Ended(r, attempts, end) ==
  /\ busy' = FALSE
  /\ review' = [review EXCEPT ![r].at = "ended", ![r].attempts = attempts, ![r].end = end]

Attempted(r, outcome) ==
  Append(review[r].attempts, [provider |-> Last(review[r].sent), outcome |-> outcome])

\* Mutant: the second provider also stands in for one that failed.
AnswerAnyFailure(r) ==
  /\ review[r].at = "asking"
  /\ allowed[r]
  /\ \/ Ended(r, Attempted(r, "completed"), "advice")
     \/ \E outcome \in {"http_error", "failed", "rate_limited"} :
          IF review[r].secondary # None /\ Len(review[r].sent) = 1
          THEN /\ review' = [review EXCEPT ![r].attempts = Attempted(r, outcome),
                                           ![r].sent = Append(@, review[r].secondary)]
               /\ UNCHANGED busy
          ELSE Ended(r, Attempted(r, outcome), "error")
  /\ UNCHANGED allowed

\* Only a rate limit of the first provider, with the guard still passing, leads
\* to the second.
Answer(r) ==
  /\ review[r].at = "asking"
  /\ allowed[r]
  /\ \/ Ended(r, Attempted(r, "completed"), "advice")
     \/ \E outcome \in {"http_error", "failed"} : Ended(r, Attempted(r, outcome), "error")
     \/ IF review[r].secondary # None /\ Len(review[r].sent) = 1
        THEN /\ review' = [review EXCEPT ![r].attempts = Attempted(r, "rate_limited"),
                                         ![r].sent = Append(@, review[r].secondary)]
             /\ UNCHANGED busy
        ELSE Ended(r, Attempted(r, "rate_limited"), "error")
  /\ UNCHANGED allowed

\* The guard is asked again after the answer, or after the failure to get one;
\* what it raises leaves without the attempts, as does a cancellation.
AnswerRefused(r) ==
  /\ review[r].at = "asking"
  /\ ~allowed[r]
  /\ Ended(r, <<>>, "refused")
  /\ UNCHANGED allowed

Cancelled(r) ==
  /\ review[r].at = "asking"
  /\ Ended(r, <<>>, "cancelled")
  /\ UNCHANGED allowed

Revoke(r) ==
  /\ allowed' = [allowed EXCEPT ![r] = ~@]
  /\ UNCHANGED <<busy, review>>

mbNext ==
  \E r \in Reviewer :
    \/ \E primary, secondary \in Enabled \cup {None} : Begin(r, primary, secondary)
    \/ Refuse(r) \/ Answer(r) \/ AnswerRefused(r) \/ Cancelled(r) \/ Revoke(r)

-----------------------------------------------------------------------------
mbTypeOK ==
  /\ busy \in BOOLEAN
  /\ \A r \in Reviewer :
       /\ allowed[r] \in BOOLEAN
       /\ review[r].at \in {"idle", "asking", "ended"}
       /\ review[r].end \in {None, "advice", "error", "refused", "cancelled"}
       /\ review[r].secondary \in Enabled \cup {None}
       /\ ToSet(review[r].sent) \subseteq Enabled

(* "At most one primary request and one explicitly approved secondary.      *)
(* Never retry the throttled provider, loop providers or switch on text"    *)
(* (broker.py:140-141), and the assessment's record names whom the summary  *)
(* was sent to: whatever the providers answer and whenever the guard is     *)
(* revoked, a review that ends with advice or an error lists exactly the    *)
(* providers asked, in order, and turned to the second only when the first  *)
(* said it was throttled.  A review that the guard or a cancellation ends   *)
(* lists none, though it may have asked one or two (broker.py:155-158).     *)
(* The broker is busy exactly while one review waits for an answer.         *)
EgressAccounted ==
  /\ \A r \in Reviewer :
       LET v == review[r]
       IN  /\ Len(v.sent) <= 2 /\ IsInjective(v.sent)
           /\ \A i \in 2 .. Len(v.sent) :
                v.sent[i] = v.secondary
                /\ (v.end \in {"advice", "error"} => v.attempts[i - 1].outcome = "rate_limited")
           /\ v.end \in {"advice", "error"} =>
                /\ Len(v.attempts) = Len(v.sent)
                /\ \A i \in 1 .. Len(v.sent) : v.attempts[i].provider = v.sent[i]
                /\ v.end = "advice" <=> Last(v.attempts).outcome = "completed"
           /\ v.end \in {"refused", "cancelled"} => v.attempts = <<>>
  /\ \A r, q \in Reviewer : review[r].at = "asking" /\ review[q].at = "asking" => r = q
  /\ busy <=> \E r \in Reviewer : review[r].at = "asking"
=============================================================================
