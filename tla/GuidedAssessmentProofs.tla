----------------------- MODULE GuidedAssessmentProofs -----------------------
(***************************************************************************)
(* The stored end of a guided assessment, its cancellation and what may    *)
(* start, for any number of assessments, any selection of options and any  *)
(* scopes.  A run works through what it selected in one fixed order, so    *)
(* the operation it awaits tells which stages are behind it: that is the   *)
(* inductive part, and it rests on what is left of the run being sorted    *)
(* and complete.                                                           *)
(***************************************************************************)
EXTENDS GuidedAssessment, FiniteSetTheorems, TLAPS

\* The one order in which a run awaits anything.
Order == [hash |-> 1, trigger |-> 2, scan |-> 3, rehash |-> 4, case |-> 5,
          present |-> 6, install |-> 7, identity |-> 8, package |-> 9, launch |-> 10,
          baseline |-> 11, discover |-> 12, settle |-> 13, logs |-> 14,
          review |-> 15, fallback |-> 16]
Names == DOMAIN Order

\* What a selection asks for.
Wanted(chosen) ==
    {"hash", "trigger", "scan", "rehash"}
      \cup (IF "api" \in chosen THEN {"case"} ELSE {})
      \cup (IF "install" \in chosen THEN {"present", "install"} ELSE {})
      \cup (IF "dast" \in chosen
            THEN {"identity", "package", "baseline", "discover", "settle", "logs"} ELSE {})
      \cup (IF "launch" \in chosen THEN {"launch"} ELSE {})
      \cup (IF "llm" \in chosen THEN {"review"} ELSE {})
      \cup (IF "secondary" \in chosen THEN {"fallback"} ELSE {})

\* In order, each once but for the two API cases.
Sorted(s) ==
    /\ s \in Seq(Names)
    /\ \A i, j \in 1 .. Len(s) : i < j =>
         Order[s[i]] < Order[s[j]] \/ (s[i] = "case" /\ s[j] = "case")

\* What is left of a run that awaits the first of s: all that was selected and
\* comes after it.
Remaining(s, chosen) ==
    /\ Sorted(s)
    /\ \A i \in 1 .. Len(s) : s[i] \in Wanted(chosen)
    /\ s # <<>> => \A n \in Wanted(chosen) :
                     Order[n] > Order[s[1]] => \E i \in 2 .. Len(s) : s[i] = n

-----------------------------------------------------------------------------
\* A row has the fields and the stages it was made with.
Shape(r) ==
    /\ DOMAIN r = DOMAIN NoAssessment /\ DOMAIN r.stage = Stages
    /\ r.status \in {"none", "running", "completed", "awaiting_action_review",
                     "paused", "error", "cancelled", "interrupted"}
    /\ r.cancel \in BOOLEAN /\ r.compared \in BOOLEAN /\ r.attempts \in 0 .. 1
    /\ r.pairs \subseteq Pairs

\* What the row says of its stages, whoever wrote it and whatever came after.
Honest(r) ==
    /\ Shape(r)
    /\ r.status = "none" => r = NoAssessment
    /\ r.status # "none" =>
         /\ r.stage["sast"] # "not_selected"
         /\ \A s \in {"api", "dast"} \cap r.chosen : r.stage[s] # "not_selected"
    /\ r.stage["sast"] \in {"completed", "completed_with_observations"} => r.scan
    /\ r.logs = "observed" =>
         /\ "dast" \in r.chosen /\ r.stage["sast"] = "completed"
         /\ r.stage["dast"] \in {"paused", "awaiting_action_review"}

\* What a run that got to its end has done.
Done(r) ==
    /\ r.stage["sast"] = "completed"
    /\ "api" \in r.chosen => r.stage["api"] = "completed_with_observations"
    /\ "dast" \in r.chosen => r.stage["dast"] \in {"paused", "awaiting_action_review"}
    /\ "llm" \in r.chosen => r.stage["llm"] \in {"completed", "error"}
    /\ r.cancel => r.logs = "unavailable" /\ "llm" \notin r.chosen

\* What a stored end says.
Ended(r) ==
    /\ r.status \notin {"none", "running", "interrupted"} =>
         \A s \in Stages : r.stage[s] \notin {"queued", "running"}
    /\ r.status \in {"completed", "awaiting_action_review"} =>
         Done(r) /\ ("dast" \in r.chosen => r.stage["dast"] = "awaiting_action_review")

\* The stages behind a run that has done everything up to place k.
Behind(r, k) ==
    /\ r.status = "running"
    /\ k >= 2 => r.scan
    /\ k >= 3 => r.stage["sast"] = "completed"
    /\ k >= 5 /\ "api" \in r.chosen => r.stage["api"] = "completed_with_observations"
    /\ k >= 12 /\ "dast" \in r.chosen => r.stage["dast"] \in {"paused", "awaiting_action_review"}
    /\ k <= 13 => r.logs # "observed"

\* The probe: three requests at most, under the one attempt the row counts.
Probed(r, p, n) ==
    /\ DOMAIN p = DOMAIN NoProbe /\ n \in 0 .. 3
    /\ p.at \in {"none", "sleep", "request"} /\ p.left \in 0 .. 3 /\ p.pairs \subseteq Pairs
    /\ r.attempts = 0 => n = 0 /\ p.at = "none"
    /\ p.at # "none" => n + p.left = 3 /\ r.stage["api"] = "completed_with_observations"
    /\ p.at = "sleep" => p.left > 0
    /\ r.compared =>
         n = 3 /\ r.attempts = 1 /\ r.stage["api"] = "completed_with_observations"

\* The coroutine of create, then of run, which holds the slot.
Tasked(r, t, slot) ==
    /\ DOMAIN t = DOMAIN NoTask
    /\ t.at \in {"none", "validating", "hashing", "begin", "await"}
    /\ t.at \in {"validating", "hashing"} => r = NoAssessment
    /\ slot <=> t.at \in {"begin", "await"}
    /\ t.at \in {"begin", "await"} =>
         /\ t.chosen = r.chosen /\ t.todo # <<>> /\ Remaining(t.todo, t.chosen)
         /\ r.attempts = 0
         /\ Behind(r, Order[t.todo[1]] - 1)
    /\ t.at = "begin" => t.todo[1] = "hash"

\* StagesTruthful and CancelExplained in parts, and what a run has behind it.
\* While the server is down nothing runs.
IInv ==
    /\ DOMAIN row = Assessment /\ DOMAIN task = Assessment
    /\ DOMAIN probe = Assessment /\ DOMAIN sent = Assessment
    /\ \A a \in Assessment :
         /\ Honest(row[a]) /\ Ended(row[a])
         /\ Probed(row[a], probe[a], sent[a]) /\ Tasked(row[a], task[a], a \in tasks)
    /\ tasks \subseteq Assessment
    /\ IsFiniteSet(tasks) /\ Cardinality(tasks) <= 1
    /\ ServerUp \/ \A a \in Assessment : task[a].at = "none"

-----------------------------------------------------------------------------
LEMMA Places == \A n \in Names : Order[n] \in 1 .. 16
  BY DEF Names, Order

LEMMA WantedNames == ASSUME NEW chosen PROVE Wanted(chosen) \subseteq Names
  BY DEF Wanted, Names, Order

\* A part of a run: what it awaits and between which places.
Stretch(s, lo, hi, content) ==
    /\ Sorted(s)
    /\ \A i \in 1 .. Len(s) : Order[s[i]] \in lo .. hi /\ s[i] \in content
    /\ \A n \in content : \E i \in 1 .. Len(s) : s[i] = n

\* Two parts that follow each other.
LEMMA Joined ==
    ASSUME NEW s, NEW t, NEW lo \in Nat, NEW mid \in Nat, NEW hi \in Nat, NEW A, NEW B,
           lo <= mid, mid <= hi, Stretch(s, lo, mid, A), Stretch(t, mid + 1, hi, B)
    PROVE  Stretch(s \o t, lo, hi, A \cup B)
<1> DEFINE u == s \o t
<1>1. /\ s \in Seq(Names) /\ t \in Seq(Names) /\ u \in Seq(Names)
      /\ Len(s) \in Nat /\ Len(t) \in Nat /\ Len(u) = Len(s) + Len(t)
      /\ \A i \in 1 .. Len(s) : u[i] = s[i]
      /\ \A i \in Len(s) + 1 .. Len(s) + Len(t) : u[i] = t[i - Len(s)]
  BY DEF Stretch, Sorted
<1>2. \A i \in 1 .. Len(u) :
        \/ i \in 1 .. Len(s) /\ u[i] = s[i]
        \/ i > Len(s) /\ i - Len(s) \in 1 .. Len(t) /\ u[i] = t[i - Len(s)]
  BY <1>1
<1>3. \A i \in 1 .. Len(t) : i + Len(s) \in 1 .. Len(u) /\ u[i + Len(s)] = t[i]
  BY <1>1
<1>4. \A i \in 1 .. Len(s) : i \in 1 .. Len(u)
  BY <1>1
<1> HIDE DEF u
<1>5. ASSUME NEW i \in 1 .. Len(u) PROVE u[i] \in A \cup B /\ Order[u[i]] \in lo .. hi
  <2>1. CASE i \in 1 .. Len(s) /\ u[i] = s[i]
    BY <2>1 DEF Stretch
  <2>2. CASE i - Len(s) \in 1 .. Len(t) /\ u[i] = t[i - Len(s)]
    <3>1. Order[u[i]] \in mid + 1 .. hi /\ u[i] \in B
      BY <2>2 DEF Stretch
    <3> QED BY <3>1
  <2> QED BY <1>2, <2>1, <2>2
<1>6. \A n \in A \cup B : \E i \in 1 .. Len(u) : u[i] = n
  BY <1>1, <1>3, <1>4 DEF Stretch
<1>7. ASSUME NEW i \in 1 .. Len(u), NEW j \in 1 .. Len(u), i < j
      PROVE  Order[u[i]] < Order[u[j]] \/ (u[i] = "case" /\ u[j] = "case")
  <2>1. CASE j <= Len(s)
    <3>1. i \in 1 .. Len(s) /\ j \in 1 .. Len(s) /\ u[i] = s[i] /\ u[j] = s[j]
      BY <1>1, <1>2, <1>7, <2>1
    <3> QED BY <1>7, <3>1 DEF Stretch, Sorted
  <2>2. CASE i > Len(s)
    <3> DEFINE k == i - Len(s)
               l == j - Len(s)
    <3>1. k \in 1 .. Len(t) /\ l \in 1 .. Len(t) /\ k < l /\ u[i] = t[k] /\ u[j] = t[l]
      BY <1>1, <1>2, <1>7, <2>2
    <3> HIDE DEF k, l
    <3> QED BY <3>1 DEF Stretch, Sorted
  <2>3. CASE i <= Len(s) /\ j > Len(s)
    <3>1. Order[u[i]] \in lo .. mid
      BY <1>2, <2>3 DEF Stretch
    <3>2. j - Len(s) \in 1 .. Len(t) /\ u[j] = t[j - Len(s)]
      BY <1>1, <1>2, <2>3
    <3>3. Order[u[j]] \in mid + 1 .. hi
      BY <3>2 DEF Stretch
    <3> QED BY <3>1, <3>3
  <2> QED BY <1>1, <2>1, <2>2, <2>3
<1> QED BY <1>1, <1>5, <1>6, <1>7 DEF Stretch, Sorted, u

\* Where a part of a run stands, whether or not it is selected.
LEMMA Part ==
    ASSUME NEW chosen, NEW option, NEW s, NEW lo \in Nat, NEW hi \in Nat, NEW A, Stretch(s, lo, hi, A)
    PROVE  Stretch(IF option \in chosen THEN s ELSE <<>>, lo, hi,
                   IF option \in chosen THEN A ELSE {})
<1>1. Stretch(<<>>, lo, hi, {})
  BY DEF Stretch, Sorted
<1> QED BY <1>1

LEMMA Parts ==
    /\ Stretch(<<"hash", "trigger", "scan", "rehash">>, 1, 4, {"hash", "trigger", "scan", "rehash"})
    /\ Stretch(<<"case", "case">>, 5, 5, {"case"})
    /\ Stretch(<<"present", "install">>, 6, 7, {"present", "install"})
    /\ Stretch(<<"identity", "package">>, 8, 9, {"identity", "package"})
    /\ Stretch(<<"launch">>, 10, 10, {"launch"})
    /\ Stretch(<<"baseline", "discover", "settle", "logs">>, 11, 14,
               {"baseline", "discover", "settle", "logs"})
    /\ Stretch(<<"review">>, 15, 15, {"review"})
    /\ Stretch(<<"fallback">>, 16, 16, {"fallback"})
<1>1. ASSUME NEW x \in Names PROVE Stretch(<<x>>, Order[x], Order[x], {x})
  BY Places DEF Stretch, Sorted
<1>2. ASSUME NEW x \in Names, NEW y \in Names, Order[x] < Order[y]
      PROVE  Stretch(<<x, y>>, Order[x], Order[y], {x, y})
  <2> DEFINE s == <<x, y>>
  <2>1. s \in Seq(Names) /\ Len(s) = 2 /\ s[1] = x /\ s[2] = y
    OBVIOUS
  <2> HIDE DEF s
  <2>2. Sorted(s)
    BY <1>2, <2>1 DEF Sorted
  <2>3. Order[x] \in 1 .. 16 /\ Order[y] \in 1 .. 16
    BY Places
  <2>4. \A i \in 1 .. Len(s) : Order[s[i]] \in Order[x] .. Order[y] /\ s[i] \in {x, y}
    BY <1>2, <2>1, <2>3
  <2>5. \A n \in {x, y} : \E i \in 1 .. Len(s) : s[i] = n
    BY <2>1
  <2> QED BY <2>2, <2>4, <2>5 DEF Stretch, s
<1>3. Stretch(<<"case", "case">>, 5, 5, {"case"})
  BY DEF Stretch, Sorted, Names, Order
<1>4. /\ Order["hash"] = 1 /\ Order["trigger"] = 2 /\ Order["scan"] = 3 /\ Order["rehash"] = 4
      /\ Order["present"] = 6 /\ Order["install"] = 7 /\ Order["identity"] = 8
      /\ Order["package"] = 9 /\ Order["launch"] = 10 /\ Order["baseline"] = 11
      /\ Order["discover"] = 12 /\ Order["settle"] = 13 /\ Order["logs"] = 14
      /\ Order["review"] = 15 /\ Order["fallback"] = 16
      /\ {"hash", "trigger", "scan", "rehash", "present", "install", "identity", "package",
          "launch", "baseline", "discover", "settle", "logs", "review", "fallback"} \subseteq Names
  BY DEF Names, Order
<1>5. ASSUME NEW w \in Names, NEW x \in Names, NEW y \in Names, NEW z \in Names,
             Order[w] < Order[x], Order[x] < Order[y], Order[y] < Order[z]
      PROVE  Stretch(<<w, x, y, z>>, Order[w], Order[z], {w, x, y, z})
  <2> DEFINE s == <<w, x, y, z>>
  <2>1. s \in Seq(Names) /\ Len(s) = 4 /\ s[1] = w /\ s[2] = x /\ s[3] = y /\ s[4] = z
    OBVIOUS
  <2> HIDE DEF s
  <2>2. /\ Order[w] \in 1 .. 16 /\ Order[x] \in 1 .. 16
        /\ Order[y] \in 1 .. 16 /\ Order[z] \in 1 .. 16
    BY Places
  <2>3. Sorted(s)
    <3> DEFINE a == Order[w]
               b == Order[x]
               c == Order[y]
               d == Order[z]
    <3>1. a < b /\ a < c /\ a < d /\ b < c /\ b < d /\ c < d
      BY <1>5, <2>2
    <3>2. \A i, j \in 1 .. Len(s) : i < j =>
            <<i, j>> \in {<<1, 2>>, <<1, 3>>, <<1, 4>>, <<2, 3>>, <<2, 4>>, <<3, 4>>}
      BY <2>1
    <3> QED BY <2>1, <3>1, <3>2 DEF Sorted
  <2>4. \A i \in 1 .. Len(s) : Order[s[i]] \in Order[w] .. Order[z] /\ s[i] \in {w, x, y, z}
    <3>1. /\ Order[w] \in Order[w] .. Order[z] /\ Order[x] \in Order[w] .. Order[z]
          /\ Order[y] \in Order[w] .. Order[z] /\ Order[z] \in Order[w] .. Order[z]
      <4> DEFINE a == Order[w]
                 b == Order[x]
                 c == Order[y]
                 d == Order[z]
      <4>1. /\ a \in 1 .. 16 /\ b \in 1 .. 16 /\ c \in 1 .. 16 /\ d \in 1 .. 16
            /\ a < b /\ b < c /\ c < d
        BY <1>5, <2>2
      <4> HIDE DEF a, b, c, d
      <4>2. a \in a .. d /\ b \in a .. d /\ c \in a .. d /\ d \in a .. d
        BY <4>1
      <4> QED BY <4>2 DEF a, b, c, d
    <3>2. \A i \in 1 .. Len(s) : i = 1 \/ i = 2 \/ i = 3 \/ i = 4
      BY <2>1
    <3> QED BY <2>1, <3>1, <3>2
  <2>5. \A n \in {w, x, y, z} : \E i \in 1 .. Len(s) : s[i] = n
    BY <2>1
  <2> QED BY <2>3, <2>4, <2>5 DEF Stretch, s
<1>6. /\ Stretch(<<"hash", "trigger", "scan", "rehash">>, 1, 4, {"hash", "trigger", "scan", "rehash"})
      /\ Stretch(<<"baseline", "discover", "settle", "logs">>, 11, 14,
                 {"baseline", "discover", "settle", "logs"})
  <2>1. /\ Order["hash"] < Order["trigger"] /\ Order["trigger"] < Order["scan"]
        /\ Order["scan"] < Order["rehash"] /\ Order["baseline"] < Order["discover"]
        /\ Order["discover"] < Order["settle"] /\ Order["settle"] < Order["logs"]
    BY <1>4
  <2>2. Stretch(<<"hash", "trigger", "scan", "rehash">>, Order["hash"], Order["rehash"],
                {"hash", "trigger", "scan", "rehash"})
    BY <1>4, <1>5, <2>1
  <2>3. Stretch(<<"baseline", "discover", "settle", "logs">>, Order["baseline"], Order["logs"],
                {"baseline", "discover", "settle", "logs"})
    BY <1>4, <1>5, <2>1
  <2> QED BY <1>4, <2>2, <2>3
<1>7. /\ Stretch(<<"present", "install">>, 6, 7, {"present", "install"})
      /\ Stretch(<<"identity", "package">>, 8, 9, {"identity", "package"})
  BY <1>2, <1>4
<1>8. /\ Stretch(<<"launch">>, 10, 10, {"launch"})
      /\ Stretch(<<"review">>, 15, 15, {"review"})
      /\ Stretch(<<"fallback">>, 16, 16, {"fallback"})
  BY <1>1, <1>4
<1> QED BY <1>3, <1>6, <1>7, <1>8

\* A run starts with all that was selected, in order, and with the archive.
LEMMA AwaitsRemaining ==
    ASSUME NEW chosen
    PROVE  /\ Awaits(chosen) # <<>> /\ Awaits(chosen)[1] = "hash"
           /\ Remaining(Awaits(chosen), chosen)
<1> DEFINE with(option, s) == IF option \in chosen THEN s ELSE <<>>
           if(option, A) == IF option \in chosen THEN A ELSE {}
           s0 == <<"hash", "trigger", "scan", "rehash">>
           s1 == s0 \o with("api", <<"case", "case">>)
           s2 == s1 \o with("install", <<"present", "install">>)
           s3 == s2 \o with("dast", <<"identity", "package">>)
           s4 == s3 \o with("launch", <<"launch">>)
           s5 == s4 \o with("dast", <<"baseline", "discover", "settle", "logs">>)
           s6 == s5 \o with("llm", <<"review">>)
           s7 == s6 \o with("secondary", <<"fallback">>)
           A0 == {"hash", "trigger", "scan", "rehash"}
           A1 == A0 \cup if("api", {"case"})
           A2 == A1 \cup if("install", {"present", "install"})
           A3 == A2 \cup if("dast", {"identity", "package"})
           A4 == A3 \cup if("launch", {"launch"})
           A5 == A4 \cup if("dast", {"baseline", "discover", "settle", "logs"})
           A6 == A5 \cup if("llm", {"review"})
           A7 == A6 \cup if("secondary", {"fallback"})
<1>1. Awaits(chosen) = s7
  BY DEF Awaits
<1>2. A7 = Wanted(chosen)
  BY DEF Wanted
<1>3. /\ Stretch(s0, 1, 4, A0)
      /\ Stretch(with("api", <<"case", "case">>), 4 + 1, 5, if("api", {"case"}))
      /\ Stretch(with("install", <<"present", "install">>), 5 + 1, 7, if("install", {"present", "install"}))
      /\ Stretch(with("dast", <<"identity", "package">>), 7 + 1, 9, if("dast", {"identity", "package"}))
      /\ Stretch(with("launch", <<"launch">>), 9 + 1, 10, if("launch", {"launch"}))
      /\ Stretch(with("dast", <<"baseline", "discover", "settle", "logs">>), 10 + 1, 14,
                 if("dast", {"baseline", "discover", "settle", "logs"}))
      /\ Stretch(with("llm", <<"review">>), 14 + 1, 15, if("llm", {"review"}))
      /\ Stretch(with("secondary", <<"fallback">>), 15 + 1, 16, if("secondary", {"fallback"}))
  BY Parts, Part
<1> HIDE DEF with, if
<1>4. Stretch(s1, 1, 5, A1)
  BY <1>3, Joined
<1> HIDE DEF s0, s1, A0, A1
<1>5. Stretch(s2, 1, 7, A2)
  BY <1>3, <1>4, Joined
<1> HIDE DEF s2, A2
<1>6. Stretch(s3, 1, 9, A3)
  BY <1>3, <1>5, Joined
<1> HIDE DEF s3, A3
<1>7. Stretch(s4, 1, 10, A4)
  BY <1>3, <1>6, Joined
<1> HIDE DEF s4, A4
<1>8. Stretch(s5, 1, 14, A5)
  BY <1>3, <1>7, Joined
<1> HIDE DEF s5, A5
<1>9. Stretch(s6, 1, 15, A6)
  BY <1>3, <1>8, Joined
<1> HIDE DEF s6, A6
<1>10. Stretch(s7, 1, 16, A7)
  BY <1>3, <1>9, Joined
<1> HIDE DEF s7, A7
<1>11. Stretch(Awaits(chosen), 1, 16, Wanted(chosen))
  BY <1>1, <1>2, <1>10
<1> DEFINE s == Awaits(chosen)
<1> HIDE DEF s
<1>12. Stretch(s, 1, 16, Wanted(chosen))
  BY <1>11 DEF s
<1>13. PICK k \in 1 .. Len(s) : s[k] = "hash"
  BY <1>12 DEF Stretch, Wanted
<1>14. k = 1 /\ s # <<>>
  <2>1. s \in Seq(Names)
    BY <1>12 DEF Stretch, Sorted
  <2>2. Order["hash"] = 1 /\ "hash" # "case"
    BY DEF Order
  <2>3. 1 \in 1 .. Len(s) /\ s[1] \in Names
    BY <2>1, <1>13
  <2>4. 1 < k => Order[s[1]] < 1
    BY <1>12, <1>13, <2>2, <2>3 DEF Stretch, Sorted
  <2>5. ~(1 < k)
    BY <2>3, <2>4, Places
  <2> QED BY <1>13, <2>1, <2>5
<1>15. \A n \in Wanted(chosen) : Order[n] > Order[s[1]] => \E i \in 2 .. Len(s) : s[i] = n
  <2> SUFFICES ASSUME NEW n \in Wanted(chosen), Order[n] > Order[s[1]]
               PROVE  \E i \in 2 .. Len(s) : s[i] = n
    OBVIOUS
  <2>1. PICK i \in 1 .. Len(s) : s[i] = n
    BY <1>12 DEF Stretch
  <2>2. Order[n] \in 1 .. 16
    BY Places, WantedNames
  <2>3. i # 1
    BY <2>1, <2>2
  <2> QED BY <2>1, <2>3
<1> QED BY <1>12, <1>13, <1>14, <1>15 DEF Stretch, Remaining, s

\* After the first await of what is left comes the next that was selected.
LEMMA Following ==
    ASSUME NEW s, NEW chosen, Remaining(s, chosen), s # <<>>
    PROVE  LET t == Tail(s)
           IN /\ Head(s) = s[1] /\ s[1] \in Wanted(chosen) /\ Order[s[1]] \in 1 .. 16
              /\ Remaining(t, chosen)
              /\ t = <<>> => \A n \in Wanted(chosen) : Order[n] <= Order[s[1]]
              /\ t # <<>> =>
                   /\ Head(t) = t[1] /\ t[1] \in Wanted(chosen) /\ Order[t[1]] \in 1 .. 16
                   /\ Order[s[1]] < Order[t[1]] \/ (s[1] = "case" /\ t[1] = "case")
                   /\ \A n \in Wanted(chosen) : Order[n] > Order[s[1]] => Order[n] >= Order[t[1]]
<1> DEFINE t == Tail(s)
<1>1. /\ s \in Seq(Names) /\ Len(s) \in Nat /\ Len(s) >= 1 /\ t \in Seq(Names)
      /\ Len(t) = Len(s) - 1 /\ \A i \in 1 .. Len(t) : t[i] = s[i + 1]
      /\ Head(s) = s[1] /\ (t # <<>> => Len(t) >= 1 /\ Head(t) = t[1])
  BY DEF Remaining, Sorted
<1>2. s[1] \in Wanted(chosen) /\ Order[s[1]] \in 1 .. 16
  BY <1>1, Places, WantedNames DEF Remaining
<1>3. \A i \in 2 .. Len(s) : i - 1 \in 1 .. Len(t) /\ t[i - 1] = s[i]
  BY <1>1
<1>4. \A n \in Wanted(chosen) : Order[n] \in 1 .. 16
  BY Places, WantedNames
<1> HIDE DEF t
<1>5. Sorted(t)
  BY <1>1 DEF Remaining, Sorted
<1>6. \A i \in 1 .. Len(t) : t[i] \in Wanted(chosen)
  BY <1>1 DEF Remaining
<1>7. ASSUME NEW n \in Wanted(chosen), Order[n] > Order[s[1]]
      PROVE  \E i \in 1 .. Len(t) : t[i] = n
  BY <1>3, <1>7 DEF Remaining
<1>8. ASSUME t # <<>>
      PROVE  /\ t[1] \in Wanted(chosen) /\ Order[t[1]] \in 1 .. 16
             /\ Order[s[1]] < Order[t[1]] \/ (s[1] = "case" /\ t[1] = "case")
  BY <1>1, <1>4, <1>6, <1>8 DEF Remaining, Sorted
<1>9. ASSUME t # <<>>, NEW n \in Wanted(chosen), Order[n] > Order[s[1]]
      PROVE  Order[n] >= Order[t[1]] /\ (Order[n] > Order[t[1]] => \E i \in 2 .. Len(t) : t[i] = n)
  <2>1. PICK i \in 1 .. Len(t) : t[i] = n
    BY <1>7, <1>9
  <2>2. CASE i = 1
    BY <1>4, <2>1, <2>2
  <2>3. CASE i > 1
    <3>1. Order[t[1]] < Order[n] \/ Order[n] = Order[t[1]]
      BY <1>1, <1>5, <1>9, <2>1, <2>3 DEF Sorted
    <3> QED BY <1>4, <1>8, <1>9, <2>1, <2>3, <3>1
  <2> QED BY <2>1, <2>2, <2>3
<1>10. Remaining(t, chosen)
  <2> SUFFICES ASSUME t # <<>>, NEW n \in Wanted(chosen), Order[n] > Order[t[1]]
               PROVE  \E i \in 2 .. Len(t) : t[i] = n
    BY <1>5, <1>6 DEF Remaining
  <2>1. Order[n] > Order[s[1]]
    BY <1>2, <1>4, <1>8
  <2> QED BY <1>9, <2>1
<1>11. ASSUME t = <<>>, NEW n \in Wanted(chosen) PROVE Order[n] <= Order[s[1]]
  <2>1. Len(t) = 0
    BY <1>11
  <2> QED BY <1>2, <1>4, <1>7, <2>1
<1> QED BY <1>1, <1>2, <1>8, <1>9, <1>10, <1>11 DEF t

-----------------------------------------------------------------------------
\* What a stage update leaves alone.
Same(r, n) ==
    /\ n.status = r.status /\ n.chosen = r.chosen /\ n.cancel = r.cancel
    /\ n.attempts = r.attempts /\ n.compared = r.compared

\* The place a run has reached once x is done; between two API cases the stage
\* is still open.
Reached(x, rest) == IF x = "case" /\ rest # <<>> /\ Head(rest) = "case" THEN 4 ELSE Order[x]

\* Every await leaves the row honest, and one that lets the run go on leaves its
\* stage as it says.
LEMMA NotedTruth ==
    ASSUME NEW r, Honest(r), NEW x \in Wanted(r.chosen), Behind(r, Order[x] - 1),
           NEW came \in {"good", "fails"} \cup Otherwise(x), NEW rest,
           rest # <<>> => Head(rest) = rest[1]
    PROVE  LET n == Noted(r, x, came, rest)
           IN /\ Honest(n) /\ Same(r, n)
              /\ Verdict(x, came) = "on" =>
                   /\ Behind(n, Reached(x, rest))
                   /\ x \in {"review", "fallback"} /\ rest = <<>> =>
                        n.stage["llm"] \in {"completed", "error"}
              /\ x \in {"settle", "logs"} /\ came = "fails" => n.logs = "unavailable"
<1> DEFINE n == Noted(r, x, came, rest)
<1>1. Order[x] \in 1 .. 16 /\ x \in Names
  BY Places, WantedNames
<1>2. CASE x \in {"hash", "rehash", "present", "install", "identity", "package", "launch", "baseline"}
  <2>1. n = r
    BY <1>2 DEF Noted
  <2>2. Order[x] \in {1, 4, 6, 7, 8, 9, 10, 11} /\ Reached(x, rest) = Order[x]
    BY <1>2 DEF Order, Reached
  <2> QED BY <1>2, <2>1, <2>2 DEF Behind, Same
<1>3. CASE x = "trigger"
  <2>1. Order[x] = 2 /\ Reached(x, rest) = 2
    BY <1>3 DEF Order, Reached
  <2>2. n = r \/ n = [r EXCEPT !.scan = TRUE]
    BY <1>3 DEF Noted
  <2>3. Verdict(x, came) = "on" => n = [r EXCEPT !.scan = TRUE]
    BY <1>3 DEF Noted, Verdict
  <2> QED BY <1>3, <2>1, <2>2, <2>3 DEF Honest, Shape, Behind, Same, NoAssessment
<1>4. CASE x = "scan"
  <2>1. Order[x] = 3 /\ Reached(x, rest) = 3
    BY <1>4 DEF Order, Reached
  <2>2. \/ n = r /\ came = "raised"
        \/ n = [r EXCEPT !.stage["sast"] = "partial"] /\ came = "partial"
        \/ n = [r EXCEPT !.stage["sast"] = "completed"]
    BY <1>4 DEF Noted
  <2>3. Verdict(x, came) = "on" => n = [r EXCEPT !.stage["sast"] = "completed"]
    BY <1>4, <2>2 DEF Verdict
  <2> QED BY <1>4, <2>1, <2>2, <2>3 DEF Honest, Shape, Behind, Same, NoAssessment, Stages
<1>5. CASE x = "case"
  <2>1. Order[x] = 5 /\ "api" \in r.chosen
    BY <1>5 DEF Order, Wanted
  <2>2. n = r \/ n = [r EXCEPT !.stage["api"] = "completed_with_observations"]
    BY <1>5 DEF Noted
  <2>3. Verdict(x, came) = "on" =>
          Reached(x, rest) = 4 \/
          (Reached(x, rest) = 5 /\ n = [r EXCEPT !.stage["api"] = "completed_with_observations"])
    BY <1>5, <2>1 DEF Verdict, Noted, Otherwise, Reached
  <2> QED BY <1>5, <2>1, <2>2, <2>3 DEF Honest, Shape, Behind, Same, NoAssessment, Stages
<1>6. CASE x = "discover"
  <2>1. Order[x] = 12 /\ "dast" \in r.chosen /\ Reached(x, rest) = 12
    BY <1>6 DEF Order, Wanted, Reached
  <2>2. \/ n = r /\ came = "raised"
        \/ n = [r EXCEPT !.stage["dast"] = "paused"]
        \/ n = [r EXCEPT !.stage["dast"] = "awaiting_action_review"]
    BY <1>6 DEF Noted
  <2>3. Verdict(x, came) = "on" => came # "raised"
    BY DEF Verdict
  <2> QED BY <1>6, <2>1, <2>2, <2>3 DEF Honest, Shape, Behind, Same, NoAssessment, Stages
<1>7. CASE x \in {"settle", "logs"}
  <2>1. Order[x] \in {13, 14} /\ "dast" \in r.chosen /\ Reached(x, rest) = Order[x]
    BY <1>7 DEF Order, Wanted, Reached
  <2>2. \/ n = r
        \/ n = [r EXCEPT !.logs = "unavailable"]
        \/ n = [r EXCEPT !.logs = "observed"] /\ x = "logs"
        \/ n = [r EXCEPT !.logs = r.logs]
    BY <1>7 DEF Noted
  <2>3. came = "fails" => n = [r EXCEPT !.logs = "unavailable"]
    BY <1>7 DEF Noted
  <2>4. x = "logs" => Order[x] = 14
    BY DEF Order
  <2> QED BY <1>7, <2>1, <2>2, <2>3, <2>4 DEF Honest, Shape, Behind, Same, NoAssessment
<1>8. CASE x \in {"review", "fallback"}
  <2>1. Order[x] \in {15, 16} /\ Reached(x, rest) = Order[x]
    BY <1>8 DEF Order, Reached
  <2>2. \/ n = r
        \/ n = [r EXCEPT !.stage["llm"] = "error"]
        \/ n = [r EXCEPT !.stage["llm"] = "completed"]
    BY <1>8 DEF Noted
  <2>3. came \in {"good", "fails", "limited", "refused"}
    BY <1>8 DEF Otherwise, Swallows
  <2>4. rest = <<>> /\ Verdict(x, came) = "on" =>
          \/ n = [r EXCEPT !.stage["llm"] = "error"]
          \/ n = [r EXCEPT !.stage["llm"] = "completed"]
    BY <1>8, <2>3 DEF Noted, Verdict
  <2> QED BY <1>8, <2>1, <2>2, <2>4 DEF Honest, Shape, Behind, Same, NoAssessment, Stages
<1>9. x \in {"hash", "rehash", "present", "install", "identity", "package", "launch", "baseline",
             "trigger", "scan", "case", "discover", "settle", "logs", "review", "fallback"}
  BY <1>1 DEF Names, Order
<1> QED BY <1>2, <1>3, <1>4, <1>5, <1>6, <1>7, <1>8, <1>9

\* Between the place reached and the next await nothing was selected.
LEMMA Nothing ==
    ASSUME NEW r, NEW k \in 0 .. 16, Behind(r, k), NEW y \in 0 .. 16, k <= y,
           \A n \in Wanted(r.chosen) : Order[n] > k => Order[n] > y
    PROVE  Behind(r, y)
<1>1. /\ Order["trigger"] = 2 /\ Order["scan"] = 3 /\ Order["case"] = 5 /\ Order["discover"] = 12
      /\ {"trigger", "scan"} \subseteq Wanted(r.chosen)
      /\ "api" \in r.chosen => "case" \in Wanted(r.chosen)
      /\ "dast" \in r.chosen => "discover" \in Wanted(r.chosen)
  BY DEF Order, Wanted
<1> QED BY <1>1 DEF Behind

\* The end of a run: the row is closed as its status says.
LEMMA ClosedTruth ==
    ASSUME NEW r, Honest(r), r.status # "none",
           NEW status \in {"paused", "error", "cancelled", "interrupted", Finished(r)},
           status \notin {"paused", "error", "cancelled", "interrupted"} => Done(r)
    PROVE  LET e == [Settled(r) EXCEPT !.status = status]
           IN /\ Honest(e) /\ Ended(e)
              /\ e.attempts = r.attempts /\ e.compared = r.compared
              /\ r.stage["api"] = "completed_with_observations" =>
                   e.stage["api"] = "completed_with_observations"
<1> DEFINE e == [Settled(r) EXCEPT !.status = status]
<1>1. /\ DOMAIN e = DOMAIN NoAssessment /\ e.status = status /\ e.chosen = r.chosen
      /\ e.cancel = r.cancel /\ e.scan = r.scan /\ e.logs = r.logs /\ e.attempts = r.attempts
      /\ e.pairs = r.pairs /\ e.compared = r.compared
      /\ e.stage = [s \in Stages |-> IF r.stage[s] = "queued" THEN "not_executed"
                                    ELSE IF r.stage[s] = "running" THEN "incomplete" ELSE r.stage[s]]
  BY DEF Settled, Honest, Shape, NoAssessment
<1> HIDE DEF e
<1>2. Finished(r) \in {"completed", "paused", "awaiting_action_review"}
  BY DEF Finished
<1>3. status \notin {"none", "running"}
  BY <1>2
<1>4. \A s \in Stages : /\ e.stage[s] \notin {"queued", "running"}
                        /\ r.stage[s] \notin {"queued", "running"} => e.stage[s] = r.stage[s]
                        /\ e.stage[s] \in {"completed", "not_selected"} => e.stage[s] = r.stage[s]
  BY <1>1
<1>5. {"sast", "api", "dast", "llm"} = Stages
  BY DEF Stages
<1>6. Honest(e)
  BY <1>1, <1>2, <1>3, <1>4, <1>5 DEF Honest, Shape
<1>7. status \in {"completed", "awaiting_action_review"} =>
        Done(r) /\ ("dast" \in r.chosen => r.stage["dast"] = "awaiting_action_review")
  BY DEF Finished, Done
<1>8. Ended(e)
  BY <1>1, <1>4, <1>5, <1>7 DEF Ended, Done
<1> QED BY <1>1, <1>4, <1>5, <1>6, <1>8 DEF e


\* An operation that lets the run go on: what is left, and what is behind it.
LEMMA LeftTruth ==
    ASSUME NEW r, Honest(r), NEW s, Remaining(s, r.chosen), s # <<>>,
           Behind(r, Order[s[1]] - 1),
           NEW came \in {"good", "fails"} \cup Otherwise(Head(s)),
           Verdict(Head(s), came) = "on"
    PROVE  LET x == Head(s)
               rest == Left(x, came, Tail(s))
               n == Noted(r, x, came, rest)
           IN /\ Honest(n) /\ Same(r, n) /\ Remaining(rest, r.chosen)
              /\ rest # <<>> => Head(rest) = rest[1] /\ Behind(n, Order[rest[1]] - 1)
              /\ rest = <<>> =>
                   /\ Behind(n, 16)
                   /\ "llm" \in r.chosen => n.stage["llm"] \in {"completed", "error"}
                   /\ x \notin {"hash", "trigger", "present", "package", "baseline", "discover"}
                   /\ x \in {"settle", "logs"} => "llm" \notin r.chosen
                   /\ x \in {"settle", "logs"} /\ came = "fails" => n.logs = "unavailable"
<1> DEFINE x == Head(s)
           t == Tail(s)
           rest == Left(x, came, t)
           n == Noted(r, x, came, rest)
<1>1. /\ x = s[1] /\ x \in Wanted(r.chosen) /\ Order[x] \in 1 .. 16 /\ Remaining(t, r.chosen)
      /\ t = <<>> => \A m \in Wanted(r.chosen) : Order[m] <= Order[x]
      /\ t # <<>> =>
           /\ Head(t) = t[1] /\ t[1] \in Wanted(r.chosen) /\ Order[t[1]] \in 1 .. 16
           /\ Order[x] < Order[t[1]] \/ (x = "case" /\ t[1] = "case")
           /\ \A m \in Wanted(r.chosen) : Order[m] > Order[x] => Order[m] >= Order[t[1]]
  BY Following
<1> HIDE DEF x, t
<1>2. \A m \in Wanted(r.chosen) : Order[m] \in 1 .. 16
  BY Places, WantedNames
<1>3. Remaining(<<>>, r.chosen)
  BY DEF Remaining, Sorted
<1>4. /\ Order["hash"] = 1 /\ Order["trigger"] = 2 /\ Order["rehash"] = 4
      /\ Order["present"] = 6 /\ Order["install"] = 7 /\ Order["package"] = 9
      /\ Order["baseline"] = 11 /\ Order["discover"] = 12 /\ Order["settle"] = 13
      /\ Order["logs"] = 14 /\ Order["review"] = 15 /\ Order["fallback"] = 16
      /\ Order["case"] = 5
  BY DEF Order
<1>5. /\ "rehash" \in Wanted(r.chosen)
      /\ x = "present" => "install" \in Wanted(r.chosen)
      /\ x \in {"package", "baseline", "discover", "settle"} => "logs" \in Wanted(r.chosen)
      /\ "llm" \in r.chosen => "review" \in Wanted(r.chosen)
      /\ x \in {"settle", "logs"} => "dast" \in r.chosen
  BY <1>1 DEF Wanted
<1>6. x = "settle" => t # <<>> /\ t[1] = "logs"
  <2> SUFFICES ASSUME x = "settle" PROVE t # <<>> /\ t[1] = "logs"
    OBVIOUS
  <2>1. t # <<>>
    BY <1>1, <1>4, <1>5
  <2>2. Order[t[1]] = 14 /\ t[1] \in Names
    BY <1>1, <1>4, <1>5, <2>1, WantedNames
  <2> QED BY <2>1, <2>2 DEF Names, Order
<1>7. \/ rest = t /\ ~(x = "settle" /\ came = "fails") /\ ~(x = "review" /\ came # "limited")
      \/ x = "settle" /\ came = "fails" /\ rest = Tail(t)
      \/ x = "review" /\ came # "limited" /\ rest = <<>>
  BY DEF Left
<1>8. x = "settle" => /\ Remaining(Tail(t), r.chosen)
                      /\ Tail(t) = <<>> => \A m \in Wanted(r.chosen) : Order[m] <= 14
                      /\ Tail(t) # <<>> =>
                           /\ Head(Tail(t)) = Tail(t)[1] /\ Order[Tail(t)[1]] \in 15 .. 16
                           /\ \A m \in Wanted(r.chosen) : Order[m] > 14 => Order[m] >= Order[Tail(t)[1]]
  <2> SUFFICES ASSUME x = "settle"
               PROVE  /\ Remaining(Tail(t), r.chosen)
                      /\ Tail(t) = <<>> => \A m \in Wanted(r.chosen) : Order[m] <= 14
                      /\ Tail(t) # <<>> =>
                           /\ Head(Tail(t)) = Tail(t)[1] /\ Order[Tail(t)[1]] \in 15 .. 16
                           /\ \A m \in Wanted(r.chosen) : Order[m] > 14 => Order[m] >= Order[Tail(t)[1]]
    OBVIOUS
  <2>1. t # <<>> /\ t[1] = "logs" /\ Order[t[1]] = 14 /\ t[1] # "case"
    BY <1>4, <1>6
  <2> DEFINE u == Tail(t)
  <2>2. /\ Remaining(u, r.chosen)
        /\ u = <<>> => \A m \in Wanted(r.chosen) : Order[m] <= Order[t[1]]
        /\ u # <<>> =>
             /\ Head(u) = u[1] /\ u[1] \in Wanted(r.chosen) /\ Order[u[1]] \in 1 .. 16
             /\ Order[t[1]] < Order[u[1]] \/ (t[1] = "case" /\ u[1] = "case")
             /\ \A m \in Wanted(r.chosen) : Order[m] > Order[t[1]] => Order[m] >= Order[u[1]]
    BY <1>1, <2>1, Following
  <2> QED BY <2>1, <2>2
<1>9. rest # <<>> => Head(rest) = rest[1]
  BY <1>1, <1>7, <1>8
<1> HIDE DEF rest
<1>10. /\ Honest(n) /\ Same(r, n) /\ Behind(n, Reached(x, rest))
       /\ x \in {"review", "fallback"} /\ rest = <<>> => n.stage["llm"] \in {"completed", "error"}
       /\ x \in {"settle", "logs"} /\ came = "fails" => n.logs = "unavailable"
  BY <1>1, <1>9, NotedTruth DEF x
<1>11. n.chosen = r.chosen
  BY <1>10 DEF Same
<1> HIDE DEF n
<1>12. CASE rest = t /\ t # <<>>
  <2>1. /\ Reached(x, rest) \in 0 .. 16
        /\ Reached(x, rest) <= Order[t[1]] - 1
        /\ \A m \in Wanted(r.chosen) : Order[m] > Reached(x, rest) => Order[m] > Order[t[1]] - 1
    <3>1. CASE x = "case" /\ t[1] = "case"
      BY <1>1, <1>2, <1>4, <1>12, <3>1 DEF Reached
    <3>2. CASE ~(x = "case" /\ t[1] = "case")
      <4>1. Order[x] < Order[t[1]] /\ Order[x] \in 1 .. 16 /\ Order[t[1]] \in 1 .. 16
        BY <1>1, <1>12, <3>2
      <4>2. Reached(x, rest) = Order[x]
        BY <1>1, <1>12, <3>2 DEF Reached
      <4>3. \A m \in Wanted(r.chosen) : Order[m] > Order[x] => Order[m] > Order[t[1]] - 1
        BY <1>1, <1>2, <1>12, <4>1
      <4> QED BY <4>1, <4>2, <4>3
    <3> QED BY <3>1, <3>2
  <2>2. Order[t[1]] - 1 \in 0 .. 16
    BY <1>1, <1>12
  <2>3. Behind(n, Order[t[1]] - 1)
    BY <1>10, <1>11, <2>1, <2>2, Nothing
  <2> QED BY <1>1, <1>10, <1>12, <2>3 DEF n, x, t, rest
<1>13. CASE rest = t /\ t = <<>>
  <2>1. Reached(x, rest) = Order[x]
    BY <1>13 DEF Reached
  <2>2. Behind(n, 16)
    <3>1. \A m \in Wanted(n.chosen) : Order[m] > Order[x] => Order[m] > 16
      BY <1>1, <1>2, <1>11, <1>13
    <3>2. Order[x] \in 0 .. 16 /\ Order[x] <= 16 /\ Behind(n, Order[x])
      BY <1>1, <1>10, <2>1
    <3> QED BY <3>1, <3>2, Nothing
  <2>3. x \notin {"hash", "trigger", "present", "package", "baseline", "discover", "settle"}
    BY <1>1, <1>4, <1>5, <1>13
  <2>4. "llm" \in r.chosen => x \in {"review", "fallback"}
    <3> SUFFICES ASSUME "llm" \in r.chosen PROVE x \in {"review", "fallback"}
      OBVIOUS
    <3>1. Order[x] >= 15 /\ x \in Names
      BY <1>1, <1>4, <1>5, <1>13, WantedNames
    <3> QED BY <3>1 DEF Names, Order
  <2> QED BY <1>1, <1>3, <1>10, <1>13, <2>2, <2>3, <2>4 DEF n, x, t, rest
<1>14. CASE x = "settle" /\ came = "fails" /\ rest = Tail(t)
  <2>1. Behind(n, 14)
    <3>1. Reached(x, rest) = 13
      BY <1>4, <1>14 DEF Reached
    <3> QED BY <1>10, <3>1 DEF Behind
  <2>2. CASE rest = <<>>
    <3>1. \A m \in Wanted(n.chosen) : Order[m] > 14 => Order[m] > 16
      BY <1>2, <1>8, <1>11, <1>14, <2>2
    <3>2. Behind(n, 16)
      BY <2>1, <3>1, Nothing
    <3>3. "llm" \notin r.chosen
      BY <1>4, <1>5, <1>8, <1>14, <2>2
    <3> QED BY <1>8, <1>10, <1>14, <2>2, <3>2, <3>3 DEF n, x, t, rest
  <2>3. CASE rest # <<>>
    <3>1. Order[rest[1]] - 1 \in 14 .. 15
      BY <1>8, <1>14, <2>3
    <3>2. \A m \in Wanted(n.chosen) : Order[m] > 14 => Order[m] > Order[rest[1]] - 1
      <4>1. \A m \in Wanted(r.chosen) : Order[m] > 14 => Order[m] >= Order[rest[1]]
        BY <1>8, <1>14, <2>3
      <4>2. Order[rest[1]] \in 15 .. 16
        BY <1>8, <1>14, <2>3
      <4> QED BY <1>2, <1>11, <4>1, <4>2
    <3>3. Behind(n, Order[rest[1]] - 1)
      BY <2>1, <3>1, <3>2, Nothing
    <3> QED BY <1>8, <1>10, <1>14, <2>3, <3>3, <1>9 DEF n, x, t, rest
  <2> QED BY <2>2, <2>3
<1>15. CASE x = "review" /\ came # "limited" /\ rest = <<>>
  <2>1. Reached(x, rest) = 15
    BY <1>4, <1>15 DEF Reached
  <2>2. Behind(n, 16)
    BY <1>10, <2>1 DEF Behind
  <2> QED BY <1>3, <1>10, <1>15, <2>2 DEF n, x, t, rest
<1> QED BY <1>7, <1>12, <1>13, <1>14, <1>15


-----------------------------------------------------------------------------
LEMMA InitIInv == gaInit => IInv
<1> SUFFICES ASSUME gaInit PROVE IInv
  OBVIOUS
<1>1. Honest(NoAssessment) /\ Ended(NoAssessment)
  BY DEF NoAssessment, Honest, Ended, Shape, Stages
<1>2. Probed(NoAssessment, NoProbe, 0) /\ Tasked(NoAssessment, NoTask, FALSE)
  BY DEF NoAssessment, NoProbe, NoTask, Probed, Tasked
<1>3. IsFiniteSet({}) /\ Cardinality({}) = 0
  BY FS_EmptySet
<1>4. \A a \in Assessment : /\ row[a] = NoAssessment /\ task[a] = NoTask /\ probe[a] = NoProbe
                             /\ sent[a] = 0 /\ a \notin tasks
  BY DEF gaInit
<1>5. \A a \in Assessment : Tasked(row[a], task[a], a \in tasks)
  BY <1>2, <1>4 DEF Tasked
<1>6. /\ DOMAIN row = Assessment /\ DOMAIN task = Assessment
      /\ DOMAIN probe = Assessment /\ DOMAIN sent = Assessment /\ tasks = {}
  BY DEF gaInit
<1>7. ServerUp
  BY DEF gaInit, ServerUp
<1> QED BY <1>1, <1>2, <1>3, <1>4, <1>5, <1>6, <1>7 DEF IInv

\* What a step makes of one assessment; the others are left alone.
Becomes(a, r, t, p, n) ==
    /\ DOMAIN row' = Assessment /\ DOMAIN task' = Assessment
    /\ DOMAIN probe' = Assessment /\ DOMAIN sent' = Assessment
    /\ row'[a] = r /\ task'[a] = t /\ probe'[a] = p /\ sent'[a] = n
    /\ \A b \in Assessment \ {a} : /\ row'[b] = row[b] /\ task'[b] = task[b]
                                   /\ probe'[b] = probe[b] /\ sent'[b] = sent[b]

LEMMA OneIInv ==
    ASSUME IInv, NEW a \in Assessment, NEW r, NEW t, NEW p, NEW n, Becomes(a, r, t, p, n),
           Honest(r), Ended(r), Probed(r, p, n), NEW slot \in BOOLEAN, Tasked(r, t, slot),
           tasks' = IF slot THEN tasks \cup {a} ELSE tasks \ {a},
           a \notin tasks /\ slot => tasks = {}, stops' = stops, t.at # "none" => ServerUp
    PROVE  IInv'
<1>1. /\ DOMAIN row' = Assessment /\ DOMAIN task' = Assessment
      /\ DOMAIN probe' = Assessment /\ DOMAIN sent' = Assessment
      /\ row'[a] = r /\ task'[a] = t /\ probe'[a] = p /\ sent'[a] = n
      /\ \A b \in Assessment \ {a} : /\ row'[b] = row[b] /\ task'[b] = task[b]
                                     /\ probe'[b] = probe[b] /\ sent'[b] = sent[b]
  BY DEF Becomes
<1>2. (a \in tasks') <=> slot
  OBVIOUS
<1>3. \A b \in Assessment \ {a} : (b \in tasks') <=> (b \in tasks)
  OBVIOUS
<1>4. tasks' \subseteq Assessment
  BY DEF IInv
<1>5. IsFiniteSet(tasks') /\ Cardinality(tasks') <= 1
  <2>1. CASE tasks' \subseteq tasks
    <3>1. IsFiniteSet(tasks') /\ Cardinality(tasks') <= Cardinality(tasks)
      BY <2>1, FS_Subset DEF IInv
    <3>2. Cardinality(tasks) \in Nat /\ Cardinality(tasks') \in Nat
      BY <3>1, FS_CardinalityType DEF IInv
    <3> QED BY <3>1, <3>2 DEF IInv
  <2>2. CASE ~(tasks' \subseteq tasks)
    <3>1. tasks' = {} \cup {a}
      BY <2>2
    <3>2. IsFiniteSet({}) /\ Cardinality({}) = 0 /\ a \notin {}
      BY FS_EmptySet
    <3>3. IsFiniteSet({} \cup {a}) /\ Cardinality({} \cup {a}) = 0 + 1
      BY <3>2, FS_AddElement
    <3> QED BY <3>1, <3>3
  <2> QED BY <2>1, <2>2
<1>6. \A b \in Assessment :
        /\ Honest(row[b])' /\ Ended(row[b])'
        /\ Probed(row[b], probe[b], sent[b])' /\ Tasked(row[b], task[b], b \in tasks)'
  <2>1. ASSUME NEW b \in Assessment \ {a}
        PROVE  /\ Honest(row[b])' /\ Ended(row[b])'
               /\ Probed(row[b], probe[b], sent[b])' /\ Tasked(row[b], task[b], b \in tasks)'
    BY <1>1, <1>3, <2>1 DEF IInv, Tasked
  <2>2. Tasked(row[a], task[a], a \in tasks)'
    BY <1>1, <1>2 DEF Tasked
  <2> QED BY <1>1, <2>1, <2>2
<1>7. (ServerUp \/ \A b \in Assessment : task[b].at = "none")'
  BY <1>1 DEF IInv, ServerUp
<1> QED BY <1>1, <1>4, <1>5, <1>6, <1>7 DEF IInv

\* What a run has, as long as its coroutine exists.
LEMMA Running ==
    ASSUME IInv, NEW a \in Assessment, task[a].at \in {"begin", "await"}
    PROVE  LET r == row[a]
               s == task[a].todo
           IN /\ ServerUp /\ a \in tasks /\ task[a].chosen = r.chosen /\ s # <<>> /\ Remaining(s, r.chosen)
              /\ Head(s) = s[1] /\ s[1] \in Wanted(r.chosen) /\ Order[s[1]] \in 1 .. 16
              /\ Behind(r, Order[s[1]] - 1) /\ Honest(r) /\ Ended(r) /\ r.status = "running"
              /\ r.attempts = 0 /\ ~r.compared /\ r.cancel \in BOOLEAN
              /\ sent[a] = 0 /\ probe[a].at = "none" /\ Probed(r, probe[a], sent[a])
<1>1. /\ a \in tasks /\ task[a].chosen = row[a].chosen /\ task[a].todo # <<>>
      /\ Remaining(task[a].todo, row[a].chosen) /\ row[a].attempts = 0
      /\ Behind(row[a], Order[task[a].todo[1]] - 1) /\ Honest(row[a]) /\ Ended(row[a])
      /\ Probed(row[a], probe[a], sent[a])
  BY DEF IInv, Tasked
<1>2. Head(task[a].todo) = task[a].todo[1] /\ task[a].todo[1] \in Wanted(row[a].chosen)
      /\ Order[task[a].todo[1]] \in 1 .. 16
  BY <1>1, Following
<1>3. row[a].compared \in BOOLEAN /\ row[a].cancel \in BOOLEAN
  BY <1>1 DEF Honest, Shape
<1> QED BY <1>1, <1>2, <1>3 DEF Probed, Behind, IInv

\* The end of a run, whatever it says.
LEMMA EndIInv ==
    ASSUME IInv, NEW a \in Assessment, task[a].at \in {"begin", "await"},
           NEW r, Honest(r), Same(row[a], r),
           NEW status \in {"paused", "error", "cancelled", "interrupted", Finished(r)},
           status \notin {"paused", "error", "cancelled", "interrupted"} => Done(r),
           End(a, r, status), UNCHANGED <<probe, sent, stops>>
    PROVE  IInv'
<1>1. /\ row[a].status = "running" /\ row[a].attempts = 0 /\ ~row[a].compared
      /\ Honest(row[a]) /\ Ended(row[a]) /\ Probed(row[a], probe[a], sent[a])
      /\ sent[a] = 0 /\ probe[a].at = "none"
  BY Running
<1> DEFINE e == [Settled(r) EXCEPT !.status = status]
<1>2. Honest(e) /\ Ended(e) /\ e.attempts = 0 /\ ~e.compared
  BY <1>1, ClosedTruth DEF Same
<1> HIDE DEF e
<1>3. PICK f \in {e, row[a]} : row'[a] = f
  BY DEF End, e, IInv
<1>4. Honest(f) /\ Ended(f) /\ Probed(f, probe[a], sent[a])
  BY <1>1, <1>2, <1>3 DEF Probed
<1>5. Tasked(f, NoTask, FALSE)
  BY DEF Tasked, NoTask
<1>6. Becomes(a, f, NoTask, probe[a], sent[a]) /\ tasks' = tasks \ {a}
  BY <1>3 DEF End, Becomes, IInv
<1>7. NoTask.at = "none"
  BY DEF NoTask
<1> QED BY <1>3, <1>4, <1>5, <1>6, <1>7, OneIInv

\* A run that goes on opens the stage of what it awaits next, or ends.
LEMMA OnwardIInv ==
    ASSUME IInv, NEW a \in Assessment, task[a].at \in {"begin", "await"},
           NEW x, NEW r, Honest(r), Same(row[a], r), NEW rest, Remaining(rest, r.chosen),
           rest # <<>> => Head(rest) = rest[1] /\ Behind(r, Order[rest[1]] - 1),
           rest = <<>> /\ AtEnd(a, x) = "ok" => Done(r),
           Onward(a, x, r, rest), UNCHANGED <<probe, sent, stops>>
    PROVE  IInv'
<1> DEFINE next == Head(rest)
           admitted == IF rest # <<>> THEN Admits(a, next, task[a].live) ELSE AtEnd(a, x)
           opened == IF next \in DOMAIN Opens /\ r.stage[Opens[next]] = "queued"
                     THEN [r EXCEPT !.stage[Opens[next]] = "running"] ELSE r
<1>1. /\ row[a].status = "running" /\ row[a].attempts = 0 /\ ~row[a].compared
      /\ task[a].chosen = row[a].chosen /\ a \in tasks /\ ServerUp
      /\ Probed(row[a], probe[a], sent[a]) /\ sent[a] = 0 /\ probe[a].at = "none"
  BY Running
<1>2. admitted \in {"ok", "denied", "cancelled"}
  BY DEF Admits, AtEnd, guard
<1>3. CASE admitted # "ok"
  <2>1. End(a, r, EndOf(admitted))
    BY <1>3 DEF Onward
  <2>2. EndOf(admitted) \in {"paused", "cancelled"}
    BY <1>2, <1>3 DEF EndOf
  <2> QED BY <2>1, <2>2, EndIInv
<1>4. CASE admitted = "ok" /\ rest = <<>>
  <2>1. End(a, r, Finished(r)) /\ Done(r)
    BY <1>4 DEF Onward
  <2> QED BY <2>1, EndIInv
<1>5. CASE admitted = "ok" /\ rest # <<>>
  <2>1. /\ row' = [row EXCEPT ![a] = opened] /\ tasks' = tasks
        /\ task' = [task EXCEPT ![a] = [@ EXCEPT !.at = "await", !.todo = rest]]
    BY <1>5 DEF Onward
  <2> DEFINE t == [task[a] EXCEPT !.at = "await", !.todo = rest]
  <2>2. /\ Honest(opened) /\ Same(row[a], opened) /\ Behind(opened, Order[rest[1]] - 1)
    <3>1. CASE opened = r
      BY <1>5, <3>1
    <3>2. ASSUME NEW s \in Stages, r.stage[s] = "queued", opened = [r EXCEPT !.stage[s] = "running"]
          PROVE  Honest(opened) /\ Same(row[a], opened) /\ Behind(opened, Order[rest[1]] - 1)
      <4> HIDE DEF opened
      <4>1. Behind(r, Order[rest[1]] - 1) /\ s \in {"sast", "api", "dast", "llm"}
        BY <1>5 DEF Stages
      <4> QED BY <1>1, <3>2, <4>1 DEF Honest, Shape, Same, Behind, NoAssessment, Stages
    <3>3. next \in DOMAIN Opens => Opens[next] \in Stages
      BY DEF Opens, Stages
    <3> QED BY <3>1, <3>2, <3>3
  <2> HIDE DEF opened
  <2>3. Ended(opened)
    BY <1>1, <2>2 DEF Ended, Same
  <2>4. Probed(opened, probe[a], sent[a])
    BY <1>1, <2>2 DEF Probed, Same
  <2>5. Tasked(opened, t, TRUE)
    <3>1. DOMAIN t = DOMAIN NoTask /\ t.at = "await" /\ t.todo = rest /\ t.chosen = opened.chosen
      BY <1>1, <2>2 DEF IInv, Tasked, NoTask, Same
    <3>2. Remaining(rest, opened.chosen) /\ opened.attempts = 0
      BY <1>1, <2>2 DEF Same
    <3> QED BY <1>5, <2>2, <3>1, <3>2 DEF Tasked
  <2>6. Becomes(a, opened, t, probe[a], sent[a])
    BY <2>1 DEF Becomes, IInv
  <2>7. tasks' = tasks \cup {a}
    BY <1>1, <2>1
  <2> QED BY <1>1, <2>2, <2>3, <2>4, <2>5, <2>6, <2>7, OneIInv
<1> QED BY <1>2, <1>3, <1>4, <1>5


-----------------------------------------------------------------------------
\* create: nothing is stored before the slot is taken.
LEMMA CreateIInv ==
    ASSUME IInv, NEW a \in Assessment,
           \/ \E chosen \in Choices[a] : CreateStart(a, chosen)
           \/ CreateValidated(a) \/ CreateRefused(a) \/ CreateDone(a) \/ CreateLost(a)
    PROVE  IInv'
<1>1. /\ row[a] = NoAssessment /\ task[a].at \in {"none", "validating", "hashing"} /\ a \notin tasks
      /\ Honest(NoAssessment) /\ Ended(NoAssessment) /\ Probed(NoAssessment, probe[a], sent[a])
      /\ DOMAIN task[a] = DOMAIN NoTask
  BY DEF IInv, Tasked, CreateStart, CreateValidated, CreateRefused, CreateDone, CreateLost, NoTask
<1>2. NoTask.at = "none" /\ Tasked(NoAssessment, NoTask, FALSE)
  BY DEF NoTask, Tasked
<1>3. ASSUME NEW chosen \in Choices[a], CreateStart(a, chosen) PROVE IInv'
  <2> DEFINE t == [NoTask EXCEPT !.at = "validating", !.live = TRUE, !.chosen = chosen]
  <2>1. t.at = "validating" /\ Tasked(NoAssessment, t, FALSE)
    BY DEF Tasked, NoTask
  <2> HIDE DEF t
  <2>2. Becomes(a, NoAssessment, t, probe[a], sent[a]) /\ tasks' = tasks \ {a} /\ stops' = stops /\ ServerUp
    BY <1>1, <1>3 DEF CreateStart, Becomes, IInv, t
  <2> QED BY <1>1, <2>1, <2>2, OneIInv
<1>4. ASSUME CreateValidated(a) \/ CreateRefused(a) PROVE IInv'
  <2>1. PICK t \in {NoTask, [task[a] EXCEPT !.at = "hashing"]} : task' = [task EXCEPT ![a] = t]
    BY <1>4 DEF CreateValidated, CreateRefused
  <2>2. Tasked(NoAssessment, t, FALSE)
    BY <1>1, <1>2 DEF Tasked, NoTask
  <2>3. Becomes(a, NoAssessment, t, probe[a], sent[a]) /\ tasks' = tasks \ {a} /\ stops' = stops /\ ServerUp
    BY <1>1, <1>4, <2>1 DEF CreateValidated, CreateRefused, Becomes, IInv
  <2> QED BY <1>1, <2>2, <2>3, OneIInv
<1> DEFINE chosen == task[a].chosen
           r == Created(chosen)
<1>5. /\ Honest(r) /\ Ended(r) /\ r.chosen = chosen /\ r.attempts = 0 /\ Behind(r, 0)
      /\ Probed(r, probe[a], sent[a])
  <2>1. /\ DOMAIN r = DOMAIN NoAssessment /\ r.status = "running" /\ r.chosen = chosen
        /\ r.stage = [s \in Stages |-> IF s = "sast" \/ s \in chosen THEN "queued" ELSE "not_selected"]
        /\ r.cancel = FALSE /\ r.scan = FALSE /\ r.logs = "none" /\ r.attempts = 0
        /\ r.pairs = {} /\ r.compared = FALSE
    BY DEF Created, Selected, NoAssessment
  <2>2. {"sast", "api", "dast", "llm"} = Stages
    BY DEF Stages
  <2> HIDE DEF r
  <2>3. Honest(r)
    <3>1. Shape(r)
      <4>1. DOMAIN r.stage = Stages
        BY <2>1
      <4>2. r.pairs \subseteq Pairs /\ r.attempts \in 0 .. 1
        BY <2>1
      <4>3. r.cancel \in BOOLEAN /\ r.compared \in BOOLEAN
        BY <2>1
      <4> QED BY <2>1, <4>1, <4>2, <4>3 DEF Shape
    <3>2. /\ r.stage["sast"] = "queued"
          /\ \A s \in {"api", "dast"} \cap r.chosen : r.stage[s] = "queued"
      BY <2>1, <2>2
    <3> QED BY <2>1, <3>1, <3>2 DEF Honest
  <2>4. Ended(r) /\ Behind(r, 0)
    BY <2>1 DEF Ended, Behind
  <2>5. sent[a] = 0 /\ probe[a].at = "none"
    BY <1>1 DEF Probed, NoAssessment
  <2>6. Probed(r, probe[a], sent[a])
    BY <1>1, <2>1, <2>5 DEF Probed
  <2> QED BY <2>1, <2>3, <2>4, <2>6
<1> HIDE DEF r
<1>6. ASSUME CreateDone(a) PROVE IInv'
  <2> DEFINE t == [task[a] EXCEPT !.at = "begin", !.todo = Awaits(chosen)]
  <2>1. /\ Awaits(chosen) # <<>> /\ Awaits(chosen)[1] = "hash"
        /\ Remaining(Awaits(chosen), chosen) /\ Order["hash"] - 1 = 0
    BY AwaitsRemaining DEF Order
  <2>2. t.at = "begin" /\ t.chosen = chosen /\ t.todo = Awaits(chosen) /\ DOMAIN t = DOMAIN NoTask
    BY <1>1 DEF NoTask
  <2> HIDE DEF t
  <2>3. Tasked(r, t, TRUE)
    BY <1>5, <2>1, <2>2 DEF Tasked
  <2>4. /\ Becomes(a, r, t, probe[a], sent[a]) /\ tasks' = tasks \cup {a} /\ tasks = {}
        /\ stops' = stops /\ ServerUp
    BY <1>6 DEF CreateDone, Becomes, IInv, t, r
  <2> QED BY <1>5, <2>3, <2>4, OneIInv
<1>7. ASSUME CreateLost(a) PROVE IInv'
  <2>1. Tasked(r, NoTask, FALSE)
    BY DEF Tasked, NoTask
  <2>2. Becomes(a, r, NoTask, probe[a], sent[a]) /\ tasks' = tasks \ {a} /\ stops' = stops
    BY <1>1, <1>7 DEF CreateLost, Becomes, IInv, r
  <2> QED BY <1>2, <1>5, <2>1, <2>2, OneIInv
<1> QED BY <1>3, <1>4, <1>6, <1>7

LEMMA BeginIInv == ASSUME IInv, NEW a \in Assessment, Begin(a) PROVE IInv'
<1>1. task[a].at = "begin" /\ Onward(a, "begin", row[a], task[a].todo)
      /\ UNCHANGED <<probe, sent, stops>>
  BY DEF Begin
<1>2. Same(row[a], row[a])
  BY DEF Same
<1> QED BY <1>1, <1>2, Running, OnwardIInv

LEMMA BudgetIInv == ASSUME IInv, NEW a \in Assessment, Budget(a) PROVE IInv'
<1>1. task[a].at = "await" /\ End(a, row[a], "error") /\ UNCHANGED <<probe, sent, stops>>
  BY DEF Budget
<1>2. Same(row[a], row[a])
  BY DEF Same
<1> QED BY <1>1, <1>2, Running, EndIInv

LEMMA ReturnIInv == ASSUME IInv, NEW a \in Assessment, Return(a) PROVE IInv'
<1> DEFINE s == task[a].todo
           x == Head(s)
           checked == guard(a, task[a].live)
<1>1. task[a].at = "await" /\ UNCHANGED <<probe, sent, stops>>
  BY DEF Return
<1>2. PICK came \in {"good"} \cup Otherwise(x) :
        LET held == x \in Swallows /\ checked = "cancelled"
            got == IF held THEN "fails" ELSE came
            rest == Left(x, got, Tail(s))
            r == Noted(row[a], x, got, rest)
        IN IF x \in GuardsItself /\ came # "raised" /\ checked # "ok"
           THEN End(a, row[a], EndOf(checked))
           ELSE IF x \in Swallows /\ checked = "denied" THEN End(a, row[a], "paused")
           ELSE IF Verdict(x, got) # "on" THEN End(a, r, Verdict(x, got))
           ELSE Onward(a, x, r, rest)
  BY DEF Return
<1> DEFINE held == x \in Swallows /\ checked = "cancelled"
           got == IF held THEN "fails" ELSE came
           rest == Left(x, got, Tail(s))
           r == Noted(row[a], x, got, rest)
<1>3. got \in {"good", "fails"} \cup Otherwise(x)
  OBVIOUS
<1>4. /\ s # <<>> /\ Remaining(s, row[a].chosen) /\ x = s[1] /\ x \in Wanted(row[a].chosen)
      /\ Behind(row[a], Order[s[1]] - 1) /\ Honest(row[a]) /\ row[a].cancel \in BOOLEAN
  BY <1>1, Running
<1>5. Same(row[a], row[a])
  BY DEF Same
<1>6. checked \in {"ok", "denied", "cancelled"}
  BY DEF guard
<1>7. Verdict(x, got) \in {"on", "paused", "error"}
  BY DEF Verdict
<1> HIDE DEF checked, got
<1>8. CASE End(a, row[a], EndOf(checked)) /\ checked # "ok"
  <2>1. EndOf(checked) \in {"paused", "cancelled"}
    BY <1>6, <1>8 DEF EndOf
  <2> QED BY <1>1, <1>4, <1>5, <1>8, <2>1, EndIInv
<1>9. CASE End(a, row[a], "paused")
  BY <1>1, <1>4, <1>5, <1>9, EndIInv
<1>10. CASE End(a, r, Verdict(x, got)) /\ Verdict(x, got) # "on"
  <2>1. rest # <<>> => Head(rest) = rest[1]
    <3>1. Remaining(Tail(s), row[a].chosen)
      BY <1>4, Following
    <3>2. CASE rest = Tail(s)
      BY <1>4, <3>2, Following
    <3>3. CASE rest = Tail(Tail(s)) /\ x = "settle"
      <4>1. Tail(s) = <<>> \/ (Tail(Tail(s)) # <<>> => Head(Tail(Tail(s))) = Tail(Tail(s))[1])
        BY <3>1, Following
      <4>2. Tail(s) # <<>>
        <5>1. "logs" \in Wanted(row[a].chosen) /\ Order["logs"] = 14 /\ Order["settle"] = 13
          BY <1>4, <3>3 DEF Wanted, Order
        <5> QED BY <1>4, <3>3, <5>1, Following
      <4> QED BY <3>3, <4>1, <4>2
    <3>4. rest = Tail(s) \/ (rest = Tail(Tail(s)) /\ x = "settle") \/ rest = <<>>
      BY DEF Left
    <3> QED BY <3>2, <3>3, <3>4
  <2>2. Honest(r) /\ Same(row[a], r)
    BY <1>3, <1>4, <2>1, NotedTruth
  <2> HIDE DEF r
  <2> QED BY <1>1, <1>7, <1>10, <2>2, EndIInv
<1>11. CASE /\ Verdict(x, got) = "on" /\ Onward(a, x, r, rest)
            /\ ~(x \in GuardsItself /\ came # "raised" /\ checked # "ok")
            /\ ~(x \in Swallows /\ checked = "denied")
  <2>1. /\ Honest(r) /\ Same(row[a], r) /\ Remaining(rest, row[a].chosen)
        /\ rest # <<>> => Head(rest) = rest[1] /\ Behind(r, Order[rest[1]] - 1)
        /\ rest = <<>> =>
             /\ Behind(r, 16)
             /\ "llm" \in row[a].chosen => r.stage["llm"] \in {"completed", "error"}
             /\ x \notin {"hash", "trigger", "present", "package", "baseline", "discover"}
             /\ x \in {"settle", "logs"} => "llm" \notin row[a].chosen
             /\ x \in {"settle", "logs"} /\ got = "fails" => r.logs = "unavailable"
    BY <1>3, <1>4, <1>11, LeftTruth
  <2> HIDE DEF r, rest
  <2>2. r.chosen = row[a].chosen /\ r.cancel = row[a].cancel
    BY <2>1 DEF Same
  <2>3. ASSUME rest = <<>>, AtEnd(a, x) = "ok", row[a].cancel
        PROVE  r.logs = "unavailable" /\ "llm" \notin row[a].chosen
    <3>1. checked # "ok"
      BY <2>3 DEF checked, guard
    <3>2. x \notin {"rehash", "case"}
      BY <2>3, <3>1 DEF AtEnd, checked
    <3>3. x \in GuardsItself => came = "raised"
      BY <1>11, <3>1
    <3>4. x \notin GuardsItself
      BY <1>11, <3>3 DEF GuardsItself, Swallows, got, Verdict
    <3>5. x \in {"settle", "logs"}
      <4>1. x \in Names
        BY <1>4, WantedNames
      <4> QED BY <2>1, <2>3, <3>2, <3>4, <4>1 DEF Names, Order, GuardsItself
    <3>6. got = "fails"
      BY <1>6, <1>11, <3>1, <3>5 DEF got, Swallows
    <3> QED BY <2>1, <2>3, <3>5, <3>6
  <2>4. rest = <<>> /\ AtEnd(a, x) = "ok" => Done(r)
    BY <2>1, <2>2, <2>3 DEF Done, Behind
  <2> QED BY <1>1, <1>11, <2>1, <2>2, <2>4, OnwardIInv
<1> QED BY <1>2, <1>7, <1>8, <1>9, <1>10, <1>11 DEF got, checked


\* What is written to a row without its run: the run goes on as it did.
LEMMA BesideIInv ==
    ASSUME IInv, NEW a \in Assessment, NEW r, Honest(r), Ended(r), Same([row[a] EXCEPT !.cancel = r.cancel], r),
           r.stage = row[a].stage, r.scan = row[a].scan, r.logs = row[a].logs,
           row[a].status # "none", row' = [row EXCEPT ![a] = r], UNCHANGED <<task, tasks, probe, sent, stops>>
    PROVE  IInv'
<1>1. /\ r.status = row[a].status /\ r.chosen = row[a].chosen
      /\ r.attempts = row[a].attempts /\ r.compared = row[a].compared
  BY DEF IInv, Honest, Shape, NoAssessment, Same
<1>2. Probed(r, probe[a], sent[a])
  BY <1>1 DEF IInv, Probed
<1>3. Tasked(r, task[a], a \in tasks)
  <2>1. Tasked(row[a], task[a], a \in tasks) /\ row[a] # NoAssessment
    BY DEF IInv, NoAssessment
  <2>2. \A k : Behind(row[a], k) => Behind(r, k)
    BY <1>1 DEF Behind
  <2> QED BY <1>1, <2>1, <2>2 DEF Tasked
<1>4. Becomes(a, r, task[a], probe[a], sent[a]) /\ stops' = stops
  BY DEF Becomes, IInv
<1>5. task[a].at # "none" => ServerUp
  BY DEF IInv
<1>6. CASE a \in tasks
  <2>1. tasks' = tasks \cup {a} /\ Tasked(r, task[a], TRUE)
    BY <1>3, <1>6 DEF Tasked
  <2> QED BY <1>2, <1>4, <1>5, <1>6, <2>1, OneIInv
<1>7. CASE a \notin tasks
  <2>1. tasks' = tasks \ {a} /\ Tasked(r, task[a], FALSE)
    BY <1>3, <1>7 DEF Tasked
  <2> QED BY <1>2, <1>4, <1>5, <2>1, OneIInv
<1> QED BY <1>6, <1>7

LEMMA CancelIInv == ASSUME IInv, NEW a \in Assessment, CancelAssessment(a) PROVE IInv'
<1> DEFINE r == [row[a] EXCEPT !.cancel = TRUE]
<1>1. Honest(row[a]) /\ Ended(row[a]) /\ row[a].status = "running"
  BY DEF IInv, CancelAssessment
<1>2. /\ DOMAIN r = DOMAIN NoAssessment /\ r.cancel = TRUE /\ r.status = "running"
      /\ r.chosen = row[a].chosen /\ r.stage = row[a].stage /\ r.scan = row[a].scan
      /\ r.logs = row[a].logs /\ r.attempts = row[a].attempts /\ r.pairs = row[a].pairs
      /\ r.compared = row[a].compared
  BY <1>1 DEF Honest, Shape, NoAssessment
<1>3. Same([row[a] EXCEPT !.cancel = r.cancel], r)
  BY <1>2 DEF Same
<1>4. row' = [row EXCEPT ![a] = r] /\ UNCHANGED <<task, tasks, probe, sent, stops>>
  BY DEF CancelAssessment
<1> HIDE DEF r
<1>5. Honest(r) /\ Ended(r)
  BY <1>1, <1>2 DEF Honest, Shape, Ended
<1> QED BY <1>1, <1>2, <1>3, <1>4, <1>5, BesideIInv

LEMMA RecordPairIInv ==
    ASSUME IInv, NEW a \in Assessment, NEW p \in Pairs, RecordPair(a, p) PROVE IInv'
<1> DEFINE r == [row[a] EXCEPT !.pairs = @ \cup {p}]
<1>1. Honest(row[a]) /\ Ended(row[a]) /\ row[a].status # "none"
  BY DEF IInv, RecordPair
<1>2. /\ DOMAIN r = DOMAIN NoAssessment /\ r.cancel = row[a].cancel /\ r.status = row[a].status
      /\ r.chosen = row[a].chosen /\ r.stage = row[a].stage /\ r.scan = row[a].scan
      /\ r.logs = row[a].logs /\ r.attempts = row[a].attempts /\ r.pairs = row[a].pairs \cup {p}
      /\ r.compared = row[a].compared
  BY <1>1 DEF Honest, Shape, NoAssessment
<1>3. Same([row[a] EXCEPT !.cancel = r.cancel], r)
  BY <1>2 DEF Same
<1>4. row' = [row EXCEPT ![a] = r] /\ UNCHANGED <<task, tasks, probe, sent, stops>>
  BY DEF RecordPair
<1> HIDE DEF r
<1>5. Honest(r) /\ Ended(r)
  BY <1>1, <1>2 DEF Honest, Shape, Ended, Done
<1> QED BY <1>1, <1>2, <1>3, <1>4, <1>5, BesideIInv

\* The probe runs on a row whose run is over.
LEMMA ProbeIInv ==
    ASSUME IInv, NEW a \in Assessment,
           ProbeStart(a) \/ ProbeSend(a) \/ ProbeAnswered(a) \/ ProbeFails(a)
    PROVE  IInv'
<1>1. Honest(row[a]) /\ Ended(row[a]) /\ Probed(row[a], probe[a], sent[a])
      /\ Tasked(row[a], task[a], a \in tasks)
  BY DEF IInv
<1>2. /\ row[a].status # "none" /\ a \notin tasks /\ task[a].at = "none"
      /\ row[a].stage["api"] = "completed_with_observations"
  <2>1. CASE ProbeStart(a)
    BY <1>1, <2>1 DEF ProbeStart, Tasked, NoAssessment
  <2>2. CASE ProbeSend(a) \/ ProbeAnswered(a) \/ ProbeFails(a)
    <3>1. probe[a].at # "none"
      BY <2>2 DEF ProbeSend, ProbeAnswered, ProbeFails
    <3>2. row[a].attempts # 0 /\ row[a].stage["api"] = "completed_with_observations"
      BY <1>1, <3>1 DEF Probed
    <3>3. row[a] # NoAssessment
      BY <3>2 DEF NoAssessment
    <3> QED BY <1>1, <3>2, <3>3 DEF Tasked, Honest
  <2> QED BY <2>1, <2>2
<1>3. \A n \in 0 .. 3 : \A p :
        (/\ Probed(row[a], p, n) /\ Becomes(a, row[a], task[a], p, n)
         /\ tasks' = tasks /\ stops' = stops) => IInv'
  <2> SUFFICES ASSUME NEW n \in 0 .. 3, NEW p, Probed(row[a], p, n),
                      Becomes(a, row[a], task[a], p, n), tasks' = tasks, stops' = stops
               PROVE  IInv'
    OBVIOUS
  <2>1. tasks' = tasks \ {a} /\ Tasked(row[a], task[a], FALSE)
    BY <1>1, <1>2 DEF Tasked
  <2> QED BY <1>1, <1>2, <2>1, OneIInv
<1>4. \A p : /\ DOMAIN p = DOMAIN NoProbe /\ p.at = "none" /\ p.left \in 0 .. 3 /\ p.pairs \subseteq Pairs
             => Probed(row[a], p, sent[a])
  BY <1>1 DEF Probed
<1>5. /\ DOMAIN NoProbe = DOMAIN NoProbe /\ NoProbe.at = "none" /\ NoProbe.left \in 0 .. 3
      /\ NoProbe.pairs \subseteq Pairs
  BY DEF NoProbe
<1>6. sent[a] \in 0 .. 3 /\ probe[a].left \in 0 .. 3 /\ probe[a].pairs \subseteq Pairs
      /\ DOMAIN probe[a] = DOMAIN NoProbe
      /\ (probe[a].at # "none" => sent[a] + probe[a].left = 3)
      /\ (row[a].compared => row[a].attempts = 1)
  BY <1>1 DEF Probed
<1>7. CASE ProbeFails(a)
  <2>1. Becomes(a, row[a], task[a], NoProbe, sent[a]) /\ tasks' = tasks /\ stops' = stops
    BY <1>7 DEF ProbeFails, Becomes, IInv
  <2> QED BY <1>3, <1>4, <1>5, <1>6, <2>1
<1>8. CASE ProbeSend(a)
  <2>1. CASE guard(a, probe[a].live) = "ok"
    <3> DEFINE p == [probe[a] EXCEPT !.at = "request", !.left = @ - 1]
    <3>1. probe[a].at = "sleep" /\ probe[a].left > 0
      BY <1>1, <1>8 DEF ProbeSend, Probed
    <3>2. /\ DOMAIN p = DOMAIN NoProbe /\ p.at = "request" /\ p.left = probe[a].left - 1
          /\ p.pairs = probe[a].pairs
      BY <1>6 DEF NoProbe
    <3>3. /\ DOMAIN probe' = Assessment /\ DOMAIN sent' = Assessment
          /\ probe'[a] = p /\ sent'[a] = sent[a] + 1
          /\ \A b \in Assessment \ {a} : probe'[b] = probe[b] /\ sent'[b] = sent[b]
      BY <1>8, <2>1 DEF ProbeSend, IInv
    <3> HIDE DEF p
    <3>4. Becomes(a, row[a], task[a], p, sent[a] + 1) /\ tasks' = tasks /\ stops' = stops
      BY <1>8, <3>3 DEF ProbeSend, Becomes, IInv
    <3>5. row[a].attempts # 0 /\ ~row[a].compared
      BY <1>1, <3>1 DEF Probed, Honest, Shape
    <3>6. sent[a] + 1 \in 0 .. 3 /\ p.left \in 0 .. 3 /\ sent[a] + 1 + p.left = 3
      BY <1>6, <3>1, <3>2
    <3>7. Probed(row[a], p, sent[a] + 1)
      BY <1>2, <1>6, <3>2, <3>5, <3>6 DEF Probed
    <3> QED BY <1>3, <3>4, <3>6, <3>7
  <2>2. CASE guard(a, probe[a].live) # "ok"
    <3>1. Becomes(a, row[a], task[a], NoProbe, sent[a]) /\ tasks' = tasks /\ stops' = stops
      BY <1>8, <2>2 DEF ProbeSend, Becomes, IInv
    <3> QED BY <1>3, <1>4, <1>5, <1>6, <3>1
  <2> QED BY <2>1, <2>2
<1>9. CASE ProbeAnswered(a)
  <2>1. CASE probe[a].left > 0
    <3> DEFINE p == IF guard(a, probe[a].live) = "ok" THEN [probe[a] EXCEPT !.at = "sleep"] ELSE NoProbe
    <3>1. Becomes(a, row[a], task[a], p, sent[a]) /\ tasks' = tasks /\ stops' = stops
      BY <1>9, <2>1 DEF ProbeAnswered, Becomes, IInv
    <3>2. Probed(row[a], p, sent[a])
      <4>1. CASE p = NoProbe
        BY <1>4, <1>5, <4>1
      <4>2. CASE p = [probe[a] EXCEPT !.at = "sleep"]
        <5>1. DOMAIN p = DOMAIN NoProbe /\ p.at = "sleep" /\ p.left = probe[a].left /\ p.pairs = probe[a].pairs
          BY <1>6, <4>2 DEF NoProbe
        <5> HIDE DEF p
        <5>2. probe[a].at # "none"
          BY <1>9 DEF ProbeAnswered
        <5> QED BY <1>1, <2>1, <5>1, <5>2 DEF Probed
      <4> QED BY <4>1, <4>2
    <3> QED BY <1>3, <1>6, <3>1, <3>2
  <2>2. CASE ~(probe[a].left > 0)
    <3> DEFINE r == [row[a] EXCEPT !.pairs = probe[a].pairs, !.compared = TRUE]
    <3>1. /\ DOMAIN r = DOMAIN NoAssessment /\ r.cancel = row[a].cancel /\ r.status = row[a].status
          /\ r.chosen = row[a].chosen /\ r.stage = row[a].stage /\ r.scan = row[a].scan
          /\ r.logs = row[a].logs /\ r.attempts = row[a].attempts /\ r.pairs = probe[a].pairs
          /\ r.compared = TRUE
      BY <1>1 DEF Honest, Shape, NoAssessment
    <3>2. /\ DOMAIN row' = Assessment /\ row'[a] = r
          /\ \A b \in Assessment \ {a} : row'[b] = row[b]
      BY <1>9, <2>2 DEF ProbeAnswered, IInv
    <3> HIDE DEF r
    <3>3. Becomes(a, r, task[a], NoProbe, sent[a]) /\ tasks' = tasks /\ stops' = stops
      BY <1>9, <2>2, <3>2 DEF ProbeAnswered, Becomes, IInv
    <3>4. Honest(r) /\ Ended(r)
      BY <1>1, <1>2, <1>6, <3>1 DEF Honest, Shape, Ended, Done
    <3>5. Probed(r, NoProbe, sent[a])
      BY <1>1, <1>2, <1>5, <1>6, <1>9, <2>2, <3>1 DEF Probed, ProbeAnswered, Honest, Shape
    <3>6. Tasked(r, task[a], FALSE) /\ tasks' = tasks \ {a}
      BY <1>1, <1>2, <3>3 DEF Tasked
    <3> QED BY <1>2, <3>3, <3>4, <3>5, <3>6, OneIInv
  <2> QED BY <2>1, <2>2
<1>10. CASE ProbeStart(a)
  <2> DEFINE r == [row[a] EXCEPT !.attempts = 1]
             p == [at |-> "sleep", live |-> TRUE, left |-> 3, pairs |-> row[a].pairs]
  <2>1. /\ DOMAIN r = DOMAIN NoAssessment /\ r.cancel = row[a].cancel /\ r.status = row[a].status
        /\ r.chosen = row[a].chosen /\ r.stage = row[a].stage /\ r.scan = row[a].scan
        /\ r.logs = row[a].logs /\ r.attempts = 1 /\ r.pairs = row[a].pairs
        /\ r.compared = row[a].compared
    BY <1>1 DEF Honest, Shape, NoAssessment
  <2>2. Becomes(a, r, task[a], p, sent[a]) /\ tasks' = tasks /\ stops' = stops
    BY <1>10 DEF ProbeStart, Becomes, IInv
  <2>3. /\ DOMAIN p = DOMAIN NoProbe /\ p.at = "sleep" /\ p.left = 3 /\ p.pairs = row[a].pairs
    BY DEF NoProbe
  <2> HIDE DEF r, p
  <2>4. Honest(r) /\ Ended(r)
    BY <1>1, <1>2, <2>1 DEF Honest, Shape, Ended, Done
  <2>5. sent[a] = 0 /\ ~row[a].compared /\ row[a].pairs \subseteq Pairs
    BY <1>1, <1>10 DEF Probed, ProbeStart, Honest, Shape
  <2>6. Probed(r, p, sent[a])
    BY <1>2, <2>1, <2>3, <2>5 DEF Probed
  <2>7. Tasked(r, task[a], FALSE) /\ tasks' = tasks \ {a}
    BY <1>1, <1>2, <2>2 DEF Tasked
  <2> QED BY <1>2, <2>2, <2>4, <2>6, <2>7, OneIInv
<1> QED BY <1>7, <1>8, <1>9, <1>10

-----------------------------------------------------------------------------
\* The policy and the session have no part in what the rows say.
LEMMA ScopeIInv == ASSUME IInv, NEW g \in Grants, SaveScope(g) PROVE IInv'
  BY DEF IInv, SaveScope, ServerUp

LEMMA ExpireIInv == ASSUME IInv, Expire PROVE IInv'
<1>1. /\ DOMAIN row' = Assessment /\ DOMAIN task' = Assessment /\ DOMAIN probe' = Assessment
      /\ DOMAIN sent' = Assessment /\ tasks' = tasks /\ stops' = stops /\ row' = row /\ sent' = sent
  BY DEF IInv, Expire
<1>2. \A a \in Assessment : /\ DOMAIN task'[a] = DOMAIN NoTask /\ task'[a].at = task[a].at
                            /\ task'[a].chosen = task[a].chosen /\ task'[a].todo = task[a].todo
  <2> SUFFICES ASSUME NEW a \in Assessment
               PROVE  /\ DOMAIN task'[a] = DOMAIN NoTask /\ task'[a].at = task[a].at
                      /\ task'[a].chosen = task[a].chosen /\ task'[a].todo = task[a].todo
    OBVIOUS
  <2>1. DOMAIN task[a] = DOMAIN NoTask /\ task'[a] = [task[a] EXCEPT !.live = FALSE]
    BY DEF IInv, Tasked, Expire
  <2> QED BY <2>1 DEF NoTask
<1>3. \A a \in Assessment : /\ DOMAIN probe'[a] = DOMAIN NoProbe /\ probe'[a].at = probe[a].at
                            /\ probe'[a].left = probe[a].left /\ probe'[a].pairs = probe[a].pairs
  <2> SUFFICES ASSUME NEW a \in Assessment
               PROVE  /\ DOMAIN probe'[a] = DOMAIN NoProbe /\ probe'[a].at = probe[a].at
                      /\ probe'[a].left = probe[a].left /\ probe'[a].pairs = probe[a].pairs
    OBVIOUS
  <2>1. DOMAIN probe[a] = DOMAIN NoProbe /\ probe'[a] = [probe[a] EXCEPT !.live = FALSE]
    BY DEF IInv, Probed, Expire
  <2> QED BY <2>1 DEF NoProbe
<1>4. ASSUME NEW a \in Assessment PROVE Tasked(row[a], task[a], a \in tasks)'
  BY <1>1, <1>2 DEF IInv, Tasked
<1>5. ASSUME NEW a \in Assessment PROVE Probed(row[a], probe[a], sent[a])'
  BY <1>1, <1>3 DEF IInv, Probed
<1>6. (ServerUp \/ \A a \in Assessment : task[a].at = "none")'
  BY <1>1, <1>2 DEF IInv, ServerUp
<1> QED BY <1>1, <1>4, <1>5, <1>6 DEF IInv

\* A stop closes the rows of the runs it interrupts, or leaves them running;
\* only the second kind keeps open stages, and recover calls it interrupted.
LEMMA StopIInv == ASSUME IInv, Stop PROVE IInv'
<1>1. PICK told_ \in SUBSET tasks :
        row' = [a \in Assessment |->
                  IF a \in told_ THEN [Settled(row[a]) EXCEPT !.status = "interrupted"] ELSE row[a]]
  BY DEF Stop
<1>2. /\ DOMAIN row' = Assessment /\ DOMAIN task' = Assessment /\ DOMAIN probe' = Assessment
      /\ DOMAIN sent' = Assessment /\ tasks' = {} /\ sent' = sent
      /\ \A a \in Assessment : task'[a] = NoTask /\ probe'[a] = NoProbe
  BY <1>1 DEF IInv, Stop
<1>3. ASSUME NEW a \in Assessment
      PROVE  /\ Honest(row[a])' /\ Ended(row[a])' /\ Probed(row[a], probe[a], sent[a])'
             /\ Tasked(row[a], task[a], a \in tasks)'
  <2>1. /\ Honest(row[a]) /\ Ended(row[a]) /\ Probed(row[a], probe[a], sent[a])
        /\ Tasked(row[a], task[a], a \in tasks)
    BY DEF IInv
  <2> DEFINE e == [Settled(row[a]) EXCEPT !.status = "interrupted"]
  <2>2. Tasked(row[a], task[a], a \in tasks)'
    BY <1>2 DEF Tasked, NoTask
  <2>3. CASE a \in told_
    <3>1. row[a].status = "running"
      BY <2>1, <2>3 DEF Tasked, Behind
    <3>2. /\ Honest(e) /\ Ended(e) /\ e.attempts = row[a].attempts /\ e.compared = row[a].compared
          /\ row[a].stage["api"] = "completed_with_observations" =>
               e.stage["api"] = "completed_with_observations"
      BY <2>1, <3>1, ClosedTruth
    <3>3. row'[a] = e
      BY <1>1, <2>3
    <3> HIDE DEF e
    <3>4. Probed(e, NoProbe, sent[a])
      BY <2>1, <3>2 DEF Probed, NoProbe
    <3> QED BY <1>2, <2>2, <3>2, <3>3, <3>4
  <2>4. CASE a \notin told_
    <3>1. row'[a] = row[a]
      BY <1>1, <2>4
    <3>2. Probed(row[a], NoProbe, sent[a])
      BY <2>1 DEF Probed, NoProbe
    <3> QED BY <1>2, <2>1, <2>2, <3>1, <3>2
  <2> QED BY <2>3, <2>4
<1>4. IsFiniteSet({}) /\ Cardinality({}) = 0
  BY FS_EmptySet
<1>5. (\A a \in Assessment : task[a].at = "none")'
  BY <1>2 DEF NoTask
<1> QED BY <1>2, <1>3, <1>4, <1>5 DEF IInv

LEMMA ServeIInv == ASSUME IInv, Recover PROVE IInv'
<1>1. /\ DOMAIN row' = Assessment /\ task' = task /\ tasks' = tasks /\ probe' = probe /\ sent' = sent
      /\ \A a \in Assessment : row'[a] = IF row[a].status = "running"
                                         THEN [row[a] EXCEPT !.status = "interrupted"] ELSE row[a]
      /\ \A a \in Assessment : task[a].at = "none"
  BY DEF IInv, Recover
<1>2. ASSUME NEW a \in Assessment
      PROVE  /\ Honest(row[a])' /\ Ended(row[a])' /\ Probed(row[a], probe[a], sent[a])'
             /\ Tasked(row[a], task[a], a \in tasks)'
  <2>1. /\ Honest(row[a]) /\ Ended(row[a]) /\ Probed(row[a], probe[a], sent[a])
        /\ Tasked(row[a], task[a], a \in tasks)
    BY DEF IInv
  <2>2. CASE row[a].status = "running"
    <3> DEFINE r == [row[a] EXCEPT !.status = "interrupted"]
    <3>1. /\ DOMAIN r = DOMAIN NoAssessment /\ r.cancel = row[a].cancel /\ r.status = "interrupted"
          /\ r.chosen = row[a].chosen /\ r.stage = row[a].stage /\ r.scan = row[a].scan
          /\ r.logs = row[a].logs /\ r.attempts = row[a].attempts /\ r.pairs = row[a].pairs
          /\ r.compared = row[a].compared /\ row'[a] = r
      BY <1>1, <2>1, <2>2 DEF Honest, Shape, NoAssessment
    <3> HIDE DEF r
    <3>2. Honest(r) /\ Ended(r)
      BY <2>1, <2>2, <3>1 DEF Honest, Shape, Ended
    <3>3. Probed(r, probe[a], sent[a])
      BY <2>1, <3>1 DEF Probed
    <3>4. Tasked(r, task[a], a \in tasks)
      BY <1>1, <2>1 DEF Tasked
    <3> QED BY <1>1, <3>1, <3>2, <3>3, <3>4
  <2>3. CASE row[a].status # "running"
    <3>1. row'[a] = row[a]
      BY <1>1, <2>3
    <3> QED BY <1>1, <2>1, <3>1
  <2> QED BY <2>2, <2>3
<1>3. (ServerUp \/ \A a \in Assessment : task[a].at = "none")'
  BY <1>1
<1> QED BY <1>1, <1>2, <1>3 DEF IInv

LEMMA NextIInv == IInv /\ [gaNext]_gaVars => IInv'
<1> SUFFICES ASSUME IInv, [gaNext]_gaVars PROVE IInv'
  OBVIOUS
<1>1. CASE UNCHANGED gaVars
  BY <1>1 DEF gaVars, IInv, ServerUp
<1>2. ASSUME NEW a \in Assessment,
             \/ \E chosen \in Choices[a] : CreateStart(a, chosen)
             \/ CreateValidated(a) \/ CreateRefused(a) \/ CreateDone(a) \/ CreateLost(a)
      PROVE  IInv'
  BY <1>2, CreateIInv
<1>3. ASSUME NEW a \in Assessment, Runs(a) PROVE IInv'
  BY <1>3, BeginIInv, ReturnIInv, BudgetIInv DEF Runs
<1>4. ASSUME NEW a \in Assessment,
             ProbeStart(a) \/ ProbeSend(a) \/ ProbeAnswered(a) \/ ProbeFails(a)
      PROVE  IInv'
  BY <1>4, ProbeIInv
<1>5. ASSUME NEW a \in Assessment, CancelAssessment(a) \/ \E p \in Pairs : RecordPair(a, p) PROVE IInv'
  BY <1>5, CancelIInv, RecordPairIInv
<1>6. CASE (\E g \in Grants : SaveScope(g)) \/ Expire \/ Stop \/ Recover
  BY <1>6, ScopeIInv, ExpireIInv, StopIInv, ServeIInv
<1> QED BY <1>1, <1>2, <1>3, <1>4, <1>5, <1>6 DEF gaNext

\* What every reachable state satisfies.
THEOREM Invariance == gaSpec => []IInv
  BY InitIInv, NextIInv, PTL DEF gaSpec

-----------------------------------------------------------------------------
\* A stored end is the truth about the stages, whatever failed, was cancelled
\* or was interrupted on the way, and the coverage and the surfaces a report
\* derives from it claim no more than was done.
THEOREM StagesTold == gaSpec => []StagesTruthful
<1>1. IInv => StagesTruthful
  <2> SUFFICES ASSUME IInv, NEW a \in Assessment
               PROVE  LET r == row[a]
                          open == {s \in Stages : r.stage[s] \in {"queued", "running"}}
                      IN /\ r.status \notin {"none", "running", "interrupted"} => open = {}
                         /\ r.status \in {"completed", "awaiting_action_review"} =>
                              /\ r.stage["sast"] = "completed"
                              /\ "api" \in r.chosen => r.stage["api"] = "completed_with_observations"
                              /\ "dast" \in r.chosen => r.stage["dast"] = "awaiting_action_review"
                              /\ "llm" \in r.chosen => r.stage["llm"] \in {"completed", "error"}
                         /\ guided_coverage(r) = "bounded_static_only" =>
                              r.chosen \cap {"api", "dast"} = {} /\ r.scan
                         /\ "startup_ui_logcat" \in runtime_surfaces(r) =>
                              /\ "dast" \in r.chosen /\ r.stage["sast"] = "completed"
                              /\ r.stage["dast"] \in {"paused", "awaiting_action_review"}
                         /\ "api_authorization_pair" \in runtime_surfaces(r) =>
                              r.attempts = 1 /\ sent[a] = 3 /\ r.stage["api"] = "completed_with_observations"
    BY DEF StagesTruthful
  <2>1. Honest(row[a]) /\ Ended(row[a]) /\ Probed(row[a], probe[a], sent[a])
    BY DEF IInv
  <2>2. guided_coverage(row[a]) = "bounded_static_only" =>
          row[a].chosen \cap {"api", "dast"} = {} /\ row[a].scan
    <3> SUFFICES ASSUME guided_coverage(row[a]) = "bounded_static_only"
                 PROVE  row[a].chosen \cap {"api", "dast"} = {} /\ row[a].scan
      OBVIOUS
    <3>1. Gaps(row[a]) = {} /\ ~(\A s \in Stages : row[a].stage[s] = "not_selected")
      BY DEF guided_coverage
    <3>2. /\ \A s \in Stages : row[a].stage[s] \in
               {"not_selected", "completed", "completed_with_observations"}
          /\ row[a].stage["api"] = "not_selected" /\ row[a].stage["dast"] = "not_selected"
      BY <3>1 DEF Gaps
    <3>3. row[a].status # "none"
      <4>1. \A s \in Stages : NoAssessment.stage[s] = "not_selected"
        BY DEF NoAssessment
      <4> QED BY <2>1, <3>1, <4>1 DEF Honest
    <3> QED BY <2>1, <3>2, <3>3 DEF Honest, Stages
  <2>3. /\ "startup_ui_logcat" \in runtime_surfaces(row[a]) => row[a].logs = "observed"
        /\ "api_authorization_pair" \in runtime_surfaces(row[a]) => row[a].compared
    BY DEF runtime_surfaces
  <2>4. row[a].status \notin {"none", "running", "interrupted"} =>
          {s \in Stages : row[a].stage[s] \in {"queued", "running"}} = {}
    BY <2>1 DEF Ended
  <2>5. row[a].status \in {"completed", "awaiting_action_review"} =>
          /\ row[a].stage["sast"] = "completed"
          /\ "api" \in row[a].chosen => row[a].stage["api"] = "completed_with_observations"
          /\ "dast" \in row[a].chosen => row[a].stage["dast"] = "awaiting_action_review"
          /\ "llm" \in row[a].chosen => row[a].stage["llm"] \in {"completed", "error"}
    BY <2>1 DEF Ended, Done
  <2>6. row[a].logs = "observed" =>
          /\ "dast" \in row[a].chosen /\ row[a].stage["sast"] = "completed"
          /\ row[a].stage["dast"] \in {"paused", "awaiting_action_review"}
    BY <2>1 DEF Honest
  <2>7. row[a].compared =>
          row[a].attempts = 1 /\ sent[a] = 3 /\ row[a].stage["api"] = "completed_with_observations"
    BY <2>1 DEF Probed
  <2> QED BY <2>2, <2>3, <2>4, <2>5, <2>6, <2>7
<1> QED BY <1>1, Invariance, PTL

\* An accepted cancellation is never forgotten by the end that is stored, but
\* through the one handler that swallows it and notes that there are no logs.
THEOREM CancelRespected == gaSpec => []CancelExplained
<1>1. IInv => CancelExplained
  BY DEF IInv, CancelExplained, Ended, Done
<1> QED BY <1>1, Invariance, PTL

-----------------------------------------------------------------------------
\* What a run that goes on awaits next, and when.
LEMMA OnwardGuarded ==
    ASSUME IInv, NEW a \in Assessment, NEW x, NEW r, NEW rest, Onward(a, x, r, rest),
           task'[a].at = "await"
    PROVE  task'[a].todo = rest /\ Admits(a, Head(rest), task[a].live) = "ok"
<1>1. DOMAIN task = Assessment /\ DOMAIN task[a] = DOMAIN NoTask
  BY DEF IInv, Tasked
<1>2. ~ \E status : End(a, r, status)
  BY <1>1 DEF End, NoTask
<1>3. /\ rest # <<>> /\ Admits(a, Head(rest), task[a].live) = "ok"
      /\ task' = [task EXCEPT ![a] = [@ EXCEPT !.at = "await", !.todo = rest]]
  BY <1>2 DEF Onward
<1> QED BY <1>1, <1>3 DEF NoTask

\* An operation is admitted under the whole scope, but for the two that are not.
LEMMA AdmitsMeans ==
    ASSUME NEW a, NEW x, NEW live, Admits(a, x, live) = "ok", x \notin {"scan", "settle"}
    PROVE  /\ live /\ grant[a] # "none"
           /\ x # "discover" => grant[a] = "all" /\ ~row[a].cancel
<1>1. CASE x = "discover"
  BY <1>1 DEF Admits
<1>2. CASE x # "discover"
  <2>1. guard(a, live) = "ok"
    BY <1>2 DEF Admits
  <2> QED BY <2>1, <1>2 DEF guard
<1> QED BY <1>1, <1>2

\* Only a run that begins, or goes on, awaits anything new.
LEMMA NewAwait ==
    ASSUME IInv, gaNext, NEW a \in Assessment, task'[a].at = "await",
           task[a].at # "await" \/ task'[a].todo # task[a].todo
    PROVE  \E x, r, rest : Onward(a, x, r, rest)
<1>1. DOMAIN task = Assessment /\ DOMAIN task[a] = DOMAIN NoTask /\ NoTask.at = "none"
  BY DEF IInv, Tasked, NoTask
<1>2. ASSUME NEW b \in Assessment, \E chosen \in Choices[b] : CreateStart(b, chosen) PROVE FALSE
  BY <1>1, <1>2 DEF CreateStart, NoTask
<1>3. ASSUME NEW b \in Assessment, CreateValidated(b) \/ CreateRefused(b) \/ CreateLost(b) PROVE FALSE
  <2>1. DOMAIN task[b] = DOMAIN NoTask
    BY DEF IInv, Tasked
  <2> QED BY <1>1, <1>3, <2>1 DEF CreateValidated, CreateRefused, CreateLost, NoTask
<1>4. ASSUME NEW b \in Assessment, CreateDone(b) PROVE FALSE
  BY <1>1, <1>4 DEF CreateDone, NoTask
<1>5. ASSUME NEW b \in Assessment, End(b, row[b], "error") PROVE FALSE
  BY <1>1, <1>5 DEF End
<1>6. ASSUME NEW b \in Assessment,
             CancelAssessment(b) \/ ProbeStart(b) \/ ProbeSend(b) \/ ProbeAnswered(b) \/ ProbeFails(b)
      PROVE  FALSE
  BY <1>6 DEF CancelAssessment, ProbeStart, ProbeSend, ProbeAnswered, ProbeFails
<1>7. ASSUME NEW b \in Assessment, NEW p \in Pairs, RecordPair(b, p) PROVE FALSE
  BY <1>7 DEF RecordPair
<1>8. ASSUME (\E g \in Grants : SaveScope(g)) \/ Recover PROVE FALSE
  BY <1>8 DEF SaveScope, Recover
<1>9. ASSUME Expire PROVE FALSE
  <2>1. task'[a] = [task[a] EXCEPT !.live = FALSE]
    BY <1>9 DEF Expire
  <2> QED BY <1>1, <2>1 DEF NoTask
<1>10. ASSUME Stop PROVE FALSE
  BY <1>1, <1>10 DEF Stop
<1>11. \A b \in Assessment : \A r, status : ~End(b, r, status)
  BY <1>1 DEF End
<1>12. ASSUME NEW b \in Assessment, NEW x, NEW r, NEW rest, Onward(b, x, r, rest)
       PROVE  Onward(a, x, r, rest)
  <2>1. task' = [task EXCEPT ![b] = [@ EXCEPT !.at = "await", !.todo = rest]]
    BY <1>11, <1>12 DEF Onward
  <2>2. b = a
    BY <1>1, <2>1
  <2> QED BY <1>12, <2>2
<1>13. ASSUME NEW b \in Assessment, Begin(b) PROVE \E x, r, rest : Onward(a, x, r, rest)
  BY <1>12, <1>13 DEF Begin
<1>14. ASSUME NEW b \in Assessment, Return(b) PROVE \E x, r, rest : Onward(a, x, r, rest)
  <2>1. \E x, r, rest : Onward(b, x, r, rest)
    BY <1>11, <1>14 DEF Return
  <2> QED BY <1>12, <2>1
<1>15. ASSUME NEW b \in Assessment, Budget(b) PROVE FALSE
  BY <1>5, <1>15 DEF Budget
<1> QED BY <1>2, <1>3, <1>4, <1>6, <1>7, <1>8, <1>9, <1>10, <1>13, <1>14, <1>15 DEF gaNext, Runs

\* The probe sends under the whole scope, and nothing else sends.
LEMMA ProbeGuarded ==
    ASSUME IInv, gaNext, NEW a \in Assessment, sent'[a] # sent[a]
    PROVE  probe[a].live /\ grant[a] = "all" /\ ~row[a].cancel
<1>1. DOMAIN sent = Assessment
  BY DEF IInv
<1>2. \E b \in Assessment : ProbeSend(b)
  <2>1. sent' = sent \/ \E b \in Assessment : ProbeSend(b)
    BY DEF gaNext, Runs, CreateStart, CreateValidated, CreateRefused, CreateDone, CreateLost,
           Begin, Return, Budget, CancelAssessment, RecordPair, ProbeStart, ProbeAnswered, ProbeFails,
           SaveScope, Expire, Stop, Recover
  <2> QED BY <2>1
<1>3. PICK b \in Assessment : ProbeSend(b)
  BY <1>2
<1>4. b = a /\ guard(b, probe[b].live) = "ok"
  BY <1>1, <1>3 DEF ProbeSend
<1> QED BY <1>4 DEF guard

\* Nothing starts without the session and the scope it was approved with, or
\* once its cancellation is stored, but through the two holes that are named;
\* and however often the probe is asked for, it sends its three requests.
THEOREM NothingOutside == gaSpec => NothingStartsOutside
<1>1. IInv => \A a \in Assessment : sent[a] <= 3
  BY DEF IInv, Probed
<1> DEFINE A ==
      \A a \in Assessment :
        /\ LET x == Head(task'[a].todo)
               starts == /\ task'[a].at = "await"
                         /\ task[a].at # "await" \/ task'[a].todo # task[a].todo
           IN starts /\ x \notin {"scan", "settle"} =>
                /\ task[a].live
                /\ x # "discover" => grant[a] = "all" /\ ~row[a].cancel
                /\ grant[a] # "none"
        /\ sent'[a] # sent[a] => probe[a].live /\ grant[a] = "all" /\ ~row[a].cancel
<1>2. IInv /\ [gaNext]_gaVars => [A]_gaVars
  <2> SUFFICES ASSUME IInv, gaNext PROVE A
    OBVIOUS
  <2>1. ASSUME NEW a \in Assessment, task'[a].at = "await",
               task[a].at # "await" \/ task'[a].todo # task[a].todo,
               Head(task'[a].todo) \notin {"scan", "settle"}
        PROVE  /\ task[a].live /\ grant[a] # "none"
               /\ Head(task'[a].todo) # "discover" => grant[a] = "all" /\ ~row[a].cancel
    <3>1. PICK x, r, rest : Onward(a, x, r, rest)
      BY <2>1, NewAwait
    <3>2. task'[a].todo = rest /\ Admits(a, Head(rest), task[a].live) = "ok"
      BY <2>1, <3>1, OnwardGuarded
    <3> QED BY <2>1, <3>2, AdmitsMeans
  <2> QED BY <2>1, ProbeGuarded
<1>3. gaSpec => [](\A a \in Assessment : sent[a] <= 3)
  BY <1>1, Invariance, PTL
<1>4. gaSpec => [][A]_gaVars
  BY <1>2, Invariance, PTL DEF gaSpec
<1> QED BY <1>3, <1>4 DEF NothingStartsOutside

\* The stops are counted, and the service never tells a scan that is not there.
Counted == told \subseteq Assessment /\ stops \in 0 .. 2 * Restarts

\* The slot of the service is held exactly while the coroutine of the run
\* exists, and by one assessment at a time, however many creates wait.
THEOREM SlotHeldOnce ==
    ASSUME Restarts \in Nat PROVE gaSpec => [](gaTypeOK /\ OneAssessment)
<1>1. gaInit => Counted
  BY DEF gaInit, Counted
<1>2. Counted /\ [gaNext]_gaVars => Counted'
  <2> SUFFICES ASSUME Counted, [gaNext]_gaVars PROVE Counted'
    OBVIOUS
  <2>1. CASE UNCHANGED gaVars
    BY <2>1 DEF gaVars, Counted
  <2>2. CASE Stop
    <3>1. stops \in 0 .. 2 * Restarts /\ stops < 2 * Restarts /\ stops' = stops + 1 /\ told' = {}
      BY <2>2 DEF Stop, Counted
    <3>2. 2 * Restarts \in Nat
      OBVIOUS
    <3> HIDE DEF Counted
    <3>3. stops + 1 \in 0 .. 2 * Restarts
      BY <3>1, <3>2
    <3> QED BY <3>1, <3>3 DEF Counted
  <2>3. CASE Recover
    <3>1. stops \in 0 .. 2 * Restarts /\ stops % 2 # 0 /\ stops' = stops + 1 /\ told' = told
      BY <2>3 DEF Recover, Counted, ServerUp
    <3>2. stops # 2 * Restarts
      BY <3>1
    <3>3. stops + 1 \in 0 .. 2 * Restarts
      BY <3>1, <3>2
    <3> QED BY <3>1, <3>3 DEF Counted
  <2>4. ASSUME NEW a \in Assessment, CancelAssessment(a) PROVE Counted'
    BY <2>4 DEF CancelAssessment, Counted
  <2>5. CASE UNCHANGED <<told, stops>>
    BY <2>5 DEF Counted
  <2>6. gaNext => \/ Stop \/ Recover \/ UNCHANGED <<told, stops>>
                  \/ \E a \in Assessment : CancelAssessment(a)
    BY DEF gaNext, Runs, CreateStart, CreateValidated, CreateRefused, CreateDone, CreateLost,
           Begin, Return, Budget, RecordPair, ProbeStart, ProbeSend, ProbeAnswered, ProbeFails,
           SaveScope, Expire
  <2> QED BY <2>1, <2>2, <2>3, <2>4, <2>5, <2>6
<1>3. IInv /\ Counted => gaTypeOK /\ OneAssessment
  <2> SUFFICES ASSUME IInv, Counted PROVE gaTypeOK /\ OneAssessment
    OBVIOUS
  <2>1. ASSUME NEW a \in Assessment
        PROVE  /\ row[a].status \in {"none", "running", "completed", "awaiting_action_review",
                                     "paused", "error", "cancelled", "interrupted"}
               /\ row[a].cancel \in BOOLEAN /\ row[a].compared \in BOOLEAN
               /\ row[a].attempts \in 0..1
               /\ row[a].pairs \subseteq Pairs
    BY DEF IInv, Honest, Shape
  <2>2. ASSUME NEW a \in Assessment
        PROVE  /\ task[a].at \in {"none", "validating", "hashing", "begin", "await"}
               /\ task[a].at = "await" => task[a].todo # <<>>
               /\ a \in tasks <=> task[a].at \in {"begin", "await"}
    BY DEF IInv, Tasked
  <2>3. ASSUME NEW a \in Assessment
        PROVE  /\ probe[a].at \in {"none", "sleep", "request"} /\ probe[a].left \in 0..3
               /\ sent[a] \in Nat
    BY DEF IInv, Probed
  <2> QED BY <2>1, <2>2, <2>3 DEF IInv, Counted, gaTypeOK, OneAssessment
<1> QED BY <1>1, <1>2, <1>3, Invariance, PTL DEF gaSpec
=============================================================================
